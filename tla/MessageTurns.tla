---------------------------- MODULE MessageTurns ----------------------------
(***************************************************************************)
(* What becomes of a message the family sends: pipeline.py answers it      *)
(* under a lease on its row (delivery.py, store/messages.py), alone or     *)
(* with the burst it ends, and the retry job takes over what a failed turn *)
(* or a stopped process left.  One action is one transaction, or one read  *)
(* whose answer is used later; between two actions of a worker anything    *)
(* else may happen, a crash of its process included.                       *)
(*                                                                         *)
(* Time is abstract: a claim is live until it lapses.  A mark nobody       *)
(* renews may lapse at any moment; a claim its worker renews only when     *)
(* RenewalMayFail.  What the reply says, and the sending of it, is not     *)
(* here (see Outbox).                                                      *)
(***************************************************************************)
EXTENDS Naturals, FiniteSets

CONSTANTS
  Msg,            \* the updates a channel may hand over, duplicates being one
  Digest,         \* those the digest job writes itself (handle_synthetic)
  Recorded,       \* voice notes and photos: stored as a mark, words later
  Gathered,       \* Telegram text while settings.gather_seconds is not zero
  Member, From,   \* the family, and who sends each message
  Chat, ChatOf,   \* the chats, and where each message is sent
  Process,        \* the service, and a command run beside it
  Worker, ProcOf, \* threads, and the process each runs in
  RetryWorker,    \* the workers that run the retry job
  MaxRetries,     \* settings.retry_max_attempts
  RenewalMayFail, \* whether a live worker's claim can lapse under it
  MaxCrashes,     \* bound: how often a process stops
  MaxResets       \* bound: how often `db retry-failed --reset` is run

Marks == {"none", "gather", "orphan"}

ASSUME WorkersAssumption ==
  /\ Worker \cap Marks = {}
  /\ RetryWorker \subseteq Worker
  /\ ProcOf \in [Worker -> Process]

ASSUME MessagesAssumption ==
  /\ IsFiniteSet(Msg)
  /\ Digest \subseteq Msg
  /\ Recorded \subseteq Msg \ Digest
  /\ Gathered \subseteq Msg \ (Digest \cup Recorded)
  /\ "none" \notin Msg
  /\ From \in [Msg -> Member]
  /\ ChatOf \in [Msg -> Chat]

ASSUME SettingsAssumption ==
  /\ MaxRetries \in Nat
  /\ MaxCrashes \in Nat
  /\ MaxResets \in Nat
  /\ RenewalMayFail \in BOOLEAN

VARIABLES
  \* The database, which a crash leaves alone.
  status,   \* messages.status, "absent" before the row
  giveUp,   \* messages.give_up
  retries,  \* messages.retries
  words,    \* whether messages.text holds words, or only the mark
  error,    \* messages.error
  replyTo,  \* messages.reply_to of an inbound row: the one it is folded into
  rowId,    \* messages.id, 0 before the row
  claim,    \* messages.claim_token
  live,     \* whether messages.claim_until is still ahead
  answers,  \* outbound rows that answer it
  told,     \* whether an outbound row says it failed
  active,   \* members.active
  \* The processes, whose memory a crash loses.
  chatLock, \* pipeline._chat_locks, by process and chat
  pc,       \* where a worker is
  job,      \* the message it works on
  mode,     \* which entry point it came through
  burst,    \* the earlier messages it means to answer too
  seen,     \* row.retries as it was read under the lease
  failing,  \* the failure it is about to write down
  \* Counters of the model.
  turns,    \* how many turns were begun on a message
  crashes,
  resets

rows == <<status, giveUp, retries, words, error, replyTo, rowId>>
claims == <<claim, live>>
said == <<answers, told>>
workers == <<pc, job, mode, burst, seen, failing>>
counters == <<turns, crashes, resets>>
vars == <<rows, claims, said, active, chatLock, workers, counters>>

Nothing == "none"
Idle == [error |-> Nothing, notice |-> FALSE]
\* Why a message failed, as far as anything below tells the reasons apart.
Errors == {Nothing, "member_inactive", "stopped", "turn"}
Modes == {"handle", "gather", "digest", "retry"}

\* Where a worker holds the chat lock, and where the lease as well.
Leased == {"claim_also", "fold", "check", "gate", "think", "fail", "release"}
Locked == Leased \cup {"lease"}
Places == Locked \cup {"idle", "store", "hold", "lock"}

-----------------------------------------------------------------------------
\* The queries of store/messages.py.

Stored(m) == status[m] # "absent"
\* (slip) a retry that does not look whether the message was answered
OpenUnlessGivenUp(m) == Stored(m) /\ ~giveUp[m]
Open(m) == status[m] \in {"received", "failed"} /\ ~giveUp[m]
\* (slip) a claim that never lapses
FreeIfUnclaimed(m) == claim[m] = Nothing
Free(m) == claim[m] = Nothing \/ ~live[m]
\* (slip) any claim taken for the gathering mark
HeldIfClaimed(m) == claim[m] # Nothing
Held(m) == claim[m] = "gather"

Pending(m) == Open(m) /\ retries[m] < MaxRetries /\ Free(m)

\* (slip) a claim taken from whoever has it
ClaimableAlways(m) == Stored(m)
\* claim: free, lapsed or held for gathering.
Claimable(m) == Free(m) \/ Held(m)

Gathering(m) ==
  {n \in Msg : /\ status[n] = "received" /\ ~giveUp[n]
               /\ Held(n) /\ live[n]
               /\ ChatOf[n] = ChatOf[m] /\ From[n] = From[m]}
Later(m) == {n \in Gathering(m) : rowId[n] > rowId[m]}
Earlier(m) == {n \in Gathering(m) : rowId[n] < rowId[m]}

\* (slip) a change to the family that does not ask
NotAsked(p) == p \notin Member
BeingAnswered(p) == \E m \in Msg : From[m] = p /\ claim[m] # Nothing /\ live[m]

NextId == Cardinality({m \in Msg : Stored(m)}) + 1

LockOf(w) == <<ProcOf[w], ChatOf[job[w]]>>

\* A failure reported to the sender at once (notify), unless a retry or the
\* digest ran into it.
Notify(w) == mode[w] \in {"handle", "gather"}

-----------------------------------------------------------------------------
Init ==
  /\ status = [m \in Msg |-> "absent"]
  /\ giveUp = [m \in Msg |-> FALSE]
  /\ retries = [m \in Msg |-> 0]
  /\ words = [m \in Msg |-> FALSE]
  /\ error = [m \in Msg |-> Nothing]
  /\ replyTo = [m \in Msg |-> Nothing]
  /\ rowId = [m \in Msg |-> 0]
  /\ claim = [m \in Msg |-> Nothing]
  /\ live = [m \in Msg |-> FALSE]
  /\ answers = [m \in Msg |-> 0]
  /\ told = [m \in Msg |-> FALSE]
  /\ active = [p \in Member |-> TRUE]
  /\ chatLock = [l \in Process \X Chat |-> Nothing]
  /\ pc = [w \in Worker |-> "idle"]
  /\ job = [w \in Worker |-> Nothing]
  /\ mode = [w \in Worker |-> "handle"]
  /\ burst = [w \in Worker |-> {}]
  /\ seen = [w \in Worker |-> 0]
  /\ failing = [w \in Worker |-> Idle]
  /\ turns = [m \in Msg |-> 0]
  /\ crashes = 0
  /\ resets = 0

\* What a step of a turn leaves alone: everything but the row, or but the claims.
Move(w, place) ==
  /\ pc' = [pc EXCEPT ![w] = place]
  /\ UNCHANGED <<job, mode, burst, seen, failing>>

Take(w, m, how, place) ==
  /\ pc' = [pc EXCEPT ![w] = place]
  /\ job' = [job EXCEPT ![w] = m]
  /\ mode' = [mode EXCEPT ![w] = how]
  /\ UNCHANGED <<burst, seen, failing>>

\* Back to the pool.
Leave(w) ==
  /\ pc' = [pc EXCEPT ![w] = "idle"]
  /\ job' = [job EXCEPT ![w] = Nothing]
  /\ mode' = [mode EXCEPT ![w] = "handle"]
  /\ burst' = [burst EXCEPT ![w] = {}]
  /\ seen' = [seen EXCEPT ![w] = 0]
  /\ failing' = [failing EXCEPT ![w] = Idle]

\* The same, with the chat's lock let go.
Return(w) ==
  /\ chatLock' = [chatLock EXCEPT ![LockOf(w)] = Nothing]
  /\ Leave(w)

-----------------------------------------------------------------------------
\* Receiving.

\* The entry point a message comes through.
ModeOf(m) == IF m \in Gathered THEN "gather"
             ELSE IF m \in Digest THEN "digest" ELSE "handle"

\* An update not seen before, from somebody on the list; a stranger's is not
\* kept.
Resolve(w, m) ==
  /\ pc[w] = "idle" /\ w \notin RetryWorker
  /\ ~Stored(m) /\ active[From[m]]
  /\ Take(w, m, ModeOf(m), "store")
  /\ UNCHANGED <<rows, claims, said, active, chatLock, counters>>

StoreInbound(w) ==
  /\ pc[w] = "store" /\ ~Stored(job[w])
  /\ status' = [status EXCEPT ![job[w]] = "received"]
  /\ words' = [words EXCEPT ![job[w]] = job[w] \notin Recorded]
  /\ rowId' = [rowId EXCEPT ![job[w]] = NextId]
  /\ Move(w, IF mode[w] = "gather" THEN "hold" ELSE "lock")
  /\ UNCHANGED <<giveUp, retries, error, replyTo, claims, said, active,
                 chatLock, counters>>

\* The same update landed at the same moment: the unique index refuses it.
ArrivedTwice(w) ==
  /\ pc[w] = "store" /\ Stored(job[w])
  /\ Leave(w)
  /\ UNCHANGED <<rows, claims, said, active, chatLock, counters>>

\* receive's second transaction: hold the row, whatever held it.
HoldForGathering(w) ==
  /\ pc[w] = "hold"
  /\ claim' = [claim EXCEPT ![job[w]] = "gather"]
  /\ live' = [live EXCEPT ![job[w]] = TRUE]
  /\ Move(w, "lock")
  /\ UNCHANGED <<rows, said, active, chatLock, counters>>

\* run_retries picks a row that was pending when it looked.
Retry(w, m) ==
  /\ pc[w] = "idle" /\ w \in RetryWorker
  /\ Pending(m)
  /\ Take(w, m, "retry", "lock")
  /\ UNCHANGED <<rows, claims, said, active, chatLock, counters>>

-----------------------------------------------------------------------------
\* Taking the message: the chat's lock, then the lease.

\* (slip) turns in one chat at once
ChatNotAsked(w) == pc[w] = "lock"
ChatFree(w) == pc[w] = "lock" /\ chatLock[LockOf(w)] = Nothing

TakeChatLock(w) ==
  /\ ChatFree(w) /\ mode[w] # "gather"
  /\ chatLock' = [chatLock EXCEPT ![LockOf(w)] = w]
  /\ Move(w, "lease")
  /\ UNCHANGED <<rows, claims, said, active, counters>>

\* answer_gathered: nothing to do when the message was dealt with meanwhile or
\* a later one of the burst will answer it.
LeaveToAnother(w) ==
  /\ ChatFree(w) /\ mode[w] = "gather"
  /\ ~Open(job[w]) \/ Later(job[w]) # {}
  /\ Return(w)
  /\ UNCHANGED <<rows, claims, said, active, counters>>

AnswerGathered(w) ==
  /\ ChatFree(w) /\ mode[w] = "gather"
  /\ Open(job[w]) /\ Later(job[w]) = {}
  /\ burst' = [burst EXCEPT ![w] = Earlier(job[w])]
  /\ chatLock' = [chatLock EXCEPT ![LockOf(w)] = w]
  /\ pc' = [pc EXCEPT ![w] = "lease"]
  /\ UNCHANGED <<rows, claims, said, active, job, mode, seen, failing,
                 counters>>

LeaseRefused(w) ==
  /\ pc[w] = "lease" /\ ~Claimable(job[w])
  /\ Return(w)
  /\ UNCHANGED <<rows, claims, said, active, counters>>

\* What messages.get shows is kept: the retries in it are compared later.
LookAtRow(w, place) ==
  /\ pc' = [pc EXCEPT ![w] = place]
  /\ seen' = [seen EXCEPT ![w] = retries[job[w]]]
  /\ UNCHANGED <<job, mode, burst, failing>>

\* (slip) the row as it was before the claim was won
TakeLeaseUnread(w) ==
  /\ pc[w] = "lease" /\ Claimable(job[w])
  /\ claim' = [claim EXCEPT ![job[w]] = w]
  /\ live' = [live EXCEPT ![job[w]] = TRUE]
  /\ LookAtRow(w, IF burst[w] # {} THEN "claim_also" ELSE "check")
  /\ UNCHANGED <<rows, said, active, chatLock, counters>>

\* The claim is won and the row read again under it.
TakeLease(w) ==
  /\ pc[w] = "lease" /\ Claimable(job[w])
  /\ claim' = [claim EXCEPT ![job[w]] = w]
  /\ live' = [live EXCEPT ![job[w]] = TRUE]
  /\ LookAtRow(w, IF ~Open(job[w]) THEN "release"
                  ELSE IF burst[w] # {} THEN "claim_also" ELSE "check")
  /\ UNCHANGED <<rows, said, active, chatLock, counters>>

\* claim_also: the earlier ones still held, in one transaction.
ClaimAlso(w) ==
  LET taken == {n \in burst[w] : Held(n)} IN
  /\ pc[w] = "claim_also"
  /\ claim' = [n \in Msg |-> IF n \in taken THEN w ELSE claim[n]]
  /\ live' = [n \in Msg |-> live[n] \/ n \in taken]
  /\ burst' = [burst EXCEPT ![w] = taken]
  /\ pc' = [pc EXCEPT ![w] = IF taken = {} THEN "check" ELSE "fold"]
  /\ UNCHANGED <<rows, said, active, chatLock, job, mode, seen, failing,
                 counters>>

FoldInto(w) ==
  /\ pc[w] = "fold"
  /\ status' = [n \in Msg |-> IF n \in burst[w] THEN "processed" ELSE status[n]]
  /\ replyTo' = [n \in Msg |-> IF n \in burst[w] THEN job[w] ELSE replyTo[n]]
  /\ Move(w, "check")
  /\ UNCHANGED <<giveUp, retries, words, error, rowId, claims, said, active,
                 chatLock, counters>>

-----------------------------------------------------------------------------
\* Before the turn: the sender, the day's number, the recording, the retries.

\* give_up in a transaction of its own; the failure follows in the next.
GiveUp(w, why, notice) ==
  /\ giveUp' = [giveUp EXCEPT ![job[w]] = TRUE]
  /\ failing' = [failing EXCEPT ![w] = [error |-> why, notice |-> notice]]
  /\ pc' = [pc EXCEPT ![w] = "fail"]
  /\ UNCHANGED <<status, retries, words, error, replyTo, rowId, claims, said,
                 active, chatLock, job, mode, burst, seen, counters>>

DropInactive(w) ==
  /\ pc[w] = "check" /\ ~active[From[job[w]]]
  /\ status' = [status EXCEPT ![job[w]] = "failed"]
  /\ error' = [error EXCEPT ![job[w]] = "member_inactive"]
  /\ giveUp' = [giveUp EXCEPT ![job[w]] = TRUE]
  /\ Move(w, "release")
  /\ UNCHANGED <<retries, words, replyTo, rowId, claims, said, active,
                 chatLock, counters>>

Checking(w) == pc[w] = "check" /\ active[From[job[w]]]

RefuseKid(w) ==
  /\ Checking(w) /\ job[w] \notin Digest
  /\ GiveUp(w, "turn", TRUE)

\* Only the worker that received the recording can fetch it.
HasRecording(w) == job[w] \in Recorded /\ mode[w] = "handle"

Hear(w) ==
  /\ Checking(w) /\ HasRecording(w)
  /\ words' = [words EXCEPT ![job[w]] = TRUE]
  /\ Move(w, "gate")
  /\ UNCHANGED <<status, giveUp, retries, error, replyTo, rowId, claims, said,
                 active, chatLock, counters>>

NotHeard(w) ==
  /\ Checking(w) /\ HasRecording(w)
  /\ GiveUp(w, "turn", TRUE)

StoppedBeforeHeard(w) ==
  /\ Checking(w) /\ ~HasRecording(w) /\ ~words[job[w]]
  /\ GiveUp(w, "stopped", TRUE)

ReadWords(w) ==
  /\ Checking(w) /\ ~HasRecording(w) /\ words[job[w]]
  /\ Move(w, "gate")
  /\ UNCHANGED <<rows, claims, said, active, chatLock, counters>>

\* Compared as they were read under the lease (see LookAtRow).
RetriesSpent(w) ==
  /\ pc[w] = "gate" /\ mode[w] = "retry" /\ seen[w] >= MaxRetries
  /\ Move(w, "release")
  /\ UNCHANGED <<rows, claims, said, active, chatLock, counters>>

\* (slip) a retry made of whatever the job's list named when it was drawn up
StartTurnPastLimit(w) ==
  /\ pc[w] = "gate"
  /\ retries' = [retries EXCEPT ![job[w]] =
                   IF mode[w] = "retry" THEN @ + 1 ELSE @]
  /\ turns' = [turns EXCEPT ![job[w]] = @ + 1]
  /\ Move(w, "think")
  /\ UNCHANGED <<status, giveUp, words, error, replyTo, rowId, claims, said,
                 active, chatLock, crashes, resets>>

\* A retry is counted before it is made, so a crash in it counts too; the row
\* is bumped whatever it holds by then.
StartTurn(w) ==
  /\ pc[w] = "gate"
  /\ \/ mode[w] # "retry" /\ UNCHANGED retries
     \/ /\ mode[w] = "retry" /\ seen[w] < MaxRetries
        /\ retries' = [retries EXCEPT ![job[w]] = @ + 1]
  /\ turns' = [turns EXCEPT ![job[w]] = @ + 1]
  /\ Move(w, "think")
  /\ UNCHANGED <<status, giveUp, words, error, replyTo, rowId, claims, said,
                 active, chatLock, crashes, resets>>

-----------------------------------------------------------------------------
\* The turn, and how it ends.

\* While the model thinks, its tools write on their own connections.
InTurn(w) == pc[w] = "think"

\* The reply and the processed mark are one transaction.
Succeed(w) ==
  /\ InTurn(w)
  /\ answers' = [answers EXCEPT ![job[w]] = @ + 1]
  /\ status' = [status EXCEPT ![job[w]] = "processed"]
  /\ error' = [error EXCEPT ![job[w]] = Nothing]
  /\ Move(w, "release")
  /\ UNCHANGED <<giveUp, retries, words, replyTo, rowId, claims, told,
                 active, chatLock, counters>>

\* (slip) the reason written where the status belongs
MarkFailedSwapped(w, why, notice) ==
  /\ status' = [status EXCEPT ![job[w]] = why]
  /\ error' = [error EXCEPT ![job[w]] = why]
  /\ told' = [told EXCEPT ![job[w]] = @ \/ notice]
  /\ Move(w, "release")
  /\ UNCHANGED <<giveUp, retries, words, replyTo, rowId, claims, answers,
                 active, chatLock, counters>>

\* _fail: the failure and its notice, one transaction.
MarkFailed(w, why, notice) ==
  /\ status' = [status EXCEPT ![job[w]] = "failed"]
  /\ error' = [error EXCEPT ![job[w]] = why]
  /\ told' = [told EXCEPT ![job[w]] = @ \/ notice]
  /\ Move(w, "release")
  /\ UNCHANGED <<giveUp, retries, words, replyTo, rowId, claims, answers,
                 active, chatLock, counters>>

FailForNow(w) == InTurn(w) /\ MarkFailed(w, "turn", Notify(w))

\* No key, a kid's share used up, or a failure no retry would mend.
FailForGood(w) == InTurn(w) /\ GiveUp(w, "turn", Notify(w))

\* Out of steps: whoever asked is told even on a retry.
OutOfSteps(w) ==
  InTurn(w) /\ GiveUp(w, "turn", job[w] \notin Digest)

Fail(w) ==
  pc[w] = "fail" /\ MarkFailed(w, failing[w].error, failing[w].notice)

\* The lease's finally: every row under the claim is let go, or the claim is
\* left to lapse because the database refused.
Release(w) ==
  LET mine == {n \in Msg : claim[n] = w} IN
  /\ pc[w] = "release"
  /\ claim' = [n \in Msg |-> IF n \in mine THEN Nothing ELSE claim[n]]
  /\ live' = [n \in Msg |-> live[n] /\ n \notin mine]
  /\ Return(w)
  /\ UNCHANGED <<rows, said, active, counters>>

ReleaseRefused(w) ==
  /\ pc[w] = "release"
  /\ claim' = [n \in Msg |-> IF claim[n] = w THEN "orphan" ELSE claim[n]]
  /\ Return(w)
  /\ UNCHANGED <<live, rows, said, active, counters>>

-----------------------------------------------------------------------------
\* Time, people and crashes.

Lapse(m) ==
  /\ claim[m] # Nothing /\ live[m]
  /\ claim[m] \in Worker => RenewalMayFail
  /\ live' = [live EXCEPT ![m] = FALSE]
  /\ UNCHANGED <<rows, claim, said, active, chatLock, workers, counters>>

\* The Renewer's round for one claim: every row under it.
Renew(w) ==
  /\ pc[w] \in Leased
  /\ live' = [m \in Msg |-> live[m] \/ claim[m] = w]
  /\ UNCHANGED <<rows, claim, said, active, chatLock, workers, counters>>

\* family.change: refused while somebody's message is claimed.
SwitchOff(p) ==
  /\ active[p] /\ ~BeingAnswered(p)
  /\ active' = [active EXCEPT ![p] = FALSE]
  /\ LET dropped == {m \in Msg : From[m] = p /\ Open(m)} IN
     /\ status' = [m \in Msg |-> IF m \in dropped THEN "failed" ELSE status[m]]
     /\ error' = [m \in Msg |-> IF m \in dropped THEN "member_inactive"
                                ELSE error[m]]
     /\ giveUp' = [m \in Msg |-> m \in dropped \/ giveUp[m]]
  /\ UNCHANGED <<retries, words, replyTo, rowId, claims, said, chatLock,
                 workers, counters>>

SwitchOn(p) ==
  /\ ~active[p] /\ ~BeingAnswered(p)
  /\ active' = [active EXCEPT ![p] = TRUE]
  /\ UNCHANGED <<rows, claims, said, chatLock, workers, counters>>

\* (slip) a reset that takes up what was given up on purpose
ResetEverything ==
  LET ended == {m \in Msg : status[m] = "failed"} IN
  /\ resets < MaxResets
  /\ retries' = [m \in Msg |-> IF m \in ended THEN 0 ELSE retries[m]]
  /\ giveUp' = [m \in Msg |-> giveUp[m] /\ m \notin ended]
  /\ resets' = resets + 1
  /\ UNCHANGED <<status, words, error, replyTo, rowId, claims, said, active,
                 chatLock, workers, turns, crashes>>

\* `db retry-failed --reset`.
ResetRetries ==
  LET spent == {m \in Msg : status[m] = "failed" /\ ~giveUp[m]
                            /\ retries[m] >= MaxRetries} IN
  /\ resets < MaxResets
  /\ retries' = [m \in Msg |-> IF m \in spent THEN 0 ELSE retries[m]]
  /\ resets' = resets + 1
  /\ UNCHANGED <<status, giveUp, words, error, replyTo, rowId, claims, said,
                 active, chatLock, workers, turns, crashes>>

\* A process stops and starts again: its threads, locks and pauses are gone,
\* its claims belong to nobody.
Crash(p) ==
  LET lost == {w \in Worker : ProcOf[w] = p} IN
  /\ crashes < MaxCrashes
  /\ crashes' = crashes + 1
  /\ claim' = [m \in Msg |-> IF claim[m] \in lost THEN "orphan" ELSE claim[m]]
  /\ chatLock' = [l \in Process \X Chat |->
                    IF l[1] = p THEN Nothing ELSE chatLock[l]]
  /\ pc' = [w \in Worker |-> IF w \in lost THEN "idle" ELSE pc[w]]
  /\ job' = [w \in Worker |-> IF w \in lost THEN Nothing ELSE job[w]]
  /\ mode' = [w \in Worker |-> IF w \in lost THEN "handle" ELSE mode[w]]
  /\ burst' = [w \in Worker |-> IF w \in lost THEN {} ELSE burst[w]]
  /\ seen' = [w \in Worker |-> IF w \in lost THEN 0 ELSE seen[w]]
  /\ failing' = [w \in Worker |-> IF w \in lost THEN Idle ELSE failing[w]]
  /\ UNCHANGED <<rows, live, said, active, turns, resets>>

-----------------------------------------------------------------------------
\* What a worker with a message does next; it never stops on its own.
Step(w) ==
  \/ StoreInbound(w) \/ ArrivedTwice(w) \/ HoldForGathering(w)
  \/ TakeChatLock(w) \/ LeaveToAnother(w) \/ AnswerGathered(w)
  \/ LeaseRefused(w) \/ TakeLease(w) \/ ClaimAlso(w) \/ FoldInto(w)
  \/ DropInactive(w) \/ RefuseKid(w) \/ Hear(w) \/ NotHeard(w)
  \/ StoppedBeforeHeard(w) \/ ReadWords(w) \/ RetriesSpent(w) \/ StartTurn(w)
  \/ Succeed(w) \/ FailForNow(w) \/ FailForGood(w)
  \/ OutOfSteps(w) \/ Fail(w) \/ Release(w)
  \/ ReleaseRefused(w)

Next ==
  \/ \E w \in Worker : Step(w) \/ Renew(w)
  \/ \E w \in Worker, m \in Msg : Resolve(w, m) \/ Retry(w, m)
  \/ \E m \in Msg : Lapse(m)
  \/ \E p \in Member : SwitchOff(p) \/ SwitchOn(p)
  \/ ResetRetries
  \/ \E p \in Process : Crash(p)

Spec == Init /\ [][Next]_vars

\* A worker with a message goes on, the retry job comes round, and a mark or
\* claim nobody renews runs out.
FairSpec ==
  /\ Spec
  /\ \A w \in Worker : WF_vars(Step(w))
  /\ \A w \in RetryWorker : WF_vars(\E m \in Msg : Retry(w, m))
  /\ \A m \in Msg : WF_vars(Lapse(m))

-----------------------------------------------------------------------------
\* The types.
TypeOK ==
  /\ status \in [Msg -> {"absent", "received", "processed", "failed"}]
  /\ giveUp \in [Msg -> BOOLEAN]
  /\ retries \in [Msg -> Nat]
  /\ words \in [Msg -> BOOLEAN]
  /\ error \in [Msg -> Errors]
  /\ replyTo \in [Msg -> Msg \cup {Nothing}]
  /\ rowId \in [Msg -> Nat]
  /\ claim \in [Msg -> Worker \cup Marks]
  /\ live \in [Msg -> BOOLEAN]
  /\ answers \in [Msg -> Nat]
  /\ told \in [Msg -> BOOLEAN]
  /\ active \in [Member -> BOOLEAN]
  /\ chatLock \in [Process \X Chat -> Worker \cup {Nothing}]
  /\ pc \in [Worker -> Places]
  /\ job \in [Worker -> Msg \cup {Nothing}]
  /\ mode \in [Worker -> Modes]
  /\ burst \in [Worker -> SUBSET Msg]
  /\ seen \in [Worker -> Nat]
  /\ failing \in [Worker -> [error : Errors, notice : BOOLEAN]]
  /\ turns \in [Msg -> Nat]
  /\ crashes \in Nat
  /\ resets \in Nat

\* No two workers are at one message at once, by its lease across processes
\* and by the chat's lock within one (delivery.lease, _one_at_a_time).
OneTurnEach ==
  \A v, w \in Worker :
    v # w /\ pc[v] \in Leased /\ pc[w] \in Leased => job[v] # job[w]

\* However often a message is retried, taken over or handed in again, one
\* reply answers it, and one folded into a later message gets none of its own.
AnsweredOnce ==
  \A m \in Msg : /\ answers[m] <= 1
                 /\ replyTo[m] # Nothing => answers[m] = 0

\* folded_into looks one level down, so a burst is only ever folded into a
\* message that is not itself folded: otherwise its words would reach no turn.
NoFoldChain ==
  \A m, n \in Msg :
    replyTo[m] = n =>
      /\ replyTo[n] = Nothing
      /\ status[m] = "processed" /\ answers[m] = 0
      /\ rowId[m] < rowId[n]
      /\ From[m] = From[n] /\ ChatOf[m] = ChatOf[n]

\* Every turn is paid for: two jobs with the same list, a stop in a turn and a
\* reset under one notwithstanding, a message costs its first try and
\* MaxRetries more, and that again only for a reset (pipeline.py: the retries
\* compared are those read under the lease, the bump asks for nothing).
TurnsBounded ==
  \A m \in Msg : turns[m] <= 1 + MaxRetries * (1 + resets)

\* A message answered, folded or given up never starts another turn, whatever
\* a worker that waited for the lock believed when it set out.
SettledStays ==
  [][\A m \in Msg : status[m] = "processed" \/ giveUp[m]
                      => turns'[m] = turns[m]]_vars

\* No model is asked on behalf of somebody switched off: the change is refused
\* while a claim on one of their messages lives (family.change).
NobodySwitchedOff ==
  \A w \in Worker : pc[w] \in {"gate", "think"}
                      => active[From[job[w]]]

\* Every message kept comes to an end: answered, given up or out of tries,
\* itself or the one it was folded into, whoever stopped in between.
Carrier(m) == IF replyTo[m] = Nothing THEN m ELSE replyTo[m]
Settled(m) == answers[m] > 0 \/ giveUp[m] \/ retries[m] >= MaxRetries
EverySettles == \A m \in Msg : Stored(m) ~> Settled(Carrier(m))

\* The promise, kept: a message somebody is working on is still open.
Quiet(m) == \A w \in Worker : job[w] # m
FateOf(m) ==
  CASE ~Stored(m) -> "unsent"
    [] answers[m] > 0 -> "answered"
    [] replyTo[m] # Nothing /\ answers[m] = 0 -> "folded"
    [] OTHER -> IF ~Quiet(m) THEN "open"
                ELSE IF giveUp[m] THEN "dropped"
                ELSE IF retries[m] >= MaxRetries THEN "spent" ELSE "open"
Promise == INSTANCE MessageFate WITH fate <- [m \in Msg |-> FateOf(m)]
KeepsPromise == Promise!FateSpec

=============================================================================
