------------------------------- MODULE Outbox -------------------------------
(***************************************************************************)
(* How what FamilyDB has to say leaves the house.  Every message is stored *)
(* first and sent after, under the lease of delivery.py, by whoever comes  *)
(* to it: the job or the turn that wrote it, or a job that sweeps what is  *)
(* left.  One that lands while the family is talking is held in memory     *)
(* (voice.Holds) for the next reply to carry.                              *)
(*                                                                         *)
(* One conversation, so at most one turn at a time (MessageTurns).  Time   *)
(* is abstract: a hold and an orphan's claim end at some moment.  How a    *)
(* due task becomes a message is a choice of the job's here.               *)
(***************************************************************************)
EXTENDS Naturals, FiniteSets

CONSTANTS
  Own,            \* what she says of her own accord: reminders, word of a find
  Reply,          \* replies turns store
  Worker,         \* threads
  Job,            \* the one that runs the reminders job
  Sweeper,        \* those that run run_deliveries
  Turner,         \* the one that answers
  RenewalMayFail, \* whether a live worker's claim can lapse under it
  TurnsOutlast,   \* whether a turn can take longer than voice.IN_TURN
  MaxMishaps      \* bound: sends that left no mark, and stops of the service

Out == Own \cup Reply

ASSUME OutboxAssumption ==
  /\ Own \cap Reply = {}
  /\ "none" \notin Out \cup Worker /\ "orphan" \notin Worker
  /\ Job \in Worker /\ Turner \in Worker /\ Sweeper \subseteq Worker
  /\ Job # Turner /\ Job \notin Sweeper /\ Turner \notin Sweeper
  /\ MaxMishaps \in Nat
  /\ RenewalMayFail \in BOOLEAN /\ TurnsOutlast \in BOOLEAN

VARIABLES
  \* The database.
  row,       \* "absent", "unsent", "delivered" (messages.delivered_at)
  cancelled, \* messages.cancelled_at, and by whom
  claim,     \* messages.claim_token
  live,      \* whether messages.claim_until is still ahead
  \* The service's memory.
  held,      \* voice.Holds: "no", "ahead" or "over", by Held.until
  taken,     \* what the turn under way means to say (pipeline._run_owned)
  pc,        \* where a worker is
  stage,     \* why it delivers
  list,      \* what it still has to deliver
  job,       \* the message it delivers now
  \* What the family heard, and the counters of the model.
  sent,      \* how often a message reached its chat by itself
  carriers,  \* the replies that say it
  lost,
  crashes

db == <<row, cancelled, claim, live>>
where == <<pc, stage, list, job>>
heard == <<sent, carriers, lost>>
vars == <<db, held, taken, where, heard, crashes>>

Nothing == "none"
Nobody == {Nothing, "orphan"}
\* From winning the lease to letting it go.
Leased == {"check", "send", "mark", "let_go"}
Places == Leased \cup {"idle", "list", "lease", "think", "done"}
Stages == {"idle", "hand_over", "due", "sweep", "turn", "reply"}

\* (slip) a claim that never lapses
FreeIfUnclaimed(o) == claim[o] = Nothing
\* claim: free or lapsed; nothing outbound is held for gathering.
Free(o) == claim[o] = Nothing \/ ~live[o]

\* undelivered
Undelivered == {o \in Out : row[o] = "unsent" /\ cancelled[o] = "no"}

Init ==
  /\ row = [o \in Out |-> "absent"]
  /\ cancelled = [o \in Out |-> "no"]
  /\ claim = [o \in Out |-> Nothing]
  /\ live = [o \in Out |-> FALSE]
  /\ held = [o \in Out |-> "no"]
  /\ taken = {}
  /\ pc = [w \in Worker |-> "idle"]
  /\ stage = [w \in Worker |-> "idle"]
  /\ list = [w \in Worker |-> {}]
  /\ job = [w \in Worker |-> Nothing]
  /\ sent = [o \in Out |-> 0]
  /\ carriers = [o \in Out |-> {}]
  /\ lost = 0
  /\ crashes = 0

-----------------------------------------------------------------------------
\* Who has something to deliver.

Start(w, why, what) ==
  /\ pc' = [pc EXCEPT ![w] = "list"]
  /\ stage' = [stage EXCEPT ![w] = why]
  /\ list' = [list EXCEPT ![w] = what]
  /\ UNCHANGED job

At(w, place) ==
  /\ pc' = [pc EXCEPT ![w] = place]
  /\ UNCHANGED <<stage, list, job>>

\* On to the next of its list.
Back(w) ==
  /\ pc' = [pc EXCEPT ![w] = "list"]
  /\ job' = [job EXCEPT ![w] = Nothing]
  /\ UNCHANGED <<stage, list>>

\* run_reminders stores what is due, nothing perhaps, in one transaction.
Queue(S) ==
  /\ pc[Job] = "idle"
  /\ \A o \in S : row[o] = "absent"
  /\ row' = [o \in Out |-> IF o \in S THEN "unsent" ELSE row[o]]
  /\ Start(Job, "hand_over", S)
  /\ UNCHANGED <<cancelled, claim, live, held, taken, heard, crashes>>

\* hand_over, in a chat where somebody is talking.
Hold(o) ==
  /\ pc[Job] = "list" /\ stage[Job] = "hand_over" /\ o \in list[Job]
  /\ held' = [held EXCEPT ![o] = "ahead"]
  /\ list' = [list EXCEPT ![Job] = @ \ {o}]
  /\ UNCHANGED <<db, taken, pc, stage, job, heard, crashes>>

\* voice.release: the holds that are over are dropped and their messages go.
TakeDue ==
  LET over == {o \in Out : held[o] = "over"} IN
  /\ pc[Job] = "list" /\ stage[Job] = "hand_over" /\ list[Job] = {}
  /\ held' = [o \in Out |-> IF o \in over THEN "no" ELSE held[o]]
  /\ Start(Job, "due", over)
  /\ UNCHANGED <<db, taken, heard, crashes>>

\* run_deliveries
Sweep(w) ==
  /\ pc[w] = "idle" /\ w \in Sweeper
  /\ Undelivered # {}
  /\ Start(w, "sweep", Undelivered)
  /\ UNCHANGED <<db, held, taken, heard, crashes>>

\* What the sweep passes over.
Passed(w, o) == stage[w] = "sweep" /\ held[o] = "ahead"

Skip(w, o) ==
  /\ pc[w] = "list" /\ o \in list[w] /\ Passed(w, o)
  /\ list' = [list EXCEPT ![w] = @ \ {o}]
  /\ UNCHANGED <<db, held, taken, pc, stage, job, heard, crashes>>

Deliver(w, o) ==
  /\ pc[w] = "list" /\ o \in list[w] /\ ~Passed(w, o)
  /\ list' = [list EXCEPT ![w] = @ \ {o}]
  /\ job' = [job EXCEPT ![w] = o]
  /\ pc' = [pc EXCEPT ![w] = "lease"]
  /\ UNCHANGED <<db, held, taken, stage, heard, crashes>>

AllGone(w) ==
  /\ pc[w] = "list" /\ stage[w] # "hand_over" /\ list[w] = {}
  /\ pc' = [pc EXCEPT ![w] = "idle"]
  /\ stage' = [stage EXCEPT ![w] = "idle"]
  /\ UNCHANGED <<db, held, taken, list, job, heard, crashes>>

-----------------------------------------------------------------------------
\* deliver: lease, look, send, mark, let go.

Refused(w) ==
  /\ pc[w] = "lease" /\ ~Free(job[w])
  /\ Back(w)
  /\ UNCHANGED <<db, held, taken, heard, crashes>>

\* (slip) whether it went is read before the claim is won, not under it
WinLeaseUnread(w) ==
  /\ pc[w] = "lease" /\ Free(job[w])
  /\ claim' = [claim EXCEPT ![job[w]] = w]
  /\ live' = [live EXCEPT ![job[w]] = TRUE]
  /\ At(w, "send")
  /\ UNCHANGED <<row, cancelled, held, taken, heard, crashes>>

WinLease(w) ==
  /\ pc[w] = "lease" /\ Free(job[w])
  /\ claim' = [claim EXCEPT ![job[w]] = w]
  /\ live' = [live EXCEPT ![job[w]] = TRUE]
  /\ At(w, "check")
  /\ UNCHANGED <<row, cancelled, held, taken, heard, crashes>>

Check(w) ==
  /\ pc[w] = "check"
  /\ At(w, IF job[w] \in Undelivered THEN "send" ELSE "let_go")
  /\ UNCHANGED <<db, held, taken, heard, crashes>>

Send(w) ==
  /\ pc[w] = "send"
  /\ sent' = [sent EXCEPT ![job[w]] = @ + 1]
  /\ At(w, "mark")
  /\ UNCHANGED <<db, held, taken, carriers, lost, crashes>>

\* (slip) marked whether or not the send went
SendFailsUnnoticed(w) ==
  /\ pc[w] = "send"
  /\ At(w, "mark")
  /\ UNCHANGED <<db, held, taken, heard, crashes>>

\* No sender for the channel here, or the send raised and nothing went.
SendFails(w) ==
  /\ pc[w] = "send"
  /\ At(w, "let_go")
  /\ UNCHANGED <<db, held, taken, heard, crashes>>

\* It went, and its answer was lost: to the code a failure like any other.
AnswerLost(w) ==
  /\ pc[w] = "send" /\ lost + crashes < MaxMishaps
  /\ sent' = [sent EXCEPT ![job[w]] = @ + 1]
  /\ lost' = lost + 1
  /\ At(w, "let_go")
  /\ UNCHANGED <<db, held, taken, carriers, crashes>>

MarkDelivered(w) ==
  /\ pc[w] = "mark"
  /\ row' = [row EXCEPT ![job[w]] = "delivered"]
  /\ At(w, "let_go")
  /\ UNCHANGED <<cancelled, claim, live, held, taken, heard, crashes>>

\* SQLite refuses the mark: the error ends the whole round.
MarkRefused(w) ==
  /\ pc[w] = "mark" /\ lost + crashes < MaxMishaps
  /\ lost' = lost + 1
  /\ list' = [list EXCEPT ![w] = {}]
  /\ pc' = [pc EXCEPT ![w] = "let_go"]
  /\ UNCHANGED <<db, held, taken, stage, job, sent, carriers, crashes>>

LetGo(w) ==
  LET mine == {o \in Out : claim[o] = w} IN
  /\ pc[w] = "let_go"
  /\ claim' = [o \in Out |-> IF o \in mine THEN Nothing ELSE claim[o]]
  /\ live' = [o \in Out |-> live[o] /\ o \notin mine]
  /\ Back(w)
  /\ UNCHANGED <<row, cancelled, held, taken, heard, crashes>>

-----------------------------------------------------------------------------
\* A turn, which says what is held for its conversation.

TakeHeld ==
  /\ pc[Turner] = "idle"
  /\ \E a \in Reply : row[a] = "absent"
  /\ taken' = {o \in Out : held[o] = "ahead"}
  /\ At(Turner, "think")
  /\ UNCHANGED <<db, held, heard, crashes>>

\* (slip) a failed turn that keeps what it took
FailTurnAndKeep ==
  /\ pc[Turner] = "think"
  /\ At(Turner, "idle")
  /\ UNCHANGED <<db, held, taken, heard, crashes>>

\* The turn fails: what it took is let go at once.
FailTurn ==
  /\ pc[Turner] = "think"
  /\ held' = [o \in Out |->
               IF o \in taken /\ held[o] # "no" THEN "over" ELSE held[o]]
  /\ taken' = {}
  /\ At(Turner, "idle")
  /\ UNCHANGED <<db, heard, crashes>>

\* The reply is stored and what it says is marked delivered, in one transaction.
Commit(a) ==
  /\ pc[Turner] = "think" /\ row[a] = "absent"
  /\ row' = [o \in Out |-> IF o = a THEN "unsent"
                           ELSE IF o \in taken THEN "delivered" ELSE row[o]]
  /\ carriers' = [o \in Out |-> carriers[o] \cup (IF o \in taken THEN {a} ELSE {})]
  /\ pc' = [pc EXCEPT ![Turner] = "done"]
  /\ list' = [list EXCEPT ![Turner] = {a}]
  /\ UNCHANGED <<cancelled, claim, live, held, taken, stage, job, sent, lost,
                 crashes>>

\* held.done, and then the caller delivers the reply.
Done ==
  /\ pc[Turner] = "done"
  /\ held' = [o \in Out |-> IF o \in taken THEN "no" ELSE held[o]]
  /\ taken' = {}
  /\ Start(Turner, "reply", list[Turner])
  /\ UNCHANGED <<db, heard, crashes>>

-----------------------------------------------------------------------------
\* Time, people and crashes.

HoldOver(o) ==
  /\ held[o] = "ahead"
  /\ o \in taken => TurnsOutlast
  /\ held' = [held EXCEPT ![o] = "over"]
  /\ UNCHANGED <<db, taken, where, heard, crashes>>

Lapse(o) ==
  /\ claim[o] # Nothing /\ live[o]
  /\ claim[o] \in Worker => RenewalMayFail
  /\ live' = [live EXCEPT ![o] = FALSE]
  /\ UNCHANGED <<row, cancelled, claim, held, taken, where, heard, crashes>>

\* (slip) an edit that does not ask whether its reminder is being sent
EditUnasked(o) ==
  /\ o \in Own /\ row[o] # "absent" /\ cancelled[o] = "no"
  /\ cancelled' = [cancelled EXCEPT ![o] = IF row[o] = "unsent" THEN "edit" ELSE @]
  /\ UNCHANGED <<row, claim, live, held, taken, where, heard, crashes>>

\* task_service.update takes a reminder back: refused while it is being sent.
Edit(o) ==
  /\ o \in Own /\ row[o] = "unsent" /\ cancelled[o] = "no"
  /\ ~(claim[o] # Nothing /\ live[o])
  /\ cancelled' = [cancelled EXCEPT ![o] = "edit"]
  /\ UNCHANGED <<row, claim, live, held, taken, where, heard, crashes>>

\* Somebody is taken off the list: their chat falls silent, asking nobody.
CancelUnsent ==
  /\ Undelivered # {}
  /\ cancelled' = [o \in Out |-> IF o \in Undelivered THEN "off" ELSE cancelled[o]]
  /\ UNCHANGED <<row, claim, live, held, taken, where, heard, crashes>>

\* The service stops and starts again: holds are in memory.
Crash ==
  /\ lost + crashes < MaxMishaps
  /\ crashes' = crashes + 1
  /\ claim' = [o \in Out |-> IF claim[o] \in Worker THEN "orphan" ELSE claim[o]]
  /\ held' = [o \in Out |-> "no"]
  /\ taken' = {}
  /\ pc' = [w \in Worker |-> "idle"]
  /\ stage' = [w \in Worker |-> "idle"]
  /\ list' = [w \in Worker |-> {}]
  /\ job' = [w \in Worker |-> Nothing]
  /\ UNCHANGED <<row, cancelled, live, heard>>

-----------------------------------------------------------------------------
DeliverStep(w) ==
  \/ \E o \in Out : Skip(w, o) \/ Deliver(w, o)
  \/ AllGone(w) \/ Refused(w) \/ WinLease(w) \/ Check(w) \/ Send(w)
  \/ SendFails(w) \/ AnswerLost(w) \/ MarkDelivered(w) \/ MarkRefused(w)
  \/ LetGo(w)

HandOver == (\E o \in Own : Hold(o)) \/ TakeDue
Turn == FailTurn \/ (\E a \in Reply : Commit(a)) \/ Done

Next ==
  \/ \E S \in SUBSET Own : Queue(S)
  \/ HandOver
  \/ TakeHeld \/ Turn
  \/ \E w \in Worker : Sweep(w) \/ DeliverStep(w)
  \/ \E o \in Out : HoldOver(o) \/ Lapse(o) \/ Edit(o)
  \/ CancelUnsent
  \/ Crash

Spec == Init /\ [][Next]_vars

\* Each thread goes on with what it does or comes round again, claims and
\* holds run out, and a send tried often enough goes.
FairSpec ==
  /\ Spec
  /\ WF_vars(Queue({}) \/ HandOver \/ DeliverStep(Job))
  /\ WF_vars(Turn \/ DeliverStep(Turner))
  /\ \A w \in Sweeper : WF_vars(Sweep(w) \/ DeliverStep(w))
  /\ \A w \in Worker : SF_vars(Send(w))
  /\ \A o \in Out : WF_vars(Lapse(o))
  /\ \A o \in Own : WF_vars(HoldOver(o))

-----------------------------------------------------------------------------
\* The types; and what is taken is taken by a turn under way.
TypeOK ==
  /\ row \in [Out -> {"absent", "unsent", "delivered"}]
  /\ cancelled \in [Out -> {"no", "edit", "off"}]
  /\ claim \in [Out -> Worker \cup Nobody]
  /\ live \in [Out -> BOOLEAN]
  /\ held \in [Out -> {"no", "ahead", "over"}]
  /\ taken \subseteq Out
  /\ taken # {} => pc[Turner] \in {"think", "done"}
  /\ pc \in [Worker -> Places]
  /\ stage \in [Worker -> Stages]
  /\ list \in [Worker -> SUBSET Out]
  /\ job \in [Worker -> Out \cup {Nothing}]
  /\ sent \in [Out -> Nat]
  /\ carriers \in [Out -> SUBSET Reply]
  /\ lost \in Nat
  /\ crashes \in Nat

\* What is marked delivered went, by itself or in a reply: a failure between
\* storing, sending and marking repeats a message, never swallows one.
DeliveredWasSaid ==
  \A o \in Out : row[o] = "delivered" => sent[o] > 0 \/ carriers[o] # {}

\* Among all who deliver, a message goes by itself once, and once more for
\* each lost answer or mark and each stop of the service.
SentOnce == \A o \in Out : sent[o] <= 1 + lost + crashes

\* On its way into a reply: held, taken by the turn under way, or with the job
\* that may hold it still.
Kept(o) ==
  \/ held[o] # "no" \/ o \in taken
  \/ stage[Job] = "hand_over" /\ o \in list[Job]

\* An accepted edit is not followed by the reminder it took back, sent by
\* itself, whoever had it on a list.  A reply may still say it, but only one
\* it was on its way into already: hand_over, Holds.take and the commit
\* (pipeline.py:716) look at no row, and nothing puts it there again.
EditHonoured ==
  [][\A o \in Out : cancelled[o] = "edit" =>
       /\ sent'[o] = sent[o]
       /\ ~Kept(o) => carriers'[o] = carriers[o] /\ ~Kept(o)']_vars

\* Everything stored and not taken back is said in the end, held or not,
\* whoever stopped in between.
Said(o) == sent[o] > 0 \/ \E a \in carriers[o] : sent[a] > 0
Withdrawn(o) == cancelled[o] # "no" \/ \E a \in carriers[o] : cancelled[a] # "no"
EverySaid == \A o \in Out : row[o] # "absent" ~> Said(o) \/ Withdrawn(o)

=============================================================================
