------------------------------ MODULE PlanDays ------------------------------
(***************************************************************************)
(* What is said about a plan round its day: the heads-up the evening       *)
(* before (jobs/plan_checks.py) and the question the day after             *)
(* (jobs/follow_ups.py).  Each is said once for a plan, and again once the *)
(* plan has moved.  A job reads the plans in line with Google, lists what  *)
(* is due, and goes through its list one transaction at a time: meanwhile  *)
(* the same job runs again from the catch-up or by hand, people move or    *)
(* cancel plans here and in Google, say how it went, and the service       *)
(* stops.  How a message is then sent is in Outbox, how plans and events   *)
(* are brought in line in Calendar: one step here.                         *)
(***************************************************************************)
EXTENDS Naturals, FiniteSets

CONSTANTS
  Plan,          \* plans, made or not yet
  None,          \* no plan
  LastDay,       \* bound: the days are 1..LastDay
  FollowUpDays,  \* FOLLOW_UP_DAYS
  MaxLength,     \* bound: how many days after its first a plan may end
  Follower,      \* runs of run_follow_ups: the job, the catch-up, by hand
  Checker,       \* runs of run_plan_checks: the job, the catch-up
  Hasty,         \* whether plans change, or a day ends, under a run
  MaxMissed      \* bound: days that end with no whole run of the follow-ups

Run == Follower \cup Checker
Day == 1..LastDay
Same == 0
Gone == LastDay + 1

ASSUME PlanDaysAssumption ==
  /\ LastDay \in Nat \ {0} /\ FollowUpDays \in Nat /\ MaxLength \in Nat
  /\ Follower \cap Checker = {} /\ None \notin Plan
  /\ Hasty \in BOOLEAN /\ MaxMissed \in Nat

VARIABLES
  today,
  missed,    \* how many days ended without a whole run of the follow-ups
  whole,     \* whether one went through today
  plans,     \* the plans table
  google,    \* what somebody did to the event that no sync has seen: Same,
             \* the day it moved to, or Gone
  outcome,   \* the last day an outcome was recorded for; 0 for none
  pc,        \* how far each run is
  list,      \* the plans it has yet to go through, as it read them
  copy,      \* the one it is at
  skipped,   \* whether it left one waiting for a sender
  asked,     \* how often people were asked about the plan, since it moved
  warned     \* how often they had a heads-up, since it moved

world == <<today, missed, whole>>
said == <<asked, warned>>
vars == <<world, plans, google, outcome, pc, list, copy, skipped, said>>

Row == [start : Day, length : 0..MaxLength, live : BOOLEAN, chat : BOOLEAN,
        followed : BOOLEAN, checked : BOOLEAN]
Unmade == [start |-> 1, length |-> 0, live |-> FALSE, chat |-> FALSE,
           followed |-> FALSE, checked |-> FALSE]
End(r) == r.start + r.length
NoCopy == [id |-> None, row |-> Unmade]

Init ==
  /\ today = 1 /\ missed = 0 /\ whole = FALSE
  /\ plans = [p \in Plan |-> Unmade]
  /\ google = [p \in Plan |-> Same]
  /\ outcome = [p \in Plan |-> 0]
  /\ pc = [r \in Run |-> "idle"]
  /\ list = [r \in Run |-> {}]
  /\ copy = [r \in Run |-> NoCopy]
  /\ skipped = [r \in Run |-> FALSE]
  /\ asked = [p \in Plan |-> 0] /\ warned = [p \in Plan |-> 0]

Idle == \A r \in Run : pc[r] = "idle"
GoTo(r, place) == pc' = [pc EXCEPT ![r] = place]

-----------------------------------------------------------------------------
\* plan_service.changed and plans.ask_again: a plan that moved has its evening
\* before and its day after still to come.
\* (slip) what was said of the day it left is kept
ChangedKept(p, row) ==
  /\ plans' = [plans EXCEPT ![p] = row]
  /\ asked' = [asked EXCEPT ![p] = IF row.start # plans[p].start THEN 0 ELSE @]
  /\ warned' = [warned EXCEPT ![p] = IF row.start # plans[p].start THEN 0 ELSE @]

Changed(p, row) ==
  LET moved == row.live /\ row.start # plans[p].start IN
  /\ plans' = [plans EXCEPT ![p] =
       IF moved THEN [row EXCEPT !.followed = FALSE, !.checked = FALSE] ELSE row]
  /\ asked' = [asked EXCEPT ![p] = IF moved THEN 0 ELSE @]
  /\ warned' = [warned EXCEPT ![p] = IF moved THEN 0 ELSE @]

\* create_event, for a day to come.
Make(p, day, length) ==
  /\ plans[p] = Unmade /\ day >= today
  /\ Hasty \/ Idle
  /\ plans' = [plans EXCEPT ![p] = [start |-> day, length |-> length, live |-> TRUE,
                 chat |-> TRUE, followed |-> FALSE, checked |-> FALSE]]
  /\ UNCHANGED <<world, google, outcome, pc, list, copy, skipped, said>>

\* update_event: first brought in line with Google, then moved on both sides.
Move(p, day) ==
  /\ plans[p].live /\ google[p] # Gone /\ day >= today
  /\ day # (IF google[p] = Same THEN plans[p].start ELSE google[p])
  /\ Hasty \/ Idle
  /\ Changed(p, [plans[p] EXCEPT !.start = day])
  /\ google' = [google EXCEPT ![p] = Same]
  /\ UNCHANGED <<world, outcome, pc, list, copy, skipped>>

\* delete_event, or update_event to cancelled.
Cancel(p) ==
  /\ plans[p].live
  /\ Hasty \/ Idle
  /\ Changed(p, [plans[p] EXCEPT !.live = FALSE])
  /\ google' = [google EXCEPT ![p] = Same]
  /\ UNCHANGED <<world, outcome, pc, list, copy, skipped>>

\* Somebody moves or deletes the event in Google.
ByHand(p, what) ==
  /\ plans[p].live /\ google[p] = Same
  /\ what = Gone \/ what \in {d \in Day : d >= today /\ d # plans[p].start}
  /\ Hasty \/ Idle
  /\ google' = [google EXCEPT ![p] = what]
  /\ UNCHANGED <<world, plans, outcome, pc, list, copy, skipped, said>>

\* record_outcome, for a day that has come.
RecordOutcome(p, day) ==
  /\ plans[p] # Unmade /\ day \in outcome[p] + 1 .. today
  /\ outcome' = [outcome EXCEPT ![p] = day]
  /\ UNCHANGED <<world, plans, google, pc, list, copy, skipped, said>>

\* plans.leave_chat: the chat it was made in is forgotten.
LeaveChat(p) ==
  /\ plans[p].chat
  /\ Hasty \/ Idle
  /\ plans' = [plans EXCEPT ![p].chat = FALSE]
  /\ UNCHANGED <<world, google, outcome, pc, list, copy, skipped, said>>

Tick ==
  /\ today < LastDay
  /\ Hasty \/ Idle
  /\ whole \/ missed < MaxMissed
  /\ today' = today + 1
  /\ missed' = IF whole THEN missed ELSE missed + 1
  /\ whole' = FALSE
  /\ UNCHANGED <<plans, google, outcome, pc, list, copy, skipped, said>>

-----------------------------------------------------------------------------
\* sync_plans of the plans Google has that are not followed up yet.
Unseen == {p \in Plan : plans[p].live /\ ~plans[p].followed /\ google[p] # Same}
InLine(p) ==
  IF p \notin Unseen THEN plans[p]
  ELSE IF google[p] = Gone THEN [plans[p] EXCEPT !.live = FALSE]
  ELSE [plans[p] EXCEPT !.start = google[p], !.followed = FALSE, !.checked = FALSE]

SyncPlans(r) ==
  LET moved == {p \in Unseen : google[p] # Gone} IN
  /\ plans' = [p \in Plan |-> InLine(p)]
  /\ google' = [p \in Plan |-> IF p \in Unseen THEN Same ELSE google[p]]
  /\ asked' = [p \in Plan |-> IF p \in moved THEN 0 ELSE asked[p]]
  /\ warned' = [p \in Plan |-> IF p \in moved THEN 0 ELSE warned[p]]

Copies(Q) == {[id |-> p, row |-> plans[p]] : p \in Q}

\* (slip) the window counts from the plan's first day, and a day short
DueForFollowUpShort ==
  {p \in Plan : /\ plans[p].live /\ plans[p].chat /\ ~plans[p].followed
                /\ End(plans[p]) < today /\ plans[p].start + 1 >= today}

\* (slip) a plan that ends today is asked about
DueForFollowUpEarly ==
  {p \in Plan : /\ plans[p].live /\ plans[p].chat /\ ~plans[p].followed
                /\ End(plans[p]) <= today /\ plans[p].start + FollowUpDays >= today}

\* plans.due_for_follow_up
DueForFollowUp ==
  {p \in Plan : /\ plans[p].live /\ plans[p].chat /\ ~plans[p].followed
                /\ End(plans[p]) < today /\ plans[p].start + FollowUpDays >= today}

\* plans.due_for_check
DueForCheck ==
  {p \in Plan : /\ plans[p].live /\ plans[p].chat /\ ~plans[p].checked
                /\ plans[p].start \in {today, today + 1}}

\* A run that cannot ask Google does nothing: it waits for the next.  A check
\* asks Google only if it knows of a plan to check.
Start(r) ==
  /\ pc[r] = "idle"
  /\ r \in Checker => DueForCheck # {}
  /\ SyncPlans(r)
  /\ GoTo(r, "list")
  /\ UNCHANGED <<world, outcome, list, copy, skipped>>

ListDue(r) ==
  /\ pc[r] = "list"
  /\ list' = [list EXCEPT ![r] = Copies(IF r \in Follower THEN DueForFollowUp ELSE DueForCheck)]
  /\ skipped' = [skipped EXCEPT ![r] = FALSE]
  /\ GoTo(r, "next")
  /\ UNCHANGED <<world, plans, google, outcome, copy, said>>

\* A run takes the next plan of its list.  Of a follow-up an outcome since the
\* plan's day settles it (outcomes.exists_since); a check finds something to
\* say or not.  What nothing here can send waits.
Take(r, c, place) ==
  /\ pc[r] = "next" /\ c \in list[r]
  /\ list' = [list EXCEPT ![r] = @ \ {c}]
  /\ LET told == r \in Follower /\ outcome[c.id] >= c.row.start IN
     place \in IF told THEN {"told"} ELSE IF r \in Follower THEN {"say", "next"}
               ELSE {"say", "quiet", "next"}
  /\ copy' = [copy EXCEPT ![r] = IF place = "next" THEN NoCopy ELSE c]
  /\ skipped' = [skipped EXCEPT ![r] = @ \/ place = "next"]
  /\ GoTo(r, place)
  /\ UNCHANGED <<world, plans, google, outcome, said>>

Onward(r) ==
  /\ copy' = [copy EXCEPT ![r] = NoCopy]
  /\ GoTo(r, "next")
  /\ UNCHANGED <<world, google, outcome, list, skipped>>

\* Marked as asked about without another look.
MarkTold(r) ==
  /\ pc[r] = "told"
  /\ plans' = [plans EXCEPT ![copy[r].id].followed = TRUE]
  /\ UNCHANGED said
  /\ Onward(r)

\* (slip) the plan is not read again under the write lock
AskUnread(r) ==
  LET p == copy[r].id IN
  /\ pc[r] = "say" /\ r \in Follower
  /\ plans' = [plans EXCEPT ![p].followed = TRUE]
  /\ asked' = [asked EXCEPT ![p] = @ + 1]
  /\ UNCHANGED warned
  /\ Onward(r)

\* The question and its mark, in one transaction, unless another run was first.
Ask(r) ==
  LET p == copy[r].id IN
  /\ pc[r] = "say" /\ r \in Follower
  /\ plans' = [plans EXCEPT ![p].followed = TRUE]
  /\ asked' = [asked EXCEPT ![p] = IF plans[p].followed THEN @ ELSE @ + 1]
  /\ UNCHANGED warned
  /\ Onward(r)

\* (slip) a heads-up is marked by the run that found nothing to say only
CheckUnmarked(r) ==
  LET p == copy[r].id IN
  /\ pc[r] \in {"say", "quiet"} /\ r \in Checker
  /\ plans' = [plans EXCEPT ![p].checked = @ \/ pc[r] = "quiet"]
  /\ warned' = [warned EXCEPT ![p] =
       IF plans[p].checked \/ pc[r] = "quiet" THEN @ ELSE @ + 1]
  /\ UNCHANGED asked
  /\ Onward(r)

\* A check marks the plan whether it has something to say or not.
Check(r) ==
  LET p == copy[r].id IN
  /\ pc[r] \in {"say", "quiet"} /\ r \in Checker
  /\ plans' = [plans EXCEPT ![p].checked = TRUE]
  /\ warned' = [warned EXCEPT ![p] =
       IF plans[p].checked \/ pc[r] = "quiet" THEN @ ELSE @ + 1]
  /\ UNCHANGED asked
  /\ Onward(r)

Finish(r) ==
  /\ pc[r] = "next" /\ list[r] = {}
  /\ whole' = (whole \/ (r \in Follower /\ ~skipped[r]))
  /\ skipped' = [skipped EXCEPT ![r] = FALSE]
  /\ GoTo(r, "idle")
  /\ UNCHANGED <<today, missed, plans, google, outcome, list, copy, said>>

\* The service stops, or a run fails: what it had yet to say is for the next.
Stop ==
  /\ ~Idle
  /\ pc' = [r \in Run |-> "idle"]
  /\ list' = [r \in Run |-> {}]
  /\ copy' = [r \in Run |-> NoCopy]
  /\ skipped' = [r \in Run |-> FALSE]
  /\ UNCHANGED <<world, plans, google, outcome, said>>

-----------------------------------------------------------------------------
People ==
  \/ \E p \in Plan, day \in Day :
       Move(p, day) \/ ByHand(p, day) \/ RecordOutcome(p, day)
  \/ \E p \in Plan, day \in Day, length \in 0..MaxLength : Make(p, day, length)
  \/ \E p \in Plan : Cancel(p) \/ ByHand(p, Gone) \/ LeaveChat(p)

Work(r) ==
  \/ Start(r) \/ ListDue(r) \/ MarkTold(r) \/ Ask(r) \/ Check(r) \/ Finish(r)
  \/ \E c \in list[r], place \in {"told", "say", "quiet", "next"} : Take(r, c, place)

Next == People \/ Tick \/ Stop \/ \E r \in Run : Work(r)

Spec == Init /\ [][Next]_vars

-----------------------------------------------------------------------------
Read == [id : Plan, row : Row]

TypeOK ==
  /\ today \in Day /\ missed \in 0..MaxMissed /\ whole \in BOOLEAN
  /\ plans \in [Plan -> Row]
  /\ google \in [Plan -> Day \cup {Same, Gone}]
  /\ outcome \in [Plan -> 0..LastDay]
  /\ pc \in [Run -> {"idle", "list", "next", "told", "say", "quiet"}]
  /\ list \in [Run -> SUBSET Read]
  /\ copy \in [Run -> Read \cup {NoCopy}]
  /\ skipped \in [Run -> BOOLEAN]
  /\ asked \in [Plan -> 0..1] /\ warned \in [Plan -> 0..1]

\* However many runs go through their lists at once, and whatever became of the
\* plan since they read it, people are asked about a plan once for each day it
\* was put on, and have one heads-up: insert and mark share a transaction that
\* looks at the mark first.
SaidOnce ==
  \A p \in Plan :
    /\ asked[p] <= (IF plans[p].followed THEN 1 ELSE 0)
    /\ warned[p] <= (IF plans[p].checked THEN 1 ELSE 0)

\* "Ask about each plan that ended before today and was not asked about": once
\* the window that starts with a plan's first day is past, it was asked about or
\* somebody had said how it went, runs lost to a stop, to Google or to a sender
\* that is away notwithstanding.  Only where nothing changes under a run
\* (~Hasty): a plan moved on between a run's list and its mark is marked as asked
\* about on a day that has not come, as the mark alone is read again.
NobodyForgotten ==
  \A p \in Plan :
    /\ plans[p].live /\ plans[p].chat /\ google[p] = Same
    /\ today > plans[p].start + FollowUpDays /\ today > End(plans[p])
    => asked[p] > 0 \/ outcome[p] >= plans[p].start
=============================================================================
