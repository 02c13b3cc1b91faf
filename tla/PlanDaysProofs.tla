--------------------------- MODULE PlanDaysProofs ---------------------------
(***************************************************************************)
(* What PlanDays promises, for any plans, days and runs.                   *)
(*                                                                         *)
(* That a plan is spoken of once follows from the two marks and needs      *)
(* nothing else (OnceInv).  That nobody is forgotten holds when no plan    *)
(* changes under a run: then a run's list stays what is due (Standing), a  *)
(* run that went through its list left nothing due (AllTold), and a plan   *)
(* that waits has waited no longer than there were days without a whole    *)
(* run (Patient).                                                          *)
(***************************************************************************)
EXTENDS PlanDays, TLAPS

OnceInv == TypeOK /\ SaidOnce

Busy(r) == pc[r] \in {"told", "say", "quiet"}
Reading(r) == list[r] \cup (IF Busy(r) THEN {copy[r]} ELSE {})

\* What a run read of a plan is what stands, as long as it is at it.
Due(r, c) ==
  /\ plans[c.id].live
  /\ plans[c.id].start = c.row.start
  /\ r \in Follower => End(plans[c.id]) < today
  /\ r \in Checker => plans[c.id].start \in {today, today + 1}

Standing ==
  /\ ~Idle => Unseen = {}
  /\ \A r \in Run : pc[r] \in {"idle", "list"} => list[r] = {}
  /\ \A r \in Run : Busy(r) => copy[r] \in Read
  /\ \A r \in Run : \A c \in Reading(r) : Due(r, c)
  /\ \A r \in Run : pc[r] = "told" =>
       r \in Follower /\ outcome[copy[r].id] >= plans[copy[r].id].start

\* A plan that is followed up is over, and was asked about or told of.
Settled ==
  \A p \in Plan : plans[p].followed =>
    /\ End(plans[p]) < today
    /\ asked[p] > 0 \/ outcome[p] >= plans[p].start

\* A run that left nothing for a sender misses no plan that is due.
Covered ==
  \A r \in Follower : pc[r] \in {"next", "told", "say", "quiet"} =>
    \A p \in DueForFollowUp : skipped[r] \/ \E c \in Reading(r) : c.id = p

\* A plan to be asked about, as it is in Google.
Waiting(p) == InLine(p).live /\ InLine(p).chat /\ ~InLine(p).followed

Patient == \A p \in Plan : Waiting(p) => today <= End(InLine(p)) + 1 + missed

AllTold == whole => \A p \in Plan : Waiting(p) => today <= End(InLine(p))

\* An event somebody changed is one of a plan that stands.
Followed == \A p \in Plan : ~plans[p].live => google[p] = Same

CalmInv ==
  OnceInv /\ Standing /\ Settled /\ Covered /\ Followed /\ Patient /\ AllTold

\* No plan changes under a run, and the days that no whole run fell on are fewer
\* than the days a plan is waited for.
Calm == ~Hasty /\ MaxLength + MaxMissed < FollowUpDays

-----------------------------------------------------------------------------
\* One step, once the disjuncts of Next are taken apart.
Steps ==
  \/ \E p \in Plan, day \in Day : Move(p, day)
  \/ \E p \in Plan, what \in Day \cup {Gone} : ByHand(p, what)
  \/ \E p \in Plan, day \in Day : RecordOutcome(p, day)
  \/ \E p \in Plan, day \in Day, length \in 0..MaxLength : Make(p, day, length)
  \/ \E p \in Plan : Cancel(p)
  \/ \E p \in Plan : LeaveChat(p)
  \/ Tick
  \/ Stop
  \/ \E r \in Run : Start(r)
  \/ \E r \in Run : ListDue(r)
  \/ \E r \in Run, c \in Read, place \in {"told", "say", "quiet", "next"} :
       c \in list[r] /\ Take(r, c, place)
  \/ \E r \in Run : MarkTold(r)
  \/ \E r \in Run : Ask(r)
  \/ \E r \in Run : Check(r)
  \/ \E r \in Run : Finish(r)
  \/ UNCHANGED vars

LEMMA StepCases ==
  ASSUME TypeOK, [Next]_vars
  PROVE  Steps
<1>1. \A r \in Run : list[r] \subseteq Read
  BY DEF TypeOK
<1>2. CASE \E r \in Run : Work(r)
  BY <1>1, <1>2 DEF Work, Steps
<1>3. CASE People
  BY <1>3 DEF People, Steps
<1> QED
  BY <1>2, <1>3 DEF Next, Steps

\* The numbers that days and rows are made of.
LEMMA Numbers ==
  /\ 1 \in Day /\ Day \subseteq Nat /\ LastDay \in Nat /\ Gone \in Nat
  /\ Gone \notin Day /\ Same \notin Day /\ Gone # Same
  /\ MaxLength \in Nat /\ FollowUpDays \in Nat /\ MaxMissed \in Nat
  /\ Unmade \in Row
BY PlanDaysAssumption DEF Day, Gone, Same, Unmade, Row

LEMMA Ends ==
  ASSUME NEW row \in Row
  PROVE  /\ row.start \in Nat /\ row.start \in Day
         /\ End(row) \in Nat /\ row.start <= End(row) /\ End(row) <= row.start + MaxLength
<1>1. row.start \in Day /\ row.length \in 0..MaxLength
  BY DEF Row
<1>2. row.start \in Nat
  BY <1>1, Numbers
<1>3. row.length \in Nat /\ row.length <= MaxLength
  BY <1>1, PlanDaysAssumption
<1>4. End(row) = row.start + row.length
  BY DEF End
<1> QED
  BY <1>1, <1>2, <1>3, <1>4, PlanDaysAssumption

\* What is written into a row leaves it a row.
LEMMA RowEdits ==
  ASSUME NEW x \in Row, NEW b \in BOOLEAN
  PROVE  /\ [x EXCEPT !.live = b] \in Row
         /\ [x EXCEPT !.live = b].followed = x.followed
         /\ [x EXCEPT !.live = b].checked = x.checked
         /\ [x EXCEPT !.chat = b] \in Row
         /\ [x EXCEPT !.followed = b] \in Row
         /\ [x EXCEPT !.checked = b] \in Row
BY DEF Row

\* A plan as the next sync leaves it.
LEMMA InLineIs ==
  ASSUME TypeOK, NEW p \in Plan
  PROVE  /\ InLine(p) \in Row
         /\ p \notin Unseen => InLine(p) = plans[p]
         /\ p \in Unseen => ~InLine(p).followed
         /\ Waiting(p) => plans[p].live /\ plans[p].chat /\ ~plans[p].followed
<1>1. /\ plans[p] \in Row
      /\ google[p] # Same /\ google[p] # Gone => google[p] \in Day
  BY DEF TypeOK
<1>2. /\ InLine(p) \in Row
      /\ p \notin Unseen => InLine(p) = plans[p]
  BY <1>1 DEF InLine, Row, Unseen
<1>3. p \in Unseen => ~InLine(p).followed
  BY <1>1 DEF InLine, Row, Unseen
<1>4. Waiting(p) => plans[p].live /\ plans[p].chat /\ ~plans[p].followed
  BY <1>1, <1>2, <1>3 DEF Waiting, InLine, Unseen, Row
<1> QED
  BY <1>2, <1>3, <1>4

LEMMA OnceInit == ASSUME Init PROVE OnceInv
<1>1. plans \in [Plan -> Row] /\ google \in [Plan -> Day \cup {Same, Gone}]
  BY Numbers DEF Init
<1>2. today \in Day /\ missed \in 0..MaxMissed /\ outcome \in [Plan -> 0..LastDay]
  BY Numbers DEF Init
<1>3. /\ pc \in [Run -> {"idle", "list", "next", "told", "say", "quiet"}]
      /\ list \in [Run -> SUBSET Read] /\ copy \in [Run -> Read \cup {NoCopy}]
      /\ skipped \in [Run -> BOOLEAN]
  BY DEF Init
<1>4. asked \in [Plan -> 0..1] /\ warned \in [Plan -> 0..1] /\ SaidOnce
  BY DEF Init, SaidOnce, Unmade
<1> QED
  BY <1>1, <1>2, <1>3, <1>4 DEF Init, OnceInv, TypeOK

\* What becomes of a plan that is moved or cancelled.
LEMMA ChangedOnce ==
  ASSUME OnceInv, NEW p \in Plan, NEW row \in Row, Changed(p, row),
         row.followed = plans[p].followed, row.checked = plans[p].checked
  PROVE  /\ plans' \in [Plan -> Row]
         /\ asked' \in [Plan -> 0..1] /\ warned' \in [Plan -> 0..1]
         /\ SaidOnce'
<1>1. plans' \in [Plan -> Row]
  BY DEF Changed, OnceInv, TypeOK, Row
<1>2. asked' \in [Plan -> 0..1] /\ warned' \in [Plan -> 0..1]
  BY DEF Changed, OnceInv, TypeOK
<1>3. SaidOnce'
  BY DEF Changed, OnceInv, TypeOK, SaidOnce, Row
<1> QED
  BY <1>1, <1>2, <1>3

LEMMA OnceStep == ASSUME OnceInv, [Next]_vars PROVE OnceInv'
<1>1. ASSUME NEW p \in Plan, NEW day \in Day, Move(p, day) PROVE OnceInv'
  <2> DEFINE row == [plans[p] EXCEPT !.start = day]
  <2>1. row \in Row /\ row.followed = plans[p].followed /\ row.checked = plans[p].checked
    BY <1>1 DEF Row, OnceInv, TypeOK
  <2>2. Changed(p, row)
    BY <1>1 DEF Move
  <2>3. google' \in [Plan -> Day \cup {Same, Gone}]
    BY <1>1 DEF Move, OnceInv, TypeOK
  <2> HIDE DEF row
  <2> QED
    BY <2>1, <2>2, <2>3, <1>1, ChangedOnce DEF Move, OnceInv, TypeOK, world
<1>2. ASSUME NEW p \in Plan, NEW what \in Day \cup {Gone}, ByHand(p, what) PROVE OnceInv'
  BY <1>2, Numbers DEF ByHand, OnceInv, TypeOK, SaidOnce, world, said
<1>3. ASSUME NEW p \in Plan, NEW day \in Day, RecordOutcome(p, day) PROVE OnceInv'
  <2>1. outcome' \in [Plan -> 0..LastDay]
    BY <1>3 DEF RecordOutcome, OnceInv, TypeOK, Day
  <2> QED
    BY <2>1, <1>3 DEF RecordOutcome, OnceInv, TypeOK, SaidOnce, world, said
<1>4. ASSUME NEW p \in Plan, NEW day \in Day, NEW length \in 0..MaxLength, Make(p, day, length) PROVE OnceInv'
  <2>1. plans' \in [Plan -> Row]
    BY <1>4 DEF Make, OnceInv, TypeOK, Row
  <2>2. SaidOnce'
    BY <1>4 DEF Make, OnceInv, TypeOK, SaidOnce, said, Unmade
  <2> QED
    BY <2>1, <2>2, <1>4 DEF Make, OnceInv, TypeOK, world, said
<1>5. ASSUME NEW p \in Plan, Cancel(p) PROVE OnceInv'
  <2> DEFINE row == [plans[p] EXCEPT !.live = FALSE]
  <2>1. row \in Row /\ row.followed = plans[p].followed /\ row.checked = plans[p].checked
    <3>1. plans[p] \in Row
      BY DEF OnceInv, TypeOK
    <3> QED
      BY <3>1, RowEdits
  <2>2. Changed(p, row)
    BY <1>5 DEF Cancel
  <2>3. google' \in [Plan -> Day \cup {Same, Gone}]
    BY <1>5 DEF Cancel, OnceInv, TypeOK
  <2> HIDE DEF row
  <2> QED
    BY <2>1, <2>2, <2>3, <1>5, ChangedOnce DEF Cancel, OnceInv, TypeOK, world
<1>6. ASSUME NEW p \in Plan, LeaveChat(p) PROVE OnceInv'
  <2>1. plans' \in [Plan -> Row]
    BY <1>6, RowEdits DEF LeaveChat, OnceInv, TypeOK
  <2>2. SaidOnce'
    BY <1>6 DEF LeaveChat, OnceInv, TypeOK, SaidOnce, said
  <2> QED
    BY <2>1, <2>2, <1>6 DEF LeaveChat, OnceInv, TypeOK, world, said
<1>7. ASSUME Tick PROVE OnceInv'
  <2>1. today' \in Day
    BY <1>7, Numbers DEF Tick, OnceInv, TypeOK, Day
  <2>2. missed' \in 0..MaxMissed
    <3>1. missed \in 0..MaxMissed
      BY DEF OnceInv, TypeOK
    <3>2. missed' = missed \/ (missed < MaxMissed /\ missed' = missed + 1)
      BY <1>7 DEF Tick
    <3> QED
      BY <3>1, <3>2, Numbers
  <2>3. whole' \in BOOLEAN
    BY <1>7 DEF Tick
  <2> QED
    BY <2>1, <2>2, <2>3, <1>7 DEF Tick, OnceInv, TypeOK, SaidOnce, said
<1>8. ASSUME Stop PROVE OnceInv'
  BY <1>8 DEF Stop, OnceInv, TypeOK, SaidOnce, world, said
<1>9. ASSUME NEW r \in Run, Start(r) PROVE OnceInv'
  <2>1. plans' \in [Plan -> Row]
    BY <1>9, InLineIs DEF Start, SyncPlans, OnceInv
  <2>2. google' \in [Plan -> Day \cup {Same, Gone}]
    BY <1>9 DEF Start, SyncPlans, OnceInv, TypeOK
  <2>3. asked' \in [Plan -> 0..1] /\ warned' \in [Plan -> 0..1]
    BY <1>9 DEF Start, SyncPlans, OnceInv, TypeOK
  <2>4. SaidOnce'
    <3> SUFFICES ASSUME NEW p \in Plan
                 PROVE  /\ asked'[p] <= (IF plans'[p].followed THEN 1 ELSE 0)
                        /\ warned'[p] <= (IF plans'[p].checked THEN 1 ELSE 0)
      BY DEF SaidOnce
    <3>1. plans[p] \in Row /\ asked[p] \in 0..1 /\ warned[p] \in 0..1
      BY DEF OnceInv, TypeOK
    <3>2. CASE p \in Unseen /\ google[p] # Gone
      <4>1. asked'[p] = 0 /\ warned'[p] = 0
        BY <3>2, <1>9 DEF Start, SyncPlans
      <4> QED
        BY <4>1
    <3>3. CASE ~(p \in Unseen /\ google[p] # Gone)
      <4>1. plans'[p].followed = plans[p].followed /\ plans'[p].checked = plans[p].checked
        BY <3>1, <3>3, <1>9 DEF Start, SyncPlans, InLine, Row
      <4> QED
        BY <4>1, <3>3, <1>9 DEF Start, SyncPlans, OnceInv, SaidOnce
    <3> QED
      BY <3>2, <3>3
  <2> QED
    BY <2>1, <2>2, <2>3, <2>4, <1>9 DEF Start, GoTo, OnceInv, TypeOK, world
<1>10. ASSUME NEW r \in Run, ListDue(r) PROVE OnceInv'
  <2>1. list' \in [Run -> SUBSET Read]
    BY <1>10 DEF ListDue, Copies, DueForFollowUp, DueForCheck, OnceInv, TypeOK, Read
  <2> QED
    BY <2>1, <1>10 DEF ListDue, GoTo, OnceInv, TypeOK, SaidOnce, world, said
<1>11. ASSUME NEW r \in Run, NEW c \in list[r], NEW place \in {"told", "say", "quiet", "next"},
             Take(r, c, place) PROVE OnceInv'
  <2>1. copy' \in [Run -> Read \cup {NoCopy}]
    BY <1>11 DEF Take, OnceInv, TypeOK
  <2> QED
    BY <2>1, <1>11 DEF Take, GoTo, OnceInv, TypeOK, SaidOnce, world, said
<1>12. ASSUME NEW r \in Run, MarkTold(r) PROVE OnceInv'
  <2>1. plans' \in [Plan -> Row]
    BY <1>12, RowEdits DEF MarkTold, OnceInv, TypeOK
  <2>2. asked' \in [Plan -> 0..1] /\ warned' \in [Plan -> 0..1]
    BY <1>12 DEF MarkTold, OnceInv, TypeOK, said
  <2>3. SaidOnce'
    <3> SUFFICES ASSUME NEW p \in Plan
                 PROVE  /\ asked'[p] <= (IF plans'[p].followed THEN 1 ELSE 0)
                        /\ warned'[p] <= (IF plans'[p].checked THEN 1 ELSE 0)
      BY DEF SaidOnce
    <3>1. plans[p] \in Row /\ asked[p] \in 0..1 /\ warned[p] \in 0..1
      BY DEF OnceInv, TypeOK
    <3>2. CASE p = copy[r].id
      BY <3>1, <3>2, <1>12 DEF MarkTold, OnceInv, TypeOK, SaidOnce, Row, said
    <3>3. CASE p # copy[r].id
      BY <3>1, <3>3, <1>12 DEF MarkTold, OnceInv, TypeOK, SaidOnce, Row, said
    <3> QED
      BY <3>2, <3>3
  <2> QED
    BY <2>1, <2>2, <2>3, <1>12 DEF MarkTold, Onward, GoTo, OnceInv, TypeOK, world
<1>13. ASSUME NEW r \in Run, Ask(r) PROVE OnceInv'
  <2>1. plans' \in [Plan -> Row]
    BY <1>13, RowEdits DEF Ask, OnceInv, TypeOK
  <2>2. asked' \in [Plan -> 0..1] /\ warned' \in [Plan -> 0..1]
    <3>1. \A p \in Plan : asked[p] \in 0..1 /\ warned[p] \in 0..1
      BY DEF OnceInv, TypeOK
    <3>2. \A p \in Plan : /\ ~plans[p].followed => asked[p] = 0
                          /\ ~plans[p].checked => warned[p] = 0
      BY <3>1 DEF OnceInv, SaidOnce
    <3>3. asked \in [Plan -> 0..1] /\ warned \in [Plan -> 0..1]
      BY DEF OnceInv, TypeOK
    <3> DEFINE q == copy[r].id
    <3>4. warned' = warned
      BY <1>13 DEF Ask, said
    <3>5. \/ asked' = asked
          \/ ~plans[q].followed /\ asked' = [asked EXCEPT ![q] = @ + 1]
      BY <3>3, <1>13 DEF Ask
    <3>6. CASE q \in Plan
      BY <3>1, <3>2, <3>3, <3>4, <3>5, <3>6
    <3>7. CASE q \notin Plan
      BY <3>3, <3>4, <3>5, <3>7
    <3> QED
      BY <3>6, <3>7
  <2>3. SaidOnce'
    <3> SUFFICES ASSUME NEW p \in Plan
                 PROVE  /\ asked'[p] <= (IF plans'[p].followed THEN 1 ELSE 0)
                        /\ warned'[p] <= (IF plans'[p].checked THEN 1 ELSE 0)
      BY DEF SaidOnce
    <3>1. plans[p] \in Row /\ asked[p] \in 0..1 /\ warned[p] \in 0..1
      BY DEF OnceInv, TypeOK
    <3>2. CASE p = copy[r].id
      BY <3>1, <3>2, <1>13 DEF Ask, OnceInv, TypeOK, SaidOnce, Row, said
    <3>3. CASE p # copy[r].id
      BY <3>1, <3>3, <1>13 DEF Ask, OnceInv, TypeOK, SaidOnce, Row, said
    <3> QED
      BY <3>2, <3>3
  <2> QED
    BY <2>1, <2>2, <2>3, <1>13 DEF Ask, Onward, GoTo, OnceInv, TypeOK, world
<1>14. ASSUME NEW r \in Run, Check(r) PROVE OnceInv'
  <2>1. plans' \in [Plan -> Row]
    BY <1>14, RowEdits DEF Check, OnceInv, TypeOK
  <2>2. asked' \in [Plan -> 0..1] /\ warned' \in [Plan -> 0..1]
    <3>1. \A p \in Plan : asked[p] \in 0..1 /\ warned[p] \in 0..1
      BY DEF OnceInv, TypeOK
    <3>2. \A p \in Plan : /\ ~plans[p].followed => asked[p] = 0
                          /\ ~plans[p].checked => warned[p] = 0
      BY <3>1 DEF OnceInv, SaidOnce
    <3>3. asked \in [Plan -> 0..1] /\ warned \in [Plan -> 0..1]
      BY DEF OnceInv, TypeOK
    <3> DEFINE q == copy[r].id
    <3>4. asked' = asked
      BY <1>14 DEF Check, said
    <3>5. \/ warned' = warned
          \/ ~plans[q].checked /\ warned' = [warned EXCEPT ![q] = @ + 1]
      BY <3>3, <1>14 DEF Check
    <3>6. CASE q \in Plan
      BY <3>1, <3>2, <3>3, <3>4, <3>5, <3>6
    <3>7. CASE q \notin Plan
      BY <3>3, <3>4, <3>5, <3>7
    <3> QED
      BY <3>6, <3>7
  <2>3. SaidOnce'
    <3> SUFFICES ASSUME NEW p \in Plan
                 PROVE  /\ asked'[p] <= (IF plans'[p].followed THEN 1 ELSE 0)
                        /\ warned'[p] <= (IF plans'[p].checked THEN 1 ELSE 0)
      BY DEF SaidOnce
    <3>1. plans[p] \in Row /\ asked[p] \in 0..1 /\ warned[p] \in 0..1
      BY DEF OnceInv, TypeOK
    <3>2. CASE p = copy[r].id
      BY <3>1, <3>2, <1>14 DEF Check, OnceInv, TypeOK, SaidOnce, Row, said
    <3>3. CASE p # copy[r].id
      BY <3>1, <3>3, <1>14 DEF Check, OnceInv, TypeOK, SaidOnce, Row, said
    <3> QED
      BY <3>2, <3>3
  <2> QED
    BY <2>1, <2>2, <2>3, <1>14 DEF Check, Onward, GoTo, OnceInv, TypeOK, world
<1>15. ASSUME NEW r \in Run, Finish(r) PROVE OnceInv'
  BY <1>15 DEF Finish, GoTo, OnceInv, TypeOK, SaidOnce, world, said
<1>16. ASSUME UNCHANGED vars PROVE OnceInv'
  BY <1>16 DEF vars, OnceInv, TypeOK, SaidOnce, world, said
<1> QED
  BY StepCases, <1>1, <1>2, <1>3, <1>4, <1>5, <1>6, <1>7, <1>8, <1>9, <1>10, <1>11, <1>12, <1>13, <1>14, <1>15, <1>16 DEF Steps, OnceInv

-----------------------------------------------------------------------------
\* Every variable keeps its type, with any runs and any changes under them.
THEOREM TypeCorrect == Spec => []TypeOK
<1>1. Init => OnceInv
  BY OnceInit
<1>2. OnceInv /\ [Next]_vars => OnceInv'
  BY OnceStep
<1>3. OnceInv => TypeOK
  BY DEF OnceInv
<1> QED
  BY <1>1, <1>2, <1>3, PTL DEF Spec

\* People are asked about a plan once for each day it was put on, and have one
\* heads-up, whatever changes under the runs (run_follow_ups, run_plan_checks).
THEOREM SaidOnceAlways == Spec => []SaidOnce
<1>1. Init => OnceInv
  BY OnceInit
<1>2. OnceInv /\ [Next]_vars => OnceInv'
  BY OnceStep
<1>3. OnceInv => SaidOnce
  BY DEF OnceInv
<1> QED
  BY <1>1, <1>2, <1>3, PTL DEF Spec

-----------------------------------------------------------------------------
\* Plans that do not change under a run.
LEMMA AtRest ==
  ASSUME Idle', \A r \in Run : list'[r] = {}
  PROVE  Standing' /\ Covered'
<1>1. \A r \in Run : pc'[r] = "idle" /\ ~Busy(r)' /\ Reading(r)' = {}
  BY DEF Idle, Busy, Reading
<1> QED
  BY <1>1 DEF Standing, Covered, Run

LEMMA StillAtRest ==
  ASSUME CalmInv, Idle, UNCHANGED <<pc, list>>
  PROVE  Standing' /\ Covered'
<1>1. Idle' /\ \A r \in Run : list'[r] = {}
  BY DEF CalmInv, Standing, Idle
<1> QED
  BY <1>1, AtRest

\* What a run does to the plans: it marks them.
Marks ==
  /\ today' = today /\ google' = google
  /\ \A p \in Plan :
       /\ plans'[p].start = plans[p].start /\ plans'[p].length = plans[p].length
       /\ plans'[p].live = plans[p].live /\ plans'[p].chat = plans[p].chat
       /\ plans[p].followed => plans'[p].followed

LEMMA MarksKeep ==
  ASSUME TypeOK, Marks
  PROVE  /\ \A r \in Run, c \in Read : Due(r, c) => Due(r, c)'
         /\ Unseen' \subseteq Unseen
         /\ DueForFollowUp' \subseteq DueForFollowUp
BY DEF Marks, Due, Unseen, DueForFollowUp, End, Read

LEMMA MarksPatient ==
  ASSUME TypeOK, Unseen = {}, Marks, missed' = missed
  PROVE  /\ \A p \in Plan : Waiting(p)' => Waiting(p) /\ End(InLine(p))' = End(InLine(p))
         /\ Patient => Patient'
         /\ whole' = whole /\ AllTold => AllTold'
         /\ Followed => Followed'
<1>1. Unseen' = {}
  BY MarksKeep
<1>2. \A p \in Plan : InLine(p) = plans[p] /\ InLine(p)' = plans'[p]
  BY <1>1 DEF InLine
<1>3. \A p \in Plan : Waiting(p)' => Waiting(p) /\ End(InLine(p))' = End(InLine(p))
  BY <1>2 DEF Marks, Waiting, End
<1>4. Patient => Patient'
  BY <1>3 DEF Patient, Marks
<1>5. whole' = whole /\ AllTold => AllTold'
  BY <1>3 DEF AllTold, Marks
<1>6. Followed => Followed'
  BY DEF Followed, Marks
<1> QED
  BY <1>3, <1>4, <1>5, <1>6

\* A sync puts every plan where it was seen to be.
LEMMA SyncKeeps ==
  ASSUME TypeOK, NEW r \in Run, Start(r)
  PROVE  /\ Unseen' = {}
         /\ \A p \in Plan : plans'[p] = InLine(p) /\ InLine(p)' = InLine(p)
         /\ Unseen = {} => plans' = plans /\ google' = google
<1>1. \A p \in Plan : /\ plans'[p] = InLine(p)
                      /\ google'[p] = IF p \in Unseen THEN Same ELSE google[p]
  BY DEF Start, SyncPlans
<1>2. Unseen' = {}
  <2> SUFFICES ASSUME NEW p \in Plan, p \in Unseen' PROVE FALSE
    BY DEF Unseen
  <2>1. google'[p] # Same /\ plans'[p].live /\ ~plans'[p].followed
    BY DEF Unseen
  <2>2. p \notin Unseen
    BY <2>1, <1>1
  <2> QED
    BY <2>1, <2>2, <1>1 DEF InLine, Unseen
<1>3. \A p \in Plan : InLine(p)' = plans'[p]
  BY <1>2 DEF InLine
<1>4. ASSUME Unseen = {} PROVE plans' = plans /\ google' = google
  <2>1. plans' = [p \in Plan |-> plans[p]] /\ google' = [p \in Plan |-> google[p]]
    BY <1>4 DEF Start, SyncPlans, InLine
  <2> QED
    BY <2>1 DEF TypeOK
<1> QED
  BY <1>1, <1>2, <1>3, <1>4

\* A plan is followed up by a run it was due for.
LEMMA SettledStep ==
  ASSUME CalmInv, ~Hasty, [Next]_vars
  PROVE  Settled' /\ Followed'
<1>1. ASSUME NEW p \in Plan, NEW day \in Day, Move(p, day) PROVE Settled' /\ Followed'
  <2>1. \A q \in Plan \ {p} : /\ plans'[q] = plans[q] /\ asked'[q] = asked[q]
                              /\ google'[q] = google[q]
    BY <1>1 DEF Move, Changed, CalmInv, OnceInv, TypeOK
  <2>2. google'[p] = Same
    BY <1>1 DEF Move, CalmInv, OnceInv, TypeOK
  <2>3. plans'[p].followed =>
          plans[p].followed /\ End(plans'[p]) = End(plans[p]) /\ plans'[p].start = plans[p].start
          /\ asked'[p] = asked[p]
    BY <1>1 DEF Move, Changed, CalmInv, OnceInv, TypeOK, Row, End
  <2> QED
    BY <2>1, <2>2, <2>3, <1>1 DEF Move, world, CalmInv, Settled, Followed
<1>2. ASSUME NEW p \in Plan, NEW what \in Day \cup {Gone}, ByHand(p, what) PROVE Settled' /\ Followed'
  BY <1>2, Numbers DEF ByHand, world, said, CalmInv, OnceInv, TypeOK, Row, End, Settled, Followed
<1>3. ASSUME NEW p \in Plan, NEW day \in Day, RecordOutcome(p, day) PROVE Settled' /\ Followed'
  <2>1. \A q \in Plan : outcome[q] \in Nat /\ outcome'[q] \in Nat /\ outcome'[q] >= outcome[q]
    BY <1>3, Numbers DEF RecordOutcome, CalmInv, OnceInv, TypeOK, Day
  <2>2. \A q \in Plan : plans[q].start \in Nat
    BY Numbers DEF CalmInv, OnceInv, TypeOK, Row
  <2>3. \A q \in Plan : outcome[q] >= plans[q].start => outcome'[q] >= plans[q].start
    BY <2>1, <2>2
  <2> QED
    BY <2>3, <1>3 DEF RecordOutcome, world, said, CalmInv, Settled, Followed
<1>4. ASSUME NEW p \in Plan, NEW day \in Day, NEW length \in 0..MaxLength, Make(p, day, length) PROVE Settled' /\ Followed'
  BY <1>4, Numbers DEF Make, world, said, CalmInv, OnceInv, TypeOK, Row, End, Settled, Followed, Unmade
<1>5. ASSUME NEW p \in Plan, Cancel(p) PROVE Settled' /\ Followed'
  <2>1. \A q \in Plan \ {p} : /\ plans'[q] = plans[q] /\ asked'[q] = asked[q]
                              /\ google'[q] = google[q]
    BY <1>5 DEF Cancel, Changed, CalmInv, OnceInv, TypeOK
  <2>2. google'[p] = Same
    BY <1>5 DEF Cancel, CalmInv, OnceInv, TypeOK
  <2>3. plans'[p].followed =>
          plans[p].followed /\ End(plans'[p]) = End(plans[p]) /\ plans'[p].start = plans[p].start
          /\ asked'[p] = asked[p]
    BY <1>5 DEF Cancel, Changed, CalmInv, OnceInv, TypeOK, Row, End
  <2> QED
    BY <2>1, <2>2, <2>3, <1>5 DEF Cancel, world, CalmInv, Settled, Followed
<1>6. ASSUME NEW p \in Plan, LeaveChat(p) PROVE Settled' /\ Followed'
  BY <1>6, Numbers DEF LeaveChat, world, said, CalmInv, OnceInv, TypeOK, Row, End, Settled, Followed
<1>7. ASSUME Tick PROVE Settled' /\ Followed'
  <2>1. \A p \in Plan : End(plans[p]) \in Nat
    BY Ends DEF CalmInv, OnceInv, TypeOK
  <2>2. today \in Nat /\ today' = today + 1
    BY <1>7, Numbers DEF Tick, CalmInv, OnceInv, TypeOK
  <2>3. \A p \in Plan : End(plans[p]) < today => End(plans[p]) < today'
    BY <2>1, <2>2
  <2> QED
    BY <2>3, <1>7 DEF Tick, said, CalmInv, Settled, Followed
<1>8. ASSUME Stop PROVE Settled' /\ Followed'
  BY <1>8, Numbers DEF Stop, world, said, CalmInv, OnceInv, TypeOK, Row, End, Settled, Followed
<1>9. ASSUME NEW r \in Run, Start(r) PROVE Settled' /\ Followed'
  <2>1. \A p \in Plan : plans'[p].followed => plans'[p] = plans[p] /\ asked'[p] = asked[p]
    <3>1. TypeOK
      BY DEF CalmInv, OnceInv
    <3> SUFFICES ASSUME NEW p \in Plan, plans'[p].followed
                 PROVE  plans'[p] = plans[p] /\ asked'[p] = asked[p]
      OBVIOUS
    <3>2. plans'[p] = InLine(p) /\ p \notin Unseen
      BY <3>1, <1>9, InLineIs DEF Start, SyncPlans
    <3> QED
      BY <3>1, <3>2, <1>9, InLineIs DEF Start, SyncPlans
  <2>2. \A p \in Plan : ~plans'[p].live => google'[p] = Same
    BY <1>9, SyncKeeps DEF Start, SyncPlans, InLine, Unseen, CalmInv, OnceInv, TypeOK, Row, Followed
  <2> QED
    BY <2>1, <2>2, <1>9 DEF Start, world, CalmInv, Settled, Followed
<1>10. ASSUME NEW r \in Run, ListDue(r) PROVE Settled' /\ Followed'
  BY <1>10, Numbers DEF ListDue, world, said, CalmInv, OnceInv, TypeOK, Row, End, Settled, Followed
<1>11. ASSUME NEW r \in Run, NEW c \in list[r], NEW place \in {"told", "say", "quiet", "next"},
             Take(r, c, place) PROVE Settled' /\ Followed'
  BY <1>11, Numbers DEF Take, world, said, CalmInv, OnceInv, TypeOK, Row, End, Settled, Followed
<1>12. ASSUME NEW r \in Run, MarkTold(r) PROVE Settled' /\ Followed'
  <2> DEFINE q == copy[r].id
  <2>1. q \in Plan /\ Due(r, copy[r])
    BY <1>12 DEF MarkTold, CalmInv, Standing, Busy, Reading, Read
  <2>2. r \in Follower
    BY <1>12 DEF MarkTold, CalmInv, Standing
  <2>3. \A p \in Plan \ {q} : plans'[p] = plans[p] /\ asked'[p] = asked[p]
    BY <1>12 DEF MarkTold, said, CalmInv, OnceInv, TypeOK
  <2>4. End(plans'[q]) < today' /\ google' = google /\ outcome' = outcome
    BY <2>1, <2>2, <1>12 DEF MarkTold, Onward, world, Due, End, CalmInv, OnceInv, TypeOK, Row
  <2>5. plans'[q].start = plans[q].start /\ plans'[q].live = plans[q].live
    BY <2>1, <1>12 DEF MarkTold, CalmInv, OnceInv, TypeOK, Row
  <2>6. asked'[q] > 0 \/ outcome[q] >= plans[q].start
    BY <2>1, <1>12 DEF MarkTold, said, CalmInv, OnceInv, TypeOK, Standing, Settled
  <2> QED
    BY <2>1, <2>3, <2>4, <2>5, <2>6, <1>12 DEF MarkTold, Onward, world, CalmInv, Settled, Followed
<1>13. ASSUME NEW r \in Run, Ask(r) PROVE Settled' /\ Followed'
  <2> DEFINE q == copy[r].id
  <2>1. q \in Plan /\ Due(r, copy[r])
    BY <1>13 DEF Ask, CalmInv, Standing, Busy, Reading, Read
  <2>2. r \in Follower
    BY <1>13 DEF Ask, CalmInv, Standing
  <2>3. \A p \in Plan \ {q} : plans'[p] = plans[p] /\ asked'[p] = asked[p]
    BY <1>13 DEF Ask, said, CalmInv, OnceInv, TypeOK
  <2>4. End(plans'[q]) < today' /\ google' = google /\ outcome' = outcome
    BY <2>1, <2>2, <1>13 DEF Ask, Onward, world, Due, End, CalmInv, OnceInv, TypeOK, Row
  <2>5. plans'[q].start = plans[q].start /\ plans'[q].live = plans[q].live
    BY <2>1, <1>13 DEF Ask, CalmInv, OnceInv, TypeOK, Row
  <2>6. asked'[q] > 0 \/ outcome[q] >= plans[q].start
    BY <2>1, <1>13 DEF Ask, said, CalmInv, OnceInv, TypeOK, Standing, Settled
  <2> QED
    BY <2>1, <2>3, <2>4, <2>5, <2>6, <1>13 DEF Ask, Onward, world, CalmInv, Settled, Followed
<1>14. ASSUME NEW r \in Run, Check(r) PROVE Settled' /\ Followed'
  <2>1. \A p \in Plan : /\ plans'[p].followed = plans[p].followed /\ plans'[p].live = plans[p].live
                        /\ plans'[p].start = plans[p].start /\ End(plans'[p]) = End(plans[p])
    BY <1>14 DEF Check, CalmInv, OnceInv, TypeOK, Row, End
  <2> QED
    BY <2>1, <1>14 DEF Check, Onward, world, CalmInv, Settled, Followed
<1>15. ASSUME NEW r \in Run, Finish(r) PROVE Settled' /\ Followed'
  BY <1>15, Numbers DEF Finish, world, said, CalmInv, OnceInv, TypeOK, Row, End, Settled, Followed
<1>16. ASSUME UNCHANGED vars PROVE Settled' /\ Followed'
  BY <1>16 DEF vars, world, said, CalmInv, Settled, Followed
<1> QED
  BY StepCases, <1>1, <1>2, <1>3, <1>4, <1>5, <1>6, <1>7, <1>8, <1>9, <1>10, <1>11, <1>12, <1>13, <1>14, <1>15, <1>16 DEF Steps, CalmInv, OnceInv

\* Nothing that a list says changes, but what was told.
LEMMA SameStanding ==
  ASSUME CalmInv, UNCHANGED <<pc, list, copy, skipped, plans, google, today>>,
         \A p \in Plan : outcome[p] >= plans[p].start => outcome'[p] >= plans[p].start
  PROVE  Standing' /\ Covered'
<1>1. \A q \in Run : Reading(q)' = Reading(q) /\ (Busy(q)' <=> Busy(q))
  BY DEF Reading, Busy
<1>2. Unseen' = Unseen /\ (Idle' <=> Idle)
  BY DEF Unseen, Idle
<1>3. \A q \in Run : Busy(q) => copy[q].id \in Plan
  BY DEF CalmInv, Standing, Read
<1>4. Standing'
  BY <1>1, <1>2, <1>3 DEF CalmInv, Standing, Due, Busy
<1>5. Covered'
  BY <1>1 DEF CalmInv, Covered, DueForFollowUp, Run
<1> QED
  BY <1>4, <1>5

\* A run marks the plan it is at and goes on.
LEMMA OnwardStands ==
  ASSUME CalmInv, NEW r \in Run, Busy(r), Marks, Onward(r), outcome' = outcome,
         r \in Follower => plans'[copy[r].id].followed \/ copy[r].id \notin Plan
  PROVE  Standing' /\ Covered'
<1>1. /\ pc'[r] = "next" /\ UNCHANGED <<list, skipped>>
      /\ \A q \in Run \ {r} : pc'[q] = pc[q] /\ copy'[q] = copy[q]
  BY DEF Onward, GoTo, CalmInv, OnceInv, TypeOK
<1>2. Reading(r)' = list[r] /\ ~Busy(r)' /\ Reading(r) = list[r] \cup {copy[r]}
  BY <1>1 DEF Reading, Busy
<1>3. \A q \in Run \ {r} : Reading(q)' = Reading(q) /\ (Busy(q)' <=> Busy(q))
  BY <1>1 DEF Reading, Busy
<1>4. Unseen' = {}
  <2>1. ~Idle
    BY DEF Idle, Busy
  <2> QED
    BY <2>1, MarksKeep DEF CalmInv, OnceInv, Standing
<1>5. \A q \in Run : \A c \in Reading(q) : c \in Read
  BY DEF Reading, CalmInv, OnceInv, TypeOK, Standing
<1>6. \A q \in Run : \A c \in Reading(q)' : Due(q, c)'
  BY <1>2, <1>3, <1>5, MarksKeep DEF CalmInv, OnceInv, Standing
<1>7. \A q \in Run : Busy(q)' => copy'[q] \in Read
  BY <1>1, <1>2, <1>3 DEF CalmInv, Standing
<1>8. \A q \in Run : pc'[q] = "told" =>
        q \in Follower /\ outcome[copy'[q].id] >= plans'[copy'[q].id].start
  <2> SUFFICES ASSUME NEW q \in Run, pc'[q] = "told"
               PROVE  q \in Follower /\ outcome[copy'[q].id] >= plans'[copy'[q].id].start
    OBVIOUS
  <2>1. q # r /\ pc[q] = "told" /\ copy'[q] = copy[q]
    BY <1>1
  <2>2. copy[q].id \in Plan
    BY <2>1 DEF CalmInv, Standing, Busy, Read
  <2> QED
    BY <2>1, <2>2 DEF CalmInv, Standing, Marks
<1>9. Standing'
  BY <1>1, <1>2, <1>4, <1>6, <1>7, <1>8 DEF CalmInv, Standing
<1>10. Covered'
  <2> SUFFICES ASSUME NEW q \in Follower, pc'[q] \in {"next", "told", "say", "quiet"},
                      NEW p \in DueForFollowUp'
               PROVE  skipped'[q] \/ \E c \in Reading(q)' : c.id = p
    BY DEF Covered
  <2>1. p \in DueForFollowUp /\ p \in Plan /\ ~plans'[p].followed
    BY MarksKeep DEF CalmInv, OnceInv, DueForFollowUp
  <2>2. pc[q] \in {"next", "told", "say", "quiet"}
    BY <1>1 DEF Busy, Run
  <2>3. skipped[q] \/ \E c \in Reading(q) : c.id = p
    BY <2>1, <2>2 DEF CalmInv, Covered
  <2> QED
    BY <2>1, <2>3, <1>1, <1>2, <1>3 DEF Run
<1> QED
  BY <1>9, <1>10

LEMMA StandingStep ==
  ASSUME CalmInv, ~Hasty, [Next]_vars
  PROVE  Standing' /\ Covered'
<1>1. ASSUME NEW p \in Plan, NEW day \in Day, Move(p, day) PROVE Standing' /\ Covered'
  BY <1>1, StillAtRest DEF Move
<1>2. ASSUME NEW p \in Plan, NEW what \in Day \cup {Gone}, ByHand(p, what) PROVE Standing' /\ Covered'
  BY <1>2, StillAtRest DEF ByHand
<1>3. ASSUME NEW p \in Plan, NEW day \in Day, RecordOutcome(p, day) PROVE Standing' /\ Covered'
  <2>1. \A q \in Plan : outcome[q] \in Nat /\ outcome'[q] \in Nat /\ outcome'[q] >= outcome[q]
    BY <1>3, Numbers DEF RecordOutcome, CalmInv, OnceInv, TypeOK, Day
  <2>2. \A q \in Plan : outcome[q] >= plans[q].start => outcome'[q] >= plans[q].start
    BY <2>1, Ends DEF CalmInv, OnceInv, TypeOK
  <2> QED
    BY <2>2, <1>3, SameStanding DEF RecordOutcome, world
<1>4. ASSUME NEW p \in Plan, NEW day \in Day, NEW length \in 0..MaxLength, Make(p, day, length) PROVE Standing' /\ Covered'
  BY <1>4, StillAtRest DEF Make, world, said
<1>5. ASSUME NEW p \in Plan, Cancel(p) PROVE Standing' /\ Covered'
  BY <1>5, StillAtRest DEF Cancel
<1>6. ASSUME NEW p \in Plan, LeaveChat(p) PROVE Standing' /\ Covered'
  BY <1>6, StillAtRest DEF LeaveChat
<1>7. ASSUME Tick PROVE Standing' /\ Covered'
  BY <1>7, StillAtRest DEF Tick
<1>8. ASSUME Stop PROVE Standing' /\ Covered'
  BY <1>8, AtRest DEF Stop, Idle
<1>9. ASSUME NEW r \in Run, Start(r) PROVE Standing' /\ Covered'
  <2>1. CASE Idle
    <3>1. /\ \A q \in Run : pc'[q] = "idle" \/ (q = r /\ pc'[q] = "list")
          /\ \A q \in Run : list'[q] = {}
      BY <2>1, <1>9 DEF Start, GoTo, Idle, CalmInv, OnceInv, TypeOK, Standing
    <3>2. \A q \in Run : ~Busy(q)' /\ Reading(q)' = {}
      BY <3>1 DEF Busy, Reading
    <3> QED
      BY <3>1, <3>2, <1>9, SyncKeeps DEF Standing, Covered, Run, CalmInv, OnceInv
  <2>2. CASE ~Idle
    <3>1. plans' = plans /\ google' = google /\ Unseen' = {}
      BY <2>2, <1>9, SyncKeeps DEF CalmInv, OnceInv, Standing
    <3>2. list[r] = {} /\ pc[r] = "idle" /\ pc'[r] = "list"
      BY <1>9 DEF Start, GoTo, CalmInv, Standing, OnceInv, TypeOK
    <3>3. \A q \in Run \ {r} : pc'[q] = pc[q]
      BY <1>9 DEF Start, GoTo, CalmInv, OnceInv, TypeOK
    <3>4. \A q \in Run : Reading(q)' = Reading(q) /\ (Busy(q)' <=> Busy(q))
      BY <3>2, <3>3, <1>9 DEF Start, Reading, Busy
    <3>5. Standing'
      BY <3>1, <3>2, <3>3, <3>4, <1>9 DEF Start, world, CalmInv, Standing, Due
    <3>6. Covered'
      BY <3>1, <3>2, <3>3, <3>4, <1>9 DEF Start, world, CalmInv, Covered, DueForFollowUp, Run
    <3> QED
      BY <3>5, <3>6
  <2> QED
    BY <2>1, <2>2
<1>10. ASSUME NEW r \in Run, ListDue(r) PROVE Standing' /\ Covered'
  <2> DEFINE due == IF r \in Follower THEN DueForFollowUp ELSE DueForCheck
  <2>1. pc[r] = "list" /\ pc'[r] = "next" /\ list'[r] = Copies(due)
    BY <1>10 DEF ListDue, GoTo, CalmInv, OnceInv, TypeOK
  <2>2. \A q \in Run \ {r} : pc'[q] = pc[q] /\ list'[q] = list[q] /\ skipped'[q] = skipped[q]
    BY <1>10 DEF ListDue, GoTo, CalmInv, OnceInv, TypeOK
  <2>3. Reading(r)' = Copies(due) /\ ~Busy(r)'
    BY <2>1 DEF Reading, Busy
  <2>4. \A q \in Run \ {r} : Reading(q)' = Reading(q) /\ (Busy(q)' <=> Busy(q))
    BY <2>2, <1>10 DEF ListDue, Reading, Busy
  <2>5. Unseen = {} /\ UNCHANGED <<plans, google, today, outcome, copy>> /\ Unseen' = Unseen
    BY <2>1, <1>10 DEF ListDue, world, CalmInv, Standing, Idle, Unseen
  <2>6. \A c \in Copies(due) : Due(r, c)
    BY PlanDaysAssumption DEF Copies, Due, DueForFollowUp, DueForCheck, Run
  <2>7. Standing'
    BY <2>1, <2>2, <2>3, <2>4, <2>5, <2>6 DEF CalmInv, Standing, Due
  <2>8. \A p \in due : \E c \in Copies(due) : c.id = p
    <3> SUFFICES ASSUME NEW p \in due PROVE \E c \in Copies(due) : c.id = p
      OBVIOUS
    <3>1. [id |-> p, row |-> plans[p]] \in Copies(due)
      BY DEF Copies
    <3> QED
      BY <3>1
  <2>9. Covered'
    BY <2>1, <2>2, <2>3, <2>4, <2>5, <2>8 DEF CalmInv, Covered, DueForFollowUp, Run
  <2> QED
    BY <2>7, <2>9
<1>11. ASSUME NEW r \in Run, NEW c \in list[r], NEW place \in {"told", "say", "quiet", "next"},
             Take(r, c, place) PROVE Standing' /\ Covered'
  <2>1. /\ pc[r] = "next" /\ pc'[r] = place /\ list'[r] = list[r] \ {c} /\ c \in Read
        /\ copy'[r] = IF place = "next" THEN NoCopy ELSE c
        /\ skipped'[r] = (skipped[r] \/ place = "next")
    BY <1>11 DEF Take, GoTo, CalmInv, OnceInv, TypeOK
  <2>2. \A q \in Run \ {r} : /\ pc'[q] = pc[q] /\ list'[q] = list[q]
                             /\ skipped'[q] = skipped[q] /\ copy'[q] = copy[q]
    BY <1>11 DEF Take, GoTo, CalmInv, OnceInv, TypeOK
  <2>3. Reading(r) = list[r] /\ (Busy(r)' <=> place # "next")
    BY <2>1 DEF Reading, Busy
  <2>4. Reading(r)' = IF place = "next" THEN list[r] \ {c} ELSE list[r]
    BY <2>1, <2>3 DEF Reading
  <2>5. \A q \in Run \ {r} : Reading(q)' = Reading(q) /\ (Busy(q)' <=> Busy(q))
    BY <2>2 DEF Reading, Busy
  <2>6. Unseen = {} /\ UNCHANGED <<plans, google, today, outcome>> /\ Unseen' = Unseen
    BY <2>1, <1>11 DEF Take, world, CalmInv, Standing, Idle, Unseen
  <2>7. place = "told" => r \in Follower /\ outcome[c.id] >= plans[c.id].start
    <3>1. Due(r, c)
      BY <2>3 DEF CalmInv, Standing
    <3> QED
      BY <3>1, <1>11 DEF Take, Due
  <2>8. Standing'
    BY <2>1, <2>2, <2>3, <2>4, <2>5, <2>6, <2>7 DEF CalmInv, Standing, Due
  <2>9. Covered'
    <3> SUFFICES ASSUME NEW q \in Follower, pc'[q] \in {"next", "told", "say", "quiet"},
                        NEW p \in DueForFollowUp
                 PROVE  skipped'[q] \/ \E d \in Reading(q)' : d.id = p
      BY <2>6 DEF Covered, DueForFollowUp
    <3>1. CASE q = r
      <4>1. skipped[r] \/ \E d \in list[r] : d.id = p
        BY <3>1, <2>1, <2>3 DEF CalmInv, Covered
      <4> QED
        BY <4>1, <3>1, <2>1, <2>4
    <3>2. CASE q # r
      BY <3>2, <2>2, <2>5 DEF CalmInv, Covered, Run
    <3> QED
      BY <3>1, <3>2
  <2> QED
    BY <2>8, <2>9
<1>12. ASSUME NEW r \in Run, MarkTold(r) PROVE Standing' /\ Covered'
  <2>1. Marks /\ outcome' = outcome
    BY <1>12 DEF MarkTold, Onward, world, Marks, CalmInv, OnceInv, TypeOK, Row
  <2>2. Onward(r) /\ Busy(r)
    BY <1>12 DEF MarkTold, Busy
  <2>3. r \in Follower => plans'[copy[r].id].followed \/ copy[r].id \notin Plan
    BY <1>12, PlanDaysAssumption DEF MarkTold, CalmInv, OnceInv, TypeOK, Row
  <2> QED
    BY <2>1, <2>2, <2>3, OnwardStands
<1>13. ASSUME NEW r \in Run, Ask(r) PROVE Standing' /\ Covered'
  <2>1. Marks /\ outcome' = outcome
    BY <1>13 DEF Ask, Onward, world, Marks, CalmInv, OnceInv, TypeOK, Row
  <2>2. Onward(r) /\ Busy(r)
    BY <1>13 DEF Ask, Busy
  <2>3. r \in Follower => plans'[copy[r].id].followed \/ copy[r].id \notin Plan
    BY <1>13, PlanDaysAssumption DEF Ask, CalmInv, OnceInv, TypeOK, Row
  <2> QED
    BY <2>1, <2>2, <2>3, OnwardStands
<1>14. ASSUME NEW r \in Run, Check(r) PROVE Standing' /\ Covered'
  <2>1. Marks /\ outcome' = outcome
    BY <1>14 DEF Check, Onward, world, Marks, CalmInv, OnceInv, TypeOK, Row
  <2>2. Onward(r) /\ Busy(r)
    BY <1>14 DEF Check, Busy
  <2>3. r \in Follower => plans'[copy[r].id].followed \/ copy[r].id \notin Plan
    BY <1>14, PlanDaysAssumption DEF Check, CalmInv, OnceInv, TypeOK, Row
  <2> QED
    BY <2>1, <2>2, <2>3, OnwardStands
<1>15. ASSUME NEW r \in Run, Finish(r) PROVE Standing' /\ Covered'
  <2>1. /\ pc[r] = "next" /\ list[r] = {} /\ pc'[r] = "idle"
        /\ \A q \in Run \ {r} : pc'[q] = pc[q] /\ skipped'[q] = skipped[q]
        /\ UNCHANGED <<plans, google, today, outcome, list, copy>>
    BY <1>15 DEF Finish, GoTo, CalmInv, OnceInv, TypeOK
  <2>2. \A q \in Run : Reading(q)' = Reading(q) /\ (Busy(q)' <=> Busy(q))
    BY <2>1 DEF Reading, Busy
  <2>3. Unseen = {} /\ Unseen' = {}
    BY <2>1 DEF CalmInv, Standing, Idle, Unseen
  <2>4. Standing'
    BY <2>1, <2>2, <2>3 DEF CalmInv, Standing, Due
  <2>5. Covered'
    BY <2>1, <2>2 DEF CalmInv, Covered, DueForFollowUp, Run
  <2> QED
    BY <2>4, <2>5
<1>16. ASSUME UNCHANGED vars PROVE Standing' /\ Covered'
  BY <1>16, SameStanding DEF vars, world
<1> QED
  BY StepCases, <1>1, <1>2, <1>3, <1>4, <1>5, <1>6, <1>7, <1>8, <1>9, <1>10, <1>11, <1>12, <1>13, <1>14, <1>15, <1>16 DEF Steps, CalmInv, OnceInv

LEMMA SamePatient ==
  ASSUME CalmInv, UNCHANGED <<plans, google, today, missed, whole>>
  PROVE  Patient' /\ AllTold'
<1>1. \A p \in Plan : InLine(p)' = InLine(p) /\ (Waiting(p)' <=> Waiting(p))
  BY DEF InLine, Unseen, Waiting
<1> QED
  BY <1>1 DEF CalmInv, Patient, AllTold, End

\* One plan changes, and what it waits for is still to come.
LEMMA OnePatient ==
  ASSUME CalmInv, NEW p \in Plan, UNCHANGED <<today, missed, whole>>, [Next]_vars,
         \A q \in Plan \ {p} : plans'[q] = plans[q] /\ google'[q] = google[q],
         Waiting(p)' => today <= End(InLine(p))'
  PROVE  Patient' /\ AllTold'
<1>1. \A q \in Plan \ {p} : /\ InLine(q)' = InLine(q) /\ (Waiting(q)' <=> Waiting(q))
                            /\ End(InLine(q))' = End(InLine(q))
  BY DEF InLine, Unseen, Waiting, End
<1>2. InLine(p)' \in Row
  <2>1. plans'[p] \in Row /\ google'[p] \in Day \cup {Same, Gone}
    BY OnceStep DEF CalmInv, OnceInv, TypeOK
  <2> QED
    BY <2>1 DEF InLine, Row, Unseen
<1>3. End(InLine(p))' \in Nat /\ missed \in Nat /\ today \in Nat
  BY <1>2, Ends, Numbers DEF CalmInv, OnceInv, TypeOK, End
<1>4. Waiting(p)' => today' <= End(InLine(p))' + 1 + missed'
  BY <1>3
<1>5. Patient'
  BY <1>1, <1>4 DEF CalmInv, Patient
<1>6. AllTold'
  BY <1>1 DEF CalmInv, AllTold
<1> QED
  BY <1>5, <1>6

\* A plan that is not asked about waits for days without a whole run.
LEMMA PatientStep ==
  ASSUME CalmInv, Calm, [Next]_vars
  PROVE  Patient' /\ AllTold'
<1>1. ASSUME NEW p \in Plan, NEW day \in Day, Move(p, day) PROVE Patient' /\ AllTold'
  <2>1. /\ UNCHANGED <<today, missed, whole>>
        /\ \A q \in Plan \ {p} : plans'[q] = plans[q] /\ google'[q] = google[q]
    BY <1>1 DEF Move, Changed, world, CalmInv, OnceInv, TypeOK
  <2>2. google'[p] = Same /\ plans'[p].start = day /\ day >= today
    BY <1>1 DEF Move, Changed, CalmInv, OnceInv, TypeOK, Row
  <2>3. plans'[p] \in Row
    BY <1>1, OnceStep DEF CalmInv, OnceInv, TypeOK
  <2>4. InLine(p)' = plans'[p]
    BY <2>2 DEF InLine, Unseen
  <2>5. today <= End(InLine(p))'
    BY <2>2, <2>3, <2>4, Ends, Numbers DEF CalmInv, OnceInv, TypeOK, End
  <2> QED
    BY <2>1, <2>5, OnePatient
<1>2. ASSUME NEW p \in Plan, NEW what \in Day \cup {Gone}, ByHand(p, what) PROVE Patient' /\ AllTold'
  <2>1. /\ UNCHANGED <<today, missed, whole>>
        /\ \A q \in Plan \ {p} : plans'[q] = plans[q] /\ google'[q] = google[q]
    BY <1>2 DEF ByHand, world, CalmInv, OnceInv, TypeOK
  <2>2. plans' = plans /\ google'[p] = what /\ what # Same /\ (what = Gone \/ what >= today)
    BY <1>2, Numbers DEF ByHand, CalmInv, OnceInv, TypeOK
  <2>3. plans[p] \in Row /\ plans[p].live /\ what \in Day \cup {Gone}
    BY <1>2 DEF ByHand, CalmInv, OnceInv, TypeOK
  <2>4. Waiting(p)' => what # Gone /\ InLine(p)'.start = what /\ InLine(p)' \in Row
    BY <2>2, <2>3 DEF InLine, Unseen, Waiting, Row
  <2>5. Waiting(p)' => today <= End(InLine(p))'
    <3>1. CASE Waiting(p)'
      <4>1. InLine(p)'.start <= End(InLine(p)') /\ InLine(p)'.start \in Nat /\ End(InLine(p)') \in Nat
        BY <2>4, <3>1, Ends
      <4> QED
        BY <4>1, <2>2, <2>4, <3>1, Numbers DEF CalmInv, OnceInv, TypeOK, End
    <3> QED
      BY <3>1
  <2> QED
    BY <2>1, <2>5, OnePatient
<1>3. ASSUME NEW p \in Plan, NEW day \in Day, RecordOutcome(p, day) PROVE Patient' /\ AllTold'
  BY <1>3, SamePatient DEF RecordOutcome, world
<1>4. ASSUME NEW p \in Plan, NEW day \in Day, NEW length \in 0..MaxLength, Make(p, day, length) PROVE Patient' /\ AllTold'
  <2>1. /\ UNCHANGED <<today, missed, whole>>
        /\ \A q \in Plan \ {p} : plans'[q] = plans[q] /\ google'[q] = google[q]
    BY <1>4 DEF Make, world, CalmInv, OnceInv, TypeOK
  <2>2. google'[p] = Same /\ plans'[p].start = day /\ day >= today
    BY <1>4 DEF Make, CalmInv, OnceInv, TypeOK, Row, Followed, Unmade
  <2>3. plans'[p] \in Row
    BY <1>4, OnceStep DEF CalmInv, OnceInv, TypeOK
  <2>4. InLine(p)' = plans'[p]
    BY <2>2 DEF InLine, Unseen
  <2>5. today <= End(InLine(p))'
    BY <2>2, <2>3, <2>4, Ends, Numbers DEF CalmInv, OnceInv, TypeOK, End
  <2> QED
    BY <2>1, <2>5, OnePatient
<1>5. ASSUME NEW p \in Plan, Cancel(p) PROVE Patient' /\ AllTold'
  <2>1. /\ UNCHANGED <<today, missed, whole>>
        /\ \A q \in Plan \ {p} : plans'[q] = plans[q] /\ google'[q] = google[q]
    BY <1>5 DEF Cancel, Changed, world, CalmInv, OnceInv, TypeOK
  <2>2. google'[p] = Same /\ ~plans'[p].live
    BY <1>5 DEF Cancel, Changed, CalmInv, OnceInv, TypeOK, Row
  <2>5. ~Waiting(p)'
    BY <2>2 DEF InLine, Unseen, Waiting
  <2> QED
    BY <2>1, <2>5, OnePatient
<1>6. ASSUME NEW p \in Plan, LeaveChat(p) PROVE Patient' /\ AllTold'
  <2>1. /\ UNCHANGED <<today, missed, whole>>
        /\ \A q \in Plan \ {p} : plans'[q] = plans[q] /\ google'[q] = google[q]
    BY <1>6 DEF LeaveChat, world, CalmInv, OnceInv, TypeOK
  <2>2. ~plans'[p].chat /\ plans'[p] \in Row
    BY <1>6, OnceStep DEF LeaveChat, CalmInv, OnceInv, TypeOK
  <2>5. ~Waiting(p)'
    BY <2>2 DEF InLine, Unseen, Waiting, Row
  <2> QED
    BY <2>1, <2>5, OnePatient
<1>7. ASSUME Tick PROVE Patient' /\ AllTold'
  <2>1. /\ today \in Nat /\ today' = today + 1 /\ missed \in Nat /\ whole' = FALSE
        /\ whole \in BOOLEAN
        /\ missed' = IF whole THEN missed ELSE missed + 1
        /\ plans' = plans /\ google' = google
    BY <1>7, Numbers DEF Tick, CalmInv, OnceInv, TypeOK
  <2>2. \A p \in Plan : InLine(p)' = InLine(p) /\ (Waiting(p)' <=> Waiting(p))
    BY <2>1 DEF InLine, Unseen, Waiting
  <2>3. \A p \in Plan : End(InLine(p)) \in Nat /\ End(InLine(p))' = End(InLine(p))
    BY <2>2, InLineIs, Ends DEF CalmInv, OnceInv, End
  <2>4. Patient'
    <3> SUFFICES ASSUME NEW p \in Plan, Waiting(p) PROVE today' <= End(InLine(p)) + 1 + missed'
      BY <2>2, <2>3 DEF Patient
    <3>1. CASE whole
      <4>1. today <= End(InLine(p)) /\ missed' = missed
        BY <3>1, <2>1 DEF CalmInv, AllTold
      <4> QED
        BY <4>1, <2>1, <2>3
    <3>2. CASE ~whole
      <4>1. today <= End(InLine(p)) + 1 + missed /\ missed' = missed + 1
        BY <3>2, <2>1 DEF CalmInv, Patient
      <4> QED
        BY <4>1, <2>1, <2>3
    <3> QED
      BY <3>1, <3>2
  <2>5. AllTold'
    BY <2>1 DEF AllTold
  <2> QED
    BY <2>4, <2>5
<1>8. ASSUME Stop PROVE Patient' /\ AllTold'
  BY <1>8, SamePatient DEF Stop, world
<1>9. ASSUME NEW r \in Run, Start(r) PROVE Patient' /\ AllTold'
  <2>1. \A p \in Plan : InLine(p)' = InLine(p) /\ (Waiting(p)' <=> Waiting(p))
    BY <1>9, SyncKeeps DEF Waiting, CalmInv, OnceInv
  <2> QED
    BY <2>1, <1>9 DEF Start, world, CalmInv, Patient, AllTold, End
<1>10. ASSUME NEW r \in Run, ListDue(r) PROVE Patient' /\ AllTold'
  BY <1>10, SamePatient DEF ListDue, world
<1>11. ASSUME NEW r \in Run, NEW c \in list[r], NEW place \in {"told", "say", "quiet", "next"},
             Take(r, c, place) PROVE Patient' /\ AllTold'
  BY <1>11, SamePatient DEF Take, world
<1>12. ASSUME NEW r \in Run, MarkTold(r) PROVE Patient' /\ AllTold'
  <2>1. Marks /\ missed' = missed /\ whole' = whole
    BY <1>12 DEF MarkTold, Onward, world, Marks, CalmInv, OnceInv, TypeOK, Row
  <2>2. Unseen = {}
    BY <1>12 DEF MarkTold, CalmInv, Standing, Idle
  <2> QED
    BY <2>1, <2>2, MarksPatient DEF CalmInv, OnceInv
<1>13. ASSUME NEW r \in Run, Ask(r) PROVE Patient' /\ AllTold'
  <2>1. Marks /\ missed' = missed /\ whole' = whole
    BY <1>13 DEF Ask, Onward, world, Marks, CalmInv, OnceInv, TypeOK, Row
  <2>2. Unseen = {}
    BY <1>13 DEF Ask, CalmInv, Standing, Idle
  <2> QED
    BY <2>1, <2>2, MarksPatient DEF CalmInv, OnceInv
<1>14. ASSUME NEW r \in Run, Check(r) PROVE Patient' /\ AllTold'
  <2>1. Marks /\ missed' = missed /\ whole' = whole
    BY <1>14 DEF Check, Onward, world, Marks, CalmInv, OnceInv, TypeOK, Row
  <2>2. Unseen = {}
    BY <1>14 DEF Check, CalmInv, Standing, Idle
  <2> QED
    BY <2>1, <2>2, MarksPatient DEF CalmInv, OnceInv
<1>15. ASSUME NEW r \in Run, Finish(r) PROVE Patient' /\ AllTold'
  <2>1. /\ pc[r] = "next" /\ list[r] = {}
        /\ UNCHANGED <<plans, google, today, missed>>
        /\ whole' = (whole \/ (r \in Follower /\ ~skipped[r]))
    BY <1>15 DEF Finish
  <2>2. Unseen = {} /\ Unseen' = {}
    BY <2>1 DEF CalmInv, Standing, Idle, Unseen
  <2>3. \A p \in Plan : InLine(p) = plans[p] /\ InLine(p)' = plans[p]
    BY <2>1, <2>2 DEF InLine
  <2>4. \A p \in Plan : (Waiting(p)' <=> Waiting(p)) /\ End(InLine(p))' = End(InLine(p))
    BY <2>3 DEF Waiting, End
  <2>5. Patient'
    BY <2>1, <2>4 DEF CalmInv, Patient
  <2>6. AllTold'
    <3>1. CASE whole
      BY <3>1, <2>1, <2>4 DEF CalmInv, AllTold
    <3>2. CASE r \in Follower /\ ~skipped[r]
      <4> SUFFICES ASSUME NEW p \in Plan, Waiting(p), ~(today <= End(plans[p])) PROVE FALSE
        BY <2>1, <2>3, <2>4 DEF AllTold, Waiting
      <4>1. plans[p] \in Row /\ today \in Nat /\ missed \in Nat /\ missed <= MaxMissed
        BY Numbers DEF CalmInv, OnceInv, TypeOK
      <4>2. today <= End(plans[p]) + 1 + missed
        BY <2>3 DEF CalmInv, Patient
      <4>3. plans[p].start + FollowUpDays >= today /\ End(plans[p]) < today
        BY <4>1, <4>2, Ends, Numbers DEF Calm
      <4>4. p \in DueForFollowUp
        BY <4>3, <2>3 DEF DueForFollowUp, Waiting
      <4>5. Reading(r) = {}
        BY <2>1 DEF Reading, Busy
      <4> QED
        BY <4>4, <4>5, <3>2, <2>1 DEF CalmInv, Covered
    <3>3. CASE ~whole'
      BY <3>3 DEF AllTold
    <3> QED
      BY <3>1, <3>2, <3>3, <2>1
  <2> QED
    BY <2>5, <2>6
<1>16. ASSUME UNCHANGED vars PROVE Patient' /\ AllTold'
  BY <1>16, SamePatient DEF vars, world
<1> QED
  BY StepCases, <1>1, <1>2, <1>3, <1>4, <1>5, <1>6, <1>7, <1>8, <1>9, <1>10, <1>11, <1>12, <1>13, <1>14, <1>15, <1>16 DEF Steps, CalmInv, OnceInv

LEMMA CalmInit == ASSUME Init PROVE CalmInv
<1>1. OnceInv
  BY OnceInit
<1>2. \A r \in Run : pc[r] = "idle" /\ list[r] = {} /\ ~Busy(r) /\ Reading(r) = {}
  BY DEF Init, Busy, Reading
<1>3. Standing /\ Covered
  BY <1>2 DEF Standing, Covered, Idle, Run
<1>4. \A p \in Plan : ~plans[p].live /\ ~plans[p].followed /\ google[p] = Same /\ InLine(p) = plans[p]
  BY DEF Init, Unmade, InLine, Unseen
<1>5. Settled /\ Followed /\ Patient /\ AllTold
  BY <1>4 DEF Settled, Followed, Patient, AllTold, Waiting
<1> QED
  BY <1>1, <1>3, <1>5 DEF CalmInv

LEMMA CalmStep == ASSUME CalmInv, Calm, [Next]_vars PROVE CalmInv'
<1>1. OnceInv'
  BY OnceStep DEF CalmInv
<1>2. Standing' /\ Covered'
  BY StandingStep DEF Calm
<1>3. Settled' /\ Followed'
  BY SettledStep DEF Calm
<1>4. Patient' /\ AllTold'
  BY PatientStep
<1> QED
  BY <1>1, <1>2, <1>3, <1>4 DEF CalmInv

-----------------------------------------------------------------------------
\* Nobody is forgotten: a plan whose window is past was asked about or told of,
\* though runs stop, ask Google in vain or leave a plan to a sender, when no plan
\* changes under a run and fewer days go by without a whole run than the window
\* has (run_follow_ups, plans.due_for_follow_up).
THEOREM NobodyForgottenWhenCalm == ASSUME Calm PROVE Spec => []NobodyForgotten
<1>1. Init => CalmInv
  BY CalmInit
<1>2. CalmInv /\ [Next]_vars => CalmInv'
  BY CalmStep
<1>3. CalmInv => NobodyForgotten
  <2> SUFFICES ASSUME CalmInv, NEW p \in Plan, plans[p].live, plans[p].chat, google[p] = Same,
                      today > plans[p].start + FollowUpDays
               PROVE  asked[p] > 0 \/ outcome[p] >= plans[p].start
    BY DEF NobodyForgotten
  <2>1. plans[p] \in Row /\ today \in Nat /\ missed \in Nat /\ missed <= MaxMissed
    BY Numbers DEF CalmInv, OnceInv, TypeOK
  <2>2. CASE plans[p].followed
    BY <2>2 DEF CalmInv, Settled
  <2>3. CASE ~plans[p].followed
    <3>1. InLine(p) = plans[p]
      BY DEF InLine, Unseen
    <3>2. Waiting(p)
      BY <2>3, <3>1 DEF Waiting
    <3>3. today <= End(plans[p]) + 1 + missed
      BY <3>1, <3>2 DEF CalmInv, Patient
    <3> QED
      BY <3>3, <2>1, Ends, Numbers DEF Calm
  <2> QED
    BY <2>2, <2>3
<1> QED
  BY <1>1, <1>2, <1>3, PTL DEF Spec
=============================================================================
