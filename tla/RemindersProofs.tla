--------------------------- MODULE RemindersProofs ---------------------------
(***************************************************************************)
(* What Reminders promises, for any tasks, requests, forms and bounds.     *)
(*                                                                         *)
(* Everything rests on the list of a task's reminders being Tidy: one      *)
(* waits at most, and it is for later than whatever was queued before it.  *)
(* What is added is for after now and added when nothing waits; what is    *)
(* queued is due: so no moment comes twice.                                *)
(***************************************************************************)
EXTENDS Reminders, FiniteSetTheorems, SequenceTheorems, WellFoundedInduction, TLAPS

\* A list of reminders on some day.
Tidy(list, day) ==
  /\ list \in Seq(Row)
  /\ \A i, j \in Pending(list) : i = j
  /\ \A i \in DOMAIN list : list[i].message # "none" => list[i].at <= day
  /\ \A i \in Pending(list), j \in DOMAIN list :
       list[j].message # "none" => list[j].at < list[i].at
  /\ \A i, j \in DOMAIN list :
       i # j /\ list[i].message # "none" /\ list[j].message # "none"
         => list[i].at # list[j].at

\* What was queued stays so.
Grows(list, new) ==
  \A i \in DOMAIN list :
    list[i].message # "none" => i \in DOMAIN new /\ new[i].message # "none"

\* A claim is on a message there is.
SentWasQueued ==
  \A t \in Task, i \in Nat :
    <<t, i>> \in sending => i \in DOMAIN rows[t] /\ rows[t][i].message # "none"

ClosedHasNone == \A t \in Task : status[t] # "open" => Live(rows[t]) = {}

FormsOK == \A f \in Form : drawn[f] # Blank => drawn[f].task \in Task

ListsOK ==
  /\ \A t \in Task : Tidy(rows[t], now)
  /\ \A t \in Task : status[t] = "absent" => rows[t] = <<>>
  /\ SentWasQueued
  /\ ClosedHasNone

\* What is being sent stays live, but where a plan may close the task.
GoingIsLive ==
  \A t \in Task \ tied, i \in Nat : <<t, i>> \in sending => i \in Live(rows[t])

Inv == TypeOK /\ FormsOK /\ ListsOK

Steps ==
  \/ \E t \in Task, at \in {None} \cup 1..Horizon, from \in {"once", "schedule", "done"} :
       Create(t, at, from)
  \/ \E t \in Task : RemindBefore(t)
  \/ \E f \in Form, t \in Task : Draw(f, t)
  \/ \E t \in Task, r \in Request : Ask(t, r)
  \/ \E f \in Form, r \in Request : Save(f, r)
  \/ \E f \in Form : Refuse(f)
  \/ RunReminders
  \/ \E t \in Task, i \in 1..MaxRows : BeginSend(t, i)
  \/ \E t \in Task, i \in 1..MaxRows, went \in BOOLEAN : EndSend(t, i, went)
  \/ \E s \in 1..Horizon : MovePlan(s)
  \/ CancelPlan
  \/ Sync
  \/ Tick
  \/ UNCHANGED vars

LEMMA StepCases == [Next]_vars => Steps
BY DEF Next, Steps

-----------------------------------------------------------------------------
\* Lists of reminders.
LEMMA ListFacts ==
  ASSUME NEW list \in Seq(Row)
  PROVE  /\ DOMAIN list = 1..Len(list) /\ Len(list) \in Nat
         /\ \A i \in DOMAIN list : list[i] \in Row
         /\ Pending(list) \subseteq DOMAIN list /\ Live(list) \subseteq DOMAIN list
BY DEF Pending, Live

LEMMA Waits ==
  ASSUME NEW at \in Nat
  PROVE  /\ Waiting(at) \in Row /\ Waiting(at).at = at
         /\ Waiting(at).live /\ Waiting(at).message = "none"
BY DEF Waiting, Row

LEMMA CancelledList ==
  ASSUME NEW list \in Seq(Row)
  PROVE  /\ CancelReminders(list) \in Seq(Row)
         /\ DOMAIN CancelReminders(list) = DOMAIN list
         /\ \A i \in DOMAIN list :
              /\ CancelReminders(list)[i].at = list[i].at
              /\ CancelReminders(list)[i].message = list[i].message
              /\ CancelReminders(list)[i].live = FALSE
         /\ Live(CancelReminders(list)) = {} /\ Pending(CancelReminders(list)) = {}
<1> DEFINE new == CancelReminders(list)
<1>1. DOMAIN list = 1..Len(list) /\ Len(list) \in Nat /\ \A i \in DOMAIN list : list[i] \in Row
  BY ListFacts
<1>2. \A i \in DOMAIN list :
        /\ new[i] = [list[i] EXCEPT !.live = FALSE]
        /\ new[i] \in Row
  BY <1>1 DEF CancelReminders, Row
<1>3. DOMAIN new = DOMAIN list
  BY DEF CancelReminders
<1>4. new = [i \in 1..Len(list) |-> new[i]]
  BY <1>1 DEF CancelReminders
<1>5. new \in [1..Len(list) -> Row]
  BY <1>1, <1>2, <1>4
<1>6. new \in Seq(Row)
  BY <1>1, <1>5, SeqDef
<1>7. \A i \in DOMAIN list :
        new[i].at = list[i].at /\ new[i].message = list[i].message /\ new[i].live = FALSE
  BY <1>1, <1>2 DEF Row
<1>8. Live(new) = {} /\ Pending(new) = {}
  BY <1>3, <1>7 DEF Live, Pending
<1> QED
  BY <1>3, <1>6, <1>7, <1>8

LEMMA CancelTidy ==
  ASSUME NEW list, NEW day \in Nat, Tidy(list, day)
  PROVE  /\ Tidy(CancelReminders(list), day) /\ Grows(list, CancelReminders(list))
         /\ Live(CancelReminders(list)) = {} /\ Pending(CancelReminders(list)) = {}
<1> DEFINE new == CancelReminders(list)
<1>1. list \in Seq(Row)
  BY DEF Tidy
<1>2. /\ new \in Seq(Row) /\ DOMAIN new = DOMAIN list
      /\ \A i \in DOMAIN list : new[i].at = list[i].at /\ new[i].message = list[i].message
      /\ Live(new) = {} /\ Pending(new) = {}
  BY <1>1, CancelledList
<1> HIDE DEF new
<1>3. \A i \in DOMAIN new : new[i].message # "none" => new[i].at <= day
  BY <1>2 DEF Tidy
<1>4. \A i, j \in DOMAIN new :
        i # j /\ new[i].message # "none" /\ new[j].message # "none" => new[i].at # new[j].at
  BY <1>2 DEF Tidy
<1>5. Tidy(new, day)
  BY <1>2, <1>3, <1>4 DEF Tidy
<1>6. Grows(list, new)
  BY <1>2 DEF Grows
<1> QED
  BY <1>2, <1>5, <1>6 DEF new

\* What is added to a list where nothing waits, for later.
LEMMA AddTidy ==
  ASSUME NEW list, NEW day \in Nat, NEW at \in Nat,
         Tidy(list, day), Pending(list) = {}, at > day
  PROVE  /\ Tidy(Append(list, Waiting(at)), day)
         /\ Grows(list, Append(list, Waiting(at)))
         /\ \A i \in DOMAIN list : Append(list, Waiting(at))[i] = list[i]
         /\ \A i \in Pending(Append(list, Waiting(at))) : Append(list, Waiting(at))[i].at = at
<1> DEFINE new == Append(list, Waiting(at))
<1>1. list \in Seq(Row) /\ Waiting(at) \in Row
  BY Waits DEF Tidy
<1>2. /\ new \in Seq(Row) /\ DOMAIN list = 1..Len(list) /\ Len(list) \in Nat
      /\ DOMAIN new = 1..(Len(list) + 1)
      /\ \A i \in DOMAIN list : new[i] = list[i]
      /\ new[Len(list) + 1] = Waiting(at)
  BY <1>1
<1> DEFINE n == Len(list) + 1
<1> HIDE DEF new
<1>3. \A i \in DOMAIN new : (i \in DOMAIN list /\ new[i] = list[i]) \/ (i = n /\ i \notin DOMAIN list)
  BY <1>2
<1>4. /\ new[n].at = at /\ new[n].message = "none"
  BY <1>2, Waits
<1>5. Pending(new) \subseteq {n}
  <2> SUFFICES ASSUME NEW i \in Pending(new), i # n PROVE FALSE
    OBVIOUS
  <2>1. i \in DOMAIN list /\ new[i] = list[i] /\ new[i].live /\ new[i].message = "none"
    BY <1>3 DEF Pending, Live
  <2> QED
    BY <2>1 DEF Pending, Live
<1>6. \A i \in DOMAIN new : new[i].message # "none" => i \in DOMAIN list /\ new[i] = list[i]
  BY <1>3, <1>4
<1>7. \A i \in DOMAIN list : list[i].at \in Nat
  BY <1>1, ListFacts DEF Row
<1>8. \A i \in DOMAIN new : new[i].message # "none" => new[i].at <= day
  BY <1>6 DEF Tidy
<1>9. \A i \in Pending(new), j \in DOMAIN new : new[j].message # "none" => new[j].at < new[i].at
  <2> SUFFICES ASSUME NEW i \in Pending(new), NEW j \in DOMAIN new, new[j].message # "none"
               PROVE  new[j].at < new[i].at
    OBVIOUS
  <2>1. new[i].at = at /\ new[j].at <= day /\ new[j].at \in Nat
    BY <1>4, <1>5, <1>6, <1>7, <1>8
  <2> QED
    BY <2>1
<1>10. \A i, j \in DOMAIN new :
         i # j /\ new[i].message # "none" /\ new[j].message # "none" => new[i].at # new[j].at
  BY <1>6 DEF Tidy
<1>11. Tidy(new, day)
  BY <1>2, <1>5, <1>8, <1>9, <1>10 DEF Tidy
<1>12. Grows(list, new)
  BY <1>2 DEF Grows
<1> QED
  BY <1>2, <1>4, <1>5, <1>11, <1>12 DEF new

\* What was queued was due, and waits no more.
LEMMA QueueTidy ==
  ASSUME NEW list, NEW day \in Nat, Tidy(list, day),
         NEW i \in Pending(list), list[i].at <= day
  PROVE  /\ Tidy([list EXCEPT ![i].message = "queued"], day)
         /\ Grows(list, [list EXCEPT ![i].message = "queued"])
         /\ DOMAIN [list EXCEPT ![i].message = "queued"] = DOMAIN list
         /\ \A j \in DOMAIN list : [list EXCEPT ![i].message = "queued"][j].live = list[j].live
         /\ Pending([list EXCEPT ![i].message = "queued"]) = {}
<1> DEFINE row == [list[i] EXCEPT !.message = "queued"]
           new == [list EXCEPT ![i].message = "queued"]
<1>1. /\ list \in Seq(Row) /\ DOMAIN list = 1..Len(list) /\ i \in DOMAIN list
      /\ \A j \in DOMAIN list : list[j] \in Row
  BY ListFacts DEF Tidy
<1>2. row \in Row /\ row.at = list[i].at /\ row.live = list[i].live /\ row.message = "queued"
  BY <1>1 DEF Row
<1>3. new = [list EXCEPT ![i] = row]
  OBVIOUS
<1>4. /\ new \in Seq(Row) /\ DOMAIN new = DOMAIN list
      /\ \A j \in DOMAIN list : new[j] = IF j = i THEN row ELSE list[j]
  BY <1>1, <1>2, <1>3, ExceptSeq
<1> HIDE DEF new, row
<1>5. /\ \A j \in DOMAIN list : new[j].at = list[j].at /\ new[j].live = list[j].live
      /\ \A j \in DOMAIN list : j # i => new[j].message = list[j].message
      /\ new[i].message = "queued"
  BY <1>1, <1>2, <1>4
<1>6. Pending(new) = {}
  BY <1>4, <1>5 DEF Pending, Live, Tidy
<1>7. \A j \in DOMAIN list : list[j].at \in Nat
  BY <1>1 DEF Row
<1>8. \A j \in DOMAIN new : new[j].message # "none" => new[j].at <= day
  BY <1>4, <1>5 DEF Tidy
<1>9. \A j \in DOMAIN list : list[j].message # "none" => list[j].at < list[i].at
  BY DEF Tidy
<1>10. \A j, k \in DOMAIN new :
         j # k /\ new[j].message # "none" /\ new[k].message # "none" => new[j].at # new[k].at
  <2> SUFFICES ASSUME NEW j \in DOMAIN list, NEW k \in DOMAIN list, j # k,
                      new[j].message # "none", new[k].message # "none"
               PROVE  list[j].at # list[k].at
    BY <1>4, <1>5
  <2>1. CASE j = i
    BY <2>1, <1>1, <1>5, <1>7, <1>9
  <2>2. CASE k = i
    BY <2>2, <1>1, <1>5, <1>7, <1>9
  <2>3. CASE j # i /\ k # i
    BY <2>3, <1>5 DEF Tidy
  <2> QED
    BY <2>1, <2>2, <2>3
<1>11. Tidy(new, day)
  BY <1>4, <1>6, <1>8, <1>10 DEF Tidy
<1>12. Grows(list, new)
  BY <1>4, <1>5 DEF Grows
<1> QED
  BY <1>4, <1>5, <1>6, <1>11, <1>12 DEF new

LEMMA DeliveredTidy ==
  ASSUME NEW list, NEW day \in Nat, Tidy(list, day),
         NEW i \in DOMAIN list, list[i].message # "none"
  PROVE  /\ Tidy([list EXCEPT ![i].message = "delivered"], day)
         /\ Grows(list, [list EXCEPT ![i].message = "delivered"])
         /\ DOMAIN [list EXCEPT ![i].message = "delivered"] = DOMAIN list
         /\ \A j \in DOMAIN list : [list EXCEPT ![i].message = "delivered"][j].live = list[j].live
<1> DEFINE row == [list[i] EXCEPT !.message = "delivered"]
           new == [list EXCEPT ![i].message = "delivered"]
<1>1. /\ list \in Seq(Row) /\ DOMAIN list = 1..Len(list)
      /\ \A j \in DOMAIN list : list[j] \in Row
  BY ListFacts DEF Tidy
<1>2. row \in Row /\ row.at = list[i].at /\ row.live = list[i].live /\ row.message = "delivered"
  BY <1>1 DEF Row
<1>3. new = [list EXCEPT ![i] = row]
  OBVIOUS
<1>4. /\ new \in Seq(Row) /\ DOMAIN new = DOMAIN list
      /\ \A j \in DOMAIN list : new[j] = IF j = i THEN row ELSE list[j]
  BY <1>1, <1>2, <1>3, ExceptSeq
<1> HIDE DEF new, row
<1>5. /\ \A j \in DOMAIN list : new[j].at = list[j].at /\ new[j].live = list[j].live
      /\ \A j \in DOMAIN list : (new[j].message # "none") <=> (list[j].message # "none")
  BY <1>1, <1>2, <1>4
<1>6. Pending(new) = Pending(list)
  BY <1>4, <1>5 DEF Pending, Live
<1>7. Tidy(new, day)
  BY <1>4, <1>5, <1>6, ListFacts DEF Tidy
<1> QED
  BY <1>4, <1>5, <1>7 DEF new, Grows

LEMMA LaterTidy ==
  ASSUME NEW list, NEW day \in Nat, NEW later \in Nat, day <= later, Tidy(list, day)
  PROVE  Tidy(list, later)
<1>1. \A i \in DOMAIN list : list[i].at \in Nat
  BY ListFacts DEF Tidy, Row
<1> QED
  BY <1>1 DEF Tidy

LEMMA GrowsOn ==
  ASSUME NEW a, NEW b, NEW c, Grows(a, b), Grows(b, c)
  PROVE  Grows(a, c)
BY DEF Grows

-----------------------------------------------------------------------------
\* Times.
LEMMA Rounds ==
  ASSUME NEW passed \in Nat
  PROVE  /\ passed \div Every \in Nat
         /\ passed < (passed \div Every + 1) * Every
BY RemindersAssumption

LEMMA NextTimeLater ==
  ASSUME NEW anchor \in Nat, NEW after \in Nat
  PROVE  NextTime(anchor, after) \in Nat /\ NextTime(anchor, after) > after
<1>1. Every \in Nat /\ Every > 0
  BY RemindersAssumption
<1>2. CASE anchor > after
  BY <1>2 DEF NextTime
<1>3. CASE ~(anchor > after)
  <2> DEFINE passed == after - anchor
             q == passed \div Every
             rounds == IF q = 0 THEN 1 ELSE q
  <2>1. passed \in Nat /\ after = anchor + passed
    BY <1>3
  <2>2. q \in Nat /\ passed < (q + 1) * Every
    BY <2>1, Rounds
  <2>3. rounds \in Nat /\ rounds >= q
    BY <2>2
  <2>4. NextTime(anchor, after) =
          IF anchor + rounds * Every > after THEN anchor + rounds * Every
          ELSE anchor + (rounds + 1) * Every
    BY <1>3 DEF NextTime
  <2> HIDE DEF passed, rounds, q
  <2>5. rounds * Every \in Nat /\ (rounds + 1) * Every \in Nat
    BY <1>1, <2>3
  <2>6. (q + 1) * Every <= (rounds + 1) * Every
    BY <1>1, <2>2, <2>3
  <2>7. (q + 1) * Every \in Nat
    BY <1>1, <2>2
  <2> DEFINE a == rounds * Every
             b == (rounds + 1) * Every
             c == (q + 1) * Every
  <2>8. /\ a \in Nat /\ b \in Nat /\ c \in Nat /\ passed < c /\ c <= b
        /\ NextTime(anchor, after) = IF anchor + a > after THEN anchor + a ELSE anchor + b
    BY <2>2, <2>4, <2>5, <2>6, <2>7
  <2> HIDE DEF a, b, c
  <2>9. anchor + a \in Nat /\ anchor + b \in Nat /\ anchor + b > after
    BY <2>1, <2>8
  <2> QED
    BY <2>8, <2>9
<1> QED
  BY <1>2, <1>3

LEMMA AddNextTidy ==
  ASSUME NEW list, NEW day \in Nat, Tidy(list, day),
         NEW r, r.anchor \in Nat, NEW after \in Nat, after >= day
  PROVE  /\ Tidy(AddNext(list, r, after), day) /\ Grows(list, AddNext(list, r, after))
         /\ \A i \in DOMAIN list :
              i \in DOMAIN AddNext(list, r, after) /\ AddNext(list, r, after)[i] = list[i]
         /\ Pending(list) = {} =>
              \A i \in Pending(AddNext(list, r, after)) : AddNext(list, r, after)[i].at > after
<1> DEFINE at == NextTime(r.anchor, after)
<1>0. at \in Nat /\ at > after
  BY NextTimeLater
<1> HIDE DEF at
<1>1. at \in Nat /\ at > after /\ at > day
  BY <1>0
<1>2. CASE Pending(list) # {}
  <2>1. AddNext(list, r, after) = list
    BY <1>2 DEF AddNext
  <2> QED
    BY <1>2, <2>1 DEF Grows
<1>3. CASE Pending(list) = {}
  <2>1. AddNext(list, r, after) = Append(list, Waiting(at))
    BY <1>3 DEF AddNext, at
  <2>2. /\ Tidy(Append(list, Waiting(at)), day)
        /\ Grows(list, Append(list, Waiting(at)))
        /\ \A i \in DOMAIN list : Append(list, Waiting(at))[i] = list[i]
        /\ \A i \in Pending(Append(list, Waiting(at))) : Append(list, Waiting(at))[i].at = at
    BY <1>1, <1>3, AddTidy
  <2>3. list \in Seq(Row) /\ Waiting(at) \in Row
    BY <1>1, Waits DEF Tidy
  <2>4. DOMAIN list \subseteq DOMAIN Append(list, Waiting(at))
    BY <2>3
  <2> QED
    BY <1>1, <2>1, <2>2, <2>4
<1> QED
  BY <1>2, <1>3

\* The newest live reminder is one.
LEMMA CurrentIsATime ==
  ASSUME NEW list \in Seq(Row)
  PROVE  Current(list) \in Nat
<1>1. CASE Live(list) = {}
  BY <1>1 DEF Current, None
<1>2. CASE Live(list) # {}
  <2> DEFINE n == Len(list)
             back == {k \in Nat : n - k \in Live(list)}
  <2>1. n \in Nat /\ Live(list) \subseteq 1..n
    BY ListFacts
  <2>2. PICK i \in Live(list) : TRUE
    BY <1>2
  <2>3. n - i \in back
    BY <2>1, <2>2
  <2>4. \E k \in back : \A m \in back : ~(<<m, k>> \in OpToRel(<, Nat))
    BY <2>3, NatLessThanWellFounded, WFMin
  <2>5. PICK k \in back : \A m \in back : ~(m < k)
    BY <2>4 DEF OpToRel
  <2>6. n - k \in Live(list)
    BY <2>5
  <2>7. \A j \in Live(list) : j <= n - k
    <3> SUFFICES ASSUME NEW j \in Live(list), j > n - k PROVE FALSE
      BY <2>1, <2>5
    <3>1. n - j \in Nat /\ n - (n - j) = j /\ n - j < k
      BY <2>1, <2>5
    <3> QED
      BY <2>5, <3>1
  <2>8. \E j \in Live(list) : \A m \in Live(list) : m <= j
    BY <2>6, <2>7
  <2> DEFINE c == CHOOSE j \in Live(list) : \A m \in Live(list) : m <= j
  <2>9. c \in Live(list)
    BY <2>8
  <2>10. Current(list) = list[c].at
    BY <1>2 DEF Current
  <2> QED
    BY <2>9, <2>10, ListFacts DEF Row
<1> QED
  BY <1>1, <1>2

-----------------------------------------------------------------------------
\* What an update leaves.
LEMMA RequestFacts ==
  ASSUME NEW r \in Request
  PROVE  /\ r.status \in {"same", "open", "done", "cancelled"}
         /\ r.at \in Nat
         /\ r.repeat \in {"same", "stop", "schedule", "done"}
BY RemindersAssumption DEF RequestShape, None

LEMMA RuleAfterIsARule ==
  ASSUME Inv, NEW t \in Task, NEW r \in Request, Accepted(t, r)
  PROVE  RuleAfter(t, r) \in Rules
<1>1. rule[t] \in Rules /\ Once \in Rules
  BY DEF Inv, TypeOK, Rules
<1>2. rows[t] \in Seq(Row)
  BY DEF Inv, TypeOK
<1>3. Current(rows[t]) \in Nat
  BY <1>2, CurrentIsATime
<1>4. CASE r.repeat \in {"same", "stop"}
  BY <1>1, <1>4 DEF RuleAfter
<1>5. CASE r.repeat \in {"schedule", "done"}
  <2> DEFINE anchor == IF r.at # None THEN r.at ELSE Current(rows[t])
  <2>1. anchor \in Nat
    BY <1>3, RequestFacts
  <2>2. RuleAfter(t, r) = [from |-> r.repeat, anchor |-> anchor]
    BY <1>5 DEF RuleAfter
  <2>3. RuleAfter(t, r) # Once
    BY <1>5, <2>2 DEF Once
  <2>4. anchor # None
    BY <2>2, <2>3 DEF Accepted
  <2> QED
    BY <1>5, <2>1, <2>2, <2>4 DEF Rules
<1> QED
  BY <1>4, <1>5, RequestFacts

LEMMA RulesHaveAnchors ==
  ASSUME NEW r \in Rules
  PROVE  r.anchor \in Nat
BY DEF Rules, Once, None

LEMMA RowsAfterTidy ==
  ASSUME Inv, NEW t \in Task, NEW r \in Request, status[t] # "absent", Accepted(t, r)
  PROVE  /\ Tidy(RowsAfter(t, r), now) /\ Grows(rows[t], RowsAfter(t, r))
         /\ StatusAfter(t, r) \in {"open", "done", "cancelled"}
         /\ StatusAfter(t, r) # "open" => Live(RowsAfter(t, r)) = {}
<1> DEFINE open == StatusAfter(t, r) = "open"
           old == rows[t]
           kept == IF Replaces(t, r) \/ ~open THEN CancelReminders(old) ELSE old
           time == NewTime(t, r)
           set == IF Replaces(t, r) /\ open /\ time # None
                  THEN Append(kept, Waiting(time)) ELSE kept
           after == RuleAfter(t, r)
           round == RoundDone(t, r) /\ after.from = "schedule"
<1>1. /\ Tidy(old, now) /\ now \in Nat
      /\ status[t] \in {"open", "done", "cancelled"}
  BY RemindersAssumption DEF Inv, TypeOK, ListsOK
<1>2. StatusAfter(t, r) \in {"open", "done", "cancelled"}
  BY <1>1, RequestFacts DEF StatusAfter
<1>3. RowsAfter(t, r) = IF round THEN AddNext(set, after, now) ELSE set
  BY DEF RowsAfter
<1>4. after.anchor \in Nat
  BY RuleAfterIsARule, RulesHaveAnchors
<1>5. time # None => time \in Nat /\ time > now
  BY <1>1, RequestFacts, RemindersAssumption DEF NewTime, AfterDone, Accepted
<1>6. round => open
  BY DEF StatusAfter
<1> HIDE DEF after, round, time, open
<1>7. Tidy(kept, now) /\ Grows(old, kept)
  <2>1. Grows(old, old)
    BY DEF Grows
  <2> QED
    BY <1>1, <2>1, CancelTidy
<1>8. Replaces(t, r) \/ ~open => Pending(kept) = {} /\ Live(kept) = {}
  BY <1>1, CancelTidy
<1> HIDE DEF kept
<1>9. Tidy(set, now) /\ Grows(kept, set)
  <2>1. CASE Replaces(t, r) /\ open /\ time # None
    <3>1. set = Append(kept, Waiting(time))
      BY <2>1
    <3> QED
      BY <1>1, <1>5, <1>7, <1>8, <2>1, <3>1, AddTidy
  <2>2. CASE ~(Replaces(t, r) /\ open /\ time # None)
    BY <1>7, <2>2 DEF Grows
  <2> QED
    BY <2>1, <2>2
<1>10. ~open => Live(set) = {}
  BY <1>8
<1> HIDE DEF set
<1>11. Grows(old, set)
  BY <1>7, <1>9, GrowsOn
<1>12. CASE round
  <2>1. RowsAfter(t, r) = AddNext(set, after, now)
    BY <1>3, <1>12
  <2>2. Tidy(AddNext(set, after, now), now) /\ Grows(set, AddNext(set, after, now))
    <3>1. now >= now
      BY <1>1
    <3> QED
      BY <1>1, <1>4, <1>9, <3>1, AddNextTidy
  <2>3. Grows(old, AddNext(set, after, now))
    BY <1>11, <2>2, GrowsOn
  <2> QED
    BY <1>2, <1>6, <1>12, <2>1, <2>2, <2>3 DEF open, old
<1>13. CASE ~round
  <2>1. RowsAfter(t, r) = set
    BY <1>3, <1>13
  <2> QED
    BY <1>2, <1>9, <1>10, <1>11, <2>1 DEF open, old
<1> QED
  BY <1>12, <1>13

\* What the job leaves of a task that was due.
LEMMA QueuedTidy ==
  ASSUME Inv, NEW t \in Task, Due(t) # {}
  PROVE  /\ Tidy(Queued(t), now) /\ Grows(rows[t], Queued(t))
         /\ \A i \in DOMAIN rows[t] :
              i \in DOMAIN Queued(t) /\ Queued(t)[i].live = rows[t][i].live
         /\ \A i \in Pending(Queued(t)) : Queued(t)[i].at > now
<1> DEFINE i == CHOOSE i \in Due(t) : TRUE
           old == rows[t]
           attached == [old EXCEPT ![i].message = "queued"]
           after == Later(now, old[i].at)
<1>1. i \in Due(t)
  OBVIOUS
<1>2. Tidy(old, now) /\ now \in Nat
  BY RemindersAssumption DEF Inv, TypeOK, ListsOK
<1>3. i \in Pending(old) /\ old[i].at <= now
  BY <1>1 DEF Due
<1>4. Queued(t) = IF rule[t].from = "schedule" THEN AddNext(attached, rule[t], after)
                  ELSE attached
  BY DEF Queued
<1>5. rule[t].anchor \in Nat
  BY RulesHaveAnchors DEF Inv, TypeOK
<1>6. old[i].at \in Nat
  <2>1. old \in Seq(Row) /\ i \in DOMAIN old
    BY <1>2, <1>3, ListFacts DEF Tidy
  <2> QED
    BY <2>1, ListFacts DEF Row
<1>7. after \in Nat /\ after >= now
  BY <1>2, <1>6 DEF Later
<1> HIDE DEF i, after
<1>8. /\ Tidy(attached, now) /\ Grows(old, attached)
      /\ DOMAIN attached = DOMAIN old
      /\ \A j \in DOMAIN old : attached[j].live = old[j].live
      /\ Pending(attached) = {}
  BY <1>2, <1>3, QueueTidy
<1> HIDE DEF attached
<1>9. CASE rule[t].from = "schedule"
  <2> DEFINE new == AddNext(attached, rule[t], after)
  <2>1. /\ Tidy(new, now) /\ Grows(attached, new)
        /\ \A j \in DOMAIN attached : j \in DOMAIN new /\ new[j] = attached[j]
        /\ \A j \in Pending(new) : new[j].at > after
    BY <1>2, <1>5, <1>7, <1>8, AddNextTidy
  <2>2. Queued(t) = new
    BY <1>4, <1>9
  <2> HIDE DEF new
  <2>3. Grows(old, new)
    BY <1>8, <2>1, GrowsOn
  <2>4. \A j \in Pending(new) : new[j].at > now
    <3> SUFFICES ASSUME NEW j \in Pending(new) PROVE new[j].at > now
      OBVIOUS
    <3>1. new[j].at > after /\ new[j].at \in Nat
      <4>1. new \in Seq(Row) /\ j \in DOMAIN new
        BY <2>1, ListFacts DEF Tidy
      <4> QED
        BY <2>1, <4>1, ListFacts DEF Row
    <3> QED
      BY <1>2, <1>7, <3>1
  <2> QED
    BY <1>8, <2>1, <2>2, <2>3, <2>4
<1>10. CASE rule[t].from # "schedule"
  BY <1>4, <1>8, <1>10
<1> QED
  BY <1>9, <1>10

-----------------------------------------------------------------------------
\* The invariant.

\* What every step has to show of the lists.
LEMMA ListsKept ==
  ASSUME Inv,
         \A t \in Task : Tidy(rows'[t], now') /\ Grows(rows[t], rows'[t]),
         \A t \in Task : status'[t] = "absent" => status[t] = "absent" /\ rows'[t] = rows[t],
         \A t \in Task : status'[t] # "open" => Live(rows'[t]) = {},
         sending' \subseteq sending
  PROVE  ListsOK'
<1>1. \A t \in Task : status'[t] = "absent" => rows'[t] = <<>>
  BY DEF Inv, ListsOK
<1>2. SentWasQueued'
  BY DEF Inv, ListsOK, SentWasQueued, Grows
<1>3. ClosedHasNone'
  BY DEF ClosedHasNone
<1> QED
  BY <1>1, <1>2, <1>3 DEF ListsOK

LEMMA StaysTidy ==
  ASSUME Inv, NEW t \in Task
  PROVE  /\ Tidy(rows[t], now) /\ Grows(rows[t], rows[t])
         /\ status[t] # "open" => Live(rows[t]) = {}
BY DEF Inv, ListsOK, ClosedHasNone, Grows

LEMMA NowIsADay == ASSUME Inv PROVE now \in Nat
BY RemindersAssumption DEF Inv, TypeOK

LEMMA EmptyTidy ==
  ASSUME NEW day \in Nat
  PROVE  /\ Tidy(<<>>, day) /\ Pending(<<>>) = {} /\ Live(<<>>) = {}
         /\ \A new : Grows(<<>>, new)
BY DEF Tidy, Pending, Live, Grows

\* The first reminder of a task.
LEMMA OneTidy ==
  ASSUME NEW day \in Nat, NEW at \in Nat, at > day
  PROVE  Tidy(<<Waiting(at)>>, day)
<1> DEFINE none == <<>>
           row == Waiting(at)
<1>1. Append(none, row) = <<row>>
  OBVIOUS
<1>2. Tidy(none, day) /\ Pending(none) = {}
  BY EmptyTidy
<1> HIDE DEF none
<1>3. Tidy(Append(none, row), day)
  BY <1>2, AddTidy
<1> HIDE DEF row
<1>4. Tidy(<<row>>, day)
  BY <1>1, <1>3
<1> QED
  BY <1>4 DEF row

LEMMA InitInv == Init => Inv
<1> SUFFICES ASSUME Init PROVE Inv
  OBVIOUS
<1>1. TypeOK
  BY RemindersAssumption DEF Init, TypeOK, Rules, Once, Blank, None
<1>2. FormsOK
  BY DEF Init, FormsOK
<1>3. ListsOK
  BY EmptyTidy DEF Init, ListsOK, SentWasQueued, ClosedHasNone
<1> QED
  BY <1>1, <1>2, <1>3 DEF Inv

LEMMA CreateInv ==
  ASSUME Inv, NEW t \in Task, NEW at \in {None} \cup 1..Horizon,
         NEW from \in {"once", "schedule", "done"}, Create(t, at, from)
  PROVE  Inv'
<1> DEFINE list == IF at = None THEN <<>> ELSE <<Waiting(at)>>
<1>1. at \in Nat /\ now \in Nat /\ (at # None => at > now)
  BY RemindersAssumption, NowIsADay DEF Create, None
<1>2. Tidy(list, now) /\ rows[t] = <<>> /\ Grows(rows[t], list)
  BY <1>1, EmptyTidy, OneTidy DEF Create, Inv, ListsOK
<1>3. list \in Seq(Row)
  BY <1>2 DEF Tidy
<1> HIDE DEF list
<1>4. rows' = [rows EXCEPT ![t] = list]
  BY DEF Create, list
<1>5. (IF from = "once" THEN Once ELSE [from |-> from, anchor |-> at]) \in Rules
  BY <1>1 DEF Create, Rules, Once
<1>6. TypeOK'
  BY <1>3, <1>4, <1>5 DEF Create, Inv, TypeOK
<1>7. FormsOK'
  BY DEF Create, Inv, FormsOK
<1>8. \A u \in Task : Tidy(rows'[u], now') /\ Grows(rows[u], rows'[u])
  BY <1>2, <1>4, StaysTidy DEF Create, Inv, TypeOK
<1>9. \A u \in Task : /\ status'[u] = "absent" => status[u] = "absent" /\ rows'[u] = rows[u]
                      /\ status'[u] # "open" => Live(rows'[u]) = {}
  BY <1>4, StaysTidy DEF Create, Inv, TypeOK
<1>10. ListsOK'
  BY <1>8, <1>9, ListsKept DEF Create
<1> QED
  BY <1>6, <1>7, <1>10 DEF Inv

LEMMA RemindBeforeInv ==
  ASSUME Inv, NEW t \in Task, RemindBefore(t)
  PROVE  Inv'
<1> DEFINE at == start - Ahead
           list == <<Waiting(at)>>
<1>1. at \in Nat /\ now \in Nat /\ at > now
  BY RemindersAssumption, NowIsADay DEF RemindBefore, Inv, TypeOK
<1>2. Tidy(list, now) /\ rows[t] = <<>> /\ Grows(rows[t], list)
  BY <1>1, EmptyTidy, OneTidy DEF RemindBefore, Inv, ListsOK
<1>3. list \in Seq(Row)
  BY <1>2 DEF Tidy
<1>4. rows' = [rows EXCEPT ![t] = list]
  BY DEF RemindBefore
<1> HIDE DEF list
<1>5. TypeOK'
  BY <1>3, <1>4 DEF RemindBefore, Inv, TypeOK
<1>6. FormsOK'
  BY DEF RemindBefore, Inv, FormsOK
<1>7. \A u \in Task : Tidy(rows'[u], now') /\ Grows(rows[u], rows'[u])
  BY <1>2, <1>4, StaysTidy DEF RemindBefore, Inv, TypeOK
<1>8. \A u \in Task : /\ status'[u] = "absent" => status[u] = "absent" /\ rows'[u] = rows[u]
                      /\ status'[u] # "open" => Live(rows'[u]) = {}
  BY <1>4, StaysTidy DEF RemindBefore, Inv, TypeOK
<1>9. ListsOK'
  BY <1>7, <1>8, ListsKept DEF RemindBefore
<1> QED
  BY <1>5, <1>6, <1>9 DEF Inv

LEMMA UpdateInv ==
  ASSUME Inv, NEW t \in Task, NEW r \in Request, Update(t, r)
  PROVE  /\ now' = now
         /\ status' \in [Task -> {"absent", "open", "done", "cancelled"}]
         /\ revision' \in [Task -> Nat \ {0}]
         /\ rule' \in [Task -> Rules]
         /\ rows' \in [Task -> Seq(Row)]
         /\ ListsOK'
<1> DEFINE list == RowsAfter(t, r)
           after == RuleAfter(t, r)
           closed == StatusAfter(t, r)
<1>1. status[t] # "absent" /\ Accepted(t, r)
  BY DEF Update
<1>2. /\ Tidy(list, now) /\ Grows(rows[t], list)
      /\ closed \in {"open", "done", "cancelled"}
      /\ closed # "open" => Live(list) = {}
  BY <1>1, RowsAfterTidy
<1>3. after \in Rules
  BY <1>1, RuleAfterIsARule
<1>4. list \in Seq(Row)
  BY <1>2 DEF Tidy
<1> HIDE DEF list, after, closed
<1>5. /\ status' = [status EXCEPT ![t] = closed]
      /\ rule' = [rule EXCEPT ![t] = after]
      /\ rows' = [rows EXCEPT ![t] = list]
      /\ revision' = [revision EXCEPT ![t] = @ + 1]
      /\ now' = now /\ sending' = sending
  BY DEF Update, list, after, closed
<1>6. /\ status' \in [Task -> {"absent", "open", "done", "cancelled"}]
      /\ revision' \in [Task -> Nat \ {0}]
      /\ rule' \in [Task -> Rules]
      /\ rows' \in [Task -> Seq(Row)]
  BY <1>2, <1>3, <1>4, <1>5 DEF Inv, TypeOK
<1>7. \A u \in Task : Tidy(rows'[u], now') /\ Grows(rows[u], rows'[u])
  BY <1>2, <1>5, StaysTidy DEF Inv, TypeOK
<1>8. \A u \in Task : /\ status'[u] = "absent" => status[u] = "absent" /\ rows'[u] = rows[u]
                      /\ status'[u] # "open" => Live(rows'[u]) = {}
  BY <1>2, <1>5, StaysTidy DEF Inv, TypeOK
<1>9. ListsOK'
  BY <1>5, <1>7, <1>8, ListsKept
<1> QED
  BY <1>5, <1>6, <1>9

LEMMA AskInv ==
  ASSUME Inv, NEW t \in Task, NEW r \in Request, Ask(t, r)
  PROVE  Inv'
<1>1. Update(t, r) /\ drawn' = drawn
  BY DEF Ask
<1>2. TypeOK'
  BY <1>1, UpdateInv DEF Inv, TypeOK, Update
<1>3. FormsOK'
  BY <1>1 DEF Inv, FormsOK
<1> QED
  BY <1>1, <1>2, <1>3, UpdateInv DEF Inv

LEMMA SaveInv ==
  ASSUME Inv, NEW f \in Form, NEW r \in Request, Save(f, r)
  PROVE  Inv'
<1> DEFINE t == drawn[f].task
<1>1. Update(t, r) /\ drawn' = [drawn EXCEPT ![f] = Blank]
  BY DEF Save
<1>2. t \in Task
  BY DEF Save, Inv, FormsOK
<1> HIDE DEF t
<1>3. TypeOK'
  BY <1>1, <1>2, UpdateInv DEF Inv, TypeOK, Update, Blank
<1>4. FormsOK'
  BY <1>1 DEF Inv, FormsOK, TypeOK
<1> QED
  BY <1>1, <1>2, <1>3, <1>4, UpdateInv DEF Inv

\* The steps that touch no task.
LEMMA AsideInv ==
  ASSUME Inv, UNCHANGED tasks, now' \in 1..Horizon, now' >= now,
         sending' \subseteq sending, FormsOK',
         drawn' \in [Form -> [task : Task \cup {None}, revision : Nat]],
         start' \in 0..Horizon, synced' \in BOOLEAN
  PROVE  Inv'
<1>1. UNCHANGED <<status, revision, rule, rows, tied>>
  BY DEF tasks
<1>2. TypeOK'
  BY <1>1 DEF Inv, TypeOK
<1>3. now \in Nat /\ now' \in Nat /\ now <= now'
  BY NowIsADay, RemindersAssumption
<1>4. \A t \in Task : Tidy(rows[t], now') /\ Grows(rows[t], rows[t])
  BY <1>3, StaysTidy, LaterTidy
<1>5. ListsOK'
  BY <1>1, <1>4, StaysTidy, ListsKept
<1> QED
  BY <1>2, <1>5 DEF Inv

LEMMA FormsInv ==
  ASSUME Inv,
         \/ \E f \in Form, t \in Task : Draw(f, t)
         \/ \E f \in Form : Refuse(f)
         \/ Sync
         \/ Tick
         \/ UNCHANGED vars
  PROVE  Inv'
<1>1. /\ now \in 1..Horizon /\ Horizon \in Nat
      /\ drawn \in [Form -> [task : Task \cup {None}, revision : Nat]]
      /\ start \in 0..Horizon /\ synced \in BOOLEAN /\ FormsOK
      /\ revision \in [Task -> Nat \ {0}]
  BY RemindersAssumption DEF Inv, TypeOK
<1>2. CASE \E f \in Form, t \in Task : Draw(f, t)
  <2>1. PICK f \in Form, t \in Task : Draw(f, t)
    BY <1>2
  <2>2. [task |-> t, revision |-> revision[t]] \in [task : Task \cup {None}, revision : Nat]
    BY <1>1
  <2>3. FormsOK' /\ drawn' \in [Form -> [task : Task \cup {None}, revision : Nat]]
    BY <1>1, <2>1, <2>2 DEF Draw, FormsOK
  <2> QED
    BY <1>1, <2>1, <2>3, AsideInv DEF Draw
<1>3. CASE \E f \in Form : Refuse(f)
  <2>1. PICK f \in Form : Refuse(f)
    BY <1>3
  <2>2. Blank \in [task : Task \cup {None}, revision : Nat]
    BY DEF Blank
  <2>3. FormsOK' /\ drawn' \in [Form -> [task : Task \cup {None}, revision : Nat]]
    BY <1>1, <2>1, <2>2 DEF Refuse, FormsOK
  <2> QED
    BY <1>1, <2>1, <2>3, AsideInv DEF Refuse
<1>4. CASE Sync
  BY <1>1, <1>4, AsideInv DEF Sync, FormsOK
<1>5. CASE Tick
  BY <1>1, <1>5, AsideInv DEF Tick, FormsOK
<1>6. CASE UNCHANGED vars
  BY <1>1, <1>6, AsideInv DEF vars, FormsOK
<1> QED
  BY <1>2, <1>3, <1>4, <1>5, <1>6

\* The steps of the plan and of the job close tasks and leave lists tidy.
LEMMA SweepInv ==
  ASSUME Inv, UNCHANGED <<now, rule, tied, drawn, sending>>,
         start' \in 0..Horizon, synced' \in BOOLEAN,
         NEW list, NEW closed, NEW changed,
         rows' = [t \in Task |-> list[t]],
         status' = [t \in Task |-> closed[t]],
         revision' = [t \in Task |-> changed[t]],
         \A t \in Task : changed[t] \in Nat \ {0},
         \A t \in Task : Tidy(list[t], now) /\ Grows(rows[t], list[t]),
         \A t \in Task : /\ closed[t] \in {"absent", "open", "done", "cancelled"}
                         /\ closed[t] = "absent" => status[t] = "absent" /\ list[t] = rows[t]
                         /\ closed[t] # "open" => Live(list[t]) = {}
  PROVE  Inv'
<1>1. \A t \in Task : list[t] \in Seq(Row)
  BY DEF Tidy
<1>2. TypeOK'
  BY <1>1 DEF Inv, TypeOK
<1>3. FormsOK'
  BY DEF Inv, FormsOK
<1>4. \A t \in Task : rows'[t] = list[t] /\ status'[t] = closed[t]
  OBVIOUS
<1>5. ListsOK'
  BY <1>4, ListsKept
<1> QED
  BY <1>2, <1>3, <1>5 DEF Inv

LEMMA RunRemindersInv ==
  ASSUME Inv, RunReminders
  PROVE  Inv'
<1> DEFINE list == [t \in Task |->
                      IF Over(t) THEN CancelReminders(rows[t])
                      ELSE IF status[t] = "open" /\ Due(t) # {} THEN Queued(t)
                      ELSE rows[t]]
           closed == [t \in Task |-> IF Over(t) THEN "done" ELSE status[t]]
           changed == [t \in Task |-> IF Over(t) THEN revision[t] + 1 ELSE revision[t]]
<1>1. /\ rows' = [t \in Task |-> list[t]]
      /\ status' = [t \in Task |-> closed[t]]
      /\ revision' = [t \in Task |-> changed[t]]
  BY DEF RunReminders
<1>2. \A t \in Task : changed[t] \in Nat \ {0}
  BY DEF Inv, TypeOK
<1>3. ASSUME NEW t \in Task
      PROVE  /\ Tidy(list[t], now) /\ Grows(rows[t], list[t])
             /\ closed[t] \in {"absent", "open", "done", "cancelled"}
             /\ closed[t] = "absent" => status[t] = "absent" /\ list[t] = rows[t]
             /\ closed[t] # "open" => Live(list[t]) = {}
  <2>1. status[t] \in {"absent", "open", "done", "cancelled"} /\ now \in Nat
    BY NowIsADay DEF Inv, TypeOK
  <2>2. CASE Over(t)
    <3>1. list[t] = CancelReminders(rows[t]) /\ closed[t] = "done"
      BY <2>2
    <3> QED
      BY <2>1, <3>1, CancelTidy, StaysTidy
  <2>3. CASE ~Over(t) /\ status[t] = "open" /\ Due(t) # {}
    <3>1. list[t] = Queued(t) /\ closed[t] = "open"
      BY <2>3
    <3> QED
      BY <2>3, <3>1, QueuedTidy
  <2>4. CASE ~Over(t) /\ ~(status[t] = "open" /\ Due(t) # {})
    <3>1. list[t] = rows[t] /\ closed[t] = status[t]
      BY <2>4
    <3> QED
      BY <2>1, <3>1, StaysTidy
  <2> QED
    BY <2>2, <2>3, <2>4
<1> HIDE DEF list, closed, changed
<1>4. start' \in 0..Horizon /\ synced' \in BOOLEAN /\ UNCHANGED <<now, rule, tied, drawn, sending>>
  BY DEF RunReminders, Inv, TypeOK
<1> QED
  BY <1>1, <1>2, <1>3, <1>4, SweepInv

LEMMA MovePlanInv ==
  ASSUME Inv, NEW s \in 1..Horizon, MovePlan(s)
  PROVE  Inv'
<1> DEFINE kept == s > Ahead + now
           list == [t \in Task |->
                      IF ~Moved(t) THEN rows[t]
                      ELSE IF kept THEN Append(CancelReminders(rows[t]), Waiting(s - Ahead))
                      ELSE CancelReminders(rows[t])]
           closed == [t \in Task |-> IF Moved(t) /\ ~kept THEN "cancelled" ELSE status[t]]
           changed == [t \in Task |-> IF Moved(t) THEN revision[t] + 1 ELSE revision[t]]
<1>1. /\ rows' = [t \in Task |-> list[t]]
      /\ status' = [t \in Task |-> closed[t]]
      /\ revision' = [t \in Task |-> changed[t]]
  BY DEF MovePlan
<1>2. \A t \in Task : changed[t] \in Nat \ {0}
  BY DEF Inv, TypeOK
<1>3. ASSUME NEW t \in Task
      PROVE  /\ Tidy(list[t], now) /\ Grows(rows[t], list[t])
             /\ closed[t] \in {"absent", "open", "done", "cancelled"}
             /\ closed[t] = "absent" => status[t] = "absent" /\ list[t] = rows[t]
             /\ closed[t] # "open" => Live(list[t]) = {}
  <2> DEFINE cut == CancelReminders(rows[t])
  <2>1. status[t] \in {"absent", "open", "done", "cancelled"} /\ now \in Nat
    BY NowIsADay DEF Inv, TypeOK
  <2>2. /\ Tidy(cut, now) /\ Grows(rows[t], cut)
        /\ Pending(cut) = {} /\ Live(cut) = {}
    BY <2>1, CancelTidy, StaysTidy
  <2> HIDE DEF cut
  <2>3. CASE ~Moved(t)
    <3>1. list[t] = rows[t] /\ closed[t] = status[t]
      BY <2>3
    <3> QED
      BY <2>1, <3>1, StaysTidy
  <2>4. CASE Moved(t) /\ kept
    <3> DEFINE at == s - Ahead
    <3>1. list[t] = Append(cut, Waiting(at)) /\ closed[t] = status[t] /\ status[t] = "open"
      BY <2>4 DEF Moved, Linked, cut
    <3>2. at \in Nat /\ at > now
      BY <2>1, <2>4, RemindersAssumption
    <3> HIDE DEF at, list
    <3>3. Tidy(Append(cut, Waiting(at)), now) /\ Grows(cut, Append(cut, Waiting(at)))
      BY <2>1, <2>2, <3>2, AddTidy
    <3>4. Tidy(list[t], now) /\ Grows(cut, list[t])
      BY <3>1, <3>3
    <3>5. Grows(rows[t], list[t])
      BY <2>2, <3>4, GrowsOn
    <3> QED
      BY <3>1, <3>4, <3>5
  <2>5. CASE Moved(t) /\ ~kept
    <3>1. list[t] = cut /\ closed[t] = "cancelled"
      BY <2>5 DEF cut
    <3> QED
      BY <2>2, <3>1
  <2> QED
    BY <2>3, <2>4, <2>5
<1> HIDE DEF list, closed, changed
<1>4. start' = s /\ synced' = FALSE /\ UNCHANGED <<now, rule, tied, drawn, sending>>
  BY DEF MovePlan
<1>5. start' \in 0..Horizon
  BY <1>4, RemindersAssumption
<1>6. synced' \in BOOLEAN
  BY <1>4
<1> QED
  BY <1>1, <1>2, <1>3, <1>4, <1>5, <1>6, SweepInv

LEMMA CancelPlanInv ==
  ASSUME Inv, CancelPlan
  PROVE  Inv'
<1> DEFINE list == [t \in Task |-> IF t \in Linked THEN CancelReminders(rows[t]) ELSE rows[t]]
           closed == [t \in Task |-> IF t \in Linked THEN "cancelled" ELSE status[t]]
           changed == [t \in Task |-> IF t \in Linked THEN revision[t] + 1 ELSE revision[t]]
<1>1. /\ rows' = [t \in Task |-> list[t]]
      /\ status' = [t \in Task |-> closed[t]]
      /\ revision' = [t \in Task |-> changed[t]]
  BY DEF CancelPlan
<1>2. \A t \in Task : changed[t] \in Nat \ {0}
  BY DEF Inv, TypeOK
<1>3. ASSUME NEW t \in Task
      PROVE  /\ Tidy(list[t], now) /\ Grows(rows[t], list[t])
             /\ closed[t] \in {"absent", "open", "done", "cancelled"}
             /\ closed[t] = "absent" => status[t] = "absent" /\ list[t] = rows[t]
             /\ closed[t] # "open" => Live(list[t]) = {}
  <2>1. status[t] \in {"absent", "open", "done", "cancelled"} /\ now \in Nat
    BY NowIsADay DEF Inv, TypeOK
  <2>2. CASE t \in Linked
    <3>1. list[t] = CancelReminders(rows[t]) /\ closed[t] = "cancelled"
      BY <2>2
    <3> QED
      BY <2>1, <3>1, CancelTidy, StaysTidy
  <2>3. CASE t \notin Linked
    <3>1. list[t] = rows[t] /\ closed[t] = status[t]
      BY <2>3
    <3> QED
      BY <2>1, <3>1, StaysTidy
  <2> QED
    BY <2>2, <2>3
<1>4. start' \in 0..Horizon /\ synced' \in BOOLEAN /\ UNCHANGED <<now, rule, tied, drawn, sending>>
  BY RemindersAssumption DEF CancelPlan, None, Inv, TypeOK
<1> HIDE DEF list, closed, changed
<1> QED
  BY <1>1, <1>2, <1>3, <1>4, SweepInv

LEMMA BeginSendInv ==
  ASSUME Inv, NEW t \in Task, NEW i \in 1..MaxRows, BeginSend(t, i)
  PROVE  Inv'
<1>1. i \in Nat /\ i \in DOMAIN rows[t] /\ rows[t][i].message # "none"
  BY RemindersAssumption DEF BeginSend, Live
<1>2. UNCHANGED <<now, status, revision, rule, rows, tied, drawn, start, synced>>
      /\ sending' = sending \cup {<<t, i>>}
  BY DEF BeginSend, tasks
<1>3. TypeOK'
  BY <1>1, <1>2 DEF Inv, TypeOK
<1>4. FormsOK'
  BY <1>2 DEF Inv, FormsOK
<1>5. ListsOK'
  BY <1>1, <1>2 DEF Inv, ListsOK, SentWasQueued, ClosedHasNone
<1> QED
  BY <1>3, <1>4, <1>5 DEF Inv

LEMMA EndSendInv ==
  ASSUME Inv, NEW t \in Task, NEW i \in 1..MaxRows, NEW went \in BOOLEAN, EndSend(t, i, went)
  PROVE  Inv'
<1> DEFINE list == [rows[t] EXCEPT ![i].message = "delivered"]
<1>1. i \in Nat /\ i \in DOMAIN rows[t] /\ rows[t][i].message # "none"
  BY RemindersAssumption DEF EndSend, Inv, ListsOK, SentWasQueued
<1>2. /\ UNCHANGED <<now, status, revision, rule, tied, drawn, start, synced>>
      /\ sending' = sending \ {<<t, i>>}
      /\ rows \in [Task -> Seq(Row)]
  BY DEF EndSend, Inv, TypeOK
<1>3. /\ Tidy(list, now) /\ Grows(rows[t], list)
      /\ DOMAIN list = DOMAIN rows[t]
      /\ \A j \in DOMAIN rows[t] : list[j].live = rows[t][j].live
  BY <1>1, NowIsADay, StaysTidy, DeliveredTidy
<1>4. Live(list) = Live(rows[t]) /\ list \in Seq(Row)
  BY <1>3 DEF Live, Tidy
<1>5. rows' = rows \/ rows' = [rows EXCEPT ![t] = list]
  BY DEF EndSend
<1> HIDE DEF list
<1>6. TypeOK'
  BY <1>2, <1>4, <1>5 DEF Inv, TypeOK
<1>7. FormsOK'
  BY <1>2 DEF Inv, FormsOK
<1>8. \A u \in Task : rows'[u] = rows[u] \/ (u = t /\ rows'[u] = list)
  BY <1>2, <1>5
<1>9. \A u \in Task : /\ Tidy(rows'[u], now') /\ Grows(rows[u], rows'[u])
                      /\ status'[u] = "absent" => status[u] = "absent" /\ rows'[u] = rows[u]
                      /\ status'[u] # "open" => Live(rows'[u]) = {}
  <2>1. status[t] # "absent"
    BY <1>1 DEF Inv, ListsOK
  <2> QED
    BY <1>2, <1>3, <1>4, <1>8, <2>1, StaysTidy
<1>10. ListsOK'
  BY <1>2, <1>9, ListsKept
<1> QED
  BY <1>6, <1>7, <1>10 DEF Inv

LEMMA NextInv ==
  ASSUME Inv, [Next]_vars
  PROVE  Inv'
<1>1. CASE \E t \in Task, at \in {None} \cup 1..Horizon, from \in {"once", "schedule", "done"} :
             Create(t, at, from)
  BY <1>1, CreateInv
<1>2. CASE \E t \in Task : RemindBefore(t)
  BY <1>2, RemindBeforeInv
<1>3. CASE \E t \in Task, r \in Request : Ask(t, r)
  BY <1>3, AskInv
<1>4. CASE \E f \in Form, r \in Request : Save(f, r)
  BY <1>4, SaveInv
<1>5. CASE RunReminders
  BY <1>5, RunRemindersInv
<1>6. CASE \E t \in Task, i \in 1..MaxRows : BeginSend(t, i)
  BY <1>6, BeginSendInv
<1>7. CASE \E t \in Task, i \in 1..MaxRows, went \in BOOLEAN : EndSend(t, i, went)
  BY <1>7, EndSendInv
<1>8. CASE \E s \in 1..Horizon : MovePlan(s)
  BY <1>8, MovePlanInv
<1>9. CASE CancelPlan
  BY <1>9, CancelPlanInv
<1>10. CASE (\E f \in Form, t \in Task : Draw(f, t)) \/ (\E f \in Form : Refuse(f))
            \/ Sync \/ Tick \/ UNCHANGED vars
  BY <1>10, FormsInv
<1> QED
  BY <1>1, <1>2, <1>3, <1>4, <1>5, <1>6, <1>7, <1>8, <1>9, <1>10, StepCases DEF Steps

-----------------------------------------------------------------------------
\* The promises.

LEMMA InvAlways == Spec => []Inv
<1>1. Init => Inv
  BY InitInv
<1>2. Inv /\ [Next]_vars => Inv'
  BY NextInv
<1> QED
  BY <1>1, <1>2, PTL DEF Spec

\* Whatever people, the job and the plan do, the columns keep their types, and
\* a task that repeats always has the time its rounds are counted from
\* (task_service.update refuses a repeat without one).
THEOREM TypeCorrect == Spec => []TypeOK
<1>1. Inv => TypeOK
  BY DEF Inv
<1> QED
  BY <1>1, InvAlways, PTL

\* However edits, the minute job and a plan that moves interleave, one reminder
\* at most waits for a task.
THEOREM OnePendingAlways == Spec => []OnePending
<1>1. Inv => OnePending
  <2> SUFFICES ASSUME Inv, NEW t \in Task
               PROVE  Cardinality(Pending(rows[t])) <= 1
    BY DEF OnePending
  <2>1. \A i, j \in Pending(rows[t]) : i = j
    BY DEF Inv, ListsOK, Tidy
  <2>2. CASE Pending(rows[t]) = {}
    BY <2>2, FS_EmptySet
  <2>3. CASE Pending(rows[t]) # {}
    <3>1. PICK i \in Pending(rows[t]) : TRUE
      BY <2>3
    <3>2. Pending(rows[t]) = {i}
      BY <2>1, <3>1
    <3>3. Cardinality({i}) = 1
      BY FS_Singleton
    <3> QED
      BY <3>2, <3>3
  <2> QED
    BY <2>2, <2>3
<1> QED
  BY <1>1, InvAlways, PTL

\* No moment is queued twice for a task, although the round after is added by
\* the job, by done and by a snooze (task_service._add_next, attach).
THEOREM RemindedOnceAlways == Spec => []RemindedOnce
<1>1. Inv => RemindedOnce
  BY DEF Inv, ListsOK, Tidy, RemindedOnce
<1> QED
  BY <1>1, InvAlways, PTL

\* Every step leaves what is being sent live: an edit is refused while it goes,
\* and the job adds rounds but takes nothing back.
LEMMA GoingKept ==
  ASSUME Inv, GoingIsLive, [Next]_vars
  PROVE  GoingIsLive'
<1>1. /\ rows \in [Task -> Seq(Row)] /\ SentWasQueued
      /\ \A t \in Task : status[t] = "absent" => rows[t] = <<>>
  BY DEF Inv, TypeOK, ListsOK
<1>2. ASSUME NEW u \in Task, NEW r \in Request, Update(u, r)
      PROVE  GoingIsLive'
  <2>1. /\ rows' = [rows EXCEPT ![u] = RowsAfter(u, r)]
        /\ sending' = sending /\ tied' = tied /\ ~InFlight(u)
    BY <1>2 DEF Update, Accepted
  <2>2. \A t \in Task : t # u => rows'[t] = rows[t]
    BY <1>1, <2>1
  <2>3. u \notin tied => \A i \in Nat : <<u, i>> \notin sending
    BY <2>1 DEF GoingIsLive, InFlight
  <2> QED
    BY <2>1, <2>2, <2>3 DEF GoingIsLive
<1>3. CASE \E t \in Task, at \in {None} \cup 1..Horizon, from \in {"once", "schedule", "done"} :
             Create(t, at, from)
  <2>1. PICK u \in Task, at \in {None} \cup 1..Horizon, from \in {"once", "schedule", "done"} :
          Create(u, at, from)
    BY <1>3
  <2>2. /\ sending' = sending /\ tied' = tied /\ rows[u] = <<>>
        /\ \A t \in Task : t # u => rows'[t] = rows[t]
    BY <1>1, <2>1 DEF Create
  <2>3. \A i \in Nat : <<u, i>> \notin sending
    BY <1>1, <2>2 DEF SentWasQueued
  <2> QED
    BY <2>2, <2>3 DEF GoingIsLive
<1>4. CASE \E t \in Task : RemindBefore(t)
  <2>1. PICK u \in Task : RemindBefore(u)
    BY <1>4
  <2>2. /\ sending' = sending /\ tied' = tied \cup {u}
        /\ \A t \in Task : t # u => rows'[t] = rows[t]
    BY <1>1, <2>1 DEF RemindBefore
  <2> QED
    BY <2>2 DEF GoingIsLive
<1>5. CASE \E t \in Task, r \in Request : Ask(t, r)
  BY <1>2, <1>5 DEF Ask
<1>6. CASE \E f \in Form, r \in Request : Save(f, r)
  <2>1. PICK f \in Form, r \in Request : Save(f, r)
    BY <1>6
  <2>2. drawn[f].task \in Task /\ Update(drawn[f].task, r)
    BY <2>1 DEF Save, Inv, FormsOK
  <2> QED
    BY <1>2, <2>2
<1>7. CASE RunReminders
  <2>1. sending' = sending /\ tied' = tied
    BY <1>7 DEF RunReminders
  <2>2. ASSUME NEW t \in Task \ tied, NEW i \in Live(rows[t])
        PROVE  i \in Live(rows'[t])
    <3>1. rows'[t] = IF status[t] = "open" /\ Due(t) # {} THEN Queued(t) ELSE rows[t]
      BY <1>7 DEF RunReminders, Over
    <3>2. CASE status[t] = "open" /\ Due(t) # {}
      <4>1. rows'[t] = Queued(t)
        BY <3>1, <3>2
      <4> QED
        BY <2>2, <3>2, <4>1, QueuedTidy DEF Live
    <3> QED
      BY <2>2, <3>1, <3>2
  <2> QED
    BY <2>1, <2>2 DEF GoingIsLive
<1>8. CASE \E t \in Task, i \in 1..MaxRows : BeginSend(t, i)
  <2>1. PICK u \in Task, n \in 1..MaxRows : BeginSend(u, n)
    BY <1>8
  <2>2. /\ rows' = rows /\ tied' = tied /\ n \in Live(rows[u])
        /\ sending' = sending \cup {<<u, n>>}
    BY <2>1 DEF BeginSend, tasks
  <2> QED
    BY <2>2 DEF GoingIsLive
<1>9. CASE \E t \in Task, i \in 1..MaxRows, went \in BOOLEAN : EndSend(t, i, went)
  <2>1. PICK u \in Task, n \in 1..MaxRows, went \in BOOLEAN : EndSend(u, n, went)
    BY <1>9
  <2> DEFINE list == [rows[u] EXCEPT ![n].message = "delivered"]
  <2>2. n \in DOMAIN rows[u] /\ rows[u][n].message # "none"
    BY <1>1, <2>1, RemindersAssumption DEF EndSend, SentWasQueued
  <2>3. /\ DOMAIN list = DOMAIN rows[u]
        /\ \A j \in DOMAIN rows[u] : list[j].live = rows[u][j].live
    BY <2>2, NowIsADay, StaysTidy, DeliveredTidy
  <2>4. Live(list) = Live(rows[u])
    BY <2>3 DEF Live
  <2>5. /\ tied' = tied /\ sending' \subseteq sending
        /\ rows' = rows \/ rows' = [rows EXCEPT ![u] = list]
    BY <2>1 DEF EndSend
  <2> HIDE DEF list
  <2>6. \A t \in Task : Live(rows'[t]) = Live(rows[t])
    BY <1>1, <2>4, <2>5
  <2> QED
    BY <2>5, <2>6 DEF GoingIsLive
<1>10. CASE (\E s \in 1..Horizon : MovePlan(s)) \/ CancelPlan
  <2>1. /\ sending' = sending /\ tied' = tied
        /\ \A t \in Task \ tied : rows'[t] = rows[t]
    BY <1>10 DEF MovePlan, CancelPlan, Moved, Linked
  <2> QED
    BY <2>1 DEF GoingIsLive
<1>11. CASE \/ \E f \in Form, t \in Task : Draw(f, t)
            \/ \E f \in Form : Refuse(f)
            \/ Sync \/ Tick \/ UNCHANGED vars
  <2>1. UNCHANGED <<rows, sending, tied>>
    BY <1>11 DEF Draw, Refuse, Sync, Tick, vars, tasks
  <2> QED
    BY <2>1 DEF GoingIsLive
<1> QED
  BY <1>3, <1>4, <1>5, <1>6, <1>7, <1>8, <1>9, <1>10, <1>11, StepCases DEF Steps

\* A task that is done or cancelled has nothing waiting and nothing queued,
\* whoever closed it; and unless a plan was tied to it, nothing is being sent
\* either: a person's edit is refused while a reminder goes, and no other step
\* takes back what goes (task_service.update; tasks._cancel does not ask).
THEOREM ClosedStaysQuiet == Spec => []ClosedIsQuiet
<1>1. Init => GoingIsLive
  BY DEF Init, GoingIsLive
<1>2. Inv /\ GoingIsLive /\ [Next]_vars => GoingIsLive'
  BY GoingKept
<1>3. Inv /\ GoingIsLive => ClosedIsQuiet
  <2> SUFFICES ASSUME Inv, GoingIsLive, NEW t \in Task, status[t] # "open"
               PROVE  /\ Live(rows[t]) = {}
                      /\ t \notin tied => \A i \in DOMAIN rows[t] : <<t, i>> \notin sending
    BY DEF ClosedIsQuiet
  <2>1. Live(rows[t]) = {} /\ rows[t] \in Seq(Row)
    BY DEF Inv, TypeOK, ListsOK, ClosedHasNone
  <2>2. DOMAIN rows[t] \subseteq Nat
    BY <2>1
  <2> QED
    BY <2>1, <2>2 DEF GoingIsLive
<1> QED
  BY <1>1, <1>2, <1>3, InvAlways, PTL DEF Spec

\* One run of the minute job leaves nothing due, after a stretch with the bot
\* off too: next_time skips the rounds that were missed.
THEOREM NoFloodEver == Spec => NoFlood
<1>1. ASSUME Inv, RunReminders, NEW t \in Task, status'[t] = "open",
             NEW i \in Pending(rows'[t])
      PROVE  rows'[t][i].at > now
  <2>1. /\ ~Over(t) /\ status[t] = "open"
        /\ rows'[t] = IF Due(t) # {} THEN Queued(t) ELSE rows[t]
    BY <1>1 DEF RunReminders
  <2>2. CASE Due(t) # {}
    <3>1. rows'[t] = Queued(t)
      BY <2>1, <2>2
    <3> QED
      BY <1>1, <2>2, <3>1, QueuedTidy
  <2>3. CASE Due(t) = {}
    <3>1. rows'[t] = rows[t] /\ i \in Pending(rows[t])
      BY <1>1, <2>1, <2>3
    <3>2. ~(rows[t][i].at <= now)
      BY <2>3, <3>1 DEF Due
    <3>3. rows[t] \in Seq(Row) /\ i \in DOMAIN rows[t]
      BY <1>1, <3>1 DEF Inv, TypeOK, Pending, Live
    <3>4. rows[t][i].at \in Nat
      BY <3>3, ListFacts DEF Row
    <3> QED
      BY <1>1, <3>1, <3>2, <3>4, NowIsADay
  <2> QED
    BY <2>2, <2>3
<1>2. Inv => (RunReminders => \A t \in Task :
        status'[t] = "open" => \A i \in Pending(rows'[t]) : rows'[t][i].at > now)
  BY <1>1
<1> QED
  BY <1>2, InvAlways, PTL DEF NoFlood

\* A page or an undo drawn before a change is refused after it: every step that
\* changes what it shows of a task moves the task's revision, the plan's steps
\* and the job's included.
THEOREM RevisionAlwaysMoves == Spec => RevisionMoves
<1> DEFINE Kept(t) ==
             /\ status'[t] = status[t] /\ rule'[t] = rule[t]
             /\ \A i \in DOMAIN rows[t] : rows'[t][i].live = rows[t][i].live
           Shows(t) == revision'[t] > revision[t] \/ status[t] = "absent" \/ Kept(t)
<1>1. ASSUME Inv, [Next]_vars PROVE \A t \in Task : Shows(t)
  <2>1. \A t \in Task : revision[t] \in Nat
    BY <1>1 DEF Inv, TypeOK
  <2>2. /\ revision \in [Task -> Nat \ {0}] /\ status \in [Task -> {"absent", "open", "done", "cancelled"}]
        /\ rows \in [Task -> Seq(Row)] /\ rule \in [Task -> Rules]
    BY <1>1 DEF Inv, TypeOK
  <2>3. ASSUME NEW u \in Task, NEW r \in Request, Update(u, r)
        PROVE  \A t \in Task : Shows(t)
    <3>1. /\ status' = [status EXCEPT ![u] = StatusAfter(u, r)]
          /\ rule' = [rule EXCEPT ![u] = RuleAfter(u, r)]
          /\ rows' = [rows EXCEPT ![u] = RowsAfter(u, r)]
          /\ revision' = [revision EXCEPT ![u] = @ + 1]
      BY <2>3 DEF Update
    <3>2. ASSUME NEW t \in Task, t = u PROVE Shows(t)
      BY <2>1, <2>2, <3>1, <3>2
    <3>3. ASSUME NEW t \in Task, t # u PROVE Shows(t)
      BY <2>2, <3>1, <3>3
    <3> QED
      BY <3>2, <3>3
  <2>4. CASE \E u \in Task, at \in {None} \cup 1..Horizon, from \in {"once", "schedule", "done"} :
               Create(u, at, from)
    BY <2>2, <2>4 DEF Create
  <2>5. CASE \E u \in Task : RemindBefore(u)
    BY <2>2, <2>5 DEF RemindBefore
  <2>6. CASE \E u \in Task, r \in Request : Ask(u, r)
    BY <2>3, <2>6 DEF Ask
  <2>7. CASE \E f \in Form, r \in Request : Save(f, r)
    <3>1. PICK f \in Form, r \in Request : Save(f, r)
      BY <2>7
    <3>2. drawn[f].task \in Task /\ Update(drawn[f].task, r)
      BY <1>1, <3>1 DEF Save, Inv, FormsOK
    <3> QED
      BY <2>3, <3>2
  <2>8. CASE RunReminders
    <3> SUFFICES ASSUME NEW t \in Task PROVE Shows(t)
      OBVIOUS
    <3>1. CASE Over(t)
      <4>1. revision'[t] = revision[t] + 1
        BY <2>8, <3>1 DEF RunReminders
      <4> QED
        BY <2>1, <4>1
    <3>2. CASE ~Over(t) /\ status[t] = "open" /\ Due(t) # {}
      <4>1. status'[t] = status[t] /\ rows'[t] = Queued(t) /\ rule' = rule
        BY <2>8, <3>2 DEF RunReminders
      <4> QED
        BY <1>1, <3>2, <4>1, QueuedTidy
    <3>3. CASE ~Over(t) /\ ~(status[t] = "open" /\ Due(t) # {})
      BY <2>8, <3>3 DEF RunReminders
    <3> QED
      BY <3>1, <3>2, <3>3
  <2>9. CASE \E u \in Task, i \in 1..MaxRows, went \in BOOLEAN : EndSend(u, i, went)
    <3>1. PICK u \in Task, i \in 1..MaxRows, went \in BOOLEAN : EndSend(u, i, went)
      BY <2>9
    <3> DEFINE list == [rows[u] EXCEPT ![i].message = "delivered"]
    <3>2. i \in DOMAIN rows[u] /\ rows[u][i].message # "none"
      BY <1>1, <3>1, RemindersAssumption DEF EndSend, Inv, ListsOK, SentWasQueued
    <3>3. \A j \in DOMAIN rows[u] : list[j].live = rows[u][j].live
      BY <1>1, <3>2, NowIsADay, StaysTidy, DeliveredTidy
    <3>4. /\ status' = status /\ rule' = rule
          /\ rows' = rows \/ rows' = [rows EXCEPT ![u] = list]
      BY <3>1 DEF EndSend
    <3> HIDE DEF list
    <3>5. \A t \in Task : rows'[t] = rows[t] \/ (t = u /\ rows'[t] = list)
      BY <2>2, <3>4
    <3> QED
      BY <3>3, <3>4, <3>5
  <2>10. CASE (\E s \in 1..Horizon : MovePlan(s)) \/ CancelPlan
    <3> SUFFICES ASSUME NEW t \in Task PROVE Shows(t)
      OBVIOUS
    <3>1. rule' = rule
      BY <2>10 DEF MovePlan, CancelPlan
    <3>2. \/ revision'[t] = revision[t] + 1
          \/ status'[t] = status[t] /\ rows'[t] = rows[t]
      BY <2>10 DEF MovePlan, CancelPlan
    <3> QED
      BY <2>1, <3>1, <3>2
  <2>11. CASE \/ \E u \in Task, i \in 1..MaxRows : BeginSend(u, i)
              \/ \E f \in Form, u \in Task : Draw(f, u)
              \/ \E f \in Form : Refuse(f)
              \/ Sync \/ Tick \/ UNCHANGED vars
    <3>1. UNCHANGED <<status, rule, rows>>
      BY <2>11 DEF BeginSend, Draw, Refuse, Sync, Tick, vars, tasks
    <3> QED
      BY <3>1
  <2> QED
    BY <1>1, <2>4, <2>5, <2>6, <2>7, <2>8, <2>9, <2>10, <2>11, StepCases DEF Steps
<1>2. Inv /\ [Next]_vars =>
        [\A t \in Task :
           \/ revision'[t] > revision[t]
           \/ status[t] = "absent"
           \/ /\ status'[t] = status[t] /\ rule'[t] = rule[t]
              /\ \A i \in DOMAIN rows[t] : rows'[t][i].live = rows[t][i].live]_vars
  BY <1>1
<1> QED
  BY <1>2, InvAlways, PTL DEF Spec, RevisionMoves
==============================================================================
