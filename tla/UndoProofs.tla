----------------------------- MODULE UndoProofs -----------------------------
(***************************************************************************)
(* What Undo promises, for any records, values and presses.                *)
(*                                                                         *)
(* One undo of a call follows from the mark: whoever is at a call marked   *)
(* it, and nobody else can (CallsOK).  What a plan's undo writes over has  *)
(* the stamp its call left, or was written after the mark was set, which   *)
(* is older than any write that follows the look (Pressed, SeenAsLeft).    *)
(***************************************************************************)
EXTENDS Undo, FiniteSetTheorems, TLAPS

Said == Value \cup {None, "dropped"}
PlanRow == [start : Value \cup {None}, live : BOOLEAN, updated_at : Nat, written : Nat]
OnList == {"off", "open", "ticked"}
CallRow == [op : Op, record : Idea \cup PlanId \cup Item,
            before : Said \cup DOMAIN Opposite, after : Said \cup OnList \cup Nat,
            undone_at : Nat]

PlanOp == {"cancel_plan", "restore_plan"}

\* An inverse is one of its own kind of record.
Fits(c) ==
  /\ c.op \in {"drop_idea", "restore_idea"} => c.record \in Idea /\ c.before \in Said
  /\ c.op \in PlanOp => c.record \in PlanId
  /\ c.op = "restore_plan" => c.before \in Value \cup {None}
  /\ c.op = "list" => c.before \in DOMAIN Opposite

RecordsOK ==
  /\ clock \in 1..MaxTime
  /\ ideas \in [Idea -> Said]
  /\ plans \in [PlanId -> PlanRow]
  /\ \A p \in PlanId : plans[p].updated_at <= plans[p].written /\ plans[p].written <= clock
  /\ items \in [Item -> OnList]

CallsOK ==
  /\ calls \in Seq(CallRow) /\ Len(calls) <= MaxCalls
  /\ \A i \in DOMAIN calls : Fits(calls[i])
  /\ at \in [Presser -> 0..Len(calls)]
  /\ pc \in [Presser -> {"idle", "claimed", "checked", "refused"}]
  /\ \A u \in Presser : (at[u] = 0) <=> (pc[u] = "idle")
  /\ \A u \in Presser : pc[u] = "checked" => calls[at[u]].op \in PlanOp
  /\ puts \in [1..MaxCalls -> 0..1]
  /\ \A i \in 1..MaxCalls : i > Len(calls) => puts[i] = 0
  /\ stops \in 0..MaxStops
  /\ UndoneOnce

Inv == RecordsOK /\ CallsOK

Steps ==
  \/ \E i \in Idea, v \in Value : AddIdea(i, v)
  \/ \E i \in Idea, v \in Value \cup {"dropped"} : UpdateIdea(i, v)
  \/ \E p \in PlanId, v \in Value : CreateEvent(p, v)
  \/ \E p \in PlanId, v \in Value : UpdateEvent(p, v)
  \/ \E p \in PlanId, v \in Value, live \in BOOLEAN, stamp \in 1..clock :
       ChangeAside(p, v, live, stamp)
  \/ \E x \in Item : ClearTicked(x)
  \/ \E x \in Item, action \in DOMAIN Opposite : ShoppingList(x, action)
  \/ Tick
  \/ Stop
  \/ \E u \in Presser, i \in DOMAIN calls : Claim(u, i)
  \/ \E u \in Presser : CheckPlan(u)
  \/ \E u \in Presser : UndoPlan(u)
  \/ \E u \in Presser : UndoIdea(u)
  \/ \E u \in Presser : UndoList(u)
  \/ \E u \in Presser : Refuse(u)
  \/ \E u \in Presser : Release(u)
  \/ UNCHANGED vars

LEMMA StepCases == [Next]_vars => Steps
BY DEF Next, People, Press, Steps

-----------------------------------------------------------------------------
\* The calls and their marks.
LEMMA SameCalls ==
  ASSUME CallsOK, UNCHANGED <<calls, at, pc, puts, stops>>
  PROVE  CallsOK'
BY DEF CallsOK, UndoneOnce

LEMMA AtACall ==
  ASSUME CallsOK, NEW u \in Presser, pc[u] # "idle"
  PROVE  /\ at[u] \in DOMAIN calls /\ at[u] # 0 /\ at[u] \in 1..MaxCalls
         /\ calls[at[u]] \in CallRow /\ Fits(calls[at[u]]) /\ calls[at[u]].undone_at # 0
         /\ puts[at[u]] = 0
<1>1. at[u] \in 0..Len(calls) /\ at[u] # 0 /\ calls \in Seq(CallRow) /\ Len(calls) <= MaxCalls
  BY DEF CallsOK
<1>2. at[u] \in DOMAIN calls /\ at[u] \in 1..MaxCalls
  BY <1>1, UndoAssumption
<1> QED
  BY <1>1, <1>2 DEF CallsOK, UndoneOnce

LEMMA KeptCalls ==
  ASSUME CallsOK, NEW op \in Op, NEW record \in Idea \cup PlanId \cup Item,
         NEW before \in Said \cup DOMAIN Opposite, NEW after \in Said \cup OnList \cup Nat,
         Fits([op |-> op, record |-> record, before |-> before, after |-> after, undone_at |-> 0]),
         Kept(op, record, before, after)
  PROVE  CallsOK'
<1> DEFINE c == [op |-> op, record |-> record, before |-> before, after |-> after,
                 undone_at |-> 0]
<1>1. c \in CallRow /\ c.undone_at = 0 /\ Fits(c)
  BY DEF CallRow
<1>2. calls' = Append(calls, c) /\ UNCHANGED <<at, pc, puts, stops>> /\ Len(calls) < MaxCalls
  BY DEF Kept
<1> HIDE DEF c
<1>3. /\ calls \in Seq(CallRow) /\ calls' \in Seq(CallRow) /\ Len(calls') = Len(calls) + 1
      /\ Len(calls) \in Nat
  BY <1>1, <1>2 DEF CallsOK
<1>4. /\ DOMAIN calls = 1..Len(calls) /\ DOMAIN calls' = 1..(Len(calls) + 1)
      /\ \A i \in DOMAIN calls : calls'[i] = calls[i]
      /\ calls'[Len(calls) + 1] = c
  BY <1>1, <1>2, <1>3
<1>5. MaxCalls \in Nat
  BY UndoAssumption
<1>6. \A i \in DOMAIN calls' : i \in DOMAIN calls \/ (i = Len(calls) + 1 /\ calls'[i] = c)
  BY <1>3, <1>4
<1>7. \A i \in DOMAIN calls' : Fits(calls'[i])
  BY <1>1, <1>4, <1>6 DEF CallsOK
<1>8. at' \in [Presser -> 0..Len(calls')] /\ Len(calls') <= MaxCalls
  BY <1>2, <1>3, <1>5 DEF CallsOK
<1>9. \A i \in 1..MaxCalls : i > Len(calls') => puts'[i] = 0
  BY <1>2, <1>3 DEF CallsOK
<1>11. \A u \in Presser : pc'[u] = "checked" => calls'[at'[u]].op \in PlanOp
  <2> SUFFICES ASSUME NEW u \in Presser, pc[u] = "checked" PROVE calls'[at[u]].op \in PlanOp
    BY <1>2
  <2>1. at[u] \in DOMAIN calls /\ calls[at[u]].op \in PlanOp
    BY AtACall DEF CallsOK
  <2> QED
    BY <2>1, <1>4
<1>10. UndoneOnce'
  <2>1. \A i \in DOMAIN calls' : puts'[i] <= (IF calls'[i].undone_at # 0 THEN 1 ELSE 0)
    <3> SUFFICES ASSUME NEW i \in DOMAIN calls'
                 PROVE  puts'[i] <= (IF calls'[i].undone_at # 0 THEN 1 ELSE 0)
      OBVIOUS
    <3>1. CASE i \in DOMAIN calls
      BY <3>1, <1>2, <1>4 DEF CallsOK, UndoneOnce
    <3>2. CASE i = Len(calls) + 1 /\ calls'[i] = c
      <4>1. puts'[i] = 0
        BY <3>2, <1>2, <1>3, <1>5 DEF CallsOK
      <4> QED
        BY <4>1, <3>2, <1>1
    <3> QED
      BY <3>1, <3>2, <1>6
  <2>2. \A u, w \in Presser : at'[u] # 0 /\ at'[u] = at'[w] => u = w
    BY <1>2 DEF CallsOK, UndoneOnce
  <2>3. \A u \in Presser : at'[u] # 0 => calls'[at'[u]].undone_at # 0 /\ puts'[at'[u]] = 0
    <3> SUFFICES ASSUME NEW u \in Presser, at[u] # 0
                 PROVE  calls'[at[u]].undone_at # 0 /\ puts[at[u]] = 0
      BY <1>2
    <3>1. at[u] \in DOMAIN calls
      BY <1>3, <1>4 DEF CallsOK
    <3> QED
      BY <3>1, <1>4 DEF CallsOK, UndoneOnce
  <2> QED
    BY <2>1, <2>2, <2>3 DEF UndoneOnce
<1> QED
  BY <1>2, <1>3, <1>7, <1>8, <1>9, <1>10, <1>11 DEF CallsOK

\* The mark of one call changes.
LEMMA MarkCalls ==
  ASSUME CallsOK, NEW i \in DOMAIN calls, NEW mark \in Nat,
         calls' = [calls EXCEPT ![i].undone_at = mark]
  PROVE  /\ calls' \in Seq(CallRow) /\ Len(calls') = Len(calls) /\ DOMAIN calls' = DOMAIN calls
         /\ \A j \in DOMAIN calls : Fits(calls'[j])
         /\ \A j \in DOMAIN calls \ {i} : calls'[j] = calls[j]
         /\ calls'[i].undone_at = mark
         /\ calls'[i].op = calls[i].op /\ calls'[i].record = calls[i].record
         /\ calls'[i].after = calls[i].after
<1>1. calls \in Seq(CallRow) /\ DOMAIN calls = 1..Len(calls) /\ calls[i] \in CallRow
  BY DEF CallsOK
<1> DEFINE c == [calls[i] EXCEPT !.undone_at = mark]
<1>2. /\ c \in CallRow /\ c.undone_at = mark /\ c.op = calls[i].op /\ c.record = calls[i].record
      /\ c.before = calls[i].before /\ c.after = calls[i].after
  BY <1>1 DEF CallRow
<1>3. calls' = [calls EXCEPT ![i] = c]
  BY <1>1
<1> HIDE DEF c
<1>4. Fits(c)
  BY <1>2 DEF CallsOK, Fits
<1>5. calls' \in Seq(CallRow) /\ Len(calls') = Len(calls) /\ DOMAIN calls' = DOMAIN calls
  BY <1>1, <1>2, <1>3
<1>6. calls'[i] = c /\ \A j \in DOMAIN calls \ {i} : calls'[j] = calls[j]
  BY <1>1, <1>3
<1>7. \A j \in DOMAIN calls : Fits(calls'[j])
  BY <1>4, <1>6 DEF CallsOK
<1> QED
  BY <1>2, <1>5, <1>6, <1>7

LEMMA ClaimCalls ==
  ASSUME CallsOK, clock \in Nat \ {0}, NEW u \in Presser, NEW i \in DOMAIN calls, Claim(u, i)
  PROVE  CallsOK'
<1>1. pc[u] = "idle" /\ calls[i].undone_at = 0 /\ calls' = [calls EXCEPT ![i].undone_at = clock]
      /\ at' = [at EXCEPT ![u] = i] /\ pc' = [pc EXCEPT ![u] = "claimed"]
      /\ puts' = puts /\ stops' = stops
  BY DEF Claim, GoTo
<1>2. /\ calls' \in Seq(CallRow) /\ Len(calls') = Len(calls) /\ DOMAIN calls' = DOMAIN calls
      /\ \A j \in DOMAIN calls : Fits(calls'[j])
      /\ \A j \in DOMAIN calls \ {i} : calls'[j] = calls[j]
      /\ calls'[i].undone_at = clock
  BY <1>1, MarkCalls
<1>3. i \in 1..Len(calls) /\ i # 0 /\ i \in 1..MaxCalls /\ Len(calls) \in Nat
  BY UndoAssumption DEF CallsOK
<1>4. puts[i] = 0
  BY <1>1, <1>3 DEF CallsOK, UndoneOnce
<1>5. \A w \in Presser : at[w] # i
  BY <1>1, <1>3 DEF CallsOK, UndoneOnce
<1>6. UndoneOnce'
  <2>1. \A j \in DOMAIN calls' : puts'[j] <= (IF calls'[j].undone_at # 0 THEN 1 ELSE 0)
    BY <1>1, <1>2, <1>4 DEF CallsOK, UndoneOnce
  <2>2. \A v, w \in Presser : at'[v] # 0 /\ at'[v] = at'[w] => v = w
    BY <1>1, <1>5 DEF CallsOK, UndoneOnce
  <2>3. \A w \in Presser : at'[w] # 0 => calls'[at'[w]].undone_at # 0 /\ puts'[at'[w]] = 0
    <3> SUFFICES ASSUME NEW w \in Presser, at'[w] # 0
                 PROVE  calls'[at'[w]].undone_at # 0 /\ puts[at'[w]] = 0
      BY <1>1
    <3>1. CASE w = u
      BY <3>1, <1>1, <1>2, <1>4 DEF CallsOK
    <3>2. CASE w # u
      <4>1. at'[w] = at[w] /\ at[w] # i /\ at[w] \in DOMAIN calls
        BY <3>2, <1>1, <1>5 DEF CallsOK
      <4> QED
        BY <4>1, <1>2 DEF CallsOK, UndoneOnce
    <3> QED
      BY <3>1, <3>2
  <2> QED
    BY <2>1, <2>2, <2>3 DEF UndoneOnce
<1>7. /\ at' \in [Presser -> 0..Len(calls')] /\ \A w \in Presser : (at'[w] = 0) <=> (pc'[w] = "idle")
      /\ pc' \in [Presser -> {"idle", "claimed", "checked", "refused"}]
  BY <1>1, <1>2, <1>3 DEF CallsOK
<1>8. \A w \in Presser : pc'[w] = "checked" => calls'[at'[w]].op \in PlanOp
  <2> SUFFICES ASSUME NEW w \in Presser, pc'[w] = "checked" PROVE calls'[at'[w]].op \in PlanOp
    OBVIOUS
  <2>1. w # u /\ pc[w] = "checked" /\ at'[w] = at[w]
    BY <1>1 DEF CallsOK
  <2>2. at[w] \in DOMAIN calls \ {i} /\ calls[at[w]].op \in PlanOp
    BY <2>1, <1>5, AtACall DEF CallsOK
  <2> QED
    BY <2>1, <2>2, <1>2
<1> QED
  BY <1>1, <1>2, <1>6, <1>7, <1>8 DEF CallsOK

LEMMA GoingCalls ==
  ASSUME CallsOK, NEW u \in Presser, pc[u] # "idle", NEW place \in {"checked", "refused"},
         place = "checked" => calls[at[u]].op \in PlanOp,
         GoTo(u, place), UNCHANGED <<calls, at, puts, stops>>
  PROVE  CallsOK'
<1>1. /\ pc' \in [Presser -> {"idle", "claimed", "checked", "refused"}]
      /\ \A w \in Presser : (at'[w] = 0) <=> (pc'[w] = "idle")
  BY DEF GoTo, CallsOK
<1>2. UndoneOnce'
  BY DEF CallsOK, UndoneOnce
<1>3. \A w \in Presser : pc'[w] = "checked" => calls[at[w]].op \in PlanOp
  BY DEF GoTo, CallsOK
<1> QED
  BY <1>1, <1>2, <1>3 DEF CallsOK

\* A press ends: what it was at is put back, or given up.
LEMMA LeavingCalls ==
  ASSUME CallsOK, NEW u \in Presser, pc[u] # "idle",
         at' = [at EXCEPT ![u] = 0], GoTo(u, "idle"), stops' = stops,
         \/ calls' = calls /\ puts' = [puts EXCEPT ![at[u]] = @ + 1]
         \/ calls' = [calls EXCEPT ![at[u]].undone_at = 0] /\ puts' = puts
  PROVE  CallsOK'
<1> DEFINE i == at[u]
<1>1. i \in DOMAIN calls /\ i # 0 /\ i \in 1..MaxCalls /\ calls[i].undone_at # 0 /\ puts[i] = 0
  BY AtACall
<1>2. /\ calls' \in Seq(CallRow) /\ Len(calls') = Len(calls) /\ DOMAIN calls' = DOMAIN calls
      /\ \A j \in DOMAIN calls : Fits(calls'[j])
      /\ \A j \in DOMAIN calls \ {i} : calls'[j] = calls[j] /\ puts'[j] = puts[j]
      /\ puts'[i] = (IF calls'[i].undone_at # 0 THEN 1 ELSE 0)
  <2>1. CASE calls' = calls /\ puts' = [puts EXCEPT ![i] = @ + 1]
    BY <2>1, <1>1 DEF CallsOK
  <2>2. CASE calls' = [calls EXCEPT ![i].undone_at = 0] /\ puts' = puts
    <3>1. PICK mark \in Nat : mark = 0
      OBVIOUS
    <3>2. calls' = [calls EXCEPT ![i].undone_at = mark]
      BY <2>2, <3>1
    <3>3. /\ calls' \in Seq(CallRow) /\ Len(calls') = Len(calls) /\ DOMAIN calls' = DOMAIN calls
          /\ \A j \in DOMAIN calls : Fits(calls'[j])
          /\ \A j \in DOMAIN calls \ {i} : calls'[j] = calls[j]
          /\ calls'[i].undone_at = mark
      <4> HIDE DEF i
      <4> QED
        BY <3>2, <1>1, MarkCalls
    <3> QED
      BY <2>2, <3>1, <3>3, <1>1
  <2> QED
    BY <2>1, <2>2
<1>3. /\ puts' \in [1..MaxCalls -> 0..1]
      /\ \A j \in 1..MaxCalls : j > Len(calls') => puts'[j] = 0
  <2>1. i \in 1..Len(calls) /\ Len(calls) \in Nat /\ MaxCalls \in Nat
    BY <1>1, UndoAssumption DEF CallsOK
  <2>2. Len(calls') = Len(calls)
    BY <1>2
  <2>3. puts \in [1..MaxCalls -> 0..1] /\ (puts' = puts \/ puts' = [puts EXCEPT ![i] = 1])
    BY <1>1 DEF CallsOK
  <2> QED
    BY <1>1, <2>1, <2>2, <2>3, SMTT(30) DEF CallsOK
<1>4. \A w \in Presser \ {u} : at'[w] = at[w] /\ at[w] # i
  BY <1>1 DEF CallsOK, UndoneOnce
<1>5. at'[u] = 0
  BY DEF CallsOK
<1>6. UndoneOnce'
  <2>1. \A j \in DOMAIN calls' : puts'[j] <= (IF calls'[j].undone_at # 0 THEN 1 ELSE 0)
    BY <1>2 DEF CallsOK, UndoneOnce
  <2>2. \A v, w \in Presser : at'[v] # 0 /\ at'[v] = at'[w] => v = w
    BY <1>4, <1>5 DEF CallsOK, UndoneOnce
  <2>3. \A w \in Presser : at'[w] # 0 => calls'[at'[w]].undone_at # 0 /\ puts'[at'[w]] = 0
    <3> SUFFICES ASSUME NEW w \in Presser, at'[w] # 0
                 PROVE  calls'[at'[w]].undone_at # 0 /\ puts'[at'[w]] = 0
      OBVIOUS
    <3>1. w # u /\ at'[w] = at[w] /\ at[w] # i /\ at[w] \in DOMAIN calls
      BY <1>4, <1>5 DEF CallsOK
    <3> QED
      BY <3>1, <1>2 DEF CallsOK, UndoneOnce
  <2> QED
    BY <2>1, <2>2, <2>3 DEF UndoneOnce
<1>7. /\ at' \in [Presser -> 0..Len(calls')] /\ \A w \in Presser : (at'[w] = 0) <=> (pc'[w] = "idle")
      /\ pc' \in [Presser -> {"idle", "claimed", "checked", "refused"}]
  BY <1>2 DEF CallsOK, GoTo
<1>8. \A w \in Presser : pc'[w] = "checked" => calls'[at'[w]].op \in PlanOp
  <2> SUFFICES ASSUME NEW w \in Presser, pc'[w] = "checked" PROVE calls'[at'[w]].op \in PlanOp
    OBVIOUS
  <2>1. w # u /\ pc[w] = "checked"
    BY DEF CallsOK, GoTo
  <2>2. at[w] \in DOMAIN calls \ {i} /\ at'[w] = at[w] /\ calls[at[w]].op \in PlanOp
    BY <2>1, <1>4, AtACall DEF CallsOK
  <2> QED
    BY <2>2, <1>2
<1> QED
  BY <1>2, <1>3, <1>6, <1>7, <1>8 DEF CallsOK

LEMMA StopCalls ==
  ASSUME CallsOK, Stop
  PROVE  CallsOK'
<1>1. /\ \A u \in Presser : at'[u] = 0 /\ pc'[u] = "idle"
      /\ calls' = calls /\ puts' = puts /\ stops' \in 0..MaxStops
  BY UndoAssumption DEF Stop, CallsOK
<1>2. at' \in [Presser -> 0..Len(calls')] /\ pc' \in [Presser -> {"idle", "claimed", "checked", "refused"}]
  BY <1>1 DEF Stop, CallsOK
<1>3. UndoneOnce'
  BY <1>1 DEF CallsOK, UndoneOnce
<1> QED
  BY <1>1, <1>2, <1>3 DEF CallsOK

-----------------------------------------------------------------------------
\* Every step keeps Inv.
LEMMA InvInit == ASSUME Init PROVE Inv
<1>1. RecordsOK
  BY UndoAssumption DEF Init, RecordsOK, Said, PlanRow, OnList
<1>2. CallsOK
  BY UndoAssumption DEF Init, CallsOK, UndoneOnce
<1> QED
  BY <1>1, <1>2 DEF Inv

LEMMA ListValues ==
  ASSUME NEW action \in DOMAIN Opposite, NEW was \in OnList
  PROVE  After(action, was) \in OnList /\ Opposite[action] \in DOMAIN Opposite
BY DEF Opposite, OnList, After

\* Only what a change wrote differs.
LEMMA SameRecords ==
  ASSUME RecordsOK, UNCHANGED <<clock, records>>
  PROVE  RecordsOK'
BY DEF RecordsOK, records

LEMMA PlanWritten ==
  ASSUME RecordsOK, NEW p \in PlanId, NEW row \in PlanRow,
         row.updated_at <= clock, row.written = clock,
         plans' = [plans EXCEPT ![p] = row], UNCHANGED <<clock, ideas, items>>
  PROVE  RecordsOK'
<1>1. plans' \in [PlanId -> PlanRow] /\ clock \in Nat
  BY UndoAssumption DEF RecordsOK
<1>2. \A q \in PlanId : plans'[q].updated_at <= plans'[q].written /\ plans'[q].written <= clock'
  BY <1>1 DEF RecordsOK
<1> QED
  BY <1>1, <1>2 DEF RecordsOK

LEMMA RowWritten ==
  ASSUME clock \in Nat, NEW v \in Value \cup {None}, NEW live \in BOOLEAN,
         NEW stamp \in Nat, stamp <= clock
  PROVE  /\ Row(v, live, stamp) \in PlanRow /\ Row(v, live, stamp).updated_at <= clock
         /\ Row(v, live, stamp).written = clock
BY DEF Row, PlanRow

LEMMA InvStep == ASSUME Inv, [Next]_vars PROVE Inv'
<1> USE DEF Inv
<1>0. clock \in Nat \ {0} /\ clock <= clock /\ \A v \in Value : v \in Said
  BY UndoAssumption DEF RecordsOK, Said
<1>1. ASSUME NEW i \in Idea, NEW v \in Value, AddIdea(i, v) PROVE Inv'
  <2>1. CallsOK'
    <3>1. Kept("drop_idea", i, None, v) /\ None \in Said /\ v \in Said /\ "drop_idea" \in Op
      BY <1>1 DEF AddIdea, Said, Op
    <3>2. Fits([op |-> "drop_idea", record |-> i, before |-> None, after |-> v, undone_at |-> 0])
      BY DEF Fits, Said, PlanOp
    <3> QED
      BY <3>1, <3>2, KeptCalls
  <2>2. RecordsOK'
    BY <1>0, <1>1 DEF AddIdea, Kept, RecordsOK
  <2> QED
    BY <2>1, <2>2
<1>2. ASSUME NEW i \in Idea, NEW v \in Value \cup {"dropped"}, UpdateIdea(i, v) PROVE Inv'
  <2>1. CallsOK'
    <3>1. /\ Kept("restore_idea", i, ideas[i], v) /\ ideas[i] \in Said /\ v \in Said
          /\ "restore_idea" \in Op
      BY <1>2 DEF UpdateIdea, Said, Op, RecordsOK
    <3>2. Fits([op |-> "restore_idea", record |-> i, before |-> ideas[i], after |-> v, undone_at |-> 0])
      BY <3>1 DEF Fits, PlanOp
    <3> QED
      BY <3>1, <3>2, KeptCalls
  <2>2. RecordsOK'
    BY <1>2 DEF UpdateIdea, Kept, RecordsOK, Said
  <2> QED
    BY <2>1, <2>2
<1>3. ASSUME NEW p \in PlanId, NEW v \in Value, CreateEvent(p, v) PROVE Inv'
  <2>1. /\ plans' = [plans EXCEPT ![p] = Row(v, TRUE, clock)] /\ UNCHANGED <<clock, ideas, items>>
        /\ Kept("cancel_plan", p, None, clock)
    BY <1>3 DEF CreateEvent, Kept
  <2>2. CallsOK'
    <3>1. Fits([op |-> "cancel_plan", record |-> p, before |-> None, after |-> clock, undone_at |-> 0])
      BY DEF Fits, PlanOp
    <3>2. None \in Said /\ "cancel_plan" \in Op
      BY DEF Said, Op
    <3> QED
      BY <1>0, <2>1, <3>1, <3>2, KeptCalls
  <2> QED
    BY <1>0, <2>1, <2>2, RowWritten, PlanWritten
<1>4. ASSUME NEW p \in PlanId, NEW v \in Value, UpdateEvent(p, v) PROVE Inv'
  <2>1. /\ plans' = [plans EXCEPT ![p] = Row(v, TRUE, clock)] /\ UNCHANGED <<clock, ideas, items>>
        /\ Kept("restore_plan", p, plans[p].start, clock)
    BY <1>4 DEF UpdateEvent, Kept
  <2>2. plans[p].start \in Value \cup {None}
    BY DEF RecordsOK, PlanRow
  <2>3. CallsOK'
    <3>1. Fits([op |-> "restore_plan", record |-> p, before |-> plans[p].start, after |-> clock,
                undone_at |-> 0])
      BY <2>2 DEF Fits, PlanOp
    <3>2. plans[p].start \in Said /\ "restore_plan" \in Op
      BY <2>2 DEF Said, Op
    <3> QED
      BY <1>0, <2>1, <3>1, <3>2, KeptCalls
  <2> QED
    BY <1>0, <2>1, <2>3, RowWritten, PlanWritten
<1>5. ASSUME NEW p \in PlanId, NEW v \in Value, NEW live \in BOOLEAN, NEW stamp \in 1..clock,
             ChangeAside(p, v, live, stamp)
      PROVE  Inv'
  <2>1. plans' = [plans EXCEPT ![p] = Row(v, live, stamp)]
        /\ UNCHANGED <<clock, ideas, items, calls, at, pc, puts, stops>>
    BY <1>5 DEF ChangeAside
  <2>2. stamp \in Nat /\ stamp <= clock
    BY <1>0
  <2> QED
    BY <1>0, <2>1, <2>2, RowWritten, PlanWritten, SameCalls
<1>6. ASSUME NEW x \in Item, ClearTicked(x) PROVE Inv'
  <2>1. RecordsOK'
    BY <1>6 DEF ClearTicked, RecordsOK, OnList
  <2> QED
    BY <1>6, <2>1, SameCalls DEF ClearTicked
<1>7. ASSUME NEW x \in Item, NEW action \in DOMAIN Opposite, ShoppingList(x, action) PROVE Inv'
  <2>1. /\ After(action, items[x]) \in OnList /\ Opposite[action] \in DOMAIN Opposite
        /\ items' = [items EXCEPT ![x] = After(action, items[x])]
        /\ Kept("list", x, Opposite[action], items'[x]) /\ UNCHANGED <<clock, ideas, plans>>
    BY <1>7, ListValues DEF ShoppingList, RecordsOK, Kept
  <2>2. RecordsOK' /\ items'[x] \in OnList
    BY <2>1 DEF RecordsOK
  <2>3. Fits([op |-> "list", record |-> x, before |-> Opposite[action], after |-> items'[x], undone_at |-> 0])
    BY <2>1 DEF Fits, PlanOp
  <2>4. "list" \in Op
    BY DEF Op
  <2> QED
    BY <2>1, <2>2, <2>3, <2>4, KeptCalls
<1>8. ASSUME Tick PROVE Inv'
  <2>1. RecordsOK'
    BY <1>0, <1>8, UndoAssumption DEF Tick, records, RecordsOK, PlanRow
  <2> QED
    BY <1>8, <2>1, SameCalls DEF Tick
<1>9. ASSUME Stop PROVE Inv'
  BY <1>9, StopCalls, SameRecords DEF Stop
<1>10. ASSUME NEW u \in Presser, NEW i \in DOMAIN calls, Claim(u, i) PROVE Inv'
  BY <1>0, <1>10, ClaimCalls, SameRecords DEF Claim
<1>11. ASSUME NEW u \in Presser, CheckPlan(u) PROVE Inv'
  BY <1>11, GoingCalls, SameRecords DEF CheckPlan, PlanOp, Call
<1>12. ASSUME NEW u \in Presser, UndoPlan(u) PROVE Inv'
  <2> DEFINE c == Call(u)
             row == IF c.op = "cancel_plan" THEN Row(plans[c.record].start, FALSE, clock)
                    ELSE Row(c.before, TRUE, clock)
  <2>1. /\ pc[u] = "checked" /\ plans' = [plans EXCEPT ![c.record] = row]
        /\ PutBack(u) /\ UNCHANGED <<clock, ideas, items>>
    BY <1>12 DEF UndoPlan, PutBack
  <2>2. CallsOK'
    BY <2>1, LeavingCalls DEF PutBack
  <2>3. c.op \in PlanOp /\ c.record \in PlanId
        /\ (c.op = "restore_plan" => c.before \in Value \cup {None})
    BY <2>1, AtACall DEF CallsOK, Call, Fits
  <2>4. row \in PlanRow /\ row.updated_at <= clock /\ row.written = clock
    <3>1. plans[c.record].start \in Value \cup {None}
      BY <2>3 DEF RecordsOK, PlanRow
    <3> QED
      BY <1>0, <2>3, <3>1, RowWritten DEF PlanOp
  <2> HIDE DEF row, c
  <2> QED
    BY <2>1, <2>2, <2>3, <2>4, PlanWritten
<1>13. ASSUME NEW u \in Presser, UndoIdea(u) PROVE Inv'
  <2>1. pc[u] = "claimed" /\ IdeaUnchanged(Call(u)) /\ PutBack(u)
    BY <1>13 DEF UndoIdea
  <2>2. CallsOK'
    BY <2>1, LeavingCalls DEF PutBack
  <2>3. Call(u).op \in {"drop_idea", "restore_idea"} /\ Call(u).before \in Said
    BY <2>1, AtACall DEF IdeaUnchanged, Call, Fits
  <2>4. RecordsOK'
    BY <1>13, <2>3 DEF UndoIdea, PutBack, RecordsOK, Said
  <2> QED
    BY <2>2, <2>4
<1>14. ASSUME NEW u \in Presser, UndoList(u) PROVE Inv'
  <2>1. pc[u] = "claimed" /\ Call(u).op = "list" /\ PutBack(u) /\ UNCHANGED <<ideas, plans>>
    BY <1>14 DEF UndoList
  <2>2. CallsOK'
    BY <2>1, LeavingCalls DEF PutBack
  <2>3. Call(u).before \in DOMAIN Opposite
    BY <2>1, AtACall DEF Call, Fits
  <2>4. \A x \in Item : After(Call(u).before, items[x]) \in OnList
    BY <2>3, ListValues DEF RecordsOK
  <2>5. items' \in [Item -> OnList]
    BY <1>14, <2>4 DEF UndoList, RecordsOK
  <2>6. RecordsOK'
    BY <2>1, <2>5 DEF PutBack, RecordsOK
  <2> QED
    BY <2>2, <2>6
<1>15. ASSUME NEW u \in Presser, Refuse(u) PROVE Inv'
  BY <1>15, GoingCalls, SameRecords DEF Refuse
<1>16. ASSUME NEW u \in Presser, Release(u) PROVE Inv'
  BY <1>16, LeavingCalls, SameRecords DEF Release
<1>17. ASSUME UNCHANGED vars PROVE Inv'
  BY <1>17, SameCalls, SameRecords DEF vars, records
<1> HIDE DEF Inv
<1> QED
  BY StepCases, <1>1, <1>2, <1>3, <1>4, <1>5, <1>6, <1>7, <1>8, <1>9, <1>10, <1>11, <1>12,
     <1>13, <1>14, <1>15, <1>16, <1>17 DEF Steps

-----------------------------------------------------------------------------
\* A mark is not of a time to come, so that what is written under a press, after
\* the look that found the plan as it was left, is no older than the mark.
Pressed == \A i \in DOMAIN calls : calls[i].undone_at <= clock

LeftOrLater(c) ==
  plans[c.record].updated_at = c.after \/ plans[c.record].written >= c.undone_at

SeenAsLeft == \A u \in Presser : pc[u] = "checked" => LeftOrLater(calls[at[u]])

OwnInv == Inv /\ Pressed /\ SeenAsLeft

LEMMA PressedStep == ASSUME Inv, Pressed, [Next]_vars PROVE Pressed'
<1>0. clock \in Nat \ {0} /\ calls \in Seq(CallRow) /\ \A i \in DOMAIN calls : calls[i].undone_at \in Nat
  <2>1. clock \in Nat \ {0} /\ calls \in Seq(CallRow)
    BY UndoAssumption DEF Inv, RecordsOK, CallsOK
  <2>2. \A i \in DOMAIN calls : calls[i] \in CallRow
    BY <2>1
  <2> QED
    BY <2>1, <2>2 DEF CallRow
<1>1. ASSUME calls' = calls, clock' = clock \/ clock' = clock + 1 PROVE Pressed'
  BY <1>0, <1>1 DEF Pressed
<1>2. ASSUME NEW op, NEW record, NEW before, NEW after, Kept(op, record, before, after)
      PROVE  Pressed'
  <2> DEFINE c == [op |-> op, record |-> record, before |-> before, after |-> after,
                   undone_at |-> 0]
  <2>1. c.undone_at = 0
    OBVIOUS
  <2>2. calls' = Append(calls, c) /\ clock' = clock
    BY <1>2 DEF Kept
  <2> HIDE DEF c
  <2>3. \A i \in DOMAIN calls' : (i \in DOMAIN calls /\ calls'[i] = calls[i]) \/ calls'[i] = c
    BY <1>0, <2>2
  <2> QED
    BY <1>0, <2>1, <2>2, <2>3 DEF Pressed
<1>3. ASSUME NEW i \in DOMAIN calls, NEW mark \in {0, clock}, clock' = clock,
             calls' = [calls EXCEPT ![i].undone_at = mark]
      PROVE  Pressed'
  <2>1. /\ DOMAIN calls' = DOMAIN calls /\ calls'[i].undone_at = mark
        /\ \A j \in DOMAIN calls \ {i} : calls'[j] = calls[j]
    <3>1. mark \in Nat
      BY <1>0
    <3> QED
      BY <1>3, <3>1, MarkCalls DEF Inv
  <2> QED
    BY <1>0, <1>3, <2>1 DEF Pressed
<1>4. ASSUME NEW u \in Presser, NEW i \in DOMAIN calls, Claim(u, i) PROVE Pressed'
  <2>1. calls' = [calls EXCEPT ![i].undone_at = clock] /\ clock' = clock
    BY <1>4 DEF Claim
  <2> QED
    BY <1>3, <2>1
<1>5. ASSUME NEW u \in Presser, Release(u) PROVE Pressed'
  <2>1. at[u] \in DOMAIN calls /\ calls' = [calls EXCEPT ![at[u]].undone_at = 0] /\ clock' = clock
    BY <1>5, AtACall DEF Release, Inv
  <2>2. PICK mark \in {0, clock} : mark = 0
    OBVIOUS
  <2> QED
    BY <1>3, <2>1, <2>2
<1>6. CASE \/ \E i \in Idea, v \in Value \cup {"dropped"} : AddIdea(i, v) \/ UpdateIdea(i, v)
           \/ \E p \in PlanId, v \in Value : CreateEvent(p, v) \/ UpdateEvent(p, v)
           \/ \E x \in Item, action \in DOMAIN Opposite : ShoppingList(x, action)
  BY <1>2, <1>6 DEF AddIdea, UpdateIdea, CreateEvent, UpdateEvent, ShoppingList
<1>7. CASE \/ \E p \in PlanId, v \in Value, live \in BOOLEAN, stamp \in 1..clock :
                ChangeAside(p, v, live, stamp)
           \/ \E x \in Item : ClearTicked(x)
           \/ Tick \/ Stop \/ UNCHANGED vars
           \/ \E u \in Presser : CheckPlan(u) \/ UndoPlan(u) \/ UndoIdea(u) \/ UndoList(u) \/ Refuse(u)
  BY <1>1, <1>7 DEF ChangeAside, ClearTicked, Tick, Stop, vars, CheckPlan, UndoPlan, UndoIdea, UndoList,
     PutBack, Refuse
<1> QED
  BY StepCases, <1>4, <1>5, <1>6, <1>7 DEF Steps

\* Of a press that was past the look, only what its plan is may have changed, and
\* that now.
LEMMA SeenKept ==
  ASSUME OwnInv,
         \A u \in Presser : pc'[u] = "checked" =>
           /\ pc[u] = "checked" /\ at'[u] = at[u]
           /\ at[u] \in DOMAIN calls => calls'[at[u]] = calls[at[u]],
         \A p \in PlanId : plans'[p] = plans[p] \/ plans'[p].written = clock
  PROVE  SeenAsLeft'
<1> SUFFICES ASSUME NEW u \in Presser, pc'[u] = "checked" PROVE LeftOrLater(calls[at[u]])'
  BY DEF SeenAsLeft
<1>1. /\ at[u] \in DOMAIN calls /\ calls[at[u]] \in CallRow
      /\ calls[at[u]].record \in PlanId /\ LeftOrLater(calls[at[u]])
  BY AtACall DEF OwnInv, Inv, CallsOK, Fits, SeenAsLeft
<1>2. at'[u] = at[u] /\ calls'[at[u]] = calls[at[u]]
  BY <1>1
<1>3. calls[at[u]].undone_at \in Nat /\ clock \in Nat /\ calls[at[u]].undone_at <= clock
  BY <1>1, UndoAssumption DEF CallRow, OwnInv, Inv, RecordsOK, Pressed
<1> QED
  BY <1>1, <1>2, <1>3 DEF LeftOrLater

LEMMA SeenStep == ASSUME OwnInv, [Next]_vars PROVE SeenAsLeft'
<1>0. /\ Inv /\ calls \in Seq(CallRow) /\ plans \in [PlanId -> PlanRow]
      /\ at \in [Presser -> 0..Len(calls)]
      /\ pc \in [Presser -> {"idle", "claimed", "checked", "refused"}]
  BY DEF OwnInv, Inv, RecordsOK, CallsOK
\* Where nobody looks and nothing but a plan changes, or less.
<1>1. ASSUME UNCHANGED <<calls, at, pc>>,
             \A p \in PlanId : plans'[p] = plans[p] \/ plans'[p].written = clock
      PROVE  SeenAsLeft'
  BY <1>1, SeenKept
<1>2. ASSUME NEW op, NEW record, NEW before, NEW after, Kept(op, record, before, after),
             \A p \in PlanId : plans'[p] = plans[p] \/ plans'[p].written = clock
      PROVE  SeenAsLeft'
  <2> DEFINE c == [op |-> op, record |-> record, before |-> before, after |-> after,
                   undone_at |-> 0]
  <2>1. calls' = Append(calls, c) /\ UNCHANGED <<at, pc>>
    BY <1>2 DEF Kept
  <2> HIDE DEF c
  <2>2. \A i \in DOMAIN calls : calls'[i] = calls[i]
    BY <1>0, <2>1
  <2> QED
    BY <1>2, <2>1, <2>2, SeenKept
<1>3. ASSUME NEW u \in Presser, NEW place, place # "checked", GoTo(u, place), plans' = plans,
             at' = at \/ \E i : at' = [at EXCEPT ![u] = i],
             \/ calls' = calls
             \/ \E i \in DOMAIN calls, mark \in Nat :
                  /\ calls' = [calls EXCEPT ![i].undone_at = mark]
                  /\ \A w \in Presser \ {u} : pc[w] = "checked" => at[w] # i
      PROVE  SeenAsLeft'
  <2>1. \A w \in Presser : pc'[w] = "checked" => w # u /\ pc[w] = "checked" /\ at'[w] = at[w]
    BY <1>0, <1>3 DEF GoTo
  <2>2. \A w \in Presser \ {u} : pc[w] = "checked" /\ at[w] \in DOMAIN calls =>
          calls'[at[w]] = calls[at[w]]
    BY <1>0, <1>3
  <2> QED
    BY <1>3, <2>1, <2>2, SeenKept
<1>4. ASSUME NEW i \in Idea, NEW v, AddIdea(i, v) \/ UpdateIdea(i, v) PROVE SeenAsLeft'
  BY <1>2, <1>4 DEF AddIdea, UpdateIdea
<1>5. ASSUME NEW p \in PlanId, NEW v \in Value, CreateEvent(p, v) \/ UpdateEvent(p, v)
      PROVE  SeenAsLeft'
  <2>1. plans' = [plans EXCEPT ![p] = Row(v, TRUE, clock)]
    BY <1>5 DEF CreateEvent, UpdateEvent
  <2>2. \A q \in PlanId : plans'[q] = plans[q] \/ plans'[q].written = clock
    BY <1>0, <2>1 DEF Row
  <2> QED
    BY <1>2, <1>5, <2>2 DEF CreateEvent, UpdateEvent
<1>6. ASSUME NEW x \in Item, NEW action \in DOMAIN Opposite, ShoppingList(x, action)
      PROVE  SeenAsLeft'
  BY <1>2, <1>6 DEF ShoppingList
<1>7. ASSUME NEW p \in PlanId, NEW v, NEW live, NEW stamp, ChangeAside(p, v, live, stamp)
      PROVE  SeenAsLeft'
  <2>1. \A q \in PlanId : plans'[q] = plans[q] \/ plans'[q].written = clock
    BY <1>0, <1>7 DEF ChangeAside, Row
  <2> QED
    BY <1>1, <1>7, <2>1 DEF ChangeAside
<1>8. CASE (\E x \in Item : ClearTicked(x)) \/ Tick \/ UNCHANGED vars
  BY <1>1, <1>8 DEF ClearTicked, Tick, records, vars
<1>9. CASE Stop
  BY <1>9 DEF Stop, SeenAsLeft
<1>10. ASSUME NEW u \in Presser, NEW i \in DOMAIN calls, Claim(u, i) PROVE SeenAsLeft'
  <2>1. clock \in Nat /\ \A w \in Presser : pc[w] = "checked" => at[w] # i
    BY <1>0, <1>10, AtACall, UndoAssumption DEF Claim, Inv, RecordsOK
  <2> QED
    BY <1>3, <1>10, <2>1 DEF Claim, records
<1>11. ASSUME NEW u \in Presser, CheckPlan(u) PROVE SeenAsLeft'
  <2>1. CASE ~PlanUnchanged(Call(u))
    BY <1>3, <1>11, <2>1 DEF CheckPlan, records
  <2>2. CASE PlanUnchanged(Call(u))
    <3>1. /\ pc' = [pc EXCEPT ![u] = "checked"] /\ UNCHANGED <<calls, at, plans>>
          /\ LeftOrLater(calls[at[u]])
      BY <1>11, <2>2 DEF CheckPlan, PlanUnchanged, Call, LeftOrLater, GoTo, records
    <3> QED
      BY <1>0, <3>1 DEF SeenAsLeft, OwnInv, LeftOrLater
  <2> QED
    BY <2>1, <2>2
<1>12. ASSUME NEW u \in Presser, UndoPlan(u) PROVE SeenAsLeft'
  <2>1. calls' = calls /\ at' = [at EXCEPT ![u] = 0] /\ pc' = [pc EXCEPT ![u] = "idle"]
    BY <1>12 DEF UndoPlan, PutBack, GoTo
  <2>2. \A q \in PlanId : plans'[q] = plans[q] \/ plans'[q].written = clock
    BY <1>0, <1>12 DEF UndoPlan, Row
  <2>3. \A w \in Presser : pc'[w] = "checked" => pc[w] = "checked" /\ at'[w] = at[w]
    BY <1>0, <2>1
  <2> QED
    BY <2>1, <2>2, <2>3, SeenKept
<1>13. ASSUME NEW u \in Presser, UndoIdea(u) \/ UndoList(u) PROVE SeenAsLeft'
  BY <1>3, <1>13 DEF UndoIdea, UndoList, PutBack
<1>14. ASSUME NEW u \in Presser, Refuse(u) PROVE SeenAsLeft'
  BY <1>3, <1>14 DEF Refuse, records
<1>15. ASSUME NEW u \in Presser, Release(u) PROVE SeenAsLeft'
  <2>1. at[u] \in DOMAIN calls /\ \A w \in Presser \ {u} : pc[w] = "checked" => at[w] # at[u]
    BY <1>0, <1>15, AtACall DEF Release, Inv, CallsOK, UndoneOnce
  <2> QED
    BY <1>3, <1>15, <2>1 DEF Release, records
<1> QED
  BY StepCases, <1>4, <1>5, <1>6, <1>7, <1>8, <1>9, <1>10, <1>11, <1>12, <1>13, <1>14, <1>15
  DEF Steps

LEMMA OwnInit == ASSUME Init PROVE OwnInv
BY InvInit DEF Init, OwnInv, Pressed, SeenAsLeft

LEMMA OwnStep == ASSUME OwnInv, [Next]_vars PROVE OwnInv'
BY InvStep, PressedStep, SeenStep DEF OwnInv

-----------------------------------------------------------------------------
\* Every variable keeps its type, with any presses at once.
THEOREM TypeCorrect == Spec => []TypeOK
<1>1. Init => OwnInv
  BY OwnInit
<1>2. OwnInv /\ [Next]_vars => OwnInv'
  BY OwnStep
<1>3. OwnInv => TypeOK
  <2> SUFFICES ASSUME OwnInv PROVE TypeOK
    OBVIOUS
  <2> USE DEF OwnInv, Inv
  <2>1. \A i \in Idea : ideas[i] \in Value \cup {None, "dropped"}
    BY DEF RecordsOK, Said
  <2>2. \A p \in PlanId : /\ plans[p].start \in Value \cup {None} /\ plans[p].live \in BOOLEAN
                         /\ plans[p].written \in 0..clock
                         /\ plans[p].updated_at \in 0..plans[p].written
    BY UndoAssumption DEF RecordsOK, PlanRow
  <2>3. \A i \in DOMAIN calls : /\ calls[i].op \in Op /\ calls[i].record \in Idea \cup PlanId \cup Item
                                /\ calls[i].undone_at \in 0..clock
    <3>1. \A i \in DOMAIN calls : calls[i] \in CallRow
      BY DEF CallsOK
    <3> QED
      BY <3>1, UndoAssumption DEF CallRow, Pressed, RecordsOK
  <2> QED
    BY <2>1, <2>2, <2>3 DEF TypeOK, RecordsOK, CallsOK, OnList
<1> QED
  BY <1>1, <1>2, <1>3, PTL DEF Spec

\* A change is taken back once, however many press Undo and however often what
\* they do fails or stops (take_back, claim_undo, release_undo).
THEOREM UndoneOnceAlways == Spec => []UndoneOnce
<1>1. Init => Inv
  BY InvInit
<1>2. Inv /\ [Next]_vars => Inv'
  BY InvStep
<1>3. Inv => UndoneOnce
  BY DEF Inv, CallsOK
<1> QED
  BY <1>1, <1>2, <1>3, PTL DEF Spec

\* What an undo of a plan writes over has the stamp the call left, or was written
\* since Undo was pressed, however many press, whatever Google is asked in between
\* and however old the stamps of others are (_plan_unchanged, take_back).
THEOREM PutsBackItsOwnAlways == Spec => PutsBackItsOwn
<1> DEFINE Own == \A i \in DOMAIN calls :
       puts'[i] > puts[i] /\ calls[i].op \in {"cancel_plan", "restore_plan"} =>
       LET plan == plans[calls[i].record] IN
       plan.updated_at = calls[i].after \/ plan.written >= calls[i].undone_at
<1>1. Init => OwnInv
  BY OwnInit
<1>2. OwnInv /\ [Next]_vars => OwnInv'
  BY OwnStep
<1>3. OwnInv /\ [Next]_vars => [Own]_vars
  <2> SUFFICES ASSUME OwnInv, [Next]_vars, NEW i \in DOMAIN calls, puts'[i] > puts[i],
                      calls[i].op \in {"cancel_plan", "restore_plan"}
               PROVE  LeftOrLater(calls[i])
    BY DEF LeftOrLater
  <2>1. i \in 1..MaxCalls /\ puts[i] \in 0..1
    BY UndoAssumption DEF OwnInv, Inv, CallsOK
  <2>2. puts' # puts
    BY <2>1
  <2>3. PICK u \in Presser : UndoPlan(u) \/ UndoIdea(u) \/ UndoList(u)
    BY <2>2, StepCases DEF Steps, AddIdea, UpdateIdea, CreateEvent, UpdateEvent, ChangeAside, ClearTicked,
       ShoppingList, Kept, Tick, Stop, Claim, CheckPlan, Refuse, Release, vars
  <2>4. puts' = [puts EXCEPT ![at[u]] = @ + 1]
    BY <2>3 DEF UndoPlan, UndoIdea, UndoList, PutBack
  <2>5. i = at[u]
    BY <2>1, <2>4 DEF OwnInv, Inv, CallsOK
  <2>6. UndoPlan(u)
    BY <2>3, <2>5 DEF UndoIdea, IdeaUnchanged, UndoList, Call
  <2> QED
    BY <2>5, <2>6 DEF UndoPlan, OwnInv, SeenAsLeft
<1> QED
  BY <1>1, <1>2, <1>3, PTL DEF Spec, PutsBackItsOwn

-----------------------------------------------------------------------------
\* Claims that nobody is at and nothing came of.
Stray == {i \in Marked : puts[i] = 0 /\ ~AtIt(i)}

StrayInv == Inv /\ ClaimsGivenBack

LEMMA StrayFinite ==
  ASSUME CallsOK
  PROVE  IsFiniteSet(Stray) /\ Cardinality(Stray) \in Nat /\ stops \in Nat
<1>1. Stray \subseteq 1..Len(calls) /\ Len(calls) \in Nat
  BY DEF CallsOK, Stray, Marked
<1>2. IsFiniteSet(1..Len(calls))
  BY <1>1, FS_Interval
<1>3. IsFiniteSet(Stray)
  BY <1>1, <1>2, FS_Subset
<1> QED
  BY <1>3, FS_CardinalityType, UndoAssumption DEF CallsOK

LEMMA FewerStray ==
  ASSUME StrayInv, Inv', Stray' \subseteq Stray, stops' = stops
  PROVE  StrayInv'
<1>1. IsFiniteSet(Stray) /\ Cardinality(Stray) \in Nat
  BY StrayFinite DEF StrayInv, Inv
<1>2. Cardinality(Stray') <= Cardinality(Stray) /\ Cardinality(Stray') \in Nat
  BY <1>1, FS_Subset, FS_CardinalityType
<1>3. Cardinality(Presser) \in Nat /\ stops \in Nat
  BY PressersFinite, FS_CardinalityType, StrayFinite DEF StrayInv, Inv
<1> DEFINE most == stops * Cardinality(Presser)
<1>4. most \in Nat
  BY <1>3
<1>5. Cardinality(Stray) <= most /\ most' = most
  BY DEF StrayInv, ClaimsGivenBack, Stray
<1> HIDE DEF most
<1>6. Cardinality(Stray') <= most'
  BY <1>1, <1>2, <1>4, <1>5
<1> QED
  BY <1>6 DEF most, StrayInv, ClaimsGivenBack, Stray

\* A step that neither marks a call nor leaves one.
LEMMA NoneStrays ==
  ASSUME StrayInv, Inv', UNCHANGED <<at, puts, stops>>,
         \A i \in DOMAIN calls' : calls'[i].undone_at # 0 => i \in DOMAIN calls /\ calls[i].undone_at # 0
  PROVE  StrayInv'
<1>1. Stray' \subseteq Stray
  BY DEF Stray, Marked, AtIt
<1> QED
  BY <1>1, FewerStray

LEMMA KeptStray ==
  ASSUME StrayInv, Inv', NEW op, NEW record, NEW before, NEW after,
         Kept(op, record, before, after)
  PROVE  StrayInv'
<1> DEFINE c == [op |-> op, record |-> record, before |-> before, after |-> after,
                 undone_at |-> 0]
<1>1. c.undone_at = 0
  OBVIOUS
<1>2. calls' = Append(calls, c) /\ UNCHANGED <<at, pc, puts, stops>>
  BY DEF Kept
<1> HIDE DEF c
<1>3. calls \in Seq(CallRow) /\ calls' \in Seq(CallRow)
  BY DEF StrayInv, Inv, CallsOK
<1>4. \A i \in DOMAIN calls' : \/ i \in DOMAIN calls /\ calls'[i] = calls[i]
                               \/ calls'[i] = c
  BY <1>2, <1>3
<1> QED
  BY <1>1, <1>2, <1>4, NoneStrays

LEMMA ClaimStray ==
  ASSUME StrayInv, Inv', NEW u \in Presser, NEW i \in DOMAIN calls, Claim(u, i)
  PROVE  StrayInv'
<1>1. /\ calls' = [calls EXCEPT ![i].undone_at = clock] /\ at' = [at EXCEPT ![u] = i]
      /\ pc[u] = "idle" /\ UNCHANGED <<puts, stops>>
  BY DEF Claim
<1>2. DOMAIN calls' = DOMAIN calls /\ \A j \in DOMAIN calls \ {i} : calls'[j] = calls[j]
  <2>1. clock \in Nat
    BY UndoAssumption DEF StrayInv, Inv, RecordsOK
  <2> QED
    BY <1>1, <2>1, MarkCalls DEF StrayInv, Inv
<1>3. at'[u] = i /\ at[u] = 0 /\ \A w \in Presser \ {u} : at'[w] = at[w]
  BY <1>1 DEF StrayInv, Inv, CallsOK
<1>4. \A j \in DOMAIN calls : j # 0
  BY DEF StrayInv, Inv, CallsOK
<1>5. \A j \in DOMAIN calls : AtIt(j) => AtIt(j)'
  BY <1>3, <1>4 DEF AtIt
<1>6. AtIt(i)'
  BY <1>3 DEF AtIt
<1>7. Stray' \subseteq Stray
  BY <1>1, <1>2, <1>5, <1>6 DEF Stray, Marked
<1> QED
  BY <1>1, <1>7, FewerStray

\* What a press leaves is put back or not marked any more.
LEMMA LeavingStray ==
  ASSUME StrayInv, Inv', NEW u \in Presser, pc[u] # "idle",
         at' = [at EXCEPT ![u] = 0], stops' = stops,
         \/ calls' = calls /\ puts' = [puts EXCEPT ![at[u]] = @ + 1]
         \/ calls' = [calls EXCEPT ![at[u]].undone_at = 0] /\ puts' = puts
  PROVE  StrayInv'
<1>1. at[u] \in DOMAIN calls /\ at[u] \in 1..MaxCalls
  BY AtACall DEF StrayInv, Inv
<1>2. \A w \in Presser \ {u} : at'[w] = at[w]
  BY DEF StrayInv, Inv, CallsOK
<1>3. \A j \in DOMAIN calls \ {at[u]} : AtIt(j) => AtIt(j)'
  BY <1>2 DEF AtIt
<1>4. DOMAIN calls \subseteq 1..MaxCalls
  BY UndoAssumption DEF StrayInv, Inv, CallsOK
<1>5. /\ DOMAIN calls' = DOMAIN calls
      /\ \A j \in DOMAIN calls \ {at[u]} : calls'[j] = calls[j] /\ puts'[j] = puts[j]
      /\ puts'[at[u]] # 0 \/ calls'[at[u]].undone_at = 0
  <2>1. CASE calls' = calls /\ puts' = [puts EXCEPT ![at[u]] = @ + 1]
    BY <1>1, <1>4, <2>1 DEF StrayInv, Inv, CallsOK
  <2>2. CASE calls' = [calls EXCEPT ![at[u]].undone_at = 0] /\ puts' = puts
    BY <1>1, <2>2, MarkCalls DEF StrayInv, Inv
  <2> QED
    BY <2>1, <2>2
<1>6. Stray' \subseteq Stray
  BY <1>3, <1>5 DEF Stray, Marked
<1> QED
  BY <1>6, FewerStray

\* A stop leaves one claim of each press at most.
LEMMA StopStray ==
  ASSUME StrayInv, Inv', Stop PROVE StrayInv'
<1> DEFINE n == Cardinality(Presser)
           left == {at[u] : u \in Presser}
<1>1. UNCHANGED <<calls, puts>> /\ stops' = stops + 1
  BY DEF Stop, records
<1>2. Stray' \subseteq Stray \cup left
  BY <1>1 DEF Stray, Marked, AtIt
<1>3. IsFiniteSet(left) /\ Cardinality(left) <= n
  <2> DEFINE f == [u \in Presser |-> at[u]]
  <2>1. f \in Surjection(Presser, left)
    BY DEF Surjection
  <2> HIDE DEF f, left
  <2> QED
    BY <2>1, PressersFinite, FS_Surjection
<1> HIDE DEF left
<1>4. /\ IsFiniteSet(Stray) /\ stops \in Nat
      /\ Cardinality(Stray) \in Nat /\ n \in Nat /\ Cardinality(left) \in Nat
  BY <1>3, StrayFinite, PressersFinite, FS_CardinalityType DEF StrayInv, Inv
<1>5. IsFiniteSet(Stray \cup left) /\ Cardinality(Stray \cup left) <= Cardinality(Stray) + n
  <2>1. /\ IsFiniteSet(Stray \cup left)
        /\ Cardinality(Stray \cup left) =
             Cardinality(Stray) + Cardinality(left) - Cardinality(Stray \cap left)
    BY <1>3, <1>4, FS_Union
  <2>2. Cardinality(Stray \cap left) \in Nat
    BY <1>4, FS_Intersection, FS_CardinalityType
  <2> QED
    BY <1>3, <1>4, <2>1, <2>2
<1>6. Cardinality(Stray') <= Cardinality(Stray \cup left) /\ Cardinality(Stray') \in Nat
      /\ Cardinality(Stray \cup left) \in Nat
  BY <1>2, <1>5, FS_Subset, FS_CardinalityType
<1>7. Cardinality(Stray) <= stops * n
  BY DEF StrayInv, ClaimsGivenBack, Stray
<1>8. stops' * n' = stops * n + n /\ stops * n \in Nat
  BY <1>1, <1>4
<1> HIDE DEF n
<1>9. Cardinality(Stray') <= stops' * n'
  BY <1>4, <1>5, <1>6, <1>7, <1>8
<1> QED
  BY <1>9 DEF n, StrayInv, ClaimsGivenBack, Stray

LEMMA StrayInit == ASSUME Init PROVE StrayInv
<1>1. Stray = {} /\ stops = 0
  BY DEF Init, Stray, Marked
<1>2. Cardinality(Presser) \in Nat
  BY PressersFinite, FS_CardinalityType
<1> QED
  BY <1>1, <1>2, InvInit, FS_EmptySet DEF StrayInv, ClaimsGivenBack, Stray

LEMMA StrayStep == ASSUME StrayInv, [Next]_vars PROVE StrayInv'
<1>0. Inv'
  BY InvStep DEF StrayInv
<1>1. ASSUME NEW op, NEW record, NEW before, NEW after, Kept(op, record, before, after)
      PROVE  StrayInv'
  BY <1>0, <1>1, KeptStray
<1>2. ASSUME UNCHANGED <<calls, at, puts, stops>> PROVE StrayInv'
  BY <1>0, <1>2, NoneStrays
<1>3. ASSUME NEW i \in Idea, NEW v, AddIdea(i, v) \/ UpdateIdea(i, v) PROVE StrayInv'
  BY <1>1, <1>3 DEF AddIdea, UpdateIdea
<1>4. ASSUME NEW p \in PlanId, NEW v \in Value, CreateEvent(p, v) \/ UpdateEvent(p, v)
      PROVE  StrayInv'
  BY <1>1, <1>4 DEF CreateEvent, UpdateEvent
<1>5. ASSUME NEW x \in Item, NEW action \in DOMAIN Opposite, ShoppingList(x, action)
      PROVE  StrayInv'
  BY <1>1, <1>5 DEF ShoppingList
<1>6. ASSUME NEW p \in PlanId, NEW v, NEW live, NEW stamp, ChangeAside(p, v, live, stamp)
      PROVE  StrayInv'
  BY <1>2, <1>6 DEF ChangeAside
<1>7. ASSUME NEW x \in Item, ClearTicked(x) PROVE StrayInv'
  BY <1>2, <1>7 DEF ClearTicked
<1>8. CASE Tick
  BY <1>2, <1>8 DEF Tick
<1>9. CASE Stop
  BY <1>0, <1>9, StopStray
<1>10. ASSUME NEW u \in Presser, NEW i \in DOMAIN calls, Claim(u, i) PROVE StrayInv'
  BY <1>0, <1>10, ClaimStray
<1>11. ASSUME NEW u \in Presser, CheckPlan(u) \/ Refuse(u) PROVE StrayInv'
  BY <1>2, <1>11 DEF CheckPlan, Refuse
<1>12. ASSUME NEW u \in Presser, UndoPlan(u) \/ UndoIdea(u) \/ UndoList(u) PROVE StrayInv'
  <2>1. /\ pc[u] # "idle" /\ at' = [at EXCEPT ![u] = 0] /\ stops' = stops
        /\ calls' = calls /\ puts' = [puts EXCEPT ![at[u]] = @ + 1]
    BY <1>12 DEF UndoPlan, UndoIdea, UndoList, PutBack
  <2> QED
    BY <1>0, <2>1, LeavingStray
<1>13. ASSUME NEW u \in Presser, Release(u) PROVE StrayInv'
  <2>1. /\ pc[u] # "idle" /\ at' = [at EXCEPT ![u] = 0] /\ stops' = stops
        /\ calls' = [calls EXCEPT ![at[u]].undone_at = 0] /\ puts' = puts
    BY <1>13 DEF Release
  <2> QED
    BY <1>0, <2>1, LeavingStray
<1>14. CASE UNCHANGED vars
  BY <1>2, <1>14 DEF vars
<1> QED
  BY StepCases, <1>3, <1>4, <1>5, <1>6, <1>7, <1>8, <1>9, <1>10, <1>11, <1>12, <1>13, <1>14
  DEF Steps

\* Whatever fails or races, an undo that failed can be pressed again: only a stop
\* leaves claims nothing came of, one for each press at most (release_undo).
THEOREM ClaimsGivenBackAlways == Spec => []ClaimsGivenBack
<1>1. Init => StrayInv
  BY StrayInit
<1>2. StrayInv /\ [Next]_vars => StrayInv'
  BY StrayStep
<1>3. StrayInv => ClaimsGivenBack
  BY DEF StrayInv
<1> QED
  BY <1>1, <1>2, <1>3, PTL DEF Spec
=============================================================================
