--------------------------- MODULE SpendingProofs ---------------------------
(***************************************************************************)
(* What holds of the spending limit's holds for every number of callers,   *)
(* companies, prices and limits.  A running call's hold is there, younger  *)
(* than the longest call, and nobody else's: that is what keeps the holds  *)
(* it clears, and those that others clear, from being the wrong ones.      *)
(* And what is held and spent of today passes the limit by one call at     *)
(* most: the holds of the others are counted before one more is made.      *)
(***************************************************************************)
EXTENDS Spending, FiniteSetTheorems, TLAPS

\* What a failed or finished call must not lose.
CallsHeld ==
  \A c \in Running :
    \E h \in holds : h.id = hold[c] /\ now <= h.at + Longest

HoldsApart == \A c, d \in Running : hold[c] = hold[d] => c = d

Unowned == {h \in holds : \A c \in Running : h.id # hold[c]}

IInv == TypeOK /\ CallsHeld /\ HoldsApart

-----------------------------------------------------------------------------
\* The types hold of every step.
LEMMA TypeStep == TypeOK /\ [Next]_vars => TypeOK'
<1> SUFFICES ASSUME TypeOK, [Next]_vars PROVE TypeOK'
  OBVIOUS
<1> USE SpendingAssumption
<1>1. ASSUME NEW c \in Caller, NEW k \in Company, NEW cost \in 1..Dearest,
             Admit(c, k, cost)
      PROVE TypeOK'
  <2> DEFINE h == [id |-> last + 1, cost |-> cost, at |-> now]
  <2>1. h \in Hold /\ h.id = last + 1 /\ h.at = now
    BY DEF TypeOK, Hold
  <2>2. holds' = holds \cup {h} /\ last' = last + 1 /\ now' = now
    BY <1>1 DEF Admit, NextId
  <2>3. \A g \in holds : g.id <= last /\ g \in Hold /\ g.at <= now
    BY DEF TypeOK
  <2>4. (\A g, i \in holds : g.id = i.id => g = i)'
    BY <2>1, <2>2, <2>3 DEF TypeOK, Hold
  <2>5. (\A g \in holds : g.id <= last /\ g.at <= now)'
    BY <2>1, <2>2, <2>3 DEF TypeOK, Hold
  <2>6. holds' \subseteq Hold
    BY <2>1, <2>2 DEF TypeOK
  <2>7. /\ hold' \in [Caller -> Nat] /\ asked' \in [Caller -> Company]
        /\ pc' \in [Caller -> {"idle", "first", "spare", "second", "failed"}]
        /\ last' \in Nat
    BY <1>1 DEF TypeOK, Admit, NextId
  <2>8. noted' = FALSE /\ UNCHANGED <<now, spent, carried, paid, crashes>>
    BY <1>1 DEF Admit
  <2> HIDE DEF h
  <2> QED
    BY <2>4, <2>5, <2>6, <2>7, <2>8 DEF TypeOK
<1>2. ASSUME NEW c \in Caller, Refuse(c) PROVE TypeOK'
  BY <1>2 DEF TypeOK, Refuse
<1>3. ASSUME NEW c \in Caller, NEW cost \in 1..Dearest, Answer(c, cost)
      PROVE TypeOK'
  <2>1. cost \in Nat /\ spent' \in Nat /\ carried' \in Nat
    BY <1>3 DEF TypeOK, Answer
  <2>2. paid' \in [Company -> Nat]
    BY <1>3, <2>1 DEF TypeOK, Answer
  <2>3. holds' \subseteq holds
    BY <1>3 DEF Answer, Settled
  <2> QED
    BY <1>3, <2>1, <2>2, <2>3 DEF TypeOK, Answer
<1>4. ASSUME NEW c \in Caller, NEW k \in Company, Switch(c, k) PROVE TypeOK'
  BY <1>4 DEF TypeOK, Switch
<1>5. ASSUME NEW c \in Caller, Fail(c) PROVE TypeOK'
  BY <1>5 DEF TypeOK, Fail
<1>6. ASSUME NEW c \in Caller, NEW cost \in 1..Dearest, Adjust(c, cost)
      PROVE TypeOK'
  <2> DEFINE New(h) == IF h.id = hold[c] THEN [h EXCEPT !.cost = cost] ELSE h
  <2>1. \A h \in Hold : New(h) \in Hold /\ New(h).id = h.id /\ New(h).at = h.at
    BY DEF Hold
  <2>2. holds' = {New(h) : h \in holds}
    BY <1>6 DEF Adjust
  <2>3. holds' \subseteq Hold
    BY <2>1, <2>2 DEF TypeOK
  <2> HIDE DEF New
  <2>4. \A g \in holds' : \E h \in holds : g = New(h) /\ g.id = h.id /\ g.at = h.at
    BY <2>1, <2>2 DEF TypeOK
  <2>5. (\A g, h \in holds : g.id = h.id => g = h)'
    BY <2>4 DEF TypeOK
  <2>6. (\A h \in holds : h.id <= last /\ h.at <= now)'
    BY <1>6, <2>4 DEF TypeOK, Adjust
  <2> QED
    BY <1>6, <2>3, <2>5, <2>6 DEF TypeOK, Adjust
<1>7. ASSUME NEW c \in Caller, AdjustRefused(c) PROVE TypeOK'
  BY <1>7 DEF TypeOK, AdjustRefused
<1>8. ASSUME NEW c \in Caller, Settle(c) PROVE TypeOK'
  <2>1. holds' \subseteq holds
    BY <1>8 DEF Settle, Settled
  <2> QED
    BY <1>8, <2>1 DEF TypeOK, Settle
<1>9. ASSUME NEW c \in Caller, Crash(c) PROVE TypeOK'
  BY <1>9 DEF TypeOK, Crash
<1>10. CASE Tick
  BY <1>10 DEF TypeOK, Tick, Hold
<1>11. CASE UNCHANGED vars
  BY <1>11 DEF TypeOK, vars
<1> QED
  BY <1>1, <1>2, <1>3, <1>4, <1>5, <1>6, <1>7, <1>8, <1>9, <1>10, <1>11
  DEF Next

LEMMA TypeInit == Init => TypeOK
<1> SUFFICES ASSUME Init PROVE TypeOK
  OBVIOUS
<1>1. holds = {} /\ noted = FALSE /\ asked \in [Caller -> Company]
  BY DEF Init
<1>2. /\ now \in Nat /\ last \in Nat /\ spent \in Nat /\ carried \in Nat
      /\ crashes \in Nat /\ paid \in [Company -> Nat]
      /\ hold \in [Caller -> Nat]
      /\ pc \in [Caller -> {"idle", "first", "spare", "second", "failed"}]
  BY DEF Init
<1> QED
  BY <1>1, <1>2 DEF TypeOK

\* Types, and the holds' ids are their own, whatever the constants.
THEOREM TypeCorrect == Spec => []TypeOK
<1>1. Init => TypeOK
  BY TypeInit
<1>2. TypeOK /\ [Next]_vars => TypeOK'
  BY TypeStep
<1> QED
  BY <1>1, <1>2, PTL DEF Spec

-----------------------------------------------------------------------------
\* settle leaves every other running call's hold where it is.
LEMMA SettleSpares ==
  ASSUME IInv, NEW c \in Running, NEW d \in Running, d # c,
         NEW h \in holds, h.id = hold[d], now <= h.at + Longest
  PROVE  h \in Settled(hold[c])
<1>1. h.id # hold[c]
  BY DEF IInv, HoldsApart
<1>2. h.at >= now - HoldTime
  BY SpendingAssumption, HoldOutlasts DEF IInv, TypeOK, Hold
<1> QED
  BY <1>1, <1>2 DEF Settled

LEMMA HeldInit == Init => IInv
<1> SUFFICES ASSUME Init PROVE IInv
  OBVIOUS
<1>1. Running = {}
  BY DEF Init, Running
<1> QED
  BY <1>1, TypeInit DEF IInv, CallsHeld, HoldsApart

\* A step that ends a call and settles its hold.
LEMMA EndStep ==
  ASSUME IInv, NEW c \in Running, holds' = Settled(hold[c]),
         pc' = [pc EXCEPT ![c] = "idle"], UNCHANGED <<now, hold>>
  PROVE  (CallsHeld /\ HoldsApart)'
<1>1. Running' = Running \ {c}
  BY DEF Running, IInv, TypeOK
<1>2. CallsHeld'
  <2> SUFFICES ASSUME NEW d \in Running \ {c}
               PROVE  \E h \in holds' : h.id = hold[d] /\ now <= h.at + Longest
    BY <1>1 DEF CallsHeld
  <2>1. PICK h \in holds : h.id = hold[d] /\ now <= h.at + Longest
    BY DEF IInv, CallsHeld
  <2>2. h \in Settled(hold[c])
    BY <2>1, SettleSpares
  <2> QED
    BY <2>1, <2>2
<1>3. HoldsApart'
  BY <1>1 DEF IInv, HoldsApart
<1> QED
  BY <1>2, <1>3

LEMMA HeldStep == IInv /\ [Next]_vars => (CallsHeld /\ HoldsApart)'
<1> SUFFICES ASSUME IInv, [Next]_vars PROVE (CallsHeld /\ HoldsApart)'
  OBVIOUS
<1> USE SpendingAssumption
<1>1. ASSUME NEW c \in Caller, NEW k \in Company, NEW cost \in 1..Dearest,
             Admit(c, k, cost)
      PROVE (CallsHeld /\ HoldsApart)'
  <2> DEFINE h == [id |-> last + 1, cost |-> cost, at |-> now]
  <2>1. Running' = Running \cup {c} /\ c \notin Running
    BY <1>1 DEF Admit, Running, IInv, TypeOK
  <2>2. h \in holds' /\ h.id = hold'[c] /\ now' <= h.at + Longest
    BY <1>1 DEF Admit, NextId, IInv, TypeOK
  <2>3. \A d \in Running : hold'[d] = hold[d] /\ hold[d] <= last /\ hold'[d] # hold'[c]
    <3> SUFFICES ASSUME NEW d \in Running
                 PROVE  hold'[d] = hold[d] /\ hold[d] <= last /\ hold'[d] # hold'[c]
      OBVIOUS
    <3>1. hold'[d] = hold[d] /\ hold'[c] = last + 1
      BY <1>1, <2>1 DEF Admit, NextId, IInv, TypeOK, Running
    <3>2. hold[d] <= last
      BY DEF IInv, CallsHeld, TypeOK
    <3> QED
      BY <3>1, <3>2 DEF IInv, TypeOK, Running
  <2>4. holds \subseteq holds' /\ now' = now
    BY <1>1 DEF Admit
  <2>5. CallsHeld'
    <3> SUFFICES ASSUME NEW d \in Running'
                 PROVE  \E g \in holds' : g.id = hold'[d] /\ now' <= g.at + Longest
      BY DEF CallsHeld
    <3>1. CASE d = c
      <4> HIDE DEF h
      <4> QED BY <3>1, <2>2
    <3>2. CASE d \in Running
      BY <3>2, <2>3, <2>4 DEF IInv, CallsHeld
    <3> QED
      BY <2>1, <3>1, <3>2
  <2>6. HoldsApart'
    BY <2>1, <2>3 DEF IInv, HoldsApart
  <2> QED
    BY <2>5, <2>6
<1>2. ASSUME NEW c \in Caller, Refuse(c) PROVE (CallsHeld /\ HoldsApart)'
  BY <1>2 DEF Refuse, IInv, CallsHeld, HoldsApart, Running
<1>3. ASSUME NEW c \in Caller, NEW cost \in 1..Dearest, Answer(c, cost)
      PROVE (CallsHeld /\ HoldsApart)'
  <2>1. c \in Running
    BY <1>3 DEF Answer, Running
  <2> QED
    BY <1>3, <2>1, EndStep DEF Answer
<1>4. ASSUME NEW c \in Caller, NEW k \in Company, Switch(c, k)
      PROVE (CallsHeld /\ HoldsApart)'
  <2>1. Running' = Running
    BY <1>4 DEF Switch, Running, IInv, TypeOK
  <2> QED
    BY <1>4, <2>1 DEF Switch, IInv, CallsHeld, HoldsApart
<1>5. ASSUME NEW c \in Caller, Fail(c) PROVE (CallsHeld /\ HoldsApart)'
  <2>1. Running' = Running
    BY <1>5 DEF Fail, Running, IInv, TypeOK
  <2> QED
    BY <1>5, <2>1 DEF Fail, IInv, CallsHeld, HoldsApart
<1>6. ASSUME NEW c \in Caller, NEW cost \in 1..Dearest, Adjust(c, cost)
      PROVE (CallsHeld /\ HoldsApart)'
  <2> DEFINE New(h) == IF h.id = hold[c] THEN [h EXCEPT !.cost = cost] ELSE h
  <2>1. Running' = Running /\ hold' = hold /\ now' = now
    BY <1>6 DEF Adjust, Running, IInv, TypeOK
  <2>2. \A h \in Hold : New(h).id = h.id /\ New(h).at = h.at
    BY DEF Hold
  <2>3. holds' = {New(h) : h \in holds}
    BY <1>6 DEF Adjust
  <2> HIDE DEF New
  <2>4. \A h \in holds : \E g \in holds' : g.id = h.id /\ g.at = h.at
    BY <2>2, <2>3 DEF IInv, TypeOK
  <2>5. CallsHeld'
    <3> SUFFICES ASSUME NEW d \in Running
                 PROVE  \E g \in holds' : g.id = hold[d] /\ now <= g.at + Longest
      BY <2>1 DEF CallsHeld
    <3>1. PICK h \in holds : h.id = hold[d] /\ now <= h.at + Longest
      BY DEF IInv, CallsHeld
    <3>2. PICK g \in holds' : g.id = h.id /\ g.at = h.at
      BY <2>4
    <3> QED
      BY <3>1, <3>2
  <2> QED
    BY <2>1, <2>5 DEF IInv, HoldsApart
<1>7. ASSUME NEW c \in Caller, AdjustRefused(c) PROVE (CallsHeld /\ HoldsApart)'
  <2>1. Running' = Running
    BY <1>7 DEF AdjustRefused, Running, IInv, TypeOK
  <2> QED
    BY <1>7, <2>1 DEF AdjustRefused, IInv, CallsHeld, HoldsApart
<1>8. ASSUME NEW c \in Caller, Settle(c) PROVE (CallsHeld /\ HoldsApart)'
  <2>1. c \in Running
    BY <1>8 DEF Settle, Running
  <2> QED
    BY <1>8, <2>1, EndStep DEF Settle
<1>9. ASSUME NEW c \in Caller, Crash(c) PROVE (CallsHeld /\ HoldsApart)'
  <2>1. Running' = Running \ {c}
    BY <1>9 DEF Crash, Running, IInv, TypeOK
  <2> QED
    BY <1>9, <2>1 DEF Crash, IInv, CallsHeld, HoldsApart
<1>10. CASE Tick
  <2>1. Running' = Running /\ hold' = hold /\ holds' = holds /\ now' = now + 1
    BY <1>10 DEF Tick, Running
  <2>2. CallsHeld'
    <3> SUFFICES ASSUME NEW d \in Running
                 PROVE  \E g \in holds : g.id = hold[d] /\ now + 1 <= g.at + Longest
      BY <2>1 DEF CallsHeld
    <3>1. PICK h \in holds : h.id = hold[d] /\ now <= h.at + Longest
      BY DEF IInv, CallsHeld
    <3>2. now < h.at + Longest
      BY <1>10, <3>1 DEF Tick
    <3> QED
      BY <3>1, <3>2 DEF IInv, TypeOK, Hold
  <2> QED
    BY <2>1, <2>2 DEF IInv, HoldsApart
<1>11. CASE UNCHANGED vars
  BY <1>11 DEF vars, IInv, CallsHeld, HoldsApart, Running
<1> QED
  BY <1>1, <1>2, <1>3, <1>4, <1>5, <1>6, <1>7, <1>8, <1>9, <1>10, <1>11
  DEF Next

LEMMA HeldInvariant == Spec => []IInv
<1>1. Init => IInv
  BY HeldInit
<1>2. IInv /\ [Next]_vars => IInv'
  BY TypeStep, HeldStep DEF IInv
<1> QED
  BY <1>1, <1>2, PTL DEF Spec

\* No call loses its hold while it runs: settling clears the caller's own and
\* those too old for any call to be running under them, whoever settles.
THEOREM CallsAreHeld == Spec => []EachCallHeld
<1>1. IInv => EachCallHeld
  BY DEF IInv, CallsHeld, EachCallHeld
<1> QED
  BY <1>1, HeldInvariant, PTL

-----------------------------------------------------------------------------
\* The holds nobody runs under are no more than the crashes.
OwnedInv ==
  IInv /\ IsFiniteSet(holds) /\ Cardinality(Unowned) <= crashes

LEMMA FewerUnowned ==
  ASSUME OwnedInv, IInv', IsFiniteSet(holds'), Unowned' \subseteq Unowned,
         crashes' = crashes
  PROVE  OwnedInv'
<1>1. IsFiniteSet(Unowned)
  BY FS_Subset DEF OwnedInv, Unowned
<1>2. IsFiniteSet(Unowned') /\ Cardinality(Unowned') <= Cardinality(Unowned)
  BY <1>1, FS_Subset
<1>3. Cardinality(Unowned) \in Nat /\ Cardinality(Unowned') \in Nat
  BY <1>1, <1>2, FS_CardinalityType
<1> QED
  BY <1>2, <1>3 DEF OwnedInv, IInv, TypeOK

LEMMA OwnedInit == Init => OwnedInv
<1> SUFFICES ASSUME Init PROVE OwnedInv
  OBVIOUS
<1>1. Unowned = {} /\ holds = {} /\ crashes = 0
  BY DEF Init, Unowned
<1> QED
  BY <1>1, HeldInit, FS_EmptySet DEF OwnedInv

LEMMA OwnedStep == OwnedInv /\ [Next]_vars => OwnedInv'
<1> SUFFICES ASSUME OwnedInv, [Next]_vars PROVE OwnedInv'
  OBVIOUS
<1>0. IInv /\ IInv' /\ IsFiniteSet(holds)
  BY TypeStep, HeldStep DEF OwnedInv, IInv
<1>1. ASSUME NEW c \in Caller, NEW k \in Company, NEW cost \in 1..Dearest,
             Admit(c, k, cost)
      PROVE OwnedInv'
  <2>1. Running' = Running \cup {c} /\ c \notin Running
    BY <1>0, <1>1 DEF Admit, Running, IInv, TypeOK
  <2>2. \A d \in Running : hold'[d] = hold[d]
    BY <1>0, <1>1, <2>1 DEF Admit, Running, IInv, TypeOK
  <2> DEFINE h == [id |-> NextId, cost |-> cost, at |-> now]
  <2>3. holds' = holds \cup {h} /\ h.id = hold'[c]
    BY <1>0, <1>1 DEF Admit, IInv, TypeOK
  <2> HIDE DEF h
  <2>4. Unowned' \subseteq Unowned
    BY <2>1, <2>2, <2>3 DEF Unowned
  <2>5. IsFiniteSet(holds')
    BY <1>0, <2>3, FS_AddElement
  <2> QED
    BY <1>0, <1>1, <2>4, <2>5, FewerUnowned DEF Admit
<1>2. ASSUME NEW c \in Running, holds' = Settled(hold[c]),
             pc' = [pc EXCEPT ![c] = "idle"], UNCHANGED <<hold, crashes>>
      PROVE OwnedInv'
  <2>1. Running' = Running \ {c}
    BY <1>0, <1>2 DEF Running, IInv, TypeOK
  <2>2. holds' \subseteq holds /\ \A h \in holds' : h.id # hold[c]
    BY <1>2 DEF Settled
  <2>3. Unowned' \subseteq Unowned
    BY <1>2, <2>1, <2>2 DEF Unowned
  <2>4. IsFiniteSet(holds')
    BY <1>0, <2>2, FS_Subset
  <2> QED
    BY <1>0, <1>2, <2>3, <2>4, FewerUnowned
<1>3. ASSUME Running' = Running, UNCHANGED <<hold, holds, crashes>>
      PROVE OwnedInv'
  <2>1. Unowned' \subseteq Unowned
    BY <1>3 DEF Unowned
  <2> QED
    BY <1>0, <1>3, <2>1, FewerUnowned
<1>4. ASSUME NEW c \in Caller, NEW cost \in 1..Dearest, Adjust(c, cost)
      PROVE OwnedInv'
  <2> DEFINE New(h) == IF h.id = hold[c] THEN [h EXCEPT !.cost = cost] ELSE h
  <2>1. Running' = Running /\ hold' = hold /\ c \in Running
    BY <1>0, <1>4 DEF Adjust, Running, IInv, TypeOK
  <2>2. \A h \in holds : New(h) = h \/ New(h).id = hold[c]
    BY <1>0 DEF IInv, TypeOK, Hold
  <2>3. holds' = {New(h) : h \in holds}
    BY <1>4 DEF Adjust
  <2> HIDE DEF New
  <2>4. Unowned' \subseteq Unowned
    BY <2>1, <2>2, <2>3 DEF Unowned
  <2>5. IsFiniteSet(holds')
    <3> DEFINE f == [h \in holds |-> New(h)]
    <3>1. f \in Surjection(holds, holds')
      BY <2>3 DEF Surjection
    <3> HIDE DEF f
    <3> QED
      BY <1>0, <3>1, FS_Surjection
  <2> QED
    BY <1>0, <1>4, <2>4, <2>5, FewerUnowned DEF Adjust
<1>5. ASSUME NEW c \in Caller, Crash(c) PROVE OwnedInv'
  <2>1. Running' = Running \ {c} /\ c \in Running
    BY <1>0, <1>5 DEF Crash, Running, IInv, TypeOK
  <2>2. PICK h \in holds : h.id = hold[c]
    BY <1>0, <2>1 DEF IInv, CallsHeld
  <2>3. Unowned' \subseteq Unowned \cup {h}
    BY <1>0, <1>5, <2>1, <2>2 DEF Crash, Unowned, IInv, TypeOK
  <2>4. IsFiniteSet(Unowned)
    BY <1>0, FS_Subset DEF Unowned
  <2>5. /\ IsFiniteSet(Unowned \cup {h})
        /\ Cardinality(Unowned \cup {h}) <= Cardinality(Unowned) + 1
    <3>1. Cardinality(Unowned) \in Nat
      BY <2>4, FS_CardinalityType
    <3>2. /\ IsFiniteSet(Unowned \cup {h})
          /\ Cardinality(Unowned \cup {h})
               = IF h \in Unowned THEN Cardinality(Unowned)
                 ELSE Cardinality(Unowned) + 1
      BY <2>4, FS_AddElement
    <3> QED
      BY <3>1, <3>2
  <2>6. /\ IsFiniteSet(Unowned')
        /\ Cardinality(Unowned') <= Cardinality(Unowned \cup {h})
    BY <2>3, <2>5, FS_Subset
  <2>7. /\ Cardinality(Unowned) \in Nat /\ Cardinality(Unowned') \in Nat
        /\ Cardinality(Unowned \cup {h}) \in Nat
    BY <2>4, <2>5, <2>6, FS_CardinalityType
  <2>8. crashes' = crashes + 1 /\ holds' = holds /\ crashes \in Nat
    BY <1>0, <1>5 DEF Crash, IInv, TypeOK
  <2>9. Cardinality(Unowned') <= crashes'
    BY <2>5, <2>6, <2>7, <2>8 DEF OwnedInv
  <2> QED
    BY <1>0, <2>8, <2>9 DEF OwnedInv
<1>6. ASSUME NEW c \in Caller, Refuse(c) PROVE OwnedInv'
  BY <1>3, <1>6 DEF Refuse, Running
<1>7. ASSUME NEW c \in Caller, NEW cost \in 1..Dearest, Answer(c, cost)
      PROVE OwnedInv'
  <2>1. c \in Running
    BY <1>7 DEF Answer, Running
  <2> QED
    BY <1>2, <1>7, <2>1 DEF Answer
<1>8. ASSUME NEW c \in Caller, Settle(c) PROVE OwnedInv'
  <2>1. c \in Running
    BY <1>8 DEF Settle, Running
  <2> QED
    BY <1>2, <1>8, <2>1 DEF Settle
<1>9. ASSUME NEW c \in Caller,
             \/ \E k \in Company : Switch(c, k)
             \/ Fail(c) \/ AdjustRefused(c)
      PROVE OwnedInv'
  <2>1. Running' = Running
    BY <1>0, <1>9 DEF Switch, Fail, AdjustRefused, Running, IInv, TypeOK
  <2> QED
    BY <1>3, <1>9, <2>1 DEF Switch, Fail, AdjustRefused
<1>10. CASE Tick
  BY <1>3, <1>10 DEF Tick, Running
<1>11. CASE UNCHANGED vars
  BY <1>3, <1>11 DEF vars, Running
<1> QED
  BY <1>1, <1>4, <1>5, <1>6, <1>7, <1>8, <1>9, <1>10, <1>11 DEF Next

\* Whatever fails, is refused or is rolled back, the holds no running call owns
\* are at most one for each crash.
THEOREM NoHoldLeaks == Spec => []HoldsOwned
<1>1. Init => OwnedInv
  BY OwnedInit
<1>2. OwnedInv /\ [Next]_vars => OwnedInv'
  BY OwnedStep
<1>3. OwnedInv => HoldsOwned
  BY DEF OwnedInv, HoldsOwned, Unowned
<1> QED
  BY <1>1, <1>2, <1>3, PTL DEF Spec

-----------------------------------------------------------------------------
\* What a set of holds comes to.  The sum folds over the holds in an order
\* somebody chose; counted coin by coin it is a cardinality, which has none.
Coins(S) == {coin \in S \X (1..Dearest) : coin[2] <= coin[1].cost}

LEMMA CoinsFinite ==
  ASSUME NEW S, IsFiniteSet(S)
  PROVE  IsFiniteSet(Coins(S)) /\ Cardinality(Coins(S)) \in Nat
<1>1. IsFiniteSet(1..Dearest)
  BY SpendingAssumption, FS_Interval
<1>2. IsFiniteSet(S \X (1..Dearest))
  BY <1>1, FS_Product
<1>3. IsFiniteSet(Coins(S))
  BY <1>2, FS_Subset DEF Coins
<1> QED
  BY <1>3, FS_CardinalityType

LEMMA OneHoldsCoins ==
  ASSUME NEW h \in Hold
  PROVE  Cardinality(Coins({h})) = h.cost
<1> DEFINE pay == [n \in 1..h.cost |-> <<h, n>>]
<1>1. h.cost \in 1..Dearest /\ h.cost \in Nat /\ Dearest \in Nat
  BY SpendingAssumption DEF Hold
<1>2. Coins({h}) = {<<h, n>> : n \in 1..h.cost}
  BY <1>1 DEF Coins
<1>3. pay \in Bijection(1..h.cost, Coins({h}))
  BY <1>2 DEF Bijection, Injection, IsInjective, Surjection
<1>4. ExistsBijection(1..h.cost, Coins({h}))
  BY <1>3 DEF ExistsBijection
<1>5. IsFiniteSet(1..h.cost) /\ Cardinality(1..h.cost) = h.cost
  <2>1. ASSUME NEW n \in Nat \ {0} PROVE IsFiniteSet(1..n) /\ Cardinality(1..n) = n
    <3>1. 1 \in Int /\ n \in Int /\ ~(1 > n) /\ n - 1 + 1 = n
      OBVIOUS
    <3> QED
      BY <3>1, FS_Interval
  <2> QED
    BY <1>1, <2>1
<1> QED
  BY <1>4, <1>5, FS_Bijection

LEMMA CoinsApart ==
  ASSUME NEW S \in SUBSET Hold, IsFiniteSet(S), NEW h \in S
  PROVE  Cardinality(Coins(S)) = h.cost + Cardinality(Coins(S \ {h}))
<1> DEFINE rest == S \ {h}
<1>1. IsFiniteSet(rest) /\ IsFiniteSet({h})
  BY FS_RemoveElement, FS_Singleton
<1>2. Coins(S) = Coins({h}) \cup Coins(rest) /\ Coins({h}) \cap Coins(rest) = {}
  BY DEF Coins
<1>3. /\ IsFiniteSet(Coins({h})) /\ IsFiniteSet(Coins(rest))
      /\ Cardinality(Coins({h})) \in Nat /\ Cardinality(Coins(rest)) \in Nat
  BY <1>1, CoinsFinite
<1>4. Cardinality(Coins(S))
        = Cardinality(Coins({h})) + Cardinality(Coins(rest)) - Cardinality({})
  BY <1>2, <1>3, FS_Union
<1>5. Cardinality({}) = 0
  BY FS_EmptySet
<1> QED
  BY <1>3, <1>4, <1>5, OneHoldsCoins

\* The equation of the fold, and the one function that solves it.
Sums(S, sum) ==
  sum = [T \in SUBSET S |-> IF T = {} THEN 0
           ELSE LET h == CHOOSE h \in T : TRUE IN h.cost + sum[T \ {h}]]

LEMMA CoinsSum ==
  ASSUME NEW S \in SUBSET Hold, IsFiniteSet(S)
  PROVE  \E sum : Sums(S, sum)
<1> DEFINE count == [T \in SUBSET S |-> Cardinality(Coins(T))]
<1>1. ASSUME NEW T \in SUBSET S
      PROVE  count[T] = IF T = {} THEN 0
               ELSE LET h == CHOOSE h \in T : TRUE IN h.cost + count[T \ {h}]
  <2>1. CASE T = {}
    <3>1. Coins(T) = {}
      BY <2>1 DEF Coins
    <3> QED
      BY <2>1, <3>1, FS_EmptySet
  <2>2. CASE T # {}
    <3> DEFINE h == CHOOSE h \in T : TRUE
    <3>1. h \in T /\ T \in SUBSET Hold /\ IsFiniteSet(T) /\ T \ {h} \in SUBSET S
      BY <2>2, FS_Subset
    <3> HIDE DEF h
    <3>2. count[T] = h.cost + count[T \ {h}]
      BY <3>1, CoinsApart
    <3> QED
      BY <2>2, <3>2 DEF h
  <2> QED
    BY <2>1, <2>2
<1>2. Sums(S, count)
  <2> DEFINE step(T) == IF T = {} THEN 0
               ELSE LET h == CHOOSE h \in T : TRUE IN h.cost + count[T \ {h}]
  <2>1. \A T \in SUBSET S : count[T] = step(T)
    BY <1>1
  <2>2. count = [T \in SUBSET S |-> count[T]]
    OBVIOUS
  <2> HIDE DEF count, step
  <2>3. count = [T \in SUBSET S |-> step(T)]
    BY <2>1, <2>2
  <2> QED
    BY <2>3 DEF Sums, step
<1> QED
  BY <1>2

LEMMA SumCoins ==
  ASSUME NEW S \in SUBSET Hold, IsFiniteSet(S), NEW sum, Sums(S, sum)
  PROVE  sum[S] = Cardinality(Coins(S))
<1> DEFINE wrong == {T \in FiniteSubsetsOf(S) : sum[T] # Cardinality(Coins(T))}
<1>1. SUFFICES ASSUME wrong # {} PROVE FALSE
  BY DEF FiniteSubsetsOf
<1>2. PICK T \in wrong : \A U \in wrong : <<U, T>> \notin StrictSubsetOrdering(S)
  <2>1. IsWellFoundedOn(StrictSubsetOrdering(S), FiniteSubsetsOf(S))
    BY FS_StrictSubsetOrderingWellFounded
  <2>2. wrong \subseteq FiniteSubsetsOf(S)
    OBVIOUS
  <2> HIDE DEF wrong
  <2> QED
    BY <1>1, <2>1, <2>2, WFMin
<1>3. T \in SUBSET S /\ IsFiniteSet(T) /\ sum[T] # Cardinality(Coins(T))
  BY DEF FiniteSubsetsOf
<1>4. T # {}
  <2> SUFFICES ASSUME T = {} PROVE FALSE
    OBVIOUS
  <2>1. sum[T] = 0
    BY <1>3 DEF Sums
  <2>2. Coins(T) = {}
    BY DEF Coins
  <2> QED
    BY <1>3, <2>1, <2>2, FS_EmptySet
<1> DEFINE h == CHOOSE h \in T : TRUE
<1>5. h \in T
  BY <1>4
<1>6. sum[T] = h.cost + sum[T \ {h}]
  BY <1>3, <1>4 DEF Sums
<1> HIDE DEF h
<1>7. sum[T \ {h}] = Cardinality(Coins(T \ {h}))
  <2>1. T \ {h} \in FiniteSubsetsOf(S)
    BY <1>3, FS_RemoveElement DEF FiniteSubsetsOf
  <2>2. <<T \ {h}, T>> \in StrictSubsetOrdering(S)
    BY <1>3, <1>5 DEF StrictSubsetOrdering
  <2> QED
    BY <1>2, <2>1, <2>2
<1>8. Cardinality(Coins(T)) = h.cost + Cardinality(Coins(T \ {h}))
  BY <1>3, <1>5, CoinsApart
<1> QED
  BY <1>3, <1>6, <1>7, <1>8

LEMMA TotalIsCoins ==
  ASSUME NEW S \in SUBSET Hold, IsFiniteSet(S)
  PROVE  Total(S) = Cardinality(Coins(S))
<1> DEFINE sum == CHOOSE f : Sums(S, f)
<1>1. Total(S) = sum[S]
  BY DEF Total, MapThenSumSet, MapThenFoldSet, Sums
<1>2. Sums(S, sum)
  BY CoinsSum
<1> HIDE DEF sum
<1> QED
  BY <1>1, <1>2, SumCoins

\* So it is a number, grows with the set, and loses one hold's cost with it.
LEMMA TotalFacts ==
  ASSUME NEW S \in SUBSET Hold, IsFiniteSet(S)
  PROVE  /\ Total(S) \in Nat /\ Total({}) = 0
         /\ \A T \in SUBSET S : Total(T) \in Nat /\ Total(T) <= Total(S)
         /\ \A h \in S : Total(S) = h.cost + Total(S \ {h})
<1>1. Total({}) = 0
  <2>1. Coins({}) = {}
    BY DEF Coins
  <2> QED
    BY <2>1, FS_EmptySet, TotalIsCoins
<1>2. ASSUME NEW T \in SUBSET S PROVE Total(T) \in Nat /\ Total(T) <= Total(S)
  <2>1. IsFiniteSet(T) /\ T \in SUBSET Hold
    BY FS_Subset
  <2>2. IsFiniteSet(Coins(S)) /\ Coins(T) \in SUBSET Coins(S)
    BY CoinsFinite DEF Coins
  <2>3. Cardinality(Coins(T)) <= Cardinality(Coins(S)) /\ Cardinality(Coins(T)) \in Nat
    BY <2>1, <2>2, FS_Subset, CoinsFinite
  <2> QED
    BY <2>1, <2>3, TotalIsCoins
<1>3. ASSUME NEW h \in S PROVE Total(S) = h.cost + Total(S \ {h})
  <2>1. IsFiniteSet(S \ {h}) /\ S \ {h} \in SUBSET Hold
    BY FS_RemoveElement
  <2> QED
    BY <2>1, CoinsApart, TotalIsCoins
<1> QED
  BY <1>1, <1>2, <1>3

-----------------------------------------------------------------------------
\* The limit is passed by less than one call.
Mine == {h \in holds : h.at >= DayStart /\ \E c \in Running : h.id = hold[c]}

SpentInv == OwnedInv /\ OneCrosses

LEMMA MineFacts ==
  ASSUME OwnedInv
  PROVE  /\ Mine \in SUBSET Hold /\ IsFiniteSet(Mine) /\ Total(Mine) \in Nat
         /\ \A T \in SUBSET Mine : Total(T) \in Nat /\ Total(T) <= Total(Mine)
         /\ \A h \in Mine : Total(Mine) = h.cost + Total(Mine \ {h})
         /\ \A other : \A T \in SUBSET Counted(other) :
              Total(T) \in Nat /\ Total(Counted(other)) \in Nat
              /\ Total(T) <= Total(Counted(other))
<1>1. holds \in SUBSET Hold /\ IsFiniteSet(holds)
  BY DEF OwnedInv, IInv, TypeOK
<1>2. Mine \in SUBSET holds
  BY DEF Mine
<1>3. Mine \in SUBSET Hold /\ IsFiniteSet(Mine)
  BY <1>1, <1>2, FS_Subset
<1>4. ASSUME NEW other
      PROVE  Counted(other) \in SUBSET Hold /\ IsFiniteSet(Counted(other))
  <2>1. Counted(other) \in SUBSET holds
    BY DEF Counted
  <2> QED
    BY <1>1, <2>1, FS_Subset
<1> QED
  BY <1>3, <1>4, TotalFacts

\* A running call's hold of today is one that admit counts.
LEMMA MineCounted ==
  ASSUME OwnedInv, NEW other, NEW h \in Mine, h.id # other
  PROVE  h \in Counted(other)
<1>1. h \in holds /\ h.at >= DayStart /\ h.at \in Nat
  BY DEF Mine, OwnedInv, IInv, TypeOK, Hold
<1>2. h.at >= now - HoldTime
  <2>1. PICK c \in Running : h.id = hold[c]
    BY DEF Mine
  <2>2. now <= h.at + Longest
    BY <1>1, <2>1 DEF OwnedInv, IInv, CallsHeld, TypeOK
  <2> QED
    BY <1>1, <2>2, SpendingAssumption, HoldOutlasts DEF OwnedInv, IInv, TypeOK
<1> QED
  BY <1>1, <1>2 DEF Counted, Later

LEMMA FewerMine ==
  ASSUME SpentInv, OwnedInv', Mine' \in SUBSET Mine, UNCHANGED <<spent, carried>>
  PROVE  OneCrosses'
<1>1. Total(Mine') \in Nat /\ Total(Mine) \in Nat /\ Total(Mine') <= Total(Mine)
  BY MineFacts DEF SpentInv
<1>2. spent - carried + Total(Mine) < Limit + Dearest
  BY DEF SpentInv, OneCrosses, Mine
<1>3. spent - carried + Total(Mine') < Limit + Dearest
  BY <1>1, <1>2, SpendingAssumption DEF SpentInv, OwnedInv, IInv, TypeOK
<1> QED
  BY <1>3 DEF OneCrosses, Mine

LEMMA AdmitCrosses ==
  ASSUME SpentInv, OwnedInv', NEW c \in Caller, NEW k \in Company, NEW cost \in 1..Dearest,
         Admit(c, k, cost)
  PROVE  OneCrosses'
<1> DEFINE h == [id |-> NextId, cost |-> cost, at |-> now]
<1>1. /\ holds' = holds \cup {h} /\ hold' = [hold EXCEPT ![c] = h.id]
      /\ pc' = [pc EXCEPT ![c] = "first"] /\ pc[c] = "idle"
      /\ UNCHANGED <<now, spent, carried>> /\ spent + Total(Counted(0)) < Limit
  BY DEF Admit, Used
<1>2. h.cost = cost /\ h.at = now /\ h.id = last + 1
  BY DEF NextId
<1> HIDE DEF h
<1>3. \A g \in holds : g.id <= last /\ g.id \in Nat \ {0}
  BY DEF SpentInv, OwnedInv, IInv, TypeOK, Hold
<1>4. Mine' \ {h} \subseteq Mine
  <2> SUFFICES ASSUME NEW g \in Mine', g # h PROVE g \in Mine
    OBVIOUS
  <2>1. g \in holds /\ g.at >= DayStart
    BY <1>1 DEF Mine, DayStart
  <2>2. PICK d \in Running' : g.id = hold'[d]
    BY DEF Mine
  <2>3. d # c
    BY <1>1, <1>2, <1>3, <2>1, <2>2 DEF SpentInv, OwnedInv, IInv, TypeOK
  <2>4. d \in Running /\ g.id = hold[d]
    BY <1>1, <2>2, <2>3 DEF Running, SpentInv, OwnedInv, IInv, TypeOK
  <2> QED
    BY <2>1, <2>4 DEF Mine
<1>5. Mine' \ {h} \in SUBSET Counted(0)
  BY <1>3, <1>4, MineCounted DEF SpentInv, Mine
<1>6. /\ Total(Mine' \ {h}) \in Nat /\ Total(Counted(0)) \in Nat
      /\ Total(Mine' \ {h}) <= Total(Counted(0))
  BY <1>5, MineFacts DEF SpentInv
<1>7. Total(Mine') \in Nat /\ Total(Mine') <= cost + Total(Mine' \ {h})
  <2>1. IsFiniteSet(Mine') /\ Mine' \in SUBSET Hold /\ Total(Mine') \in Nat
    <3>1. Mine' \in SUBSET holds' /\ holds' \in SUBSET Hold /\ IsFiniteSet(holds')
      BY DEF Mine, OwnedInv, IInv, TypeOK
    <3>2. Mine' \in SUBSET Hold /\ IsFiniteSet(Mine')
      BY <3>1, FS_Subset
    <3> QED
      BY <3>2, TotalFacts
  <2>2. CASE h \in Mine'
    BY <1>2, <1>6, <2>1, <2>2, TotalFacts
  <2>3. CASE h \notin Mine'
    <3>1. Mine' \ {h} = Mine'
      BY <2>3
    <3> QED
      BY <1>6, <2>1, <3>1
  <2> QED
    BY <2>2, <2>3
<1>8. spent - carried + Total(Mine') < Limit + Dearest
  BY <1>1, <1>6, <1>7, SpendingAssumption DEF SpentInv, OwnedInv, IInv, TypeOK
<1> QED
  BY <1>1, <1>8 DEF OneCrosses, Mine

LEMMA AdjustCrosses ==
  ASSUME SpentInv, OwnedInv', NEW c \in Caller, NEW cost \in 1..Dearest, Adjust(c, cost)
  PROVE  OneCrosses'
<1> DEFINE New(h) == IF h.id = hold[c] THEN [h EXCEPT !.cost = cost] ELSE h
<1>1. /\ pc' = [pc EXCEPT ![c] = "second"] /\ pc[c] = "spare"
      /\ UNCHANGED <<now, hold, spent, carried>> /\ spent + Total(Counted(hold[c])) < Limit
      /\ holds' = {New(h) : h \in holds}
  BY DEF Adjust, Used
<1>2. Running' = Running /\ c \in Running
  BY <1>1 DEF Running, SpentInv, OwnedInv, IInv, TypeOK
<1>3. PICK h \in holds : h.id = hold[c]
  BY <1>2 DEF SpentInv, OwnedInv, IInv, CallsHeld
<1> DEFINE g == New(h)
<1>4. /\ \A x \in holds : x # h => New(x) = x /\ x.id # hold[c]
      /\ g.cost = cost /\ g.id = h.id /\ g.at = h.at
  BY <1>3 DEF SpentInv, OwnedInv, IInv, TypeOK, Hold
<1>5. holds' = (holds \ {h}) \cup {g}
  BY <1>1, <1>4
<1> HIDE DEF New, g
<1>6. \A x \in Mine' : x = g \/ (x \in Mine /\ x.id # hold[c])
  <2> SUFFICES ASSUME NEW x \in Mine', x # g PROVE x \in Mine /\ x.id # hold[c]
    OBVIOUS
  <2>1. x \in holds /\ x # h
    BY <1>5 DEF Mine
  <2> QED
    BY <1>1, <1>2, <1>4, <2>1 DEF Mine, DayStart
<1>7. Mine' \ {g} \in SUBSET Counted(hold[c])
  BY <1>6, MineCounted DEF SpentInv
<1>8. /\ Total(Mine' \ {g}) \in Nat /\ Total(Counted(hold[c])) \in Nat
      /\ Total(Mine' \ {g}) <= Total(Counted(hold[c]))
  BY <1>7, MineFacts DEF SpentInv
<1>9. Total(Mine') \in Nat /\ Total(Mine') <= cost + Total(Mine' \ {g})
  <2>1. IsFiniteSet(Mine') /\ Mine' \in SUBSET Hold /\ Total(Mine') \in Nat
    <3>1. Mine' \in SUBSET holds' /\ holds' \in SUBSET Hold /\ IsFiniteSet(holds')
      BY DEF Mine, OwnedInv, IInv, TypeOK
    <3>2. Mine' \in SUBSET Hold /\ IsFiniteSet(Mine')
      BY <3>1, FS_Subset
    <3> QED
      BY <3>2, TotalFacts
  <2>2. CASE g \in Mine'
    BY <1>4, <1>8, <2>1, <2>2, TotalFacts
  <2>3. CASE g \notin Mine'
    <3>1. Mine' \ {g} = Mine'
      BY <2>3
    <3> QED
      BY <1>8, <2>1, <3>1
  <2> QED
    BY <2>2, <2>3
<1>10. spent - carried + Total(Mine') < Limit + Dearest
  BY <1>1, <1>8, <1>9, SpendingAssumption DEF SpentInv, OwnedInv, IInv, TypeOK
<1> QED
  BY <1>1, <1>10 DEF OneCrosses, Mine

\* What a call cost takes the place of what it held, or counts for yesterday.
LEMMA AnswerCrosses ==
  ASSUME SpentInv, OwnedInv', NEW c \in Caller, NEW cost \in 1..Dearest, Answer(c, cost)
  PROVE  OneCrosses'
<1>1. /\ pc' = [pc EXCEPT ![c] = "idle"] /\ c \in Running
      /\ UNCHANGED <<now, hold>> /\ spent' = spent + cost
      /\ holds' = Settled(hold[c])
      /\ \A h \in holds : h.id = hold[c] => cost <= h.cost
  BY DEF Answer, Running
<1>2. Running' = Running \ {c}
  BY <1>1 DEF Running, SpentInv, OwnedInv, IInv, TypeOK
<1>3. PICK h \in holds : h.id = hold[c]
  BY <1>1 DEF SpentInv, OwnedInv, IInv, CallsHeld
<1>4. \A g \in holds : g.id = hold[c] => g = h
  BY <1>3 DEF SpentInv, OwnedInv, IInv, TypeOK
<1>5. Mine' \subseteq Mine \ {h}
  BY <1>1, <1>2, <1>3 DEF Mine, Settled, DayStart
<1>6. spent - carried + Total(Mine) < Limit + Dearest
  BY DEF SpentInv, OneCrosses, Mine
<1>7. /\ spent \in Nat /\ carried \in Nat /\ Limit \in Nat /\ Dearest \in Nat /\ cost \in Nat
      /\ h.cost \in Nat /\ h.at \in Nat /\ DayStart \in Int /\ cost <= h.cost
  <2>1. DayStart \in Int
    BY SpendingAssumption DEF DayStart, SpentInv, OwnedInv, IInv, TypeOK
  <2> QED
    BY <1>1, <1>3, <2>1, SpendingAssumption DEF SpentInv, OwnedInv, IInv, TypeOK, Hold
<1>8. spent' - carried' + Total(Mine') < Limit + Dearest
  <2>1. CASE h.at >= DayStart
    <3>1. carried' = carried
      BY <1>4, <1>7, <2>1 DEF Answer
    <3>2. h \in Mine
      BY <1>1, <1>3, <2>1 DEF Mine
    <3>3. Total(Mine) = h.cost + Total(Mine \ {h})
      BY <3>2, MineFacts DEF SpentInv
    <3>4. /\ Total(Mine') \in Nat /\ Total(Mine \ {h}) \in Nat
          /\ Total(Mine') <= Total(Mine \ {h})
      <4>1. Mine \ {h} \in SUBSET Hold /\ IsFiniteSet(Mine \ {h})
        BY MineFacts, FS_RemoveElement DEF SpentInv
      <4> QED
        BY <1>5, <4>1, TotalFacts
    <3> QED
      BY <1>1, <1>6, <1>7, <3>1, <3>3, <3>4
  <2>2. CASE h.at < DayStart
    <3>1. carried' = carried + cost
      BY <1>3, <2>2 DEF Answer
    <3>2. Total(Mine') \in Nat /\ Total(Mine) \in Nat /\ Total(Mine') <= Total(Mine)
      BY <1>5, MineFacts DEF SpentInv
    <3> QED
      BY <1>1, <1>6, <1>7, <3>1, <3>2
  <2> QED
    BY <1>7, <2>1, <2>2
<1> QED
  BY <1>8 DEF OneCrosses, Mine

LEMMA DayGoesOn ==
  ASSUME NEW n \in Nat
  PROVE  n - (n % Day) <= (n + 1) - ((n + 1) % Day)
<1> DEFINE q == n \div Day
           p == (n + 1) \div Day
<1>1. /\ q \in Int /\ n = Day * q + (n % Day) /\ n % Day \in 0..(Day - 1)
      /\ p \in Int /\ n + 1 = Day * p + ((n + 1) % Day) /\ (n + 1) % Day \in 0..(Day - 1)
  BY SpendingAssumption
<1> HIDE DEF q, p
<1>2. q <= p
  <2> SUFFICES ASSUME p + 1 <= q PROVE FALSE
    BY <1>1
  <2>1. Day * (p + 1) <= Day * q
    BY <1>1, SpendingAssumption
  <2>2. Day * (p + 1) = Day * p + Day
    BY <1>1, SpendingAssumption
  <2> QED
    BY <1>1, <2>1, <2>2, SpendingAssumption
<1>3. Day * q <= Day * p
  BY <1>1, <1>2, SpendingAssumption
<1>4. n - (n % Day) = Day * q /\ (n + 1) - ((n + 1) % Day) = Day * p
  <2>1. ASSUME NEW a \in Int, NEW b \in Int, NEW x, x = a + b PROVE x - b = a
    BY <2>1
  <2>2. Day * q \in Int /\ Day * p \in Int /\ n % Day \in Int /\ (n + 1) % Day \in Int
    BY <1>1, SpendingAssumption
  <2> QED
    BY <1>1, <2>1, <2>2
<1> QED
  BY <1>3, <1>4

\* At midnight no hold is of today yet, and no call of today recorded.
LEMMA TickCrosses ==
  ASSUME SpentInv, OwnedInv', Tick
  PROVE  OneCrosses'
<1>1. /\ now \in Nat /\ now' = now + 1 /\ UNCHANGED <<holds, pc, hold>>
      /\ \A h \in holds : h.at \in Nat /\ h.at <= now
      /\ DayStart' \in Int
  BY SpendingAssumption DEF Tick, SpentInv, OwnedInv, IInv, TypeOK, Hold, DayStart
<1>2. CASE now' % Day = 0
  <2>1. spent' = 0 /\ carried' = 0 /\ DayStart' = now'
    BY <1>1, <1>2 DEF Tick, DayStart
  <2>2. Mine' = {}
    BY <1>1, <2>1 DEF Mine
  <2>3. Total({}) = 0
    BY MineFacts, TotalFacts DEF SpentInv
  <2>4. spent' - carried' + Total(Mine') < Limit + Dearest
    BY <2>1, <2>2, <2>3, SpendingAssumption
  <2> QED
    BY <2>4 DEF OneCrosses, Mine
<1>3. CASE now' % Day # 0
  <2>1. DayStart <= DayStart' /\ DayStart \in Int
    <3>1. now - (now % Day) <= (now + 1) - ((now + 1) % Day)
      BY <1>1, DayGoesOn
    <3>2. DayStart = now - (now % Day) /\ DayStart' = (now + 1) - ((now + 1) % Day)
      BY <1>1 DEF DayStart
    <3> QED
      BY <1>1, <3>1, <3>2, SpendingAssumption
  <2>2. Mine' \in SUBSET Mine
    BY <1>1, <2>1 DEF Mine, Running
  <2> QED
    BY <1>3, <2>2, FewerMine DEF Tick
<1> QED
  BY <1>2, <1>3

LEMMA SpentStep == SpentInv /\ [Next]_vars => SpentInv'
<1> SUFFICES ASSUME SpentInv, [Next]_vars PROVE OneCrosses'
  BY OwnedStep DEF SpentInv
<1>1. OwnedInv' /\ OwnedInv
  BY OwnedStep DEF SpentInv
<1>2. ASSUME UNCHANGED <<now, hold, spent, carried>>,
             holds' \subseteq holds, Running' \subseteq Running
      PROVE OneCrosses'
  <2>1. Mine' \in SUBSET Mine
    BY <1>2 DEF Mine, DayStart
  <2> QED
    BY <1>1, <1>2, <2>1, FewerMine
<1>3. ASSUME NEW c \in Caller, NEW spot \in {"idle", "failed", "spare"},
             pc' = [pc EXCEPT ![c] = spot], spot = "idle" \/ pc[c] # "idle",
             UNCHANGED <<now, hold, spent, carried>>, holds' \subseteq holds
      PROVE  OneCrosses'
  <2>1. Running' \subseteq Running
    BY <1>1, <1>3 DEF Running, OwnedInv, IInv, TypeOK
  <2> QED
    BY <1>2, <1>3, <2>1
<1>4. ASSUME NEW c \in Caller, Settle(c) PROVE OneCrosses'
  BY <1>3, <1>4 DEF Settle, Settled
<1>5. ASSUME NEW c \in Caller, Crash(c) PROVE OneCrosses'
  BY <1>3, <1>5 DEF Crash
<1>6. ASSUME NEW c \in Caller, Fail(c) \/ AdjustRefused(c) PROVE OneCrosses'
  BY <1>3, <1>6 DEF Fail, AdjustRefused
<1>7. ASSUME NEW c \in Caller, NEW k \in Company, Switch(c, k) PROVE OneCrosses'
  BY <1>3, <1>7 DEF Switch
<1>8. ASSUME NEW c \in Caller, Refuse(c) PROVE OneCrosses'
  BY <1>2, <1>8 DEF Refuse, Running
<1>9. CASE UNCHANGED vars
  BY <1>2, <1>9 DEF vars, Running
<1>10. CASE Tick
  BY <1>1, <1>10, TickCrosses
<1> QED
  BY <1>1, <1>4, <1>5, <1>6, <1>7, <1>8, <1>9, <1>10, AdmitCrosses, AdjustCrosses, AnswerCrosses
  DEF Next

\* Threads and processes that share nothing but the database pass the day's limit
\* by less than one call, however they interleave, switch to a spare and die
\* (agent/spending.py admit and adjust count what is held before they hold more).
THEOREM OneCrossesAlways == Spec => []OneCrosses
<1>1. Init => SpentInv
  <2> SUFFICES ASSUME Init PROVE SpentInv
    OBVIOUS
  <2>1. Mine = {} /\ spent = 0 /\ carried = 0
    BY DEF Init, Mine
  <2>2. OwnedInv
    BY OwnedInit
  <2>3. Total({}) = 0
    BY <2>2, TotalFacts DEF OwnedInv, IInv, TypeOK
  <2>4. spent - carried + Total(Mine) < Limit + Dearest
    BY <2>1, <2>3, SpendingAssumption
  <2> QED
    BY <2>2, <2>4 DEF SpentInv, OneCrosses, Mine
<1>2. SpentInv /\ [Next]_vars => SpentInv'
  BY SpentStep
<1>3. SpentInv => OneCrosses
  BY DEF SpentInv
<1> QED
  BY <1>1, <1>2, <1>3, PTL DEF Spec
=============================================================================
