---------------------------- MODULE OutboxProofs ----------------------------
(***************************************************************************)
(* What holds of Outbox for any number of messages, replies and workers,   *)
(* and any number of lost answers and stops of the service.                *)
(***************************************************************************)
EXTENDS Outbox, TLAPS

USE DEF Nothing, Nobody, Out

LEMMA TypeInit == Init => TypeOK
  BY OutboxAssumption DEF Init, TypeOK, Places, Stages

LEMMA CountOne ==
  ASSUME NEW f \in [Out -> Nat], NEW o
  PROVE  [f EXCEPT ![o] = @ + 1] \in [Out -> Nat]
<1>1. \A p \in Out : f[p] + 1 \in Nat
  OBVIOUS
<1>2. CASE o \in Out
  BY <1>1, <1>2
<1>3. CASE o \notin Out
  BY <1>3
<1> QED
  BY <1>2, <1>3

LEMMA TypeNext == TypeOK /\ [Next]_vars => TypeOK'
<1> SUFFICES ASSUME TypeOK, [Next]_vars
             PROVE  TypeOK'
  OBVIOUS
<1> USE OutboxAssumption DEF TypeOK, db, where, heard, At, Places, Leased, Stages
<1>1. ASSUME NEW S \in SUBSET Own, Queue(S)
      PROVE  TypeOK'
  BY <1>1 DEF Queue, Start
<1>2. ASSUME NEW o \in Own, Hold(o)
      PROVE  TypeOK'
  BY <1>2 DEF Hold
<1>3. ASSUME TakeDue
      PROVE  TypeOK'
  BY <1>3 DEF TakeDue, Start
<1>4. ASSUME TakeHeld
      PROVE  TypeOK'
  BY <1>4 DEF TakeHeld
<1>5. ASSUME FailTurn
      PROVE  TypeOK'
  BY <1>5 DEF FailTurn
<1>6. ASSUME NEW a \in Reply, Commit(a)
      PROVE  TypeOK'
  BY <1>6 DEF Commit
<1>7. ASSUME Done
      PROVE  TypeOK'
  BY <1>7 DEF Done, Start
<1>8. ASSUME NEW w \in Worker, Sweep(w)
      PROVE  TypeOK'
  BY <1>8 DEF Sweep, Start, Undelivered
<1>9. ASSUME NEW w \in Worker, NEW o \in Out, Skip(w, o)
      PROVE  TypeOK'
  BY <1>9 DEF Skip
<1>10. ASSUME NEW w \in Worker, NEW o \in Out, Deliver(w, o)
      PROVE  TypeOK'
  BY <1>10 DEF Deliver
<1>11. ASSUME NEW w \in Worker, AllGone(w)
      PROVE  TypeOK'
  BY <1>11 DEF AllGone
<1>12. ASSUME NEW w \in Worker, Refused(w)
      PROVE  TypeOK'
  BY <1>12 DEF Refused, Back
<1>13. ASSUME NEW w \in Worker, WinLease(w)
      PROVE  TypeOK'
  BY <1>13 DEF WinLease, Free
<1>14. ASSUME NEW w \in Worker, Check(w)
      PROVE  TypeOK'
  BY <1>14 DEF Check, Undelivered
<1>15. ASSUME NEW w \in Worker, Send(w)
      PROVE  TypeOK'
  <2>1. sent' \in [Out -> Nat]
    BY ONLY <1>15, CountOne, TypeOK DEF Send, TypeOK
  <2> QED
    BY <1>15, <2>1 DEF Send
<1>16. ASSUME NEW w \in Worker, SendFails(w)
      PROVE  TypeOK'
  BY <1>16 DEF SendFails
<1>17. ASSUME NEW w \in Worker, AnswerLost(w)
      PROVE  TypeOK'
  <2>1. sent' \in [Out -> Nat]
    BY ONLY <1>17, CountOne, TypeOK DEF AnswerLost, TypeOK
  <2> QED
    BY <1>17, <2>1 DEF AnswerLost
<1>18. ASSUME NEW w \in Worker, MarkDelivered(w)
      PROVE  TypeOK'
  BY <1>18 DEF MarkDelivered
<1>19. ASSUME NEW w \in Worker, MarkRefused(w)
      PROVE  TypeOK'
  BY <1>19 DEF MarkRefused
<1>20. ASSUME NEW w \in Worker, LetGo(w)
      PROVE  TypeOK'
  BY <1>20 DEF LetGo, Back
<1>21. ASSUME NEW o \in Out, HoldOver(o)
      PROVE  TypeOK'
  BY <1>21 DEF HoldOver
<1>22. ASSUME NEW o \in Out, Lapse(o)
      PROVE  TypeOK'
  BY <1>22 DEF Lapse
<1>23. ASSUME NEW o \in Out, Edit(o)
      PROVE  TypeOK'
  BY <1>23 DEF Edit
<1>24. ASSUME CancelUnsent
      PROVE  TypeOK'
  BY <1>24 DEF CancelUnsent, Undelivered
<1>25. ASSUME Crash
      PROVE  TypeOK'
  BY <1>25 DEF Crash
<1>26. CASE UNCHANGED vars
  BY <1>26 DEF vars
<1> QED
  BY <1>1, <1>2, <1>3, <1>4, <1>5, <1>6, <1>7, <1>8, <1>9, <1>10, <1>11,
     <1>12, <1>13, <1>14, <1>15, <1>16, <1>17, <1>18, <1>19, <1>20, <1>21,
     <1>22, <1>23, <1>24, <1>25, <1>26
  DEF Next, HandOver, Turn, DeliverStep

\* The outbox keeps its types, and only a turn under way has taken what is held.
THEOREM TypeCorrect == Spec => []TypeOK
<1> QED
  BY TypeInit, TypeNext, PTL DEF Spec

-----------------------------------------------------------------------------
\* What makes a message safe to send while no claim lapses under its worker:
\* a worker between winning a lease and letting it go has the live claim of
\* its message, so nobody else is sending it, and what it read stays true.

AtWork == \A w \in Worker : pc[w] \in Leased \cup {"lease"} => job[w] \in Out

Owns == \A w \in Worker :
  pc[w] \in Leased => claim[job[w]] = w /\ live[job[w]]

LEMMA AtWorkInit == Init => AtWork /\ Owns
  BY DEF Init, AtWork, Owns, Leased

LEMMA AtWorkNext == TypeOK /\ AtWork /\ [Next]_vars => AtWork'
<1> SUFFICES ASSUME TypeOK, AtWork, [Next]_vars
             PROVE  AtWork'
  OBVIOUS
<1> USE OutboxAssumption DEF TypeOK, AtWork, where, At, Leased
<1>1. ASSUME NEW S \in SUBSET Own, Queue(S)
      PROVE  AtWork'
  BY <1>1 DEF Queue, Start, db, heard
<1>2. ASSUME NEW o \in Own, Hold(o)
      PROVE  AtWork'
  BY <1>2 DEF Hold, db, heard
<1>3. ASSUME TakeDue
      PROVE  AtWork'
  BY <1>3 DEF TakeDue, Start, db, heard
<1>4. ASSUME TakeHeld
      PROVE  AtWork'
  BY <1>4 DEF TakeHeld, db, heard
<1>5. ASSUME FailTurn
      PROVE  AtWork'
  BY <1>5 DEF FailTurn, db, heard
<1>6. ASSUME NEW a \in Reply, Commit(a)
      PROVE  AtWork'
  BY <1>6 DEF Commit, db, heard
<1>7. ASSUME Done
      PROVE  AtWork'
  BY <1>7 DEF Done, Start, db, heard
<1>8. ASSUME NEW w \in Worker, Sweep(w)
      PROVE  AtWork'
  BY <1>8 DEF Sweep, Start, Undelivered, db, heard
<1>9. ASSUME NEW w \in Worker, NEW o \in Out, Skip(w, o)
      PROVE  AtWork'
  BY <1>9 DEF Skip, db, heard
<1>10. ASSUME NEW w \in Worker, NEW o \in Out, Deliver(w, o)
      PROVE  AtWork'
  BY <1>10 DEF Deliver, db, heard
<1>11. ASSUME NEW w \in Worker, AllGone(w)
      PROVE  AtWork'
  BY <1>11 DEF AllGone, db, heard
<1>12. ASSUME NEW w \in Worker, Refused(w)
      PROVE  AtWork'
  BY <1>12 DEF Refused, Back, db, heard
<1>13. ASSUME NEW w \in Worker, WinLease(w)
      PROVE  AtWork'
  BY <1>13 DEF WinLease, Free, db, heard
<1>14. ASSUME NEW w \in Worker, Check(w)
      PROVE  AtWork'
  BY <1>14 DEF Check, Undelivered, db, heard
<1>15. ASSUME NEW w \in Worker, Send(w)
      PROVE  AtWork'
  BY <1>15 DEF Send, db, heard
<1>16. ASSUME NEW w \in Worker, SendFails(w)
      PROVE  AtWork'
  BY <1>16 DEF SendFails, db, heard
<1>17. ASSUME NEW w \in Worker, AnswerLost(w)
      PROVE  AtWork'
  BY <1>17 DEF AnswerLost, db, heard
<1>18. ASSUME NEW w \in Worker, MarkDelivered(w)
      PROVE  AtWork'
  BY <1>18 DEF MarkDelivered, db, heard
<1>19. ASSUME NEW w \in Worker, MarkRefused(w)
      PROVE  AtWork'
  BY <1>19 DEF MarkRefused, db, heard
<1>20. ASSUME NEW w \in Worker, LetGo(w)
      PROVE  AtWork'
  BY <1>20 DEF LetGo, Back, db, heard
<1>21. ASSUME NEW o \in Out, HoldOver(o)
      PROVE  AtWork'
  BY <1>21 DEF HoldOver, db, heard
<1>22. ASSUME NEW o \in Out, Lapse(o)
      PROVE  AtWork'
  BY <1>22 DEF Lapse, db, heard
<1>23. ASSUME NEW o \in Out, Edit(o)
      PROVE  AtWork'
  BY <1>23 DEF Edit, db, heard
<1>24. ASSUME CancelUnsent
      PROVE  AtWork'
  BY <1>24 DEF CancelUnsent, Undelivered, db, heard
<1>25. ASSUME Crash
      PROVE  AtWork'
  BY <1>25 DEF Crash, db, heard
<1>26. CASE UNCHANGED vars
  BY <1>26 DEF vars, db, heard
<1> QED
  BY <1>1, <1>2, <1>3, <1>4, <1>5, <1>6, <1>7, <1>8, <1>9, <1>10, <1>11,
     <1>12, <1>13, <1>14, <1>15, <1>16, <1>17, <1>18, <1>19, <1>20, <1>21,
     <1>22, <1>23, <1>24, <1>25, <1>26
  DEF Next, HandOver, Turn, DeliverStep

LEMMA OwnsNext ==
  ASSUME ~RenewalMayFail, TypeOK, AtWork, Owns, [Next]_vars
  PROVE  Owns'
<1> USE OutboxAssumption
    DEF TypeOK, AtWork, Owns, db, where, heard, At, Leased
<1>1. ASSUME NEW S \in SUBSET Own, Queue(S)
      PROVE  Owns'
  BY <1>1 DEF Queue, Start
<1>2. ASSUME NEW o \in Own, Hold(o)
      PROVE  Owns'
  BY <1>2 DEF Hold
<1>3. ASSUME TakeDue
      PROVE  Owns'
  BY <1>3 DEF TakeDue, Start
<1>4. ASSUME TakeHeld
      PROVE  Owns'
  BY <1>4 DEF TakeHeld
<1>5. ASSUME FailTurn
      PROVE  Owns'
  BY <1>5 DEF FailTurn
<1>6. ASSUME NEW a \in Reply, Commit(a)
      PROVE  Owns'
  BY <1>6 DEF Commit
<1>7. ASSUME Done
      PROVE  Owns'
  BY <1>7 DEF Done, Start
<1>8. ASSUME NEW w \in Worker, Sweep(w)
      PROVE  Owns'
  BY <1>8 DEF Sweep, Start, Undelivered
<1>9. ASSUME NEW w \in Worker, NEW o \in Out, Skip(w, o)
      PROVE  Owns'
  BY <1>9 DEF Skip
<1>10. ASSUME NEW w \in Worker, NEW o \in Out, Deliver(w, o)
      PROVE  Owns'
  BY <1>10 DEF Deliver
<1>11. ASSUME NEW w \in Worker, AllGone(w)
      PROVE  Owns'
  BY <1>11 DEF AllGone
<1>12. ASSUME NEW w \in Worker, Refused(w)
      PROVE  Owns'
  BY <1>12 DEF Refused, Back
<1>13. ASSUME NEW w \in Worker, WinLease(w)
      PROVE  Owns'
  BY <1>13 DEF WinLease, Free
<1>14. ASSUME NEW w \in Worker, Check(w)
      PROVE  Owns'
  BY <1>14 DEF Check, Undelivered
<1>15. ASSUME NEW w \in Worker, Send(w)
      PROVE  Owns'
  BY <1>15 DEF Send
<1>16. ASSUME NEW w \in Worker, SendFails(w)
      PROVE  Owns'
  BY <1>16 DEF SendFails
<1>17. ASSUME NEW w \in Worker, AnswerLost(w)
      PROVE  Owns'
  BY <1>17 DEF AnswerLost
<1>18. ASSUME NEW w \in Worker, MarkDelivered(w)
      PROVE  Owns'
  BY <1>18 DEF MarkDelivered
<1>19. ASSUME NEW w \in Worker, MarkRefused(w)
      PROVE  Owns'
  BY <1>19 DEF MarkRefused
<1>20. ASSUME NEW w \in Worker, LetGo(w)
      PROVE  Owns'
  BY <1>20 DEF LetGo, Back
<1>21. ASSUME NEW o \in Out, HoldOver(o)
      PROVE  Owns'
  BY <1>21 DEF HoldOver
<1>22. ASSUME NEW o \in Out, Lapse(o)
      PROVE  Owns'
  BY <1>22 DEF Lapse
<1>23. ASSUME NEW o \in Out, Edit(o)
      PROVE  Owns'
  BY <1>23 DEF Edit
<1>24. ASSUME CancelUnsent
      PROVE  Owns'
  BY <1>24 DEF CancelUnsent, Undelivered
<1>25. ASSUME Crash
      PROVE  Owns'
  BY <1>25 DEF Crash
<1>26. CASE UNCHANGED vars
  BY <1>26 DEF vars
<1> QED
  BY <1>1, <1>2, <1>3, <1>4, <1>5, <1>6, <1>7, <1>8, <1>9, <1>10, <1>11,
     <1>12, <1>13, <1>14, <1>15, <1>16, <1>17, <1>18, <1>19, <1>20, <1>21,
     <1>22, <1>23, <1>24, <1>25, <1>26
  DEF Next, HandOver, Turn, DeliverStep

-----------------------------------------------------------------------------
\* A mark is made by a worker that has just sent.
MarksWhatItSent == \A w \in Worker : pc[w] = "mark" => sent[job[w]] > 0

LEMMA SaidNext ==
  ASSUME TypeOK, AtWork, MarksWhatItSent, DeliveredWasSaid, [Next]_vars
  PROVE  MarksWhatItSent' /\ DeliveredWasSaid'
<1> USE OutboxAssumption
    DEF TypeOK, AtWork, MarksWhatItSent, DeliveredWasSaid, db, where, heard, At, Leased
<1>1. ASSUME NEW S \in SUBSET Own, Queue(S)
      PROVE  MarksWhatItSent' /\ DeliveredWasSaid'
  BY <1>1 DEF Queue, Start
<1>2. ASSUME NEW o \in Own, Hold(o)
      PROVE  MarksWhatItSent' /\ DeliveredWasSaid'
  BY <1>2 DEF Hold
<1>3. ASSUME TakeDue
      PROVE  MarksWhatItSent' /\ DeliveredWasSaid'
  BY <1>3 DEF TakeDue, Start
<1>4. ASSUME TakeHeld
      PROVE  MarksWhatItSent' /\ DeliveredWasSaid'
  BY <1>4 DEF TakeHeld
<1>5. ASSUME FailTurn
      PROVE  MarksWhatItSent' /\ DeliveredWasSaid'
  BY <1>5 DEF FailTurn
<1>6. ASSUME NEW a \in Reply, Commit(a)
      PROVE  MarksWhatItSent' /\ DeliveredWasSaid'
  BY <1>6 DEF Commit
<1>7. ASSUME Done
      PROVE  MarksWhatItSent' /\ DeliveredWasSaid'
  BY <1>7 DEF Done, Start
<1>8. ASSUME NEW w \in Worker, Sweep(w)
      PROVE  MarksWhatItSent' /\ DeliveredWasSaid'
  BY <1>8 DEF Sweep, Start, Undelivered
<1>9. ASSUME NEW w \in Worker, NEW o \in Out, Skip(w, o)
      PROVE  MarksWhatItSent' /\ DeliveredWasSaid'
  BY <1>9 DEF Skip
<1>10. ASSUME NEW w \in Worker, NEW o \in Out, Deliver(w, o)
      PROVE  MarksWhatItSent' /\ DeliveredWasSaid'
  BY <1>10 DEF Deliver
<1>11. ASSUME NEW w \in Worker, AllGone(w)
      PROVE  MarksWhatItSent' /\ DeliveredWasSaid'
  BY <1>11 DEF AllGone
<1>12. ASSUME NEW w \in Worker, Refused(w)
      PROVE  MarksWhatItSent' /\ DeliveredWasSaid'
  BY <1>12 DEF Refused, Back
<1>13. ASSUME NEW w \in Worker, WinLease(w)
      PROVE  MarksWhatItSent' /\ DeliveredWasSaid'
  BY <1>13 DEF WinLease, Free
<1>14. ASSUME NEW w \in Worker, Check(w)
      PROVE  MarksWhatItSent' /\ DeliveredWasSaid'
  BY <1>14 DEF Check, Undelivered
<1>15. ASSUME NEW w \in Worker, Send(w)
      PROVE  MarksWhatItSent' /\ DeliveredWasSaid'
  BY <1>15 DEF Send
<1>16. ASSUME NEW w \in Worker, SendFails(w)
      PROVE  MarksWhatItSent' /\ DeliveredWasSaid'
  BY <1>16 DEF SendFails
<1>17. ASSUME NEW w \in Worker, AnswerLost(w)
      PROVE  MarksWhatItSent' /\ DeliveredWasSaid'
  BY <1>17 DEF AnswerLost
<1>18. ASSUME NEW w \in Worker, MarkDelivered(w)
      PROVE  MarksWhatItSent' /\ DeliveredWasSaid'
  BY <1>18 DEF MarkDelivered
<1>19. ASSUME NEW w \in Worker, MarkRefused(w)
      PROVE  MarksWhatItSent' /\ DeliveredWasSaid'
  BY <1>19 DEF MarkRefused
<1>20. ASSUME NEW w \in Worker, LetGo(w)
      PROVE  MarksWhatItSent' /\ DeliveredWasSaid'
  BY <1>20 DEF LetGo, Back
<1>21. ASSUME NEW o \in Out, HoldOver(o)
      PROVE  MarksWhatItSent' /\ DeliveredWasSaid'
  BY <1>21 DEF HoldOver
<1>22. ASSUME NEW o \in Out, Lapse(o)
      PROVE  MarksWhatItSent' /\ DeliveredWasSaid'
  BY <1>22 DEF Lapse
<1>23. ASSUME NEW o \in Out, Edit(o)
      PROVE  MarksWhatItSent' /\ DeliveredWasSaid'
  BY <1>23 DEF Edit
<1>24. ASSUME CancelUnsent
      PROVE  MarksWhatItSent' /\ DeliveredWasSaid'
  BY <1>24 DEF CancelUnsent, Undelivered
<1>25. ASSUME Crash
      PROVE  MarksWhatItSent' /\ DeliveredWasSaid'
  BY <1>25 DEF Crash
<1>26. CASE UNCHANGED vars
  BY <1>26 DEF vars
<1> QED
  BY <1>1, <1>2, <1>3, <1>4, <1>5, <1>6, <1>7, <1>8, <1>9, <1>10, <1>11,
     <1>12, <1>13, <1>14, <1>15, <1>16, <1>17, <1>18, <1>19, <1>20, <1>21,
     <1>22, <1>23, <1>24, <1>25, <1>26
  DEF Next, HandOver, Turn, DeliverStep

\* Whatever lapses, is lost or stops, what is marked delivered was said.
THEOREM SaidIfDelivered == Spec => []DeliveredWasSaid
<1>1. Init => MarksWhatItSent /\ DeliveredWasSaid
  BY DEF Init, MarksWhatItSent, DeliveredWasSaid
<1> QED
  BY <1>1, TypeInit, TypeNext, AtWorkInit, AtWorkNext, SaidNext, PTL DEF Spec

-----------------------------------------------------------------------------
\* Before it is marked or about to be, a message went only as often as answers
\* were lost and the service stopped; and what is about to be sent nobody took
\* back.
Spare(o) == sent[o] <= lost + crashes

Counted ==
  /\ \A w \in Worker : pc[w] = "send" => Spare(job[w]) /\ cancelled[job[w]] # "edit"
  /\ \A o \in Out :
       \/ row[o] = "delivered"
       \/ \E w \in Worker : pc[w] = "mark" /\ job[w] = o
       \/ Spare(o)
  /\ SentOnce

LEMMA CountedNext ==
  ASSUME TypeOK, AtWork, Owns, Counted, [Next]_vars
  PROVE  Counted'
<1> USE OutboxAssumption
    DEF TypeOK, AtWork, Owns, Counted, Spare, SentOnce, db, where, heard, At, Leased
<1>1. ASSUME NEW S \in SUBSET Own, Queue(S)
      PROVE  Counted'
  BY <1>1 DEF Queue, Start
<1>2. ASSUME NEW o \in Own, Hold(o)
      PROVE  Counted'
  BY <1>2 DEF Hold
<1>3. ASSUME TakeDue
      PROVE  Counted'
  BY <1>3 DEF TakeDue, Start
<1>4. ASSUME TakeHeld
      PROVE  Counted'
  BY <1>4 DEF TakeHeld
<1>5. ASSUME FailTurn
      PROVE  Counted'
  BY <1>5 DEF FailTurn
<1>6. ASSUME NEW a \in Reply, Commit(a)
      PROVE  Counted'
  BY <1>6 DEF Commit
<1>7. ASSUME Done
      PROVE  Counted'
  BY <1>7 DEF Done, Start
<1>8. ASSUME NEW w \in Worker, Sweep(w)
      PROVE  Counted'
  BY <1>8 DEF Sweep, Start, Undelivered
<1>9. ASSUME NEW w \in Worker, NEW o \in Out, Skip(w, o)
      PROVE  Counted'
  BY <1>9 DEF Skip
<1>10. ASSUME NEW w \in Worker, NEW o \in Out, Deliver(w, o)
      PROVE  Counted'
  BY <1>10 DEF Deliver
<1>11. ASSUME NEW w \in Worker, AllGone(w)
      PROVE  Counted'
  BY <1>11 DEF AllGone
<1>12. ASSUME NEW w \in Worker, Refused(w)
      PROVE  Counted'
  BY <1>12 DEF Refused, Back
<1>13. ASSUME NEW w \in Worker, WinLease(w)
      PROVE  Counted'
  BY <1>13 DEF WinLease, Free
<1>14. ASSUME NEW w \in Worker, Check(w)
      PROVE  Counted'
  BY <1>14 DEF Check, Undelivered
<1>15. ASSUME NEW w \in Worker, Send(w)
      PROVE  Counted'
  BY <1>15 DEF Send
<1>16. ASSUME NEW w \in Worker, SendFails(w)
      PROVE  Counted'
  BY <1>16 DEF SendFails
<1>17. ASSUME NEW w \in Worker, AnswerLost(w)
      PROVE  Counted'
  BY <1>17 DEF AnswerLost
<1>18. ASSUME NEW w \in Worker, MarkDelivered(w)
      PROVE  Counted'
  BY <1>18 DEF MarkDelivered
<1>19. ASSUME NEW w \in Worker, MarkRefused(w)
      PROVE  Counted'
  BY <1>19 DEF MarkRefused
<1>20. ASSUME NEW w \in Worker, LetGo(w)
      PROVE  Counted'
  BY <1>20 DEF LetGo, Back
<1>21. ASSUME NEW o \in Out, HoldOver(o)
      PROVE  Counted'
  BY <1>21 DEF HoldOver
<1>22. ASSUME NEW o \in Out, Lapse(o)
      PROVE  Counted'
  BY <1>22 DEF Lapse
<1>23. ASSUME NEW o \in Out, Edit(o)
      PROVE  Counted'
  BY <1>23 DEF Edit
<1>24. ASSUME CancelUnsent
      PROVE  Counted'
  BY <1>24 DEF CancelUnsent, Undelivered
<1>25. ASSUME Crash
      PROVE  Counted'
  BY <1>25 DEF Crash
<1>26. CASE UNCHANGED vars
  BY <1>26 DEF vars
<1> QED
  BY <1>1, <1>2, <1>3, <1>4, <1>5, <1>6, <1>7, <1>8, <1>9, <1>10, <1>11,
     <1>12, <1>13, <1>14, <1>15, <1>16, <1>17, <1>18, <1>19, <1>20, <1>21,
     <1>22, <1>23, <1>24, <1>25, <1>26
  DEF Next, HandOver, Turn, DeliverStep

LEMMA SafeSpec ==
  ASSUME ~RenewalMayFail
  PROVE  Spec => [](TypeOK /\ AtWork /\ Owns /\ Counted)
<1>1. Init => Counted
  BY OutboxAssumption DEF Init, Counted, Spare, SentOnce
<1>2. TypeOK /\ AtWork /\ Owns /\ Counted /\ [Next]_vars
        => (TypeOK /\ AtWork /\ Owns /\ Counted)'
  BY TypeNext, AtWorkNext, OwnsNext, CountedNext
<1> QED
  BY <1>1, <1>2, TypeInit, AtWorkInit, PTL DEF Spec

\* However many sweep the outbox, in how many processes, a message goes by
\* itself once, but for lost answers and stops.
THEOREM GoesOnce ==
  ASSUME ~RenewalMayFail
  PROVE  Spec => []SentOnce
<1>1. TypeOK /\ AtWork /\ Owns /\ Counted => SentOnce
  BY DEF Counted
<1> QED
  BY <1>1, SafeSpec, PTL

-----------------------------------------------------------------------------
\* Nothing is queued twice, so what is taken back and out of the holds stays
\* out of them.
EditedRows == \A o \in Out : cancelled[o] = "edit" => row[o] # "absent"

LEMMA EditedRowsNext == ASSUME TypeOK, AtWork, EditedRows, [Next]_vars PROVE EditedRows'
<1> USE OutboxAssumption
    DEF TypeOK, AtWork, EditedRows, db, where, heard, At, Leased
<1>1. ASSUME NEW S \in SUBSET Own, Queue(S)
      PROVE  EditedRows'
  BY <1>1 DEF Queue, Start
<1>2. ASSUME NEW o \in Own, Hold(o)
      PROVE  EditedRows'
  BY <1>2 DEF Hold
<1>3. ASSUME TakeDue
      PROVE  EditedRows'
  BY <1>3 DEF TakeDue, Start
<1>4. ASSUME TakeHeld
      PROVE  EditedRows'
  BY <1>4 DEF TakeHeld
<1>5. ASSUME FailTurn
      PROVE  EditedRows'
  BY <1>5 DEF FailTurn
<1>6. ASSUME NEW a \in Reply, Commit(a)
      PROVE  EditedRows'
  BY <1>6 DEF Commit
<1>7. ASSUME Done
      PROVE  EditedRows'
  BY <1>7 DEF Done, Start
<1>8. ASSUME NEW w \in Worker, Sweep(w)
      PROVE  EditedRows'
  BY <1>8 DEF Sweep, Start, Undelivered
<1>9. ASSUME NEW w \in Worker, NEW o \in Out, Skip(w, o)
      PROVE  EditedRows'
  BY <1>9 DEF Skip
<1>10. ASSUME NEW w \in Worker, NEW o \in Out, Deliver(w, o)
      PROVE  EditedRows'
  BY <1>10 DEF Deliver
<1>11. ASSUME NEW w \in Worker, AllGone(w)
      PROVE  EditedRows'
  BY <1>11 DEF AllGone
<1>12. ASSUME NEW w \in Worker, Refused(w)
      PROVE  EditedRows'
  BY <1>12 DEF Refused, Back
<1>13. ASSUME NEW w \in Worker, WinLease(w)
      PROVE  EditedRows'
  BY <1>13 DEF WinLease, Free
<1>14. ASSUME NEW w \in Worker, Check(w)
      PROVE  EditedRows'
  BY <1>14 DEF Check, Undelivered
<1>15. ASSUME NEW w \in Worker, Send(w)
      PROVE  EditedRows'
  BY <1>15 DEF Send
<1>16. ASSUME NEW w \in Worker, SendFails(w)
      PROVE  EditedRows'
  BY <1>16 DEF SendFails
<1>17. ASSUME NEW w \in Worker, AnswerLost(w)
      PROVE  EditedRows'
  BY <1>17 DEF AnswerLost
<1>18. ASSUME NEW w \in Worker, MarkDelivered(w)
      PROVE  EditedRows'
  BY <1>18 DEF MarkDelivered
<1>19. ASSUME NEW w \in Worker, MarkRefused(w)
      PROVE  EditedRows'
  BY <1>19 DEF MarkRefused
<1>20. ASSUME NEW w \in Worker, LetGo(w)
      PROVE  EditedRows'
  BY <1>20 DEF LetGo, Back
<1>21. ASSUME NEW o \in Out, HoldOver(o)
      PROVE  EditedRows'
  BY <1>21 DEF HoldOver
<1>22. ASSUME NEW o \in Out, Lapse(o)
      PROVE  EditedRows'
  BY <1>22 DEF Lapse
<1>23. ASSUME NEW o \in Out, Edit(o)
      PROVE  EditedRows'
  BY <1>23 DEF Edit
<1>24. ASSUME CancelUnsent
      PROVE  EditedRows'
  BY <1>24 DEF CancelUnsent, Undelivered
<1>25. ASSUME Crash
      PROVE  EditedRows'
  BY <1>25 DEF Crash
<1>26. CASE UNCHANGED vars
  BY <1>26 DEF vars
<1> QED
  BY <1>1, <1>2, <1>3, <1>4, <1>5, <1>6, <1>7, <1>8, <1>9, <1>10, <1>11,
     <1>12, <1>13, <1>14, <1>15, <1>16, <1>17, <1>18, <1>19, <1>20, <1>21,
     <1>22, <1>23, <1>24, <1>25, <1>26
  DEF Next, HandOver, Turn, DeliverStep

\* A step leaves what is taken back, and on its way into no reply, out of them.
Leaves == \A o \in Out : cancelled[o] = "edit" /\ ~Kept(o) =>
            carriers'[o] = carriers[o] /\ ~Kept(o)'

LEMMA LeavesNext == ASSUME TypeOK, EditedRows, [Next]_vars PROVE Leaves
<1> USE OutboxAssumption
    DEF TypeOK, EditedRows, Leaves, Kept, db, where, heard, At, Leased
<1>1. ASSUME NEW S \in SUBSET Own, Queue(S)
      PROVE  Leaves
  BY <1>1 DEF Queue, Start
<1>2. ASSUME NEW o \in Own, Hold(o)
      PROVE  Leaves
  BY <1>2 DEF Hold
<1>3. ASSUME TakeDue
      PROVE  Leaves
  BY <1>3 DEF TakeDue, Start
<1>4. ASSUME TakeHeld
      PROVE  Leaves
  BY <1>4 DEF TakeHeld
<1>5. ASSUME FailTurn
      PROVE  Leaves
  BY <1>5 DEF FailTurn
<1>6. ASSUME NEW a \in Reply, Commit(a)
      PROVE  Leaves
  BY <1>6 DEF Commit
<1>7. ASSUME Done
      PROVE  Leaves
  BY <1>7 DEF Done, Start
<1>8. ASSUME NEW w \in Worker, Sweep(w)
      PROVE  Leaves
  BY <1>8 DEF Sweep, Start, Undelivered
<1>9. ASSUME NEW w \in Worker, NEW o \in Out, Skip(w, o)
      PROVE  Leaves
  BY <1>9 DEF Skip
<1>10. ASSUME NEW w \in Worker, NEW o \in Out, Deliver(w, o)
      PROVE  Leaves
  BY <1>10 DEF Deliver
<1>11. ASSUME NEW w \in Worker, AllGone(w)
      PROVE  Leaves
  BY <1>11 DEF AllGone
<1>12. ASSUME NEW w \in Worker, Refused(w)
      PROVE  Leaves
  BY <1>12 DEF Refused, Back
<1>13. ASSUME NEW w \in Worker, WinLease(w)
      PROVE  Leaves
  BY <1>13 DEF WinLease, Free
<1>14. ASSUME NEW w \in Worker, Check(w)
      PROVE  Leaves
  BY <1>14 DEF Check, Undelivered
<1>15. ASSUME NEW w \in Worker, Send(w)
      PROVE  Leaves
  BY <1>15 DEF Send
<1>16. ASSUME NEW w \in Worker, SendFails(w)
      PROVE  Leaves
  BY <1>16 DEF SendFails
<1>17. ASSUME NEW w \in Worker, AnswerLost(w)
      PROVE  Leaves
  BY <1>17 DEF AnswerLost
<1>18. ASSUME NEW w \in Worker, MarkDelivered(w)
      PROVE  Leaves
  BY <1>18 DEF MarkDelivered
<1>19. ASSUME NEW w \in Worker, MarkRefused(w)
      PROVE  Leaves
  BY <1>19 DEF MarkRefused
<1>20. ASSUME NEW w \in Worker, LetGo(w)
      PROVE  Leaves
  BY <1>20 DEF LetGo, Back
<1>21. ASSUME NEW o \in Out, HoldOver(o)
      PROVE  Leaves
  BY <1>21 DEF HoldOver
<1>22. ASSUME NEW o \in Out, Lapse(o)
      PROVE  Leaves
  BY <1>22 DEF Lapse
<1>23. ASSUME NEW o \in Out, Edit(o)
      PROVE  Leaves
  BY <1>23 DEF Edit
<1>24. ASSUME CancelUnsent
      PROVE  Leaves
  BY <1>24 DEF CancelUnsent, Undelivered
<1>25. ASSUME Crash
      PROVE  Leaves
  BY <1>25 DEF Crash
<1>26. CASE UNCHANGED vars
  BY <1>26 DEF vars
<1> QED
  BY <1>1, <1>2, <1>3, <1>4, <1>5, <1>6, <1>7, <1>8, <1>9, <1>10, <1>11,
     <1>12, <1>13, <1>14, <1>15, <1>16, <1>17, <1>18, <1>19, <1>20, <1>21,
     <1>22, <1>23, <1>24, <1>25, <1>26
  DEF Next, HandOver, Turn, DeliverStep

\* A reminder taken back by an edit is not sent by itself after it, and a reply
\* says it only if it was on its way into one.
THEOREM EditsHonoured ==
  ASSUME ~RenewalMayFail
  PROVE  Spec => EditHonoured
<1> DEFINE Unsent == \A o \in Out : cancelled[o] = "edit" => sent'[o] = sent[o]
<1>1. TypeOK /\ AtWork /\ Counted /\ [Next]_vars => [Unsent]_vars
  <2> SUFFICES ASSUME TypeOK, AtWork, Counted, [Next]_vars
               PROVE  Unsent
    OBVIOUS
  <2> USE DEF TypeOK, AtWork, Counted, heard, Leased
  <2>1. ASSUME NEW w \in Worker, Send(w) \/ AnswerLost(w)
        PROVE  Unsent
    BY <2>1 DEF Send, AnswerLost
  <2>2. CASE ~\E w \in Worker : Send(w) \/ AnswerLost(w)
    <3>1. UNCHANGED sent
      BY <2>2
      DEF Next, HandOver, Turn, DeliverStep, Queue, Hold, TakeDue, TakeHeld,
          FailTurn, Commit, Done, Sweep, Skip, Deliver, AllGone, Refused,
          WinLease, Check, SendFails, MarkDelivered, MarkRefused, LetGo,
          HoldOver, Lapse, Edit, CancelUnsent, Crash, vars
    <3> QED
      BY <3>1
  <2> QED
    BY <2>1, <2>2
<1>2. TypeOK /\ EditedRows /\ [Next]_vars => [Leaves]_vars
  BY LeavesNext
<1>3. Init => EditedRows
  BY DEF Init, EditedRows
<1>4. TypeOK /\ AtWork /\ EditedRows /\ [Next]_vars => EditedRows'
  BY EditedRowsNext
<1>5. ASSUME Unsent, Leaves
      PROVE  \A o \in Out : cancelled[o] = "edit" =>
               /\ sent'[o] = sent[o]
               /\ ~Kept(o) => carriers'[o] = carriers[o] /\ ~Kept(o)'
  BY <1>5 DEF Leaves
<1> HIDE DEF Unsent
<1> QED
  BY <1>1, <1>2, <1>3, <1>4, <1>5, SafeSpec, PTL DEF Spec, EditHonoured
=============================================================================
