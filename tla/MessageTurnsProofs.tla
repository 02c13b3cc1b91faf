------------------------- MODULE MessageTurnsProofs -------------------------
(***************************************************************************)
(* What holds of MessageTurns for any family, any number of workers and    *)
(* any number of retries, crashes and resets.                              *)
(***************************************************************************)
EXTENDS MessageTurns, FiniteSetTheorems, TLAPS

USE DEF Nothing

\* Row numbers are counted, and the rows are finitely many.
LEMMA NextIdType == NextId \in Nat
<1>1. IsFiniteSet({m \in Msg : Stored(m)})
  BY MessagesAssumption, FS_Subset
<1>2. Cardinality({m \in Msg : Stored(m)}) \in Nat
  BY <1>1, FS_CardinalityType
<1> QED
  BY <1>2 DEF NextId

LEMMA CountUp ==
  ASSUME NEW f \in [Msg -> Nat], NEW m
  PROVE  [f EXCEPT ![m] = @ + 1] \in [Msg -> Nat]
<1>1. \A n \in Msg : f[n] + 1 \in Nat
  OBVIOUS
<1>2. CASE m \in Msg
  BY <1>1, <1>2
<1>3. CASE m \notin Msg
  BY <1>3
<1> QED
  BY <1>2, <1>3

\* Whoever is past the lock holds it, for the chat of a message it has.
LockInv ==
  \A w \in Worker :
    /\ pc[w] # "idle" => job[w] \in Msg
    /\ pc[w] \in Locked => chatLock[LockOf(w)] = w

LEMMA TypeInit == Init => TypeOK
  BY SettingsAssumption, MessagesAssumption
  DEF Init, TypeOK, Idle, Errors, Modes, Places, Marks

LEMMA TypeNext == TypeOK /\ LockInv /\ [Next]_vars => TypeOK'
<1> SUFFICES ASSUME TypeOK, LockInv, [Next]_vars
             PROVE  TypeOK'
  OBVIOUS
<1> USE SettingsAssumption, MessagesAssumption, WorkersAssumption
<1> USE DEF TypeOK, rows, claims, said, workers, counters, Move, Take, Leave,
            Return, Idle, Errors, Modes, Places, Locked, Leased, Marks
<1>1. ASSUME NEW w \in Worker, StoreInbound(w)
     PROVE  TypeOK'
  BY <1>1, NextIdType DEF StoreInbound
<1>2. ASSUME NEW w \in Worker, ArrivedTwice(w)
     PROVE  TypeOK'
  BY <1>2 DEF ArrivedTwice
<1>3. ASSUME NEW w \in Worker, HoldForGathering(w)
     PROVE  TypeOK'
  BY <1>3 DEF HoldForGathering
<1>4. ASSUME NEW w \in Worker, TakeChatLock(w)
     PROVE  TypeOK'
  BY <1>4 DEF TakeChatLock, ChatFree, LockOf
<1>5. ASSUME NEW w \in Worker, LeaveToAnother(w)
     PROVE  TypeOK'
  BY <1>5 DEF LeaveToAnother, LockOf
<1>6. ASSUME NEW w \in Worker, AnswerGathered(w)
     PROVE  TypeOK'
  BY <1>6 DEF AnswerGathered, ChatFree, LockOf, Earlier, Gathering
<1>7. ASSUME NEW w \in Worker, LeaseRefused(w)
     PROVE  TypeOK'
  BY <1>7 DEF LeaseRefused, LockOf
<1>8. ASSUME NEW w \in Worker, TakeLease(w)
     PROVE  TypeOK'
  <2>1. seen' \in [Worker -> Nat]
    <3>1. job[w] \in Msg
      BY <1>8 DEF TakeLease, LockInv
    <3> QED
      BY <1>8, <3>1 DEF TakeLease, LookAtRow
  <2> QED
    BY <1>8, <2>1 DEF TakeLease, LookAtRow
<1>9. ASSUME NEW w \in Worker, ClaimAlso(w)
     PROVE  TypeOK'
  BY <1>9 DEF ClaimAlso
<1>10. ASSUME NEW w \in Worker, FoldInto(w)
     PROVE  TypeOK'
  BY <1>10 DEF FoldInto
<1>11. ASSUME NEW w \in Worker, DropInactive(w)
     PROVE  TypeOK'
  BY <1>11 DEF DropInactive
<1>12. ASSUME NEW w \in Worker, RefuseKid(w)
     PROVE  TypeOK'
  BY <1>12 DEF RefuseKid, GiveUp
<1>13. ASSUME NEW w \in Worker, Hear(w)
     PROVE  TypeOK'
  BY <1>13 DEF Hear
<1>14. ASSUME NEW w \in Worker, NotHeard(w)
     PROVE  TypeOK'
  BY <1>14 DEF NotHeard, GiveUp
<1>15. ASSUME NEW w \in Worker, StoppedBeforeHeard(w)
     PROVE  TypeOK'
  BY <1>15 DEF StoppedBeforeHeard, GiveUp
<1>16. ASSUME NEW w \in Worker, ReadWords(w)
     PROVE  TypeOK'
  BY <1>16 DEF ReadWords
<1>17. ASSUME NEW w \in Worker, RetriesSpent(w)
     PROVE  TypeOK'
  BY <1>17 DEF RetriesSpent
<1>18. ASSUME NEW w \in Worker, StartTurn(w)
     PROVE  TypeOK'
  <2>1. retries' \in [Msg -> Nat]
    <3>1. CASE UNCHANGED retries
      BY <3>1
    <3>2. CASE retries' = [retries EXCEPT ![job[w]] = @ + 1]
      BY ONLY <3>2, CountUp, TypeOK DEF TypeOK
    <3> QED
      BY <1>18, <3>1, <3>2 DEF StartTurn
  <2>2. turns' = [turns EXCEPT ![job[w]] = @ + 1]
    BY <1>18 DEF StartTurn
  <2>3. turns' \in [Msg -> Nat]
    BY ONLY <2>2, CountUp, TypeOK DEF TypeOK
  <2> QED
    BY <1>18, <2>1, <2>3 DEF StartTurn
<1>20. ASSUME NEW w \in Worker, Succeed(w)
     PROVE  TypeOK'
  <2>1. answers' = [answers EXCEPT ![job[w]] = @ + 1]
    BY <1>20 DEF Succeed
  <2>2. answers' \in [Msg -> Nat]
    BY ONLY <2>1, CountUp, TypeOK DEF TypeOK
  <2> QED
    BY <1>20, <2>2 DEF Succeed
<1>21. ASSUME NEW w \in Worker, FailForNow(w)
     PROVE  TypeOK'
  BY <1>21 DEF FailForNow, MarkFailed, Notify
<1>22. ASSUME NEW w \in Worker, FailForGood(w)
     PROVE  TypeOK'
  <2>1. Notify(w) \in BOOLEAN
    BY DEF Notify
  <2>2. failing' \in [Worker -> [error : Errors, notice : BOOLEAN]]
    BY <1>22, <2>1 DEF FailForGood, GiveUp
  <2> QED
    BY <1>22, <2>2 DEF FailForGood, GiveUp
<1>23. ASSUME NEW w \in Worker, OutOfSteps(w)
     PROVE  TypeOK'
  BY <1>23 DEF OutOfSteps, GiveUp
<1>24. ASSUME NEW w \in Worker, Fail(w)
     PROVE  TypeOK'
  BY <1>24 DEF Fail, MarkFailed
<1>25. ASSUME NEW w \in Worker, Release(w)
     PROVE  TypeOK'
  BY <1>25 DEF Release, LockOf
<1>25a. ASSUME NEW w \in Worker, ReleaseRefused(w)
     PROVE  TypeOK'
  BY <1>25a DEF ReleaseRefused, LockOf
<1>26. ASSUME NEW w \in Worker, Renew(w)
     PROVE  TypeOK'
  BY <1>26 DEF Renew
<1>27. ASSUME NEW w \in Worker, NEW m \in Msg, Resolve(w, m)
     PROVE  TypeOK'
  BY <1>27 DEF Resolve, ModeOf
<1>28. ASSUME NEW w \in Worker, NEW m \in Msg, Retry(w, m)
     PROVE  TypeOK'
  BY <1>28 DEF Retry
<1>29. ASSUME NEW m \in Msg, Lapse(m)
     PROVE  TypeOK'
  BY <1>29 DEF Lapse
<1>30. ASSUME NEW p \in Member, SwitchOff(p)
     PROVE  TypeOK'
  BY <1>30 DEF SwitchOff
<1>31. ASSUME NEW p \in Member, SwitchOn(p)
     PROVE  TypeOK'
  BY <1>31 DEF SwitchOn
<1>32. ASSUME ResetRetries
     PROVE  TypeOK'
  BY <1>32 DEF ResetRetries
<1>33. ASSUME NEW p \in Process, Crash(p)
     PROVE  TypeOK'
  BY <1>33 DEF Crash
<1>34. CASE UNCHANGED vars
  BY <1>34 DEF vars
<1> QED
  BY <1>1, <1>2, <1>3, <1>4, <1>5, <1>6, <1>7, <1>8, <1>9, <1>10, <1>11,
     <1>12, <1>13, <1>14, <1>15, <1>16, <1>17, <1>18, <1>20, <1>21, <1>22,
     <1>23, <1>24, <1>25, <1>25a, <1>26, <1>27, <1>28, <1>29, <1>30, <1>31,
     <1>32, <1>33, <1>34
  DEF Next, Step

-----------------------------------------------------------------------------
\* The chat's lock.

LEMMA LockInit == Init => LockInv
  BY DEF Init, LockInv, Locked, Leased

LEMMA LockNext == TypeOK /\ LockInv /\ [Next]_vars => LockInv'
<1> SUFFICES ASSUME TypeOK, LockInv, [Next]_vars
             PROVE  LockInv'
  OBVIOUS
<1> USE MessagesAssumption, WorkersAssumption
<1> USE DEF TypeOK, LockInv, LockOf, Move, Locked, Leased, Places, Marks,
            workers
<1>1. ASSUME NEW w \in Worker, StoreInbound(w)
     PROVE  LockInv'
  BY <1>1 DEF StoreInbound
<1>2. ASSUME NEW w \in Worker, ArrivedTwice(w)
     PROVE  LockInv'
  BY <1>2 DEF ArrivedTwice, Leave
<1>3. ASSUME NEW w \in Worker, HoldForGathering(w)
     PROVE  LockInv'
  BY <1>3 DEF HoldForGathering
<1>4. ASSUME NEW w \in Worker, TakeChatLock(w)
     PROVE  LockInv'
  BY <1>4 DEF TakeChatLock, ChatFree
<1>5. ASSUME NEW w \in Worker, LeaveToAnother(w)
     PROVE  LockInv'
  BY <1>5 DEF LeaveToAnother, ChatFree, Return, Leave
<1>6. ASSUME NEW w \in Worker, AnswerGathered(w)
     PROVE  LockInv'
  BY <1>6 DEF AnswerGathered, ChatFree, Earlier, Gathering
<1>7. ASSUME NEW w \in Worker, LeaseRefused(w)
     PROVE  LockInv'
  BY <1>7 DEF LeaseRefused, Return, Leave
<1>8. ASSUME NEW w \in Worker, TakeLease(w)
     PROVE  LockInv'
  BY <1>8 DEF TakeLease, LookAtRow
<1>9. ASSUME NEW w \in Worker, ClaimAlso(w)
     PROVE  LockInv'
  BY <1>9 DEF ClaimAlso
<1>10. ASSUME NEW w \in Worker, FoldInto(w)
     PROVE  LockInv'
  BY <1>10 DEF FoldInto
<1>11. ASSUME NEW w \in Worker, DropInactive(w)
     PROVE  LockInv'
  BY <1>11 DEF DropInactive
<1>12. ASSUME NEW w \in Worker, RefuseKid(w)
     PROVE  LockInv'
  BY <1>12 DEF RefuseKid, GiveUp, Checking
<1>13. ASSUME NEW w \in Worker, Hear(w)
     PROVE  LockInv'
  BY <1>13 DEF Hear, Checking
<1>14. ASSUME NEW w \in Worker, NotHeard(w)
     PROVE  LockInv'
  BY <1>14 DEF NotHeard, GiveUp, Checking
<1>15. ASSUME NEW w \in Worker, StoppedBeforeHeard(w)
     PROVE  LockInv'
  BY <1>15 DEF StoppedBeforeHeard, GiveUp, Checking
<1>16. ASSUME NEW w \in Worker, ReadWords(w)
     PROVE  LockInv'
  BY <1>16 DEF ReadWords, Checking
<1>17. ASSUME NEW w \in Worker, RetriesSpent(w)
     PROVE  LockInv'
  BY <1>17 DEF RetriesSpent
<1>18. ASSUME NEW w \in Worker, StartTurn(w)
     PROVE  LockInv'
  BY <1>18 DEF StartTurn
<1>20. ASSUME NEW w \in Worker, Succeed(w)
     PROVE  LockInv'
  BY <1>20 DEF Succeed, InTurn
<1>21. ASSUME NEW w \in Worker, FailForNow(w)
     PROVE  LockInv'
  BY <1>21 DEF FailForNow, MarkFailed, InTurn
<1>22. ASSUME NEW w \in Worker, FailForGood(w)
     PROVE  LockInv'
  BY <1>22 DEF FailForGood, GiveUp, InTurn
<1>23. ASSUME NEW w \in Worker, OutOfSteps(w)
     PROVE  LockInv'
  BY <1>23 DEF OutOfSteps, GiveUp, InTurn
<1>24. ASSUME NEW w \in Worker, Fail(w)
     PROVE  LockInv'
  BY <1>24 DEF Fail, MarkFailed
<1>25. ASSUME NEW w \in Worker, Release(w)
     PROVE  LockInv'
  BY <1>25 DEF Release, Return, Leave
<1>26. ASSUME NEW w \in Worker, ReleaseRefused(w)
     PROVE  LockInv'
  BY <1>26 DEF ReleaseRefused, Return, Leave
<1>27. ASSUME NEW w \in Worker, Renew(w)
     PROVE  LockInv'
  BY <1>27 DEF Renew
<1>28. ASSUME NEW w \in Worker, NEW m \in Msg, Resolve(w, m)
     PROVE  LockInv'
  BY <1>28 DEF Resolve, Take, ModeOf
<1>29. ASSUME NEW w \in Worker, NEW m \in Msg, Retry(w, m)
     PROVE  LockInv'
  BY <1>29 DEF Retry, Take
<1>30. ASSUME NEW m \in Msg, Lapse(m)
     PROVE  LockInv'
  BY <1>30 DEF Lapse
<1>31. ASSUME NEW p \in Member, SwitchOff(p)
     PROVE  LockInv'
  BY <1>31 DEF SwitchOff
<1>32. ASSUME NEW p \in Member, SwitchOn(p)
     PROVE  LockInv'
  BY <1>32 DEF SwitchOn
<1>33. ASSUME ResetRetries
     PROVE  LockInv'
  BY <1>33 DEF ResetRetries
<1>34. ASSUME NEW p \in Process, Crash(p)
     PROVE  LockInv'
  BY <1>34 DEF Crash
<1>35. CASE UNCHANGED vars
  BY <1>35 DEF vars
<1> QED
  BY <1>1, <1>2, <1>3, <1>4, <1>5, <1>6, <1>7, <1>8, <1>9, <1>10, <1>11,
     <1>12, <1>13, <1>14, <1>15, <1>16, <1>17, <1>18, <1>20, <1>21,
     <1>22, <1>23, <1>24, <1>25, <1>26, <1>27, <1>28, <1>29, <1>30, <1>31,
     <1>32, <1>33, <1>34, <1>35 DEF Next, Step

LEMMA LockInvariant == Spec => [](TypeOK /\ LockInv)
<1>1. Init => TypeOK /\ LockInv
  BY TypeInit, LockInit
<1>2. TypeOK /\ LockInv /\ [Next]_vars => (TypeOK /\ LockInv)'
  BY TypeNext, LockNext
<1> QED
  BY <1>1, <1>2, PTL DEF Spec

\* No row, claim or worker ever takes a value the code has no name for.
THEOREM TypeCorrect == Spec => []TypeOK
<1> QED
  BY LockInvariant, PTL

\* The service alone: every thread that answers runs in one process.
ServiceAlone == \A v, w \in Worker : ProcOf[v] = ProcOf[w]

\* Within a process two workers past the lock are in different chats.
LEMMA LockExcludes ==
  ASSUME LockInv, NEW v \in Worker, NEW w \in Worker, v # w,
         ProcOf[v] = ProcOf[w], pc[v] \in Locked, pc[w] \in Locked
  PROVE  ChatOf[job[v]] # ChatOf[job[w]]
  BY DEF LockInv, LockOf

\* The service never has two workers at one message, even when it cannot
\* renew its claims: the chat's lock alone sees to it.
THEOREM ServiceTakesTurns ==
  ASSUME ServiceAlone PROVE Spec => []OneTurnEach
<1>1. LockInv => OneTurnEach
  BY LockExcludes DEF ServiceAlone, OneTurnEach, Locked
<1> QED
  BY <1>1, LockInvariant, PTL

-----------------------------------------------------------------------------
\* One answer.

\* What keeps a reply from being given twice: a worker past its lease has a
\* message nobody answered, and a burst it means to fold is unanswered too,
\* in the same chat, and not the message it goes with.
AnswerInv ==
  /\ \A m \in Msg : /\ answers[m] <= 1
                    /\ answers[m] > 0 => status[m] = "processed"
                    /\ replyTo[m] # Nothing => status[m] = "processed"
                    /\ replyTo[m] # Nothing => answers[m] = 0
  /\ \A w \in Worker :
       /\ pc[w] \in Leased \ {"release"} => status[job[w]] # "processed"
       /\ pc[w] \in {"lease", "claim_also", "fold"} =>
            \A n \in burst[w] : /\ n # job[w] /\ ChatOf[n] = ChatOf[job[w]]
                                /\ status[n] # "processed"
       /\ pc[w] \in {"idle", "store", "hold", "lock"} => burst[w] = {}

LEMMA AnswerInit == Init => AnswerInv
  BY DEF Init, AnswerInv, Leased

LEMMA AnswerNext ==
  ASSUME ServiceAlone
  PROVE  TypeOK /\ LockInv /\ AnswerInv /\ [Next]_vars => AnswerInv'
<1> SUFFICES ASSUME TypeOK, LockInv, AnswerInv, [Next]_vars
             PROVE  AnswerInv'
  OBVIOUS
<1> USE MessagesAssumption, WorkersAssumption
<1>0. \A v, w \in Worker :
        v # w /\ pc[v] \in Locked /\ pc[w] \in Locked =>
          ChatOf[job[v]] # ChatOf[job[w]]
  BY LockExcludes DEF ServiceAlone
<1>0a. \A w \in Worker : pc[w] # "idle" => job[w] \in Msg
  BY DEF LockInv
<1> USE DEF TypeOK, AnswerInv, Move, Locked, Leased, Places, Marks,
            rows, claims, said, workers, Open, Stored
<1>1. ASSUME NEW w \in Worker, StoreInbound(w)
     PROVE  AnswerInv'
  BY <1>1, <1>0, <1>0a DEF StoreInbound
<1>2. ASSUME NEW w \in Worker, ArrivedTwice(w)
     PROVE  AnswerInv'
  BY <1>2, <1>0, <1>0a DEF ArrivedTwice, Leave
<1>3. ASSUME NEW w \in Worker, HoldForGathering(w)
     PROVE  AnswerInv'
  BY <1>3, <1>0, <1>0a DEF HoldForGathering
<1>4. ASSUME NEW w \in Worker, TakeChatLock(w)
     PROVE  AnswerInv'
  BY <1>4, <1>0, <1>0a DEF TakeChatLock, ChatFree
<1>5. ASSUME NEW w \in Worker, LeaveToAnother(w)
     PROVE  AnswerInv'
  BY <1>5, <1>0, <1>0a DEF LeaveToAnother, ChatFree, Return, Leave
<1>6. ASSUME NEW w \in Worker, AnswerGathered(w)
     PROVE  AnswerInv'
  BY <1>6, <1>0, <1>0a DEF AnswerGathered, ChatFree, Earlier, Gathering
<1>7. ASSUME NEW w \in Worker, LeaseRefused(w)
     PROVE  AnswerInv'
  BY <1>7, <1>0, <1>0a DEF LeaseRefused, Return, Leave
<1>8. ASSUME NEW w \in Worker, TakeLease(w)
     PROVE  AnswerInv'
  BY <1>8, <1>0, <1>0a DEF TakeLease, LookAtRow
<1>9. ASSUME NEW w \in Worker, ClaimAlso(w)
     PROVE  AnswerInv'
  BY <1>9, <1>0, <1>0a DEF ClaimAlso
<1>10. ASSUME NEW w \in Worker, FoldInto(w)
     PROVE  AnswerInv'
  BY <1>10, <1>0, <1>0a DEF FoldInto
<1>11. ASSUME NEW w \in Worker, DropInactive(w)
     PROVE  AnswerInv'
  BY <1>11, <1>0, <1>0a DEF DropInactive
<1>12. ASSUME NEW w \in Worker, RefuseKid(w)
     PROVE  AnswerInv'
  BY <1>12, <1>0, <1>0a DEF RefuseKid, GiveUp, Checking
<1>13. ASSUME NEW w \in Worker, Hear(w)
     PROVE  AnswerInv'
  BY <1>13, <1>0, <1>0a DEF Hear, Checking
<1>14. ASSUME NEW w \in Worker, NotHeard(w)
     PROVE  AnswerInv'
  BY <1>14, <1>0, <1>0a DEF NotHeard, GiveUp, Checking
<1>15. ASSUME NEW w \in Worker, StoppedBeforeHeard(w)
     PROVE  AnswerInv'
  BY <1>15, <1>0, <1>0a DEF StoppedBeforeHeard, GiveUp, Checking
<1>16. ASSUME NEW w \in Worker, ReadWords(w)
     PROVE  AnswerInv'
  BY <1>16, <1>0, <1>0a DEF ReadWords, Checking
<1>17. ASSUME NEW w \in Worker, RetriesSpent(w)
     PROVE  AnswerInv'
  BY <1>17, <1>0, <1>0a DEF RetriesSpent
<1>18. ASSUME NEW w \in Worker, StartTurn(w)
     PROVE  AnswerInv'
  BY <1>18, <1>0, <1>0a DEF StartTurn
<1>20. ASSUME NEW w \in Worker, Succeed(w)
     PROVE  AnswerInv'
  BY <1>20, <1>0, <1>0a DEF Succeed, InTurn
<1>21. ASSUME NEW w \in Worker, FailForNow(w)
     PROVE  AnswerInv'
  BY <1>21, <1>0, <1>0a DEF FailForNow, MarkFailed, InTurn
<1>22. ASSUME NEW w \in Worker, FailForGood(w)
     PROVE  AnswerInv'
  BY <1>22, <1>0, <1>0a DEF FailForGood, GiveUp, InTurn
<1>23. ASSUME NEW w \in Worker, OutOfSteps(w)
     PROVE  AnswerInv'
  BY <1>23, <1>0, <1>0a DEF OutOfSteps, GiveUp, InTurn
<1>24. ASSUME NEW w \in Worker, Fail(w)
     PROVE  AnswerInv'
  BY <1>24, <1>0, <1>0a DEF Fail, MarkFailed
<1>25. ASSUME NEW w \in Worker, Release(w)
     PROVE  AnswerInv'
  BY <1>25, <1>0, <1>0a DEF Release, Return, Leave
<1>26. ASSUME NEW w \in Worker, ReleaseRefused(w)
     PROVE  AnswerInv'
  BY <1>26, <1>0, <1>0a DEF ReleaseRefused, Return, Leave
<1>27. ASSUME NEW w \in Worker, Renew(w)
     PROVE  AnswerInv'
  BY <1>27 DEF Renew
<1>28. ASSUME NEW w \in Worker, NEW m \in Msg, Resolve(w, m)
     PROVE  AnswerInv'
  BY <1>28 DEF Resolve, Take, ModeOf
<1>29. ASSUME NEW w \in Worker, NEW m \in Msg, Retry(w, m)
     PROVE  AnswerInv'
  BY <1>29 DEF Retry, Take
<1>30. ASSUME NEW m \in Msg, Lapse(m)
     PROVE  AnswerInv'
  BY <1>30 DEF Lapse
<1>31. ASSUME NEW p \in Member, SwitchOff(p)
     PROVE  AnswerInv'
  <2> DEFINE dropped == {m \in Msg : From[m] = p /\ Open(m)}
  <2>1. status' = [m \in Msg |-> IF m \in dropped THEN "failed" ELSE status[m]]
    BY <1>31 DEF SwitchOff
  <2>2. \A m \in Msg : status'[m] = "processed" <=> status[m] = "processed"
    BY <2>1
  <2>3. UNCHANGED <<answers, replyTo, pc, job, burst>>
    BY <1>31 DEF SwitchOff
  <2> QED
    BY <2>2, <2>3, <1>0a
<1>32. ASSUME NEW p \in Member, SwitchOn(p)
     PROVE  AnswerInv'
  BY <1>32 DEF SwitchOn
<1>33. ASSUME ResetRetries
     PROVE  AnswerInv'
  BY <1>33 DEF ResetRetries
<1>34. ASSUME NEW p \in Process, Crash(p)
     PROVE  AnswerInv'
  BY <1>34 DEF Crash
<1>35. CASE UNCHANGED vars
  BY <1>35 DEF vars
<1> QED
  BY <1>1, <1>2, <1>3, <1>4, <1>5, <1>6, <1>7, <1>8, <1>9, <1>10, <1>11,
     <1>12, <1>13, <1>14, <1>15, <1>16, <1>17, <1>18, <1>20, <1>21,
     <1>22, <1>23, <1>24, <1>25, <1>26, <1>27, <1>28, <1>29, <1>30, <1>31,
     <1>32, <1>33, <1>34, <1>35 DEF Next, Step

LEMMA AnswerInvariant == ASSUME ServiceAlone PROVE Spec => []AnswerInv
<1>1. Init => AnswerInv
  BY AnswerInit
<1>2. TypeOK /\ LockInv /\ AnswerInv /\ [Next]_vars => AnswerInv'
  BY AnswerNext
<1> QED
  BY <1>1, <1>2, LockInvariant, PTL DEF Spec

\* However often a message is retried, taken over from a stopped process or
\* handed in again, the service answers it once, and not at all when a later
\* one of its burst is answered for it.
THEOREM ServiceAnswersOnce ==
  ASSUME ServiceAlone PROVE Spec => []AnsweredOnce
<1>1. AnswerInv => AnsweredOnce
  BY DEF AnswerInv, AnsweredOnce
<1> QED
  BY <1>1, AnswerInvariant, PTL

-----------------------------------------------------------------------------
\* The lease, across processes.

\* Claims are renewed in time, and no message is held for gathering, whose
\* mark takes a message from whoever has it.
LeasesLast == ~RenewalMayFail /\ Gathered = {}

\* A worker past its lease still has it, its message is open until it says
\* otherwise, and the sender is who they were when it looked.
LeaseInv ==
  /\ \A m \in Msg : claim[m] # "gather"
  /\ \A w \in Worker :
       /\ mode[w] # "gather" /\ burst[w] = {}
       /\ pc[w] \notin {"hold", "claim_also", "fold"}
       /\ pc[w] \in Leased => claim[job[w]] = w /\ live[job[w]]
       /\ pc[w] \in Leased \ {"fail", "release"} => Open(job[w])
       /\ pc[w] \in {"gate", "think"} => active[From[job[w]]]

LEMMA LeaseInit == Init => LeaseInv
  BY DEF Init, LeaseInv, Leased

LEMMA LeaseNext ==
  ASSUME LeasesLast
  PROVE  TypeOK /\ LockInv /\ LeaseInv /\ [Next]_vars => LeaseInv'
<1> SUFFICES ASSUME TypeOK, LockInv, LeaseInv, [Next]_vars
             PROVE  LeaseInv'
  OBVIOUS
<1> USE MessagesAssumption, WorkersAssumption
<1>0. ~RenewalMayFail /\ Gathered = {}
  BY DEF LeasesLast
<1>0a. \A w \in Worker : pc[w] # "idle" => job[w] \in Msg
  BY DEF LockInv
<1> USE DEF TypeOK, LeaseInv, Move, Leased, Locked, Places, Marks, Modes,
            rows, claims, said, workers, Open, Stored
<1>1. ASSUME NEW w \in Worker, StoreInbound(w)
     PROVE  LeaseInv'
  BY <1>1, <1>0a DEF StoreInbound
<1>2. ASSUME NEW w \in Worker, ArrivedTwice(w)
     PROVE  LeaseInv'
  BY <1>2, <1>0a DEF ArrivedTwice, Leave
<1>3. ASSUME NEW w \in Worker, HoldForGathering(w)
     PROVE  LeaseInv'
  BY <1>3, <1>0a DEF HoldForGathering
<1>4. ASSUME NEW w \in Worker, TakeChatLock(w)
     PROVE  LeaseInv'
  BY <1>4, <1>0a DEF TakeChatLock, ChatFree
<1>5. ASSUME NEW w \in Worker, LeaveToAnother(w)
     PROVE  LeaseInv'
  BY <1>5, <1>0a DEF LeaveToAnother, ChatFree, Return, Leave
<1>6. ASSUME NEW w \in Worker, AnswerGathered(w)
     PROVE  LeaseInv'
  BY <1>6, <1>0a DEF AnswerGathered, ChatFree, Earlier, Gathering
<1>7. ASSUME NEW w \in Worker, LeaseRefused(w)
     PROVE  LeaseInv'
  BY <1>7, <1>0a DEF LeaseRefused, Return, Leave
<1>8. ASSUME NEW w \in Worker, TakeLease(w)
     PROVE  LeaseInv'
  BY <1>8, <1>0a DEF TakeLease, LookAtRow, Claimable, Free, Held
<1>9. ASSUME NEW w \in Worker, ClaimAlso(w)
     PROVE  LeaseInv'
  BY <1>9, <1>0a DEF ClaimAlso
<1>10. ASSUME NEW w \in Worker, FoldInto(w)
     PROVE  LeaseInv'
  BY <1>10, <1>0a DEF FoldInto
<1>11. ASSUME NEW w \in Worker, DropInactive(w)
     PROVE  LeaseInv'
  BY <1>11, <1>0a DEF DropInactive
<1>12. ASSUME NEW w \in Worker, RefuseKid(w)
     PROVE  LeaseInv'
  BY <1>12, <1>0a DEF RefuseKid, GiveUp, Checking
<1>13. ASSUME NEW w \in Worker, Hear(w)
     PROVE  LeaseInv'
  BY <1>13, <1>0a DEF Hear, Checking
<1>14. ASSUME NEW w \in Worker, NotHeard(w)
     PROVE  LeaseInv'
  BY <1>14, <1>0a DEF NotHeard, GiveUp, Checking
<1>15. ASSUME NEW w \in Worker, StoppedBeforeHeard(w)
     PROVE  LeaseInv'
  BY <1>15, <1>0a DEF StoppedBeforeHeard, GiveUp, Checking
<1>16. ASSUME NEW w \in Worker, ReadWords(w)
     PROVE  LeaseInv'
  BY <1>16, <1>0a DEF ReadWords, Checking
<1>17. ASSUME NEW w \in Worker, RetriesSpent(w)
     PROVE  LeaseInv'
  BY <1>17, <1>0a DEF RetriesSpent
<1>18. ASSUME NEW w \in Worker, StartTurn(w)
     PROVE  LeaseInv'
  BY <1>18, <1>0a DEF StartTurn
<1>20. ASSUME NEW w \in Worker, Succeed(w)
     PROVE  LeaseInv'
  BY <1>20, <1>0a DEF Succeed, InTurn
<1>21. ASSUME NEW w \in Worker, FailForNow(w)
     PROVE  LeaseInv'
  BY <1>21, <1>0a DEF FailForNow, MarkFailed, InTurn
<1>22. ASSUME NEW w \in Worker, FailForGood(w)
     PROVE  LeaseInv'
  BY <1>22, <1>0a DEF FailForGood, GiveUp, InTurn
<1>23. ASSUME NEW w \in Worker, OutOfSteps(w)
     PROVE  LeaseInv'
  BY <1>23, <1>0a DEF OutOfSteps, GiveUp, InTurn
<1>24. ASSUME NEW w \in Worker, Fail(w)
     PROVE  LeaseInv'
  BY <1>24, <1>0a DEF Fail, MarkFailed
<1>25. ASSUME NEW w \in Worker, Release(w)
     PROVE  LeaseInv'
  BY <1>25, <1>0a DEF Release, Return, Leave
<1>26. ASSUME NEW w \in Worker, ReleaseRefused(w)
     PROVE  LeaseInv'
  BY <1>26, <1>0a DEF ReleaseRefused, Return, Leave
<1>27. ASSUME NEW w \in Worker, Renew(w)
     PROVE  LeaseInv'
  BY <1>27, <1>0, <1>0a DEF Renew
<1>28. ASSUME NEW w \in Worker, NEW m \in Msg, Resolve(w, m)
     PROVE  LeaseInv'
  BY <1>28, <1>0, <1>0a DEF Resolve, Take, ModeOf
<1>29. ASSUME NEW w \in Worker, NEW m \in Msg, Retry(w, m)
     PROVE  LeaseInv'
  BY <1>29, <1>0, <1>0a DEF Retry, Take
<1>30. ASSUME NEW m \in Msg, Lapse(m)
     PROVE  LeaseInv'
  BY <1>30, <1>0, <1>0a DEF Lapse
<1>31. ASSUME NEW p \in Member, SwitchOff(p)
     PROVE  LeaseInv'
  <2>1. \A w \in Worker : pc[w] \in Leased => From[job[w]] # p
    BY <1>31, <1>0a DEF SwitchOff, BeingAnswered
  <2>2. \A m \in Msg : From[m] # p => status'[m] = status[m] /\ giveUp'[m] = giveUp[m]
    BY <1>31 DEF SwitchOff
  <2>3. \A q \in Member : q # p => active'[q] = active[q]
    BY <1>31 DEF SwitchOff
  <2>4. UNCHANGED <<claim, live, pc, job, mode, burst>>
    BY <1>31 DEF SwitchOff
  <2> QED
    BY <2>1, <2>2, <2>3, <2>4, <1>0a
<1>32. ASSUME NEW p \in Member, SwitchOn(p)
     PROVE  LeaseInv'
  BY <1>32, <1>0, <1>0a DEF SwitchOn
<1>33. ASSUME ResetRetries
     PROVE  LeaseInv'
  BY <1>33, <1>0, <1>0a DEF ResetRetries
<1>34. ASSUME NEW p \in Process, Crash(p)
     PROVE  LeaseInv'
  BY <1>34, <1>0, <1>0a DEF Crash
<1>35. CASE UNCHANGED vars
  BY <1>35 DEF vars
<1> QED
  BY <1>1, <1>2, <1>3, <1>4, <1>5, <1>6, <1>7, <1>8, <1>9, <1>10, <1>11,
     <1>12, <1>13, <1>14, <1>15, <1>16, <1>17, <1>18, <1>20, <1>21,
     <1>22, <1>23, <1>24, <1>25, <1>26, <1>27, <1>28, <1>29, <1>30, <1>31,
     <1>32, <1>33, <1>34, <1>35 DEF Next, Step

LEMMA LeaseInvariant ==
  ASSUME LeasesLast PROVE Spec => [](TypeOK /\ LockInv /\ LeaseInv)
<1>1. Init => LeaseInv
  BY LeaseInit
<1>2. TypeOK /\ LockInv /\ LeaseInv /\ [Next]_vars => LeaseInv'
  BY LeaseNext
<1> QED
  BY <1>1, <1>2, LockInvariant, PTL DEF Spec

\* While claims last, a command run beside the service never works on a
\* message the service has, whatever either read before it claimed.
THEOREM LeasesTakeTurns == ASSUME LeasesLast PROVE Spec => []OneTurnEach
<1>1. LeaseInv => OneTurnEach
  BY DEF LeaseInv, OneTurnEach
<1> QED
  BY <1>1, LeaseInvariant, PTL

\* While claims last, nobody is switched off between the look at the family
\* and the end of the turn made for them.
THEOREM LeasesKeepMembers == ASSUME LeasesLast PROVE Spec => []NobodySwitchedOff
<1>1. LeaseInv => NobodySwitchedOff
  BY DEF LeaseInv, NobodySwitchedOff
<1> QED
  BY <1>1, LeaseInvariant, PTL

\* While claims last, no turn is begun on a message that was answered, folded
\* or given up.
THEOREM LeasesKeepSettled == ASSUME LeasesLast PROVE Spec => SettledStays
<1> DEFINE Stays == \A m \in Msg : status[m] = "processed" \/ giveUp[m]
                                   => turns'[m] = turns[m]
<1>1. TypeOK /\ LockInv /\ LeaseInv /\ [Next]_vars => [Stays]_vars
  <2> SUFFICES ASSUME TypeOK, LockInv, LeaseInv, Next
               PROVE  Stays
    OBVIOUS
  <2>1. CASE \E w \in Worker : StartTurn(w)
    <3> PICK w \in Worker : StartTurn(w)
      BY <2>1
    <3>1. pc[w] = "gate" /\ job[w] \in Msg
      BY DEF StartTurn, LockInv
    <3>2. Open(job[w])
      BY <3>1 DEF LeaseInv, Leased
    <3>3. turns' = [turns EXCEPT ![job[w]] = @ + 1]
      BY DEF StartTurn
    <3> QED
      BY <3>2, <3>3 DEF TypeOK, Open
  <2>2. CASE ~\E w \in Worker : StartTurn(w)
    <3> USE DEF counters
    <3>1. ASSUME NEW w \in Worker, Step(w), ~StartTurn(w) PROVE UNCHANGED turns
      <4> USE DEF GiveUp, MarkFailed
      <4>1. CASE \/ StoreInbound(w) \/ ArrivedTwice(w) \/ HoldForGathering(w)
                 \/ TakeChatLock(w) \/ LeaveToAnother(w) \/ AnswerGathered(w)
                 \/ LeaseRefused(w) \/ TakeLease(w) \/ ClaimAlso(w) \/ FoldInto(w)
        BY <4>1 DEF StoreInbound, ArrivedTwice, HoldForGathering, TakeChatLock,
             LeaveToAnother, AnswerGathered, LeaseRefused, TakeLease, ClaimAlso, FoldInto
      <4>2. CASE \/ DropInactive(w) \/ RefuseKid(w) \/ Hear(w) \/ NotHeard(w)
                 \/ StoppedBeforeHeard(w) \/ ReadWords(w) \/ RetriesSpent(w)
        BY <4>2 DEF DropInactive, RefuseKid, Hear, NotHeard, StoppedBeforeHeard,
             ReadWords, RetriesSpent
      <4>3. CASE \/ Succeed(w) \/ FailForNow(w) \/ FailForGood(w) \/ OutOfSteps(w)
                 \/ Fail(w) \/ Release(w) \/ ReleaseRefused(w)
        BY <4>3 DEF Succeed, FailForNow, FailForGood, OutOfSteps, Fail, Release,
             ReleaseRefused
      <4> QED
        BY <3>1, <4>1, <4>2, <4>3 DEF Step
    <3>2. CASE \E w \in Worker : Step(w) \/ Renew(w)
      BY <2>2, <3>1, <3>2 DEF Renew
    <3>3. CASE \E w \in Worker, m \in Msg : Resolve(w, m) \/ Retry(w, m)
      BY <3>3 DEF Resolve, Retry
    <3>4. CASE \/ \E m \in Msg : Lapse(m)
               \/ \E p \in Member : SwitchOff(p) \/ SwitchOn(p)
               \/ ResetRetries
               \/ \E p \in Process : Crash(p)
      BY <3>4 DEF Lapse, SwitchOff, SwitchOn, ResetRetries, Crash
    <3> QED
      BY <3>2, <3>3, <3>4 DEF Next
  <2> QED
    BY <2>1, <2>2
<1> QED
  BY <1>1, LeaseInvariant, PTL DEF Spec, SettledStays
=============================================================================
