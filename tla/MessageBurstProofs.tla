------------------------- MODULE MessageBurstProofs -------------------------
(***************************************************************************)
(* More of MessageTurns for any family, threads and bounds: how often a    *)
(* message may be turned to, that a burst is one level deep, that leases   *)
(* alone answer once, and that each message's row is a MessageFate.        *)
(***************************************************************************)
EXTENDS MessageTurnsProofs

USE DEF Nothing

-----------------------------------------------------------------------------
\* The first try.

\* A message is kept by one thread, which alone works on it but for retries.
Early == {"idle", "store"}

FirstInv ==
  /\ \A w \in Worker : pc[w] \notin Early => Stored(job[w])
  /\ \A v, w \in Worker :
       /\ v # w /\ pc[v] \notin Early /\ pc[w] \notin Early
       /\ mode[v] # "retry" /\ mode[w] # "retry"
       => job[v] # job[w]

LEMMA FirstInit == Init => FirstInv
  BY DEF Init, FirstInv, Early

\* Rows stay, and who is past its storing either was or is a retry of a row.
Onward ==
  /\ \A m \in Msg : Stored(m) => Stored(m)'
  /\ \A w \in Worker : pc'[w] \notin Early =>
       \/ pc[w] \notin Early /\ job'[w] = job[w] /\ mode'[w] = mode[w]
       \/ mode'[w] = "retry" /\ job'[w] \in Msg /\ Stored(job'[w])

LEMMA OnwardFirst == ASSUME LockInv, FirstInv, Onward PROVE FirstInv'
<1>1. \A w \in Worker : pc[w] \notin Early => job[w] \in Msg
  BY DEF LockInv, Early
<1> QED
  BY <1>1 DEF FirstInv, Onward

LEMMA FirstNext ==
  ASSUME TypeOK, LockInv, FirstInv, [Next]_vars PROVE FirstInv'
<1>0. \A w \in Worker : pc[w] # "idle" => job[w] \in Msg
  BY DEF LockInv
<1> USE DEF TypeOK, Onward, Early, Move, rows, workers, Stored
<1>1. ASSUME NEW w \in Worker, StoreInbound(w) PROVE FirstInv'
  <2>1. /\ job[w] \in Msg /\ ~Stored(job[w]) /\ Stored(job[w])'
        /\ \A m \in Msg : Stored(m) => Stored(m)'
    BY <1>1, <1>0 DEF StoreInbound
  <2>2. /\ UNCHANGED <<job, mode>>
        /\ \A v \in Worker \ {w} : pc'[v] = pc[v]
    BY <1>1 DEF StoreInbound
  <2>3. \A v \in Worker \ {w} : pc[v] \notin Early => job[v] # job[w] /\ job[v] \in Msg
    BY <1>0, <2>1 DEF FirstInv
  <2> QED
    BY <2>1, <2>2, <2>3 DEF FirstInv
<1>2. ASSUME NEW w \in Worker, ArrivedTwice(w) PROVE FirstInv'
  BY <1>2, <1>0, OnwardFirst DEF ArrivedTwice, Leave
<1>3. ASSUME NEW w \in Worker, HoldForGathering(w) PROVE FirstInv'
  BY <1>3, <1>0, OnwardFirst DEF HoldForGathering
<1>4. ASSUME NEW w \in Worker, TakeChatLock(w) PROVE FirstInv'
  BY <1>4, <1>0, OnwardFirst DEF TakeChatLock, ChatFree
<1>5. ASSUME NEW w \in Worker, LeaveToAnother(w) PROVE FirstInv'
  BY <1>5, <1>0, OnwardFirst DEF LeaveToAnother, ChatFree, Return, Leave
<1>6. ASSUME NEW w \in Worker, AnswerGathered(w) PROVE FirstInv'
  BY <1>6, <1>0, OnwardFirst DEF AnswerGathered, ChatFree
<1>7. ASSUME NEW w \in Worker, LeaseRefused(w) PROVE FirstInv'
  BY <1>7, <1>0, OnwardFirst DEF LeaseRefused, Return, Leave
<1>8. ASSUME NEW w \in Worker, TakeLease(w) PROVE FirstInv'
  BY <1>8, <1>0, OnwardFirst DEF TakeLease, LookAtRow
<1>9. ASSUME NEW w \in Worker, ClaimAlso(w) PROVE FirstInv'
  BY <1>9, <1>0, OnwardFirst DEF ClaimAlso
<1>10. ASSUME NEW w \in Worker, FoldInto(w) PROVE FirstInv'
  BY <1>10, <1>0, OnwardFirst DEF FoldInto
<1>11. ASSUME NEW w \in Worker, DropInactive(w) PROVE FirstInv'
  BY <1>11, <1>0, OnwardFirst DEF DropInactive
<1>12. ASSUME NEW w \in Worker, RefuseKid(w) PROVE FirstInv'
  BY <1>12, <1>0, OnwardFirst DEF RefuseKid, GiveUp, Checking
<1>13. ASSUME NEW w \in Worker, Hear(w) PROVE FirstInv'
  BY <1>13, <1>0, OnwardFirst DEF Hear, Checking
<1>14. ASSUME NEW w \in Worker, NotHeard(w) PROVE FirstInv'
  BY <1>14, <1>0, OnwardFirst DEF NotHeard, GiveUp, Checking
<1>15. ASSUME NEW w \in Worker, StoppedBeforeHeard(w) PROVE FirstInv'
  BY <1>15, <1>0, OnwardFirst DEF StoppedBeforeHeard, GiveUp, Checking
<1>16. ASSUME NEW w \in Worker, ReadWords(w) PROVE FirstInv'
  BY <1>16, <1>0, OnwardFirst DEF ReadWords, Checking
<1>17. ASSUME NEW w \in Worker, RetriesSpent(w) PROVE FirstInv'
  BY <1>17, <1>0, OnwardFirst DEF RetriesSpent
<1>18. ASSUME NEW w \in Worker, StartTurn(w) PROVE FirstInv'
  BY <1>18, <1>0, OnwardFirst DEF StartTurn
<1>19. ASSUME NEW w \in Worker, Succeed(w) PROVE FirstInv'
  BY <1>19, <1>0, OnwardFirst DEF Succeed, InTurn
<1>20. ASSUME NEW w \in Worker, FailForNow(w) PROVE FirstInv'
  BY <1>20, <1>0, OnwardFirst DEF FailForNow, MarkFailed, InTurn
<1>21. ASSUME NEW w \in Worker, FailForGood(w) PROVE FirstInv'
  BY <1>21, <1>0, OnwardFirst DEF FailForGood, GiveUp, InTurn
<1>22. ASSUME NEW w \in Worker, OutOfSteps(w) PROVE FirstInv'
  BY <1>22, <1>0, OnwardFirst DEF OutOfSteps, GiveUp, InTurn
<1>23. ASSUME NEW w \in Worker, Fail(w) PROVE FirstInv'
  BY <1>23, <1>0, OnwardFirst DEF Fail, MarkFailed
<1>24. ASSUME NEW w \in Worker, Release(w) PROVE FirstInv'
  BY <1>24, <1>0, OnwardFirst DEF Release, Return, Leave
<1>25. ASSUME NEW w \in Worker, ReleaseRefused(w) PROVE FirstInv'
  BY <1>25, <1>0, OnwardFirst DEF ReleaseRefused, Return, Leave
<1>26. ASSUME NEW w \in Worker, Renew(w) PROVE FirstInv'
  BY <1>26, <1>0, OnwardFirst DEF Renew
<1>27. ASSUME NEW w \in Worker, NEW m \in Msg, Resolve(w, m) PROVE FirstInv'
  BY <1>27, <1>0, OnwardFirst DEF Resolve, Take
<1>28. ASSUME NEW w \in Worker, NEW m \in Msg, Retry(w, m) PROVE FirstInv'
  BY <1>28, <1>0, OnwardFirst DEF Retry, Take, Pending, Open
<1>29. ASSUME NEW m \in Msg, Lapse(m) PROVE FirstInv'
  BY <1>29, <1>0, OnwardFirst DEF Lapse
<1>30. ASSUME NEW p \in Member, SwitchOff(p) PROVE FirstInv'
  BY <1>30, <1>0, OnwardFirst DEF SwitchOff
<1>31. ASSUME NEW p \in Member, SwitchOn(p) PROVE FirstInv'
  BY <1>31, <1>0, OnwardFirst DEF SwitchOn
<1>32. ASSUME ResetRetries PROVE FirstInv'
  BY <1>32, <1>0, OnwardFirst DEF ResetRetries
<1>33. ASSUME NEW p \in Process, Crash(p) PROVE FirstInv'
  BY <1>33, <1>0, OnwardFirst DEF Crash
<1>34. CASE UNCHANGED vars
  BY <1>34, OnwardFirst DEF vars
<1> QED
  BY <1>1, <1>2, <1>3, <1>4, <1>5, <1>6, <1>7, <1>8, <1>9, <1>10, <1>11,
     <1>12, <1>13, <1>14, <1>15, <1>16, <1>17, <1>18, <1>19, <1>20, <1>21,
     <1>22, <1>23, <1>24, <1>25, <1>26, <1>27, <1>28, <1>29, <1>30, <1>31,
     <1>32, <1>33, <1>34 DEF Next, Step

LEMMA FirstInvariant == Spec => [](TypeOK /\ LockInv /\ FirstInv)
<1>1. TypeOK /\ LockInv /\ FirstInv /\ [Next]_vars => FirstInv'
  BY FirstNext
<1> QED
  BY <1>1, FirstInit, LockInvariant, PTL DEF Spec

-----------------------------------------------------------------------------
\* Retries, as they are read under the lease and compared later.

\* No message is retried more often than settings.retry_max_attempts, and a
\* retry that has looked at its row knows how often that was, or that it was
\* too often: only a reset has come between.
Looked == {"claim_also", "fold", "check", "gate"}
TriesInv ==
  /\ \A m \in Msg : retries[m] <= MaxRetries
  /\ \A w \in Worker : pc[w] \in Looked /\ mode[w] = "retry" =>
       seen[w] = retries[job[w]] \/ seen[w] >= MaxRetries

LEMMA TriesInit == Init => TriesInv
  BY SettingsAssumption DEF Init, TriesInv, Looked

\* No retry is counted, and who has looked had, or does so now.
LookedUp ==
  /\ UNCHANGED retries
  /\ \A w \in Worker : pc'[w] \in Looked =>
       \/ seen'[w] = retries[job'[w]]
       \/ /\ pc[w] \in Looked
          /\ seen'[w] = seen[w] /\ job'[w] = job[w] /\ mode'[w] = mode[w]

LEMMA LookedUpTries == ASSUME TriesInv, LookedUp PROVE TriesInv'
  BY DEF TriesInv, LookedUp

LEMMA StartTurnTries ==
  ASSUME TypeOK, LockInv, OneTurnEach, TriesInv,
         NEW w \in Worker, StartTurn(w)
  PROVE  TriesInv'
<1>1. /\ pc[w] = "gate" /\ job[w] \in Msg
      /\ pc' = [pc EXCEPT ![w] = "think"] /\ UNCHANGED <<job, mode, seen>>
  BY DEF StartTurn, Move, LockInv
<1>2. \A v \in Worker : pc'[v] \in Looked =>
        /\ pc[v] \in Looked /\ v # w /\ job[v] # job[w] /\ job[v] \in Msg
  BY <1>1 DEF Looked, Leased, OneTurnEach, LockInv, TypeOK
<1>3. CASE UNCHANGED retries
  BY <1>1, <1>2, <1>3 DEF TriesInv
<1>4. CASE /\ mode[w] = "retry" /\ seen[w] < MaxRetries
           /\ retries' = [retries EXCEPT ![job[w]] = @ + 1]
  <2>1. seen[w] \in Nat /\ MaxRetries \in Nat /\ \A m \in Msg : retries[m] \in Nat
    BY SettingsAssumption DEF TypeOK
  <2>2. retries[job[w]] < MaxRetries
    BY <1>1, <1>4, <2>1 DEF TriesInv, Looked
  <2>3. /\ retries'[job[w]] = retries[job[w]] + 1
        /\ \A m \in Msg \ {job[w]} : retries'[m] = retries[m]
    BY <1>1, <1>4 DEF TypeOK
  <2>4. \A m \in Msg : retries'[m] <= MaxRetries
    BY <1>1, <2>1, <2>2, <2>3 DEF TriesInv
  <2>5. \A v \in Worker : pc'[v] \in Looked => retries'[job[v]] = retries[job[v]]
    BY <1>2, <2>3
  <2> QED
    BY <1>1, <1>2, <2>4, <2>5 DEF TriesInv
<1> QED
  BY <1>3, <1>4 DEF StartTurn

LEMMA ResetTries ==
  ASSUME TypeOK, LockInv, TriesInv, ResetRetries PROVE TriesInv'
<1>1. /\ \A m \in Msg : \/ retries'[m] = retries[m]
                        \/ retries[m] >= MaxRetries /\ retries'[m] = 0
      /\ UNCHANGED <<pc, job, mode, seen>>
  BY DEF ResetRetries, workers
<1>2. \A w \in Worker : pc[w] \in Looked => job[w] \in Msg
  BY DEF LockInv, Looked
<1>3. MaxRetries \in Nat
  BY SettingsAssumption
<1>4. \A m \in Msg : retries'[m] <= MaxRetries
  BY <1>1, <1>3 DEF TriesInv
<1> QED
  BY <1>1, <1>2, <1>4 DEF TriesInv

LEMMA TriesNext ==
  ASSUME TypeOK, LockInv, OneTurnEach, TriesInv, [Next]_vars
  PROVE  TriesInv'
<1> USE DEF TypeOK, LookedUp, Looked, Move, rows, workers
<1>1. ASSUME NEW w \in Worker, StoreInbound(w) PROVE TriesInv'
  BY <1>1, LookedUpTries DEF StoreInbound
<1>2. ASSUME NEW w \in Worker, ArrivedTwice(w) PROVE TriesInv'
  BY <1>2, LookedUpTries DEF ArrivedTwice, Leave
<1>3. ASSUME NEW w \in Worker, HoldForGathering(w) PROVE TriesInv'
  BY <1>3, LookedUpTries DEF HoldForGathering
<1>4. ASSUME NEW w \in Worker, TakeChatLock(w) PROVE TriesInv'
  BY <1>4, LookedUpTries DEF TakeChatLock, ChatFree
<1>5. ASSUME NEW w \in Worker, LeaveToAnother(w) PROVE TriesInv'
  BY <1>5, LookedUpTries DEF LeaveToAnother, ChatFree, Return, Leave
<1>6. ASSUME NEW w \in Worker, AnswerGathered(w) PROVE TriesInv'
  BY <1>6, LookedUpTries DEF AnswerGathered, ChatFree
<1>7. ASSUME NEW w \in Worker, LeaseRefused(w) PROVE TriesInv'
  BY <1>7, LookedUpTries DEF LeaseRefused, Return, Leave
<1>8. ASSUME NEW w \in Worker, TakeLease(w) PROVE TriesInv'
  BY <1>8, LookedUpTries DEF TakeLease, LookAtRow
<1>9. ASSUME NEW w \in Worker, ClaimAlso(w) PROVE TriesInv'
  BY <1>9, LookedUpTries DEF ClaimAlso
<1>10. ASSUME NEW w \in Worker, FoldInto(w) PROVE TriesInv'
  BY <1>10, LookedUpTries DEF FoldInto
<1>11. ASSUME NEW w \in Worker, DropInactive(w) PROVE TriesInv'
  BY <1>11, LookedUpTries DEF DropInactive
<1>12. ASSUME NEW w \in Worker, RefuseKid(w) PROVE TriesInv'
  BY <1>12, LookedUpTries DEF RefuseKid, GiveUp, Checking
<1>13. ASSUME NEW w \in Worker, Hear(w) PROVE TriesInv'
  BY <1>13, LookedUpTries DEF Hear, Checking
<1>14. ASSUME NEW w \in Worker, NotHeard(w) PROVE TriesInv'
  BY <1>14, LookedUpTries DEF NotHeard, GiveUp, Checking
<1>15. ASSUME NEW w \in Worker, StoppedBeforeHeard(w) PROVE TriesInv'
  BY <1>15, LookedUpTries DEF StoppedBeforeHeard, GiveUp, Checking
<1>16. ASSUME NEW w \in Worker, ReadWords(w) PROVE TriesInv'
  BY <1>16, LookedUpTries DEF ReadWords, Checking
<1>17. ASSUME NEW w \in Worker, RetriesSpent(w) PROVE TriesInv'
  BY <1>17, LookedUpTries DEF RetriesSpent
<1>18. ASSUME NEW w \in Worker, StartTurn(w) PROVE TriesInv'
  BY <1>18, StartTurnTries
<1>19. ASSUME NEW w \in Worker, Succeed(w) PROVE TriesInv'
  BY <1>19, LookedUpTries DEF Succeed, InTurn
<1>20. ASSUME NEW w \in Worker, FailForNow(w) PROVE TriesInv'
  BY <1>20, LookedUpTries DEF FailForNow, MarkFailed, InTurn
<1>21. ASSUME NEW w \in Worker, FailForGood(w) PROVE TriesInv'
  BY <1>21, LookedUpTries DEF FailForGood, GiveUp, InTurn
<1>22. ASSUME NEW w \in Worker, OutOfSteps(w) PROVE TriesInv'
  BY <1>22, LookedUpTries DEF OutOfSteps, GiveUp, InTurn
<1>23. ASSUME NEW w \in Worker, Fail(w) PROVE TriesInv'
  BY <1>23, LookedUpTries DEF Fail, MarkFailed
<1>24. ASSUME NEW w \in Worker, Release(w) PROVE TriesInv'
  BY <1>24, LookedUpTries DEF Release, Return, Leave
<1>25. ASSUME NEW w \in Worker, ReleaseRefused(w) PROVE TriesInv'
  BY <1>25, LookedUpTries DEF ReleaseRefused, Return, Leave
<1>26. ASSUME NEW w \in Worker, Renew(w) PROVE TriesInv'
  BY <1>26, LookedUpTries DEF Renew
<1>27. ASSUME NEW w \in Worker, NEW m \in Msg, Resolve(w, m) PROVE TriesInv'
  BY <1>27, LookedUpTries DEF Resolve, Take
<1>28. ASSUME NEW w \in Worker, NEW m \in Msg, Retry(w, m) PROVE TriesInv'
  BY <1>28, LookedUpTries DEF Retry, Take, Pending, Open
<1>29. ASSUME NEW m \in Msg, Lapse(m) PROVE TriesInv'
  BY <1>29, LookedUpTries DEF Lapse
<1>30. ASSUME NEW p \in Member, SwitchOff(p) PROVE TriesInv'
  BY <1>30, LookedUpTries DEF SwitchOff
<1>31. ASSUME NEW p \in Member, SwitchOn(p) PROVE TriesInv'
  BY <1>31, LookedUpTries DEF SwitchOn
<1>32. ASSUME ResetRetries PROVE TriesInv'
  BY <1>32, ResetTries
<1>33. ASSUME NEW p \in Process, Crash(p) PROVE TriesInv'
  BY <1>33, LookedUpTries DEF Crash
<1>34. CASE UNCHANGED vars
  BY <1>34, LookedUpTries DEF vars
<1> QED
  BY <1>1, <1>2, <1>3, <1>4, <1>5, <1>6, <1>7, <1>8, <1>9, <1>10, <1>11,
     <1>12, <1>13, <1>14, <1>15, <1>16, <1>17, <1>18, <1>19, <1>20, <1>21,
     <1>22, <1>23, <1>24, <1>25, <1>26, <1>27, <1>28, <1>29, <1>30, <1>31,
     <1>32, <1>33, <1>34 DEF Next, Step

-----------------------------------------------------------------------------
\* How often a message is turned to.

\* Whether its first turn is still to come.
Before == {"hold", "lock", "lease", "claim_also", "fold", "check", "gate"}
Ahead(m) ==
  \/ ~Stored(m)
  \/ \E w \in Worker : pc[w] \in Before /\ mode[w] # "retry" /\ job[w] = m

\* Every turn but the first is a retry that was counted, before a reset or since.
TurnInv ==
  \A m \in Msg :
    turns[m] <= retries[m] + MaxRetries * resets + (IF Ahead(m) THEN 0 ELSE 1)

LEMMA TurnInit == Init => TurnInv
  BY SettingsAssumption DEF Init, TurnInv, Ahead, Stored

\* No turn is begun, and no first turn is to come that was not.
Steady ==
  /\ UNCHANGED <<turns, retries, resets>>
  /\ \A m \in Msg : Stored(m) => Stored(m)'
  /\ \A w \in Worker : pc'[w] \in Before /\ mode'[w] # "retry" =>
       /\ job'[w] = job[w]
       /\ (pc[w] \in Before /\ mode[w] # "retry") \/ ~Stored(job[w])

LEMMA SteadyTurns == ASSUME TypeOK, TurnInv, Steady PROVE TurnInv'
<1>1. \A m \in Msg : Ahead(m)' => Ahead(m)
  BY DEF Steady, Ahead
<1>2. \A m \in Msg : turns[m] \in Nat /\ retries[m] \in Nat
  BY SettingsAssumption DEF TypeOK
<1>3. MaxRetries * resets \in Nat
  BY SettingsAssumption DEF TypeOK
<1> DEFINE past == MaxRetries * resets
<1>4. past' = past
  BY DEF Steady
<1> HIDE DEF past
<1> SUFFICES ASSUME NEW m \in Msg
             PROVE  turns'[m] <= retries'[m] + past' + (IF Ahead(m)' THEN 0 ELSE 1)
  BY DEF TurnInv, past
<1>5. turns[m] <= retries[m] + past + (IF Ahead(m) THEN 0 ELSE 1) /\ past \in Nat
  BY <1>3 DEF TurnInv, past
<1>6. turns'[m] = turns[m] /\ retries'[m] = retries[m]
  BY DEF Steady
<1> QED
  BY <1>1, <1>2, <1>4, <1>5, <1>6

\* A turn begun is the first one, or counted.
LEMMA StartTurnTurns ==
  ASSUME TypeOK, LockInv, FirstInv, TurnInv, NEW w \in Worker, StartTurn(w) PROVE TurnInv'
<1> DEFINE n == job[w]
           past == MaxRetries * resets
<1>1. /\ pc[w] = "gate" /\ n \in Msg /\ Stored(n)
      /\ turns' = [turns EXCEPT ![n] = @ + 1] /\ pc' = [pc EXCEPT ![w] = "think"]
      /\ UNCHANGED <<status, job, mode, resets>>
  BY DEF StartTurn, Move, LockInv, FirstInv, Early
<1>2. \A m \in Msg : Ahead(m)' => Ahead(m)
  BY <1>1 DEF Ahead, Stored, Before, TypeOK
<1>3. past' = past /\ past \in Nat
  BY <1>1, SettingsAssumption DEF TypeOK
<1>4. \A m \in Msg : turns[m] \in Nat /\ retries[m] \in Nat
  BY SettingsAssumption DEF TypeOK
<1>5. \A m \in Msg : turns[m] <= retries[m] + past + (IF Ahead(m) THEN 0 ELSE 1)
  BY DEF TurnInv
<1>6. turns'[n] = turns[n] + 1 /\ \A m \in Msg \ {n} : turns'[m] = turns[m]
  BY <1>1 DEF TypeOK
<1>7. CASE mode[w] # "retry" /\ UNCHANGED retries
  <2>1. ASSUME NEW m \in Msg, m = n PROVE Ahead(m) /\ ~Ahead(m)'
    <3>1. Ahead(m)
      BY <1>1, <1>7, <2>1 DEF Ahead, Before
    <3>2. Stored(m)'
      BY <1>1, <2>1 DEF Stored
    <3>3. \A v \in Worker : pc'[v] \in Before /\ mode'[v] # "retry" => job'[v] # m
      <4>1. pc'[w] \notin Before /\ \A v \in Worker \ {w} : pc'[v] = pc[v]
        BY <1>1 DEF Before, TypeOK
      <4>2. \A v \in Worker \ {w} : pc[v] \in Before /\ mode[v] # "retry" => job[v] # job[w]
        BY <1>1, <1>7 DEF Before, FirstInv, Early
      <4> QED
        BY <1>1, <2>1, <4>1, <4>2
    <3> QED
      BY <3>1, <3>2, <3>3 DEF Ahead
  <2> HIDE DEF past
  <2>2. ASSUME NEW m \in Msg, m = n
        PROVE  turns'[m] <= retries'[m] + past' + (IF Ahead(m)' THEN 0 ELSE 1)
    <3>1. turns[m] <= retries[m] + past
      BY <2>1, <2>2, <1>3, <1>4, <1>5
    <3>2. turns'[m] = turns[m] + 1 /\ retries'[m] = retries[m] /\ past' = past
      BY <1>3, <1>6, <1>7, <2>2
    <3> QED
      BY <2>1, <2>2, <3>1, <3>2, <1>3, <1>4
  <2>3. ASSUME NEW m \in Msg, m # n
        PROVE  turns'[m] <= retries'[m] + past' + (IF Ahead(m)' THEN 0 ELSE 1)
    <3>1. turns'[m] = turns[m] /\ retries'[m] = retries[m] /\ past' = past
      BY <1>3, <1>6, <1>7, <2>3
    <3> QED
      BY <3>1, <1>2, <1>3, <1>4, <1>5
  <2> QED
    BY <2>2, <2>3 DEF TurnInv, past
<1>8. CASE retries' = [retries EXCEPT ![n] = @ + 1]
  <2>1. retries'[n] = retries[n] + 1 /\ \A m \in Msg \ {n} : retries'[m] = retries[m]
    BY <1>1, <1>8 DEF TypeOK
  <2> HIDE DEF past
  <2>2. \A m \in Msg : turns'[m] <= retries'[m] + past' + (IF Ahead(m)' THEN 0 ELSE 1)
    BY <2>1, <1>1, <1>2, <1>3, <1>4, <1>5, <1>6
  <2> QED
    BY <2>2 DEF TurnInv, past
<1> QED
  BY <1>7, <1>8 DEF StartTurn

\* A reset takes away at most what it allows.
LEMMA ResetTurns ==
  ASSUME TypeOK, TriesInv, TurnInv, ResetRetries PROVE TurnInv'
<1> DEFINE past == MaxRetries * resets
<1>1. UNCHANGED <<turns, status, pc, job, mode>> /\ resets' = resets + 1
  BY DEF ResetRetries, workers
<1>2. \A m \in Msg : Ahead(m)' = Ahead(m)
  BY <1>1 DEF Ahead, Stored
<1>3. past \in Nat /\ past' = past + MaxRetries /\ MaxRetries \in Nat
  BY <1>1, SettingsAssumption DEF TypeOK
<1>4. \A m \in Msg : /\ turns[m] \in Nat /\ retries[m] \in 0..MaxRetries
                      /\ retries'[m] \in {0, retries[m]}
  BY SettingsAssumption DEF TypeOK, TriesInv, ResetRetries
<1>5. \A m \in Msg : turns[m] <= retries[m] + past + (IF Ahead(m) THEN 0 ELSE 1)
  BY DEF TurnInv
<1> HIDE DEF past
<1>6. \A m \in Msg : turns'[m] <= retries'[m] + past' + (IF Ahead(m)' THEN 0 ELSE 1)
  BY <1>1, <1>2, <1>3, <1>4, <1>5
<1> QED
  BY <1>6 DEF TurnInv, past

LEMMA TurnNext ==
  ASSUME TypeOK, LockInv, FirstInv, TriesInv, TurnInv, [Next]_vars
  PROVE  TurnInv'
<1> USE DEF TypeOK, Steady, Before, Move, rows, workers, counters, Stored
<1>1. ASSUME NEW w \in Worker, StoreInbound(w) PROVE TurnInv'
  BY <1>1, SteadyTurns DEF StoreInbound
<1>2. ASSUME NEW w \in Worker, ArrivedTwice(w) PROVE TurnInv'
  BY <1>2, SteadyTurns DEF ArrivedTwice, Leave
<1>3. ASSUME NEW w \in Worker, HoldForGathering(w) PROVE TurnInv'
  BY <1>3, SteadyTurns DEF HoldForGathering
<1>4. ASSUME NEW w \in Worker, TakeChatLock(w) PROVE TurnInv'
  BY <1>4, SteadyTurns DEF TakeChatLock, ChatFree
<1>5. ASSUME NEW w \in Worker, LeaveToAnother(w) PROVE TurnInv'
  BY <1>5, SteadyTurns DEF LeaveToAnother, ChatFree, Return, Leave
<1>6. ASSUME NEW w \in Worker, AnswerGathered(w) PROVE TurnInv'
  BY <1>6, SteadyTurns DEF AnswerGathered, ChatFree
<1>7. ASSUME NEW w \in Worker, LeaseRefused(w) PROVE TurnInv'
  BY <1>7, SteadyTurns DEF LeaseRefused, Return, Leave
<1>8. ASSUME NEW w \in Worker, TakeLease(w) PROVE TurnInv'
  BY <1>8, SteadyTurns DEF TakeLease, LookAtRow
<1>9. ASSUME NEW w \in Worker, ClaimAlso(w) PROVE TurnInv'
  BY <1>9, SteadyTurns DEF ClaimAlso
<1>10. ASSUME NEW w \in Worker, FoldInto(w) PROVE TurnInv'
  BY <1>10, SteadyTurns DEF FoldInto
<1>11. ASSUME NEW w \in Worker, DropInactive(w) PROVE TurnInv'
  BY <1>11, SteadyTurns DEF DropInactive
<1>12. ASSUME NEW w \in Worker, RefuseKid(w) PROVE TurnInv'
  BY <1>12, SteadyTurns DEF RefuseKid, GiveUp, Checking
<1>13. ASSUME NEW w \in Worker, Hear(w) PROVE TurnInv'
  BY <1>13, SteadyTurns DEF Hear, Checking
<1>14. ASSUME NEW w \in Worker, NotHeard(w) PROVE TurnInv'
  BY <1>14, SteadyTurns DEF NotHeard, GiveUp, Checking
<1>15. ASSUME NEW w \in Worker, StoppedBeforeHeard(w) PROVE TurnInv'
  BY <1>15, SteadyTurns DEF StoppedBeforeHeard, GiveUp, Checking
<1>16. ASSUME NEW w \in Worker, ReadWords(w) PROVE TurnInv'
  BY <1>16, SteadyTurns DEF ReadWords, Checking
<1>17. ASSUME NEW w \in Worker, RetriesSpent(w) PROVE TurnInv'
  BY <1>17, SteadyTurns DEF RetriesSpent
<1>18. ASSUME NEW w \in Worker, StartTurn(w) PROVE TurnInv'
  BY <1>18, StartTurnTurns
<1>19. ASSUME NEW w \in Worker, Succeed(w) PROVE TurnInv'
  BY <1>19, SteadyTurns DEF Succeed, InTurn
<1>20. ASSUME NEW w \in Worker, FailForNow(w) PROVE TurnInv'
  BY <1>20, SteadyTurns DEF FailForNow, MarkFailed, InTurn
<1>21. ASSUME NEW w \in Worker, FailForGood(w) PROVE TurnInv'
  BY <1>21, SteadyTurns DEF FailForGood, GiveUp, InTurn
<1>22. ASSUME NEW w \in Worker, OutOfSteps(w) PROVE TurnInv'
  BY <1>22, SteadyTurns DEF OutOfSteps, GiveUp, InTurn
<1>23. ASSUME NEW w \in Worker, Fail(w) PROVE TurnInv'
  BY <1>23, SteadyTurns DEF Fail, MarkFailed
<1>24. ASSUME NEW w \in Worker, Release(w) PROVE TurnInv'
  BY <1>24, SteadyTurns DEF Release, Return, Leave
<1>25. ASSUME NEW w \in Worker, ReleaseRefused(w) PROVE TurnInv'
  BY <1>25, SteadyTurns DEF ReleaseRefused, Return, Leave
<1>26. ASSUME NEW w \in Worker, Renew(w) PROVE TurnInv'
  BY <1>26, SteadyTurns DEF Renew
<1>27. ASSUME NEW w \in Worker, NEW m \in Msg, Resolve(w, m) PROVE TurnInv'
  BY <1>27, SteadyTurns DEF Resolve, Take
<1>28. ASSUME NEW w \in Worker, NEW m \in Msg, Retry(w, m) PROVE TurnInv'
  BY <1>28, SteadyTurns DEF Retry, Take, Pending, Open
<1>29. ASSUME NEW m \in Msg, Lapse(m) PROVE TurnInv'
  BY <1>29, SteadyTurns DEF Lapse
<1>30. ASSUME NEW p \in Member, SwitchOff(p) PROVE TurnInv'
  BY <1>30, SteadyTurns DEF SwitchOff
<1>31. ASSUME NEW p \in Member, SwitchOn(p) PROVE TurnInv'
  BY <1>31, SteadyTurns DEF SwitchOn
<1>32. ASSUME ResetRetries PROVE TurnInv'
  BY <1>32, ResetTurns
<1>33. ASSUME NEW p \in Process, Crash(p) PROVE TurnInv'
  BY <1>33, SteadyTurns DEF Crash
<1>34. CASE UNCHANGED vars
  BY <1>34, SteadyTurns DEF vars
<1> QED
  BY <1>1, <1>2, <1>3, <1>4, <1>5, <1>6, <1>7, <1>8, <1>9, <1>10, <1>11,
     <1>12, <1>13, <1>14, <1>15, <1>16, <1>17, <1>18, <1>19, <1>20, <1>21,
     <1>22, <1>23, <1>24, <1>25, <1>26, <1>27, <1>28, <1>29, <1>30, <1>31,
     <1>32, <1>33, <1>34 DEF Next, Step

LEMMA TurnsCounted == TypeOK /\ TriesInv /\ TurnInv => TurnsBounded
<1> SUFFICES ASSUME TypeOK, TriesInv, TurnInv, NEW m \in Msg
             PROVE  turns[m] <= 1 + MaxRetries * (1 + resets)
  BY DEF TurnsBounded
<1> DEFINE past == MaxRetries * resets
<1>1. MaxRetries * (1 + resets) = MaxRetries + past /\ past \in Nat
  BY SettingsAssumption DEF TypeOK
<1>2. turns[m] \in Nat /\ retries[m] \in 0..MaxRetries /\ MaxRetries \in Nat
  BY SettingsAssumption DEF TypeOK, TriesInv
<1>3. turns[m] <= retries[m] + past + (IF Ahead(m) THEN 0 ELSE 1)
  BY DEF TurnInv
<1> HIDE DEF past
<1> QED
  BY <1>1, <1>2, <1>3

\* What was read under a claim is still so when it is compared, as long as no
\* two workers are at one message.
LEMMA TurnsOneAtATime == Spec /\ []OneTurnEach => []TurnsBounded
<1>1. Init => TriesInv /\ TurnInv
  BY TriesInit, TurnInit
<1>2. /\ TypeOK /\ LockInv /\ FirstInv /\ OneTurnEach
      /\ TriesInv /\ TurnInv /\ [Next]_vars
      => TriesInv' /\ TurnInv'
  BY TriesNext, TurnNext
<1> QED
  BY <1>1, <1>2, TurnsCounted, FirstInvariant, PTL DEF Spec

\* Every turn is paid for, and a message gets its first try and MaxRetries more,
\* and those again for each reset: however many jobs of the service have it on
\* their lists, however often the service stops in a turn, and though claims
\* lapse under it.
THEOREM ServiceBoundsTurns == ASSUME ServiceAlone PROVE Spec => []TurnsBounded
<1> QED
  BY ServiceTakesTurns, TurnsOneAtATime, PTL

\* The same of any number of processes, while claims last.  Past a claim that
\* lapsed, two processes may each find the last try unused and make it.
THEOREM LeasesBoundTurns == ASSUME LeasesLast PROVE Spec => []TurnsBounded
<1> QED
  BY LeasesTakeTurns, TurnsOneAtATime, PTL

-----------------------------------------------------------------------------
\* Bursts.

\* What is folded went into an open message of the same sender that came after,
\* and that nobody will hold for gathering again.
Folded ==
  \A m, n \in Msg : replyTo[m] = n =>
    /\ replyTo[n] = Nothing /\ Stored(n) /\ rowId[m] < rowId[n]
    /\ From[m] = From[n] /\ ChatOf[m] = ChatOf[n]
    /\ claim[n] # "gather" /\ \A w \in Worker : pc[w] = "hold" => job[w] # n

\* A burst is of the thread that keeps its last message, and once it is claimed
\* nothing was folded into any of it.
Bursts ==
  \A w \in Worker :
    /\ pc[w] \in {"hold", "claim_also", "fold"} \/ burst[w] # {} => mode[w] = "gather"
    /\ pc[w] \in {"claim_also", "fold"} => claim[job[w]] # "gather"
    /\ pc[w] \in {"lease", "claim_also", "fold"} =>
         \A n \in burst[w] : Stored(n) /\ rowId[n] < rowId[job[w]] /\ From[n] = From[job[w]]
    /\ pc[w] = "fold" => \A n \in burst[w], m \in Msg : replyTo[m] # n

LEMMA FoldStart == Init => Folded /\ Bursts
  BY MessagesAssumption DEF Init, Folded, Bursts

\* Nothing is folded or numbered, no message is held for gathering, and bursts
\* are those there were.
Plain ==
  /\ UNCHANGED <<replyTo, rowId>>
  /\ \A m \in Msg : Stored(m) => Stored(m)'
  /\ \A m \in Msg : claim'[m] = "gather" => claim[m] = "gather"
  /\ \A w \in Worker :
       \/ pc'[w] \notin {"hold", "lease", "claim_also", "fold"} /\ burst'[w] \in {{}, burst[w]}
          /\ mode'[w] = mode[w]
       \/ pc'[w] \notin {"hold", "lease", "claim_also", "fold"} /\ burst'[w] = {}
       \/ pc'[w] = pc[w] /\ job'[w] = job[w] /\ mode'[w] = mode[w] /\ burst'[w] = burst[w]

LEMMA PlainFolds ==
  ASSUME TypeOK, LockInv, Folded, Bursts, Plain PROVE Folded' /\ Bursts'
<1>1. \A w \in Worker : pc[w] # "idle" => job[w] \in Msg
  BY DEF LockInv
<1>2. Folded'
  BY DEF Folded, Plain
<1>3. Bursts'
  BY <1>1 DEF Bursts, Plain, TypeOK
<1> QED
  BY <1>2, <1>3

LEMMA FoldNext ==
  ASSUME ServiceAlone, TypeOK, LockInv, FirstInv, AnswerInv, Folded, Bursts, [Next]_vars
  PROVE  Folded' /\ Bursts'
<1>0. \A w \in Worker : pc[w] # "idle" => job[w] \in Msg
  BY DEF LockInv
<1>00. \A w \in Worker : pc[w] \in {"idle", "store", "hold", "lock"} => burst[w] = {}
  BY DEF AnswerInv
<1>1. ASSUME NEW w \in Worker, StoreInbound(w) PROVE Folded' /\ Bursts'
  <2>0. /\ job[w] \in Msg /\ ~Stored(job[w]) /\ pc[w] = "store"
        /\ status' = [status EXCEPT ![job[w]] = "received"]
        /\ rowId' = [rowId EXCEPT ![job[w]] = NextId]
        /\ pc' = [pc EXCEPT ![w] = IF mode[w] = "gather" THEN "hold" ELSE "lock"]
        /\ UNCHANGED <<replyTo, claim, job, mode, burst>>
    BY <1>1, <1>0 DEF StoreInbound, Move, claims
  <2>1. /\ job[w] \in Msg /\ ~Stored(job[w]) /\ pc[w] = "store"
        /\ \A m \in Msg : Stored(m) => Stored(m)' /\ rowId'[m] = rowId[m]
        /\ UNCHANGED <<replyTo, claim, job, mode, burst>>
        /\ \A v \in Worker \ {w} : pc'[v] = pc[v]
        /\ pc'[w] \in {"hold", "lock"} /\ (pc'[w] = "hold" => mode[w] = "gather")
    BY <2>0 DEF Stored, TypeOK
  <2>2. Folded'
    <3> SUFFICES ASSUME NEW m \in Msg, NEW n \in Msg, replyTo[m] = n
                 PROVE  /\ replyTo[n] = Nothing /\ Stored(n)' /\ rowId'[m] < rowId'[n]
                        /\ From[m] = From[n] /\ ChatOf[m] = ChatOf[n]
                        /\ claim[n] # "gather" /\ \A v \in Worker : pc'[v] = "hold" => job[v] # n
      BY <2>1 DEF Folded
    <3>1. /\ replyTo[n] = Nothing /\ Stored(n) /\ rowId[m] < rowId[n] /\ n # job[w]
          /\ From[m] = From[n] /\ ChatOf[m] = ChatOf[n]
          /\ claim[n] # "gather" /\ \A v \in Worker : pc[v] = "hold" => job[v] # n
      BY <2>1 DEF Folded
    <3>2. Stored(m)
      BY MessagesAssumption DEF AnswerInv, Stored
    <3> QED
      BY <2>1, <3>1, <3>2
  <2>3. \A v \in Worker : pc[v] \notin Early => job[v] \in Msg /\ Stored(job[v])
    BY <1>0 DEF FirstInv, Early
  <2>4. burst[w] = {}
    BY <2>1 DEF AnswerInv
  <2>5. \A v \in Worker \ {w} :
          pc[v] \in {"lease", "claim_also", "fold"} =>
            \A n \in burst[v] : /\ Stored(n)' /\ From[n] = From[job[v]]
                                /\ rowId'[n] < rowId'[job[v]]
    <3> SUFFICES ASSUME NEW v \in Worker \ {w}, pc[v] \in {"lease", "claim_also", "fold"},
                        NEW n \in burst[v]
                 PROVE  Stored(n)' /\ From[n] = From[job[v]] /\ rowId'[n] < rowId'[job[v]]
      OBVIOUS
    <3>1. n \in Msg /\ Stored(n) /\ From[n] = From[job[v]] /\ rowId[n] < rowId[job[v]]
      BY DEF Bursts, TypeOK
    <3>2. job[v] \in Msg /\ Stored(job[v])
      BY <2>3 DEF Early
    <3> QED
      BY <2>1, <3>1, <3>2
  <2>6. Bursts'
    BY <2>1, <2>4, <2>5 DEF Bursts
  <2> QED
    BY <2>2, <2>6
<1>2. ASSUME NEW w \in Worker, ArrivedTwice(w) PROVE Folded' /\ Bursts'
  BY <1>2, <1>0, <1>00, WorkersAssumption, PlainFolds
  DEF ArrivedTwice, Leave, Marks, TypeOK, Plain, Move, rows, claims, workers, Stored
<1>3. ASSUME NEW w \in Worker, HoldForGathering(w) PROVE Folded' /\ Bursts'
  <2>1. /\ pc[w] = "hold" /\ job[w] \in Msg /\ UNCHANGED <<rows, job, mode, burst>>
        /\ claim' = [claim EXCEPT ![job[w]] = "gather"] /\ pc' = [pc EXCEPT ![w] = "lock"]
    BY <1>3, <1>0 DEF HoldForGathering, Move
  <2>2. \A m \in Msg : replyTo[m] # job[w]
    BY <2>1 DEF Folded
  <2>3. Folded'
    BY <2>1, <2>2 DEF Folded, rows, Stored, TypeOK
  <2>4. \A v \in Worker : pc[v] \in {"claim_also", "fold"} => job[v] # job[w]
    BY <2>1 DEF Bursts, FirstInv, Early
  <2>5. Bursts'
    BY <2>1, <2>4 DEF Bursts, rows, Stored, TypeOK
  <2> QED
    BY <2>3, <2>5
<1>4. ASSUME NEW w \in Worker, TakeChatLock(w) PROVE Folded' /\ Bursts'
  <2>1. /\ pc[w] = "lock" /\ burst[w] = {} /\ pc' = [pc EXCEPT ![w] = "lease"]
        /\ UNCHANGED <<rows, claim, job, mode, burst>>
    BY <1>4 DEF TakeChatLock, ChatFree, Move, AnswerInv, claims
  <2> QED
    BY <2>1 DEF Folded, Bursts, rows, Stored, TypeOK
<1>5. ASSUME NEW w \in Worker, LeaveToAnother(w) PROVE Folded' /\ Bursts'
  BY <1>5, <1>0, <1>00, WorkersAssumption, PlainFolds
  DEF LeaveToAnother, ChatFree, Return, Leave, Marks, TypeOK,
      Plain, Move, rows, claims, workers, Stored
<1>6. ASSUME NEW w \in Worker, AnswerGathered(w) PROVE Folded' /\ Bursts'
  <2>1. /\ pc[w] = "lock" /\ mode[w] = "gather" /\ pc' = [pc EXCEPT ![w] = "lease"]
        /\ burst' = [burst EXCEPT ![w] = Earlier(job[w])]
        /\ UNCHANGED <<rows, claim, job, mode>>
    BY <1>6 DEF AnswerGathered, ChatFree, claims
  <2>2. \A n \in Earlier(job[w]) :
          Stored(n) /\ rowId[n] < rowId[job[w]] /\ From[n] = From[job[w]]
    BY DEF Earlier, Gathering, Stored
  <2>3. Folded'
    BY <2>1 DEF Folded, rows, Stored, TypeOK
  <2>4. Bursts'
    BY <2>1, <2>2 DEF Bursts, rows, Stored, TypeOK
  <2> QED
    BY <2>3, <2>4
<1>7. ASSUME NEW w \in Worker, LeaseRefused(w) PROVE Folded' /\ Bursts'
  BY <1>7, <1>0, <1>00, WorkersAssumption, PlainFolds
  DEF LeaseRefused, Return, Leave, Marks, TypeOK, Plain, Move, rows, claims, workers, Stored
<1>8. ASSUME NEW w \in Worker, TakeLease(w) PROVE Folded' /\ Bursts'
  <2>1. /\ pc[w] = "lease" /\ job[w] \in Msg /\ UNCHANGED <<rows, job, mode, burst>>
        /\ claim' = [claim EXCEPT ![job[w]] = w] /\ w # "gather"
        /\ pc'[w] \in {"release", "claim_also", "check"} /\ (pc'[w] = "claim_also" => burst[w] # {})
        /\ \A v \in Worker \ {w} : pc'[v] = pc[v]
    BY <1>8, <1>0, WorkersAssumption DEF TakeLease, LookAtRow, Move, Marks, TypeOK
  <2>2. Folded'
    BY <2>1 DEF Folded, rows, Stored, TypeOK
  <2>3. Bursts'
    BY <2>1 DEF Bursts, rows, Stored, TypeOK
  <2> QED
    BY <2>2, <2>3
<1>9. ASSUME NEW w \in Worker, ClaimAlso(w) PROVE Folded' /\ Bursts'
  <2> DEFINE taken == {n \in burst[w] : Held(n)}
  <2>1. /\ pc[w] = "claim_also" /\ UNCHANGED <<rows, job, mode>> /\ w # "gather"
        /\ claim' = [n \in Msg |-> IF n \in taken THEN w ELSE claim[n]]
        /\ burst' = [burst EXCEPT ![w] = taken]
        /\ pc'[w] \in {"check", "fold"}
        /\ \A v \in Worker \ {w} : pc'[v] = pc[v]
    BY <1>9, WorkersAssumption DEF ClaimAlso, Marks, TypeOK
  <2>2. \A n \in taken, m \in Msg : replyTo[m] # n
    BY DEF Held, Folded, TypeOK
  <2>3. taken \subseteq burst[w]
    OBVIOUS
  <2> HIDE DEF taken
  <2>4. Folded'
    BY <2>1 DEF Folded, rows, Stored
  <2>5. /\ burst'[w] = taken /\ \A v \in Worker \ {w} : burst'[v] = burst[v]
        /\ \A v \in Worker : pc[v] # "idle" => job[v] \in Msg
    BY <1>0, <2>1 DEF TypeOK
  <2>6. Bursts'
    BY <2>1, <2>2, <2>3, <2>5 DEF Bursts, rows, Stored
  <2> QED
    BY <2>4, <2>6
<1>10. ASSUME NEW w \in Worker, FoldInto(w) PROVE Folded' /\ Bursts'
  <2> DEFINE n == job[w]
  <2>1. /\ pc[w] = "fold" /\ n \in Msg /\ burst[w] \subseteq Msg
        /\ status' = [k \in Msg |-> IF k \in burst[w] THEN "processed" ELSE status[k]]
        /\ replyTo' = [k \in Msg |-> IF k \in burst[w] THEN n ELSE replyTo[k]]
        /\ pc' = [pc EXCEPT ![w] = "check"] /\ UNCHANGED <<job, mode, burst, rowId, claim>>
    BY <1>10, <1>0 DEF FoldInto, Move, claims, TypeOK
  <2>2. /\ n \notin burst[w] /\ replyTo[n] = Nothing /\ Stored(n) /\ claim[n] # "gather"
        /\ \A v \in Worker : pc[v] = "hold" => job[v] # n
        /\ \A k \in burst[w] : /\ Stored(k) /\ rowId[k] < rowId[n]
                               /\ From[k] = From[n] /\ ChatOf[k] = ChatOf[n]
        /\ \A k \in burst[w], m \in Msg : replyTo[m] # k
    <3>1. status[n] # "processed" /\ n \notin burst[w]
      BY <2>1 DEF AnswerInv, Leased
    <3>2. replyTo[n] = Nothing
      BY <2>1, <3>1 DEF AnswerInv
    <3>3. \A v \in Worker : pc[v] = "hold" => job[v] # n
      BY <2>1 DEF Bursts, FirstInv, Early
    <3>4. Stored(n)
      BY <2>1 DEF FirstInv, Early
    <3> QED
      BY <2>1, <3>1, <3>2, <3>3, <3>4 DEF Bursts, AnswerInv
  <2>3. \A k \in Msg : Stored(k) => Stored(k)'
    BY <2>1 DEF Stored
  <2> HIDE DEF n
  <2>4. Folded'
    <3> SUFFICES ASSUME NEW k \in Msg, NEW m \in Msg, replyTo'[k] = m
                 PROVE  /\ replyTo'[m] = Nothing /\ Stored(m)' /\ rowId[k] < rowId[m]
                        /\ From[k] = From[m] /\ ChatOf[k] = ChatOf[m]
                        /\ claim[m] # "gather" /\ \A v \in Worker : pc'[v] = "hold" => job[v] # m
      BY <2>1 DEF Folded
    <3>1. CASE k \in burst[w]
      <4>1. m = n
        BY <2>1, <3>1
      <4> QED
        BY <2>1, <2>2, <2>3, <3>1, <4>1 DEF TypeOK
    <3>2. CASE k \notin burst[w]
      <4>1. replyTo[k] = m /\ m \notin burst[w]
        BY <2>1, <2>2, <3>2
      <4> QED
        BY <2>1, <2>3, <4>1 DEF Folded, TypeOK
    <3> QED
      BY <3>1, <3>2
  <2>5. \A v \in Worker \ {w} : pc[v] = "fold" => \A k \in burst[v] : k # n
    <3>1. \A v \in Worker \ {w} : pc[v] = "fold" => ChatOf[job[v]] # ChatOf[n]
      BY <2>1, LockExcludes DEF ServiceAlone, Locked, Leased, n
    <3> QED
      BY <3>1 DEF AnswerInv
  <2>6. Bursts'
    <3>1. \A v \in Worker \ {w} : pc'[v] = pc[v]
      BY <2>1
    <3>2. pc'[w] = "check"
      BY <2>1 DEF TypeOK
    <3>3. \A v \in Worker : pc'[v] = "fold" =>
            \A k \in burst[v], m \in Msg : replyTo'[m] # k
      BY <2>1, <2>5, <3>1, <3>2 DEF Bursts
    <3> QED
      BY <2>1, <2>3, <3>1, <3>2, <3>3 DEF Bursts, TypeOK
  <2> QED
    BY <2>4, <2>6
<1>11. ASSUME NEW w \in Worker, DropInactive(w) PROVE Folded' /\ Bursts'
  BY <1>11, <1>0, <1>00, WorkersAssumption, PlainFolds
  DEF DropInactive, Marks, TypeOK, Plain, Move, rows, claims, workers, Stored
<1>12. ASSUME NEW w \in Worker, RefuseKid(w) PROVE Folded' /\ Bursts'
  BY <1>12, <1>0, <1>00, WorkersAssumption, PlainFolds
  DEF RefuseKid, GiveUp, Checking, Marks, TypeOK, Plain, Move, rows, claims, workers, Stored
<1>13. ASSUME NEW w \in Worker, Hear(w) PROVE Folded' /\ Bursts'
  BY <1>13, <1>0, <1>00, WorkersAssumption, PlainFolds
  DEF Hear, Checking, Marks, TypeOK, Plain, Move, rows, claims, workers, Stored
<1>14. ASSUME NEW w \in Worker, NotHeard(w) PROVE Folded' /\ Bursts'
  BY <1>14, <1>0, <1>00, WorkersAssumption, PlainFolds
  DEF NotHeard, GiveUp, Checking, Marks, TypeOK, Plain, Move, rows, claims, workers, Stored
<1>15. ASSUME NEW w \in Worker, StoppedBeforeHeard(w) PROVE Folded' /\ Bursts'
  BY <1>15, <1>0, <1>00, WorkersAssumption, PlainFolds
  DEF StoppedBeforeHeard, GiveUp, Checking, Marks, TypeOK,
      Plain, Move, rows, claims, workers, Stored
<1>16. ASSUME NEW w \in Worker, ReadWords(w) PROVE Folded' /\ Bursts'
  BY <1>16, <1>0, <1>00, WorkersAssumption, PlainFolds
  DEF ReadWords, Checking, Marks, TypeOK, Plain, Move, rows, claims, workers, Stored
<1>17. ASSUME NEW w \in Worker, RetriesSpent(w) PROVE Folded' /\ Bursts'
  BY <1>17, <1>0, <1>00, WorkersAssumption, PlainFolds
  DEF RetriesSpent, Marks, TypeOK, Plain, Move, rows, claims, workers, Stored
<1>18. ASSUME NEW w \in Worker, StartTurn(w) PROVE Folded' /\ Bursts'
  BY <1>18, <1>0, <1>00, WorkersAssumption, PlainFolds
  DEF StartTurn, Marks, TypeOK, Plain, Move, rows, claims, workers, Stored
<1>19. ASSUME NEW w \in Worker, Succeed(w) PROVE Folded' /\ Bursts'
  BY <1>19, <1>0, <1>00, WorkersAssumption, PlainFolds
  DEF Succeed, InTurn, Marks, TypeOK, Plain, Move, rows, claims, workers, Stored
<1>20. ASSUME NEW w \in Worker, FailForNow(w) PROVE Folded' /\ Bursts'
  BY <1>20, <1>0, <1>00, WorkersAssumption, PlainFolds
  DEF FailForNow, MarkFailed, InTurn, Marks, TypeOK, Plain, Move, rows, claims, workers, Stored
<1>21. ASSUME NEW w \in Worker, FailForGood(w) PROVE Folded' /\ Bursts'
  BY <1>21, <1>0, <1>00, WorkersAssumption, PlainFolds
  DEF FailForGood, GiveUp, InTurn, Marks, TypeOK, Plain, Move, rows, claims, workers, Stored
<1>22. ASSUME NEW w \in Worker, OutOfSteps(w) PROVE Folded' /\ Bursts'
  BY <1>22, <1>0, <1>00, WorkersAssumption, PlainFolds
  DEF OutOfSteps, GiveUp, InTurn, Marks, TypeOK, Plain, Move, rows, claims, workers, Stored
<1>23. ASSUME NEW w \in Worker, Fail(w) PROVE Folded' /\ Bursts'
  BY <1>23, <1>0, <1>00, WorkersAssumption, PlainFolds
  DEF Fail, MarkFailed, Marks, TypeOK, Plain, Move, rows, claims, workers, Stored
<1>24. ASSUME NEW w \in Worker, Release(w) PROVE Folded' /\ Bursts'
  BY <1>24, <1>0, <1>00, WorkersAssumption, PlainFolds
  DEF Release, Return, Leave, Marks, TypeOK, Plain, Move, rows, claims, workers, Stored
<1>25. ASSUME NEW w \in Worker, ReleaseRefused(w) PROVE Folded' /\ Bursts'
  BY <1>25, <1>0, <1>00, WorkersAssumption, PlainFolds
  DEF ReleaseRefused, Return, Leave, Marks, TypeOK, Plain, Move, rows, claims, workers, Stored
<1>26. ASSUME NEW w \in Worker, Renew(w) PROVE Folded' /\ Bursts'
  BY <1>26, <1>0, <1>00, WorkersAssumption, PlainFolds
  DEF Renew, Marks, TypeOK, Plain, Move, rows, claims, workers, Stored
<1>27. ASSUME NEW w \in Worker, NEW m \in Msg, Resolve(w, m) PROVE Folded' /\ Bursts'
  BY <1>27, <1>0, <1>00, WorkersAssumption, PlainFolds
  DEF Resolve, Take, Marks, TypeOK, Plain, Move, rows, claims, workers, Stored
<1>28. ASSUME NEW w \in Worker, NEW m \in Msg, Retry(w, m) PROVE Folded' /\ Bursts'
  BY <1>28, <1>0, <1>00, WorkersAssumption, PlainFolds
  DEF Retry, Take, Pending, Open, Marks, TypeOK, Plain, Move, rows, claims, workers, Stored
<1>29. ASSUME NEW m \in Msg, Lapse(m) PROVE Folded' /\ Bursts'
  BY <1>29, <1>0, <1>00, WorkersAssumption, PlainFolds
  DEF Lapse, Marks, TypeOK, Plain, Move, rows, claims, workers, Stored
<1>30. ASSUME NEW p \in Member, SwitchOff(p) PROVE Folded' /\ Bursts'
  BY <1>30, <1>0, <1>00, WorkersAssumption, PlainFolds
  DEF SwitchOff, Marks, TypeOK, Plain, Move, rows, claims, workers, Stored
<1>31. ASSUME NEW p \in Member, SwitchOn(p) PROVE Folded' /\ Bursts'
  BY <1>31, <1>0, <1>00, WorkersAssumption, PlainFolds
  DEF SwitchOn, Marks, TypeOK, Plain, Move, rows, claims, workers, Stored
<1>32. ASSUME ResetRetries PROVE Folded' /\ Bursts'
  BY <1>32, <1>0, <1>00, WorkersAssumption, PlainFolds
  DEF ResetRetries, Marks, TypeOK, Plain, Move, rows, claims, workers, Stored
<1>33. ASSUME NEW p \in Process, Crash(p) PROVE Folded' /\ Bursts'
  BY <1>33, <1>0, <1>00, WorkersAssumption, PlainFolds
  DEF Crash, Marks, TypeOK, Plain, Move, rows, claims, workers, Stored
<1>34. CASE UNCHANGED vars
  BY <1>34, PlainFolds DEF vars, TypeOK, Plain, Move, rows, claims, workers, Stored
<1> QED
  BY <1>1, <1>2, <1>3, <1>4, <1>5, <1>6, <1>7, <1>8, <1>9, <1>10, <1>11,
     <1>12, <1>13, <1>14, <1>15, <1>16, <1>17, <1>18, <1>19, <1>20, <1>21,
     <1>22, <1>23, <1>24, <1>25, <1>26, <1>27, <1>28, <1>29, <1>30, <1>31,
     <1>32, <1>33, <1>34 DEF Next, Step

\* A message is folded into one that is not itself folded, of the same sender,
\* later and in the same chat, so that its words reach the turn: however many are
\* written in a row, claims lapse and the service stops between the steps.
THEOREM BurstsAreShallow == ASSUME ServiceAlone PROVE Spec => []NoFoldChain
<1>1. Init => Folded /\ Bursts
  BY FoldStart
<1>2. TypeOK /\ LockInv /\ FirstInv /\ AnswerInv /\ Folded /\ Bursts /\ [Next]_vars
      => Folded' /\ Bursts'
  BY FoldNext
<1>3. AnswerInv /\ Folded => NoFoldChain
  BY MessagesAssumption DEF AnswerInv, Folded, NoFoldChain
<1> QED
  BY <1>1, <1>2, <1>3, FirstInvariant, AnswerInvariant, PTL DEF Spec

-----------------------------------------------------------------------------
\* The promise.

\* While claims last, a burst's last message is its worker's until it is done,
\* so that its sender cannot be switched off and none of the burst be dropped.
KeepInv ==
  \A w \in Worker :
    /\ mode[w] = "gather" /\ pc[w] \in Leased => claim[job[w]] = w /\ live[job[w]]
    /\ pc[w] = "lease" => \A n \in burst[w] : giveUp[n] => ~Open(job[w])
    /\ pc[w] \in {"claim_also", "fold"} => \A n \in burst[w] : ~giveUp[n]

LEMMA KeepInit == Init => KeepInv
  BY DEF Init, KeepInv, Leased

LEMMA KeepNext ==
  ASSUME ServiceAlone, ~RenewalMayFail, TypeOK, LockInv, FirstInv, AnswerInv, Bursts,
         KeepInv, [Next]_vars
  PROVE  KeepInv'
<1> USE DEF KeepInv, Move, Leased, rows, claims, workers, Marks
<1>0. \A w \in Worker : pc[w] # "idle" => job[w] \in Msg
  BY DEF LockInv
<1>a. \A v, w \in Worker : v # w /\ pc[v] \in Locked /\ pc[w] \in Locked =>
        /\ job[v] # job[w]
        /\ pc[w] \in {"lease", "claim_also", "fold"} => job[v] \notin burst[w]
  BY LockExcludes DEF ServiceAlone, AnswerInv, Locked, Leased
<1>1. ASSUME NEW w \in Worker, StoreInbound(w) PROVE KeepInv'
  <2>1. \A v \in Worker : pc[v] \in {"lease"} \cup Leased => job[v] # job[w]
    BY <1>1 DEF StoreInbound, FirstInv, Early
  <2>2. /\ status' = [status EXCEPT ![job[w]] = "received"]
        /\ pc'[w] \in {"hold", "lock"} /\ \A v \in Worker \ {w} : pc'[v] = pc[v]
        /\ UNCHANGED <<giveUp, claim, live, job, mode, burst>>
    BY <1>1 DEF StoreInbound, TypeOK
  <2> QED
    BY <2>1, <2>2, <1>0 DEF TypeOK, Open
<1>2. ASSUME NEW w \in Worker, ArrivedTwice(w) PROVE KeepInv'
  BY <1>2, <1>0, <1>a, WorkersAssumption DEF ArrivedTwice, Leave, TypeOK, Locked, Open
<1>3. ASSUME NEW w \in Worker, HoldForGathering(w) PROVE KeepInv'
  <2>1. \A v \in Worker : mode[v] = "gather" /\ pc[v] \in Leased => job[v] # job[w]
    BY <1>3 DEF HoldForGathering, FirstInv, Early, Bursts
  <2> QED
    BY <1>3, <2>1, <1>0 DEF HoldForGathering, TypeOK, Open
<1>4. ASSUME NEW w \in Worker, TakeChatLock(w) PROVE KeepInv'
  BY <1>4, <1>0, <1>a DEF TakeChatLock, ChatFree, TypeOK, Open, AnswerInv
<1>5. ASSUME NEW w \in Worker, LeaveToAnother(w) PROVE KeepInv'
  BY <1>5, <1>0, <1>a, WorkersAssumption
  DEF LeaveToAnother, ChatFree, Return, Leave, TypeOK, Locked, Open
<1>6. ASSUME NEW w \in Worker, AnswerGathered(w) PROVE KeepInv'
  <2>1. \A n \in Earlier(job[w]) : ~giveUp[n]
    BY DEF Earlier, Gathering
  <2> QED
    BY <1>6, <2>1, <1>0, <1>a DEF AnswerGathered, ChatFree, TypeOK, Open
<1>7. ASSUME NEW w \in Worker, LeaseRefused(w) PROVE KeepInv'
  BY <1>7, <1>0, <1>a, WorkersAssumption DEF LeaseRefused, Return, Leave, TypeOK, Locked, Open
<1>8. ASSUME NEW w \in Worker, TakeLease(w) PROVE KeepInv'
  BY <1>8, <1>0, <1>a, WorkersAssumption DEF TakeLease, LookAtRow, TypeOK, Locked, Open
<1>9. ASSUME NEW w \in Worker, ClaimAlso(w) PROVE KeepInv'
  BY <1>9, <1>0, <1>a, WorkersAssumption DEF ClaimAlso, TypeOK, Locked, Open
<1>10. ASSUME NEW w \in Worker, FoldInto(w) PROVE KeepInv'
  BY <1>10, <1>0, <1>a, WorkersAssumption DEF FoldInto, TypeOK, Locked, Open
<1>11. ASSUME NEW w \in Worker, DropInactive(w) PROVE KeepInv'
  BY <1>11, <1>0, <1>a, WorkersAssumption DEF DropInactive, TypeOK, Locked, Open
<1>12. ASSUME NEW w \in Worker, RefuseKid(w) PROVE KeepInv'
  BY <1>12, <1>0, <1>a, WorkersAssumption DEF RefuseKid, GiveUp, Checking, TypeOK, Locked, Open
<1>13. ASSUME NEW w \in Worker, Hear(w) PROVE KeepInv'
  BY <1>13, <1>0, <1>a, WorkersAssumption DEF Hear, Checking, TypeOK, Locked, Open
<1>14. ASSUME NEW w \in Worker, NotHeard(w) PROVE KeepInv'
  BY <1>14, <1>0, <1>a, WorkersAssumption DEF NotHeard, GiveUp, Checking, TypeOK, Locked, Open
<1>15. ASSUME NEW w \in Worker, StoppedBeforeHeard(w) PROVE KeepInv'
  BY <1>15, <1>0, <1>a, WorkersAssumption
  DEF StoppedBeforeHeard, GiveUp, Checking, TypeOK, Locked, Open
<1>16. ASSUME NEW w \in Worker, ReadWords(w) PROVE KeepInv'
  BY <1>16, <1>0, <1>a, WorkersAssumption DEF ReadWords, Checking, TypeOK, Locked, Open
<1>17. ASSUME NEW w \in Worker, RetriesSpent(w) PROVE KeepInv'
  BY <1>17, <1>0, <1>a, WorkersAssumption DEF RetriesSpent, TypeOK, Locked, Open
<1>18. ASSUME NEW w \in Worker, StartTurn(w) PROVE KeepInv'
  BY <1>18, <1>0, <1>a, WorkersAssumption DEF StartTurn, TypeOK, Locked, Open
<1>19. ASSUME NEW w \in Worker, Succeed(w) PROVE KeepInv'
  BY <1>19, <1>0, <1>a, WorkersAssumption DEF Succeed, InTurn, TypeOK, Locked, Open
<1>20. ASSUME NEW w \in Worker, FailForNow(w) PROVE KeepInv'
  BY <1>20, <1>0, <1>a, WorkersAssumption DEF FailForNow, MarkFailed, InTurn, TypeOK, Locked, Open
<1>21. ASSUME NEW w \in Worker, FailForGood(w) PROVE KeepInv'
  BY <1>21, <1>0, <1>a, WorkersAssumption DEF FailForGood, GiveUp, InTurn, TypeOK, Locked, Open
<1>22. ASSUME NEW w \in Worker, OutOfSteps(w) PROVE KeepInv'
  BY <1>22, <1>0, <1>a, WorkersAssumption DEF OutOfSteps, GiveUp, InTurn, TypeOK, Locked, Open
<1>23. ASSUME NEW w \in Worker, Fail(w) PROVE KeepInv'
  BY <1>23, <1>0, <1>a, WorkersAssumption DEF Fail, MarkFailed, TypeOK, Locked, Open
<1>24. ASSUME NEW w \in Worker, Release(w) PROVE KeepInv'
  BY <1>24, <1>0, <1>a, WorkersAssumption DEF Release, Return, Leave, TypeOK, Locked, Open
<1>25. ASSUME NEW w \in Worker, ReleaseRefused(w) PROVE KeepInv'
  BY <1>25, <1>0, <1>a, WorkersAssumption DEF ReleaseRefused, Return, Leave, TypeOK, Locked, Open
<1>26. ASSUME NEW w \in Worker, Renew(w) PROVE KeepInv'
  BY <1>26, <1>0, <1>a, WorkersAssumption DEF Renew, TypeOK, Locked, Open
<1>27. ASSUME NEW w \in Worker, NEW m \in Msg, Resolve(w, m) PROVE KeepInv'
  BY <1>27, <1>0, <1>a, WorkersAssumption DEF Resolve, Take, TypeOK, Locked, Open
<1>28. ASSUME NEW w \in Worker, NEW m \in Msg, Retry(w, m) PROVE KeepInv'
  BY <1>28, <1>0, <1>a, WorkersAssumption DEF Retry, Take, Pending, Open, TypeOK, Locked
<1>29. ASSUME NEW m \in Msg, Lapse(m) PROVE KeepInv'
  BY <1>29, <1>0, <1>a, WorkersAssumption DEF Lapse, TypeOK, Locked, Open
<1>30. ASSUME NEW p \in Member, SwitchOff(p) PROVE KeepInv'
  <2> DEFINE dropped == {m \in Msg : From[m] = p /\ Open(m)}
  <2>1. /\ UNCHANGED <<claim, live, pc, job, mode, burst>>
        /\ status' = [m \in Msg |-> IF m \in dropped THEN "failed" ELSE status[m]]
        /\ giveUp' = [m \in Msg |-> m \in dropped \/ giveUp[m]]
    BY <1>30 DEF SwitchOff
  <2>2. ASSUME NEW n \in Msg
        PROVE  /\ giveUp'[n] => giveUp[n] \/ From[n] = p
               /\ Open(n)' => Open(n) /\ From[n] # p
    BY <2>1 DEF Open
  <2>3. \A w \in Worker : mode[w] = "gather" /\ pc[w] \in Leased => From[job[w]] # p
    BY <1>30, <1>0, WorkersAssumption DEF SwitchOff, BeingAnswered, TypeOK
  <2>4. \A w \in Worker : pc[w] \in {"lease", "claim_also", "fold"} =>
          /\ job[w] \in Msg
          /\ \A n \in burst[w] : n \in Msg /\ From[n] = From[job[w]] /\ mode[w] = "gather"
    BY <1>0 DEF Bursts, TypeOK
  <2> HIDE DEF dropped
  <2>5. \A w \in Worker : pc'[w] = "lease" => \A n \in burst'[w] : giveUp'[n] => ~Open(job[w])'
    BY <2>1, <2>2, <2>4
  <2>6. \A w \in Worker : pc'[w] \in {"claim_also", "fold"} => \A n \in burst'[w] : ~giveUp'[n]
    BY <2>1, <2>2, <2>3, <2>4
  <2> QED
    BY <2>1, <2>5, <2>6
<1>31. ASSUME NEW p \in Member, SwitchOn(p) PROVE KeepInv'
  BY <1>31, <1>0, <1>a, WorkersAssumption DEF SwitchOn, TypeOK, Locked, Open
<1>32. ASSUME ResetRetries PROVE KeepInv'
  BY <1>32, <1>0, <1>a, WorkersAssumption DEF ResetRetries, TypeOK, Locked, Open
<1>33. ASSUME NEW p \in Process, Crash(p) PROVE KeepInv'
  BY <1>33, <1>0, <1>a, WorkersAssumption DEF Crash, TypeOK, Locked, Open
<1>34. CASE UNCHANGED vars
  BY <1>34 DEF vars, Open
<1> QED
  BY <1>1, <1>2, <1>3, <1>4, <1>5, <1>6, <1>7, <1>8, <1>9, <1>10, <1>11,
     <1>12, <1>13, <1>14, <1>15, <1>16, <1>17, <1>18, <1>19, <1>20, <1>21,
     <1>22, <1>23, <1>24, <1>25, <1>26, <1>27, <1>28, <1>29, <1>30, <1>31,
     <1>32, <1>33, <1>34 DEF Next, Step

LEMMA BurstInvariant == ASSUME ServiceAlone PROVE Spec => [](Folded /\ Bursts)
<1>1. TypeOK /\ LockInv /\ FirstInv /\ AnswerInv /\ Folded /\ Bursts /\ [Next]_vars
      => Folded' /\ Bursts'
  BY FoldNext
<1> QED
  BY <1>1, FoldStart, FirstInvariant, AnswerInvariant, PTL DEF Spec

LEMMA KeepInvariant ==
  ASSUME ServiceAlone, ~RenewalMayFail PROVE Spec => []KeepInv
<1>1. TypeOK /\ LockInv /\ FirstInv /\ AnswerInv /\ Bursts /\ KeepInv /\ [Next]_vars => KeepInv'
  BY KeepNext
<1> QED
  BY <1>1, KeepInit, FirstInvariant, AnswerInvariant, BurstInvariant, PTL DEF Spec

\* A step that ends some messages, or none.
LEMMA FateEnds ==
  ASSUME \A m \in Msg : \/ FateOf(m)' = FateOf(m)
                        \/ FateOf(m) = "open" /\ FateOf(m)' \in {"spent", "dropped"}
                        \/ FateOf(m) = "spent" /\ FateOf(m)' = "dropped"
  PROVE  Promise!End
<1>1. \A m \in Msg : FateOf(m)' \in Promise!Fates
  BY DEF FateOf, Promise!Fates
<1> QED
  BY <1>1 DEF Promise!End

\* Workers come and go and no row changes: who comes has one that is open.
LEMMA FateOfRows ==
  ASSUME UNCHANGED <<status, giveUp, retries, replyTo, answers>>,
         \A w \in Worker : \/ job'[w] = job[w] \/ job'[w] \notin Msg
                           \/ FateOf(job'[w]) \in {"unsent", "open"}
  PROVE  Promise!End
<1> SUFFICES ASSUME NEW m \in Msg
             PROVE  \/ FateOf(m)' = FateOf(m)
                    \/ FateOf(m) = "open" /\ FateOf(m)' \in {"spent", "dropped"}
                    \/ FateOf(m) = "spent" /\ FateOf(m)' = "dropped"
  BY FateEnds
<1>1. CASE Quiet(m) /\ ~Quiet(m)'
  <2>1. FateOf(m) \in {"unsent", "open"}
    BY <1>1 DEF Quiet
  <2> QED
    BY <1>1, <2>1 DEF FateOf, Stored
<1>2. CASE Quiet(m) = Quiet(m)' \/ Quiet(m)'
  BY <1>2 DEF FateOf, Stored
<1> QED
  BY <1>1, <1>2 DEF Quiet

\* A worker's message is open until the worker lets it go.
LEMMA FateInHand ==
  ASSUME NEW w \in Worker, job[w] \in Msg, Stored(job[w]), Stored(job[w])',
         answers[job[w]] = 0, replyTo[job[w]] = Nothing,
         UNCHANGED <<answers, replyTo, job>>,
         \A m \in Msg \ {job[w]} :
           status'[m] = status[m] /\ giveUp'[m] = giveUp[m] /\ retries'[m] = retries[m]
  PROVE  Promise!End
<1>1. \A m \in Msg : Quiet(m)' = Quiet(m)
  BY DEF Quiet
<1>2. FateOf(job[w]) = "open" /\ FateOf(job[w])' = "open"
  BY DEF FateOf, Quiet
<1>3. \A m \in Msg \ {job[w]} : FateOf(m)' = FateOf(m)
  BY <1>1 DEF FateOf, Stored
<1> QED
  BY <1>2, <1>3, FateEnds

\* Every step of a message is one MessageFate has.
LEMMA FateNext ==
  ASSUME TypeOK, LockInv, FirstInv, AnswerInv, Bursts, KeepInv, [Next]_vars
  PROVE  [Promise!FateNext]_[m \in Msg |-> FateOf(m)]
<1>0. \A w \in Worker : pc[w] # "idle" => job[w] \in Msg
  BY DEF LockInv
<1>h. \A w \in Worker : pc[w] \in Leased \ {"release"} =>
        job[w] \in Msg /\ Stored(job[w]) /\ answers[job[w]] = 0 /\ replyTo[job[w]] = Nothing
  BY <1>0 DEF AnswerInv, FirstInv, Early, Leased, TypeOK
<1>f. \A w \in Worker : pc[w] = "fold" => \A n \in burst[w] : Stored(n)
  BY DEF Bursts
<1>1. ASSUME NEW w \in Worker, StoreInbound(w) PROVE Promise!FateNext
  <2>1. /\ job[w] \in Msg /\ ~Stored(job[w])
        /\ status' = [status EXCEPT ![job[w]] = "received"]
        /\ UNCHANGED <<giveUp, retries, replyTo, answers, job>>
    BY <1>1, <1>0 DEF StoreInbound, Move, said
  <2>2. FateOf(job[w]) = "unsent" /\ FateOf(job[w])' = "open"
    BY <2>1 DEF FateOf, Quiet, Stored, TypeOK, AnswerInv
  <2>3. \A m \in Msg \ {job[w]} : FateOf(m)' = FateOf(m)
    BY <2>1 DEF FateOf, Quiet, Stored, TypeOK
  <2>4. Promise!Keep(job[w])
    BY <2>1, <2>2, <2>3 DEF Promise!Keep
  <2> QED
    BY <2>1, <2>4 DEF Promise!FateNext
<1>2. ASSUME NEW w \in Worker, ArrivedTwice(w) PROVE Promise!FateNext
  <2>1. \A v \in Worker : job'[v] = job[v] \/ job'[v] \notin Msg
    BY <1>2, MessagesAssumption DEF ArrivedTwice, Leave, TypeOK
  <2> QED
    BY <1>2, <2>1, FateOfRows DEF ArrivedTwice, Leave, rows, said, Promise!FateNext
<1>3. ASSUME NEW w \in Worker, HoldForGathering(w) PROVE Promise!FateNext
  BY <1>3, FateOfRows DEF HoldForGathering, rows, said, workers, Move, Promise!FateNext
<1>4. ASSUME NEW w \in Worker, TakeChatLock(w) PROVE Promise!FateNext
  BY <1>4, FateOfRows DEF TakeChatLock, ChatFree, rows, said, workers, Move, Promise!FateNext
<1>5. ASSUME NEW w \in Worker, LeaveToAnother(w) PROVE Promise!FateNext
  <2>1. \A v \in Worker : job'[v] = job[v] \/ job'[v] \notin Msg
    BY <1>5, MessagesAssumption DEF LeaveToAnother, Return, Leave, TypeOK
  <2> QED
    BY <1>5, <2>1, FateOfRows DEF LeaveToAnother, Return, Leave, rows, said, Promise!FateNext
<1>6. ASSUME NEW w \in Worker, AnswerGathered(w) PROVE Promise!FateNext
  BY <1>6, FateOfRows DEF AnswerGathered, ChatFree, rows, said, workers, Move, Promise!FateNext
<1>7. ASSUME NEW w \in Worker, LeaseRefused(w) PROVE Promise!FateNext
  <2>1. \A v \in Worker : job'[v] = job[v] \/ job'[v] \notin Msg
    BY <1>7, MessagesAssumption DEF LeaseRefused, Return, Leave, TypeOK
  <2> QED
    BY <1>7, <2>1, FateOfRows DEF LeaseRefused, Return, Leave, rows, said, Promise!FateNext
<1>8. ASSUME NEW w \in Worker, TakeLease(w) PROVE Promise!FateNext
  BY <1>8, FateOfRows DEF TakeLease, LookAtRow, rows, said, workers, Move, Promise!FateNext
<1>9. ASSUME NEW w \in Worker, ClaimAlso(w) PROVE Promise!FateNext
  BY <1>9, FateOfRows DEF ClaimAlso, rows, said, workers, Move, Promise!FateNext
<1>10. ASSUME NEW w \in Worker, FoldInto(w) PROVE Promise!FateNext
  <2>1. /\ job[w] \in Msg /\ pc[w] = "fold" /\ burst[w] \subseteq Msg \ {job[w]}
        /\ status' = [n \in Msg |-> IF n \in burst[w] THEN "processed" ELSE status[n]]
        /\ replyTo' = [n \in Msg |-> IF n \in burst[w] THEN job[w] ELSE replyTo[n]]
        /\ UNCHANGED <<giveUp, retries, answers, job>>
    BY <1>10, <1>0 DEF FoldInto, Move, AnswerInv, TypeOK, said
  <2>2. \A n \in burst[w] : answers[n] = 0 /\ replyTo[n] = Nothing /\ Stored(n) /\ ~giveUp[n]
    BY <2>1, <1>f DEF AnswerInv, TypeOK, KeepInv
  <2>3. \A n \in burst[w] : FateOf(n) \in {"open", "spent"} /\ FateOf(n)' = "folded"
    BY <2>1, <2>2, MessagesAssumption DEF FateOf, Stored
  <2>4. FateOf(job[w]) = "open" /\ FateOf(job[w])' = "open"
    BY <2>1, <1>h DEF FateOf, Quiet, Stored, Leased
  <2>5. \A m \in Msg \ burst[w] : FateOf(m)' = FateOf(m)
    BY <2>1 DEF FateOf, Quiet, Stored
  <2>6. Promise!Fold(job[w])
    BY <2>1, <2>3, <2>4, <2>5 DEF Promise!Fold
  <2> QED
    BY <2>1, <2>6 DEF Promise!FateNext
<1>11. ASSUME NEW w \in Worker, DropInactive(w) PROVE Promise!FateNext
  <2>1. /\ UNCHANGED <<answers, replyTo, job>> /\ Stored(job[w])'
        /\ \A m \in Msg \ {job[w]} :
             status'[m] = status[m] /\ giveUp'[m] = giveUp[m] /\ retries'[m] = retries[m]
    BY <1>11, <1>h DEF DropInactive, TypeOK, Stored, Move, said, workers, Leased
  <2> QED
    BY <1>11, <2>1, <1>h, FateInHand DEF DropInactive, Promise!FateNext, Leased
<1>12. ASSUME NEW w \in Worker, RefuseKid(w) PROVE Promise!FateNext
  <2>1. /\ UNCHANGED <<answers, replyTo, job>> /\ Stored(job[w])'
        /\ \A m \in Msg \ {job[w]} :
             status'[m] = status[m] /\ giveUp'[m] = giveUp[m] /\ retries'[m] = retries[m]
    BY <1>12, <1>h DEF RefuseKid, GiveUp, Checking, TypeOK, Stored, Move, said, workers, Leased
  <2> QED
    BY <1>12, <2>1, <1>h, FateInHand DEF RefuseKid, GiveUp, Checking, Promise!FateNext, Leased
<1>13. ASSUME NEW w \in Worker, Hear(w) PROVE Promise!FateNext
  BY <1>13, FateOfRows DEF Hear, Checking, rows, said, workers, Move, Promise!FateNext
<1>14. ASSUME NEW w \in Worker, NotHeard(w) PROVE Promise!FateNext
  <2>1. /\ UNCHANGED <<answers, replyTo, job>> /\ Stored(job[w])'
        /\ \A m \in Msg \ {job[w]} :
             status'[m] = status[m] /\ giveUp'[m] = giveUp[m] /\ retries'[m] = retries[m]
    BY <1>14, <1>h DEF NotHeard, GiveUp, Checking, TypeOK, Stored, Move, said, workers, Leased
  <2> QED
    BY <1>14, <2>1, <1>h, FateInHand DEF NotHeard, GiveUp, Checking, Promise!FateNext, Leased
<1>15. ASSUME NEW w \in Worker, StoppedBeforeHeard(w) PROVE Promise!FateNext
  <2>1. /\ UNCHANGED <<answers, replyTo, job>> /\ Stored(job[w])'
        /\ \A m \in Msg \ {job[w]} :
             status'[m] = status[m] /\ giveUp'[m] = giveUp[m] /\ retries'[m] = retries[m]
    BY <1>15, <1>h
    DEF StoppedBeforeHeard, GiveUp, Checking, TypeOK, Stored, Move, said, workers, Leased
  <2> QED
    BY <1>15, <2>1, <1>h, FateInHand
    DEF StoppedBeforeHeard, GiveUp, Checking, Promise!FateNext, Leased
<1>16. ASSUME NEW w \in Worker, ReadWords(w) PROVE Promise!FateNext
  BY <1>16, FateOfRows DEF ReadWords, Checking, rows, said, workers, Move, Promise!FateNext
<1>17. ASSUME NEW w \in Worker, RetriesSpent(w) PROVE Promise!FateNext
  BY <1>17, FateOfRows DEF RetriesSpent, rows, said, workers, Move, Promise!FateNext
<1>18. ASSUME NEW w \in Worker, StartTurn(w) PROVE Promise!FateNext
  <2>1. /\ UNCHANGED <<answers, replyTo, job>> /\ Stored(job[w])'
        /\ \A m \in Msg \ {job[w]} :
             status'[m] = status[m] /\ giveUp'[m] = giveUp[m] /\ retries'[m] = retries[m]
    BY <1>18, <1>h DEF StartTurn, TypeOK, Stored, Move, said, workers, Leased
  <2> QED
    BY <1>18, <2>1, <1>h, FateInHand DEF StartTurn, Promise!FateNext, Leased
<1>19. ASSUME NEW w \in Worker, Succeed(w) PROVE Promise!FateNext
  <2>0. /\ job[w] \in Msg /\ Stored(job[w])
        /\ answers[job[w]] = 0 /\ replyTo[job[w]] = Nothing
    BY <1>19, <1>h DEF Succeed, InTurn, Leased
  <2>1. /\ answers' = [answers EXCEPT ![job[w]] = @ + 1]
        /\ status' = [status EXCEPT ![job[w]] = "processed"]
        /\ UNCHANGED <<giveUp, retries, replyTo, job>>
    BY <1>19 DEF Succeed, Move
  <2>2. FateOf(job[w]) = "open"
    BY <2>0, <2>1 DEF FateOf, Quiet
  <2>3. FateOf(job[w])' = "answered"
    <3>1. answers'[job[w]] > 0 /\ Stored(job[w])' /\ job'[w] = job[w]
      BY <2>0, <2>1 DEF Stored, TypeOK
    <3> QED
      BY <3>1 DEF FateOf
  <2>4. \A m \in Msg \ {job[w]} : FateOf(m)' = FateOf(m)
    BY <2>0, <2>1 DEF FateOf, Quiet, Stored, TypeOK
  <2>5. Promise!Answer(job[w])
    BY <2>0, <2>1, <2>2, <2>3, <2>4 DEF Promise!Answer
  <2> QED
    BY <2>0, <2>1, <2>5 DEF Promise!FateNext
<1>20. ASSUME NEW w \in Worker, FailForNow(w) PROVE Promise!FateNext
  <2>1. /\ UNCHANGED <<answers, replyTo, job>> /\ Stored(job[w])'
        /\ \A m \in Msg \ {job[w]} :
             status'[m] = status[m] /\ giveUp'[m] = giveUp[m] /\ retries'[m] = retries[m]
    BY <1>20, <1>h DEF FailForNow, MarkFailed, InTurn, TypeOK, Stored, Move, said, workers, Leased
  <2> QED
    BY <1>20, <2>1, <1>h, FateInHand DEF FailForNow, MarkFailed, InTurn, Promise!FateNext, Leased
<1>21. ASSUME NEW w \in Worker, FailForGood(w) PROVE Promise!FateNext
  <2>1. /\ UNCHANGED <<answers, replyTo, job>> /\ Stored(job[w])'
        /\ \A m \in Msg \ {job[w]} :
             status'[m] = status[m] /\ giveUp'[m] = giveUp[m] /\ retries'[m] = retries[m]
    BY <1>21, <1>h DEF FailForGood, GiveUp, InTurn, TypeOK, Stored, Move, said, workers, Leased
  <2> QED
    BY <1>21, <2>1, <1>h, FateInHand DEF FailForGood, GiveUp, InTurn, Promise!FateNext, Leased
<1>22. ASSUME NEW w \in Worker, OutOfSteps(w) PROVE Promise!FateNext
  <2>1. /\ UNCHANGED <<answers, replyTo, job>> /\ Stored(job[w])'
        /\ \A m \in Msg \ {job[w]} :
             status'[m] = status[m] /\ giveUp'[m] = giveUp[m] /\ retries'[m] = retries[m]
    BY <1>22, <1>h DEF OutOfSteps, GiveUp, InTurn, TypeOK, Stored, Move, said, workers, Leased
  <2> QED
    BY <1>22, <2>1, <1>h, FateInHand DEF OutOfSteps, GiveUp, InTurn, Promise!FateNext, Leased
<1>23. ASSUME NEW w \in Worker, Fail(w) PROVE Promise!FateNext
  <2>1. /\ UNCHANGED <<answers, replyTo, job>> /\ Stored(job[w])'
        /\ \A m \in Msg \ {job[w]} :
             status'[m] = status[m] /\ giveUp'[m] = giveUp[m] /\ retries'[m] = retries[m]
    BY <1>23, <1>h DEF Fail, MarkFailed, TypeOK, Stored, Move, said, workers, Leased
  <2> QED
    BY <1>23, <2>1, <1>h, FateInHand DEF Fail, MarkFailed, Promise!FateNext, Leased
<1>24. ASSUME NEW w \in Worker, Release(w) PROVE Promise!FateNext
  <2>1. \A v \in Worker : job'[v] = job[v] \/ job'[v] \notin Msg
    BY <1>24, MessagesAssumption DEF Release, Return, Leave, TypeOK
  <2> QED
    BY <1>24, <2>1, FateOfRows DEF Release, Return, Leave, rows, said, Promise!FateNext
<1>25. ASSUME NEW w \in Worker, ReleaseRefused(w) PROVE Promise!FateNext
  <2>1. \A v \in Worker : job'[v] = job[v] \/ job'[v] \notin Msg
    BY <1>25, MessagesAssumption DEF ReleaseRefused, Return, Leave, TypeOK
  <2> QED
    BY <1>25, <2>1, FateOfRows DEF ReleaseRefused, Return, Leave, rows, said, Promise!FateNext
<1>26. ASSUME NEW w \in Worker, Renew(w) PROVE Promise!FateNext
  BY <1>26, FateOfRows DEF Renew, rows, said, workers, Move, Promise!FateNext
<1>27. ASSUME NEW w \in Worker, NEW m \in Msg, Resolve(w, m) PROVE Promise!FateNext
  <2>1. FateOf(m) = "unsent"
    BY <1>27 DEF Resolve, FateOf, AnswerInv, TypeOK, Stored
  <2> QED
    BY <1>27, <2>1, FateOfRows DEF Resolve, Take, rows, said, TypeOK, Promise!FateNext
<1>28. ASSUME NEW w \in Worker, NEW m \in Msg, Retry(w, m) PROVE Promise!FateNext
  <2>1. FateOf(m) = "open"
    <3>1. Stored(m) /\ answers[m] = 0 /\ replyTo[m] = Nothing
      BY <1>28 DEF Retry, Pending, Open, Stored, AnswerInv, TypeOK
    <3>2. ~giveUp[m] /\ ~(retries[m] >= MaxRetries)
      BY <1>28, SettingsAssumption DEF Retry, Pending, Open, TypeOK
    <3> QED
      BY <3>1, <3>2 DEF FateOf
  <2> QED
    BY <1>28, <2>1, FateOfRows DEF Retry, Take, rows, said, TypeOK, Promise!FateNext
<1>29. ASSUME NEW m \in Msg, Lapse(m) PROVE Promise!FateNext
  BY <1>29, FateOfRows DEF Lapse, rows, said, workers, Move, Promise!FateNext
<1>30. ASSUME NEW p \in Member, SwitchOff(p) PROVE Promise!FateNext
  <2> DEFINE dropped == {m \in Msg : From[m] = p /\ Open(m)}
  <2>1. /\ status' = [m \in Msg |-> IF m \in dropped THEN "failed" ELSE status[m]]
        /\ giveUp' = [m \in Msg |-> m \in dropped \/ giveUp[m]]
        /\ UNCHANGED <<retries, replyTo, answers, job>>
    BY <1>30 DEF SwitchOff, said, workers
  <2>2. \A m \in dropped : answers[m] = 0 /\ replyTo[m] = Nothing /\ Stored(m) /\ ~giveUp[m]
    BY DEF Open, AnswerInv, TypeOK, Stored
  <2> HIDE DEF dropped
  <2>3. \A m \in Msg : Quiet(m)' = Quiet(m) /\ Stored(m)' = Stored(m)
    BY <2>1, <2>2 DEF Quiet, Stored
  <2>4. ASSUME NEW m \in Msg, m \in dropped
        PROVE  \/ FateOf(m)' = "open" /\ FateOf(m) = "open"
               \/ FateOf(m)' = "dropped" /\ FateOf(m) \in {"open", "spent"}
    <3>1. giveUp'[m] /\ Stored(m)' /\ answers'[m] = 0 /\ replyTo'[m] = Nothing
      BY <2>1, <2>2, <2>3, <2>4
    <3>2. FateOf(m)' = IF Quiet(m) THEN "dropped" ELSE "open"
      BY <3>1, <2>3 DEF FateOf
    <3>3. FateOf(m) \in {"open", "spent"} /\ (~Quiet(m) => FateOf(m) = "open")
      BY <2>2, <2>4 DEF FateOf
    <3> QED
      BY <3>2, <3>3
  <2>5. \A m \in Msg \ dropped : FateOf(m)' = FateOf(m)
    BY <2>1, <2>3 DEF FateOf
  <2> QED
    BY <2>4, <2>5, FateEnds DEF Promise!FateNext
<1>31. ASSUME NEW p \in Member, SwitchOn(p) PROVE Promise!FateNext
  BY <1>31, FateOfRows DEF SwitchOn, rows, said, workers, Move, Promise!FateNext
<1>32. ASSUME ResetRetries PROVE Promise!FateNext
  <2> DEFINE S == {m \in Msg : FateOf(m) = "spent" /\ FateOf(m)' # "spent"}
  <2>1. /\ UNCHANGED <<status, giveUp, replyTo, answers, job>>
        /\ \A m \in Msg : \/ retries'[m] = retries[m]
                          \/ status[m] = "failed" /\ ~giveUp[m] /\ retries[m] >= MaxRetries
    BY <1>32 DEF ResetRetries, said, workers
  <2>2. \A m \in Msg : Quiet(m)' = Quiet(m) /\ Stored(m)' = Stored(m)
    BY <2>1 DEF Quiet, Stored
  <2>3. ASSUME NEW m \in Msg
        PROVE  \/ FateOf(m)' = FateOf(m)
               \/ FateOf(m) = "spent" /\ FateOf(m)' = "open"
    <3>1. CASE retries'[m] = retries[m]
      BY <2>1, <2>2, <3>1 DEF FateOf
    <3>2. CASE status[m] = "failed" /\ ~giveUp[m] /\ retries[m] >= MaxRetries
      <4>1. Stored(m) /\ answers[m] = 0 /\ replyTo[m] = Nothing
        BY <3>2 DEF Stored, AnswerInv, TypeOK
      <4> QED
        BY <2>1, <2>2, <3>2, <4>1 DEF FateOf
    <3> QED
      BY <2>1, <3>1, <3>2
  <2>4. [m \in Msg |-> FateOf(m)]' = [m \in Msg |-> IF m \in S THEN "open" ELSE FateOf(m)]
    BY <2>3
  <2>5. S \in SUBSET {m \in Msg : FateOf(m) = "spent"}
    OBVIOUS
  <2>6. Promise!NewTries
    BY <2>4, <2>5 DEF Promise!NewTries
  <2> QED
    BY <2>6 DEF Promise!FateNext
<1>33. ASSUME NEW p \in Process, Crash(p) PROVE Promise!FateNext
  <2>1. \A v \in Worker : job'[v] = job[v] \/ job'[v] \notin Msg
    BY <1>33, MessagesAssumption DEF Crash
  <2> QED
    BY <1>33, <2>1, FateOfRows DEF Crash, rows, said, Promise!FateNext
<1>34. CASE UNCHANGED vars
  BY <1>34 DEF vars, rows, said, workers, FateOf, Quiet, Stored
<1> QED
  BY <1>1, <1>2, <1>3, <1>4, <1>5, <1>6, <1>7, <1>8, <1>9, <1>10, <1>11,
     <1>12, <1>13, <1>14, <1>15, <1>16, <1>17, <1>18, <1>19, <1>20, <1>21,
     <1>22, <1>23, <1>24, <1>25, <1>26, <1>27, <1>28, <1>29, <1>30, <1>31,
     <1>32, <1>33, <1>34 DEF Next, Step

\* What MessageFate promises, the service keeps as long as it renews its claims:
\* however its threads meet, messages are folded and the process stops, a message
\* answered, folded or dropped stays so and one out of tries gets new ones only
\* by a reset.
THEOREM ServiceKeepsPromise ==
  ASSUME ServiceAlone, ~RenewalMayFail PROVE Spec => KeepsPromise
<1>1. Init => Promise!FateInit
  BY DEF Init, Promise!FateInit, FateOf, Stored
<1>2. TypeOK /\ LockInv /\ FirstInv /\ AnswerInv /\ Bursts /\ KeepInv /\ [Next]_vars
      => [Promise!FateNext]_[m \in Msg |-> FateOf(m)]
  BY FateNext
<1> QED
  BY <1>1, <1>2, FirstInvariant, AnswerInvariant, BurstInvariant, KeepInvariant, PTL
  DEF Spec, KeepsPromise, Promise!FateSpec

\* Across processes, while claims last, what keeps a second reply away is the
\* claim: whoever has a message past its lease is alone with it.
LEMMA LeaseAnswerNext ==
  ASSUME LeasesLast, TypeOK, LockInv, FirstInv, LeaseInv, AnswerInv, [Next]_vars
  PROVE  AnswerInv'
<1> USE DEF AnswerInv, Move, Leased, rows, claims, said, workers
<1>0. \A w \in Worker : pc[w] # "idle" => job[w] \in Msg
  BY DEF LockInv
<1>a. \A v, w \in Worker : v # w /\ pc[v] \in Leased /\ pc[w] \in Leased => job[v] # job[w]
  BY DEF LeaseInv
<1>b. \A w \in Worker : burst[w] = {} /\ pc[w] \notin {"hold", "claim_also", "fold"}
  BY DEF LeaseInv
<1>1. ASSUME NEW w \in Worker, StoreInbound(w) PROVE AnswerInv'
  BY <1>1, <1>0, <1>a, <1>b DEF StoreInbound, TypeOK, Stored
<1>2. ASSUME NEW w \in Worker, ArrivedTwice(w) PROVE AnswerInv'
  BY <1>2, <1>0, <1>a, <1>b DEF ArrivedTwice, Leave, TypeOK
<1>3. ASSUME NEW w \in Worker, HoldForGathering(w) PROVE AnswerInv'
  BY <1>3, <1>0, <1>a, <1>b DEF HoldForGathering, TypeOK
<1>4. ASSUME NEW w \in Worker, TakeChatLock(w) PROVE AnswerInv'
  BY <1>4, <1>0, <1>a, <1>b DEF TakeChatLock, ChatFree, TypeOK
<1>5. ASSUME NEW w \in Worker, LeaveToAnother(w) PROVE AnswerInv'
  BY <1>5, <1>0, <1>a, <1>b DEF LeaveToAnother, ChatFree, Return, Leave, TypeOK
<1>6. ASSUME NEW w \in Worker, AnswerGathered(w) PROVE AnswerInv'
  BY <1>6, <1>0, <1>a, <1>b DEF AnswerGathered, ChatFree, TypeOK, LeaseInv
<1>7. ASSUME NEW w \in Worker, LeaseRefused(w) PROVE AnswerInv'
  BY <1>7, <1>0, <1>a, <1>b DEF LeaseRefused, Return, Leave, TypeOK
<1>8. ASSUME NEW w \in Worker, TakeLease(w) PROVE AnswerInv'
  BY <1>8, <1>0, <1>a, <1>b DEF TakeLease, LookAtRow, TypeOK, Open
<1>9. ASSUME NEW w \in Worker, ClaimAlso(w) PROVE AnswerInv'
  BY <1>9, <1>0, <1>a, <1>b DEF ClaimAlso, TypeOK
<1>10. ASSUME NEW w \in Worker, FoldInto(w) PROVE AnswerInv'
  BY <1>10, <1>0, <1>a, <1>b DEF FoldInto, TypeOK
<1>11. ASSUME NEW w \in Worker, DropInactive(w) PROVE AnswerInv'
  BY <1>11, <1>0, <1>a, <1>b DEF DropInactive, TypeOK
<1>12. ASSUME NEW w \in Worker, RefuseKid(w) PROVE AnswerInv'
  BY <1>12, <1>0, <1>a, <1>b DEF RefuseKid, GiveUp, Checking, TypeOK
<1>13. ASSUME NEW w \in Worker, Hear(w) PROVE AnswerInv'
  BY <1>13, <1>0, <1>a, <1>b DEF Hear, Checking, TypeOK
<1>14. ASSUME NEW w \in Worker, NotHeard(w) PROVE AnswerInv'
  BY <1>14, <1>0, <1>a, <1>b DEF NotHeard, GiveUp, Checking, TypeOK
<1>15. ASSUME NEW w \in Worker, StoppedBeforeHeard(w) PROVE AnswerInv'
  BY <1>15, <1>0, <1>a, <1>b DEF StoppedBeforeHeard, GiveUp, Checking, TypeOK
<1>16. ASSUME NEW w \in Worker, ReadWords(w) PROVE AnswerInv'
  BY <1>16, <1>0, <1>a, <1>b DEF ReadWords, Checking, TypeOK
<1>17. ASSUME NEW w \in Worker, RetriesSpent(w) PROVE AnswerInv'
  BY <1>17, <1>0, <1>a, <1>b DEF RetriesSpent, TypeOK
<1>18. ASSUME NEW w \in Worker, StartTurn(w) PROVE AnswerInv'
  BY <1>18, <1>0, <1>a, <1>b DEF StartTurn, TypeOK
<1>19. ASSUME NEW w \in Worker, Succeed(w) PROVE AnswerInv'
  BY <1>19, <1>0, <1>a, <1>b DEF Succeed, InTurn, TypeOK
<1>20. ASSUME NEW w \in Worker, FailForNow(w) PROVE AnswerInv'
  BY <1>20, <1>0, <1>a, <1>b DEF FailForNow, MarkFailed, InTurn, TypeOK
<1>21. ASSUME NEW w \in Worker, FailForGood(w) PROVE AnswerInv'
  BY <1>21, <1>0, <1>a, <1>b DEF FailForGood, GiveUp, InTurn, TypeOK
<1>22. ASSUME NEW w \in Worker, OutOfSteps(w) PROVE AnswerInv'
  BY <1>22, <1>0, <1>a, <1>b DEF OutOfSteps, GiveUp, InTurn, TypeOK
<1>23. ASSUME NEW w \in Worker, Fail(w) PROVE AnswerInv'
  BY <1>23, <1>0, <1>a, <1>b DEF Fail, MarkFailed, TypeOK
<1>24. ASSUME NEW w \in Worker, Release(w) PROVE AnswerInv'
  BY <1>24, <1>0, <1>a, <1>b DEF Release, Return, Leave, TypeOK
<1>25. ASSUME NEW w \in Worker, ReleaseRefused(w) PROVE AnswerInv'
  BY <1>25, <1>0, <1>a, <1>b DEF ReleaseRefused, Return, Leave, TypeOK
<1>26. ASSUME NEW w \in Worker, Renew(w) PROVE AnswerInv'
  BY <1>26, <1>0, <1>a, <1>b DEF Renew, TypeOK
<1>27. ASSUME NEW w \in Worker, NEW m \in Msg, Resolve(w, m) PROVE AnswerInv'
  BY <1>27, <1>0, <1>a, <1>b DEF Resolve, Take, TypeOK
<1>28. ASSUME NEW w \in Worker, NEW m \in Msg, Retry(w, m) PROVE AnswerInv'
  BY <1>28, <1>0, <1>a, <1>b DEF Retry, Take, Pending, Open, TypeOK
<1>29. ASSUME NEW m \in Msg, Lapse(m) PROVE AnswerInv'
  BY <1>29, <1>0, <1>a, <1>b DEF Lapse, TypeOK
<1>30. ASSUME NEW p \in Member, SwitchOff(p) PROVE AnswerInv'
  <2> DEFINE dropped == {m \in Msg : From[m] = p /\ Open(m)}
  <2>1. /\ status' = [m \in Msg |-> IF m \in dropped THEN "failed" ELSE status[m]]
        /\ UNCHANGED <<answers, replyTo, pc, job, burst>>
    BY <1>30 DEF SwitchOff
  <2>2. \A m \in Msg : status'[m] = "processed" <=> status[m] = "processed"
    BY <2>1 DEF Open
  <2> QED
    BY <2>1, <2>2, <1>0, <1>b
<1>31. ASSUME NEW p \in Member, SwitchOn(p) PROVE AnswerInv'
  BY <1>31, <1>0, <1>a, <1>b DEF SwitchOn, TypeOK
<1>32. ASSUME ResetRetries PROVE AnswerInv'
  BY <1>32, <1>0, <1>a, <1>b DEF ResetRetries, TypeOK
<1>33. ASSUME NEW p \in Process, Crash(p) PROVE AnswerInv'
  BY <1>33, <1>0, <1>a, <1>b DEF Crash, TypeOK
<1>34. CASE UNCHANGED vars
  BY <1>34 DEF vars
<1> QED
  BY <1>1, <1>2, <1>3, <1>4, <1>5, <1>6, <1>7, <1>8, <1>9, <1>10, <1>11,
     <1>12, <1>13, <1>14, <1>15, <1>16, <1>17, <1>18, <1>19, <1>20, <1>21,
     <1>22, <1>23, <1>24, <1>25, <1>26, <1>27, <1>28, <1>29, <1>30, <1>31,
     <1>32, <1>33, <1>34 DEF Next, Step

LEMMA LeaseAnswers ==
  ASSUME LeasesLast PROVE Spec => [](TypeOK /\ LockInv /\ FirstInv /\ LeaseInv /\ AnswerInv)
<1>1. TypeOK /\ LockInv /\ FirstInv /\ LeaseInv /\ AnswerInv /\ [Next]_vars => AnswerInv'
  BY LeaseAnswerNext
<1> QED
  BY <1>1, AnswerInit, FirstInvariant, LeaseInvariant, PTL DEF Spec

\* While claims last a command run beside the service, which shares no lock with
\* it, gives no second reply to a message either has answered.
THEOREM LeasesAnswerOnce == ASSUME LeasesLast PROVE Spec => []AnsweredOnce
<1>1. AnswerInv => AnsweredOnce
  BY DEF AnswerInv, AnsweredOnce
<1> QED
  BY <1>1, LeaseAnswers, PTL

\* And so the two together keep MessageFate's promise.
THEOREM LeasesKeepPromise == ASSUME LeasesLast PROVE Spec => KeepsPromise
<1>1. Init => Promise!FateInit
  BY DEF Init, Promise!FateInit, FateOf, Stored
<1>2. LeaseInv => Bursts /\ KeepInv
  BY DEF LeaseInv, Bursts, KeepInv
<1>3. TypeOK /\ LockInv /\ FirstInv /\ LeaseInv /\ AnswerInv /\ [Next]_vars
      => [Promise!FateNext]_[m \in Msg |-> FateOf(m)]
  BY <1>2, FateNext
<1> QED
  BY <1>1, <1>3, LeaseAnswers, PTL DEF Spec, KeepsPromise, Promise!FateSpec
=============================================================================
