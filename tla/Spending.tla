------------------------------ MODULE Spending ------------------------------
(***************************************************************************)
(* The daily spending limit (agent/spending.py).  Before a call to a model *)
(* its estimated cost is held in one short transaction; the call is made   *)
(* with no lock; the transaction that records what it cost gives the hold  *)
(* back.  Threads and processes share one database and nothing else.       *)
(*                                                                         *)
(* Time is in ticks, Day of them from midnight to midnight.  Money is      *)
(* whole.  The month does not turn.                                        *)
(***************************************************************************)
EXTENDS Integers, FiniteSets, FiniteSetsExt

CONSTANTS
  Caller,       \* threads and processes that ask models
  Company,      \* whom they ask
  Limit,        \* settings.daily_spend_limit, not 0
  MonthlyLimit, \* companies.monthly_limit of each
  Dearest,      \* the most a call is estimated at
  Day,
  HoldTime,     \* HOLD_MINUTES
  Longest,      \* how long a call may take, with its retries and its spare
  Horizon,      \* bound: the last moment
  MaxCalls,     \* bound: calls admitted
  MaxCrashes    \* bound: callers that die in a call

ASSUME SpendingAssumption ==
  /\ Limit \in Nat \ {0} /\ MonthlyLimit \in [Company -> Nat \ {0}]
  /\ Dearest \in Nat \ {0} /\ Day \in Nat \ {0}
  /\ HoldTime \in Nat /\ Longest \in Nat /\ Horizon \in Nat
  /\ MaxCalls \in Nat /\ MaxCrashes \in Nat

\* "Longer than any call with its retries and a fallback"
ASSUME HoldOutlasts == Longest <= HoldTime

VARIABLES
  now,
  holds,   \* spend_holds
  last,    \* the id of the last
  spent,   \* what the calls recorded today cost (llm_calls)
  carried, \* and how much of it is for calls admitted before midnight
  paid,    \* what each company was paid this month
  noted,   \* whether admins are told that the limit is used up
  pc,      \* where a caller is
  asked,   \* the company it asks
  hold,    \* the hold it gives back
  crashes

vars == <<now, holds, last, spent, carried, paid, noted, pc, asked, hold, crashes>>

Hold == [id : Nat \ {0}, cost : 1..Dearest, at : Nat]
Running == {c \in Caller : pc[c] # "idle"}

Later(s, t) == IF s > t THEN s ELSE t
DayStart == now - (now % Day)
Total(S) == MapThenSumSet(LAMBDA h : h.cost, S)

\* held_since: today's, and no older than any call.
Counted(other) ==
  {h \in holds : h.at >= Later(DayStart, now - HoldTime) /\ h.id # other}
Used(other) == spent + Total(Counted(other))

\* (slip) the holds share an id
NextIdShared == 1
NextId == last + 1

CompanyFull(k) == paid[k] >= MonthlyLimit[k]

\* (slip) whatever a call holds for a tick was left by a crash
SettledEarly(id) == {h \in holds : h.id # id /\ h.at >= now}
\* settle: this hold, and what a crash left.
Settled(id) == {h \in holds : h.id # id /\ h.at >= now - HoldTime}

Init ==
  /\ now = 0
  /\ holds = {}
  /\ last = 0
  /\ spent = 0
  /\ carried = 0
  /\ paid = [k \in Company |-> 0]
  /\ noted = FALSE
  /\ pc = [c \in Caller |-> "idle"]
  /\ asked \in [Caller -> Company]
  /\ hold = [c \in Caller |-> 0]
  /\ crashes = 0

-----------------------------------------------------------------------------
\* admit

Admit(c, k, cost) ==
  /\ pc[c] = "idle" /\ last < MaxCalls
  /\ Used(0) < Limit /\ ~CompanyFull(k)
  /\ last' = NextId
  /\ holds' = holds \cup {[id |-> NextId, cost |-> cost, at |-> now]}
  /\ hold' = [hold EXCEPT ![c] = NextId]
  /\ asked' = [asked EXCEPT ![c] = k]
  /\ pc' = [pc EXCEPT ![c] = "first"]
  /\ noted' = FALSE
  /\ UNCHANGED <<now, spent, carried, paid, crashes>>

\* The day is used up: admins are told, nobody is asked.
Refuse(c) ==
  /\ pc[c] = "idle"
  /\ Used(0) >= Limit
  /\ noted' = TRUE
  /\ UNCHANGED <<now, holds, last, spent, carried, paid, pc, asked, hold, crashes>>

\* The answer is recorded and the hold given back, in one transaction.
Answer(c, cost) ==
  LET before == {h \in holds : h.id = hold[c] /\ h.at < DayStart} IN
  /\ pc[c] \in {"first", "second"}
  /\ \A h \in holds : h.id = hold[c] => cost <= h.cost
  /\ spent' = spent + cost
  /\ carried' = IF before = {} THEN carried ELSE carried + cost
  /\ paid' = [paid EXCEPT ![asked[c]] = @ + cost]
  /\ holds' = Settled(hold[c])
  /\ pc' = [pc EXCEPT ![c] = "idle"]
  /\ UNCHANGED <<now, last, noted, asked, hold, crashes>>

\* A first call that failed may go to a spare, unless its month is spent.
Switch(c, k) ==
  /\ pc[c] = "first" /\ k # asked[c]
  /\ ~CompanyFull(k)
  /\ asked' = [asked EXCEPT ![c] = k]
  /\ pc' = [pc EXCEPT ![c] = "spare"]
  /\ UNCHANGED <<now, holds, last, spent, carried, paid, noted, hold, crashes>>

Fail(c) ==
  /\ pc[c] \in {"first", "second"}
  /\ pc' = [pc EXCEPT ![c] = "failed"]
  /\ UNCHANGED <<now, holds, last, spent, carried, paid, noted, asked, hold, crashes>>

-----------------------------------------------------------------------------
\* adjust: held again at the spare's price, its own hold not counted.

\* (slip) nothing asks whether the dearer call still fits
AdjustUnchecked(c, cost) ==
  /\ pc[c] = "spare"
  /\ holds' = {IF h.id = hold[c] THEN [h EXCEPT !.cost = cost] ELSE h : h \in holds}
  /\ pc' = [pc EXCEPT ![c] = "second"]
  /\ UNCHANGED <<now, last, spent, carried, paid, noted, asked, hold, crashes>>

Adjust(c, cost) ==
  /\ pc[c] = "spare" /\ Used(hold[c]) < Limit
  /\ holds' = {IF h.id = hold[c] THEN [h EXCEPT !.cost = cost] ELSE h : h \in holds}
  /\ pc' = [pc EXCEPT ![c] = "second"]
  /\ UNCHANGED <<now, last, spent, carried, paid, noted, asked, hold, crashes>>

\* Refused: the settle inside is rolled back with its transaction.
AdjustRefused(c) ==
  /\ pc[c] = "spare" /\ Used(hold[c]) >= Limit
  /\ pc' = [pc EXCEPT ![c] = "failed"]
  /\ UNCHANGED <<now, holds, last, spent, carried, paid, noted, asked, hold, crashes>>

\* (slip) a call that failed keeps its hold
SettleNothing(c) ==
  /\ pc[c] = "failed"
  /\ pc' = [pc EXCEPT ![c] = "idle"]
  /\ UNCHANGED <<now, holds, last, spent, carried, paid, noted, asked, hold, crashes>>

\* Whatever went wrong, the hold is given back on the way out.
Settle(c) ==
  /\ pc[c] = "failed"
  /\ holds' = Settled(hold[c])
  /\ pc' = [pc EXCEPT ![c] = "idle"]
  /\ UNCHANGED <<now, last, spent, carried, paid, noted, asked, hold, crashes>>

-----------------------------------------------------------------------------
\* A caller dies and leaves its hold.
Crash(c) ==
  /\ c \in Running /\ crashes < MaxCrashes
  /\ crashes' = crashes + 1
  /\ pc' = [pc EXCEPT ![c] = "idle"]
  /\ UNCHANGED <<now, holds, last, spent, carried, paid, noted, asked, hold>>

\* No call outlives its timeouts; at midnight the day's sum is of no calls.
Tick ==
  /\ now < Horizon
  /\ \A c \in Running, h \in holds : h.id = hold[c] => now < h.at + Longest
  /\ now' = now + 1
  /\ spent' = IF now' % Day = 0 THEN 0 ELSE spent
  /\ carried' = IF now' % Day = 0 THEN 0 ELSE carried
  /\ UNCHANGED <<holds, last, paid, noted, pc, asked, hold, crashes>>

Next ==
  \/ \E c \in Caller, k \in Company, cost \in 1..Dearest : Admit(c, k, cost)
  \/ \E c \in Caller, cost \in 1..Dearest : Answer(c, cost) \/ Adjust(c, cost)
  \/ \E c \in Caller, k \in Company : Switch(c, k)
  \/ \E c \in Caller :
       Refuse(c) \/ Fail(c) \/ AdjustRefused(c) \/ Settle(c) \/ Crash(c)
  \/ Tick

Spec == Init /\ [][Next]_vars

-----------------------------------------------------------------------------
\* The types; and each hold has an id of its own.
TypeOK ==
  /\ now \in Nat
  /\ holds \subseteq Hold
  /\ \A g, h \in holds : g.id = h.id => g = h
  /\ \A h \in holds : h.id <= last /\ h.at <= now
  /\ last \in Nat /\ spent \in Nat /\ carried \in Nat
  /\ paid \in [Company -> Nat]
  /\ noted \in BOOLEAN
  /\ pc \in [Caller -> {"idle", "first", "spare", "second", "failed"}]
  /\ asked \in [Caller -> Company]
  /\ hold \in [Caller -> Nat]
  /\ crashes \in Nat

\* A call under way is held for until it is over: what clears the holds a
\* crash left never takes a running call's, its own or another caller's.
EachCallHeld == \A c \in Running : \E h \in holds : h.id = hold[c]

\* And a hold is some running call's or a crash's: failures, refusals and the
\* rolled-back release of adjust leave none behind to eat the day.
HoldsOwned ==
  Cardinality({h \in holds : \A c \in Running : h.id # hold[c]}) <= crashes

\* Threads and processes together pass the day's limit by less than one call,
\* however they interleave, and by what calls begun before midnight cost.
OneCrosses ==
  LET mine == {h \in holds : h.at >= DayStart /\ \E c \in Running : h.id = hold[c]}
  IN spent - carried + Total(mine) < Limit + Dearest
=============================================================================
