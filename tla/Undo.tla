-------------------------------- MODULE Undo --------------------------------
(***************************************************************************)
(* Taking back a change (undo.py): a tool that writes leaves its inverse   *)
(* with the call, a press of Undo claims the call, looks whether the       *)
(* record is as the call left it, and puts it back; a press that fails     *)
(* gives the claim up.  Presses come two at a time, others change the same *)
(* records in between, and the service stops.                              *)
(*                                                                         *)
(* An idea added or changed, a plan made or moved and a thing on a list    *)
(* stand for the ten inverses.  Tasks go back by revision, in Reminders.   *)
(***************************************************************************)
EXTENDS Naturals, Sequences, FiniteSets

CONSTANTS
  Idea, PlanId, Item,  \* the records
  Value,      \* what an idea says, when a plan is
  Presser,    \* presses of Undo: the button, the page, the chat
  None,       \* nothing
  MaxCalls,   \* bound: changes that can be undone
  MaxTime,    \* bound: seconds
  MaxStops    \* bound: stops of the service

ASSUME UndoAssumption ==
  /\ None \notin Value
  /\ MaxCalls \in Nat /\ MaxTime \in Nat \ {0} /\ MaxStops \in Nat

\* So many presses can be at it at once.
ASSUME PressersFinite == IsFiniteSet(Presser)

VARIABLES
  clock,
  ideas,   \* None before an idea is added, "dropped", or what it says
  plans,   \* when each is, whether it stands, updated_at, and when it was
           \* written, as some stamp what they write with an earlier time
  items,   \* "off" the list, "open" or "ticked"
  calls,   \* tool_calls that left an inverse; undone_at is 0 before one is claimed
  at,      \* the call a press is at, 0 for none
  pc,      \* how far it is
  puts,    \* how often the inverse of each call was carried out
  stops

records == <<ideas, plans, items>>
vars == <<clock, records, calls, at, pc, puts, stops>>

Op == {"drop_idea", "restore_idea", "cancel_plan", "restore_plan", "list"}

Init ==
  /\ clock = 1
  /\ ideas = [i \in Idea |-> None]
  /\ plans = [p \in PlanId |->
               [start |-> None, live |-> FALSE, updated_at |-> 0, written |-> 0]]
  /\ items = [x \in Item |-> "off"]
  /\ calls = <<>>
  /\ at = [u \in Presser |-> 0]
  /\ pc = [u \in Presser |-> "idle"]
  /\ puts = [i \in 1..MaxCalls |-> 0]
  /\ stops = 0

GoTo(u, place) == pc' = [pc EXCEPT ![u] = place]

Tick ==
  /\ clock < MaxTime
  /\ clock' = clock + 1
  /\ UNCHANGED <<records, calls, at, pc, puts, stops>>

-----------------------------------------------------------------------------
\* What people do.  dispatch keeps the inverse with the call.
Kept(op, record, before, after) ==
  /\ Len(calls) < MaxCalls
  /\ calls' = Append(calls, [op |-> op, record |-> record, before |-> before,
                             after |-> after, undone_at |-> 0])
  /\ UNCHANGED <<clock, at, pc, puts, stops>>

AddIdea(i, v) ==
  /\ ideas[i] = None
  /\ ideas' = [ideas EXCEPT ![i] = v]
  /\ Kept("drop_idea", i, None, v)
  /\ UNCHANGED <<plans, items>>

\* update_idea, its status too.
UpdateIdea(i, v) ==
  /\ ideas[i] # None
  /\ ideas' = [ideas EXCEPT ![i] = v]
  /\ Kept("restore_idea", i, ideas[i], v)
  /\ UNCHANGED <<plans, items>>

\* The row of a plan, written now.
Row(v, live, stamp) ==
  [start |-> v, live |-> live, updated_at |-> stamp, written |-> clock]

CreateEvent(p, v) ==
  /\ plans[p].updated_at = 0
  /\ plans' = [plans EXCEPT ![p] = Row(v, TRUE, clock)]
  /\ Kept("cancel_plan", p, None, clock)
  /\ UNCHANGED <<ideas, items>>

\* What is kept to know the plan by is updated_at alone.
UpdateEvent(p, v) ==
  /\ plans[p].live
  /\ plans' = [plans EXCEPT ![p] = Row(v, TRUE, clock)]
  /\ Kept("restore_plan", p, plans[p].start, clock)
  /\ UNCHANGED <<ideas, items>>

\* Cancelled, moved or deleted in Google, or asked about: nothing to undo is left,
\* and what a sync or the follow-ups write has the time they began at.
ChangeAside(p, v, live, stamp) ==
  /\ plans[p].live /\ (live \/ v = plans[p].start)
  /\ plans' = [plans EXCEPT ![p] = Row(v, live, stamp)]
  /\ UNCHANGED <<clock, ideas, items, calls, at, pc, puts, stops>>

\* shopping_list: what an action makes of a thing, and its OPPOSITE.
After(action, was) ==
  CASE action = "add" -> "open"
    [] action = "remove" -> "off"
    [] action = "tick" -> IF was = "off" THEN "off" ELSE "ticked"
    [] action = "untick" -> IF was = "off" THEN "off" ELSE "open"
Opposite == [add |-> "remove", remove |-> "add", tick |-> "untick", untick |-> "tick"]

\* What is there already, or is not on the list, leaves nothing to undo.
ShoppingList(x, action) ==
  /\ IF action = "add" THEN items[x] # "open" ELSE items[x] # "off"
  /\ items' = [items EXCEPT ![x] = After(action, @)]
  /\ Kept("list", x, Opposite[action], items'[x])
  /\ UNCHANGED <<ideas, plans>>

\* clear_ticked is not brought back.
ClearTicked(x) ==
  /\ items[x] = "ticked"
  /\ items' = [items EXCEPT ![x] = "off"]
  /\ UNCHANGED <<clock, ideas, plans, calls, at, pc, puts, stops>>

-----------------------------------------------------------------------------
\* take_back.
\* (slip) the mark is set without looking at it
ClaimUnasked(u, i) ==
  /\ pc[u] = "idle"
  /\ calls' = [calls EXCEPT ![i].undone_at = clock]
  /\ at' = [at EXCEPT ![u] = i]
  /\ GoTo(u, "claimed")
  /\ UNCHANGED <<clock, records, puts, stops>>

\* claim_undo: a call is marked undone before it is undone, by one press.
Claim(u, i) ==
  /\ pc[u] = "idle" /\ calls[i].undone_at = 0
  /\ calls' = [calls EXCEPT ![i].undone_at = clock]
  /\ at' = [at EXCEPT ![u] = i]
  /\ GoTo(u, "claimed")
  /\ UNCHANGED <<clock, records, puts, stops>>

Call(u) == calls[at[u]]

\* The record is as the call left it, or the press ends in an error.
IdeaUnchanged(c) ==
  \/ c.op = "drop_idea" /\ ideas[c.record] \in Value
  \/ c.op = "restore_idea" /\ ideas[c.record] = c.after

\* (slip) whatever was changed of it since
PlanStands(c) ==
  c.op \in {"cancel_plan", "restore_plan"} /\ plans[c.record].live

\* _plan_unchanged: by updated_at, a time in seconds.
PlanUnchanged(c) ==
  /\ c.op \in {"cancel_plan", "restore_plan"}
  /\ plans[c.record].live /\ plans[c.record].updated_at = c.after

\* A plan is looked at before update_event, the rest in the transaction that
\* writes.
CheckPlan(u) ==
  /\ pc[u] = "claimed" /\ Call(u).op \in {"cancel_plan", "restore_plan"}
  /\ GoTo(u, IF PlanUnchanged(Call(u)) THEN "checked" ELSE "refused")
  /\ UNCHANGED <<clock, records, calls, at, puts, stops>>

PutBack(u) ==
  /\ puts' = [puts EXCEPT ![at[u]] = @ + 1]
  /\ at' = [at EXCEPT ![u] = 0]
  /\ GoTo(u, "idle")
  /\ UNCHANGED <<clock, calls, stops>>

\* update_event reads the plan again: only one that was cancelled is refused.
UndoPlan(u) ==
  LET c == Call(u) IN
  /\ pc[u] = "checked" /\ plans[c.record].live
  /\ plans' = [plans EXCEPT ![c.record] =
       IF c.op = "cancel_plan" THEN Row(@.start, FALSE, clock)
       ELSE Row(c.before, TRUE, clock)]
  /\ PutBack(u)
  /\ UNCHANGED <<ideas, items>>

\* An idea that was added goes by its status alone: what was only edited since is
\* dropped with it.
UndoIdea(u) ==
  LET c == Call(u) IN
  /\ pc[u] = "claimed" /\ IdeaUnchanged(c)
  /\ ideas' = [ideas EXCEPT ![c.record] = IF c.op = "drop_idea" THEN "dropped" ELSE c.before]
  /\ PutBack(u)
  /\ UNCHANGED <<plans, items>>

\* The opposite on the same thing, as the list is now.
UndoList(u) ==
  LET c == Call(u) IN
  /\ pc[u] = "claimed" /\ c.op = "list"
  /\ items' = [items EXCEPT ![c.record] = After(c.before, @)]
  /\ PutBack(u)
  /\ UNCHANGED <<ideas, plans>>

\* The record changed, or Google could not be asked.
Refuse(u) ==
  LET c == Call(u) IN
  /\ \/ pc[u] = "claimed" /\ c.op \in {"drop_idea", "restore_idea"} /\ ~IdeaUnchanged(c)
     \/ pc[u] = "checked"
  /\ GoTo(u, "refused")
  /\ UNCHANGED <<clock, records, calls, at, puts, stops>>

\* (slip) the claim is kept
ReleaseNothing(u) ==
  /\ pc[u] = "refused"
  /\ at' = [at EXCEPT ![u] = 0]
  /\ GoTo(u, "idle")
  /\ UNCHANGED <<clock, records, calls, puts, stops>>

\* release_undo
Release(u) ==
  /\ pc[u] = "refused"
  /\ calls' = [calls EXCEPT ![at[u]].undone_at = 0]
  /\ at' = [at EXCEPT ![u] = 0]
  /\ GoTo(u, "idle")
  /\ UNCHANGED <<clock, records, puts, stops>>

Stop ==
  /\ stops < MaxStops
  /\ \E u \in Presser : at[u] # 0
  /\ at' = [u \in Presser |-> 0]
  /\ pc' = [u \in Presser |-> "idle"]
  /\ stops' = stops + 1
  /\ UNCHANGED <<clock, records, calls, puts>>

-----------------------------------------------------------------------------
People ==
  \/ \E i \in Idea, v \in Value : AddIdea(i, v)
  \/ \E i \in Idea, v \in Value \cup {"dropped"} : UpdateIdea(i, v)
  \/ \E p \in PlanId, v \in Value : CreateEvent(p, v) \/ UpdateEvent(p, v)
  \/ \E p \in PlanId, v \in Value, live \in BOOLEAN, stamp \in 1..clock :
       ChangeAside(p, v, live, stamp)
  \/ \E x \in Item : ClearTicked(x)
  \/ \E x \in Item, action \in DOMAIN Opposite : ShoppingList(x, action)

Press(u) ==
  \/ \E i \in DOMAIN calls : Claim(u, i)
  \/ CheckPlan(u) \/ UndoPlan(u) \/ UndoIdea(u) \/ UndoList(u) \/ Refuse(u) \/ Release(u)

Next == People \/ Tick \/ Stop \/ \E u \in Presser : Press(u)

Spec == Init /\ [][Next]_vars

-----------------------------------------------------------------------------
TypeOK ==
  /\ clock \in 1..MaxTime
  /\ \A i \in Idea : ideas[i] \in Value \cup {None, "dropped"}
  /\ \A p \in PlanId : /\ plans[p].start \in Value \cup {None} /\ plans[p].live \in BOOLEAN
                       /\ plans[p].written \in 0..clock
                       /\ plans[p].updated_at \in 0..plans[p].written
  /\ items \in [Item -> {"off", "open", "ticked"}]
  /\ Len(calls) <= MaxCalls
  /\ \A i \in DOMAIN calls :
       /\ calls[i].op \in Op /\ calls[i].record \in Idea \cup PlanId \cup Item
       /\ calls[i].undone_at \in 0..clock
  /\ at \in [Presser -> 0..Len(calls)]
  /\ \A u \in Presser : (at[u] = 0) = (pc[u] = "idle")
  /\ pc \in [Presser -> {"idle", "claimed", "checked", "refused"}]
  /\ puts \in [1..MaxCalls -> 0..1]
  /\ stops \in 0..MaxStops

AtIt(i) == \E u \in Presser : at[u] = i
Marked == {i \in DOMAIN calls : calls[i].undone_at # 0}

\* "A call is undone once": two presses at the same moment are one undo,
\* whatever others fail, give up or press again in between.
UndoneOnce ==
  /\ \A i \in DOMAIN calls : puts[i] <= (IF calls[i].undone_at # 0 THEN 1 ELSE 0)
  /\ \A u, w \in Presser : at[u] # 0 /\ at[u] = at[w] => u = w
  /\ \A u \in Presser : at[u] # 0 => calls[at[u]].undone_at # 0 /\ puts[at[u]] = 0

\* One that failed can be pressed again: what is marked undone is put back or
\* being put back, or the service stopped in the middle of it.
ClaimsGivenBack ==
  Cardinality({i \in Marked : puts[i] = 0 /\ ~AtIt(i)}) <= stops * Cardinality(Presser)

\* "An undo never undoes somebody else's later change", of a plan as far as the
\* code keeps it: the look at updated_at and the change, with Google asked in
\* between, are steps of their own, and what an undo writes over has the stamp its
\* call left, which a change of the same second or of a job begun in it may share,
\* or was written since Undo was pressed.
PutsBackItsOwn ==
  [][\A i \in DOMAIN calls :
       puts'[i] > puts[i] /\ calls[i].op \in {"cancel_plan", "restore_plan"} =>
       LET plan == plans[calls[i].record] IN
       plan.updated_at = calls[i].after \/ plan.written >= calls[i].undone_at]_vars

\* The same of a thing on a list, which is not looked at: what an undo changes is
\* as its call left it.
ListPutsBackItsOwn ==
  [][\A i \in DOMAIN calls :
       puts'[i] > puts[i] /\ calls[i].op = "list" /\ items' # items =>
       items[calls[i].record] = calls[i].after]_vars
=============================================================================
