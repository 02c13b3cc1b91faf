------------------------------ MODULE Calendar ------------------------------
(***************************************************************************)
(* A plan and its event: tools/gcal.py makes, moves and cancels them on    *)
(* both sides, calendar_sync.py follows what people do in Google.  Google  *)
(* is asked outside any transaction, so every operation is a few steps     *)
(* with other people's in between.                                         *)
(*                                                                         *)
(* Google itself is external: its events, answers that may be lost, and    *)
(* what changed since a sync token.  An event's day stands for all it      *)
(* says.  Reminders tied to the plan are in Reminders; the idea a plan was *)
(* made from is left out: its status is also set where there is no plan.   *)
(***************************************************************************)
EXTENDS Naturals, Sequences, FiniteSets

CONSTANTS
  Day,        \* when a plan may be
  Asked,      \* the day that is asked for
  Event,      \* event ids (uuid4)
  Key,        \* operation keys: a message or a drawn form, with the intent
  None,       \* no event, no session, nothing asked
  SessionOf,  \* the browser session of a key, None for a message
  Maker,      \* calls of create_event
  Changer,    \* calls of update_event and delete_event
  Syncer,     \* calls of sync_plans
  Hasty,      \* whether people touch, in Google, an event no plan follows yet or
              \* that is being changed, or connect a calendar under a change
  MaxSurprises \* bound: changes by hand, answers lost, stops, tokens forgotten

Mover == Changer \cup Syncer
Worker == Maker \cup Mover

ASSUME CalendarAssumption ==
  /\ Asked \in Day
  /\ {"never", "gone", "cancel", "delete"} \cap Day = {}
  /\ None \notin Event
  /\ Maker \cap Mover = {} /\ Changer \cap Syncer = {}
  /\ Hasty \in BOOLEAN /\ MaxSurprises \in Nat

VARIABLES
  connected,  \* whether a Google calendar is configured
  google,     \* the day of each event; "never" made, or "gone"
  known,      \* whether there is a sync token Google still knows
  unseen,     \* the events changed since that token
  creations,  \* calendar_creations
  plans,      \* the plans table
  wanted,     \* the requests to answer
  pc,         \* how far each call is; "over" if it is not made, or made already
  online,     \* whether it found a calendar configured
  job,        \* a maker's key and event id
  copy,       \* the plan a call works on, as it read it
  goal,       \* what a changer is asked for: a day, "cancel" or "delete"
  answer,     \* what Google said of the plan's event
  changes,    \* what Google said has changed, and whether that is everything
  todo,       \* the plans a sync has yet to go through, as it read them
  since,      \* the events changed since a sync asked
  surprises

outside == <<connected, google, known, unseen, since>>
db == <<creations, plans>>
held == <<online, job, copy, goal, answer, changes, todo>>
vars == <<outside, db, wanted, pc, held, surprises>>

NoJob == [key |-> None, event |-> None]
NoChanges == [events |-> [e \in {} |-> "gone"], full |-> FALSE]

\* A plan as somebody read it: its number and its row.
Plan == [event : Event, start : Day, live : BOOLEAN, google : BOOLEAN]
Row(i) == [id |-> i, row |-> plans[i]]
NoRow == [id |-> 0, row |-> None]

OnGoogle(e) == google[e] \in Day
\* plans.for_event
Holding(e) == {i \in DOMAIN plans : plans[i].event = e}

Init ==
  /\ connected \in BOOLEAN
  /\ known \in {FALSE, connected}
  /\ google = [e \in Event |-> "never"]
  /\ unseen = {}
  /\ creations = {}
  /\ plans = <<>>
  /\ wanted \in SUBSET Key
  /\ pc \in [Worker -> {"idle", "over"}]
  /\ online = [w \in Maker \cup Changer |-> FALSE]
  /\ job = [m \in Maker |-> NoJob]
  /\ copy = [w \in Mover |-> NoRow]
  /\ goal = [c \in Changer |-> None]
  /\ answer = [c \in Changer |-> "never"]
  /\ changes = [s \in Syncer |-> NoChanges]
  /\ todo = [s \in Syncer |-> {}]
  /\ since = [s \in Syncer |-> {}]
  /\ surprises = 0

At(w, place) == pc[w] = place
GoTo(w, place) == pc' = [pc EXCEPT ![w] = place]

-----------------------------------------------------------------------------
\* Google.  What changes is new to the token that is kept, and to the one a
\* sync was given with its answer.
Touch(e, day) ==
  /\ google' = [google EXCEPT ![e] = day]
  /\ unseen' = unseen \cup {e}
  /\ since' = [s \in Syncer |->
       IF pc[s] \in {"list", "apply"} THEN since[s] \cup {e} ELSE {}]
  /\ UNCHANGED <<connected, known>>

\* An insert with the id of an event that is there changes nothing (409).
Put(e, day) ==
  IF google[e] = "never" THEN Touch(e, day) ELSE UNCHANGED outside

\* A delete of one that is not there is done (404, 410).
Delete(e) == IF OnGoogle(e) THEN Touch(e, "gone") ELSE UNCHANGED outside

\* What a call gets back that asks for an event: gone for both.
Seen(e) == IF OnGoogle(e) THEN google[e] ELSE "gone"

ByHand(e, day) ==
  /\ surprises < MaxSurprises
  /\ OnGoogle(e) /\ day # google[e]
  /\ Hasty \/ \E i \in Holding(e) : plans[i].google /\ \A c \in Changer : copy[c].id # i
  /\ Touch(e, day)
  /\ surprises' = surprises + 1
  /\ UNCHANGED <<db, wanted, pc, held>>

\* The token is too old for Google (410).
Forget ==
  /\ known /\ surprises < MaxSurprises
  /\ known' = FALSE
  /\ surprises' = surprises + 1
  /\ UNCHANGED <<connected, google, unseen, since, db, wanted, pc, held>>

\* A family that kept its plans here connects a calendar.
Connect ==
  /\ ~connected
  /\ Hasty \/ \A c \in Changer : copy[c] = NoRow
  /\ connected' = TRUE
  /\ UNCHANGED <<google, known, unseen, since, db, wanted, pc, held, surprises>>

-----------------------------------------------------------------------------
\* create_event.

\* calendar_ops.unfinished
Unfinished(session) ==
  {c.event : c \in {d \in creations : d.resume = session /\ Holding(d.event) = {}}}
Resumable(k) == IF SessionOf[k] = None THEN {} ELSE Unfinished(SessionOf[k])
Used == {c.event : c \in creations}
\* uuid4: an id of its own, whichever.
Fresh == CHOOSE e \in Event : e \notin Used
Reserved(k) == {c.event : c \in {d \in creations : d.key = k}}

Begin(m, k, e) ==
  /\ At(m, "idle") /\ k \in wanted
  /\ job' = [job EXCEPT ![m] = [key |-> k, event |-> e]]
  /\ online' = [online EXCEPT ![m] = connected]
  /\ GoTo(m, "look")
  /\ UNCHANGED <<outside, plans, wanted, copy, goal, answer, changes, todo, surprises>>

\* (slip) a redrawn form asks for an event of its own
ReserveAnew(m, k, e) ==
  /\ \/ e \in Reserved(k) /\ UNCHANGED creations
     \/ /\ Reserved(k) = {} /\ e \notin Used /\ e = Fresh
        /\ creations' = creations \cup {[key |-> k, event |-> e, resume |-> SessionOf[k]]}
  /\ Begin(m, k, e)

\* (slip) every try asks for an event of its own
ReserveEachTime(m, k, e) ==
  /\ e \notin Used /\ e = Fresh
  /\ creations' = creations \cup {[key |-> k, event |-> e, resume |-> SessionOf[k]]}
  /\ Begin(m, k, e)

\* The id is kept before Google is asked.
Reserve(m, k, e) ==
  /\ \/ e \in Reserved(k) /\ UNCHANGED creations
     \/ /\ Reserved(k) = {} /\ e \in Resumable(k)
        /\ creations' = creations \cup {[key |-> k, event |-> e, resume |-> None]}
     \/ /\ Reserved(k) = {} /\ Resumable(k) = {} /\ e \notin Used /\ e = Fresh
        /\ creations' = creations \cup {[key |-> k, event |-> e, resume |-> SessionOf[k]]}
  /\ Begin(m, k, e)

\* get_event and for_event: made before, on Google already, or still to ask.
LookUp(m) ==
  LET e == job[m].event IN
  /\ At(m, "look")
  /\ GoTo(m, IF Holding(e) # {} THEN "made"
             ELSE IF online[m] /\ ~OnGoogle(e) THEN "insert" ELSE "keep")
  /\ UNCHANGED <<outside, db, wanted, held, surprises>>

\* Refused when the event was made before and is gone again.
Insert(m) ==
  LET e == job[m].event IN
  /\ At(m, "insert")
  /\ Put(e, Asked)
  /\ GoTo(m, IF google[e] = "gone" THEN "out" ELSE "keep")
  /\ UNCHANGED <<db, wanted, held, surprises>>

\* (slip) the plan is stored without another look
KeepUnread(m) ==
  LET e == job[m].event IN
  /\ At(m, "keep")
  /\ plans' = Append(plans, [event |-> e, start |-> Asked, live |-> TRUE,
                             google |-> online[m]])
  /\ GoTo(m, "made")
  /\ UNCHANGED <<outside, creations, wanted, held, surprises>>

Keep(m) ==
  LET e == job[m].event IN
  /\ At(m, "keep")
  /\ \/ Holding(e) # {} /\ UNCHANGED plans
     \/ /\ Holding(e) = {}
        /\ plans' = Append(plans, [event |-> e, start |-> Asked, live |-> TRUE,
                                   google |-> online[m]])
  /\ GoTo(m, "made")
  /\ UNCHANGED <<outside, creations, wanted, held, surprises>>

\* The request is answered with what was made, or it is made again.
Answer(m) ==
  /\ pc[m] \in {"made", "out"}
  /\ wanted' = IF At(m, "made") THEN wanted \ {job[m].key} ELSE wanted
  /\ GoTo(m, "idle")
  /\ job' = [job EXCEPT ![m] = NoJob]
  /\ online' = [online EXCEPT ![m] = FALSE]
  /\ UNCHANGED <<outside, db, copy, goal, answer, changes, todo, surprises>>

-----------------------------------------------------------------------------
\* A plan kept here goes on Google (calendar_sync.adopt), with the id it has.

AdoptLook(w) ==
  /\ At(w, "adopt")
  /\ GoTo(w, IF OnGoogle(copy[w].row.event) THEN "adopted" ELSE "put")
  /\ UNCHANGED <<outside, db, wanted, held, surprises>>

AdoptPut(w) ==
  LET e == copy[w].row.event IN
  /\ At(w, "put")
  /\ Put(e, copy[w].row.start)
  /\ GoTo(w, IF google[e] = "gone" THEN "out" ELSE "adopted")
  /\ UNCHANGED <<db, wanted, held, surprises>>

\* Where a changer goes once it has its plan: delete_event does not refresh.
AfterTarget(row, want) ==
  CASE want # "delete" /\ row.google -> "refresh"
    [] ~row.live -> "out"
    [] row.google -> "write"
    [] OTHER -> "store"

\* (slip) that it is on Google now is not stored
AdoptUnstored(w) ==
  /\ At(w, "adopted")
  /\ GoTo(w, IF w \in Syncer THEN "next" ELSE AfterTarget(copy[w].row, goal[w]))
  /\ UNCHANGED <<outside, db, wanted, held, surprises>>

AdoptKeep(w) ==
  LET i == copy[w].id IN
  /\ At(w, "adopted")
  /\ plans' = [plans EXCEPT ![i].google = TRUE]
  /\ copy' = [copy EXCEPT ![w] = [id |-> i, row |-> [plans[i] EXCEPT !.google = TRUE]]]
  /\ GoTo(w, IF w \in Syncer THEN "next" ELSE AfterTarget(copy'[w].row, goal[w]))
  /\ UNCHANGED <<outside, creations, wanted, online, job, goal, answer,
                 changes, todo, surprises>>

-----------------------------------------------------------------------------
\* apply_event: the plan as it was read, what Google says of its event, and the
\* row after.
\* (slip) no event is taken for one that moved
DecidesUnasked(row, day) == [row EXCEPT !.start = day, !.live = TRUE]

Decides(row, day) ==
  IF day = "gone" THEN [row EXCEPT !.live = FALSE]
  ELSE [row EXCEPT !.start = day, !.live = TRUE]
Differs(row, day) == Decides(row, day) # row

\* (slip) an event that is gone is passed over
ApplyEventIfAny(read, day) ==
  IF Differs(read.row, day) /\ day # "gone"
  THEN plans' = [plans EXCEPT ![read.id] = Decides(plans[read.id], day)]
  ELSE UNCHANGED plans

ApplyEvent(read, day) ==
  IF Differs(read.row, day)
  THEN plans' = [plans EXCEPT ![read.id] = Decides(plans[read.id], day)]
  ELSE UNCHANGED plans

-----------------------------------------------------------------------------
\* update_event and delete_event.

Target(c, i, want) ==
  /\ At(c, "idle") /\ i \in DOMAIN plans
  /\ goal' = [goal EXCEPT ![c] = want]
  /\ copy' = [copy EXCEPT ![c] = Row(i)]
  /\ online' = [online EXCEPT ![c] = connected]
  /\ GoTo(c, IF connected /\ plans[i].live /\ ~plans[i].google THEN "adopt"
             ELSE AfterTarget(plans[i], want))
  /\ UNCHANGED <<outside, db, wanted, job, answer, changes, todo, surprises>>

Refresh(c) ==
  /\ At(c, "refresh")
  /\ answer' = [answer EXCEPT ![c] = Seen(copy[c].row.event)]
  /\ GoTo(c, "refreshed")
  /\ UNCHANGED <<outside, db, wanted, online, job, copy, goal, changes, todo, surprises>>

ApplyRefresh(c) ==
  LET i == copy[c].id IN
  /\ At(c, "refreshed")
  /\ ApplyEvent(copy[c], answer[c])
  /\ copy' = [copy EXCEPT ![c].row =
       IF Differs(@, answer[c]) THEN plans'[i] ELSE @]
  /\ GoTo(c, IF copy'[c].row.live THEN "write" ELSE "out")
  /\ UNCHANGED <<outside, creations, wanted, online, job, goal, answer, changes,
                 todo, surprises>>

\* Google first; a patch of an event that is gone is an error.
Write(c) ==
  LET e == copy[c].row.event IN
  /\ At(c, "write")
  /\ IF goal[c] \in Day
     THEN IF OnGoogle(e) THEN Touch(e, goal[c]) /\ GoTo(c, "store")
          ELSE UNCHANGED outside /\ GoTo(c, "out")
     ELSE Delete(e) /\ GoTo(c, "store")
  /\ UNCHANGED <<db, wanted, held, surprises>>

Store(c) ==
  LET i == copy[c].id IN
  /\ At(c, "store")
  /\ plans' = IF goal[c] \in Day THEN [plans EXCEPT ![i].start = goal[c]]
              ELSE [plans EXCEPT ![i].live = FALSE]
  /\ GoTo(c, "out")
  /\ UNCHANGED <<outside, creations, wanted, held, surprises>>

-----------------------------------------------------------------------------
\* sync_plans: what was kept here first, then one answer for every plan.

KeptHere == {Row(i) : i \in {j \in DOMAIN plans : plans[j].live /\ ~plans[j].google}}
\* Of plans not asked about yet: the question after a plan is in PlanDays.
LiveOn == {Row(i) : i \in {j \in DOMAIN plans : plans[j].live /\ plans[j].google}}

SyncStart(s) ==
  /\ At(s, "idle") /\ connected
  /\ todo' = [todo EXCEPT ![s] = KeptHere]
  /\ GoTo(s, "next")
  /\ UNCHANGED <<outside, db, wanted, online, job, copy, goal, answer, changes, surprises>>

AdoptNext(s, r) ==
  /\ At(s, "next") /\ r \in todo[s]
  /\ copy' = [copy EXCEPT ![s] = r]
  /\ todo' = [todo EXCEPT ![s] = @ \ {r}]
  /\ GoTo(s, "adopt")
  /\ UNCHANGED <<outside, db, wanted, online, job, goal, answer, changes, surprises>>

ReadChanges(s) ==
  /\ At(s, "next") /\ todo[s] = {}
  /\ copy' = [copy EXCEPT ![s] = NoRow]
  /\ changes' = [changes EXCEPT ![s] =
       IF known THEN [events |-> [e \in unseen |-> Seen(e)], full |-> FALSE]
       ELSE [events |-> [e \in {f \in Event : OnGoogle(f)} |-> google[e]], full |-> TRUE]]
  /\ since' = [since EXCEPT ![s] = {}]
  /\ GoTo(s, "list")
  /\ UNCHANGED <<connected, google, known, unseen, db, wanted, online, job, goal,
                 answer, todo, surprises>>

ListPlans(s) ==
  /\ At(s, "list")
  /\ todo' = [todo EXCEPT ![s] = LiveOn]
  /\ GoTo(s, "apply")
  /\ UNCHANGED <<outside, db, wanted, online, job, copy, goal, answer, changes, surprises>>

ApplyNext(s, r) ==
  LET e == r.row.event IN
  /\ At(s, "apply") /\ r \in todo[s]
  /\ todo' = [todo EXCEPT ![s] = @ \ {r}]
  /\ IF e \in DOMAIN changes[s].events THEN ApplyEvent(r, changes[s].events[e])
     ELSE IF changes[s].full THEN ApplyEvent(r, "gone")
     ELSE UNCHANGED plans
  /\ UNCHANGED <<outside, creations, wanted, pc, online, job, copy, goal, answer,
                 changes, surprises>>

\* (slip) the token of this moment, not of the answer
SaveNewToken(s) ==
  /\ At(s, "apply") /\ todo[s] = {}
  /\ known' = TRUE
  /\ unseen' = {}
  /\ since' = [since EXCEPT ![s] = {}]
  /\ changes' = [changes EXCEPT ![s] = NoChanges]
  /\ GoTo(s, "idle")
  /\ UNCHANGED <<connected, google, db, wanted, online, job, copy, goal, answer,
                 todo, surprises>>

SaveToken(s) ==
  /\ At(s, "apply") /\ todo[s] = {}
  /\ known' = TRUE
  /\ unseen' = since[s]
  /\ since' = [since EXCEPT ![s] = {}]
  /\ changes' = [changes EXCEPT ![s] = NoChanges]
  /\ GoTo(s, "idle")
  /\ UNCHANGED <<connected, google, db, wanted, online, job, copy, goal, answer,
                 todo, surprises>>

-----------------------------------------------------------------------------
\* An answer that is lost: what was asked of Google is done or not.
Lost(w) ==
  /\ surprises < MaxSurprises
  /\ pc[w] \notin {"idle", "over", "out"}
  /\ \/ UNCHANGED outside
     \/ At(w, "insert") /\ Put(job[w].event, Asked)
     \/ At(w, "put") /\ Put(copy[w].row.event, copy[w].row.start)
     \/ At(w, "write") /\ goal[w] \notin Day /\ Delete(copy[w].row.event)
     \/ /\ At(w, "write") /\ goal[w] \in Day /\ OnGoogle(copy[w].row.event)
        /\ Touch(copy[w].row.event, goal[w])
  /\ GoTo(w, "out")
  /\ surprises' = surprises + 1
  /\ UNCHANGED <<db, wanted, held>>

\* Out of its call, done or not.  A change is not made again; a sync comes
\* round, from the start.
Drop(w) ==
  /\ At(w, "out") /\ w \in Mover
  /\ GoTo(w, IF w \in Changer THEN "over" ELSE "idle")
  /\ copy' = [copy EXCEPT ![w] = NoRow]
  /\ online' = [c \in DOMAIN online |-> online[c] /\ c # w]
  /\ goal' = [c \in Changer |-> IF c = w THEN None ELSE goal[c]]
  /\ answer' = [c \in Changer |-> IF c = w THEN "never" ELSE answer[c]]
  /\ todo' = [s \in Syncer |-> IF s = w THEN {} ELSE todo[s]]
  /\ changes' = [s \in Syncer |-> IF s = w THEN NoChanges ELSE changes[s]]
  /\ since' = [s \in Syncer |-> IF s = w THEN {} ELSE since[s]]
  /\ UNCHANGED <<connected, google, known, unseen, db, wanted, job, surprises>>

\* The process stops with all it was doing.
Stop ==
  /\ surprises < MaxSurprises
  /\ \E w \in Worker : pc[w] \notin {"idle", "over", "out"}
  /\ pc' = [w \in Worker |-> IF pc[w] \in {"idle", "over"} THEN pc[w] ELSE "out"]
  /\ surprises' = surprises + 1
  /\ UNCHANGED <<outside, db, wanted, held>>

-----------------------------------------------------------------------------
Make(m) ==
  \/ \E k \in Key, e \in Event : Reserve(m, k, e)
  \/ LookUp(m) \/ Insert(m) \/ Keep(m) \/ Answer(m)
Adopt(w) == AdoptLook(w) \/ AdoptPut(w) \/ AdoptKeep(w)
Change(c) == Adopt(c) \/ Refresh(c) \/ ApplyRefresh(c) \/ Write(c) \/ Store(c) \/ Drop(c)
Sync(s) ==
  \/ SyncStart(s) \/ ReadChanges(s) \/ ListPlans(s) \/ SaveToken(s) \/ Drop(s)
  \/ Adopt(s)
  \/ \E r \in todo[s] : AdoptNext(s, r) \/ ApplyNext(s, r)

Next ==
  \/ \E m \in Maker : Make(m)
  \/ \E c \in Changer : Change(c)
  \/ \E c \in Changer, i \in DOMAIN plans, want \in Day \cup {"cancel", "delete"} :
       Target(c, i, want)
  \/ \E s \in Syncer : Sync(s)
  \/ \E e \in Event, day \in Day \cup {"gone"} : ByHand(e, day)
  \/ \E w \in Worker : Lost(w)
  \/ Forget \/ Connect \/ Stop

Spec == Init /\ [][Next]_vars

\* What was begun goes on, what failed is asked again, syncs come round.
Fairness ==
  /\ \A m \in Maker : WF_vars(Make(m))
  /\ \A c \in Changer : WF_vars(Change(c))
  /\ \A s \in Syncer : WF_vars(Sync(s))

FairSpec == Spec /\ Fairness

-----------------------------------------------------------------------------
TypeOK ==
  /\ connected \in BOOLEAN /\ known \in BOOLEAN
  /\ google \in [Event -> Day \cup {"never", "gone"}]
  /\ unseen \subseteq Event
  /\ \A c \in creations : c.key \in Key /\ c.event \in Event
  /\ plans \in Seq(Plan)
  /\ wanted \subseteq Key
  /\ pc \in [Worker -> {"idle", "look", "insert", "keep", "made", "out", "adopt", "put",
       "adopted", "refresh", "refreshed", "write", "store", "over", "next", "list", "apply"}]
  /\ \A m \in Maker : job[m].event \in Event \cup {None}
  /\ \A w \in Mover : copy[w].id \in 0..Len(plans)
  /\ \A s \in Syncer : \A r \in todo[s] : r.id \in DOMAIN plans
  /\ surprises \in 0..MaxSurprises

\* One plan for one event, however often and by how many calls it is asked for
\* at once: create_event looks again in the transaction that stores the plan.
OnePlanEach == \A e \in Event : Cardinality(Holding(e)) <= 1

\* A request has one event id, and a browser session one that no plan holds: a
\* form drawn again takes over what its session left unfinished.
OneEventAsked ==
  /\ \A k \in Key : Cardinality(Reserved(k)) <= 1
  /\ \A k \in Key : Cardinality(Resumable(k)) <= 1

\* With one change and one sync at work at a time, lost answers and stops in
\* between: a live plan is on its event's day, or the next read of Google's
\* changes shows the difference.  No change slips past the token.
InStep ==
  known => \A i \in DOMAIN plans :
    plans[i].live /\ plans[i].google /\ plans[i].event \notin unseen
      => google[plans[i].event] = plans[i].start

\* A plan that is on Google is cancelled only when its event is gone: "a moved
\* event moves the plan, a deleted one cancels it".
OnlyGoneCancels ==
  [][\A i \in DOMAIN plans :
       plans[i].live /\ plans[i].google /\ ~plans'[i].live => ~OnGoogle(plans[i].event)]_vars

\* An event made for a request gets its plan in the end, an answer lost or a
\* stop between the two notwithstanding: the retry finds it by its id.
EveryEventHeld ==
  \A e \in Event : OnGoogle(e) ~> Holding(e) # {} \/ google[e] = "gone"

LivePlan(i) == i \in DOMAIN plans /\ plans[i].live
Followed == \E s \in Syncer : pc[s] # "over"

\* A plan whose event is gone is cancelled in the end: by hand, or when a cancel
\* stopped between Google and the plan.
CancelFollows ==
  \A i \in 1..Cardinality(Event) :
    (Followed /\ LivePlan(i) /\ plans[i].google /\ google[plans[i].event] = "gone") ~> ~LivePlan(i)

\* A plan kept here goes on Google once there is a calendar.
KeptGoesOn ==
  \A i \in 1..Cardinality(Event) :
    (Followed /\ connected /\ LivePlan(i)) ~> (~LivePlan(i) \/ plans[i].google)
=============================================================================
