--------------------------- MODULE CalendarProofs ---------------------------
(***************************************************************************)
(* What Calendar promises however many calls are made at once, whatever    *)
(* answers are lost and whatever people do in Google meanwhile: Hasty or   *)
(* not, for any requests, sessions, events and bounds.                     *)
(*                                                                         *)
(* Calls hold plans as they read them; what is kept of a plan through      *)
(* every change is its number and its event, and that is what the          *)
(* invariant says of what is held.                                         *)
(*                                                                         *)
(* Then, with one call changing plans at a time, that no change in Google  *)
(* is missed.  Here the invariant follows what each call read and was      *)
(* told: it still holds, or what changed since is still to be told.        *)
(***************************************************************************)
EXTENDS Calendar, FiniteSetTheorems, SequenceTheorems, TLAPS

Days == Day \cup {"gone"}
Answers == [events : UNION {[some -> Days] : some \in SUBSET Event}, full : BOOLEAN]

Shapes ==
  /\ job \in [Maker -> [key : Key \cup {None}, event : Event \cup {None}]]
  /\ online \in [Maker \cup Changer -> BOOLEAN]
  /\ copy \in [Mover -> [id : Nat, row : Plan \cup {None}]]
  /\ answer \in [Changer -> Days \cup {"never"}]
  /\ changes \in [Syncer -> Answers]
  /\ todo \in [Syncer -> SUBSET [id : Nat, row : Plan]]
  /\ since \in [Syncer -> SUBSET Event]

\* Where a call holds a plan it works on.
Busy == {"adopt", "put", "adopted", "refresh", "refreshed", "write", "store"}

Places ==
  /\ \A m \in Maker : pc[m] \in {"idle", "over", "look", "insert", "keep", "made", "out"}
  /\ \A m \in Maker : pc[m] \in {"look", "insert", "keep"} => job[m].event \in Event
  /\ \A w \in Mover : pc[w] # "insert"
  /\ \A w \in Mover : pc[w] \in Busy => copy[w].id \in DOMAIN plans /\ copy[w].row \in Plan
  /\ \A c \in Changer : pc[c] = "refreshed" => answer[c] \in Days

OnePlan == \A i, j \in DOMAIN plans : plans[i].event = plans[j].event => i = j

OneAsked ==
  /\ \A c, d \in creations : c.key = d.key => c = d
  /\ \A c, d \in creations :
       /\ c.resume = d.resume /\ c.resume # None
       /\ Holding(c.event) = {} /\ Holding(d.event) = {}
       => c.event = d.event

Inv == TypeOK /\ Shapes /\ Places /\ OnePlan /\ OneAsked

-----------------------------------------------------------------------------
\* The plans, edited and added to.

LEMMA PlansFacts ==
  ASSUME Inv
  PROVE  /\ plans \in Seq(Plan) /\ Len(plans) \in Nat /\ DOMAIN plans = 1..Len(plans)
         /\ \A i \in DOMAIN plans : plans[i] \in Plan
BY DEF Inv, TypeOK

\* Held plans stay plans, and what is reserved stays so, while plans keep their
\* number and event.
LEMMA Edited ==
  ASSUME Inv, NEW i \in DOMAIN plans, NEW row \in Plan, row.event = plans[i].event,
         plans' = [plans EXCEPT ![i] = row], creations' = creations
  PROVE  /\ plans' \in Seq(Plan) /\ DOMAIN plans' = DOMAIN plans /\ Len(plans') = Len(plans)
         /\ plans'[i] = row /\ \A j \in DOMAIN plans : j # i => plans'[j] = plans[j]
         /\ OnePlan' /\ OneAsked'
<1>1. /\ plans \in Seq(Plan) /\ Len(plans) \in Nat /\ DOMAIN plans = 1..Len(plans)
      /\ \A j \in DOMAIN plans : plans[j] \in Plan
  BY PlansFacts
<1>2. plans' \in Seq(Plan) /\ DOMAIN plans' = DOMAIN plans /\ Len(plans') = Len(plans)
  BY <1>1, ExceptSeq
<1>3. plans'[i] = row /\ \A j \in DOMAIN plans : j # i => plans'[j] = plans[j]
  BY <1>1
<1>4. \A j \in DOMAIN plans : plans'[j].event = plans[j].event
  BY <1>3
<1>5. \A e : Holding(e)' = Holding(e)
  BY <1>2, <1>4 DEF Holding
<1>6. OnePlan'
  BY <1>2, <1>4 DEF Inv, OnePlan
<1>7. OneAsked'
  BY <1>5 DEF Inv, OneAsked
<1> QED
  BY <1>2, <1>3, <1>6, <1>7

LEMMA Same ==
  ASSUME Inv, UNCHANGED db
  PROVE  OnePlan' /\ OneAsked'
BY DEF Inv, db, OnePlan, OneAsked, Holding

LEMMA InitInv == Init => Inv
<1> SUFFICES ASSUME Init PROVE Inv
  OBVIOUS
<1>1. TypeOK
  <2>1. connected \in BOOLEAN /\ known \in BOOLEAN
    BY DEF Init
  <2>2. pc \in [Worker -> {"idle", "look", "insert", "keep", "made", "out", "adopt", "put",
          "adopted", "refresh", "refreshed", "write", "store", "over", "next", "list", "apply"}]
    BY DEF Init
  <2>3. plans \in Seq(Plan) /\ Len(plans) = 0
    BY DEF Init
  <2>4. \A m \in Maker : job[m].event \in Event \cup {None}
    BY DEF Init, NoJob
  <2>5. \A w \in Mover : copy[w].id \in 0..Len(plans)
    BY <2>3 DEF Init, NoRow
  <2>6. google \in [Event -> Day \cup {"never", "gone"}] /\ surprises \in 0..MaxSurprises
    BY CalendarAssumption DEF Init
  <2> QED
    BY <2>1, <2>2, <2>3, <2>4, <2>5, <2>6 DEF Init, TypeOK
<1>2. NoChanges \in Answers
  BY DEF NoChanges, Answers
<1>3. Shapes
  BY <1>2 DEF Init, Shapes, NoJob, NoRow
<1>4. Places
  BY CalendarAssumption DEF Init, Places, Busy, Worker, Mover
<1>5. OnePlan /\ OneAsked
  BY DEF Init, OnePlan, OneAsked
<1> QED
  BY <1>1, <1>3, <1>4, <1>5 DEF Inv

-----------------------------------------------------------------------------
\* Google.
GoogleOK ==
  /\ google \in [Event -> Day \cup {"never", "gone"}] /\ unseen \subseteq Event
  /\ since \in [Syncer -> SUBSET Event]
  /\ connected \in BOOLEAN /\ known \in BOOLEAN

LEMMA TouchOK ==
  ASSUME GoogleOK, NEW e \in Event, NEW day \in Days, Touch(e, day)
  PROVE  GoogleOK'
BY DEF GoogleOK, Touch, Days

LEMMA PutOK ==
  ASSUME GoogleOK, NEW e \in Event, NEW day \in Days, Put(e, day)
  PROVE  GoogleOK'
<1>1. CASE google[e] = "never"
  BY <1>1, TouchOK DEF Put
<1>2. CASE google[e] # "never"
  BY <1>2 DEF Put, GoogleOK, outside
<1> QED
  BY <1>1, <1>2

LEMMA DeleteOK ==
  ASSUME GoogleOK, NEW e \in Event, Delete(e)
  PROVE  GoogleOK'
<1>1. CASE OnGoogle(e)
  BY <1>1, TouchOK DEF Delete, Days
<1>2. CASE ~OnGoogle(e)
  BY <1>2 DEF Delete, GoogleOK, outside
<1> QED
  BY <1>1, <1>2

LEMMA StillOK == ASSUME GoogleOK, UNCHANGED outside PROVE GoogleOK'
BY DEF GoogleOK, outside

\* A step on Google alone.
LEMMA OutsideInv ==
  ASSUME Inv, GoogleOK', UNCHANGED <<db, wanted, pc, held>>, surprises' \in 0..MaxSurprises
  PROVE  Inv'
<1>1. TypeOK'
  BY DEF Inv, TypeOK, GoogleOK, db, held
<1>2. Shapes' /\ Places'
  BY DEF Inv, Shapes, Places, GoogleOK, db, held
<1> QED
  BY <1>1, <1>2, Same DEF Inv

-----------------------------------------------------------------------------
\* create_event.
Spots == {"idle", "look", "insert", "keep", "made", "out", "adopt", "put", "adopted",
          "refresh", "refreshed", "write", "store", "over", "next", "list", "apply"}

LEMMA PcFacts == ASSUME Inv PROVE pc \in [Worker -> Spots] /\ GoogleOK
BY DEF Inv, TypeOK, Shapes, Spots, GoogleOK

\* A maker's step that leaves the tables alone.
LEMMA MakerInv ==
  ASSUME Inv, GoogleOK', NEW m \in Maker,
         NEW spot \in {"idle", "over", "look", "insert", "keep", "made", "out"},
         pc' = [pc EXCEPT ![m] = spot],
         job' \in [Maker -> [key : Key \cup {None}, event : Event \cup {None}]],
         \A n \in Maker : n # m => job'[n] = job[n],
         spot \in {"look", "insert", "keep"} => job'[m].event \in Event,
         online' \in [Maker \cup Changer -> BOOLEAN],
         wanted' \subseteq Key, surprises' \in 0..MaxSurprises,
         UNCHANGED <<copy, goal, answer, changes, todo>>
  PROVE  /\ pc' \in [Worker -> Spots]
         /\ Shapes'
         /\ (\A i \in DOMAIN plans : i \in DOMAIN plans') => Places'
         /\ UNCHANGED db => Inv'
<1>1. pc' \in [Worker -> Spots]
  BY PcFacts DEF Worker, Spots
<1>2. Shapes'
  BY DEF Inv, Shapes, GoogleOK
<1>3. \A w \in Mover : pc'[w] = pc[w]
  BY CalendarAssumption, PcFacts DEF Worker
<1>4. /\ \A n \in Maker : pc'[n] \in {"idle", "over", "look", "insert", "keep", "made", "out"}
      /\ \A n \in Maker : pc'[n] \in {"look", "insert", "keep"} => job'[n].event \in Event
  BY PcFacts DEF Inv, Places, Worker
<1>5. ASSUME \A i \in DOMAIN plans : i \in DOMAIN plans'
      PROVE  Places'
  BY <1>3, <1>4, <1>5, CalendarAssumption DEF Inv, Places, Mover
<1>6. ASSUME UNCHANGED db PROVE Inv'
  <2>1. UNCHANGED <<creations, plans>>
    BY <1>6 DEF db
  <2>2. TypeOK'
    BY <1>1, <1>2, <2>1 DEF Inv, TypeOK, GoogleOK, Spots, Shapes
  <2>3. Places'
    BY <1>5, <2>1
  <2> QED
    BY <1>2, <1>6, <2>2, <2>3, Same DEF Inv
<1> QED
  BY <1>1, <1>2, <1>5, <1>6

LEMMA LookUpInv ==
  ASSUME Inv, NEW m \in Maker, LookUp(m) PROVE Inv'
<1> DEFINE spot == IF Holding(job[m].event) # {} THEN "made"
                   ELSE IF online[m] /\ ~OnGoogle(job[m].event) THEN "insert" ELSE "keep"
<1>1. job[m].event \in Event
  BY DEF Inv, Places, LookUp, At
<1>2. pc' = [pc EXCEPT ![m] = spot] /\ spot \in {"made", "insert", "keep"}
  BY DEF LookUp, GoTo
<1> HIDE DEF spot
<1>3. GoogleOK' /\ UNCHANGED <<db, wanted, held, surprises>>
  BY PcFacts, StillOK DEF LookUp
<1>4. /\ job \in [Maker -> [key : Key \cup {None}, event : Event \cup {None}]]
      /\ online \in [Maker \cup Changer -> BOOLEAN]
      /\ wanted \subseteq Key /\ surprises \in 0..MaxSurprises
  BY DEF Inv, Shapes, TypeOK
<1> QED
  BY <1>1, <1>2, <1>3, <1>4, MakerInv DEF held

LEMMA InsertInv ==
  ASSUME Inv, NEW m \in Maker, Insert(m) PROVE Inv'
<1> DEFINE spot == IF google[job[m].event] = "gone" THEN "out" ELSE "keep"
<1>1. job[m].event \in Event
  BY DEF Inv, Places, Insert, At
<1>2. pc' = [pc EXCEPT ![m] = spot] /\ spot \in {"out", "keep"}
  BY DEF Insert, GoTo
<1> HIDE DEF spot
<1>3. Asked \in Days /\ Put(job[m].event, Asked) /\ UNCHANGED <<db, wanted, held, surprises>>
  BY CalendarAssumption DEF Insert, Days
<1>4. GoogleOK'
  BY <1>1, <1>3, PcFacts, PutOK
<1>5. /\ job \in [Maker -> [key : Key \cup {None}, event : Event \cup {None}]]
      /\ online \in [Maker \cup Changer -> BOOLEAN]
      /\ wanted \subseteq Key /\ surprises \in 0..MaxSurprises
  BY DEF Inv, Shapes, TypeOK
<1> QED
  BY <1>1, <1>2, <1>3, <1>4, <1>5, MakerInv DEF held

LEMMA AnswerInv ==
  ASSUME Inv, NEW m \in Maker, Answer(m) PROVE Inv'
<1>1. /\ pc' = [pc EXCEPT ![m] = "idle"]
      /\ UNCHANGED <<db, copy, goal, answer, changes, todo, surprises>>
  BY DEF Answer, GoTo
<1>2. GoogleOK'
  BY PcFacts, StillOK DEF Answer
<1>3. /\ job \in [Maker -> [key : Key \cup {None}, event : Event \cup {None}]]
      /\ online \in [Maker \cup Changer -> BOOLEAN]
      /\ wanted \subseteq Key /\ surprises \in 0..MaxSurprises
  BY DEF Inv, Shapes, TypeOK
<1>4. /\ job' \in [Maker -> [key : Key \cup {None}, event : Event \cup {None}]]
      /\ \A n \in Maker : n # m => job'[n] = job[n]
  BY <1>3 DEF Answer, NoJob
<1>5. online' \in [Maker \cup Changer -> BOOLEAN]
  BY <1>3 DEF Answer
<1>6. wanted' \subseteq Key
  BY <1>3 DEF Answer
<1> QED
  BY <1>1, <1>2, <1>3, <1>4, <1>5, <1>6, MakerInv

LEMMA KeepInv ==
  ASSUME Inv, NEW m \in Maker, Keep(m) PROVE Inv'
<1> DEFINE e == job[m].event
           row == [event |-> e, start |-> Asked, live |-> TRUE, google |-> online[m]]
<1>1. e \in Event
  BY DEF Inv, Places, Keep, At
<1>2. /\ pc' = [pc EXCEPT ![m] = "made"] /\ GoogleOK'
      /\ UNCHANGED <<creations, wanted, held, surprises>>
  BY PcFacts, StillOK DEF Keep, GoTo
<1>3. /\ job \in [Maker -> [key : Key \cup {None}, event : Event \cup {None}]]
      /\ online \in [Maker \cup Changer -> BOOLEAN]
      /\ wanted \subseteq Key /\ surprises \in 0..MaxSurprises
  BY DEF Inv, Shapes, TypeOK
<1>4. /\ pc' \in [Worker -> Spots] /\ Shapes'
      /\ (\A i \in DOMAIN plans : i \in DOMAIN plans') => Places'
      /\ UNCHANGED db => Inv'
  BY <1>2, <1>3, MakerInv DEF held
<1>5. CASE UNCHANGED plans
  BY <1>2, <1>4, <1>5 DEF db
<1>6. CASE Holding(e) = {} /\ plans' = Append(plans, row)
  <2> DEFINE n == Len(plans) + 1
  <2>1. row \in Plan /\ row.live /\ row.event = e
    BY <1>1, <1>3, CalendarAssumption DEF Plan
  <2>2. /\ plans \in Seq(Plan) /\ Len(plans) \in Nat /\ DOMAIN plans = 1..Len(plans)
    BY PlansFacts
  <2> HIDE DEF row, e
  <2>3. /\ plans' \in Seq(Plan) /\ DOMAIN plans' = 1..n /\ Len(plans') = n
        /\ plans'[n] = row /\ \A i \in DOMAIN plans : plans'[i] = plans[i]
    BY <1>6, <2>1, <2>2
  <2>4. \A i \in DOMAIN plans' : i = n \/ i \in DOMAIN plans
    BY <2>2, <2>3
  <2>5. \A i \in DOMAIN plans : plans[i].event # e
    BY <1>6 DEF Holding
  <2>6. OnePlan'
    <3> SUFFICES ASSUME NEW i \in DOMAIN plans', NEW j \in DOMAIN plans',
                        plans'[i].event = plans'[j].event
                 PROVE  i = j
      BY DEF OnePlan
    <3>1. CASE i = n /\ j # n
      BY <2>1, <2>3, <2>4, <2>5, <3>1
    <3>2. CASE i # n /\ j = n
      BY <2>1, <2>3, <2>4, <2>5, <3>2
    <3>3. CASE i # n /\ j # n
      BY <2>3, <2>4, <3>3 DEF Inv, OnePlan
    <3> QED
      BY <3>1, <3>2, <3>3
  <2>7. \A f : Holding(f)' = {} => Holding(f) = {}
    BY <2>2, <2>3 DEF Holding
  <2>8. OneAsked'
    BY <1>2, <2>7 DEF Inv, OneAsked
  <2>10. Places'
    BY <1>4, <2>2, <2>3
  <2>11. \A w \in Mover : copy[w].id \in 0..n
    BY <2>2 DEF Inv, TypeOK
  <2>12. \A s \in Syncer : \A r \in todo[s] : r.id \in 1..n
    BY <2>2 DEF Inv, TypeOK
  <2>13. TypeOK'
    BY <1>2, <1>3, <1>4, <1>6, <2>3, <2>11, <2>12 DEF Inv, TypeOK, GoogleOK, Spots, held
  <2> QED
    BY <1>4, <2>6, <2>8, <2>10, <2>13 DEF Inv
<1> QED
  BY <1>5, <1>6 DEF Keep

LEMMA ReserveInv ==
  ASSUME Inv, NEW m \in Maker, NEW k \in Key, NEW e \in Event, Reserve(m, k, e)
  PROVE  Inv'
<1>1. /\ pc' = [pc EXCEPT ![m] = "look"] /\ GoogleOK'
      /\ UNCHANGED <<plans, wanted, copy, goal, answer, changes, todo, surprises>>
  BY PcFacts, StillOK DEF Reserve, Begin, GoTo
<1>2. /\ job \in [Maker -> [key : Key \cup {None}, event : Event \cup {None}]]
      /\ online \in [Maker \cup Changer -> BOOLEAN]
      /\ wanted \subseteq Key /\ surprises \in 0..MaxSurprises /\ connected \in BOOLEAN
  BY DEF Inv, Shapes, TypeOK
<1>3. job' = [job EXCEPT ![m] = [key |-> k, event |-> e]]
  BY DEF Reserve, Begin
<1>4. /\ job' \in [Maker -> [key : Key \cup {None}, event : Event \cup {None}]]
      /\ \A n \in Maker : n # m => job'[n] = job[n]
      /\ job'[m].event \in Event
  BY <1>2, <1>3
<1>5. online' \in [Maker \cup Changer -> BOOLEAN]
  BY <1>2 DEF Reserve, Begin
<1>6. pc' \in [Worker -> Spots] /\ Shapes' /\ Places'
  BY <1>1, <1>2, <1>4, <1>5, MakerInv
<1>7. \A f : Holding(f)' = Holding(f)
  BY <1>1 DEF Holding
<1>8. OneAsked' /\ \A c \in creations' : c.key \in Key /\ c.event \in Event
  <2>1. \A c \in creations : c.key \in Key /\ c.event \in Event
    BY DEF Inv, TypeOK
  <2>2. CASE creations' = creations
    BY <1>7, <2>1, <2>2 DEF Inv, OneAsked
  <2>3. CASE /\ Reserved(k) = {}
             /\ creations' = creations \cup {[key |-> k, event |-> e, resume |-> None]}
    <3>1. \A c \in creations : c.key # k
      BY <2>3 DEF Reserved
    <3> QED
      BY <1>7, <2>1, <2>3, <3>1 DEF Inv, OneAsked
  <2>4. CASE /\ Reserved(k) = {} /\ Resumable(k) = {}
             /\ creations' = creations \cup {[key |-> k, event |-> e, resume |-> SessionOf[k]]}
    <3> DEFINE new == [key |-> k, event |-> e, resume |-> SessionOf[k]]
    <3>1. \A c \in creations : c.key # k
      BY <2>4 DEF Reserved
    <3>2. \A c \in creations :
            SessionOf[k] # None /\ c.resume = SessionOf[k] => Holding(c.event) # {}
      BY <2>4 DEF Resumable, Unfinished
    <3>3. new.key = k /\ new.event = e /\ new.resume = SessionOf[k]
      OBVIOUS
    <3> HIDE DEF new
    <3>4. creations' = creations \cup {new}
      BY <2>4 DEF new
    <3>5. \A c, d \in creations' : c.key = d.key => c = d
      BY <3>1, <3>3, <3>4 DEF Inv, OneAsked
    <3>6. ASSUME NEW c \in creations', NEW d \in creations', c.resume = d.resume, c.resume # None,
                 Holding(c.event) = {}, Holding(d.event) = {}
          PROVE  c.event = d.event
      BY <3>2, <3>3, <3>4, <3>6 DEF Inv, OneAsked
    <3> QED
      BY <1>7, <2>1, <3>3, <3>4, <3>5, <3>6 DEF OneAsked
  <2> QED
    BY <2>2, <2>3, <2>4 DEF Reserve
<1>9. TypeOK'
  BY <1>1, <1>2, <1>4, <1>6, <1>8 DEF Inv, TypeOK, GoogleOK, Spots
<1>10. OnePlan'
  BY <1>1 DEF Inv, OnePlan
<1> QED
  BY <1>6, <1>8, <1>9, <1>10 DEF Inv

-----------------------------------------------------------------------------
\* Changers and syncs.

\* What a step of one of them leaves, that keeps the number and the event of
\* every plan.
LEMMA MoverInv ==
  ASSUME Inv, GoogleOK', NEW w \in Mover, NEW spot \in Spots, spot # "insert",
         pc' = [pc EXCEPT ![w] = spot],
         NEW held2 \in [id : Nat, row : Plan \cup {None}],
         copy' = [copy EXCEPT ![w] = held2],
         held2.id \in 0..Len(plans),
         spot \in Busy => held2.id \in DOMAIN plans /\ held2.row \in Plan,
         spot = "refreshed" /\ w \in Changer => answer'[w] \in Days,
         answer' \in [Changer -> Days \cup {"never"}],
         \A c \in Changer : c # w => answer'[c] = answer[c] \/ pc[c] # "refreshed",
         changes' \in [Syncer -> Answers],
         todo' \in [Syncer -> SUBSET [id : Nat, row : Plan]],
         \A s \in Syncer : \A r \in todo'[s] : r.id \in DOMAIN plans,
         online' \in [Maker \cup Changer -> BOOLEAN],
         surprises' \in 0..MaxSurprises,
         plans' \in Seq(Plan), DOMAIN plans' = DOMAIN plans, Len(plans') = Len(plans),
         OnePlan', OneAsked',
         UNCHANGED <<creations, wanted, job>>
  PROVE  Inv'
<1>1. pc' \in [Worker -> Spots] /\ pc'[w] = spot /\ \A u \in Worker : u # w => pc'[u] = pc[u]
  BY PcFacts DEF Worker
<1>2. copy' \in [Mover -> [id : Nat, row : Plan \cup {None}]]
      /\ copy'[w] = held2 /\ \A u \in Mover : u # w => copy'[u] = copy[u]
  BY DEF Inv, Shapes
<1>3. Shapes'
  BY <1>2 DEF Inv, Shapes, GoogleOK
<1>4. /\ \A m \in Maker : pc'[m] \in {"idle", "over", "look", "insert", "keep", "made", "out"}
      /\ \A m \in Maker : pc'[m] \in {"look", "insert", "keep"} => job'[m].event \in Event
  BY <1>1, CalendarAssumption DEF Inv, Places, Worker
<1>11. \A u \in Mover : pc'[u] # "insert"
  BY <1>1 DEF Inv, Places, Worker
<1>5. \A u \in Mover : pc'[u] \in Busy => copy'[u].id \in DOMAIN plans' /\ copy'[u].row \in Plan
  BY <1>1, <1>2 DEF Inv, Places, Worker
<1>6. \A c \in Changer : pc'[c] = "refreshed" => answer'[c] \in Days
  BY <1>1 DEF Inv, Places, Worker, Mover
<1>7. Places'
  BY <1>4, <1>5, <1>6, <1>11 DEF Places
<1>8. \A u \in Mover : copy'[u].id \in 0..Len(plans')
  BY <1>2 DEF Inv, TypeOK
<1>9. \A s \in Syncer : \A r \in todo'[s] : r.id \in DOMAIN plans'
  OBVIOUS
<1>10. TypeOK'
  BY <1>1, <1>8, <1>9 DEF Inv, TypeOK, GoogleOK, Spots
<1> QED
  BY <1>3, <1>7, <1>10 DEF Inv

\* What they hold, for those above.
LEMMA MoverFacts ==
  ASSUME Inv, NEW w \in Mover
  PROVE  /\ copy \in [Mover -> [id : Nat, row : Plan \cup {None}]]
         /\ copy[w] \in [id : Nat, row : Plan \cup {None}] /\ copy[w].id \in 0..Len(plans)
         /\ pc[w] \in Busy => copy[w].id \in DOMAIN plans /\ copy[w].row \in Plan
         /\ answer \in [Changer -> Days \cup {"never"}]
         /\ changes \in [Syncer -> Answers]
         /\ todo \in [Syncer -> SUBSET [id : Nat, row : Plan]]
         /\ \A s \in Syncer : \A r \in todo[s] : r.id \in DOMAIN plans
         /\ online \in [Maker \cup Changer -> BOOLEAN]
         /\ surprises \in 0..MaxSurprises
         /\ plans \in Seq(Plan)
BY DEF Inv, Shapes, Places, TypeOK

\* A step of one of them that moves on only, with the answer of Google's.
LEMMA MovesOn ==
  ASSUME Inv, GoogleOK', NEW w \in Mover, NEW spot \in Spots, spot # "insert",
         pc' = [pc EXCEPT ![w] = spot],
         spot \in Busy => pc[w] \in Busy,
         spot # "refreshed",
         UNCHANGED <<db, wanted, held>>, surprises' \in 0..MaxSurprises
  PROVE  Inv'
<1>1. copy' = [copy EXCEPT ![w] = copy[w]]
  BY MoverFacts DEF held
<1>2. UNCHANGED <<creations, plans>>
  BY DEF db
<1> QED
  BY <1>1, <1>2, MoverFacts, MoverInv, Same DEF held

LEMMA AdoptLookInv ==
  ASSUME Inv, NEW w \in Mover, AdoptLook(w) PROVE Inv'
<1> DEFINE spot == IF OnGoogle(copy[w].row.event) THEN "adopted" ELSE "put"
<1>1. spot \in {"adopted", "put"} /\ pc' = [pc EXCEPT ![w] = spot] /\ pc[w] \in Busy
  BY DEF AdoptLook, GoTo, At, Busy
<1> HIDE DEF spot
<1>2. GoogleOK' /\ UNCHANGED <<db, wanted, held, surprises>>
  BY PcFacts, StillOK DEF AdoptLook
<1> QED
  BY <1>1, <1>2, MoverFacts, MovesOn DEF Spots

LEMMA AdoptPutInv ==
  ASSUME Inv, NEW w \in Mover, AdoptPut(w) PROVE Inv'
<1> DEFINE spot == IF google[copy[w].row.event] = "gone" THEN "out" ELSE "adopted"
<1>1. spot \in {"adopted", "out"} /\ pc' = [pc EXCEPT ![w] = spot] /\ pc[w] \in Busy
  BY DEF AdoptPut, GoTo, At, Busy
<1> HIDE DEF spot
<1>2. copy[w].row.event \in Event /\ copy[w].row.start \in Days
  BY <1>1, MoverFacts DEF Plan, Days
<1>3. GoogleOK' /\ UNCHANGED <<db, wanted, held, surprises>>
  BY <1>2, PcFacts, PutOK DEF AdoptPut
<1> QED
  BY <1>1, <1>3, MoverFacts, MovesOn DEF Spots, Busy

LEMMA SpotsAfter ==
  ASSUME NEW row, NEW want
  PROVE  AfterTarget(row, want) \in {"refresh", "out", "write", "store"}
BY DEF AfterTarget

LEMMA AdoptKeepInv ==
  ASSUME Inv, NEW w \in Mover, AdoptKeep(w) PROVE Inv'
<1> DEFINE i == copy[w].id
           row == [plans[i] EXCEPT !.google = TRUE]
           read == [id |-> i, row |-> row]
           spot == IF w \in Syncer THEN "next" ELSE AfterTarget(copy'[w].row, goal[w])
<1>1. pc[w] \in Busy /\ i \in DOMAIN plans /\ i \in 0..Len(plans)
  BY MoverFacts DEF AdoptKeep, At, Busy
<1>2. plans[i] \in Plan
  BY <1>1, PlansFacts
<1>3. row \in Plan /\ row.event = plans[i].event /\ row.live = plans[i].live
  BY <1>2 DEF Plan
<1>4. plans' = [plans EXCEPT ![i] = row]
  BY DEF AdoptKeep
<1>5. copy' = [copy EXCEPT ![w] = read] /\ read.id = i /\ read.row = row
      /\ read \in [id : Nat, row : Plan \cup {None}]
  BY <1>1, <1>3, PlansFacts DEF AdoptKeep
<1>6. spot \in {"next", "refresh", "out", "write", "store"} /\ pc' = [pc EXCEPT ![w] = spot]
  BY SpotsAfter DEF AdoptKeep, GoTo
<1> HIDE DEF i, row, read, spot
<1>7. /\ GoogleOK'
      /\ UNCHANGED <<creations, wanted, online, job, answer, changes, todo, surprises>>
  BY PcFacts, StillOK DEF AdoptKeep
<1>8. /\ plans' \in Seq(Plan) /\ DOMAIN plans' = DOMAIN plans /\ Len(plans') = Len(plans)
      /\ plans'[i] = row /\ \A j \in DOMAIN plans : j # i => plans'[j] = plans[j]
      /\ OnePlan' /\ OneAsked'
  BY <1>1, <1>3, <1>4, <1>7, Edited
<1>10. /\ spot \in Spots /\ spot # "insert" /\ spot # "refreshed"
       /\ read.id \in 0..Len(plans)
       /\ spot \in Busy => read.id \in DOMAIN plans /\ read.row \in Plan
  BY <1>1, <1>3, <1>5, <1>6 DEF Spots
<1>11. /\ answer' \in [Changer -> Days \cup {"never"}] /\ changes' \in [Syncer -> Answers]
       /\ todo' \in [Syncer -> SUBSET [id : Nat, row : Plan]]
       /\ \A s \in Syncer : \A r \in todo'[s] : r.id \in DOMAIN plans
       /\ online' \in [Maker \cup Changer -> BOOLEAN]
       /\ surprises' \in 0..MaxSurprises
  BY <1>7, MoverFacts
<1> QED
  BY <1>5, <1>6, <1>7, <1>8, <1>10, <1>11, MoverInv

LEMMA ApplyEventFacts ==
  ASSUME Inv, NEW read, read.id \in DOMAIN plans, NEW day \in Days, ApplyEvent(read, day),
         creations' = creations
  PROVE  /\ plans' \in Seq(Plan) /\ DOMAIN plans' = DOMAIN plans /\ Len(plans') = Len(plans)
         /\ OnePlan' /\ OneAsked'
<1> DEFINE i == read.id
           row == Decides(plans[i], day)
<1>1. plans[i] \in Plan
  BY PlansFacts DEF Inv, TypeOK
<1>2. CASE Differs(read.row, day)
  <2>1. row \in Plan /\ row.event = plans[i].event
    BY <1>1 DEF Decides, Plan, Days
  <2>2. plans' = [plans EXCEPT ![i] = row]
    BY <1>2 DEF ApplyEvent
  <2> HIDE DEF row
  <2>3. /\ plans' \in Seq(Plan) /\ DOMAIN plans' = DOMAIN plans /\ Len(plans') = Len(plans)
        /\ plans'[i] = row
        /\ OnePlan' /\ OneAsked'
    BY <2>1, <2>2, Edited
  <2> QED
    BY <2>3
<1>3. CASE ~Differs(read.row, day)
  <2>1. UNCHANGED <<creations, plans>>
    BY <1>3 DEF ApplyEvent
  <2> QED
    BY <1>1, <2>1, PlansFacts, Same DEF db
<1> QED
  BY <1>2, <1>3

LEMMA TargetInv ==
  ASSUME Inv, NEW c \in Changer, NEW i \in DOMAIN plans, NEW want, Target(c, i, want)
  PROVE  Inv'
<1> DEFINE spot == IF connected /\ plans[i].live /\ ~plans[i].google THEN "adopt"
                   ELSE AfterTarget(plans[i], want)
<1>1. spot \in {"adopt", "refresh", "out", "write", "store"} /\ pc' = [pc EXCEPT ![c] = spot]
  BY SpotsAfter DEF Target, GoTo
<1> HIDE DEF spot
<1>2. plans[i] \in Plan /\ i \in 0..Len(plans) /\ i \in Nat
  BY PlansFacts
<1>3. Row(i) \in [id : Nat, row : Plan \cup {None}] /\ Row(i).id = i /\ Row(i).row = plans[i]
  BY <1>2 DEF Row
<1>4. copy' = [copy EXCEPT ![c] = Row(i)] /\ online' = [online EXCEPT ![c] = connected]
  BY DEF Target
<1>5. connected \in BOOLEAN /\ c \in Mover
  BY DEF Inv, TypeOK, Mover
<1>6. online' \in [Maker \cup Changer -> BOOLEAN]
  BY <1>4, <1>5, MoverFacts
<1>7. /\ GoogleOK'
      /\ UNCHANGED <<creations, plans, wanted, job, answer, changes, todo, surprises>>
  BY PcFacts, StillOK DEF Target, db
<1>8. OnePlan' /\ OneAsked'
  BY <1>7, Same DEF db
<1>9. /\ answer' \in [Changer -> Days \cup {"never"}] /\ changes' \in [Syncer -> Answers]
      /\ todo' \in [Syncer -> SUBSET [id : Nat, row : Plan]]
      /\ \A s \in Syncer : \A r \in todo'[s] : r.id \in DOMAIN plans
      /\ surprises' \in 0..MaxSurprises
      /\ plans' \in Seq(Plan) /\ DOMAIN plans' = DOMAIN plans /\ Len(plans') = Len(plans)
  BY <1>5, <1>7, MoverFacts
<1>10. spot \in Spots /\ spot # "refreshed"
  BY <1>1 DEF Spots
<1> QED
  BY <1>1, <1>2, <1>3, <1>4, <1>5, <1>6, <1>7, <1>8, <1>9, <1>10, MoverInv

LEMMA SeenIsAnAnswer == ASSUME Inv, NEW e \in Event PROVE Seen(e) \in Days
BY DEF Inv, TypeOK, Seen, OnGoogle, Days

LEMMA RefreshInv ==
  ASSUME Inv, NEW c \in Changer, Refresh(c) PROVE Inv'
<1>1. c \in Mover /\ pc[c] \in Busy /\ pc' = [pc EXCEPT ![c] = "refreshed"]
  BY DEF Refresh, At, GoTo, Mover, Busy
<1>2. copy[c].id \in DOMAIN plans /\ copy[c].row \in Plan
  BY <1>1, MoverFacts
<1>3. Seen(copy[c].row.event) \in Days
  BY <1>2, SeenIsAnAnswer DEF Plan
<1>4. answer' = [answer EXCEPT ![c] = Seen(copy[c].row.event)]
  BY DEF Refresh
<1>5. answer' \in [Changer -> Days \cup {"never"}] /\ answer'[c] \in Days
      /\ \A d \in Changer : d # c => answer'[d] = answer[d]
  BY <1>1, <1>3, <1>4, MoverFacts
<1>6. /\ GoogleOK' /\ copy' = copy
      /\ UNCHANGED <<creations, plans, wanted, job, online, changes, todo, surprises>>
  BY PcFacts, StillOK DEF Refresh, db
<1>7. copy' = [copy EXCEPT ![c] = copy[c]]
  BY <1>1, <1>6, MoverFacts
<1>8. OnePlan' /\ OneAsked'
  BY <1>6, Same DEF db
<1>9. /\ answer' \in [Changer -> Days \cup {"never"}] /\ changes' \in [Syncer -> Answers]
      /\ todo' \in [Syncer -> SUBSET [id : Nat, row : Plan]]
      /\ \A s \in Syncer : \A r \in todo'[s] : r.id \in DOMAIN plans
      /\ surprises' \in 0..MaxSurprises
      /\ plans' \in Seq(Plan) /\ DOMAIN plans' = DOMAIN plans /\ Len(plans') = Len(plans)
      /\ online' \in [Maker \cup Changer -> BOOLEAN]
  BY <1>1, <1>5, <1>6, MoverFacts
<1>10. copy[c] \in [id : Nat, row : Plan \cup {None}] /\ copy[c].id \in 0..Len(plans)
  BY <1>1, MoverFacts
<1>11. "refreshed" \in Spots
  BY DEF Spots
<1> QED
  BY <1>1, <1>2, <1>5, <1>6, <1>7, <1>8, <1>9, <1>10, <1>11, MoverInv

LEMMA ApplyRefreshInv ==
  ASSUME Inv, NEW c \in Changer, ApplyRefresh(c) PROVE Inv'
<1> DEFINE i == copy[c].id
           row == IF Differs(copy[c].row, answer[c]) THEN plans'[i] ELSE copy[c].row
           read == [id |-> i, row |-> row]
           spot == IF copy'[c].row.live THEN "write" ELSE "out"
<1>1. c \in Mover /\ pc[c] \in Busy /\ pc[c] = "refreshed"
  BY DEF ApplyRefresh, At, Mover, Busy
<1>2. i \in DOMAIN plans /\ i \in 0..Len(plans) /\ i \in Nat /\ copy[c].row \in Plan
      /\ copy \in [Mover -> [id : Nat, row : Plan \cup {None}]]
  BY <1>1, MoverFacts
<1>3. answer[c] \in Days
  BY <1>1 DEF Inv, Places
<1>4. /\ GoogleOK'
      /\ UNCHANGED <<creations, wanted, online, job, answer, changes, todo, surprises>>
  BY PcFacts, StillOK DEF ApplyRefresh
<1>5. /\ plans' \in Seq(Plan) /\ DOMAIN plans' = DOMAIN plans /\ Len(plans') = Len(plans)
      /\ OnePlan' /\ OneAsked'
  BY <1>2, <1>3, <1>4, ApplyEventFacts DEF ApplyRefresh
<1>6. row \in Plan
  BY <1>2, <1>5
<1>7. copy' = [copy EXCEPT ![c].row = row]
  BY DEF ApplyRefresh
<1> HIDE DEF row, i
<1>8. copy' = [copy EXCEPT ![c] = read]
  <2>1. copy[c] \in [id : Nat, row : Plan \cup {None}]
    BY <1>1, <1>2
  <2>2. [copy[c] EXCEPT !.row = row] = read
    BY <2>1 DEF i
  <2>3. copy' = [copy EXCEPT ![c] = [copy[c] EXCEPT !.row = row]]
    BY <1>7
  <2> QED
    BY <2>2, <2>3
<1>9. read \in [id : Nat, row : Plan \cup {None}] /\ read.id = i /\ read.row = row
  BY <1>2, <1>6
<1>10. spot \in {"write", "out"} /\ pc' = [pc EXCEPT ![c] = spot]
  BY DEF ApplyRefresh, GoTo
<1> HIDE DEF read, spot
<1> QED
  BY <1>1, <1>2, <1>4, <1>5, <1>6, <1>8, <1>9, <1>10, MoverFacts, MoverInv DEF Spots

LEMMA WriteInv ==
  ASSUME Inv, NEW c \in Changer, Write(c) PROVE Inv'
<1> DEFINE e == copy[c].row.event
<1>1. c \in Mover /\ pc[c] \in Busy
  BY DEF Write, At, Mover, Busy
<1>2. e \in Event
  BY <1>1, MoverFacts DEF Plan
<1>3. PICK spot \in {"store", "out"} : pc' = [pc EXCEPT ![c] = spot]
  BY DEF Write, GoTo
<1>4. GoogleOK'
  <2>1. CASE goal[c] \in Day /\ OnGoogle(e)
    BY <1>2, <2>1, PcFacts, TouchOK DEF Write, Days
  <2>2. CASE goal[c] \in Day /\ ~OnGoogle(e)
    BY <2>2, PcFacts, StillOK DEF Write
  <2>3. CASE goal[c] \notin Day
    BY <1>2, <2>3, PcFacts, DeleteOK DEF Write
  <2> QED
    BY <2>1, <2>2, <2>3
<1>5. UNCHANGED <<db, wanted, held, surprises>>
  BY DEF Write
<1> QED
  BY <1>1, <1>3, <1>4, <1>5, MoverFacts, MovesOn DEF Spots, Busy

LEMMA StoreInv ==
  ASSUME Inv, NEW c \in Changer, Store(c) PROVE Inv'
<1> DEFINE i == copy[c].id
           row == IF goal[c] \in Day THEN [plans[i] EXCEPT !.start = goal[c]]
                  ELSE [plans[i] EXCEPT !.live = FALSE]
<1>1. c \in Mover /\ pc[c] \in Busy /\ pc' = [pc EXCEPT ![c] = "out"]
  BY DEF Store, At, GoTo, Mover, Busy
<1>2. i \in DOMAIN plans /\ plans[i] \in Plan
  BY <1>1, MoverFacts, PlansFacts
<1>3. row \in Plan /\ row.event = plans[i].event
  BY <1>2 DEF Plan
<1>4. plans' = [plans EXCEPT ![i] = row]
  BY DEF Store
<1> HIDE DEF row, i
<1>5. /\ GoogleOK'
      /\ UNCHANGED <<creations, wanted, held, surprises>>
  BY PcFacts, StillOK DEF Store
<1>6. /\ plans' \in Seq(Plan) /\ DOMAIN plans' = DOMAIN plans /\ Len(plans') = Len(plans)
      /\ plans'[i] = row /\ \A j \in DOMAIN plans : j # i => plans'[j] = plans[j]
      /\ OnePlan' /\ OneAsked'
  BY <1>2, <1>3, <1>4, <1>5, Edited
<1>8. copy' = [copy EXCEPT ![c] = copy[c]]
  BY <1>1, <1>5, MoverFacts DEF held
<1> QED
  BY <1>1, <1>5, <1>6, <1>8, MoverFacts, MoverInv DEF Spots, Busy, held

\* A sync's step that leaves the plans' number and event.
LEMMA SyncInv ==
  ASSUME Inv, GoogleOK', NEW s \in Syncer, NEW spot \in Spots \ Busy, spot # "insert",
         pc' = [pc EXCEPT ![s] = spot],
         copy' = copy \/ copy' = [copy EXCEPT ![s] = NoRow],
         changes' \in [Syncer -> Answers],
         todo' \in [Syncer -> SUBSET [id : Nat, row : Plan]],
         \A u \in Syncer : \A r \in todo'[u] : r.id \in DOMAIN plans,
         plans' \in Seq(Plan), DOMAIN plans' = DOMAIN plans, Len(plans') = Len(plans),
         OnePlan', OneAsked',
         UNCHANGED <<creations, wanted, online, job, answer, surprises>>
  PROVE  Inv'
<1>1. s \in Mover /\ spot \in Spots /\ spot \notin Busy /\ spot # "refreshed"
  BY DEF Mover, Busy
<1>2. PICK read \in [id : Nat, row : Plan \cup {None}] :
        copy' = [copy EXCEPT ![s] = read] /\ read.id \in 0..Len(plans)
  <2>1. copy = [copy EXCEPT ![s] = copy[s]]
        /\ copy[s] \in [id : Nat, row : Plan \cup {None}] /\ copy[s].id \in 0..Len(plans)
    BY <1>1, MoverFacts
  <2>2. NoRow \in [id : Nat, row : Plan \cup {None}] /\ NoRow.id \in 0..Len(plans)
    BY PlansFacts DEF NoRow
  <2> QED
    BY <2>1, <2>2
<1>3. /\ answer' \in [Changer -> Days \cup {"never"}]
      /\ online' \in [Maker \cup Changer -> BOOLEAN]
      /\ surprises' \in 0..MaxSurprises
  BY <1>1, MoverFacts
<1> QED
  BY <1>1, <1>2, <1>3, MoverInv

LEMMA RowsOfPlans ==
  ASSUME Inv, NEW some \in SUBSET DOMAIN plans
  PROVE  /\ {Row(i) : i \in some} \in SUBSET [id : Nat, row : Plan]
         /\ \A r \in {Row(i) : i \in some} : r.id \in DOMAIN plans
<1>1. \A i \in some : Row(i) \in [id : Nat, row : Plan] /\ Row(i).id = i
  BY PlansFacts DEF Row
<1> QED
  BY <1>1

LEMMA TodoSet ==
  ASSUME Inv, NEW s \in Syncer, NEW some \in SUBSET DOMAIN plans,
         \/ todo' = [todo EXCEPT ![s] = {Row(i) : i \in some}]
         \/ \E r : todo' = [todo EXCEPT ![s] = @ \ {r}]
         \/ todo' = todo
  PROVE  /\ todo' \in [Syncer -> SUBSET [id : Nat, row : Plan]]
         /\ \A u \in Syncer : \A r \in todo'[u] : r.id \in DOMAIN plans
<1>1. /\ todo \in [Syncer -> SUBSET [id : Nat, row : Plan]]
      /\ \A u \in Syncer : \A r \in todo[u] : r.id \in DOMAIN plans
  BY DEF Inv, Shapes, TypeOK
<1> DEFINE new == {Row(i) : i \in some}
<1>2. new \in SUBSET [id : Nat, row : Plan] /\ \A r \in new : r.id \in DOMAIN plans
  BY RowsOfPlans
<1> HIDE DEF new
<1>3. CASE todo' = [todo EXCEPT ![s] = new]
  BY <1>1, <1>2, <1>3
<1>4. CASE \E r : todo' = [todo EXCEPT ![s] = @ \ {r}]
  BY <1>1, <1>4
<1>5. CASE todo' = todo
  BY <1>1, <1>5
<1> QED
  BY <1>3, <1>4, <1>5 DEF new

LEMMA PlansStay ==
  ASSUME Inv, UNCHANGED db
  PROVE  /\ plans' \in Seq(Plan) /\ DOMAIN plans' = DOMAIN plans /\ Len(plans') = Len(plans)
         /\ OnePlan' /\ OneAsked'
         /\ creations' = creations
<1>1. UNCHANGED <<creations, plans>>
  BY DEF db
<1> QED
  BY <1>1, Same DEF Inv, TypeOK

LEMMA ChangesFacts ==
  ASSUME Inv
  PROVE  changes \in [Syncer -> Answers] /\ NoChanges \in Answers
<1>1. NoChanges \in Answers
  BY DEF NoChanges, Answers
<1> QED
  BY <1>1 DEF Inv, Shapes

LEMMA SyncStartInv ==
  ASSUME Inv, NEW s \in Syncer, SyncStart(s) PROVE Inv'
<1> DEFINE some == {j \in DOMAIN plans : plans[j].live /\ ~plans[j].google}
<1>1. some \in SUBSET DOMAIN plans /\ todo' = [todo EXCEPT ![s] = {Row(i) : i \in some}]
  BY DEF SyncStart, KeptHere
<1> HIDE DEF some
<1>2. /\ pc' = [pc EXCEPT ![s] = "next"] /\ GoogleOK'
      /\ UNCHANGED <<db, wanted, online, job, copy, answer, changes, surprises>>
  BY PcFacts, StillOK DEF SyncStart, GoTo
<1>3. "next" \in Spots \ Busy
  BY DEF Spots, Busy
<1> QED
  BY <1>1, <1>2, <1>3, TodoSet, PlansStay, ChangesFacts, SyncInv

LEMMA ListPlansInv ==
  ASSUME Inv, NEW s \in Syncer, ListPlans(s) PROVE Inv'
<1> DEFINE some == {j \in DOMAIN plans : plans[j].live /\ plans[j].google}
<1>1. some \in SUBSET DOMAIN plans /\ todo' = [todo EXCEPT ![s] = {Row(i) : i \in some}]
  BY DEF ListPlans, LiveOn
<1> HIDE DEF some
<1>2. /\ pc' = [pc EXCEPT ![s] = "apply"] /\ GoogleOK'
      /\ UNCHANGED <<db, wanted, online, job, copy, answer, changes, surprises>>
  BY PcFacts, StillOK DEF ListPlans, GoTo
<1>3. "apply" \in Spots \ Busy
  BY DEF Spots, Busy
<1> QED
  BY <1>1, <1>2, <1>3, TodoSet, PlansStay, ChangesFacts, SyncInv

LEMMA AdoptNextInv ==
  ASSUME Inv, NEW s \in Syncer, NEW r \in todo[s], AdoptNext(s, r) PROVE Inv'
<1>1. s \in Mover /\ r \in [id : Nat, row : Plan] /\ r.id \in DOMAIN plans
      /\ r.id \in 0..Len(plans)
  BY PlansFacts DEF Inv, Shapes, TypeOK, Mover
<1>2. /\ pc' = [pc EXCEPT ![s] = "adopt"] /\ GoogleOK'
      /\ copy' = [copy EXCEPT ![s] = r] /\ todo' = [todo EXCEPT ![s] = @ \ {r}]
      /\ UNCHANGED <<db, wanted, online, job, answer, changes, surprises>>
  BY PcFacts, StillOK DEF AdoptNext, GoTo
<1>3. /\ todo' \in [Syncer -> SUBSET [id : Nat, row : Plan]]
      /\ \A u \in Syncer : \A x \in todo'[u] : x.id \in DOMAIN plans
  BY <1>2, TodoSet
<1>4. "adopt" \in Spots /\ "adopt" # "refreshed"
  BY DEF Spots
<1>5. /\ answer' \in [Changer -> Days \cup {"never"}] /\ changes' \in [Syncer -> Answers]
      /\ online' \in [Maker \cup Changer -> BOOLEAN]
      /\ surprises' \in 0..MaxSurprises
      /\ r \in [id : Nat, row : Plan \cup {None}] /\ r.row \in Plan
  BY <1>1, <1>2, MoverFacts
<1> QED
  BY <1>1, <1>2, <1>3, <1>4, <1>5, PlansStay, MoverInv

LEMMA ReadChangesInv ==
  ASSUME Inv, NEW s \in Syncer, ReadChanges(s) PROVE Inv'
<1> DEFINE here == {f \in Event : OnGoogle(f)}
           some == IF known THEN [events |-> [e \in unseen |-> Seen(e)], full |-> FALSE]
                   ELSE [events |-> [e \in here |-> google[e]], full |-> TRUE]
<1>1. [e \in unseen |-> Seen(e)] \in [unseen -> Days] /\ unseen \in SUBSET Event
  BY SeenIsAnAnswer DEF Inv, TypeOK
<1>2. [e \in here |-> google[e]] \in [here -> Days] /\ here \in SUBSET Event
  BY DEF OnGoogle, Days
<1>3. some \in Answers
  BY <1>1, <1>2 DEF Answers
<1>4. changes' = [changes EXCEPT ![s] = some]
  BY DEF ReadChanges
<1> HIDE DEF some
<1>5. changes' \in [Syncer -> Answers]
  BY <1>3, <1>4, ChangesFacts
<1>6. GoogleOK'
  BY PcFacts DEF ReadChanges, GoogleOK
<1>7. /\ pc' = [pc EXCEPT ![s] = "list"] /\ copy' = [copy EXCEPT ![s] = NoRow]
      /\ UNCHANGED <<db, wanted, online, job, answer, todo, surprises>>
  BY DEF ReadChanges, GoTo
<1>8. "list" \in Spots \ Busy /\ {} \in SUBSET DOMAIN plans
  BY DEF Spots, Busy
<1> QED
  BY <1>5, <1>6, <1>7, <1>8, TodoSet, PlansStay, SyncInv

LEMMA SaveTokenInv ==
  ASSUME Inv, NEW s \in Syncer, SaveToken(s) PROVE Inv'
<1>1. GoogleOK'
  BY PcFacts DEF SaveToken, GoogleOK
<1>2. changes' \in [Syncer -> Answers]
  BY ChangesFacts DEF SaveToken
<1>3. /\ pc' = [pc EXCEPT ![s] = "idle"]
      /\ UNCHANGED <<db, wanted, online, job, copy, answer, todo, surprises>>
  BY DEF SaveToken, GoTo
<1>4. "idle" \in Spots \ Busy /\ {} \in SUBSET DOMAIN plans
  BY DEF Spots, Busy
<1> QED
  BY <1>1, <1>2, <1>3, <1>4, TodoSet, PlansStay, SyncInv

LEMMA ApplyNextInv ==
  ASSUME Inv, NEW s \in Syncer, NEW r \in todo[s], ApplyNext(s, r) PROVE Inv'
<1>1. r.id \in DOMAIN plans
  BY DEF Inv, TypeOK
<1>2. /\ GoogleOK' /\ todo' = [todo EXCEPT ![s] = @ \ {r}] /\ pc[s] = "apply" /\ pc' = pc
      /\ UNCHANGED <<creations, wanted, online, job, copy, answer, changes, surprises>>
  BY PcFacts, StillOK DEF ApplyNext, At
<1>3. pc' = [pc EXCEPT ![s] = "apply"] /\ "apply" \in Spots \ Busy
  BY <1>2, PcFacts DEF Worker, Mover, Spots, Busy
<1>4. /\ plans' \in Seq(Plan) /\ DOMAIN plans' = DOMAIN plans /\ Len(plans') = Len(plans)
      /\ OnePlan' /\ OneAsked'
  <2> DEFINE e == r.row.event
             said == changes[s].events
  <2>1. CASE e \in DOMAIN said
    <3>1. said[e] \in Days
      <4>1. changes[s] \in Answers
        BY ChangesFacts
      <4>2. PICK some \in SUBSET Event : said \in [some -> Days]
        BY <4>1 DEF Answers
      <4> QED
        BY <2>1, <4>2
    <3>2. ApplyEvent(r, said[e])
      BY <2>1 DEF ApplyNext
    <3> QED
      BY <1>1, <1>2, <3>1, <3>2, ApplyEventFacts
  <2>2. CASE e \notin DOMAIN said /\ changes[s].full
    <3>1. ApplyEvent(r, "gone") /\ "gone" \in Days
      BY <2>2 DEF ApplyNext, Days
    <3> QED
      BY <1>1, <1>2, <3>1, ApplyEventFacts
  <2>3. CASE e \notin DOMAIN said /\ ~changes[s].full
    <3>1. UNCHANGED db
      BY <1>2, <2>3 DEF ApplyNext, db
    <3> QED
      BY <3>1, PlansStay
  <2> QED
    BY <2>1, <2>2, <2>3
<1>5. {} \in SUBSET DOMAIN plans
  OBVIOUS
<1>6. /\ todo' \in [Syncer -> SUBSET [id : Nat, row : Plan]]
      /\ \A u \in Syncer : \A x \in todo'[u] : x.id \in DOMAIN plans
  BY <1>2, <1>5, TodoSet
<1>7. changes' \in [Syncer -> Answers]
  BY <1>2, ChangesFacts
<1> QED
  BY <1>2, <1>3, <1>4, <1>6, <1>7, SyncInv

-----------------------------------------------------------------------------
\* What goes wrong.

LEMMA LostInv ==
  ASSUME Inv, NEW w \in Worker, Lost(w) PROVE Inv'
<1>1. pc' = [pc EXCEPT ![w] = "out"] /\ UNCHANGED <<db, wanted, held>>
      /\ surprises' \in 0..MaxSurprises
  BY CalendarAssumption DEF Lost, GoTo, Inv, TypeOK
<1>2. /\ Asked \in Days
      /\ pc[w] = "insert" => job[w].event \in Event
      /\ pc[w] \in {"put", "write"} => w \in Mover
  BY CalendarAssumption DEF Inv, Places, Worker, Days
<1>3. pc[w] \in {"put", "write"} =>
        /\ copy[w].row.event \in Event /\ copy[w].row.start \in Days
  BY <1>2, MoverFacts DEF Plan, Busy, Days
<1>4. GoogleOK'
  <2>1. CASE UNCHANGED outside
    BY <2>1, PcFacts, StillOK
  <2>2. CASE pc[w] = "insert" /\ Put(job[w].event, Asked)
    BY <1>2, <2>2, PcFacts, PutOK
  <2>3. CASE pc[w] = "put" /\ Put(copy[w].row.event, copy[w].row.start)
    BY <1>3, <2>3, PcFacts, PutOK
  <2>4. CASE pc[w] = "write" /\ Delete(copy[w].row.event)
    BY <1>3, <2>4, PcFacts, DeleteOK
  <2>5. CASE pc[w] = "write" /\ goal[w] \in Day /\ Touch(copy[w].row.event, goal[w])
    BY <1>3, <2>5, PcFacts, TouchOK DEF Days
  <2> QED
    BY <2>1, <2>2, <2>3, <2>4, <2>5 DEF Lost, At
<1>5. CASE w \in Maker
  BY <1>1, <1>4, <1>5, MakerInv DEF held, Inv, Shapes, TypeOK
<1>6. CASE w \in Mover
  <2>1. "out" \in Spots /\ "out" \notin Busy /\ "out" # "refreshed"
    BY DEF Spots, Busy
  <2> QED
    BY <1>1, <1>4, <1>6, <2>1, MovesOn
<1> QED
  BY <1>5, <1>6 DEF Worker

LEMMA DropInv ==
  ASSUME Inv, NEW w \in Mover, Drop(w) PROVE Inv'
<1>1. PICK spot \in {"over", "idle"} : pc' = [pc EXCEPT ![w] = spot]
  BY DEF Drop, GoTo
<1>2. /\ spot \in Spots /\ spot \notin Busy /\ spot # "refreshed"
  BY DEF Spots, Busy
<1>3. /\ NoRow \in [id : Nat, row : Plan \cup {None}] /\ NoRow.id \in 0..Len(plans)
      /\ copy' = [copy EXCEPT ![w] = NoRow]
  BY PlansFacts DEF NoRow, Drop
<1>4. UNCHANGED <<connected, google, known, unseen, db, wanted, job, surprises>>
  BY DEF Drop
<1>5. GoogleOK'
  <2>1. since' \in [Syncer -> SUBSET Event]
    BY PcFacts DEF Drop, GoogleOK
  <2> QED
    BY <1>4, <2>1, PcFacts DEF GoogleOK
<1>6. online' \in [Maker \cup Changer -> BOOLEAN]
  <2>1. DOMAIN online = Maker \cup Changer
    BY MoverFacts
  <2>2. online' = [c \in Maker \cup Changer |-> online[c] /\ c # w]
    BY <2>1 DEF Drop
  <2> QED
    BY <2>2
<1>7. answer' = [c \in Changer |-> IF c = w THEN "never" ELSE answer[c]]
  BY DEF Drop
<1>8. answer' \in [Changer -> Days \cup {"never"}]
      /\ \A c \in Changer : c # w => answer'[c] = answer[c]
  BY <1>7, MoverFacts
<1>9. changes' \in [Syncer -> Answers]
  BY ChangesFacts DEF Drop
<1>10. todo' = [s \in Syncer |-> IF s = w THEN {} ELSE todo[s]]
  BY DEF Drop
<1>11. /\ todo' \in [Syncer -> SUBSET [id : Nat, row : Plan]]
       /\ \A s \in Syncer : \A r \in todo'[s] : r.id \in DOMAIN plans
  BY <1>10, MoverFacts
<1>12. surprises' \in 0..MaxSurprises
  BY <1>4, MoverFacts
<1> QED
  BY <1>1, <1>2, <1>3, <1>4, <1>5, <1>6, <1>8, <1>9, <1>11, <1>12, PlansStay, MoverInv

LEMMA StopInv == ASSUME Inv, Stop PROVE Inv'
<1>1. pc' = [w \in Worker |-> IF pc[w] \in {"idle", "over"} THEN pc[w] ELSE "out"]
  BY DEF Stop
<1>2. UNCHANGED <<outside, db, wanted, held>> /\ surprises' \in 0..MaxSurprises
  BY CalendarAssumption DEF Stop, Inv, TypeOK
<1>3. pc' \in [Worker -> Spots] /\ \A w \in Worker : pc'[w] \in {"idle", "over", "out"}
  BY <1>1, PcFacts DEF Spots
<1>4. Shapes'
  BY <1>2 DEF Inv, Shapes, held, outside
<1>5. Places'
  BY <1>3 DEF Places, Busy, Worker, Mover
<1>6. TypeOK'
  BY <1>2, <1>3 DEF Inv, TypeOK, Spots, outside, db, held
<1> QED
  BY <1>2, <1>4, <1>5, <1>6, Same DEF Inv

LEMMA GoogleInv ==
  ASSUME Inv,
         \/ \E e \in Event, day \in Day \cup {"gone"} : ByHand(e, day)
         \/ Forget
         \/ Connect
  PROVE  Inv'
<1>1. CASE \E e \in Event, day \in Day \cup {"gone"} : ByHand(e, day)
  <2>1. PICK e \in Event, day \in Days : ByHand(e, day)
    BY <1>1 DEF Days
  <2>2. GoogleOK' /\ UNCHANGED <<db, wanted, pc, held>>
    BY <2>1, PcFacts, TouchOK DEF ByHand
  <2>3. surprises' \in 0..MaxSurprises
    BY <2>1, CalendarAssumption DEF ByHand, Inv, TypeOK
  <2> QED
    BY <2>2, <2>3, OutsideInv
<1>2. CASE Forget
  <2>1. GoogleOK' /\ UNCHANGED <<db, wanted, pc, held>>
    BY <1>2, PcFacts DEF Forget, GoogleOK
  <2>2. surprises' \in 0..MaxSurprises
    BY <1>2, CalendarAssumption DEF Forget, Inv, TypeOK
  <2> QED
    BY <2>1, <2>2, OutsideInv
<1>3. CASE Connect
  <2>1. GoogleOK' /\ UNCHANGED <<db, wanted, pc, held, surprises>>
    BY <1>3, PcFacts DEF Connect, GoogleOK
  <2> QED
    BY <2>1, OutsideInv DEF Inv, TypeOK
<1> QED
  BY <1>1, <1>2, <1>3

LEMMA IdleInv == ASSUME Inv, UNCHANGED vars PROVE Inv'
<1>1. GoogleOK' /\ UNCHANGED <<db, wanted, pc, held, surprises>>
  BY PcFacts, StillOK DEF vars
<1> QED
  BY <1>1, OutsideInv DEF Inv, TypeOK

-----------------------------------------------------------------------------
LEMMA NextInv == ASSUME Inv, [Next]_vars PROVE Inv'
<1>1. ASSUME NEW m \in Maker, Make(m) PROVE Inv'
  BY <1>1, ReserveInv, LookUpInv, InsertInv, KeepInv, AnswerInv DEF Make
<1>2. ASSUME NEW w \in Mover, Adopt(w) PROVE Inv'
  BY <1>2, AdoptLookInv, AdoptPutInv, AdoptKeepInv DEF Adopt
<1>3. ASSUME NEW c \in Changer, Change(c) PROVE Inv'
  BY <1>2, <1>3, RefreshInv, ApplyRefreshInv, WriteInv, StoreInv, DropInv DEF Change, Mover
<1>4. ASSUME NEW s \in Syncer, Sync(s) PROVE Inv'
  BY <1>2, <1>4, SyncStartInv, ReadChangesInv, ListPlansInv, SaveTokenInv, DropInv,
     AdoptNextInv, ApplyNextInv DEF Sync, Mover
<1>5. CASE \E c \in Changer, i \in DOMAIN plans, want \in Day \cup {"cancel", "delete"} :
             Target(c, i, want)
  BY <1>5, TargetInv
<1>6. CASE \E w \in Worker : Lost(w)
  BY <1>6, LostInv
<1> QED
  BY <1>1, <1>3, <1>4, <1>5, <1>6, GoogleInv, StopInv, IdleInv DEF Next

LEMMA InvAlways == Spec => []Inv
<1> QED
  BY InitInv, NextInv, PTL DEF Spec

\* However calls overlap and fail, the tables and what a call holds of them
\* keep their types: a held plan is always one there is (tools/gcal.py,
\* calendar_sync.py write by the id they read).
THEOREM TypeCorrect == Spec => []TypeOK
<1>1. Inv => TypeOK
  BY DEF Inv
<1> QED
  BY <1>1, InvAlways, PTL

\* One plan for one event, by however many calls it is asked for at once:
\* create_event looks again in the transaction that stores the plan.
THEOREM OnePlanAlways == Spec => []OnePlanEach
<1>1. Inv => OnePlanEach
  <2> SUFFICES ASSUME Inv, NEW e \in Event PROVE Cardinality(Holding(e)) <= 1
    BY DEF OnePlanEach
  <2>1. \A i, j \in Holding(e) : i = j
    BY DEF Inv, OnePlan, Holding
  <2>2. CASE Holding(e) = {}
    BY <2>2, FS_EmptySet
  <2>3. CASE Holding(e) # {}
    <3>1. PICK i \in Holding(e) : TRUE
      BY <2>3
    <3>2. Holding(e) = {i}
      BY <2>1, <3>1
    <3>3. Cardinality({i}) = 1
      BY FS_Singleton
    <3> QED
      BY <3>2, <3>3
  <2> QED
    BY <2>2, <2>3
<1> QED
  BY <1>1, InvAlways, PTL

\* A request has one event id, and a browser session one that no plan holds,
\* however often a form is sent, drawn again and sent (calendar_ops.reserve).
THEOREM OneEventAlways == Spec => []OneEventAsked
<1>1. ASSUME NEW set, \A a, b \in set : a = b PROVE Cardinality(set) <= 1
  <2>1. CASE set = {}
    BY <2>1, FS_EmptySet
  <2>2. CASE set # {}
    <3>1. PICK a \in set : TRUE
      BY <2>2
    <3>2. set = {a}
      BY <1>1, <3>1
    <3>3. Cardinality({a}) = 1
      BY FS_Singleton
    <3> QED
      BY <3>2, <3>3
  <2> QED
    BY <2>1, <2>2
<1>2. ASSUME Inv, NEW k \in Key
      PROVE  /\ \A a, b \in Reserved(k) : a = b
             /\ \A a, b \in Resumable(k) : a = b
  <2>1. \A a, b \in Reserved(k) : a = b
    BY <1>2 DEF Inv, OneAsked, Reserved
  <2>2. \A a, b \in Resumable(k) : a = b
    BY <1>2 DEF Inv, OneAsked, Resumable, Unfinished
  <2> QED
    BY <2>1, <2>2
<1>3. Inv => OneEventAsked
  BY <1>1, <1>2 DEF OneEventAsked
<1> QED
  BY <1>3, InvAlways, PTL

-----------------------------------------------------------------------------
\* In step with Google: one call changes a plan at a time, one sync runs at a
\* time, and people leave alone what is under a change.
OneAtATime ==
  /\ ~Hasty
  /\ \A c, d \in Changer : c = d
  /\ \A s, t \in Syncer : s = t

\* What was read of a plan: its event stays, it stays on Google once it is there,
\* and with a calendar a plan that is not there keeps its day.
Reads(r) ==
  /\ r.row.event = plans[r.id].event
  /\ r.row.google => plans[r.id].google
  /\ ~plans[r.id].google /\ connected => r.row.start = plans[r.id].start

InPlace(i) == google[plans[i].event] = plans[i].start
Standing == {i \in DOMAIN plans : plans[i].live /\ plans[i].google}

\* A plan that is to go on Google finds nothing there, or itself.
Follows(i) ==
  IF plans[i].google THEN google[plans[i].event] # "never"
  ELSE google[plans[i].event] \in {"never", plans[i].start}

WorldFits ==
  /\ ~connected => /\ \A i \in DOMAIN plans : ~plans[i].google
                   /\ \A e \in Event : google[e] = "never"
  /\ \A i \in DOMAIN plans : Follows(i)
  /\ \A e \in Event : Holding(e) = {} => google[e] \in {"never", Asked}
  /\ InStep

MakerFits(m) ==
  /\ online[m] => connected
  /\ pc[m] = "insert" =>
       /\ online[m]
       /\ \A i \in DOMAIN plans :
            plans[i].event = job[m].event => plans[i].google \/ plans[i].start = Asked
  /\ pc[m] = "keep" /\ online[m] => google[job[m].event] # "never"

MoverFits(w) ==
  /\ pc[w] \in Busy => Reads(copy[w])
  /\ pc[w] \in {"adopt", "put", "adopted"} => connected
  /\ pc[w] = "adopted" => google[copy[w].row.event] # "never"
  /\ pc[w] \in {"refresh", "refreshed", "write"} => copy[w].row.google

\* Google is as it was written, and nobody comes between.
ChangerFits(c) ==
  /\ pc[c] = "refreshed" => answer[c] = Seen(copy[c].row.event)
  /\ pc[c] = "store" =>
       IF plans[copy[c].id].google
       THEN goal[c] \in Day => google[copy[c].row.event] = goal[c]
       ELSE ~connected

\* What a sync was told of an event.
Reports(s, e) == e \in DOMAIN changes[s].events \/ changes[s].full
Told(s, e) == IF e \in DOMAIN changes[s].events THEN changes[s].events[e] ELSE "gone"

\* A plan it was told of, or that it will be told of next time.
Heard(s, i) == plans[i].event \in since[s] \/ Reports(s, plans[i].event)
Awaits(s, i) ==
  \/ plans[i].event \in since[s]
  \/ /\ Reports(s, plans[i].event)
     /\ \E r \in todo[s] : r.id = i /\ Differs(r.row, Told(s, plans[i].event))

\* It was told how each event is, or the event changed since; what is out of step
\* it was told of, and has yet to go through.
SyncFits(s) ==
  /\ pc[s] \notin {"refresh", "refreshed", "write", "store"}
  /\ \A r \in todo[s] : Reads(r) /\ connected
  /\ pc[s] \in {"list", "apply"} =>
       /\ since[s] \subseteq unseen
       /\ \A e \in Event : Reports(s, e) /\ e \notin since[s] => Told(s, e) = Seen(e)
  /\ pc[s] = "list" => \A i \in Standing : InPlace(i) \/ Heard(s, i)
  /\ pc[s] = "apply" =>
       /\ \A r \in todo[s] : r.row.google
       /\ \A i \in Standing : InPlace(i) \/ Awaits(s, i)

Fits ==
  /\ WorldFits
  /\ \A m \in Maker : MakerFits(m)
  /\ \A w \in Mover : MoverFits(w)
  /\ \A c \in Changer : ChangerFits(c)
  /\ \A s \in Syncer : SyncFits(s)

\* Who is where they were fits still.
SameMaker(m) == pc'[m] = pc[m] /\ job'[m] = job[m] /\ online'[m] = online[m]
SameMover(w) == pc'[w] = pc[w] /\ copy'[w] = copy[w]
SameChanger(c) == SameMover(c) /\ goal'[c] = goal[c] /\ answer'[c] = answer[c]
SameSync(s) == pc'[s] = pc[s] /\ todo'[s] = todo[s] /\ changes'[s] = changes[s]

OthersFit ==
  /\ WorldFits'
  /\ \A r : r.id \in DOMAIN plans /\ Reads(r) => Reads(r)'
  /\ \A m \in Maker : SameMaker(m) => MakerFits(m)'
  /\ \A w \in Mover : SameMover(w) => MoverFits(w)'
  /\ \A c \in Changer : SameChanger(c) => ChangerFits(c)'
  /\ \A s \in Syncer : SameSync(s) => SyncFits(s)'

-----------------------------------------------------------------------------
\* A step that changes neither Google nor a plan.
LEMMA StillFits ==
  ASSUME Inv, Fits, UNCHANGED <<connected, google, plans>>, InStep',
         \A s \in Syncer : SameSync(s) => since'[s] = since[s] /\ unseen' = unseen
  PROVE  OthersFit
<1>1. \A r : Reads(r) => Reads(r)'
  BY DEF Reads
<1>2. \A i \in DOMAIN plans : Follows(i)' <=> Follows(i)
  BY DEF Follows
<1>3. \A e \in Event : Seen(e)' = Seen(e) /\ Holding(e)' = Holding(e)
  BY DEF Seen, OnGoogle, Holding
<1>4. WorldFits'
  BY <1>2, <1>3 DEF Fits, WorldFits
<1>5. \A m \in Maker : SameMaker(m) => MakerFits(m)'
  BY DEF Fits, MakerFits, SameMaker
<1>6. \A w \in Mover : SameMover(w) => MoverFits(w)'
  BY <1>1 DEF Fits, MoverFits, SameMover
<1>7. ASSUME NEW c \in Changer, SameChanger(c) PROVE ChangerFits(c)'
  <2>1. ChangerFits(c) /\ pc'[c] = pc[c] /\ copy'[c] = copy[c] /\ goal'[c] = goal[c]
        /\ answer'[c] = answer[c]
    BY <1>7 DEF Fits, SameChanger, SameMover
  <2> QED
    BY <2>1 DEF ChangerFits, Seen, OnGoogle
<1>8. ASSUME NEW s \in Syncer, SameSync(s) PROVE SyncFits(s)'
  <2>1. /\ pc'[s] = pc[s] /\ todo'[s] = todo[s] /\ changes'[s] = changes[s]
        /\ since'[s] = since[s] /\ unseen' = unseen /\ SyncFits(s)
    BY <1>8 DEF Fits, SameSync
  <2>2. Standing' = Standing /\ \A i \in Standing : InPlace(i)' <=> InPlace(i)
    BY DEF Standing, InPlace
  <2>3. \A e \in Event : Reports(s, e)' = Reports(s, e) /\ Told(s, e)' = Told(s, e)
    BY <2>1 DEF Reports, Told
  <2>4. \A i \in Standing : plans[i].event \in Event
    BY PlansFacts DEF Standing, Plan
  <2>5. \A i \in Standing :
          (Heard(s, i)' <=> Heard(s, i)) /\ (Awaits(s, i)' <=> Awaits(s, i))
    BY <2>1 DEF Heard, Awaits, Reports, Told
  <2> QED
    BY <1>1, <1>3, <2>1, <2>2, <2>3, <2>4, <2>5 DEF SyncFits
<1> QED
  BY <1>1, <1>4, <1>5, <1>6, <1>7, <1>8 DEF OthersFit

\* Google's day of one event changes.
LEMMA TouchFits ==
  ASSUME Inv, Fits, plans' = plans, connected, NEW e \in Event, NEW day \in Days, Touch(e, day),
         \A i \in DOMAIN plans :
           plans[i].event = e => plans[i].google \/ (google[e] = "never" /\ day = plans[i].start),
         Holding(e) = {} => day = Asked,
         \A c \in Changer :
           SameChanger(c) /\ pc[c] \in {"refreshed", "store"} => copy[c].row.event # e
  PROVE  OthersFit
<1>1. /\ google' = [google EXCEPT ![e] = day] /\ unseen' = unseen \cup {e}
      /\ connected' = connected /\ known' = known
  BY DEF Touch
<1>2. google'[e] = day /\ \A f \in Event : f # e => google'[f] = google[f]
  BY <1>1, PcFacts DEF GoogleOK
<1>3. day # "never" /\ \A f \in Event : google[f] # "never" => google'[f] # "never"
  BY <1>2, CalendarAssumption DEF Days
<1>4. \A i \in DOMAIN plans : plans[i].event \in Event
  BY PlansFacts DEF Plan
<1>5. \A r : Reads(r) => Reads(r)'
  BY <1>1 DEF Reads
<1>6. \A f \in Event : f # e => Seen(f)' = Seen(f)
  BY <1>2 DEF Seen, OnGoogle
<1>7. WorldFits'
  <2>1. \A i \in DOMAIN plans : Follows(i)'
    BY <1>2, <1>3, <1>4 DEF Fits, WorldFits, Follows
  <2>2. \A f \in Event : Holding(f)' = {} => google'[f] \in {"never", Asked}
    BY <1>2 DEF Fits, WorldFits, Holding
  <2>3. InStep'
    BY <1>1, <1>2, <1>4 DEF Fits, WorldFits, InStep
  <2> QED
    BY <1>1, <2>1, <2>2, <2>3 DEF WorldFits
<1>8. ASSUME NEW m \in Maker, SameMaker(m) PROVE MakerFits(m)'
  <2>1. MakerFits(m) /\ (pc[m] = "keep" => job[m].event \in Event)
    BY DEF Fits, Inv, Places
  <2> QED
    BY <1>1, <1>3, <1>8, <2>1 DEF MakerFits, SameMaker
<1>9. ASSUME NEW w \in Mover, SameMover(w) PROVE MoverFits(w)'
  <2>1. MoverFits(w) /\ (pc[w] = "adopted" => copy[w].row.event \in Event)
    BY MoverFacts DEF Fits, Busy, Plan
  <2> QED
    BY <1>1, <1>3, <1>5, <1>9, <2>1 DEF MoverFits, SameMover
<1>10. ASSUME NEW c \in Changer, SameChanger(c) PROVE ChangerFits(c)'
  <2>1. /\ ChangerFits(c) /\ pc'[c] = pc[c] /\ copy'[c] = copy[c] /\ goal'[c] = goal[c]
        /\ answer'[c] = answer[c]
    BY <1>10 DEF Fits, SameChanger, SameMover
  <2>2. pc[c] \in {"refreshed", "store"} => copy[c].row.event \in Event /\ copy[c].row.event # e
    BY <1>10, MoverFacts DEF Busy, Plan, Mover
  <2> QED
    BY <1>1, <1>2, <1>6, <2>1, <2>2 DEF ChangerFits
<1>11. ASSUME NEW s \in Syncer, SameSync(s) PROVE SyncFits(s)'
  <2>1. /\ pc'[s] = pc[s] /\ todo'[s] = todo[s] /\ changes'[s] = changes[s] /\ SyncFits(s)
    BY <1>11 DEF Fits, SameSync
  <2>2. pc[s] \in {"list", "apply"} => since'[s] = since[s] \cup {e}
    BY DEF Touch
  <2>3. /\ Standing' = Standing
        /\ \A i \in Standing : InPlace(i) => InPlace(i)' \/ plans[i].event = e
    BY <1>2, <1>4 DEF Standing, InPlace
  <2>4. \A f \in Event : Reports(s, f)' = Reports(s, f) /\ Told(s, f)' = Told(s, f)
    BY <2>1 DEF Reports, Told
  <2>5. /\ pc'[s] \notin {"refresh", "refreshed", "write", "store"}
        /\ \A r \in todo'[s] : Reads(r)' /\ connected'
    BY <1>1, <1>5, <2>1 DEF SyncFits
  <2>6. pc'[s] \in {"list", "apply"} =>
          /\ since'[s] \subseteq unseen'
          /\ \A f \in Event : Reports(s, f)' /\ f \notin since'[s] => Told(s, f)' = Seen(f)'
    BY <1>1, <1>6, <2>1, <2>2, <2>4 DEF SyncFits
  <2>7. ASSUME NEW i \in Standing', pc[s] \in {"list", "apply"}
        PROVE  /\ InPlace(i) \/ Heard(s, i) => InPlace(i)' \/ Heard(s, i)'
               /\ InPlace(i) \/ Awaits(s, i) => InPlace(i)' \/ Awaits(s, i)'
    <3>1. i \in Standing /\ plans'[i] = plans[i] /\ since'[s] = since[s] \cup {e}
      BY <2>2, <2>3, <2>7
    <3>2. plans[i].event = e => plans'[i].event \in since'[s]
      BY <3>1
    <3> QED
      BY <2>1, <2>3, <3>1, <3>2 DEF Heard, Awaits, Reports, Told
  <2> QED
    BY <2>1, <2>3, <2>5, <2>6, <2>7 DEF SyncFits
<1> QED
  BY <1>5, <1>7, <1>8, <1>9, <1>10, <1>11 DEF OthersFit

\* One plan changes, and is in place after, unless Google changed since.
LEMMA EditFits ==
  ASSUME Inv, Fits, UNCHANGED outside, NEW i \in DOMAIN plans, NEW row \in Plan,
         plans' = [plans EXCEPT ![i] = row],
         row.event = plans[i].event,
         plans[i].google => row.google,
         row.google => connected /\ google[row.event] # "never",
         ~row.google /\ connected => row.start = plans[i].start,
         \/ row = plans[i]
         \/ ~row.google \/ ~row.live \/ google[row.event] = row.start
         \/ /\ row.event \in unseen
            /\ \A s \in Syncer : pc[s] \in {"list", "apply"} => row.event \in since[s]
  PROVE  OthersFit
<1>1. /\ DOMAIN plans' = DOMAIN plans /\ plans'[i] = row
      /\ \A j \in DOMAIN plans : j # i => plans'[j] = plans[j]
  BY PlansFacts
<1>2. UNCHANGED <<connected, google, known, unseen, since>>
  BY DEF outside
<1>3. \A j \in DOMAIN plans : plans'[j].event = plans[j].event
  BY <1>1
<1>4. \A r : r.id \in DOMAIN plans /\ Reads(r) => Reads(r)'
  BY <1>1, <1>2 DEF Reads
<1>5. \A e : Holding(e)' = Holding(e)
  BY <1>1, <1>3 DEF Holding
<1>6. \A e \in Event : Seen(e)' = Seen(e)
  BY <1>2 DEF Seen, OnGoogle
<1>7. \A j \in Standing' :
        \/ j \in Standing /\ plans'[j] = plans[j]
        \/ InPlace(j)'
        \/ /\ plans'[j].event \in unseen
           /\ \A s \in Syncer : pc[s] \in {"list", "apply"} => plans'[j].event \in since[s]
  BY <1>1, <1>2 DEF Standing, InPlace
<1>8. WorldFits'
  <2>1. \A j \in DOMAIN plans : Follows(j)'
    <3>1. Follows(i)'
      <4>1. CASE row.google
        BY <1>1, <1>2, <4>1 DEF Follows
      <4>2. CASE ~row.google
        <5>1. google[row.event] \in {"never", plans[i].start}
          BY <4>2 DEF Fits, WorldFits, Follows
        <5>2. ~connected => google[row.event] = "never"
          BY DEF Fits, WorldFits, Plan
        <5> QED
          BY <1>1, <1>2, <4>2, <5>1, <5>2 DEF Follows
      <4> QED
        BY <4>1, <4>2
    <3>2. \A j \in DOMAIN plans : j # i => Follows(j)'
      BY <1>1, <1>2 DEF Fits, WorldFits, Follows
    <3> QED
      BY <3>1, <3>2
  <2>2. InStep'
    <3> SUFFICES ASSUME known, NEW j \in Standing', plans'[j].event \notin unseen PROVE InPlace(j)'
      BY <1>2 DEF InStep, Standing, InPlace
    <3>1. j \in Standing /\ plans'[j] = plans[j] => InPlace(j)'
      BY <1>2 DEF Fits, WorldFits, InStep, Standing, InPlace
    <3> QED
      BY <1>7, <3>1
  <2>3. ~connected => \A j \in DOMAIN plans : ~plans'[j].google
    BY <1>1 DEF Fits, WorldFits
  <2> QED
    BY <1>1, <1>2, <1>5, <2>1, <2>2, <2>3 DEF Fits, WorldFits
<1>9. ASSUME NEW m \in Maker, SameMaker(m) PROVE MakerFits(m)'
  <2>1. MakerFits(m)
    BY DEF Fits
  <2>2. \A j \in DOMAIN plans :
          (plans[j].google \/ plans[j].start = Asked) /\ connected
            => plans'[j].google \/ plans'[j].start = Asked
    BY <1>1
  <2> QED
    BY <1>1, <1>2, <1>3, <1>9, <2>1, <2>2 DEF MakerFits, SameMaker
<1>10. ASSUME NEW w \in Mover, SameMover(w) PROVE MoverFits(w)'
  <2>1. MoverFits(w) /\ (pc[w] \in Busy => copy[w].id \in DOMAIN plans)
    BY MoverFacts DEF Fits
  <2> QED
    BY <1>2, <1>4, <1>10, <2>1 DEF MoverFits, SameMover
<1>11. ASSUME NEW c \in Changer, SameChanger(c) PROVE ChangerFits(c)'
  <2>1. /\ ChangerFits(c) /\ pc'[c] = pc[c] /\ copy'[c] = copy[c] /\ goal'[c] = goal[c]
        /\ answer'[c] = answer[c]
    BY <1>11 DEF Fits, SameChanger, SameMover
  <2>2. pc[c] \in {"refreshed", "store"} =>
          copy[c].id \in DOMAIN plans /\ copy[c].row.event \in Event
    BY MoverFacts DEF Busy, Plan, Mover
  <2>3. pc[c] = "store" /\ ~plans[copy[c].id].google => ~plans'[copy[c].id].google
    BY <1>1, <2>1, <2>2 DEF ChangerFits
  <2>4. pc[c] = "store" /\ plans[copy[c].id].google => plans'[copy[c].id].google
    BY <1>1, <2>2
  <2> QED
    BY <1>2, <1>6, <2>1, <2>2, <2>3, <2>4 DEF ChangerFits
<1>12. ASSUME NEW s \in Syncer, SameSync(s) PROVE SyncFits(s)'
  <2>1. /\ pc'[s] = pc[s] /\ todo'[s] = todo[s] /\ changes'[s] = changes[s] /\ SyncFits(s)
        /\ \A r \in todo[s] : r.id \in DOMAIN plans
    BY <1>12, PcFacts DEF Fits, SameSync, Inv, TypeOK
  <2>2. \A e \in Event : Reports(s, e)' = Reports(s, e) /\ Told(s, e)' = Told(s, e)
    BY <2>1 DEF Reports, Told
  <2>3. \A j \in Standing' : plans'[j].event \in Event
    BY <1>1, <1>3, PlansFacts DEF Standing, Plan
  <2>4. /\ pc'[s] \notin {"refresh", "refreshed", "write", "store"}
        /\ \A r \in todo'[s] : Reads(r)' /\ connected'
    BY <1>2, <1>4, <2>1 DEF SyncFits
  <2>5. pc'[s] \in {"list", "apply"} =>
          /\ since'[s] \subseteq unseen'
          /\ \A f \in Event : Reports(s, f)' /\ f \notin since'[s] => Told(s, f)' = Seen(f)'
    BY <1>2, <1>6, <2>1, <2>2 DEF SyncFits
  <2>6. \A j \in Standing : plans'[j] = plans[j] => (InPlace(j) <=> InPlace(j)')
    BY <1>2 DEF InPlace
  <2>7. ASSUME NEW j \in Standing', pc[s] \in {"list", "apply"}
        PROVE  /\ (j \in Standing => InPlace(j) \/ Heard(s, j)) => InPlace(j)' \/ Heard(s, j)'
               /\ (j \in Standing => InPlace(j) \/ Awaits(s, j)) => InPlace(j)' \/ Awaits(s, j)'
    <3>1. CASE j \in Standing /\ plans'[j] = plans[j]
      BY <1>2, <2>1, <2>6, <3>1 DEF Heard, Awaits, Reports, Told
    <3>2. CASE plans'[j].event \in since[s]
      BY <1>2, <3>2 DEF Heard, Awaits
    <3> QED
      BY <1>7, <2>7, <3>1, <3>2
  <2> QED
    BY <2>1, <2>4, <2>5, <2>7 DEF SyncFits
<1> QED
  BY <1>4, <1>8, <1>9, <1>10, <1>11, <1>12 DEF OthersFit

\* One plan more, on the day that is asked for and on Google if it is told so.
LEMMA AppendFits ==
  ASSUME Inv, Fits, UNCHANGED outside, NEW row \in Plan, plans' = Append(plans, row),
         Holding(row.event) = {}, row.start = Asked,
         row.google => connected /\ google[row.event] # "never"
  PROVE  OthersFit
<1> DEFINE n == Len(plans) + 1
<1>1. /\ plans \in Seq(Plan) /\ Len(plans) \in Nat /\ DOMAIN plans = 1..Len(plans)
      /\ \A i \in DOMAIN plans : plans[i] \in Plan
  BY PlansFacts
<1>2. /\ DOMAIN plans' = 1..n /\ plans'[n] = row
      /\ \A i \in DOMAIN plans : i \in DOMAIN plans' /\ plans'[i] = plans[i]
      /\ \A i \in DOMAIN plans' : i \in DOMAIN plans \/ i = n
  BY <1>1
<1> HIDE DEF n
<1>3. UNCHANGED <<connected, google, known, unseen, since>>
  BY DEF outside
<1>4. \A r : r.id \in DOMAIN plans /\ Reads(r) => Reads(r)'
  BY <1>2, <1>3 DEF Reads
<1>5. \A e \in Event : Seen(e)' = Seen(e)
  BY <1>3 DEF Seen, OnGoogle
<1>6. row.event \in Event /\ google[row.event] \in {"never", Asked}
  BY DEF Fits, WorldFits, Plan
<1>7. \A j \in Standing' : InPlace(j)' \/ (j \in Standing /\ plans'[j] = plans[j])
  BY <1>2, <1>3, <1>6 DEF Standing, InPlace
<1>8. WorldFits'
  <2>1. \A j \in DOMAIN plans' : Follows(j)'
    BY <1>2, <1>3, <1>6 DEF Fits, WorldFits, Follows
  <2>2. \A e \in Event : Holding(e)' = {} => Holding(e) = {}
    BY <1>2 DEF Holding
  <2>3. InStep'
    <3> SUFFICES ASSUME known, NEW j \in Standing', plans'[j].event \notin unseen PROVE InPlace(j)'
      BY <1>3 DEF InStep, Standing, InPlace
    <3>1. j \in Standing /\ plans'[j] = plans[j] => InPlace(j)'
      BY <1>3 DEF Fits, WorldFits, InStep, Standing, InPlace
    <3> QED
      BY <1>7, <3>1
  <2>4. ~connected => \A j \in DOMAIN plans' : ~plans'[j].google
    BY <1>2 DEF Fits, WorldFits, Plan
  <2> QED
    BY <1>3, <2>1, <2>2, <2>3, <2>4 DEF Fits, WorldFits
<1>9. ASSUME NEW m \in Maker, SameMaker(m) PROVE MakerFits(m)'
  BY <1>2, <1>3, <1>9 DEF Fits, MakerFits, SameMaker
<1>10. ASSUME NEW w \in Mover, SameMover(w) PROVE MoverFits(w)'
  <2>1. MoverFits(w) /\ (pc[w] \in Busy => copy[w].id \in DOMAIN plans)
    BY MoverFacts DEF Fits
  <2> QED
    BY <1>3, <1>4, <1>10, <2>1 DEF MoverFits, SameMover
<1>11. ASSUME NEW c \in Changer, SameChanger(c) PROVE ChangerFits(c)'
  <2>1. /\ ChangerFits(c) /\ pc'[c] = pc[c] /\ copy'[c] = copy[c] /\ goal'[c] = goal[c]
        /\ answer'[c] = answer[c]
    BY <1>11 DEF Fits, SameChanger, SameMover
  <2>2. pc[c] \in {"refreshed", "store"} =>
          copy[c].id \in DOMAIN plans /\ copy[c].row.event \in Event
    BY MoverFacts DEF Busy, Plan, Mover
  <2> QED
    BY <1>2, <1>3, <1>5, <2>1, <2>2 DEF ChangerFits
<1>12. ASSUME NEW s \in Syncer, SameSync(s) PROVE SyncFits(s)'
  <2>1. /\ pc'[s] = pc[s] /\ todo'[s] = todo[s] /\ changes'[s] = changes[s] /\ SyncFits(s)
        /\ \A r \in todo[s] : r.id \in DOMAIN plans
    BY <1>12 DEF Fits, SameSync, Inv, TypeOK
  <2>2. \A e \in Event : Reports(s, e)' = Reports(s, e) /\ Told(s, e)' = Told(s, e)
    BY <2>1 DEF Reports, Told
  <2>3. ASSUME NEW j \in Standing'
        PROVE  /\ (j \in Standing => InPlace(j) \/ Heard(s, j)) => InPlace(j)' \/ Heard(s, j)'
               /\ (j \in Standing => InPlace(j) \/ Awaits(s, j)) => InPlace(j)' \/ Awaits(s, j)'
    BY <1>3, <1>7, <2>1 DEF InPlace, Heard, Awaits, Reports, Told
  <2> QED
    BY <1>3, <1>4, <1>5, <2>1, <2>2, <2>3 DEF SyncFits
<1> QED
  BY <1>4, <1>8, <1>9, <1>10, <1>11, <1>12 DEF OthersFit

-----------------------------------------------------------------------------
\* Who moves, and fits.

LEMMA NobodyMoves ==
  ASSUME OthersFit, UNCHANGED <<pc, held>>
  PROVE  Fits'
BY DEF OthersFit, Fits, held, SameMaker, SameMover, SameChanger, SameSync

LEMMA MakerMoves ==
  ASSUME Inv, OthersFit, NEW m \in Maker, \A w \in Worker : w # m => pc'[w] = pc[w],
         \A n \in Maker : n # m => job'[n] = job[n] /\ online'[n] = online[n],
         UNCHANGED <<copy, goal, answer, changes, todo>>, MakerFits(m)'
  PROVE  Fits'
<1>1. \A w \in Mover : pc'[w] = pc[w]
  BY CalendarAssumption DEF Worker
<1>2. \A c \in Changer : SameChanger(c)
  BY <1>1 DEF SameChanger, SameMover, Mover
<1>3. \A s \in Syncer : SameSync(s)
  BY <1>1 DEF SameSync, Mover
<1>4. \A w \in Mover : SameMover(w)
  BY <1>1 DEF SameMover
<1>5. \A n \in Maker : n # m => SameMaker(n)
  BY DEF SameMaker, Worker
<1> QED
  BY <1>2, <1>3, <1>4, <1>5 DEF OthersFit, Fits

LEMMA MoverMoves ==
  ASSUME Inv, OthersFit, NEW w \in Mover, \A u \in Worker : u # w => pc'[u] = pc[u],
         job' = job, \A m \in Maker : online'[m] = online[m],
         \A u \in Mover : u # w => copy'[u] = copy[u],
         \A c \in Changer : c # w => goal'[c] = goal[c] /\ answer'[c] = answer[c],
         \A s \in Syncer : s # w => todo'[s] = todo[s] /\ changes'[s] = changes[s],
         MoverFits(w)', w \in Changer => ChangerFits(w)', w \in Syncer => SyncFits(w)'
  PROVE  Fits'
<1>1. \A m \in Maker : SameMaker(m)
  BY CalendarAssumption DEF SameMaker, Worker
<1>2. \A u \in Mover : u # w => SameMover(u)
  BY DEF SameMover, Worker
<1>3. \A c \in Changer : c # w => SameChanger(c)
  BY <1>2 DEF SameChanger, Mover
<1>4. \A s \in Syncer : s # w => SameSync(s)
  BY DEF SameSync, Worker, Mover
<1> QED
  BY <1>1, <1>2, <1>3, <1>4 DEF OthersFit, Fits

-----------------------------------------------------------------------------
\* create_event.

LEMMA ReserveFits ==
  ASSUME Inv, Fits, NEW m \in Maker, NEW k \in Key, NEW e \in Event, Reserve(m, k, e)
  PROVE  Fits'
<1>1. /\ UNCHANGED <<outside, plans, copy, goal, answer, changes, todo>>
      /\ pc' = [pc EXCEPT ![m] = "look"]
      /\ job' = [job EXCEPT ![m] = [key |-> k, event |-> e]]
      /\ online' = [online EXCEPT ![m] = connected]
  BY DEF Reserve, Begin, GoTo
<1>2. OthersFit
  BY <1>1, StillFits DEF outside, Fits, WorldFits, InStep
<1>3. /\ pc'[m] = "look" /\ \A w \in Worker : w # m => pc'[w] = pc[w]
      /\ online'[m] = connected
      /\ \A n \in Maker : n # m => job'[n] = job[n] /\ online'[n] = online[n]
  BY <1>1, PcFacts DEF Worker, Inv, Shapes
<1>4. MakerFits(m)'
  BY <1>1, <1>3 DEF MakerFits, outside
<1> QED
  BY <1>1, <1>2, <1>3, <1>4, MakerMoves

LEMMA LookUpFits ==
  ASSUME Inv, Fits, NEW m \in Maker, LookUp(m)
  PROVE  Fits'
<1> DEFINE e == job[m].event
           spot == IF Holding(e) # {} THEN "made"
                   ELSE IF online[m] /\ ~OnGoogle(e) THEN "insert" ELSE "keep"
<1>1. UNCHANGED <<outside, plans, held>> /\ pc' = [pc EXCEPT ![m] = spot]
  BY DEF LookUp, GoTo, db
<1>2. OthersFit
  BY <1>1, StillFits DEF outside, Fits, WorldFits, InStep
<1>3. pc'[m] = spot /\ \A w \in Worker : w # m => pc'[w] = pc[w]
  BY <1>1, PcFacts DEF Worker
<1>4. spot = "insert" => online[m] /\ \A i \in DOMAIN plans : plans[i].event # e
  BY DEF Holding
<1>5. spot = "keep" /\ online[m] => google[e] # "never"
  BY CalendarAssumption DEF OnGoogle
<1> HIDE DEF spot
<1>6. MakerFits(m)'
  BY <1>1, <1>3, <1>4, <1>5 DEF Fits, MakerFits, outside, held
<1> QED
  BY <1>1, <1>2, <1>3, <1>6, MakerMoves DEF held

\* An event that is made is nobody's yet that works on it.
LEMMA NeverBusy ==
  ASSUME Inv, Fits, connected, NEW e \in Event, google[e] = "never", NEW c \in Changer,
         pc[c] \in {"refreshed", "store"}
  PROVE  copy[c].row.event # e
<1> DEFINE i == copy[c].id
<1>1. c \in Mover /\ pc[c] \in Busy
  BY DEF Mover, Busy
<1>2. i \in DOMAIN plans /\ Reads(copy[c]) /\ Follows(i)
  BY <1>1, MoverFacts DEF Fits, MoverFits, WorldFits
<1>3. plans[i].google
  <2>1. CASE pc[c] = "refreshed"
    BY <1>1, <1>2, <2>1 DEF Fits, MoverFits, Reads
  <2>2. CASE pc[c] = "store"
    BY <2>2 DEF Fits, ChangerFits
  <2> QED
    BY <2>1, <2>2
<1> QED
  BY <1>2, <1>3 DEF Follows, Reads

LEMMA PutAskedFits ==
  ASSUME Inv, Fits, NEW m \in Maker, pc[m] = "insert", Put(job[m].event, Asked),
         UNCHANGED <<plans, known>>
  PROVE  /\ OthersFit /\ connected' = connected
         /\ google[job[m].event] # "gone" => google'[job[m].event] # "never"
<1> DEFINE e == job[m].event
<1>1. e \in Event /\ Asked \in Days /\ MakerFits(m) /\ connected
  BY CalendarAssumption DEF Inv, Places, Days, Fits, MakerFits
<1>2. CASE google[e] = "never"
  <2>1. Touch(e, Asked)
    BY <1>2 DEF Put
  <2>2. \A i \in DOMAIN plans :
          plans[i].event = e => plans[i].google \/ (google[e] = "never" /\ Asked = plans[i].start)
    BY <1>1, <1>2 DEF MakerFits
  <2>3. \A c \in Changer : pc[c] \in {"refreshed", "store"} => copy[c].row.event # e
    BY <1>1, <1>2, NeverBusy
  <2>4. OthersFit
    BY <1>1, <2>1, <2>2, <2>3, TouchFits
  <2>5. google'[e] = Asked /\ connected' = connected
    BY <1>1, <2>1, PcFacts DEF Touch, GoogleOK
  <2> QED
    BY <2>4, <2>5, CalendarAssumption
<1>3. CASE google[e] # "never"
  <2>1. UNCHANGED outside
    BY <1>3 DEF Put
  <2>2. OthersFit
    BY <2>1, StillFits DEF outside, Fits, WorldFits, InStep
  <2> QED
    BY <1>3, <2>1, <2>2 DEF outside
<1> QED
  BY <1>2, <1>3

LEMMA InsertFits ==
  ASSUME Inv, Fits, NEW m \in Maker, Insert(m)
  PROVE  Fits'
<1> DEFINE e == job[m].event
           spot == IF google[e] = "gone" THEN "out" ELSE "keep"
<1>1. /\ UNCHANGED <<plans, held>> /\ pc' = [pc EXCEPT ![m] = spot]
      /\ pc[m] = "insert" /\ Put(e, Asked) /\ known' = known
  BY DEF Insert, GoTo, db, At, Put, Touch, outside
<1>2. /\ OthersFit /\ connected' = connected
      /\ google[e] # "gone" => google'[e] # "never"
  BY <1>1, PutAskedFits
<1>3. pc'[m] = spot /\ \A w \in Worker : w # m => pc'[w] = pc[w]
  BY <1>1, PcFacts DEF Worker
<1>4. spot # "insert" /\ (spot = "keep" => google[e] # "gone")
  OBVIOUS
<1> HIDE DEF spot
<1>5. MakerFits(m)'
  BY <1>1, <1>2, <1>3, <1>4 DEF Fits, MakerFits, held
<1> QED
  BY <1>1, <1>2, <1>3, <1>5, MakerMoves DEF held

LEMMA KeepFits ==
  ASSUME Inv, Fits, NEW m \in Maker, Keep(m)
  PROVE  Fits'
<1> DEFINE e == job[m].event
           row == [event |-> e, start |-> Asked, live |-> TRUE, google |-> online[m]]
<1>1. UNCHANGED <<outside, held>> /\ pc' = [pc EXCEPT ![m] = "made"] /\ pc[m] = "keep"
  BY DEF Keep, GoTo, At
<1>2. OthersFit
  <2>1. CASE plans' = plans
    BY <1>1, <2>1, StillFits DEF outside, Fits, WorldFits, InStep
  <2>2. CASE Holding(e) = {} /\ plans' = Append(plans, row)
    <3>1. e \in Event /\ online[m] \in BOOLEAN
      BY <1>1 DEF Inv, Places, Shapes
    <3>2. /\ row \in Plan /\ row.event = e /\ row.start = Asked /\ row.google = online[m]
      BY <3>1, CalendarAssumption DEF Plan
    <3>3. online[m] => connected /\ google[e] # "never"
      BY <1>1 DEF Fits, MakerFits
    <3> HIDE DEF row
    <3> QED
      BY <1>1, <2>2, <3>2, <3>3, AppendFits
  <2> QED
    BY <2>1, <2>2 DEF Keep
<1>3. pc'[m] = "made" /\ \A w \in Worker : w # m => pc'[w] = pc[w]
  BY <1>1, PcFacts DEF Worker
<1>4. MakerFits(m)'
  BY <1>1, <1>3 DEF Fits, MakerFits, held, outside
<1> QED
  BY <1>1, <1>2, <1>3, <1>4, MakerMoves DEF held

LEMMA AnswerFits ==
  ASSUME Inv, Fits, NEW m \in Maker, Answer(m)
  PROVE  Fits'
<1>1. /\ UNCHANGED <<outside, plans, copy, goal, answer, changes, todo>>
      /\ pc' = [pc EXCEPT ![m] = "idle"]
      /\ job' = [job EXCEPT ![m] = NoJob] /\ online' = [online EXCEPT ![m] = FALSE]
  BY DEF Answer, GoTo, db
<1>2. OthersFit
  BY <1>1, StillFits DEF outside, Fits, WorldFits, InStep
<1>3. /\ pc'[m] = "idle" /\ \A w \in Worker : w # m => pc'[w] = pc[w]
      /\ ~online'[m]
      /\ \A n \in Maker : n # m => job'[n] = job[n] /\ online'[n] = online[n]
  BY <1>1, PcFacts DEF Worker, Inv, Shapes
<1>4. MakerFits(m)'
  BY <1>3 DEF MakerFits
<1> QED
  BY <1>1, <1>2, <1>3, <1>4, MakerMoves

-----------------------------------------------------------------------------
\* A plan kept here goes on Google.

LEMMA AdoptLookFits ==
  ASSUME Inv, Fits, NEW w \in Mover, AdoptLook(w)
  PROVE  Fits'
<1> DEFINE spot == IF OnGoogle(copy[w].row.event) THEN "adopted" ELSE "put"
<1>1. /\ UNCHANGED <<outside, plans, held>> /\ pc' = [pc EXCEPT ![w] = spot]
      /\ pc[w] = "adopt" /\ pc[w] \in Busy
  BY DEF AdoptLook, GoTo, db, At, Busy
<1>2. OthersFit
  BY <1>1, StillFits DEF outside, Fits, WorldFits, InStep
<1>3. pc'[w] = spot /\ \A u \in Worker : u # w => pc'[u] = pc[u]
  BY <1>1, PcFacts DEF Worker
<1>4. spot = "adopted" => google[copy[w].row.event] # "never"
  BY CalendarAssumption DEF OnGoogle
<1>5. spot \in {"adopted", "put"}
  OBVIOUS
<1> HIDE DEF spot
<1>6. copy[w].id \in DOMAIN plans /\ Reads(copy[w]) /\ connected
  BY <1>1, MoverFacts DEF Fits, MoverFits
<1>7. MoverFits(w)'
  BY <1>1, <1>3, <1>4, <1>5, <1>6 DEF MoverFits, outside, held, Reads
<1>8. w \in Changer => ChangerFits(w)'
  BY <1>3, <1>5 DEF ChangerFits
<1>9. w \in Syncer => SyncFits(w)'
  BY <1>1, <1>3, <1>5 DEF Fits, SyncFits, outside, held, Reads
<1> QED
  BY <1>1, <1>2, <1>3, <1>7, <1>8, <1>9, MoverMoves DEF held

LEMMA PutPlanFits ==
  ASSUME Inv, Fits, NEW w \in Mover, pc[w] = "put", pc'[w] # "put",
         Put(copy[w].row.event, copy[w].row.start), UNCHANGED <<plans, known>>
  PROVE  /\ OthersFit /\ connected' = connected
         /\ google[copy[w].row.event] # "gone" => google'[copy[w].row.event] # "never"
<1> DEFINE i == copy[w].id
           e == copy[w].row.event
           day == copy[w].row.start
<1>1. /\ i \in DOMAIN plans /\ e \in Event /\ day \in Day /\ day \in Days
      /\ Reads(copy[w]) /\ connected
  BY MoverFacts DEF Busy, Plan, Days, Fits, MoverFits
<1>2. CASE google[e] = "never"
  <2>1. Touch(e, day)
    BY <1>2 DEF Put
  <2>2. e = plans[i].event /\ (plans[i].google \/ day = plans[i].start)
    BY <1>1 DEF Reads
  <2>3. \A j \in DOMAIN plans :
          plans[j].event = e => plans[j].google \/ (google[e] = "never" /\ day = plans[j].start)
    BY <1>1, <1>2, <2>2 DEF Inv, OnePlan
  <2>4. \A c \in Changer : pc[c] \in {"refreshed", "store"} => copy[c].row.event # e
    BY <1>1, <1>2, NeverBusy
  <2>5. Holding(e) # {}
    BY <1>1, <2>2 DEF Holding
  <2>6. OthersFit
    BY <1>1, <2>1, <2>3, <2>4, <2>5, TouchFits
  <2>7. google'[e] = day /\ connected' = connected
    BY <1>1, <2>1, PcFacts DEF Touch, GoogleOK
  <2> QED
    BY <1>1, <2>6, <2>7, CalendarAssumption
<1>3. CASE google[e] # "never"
  <2>1. UNCHANGED outside
    BY <1>3 DEF Put
  <2>2. OthersFit
    BY <2>1, StillFits DEF outside, Fits, WorldFits, InStep
  <2> QED
    BY <1>3, <2>1, <2>2 DEF outside
<1> QED
  BY <1>2, <1>3

LEMMA AdoptPutFits ==
  ASSUME Inv, Fits, NEW w \in Mover, AdoptPut(w)
  PROVE  Fits'
<1> DEFINE e == copy[w].row.event
           spot == IF google[e] = "gone" THEN "out" ELSE "adopted"
<1>1. /\ UNCHANGED <<plans, held>> /\ pc' = [pc EXCEPT ![w] = spot]
      /\ pc[w] = "put" /\ pc[w] \in Busy /\ Put(e, copy[w].row.start) /\ known' = known
  BY DEF AdoptPut, GoTo, db, At, Busy, Put, Touch, outside
<1>2. /\ spot \in {"out", "adopted"} /\ (spot = "adopted" => google[e] # "gone")
      /\ pc'[w] = spot /\ \A u \in Worker : u # w => pc'[u] = pc[u]
  BY <1>1, PcFacts DEF Worker
<1> HIDE DEF spot
<1>3. /\ OthersFit /\ connected' = connected
      /\ google[e] # "gone" => google'[e] # "never"
  BY <1>1, <1>2, PutPlanFits
<1>4. copy[w].id \in DOMAIN plans /\ Reads(copy[w]) /\ connected
  BY <1>1, MoverFacts DEF Fits, MoverFits
<1>5. MoverFits(w)'
  BY <1>1, <1>2, <1>3, <1>4 DEF MoverFits, held, Reads
<1>6. w \in Changer => ChangerFits(w)'
  BY <1>2 DEF ChangerFits
<1>7. w \in Syncer => SyncFits(w)'
  BY <1>1, <1>2, <1>3 DEF Fits, SyncFits, held, Reads
<1> QED
  BY <1>1, <1>2, <1>3, <1>5, <1>6, <1>7, MoverMoves DEF held

LEMMA GoogleAfter ==
  ASSUME NEW row \in Plan, NEW want
  PROVE  /\ AfterTarget(row, want) \in {"refresh", "out", "write", "store"}
         /\ AfterTarget(row, want) \in {"refresh", "write"} => row.google
         /\ AfterTarget(row, want) = "store" => ~row.google /\ row.live
BY DEF AfterTarget, Plan

LEMMA AdoptKeepFits ==
  ASSUME Inv, Fits, NEW w \in Mover, AdoptKeep(w)
  PROVE  Fits'
<1> DEFINE i == copy[w].id
           row == [plans[i] EXCEPT !.google = TRUE]
           read == [id |-> i, row |-> row]
           spot == IF w \in Syncer THEN "next" ELSE AfterTarget(row, goal[w])
<1>1. /\ pc[w] = "adopted" /\ pc[w] \in Busy
      /\ UNCHANGED <<outside, online, job, goal, answer, changes, todo>>
  BY DEF AdoptKeep, At, Busy
<1>2. /\ i \in DOMAIN plans /\ plans[i] \in Plan /\ copy[w].row.event = plans[i].event
      /\ connected /\ google[plans[i].event] # "never"
      /\ copy \in [Mover -> [id : Nat, row : Plan \cup {None}]]
  BY <1>1, MoverFacts, PlansFacts DEF Fits, MoverFits, Reads
<1>3. /\ row \in Plan /\ row.event = plans[i].event /\ row.start = plans[i].start
      /\ row.google /\ (plans[i].google => row = plans[i])
  BY <1>2 DEF Plan
<1>4. copy' = [copy EXCEPT ![w] = read] /\ plans' = [plans EXCEPT ![i] = row]
  BY DEF AdoptKeep
<1>5. copy'[w] = read /\ \A u \in Mover : u # w => copy'[u] = copy[u]
  BY <1>2, <1>4
<1>6. pc' = [pc EXCEPT ![w] = spot]
  <2>1. copy'[w].row = row
    BY <1>5
  <2> DEFINE there == IF w \in Syncer THEN "next" ELSE AfterTarget(copy'[w].row, goal[w])
  <2>2. pc' = [pc EXCEPT ![w] = there]
    BY DEF AdoptKeep, GoTo
  <2>3. there = spot
    BY <2>1
  <2> HIDE DEF there, spot
  <2> QED
    BY <2>2, <2>3
<1>7. plans'[i] = row
  BY <1>2, <1>4, PlansFacts
<1>8. spot \in {"next", "refresh", "out", "write"} /\ (w \in Syncer => spot = "next")
  BY <1>3, GoogleAfter
<1>9. read.id = i /\ read.row = row
  OBVIOUS
<1> HIDE DEF row, read, spot
<1>10. OthersFit
  <2>1. row = plans[i] \/ google[row.event] = row.start
    BY <1>2, <1>3 DEF Fits, WorldFits, Follows
  <2> QED
    BY <1>1, <1>2, <1>3, <1>4, <2>1, EditFits
<1>11. pc'[w] = spot /\ \A u \in Worker : u # w => pc'[u] = pc[u]
  BY <1>6, PcFacts DEF Worker
<1>12. MoverFits(w)'
  BY <1>1, <1>3, <1>5, <1>7, <1>8, <1>9, <1>11 DEF MoverFits, Reads
<1>13. w \in Changer => ChangerFits(w)'
  BY <1>8, <1>11 DEF ChangerFits
<1>14. w \in Syncer => SyncFits(w)'
  BY <1>1, <1>8, <1>10, <1>11 DEF Fits, SyncFits, OthersFit, outside, Inv, TypeOK
<1> QED
  BY <1>1, <1>5, <1>10, <1>11, <1>12, <1>13, <1>14, MoverMoves

-----------------------------------------------------------------------------
\* update_event and delete_event.

LEMMA TargetFits ==
  ASSUME Inv, Fits, NEW c \in Changer, NEW i \in DOMAIN plans, NEW want, Target(c, i, want)
  PROVE  Fits'
<1> DEFINE spot == IF connected /\ plans[i].live /\ ~plans[i].google THEN "adopt"
                   ELSE AfterTarget(plans[i], want)
<1>1. /\ UNCHANGED <<outside, plans, job, answer, changes, todo>>
      /\ goal' = [goal EXCEPT ![c] = want] /\ copy' = [copy EXCEPT ![c] = Row(i)]
      /\ online' = [online EXCEPT ![c] = connected] /\ pc' = [pc EXCEPT ![c] = spot]
  BY DEF Target, GoTo, db
<1>2. OthersFit
  BY <1>1, StillFits DEF outside, Fits, WorldFits, InStep
<1>3. plans[i] \in Plan /\ connected \in BOOLEAN /\ c \in Mover
  BY PlansFacts DEF Inv, TypeOK, Mover
<1>4. /\ spot \in {"adopt", "refresh", "out", "write", "store"}
      /\ spot = "adopt" => connected
      /\ spot \in {"refresh", "write"} => plans[i].google
      /\ spot = "store" => ~plans[i].google /\ ~connected
  BY <1>3, GoogleAfter
<1> HIDE DEF spot
<1>5. /\ pc'[c] = spot /\ \A u \in Worker : u # c => pc'[u] = pc[u]
      /\ copy'[c] = Row(i) /\ \A u \in Mover : u # c => copy'[u] = copy[u]
      /\ \A d \in Changer : d # c => goal'[d] = goal[d]
      /\ \A m \in Maker : online'[m] = online[m]
  <2>1. \A m \in Maker : m # c
    BY CalendarAssumption DEF Mover
  <2>2. \A d \in Changer : d # c => goal'[d] = goal[d]
    BY <1>1
  <2>3. online \in [Maker \cup Changer -> BOOLEAN]
    BY DEF Inv, Shapes
  <2>4. \A m \in Maker : online'[m] = online[m]
    BY <1>1, <2>1, <2>3
  <2> QED
    BY <1>1, <1>3, <2>2, <2>4, PcFacts, MoverFacts DEF Worker
<1>6. Row(i).id = i /\ Row(i).row = plans[i]
  BY DEF Row
<1>7. MoverFits(c)'
  BY <1>1, <1>4, <1>5, <1>6 DEF MoverFits, Reads, outside
<1>8. ChangerFits(c)'
  BY <1>1, <1>4, <1>5, <1>6 DEF ChangerFits, outside
<1>9. c \notin Syncer
  BY CalendarAssumption
<1> QED
  BY <1>1, <1>2, <1>3, <1>5, <1>7, <1>8, <1>9, MoverMoves

LEMMA RefreshFits ==
  ASSUME Inv, Fits, NEW c \in Changer, Refresh(c)
  PROVE  Fits'
<1>1. /\ UNCHANGED <<outside, plans, online, job, copy, goal, changes, todo>>
      /\ answer' = [answer EXCEPT ![c] = Seen(copy[c].row.event)]
      /\ pc' = [pc EXCEPT ![c] = "refreshed"] /\ pc[c] = "refresh" /\ pc[c] \in Busy
      /\ c \in Mover
  BY DEF Refresh, GoTo, db, At, Busy, Mover
<1>2. OthersFit
  BY <1>1, StillFits DEF outside, Fits, WorldFits, InStep
<1>3. /\ pc'[c] = "refreshed" /\ \A u \in Worker : u # c => pc'[u] = pc[u]
      /\ answer'[c] = Seen(copy[c].row.event)
      /\ \A d \in Changer : d # c => answer'[d] = answer[d]
  BY <1>1, PcFacts, MoverFacts DEF Worker
<1>4. copy[c].id \in DOMAIN plans /\ Reads(copy[c]) /\ copy[c].row.google
  BY <1>1, MoverFacts DEF Fits, MoverFits
<1>5. MoverFits(c)'
  BY <1>1, <1>3, <1>4 DEF MoverFits, Reads, outside
<1>6. ChangerFits(c)'
  BY <1>1, <1>3 DEF ChangerFits, Seen, OnGoogle, outside
<1>7. c \notin Syncer
  BY CalendarAssumption
<1> QED
  BY <1>1, <1>2, <1>3, <1>5, <1>6, <1>7, MoverMoves

\* What Google says now of a plan's event puts the plan in place.
LEMMA DecidesFits ==
  ASSUME Inv, Fits, NEW i \in DOMAIN plans, plans[i].google, NEW day, UNCHANGED outside,
         \/ day = Seen(plans[i].event)
         \/ /\ plans[i].event \in unseen /\ day \in Days
            /\ \A s \in Syncer : pc[s] \in {"list", "apply"} => plans[i].event \in since[s],
         plans' = [plans EXCEPT ![i] = Decides(plans[i], day)]
  PROVE  OthersFit /\ plans'[i] = Decides(plans[i], day) /\ plans'[i].google
<1> DEFINE row == Decides(plans[i], day)
<1>1. plans[i] \in Plan /\ plans[i].event \in Event
  BY PlansFacts DEF Plan
<1>2. connected /\ google[plans[i].event] # "never"
  BY DEF Fits, WorldFits, Follows
<1>3. day \in Days
  BY <1>1, SeenIsAnAnswer
<1>4. row \in Plan /\ row.event = plans[i].event /\ row.google
  BY <1>1, <1>3 DEF Decides, Plan, Days
<1>5. day = Seen(plans[i].event) => ~row.live \/ google[row.event] = row.start
  BY <1>1, <1>2, CalendarAssumption DEF Seen, OnGoogle, Decides, Plan
<1>6. plans'[i] = row
  BY PlansFacts
<1> HIDE DEF row
<1>7. OthersFit
  BY <1>2, <1>4, <1>5, EditFits DEF row
<1> QED
  BY <1>4, <1>6, <1>7 DEF row

LEMMA ApplyRefreshFits ==
  ASSUME Inv, Fits, NEW c \in Changer, ApplyRefresh(c)
  PROVE  Fits'
<1> DEFINE i == copy[c].id
           read == [copy[c] EXCEPT !.row = IF Differs(copy[c].row, answer[c]) THEN plans'[i] ELSE @]
           spot == IF copy'[c].row.live THEN "write" ELSE "out"
<1>1. /\ UNCHANGED <<outside, online, job, goal, answer, changes, todo>>
      /\ ApplyEvent(copy[c], answer[c])
      /\ pc' = [pc EXCEPT ![c] = spot] /\ pc[c] = "refreshed" /\ pc[c] \in Busy
      /\ c \in Mover
  BY DEF ApplyRefresh, GoTo, At, Busy, Mover
<1>2. copy' = [copy EXCEPT ![c] = read]
  BY DEF ApplyRefresh
<1>3. spot \in {"write", "out"}
  OBVIOUS
<1> HIDE DEF spot
<1>4. /\ pc'[c] = spot /\ \A u \in Worker : u # c => pc'[u] = pc[u]
      /\ copy'[c] = read /\ \A u \in Mover : u # c => copy'[u] = copy[u]
  BY <1>1, <1>2, PcFacts, MoverFacts DEF Worker
<1>5. /\ i \in DOMAIN plans /\ Reads(copy[c]) /\ copy[c].row.google /\ plans[i].google
      /\ answer[c] = Seen(plans[i].event) /\ copy[c].row.event = plans[i].event
      /\ copy[c] \in [id : Nat, row : Plan \cup {None}]
      /\ plans[i] \in Plan
  BY <1>1, MoverFacts, PlansFacts DEF Fits, MoverFits, Reads, ChangerFits
<1>6. /\ OthersFit /\ read.row.google
      /\ read.row.event = plans'[read.id].event /\ plans'[read.id].google
  <2>1. CASE Differs(copy[c].row, answer[c])
    <3>1. plans' = [plans EXCEPT ![i] = Decides(plans[i], answer[c])]
      BY <1>1, <2>1 DEF ApplyEvent
    <3>2. OthersFit /\ plans'[i].google
      BY <1>1, <1>5, <3>1, DecidesFits
    <3>3. read.id = i /\ read.row = plans'[i]
      BY <1>5, <2>1
    <3> QED
      BY <3>2, <3>3
  <2>2. CASE ~Differs(copy[c].row, answer[c])
    <3>1. plans' = plans
      BY <1>1, <2>2 DEF ApplyEvent
    <3>2. OthersFit
      BY <1>1, <1>4, <3>1, StillFits DEF outside, Fits, WorldFits, InStep
    <3>3. read = copy[c]
      BY <1>5, <2>2
    <3> QED
      BY <1>5, <3>1, <3>2, <3>3
  <2> QED
    BY <2>1, <2>2
<1> HIDE DEF read
<1>7. MoverFits(c)'
  <2>1. pc'[c] \in {"write", "out"} /\ Reads(copy[c])' /\ copy'[c].row.google
    BY <1>3, <1>4, <1>6 DEF Reads
  <2> QED
    BY <2>1 DEF MoverFits
<1>8. ChangerFits(c)'
  BY <1>3, <1>4 DEF ChangerFits
<1>9. c \notin Syncer
  BY CalendarAssumption
<1> QED
  BY <1>1, <1>4, <1>6, <1>7, <1>8, <1>9, MoverMoves

\* What is written is written while no other call changes a plan.
LEMMA WrittenFits ==
  ASSUME OneAtATime, Inv, Fits, NEW c \in Changer, pc[c] = "write", pc'[c] # "write",
         UNCHANGED plans,
         \/ UNCHANGED outside
         \/ \E day \in Days : Touch(copy[c].row.event, day)
  PROVE  OthersFit /\ Reads(copy[c])
<1> DEFINE e == copy[c].row.event
           i == copy[c].id
<1>1. /\ e \in Event /\ i \in DOMAIN plans /\ Reads(copy[c]) /\ plans[i].google
      /\ plans[i].event = e /\ c \in Mover
  BY MoverFacts DEF Fits, MoverFits, Busy, Reads, Plan, Mover
<1>2. CASE UNCHANGED outside
  BY <1>1, <1>2, StillFits DEF outside, Fits, WorldFits, InStep
<1>3. CASE \E day \in Days : Touch(e, day)
  <2>1. PICK day \in Days : Touch(e, day)
    BY <1>3
  <2>2. connected
    BY <1>1 DEF Fits, WorldFits
  <2>3. \A j \in DOMAIN plans : plans[j].event = e => plans[j].google
    BY <1>1 DEF Inv, OnePlan
  <2>4. Holding(e) # {}
    BY <1>1 DEF Holding
  <2>5. \A d \in Changer : ~SameChanger(d)
    BY DEF OneAtATime, SameChanger, SameMover
  <2> QED
    BY <1>1, <2>1, <2>2, <2>3, <2>4, <2>5, TouchFits
<1> QED
  BY <1>2, <1>3

LEMMA WriteFits ==
  ASSUME OneAtATime, Inv, Fits, NEW c \in Changer, Write(c)
  PROVE  Fits'
<1> DEFINE e == copy[c].row.event
<1>1. /\ UNCHANGED <<plans, held>> /\ pc[c] = "write" /\ c \in Mover /\ c \notin Syncer
      /\ e \in Event
  BY CalendarAssumption, MoverFacts DEF Write, At, db, Mover, Busy, Plan
<1>2. PICK spot \in {"store", "out"} :
        /\ pc' = [pc EXCEPT ![c] = spot]
        /\ \/ UNCHANGED outside
           \/ \E day \in Days : Touch(e, day)
        /\ spot = "store" /\ goal[c] \in Day => Touch(e, goal[c])
  BY DEF Write, GoTo, Delete, Days
<1>3. pc'[c] = spot /\ \A u \in Worker : u # c => pc'[u] = pc[u]
  BY <1>1, <1>2, PcFacts DEF Worker
<1>4. OthersFit /\ Reads(copy[c])
  BY <1>1, <1>2, <1>3, WrittenFits
<1>5. plans[copy[c].id].google /\ copy[c].id \in DOMAIN plans
  BY <1>1, <1>4, MoverFacts DEF Fits, MoverFits, Reads, Busy
<1>6. spot = "store" /\ goal[c] \in Day => google'[e] = goal[c]
  BY <1>1, <1>2, PcFacts DEF Touch, GoogleOK
<1>7. MoverFits(c)'
  <2>1. Reads(copy[c])'
    BY <1>4, <1>5, <1>1 DEF OthersFit, held, Reads
  <2> QED
    BY <1>3, <2>1 DEF MoverFits
<1>8. ChangerFits(c)'
  BY <1>1, <1>3, <1>5, <1>6 DEF ChangerFits, held
<1> QED
  BY <1>1, <1>3, <1>4, <1>7, <1>8, MoverMoves DEF held

LEMMA StoreFits ==
  ASSUME Inv, Fits, NEW c \in Changer, Store(c)
  PROVE  Fits'
<1> DEFINE i == copy[c].id
           row == IF goal[c] \in Day THEN [plans[i] EXCEPT !.start = goal[c]]
                  ELSE [plans[i] EXCEPT !.live = FALSE]
<1>1. /\ UNCHANGED <<outside, held>> /\ pc[c] = "store" /\ pc' = [pc EXCEPT ![c] = "out"]
      /\ c \in Mover /\ c \notin Syncer
      /\ plans' = [plans EXCEPT ![i] = row]
  BY CalendarAssumption DEF Store, At, GoTo, Mover
<1>2. /\ i \in DOMAIN plans /\ plans[i] \in Plan /\ copy[c].row.event = plans[i].event
  BY <1>1, MoverFacts, PlansFacts DEF Busy, Fits, MoverFits, Reads
<1>3. /\ row \in Plan /\ row.event = plans[i].event /\ row.google = plans[i].google
      /\ ~row.live \/ (goal[c] \in Day /\ row.start = goal[c])
  BY <1>2 DEF Plan
<1> HIDE DEF row
<1>4. IF row.google THEN ~row.live \/ google[row.event] = row.start ELSE ~connected
  BY <1>1, <1>2, <1>3 DEF Fits, ChangerFits
<1>5. row.google => connected /\ google[row.event] # "never"
  BY <1>2, <1>3 DEF Fits, WorldFits, Follows
<1>6. OthersFit
  BY <1>1, <1>2, <1>3, <1>4, <1>5, EditFits
<1>7. pc'[c] = "out" /\ \A u \in Worker : u # c => pc'[u] = pc[u]
  BY <1>1, PcFacts DEF Worker
<1>8. MoverFits(c)' /\ ChangerFits(c)'
  BY <1>7 DEF MoverFits, ChangerFits, Busy
<1> QED
  BY <1>1, <1>6, <1>7, <1>8, MoverMoves DEF held

-----------------------------------------------------------------------------
\* sync_plans.

\* A step of a sync: no changer is it.
LEMMA SyncMoves ==
  ASSUME Inv, OthersFit, NEW s \in Syncer, \A u \in Worker : u # s => pc'[u] = pc[u],
         UNCHANGED <<online, job, goal, answer>>,
         \A u \in Mover : u # s => copy'[u] = copy[u],
         \A u \in Syncer : u # s => todo'[u] = todo[u] /\ changes'[u] = changes[u],
         MoverFits(s)', SyncFits(s)'
  PROVE  Fits'
<1>1. s \in Mover /\ s \notin Changer
  BY CalendarAssumption DEF Mover
<1> QED
  BY <1>1, MoverMoves

LEMMA SyncStartFits ==
  ASSUME Inv, Fits, NEW s \in Syncer, SyncStart(s)
  PROVE  Fits'
<1>1. /\ UNCHANGED <<outside, plans, online, job, copy, goal, answer, changes>>
      /\ todo' = [todo EXCEPT ![s] = KeptHere] /\ connected /\ s \in Mover
      /\ pc' = [pc EXCEPT ![s] = "next"]
  BY DEF SyncStart, GoTo, db, Mover
<1>2. OthersFit
  BY <1>1, StillFits DEF outside, Fits, WorldFits, InStep
<1>3. /\ pc'[s] = "next" /\ \A u \in Worker : u # s => pc'[u] = pc[u]
      /\ todo'[s] = KeptHere /\ \A u \in Syncer : u # s => todo'[u] = todo[u]
  BY <1>1, PcFacts, MoverFacts DEF Worker
<1>4. \A r \in KeptHere : Reads(r)
  BY DEF KeptHere, Row, Reads
<1>5. MoverFits(s)'
  BY <1>3 DEF MoverFits, Busy
<1>6. SyncFits(s)'
  BY <1>1, <1>3, <1>4 DEF SyncFits, Reads, outside
<1> QED
  BY <1>1, <1>2, <1>3, <1>5, <1>6, SyncMoves

LEMMA AdoptNextFits ==
  ASSUME Inv, Fits, NEW s \in Syncer, NEW r \in todo[s], AdoptNext(s, r)
  PROVE  Fits'
<1>1. /\ UNCHANGED <<outside, plans, online, job, goal, answer, changes>>
      /\ todo' = [todo EXCEPT ![s] = @ \ {r}] /\ copy' = [copy EXCEPT ![s] = r]
      /\ pc' = [pc EXCEPT ![s] = "adopt"] /\ s \in Mover
  BY DEF AdoptNext, GoTo, db, Mover
<1>2. OthersFit
  BY <1>1, StillFits DEF outside, Fits, WorldFits, InStep
<1>3. /\ pc'[s] = "adopt" /\ \A u \in Worker : u # s => pc'[u] = pc[u]
      /\ copy'[s] = r /\ \A u \in Mover : u # s => copy'[u] = copy[u]
      /\ todo'[s] = todo[s] \ {r} /\ \A u \in Syncer : u # s => todo'[u] = todo[u]
  BY <1>1, PcFacts, MoverFacts DEF Worker
<1>4. MoverFits(s)'
  BY <1>1, <1>3 DEF Fits, SyncFits, MoverFits, Reads, outside
<1>5. SyncFits(s)'
  BY <1>1, <1>3 DEF Fits, SyncFits, Reads, outside
<1> QED
  BY <1>1, <1>2, <1>3, <1>4, <1>5, SyncMoves

LEMMA ReadChangesFits ==
  ASSUME Inv, Fits, NEW s \in Syncer, ReadChanges(s)
  PROVE  Fits'
<1> DEFINE here == {f \in Event : OnGoogle(f)}
           said == IF known THEN [events |-> [e \in unseen |-> Seen(e)], full |-> FALSE]
                   ELSE [events |-> [e \in here |-> google[e]], full |-> TRUE]
<1>1. /\ UNCHANGED <<connected, google, known, unseen, plans, online, job, goal, answer, todo>>
      /\ todo[s] = {} /\ copy' = [copy EXCEPT ![s] = NoRow]
      /\ changes' = [changes EXCEPT ![s] = said] /\ since' = [since EXCEPT ![s] = {}]
      /\ pc' = [pc EXCEPT ![s] = "list"] /\ pc[s] = "next" /\ s \in Mover
  BY DEF ReadChanges, GoTo, At, db, Mover
<1>2. /\ pc'[s] = "list" /\ \A u \in Worker : u # s => pc'[u] = pc[u]
      /\ \A u \in Mover : u # s => copy'[u] = copy[u]
      /\ changes'[s] = said /\ \A u \in Syncer : u # s => changes'[u] = changes[u]
      /\ since'[s] = {} /\ \A u \in Syncer : u # s => since'[u] = since[u]
  BY <1>1, PcFacts, MoverFacts DEF Worker, GoogleOK
<1>3. OthersFit
  <2>1. \A u \in Syncer : SameSync(u) => since'[u] = since[u]
    BY <1>1, <1>2 DEF SameSync
  <2> QED
    BY <1>1, <2>1, StillFits DEF Fits, WorldFits, InStep
<1>4. /\ \A e \in Event : Reports(s, e)' => Told(s, e)' = Seen(e)
      /\ \A e \in Event : Reports(s, e)' <=> ~known \/ e \in unseen
  <2>1. CASE known
    BY <1>2, <2>1 DEF Reports, Told
  <2>2. CASE ~known
    <3>1. changes'[s].full /\ changes'[s].events = [e \in here |-> google[e]]
      BY <1>2, <2>2
    <3> QED
      BY <2>2, <3>1 DEF Reports, Told, Seen
  <2> QED
    BY <2>1, <2>2
<1> HIDE DEF said
<1>5. \A i \in Standing : InPlace(i) \/ Heard(s, i)'
  <2> SUFFICES ASSUME NEW i \in Standing, ~InPlace(i) PROVE Heard(s, i)'
    OBVIOUS
  <2>1. ~known \/ plans[i].event \in unseen
    BY DEF Fits, WorldFits, InStep, Standing, InPlace
  <2>2. plans[i].event \in Event
    BY PlansFacts DEF Standing, Plan
  <2>3. Reports(s, plans[i].event)'
    BY <1>1, <1>4, <2>1, <2>2
  <2> QED
    BY <1>1, <2>3 DEF Heard
<1>6. MoverFits(s)'
  BY <1>2 DEF MoverFits, Busy
<1>7. SyncFits(s)'
  <2>1. Standing' = Standing /\ \A i \in Standing : InPlace(i)' <=> InPlace(i)
    BY <1>1 DEF Standing, InPlace
  <2>2. \A e \in Event : Seen(e)' = Seen(e)
    BY <1>1 DEF Seen, OnGoogle
  <2> QED
    BY <1>1, <1>2, <1>4, <1>5, <2>1, <2>2 DEF SyncFits
<1> QED
  BY <1>1, <1>2, <1>3, <1>6, <1>7, SyncMoves

\* Each live plan is listed, and its row tells it from what Google said.
LEMMA ListPlansFits ==
  ASSUME Inv, Fits, NEW s \in Syncer, ListPlans(s)
  PROVE  Fits'
<1>1. /\ UNCHANGED <<outside, plans, online, job, copy, goal, answer, changes>>
      /\ todo' = [todo EXCEPT ![s] = LiveOn] /\ s \in Mover
      /\ pc' = [pc EXCEPT ![s] = "apply"] /\ pc[s] = "list"
  BY DEF ListPlans, GoTo, db, At, Mover
<1>2. OthersFit
  BY <1>1, StillFits DEF outside, Fits, WorldFits, InStep
<1>3. /\ pc'[s] = "apply" /\ \A u \in Worker : u # s => pc'[u] = pc[u]
      /\ todo'[s] = LiveOn /\ \A u \in Syncer : u # s => todo'[u] = todo[u]
  BY <1>1, PcFacts, MoverFacts DEF Worker
<1>4. \A r \in LiveOn : Reads(r) /\ connected /\ r.row.google
  BY DEF LiveOn, Row, Reads, Fits, WorldFits
<1>5. /\ Standing' = Standing /\ \A i \in Standing : InPlace(i)' <=> InPlace(i)
      /\ \A e \in Event : Seen(e)' = Seen(e)
      /\ \A e : Reports(s, e)' = Reports(s, e) /\ Told(s, e)' = Told(s, e)
  BY <1>1 DEF Standing, InPlace, Seen, OnGoogle, Reports, Told, outside
<1>6. ASSUME NEW i \in Standing, ~InPlace(i) PROVE Awaits(s, i)'
  <2> DEFINE e == plans[i].event
  <2>1. plans[i] \in Plan /\ e \in Event /\ plans[i].live
    BY PlansFacts DEF Standing, Plan
  <2>2. e \in since[s] \/ Reports(s, e)
    BY <1>1, <1>6 DEF Fits, SyncFits, Heard
  <2>3. CASE e \in since[s]
    BY <1>1, <2>3 DEF Awaits, outside
  <2>4. CASE e \notin since[s]
    <3>1. Reports(s, e) /\ Told(s, e) = Seen(e)
      BY <1>1, <2>1, <2>2, <2>4 DEF Fits, SyncFits
    <3>2. Differs(plans[i], Told(s, e))
      <4>1. CASE OnGoogle(e)
        <5>1. Told(s, e) = google[e] /\ google[e] # "gone" /\ google[e] # plans[i].start
          BY <1>6, <3>1, <4>1, CalendarAssumption DEF Seen, OnGoogle, InPlace
        <5>2. Decides(plans[i], Told(s, e)).start = google[e]
          BY <2>1, <5>1 DEF Decides, Plan
        <5> QED
          BY <5>1, <5>2 DEF Differs
      <4>2. CASE ~OnGoogle(e)
        <5>1. Told(s, e) = "gone"
          BY <3>1, <4>2 DEF Seen
        <5>2. ~Decides(plans[i], Told(s, e)).live
          BY <2>1, <5>1 DEF Decides, Plan
        <5> QED
          BY <2>1, <5>2 DEF Differs
      <4> QED
        BY <4>1, <4>2
    <3>3. Row(i) \in LiveOn /\ Row(i).id = i /\ Row(i).row = plans[i]
      BY DEF LiveOn, Row, Standing
    <3>4. \E r \in todo'[s] : r.id = i /\ Differs(r.row, Told(s, e))
      BY <1>3, <3>2, <3>3
    <3> QED
      BY <1>1, <3>1, <3>4 DEF Awaits, Reports, Told
  <2> QED
    BY <2>3, <2>4
<1>7. MoverFits(s)'
  BY <1>3 DEF MoverFits, Busy
<1>8. SyncFits(s)'
  <2>1. \A r \in todo'[s] : Reads(r)' /\ connected' /\ r.row.google
    BY <1>1, <1>3, <1>4 DEF Reads, outside
  <2>2. /\ since'[s] \subseteq unseen'
        /\ \A e \in Event : Reports(s, e)' /\ e \notin since'[s] => Told(s, e)' = Seen(e)'
    BY <1>1, <1>5 DEF Fits, SyncFits, outside
  <2> QED
    BY <1>3, <1>5, <1>6, <2>1, <2>2 DEF SyncFits
<1> QED
  BY <1>1, <1>2, <1>3, <1>7, <1>8, SyncMoves

\* A plan it was told of is put in place, unless its event changed since.
LEMMA ApplyNextFits ==
  ASSUME OneAtATime, Inv, Fits, NEW s \in Syncer, NEW r \in todo[s], ApplyNext(s, r)
  PROVE  Fits'
<1> DEFINE e == r.row.event
           i == r.id
           day == Told(s, e)
<1>1. /\ UNCHANGED <<outside, pc, online, job, copy, goal, answer, changes>>
      /\ todo' = [todo EXCEPT ![s] = @ \ {r}] /\ pc[s] = "apply" /\ s \in Mover
  BY DEF ApplyNext, At, Mover
<1>2. /\ todo'[s] = todo[s] \ {r} /\ \A u \in Syncer : u # s => todo'[u] = todo[u]
  BY <1>1, MoverFacts
<1>3. /\ i \in DOMAIN plans /\ plans[i] \in Plan /\ e = plans[i].event /\ e \in Event
      /\ plans[i].google
      /\ \A x \in todo[s] : x.id \in DOMAIN plans
  <2>1. \A x \in todo[s] : x.id \in DOMAIN plans
    BY DEF Inv, TypeOK
  <2>2. Reads(r) /\ r.row.google
    BY <1>1 DEF Fits, SyncFits
  <2> QED
    BY <2>1, <2>2, PlansFacts DEF Reads, Plan
<1>4. IF Reports(s, e) THEN ApplyEvent(r, day) ELSE plans' = plans
  BY DEF ApplyNext, Reports, Told
<1>5. day = Seen(e) \/ (e \in since[s] /\ e \in unseen) \/ ~Reports(s, e)
  BY <1>1, <1>3 DEF Fits, SyncFits
<1>6. Reports(s, e) => day \in Days
  <2>1. changes[s] \in Answers
    BY ChangesFacts
  <2>2. PICK some \in SUBSET Event : changes[s].events \in [some -> Days]
    BY <2>1 DEF Answers
  <2> QED
    BY <2>2 DEF Told, Days
<1>7. ~SameSync(s)
  BY <1>2 DEF SameSync
<1>8. /\ OthersFit
      /\ \A j \in Standing' : \/ InPlace(j)' \/ plans'[j].event \in since[s]
                              \/ /\ j \in Standing /\ plans'[j] = plans[j]
                                 /\ j = i => ~(Reports(s, e) /\ Differs(r.row, day))
  <2>1. CASE Reports(s, e) /\ Differs(r.row, day)
    <3>1. plans' = [plans EXCEPT ![i] = Decides(plans[i], day)]
      BY <1>4, <2>1 DEF ApplyEvent
    <3>2. \A u \in Syncer : u = s
      BY DEF OneAtATime
    <3>3. OthersFit /\ plans'[i] = Decides(plans[i], day)
      BY <1>1, <1>3, <1>5, <1>6, <2>1, <3>1, <3>2, DecidesFits
    <3>4. i \in Standing' => InPlace(i)' \/ plans'[i].event \in since[s]
      <4>1. plans'[i].event = e
        BY <1>3, <3>3 DEF Decides, Plan
      <4>2. day = Seen(e) /\ plans'[i].live => plans'[i].start = google[e]
        BY <1>3, <3>3, CalendarAssumption DEF Decides, Plan, Seen, OnGoogle
      <4> QED
        BY <1>1, <1>5, <2>1, <4>1, <4>2 DEF Standing, InPlace, outside
    <3>5. \A j \in Standing' : j # i => j \in Standing /\ plans'[j] = plans[j]
      BY <3>1, PlansFacts DEF Standing
    <3> QED
      BY <3>3, <3>4, <3>5
  <2>2. CASE ~(Reports(s, e) /\ Differs(r.row, day))
    <3>1. plans' = plans
      BY <1>4, <2>2 DEF ApplyEvent
    <3>2. OthersFit
      BY <1>1, <3>1, StillFits DEF outside, Fits, WorldFits, InStep
    <3> QED
      BY <2>2, <3>1, <3>2 DEF Standing
  <2> QED
    BY <2>1, <2>2
<1>9. MoverFits(s)'
  BY <1>1, <1>8 DEF OthersFit, SameMover
<1>10. SyncFits(s)'
  <2>1. \A x \in todo'[s] : Reads(x)' /\ connected' /\ x.row.google
    BY <1>1, <1>2, <1>3, <1>8 DEF Fits, SyncFits, OthersFit, outside
  <2>2. /\ since'[s] \subseteq unseen'
        /\ \A f \in Event : Reports(s, f)' /\ f \notin since'[s] => Told(s, f)' = Seen(f)'
    BY <1>1 DEF Fits, SyncFits, Reports, Told, Seen, OnGoogle, outside
  <2>3. ASSUME NEW j \in Standing' PROVE InPlace(j)' \/ Awaits(s, j)'
    <3>1. CASE InPlace(j)' \/ plans'[j].event \in since[s]
      BY <1>1, <3>1 DEF Awaits, outside
    <3>2. CASE /\ j \in Standing /\ plans'[j] = plans[j]
               /\ j = i => ~(Reports(s, e) /\ Differs(r.row, day))
      <4>1. InPlace(j) \/ Awaits(s, j)
        BY <1>1, <3>2 DEF Fits, SyncFits
      <4>2. CASE InPlace(j)
        BY <1>1, <3>2, <4>2 DEF InPlace, outside
      <4>3. CASE plans[j].event \in since[s]
        BY <1>1, <3>2, <4>3 DEF Awaits, outside
      <4>4. CASE /\ Reports(s, plans[j].event)
                 /\ \E x \in todo[s] : x.id = j /\ Differs(x.row, Told(s, plans[j].event))
        <5>1. PICK x \in todo[s] : x.id = j /\ Differs(x.row, Told(s, plans[j].event))
          BY <4>4
        <5>2. x # r
          BY <1>3, <3>2, <4>4, <5>1
        <5>3. x \in todo'[s]
          BY <1>2, <5>2
        <5> QED
          BY <1>1, <3>2, <4>4, <5>1, <5>3 DEF Awaits, Reports, Told
      <4> QED
        BY <4>1, <4>2, <4>3, <4>4 DEF Awaits
    <3> QED
      BY <1>8, <3>1, <3>2
  <2> QED
    BY <1>1, <2>1, <2>2, <2>3 DEF SyncFits
<1> QED
  BY <1>1, <1>2, <1>8, <1>9, <1>10, SyncMoves

\* With all gone through, what is out of step changed since it was told.
LEMMA SaveTokenFits ==
  ASSUME OneAtATime, Inv, Fits, NEW s \in Syncer, SaveToken(s)
  PROVE  Fits'
<1>1. /\ UNCHANGED <<connected, google, plans, online, job, copy, goal, answer, todo>>
      /\ unseen' = since[s] /\ pc[s] = "apply" /\ todo[s] = {} /\ s \in Mover
      /\ since' = [since EXCEPT ![s] = {}] /\ changes' = [changes EXCEPT ![s] = NoChanges]
      /\ pc' = [pc EXCEPT ![s] = "idle"]
  BY DEF SaveToken, GoTo, At, db, Mover
<1>2. /\ pc'[s] = "idle" /\ \A u \in Worker : u # s => pc'[u] = pc[u]
      /\ \A u \in Syncer : u # s => changes'[u] = changes[u]
  BY <1>1, PcFacts, MoverFacts DEF Worker
<1>3. InStep'
  BY <1>1 DEF Fits, SyncFits, Awaits, InStep, Standing, InPlace
<1>4. \A u \in Syncer : ~SameSync(u)
  BY <1>1, <1>2 DEF OneAtATime, SameSync
<1>5. OthersFit
  BY <1>1, <1>3, <1>4, StillFits
<1>6. MoverFits(s)'
  BY <1>2 DEF MoverFits, Busy
<1>7. SyncFits(s)'
  BY <1>1, <1>2 DEF SyncFits
<1> QED
  BY <1>1, <1>2, <1>5, <1>6, <1>7, SyncMoves

-----------------------------------------------------------------------------
\* What goes wrong, and what people do.

LEMMA LostFits ==
  ASSUME OneAtATime, Inv, Fits, NEW w \in Worker, Lost(w)
  PROVE  Fits'
<1>1. /\ UNCHANGED <<plans, held>> /\ pc' = [pc EXCEPT ![w] = "out"]
      /\ pc[w] \notin {"idle", "over", "out"}
  BY DEF Lost, GoTo, db
<1>2. pc'[w] = "out" /\ \A u \in Worker : u # w => pc'[u] = pc[u]
  BY <1>1, PcFacts
<1>3. /\ pc[w] = "insert" => w \in Maker
      /\ pc[w] = "put" => w \in Mover
      /\ pc[w] = "write" => w \in Changer
  BY DEF Inv, Places, Worker, Mover, Fits, SyncFits
<1>4. OthersFit /\ connected' = connected
  <2>1. CASE UNCHANGED outside
    BY <1>1, <2>1, StillFits DEF outside, Fits, WorldFits, InStep
  <2>2. CASE pc[w] = "insert" /\ Put(job[w].event, Asked)
    BY <1>1, <1>3, <2>2, PutAskedFits DEF Put, Touch, outside
  <2>3. CASE pc[w] = "put" /\ Put(copy[w].row.event, copy[w].row.start)
    BY <1>1, <1>2, <1>3, <2>3, PutPlanFits DEF Put, Touch, outside
  <2>4. CASE pc[w] = "write" /\ Delete(copy[w].row.event)
    <3>1. \/ UNCHANGED outside
          \/ \E day \in Days : Touch(copy[w].row.event, day)
      BY <2>4 DEF Delete, Days
    <3> QED
      BY <1>1, <1>2, <1>3, <2>4, <3>1, WrittenFits DEF Touch, outside
  <2>5. CASE pc[w] = "write" /\ goal[w] \in Day /\ Touch(copy[w].row.event, goal[w])
    <3>1. \E day \in Days : Touch(copy[w].row.event, day)
      BY <2>5 DEF Days
    <3> QED
      BY <1>1, <1>2, <1>3, <2>5, <3>1, WrittenFits DEF Touch
  <2> QED
    BY <2>1, <2>2, <2>3, <2>4, <2>5 DEF Lost, At
<1>5. CASE w \in Maker
  <2>1. MakerFits(w)'
    BY <1>1, <1>2, <1>4, <1>5 DEF Fits, MakerFits, held
  <2> QED
    BY <1>1, <1>2, <1>4, <1>5, <2>1, MakerMoves DEF held
<1>6. CASE w \in Mover
  <2>1. MoverFits(w)' /\ ChangerFits(w)'
    BY <1>2 DEF MoverFits, ChangerFits, Busy
  <2>2. w \in Syncer => SyncFits(w)'
    BY <1>1, <1>2, <1>4 DEF Fits, SyncFits, OthersFit, Inv, TypeOK, held
  <2> QED
    BY <1>1, <1>2, <1>4, <1>6, <2>1, <2>2, MoverMoves DEF held
<1> QED
  BY <1>5, <1>6 DEF Worker

LEMMA DropFits ==
  ASSUME Inv, Fits, NEW w \in Mover, Drop(w)
  PROVE  Fits'
<1>1. /\ UNCHANGED <<connected, google, known, unseen, plans, job>>
      /\ pc' = [pc EXCEPT ![w] = IF w \in Changer THEN "over" ELSE "idle"]
      /\ copy' = [copy EXCEPT ![w] = NoRow]
      /\ online' = [c \in DOMAIN online |-> online[c] /\ c # w]
      /\ goal' = [c \in Changer |-> IF c = w THEN None ELSE goal[c]]
      /\ answer' = [c \in Changer |-> IF c = w THEN "never" ELSE answer[c]]
      /\ todo' = [s \in Syncer |-> IF s = w THEN {} ELSE todo[s]]
      /\ changes' = [s \in Syncer |-> IF s = w THEN NoChanges ELSE changes[s]]
      /\ since' = [s \in Syncer |-> IF s = w THEN {} ELSE since[s]]
      /\ pc[w] = "out"
  BY DEF Drop, GoTo, At, db
<1>2. /\ pc'[w] \in {"over", "idle"} /\ \A u \in Worker : u # w => pc'[u] = pc[u]
      /\ \A u \in Mover : u # w => copy'[u] = copy[u]
      /\ \A c \in Changer : c # w => goal'[c] = goal[c] /\ answer'[c] = answer[c]
      /\ \A s \in Syncer : s # w => todo'[s] = todo[s] /\ changes'[s] = changes[s]
      /\ w \in Syncer => todo'[w] = {}
  BY <1>1, PcFacts, MoverFacts DEF Worker
<1>3. \A m \in Maker : online'[m] = online[m]
  <2>1. online \in [Maker \cup Changer -> BOOLEAN] /\ w \notin Maker
    BY CalendarAssumption DEF Inv, Shapes
  <2> QED
    BY <1>1, <2>1
<1>4. OthersFit
  <2>1. \A s \in Syncer : SameSync(s) => since'[s] = since[s]
    BY <1>1, <1>2 DEF SameSync
  <2> QED
    BY <1>1, <2>1, StillFits DEF Fits, WorldFits, InStep
<1>5. MoverFits(w)' /\ ChangerFits(w)' /\ (w \in Syncer => SyncFits(w)')
  BY <1>2 DEF MoverFits, ChangerFits, SyncFits, Busy
<1> QED
  BY <1>1, <1>2, <1>3, <1>4, <1>5, MoverMoves

LEMMA StopFits ==
  ASSUME Inv, Fits, Stop
  PROVE  Fits'
<1>1. /\ UNCHANGED <<outside, plans, held>>
      /\ \A w \in Worker : pc'[w] = pc[w] \/ pc'[w] = "out"
  BY DEF Stop, db
<1>2. OthersFit
  BY <1>1, StillFits DEF outside, Fits, WorldFits, InStep
<1>3. \A m \in Maker : MakerFits(m)'
  <2> SUFFICES ASSUME NEW m \in Maker, pc'[m] = "out" PROVE MakerFits(m)'
    BY <1>1, <1>2 DEF OthersFit, SameMaker, Worker, held
  <2> QED
    BY <1>1 DEF Fits, MakerFits, outside, held
<1>4. \A w \in Mover : MoverFits(w)'
  <2> SUFFICES ASSUME NEW w \in Mover, pc'[w] = "out" PROVE MoverFits(w)'
    BY <1>1, <1>2 DEF OthersFit, SameMover, Worker, held
  <2> QED
    BY DEF MoverFits, Busy
<1>5. \A c \in Changer : ChangerFits(c)'
  <2> SUFFICES ASSUME NEW c \in Changer, pc'[c] = "out" PROVE ChangerFits(c)'
    BY <1>1, <1>2 DEF OthersFit, SameChanger, SameMover, Worker, Mover, held
  <2> QED
    BY DEF ChangerFits
<1>6. \A s \in Syncer : SyncFits(s)'
  <2> SUFFICES ASSUME NEW s \in Syncer, pc'[s] = "out" PROVE SyncFits(s)'
    BY <1>1, <1>2 DEF OthersFit, SameSync, Worker, Mover, held
  <2> QED
    BY <1>1 DEF Fits, SyncFits, Reads, outside, held
<1> QED
  BY <1>2, <1>3, <1>4, <1>5, <1>6 DEF OthersFit, Fits

\* People touch what a plan follows, and no call is changing.
LEMMA ByHandFits ==
  ASSUME OneAtATime, Inv, Fits, NEW e \in Event, NEW day \in Days, ByHand(e, day)
  PROVE  Fits'
<1>1. PICK i \in Holding(e) : plans[i].google /\ \A c \in Changer : copy[c].id # i
  BY DEF ByHand, OneAtATime
<1>2. i \in DOMAIN plans /\ plans[i].event = e /\ connected
  BY <1>1 DEF Holding, Fits, WorldFits
<1>3. UNCHANGED <<plans, pc, held>> /\ Touch(e, day)
  BY DEF ByHand, db
<1>4. \A j \in DOMAIN plans : plans[j].event = e => plans[j].google
  BY <1>1, <1>2 DEF Inv, OnePlan
<1>5. ASSUME NEW c \in Changer, pc[c] \in {"refreshed", "store"}
      PROVE  copy[c].row.event # e
  <2>1. copy[c].id \in DOMAIN plans /\ Reads(copy[c])
    BY <1>5, MoverFacts DEF Fits, MoverFits, Mover, Busy
  <2> QED
    BY <1>1, <1>2, <2>1 DEF Inv, OnePlan, Reads
<1>6. OthersFit
  BY <1>1, <1>2, <1>3, <1>4, <1>5, TouchFits
<1> QED
  BY <1>3, <1>6, NobodyMoves

LEMMA ForgetFits ==
  ASSUME Inv, Fits, Forget
  PROVE  Fits'
<1>1. UNCHANGED <<connected, google, unseen, since, plans, pc, held>> /\ InStep'
  BY DEF Forget, db, InStep
<1>2. OthersFit
  BY <1>1, StillFits
<1> QED
  BY <1>1, <1>2, NobodyMoves

\* Nothing is on Google before there is a calendar, and no call is about to be.
LEMMA ConnectFits ==
  ASSUME OneAtATime, Inv, Fits, Connect
  PROVE  Fits'
<1>1. /\ ~connected /\ connected' /\ UNCHANGED <<google, known, unseen, since, plans, pc, held>>
      /\ \A c \in Changer : copy[c] = NoRow
  BY DEF Connect, OneAtATime, db
<1>2. \A w \in Mover : pc[w] \notin Busy
  <2> SUFFICES ASSUME NEW w \in Mover, pc[w] \in Busy PROVE FALSE
    OBVIOUS
  <2>1. CASE w \in Changer
    <3>1. copy[w].id \in DOMAIN plans /\ copy[w].id = 0
      BY <1>1, <2>1, MoverFacts DEF NoRow
    <3> QED
      BY <3>1, PlansFacts
  <2>2. CASE w \in Syncer
    BY <1>1, <2>2 DEF Fits, SyncFits, MoverFits, Busy
  <2> QED
    BY <2>1, <2>2 DEF Mover
<1>3. WorldFits'
  BY <1>1 DEF Fits, WorldFits, Follows, Holding, InStep
<1>4. \A m \in Maker : MakerFits(m)'
  BY <1>1 DEF Fits, MakerFits, held
<1>5. \A w \in Mover : MoverFits(w)'
  BY <1>1, <1>2 DEF MoverFits, Busy
<1>6. \A c \in Changer : ChangerFits(c)'
  BY <1>1, <1>2 DEF ChangerFits, Busy, Mover
<1>7. \A s \in Syncer : SyncFits(s)'
  <2> SUFFICES ASSUME NEW s \in Syncer PROVE SyncFits(s)'
    OBVIOUS
  <2>1. todo[s] = {} /\ SyncFits(s)
    BY <1>1 DEF Fits, SyncFits
  <2>2. Standing = {} /\ Standing' = {}
    BY <1>1 DEF Fits, WorldFits, Standing
  <2> QED
    BY <1>1, <2>1, <2>2 DEF SyncFits, Reports, Told, Seen, OnGoogle, held
<1> QED
  BY <1>3, <1>4, <1>5, <1>6, <1>7 DEF Fits

LEMMA InitFits == Init => Fits
<1> SUFFICES ASSUME Init PROVE Fits
  OBVIOUS
<1>1. WorldFits
  BY DEF Init, WorldFits, Holding, InStep
<1>2. \A w \in Worker : pc[w] \in {"idle", "over"}
  BY DEF Init
<1>3. \A m \in Maker : MakerFits(m)
  BY <1>2 DEF Init, MakerFits, Worker
<1>4. \A w \in Mover : MoverFits(w)
  BY <1>2 DEF MoverFits, Busy, Worker
<1>5. \A c \in Changer : ChangerFits(c)
  BY <1>2 DEF ChangerFits, Worker, Mover
<1>6. \A s \in Syncer : SyncFits(s)
  BY <1>2 DEF Init, SyncFits, Worker, Mover
<1> QED
  BY <1>1, <1>3, <1>4, <1>5, <1>6 DEF Fits

LEMMA NextFits ==
  ASSUME OneAtATime, Inv, Fits, [Next]_vars
  PROVE  Fits'
<1>1. ASSUME NEW m \in Maker, Make(m) PROVE Fits'
  BY <1>1, ReserveFits, LookUpFits, InsertFits, KeepFits, AnswerFits DEF Make
<1>2. ASSUME NEW w \in Mover, Adopt(w) PROVE Fits'
  BY <1>2, AdoptLookFits, AdoptPutFits, AdoptKeepFits DEF Adopt
<1>3. ASSUME NEW c \in Changer, Change(c) PROVE Fits'
  BY <1>2, <1>3, RefreshFits, ApplyRefreshFits, WriteFits, StoreFits, DropFits DEF Change, Mover
<1>4. ASSUME NEW s \in Syncer, Sync(s) PROVE Fits'
  BY <1>2, <1>4, SyncStartFits, ReadChangesFits, ListPlansFits, SaveTokenFits, DropFits,
     AdoptNextFits, ApplyNextFits DEF Sync, Mover
<1>5. CASE \E c \in Changer, i \in DOMAIN plans, want \in Day \cup {"cancel", "delete"} :
             Target(c, i, want)
  BY <1>5, TargetFits
<1>6. CASE \E w \in Worker : Lost(w)
  BY <1>6, LostFits
<1>7. CASE \E e \in Event, day \in Day \cup {"gone"} : ByHand(e, day)
  BY <1>7, ByHandFits DEF Days
<1>8. CASE UNCHANGED vars
  <2>1. UNCHANGED <<outside, plans, pc, held>>
    BY <1>8 DEF vars, db
  <2>2. OthersFit
    BY <2>1, StillFits DEF outside, Fits, WorldFits, InStep
  <2> QED
    BY <2>1, <2>2, NobodyMoves
<1> QED
  BY <1>1, <1>3, <1>4, <1>5, <1>6, <1>7, <1>8, StopFits, ForgetFits, ConnectFits DEF Next

\* No change in Google slips past the sync token: a live plan that is not on its
\* event's day is one the next sync is told of, in the middle of a call or a sync
\* and after any that was lost or stopped, as long as changes are made one at a
\* time (calendar_sync.sync_plans saves the token that came with the answer, after
\* the last plan is through; gcal writes to Google before the plan).
THEOREM InStepAlways ==
  ASSUME OneAtATime
  PROVE  Spec => []InStep
<1>1. Init => Inv /\ Fits
  BY InitInv, InitFits
<1>2. Inv /\ Fits /\ [Next]_vars => (Inv /\ Fits)'
  BY NextInv, NextFits
<1>3. Fits => InStep
  BY DEF Fits, WorldFits
<1> QED
  BY <1>1, <1>2, <1>3, PTL DEF Spec
=============================================================================
