----------------------------- MODULE Reminders -----------------------------
(***************************************************************************)
(* Things to do and their reminders: the rows that task_service.update     *)
(* keeps, the minute job that turns a due reminder into a message, the     *)
(* rounds of a task that repeats, and the plan a reminder may be tied to.  *)
(* One action is one transaction.  Several people edit at once: chat and   *)
(* buttons as things are, forms and undo at the revision they were drawn   *)
(* at.                                                                     *)
(*                                                                         *)
(* Time counts days, a reminder's hour being everybody's.  The claim under *)
(* which a message is sent, and its check, are one step (see Outbox).      *)
(***************************************************************************)
EXTENDS Naturals, FiniteSets, Sequences

CONSTANTS
  Task,        \* things to do
  Ahead,       \* how long before the plan a task tied to it reminds
  Every,       \* repeat_every, of every repeat
  Request,     \* what people ask for: see RequestShape
  Form,        \* pages and undos, drawn now and sent later
  Horizon,     \* bound: the last day
  MaxRows,     \* bound: reminders of one task
  MaxRevision  \* bound: changes of one task

None == 0

RequestShape ==
  [status : {"same", "open", "done", "cancelled"},
   at     : {None} \cup 1..Horizon,  \* a new reminder
   clear  : BOOLEAN,                 \* or none
   repeat : {"same", "stop", "schedule", "done"}]

ASSUME RemindersAssumption ==
  /\ Ahead \in Nat /\ Every \in Nat \ {0}
  /\ Horizon \in Nat \ {0} /\ MaxRows \in Nat /\ MaxRevision \in Nat
  /\ Request \subseteq {r \in RequestShape : r.clear => r.at = None}

VARIABLES
  now,
  status,    \* tasks.status, "absent" before the row
  revision,  \* tasks.revision
  rule,      \* tasks.repeat_from and repeat_anchor
  rows,      \* the reminders of a task, oldest first
  sending,   \* those whose message is claimed
  tied,      \* the tasks made for the plan (tasks.plan_id)
  drawn,     \* the task a form shows, at which revision
  start,     \* plans.start, None once the plan is cancelled
  synced     \* whether Google was looked at since the plan last moved

tasks == <<status, revision, rule, rows, tied>>
vars == <<now, tasks, sending, drawn, start, synced>>

Once == [from |-> "once", anchor |-> None]
Rules == {Once} \cup [from : {"schedule", "done"}, anchor : Nat \ {None}]
Blank == [task |-> None, revision |-> 0]

\* A reminder is live until cancelled_at is set; message says how far it went.
Row == [at : Nat, live : BOOLEAN, message : {"none", "queued", "delivered"}]
Waiting(at) == [at |-> at, live |-> TRUE, message |-> "none"]

Live(list) == {i \in DOMAIN list : list[i].live}
Pending(list) == {i \in Live(list) : list[i].message = "none"}
InFlight(t) == \E i \in Live(rows[t]) : <<t, i>> \in sending

\* tasks.get: the newest live reminder, sent or not.
Current(list) ==
  IF Live(list) = {} THEN None
  ELSE list[CHOOSE i \in Live(list) : \A j \in Live(list) : j <= i].at

CancelReminders(list) == [i \in DOMAIN list |-> [list[i] EXCEPT !.live = FALSE]]

-----------------------------------------------------------------------------
\* When it comes round.

\* (slip) the round that has come, once more
NextTimeOrNow(anchor, after) ==
  LET passed == after - anchor
      rounds == IF passed \div Every = 0 THEN 1 ELSE passed \div Every
  IN IF anchor >= after THEN anchor
     ELSE IF anchor + rounds * Every >= after THEN anchor + rounds * Every
     ELSE anchor + (rounds + 1) * Every

NextTime(anchor, after) ==
  LET passed == after - anchor
      rounds == IF passed \div Every = 0 THEN 1 ELSE passed \div Every
  IN IF anchor > after THEN anchor
     ELSE IF anchor + rounds * Every > after THEN anchor + rounds * Every
     ELSE anchor + (rounds + 1) * Every

AfterDone == now + Every

\* (slip) a next round whatever waits
AddNextAnyway(list, r, after) == Append(list, Waiting(NextTime(r.anchor, after)))
AddNext(list, r, after) ==
  IF Pending(list) # {} THEN list
  ELSE Append(list, Waiting(NextTime(r.anchor, after)))

-----------------------------------------------------------------------------
Init ==
  /\ now = 1
  /\ status = [t \in Task |-> "absent"]
  /\ revision = [t \in Task |-> 1]
  /\ rule = [t \in Task |-> Once]
  /\ rows = [t \in Task |-> <<>>]
  /\ sending = {}
  /\ tied = {}
  /\ drawn = [f \in Form |-> Blank]
  /\ start \in 2..Horizon
  /\ synced = TRUE

\* Bounds of the model.
Fits ==
  \A t \in Task : Len(rows'[t]) <= MaxRows /\ revision'[t] <= MaxRevision

\* create: a task that repeats needs its first time.
Create(t, at, from) ==
  /\ status[t] = "absent"
  /\ at = None \/ at > now
  /\ from # "once" => at # None
  /\ status' = [status EXCEPT ![t] = "open"]
  /\ rule' = [rule EXCEPT ![t] =
                IF from = "once" THEN Once ELSE [from |-> from, anchor |-> at]]
  /\ rows' = [rows EXCEPT ![t] = IF at = None THEN <<>> ELSE <<Waiting(at)>>]
  /\ UNCHANGED <<now, revision, sending, tied, drawn, start, synced>>

\* The same for a reminder set before a plan (gcal._remind).
RemindBefore(t) ==
  /\ status[t] = "absent" /\ start # None
  /\ start > Ahead + now
  /\ status' = [status EXCEPT ![t] = "open"]
  /\ rows' = [rows EXCEPT ![t] = <<Waiting(start - Ahead)>>]
  /\ tied' = tied \cup {t}
  /\ UNCHANGED <<now, revision, rule, sending, drawn, start, synced>>

Draw(f, t) ==
  /\ drawn[f] = Blank /\ status[t] # "absent"
  /\ drawn' = [drawn EXCEPT ![f] = [task |-> t, revision |-> revision[t]]]
  /\ UNCHANGED <<now, tasks, sending, start, synced>>

-----------------------------------------------------------------------------
\* update, whole.

\* The repeat after the change; the new one counts from the reminder.
RuleAfter(t, r) ==
  CASE r.repeat = "same" -> rule[t]
    [] r.repeat = "stop" -> Once
    [] OTHER -> [from |-> r.repeat,
                 anchor |-> IF r.at # None THEN r.at ELSE Current(rows[t])]

\* Done on a task that repeats is this time round.
RoundDone(t, r) == r.status = "done" /\ RuleAfter(t, r).from # "once"
StatusAfter(t, r) ==
  IF RoundDone(t, r) THEN "open"
  ELSE IF r.status = "same" THEN status[t] ELSE r.status

\* A reminder as it is now is left alone; one counted from done is set.
NewTime(t, r) ==
  IF RoundDone(t, r) /\ r.at = None /\ RuleAfter(t, r).from = "done"
  THEN AfterDone ELSE r.at
Replaces(t, r) ==
  \/ r.clear
  \/ r.at # None /\ r.at # Current(rows[t])
  \/ RoundDone(t, r) /\ r.at = None /\ RuleAfter(t, r).from = "done"

RowsAfter(t, r) ==
  LET open == StatusAfter(t, r) = "open"
      kept == IF Replaces(t, r) \/ ~open THEN CancelReminders(rows[t])
              ELSE rows[t]
      set == IF Replaces(t, r) /\ open /\ NewTime(t, r) # None
             THEN Append(kept, Waiting(NewTime(t, r))) ELSE kept
  IN IF RoundDone(t, r) /\ RuleAfter(t, r).from = "schedule"
     THEN AddNext(set, RuleAfter(t, r), now) ELSE set

\* (slip) a repeat is taken without a first time
AcceptedUnanchored(t, r) ==
  /\ r.at # None => r.at > now /\ StatusAfter(t, r) = "open"
  /\ ~InFlight(t)

\* (slip) an edit is taken while its reminder goes
AcceptedInFlight(t, r) ==
  /\ r.at # None => r.at > now /\ StatusAfter(t, r) = "open"
  /\ RuleAfter(t, r) = Once \/ RuleAfter(t, r).anchor # None

\* What is refused: a repeat with no first time, a reminder on a task that is
\* not open, an edit while a reminder goes.
Accepted(t, r) ==
  /\ r.at # None => r.at > now /\ StatusAfter(t, r) = "open"
  /\ RuleAfter(t, r) = Once \/ RuleAfter(t, r).anchor # None
  /\ ~InFlight(t)

Update(t, r) ==
  /\ status[t] # "absent"
  /\ Accepted(t, r)
  /\ status' = [status EXCEPT ![t] = StatusAfter(t, r)]
  /\ rule' = [rule EXCEPT ![t] = RuleAfter(t, r)]
  /\ rows' = [rows EXCEPT ![t] = RowsAfter(t, r)]
  /\ revision' = [revision EXCEPT ![t] = @ + 1]
  /\ Fits
  /\ UNCHANGED <<now, sending, tied, start, synced>>

Ask(t, r) == Update(t, r) /\ UNCHANGED drawn

Save(f, r) ==
  /\ drawn[f] # Blank
  /\ revision[drawn[f].task] = drawn[f].revision
  /\ Update(drawn[f].task, r)
  /\ drawn' = [drawn EXCEPT ![f] = Blank]

Refuse(f) ==
  /\ drawn[f] # Blank
  /\ revision[drawn[f].task] # drawn[f].revision
  /\ drawn' = [drawn EXCEPT ![f] = Blank]
  /\ UNCHANGED <<now, tasks, sending, start, synced>>

-----------------------------------------------------------------------------
\* The minute job: what is tied to a plan that is over is done, what is due is
\* queued, and a scheduled task gets its next round; all one transaction.

Over(t) == t \in tied /\ status[t] = "open" /\ start # None /\ start < now

Due(t) == {i \in Pending(rows[t]) : rows[t][i].at <= now}

Later(i, j) == IF i > j THEN i ELSE j

\* (slip) the round after the one that was due, passed or not
QueuedFromDue(t) ==
  LET i == CHOOSE i \in Due(t) : TRUE
      attached == [rows[t] EXCEPT ![i].message = "queued"]
  IN IF rule[t].from = "schedule"
     THEN AddNext(attached, rule[t], rows[t][i].at) ELSE attached

Queued(t) ==
  LET i == CHOOSE i \in Due(t) : TRUE
      attached == [rows[t] EXCEPT ![i].message = "queued"]
  IN IF rule[t].from = "schedule"
     THEN AddNext(attached, rule[t], Later(now, rows[t][i].at)) ELSE attached

RunReminders ==
  /\ \E t \in Task : Over(t) \/ (status[t] = "open" /\ Due(t) # {})
  /\ status' = [t \in Task |-> IF Over(t) THEN "done" ELSE status[t]]
  /\ revision' = [t \in Task |-> IF Over(t) THEN revision[t] + 1 ELSE revision[t]]
  /\ rows' = [t \in Task |->
               IF Over(t) THEN CancelReminders(rows[t])
               ELSE IF status[t] = "open" /\ Due(t) # {} THEN Queued(t)
               ELSE rows[t]]
  /\ Fits
  /\ UNCHANGED <<now, rule, sending, tied, drawn, start, synced>>

\* deliver: claimed and looked at, then sent and marked, or left for the retry.
BeginSend(t, i) ==
  /\ i \in Live(rows[t]) /\ rows[t][i].message = "queued"
  /\ <<t, i>> \notin sending
  /\ sending' = sending \cup {<<t, i>>}
  /\ UNCHANGED <<now, tasks, drawn, start, synced>>

EndSend(t, i, went) ==
  /\ <<t, i>> \in sending
  /\ sending' = sending \ {<<t, i>>}
  /\ rows' = IF went THEN [rows EXCEPT ![t][i].message = "delivered"] ELSE rows
  /\ UNCHANGED <<now, status, revision, rule, tied, drawn, start, synced>>

-----------------------------------------------------------------------------
\* The plan (plan_service.changed), moved by the tools or in Google.

\* Going out this minute: left to the next sync.
Linked == {t \in tied : status[t] = "open"}
Moved(t) == t \in Linked /\ ~InFlight(t)

\* (slip) a form drawn before the plan moved still saves
MovePlanUnseen(s) ==
  LET kept == s > Ahead + now IN
  /\ start # None /\ s # start
  /\ start' = s
  /\ synced' = FALSE
  /\ rows' = [t \in Task |->
               IF ~Moved(t) THEN rows[t]
               ELSE IF kept THEN Append(CancelReminders(rows[t]), Waiting(s - Ahead))
               ELSE CancelReminders(rows[t])]
  /\ status' = [t \in Task |-> IF Moved(t) /\ ~kept THEN "cancelled" ELSE status[t]]
  /\ UNCHANGED <<now, revision, rule, sending, tied, drawn>>
  /\ Fits

MovePlan(s) ==
  LET kept == s > Ahead + now IN
  /\ start # None /\ s # start
  /\ start' = s
  /\ synced' = FALSE
  /\ rows' = [t \in Task |->
               IF ~Moved(t) THEN rows[t]
               ELSE IF kept THEN Append(CancelReminders(rows[t]), Waiting(s - Ahead))
               ELSE CancelReminders(rows[t])]
  /\ status' = [t \in Task |-> IF Moved(t) /\ ~kept THEN "cancelled" ELSE status[t]]
  /\ revision' = [t \in Task |-> IF Moved(t) THEN revision[t] + 1 ELSE revision[t]]
  /\ Fits
  /\ UNCHANGED <<now, rule, sending, tied, drawn>>

CancelPlan ==
  /\ start # None
  /\ start' = None
  /\ rows' = [t \in Task |-> IF t \in Linked THEN CancelReminders(rows[t]) ELSE rows[t]]
  /\ status' = [t \in Task |-> IF t \in Linked THEN "cancelled" ELSE status[t]]
  /\ revision' = [t \in Task |-> IF t \in Linked THEN revision[t] + 1 ELSE revision[t]]
  /\ Fits
  /\ UNCHANGED <<now, rule, sending, tied, drawn, synced>>

\* apply_event, for an event that is as the plan has it: nothing to do.
Sync ==
  /\ start # None /\ ~synced
  /\ synced' = TRUE
  /\ UNCHANGED <<now, tasks, sending, drawn, start>>

Tick ==
  /\ now < Horizon
  /\ now' = now + 1
  /\ UNCHANGED <<tasks, sending, drawn, start, synced>>

-----------------------------------------------------------------------------
Next ==
  \/ \E t \in Task, at \in {None} \cup 1..Horizon, from \in {"once", "schedule", "done"} :
       Create(t, at, from)
  \/ \E t \in Task : RemindBefore(t)
  \/ \E f \in Form, t \in Task : Draw(f, t)
  \/ \E t \in Task, r \in Request : Ask(t, r)
  \/ \E f \in Form, r \in Request : Save(f, r)
  \/ \E f \in Form : Refuse(f)
  \/ RunReminders
  \/ \E t \in Task, i \in 1..MaxRows : BeginSend(t, i)
  \/ \E t \in Task, i \in 1..MaxRows, went \in BOOLEAN : EndSend(t, i, went)
  \/ \E s \in 1..Horizon : MovePlan(s)
  \/ CancelPlan \/ Sync \/ Tick

Spec == Init /\ [][Next]_vars

-----------------------------------------------------------------------------
\* The types, and that a task that repeats has the time it is counted from.
TypeOK ==
  /\ now \in 1..Horizon
  /\ status \in [Task -> {"absent", "open", "done", "cancelled"}]
  /\ revision \in [Task -> Nat \ {0}]
  /\ rule \in [Task -> Rules]
  /\ rows \in [Task -> Seq(Row)]
  /\ tied \subseteq Task
  /\ sending \subseteq Task \X Nat
  /\ drawn \in [Form -> [task : Task \cup {None}, revision : Nat]]
  /\ start \in 0..Horizon
  /\ synced \in BOOLEAN

\* However people, the job and the plan interleave, one reminder at most waits
\* for a task: snoozes replace it and rounds are added only when none waits.
OnePending == \A t \in Task : Cardinality(Pending(rows[t])) <= 1

\* A moment is reminded of once: "the queuing never makes a reminder twice".
RemindedOnce ==
  \A t \in Task : \A i, j \in DOMAIN rows[t] :
    i # j /\ rows[t][i].message # "none" /\ rows[t][j].message # "none"
      => rows[t][i].at # rows[t][j].at

\* A task done or cancelled has nothing waiting and nothing queued.  Of a task
\* no plan was ever tied to, nothing is being sent either: what closes it is a
\* person's edit, refused while a reminder goes.  A plan called off, or over,
\* closes its tasks without asking (tasks._cancel), and what is being sent
\* then still goes.
ClosedIsQuiet ==
  \A t \in Task : status[t] # "open" =>
    /\ Live(rows[t]) = {}
    /\ t \notin tied => \A i \in DOMAIN rows[t] : <<t, i>> \notin sending

\* A stretch with the bot off ends in one late reminder, not a flood: a run of
\* the job leaves nothing due.
NoFlood ==
  [][RunReminders => \A t \in Task :
       status'[t] = "open" => \A i \in Pending(rows'[t]) : rows'[t][i].at > now]_vars

\* What a form shows of a task changes only with its revision, so a page drawn
\* before is refused; but for what time does, the job queueing what is due.
RevisionMoves ==
  [][\A t \in Task :
       \/ revision'[t] > revision[t]
       \/ status[t] = "absent"
       \/ /\ status'[t] = status[t] /\ rule'[t] = rule[t]
          /\ \A i \in DOMAIN rows[t] : rows'[t][i].live = rows[t][i].live]_vars

-----------------------------------------------------------------------------
\* What the repository says of the program, and the code does not keep.

\* "going out this minute; the next sync puts it right": once Google was looked
\* at again, a reminder before a plan is set for where the plan is.
InStepWithPlan ==
  \A t \in Linked :
    start # None /\ synced /\ ~InFlight(t) /\ start > Ahead + now
      => \E i \in Live(rows[t]) : rows[t][i].at = start - Ahead

=============================================================================
