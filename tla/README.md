# FamilyDB, verified

TLA+ models of the parts of FamilyDB where order, failure and concurrency decide whether it is
right, TLC runs that check them on small instances, and TLAPS proofs about them for every instance.
Paths below are relative to `src/familydb/` unless they start with `docs/`.

FamilyDB is a household's assistant: one service process (channels, web page, a pool of scheduled
jobs), a command line beside it, one SQLite database between them. Every write is a short
`BEGIN IMMEDIATE` transaction (`store/db.py`), so the models' atomic steps are transactions. The slow
things, asking a model and sending a message, happen between transactions and under no database lock.
What keeps them apart is claims written in rows, in-memory locks and holds, revisions, and the order
in which things are stored.

## Inventory

| Component | State | Operations | Interacts with | What is hard | Correct when |
|---|---|---|---|---|---|
| Message turns (`pipeline.py`, `delivery.lease`, `store/messages.py`, `jobs/retry_failed.py`) | inbound rows: status, give_up, retries, claim; chat locks per process; the workers | `handle_incoming`, `receive`/`answer_gathered`, `handle_synthetic`, `retry_message`, `db retry-failed --reset` | channels, gateway, holds, members | stored before claimed; lock, then lease, then read again; bursts folded; claims lapse; two processes; stops anywhere | one worker at a message, answered once, paid for a bounded number of times, always ends |
| Outgoing messages (`delivery.deliver`, `run_deliveries`) | outbound rows: delivered, cancelled, claim | deliver, sweep | every writer of messages; Telegram | send and mark are two steps | nothing swallowed, nothing repeated but for a loss |
| Holds (`voice.Holds`, `hand_over`, `release`) | in memory: message, text, until | hold, take, done, let_go, due | reminders job, turns, sweep | memory beside rows; forgotten by a restart | said one way or the other |
| Tasks and reminders (`task_service.py`, `store/tasks.py`, `jobs/reminders.py`) | task: status, revision, repeat; reminder rows and their messages | create, update, schedule_next, the minute job | forms, buttons, undo, chat, plans, delivery | stale forms; rounds, snoozes and ticks in any order; downtime; sends in flight | one reminder waits, none twice, none waits for what is closed |
| Plans and calendar (`plan_service.py`, `calendar_sync.py`, `tools/gcal.py`, `store/calendar_ops.py`) | plans, reserved event ids, the sync token, Google's events | create, change, cancel, sync, adopt | Google, ideas, reminders tied to plans | Google is asked between two transactions; answers lost; events moved by hand; two calls for one form | one event and one plan per request; plan and event in step; reminders where the plan is |
| Round a plan's day (`jobs/follow_ups.py`, `jobs/plan_checks.py`, `store/plans.py`) | when each plan was asked about and checked | follow-ups, plan checks; sync, list, one plan at a time | calendar, outcomes, outbox | scheduler, catch-up and a run by hand at once; plans that change after the list was read | said once a day it is put on, nobody forgotten |
| Spending (`agent/spending.py`, `agent/loop.py`, `store/calls.py`) | recorded calls, holds | admit, adjust, settle | every model call of every process | check and call are apart; midnight; crashes | limit passed by less than a call; no hold lost or leaked |
| Members (`family.py`, `store/members.py`, knocks, invites) | people, roles, channels | add, change, remove | turns, tasks, messages | switched off while being answered | nobody switched off is answered |
| Scheduler, other daily jobs (`jobs/`) | APScheduler, six threads, `max_instances=1`, coalescing | digest, morning, nudges, enrich, tidy | outbox, gateway | catching up after downtime | at most once a day each |
| Undo, buttons (`undo.py`, `buttons.py`) | the inverse and the undone mark of each tool call | claim_undo, look, inverse, release_undo | plans, ideas, lists, tasks | two presses at once; the record changed since; one that fails | once, a failed press can be repeated, no plan put back over an older change |
| Web form guard (`web/once.py`) | tokens in memory | claim, wait | every form | double posts, eviction | work done once |
| Web pages, settings, auth (`web/`) | sessions, settings rows | pages, edits | all services | stale pages | revision refused |
| Agent gateway, prompts, providers (`agent/`) | none of its own | one call | spending | errors, spares | abstracted to outcomes |
| Lookups, scouting, suggestions (`jobs/enrich.py`, `scouting/`, `suggest/`) | enrichment marks, finds | bounded batches | gateway, places | retries under a budget | bounded |
| Lists, wishes, memories, recipes, groceries | rows | single edits | tools | little | in step with the form |
| Alerts, push, model watch, doctor, export, upkeep | notes, subscriptions, reports | note, clear, send | delivery | repeats | at most twice a day |
| Channels (`channels/`) | Telegram's offset | receive, send | turns, outbox | the same update twice; lost answers | modelled as the environment |

PROJECT.json lists every component with its status, and every hazard with the line where it bites.

## Modules

| Module | Models | Theorems in |
|---|---|---|
| `MessageFate` | the abstract specification: what the family is promised about a message | |
| `MessageTurns` | a message from its arrival to its end; refines `MessageFate` (`KeepsPromise`) | `MessageTurnsProofs`, `MessageBurstProofs` |
| `Outbox` | a message of hers from its storing to its delivery | `OutboxProofs` |
| `Reminders` | tasks, their reminders, the minute job, one plan's reminders | `RemindersProofs` |
| `Calendar` | a plan and its event in Google: made, changed, followed | `CalendarProofs` |
| `PlanDays` | the question after a plan and the heads-up before it | `PlanDaysProofs` |
| `Undo` | taking back a change | `UndoProofs` |
| `Spending` | the day's limit | `SpendingProofs` |
| `MC...` | values for the constants, symmetry | |

The modules meet at what the code shares: a turn of `MessageTurns` commits the reply that `Outbox`
delivers and asks the models whose cost `Spending` holds; its tools are the requests of `Reminders`,
`Calendar` and `Undo`; `Calendar`'s syncs are one step in `PlanDays` and the plan that moves in
`Reminders`; what `PlanDays` and `Reminders` queue is what `Outbox` sends. They are checked one by one:
each takes of the others the steps they can make at its own tables, at any time.

Operators marked `(slip)` are mistakes a change of the code could make; no specification uses them.
Each property is shown to catch one.

### MessageTurns

A worker (`pc`, `job`, `mode`) is a thread in `_handle`, `receive`/`answer_gathered`, `handle_synthetic`
or `retry_message`. It resolves the sender and stores the message (`StoreInbound`; the unique index
refuses a second copy, `ArrivedTwice`); a gathered one is held in a second transaction. It takes the
chat's lock of its own process, wins the lease (`TakeLease`: free, lapsed or held for gathering) and
reads the row again (`LookAtRow`); it claims and folds the earlier ones of a burst in two transactions.
A retry compares the count it read then (`seen`) with the setting later, and adds one in one more
transaction whatever the count is by then, as pipeline.py:301, 352 and 355 do. A worker then comes to
one of the ends `_run` and `_answer` have: dropped because the sender was switched off, refused a kid,
not heard, out of retries, answered, failed for now, failed for good (two transactions: `GiveUp`, then
`Fail`), out of steps. `Release` is the lease's `finally`; it may be refused by the database, and the
claim is then left to lapse. `Lapse` and `Renew` are time and the renewer; `Crash` frees a process's
locks and leaves its claims to nobody. What a turn says, how long it thinks and what its tools write is
left out; a member who writes is always on the list when they do.

`FateOf` maps a row to what the family sees of it: unsent, open, folded, answered, spent (out of tries)
or dropped. `KeepsPromise` checks that every step of the code is a step of `MessageFate` or none.

### Outbox

One conversation. The reminders job stores what is due in one transaction, hands each message over
(`Hold` when somebody is talking, else deliver) and releases what was held too long. Sweepers run
`run_deliveries`, passing over what is held when they come to it. The one turn takes what is held,
and either commits a reply that carries it (`Commit`, then `Done`) or lets it go. `deliver` is lease,
`Check`, `Send`, `MarkDelivered`, `LetGo`, each a step; a send may fail, or go and lose its answer, and
SQLite may refuse the mark. An edit takes an unsent reminder back unless it is claimed; somebody
taken off the list has theirs cancelled without asking. Whether somebody is talking is a free choice
of `Hold`; a hold that is `"over"` has its `until` behind it. That one turn runs at a time is what
`MessageTurns` shows. `EditHonoured` is as much as the code keeps: an accepted edit stops the sending,
and of the replies only one that was already on its way into carrying the reminder may still say it.

### Reminders

`Update` is the whole of `task_service.update`: the refusals (`Accepted`), the repeat after the change,
a tick that is one round, replacing, clearing or adding the reminder, and the revision. `Ask` calls it
from chat and buttons with no revision; `Save` from a form or undo with the revision it was drawn at.
`RunReminders` is the job's one transaction: finish what is tied to a plan that is over, queue what is
due, add the next round. `BeginSend` and `EndSend` are the claim and the end of a delivery.
The two ways a plan's end closes its task do not ask whether a send is under way (`_cancel`,
store/tasks.py:307), so `ClosedIsQuiet` promises of every closed task that nothing waits or is queued, and
only of one no plan was tied to that nothing is being sent.
`MovePlan`, `CancelPlan` and `Sync` are `plan_service.changed` and `apply_event`. Days stand for times:
every repeat is of `Every` days at one hour, so calendar months and clock changes in `next_time` are not
modelled.

### Calendar

`create_event` is five steps, because Google is asked between its transactions: `Reserve` keeps an event
id under the operation key (or finds the one the key has, or takes over what its browser session left
unfinished), `LookUp` looks for the plan and the event, `Insert` asks Google, `Keep` stores the plan
after another look, `Answer` ends the request. A lost answer or a stop sends the call out,
and the request is made again: the retry job, a second post, a form drawn again. `update_event` and
`delete_event` are `Target`, `Refresh` and `ApplyRefresh` (what Google says of the event first), `Write`
(Google), `Store` (the plan). `adopt` puts a plan that was kept here on Google:
`AdoptLook`, `AdoptPut`, `AdoptKeep`. `sync_plans` is `SyncStart`, `AdoptNext` for what was kept here,
`ReadChanges` (since the token, or everything), `ListPlans`, `ApplyNext` for each plan with `apply_event`
whole, and `SaveToken`. `Insert`, `Put` and `Delete` answer the second time as the code reads the 409,
404 and 410 they get.

Google is external: `google` holds an event's day, which stands for all it says; `unseen` is what changed
since the token that is kept, `since` what changed since a sync asked. `ByHand` is somebody in Google,
`Forget` a token too old, `Connect` the calendar configured later, `Lost` an answer that does not come
(done or not), `Stop` the process. `Hasty` says whether people touch an event before its plan is stored
or while it is being changed, or connect a calendar then: the code does not lock Google, and
`OnlyGoneCancels`, `InStep` and the liveness properties are of plans left alone meanwhile. `InStep`
holds in the middle of calls and syncs too, not only when everybody is done, but for one change and
one sync at a time. The plans a sync reads (`LiveOn`) are those not asked about yet
(`followed_up_at IS NULL`): asking is `PlanDays`'s. The idea a plan is made from is left out: its
status goes with the plan here, and `update_idea` and an idea's undo write it where there is no plan.

### PlanDays

A run of `run_follow_ups` or `run_plan_checks`, from the scheduler, from the catch-up on start or by
hand: `Start` is its sync (all of `Calendar`'s in one step), `ListDue` the list (`due_for_follow_up`,
`due_for_check`), `Take` the next plan, with what becomes of it: told already (`MarkTold`), to say,
nothing to say, or left for a run that has a sender. `Ask` and `Check` are the transaction that reads
the mark again, stores the message and sets the mark; `Finish` and `Stop` end a run. People make, move
and cancel plans, here and in Google, leave chats and say how it went. `asked` and `warned` count what
was said since the plan last moved (`plan_service.changed` and `ask_again` clear both marks). Tentative
plans are left out: the jobs take them as the others. `Hasty` says whether plans change, or a day ends,
while a run is at it. `SaidOnce` is proved of hasty people too; `NobodyForgotten` is of calm ones, because
`Ask` and `Check` read again the mark and not the plan: one moved after the list was read is marked for
its new day.

### Undo

A tool that writes keeps its inverse with the call (`Kept`, in `dispatch`). A press is `Claim`
(`claim_undo`), the look and the inverse, and `Release` when it failed. Ideas and lists are looked at and
written in one transaction (`UndoIdea`, `UndoList`); a plan is looked at first (`CheckPlan`) and changed
after, in `update_event` (`UndoPlan`). An idea added or changed, a plan made or moved and a thing on a
list stand for the ten inverses of `undo.py`; a task goes back by its revision, in `Reminders`. Others
change the plan at any time, between the look and the change too (`ChangeAside`), and a job stamps what
it writes with the second it began in, which may be long before it writes; `written` is when a plan
really was written, and `undone_at` when the call was claimed. `updated_at` counts seconds and
`update_event` does not look at it again, so what `PutsBackItsOwn` can ask is that the plan an undo
writes over has the stamp its call left or was written since Undo was pressed. Of ideas it says nothing:
the undo of an idea added looks at its status alone (undo.py:110), and drops it though its words were
changed since.

### Spending

`Admit` and `Refuse` are `admit`; `Answer` the transaction that records a call and settles its hold;
`Switch`, `Adjust`, `AdjustRefused` the spare; `Fail` and `Settle` the way out of `run_turn`. The settle
inside a refused `adjust` is rolled back with its transaction, so it changes nothing. A call costs at
most what it was held at (`estimate`: "the most one call could cost"). `spent` is the sum of the calls
recorded since midnight; `carried` is how much of it was admitted before.

## Runs

| Run | Bounds | Shows | Distinct states |
|---|---|---|---|
| `turns_command` | 1 channel thread, retry job, command line; the digest's message and a voice note; 1 retry, 1 stop, 1 reset | `OneTurnEach`, `NobodySwitchedOff`, `TurnsBounded`, `SettledStays`, `KeepsPromise`, `TypeOK` | 1,674,000 |
| `turns_burst` | 2 threads, 3 gathered messages, claims lapse, 1 stop | `NoFoldChain`, `AnsweredOnce` | 574,000 |
| `turns_settle` | 1 thread, retry job, 2 gathered messages, 1 retry, 1 stop; fairness | `AnsweredOnce`, `EverySettles` | 140,000 |
| `outbox` | 1 reminder, 1 reply, job, sweep, turn; 1 loss or stop; fairness | `DeliveredWasSaid`, `SentOnce`, `EditHonoured`, `EverySaid`, `TypeOK` | 216,000 |
| `reminders` | 1 task, 1 form, 4 days, 3 reminders, revisions to 4 | `OnePending`, `RemindedOnce`, `ClosedIsQuiet`, `NoFlood`, `RevisionMoves`, `TypeOK` | 801,000 |
| `calendar` | 2 calls for a form sent twice and drawn again, or 1 plan made, changed and followed by a sync; 2 events, 2 days, 2 surprises; fairness | `OnePlanEach`, `OneEventAsked`, `InStep`, `EveryEventHeld`, `CancelFollows`, `KeptGoesOn`, `TypeOK` | 148,000 |
| `plan_days` | 1 plan of 1 or 2 days, a week, `FOLLOW_UP_DAYS` of 3, 2 runs of each job, 1 day without a whole run | `SaidOnce`, `NobodyForgotten`, `TypeOK` | 687,000 |
| `undo` | 1 idea, 1 plan, 1 thing, 3 calls, 2 presses, 3 seconds, 1 stop | `UndoneOnce`, `ClaimsGivenBack`, `PutsBackItsOwn`, `TypeOK` | 2,027,000 |
| `spending` | 2 callers, 2 companies, days of 3, calls of 2, limit 2, 3 calls, 1 crash | `EachCallHeld`, `HoldsOwned`, `OneCrosses`, `TypeOK` | 513,000 |

Why these are enough. Two workers at one message is a race of two, and the third worker is the one
that would take it over after a lapse; two messages make a burst, three make a chain. One retry tells
"counted" from "not counted", one stop lets recovery find every half-done state. In the outbox, the
job, the sweep and the turn are all there are that race for one message. A task's reminders concern no
other task, so one task is all the reminders model needs; four days hold a due reminder, a missed round
and the next. In `calendar` plans share nothing but the token: two events are what
a form that gets a second id needs, two days what a move needs, two surprises a lost answer and the stop
of its retry, or a change by hand with the token forgotten. In `plan_days` plans are independent too;
a week holds a plan, its window of three days and the days after; two runs of a job are a race, and one
lost day is the most the window forgives a plan of two days (`MaxLength + MaxMissed < FollowUpDays`). In
`undo` three changes are one taken back, one after it and one before. In `spending` two callers, one of
which crosses midnight, and three calls let a crash's hold be cleared by another caller. Deadlock is not
checked anywhere: with nothing to do the house is quiet, and the counters of the models are bounded.

The bounds, all named constants: `MaxCrashes`, `MaxResets` (`MessageTurns`, `Spending`), `MaxMishaps`
(losses and stops, `Outbox`), `MaxRows`, `MaxRevision`, `Horizon` (`Reminders`), `MaxCalls`, `Horizon`
(`Spending`), `MaxSurprises` (changes by hand, lost answers, stops and forgotten tokens together,
`Calendar`), `LastDay`, `MaxLength`, `MaxMissed` (`PlanDays`), `MaxCalls`, `MaxTime`, `MaxStops` (`Undo`).

Symmetry is used only in runs without liveness properties, over threads, messages, presses and words
that the configuration does not tell apart.

### Where the repository says otherwise

| Run | Sentence | What happens |
|---|---|---|
| `doc_next_sync` | plan_service.py:112: "the next sync puts it right" | The next sync finds nothing changed, so the reminder stays where it was. |
| `doc_full_read` | calendar_sync.py:4: "a deleted one cancels it" | A full read of Google is older than the list of plans it is compared with: a plan made in between is cancelled though its event stands. |
| `doc_undo_later` | undo.py:6: "never undoes somebody else's later change" | A thing is added to a list, somebody ticks it, and the undo of the adding takes it off. |

Four more were met on the way that no run states now, each a few steps in the models above: the retry job
takes a message between its storing and its lease and fails it with notices off, and the sender is not
told (docs/DESIGN.md:94); the sweep sends a reminder before the job holds it, and the next reply says it
again (voice.py:11, docs/DESIGN.md:396); a turn that took a held reminder says it though its task was
ticked off since (docs/DESIGN.md:394); a repeat set once the reminder is queued is accepted and never
comes round (docs/DESIGN.md:381).

And what the models show that no sentence denies, so that it is a limit and not a finding. The jobs of
`PlanDays` read again the mark and not the plan: one moved or cancelled after the list was read is still
asked about (hence `Hasty`). A plan that lasts `FOLLOW_UP_DAYS` or longer is never asked about, because
the window starts with its first day. One that was asked about and then moved in Google is not read again
by the follow-ups. Of two syncs at once the older answer may be
applied after the newer one's token is saved; the plan is out of step, and nobody will be told, until the
older one saves its own token, or for good if it stops before. Two changes of one plan at once may write to
Google in one order and be stored in the other, with a sync between that reads only the first: the same
(no lock spans either call, hence `OneAtATime`). Where the renewing of a claim fails, a stopped burst may
be folded into by the retry after a switch-off dropped it: a dropped message is then answered with the rest
(hence `~RenewalMayFail` for `KeepsPromise`). Two processes at one message past a lapsed or overwritten
claim may each have seen the same count and each make what should be the last try, one more than
`retry_max_attempts` (hence `ServiceAlone` or `LeasesLast` for `TurnsBounded`). The undo of a plan's change
writes over a change of the same second, of a job begun in it, or made since Undo was pressed. The retry of a
`create_event` stores the day that was asked for though the event was moved since. A plan kept here whose
event was made and deleted in Google stops every sync at its `AdoptPut`.

## Fairness

`MessageTurns!FairSpec`: a worker with a message goes on (a thread that is neither stopped nor waiting
runs; the lock and the database are granted in turn; a call to a model ends by its timeout); the retry
job comes round (the scheduler runs it on an interval); and a claim or mark that nobody renews runs
out (`claim_until` is a time). Nobody is obliged to write, to switch anybody off or to reset. For
claims of live workers fairness of `Lapse` is idle in `turns_settle`, where renewal does not fail.

`Outbox!FairSpec`: the job, the sweep and the turn go on with what they began and come round again, a
send that can be made is made in the end (at least once: a chat that can never be reached again is
nobody's to promise), and holds and orphans' claims run out. It is stated in the module, thread by
thread.

`Calendar!Fairness`: a call that began goes on; a request that failed is made again (the retry job, or the
person whose form came back with an error); a sync comes round. Nobody is obliged to touch Google, to
forget a token or to connect a calendar, and a change somebody made that failed is not made again: that
what it left half done is put right is what `CancelFollows` asks of the syncs. The run's
`MCSpec` starts from `MCInit`, which is `Init` with the kinds of call that are made there.

`PlanDays` and `Undo` state no fairness: `NobodyForgotten` counts the days without a whole run instead
(`MaxMissed`), and `ClaimsGivenBack` the stops.

## Proofs

`MessageTurnsProofs` proves for any number of messages, members, chats, workers and processes and any
bounds: `TypeCorrect`, which is of types alone; for one process (the service alone) `ServiceTakesTurns` and
`ServiceAnswersOnce`, even when claims lapse under live workers; and for any number of processes, when
leases last and nothing is gathered (`LeasesLast`: a hold for gathering takes a message from whoever has
it, so beside a second process it is no lease), `LeasesTakeTurns`, `LeasesKeepMembers` and
`LeasesKeepSettled`. Two different arguments, because two different things protect a message. For
the service it is the chat's lock: the invariant says that a worker past the lock is the one the lock
names, so two workers in one chat, and so at one message, cannot both be past it. Over it lies the
invariant that a worker about to answer has an open message, that an answered or folded one is
processed, and that a burst in a worker's hands is still unanswered. For leases that last it is the
claim: a worker past `TakeLease` still holds its claim and the claim is live, so `Claimable` fails for
everybody else, `BeingAnswered` refuses the change to its sender, and what it read under the claim
still stands when it acts.

`MessageBurstProofs` adds six. `ServiceBoundsTurns` and `LeasesBoundTurns` are of the number of turns, for the
service alone however its claims lapse, and for any number of processes while leases last: a message is
kept by one thread, which alone works on it but for retries, so every turn but the first is a retry its
row counts, and a reset takes away no more than it allows (`FirstInv`, `TurnInv`). That the count a retry
saw is still the row's when it compares and adds (`TriesInv`) is not the count's doing but `OneTurnEach`'s:
the two theorems take it from the two arguments above.
`BurstsAreShallow`, for the service alone: what was folded went into an open message that came later
and that nobody will hold for gathering again, and a burst once claimed has nothing folded into any of
it (`Folded`, `Bursts`); the chat's lock keeps the last message of one burst out of another.
`ServiceKeepsPromise` is the refinement for the service whose renewals do not fail, `LeasesKeepPromise`
for any number of processes under `LeasesLast`: the first state is `MessageFate`'s, and each step of the
code is a step of it or none (`FateNext`, one case for each action). Most steps leave every fate or end
one; the hard ones are those of a burst, because a message that is being folded must not have been dropped
since it was gathered. That is the claim's doing: while it holds the last message, its sender cannot be
switched off, so none of the burst is given up (`KeepInv`). `LeasesAnswerOnce` is what the claim does for
`AnsweredOnce` without the lock: who answers is alone with the message.

`OutboxProofs` proves `TypeCorrect`, `SaidIfDelivered` (the invariant adds that a worker at `"mark"` has
sent its message, and that what a turn carries it named), and, where renewal does not fail, `GoesOnce`
(every send is paid for by the delivered mark, the one worker between sending and marking, a loss or a
stop) and `EditsHonoured` (a worker past its check holds a live claim on a message not taken back, and
one taken back is stored already, so the job that queues and holds does not come to it again).

`RemindersProofs` proves all that the run checks: `TypeCorrect`, `OnePendingAlways`,
`RemindedOnceAlways`, `ClosedStaysQuiet`, `NoFloodEver`, `RevisionAlwaysMoves`. `OnePending` and
`RemindedOnce` are not inductive: a snooze or a done adds a reminder whose time must not be one that
was queued. The invariant says that each task's list is tidy: what waits is one at most and later than
all that was queued, and what was queued is not in the future, while whatever a request or a next round
adds is. That `next_time` gives a time after now (`NextTimeLater`) is the arithmetic of it.

`CalendarProofs` proves `TypeCorrect`, `OnePlanAlways` and `OneEventAlways` for any number of calls,
keys, sessions and events, hasty people and any number of surprises included. The invariant ties a call
to the tables: a maker works for a key that has its event id reserved, no session has two ids without a
plan, and the plan a changer or a sync works on, under whatever copy it read, is still there with the
same event (plans are never deleted and never change their event).

`InStepAlways` needs `OneAtATime`: at most one call that changes plans and one sync, and nobody hasty;
any number of calls that make plans, any number lost or stopped. It is far from inductive. Its invariant
(`Fits`) follows what each call read and was told: what was read of a plan still says where it belongs
(`Reads`), what a change wrote is what Google holds until it is stored (`ChangerFits`), a plan that is to
go on Google finds nothing there or its own day (`Follows`, `MakerFits`), and while a sync goes through
its list, whatever is out of step it has still to come to, or it changed since the sync asked
and stays unseen for the next (`Awaits`, `SyncFits`). The token saved last is the one that came with the
answer, so that is what makes `unseen` right.

`PlanDaysProofs` proves `TypeCorrect` and `SaidOnceAlways` for any plans and runs; and, with nothing
changing under a run and `MaxLength + MaxMissed < FollowUpDays` (`Calm`), `NobodyForgottenWhenCalm`. For
it the invariant carries what a run's list and copy say of the plans (`Standing`), and that a plan still
waiting is no older than the days that were missed (`Patient`).

`UndoProofs` proves `TypeCorrect`, `UndoneOnceAlways` and `PutsBackItsOwnAlways` for any presses, stops
and stamps. For the last the invariant says that a call was claimed no later than now (`Pressed`) and
that the plan of a press that has looked either still has the stamp the call left or was written since
the claim (`SeenAsLeft`): a change under the press is written now, whatever its stamp.
`ClaimsGivenBackAlways` counts the calls marked with nothing put back and nobody at them (`Stray`): a
press takes its own call there only by stopping, each stop takes at most one for every presser, and a
failed press gives its mark back. It needs a finite set of pressers (`PressersFinite`), or one stop
would have no bound.

`SpendingProofs` proves `TypeCorrect`, `CallsAreHeld` and `NoHoldLeaks`, from `SpendingAssumption` and
`HoldOutlasts` (no call is longer than `HOLD_MINUTES`, which the code's comment on it claims). The
invariant: a running call's hold is there and young enough that no clearing takes it, no two running
callers share one, and the holds of nobody are counted by crashes. `OneCrossesAlways` adds a bound on
money: what is held for the day's running calls and what is spent of it is less than the limit and one call.
`Admit` and `Adjust` check before they hold, in the transaction that holds, and what they count takes in
every running call's hold of the day (`MineCounted`); so the last to hold is the only one to cross. The sum
over a set of holds (`MapThenSumSet`) is defined by a recursive function, and no induction
theorem can be used here, so it is shown to be a cardinality: of the coins `<<h, n>>` with `n` up to the
cost of `h` (`TotalIsCoins`). Counting coins solves the function's equation, so there is such a function; a
smallest set on which another would differ is impossible.

The constants' assumptions are named in each module and evaluated by its runs.

Every invariant and action property the passing runs check is proved, under the hypotheses named above.
Only model-checked is liveness under fairness, out of the prover's reach: `EverySettles`, `EverySaid`,
`EveryEventHeld`, `CancelFollows`, `KeptGoesOn`.

## Not modelled

The models cover what moves the family's data. Most of the repository's lines do not: the web pages
(`web/views.py`, `settings.py`, `fields.py`, `status.py`, templates), the command line, the doctor, the
prompts and personas, the parsing of providers' answers, the evaluation cases and the tests. They read and
render, check the form of their input and call the services modelled here; nothing in them interleaves
or fails half-way in a way the services do not meet, so a model of them would say only what they print.

Of what does change state:

- What is said: prompts, wording, routing between chats, who may read. A turn is its outcome and its cost.
- `next_time` over months, the end of a month and clock changes.
- In `Outbox`: a claim whose release the database refuses (it is an orphan's then, which `Crash` gives);
  the sweep of a command line, which does not see the service's holds; several conversations.
- In `Calendar`: events that are not the bot's, overlaps, plans that are past. Several syncs
  at once are in the module and in all its proofs but `InStepAlways`'s, not in the run.
- In `Spending`: the turn of the month, and how far a company's month may be passed.
- The morning message, nudges and the digest's row: the list, mark and message of `PlanDays` on other
  rows. The bound of one nudge a day per chat is read outside the transaction (`nudges.py:108`).
- The form guard (`web/once.py`): in memory, at most 2048 tokens; what it lets through twice is kept apart
  by the durable key, in `Calendar`, or by the revision, in `Reminders`.
- Finds, memories, recipes, wishes: single edits, with an inverse that looks first as the idea's does.
- Lookups and scouting: batches over rows marked pending, paid under `Spending`. Alerts: a note twice a day.
- Settings swapped between two operations, migrations, invites, knocks and sign-in.

## Plan

Done, the most used and most concurrent first: `MessageFate`, `MessageTurns`, `Outbox`, `Reminders`,
`Spending`, `Calendar`, `PlanDays`, `Undo`, and proofs about each.

Left, in this order:

1. What two overlapping syncs or changes do keep of `InStep` in `Calendar`, as a run and a theorem: that the
   next undisturbed full read puts it right.
2. `Outbox` with several conversations and turns, so that its one turn is a theorem's and not the model's.
3. Months in `Spending`, and the bound on a company's month.
4. `Nudges`: one a day per chat, with the chat a task was made in and the one it goes to told apart.
5. The form guard with its eviction, composed with the key it stands before.
