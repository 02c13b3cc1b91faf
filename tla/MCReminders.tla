---------------------------- MODULE MCReminders ----------------------------
(***************************************************************************)
(* One thing to do, with or without a plan, and what people ask of it.     *)
(***************************************************************************)
EXTENDS Reminders

CONSTANTS t1, f1

Plain == [status |-> "same", at |-> None, clear |-> FALSE, repeat |-> "same"]
Tick1(s) == [Plain EXCEPT !.status = s]
Snooze(at) == [Plain EXCEPT !.at = at]
Repeat(from, at) == [Plain EXCEPT !.repeat = from, !.at = at]

\* Done, cancelled, reopened, snoozed, its reminder taken off, its repeat changed.
Requests ==
  {Tick1("done"), Tick1("cancelled"), Tick1("open"), [Plain EXCEPT !.clear = TRUE]}
  \cup {Snooze(at) : at \in 2..Horizon}
  \cup {Repeat(from, at) : from \in {"schedule", "done"}, at \in {None}}
  \cup {Repeat("stop", None)}
Nothing == {}
Repeats == {Repeat("schedule", at) : at \in {None, 3}}
=============================================================================
