----------------------------- MODULE MCCalendar -----------------------------
(* Instances of Calendar for TLC. *)
EXTENDS Calendar

CONSTANTS k1, k2, m1, m2

\* A form, and the same form drawn again in the same browser session.
OneSession == [k \in {k1, k2} |-> "s"]

\* A form sent twice and drawn again, before anybody looks at the plan.
Making ==
  /\ wanted = Key
  /\ \A w \in Worker : pc[w] = "idle" <=> w \in Maker

\* One plan, made, changed and followed.
Following ==
  /\ wanted = {k1}
  /\ \A w \in Worker : pc[w] = "idle" <=> w # m2

MCInit == Init /\ (Making \/ Following)

MCSpec == MCInit /\ [][Next]_vars /\ Fairness
=============================================================================
