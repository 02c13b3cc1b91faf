---------------------------- MODULE MessageFate ----------------------------
(***************************************************************************)
(* What the family is promised about a message: once kept it is answered   *)
(* once, alone or with the later message it is folded into, or it ends     *)
(* without an answer.  One that only ran out of tries may be given new     *)
(* ones; one dropped on purpose stays dropped.                             *)
(***************************************************************************)
CONSTANT Msg    \* the messages a channel may hand over
VARIABLE fate   \* what has become of each

Fates == {"unsent", "open", "folded", "answered", "spent", "dropped"}

FateInit == fate = [m \in Msg |-> "unsent"]

Keep(m) == fate[m] = "unsent" /\ fate' = [fate EXCEPT ![m] = "open"]

Answer(m) == fate[m] = "open" /\ fate' = [fate EXCEPT ![m] = "answered"]

\* A burst goes with its last message, which is still to be answered; one that
\* was out of tries is lucky to be in it.
Fold(n) ==
  /\ fate[n] = "open" /\ fate'[n] = "open"
  /\ \E S \in SUBSET (Msg \ {n}) :
       /\ \A m \in S : fate[m] \in {"open", "spent"}
       /\ fate' = [m \in Msg |-> IF m \in S THEN "folded" ELSE fate[m]]

\* Several may end at once: everything somebody switched off left open, or
\* what a stopped process was on its last try with.
End ==
  /\ fate' \in [Msg -> Fates]
  /\ \A m \in Msg : \/ fate'[m] = fate[m]
                    \/ fate[m] = "open" /\ fate'[m] \in {"spent", "dropped"}
                    \/ fate[m] = "spent" /\ fate'[m] = "dropped"

NewTries ==
  \E S \in SUBSET {m \in Msg : fate[m] = "spent"} :
    fate' = [m \in Msg |-> IF m \in S THEN "open" ELSE fate[m]]

FateNext ==
  \/ End
  \/ \E m \in Msg : Keep(m) \/ Answer(m) \/ Fold(m)
  \/ NewTries

FateSpec == FateInit /\ [][FateNext]_fate
=============================================================================
