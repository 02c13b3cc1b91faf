--------------------------- MODULE MCMessageTurns ---------------------------
(***************************************************************************)
(* Small sets of messages and workers for TLC: one person writing in one   *)
(* chat, answered by threads of the service and, in some runs, by a        *)
(* command run beside it.                                                  *)
(***************************************************************************)
EXTENDS MessageTurns, TLC

CONSTANTS h1, h2, h3, r, c,   \* threads of the service, and of a command
          service, command,   \* the processes
          ann, home,          \* one person, one chat
          m1, m2, m3          \* what ann sends

\* The service's handlers do the same work, and so do messages of one kind.
SameHandlers == Permutations({h1, h2})
SameHandlersAndMessages == Permutations({h1, h2}) \cup Permutations(Msg)

OneSender == [m \in Msg |-> ann]
OneChat == [m \in Msg |-> home]
OneProcess == [w \in Worker |-> service]
CommandBeside == [w \in Worker |-> IF w = c THEN command ELSE service]
=============================================================================
