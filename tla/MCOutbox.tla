------------------------------ MODULE MCOutbox ------------------------------
(***************************************************************************)
(* A message of her own and the reply that may carry it, sent by the       *)
(* threads of the service.                                                 *)
(***************************************************************************)
EXTENDS Outbox

CONSTANTS o1,            \* what she says of her own accord
          a1,            \* a reply
          j, d, t        \* the job, the sweep, the turn
=============================================================================
