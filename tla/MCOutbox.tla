------------------------------ MODULE MCOutbox ------------------------------
(***************************************************************************)
(* Two dispatchers with batches of up to two empty an outbox of two.       *)
(***************************************************************************)
EXTENDS Outbox

CONSTANTS d1, d2
=============================================================================
