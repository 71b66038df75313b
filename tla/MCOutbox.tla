------------------------------ MODULE MCOutbox ------------------------------
(***************************************************************************)
(* Outbox for TLC: two recipients, notified alone or together.             *)
(***************************************************************************)
EXTENDS Outbox

CONSTANTS ann, bob

Lists == {<<ann>>, <<ann, bob>>}
=============================================================================
