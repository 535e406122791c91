--------------------------- MODULE MCOutboxRelay ---------------------------
(* Row 1 is poisonous and is ordered before the rows 2 and 3; a batch holds *)
(* two rows, so that a claim leaves one behind.                             *)
EXTENDS OutboxRelay
=============================================================================
