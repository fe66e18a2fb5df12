------------------------------ MODULE MCOutbox ------------------------------
(* The transactional outbox for TLC: its constants are numbers and strings. *)
EXTENDS Outbox
=============================================================================
