------------------------------ MODULE MCBilling ------------------------------
(* Model values of one customer's billing for TLC.                          *)
EXTENDS Billing, TLC
=============================================================================
