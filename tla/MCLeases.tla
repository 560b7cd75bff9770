------------------------------ MODULE MCLeases ------------------------------
(* A small instance of Leases for TLC. *)
EXTENDS Leases

ShortTiers == [Hour |-> 1, Day |-> 2, Week |-> 3]
=============================================================================
