------------------------------ MODULE MCAccess ------------------------------
(***************************************************************************)
(* Instance of Anchors and Leases for TLC: one resource and its buyers.    *)
(* The two share no storage entry.  In a behaviour of the instance each    *)
(* moves only while the other has not begun, so that TLC explores the sum  *)
(* of their states and not the product.                                    *)
(***************************************************************************)
EXTENDS Anchors, Leases, TLC

CONSTANTS r1, b1, b2, h1, h2

ShortTiers == [Hour |-> 1, Day |-> 2, Week |-> 3]
SameHashes == Permutations({h1, h2})

AccessNext ==
    \/ Next /\ LeasesInit /\ UNCHANGED leasesVars
    \/ LeasesNext /\ Init /\ UNCHANGED vars

AccessInit == Init /\ LeasesInit

AccessSpec == AccessInit /\ [][AccessNext]_<<vars, leasesVars>>
=============================================================================
