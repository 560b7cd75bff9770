----------------------------- MODULE MCProfiles -----------------------------
(***************************************************************************)
(* The wallets and the calls of a run are interchangeable.                 *)
(***************************************************************************)
EXTENDS Profiles, TLC

Interchangeable == Permutations(Accounts) \cup Permutations(Calls)
=============================================================================
