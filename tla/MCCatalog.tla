----------------------------- MODULE MCCatalog -----------------------------
(***************************************************************************)
(* Catalog on a small instance: two resources and three accounts, so that  *)
(* an offer to one account can meet a transfer to another; batches with a  *)
(* repeated id and an empty one; repair lists that shorten, reorder or     *)
(* repeat.  The ids are interchangeable, and so are the two accounts that  *)
(* hold no role.                                                           *)
(***************************************************************************)
EXTENDS Catalog

CONSTANTS r1, r2, alice, bob, carol

MCIds == {r1, r2}
MCAddresses == {alice, bob, carol}
MCBatches == {<<>>, <<r1, r2>>, <<r2, r1>>, <<r1, r1>>, <<r2, r2>>}
MCRepairLists == {<<>>, <<r1>>, <<r2>>, <<r1, r2>>, <<r2, r1>>,
                  <<r1, r1>>, <<r2, r2>>}
Interchangeable == Permutations(MCIds) \cup Permutations({alice, bob})
============================================================================
