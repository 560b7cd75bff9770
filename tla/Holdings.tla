------------------------------ MODULE Holdings ------------------------------
(***************************************************************************)
(* What the catalog promises its readers, without the indexes and counters *)
(* it is implemented with.  A resource is unpublished, held by exactly one *)
(* account, or retired for good; it is on sale or it is not; and the sales *)
(* figures are those of the resources on sale, counted afresh.             *)
(***************************************************************************)
EXTENDS Naturals, FiniteSets

CONSTANTS Ids, Accounts, Unpublished, Retired

VARIABLES holder, onSale, sales, total

hvars == <<holder, onSale, sales, total>>

SalesOf(h, s, a) == Cardinality({r \in s : h[r] = a})

\* The figures a reader sees after the step.
Tally ==
    /\ sales' = [a \in Accounts |-> SalesOf(holder', onSale', a)]
    /\ total' = Cardinality(onSale')

Init ==
    /\ holder = [r \in Ids |-> Unpublished]
    /\ onSale = {}
    /\ sales = [a \in Accounts |-> 0]
    /\ total = 0

Publish(a, new) ==
    /\ \A r \in new : holder[r] = Unpublished
    /\ holder' = [r \in Ids |-> IF r \in new THEN a ELSE holder[r]]
    /\ onSale' = onSale \cup new
    /\ Tally

PutOnSale(r) ==
    /\ holder[r] \in Accounts
    /\ onSale' = onSale \cup {r}
    /\ UNCHANGED holder
    /\ Tally

Withdraw(r) ==
    /\ onSale' = onSale \ {r}
    /\ UNCHANGED holder
    /\ Tally

\* On sale or not, a resource stays so when it changes hands.
HandOver(r, a) ==
    /\ holder[r] \in Accounts
    /\ holder' = [holder EXCEPT ![r] = a]
    /\ UNCHANGED onSale
    /\ Tally

Retire(r) ==
    /\ holder[r] \in Accounts
    /\ holder' = [holder EXCEPT ![r] = Retired]
    /\ onSale' = onSale \ {r}
    /\ Tally

Next ==
    \/ \E r \in Ids : PutOnSale(r) \/ Withdraw(r) \/ Retire(r)
    \/ \E r \in Ids, a \in Accounts : HandOver(r, a)
    \/ \E a \in Accounts, new \in SUBSET Ids : Publish(a, new)

Spec == Init /\ [][Next]_hvars
============================================================================
