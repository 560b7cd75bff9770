------------------------------ MODULE Purchases ------------------------------
(***************************************************************************)
(* What the registry promises of a payment receipt.  A purchase is         *)
(* recorded once, on terms that never change; it is settled at most once;  *)
(* and only then may money be given back, never more than was paid.        *)
(***************************************************************************)
EXTENDS Naturals

CONSTANTS
    Receipts,   \* receipt ids
    Terms,      \* the terms a purchase may have: records with an amount
    NoTerms     \* no purchase

VARIABLES
    terms,      \* what was bought, by whom and for how much; NoTerms before
    settled,    \* the receipts whose payment is final
    returned    \* what has been given back of each receipt

Init ==
    /\ terms = [p \in Receipts |-> NoTerms]
    /\ settled = {}
    /\ returned = [p \in Receipts |-> 0]

Record(p, t) ==
    /\ terms[p] = NoTerms
    /\ terms' = [terms EXCEPT ![p] = t]
    /\ UNCHANGED <<settled, returned>>

Settle(p) ==
    /\ terms[p] # NoTerms
    /\ p \notin settled
    /\ settled' = settled \cup {p}
    /\ UNCHANGED <<terms, returned>>

GiveBack(p, amount) ==
    /\ p \in settled
    /\ amount > 0
    /\ returned[p] + amount <= terms[p].amount
    /\ returned' = [returned EXCEPT ![p] = @ + amount]
    /\ UNCHANGED <<terms, settled>>

Next == \E p \in Receipts :
    \/ \E t \in Terms : Record(p, t)
    \/ Settle(p)
    \/ p \in settled /\ \E amount \in 1 .. terms[p].amount : GiveBack(p, amount)

Spec == Init /\ [][Next]_<<terms, settled, returned>>
==============================================================================
