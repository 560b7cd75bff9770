------------------------------- MODULE Lists -------------------------------
(***************************************************************************)
(* The stored lists of the vault-registry contract: an owner's resources   *)
(* (Catalog) and a role's holders (Governance).  What a removal leaves is  *)
(* written as the scan it is, a function and not a RECURSIVE operator or a *)
(* SelectSeq, so that it can be proved about (Collections_proofs).         *)
(***************************************************************************)
EXTENDS Integers, Sequences

\* The list rewritten without an element, however often it was in it:
\* everything else is pushed back in the order it is read.
Without(list, gone) ==
    LET kept[i \in 0 .. Len(list)] ==
            IF i = 0 THEN <<>>
            ELSE IF list[i] = gone THEN kept[i - 1]
                                   ELSE Append(kept[i - 1], list[i])
    IN  kept[Len(list)]
=============================================================================
