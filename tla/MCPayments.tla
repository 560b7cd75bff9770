----------------------------- MODULE MCPayments -----------------------------
(***************************************************************************)
(* Instance of Payments for TLC.  Its states are those of two sides: the   *)
(* refund side, at one price without fees, and the settlement side, at any *)
(* price and fee configuration without refunds, so that TLC explores the   *)
(* sum of the two and not the product.                                     *)
(***************************************************************************)
EXTENDS Payments, TLC

CONSTANTS a1, a2, r1, p1, p2, f1, f2, h1, h2, h3

RefundSide ==
    /\ feeConfig = NoFeeConfig /\ destination.bps = 0
    /\ \A r \in Resources : price[r] = MaxPrice
    /\ \A p \in Recorded : Amount(p) = MaxPrice

SettlementSide == refund = [f \in RefundIds |-> NoEntry] /\ window = DefaultWindow /\ ledger = 0

PaymentsInit == Init /\ (RefundSide \/ SettlementSide)

PaymentsNext == Next /\ (RefundSide' \/ SettlementSide')

PaymentsSpec == PaymentsInit /\ [][PaymentsNext]_vars

\* Accounts, ids and hashes are only compared for equality.
Interchangeable ==
    Permutations(Accounts) \cup Permutations(Receipts)
        \cup Permutations(RefundIds) \cup Permutations(Hashes)
=============================================================================
