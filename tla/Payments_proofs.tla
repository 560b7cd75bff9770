--------------------------- MODULE Payments_proofs ---------------------------
(***************************************************************************)
(* Theorems about Payments, for every set of accounts, resources, receipts *)
(* and hashes, every rate, price and window.  The invariants are proved    *)
(* one after the other, each from its own strengthening; a call either     *)
(* records a payment, settles one, records a refund or writes the fee      *)
(* configuration, and every other call leaves all of these alone (Quiet).  *)
(***************************************************************************)
EXTENDS Payments, Collections_proofs

Quiet == UNCHANGED <<feeVars, payments, refunds, settled>>

\* A refund is recorded, on whoever's authority.
Refund(f, p, amount, h) ==
    \E to \in Accounts, by \in Accounts \cup {Admin}, override \in BOOLEAN :
        RecordRefund(f, p, to, amount, h, by, override)

\* The calls, by what they write.
LEMMA Calls ==
    ASSUME [Next]_vars
    PROVE  \/ Quiet
           \/ \E p \in Receipts, r \in Resources, payer \in Accounts, amount \in Prices, h \in Hashes :
                 amount > 0 /\ WritePayment(p, r, payer, amount, h)
           \/ \E p \in Receipts : SettlePayment(p)
           \/ \E f \in RefundIds, p \in Receipts, amount \in RefundAmounts, h \in Hashes :
                 Refund(f, p, amount, h)
           \/ AdminConfiguration
<1>1. CASE UNCHANGED vars  BY <1>1 DEF vars, Quiet
<1>2. CASE Market
  BY <1>2 DEF Market, ChangeOwner, ChangeStatus, SetPrice, Quiet
<1>3. CASE SettlerCall
  <2>1. CASE \E p \in Receipts : SettlePayment(p)  BY <2>1
  <2>2. ASSUME NEW p \in Receipts, NEW r \in Resources, NEW payer \in Accounts,
               NEW amount \in Prices, NEW h \in Hashes,
               \/ RecordPayment(p, r, payer, amount, h)
               \/ RecordPaymentIdempotent(p, r, payer, amount, h)
        PROVE  \/ Quiet
               \/ amount > 0 /\ WritePayment(p, r, payer, amount, h)
    BY <2>2 DEF RecordPayment, RecordPaymentIdempotent, Quiet, vars
  <2> QED  BY <1>3, <2>1, <2>2 DEF SettlerCall
<1>4. CASE RefundCall
  BY <1>4 DEF RefundCall, RecordCreatorRefund, RecordAdminRefund, Refund
<1>5. CASE \E w \in Windows : SetRefundWindow(w)
  BY <1>5 DEF SetRefundWindow, Quiet
<1>6. CASE AdminConfiguration  BY <1>6
<1>7. CASE AdvanceLedger  BY <1>7 DEF AdvanceLedger, Quiet
<1> QED  BY <1>1, <1>2, <1>3, <1>4, <1>5, <1>6, <1>7 DEF Next

---------------------------------------------------------------------------
(* The fee configuration *)

\* A truncated share of an amount is a natural number.
LEMMA ShareIsNat ==
    ASSUME NEW amount \in Nat, NEW rate \in Nat, NEW denom \in Nat \ {0}
    PROVE  (amount * rate) \div denom \in Nat
<1>1. amount * rate \in Nat  OBVIOUS
<1>2. ASSUME NEW x \in Nat  PROVE x \div denom \in Nat  OBVIOUS
<1> QED  BY <1>1, <1>2

FeesInv == FeesTypeOK /\ FeesForCurrentRecipient /\ RouteFeasible

LEMMA FeesInitially ==
    ASSUME FeesInit
    PROVE  FeesInv
BY FeesAssumption, FeeConfigAssumption
   DEF FeesInit, FeesInv, FeesTypeOK, FeesForCurrentRecipient, RouteFeasible

LEMMA FeesConfigured ==
    ASSUME FeesInv, FeesNext
    PROVE  FeesInv'
<1> USE FeesAssumption, FeeConfigAssumption
       DEF FeesInv, FeesTypeOK, FeesForCurrentRecipient, RouteFeasible
<1>1. ASSUME NEW config \in FeeConfigs, SetFeeConfig(config)  PROVE FeesInv'
  <2>1. config.recipient \in Accounts \cup {NoAccount}  BY DEF FeeConfigs
  <2>2. FeesTypeOK'  BY <1>1 DEF SetFeeConfig
  <2>3. FeesForCurrentRecipient'
    BY <1>1, <2>1 DEF SetFeeConfig, MayName, NoUnclaimedFees
  <2>4. RouteFeasible'
    BY <1>1, <2>1 DEF SetFeeConfig, RouteFits, RouteValid, FeeConfigs
  <2> QED  BY <2>2, <2>3, <2>4
<1>2. ASSUME NEW recipient \in Accounts \cup {NoAccount}, SetFeeRecipient(recipient)
      PROVE  FeesInv'
  <2>1. /\ feeConfig \in FeeConfigs
        /\ feeConfig' = [feeConfig EXCEPT !.recipient = recipient]
        /\ UNCHANGED <<destination, accrued, due>>
    BY <1>2 DEF SetFeeRecipient
  <2>2. /\ feeConfig' \in FeeConfigs
        /\ feeConfig'.recipient = recipient
        /\ feeConfig'.platform = feeConfig.platform
    BY <2>1 DEF FeeConfigs
  <2>3. FeesTypeOK'  BY <2>1, <2>2
  <2>4. FeesForCurrentRecipient'
    BY <1>2, <2>1, <2>2 DEF SetFeeRecipient, MayName, NoUnclaimedFees
  <2>5. RouteFeasible'
    BY <1>2, <2>1, <2>2 DEF SetFeeRecipient, RouteFits, RouteValid
  <2> QED  BY <2>3, <2>4, <2>5
<1>3. ASSUME NEW dest \in Destinations, SetFeeDestination(dest)  PROVE FeesInv'
  BY <1>3 DEF SetFeeDestination, Destinations, RouteFits, RouteValid, FeeConfigs
<1>4. CASE ClaimFees
  BY <1>4 DEF ClaimFees
<1> QED  BY <1>1, <1>2, <1>3, <1>4 DEF FeesNext

LEMMA FeesAccrued ==
    ASSUME FeesInv, NEW amount \in Nat, AccrueFees(amount)
    PROVE  FeesInv'
<1> USE FeesAssumption, FeeConfigAssumption
       DEF FeesInv, FeesTypeOK, FeesForCurrentRecipient, RouteFeasible
<1>1. CASE feeConfig # NoFeeConfig /\ feeConfig.recipient # NoAccount
  <2> DEFINE a   == feeConfig.recipient
             fee == (amount * feeConfig.platform) \div FeeDenom
  <2>1. a \in Accounts /\ feeConfig.platform \in Nat  BY <1>1 DEF FeeConfigs
  <2>2. fee \in Nat  BY <2>1, ShareIsNat
  <2>3. /\ accrued' = accrued + fee
        /\ due' = [due EXCEPT ![a] = @ + fee]
        /\ UNCHANGED <<feeConfig, destination>>
    BY <1>1 DEF AccrueFees
  <2> HIDE DEF fee
  <2>4. FeesTypeOK'  BY <2>1, <2>2, <2>3
  <2>5. FeesForCurrentRecipient'  BY <1>1, <2>1, <2>2, <2>3
  <2>6. RouteFeasible'  BY <2>3
  <2> QED  BY <2>4, <2>5, <2>6
<1>2. CASE ~(feeConfig # NoFeeConfig /\ feeConfig.recipient # NoAccount)
  BY <1>2 DEF AccrueFees
<1> QED  BY <1>1, <1>2
---------------------------------------------------------------------------
(* Types *)

ReceiptsTypeOK ==
    /\ receipt \in [Receipts -> PaymentReceipts \cup {NoEntry}]
    /\ payIndex \in [Resources \X Accounts -> Receipts \cup {NoEntry}]
    /\ payHash \in [Hashes -> Receipts \cup {NoEntry}]
RefundsTypeOK ==
    /\ refund \in [RefundIds -> RefundReceipts \cup {NoEntry}]
    /\ refundHash \in [Hashes -> RefundIds \cup {NoEntry}]
    /\ refunded \in [Receipts -> 0 .. MaxPrice]
SettledTypeOK ==
    /\ deadline \in [Receipts -> Nat \cup {NoEntry}]
    /\ earnings \in [Accounts -> [total : Nat, count : Nat]]
    /\ credited \in [Receipts -> Accounts \cup {NoEntry}]
MarketTypeOK ==
    /\ owner \in [Resources -> Accounts]
    /\ status \in [Resources -> {"Listed", "Delisted", "Held"}]
    /\ price \in [Resources -> 1 .. MaxPrice]
    /\ window \in Nat \ {0}
    /\ ledger \in 0 .. MaxLedger

LEMMA TypeParts ==
    /\ TypeOK <=> FeesTypeOK /\ ReceiptsTypeOK /\ RefundsTypeOK /\ SettledTypeOK /\ MarketTypeOK
    /\ (FeesTypeOK /\ ReceiptsTypeOK /\ RefundsTypeOK /\ SettledTypeOK /\ MarketTypeOK)' => TypeOK'
BY DEF TypeOK, ReceiptsTypeOK, RefundsTypeOK, SettledTypeOK, MarketTypeOK

\* The market, the window and the ledger are typed whatever the call.
LEMMA MarketTyped ==
    ASSUME MarketTypeOK, [Next]_vars
    PROVE  MarketTypeOK'
<1> USE PaymentsAssumption DEF MarketTypeOK
<1>1. CASE UNCHANGED vars  BY <1>1 DEF vars, market
<1>2. CASE Market
  BY <1>2 DEF Market, ChangeOwner, ChangeStatus, SetPrice, PriceValid
<1>3. CASE SettlerCall
  <2>1. ASSUME NEW p, SettlePayment(p)  PROVE UNCHANGED <<market, window, ledger>>
    BY <2>1 DEF SettlePayment
  <2>2. ASSUME NEW p, NEW r, NEW payer, NEW amount, NEW h, WritePayment(p, r, payer, amount, h)
        PROVE  UNCHANGED <<market, window, ledger>>
    BY <2>2 DEF WritePayment
  <2>3. UNCHANGED <<market, window, ledger>>
    BY <1>3, <2>1, <2>2 DEF SettlerCall, RecordPayment, RecordPaymentIdempotent, vars
  <2> QED  BY <2>3 DEF market
<1>4. CASE RefundCall
  <2>1. UNCHANGED <<market, window, ledger>>
    BY <1>4 DEF RefundCall, RecordCreatorRefund, RecordAdminRefund, RecordRefund
  <2> QED  BY <2>1 DEF market
<1>5. CASE \E w \in Windows : SetRefundWindow(w)
  BY <1>5 DEF SetRefundWindow, market
<1>6. CASE AdminConfiguration  BY <1>6 DEF AdminConfiguration, market
<1>7. CASE AdvanceLedger  BY <1>7 DEF AdvanceLedger, market
<1> QED  BY <1>1, <1>2, <1>3, <1>4, <1>5, <1>6, <1>7 DEF Next

\* A recorded receipt has terms, and Amount is within the price limit.
LEMMA RecordedTyped ==
    ASSUME ReceiptsTypeOK, NEW p \in Recorded
    PROVE  /\ p \in Receipts /\ receipt[p] \in PaymentReceipts
           /\ receipt[p].terms \in Terms
           /\ Amount(p) \in 1 .. MaxPrice
BY DEF ReceiptsTypeOK, Recorded, Amount, PaymentReceipts, Terms

LEMMA WriteTyped ==
    ASSUME ReceiptsTypeOK, MarketTypeOK,
           NEW p \in Receipts, NEW r \in Resources, NEW payer \in Accounts, NEW amount,
           NEW h \in Hashes, WritePayment(p, r, payer, amount, h)
    PROVE  ReceiptsTypeOK'
<1> DEFINE new == [terms |-> [resource |-> r, payer |-> payer, amount |-> amount,
                              hash |-> h, at |-> ledger],
                   state |-> "Escrowed"]
<1>1. amount \in 1 .. MaxPrice /\ ledger \in 0 .. MaxLedger
  BY DEF WritePayment, MarketTypeOK
<1>2. new \in PaymentReceipts  BY <1>1 DEF PaymentReceipts, Terms
<1>3. /\ receipt' = [receipt EXCEPT ![p] = new]
      /\ payIndex' = [payIndex EXCEPT ![<<r, payer>>] = p]
      /\ payHash' = [payHash EXCEPT ![h] = p]
  BY DEF WritePayment
<1> HIDE DEF new
<1> QED  BY <1>2, <1>3 DEF ReceiptsTypeOK

LEMMA SettleTyped ==
    ASSUME ReceiptsTypeOK, SettledTypeOK, MarketTypeOK, NEW p \in Receipts, SettlePayment(p)
    PROVE  ReceiptsTypeOK' /\ SettledTypeOK'
<1> DEFINE a == owner[receipt[p].terms.resource]
<1>1. p \in Recorded  BY DEF SettlePayment, MaySettle
<1>2. /\ receipt[p] \in PaymentReceipts /\ receipt[p].terms \in Terms
      /\ Amount(p) \in 1 .. MaxPrice
  BY <1>1, RecordedTyped
<1>3. a \in Accounts  BY <1>2 DEF Terms, MarketTypeOK
<1>4. ReceiptsTypeOK'
  <2>1. [receipt[p] EXCEPT !.state = "Settled"] \in PaymentReceipts
    BY <1>2 DEF PaymentReceipts
  <2>2. /\ receipt' = [receipt EXCEPT ![p] = [receipt[p] EXCEPT !.state = "Settled"]]
        /\ UNCHANGED <<payIndex, payHash>>
    BY DEF SettlePayment
  <2> QED  BY <2>1, <2>2 DEF ReceiptsTypeOK
<1>5. /\ earnings' = [earnings EXCEPT ![a] = [total |-> @.total + Amount(p), count |-> @.count + 1]]
      /\ credited' = [credited EXCEPT ![p] = a]
      /\ deadline' = [deadline EXCEPT ![p] = ledger + window]
  BY DEF SettlePayment, Credit
<1>6. ledger + window \in Nat  BY PaymentsAssumption DEF MarketTypeOK
<1> HIDE DEF a
<1>7. earnings[a].total + Amount(p) \in Nat /\ earnings[a].count + 1 \in Nat
  BY <1>2, <1>3 DEF SettledTypeOK
<1>8. SettledTypeOK'
  BY <1>3, <1>5, <1>6, <1>7 DEF SettledTypeOK
<1> QED  BY <1>4, <1>8

LEMMA RefundEffect ==
    ASSUME ReceiptsTypeOK, RefundsTypeOK, NEW f \in RefundIds, NEW p \in Receipts,
           NEW amount \in RefundAmounts, NEW h \in Hashes, Refund(f, p, amount, h)
    PROVE  /\ RefundsTypeOK'
           /\ f \notin Refunds /\ Refunds' = Refunds \cup {f}
           /\ \A g \in RefundIds \ {f} : refund'[g] = refund[g]
           /\ refund'[f].payment = p /\ refund'[f].hash = h
<1> PICK to \in Accounts, by \in Accounts \cup {Admin}, override \in BOOLEAN :
            RecordRefund(f, p, to, amount, h, by, override)
  BY DEF Refund
<1> DEFINE new == [payment |-> p, amount |-> amount, hash |-> h, by |-> by,
                   override |-> override, left |-> Remaining(p, amount)]
<1>1. p \in Recorded  BY DEF RecordRefund, Settled
<1>2. Amount(p) \in 1 .. MaxPrice  BY <1>1, RecordedTyped
<1>3. /\ amount \in Int /\ amount > 0 /\ amount + refunded[p] <= Amount(p)
      /\ refunded[p] \in 0 .. MaxPrice /\ MaxPrice \in Nat
  BY PaymentsAssumption DEF RecordRefund, Covered, RefundsTypeOK
<1>4. /\ amount \in 1 .. MaxPrice
      /\ refunded[p] + amount \in 0 .. MaxPrice
      /\ Remaining(p, amount) \in 0 .. MaxPrice
  BY <1>2, <1>3 DEF Remaining
<1>5. new \in RefundReceipts  BY <1>4 DEF RefundReceipts
<1>6. /\ refund' = [refund EXCEPT ![f] = new]
      /\ refunded' = [refunded EXCEPT ![p] = @ + amount]
      /\ refundHash' = [refundHash EXCEPT ![h] = f]
  BY DEF RecordRefund
<1>7. new # NoEntry  BY <1>5, ReceiptAssumption
<1>8. new.payment = p /\ new.hash = h  OBVIOUS
<1> HIDE DEF new
<1>9. refund'[f] = new /\ \A g \in RefundIds \ {f} : refund'[g] = refund[g]
  BY <1>6 DEF RefundsTypeOK
<1>10. f \notin Refunds /\ Refunds' = Refunds \cup {f}
  BY <1>7, <1>9 DEF Refunds, RecordRefund
<1>11. RefundsTypeOK'
  BY <1>4, <1>5, <1>6 DEF RefundsTypeOK
<1> QED  BY <1>8, <1>9, <1>10, <1>11
---------------------------------------------------------------------------
(* What a payment, a settlement and a refund do to the sets of records *)

LEMMA WriteEffect ==
    ASSUME ReceiptsTypeOK, MarketTypeOK,
           NEW p \in Receipts, NEW r \in Resources, NEW payer \in Accounts, NEW amount,
           NEW h \in Hashes, WritePayment(p, r, payer, amount, h)
    PROVE  /\ p \notin Recorded /\ Recorded' = Recorded \cup {p} /\ Settled' = Settled
           /\ \A q \in Recorded : receipt'[q] = receipt[q]
           /\ receipt'[p].terms \in Terms
           /\ receipt'[p].terms.resource = r /\ receipt'[p].terms.payer = payer
           /\ receipt'[p].terms.hash = h
<1> DEFINE terms == [resource |-> r, payer |-> payer, amount |-> amount, hash |-> h, at |-> ledger]
           new   == [terms |-> terms, state |-> "Escrowed"]
<1>1. p \notin Recorded  BY DEF WritePayment, NewReceipt
<1>2. receipt' = [receipt EXCEPT ![p] = new]  BY DEF WritePayment
<1>3. amount \in 1 .. MaxPrice /\ ledger \in 0 .. MaxLedger
  BY DEF WritePayment, MarketTypeOK
<1>4. terms \in Terms  BY <1>3 DEF Terms
<1>5. new \in PaymentReceipts  BY <1>4 DEF PaymentReceipts
<1>6. new # NoEntry  BY <1>5, ReceiptAssumption
<1>7. new.terms = terms /\ new.state = "Escrowed"  OBVIOUS
<1>8. terms.resource = r /\ terms.payer = payer /\ terms.hash = h  OBVIOUS
<1> HIDE DEF terms, new
<1>9. /\ Recorded' = Recorded \cup {p}
      /\ \A q \in Recorded : receipt'[q] = receipt[q]
      /\ receipt'[p] = new
  BY <1>1, <1>2, <1>6 DEF Recorded, ReceiptsTypeOK
<1>10. Settled' = Settled  BY <1>1, <1>7, <1>9 DEF Settled
<1> QED  BY <1>1, <1>4, <1>7, <1>8, <1>9, <1>10

LEMMA SettleEffect ==
    ASSUME ReceiptsTypeOK, NEW p \in Receipts, SettlePayment(p)
    PROVE  /\ p \in Recorded \ Settled /\ Recorded' = Recorded
           /\ Settled' = Settled \cup {p}
           /\ \A q \in Recorded : receipt'[q].terms = receipt[q].terms
<1> DEFINE new == [receipt[p] EXCEPT !.state = "Settled"]
<1>1. p \in Recorded \ Settled  BY DEF SettlePayment, MaySettle
<1>2. receipt[p] \in PaymentReceipts  BY <1>1, RecordedTyped
<1>3. receipt' = [receipt EXCEPT ![p] = new]  BY DEF SettlePayment
<1>4. /\ new \in PaymentReceipts
      /\ new.terms = receipt[p].terms /\ new.state = "Settled"
  BY <1>2 DEF PaymentReceipts
<1>5. new # NoEntry  BY <1>4, ReceiptAssumption
<1> HIDE DEF new
<1>6. /\ receipt'[p] = new
      /\ \A q \in Receipts \ {p} : receipt'[q] = receipt[q]
  BY <1>3 DEF ReceiptsTypeOK
<1>7. Recorded' = Recorded  BY <1>1, <1>5, <1>6 DEF Recorded
<1>8. Settled' = Settled \cup {p}  BY <1>1, <1>4, <1>6, <1>7 DEF Settled, Recorded
<1>9. \A q \in Recorded : receipt'[q].terms = receipt[q].terms
  BY <1>4, <1>6 DEF Recorded
<1> QED  BY <1>1, <1>7, <1>8, <1>9

---------------------------------------------------------------------------
(* The inductive invariant *)

\* The fallback of the refund deadline is never taken.
DeadlinesGiven == \A p \in Settled : deadline[p] # NoEntry

IInv == /\ TypeOK
        /\ FeesForCurrentRecipient /\ RouteFeasible
        /\ RefundsCapped /\ IndexesAgree /\ DeadlinesGiven

\* IndexesAgree in four parts, without its LET.
PayHashes ==
    /\ \A p \in Recorded : payHash[receipt[p].terms.hash] = p
    /\ \A h \in Hashes : payHash[h] # NoEntry =>
          payHash[h] \in Recorded /\ receipt[payHash[h]].terms.hash = h
Bought(r, a) == {p \in Recorded : receipt[p].terms.resource = r /\ receipt[p].terms.payer = a}
PayIndexes ==
    \A r \in Resources, a \in Accounts :
        IF Bought(r, a) = {} THEN payIndex[<<r, a>>] = NoEntry ELSE payIndex[<<r, a>>] \in Bought(r, a)
RefundHashes == \A f \in Refunds : refundHash[refund[f].hash] = f

LEMMA IndexParts ==
    /\ IndexesAgree <=> PayHashes /\ PayIndexes /\ RefundHashes
    /\ (PayHashes /\ PayIndexes /\ RefundHashes)' => IndexesAgree'
BY DEF IndexesAgree, PayHashes, PayIndexes, Bought, RefundHashes

LEMMA Initially ==
    ASSUME Init
    PROVE  IInv
<1> USE PaymentsAssumption DEF Init
<1>1. FeesInv  BY FeesInitially
<1>2. ReceiptsTypeOK /\ RefundsTypeOK /\ SettledTypeOK
  BY DEF ReceiptsTypeOK, RefundsTypeOK, SettledTypeOK
<1>3. MarketTypeOK
  <2>1. price \in [Resources -> 1 .. MaxPrice]  OBVIOUS
  <2>2. status \in [Resources -> {"Listed", "Delisted", "Held"}]  OBVIOUS
  <2> QED  BY <2>1, <2>2 DEF MarketTypeOK
<1>4. Recorded = {} /\ Settled = {} /\ Refunds = {}
  BY DEF Recorded, Settled, Refunds
<1>5. RefundsCapped /\ DeadlinesGiven
  BY <1>4 DEF RefundsCapped, DeadlinesGiven
<1>6. PayHashes /\ PayIndexes /\ RefundHashes
  BY <1>4 DEF PayHashes, PayIndexes, Bought, RefundHashes
<1> QED  BY <1>1, <1>2, <1>3, <1>5, <1>6, TypeParts, IndexParts DEF IInv, FeesInv

LEMMA QuietKeeps ==
    ASSUME IInv, Quiet, MarketTypeOK'
    PROVE  IInv'
<1> USE DEF Quiet, feeVars, payments, refunds, settled
<1>1. FeesTypeOK' /\ FeesForCurrentRecipient' /\ RouteFeasible'
  BY TypeParts DEF IInv, FeesTypeOK, FeesForCurrentRecipient, RouteFeasible
<1>2. ReceiptsTypeOK' /\ RefundsTypeOK' /\ SettledTypeOK'
  BY TypeParts DEF IInv, ReceiptsTypeOK, RefundsTypeOK, SettledTypeOK
<1>3. Recorded' = Recorded /\ Settled' = Settled /\ Refunds' = Refunds
  BY DEF Recorded, Settled, Refunds
<1>4. RefundsCapped' /\ DeadlinesGiven'
  BY <1>3 DEF IInv, RefundsCapped, Amount, DeadlinesGiven
<1>5. PayHashes' /\ PayIndexes' /\ RefundHashes'
  BY <1>3, IndexParts DEF IInv, PayHashes, PayIndexes, Bought, RefundHashes
<1> QED  BY <1>1, <1>2, <1>4, <1>5, TypeParts, IndexParts DEF IInv
\* A payment is recorded.
LEMMA WriteKeeps ==
    ASSUME IInv, MarketTypeOK',
           NEW p \in Receipts, NEW r \in Resources, NEW payer \in Accounts, NEW amount,
           NEW h \in Hashes, WritePayment(p, r, payer, amount, h)
    PROVE  IInv'
<1>0. /\ FeesTypeOK /\ ReceiptsTypeOK /\ RefundsTypeOK /\ SettledTypeOK /\ MarketTypeOK
      /\ PayHashes /\ PayIndexes /\ RefundHashes
  BY TypeParts, IndexParts DEF IInv
<1>1. /\ UNCHANGED <<feeVars, refunds, settled>>
      /\ payIndex' = [payIndex EXCEPT ![<<r, payer>>] = p]
      /\ payHash' = [payHash EXCEPT ![h] = p]
      /\ payHash[h] = NoEntry
  BY DEF WritePayment, HashFree
<1>2. /\ p \notin Recorded /\ Recorded' = Recorded \cup {p} /\ Settled' = Settled
      /\ \A q \in Recorded : receipt'[q] = receipt[q]
      /\ receipt'[p].terms.resource = r /\ receipt'[p].terms.payer = payer
      /\ receipt'[p].terms.hash = h
  BY <1>0, WriteEffect
<1>3. FeesTypeOK' /\ FeesForCurrentRecipient' /\ RouteFeasible'
  BY <1>0, <1>1 DEF IInv, feeVars, FeesTypeOK, FeesForCurrentRecipient, RouteFeasible
<1>4. ReceiptsTypeOK' /\ RefundsTypeOK' /\ SettledTypeOK'
  BY <1>0, <1>1, WriteTyped DEF refunds, settled, RefundsTypeOK, SettledTypeOK
<1>5. RefundsCapped' /\ DeadlinesGiven'
  BY <1>1, <1>2 DEF IInv, RefundsCapped, Amount, DeadlinesGiven, refunds, settled, Settled
<1>6. PayHashes'
  BY <1>0, <1>1, <1>2, RecordedTyped, PaymentsAssumption
     DEF PayHashes, ReceiptsTypeOK, Terms
<1>7. PayIndexes'
  <2> SUFFICES ASSUME NEW s \in Resources, NEW a \in Accounts
               PROVE  IF Bought(s, a)' = {} THEN payIndex'[<<s, a>>] = NoEntry
                                            ELSE payIndex'[<<s, a>>] \in Bought(s, a)'
    BY DEF PayIndexes, Bought
  <2>1. CASE s = r /\ a = payer
    <3>1. p \in Bought(s, a)'  BY <1>2, <2>1 DEF Bought
    <3>2. payIndex'[<<s, a>>] = p  BY <1>0, <1>1, <2>1 DEF ReceiptsTypeOK
    <3> QED  BY <3>1, <3>2
  <2>2. CASE ~(s = r /\ a = payer)
    <3>1. Bought(s, a)' = Bought(s, a)  BY <1>2, <2>2 DEF Bought
    <3>2. payIndex'[<<s, a>>] = payIndex[<<s, a>>]  BY <1>0, <1>1, <2>2 DEF ReceiptsTypeOK
    <3> QED  BY <1>0, <3>1, <3>2 DEF PayIndexes
  <2> QED  BY <2>1, <2>2
<1>8. RefundHashes'
  BY <1>0, <1>1 DEF RefundHashes, Refunds, refunds
<1> QED  BY <1>3, <1>4, <1>5, <1>6, <1>7, <1>8, TypeParts, IndexParts DEF IInv

\* A payment is settled.
LEMMA SettleKeeps ==
    ASSUME IInv, MarketTypeOK', NEW p \in Receipts, SettlePayment(p)
    PROVE  IInv'
<1>0. /\ FeesTypeOK /\ ReceiptsTypeOK /\ RefundsTypeOK /\ SettledTypeOK /\ MarketTypeOK
      /\ PayHashes /\ PayIndexes /\ RefundHashes
  BY TypeParts, IndexParts DEF IInv
<1>1. /\ UNCHANGED <<payIndex, payHash, refunds>>
      /\ deadline' = [deadline EXCEPT ![p] = ledger + window]
      /\ AccrueFees(Amount(p))
  BY DEF SettlePayment
<1>2. /\ p \in Recorded \ Settled /\ Recorded' = Recorded /\ Settled' = Settled \cup {p}
      /\ \A q \in Recorded : receipt'[q].terms = receipt[q].terms
  BY <1>0, SettleEffect
<1>3. FeesTypeOK' /\ FeesForCurrentRecipient' /\ RouteFeasible'
  <2>1. Amount(p) \in Nat  BY <1>0, <1>2, RecordedTyped, PaymentsAssumption
  <2>2. FeesInv  BY <1>0 DEF IInv, FeesInv
  <2> QED  BY <1>1, <2>1, <2>2, FeesAccrued DEF FeesInv
<1>4. ReceiptsTypeOK' /\ RefundsTypeOK' /\ SettledTypeOK'
  BY <1>0, <1>1, SettleTyped DEF refunds, RefundsTypeOK
<1>5. RefundsCapped'
  BY <1>1, <1>2 DEF IInv, RefundsCapped, Amount, refunds, Settled
<1>6. DeadlinesGiven'
  <2>1. ledger + window \in Nat /\ ledger + window # NoEntry
    BY <1>0, PaymentsAssumption DEF MarketTypeOK
  <2> QED  BY <1>0, <1>1, <1>2, <2>1 DEF IInv, DeadlinesGiven, SettledTypeOK, Settled, Recorded
<1>7. PayHashes' /\ RefundHashes'
  BY <1>0, <1>1, <1>2 DEF PayHashes, RefundHashes, Refunds, refunds
<1>8. PayIndexes'
  <2>1. \A s, a : Bought(s, a)' = Bought(s, a)  BY <1>2 DEF Bought
  <2> QED  BY <1>0, <1>1, <2>1 DEF PayIndexes
<1> QED  BY <1>3, <1>4, <1>5, <1>6, <1>7, <1>8, TypeParts, IndexParts DEF IInv

\* A refund is recorded.
LEMMA RefundKeeps ==
    ASSUME IInv, MarketTypeOK', NEW f \in RefundIds, NEW p \in Receipts,
           NEW amount \in RefundAmounts, NEW h \in Hashes, Refund(f, p, amount, h)
    PROVE  IInv'
<1>0. /\ FeesTypeOK /\ ReceiptsTypeOK /\ RefundsTypeOK /\ SettledTypeOK
      /\ PayHashes /\ PayIndexes /\ RefundHashes
  BY TypeParts, IndexParts DEF IInv
<1>1. /\ UNCHANGED <<feeVars, payments, settled>>
      /\ refunded' = [refunded EXCEPT ![p] = @ + amount]
      /\ refundHash' = [refundHash EXCEPT ![h] = f]
      /\ refundHash[h] = NoEntry
      /\ p \in Settled /\ amount + refunded[p] <= Amount(p) /\ amount \in Int
  BY PaymentsAssumption DEF Refund, RecordRefund, Covered
<1>2. /\ RefundsTypeOK'
      /\ f \notin Refunds /\ Refunds' = Refunds \cup {f}
      /\ \A g \in RefundIds \ {f} : refund'[g] = refund[g]
      /\ refund'[f].hash = h
  BY <1>0, RefundEffect
<1>3. FeesTypeOK' /\ FeesForCurrentRecipient' /\ RouteFeasible'
  BY <1>0, <1>1 DEF IInv, feeVars, FeesTypeOK, FeesForCurrentRecipient, RouteFeasible
<1>4. ReceiptsTypeOK' /\ SettledTypeOK'
  BY <1>0, <1>1 DEF payments, settled, ReceiptsTypeOK, SettledTypeOK
<1>5. Recorded' = Recorded /\ Settled' = Settled
  BY <1>1 DEF payments, Recorded, Settled
<1>6. RefundsCapped'
  <2> SUFFICES ASSUME NEW q \in Receipts, refunded'[q] > 0
               PROVE  q \in Settled' /\ refunded'[q] <= Amount(q)'
    BY DEF RefundsCapped
  <2>1. Amount(q)' = Amount(q)  BY <1>1 DEF payments, Amount
  <2>2. CASE q = p
    <3>1. refunded'[p] = refunded[p] + amount  BY <1>0, <1>1 DEF RefundsTypeOK
    <3>2. refunded[p] \in Int  BY <1>0, PaymentsAssumption DEF RefundsTypeOK
    <3>3. refunded[p] + amount = amount + refunded[p]  BY <1>1, <3>2
    <3> QED  BY <1>1, <1>5, <2>1, <2>2, <3>1, <3>3
  <2>3. CASE q # p
    BY <1>0, <1>1, <1>5, <2>1, <2>3 DEF IInv, RefundsCapped, RefundsTypeOK
  <2> QED  BY <2>2, <2>3
<1>7. DeadlinesGiven'
  BY <1>1, <1>5 DEF IInv, DeadlinesGiven, settled
<1>8. PayHashes' /\ PayIndexes'
  BY <1>0, <1>1, <1>5 DEF PayHashes, PayIndexes, Bought, payments
<1>9. RefundHashes'
  <2> SUFFICES ASSUME NEW g \in Refunds'
               PROVE  refundHash'[refund'[g].hash] = g
    BY DEF RefundHashes
  <2>1. CASE g = f
    BY <1>0, <1>1, <1>2, <2>1 DEF RefundsTypeOK
  <2>2. CASE g # f
    <3>1. g \in Refunds /\ g \in RefundIds /\ refund'[g] = refund[g]
      BY <1>2, <2>2 DEF Refunds
    <3>2. refundHash[refund[g].hash] = g  BY <1>0, <3>1 DEF RefundHashes
    <3>3. refund[g].hash # h  BY <1>1, <3>1, <3>2, PaymentsAssumption
    <3>4. refund[g].hash \in Hashes
      BY <1>0, <3>1 DEF Refunds, RefundsTypeOK, RefundReceipts
    <3> QED  BY <1>0, <1>1, <3>1, <3>2, <3>3, <3>4 DEF RefundsTypeOK
  <2> QED  BY <2>1, <2>2
<1> QED  BY <1>2, <1>3, <1>4, <1>6, <1>7, <1>8, <1>9, TypeParts, IndexParts DEF IInv

\* The fee configuration is written.
LEMMA ConfigureKeeps ==
    ASSUME IInv, MarketTypeOK', AdminConfiguration
    PROVE  IInv'
<1> USE DEF AdminConfiguration, payments, refunds, settled
<1>1. FeesTypeOK' /\ FeesForCurrentRecipient' /\ RouteFeasible'
  BY TypeParts, FeesConfigured DEF IInv, FeesInv
<1>2. ReceiptsTypeOK' /\ RefundsTypeOK' /\ SettledTypeOK'
  BY TypeParts DEF IInv, ReceiptsTypeOK, RefundsTypeOK, SettledTypeOK
<1>3. Recorded' = Recorded /\ Settled' = Settled /\ Refunds' = Refunds
  BY DEF Recorded, Settled, Refunds
<1>4. RefundsCapped' /\ DeadlinesGiven'
  BY <1>3 DEF IInv, RefundsCapped, Amount, DeadlinesGiven
<1>5. PayHashes' /\ PayIndexes' /\ RefundHashes'
  BY <1>3, IndexParts DEF IInv, PayHashes, PayIndexes, Bought, RefundHashes
<1> QED  BY <1>1, <1>2, <1>4, <1>5, TypeParts, IndexParts DEF IInv

LEMMA StepKeeps ==
    ASSUME IInv, [Next]_vars
    PROVE  IInv'
<1>1. MarketTypeOK'  BY MarketTyped, TypeParts DEF IInv
<1> QED  BY <1>1, Calls, QuietKeeps, WriteKeeps, SettleKeeps, RefundKeeps, ConfigureKeeps

LEMMA Invariant == Spec => []IInv
BY Initially, StepKeeps, PTL DEF Spec

---------------------------------------------------------------------------
(* The sums *)

EarnedBy(a) == {p \in Settled : credited[p] = a}
AmountsOf(ps) == [p \in ps |-> Amount(p)]

\* The receipts an account was credited for are finitely many, and earn it
\* what its entry says.
Earned ==
    /\ IsFiniteSet(Settled)
    /\ \A a \in Accounts :
          earnings[a] = [total |-> SumFunction(AmountsOf(EarnedBy(a))),
                         count |-> Cardinality(EarnedBy(a))]

LEMMA EarnedInit ==
    ASSUME Init
    PROVE  Earned
<1>1. Settled = {} /\ \A a \in Accounts : EarnedBy(a) = {}
  BY DEF Init, Settled, Recorded, EarnedBy
<1>2. SumFunction(AmountsOf({})) = 0
  BY SumEmpty DEF SumFunction, AmountsOf
<1> QED  BY <1>1, <1>2, FS_EmptySet DEF Init, Earned

\* Terms on record, settlements and credits left alone leave the earnings so.
LEMMA EarnedKept ==
    ASSUME ReceiptsTypeOK, Earned, UNCHANGED settled, Settled' = Settled,
           \A p \in Recorded : receipt'[p].terms = receipt[p].terms
    PROVE  Earned'
<1>1. /\ \A a \in Accounts : EarnedBy(a)' = EarnedBy(a) /\ EarnedBy(a) \subseteq Recorded
  BY DEF EarnedBy, settled, Settled
<1>2. ASSUME NEW a \in Accounts  PROVE AmountsOf(EarnedBy(a))' = AmountsOf(EarnedBy(a))
  BY <1>1 DEF AmountsOf, Amount
<1> QED  BY <1>1, <1>2 DEF Earned, settled

\* A settlement adds one receipt and its amount to one account.
LEMMA EarnedSettle ==
    ASSUME ReceiptsTypeOK, SettledTypeOK, MarketTypeOK, Earned,
           NEW p \in Receipts, SettlePayment(p)
    PROVE  Earned'
<1>1. /\ p \in Recorded \ Settled /\ Recorded' = Recorded
      /\ Settled' = Settled \cup {p}
      /\ \A q \in Recorded : receipt'[q].terms = receipt[q].terms
  BY SettleEffect
<1>2. PICK b \in Accounts :
        /\ earnings' = [earnings EXCEPT ![b] = [total |-> @.total + Amount(p), count |-> @.count + 1]]
        /\ credited' = [credited EXCEPT ![p] = b]
  BY <1>1, RecordedTyped DEF SettlePayment, Credit, Terms, MarketTypeOK
<1>3. IsFiniteSet(Settled')  BY <1>1, FS_AddElement DEF Earned
<1>4. \A q \in Recorded : Amount(q)' = Amount(q)  BY <1>1 DEF Amount
<1>5. ASSUME NEW a \in Accounts, a # b
      PROVE  earnings'[a] = [total |-> SumFunction(AmountsOf(EarnedBy(a)))',
                             count |-> Cardinality(EarnedBy(a)')]
  <2>1. EarnedBy(a)' = EarnedBy(a) /\ EarnedBy(a) \subseteq Recorded
    BY <1>1, <1>2, <1>5 DEF EarnedBy, Settled, Recorded, SettledTypeOK
  <2>2. AmountsOf(EarnedBy(a))' = AmountsOf(EarnedBy(a))  BY <1>4, <2>1 DEF AmountsOf
  <2> QED  BY <1>2, <1>5, <2>1, <2>2 DEF Earned, SettledTypeOK
<1>6. earnings'[b] = [total |-> SumFunction(AmountsOf(EarnedBy(b)))',
                      count |-> Cardinality(EarnedBy(b)')]
  <2> DEFINE S == EarnedBy(b)
             old == AmountsOf(S)
             new == AmountsOf(EarnedBy(b))'
  <2>1. /\ EarnedBy(b)' = S \cup {p} /\ p \notin S /\ S \subseteq Recorded
        /\ IsFiniteSet(S)
    <3>1. EarnedBy(b)' = S \cup {p} /\ p \notin S /\ S \subseteq Recorded
      BY <1>1, <1>2 DEF EarnedBy, Settled, Recorded, SettledTypeOK
    <3>2. S \subseteq Settled  BY DEF EarnedBy
    <3> QED  BY <3>1, <3>2, FS_Subset DEF Earned
  <2>2. \A q \in Recorded : Amount(q) \in Nat
    BY RecordedTyped, PaymentsAssumption
  <2>3. /\ \A q \in S : old[q] \in Nat /\ new[q] = old[q]
        /\ new[p] = Amount(p) /\ new[p] \in Nat
        /\ DOMAIN old = S /\ DOMAIN new = S \cup {p}
    BY <1>1, <1>4, <2>1, <2>2 DEF AmountsOf
  <2>4. Cardinality(EarnedBy(b)') = Cardinality(S) + 1
    BY <2>1, FS_AddElement
  <2>5. earnings[b] = [total |-> SumFunction(old), count |-> Cardinality(S)]
    BY DEF Earned
  <2> HIDE DEF S, old, new
  <2>6. SumFunctionOnSet(new, S \cup {p}) = SumFunctionOnSet(old, S) + new[p]
    BY <2>1, <2>3, SumAdd
  <2>7. SumFunction(new) = SumFunction(old) + Amount(p)
    BY <2>3, <2>6 DEF SumFunction
  <2> QED  BY <1>2, <2>4, <2>5, <2>7 DEF SettledTypeOK, new
<1> QED  BY <1>3, <1>5, <1>6 DEF Earned

LEMMA EarnedStep ==
    ASSUME IInv, Earned, [Next]_vars
    PROVE  Earned'
<1>0. ReceiptsTypeOK /\ SettledTypeOK /\ MarketTypeOK  BY TypeParts DEF IInv
<1>1. CASE UNCHANGED <<payments, settled>>
  BY <1>0, <1>1, EarnedKept DEF payments, Settled, Recorded
<1>2. ASSUME NEW p \in Receipts, NEW r \in Resources, NEW payer \in Accounts, NEW amount \in Prices,
             NEW h \in Hashes, WritePayment(p, r, payer, amount, h)
      PROVE  Earned'
  <2>1. Settled' = Settled /\ \A q \in Recorded : receipt'[q] = receipt[q]
    BY <1>0, <1>2, WriteEffect
  <2>2. UNCHANGED settled  BY <1>2 DEF WritePayment
  <2> QED  BY <1>0, <2>1, <2>2, EarnedKept
<1>3. ASSUME NEW p \in Receipts, SettlePayment(p)  PROVE Earned'
  BY <1>0, <1>3, EarnedSettle
<1>4. ASSUME NEW f \in RefundIds, NEW p \in Receipts, NEW amount \in RefundAmounts,
             NEW h \in Hashes, Refund(f, p, amount, h)
      PROVE  Earned'
  BY <1>1, <1>4 DEF Refund, RecordRefund
<1>5. CASE Quiet  BY <1>1, <1>5 DEF Quiet
<1>6. CASE AdminConfiguration  BY <1>1, <1>6 DEF AdminConfiguration
<1> QED  BY <1>2, <1>3, <1>4, <1>5, <1>6, Calls

RefundsOf(p) == {f \in Refunds : refund[f].payment = p}
RefundAmount(fs) == [f \in fs |-> refund[f].amount]

\* The refunds of a receipt are finitely many and add up to its refunded
\* amount, and the last of them left what is left: none left less.
AddedUp ==
    /\ IsFiniteSet(Refunds)
    /\ \A p \in Receipts :
          /\ refunded[p] = SumFunction(RefundAmount(RefundsOf(p)))
          /\ \A f \in RefundsOf(p) : refund[f].left >= Amount(p) - refunded[p]
          /\ RefundsOf(p) # {} =>
                \E f \in RefundsOf(p) : refund[f].left = Amount(p) - refunded[p]

LEMMA AddedUpInit ==
    ASSUME Init
    PROVE  AddedUp
<1>1. Refunds = {} /\ \A p \in Receipts : RefundsOf(p) = {}
  BY DEF Init, Refunds, RefundsOf
<1>2. SumFunction(RefundAmount({})) = 0
  BY SumEmpty DEF SumFunction, RefundAmount
<1> QED  BY <1>1, <1>2, FS_EmptySet DEF Init, AddedUp

\* A refunded receipt is recorded: its amount stays what it is.
LEMMA RefundsOnRecord ==
    ASSUME IInv, AddedUp, NEW p \in Receipts, RefundsOf(p) # {}
    PROVE  p \in Recorded
<1> PICK f \in RefundsOf(p) : TRUE  OBVIOUS
<1> DEFINE S == RefundsOf(p)
           amount == RefundAmount(S)
<1>0. /\ RefundsTypeOK /\ \A q \in Receipts : refunded[q] > 0 => q \in Settled
  BY TypeParts DEF IInv, RefundsCapped
<1>1. S \subseteq Refunds /\ IsFiniteSet(S)
  BY FS_Subset DEF RefundsOf, AddedUp
<1>2. /\ \A g \in S : amount[g] \in Nat /\ amount[g] > 0
      /\ DOMAIN amount = S
  BY <1>0, <1>1, PaymentsAssumption DEF RefundAmount, RefundsTypeOK, RefundReceipts, Refunds
<1>3. SumFunction(amount) = refunded[p]  BY DEF AddedUp
<1>4. f \in S /\ S \ {f} \subseteq S  OBVIOUS
<1> HIDE DEF S, amount
<1>5. /\ SumFunctionOnSet(amount, S) = amount[f] + SumFunctionOnSet(amount, S \ {f})
      /\ SumFunctionOnSet(amount, S \ {f}) \in Nat
  BY <1>1, <1>2, <1>4, SumRemove, FS_Subset
<1>6. refunded[p] > 0
  BY <1>2, <1>3, <1>4, <1>5 DEF SumFunction
<1> QED  BY <1>0, <1>6 DEF Settled

\* Refunds left alone still add up, whatever is recorded or settled.
LEMMA AddedUpKept ==
    ASSUME IInv, AddedUp, UNCHANGED refunds,
           \A p \in Recorded : receipt'[p].terms = receipt[p].terms
    PROVE  AddedUp'
<1>1. Refunds' = Refunds /\ \A p \in Receipts : RefundsOf(p)' = RefundsOf(p)
  BY DEF refunds, Refunds, RefundsOf
<1>2. ASSUME NEW p \in Receipts  PROVE RefundAmount(RefundsOf(p))' = RefundAmount(RefundsOf(p))
  BY <1>1 DEF RefundAmount, refunds
<1>3. \A p \in Recorded : Amount(p)' = Amount(p)  BY DEF Amount
<1> QED  BY <1>1, <1>2, <1>3, RefundsOnRecord DEF AddedUp, refunds

\* A refund is added, and leaves less than those before it.
LEMMA AddedUpRefund ==
    ASSUME IInv, AddedUp, NEW f \in RefundIds, NEW p \in Receipts,
           NEW amount \in RefundAmounts, NEW h \in Hashes, Refund(f, p, amount, h)
    PROVE  AddedUp'
<1>0. ReceiptsTypeOK /\ RefundsTypeOK  BY TypeParts DEF IInv
<1>1. /\ RefundsTypeOK'
      /\ f \notin Refunds /\ Refunds' = Refunds \cup {f}
      /\ \A g \in RefundIds \ {f} : refund'[g] = refund[g]
      /\ refund'[f].payment = p
  BY <1>0, RefundEffect
<1>2. /\ UNCHANGED payments
      /\ refunded' = [refunded EXCEPT ![p] = @ + amount]
      /\ amount \in Int /\ amount > 0 /\ p \in Settled
      /\ refund'[f].amount = amount
      /\ refund'[f].left = Amount(p) - (refunded[p] + amount)
  <2> PICK to \in Accounts, by \in Accounts \cup {Admin}, override \in BOOLEAN :
              RecordRefund(f, p, to, amount, h, by, override)
    BY DEF Refund
  <2> QED  BY <1>0, PaymentsAssumption DEF RecordRefund, Remaining, RefundsTypeOK
<1>3. \A q \in Receipts : Amount(q)' = Amount(q)  BY <1>2 DEF Amount, payments
<1>4. IsFiniteSet(Refunds')  BY <1>1, FS_AddElement DEF AddedUp
<1>5. \A g \in Refunds : g \in RefundIds /\ g # f /\ refund'[g] = refund[g]
  BY <1>1 DEF Refunds
<1>6. ASSUME NEW q \in Receipts, q # p
      PROVE  /\ refunded'[q] = SumFunction(RefundAmount(RefundsOf(q)))'
             /\ \A g \in RefundsOf(q)' : refund'[g].left >= Amount(q)' - refunded'[q]
             /\ RefundsOf(q)' # {} =>
                   \E g \in RefundsOf(q)' : refund'[g].left = Amount(q)' - refunded'[q]
  <2>1. RefundsOf(q)' = RefundsOf(q) /\ RefundsOf(q) \subseteq Refunds
    BY <1>1, <1>5, <1>6 DEF RefundsOf
  <2>2. RefundAmount(RefundsOf(q))' = RefundAmount(RefundsOf(q))
    BY <1>5, <2>1 DEF RefundAmount
  <2>3. refunded'[q] = refunded[q]  BY <1>0, <1>2, <1>6 DEF RefundsTypeOK
  <2>4. \A g \in RefundsOf(q) : refund'[g] = refund[g]  BY <1>5, <2>1
  <2> QED  BY <1>3, <2>1, <2>2, <2>3, <2>4 DEF AddedUp
<1>7. /\ RefundsOf(p)' = RefundsOf(p) \cup {f} /\ f \notin RefundsOf(p)
      /\ RefundsOf(p) \subseteq Refunds /\ IsFiniteSet(RefundsOf(p))
  <2>1. /\ RefundsOf(p)' = RefundsOf(p) \cup {f} /\ f \notin RefundsOf(p)
        /\ RefundsOf(p) \subseteq Refunds
    BY <1>1, <1>5 DEF RefundsOf
  <2> QED  BY <2>1, FS_Subset DEF AddedUp
<1>8. /\ refunded'[p] = refunded[p] + amount /\ refunded[p] \in Nat
      /\ Amount(p) \in Nat
  BY <1>0, <1>2, RecordedTyped, PaymentsAssumption DEF RefundsTypeOK, Settled
<1>9. refunded'[p] = SumFunction(RefundAmount(RefundsOf(p)))'
  <2> DEFINE S == RefundsOf(p)
             old == RefundAmount(S)
             new == RefundAmount(RefundsOf(p))'
  <2>1. \A g \in S : refund[g].amount \in Nat /\ refund'[g] = refund[g]
    BY <1>0, <1>5, <1>7, PaymentsAssumption DEF RefundsTypeOK, RefundReceipts, Refunds
  <2>2. /\ \A g \in S : old[g] \in Nat /\ new[g] = old[g]
        /\ new[f] = amount /\ amount \in Nat
        /\ DOMAIN old = S /\ DOMAIN new = S \cup {f}
    BY <1>2, <1>7, <2>1 DEF RefundAmount
  <2>3. f \notin S /\ IsFiniteSet(S)  BY <1>7
  <2>4. refunded[p] = SumFunction(old)  BY DEF AddedUp
  <2> HIDE DEF S, old, new
  <2>5. SumFunctionOnSet(new, S \cup {f}) = SumFunctionOnSet(old, S) + new[f]
    BY <2>2, <2>3, SumAdd
  <2>6. SumFunction(new) = SumFunction(old) + amount
    BY <2>2, <2>5 DEF SumFunction
  <2> QED  BY <1>8, <2>4, <2>6 DEF new
<1>10. refund'[f].left = Amount(p)' - refunded'[p]  BY <1>2, <1>3, <1>8
<1>11. ASSUME NEW g \in RefundsOf(p)  PROVE refund'[g].left >= Amount(p)' - refunded'[p]
  <2>1. /\ refund'[g].left = refund[g].left /\ refund[g].left \in Int
        /\ refund[g].left >= Amount(p) - refunded[p]
    BY <1>0, <1>5, <1>7, PaymentsAssumption
       DEF AddedUp, RefundsTypeOK, RefundReceipts, Refunds
  <2> QED  BY <1>2, <1>3, <1>8, <2>1
<1>12. refund'[f].left >= Amount(p)' - refunded'[p]
  BY <1>2, <1>3, <1>8, <1>10
<1> QED  BY <1>4, <1>6, <1>7, <1>9, <1>10, <1>11, <1>12 DEF AddedUp

LEMMA AddedUpStep ==
    ASSUME IInv, AddedUp, [Next]_vars
    PROVE  AddedUp'
<1>0. ReceiptsTypeOK /\ MarketTypeOK  BY TypeParts DEF IInv
<1>1. CASE UNCHANGED <<payments, refunds>>
  BY <1>1, AddedUpKept DEF payments
<1>2. ASSUME NEW p \in Receipts, NEW r \in Resources, NEW payer \in Accounts, NEW amount \in Prices,
             NEW h \in Hashes, WritePayment(p, r, payer, amount, h)
      PROVE  AddedUp'
  <2>1. \A q \in Recorded : receipt'[q] = receipt[q]  BY <1>0, <1>2, WriteEffect
  <2>2. UNCHANGED refunds  BY <1>2 DEF WritePayment
  <2> QED  BY <2>1, <2>2, AddedUpKept
<1>3. ASSUME NEW p \in Receipts, SettlePayment(p)  PROVE AddedUp'
  <2>1. \A q \in Recorded : receipt'[q].terms = receipt[q].terms  BY <1>0, <1>3, SettleEffect
  <2>2. UNCHANGED refunds  BY <1>3 DEF SettlePayment
  <2> QED  BY <2>1, <2>2, AddedUpKept
<1>4. CASE Quiet  BY <1>1, <1>4 DEF Quiet
<1>5. CASE AdminConfiguration  BY <1>1, <1>5 DEF AdminConfiguration
<1> QED  BY <1>2, <1>3, <1>4, <1>5, AddedUpRefund, Calls

\* What is left of a payment is the least of what its refunds left.
LEMMA AddedUpMeans ==
    ASSUME IInv, AddedUp
    PROVE  RefundsAddUp
<1>0. RefundsTypeOK /\ ReceiptsTypeOK  BY TypeParts DEF IInv
<1> SUFFICES ASSUME NEW p \in Receipts
             PROVE  /\ refunded[p] = SumFunction(RefundAmount(RefundsOf(p)))
                    /\ RefundsOf(p) # {} =>
                          Amount(p) - refunded[p] = Min({refund[f].left : f \in RefundsOf(p)})
  BY DEF RefundsAddUp, RefundsOf, RefundAmount
<1>1. ASSUME RefundsOf(p) # {}
      PROVE  Amount(p) - refunded[p] = Min({refund[f].left : f \in RefundsOf(p)})
  <2> DEFINE lefts == {refund[f].left : f \in RefundsOf(p)}
             least == Amount(p) - refunded[p]
  <2>1. lefts \subseteq Int
    BY <1>0, PaymentsAssumption DEF RefundsOf, Refunds, RefundsTypeOK, RefundReceipts
  <2>2. least \in lefts /\ \A x \in lefts : least <= x
    <3>1. least \in lefts  BY <1>1 DEF AddedUp
    <3>2. \A f \in RefundsOf(p) : refund[f].left >= least  BY DEF AddedUp
    <3> QED  BY <2>1, <3>1, <3>2
  <2> HIDE DEF lefts, least
  <2>3. \A x \in lefts : (\A y \in lefts : x <= y) => x = least
    BY <2>1, <2>2
  <2>4. Min(lefts) = least  BY <2>2, <2>3 DEF Min
  <2> QED  BY <2>4 DEF lefts, least
<1> QED  BY <1>1 DEF AddedUp

---------------------------------------------------------------------------
(* Theorems *)

\* Every entry keeps its type: in particular the refunded amount and the
\* remaining balance of every refund stay between 0 and MAX_PRICE.
THEOREM PaymentsTyped == Spec => []TypeOK
BY Invariant, PTL DEF IInv

\* Refunds never exceed the settled payment they belong to.
THEOREM PaymentsRefundsCapped == Spec => []RefundsCapped
BY Invariant, PTL DEF IInv

\* Receipts, refunds and the three secondary indexes agree.
THEOREM PaymentsIndexesAgree == Spec => []IndexesAgree
BY Invariant, PTL DEF IInv

\* All unclaimed fees belong to the present fee recipient.
THEOREM PaymentsFeesForCurrentRecipient == Spec => []FeesForCurrentRecipient
BY Invariant, PTL DEF IInv

\* The burn or charity route always fits the fee configuration.
THEOREM PaymentsRouteFeasible == Spec => []RouteFeasible
BY Invariant, PTL DEF IInv

\* An account's earnings are the payments settled while it owned the resource,
\* each counted once, for any number of receipts.
THEOREM PaymentsEarningsExact == Spec => []EarningsExact
<1>1. Spec => []Earned  BY EarnedInit, EarnedStep, Invariant, PTL DEF Spec
<1>2. Earned => EarningsExact  BY DEF Earned, EarningsExact, EarnedBy, AmountsOf
<1> QED  BY <1>1, <1>2, PTL

\* The refunded amount of a receipt is the sum of its refunds, and the least
\* remaining_balance among them is what can still be refunded.
THEOREM PaymentsRefundsAddUp == Spec => []RefundsAddUp
<1>1. Spec => []AddedUp  BY AddedUpInit, AddedUpStep, Invariant, PTL DEF Spec
<1> QED  BY <1>1, AddedUpMeans, Invariant, PTL

\* Deadlines are given at settlement and never move; creator refunds obey them.
THEOREM PaymentsRefundWindowKept == Spec => RefundWindowKept
<1> DEFINE Step ==
      /\ \A p \in Settled : deadline[p] # NoEntry /\ deadline'[p] = deadline[p]
      /\ \A f \in RefundIds \ Refunds :
            refund'[f] # NoEntry /\ ~refund'[f].override => ledger < deadline[refund'[f].payment]
<1>1. ASSUME IInv, [Next]_vars  PROVE Step
  <2>0. /\ ReceiptsTypeOK /\ RefundsTypeOK /\ SettledTypeOK
        /\ \A p \in Settled : deadline[p] # NoEntry
    BY <1>1, TypeParts DEF IInv, DeadlinesGiven
  <2>1. CASE UNCHANGED <<refunds, settled>>
    BY <2>0, <2>1 DEF refunds, settled, Refunds
  <2>2. ASSUME NEW p \in Receipts, SettlePayment(p)  PROVE Step
    <3>1. p \notin Settled /\ deadline' = [deadline EXCEPT ![p] = ledger + window] /\ refund' = refund
      BY <2>2 DEF SettlePayment, MaySettle, refunds
    <3> QED  BY <2>0, <3>1 DEF SettledTypeOK, Refunds, Settled, Recorded
  <2>3. ASSUME NEW f \in RefundIds, NEW p \in Receipts, NEW amount \in RefundAmounts,
               NEW h \in Hashes, Refund(f, p, amount, h)
        PROVE  Step
    <3>1. PICK to \in Accounts, by \in Accounts \cup {Admin}, override \in BOOLEAN :
              RecordRefund(f, p, to, amount, h, by, override)
      BY <2>3 DEF Refund
    <3> DEFINE new == [payment |-> p, amount |-> amount, hash |-> h, by |-> by,
                       override |-> override, left |-> Remaining(p, amount)]
    <3>2. refund' = [refund EXCEPT ![f] = new] /\ UNCHANGED settled /\ p \in Settled
      BY <3>1 DEF RecordRefund
    <3>3. ~new.override => ledger < deadline[p]
      BY <2>0, <3>1, <3>2 DEF RecordRefund, RefundDeadline
    <3>4. new.payment = p  OBVIOUS
    <3> HIDE DEF new
    <3>5. \A g \in RefundIds \ Refunds :
             refund'[g] # NoEntry /\ ~refund'[g].override => ledger < deadline[refund'[g].payment]
      BY <2>0, <3>2, <3>3, <3>4 DEF RefundsTypeOK, Refunds
    <3> QED  BY <2>0, <3>2, <3>5 DEF settled
  <2>4. CASE Quiet  BY <2>1, <2>4 DEF Quiet
  <2>5. CASE \E p \in Receipts, r \in Resources, payer \in Accounts, amount \in Prices, h \in Hashes :
               amount > 0 /\ WritePayment(p, r, payer, amount, h)
    BY <2>1, <2>5 DEF WritePayment
  <2>6. CASE AdminConfiguration  BY <2>1, <2>6 DEF AdminConfiguration
  <2> HIDE DEF Step
  <2> QED  BY <1>1, <2>2, <2>3, <2>4, <2>5, <2>6, Calls
<1>2. IInv /\ [Next]_vars => [Step]_vars  BY <1>1
<1> QED  BY <1>2, Invariant, PTL DEF Spec, RefundWindowKept

\* Receipts implement Purchases: every call is one of its steps or none.
THEOREM PaymentsImplementPurchases == Spec => ImplementsPurchases
<1> DEFINE mapped == <<[p \in Receipts |-> IF receipt[p] = NoEntry THEN NoEntry ELSE receipt[p].terms],
                       Settled, refunded>>
<1>1. Init => Ledger!Init
  <2> SUFFICES ASSUME Init  PROVE Ledger!Init  OBVIOUS
  <2>1. Settled = {}  BY DEF Init, Settled, Recorded
  <2> QED  BY <2>1 DEF Init, Ledger!Init
<1>2. ASSUME IInv, [Next]_vars  PROVE [Ledger!Next]_mapped
  <2>0. /\ ReceiptsTypeOK /\ RefundsTypeOK /\ MarketTypeOK
    BY <1>2, TypeParts DEF IInv
  <2>1. CASE UNCHANGED <<payments, refunds>>
    BY <2>1 DEF payments, refunds, Settled, Recorded
  <2>2. ASSUME NEW p \in Receipts, NEW r \in Resources, NEW payer \in Accounts, NEW amount \in Prices,
               NEW h \in Hashes, WritePayment(p, r, payer, amount, h)
        PROVE  Ledger!Next
    <3>1. /\ p \notin Recorded /\ Recorded' = Recorded \cup {p} /\ Settled' = Settled
          /\ \A q \in Recorded : receipt'[q] = receipt[q]
          /\ receipt'[p].terms \in Terms
      BY <2>0, <2>2, WriteEffect
    <3>2. refunded' = refunded  BY <2>2 DEF WritePayment, refunds
    <3> DEFINE termsOf == [q \in Receipts |-> IF receipt[q] = NoEntry THEN NoEntry ELSE receipt[q].terms]
    <3>a. receipt[p] = NoEntry /\ receipt'[p] # NoEntry  BY <3>1 DEF Recorded
    <3>b. ASSUME NEW q \in Receipts, q # p
          PROVE  (IF receipt[q] = NoEntry THEN NoEntry ELSE receipt[q].terms)'
                     = IF receipt[q] = NoEntry THEN NoEntry ELSE receipt[q].terms
      BY <3>1, <3>b DEF Recorded
    <3>c. termsOf' = [termsOf EXCEPT ![p] = receipt'[p].terms]
      BY <3>a, <3>b
    <3>d. termsOf[p] = NoEntry  BY <3>a
    <3>e. PICK t \in Terms : t = receipt'[p].terms  BY <3>1
    <3>3. Ledger!Record(p, t)
      BY <3>1, <3>2, <3>c, <3>d, <3>e DEF Ledger!Record
    <3> QED  BY <3>3 DEF Ledger!Next
  <2>3. ASSUME NEW p \in Receipts, SettlePayment(p)  PROVE Ledger!Next
    <3>1. /\ p \in Recorded \ Settled /\ Recorded' = Recorded /\ Settled' = Settled \cup {p}
          /\ \A q \in Recorded : receipt'[q].terms = receipt[q].terms
      BY <2>0, <2>3, SettleEffect
    <3>2. refunded' = refunded  BY <2>3 DEF SettlePayment, refunds
    <3>3. receipt[p].terms # NoEntry
      BY <2>0, <3>1, RecordedTyped, ReceiptAssumption
    <3>4. Ledger!Settle(p)
      BY <3>1, <3>2, <3>3 DEF Ledger!Settle, Recorded
    <3> QED  BY <3>4 DEF Ledger!Next
  <2>4. ASSUME NEW f \in RefundIds, NEW p \in Receipts, NEW amount \in RefundAmounts,
               NEW h \in Hashes, Refund(f, p, amount, h)
        PROVE  Ledger!Next
    <3>1. /\ UNCHANGED payments
          /\ refunded' = [refunded EXCEPT ![p] = @ + amount]
          /\ p \in Settled /\ amount + refunded[p] <= Amount(p)
          /\ amount \in Int /\ amount > 0
      BY <2>4, PaymentsAssumption DEF Refund, RecordRefund, Covered
    <3>2. Amount(p) \in Int /\ refunded[p] \in Nat /\ p \in Recorded
      BY <2>0, <3>1, RecordedTyped, PaymentsAssumption DEF RefundsTypeOK, Settled
    <3>3. amount \in 1 .. Amount(p) /\ refunded[p] + amount <= Amount(p)
      BY <2>0, <3>1, <3>2 DEF RefundsTypeOK
    <3>4. Ledger!GiveBack(p, amount)
      BY <3>1, <3>2, <3>3 DEF Ledger!GiveBack, payments, Recorded, Settled, Amount
    <3> QED  BY <3>1, <3>2, <3>3, <3>4 DEF Ledger!Next, Amount, Recorded
  <2>5. CASE Quiet  BY <2>1, <2>5 DEF Quiet
  <2>6. CASE AdminConfiguration  BY <2>1, <2>6 DEF AdminConfiguration
  <2> HIDE DEF mapped
  <2> QED  BY <1>2, <2>2, <2>3, <2>4, <2>5, <2>6, Calls
<1> QED  BY <1>1, <1>2, Invariant, PTL DEF Spec, ImplementsPurchases, Ledger!Spec
=============================================================================
