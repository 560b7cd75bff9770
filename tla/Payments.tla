------------------------------ MODULE Payments ------------------------------
(***************************************************************************)
(* Payment receipts, settlement, refunds and creator earnings of the       *)
(* vault-registry contract.  A settler records a payment against a listed  *)
(* resource, settles it later, and the creator or the admin records the    *)
(* refunds.  The resource meanwhile changes hands, price and state: those  *)
(* calls are modelled here by what payments can see of them, and in full   *)
(* in Catalog.  Who holds a role, and when the contract is paused, is the  *)
(* subject of Governance and Pauses: a refused call is no step.            *)
(***************************************************************************)
EXTENDS Fees, FiniteSets, FiniteSetsExt, Functions

CONSTANTS
    Resources,      \* registered resource ids
    Receipts,       \* receipt ids
    RefundIds,      \* refund ids
    Hashes,         \* Stellar transaction hashes
    NoEntry,        \* no entry under this storage key
    Admin,          \* the account that records refunds by override
    Prices,         \* the prices and payments callers may ask for
    RefundAmounts,  \* the refunds callers may ask for
    MaxPrice,       \* MAX_PRICE
    Windows,        \* the refund windows the admin may ask for
    DefaultWindow,  \* DEFAULT_REFUND_WINDOW_LEDGERS
    MaxWindow,      \* MAX_REFUND_WINDOW_LEDGERS
    MaxLedger       \* the last ledger of a behaviour

ASSUME PaymentsAssumption ==
    /\ NoEntry \notin Accounts /\ NoEntry \notin Receipts /\ NoEntry \notin RefundIds
    /\ NoEntry \notin Nat
    /\ Prices \subseteq Int /\ RefundAmounts \subseteq Int /\ MaxPrice \in Nat /\ Windows \subseteq Nat
    /\ DefaultWindow \in Nat \ {0} /\ MaxWindow \in Nat /\ MaxLedger \in Nat

VARIABLES
    owner,      \* Resource.creator
    status,     \* Resource.state: "Listed", "Delisted", or "Held" for the rest
    price,      \* Resource.price
    receipt,    \* PaymentReceipt(id)
    payIndex,   \* PaymentIndex(resource, payer)
    payHash,    \* PaymentTxHash(hash)
    refund,     \* RefundReceipt(id)
    refundHash, \* RefundTxHash(hash)
    refunded,   \* RefundedAmount(receipt)
    deadline,   \* RefundDeadline(receipt)
    earnings,   \* CreatorEarnings(account)
    window,     \* refund_window()
    ledger,     \* env.ledger().sequence()
    credited    \* history: the account credited when the receipt was settled

market   == <<owner, status, price>>
payments == <<receipt, payIndex, payHash>>
refunds  == <<refund, refundHash, refunded>>
settled  == <<deadline, earnings, credited>>
vars == <<feeVars, market, payments, refunds, settled, window, ledger>>

Terms == [resource : Resources, payer : Accounts, amount : 1 .. MaxPrice,
          hash : Hashes, at : 0 .. MaxLedger]
PaymentReceipts == [terms : Terms, state : {"Escrowed", "Settled"}]
RefundReceipts ==
    [payment : Receipts, amount : 1 .. MaxPrice, hash : Hashes,
     by : Accounts \cup {Admin}, override : BOOLEAN, left : 0 .. MaxPrice]

ASSUME ReceiptAssumption == NoEntry \notin PaymentReceipts \cup RefundReceipts \cup Terms

Recorded == {p \in Receipts : receipt[p] # NoEntry}
Settled  == {p \in Recorded : receipt[p].state = "Settled"}
Refunds  == {f \in RefundIds : refund[f] # NoEntry}
Amount(p) == receipt[p].terms.amount

Init ==
    /\ FeesInit
    /\ owner \in [Resources -> Accounts]
    /\ status = [r \in Resources |-> "Listed"]
    /\ price \in [Resources -> Prices \cap 1 .. MaxPrice]
    /\ receipt = [p \in Receipts |-> NoEntry]
    /\ payIndex = [k \in Resources \X Accounts |-> NoEntry]
    /\ payHash = [h \in Hashes |-> NoEntry]
    /\ refund = [f \in RefundIds |-> NoEntry]
    /\ refundHash = [h \in Hashes |-> NoEntry]
    /\ refunded = [p \in Receipts |-> 0]
    /\ deadline = [p \in Receipts |-> NoEntry]
    /\ earnings = [a \in Accounts |-> [total |-> 0, count |-> 0]]
    /\ window = DefaultWindow
    /\ ledger = 0
    /\ credited = [p \in Receipts |-> NoEntry]

---------------------------------------------------------------------------
(* The market: transfers, lifecycle edges and set_price *)

ChangeOwner(r, to) ==
    /\ status[r] # "Held"
    /\ owner' = [owner EXCEPT ![r] = to]
    /\ UNCHANGED <<feeVars, status, price, payments, refunds, settled, window, ledger>>

ChangeStatus(r, next) ==
    /\ status' = [status EXCEPT ![r] = next]
    /\ UNCHANGED <<feeVars, owner, price, payments, refunds, settled, window, ledger>>

\* validate_price: more than the combined fee, in the unit the code compares.
PriceValid(amount) == amount \in 1 .. MaxPrice /\ amount > CombinedFee

SetPrice(r, amount) ==
    /\ PriceValid(amount)
    /\ status[r] # "Held"
    /\ price' = [price EXCEPT ![r] = amount]
    /\ UNCHANGED <<feeVars, owner, status, payments, refunds, settled, window, ledger>>

Market ==
    \/ \E r \in Resources, to \in Accounts : ChangeOwner(r, to)
    \/ \E r \in Resources, next \in {"Listed", "Delisted", "Held"} : ChangeStatus(r, next)
    \/ \E r \in Resources, amount \in Prices : SetPrice(r, amount)

---------------------------------------------------------------------------
(* Payments *)

\* A Stellar transaction backs at most one receipt.
HashFree_Unchecked(h) == TRUE
HashFree(h) == payHash[h] = NoEntry

\* ReceiptAlreadyExists: a receipt id is used once.
NewReceipt(p) == p \notin Recorded

\* write_payment, for a call that passed check_payment_args.
WritePayment(p, r, payer, amount, h) ==
    /\ status[r] = "Listed"
    /\ amount = price[r]
    /\ NewReceipt(p)
    /\ HashFree(h)
    /\ receipt' = [receipt EXCEPT ![p] =
           [terms |-> [resource |-> r, payer |-> payer, amount |-> amount,
                       hash |-> h, at |-> ledger],
            state |-> "Escrowed"]]
    /\ payIndex' = [payIndex EXCEPT ![<<r, payer>>] = p]
    /\ payHash' = [payHash EXCEPT ![h] = p]
    /\ UNCHANGED <<feeVars, market, refunds, settled, window, ledger>>

RecordPayment(p, r, payer, amount, h) ==
    /\ amount > 0
    /\ WritePayment(p, r, payer, amount, h)

\* record_payment_idempotent: a retry with the terms on record changes nothing.
RecordPaymentIdempotent(p, r, payer, amount, h) ==
    /\ amount > 0
    /\ \/ /\ p \in Recorded
          /\ <<r, payer, amount, h>> = LET t == receipt[p].terms
                                       IN  <<t.resource, t.payer, t.amount, t.hash>>
          /\ UNCHANGED vars
       \/ WritePayment(p, r, payer, amount, h)

\* CreatorEarnings of the account that owns the resource now.
Credit(p, a) ==
    earnings' = [earnings EXCEPT ![a] = [total |-> @.total + Amount(p), count |-> @.count + 1]]

\* InvalidPaymentTransition unless the receipt is Escrowed.
MaySettle_Again(p) == p \in Recorded
MaySettle(p) == p \in Recorded \ Settled

SettlePayment(p) ==
    /\ MaySettle(p)
    /\ receipt' = [receipt EXCEPT ![p].state = "Settled"]
    /\ LET a == owner[receipt[p].terms.resource]
       IN  Credit(p, a) /\ credited' = [credited EXCEPT ![p] = a]
    /\ deadline' = [deadline EXCEPT ![p] = ledger + window]
    /\ AccrueFees(Amount(p))
    /\ UNCHANGED <<market, payIndex, payHash, refunds, window, ledger>>

---------------------------------------------------------------------------
(* Refunds *)

\* The exclusive deadline of creator refunds; the fallback is for receipts
\* that were settled without one.
RefundDeadline_Moving(p) == receipt[p].terms.at + window
RefundDeadline(p) ==
    IF deadline[p] = NoEntry THEN receipt[p].terms.at + DefaultWindow ELSE deadline[p]

\* What is left of the payment covers the refund.
Covered_NotCumulative(p, amount) == amount <= Amount(p)
Covered(p, amount) == amount + refunded[p] <= Amount(p)

\* remaining_balance after this refund
Remaining_LastRefundOnly(p, amount) == Amount(p) - amount
Remaining(p, amount) == Amount(p) - (refunded[p] + amount)

\* record_refund.  PaymentRecipient is never written, so the authority over
\* creator refunds is Resource.creator at the time of the call.
RecordRefund(f, p, recipient, amount, h, by, override) ==
    /\ amount > 0
    /\ f \notin Refunds
    /\ refundHash[h] = NoEntry /\ payHash[h] = NoEntry
    /\ p \in Settled
    /\ recipient = receipt[p].terms.payer
    /\ ~override => by = owner[receipt[p].terms.resource] /\ ledger < RefundDeadline(p)
    /\ Covered(p, amount)
    /\ refund' = [refund EXCEPT ![f] =
           [payment |-> p, amount |-> amount, hash |-> h, by |-> by,
            override |-> override, left |-> Remaining(p, amount)]]
    /\ refunded' = [refunded EXCEPT ![p] = @ + amount]
    /\ refundHash' = [refundHash EXCEPT ![h] = f]
    /\ UNCHANGED <<feeVars, market, payments, settled, window, ledger>>

RecordCreatorRefund(f, p, recipient, amount, h, by) ==
    RecordRefund(f, p, recipient, amount, h, by, FALSE)

RecordAdminRefund(f, p, recipient, amount, h) ==
    RecordRefund(f, p, recipient, amount, h, Admin, TRUE)

SetRefundWindow(w) ==
    /\ w \in 1 .. MaxWindow
    /\ window' = w
    /\ UNCHANGED <<feeVars, market, payments, refunds, settled, ledger>>

---------------------------------------------------------------------------

AdvanceLedger ==
    /\ ledger < MaxLedger
    /\ ledger' = ledger + 1
    /\ UNCHANGED <<feeVars, market, payments, refunds, settled, window>>

AdminConfiguration ==
    /\ FeesNext
    /\ UNCHANGED <<market, payments, refunds, settled, window, ledger>>

SettlerCall ==
    \/ \E p \in Receipts, r \in Resources, payer \in Accounts, amount \in Prices, h \in Hashes :
          \/ RecordPayment(p, r, payer, amount, h)
          \/ RecordPaymentIdempotent(p, r, payer, amount, h)
    \/ \E p \in Receipts : SettlePayment(p)

RefundCall ==
    \E f \in RefundIds, p \in Receipts, to \in Accounts, amount \in RefundAmounts, h \in Hashes :
        \/ \E by \in Accounts : RecordCreatorRefund(f, p, to, amount, h, by)
        \/ RecordAdminRefund(f, p, to, amount, h)

Next ==
    \/ Market
    \/ SettlerCall
    \/ RefundCall
    \/ \E w \in Windows : SetRefundWindow(w)
    \/ AdminConfiguration
    \/ AdvanceLedger

Spec == Init /\ [][Next]_vars

---------------------------------------------------------------------------
(* Properties *)

TypeOK ==
    /\ FeesTypeOK
    /\ owner \in [Resources -> Accounts]
    /\ status \in [Resources -> {"Listed", "Delisted", "Held"}]
    /\ price \in [Resources -> 1 .. MaxPrice]
    /\ receipt \in [Receipts -> PaymentReceipts \cup {NoEntry}]
    /\ payIndex \in [Resources \X Accounts -> Receipts \cup {NoEntry}]
    /\ payHash \in [Hashes -> Receipts \cup {NoEntry}]
    /\ refund \in [RefundIds -> RefundReceipts \cup {NoEntry}]
    /\ refundHash \in [Hashes -> RefundIds \cup {NoEntry}]
    /\ refunded \in [Receipts -> 0 .. MaxPrice]
    /\ deadline \in [Receipts -> Nat \cup {NoEntry}]
    /\ earnings \in [Accounts -> [total : Nat, count : Nat]]
    /\ window \in Nat \ {0}
    /\ ledger \in 0 .. MaxLedger
    /\ credited \in [Receipts -> Accounts \cup {NoEntry}]

\* Only a settled payment is refunded, never by more than was paid, whatever
\* partial refunds the creator and the admin record, and in whatever order.
RefundsCapped ==
    \A p \in Receipts : refunded[p] > 0 => p \in Settled /\ refunded[p] <= Amount(p)

\* The three refund records tell the same story: RefundedAmount is the sum of
\* the refunds of the payment, and the smallest remaining_balance among them
\* is what get_remaining_refundable returns.
RefundsAddUp ==
    \A p \in Receipts : LET mine == {f \in Refunds : refund[f].payment = p} IN
        /\ refunded[p] = SumFunction([f \in mine |-> refund[f].amount])
        /\ mine # {} => Amount(p) - refunded[p] = Min({refund[f].left : f \in mine})

\* Payments and their secondary indexes agree, in both directions: a hash
\* leads to the one receipt it backs, and a pair of resource and payer to one
\* of its receipts exactly when it has any.  The same holds of refunds.
IndexesAgree ==
    /\ \A p \in Recorded : payHash[receipt[p].terms.hash] = p
    /\ \A h \in Hashes : payHash[h] # NoEntry =>
          payHash[h] \in Recorded /\ receipt[payHash[h]].terms.hash = h
    /\ \A r \in Resources, a \in Accounts :
          LET bought == {p \in Recorded : receipt[p].terms.resource = r /\ receipt[p].terms.payer = a}
          IN  IF bought = {} THEN payIndex[<<r, a>>] = NoEntry ELSE payIndex[<<r, a>>] \in bought
    /\ \A f \in Refunds : refundHash[refund[f].hash] = f

\* creator_earnings_estimate is what a scan of the receipts would give: an
\* account's total and count are those of the receipts settled while it owned
\* the resource, each counted once, through transfers before and after.
EarningsExact ==
    \A a \in Accounts : LET mine == {p \in Settled : credited[p] = a} IN
        earnings[a] = [total |-> SumFunction([p \in mine |-> Amount(p)]),
                       count |-> Cardinality(mine)]

\* A creator's refund is in time by the window in force when the payment was
\* settled: set_refund_window does not move a deadline that was given, and
\* nothing else does.
RefundWindowKept ==
    [][/\ \A p \in Settled : deadline[p] # NoEntry /\ deadline'[p] = deadline[p]
       /\ \A f \in RefundIds \ Refunds :
             refund'[f] # NoEntry /\ ~refund'[f].override => ledger < deadline[refund'[f].payment]]_vars

---------------------------------------------------------------------------
(* Receipts implement Purchases. *)

Ledger == INSTANCE Purchases WITH
    NoTerms <- NoEntry,
    terms <- [p \in Receipts |-> IF receipt[p] = NoEntry THEN NoEntry ELSE receipt[p].terms],
    settled <- Settled,
    returned <- refunded

\* A receipt's terms are recorded once and never change, it is settled once,
\* and refunds stay within what was paid, under every interleaving of retries,
\* settlements, refunds and changes of the resource.
ImplementsPurchases == Ledger!Spec
=============================================================================
