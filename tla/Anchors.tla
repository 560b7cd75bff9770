------------------------------ MODULE Anchors ------------------------------
(***************************************************************************)
(* Purchase receipt anchors of the vault-registry contract: one hash per   *)
(* (resource, buyer) pair, written by a verifier, by the settler from the  *)
(* payment of the pair, or overwritten by the admin.  Attempts a verifier  *)
(* makes in vain are counted and throttled; failures a settler reports are *)
(* kept for the buyer.  The anchor's and the failure record's ledger, and  *)
(* the hash a failure record repeats, are left out: nothing reads them.    *)
(* A call that is refused, for its signer or by a pause, is no step.       *)
(***************************************************************************)
EXTENDS Naturals, Sequences

CONSTANTS
    Resources,      \* resource ids
    Buyers,         \* accounts that buy
    Hashes,         \* receipt hashes of admissible length
    BadHash,        \* the empty hash and those over MAX_TX_HASH_LEN
    NoHash,         \* no entry
    MaxAttempts,    \* MAX_ANCHOR_ATTEMPTS
    Backoff,        \* ANCHOR_RETRY_BACKOFF_LEDGERS
    MaxLedger       \* the last ledger of a behaviour

Pairs == Resources \X Buyers
NoPair == <<>>

ASSUME AnchorsAssumption ==
    /\ NoHash \notin Hashes \cup {BadHash} /\ BadHash \notin Hashes
    /\ MaxAttempts \in Nat /\ Backoff \in Nat /\ MaxLedger \in Nat

Reasons == {"VerifierUnavailable", "NoPaymentRecorded", "InvalidReceiptHash",
            "ReceiptHashMismatch", "DuplicateReceipt"}

VARIABLES
    registered, \* the ids under Resource(id)
    latest,     \* tx_hash of the receipt PaymentIndex(resource, buyer) names
    paidBy,     \* the pair whose receipt PaymentTxHash(hash) names
    anchor,     \* PurchaseReceipt(resource, buyer).receipt_hash
    attempts,   \* AnchorAttempts(resource, buyer)
    failure,    \* AnchorFailure(resource, buyer).reason
    ledger,     \* env.ledger().sequence()
    writer,     \* history: who wrote the anchor
    rejections  \* history: ledgers of the rejections since the anchor was last written

payments == <<registered, latest, paidBy>>
history  == <<writer, rejections>>
vars == <<payments, anchor, attempts, failure, ledger, history>>

NoAttempts == [count |-> 0, last |-> 0]

Init ==
    /\ registered = {}
    /\ latest = [p \in Pairs |-> NoHash]
    /\ paidBy = [h \in Hashes |-> NoPair]
    /\ anchor = [p \in Pairs |-> NoHash]
    /\ attempts = [p \in Pairs |-> NoAttempts]
    /\ failure = [p \in Pairs |-> "None"]
    /\ ledger = 0
    /\ writer = [p \in Pairs |-> "None"]
    /\ rejections = [p \in Pairs |-> <<>>]

----------------------------------------------------------------------------
\* What anchors see of Catalog and Payments.

Register(r) ==
    /\ r \notin registered
    /\ registered' = registered \cup {r}
    /\ UNCHANGED <<latest, paidBy, anchor, attempts, failure, ledger, history>>

\* write_payment: a new receipt under an unused hash becomes the pair's latest.
WritePayment(p, h) ==
    /\ p[1] \in registered /\ paidBy[h] = NoPair
    /\ paidBy' = [paidBy EXCEPT ![h] = p]
    /\ latest' = [latest EXCEPT ![p] = h]
    /\ UNCHANGED <<registered, anchor, attempts, failure, ledger, history>>

----------------------------------------------------------------------------
\* A written anchor ends the pair's retry history and its failure record.
ClearedFailure_IfAnchoredBefore(p) ==
    IF anchor[p] # NoHash THEN [failure EXCEPT ![p] = "None"] ELSE failure
ClearedFailure(p) == [failure EXCEPT ![p] = "None"]

WriteAnchor(p, h, by) ==
    /\ anchor' = [anchor EXCEPT ![p] = h]
    /\ attempts' = [attempts EXCEPT ![p] = NoAttempts]
    /\ failure' = ClearedFailure(p)
    /\ writer' = [writer EXCEPT ![p] = by]
    /\ rejections' = [rejections EXCEPT ![p] = <<>>]
    /\ UNCHANGED <<payments, ledger>>

\* anchor_blocker returns None.
Anchorable(p, h) == p[1] \in registered /\ h \in Hashes /\ anchor[p] = NoHash

\* A verifier anchors or is refused.
AnchorPurchaseReceipt(p, h) == Anchorable(p, h) /\ WriteAnchor(p, h, "Verifier")

\* Whether an attempt fails fast, before any check and without a write.
Throttled_AfterOneLedger(p) ==
    \/ attempts[p].count >= MaxAttempts
    \/ attempts[p].count > 0 /\ ledger = attempts[p].last
Throttled(p) ==
    \/ attempts[p].count >= MaxAttempts
    \/ attempts[p].count > 0 /\ ledger < attempts[p].last + Backoff

RejectAttempt(p) ==
    /\ attempts' = [attempts EXCEPT ![p] = [count |-> @.count + 1, last |-> ledger]]
    /\ rejections' = [rejections EXCEPT ![p] = Append(@, ledger)]
    /\ UNCHANGED <<payments, anchor, failure, ledger, writer>>

\* A verifier anchors, and a rejection is recorded instead of undone.
AttemptAnchor(p, h) ==
    /\ ~Throttled(p)
    /\ \/ Anchorable(p, h) /\ WriteAnchor(p, h, "Verifier")
       \/ ~Anchorable(p, h) /\ RejectAttempt(p)

\* The admin replaces the hash of an anchor that exists.
OverrideAnchor(p, h) == anchor[p] # NoHash /\ h \in Hashes /\ WriteAnchor(p, h, "Admin")

Report(p, reason) ==
    /\ failure' = [failure EXCEPT ![p] = reason]
    /\ UNCHANGED <<payments, anchor, attempts, ledger, history>>

\* A settler records that no verifier could anchor; a record that an anchor
\* has overtaken is retired.
RecordAnchorFailure(p, h) ==
    \/ /\ anchor[p] # NoHash
       /\ Report(p, "None")
    \/ /\ anchor[p] = NoHash /\ p[1] \in registered /\ h \in Hashes
       /\ Report(p, "VerifierUnavailable")

\* The hash a settler may anchor is that of the pair's latest payment.
Backed_ByAnyPayment(p, h) == h \in Hashes /\ paidBy[h] # NoPair
Backed(p, h) == h = latest[p]

\* A settler anchors the payment itself; every data problem is recorded.
RetryAnchor(p, h) ==
    \/ latest[p] = NoHash /\ Report(p, "NoPaymentRecorded")
    \/ latest[p] # NoHash /\ h \notin Hashes /\ Report(p, "InvalidReceiptHash")
    \/ latest[p] # NoHash /\ h \in Hashes /\ ~Backed(p, h) /\ Report(p, "ReceiptHashMismatch")
    \/ /\ latest[p] # NoHash /\ h \in Hashes /\ Backed(p, h)
       /\ \/ anchor[p] = NoHash /\ WriteAnchor(p, h, "Settler")
          \/ anchor[p] = h /\ UNCHANGED vars
          \/ anchor[p] \notin {NoHash, h} /\ Report(p, "DuplicateReceipt")

AdvanceLedger ==
    /\ ledger < MaxLedger
    /\ ledger' = ledger + 1
    /\ UNCHANGED <<payments, anchor, attempts, failure, history>>

VerifierCall(p, h) == AnchorPurchaseReceipt(p, h) \/ AttemptAnchor(p, h)
SettlerCall(p, h)  == RecordAnchorFailure(p, h) \/ RetryAnchor(p, h)

Next ==
    \/ \E r \in Resources : Register(r)
    \/ \E p \in Pairs, h \in Hashes : WritePayment(p, h)
    \/ \E p \in Pairs, h \in Hashes \cup {BadHash} :
          VerifierCall(p, h) \/ OverrideAnchor(p, h) \/ SettlerCall(p, h)
    \/ AdvanceLedger

Spec == Init /\ [][Next]_vars

----------------------------------------------------------------------------
\* The types of the storage entries.
TypeOK ==
    /\ registered \subseteq Resources
    /\ latest \in [Pairs -> Hashes \cup {NoHash}]
    /\ paidBy \in [Hashes -> Pairs \cup {NoPair}]
    /\ anchor \in [Pairs -> Hashes \cup {NoHash}]
    /\ attempts \in [Pairs -> [count : 0 .. MaxAttempts, last : 0 .. MaxLedger]]
    /\ failure \in [Pairs -> Reasons \cup {"None"}]
    /\ ledger \in 0 .. MaxLedger
    /\ writer \in [Pairs -> {"None", "Verifier", "Settler", "Admin"}]
    /\ rejections \in [Pairs -> Seq(0 .. MaxLedger)]

\* "Anchor an immutable purchase receipt hash" (contract/README.md): of the
\* four calls that reach write_anchor only the admin's override changes one.
AnchorsPermanent ==
    [][\A p \in Pairs :
          anchor[p] # NoHash /\ anchor'[p] # anchor[p] =>
              anchor'[p] \in Hashes /\ writer'[p] = "Admin"]_vars

\* The settler's authority is narrower than the verifier's: what it anchored
\* is the hash of a payment this pair made, so no payment backs the anchors
\* of two pairs, although later payments replace the one it was checked with.
SettlerAnchorsBacked ==
    \A p \in Pairs : writer[p] = "Settler" => anchor[p] \in Hashes /\ paidBy[anchor[p]] = p

\* A buyer told that no verifier was available has no anchor: the record is
\* gone whichever path wrote the anchor, and none is written after it.
UnavailableMeansUnanchored ==
    \A p \in Pairs : failure[p] = "VerifierUnavailable" => anchor[p] = NoHash

\* The throttle holds over the whole history of a pair: the counter is the
\* number of rejections since the anchor was last written, never more than
\* MAX_ANCHOR_ATTEMPTS, any two of them ANCHOR_RETRY_BACKOFF_LEDGERS apart.
RejectionsSpaced ==
    \A p \in Pairs :
        /\ attempts[p].count = Len(rejections[p]) /\ Len(rejections[p]) <= MaxAttempts
        /\ \A i, j \in 1 .. Len(rejections[p]) :
              i < j => rejections[p][j] >= rejections[p][i] + Backoff
=============================================================================
