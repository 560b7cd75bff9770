------------------------------- MODULE Leases -------------------------------
(***************************************************************************)
(* Time-limited access leases of the vault-registry contract: one record   *)
(* per (resource, holder) pair, bought by the holder and confirmed by a    *)
(* settler, or recorded by the settler at once, and revoked by the         *)
(* resource's creator.  A lease grants access by ledger number, so that it *)
(* ends without a call.  The transaction hash is left out: nothing reads   *)
(* it.  A call that is refused, for its signer, for the amount it offers   *)
(* or by the registry's pause (Pauses), is no step.                        *)
(***************************************************************************)
EXTENDS Naturals, Sequences

CONSTANTS
    Vaults,         \* resource ids
    Holders,        \* accounts that lease
    Prices,         \* prices of one request
    TierLedgers,    \* LEASE_HOUR_LEDGERS, LEASE_DAY_LEDGERS, LEASE_WEEK_LEDGERS
    NoLease,        \* no Lease entry
    LastLedger,     \* the last ledger of a behaviour
    MaxWindows      \* the most windows of one holder in a behaviour

Tiers == {"Hour", "Day", "Week"}
LeaseStates == {"Pending", "Active", "Revoked"}
LeaseRecords == [tier : Tiers, start : Nat, expiry : Nat, amount : Nat, state : LeaseStates]
Tenancies == Vaults \X Holders

ASSUME LeasesAssumption ==
    /\ Prices \subseteq Nat \ {0}
    /\ TierLedgers \in [Tiers -> Nat \ {0}]
    /\ NoLease \notin LeaseRecords
    /\ LastLedger \in Nat /\ MaxWindows \in Nat

VARIABLES
    price,      \* Resource(id).price, 0 before the registration
    forSale,    \* ids whose Resource(id).state is Listed
    payPaused,  \* the payment pause is in force
    lease,      \* Lease(resource, holder)
    sequence,   \* env.ledger().sequence()
    windows     \* history: the ledgers each confirmed lease was sold for

catalog == <<price, forSale, payPaused>>
leasesVars == <<catalog, lease, sequence, windows>>

LeasesInit ==
    /\ price = [r \in Vaults |-> 0]
    /\ forSale = {}
    /\ payPaused = FALSE
    /\ lease = [p \in Tenancies |-> NoLease]
    /\ sequence = 0
    /\ windows = [p \in Tenancies |-> <<>>]

Known(r) == price[r] # 0

---------------------------------------------------------------------------
(* What leases see of Catalog, Payments and Pauses *)

RegisterVault(r, amount) ==
    /\ ~Known(r)
    /\ price' = [price EXCEPT ![r] = amount]
    /\ forSale' = forSale \cup {r}
    /\ UNCHANGED <<payPaused, lease, sequence, windows>>

RepriceVault(r, amount) ==
    /\ Known(r)
    /\ price' = [price EXCEPT ![r] = amount]
    /\ UNCHANGED <<forSale, payPaused, lease, sequence, windows>>

\* Any transition between Listed and another state.
ToggleSale(r) ==
    /\ Known(r)
    /\ forSale' = IF r \in forSale THEN forSale \ {r} ELSE forSale \cup {r}
    /\ UNCHANGED <<price, payPaused, lease, sequence, windows>>

TogglePaymentPause ==
    /\ payPaused' = ~payPaused
    /\ UNCHANGED <<price, forSale, lease, sequence, windows>>

NextLedger ==
    /\ sequence < LastLedger
    /\ sequence' = sequence + 1
    /\ UNCHANGED <<catalog, lease, windows>>

---------------------------------------------------------------------------
(* Prices and access *)

\* LEASE_HOUR_MULTIPLIER, LEASE_DAY_MULTIPLIER, LEASE_WEEK_MULTIPLIER
TierMultiplier == [Hour |-> 1, Day |-> 3, Week |-> 7]

LeasePrice(r, tier) == price[r] * TierMultiplier[tier]

GrantsAccess(p) ==
    lease[p] # NoLease /\ lease[p].state = "Active" /\ sequence < lease[p].expiry

Waiting(p) == lease[p] # NoLease /\ lease[p].state = "Pending"

StillOpen_Pending(p) == Waiting(p)
StillOpen(p) == Waiting(p) \/ GrantsAccess(p)

---------------------------------------------------------------------------
(* The four calls *)

WindowOf(l) == [from |-> l.start, to |-> l.expiry]

\* The window of a lease revoked now ends now, unless it is over already.
CutShort(s) ==
    LET last == s[Len(s)]
        end  == IF sequence < last.to THEN sequence ELSE last.to
    IN  [s EXCEPT ![Len(s)] = [from |-> last.from, to |-> end]]

\* The window opens in the ledger of the purchase, confirmed or not.
NewLease(r, tier, state) ==
    [tier |-> tier, start |-> sequence, expiry |-> sequence + TierLedgers[tier],
     amount |-> LeasePrice(r, tier), state |-> state]

WriteLease(p, tier, state) ==
    /\ Len(windows[p]) < MaxWindows
    /\ ~payPaused
    /\ Known(p[1]) /\ p[1] \in forSale
    /\ ~StillOpen(p)
    /\ lease' = [lease EXCEPT ![p] = NewLease(p[1], tier, state)]
    /\ UNCHANGED <<catalog, sequence>>

BuyLease(p, tier) ==
    /\ WriteLease(p, tier, "Pending")
    /\ UNCHANGED windows

RecordLease(p, tier) ==
    /\ WriteLease(p, tier, "Active")
    /\ windows' = [windows EXCEPT ![p] = Append(@, WindowOf(lease'[p]))]

Confirmed_WindowRestarts(l) ==
    [l EXCEPT !.state = "Active", !.start = sequence,
              !.expiry = sequence + TierLedgers[l.tier]]
Confirmed(l) == [l EXCEPT !.state = "Active"]

\* A late confirmation is accepted; it moves nothing but the state.
SettleLease(p) ==
    /\ ~payPaused
    /\ Waiting(p)
    /\ lease' = [lease EXCEPT ![p] = Confirmed(@)]
    /\ windows' = [windows EXCEPT ![p] = Append(@, WindowOf(lease[p]))]
    /\ UNCHANGED <<catalog, sequence>>

\* The creator's call; it does not look at the payment pause.
RevokeLease(p) ==
    /\ Known(p[1])
    /\ lease[p] # NoLease /\ lease[p].state # "Revoked"
    /\ lease' = [lease EXCEPT ![p] = [@ EXCEPT !.state = "Revoked"]]
    /\ windows' = IF Waiting(p) THEN windows
                  ELSE [windows EXCEPT ![p] = CutShort(@)]
    /\ UNCHANGED <<catalog, sequence>>

LeaseCall(p) ==
    \/ \E tier \in Tiers : BuyLease(p, tier) \/ RecordLease(p, tier)
    \/ SettleLease(p)
    \/ RevokeLease(p)

LeasesNext ==
    \/ \E r \in Vaults : \/ \E amount \in Prices : RegisterVault(r, amount) \/ RepriceVault(r, amount)
                         \/ ToggleSale(r)
    \/ TogglePaymentPause
    \/ NextLedger
    \/ \E p \in Tenancies : LeaseCall(p)

LeasesSpec == LeasesInit /\ [][LeasesNext]_leasesVars

---------------------------------------------------------------------------
(* Properties *)

\* The types of the storage entries; a confirmed lease has a window.
LeasesTypeOK ==
    /\ price \in [Vaults -> Prices \cup {0}]
    /\ forSale \subseteq Vaults
    /\ payPaused \in BOOLEAN
    /\ lease \in [Tenancies -> LeaseRecords \cup {NoLease}]
    /\ sequence \in 0 .. LastLedger
    /\ windows \in [Tenancies -> Seq([from : Nat, to : Nat])]

\* No holder pays twice for a ledger: over the whole history of a pair a
\* window begins no earlier than the one before ended, by its expiry or by
\* the creator's revocation, however purchases, late confirmations,
\* revocations and replacements follow each other (write_lease).
LedgersPaidOnce ==
    \A p \in Tenancies : \A i, j \in 1 .. Len(windows[p]) :
        i < j => windows[p][i].to <= windows[p][j].from

\* lease_is_active is "the read a paywall needs" (contract/README.md): it
\* answers from the last record alone, and yet says yes in exactly the
\* ledgers of the windows that were sold and confirmed, up to a revocation.
AccessAsConfirmed ==
    \A p \in Tenancies :
        GrantsAccess(p) <=> \E i \in 1 .. Len(windows[p]) :
                                windows[p][i].from <= sequence /\ sequence < windows[p][i].to

SameTerms(l, m) ==
    l.tier = m.tier /\ l.start = m.start /\ l.expiry = m.expiry /\ l.amount = m.amount

\* The terms a lease was sold under are locked: neither its confirmation, nor
\* a new price, nor its revocation changes them, a revoked lease never comes
\* back, and what takes its place starts in the ledger it is written.
TermsLocked ==
    [][\A p \in Tenancies :
          lease[p] # NoLease /\ lease'[p] # lease[p] =>
              \/ lease[p].state # "Revoked" /\ SameTerms(lease[p], lease'[p])
              \/ ~StillOpen(p) /\ lease'[p].start = sequence]_leasesVars

\* "When paused is true, payment, refund, anchor, and lease methods return
\* ContractPaused without modifying any state" (set_payment_paused).
PaymentPauseStopsLeases ==
    [][payPaused => lease' = lease]_leasesVars
=============================================================================
