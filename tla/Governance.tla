----------------------------- MODULE Governance -----------------------------
(***************************************************************************)
(* Who governs the vault-registry contract: the admin, the two-step and    *)
(* time-boxed handover of the admin role, the recovery key that replaces a *)
(* lost admin, and the settler, moderator and verifier roles the admin     *)
(* grants, kept both as a flag per account and as a bounded, ordered list. *)
(* None of these calls looks at the pause.                                 *)
(***************************************************************************)
EXTENDS Naturals, Sequences, SequencesExt, Lists

CONSTANTS
    Addresses,      \* accounts
    NoAddress,      \* no entry under this key
    Roles,          \* the roles that have several holders
    MaxHolders,     \* MAX_ROLE_HOLDERS
    Duration,       \* ADMIN_NOMINATION_DURATION, in ledgers
    MinGap,         \* ADMIN_NOMINATION_MIN_GAP, in ledgers
    MaxLedger       \* the last ledger of a behaviour

ASSUME AddressAssumption == NoAddress \notin Addresses
ASSUME TermAssumption    == Duration \in Nat /\ MinGap \in Nat /\ MaxLedger \in Nat
ASSUME HoldersAssumption == MaxHolders \in Nat

NoOffer == [by |-> NoAddress, to |-> NoAddress, at |-> 0]

VARIABLES
    admin,          \* Admin
    recovery,       \* RecoveryAdmin
    nominee,        \* PendingAdmin
    nominatedAt,    \* PendingAdminNominatedAt
    expiry,         \* PendingAdminExpiry
    holders,        \* RoleHolders(role), in the order they were granted
    granted,        \* Verifier(a), Settler(a), Moderator(a)
    ledger,         \* env.ledger().sequence()
    signer,         \* the account whose require_auth the last call passed
    offer           \* history: the nomination in force, not withdrawn or used

nomination == <<nominee, nominatedAt, expiry, offer>>
roles      == <<holders, granted>>
vars == <<admin, recovery, nomination, roles, ledger, signer>>

Init ==
    /\ admin = NoAddress
    /\ recovery = NoAddress
    /\ nominee = NoAddress
    /\ nominatedAt = 0
    /\ expiry = 0
    /\ holders = [role \in Roles |-> <<>>]
    /\ granted = [role \in Roles |-> {}]
    /\ ledger = 0
    /\ signer = NoAddress
    /\ offer = NoOffer

---------------------------------------------------------------------------
(* The admin *)

\* nominate_new_admin and bootstrap_dual_admin, before there is an admin.
Bootstrap(new) ==
    /\ admin = NoAddress
    /\ admin' = new
    /\ signer' = new
    /\ UNCHANGED <<recovery, nomination, roles, ledger>>

BootstrapDual(new, second) ==
    /\ admin = NoAddress
    /\ new # second
    /\ admin' = new
    /\ recovery' = second
    /\ signer' = new
    /\ UNCHANGED <<nomination, roles, ledger>>

\* The nomination is absent, or lapsed: at its expiry it is over.
NominationLapsed == nominee = NoAddress \/ ledger >= expiry

NominateNewAdmin(new) ==
    /\ admin # NoAddress
    /\ new # admin
    /\ NominationLapsed
    /\ nominee' = new
    /\ nominatedAt' = ledger
    /\ expiry' = ledger + Duration
    /\ offer' = [by |-> admin, to |-> new, at |-> ledger]
    /\ signer' = admin
    /\ UNCHANGED <<admin, recovery, roles, ledger>>

\* remove(PendingAdmin), remove(PendingAdminExpiry), remove(PendingAdminNominatedAt)
ClearNomination_Kept == UNCHANGED <<nominee, nominatedAt, expiry>>
ClearNomination ==
    /\ nominee' = NoAddress
    /\ nominatedAt' = 0
    /\ expiry' = 0

\* The gap since the nomination has elapsed.
GapElapsed_Ignored == TRUE
GapElapsed == ledger >= nominatedAt + MinGap

\* An attempt at or after the expiry is refused, and what it cleans up is
\* rolled back with it: the lapsed nomination stays until the next one.
AcceptAdmin(new) ==
    /\ nominee # NoAddress
    /\ ledger < expiry
    /\ GapElapsed
    /\ nominee = new
    /\ ClearNomination
    /\ offer' = NoOffer
    /\ admin' = new
    /\ signer' = new
    /\ UNCHANGED <<recovery, roles, ledger>>

CancelAdminNomination(caller) ==
    /\ admin # NoAddress /\ caller = admin
    /\ nominee # NoAddress
    /\ ClearNomination
    /\ offer' = NoOffer
    /\ signer' = caller
    /\ UNCHANGED <<admin, recovery, roles, ledger>>

SetRecoveryAdmin(new) ==
    /\ admin # NoAddress
    /\ new # admin
    /\ recovery' = new
    /\ signer' = admin
    /\ UNCHANGED <<admin, nomination, roles, ledger>>

\* Signed by the recovery admin, effective at once; a nomination of the
\* replaced admin is dropped.
RecoverAdmin(new) ==
    /\ recovery # NoAddress
    /\ admin # NoAddress
    /\ new \notin {admin, recovery, nominee}
    /\ ClearNomination
    /\ offer' = NoOffer
    /\ admin' = new
    /\ signer' = recovery
    /\ UNCHANGED <<recovery, roles, ledger>>

---------------------------------------------------------------------------
(* Roles *)

\* role_index_add: the list after it, for an account that fits.
Indexed(role, a) ==
    IF a \in ToSet(holders[role]) THEN holders[role] ELSE Append(holders[role], a)

HasRoom(role, a) == a \in ToSet(holders[role]) \/ Len(holders[role]) < MaxHolders

\* add_verifier, add_settler, add_moderator
AddHolder(role, a) ==
    /\ admin # NoAddress
    /\ HasRoom(role, a)
    /\ holders' = [holders EXCEPT ![role] = Indexed(role, a)]
    /\ granted' = [granted EXCEPT ![role] = @ \cup {a}]
    /\ signer' = admin
    /\ UNCHANGED <<admin, recovery, nomination, ledger>>

\* role_index_remove
Unindexed_Kept(role, a) == holders[role]
Unindexed(role, a) == Without(holders[role], a)

\* remove_verifier, remove_settler, remove_moderator
RemoveHolder(role, a) ==
    /\ admin # NoAddress
    /\ holders' = [holders EXCEPT ![role] = Unindexed(role, a)]
    /\ granted' = [granted EXCEPT ![role] = @ \ {a}]
    /\ signer' = admin
    /\ UNCHANGED <<admin, recovery, nomination, ledger>>

\* rotate_verifier: the place freed by the old holder is the new one's, at the end.
RotateVerifier(old, new) ==
    /\ admin # NoAddress
    /\ old # new
    /\ old \in granted["Verifier"]
    /\ new \notin granted["Verifier"]
    /\ holders' = [holders EXCEPT !["Verifier"] = Append(Unindexed("Verifier", old), new)]
    /\ granted' = [granted EXCEPT !["Verifier"] = (@ \ {old}) \cup {new}]
    /\ signer' = admin
    /\ UNCHANGED <<admin, recovery, nomination, ledger>>

---------------------------------------------------------------------------

AdvanceLedger ==
    /\ ledger < MaxLedger
    /\ ledger' = ledger + 1
    /\ UNCHANGED <<admin, recovery, nomination, roles, signer>>

AdminHandover ==
    \/ \E new \in Addresses : Bootstrap(new)
    \/ \E new, second \in Addresses : BootstrapDual(new, second)
    \/ \E new \in Addresses : NominateNewAdmin(new)
    \/ \E new \in Addresses : AcceptAdmin(new)
    \/ \E caller \in Addresses : CancelAdminNomination(caller)
    \/ \E new \in Addresses \cup {NoAddress} : SetRecoveryAdmin(new)
    \/ \E new \in Addresses : RecoverAdmin(new)

RoleCall ==
    \/ \E role \in Roles, a \in Addresses : AddHolder(role, a)
    \/ \E role \in Roles, a \in Addresses : RemoveHolder(role, a)
    \/ "Verifier" \in Roles /\ \E old, new \in Addresses : RotateVerifier(old, new)

Next == AdminHandover \/ RoleCall \/ AdvanceLedger

Spec == Init /\ [][Next]_vars

---------------------------------------------------------------------------
(* Properties *)

AdminTypeOK ==
    /\ admin \in Addresses \cup {NoAddress}
    /\ recovery \in Addresses \cup {NoAddress}
    /\ nominee \in Addresses \cup {NoAddress}
    /\ nominatedAt \in Nat
    /\ expiry \in Nat
    /\ ledger \in 0 .. MaxLedger
    /\ signer \in Addresses \cup {NoAddress}
    /\ offer \in [by : Addresses \cup {NoAddress}, to : Addresses \cup {NoAddress}, at : Nat]

\* What accept_admin reads is the nomination in force and nothing else: no
\* nomination outlives the admin who made it, names the admin, or lasts
\* longer than it was given, through acceptances, cancellations, lapses,
\* recoveries and new nominations.
NominationCurrent ==
    /\ nominee = offer.to
    /\ nominee # NoAddress =>
          /\ offer.by = admin /\ nominee # admin
          /\ nominatedAt = offer.at /\ expiry = offer.at + Duration

\* The admin role passes from a holder only to the account that holder had
\* nominated and not withdrawn, with that account's signature, MinGap ledgers
\* or more and less than Duration ledgers after the nomination; or with the
\* signature of the recovery admin that was configured before the call.
HandoverByConsent ==
    [][admin # NoAddress /\ admin' # admin =>
           \/ /\ signer' = admin'
              /\ offer.by = admin /\ offer.to = admin'
              /\ ledger >= offer.at + MinGap /\ ledger < offer.at + Duration
           \/ signer' = recovery /\ recovery' = recovery]_vars

\* role_inventory_page lists the accounts is_verifier, is_settler and
\* is_moderator accept, each once, and never more than MAX_ROLE_HOLDERS.
RoleIndexExact ==
    \A role \in Roles :
        /\ IsInjective(holders[role])
        /\ ToSet(holders[role]) = granted[role]
        /\ Len(holders[role]) <= MaxHolders
=============================================================================
