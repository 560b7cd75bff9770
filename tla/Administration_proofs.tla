----------------------- MODULE Administration_proofs -----------------------
(***************************************************************************)
(* The contract's administration: Governance and Pauses.                   *)
(*                                                                         *)
(* For every set of accounts and every gap and duration, the nomination    *)
(* that accept_admin reads is the one in force, and the admin role passes  *)
(* only by consent; that a nomination exists only under an admin is part   *)
(* of the invariant.  For every bound on the holders of a role, its list   *)
(* is exact.                                                               *)
(*                                                                         *)
(* For every bound on ledger time and every number of rollbacks, an        *)
(* expired schedule that a call has seen stays expired, and the pause in   *)
(* effect is the one ordered last.  The first needs to know why: when the  *)
(* expiry was seen, the flag was cleared, and the deadline with it.        *)
(***************************************************************************)
EXTENDS Governance, Pauses, Collections_proofs

USE AddressAssumption, TermAssumption, HoldersAssumption, TimeAssumption

---------------------------------------------------------------------------
(* The admin *)

Nominated == AdminTypeOK /\ NominationCurrent /\ (nominee # NoAddress => admin # NoAddress)

LEMMA NominatedInit ==
    ASSUME Init
    PROVE  Nominated
BY DEF Init, Nominated, AdminTypeOK, NominationCurrent, NoOffer

\* What a role call and the passing of a ledger leave alone.
LEMMA RolesApart ==
    ASSUME RoleCall
    PROVE  UNCHANGED <<admin, recovery, nomination, ledger>> /\ signer' = admin
BY DEF RoleCall, AddHolder, RemoveHolder, RotateVerifier

LEMMA NominatedStep ==
    ASSUME Nominated, [Next]_vars
    PROVE  Nominated'
<1> USE DEF Nominated, AdminTypeOK, NominationCurrent
<1>1. ASSUME NEW new \in Addresses, Bootstrap(new)  PROVE Nominated'
  BY <1>1 DEF Bootstrap, nomination
<1>2. ASSUME NEW new \in Addresses, NEW second \in Addresses, BootstrapDual(new, second)
      PROVE  Nominated'
  BY <1>2 DEF BootstrapDual, nomination
<1>3. ASSUME NEW new \in Addresses, NominateNewAdmin(new)  PROVE Nominated'
  BY <1>3 DEF NominateNewAdmin
<1>4. ASSUME NEW new \in Addresses, AcceptAdmin(new)  PROVE Nominated'
  BY <1>4 DEF AcceptAdmin, ClearNomination, NoOffer
<1>5. ASSUME NEW caller \in Addresses, CancelAdminNomination(caller)  PROVE Nominated'
  BY <1>5 DEF CancelAdminNomination, ClearNomination, NoOffer
<1>6. ASSUME NEW new \in Addresses \cup {NoAddress}, SetRecoveryAdmin(new)  PROVE Nominated'
  BY <1>6 DEF SetRecoveryAdmin, nomination
<1>7. ASSUME NEW new \in Addresses, RecoverAdmin(new)  PROVE Nominated'
  BY <1>7 DEF RecoverAdmin, ClearNomination, NoOffer
<1>8. CASE RoleCall
  BY <1>8, RolesApart DEF nomination
<1>9. CASE AdvanceLedger
  BY <1>9 DEF AdvanceLedger, nomination
<1>10. CASE UNCHANGED vars
  BY <1>10 DEF vars, nomination
<1> QED
  BY <1>1, <1>2, <1>3, <1>4, <1>5, <1>6, <1>7, <1>8, <1>9, <1>10 DEF Next, AdminHandover

LEMMA NominatedInvariance == Spec => []Nominated
BY NominatedInit, NominatedStep, PTL DEF Spec

\* The nomination read is the nomination in force.
THEOREM GovernanceNominationCurrent == Spec => []NominationCurrent
BY NominatedInvariance, PTL DEF Nominated

\* The admin role passes only by consent, in the time allowed, or by recovery.
THEOREM GovernanceHandoverByConsent == Spec => HandoverByConsent
<1> DEFINE Consent ==
      admin # NoAddress /\ admin' # admin =>
          \/ /\ signer' = admin'
             /\ offer.by = admin /\ offer.to = admin'
             /\ ledger >= offer.at + MinGap /\ ledger < offer.at + Duration
          \/ signer' = recovery /\ recovery' = recovery
<1>1. ASSUME Nominated, [Next]_vars  PROVE Consent
  <2>1. ASSUME NEW new \in Addresses, AcceptAdmin(new)  PROVE Consent
    BY <1>1, <2>1 DEF Nominated, AdminTypeOK, NominationCurrent, AcceptAdmin, GapElapsed
  <2>2. ASSUME NEW new \in Addresses, RecoverAdmin(new)  PROVE Consent
    BY <2>2 DEF RecoverAdmin
  <2>3. ASSUME NEW new, Bootstrap(new)  PROVE Consent
    BY <2>3 DEF Bootstrap
  <2>4. ASSUME NEW new, NEW second, BootstrapDual(new, second)  PROVE Consent
    BY <2>4 DEF BootstrapDual
  <2>5. CASE UNCHANGED admin  BY <2>5
  <2>6. \/ UNCHANGED admin
        \/ \E new \in Addresses : AcceptAdmin(new) \/ RecoverAdmin(new) \/ Bootstrap(new)
        \/ \E new, second \in Addresses : BootstrapDual(new, second)
    <3>1. CASE AdminHandover
      BY <3>1 DEF AdminHandover, NominateNewAdmin, CancelAdminNomination, SetRecoveryAdmin
    <3>2. CASE RoleCall  BY <3>2, RolesApart
    <3>3. CASE AdvanceLedger \/ UNCHANGED vars  BY <3>3 DEF AdvanceLedger, vars
    <3> QED  BY <1>1, <3>1, <3>2, <3>3 DEF Next
  <2> HIDE DEF Consent
  <2> QED  BY <2>1, <2>2, <2>3, <2>4, <2>5, <2>6
<1>2. Nominated /\ [Next]_vars => [Consent]_vars  BY <1>1
<1> QED  BY <1>2, NominatedInvariance, PTL DEF Spec, HandoverByConsent

\* The admin, the recovery key and the nomination keep their types.
THEOREM GovernanceTyped == Spec => []AdminTypeOK
<1>1. Nominated => AdminTypeOK  BY DEF Nominated
<1> QED  BY <1>1, NominatedInvariance, PTL

---------------------------------------------------------------------------
(* The lists of role holders *)

RolesTyped ==
    /\ holders \in [Roles -> Seq(Addresses)]
    /\ granted \in [Roles -> SUBSET Addresses]

Listing == RolesTyped /\ RoleIndexExact

LEMMA ListingInit ==
    ASSUME Init
    PROVE  Listing
<1>1. <<>> \in Seq(Addresses) /\ IsInjective(<<>>) /\ ToSet(<<>>) = {} /\ Len(<<>>) = 0
  BY DEF IsInjective, ToSet
<1>2. holders \in [Roles -> Seq(Addresses)] /\ granted \in [Roles -> SUBSET Addresses]
  BY <1>1 DEF Init
<1>3. RoleIndexExact
  BY <1>1 DEF Init, RoleIndexExact
<1> QED
  BY <1>2, <1>3 DEF Listing, RolesTyped

\* Replacing one role's list and set by a pair that agree keeps all of them so.
LEMMA OneRoleListed ==
    ASSUME Listing, NEW role \in Roles, NEW list \in Seq(Addresses),
           IsInjective(list), Len(list) <= MaxHolders,
           holders' = [holders EXCEPT ![role] = list],
           granted' = [granted EXCEPT ![role] = ToSet(list)]
    PROVE  Listing'
<1>1. ToSet(list) \subseteq Addresses
  BY DEF ToSet
<1>2. RolesTyped'
  BY <1>1 DEF Listing, RolesTyped
<1>3. ASSUME NEW other \in Roles
      PROVE  /\ IsInjective(holders'[other])
             /\ ToSet(holders'[other]) = granted'[other]
             /\ Len(holders'[other]) <= MaxHolders
  <2>1. CASE other = role
    <3>1. holders'[other] = list /\ granted'[other] = ToSet(list)
      BY <2>1 DEF Listing, RolesTyped
    <3> QED
      BY <3>1
  <2>2. CASE other # role
    <3>1. holders'[other] = holders[other] /\ granted'[other] = granted[other]
      BY <2>2 DEF Listing, RolesTyped
    <3> QED
      BY <3>1 DEF Listing, RoleIndexExact
  <2> QED
    BY <2>1, <2>2
<1> QED
  BY <1>2, <1>3 DEF Listing, RoleIndexExact

LEMMA ListingStep ==
    ASSUME Listing, [Next]_vars
    PROVE  Listing'
<1>0. ASSUME NEW role \in Roles
      PROVE  /\ holders[role] \in Seq(Addresses) /\ IsInjective(holders[role])
             /\ ToSet(holders[role]) = granted[role]
             /\ Len(holders[role]) \in Nat /\ Len(holders[role]) <= MaxHolders
             /\ granted \in [Roles -> SUBSET Addresses]
  BY DEF Listing, RolesTyped, RoleIndexExact
<1>1. ASSUME NEW role \in Roles, NEW a \in Addresses, AddHolder(role, a)
      PROVE  Listing'
  <2> DEFINE list == Indexed(role, a)
  <2>1. /\ list \in Seq(Addresses) /\ IsInjective(list) /\ Len(list) <= MaxHolders
        /\ ToSet(list) = granted[role] \cup {a}
    <3>1. CASE a \in ToSet(holders[role])
      BY <1>0, <3>1 DEF Indexed
    <3>2. CASE a \notin ToSet(holders[role])
      <4>1. Len(holders[role]) + 1 <= MaxHolders
        BY <1>0, <1>1, <3>2 DEF AddHolder, HasRoom
      <4> QED
        BY <1>0, <3>2, <4>1, AppendMembers DEF Indexed
    <3> QED
      BY <3>1, <3>2
  <2>2. /\ holders' = [holders EXCEPT ![role] = list]
        /\ granted' = [granted EXCEPT ![role] = ToSet(list)]
    BY <1>1, <2>1 DEF AddHolder
  <2> HIDE DEF list
  <2> QED
    BY <2>1, <2>2, OneRoleListed
<1>2. ASSUME NEW role \in Roles, NEW a \in Addresses, RemoveHolder(role, a)
      PROVE  Listing'
  <2> DEFINE list == Unindexed(role, a)
  <2>1. /\ list \in Seq(Addresses) /\ IsInjective(list) /\ Len(list) <= MaxHolders
        /\ ToSet(list) = granted[role] \ {a}
    BY <1>0, WithoutRemoves, WithoutLength DEF Unindexed
  <2>2. /\ holders' = [holders EXCEPT ![role] = list]
        /\ granted' = [granted EXCEPT ![role] = ToSet(list)]
    BY <1>2, <2>1 DEF RemoveHolder
  <2> HIDE DEF list
  <2> QED
    BY <2>1, <2>2, OneRoleListed
<1>3. ASSUME "Verifier" \in Roles, NEW old \in Addresses, NEW new \in Addresses,
             RotateVerifier(old, new)
      PROVE  Listing'
  <2> DEFINE rest == Unindexed("Verifier", old)
             list == Append(rest, new)
  <2>1. /\ rest \in Seq(Addresses) /\ IsInjective(rest)
        /\ ToSet(rest) = granted["Verifier"] \ {old}
        /\ Len(rest) + 1 <= MaxHolders
    <3>1. old \in ToSet(holders["Verifier"])
      BY <1>0, <1>3 DEF RotateVerifier
    <3> QED
      BY <1>0, <1>3, <3>1, WithoutRemoves, WithoutLength DEF Unindexed
  <2>2. new \notin ToSet(rest)
    BY <1>3, <2>1 DEF RotateVerifier
  <2> HIDE DEF rest
  <2>3. /\ list \in Seq(Addresses) /\ IsInjective(list) /\ Len(list) <= MaxHolders
        /\ ToSet(list) = (granted["Verifier"] \ {old}) \cup {new}
    BY <2>1, <2>2, AppendMembers
  <2>4. /\ holders' = [holders EXCEPT !["Verifier"] = list]
        /\ granted' = [granted EXCEPT !["Verifier"] = ToSet(list)]
    BY <1>3, <2>3 DEF RotateVerifier, rest
  <2> HIDE DEF list
  <2> QED
    BY <1>3, <2>3, <2>4, OneRoleListed
<1>4. CASE UNCHANGED roles
  BY <1>4 DEF roles, Listing, RolesTyped, RoleIndexExact
<1>5. CASE RoleCall
  BY <1>1, <1>2, <1>3, <1>5 DEF RoleCall
<1>6. CASE AdminHandover
  BY <1>4, <1>6 DEF AdminHandover, Bootstrap, BootstrapDual, NominateNewAdmin, AcceptAdmin,
     CancelAdminNomination, SetRecoveryAdmin, RecoverAdmin
<1> QED
  BY <1>4, <1>5, <1>6 DEF Next, AdvanceLedger, vars

LEMMA ListingInvariance == Spec => []Listing
BY ListingInit, ListingStep, PTL DEF Spec

\* The listed holders of a role are the accounts that have it, each once, and
\* never more than MAX_ROLE_HOLDERS: a rotation fits because the old verifier,
\* being granted, is in the list.
THEOREM GovernanceRoleIndexExact == Spec => []RoleIndexExact
<1>1. Listing => RoleIndexExact  BY DEF Listing
<1> QED  BY <1>1, ListingInvariance, PTL

---------------------------------------------------------------------------
(* The pauses *)

SeenMeansCleared == seenExpired => ~paused /\ until = NoDeadline

Ordered == PausesTypeOK /\ LastOrderHolds /\ SeenMeansCleared

LEMMA OrderedInit ==
    ASSUME PausesInit
    PROVE  Ordered
<1>1. now \in Times /\ rollbacks \in 0 .. MaxRollbacks
  BY DEF PausesInit, Times
<1>2. PausesTypeOK
  BY <1>1 DEF PausesInit, PausesTypeOK
<1>3. LastOrderHolds /\ SeenMeansCleared
  BY DEF PausesInit, LastOrderHolds, SeenMeansCleared, PauseActive
<1> QED  BY <1>2, <1>3 DEF Ordered

LEMMA OrderedStep ==
    ASSUME Ordered, [PausesNext]_pauseVars
    PROVE  Ordered'
<1> USE DEF Ordered, PausesTypeOK, LastOrderHolds, SeenMeansCleared, Times, PauseActive, Running
<1>1. ASSUME NEW value \in BOOLEAN, SetPaused(value)  PROVE Ordered'
  BY <1>1 DEF SetPaused, DropDeadline, paymentPause, clock
<1>2. ASSUME NEW deadline \in Times, SetPausedUntil(deadline)  PROVE Ordered'
  <2>1. CASE deadline > now
    <3>1. /\ paused' = TRUE /\ until' = deadline /\ order' = "scheduled" /\ seenExpired' = FALSE
          /\ UNCHANGED <<payPaused, payUntil, now, rollbacks>>
      BY <1>2, <2>1 DEF SetPausedUntil, paymentPause, clock
    <3>2. PausesTypeOK'  BY <3>1
    <3>3. LastOrderHolds' /\ SeenMeansCleared'  BY <3>1
    <3> QED  BY <3>2, <3>3
  <2>2. CASE ~(deadline > now)
    <3>1. /\ paused' = FALSE /\ until' = NoDeadline /\ order' = "resume" /\ seenExpired' = FALSE
          /\ UNCHANGED <<payPaused, payUntil, now, rollbacks>>
      BY <1>2, <2>2 DEF SetPausedUntil, paymentPause, clock
    <3>2. PausesTypeOK'  BY <3>1
    <3>3. LastOrderHolds' /\ SeenMeansCleared'  BY <3>1
    <3> QED  BY <3>2, <3>3
  <2> QED  BY <2>1, <2>2
<1>3. ASSUME NEW value \in BOOLEAN, SetPaymentPaused(value)  PROVE Ordered'
  BY <1>3 DEF SetPaymentPaused, registryPause, clock
<1>4. ASSUME NEW deadline \in Times, SetPaymentPausedUntil(deadline)  PROVE Ordered'
  <2>1. CASE deadline > now
    BY <1>4, <2>1 DEF SetPaymentPausedUntil, registryPause, clock
  <2>2. CASE ~(deadline > now)
    BY <1>4, <2>2 DEF SetPaymentPausedUntil, registryPause, clock
  <2> QED  BY <2>1, <2>2
<1>5. CASE Observe
  <2>1. CASE paused /\ ~PauseActive
    BY <1>5, <2>1 DEF Observe, LatchExpiry, paymentPause, clock
  <2>2. CASE ~(paused /\ ~PauseActive)
    BY <1>5, <2>2 DEF Observe, LatchExpiry, registryPause, paymentPause, clock
  <2> QED  BY <2>1, <2>2
<1>6. CASE Tick
  BY <1>6 DEF Tick, registryPause, paymentPause
<1>7. ASSUME NEW earlier \in Times, RollBack(earlier)  PROVE Ordered'
  BY <1>7 DEF RollBack, registryPause, paymentPause
<1>8. CASE UNCHANGED pauseVars
  BY <1>8 DEF pauseVars, registryPause, paymentPause, clock
<1>9. PausesNext => \/ \E value \in BOOLEAN : SetPaused(value) \/ SetPaymentPaused(value)
              \/ \E deadline \in Times : SetPausedUntil(deadline) \/ SetPaymentPausedUntil(deadline)
              \/ Observe \/ Tick
              \/ \E earlier \in Times : RollBack(earlier)
  BY DEF PausesNext, AdminOrder, IsPaused, GatedCall, PaymentCall
<1> QED  BY <1>1, <1>2, <1>3, <1>4, <1>5, <1>6, <1>7, <1>8, <1>9

LEMMA OrderedInvariance == PausesSpec => []Ordered
BY OrderedInit, OrderedStep, PTL DEF PausesSpec

\* An expiry that was seen is final.
THEOREM PausesExpiryIsFinal == PausesSpec => []ExpiryIsFinal
<1>1. Ordered => ExpiryIsFinal
  BY DEF Ordered, SeenMeansCleared, ExpiryIsFinal, PauseActive
<1> QED  BY <1>1, OrderedInvariance, PTL

\* The pause in effect is the one ordered last.
THEOREM PausesLastOrderHolds == PausesSpec => []LastOrderHolds
BY OrderedInvariance, PTL DEF Ordered
=============================================================================
