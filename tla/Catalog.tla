------------------------------ MODULE Catalog ------------------------------
(***************************************************************************)
(* The catalog of the vault-registry contract: who owns each resource, in  *)
(* which lifecycle state it is, the offers of a two-step transfer, the     *)
(* moderators' flags, and every index and counter the contract derives     *)
(* from them.  One contract invocation is one step: a call that returns    *)
(* Err, or panics, is rolled back by the ledger and is no step at all.     *)
(*                                                                         *)
(* The boolean `listed` of a Resource is the projection state = Listed.    *)
(***************************************************************************)
EXTENDS Naturals, Integers, Sequences, FiniteSets, SequencesExt, Lists

CONSTANTS
    Ids,          \* resource ids
    Addresses,    \* accounts that can sign a call
    NoAddress,    \* "no entry under this key"
    Admin,        \* the account that holds the admin role
    Moderators,   \* the accounts that hold the moderator role
    MaxCount,     \* largest value of a u32 counter
    MaxBatch,     \* MAX_BATCH_REGISTER
    Batches,      \* the id lists offered to register_batch
    RepairLists   \* the id lists offered to repair_index

ASSUME IdsAssumption       == IsFiniteSet(Ids)
ASSUME AddressesAssumption == /\ NoAddress \notin Addresses
                              /\ Admin \in Addresses
                              /\ Moderators \subseteq Addresses
ASSUME BoundsAssumption    == MaxCount \in Nat /\ MaxBatch \in Nat
ASSUME ListsAssumption     ==
    /\ Batches \subseteq Seq(Ids)
    /\ RepairLists \subseteq Seq(Ids)
    /\ \A ids \in RepairLists : Len(ids) <= MaxCount      \* a Vec's length is a u32

VARIABLES
    state,          \* Resource.state, "Unregistered" where there is no Resource
    creator,        \* Resource.creator
    flagged,        \* Resource.dispute_flag.is_flagged()
    pending,        \* PendingTransfer(id)
    catalog,        \* Index(0), Index(1), ...; Count is its length
    creatorIdx,     \* CreatorResources(a)
    creatorCount,   \* CreatorCount(a)
    listedCount,    \* ListedCount
    creatorListed,  \* CreatorListedCount(a)
    paused,         \* pause_is_active()
    signer,         \* the account whose require_auth the last call passed
    offeredBy       \* history: who wrote PendingTransfer(id)

counters == <<listedCount, creatorListed>>
owners   == <<creator, pending, offeredBy, creatorIdx, creatorCount>>
vars == <<state, creator, flagged, pending, catalog, creatorIdx, creatorCount,
          listedCount, creatorListed, paused, signer, offeredBy>>

States == {"Listed", "Delisted", "Frozen", "Disputed", "Tombstoned"}

Registered == {r \in Ids : state[r] # "Unregistered"}
Live       == {r \in Ids : state[r] \notin {"Unregistered", "Tombstoned"}}
Listed     == {r \in Ids : state[r] = "Listed"}
Mutable_WhileFrozen(r) == state[r] \in {"Listed", "Delisted", "Frozen"}
Mutable(r) == state[r] \in {"Listed", "Delisted"}

Owned(a)       == {r \in Live : creator[r] = a}
ListedOf(a)    == {r \in Listed : creator[r] = a}

Init ==
    /\ state = [r \in Ids |-> "Unregistered"]
    /\ creator = [r \in Ids |-> NoAddress]
    /\ flagged = [r \in Ids |-> FALSE]
    /\ pending = [r \in Ids |-> NoAddress]
    /\ catalog = <<>>
    /\ creatorIdx = [a \in Addresses |-> <<>>]
    /\ creatorCount = [a \in Addresses |-> 0]
    /\ listedCount = 0
    /\ creatorListed = [a \in Addresses |-> 0]
    /\ paused = FALSE
    /\ signer = NoAddress
    /\ offeredBy = [r \in Ids |-> NoAddress]

---------------------------------------------------------------------------
(* Registration *)

\* No counter register_internal increments may pass u32::MAX (CountOverflow).
RoomFor(a, n) ==
    \A count \in {Len(catalog), creatorCount[a], listedCount, creatorListed[a]} :
        count + n <= MaxCount

\* The writes of register_internal for the ids of `new`, one after the other.
AddAll(a, new) ==
    /\ RoomFor(a, Len(new))
    /\ state' = [r \in Ids |-> IF r \in ToSet(new) THEN "Listed" ELSE state[r]]
    /\ creator' = [r \in Ids |-> IF r \in ToSet(new) THEN a ELSE creator[r]]
    /\ flagged' = [r \in Ids |-> r \notin ToSet(new) /\ flagged[r]]
    /\ catalog' = catalog \o new
    /\ creatorIdx' = [creatorIdx EXCEPT ![a] = @ \o new]
    /\ creatorCount' = [creatorCount EXCEPT ![a] = @ + Len(new)]
    /\ listedCount' = listedCount + Len(new)
    /\ creatorListed' = [creatorListed EXCEPT ![a] = @ + Len(new)]
    /\ UNCHANGED <<pending, offeredBy, paused>>

Register(a, r) ==
    /\ ~paused
    /\ state[r] = "Unregistered"
    /\ AddAll(a, <<r>>)
    /\ signer' = a

\* The ways to pick n of m positions, in order.
Positions(n, m) == {p \in [1 .. n -> 1 .. m] : \A i, j \in 1 .. n : i < j => p[i] < p[j]}

\* The items at `accepted` are registered, in order; the others, whose id is
\* taken or whose price, tags or metadata are invalid, are reported as failed.
RegisterBatch(a, batch, accepted) ==
    /\ ~paused
    /\ Len(batch) \in 1 .. MaxBatch
    /\ IsInjective(batch)
    /\ \A i \in DOMAIN accepted : state[batch[accepted[i]]] = "Unregistered"
    /\ AddAll(a, [i \in DOMAIN accepted |-> batch[accepted[i]]])
    /\ signer' = a

---------------------------------------------------------------------------
(* Lifecycle *)

\* checked_add and checked_sub panic outside the counter's range.
BumpListed(a, delta) ==
    /\ listedCount + delta \in 0 .. MaxCount
    /\ creatorListed[a] + delta \in 0 .. MaxCount
    /\ listedCount' = listedCount + delta
    /\ creatorListed' = [creatorListed EXCEPT ![a] = @ + delta]

ListedWeight_WithDelisted(s) == IF s \in {"Listed", "Delisted"} THEN 1 ELSE 0
ListedWeight(s) == IF s = "Listed" THEN 1 ELSE 0

\* transition_state
Transition(r, next) ==
    /\ state' = [state EXCEPT ![r] = next]
    /\ BumpListed(creator[r], ListedWeight(next) - ListedWeight(state[r]))

CreatorEdges_FromDispute ==
    {<<"Listed", "Delisted">>, <<"Delisted", "Listed">>, <<"Disputed", "Delisted">>,
     <<"Listed", "Frozen">>, <<"Delisted", "Frozen">>}
CreatorEdges ==
    {<<"Listed", "Delisted">>, <<"Delisted", "Listed">>,
     <<"Listed", "Frozen">>, <<"Delisted", "Frozen">>}

CreatorTransition(r, next) ==
    /\ <<state[r], next>> \in CreatorEdges
    /\ Transition(r, next)

\* set_listed, and delist(id) = set_listed(id, false).  Asking for the state
\* the resource is in only refreshes the record.
SetListed(r, next) ==
    /\ ~paused
    /\ r \in Registered
    /\ next \in {"Listed", "Delisted"}
    /\ IF state[r] = next THEN UNCHANGED <<state, counters>>
                          ELSE CreatorTransition(r, next)
    /\ signer' = creator[r]
    /\ UNCHANGED <<owners, flagged, catalog, paused>>

FreezeResource(r) ==
    /\ ~paused
    /\ r \in Registered
    /\ CreatorTransition(r, "Frozen")
    /\ signer' = creator[r]
    /\ UNCHANGED <<owners, flagged, catalog, paused>>

ReactivateResource(r) ==
    /\ ~paused
    /\ state[r] \in {"Frozen", "Delisted"}
    /\ ~flagged[r]
    /\ Transition(r, "Listed")
    /\ signer' = creator[r]
    /\ UNCHANGED <<owners, flagged, catalog, paused>>

OpenDispute(r, caller) ==
    /\ ~paused
    /\ caller = Admin
    /\ state[r] \in {"Listed", "Delisted", "Frozen"}
    /\ Transition(r, "Disputed")
    /\ signer' = caller
    /\ UNCHANGED <<owners, flagged, catalog, paused>>

ResolveDispute(r, caller, next) ==
    /\ ~paused
    /\ caller = Admin
    /\ state[r] = "Disputed"
    /\ next \in {"Listed", "Delisted", "Frozen"}
    /\ Transition(r, next)
    /\ signer' = caller
    /\ UNCHANGED <<owners, flagged, catalog, paused>>

EmergencyDelist(r, caller) ==
    /\ ~paused
    /\ caller = Admin
    /\ state[r] = "Disputed"
    /\ Transition(r, "Delisted")
    /\ signer' = caller
    /\ UNCHANGED <<owners, flagged, catalog, paused>>

\* remove(PendingTransfer(id))
ClearOffer_Kept(r) == UNCHANGED <<pending, offeredBy>>
ClearOffer(r) ==
    /\ pending' = [pending EXCEPT ![r] = NoAddress]
    /\ offeredBy' = [offeredBy EXCEPT ![r] = NoAddress]

\* CreatorCount is decremented (saturating) and not recomputed here.
DropFromIndex_CountKept(r, a) ==
    /\ creatorIdx' = [creatorIdx EXCEPT ![a] = Without(@, r)]
    /\ UNCHANGED creatorCount
DropFromIndex(r, a) ==
    /\ creatorIdx' = [creatorIdx EXCEPT ![a] = Without(@, r)]
    /\ creatorCount' = [creatorCount EXCEPT ![a] = IF @ = 0 THEN 0 ELSE @ - 1]

TombstoneResource(r, caller) ==
    /\ ~paused
    /\ caller = Admin
    /\ r \in Live
    /\ DropFromIndex(r, creator[r])
    /\ ClearOffer(r)
    /\ Transition(r, "Tombstoned")
    /\ signer' = caller
    /\ UNCHANGED <<creator, flagged, catalog, paused>>

---------------------------------------------------------------------------
(* Ownership *)

\* A listed resource carries its unit of CreatorListedCount to its new owner.
CarryListing(from, to, unit) ==
    /\ unit <= creatorListed[from]
    /\ creatorListed[to] + unit <= MaxCount
    /\ creatorListed' = [creatorListed EXCEPT ![from] = @ - unit, ![to] = @ + unit]
    /\ UNCHANGED listedCount

\* move_creator_index: both lists are rewritten and both counts taken from them.
MoveCreatorIndex(r, from, to) ==
    /\ LET left == Without(creatorIdx[from], r)
           dest == IF r \in ToSet(creatorIdx[to]) THEN creatorIdx[to]
                                                  ELSE Append(creatorIdx[to], r)
       IN  /\ Len(dest) <= MaxCount          \* a Vec's length is a u32
           /\ creatorIdx' = [creatorIdx EXCEPT ![from] = left, ![to] = dest]
           /\ creatorCount' = [creatorCount EXCEPT ![from] = Len(left), ![to] = Len(dest)]
    /\ CarryListing(from, to, ListedWeight(state[r]))

\* transfer_ownership; transfer_ownership_with_terms writes the same keys.
TransferOwnership(r, to) ==
    /\ ~paused
    /\ Mutable(r)
    /\ to # creator[r]
    /\ creator' = [creator EXCEPT ![r] = to]
    /\ MoveCreatorIndex(r, creator[r], to)
    /\ ClearOffer(r)
    /\ signer' = creator[r]
    /\ UNCHANGED <<state, flagged, catalog, paused>>

ProposeTransfer(r, to) ==
    /\ ~paused
    /\ Mutable(r)
    /\ to # creator[r]
    /\ pending' = [pending EXCEPT ![r] = to]
    /\ offeredBy' = [offeredBy EXCEPT ![r] = creator[r]]
    /\ signer' = creator[r]
    /\ UNCHANGED <<state, creator, flagged, catalog, creatorIdx, creatorCount, counters, paused>>

\* Signed by the pending owner; the moderator's flag does not follow.
AcceptTransfer(r) ==
    /\ ~paused
    /\ pending[r] # NoAddress
    /\ Mutable(r)
    /\ creator' = [creator EXCEPT ![r] = pending[r]]
    /\ flagged' = [flagged EXCEPT ![r] = FALSE]
    /\ MoveCreatorIndex(r, creator[r], pending[r])
    /\ ClearOffer(r)
    /\ signer' = pending[r]
    /\ UNCHANGED <<state, catalog, paused>>

CancelTransfer(r) ==
    /\ ~paused
    /\ Mutable(r)
    /\ pending[r] # NoAddress
    /\ pending[r] # creator[r]
    /\ ClearOffer(r)
    /\ signer' = creator[r]
    /\ UNCHANGED <<state, creator, flagged, catalog, creatorIdx, creatorCount, counters, paused>>

---------------------------------------------------------------------------
(* Moderation and administration *)

\* flag_resource and unflag_resource do not look at the pause or the state.
SetFlag(r, caller, value) ==
    /\ caller \in Moderators
    /\ r \in Registered
    /\ flagged' = [flagged EXCEPT ![r] = value]
    /\ signer' = caller
    /\ UNCHANGED <<state, owners, counters, catalog, paused>>

\* Every id has a resource, and none is named twice.
RepairValid_NoDuplicateCheck(ids) == ToSet(ids) \subseteq Registered
RepairValid(ids) == ToSet(ids) \subseteq Registered /\ IsInjective(ids)

\* repair_index: the slots and Count become exactly `ids`; [] is a no-op.
RepairIndex(caller, ids) ==
    /\ ~paused
    /\ caller = Admin
    /\ RepairValid(ids)
    /\ catalog' = IF ids = <<>> THEN catalog ELSE ids
    /\ signer' = caller
    /\ UNCHANGED <<state, owners, counters, flagged, paused>>

SetPaused(caller, value) ==
    /\ caller = Admin
    /\ paused' = value
    /\ signer' = caller
    /\ UNCHANGED <<state, owners, counters, flagged, catalog>>

---------------------------------------------------------------------------

CreatorCall(r) ==
    \/ \E next \in {"Listed", "Delisted"} : SetListed(r, next)
    \/ FreezeResource(r)
    \/ ReactivateResource(r)
    \/ \E to \in Addresses : TransferOwnership(r, to)
    \/ \E to \in Addresses : ProposeTransfer(r, to)
    \/ CancelTransfer(r)

AdminCall(caller, r) ==
    \/ OpenDispute(r, caller)
    \/ \E next \in States : ResolveDispute(r, caller, next)
    \/ EmergencyDelist(r, caller)
    \/ TombstoneResource(r, caller)

Next ==
    \/ \E a \in Addresses, r \in Ids : Register(a, r)
    \/ \E a \in Addresses, batch \in Batches, n \in 0 .. MaxBatch :
          \E accepted \in Positions(n, Len(batch)) : RegisterBatch(a, batch, accepted)
    \/ \E r \in Ids : CreatorCall(r)
    \/ \E r \in Ids : AcceptTransfer(r)
    \/ \E caller \in Addresses, r \in Ids : AdminCall(caller, r)
    \/ \E caller \in Addresses, r \in Ids, value \in BOOLEAN : SetFlag(r, caller, value)
    \/ \E caller \in Addresses, ids \in RepairLists : RepairIndex(caller, ids)
    \/ \E caller \in Addresses, value \in BOOLEAN : SetPaused(caller, value)

Spec == Init /\ [][Next]_vars

---------------------------------------------------------------------------
(* Properties *)

RecordsTypeOK ==
    /\ state \in [Ids -> States \cup {"Unregistered"}]
    /\ creator \in [Ids -> Addresses \cup {NoAddress}]
    /\ flagged \in [Ids -> BOOLEAN]
    /\ pending \in [Ids -> Addresses \cup {NoAddress}]
    /\ offeredBy \in [Ids -> Addresses \cup {NoAddress}]
    /\ catalog \in Seq(Ids)
    /\ listedCount \in 0 .. MaxCount
    /\ creatorListed \in [Addresses -> 0 .. MaxCount]
    /\ paused \in BOOLEAN
    /\ signer \in Addresses \cup {NoAddress}

TypeOK ==
    /\ RecordsTypeOK
    /\ Len(catalog) <= MaxCount
    /\ creatorIdx \in [Addresses -> Seq(Ids)]
    /\ creatorCount \in [Addresses -> 0 .. MaxCount]

\* The listed counts, global and per creator, are the numbers of resources
\* that are Listed, through every lifecycle edge and every change of owner
\* (bump_listed_count, bump_creator_listed_count): a checked_sub never panics.
ListedCountsExact ==
    /\ listedCount = Cardinality(Listed)
    /\ \A a \in Addresses : creatorListed[a] = Cardinality(ListedOf(a))

\* list_by_creator and creator_resource_count agree with Resource.creator: an
\* account's list holds each live resource it owns once and nothing else, and
\* its stored count is the length of that list (move_creator_index,
\* tombstone_resource, register_internal).
CreatorIndexExact ==
    \A a \in Addresses :
        /\ IsInjective(creatorIdx[a])
        /\ ToSet(creatorIdx[a]) = Owned(a)
        /\ creatorCount[a] = Len(creatorIdx[a])

\* A pending transfer was offered by the account that still owns the resource,
\* to somebody else, and a retired resource has none: an offer never outlives
\* the ownership it was made under.
OffersCurrent ==
    \A r \in Ids : pending[r] # NoAddress =>
        /\ r \in Live
        /\ offeredBy[r] = creator[r]
        /\ pending[r] # creator[r]

\* The pagination index never shows an id twice and never an id without a
\* resource, whatever registrations follow a repair_index that shortened it.
CatalogSound == IsInjective(catalog) /\ ToSet(catalog) \subseteq Registered

\* A resource changes hands only with the signature of its owner, or of the
\* account that owner had offered it to, and only while it is Listed or
\* Delisted; its state is not touched by the change.
OwnershipByConsent ==
    [][\A r \in Registered : creator'[r] # creator[r] =>
           /\ state[r] \in {"Listed", "Delisted"} /\ state'[r] = state[r]
           /\ \/ signer' = creator[r]
              \/ signer' = creator'[r] /\ pending[r] = creator'[r]]_vars

\* Neither the creator nor a moderator gets a resource out of a dispute hold,
\* and a tombstone is final: "Disputed resources have no creator exit".
HoldsByAdmin ==
    [][\A r \in Ids :
           /\ state[r] = "Disputed" /\ state'[r] # "Disputed" => signer' = Admin
           /\ state[r] = "Tombstoned" => state'[r] = "Tombstoned"
                                         /\ pending'[r] = NoAddress]_vars

---------------------------------------------------------------------------
(* The catalog implements Holdings: the figures kept by increments are the *)
(* figures counted afresh.                                                 *)

HolderOf(r) ==
    CASE state[r] = "Unregistered" -> "unpublished"
      [] state[r] = "Tombstoned"   -> "retired"
      [] OTHER                     -> creator[r]

H == INSTANCE Holdings WITH
        Accounts <- Addresses, Unpublished <- "unpublished", Retired <- "retired",
        holder <- [r \in Ids |-> HolderOf(r)], onSale <- Listed,
        sales <- creatorListed, total <- listedCount

\* Every call is one step of Holdings or none: no call leaves a reader with
\* sales figures of the resources before the call.
ImplementsHoldings == H!Spec
============================================================================
