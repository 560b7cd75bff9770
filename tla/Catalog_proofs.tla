-------------------------- MODULE Catalog_proofs --------------------------
(***************************************************************************)
(* For any number of resources and accounts: the records of the catalog    *)
(* keep their type, the listed counts are exact, an offer never outlives   *)
(* the ownership it was made under, and the signatures that ownership and  *)
(* dispute holds require.                                                  *)
(*                                                                         *)
(* IInv is inductive: an account's count can only be moved with a listed   *)
(* resource because each registered resource has an owner account, and     *)
(* because the count is the number of resources listed, not merely a Nat.  *)
(***************************************************************************)
EXTENDS Catalog, Collections_proofs

Ownership == \A r \in Registered : creator[r] \in Addresses

IInv == RecordsTypeOK /\ Ownership /\ ListedCountsExact /\ OffersCurrent

USE IdsAssumption, AddressesAssumption, BoundsAssumption, ListsAssumption

---------------------------------------------------------------------------
(* Counting *)

\* The sets that are counted are finite.
LEMMA Finite ==
    /\ IsFiniteSet(Listed)
    /\ \A a : IsFiniteSet(ListedOf(a))
  <1>1. Listed \subseteq Ids /\ \A a : ListedOf(a) \subseteq Ids
    BY DEF Listed, ListedOf
  <1> QED
    BY <1>1, FS_Subset

\* A count follows its set through the arrival or the departure of one element.
LEMMA CountAdd ==
    ASSUME NEW S, IsFiniteSet(S), NEW x, x \notin S
    PROVE  Cardinality(S \cup {x}) = Cardinality(S) + 1
  BY FS_AddElement

LEMMA CountRemove ==
    ASSUME NEW S, IsFiniteSet(S), NEW x \in S
    PROVE  Cardinality(S \ {x}) = Cardinality(S) - 1
  BY FS_RemoveElement

\* transition_state keeps both counts exact when ownership is not touched.
LEMMA TransitionCounts ==
    ASSUME IInv, NEW r \in Registered, NEW next \in States, Transition(r, next), UNCHANGED creator
    PROVE  /\ ListedCountsExact'
           /\ listedCount' \in 0 .. MaxCount
           /\ creatorListed' \in [Addresses -> 0 .. MaxCount]
  <1> DEFINE c == creator[r]
  <1> r \in Ids /\ c \in Addresses
    BY DEF IInv, Ownership, Registered
  <1>0. /\ creatorListed \in [Addresses -> 0 .. MaxCount]
        /\ listedCount \in 0 .. MaxCount
        /\ listedCount = Cardinality(Listed)
        /\ \A a \in Addresses : creatorListed[a] = Cardinality(ListedOf(a))
        /\ state \in [Ids -> States \cup {"Unregistered"}]
    BY DEF IInv, RecordsTypeOK, ListedCountsExact
  <1>1. CASE state[r] = "Listed" /\ next = "Listed"
    <2>1. Listed' = Listed /\ \A a : ListedOf(a)' = ListedOf(a)
      BY <1>0, <1>1 DEF Transition, Listed, ListedOf
    <2>2. listedCount' = listedCount /\ creatorListed' = creatorListed
      BY <1>0, <1>1 DEF Transition, BumpListed, ListedWeight
    <2> QED
      BY <1>0, <2>1, <2>2 DEF ListedCountsExact
  <1>2. CASE state[r] = "Listed" /\ next # "Listed"
    <2>1. /\ r \in Listed /\ Listed' = Listed \ {r}
          /\ r \in ListedOf(c) /\ ListedOf(c)' = ListedOf(c) \ {r}
          /\ \A a : a # c => ListedOf(a)' = ListedOf(a)
      BY <1>0, <1>2 DEF Transition, Listed, ListedOf
    <2>2. /\ listedCount' = listedCount - 1 /\ listedCount' \in 0 .. MaxCount
          /\ creatorListed' = [creatorListed EXCEPT ![c] = @ - 1]
          /\ creatorListed[c] - 1 \in 0 .. MaxCount
      <3>1. ListedWeight(next) - ListedWeight(state[r]) = -1
        BY <1>2 DEF ListedWeight
      <3>2. BumpListed(c, -1)
        BY <3>1 DEF Transition
      <3>3. listedCount + (-1) = listedCount - 1 /\ creatorListed[c] + (-1) = creatorListed[c] - 1
        BY <1>0
      <3> QED
        BY <1>0, <3>2, <3>3 DEF BumpListed
    <2>3. Cardinality(Listed') = Cardinality(Listed) - 1
      BY <2>1, Finite, CountRemove
    <2>4. Cardinality(ListedOf(c)') = Cardinality(ListedOf(c)) - 1
      BY <2>1, Finite, CountRemove
    <2> QED
      BY <1>0, <2>1, <2>2, <2>3, <2>4 DEF ListedCountsExact
  <1>3. CASE state[r] # "Listed" /\ next = "Listed"
    <2>1. /\ r \notin Listed /\ Listed' = Listed \cup {r}
          /\ r \notin ListedOf(c) /\ ListedOf(c)' = ListedOf(c) \cup {r}
          /\ \A a : a # c => ListedOf(a)' = ListedOf(a)
      BY <1>0, <1>3 DEF Transition, Listed, ListedOf
    <2>2. /\ listedCount' = listedCount + 1 /\ listedCount' \in 0 .. MaxCount
          /\ creatorListed' = [creatorListed EXCEPT ![c] = @ + 1]
          /\ creatorListed[c] + 1 \in 0 .. MaxCount
      BY <1>0, <1>3 DEF Transition, BumpListed, ListedWeight
    <2>3. Cardinality(Listed') = Cardinality(Listed) + 1
      BY <2>1, Finite, CountAdd
    <2>4. Cardinality(ListedOf(c)') = Cardinality(ListedOf(c)) + 1
      BY <2>1, Finite, CountAdd
    <2> QED
      BY <1>0, <2>1, <2>2, <2>3, <2>4 DEF ListedCountsExact
  <1>4. CASE state[r] # "Listed" /\ next # "Listed"
    <2>1. Listed' = Listed /\ \A a : ListedOf(a)' = ListedOf(a)
      BY <1>0, <1>4 DEF Transition, Listed, ListedOf
    <2>2. listedCount' = listedCount /\ creatorListed' = creatorListed
      BY <1>0, <1>4 DEF Transition, BumpListed, ListedWeight
    <2> QED
      BY <1>0, <2>1, <2>2 DEF ListedCountsExact
  <1> QED
    BY <1>1, <1>2, <1>3, <1>4

\* move_creator_index keeps both counts exact when the owner changes to
\* another account.
LEMMA MoveCounts ==
    ASSUME IInv, NEW r \in Registered,
           NEW from \in Addresses, from = creator[r],
           NEW to \in Addresses, to # from,
           MoveCreatorIndex(r, from, to),
           creator' = [creator EXCEPT ![r] = to], UNCHANGED state
    PROVE  /\ ListedCountsExact'
           /\ listedCount' \in 0 .. MaxCount
           /\ creatorListed' \in [Addresses -> 0 .. MaxCount]
  <1> r \in Ids
    BY DEF Registered
  <1>0. /\ creatorListed \in [Addresses -> 0 .. MaxCount]
        /\ listedCount \in 0 .. MaxCount
        /\ listedCount = Cardinality(Listed)
        /\ \A a \in Addresses : creatorListed[a] = Cardinality(ListedOf(a))
        /\ creator \in [Ids -> Addresses \cup {NoAddress}]
    BY DEF IInv, RecordsTypeOK, ListedCountsExact
  <1>1. Listed' = Listed /\ listedCount' = listedCount
    BY DEF Listed, MoveCreatorIndex, CarryListing
  <1>2. CASE state[r] = "Listed"
    <2>1. /\ r \in ListedOf(from) /\ ListedOf(from)' = ListedOf(from) \ {r}
          /\ r \notin ListedOf(to) /\ ListedOf(to)' = ListedOf(to) \cup {r}
          /\ \A a : a \notin {from, to} => ListedOf(a)' = ListedOf(a)
      BY <1>0, <1>2 DEF Listed, ListedOf
    <2>2. /\ creatorListed' = [creatorListed EXCEPT ![from] = @ - 1, ![to] = @ + 1]
          /\ 1 <= creatorListed[from] /\ creatorListed[to] + 1 <= MaxCount
      <3>1. ListedWeight(state[r]) = 1
        BY <1>2 DEF ListedWeight
      <3>2. CarryListing(from, to, 1)
        BY <3>1 DEF MoveCreatorIndex
      <3> QED
        BY <1>0, <3>2 DEF CarryListing
    <2>3. Cardinality(ListedOf(from)') = Cardinality(ListedOf(from)) - 1
      BY <2>1, Finite, CountRemove
    <2>4. Cardinality(ListedOf(to)') = Cardinality(ListedOf(to)) + 1
      BY <2>1, Finite, CountAdd
    <2>5. ASSUME NEW a \in Addresses PROVE creatorListed'[a] = Cardinality(ListedOf(a)')
      <3>1. CASE a = from
        BY <1>0, <2>2, <2>3, <3>1
      <3>2. CASE a = to
        BY <1>0, <2>2, <2>4, <3>2
      <3>3. CASE a \notin {from, to}
        BY <1>0, <2>1, <2>2, <3>3
      <3> QED
        BY <3>1, <3>2, <3>3
    <2>6. creatorListed' \in [Addresses -> 0 .. MaxCount]
      BY <1>0, <2>2
    <2> QED
      BY <1>0, <1>1, <2>5, <2>6 DEF ListedCountsExact
  <1>3. CASE state[r] # "Listed"
    <2>1. \A a : ListedOf(a)' = ListedOf(a)
      BY <1>0, <1>3 DEF Listed, ListedOf
    <2>2. creatorListed' = creatorListed
      <3>1. CarryListing(from, to, 0)
        BY <1>3 DEF MoveCreatorIndex, ListedWeight
      <3> QED
        BY <1>0, <3>1 DEF CarryListing
    <2> QED
      BY <1>0, <1>1, <2>1, <2>2 DEF ListedCountsExact
  <1> QED
    BY <1>2, <1>3

\* A set and another one disjoint from it are counted apart.
LEMMA CountUnion ==
    ASSUME NEW S, IsFiniteSet(S), NEW T, IsFiniteSet(T), S \cap T = {}
    PROVE  Cardinality(S \cup T) = Cardinality(S) + Cardinality(T)
  <1>1. Cardinality(S) \in Nat /\ Cardinality(T) \in Nat /\ Cardinality({}) = 0
    BY FS_CardinalityType, FS_EmptySet
  <1>2. Cardinality(S \cup T) = Cardinality(S) + Cardinality(T) - Cardinality(S \cap T)
    BY FS_Union
  <1>3. Cardinality(S \cap T) = 0
    BY <1>1
  <1> QED
    BY <1>1, <1>2, <1>3

\* What a registration adds: distinct ids, none of them in use.
Adding(a, new) ==
    /\ IsInjective(new)
    /\ \A r \in ToSet(new) : r \in Ids /\ state[r] = "Unregistered"
    /\ AddAll(a, new)
    /\ signer' = a

Registration(a) ==
    \/ \E r \in Ids : Register(a, r)
    \/ \E batch \in Batches, n \in 0 .. MaxBatch :
          \E accepted \in Positions(n, Len(batch)) : RegisterBatch(a, batch, accepted)

\* One resource or the accepted part of a batch: both are additions.
LEMMA RegistrationAdds ==
    ASSUME NEW a \in Addresses, Registration(a)
    PROVE  \E new \in Seq(Ids) : Adding(a, new)
  <1>1. ASSUME NEW r \in Ids, Register(a, r) PROVE \E new \in Seq(Ids) : Adding(a, new)
    <2>1. <<r>> \in Seq(Ids) /\ ToSet(<<r>>) = {r} /\ IsInjective(<<r>>)
      BY DEF ToSet, IsInjective
    <2> QED
      BY <1>1, <2>1 DEF Register, Adding
  <1>2. ASSUME NEW batch \in Batches, NEW n \in 0 .. MaxBatch,
               NEW accepted \in Positions(n, Len(batch)), RegisterBatch(a, batch, accepted)
        PROVE  \E new \in Seq(Ids) : Adding(a, new)
    <2> DEFINE new == [i \in 1 .. n |-> batch[accepted[i]]]
    <2>1. /\ batch \in Seq(Ids)
          /\ accepted \in [1 .. n -> 1 .. Len(batch)]
          /\ \A i, j \in 1 .. n : i < j => accepted[i] < accepted[j]
          /\ DOMAIN accepted = 1 .. n /\ DOMAIN batch = 1 .. Len(batch)
      BY DEF Positions
    <2>2. new \in Seq(Ids) /\ DOMAIN new = 1 .. n /\ \A i \in 1 .. n : new[i] \in Ids
      BY <2>1
    <2>3. IsInjective(new)
      <3>1. IsInjective(batch)
        BY <1>2 DEF RegisterBatch
      <3>2. SUFFICES ASSUME NEW i \in 1 .. n, NEW j \in 1 .. n, new[i] = new[j] PROVE i = j
        BY DEF IsInjective
      <3>3. accepted[i] = accepted[j]
        BY <2>1, <3>1, <3>2 DEF IsInjective
      <3> QED
        BY <2>1, <3>3
    <2>4. \A i \in 1 .. n : state[new[i]] = "Unregistered"
      BY <1>2, <2>1 DEF RegisterBatch
    <2>5. AddAll(a, new) /\ signer' = a
      BY <1>2, <2>1 DEF RegisterBatch
    <2> HIDE DEF new
    <2>6. \A r \in ToSet(new) : r \in Ids /\ state[r] = "Unregistered"
      BY <2>2, <2>4 DEF ToSet
    <2> QED
      BY <2>2, <2>3, <2>5, <2>6 DEF Adding
  <1> QED
    BY <1>1, <1>2 DEF Registration

\* Registering new ids, one or a batch, keeps the invariant.
LEMMA AddAllInv ==
    ASSUME IInv, NEW a \in Addresses, NEW new \in Seq(Ids), Adding(a, new)
    PROVE  IInv'
  <1> DEFINE N == ToSet(new)
             n == Len(new)
  <1>0. /\ RecordsTypeOK /\ Ownership
        /\ listedCount = Cardinality(Listed)
        /\ \A b \in Addresses : creatorListed[b] = Cardinality(ListedOf(b))
        /\ OffersCurrent
    BY DEF IInv, ListedCountsExact
  <1>1. /\ IsFiniteSet(N) /\ Cardinality(N) = n /\ n \in Nat /\ N \subseteq Ids
        /\ \A r \in N : state[r] = "Unregistered"
        /\ AddAll(a, new) /\ signer' \in Addresses
    BY ListLength DEF Adding
  <1>2. /\ state' = [r \in Ids |-> IF r \in N THEN "Listed" ELSE state[r]]
        /\ creator' = [r \in Ids |-> IF r \in N THEN a ELSE creator[r]]
        /\ flagged' = [r \in Ids |-> r \notin N /\ flagged[r]]
        /\ catalog' = catalog \o new
        /\ UNCHANGED <<pending, offeredBy, paused>>
    BY <1>1 DEF AddAll
  <1>3. /\ listedCount' = listedCount + n /\ listedCount + n <= MaxCount
        /\ creatorListed' = [creatorListed EXCEPT ![a] = @ + n]
        /\ creatorListed[a] + n <= MaxCount
    BY <1>1 DEF AddAll, RoomFor
  <1>4. RecordsTypeOK'
    <2>1. catalog' \in Seq(Ids)
      BY <1>0, <1>1, <1>2 DEF RecordsTypeOK
    <2>2. flagged' \in [Ids -> BOOLEAN]
      BY <1>2
    <2> QED
      BY <1>0, <1>1, <1>2, <1>3, <2>1, <2>2 DEF RecordsTypeOK, States
  <1>5. Ownership'
    BY <1>0, <1>2 DEF Ownership, Registered
  <1>6. ListedCountsExact'
    <2>1. Listed' = Listed \cup N /\ Listed \cap N = {}
      BY <1>1, <1>2 DEF Listed
    <2>2. ListedOf(a)' = ListedOf(a) \cup N /\ ListedOf(a) \cap N = {}
      BY <1>1, <1>2, <2>1 DEF Listed, ListedOf
    <2>3. \A b \in Addresses : b # a => ListedOf(b)' = ListedOf(b)
      BY <1>1, <1>2, <2>1 DEF Listed, ListedOf
    <2>4. Cardinality(Listed') = listedCount + n
      BY <1>0, <1>1, <2>1, Finite, CountUnion
    <2>5. Cardinality(ListedOf(a)') = creatorListed[a] + n
      BY <1>0, <1>1, <2>2, Finite, CountUnion
    <2> QED
      BY <1>0, <1>3, <2>3, <2>4, <2>5 DEF ListedCountsExact, RecordsTypeOK
  <1>7. OffersCurrent'
    BY <1>0, <1>1, <1>2 DEF OffersCurrent, Live
  <1> QED
    BY <1>4, <1>5, <1>6, <1>7 DEF IInv

\* A lifecycle edge that leaves the owner alone keeps the invariant.
LEMMA LifecycleInv ==
    ASSUME IInv, NEW r \in Live, NEW next \in States \ {"Tombstoned"}, Transition(r, next),
           UNCHANGED <<creator, pending, offeredBy, flagged, catalog, paused>>,
           signer' \in Addresses
    PROVE  IInv'
  <1>1. r \in Registered /\ r \in Ids /\ next \in States
    BY DEF Live, Registered
  <1>2. /\ ListedCountsExact'
        /\ listedCount' \in 0 .. MaxCount
        /\ creatorListed' \in [Addresses -> 0 .. MaxCount]
    BY <1>1, TransitionCounts
  <1>3. state' = [state EXCEPT ![r] = next]
    BY DEF Transition
  <1>4. RecordsTypeOK'
    BY <1>1, <1>2, <1>3 DEF IInv, RecordsTypeOK
  <1>5. Ownership'
    BY <1>1, <1>3 DEF IInv, RecordsTypeOK, Ownership, Registered
  <1>6. OffersCurrent'
    <2>1. Live' = Live
      BY <1>1, <1>3 DEF IInv, RecordsTypeOK, Live, States
    <2> QED
      BY <2>1 DEF IInv, OffersCurrent
  <1> QED
    BY <1>2, <1>4, <1>5, <1>6 DEF IInv

\* A step that changes neither a state, an owner nor an offer keeps it.
LEMMA AsideInv ==
    ASSUME IInv, UNCHANGED <<state, creator, pending, offeredBy, counters>>,
           flagged' \in [Ids -> BOOLEAN], catalog' \in Seq(Ids),
           paused' \in BOOLEAN, signer' \in Addresses \cup {NoAddress}
    PROVE  IInv'
  BY DEF IInv, RecordsTypeOK, Ownership, ListedCountsExact, OffersCurrent, counters,
         Registered, Live, Listed, ListedOf

\* A change of owner, signed by either side, keeps the invariant.
LEMMA MoveInv ==
    ASSUME IInv, NEW r \in Ids, Mutable(r),
           NEW to \in Addresses, to # creator[r],
           creator' = [creator EXCEPT ![r] = to],
           MoveCreatorIndex(r, creator[r], to), ClearOffer(r),
           flagged' \in [Ids -> BOOLEAN], signer' \in Addresses,
           UNCHANGED <<state, catalog, paused>>
    PROVE  IInv'
  <1>1. r \in Registered /\ creator[r] \in Addresses
    BY DEF Mutable, Registered, IInv, Ownership
  <1>2. /\ ListedCountsExact'
        /\ listedCount' \in 0 .. MaxCount
        /\ creatorListed' \in [Addresses -> 0 .. MaxCount]
    BY <1>1, MoveCounts
  <1>3. /\ pending' = [pending EXCEPT ![r] = NoAddress]
        /\ offeredBy' = [offeredBy EXCEPT ![r] = NoAddress]
    BY DEF ClearOffer
  <1>4. RecordsTypeOK'
    BY <1>2, <1>3 DEF IInv, RecordsTypeOK
  <1>5. Ownership'
    BY DEF IInv, RecordsTypeOK, Ownership, Registered
  <1>6. OffersCurrent'
    BY <1>3 DEF IInv, RecordsTypeOK, OffersCurrent, Live
  <1> QED
    BY <1>2, <1>4, <1>5, <1>6 DEF IInv

---------------------------------------------------------------------------
(* The invariant *)

LEMMA InitInv == Init => IInv
  <1> SUFFICES ASSUME Init PROVE IInv
    OBVIOUS
  <1>1. Listed = {} /\ (\A a : ListedOf(a) = {}) /\ Registered = {}
    BY DEF Init, Listed, ListedOf, Registered
  <1>2. RecordsTypeOK
    <2>1. <<>> \in Seq(Ids) /\ 0 \in 0 .. MaxCount
      OBVIOUS
    <2> QED
      BY <2>1 DEF Init, RecordsTypeOK
  <1>3. ListedCountsExact
    BY <1>1, FS_EmptySet DEF Init, ListedCountsExact
  <1> QED
    BY <1>1, <1>2, <1>3 DEF Init, IInv, Ownership, OffersCurrent

LEMMA StepInv == IInv /\ [Next]_vars => IInv'
  <1> SUFFICES ASSUME IInv, [Next]_vars PROVE IInv'
    OBVIOUS
  <1>0. RecordsTypeOK /\ Ownership
    BY DEF IInv
  <1>1. ASSUME NEW a \in Addresses, Registration(a) PROVE IInv'
    BY <1>1, RegistrationAdds, AddAllInv
  <1>3. ASSUME NEW r \in Ids, CreatorCall(r) PROVE IInv'
    <2>1. ASSUME NEW next \in {"Listed", "Delisted"}, SetListed(r, next) PROVE IInv'
      <3>1. signer' \in Addresses
        BY <1>0, <2>1 DEF SetListed, Ownership
      <3>2. CASE state[r] = next
        BY <1>0, <2>1, <3>1, <3>2, AsideInv DEF SetListed, owners, RecordsTypeOK
      <3>3. CASE state[r] # next
        <4>1. r \in Live /\ next \in States \ {"Tombstoned"} /\ Transition(r, next)
          BY <2>1, <3>3 DEF SetListed, CreatorTransition, CreatorEdges, Live, States
        <4> QED
          BY <2>1, <3>1, <4>1, LifecycleInv DEF SetListed, owners
      <3> QED
        BY <3>2, <3>3
    <2>2. CASE FreezeResource(r)
      <3>1. r \in Live /\ "Frozen" \in States \ {"Tombstoned"} /\ Transition(r, "Frozen")
        BY <2>2 DEF FreezeResource, CreatorTransition, CreatorEdges, Live, States
      <3> QED
        BY <1>0, <2>2, <3>1, LifecycleInv DEF FreezeResource, owners, Ownership
    <2>3. CASE ReactivateResource(r)
      <3>1. r \in Live /\ "Listed" \in States \ {"Tombstoned"} /\ Transition(r, "Listed")
        BY <2>3 DEF ReactivateResource, Live, States
      <3> QED
        BY <1>0, <2>3, <3>1, LifecycleInv DEF ReactivateResource, owners, Ownership, Live, Registered
    <2>4. ASSUME NEW to \in Addresses, TransferOwnership(r, to) PROVE IInv'
      <3>1. signer' \in Addresses /\ flagged' \in [Ids -> BOOLEAN]
        BY <1>0, <2>4 DEF TransferOwnership, Ownership, Registered, Mutable, RecordsTypeOK
      <3> QED
        BY <2>4, <3>1, MoveInv DEF TransferOwnership
    <2>5. ASSUME NEW to \in Addresses, ProposeTransfer(r, to) PROVE IInv'
      <3>1. creator[r] \in Addresses /\ r \in Live
        BY <1>0, <2>5 DEF ProposeTransfer, Ownership, Registered, Mutable, Live
      <3>2. OffersCurrent'
        BY <1>0, <2>5, <3>1 DEF ProposeTransfer, IInv, OffersCurrent, Live, RecordsTypeOK
      <3> QED
        BY <2>5, <3>1, <3>2 DEF ProposeTransfer, IInv, RecordsTypeOK, Ownership, ListedCountsExact,
           counters, Registered, Listed, ListedOf
    <2>6. CASE CancelTransfer(r)
      <3>1. creator[r] \in Addresses
        BY <1>0, <2>6 DEF CancelTransfer, Ownership, Registered, Mutable
      <3>2. OffersCurrent'
        BY <1>0, <2>6 DEF CancelTransfer, ClearOffer, IInv, OffersCurrent, Live, RecordsTypeOK
      <3> QED
        BY <2>6, <3>1, <3>2 DEF CancelTransfer, ClearOffer, IInv, RecordsTypeOK, Ownership,
           ListedCountsExact, counters, Registered, Listed, ListedOf
    <2> QED
      BY <1>3, <2>1, <2>2, <2>3, <2>4, <2>5, <2>6 DEF CreatorCall
  <1>4. ASSUME NEW r \in Ids, AcceptTransfer(r) PROVE IInv'
    <2>1. pending[r] \in Addresses /\ pending[r] # creator[r]
      BY <1>0, <1>4 DEF AcceptTransfer, RecordsTypeOK, IInv, OffersCurrent
    <2>2. signer' \in Addresses /\ flagged' \in [Ids -> BOOLEAN]
      BY <1>0, <1>4, <2>1 DEF AcceptTransfer, RecordsTypeOK
    <2> QED
      BY <1>4, <2>1, <2>2, MoveInv DEF AcceptTransfer
  <1>5. ASSUME NEW caller \in Addresses, NEW r \in Ids, AdminCall(caller, r) PROVE IInv'
    <2>1. CASE OpenDispute(r, caller)
      <3>1. r \in Live /\ "Disputed" \in States \ {"Tombstoned"} /\ Transition(r, "Disputed")
        BY <2>1 DEF OpenDispute, Live, States
      <3> QED
        BY <2>1, <3>1, LifecycleInv DEF OpenDispute, owners
    <2>2. ASSUME NEW next \in States, ResolveDispute(r, caller, next) PROVE IInv'
      <3>1. r \in Live /\ next \in States \ {"Tombstoned"} /\ Transition(r, next)
        BY <2>2 DEF ResolveDispute, Live, States
      <3> QED
        BY <2>2, <3>1, LifecycleInv DEF ResolveDispute, owners
    <2>3. CASE EmergencyDelist(r, caller)
      <3>1. r \in Live /\ "Delisted" \in States \ {"Tombstoned"} /\ Transition(r, "Delisted")
        BY <2>3 DEF EmergencyDelist, Live, States
      <3> QED
        BY <2>3, <3>1, LifecycleInv DEF EmergencyDelist, owners
    <2>4. CASE TombstoneResource(r, caller)
      <3>1. /\ Transition(r, "Tombstoned") /\ r \in Live /\ ClearOffer(r)
            /\ signer' \in Addresses /\ UNCHANGED <<creator, flagged, catalog, paused>>
        BY <2>4 DEF TombstoneResource
      <3>2. r \in Registered /\ "Tombstoned" \in States
        BY <3>1 DEF Live, Registered, States
      <3>3. /\ ListedCountsExact'
            /\ listedCount' \in 0 .. MaxCount
            /\ creatorListed' \in [Addresses -> 0 .. MaxCount]
        BY <3>1, <3>2, TransitionCounts
      <3>4. state' = [state EXCEPT ![r] = "Tombstoned"]
        BY <3>1 DEF Transition
      <3>5. RecordsTypeOK'
        BY <1>0, <3>1, <3>2, <3>3, <3>4 DEF RecordsTypeOK, ClearOffer
      <3>6. Ownership'
        BY <1>0, <3>1, <3>2, <3>4 DEF RecordsTypeOK, Ownership, Registered
      <3>7. OffersCurrent'
        BY <1>0, <3>1, <3>4 DEF IInv, RecordsTypeOK, OffersCurrent, Live, ClearOffer
      <3> QED
        BY <3>3, <3>5, <3>6, <3>7 DEF IInv
    <2> QED
      BY <1>5, <2>1, <2>2, <2>3, <2>4 DEF AdminCall
  <1>6. ASSUME NEW caller \in Addresses, NEW r \in Ids, NEW value \in BOOLEAN, SetFlag(r, caller, value)
        PROVE  IInv'
    BY <1>0, <1>6, AsideInv DEF SetFlag, owners, RecordsTypeOK
  <1>7. ASSUME NEW caller \in Addresses, NEW ids \in RepairLists, RepairIndex(caller, ids)
        PROVE  IInv'
    BY <1>0, <1>7, AsideInv DEF RepairIndex, owners, RecordsTypeOK
  <1>8. ASSUME NEW caller \in Addresses, NEW value \in BOOLEAN, SetPaused(caller, value)
        PROVE  IInv'
    BY <1>0, <1>8, AsideInv DEF SetPaused, owners, RecordsTypeOK
  <1>9. CASE UNCHANGED vars
    BY <1>0, <1>9, AsideInv DEF vars, counters, RecordsTypeOK
  <1> QED
    BY <1>1, <1>3, <1>4, <1>5, <1>6, <1>7, <1>8, <1>9 DEF Next, Registration

LEMMA Invariance == Spec => []IInv
  BY InitInv, StepInv, PTL DEF Spec

\* The listed counts are the numbers of listed resources, whatever registrations,
\* lifecycle edges and changes of owner lie behind them.
THEOREM CatalogListedCountsExact == Spec => []ListedCountsExact
  <1>1. IInv => ListedCountsExact
    BY DEF IInv
  <1> QED
    BY <1>1, Invariance, PTL

\* An offer never outlives the ownership it was made under.
THEOREM CatalogOffersCurrent == Spec => []OffersCurrent
  <1>1. IInv => OffersCurrent
    BY DEF IInv
  <1> QED
    BY <1>1, Invariance, PTL

---------------------------------------------------------------------------
(* The lists *)

\* What the owners' lists and the pagination index need beside IInv: a list
\* whose length is its stored count, and no unit of the count without an entry.
Indexed ==
    /\ creatorIdx \in [Addresses -> Seq(Ids)]
    /\ creatorCount \in [Addresses -> 0 .. MaxCount]
    /\ CreatorIndexExact
    /\ CatalogSound
    /\ Len(catalog) <= MaxCount

LEMMA InitIndexed == Init => Indexed
  <1> SUFFICES ASSUME Init PROVE Indexed
    OBVIOUS
  <1>1. /\ <<>> \in Seq(Ids) /\ Len(<<>>) = 0 /\ 0 \in 0 .. MaxCount
        /\ IsInjective(<<>>) /\ ToSet(<<>>) = {}
    BY DEF IsInjective, ToSet
  <1>2. \A a \in Addresses : Owned(a) = {}
    BY DEF Init, Owned, Live
  <1>3. /\ creatorIdx \in [Addresses -> Seq(Ids)]
        /\ creatorCount \in [Addresses -> 0 .. MaxCount]
    BY <1>1 DEF Init
  <1>4. CreatorIndexExact
    BY <1>1, <1>2 DEF Init, CreatorIndexExact
  <1>5. CatalogSound /\ Len(catalog) <= MaxCount
    BY <1>1 DEF Init, CatalogSound
  <1> QED
    BY <1>3, <1>4, <1>5 DEF Indexed

\* The registered ids go to the end of the owner's list and of the catalog.
LEMMA AddAllIndexed ==
    ASSUME IInv, Indexed, NEW a \in Addresses, NEW new \in Seq(Ids), Adding(a, new)
    PROVE  Indexed'
  <1> DEFINE N == ToSet(new)
             n == Len(new)
             old == creatorIdx[a]
  <1>0. /\ creatorIdx \in [Addresses -> Seq(Ids)]
        /\ creatorCount \in [Addresses -> 0 .. MaxCount]
        /\ \A b \in Addresses : /\ IsInjective(creatorIdx[b]) /\ ToSet(creatorIdx[b]) = Owned(b)
                                /\ creatorCount[b] = Len(creatorIdx[b])
        /\ IsInjective(catalog) /\ ToSet(catalog) \subseteq Registered
        /\ catalog \in Seq(Ids)
    BY DEF Indexed, CreatorIndexExact, CatalogSound, IInv, RecordsTypeOK
  <1>1. /\ IsInjective(new) /\ N \subseteq Ids /\ AddAll(a, new)
        /\ \A r \in N : state[r] = "Unregistered"
    BY DEF Adding
  <1>2. /\ state' = [r \in Ids |-> IF r \in N THEN "Listed" ELSE state[r]]
        /\ creator' = [r \in Ids |-> IF r \in N THEN a ELSE creator[r]]
        /\ catalog' = catalog \o new
        /\ creatorIdx' = [creatorIdx EXCEPT ![a] = @ \o new]
        /\ creatorCount' = [creatorCount EXCEPT ![a] = @ + n]
    BY <1>1 DEF AddAll
  <1>3. /\ n \in Nat /\ creatorCount[a] + n <= MaxCount /\ Len(catalog) + n <= MaxCount
    BY <1>1 DEF AddAll, RoomFor
  <1>4. /\ Owned(a)' = Owned(a) \cup N /\ Owned(a) \cap N = {}
        /\ \A b \in Addresses : b # a => Owned(b)' = Owned(b)
        /\ Registered' = Registered \cup N /\ Registered \cap N = {}
    BY <1>1, <1>2 DEF Owned, Live, Registered
  <1>5. /\ old \o new \in Seq(Ids) /\ Len(old \o new) = Len(old) + n
        /\ ToSet(old \o new) = Owned(a)' /\ IsInjective(old \o new)
    BY <1>0, <1>1, <1>4, ConcatMembers
  <1>6. /\ Len(catalog') = Len(catalog) + n /\ IsInjective(catalog')
        /\ ToSet(catalog') = ToSet(catalog) \cup N
    <2>1. ToSet(catalog) \cap N = {}
      BY <1>0, <1>4
    <2> QED
      BY <1>0, <1>1, <1>2, <2>1, ConcatMembers
  <1>7. CreatorIndexExact'
    <2> SUFFICES ASSUME NEW b \in Addresses
                 PROVE  /\ IsInjective(creatorIdx'[b]) /\ ToSet(creatorIdx'[b]) = Owned(b)'
                        /\ creatorCount'[b] = Len(creatorIdx'[b])
      BY DEF CreatorIndexExact
    <2>1. CASE b = a
      BY <1>0, <1>2, <1>5, <2>1
    <2>2. CASE b # a
      BY <1>0, <1>2, <1>4, <2>2
    <2> QED
      BY <2>1, <2>2
  <1>8. /\ creatorIdx' \in [Addresses -> Seq(Ids)]
        /\ creatorCount' \in [Addresses -> 0 .. MaxCount]
    <2>1. creatorCount[a] + n \in 0 .. MaxCount
      BY <1>0, <1>3
    <2> QED
      BY <1>0, <1>2, <1>5, <2>1
  <1>9. Len(catalog') <= MaxCount
    BY <1>3, <1>6
  <1>10. CatalogSound'
    BY <1>0, <1>4, <1>6 DEF CatalogSound
  <1> QED
    BY <1>7, <1>8, <1>9, <1>10 DEF Indexed

\* A step that writes no list and retires nobody's resource keeps them.
LEMMA KeepIndexed ==
    ASSUME IInv, Indexed, UNCHANGED <<creator, creatorIdx, creatorCount>>,
           \/ UNCHANGED state
           \/ \E r \in Live, next \in States \ {"Tombstoned"} : state' = [state EXCEPT ![r] = next],
           \/ UNCHANGED catalog
           \/ catalog' \in RepairLists /\ RepairValid(catalog')
    PROVE  Indexed'
  <1>1. Live' = Live /\ Registered' = Registered
    BY DEF IInv, RecordsTypeOK, Live, Registered, States
  <1>2. \A a : Owned(a)' = Owned(a)
    BY <1>1 DEF Owned
  <1>3. CatalogSound' /\ Len(catalog') <= MaxCount
    BY <1>1 DEF Indexed, CatalogSound, RepairValid
  <1> QED
    BY <1>2, <1>3 DEF Indexed, CreatorIndexExact

\* A retired resource leaves its owner's list, which is one shorter.
LEMMA TombstoneIndexed ==
    ASSUME IInv, Indexed, NEW r \in Live, DropFromIndex(r, creator[r]),
           state' = [state EXCEPT ![r] = "Tombstoned"], UNCHANGED <<creator, catalog>>
    PROVE  Indexed'
  <1> DEFINE c == creator[r]
             old == creatorIdx[c]
  <1>0. /\ creatorIdx \in [Addresses -> Seq(Ids)]
        /\ creatorCount \in [Addresses -> 0 .. MaxCount]
        /\ \A b \in Addresses : /\ IsInjective(creatorIdx[b]) /\ ToSet(creatorIdx[b]) = Owned(b)
                                /\ creatorCount[b] = Len(creatorIdx[b])
    BY DEF Indexed, CreatorIndexExact
  <1>1. /\ r \in Ids /\ c \in Addresses /\ r \in Owned(c)
        /\ state \in [Ids -> States \cup {"Unregistered"}]
    BY DEF Live, Owned, IInv, Ownership, Registered, RecordsTypeOK
  <1>2. /\ Owned(c)' = Owned(c) \ {r}
        /\ \A b \in Addresses : b # c => Owned(b)' = Owned(b)
        /\ Registered' = Registered
    BY <1>1 DEF Owned, Live, Registered
  <1>3. /\ Without(old, r) \in Seq(Ids) /\ IsInjective(Without(old, r))
        /\ ToSet(Without(old, r)) = Owned(c)'
    BY <1>0, <1>1, <1>2, WithoutRemoves
  <1>4. Len(old) \in Nat /\ Len(Without(old, r)) \in Nat /\ Len(Without(old, r)) = Len(old) - 1
    BY <1>0, <1>1, <1>3, WithoutLength
  <1>5. /\ creatorIdx' = [creatorIdx EXCEPT ![c] = Without(old, r)]
        /\ creatorCount' = [creatorCount EXCEPT ![c] = Len(Without(old, r))]
        /\ Len(Without(old, r)) \in 0 .. MaxCount
    <2>1. creatorCount[c] = Len(old) /\ creatorCount[c] \in 0 .. MaxCount
      BY <1>0, <1>1
    <2>2. creatorCount[c] # 0 /\ creatorCount[c] - 1 = Len(Without(old, r))
      BY <1>4, <2>1
    <2> QED
      BY <1>4, <2>1, <2>2 DEF DropFromIndex
  <1>6. CreatorIndexExact'
    <2> SUFFICES ASSUME NEW b \in Addresses
                 PROVE  /\ IsInjective(creatorIdx'[b]) /\ ToSet(creatorIdx'[b]) = Owned(b)'
                        /\ creatorCount'[b] = Len(creatorIdx'[b])
      BY DEF CreatorIndexExact
    <2>1. CASE b = c
      BY <1>0, <1>1, <1>3, <1>5, <2>1
    <2>2. CASE b # c
      BY <1>0, <1>2, <1>5, <2>2
    <2> QED
      BY <2>1, <2>2
  <1>7. CatalogSound' /\ Len(catalog') <= MaxCount
    BY <1>2 DEF Indexed, CatalogSound
  <1> QED
    BY <1>0, <1>3, <1>5, <1>6, <1>7 DEF Indexed

\* A change of owner moves the entry from one list to the other.
LEMMA MoveIndexed ==
    ASSUME IInv, Indexed, NEW r \in Ids, Mutable(r),
           NEW from \in Addresses, from = creator[r],
           NEW to \in Addresses, to # from,
           creator' = [creator EXCEPT ![r] = to],
           MoveCreatorIndex(r, from, to), UNCHANGED <<state, catalog>>
    PROVE  Indexed'
  <1> DEFINE left == Without(creatorIdx[from], r)
             dest == Append(creatorIdx[to], r)
  <1>0. /\ creatorIdx \in [Addresses -> Seq(Ids)]
        /\ creatorCount \in [Addresses -> 0 .. MaxCount]
        /\ \A b \in Addresses : /\ IsInjective(creatorIdx[b]) /\ ToSet(creatorIdx[b]) = Owned(b)
                                /\ creatorCount[b] = Len(creatorIdx[b])
        /\ creator \in [Ids -> Addresses \cup {NoAddress}]
    BY DEF Indexed, CreatorIndexExact, IInv, RecordsTypeOK
  <1>1. /\ r \in Live /\ r \in Owned(from) /\ r \notin Owned(to)
    BY DEF Mutable, Live, Owned
  <1>2. /\ Owned(from)' = Owned(from) \ {r} /\ Owned(to)' = Owned(to) \cup {r}
        /\ \A b \in Addresses : b \notin {from, to} => Owned(b)' = Owned(b)
        /\ Registered' = Registered
    <2>1. Live' = Live /\ Registered' = Registered
      BY DEF Live, Registered
    <2>2. \A q \in Live : creator'[q] = IF q = r THEN to ELSE creator[q]
      BY <1>0 DEF Live
    <2> QED
      BY <1>1, <2>1, <2>2 DEF Owned
  <1>3. /\ left \in Seq(Ids) /\ IsInjective(left) /\ ToSet(left) = Owned(from)'
        /\ Len(left) = Len(creatorIdx[from]) - 1
    BY <1>0, <1>1, <1>2, WithoutRemoves, WithoutLength
  <1>4. dest \in Seq(Ids) /\ IsInjective(dest) /\ ToSet(dest) = Owned(to)'
    BY <1>0, <1>1, <1>2, AppendMembers
  <1>5. /\ creatorIdx' = [creatorIdx EXCEPT ![from] = left, ![to] = dest]
        /\ creatorCount' = [creatorCount EXCEPT ![from] = Len(left), ![to] = Len(dest)]
        /\ Len(dest) <= MaxCount
    <2>1. r \notin ToSet(creatorIdx[to])
      BY <1>0, <1>1
    <2> QED
      BY <2>1 DEF MoveCreatorIndex
  <1> HIDE DEF left, dest
  <1>6. Len(left) \in 0 .. MaxCount /\ Len(dest) \in 0 .. MaxCount
    BY <1>0, <1>1, <1>3, <1>4, <1>5
  <1>7. CreatorIndexExact'
    <2> SUFFICES ASSUME NEW b \in Addresses
                 PROVE  /\ IsInjective(creatorIdx'[b]) /\ ToSet(creatorIdx'[b]) = Owned(b)'
                        /\ creatorCount'[b] = Len(creatorIdx'[b])
      BY DEF CreatorIndexExact
    <2>1. CASE b = from
      BY <1>0, <1>1, <1>3, <1>5, <2>1
    <2>2. CASE b = to
      BY <1>0, <1>1, <1>4, <1>5, <2>2
    <2>3. CASE b \notin {from, to}
      BY <1>0, <1>2, <1>5, <2>3
    <2> QED
      BY <2>1, <2>2, <2>3
  <1>8. CatalogSound' /\ Len(catalog') <= MaxCount
    BY <1>2 DEF Indexed, CatalogSound
  <1>9. /\ creatorIdx' \in [Addresses -> Seq(Ids)]
        /\ creatorCount' \in [Addresses -> 0 .. MaxCount]
    BY <1>0, <1>3, <1>4, <1>5, <1>6
  <1> QED
    BY <1>7, <1>8, <1>9 DEF Indexed

LEMMA StepIndexed == IInv /\ Indexed /\ [Next]_vars => Indexed'
  <1> SUFFICES ASSUME IInv, Indexed, [Next]_vars PROVE Indexed'
    OBVIOUS
  <1>1. ASSUME NEW a \in Addresses, Registration(a) PROVE Indexed'
    BY <1>1, RegistrationAdds, AddAllIndexed
  <1>2. ASSUME NEW r \in Ids, CreatorCall(r) PROVE Indexed'
    <2>1. ASSUME NEW to \in Addresses, TransferOwnership(r, to) PROVE Indexed'
      <3>1. creator[r] \in Addresses
        BY <2>1 DEF TransferOwnership, Mutable, IInv, Ownership, Registered
      <3> QED
        BY <2>1, <3>1, MoveIndexed DEF TransferOwnership
    <2>2. ASSUME NEW next \in {"Listed", "Delisted"}, SetListed(r, next) PROVE Indexed'
      <3>1. CASE state[r] = next
        BY <2>2, <3>1, KeepIndexed DEF SetListed, owners
      <3>2. CASE state[r] # next
        <4>1. r \in Live /\ next \in States \ {"Tombstoned"} /\ state' = [state EXCEPT ![r] = next]
          BY <2>2, <3>2 DEF SetListed, CreatorTransition, CreatorEdges, Transition, Live, States
        <4> QED
          BY <2>2, <4>1, KeepIndexed DEF SetListed, owners
      <3> QED
        BY <3>1, <3>2
    <2>3. CASE FreezeResource(r)
      <3>1. /\ r \in Live /\ "Frozen" \in States \ {"Tombstoned"}
            /\ state' = [state EXCEPT ![r] = "Frozen"]
        BY <2>3 DEF FreezeResource, CreatorTransition, CreatorEdges, Transition, Live, States
      <3> QED
        BY <2>3, <3>1, KeepIndexed DEF FreezeResource, owners
    <2>4. CASE ReactivateResource(r)
      <3>1. /\ r \in Live /\ "Listed" \in States \ {"Tombstoned"}
            /\ state' = [state EXCEPT ![r] = "Listed"]
        BY <2>4 DEF ReactivateResource, Transition, Live, States
      <3> QED
        BY <2>4, <3>1, KeepIndexed DEF ReactivateResource, owners
    <2>5. ASSUME NEW to \in Addresses, ProposeTransfer(r, to) PROVE Indexed'
      BY <2>5, KeepIndexed DEF ProposeTransfer
    <2>6. CASE CancelTransfer(r)
      BY <2>6, KeepIndexed DEF CancelTransfer
    <2> QED
      BY <1>2, <2>1, <2>2, <2>3, <2>4, <2>5, <2>6 DEF CreatorCall
  <1>3. ASSUME NEW r \in Ids, AcceptTransfer(r) PROVE Indexed'
    <2>1. pending[r] \in Addresses /\ pending[r] # creator[r] /\ creator[r] \in Addresses
      BY <1>3 DEF AcceptTransfer, Mutable, RecordsTypeOK, IInv, Ownership, Registered, OffersCurrent
    <2> QED
      BY <1>3, <2>1, MoveIndexed DEF AcceptTransfer
  <1>4. ASSUME NEW caller \in Addresses, NEW r \in Ids, AdminCall(caller, r) PROVE Indexed'
    <2>1. CASE TombstoneResource(r, caller)
      BY <2>1, TombstoneIndexed DEF TombstoneResource, Transition
    <2>2. CASE ~TombstoneResource(r, caller)
      <3>1. PICK next \in States \ {"Tombstoned"} :
               r \in Live /\ state' = [state EXCEPT ![r] = next] /\ UNCHANGED <<owners, catalog>>
        BY <1>4, <2>2 DEF AdminCall, OpenDispute, ResolveDispute, EmergencyDelist, Transition,
           Live, States
      <3> QED
        BY <3>1, KeepIndexed DEF owners
    <2> QED
      BY <2>1, <2>2
  <1>5. ASSUME NEW caller \in Addresses, NEW ids \in RepairLists, RepairIndex(caller, ids)
        PROVE  Indexed'
    BY <1>5, KeepIndexed DEF RepairIndex, owners
  <1>6. ASSUME NEW caller \in Addresses,
               \/ \E r \in Ids, value \in BOOLEAN : SetFlag(r, caller, value)
               \/ \E value \in BOOLEAN : SetPaused(caller, value)
        PROVE  Indexed'
    BY <1>6, KeepIndexed DEF SetFlag, SetPaused, owners
  <1>7. CASE UNCHANGED vars
    BY <1>7, KeepIndexed DEF vars
  <1> QED
    BY <1>1, <1>2, <1>3, <1>4, <1>5, <1>6, <1>7 DEF Next, Registration

LEMMA IndexInvariance == Spec => []Indexed
  BY InitIndexed, StepIndexed, Invariance, PTL DEF Spec

\* Each account's list holds the live resources it owns once and nothing else,
\* and its stored count, decremented by tombstone_resource and recomputed by a
\* transfer, is the length of the list.
THEOREM CatalogCreatorIndexExact == Spec => []CreatorIndexExact
  <1>1. Indexed => CreatorIndexExact
    BY DEF Indexed
  <1> QED
    BY <1>1, IndexInvariance, PTL

\* The pagination index shows no id twice and none without a resource.
THEOREM CatalogIndexSound == Spec => []CatalogSound
  <1>1. Indexed => CatalogSound
    BY DEF Indexed
  <1> QED
    BY <1>1, IndexInvariance, PTL

\* Every record, list and counter keeps its type: no count leaves the u32 range.
THEOREM CatalogTyped == Spec => []TypeOK
  <1>1. IInv /\ Indexed => TypeOK
    BY DEF IInv, Indexed, TypeOK
  <1> QED
    BY <1>1, Invariance, IndexInvariance, PTL

---------------------------------------------------------------------------
(* What a step may do *)

\* An owner is changed by its signature, or by that of the account it made an
\* offer to, and never while the resource is frozen, disputed or retired.
THEOREM CatalogOwnershipByConsent == Spec => OwnershipByConsent
  <1> DEFINE Consent == \A r \in Registered : creator'[r] # creator[r] =>
           /\ state[r] \in {"Listed", "Delisted"} /\ state'[r] = state[r]
           /\ \/ signer' = creator[r]
              \/ signer' = creator'[r] /\ pending[r] = creator'[r]
  <1>1. IInv /\ [Next]_vars => [Consent]_vars
    <2> SUFFICES ASSUME IInv, Next PROVE Consent
      OBVIOUS
    <2>0. RecordsTypeOK
      BY DEF IInv
    <2>1. ASSUME NEW a \in Addresses, Registration(a) PROVE Consent
      <3>1. PICK new \in Seq(Ids) : Adding(a, new)
        BY <2>1, RegistrationAdds
      <3> QED
        BY <3>1 DEF Adding, AddAll, Registered
    <2>4. ASSUME NEW r \in Ids, CreatorCall(r) PROVE Consent
      BY <2>0, <2>4 DEF CreatorCall, SetListed, FreezeResource, ReactivateResource, TransferOwnership,
         ProposeTransfer, CancelTransfer, owners, Mutable, RecordsTypeOK, Registered
    <2>5. ASSUME NEW r \in Ids, AcceptTransfer(r) PROVE Consent
      BY <2>0, <2>5 DEF AcceptTransfer, Mutable, RecordsTypeOK, Registered
    <2>6. ASSUME NEW caller \in Addresses, NEW r \in Ids, AdminCall(caller, r) PROVE Consent
      BY <2>6 DEF AdminCall, OpenDispute, ResolveDispute, EmergencyDelist, TombstoneResource, owners
    <2> QED
      BY <2>1, <2>4, <2>5, <2>6 DEF Next, Registration, SetFlag, RepairIndex, SetPaused, owners
  <1> QED
    BY <1>1, Invariance, PTL DEF Spec, OwnershipByConsent

\* Only the admin ends a dispute hold, and nothing ends a tombstone.
THEOREM CatalogHoldsByAdmin == Spec => HoldsByAdmin
  <1> DEFINE Held == \A r \in Ids :
           /\ state[r] = "Disputed" /\ state'[r] # "Disputed" => signer' = Admin
           /\ state[r] = "Tombstoned" => state'[r] = "Tombstoned" /\ pending'[r] = NoAddress
  <1>1. IInv /\ [Next]_vars => [Held]_vars
    <2> SUFFICES ASSUME IInv, Next PROVE Held
      OBVIOUS
    <2>0. /\ RecordsTypeOK
          /\ \A r \in Ids : state[r] = "Tombstoned" => pending[r] = NoAddress
      BY DEF IInv, OffersCurrent, Live
    <2>1. ASSUME NEW a \in Addresses, Registration(a) PROVE Held
      <3>1. PICK new \in Seq(Ids) : Adding(a, new)
        BY <2>1, RegistrationAdds
      <3> QED
        BY <2>0, <3>1 DEF Adding, AddAll
    <2>4. ASSUME NEW r \in Ids, CreatorCall(r) PROVE Held
      BY <2>0, <2>4 DEF CreatorCall, SetListed, FreezeResource, ReactivateResource, TransferOwnership,
         ProposeTransfer, CancelTransfer, ClearOffer, CreatorTransition, CreatorEdges, Transition,
         owners, Mutable, RecordsTypeOK
    <2>5. ASSUME NEW r \in Ids, AcceptTransfer(r) PROVE Held
      BY <2>0, <2>5 DEF AcceptTransfer, ClearOffer, RecordsTypeOK
    <2>6. ASSUME NEW caller \in Addresses, NEW r \in Ids, AdminCall(caller, r) PROVE Held
      BY <2>0, <2>6 DEF AdminCall, OpenDispute, ResolveDispute, EmergencyDelist, TombstoneResource,
         ClearOffer, Transition, owners, Live, RecordsTypeOK
    <2> QED
      BY <2>0, <2>1, <2>4, <2>5, <2>6 DEF Next, Registration, SetFlag, RepairIndex, SetPaused, owners
  <1> QED
    BY <1>1, Invariance, PTL DEF Spec, HoldsByAdmin

---------------------------------------------------------------------------
(* The catalog implements Holdings *)

holding == [r \in Ids |-> HolderOf(r)]

\* Holdings extends FiniteSets too: its Cardinality is this one.
LEMMA SameCardinality == \A S : H!Cardinality(S) = Cardinality(S)
  BY DEF H!Cardinality, Cardinality, H!IsFiniteSet, IsFiniteSet

\* The counters are the figures Holdings counts afresh.
LEMMA TallyHolds == ASSUME IInv' PROVE H!Tally
  <1>1. /\ creatorListed' \in [Addresses -> 0 .. MaxCount]
        /\ listedCount' = Cardinality(Listed')
        /\ \A a \in Addresses : creatorListed'[a] = Cardinality(ListedOf(a)')
    BY DEF IInv, RecordsTypeOK, ListedCountsExact
  <1>2. \A a \in Addresses : {r \in Listed' : holding'[r] = a} = ListedOf(a)'
    BY DEF holding, HolderOf, Listed, ListedOf
  <1>3. \A a \in Addresses : creatorListed'[a] = H!SalesOf(holding', Listed', a)
    BY <1>1, <1>2, SameCardinality DEF H!SalesOf
  <1>4. listedCount' = H!Cardinality(Listed')
    BY <1>1, SameCardinality
  <1> QED
    BY <1>1, <1>3, <1>4 DEF H!Tally, holding

LEMMA HeldByOwner ==
    ASSUME IInv, NEW r \in Live
    PROVE  r \in Ids /\ holding[r] = creator[r] /\ creator[r] \in Addresses
  BY DEF holding, HolderOf, Live, IInv, Ownership, Registered

LEMMA PublishStep ==
    ASSUME IInv, IInv', NEW a \in Addresses, NEW new \in Seq(Ids), Adding(a, new)
    PROVE  H!Next
  <1> DEFINE N == ToSet(new)
  <1>0. /\ N \subseteq Ids /\ AddAll(a, new)
        /\ \A r \in N : state[r] = "Unregistered"
    BY DEF Adding
  <1>1. /\ state' = [r \in Ids |-> IF r \in N THEN "Listed" ELSE state[r]]
        /\ creator' = [r \in Ids |-> IF r \in N THEN a ELSE creator[r]]
    BY <1>0 DEF AddAll
  <1>2. \A r \in N : holding[r] = "unpublished"
    BY <1>0 DEF holding, HolderOf
  <1>3. holding' = [r \in Ids |-> IF r \in N THEN a ELSE holding[r]]
    BY <1>1 DEF holding, HolderOf
  <1>4. Listed' = Listed \cup N
    BY <1>0, <1>1 DEF Listed
  <1>5. H!Publish(a, N)
    BY <1>2, <1>3, <1>4, TallyHolds DEF H!Publish, holding
  <1>6. N \in SUBSET Ids
    BY <1>0
  <1> HIDE DEF N
  <1> QED
    BY <1>5, <1>6 DEF H!Next

LEMMA LifecycleStep ==
    ASSUME IInv, IInv', NEW r \in Live, NEW next \in States, Transition(r, next), UNCHANGED creator
    PROVE  H!Next
  <1>1. /\ state' = [state EXCEPT ![r] = next]
        /\ state \in [Ids -> States \cup {"Unregistered"}]
        /\ r \in Ids /\ holding[r] \in Addresses
    BY HeldByOwner DEF Transition, IInv, RecordsTypeOK
  <1>2. CASE next = "Listed"
    <2>1. holding' = holding /\ Listed' = Listed \cup {r}
      BY <1>1, <1>2 DEF holding, HolderOf, Listed, Live
    <2>2. H!PutOnSale(r)
      BY <1>1, <2>1, TallyHolds DEF H!PutOnSale, holding
    <2> QED
      BY <1>1, <2>2 DEF H!Next
  <1>3. CASE next = "Tombstoned"
    <2>1. holding' = [holding EXCEPT ![r] = "retired"] /\ Listed' = Listed \ {r}
      BY <1>1, <1>3 DEF holding, HolderOf, Listed
    <2>2. H!Retire(r)
      BY <1>1, <2>1, TallyHolds DEF H!Retire, holding
    <2> QED
      BY <1>1, <2>2 DEF H!Next
  <1>4. CASE next \notin {"Listed", "Tombstoned"}
    <2>1. holding' = holding /\ Listed' = Listed \ {r}
      BY <1>1, <1>4 DEF holding, HolderOf, Listed, Live, States
    <2>2. H!Withdraw(r)
      BY <2>1, TallyHolds DEF H!Withdraw, holding
    <2> QED
      BY <1>1, <2>2 DEF H!Next
  <1> QED
    BY <1>2, <1>3, <1>4

LEMMA HandOverStep ==
    ASSUME IInv, IInv', NEW r \in Ids, Mutable(r), NEW to \in Addresses,
           creator' = [creator EXCEPT ![r] = to], UNCHANGED state
    PROVE  H!Next
  <1>1. r \in Live
    BY DEF Mutable, Live
  <1>2. holding[r] \in Addresses
    BY <1>1, HeldByOwner
  <1>3. holding' = [holding EXCEPT ![r] = to] /\ Listed' = Listed
    BY <1>1 DEF holding, HolderOf, Listed, Live, IInv, RecordsTypeOK
  <1>4. H!HandOver(r, to)
    BY <1>2, <1>3, TallyHolds DEF H!HandOver, holding
  <1> QED
    BY <1>4 DEF H!Next

\* Whatever leaves states, owners and counters alone is no step of Holdings.
LEMMA AsideStep ==
    ASSUME UNCHANGED <<state, creator, counters>>
    PROVE  UNCHANGED H!hvars
  BY DEF H!hvars, HolderOf, Listed, counters

\* Every call of the catalog is one step of Holdings or none.
THEOREM CatalogImplementsHoldings == Spec => ImplementsHoldings
  <1>1. Init => H!Init
    <2> SUFFICES ASSUME Init PROVE H!Init
      OBVIOUS
    <2>1. \A r \in Ids : HolderOf(r) = "unpublished"
      BY DEF Init, HolderOf
    <2> QED
      BY <2>1 DEF Init, H!Init, Listed
  <1>2. IInv /\ IInv' /\ [Next]_vars => [H!Next]_(H!hvars)
    <2> SUFFICES ASSUME IInv, IInv', [Next]_vars PROVE H!Next \/ UNCHANGED H!hvars
      OBVIOUS
    <2>1. ASSUME NEW a \in Addresses, Registration(a) PROVE H!Next
      BY <2>1, RegistrationAdds, PublishStep
    <2>3. ASSUME NEW r \in Ids, CreatorCall(r) PROVE H!Next \/ UNCHANGED H!hvars
      <3>1. ASSUME NEW next \in {"Listed", "Delisted"}, SetListed(r, next)
            PROVE  H!Next \/ UNCHANGED H!hvars
        <4>1. CASE state[r] = next
          BY <3>1, <4>1, AsideStep DEF SetListed, owners
        <4>2. CASE state[r] # next
          <5>1. r \in Live /\ next \in States /\ Transition(r, next) /\ UNCHANGED creator
            BY <3>1, <4>2 DEF SetListed, CreatorTransition, CreatorEdges, Live, States, owners
          <5> QED
            BY <5>1, LifecycleStep
        <4> QED
          BY <4>1, <4>2
      <3>2. CASE FreezeResource(r)
        <4>1. r \in Live /\ "Frozen" \in States /\ Transition(r, "Frozen") /\ UNCHANGED creator
          BY <3>2 DEF FreezeResource, CreatorTransition, CreatorEdges, Live, States, owners
        <4> QED
          BY <4>1, LifecycleStep
      <3>3. CASE ReactivateResource(r)
        <4>1. r \in Live /\ "Listed" \in States /\ Transition(r, "Listed") /\ UNCHANGED creator
          BY <3>3 DEF ReactivateResource, Live, States, owners
        <4> QED
          BY <4>1, LifecycleStep
      <3>4. ASSUME NEW to \in Addresses, TransferOwnership(r, to) PROVE H!Next
        BY <3>4, HandOverStep DEF TransferOwnership
      <3>5. ASSUME NEW to \in Addresses, ProposeTransfer(r, to) PROVE UNCHANGED H!hvars
        BY <3>5, AsideStep DEF ProposeTransfer
      <3>6. CASE CancelTransfer(r)
        BY <3>6, AsideStep DEF CancelTransfer
      <3> QED
        BY <2>3, <3>1, <3>2, <3>3, <3>4, <3>5, <3>6 DEF CreatorCall
    <2>4. ASSUME NEW r \in Ids, AcceptTransfer(r) PROVE H!Next
      <3>1. pending[r] \in Addresses
        BY <2>4 DEF AcceptTransfer, IInv, RecordsTypeOK
      <3> QED
        BY <2>4, <3>1, HandOverStep DEF AcceptTransfer
    <2>5. ASSUME NEW caller \in Addresses, NEW r \in Ids, AdminCall(caller, r) PROVE H!Next
      <3>1. PICK next \in States : r \in Live /\ Transition(r, next) /\ UNCHANGED creator
        BY <2>5 DEF AdminCall, OpenDispute, ResolveDispute, EmergencyDelist, TombstoneResource,
           Live, States, owners
      <3> QED
        BY <3>1, LifecycleStep
    <2>6. ASSUME NEW caller \in Addresses,
                 \/ \E r \in Ids, value \in BOOLEAN : SetFlag(r, caller, value)
                 \/ \E ids \in RepairLists : RepairIndex(caller, ids)
                 \/ \E value \in BOOLEAN : SetPaused(caller, value)
          PROVE  UNCHANGED H!hvars
      BY <2>6, AsideStep DEF SetFlag, RepairIndex, SetPaused, owners
    <2>7. CASE UNCHANGED vars
      BY <2>7, AsideStep DEF vars, counters
    <2> QED
      BY <2>1, <2>3, <2>4, <2>5, <2>6, <2>7 DEF Next, Registration
  <1> QED
    BY <1>1, <1>2, Invariance, PTL DEF Spec, ImplementsHoldings, H!Spec
=============================================================================
