--------------------------- MODULE Server_proofs ---------------------------
(***************************************************************************)
(* The requests of the server that race each other and the chain.          *)
(*                                                                         *)
(* Registration, for any number of requests: the row says "registered"     *)
(* only of a resource the contract has, and only a request that was under  *)
(* way then takes that back.                                               *)
(*                                                                         *)
(* The paywall, for any number of requests, prices and wallets: a buyer is *)
(* asked for the row's price or one the chain has had since the two were   *)
(* compared.                                                               *)
(***************************************************************************)
EXTENDS Registration, Paywall, TLAPS

----------------------------------------------------------------------------
(* Registration.                                                           *)

\* Whatever was seen of the chain is still so: nothing is ever removed.
SeenOnChain ==
    /\ event # "none" => exists
    /\ \A r \in Requests : pc[r] = "confirmed" \/ sent[r] = "applied" => exists

\* A registered row turns new requests away: those under way are the late.
RegisteredTurnsAway ==
    status = "registered" => \A r \in Requests : pc[r] # "idle" => r \in late

IInv == TypeOK /\ SeenOnChain /\ RegisteredOnChain /\ RegisteredTurnsAway /\ SyncedUnlessRaced

LEMMA InitHolds == Init => IInv
<1> SUFFICES ASSUME Init PROVE IInv
  OBVIOUS
<1> QED
  BY DEF Init, IInv, TypeOK, SeenOnChain, RegisteredOnChain, RegisteredTurnsAway,
         SyncedUnlessRaced, Statuses, Steps

----------------------------------------------------------------------------
\* A request begins only on a row that is not registered.
LEMMA RequestKeeps ==
    ASSUME IInv, NEW r \in Requests, Request(r)
    PROVE  IInv'
<1> USE DEF IInv, Request, Registrable, Goto, Tx, row, chain
<1>1. TypeOK'
  BY DEF TypeOK, Steps
<1>2. SeenOnChain' /\ RegisteredOnChain' /\ SyncedUnlessRaced'
  BY DEF TypeOK, SeenOnChain, RegisteredOnChain, SyncedUnlessRaced
<1>3. RegisteredTurnsAway'
  BY DEF TypeOK, RegisteredTurnsAway
<1> QED
  BY <1>1, <1>2, <1>3

\* The steps of a request that leave the database alone.
LEMMA CallsKeep ==
    ASSUME IInv, NEW r \in Requests,
           BuildFails(r) \/ Send(r) \/ SendFails(r) \/ Poll(r) \/ PollTimesOut(r) \/ WriteThrows(r)
    PROVE  IInv'
<1> USE DEF IInv, BuildFails, Send, SendFails, Poll, PollTimesOut, WriteThrows,
            Goto, Tx, Abandon, row, chain, history
<1>1. TypeOK'
  BY DEF TypeOK, Steps
<1>2. /\ UNCHANGED <<status, exists, event, late, raced>>
      /\ \A q \in Requests : pc[q] = "idle" => pc'[q] = "idle"
  BY DEF TypeOK
<1>3. \A q \in Requests : pc'[q] = "confirmed" \/ sent'[q] = "applied" => exists
  BY DEF TypeOK, SeenOnChain, Succeeded
<1>4. SeenOnChain'
  BY <1>2, <1>3 DEF SeenOnChain
<1>5. RegisteredOnChain' /\ RegisteredTurnsAway' /\ SyncedUnlessRaced'
  BY <1>2 DEF RegisteredOnChain, RegisteredTurnsAway, SyncedUnlessRaced
<1> QED
  BY <1>1, <1>4, <1>5

\* The steps that write the column.
LEMMA WritesKeep ==
    ASSUME IInv, NEW r \in Requests, WriteRegistered(r) \/ WriteFailed(r)
    PROVE  IInv'
<1> USE DEF IInv, WriteRegistered, WriteFailed, Goto, InFlight, chain
<1>1. TypeOK'
  BY DEF TypeOK, Statuses, Steps
<1>2. SeenOnChain' /\ RegisteredOnChain'
  BY DEF TypeOK, SeenOnChain, RegisteredOnChain
<1>3. RegisteredTurnsAway'
  BY DEF TypeOK, RegisteredTurnsAway
<1>4. SyncedUnlessRaced'
  BY DEF TypeOK, RegisteredTurnsAway, SyncedUnlessRaced
<1> QED
  BY <1>1, <1>2, <1>3, <1>4

\* The network, the listener, the owner and the process.
LEMMA OthersKeep ==
    ASSUME IInv,
           \/ \E r \in Requests : Apply(r)
           \/ ApplyStray \/ CreatorRegisters
           \/ SyncRegister("waiting") \/ SyncRegister("handled") \/ MissRegister
           \/ Delete \/ Prepare \/ Restart
    PROVE  IInv'
<1> USE DEF IInv
<1>1. CASE \E r \in Requests : Apply(r)
  <2>1. PICK r \in Requests : Apply(r)
    BY <1>1
  <2> USE <2>1 DEF Apply, RegisterOnChain, Tx, row, chain, history
  <2>2. TypeOK' /\ RegisteredOnChain' /\ RegisteredTurnsAway' /\ SyncedUnlessRaced'
    BY DEF TypeOK, RegisteredOnChain, RegisteredTurnsAway, SyncedUnlessRaced
  <2>3. SeenOnChain'
    BY DEF TypeOK, SeenOnChain
  <2> QED
    BY <2>2, <2>3
<1>2. CASE ApplyStray \/ CreatorRegisters
  BY <1>2 DEF ApplyStray, CreatorRegisters, RegisterOnChain, row, request, history, TypeOK,
              SeenOnChain, RegisteredOnChain, RegisteredTurnsAway, SyncedUnlessRaced
<1>3. CASE SyncRegister("waiting") \/ SyncRegister("handled")
  <2> USE <1>3 DEF SyncRegister, request, InFlight
  <2>1. TypeOK'
    BY DEF TypeOK, Statuses
  <2>2. SeenOnChain' /\ RegisteredOnChain' /\ SyncedUnlessRaced'
    BY DEF SeenOnChain, RegisteredOnChain, SyncedUnlessRaced
  <2>3. RegisteredTurnsAway'
    BY DEF RegisteredTurnsAway
  <2> QED
    BY <2>1, <2>2, <2>3
<1>4. CASE MissRegister \/ Delete \/ Prepare
  BY <1>4 DEF MissRegister, Delete, Prepare, DelistResource, row, chain, request, history, TypeOK,
              SeenOnChain, RegisteredOnChain, RegisteredTurnsAway, SyncedUnlessRaced
<1>5. CASE Restart
  BY <1>5 DEF Restart, Abandon, row, chain, history, TypeOK, Steps,
              SeenOnChain, RegisteredOnChain, RegisteredTurnsAway, SyncedUnlessRaced
<1> QED
  BY <1>1, <1>2, <1>3, <1>4, <1>5

LEMMA StepHolds == IInv /\ [Next]_vars => IInv'
<1> SUFFICES ASSUME IInv, [Next]_vars PROVE IInv'
  OBVIOUS
<1>1. CASE \E r \in Requests : Request(r)
  BY <1>1, RequestKeeps
<1>2. CASE \E r \in Requests : Work(r)
  BY <1>2, CallsKeep, WritesKeep DEF Work
<1>3. CASE \/ \E r \in Requests : Apply(r)
           \/ ApplyStray \/ CreatorRegisters
           \/ SyncRegister("waiting") \/ SyncRegister("handled") \/ MissRegister
           \/ Delete \/ Prepare \/ Restart
  BY <1>3, OthersKeep
<1>4. CASE UNCHANGED vars
  BY <1>4 DEF vars, row, chain, request, history, IInv, TypeOK, SeenOnChain,
              RegisteredOnChain, RegisteredTurnsAway, SyncedUnlessRaced
<1> QED
  BY <1>1, <1>2, <1>3, <1>4 DEF Next

LEMMA Invariance == Spec => []IInv
  BY InitHolds, StepHolds, PTL DEF Spec

\* The column, the requests and the histories keep their types.
THEOREM RegistrationTyped == Spec => []TypeOK
  BY Invariance, PTL DEF IInv

\* No order of polls, events, timeouts, restarts and late transactions makes
\* the row say "registered" of a resource the contract does not have.
THEOREM RegisteredIsOnChain == Spec => []RegisteredOnChain
  BY Invariance, PTL DEF IInv

\* A handled register event is undone only by a request that raced it.
THEOREM SyncedStays == Spec => []SyncedUnlessRaced
  BY Invariance, PTL DEF IInv

----------------------------------------------------------------------------
(* The paywall.                                                            *)

\* What a request has read and not yet used.
HeldOK(b) ==
    /\ stage[b] \in {"checking", "fetched", "agreed", "asking", "asked"} => resource[b] \in Rows
    /\ stage[b] \in {"agreed", "asking"} => chainPrice \in seen[b]
    /\ stage[b] \in {"fetched", "asking"} => looked[b] \in Prices
    /\ stage[b] = "asking" => looked[b] \in seen[b] \cup {resource[b].price}
    /\ stage[b] = "asked" => demand[b].price \in seen[b] \cup {resource[b].price}

\* A middleware asks for the price it is cached under, if for another wallet.
CachedByPrice == \A k \in Prices : mwCache[k] # None => mwCache[k].price = k

PaywallInv == PaywallTypeOK /\ CachedByPrice /\ \A b \in Buyers : HeldOK(b)

\* A step of one request leaves what the others hold.
LEMMA OthersHold ==
    ASSUME PaywallInv, NEW b \in Buyers, UNCHANGED owned,
           \A d \in Buyers : d # b =>
               /\ stage'[d] = stage[d] /\ resource'[d] = resource[d] /\ looked'[d] = looked[d]
               /\ demand'[d] = demand[d] /\ seen'[d] = seen[d],
           HeldOK(b)'
    PROVE  \A d \in Buyers : HeldOK(d)'
  BY DEF PaywallInv, HeldOK, owned

\* A request that is answered or refused holds nothing.
LEMMA RespondHolds ==
    ASSUME PaywallInv, NEW b \in Buyers, NEW s \in {"idle", "refused"}, Respond(b, s),
           UNCHANGED owned, UNCHANGED mwCache, priceCache' \in Prices \cup {None}
    PROVE  PaywallInv'
<1> USE DEF Respond, Proceed
<1>1. /\ stage'[b] = s
      /\ \A d \in Buyers : d # b =>
            /\ stage'[d] = stage[d] /\ resource'[d] = resource[d] /\ looked'[d] = looked[d]
            /\ demand'[d] = demand[d] /\ seen'[d] = seen[d]
  BY DEF PaywallInv, PaywallTypeOK
<1>2. \A d \in Buyers : HeldOK(d)'
  <2>1. HeldOK(b)'
    BY <1>1 DEF HeldOK
  <2> QED
    BY <1>1, <2>1, OthersHold
<1>3. PaywallTypeOK' /\ CachedByPrice'
  BY DEF PaywallInv, PaywallTypeOK, CachedByPrice, owned
<1> QED
  BY <1>2, <1>3 DEF PaywallInv

\* Once the prices agree, the chain's price of that moment has been seen.
LEMMA CompareHolds ==
    ASSUME PaywallInv, NEW b \in Buyers, NEW price \in Prices, Compare(b, price),
           stage[b] \in {"checking", "fetched"},
           UNCHANGED owned, UNCHANGED mwCache, priceCache' \in Prices \cup {None}
    PROVE  PaywallInv'
<1>1. CASE Respond(b, "refused")
  BY <1>1, RespondHolds
<1>2. CASE /\ Proceed(b, "agreed") /\ looked' = [looked EXCEPT ![b] = None]
           /\ seen' = [seen EXCEPT ![b] = {chainPrice}] /\ UNCHANGED <<resource, demand>>
  <2> USE <1>2 DEF Proceed, PaywallInv
  <2>1. PaywallTypeOK' /\ CachedByPrice'
    BY DEF PaywallTypeOK, CachedByPrice, owned
  <2>2. /\ stage'[b] = "agreed" /\ seen'[b] = {chainPrice} /\ resource'[b] \in Rows
        /\ \A d \in Buyers : d # b =>
              /\ stage'[d] = stage[d] /\ resource'[d] = resource[d] /\ looked'[d] = looked[d]
              /\ demand'[d] = demand[d] /\ seen'[d] = seen[d]
    BY DEF PaywallTypeOK, HeldOK
  <2>3. HeldOK(b)'
    BY <2>2 DEF HeldOK, owned
  <2> QED
    BY <2>1, <2>2, <2>3, OthersHold
<1> QED
  BY <1>1, <1>2 DEF Compare

----------------------------------------------------------------------------
\* The steps of a request.
LEMMA ReadRowHolds ==
    ASSUME PaywallInv, NEW b \in Buyers, ReadRow(b)
    PROVE  PaywallInv'
<1> USE DEF ReadRow, Proceed, PaywallInv
<1>1. PaywallTypeOK' /\ CachedByPrice'
  BY DEF PaywallTypeOK, CachedByPrice, owned, caches
<1>2. /\ stage'[b] = "checking" /\ resource'[b] \in Rows
      /\ \A d \in Buyers : d # b => stage'[d] = stage[d] /\ resource'[d] = resource[d]
  BY DEF PaywallTypeOK
<1>3. HeldOK(b)'
  BY <1>2 DEF HeldOK
<1> QED
  BY <1>1, <1>2, <1>3, OthersHold

LEMMA CheckHolds ==
    ASSUME PaywallInv, NEW b \in Buyers, CheckCached(b) \/ CheckFetched(b)
    PROVE  PaywallInv'
<1>1. CASE CheckCached(b)
  <2>1. priceCache \in Prices
    BY <1>1 DEF CheckCached, PaywallInv, PaywallTypeOK
  <2> QED
    BY <1>1, <2>1, CompareHolds DEF CheckCached, caches
<1>2. CASE CheckFetched(b)
  <2>1. looked[b] \in Prices
    BY <1>2 DEF CheckFetched, PaywallInv, HeldOK
  <2> QED
    BY <1>2, <2>1, CompareHolds DEF CheckFetched
<1> QED
  BY <1>1, <1>2

LEMMA FetchHolds ==
    ASSUME PaywallInv, NEW b \in Buyers, Fetch(b)
    PROVE  PaywallInv'
<1> USE DEF Fetch, Proceed, PaywallInv
<1>1. PaywallTypeOK' /\ CachedByPrice'
  BY DEF PaywallTypeOK, CachedByPrice, owned, caches
<1>2. /\ stage'[b] = "fetched" /\ looked'[b] \in Prices
      /\ \A d \in Buyers : d # b => stage'[d] = stage[d] /\ looked'[d] = looked[d]
  BY DEF PaywallTypeOK
<1>3. HeldOK(b)'
  BY <1>2 DEF HeldOK
<1> QED
  BY <1>1, <1>2, <1>3, OthersHold

LEMMA RespondsHolds ==
    ASSUME PaywallInv, NEW b \in Buyers, Refuse(b) \/ Answer(b)
    PROVE  PaywallInv'
<1>1. Respond(b, "idle") /\ UNCHANGED <<owned, caches>>
  BY DEF Refuse, Answer
<1>2. priceCache' \in Prices \cup {None}
  BY <1>1 DEF caches, PaywallInv, PaywallTypeOK
<1> QED
  BY <1>1, <1>2, RespondHolds DEF caches

\* The second lookup answers with a price of the chain that was seen, or
\* with the row's.
LEMMA RepriceHolds ==
    ASSUME PaywallInv, NEW b \in Buyers, Reprice(b)
    PROVE  PaywallInv'
<1> USE DEF Reprice, Proceed, PaywallInv
<1>1. resource[b] \in Rows /\ chainPrice \in seen[b]
  BY DEF HeldOK
<1>2. PICK price \in {chainPrice, resource[b].price} : looked' = [looked EXCEPT ![b] = price]
  OBVIOUS
<1>3. price \in Prices
  BY <1>1 DEF PaywallTypeOK, Rows
<1>4. PaywallTypeOK' /\ CachedByPrice'
  BY <1>2, <1>3 DEF PaywallTypeOK, CachedByPrice, owned, caches
<1>5. /\ stage'[b] = "asking" /\ looked'[b] = price
      /\ \A d \in Buyers : d # b => stage'[d] = stage[d] /\ looked'[d] = looked[d]
  BY <1>2 DEF PaywallTypeOK
<1>6. HeldOK(b)'
  BY <1>1, <1>3, <1>5 DEF HeldOK, owned
<1> QED
  BY <1>4, <1>5, <1>6, OthersHold

\* A cached middleware asks for the price that was looked up.
LEMMA AskHolds ==
    ASSUME PaywallInv, NEW b \in Buyers, Ask(b)
    PROVE  PaywallInv'
<1> DEFINE price == looked[b]
           mine  == [price |-> price, payTo |-> resource[b].wallet]
           mw    == IF mwCache[price] = None THEN mine ELSE mwCache[price]
<1>1. resource[b] \in Rows /\ price \in Prices /\ price \in seen[b] \cup {resource[b].price}
  BY DEF Ask, PaywallInv, HeldOK
<1>2. /\ stage[b] = "asking" /\ mwCache' = [mwCache EXCEPT ![price] = mw]
      /\ demand' = [demand EXCEPT ![b] = mw] /\ looked' = [looked EXCEPT ![b] = None]
      /\ stage' = [stage EXCEPT ![b] = "asked"]
      /\ UNCHANGED <<owned, priceCache, resource, seen>>
  BY DEF Ask, CacheKey, Proceed
<1>3. mw \in Demands /\ mw.price = price
  <2>1. mine \in Demands /\ mine.price = price
    BY <1>1 DEF Rows, Demands
  <2>2. mwCache[price] # None => mwCache[price] \in Demands /\ mwCache[price].price = price
    BY <1>1 DEF PaywallInv, PaywallTypeOK, CachedByPrice
  <2> QED
    BY <2>1, <2>2
<1> HIDE DEF mw, mine
<1>4. PaywallTypeOK'
  BY <1>1, <1>2, <1>3 DEF PaywallInv, PaywallTypeOK, owned
<1>5. CachedByPrice'
  BY <1>1, <1>2, <1>3 DEF PaywallInv, PaywallTypeOK, CachedByPrice
<1>6. /\ stage'[b] = "asked" /\ demand'[b] = mw
      /\ \A d \in Buyers : d # b =>
            stage'[d] = stage[d] /\ looked'[d] = looked[d] /\ demand'[d] = demand[d]
  BY <1>2 DEF PaywallInv, PaywallTypeOK
<1>7. HeldOK(b)'
  BY <1>1, <1>2, <1>3, <1>6 DEF HeldOK
<1> QED
  BY <1>2, <1>4, <1>5, <1>6, <1>7, OthersHold DEF PaywallInv

----------------------------------------------------------------------------
\* Time, the owner and the process.
LEMMA ExpireHolds ==
    ASSUME PaywallInv, Expire
    PROVE  PaywallInv'
<1> USE DEF PaywallInv
<1>1. UNCHANGED <<owned, serving, seen>>
  BY DEF Expire, ExpirePrice, ExpireMw
<1>2. PaywallTypeOK' /\ CachedByPrice'
  BY DEF Expire, ExpirePrice, ExpireMw, PaywallTypeOK, CachedByPrice, owned, serving
<1> QED
  BY <1>1, <1>2 DEF HeldOK, owned, serving

\* A request that has compared remembers every price the chain has since.
LEMMA SetChainPriceHolds ==
    ASSUME PaywallInv, NEW price \in Prices, SetChainPrice(price)
    PROVE  PaywallInv'
<1> USE DEF PaywallInv, SetChainPrice
<1>1. PaywallTypeOK' /\ CachedByPrice'
  BY DEF PaywallTypeOK, CachedByPrice, caches, serving
<1>2. ASSUME NEW b \in Buyers PROVE HeldOK(b)'
  <2>1. seen[b] \subseteq seen'[b] /\ (seen[b] # {} => price \in seen'[b])
    BY DEF PaywallTypeOK
  <2>2. HeldOK(b)
    OBVIOUS
  <2> QED
    BY <2>1, <2>2 DEF HeldOK, serving
<1> QED
  BY <1>1, <1>2

LEMMA SyncRowHolds ==
    ASSUME PaywallInv, SyncRow
    PROVE  PaywallInv'
<1> USE DEF PaywallInv, SyncRow
<1>1. PaywallTypeOK' /\ CachedByPrice'
  BY DEF PaywallTypeOK, CachedByPrice, Rows, caches, serving
<1> QED
  BY <1>1 DEF HeldOK, serving

LEMMA RestartServerHolds ==
    ASSUME PaywallInv, RestartServer
    PROVE  PaywallInv'
<1> USE DEF PaywallInv, RestartServer
<1>1. PaywallTypeOK' /\ CachedByPrice'
  BY DEF PaywallTypeOK, CachedByPrice, owned
<1> QED
  BY <1>1 DEF HeldOK

----------------------------------------------------------------------------
LEMMA PaywallInitHolds == PaywallInit => PaywallInv
<1> SUFFICES ASSUME PaywallInit PROVE PaywallInv
  OBVIOUS
<1>1. PaywallTypeOK /\ CachedByPrice
  BY DEF PaywallInit, PaywallTypeOK, CachedByPrice, Rows
<1> QED
  BY <1>1 DEF PaywallInit, PaywallInv, HeldOK

LEMMA PaywallStepHolds == PaywallInv /\ [PaywallNext]_paywallVars => PaywallInv'
<1> SUFFICES ASSUME PaywallInv, [PaywallNext]_paywallVars PROVE PaywallInv'
  OBVIOUS
<1>1. CASE \E b \in Buyers : ReadRow(b) \/ Serve(b)
  BY <1>1, ReadRowHolds, CheckHolds, FetchHolds, RespondsHolds, RepriceHolds, AskHolds DEF Serve
<1>2. CASE Expire
  BY <1>2, ExpireHolds
<1>3. CASE \E price \in Prices : SetChainPrice(price)
  BY <1>3, SetChainPriceHolds
<1>4. CASE SyncRow
  BY <1>4, SyncRowHolds
<1>5. CASE RestartServer
  BY <1>5, RestartServerHolds
<1>6. CASE UNCHANGED paywallVars
  BY <1>6 DEF paywallVars, owned, caches, serving, PaywallInv, PaywallTypeOK, CachedByPrice, HeldOK
<1> QED
  BY <1>1, <1>2, <1>3, <1>4, <1>5, <1>6 DEF PaywallNext

LEMMA PaywallInvariance == PaywallSpec => []PaywallInv
  BY PaywallInitHolds, PaywallStepHolds, PTL DEF PaywallSpec

\* The row, the caches and what the requests have read keep their types.
THEOREM PaywallTyped == PaywallSpec => []PaywallTypeOK
  BY PaywallInvariance, PTL DEF PaywallInv

\* For any number of requests, prices and wallets, no buyer is asked for a
\* price that the chain has not had since the comparison, nor the row.
THEOREM PaywallAskedPriceSeen == PaywallSpec => []AskedPriceSeen
<1>1. PaywallInv => AskedPriceSeen
  BY DEF PaywallInv, HeldOK, AskedPriceSeen
<1> QED
  BY <1>1, PaywallInvariance, PTL
=============================================================================
