------------------------------ MODULE Paywall ------------------------------
(***************************************************************************)
(* GET /resources/:id of one listed, registered resource: the paywall      *)
(* reads the row, compares its price with the chain's, looks the chain's   *)
(* price up once more and asks for the payment, with two caches on the way *)
(* (the chain's price for five minutes, the payment middleware for one).   *)
(* Meanwhile the owner changes the price or the owner, first on the chain  *)
(* and then in the row; the chain's events do not reach these columns      *)
(* (module EventListener).                                                 *)
(*                                                                         *)
(* The RPC and the payment middleware's library are external: a lookup     *)
(* fails or answers with the price of that moment; a request with the      *)
(* payment asked for is let through, one without gets a 402.  Every await  *)
(* is a step of its own.  Time is left out: an entry may expire at once    *)
(* or late, but does expire.                                               *)
(***************************************************************************)
CONSTANTS Buyers, Prices, Wallets, None

ASSUME PaywallAssumption == None \notin Prices \cup Wallets

Rows    == [price : Prices, wallet : Wallets]
Demands == [price : Prices, payTo : Wallets]

VARIABLES
    dbRow,      \* resources.price and resources.walletAddress, as [price, wallet]
    chainPrice, \* the price in the registry contract
    priceCache, \* lib/stellarRegistry's entry, or None
    mwCache,    \* middlewareCache: per key the demand it was built with, or None
    stage,      \* per request: "idle", "checking", "fetched", "agreed", "asking",
                \* "asked" or "refused"
    resource,   \* per request: the row it read
    looked,     \* per request: the price a lookup answered, until it is used
    demand,     \* per request: what its middleware asks for, as [price, payTo]
    seen        \* history: per request, the chain's prices since the comparison

owned       == <<dbRow, chainPrice>>
caches      == <<priceCache, mwCache>>
serving     == <<stage, resource, looked, demand>>
paywallVars == <<owned, caches, serving, seen>>

PaywallInit ==
    /\ \E p \in Prices, w \in Wallets : dbRow = [price |-> p, wallet |-> w] /\ chainPrice = p
    /\ priceCache = None /\ mwCache = [k \in Prices |-> None]
    /\ stage = [b \in Buyers |-> "idle"]
    /\ resource = [b \in Buyers |-> None] /\ looked = [b \in Buyers |-> None]
    /\ demand = [b \in Buyers |-> None]
    /\ seen = [b \in Buyers |-> {}]

Proceed(b, s) == stage' = [stage EXCEPT ![b] = s]

\* The request is decided, or answered, and what it knew is gone.
Respond(b, s) ==
    /\ Proceed(b, s)
    /\ resource' = [resource EXCEPT ![b] = None] /\ looked' = [looked EXCEPT ![b] = None]
    /\ demand' = [demand EXCEPT ![b] = None]
    /\ seen' = [seen EXCEPT ![b] = {}]

----------------------------------------------------------------------------
\* dynamicPaywall, up to the answer of its first query.
ReadRow(b) ==
    /\ stage[b] = "idle"
    /\ resource' = [resource EXCEPT ![b] = dbRow]
    /\ Proceed(b, "checking")
    /\ UNCHANGED <<owned, caches, looked, demand, seen>>

\* Prices that disagree are refused with 409.
Compare(b, price) ==
    \/ /\ price = resource[b].price
       /\ Proceed(b, "agreed")
       /\ looked' = [looked EXCEPT ![b] = None]
       /\ seen' = [seen EXCEPT ![b] = {chainPrice}]
       /\ UNCHANGED <<resource, demand>>
    \/ price # resource[b].price /\ Respond(b, "refused")

\* getOnChainPrice, from its cache or from the chain.
CheckCached(b) ==
    /\ stage[b] = "checking" /\ priceCache # None
    /\ Compare(b, priceCache)
    /\ UNCHANGED <<owned, caches>>

Fetch(b) ==
    /\ stage[b] = "checking" /\ priceCache = None
    /\ looked' = [looked EXCEPT ![b] = chainPrice]
    /\ Proceed(b, "fetched")
    /\ UNCHANGED <<owned, caches, resource, demand, seen>>

\* Whatever was stored in the meantime is replaced.
CheckFetched(b) ==
    /\ stage[b] = "fetched"
    /\ priceCache' = looked[b]
    /\ Compare(b, looked[b])
    /\ UNCHANGED <<owned, mwCache>>

\* 503 chain_unavailable, or the 409 of a disagreement.
Refuse(b) ==
    /\ \/ stage[b] = "checking" /\ priceCache = None
       \/ stage[b] = "refused"
    /\ Respond(b, "idle")
    /\ UNCHANGED <<owned, caches>>

\* The second lookup, not cached; if it fails the row's price is taken.
Reprice(b) ==
    /\ stage[b] = "agreed"
    /\ \E price \in {chainPrice, resource[b].price} : looked' = [looked EXCEPT ![b] = price]
    /\ Proceed(b, "asking")
    /\ UNCHANGED <<owned, caches, resource, demand, seen>>

\* The middleware is cached under the id and the price, not the wallet.
CacheKey_IdOnly(price) == CHOOSE p \in Prices : TRUE
CacheKey(price) == price

Ask(b) ==
    LET key  == CacheKey(looked[b])
        mine == [price |-> looked[b], payTo |-> resource[b].wallet]
        mw   == IF mwCache[key] = None THEN mine ELSE mwCache[key]
    IN  /\ stage[b] = "asking"
        /\ mwCache' = [mwCache EXCEPT ![key] = mw]
        /\ demand' = [demand EXCEPT ![b] = mw] /\ looked' = [looked EXCEPT ![b] = None]
        /\ Proceed(b, "asked")
        /\ UNCHANGED <<owned, priceCache, resource, seen>>

\* Paid and delivered, or told what to pay.
Answer(b) ==
    /\ stage[b] = "asked"
    /\ Respond(b, "idle")
    /\ UNCHANGED <<owned, caches>>

----------------------------------------------------------------------------
\* now() - fetchedAt < ttl, and expiresAt > Date.now(), become false.
PriceExpires_Never == FALSE
PriceExpires == priceCache # None
ExpirePrice ==
    /\ PriceExpires /\ priceCache' = None
    /\ UNCHANGED <<owned, mwCache, serving, seen>>

MwExpires_Never(k) == FALSE
MwExpires(k) == mwCache[k] # None
ExpireMw(k) ==
    /\ MwExpires(k) /\ mwCache' = [mwCache EXCEPT ![k] = None]
    /\ UNCHANGED <<owned, priceCache, serving, seen>>

\* set_price is applied to the chain.
SetChainPrice(price) ==
    /\ chainPrice' = price
    /\ seen' = [b \in Buyers |-> IF seen[b] = {} THEN {} ELSE seen[b] \cup {price}]
    /\ UNCHANGED <<dbRow, caches, serving>>

\* POST /price writes the price of its body, whatever the transaction set;
\* POST /ownership writes the wallet.  Neither touches a cache.
SyncRow ==
    /\ \/ \E price \in Prices : dbRow' = [dbRow EXCEPT !.price = price]
       \/ \E wallet \in Wallets : dbRow' = [dbRow EXCEPT !.wallet = wallet]
    /\ UNCHANGED <<chainPrice, caches, serving, seen>>

RestartServer ==
    /\ priceCache' = None /\ mwCache' = [k \in Prices |-> None]
    /\ stage' = [b \in Buyers |-> "idle"]
    /\ resource' = [b \in Buyers |-> None] /\ looked' = [b \in Buyers |-> None]
    /\ demand' = [b \in Buyers |-> None] /\ seen' = [b \in Buyers |-> {}]
    /\ UNCHANGED owned

Serve(b) ==
    CheckCached(b) \/ Fetch(b) \/ CheckFetched(b) \/ Refuse(b) \/ Reprice(b) \/ Ask(b) \/ Answer(b)

Expire == ExpirePrice \/ \E k \in Prices : ExpireMw(k)

PaywallNext ==
    \/ \E b \in Buyers : ReadRow(b) \/ Serve(b)
    \/ Expire
    \/ \E price \in Prices : SetChainPrice(price)
    \/ SyncRow \/ RestartServer

\* Awaited calls return or throw, and entries grow old.
Fairness ==
    /\ \A b \in Buyers : WF_paywallVars(Serve(b))
    /\ WF_paywallVars(ExpirePrice) /\ \A k \in Prices : WF_paywallVars(ExpireMw(k))

PaywallSpec == PaywallInit /\ [][PaywallNext]_paywallVars /\ Fairness

----------------------------------------------------------------------------
PaywallTypeOK ==
    /\ dbRow \in Rows /\ chainPrice \in Prices
    /\ priceCache \in Prices \cup {None} /\ mwCache \in [Prices -> Demands \cup {None}]
    /\ stage \in [Buyers ->
           {"idle", "checking", "fetched", "agreed", "asking", "asked", "refused"}]
    /\ resource \in [Buyers -> Rows \cup {None}] /\ looked \in [Buyers -> Prices \cup {None}]
    /\ demand \in [Buyers -> Demands \cup {None}] /\ seen \in [Buyers -> SUBSET Prices]

\* A buyer is asked for a price the chain had since the two were
\* compared, or for the row's, never for one that only a cache remembers.
AskedPriceSeen ==
    \A b \in Buyers : stage[b] = "asked" => demand[b].price \in seen[b] \cup {resource[b].price}

\* When the row and the chain agree for good, no request is refused any more,
\* whatever older price was cached, or fetched and not yet cached.
AgreedIsServed ==
    \A p \in Prices :
        <>[](dbRow.price = p /\ chainPrice = p) => <>[](\A b \in Buyers : stage[b] # "refused")

\* When the owner stays, payments go to the owner's wallet at last.
OwnerIsPaid ==
    \A w \in Wallets :
        <>[](dbRow.wallet = w) => <>[](\A b \in Buyers : stage[b] = "asked" => demand[b].payTo = w)
============================================================================
