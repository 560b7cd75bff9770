# MindVault: a verification project

MindVault sells digital resources. A Soroban contract (`src/contract`) keeps the
registry of resources, payments, refunds, roles and leases; an Express server
(`src/server`) keeps a catalog in Postgres, puts a paywall (x402) before the
files and follows the contract's events; an MCP server (`src/mcp`) lets agents
browse, buy and publish; `src/web` is the shop. This directory holds TLA+
modules of the parts whose correctness depends on the order of many calls, the
TLC configurations that check them, and TLAPS proofs.

`LIB` below is `src/contract/contracts/vault-registry/src/lib.rs`.

## 1. Inventory

| Component | State | Operations | What makes it hard | Correct means |
|---|---|---|---|---|
| Catalog (LIB) | `Resource`, `PendingTransfer`, `Index`, `Count`, `ListedCount`, per-creator index and counters, flags | register (single, batch, with hash, with memo), list/delist, freeze, reactivate, disputes, emergency delist, tombstone, transfers, flags, `repair_index` | five states and a flag reached by six signers' entry points; five derived indexes updated by hand | indexes agree with records; only the owner gives a resource away; holds end by the admin |
| Payments (LIB) | `PaymentReceipt`, three indexes, `RefundReceipt`, `RefundedAmount`, `RefundDeadline`, `CreatorEarnings`, refund window | record, record idempotently, settle, refund by creator or admin, set window, set price | retries, partial refunds, owners that change between payment and refund | refunds never exceed a payment, come in time, add up; earnings are exact |
| Fees (LIB) | `FeeConfig`, `FeeDestination`, `AccruedFees` | set config, recipient, destination; accrue; claim | configuration changes while fees are unclaimed | unclaimed fees belong to who can claim them; the route stays feasible |
| Governance (LIB) | `Admin`, `PendingAdmin` with nomination and expiry ledgers, `RecoveryAdmin`, role flags, `RoleHolders` | nominate, accept, cancel, bootstrap, recover, add/remove/rotate holders | expiry, minimum gap, recovery overtaking a nomination, capacity | the admin changes by consent; the role index is exact |
| Pauses (LIB) | `Paused`, `PauseUntil`, and the payment pair | set, set until, read (which latches) | a read that writes; a timestamp that steps back | expiry is final, the last order holds, pauses end |
| Anchors (LIB) | `PurchaseReceipt`, `AnchorAttempts`, `AnchorFailure` | anchor, attempt, retry, override, report failure | three write paths, throttling | anchors stay; a settler anchors only payments; attempts are spaced; a pair is not anchored and failing at once |
| Leases (LIB) | `Lease` | buy, record, settle, revoke | expiry by ledger without a call, late confirmations, replacement | no ledger sold twice; access in exactly the ledgers that were confirmed; terms are locked |
| Listing data (LIB) | metadata, pointers, price batches, verification status, attestation, terms | setters | one-way metadata freeze, all-or-nothing batches | a frozen field never changes |
| Tag index (LIB) | `TagIndex`, `TopTags` | set tags, repair, check | bounded popularity table | index agrees with records |
| Reads (LIB) | none | pages, scans, digests | scan budget, cursors across tombstones | no entry skipped or repeated |
| Server catalog | Postgres `resources`, `readCache`, `pageCache` | create, delist, verify, browse | read-through caches filled after an invalidation | staleness bounded by the TTL |
| Server paywall | `priceCache`, `middlewareCache` | `GET /resources/:id` | two chain lookups around a comparison, two caches, owners that change | no price is asked that only a cache remembers; old prices and wallets fade out |
| Server registration | `onchainStatus`, `listed` | `POST register`, `GET prepare`, `DELETE`, event handler (and a retry worker that finds no row) | status written after an await of up to 30 s by two requests and the event; a transaction applied after everybody gave up | a registered row is on the chain and stays registered |
| Server events | ledger tracker file, `listed` | poll, six handlers | page limit, overlapping polls, swallowed errors, a torn tracker, listing changes without an event | no event skipped that was not cut off; the row comes to the listing announced last |
| Server edges | idempotency store, in-flight count, rate windows | publish, shutdown, limits | concurrency of requests | one publish per key; drain terminates |
| MCP audit log | live file, generations, staging files, journal | write, rotate, recover | crash or failure between any two file operations, also of the recovery | only the oldest generation is dropped, nothing reordered, the size limit holds |
| MCP profiles | table of profiles, active name, `state.json`, a mutex | set up, import, register, use, reset, import profiles; save, shutdown, load | calls that overlap at an await; saves that fail; restarts | a key goes to the profile it was asked for; what was reported as saved is on disk |
| MCP others | snapshots, deadlines, backups, allowances | tools | several calls in flight | see the plan |

How they interact: the server calls the contract through RPC (submit, poll,
read) and follows its events; the database is a cache of the contract for price,
owner and listing. The MCP server and the web front end call the server over
HTTP and the contract for reads. Inside the contract everything is one atomic
call at a time: payments read the resource's owner, state and price from the
catalog, price changes read the fee configuration, and every writer reads the pauses.

The hazards are listed with their lines in `PROJECT.json`.

## 2. What is modelled

A Soroban call is atomic and a call that returns an error or panics is undone
entirely, so **one call is one action and a refused call is no step**. Guards
are the conditions under which the call returns `Ok`. `require_auth` is a
parameter or guard naming the account whose signature the call needs; where a
property is about who signed, the history variable `signer` keeps it.

| Module | Models | State and actions |
|---|---|---|
| `Catalog` | LIB catalog | one variable per storage key (`state`, `creator`, `flagged`, `pending`, `catalog`, `creatorIdx`, `creatorCount`, `listedCount`, `creatorListed`); one action per entry point, sharing `Transition` (`transition_state`) and `MoveCreatorIndex` as the code does. `offeredBy` and `signer` are history variables |
| `Lists` | the contract's stored lists | what rewriting a list without an element leaves (LIB 6907-6920 and 7071-7091), shared by `Catalog` and `Governance` |
| `Holdings` | what a catalog promises | owners and listing of resources and nothing else; `Catalog` implements it |
| `Fees` | fee configuration, route, accrual, claim | `due` is the history of what was settled for whom |
| `Payments` (extends `Fees`) | payments, settlement, refunds, the price | the receipt and its indexes are separate variables, as in storage. Ownership and state of a resource change by `ChangeOwner` and `ChangeStatus`, which allow at least what `Catalog` does. `credited` is a history variable |
| `Purchases` | the life of one purchase | recorded, settled, refunded up to its amount; `Payments` implements it |
| `Governance` | admin hand-over and roles | `offer` is the history of the nomination in force |
| `Pauses` | both pauses | deadlines are timestamps; `RollBack` is the timestamp stepping back, which the code's latch is written for |
| `Anchors` | purchase receipt anchors | one action per entry point; `WriteAnchor` (`write_anchor`) and `Report` (`report_anchor_failure`) are shared as in the code. Registrations and payments come from `Register` and `WritePayment`. `writer` and `rejections` are history variables |
| `Leases` | time-limited leases | one action per entry point; `WriteLease` (`write_lease`) is shared by purchase and settler's record as in the code. Price, listing and the payment pause come from `RegisterVault`, `RepriceVault`, `ToggleSale` and `TogglePaymentPause`. `windows` is a history variable: the ledgers each confirmed lease was good for, cut short by a revocation |
| `AuditLog` | what the audit log promises | files that rotate at once, without crashes |
| `AuditRotation` | `src/mcp/src/auditLogRotation.ts` | files, staging files and the two journals on disk; the writer's fields and a program counter in memory. One action per file operation and loop iteration; `Fail` is an operation that throws, `Crash` a killed process, before any operation. `count` and `fault` are history variables |
| `EventListener` | `eventListener.ts`, and the other writers of `resources.listed` | `state`, `log` and `open` are the chain: `SetListed` announces the listing, the rest of the life cycle (`Transition`) publishes another event or none. `cursor` is the tracker file; per poll its position (`pc`, `from`, `last`, `next`). Every await of `pollEvents` is a step, any two polls interleave; a handler may fail or be unable to read its event (`HandlesNothing`), a fetch and a save may fail; `Crash` ends all polls and may leave the tracker truncated. `handed` and `drift` are history variables |
| `Registration` | `routes/resources.ts`, `registryClient.ts`, `handleRegisterEvent` | the row, the contract and its event, per request where it is and what became of its transaction; `stray` is a transaction nobody waits for any more |
| `Paywall` | `dynamicPaywall.ts`, `stellarRegistry.ts` | the row, the chain's price, both caches, per request what it has read so far; `seen` is the history of chain prices since the comparison |
| `Profiles` | profile tools of `src/mcp/src/index.ts`, `mutex.ts`, `profiles.ts` | memory (`profiles`, `active`), the `file`, and the calls at the mutex (`queue`) or at an await. `told` and `asked` are history variables: what `setup_wallet` reported, and which active profile and wallet a waiting `register` read |

`MCCatalog`, `MCPayments`, `MCAdministration`, `MCAccess`, `MCLeases`, `MCEventListener` and `MCProfiles` give the
configurations their sets and symmetries. `MCAdministration` holds `Governance` and `Pauses`,
`MCAccess` holds `Anchors` and `Leases`. The two modules of each share no storage
entry, so in these instances either moves only while the other has not begun: TLC
explores the sum of their states instead of the product, and a property of
one says nothing of the other. `MCPayments` and `MCEventListener` are sums too, of two sides of one module:
payments with refunds (one price, no fees) and payments settled under any price and
fees (no refunds), because refunds touch neither fees nor earnings; overlapping polls
under every life-cycle call, and single polls over one event more.

In the last four modules **a step runs from one await to the next**, as the
event loop does; what another request, poll or tool call does in between is a
step of its own. RPC, sponsor, database and the x402 library are external: a
call to them answers, fails or (a transaction) takes effect later.
The contract's listing events reach the row in `EventListener`; the price and
transfer handlers find nothing in the payloads the contract publishes, so that
in `Paywall` the row follows the chain only by the owner's own requests.
What the SDK returns is external: the value of a `setlisted` event may have a shape that
its handler does not read, and the handler then writes nothing (`listed === null`).
No code writes the status `pending` that the retry worker looks for, so
`Registration` has no such worker.

The audit log reads through its journal: while the journal says `publishing`, a
staged file counts under its new number, otherwise under its old one (`View`).
The rename of `journal.next` to `journal` is thus the instant of the rotation,
and `AuditRotation` implements `AuditLog` under that mapping. A rename, a removal and the
append of a line happen whole or not at all; writing a journal may leave it
empty, because `writeFileSync` creates the file first. One process writes a
file, and `maxFiles` stays the same over the restarts of a behaviour.

Abstractions. Amounts, prices and fee rates are small numbers: `FeeDenom` stands
for 10 000 basis points and the minimum and maximum of `validate_price` keep
their order. `validate_price` compares a rate in basis points with an amount in
stroops (LIB 6282-6299); the model keeps that comparison as written. Contents
of metadata, tags, hashes and events are left out. Three of the five states
look alike to a payment, so `Payments` calls them `Held`.

The source at this commit does not compile as it stands: `DataKey` has
`VerifierHistory` and `FlagModerator` twice, an `Error` number is used twice,
`update_lease_price_floor` and `Error::LeaseFeeConfigConflict` are not defined
anywhere, an event symbol exceeds nine characters and `simulate_record_payment`
passes one field too few. These are leftovers of merges; every function modelled here is
translated as it is written.

## 3. Runs

| Run | Question | Bounds |
|---|---|---|
| `Catalog` | do indexes, counters, offers and holds survive every mix of calls? | 2 resources, 3 accounts (one is admin and moderator), batches and repair lists of up to 2 with duplicates. Every pair of interacting records and a third party are present; symmetry swaps resources and the two ordinary accounts |
| `Payments` | do refunds stay within payments and windows, and are earnings and fees exact under changing configuration? | 2 payments of 1 resource, 3 hashes. Refund side: 2 refunds, amounts 1 and 2, ledgers 0 and 1 with windows 1 and 2, so a refund can be on time, late, partial, complete or excessive. Settlement side: all fee rates and destination shares around the limits, prices 0 to 3 around the valid range |
| `Administration` | does the admin change by consent only, and do scheduled pauses end and stay ended? | `Governance`: 3 accounts, ledgers 0 to 5 with a gap of 2 and a lifetime of 3, 2 roles of at most 2 holders. `Pauses`: timestamps 0 to 3, two steps back |
| `Access` | are anchors backed and attempts spaced, whoever writes in whatever order, and does a lease holder get the ledgers that were confirmed, each of them once? | `Anchors`: 1 resource, 2 buyers, 2 hashes and a bad one, 2 attempts with a back-off of 2 ledgers, ledgers 0 to 4: a full sequence of rejections, an anchor in the middle of one, and a hash that belongs to the other buyer. `Leases`: 1 resource and 1 holder, since no call reads the lease of another pair, 2 prices, windows of 1, 2 and 3 ledgers for the three tiers, ledgers 0 to 5, at most 3 windows: a lease can be confirmed late, revoked before, during and after its window, and replaced in the ledger it ends. The three lengths are distinct, as the real ones are; only comparisons with the ledger read them |
| `AuditRotation` | is a rotation atomic in spite of crashes, and does only a torn journal or a failing disk put the file out of service? | up to 3 generations (0 to 3), a budget of 2 bytes with lines of 1 and 3, 9 entries: enough to fill every generation and drop the oldest twice; crashes are unlimited |
| `EventListener` | does the tracker pass an event that was not handled, and does the row come to the listing that was announced last? | 2 polls, pages of 2, 3 events in any ledgers, 2 of them when polls overlap: polls can start from the same or different trackers and end in either order, a page can end inside a ledger, an event can take the one before back, and calls without an event can come anywhere |
| `Registration` | who may overwrite whose status? | 2 requests, one resource; transactions applied in time, late, refused or lost |
| `Paywall` | is a stale price or wallet ever asked for, and for how long? | 2 requests, 2 prices, 2 wallets: every cached value can be out of date and current again |
| `Profiles` | does a key go to the profile it was asked for whatever calls overlap, and is what was saved on disk? | 2 calls, 2 profiles, 2 wallets (symmetric): one call can change what the other has read, or will write |
| `PrepareDelists` | does preparing a registration leave the listing alone? (no, it delists) | `Registration` with one request |
| `ListingFollows` | does the row follow the chain's life cycle? (no, most of it is not announced) | `EventListener` with one poll and one event |
| `LeasePause` | does the payment pause stop every lease call? (no, a creator can still revoke) | `Leases` with one holder |

The last three runs are disagreements between the code and its documentation; the
lines are in the findings of `PROJECT.json`.

The exceptions written into the properties are what the code really loses.
`CursorCovers`: events of a ledger beyond a full page. `ListingConverges` is about
the listing that the contract announced last, by `setlisted`. Its exceptions are what went wrong since
that announcement: overlapping polls, a handler that failed or could not read
it, a cut ledger, and a row written without the chain (a failed delist, a verdict).
What went wrong before is healed by the announcement. A life-cycle call other than
`set_listed` announces nothing the listener handles, so the row does not follow
it at all: that is the run `ListingFollows`. `SyncedUnlessRaced`: a request that was
under way when the row became registered. `AskedPriceSeen`: the row's price,
when the second lookup fails. `KeyForItsProfile`: profiles imported
while a registration waits, because `mindvault_import_profiles` is not among
the tools that take the mutex. It says which profile a key goes to, not whose key it is: a caller
of `mindvault_register` may name another `walletAddress`, and the active profile then holds that account's key.

Bounded by guards: ledgers (`MaxLedger`), time (`MaxTime`, `MaxRollbacks`),
`MaxCount` (the width of the counters), `LastLedger`, `MaxBatch`, `MaxHolders`, `MaxEntries`, `MaxWindows`. Deadlock is checked in every run.

`MaxEvents` bounds the events of `EventListener`; everything else there, and in `Registration`, `Paywall` and `Profiles`, is finite.

Fairness. `Administration`: weak fairness of `Tick`, because ledgers close by
themselves; `ScheduledPausesEnd` needs no call, since expiry is evaluated when
the pause is read, and time steps back a bounded number of times.
`EventListener`: ledgers close, the interval timer starts polls and awaits end
(weak); a poll that keeps fetching or saving succeeds at last (strong), as the
RPC and the disk are not out of order for ever. The listener asks for events
from ledger 1 on when it has no tracker, so this presumes an RPC that keeps the
history of the contract. Its liveness properties speak of a server
that stays up in the end (`<>[]up`); it may crash any number of times before. `Registration` and
`Paywall`: awaits end, because the poll is bounded and fetches time out, and
cache entries expire (weak). No fairness is put on any call of the contract,
on any request, or on restarts.

The types of `Payments`, `Governance` (`AdminTypeOK`), `Anchors`, `Leases`, `AuditRotation`, `EventListener`,
`Registration`, `Paywall` and `Profiles` are theorems and not run.

## 4. Proofs

Every invariant and every action property that a passing run checks is also a theorem, and
so are the three refinements and three properties without a run of their own
(`RefundsCapped`, which `ImplementsPurchases` contains, `AnchorsPermanent` and `TermsLocked`), for any sets of resources, accounts, receipts, hashes,
requests and calls and any bounds. What is left to the runs is named at the
end of this section.

* `Collections_proofs`: the facts about lists and sums that the proofs of the
  contract need. `Without` and the sums of the community modules are defined by
  recursion, and an induction principle that takes a predicate cannot be
  instantiated here. The facts are therefore proved by the **smallest
  counterexample**: the set of counterexamples is an ordinary set, a set of
  numbers has a least element (`LeastNumber`, from the well-foundedness of `<`),
  a set of subsets of a finite set has a minimal one (`MinimalSubset`, from the
  cardinalities), and the recursion unfolded once makes a smaller
  one. `WithoutRemoves` says which members are left and that none is
  repeated, `WithoutLength` by how much the list shrinks, `ConcatMembers` what a batch adds, and
  `SumRemove` that any element can be taken out of a sum first, whatever the
  order of the additions, from which `SumAdd` follows.
* `Catalog_proofs`: `TypeOK`, `ListedCountsExact`, `CreatorIndexExact`,
  `CatalogSound`, `OffersCurrent`, `OwnershipByConsent`, `HoldsByAdmin` and the
  refinement of `Holdings`. The listed counters are cardinalities of sets, so
  their argument is a lemma on what adding or removing one element does to
  a cardinality, applied to each edge of the life cycle; it is inductive with
  the record types. `CreatorIndexExact` and
  `CatalogSound` come from a second invariant, `Indexed`, which adds that the
  lists are lists of identifiers and their lengths fit the counters; the
  length of an owner's list is the number of its resources (`ListLength`),
  which is why a count can follow the list by one without a look at it. `OwnershipByConsent` needs
  `OffersCurrent`: an accepted offer is consent only because no offer outlives
  the owner who made it.
* `Payments_proofs`: `TypeOK`, `RefundsCapped`, `RefundsAddUp`, `IndexesAgree`,
  `EarningsExact`, `FeesForCurrentRecipient`, `RouteFeasible`,
  `RefundWindowKept` and the refinement of `Purchases`. One inductive invariant holds
  the types, the two hash tables describing receipts in both directions, refunded amounts bounded by
  amounts, a deadline for each settled payment and an empty history for
  accounts that are owed nothing. `Earned` and `AddedUp` are two more: the settled payments and
  the refunds are finitely many at any time, although the sets of receipts need not
  be, and the stored total is the sum over them. `AddedUp` also says that no refund stated a smaller
  remainder than there is now.
* `Administration_proofs`, of `Governance` and `Pauses`: `AdminTypeOK`,
  `NominationCurrent` (inductive with the types), `HandoverByConsent`, which
  reads the nomination through it, and `RoleIndexExact` (inductive with the
  types of the lists, `Listing`; a rotation at capacity fits because the removal comes first); `ExpiryIsFinal`, strengthened by "an expiry
  that was seen was also cleared", and `LastOrderHolds`.
* `Access_proofs`, of `Anchors` and `Leases`.
  * Anchors: the types, the three properties of the run and `AnchorsPermanent`. `RejectionsSpaced` needs
    that the counter and its ledger summarise the rejections (`Counted`), so that
    the throttle, which looks at the last one only, spaces all of them
    (`SpacedAppend`). `SettlerAnchorsBacked` needs that the latest payment of a pair is
    found under its hash.
  * Leases: `LeasesTypeOK`, `LedgersPaidOnce`, `AccessAsConfirmed` and `TermsLocked`. The
    contract keeps one record per pair, so the invariant (`Sold`) says what that record tells of
    the windows it has replaced: an active lease is the last of them, a pending one begins when
    all have ended, and without either all are over. Hence a lease that is
    no longer open leaves nothing to overlap with (`ClosedMeansEnded`), and neither does a revocation
    (`CutShortEnds`).
* `McpServer_proofs`, of `AuditRotation` and `Profiles`.
  * The audit log: `TypeOK`, `AppendsAfterRecovery`, `WithinBudget`, `DisabledWithCause` and the
    refinement of `AuditLog`, for any number of generations, budget and sizes.
    The invariant says what is on disk between any two operations (`DiskOK`: no
    file under both its names while staging, no live file while publishing,
    nothing staged without a journal), how far the operation in progress
    has come (`ProgressOK`) and that the remembered size is the file's (`WriterOK`). `DiskOK` alone has to
    survive `Crash`, which is why recovery may start from any of its states.
  * The profiles: `ProfilesTypeOK`, `ToldIsKept` and `KeyForItsProfile`. The
    invariant says that a call at an await is the head of the mutex's queue, hence the only one, and
    that whoever wants the mutex stands in the queue (`Turns`); that what a call resolved before
    its await is still so, unless an import ran beside it (`Resolved`); and that a wallet reported
    as persisted is also in memory (`InMemory`), because the next save replaces
    the file by what memory has. `KeyForItsProfile` needs the first two, `ToldIsKept` the third.
* `EventListener_proofs`: `TypeOK` and `CursorCovers`, for any page limit, any
  number of polls and any log. The invariant says that the log is in the order
  of its ledgers and nobody is ahead of the chain (`LogOK`), that what lies before the ledger a poll
  started from is covered (`StartOK`), and that within its page a
  poll has covered what it has passed and a page that cuts a ledger is full
  (`PageOK`). The last part is why a poll that ends late, after others moved the
  tracker, may still save its own ledger.
* `Server_proofs`, of `Registration` and `Paywall`: `TypeOK`,
  `RegisteredOnChain` and `SyncedUnlessRaced`, for any number of requests: a
  request is confirmed only after its transaction was applied, and one that
  starts after the row became registered is turned away. `PaywallTypeOK` and `AskedPriceSeen`, for any
  number of requests, prices and wallets: a cached middleware asks for the
  price it is cached under (`CachedByPrice`), though perhaps for a former owner, and a
  request that has compared has seen every price of the chain since (`HeldOK`).

Assumptions are the named `ASSUME`s of the modules: finite sets of identifiers,
natural bounds, null values outside their sets (in `Profiles` also: no state file is
null). In `Catalog` the lists that `repair_index` is
called with are no longer than the largest count, because the length of a `Vec` is a `u32` as the count is.

Only model-checked: all liveness (`ScheduledPausesEnd`, `EventsHandled`,
`ListingConverges`, `RequestsEnd`, `AgreedIsServed`, `OwnerIsPaid`), which is
out of the prover's reach together with `ENABLED`. `RegisteringKeepsListed`, `PaymentPauseStopsLeases` and
`ListingFollowsChain` are properties the code violates.

## 5. Not modelled, and the plan

In order of value:

1. `CatalogReads` (`resourceService.ts`): the read caches as interleaved steps,
   with bounded staleness.
2. `Listings`, `TagIndex`, `Paging` (LIB).
3. `RateLimitCoordinator`, `StateBackup` (`src/mcp`), publish idempotency and
   the shutdown drain (`src/server`).

Theorems next: those of the modules above, and abstract specifications of the
tracker and of the state file for `EventListener` and `Profiles` to implement. An audit log with
a partly written line and with a limit that changes at a restart would extend `AuditRotation`.

Seen while modelling and not the subject of a run:

* `set_listed(id, true)` relists a flagged resource (LIB 2501), which the
  comment at LIB 2676-2678 and `src/contract/README.md:283` exclude.
* The account that makes a refund is the owner at the time of the refund (LIB
  6207), not the account that was credited (`src/contract/README.md:414-416`).
* A payment may reuse the hash of a refund (LIB 6383; `src/contract/README.md:708`).
* A settler's vain retry leaves a failure record beside an anchor (LIB 5466).
* A kill between the creation and the content of the audit journal disables
  the file sink at every start (`src/mcp/src/auditLogRotation.ts:228`, 181).
* The paywall compares one lookup and charges from another
  (`src/server/src/middleware/dynamicPaywall.ts:96`), although its comment
  (38-39) says that prices that disagree are refused.
* A lease of a day costs 3 requests and one of a week 7 (LIB 35-36), where
  `src/contract/README.md:392` and `test/leases.rs:35` beside LIB say 5 and 20.
* The override, failure report and retry of an anchor (LIB 5259, 5316, 5402) ignore the
  payment pause as a lease's revocation does.
* No code sets the status `pending`, though `src/docs/resource-publish-lifecycle.md:180`
  says it is set before submission; `POST /register` ignores the signed XDR of its body.
* `mindvault_register` with a `walletAddress` stores that account's key in the active profile
  (`src/mcp/src/index.ts:2639`, 2648), whose wallet may be another.
* `handleSetListedEvent` reads the plain shape of a value only
  (`src/server/src/workers/eventListener.ts:245-254`), where the handler of tags also
  reads the SDK's objects (80-84, 136): with those the row never follows a listing.
* `importWallet` and `repairSponsoredAccount` report `persisted: true` without
  looking at the result of `saveState` (`src/mcp/src/index.ts:1009`, 1712). After
  `mindvault_reset` of the active profile a restart makes another one active.
  `src/mcp/src/stateMutex.ts`, which does list the import of profiles, is not
  used, and the tools in `src/mcp/src/tools` read a second profile table
  (`runtime.ts`) that nothing loads in production.

Left out for good: storage lifetimes (an archived entry never reaches the
contract), event payloads, input formats, content verification by an external
model, object storage, front end and generated bindings, and several MCP servers that share one state file.
