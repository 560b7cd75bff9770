\* Two requests at once, the event, and transactions that arrive late.
SPECIFICATION Spec
CONSTANT Requests = {r1, r2}
INVARIANTS RegisteredOnChain SyncedUnlessRaced
PROPERTY RequestsEnd
