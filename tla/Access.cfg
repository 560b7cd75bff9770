\* One resource, two accounts.  Anchors: two hashes, two attempts two ledgers
\* apart.  Leases: one holder, two prices, windows of one to three ledgers.
SPECIFICATION AccessSpec
CONSTANTS
    r1 = r1
    b1 = b1
    b2 = b2
    h1 = h1
    h2 = h2
    Resources = {r1}
    Buyers = {b1, b2}
    Hashes = {h1, h2}
    BadHash = BadHash
    NoHash = NoHash
    MaxAttempts = 2
    Backoff = 2
    MaxLedger = 4
    Vaults = {r1}
    Holders = {b1}
    Prices = {1, 2}
    TierLedgers <- ShortTiers
    NoLease = NoLease
    LastLedger = 5
    MaxWindows = 3
SYMMETRY SameHashes
INVARIANTS SettlerAnchorsBacked UnavailableMeansUnanchored RejectionsSpaced LedgersPaidOnce AccessAsConfirmed
