\* The payment pause, while leases exist.
SPECIFICATION LeasesSpec
CONSTANTS
    Vaults = {r1}
    Holders = {b1}
    Prices = {1, 2}
    TierLedgers <- ShortTiers
    NoLease = NoLease
    LastLedger = 3
    MaxWindows = 2
PROPERTY PaymentPauseStopsLeases
