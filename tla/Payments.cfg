\* Two payments of one resource.  Refunds: two of them, two windows, two
\* ledgers, one price, no fees.  Settlement: every fee configuration, changing
\* prices.
SPECIFICATION PaymentsSpec
CONSTANTS
    a1 = a1
    a2 = a2
    r1 = r1
    p1 = p1
    p2 = p2
    f1 = f1
    f2 = f2
    h1 = h1
    h2 = h2
    h3 = h3
    Accounts = {a1, a2}
    NoAccount = NoAccount
    NoFeeConfig = NoFeeConfig
    FeeDenom = 2
    MaxFeeBps = 1
    FeeRates = {0, 1}
    DestinationRates = {0, 1, 2, 3}
    Resources = {r1}
    Receipts = {p1, p2}
    RefundIds = {f1, f2}
    Hashes = {h1, h2, h3}
    NoEntry = NoEntry
    Admin = Admin
    Prices = {0, 1, 2, 3}
    RefundAmounts = {1, 2}
    MaxPrice = 2
    Windows = {1, 2}
    DefaultWindow = 1
    MaxWindow = 2
    MaxLedger = 1
SYMMETRY Interchangeable
INVARIANTS RefundsAddUp IndexesAgree EarningsExact FeesForCurrentRecipient RouteFeasible
PROPERTIES RefundWindowKept ImplementsPurchases
