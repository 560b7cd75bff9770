\* Two requests of one resource at once; two prices and two wallets, so that
\* every cached value can be out of date and current again.
SPECIFICATION PaywallSpec
CONSTANTS
    Buyers = {b1, b2}
    Prices = {"0.5", "1"}
    Wallets = {"old", "new"}
    None = None
INVARIANT AskedPriceSeen
PROPERTIES AgreedIsServed OwnerIsPaid
