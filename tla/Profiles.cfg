\* Two profiles and two wallets, two calls at once.
SPECIFICATION ProfilesSpec
CONSTANTS
    Names = {"default", "other"}
    Default = "default"
    Accounts = {a, b}
    None = None
    Calls = {c1, c2}
SYMMETRY Interchangeable
INVARIANT ToldIsKept
PROPERTY KeyForItsProfile
