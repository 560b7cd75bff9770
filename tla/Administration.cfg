\* Governance: three accounts, two roles with room for two holders each.
\* Pauses: four timestamps; the clock may go back twice.
SPECIFICATION AdministrationSpec
CONSTANTS
    alice = alice
    bob = bob
    carol = carol
    Addresses = {alice, bob, carol}
    NoAddress = NoAddress
    Roles = {"Verifier", "Settler"}
    MaxHolders = 2
    Duration = 3
    MinGap = 2
    MaxLedger = 5
    MaxTime = 3
    MaxRollbacks = 2
    NoDeadline = NoDeadline
INVARIANTS NominationCurrent RoleIndexExact ExpiryIsFinal LastOrderHolds
PROPERTIES HandoverByConsent ScheduledPausesEnd
