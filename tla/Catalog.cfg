CONSTANTS
    r1 = r1
    r2 = r2
    alice = alice
    bob = bob
    carol = carol
    NoAddress = NoAddress
    Ids <- MCIds
    Addresses <- MCAddresses
    Admin = carol
    Moderators = {carol}
    MaxCount = 2
    MaxBatch = 2
    Batches <- MCBatches
    RepairLists <- MCRepairLists
SYMMETRY Interchangeable
SPECIFICATION Spec
INVARIANTS
    ListedCountsExact
    CreatorIndexExact
    OffersCurrent
    CatalogSound
PROPERTIES
    OwnershipByConsent
    HoldsByAdmin
    ImplementsHoldings
