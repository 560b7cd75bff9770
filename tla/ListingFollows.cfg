\* One poll at a time, and one event at most.
SPECIFICATION Spec
CONSTANTS
    PageLimit = 2
    Polls = {p1}
    MaxEvents = 1
PROPERTY ListingFollowsChain
