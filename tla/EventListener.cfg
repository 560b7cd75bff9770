\* Pages of two and three events, so that a page can cut a ledger; two of
\* them when two polls overlap and either can end first.
SPECIFICATION ListenerSpec
CONSTANTS
    p1 = p1
    p2 = p2
    PageLimit = 2
    Polls = {p1, p2}
    MaxEvents = 3
INVARIANT CursorCovers
PROPERTIES EventsHandled ListingConverges
