--------------------------- MODULE EventListener ---------------------------
(***************************************************************************)
(* The server's registry event listener: a timer starts a poll every 30 s, *)
(* whether or not the last one has ended; a poll reads one page of events  *)
(* from the ledger in its tracker file, hands each event to its handler    *)
(* and saves the ledger after the last one.  With it the other writers of  *)
(* resources.listed: DELETE /resources/:id, which also asks the chain, and *)
(* the verdict of a content verification, which does not.                  *)
(*                                                                         *)
(* One resource, registered and listed when the model starts.  The contract *)
(* changes its listing in two ways: set_listed publishes setlisted, the    *)
(* rest of the life cycle publishes another event or none.  "other" are    *)
(* the events that have no handler for the listing: those, register        *)
(* (module Registration), settags, and setprice and transfer, whose        *)
(* handlers find no id in the topics or no address in the payload the      *)
(* contract publishes and return.  What the SDK's getEvents returns is     *)
(* external: a setlisted value may have a shape its handler cannot read.   *)
(***************************************************************************)
EXTENDS Naturals, Sequences

CONSTANTS
    PageLimit,   \* EVENT_PAGE_LIMIT
    Polls,       \* invocations of pollEvents that may be under way at once
    MaxEvents    \* bound: how many there are

States == {"Listed", "Delisted", "Frozen", "Disputed", "Tombstoned"}
Event == [ledger : Nat \ {0}, kind : {"Listed", "Delisted", "other"}]
Steps == {"idle", "fetching", "handling", "saving"}

ASSUME ListenerAssumption ==
    PageLimit \in Nat \ {0} /\ MaxEvents \in Nat

VARIABLES
    state,     \* the resource's state in the contract
    log,       \* the contract's events, in the order of the chain
    open,      \* the ledger being built; getEvents returns the closed ones
    cursor,    \* lastLedger in the tracker file, 0 when missing or unreadable
    pc, from, last, next, \* per poll: where it is, its startLedger, its page's end, its loop
    up,        \* the server process runs
    listed,    \* resources.listed
    delisting, \* delistResource is about to call delistOnChain
    handed,    \* history: the events given to a handler
    drift      \* history: the row may differ from the last listing announced

chain    == <<state, log, open>>
poll     == <<pc, from, last, next>>
server   == <<up, listed, delisting>>
vars     == <<chain, cursor, poll, server, handed, drift>>

Init ==
    /\ state = "Listed" /\ log = <<>> /\ open = 1
    /\ cursor = 0
    /\ pc = [p \in Polls |-> "idle"]
    /\ from = [p \in Polls |-> 0] /\ last = [p \in Polls |-> 0] /\ next = [p \in Polls |-> 0]
    /\ up = TRUE /\ listed = TRUE /\ delisting = FALSE
    /\ handed = {} /\ drift = FALSE

Idle(p) == pc[p] = "idle"
Goto(p, s) == pc' = [pc EXCEPT ![p] = s]

\* A poll returns, and its variables with it.
Return(p) ==
    /\ Goto(p, "idle")
    /\ from' = [from EXCEPT ![p] = 0]
    /\ last' = [last EXCEPT ![p] = 0] /\ next' = [next EXCEPT ![p] = 0]

----------------------------------------------------------------------------
\* The contract publishes an event, in the ledger being built.
Emit(kind) ==
    /\ Len(log) < MaxEvents
    /\ log' = Append(log, [ledger |-> open, kind |-> kind])

\* The listing announced last: the second value of the last setlisted event.
Setlisted(i) == log[i].kind # "other"
Latest(i)    == Setlisted(i) /\ \A j \in i + 1 .. Len(log) : ~Setlisted(j)
Announced    == \A i \in 1 .. Len(log) : Latest(i) => log[i].kind = "Listed"

Overlap == \E p, q \in Polls : p # q /\ ~Idle(p) /\ ~Idle(q)

\* set_listed and delist, which announce also what was so before.  Whatever
\* the row missed so far does not matter once this event is handled.
SetListed(to) ==
    /\ state \in {"Listed", "Delisted"} /\ state' = to
    /\ Emit(to)
    /\ drift' = (drift /\ Overlap)

CreatorSetsListed(to) ==
    /\ SetListed(to)
    /\ UNCHANGED <<open, cursor, poll, server, handed>>

\* The rest of the life cycle goes through transition_state as set_listed
\* does, but announces no listing: a call of the first four publishes nothing.
Transition(states, to) ==
    /\ state \in states /\ state' = to
    /\ UNCHANGED <<open, cursor, poll, server, handed, drift>>

Freeze == Transition({"Listed", "Delisted"}, "Frozen") /\ UNCHANGED log
OpenDispute == Transition({"Listed", "Delisted", "Frozen"}, "Disputed") /\ UNCHANGED log
ResolveDispute(to) == Transition({"Disputed"}, to) /\ UNCHANGED log
Tombstone == Transition(States \ {"Tombstoned"}, "Tombstoned") /\ UNCHANGED log

EmergencyDelist == Transition({"Disputed"}, "Delisted") /\ Emit("other")
Reactivate == Transition({"Frozen", "Delisted"}, "Listed") /\ Emit("other")

\* A call that leaves the listing alone.
OtherCall == Transition(States, state) /\ Emit("other")

\* A ledger closes; empty ones change nothing and are left out.
CloseLedger ==
    /\ Len(log) > 0 /\ log[Len(log)].ledger = open
    /\ open' = open + 1
    /\ UNCHANGED <<state, log, cursor, poll, server, handed, drift>>

\* delistResource: the row first, then the chain, best effort.
Delist ==
    /\ up /\ ~delisting
    /\ listed' = FALSE /\ delisting' = TRUE
    /\ UNCHANGED <<chain, cursor, poll, up, handed, drift>>

DelistOnChain ==
    /\ delisting /\ delisting' = FALSE
    /\ SetListed("Delisted")
    /\ UNCHANGED <<open, cursor, poll, up, listed, handed>>

\* The call fails or is refused, which is only logged.
DelistLost ==
    /\ delisting /\ delisting' = FALSE
    /\ drift' = (drift \/ Announced)
    /\ UNCHANGED <<chain, cursor, poll, up, listed, handed>>

\* verify-content lists or unlists the row by its verdict alone.
Verdict(original) ==
    /\ up /\ listed' = original
    /\ drift' = (drift \/ original # Announced)
    /\ UNCHANGED <<chain, cursor, poll, up, delisting, handed>>

----------------------------------------------------------------------------
\* pollEvents, up to its first await.  A missing tracker costs one poll.
StartPoll(p) ==
    /\ up /\ Idle(p)
    /\ \/ /\ cursor = 0 /\ cursor' = 1
          /\ UNCHANGED <<poll, drift>>
       \/ /\ cursor # 0
          /\ from' = [from EXCEPT ![p] = cursor]
          /\ Goto(p, "fetching")
          /\ drift' = (drift \/ \E q \in Polls : ~Idle(q))
          /\ UNCHANGED <<cursor, last, next>>
    /\ UNCHANGED <<chain, server, handed>>

\* The events getEvents has for a poll, and those of them on its one page.
Available(p, i) == log[i].ledger >= from[p] /\ log[i].ledger < open
First(p, i) == Available(p, i) /\ \A j \in 1 .. i - 1 : ~Available(p, j)
EndsPage(i, j) ==
    /\ j >= i /\ j < i + PageLimit /\ log[j].ledger < open
    /\ j + 1 < i + PageLimit /\ j < Len(log) => log[j + 1].ledger >= open

\* A page without events ends the poll and leaves the tracker alone.
Fetch(p) ==
    /\ pc[p] = "fetching"
    /\ \/ /\ \A i \in 1 .. Len(log) : ~Available(p, i)
          /\ Return(p)
       \/ \E i, j \in 1 .. Len(log) :
             /\ First(p, i) /\ EndsPage(i, j)
             /\ next' = [next EXCEPT ![p] = i] /\ last' = [last EXCEPT ![p] = j]
             /\ Goto(p, "handling") /\ from' = [from EXCEPT ![p] = 0]
    /\ UNCHANGED <<chain, cursor, server, handed, drift>>

\* getEvents fails, as it does for a ledger the RPC no longer keeps.
FetchFails(p) ==
    /\ pc[p] = "fetching"
    /\ Return(p)
    /\ UNCHANGED <<chain, cursor, server, handed, drift>>

\* The loop goes on whether the handler succeeded or threw.
NextEvent(p) ==
    /\ handed' = handed \cup {next[p]}
    /\ next' = [next EXCEPT ![p] = @ + 1]
    /\ pc' = [pc EXCEPT ![p] = IF next[p] = last[p] THEN "saving" ELSE "handling"]

\* handleSetListedEvent takes the second of (old, new), a string.
NewListed_Truthy(i) == log[i].kind \in {"Listed", "Delisted"}
NewListed(i) == log[i].kind = "Listed"

Handle(p) ==
    /\ pc[p] = "handling"
    /\ listed' = IF Setlisted(next[p]) THEN NewListed(next[p]) ELSE listed
    /\ NextEvent(p)
    /\ UNCHANGED <<chain, cursor, from, last, up, delisting, drift>>

\* The handler throws, or returns without a write because it cannot read
\* the value (listed === null); the event counts as handled all the same.
HandlesNothing(p) ==
    /\ pc[p] = "handling"
    /\ drift' = (drift \/ Latest(next[p]))
    /\ NextEvent(p)
    /\ UNCHANGED <<chain, cursor, from, last, server>>

\* saveLastLedger(maxLedger + 1).  What the last ledger has beyond a full
\* page is never asked for again.
SavedLedger_NotNext(p) == log[last[p]].ledger
SavedLedger_OneTooMany(p) == log[last[p]].ledger + 2
SavedLedger(p) == log[last[p]].ledger + 1
CutsLedger(p) == last[p] < Len(log) /\ log[last[p] + 1].ledger = log[last[p]].ledger

Save(p) ==
    /\ pc[p] = "saving"
    /\ cursor' = SavedLedger(p)
    /\ drift' = (drift \/ CutsLedger(p))
    /\ Return(p)
    /\ UNCHANGED <<chain, server, handed>>

\* The write fails and is only logged.
SaveFails(p) ==
    /\ pc[p] = "saving"
    /\ Return(p)
    /\ UNCHANGED <<chain, cursor, server, handed, drift>>

\* The process ends anywhere.  writeFileSync truncates the tracker before
\* it writes it.
Torn == cursor = 0 \/ \E p \in Polls : pc[p] = "saving"
Crash ==
    /\ up /\ up' = FALSE
    /\ pc' = [p \in Polls |-> "idle"]
    /\ from' = [p \in Polls |-> 0] /\ last' = [p \in Polls |-> 0] /\ next' = [p \in Polls |-> 0]
    /\ \/ UNCHANGED cursor
       \/ Torn /\ cursor' = 0
    /\ drift' = (drift \/ (delisting /\ Announced))
    /\ delisting' = FALSE
    /\ UNCHANGED <<chain, listed, handed>>

Boot ==
    /\ ~up /\ up' = TRUE
    /\ UNCHANGED <<chain, cursor, poll, listed, delisting, handed, drift>>

PollStep(p) ==
    Fetch(p) \/ FetchFails(p) \/ Handle(p) \/ HandlesNothing(p) \/ Save(p) \/ SaveFails(p)

Next ==
    \/ \E to \in {"Listed", "Delisted"} : CreatorSetsListed(to)
    \/ \E to \in {"Listed", "Delisted", "Frozen"} : ResolveDispute(to)
    \/ Freeze \/ OpenDispute \/ Tombstone \/ EmergencyDelist \/ Reactivate \/ OtherCall
    \/ CloseLedger
    \/ Delist \/ DelistOnChain \/ DelistLost
    \/ \E original \in BOOLEAN : Verdict(original)
    \/ \E p \in Polls : StartPoll(p) \/ PollStep(p)
    \/ Crash \/ Boot

\* Ledgers close, setInterval keeps firing, awaited calls return, and the
\* RPC and the disk are not out of order for ever.
Fairness ==
    /\ WF_vars(CloseLedger)
    /\ WF_vars(DelistOnChain \/ DelistLost)
    /\ WF_vars(\E p \in Polls : StartPoll(p))
    /\ \A p \in Polls :
        /\ WF_vars(PollStep(p))
        /\ SF_vars(Fetch(p)) /\ SF_vars(Save(p))

Spec == Init /\ [][Next]_vars /\ Fairness

----------------------------------------------------------------------------
TypeOK ==
    /\ state \in States
    /\ log \in Seq(Event)
    /\ open \in Nat \ {0} /\ cursor \in Nat
    /\ pc \in [Polls -> Steps]
    /\ from \in [Polls -> Nat] /\ last \in [Polls -> Nat] /\ next \in [Polls -> Nat]
    /\ up \in BOOLEAN /\ listed \in BOOLEAN /\ delisting \in BOOLEAN /\ drift \in BOOLEAN
    /\ handed \subseteq 1 .. Len(log)

\* Event i is lost to a full page that ended in its ledger, before it.
CutOff(i) ==
    \E j \in 1 .. i - 1 :
        /\ log[j].ledger = log[i].ledger
        /\ j >= PageLimit /\ \A k \in j - PageLimit + 1 .. j : k \in handed

\* Every event of a ledger the tracker has passed was given to its handler,
\* or was cut off by a full page that ended in the same ledger: whatever
\* polls overlap, fail, or were interrupted by a restart.
CursorCovers ==
    \A i \in 1 .. Len(log) : log[i].ledger < cursor => i \in handed \/ CutOff(i)

\* Every event is given to its handler at last, or cut off, once the
\* server stays up.
EventsHandled ==
    <>[]up =>
        \A i \in 1 .. MaxEvents : (i <= Len(log)) ~> (i \in handed \/ (i <= Len(log) /\ CutOff(i)))

\* The row's listing becomes the one the contract announced last, and stays
\* it, unless since that announcement polls overlapped, its handler failed or
\* could not read it, a page cut a ledger, or the row was written without the
\* chain (a failed delist, a verdict).  What went wrong before does not matter.
ListingConverges ==
    <>[]up => <>[](drift \/ listed = Announced)

\* What docs/delist-strategy-decision.md says of the listener: it keeps the
\* row in sync with what happens on the chain, hence with its state.
ListingFollowsChain ==
    <>[]up => <>[](drift \/ listed = (state = "Listed"))
============================================================================
