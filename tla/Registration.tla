---------------------------- MODULE Registration ----------------------------
(***************************************************************************)
(* One verified resource and its on-chain registration by the server:      *)
(* POST /resources/:id/register reads the row, sends a transaction, polls  *)
(* for 30 s and writes resources.onchainStatus; the handler of the         *)
(* contract's register event (module EventListener) writes the same column *)
(* when a poll hands it the event; GET /resources/:id/register/prepare and *)
(* DELETE /resources/:id write resources.listed.                           *)
(*                                                                         *)
(* The network is external.  It accepts a transaction or not, applies it   *)
(* or not, and may apply it after everybody has stopped asking.  No code   *)
(* writes onchainStatus "pending", so the retry worker finds no row and is *)
(* left out; so is the legacy branch, whose condition buildRegisterTx      *)
(* never gives.                                                            *)
(***************************************************************************)
EXTENDS Naturals

CONSTANT Requests  \* POST /register calls that may be under way at once

Statuses == {"none", "pending", "registered", "failed"}
Steps    == {"idle", "building", "polling", "confirmed", "failing"}

VARIABLES
    status,    \* resources.onchainStatus
    listed,    \* resources.listed
    exists,    \* the registry contract has the resource
    event,     \* its register event: "none", "waiting", "handled" or "missed"
    pc,        \* per request: where it is
    sent,      \* per request: its transaction, "none", "pending", "applied", "refused"
    stray,     \* a transaction nobody waits for may still be applied
    withdrawn, \* history: the owner called DELETE
    late,      \* history: requests under way when the row became registered
    raced      \* history: one of them wrote its failure over that

request == <<pc, sent>>
chain   == <<exists, event>>
row     == <<status, listed>>
history == <<withdrawn, late, raced>>
vars    == <<row, chain, request, stray, history>>

Init ==
    /\ status = "none" /\ listed = TRUE
    /\ exists = FALSE /\ event = "none"
    /\ pc = [r \in Requests |-> "idle"] /\ sent = [r \in Requests |-> "none"]
    /\ stray = FALSE
    /\ withdrawn = FALSE /\ late = {} /\ raced = FALSE

Goto(r, s)    == pc' = [pc EXCEPT ![r] = s]
Tx(r, s)      == sent' = [sent EXCEPT ![r] = s]
Abandon(lost) == stray' = (stray \/ lost)

----------------------------------------------------------------------------
\* "none" or "failed" proceeds, anything else is answered with 409.
Registrable_Unsettled(s) == s # "pending"
Registrable(s) == s \notin {"registered", "pending"}

Request(r) ==
    /\ pc[r] = "idle" /\ Registrable(status)
    /\ Goto(r, "building") /\ Tx(r, "none")
    /\ late' = late \ {r}
    /\ UNCHANGED <<row, chain, stray, withdrawn, raced>>

\* buildRegisterTx is outside the try block: its error writes nothing.
BuildFails(r) ==
    /\ pc[r] = "building"
    /\ Goto(r, "idle")
    /\ UNCHANGED <<row, chain, sent, stray, history>>

Send(r) ==
    /\ pc[r] = "building"
    /\ Goto(r, "polling") /\ Tx(r, "pending")
    /\ UNCHANGED <<row, chain, stray, history>>

\* Refused, or the answer was lost and the network has the transaction.
SendFails(r) ==
    /\ pc[r] = "building"
    /\ Goto(r, "failing")
    /\ \E lost \in BOOLEAN : Abandon(lost)
    /\ UNCHANGED <<row, chain, sent, history>>

\* getTransaction answers SUCCESS or FAILED.
Succeeded_OrPending(s) == s \in {"applied", "pending"}
Succeeded(s) == s = "applied"

Poll(r) ==
    /\ pc[r] = "polling"
    /\ \/ Succeeded(sent[r]) /\ Goto(r, "confirmed")
       \/ sent[r] = "refused" /\ Goto(r, "failing")
    /\ UNCHANGED <<row, chain, sent, stray, history>>

\* 30 polls gave no answer, or one threw.
GivesUp_IfRefused(r) == sent[r] = "refused"
GivesUp(r) == TRUE

PollTimesOut(r) ==
    /\ pc[r] = "polling" /\ GivesUp(r)
    /\ Goto(r, "failing") /\ Tx(r, "none")
    /\ Abandon(sent[r] = "pending")
    /\ UNCHANGED <<row, chain, history>>

InFlight == {r \in Requests : pc[r] # "idle"}

\* The column is written whatever it has become since it was read.
WriteRegistered(r) ==
    /\ pc[r] = "confirmed"
    /\ status' = "registered" /\ late' = InFlight \ {r}
    /\ Goto(r, "idle")
    /\ UNCHANGED <<listed, chain, sent, stray, withdrawn, raced>>

WriteFailed(r) ==
    /\ pc[r] = "failing"
    /\ status' = "failed"
    /\ raced' = (raced \/ (status = "registered" /\ r \in late))
    /\ Goto(r, "idle")
    /\ UNCHANGED <<listed, chain, sent, stray, withdrawn, late>>

\* The database refuses the write: the catch block writes "failed", and an
\* error of that one goes to the caller.
WriteThrows(r) ==
    /\ pc[r] \in {"confirmed", "failing"}
    /\ Goto(r, IF pc[r] = "confirmed" THEN "failing" ELSE "idle")
    /\ UNCHANGED <<row, chain, sent, stray, history>>

----------------------------------------------------------------------------
\* register_internal refuses an id it has; otherwise the event is published.
RegisterOnChain ==
    /\ ~exists
    /\ exists' = TRUE /\ event' = "waiting"

Apply(r) ==
    /\ sent[r] = "pending"
    /\ \/ RegisterOnChain /\ Tx(r, "applied")
       \/ Tx(r, "refused") /\ UNCHANGED chain
    /\ UNCHANGED <<row, pc, stray, history>>

\* A transaction nobody waits for, or one the creator sent from a wallet.
ApplyStray ==
    /\ stray /\ stray' = FALSE
    /\ RegisterOnChain
    /\ UNCHANGED <<row, request, history>>

CreatorRegisters ==
    /\ RegisterOnChain
    /\ UNCHANGED <<row, request, stray, history>>

\* handleRegisterEvent; polls that overlap hand it the event again.
SyncRegister(seen) ==
    /\ event = seen /\ event' = "handled"
    /\ status' = "registered"
    /\ late' = IF status = "registered" THEN late ELSE InFlight
    /\ UNCHANGED <<listed, exists, request, stray, withdrawn, raced>>

\* The handler failed, or the event was cut off its page.
MissRegister ==
    /\ event = "waiting" /\ event' = "missed"
    /\ UNCHANGED <<row, exists, request, stray, history>>

----------------------------------------------------------------------------
\* delistResource, for DELETE and for GET /register/prepare alike.
DelistResource == listed' = FALSE

Delete ==
    /\ DelistResource /\ withdrawn' = TRUE
    /\ UNCHANGED <<status, chain, request, stray, late, raced>>

Prepare ==
    /\ DelistResource
    /\ UNCHANGED <<status, chain, request, stray, history>>

Restart ==
    /\ pc' = [r \in Requests |-> "idle"] /\ sent' = [r \in Requests |-> "none"]
    /\ Abandon(\E r \in Requests : sent[r] = "pending")
    /\ UNCHANGED <<row, chain, history>>

Work(r) ==
    \/ BuildFails(r) \/ Send(r) \/ SendFails(r)
    \/ Poll(r) \/ PollTimesOut(r)
    \/ WriteRegistered(r) \/ WriteFailed(r) \/ WriteThrows(r)

Next ==
    \/ \E r \in Requests : Request(r) \/ Work(r) \/ Apply(r)
    \/ ApplyStray \/ CreatorRegisters
    \/ SyncRegister("waiting") \/ SyncRegister("handled") \/ MissRegister
    \/ Delete \/ Prepare
    \/ Restart

\* An await ends: the calls of a request return or throw.
Spec == Init /\ [][Next]_vars /\ \A r \in Requests : WF_vars(Work(r))

----------------------------------------------------------------------------
TypeOK ==
    /\ status \in Statuses /\ listed \in BOOLEAN
    /\ exists \in BOOLEAN /\ event \in {"none", "waiting", "handled", "missed"}
    /\ pc \in [Requests -> Steps]
    /\ sent \in [Requests -> {"none", "pending", "applied", "refused"}]
    /\ stray \in BOOLEAN
    /\ withdrawn \in BOOLEAN /\ late \subseteq Requests /\ raced \in BOOLEAN

\* The row says "registered" only when the contract has the resource,
\* whichever of the requests and the event wrote it, and in any order.
RegisteredOnChain == status = "registered" => exists

\* Once the register event was handled the row stays registered, unless a
\* request that was under way at that moment wrote its own failure over it:
\* none that started later can.
SyncedUnlessRaced == event = "handled" => status = "registered" \/ raced

\* Every request ends, though its transaction may never be heard of again.
RequestsEnd == \A r \in Requests : (pc[r] # "idle") ~> (pc[r] = "idle")

\* The snapshots of docs/resource-publish-lifecycle.md: a row is listed when
\* its registration was confirmed or failed, unless the owner delisted it.
RegisteringKeepsListed == status \in {"registered", "failed"} /\ ~withdrawn => listed
=============================================================================
