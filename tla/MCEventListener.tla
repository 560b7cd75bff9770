-------------------------- MODULE MCEventListener --------------------------
(***************************************************************************)
(* Instance of EventListener for TLC, the sum of two sides.  On one, polls *)
(* overlap, every call is made, and there is one event fewer than          *)
(* MaxEvents.  On the other there is one poll at a time and the creator's  *)
(* set_listed alone changes the listing on the chain; with all the events, *)
(* a full page can end inside a ledger.                                    *)
(***************************************************************************)
EXTENDS EventListener

CONSTANTS p1, p2

VARIABLE overlapping

Side ==
    IF overlapping
    THEN Len(log) < MaxEvents
    ELSE Idle(p2) /\ state \in {"Listed", "Delisted"} /\ ~delisting

ListenerInit == Init /\ overlapping \in BOOLEAN

ListenerNext == Next /\ UNCHANGED overlapping /\ Side'

\* No step that Fairness asks for leaves its side: the chain and the polls of
\* p1 go on, and a call that may not be made can be lost.
ListenerSpec == ListenerInit /\ [][ListenerNext]_<<vars, overlapping>> /\ Fairness
=============================================================================
