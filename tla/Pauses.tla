------------------------------- MODULE Pauses -------------------------------
(***************************************************************************)
(* The two pauses of the vault-registry contract: one for every mutation,  *)
(* one for payments and leases only.  Each is indefinite, or scheduled to  *)
(* end at a ledger timestamp with no further transaction.  An expired      *)
(* schedule of the first is cleared by whatever call observes it, so a     *)
(* timestamp that goes back cannot revive it; the second is not cleared.   *)
(*                                                                         *)
(* The orders are the current admin's (Governance).  A gated call stands   *)
(* for any mutation of the registry: what else it writes is the subject of *)
(* Catalog and Payments.  A call that fails, for the pause or for a reason *)
(* of its own, is rolled back with the clearing it may have done.          *)
(***************************************************************************)
EXTENDS Naturals

CONSTANTS
    MaxTime,        \* the last ledger timestamp of a behaviour
    MaxRollbacks,   \* how often the timestamp may go back
    NoDeadline      \* no PauseUntil entry

ASSUME TimeAssumption == /\ MaxTime \in Nat /\ MaxRollbacks \in Nat
                         /\ NoDeadline \notin Nat

Times == 0 .. MaxTime

VARIABLES
    paused,         \* Paused
    until,          \* PauseUntil
    payPaused,      \* PaymentPaused
    payUntil,       \* PaymentPauseUntil
    now,            \* env.ledger().timestamp()
    rollbacks,      \* how often it went back
    order,          \* history: the admin's last order for the registry pause
    seenExpired     \* history: a committed call saw that order expired

registryPause == <<paused, until>>
paymentPause  == <<payPaused, payUntil>>
clock         == <<now, rollbacks>>
pauseVars == <<registryPause, paymentPause, clock, order, seenExpired>>

PausesInit ==
    /\ paused = FALSE
    /\ until = NoDeadline
    /\ payPaused = FALSE
    /\ payUntil = NoDeadline
    /\ now = 0
    /\ rollbacks = 0
    /\ order = "resume"
    /\ seenExpired = FALSE

\* pause_is_active and payment_pause_is_active, without what the first clears:
\* at its deadline a pause is over.
Running_UntilCleared(deadline) == TRUE
Running(deadline) == deadline = NoDeadline \/ deadline > now
PauseActive   == paused /\ Running(until)
PaymentActive == payPaused /\ Running(payUntil)

---------------------------------------------------------------------------
(* The admin's orders *)

\* remove(PauseUntil)
DropDeadline_Kept == UNCHANGED until
DropDeadline == until' = NoDeadline

SetPaused(value) ==
    /\ paused' = value
    /\ DropDeadline
    /\ order' = IF value THEN "indefinite" ELSE "resume"
    /\ seenExpired' = FALSE
    /\ UNCHANGED <<paymentPause, clock>>

\* A deadline that is not in the future resumes at once.
SetPausedUntil(deadline) ==
    /\ paused' = (deadline > now)
    /\ IF deadline > now THEN until' = deadline ELSE until' = NoDeadline
    /\ order' = IF deadline > now THEN "scheduled" ELSE "resume"
    /\ seenExpired' = FALSE
    /\ UNCHANGED <<paymentPause, clock>>

SetPaymentPaused(value) ==
    /\ payPaused' = value
    /\ payUntil' = NoDeadline
    /\ UNCHANGED <<registryPause, clock, order, seenExpired>>

SetPaymentPausedUntil(deadline) ==
    /\ payPaused' = (deadline > now)
    /\ payUntil' = IF deadline > now THEN deadline ELSE NoDeadline
    /\ UNCHANGED <<registryPause, clock, order, seenExpired>>

---------------------------------------------------------------------------
(* The calls that look at the pauses *)

\* What pause_is_active clears when it finds the deadline passed.
LatchExpiry_Forgotten == UNCHANGED registryPause
LatchExpiry ==
    IF paused /\ ~PauseActive
    THEN paused' = FALSE /\ until' = NoDeadline
    ELSE UNCHANGED registryPause

Observe ==
    /\ LatchExpiry
    /\ seenExpired' = (seenExpired \/ (order = "scheduled" /\ ~PauseActive))
    /\ UNCHANGED <<paymentPause, clock, order>>

\* is_paused, invoked
IsPaused == Observe

\* A catalog or role-holder mutation that passes require_not_paused.
GatedCall == ~PauseActive /\ Observe

\* A payment, refund, anchor or lease call that passes both guards.
PaymentCall == ~PauseActive /\ ~PaymentActive /\ Observe

---------------------------------------------------------------------------
(* Ledger time *)

Tick ==
    /\ now < MaxTime
    /\ now' = now + 1
    /\ UNCHANGED <<registryPause, paymentPause, rollbacks, order, seenExpired>>

RollBack(earlier) ==
    /\ rollbacks < MaxRollbacks
    /\ earlier < now
    /\ now' = earlier
    /\ rollbacks' = rollbacks + 1
    /\ UNCHANGED <<registryPause, paymentPause, order, seenExpired>>

AdminOrder ==
    \/ \E value \in BOOLEAN : SetPaused(value) \/ SetPaymentPaused(value)
    \/ \E deadline \in Times : SetPausedUntil(deadline) \/ SetPaymentPausedUntil(deadline)

PausesNext ==
    \/ AdminOrder
    \/ IsPaused
    \/ GatedCall
    \/ PaymentCall
    \/ Tick
    \/ \E earlier \in Times : RollBack(earlier)

\* The network keeps closing ledgers, and each has a later timestamp; a
\* behaviour goes back at most MaxRollbacks times.
PausesSpec == PausesInit /\ [][PausesNext]_pauseVars /\ WF_pauseVars(Tick)

---------------------------------------------------------------------------
(* Properties *)

PausesTypeOK ==
    /\ paused \in BOOLEAN /\ payPaused \in BOOLEAN /\ seenExpired \in BOOLEAN
    /\ until \in Times \cup {NoDeadline} /\ payUntil \in Times \cup {NoDeadline}
    /\ now \in Times /\ rollbacks \in 0 .. MaxRollbacks
    /\ order \in {"resume", "indefinite", "scheduled"}

\* Once a scheduled deadline is observed expired, the effective pause state
\* never oscillates back to active, whatever the ledger timestamp does, until
\* the admin orders another pause (pause_is_active).
ExpiryIsFinal == seenExpired => ~PauseActive

\* The pause in effect is the one ordered last: an indefinite pause is never
\* cut short by the deadline of an earlier schedule or by a call that looks
\* at it, a resumed registry is never paused, and pause_until() reports a
\* deadline only under a schedule.
LastOrderHolds ==
    /\ order = "indefinite" => PauseActive
    /\ order = "resume" => ~PauseActive
    /\ until # NoDeadline => paused /\ order = "scheduled"

\* A scheduled pause ends without another transaction: the deadline is
\* reached, or the admin replaces it.  The same of the payment pause.
ScheduledPausesEnd ==
    \A deadline \in Times :
        /\ PauseActive /\ until = deadline ~> ~PauseActive \/ until # deadline
        /\ PaymentActive /\ payUntil = deadline ~> ~PaymentActive \/ payUntil # deadline
=============================================================================
