-------------------------- MODULE MCAdministration --------------------------
(***************************************************************************)
(* Instance of Governance and Pauses for TLC.  Who the admin is and what   *)
(* the admin orders share no storage entry.  In a behaviour of the         *)
(* instance each moves only while the other has not begun, so that TLC     *)
(* explores the sum of their states and not the product.                   *)
(***************************************************************************)
EXTENDS Governance, Pauses

CONSTANTS alice, bob, carol

GovernanceStep == Next /\ PausesInit /\ UNCHANGED pauseVars
PausesStep(step) == step /\ Init /\ UNCHANGED vars

AdministrationInit == Init /\ PausesInit

AdministrationSpec ==
    /\ AdministrationInit
    /\ [][GovernanceStep \/ PausesStep(PausesNext)]_<<vars, pauseVars>>
    /\ WF_pauseVars(PausesStep(Tick))
=============================================================================
