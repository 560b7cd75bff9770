-------------------------------- MODULE Fees --------------------------------
(***************************************************************************)
(* The fee configuration of the vault-registry contract: the rates, the    *)
(* account that receives the platform's share, the burn or charity route,  *)
(* and the fees settled but not yet acknowledged by claim_fees.            *)
(*                                                                         *)
(* All calls are the admin's.  Who that is, and the pause that refuses the *)
(* calls, is the subject of Governance and of Pauses.  Basis points are    *)
(* scaled: FeeDenom stands for 10000 and MaxFeeBps for 5000.               *)
(***************************************************************************)
EXTENDS Naturals, Integers

CONSTANTS
    Accounts,       \* accounts that own, pay and receive fees
    NoAccount,      \* no fee recipient
    NoFeeConfig,    \* set_fee_config has never been called
    FeeDenom,       \* FEE_BPS_DENOM, and MAX_FEE_DESTINATION_BPS
    MaxFeeBps,      \* MAX_FEE_BPS
    FeeRates,       \* the rates, in bps, the admin may ask for
    DestinationRates

ASSUME FeesAssumption ==
    /\ NoAccount \notin Accounts
    /\ FeeDenom \in Nat \ {0}
    /\ MaxFeeBps \in 0 .. FeeDenom
    /\ FeeRates \subseteq Nat /\ DestinationRates \subseteq Nat

FeeConfigs   == [platform : FeeRates, royalty : FeeRates, recipient : Accounts \cup {NoAccount}]
Destinations == [bps : DestinationRates, route : {"None", "Burn", "Charity"}]

ASSUME FeeConfigAssumption == NoFeeConfig \notin FeeConfigs

VARIABLES
    feeConfig,      \* FeeConfig
    destination,    \* FeeDestination
    accrued,        \* AccruedFees
    due             \* history: the fees settled for each account and not claimed

feeVars == <<feeConfig, destination, accrued, due>>

FeesInit ==
    /\ feeConfig = NoFeeConfig
    /\ destination = [bps |-> 0, route |-> "None"]
    /\ accrued = 0
    /\ due = [a \in Accounts |-> 0]

\* validate_fee_destination: a share is routed somewhere, no share nowhere.
RouteValid(dest) ==
    /\ dest.bps <= FeeDenom
    /\ dest.route = "None" <=> dest.bps = 0

\* validate_fee_destination_for_fee_config: there is a platform fee to route,
\* and somebody to receive what the route leaves.
RouteFits_AnyRecipient(config, dest) ==
    /\ RouteValid(dest)
    /\ dest.bps > 0 => config.platform > 0
RouteFits(config, dest) ==
    /\ RouteValid(dest)
    /\ dest.bps > 0 =>
          /\ config.platform > 0
          /\ dest.bps < FeeDenom => config.recipient # NoAccount

\* require_no_unclaimed_fees
NoUnclaimedFees == accrued = 0

\* Another recipient only when the present one has been paid.
MayName_Anyone(recipient) == TRUE
MayName(recipient) ==
    feeConfig # NoFeeConfig /\ feeConfig.recipient # recipient => NoUnclaimedFees

SetFeeConfig(config) ==
    /\ config.platform + config.royalty <= MaxFeeBps     \* and so is each rate
    /\ RouteFits(config, destination)
    /\ MayName(config.recipient)
    /\ feeConfig' = config
    /\ UNCHANGED <<destination, accrued, due>>

SetFeeRecipient(recipient) ==
    /\ feeConfig # NoFeeConfig
    /\ MayName(recipient)
    /\ RouteFits([feeConfig EXCEPT !.recipient = recipient], destination)
    /\ feeConfig' = [feeConfig EXCEPT !.recipient = recipient]
    /\ UNCHANGED <<destination, accrued, due>>

SetFeeDestination(dest) ==
    /\ feeConfig # NoFeeConfig
    /\ RouteFits(feeConfig, dest)
    /\ NoUnclaimedFees
    /\ destination' = dest
    /\ UNCHANGED <<feeConfig, accrued, due>>

ClaimFees ==
    /\ accrued' = 0
    /\ due' = [a \in Accounts |-> 0]
    /\ UNCHANGED <<feeConfig, destination>>

FeesNext ==
    \/ \E config \in FeeConfigs : SetFeeConfig(config)
    \/ \E recipient \in Accounts \cup {NoAccount} : SetFeeRecipient(recipient)
    \/ \E dest \in Destinations : SetFeeDestination(dest)
    \/ ClaimFees

---------------------------------------------------------------------------
(* What the payment path asks of the configuration *)

\* The part of settle_payment that accrues the platform's fee, truncated.
AccrueFees(amount) ==
    /\ IF feeConfig # NoFeeConfig /\ feeConfig.recipient # NoAccount
       THEN LET fee == (amount * feeConfig.platform) \div FeeDenom
            IN  /\ accrued' = accrued + fee
                /\ due' = [due EXCEPT ![feeConfig.recipient] = @ + fee]
       ELSE UNCHANGED <<accrued, due>>
    /\ UNCHANGED <<feeConfig, destination>>

CombinedFee == IF feeConfig = NoFeeConfig THEN 0 ELSE feeConfig.platform + feeConfig.royalty

---------------------------------------------------------------------------
(* Properties *)

FeesTypeOK ==
    /\ feeConfig \in FeeConfigs \cup {NoFeeConfig}
    /\ destination \in [bps : Nat, route : {"None", "Burn", "Charity"}]
    /\ accrued \in Nat
    /\ due \in [Accounts -> Nat]

\* Every unclaimed fee was settled for the account that is the recipient now:
\* no order of settlements, claims and changes of the configuration lets a
\* claim acknowledge to one account what was earned by another ("ensuring the
\* current recipient always has a chance to claim before the destination is
\* rotated").
FeesForCurrentRecipient ==
    /\ accrued > 0 => feeConfig # NoFeeConfig /\ feeConfig.recipient \in Accounts
    /\ \A a \in Accounts :
          due[a] = IF feeConfig # NoFeeConfig /\ feeConfig.recipient = a THEN accrued ELSE 0

\* The route stored in one entry always fits the configuration stored in the
\* other, whichever of the three setters wrote last.
RouteFeasible ==
    /\ destination.bps = 0 <=> destination.route = "None"
    /\ destination.bps > 0 =>
          /\ feeConfig # NoFeeConfig
          /\ feeConfig.platform > 0
          /\ destination.bps < FeeDenom => feeConfig.recipient \in Accounts
============================================================================
