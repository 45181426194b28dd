---------------------------- MODULE FinalityGate ----------------------------
(***************************************************************************)
(* The taker's polling loop around assess_claim_finality: the secret is    *)
(* public, both chains grow, and the gate is asked again and again whether *)
(* the asset may be claimed.  One behaviour has one policy, one value at   *)
(* risk and one t_rxd; age is the Radiant height above the block that      *)
(* locked the covenant.  The names of the specification start with Gate,   *)
(* so that a module can extend this one beside another specification.      *)
(***************************************************************************)
EXTENDS ClaimFinality

CONSTANTS Policies,     \* MarginPolicy objects a swap may be run with
          Values,       \* value_at_risk_photons of an assessment, or None
          TRxds,        \* t_rxd, in Radiant blocks
          MaxAge,       \* bound: Radiant blocks after the lock
          MaxConfs      \* bound: confirmations of the maker's claim

ASSUME GateConstants ==
  /\ Policies \subseteq MarginPolicies
  /\ Values \subseteq Nat \cup {None}
  /\ TRxds \subseteq Nat /\ MaxAge \in Nat /\ MaxConfs \in Nat

VARIABLES policy, value, tRxd,
          age,          \* now_rxd_height - asset_locked_at_height
          confs,        \* confirmations; for an ETH claim, 1 once finalized
          verdict,      \* the last answer of the gate
          waitAge       \* age at the last WAIT answer, or None

gateVars == <<policy, value, tRxd, age, confs, verdict, waitAge>>

Verdicts == {"none", "SAFE", "WAIT", "SQUEEZED", "RAISE"}

(* A policy with an ETH finalization window judges an ETH counter leg.     *)
CounterIsEth == policy.eth_finalization_window_s # None

CounterVerdict ==
  IF CounterIsEth THEN FromEthCheckpoint(confs >= 1)
  ELSE FromBtcDepth(confs, VerdictDepth(policy))

Assessment ==
  AssessClaimFinality(CounterVerdict, age, 0, Blocks(tRxd), policy, value)

GateTypeOK ==
  /\ policy \in Policies
  /\ value \in Values
  /\ tRxd \in TRxds
  /\ age \in 0 .. MaxAge
  /\ confs \in 0 .. MaxConfs
  /\ verdict \in Verdicts
  /\ waitAge \in {None} \cup 0 .. MaxAge

GateInit ==
  /\ policy \in {p \in Policies : PolicyOK(p)}
  /\ value \in Values
  /\ tRxd \in TRxds
  /\ age = 0 /\ confs = 0 /\ verdict = "none" /\ waitAge = None

Poll ==
  /\ verdict' = Assessment
  /\ waitAge' = IF Assessment = "WAIT" THEN age ELSE waitAge
  /\ UNCHANGED <<policy, value, tRxd, age, confs>>

GateRxdBlock ==
  /\ age < MaxAge
  /\ age' = age + 1
  /\ UNCHANGED <<policy, value, tRxd, confs, verdict, waitAge>>

CounterBlock ==
  /\ confs < MaxConfs
  /\ confs' = confs + 1
  /\ UNCHANGED <<policy, value, tRxd, age, verdict, waitAge>>

(* A claim that is not reorg-deep may lose confirmations again.            *)
CounterReorg ==
  /\ CounterVerdict.state # "FINAL"
  /\ confs' \in 0 .. confs - 1
  /\ UNCHANGED <<policy, value, tRxd, age, verdict, waitAge>>

GateNext == Poll \/ GateRxdBlock \/ CounterBlock \/ CounterReorg

GateSpec == GateInit /\ [][GateNext]_gateVars
-----------------------------------------------------------------------------
(* Radiant blocks that pass while the counter chain, at the policy's       *)
(* rates, produces what it needs for finality.                             *)
FinalizationTime ==
  IF CounterIsEth THEN policy.eth_finalization_window_s
  ELSE ReserveToBlocks(policy.btc_claim_reorg_depth, policy.block_interval_s)
         * policy.block_interval_s

(* A WAIT is never a trap: if the gate said WAIT and the counter chain     *)
(* then finalized the claim within the time the policy allots to it (the   *)
(* current block started at most one interval before that time is over),   *)
(* the gate says SAFE, so waiting never walked the taker into a window     *)
(* too short to bury its own claim (assess_claim_finality).                *)
WaitPaysOff ==
  /\ waitAge # None
  /\ CounterVerdict.state = "FINAL"
  /\ (age - waitAge - 1) * policy.rxd_block_interval_s < FinalizationTime
  => Assessment = "SAFE"

(* Once the gate has said SQUEEZED it never says WAIT again, however the   *)
(* claim's depth moves: the reserve is the full depth, not what is left of *)
(* it, so the ASSET_VULNERABLE the coordinator records is not premature.   *)
NoWaitAfterSqueezed == [][verdict = "SQUEEZED" => verdict' # "WAIT"]_gateVars

(* max_protected_value is the exact inverse of _value_scaled_burial_blocks *)
(* at the same cost and factor: a burial protects a value iff it is at     *)
(* least the burial that the value asks for.                               *)
BurialInverse ==
  (policy.rxd_reorg_cost_per_block # None /\ value # None) =>
    \A b \in 1 .. MaxAge :
      (value <= MaxProtectedValue(b, policy.rxd_reorg_cost_per_block,
                                  policy.burial_safety_factor))
        <=> (ValueScaledBurialBlocks(policy, value) <= b)

(* A claim certified SAFE while value scaling is configured can be buried  *)
(* before the CSV refund opens so deep that reversing it costs more than   *)
(* the value at risk times the factor.                                     *)
SafeClaimOutspends ==
  /\ Assessment = "SAFE"
  /\ policy.rxd_reorg_cost_per_block # None
  => LET v == IF value # None THEN value ELSE policy.value_at_risk_photons
     IN  v * policy.burial_safety_factor[1]
           <= BlocksLeft(age, 0, Blocks(tRxd), policy)
                * policy.rxd_reorg_cost_per_block * policy.burial_safety_factor[2]

(* Burial by value: what SAFE certifies outspends the value at risk, and   *)
(* the limit an operator reads off a burial (max_protected_value) is the   *)
(* same rule read backwards.                                               *)
BurialIsWorthIt == SafeClaimOutspends /\ BurialInverse
=============================================================================
