------------------------------ MODULE MCTowers ------------------------------
(* Who asks assess_claim_finality, each by itself.  The taker's gate runs  *)
(* over BTC and ETH policies with flat and value-scaled burial, whose      *)
(* intervals do not divide each other, so that every rounding matters.     *)
(* A watchtower with its executors armed has one BTC swap, two Radiant     *)
(* sources that may lag by a block or be down, and three wirings.  Another *)
(* watches an ETH swap whose checkpoints are two blocks apart and whose    *)
(* stall takes two blocks and a gap of three.  Each keeps a first state    *)
(* while another runs.                                                     *)
EXTENDS ArmedTower, FinalityGate, EthTower

VARIABLE component

mcVars == <<component, gateVars, ethVars, vars>>

Base ==
  [block_interval_s |-> 600, rxd_block_interval_s |-> 270,
   margin |-> Blocks(2),
   btc_claim_reorg_depth |-> Blocks(2), rxd_claim_burial |-> Blocks(2),
   rxd_reorg_cost_per_block |-> None, value_at_risk_photons |-> None,
   burial_safety_factor |-> <<1, 1>>,
   eth_finalization_window_s |-> None]

BtcPolicies ==
  {Base,
   [Base EXCEPT !.btc_claim_reorg_depth = Blocks(3), !.rxd_block_interval_s = 700],
   [Base EXCEPT !.rxd_reorg_cost_per_block = 3, !.value_at_risk_photons = 7],
   [Base EXCEPT !.rxd_reorg_cost_per_block = 4, !.burial_safety_factor = <<3, 2>>],
   [Base EXCEPT !.btc_claim_reorg_depth = Seconds(1800)]}

EthPolicies ==
  {[Base EXCEPT !.eth_finalization_window_s = 800],
   [Base EXCEPT !.eth_finalization_window_s = 1100, !.rxd_reorg_cost_per_block = 5,
                !.burial_safety_factor = <<5, 4>>]}

TowerPolicy == [Base EXCEPT !.rxd_block_interval_s = 300, !.margin = Blocks(1)]

Wired ==
  [claimArmed |-> TRUE, refundArmed |-> TRUE, acceptSingle |-> FALSE, blob |-> "valid",
   valueBearing |-> TRUE, amount |-> 4, dustCeiling |-> 9, acceptUnbounded |-> FALSE,
   reorgCost |-> 3, safetyFactor |-> <<1, 1>>,
   mempoolAware |-> TRUE, seenWired |-> FALSE, corroborate |-> TRUE]

MCWirings ==
  {Wired,
   [Wired EXCEPT !.mempoolAware = FALSE, !.seenWired = TRUE],
   [Wired EXCEPT !.corroborate = FALSE, !.amount = 7, !.blob = "foreign"]}

MCFeePool == <<2, 2, 2>>

MCPolicies == BtcPolicies \cup EthPolicies
MCValues == {None, 1, 6, 11, 16}

EthTowerPolicy == [TowerPolicy EXCEPT !.eth_finalization_window_s = 800]

(* A component that does not run.                                          *)
NoGate == GateInit /\ policy = Base /\ value = None /\ tRxd = 6
NoEthTower == EthInit /\ claimEvent = "Claimed"
Unarmed == Init /\ wiring = Wired

MCInit ==
  \/ component = "gate" /\ GateInit /\ NoEthTower /\ Unarmed
  \/ component = "armed" /\ Init /\ NoGate /\ NoEthTower
  \/ component = "eth" /\ EthInit /\ NoGate /\ Unarmed

MCNext ==
  \/ component = "gate" /\ GateNext /\ UNCHANGED <<component, ethVars, vars>>
  \/ component = "armed" /\ Next /\ UNCHANGED <<component, gateVars, ethVars>>
  \/ component = "eth" /\ EthNext /\ UNCHANGED <<component, gateVars, vars>>

MCSpec == MCInit /\ [][MCNext]_mcVars
=============================================================================
