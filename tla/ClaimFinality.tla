--------------------------- MODULE ClaimFinality ---------------------------
(***************************************************************************)
(* The pure decisions of gravity/swap_coordinator.py, gravity/finality.py  *)
(* and gravity/eth_rxd_timelock.py that gate the coordinator's             *)
(* money-moving steps: the reorg-finality gate on the taker's asset claim, *)
(* value-scaled burial and its inverse, the timelock ordering gates.       *)
(*                                                                         *)
(* Heights, confirmations, seconds and photons are integers.  Intervals    *)
(* are whole seconds; burial_safety_factor, a float the code turns into an *)
(* exact Fraction, is a rational <<numerator, denominator>>.  A Python     *)
(* None is None; a raised ValidationError is the result "RAISE".           *)
(***************************************************************************)
EXTENDS Integers

None == -1

CeilDiv(a, b) == (a + b - 1) \div b

MaxOf(a, b) == IF a >= b THEN a ELSE b

------------------------------------------------------------ (* timelocks *)

Blocks(n)  == [value |-> n, unit |-> "BLOCKS"]
Seconds(n) == [value |-> n, unit |-> "SECONDS"]

(* Timelock.normalize_to(BLOCKS): floor division for a SECONDS value. *)
NormalizeToBlocks(t, interval) ==
  IF t.unit = "BLOCKS" THEN t.value ELSE t.value \div interval

(* _reserve_to_blocks: a reserve rounds up. *)
ReserveToBlocks(t, interval) ==
  IF t.unit = "BLOCKS" THEN t.value ELSE CeilDiv(t.value, interval)

Timelocks == [value : Nat, unit : {"BLOCKS", "SECONDS"}]

(* The fields of a MarginPolicy.  The factor is a positive rational.       *)
MarginPolicies ==
  [block_interval_s : Nat, rxd_block_interval_s : Nat, margin : Timelocks,
   btc_claim_reorg_depth : Timelocks, rxd_claim_burial : Timelocks,
   rxd_reorg_cost_per_block : Nat \cup {None}, value_at_risk_photons : Nat \cup {None},
   burial_safety_factor : (Nat \ {0}) \X (Nat \ {0}),
   eth_finalization_window_s : Nat \cup {None}]

MinReorgDepthBlocks == 2
MinEthFinalizationWindow == 768

(* MarginPolicy.__post_init__: what a policy object that exists satisfies. *)
PolicyOK(p) ==
  /\ p.block_interval_s > 0
  /\ p.rxd_block_interval_s > 0
  /\ NormalizeToBlocks(p.btc_claim_reorg_depth, p.block_interval_s) >= MinReorgDepthBlocks
  /\ NormalizeToBlocks(p.rxd_claim_burial, p.block_interval_s) >= MinReorgDepthBlocks
  /\ p.rxd_reorg_cost_per_block = None \/ p.rxd_reorg_cost_per_block > 0
  /\ p.value_at_risk_photons = None \/ p.value_at_risk_photons > 0
  /\ p.burial_safety_factor[1] >= p.burial_safety_factor[2]
  /\ \/ p.eth_finalization_window_s = None
     \/ p.eth_finalization_window_s >= MinEthFinalizationWindow

(* assert_timelock_margin: TRUE iff it returns without raising. *)
TimelockMarginOK(tBtc, tRxd, p) ==
  LET btc == NormalizeToBlocks(tBtc, p.block_interval_s)
      rxd == NormalizeToBlocks(tRxd, p.block_interval_s)
  IN  /\ btc > rxd
      /\ btc - rxd >= NormalizeToBlocks(p.margin, p.block_interval_s)

(* assert_covenant_confirms_before_eth_deadline: TRUE iff it returns. *)
CovenantConfirmsBeforeEthDeadline(now, ethTimeout, margin, tRxd, rxdInterval, wait) ==
  now + wait + tRxd.value * rxdInterval < ethTimeout - margin

(* taker_refund_window_open. *)
TakerRefundWindowOpen(now, lockedAt, tRxd, safetyWindow, makerHasClaimed, interval) ==
  /\ ~makerHasClaimed
  /\ now >= lockedAt + NormalizeToBlocks(tRxd, interval) - safetyWindow

------------------------------------------------- (* value-scaled burial *)

(* Mutation: the float division's floor.                                   *)
FlooredBurialBlocks(p, value) ==
  IF p.rxd_reorg_cost_per_block = None \/ value = None THEN 0
  ELSE (value * p.burial_safety_factor[1])
         \div (p.burial_safety_factor[2] * p.rxd_reorg_cost_per_block)

(* _value_scaled_burial_blocks. *)
ValueScaledBurialBlocks(p, value) ==
  IF p.rxd_reorg_cost_per_block = None \/ value = None THEN 0
  ELSE CeilDiv(value * p.burial_safety_factor[1],
               p.burial_safety_factor[2] * p.rxd_reorg_cost_per_block)

(* max_protected_value. *)
MaxProtectedValue(burial, cost, factor) == (burial * cost * factor[2]) \div factor[1]

----------------------------------------------- (* the reorg-finality gate *)

(* Mutation: off by one at the required depth.                             *)
OffByOneBtcDepth(confirmations, depth) ==
  [state |-> IF confirmations + 1 >= depth THEN "FINAL" ELSE "NOT_YET_FINAL_LIVE",
   confirmations |-> confirmations, required_depth |-> depth]

(* CounterClaimFinality.from_btc_depth. *)
FromBtcDepth(confirmations, depth) ==
  [state |-> IF confirmations >= depth THEN "FINAL" ELSE "NOT_YET_FINAL_LIVE",
   confirmations |-> confirmations, required_depth |-> depth]

(* EthHtlcLeg.claim_finality_verdict: final iff mined at or below the      *)
(* finalized checkpoint, and no depth.                                     *)
FromEthCheckpoint(final) ==
  [state |-> IF final THEN "FINAL" ELSE "NOT_YET_FINAL_LIVE",
   confirmations |-> None, required_depth |-> None]

RemainingPositive(v) ==
  \/ v.confirmations = None
  \/ v.required_depth = None
  \/ v.required_depth - v.confirmations > 0

(* The depth a coordinator, the watchtower's decide() and the claim        *)
(* executor hand to from_btc_depth: normalize_to, hence the floor.         *)
VerdictDepth(p) == NormalizeToBlocks(p.btc_claim_reorg_depth, p.block_interval_s)

(* Mutation: the flat burial only.                                         *)
FlatBurial(p, value) == ReserveToBlocks(p.rxd_claim_burial, p.block_interval_s)

RequiredBurial(p, value) ==
  MaxOf(ReserveToBlocks(p.rxd_claim_burial, p.block_interval_s),
        ValueScaledBurialBlocks(p, value))

(* Mutation: a reserve rounded down.                                       *)
FlooredCounterReserve(v, p) ==
  IF v.required_depth # None
  THEN (v.required_depth * p.block_interval_s) \div p.rxd_block_interval_s
  ELSE p.eth_finalization_window_s \div p.rxd_block_interval_s

(* Mutation: only the depth that is still missing is reserved.             *)
RemainingCounterReserve(v, p) ==
  IF v.required_depth # None
  THEN CeilDiv((v.required_depth - v.confirmations) * p.block_interval_s,
               p.rxd_block_interval_s)
  ELSE CeilDiv(p.eth_finalization_window_s, p.rxd_block_interval_s)

(* Radiant blocks that the counter chain may still need to finalize.       *)
CounterReserveRxd(v, p) ==
  IF v.required_depth # None
  THEN CeilDiv(v.required_depth * p.block_interval_s, p.rxd_block_interval_s)
  ELSE CeilDiv(p.eth_finalization_window_s, p.rxd_block_interval_s)

(* Mutation: counts the block at which the refund opens.                   *)
GenerousBlocksLeft(now, lockedAt, tRxd, p) ==
  lockedAt + NormalizeToBlocks(tRxd, p.block_interval_s) - now + 1

BlocksLeft(now, lockedAt, tRxd, p) ==
  lockedAt + NormalizeToBlocks(tRxd, p.block_interval_s) - now

(* assess_claim_finality, in the order the code tests.                     *)
AssessClaimFinality(v, now, lockedAt, tRxd, p, value) ==
  LET effective == IF value # None THEN value ELSE p.value_at_risk_photons
      burial    == RequiredBurial(p, effective)
      left      == BlocksLeft(now, lockedAt, tRxd, p)
      depth     == ReserveToBlocks(p.btc_claim_reorg_depth, p.block_interval_s)
  IN  IF now < lockedAt THEN "RAISE"
      ELSE IF p.rxd_reorg_cost_per_block # None /\ effective = None THEN "SQUEEZED"
      ELSE IF v.state = "COUNTER_CHAIN_NOT_FINALIZING" THEN "SQUEEZED"
      ELSE IF v.state = "FINAL"
           THEN IF left >= burial THEN "SAFE" ELSE "SQUEEZED"
      ELSE IF v.required_depth # None /\ v.required_depth # depth THEN "RAISE"
      ELSE IF v.required_depth = None /\ p.eth_finalization_window_s = None THEN "RAISE"
      ELSE IF left - CounterReserveRxd(v, p) >= burial /\ RemainingPositive(v)
           THEN "WAIT" ELSE "SQUEEZED"
=============================================================================
