------------------------- MODULE MCSwapCoordinator -------------------------
(* Small instances of SwapCoordinator: one BTC and one ETH policy, and the *)
(* steps of the operator's runbooks.                                       *)
EXTENDS SwapCoordinator

BtcPolicy ==
  [block_interval_s |-> 600, rxd_block_interval_s |-> 600,
   margin |-> Blocks(1),
   btc_claim_reorg_depth |-> Blocks(2), rxd_claim_burial |-> Blocks(2),
   rxd_reorg_cost_per_block |-> None, value_at_risk_photons |-> None,
   burial_safety_factor |-> <<1, 1>>,
   eth_finalization_window_s |-> None]

EthPolicy ==
  [BtcPolicy EXCEPT !.rxd_block_interval_s = 384, !.eth_finalization_window_s = 768]

(* scripts/dust_swap_run.py: everything but the maker-stall refund.        *)
DustRunbook == Steps \ {"stallRefund"}
FullRunbook == Steps
=============================================================================
