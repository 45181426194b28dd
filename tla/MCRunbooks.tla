----------------------------- MODULE MCRunbooks -----------------------------
(* The scripts operators run, each by itself: the single-operator runners  *)
(* on a short covenant, the two-host harness with one operator that may    *)
(* run another program, the staged dMint deploy and the staged dust        *)
(* refund.  Each keeps a first state while another runs.                   *)
EXTENDS SwapRunner, TwoHost, MintRuns, DustRefund

VARIABLE component

mcVars == <<component, runnerVars, vars, mintVars, refundVars>>

MCPolicy ==
  [block_interval_s |-> 600, rxd_block_interval_s |-> 300,
   margin |-> Blocks(1),
   btc_claim_reorg_depth |-> Blocks(2), rxd_claim_burial |-> Blocks(2),
   rxd_reorg_cost_per_block |-> None, value_at_risk_photons |-> None,
   burial_safety_factor |-> <<1, 1>>,
   eth_finalization_window_s |-> 800]

(* Block times in order, out of order, and too few to measure from.        *)
MCObserved == {<<0, 600, 1200, 1800>>, <<3000, 0, 600, 1200>>, <<0, 600>>}

(* The operator's --resume-deadline-s; -2 stands for infinity.             *)
MCDeadlineArgs == {None, 300, 3600, Infinite}

NoRunner == RunnerInit /\ run.kind = "dust"
NoTwoHost == Init /\ foreign = "none"
NoMintRuns == MintInit /\ ~allowed

MCInit ==
  \/ component = "runner" /\ RunnerInit /\ NoTwoHost /\ NoMintRuns /\ RefundInit
  \/ component = "twohost" /\ NoRunner /\ Init /\ NoMintRuns /\ RefundInit
  \/ component = "mint" /\ NoRunner /\ NoTwoHost /\ MintInit /\ RefundInit
  \/ component = "refund" /\ NoRunner /\ NoTwoHost /\ NoMintRuns /\ RefundInit

Others == <<component, vars, mintVars, refundVars>>

MCNext ==
  \/ component = "runner" /\ RunnerNext /\ UNCHANGED Others
  \/ component = "twohost" /\ Next /\ UNCHANGED <<component, runnerVars, mintVars, refundVars>>
  \/ component = "mint" /\ MintNext /\ UNCHANGED <<component, runnerVars, vars, refundVars>>
  \/ component = "refund" /\ RefundNext /\ UNCHANGED <<component, runnerVars, vars, mintVars>>

(* The fairness of FairRunnerSpec, where the runner runs.                  *)
MCSpec ==
  /\ MCInit /\ [][MCNext]_mcVars
  /\ WF_mcVars(component = "runner" /\ RunnerBlock /\ UNCHANGED Others)
  /\ WF_mcVars(component = "runner" /\ DeadlineExceeded /\ UNCHANGED Others)
  /\ WF_mcVars(component = "runner" /\ run.kind # "dust" /\ TakerClaims
               /\ UNCHANGED Others)

(* Value locked by a runner is always covered by its keys file, a resumed  *)
(* run works on the HTLC that file pins, and the reorg gate never counts   *)
(* from a block after the covenant's; what a mint run has saved stays      *)
(* within reach; and what the keyless tower may send for a dust refund,    *)
(* the network takes.                                                      *)
RunnerIsRecoverable ==
  /\ KeysBeforeValue /\ ResumesItsHtlc /\ GateClockBehindLock
  /\ SavedIsReachable
  /\ AuthorizedIsAccepted /\ PrintedIsRefundable
=============================================================================
