------------------------------ MODULE MintRuns ------------------------------
(***************************************************************************)
(* scripts/dmint_v2_mainnet_run.py: a dMint deploy and its first mint as   *)
(* four stages, each a process of its own that loads the state file at its *)
(* start and writes all of it at its end.  The operator runs any stage at  *)
(* any time, in two terminals, and any process may die or raise at any     *)
(* await.                                                                  *)
(*                                                                         *)
(* A fan-out is the three outputs of one prepare (two genesis outputs and  *)
(* the funding), named by its number, which also stands for its seed.  A   *)
(* mint is named by its miner key.                                         *)
(***************************************************************************)
EXTENDS Integers, FiniteSets

CONSTANTS
  Procs,      \* terminals
  MaxFanouts, \* bound on runs of prepare
  MaxKeys     \* bound on runs of mine

VARIABLES
  allowed,   \* what the node's policy says of the deploy
  proc,      \* a terminal: its stage, how far it is, the dict it holds
  mintFile,  \* the state file
  fanouts,   \* fan-outs broadcast
  deployed,  \* fan-outs whose deploy was accepted
  mints,     \* mints accepted: [fan, key]
  minerKeys, \* miner keys drawn
  overrun    \* history: a stage was run again after the one it prepares, or
             \* wrote over what another process had saved meanwhile

mintVars == <<allowed, proc, mintFile, fanouts, deployed, mints, minerKeys, overrun>>

NoDict == [fan |-> 0, sent |-> FALSE, minerKey |-> 0, mint |-> 0]
IdleStage == [stage |-> "idle", pc |-> "idle", st |-> NoDict]
FanMinted(fan) == \E x \in mints : x.fan = fan

MintInit ==
  /\ allowed \in BOOLEAN
  /\ proc = [p \in Procs |-> IdleStage]
  /\ mintFile = NoDict
  /\ fanouts = 0 /\ deployed = {} /\ mints = {} /\ minerKeys = 0 /\ overrun = FALSE

StageAt(p, stage, pc) == proc[p].stage = stage /\ proc[p].pc = pc
Set(p, stage, pc, st) == proc' = [proc EXCEPT ![p] = [stage |-> stage, pc |-> pc, st |-> st]]
Done(p) == proc' = [proc EXCEPT ![p] = IdleStage]

(* The process dies, an RPC raises, mining times out, or sys.exit.         *)
Stops(p) ==
  /\ proc[p] # IdleStage /\ Done(p)
  /\ UNCHANGED <<allowed, mintFile, fanouts, deployed, mints, minerKeys, overrun>>

(* prepare: the fan-out is sent under a fresh seed; its answer may be      *)
(* lost.                                                                   *)
Fanout(p, lost) ==
  /\ proc[p] = IdleStage /\ fanouts < MaxFanouts
  /\ fanouts' = fanouts + 1
  /\ IF lost THEN UNCHANGED proc
     ELSE Set(p, "prepare", "built", [NoDict EXCEPT !.fan = fanouts + 1])
  /\ UNCHANGED <<allowed, mintFile, deployed, mints, minerKeys, overrun>>

(* The deploy is built and signed, asked about and saved, with the funding *)
(* output's seed and without those of the genesis outputs, whatever the    *)
(* answer.                                                                 *)
PrepareSave(p) ==
  /\ StageAt(p, "prepare", "built")
  /\ mintFile' = proc[p].st /\ overrun' = (overrun \/ mintFile.fan # 0)
  /\ Done(p)
  /\ UNCHANGED <<allowed, fanouts, deployed, mints, minerKeys>>

(* send-deploy: the file's deploy, whatever testmempoolaccept said.        *)
SendDeploy(p) ==
  /\ proc[p] = IdleStage /\ mintFile.fan # 0
  /\ IF allowed /\ mintFile.fan \notin deployed
     THEN /\ deployed' = deployed \cup {mintFile.fan}
          /\ Set(p, "send-deploy", "sent", [mintFile EXCEPT !.sent = TRUE])
     ELSE UNCHANGED <<deployed, proc>>
  /\ UNCHANGED <<allowed, mintFile, fanouts, mints, minerKeys, overrun>>

SendDeploySave(p) ==
  /\ StageAt(p, "send-deploy", "sent")
  /\ mintFile' = proc[p].st /\ Done(p)
  /\ overrun' = (overrun \/ mintFile.fan # proc[p].st.fan \/ mintFile.mint # proc[p].st.mint)
  /\ UNCHANGED <<allowed, fanouts, deployed, mints, minerKeys>>

(* mine: loads the file and grinds for up to forty minutes.                *)
Mine(p) ==
  /\ proc[p] = IdleStage /\ mintFile.fan # 0 /\ minerKeys < MaxKeys
  /\ minerKeys' = minerKeys + 1
  /\ Set(p, "mine", "grinding", [mintFile EXCEPT !.minerKey = minerKeys + 1])
  /\ UNCHANGED <<allowed, mintFile, fanouts, deployed, mints, overrun>>

(* Mutation: the key of a mint that is not allowed yet is not kept.        *)
MineSaveIfAllowed(p) ==
  /\ StageAt(p, "mine", "grinding")
  /\ LET st == proc[p].st
     IN mintFile' = [st EXCEPT !.mint = st.minerKey,
                   !.minerKey = IF st.fan \in deployed THEN st.minerKey ELSE mintFile.minerKey]
  /\ Done(p)
  /\ overrun' = (overrun \/ mintFile.fan # proc[p].st.fan \/ FanMinted(mintFile.fan))
  /\ UNCHANGED <<allowed, fanouts, deployed, mints, minerKeys>>

(* The mint is signed, asked about, and saved with its key, whatever the   *)
(* answer.                                                                 *)
MineSave(p) ==
  /\ StageAt(p, "mine", "grinding")
  /\ mintFile' = [proc[p].st EXCEPT !.mint = proc[p].st.minerKey]
  /\ Done(p)
  /\ overrun' = (overrun \/ mintFile.fan # proc[p].st.fan \/ FanMinted(mintFile.fan))
  /\ UNCHANGED <<allowed, fanouts, deployed, mints, minerKeys>>

(* send-mint: the node takes it if the contract and the funding output are *)
(* there and unspent.                                                      *)
SendMint(p) ==
  /\ proc[p] = IdleStage /\ mintFile.mint # 0
  /\ IF mintFile.fan \in deployed /\ ~FanMinted(mintFile.fan)
     THEN /\ mints' = mints \cup {[fan |-> mintFile.fan, key |-> mintFile.mint]}
          /\ Set(p, "send-mint", "sent", mintFile)
     ELSE UNCHANGED <<mints, proc>>
  /\ UNCHANGED <<allowed, mintFile, fanouts, deployed, minerKeys, overrun>>

SendMintSave(p) ==
  /\ StageAt(p, "send-mint", "sent")
  /\ mintFile' = proc[p].st /\ Done(p)
  /\ UNCHANGED <<allowed, fanouts, deployed, mints, minerKeys, overrun>>

MintNext ==
  \E p \in Procs :
    \/ Stops(p) \/ Fanout(p, TRUE) \/ Fanout(p, FALSE) \/ PrepareSave(p)
    \/ SendDeploy(p) \/ SendDeploySave(p) \/ Mine(p) \/ MineSave(p)
    \/ SendMint(p) \/ SendMintSave(p)

MintSpec == MintInit /\ [][MintNext]_mintVars

----------------------------------------------------------- (* properties *)

(* What a fan-out's outputs became is within reach: the genesis outputs    *)
(* come back through the signed deploy, the funding through its seed, the  *)
(* reward of a mint through its key.                                       *)
Reachable(fan) ==
  /\ fan \in deployed \/ (allowed /\ mintFile.fan = fan)
  /\ FanMinted(fan) \/ mintFile.fan = fan
  /\ \A x \in mints : x.fan = fan => mintFile.minerKey = x.key

(* From the moment prepare has saved an allowed deploy, no process that    *)
(* dies or raises anywhere strands what the fan-out paid for, in whatever  *)
(* order the later stages are run or overlap, unless one of them writes    *)
(* over another's state.                                                   *)
SavedIsReachable ==
  ~overrun /\ mintFile.fan # 0 /\ allowed => Reachable(mintFile.fan)

(* dmint_v2_mainnet_run.py:10: "allowed=false => we stop, nothing sent, no *)
(* value lost".  The fan-out was sent before the question, and the seeds   *)
(* of its genesis outputs are in no file.                                  *)
RefusalLosesNothing == mintFile.fan # 0 => Reachable(mintFile.fan)

(* dmint_v2_mainnet_run.py:270: the miner key is saved "so the FT reward + *)
(* mint change are recoverable".  Another mine writes its own key over it. *)
RewardIsRecoverable == \A x \in mints : x.fan = mintFile.fan => mintFile.minerKey = x.key
=============================================================================
