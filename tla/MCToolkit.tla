----------------------------- MODULE MCToolkit ------------------------------
(* What works for one party, each by itself: the Bitcoin and the Ethereum  *)
(* leg of a swap, the network clients, the signing agent, the HD wallet,   *)
(* the parallel miner, transactions and scripts, sealed content, partially *)
(* signed swaps, the records of swaps and proofs of inclusion. The modules *)
(* it EXTENDS keep a first state while another runs; any other variable    *)
(* the component that runs does not have is 0.                             *)
EXTENDS ElectrumX, BtcReaders, ParallelMiner, BtcLeg, EthLeg, SigningAgent, HdWallet,
        SealedContent, SwapRecords, Signing, TLC

VARIABLES
  component,
  s,
  coins, offers, ready, done,
  inputs, heap, beef, refused

scripts_vars == <<s>>
swap_vars == <<coins, offers, ready, done>>
proofs_vars == <<inputs, heap, beef, refused>>
mcVars == <<component, btcVars, ethVars, vars, readersVars, agentVars, walletVars, minerVars,
            signingVars, scripts_vars, sealVars, swap_vars, recordsVars, proofs_vars>>

MCTimeouts ==
  {[value |-> 2, unit |-> "blocks"], [value |-> 5, unit |-> "seconds"],
   [value |-> 9, unit |-> "seconds"]}

MCMethod == ("a" :> "get_transaction_verbose") @@ ("b" :> "get_tip_height")
MCAgentAmounts == (1 :> 1) @@ (2 :> 2)
MCFlags ==
  {[base |-> "all", acp |-> FALSE], [base |-> "none", acp |-> FALSE],
   [base |-> "single", acp |-> TRUE]}
MCRxd(n) == [kind |-> "rxd", amount |-> n, ref |-> 0]
MCFt(n, ref) == [kind |-> "ft", amount |-> n, ref |-> ref]
MCStart ==
  (<<0, 1>> :> [owner |-> "m", asset |-> MCFt(5, 1)])
    @@ (<<0, 2>> :> [owner |-> "t", asset |-> MCRxd(6)])
    @@ (<<0, 3>> :> [owner |-> "t", asset |-> MCFt(4, 2)])
    @@ (<<0, 4>> :> [owner |-> "u", asset |-> MCRxd(7)])
MCReceives == {MCRxd(3), MCFt(3, 2), MCFt(2, 1)}

MCTBtcs ==
  {[value |-> 1, unit |-> "BLOCKS"], [value |-> 2, unit |-> "BLOCKS"],
   [value |-> 1, unit |-> "SECONDS"]}
MCTRxds == {[value |-> 1, unit |-> "BLOCKS"], [value |-> 1, unit |-> "SECONDS"]}
MCDeadlines == {None, 0, 9}
MCChain ==
  <<[height |-> 1, txs |-> <<"a", "b", "c", "d", "e", "f">>],
    [height |-> 1, txs |-> <<"a", "x", "y", "z", "w">>], [height |-> 2, txs |-> <<"u", "v">>]>>

(* The first state of a component that does not run.                       *)
MCTimeout == CHOOSE l \in Timeouts : TimelockOk(l)
MCKey == CHOOSE k \in Keys : TRUE
MCArguments == CHOOSE a \in Arguments : a.counter_chain = "other"

S == INSTANCE Scripts WITH
       RefLen <- 2, OneByteMax <- 2, MaxLen <- 4

P == INSTANCE PartialSwap WITH
       Start <- MCStart, Receives <- MCReceives, FeeChoices <- {1}, Dust <- 2,
       MaxOffers <- 2, MaxTxs <- 2

Q == INSTANCE MerkleProofs WITH
       Chain <- MCChain, MaxInputs <- 3

(* A component that does not run.                                         *)
NoBtcLeg == t = MCTimeout /\ BtcInit
NoEthLeg == foreign = FALSE /\ private = FALSE /\ EthInit
NoElectrumX == Init
NoBtcReaders == ReadersInit
NoSigningAgent == AgentInit
NoHdWallet == WalletInit
NoParallelMiner == MinerInit /\ solutions = {} /\ linux
NoSigning == SigningInit
NoScripts ==
  /\ s = 0
NoSealedContent == key = MCKey /\ SealInit /\ stub.cekHash = NoHash
NoPartialSwap ==
  /\ coins = 0 /\ offers = 0 /\ ready = 0 /\ done = 0
NoSwapRecords == args = MCArguments /\ RecordsInit
NoMerkleProofs ==
  /\ inputs = 0 /\ heap = 0 /\ beef = 0 /\ refused = 0

MCInit ==
  \/ /\ component = "btc" /\ BtcInit
     /\ NoEthLeg /\ NoElectrumX /\ NoBtcReaders /\ NoSigningAgent /\ NoHdWallet
     /\ NoParallelMiner /\ NoSigning /\ NoScripts /\ NoSealedContent /\ NoPartialSwap
     /\ NoSwapRecords /\ NoMerkleProofs
  \/ /\ component = "eth" /\ EthInit
     /\ NoBtcLeg /\ NoElectrumX /\ NoBtcReaders /\ NoSigningAgent /\ NoHdWallet
     /\ NoParallelMiner /\ NoSigning /\ NoScripts /\ NoSealedContent /\ NoPartialSwap
     /\ NoSwapRecords /\ NoMerkleProofs
  \/ /\ component = "electrumx" /\ Init
     /\ NoBtcLeg /\ NoEthLeg /\ NoBtcReaders /\ NoSigningAgent /\ NoHdWallet
     /\ NoParallelMiner /\ NoSigning /\ NoScripts /\ NoSealedContent /\ NoPartialSwap
     /\ NoSwapRecords /\ NoMerkleProofs
  \/ /\ component = "readers" /\ ReadersInit
     /\ NoBtcLeg /\ NoEthLeg /\ NoElectrumX /\ NoSigningAgent /\ NoHdWallet
     /\ NoParallelMiner /\ NoSigning /\ NoScripts /\ NoSealedContent /\ NoPartialSwap
     /\ NoSwapRecords /\ NoMerkleProofs
  \/ /\ component = "agent" /\ AgentInit
     /\ NoBtcLeg /\ NoEthLeg /\ NoElectrumX /\ NoBtcReaders /\ NoHdWallet
     /\ NoParallelMiner /\ NoSigning /\ NoScripts /\ NoSealedContent /\ NoPartialSwap
     /\ NoSwapRecords /\ NoMerkleProofs
  \/ /\ component = "wallet" /\ WalletInit
     /\ NoBtcLeg /\ NoEthLeg /\ NoElectrumX /\ NoBtcReaders /\ NoSigningAgent
     /\ NoParallelMiner /\ NoSigning /\ NoScripts /\ NoSealedContent /\ NoPartialSwap
     /\ NoSwapRecords /\ NoMerkleProofs
  \/ /\ component = "miner" /\ MinerInit
     /\ NoBtcLeg /\ NoEthLeg /\ NoElectrumX /\ NoBtcReaders /\ NoSigningAgent
     /\ NoHdWallet /\ NoSigning /\ NoScripts /\ NoSealedContent /\ NoPartialSwap
     /\ NoSwapRecords /\ NoMerkleProofs
  \/ /\ component = "signing" /\ SigningInit
     /\ NoBtcLeg /\ NoEthLeg /\ NoElectrumX /\ NoBtcReaders /\ NoSigningAgent
     /\ NoHdWallet /\ NoParallelMiner /\ NoScripts /\ NoSealedContent /\ NoPartialSwap
     /\ NoSwapRecords /\ NoMerkleProofs
  \/ /\ component = "scripts" /\ S!Init
     /\ NoBtcLeg /\ NoEthLeg /\ NoElectrumX /\ NoBtcReaders /\ NoSigningAgent
     /\ NoHdWallet /\ NoParallelMiner /\ NoSigning /\ NoSealedContent /\ NoPartialSwap
     /\ NoSwapRecords /\ NoMerkleProofs
  \/ /\ component = "sealed" /\ SealInit
     /\ NoBtcLeg /\ NoEthLeg /\ NoElectrumX /\ NoBtcReaders /\ NoSigningAgent
     /\ NoHdWallet /\ NoParallelMiner /\ NoSigning /\ NoScripts /\ NoPartialSwap
     /\ NoSwapRecords /\ NoMerkleProofs
  \/ /\ component = "swap" /\ P!Init
     /\ NoBtcLeg /\ NoEthLeg /\ NoElectrumX /\ NoBtcReaders /\ NoSigningAgent
     /\ NoHdWallet /\ NoParallelMiner /\ NoSigning /\ NoScripts /\ NoSealedContent
     /\ NoSwapRecords /\ NoMerkleProofs
  \/ /\ component = "records" /\ RecordsInit
     /\ NoBtcLeg /\ NoEthLeg /\ NoElectrumX /\ NoBtcReaders /\ NoSigningAgent
     /\ NoHdWallet /\ NoParallelMiner /\ NoSigning /\ NoScripts /\ NoSealedContent
     /\ NoPartialSwap /\ NoMerkleProofs
  \/ /\ component = "proofs" /\ Q!Init
     /\ NoBtcLeg /\ NoEthLeg /\ NoElectrumX /\ NoBtcReaders /\ NoSigningAgent
     /\ NoHdWallet /\ NoParallelMiner /\ NoSigning /\ NoScripts /\ NoSealedContent
     /\ NoPartialSwap /\ NoSwapRecords

MCNext ==
  \/ /\ component = "btc" /\ BtcNext
     /\ UNCHANGED <<component, ethVars, vars, readersVars, agentVars, walletVars,
                    minerVars, signingVars, scripts_vars, sealVars, swap_vars,
                    recordsVars, proofs_vars>>
  \/ /\ component = "eth" /\ EthNext
     /\ UNCHANGED <<component, btcVars, vars, readersVars, agentVars, walletVars,
                    minerVars, signingVars, scripts_vars, sealVars, swap_vars,
                    recordsVars, proofs_vars>>
  \/ /\ component = "electrumx" /\ Next
     /\ UNCHANGED <<component, btcVars, ethVars, readersVars, agentVars, walletVars,
                    minerVars, signingVars, scripts_vars, sealVars, swap_vars,
                    recordsVars, proofs_vars>>
  \/ /\ component = "readers" /\ ReadersNext
     /\ UNCHANGED <<component, btcVars, ethVars, vars, agentVars, walletVars, minerVars,
                    signingVars, scripts_vars, sealVars, swap_vars, recordsVars,
                    proofs_vars>>
  \/ /\ component = "agent" /\ AgentNext
     /\ UNCHANGED <<component, btcVars, ethVars, vars, readersVars, walletVars, minerVars,
                    signingVars, scripts_vars, sealVars, swap_vars, recordsVars,
                    proofs_vars>>
  \/ /\ component = "wallet" /\ WalletNext
     /\ UNCHANGED <<component, btcVars, ethVars, vars, readersVars, agentVars, minerVars,
                    signingVars, scripts_vars, sealVars, swap_vars, recordsVars,
                    proofs_vars>>
  \/ /\ component = "miner" /\ MinerNext
     /\ UNCHANGED <<component, btcVars, ethVars, vars, readersVars, agentVars, walletVars,
                    signingVars, scripts_vars, sealVars, swap_vars, recordsVars,
                    proofs_vars>>
  \/ /\ component = "signing" /\ SigningNext
     /\ UNCHANGED <<component, btcVars, ethVars, vars, readersVars, agentVars, walletVars,
                    minerVars, scripts_vars, sealVars, swap_vars, recordsVars, proofs_vars>>
  \/ /\ component = "scripts" /\ S!Next
     /\ UNCHANGED <<component, btcVars, ethVars, vars, readersVars, agentVars, walletVars,
                    minerVars, signingVars, sealVars, swap_vars, recordsVars, proofs_vars>>
  \/ /\ component = "sealed" /\ SealNext
     /\ UNCHANGED <<component, btcVars, ethVars, vars, readersVars, agentVars, walletVars,
                    minerVars, signingVars, scripts_vars, swap_vars, recordsVars,
                    proofs_vars>>
  \/ /\ component = "swap" /\ P!Next
     /\ UNCHANGED <<component, btcVars, ethVars, vars, readersVars, agentVars, walletVars,
                    minerVars, signingVars, scripts_vars, sealVars, recordsVars,
                    proofs_vars>>
  \/ /\ component = "records" /\ RecordsNext
     /\ UNCHANGED <<component, btcVars, ethVars, vars, readersVars, agentVars, walletVars,
                    minerVars, signingVars, scripts_vars, sealVars, swap_vars, proofs_vars>>
  \/ /\ component = "proofs" /\ Q!Next
     /\ UNCHANGED <<component, btcVars, ethVars, vars, readersVars, agentVars, walletVars,
                    minerVars, signingVars, scripts_vars, sealVars, swap_vars, recordsVars>>

MCSpec == MCInit /\ [][MCNext]_mcVars

(* Partially signed swaps leave everybody what their terms say.            *)
TermsAreKept == component = "swap" => P!TermsAreKept

(* What fee() priced pays for the bytes that sign() ends up with; the      *)
(* script readers agree with the shared walker, and pushes are read back   *)
(* as they were written; and however proofs of inclusion are combined,     *)
(* trimmed, bundled and read, each gives the root of its block.            *)
TransactionsAreSound ==
  /\ FeeIsEnough
  /\ component = "scripts" => S!ReadersAgree /\ S!PushesComeBack
  /\ component = "proofs" => Q!RootsAreTheBlocks /\ Q!ProofsAreKept

(* A record that was written can be read again. An ETH swap whose number   *)
(* of wei is the number in btc_sats refutes it.                            *)
RecordsRoundTrip == component = "records" => RoundTrips
=============================================================================
