------------------------------- MODULE EthLeg -------------------------------
(***************************************************************************)
(* gravity/eth_leg.py and eth_wallet/htlc_leg.py over eth_wallet/rpc.py:   *)
(* the Ethereum leg of a swap.  The taker deploys a funded HTLC contract   *)
(* and checks it, the maker checks it again at the finalized block and     *)
(* claims it, the taker asks whether the claim is final.  Every check is   *)
(* several RPC calls; between two of them blocks are found, undone above   *)
(* the finalized height, and finalized.  A taker that runs another program *)
(* may deploy anything, and twice with one nonce.                          *)
(***************************************************************************)
EXTENDS Integers, Sequences, FiniteSets

CONSTANTS
  Timeout,        \* eth_timeout_unix_s, in blocks
  EthMaxBlocks,   \* height of the chain
  MaxFound,       \* blocks ever found, the undone ones included
  MaxNonce

VARIABLES
  foreign,   \* TRUE: the taker runs another program
  private,   \* TRUE: the maker has a private_submitter
  ethChain,  \* blocks: hash, transaction and its status
  fin,       \* height of the finalized block
  ethPool,   \* pending transactions the public can see
  relay,     \* transactions handed to the private relay
  taker,     \* fund and refund: pc and last_funded_locator
  maker,     \* verify_counterparty_funded and claim
  ask,       \* claim_finality_verdict under way and its answer
  hashes     \* blocks ever found, the source of their hashes

ethVars == <<foreign, private, ethChain, fin, ethPool, relay, taker, maker, ask, hashes>>

NoTx == [who |-> "none", nonce |-> 0, op |-> "none", terms |-> "none", at |-> 0]
NoAddress == -1
Terms == {"agreed", "other"}

------------------------------------------------------------ (* the chain *)

Prefix(n) == SubSeq(ethChain, 1, n)
SentBy(blocks, who) == Cardinality({i \in 1..Len(blocks) : blocks[i].tx.who = who})

(* External: the contract an address holds after some blocks.  An address  *)
(* is made of the deployer and its nonce.                                  *)
DeployedAt(blocks, a) ==
  {i \in 1..Len(blocks) : blocks[i].tx.op = "deploy" /\ blocks[i].tx.nonce = a}
Holds(blocks, a) == DeployedAt(blocks, a) # {}
TermsAt(blocks, a) == blocks[CHOOSE i \in DeployedAt(blocks, a) : TRUE].tx.terms
Settled(blocks, a) ==
  \E i \in 1..Len(blocks) : blocks[i].ok /\ blocks[i].tx.at = a
                            /\ blocks[i].tx.op \in {"claim", "refund"}

(* External: the contract's rules; a call that breaks them reverts.        *)
Succeeds(blocks, tx) ==
  \/ tx.op = "deploy"
  \/ /\ Holds(blocks, tx.at) /\ ~Settled(blocks, tx.at)
     /\ tx.op = "refund" => Len(blocks) + 1 >= Timeout

(* External: a block with one pending transaction, or with none.           *)
EthMine ==
  /\ Len(ethChain) < EthMaxBlocks /\ hashes < MaxFound
  /\ \E tx \in ethPool \cup relay \cup {NoTx} :
       /\ tx # NoTx => tx.nonce = SentBy(ethChain, tx.who)
       /\ ethChain' = Append(ethChain, [hash |-> hashes + 1, tx |-> tx,
                                         ok |-> Succeeds(ethChain, tx)])
       /\ ethPool' = ethPool \ {tx} /\ relay' = relay \ {tx}
  /\ hashes' = hashes + 1
  /\ UNCHANGED <<foreign, private, fin, taker, maker, ask>>

(* External: the last block is undone and its transaction waits again.     *)
EthReorg ==
  /\ Len(ethChain) > fin
  /\ LET last == ethChain[Len(ethChain)] IN
       /\ ethChain' = Prefix(Len(ethChain) - 1)
       /\ ethPool' = IF last.tx = NoTx THEN ethPool ELSE ethPool \cup {last.tx}
  /\ ask' = [ask EXCEPT !.reorged = TRUE]
  /\ UNCHANGED <<foreign, private, fin, relay, taker, maker, hashes>>

(* External: the finalized checkpoint moves up.                            *)
Finalize ==
  /\ \E n \in fin + 1..Len(ethChain) : fin' = n
  /\ UNCHANGED <<foreign, private, ethChain, ethPool, relay, taker, maker, ask, hashes>>

(* External: a foreign taker offers a contract of its own for its next     *)
(* nonce; the earlier offer stays valid until one of them is mined.        *)
ForeignDeploy ==
  /\ foreign /\ SentBy(ethChain, "taker") = 0
  /\ \E terms \in Terms :
       ethPool' = ethPool \cup {[who |-> "taker", nonce |-> 0, op |-> "deploy", terms |-> terms,
                           at |-> NoAddress]}
  /\ UNCHANGED <<foreign, private, ethChain, fin, relay, taker, maker, ask, hashes>>

---------------------------------------------- (* building and sending *)

(* _base_tx: the nonce counts what is pending in public.                   *)
Nonce(who) == SentBy(ethChain, who) + Cardinality({tx \in ethPool : tx.who = who})

(* preflight: eth_call on the latest state.                                *)
Preflight(tx) == Succeeds(ethChain, tx)

(* FlashbotsSubmitter.submit_raw and send_raw.                             *)
SubmitRaw(tx) == relay' = relay \cup {tx} /\ UNCHANGED ethPool
SendRaw(tx) == ethPool' = ethPool \cup {tx} /\ UNCHANGED relay

(* _sign_and_send: the private path for the claim, if there is one.        *)
SignAndSend(tx, secret) == IF secret /\ private THEN SubmitRaw(tx) ELSE SendRaw(tx)

------------------------------------------------------- (* verify_funded *)

(* One read of verify_funded at a block: the code, the immutables and the  *)
(* balance of the contract.  A settled contract has no balance left.       *)
ReadCode(blocks, a) == Holds(blocks, a)
ReadImmutables(blocks, a) == Holds(blocks, a) /\ TermsAt(blocks, a) = "agreed"
ReadBalance(blocks, a) == Holds(blocks, a) /\ ~Settled(blocks, a)
VerifyStep(pc, blocks, a) ==
  CASE pc = "code" -> IF ReadCode(blocks, a) THEN "immutables" ELSE "failed"
    [] pc = "immutables" -> IF ReadImmutables(blocks, a) THEN "balance" ELSE "failed"
    [] pc = "balance" -> IF ReadBalance(blocks, a) THEN "done" ELSE "failed"

Latest == ethChain
Finalized == Prefix(fin)

----------------------------------------------------------- (* the taker *)

(* EthLeg.fund, EthHtlcContractLeg.fund: deploy; the answer may be lost.   *)
FundDeploy ==
  /\ ~foreign /\ taker.pc \in {"idle", "failed"} /\ taker.loc = NoAddress
  /\ Nonce("taker") <= MaxNonce
  /\ SignAndSend([who |-> "taker", nonce |-> Nonce("taker"), op |-> "deploy",
                  terms |-> "agreed", at |-> NoAddress], FALSE)
  /\ \E answered \in BOOLEAN :
       taker' = [taker EXCEPT !.pc = IF answered THEN "receipt" ELSE "failed",
                              !.nonce = Nonce("taker")]
  /\ UNCHANGED <<foreign, private, ethChain, fin, maker, ask, hashes>>

(* wait_receipt: the locator is kept as soon as there is one; the wait may *)
(* end without it.                                                         *)
FundReceipt ==
  /\ taker.pc = "receipt"
  /\ taker' = IF Holds(Latest, taker.nonce)
              THEN [taker EXCEPT !.pc = "code", !.loc = taker.nonce]
              ELSE [taker EXCEPT !.pc = "failed"]
  /\ UNCHANGED <<foreign, private, ethChain, fin, ethPool, relay, maker, ask, hashes>>

(* verify_funded at the latest block, before fund returns.                 *)
FundVerify ==
  /\ taker.pc \in {"code", "immutables", "balance"}
  /\ taker' = [taker EXCEPT !.pc = VerifyStep(taker.pc, Latest, taker.loc)]
  /\ UNCHANGED <<foreign, private, ethChain, fin, ethPool, relay, maker, ask, hashes>>

(* refund, from the locator fund returned or left behind.                  *)
RefundEth ==
  LET tx == [who |-> "taker", nonce |-> Nonce("taker"), op |-> "refund", terms |-> "none",
             at |-> taker.loc]
  IN /\ taker.pc \in {"done", "failed"} /\ taker.loc # NoAddress /\ Nonce("taker") <= MaxNonce
     /\ Preflight(tx) /\ SignAndSend(tx, FALSE)
     /\ UNCHANGED <<foreign, private, ethChain, fin, taker, maker, ask, hashes>>

(* fetch_claim_artifacts: the call data of a mined transaction, and the    *)
(* data of its events if it succeeded.                                     *)
Artifacts(i) ==
  {<<"input", ethChain[i].tx.op>>}
    \cup (IF ethChain[i].ok THEN {<<"log", ethChain[i].tx.op>>} ELSE {})

(* recover_secret: any of them that holds p.                               *)
RecoverSecret(artifacts) == \E a \in artifacts : a[2] = "claim"

(* assert_claim_provenance: a success, and an event of this contract.      *)
Provenance(i) == ethChain[i].ok /\ ethChain[i].tx.at = taker.loc

(* The taker learns p.                                                     *)
ScrapeClaim ==
  /\ taker.pc = "done" /\ ~taker.p
  /\ \E i \in 1..Len(ethChain) : RecoverSecret(Artifacts(i)) /\ Provenance(i)
  /\ taker' = [taker EXCEPT !.p = TRUE]
  /\ UNCHANGED <<foreign, private, ethChain, fin, ethPool, relay, maker, ask, hashes>>

----------------------------------------------------------- (* the maker *)

(* Mutation: the maker's check reads the latest block.                     *)
VerifyLatest == Latest

(* verify_counterparty_funded(..., block_identifier='finalized').          *)
VerifiedBlock == Finalized

(* The address comes from the taker's file.                                *)
MakerVerifyStart ==
  /\ maker.pc \in {"idle", "failed"}
  /\ \E a \in 0..MaxNonce : maker' = [maker EXCEPT !.pc = "code", !.at = a]
  /\ UNCHANGED <<foreign, private, ethChain, fin, ethPool, relay, taker, ask, hashes>>

MakerVerify ==
  /\ maker.pc \in {"code", "immutables", "balance"}
  /\ maker' = [maker EXCEPT !.pc = VerifyStep(maker.pc, VerifiedBlock, maker.at)]
  /\ UNCHANGED <<foreign, private, ethChain, fin, ethPool, relay, taker, ask, hashes>>

(* claim: a private claim is not tried first by eth_call.                  *)
ClaimEth ==
  LET tx == [who |-> "maker", nonce |-> Nonce("maker"), op |-> "claim", terms |-> "none",
             at |-> maker.at]
  IN /\ maker.pc = "done" /\ Nonce("maker") <= MaxNonce
     /\ ~private => Preflight(tx)
     /\ SignAndSend(tx, TRUE)
     /\ maker' = [maker EXCEPT !.sent = @ \cup {tx}]
     /\ UNCHANGED <<foreign, private, ethChain, fin, taker, ask, hashes>>

------------------------------------------------- (* is the claim final? *)

(* The height a transaction was mined at; 0: it is not in a block.         *)
HeightOf(tx) ==
  IF \E i \in 1..Len(ethChain) : ethChain[i].tx = tx
  THEN CHOOSE i \in 1..Len(ethChain) : ethChain[i].tx = tx ELSE 0

(* canonical_block_hash and finalized_block_number.                        *)
CanonicalHash(n) == IF n <= Len(ethChain) THEN ethChain[n].hash ELSE 0
FinalizedNumber == fin

(* claim_finality_verdict: the receipt, which must report success.         *)
AskReceipt ==
  /\ ask.pc \in {"idle", "LIVE", "FINAL"}
  /\ \E tx \in maker.sent :
       LET n == HeightOf(tx) IN
       /\ n > 0
       /\ ask' = [pc |-> IF ethChain[n].ok THEN "canonical" ELSE "LIVE", tx |-> tx, n |-> n,
                  hash |-> ethChain[n].hash, reorged |-> FALSE]
  /\ UNCHANGED <<foreign, private, ethChain, fin, ethPool, relay, taker, maker, hashes>>

(* The canonical block at the receipt's height must be the receipt's.      *)
AskCanonical ==
  /\ ask.pc = "canonical"
  /\ ask' = [ask EXCEPT !.reorged = FALSE,
       !.pc = IF CanonicalHash(ask.n) = ask.hash THEN "finalized" ELSE "LIVE"]
  /\ UNCHANGED <<foreign, private, ethChain, fin, ethPool, relay, taker, maker, hashes>>

(* Mutation: the latest height is taken for the finalized one.             *)
AskTip ==
  /\ ask.pc = "finalized"
  /\ ask' = [ask EXCEPT !.pc = IF ask.n <= Len(ethChain) THEN "FINAL" ELSE "LIVE"]
  /\ UNCHANGED <<foreign, private, ethChain, fin, ethPool, relay, taker, maker, hashes>>

(* The finalized height, and the verdict.                                  *)
AskFinalized ==
  /\ ask.pc = "finalized"
  /\ ask' = [ask EXCEPT !.pc = IF ask.n <= FinalizedNumber THEN "FINAL" ELSE "LIVE"]
  /\ UNCHANGED <<foreign, private, ethChain, fin, ethPool, relay, taker, maker, hashes>>

----------------------------------------------------------------------------

EthInit ==
  /\ foreign \in BOOLEAN /\ private \in BOOLEAN
  /\ ethChain = <<>> /\ fin = 0 /\ ethPool = {} /\ relay = {}
  /\ hashes = 0
  /\ taker = [pc |-> "idle", loc |-> NoAddress, nonce |-> 0, p |-> FALSE]
  /\ maker = [pc |-> "idle", at |-> 0, sent |-> {}]
  /\ ask = [pc |-> "idle", tx |-> NoTx, n |-> 0, hash |-> 0, reorged |-> FALSE]

EthNext ==
  \/ EthMine \/ EthReorg \/ Finalize \/ ForeignDeploy
  \/ FundDeploy \/ FundReceipt \/ FundVerify \/ RefundEth \/ ScrapeClaim
  \/ MakerVerifyStart \/ MakerVerify \/ ClaimEth
  \/ AskReceipt \/ AskCanonical \/ AskFinalized

EthSpec == EthInit /\ [][EthNext]_ethVars

(* Once the maker's check has passed, the address holds a contract with    *)
(* the agreed terms on every later chain: although its reads are separate  *)
(* calls, no reorganization can put another contract there, because all of *)
(* them read the finalized block (htlc_leg.py:210-215).                    *)
VerifiedIsBound ==
  maker.pc = "done" => Holds(ethChain, maker.at) /\ TermsAt(ethChain, maker.at) = "agreed"

(* A FINAL verdict names a successful claim in a finalized block, as long  *)
(* as no block was undone between the last two of its three reads: the     *)
(* receipt of a claim that was undone before that never passes             *)
(* (htlc_leg.py:455-465).                                                  *)
FinalClaimIsCanonical ==
  ask.pc = "FINAL" /\ ~ask.reorged =>
    ask.n <= fin /\ ethChain[ask.n].tx = ask.tx /\ ethChain[ask.n].ok

(* The checks of this leg hold of the chain they were made for.            *)
EthLegIsTrue == VerifiedIsBound /\ FinalClaimIsCanonical

(* The verdict as it is documented: FINAL when the claim's block is at or  *)
(* under the finalized height, and not when the claim was dropped          *)
(* (htlc_leg.py:421-423).                                                  *)
FinalMeansFinalized ==
  ask.pc = "FINAL" => ask.n <= fin /\ ethChain[ask.n].tx = ask.tx

=============================================================================
