----------------------------- MODULE BtcReaders -----------------------------
(***************************************************************************)
(* network/bitcoin.py: what several Bitcoin sources say about one          *)
(* transaction while blocks are found and undone.  A REST source reads the *)
(* transaction's status and then the tip, by two requests; Bitcoin Core    *)
(* answers both at once.  A source may fail, lag, or (Liar) say anything   *)
(* that passes its reader's own checks.  MultiSourceBtcFundingReader and   *)
(* MultiSourceBtcDataSource combine what the sources return.  The names of *)
(* the specification start with Readers, so that a module can extend this  *)
(* one beside another.                                                     *)
(***************************************************************************)
EXTENDS Naturals, FiniteSets, FiniteSetsExt

CONSTANTS
  Rest, Core,     \* the sources of each kind
  Liar,           \* the source that lies, or "none"
  Quorum, DustCap,
  MinConfs,       \* min_confirmations of the reads
  TrueAmount,     \* the value of the output
  LiarAmounts,    \* the values a liar reports
  MaxTip, MaxReorgs

ASSUME ReadersAssumption ==
  /\ IsFiniteSet(Rest) /\ IsFiniteSet(Core) /\ Rest \cap Core = {}
  /\ Quorum \in Nat \ {0} /\ (Liar \in Rest \cup Core => Quorum > 1)
  /\ {DustCap, MinConfs, TrueAmount, MaxTip} \subseteq Nat /\ LiarAmounts \subseteq Nat

VARIABLES
  chain,   \* tip, the transaction's block (0: not in a block), reorgs so far
  query,   \* the read under way: which, its result, a reorg since it started
  src      \* what each source's coroutine is doing and has returned

readersVars == <<chain, query, src>>

Sources == Rest \cup Core
Fail == [ok |-> FALSE]
Waiting == [pc |-> "status", h |-> 0, ret |-> Fail]
NoResult == [done |-> FALSE, ok |-> FALSE, confs |-> 0, amount |-> 0]
Quiet == [op |-> "none", reorged |-> FALSE, agreed |-> 0, res |-> NoResult]

Depth == IF chain.at = 0 THEN 0 ELSE chain.tip - chain.at + 1

ReadersInit ==
  /\ chain = [tip |-> 1, at |-> 0, reorgs |-> 0]
  /\ query = Quiet /\ src = [s \in Sources |-> Waiting]

---------------------------------------------------------- (* the chain *)

(* External: a block, with the transaction or without it.                  *)
Block ==
  /\ chain.tip < MaxTip
  /\ \E in \in BOOLEAN :
       /\ in => chain.at = 0
       /\ chain' = [chain EXCEPT !.tip = @ + 1, !.at = IF in THEN chain.tip + 1 ELSE @]
  /\ UNCHANGED <<query, src>>

(* External: the last block is undone.                                     *)
Reorg ==
  /\ chain.tip > 1 /\ chain.reorgs < MaxReorgs
  /\ chain' = [tip |-> chain.tip - 1, at |-> IF chain.at = chain.tip THEN 0 ELSE chain.at,
               reorgs |-> chain.reorgs + 1]
  /\ query' = [query EXCEPT !.reorged = TRUE]
  /\ UNCHANGED src

----------------------------------------------------------- (* one source *)

Returns(s, r) == src' = [src EXCEPT ![s] = [@ EXCEPT !.pc = "done", !.ret = r]]
Reading(s, pc) == query.op # "none" /\ ~query.res.done /\ src[s].pc = pc /\ s # Liar

(* MempoolSpaceFundingReader.confirmations and the REST get_raw_tx: the    *)
(* status first.  An unconfirmed transaction has depth 0: the funding      *)
(* reader returns it, get_raw_tx raises.                                   *)
TxStatus(s) ==
  /\ Reading(s, "status") /\ s \in Rest
  /\ IF chain.at = 0
     THEN Returns(s, IF query.op # "raw"
                     THEN [ok |-> TRUE, confs |-> 0, amount |-> TrueAmount] ELSE Fail)
     ELSE src' = [src EXCEPT ![s] = [@ EXCEPT !.pc = "tip", !.h = chain.at]]
  /\ UNCHANGED <<chain, query>>

(* Then the tip: a block height above it is refused.                       *)
TipHeight(s) ==
  /\ Reading(s, "tip")
  /\ LET confs == chain.tip + 1 - src[s].h IN
       Returns(s, IF src[s].h > chain.tip \/ (query.op = "raw" /\ confs < MinConfs) THEN Fail
                  ELSE [ok |-> TRUE, confs |-> confs, amount |-> TrueAmount])
  /\ UNCHANGED <<chain, query>>

(* BitcoinCoreRpcSource.get_raw_tx: one answer carries the depth.          *)
CoreRawTx(s) ==
  /\ Reading(s, "status") /\ s \in Core
  /\ Returns(s, IF query.op = "raw" /\ Depth < MinConfs THEN Fail
                ELSE [ok |-> TRUE, confs |-> Depth, amount |-> TrueAmount])
  /\ UNCHANGED <<chain, query>>

(* An error, a timeout, a body that does not parse.                        *)
SourceFails(s) ==
  /\ Reading(s, "status") \/ Reading(s, "tip")
  /\ Returns(s, Fail)
  /\ UNCHANGED <<chain, query>>

(* External: the liar.  Bytes that do not hash to the txid never leave     *)
(* _verify_raw_matches_txid, so a lie about raw bytes is a failure.        *)
Lie ==
  /\ Liar \in Sources /\ query.op # "none" /\ ~query.res.done /\ src[Liar].pc = "status"
  /\ \E c \in 0..MaxTip, a \in LiarAmounts :
       Returns(Liar, IF query.op = "raw" THEN Fail
                     ELSE [ok |-> TRUE, confs |-> c, amount |-> a])
  /\ UNCHANGED <<chain, query>>

------------------------------------------------------- (* many sources *)

Responders == {s \in Sources : src[s].ret.ok}
AllDone == query.op # "none" /\ ~query.res.done /\ \A s \in Sources : src[s].pc = "done"
Confs == {src[s].ret.confs : s \in Responders}
Saying(a) == {s \in Responders : src[s].ret.amount = a}

(* Mutation: the depth most sources could support is the deepest.          *)
DeepestConfs(value) ==
  IF Responders = {} THEN 0 ELSE Max(Confs)

(* MultiSourceBtcFundingReader.confirmations: the shallowest answer; above *)
(* dust a quorum must have answered (MaxTip + 1 stands for the refusal).   *)
MultiConfirmations(value) ==
  IF value > DustCap /\ Cardinality(Responders) < Quorum THEN MaxTip + 1
  ELSE IF Responders = {} THEN 0 ELSE Min(Confs)

(* Mutation: a plurality is enough whatever the amount.                    *)
PluralityAmounts ==
  {a \in {src[s].ret.amount : s \in Responders} :
     \A b \in {src[s].ret.amount : s \in Responders} :
       Cardinality(Saying(b)) <= Cardinality(Saying(a))}

(* Counter.most_common(1): any of the most frequent amounts; above dust it *)
(* needs a quorum.                                                         *)
AgreedAmounts ==
  {a \in {src[s].ret.amount : s \in Responders} :
     /\ \A b \in {src[s].ret.amount : s \in Responders} :
          Cardinality(Saying(b)) <= Cardinality(Saying(a))
     /\ a > DustCap => Cardinality(Saying(a)) >= Quorum}

(* A read starts: the output's amount, or the raw bytes of the             *)
(* transaction (MultiSourceBtcDataSource._check_quorum_possible).          *)
StartRead ==
  /\ query.op = "none"
  /\ \E op \in {"amount", "raw"} :
       /\ op = "raw" => Cardinality(Sources) >= Quorum
       /\ query' = [Quiet EXCEPT !.op = op]
  /\ src' = [s \in Sources |-> Waiting]
  /\ UNCHANGED chain

(* MultiSourceBtcFundingReader.read_output_amount_sats: the amount every   *)
(* source gives at any depth; once agreed, the depth is asked for anew.    *)
ReadOutputAmount ==
  /\ AllDone /\ query.op = "amount"
  /\ \/ /\ AgreedAmounts = {} /\ query' = [query EXCEPT !.res.done = TRUE]
        /\ UNCHANGED src
     \/ \E a \in AgreedAmounts :
          /\ query' = [query EXCEPT !.op = "confs", !.agreed = a]
          /\ src' = [s \in Sources |-> Waiting]
  /\ UNCHANGED chain

ReadConfirmations ==
  /\ AllDone /\ query.op = "confs"
  /\ LET c == MultiConfirmations(query.agreed) IN
       query' = [query EXCEPT !.res =
         [done |-> TRUE, ok |-> c >= MinConfs /\ c <= MaxTip, confs |-> c,
          amount |-> query.agreed]]
  /\ UNCHANGED <<chain, src>>

(* MultiSourceBtcDataSource.get_raw_tx: the first group of a quorum.  All  *)
(* the bytes that get here hash to the txid.                               *)
RequireQuorum ==
  /\ AllDone /\ query.op = "raw"
  /\ query' = [query EXCEPT !.res =
       [done |-> TRUE, ok |-> Cardinality(Responders) >= Quorum, confs |-> MinConfs,
        amount |-> TrueAmount]]
  /\ UNCHANGED <<chain, src>>

(* The caller takes the result.                                            *)
EndRead ==
  /\ query.res.done
  /\ query' = Quiet /\ src' = [s \in Sources |-> Waiting] /\ UNCHANGED chain

ReadersNext ==
  \/ Block \/ Reorg \/ Lie \/ StartRead \/ ReadOutputAmount \/ ReadConfirmations
  \/ RequireQuorum \/ EndRead
  \/ \E s \in Sources : TxStatus(s) \/ TipHeight(s) \/ CoreRawTx(s) \/ SourceFails(s)

ReadersSpec == ReadersInit /\ [][ReadersNext]_readersVars

------------------------------------------------------------- (* property *)

(* With fewer liars than the quorum, an above-dust amount is the output's  *)
(* own, and the depth it is returned at is one the transaction really has, *)
(* unless a block was undone during the read: the status and the tip of a  *)
(* REST source are then of two chains.                                     *)
AboveDustIsCorroborated ==
  query.res.done /\ query.res.ok /\ query.res.amount > DustCap
  => /\ query.res.amount = TrueAmount
     /\ ~query.reorged => Depth >= MinConfs
=============================================================================
