------------------------------- MODULE BtcLeg -------------------------------
(***************************************************************************)
(* btc_wallet/htlc_leg.py over btc_wallet/taproot.py and payment.py: the   *)
(* Bitcoin leg of a swap.  The taker funds a two-leaf Taproot HTLC and may *)
(* refund it; the maker claims it.  Every operation builds a transaction,  *)
(* sends it and may be repeated after an answer was lost.  A hash is the   *)
(* tuple of what it commits to, so that equal hashes mean equal contents.  *)
(***************************************************************************)
EXTENDS Integers, Sequences, FiniteSets

CONSTANTS
  Timeouts,       \* the Timelocks a swap may agree on, [value, unit]
  Granularity,    \* seconds per unit of a BIP68 time lock (512)
  MaxUnits,       \* the largest BIP68 value (65535)
  Utxo, Sats,     \* the value of the taker's coin; terms.btc_sats
  FeeSats, DustLimit,
  FundMinConfs,   \* FundingPolicy.min_confirmations
  MaxPolls,       \* polls before fund_confirm_timeout_s is over; 0: no polling
  Intervals,      \* the seconds a block may take
  BtcMaxBlocks, BtcMaxReorgs, MaxTries

ASSUME LocksAreCounted ==
  /\ Timeouts \subseteq [value : Int, unit : {"blocks", "seconds"}]
  /\ Granularity \in Nat \ {0} /\ MaxUnits \in Nat /\ Intervals \subseteq Nat

VARIABLES
  t,         \* the agreed timeout
  btcChain,  \* blocks: their time and their transactions
  btcPool,   \* the node's mempool
  seen,      \* the ids of all the transactions the node ever accepted
  party,     \* what the taker and the maker are doing
  reorgs

btcVars == <<t, btcChain, btcPool, seen, party, reorgs>>

Preimage == 7
Sha256(p) == <<"sha256", p>>
Parties == {"taker", "maker"}
Tx0 == [kind |-> "none", out |-> 0, change |-> 0, lock |-> [unit |-> "none", n |-> 0],
        reveals |-> 0, wit |-> 0, sighash |-> <<>>, leaf |-> <<>>, control |-> <<>>]
NoLocator == [amount |-> 0, tree |-> <<>>]

------------------------------------------------------------- (* Timelock *)

(* __post_init__ : what a Timelock may hold.                               *)
TimelockOk(l) ==
  /\ l.value >= 0
  /\ (IF l.unit = "blocks" THEN l.value ELSE l.value \div Granularity) <= MaxUnits

(* Mutation: the seconds flag is left out, and the units count blocks.     *)
UnitsAsBlocks(l) ==
  [unit |-> "blocks", n |-> IF l.unit = "blocks" THEN l.value ELSE l.value \div Granularity]

(* to_nsequence: blocks as they are, seconds rounded down to whole units.  *)
ToNSequence(l) ==
  IF l.unit = "blocks" THEN [unit |-> "blocks", n |-> l.value % (MaxUnits + 1)]
  ELSE [unit |-> "seconds", n |-> (l.value \div Granularity) % (MaxUnits + 1)]

-------------------------------------------------------- (* the HTLC tree *)

(* claim_leaf_script and refund_leaf_script.                               *)
ClaimLeaf(h, pk) == <<"claim", h, pk>>
RefundLeaf(pk, l) == <<"refund", ToNSequence(l), pk>>

(* build_htlc: both leaves; tapbranch_hash sorts them, so a root is a set. *)
BuildHtlc(l) ==
  [claim |-> ClaimLeaf(Sha256(Preimage), "maker"), refund |-> RefundLeaf("taker", l)]
MerkleRoot(tree) == {tree.claim, tree.refund}
SiblingFor(tree, which) == IF which = "claim" THEN tree.refund ELSE tree.claim
ScriptPubKey(tree) == <<"p2tr", "nums", MerkleRoot(tree)>>
ControlBlock(tree, which) == <<"nums", SiblingFor(tree, which)>>

(* with_funding: the locator both parties spend from.                      *)
WithFunding(tree, amount) == [amount |-> amount, tree |-> tree]

------------------------------------------------- (* building transactions *)

(* build_payment_tx: change below the dust limit goes to the fee.  The     *)
(* signature is deterministic: building it again gives the same bytes.     *)
PaymentBuilds == Utxo - Sats - FeeSats >= 0
BuildPaymentTx ==
  LET change == Utxo - Sats - FeeSats
  IN [Tx0 EXCEPT !.kind = "fund", !.out = Sats, !.leaf = ScriptPubKey(BuildHtlc(t)),
                 !.change = IF change >= DustLimit THEN change ELSE 0]

(* taproot_sighash under SIGHASH_DEFAULT: what the signature commits to.   *)
TaprootSighash(amount, spk, lock, out, leaf) == <<amount, spk, lock, out, leaf>>

(* _build_spend_tx: fresh_aux_rand gives each build another witness.       *)
SpendTx(loc, which, lock, reveals, wit) ==
  LET leaf == IF which = "claim" THEN loc.tree.claim ELSE loc.tree.refund
      out == loc.amount - FeeSats
  IN [kind |-> which, out |-> out, change |-> 0, lock |-> lock, reveals |-> reveals, wit |-> wit,
      sighash |-> TaprootSighash(loc.amount, ScriptPubKey(loc.tree), lock, out, leaf),
      leaf |-> leaf, control |-> ControlBlock(loc.tree, which)]

(* build_claim_tx and build_refund_tx, which refuse a fee that eats the    *)
(* amount; the claim also a preimage its leaf does not hold.               *)
ClaimBuilds(loc, p) == Sha256(p) = loc.tree.claim[2] /\ loc.amount - FeeSats > 0
RefundBuilds(loc) == loc.amount - FeeSats > 0
BuildClaimTx(loc, p, wit) == SpendTx(loc, "claim", [unit |-> "none", n |-> 0], p, wit)
BuildRefundTx(loc, l, wit) == SpendTx(loc, "refund", ToNSequence(l), 0, wit)

(* btc_txid_from_raw: the witness is no part of the id.                    *)
TxId(x) ==
  [x EXCEPT !.wit = 0, !.reveals = 0, !.sighash = <<>>, !.control = <<>>,
            !.leaf = IF x.kind = "fund" THEN x.leaf ELSE <<>>]

------------------------------------------------- (* reading a raw claim *)

(* A serialized claim, one token per field; each input has a witness stack *)
(* of its own.  A node may hand it out without its witness.                *)
Outpoint == "htlc:0"
Raw(x) ==
  << <<"version", 2>>, <<"byte", 0>>, <<"byte", 1>>,
     <<"count", 1>>, <<"input", Outpoint>>, <<"count", 1>>, <<"output", x.out>>,
     <<"stack", << <<"sig", x.sighash>>, <<"p", x.reveals>>, <<"script", x.leaf>> >> >>,
     <<"locktime", 0>> >>
Stripped(raw) == SubSeq(raw, 1, 1) \o SubSeq(raw, 4, 7) \o SubSeq(raw, 9, 9)
Forms(raw) ==
  {SubSeq(raw, 1, n) : n \in 0..Len(raw)} \cup {Stripped(raw), Append(raw, <<"byte", 0>>)}

IsSegwit(raw) == Len(raw) >= 3 /\ raw[2] = <<"byte", 0>> /\ raw[3] = <<"byte", 1>>
InPos(raw) == IF IsSegwit(raw) THEN 4 ELSE 2
InputsRead(raw) == Len(raw) >= InPos(raw) /\ raw[InPos(raw)][1] = "count"
                   /\ raw[InPos(raw)][2] > 0 /\ Len(raw) >= InPos(raw) + raw[InPos(raw)][2]
OutPos(raw) == InPos(raw) + raw[InPos(raw)][2] + 1
OutputsRead(raw) == InputsRead(raw) /\ Len(raw) >= OutPos(raw)
                    /\ Len(raw) >= OutPos(raw) + raw[OutPos(raw)][2]
WitPos(raw) == OutPos(raw) + raw[OutPos(raw)][2] + 1
LockPos(raw) == WitPos(raw) + IF IsSegwit(raw) THEN raw[InPos(raw)][2] ELSE 0

(* Mutation: the walk ends with the outputs.                               *)
TxidReadsOutputs(raw) == OutputsRead(raw)

(* btc_txid_from_raw: nothing may be missing and nothing may follow.       *)
TxidReads(raw) == OutputsRead(raw) /\ Len(raw) = LockPos(raw)

(* btc_spend_fields_from_raw: the same, with at least one output.          *)
SpendFieldsRead(raw) == TxidReads(raw) /\ raw[OutPos(raw)][2] > 0

(* btc_input_outpoints_from_raw: the inputs alone.                         *)
InputOutpoints(raw) == {raw[InPos(raw) + i][2] : i \in 1..raw[InPos(raw)][2]}

(* _iter_witness_stack and scrape_secret: whatever whole stacks are there. *)
WitnessStacks(raw) ==
  IF ~IsSegwit(raw) \/ ~OutputsRead(raw) THEN {}
  ELSE {raw[i][2] : i \in {j \in WitPos(raw)..LockPos(raw) - 1 : j <= Len(raw)}}
ScrapeFinds(raw) == \E s \in WitnessStacks(raw) : \E i \in 1..Len(s) : s[i] = <<"p", Preimage>>

------------------------------------------------------------ (* the node *)

Mined == UNION {btcChain[i].txs : i \in 1..Len(btcChain)}
BlockOf(k) == CHOOSE i \in 1..Len(btcChain) : \E x \in btcChain[i].txs : x.kind = k
IsMined(k) == \E x \in Mined : x.kind = k
FundTx == CHOOSE x \in Mined \cup btcPool : x.kind = "fund"
IsSpent(txs) == \E x \in txs : x.kind \in {"claim", "refund"}

(* External: BIP68.  The next block's distance from the funding block.     *)
LockReached(lock) ==
  \/ lock.unit = "none"
  \/ /\ IsMined("fund")
     /\ LET i == BlockOf("fund")
        IN IF lock.unit = "blocks" THEN Len(btcChain) + 1 - i >= lock.n
           ELSE btcChain[Len(btcChain)].time - btcChain[i].time >= lock.n * Granularity

(* External: BIP341 and the leaf's script.                                 *)
ScriptPasses(x) ==
  LET f == FundTx IN
  /\ f.leaf = <<"p2tr", x.control[1], {x.leaf, x.control[2]}>>
  /\ x.sighash = TaprootSighash(f.out, f.leaf, x.lock, x.out, x.leaf)
  /\ x.leaf[1] = "claim" => Sha256(x.reveals) = x.leaf[2]
  /\ x.leaf[1] = "refund" => x.lock = x.leaf[2]

(* External: sendrawtransaction.  A transaction whose outputs are in the   *)
(* chain or which waits with the same witness is known; with another       *)
(* witness it is refused in other words ("txn-same-nonwitness-data").      *)
NodeAnswer(x) ==
  IF \E y \in Mined : TxId(y) = TxId(x) THEN "transaction already in block chain"
  ELSE IF x \in btcPool THEN "txn-already-in-mempool"
  ELSE IF \E y \in btcPool : TxId(y) = TxId(x) THEN "txn-same-nonwitness-data"
  ELSE IF x.kind = "fund" THEN "accepted"
  ELSE IF ~(\E y \in Mined \cup btcPool : y.kind = "fund") \/ IsSpent(Mined) THEN "missing-inputs"
  ELSE IF IsSpent(btcPool) THEN "mempool-conflict"
  ELSE IF ~LockReached(x.lock) THEN "non-BIP68-final"
  ELSE IF ~ScriptPasses(x) THEN "script-failed" ELSE "accepted"

Markers == {"txn-already-known", "transaction already in block chain", "already in mempool",
            "txn-already-in-mempool"}

(* Mutation: an input that is gone is taken for a spend already made.      *)
KnownOrMissing(answer) == answer \in Markers \cup {"missing-inputs"}

(* _ALREADY_KNOWN_MARKERS: the answers that mean the transaction is there. *)
AlreadyKnown(answer) == answer \in Markers

(* BitcoinCoreBroadcaster.broadcast, its answer lost or not.  A marker is  *)
(* answered by the id the node decodes.                                    *)
BroadcastOk(x) == NodeAnswer(x) = "accepted" \/ AlreadyKnown(NodeAnswer(x))
Submit(x) ==
  IF NodeAnswer(x) = "accepted" THEN btcPool' = btcPool \cup {x} /\ seen' = seen \cup {TxId(x)}
  ELSE UNCHANGED <<btcPool, seen>>
Broadcast(who, x, pc) ==
  /\ Submit(x)
  /\ \E answered \in BOOLEAN :
       party' = [party EXCEPT ![who].tries = @ + 1, ![who].tx = TxId(x),
                              ![who].pc = IF answered /\ BroadcastOk(x) THEN pc ELSE "failed"]

------------------------------------------------------------- (* the legs *)

Ready(who) == party[who].pc \in {"idle", "failed", "ok"} /\ party[who].tries < MaxTries
Refuse(who) == party' = [party EXCEPT ![who].pc = "failed", ![who].tries = @ + 1]

(* fund, up to the broadcast.                                              *)
Fund ==
  /\ Ready("taker") /\ party["taker"].loc = NoLocator
  /\ IF PaymentBuilds THEN Broadcast("taker", BuildPaymentTx, "read")
     ELSE Refuse("taker") /\ UNCHANGED <<btcPool, seen>>
  /\ UNCHANGED <<t, btcChain, reorgs>>

(* The reader's depth of the funding transaction.                          *)
FundDepth == IF IsMined("fund") THEN Len(btcChain) - BlockOf("fund") + 1 ELSE 0

(* _read_funded_amount_sats: poll while the depth is short and time is     *)
(* left; any other failure ends fund with the coin already locked.         *)
ReadFundedAmount ==
  /\ party["taker"].pc = "read"
  /\ \/ /\ FundDepth >= FundMinConfs
        /\ party' = [party EXCEPT !["taker"].pc = "ok",
                                  !["taker"].loc = WithFunding(BuildHtlc(t), FundTx.out)]
     \/ /\ FundDepth < FundMinConfs
        /\ party' = [party EXCEPT !["taker"] =
             IF @.polls < MaxPolls THEN [@ EXCEPT !.polls = @ + 1] ELSE [@ EXCEPT !.pc = "failed"]]
     \/ party' = [party EXCEPT !["taker"].pc = "failed"]
  /\ UNCHANGED <<t, btcChain, btcPool, seen, reorgs>>

(* claim: the maker's side of the locator, taken from the swap record.     *)
Claim ==
  LET loc == party["taker"].loc IN
  /\ Ready("maker") /\ loc # NoLocator
  /\ IF ClaimBuilds(loc, Preimage)
     THEN Broadcast("maker", BuildClaimTx(loc, Preimage, party["maker"].tries), "ok")
     ELSE Refuse("maker") /\ UNCHANGED <<btcPool, seen>>
  /\ UNCHANGED <<t, btcChain, reorgs>>

(* refund, at any time: an early one is for the node to refuse.            *)
Refund ==
  LET loc == party["taker"].loc IN
  /\ Ready("taker") /\ loc # NoLocator
  /\ IF RefundBuilds(loc)
     THEN Broadcast("taker", BuildRefundTx(loc, t, party["taker"].tries), "ok")
     ELSE Refuse("taker") /\ UNCHANGED <<btcPool, seen>>
  /\ UNCHANGED <<t, btcChain, reorgs>>

---------------------------------------------------------- (* the chain *)

(* External: a block takes what waits, the funding before what spends it.  *)
BtcMine ==
  /\ Len(btcChain) < BtcMaxBlocks
  /\ \E dt \in Intervals, txs \in SUBSET btcPool :
       /\ IsSpent(txs) => IsMined("fund") \/ \E x \in txs : x.kind = "fund"
       /\ btcChain' = Append(btcChain, [time |-> btcChain[Len(btcChain)].time + dt, txs |-> txs])
       /\ btcPool' = btcPool \ txs
  /\ UNCHANGED <<t, seen, party, reorgs>>

(* External: the last block is undone; what it held waits again unless its *)
(* time lock no longer holds.                                              *)
BtcReorg ==
  /\ Len(btcChain) > 1 /\ reorgs < BtcMaxReorgs
  /\ LET short == SubSeq(btcChain, 1, Len(btcChain) - 1)
         back == btcChain[Len(btcChain)].txs \cup btcPool
         funded == \E i \in 1..Len(short) : \E x \in short[i].txs : x.kind = "fund"
     IN /\ btcChain' = short
        /\ btcPool' = {x \in back : x.kind = "refund" => funded /\ LockReached(x.lock)'}
  /\ reorgs' = reorgs + 1
  /\ UNCHANGED <<t, seen, party>>

BtcInit ==
  /\ t \in {l \in Timeouts : TimelockOk(l)}
  /\ btcChain = <<[time |-> 0, txs |-> {}]>> /\ btcPool = {} /\ seen = {} /\ reorgs = 0
  /\ party = [who \in Parties |->
       [pc |-> "idle", tx |-> TxId(Tx0), loc |-> NoLocator, polls |-> 0, tries |-> 0]]

BtcNext == Fund \/ ReadFundedAmount \/ Claim \/ Refund \/ BtcMine \/ BtcReorg

BtcSpec == BtcInit /\ [][BtcNext]_btcVars

----------------------------------------------------------------------------

(* When fund, claim or refund returns a transaction id, the node did take  *)
(* that transaction at some time: an answer that reports it as known never *)
(* hides that another party's spend took its place (htlc_leg.py:181-189).  *)
OkMeansPublished ==
  \A who \in Parties : party[who].pc = "ok" => party[who].tx \in seen

(* A refund is never mined earlier than the agreed timeout less one unit   *)
(* of the encoding, whatever the unit of the timeout: the same lock is in  *)
(* the leaf, in nSequence and on the chain (taproot.py:243-257, 306-324).  *)
RefundNotEarly ==
  IsMined("refund") =>
    LET i == BlockOf("fund")
        j == BlockOf("refund")
    IN IF t.unit = "blocks" THEN j - i >= t.value
       ELSE btcChain[j - 1].time - btcChain[i].time > t.value - Granularity

(* Whatever form of a published claim a reader is handed, cut short, with  *)
(* bytes after it or without its witness: one that has an id and still has *)
(* its witness gives the secret, and one that gives the secret spends the  *)
(* HTLC's outpoint; a form that is no transaction has no id                *)
(* (claim_executor.py:329-340).                                            *)
ClaimFormsAgree ==
  \A x \in {y \in Mined \cup btcPool : y.kind = "claim"} : \A raw \in Forms(Raw(x)) :
    /\ TxidReads(raw) => SpendFieldsRead(raw) /\ (IsSegwit(raw) => ScrapeFinds(raw))
    /\ ScrapeFinds(raw) => InputsRead(raw) /\ Outpoint \in InputOutpoints(raw)

(* What this leg reports, sends and reads is so.                           *)
BtcLegIsTrue == OkMeansPublished /\ RefundNotEarly /\ ClaimFormsAgree

(* A transaction that waits or is in the chain is a success to a caller    *)
(* who sends it again ("idempotent success, NOT an error (a crash-recovery *)
(* retry must not be treated as a failure)", htlc_leg.py:97-98).           *)
RetryOfPublishedSucceeds ==
  \A who \in Parties : \A x \in Mined \cup btcPool : \A wit \in 0..MaxTries :
    TxId(x) = party[who].tx => BroadcastOk(IF x.kind = "fund" THEN x ELSE [x EXCEPT !.wit = wit])

=============================================================================
