----------------------------- MODULE RadiantLeg -----------------------------
(***************************************************************************)
(* gravity/radiant_leg.py: the Radiant leg of a swap over its covenant, and *)
(* the gate before it (SwapCoordinator.pre_btc_lock_check, parts 1 and 1b, *)
(* with gravity/ref_authenticity.py).  The taker passes the gate, the maker *)
(* funds the covenant, then taker and maker may each run claim_asset and   *)
(* refund_asset, again and again: find the coin, read its depth, take a    *)
(* fee coin, build, broadcast.  Each read is a step of its own.            *)
(***************************************************************************)
EXTENDS Covenants

CONSTANTS
  Amounts, Csvs,    \* radiant_amount and t_rxd.value of the terms
  MinConfs,         \* min_confirmations of the leg
  MinRefConfs,      \* min_ref_confirmations and min_credential_confirmations
  FeeValues,        \* the values of a party's fee coins, by position
  MaxBlocks, MaxReorgs, MaxFundings, MaxTries

VARIABLES
  terms,    \* NegotiatedTerms and what the indexer and the resolver will say of them
  cov,      \* what _build_covenant makes of the terms, the same at every call
  gate,     \* pre_btc_lock_check
  chain,    \* blocks: sets of transactions
  pool,     \* the node's mempool
  party,    \* what the leg of each party is doing
  reorgs

vars == <<terms, cov, gate, chain, pool, party, reorgs>>

Parties == {"taker", "maker"}
Ref == "genesis"
OtherRef == "other"

--------------------------------------------------- (* the node *)

(* Transactions: the genesis reveal, the fundings, the spends.             *)
GenesisTx == [id |-> <<"genesis", 0, 0>>, value |-> 0]
CovenantFunding(k, value) == [id |-> <<"fund", k, 0>>, value |-> value]
SpendOf(p, kind, k, f) == [id |-> <<kind, k, f>>, value |-> IF p = "taker" THEN 1 ELSE 2]

Mined == UNION {chain[i] : i \in DOMAIN chain}
Known == Mined \cup pool
HeightOf(x) == CHOOSE i \in DOMAIN chain : x \in chain[i]
ConfsOf(x) == IF x \in Mined THEN Len(chain) - HeightOf(x) + 1 ELSE 0

IsFunding(x) == x.id[1] = "fund"
IsSpend(x) == x.id[1] \in {"claim", "refund"}
Spends(x, fund) == IsSpend(x) /\ x.id[2] = fund.id[2]
UsesFee(x, y) == IsSpend(x) /\ IsSpend(y) /\ x.value = y.value /\ x.id[3] = y.id[3]
Unspent == {f \in Known : IsFunding(f) /\ \A x \in Known : ~Spends(x, f)}

Mine ==
  /\ Len(chain) < MaxBlocks
  /\ chain' = Append(chain, pool)
  /\ pool' = {}
  /\ UNCHANGED <<terms, cov, gate, party, reorgs>>

(* The tip is replaced; what it held goes back to the pool or is lost.     *)
Reorg ==
  /\ reorgs < MaxReorgs /\ chain # <<>>
  /\ \E lost \in BOOLEAN :
       LET gone == IF lost THEN chain[Len(chain)] ELSE {}
           back == Known \ (UNION {chain[i] : i \in 1..(Len(chain) - 1)} \cup gone)
       IN pool' = {x \in back : IsSpend(x) => \E f \in Known \ gone : IsFunding(f) /\ Spends(x, f)}
  /\ chain' = SubSeq(chain, 1, Len(chain) - 1)
  /\ reorgs' = reorgs + 1
  /\ UNCHANGED <<terms, cov, gate, party>>

------------------------------------------- (* the gate before the lock *)

(* RxinDexerRefAdapter._genesis_outpoint: the first identity the token     *)
(* has decides, even one that does not parse.                              *)
Identities(token) == SelectSeq(<<token.glyphId, token.outpoint, token.legacy>>, LAMBDA x : x # "absent")

(* Mutation: a malformed identity falls through to the next one.           *)
FirstParsedIdentity(token) ==
  LET ids == SelectSeq(Identities(token), LAMBDA x : x # "malformed")
  IN IF ids = <<>> THEN "zeros" ELSE ids[1]

GenesisOutpoint(token) ==
  LET ids == Identities(token)
  IN IF ids = <<>> \/ ids[1] = "malformed" THEN "zeros" ELSE ids[1]

(* verify_ref_authenticity, up to the indexer's answer.                    *)
GateStart ==
  /\ gate.at = "start"
  /\ gate' = [gate EXCEPT !.at = CASE terms.variant = "rxd" -> "credential"
                                   [] ~terms.token.known -> "refused"
                                   [] OTHER -> "confs"]
  /\ UNCHANGED <<terms, cov, chain, pool, party, reorgs>>

(* resolve_ref's second read, and the bindings.  The adapter cannot read   *)
(* the depth of a transaction the node no longer knows.                    *)
Authentic == GenesisOutpoint(terms.token) = Ref /\ ConfsOf(GenesisTx) >= MinRefConfs
GateConfs ==
  /\ gate.at = "confs"
  /\ LET ok == GenesisTx \in Known /\ Authentic
     IN gate' = [gate EXCEPT !.at = IF ok THEN "credential" ELSE "refused",
                             !.deep = ok]
  /\ UNCHANGED <<terms, cov, chain, pool, party, reorgs>>

(* The credential must be soulbound and its owner the payout's holder.     *)
CredentialOk ==
  /\ terms.credential.spk # <<>>
  /\ SoulboundCredential(terms.credential, MinRefConfs, OtherRef)
  /\ \E k \in Parties \cup {"third"} :
       /\ OwnerPkhs(terms.credential.spk) = {Pkh(k)}
       /\ HolderHash(terms.variant, k, Ref) = HolderHash(terms.variant, terms.payout, Ref)

GateCredential ==
  /\ gate.at = "credential"
  /\ gate' = [gate EXCEPT !.at = IF ~terms.gated \/ CredentialOk THEN "ok" ELSE "refused"]
  /\ UNCHANGED <<terms, cov, chain, pool, party, reorgs>>

-------------------------------------------------- (* the covenant *)

(* _build_covenant: BLOCKS only, and the hashes of the terms.              *)
CovenantOf(t) ==
  CASE t.variant = "rxd" -> BuildHtlcCovenantRxd(t.amount, "taker", "maker", t.csv)
    [] t.variant = "ft" -> BuildHtlcCovenantFt(Ref, t.amount, "taker", "maker", t.csv)
    [] OTHER -> BuildHtlcCovenantNft(Ref, t.amount, "taker", "maker", t.csv)
BuildCovenant(t) ==
  LET c == CovenantOf(t)
  IN [c EXCEPT !.builds = /\ @ /\ t.unit = "blocks"
                          /\ Hash256(c.takerHolder) = HolderHash(t.variant, t.payout, Ref)]

(* The maker, or anyone else, pays to the covenant's script.               *)
Fund ==
  /\ gate.at = "ok"
  /\ cov.builds
  /\ \E k \in 1..MaxFundings, value \in {terms.amount, terms.amount + 1} :
       /\ \A x \in Known : ~(IsFunding(x) /\ x.id[2] = k)
       /\ \A j \in 1..(k - 1) : \E x \in Known : IsFunding(x) /\ x.id[2] = j
       /\ pool' = pool \cup {CovenantFunding(k, value)}
  /\ UNCHANGED <<terms, cov, gate, chain, party, reorgs>>

------------------------------------------------- (* claim and refund *)

SpendTx(what, carrier) ==
  IF what = "claim" THEN BuildHtlcClaimTx(cov, carrier, <<"pre", Preimage, 32>>)
  ELSE BuildHtlcRefundTx(cov, carrier)

Fails(p) == [party[p] EXCEPT !.at = "idle", !.tries = @ + 1]

(* find_covenant_utxo: none, none of the agreed value, or more than one    *)
(* is refused.                                                             *)
FindCovenantUtxo == {f \in Unspent : f.value = terms.amount}

Resolve(p) ==
  /\ party[p].at = "idle" /\ party[p].tries < MaxTries
  /\ gate.at = "ok"
  /\ cov.builds
  /\ LET found == FindCovenantUtxo
     IN party' = [party EXCEPT ![p] =
          IF Cardinality(found) # 1 THEN Fails(p)
          ELSE [@ EXCEPT !.at = "found", !.coin = CHOOSE f \in found : TRUE]]
  /\ UNCHANGED <<terms, cov, gate, chain, pool, reorgs>>

(* _resolve_covenant's second read: get_transaction_verbose fails for a    *)
(* transaction the node does not know.                                     *)
ResolveConfs(p) ==
  /\ party[p].at = "found"
  /\ party' = [party EXCEPT ![p] =
       IF party[p].coin \in Known /\ ConfsOf(party[p].coin) >= MinConfs /\ party[p].coin.value > 0
       THEN [@ EXCEPT !.at = "resolved"] ELSE Fails(p)]
  /\ UNCHANGED <<terms, cov, gate, chain, pool, reorgs>>

(* The node's answer to a spend; fee coins are the party's own.            *)
NodeAnswer(p, x, coin, carrier) ==
  LET kind == x.id[1]
      fee == FeeValues[x.id[3]]
      depth == IF coin \in Mined THEN Len(chain) - HeightOf(coin) + 1 ELSE 0
  IN CASE x \in Mined -> "transaction already in block chain"
       [] x \in pool -> "txn-already-in-mempool"
       [] coin \notin Known -> "missing-inputs"
       [] \E y \in Mined : Spends(y, coin) \/ UsesFee(y, x) -> "missing-inputs"
       [] \E y \in pool : Spends(y, coin) \/ UsesFee(y, x) -> "txn-mempool-conflict"
       [] ~Accepts(cov.spk, coin.value, fee, depth, SpendTx(kind, carrier))
            -> "mandatory-script-verify-flag-failed"
       [] OTHER -> "accepted"

(* RadiantChainIO.broadcast: "already" with "mempool", "known" or "chain"  *)
(* is _AlreadyKnown, which _broadcast turns into success.                  *)
AlreadyKnown(answer) ==
  answer \in {"transaction already in block chain", "txn-already-in-mempool", "txn-already-known"}

(* claim_asset and refund_asset from the fee coin on.  The answer to an    *)
(* accepted broadcast may be lost, which is a NetworkError to the caller.  *)
Send(p) ==
  /\ party[p].at = "resolved"
  /\ \E f \in DOMAIN FeeValues, lost \in BOOLEAN :
       LET what == IF p = "taker" THEN "claim" ELSE "refund"
           coin == party[p].coin
           x == SpendOf(p, what, coin.id[2], f)
           answer == NodeAnswer(p, x, coin, coin.value)
       IN IF ~(IF what = "claim" THEN ClaimBuilds(<<"pre", Preimage, 32>>, coin.value, FeeValues[f])
               ELSE CheckCarrier(coin.value, FeeValues[f]))
          THEN lost = FALSE /\ party' = [party EXCEPT ![p] = Fails(p)] /\ UNCHANGED pool
          ELSE /\ lost => answer = "accepted"
               /\ pool' = IF answer = "accepted" THEN pool \cup {x} ELSE pool
               /\ party' = [party EXCEPT ![p] =
                    IF ~lost /\ (answer = "accepted" \/ AlreadyKnown(answer))
                    THEN [@ EXCEPT !.at = "done", !.answer = answer]
                    ELSE [Fails(p) EXCEPT !.answer = answer]]
  /\ UNCHANGED <<terms, cov, gate, chain, reorgs>>

----------------------------------------------------------------------------

Answers == [known : BOOLEAN, glyphId : {"absent", "malformed", Ref, OtherRef},
            outpoint : {"absent", Ref}, legacy : {"absent", OtherRef}]
GoodAnswer == [known |-> TRUE, glyphId |-> Ref, outpoint |-> "absent", legacy |-> "absent"]
Credentials ==
  {[spk |-> s, confs |-> c] : c \in 0..1,
     s \in {x \in {SoulboundScript(OtherRef, "taker"), ComposableScript(OtherRef, "taker"),
                   SoulboundScript(OtherRef, "third")} : SoulboundBuilds(x, OtherRef)}
           \cup {<<>>, NftHolderScript("taker", OtherRef),
            <<PushRef("D8", OtherRef), Op("DROP"), Op("INPUTINDEX"), Op("UTXOBYTECODE"),
              Op("DROP")>> \o P2pkh("taker")}}

(* Terms whose covenant is built and funded; and the answers the gate may  *)
(* get, for terms in SECONDS, for which the leg then builds no covenant.   *)
LegTerms ==
  [variant : Variants, amount : Amounts, csv : Csvs, unit : {"blocks"}, payout : {"taker"},
   token : {GoodAnswer},
   gated : {FALSE}, credential : {[spk |-> <<>>, confs |-> 0]}]
GateTerms ==
  {t \in [variant : Variants, amount : {CHOOSE a \in Amounts : TRUE}, csv : {CHOOSE c \in Csvs : TRUE},
          unit : {"seconds"}, payout : {"taker", "third"}, token : Answers, gated : BOOLEAN,
          credential : Credentials] :
     IF t.gated THEN t.token = GoodAnswer ELSE t.credential.spk = <<>> /\ t.credential.confs = 0}

Init ==
  /\ terms \in LegTerms \cup GateTerms
  /\ cov = BuildCovenant(terms)
  /\ gate = [at |-> "start", deep |-> FALSE]
  /\ chain = << {GenesisTx} >>
  /\ pool = {}
  /\ party = [p \in Parties |->
                [at |-> "idle", coin |-> CovenantFunding(0, 0), tries |-> 0, answer |-> "none"]]
  /\ reorgs = 0

Next ==
  \/ GateStart \/ GateConfs \/ GateCredential \/ Fund \/ Mine \/ Reorg
  \/ \E p \in Parties : Resolve(p) \/ ResolveConfs(p) \/ Send(p)

Spec == Init /\ [][Next]_vars

---------------------------------------------------------- (* properties *)

(* Spends anyone could build of a coin at the covenant's script.           *)
SomeSpends(t) ==
  LET h == [k \in Parties |-> HolderScript(t.variant, k, Ref)]
  IN {Spend("any", unlock, seq, version, outs) :
        unlock \in {<<<<"pre", Preimage, 32>>, Num(0)>>, <<<<"pre", 8, 32>>, Num(0)>>,
                    <<<<"pre", Preimage, 31>>, Num(0)>>, <<Num(1)>>},
        seq \in {t.csv - 1, t.csv, t.csv + 1, NoDelay}, version \in {1, 2},
        outs \in {<<[script |-> s, value |-> v]>> : s \in {h["taker"], h["maker"], P2pkh("third")},
                                                    v \in {t.amount - 1, t.amount}}
                 \cup {<<[script |-> h["taker"], value |-> t.amount],
                         [script |-> P2pkh("third"), value |-> 1]>>}}

(* What the swap agreed: with the preimage the taker is paid, after csv    *)
(* blocks of a version-2 spend the maker; in full, and in a single output. *)
KeepsTerms(t, depth, tx) ==
  /\ Len(tx.outs) = 1
  /\ tx.outs[1].value = t.amount
  /\ \/ /\ tx.unlock = <<<<"pre", Preimage, 32>>, Num(0)>>
        /\ tx.outs[1].script = HolderScript(t.variant, "taker", Ref)
     \/ /\ tx.unlock = <<Num(1)>>
        /\ tx.outs[1].script = HolderScript(t.variant, "maker", Ref)
        /\ tx.version = 2 /\ tx.seq \in t.csv..depth

(* The covenant the builders make, at every depth of its coin, accepts     *)
(* exactly the spends that keep the terms: it can neither be spent against *)
(* them nor be bricked, for every variant, amount and timelock.  The leg's *)
(* claim is one of them at every depth, its refund from csv blocks on; so  *)
(* no claim the leg sent is ever refused by the script.                    *)
CovenantIsExact ==
  /\ party["taker"].answer # "mandatory-script-verify-flag-failed"
  /\ (pool = {} /\ \A p \in Parties : party[p].at = "idle" /\ party[p].tries = 0) =>
       \A f \in Unspent \cap Mined : f.value = terms.amount =>
         LET spk == cov.spk
         IN /\ \A tx \in SomeSpends(terms) :
                 Accepts(spk, f.value, 1, ConfsOf(f), tx) <=> KeepsTerms(terms, ConfsOf(f), tx)
            /\ Accepts(spk, f.value, 1, ConfsOf(f), SpendTx("claim", f.value))
            /\ ConfsOf(f) >= terms.csv <=>
                 Accepts(spk, f.value, 1, ConfsOf(f), SpendTx("refund", f.value))

(* Behind a passed gate stands the advertised asset, whose own identity is *)
(* the ref; and, in a credential-gated swap, a credential that no spend    *)
(* can move to another script, whose owner's key alone spends it and is    *)
(* the one the swap pays.                                                  *)
GateIsSound ==
  gate.at = "ok" =>
    /\ terms.variant # "rxd" =>
         /\ gate.deep
         /\ \/ terms.token.glyphId = Ref
            \/ terms.token.glyphId = "absent" /\ terms.token.outpoint = Ref
    /\ terms.gated =>
         LET spk == terms.credential.spk
             moves == {Spend("any", <<<<"sig", k>>, <<"pub", k>>>>, NoDelay, 1, outs) :
                         k \in {"taker", "third"},
                         outs \in {<<[script |-> s, value |-> 1]>> :
                                     s \in {NftHolderScript("third", OtherRef), spk, P2pkh("third")}}
                                  \cup {<<[script |-> P2pkh("taker"), value |-> 1],
                                          [script |-> s, value |-> 1]>> :
                                     s \in {NftHolderScript("third", OtherRef), spk}}}
         IN \A tx \in moves : Accepts(spk, 2, 2, 1, tx) =>
              /\ \A i \in DOMAIN tx.outs : OtherRef \in InputRefs(tx.outs[i].script)
                                             => tx.outs[i].script = spk
              /\ tx.unlock[1] = <<"sig", terms.payout>>
=============================================================================
