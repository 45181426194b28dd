------------------------------ MODULE SpvTrade ------------------------------
(***************************************************************************)
(* The trade in which bitcoins are paid against a Merkle proof (gravity/   *)
(* covenant.py, transactions.py, maker.py, trade.py, spv/, and the script  *)
(* examples/gravity_full_trade.py).  The maker's offer is a coin that the  *)
(* taker claims; the claimed coin goes to the taker for a proof that the   *)
(* maker's Bitcoin address was paid, or back to the maker after the        *)
(* deadline.  The proof is read from a Bitcoin server in many requests,    *)
(* between which blocks come and go.                                       *)
(***************************************************************************)
EXTENDS Integers, Sequences, FiniteSets, SequencesExt, FiniteSetsExt

CONSTANTS
  Offers,
  Watched,         \* offers whose maker waits for the claim
  Requests,        \* what a maker may ask for: [hash, price, next, artifact]
  Artifacts,       \* bundled covenants: name -> [ctor, banned]
  Nbits,           \* difficulties: number -> [exp, man]
  FloorBits,       \* min_difficulty_nbits, one of them
  Payments,        \* Bitcoin transactions: payment -> [hash, sats, ins, sig, pos]
  Price,           \* btc_satoshis of the script
  Depths,          \* depths a block's Merkle tree may have
  MerkleDepth,     \* merkle_depth of an offer
  Slots,           \* header slots of the covenant's finalize
  RetargetAt,      \* height above the anchor from which the difficulty is another
  Confs,           \* TradeConfig.min_btc_confirmations
  Deadline, MinDelta, MaxTime,
  Funding, Offered, FeeRxd, FeeClaim, FeeFinalize,
  MaxPolls, MaxBlocks, MaxReorgs, MaxCrashes

(* A hash that a maker names is not that of a key derived for an offer;    *)
(* offers are numbered from 1.                                             *)
ASSUME TradeAssumption ==
  /\ Offers \subseteq Nat \ {0} /\ \A r \in Requests : r.hash \notin Offers
  /\ Slots \in Nat

VARIABLES
  script,   \* the trade is made with the script, and not with the library
  blocks,   \* every Bitcoin block after the anchor: [parent, height, pays, depth], and as
            \* history its path, the main chain when it was found
  main,     \* the blocks of the main chain, lowest first
  pool,     \* payments sent and not in a block of the main chain
  now,
  offer,    \* offer -> its terms, NoOffer before create_offer
  coin,     \* offer -> the offer's coin on Radiant
  maker,    \* offer -> the maker's session
  taker,    \* the taker's session
  file,     \* the script's state file
  spent,    \* proofs with which coins were finalized
  reorgs, crashes

chain == <<script, blocks, main, pool, reorgs>>
tradeVars ==
  <<script, blocks, main, pool, now, offer, coin, maker, taker, file, spent, reorgs, crashes>>

None == "none"
NoBlock == 0
NoPay == 0
NoId == 0         \* no offer
Unbound == 0      \* no block height, no hash, no number of slots

------------------------------------------------------------- (* Bitcoin *)

Tip == Len(main)
HeightOf(p) == IF \E h \in 1..Tip : p \in blocks[main[h]].pays
                 THEN CHOOSE h \in 1..Tip : p \in blocks[main[h]].pays ELSE 0
BitsAt(b) == IF blocks[b].height >= RetargetAt THEN 2 ELSE 1
Header(b) == [id |-> b, prev |-> blocks[b].parent, bits |-> BitsAt(b)]
NoHeader == [id |-> -1, prev |-> -1, bits |-> 0]

(* A block on the tip, or on an older block so that the top is replaced;   *)
(* a server may follow a branch before it is the longest.                  *)
Mine(keep, pays, depth) ==
  /\ Len(blocks) < MaxBlocks
  /\ keep = Tip \/ (keep < Tip /\ reorgs < MaxReorgs)
  /\ reorgs' = IF keep < Tip THEN reorgs + 1 ELSE reorgs
  /\ LET out == UNION {blocks[main[h]].pays : h \in keep + 1..Tip}
         parent == IF keep = 0 THEN NoBlock ELSE main[keep]
     IN  /\ pays \subseteq pool \cup out
         /\ main' = Append(SubSeq(main, 1, keep), Len(blocks) + 1)
         /\ blocks' = Append(blocks, [parent |-> parent, pays |-> pays, depth |-> depth,
                                     height |-> keep + 1, path |-> main'])
         /\ pool' = (pool \cup out) \ pays
  /\ UNCHANGED <<script, now, offer, coin, maker, taker, file, spent, crashes>>

Tick ==
  /\ now < MaxTime /\ now' = now + 1
  /\ UNCHANGED <<chain, offer, coin, maker, taker, file, spent, crashes>>

------------------------------------------------- (* what the server says *)

(* get_tx_block_height.                                                    *)
TxBlockHeight(p) == HeightOf(p)

(* get_raw_tx: refused below min_confirmations, counted on the tip.        *)
RawTxGiven(p, min) ==
  /\ HeightOf(p) > 0
  /\ min > 0 => Tip - HeightOf(p) + 1 >= min

(* get_merkle_proof: of the block the payment is in now, whatever height   *)
(* was asked for.  The root it leads to stands for the block.  The place   *)
(* may be given with bits beyond the depth, which no hash depends on.      *)
MerkleProofs(p) ==
  LET b == main[HeightOf(p)]
      depth == blocks[b].depth
  IN  {[root |-> b, depth |-> depth, pos |-> Payments[p].pos + high] : high \in {0, 2 ^ depth}}

---------------------------------------------------- (* building an offer *)

(* validate_claim_deadline, GravityOffer.validate_deadline_from_now.       *)
ValidateClaimDeadline(deadline) == deadline >= now + MinDelta
ValidateDeadlineFromNow(o) == offer[o].deadline >= now + MinDelta

Made == {o \in Offers : offer[o].made}
UsedHashes == {offer[o].hash : o \in Made}

(* Mutation: a receive hash of an earlier offer may be named again.        *)
FreshOrUsedHash(h) == h # Unbound

(* build_gravity_offer with the maker's used_btc_receive_hashes.           *)
ReceiveHashAllowed(h) == h \notin UsedHashes

(* derive_offer_btc_receive: one child key per offer index.                *)
DerivedHash(o) == o

(* CovenantArtifact.load, from_json: a bundled name that is on neither     *)
(* deny-list.                                                              *)
Load(name) == name \in DOMAIN Artifacts
FromJson(name) == ~Artifacts[name].banned

(* substitute: every placeholder of the template is a parameter that was   *)
(* given, and the script holds their values.                               *)
Filled(name, params) == Artifacts[name].ctor \subseteq DOMAIN params
Substitute(name, params) == [n \in Artifacts[name].ctor |-> params[n]]

(* _nbits_to_target.                                                       *)
NbitsToTarget(nb) ==
  IF nb.exp =< 3 THEN nb.man \div 256 ^ (3 - nb.exp) ELSE nb.man * 256 ^ (nb.exp - 3)

(* reject_low_difficulty: the headers' difficulty is what the covenant     *)
(* pins, so both committed targets are below the floor's.                  *)
HarderThanFloor(r) ==
  \A b \in {1, r.next} : NbitsToTarget(Nbits[b]) < NbitsToTarget(Nbits[FloorBits])

(* The claimed script of a request.  What the constructor does not name is *)
(* not in the script.                                                      *)
ClaimedParams(r) ==
  [btcReceiveHash |-> r.hash, btcSatoshis |-> r.price, expectedNBits |-> 1,
   totalPhotonsInOutput |-> Offered, expectedNBitsNext |-> r.next, claimDeadline |-> Deadline]
PinnedBits(claimed) ==
  {claimed[n] : n \in DOMAIN claimed \cap {"expectedNBits", "expectedNBitsNext"}}

(* build_gravity_offer: its checks, and the offer.                         *)
OfferBuilds(r) ==
  /\ ValidateClaimDeadline(Deadline)
  /\ r.price > 0 /\ Offered > 0
  /\ HarderThanFloor(r)
  /\ Load(r.artifact) /\ FromJson(r.artifact) /\ Filled(r.artifact, ClaimedParams(r))
Terms(r) ==
  [made |-> TRUE, hash |-> r.hash, price |-> r.price, bits |-> {1, r.next},
   depth |-> MerkleDepth, deadline |-> Deadline, floor |-> Offered,
   claimed |-> Substitute(r.artifact, ClaimedParams(r))]
NoOffer ==
  [made |-> FALSE, hash |-> 0, price |-> 0, bits |-> {}, depth |-> 0, deadline |-> 0,
   floor |-> 0, claimed |-> <<>>]

(* build_gravity_offer_derived: the request with the derived hash, which   *)
(* no list of used hashes is needed for.                                   *)
Derived(o, r) == [r EXCEPT !.hash = DerivedHash(o)]

(* build_maker_offer_tx: without a change address all of the funding goes  *)
(* into the offer, and what exceeds the floor pays the later fees.         *)
MakerOfferPhotons(change) == IF change THEN Offered ELSE Funding - FeeRxd
MakerOfferFunded(change) ==
  IF change THEN Funding - FeeRxd - Offered >= 0 ELSE MakerOfferPhotons(change) >= Offered

Stage(o) == coin[o].stage
NoCoin == [stage |-> "none", photons |-> 0, listed |-> FALSE]
BuildMakerOfferTx(change) ==
  [NoCoin EXCEPT !.stage = "offer", !.photons = MakerOfferPhotons(change)]
Become(o, stage, photons) ==
  coin' = [coin EXCEPT ![o].stage = stage, ![o].photons = photons]

(* The scripts as the chain runs them.  MakerOffer: cancel, or claim into  *)
(* the claimed script with at least the floor.  MakerClaimed: finalize, or *)
(* forfeit after the deadline.                                             *)
ChainTakesClaim(o) == Stage(o) = "offer" /\ coin[o].photons - FeeClaim >= offer[o].floor
ChainTakesCancel(o) == Stage(o) = "offer"
ChainTakesForfeit(o) ==
  /\ Stage(o) = "claimed" /\ now >= offer[o].deadline
  /\ coin[o].photons - FeeRxd >= offer[o].floor

Linked(headers) ==
  \A i \in DOMAIN headers :
    headers[i].prev = (IF i = 1 THEN NoBlock ELSE headers[i - 1].id)
Pays(o, p) == Payments[p].hash = offer[o].hash /\ Payments[p].sats >= offer[o].price
OneSegwitInput(p) == Payments[p].ins = 1 /\ Payments[p].sig \in {0, 23}

ChainTakesFinalize(o, proof, out) ==
  /\ Stage(o) = "claimed"
  /\ Len(proof.headers) = Slots /\ Linked(proof.headers)
  /\ \A i \in DOMAIN proof.headers : proof.headers[i].bits
       \in PinnedBits(offer[o].claimed)
  /\ \E i \in DOMAIN proof.headers :
       proof.headers[i].id = proof.root /\ proof.pay \in blocks[proof.root].pays
  /\ OneSegwitInput(proof.pay) /\ Pays(o, proof.pay)
  /\ out >= offer[o].floor

------------------------------------------------------------ (* the maker *)

(* GravityMakerSession.create_offer, of an offer with a hash of the        *)
(* maker's or with the one derived for it (build_gravity_offer_derived).   *)
CreateOffer(o, r, change) ==
  LET req == IF r.hash = Unbound THEN Derived(o, r) ELSE r
  IN  /\ ~script /\ ~offer[o].made
      /\ \A q \in Offers : q < o => offer[q].made
      /\ r.hash # Unbound => ReceiveHashAllowed(r.hash)
      /\ OfferBuilds(req) /\ MakerOfferFunded(change)
      /\ offer' = [offer EXCEPT ![o] = Terms(req)]
      /\ coin' = [coin EXCEPT ![o] = BuildMakerOfferTx(change)]
      /\ maker' = [maker EXCEPT ![o].pc = IF o \in Watched THEN "wait" ELSE "told"]
      /\ UNCHANGED <<chain, now, taker, file, spent, crashes>>

(* The maker's server gets to know the offer's output.                     *)
Listed(o) ==
  /\ Stage(o) # "none" /\ o \in Watched /\ ~coin[o].listed
  /\ coin' = [coin EXCEPT ![o].listed = TRUE]
  /\ UNCHANGED <<chain, now, offer, maker, taker, file, spent, crashes>>

OfferUnspent(o) == coin[o].listed /\ Stage(o) = "offer"

(* wait_for_claim: one poll, that may fail; the sentinel is given from the *)
(* second poll on when the output is not listed.                           *)
PollForClaim(o, failed) ==
  LET last == maker[o].polls + 1 >= MaxPolls
      says == CASE failed /\ last -> "error"
                [] ~failed /\ ~OfferUnspent(o) /\ maker[o].polls > 0 -> "claimed"
                [] ~failed /\ last -> "timeout"
                [] OTHER -> None
  IN  /\ maker[o].pc = "wait"
      /\ maker' = [maker EXCEPT ![o].polls = @ + 1, ![o].says = says,
                                ![o].pc = IF says = None THEN "wait" ELSE "told"]
      /\ UNCHANGED <<chain, now, offer, coin, taker, file, spent, crashes>>

(* check_status: an output that is not listed is "claimed".                *)
CheckStatus(o) ==
  /\ maker[o].pc = "told" /\ o \in Watched
  /\ maker' = [maker EXCEPT ![o].says =
       IF ~OfferUnspent(o) THEN "claimed"
       ELSE IF offer[o].deadline =< now THEN "expired" ELSE "open"]
  /\ UNCHANGED <<chain, now, offer, coin, taker, file, spent, crashes>>

(* cancel_offer and build_forfeit_tx: the maker may try at any time; the   *)
(* chain decides.  (build_cancel_tx refuses a fee above the coin.)         *)
BuildCancelTx(o) == coin[o].photons - FeeRxd > 0
CancelOffer(o) ==
  /\ maker[o].pc \in {"wait", "told"} /\ BuildCancelTx(o)
  /\ ChainTakesCancel(o) /\ Become(o, "cancelled", coin[o].photons - FeeRxd)
  /\ maker' = [maker EXCEPT ![o].pc = "ended"]
  /\ UNCHANGED <<chain, now, offer, taker, file, spent, crashes>>

Forfeit(o) ==
  /\ offer[o].made /\ offer[o].deadline =< now
  /\ ChainTakesForfeit(o) /\ Become(o, "forfeited", coin[o].photons - FeeRxd)
  /\ maker' = [maker EXCEPT ![o].pc = "ended"]
  /\ UNCHANGED <<chain, now, offer, taker, file, spent, crashes>>

------------------------------------------------------- (* the SPV proof *)

(* Mutation: headers are not checked to follow each other.                 *)
VerifyChainUnlinked(headers, bits) ==
  /\ headers # <<>> /\ headers[1].prev = NoBlock
  /\ bits # {} => \A i \in DOMAIN headers : headers[i].bits \in bits

(* verify_chain: every header committed to the difficulty, linked to the   *)
(* one before it, the first to the anchor (verify_header_pow is what makes *)
(* a header one of the blocks).                                            *)
VerifyChain(headers, bits) ==
  /\ headers # <<>>
  /\ Linked(headers)
  /\ bits # {} => \A i \in DOMAIN headers : headers[i].bits \in bits

(* build_branch: on which side each sibling is, by the bits of the place,  *)
(* or a refusal.                                                           *)
Sides(pos, depth) == [i \in 1..depth |-> (pos \div 2 ^ (i - 1)) % 2]
BuildBranch(branch) ==
  IF branch.pos < 2 ^ branch.depth THEN {Sides(branch.pos, branch.depth)} ELSE {}

(* compute_root: hashed with its siblings on their sides, the transaction  *)
(* gives the block's root, and otherwise a hash of nothing.                *)
ComputeRoot(p, branch, sides) ==
  IF sides = Sides(Payments[p].pos, branch.depth) THEN branch.root ELSE NoHeader.id

(* verify_tx_in_block: not the coinbase, the depth the offer names, and    *)
(* the root of the header.                                                 *)
VerifyTxInBlock(p, header, branch, depth) ==
  /\ branch.pos # 0 /\ branch.depth = depth
  /\ \E sides \in BuildBranch(branch) : ComputeRoot(p, branch, sides) = header.id

(* verify_payment on output 0.                                             *)
VerifyPayment(p, hash, sats) ==
  Payments[p].hash = hash /\ Payments[p].sats >= sats /\ Payments[p].sats > 0

(* _max_input_scriptsig_len.                                               *)
ScriptSigShort(p) == Payments[p].sig =< 127

(* _find_output_zero_offset.                                               *)
FindsOutputZero(p) == OneSegwitInput(p)

(* The end of build: the payment is looked for at output 0 and nowhere     *)
(* else.                                                                   *)
PaysAtOutput(p, params) == FindsOutputZero(p) /\ VerifyPayment(p, params.hash, params.sats)

(* CovenantParams: a proof is built for terms that are whole.              *)
CovenantParams(params) == params.sats > 0 /\ params.depth \in 1..32

(* SpvProofBuilder.build: with a height the header is the one at that      *)
(* height above the anchor, without it any.                                *)
BuildProof(p, headers, branch, height, params) ==
  LET fits(i) == VerifyTxInBlock(p, headers[i], branch, params.depth)
  IN  /\ CovenantParams(params) /\ ScriptSigShort(p)
      /\ VerifyChain(headers, params.bits)
      /\ IF height # Unbound
           THEN height \in DOMAIN headers /\ fits(height)
           ELSE \E i \in DOMAIN headers : fits(i)
      /\ PaysAtOutput(p, params)

(* build_finalize_tx: the floor, and the header slots when they are given. *)
FinalizeBuilds(o, headers, slots) ==
  /\ coin[o].photons - FeeFinalize >= offer[o].floor
  /\ slots # Unbound => Len(headers) = slots

------------------------------------------- (* the taker: GravityTrade *)

Idle ==
  [pc |-> "idle", o |-> NoId, pay |-> NoPay, polls |-> 0, height |-> 0,
   branch |-> [root |-> 0, depth |-> 0, pos |-> 0], headers |-> <<>>, want |-> 0, proof |-> <<>>]
Taker(pc) == taker.pc = pc

(* build_claim_tx: the deadline is far enough, the redeem script is the    *)
(* one the offer's code hash names, and the fee leaves something.          *)
BuildClaimTx(o) == ValidateDeadlineFromNow(o) /\ coin[o].photons - FeeClaim > 0

(* GravityTrade.claim: it is built and sent.                               *)
Claim(o) ==
  /\ ~script /\ Taker("idle") /\ offer[o].made /\ BuildClaimTx(o)
  /\ IF ChainTakesClaim(o)
       THEN /\ Become(o, "claimed", coin[o].photons - FeeClaim)
            /\ taker' = [taker EXCEPT !.pc = "pay", !.o = o]
       ELSE taker' = [taker EXCEPT !.pc = "error"] /\ UNCHANGED coin
  /\ UNCHANGED <<chain, now, offer, maker, file, spent, crashes>>

Sent == pool \cup UNION {blocks[b].pays : b \in DOMAIN blocks}

(* The payment is made outside of the code; a taker may hold that one it   *)
(* made before will do.                                                    *)
Pay(p) ==
  /\ Taker("pay") \/ (Taker("idle") /\ file.offer # NoId)
  /\ pool' = IF p \in Sent THEN pool ELSE pool \cup {p}
  /\ taker' = IF Taker("pay") THEN [taker EXCEPT !.pc = "confs", !.pay = p] ELSE taker
  /\ UNCHANGED <<script, blocks, main, reorgs, now, offer, coin, maker, file, spent, crashes>>

(* wait_confirmations: one poll of two requests.                           *)
PollConfirmations ==
  LET enough == RawTxGiven(taker.pay, 0) /\ RawTxGiven(taker.pay, Confs)
      last == taker.polls + 1 >= MaxPolls
  IN  /\ Taker("confs")
      /\ taker' = [taker EXCEPT !.polls = @ + 1,
                     !.pc = IF enough THEN "height" ELSE IF last THEN "error" ELSE "confs"]
      /\ UNCHANGED <<chain, now, offer, coin, maker, file, spent, crashes>>

Fetched(ok, pc, t) == taker' = IF ok THEN [t EXCEPT !.pc = pc] ELSE [taker EXCEPT !.pc = "error"]
Reading == UNCHANGED <<chain, now, offer, coin, maker, file, spent, crashes>>

(* finalize, request by request: the height, the transaction, the proof.   *)
FinalizeHeight ==
  /\ Taker("height") /\ Reading
  /\ Fetched(TxBlockHeight(taker.pay) > 0, "raw",
             [taker EXCEPT !.height = TxBlockHeight(taker.pay)])

FinalizeRawTx ==
  /\ Taker("raw") /\ Reading
  /\ Fetched(RawTxGiven(taker.pay, Confs), "merkle", taker)

FinalizeMerkle ==
  /\ Taker("merkle") /\ Reading
  /\ IF HeightOf(taker.pay) = 0 THEN Fetched(FALSE, "error", taker)
       ELSE \E branch \in MerkleProofs(taker.pay) :
              Fetched(taker.height >= 1 /\ taker.height =< offer[taker.o].depth + 100, "headers",
                      [taker EXCEPT !.branch = branch, !.want = taker.height,
                                    !.headers = [i \in 1..taker.height |-> NoHeader]])

(* get_header_chain: the headers are asked for at once and come one by     *)
(* one, in any order, each of the main chain as it is then.                *)
FetchHeader(i) ==
  /\ taker.pc \in {"headers", "sheaders"} /\ Reading
  /\ i \in DOMAIN taker.headers /\ taker.headers[i] = NoHeader
  /\ Fetched(i =< Tip, taker.pc,
             IF i =< Tip THEN [taker EXCEPT !.headers[i] = Header(main[i])] ELSE taker)

AllHeaders == \A i \in DOMAIN taker.headers : taker.headers[i] # NoHeader

OfferParams(o) ==
  [bits |-> offer[o].bits, depth |-> offer[o].depth, hash |-> offer[o].hash,
   sats |-> offer[o].price]

ProofOf(t) == [pay |-> t.pay, headers |-> t.headers, root |-> t.branch.root]

(* finalize: the proof is built from what was fetched, then the            *)
(* transaction, without the covenant's number of slots.                    *)
FinalizeBuild ==
  LET ok == /\ BuildProof(taker.pay, taker.headers, taker.branch, taker.height,
                          OfferParams(taker.o))
            /\ FinalizeBuilds(taker.o, taker.headers, Unbound)
  IN  /\ Taker("headers") /\ AllHeaders /\ Reading
      /\ Fetched(ok, "send", [taker EXCEPT !.proof = <<ProofOf(taker)>>])

Finalized(o, proof) ==
  LET out == coin[o].photons - FeeFinalize
  IN  IF ChainTakesFinalize(o, proof, out)
        THEN /\ Become(o, "finalized", out)
             /\ spent' = Append(spent, [o |-> o, pay |-> proof.pay])
             /\ taker' = Idle
        ELSE /\ taker' = [taker EXCEPT !.pc = "error"] /\ UNCHANGED <<coin, spent>>

SendFinalize ==
  /\ Taker("send") /\ Finalized(taker.o, taker.proof[1])
  /\ UNCHANGED <<chain, now, offer, maker, file, crashes>>

(* A call that failed may be made again; what was claimed stays claimed.   *)
TryFinalizeAgain ==
  /\ Taker("error") /\ taker.pay # NoPay /\ taker.o # NoId /\ taker.polls < MaxPolls
  /\ taker' = [taker EXCEPT !.pc = "height", !.polls = @ + 1, !.proof = <<>>, !.headers = <<>>]
  /\ Reading

------------------------------------------------ (* the taker: the script *)

NoFile == [offer |-> NoId, claimed |-> FALSE]

(* The anchor block's own difficulty, no other, and the unified covenant.  *)
ScriptRequest(o) ==
  [hash |-> DerivedHash(o), price |-> Price, next |-> 1, artifact |-> "unified"]

(* mode_offer: both sides' keys are made here, and the state is saved      *)
(* after the offer has been sent.                                          *)
ModeOffer(o, saved) ==
  /\ script /\ o = 1 /\ file.offer = NoId /\ ~offer[o].made
  /\ OfferBuilds(ScriptRequest(o)) /\ MakerOfferFunded(FALSE)
  /\ offer' = [offer EXCEPT ![o] = Terms(ScriptRequest(o))]
  /\ coin' = [coin EXCEPT ![o] = BuildMakerOfferTx(FALSE)]
  /\ saved \/ crashes < MaxCrashes
  /\ file' = IF saved THEN [NoFile EXCEPT !.offer = o] ELSE file
  /\ crashes' = IF saved THEN crashes ELSE crashes + 1
  /\ UNCHANGED <<chain, now, maker, taker, spent>>

(* mode_claim starts: a confirmed payment to the address of the file.      *)
ModeClaimPayment(p) ==
  /\ Taker("idle") /\ file.offer # NoId /\ HeightOf(p) > 0
  /\ Payments[p].hash = offer[file.offer].hash
  /\ taker' = [Idle EXCEPT !.pc = "sproof", !.o = file.offer, !.pay = p]
  /\ Reading

(* mode_claim: the transaction, its proof, the amount, and enough blocks.  *)
ModeClaimProof ==
  /\ Taker("sproof") /\ Reading
  /\ IF HeightOf(taker.pay) = 0 THEN Fetched(FALSE, "error", taker)
       ELSE \E branch \in MerkleProofs(taker.pay) :
              Fetched(RawTxGiven(taker.pay, 1) /\ FindsOutputZero(taker.pay)
                        /\ Payments[taker.pay].sats >= Price /\ Tip >= Slots,
                      "sheaders",
                      [taker EXCEPT !.branch = branch, !.want = Slots,
                                    !.headers = [i \in 1..Slots |-> NoHeader]])

(* The script's parameters: no difficulty, any amount, the branch's depth. *)
ScriptParams(o) ==
  [bits |-> {}, depth |-> taker.branch.depth, hash |-> offer[o].hash, sats |-> 1]

ModeClaimBuild ==
  /\ Taker("sheaders") /\ AllHeaders /\ Reading
  /\ Fetched(BuildProof(taker.pay, taker.headers, taker.branch, Unbound, ScriptParams(taker.o)),
             "sclaim", [taker EXCEPT !.proof = <<ProofOf(taker)>>])

(* The claim is sent, and saved with its transaction's name; a claim of an *)
(* earlier run is taken from the file.                                     *)
ModeClaimSend(saved) ==
  /\ Taker("sclaim")
  /\ saved \/ crashes < MaxCrashes
  /\ IF file.claimed
       THEN saved /\ taker' = [taker EXCEPT !.pc = "sfinal"] /\ UNCHANGED <<coin, file, crashes>>
       ELSE IF ChainTakesClaim(taker.o)
       THEN /\ Become(taker.o, "claimed", coin[taker.o].photons - FeeClaim)
            /\ file' = IF saved THEN [file EXCEPT !.claimed = TRUE] ELSE file
            /\ taker' = IF saved THEN [taker EXCEPT !.pc = "sfinal"] ELSE Idle
            /\ crashes' = IF saved THEN crashes ELSE crashes + 1
       ELSE saved /\ taker' = Idle /\ UNCHANGED <<coin, file, crashes>>
  /\ UNCHANGED <<chain, now, offer, maker, spent>>

ModeClaimFinalize ==
  /\ Taker("sfinal")
  /\ IF FinalizeBuilds(taker.o, taker.headers, Slots)
       THEN Finalized(taker.o, taker.proof[1])
       ELSE taker' = [taker EXCEPT !.pc = "error"] /\ UNCHANGED <<coin, spent>>
  /\ UNCHANGED <<chain, now, offer, maker, file, crashes>>

(* mode_forfeit: only a claim the file knows of, and not before the        *)
(* deadline; the fee is capped so that the floor holds.                    *)
ModeForfeit ==
  LET o == file.offer IN
  /\ o # NoId /\ file.claimed /\ now >= offer[o].deadline
  /\ Stage(o) = "claimed"
  /\ Become(o, "forfeited", offer[o].floor)
  /\ UNCHANGED <<chain, now, offer, maker, taker, file, spent, crashes>>

(* A run of the script that failed is started again.                       *)
ScriptRunsAgain ==
  /\ Taker("error") /\ file.offer # NoId /\ taker.o = file.offer
  /\ taker' = Idle /\ Reading

TradeInit ==
  /\ script \in BOOLEAN
  /\ blocks = <<>> /\ main = <<>> /\ pool = {} /\ now = 0 /\ reorgs = 0 /\ crashes = 0
  /\ offer = [o \in Offers |-> NoOffer] /\ coin = [o \in Offers |-> NoCoin]
  /\ maker = [o \in Offers |-> [pc |-> "new", polls |-> 0, says |-> None]]
  /\ taker = Idle /\ file = NoFile /\ spent = <<>>

TradeNext ==
  \/ \E keep \in 0..Tip, pays \in SUBSET DOMAIN Payments, d \in Depths : Mine(keep, pays, d)
  \/ Tick
  \/ \E o \in Offers, r \in Requests, change \in BOOLEAN : CreateOffer(o, r, change)
  \/ \E o \in Offers : Listed(o) \/ CheckStatus(o) \/ CancelOffer(o) \/ Forfeit(o)
  \/ \E o \in Offers, failed \in BOOLEAN : PollForClaim(o, failed)
  \/ \E o \in Offers : Claim(o)
  \/ \E p \in DOMAIN Payments : Pay(p) \/ ModeClaimPayment(p)
  \/ PollConfirmations \/ FinalizeHeight \/ FinalizeRawTx \/ FinalizeMerkle
  \/ \E i \in 1..MaxBlocks : FetchHeader(i)
  \/ FinalizeBuild \/ SendFinalize \/ TryFinalizeAgain
  \/ \E o \in Offers, saved \in BOOLEAN : ModeOffer(o, saved)
  \/ ModeClaimProof \/ ModeClaimBuild \/ ModeClaimFinalize
  \/ \E saved \in BOOLEAN : ModeClaimSend(saved)
  \/ ModeForfeit \/ ScriptRunsAgain

TradeSpec == TradeInit /\ [][TradeNext]_tradeVars

----------------------------------------------------------- (* properties *)

(* Every proof the taker's side has built is about one chain that was the  *)
(* main chain at some moment, from the anchor on, whatever blocks were     *)
(* replaced between the requests it was read in; the payment is in a block *)
(* of that chain and pays this offer's address the price (finalize,        *)
(* SpvProofBuilder.build, verify_chain, mode_claim).                       *)
ProofsAreReal ==
  taker.proof # <<>> =>
    LET proof == taker.proof[1]
        ids == [i \in DOMAIN proof.headers |-> proof.headers[i].id]
    IN  /\ \E b \in DOMAIN blocks : ids = blocks[b].path
        /\ \E i \in DOMAIN ids : proof.pay \in blocks[ids[i]].pays
        /\ Payments[proof.pay].hash = offer[taker.o].hash
        /\ Payments[proof.pay].sats >= offer[taker.o].price

(* One Bitcoin payment moves the assets of one offer, however many offers  *)
(* the maker has out and in whatever order they are claimed                *)
(* (build_gravity_offer's used_btc_receive_hashes,                         *)
(* derive_offer_btc_receive).                                              *)
OnePaymentOneAsset ==
  \A i, j \in DOMAIN spent : spent[i].pay = spent[j].pay => i = j

(* An SPV trade is finalized with a proof from one real chain, and one     *)
(* payment moves one asset.                                                *)
TradesAreReal == ProofsAreReal /\ OnePaymentOneAsset

(* As wait_for_claim and check_status tell it: an offer reported claimed   *)
(* has been claimed by the taker (maker.py).                               *)
SentinelMeansClaimed ==
  \A o \in Offers :
    maker[o].says = "claimed" => Stage(o) \in {"claimed", "finalized", "forfeited"}

(* As TradeConfig tells it: a payment with the confirmations asked for,    *)
(* proved by GravityTrade.finalize, is what the covenant accepts while the *)
(* claimed coin is there.                                                  *)
FinalizeIsAccepted ==
  Taker("send") /\ Stage(taker.o) = "claimed" =>
    ChainTakesFinalize(taker.o, taker.proof[1], coin[taker.o].photons - FeeFinalize)

=============================================================================
