---------------------------- MODULE LedgerProofs ----------------------------
(***************************************************************************)
(* The SPV trade, for any offers, requests, artifacts, payments, tree      *)
(* depths, confirmations, slots, fees and times, and any number of blocks, *)
(* reorganizations and crashes.  A proof is read in many requests, each    *)
(* answered from the main chain of that moment; the invariant says that    *)
(* every header the taker holds is of a block that was found, that the     *)
(* branch is of a block with the payment in it, and that a block's path is *)
(* its parent's path and itself.  Headers that are linked from the anchor  *)
(* on are then one path.                                                   *)
(*                                                                         *)
(* The token commands, for any keys, metadata, supplies, fees and number   *)
(* of processes and transactions: whatever a command has built passes on   *)
(* each NFT it signs for, and a step in between signs for none.            *)
(*                                                                         *)
(* The claims of dMint contracts, for any deploys, parameters given by the *)
(* claimer and clocks: what the fetch takes for the contract's state was   *)
(* an output of it, and outputs are never taken back.                      *)
(***************************************************************************)
EXTENDS SpvTrade, Tokens, Dmint, SequenceTheorems, WellFoundedInduction, TLAPS

------------------------------------------------------ (* the invariants *)

(* A block's path is its parent's path and itself; the path of a block of  *)
(* the main chain is the main chain up to it.                              *)
PathBefore(b, bs) == IF bs[b].parent = NoBlock THEN <<>> ELSE bs[bs[b].parent].path
PathFollows(b, bs) == bs[b].parent \in 0 .. b - 1 /\ bs[b].path = Append(PathBefore(b, bs), b)
PathsFollow == \A b \in DOMAIN blocks : PathFollows(b, blocks)
PathsAreOfBlocks ==
  \A b \in DOMAIN blocks : \A i \in DOMAIN blocks[b].path : blocks[b].path[i] \in DOMAIN blocks
MainIsPath == \A h \in DOMAIN main : blocks[main[h]].path = SubSeq(main, 1, h)
Blocks == [parent : Nat, pays : SUBSET DOMAIN Payments, depth : Depths, height : Nat,
           path : Seq(Nat)]
ChainInv ==
  /\ blocks \in Seq(Blocks) /\ main \in Seq(Nat)
  /\ \A h \in DOMAIN main : main[h] \in DOMAIN blocks
  /\ PathsFollow /\ PathsAreOfBlocks /\ MainIsPath

(* Offers that were made have hashes of their own: the derived one of the  *)
(* offer or one that the maker named and that was not used.                *)
OffersTyped ==
  /\ DOMAIN offer = Offers /\ DOMAIN coin = Offers
  /\ \A o \in Offers : DOMAIN coin[o] = {"stage", "photons", "listed"}
OwnOrNamed == \A o \in Offers : offer[o].made => offer[o].hash = o \/ offer[o].hash \notin Offers
HashesDiffer ==
  \A o, q \in Offers : offer[o].made /\ offer[q].made /\ offer[o].hash = offer[q].hash => o = q
CoinsAreOffered == \A o \in Offers : Stage(o) # "none" => offer[o].made
ScriptAsksPrice == script => \A o \in Offers : offer[o].made => offer[o].price = Price
FileNamesOffer ==
  /\ DOMAIN file = {"offer", "claimed"}
  /\ file.offer # NoId => script /\ file.offer \in Offers /\ offer[file.offer].made
OfferInv ==
  /\ OffersTyped /\ OwnOrNamed /\ HashesDiffer
  /\ CoinsAreOffered /\ ScriptAsksPrice /\ FileNamesOffer

(* What the taker holds of a proof.                                        *)
Fields == {"pc", "o", "pay", "polls", "height", "branch", "headers", "want", "proof"}
PayIds == DOMAIN Payments \cup {NoPay}
Headers == {NoHeader} \cup {Header(b) : b \in DOMAIN blocks}
TakerTyped ==
  /\ DOMAIN taker = Fields /\ taker.pay \in PayIds /\ taker.height \in Nat
  /\ taker.headers \in Seq(Headers)
OffersAreMade ==
  /\ taker.o # NoId => taker.o \in Offers /\ offer[taker.o].made
  /\ taker.pc \notin {"idle", "error"} => taker.o # NoId
BranchIsOfPayment ==
  taker.branch.root # NoBlock =>
    taker.branch.root \in DOMAIN blocks /\ taker.pay \in blocks[taker.branch.root].pays
NothingReadYet ==
  taker.pc \in {"idle", "pay"} => taker.branch.root = NoBlock /\ taker.proof = <<>>
ProofIsBuilt ==
  /\ taker.pc \notin {"send", "sclaim", "sfinal", "error"} => taker.proof = <<>>
  /\ taker.pc \in {"send", "sclaim", "sfinal"} => taker.proof # <<>>
  /\ taker.proof # <<>> => taker.o # NoId /\ taker.proof[1].pay = taker.pay
ScriptPays ==
  /\ taker.pc \in {"sproof", "sheaders", "sclaim", "sfinal"} => script
  /\ taker.pc = "sheaders" => Payments[taker.pay].sats >= Price
TakerInv ==
  /\ TakerTyped /\ OffersAreMade /\ BranchIsOfPayment /\ NothingReadYet /\ ProofIsBuilt
  /\ ScriptPays /\ ProofsAreReal

(* A finalized coin was paid by a payment to its offer's address, and was  *)
(* finalized once.                                                         *)
SpentFor(e, asset, terms) ==
  e.o \in Offers /\ asset[e.o].stage = "finalized" /\ terms[e.o].made
    /\ Payments[e.pay].hash = terms[e.o].hash
SpentInv ==
  /\ spent \in Seq([o : Offers, pay : PayIds])
  /\ \A i \in DOMAIN spent : SpentFor(spent[i], coin, offer)
  /\ \A i, j \in DOMAIN spent : spent[i].o = spent[j].o => i = j

TradeInv == ChainInv /\ OfferInv /\ TakerInv /\ SpentInv

---------------------------------------------------- (* paths of blocks *)

NatBefore == {pair \in Nat \X Nat : pair[1] < pair[2]}

(* A set of natural numbers that is not empty has a least element.         *)
LEMMA NatLeast ==
  ASSUME NEW S, S \subseteq Nat, S # {}
  PROVE  \E x \in S : \A y \in S : x <= y
<1>1. IsWellFoundedOn(NatBefore, Nat)
  <2>1. NatBefore = OpToRel(<, Nat)
    BY Zenon DEF OpToRel, NatBefore
  <2> QED
    BY <2>1, NatLessThanWellFounded
<1>2. \A x, y \in Nat : <<x, y>> \in NatBefore <=> x < y
  BY DEF NatBefore
<1>3. PICK x \in S : \A y \in S : ~(<<y, x>> \in NatBefore)
  BY <1>1, WFMin
<1>4. ASSUME NEW y \in S PROVE x <= y
  <2>1. x \in Nat /\ y \in Nat /\ ~(y < x)
    BY <1>2, <1>3
  <2> QED
    BY <2>1
<1> QED
  BY <1>4

(* A first segment, and the same with one more element.                    *)
LEMMA SegmentGrows ==
  ASSUME NEW S, NEW s \in Seq(S), NEW k \in 1 .. Len(s)
  PROVE  SubSeq(s, 1, k) = Append(SubSeq(s, 1, k - 1), s[k])
<1>1. /\ SubSeq(s, 1, k) \in Seq(S) /\ Len(SubSeq(s, 1, k)) = k
      /\ \A i \in 1 .. k : SubSeq(s, 1, k)[i] = s[i]
  BY SubSeqProperties
<1>2. /\ SubSeq(s, 1, k - 1) \in Seq(S) /\ Len(SubSeq(s, 1, k - 1)) = k - 1
      /\ \A i \in 1 .. k - 1 : SubSeq(s, 1, k - 1)[i] = s[i]
  BY SubSeqProperties
<1>3. s[k] \in S
  BY ElementOfSeq
<1>4. /\ Append(SubSeq(s, 1, k - 1), s[k]) \in Seq(S)
      /\ Len(Append(SubSeq(s, 1, k - 1), s[k])) = k
      /\ \A i \in 1 .. k : Append(SubSeq(s, 1, k - 1), s[k])[i] = s[i]
  BY <1>2, <1>3, AppendProperties
<1> QED
  BY <1>1, <1>4, SeqEqual

(* Sequences that agree up to h have the same first segment.               *)
LEMMA SegmentsAgree ==
  ASSUME NEW S, NEW s \in Seq(S), NEW t \in Seq(S), NEW h \in 1 .. Len(s), h <= Len(t),
         \A i \in 1 .. h : s[i] = t[i]
  PROVE  SubSeq(s, 1, h) = SubSeq(t, 1, h)
<1>1. /\ SubSeq(s, 1, h) \in Seq(S) /\ Len(SubSeq(s, 1, h)) = h
      /\ \A i \in 1 .. h : SubSeq(s, 1, h)[i] = s[i]
  BY SubSeqProperties
<1>2. /\ SubSeq(t, 1, h) \in Seq(S) /\ Len(SubSeq(t, 1, h)) = h
      /\ \A i \in 1 .. h : SubSeq(t, 1, h)[i] = t[i]
  BY SubSeqProperties
<1> QED
  BY <1>1, <1>2, SeqEqual

(* verify_chain: headers that are linked from the anchor on are the path   *)
(* of the last one.                                                        *)
LEMMA LinkedIsPath ==
  ASSUME ChainInv, NEW hs \in Seq({Header(b) : b \in DOMAIN blocks}), hs # <<>>, Linked(hs),
         NEW ids, ids = [i \in DOMAIN hs |-> hs[i].id]
  PROVE  \E b \in DOMAIN blocks : ids = blocks[b].path
<1> DEFINE n == Len(hs)
<1>1. n \in Nat \ {0} /\ DOMAIN hs = 1 .. n
  BY EmptySeq, LenProperties
<1>2. \A i \in 1 .. n : /\ hs[i].id \in DOMAIN blocks
                        /\ hs[i].prev = blocks[hs[i].id].parent
  <2> SUFFICES ASSUME NEW i \in 1 .. n
               PROVE  hs[i].id \in DOMAIN blocks /\ hs[i].prev = blocks[hs[i].id].parent
    OBVIOUS
  <2>1. hs[i] \in {Header(b) : b \in DOMAIN blocks}
    BY <1>1, ElementOfSeq
  <2> QED
    BY <2>1 DEF Header
<1>3. DOMAIN blocks = 1 .. Len(blocks) /\ Len(blocks) \in Nat
  BY LenProperties DEF ChainInv
<1>4. ids \in Seq(Nat) /\ Len(ids) = n /\ \A i \in 1 .. n : ids[i] = hs[i].id
  <2>1. ids \in [1 .. n -> Nat]
    BY <1>1, <1>2, <1>3
  <2> QED
    BY <1>1, <2>1, IsASeq
<1> DEFINE bad == {k \in 1 .. n : blocks[ids[k]].path # SubSeq(ids, 1, k)}
<1>5. bad = {}
  <2> SUFFICES ASSUME bad # {} PROVE FALSE
    OBVIOUS
  <2>1. PICK k \in bad : \A y \in bad : k <= y
    <3>1. bad \subseteq Nat
      BY <1>1
    <3> HIDE DEF bad
    <3> QED
      BY <3>1, NatLeast
  <2>2. k \in 1 .. n /\ ids[k] \in DOMAIN blocks /\ PathFollows(ids[k], blocks)
    BY <1>2, <1>4 DEF ChainInv, PathsFollow
  <2>3. PathBefore(ids[k], blocks) = SubSeq(ids, 1, k - 1)
    <3>1. CASE k = 1
      <4>1. hs[1].prev = NoBlock
        BY <1>1 DEF Linked
      <4>2. blocks[ids[k]].parent = NoBlock
        BY <1>2, <1>4, <2>2, <3>1, <4>1
      <4>3. SubSeq(ids, 1, 0) = <<>>
        BY <1>4, SubSeqEmpty
      <4> QED
        BY <3>1, <4>2, <4>3 DEF PathBefore
    <3>2. CASE k # 1
      <4>1. k - 1 \in 1 .. n
        BY <2>2, <3>2, <1>1
      <4>2. k - 1 \notin bad
        <5> HIDE DEF bad
        <5> QED
          BY <2>1, <2>2, <1>1
      <4>3. hs[k].prev = hs[k - 1].id
        BY <1>1, <2>2, <3>2 DEF Linked
      <4>4. blocks[ids[k]].parent = ids[k - 1] /\ ids[k - 1] \in 1 .. Len(blocks)
        BY <1>2, <1>3, <1>4, <2>2, <4>1, <4>3
      <4>5. blocks[ids[k - 1]].path = SubSeq(ids, 1, k - 1)
        BY <4>1, <4>2
      <4> QED
        BY <1>3, <4>4, <4>5 DEF PathBefore, NoBlock
    <3> QED
      BY <3>1, <3>2
  <2>4. blocks[ids[k]].path = Append(SubSeq(ids, 1, k - 1), ids[k])
    BY <2>2, <2>3 DEF PathFollows
  <2>5. SubSeq(ids, 1, k) = Append(SubSeq(ids, 1, k - 1), ids[k])
    BY <1>4, <2>2, SegmentGrows
  <2> QED
    BY <2>4, <2>5
<1>6. ids[n] \in DOMAIN blocks /\ blocks[ids[n]].path = SubSeq(ids, 1, n)
  <2>1. n \in 1 .. n
    BY <1>1
  <2> QED
    BY <1>2, <1>4, <1>5, <2>1
<1>7. SubSeq(ids, 1, n) = ids
  BY <1>4, SubSeqFull
<1> QED
  BY <1>6, <1>7

(* A block found on the tip or below it: the main chain is its path.       *)
LEMMA MineKeepsChain ==
  ASSUME ChainInv, NEW keep \in 0 .. Tip, NEW pays \in SUBSET DOMAIN Payments, NEW d \in Depths,
         Mine(keep, pays, d)
  PROVE  ChainInv'
<1> DEFINE n == Len(blocks)
           parent == IF keep = 0 THEN NoBlock ELSE main[keep]
           new == [parent |-> parent, pays |-> pays, depth |-> d, height |-> keep + 1,
                   path |-> main']
           kept == SubSeq(main, 1, keep)
<1>1. /\ blocks \in Seq(Blocks) /\ main \in Seq(Nat) /\ n \in Nat /\ Len(main) \in Nat
      /\ DOMAIN blocks = 1 .. n /\ DOMAIN main = 1 .. Len(main)
      /\ \A h \in 1 .. Len(main) : main[h] \in 1 .. n
  BY LenProperties DEF ChainInv
<1>2. main' = Append(kept, n + 1) /\ blocks' = Append(blocks, new)
  BY DEF Mine
<1>3. /\ kept \in Seq(Nat) /\ Len(kept) = keep
      /\ \A i \in 1 .. keep : kept[i] = main[i]
  BY <1>1, SubSeqProperties DEF Tip
<1>4. /\ main' \in Seq(Nat) /\ Len(main') = keep + 1 /\ main'[keep + 1] = n + 1
      /\ \A i \in 1 .. keep : main'[i] = main[i]
      /\ DOMAIN main' = 1 .. keep + 1
  BY <1>1, <1>2, <1>3, AppendProperties, LenProperties DEF Tip
<1>5. parent \in Nat /\ (keep # 0 => parent \in 1 .. n /\ parent = main[keep])
  BY <1>1 DEF Tip, NoBlock
<1>6. new \in Blocks
  BY <1>1, <1>4, <1>5 DEF Blocks, Tip
<1>7. /\ blocks' \in Seq(Blocks) /\ Len(blocks') = n + 1 /\ blocks'[n + 1] = new
      /\ \A b \in 1 .. n : blocks'[b] = blocks[b]
      /\ DOMAIN blocks' = 1 .. n + 1
  <2> HIDE DEF new
  <2> QED
    BY <1>1, <1>2, <1>6, AppendProperties, LenProperties
<1>8. \A h \in DOMAIN main' : main'[h] \in DOMAIN blocks'
  BY <1>1, <1>4, <1>7 DEF Tip
<1>9. kept = IF keep = 0 THEN <<>> ELSE blocks[parent].path
  <2>1. CASE keep = 0
    BY <1>1, <2>1, SubSeqEmpty
  <2>2. CASE keep # 0
    <3>1. keep \in DOMAIN main
      BY <1>1, <2>2 DEF Tip
    <3> QED
      BY <1>5, <2>2, <3>1 DEF ChainInv, MainIsPath
  <2> QED
    BY <2>1, <2>2
<1>10. PathsFollow'
  <2> SUFFICES ASSUME NEW b \in 1 .. n + 1 PROVE PathFollows(b, blocks')
    BY <1>7 DEF PathsFollow
  <2>1. CASE b = n + 1
    <3>1. blocks'[b].parent = parent /\ blocks'[b].path = Append(kept, b)
      BY <1>2, <1>7, <2>1
    <3>2. parent # NoBlock <=> keep # 0
      BY <1>1, <1>5 DEF NoBlock
    <3>3. keep # 0 => blocks'[parent].path = blocks[parent].path
      BY <1>5, <1>7
    <3>4. PathBefore(b, blocks') = kept
      BY <1>9, <3>1, <3>2, <3>3 DEF PathBefore
    <3>5. parent \in 0 .. b - 1
      BY <1>1, <1>5, <2>1, <3>2 DEF NoBlock
    <3> QED
      BY <3>1, <3>4, <3>5 DEF PathFollows
  <2>2. CASE b # n + 1
    <3>1. b \in 1 .. n /\ PathFollows(b, blocks)
      BY <1>1, <2>2 DEF ChainInv, PathsFollow
    <3>2. blocks'[b] = blocks[b]
      BY <1>7, <3>1
    <3>3. blocks[b].parent # NoBlock => blocks'[blocks[b].parent] = blocks[blocks[b].parent]
      BY <1>1, <1>7, <3>1 DEF PathFollows, NoBlock
    <3> QED
      BY <3>1, <3>2, <3>3 DEF PathFollows, PathBefore
  <2> QED
    BY <2>1, <2>2
<1>11. MainIsPath'
  <2> SUFFICES ASSUME NEW h \in 1 .. keep + 1
               PROVE  blocks'[main'[h]].path = SubSeq(main', 1, h)
    BY <1>4 DEF MainIsPath
  <2>1. CASE h = keep + 1
    BY <1>4, <1>7, <2>1, SubSeqFull
  <2>2. CASE h # keep + 1
    <3>1. h \in 1 .. keep /\ main'[h] = main[h] /\ main[h] \in 1 .. n /\ h \in DOMAIN main
      BY <1>1, <1>4, <2>2 DEF Tip
    <3>2. blocks'[main'[h]].path = SubSeq(main, 1, h)
      BY <1>7, <3>1 DEF ChainInv, MainIsPath
    <3>3. \A i \in 1 .. h : main[i] = main'[i]
      BY <1>4, <3>1
    <3>4. SubSeq(main, 1, h) = SubSeq(main', 1, h)
      BY <1>1, <1>4, <3>1, <3>3, SegmentsAgree DEF Tip
    <3> QED
      BY <3>2, <3>4
  <2> QED
    BY <2>1, <2>2
<1>12. PathsAreOfBlocks'
  <2> SUFFICES ASSUME NEW b \in 1 .. n + 1, NEW i \in DOMAIN blocks'[b].path
               PROVE  blocks'[b].path[i] \in DOMAIN blocks'
    BY <1>7 DEF PathsAreOfBlocks
  <2>1. CASE b = n + 1
    BY <1>7, <1>8, <2>1
  <2>2. CASE b # n + 1
    <3>1. b \in 1 .. n /\ blocks'[b] = blocks[b]
      BY <1>1, <1>7, <2>2
    <3>2. blocks[b].path[i] \in 1 .. n
      BY <1>1, <3>1 DEF ChainInv, PathsAreOfBlocks
    <3> QED
      BY <1>1, <1>7, <3>1, <3>2
  <2> QED
    BY <2>1, <2>2
<1> QED
  BY <1>4, <1>7, <1>8, <1>10, <1>11, <1>12 DEF ChainInv

---------------------------------------------------------- (* the steps *)

(* Blocks that were found stay as they are.                                *)
BlocksGrow ==
  /\ DOMAIN blocks \subseteq DOMAIN blocks'
  /\ \A b \in DOMAIN blocks : blocks'[b] = blocks[b]

(* The steps that change neither the blocks nor the main chain: all but    *)
(* one.                                                                    *)
LEMMA ChainStep ==
  ASSUME ChainInv, TradeNext
  PROVE  ChainInv' /\ BlocksGrow
<1>1. ASSUME UNCHANGED <<blocks, main>> PROVE ChainInv' /\ BlocksGrow
  BY <1>1 DEF ChainInv, PathsFollow, PathsAreOfBlocks, MainIsPath, BlocksGrow
<1>2. ASSUME NEW keep \in 0 .. Tip, NEW pays \in SUBSET DOMAIN Payments, NEW d \in Depths,
             Mine(keep, pays, d)
      PROVE  ChainInv' /\ BlocksGrow
  <2>1. ChainInv'
    BY <1>2, MineKeepsChain
  <2>2. \E new : blocks' = Append(blocks, new)
    BY <1>2 DEF Mine
  <2>3. BlocksGrow
    BY <2>1, <2>2, LenProperties DEF BlocksGrow, ChainInv
  <2> QED
    BY <2>1, <2>3
<1>3. CASE \/ Tick
           \/ \E o \in Offers, r \in Requests, change \in BOOLEAN : CreateOffer(o, r, change)
           \/ \E o \in Offers : Listed(o) \/ CheckStatus(o) \/ CancelOffer(o) \/ Forfeit(o)
           \/ \E o \in Offers, failed \in BOOLEAN : PollForClaim(o, failed)
           \/ \E o \in Offers : Claim(o)
  BY <1>1, <1>3 DEF Tick, CreateOffer, Listed, CheckStatus, CancelOffer, Forfeit, PollForClaim,
     Claim, chain
<1>4. CASE \/ \E p \in DOMAIN Payments : Pay(p) \/ ModeClaimPayment(p)
           \/ PollConfirmations \/ FinalizeHeight \/ FinalizeRawTx \/ FinalizeMerkle
           \/ \E i \in 1 .. MaxBlocks : FetchHeader(i)
           \/ FinalizeBuild \/ SendFinalize \/ TryFinalizeAgain
  BY <1>1, <1>4 DEF Pay, ModeClaimPayment, PollConfirmations, FinalizeHeight, FinalizeRawTx,
     FinalizeMerkle, FetchHeader, FinalizeBuild, SendFinalize, TryFinalizeAgain, Reading, chain
<1>5. CASE \/ \E o \in Offers, saved \in BOOLEAN : ModeOffer(o, saved)
           \/ ModeClaimProof \/ ModeClaimBuild \/ ModeClaimFinalize
           \/ \E saved \in BOOLEAN : ModeClaimSend(saved)
           \/ ModeForfeit \/ ScriptRunsAgain
  BY <1>1, <1>5 DEF ModeOffer, ModeClaimProof, ModeClaimBuild, ModeClaimFinalize, ModeClaimSend,
     ModeForfeit, ScriptRunsAgain, Reading, chain
<1> QED
  BY <1>2, <1>3, <1>4, <1>5 DEF TradeNext

(* An offer that was made stays as it is.                                  *)
OffersStay == \A o \in Offers : offer[o].made => offer'[o] = offer[o]

(* create_offer and mode_offer: an offer with a hash that no other has.    *)
LEMMA OfferIsMade ==
  ASSUME OfferInv, SpentInv, NEW o \in Offers, ~offer[o].made, NEW r, NEW change,
         offer' = [offer EXCEPT ![o] = Terms(r)],
         coin' = [coin EXCEPT ![o] = BuildMakerOfferTx(change)],
         r.hash = o \/ (r.hash \notin Offers /\ r.hash \notin UsedHashes),
         script => r.price = Price, UNCHANGED <<script, spent>>, FileNamesOffer'
  PROVE  OfferInv' /\ SpentInv' /\ OffersStay
<1>1. /\ DOMAIN offer = Offers /\ DOMAIN coin = Offers
      /\ \A q \in Offers : DOMAIN coin[q] = {"stage", "photons", "listed"}
  BY DEF OfferInv, OffersTyped
<1>2. /\ offer'[o].made /\ offer'[o].hash = r.hash /\ offer'[o].price = r.price
      /\ coin'[o].stage = "offer" /\ DOMAIN coin'[o] = {"stage", "photons", "listed"}
      /\ DOMAIN offer' = Offers /\ DOMAIN coin' = Offers
      /\ \A q \in Offers \ {o} : offer'[q] = offer[q] /\ coin'[q] = coin[q]
  BY <1>1 DEF Terms, BuildMakerOfferTx, NoCoin
<1>3. OffersStay
  BY <1>2 DEF OffersStay
<1>4. OffersTyped' /\ OwnOrNamed'
  BY <1>1, <1>2 DEF OfferInv, OffersTyped, OwnOrNamed
<1>5. HashesDiffer'
  <2>1. \A q \in Offers \ {o} : offer[q].made => offer[q].hash # r.hash
    BY DEF OfferInv, OwnOrNamed, UsedHashes, Made
  <2> QED
    BY <1>2, <2>1 DEF OfferInv, HashesDiffer
<1>6. CoinsAreOffered' /\ ScriptAsksPrice'
  BY <1>2 DEF OfferInv, CoinsAreOffered, ScriptAsksPrice, Stage
<1>7. SpentInv'
  <2>1. ASSUME NEW i \in DOMAIN spent PROVE SpentFor(spent[i], coin', offer')
    <3>1. SpentFor(spent[i], coin, offer)
      BY <2>1 DEF SpentInv
    <3>2. spent[i].o # o
      BY <3>1 DEF SpentFor, Stage
    <3> QED
      BY <1>2, <3>1, <3>2 DEF SpentFor
  <2> QED
    BY <2>1 DEF SpentInv
<1> QED
  BY <1>3, <1>4, <1>5, <1>6, <1>7 DEF OfferInv

(* A coin that is spent goes from one stage to another.                    *)
LEMMA CoinMoves ==
  ASSUME OfferInv, NEW o \in Offers, NEW stage, NEW photons,
         Become(o, stage, photons), UNCHANGED <<script, offer>>,
         Stage(o) \in {"offer", "claimed"}, FileNamesOffer'
  PROVE  /\ OfferInv' /\ coin'[o].stage = stage
         /\ \A q \in Offers \ {o} : coin'[q] = coin[q]
         /\ SpentInv /\ UNCHANGED spent => SpentInv'
<1>1. /\ DOMAIN coin = Offers
      /\ \A q \in Offers : DOMAIN coin[q] = {"stage", "photons", "listed"}
  BY DEF OfferInv, OffersTyped
<1>2. /\ coin'[o].stage = stage /\ DOMAIN coin'[o] = {"stage", "photons", "listed"}
      /\ DOMAIN coin' = Offers /\ \A q \in Offers \ {o} : coin'[q] = coin[q]
  BY <1>1 DEF Become
<1>3. offer[o].made
  BY DEF OfferInv, CoinsAreOffered
<1>4. OfferInv'
  <2>1. OffersTyped' /\ OwnOrNamed' /\ HashesDiffer' /\ ScriptAsksPrice'
    BY <1>1, <1>2 DEF OfferInv, OffersTyped, OwnOrNamed, HashesDiffer, ScriptAsksPrice
  <2>2. CoinsAreOffered'
    BY <1>2, <1>3 DEF OfferInv, CoinsAreOffered, Stage
  <2> QED
    BY <2>1, <2>2 DEF OfferInv
<1>5. ASSUME SpentInv, UNCHANGED spent PROVE SpentInv'
  <2>1. ASSUME NEW i \in DOMAIN spent PROVE SpentFor(spent[i], coin', offer')
    <3>1. SpentFor(spent[i], coin, offer)
      BY <1>5, <2>1 DEF SpentInv
    <3>2. spent[i].o # o
      BY <3>1 DEF SpentFor, Stage
    <3> QED
      BY <1>2, <1>5, <3>1, <3>2 DEF SpentFor
  <2> QED
    BY <1>5, <2>1 DEF SpentInv
<1> QED
  BY <1>2, <1>4, <1>5

(* The chain takes a finalize: of a coin that was not finalized before,    *)
(* for a payment to its offer's address.                                   *)
LEMMA CoinIsFinalized ==
  ASSUME OfferInv, SpentInv, NEW o \in Offers, NEW proof, proof.pay \in PayIds,
         Finalized(o, proof), UNCHANGED <<script, offer, file>>
  PROVE  OfferInv' /\ SpentInv'
<1> DEFINE out == coin[o].photons - FeeFinalize
           entry == [o |-> o, pay |-> proof.pay]
<1>1. CASE ~ChainTakesFinalize(o, proof, out)
  <2>1. UNCHANGED <<coin, spent, script, offer, file>>
    BY <1>1 DEF Finalized
  <2> QED
    BY <2>1 DEF OfferInv, OffersTyped, OwnOrNamed, HashesDiffer, ScriptAsksPrice, FileNamesOffer,
       CoinsAreOffered, Stage, SpentInv, SpentFor
<1>2. CASE ChainTakesFinalize(o, proof, out)
  <2>1. /\ Stage(o) = "claimed" /\ Payments[proof.pay].hash = offer[o].hash
        /\ Become(o, "finalized", out) /\ spent' = Append(spent, entry)
    BY <1>2 DEF Finalized, ChainTakesFinalize, Pays
  <2>2. FileNamesOffer'
    BY DEF OfferInv, FileNamesOffer
  <2>3. /\ OfferInv' /\ coin'[o].stage = "finalized"
        /\ \A q \in Offers \ {o} : coin'[q] = coin[q]
    BY <2>1, <2>2, CoinMoves
  <2>4. offer[o].made
    BY <2>1 DEF OfferInv, CoinsAreOffered
  <2>5. spent \in Seq([o : Offers, pay : PayIds]) /\ entry \in [o : Offers, pay : PayIds]
    BY DEF SpentInv
  <2>6. /\ spent' \in Seq([o : Offers, pay : PayIds]) /\ Len(spent') = Len(spent) + 1
        /\ spent'[Len(spent) + 1] = entry /\ \A i \in 1 .. Len(spent) : spent'[i] = spent[i]
        /\ Len(spent) \in Nat /\ DOMAIN spent = 1 .. Len(spent)
        /\ DOMAIN spent' = 1 .. Len(spent) + 1
    <3> HIDE DEF entry
    <3> QED
      BY <2>1, <2>5, AppendProperties, LenProperties
  <2>7. \A i \in 1 .. Len(spent) : SpentFor(spent[i], coin, offer)
    BY <2>6 DEF SpentInv
  <2>8. \A i \in 1 .. Len(spent) : spent[i].o # o
    BY <2>1, <2>7 DEF SpentFor, Stage
  <2>9. ASSUME NEW i \in 1 .. Len(spent) + 1
        PROVE  SpentFor(spent'[i], coin', offer')
    <3>1. CASE i = Len(spent) + 1
      BY <2>1, <2>3, <2>4, <2>6, <3>1 DEF SpentFor
    <3>2. CASE i # Len(spent) + 1
      <4>1. i \in 1 .. Len(spent)
        BY <2>6, <3>2
      <4> QED
        BY <2>3, <2>6, <2>7, <2>8, <4>1 DEF SpentFor
    <3> QED
      BY <3>1, <3>2
  <2>10. \A i, j \in 1 .. Len(spent) + 1 : spent'[i].o = spent'[j].o => i = j
    <3>1. \A i, j \in 1 .. Len(spent) : spent[i].o = spent[j].o => i = j
      BY <2>6 DEF SpentInv
    <3>2. spent'[Len(spent) + 1].o = o
      BY <2>6
    <3>3. \A i \in 1 .. Len(spent) + 1 : i = Len(spent) + 1 \/ i \in 1 .. Len(spent)
      BY <2>6
    <3> QED
      BY <2>6, <2>8, <3>1, <3>2, <3>3
  <2>11. SpentInv'
    BY <2>6, <2>9, <2>10 DEF SpentInv
  <2> QED
    BY <2>3, <2>11
<1> QED
  BY <1>1, <1>2

(* Every step keeps what is said of offers, coins and finalized trades.    *)
LEMMA OfferStep ==
  ASSUME TradeInv, TradeNext
  PROVE  OfferInv' /\ SpentInv' /\ OffersStay
<1> USE DEF TradeInv
<1>1. ASSUME UNCHANGED <<script, offer, coin, file, spent>>
      PROVE  OfferInv' /\ SpentInv' /\ OffersStay
  BY <1>1 DEF OfferInv, OffersTyped, OwnOrNamed, HashesDiffer, ScriptAsksPrice, FileNamesOffer,
     CoinsAreOffered, Stage, SpentInv, OffersStay
<1>2. ASSUME UNCHANGED <<script, offer, file, spent>>, NEW o \in Offers, NEW stage, NEW photons,
             Become(o, stage, photons), Stage(o) \in {"offer", "claimed"}
      PROVE  OfferInv' /\ SpentInv' /\ OffersStay
  <2>1. FileNamesOffer'
    BY <1>2 DEF OfferInv, FileNamesOffer
  <2> QED
    BY <1>2, <2>1, CoinMoves DEF OffersStay
<1>3. CASE \/ \E keep \in 0 .. Tip, pays \in SUBSET DOMAIN Payments, d \in Depths :
                Mine(keep, pays, d)
           \/ Tick
           \/ \E o \in Offers : CheckStatus(o)
           \/ \E o \in Offers, failed \in BOOLEAN : PollForClaim(o, failed)
  BY <1>1, <1>3 DEF Mine, Tick, CheckStatus, PollForClaim, chain
<1>4. CASE \/ \E p \in DOMAIN Payments : Pay(p) \/ ModeClaimPayment(p)
           \/ PollConfirmations \/ FinalizeHeight \/ FinalizeRawTx \/ FinalizeMerkle
           \/ \E i \in 1 .. MaxBlocks : FetchHeader(i)
           \/ FinalizeBuild \/ TryFinalizeAgain \/ ModeClaimProof \/ ModeClaimBuild
           \/ ScriptRunsAgain
  BY <1>1, <1>4 DEF Pay, ModeClaimPayment, PollConfirmations, FinalizeHeight, FinalizeRawTx,
     FinalizeMerkle, FetchHeader, FinalizeBuild, TryFinalizeAgain, ModeClaimProof, ModeClaimBuild,
     ScriptRunsAgain, Reading, chain
<1>5. ASSUME NEW o \in Offers, NEW r \in Requests, NEW change \in BOOLEAN,
             CreateOffer(o, r, change)
      PROVE  OfferInv' /\ SpentInv' /\ OffersStay
  <2> DEFINE req == IF r.hash = Unbound THEN Derived(o, r) ELSE r
  <2>1. /\ ~script /\ ~offer[o].made /\ UNCHANGED <<script, file, spent>>
        /\ r.hash # Unbound => r.hash \notin UsedHashes
        /\ offer' = [offer EXCEPT ![o] = Terms(req)]
        /\ coin' = [coin EXCEPT ![o] = BuildMakerOfferTx(change)]
    BY <1>5 DEF CreateOffer, ReceiveHashAllowed, chain
  <2>2. r.hash \notin Offers
    BY TradeAssumption
  <2>3. req.hash = o \/ (req.hash \notin Offers /\ req.hash \notin UsedHashes)
    <3>1. CASE r.hash = Unbound
      BY <3>1 DEF Derived, DerivedHash
    <3>2. CASE r.hash # Unbound
      BY <2>1, <2>2, <3>2
    <3> QED
      BY <3>1, <3>2
  <2>4. FileNamesOffer'
    BY <2>1 DEF OfferInv, FileNamesOffer
  <2> HIDE DEF req
  <2> QED
    BY <2>1, <2>3, <2>4, OfferIsMade
<1>6. ASSUME NEW o \in Offers, Listed(o)
      PROVE  OfferInv' /\ SpentInv' /\ OffersStay
  <2>1. UNCHANGED <<script, offer, file, spent>> /\ coin' = [coin EXCEPT ![o].listed = TRUE]
    BY <1>6 DEF Listed, chain
  <2>2. /\ DOMAIN coin = Offers
        /\ \A q \in Offers : DOMAIN coin[q] = {"stage", "photons", "listed"}
    BY DEF OfferInv, OffersTyped
  <2>3. /\ DOMAIN coin' = Offers
        /\ \A q \in Offers : /\ DOMAIN coin'[q] = {"stage", "photons", "listed"}
                             /\ coin'[q].stage = coin[q].stage
    BY <2>1, <2>2
  <2>4. OfferInv' /\ OffersStay
    BY <2>1, <2>3 DEF OfferInv, OffersTyped, OwnOrNamed, HashesDiffer, ScriptAsksPrice,
       FileNamesOffer, CoinsAreOffered, Stage, OffersStay
  <2>5. SpentInv'
    BY <2>1, <2>3 DEF SpentInv, SpentFor
  <2> QED
    BY <2>4, <2>5
<1>7. ASSUME NEW o \in Offers, CancelOffer(o)
      PROVE  OfferInv' /\ SpentInv' /\ OffersStay
  <2>1. /\ UNCHANGED <<script, offer, file, spent>> /\ Stage(o) = "offer"
        /\ Become(o, "cancelled", coin[o].photons - FeeRxd)
    BY <1>7 DEF CancelOffer, ChainTakesCancel, chain
  <2> QED
    BY <1>2, <2>1
<1>8. ASSUME NEW o \in Offers, Forfeit(o)
      PROVE  OfferInv' /\ SpentInv' /\ OffersStay
  <2>1. /\ UNCHANGED <<script, offer, file, spent>> /\ Stage(o) = "claimed"
        /\ Become(o, "forfeited", coin[o].photons - FeeRxd)
    BY <1>8 DEF Forfeit, ChainTakesForfeit, chain
  <2> QED
    BY <1>2, <2>1
<1>9. ASSUME NEW o \in Offers, Claim(o)
      PROVE  OfferInv' /\ SpentInv' /\ OffersStay
  <2>1. UNCHANGED <<script, offer, file, spent>>
    BY <1>9 DEF Claim, chain
  <2>2. CASE ChainTakesClaim(o)
    <3>1. Stage(o) = "offer" /\ Become(o, "claimed", coin[o].photons - FeeClaim)
      BY <1>9, <2>2 DEF Claim, ChainTakesClaim
    <3> QED
      BY <1>2, <2>1, <3>1
  <2>3. CASE ~ChainTakesClaim(o)
    BY <1>1, <1>9, <2>1, <2>3 DEF Claim
  <2> QED
    BY <2>2, <2>3
<1>10. CASE SendFinalize
  <2>1. /\ taker.o \in Offers /\ taker.proof[1].pay \in PayIds
    BY <1>10 DEF SendFinalize, Taker, TakerInv, TakerTyped, OffersAreMade, ProofIsBuilt
  <2>2. Finalized(taker.o, taker.proof[1]) /\ UNCHANGED <<script, offer, file>>
    BY <1>10 DEF SendFinalize, chain
  <2> QED
    BY <2>1, <2>2, CoinIsFinalized DEF OffersStay
<1>11. CASE ModeClaimFinalize
  <2>1. UNCHANGED <<script, offer, file>> /\ Taker("sfinal")
    BY <1>11 DEF ModeClaimFinalize, chain
  <2>2. /\ taker.o \in Offers /\ taker.proof[1].pay \in PayIds
    BY <2>1 DEF Taker, TakerInv, TakerTyped, OffersAreMade, ProofIsBuilt
  <2>3. CASE FinalizeBuilds(taker.o, taker.headers, Slots)
    <3>1. Finalized(taker.o, taker.proof[1])
      BY <1>11, <2>3 DEF ModeClaimFinalize
    <3> QED
      BY <2>1, <2>2, <3>1, CoinIsFinalized DEF OffersStay
  <2>4. CASE ~FinalizeBuilds(taker.o, taker.headers, Slots)
    BY <1>1, <1>11, <2>1, <2>4 DEF ModeClaimFinalize
  <2> QED
    BY <2>3, <2>4
<1>12. ASSUME NEW o \in Offers, NEW saved \in BOOLEAN, ModeOffer(o, saved)
       PROVE  OfferInv' /\ SpentInv' /\ OffersStay
  <2> DEFINE r == ScriptRequest(o)
  <2>1. /\ script /\ ~offer[o].made /\ UNCHANGED <<script, spent>>
        /\ offer' = [offer EXCEPT ![o] = Terms(r)]
        /\ coin' = [coin EXCEPT ![o] = BuildMakerOfferTx(FALSE)]
        /\ file.offer = NoId /\ file' = IF saved THEN [NoFile EXCEPT !.offer = o] ELSE file
    BY <1>12 DEF ModeOffer, chain
  <2>2. r.hash = o /\ r.price = Price
    BY DEF ScriptRequest, DerivedHash
  <2>3. FileNamesOffer'
    <3>1. offer'[o].made
      BY <2>1 DEF OfferInv, OffersTyped, Terms
    <3> QED
      BY <2>1, <3>1 DEF OfferInv, FileNamesOffer, NoFile
  <2> HIDE DEF r
  <2> QED
    BY <2>1, <2>2, <2>3, OfferIsMade
<1>13. ASSUME NEW saved \in BOOLEAN, ModeClaimSend(saved)
       PROVE  OfferInv' /\ SpentInv' /\ OffersStay
  <2>1. UNCHANGED <<script, offer, spent>> /\ Taker("sclaim")
    BY <1>13 DEF ModeClaimSend, chain
  <2>2. taker.o \in Offers
    BY <2>1 DEF Taker, TakerInv, OffersAreMade
  <2>3. CASE UNCHANGED <<coin, file>>
    BY <1>1, <2>1, <2>3
  <2>4. CASE ~UNCHANGED <<coin, file>>
    <3>1. /\ Stage(taker.o) = "offer"
          /\ Become(taker.o, "claimed", coin[taker.o].photons - FeeClaim)
          /\ file' = IF saved THEN [file EXCEPT !.claimed = TRUE] ELSE file
      BY <1>13, <2>4 DEF ModeClaimSend, ChainTakesClaim
    <3>2. FileNamesOffer'
      BY <2>1, <3>1 DEF OfferInv, FileNamesOffer
    <3> QED
      BY <2>1, <2>2, <3>1, <3>2, CoinMoves DEF OffersStay
  <2> QED
    BY <2>3, <2>4
<1>14. CASE ModeForfeit
  <2>1. /\ UNCHANGED <<script, offer, file, spent>> /\ file.offer # NoId
        /\ Stage(file.offer) = "claimed"
        /\ Become(file.offer, "forfeited", offer[file.offer].floor)
    BY <1>14 DEF ModeForfeit, chain
  <2>2. file.offer \in Offers
    BY <2>1 DEF OfferInv, FileNamesOffer
  <2> QED
    BY <1>2, <2>1, <2>2
<1> QED
  BY <1>3, <1>4, <1>5, <1>6, <1>7, <1>8, <1>9, <1>10, <1>11, <1>12, <1>13, <1>14 DEF TradeNext

---------------------------------------------------------- (* the taker *)

(* SpvProofBuilder.build: what it accepts, from headers that came at       *)
(* different moments, is one path with the payment in one of its blocks.   *)
LEMMA BuiltProofIsReal ==
  ASSUME TradeInv, AllHeaders, NEW height, NEW params,
         BuildProof(taker.pay, taker.headers, taker.branch, height, params),
         NEW ids, ids = [i \in DOMAIN taker.headers |-> taker.headers[i].id]
  PROVE  /\ \E b \in DOMAIN blocks : ids = blocks[b].path
         /\ \E i \in DOMAIN ids : taker.pay \in blocks[ids[i]].pays
         /\ Payments[taker.pay].hash = params.hash /\ Payments[taker.pay].sats >= params.sats
<1> DEFINE hs == taker.headers
           fits(i) == VerifyTxInBlock(taker.pay, hs[i], taker.branch, params.depth)
<1>1. hs \in Seq(Headers)
  BY DEF TradeInv, TakerInv, TakerTyped
<1>2. hs \in Seq({Header(b) : b \in DOMAIN blocks})
  <2>1. DOMAIN hs = 1 .. Len(hs) /\ Len(hs) \in Nat /\ \A i \in 1 .. Len(hs) : hs[i] \in Headers
    BY <1>1, LenProperties, ElementOfSeq
  <2>2. \A i \in 1 .. Len(hs) : hs[i] \in {Header(b) : b \in DOMAIN blocks}
    BY <2>1 DEF AllHeaders, Headers
  <2>3. hs \in [1 .. Len(hs) -> {Header(b) : b \in DOMAIN blocks}]
    BY <1>1, <2>1, <2>2, LenProperties
  <2> QED
    BY <2>1, <2>3, IsASeq
<1>3. hs # <<>> /\ Linked(hs)
  BY DEF BuildProof, VerifyChain
<1>4. \E b \in DOMAIN blocks : ids = blocks[b].path
  BY <1>2, <1>3, LinkedIsPath DEF TradeInv
<1>5. PICK i \in DOMAIN hs : fits(i)
  BY DEF BuildProof
<1>6. hs[i].id \in DOMAIN blocks /\ DOMAIN blocks = 1 .. Len(blocks) /\ Len(blocks) \in Nat
  <2>1. hs[i] \in {Header(b) : b \in DOMAIN blocks}
    BY <1>2, <1>5, ElementOfSeq, LenProperties
  <2>2. blocks \in Seq(Blocks)
    BY DEF TradeInv, ChainInv
  <2> QED
    BY <2>1, <2>2, LenProperties DEF Header
<1>7. taker.branch.root = hs[i].id
  BY <1>5, <1>6 DEF VerifyTxInBlock, ComputeRoot, NoHeader
<1>8. taker.pay \in blocks[ids[i]].pays
  BY <1>5, <1>6, <1>7 DEF TradeInv, TakerInv, BranchIsOfPayment, NoBlock
<1>9. Payments[taker.pay].hash = params.hash /\ Payments[taker.pay].sats >= params.sats
  BY DEF BuildProof, PaysAtOutput, VerifyPayment
<1> QED
  BY <1>4, <1>5, <1>8, <1>9

(* What was read and what was built stays true while blocks are found and  *)
(* offers are made.                                                        *)
LEMMA ReadStaysTrue ==
  ASSUME TradeInv, BlocksGrow, OffersStay
  PROVE  /\ Headers \subseteq Headers' /\ \A hs \in Seq(Headers) : hs \in Seq(Headers')
         /\ taker'.branch = taker.branch /\ taker'.pay = taker.pay => BranchIsOfPayment'
         /\ taker'.o = taker.o =>
               (taker'.o # NoId => taker'.o \in Offers /\ offer'[taker'.o].made)
         /\ taker'.proof = <<>> \/ (taker'.proof = taker.proof /\ taker'.o = taker.o)
              => ProofsAreReal'
<1>1. \A b \in DOMAIN blocks : b \in DOMAIN blocks' /\ blocks'[b] = blocks[b]
  BY DEF BlocksGrow
<1>2. Headers \subseteq Headers'
  BY <1>1 DEF Headers, Header, BitsAt, NoHeader
<1>3. \A hs \in Seq(Headers) : hs \in Seq(Headers')
  BY <1>2, SeqMonotonic
<1>4. taker'.branch = taker.branch /\ taker'.pay = taker.pay => BranchIsOfPayment'
  BY <1>1 DEF TradeInv, TakerInv, BranchIsOfPayment
<1>5. taker.o # NoId =>
        taker.o \in Offers /\ offer[taker.o].made /\ offer'[taker.o] = offer[taker.o]
  BY DEF TradeInv, TakerInv, OffersAreMade, OffersStay
<1>6. ASSUME taker'.proof = taker.proof, taker'.o = taker.o PROVE ProofsAreReal'
  <2> SUFFICES ASSUME taker.proof # <<>> PROVE ProofsAreReal'
    BY <1>6 DEF ProofsAreReal
  <2> DEFINE proof == taker.proof[1]
             ids == [i \in DOMAIN proof.headers |-> proof.headers[i].id]
  <2>1. /\ \E b \in DOMAIN blocks : ids = blocks[b].path
        /\ \E i \in DOMAIN ids : proof.pay \in blocks[ids[i]].pays
        /\ Payments[proof.pay].hash = offer[taker.o].hash
        /\ Payments[proof.pay].sats >= offer[taker.o].price
    BY DEF TradeInv, TakerInv, ProofsAreReal
  <2>2. PICK b \in DOMAIN blocks : ids = blocks[b].path
    BY <2>1
  <2>3. PICK i \in DOMAIN ids : proof.pay \in blocks[ids[i]].pays
    BY <2>1
  <2>4. ids[i] \in DOMAIN blocks
    BY <2>2, <2>3 DEF TradeInv, ChainInv, PathsAreOfBlocks
  <2>5. taker.o # NoId
    BY DEF TradeInv, TakerInv, ProofIsBuilt
  <2>6. b \in DOMAIN blocks' /\ ids = blocks'[b].path /\ proof.pay \in blocks'[ids[i]].pays
    BY <1>1, <2>2, <2>3, <2>4
  <2> QED
    BY <1>5, <1>6, <2>1, <2>3, <2>5, <2>6 DEF ProofsAreReal
<1> QED
  BY <1>2, <1>3, <1>4, <1>5, <1>6 DEF ProofsAreReal

(* The Merkle proof a server gives is of a block with the payment in it.   *)
LEMMA HeightIsOfPayment ==
  ASSUME ChainInv, NEW p
  PROVE  /\ HeightOf(p) \in Nat
         /\ HeightOf(p) # 0 => /\ main[HeightOf(p)] \in DOMAIN blocks
                               /\ main[HeightOf(p)] # NoBlock
                               /\ p \in blocks[main[HeightOf(p)]].pays
<1>1. DOMAIN main = 1 .. Tip /\ Tip \in Nat /\ DOMAIN blocks = 1 .. Len(blocks)
  BY LenProperties DEF ChainInv, Tip
<1>2. HeightOf(p) = 0 \/ (HeightOf(p) \in 1 .. Tip /\ p \in blocks[main[HeightOf(p)]].pays)
  BY DEF HeightOf
<1> QED
  BY <1>1, <1>2 DEF ChainInv, NoBlock

(* Every step keeps what is said of the taker's proof.                     *)
LEMMA TakerStep ==
  ASSUME TradeInv, TradeNext, ChainInv', BlocksGrow, OffersStay
  PROVE  TakerInv'
<1> DEFINE Phase == OffersAreMade /\ NothingReadYet /\ ProofIsBuilt /\ ScriptPays
<1>1. /\ DOMAIN taker = Fields /\ taker.pay \in PayIds /\ taker.height \in Nat
      /\ taker.headers \in Seq(Headers) /\ ChainInv /\ TakerInv
  BY DEF TradeInv, TakerInv, TakerTyped
<1>2. ASSUME DOMAIN taker' = Fields, taker'.pay = taker.pay, taker'.branch = taker.branch,
             taker'.o = taker.o, taker'.headers \in {taker.headers, <<>>},
             taker'.height \in Nat, taker'.proof \in {taker.proof, <<>>}, Phase'
      PROVE  TakerInv'
  <2>1. BranchIsOfPayment' /\ ProofsAreReal' /\ taker.headers \in Seq(Headers')
    BY <1>1, <1>2, ReadStaysTrue
  <2>2. <<>> \in Seq(Headers')
    BY EmptySeq
  <2> QED
    BY <1>1, <1>2, <2>1, <2>2 DEF TakerInv, TakerTyped, PayIds
<1>3. taker'.o = taker.o => (taker'.o # NoId => taker'.o \in Offers /\ offer'[taker'.o].made)
  BY ReadStaysTrue
<1>4. ASSUME UNCHANGED <<taker, script>> PROVE TakerInv'
  <2>1. Phase'
    BY <1>1, <1>3, <1>4 DEF TakerInv, OffersAreMade, NothingReadYet, ProofIsBuilt, ScriptPays
  <2> QED
    BY <1>1, <1>2, <1>4, <2>1
<1>5. ASSUME taker' = [taker EXCEPT !.pc = "error"], UNCHANGED script PROVE TakerInv'
  <2>1. /\ DOMAIN taker' = Fields /\ taker'.pay = taker.pay /\ taker'.branch = taker.branch
        /\ taker'.o = taker.o /\ taker'.headers = taker.headers /\ taker'.height = taker.height
        /\ taker'.proof = taker.proof /\ taker'.pc = "error"
    BY <1>1, <1>5 DEF Fields
  <2>2. Phase'
    BY <1>1, <1>3, <1>5, <2>1
       DEF TakerInv, OffersAreMade, NothingReadYet, ProofIsBuilt, ScriptPays
  <2> QED
    BY <1>1, <1>2, <2>1, <2>2
<1>6. ASSUME taker' = Idle, UNCHANGED script PROVE TakerInv'
  <2>1. /\ DOMAIN taker' = Fields /\ taker'.pay = NoPay /\ taker'.branch.root = NoBlock
        /\ taker'.o = NoId /\ taker'.headers = <<>> /\ taker'.height = 0
        /\ taker'.proof = <<>> /\ taker'.pc = "idle"
    BY <1>6 DEF Idle, Fields, NoPay, NoBlock, NoId
  <2>2. Phase' /\ BranchIsOfPayment' /\ ProofsAreReal'
    BY <2>1 DEF OffersAreMade, NothingReadYet, ProofIsBuilt, ScriptPays, BranchIsOfPayment,
       ProofsAreReal
  <2>3. TakerTyped'
    BY <2>1, EmptySeq DEF TakerTyped, PayIds
  <2> QED
    BY <2>2, <2>3 DEF TakerInv
<1>7. CASE \/ \E keep \in 0 .. Tip, pays \in SUBSET DOMAIN Payments, d \in Depths :
                Mine(keep, pays, d)
           \/ Tick
           \/ \E o \in Offers, r \in Requests, change \in BOOLEAN : CreateOffer(o, r, change)
           \/ \E o \in Offers : Listed(o) \/ CheckStatus(o) \/ CancelOffer(o) \/ Forfeit(o)
           \/ \E o \in Offers, failed \in BOOLEAN : PollForClaim(o, failed)
           \/ \E o \in Offers, saved \in BOOLEAN : ModeOffer(o, saved)
           \/ ModeForfeit
  BY <1>4, <1>7 DEF Mine, Tick, CreateOffer, Listed, CheckStatus, CancelOffer, Forfeit,
     PollForClaim, ModeOffer, ModeForfeit, chain
<1>8. ASSUME NEW o \in Offers, Claim(o) PROVE TakerInv'
  <2>1. Taker("idle") /\ offer[o].made /\ UNCHANGED script
    BY <1>8 DEF Claim, chain
  <2>2. CASE taker' = [taker EXCEPT !.pc = "error"]
    BY <1>5, <2>1, <2>2
  <2>3. CASE taker' = [taker EXCEPT !.pc = "pay", !.o = o]
    <3>1. /\ DOMAIN taker' = Fields /\ taker'.pay = taker.pay /\ taker'.branch = taker.branch
          /\ taker'.o = o /\ taker'.headers = taker.headers /\ taker'.height = taker.height
          /\ taker'.proof = <<>> /\ taker'.pc = "pay" /\ taker.branch.root = NoBlock
      BY <1>1, <2>1, <2>3 DEF Fields, Taker, TakerInv, NothingReadYet
    <3>2. o # NoId /\ offer'[o].made
      BY <2>1, TradeAssumption DEF OffersStay, NoId
    <3>3. Phase'
      BY <3>1, <3>2 DEF OffersAreMade, NothingReadYet, ProofIsBuilt, ScriptPays
    <3>4. BranchIsOfPayment' /\ ProofsAreReal' /\ taker.headers \in Seq(Headers')
      BY <1>1, <3>1, ReadStaysTrue
    <3> QED
      BY <1>1, <3>1, <3>3, <3>4 DEF TakerInv, TakerTyped
  <2> QED
    BY <1>8, <2>2, <2>3 DEF Claim
<1>9. ASSUME NEW p \in DOMAIN Payments, Pay(p) PROVE TakerInv'
  <2>1. UNCHANGED script
    BY <1>9 DEF Pay
  <2>2. CASE ~Taker("pay")
    BY <1>4, <1>9, <2>1, <2>2 DEF Pay
  <2>3. CASE Taker("pay")
    <3>1. taker' = [taker EXCEPT !.pc = "confs", !.pay = p]
      BY <1>9, <2>3 DEF Pay
    <3>2. /\ DOMAIN taker' = Fields /\ taker'.pay = p /\ taker'.branch.root = NoBlock
          /\ taker'.o = taker.o /\ taker'.headers = taker.headers /\ taker'.height = taker.height
          /\ taker'.proof = <<>> /\ taker'.pc = "confs"
      BY <1>1, <2>3, <3>1 DEF Fields, Taker, TakerInv, NothingReadYet
    <3>3. Phase'
      BY <1>1, <1>3, <2>3, <3>2 DEF Taker, TakerInv, OffersAreMade, NothingReadYet, ProofIsBuilt,
         ScriptPays
    <3>4. BranchIsOfPayment' /\ ProofsAreReal'
      BY <3>2 DEF BranchIsOfPayment, ProofsAreReal
    <3>5. taker.headers \in Seq(Headers')
      BY <1>1, ReadStaysTrue
    <3> QED
      BY <1>1, <3>2, <3>3, <3>4, <3>5 DEF TakerInv, TakerTyped, PayIds
  <2> QED
    BY <2>2, <2>3
<1>10. CASE PollConfirmations
  <2>1. PICK pc \in {"height", "error", "confs"} :
          taker' = [taker EXCEPT !.polls = @ + 1, !.pc = pc]
    BY <1>10 DEF PollConfirmations
  <2>2. Taker("confs") /\ UNCHANGED script
    BY <1>10 DEF PollConfirmations, chain
  <2>3. /\ DOMAIN taker' = Fields /\ taker'.pay = taker.pay /\ taker'.branch = taker.branch
        /\ taker'.o = taker.o /\ taker'.headers = taker.headers /\ taker'.height = taker.height
        /\ taker'.proof = taker.proof /\ taker'.pc = pc
    BY <1>1, <2>1 DEF Fields
  <2>4. Phase'
    BY <1>1, <1>3, <2>2, <2>3
       DEF Taker, TakerInv, OffersAreMade, NothingReadYet, ProofIsBuilt, ScriptPays
  <2> QED
    BY <1>1, <1>2, <2>3, <2>4
<1>11. CASE FinalizeHeight \/ FinalizeRawTx
  <2>1. UNCHANGED script /\ (Taker("height") \/ Taker("raw"))
    BY <1>11 DEF FinalizeHeight, FinalizeRawTx, Reading, chain
  <2>2. CASE taker' = [taker EXCEPT !.pc = "error"]
    BY <1>5, <2>1, <2>2
  <2>3. CASE taker' # [taker EXCEPT !.pc = "error"]
    <3>1. /\ DOMAIN taker' = Fields /\ taker'.pay = taker.pay /\ taker'.branch = taker.branch
          /\ taker'.o = taker.o /\ taker'.headers = taker.headers
          /\ taker'.height \in {taker.height, HeightOf(taker.pay)}
          /\ taker'.proof = taker.proof /\ taker'.pc \in {"raw", "merkle"}
      BY <1>1, <1>11, <2>3 DEF FinalizeHeight, FinalizeRawTx, Fetched, TxBlockHeight, Fields
    <3>2. taker'.height \in Nat
      BY <1>1, <3>1, HeightIsOfPayment
    <3>3. Phase'
      BY <1>1, <1>3, <2>1, <3>1
         DEF Taker, TakerInv, OffersAreMade, NothingReadYet, ProofIsBuilt, ScriptPays
    <3> QED
      BY <1>1, <1>2, <3>1, <3>2, <3>3
  <2> QED
    BY <2>2, <2>3
<1>12. CASE TryFinalizeAgain
  <2>1. /\ DOMAIN taker' = Fields /\ taker'.pay = taker.pay /\ taker'.branch = taker.branch
        /\ taker'.o = taker.o /\ taker'.headers = <<>> /\ taker'.height = taker.height
        /\ taker'.proof = <<>> /\ taker'.pc = "height" /\ taker.o # NoId /\ UNCHANGED script
    BY <1>1, <1>12 DEF TryFinalizeAgain, Fields, Reading, chain
  <2>2. Phase'
    BY <1>3, <2>1 DEF OffersAreMade, NothingReadYet, ProofIsBuilt, ScriptPays
  <2> QED
    BY <1>1, <1>2, <2>1, <2>2
<1>13. ASSUME UNCHANGED script, HeightOf(taker.pay) # 0, NEW branch \in MerkleProofs(taker.pay),
              NEW pc \in {"headers", "sheaders"}, NEW want \in Nat,
              Taker("merkle") \/ Taker("sproof"),
              pc = "sheaders" => Payments[taker.pay].sats >= Price /\ Taker("sproof"),
              taker' = [[taker EXCEPT !.branch = branch, !.want = want,
                                      !.headers = [i \in 1 .. want |-> NoHeader]]
                          EXCEPT !.pc = pc]
       PROVE  TakerInv'
  <2>1. /\ DOMAIN taker' = Fields /\ taker'.pay = taker.pay /\ taker'.branch = branch
        /\ taker'.o = taker.o /\ taker'.headers = [i \in 1 .. want |-> NoHeader]
        /\ taker'.height = taker.height /\ taker'.proof = taker.proof /\ taker'.pc = pc
    BY <1>1, <1>13 DEF Fields
  <2>2. branch.root = main[HeightOf(taker.pay)]
    BY DEF MerkleProofs
  <2>3. BranchIsOfPayment'
    <3>1. branch.root \in DOMAIN blocks /\ taker.pay \in blocks[branch.root].pays
      BY <1>1, <1>13, <2>2, HeightIsOfPayment
    <3> QED
      BY <2>1, <3>1 DEF BranchIsOfPayment, BlocksGrow
  <2>4. taker'.headers \in Seq(Headers')
    <3>1. taker'.headers \in [1 .. want -> Headers']
      BY <2>1 DEF Headers, NoHeader
    <3> QED
      BY <3>1, IsASeq
  <2>5. ProofsAreReal'
    BY <2>1, ReadStaysTrue
  <2>6. Phase'
    BY <1>1, <1>3, <1>13, <2>1
       DEF Taker, TakerInv, OffersAreMade, NothingReadYet, ProofIsBuilt, ScriptPays
  <2> QED
    BY <1>1, <2>1, <2>3, <2>4, <2>5, <2>6 DEF TakerInv, TakerTyped
<1>14. CASE FinalizeMerkle
  <2>1. Taker("merkle") /\ UNCHANGED script
    BY <1>14 DEF FinalizeMerkle, Reading, chain
  <2>2. CASE taker' = [taker EXCEPT !.pc = "error"]
    BY <1>5, <2>1, <2>2
  <2>3. CASE taker' # [taker EXCEPT !.pc = "error"]
    <3>1. /\ HeightOf(taker.pay) # 0
          /\ \E branch \in MerkleProofs(taker.pay) :
               taker' = [[taker EXCEPT !.branch = branch, !.want = taker.height,
                                       !.headers = [i \in 1 .. taker.height |-> NoHeader]]
                           EXCEPT !.pc = "headers"]
      BY <1>14, <2>3 DEF FinalizeMerkle, Fetched
    <3> QED
      BY <1>1, <1>13, <2>1, <3>1
  <2> QED
    BY <2>2, <2>3
<1>15. CASE ModeClaimProof
  <2>1. Taker("sproof") /\ UNCHANGED script
    BY <1>15 DEF ModeClaimProof, Reading, chain
  <2>2. CASE taker' = [taker EXCEPT !.pc = "error"]
    BY <1>5, <2>1, <2>2
  <2>3. CASE taker' # [taker EXCEPT !.pc = "error"]
    <3>1. /\ HeightOf(taker.pay) # 0 /\ Payments[taker.pay].sats >= Price
          /\ \E branch \in MerkleProofs(taker.pay) :
               taker' = [[taker EXCEPT !.branch = branch, !.want = Slots,
                                       !.headers = [i \in 1 .. Slots |-> NoHeader]]
                           EXCEPT !.pc = "sheaders"]
      BY <1>15, <2>3 DEF ModeClaimProof, Fetched
    <3> QED
      BY <1>1, <1>13, <2>1, <3>1, TradeAssumption
  <2> QED
    BY <2>2, <2>3
<1>16. ASSUME NEW i \in 1 .. MaxBlocks, FetchHeader(i) PROVE TakerInv'
  <2>1. /\ taker.pc \in {"headers", "sheaders"} /\ UNCHANGED script
        /\ i \in DOMAIN taker.headers
    BY <1>16 DEF FetchHeader, Reading, chain
  <2>2. CASE ~(i =< Tip)
    BY <1>5, <1>16, <2>1, <2>2 DEF FetchHeader, Fetched
  <2>3. CASE i =< Tip
    <3>1. taker' = [[taker EXCEPT !.headers[i] = Header(main[i])] EXCEPT !.pc = taker.pc]
      BY <1>16, <2>3 DEF FetchHeader, Fetched
    <3>2. /\ DOMAIN taker' = Fields /\ taker'.pay = taker.pay /\ taker'.branch = taker.branch
          /\ taker'.o = taker.o /\ taker'.height = taker.height
          /\ taker'.proof = taker.proof /\ taker'.pc = taker.pc
          /\ taker'.headers = [taker.headers EXCEPT ![i] = Header(main[i])]
      BY <1>1, <3>1 DEF Fields
    <3>3. Header(main[i]) \in Headers
      <4>1. DOMAIN main = 1 .. Tip /\ Tip \in Nat /\ i \in Nat /\ i >= 1
        BY <1>1, <2>1, LenProperties DEF ChainInv, Tip
      <4>2. main[i] \in DOMAIN blocks
        BY <1>1, <2>3, <4>1 DEF ChainInv
      <4> QED
        BY <4>2 DEF Headers
    <3>4. taker'.headers \in Seq(Headers)
      BY <1>1, <2>1, <3>2, <3>3, ExceptSeq, LenProperties
    <3>5. taker'.headers \in Seq(Headers') /\ BranchIsOfPayment' /\ ProofsAreReal'
      BY <3>2, <3>4, ReadStaysTrue
    <3>6. Phase'
      BY <1>1, <1>3, <2>1, <3>2
         DEF TakerInv, OffersAreMade, NothingReadYet, ProofIsBuilt, ScriptPays
    <3> QED
      BY <1>1, <3>2, <3>5, <3>6 DEF TakerInv, TakerTyped
  <2> QED
    BY <2>2, <2>3
<1>17. ASSUME UNCHANGED script, Taker("headers") \/ Taker("sheaders"), AllHeaders,
              NEW height, NEW params,
              BuildProof(taker.pay, taker.headers, taker.branch, height, params),
              params.hash = offer[taker.o].hash,
              Payments[taker.pay].sats >= params.sats
                => Payments[taker.pay].sats >= offer[taker.o].price,
              NEW pc \in {"send", "sclaim"}, pc = "sclaim" => Taker("sheaders"),
              taker' = [[taker EXCEPT !.proof = <<ProofOf(taker)>>] EXCEPT !.pc = pc]
       PROVE  TakerInv'
  <2> DEFINE proof == ProofOf(taker)
             ids == [i \in DOMAIN proof.headers |-> proof.headers[i].id]
  <2>1. /\ DOMAIN taker' = Fields /\ taker'.pay = taker.pay /\ taker'.branch = taker.branch
        /\ taker'.o = taker.o /\ taker'.headers = taker.headers /\ taker'.height = taker.height
        /\ taker'.proof = <<proof>> /\ taker'.pc = pc
    BY <1>1, <1>17 DEF Fields
  <2>2. proof.pay = taker.pay /\ proof.headers = taker.headers
    BY DEF ProofOf
  <2>3. /\ \E b \in DOMAIN blocks : ids = blocks[b].path
        /\ \E i \in DOMAIN ids : proof.pay \in blocks[ids[i]].pays
        /\ Payments[proof.pay].hash = offer[taker.o].hash
        /\ Payments[proof.pay].sats >= offer[taker.o].price
    BY <1>17, <2>2, BuiltProofIsReal
  <2>4. taker.o # NoId /\ taker.o \in Offers /\ offer'[taker.o] = offer[taker.o]
    BY <1>1, <1>17 DEF Taker, TakerInv, OffersAreMade, OffersStay
  <2>5. ProofsAreReal'
    <3>1. PICK b \in DOMAIN blocks : ids = blocks[b].path
      BY <2>3
    <3>2. PICK i \in DOMAIN ids : proof.pay \in blocks[ids[i]].pays
      BY <2>3
    <3>3. ids[i] \in DOMAIN blocks
      BY <1>1, <3>1, <3>2 DEF ChainInv, PathsAreOfBlocks
    <3>4. b \in DOMAIN blocks' /\ ids = blocks'[b].path /\ proof.pay \in blocks'[ids[i]].pays
      BY <3>1, <3>2, <3>3 DEF BlocksGrow
    <3>5. taker'.proof[1] = proof
      BY <2>1
    <3> HIDE DEF proof
    <3> QED
      BY <2>1, <2>3, <2>4, <3>2, <3>4, <3>5 DEF ProofsAreReal
  <2>6. BranchIsOfPayment' /\ taker.headers \in Seq(Headers')
    BY <1>1, <2>1, ReadStaysTrue
  <2>7. Phase'
    <3>1. taker'.proof # <<>> /\ taker'.proof[1].pay = taker'.pay
      BY <2>1, <2>2
    <3> QED
      BY <1>1, <1>3, <1>17, <2>1, <2>4, <3>1
         DEF Taker, TakerInv, OffersAreMade, NothingReadYet, ProofIsBuilt, ScriptPays
  <2> QED
    BY <1>1, <2>1, <2>5, <2>6, <2>7 DEF TakerInv, TakerTyped
<1>18. CASE FinalizeBuild
  <2>1. Taker("headers") /\ AllHeaders /\ UNCHANGED script
    BY <1>18 DEF FinalizeBuild, Reading, chain
  <2>2. CASE taker' = [taker EXCEPT !.pc = "error"]
    BY <1>5, <2>1, <2>2
  <2>3. CASE taker' # [taker EXCEPT !.pc = "error"]
    <3> DEFINE params == OfferParams(taker.o)
    <3>1. /\ BuildProof(taker.pay, taker.headers, taker.branch, taker.height, params)
          /\ taker' = [[taker EXCEPT !.proof = <<ProofOf(taker)>>] EXCEPT !.pc = "send"]
      BY <1>18, <2>3 DEF FinalizeBuild, Fetched
    <3>2. params.hash = offer[taker.o].hash /\ params.sats = offer[taker.o].price
      BY DEF OfferParams
    <3> HIDE DEF params
    <3> QED
      BY <1>17, <2>1, <3>1, <3>2
  <2> QED
    BY <2>2, <2>3
<1>19. CASE ModeClaimBuild
  <2>1. Taker("sheaders") /\ AllHeaders /\ UNCHANGED script
    BY <1>19 DEF ModeClaimBuild, Reading, chain
  <2>2. CASE taker' = [taker EXCEPT !.pc = "error"]
    BY <1>5, <2>1, <2>2
  <2>3. CASE taker' # [taker EXCEPT !.pc = "error"]
    <3> DEFINE params == ScriptParams(taker.o)
    <3>1. /\ BuildProof(taker.pay, taker.headers, taker.branch, Unbound, params)
          /\ taker' = [[taker EXCEPT !.proof = <<ProofOf(taker)>>] EXCEPT !.pc = "sclaim"]
      BY <1>19, <2>3 DEF ModeClaimBuild, Fetched
    <3>2. params.hash = offer[taker.o].hash
      BY DEF ScriptParams
    <3>3. Payments[taker.pay].sats >= Price /\ script
      BY <1>1, <2>1 DEF Taker, TakerInv, ScriptPays
    <3>4. offer[taker.o].price = Price
      BY <1>1, <2>1, <3>3 DEF TradeInv, OfferInv, ScriptAsksPrice, Taker, TakerInv, OffersAreMade
    <3> HIDE DEF params
    <3> QED
      BY <1>17, <2>1, <3>1, <3>2, <3>3, <3>4
  <2> QED
    BY <2>2, <2>3
<1>20. CASE SendFinalize \/ ModeClaimFinalize
  <2>1. UNCHANGED script
    BY <1>20 DEF SendFinalize, ModeClaimFinalize, chain
  <2>2. taker' = Idle \/ taker' = [taker EXCEPT !.pc = "error"]
    BY <1>20 DEF SendFinalize, ModeClaimFinalize, Finalized
  <2> QED
    BY <1>5, <1>6, <2>1, <2>2
<1>21. ASSUME NEW p \in DOMAIN Payments, ModeClaimPayment(p) PROVE TakerInv'
  <2>1. /\ file.offer # NoId
        /\ taker' = [Idle EXCEPT !.pc = "sproof", !.o = file.offer, !.pay = p]
        /\ UNCHANGED script
    BY <1>21 DEF ModeClaimPayment, Reading, chain
  <2>2. /\ DOMAIN taker' = Fields /\ taker'.pay = p /\ taker'.branch.root = NoBlock
        /\ taker'.o = file.offer /\ taker'.headers = <<>> /\ taker'.height = 0
        /\ taker'.proof = <<>> /\ taker'.pc = "sproof"
    BY <2>1 DEF Idle, Fields, NoBlock
  <2>3. script /\ file.offer \in Offers /\ offer'[file.offer].made
    BY <2>1 DEF TradeInv, OfferInv, FileNamesOffer, OffersStay
  <2>4. Phase' /\ BranchIsOfPayment' /\ ProofsAreReal'
    BY <2>1, <2>2, <2>3 DEF OffersAreMade, NothingReadYet, ProofIsBuilt, ScriptPays,
       BranchIsOfPayment, ProofsAreReal
  <2>5. TakerTyped'
    BY <2>2, EmptySeq DEF TakerTyped, PayIds
  <2> QED
    BY <2>4, <2>5 DEF TakerInv
<1>22. ASSUME NEW saved \in BOOLEAN, ModeClaimSend(saved) PROVE TakerInv'
  <2>1. Taker("sclaim") /\ UNCHANGED script
    BY <1>22 DEF ModeClaimSend, chain
  <2>2. CASE taker' = Idle
    BY <1>6, <2>1, <2>2
  <2>3. CASE taker' # Idle
    <3>1. taker' = [taker EXCEPT !.pc = "sfinal"]
      BY <1>22, <2>3 DEF ModeClaimSend
    <3>2. /\ DOMAIN taker' = Fields /\ taker'.pay = taker.pay /\ taker'.branch = taker.branch
          /\ taker'.o = taker.o /\ taker'.headers = taker.headers /\ taker'.height = taker.height
          /\ taker'.proof = taker.proof /\ taker'.pc = "sfinal"
      BY <1>1, <3>1 DEF Fields
    <3>3. Phase'
      BY <1>1, <1>3, <2>1, <3>2
         DEF Taker, TakerInv, OffersAreMade, NothingReadYet, ProofIsBuilt, ScriptPays
    <3> QED
      BY <1>1, <1>2, <3>2, <3>3
  <2> QED
    BY <2>2, <2>3
<1>23. CASE ScriptRunsAgain
  BY <1>6, <1>23 DEF ScriptRunsAgain, Reading, chain
<1> QED
  BY <1>7, <1>8, <1>9, <1>10, <1>11, <1>12, <1>14, <1>15, <1>16, <1>18, <1>19, <1>20, <1>21,
     <1>22, <1>23 DEF TradeNext

-------------------------------------------------------- (* the theorems *)

LEMMA TradeInitially == TradeInit => TradeInv
<1> SUFFICES ASSUME TradeInit PROVE TradeInv
  OBVIOUS
<1>1. ChainInv
  BY EmptySeq DEF TradeInit, ChainInv, PathsFollow, PathsAreOfBlocks, MainIsPath
<1>2. OfferInv
  BY DEF TradeInit, OfferInv, OffersTyped, OwnOrNamed, HashesDiffer, CoinsAreOffered,
     ScriptAsksPrice, FileNamesOffer, NoOffer, NoCoin, NoFile, Stage
<1>3. TakerInv
  <2>1. /\ DOMAIN taker = Fields /\ taker.pay = NoPay /\ taker.branch.root = NoBlock
        /\ taker.o = NoId /\ taker.headers = <<>> /\ taker.height = 0
        /\ taker.proof = <<>> /\ taker.pc = "idle"
    BY DEF TradeInit, Idle, Fields, NoPay, NoBlock, NoId
  <2>2. TakerTyped
    BY <2>1, EmptySeq DEF TakerTyped, PayIds
  <2> QED
    BY <2>1, <2>2 DEF TakerInv, OffersAreMade, NothingReadYet, ProofIsBuilt, ScriptPays,
       BranchIsOfPayment, ProofsAreReal
<1>4. SpentInv
  BY EmptySeq DEF TradeInit, SpentInv
<1> QED
  BY <1>1, <1>2, <1>3, <1>4 DEF TradeInv

(* What the taker holds of a proof, the offers and the blocks fit together *)
(* in every state of a trade.                                              *)
THEOREM TradeInvariant == TradeSpec => []TradeInv
<1>1. TradeInv /\ [TradeNext]_tradeVars => TradeInv'
  <2>1. ASSUME TradeInv, TradeNext PROVE TradeInv'
    <3>1. ChainInv' /\ BlocksGrow
      BY <2>1, ChainStep DEF TradeInv
    <3>2. OfferInv' /\ SpentInv' /\ OffersStay
      BY <2>1, OfferStep
    <3>3. TakerInv'
      BY <2>1, <3>1, <3>2, TakerStep
    <3> QED
      BY <3>1, <3>2, <3>3 DEF TradeInv
  <2>2. ASSUME TradeInv, UNCHANGED tradeVars PROVE TradeInv'
    <3>1. UNCHANGED <<script, blocks, main, pool, offer, coin, taker, file, spent>>
      BY <2>2 DEF tradeVars
    <3>2. ChainInv' /\ OfferInv' /\ SpentInv'
      BY <2>2, <3>1 DEF TradeInv, ChainInv, PathsFollow, PathsAreOfBlocks, MainIsPath, OfferInv,
         OffersTyped, OwnOrNamed, HashesDiffer, CoinsAreOffered, ScriptAsksPrice, FileNamesOffer,
         Stage, SpentInv
    <3>3. TakerInv'
      BY <2>2, <3>1 DEF TradeInv, TakerInv, TakerTyped, OffersAreMade, NothingReadYet,
         ProofIsBuilt, ScriptPays, BranchIsOfPayment, ProofsAreReal, Headers, Header, BitsAt
    <3> QED
      BY <3>2, <3>3 DEF TradeInv
  <2> QED
    BY <2>1, <2>2
<1> QED
  BY <1>1, TradeInitially, PTL DEF TradeSpec

(* Whatever blocks come and go between the requests a proof is read in,    *)
(* and whatever offers, crashes and repeated runs cross: a proof that was  *)
(* built is of one chain that was the main chain, with a payment of the    *)
(* price to the offer's address in it, and no payment moves the assets of  *)
(* two offers (finalize, mode_claim, verify_chain, build_gravity_offer).   *)
THEOREM TradesHold == TradeSpec => []TradesAreReal
<1>1. TradeInv => TradesAreReal
  <2> SUFFICES ASSUME TradeInv PROVE TradesAreReal
    OBVIOUS
  <2>1. ProofsAreReal
    BY DEF TradeInv, TakerInv
  <2>2. ASSUME NEW i \in DOMAIN spent, NEW j \in DOMAIN spent, spent[i].pay = spent[j].pay
        PROVE  i = j
    <3>1. SpentFor(spent[i], coin, offer) /\ SpentFor(spent[j], coin, offer)
      BY DEF TradeInv, SpentInv
    <3>2. spent[i].o = spent[j].o
      BY <2>2, <3>1 DEF SpentFor, TradeInv, OfferInv, HashesDiffer
    <3> QED
      BY <3>2 DEF TradeInv, SpentInv
  <2> QED
    BY <2>1, <2>2 DEF TradesAreReal, OnePaymentOneAsset
<1> QED
  BY <1>1, TradeInvariant, PTL

----------------------------------------------------------------- (* tokens *)

(* An NFT's output carries its ref and nothing else; a transaction that    *)
(* signs for an NFT has an output for it.                                  *)
CarriesItsRef(lock) == IsNftScript(lock) => lock.refs = {<<ExtractRef(lock), "single">>}
NftOutsCarry(tx) == \A v \in DOMAIN tx.outs : CarriesItsRef(tx.outs[v].lock)
PassesOn(tx) ==
  \A k \in DOMAIN tx.ins : IsNftScript(tx.ins[k].signedAs) =>
    \E v \in DOMAIN tx.outs :
      /\ IsNftScript(tx.outs[v].lock)
      /\ ExtractRef(tx.outs[v].lock) = ExtractRef(tx.ins[k].signedAs)
MovesNfts(tx) == NftOutsCarry(tx) /\ PassesOn(tx)

CommitsFirst(tx) == 1 \in DOMAIN tx.outs /\ tx.outs[1].lock.kind \in {"commit-nft", "commit-ft"}

MintCmds == {"mint", "deploy", "dmint", "dmint-v2", "container", "mutable", "wave"}
IsJob(j) == DOMAIN j = {"at", "cmd", "meta", "supply", "to", "fund", "commit", "tx", "result"}

(* What a process of the wallet has built, and the commit it waits for.    *)
JobStands(j, ts) ==
  /\ IsJob(j)
  /\ j.at \in {"commit", "reveal", "send"} => MovesNfts(j.tx)
  /\ j.at = "commit" => CommitsFirst(j.tx)
  /\ j.at = "wait" => j.commit \in DOMAIN ts /\ CommitsFirst(ts[j.commit])
  /\ j.at \in {"commit", "wait"} => j.cmd \in MintCmds
  /\ j.cmd \in {"dmint", "dmint-v2"} => j.supply \in Nat

KnownTxs == {txs[i] : i \in DOMAIN txs}
NftIsThere(ref) ==
  \E q \in Unspent : IsNftScript(At(q).lock) /\ ExtractRef(At(q).lock) = ref

TokensInv ==
  /\ txs \in Seq(KnownTxs)
  /\ \A i \in DOMAIN txs : NftOutsCarry(txs[i])
  /\ Spent \subseteq Outpoints
  /\ \A o \in Outpoints : IsNftScript(At(o).lock) => NftIsThere(ExtractRef(At(o).lock))
  /\ job \in [Procs -> {job[x] : x \in Procs}]
  /\ \A x \in Procs : JobStands(job[x], txs)

------------------------------------------------- (* what is put together *)

LEMMA NftScriptCarries ==
  ASSUME NEW owner, NEW ref
  PROVE  /\ IsNftScript(NftScript(owner, ref))
         /\ NftScript(owner, ref).refs = {<<ref, "single">>}
         /\ ExtractRef(NftScript(owner, ref)) = ref
         /\ CarriesItsRef(NftScript(owner, ref))
<1>1. /\ IsNftScript(NftScript(owner, ref))
      /\ NftScript(owner, ref).refs = {<<ref, "single">>}
  BY DEF NftScript, Lock, IsNftScript
<1>2. {e[1] : e \in {<<ref, "single">>}} = {ref}
  OBVIOUS
<1>3. ExtractRef(NftScript(owner, ref)) = ref
  BY <1>1, <1>2 DEF ExtractRef
<1> QED
  BY <1>1, <1>3 DEF CarriesItsRef

LEMMA OthersCarry == ASSUME NEW lock, lock.kind # "nft" PROVE CarriesItsRef(lock)
BY DEF CarriesItsRef, IsNftScript

(* Outputs one after the other.                                            *)
LEMMA ConcatOutputs ==
  ASSUME NEW S, NEW s \in Seq(S), NEW t \in Seq(S)
  PROVE  /\ s \o t \in Seq(S)
         /\ Len(s \o t) = Len(s) + Len(t)
         /\ \A i \in 1 .. Len(s) : i \in DOMAIN (s \o t) /\ (s \o t)[i] = s[i]
         /\ \A i \in DOMAIN (s \o t) :
              \/ i \in 1 .. Len(s) /\ (s \o t)[i] = s[i]
              \/ i - Len(s) \in 1 .. Len(t) /\ (s \o t)[i] = t[i - Len(s)]
OBVIOUS

(* Transaction.fee adds at most a plain output.                            *)
LEMMA ChangeIsPlain ==
  ASSUME NEW S, NEW outs \in Seq(S), NEW value, NEW bytes, NEW owner
  PROVE  LET all == WithChange(value, outs, bytes, owner)
         IN  /\ \A v \in DOMAIN outs : v \in DOMAIN all /\ all[v] = outs[v]
             /\ \A v \in DOMAIN all : \/ v \in DOMAIN outs /\ all[v] = outs[v]
                                      \/ all[v].lock.kind = "p2pkh"
<1> DEFINE change == value - bytes - Total(outs)
           last == Output(P2PKH(owner), change)
           all == WithChange(value, outs, bytes, owner)
<1>1. last.lock.kind = "p2pkh"
  BY DEF Output, P2PKH, Lock
<1>2. CASE all = outs
  BY <1>2
<1>3. CASE all = outs \o <<last>>
  <2>1. outs \in Seq(S \cup {last}) /\ <<last>> \in Seq(S \cup {last})
    OBVIOUS
  <2> HIDE DEF last
  <2>2. Len(<<last>>) = 1 /\ <<last>>[1] = last
    OBVIOUS
  <2>3. DOMAIN outs = 1 .. Len(outs)
    OBVIOUS
  <2> HIDE DEF all
  <2>4. \A v \in DOMAIN all : \/ v \in DOMAIN outs /\ all[v] = outs[v]
                              \/ all[v] = last
    BY <1>3, <2>1, <2>2, <2>3, ConcatOutputs
  <2>5. \A v \in DOMAIN outs : v \in DOMAIN all /\ all[v] = outs[v]
    BY <1>3, <2>1, <2>3, ConcatOutputs
  <2> QED
    BY <2>4, <2>5, <1>1 DEF all
<1>4. all = outs \/ all = outs \o <<last>>
  BY DEF WithChange
<1> QED
  BY <1>2, <1>3, <1>4

LEMMA TxParts ==
  ASSUME NEW ins, NEW outs, NEW gly, NEW bytes
  PROVE  Tx(ins, outs, gly, bytes).ins = ins /\ Tx(ins, outs, gly, bytes).outs = outs
BY DEF Tx

(* A commit is paid for as if by a plain coin.                             *)
LEMMA CommitTxMoves ==
  ASSUME NEW o, NEW lock, lock.kind \in {"commit-nft", "commit-ft"}, NEW value,
         NEW seeds \in Nat
  PROVE  /\ MovesNfts(CommitTx(o, lock, value, seeds))
         /\ CommitsFirst(CommitTx(o, lock, value, seeds))
<1> DEFINE owner == At(o).lock.owner
           first == Output(lock, value)
           seed == Output(P2PKH(owner), RefSeed)
           more == [i \in 1 .. seeds |-> seed]
           outs == <<first>> \o more
           tx == CommitTx(o, lock, value, seeds)
           all == WithChange(At(o).value, outs, CommitFee, owner)
<1>1. tx.ins = <<CommitInput(o)>> /\ tx.outs = all
  BY TxParts DEF CommitTx
<1>2. first.lock = lock /\ seed.lock.kind = "p2pkh"
  BY DEF Output, P2PKH, Lock
<1>3. CommitInput(o).signedAs.kind = "p2pkh"
  BY DEF CommitInput, Spend, P2PKH, Lock
<1>4. /\ outs \in Seq({first, seed}) /\ 1 \in DOMAIN outs /\ outs[1] = first
      /\ \A v \in DOMAIN outs : outs[v] \in {first, seed}
  <2> HIDE DEF first, seed
  <2>1. <<first>> \in Seq({first, seed}) /\ Len(<<first>>) = 1 /\ <<first>>[1] = first
    OBVIOUS
  <2>2. more \in Seq({first, seed})
    OBVIOUS
  <2>3. outs \in Seq({first, seed}) /\ 1 \in DOMAIN outs /\ outs[1] = first
    <3> HIDE DEF more
    <3> QED
      BY <2>1, <2>2, ConcatOutputs
  <2> QED
    BY <2>3
<1> HIDE DEF outs, first, seed, more
<1>5. /\ \A v \in DOMAIN outs : v \in DOMAIN all /\ all[v] = outs[v]
      /\ \A v \in DOMAIN all : \/ v \in DOMAIN outs /\ all[v] = outs[v]
                               \/ all[v].lock.kind = "p2pkh"
  BY <1>4, ChangeIsPlain
<1> HIDE DEF all, tx
<1>6. \A v \in DOMAIN all : all[v].lock.kind # "nft"
  BY <1>2, <1>4, <1>5
<1>7. NftOutsCarry(tx)
  BY <1>1, <1>6, OthersCarry DEF NftOutsCarry
<1>8. PassesOn(tx)
  BY <1>1, <1>3 DEF PassesOn, IsNftScript
<1>9. CommitsFirst(tx)
  BY <1>1, <1>2, <1>4, <1>5 DEF CommitsFirst
<1> QED
  BY <1>7, <1>8, <1>9 DEF MovesNfts, tx

(* A reveal signs for its commit and places what its builder gives it.     *)
LEMMA RevealMoves ==
  ASSUME NEW x, NEW S, NEW outs \in Seq(S), CommitsFirst(txs[job[x].commit]),
         \A v \in DOMAIN outs : CarriesItsRef(outs[v].lock)
  PROVE  MovesNfts(RevealOf(x, outs))
<1> DEFINE c == <<job[x].commit, 1>>
           bytes == Metas[job[x].meta].bytes
           all == WithChange(At(c).value, outs, bytes, job[x].fund)
           tx == RevealOf(x, outs)
<1>1. tx.ins = <<Spend(c, job[x].fund, CommitLock(x))>> /\ tx.outs = all
  BY TxParts DEF RevealOf
<1>2. Spend(c, job[x].fund, CommitLock(x)).signedAs.kind # "nft"
  BY DEF Spend, CommitLock, CommitsFirst
<1>3. \A v \in DOMAIN all : \/ v \in DOMAIN outs /\ all[v] = outs[v]
                            \/ all[v].lock.kind = "p2pkh"
  BY ChangeIsPlain
<1> HIDE DEF all, tx, c
<1>4. NftOutsCarry(tx)
  BY <1>1, <1>3, OthersCarry DEF NftOutsCarry
<1>5. PassesOn(tx)
  BY <1>1, <1>2 DEF PassesOn, IsNftScript
<1> QED
  BY <1>4, <1>5 DEF MovesNfts, tx

(* The same for the outputs a dMint reveal spends and makes.               *)
LEMMA DmintRevealMoves ==
  ASSUME NEW x, job[x].supply \in Nat, CommitsFirst(txs[job[x].commit]),
         NEW tx \in DmintReveal(x)
  PROVE  MovesNfts(tx)
<1> DEFINE n == job[x].supply
           c == job[x].commit
           ins == [i \in 1 .. n + 1 |->
                     Spend(<<c, i>>, job[x].fund,
                           IF i = 1 THEN CommitLock(x) ELSE P2PKH(job[x].fund))]
           bytes == Metas[job[x].meta].bytes + n
           kind == IF job[x].cmd = "dmint" THEN "dmint" ELSE "dmint-v2"
           outs == [i \in 1 .. n |->
                      Output(ContractScript(kind, <<c, i + 1>>, <<c, 1>>), 1)]
           all == WithChange(At(<<c, 1>>).value + n * RefSeed, outs, bytes, job[x].fund)
<1>1. tx.ins = ins /\ tx.outs = all
  <2>1. outs = IF job[x].cmd = "dmint" THEN V1RevealOutputs(c, n) ELSE V2RevealOutputs(c, n)
    BY DEF V1RevealOutputs, V2RevealOutputs, BuildRevealOutputs
  <2> HIDE DEF outs, kind
  <2>2. tx = Tx(ins, all, job[x].meta, bytes)
    BY <2>1 DEF DmintReveal
  <2> QED
    BY <2>2, TxParts
<1>2. \A i \in 1 .. n + 1 : ins[i].signedAs.kind # "nft"
  BY DEF Spend, CommitLock, CommitsFirst, P2PKH, Lock
<1>3. \A i \in 1 .. n : outs[i].lock.kind \in {"dmint", "dmint-v2"}
  BY DEF Output, ContractScript, Lock
<1>4. outs \in Seq({outs[i] : i \in 1 .. n}) /\ DOMAIN outs = 1 .. n
  <2>1. outs = [i \in 1 .. n |-> outs[i]]
    OBVIOUS
  <2> HIDE DEF outs
  <2>2. outs \in [1 .. n -> {outs[i] : i \in 1 .. n}]
    BY <2>1
  <2> HIDE DEF n
  <2> QED
    BY <2>2 DEF n
<1> HIDE DEF outs
<1>5. \A v \in DOMAIN all : \/ v \in DOMAIN outs /\ all[v] = outs[v]
                            \/ all[v].lock.kind = "p2pkh"
  BY <1>4, ChangeIsPlain
<1>6. DOMAIN ins = 1 .. n + 1
  OBVIOUS
<1> HIDE DEF all, ins, kind
<1>7. NftOutsCarry(tx)
  BY <1>1, <1>3, <1>4, <1>5, OthersCarry DEF NftOutsCarry
<1>8. PassesOn(tx)
  BY <1>1, <1>2, <1>6 DEF PassesOn, IsNftScript
<1> QED
  BY <1>7, <1>8 DEF MovesNfts

LEMMA RevealsMove ==
  ASSUME NEW x, JobStands(job[x], txs), job[x].at = "wait", NEW tx \in Reveals(x)
  PROVE  MovesNfts(tx)
<1> DEFINE c == <<job[x].commit, 1>>
<1>1. CommitsFirst(txs[job[x].commit]) /\ job[x].cmd \in MintCmds
  BY DEF JobStands
<1>2. ASSUME NEW lock, CarriesItsRef(lock), NEW value
      PROVE  MovesNfts(RevealOf(x, <<Output(lock, value)>>))
  <2> DEFINE out == Output(lock, value)
  <2>1. out.lock = lock
    BY DEF Output
  <2> HIDE DEF out
  <2>2. /\ <<out>> \in Seq({out})
        /\ \A v \in DOMAIN <<out>> : <<out>>[v] = out
    OBVIOUS
  <2>3. MovesNfts(RevealOf(x, <<out>>))
    BY <1>1, <1>2, <2>1, <2>2, RevealMoves
  <2> QED
    BY <2>3 DEF out
<1>3. ASSUME NEW lock, CarriesItsRef(lock), NEW other, other.kind # "nft"
      PROVE  MovesNfts(RevealOf(x, <<Output(lock, Dust), Output(other, 1)>>))
  <2> DEFINE out == Output(lock, Dust)
             more == Output(other, 1)
  <2>1. out.lock = lock /\ more.lock = other
    BY DEF Output
  <2>2. CarriesItsRef(other)
    BY <1>3, OthersCarry
  <2> HIDE DEF out, more
  <2>3. /\ <<out, more>> \in Seq({out, more})
        /\ \A v \in DOMAIN <<out, more>> : <<out, more>>[v] \in {out, more}
    OBVIOUS
  <2>4. MovesNfts(RevealOf(x, <<out, more>>))
    BY <1>1, <1>3, <2>1, <2>2, <2>3, RevealMoves
  <2> QED
    BY <2>4 DEF out, more
<1>4. \A owner : CarriesItsRef(NftScript(owner, c)) /\ CarriesItsRef(FtScript(owner, c))
  BY NftScriptCarries, OthersCarry DEF FtScript, Lock
<1>5. CASE job[x].cmd = "mint"
  <2>1. tx \in MintReveal(x)
    BY <1>5 DEF Reveals
  <2> QED
    BY <2>1, <1>2, <1>4 DEF MintReveal, PrepareReveal
<1>6. CASE job[x].cmd = "deploy"
  <2>1. tx \in FtDeployReveal(x)
    BY <1>6 DEF Reveals
  <2> QED
    BY <2>1, <1>2, <1>4 DEF FtDeployReveal, PrepareFtDeployReveal, PrepareReveal
<1>7. CASE job[x].cmd \in {"dmint", "dmint-v2"}
  <2>1. tx \in DmintReveal(x) /\ job[x].supply \in Nat
    BY <1>7 DEF Reveals, JobStands
  <2> QED
    BY <1>1, <2>1, DmintRevealMoves
<1>8. CASE job[x].cmd = "container"
  <2>1. tx \in {RevealOf(x, <<Output(s, Dust)>>)
                  : s \in PrepareContainerReveal(job[x].meta, c, job[x].fund, {})}
    BY <1>8 DEF Reveals, LibraryReveal
  <2>2. ASSUME NEW s \in PrepareContainerReveal(job[x].meta, c, job[x].fund, {})
        PROVE  CarriesItsRef(s)
    <3>1. {<<b, "normal">> : b \in {}} = {}
      OBVIOUS
    <3>2. s = [NftScript(job[x].fund, c) EXCEPT !.refs = @ \cup {<<b, "normal">> : b \in {}}]
      BY <2>2 DEF PrepareContainerReveal
    <3>3. s = NftScript(job[x].fund, c)
      BY <3>1, <3>2 DEF NftScript, Lock
    <3> QED
      BY <3>3, <1>4
  <2> QED
    BY <2>1, <2>2, <1>2
<1>9. CASE job[x].cmd \in {"mutable", "wave"}
  <2>1. PICK s \in PrepareMutableReveal(job[x].meta, c, job[x].fund) :
          tx = RevealOf(x, <<Output(s[1], Dust), Output(s[2], 1)>>)
    BY <1>9 DEF Reveals, LibraryReveal, PrepareWaveReveal
  <2>2. s = <<NftScript(job[x].fund, c), MutableNftScript(c, job[x].meta)>>
    BY DEF PrepareMutableReveal
  <2>3. MutableNftScript(c, job[x].meta).kind # "nft"
    BY DEF MutableNftScript, Lock
  <2> QED
    BY <2>1, <2>2, <2>3, <1>3, <1>4
<1> QED
  BY <1>1, <1>5, <1>6, <1>7, <1>8, <1>9 DEF MintCmds

(* A transfer of an FT signs for FTs only.                                 *)
LEMMA FtTransferMoves ==
  ASSUME NEW ref, NEW unread, NEW amount, NEW to,
         NEW coins \in Select(FtInputs(ref, unread), amount),
         NEW tx \in BuildTransferTx(coins, ref, amount, to)
  PROVE  MovesNfts(tx)
<1> DEFINE owner == At(coins[1]).lock.owner
           left == Held(coins) - amount
           back == Output(FtScript(owner, ref), Dust)
           change == IF left > 0 THEN <<back>> ELSE <<>>
           value == Held(coins) - TransferFee - Total(change)
           out == Output(FtScript(to, ref), value)
           ins == [k \in DOMAIN coins |-> Spend(coins[k], owner, At(coins[k]).lock)]
<1>1. tx = Tx(ins, <<out>> \o change, Absent, TransferFee)
  BY DEF BuildTransferTx
<1>2. tx.ins = ins /\ tx.outs = <<out>> \o change
  <2> HIDE DEF out, change, ins
  <2> QED
    BY <1>1 DEF Tx
<1>3. \A k \in DOMAIN coins : coins[k] \in FtInputs(ref, unread)
  BY DEF Select
<1>4. \A k \in DOMAIN ins : ins[k].signedAs.kind # "nft"
  BY <1>3 DEF Spend, FtInputs, IsFtScript
<1>5. out.lock.kind = "ft" /\ back.lock.kind = "ft"
  BY DEF Output, FtScript, Lock
<1> HIDE DEF out, back, ins
<1>6. \A v \in DOMAIN (<<out>> \o change) : (<<out>> \o change)[v] \in {out, back}
  <2>1. <<out>> \in Seq({out, back}) /\ <<back>> \in Seq({out, back})
    OBVIOUS
  <2>5. <<>> \in Seq({out, back})
    OBVIOUS
  <2>6. change = <<back>> \/ change = <<>>
    OBVIOUS
  <2>2. <<out>> \o change \in Seq({out, back})
    BY <2>1, <2>5, <2>6, ConcatOutputs
  <2> HIDE DEF change
  <2> QED
    BY <2>2
<1>7. NftOutsCarry(tx)
  BY <1>2, <1>5, <1>6, OthersCarry DEF NftOutsCarry
<1>8. PassesOn(tx)
  BY <1>2, <1>4 DEF PassesOn, IsNftScript
<1> QED
  BY <1>7, <1>8 DEF MovesNfts

(* A transfer of an NFT has the NFT in its first output.                   *)
LEMMA NftOutputMoves ==
  ASSUME NEW ref, NEW to, NEW value, NEW tx, 1 \in DOMAIN tx.outs,
         tx.outs[1] = Output(NftScript(to, ref), value),
         \A v \in DOMAIN tx.outs : v = 1 \/ tx.outs[v].lock.kind = "p2pkh",
         \A k \in DOMAIN tx.ins : IsNftScript(tx.ins[k].signedAs) =>
                                    ExtractRef(tx.ins[k].signedAs) = ref
  PROVE  MovesNfts(tx)
<1>1. tx.outs[1].lock = NftScript(to, ref)
  BY DEF Output
<1>2. NftOutsCarry(tx)
  BY <1>1, NftScriptCarries, OthersCarry DEF NftOutsCarry
<1>3. PassesOn(tx)
  BY <1>1, NftScriptCarries DEF PassesOn
<1> QED
  BY <1>2, <1>3 DEF MovesNfts

LEMMA NftTransferMoves ==
  ASSUME NEW ref, NEW unread, NEW to, NEW o \in NftInputs(ref, unread), NEW f
  PROVE  LET payer == At(f).lock.owner
             outs == <<Output(NftScript(to, ref), At(o).value)>>
         IN  MovesNfts(Tx(<<Spend(o, At(o).lock.owner, At(o).lock),
                            Spend(f, payer, P2PKH(payer))>>,
                     WithChange(At(o).value + At(f).value, outs, TransferFee, payer), Absent,
                     TransferFee))
<1> DEFINE payer == At(f).lock.owner
           out == Output(NftScript(to, ref), At(o).value)
           all == WithChange(At(o).value + At(f).value, <<out>>, TransferFee, payer)
           token == Spend(o, At(o).lock.owner, At(o).lock)
           fee == Spend(f, payer, P2PKH(payer))
           tx == Tx(<<token, fee>>, all, Absent, TransferFee)
<1>1. tx.ins = <<token, fee>> /\ tx.outs = all
  BY TxParts
<1>2. token.signedAs = At(o).lock /\ fee.signedAs.kind = "p2pkh"
  BY DEF Spend, P2PKH, Lock
<1>3. ExtractRef(At(o).lock) = ref
  BY DEF NftInputs
<1> HIDE DEF token, fee
<1>4. \A k \in DOMAIN <<token, fee>> : IsNftScript(<<token, fee>>[k].signedAs) =>
                                        ExtractRef(<<token, fee>>[k].signedAs) = ref
  BY <1>2, <1>3 DEF IsNftScript
<1>5. /\ 1 \in DOMAIN all /\ all[1] = out
      /\ \A v \in DOMAIN all : v = 1 \/ all[v].lock.kind = "p2pkh"
  <2> HIDE DEF out
  <2> DEFINE one == <<out>>
  <2>1. one \in Seq({out}) /\ DOMAIN one = {1} /\ one[1] = out
    OBVIOUS
  <2>3. all = WithChange(At(o).value + At(f).value, one, TransferFee, payer)
    OBVIOUS
  <2> HIDE DEF one, all
  <2>2. /\ \A v \in DOMAIN one : v \in DOMAIN all /\ all[v] = one[v]
        /\ \A v \in DOMAIN all : \/ v \in DOMAIN one /\ all[v] = one[v]
                                 \/ all[v].lock.kind = "p2pkh"
    BY <2>1, <2>3, ChangeIsPlain
  <2> QED
    BY <2>1, <2>2
<1> HIDE DEF all, tx
<1>6. MovesNfts(tx)
  BY <1>1, <1>4, <1>5, NftOutputMoves DEF out
<1> QED
  BY <1>6 DEF tx, all, token, fee

LEMMA NftByItselfMoves ==
  ASSUME NEW ref, NEW to, NEW o \in NftInputs(ref, {})
  PROVE  MovesNfts(Tx(<<Spend(o, At(o).lock.owner, At(o).lock)>>,
                <<Output(NftScript(to, ref), At(o).value - TransferFee)>>, Absent, TransferFee))
<1> DEFINE out == Output(NftScript(to, ref), At(o).value - TransferFee)
           token == Spend(o, At(o).lock.owner, At(o).lock)
           tx == Tx(<<token>>, <<out>>, Absent, TransferFee)
<1>1. tx.ins = <<token>> /\ tx.outs = <<out>>
  BY TxParts
<1>2. token.signedAs = At(o).lock /\ ExtractRef(At(o).lock) = ref
  BY DEF Spend, NftInputs
<1> HIDE DEF token, tx
<1>3. MovesNfts(tx)
  BY <1>1, <1>2, NftOutputMoves DEF out
<1> QED
  BY <1>3 DEF tx, token

------------------------------------------------------------- (* the steps *)

LEMMA IdleIsJob == IsJob(IdleProc) /\ IdleProc.at = "idle" /\ IdleProc.cmd = "none"
BY DEF IsJob, IdleProc, Absent

LEMMA TokensInvInit == TokensInit => TokensInv
<1> SUFFICES ASSUME TokensInit PROVE TokensInv
  OBVIOUS
<1> DEFINE first == Tx(<<>>, Genesis, Absent, 0)
<1>1. txs = <<first>> /\ first.ins = <<>> /\ first.outs = Genesis
  BY TxParts DEF TokensInit
<1> HIDE DEF first
<1>2. DOMAIN txs = {1} /\ txs[1] = first /\ txs \in Seq(KnownTxs)
  <2>1. DOMAIN txs = {1} /\ txs[1] = first /\ Len(txs) = 1
    BY <1>1
  <2>2. KnownTxs = {first}
    BY <2>1 DEF KnownTxs
  <2> QED
    BY <1>1, <2>1, <2>2
<1>3. NftOutsCarry(first)
  <2> SUFFICES ASSUME NEW i \in DOMAIN Genesis, Genesis[i].lock.kind = "nft"
               PROVE  Genesis[i].lock.refs = {<<ExtractRef(Genesis[i].lock), "single">>}
    BY <1>1 DEF NftOutsCarry, CarriesItsRef, IsNftScript
  <2>1. PICK e \in Genesis[i].lock.refs :
          e = <<e[1], "single">> /\ Genesis[i].lock.refs = {e}
    BY TokensAssumption
  <2>2. {d[1] : d \in {e}} = {e[1]}
    OBVIOUS
  <2>3. ExtractRef(Genesis[i].lock) = e[1]
    BY <2>1, <2>2 DEF ExtractRef
  <2> QED
    BY <2>1, <2>3
<1>4. Spent = {}
  BY <1>1, <1>2 DEF Spent
<1>5. job \in [Procs -> {job[x] : x \in Procs}] /\ \A x \in Procs : job[x] = IdleProc
  BY DEF TokensInit
<1>6. JobStands(IdleProc, txs)
  <2>1. IsJob(IdleProc) /\ IdleProc.at = "idle" /\ IdleProc.cmd = Absent
    BY IdleIsJob DEF Absent
  <2> QED
    BY <2>1 DEF JobStands, Absent
<1>7. \A o \in Outpoints : IsNftScript(At(o).lock) => NftIsThere(ExtractRef(At(o).lock))
  BY <1>4 DEF NftIsThere, Unspent
<1> QED
  BY <1>2, <1>3, <1>4, <1>5, <1>6, <1>7 DEF TokensInv

(* A process goes on, and nothing is sent.                                 *)
LEMMA JobGoesOn ==
  ASSUME TokensInv, UNCHANGED txs, NEW x \in Procs, NEW d, JobStands(d, txs),
         job' = [job EXCEPT ![x] = d]
  PROVE  TokensInv'
<1>1. /\ UNCHANGED <<Outpoints, Spent, Unspent, KnownTxs>>
      /\ \A o : At(o)' = At(o)
  BY DEF Outpoints, Spent, Unspent, KnownTxs, At
<1>2. /\ txs' \in Seq(KnownTxs') /\ \A i \in DOMAIN txs' : NftOutsCarry(txs'[i])
      /\ Spent' \subseteq Outpoints'
  BY <1>1 DEF TokensInv
<1>3. \A o \in Outpoints' : IsNftScript(At(o).lock)' => NftIsThere(ExtractRef(At(o).lock))'
  BY <1>1 DEF TokensInv, NftIsThere
<1>4. job' \in [Procs -> {job'[y] : y \in Procs}]
  BY DEF TokensInv
<1>5. \A y \in Procs : job'[y] = IF y = x THEN d ELSE job[y]
  BY DEF TokensInv
<1>6. \A y \in Procs : JobStands(job'[y], txs')
  BY <1>5 DEF TokensInv
<1> QED
  BY <1>2, <1>3, <1>4, <1>6 DEF TokensInv

LEMMA OneMoreTx ==
  ASSUME NEW S, NEW s \in Seq(S), NEW e
  PROVE  /\ Append(s, e) \in Seq(S \cup {e})
         /\ DOMAIN s = 1 .. Len(s) /\ DOMAIN Append(s, e) = 1 .. Len(s) + 1
         /\ \A i \in DOMAIN s : Append(s, e)[i] = s[i]
         /\ Append(s, e)[Len(s) + 1] = e
         /\ Len(s) \in Nat
OBVIOUS

(* The node takes a transaction: each NFT it spends is in an output of it. *)
LEMMA NodeTakes ==
  ASSUME TokensInv, NEW x \in Procs, job[x].at \in {"commit", "reveal", "send"},
         Verdict(job[x].tx) = "accepted", txs' = Append(txs, job[x].tx),
         NEW d, JobStands(d, txs'), job' = [job EXCEPT ![x] = d]
  PROVE  TokensInv'
<1> DEFINE tx == job[x].tx
           n == Len(txs)
<1>1. MovesNfts(tx)
  BY DEF TokensInv, JobStands
<1>2. /\ n \in Nat /\ DOMAIN txs = 1 .. n /\ DOMAIN txs' = 1 .. n + 1
      /\ \A i \in DOMAIN txs : txs'[i] = txs[i]
      /\ txs'[n + 1] = tx /\ txs' \in Seq(KnownTxs \cup {tx})
  BY OneMoreTx DEF TokensInv
<1>3. /\ Froms(tx) \subseteq Unspent
      /\ \A k \in DOMAIN tx.ins : tx.ins[k].signedAs = At(tx.ins[k].from).lock
  BY DEF Verdict, RulesKept, InputSatisfied
<1> HIDE DEF tx, n
<1>4. \A o \in Outpoints : \E i \in 1 .. n : \E v \in DOMAIN txs[i].outs : o = <<i, v>>
  BY <1>2 DEF Outpoints
<1>5. Outpoints' = Outpoints \cup {<<n + 1, v>> : v \in DOMAIN tx.outs}
  <2>1. Outpoints' = UNION {{<<i, v>> : v \in DOMAIN txs'[i].outs} : i \in DOMAIN txs'}
    BY DEF Outpoints
  <2> QED
    BY <1>2, <2>1 DEF Outpoints
<1>6. Spent' = Spent \cup Froms(tx)
  <2>1. Spent' = UNION {{txs'[i].ins[k].from : k \in DOMAIN txs'[i].ins} : i \in DOMAIN txs'}
    BY DEF Spent
  <2> QED
    BY <1>2, <2>1 DEF Spent, Froms
<1>7. /\ \A o \in Outpoints : At(o)' = At(o)
      /\ \A o : \A v \in DOMAIN tx.outs : o = <<n + 1, v>> => At(o)' = tx.outs[v]
  <2>1. ASSUME NEW o \in Outpoints PROVE At(o)' = At(o)
    <3>1. PICK i \in 1 .. n : \E v \in DOMAIN txs[i].outs : o = <<i, v>>
      BY <1>4, <2>1
    <3>2. o[1] = i /\ txs'[i] = txs[i]
      BY <1>2, <3>1
    <3> QED
      BY <3>2 DEF At
  <2>2. ASSUME NEW v \in DOMAIN tx.outs, NEW o, o = <<n + 1, v>> PROVE At(o)' = tx.outs[v]
    BY <1>2, <2>2 DEF At
  <2> QED
    BY <2>1, <2>2
<1>8. \A v \in DOMAIN tx.outs : <<n + 1, v>> \notin Outpoints
  BY <1>2, <1>4
<1>9. Spent \cup Froms(tx) \subseteq Outpoints
  BY <1>3 DEF TokensInv, Unspent
<1>10. \A v \in DOMAIN tx.outs : <<n + 1, v>> \in Unspent'
  BY <1>5, <1>6, <1>8, <1>9 DEF Unspent
<1>11. \A i \in DOMAIN txs' : NftOutsCarry(txs'[i])
  BY <1>1, <1>2 DEF TokensInv, MovesNfts
<1>12. txs' \in Seq(KnownTxs')
  BY <1>2 DEF KnownTxs
<1>13. ASSUME NEW o \in Outpoints', IsNftScript(At(o).lock)'
       PROVE  NftIsThere(ExtractRef(At(o).lock))'
  <2>1. CASE o \in Outpoints
    <3>1. PICK q \in Unspent : /\ IsNftScript(At(q).lock)
                               /\ ExtractRef(At(q).lock) = ExtractRef(At(o).lock)
      BY <1>7, <1>13, <2>1 DEF TokensInv, NftIsThere
    <3>2. CASE q \in Froms(tx)
      <4>1. PICK k \in DOMAIN tx.ins : q = tx.ins[k].from
        BY <3>2 DEF Froms
      <4>2. PICK v \in DOMAIN tx.outs :
              /\ IsNftScript(tx.outs[v].lock)
              /\ ExtractRef(tx.outs[v].lock) = ExtractRef(At(q).lock)
        BY <1>1, <1>3, <3>1, <4>1 DEF MovesNfts, PassesOn
      <4>5. PICK new : new = <<n + 1, v>>
        OBVIOUS
      <4>3. /\ new \in Unspent'
            /\ At(new)' = tx.outs[v]
        BY <1>7, <1>10, <4>5
      <4>4. At(o)' = At(o)
        BY <1>7, <2>1
      <4> QED
        BY <3>1, <4>2, <4>3, <4>4 DEF NftIsThere
    <3>3. CASE q \notin Froms(tx)
      <4>1. q \in Unspent' /\ At(q)' = At(q)
        BY <1>5, <1>6, <1>7, <3>3 DEF Unspent
      <4> QED
        BY <1>7, <2>1, <3>1, <4>1 DEF NftIsThere
    <3> QED
      BY <3>2, <3>3
  <2>2. CASE o \in {<<n + 1, v>> : v \in DOMAIN tx.outs}
    BY <1>10, <1>13, <2>2 DEF NftIsThere
  <2> QED
    BY <1>5, <2>1, <2>2
<1>14. job' \in [Procs -> {job'[y] : y \in Procs}]
  BY DEF TokensInv
<1>15. \A y \in Procs : job'[y] = IF y = x THEN d ELSE job[y]
  BY DEF TokensInv
<1>16. \A y \in Procs : JobStands(job'[y], txs')
  <2> TAKE y \in Procs
  <2>1. CASE y = x
    BY <1>15, <2>1
  <2>2. CASE y # x
    <3>1. JobStands(job[y], txs) /\ job'[y] = job[y]
      BY <1>15, <2>2 DEF TokensInv
    <3> QED
      BY <1>2, <3>1 DEF JobStands
  <2> QED
    BY <2>1, <2>2
<1>17. Spent' \subseteq Outpoints'
  BY <1>5, <1>6, <1>9
<1> QED
  BY <1>11, <1>12, <1>13, <1>14, <1>16, <1>17 DEF TokensInv

(* Commands build and send nothing.                                        *)
LEMMA CommandsKeep ==
  ASSUME TokensInv, NEW x \in Procs, Command(x)
  PROVE  TokensInv'
<1>1. ASSUME NEW cmd \in MintCmds, NEW meta, NEW supply, NEW to, NEW o, NEW lock, NEW value,
             NEW seeds \in Nat, lock.kind \in {"commit-nft", "commit-ft"},
             cmd \in {"dmint", "dmint-v2"} => supply \in Nat,
             Ready(x, cmd, meta, supply, to, o, CommitTx(o, lock, value, seeds)),
             UNCHANGED <<txs, confirmed>>
      PROVE  TokensInv'
  <2> DEFINE tx == CommitTx(o, lock, value, seeds)
             d == [IdleProc EXCEPT !.at = "commit", !.cmd = cmd, !.meta = meta,
                     !.supply = supply, !.to = to, !.fund = At(o).lock.owner, !.tx = tx]
  <2>1. MovesNfts(tx) /\ CommitsFirst(tx)
    BY <1>1, CommitTxMoves
  <2>2. job' = [job EXCEPT ![x] = d]
    BY <1>1 DEF Ready
  <2> HIDE DEF tx
  <2>4. IsJob(d) /\ d.at = "commit" /\ d.cmd = cmd /\ d.supply = supply /\ d.tx = tx
    BY IdleIsJob DEF IsJob
  <2> HIDE DEF d
  <2>5. JobStands(d, txs)
    BY <1>1, <2>1, <2>4 DEF JobStands
  <2> QED
    BY <1>1, <2>2, <2>5, JobGoesOn
<1>2. ASSUME NEW cmd, NEW amount, NEW to, NEW tx, MovesNfts(tx), cmd \in {"ft", "nft"},
             Send(x, cmd, amount, to, tx), UNCHANGED <<txs, confirmed>>
      PROVE  TokensInv'
  <2> DEFINE d == [IdleProc EXCEPT !.at = "send", !.cmd = cmd, !.supply = amount, !.to = to,
                     !.tx = tx]
  <2>1. job' = [job EXCEPT ![x] = d]
    BY <1>2 DEF Send
  <2>3. IsJob(d) /\ d.at = "send" /\ d.cmd = cmd /\ d.tx = tx
    BY IdleIsJob DEF IsJob
  <2> HIDE DEF d
  <2>4. JobStands(d, txs)
    BY <1>2, <2>3 DEF JobStands
  <2> QED
    BY <1>2, <2>1, <2>4, JobGoesOn
<1>3. \A meta, owner : PrepareCommit(meta, owner).kind \in {"commit-nft", "commit-ft"}
  BY DEF PrepareCommit, CommitScript, Lock
<1>4. ASSUME NEW meta \in DOMAIN Metas, MintNft(x, meta) PROVE TokensInv'
  <2>1. PICK o : Ready(x, "mint", meta, 0, At(o).lock.owner, o,
                   CommitTx(o, PrepareCommit(meta, At(o).lock.owner), CommitValue, 0))
    BY <1>4 DEF MintNft
  <2> QED
    BY <1>1, <1>3, <1>4, <2>1 DEF MintNft, MintCmds
<1>5. ASSUME NEW meta \in DOMAIN Metas, MintByLibrary(x, meta) PROVE TokensInv'
  <2>1. PICK o : \E cmd \in {"mutable", "wave", "container"} :
          Ready(x, cmd, meta, 0, At(o).lock.owner, o,
                CommitTx(o, PrepareCommit(meta, At(o).lock.owner), CommitValue, 0))
    BY <1>5 DEF MintByLibrary
  <2>2. PICK cmd \in {"mutable", "wave", "container"} :
          Ready(x, cmd, meta, 0, At(o).lock.owner, o,
                CommitTx(o, PrepareCommit(meta, At(o).lock.owner), CommitValue, 0))
    BY <2>1
  <2> QED
    BY <1>1, <1>3, <1>5, <2>2 DEF MintByLibrary, MintCmds
<1>6. ASSUME NEW meta \in DOMAIN Metas, NEW cmd \in {"dmint", "dmint-v2"},
             NEW n \in Contracts, DeployDmint(x, cmd, meta, n)
      PROVE  TokensInv'
  <2>1. n \in Nat
    BY TokensAssumption
  <2>2. PICK o : \E lock \in PrepareDmintDeploy(cmd, meta, At(o).lock.owner) :
          Ready(x, cmd, meta, n, Absent, o, CommitTx(o, lock, DmintCommitValue(n), n))
    BY <1>6 DEF DeployDmint
  <2>4. PICK lock \in PrepareDmintDeploy(cmd, meta, At(o).lock.owner) :
          Ready(x, cmd, meta, n, Absent, o, CommitTx(o, lock, DmintCommitValue(n), n))
    BY <2>2
  <2>3. lock.kind \in {"commit-nft", "commit-ft"}
    BY DEF PrepareDmintDeploy, PrepareDmintV1Deploy, PrepareDmintV2Deploy, CommitScript, Lock
  <2> QED
    BY <1>1, <1>6, <2>1, <2>3, <2>4 DEF DeployDmint, MintCmds
<1>7. ASSUME NEW meta \in DOMAIN Metas, NEW supply \in Supplies, NEW to \in Treasuries,
             DeployFt(x, meta, supply, to)
      PROVE  TokensInv'
  <2>1. PICK o : Ready(x, "deploy", meta, supply, to, o,
             CommitTx(o, PrepareCommit(meta, At(o).lock.owner), supply + CommitValue, 0))
    BY <1>7 DEF DeployFt
  <2> QED
    BY <1>1, <1>3, <1>7, <2>1 DEF DeployFt, MintCmds
<1>8. ASSUME NEW ref \in Refs, NEW to \in Recipients, TransferNft(x, ref, to)
      PROVE  TokensInv'
  BY <1>2, <1>8, NftTransferMoves DEF TransferNft
<1>9. ASSUME NEW ref \in Refs, NEW to \in Recipients, BuildNftTransferTx(x, ref, to)
      PROVE  TokensInv'
  BY <1>2, <1>9, NftByItselfMoves DEF BuildNftTransferTx
<1>10. ASSUME NEW ref \in Refs, NEW to \in Recipients, NEW amount \in Amounts,
              TransferFt(x, ref, amount, to)
       PROVE  TokensInv'
  BY <1>2, <1>10, FtTransferMoves DEF TransferFt
<1> QED
  BY <1>4, <1>5, <1>6, <1>7, <1>8, <1>9, <1>10 DEF Command

LEMMA TokensInvNext == TokensInv /\ [TokensNext]_tokensVars => TokensInv'
<1> SUFFICES ASSUME TokensInv, [TokensNext]_tokensVars PROVE TokensInv'
  OBVIOUS
<1>1. ASSUME NEW ts PROVE JobStands(IdleProc, ts)
  <2>1. IsJob(IdleProc) /\ IdleProc.at = "idle" /\ IdleProc.cmd = Absent
    BY IdleIsJob DEF Absent
  <2> QED
    BY <2>1 DEF JobStands, Absent
<1>2. ASSUME UNCHANGED <<txs, job>> PROVE TokensInv'
  <2>1. /\ KnownTxs' = KnownTxs /\ Spent' = Spent /\ Outpoints' = Outpoints
        /\ Unspent' = Unspent /\ \A o : At(o)' = At(o)
    BY <1>2 DEF KnownTxs, Spent, Outpoints, At, Unspent
  <2>2. \A ref : NftIsThere(ref) => NftIsThere(ref)'
    BY <2>1 DEF NftIsThere
  <2>3. \A o \in Outpoints' : IsNftScript(At(o).lock)' => NftIsThere(ExtractRef(At(o).lock))'
    BY <2>1, <2>2 DEF TokensInv
  <2> QED
    BY <1>2, <2>1, <2>3 DEF TokensInv
<1>3. ASSUME NEW x \in Procs, Stop(x), UNCHANGED txs PROVE TokensInv'
  BY <1>1, <1>3, JobGoesOn DEF Stop
<1>4. ASSUME NEW x \in Procs, BroadcastCommit(x) PROVE TokensInv'
  <2>1. JobStands(job[x], txs) /\ job[x].at = "commit"
    BY <1>4 DEF TokensInv, BroadcastCommit
  <2>2. CASE Verdict(job[x].tx) = "accepted"
    <3>1. txs' = Append(txs, job[x].tx)
      BY <1>4, <2>2 DEF BroadcastCommit, Append1
    <3>2. CASE Stop(x)
      BY <1>1, <2>1, <2>2, <3>1, <3>2, NodeTakes DEF Stop
    <3>3. CASE job' = [job EXCEPT ![x].at = "wait", ![x].commit = Len(txs) + 1]
      <4> DEFINE d == [job[x] EXCEPT !.at = "wait", !.commit = Len(txs) + 1]
      <4>1. job' = [job EXCEPT ![x] = d]
        BY <3>3 DEF TokensInv
      <4>2. Len(txs) + 1 \in DOMAIN txs' /\ txs'[Len(txs) + 1] = job[x].tx
        BY <3>1, OneMoreTx DEF TokensInv
      <4>3. /\ IsJob(d) /\ d.at = "wait" /\ d.commit = Len(txs) + 1
            /\ d.cmd = job[x].cmd /\ d.supply = job[x].supply /\ d.tx = job[x].tx
        BY <2>1 DEF JobStands, IsJob
      <4> HIDE DEF d
      <4>4. JobStands(d, txs')
        BY <2>1, <4>2, <4>3 DEF JobStands, IsJob
      <4> QED
        BY <2>1, <2>2, <3>1, <4>1, <4>4, NodeTakes
    <3> QED
      BY <1>4, <2>2, <3>2, <3>3 DEF BroadcastCommit
  <2>3. CASE Verdict(job[x].tx) # "accepted"
    BY <1>3, <1>4, <2>3 DEF BroadcastCommit
  <2> QED
    BY <2>2, <2>3
<1>5. ASSUME NEW x \in Procs, WaitForTx(x) PROVE TokensInv'
  <2>1. JobStands(job[x], txs) /\ job[x].at = "wait" /\ UNCHANGED txs
    BY <1>5 DEF TokensInv, WaitForTx
  <2>2. CASE Stop(x)
    BY <1>3, <2>1, <2>2
  <2>3. ASSUME NEW tx \in Reveals(x), job' = [job EXCEPT ![x].at = "reveal", ![x].tx = tx]
        PROVE  TokensInv'
    <3> DEFINE d == [job[x] EXCEPT !.at = "reveal", !.tx = tx]
    <3>1. MovesNfts(tx)
      BY <2>1, RevealsMove
    <3>2. job' = [job EXCEPT ![x] = d]
      BY <2>3 DEF TokensInv
    <3>3. /\ IsJob(d) /\ d.at = "reveal" /\ d.tx = tx
          /\ d.cmd = job[x].cmd /\ d.supply = job[x].supply
      BY <2>1 DEF JobStands, IsJob
    <3> HIDE DEF d
    <3>4. JobStands(d, txs)
      BY <2>1, <3>1, <3>3 DEF JobStands, IsJob
    <3> QED
      BY <2>1, <3>2, <3>4, JobGoesOn
  <2> QED
    BY <1>5, <2>2, <2>3 DEF WaitForTx
<1>6. ASSUME NEW x \in Procs, BroadcastLast(x) PROVE TokensInv'
  <2>1. JobStands(job[x], txs) /\ job[x].at \in {"reveal", "send"}
    BY <1>6 DEF TokensInv, BroadcastLast
  <2>2. ASSUME NEW result, NEW n, NEW ts
        PROVE  JobStands([IdleProc EXCEPT !.cmd = job[x].cmd, !.supply = job[x].supply,
                            !.result = result, !.commit = n], ts)
    <3> DEFINE d == [IdleProc EXCEPT !.cmd = job[x].cmd, !.supply = job[x].supply,
                       !.result = result, !.commit = n]
    <3>2. IsJob(d) /\ d.at = "idle" /\ d.cmd = job[x].cmd /\ d.supply = job[x].supply
      BY IdleIsJob DEF IsJob
    <3> HIDE DEF d
    <3>3. JobStands(d, ts)
      BY <2>1, <3>2 DEF JobStands
    <3> QED
      BY <3>3 DEF d
  <2>3. CASE Verdict(job[x].tx) = "accepted"
    <3>1. txs' = Append(txs, job[x].tx) /\ (Stop(x) \/ Finish(x, "done"))
      BY <1>6, <2>3 DEF BroadcastLast, Append1
    <3>2. CASE Stop(x)
      BY <1>1, <2>1, <2>3, <3>1, <3>2, NodeTakes DEF Stop
    <3>3. CASE Finish(x, "done")
      BY <2>1, <2>2, <2>3, <3>1, <3>3, NodeTakes DEF Finish
    <3> QED
      BY <3>1, <3>2, <3>3
  <2>4. CASE Verdict(job[x].tx) # "accepted"
    <3>1. UNCHANGED txs /\ Finish(x, Verdict(job[x].tx))
      BY <1>6, <2>4 DEF BroadcastLast
    <3> QED
      BY <2>2, <3>1, JobGoesOn DEF Finish
  <2> QED
    BY <2>3, <2>4
<1>7. ASSUME NEW x \in Procs, Abort(x) \/ WaitTimeout(x) PROVE TokensInv'
  BY <1>3, <1>7 DEF Abort, WaitTimeout
<1>8. CASE Confirm
  BY <1>2, <1>8 DEF Confirm
<1>9. CASE UNCHANGED tokensVars
  BY <1>2, <1>9 DEF tokensVars
<1> QED
  BY <1>4, <1>5, <1>6, <1>7, <1>8, <1>9, CommandsKeep DEF TokensNext

(* The wallet's processes build only transactions that pass on what they   *)
(* sign for as an NFT, in every state they reach side by side.             *)
THEOREM TokensInvariant == TokensSpec => []TokensInv
BY TokensInvInit, TokensInvNext, PTL DEF TokensSpec

(* NftsSurvive: no NFT disappears, whatever mints, deploys and transfers   *)
(* of one wallet run at the same time, are aborted or lose their answers   *)
(* (cli/glyph_cmds.py, glyph/builder.py).                                  *)
THEOREM NoNftIsLost == TokensSpec => []NftsSurvive
<1>1. TokensInv => NftsSurvive
  <2> SUFFICES ASSUME TokensInv, NEW o \in Outpoints, IsNftScript(At(o).lock)
               PROVE  \E q \in Unspent : <<ExtractRef(At(o).lock), "single">> \in At(q).lock.refs
    BY DEF NftsSurvive
  <2>1. PICK q \in Unspent : /\ IsNftScript(At(q).lock)
                             /\ ExtractRef(At(q).lock) = ExtractRef(At(o).lock)
    BY DEF TokensInv, NftIsThere
  <2>2. CarriesItsRef(At(q).lock)
    BY DEF TokensInv, Unspent, Outpoints, NftOutsCarry, At
  <2> QED
    BY <2>1, <2>2 DEF CarriesItsRef
<1> QED
  BY <1>1, TokensInvariant, PTL

--------------------------------------------------------- (* dMint contracts *)

(* A claim's record, and what a claimer holds of the contract.             *)
IsClaim(c) == DOMAIN c = {"pc", "out", "view", "coin", "tx", "proof", "tries"}
ClaimIsReal(c, os) ==
  /\ IsClaim(c)
  /\ c.pc # "idle" => c.out \in DOMAIN os /\ c.view \in FromScript(os[c.out])

DmintInv ==
  /\ outputs \in Seq({outputs[i] : i \in DOMAIN outputs}) /\ outputs # <<>>
  /\ miner \in [Miners -> {miner[w] : w \in Miners}]
  /\ \A w \in Miners : ClaimIsReal(miner[w], outputs)

LEMMA NoClaimIsReal == ASSUME NEW os PROVE ClaimIsReal(NoClaim, os)
<1>1. IsClaim(NoClaim) /\ NoClaim.pc = "idle"
  BY DEF IsClaim, NoClaim
<1> QED
  BY <1>1 DEF ClaimIsReal

LEMMA DmintInvInit == DmintInit => DmintInv
<1> SUFFICES ASSUME DmintInit PROVE DmintInv
  OBVIOUS
<1>1. PICK first : outputs = <<first>>
  BY DEF DmintInit
<1>2. outputs \in Seq({outputs[i] : i \in DOMAIN outputs}) /\ outputs # <<>>
  BY <1>1
<1>3. miner = [w \in Miners |-> NoClaim]
  BY DEF DmintInit
<1> QED
  BY <1>2, <1>3, NoClaimIsReal DEF DmintInv

(* One miner's claim changes and the contract stays.                       *)
LEMMA ClaimGoesOn ==
  ASSUME DmintInv, NEW w \in Miners, NEW c, miner' = [miner EXCEPT ![w] = c],
         UNCHANGED outputs, ClaimIsReal(c, outputs)
  PROVE  DmintInv'
<1>1. \A x \in Miners : miner'[x] = IF x = w THEN c ELSE miner[x]
  BY DEF DmintInv
<1>2. miner' \in [Miners -> {miner'[x] : x \in Miners}]
  BY DEF DmintInv
<1>3. \A x \in Miners : ClaimIsReal(miner'[x], outputs')
  BY <1>1 DEF DmintInv
<1>4. outputs' \in Seq({outputs'[i] : i \in DOMAIN outputs'}) /\ outputs' # <<>>
  BY DEF DmintInv
<1> QED
  BY <1>2, <1>3, <1>4 DEF DmintInv

(* A mint was taken: the contract has one more output, and what claimers   *)
(* hold of the earlier ones is still true of those.                        *)
LEMMA MintIsTaken ==
  ASSUME DmintInv, NEW w \in Miners, Quit(w), NEW new, outputs' = Append(outputs, new)
  PROVE  DmintInv'
<1> DEFINE S == {outputs[i] : i \in DOMAIN outputs} \cup {new}
<1>1. outputs \in Seq(S)
  <2>1. outputs \in Seq({outputs[i] : i \in DOMAIN outputs})
    BY DEF DmintInv
  <2> QED
    BY <2>1
<1>2. /\ DOMAIN outputs' = 1 .. Len(outputs) + 1 /\ DOMAIN outputs = 1 .. Len(outputs)
      /\ Len(outputs) \in Nat
      /\ \A i \in DOMAIN outputs : outputs'[i] = outputs[i]
      /\ outputs' \in Seq(S) /\ outputs'[Len(outputs) + 1] = new
  BY <1>1
<1>3. \A o \in S : \E i \in DOMAIN outputs' : outputs'[i] = o
  BY <1>2
<1>4. outputs' \in Seq({outputs'[i] : i \in DOMAIN outputs'}) /\ outputs' # <<>>
  BY <1>2, <1>3
<1>5. \A x \in Miners : miner'[x] = IF x = w THEN NoClaim ELSE miner[x]
  BY DEF DmintInv, Quit
<1>6. miner' \in [Miners -> {miner'[x] : x \in Miners}]
  BY DEF DmintInv, Quit
<1>7. ASSUME NEW x \in Miners PROVE ClaimIsReal(miner'[x], outputs')
  <2>1. CASE x = w
    BY <1>5, <2>1, NoClaimIsReal
  <2>2. CASE x # w
    <3>1. miner'[x] = miner[x] /\ ClaimIsReal(miner[x], outputs)
      BY <1>5, <2>2 DEF DmintInv
    <3> QED
      BY <1>2, <3>1 DEF ClaimIsReal
  <2> QED
    BY <2>1, <2>2
<1> QED
  BY <1>4, <1>6, <1>7 DEF DmintInv

(* A claim is prepared on the state of the output it names.                *)
LEMMA PreparedIsReal ==
  ASSUME DmintInv, NEW w \in Miners, NEW out \in DOMAIN outputs,
         NEW view \in FromScript(outputs[out]), Prepare(w, out, view)
  PROVE  DmintInv'
<1>1. PICK fund : miner' = [miner EXCEPT ![w] = [@ EXCEPT !.pc = "prepared", !.out = out,
                                                          !.view = view, !.coin = fund]]
  BY DEF Prepare
<1> DEFINE c == [miner[w] EXCEPT !.pc = "prepared", !.out = out, !.view = view, !.coin = fund]
<1>2. miner' = [miner EXCEPT ![w] = c]
  BY <1>1 DEF DmintInv
<1>3. IsClaim(miner[w])
  BY DEF DmintInv, ClaimIsReal
<1>4. IsClaim(c) /\ c.pc = "prepared" /\ c.out = out /\ c.view = view
  BY <1>3 DEF IsClaim
<1> HIDE DEF c
<1>5. ClaimIsReal(c, outputs)
  BY <1>4 DEF ClaimIsReal
<1> QED
  BY <1>2, <1>5, ClaimGoesOn DEF Prepare

(* Whatever a server lists, S2Verify lets through only outputs of the      *)
(* contract that carry the script of height 0.                             *)
LEMMA ListedIsReal ==
  ASSUME NEW answer, NEW out \in FindContractUtxos(answer)
  PROVE  out \in DOMAIN outputs /\ outputs[out] = outputs[1]
BY DEF FindContractUtxos, S2Verify

(* A miner that goes on with a claim keeps the output and the view.        *)
LEMMA SolvedIsReal ==
  ASSUME DmintInv, NEW w \in Miners, miner[w].pc = "prepared", UNCHANGED outputs,
         \/ \E tx, proof : miner' = [miner EXCEPT ![w] = [@ EXCEPT !.pc = "solved", !.tx = tx,
                                                                    !.proof = proof]]
         \/ miner' = [miner EXCEPT ![w].tries = @ + 1]
         \/ Quit(w)
  PROVE  DmintInv'
<1>1. ClaimIsReal(miner[w], outputs)
  BY DEF DmintInv
<1>2. ASSUME NEW tx, NEW proof,
             miner' = [miner EXCEPT ![w] =
                         [@ EXCEPT !.pc = "solved", !.tx = tx, !.proof = proof]]
      PROVE  DmintInv'
  <2> DEFINE c == [miner[w] EXCEPT !.pc = "solved", !.tx = tx, !.proof = proof]
  <2>1. miner' = [miner EXCEPT ![w] = c]
    BY <1>2 DEF DmintInv
  <2>2. IsClaim(c) /\ c.pc = "solved" /\ c.out = miner[w].out /\ c.view = miner[w].view
    BY <1>1 DEF IsClaim, ClaimIsReal
  <2> HIDE DEF c
  <2>3. ClaimIsReal(c, outputs)
    BY <1>1, <2>2 DEF ClaimIsReal
  <2> QED
    BY <2>1, <2>3, ClaimGoesOn
<1>3. CASE miner' = [miner EXCEPT ![w].tries = @ + 1]
  <2> DEFINE c == [miner[w] EXCEPT !.tries = @ + 1]
  <2>1. miner' = [miner EXCEPT ![w] = c]
    BY <1>3 DEF DmintInv
  <2>2. IsClaim(c) /\ c.pc = miner[w].pc /\ c.out = miner[w].out /\ c.view = miner[w].view
    BY <1>1 DEF IsClaim, ClaimIsReal
  <2> HIDE DEF c
  <2>3. ClaimIsReal(c, outputs)
    BY <1>1, <2>2 DEF ClaimIsReal
  <2> QED
    BY <2>1, <2>3, ClaimGoesOn
<1>4. CASE Quit(w)
  BY <1>4, ClaimGoesOn, NoClaimIsReal DEF Quit
<1> QED
  BY <1>2, <1>3, <1>4

LEMMA DmintInvNext == DmintInv /\ [DmintNext]_dmintVars => DmintInv'
<1> SUFFICES ASSUME DmintInv, [DmintNext]_dmintVars PROVE DmintInv'
  OBVIOUS
<1>1. ASSUME NEW w \in Miners, ClaimDmintCmd(w) PROVE DmintInv'
  <2>1. CASE PrepareByTokenRef(w)
    <3>1. PICK answer : \E out \in FindContractUtxos(answer) :
            \E view \in FromScript(outputs[1]) : Prepare(w, out, view)
      BY <2>1 DEF PrepareByTokenRef
    <3>2. PICK out \in FindContractUtxos(answer) :
            \E view \in FromScript(outputs[1]) : Prepare(w, out, view)
      BY <3>1
    <3> QED
      BY <3>2, ListedIsReal, PreparedIsReal
  <2>2. CASE PrepareByOutpoint(w)
    BY <2>2, PreparedIsReal DEF PrepareByOutpoint
  <2> QED
    BY <1>1, <2>1, <2>2 DEF ClaimDmintCmd
<1>2. ASSUME NEW w \in Miners, MineClaimV1(w) PROVE DmintInv'
  BY <1>2, SolvedIsReal DEF MineClaimV1
<1>3. ASSUME NEW w \in Miners, MineClaimV2(w) PROVE DmintInv'
  BY <1>3, SolvedIsReal DEF MineClaimV2
<1>4. ASSUME NEW w \in Miners, Broadcast(w) PROVE DmintInv'
  <2>1. CASE outputs' = Append(outputs, miner[w].tx.contract)
    BY <1>4, <2>1, MintIsTaken DEF Broadcast
  <2>2. CASE UNCHANGED outputs
    BY <1>4, <2>2, ClaimGoesOn, NoClaimIsReal DEF Broadcast, Quit
  <2> QED
    BY <1>4, <2>1, <2>2 DEF Broadcast
<1>5. ASSUME UNCHANGED <<outputs, miner>> PROVE DmintInv'
  BY <1>5 DEF DmintInv
<1>6. CASE ForeignFinalMint
  BY <1>5, <1>6 DEF ForeignFinalMint
<1>7. CASE UNCHANGED dmintVars
  BY <1>5, <1>7 DEF dmintVars
<1> QED
  BY <1>1, <1>2, <1>3, <1>4, <1>6, <1>7 DEF DmintNext

(* GrindsOnRealState: whatever the server lists and whichever miners mint  *)
(* in between, a claimer grinds on a state that the output it will spend   *)
(* really has (cli/glyph_cmds.py:1715-1769, glyph/dmint/chain.py:844-876). *)
THEOREM GrindIsOnRealState == DmintSpec => []GrindsOnRealState
<1>1. DmintInv => GrindsOnRealState
  BY DEF DmintInv, GrindsOnRealState, ClaimIsReal
<1> QED
  BY <1>1, DmintInvInit, DmintInvNext, PTL DEF DmintSpec
=============================================================================
