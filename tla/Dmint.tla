------------------------------- MODULE Dmint -------------------------------
(***************************************************************************)
(* A dMint contract and the miners that claim from it: the singleton that  *)
(* every mint spends and recreates, the covenant that checks the recreated *)
(* state (DmintScript), and `glyph claim-dmint` with the library under it: *)
(* find or fetch the contract, pick a funding coin, build the mint, grind  *)
(* the proof of work, broadcast.  Several miners work on snapshots of one  *)
(* contract, and the server they read from may lie.                        *)
(***************************************************************************)
EXTENDS DmintScript, FiniteSets

CONSTANTS
  Miners,
  Deploys,      \* parameters a deploy may bake in, see DeployParamsOk
  Given,        \* retarget parameters a claimer may pass (half life, epoch, schedule)
  Times,        \* values of --current-time
  TimeMax,      \* 0x7FFFFFFF
  Coins,        \* coin -> [value, token, confirmed]: outputs at the miner's address
  FeeAllowance, \* the 10_000_000 photons a claim reserves for its fee
  TxFee,        \* what the built transaction costs
  DustLimit,    \* 546
  MaxRerolls

VARIABLES
  deploy,    \* the baked parameters
  outputs,   \* the contract's outputs so far, the last one unspent
  burnt,     \* the contract ended in the burn output
  spentCoins, \* funding coins spent
  miner      \* what each miner holds

dmintVars == <<deploy, outputs, burnt, spentCoins, miner>>

Nothing == "none"

---------------------------------------------------------- (* the contract *)

(* DmintDeployParams.__post_init__.                                        *)
DeployParamsOk(d) ==
  /\ d.maxHeight >= 1 /\ d.reward >= 1 /\ d.target >= 1 /\ d.targetTime >= 1 /\ d.halfLife >= 1
  /\ d.mode = "EPOCH" => d.epochLength >= 1 /\ d.log2 \in 1 .. 4 /\ d.target <= EpochMaxSafe
  /\ d.mode = "SCHEDULE" =>
       /\ d.schedule # <<>>
       /\ \A i \in DOMAIN d.schedule :
            /\ d.schedule[i][1] >= 0 /\ d.schedule[i][2] \in 1 .. IntMax
            /\ i > 1 => d.schedule[i - 1][1] < d.schedule[i][1]

(* build_dmint_contract_script: the ten-item state script of height 0.     *)
BuildContractScript(d) ==
  [layout |-> "v2", height |-> 0, target |-> d.target, last |-> 0, targetTime |-> d.targetTime]

(* build_dmint_v1_contract_script: four items, or a refusal.               *)
BuildV1ContractScript(d, height, target) ==
  IF height >= 0 /\ height < d.maxHeight /\ target \in 1 .. IntMax
  THEN {[layout |-> "v1", height |-> height, target |-> target]} ELSE {}

(* DmintState.from_script: the V2 layout is tried first, then V1, which    *)
(* has no times.                                                           *)
FromV2Script(script) ==
  IF script.layout = "v2"
  THEN {[isV1 |-> FALSE, height |-> script.height, target |-> script.target,
         last |-> script.last, targetTime |-> script.targetTime]} ELSE {}
FromV1Script(script) ==
  IF script.layout = "v1"
  THEN {[isV1 |-> TRUE, height |-> script.height, target |-> script.target, last |-> 0,
         targetTime |-> 0]} ELSE {}
FromScript(script) ==
  IF FromV2Script(script) # {} THEN FromV2Script(script) ELSE FromV1Script(script)

(* _v2_state_script_bytes.                                                 *)
V2StateScript(state) == [layout |-> "v2", height |-> state.height, target |-> state.target,
                         last |-> state.last, targetTime |-> state.targetTime]

IsExhausted(state) == state.height >= deploy.maxHeight

(* What Part C and the V1 epilogue accept in the contract's output.  At    *)
(* the last height it is the burn; before it, the state rebuilt from the   *)
(* height, the transaction's lock time and the retargeted target.          *)
CovenantAccepts(old, tx) ==
  LET t == CovenantTarget(deploy, old, tx.locktime)
      height == old.height + 1
  IN  IF deploy.v1
      THEN IF height = deploy.maxHeight THEN tx.burn
           ELSE ~tx.burn /\ tx.contract = [old EXCEPT !.height = height]
      ELSE /\ t.ok /\ tx.locktime <= TimeMax
           /\ IF height = deploy.maxHeight THEN tx.burn
              ELSE /\ ~tx.burn
                   /\ tx.contract = [old EXCEPT !.height = height, !.last = tx.locktime,
                                                !.target = t.target]

LiveOutput == Len(outputs)

---------------------------------------------------- (* reading the contract *)

(* _find_v1_contract_utxos_fast and _walk look for the script of height 0, *)
(* so that an answer is the deploy's own output or a lie.  An honest       *)
(* server lists it while it is unspent.                                    *)
FindFast ==
  {o \in DOMAIN outputs : o = LiveOutput /\ ~burnt
                        /\ outputs[o] \in BuildV1ContractScript(deploy, 0, deploy.target)}
FindWalk == {o \in {1} : o = LiveOutput /\ ~burnt /\ \A s \in FromScript(outputs[o]) : s.isV1}
ServerAnswers == SUBSET (DOMAIN outputs \cup {0})

(* Mutation: the server's listing is taken as it is.                       *)
S2Trusting(candidates) == [ok |-> TRUE, verified |-> candidates]

(* _s2_verify_contract_utxos: fetch each candidate's transaction and       *)
(* compare the script; outpoint 0 stands for one that does not carry it.   *)
S2Verify(candidates) ==
  [ok |-> \A c \in candidates : c \in DOMAIN outputs /\ outputs[c] = outputs[1],
   verified |-> candidates]

(* find_dmint_contract_utxos, claiming the first that is not exhausted.    *)
FindContractUtxos(candidates) ==
  LET v == S2Verify(candidates) IN IF v.ok THEN v.verified ELSE {}

(* find_dmint_funding_utxo: confirmed, no token, large enough; the largest.*)
FundingCandidates(reachable, needed) ==
  {c \in reachable \ spentCoins :
     Coins[c].confirmed /\ ~Coins[c].token /\ Coins[c].value >= needed}
FindFundingUtxo(reachable, needed) ==
  LET cs == FundingCandidates(reachable, needed)
  IN  {c \in cs : \A x \in cs : Coins[x].value <= Coins[c].value}

Needed == deploy.reward + FeeAllowance + DustLimit

(* _claim_prepare.  Any subset of the miner's coins may be out of reach.   *)
Prepare(w, out, view) ==
  /\ miner[w].pc = "idle"
  /\ ~IsExhausted(view)
  /\ \E reachable \in SUBSET DOMAIN Coins :
       \E coin \in FindFundingUtxo(reachable, Needed) :
         miner' = [miner EXCEPT ![w] = [@ EXCEPT !.pc = "prepared", !.out = out, !.view = view,
                                         !.coin = coin]]
  /\ UNCHANGED <<deploy, outputs, burnt, spentCoins>>

(* --token-ref, with an honest server on either path and with a lying one. *)
PrepareByTokenRef(w) ==
  \E answer \in {FindFast, FindWalk} \cup ServerAnswers :
    \E out \in FindContractUtxos(answer) :
      \E view \in FromScript(outputs[1]) : Prepare(w, out, view)

(* --contract TXID:VOUT, _fetch_dmint_contract: whichever output of the    *)
(* contract's history the user names.                                      *)
PrepareByOutpoint(w) ==
  \E out \in DOMAIN outputs : \E view \in FromScript(outputs[out]) : Prepare(w, out, view)

(* claim-dmint takes exactly one of the two.                               *)
ClaimDmintCmd(w) == PrepareByTokenRef(w) \/ PrepareByOutpoint(w)

----------------------------------------------------------- (* the mint *)

(* _v2_claim_daa_kwargs: the parameters the claimer supplies, on top of    *)
(* what the contract's state says.                                         *)
ClaimDaaKwargs(g) == [deploy EXCEPT !.halfLife = g.halfLife, !.epochLength = g.epochLength,
                                    !.log2 = g.log2, !.schedule = g.schedule]

(* The supplied parameters reproduce the contract's baked code.            *)
ParamsMatch(g) == deploy.mode # "FIXED" => BuildPartB(ClaimDaaKwargs(g)) = BuildPartB(deploy)

TimeOk(view, now) ==
  /\ now >= 0 /\ now <= TimeMax
  /\ deploy.mode # "FIXED" => now >= view.last

ChangeOk(coin) == Coins[coin].value - deploy.reward - TxFee >= DustLimit

(* Why a V2 mint is refused before anything is built.  The covenant keeps  *)
(* the recreated contract at one photon and the mint keeps the carrier's   *)
(* value, so that no other carrier can be minted from.                     *)
MintRequestOk(view, coin, now, g) ==
  /\ deploy.mode = "SCHEDULE" => g.schedule # <<>>
  /\ TimeOk(view, now) /\ ~IsExhausted(view)
  /\ deploy.carrier = 1 /\ ~Coins[coin].token

(* build_dmint_mint_tx for V2: the recreated state, or a refusal.          *)
BuildMintTx(w, view, coin, now, g) ==
  IF /\ MintRequestOk(view, coin, now, g) /\ ParamsMatch(g)
     /\ V2StateScript(view) = outputs[miner[w].out] /\ ChangeOk(coin)
  THEN {[contract |-> V2StateScript([view EXCEPT !.height = @ + 1, !.last = now,
                                       !.target = NextTarget(ClaimDaaKwargs(g), view, now)]),
         locktime |-> now, burn |-> FALSE, message |-> 0]}
  ELSE {}

V1MintRequestOk(view, coin) ==
  ~IsExhausted(view) /\ deploy.carrier = 1 /\ ~Coins[coin].token

(* _build_dmint_v1_mint_tx: no time, the same target, and the state        *)
(* builder refuses the height that would exhaust the contract.             *)
BuildV1MintTx(view, coin, message) ==
  IF V1MintRequestOk(view, coin) /\ ChangeOk(coin)
  THEN {[contract |-> s, locktime |-> 0, burn |-> FALSE, message |-> message] :
          s \in BuildV1ContractScript(deploy, view.height + 1, view.target)}
  ELSE {}

(* build_dmint_mint_tx: the layout of the state decides; a V1 mint has no  *)
(* time and a V2 claim one message.                                        *)
BuildDmintMintTx(w, now, g, message) ==
  IF miner[w].view.isV1
  THEN {tx \in BuildV1MintTx(miner[w].view, miner[w].coin, message) : now = 0}
  ELSE BuildMintTx(w, miner[w].view, miner[w].coin, now, g)

(* build_dmint_v1_mint_preimage, build_dmint_v2_mint_preimage: what the    *)
(* proof of work commits to.                                               *)
MintPreimage(w, message) == [out |-> miner[w].out, coin |-> miner[w].coin, message |-> message]

(* build_mint_scriptsig: the nonce, as wide as the layout wants it, and    *)
(* the two hashes of the preimage that was ground.                         *)
NonceWidth(v1) == IF v1 THEN 4 ELSE 8
MintScriptsig(w, pre) == [width |-> NonceWidth(miner[w].view.isV1), solves |-> pre]

(* The command ends; what it read is gone.                                 *)
NoClaim == [pc |-> "idle", out |-> 0, view |-> Nothing, coin |-> Nothing, tx |-> Nothing,
            proof |-> Nothing, tries |-> 0]

Quit(w) == miner' = [miner EXCEPT ![w] = NoClaim]

(* _mine_claim_v2: one grind; a miner that gives up ends the claim.        *)
MineClaimV2(w) ==
  /\ miner[w].pc = "prepared" /\ ~deploy.v1
  /\ \E now \in Times, g \in Given :
       LET txs == BuildDmintMintTx(w, now, g, 0) IN
       \/ txs = {} /\ Quit(w)
       \/ \E tx \in txs :
            \/ miner' = [miner EXCEPT ![w] = [@ EXCEPT !.pc = "solved", !.tx = tx,
                                               !.proof = MintPreimage(w, tx.message)]]
            \/ Quit(w)
  /\ UNCHANGED <<deploy, outputs, burnt, spentCoins>>

(* _mine_claim_with_rerolls: V1's four bytes of nonce may run out, and the *)
(* message is changed to grind again, on a mint built for that message.    *)
MineClaimV1(w) ==
  /\ miner[w].pc = "prepared" /\ deploy.v1
  /\ LET txs == BuildDmintMintTx(w, 0, Nothing, miner[w].tries) IN
     \/ txs = {} /\ Quit(w)
     \/ \E tx \in txs : miner' = [miner EXCEPT ![w] = [@ EXCEPT !.pc = "solved", !.tx = tx,
                                                        !.proof = MintPreimage(w, tx.message)]]
     \/ txs # {} /\ miner[w].tries + 1 < MaxRerolls /\ miner' = [miner EXCEPT ![w].tries = @ + 1]
     \/ txs # {} /\ miner[w].tries + 1 = MaxRerolls /\ Quit(w)
  /\ UNCHANGED <<deploy, outputs, burnt, spentCoins>>

(* build_pow_preimage, as the covenant recomputes it from the transaction  *)
(* it is in and the scriptSig's pushes.                                    *)
CovenantChecksProof(w, sig) ==
  /\ sig.width = NonceWidth(deploy.v1)
  /\ sig.solves = [out |-> miner[w].out, coin |-> miner[w].coin, message |-> miner[w].tx.message]

NodeAccepts(w) ==
  /\ miner[w].out = LiveOutput /\ ~burnt /\ miner[w].coin \notin spentCoins
  /\ CovenantChecksProof(w, MintScriptsig(w, miner[w].proof))
  /\ deploy.carrier = 1 /\ CovenantAccepts(outputs[LiveOutput], miner[w].tx)

(* _sign_funding_input and the broadcast.                                  *)
Broadcast(w) ==
  /\ miner[w].pc = "solved"
  /\ Quit(w)
  /\ IF NodeAccepts(w)
     THEN /\ outputs' = Append(outputs, miner[w].tx.contract)
          /\ spentCoins' = spentCoins \cup {miner[w].coin}
     ELSE UNCHANGED <<outputs, spentCoins>>
  /\ UNCHANGED <<deploy, burnt>>

(* Another wallet's final mint, which burns the contract.                  *)
ForeignFinalMint ==
  /\ ~burnt /\ outputs[LiveOutput].height + 1 = deploy.maxHeight
  /\ burnt' = TRUE
  /\ UNCHANGED <<deploy, outputs, spentCoins, miner>>

----------------------------------------------------------------------------

DmintInit ==
  /\ deploy \in {d \in Deploys : DeployParamsOk(d)}
  /\ outputs = <<IF deploy.v1
                 THEN CHOOSE s \in BuildV1ContractScript(deploy, 0, deploy.target) : TRUE
                 ELSE BuildContractScript(deploy)>>
  /\ burnt = FALSE
  /\ spentCoins = {}
  /\ miner = [w \in Miners |-> NoClaim]

DmintNext ==
  \/ \E w \in Miners : ClaimDmintCmd(w) \/ MineClaimV1(w) \/ MineClaimV2(w) \/ Broadcast(w)
  \/ ForeignFinalMint

DmintSpec == DmintInit /\ [][DmintNext]_dmintVars

------------------------------------------------------------ (* properties *)

ReadyToSend(w) ==
  /\ miner[w].pc = "solved" /\ miner[w].out = LiveOutput
  /\ ~burnt /\ miner[w].coin \notin spentCoins

(* A ground mint of the contract's live output is accepted: at every       *)
(* height, time and retarget mode the state that miner.py predicts in      *)
(* Python is the one that builders.py's opcodes demand, no opcode aborts,  *)
(* and the grind is not wasted.  The final mint is excepted (FinalMint).   *)
NoWastedGrind ==
  \A w \in Miners :
    ReadyToSend(w) /\ outputs[LiveOutput].height + 1 < deploy.maxHeight => NodeAccepts(w)

(* What a miner grinds on is a state the contract really had, in the       *)
(* output it is going to spend, whatever the server listed.                *)
GrindsOnRealState ==
  \A w \in Miners : miner[w].pc # "idle" =>
    miner[w].out \in DOMAIN outputs /\ miner[w].view \in FromScript(outputs[miner[w].out])

(* The mint that reaches max_height carries what the covenant's last       *)
(* branch asks for, the burn of the contract's reference.                  *)
FinalMint ==
  \A w \in Miners :
    ReadyToSend(w) /\ outputs[LiveOutput].height + 1 = deploy.maxHeight => NodeAccepts(w)
=============================================================================
