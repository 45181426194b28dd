------------------------------- MODULE Tokens -------------------------------
(***************************************************************************)
(* Glyph tokens made and moved from the command line: `glyph mint-nft`,    *)
(* `deploy-ft`, `deploy-dmint`, `transfer-ft`, `transfer-nft` and the      *)
(* library under them (glyph/builder.py, ft.py, script.py, scanner.py).    *)
(* Several processes of one wallet run at once against one chain.  A mint  *)
(* is two transactions, a commit and the reveal that spends it, and a      *)
(* process may stop between them.  The chain is the rules of the node as   *)
(* the scripts use them: who may spend, which refs may appear in an        *)
(* output, what a commit asks of its reveal.                               *)
(***************************************************************************)
EXTENDS Integers, Sequences, FiniteSets, SequencesExt, FiniteSetsExt

CONSTANTS
  Keys,          \* the addresses of the wallet
  Procs,         \* processes of the wallet
  Metas,         \* metadata file -> [protocol, bytes, version]
  Supplies, Amounts, Contracts,   \* arguments of deploy-ft, transfer-ft and deploy-dmint
  Treasuries, Recipients,         \* addresses given to deploy-ft and to the transfers
  Genesis,       \* the outputs the wallet starts with
  CommitValue,   \* the 5_000_000 photons of a commit
  CommitFee, RevealFeeEstimate, TransferFee, NeededForNft,
  Dust,          \* 546
  RefSeed,       \* _DMINT_REF_SEED
  MaxTxs

VARIABLES
  txs,        \* accepted transactions; the first is where the wallet's coins come from
  confirmed,  \* how many of them are confirmed
  job         \* what each process is doing

(* The wallet starts with outputs, and an NFT among them carries its ref.  *)
ASSUME TokensAssumption ==
  /\ Contracts \subseteq Nat
  /\ Genesis \in Seq([lock : {Genesis[i].lock : i \in DOMAIN Genesis}, value : Nat])
  /\ \A i \in DOMAIN Genesis : Genesis[i].lock.kind = "nft" =>
       \E e \in Genesis[i].lock.refs :
         e = <<e[1], "single">> /\ Genesis[i].lock.refs = {e}

tokensVars == <<txs, confirmed, job>>

Absent == "none"
Nowhere == <<0, 0>>

------------------------------------------------------------- (* scripts *)

(* What a locking script fixes: who signs, the refs it pushes, and for a   *)
(* commit or a mutable contract the payload it hashes.                     *)
Lock(kind, owner, refs, payload) ==
  [kind |-> kind, owner |-> owner, refs |-> refs, payload |-> payload]
P2PKH(owner) == Lock("p2pkh", owner, {}, Absent)

(* build_nft_locking_script, build_ft_locking_script,                      *)
(* build_mutable_nft_script.                                               *)
NftScript(owner, ref) == Lock("nft", owner, {<<ref, "single">>}, Absent)
FtScript(owner, ref) == Lock("ft", owner, {<<ref, "normal">>}, Absent)
MutableNftScript(ref, payload) == Lock("mut", Absent, {<<ref, "single">>}, payload)

(* The contract of a dMint deploy: its own singleton and the token's ref.  *)
ContractScript(kind, contractRef, tokenRef) ==
  Lock(kind, Absent, {<<contractRef, "single">>, <<tokenRef, "normal">>}, Absent)

(* build_commit_locking_script: the payload, and the type that the ref     *)
(* made from this output must have in the spending transaction.            *)
CommitScript(payload, owner, isNft) ==
  Lock(IF isNft THEN "commit-nft" ELSE "commit-ft", owner, {}, payload)

IsNftScript(lock) == lock.kind = "nft"
IsFtScript(lock) == lock.kind = "ft"
IsPlain(lock) == lock.kind = "p2pkh"
ExtractRef(lock) == CHOOSE r \in {e[1] : e \in lock.refs} : TRUE

Output(lock, value) == [lock |-> lock, value |-> value]

------------------------------------------------------------- (* the node *)

Outpoints == UNION {{<<i, v>> : v \in DOMAIN txs[i].outs} : i \in DOMAIN txs}
Spent == UNION {{txs[i].ins[k].from : k \in DOMAIN txs[i].ins} : i \in DOMAIN txs}
Unspent == Outpoints \ Spent
At(o) == txs[o[1]].outs[o[2]]

Total(outs) == FoldSeq(LAMBDA o, sum : o.value + sum, 0, outs)
InputValue(tx) == FoldSeq(LAMBDA i, sum : At(i.from).value + sum, 0, tx.ins)
Froms(tx) == {tx.ins[k].from : k \in DOMAIN tx.ins}
UnitsOf(outs, ref) ==
  FoldSeq(LAMBDA o, sum : sum + IF <<ref, "normal">> \in o.lock.refs /\ IsFtScript(o.lock)
                                THEN o.value ELSE 0, 0, outs)

(* An output may carry a ref that an input carries or an outpoint being    *)
(* spent; a singleton goes to one output at most; an FT's units do not     *)
(* grow (the epilogue compares sums of values).                            *)
RefsAllowed(tx) ==
  LET ins == {At(o) : o \in Froms(tx)}
      carried == UNION {o.lock.refs : o \in ins}
      spentFt == SetToSeq({o \in Froms(tx) : IsFtScript(At(o).lock)})
  IN  /\ \A v \in DOMAIN tx.outs : \A e \in tx.outs[v].lock.refs :
           e[1] \in Froms(tx) \/ e \in carried
      /\ \A v, w \in DOMAIN tx.outs : \A e \in tx.outs[v].lock.refs :
           e[2] = "single" /\ e \in tx.outs[w].lock.refs => v = w
      /\ \A k \in DOMAIN spentFt :
           LET ref == ExtractRef(At(spentFt[k]).lock)
           IN  UnitsOf(tx.outs, ref)
                 <= UnitsOf([j \in DOMAIN spentFt |-> At(spentFt[j])], ref)

(* OP_REFTYPE_OUTPUT of the commit's own outpoint.                         *)
RefType(tx, ref) ==
  LET types == {e[2] : e \in {f \in UNION {tx.outs[v].lock.refs : v \in DOMAIN tx.outs}
                               : f[1] = ref}}
  IN  IF "single" \in types THEN 2 ELSE IF "normal" \in types THEN 1 ELSE 0

(* A signature covers the script its signer thought the coin had; a commit *)
(* is spent with its payload and makes a ref of its type.                  *)
InputSatisfied(tx, k) ==
  LET lock == At(tx.ins[k].from).lock IN
  /\ tx.ins[k].signedAs = lock
  /\ tx.ins[k].key = lock.owner
  /\ lock.kind \in {"commit-nft", "commit-ft"} =>
       /\ tx.gly = lock.payload
       /\ RefType(tx, tx.ins[k].from) = IF lock.kind = "commit-nft" THEN 2 ELSE 1

RulesKept(tx) == RefsAllowed(tx) /\ \A k \in DOMAIN tx.ins : InputSatisfied(tx, k)
FeePaid(tx) == InputValue(tx) - Total(tx.outs) >= tx.bytes
Verdict(tx) ==
  CASE ~(Froms(tx) \subseteq Unspent) -> "spent"
    [] Froms(tx) \subseteq Unspent /\ ~RulesKept(tx) -> "rule"
    [] Froms(tx) \subseteq Unspent /\ RulesKept(tx) /\ ~FeePaid(tx) -> "fee"
    [] OTHER -> "accepted"

--------------------------------------------------------- (* the builders *)

(* GlyphMetadata.__post_init__: FT and NFT exclude each other, and an      *)
(* extension needs the protocol it extends.                                *)
MetadataOk(meta) ==
  LET pr == Metas[meta].protocol IN
  /\ pr # {} /\ ~({"FT", "NFT"} \subseteq pr)
  /\ "DMINT" \in pr => "FT" \in pr
  /\ (pr \cap {"MUT", "CONTAINER", "ENCRYPTED", "AUTHORITY"}) # {} => "NFT" \in pr
  /\ "TIMELOCK" \in pr => "ENCRYPTED" \in pr
  /\ "WAVE" \in pr => "MUT" \in pr

(* Mutation: the commit always asks for a singleton.                       *)
PrepareCommitForNft(meta, owner) == CommitScript(meta, owner, TRUE)

(* prepare_commit.                                                         *)
PrepareCommit(meta, owner) == CommitScript(meta, owner, "NFT" \in Metas[meta].protocol)

(* prepare_reveal, prepare_ft_deploy_reveal, prepare_container_reveal,     *)
(* prepare_mutable_reveal (prepare_wave_reveal adds a check of the name):  *)
(* the outputs' scripts, or none when the metadata does not fit.  The ref  *)
(* is the commit's outpoint.                                               *)
PrepareReveal(meta, commit, owner, isNft) ==
  IF (IF isNft THEN "NFT" ELSE "FT") \in Metas[meta].protocol
  THEN {IF isNft THEN NftScript(owner, commit) ELSE FtScript(owner, commit)} ELSE {}

PrepareFtDeployReveal(meta, commit, treasury, premine) ==
  IF premine < Dust THEN {} ELSE PrepareReveal(meta, commit, treasury, FALSE)

PrepareMutableReveal(meta, commit, owner) ==
  IF "MUT" \in Metas[meta].protocol
  THEN {<<NftScript(owner, commit), MutableNftScript(commit, meta)>>} ELSE {}

PrepareContainerReveal(meta, commit, owner, child) ==
  IF "CONTAINER" \in Metas[meta].protocol
  THEN {[NftScript(owner, commit) EXCEPT !.refs = @ \cup {<<c, "normal">> : c \in child}]} ELSE {}

PrepareWaveReveal(meta, commit, owner, name, cborName) ==
  IF name # "" /\ {"WAVE", "MUT"} \subseteq Metas[meta].protocol /\ cborName = name
  THEN PrepareMutableReveal(meta, commit, owner) ELSE {}

(* _prepare_dmint_v1_deploy and _v2: both protocols must be there, and the *)
(* body of a V1 token has no version, by which indexers know a V2.         *)
PrepareDmintV2Deploy(meta, owner) ==
  IF {"FT", "DMINT"} \subseteq Metas[meta].protocol
  THEN {CommitScript(meta, owner, FALSE)} ELSE {}
PrepareDmintV1Deploy(meta, owner) ==
  IF Metas[meta].version THEN {} ELSE PrepareDmintV2Deploy(meta, owner)
PrepareDmintDeploy(cmd, meta, owner) ==
  IF cmd = "dmint" THEN PrepareDmintV1Deploy(meta, owner) ELSE PrepareDmintV2Deploy(meta, owner)

(* build_reveal_outputs of either result: contract i takes the commit's    *)
(* output i as its singleton, output 0 is the token's ref.                 *)
BuildRevealOutputs(kind, commitTx, n) ==
  [i \in 1 .. n |-> Output(ContractScript(kind, <<commitTx, i + 1>>, <<commitTx, 1>>), 1)]
V1RevealOutputs(commitTx, n) == BuildRevealOutputs("dmint", commitTx, n)
V2RevealOutputs(commitTx, n) == BuildRevealOutputs("dmint-v2", commitTx, n)

(* Transaction.fee: the change output keeps what the fee leaves, and goes  *)
(* when that is not more than one photon.                                  *)
WithChange(inValue, outs, bytes, owner) ==
  LET change == inValue - bytes - Total(outs)
  IN  IF change <= 1 THEN outs ELSE outs \o <<Output(P2PKH(owner), change)>>

(* An input signed for the script its builder believes in.                 *)
Spend(o, key, lock) == [from |-> o, key |-> key, signedAs |-> lock]

-------------------------------------------------- (* reading the wallet *)

(* collect_spendable: every unspent output of a used address, tokens       *)
(* included.                                                               *)
CollectSpendable == {o \in Unspent : At(o).lock.owner \in Keys /\ At(o).lock.kind \in
                                        {"p2pkh", "nft", "ft"}}

(* find_glyphs on the transactions of the address's outputs; an output     *)
(* whose transaction could not be fetched is left out.                     *)
ScanScriptHash(key, unread) ==
  {o \in Unspent \ unread : At(o).lock.owner = key /\ At(o).lock.kind \in {"nft", "ft"}}

(* The funding coin of a mint or a deploy: the largest of all, large       *)
(* enough on its own.                                                      *)
Largest(coins) == {o \in coins : \A q \in coins : At(q).value <= At(o).value}
FundingCoin(required) == Largest({o \in CollectSpendable : At(o).value >= required})

(* _find_plain_rxd_utxo: the largest plain coin outside `exclude`.         *)
FindPlainUtxo(unread, exclude) ==
  Largest({o \in CollectSpendable \ (unread \cup exclude) :
             IsPlain(At(o).lock) /\ At(o).value >= NeededForNft})

------------------------------------------------------------- (* commits *)

IdleProc == [at |-> "idle", cmd |-> Absent, meta |-> Absent, supply |-> 0, to |-> Absent,
             fund |-> Nowhere, commit |-> 0, tx |-> Absent, result |-> Absent]

Tx(ins, outs, gly, bytes) == [ins |-> ins, outs |-> outs, gly |-> gly, bytes |-> bytes]

(* Mutation: the coin is spent under the script it really has.             *)
CommitInputAsFound(o) == Spend(o, At(o).lock.owner, At(o).lock)

(* The funding input of a commit is signed as a plain coin of its address. *)
CommitInput(o) == Spend(o, At(o).lock.owner, P2PKH(At(o).lock.owner))

CommitTx(o, lock, value, seeds) ==
  LET owner == At(o).lock.owner
      outs == <<Output(lock, value)>> \o [i \in 1 .. seeds |-> Output(P2PKH(owner), RefSeed)]
  IN  Tx(<<CommitInput(o)>>, WithChange(At(o).value, outs, CommitFee, owner), Absent, CommitFee)

Ready(x, cmd, meta, supply, to, o, tx) ==
  job' = [job EXCEPT ![x] = [IdleProc EXCEPT !.at = "commit", !.cmd = cmd, !.meta = meta,
                               !.supply = supply, !.to = to, !.fund = At(o).lock.owner,
                               !.tx = tx]]

(* What the commands refuse before they open the wallet.                   *)
MintNftCmd(meta) == MetadataOk(meta) /\ "NFT" \in Metas[meta].protocol
DeployFtCmd(meta, supply) == supply > 0 /\ MetadataOk(meta) /\ "FT" \in Metas[meta].protocol
DeployDmintCmd(meta, n) ==
  n >= 1 /\ MetadataOk(meta) /\ {"FT", "DMINT"} \subseteq Metas[meta].protocol
TransferFtCmd(amount) == amount > 0

(* _mint_nft_inner up to the first prompt.                                 *)
MintNft(x, meta) ==
  /\ job[x].at = "idle" /\ MintNftCmd(meta)
  /\ \E o \in FundingCoin(CommitValue + CommitFee + RevealFeeEstimate + Dust) :
       Ready(x, "mint", meta, 0, At(o).lock.owner, o,
             CommitTx(o, PrepareCommit(meta, At(o).lock.owner), CommitValue, 0))
  /\ UNCHANGED <<txs, confirmed>>

(* The same steps by a caller of the library, for the kinds of NFT that    *)
(* the command line does not reveal.                                       *)
MintByLibrary(x, meta) ==
  /\ job[x].at = "idle" /\ MetadataOk(meta)
  /\ \E o \in FundingCoin(CommitValue + CommitFee + RevealFeeEstimate + Dust) :
     \E cmd \in {k \in {"mutable", "wave", "container"} :
                  (CASE k = "mutable" -> "MUT" [] k = "wave" -> "WAVE" [] OTHER -> "CONTAINER")
                    \in Metas[meta].protocol} :
       Ready(x, cmd, meta, 0, At(o).lock.owner, o,
             CommitTx(o, PrepareCommit(meta, At(o).lock.owner), CommitValue, 0))
  /\ UNCHANGED <<txs, confirmed>>

(* _deploy_ft_inner: the commit also carries the supply.                   *)
DeployFt(x, meta, supply, treasury) ==
  /\ job[x].at = "idle" /\ DeployFtCmd(meta, supply)
  /\ \E o \in FundingCoin(supply + CommitValue + CommitFee + RevealFeeEstimate + Dust) :
       Ready(x, "deploy", meta, supply, treasury, o,
             CommitTx(o, PrepareCommit(meta, At(o).lock.owner), supply + CommitValue, 0))
  /\ UNCHANGED <<txs, confirmed>>

(* _deploy_dmint_inner: one more output per contract.                      *)
DmintCommitValue(n) == n + RevealFeeEstimate * n + RevealFeeEstimate
DeployDmint(x, cmd, meta, n) ==
  /\ job[x].at = "idle" /\ DeployDmintCmd(meta, n)
  /\ \E o \in FundingCoin(DmintCommitValue(n) + n * RefSeed + CommitFee + Dust) :
       \E lock \in PrepareDmintDeploy(cmd, meta, At(o).lock.owner) :
         Ready(x, cmd, meta, n, Absent, o, CommitTx(o, lock, DmintCommitValue(n), n))
  /\ UNCHANGED <<txs, confirmed>>

(* _confirm_or_abort answered no, or the process stopped at a prompt or in *)
(* the wait: nothing of it is written down.                                *)
Stop(x) == job' = [job EXCEPT ![x] = IdleProc]
Abort(x) ==
  /\ job[x].at # "idle"
  /\ Stop(x) /\ UNCHANGED <<txs, confirmed>>

(* client.broadcast: the node's verdict, and an answer that may be lost.   *)
Append1(tx) == txs' = Append(txs, tx)

BroadcastCommit(x) ==
  /\ job[x].at = "commit" /\ Len(txs) < MaxTxs
  /\ LET v == Verdict(job[x].tx) IN
     \/ /\ v = "accepted" /\ Append1(job[x].tx)
        /\ \/ job' = [job EXCEPT ![x].at = "wait", ![x].commit = Len(txs) + 1]
           \/ Stop(x)
     \/ /\ v # "accepted" /\ Stop(x) /\ UNCHANGED txs
  /\ UNCHANGED confirmed

------------------------------------------------------------- (* reveals *)

(* The reveal spends the commit, with the metadata in its input.           *)
CommitLock(x) == txs[job[x].commit].outs[1].lock
RevealOf(x, outs) ==
  LET c == <<job[x].commit, 1>>
      bytes == Metas[job[x].meta].bytes
  IN  Tx(<<Spend(c, job[x].fund, CommitLock(x))>>,
         WithChange(At(c).value, outs, bytes, job[x].fund), job[x].meta, bytes)

DmintReveal(x) ==
  LET n == job[x].supply
      c == job[x].commit
      ins == [i \in 1 .. n + 1 |->
                Spend(<<c, i>>, job[x].fund, IF i = 1 THEN CommitLock(x) ELSE P2PKH(job[x].fund))]
      bytes == Metas[job[x].meta].bytes + n
      outs == IF job[x].cmd = "dmint" THEN V1RevealOutputs(c, n) ELSE V2RevealOutputs(c, n)
  IN  {Tx(ins, WithChange(At(<<c, 1>>).value + n * RefSeed, outs, bytes, job[x].fund),
          job[x].meta, bytes)}

(* _mint_nft_inner: the token on the dust limit, the rest is change.       *)
MintReveal(x) ==
  {RevealOf(x, <<Output(s, Dust)>>)
     : s \in PrepareReveal(job[x].meta, <<job[x].commit, 1>>, job[x].fund, TRUE)}

(* _deploy_ft_inner: one photon per unit of the supply.                    *)
FtDeployReveal(x) ==
  {RevealOf(x, <<Output(s, job[x].supply)>>)
     : s \in PrepareFtDeployReveal(job[x].meta, <<job[x].commit, 1>>, job[x].to, job[x].supply)}

(* A caller of the library places the scripts it is given.                 *)
LibraryReveal(x) ==
  LET c == <<job[x].commit, 1>>
      meta == job[x].meta
  IN
  CASE job[x].cmd = "container" ->
         {RevealOf(x, <<Output(s, Dust)>>)
            : s \in PrepareContainerReveal(meta, c, job[x].fund, {})}
    [] job[x].cmd \in {"mutable", "wave"} ->
         {RevealOf(x, <<Output(s[1], Dust), Output(s[2], 1)>>)
            : s \in IF job[x].cmd = "wave" THEN PrepareWaveReveal(meta, c, job[x].fund, "n", "n")
                    ELSE PrepareMutableReveal(meta, c, job[x].fund)}

Reveals(x) ==
  CASE job[x].cmd = "mint" -> MintReveal(x)
    [] job[x].cmd = "deploy" -> FtDeployReveal(x)
    [] job[x].cmd \in {"dmint", "dmint-v2"} -> DmintReveal(x)
    [] OTHER -> LibraryReveal(x)

(* _wait_for_tx returns once the commit is confirmed; the reveal is built, *)
(* or its builder refuses.                                                 *)
WaitForTx(x) ==
  /\ job[x].at = "wait" /\ job[x].commit <= confirmed
  /\ IF Reveals(x) = {} THEN Stop(x)
     ELSE \E tx \in Reveals(x) : job' = [job EXCEPT ![x].at = "reveal", ![x].tx = tx]
  /\ UNCHANGED <<txs, confirmed>>

(* The wait runs out after half an hour, or the node cannot be reached.    *)
WaitTimeout(x) ==
  /\ job[x].at = "wait" /\ Stop(x) /\ UNCHANGED <<txs, confirmed>>

(* The last broadcast of a command, and what is left of it.                *)
Finish(x, result) ==
  job' = [job EXCEPT ![x] = [IdleProc EXCEPT !.cmd = job[x].cmd, !.supply = job[x].supply,
                               !.result = result, !.commit = Len(txs) + 1]]
BroadcastLast(x) ==
  /\ job[x].at \in {"reveal", "send"} /\ Len(txs) < MaxTxs
  /\ LET v == Verdict(job[x].tx) IN
     \/ /\ v = "accepted" /\ Append1(job[x].tx)
        /\ Stop(x) \/ Finish(x, "done")
     \/ /\ v # "accepted" /\ UNCHANGED txs /\ Finish(x, v)
  /\ UNCHANGED confirmed

(* The ref that a finished mint-nft or deploy-ft prints: output 0 of the   *)
(* reveal.                                                                 *)
PrintedRef(reveal) == <<reveal, 1>>

----------------------------------------------------------- (* transfers *)

(* FtUtxoSet.select: the largest first, coins of one value in the order    *)
(* they are listed, until they reach the amount; none when all do not.     *)
Before(a, b) ==
  \/ At(a).value > At(b).value
  \/ At(a).value = At(b).value /\ a # b /\ (a[1] < b[1] \/ (a[1] = b[1] /\ a[2] < b[2]))
Held(coins) == Total([k \in DOMAIN coins |-> At(coins[k])])
Select(from, amount) ==
  {coins \in UNION {[1 .. n -> from] : n \in 1 .. Cardinality(from)} :
     /\ \A j, k \in DOMAIN coins : j < k => Before(coins[j], coins[k])
     /\ \A k \in DOMAIN coins : \A o \in from \ Range(coins) : Before(coins[k], o)
     /\ Held(coins) >= amount /\ Held(Front(coins)) < amount}

(* FtUtxoSet.build_transfer_tx: the change output, if units are left over, *)
(* gets the dust limit, the transfer output the rest of the photons.       *)
BuildTransferTx(coins, ref, amount, to) ==
  LET owner == At(coins[1]).lock.owner
      left == Held(coins) - amount
      change == IF left > 0 THEN <<Output(FtScript(owner, ref), Dust)>> ELSE <<>>
      value == Held(coins) - TransferFee - Total(change)
      ins == [k \in DOMAIN coins |-> Spend(coins[k], owner, At(coins[k]).lock)]
  IN  IF value < Dust THEN {}
      ELSE {Tx(ins, <<Output(FtScript(to, ref), value)>> \o change, Absent, TransferFee)}

(* Mutation: any token of the wallet is taken for one of this ref.         *)
FtInputsAnyRef(ref, unread) == {o \in CollectSpendable \ unread : IsFtScript(At(o).lock)}

(* The wallet's coins of this ref whose transaction could be read.         *)
FtInputs(ref, unread) ==
  {o \in CollectSpendable \ unread : IsFtScript(At(o).lock) /\ ExtractRef(At(o).lock) = ref}

Send(x, cmd, amount, to, tx) ==
  job' = [job EXCEPT ![x] = [IdleProc EXCEPT !.at = "send", !.cmd = cmd, !.supply = amount,
                               !.to = to, !.tx = tx]]

(* _transfer_ft_inner: something of this ref is found at an address, the   *)
(* selected coins are of one address, and the transfer can be built.       *)
TransferFt(x, ref, amount, to) ==
  /\ job[x].at = "idle" /\ TransferFtCmd(amount)
  /\ \E unread \in SUBSET CollectSpendable :
     \E coins \in Select(FtInputs(ref, unread), amount) :
       /\ \E key \in Keys : ScanScriptHash(key, unread) \cap FtInputs(ref, unread) # {}
       /\ \A k \in DOMAIN coins : At(coins[k]).lock.owner = At(coins[1]).lock.owner
       /\ \E tx \in BuildTransferTx(coins, ref, amount, to) : Send(x, "ft", amount, to, tx)
  /\ UNCHANGED <<txs, confirmed>>

NftInputs(ref, unread) ==
  {o \in CollectSpendable \ unread : IsNftScript(At(o).lock) /\ ExtractRef(At(o).lock) = ref}

(* _transfer_nft_inner: the token keeps its value, a plain coin pays.      *)
TransferNft(x, ref, to) ==
  /\ job[x].at = "idle"
  /\ \E unread \in SUBSET CollectSpendable : \E o \in NftInputs(ref, unread) :
       \E f \in FindPlainUtxo(unread, {o}) :
         LET payer == At(f).lock.owner
             outs == <<Output(NftScript(to, ref), At(o).value)>>
         IN  Send(x, "nft", 1, to,
                  Tx(<<Spend(o, At(o).lock.owner, At(o).lock), Spend(f, payer, P2PKH(payer))>>,
                     WithChange(At(o).value + At(f).value, outs, TransferFee, payer), Absent,
                     TransferFee))
  /\ UNCHANGED <<txs, confirmed>>

(* GlyphBuilder.build_nft_transfer_tx: the fee comes out of the token's    *)
(* own value.                                                              *)
BuildNftTransferTx(x, ref, to) ==
  /\ job[x].at = "idle"
  /\ \E o \in NftInputs(ref, {}) :
       /\ At(o).value - TransferFee >= Dust
       /\ Send(x, "nft", 1, to, Tx(<<Spend(o, At(o).lock.owner, At(o).lock)>>,
                <<Output(NftScript(to, ref), At(o).value - TransferFee)>>, Absent, TransferFee))
  /\ UNCHANGED <<txs, confirmed>>

Confirm ==
  /\ confirmed < Len(txs) /\ confirmed' = Len(txs)
  /\ UNCHANGED <<txs, job>>

-------------------------------------------------------- (* specification *)

Refs == {e[1] : e \in UNION {At(o).lock.refs : o \in Outpoints}}

TokensInit ==
  /\ txs = <<Tx(<<>>, Genesis, Absent, 0)>>
  /\ confirmed = 1
  /\ job = [x \in Procs |-> IdleProc]

Command(x) ==
  \/ \E meta \in DOMAIN Metas :
       \/ MintNft(x, meta) \/ MintByLibrary(x, meta)
       \/ \E cmd \in {"dmint", "dmint-v2"}, n \in Contracts : DeployDmint(x, cmd, meta, n)
       \/ \E supply \in Supplies, t \in Treasuries : DeployFt(x, meta, supply, t)
  \/ \E ref \in Refs : \E to \in Recipients :
       \/ TransferNft(x, ref, to) \/ BuildNftTransferTx(x, ref, to)
       \/ \E amount \in Amounts : TransferFt(x, ref, amount, to)

TokensNext ==
  \/ Confirm
  \/ \E x \in Procs : \/ Command(x) \/ Abort(x) \/ BroadcastCommit(x) \/ WaitForTx(x)
                      \/ WaitTimeout(x) \/ BroadcastLast(x)
TokensSpec == TokensInit /\ [][TokensNext]_tokensVars

------------------------------------------------------------ (* properties *)

(* An NFT that was revealed never disappears: whatever the wallet's        *)
(* processes do at the same time, funding a mint with their largest coin   *)
(* included, one unspent output carries it (cli/glyph_cmds.py:233-271,     *)
(* 833-859).                                                               *)
NftsSurvive ==
  \A o \in Outpoints : IsNftScript(At(o).lock) =>
    \E q \in Unspent : <<ExtractRef(At(o).lock), "single">> \in At(q).lock.refs

(* The commit, broadcast and confirmed before its reveal exists, asks for  *)
(* exactly the reveal that mint-nft, deploy-ft or deploy-dmint then        *)
(* builds, and a transfer signs what it spends: the node refuses none of   *)
(* them for its rules.                                                     *)
LastStepsKeepTheRules ==
  \A x \in Procs : job[x].cmd \notin {"mutable", "wave"} =>
    job[x].result # "rule"

(* glyph/ft.py:178-180: "A transfer output locked to `new_owner_pkh` is    *)
(* created for `amount` token units", where one photon is one unit         *)
(* (cli/glyph_cmds.py:711).                                                *)
RecipientGetsAmount ==
  \A x \in Procs : job[x].cmd = "ft" /\ job[x].result = "done" =>
    txs[job[x].commit].outs[1].value = job[x].supply

(* cli/glyph_cmds.py:228: the commit's value "covers reveal-time outputs + *)
(* headroom": a reveal is never too poor to be relayed.                    *)
CommitCoversReveal ==
  \A x \in Procs : job[x].cmd \in {"mint", "deploy"} => job[x].result # "fee"

(* glyph/builder.py:558-561: a mutable NFT's reveal places the token and   *)
(* its contract in two outputs, and the node takes it.                     *)
MutableRevealIsAccepted == \A x \in Procs : job[x].cmd = "mutable" => job[x].result # "rule"

(* The ref that a finished mint prints is the ref of a token               *)
(* (gravity/ref_authenticity.py:186: "REF is the genesis outpoint, NOT the *)
(* reveal txid").                                                          *)
PrintedRefIsTheToken ==
  \A x \in Procs : job[x].cmd = "mint" /\ job[x].result = "done" =>
    PrintedRef(job[x].commit) \in Refs
=============================================================================
