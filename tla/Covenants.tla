------------------------------ MODULE Covenants ------------------------------
(***************************************************************************)
(* The output scripts a Radiant swap rests on: gravity/htlc_covenant.py    *)
(* with its three templates, the spends of gravity/htlc_spend.py,          *)
(* glyph/soulbound_covenant.py, glyph/soulbound_detect.py and              *)
(* glyph/credential_binding.py.  A script is a sequence of tokens, one per *)
(* opcode with its operand; a hash is the tagged tuple of what it hashes.  *)
(* The interpreter at the end runs the templates themselves.               *)
(***************************************************************************)
EXTENDS Integers, Sequences, FiniteSets, FiniteSetsExt, TLC

CONSTANTS MaxCsv,     \* the largest BIP68 block count (0xFFFF)
          DustFloor   \* the smallest fee coin (546)

Variants == {"rxd", "ft", "nft"}
Preimage == 7
Sha256(p) == <<"sha256", p>>
Hash256(script) == <<"hash256", script>>
Pkh(k) == <<"pkh", k>>
Num(n) == <<"num", n>>

Op(name) == <<"op", name>>
PushRef(op, r) == <<"ref", op, r>>
Push(v) == <<"push", v>>
Tokens(s) == {s[i] : i \in DOMAIN s}

(* _minimal_num_push: OP_0 .. OP_16, then a data push.                     *)
MinimalNumPush(n) == IF n \in 0..16 THEN <<"small", Num(n)>> ELSE Push(Num(n))
Small(n) == <<"small", Num(n)>>

------------------------------------------------------ (* holder scripts *)

P2pkh(k) == <<Op("DUP"), Op("HASH160"), Push(Pkh(k)), Op("EQUALVERIFY"), Op("CHECKSIG")>>

(* FT_EPILOGUE after the state separator, one token for its twelve bytes.  *)
FtTail(r) == <<Op("BD"), PushRef("D0", r), Op("FT_EPILOGUE")>>
FtHolderScript(k, r) == P2pkh(k) \o FtTail(r)
NftHolderScript(k, r) == <<PushRef("D8", r), Op("DROP")>> \o P2pkh(k)
HolderScript(variant, k, r) ==
  CASE variant = "rxd" -> P2pkh(k)
    [] variant = "ft" -> FtHolderScript(k, r)
    [] OTHER -> NftHolderScript(k, r)
HolderHash(variant, k, r) == Hash256(HolderScript(variant, k, r))

---------------------------------------------------------- (* templates *)

(* The tail both branches share: the output must be the expected holder.   *)
PaysHash(h) == <<Small(0), Op("OUTPUTBYTECODE"), Op("HASH256"), Push(h), Op("EQUAL")>>
OneOutput == <<Op("TXOUTPUTCOUNT"), Small(1), Op("NUMEQUALVERIFY")>>
Selects == <<Op("DUP"), Small(0), Op("NUMEQUAL"), Op("IF")>>
Reveals(h) ==
  <<Op("SWAP"), Op("SIZE"), Push(Num(32)), Op("EQUALVERIFY"), Op("SHA256"), Push(h), Op("EQUALVERIFY")>>
Waits(csv) ==
  <<Op("ELSE"), Small(1), Op("NUMEQUALVERIFY"), MinimalNumPush(csv), Op("CSV"), Op("DROP")>>
AtLeast(amount) ==
  <<Small(0), Op("OUTPUTVALUE"), MinimalNumPush(amount), Op("GREATERTHANOREQUAL"), Op("VERIFY")>>

TemplateRxd(c) ==
  OneOutput \o Selects \o Reveals(c.hashlock) \o AtLeast(c.amount) \o PaysHash(c.taker)
    \o <<Op("NIP")>> \o Waits(c.csv) \o AtLeast(c.amount) \o PaysHash(c.maker) \o <<Op("ENDIF")>>

TemplateNft(c) ==
  <<PushRef("D8", c.ref)>> \o OneOutput
    \o <<Op("REFOUTPUTCOUNT_OUTPUTS"), Small(1), Op("NUMEQUALVERIFY"),
         Small(0), Op("OUTPUTVALUE"), MinimalNumPush(c.amount), Op("NUMEQUALVERIFY")>>
    \o Selects \o Reveals(c.hashlock) \o PaysHash(c.taker) \o <<Op("NIP")>>
    \o Waits(c.csv) \o PaysHash(c.maker) \o <<Op("ENDIF")>>

TemplateFt(c) ==
  <<PushRef("D0", c.ref)>> \o OneOutput
    \o <<Op("DUP"), Op("REFOUTPUTCOUNT_OUTPUTS"), Small(1), Op("NUMEQUALVERIFY"),
         Op("REFVALUESUM_OUTPUTS"), MinimalNumPush(c.amount), Op("NUMEQUALVERIFY")>>
    \o Selects \o Reveals(c.hashlock) \o PaysHash(c.taker) \o <<Op("NIP")>>
    \o Waits(c.csv) \o PaysHash(c.maker) \o <<Op("ENDIF")>>

------------------------------------------------------------- (* guards *)

(* _opcode_bd_positions and _guard_bd.                                     *)
OpcodeBdPositions(s) == {i \in DOMAIN s : s[i] = Op("BD")}
GuardBd(s, expected) == OpcodeBdPositions(s) = expected

(* count_input_refs and _guard_refs: exactly the expected refs.            *)
InputRefs(s) == {t[3] : t \in {u \in Tokens(s) : u[1] = "ref"}}
GuardRefs(s, expected) == InputRefs(s) = expected

(* _assert_minimal_pushes: no number the small opcodes can push.           *)
IsMinimal(t) == ~(t[1] = "push" /\ t[2] \in {Num(n) : n \in 0..16})
AssertMinimalPushes(s) == \A t \in Tokens(s) : IsMinimal(t)

(* _validate_common and each builder's own checks.                         *)
ValidateCommon(amount, csv) == amount > 0 /\ csv \in 1..MaxCsv

BuildHtlcCovenantFt(ref, amount, taker, maker, csv) ==
  LET th == FtHolderScript(taker, ref)
      mh == FtHolderScript(maker, ref)
      prologue == TemplateFt([ref |-> ref, hashlock |-> Sha256(Preimage), csv |-> csv,
                              amount |-> amount, taker |-> Hash256(th), maker |-> Hash256(mh)])
      spk == prologue \o FtTail(ref)
  IN [builds |-> /\ ValidateCommon(amount, csv)
                 /\ GuardBd(spk, {Len(prologue) + 1}) /\ GuardRefs(spk, {ref})
                 /\ AssertMinimalPushes(spk),
      spk |-> spk, csv |-> csv, takerHolder |-> th, makerHolder |-> mh]

BuildHtlcCovenantNft(ref, amount, taker, maker, csv) ==
  LET th == NftHolderScript(taker, ref)
      mh == NftHolderScript(maker, ref)
      spk == TemplateNft([ref |-> ref, hashlock |-> Sha256(Preimage), csv |-> csv,
                          amount |-> amount, taker |-> Hash256(th), maker |-> Hash256(mh)])
  IN [builds |-> /\ ValidateCommon(amount, csv) /\ GuardBd(spk, {}) /\ GuardRefs(spk, {ref})
                 /\ AssertMinimalPushes(spk),
      spk |-> spk, csv |-> csv, takerHolder |-> th, makerHolder |-> mh]

BuildHtlcCovenantRxd(amount, taker, maker, csv) ==
  LET th == P2pkh(taker)
      mh == P2pkh(maker)
      spk == TemplateRxd([hashlock |-> Sha256(Preimage), csv |-> csv, amount |-> amount,
                          taker |-> Hash256(th), maker |-> Hash256(mh)])
  IN [builds |-> /\ ValidateCommon(amount, csv) /\ GuardBd(spk, {}) /\ GuardRefs(spk, {})
                 /\ AssertMinimalPushes(spk),
      spk |-> spk, csv |-> csv, takerHolder |-> th, makerHolder |-> mh]

----------------------------------------------------- (* the spends *)

NoDelay == 1000    \* sequence 0xFFFFFFFF: BIP68 does not apply

Spend(kind, unlock, seq, version, outs) ==
  [kind |-> kind, unlock |-> unlock, seq |-> seq, version |-> version, outs |-> outs]

(* _check_carrier.                                                         *)
CheckCarrier(carrier, feeValue) == carrier > 0 /\ feeValue >= DustFloor

(* build_htlc_claim_tx: it refuses a preimage of another hash lock.        *)
ClaimBuilds(p, carrier, feeValue) ==
  p[3] = 32 /\ Sha256(p[2]) = Sha256(Preimage) /\ CheckCarrier(carrier, feeValue)
BuildHtlcClaimTx(cov, carrier, p) ==
  Spend("claim", <<p, Num(0)>>, NoDelay, 1, <<[script |-> cov.takerHolder, value |-> carrier]>>)

(* Mutation: the refund keeps the default version, for which BIP68 is off. *)
RefundWithoutVersion(cov, carrier) ==
  Spend("refund", <<Num(1)>>, cov.csv, 1, <<[script |-> cov.makerHolder, value |-> carrier]>>)

(* build_htlc_refund_tx: the covenant's sequence is its csv; version 2.    *)
BuildHtlcRefundTx(cov, carrier) ==
  Spend("refund", <<Num(1)>>, cov.csv, 2, <<[script |-> cov.makerHolder, value |-> carrier]>>)

------------------------------------------------- (* soulbound covenants *)

(* build_soulbound_nft_covenant: burn the ref, or repeat the script in     *)
(* output 0; and the owner's signature.                                    *)
SoulboundScript(r, k) ==
  <<PushRef("D8", r), Op("REFOUTPUTCOUNT_OUTPUTS"), Small(0), Op("NUMEQUAL"), Op("IF"), Op("ELSE"),
    Small(0), Op("OUTPUTBYTECODE"), Op("INPUTINDEX"), Op("UTXOBYTECODE"), Op("EQUALVERIFY"),
    Op("ENDIF")>> \o P2pkh(k)

(* build_composable_soulbound_nft_covenant: the copy may be any output.    *)
ComposableScript(r, k) ==
  <<PushRef("D8", r), Op("REFOUTPUTCOUNT_OUTPUTS"), Op("DUP"), Small(0), Op("NUMEQUAL"), Op("IF"),
    Op("DROP"), Op("ELSE"), Small(1), Op("NUMEQUALVERIFY"), Op("INPUTINDEX"),
    Op("CODESCRIPTBYTECODE_UTXO"), Op("HASH256"), Op("CODESCRIPTHASHOUTPUTCOUNT_OUTPUTS"),
    Small(1), Op("NUMEQUALVERIFY"), Op("ENDIF")>> \o P2pkh(k)

(* _assert_no_nonminimal_push and the ref guard of both builders.          *)
SoulboundBuilds(s, r) == GuardRefs(s, {r}) /\ AssertMinimalPushes(s)

(* soulbound_detect._opcodes, as a set: an operand is no opcode.           *)
OpSet(s) ==
  {t[2] : t \in {u \in Tokens(s) : u[1] = "op"}} \cup {t[2] : t \in {u \in Tokens(s) : u[1] = "ref"}}
OutputBytecodeOps == {"OUTPUTBYTECODE", "CODESCRIPTBYTECODE_OUTPUT"}
SelfBytecodeOps == {"UTXOBYTECODE", "CODESCRIPTBYTECODE_UTXO", "ACTIVEBYTECODE"}
CodeScriptHashCountOps == {"CODESCRIPTHASHOUTPUTCOUNT_UTXOS", "CODESCRIPTHASHOUTPUTCOUNT_OUTPUTS"}

(* Mutation: a script that looks at its own code counts as soulbound.      *)
SelfReadingIsSoulbound(s) == "D8" \in OpSet(s) /\ OpSet(s) \cap SelfBytecodeOps # {}

(* classify_soulbound: SOULBOUND_COVENANT needs form (a) or form (b).      *)
IsSoulbound(s) ==
  /\ "D8" \in OpSet(s)
  /\ OpSet(s) \cap SelfBytecodeOps # {}
  /\ \/ OpSet(s) \cap OutputBytecodeOps # {} /\ OpSet(s) \cap {"EQUAL", "EQUALVERIFY"} # {}
     \/ OpSet(s) \cap CodeScriptHashCountOps # {}

(* extract_owner_pkh: the one P2PKH run of the script.                     *)
OwnerPkhs(s) ==
  {s[i + 2][2] : i \in {j \in DOMAIN s :
      /\ j + 4 <= Len(s) /\ s[j] = Op("DUP") /\ s[j + 1] = Op("HASH160") /\ s[j + 2][1] = "push"
      /\ s[j + 3] = Op("EQUALVERIFY") /\ s[j + 4] \in {Op("CHECKSIG"), Op("CHECKSIGVERIFY")}}}

(* assert_soulbound_credential: the owner, or refused.                     *)
SoulboundCredential(cred, minConfs, ref) ==
  /\ IsSoulbound(cred.spk)
  /\ InputRefs(cred.spk) = {ref}
  /\ cred.confs >= minConfs
  /\ Cardinality(OwnerPkhs(cred.spk)) = 1

--------------------------------------------------- (* the interpreter *)

(* What follows the state separator, or the whole script.                  *)
CodeScript(s) ==
  LET at == OpcodeBdPositions(s)
  IN IF at = {} THEN s ELSE SubSeq(s, (CHOOSE i \in at : \A j \in at : i <= j) + 1, Len(s))

RefOutputs(tx, r) == {i \in DOMAIN tx.outs : r \in InputRefs(tx.outs[i].script)}
CodeOutputs(tx, h) == {i \in DOMAIN tx.outs : Hash256(CodeScript(tx.outs[i].script)) = h}
OutputSum(tx, I) == MapThenSumSet(LAMBDA i : tx.outs[i].value, I)

Top(st) == st.stack[Len(st.stack)]
Below(st) == st.stack[Len(st.stack) - 1]
Less(st, n) == SubSeq(st.stack, 1, Len(st.stack) - n)
Bool(b) == Num(IF b THEN 1 ELSE 0)
Puts(st, n, v) == [st EXCEPT !.stack = Append(Less(st, n), v)]
Checks(st, n, b) == [st EXCEPT !.stack = Less(st, n), !.ok = b]

(* How many stack items an opcode needs.                                   *)
Needs(name) ==
  CASE name \in {"NUMEQUALVERIFY", "NUMEQUAL", "EQUAL", "EQUALVERIFY", "GREATERTHANOREQUAL",
                 "SWAP", "NIP", "CHECKSIG"} -> 2
    [] name \in {"TXOUTPUTCOUNT", "INPUTINDEX", "BD"} -> 0
    [] OTHER -> 1

(* An opcode of a script spk, run on the coin's spend tx.                  *)
Execute(st, name, spk, depth, tx) ==
  CASE name = "TXOUTPUTCOUNT" -> Puts(st, 0, Num(Len(tx.outs)))
    [] name = "INPUTINDEX" -> Puts(st, 0, Num(0))
    [] name = "BD" -> st
    [] name = "DUP" -> Puts(st, 0, Top(st))
    [] name = "DROP" -> Checks(st, 1, TRUE)
    [] name = "NIP" -> Puts(st, 2, Top(st))
    [] name = "SWAP" -> [st EXCEPT !.stack = Less(st, 2) \o <<Top(st), Below(st)>>]
    [] name \in {"NUMEQUAL", "EQUAL"} -> Puts(st, 2, Bool(Top(st) = Below(st)))
    [] name \in {"NUMEQUALVERIFY", "EQUALVERIFY"} -> Checks(st, 2, Top(st) = Below(st))
    [] name = "GREATERTHANOREQUAL" -> Puts(st, 2, Bool(Below(st)[2] >= Top(st)[2]))
    [] name = "VERIFY" -> Checks(st, 1, Top(st) = Num(1))
    [] name = "SIZE" -> Puts(st, 0, Num(IF Top(st)[1] = "pre" THEN Top(st)[3] ELSE 1))
    [] name = "SHA256" -> Puts(st, 1, Sha256(Top(st)[2]))
    [] name = "HASH256" -> Puts(st, 1, Hash256(Top(st)[2]))
    [] name = "HASH160" -> Puts(st, 1, Pkh(Top(st)[2]))
    [] name = "OUTPUTVALUE" -> Puts(st, 1, Num(tx.outs[Top(st)[2] + 1].value))
    [] name = "OUTPUTBYTECODE" -> Puts(st, 1, <<"code", tx.outs[Top(st)[2] + 1].script>>)
    [] name = "UTXOBYTECODE" -> Puts(st, 1, <<"code", spk>>)
    [] name = "CODESCRIPTBYTECODE_UTXO" -> Puts(st, 1, <<"code", CodeScript(spk)>>)
    [] name = "CODESCRIPTHASHOUTPUTCOUNT_OUTPUTS" ->
         Puts(st, 1, Num(Cardinality(CodeOutputs(tx, Top(st)))))
    [] name = "REFOUTPUTCOUNT_OUTPUTS" -> Puts(st, 1, Num(Cardinality(RefOutputs(tx, Top(st)[2]))))
    [] name = "REFVALUESUM_OUTPUTS" -> Puts(st, 1, Num(OutputSum(tx, RefOutputs(tx, Top(st)[2]))))
    [] name = "FT_EPILOGUE" ->
         LET mine == CodeOutputs(tx, Hash256(CodeScript(spk)))
         IN Checks(st, 1, OutputSum(tx, mine) <= tx.carrier /\ mine = RefOutputs(tx, Top(st)[2]))
    [] name = "CSV" -> [st EXCEPT !.ok = /\ tx.version >= 2 /\ tx.seq # NoDelay
                                         /\ tx.seq >= Top(st)[2] /\ depth >= tx.seq]
    [] name = "CHECKSIG" -> Puts(st, 2, Bool(Below(st) = <<"sig", Top(st)[2]>>))
    [] OTHER -> [st EXCEPT !.ok = FALSE]

(* IF, ELSE and ENDIF switch execution on and off; pushes must be minimal. *)
StepToken(st, t, spk, depth, tx) ==
  IF ~st.ok THEN st
  ELSE CASE t = Op("ELSE") -> [st EXCEPT !.run = ~@]
         [] t = Op("ENDIF") -> [st EXCEPT !.run = TRUE]
         [] ~st.run -> st
         [] t = Op("IF") ->
              IF st.stack = <<>> THEN [st EXCEPT !.ok = FALSE]
              ELSE [st EXCEPT !.run = Top(st) = Num(1), !.stack = Less(st, 1)]
         [] t[1] = "op" ->
              IF Len(st.stack) < Needs(t[2]) THEN [st EXCEPT !.ok = FALSE]
              ELSE Execute(st, t[2], spk, depth, tx)
         [] t[1] = "ref" -> Puts(st, 0, <<"ref", t[3]>>)
         [] OTHER -> IF IsMinimal(t) THEN Puts(st, 0, t[2]) ELSE [st EXCEPT !.ok = FALSE]

Run(spk, depth, tx) ==
  LET after[i \in 0..Len(spk)] ==
        IF i = 0 THEN [stack |-> tx.unlock, run |-> TRUE, ok |-> TRUE]
        ELSE StepToken(after[i - 1], spk[i], spk, depth, tx)
  IN after[Len(spk)]

(* Consensus: the script leaves TRUE, a singleton goes to one output only, *)
(* a plain ref output exists only because an input carries the ref, and    *)
(* the outputs are paid for.                                               *)
Accepts(spk, value, feeValue, depth, tx) ==
  /\ \A i, j \in DOMAIN tx.outs :
       i # j => \A t \in Tokens(tx.outs[i].script) : t[1] = "ref" /\ t[2] = "D8"
                  => t \notin Tokens(tx.outs[j].script)
  /\ \A i \in DOMAIN tx.outs : InputRefs(tx.outs[i].script) \subseteq InputRefs(spk)
  /\ OutputSum(tx, DOMAIN tx.outs) <= value + feeValue
  /\ LET end == Run(spk, depth, [carrier |-> value] @@ tx)
     IN end.ok /\ end.stack = <<Num(1)>>
=============================================================================
