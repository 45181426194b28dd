------------------------------- MODULE Signing -------------------------------
(***************************************************************************)
(* transaction/transaction.py, transaction_preimage.py, script/type.py and *)
(* fee_models: a transaction is put together by calls in any order --      *)
(* add_input, add_output, fee, sign, a changed sequence number -- and is   *)
(* signed input by input under the flags of SIGHASH.  Hashes are           *)
(* injective, so a preimage is the record of what it hashes.  Lengths are  *)
(* scaled down, and the counts stay where a varint has one byte.           *)
(***************************************************************************)
EXTENDS Integers, Sequences, FiniteSetsExt

CONSTANTS CoinValues,   \* values of the coins there are to spend
          Kinds,        \* script templates: "p2pkh", "p2pk", "multisig", "rpuzzle"
          Flags,        \* pairs: "all", "none" or "single", and ANYONECANPAY
          Payments,     \* amounts of the outputs that are no change
          Rate,         \* photons per byte
          MaxIns, MaxOuts

VARIABLES ins, outs,
          priced        \* fee() found enough value, and nothing but unsigned inputs
                        \* have been signed since

(* SIGHASH: a base and ANYONECANPAY (FORKID is always set).                *)
Sighashes == [base : {"all", "none", "single"}, acp : BOOLEAN]
ASSUME SigningAssumption == Flags \subseteq Sighashes

signingVars == <<ins, outs, priced>>

Tx == [ins |-> ins, outs |-> outs]
Zero == <<"zero">>

------------------------------------------------- (* transaction_preimage *)

HashPrevouts(t) == <<"prevouts", [j \in DOMAIN t.ins |-> t.ins[j].coin]>>
HashSequence(t) == <<"sequence", [j \in DOMAIN t.ins |-> t.ins[j].seq]>>
HashOutputs(os) == <<"outputs", os>>

(* _preimage, of the parts computed for input i.                           *)
InputPreimage(t, i, prevouts, sequence, outputs) ==
  [prevouts |-> prevouts, coin |-> t.ins[i].coin, seq |-> t.ins[i].seq,
   sequence |-> sequence, outputs |-> outputs, flag |-> t.ins[i].flag]

(* tx_preimage: one input.                                                 *)
TxPreimage(t, i) ==
  LET flag == t.ins[i].flag
  IN InputPreimage(t, i,
       IF flag.acp THEN Zero ELSE HashPrevouts(t),
       IF flag.acp \/ flag.base # "all" THEN Zero ELSE HashSequence(t),
       CASE flag.base = "all" -> HashOutputs(t.outs)
         [] flag.base = "single" /\ i <= Len(t.outs) -> HashOutputs(<<t.outs[i]>>)
         [] OTHER -> Zero)

(* Mutation: SINGLE takes the first output whatever the input.             *)
PreimagesOfFirstOutput(t) ==
  [i \in DOMAIN t.ins |->
     LET flag == t.ins[i].flag
     IN InputPreimage(t, i,
          IF flag.acp THEN Zero ELSE HashPrevouts(t),
          IF flag.acp \/ flag.base # "all" THEN Zero ELSE HashSequence(t),
          CASE flag.base = "all" -> HashOutputs(t.outs)
            [] flag.base = "single" /\ t.outs # <<>> -> HashOutputs(<<t.outs[1]>>)
            [] OTHER -> Zero)]

(* tx_preimages: all inputs, the hashes over the whole transaction taken   *)
(* once.                                                                   *)
TxPreimages(t) ==
  LET prevouts == HashPrevouts(t)
      sequence == HashSequence(t)
      all == HashOutputs(t.outs)
  IN [i \in DOMAIN t.ins |->
        LET flag == t.ins[i].flag
        IN InputPreimage(t, i,
             IF ~flag.acp THEN prevouts ELSE Zero,
             IF ~flag.acp /\ flag.base \notin {"single", "none"} THEN sequence ELSE Zero,
             IF flag.base \notin {"single", "none"} THEN all
             ELSE IF flag.base = "single" /\ i <= Len(t.outs) THEN HashOutputs(<<t.outs[i]>>)
             ELSE Zero)]

------------------------------------------------------- (* sizes and fee *)

ScriptBytes == 2

(* estimated_unlocking_byte_length of the templates; a signature is that   *)
(* long or a byte shorter.                                                 *)
EstimatedUnlocking(kind) ==
  CASE kind = "p2pkh" -> 5 [] kind = "p2pk" -> 3 [] kind = "multisig" -> 7 [] OTHER -> 6
UnlockingLength(in) == IF in.sig # <<>> THEN in.sig[1].len ELSE EstimatedUnlocking(in.kind)

(* byte_length of a transaction, and the size SatoshisPerKilobyte takes.   *)
InputsLength(t) == MapThenSumSet(LAMBDA j : 4 + UnlockingLength(t.ins[j]), DOMAIN t.ins)
ByteLength(t) == 2 + InputsLength(t) + (1 + ScriptBytes) * Len(t.outs)

(* Mutation: change outputs are left out, as if they were already dropped. *)
FeeWithoutChange(t) ==
  Rate * (2 + InputsLength(t) + (1 + ScriptBytes) * Len(SelectSeq(t.outs, LAMBDA o : ~o.change)))

ComputeFee(t) == Rate * ByteLength(t)

TotalIn(t) == MapThenSumSet(LAMBDA j : t.ins[j].value, DOMAIN t.ins)
TotalOut(os) == MapThenSumSet(LAMBDA k : os[k].sats, DOMAIN os)
GetFee(t) == TotalIn(t) - TotalOut(t.outs)

(* The outputs without the change, in their order.                         *)
Kept(os) ==
  LET kept == {k \in DOMAIN os : ~os[k].change}
  IN [n \in 1 .. Cardinality(kept) |->
        os[CHOOSE k \in kept : Cardinality({j \in kept : j <= k}) = n]]
ChangeOutputs(os) == {k \in DOMAIN os : os[k].change}

(* The change, evenly, the remainder to the first.                         *)
Distribute(os, change) ==
  LET n == Cardinality(ChangeOutputs(os))
  IN [k \in DOMAIN os |->
        IF ~os[k].change THEN os[k]
        ELSE [os[k] EXCEPT !.sats = change \div n +
                (IF k = Min(ChangeOutputs(os)) THEN change - (change \div n) * n ELSE 0)]]

-------------------------------------------------------------- (* actions *)

SigningInit == ins = <<>> /\ outs = <<>> /\ priced = FALSE

(* A coin is named by its place among those added: two inputs never spend  *)
(* the same.                                                               *)
AddInput ==
  /\ Len(ins) < MaxIns
  /\ \E v \in CoinValues, kind \in Kinds, f \in Flags :
       ins' = Append(ins, [coin |-> Len(ins) + 1, value |-> v, kind |-> kind, seq |-> 1,
                           flag |-> IF kind = "rpuzzle" THEN [base |-> "all", acp |-> FALSE]
                                    ELSE f,
                           wants |-> f, sig |-> <<>>])
  /\ priced' = FALSE /\ UNCHANGED outs

(* Change goes to an address of its own.  Its amount, None until fee()     *)
(* computes it, is -1.                                                     *)
AddOutput ==
  /\ Len(outs) < MaxOuts
  /\ \/ \E a \in Payments : outs' = Append(outs, [sats |-> a, change |-> FALSE])
     \/ outs' = Append(outs, [sats |-> -1, change |-> TRUE])
  /\ priced' = FALSE /\ UNCHANGED ins

(* The caller lowers an input's sequence number, for a timelock.           *)
SetSequence ==
  /\ \E i \in DOMAIN ins : ins[i].seq = 1 /\ ins' = [ins EXCEPT ![i].seq = 0]
  /\ UNCHANGED <<outs, priced>>

(* fee(): change too small for its outputs goes to the miners.  Without a  *)
(* change output and with value left over it divides by zero and raises.   *)
Fee ==
  LET change == TotalIn(Tx) - ComputeFee(Tx) - TotalOut(Kept(outs))
      n == Cardinality(ChangeOutputs(outs))
  IN /\ ins # <<>>
     /\ IF change <= n THEN outs' = Kept(outs)
        ELSE n > 0 /\ outs' = Distribute(outs, change)
     /\ priced' = (change >= 0) /\ UNCHANGED ins

(* sign(): the inputs without a script, or all of them.                    *)
Signs(bypass, i) == ins[i].sig = <<>> \/ ~bypass

(* The templates sign the preimage; RPuzzle sets the input's flag first.   *)
SignInput(i, len) ==
  LET in == IF ins[i].kind = "rpuzzle" THEN [ins[i] EXCEPT !.flag = ins[i].wants] ELSE ins[i]
      t == [Tx EXCEPT !.ins[i] = in]
      bare == [ins |-> [j \in DOMAIN ins |-> [coin |-> ins[j].coin, seq |-> ins[j].seq]],
               outs |-> outs]
  IN [in EXCEPT !.sig = <<[pre |-> TxPreimage(t, i), of |-> bare, len |-> len]>>]

Sign ==
  /\ ins # <<>> /\ \A k \in DOMAIN outs : outs[k].sats # -1
  /\ \E bypass \in BOOLEAN, short \in {0, 1} :
       LET len(i) == EstimatedUnlocking(ins[i].kind) - short
       IN /\ ins' = [i \in DOMAIN ins |->
                       IF Signs(bypass, i) THEN SignInput(i, len(i)) ELSE ins[i]]
          /\ priced' = (priced /\ \A i \in DOMAIN ins : Signs(bypass, i) => ins[i].sig = <<>>)
  /\ UNCHANGED outs

SigningNext == AddInput \/ AddOutput \/ SetSequence \/ Fee \/ Sign

SigningSpec == SigningInit /\ [][SigningNext]_signingVars

----------------------------------------------------------- (* properties *)

(* What a signature under a flag is for, of a transaction: its own input;  *)
(* the others' coins unless anyone may pay, and with ALL their sequences;  *)
(* with ALL every output, with SINGLE the one beside the input.            *)
Covered(t, i, flag) ==
  {<<"own", t.ins[i].coin, t.ins[i].seq>>}
    \cup (IF flag.acp THEN {} ELSE {<<"coin", j, t.ins[j].coin>> : j \in DOMAIN t.ins})
    \cup (IF flag.acp \/ flag.base # "all" THEN {}
          ELSE {<<"seq", j, t.ins[j].seq>> : j \in DOMAIN t.ins})
    \cup {<<"out", k, t.outs[k]>> :
            k \in CASE flag.base = "all" -> DOMAIN t.outs
                   [] flag.base = "single" -> DOMAIN t.outs \cap {i}
                   [] OTHER -> {}}

(* However the calls are ordered: a signature still verifies -- against    *)
(* the preimages computed for the whole transaction at once -- exactly if  *)
(* nothing its flag covers has changed since.                              *)
SignaturesHold ==
  LET now == TxPreimages(Tx)
  IN \A i \in {j \in DOMAIN ins : ins[j].sig # <<>>} :
       LET sig == ins[i].sig[1]
       IN now[i] = sig.pre <=> Covered(Tx, i, ins[i].flag) = Covered(sig.of, i, ins[i].flag)

(* What fee() priced and sign() then signed pays the rate for the bytes it *)
(* really has, whichever inputs were signed before and whether its change  *)
(* was kept or dropped.                                                    *)
FeeIsEnough ==
  priced /\ (\A i \in DOMAIN ins : ins[i].sig # <<>>)
    /\ (\A k \in DOMAIN outs : outs[k].sats # -1)
    => GetFee(Tx) >= Rate * ByteLength(Tx)
=============================================================================
