------------------------------- MODULE Scripts -------------------------------
(***************************************************************************)
(* The script readers of pyrxd, which each walk a script's bytes on their  *)
(* own: glyph/script.py iter_input_refs, htlc_covenant.py and              *)
(* soulbound_covenant.py's guards, soulbound_detect.py _opcodes,           *)
(* transaction_preimage.py _get_push_refs, script/script.py _build_chunks, *)
(* inspector.py and timelock_reveal_tx.py's push readers; and the pushes   *)
(* they are to read back.  Bytes are few and operands short: RefLen bytes  *)
(* for the 36 of a ref, and the limits of the push opcodes scaled down.    *)
(***************************************************************************)
EXTENDS Integers, Sequences, FiniteSets

CONSTANTS RefLen,       \* bytes of a ref operand (36)
          OneByteMax,   \* the longest PUSHDATA1 (255)
          MaxLen        \* the longest script

VARIABLE s              \* a script, or the data of a push

(* The opcodes, in the order of their values.                              *)
Op0 == 0
DirectMax == 1          \* a direct push of one byte (0x01..0x4b)
PushData1 == 2
PushData2 == 3
PushData4 == 4
Op1 == 5                \* OP_1 .. OP_16
OpRefs == {6, 7, 9}     \* 0xd0, 0xd1 .. 0xd3, 0xd8
PushInputRef == 6
RequireInputRef == 7
RefHash == 8            \* 0xd4 .. 0xd7, which take their ref from the stack
Singleton == 9
StateSeparator == 10
OpReturn == 11
Byte == 0..11

Slice(x, i, n) == SubSeq(x, i, IF i + n - 1 < Len(x) THEN i + n - 1 ELSE Len(x))

(* int.from_bytes(slice, "little"): a short slice is a smaller number.     *)
Little(x) ==
  LET digit[i \in 0..Len(x)] == IF i = 0 THEN 0 ELSE digit[i - 1] + x[i] * 12^(i - 1)
  IN digit[Len(x)]
LengthBytes(op) == CASE op = PushData1 -> 1 [] op = PushData2 -> 2 [] OTHER -> 4
IsPushData(op) == op \in {PushData1, PushData2, PushData4}
AfterPushData(x, i) ==
  i + 1 + LengthBytes(x[i]) + Little(Slice(x, i + 1, LengthBytes(x[i])))

(* A walk from opcode to opcode.  Nx gives the next position, 0 when the   *)
(* reader raises; past the end it is over.                                 *)
Walk(x, Nx(_, _)) ==
  LET RECURSIVE from(_)
      from(i) == IF i > Len(x) THEN [ok |-> TRUE, at |-> {}]
                 ELSE IF Nx(x, i) = 0 THEN [ok |-> FALSE, at |-> {}]
                 ELSE LET rest == from(Nx(x, i)) IN [rest EXCEPT !.at = @ \cup {i}]
  IN from(1)

Operand(x, i) == SubSeq(x, i + 1, i + RefLen)

----------------------------------------------- (* readers of refs *)

(* REF_OPCODES of glyph/script.py: 0xd0 .. 0xd8, each with an operand.     *)
RefOpcodes == {PushInputRef, RequireInputRef, RefHash, Singleton}

(* iter_input_refs: raises on anything cut short.                          *)
IterNext(x, i) ==
  LET next == CASE x[i] \in RefOpcodes -> i + 1 + RefLen
                [] x[i] \in 1..DirectMax -> i + 1 + x[i]
                [] IsPushData(x[i]) -> IF i + LengthBytes(x[i]) > Len(x) THEN Len(x) + 2
                                       ELSE AfterPushData(x, i)
                [] OTHER -> i + 1
  IN IF next > Len(x) + 1 THEN 0 ELSE next
IterInputRefs(x) == Walk(x, IterNext)
RefsAt(x, at, ops) == {Operand(x, i) : i \in {j \in at : x[j] \in ops}}

(* is_token_bearing_script: a script that cannot be read bears a token.    *)
IsTokenBearing(x) ==
  ~IterInputRefs(x).ok \/ RefsAt(x, IterInputRefs(x).at, RefOpcodes) # {}

(* Mutation: the length of a PUSHDATA is skipped, its data is not.         *)
GuardSkipsLengthOnly(x, i) ==
  CASE x[i] \in OpRefs -> i + 1 + RefLen
    [] x[i] \in 1..DirectMax -> i + 1 + x[i]
    [] IsPushData(x[i]) -> IF i + LengthBytes(x[i]) > Len(x) THEN Len(x) + 1
                           ELSE i + 1 + LengthBytes(x[i])
    [] OTHER -> i + 1

(* _opcode_bd_positions of htlc_covenant.py: it stops where a length is    *)
(* cut off, and knows the five ref opcodes with an operand.                *)
GuardNext(x, i) ==
  CASE x[i] \in OpRefs -> i + 1 + RefLen
    [] x[i] \in 1..DirectMax -> i + 1 + x[i]
    [] IsPushData(x[i]) -> IF i + LengthBytes(x[i]) > Len(x) THEN Len(x) + 1
                           ELSE AfterPushData(x, i)
    [] OTHER -> i + 1
OpcodeBdPositions(x) == {i \in Walk(x, GuardNext).at : x[i] = StateSeparator}

(* soulbound_detect._opcodes: the same walk with REF_OPCODES.              *)
DetectNext(x, i) == IF x[i] \in RefOpcodes THEN i + 1 + RefLen ELSE GuardNext(x, i)
DetectedAt(x) == Walk(x, DetectNext).at

(* _assert_minimal_pushes: it raises on a push cut short or not minimal.   *)
MinimalNext(x, i) ==
  CASE x[i] \in OpRefs -> i + 1 + RefLen
    [] x[i] \in 1..DirectMax -> IF i + x[i] > Len(x) \/ x[i + 1] = 1 THEN 0 ELSE i + 1 + x[i]
    [] IsPushData(x[i]) ->
         IF i + LengthBytes(x[i]) > Len(x) THEN 0
         ELSE LET n == Little(Slice(x, i + 1, LengthBytes(x[i])))
              IN IF n <= (CASE x[i] = PushData1 -> DirectMax [] x[i] = PushData2 -> OneByteMax
                            [] OTHER -> 12^2 - 1)
                 THEN 0 ELSE i + 1 + LengthBytes(x[i]) + n
    [] OTHER -> i + 1
AssertMinimalPushes(x) == Walk(x, MinimalNext).ok

(* _get_push_refs, for the hash of the outputs that every signature        *)
(* commits to: only 0xd0 and 0xd8 have an operand.                         *)
SighashNext(x, i) ==
  CASE x[i] \in {PushInputRef, Singleton} -> IF i + RefLen > Len(x) THEN 0 ELSE i + 1 + RefLen
    [] x[i] \in 1..DirectMax -> i + 1 + x[i]
    [] x[i] = PushData1 -> IF i + 1 > Len(x) THEN 0 ELSE AfterPushData(x, i)
    [] x[i] \in {PushData2, PushData4} -> AfterPushData(x, i)
    [] OTHER -> i + 1
GetPushRefs(x) == RefsAt(x, Walk(x, SighashNext).at, {PushInputRef, Singleton})

----------------------------------------------------- (* pushes *)

LittleBytes(n, w) == [k \in 1..w |-> (n \div 12^(k - 1)) % 12]

(* Mutation: the direct pushes go one byte too far.                        *)
PushCodeOneTooFar(n) ==
  CASE n <= DirectMax + 1 -> <<n>>
    [] n <= OneByteMax -> <<PushData1, n>>
    [] OTHER -> <<PushData2>> \o LittleBytes(n, 2)

PushCode(n) ==
  CASE n <= DirectMax -> <<n>>
    [] n <= OneByteMax -> <<PushData1, n>>
    [] OTHER -> <<PushData2>> \o LittleBytes(n, 2)

(* encode_pushdata, with and without the minimal rule.                     *)
EncodePushdata(d, minimal) ==
  IF minimal /\ d = <<>> THEN <<Op0>>
  ELSE IF minimal /\ d = <<1>> THEN <<Op1>>
  ELSE PushCode(Len(d)) \o d

(* payload.py's push of the marker and the CBOR in a reveal's scriptSig.   *)
PushItem(d) == IF d = <<>> THEN <<Op0>> ELSE PushCode(Len(d)) \o d

Refused == << <<-1>> >>
ReadPushes(x, strict) ==
  LET RECURSIVE from(_)
      from(i) ==
        IF i > Len(x) THEN <<>>
        ELSE IF x[i] = Op0 /\ strict THEN << <<>> >> \o from(i + 1)
        ELSE IF x[i] \notin 1..DirectMax /\ ~IsPushData(x[i]) THEN IF strict THEN Refused ELSE <<>>
        ELSE LET head == IF IsPushData(x[i]) THEN i + 1 + LengthBytes(x[i]) ELSE i + 1
                 end == IF IsPushData(x[i]) THEN AfterPushData(x, i) ELSE i + 1 + x[i]
             IN IF strict /\ (head > Len(x) + 1 \/ end > Len(x) + 1) THEN Refused
                ELSE << SubSeq(x, head, IF end - 1 < Len(x) THEN end - 1 ELSE Len(x)) >> \o from(end)
  IN IF strict /\ Refused[1] \in {from(1)[k] : k \in DOMAIN from(1)} THEN Refused ELSE from(1)

(* _scriptsig_pushes: None for anything but whole pushes.                  *)
ScriptsigPushes(x) == ReadPushes(x, TRUE)

(* _walk_pushdata of a reveal proof: the same, after an OP_RETURN.         *)
WalkPushdata(x) == ReadPushes(IF x # <<>> /\ x[1] = OpReturn THEN Tail(x) ELSE x, TRUE)

(* _parse_reveal_scriptsig: it stops at the first opcode that is no push.  *)
RevealPushes(x) == ReadPushes(x, FALSE)

(* Script._build_chunks: opcodes with the data of pushes; a ref opcode is  *)
(* a chunk without data, and its operand is read as opcodes.               *)
ChunkNext(x, i) ==
  CASE x[i] \in 1..DirectMax -> i + 1 + x[i]
    [] IsPushData(x[i]) -> IF i + LengthBytes(x[i]) > Len(x) THEN Len(x) + 1
                           ELSE AfterPushData(x, i)
    [] OTHER -> i + 1
ChunksAt(x) == Walk(x, ChunkNext).at

----------------------------------------------------------------------------

Init == s = <<>>
AppendByte == Len(s) < MaxLen /\ \E b \in Byte : s' = Append(s, b)
Next == AppendByte
vars == <<s>>
Spec == Init /\ [][Next]_vars

---------------------------------------------------------- (* properties *)

(* On a script the shared walker reads to its end, and that holds no       *)
(* opcode on whose operand they are known to differ, the other readers see *)
(* the same opcodes and the same refs.                                     *)
ReadersAgree ==
  LET w == IterInputRefs(s)
      ops == {s[i] : i \in w.at}
  IN /\ w.ok => DetectedAt(s) = w.at
     /\ w.ok /\ RefHash \notin ops =>
          /\ Walk(s, GuardNext).at = w.at
          /\ IsTokenBearing(s) <=> ops \cap OpRefs # {}
          /\ AssertMinimalPushes(s) => Walk(s, MinimalNext).at = w.at
     /\ w.ok /\ ops \cap {RefHash, RequireInputRef} = {} =>
          GetPushRefs(s) = RefsAt(s, w.at, {PushInputRef, Singleton})
     /\ w.ok /\ ops \cap RefOpcodes = {} => ChunksAt(s) = w.at

(* What a writer pushes, its reader gets back, at every length and for     *)
(* every content: a reveal proof after its OP_RETURN, a reveal's marker    *)
(* and payload, and the items of a mint.                                   *)
PushesComeBack ==
  /\ s # <<>> => WalkPushdata(<<OpReturn>> \o EncodePushdata(s, FALSE) \o EncodePushdata(<<1>>, FALSE))
                   = <<s, <<1>> >>
  /\ s # <<>> => RevealPushes(PushItem(s) \o PushItem(<<2, 1>>)) = <<s, <<2, 1>> >>
  /\ ScriptsigPushes(PushItem(s) \o PushItem(s) \o <<Op0>>) = <<s, s, <<>> >>

(* "This is the single source of truth for ref detection": the refs of a   *)
(* readable output that a signature commits to are the refs of its 0xd0    *)
(* and 0xd8 opcodes.                                                       *)
SignedRefsAreTheRefs ==
  IterInputRefs(s).ok =>
    GetPushRefs(s) = RefsAt(s, IterInputRefs(s).at, {PushInputRef, Singleton})
=============================================================================
