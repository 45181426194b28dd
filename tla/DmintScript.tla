----------------------------- MODULE DmintScript -----------------------------
(***************************************************************************)
(* The retarget of a dMint contract, twice: the opcodes that               *)
(* glyph/dmint/builders.py bakes into the covenant, run by a stack machine *)
(* with the node's integer range, and the Python functions of              *)
(* glyph/dmint/miner.py with which a miner predicts their result.  The     *)
(* widths are scaled: IntMax stands for 2^63 - 1.                          *)
(***************************************************************************)
EXTENDS Integers, Sequences, SequencesExt

CONSTANTS
  IntMax,         \* MAX_SHA256D_TARGET, the largest script integer
  Radix,          \* ASERT_V2_RADIX
  EpochMaxSafe    \* EPOCH_MAX_SAFE_TARGET

HalfMax == IntMax \div 2
QuarterMax == IntMax \div 4
DriftClamp == Radix \div 4

Lesser(a, b) == IF a < b THEN a ELSE b
Greater(a, b) == IF a > b THEN a ELSE b

-------------------------------------------------------- (* the machine *)

(* OP_DIV and OP_MOD truncate toward zero.                                 *)
Trunc(a, b) == IF (a < 0) = (b < 0) THEN (IF a < 0 THEN -a ELSE a) \div (IF b < 0 THEN -b ELSE b)
               ELSE -((IF a < 0 THEN -a ELSE a) \div (IF b < 0 THEN -b ELSE b))

Bool(b) == IF b THEN 1 ELSE 0

Binary(op, a, b) ==
  CASE op = "ADD" -> a + b [] op = "SUB" -> a - b [] op = "MUL" -> a * b
    [] op = "DIV" -> Trunc(a, b) [] op = "MOD" -> a - b * Trunc(a, b)
    [] op = "MIN" -> Lesser(a, b) [] op = "MAX" -> Greater(a, b)
    [] op = "GT" -> Bool(a > b) [] op = "LT" -> Bool(a < b) [] op = "GE" -> Bool(a >= b)
    [] op = "NUMEQUAL" -> Bool(a = b) [] op = "BOOLAND" -> Bool(a # 0 /\ b # 0)

Unary(op, a) ==
  CASE op = "2MUL" -> 2 * a [] op = "2DIV" -> Trunc(a, 2) [] op = "1SUB" -> a - 1
    [] op = "NEGATE" -> -a

BinaryOps == {"ADD", "SUB", "MUL", "DIV", "MOD", "MIN", "MAX", "GT", "LT", "GE", "NUMEQUAL",
              "BOOLAND"}
UnaryOps == {"2MUL", "2DIV", "1SUB", "NEGATE"}

(* A machine is [st, cond, ok, lock]: the stack, top first, the open       *)
(* conditionals, and whether an opcode has aborted.  A result out of range *)
(* or a division by zero aborts.                                           *)
Push(m, n) == [m EXCEPT !.st = <<n>> \o @, !.ok = @ /\ n \in -IntMax .. IntMax]
Pop(m, k) == SubSeq(m.st, k + 1, Len(m.st))

Execute(m, op) ==
  LET s == m.st IN
  CASE op[1] = "push" -> Push(m, op[2])
    [] op[1] = "pick" -> Push(m, s[op[2] + 1])
    [] op[1] = "LOCKTIME" -> Push(m, m.lock)
    [] op[1] = "DUP" -> Push(m, s[1])
    [] op[1] = "DROP" -> [m EXCEPT !.st = Pop(m, 1)]
    [] op[1] = "SWAP" -> [m EXCEPT !.st = <<s[2], s[1]>> \o Pop(m, 2)]
    [] op[1] = "ROT" -> [m EXCEPT !.st = <<s[3], s[1], s[2]>> \o Pop(m, 3)]
    [] op[1] \in {"DIV", "MOD"} /\ s[1] = 0 -> [m EXCEPT !.ok = FALSE]
    [] op[1] \in BinaryOps -> Push([m EXCEPT !.st = Pop(m, 2)], Binary(op[1], s[2], s[1]))
    [] op[1] \in UnaryOps -> Push([m EXCEPT !.st = Pop(m, 1)], Unary(op[1], s[1]))

Running(m) == \A i \in DOMAIN m.cond : m.cond[i]

Step(m, op) ==
  CASE ~m.ok -> m
    [] op[1] = "IF" /\ Running(m) -> [m EXCEPT !.cond = <<m.st[1] # 0>> \o @, !.st = Pop(m, 1)]
    [] op[1] = "IF" -> [m EXCEPT !.cond = <<FALSE>> \o @]
    [] op[1] = "ELSE" -> [m EXCEPT !.cond[1] = ~@]
    [] op[1] = "ENDIF" -> [m EXCEPT !.cond = Tail(@)]
    [] ~Running(m) -> m
    [] OTHER -> Execute(m, op)

(* The covenant's stack when the retarget begins, after the proof of work  *)
(* was compared with the target: target, lastTime and targetTime on top,   *)
(* the height nine below.                                                  *)
StackAt(c) == <<c.target, c.last, c.targetTime>> \o <<0, 0, 0, 0, 0, 0>> \o <<c.height>>

(* Ten opcodes at a time, to keep the evaluation shallow.                  *)
Block(code, i) == SubSeq(code, 10 * i - 9, Lesser(10 * i, Len(code)))
Run(code, c, locktime) ==
  LET after[i \in Nat] ==
        IF i = 0 THEN [st |-> StackAt(c), cond |-> <<>>, ok |-> TRUE, lock |-> locktime]
        ELSE LET before == after[i - 1]
             IN  IF before.ok THEN FoldLeft(Step, before, Block(code, i)) ELSE before
  IN  after[(Len(code) + 9) \div 10]

---------------------------------------------------- (* the covenant's code *)

O(name) == <<name>>
P(n) == <<"push", n>>
Pick(n) == <<"pick", n>>

FloorAtOne == <<O("DUP"), P(1), O("LT"), O("IF"), O("DROP"), P(1), O("ENDIF")>>

Asert2MulStep ==
  <<O("DUP"), P(0), O("GT"), O("IF"), O("1SUB"), O("SWAP"), O("DUP"), P(HalfMax), O("GT"),
    O("IF"), O("DROP"), P(IntMax), O("ELSE"), O("2MUL"), O("ENDIF"), O("SWAP"), O("ENDIF")>>
Asert2DivStep ==
  <<O("DUP"), P(0), O("GT"), O("IF"), O("1SUB"), O("SWAP"), O("2DIV"), O("SWAP"), O("ENDIF")>>

BuildAsertDaaLegacy(halfLife) ==
  <<O("LOCKTIME"), Pick(2), O("SUB"), Pick(3), O("SUB"), P(halfLife), O("DIV"),
    O("DUP"), P(4), O("GT"), O("IF"), O("DROP"), P(4), O("ENDIF"),
    O("DUP"), P(4), O("NEGATE"), O("LT"), O("IF"), O("DROP"), P(4), O("NEGATE"), O("ENDIF"),
    O("DUP"), P(0), O("GT"), O("IF")>>
  \o Asert2MulStep \o Asert2MulStep \o Asert2MulStep \o Asert2MulStep
  \o <<O("DROP"), O("ELSE"), O("DUP"), P(0), O("LT"), O("IF"), O("NEGATE")>>
  \o Asert2DivStep \o Asert2DivStep \o Asert2DivStep \o Asert2DivStep
  \o <<O("DROP"), O("ELSE"), O("DROP"), O("ENDIF"), O("ENDIF")>> \o FloorAtOne

BuildAsertDaaV2(halfLife) ==
  <<O("LOCKTIME"), Pick(2), O("SUB"), Pick(3), O("SUB"), P(Radix), O("MUL"), P(halfLife),
    O("DIV"), P(DriftClamp), O("MIN"), P(-DriftClamp), O("MAX"), O("SWAP"), P(QuarterMax),
    O("MIN"), O("DUP"), P(Radix), O("DIV"), O("ROT"), O("MUL"), O("ADD"), P(QuarterMax),
    O("MIN")>> \o FloorAtOne

BuildLinearDaa ==
  <<O("LOCKTIME"), Pick(2), O("SUB"), Pick(3), P(4), O("MUL"), O("MIN"), P(0), O("MAX"),
    O("SWAP"), P(QuarterMax), O("MIN"), Pick(3), O("DIV"), O("MUL"), P(IntMax), O("MIN")>>
  \o FloorAtOne

Repeat(op, n) == [i \in 1 .. n |-> op]

BuildEpochDaa(length, log2) ==
  <<Pick(9), O("DUP"), P(0), O("GT"), O("SWAP"), P(length), O("MOD"), P(0), O("NUMEQUAL"),
    O("BOOLAND"), O("IF"), O("LOCKTIME"), Pick(2), O("SUB"), Pick(3)>>
  \o Repeat(O("2MUL"), log2) \o <<O("MIN"), Pick(3)>> \o Repeat(O("2DIV"), log2)
  \o <<O("MAX"), O("SWAP"), P(EpochMaxSafe), O("MIN"), Pick(3), O("DIV"), O("MUL"),
       P(EpochMaxSafe), O("MIN")>> \o FloorAtOne \o <<O("ENDIF")>>

(* One entry wraps the entries before it.                                  *)
BuildScheduleDaa(schedule) ==
  FoldLeft(LAMBDA body, e :
             <<Pick(9), P(e[1]), O("GE"), O("IF"), O("DROP"), P(e[2])>>
             \o (IF body = <<>> THEN <<>> ELSE <<O("ELSE")>>) \o body \o <<O("ENDIF")>>,
           <<>>, schedule)

(* _build_part_b, with the parameters a deploy bakes in.                   *)
BuildPartB(d) ==
  CASE d.mode = "FIXED" -> <<>>
    [] d.mode = "ASERT" -> IF d.asertVersion >= 2 THEN BuildAsertDaaV2(d.halfLife)
                           ELSE BuildAsertDaaLegacy(d.halfLife)
    [] d.mode = "LWMA" -> BuildLinearDaa
    [] d.mode = "EPOCH" -> BuildEpochDaa(d.epochLength, d.log2)
    [] d.mode = "SCHEDULE" -> BuildScheduleDaa(d.schedule)

(* What the covenant makes the next target, or an abort.                   *)
CovenantTarget(d, c, locktime) ==
  LET m == Run(BuildPartB(d), c, locktime) IN [ok |-> m.ok, target |-> m.st[1]]

------------------------------------------------- (* the miner's prediction *)

(* Mutation: Python's own division, which floors.                          *)
FloorDiv(a, b) == a \div b

(* _trunc_div: Python's // floors, the opcode truncates.                   *)
TruncDiv(a, b) ==
  LET q == (IF a < 0 THEN -a ELSE a) \div b IN IF a < 0 THEN -q ELSE q

ComputeNextTargetAsert(d, c, now) ==
  LET drift == Greater(-4, Lesser(4, TruncDiv(now - c.last - c.targetTime, d.halfLife)))
      doubled == FoldLeft(LAMBDA t, i : IF t > HalfMax THEN IntMax ELSE 2 * t, c.target,
                          [i \in 1 .. drift |-> i])
      halved == FoldLeft(LAMBDA t, i : t \div 2, c.target, [i \in 1 .. -drift |-> i])
  IN  Greater(1, IF drift > 0 THEN doubled ELSE halved)

ComputeNextTargetAsertV2(d, c, now) ==
  LET fp == TruncDiv((now - c.last - c.targetTime) * Radix, d.halfLife)
      drift == Greater(-DriftClamp, Lesser(DriftClamp, fp))
      t == Lesser(c.target, QuarterMax)
  IN  Greater(1, Lesser(t + (t \div Radix) * drift, QuarterMax))

ComputeNextTargetLinear(c, now) ==
  LET delta == Greater(0, Lesser(now - c.last, 4 * c.targetTime))
      t == Lesser(c.target, QuarterMax)
  IN  Greater(1, Lesser((t \div c.targetTime) * delta, IntMax))

ComputeNextTargetEpoch(d, c, now) ==
  IF c.height > 0 /\ c.height % d.epochLength = 0
  THEN LET clamped == Greater(c.targetTime \div 2 ^ d.log2,
                              Lesser(c.targetTime * 2 ^ d.log2, now - c.last))
           t == Lesser(c.target, EpochMaxSafe)
       IN  Greater(1, Lesser((t \div c.targetTime) * clamped, EpochMaxSafe))
  ELSE c.target

ComputeNextTargetSchedule(d, c) ==
  FoldLeft(LAMBDA t, e : IF c.height >= e[1] THEN e[2] ELSE t, c.target, d.schedule)

(* build_dmint_mint_tx's dispatch; the ASERT version is read off the code. *)
NextTarget(d, c, now) ==
  CASE d.mode = "ASERT" -> IF d.asertVersion >= 2 THEN ComputeNextTargetAsertV2(d, c, now)
                           ELSE ComputeNextTargetAsert(d, c, now)
    [] d.mode = "LWMA" -> ComputeNextTargetLinear(c, now)
    [] d.mode = "EPOCH" -> ComputeNextTargetEpoch(d, c, now)
    [] d.mode = "SCHEDULE" -> ComputeNextTargetSchedule(d, c)
    [] OTHER -> c.target
=============================================================================
