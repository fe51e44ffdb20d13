------------------------------ MODULE Compare ------------------------------
(***************************************************************************)
(* A conditional branch: what the bCOND expanders of z80.md emit through   *)
(* z80_expand_compare_and_branch (z80.c) for the operands saved by the     *)
(* cmpM / tstM patterns, what flow.c leaves of it, and how the Z80         *)
(* executes that.                                                          *)
(*                                                                         *)
(* One action is one emitted insn executed; pc names the next one.  A word *)
(* operand (QImode, HImode) is the hi part of a value whose lo part is 0;  *)
(* an SImode operand has both.  Words are 0..B-1, negative from H up.      *)
(***************************************************************************)
EXTENDS Integers

CONSTANTS
  H,      \* half the number of values of a word
  Cases,  \* <<mode, code, optimize>>: the branches to be compiled
  Owned0  \* may operand 0 of a word compare be in HL itself, not in a copy

B == 2 * H
Word == 0..(B - 1)

Signed == {"LT", "GE", "GT", "LE"}
Unsigned == {"LTU", "GEU", "GTU", "LEU"}
Equality == {"EQ", "NE"}
Codes == Signed \cup Unsigned \cup Equality

ASSUME CompareAssumption ==
  /\ H \in Nat \ {0}
  /\ Cases \subseteq {"QI", "HI", "SI"} \X Codes \X BOOLEAN
  /\ Owned0 \subseteq BOOLEAN

VARIABLES
  mode, code, opt, \* the branch being compiled
  own,             \* operand 0 of the compare is the variable's own register
  x, y,            \* the operands' values when the compare was expanded
  val,             \* what the operands hold now
  flags,           \* z, s, c: the flag register
  pc,
  outcome          \* "run", then whether the branch was "taken" or "not"

vars == <<mode, code, opt, own, x, y, val, flags, pc, outcome>>

-----------------------------------------------------------------------------
\* There is no branch on these codes: operands and condition are swapped.
Swapped == code \in {"GT", "LE", "GTU", "LEU"}

\* swap_condition (jump.c), where the expander applies it
SwapCondition(c) ==
  CASE c = "GT" -> "LT" [] c = "LE" -> "GE"
    [] c = "GTU" -> "LTU" [] c = "LEU" -> "GEU" [] OTHER -> c

\* reverse_condition (jump.c), where the expander applies it
ReverseCondition(c) == IF c = "EQ" THEN "NE" ELSE "EQ"

\* op0 and op1 of the emitted compare
Op0 == IF Swapped THEN 2 ELSE 1
Op1 == 3 - Op0

\* Variant: the difference does not wrap round.
DiffNoWrap(a, b, borrow) == a - b - borrow

\* a - b - borrow, in a word, and the flags sbc and cp set from it
Diff(a, b, borrow) ==
  IF a - b - borrow < 0 THEN a - b - borrow + B ELSE a - b - borrow

FlagsOf(a, b, borrow) ==
  [z |-> Diff(a, b, borrow) = 0,
   s |-> Diff(a, b, borrow) >= H,
   c |-> a - b - borrow < 0]

Borrow == IF flags.c THEN 1 ELSE 0

\* The jump each branch insn of z80.md is output as, for the codes that the
\* expander leaves: *beq and *bne, and the four on an order.
JumpsOnZero(c) == IF c = "EQ" THEN flags.z ELSE ~flags.z
Jumps(c) ==
  CASE c \in Equality -> JumpsOnZero(c)
    [] c = "LT" -> flags.s [] c = "GE" -> ~flags.s
    [] c = "LTU" -> flags.c [] c = "GEU" -> ~flags.c

-----------------------------------------------------------------------------
Init ==
  /\ \E k \in Cases : mode = k[1] /\ code = k[2] /\ opt = k[3]
  /\ x \in [hi : Word, lo : Word]
  /\ y \in [hi : Word, lo : Word]
  /\ mode # "SI" => x.lo = 0 /\ y.lo = 0
  /\ own \in Owned0
  /\ val = <<x, y>>
  /\ flags \in [z : BOOLEAN, s : BOOLEAN, c : BOOLEAN]
  /\ pc = IF mode = "SI" THEN "low" ELSE "word"
  /\ outcome = "run"

\* cmphi_1: or a,a ; sbc op0,op1, which also stores the difference in op0;
\* cmpqi_1: cp
CompareWord ==
  /\ pc = "word"
  /\ flags' = FlagsOf(val[Op0].hi, val[Op1].hi, 0)
  /\ val' = IF mode = "HI" /\ own
              THEN [val EXCEPT ![Op0].hi =
                      Diff(val[Op0].hi, val[Op1].hi, 0)]
              ELSE val
  /\ pc' = "branch"
  /\ UNCHANGED <<mode, code, opt, own, x, y, outcome>>

\* isout 0: the low parts (subregs, so forced into copies) are compared.
\* Only an equality code has a branch after the compare; when optimizing,
\* flow.c deletes a set of cc0 that the next insn does not use.
CompareLow ==
  /\ pc = "low"
  /\ flags' = IF opt /\ code \notin Equality THEN flags
              ELSE FlagsOf(val[Op0].lo, val[Op1].lo, 0)
  /\ pc' = IF code \in Equality THEN "skip" ELSE "high"
  /\ UNCHANGED <<mode, code, opt, own, x, y, val, outcome>>

\* The branch on the reversed code, to label2 behind the whole sequence.
SkipBranch ==
  /\ pc = "skip"
  /\ IF Jumps(ReverseCondition(code))
       THEN pc' = "done" /\ outcome' = "not"
       ELSE pc' = "high" /\ UNCHANGED outcome
  /\ UNCHANGED <<mode, code, opt, own, x, y, val, flags>>

\* Variant: the high parts are subtracted without the borrow.
SubtractHighNoBorrow ==
  /\ pc = "high"
  /\ flags' = FlagsOf(val[Op0].hi, val[Op1].hi, 0)
  /\ pc' = "branch"
  /\ UNCHANGED <<mode, code, opt, own, x, y, val, outcome>>

\* isout 2: *subchi3 on copies of the high parts.  Nothing uses the result,
\* so that flow.c deletes the insn when optimizing.
SubtractHigh ==
  /\ pc = "high"
  /\ flags' = IF opt THEN flags
              ELSE FlagsOf(val[Op0].hi, val[Op1].hi, Borrow)
  /\ pc' = "branch"
  /\ UNCHANGED <<mode, code, opt, own, x, y, val, outcome>>

\* The branch to the label the program named.
Branch ==
  /\ pc = "branch"
  /\ outcome' = IF Jumps(SwapCondition(code)) THEN "taken" ELSE "not"
  /\ pc' = "done"
  /\ UNCHANGED <<mode, code, opt, own, x, y, val, flags>>

Done == pc = "done" /\ UNCHANGED vars

Next ==
  CompareWord \/ CompareLow \/ SkipBranch \/ SubtractHigh \/ Branch \/ Done

Spec == Init /\ [][Next]_vars

-----------------------------------------------------------------------------
(* What the source program means.                                          *)

AsSigned(w) == IF w >= H THEN w - B ELSE w

Less(a, b) == a.hi < b.hi \/ (a.hi = b.hi /\ a.lo < b.lo)
LessSigned(a, b) ==
  \/ AsSigned(a.hi) < AsSigned(b.hi)
  \/ a.hi = b.hi /\ a.lo < b.lo

Relation(c, a, b) ==
  CASE c = "EQ" -> a = b [] c = "NE" -> a # b
    [] c = "LTU" -> Less(a, b) [] c = "GEU" -> ~Less(a, b)
    [] c = "GTU" -> Less(b, a) [] c = "LEU" -> ~Less(b, a)
    [] c = "LT" -> LessSigned(a, b) [] c = "GE" -> ~LessSigned(a, b)
    [] c = "GT" -> LessSigned(b, a) [] c = "LE" -> ~LessSigned(b, a)

\* The signed difference of a and b is representable in their mode.
Fits(a, b) ==
  LET d == AsSigned(a.hi) - AsSigned(b.hi) - (IF a.lo < b.lo THEN 1 ELSE 0)
  IN  -H <= d /\ d < H

NoOverflow == IF Swapped THEN Fits(y, x) ELSE Fits(x, y)

(***************************************************************************)
(* Types: flags are Booleans, operands stay words (sbc wraps round).       *)
(***************************************************************************)
TypeOK ==
  /\ mode \in {"QI", "HI", "SI"} /\ code \in Codes
  /\ opt \in BOOLEAN /\ own \in BOOLEAN
  /\ x \in [hi : Word, lo : Word] /\ y \in [hi : Word, lo : Word]
  /\ val \in [1..2 -> [hi : Word, lo : Word]]
  /\ flags \in [z : BOOLEAN, s : BOOLEAN, c : BOOLEAN]
  /\ pc \in {"word", "low", "skip", "high", "branch", "done"}
  /\ outcome \in {"run", "taken", "not"}

(***************************************************************************)
(* The branch goes where the source program says, whatever the flags were  *)
(* before: the insns of z80_expand_compare_and_branch decide the relation  *)
(* of the operands.                                                        *)
(***************************************************************************)
BranchCorrect ==
  outcome # "run" => (outcome = "taken" <=> Relation(code, x, y))

(***************************************************************************)
(* The same for signed codes as long as the subtraction the branch rests   *)
(* on (sbc, cp) does not overflow: jp m and jp p look at the sign alone.   *)
(***************************************************************************)
BranchSound ==
  outcome # "run" /\ (code \in Signed => NoOverflow) =>
    (outcome = "taken" <=> Relation(code, x, y))

(***************************************************************************)
(* A compare only sets the condition codes: the operands the cmp pattern   *)
(* was given hold what they held before.                                   *)
(***************************************************************************)
OperandsKept == val = <<x, y>>
=============================================================================
