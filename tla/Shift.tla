------------------------------- MODULE Shift -------------------------------
(***************************************************************************)
(* The shift and rotate patterns of z80.md: which insn matches a shift of  *)
(* a register, what its output template emits, and what the Z80 makes of   *)
(* that, one byte at a time through the carry flag.                        *)
(*                                                                         *)
(* A value is a function from bit numbers to bits; its bytes are numbered  *)
(* from the low one (z80_gen_lowpart) up.  A variable count is in BC:      *)
(* byte C, and for HImode counts, which are below 256, B is 0.             *)
(***************************************************************************)
EXTENDS Integers

CONSTANTS
  Cases,  \* <<op, mode, how, n>>: the shifts to be compiled.  The count n
          \* is a "const" or in a "reg"; a "far" rotate is not one of A.
  Values  \* the values shifted, per mode

NBytes(mode) == CASE mode = "QI" -> 1 [] mode = "HI" -> 2 [] mode = "SI" -> 4
BitsOf(mode) == 0..(8 * NBytes(mode) - 1)
Ops == {"ashl", "ashr", "lshr", "rotl", "rotr"}
Modes == {"QI", "HI", "SI"}

ASSUME ShiftAssumption ==
  /\ Cases \subseteq Ops \X Modes \X {"const", "reg", "far"} \X (0..255)
  /\ \A k \in Cases : k[1] \in {"rotl", "rotr"} => k[2] = "QI" /\ k[3] # "reg"
  /\ \A m \in Modes : Values[m] \subseteq [BitsOf(m) -> {0, 1}]

VARIABLES
  op, mode, how, n, \* the shift being compiled
  orig,             \* the value of operand 1 before it
  bits,             \* the register that is operand 1 and 0
  cf,               \* the carry flag
  b, c,             \* the registers of a variable count
  at,               \* the byte the next insn of a round shifts
  rounds,           \* rounds left of an unrolled shift
  pc

vars == <<op, mode, how, n, orig, bits, cf, b, c, at, rounds, pc>>
insn == <<op, mode, how, n, orig>>

-----------------------------------------------------------------------------
(* The instructions, on byte k of a value v with a bit shifted in.         *)

InByte(k) == (8 * k)..(8 * k + 7)

\* sla, rl
Left(v, k, in) ==
  [i \in DOMAIN v |-> IF i \notin InByte(k) THEN v[i]
                      ELSE IF i = 8 * k THEN in ELSE v[i - 1]]
\* sra, srl, rr
Right(v, k, in) ==
  [i \in DOMAIN v |-> IF i \notin InByte(k) THEN v[i]
                      ELSE IF i = 8 * k + 7 THEN in ELSE v[i + 1]]
\* ld k,0 and ld k,j
Clear(v, k) == [i \in DOMAIN v |-> IF i \in InByte(k) THEN 0 ELSE v[i]]
Copy(v, k, j) ==
  [i \in DOMAIN v |-> IF i \in InByte(k) THEN v[i - 8 * k + 8 * j] ELSE v[i]]

\* Variant: the byte is cleared by an insn that clears the carry as well.
TopBitLost(v, k) == Right(Clear(v, k), k, 0)

\* rr k ; ld k,0 ; rr k: the lowest bit goes to the top through the carry
TopBit(v, k) == Right(Clear(v, k), k, v[8 * k])

High == NBytes(mode) - 1

\* Variant: right shifts start at the low byte too.
LowByteFirst == 0

\* The bytes of a round are shifted from the one the zero or sign enters.
FirstByte == IF op = "ashl" THEN 0 ELSE High
LastByte == High - FirstByte

-----------------------------------------------------------------------------
Init ==
  /\ \E k \in Cases : op = k[1] /\ mode = k[2] /\ how = k[3] /\ n = k[4]
  /\ orig \in Values[mode]
  /\ bits = orig
  /\ cf \in {0, 1}
  /\ c = n
  /\ b \in IF mode = "QI" THEN {0, 170} ELSE {0}
  /\ at = FirstByte
  /\ rounds = 0
  /\ pc = "expand"

\* Variant: without *ashrqi3_const.
UnrolledLeft ==
  \/ n = 1
  \/ op = "ashl" /\ mode = "QI" /\ n < 7
  \/ op = "ashl" /\ mode = "HI" /\ n < 8

\* Patterns with a constant count that unroll it (all shifts by 1,
\* *ashlqi3_const, *ashlhi3_const and *ashrqi3_const), and how many rounds
\* they emit.
Unrolled ==
  \/ n = 1
  \/ op = "ashl" /\ mode = "QI" /\ n < 7
  \/ op = "ashl" /\ mode = "HI" /\ n < 8
  \/ op = "ashr" /\ mode = "QI"
RoundsOf == IF op = "ashr" /\ n > 8 THEN 8 ELSE n

\* lshrhi3 by the constant 8 has a pattern of its own, without a name.
ByNextPair == op = "lshr" /\ mode = "HI" /\ how # "reg" /\ n = 8

\* A shift by a constant goes to the first pattern that matches.  In QImode
\* the loop wants its count in a nonimmediate_operand: no insn matches what
\* is left there, and the compiler aborts.  *ashlsi3_const16 and
\* *lshrsi3_const16 are output as ld of one pair into another, which is no
\* Z80 instruction: the assembler refuses it.  In the other modes a
\* general_operand can be loaded into BC, and the loop matches.
ConstPath ==
  CASE Unrolled -> IF RoundsOf = 0 THEN "done" ELSE "shift"
    [] ~Unrolled /\ op = "ashl" /\ mode = "QI" -> "top"
    [] ~Unrolled /\ op # "ashl" /\ mode = "QI" -> "abort"
    [] ~Unrolled /\ op = "ashl" /\ mode = "HI" -> "up"
    [] ~Unrolled /\ ByNextPair -> "pair"
    [] ~Unrolled /\ op \in {"ashl", "lshr"} /\ mode = "SI" /\ n = 16 ->
         "refused"
    [] OTHER -> "load"

\* recog.  A variable count is in BC, and the pattern with the loop matches.
Expand ==
  /\ pc = "expand"
  /\ pc' = CASE op \in {"rotl", "rotr"} -> "rotate"
             [] op \notin {"rotl", "rotr"} /\ how = "reg" -> "load"
             [] OTHER -> ConstPath
  /\ rounds' = IF pc' = "shift" THEN RoundsOf ELSE 0
  /\ UNCHANGED <<insn, bits, cf, b, c, at>>

-----------------------------------------------------------------------------
(* The loop on a count, and the rounds of an unrolled shift.               *)

\* Variant: ld c,b
LoadCountSwapped ==
  /\ pc = "load"
  /\ c' = b
  /\ b' = b
  /\ pc' = "test"
  /\ UNCHANGED <<insn, bits, cf, at, rounds>>

\* ld b,c
LoadCount ==
  /\ pc = "load"
  /\ b' = c
  /\ pc' = "test"
  /\ UNCHANGED <<insn, bits, cf, c, at, rounds>>

\* inc b ; dec b ; jr z,L1
TestCount ==
  /\ pc = "test"
  /\ pc' = IF b = 0 THEN "done" ELSE "shift"
  /\ UNCHANGED <<insn, bits, cf, b, c, at, rounds>>

\* One insn of a round: sla, sra or srl on the first byte, rl or rr on the
\* others.  A round ends in djnz, or is followed by the next unrolled one.
ShiftByte ==
  /\ pc = "shift"
  /\ LET in == CASE at # FirstByte -> cf
                 [] at = FirstByte /\ op = "ashr" -> bits[8 * at + 7]
                 [] OTHER -> 0
     IN  bits' = IF op = "ashl" THEN Left(bits, at, in)
                                ELSE Right(bits, at, in)
  /\ cf' = IF op = "ashl" THEN bits[8 * at + 7] ELSE bits[8 * at]
  /\ IF at # LastByte
       THEN /\ at' = IF op = "ashl" THEN at + 1 ELSE at - 1
            /\ UNCHANGED <<pc, rounds>>
       ELSE /\ at' = FirstByte
            /\ rounds' = IF rounds > 0 THEN rounds - 1 ELSE 0
            /\ pc' = CASE rounds = 0 -> "djnz" [] rounds = 1 -> "done"
                       [] OTHER -> "shift"
  /\ UNCHANGED <<insn, b, c>>

\* Variant: the loop's label stands before the load of the count.
DjnzReloads ==
  /\ pc = "djnz"
  /\ b' = (b - 1) % 256
  /\ pc' = IF b' = 0 THEN "done" ELSE "load"
  /\ UNCHANGED <<insn, bits, cf, c, at, rounds>>

\* djnz L0
Djnz ==
  /\ pc = "djnz"
  /\ b' = (b - 1) % 256
  /\ pc' = IF b' = 0 THEN "done" ELSE "shift"
  /\ UNCHANGED <<insn, bits, cf, c, at, rounds>>

-----------------------------------------------------------------------------
(* The shifts by a constant that move whole bytes.                         *)

\* *ashlqi3_const: by 7 through the carry, by 8 and more ld r,0
ShiftTop ==
  /\ pc = "top"
  /\ bits' = IF n = 7 THEN TopBit(bits, 0) ELSE Clear(bits, 0)
  /\ cf' = IF n = 7 THEN 0 ELSE cf
  /\ pc' = "done"
  /\ UNCHANGED <<insn, b, c, at, rounds>>

\* *ashlhi3_const by 8 and more: the low byte is moved up and shifted there
MoveUp ==
  /\ pc = "up"
  /\ bits' = IF n = 15 THEN TopBit(Copy(bits, 1, 0), 1) ELSE Copy(bits, 1, 0)
  /\ cf' = IF n = 15 THEN 0 ELSE cf
  /\ rounds' = IF n = 15 THEN 0 ELSE n - 8
  /\ pc' = "high"
  /\ UNCHANGED <<insn, b, c, at>>

\* sla on the high byte, while there are rounds left
ShiftHigh ==
  /\ pc = "high"
  /\ rounds > 0
  /\ bits' = Left(bits, 1, 0)
  /\ cf' = bits[15]
  /\ rounds' = rounds - 1
  /\ UNCHANGED <<insn, b, c, at, pc>>

\* ld of 0 into the low byte
ClearLow ==
  /\ pc = "high"
  /\ rounds = 0
  /\ bits' = Clear(bits, 0)
  /\ pc' = "done"
  /\ UNCHANGED <<insn, cf, b, c, at, rounds>>

\* lshrhi3 by 8: ld of QImode register REGNO + 1 into REGNO.  For HL these
\* are printed as L and E: the low byte is given whatever the next pair
\* holds, the high byte stays.
LoadFromNext ==
  /\ pc = "pair"
  /\ \E next \in Values[mode] :
       bits' = [i \in DOMAIN bits |->
                  IF i \in InByte(0) THEN next[i] ELSE bits[i]]
  /\ pc' = "done"
  /\ UNCHANGED <<insn, cf, b, c, at, rounds>>

\* rotlqi3 is one rlc, rotrqi3 one rra, which rotates A through the carry:
\* operand 0 if that is A, another register ("far") stays as it is.
Rotate ==
  /\ pc = "rotate"
  /\ bits' = CASE op = "rotl" -> Left(bits, 0, bits[7])
               [] op = "rotr" /\ how = "const" -> Right(bits, 0, cf)
               [] OTHER -> bits
  /\ cf' \in {0, 1}
  /\ pc' = "done"
  /\ UNCHANGED <<insn, b, c, at, rounds>>

Done == pc \in {"done", "abort", "refused"} /\ UNCHANGED vars

-----------------------------------------------------------------------------
Insn ==
  \/ Expand
  \/ LoadCount \/ TestCount \/ ShiftByte \/ Djnz
  \/ ShiftTop \/ MoveUp \/ ShiftHigh \/ ClearLow \/ LoadFromNext
  \/ Rotate

Next == Insn \/ Done

\* The CPU executes one insn after the other.
Spec == Init /\ [][Next]_vars /\ WF_vars(Insn)

-----------------------------------------------------------------------------
\* What the shifted value is: the definition of the RTL operations.
Shifted(o, v, k) ==
  LET w == CHOOSE m \in {8, 16, 32} : DOMAIN v = 0..(m - 1)
  IN  [i \in DOMAIN v |->
         CASE o = "ashl" -> IF i >= k THEN v[i - k] ELSE 0
           [] o = "lshr" -> IF i + k < w THEN v[i + k] ELSE 0
           [] o = "ashr" -> IF i + k < w THEN v[i + k] ELSE v[w - 1]
           [] o = "rotl" -> v[(i - k) % w]
           [] o = "rotr" -> v[(i + k) % w]]

(***************************************************************************)
(* Types: bits stay bits, byte numbers inside the value, B a byte.         *)
(***************************************************************************)
TypeOK ==
  /\ op \in Ops /\ mode \in Modes
  /\ bits \in [BitsOf(mode) -> {0, 1}]
  /\ cf \in {0, 1}
  /\ b \in 0..255 /\ c \in 0..255
  /\ at \in 0..(NBytes(mode) - 1)
  /\ rounds \in 0..255

(***************************************************************************)
(* Every shift the expanders of z80.md let through is matched by an insn   *)
(* (recog) whose output the Z80 has.                                       *)
(***************************************************************************)
Compiled == pc \notin {"abort", "refused"}

(***************************************************************************)
(* The emitted insns shift the register by the count, for every count, in  *)
(* the loop, unrolled, and by bytes, whatever the carry was before.        *)
(***************************************************************************)
ShiftCorrect == pc = "done" => bits = Shifted(op, orig, n)

(***************************************************************************)
(* The same apart from lshrhi3 by 8, which takes a byte of the next pair.  *)
(***************************************************************************)
ShiftSound == pc = "done" /\ ~ByNextPair => bits = Shifted(op, orig, n)

(***************************************************************************)
(* A variable count is an input of the pattern only: its register has its  *)
(* value again behind the loop, although the loop counts down in B.        *)
(***************************************************************************)
CountKept == pc = "done" /\ how = "reg" => c = n /\ (mode # "QI" => b = 0)

(***************************************************************************)
(* Every shift is compiled and ends: the djnz loop runs out, with a count  *)
(* of 0 too.                                                               *)
(***************************************************************************)
Terminates == <>(pc = "done")
=============================================================================
