-------------------------------- MODULE Alu --------------------------------
(***************************************************************************)
(* Arithmetic, logic, extensions and long moves: the Z80 instructions that *)
(* the patterns of z80.md are split into or output as after reload, run to *)
(* the end on a machine of byte cells.                                     *)
(*                                                                         *)
(* An operand is the sequence of cells it occupies, low byte first: a      *)
(* register, a pair, two pairs, memory, or constants, which are cells that *)
(* nothing writes.  A memory operand is addressed by a symbol, so that no  *)
(* register is part of it.                                                 *)
(***************************************************************************)
EXTENDS Integers, Sequences, Functions

CONSTANTS
  R,      \* the number of values of a byte, a power of 2
  Bytes,  \* the byte values that operands are made of
  Cases,  \* the insns to execute
  Bits(_, _, _)  \* what the Z80's and, or and xor make of two bytes

VARIABLES insn, start, carry, cell, code

vars == <<insn, start, carry, cell, code>>

-----------------------------------------------------------------------------
A == <<"A">>
HL == <<"L", "H">>
DE == <<"E", "D">>
BC == <<"C", "B">>
IX == <<"IXL", "IXH">>
IY == <<"IYL", "IYH">>
HLDE == HL \o DE
BCIY == BC \o IY

\* What holds a byte (a pair stands for its low half), a word, a long.
ByteRegs == {A, <<"L">>, <<"E">>, <<"C">>}
Words == {HL, DE, BC, IX, IY}
Longs == {HLDE, BCIY}

\* A variable, another one, an immediate, and the word that push stores to.
Mem(n) == SubSeq(<<"m0", "m1", "m2", "m3">>, 1, n)
Mem2(n) == SubSeq(<<"n0", "n1", "n2", "n3">>, 1, n)
Imm(n) == SubSeq(<<"i0", "i1", "i2", "i3">>, 1, n)
Pushed == <<"s0", "s1">>

Known == [zero |-> 0, one |-> 1, ones |-> R - 1]
Zero(n) == [k \in 1..n |-> "zero"]
One(n) == [k \in 1..n |-> IF k = 1 THEN "one" ELSE "zero"]
Ones(n) == [k \in 1..n |-> "ones"]

Places == {A, IX, Mem(4), Mem2(4), Pushed} \cup Longs
Constants == Range(Imm(4)) \cup DOMAIN Known
Cells == (UNION {Range(x) : x \in Places}) \cup Constants

\* z80_gen_lowpart and z80_gen_highpart
Low(x) ==
  IF x \in {IX, IY} THEN <<x[2]>> ELSE SubSeq(x, 1, Len(x) \div 2)

\* Variant: the high part starts one byte too low.
HighOverlaps(x) == SubSeq(x, Len(x) \div 2, Len(x))
High(x) == SubSeq(x, Len(x) \div 2 + 1, Len(x))

\* The number with the digits d, the low one first: 1, 2 or 4, or none.
Num(d) ==
  CASE Len(d) = 0 -> 0
    [] Len(d) = 1 -> d[1]
    [] Len(d) = 2 -> d[1] + R * d[2]
    [] Len(d) = 4 -> (d[1] + R * d[2]) + (R * R) * (d[3] + R * d[4])
Size(x) ==
  CASE Len(x) = 1 -> R
    [] Len(x) = 2 -> R * R
    [] Len(x) = 4 -> (R * R) * (R * R)

\* The number in the cells x, and the cells after v is stored in one or two.
Digits(c, x) == [k \in 1..Len(x) |-> c[x[k]]]
Val(c, x) == Num(Digits(c, x))
Put(c, x, v) ==
  [b \in Cells |->
     CASE b = x[1] -> v % R
       [] b # x[1] /\ Len(x) = 2 -> IF b = x[2] THEN v \div R ELSE c[b]
       [] OTHER -> c[b]]

-----------------------------------------------------------------------------
(* The insns of z80.md as sequences of Z80 instructions.                   *)

Do(op, x, y) == <<[op |-> op, x |-> x, y |-> y]>>

\* *movhi, *movqi: ld, or push and pop from pair to pair
Ld(x, y) == IF x = y THEN <<>> ELSE Do("ld", x, y)

ClearCarry == Do("or", A, A)

\* z80_split_move: only memory to memory goes through the scratch register.
z80_split_move(to, from) ==
  IF to \in Longs \/ from \in Longs
    THEN Ld(Low(to), Low(from)) \o Ld(High(to), High(from))
    ELSE Ld(BC, Low(from)) \o Ld(Low(to), BC)
         \o Ld(BC, High(from)) \o Ld(High(to), BC)

zero_extendhisi2(x, y) == Ld(Low(x), y) \o Ld(High(x), Zero(2))
zero_extendqihi2(x, y) == Ld(Low(x), y) \o Ld(High(x), Zero(1))
zero_extendqisi2(x, y) ==
  Ld(Low(Low(x)), y) \o Ld(High(Low(x)), Zero(1)) \o Ld(High(x), Zero(2))

extendqihi2(x, y) ==
  Ld(Low(x), y) \o Do("rl", y, y) \o Do("sbc", y, y) \o Ld(High(x), y)
extendqisi2(x, y) ==
  extendqihi2(Low(x), y) \o Ld(Low(High(x)), High(Low(x)))
  \o Ld(High(High(x)), High(Low(x)))
extendhisi2(x, y) ==
  Ld(A, High(y)) \o Do("rl", A, A) \o Do("sbc", Low(x), Low(x))
  \o Ld(High(x), Low(x)) \o Ld(Low(x), y)

\* Variant: the high halves are added without the carry.
addsi3_no_carry(x, y) ==
  Ld(BC, Low(y)) \o Do("add", Low(x), BC) \o Ld(BC, High(y))
  \o Do("ex", Low(x), High(x)) \o Do("add", Low(x), BC)
  \o Do("ex", Low(x), High(x))

addsi3(x, y) ==
  Ld(BC, Low(y)) \o Do("add", Low(x), BC) \o Ld(BC, High(y))
  \o Do("ex", Low(x), High(x)) \o Do("adc", Low(x), BC)
  \o Do("ex", Low(x), High(x))

\* The second sbc subtracts what was exchanged, not the scratch register.
subsi3(x, y) ==
  Ld(BC, Low(y)) \o ClearCarry \o Do("sbc", Low(x), BC) \o Ld(BC, High(y))
  \o Do("ex", Low(x), High(x)) \o Do("sbc", Low(x), High(x))
  \o Do("ex", Low(x), High(x))

\* Variant: BC is not taken from the stack again.
addhi_mov_no_pop(x, y) == Ld(Pushed, BC) \o Ld(BC, y) \o Do("add", x, BC)

addhi_mov(x, y) ==
  Ld(Pushed, BC) \o Ld(BC, y) \o Do("add", x, BC) \o Ld(BC, Pushed)

\* The nameless inc and dec, addhi_mov, and *addhi3 with two alternatives:
\* add to HL, IX or IY, or load operand 2 first.
addhi3(x, y, z) ==
  CASE z = One(2) -> Do("inc", x, x)
    [] z = Ones(2) -> Do("dec", x, x)
    [] x = y /\ z = Imm(2) -> addhi_mov(x, z)
    [] x = y /\ x \in {HL, IX, IY} /\ z \in Words -> Do("add", x, z)
    [] x # y -> Ld(x, z) \o Do("add", x, y)

addqi3(x, z) ==
  CASE z = One(1) -> Do("inc", x, x)
    [] z = Ones(1) -> Do("dec", x, x)
    [] OTHER -> Do("add", x, z)

subhi3(x, z) == ClearCarry \o Do("sbc", x, z)

\* andhi3, iorhi3, xorhi3
logichi3(op, x, y) ==
  Ld(A, Low(x)) \o Do(op, A, Low(y)) \o Ld(Low(x), A)
  \o Ld(A, High(x)) \o Do(op, A, High(y)) \o Ld(High(x), A)

\* andsi3, iorsi3, xorsi3
logicsi3(op, x, y) ==
  Ld(BC, Low(y)) \o logichi3(op, Low(x), BC)
  \o Ld(BC, High(y)) \o logichi3(op, High(x), BC)

\* andqi3, iorqi3, xorqi3; v is the value of a constant.  Nothing is output
\* for a constant that changes nothing, A with itself for any other.
logicqi3(op, x, y, v) ==
  CASE y # Imm(1) -> Do(op, x, y)
    [] y = Imm(1) /\ v = (IF op = "and" THEN R - 1 ELSE 0) -> <<>>
    [] y = Imm(1) /\ v = 0 /\ op = "and" -> Ld(x, Zero(1))
    [] OTHER -> Do(op, x, x)

\* neghi2, one_cmplhi2 and their SImode forms: k - x, for k of 0 or -1
negatehi2(x, k) ==
  Ld(HL, k) \o ClearCarry \o Do("sbc", HL, x) \o Ld(x, HL)
negatesi2(x, k) ==
  Ld(BC, Low(x)) \o negatehi2(BC, k) \o Ld(Low(x), k)
  \o Do("sbc", Low(x), High(x)) \o Ld(High(x), Low(x)) \o Ld(Low(x), BC)

-----------------------------------------------------------------------------
(* The operands the constraints accept.  one and two are the places of     *)
(* operands 1 and 2 after reload, which may have exchanged them where the  *)
(* pattern says they commute (%): two then holds the first operand of the  *)
(* expression that was written.  Operands whose output has an instruction  *)
(* the Z80 lacks (lea, ld de,hl, ex hl,e) are left out.                    *)

Unary(rtx, tos, ones) ==
  {[rtx |-> rtx, to |-> t, one |-> o, two |-> <<>>, swapped |-> FALSE] :
     t \in tos, o \in ones}
Tied(rtx, tos, twos) ==
  {[rtx |-> rtx, to |-> t, one |-> t, two |-> w, swapped |-> FALSE] :
     t \in tos, w \in twos}
Commutes(S) == S \cup {[i EXCEPT !.swapped = TRUE] : i \in S}

LogicOps == {"and", "or", "xor"}

Moves == Unary("set", Longs \cup {Mem(4)}, Longs \cup {Mem2(4), Imm(4)})

Extensions ==
  Unary("zero_extend", Longs, Words \cup ByteRegs)
  \cup Unary("zero_extend", Words, {A})
  \cup Unary("sign_extend", Longs \cup Words, {A})
  \cup Unary("sign_extend", Longs, {BC})

Additions ==
  Commutes(Tied("plus", {HLDE}, {HLDE, Mem(4)})
           \cup Tied("plus", {HL}, {HL, DE, BC})
           \cup Tied("plus", {IX, IY}, {DE, BC})
           \cup Tied("plus", {A}, ByteRegs \cup {Mem(1)}))
  \cup Tied("plus", {HLDE}, {Imm(4)})
  \cup Tied("plus", Words, {One(2), Ones(2)})
  \cup Tied("plus", {IX, IY}, {Imm(2)})
  \cup {[rtx |-> "plus", to |-> t, one |-> o, two |-> w, swapped |-> FALSE] :
          t \in {HL, IX, IY}, o \in {DE, BC}, w \in {Mem(2), Imm(2)}}
  \cup Tied("plus", {A}, {Imm(1)})
  \cup Tied("plus", ByteRegs, {One(1), Ones(1)})

Subtractions ==
  Commutes(Tied("minus", {HL}, {HL, DE, BC})
           \cup Tied("minus", {A}, ByteRegs \cup {Mem(1)}))
  \cup Tied("minus", {A}, {Imm(1)})
  \cup Tied("minus", {HLDE}, {HLDE, Mem(4), Imm(4)})

Logic ==
  UNION {Commutes(Tied(op, {HLDE}, {HLDE, Mem(4)})
                  \cup Tied(op, Words, Words)
                  \cup Tied(op, {A}, ByteRegs \cup {Mem(1)}))
         \cup Tied(op, {HLDE}, {Imm(4)})
         \cup Tied(op, {A}, {Imm(1)}) : op \in LogicOps}

Negations ==
  UNION {Tied(rtx, {HLDE, DE, BC, A}, {<<>>}) : rtx \in {"neg", "not"}}

Accepted ==
  Moves \cup Extensions \cup Additions \cup Subtractions \cup Logic
  \cup Negations

ASSUME AluAssumption ==
  /\ R \in Nat \ {0} /\ R % 2 = 0
  /\ Bytes \subseteq 0..(R - 1)
  /\ Cases \subseteq Accepted
  /\ \A op \in LogicOps, a, b \in 0..(R - 1) :
       Bits(op, a, b) \in 0..(R - 1) /\ Bits(op, a, b) = Bits(op, b, a)
  /\ \A a \in 0..(R - 1) : Bits("or", a, a) = a

\* Sign extension of a byte leaves A shifted.
Destructive == {i \in Accepted : i.rtx = "sign_extend" /\ i.one = A}

\* A byte of an index register, where both halves are the high one; a word
\* extended from BC to BC and IY, whose split puts the sign in BC before it
\* reads the source (with an sbc that *subchi3 has for HL alone); a
\* difference whose operands were exchanged; the high half of a long one;
\* logic with a constant byte.
Wrong ==
  {i \in Accepted : /\ i.rtx \in LogicOps \cup {"zero_extend", "sign_extend"}
                    /\ \/ i.to \in {IX, IY}
                       \/ i.two \in {IX, IY}
                       \/ i.rtx = "sign_extend" /\ i.to = BCIY}
  \cup {i \in Accepted : i.rtx = "minus" /\ (i.swapped \/ i.to = HLDE)}
  \cup {i \in Accepted : i.rtx \in LogicOps /\ i.two = Imm(1)}

\* The instructions for insn i, with the value v of an immediate byte.
Output(i, v) ==
  LET x == i.to
      y == i.one
      z == i.two
  IN CASE i.rtx = "set" -> z80_split_move(x, y)
       [] i.rtx = "zero_extend" ->
            (CASE Len(x) = 2 -> zero_extendqihi2(x, y)
               [] Len(y) = 1 /\ Len(x) = 4 -> zero_extendqisi2(x, y)
               [] OTHER -> zero_extendhisi2(x, y))
       [] i.rtx = "sign_extend" ->
            (CASE Len(x) = 2 -> extendqihi2(x, y)
               [] Len(y) = 1 /\ Len(x) = 4 -> extendqisi2(x, y)
               [] OTHER -> extendhisi2(x, y))
       [] i.rtx = "plus" ->
            (CASE Len(x) = 4 -> addsi3(x, z)
               [] Len(x) = 2 -> addhi3(x, y, z)
               [] OTHER -> addqi3(x, z))
       [] i.rtx = "minus" ->
            (CASE Len(x) = 4 -> subsi3(x, z)
               [] Len(x) = 2 -> subhi3(x, z)
               [] OTHER -> Do("sub", x, z))
       [] i.rtx \in LogicOps ->
            (CASE Len(x) = 4 -> logicsi3(i.rtx, x, z)
               [] Len(x) = 2 -> logichi3(i.rtx, x, z)
               [] OTHER -> logicqi3(i.rtx, x, z, v))
       [] i.rtx \in {"neg", "not"} ->
            LET k == IF i.rtx = "neg" THEN Zero(2) ELSE Ones(2)
            IN (CASE Len(x) = 4 -> negatesi2(x, k)
                  [] Len(x) = 2 -> negatehi2(x, k)
                  [] OTHER -> Do(IF i.rtx = "neg" THEN "neg" ELSE "cpl", x, x))

\* The scratch registers of the pattern
Clobbers(i) ==
  CASE Len(i.to) = 4 /\ i.rtx \in LogicOps -> A \o BC
    [] Len(i.to) = 4 /\ i.rtx \in {"plus", "minus", "neg", "not"} -> BC
    [] i.rtx = "set" /\ {i.to, i.one} \cap Longs = {} -> BC
    [] Len(i.to) = 2 /\ i.rtx \in LogicOps -> A
    [] Len(i.to) = 2 /\ i.rtx \in {"neg", "not"} -> HL
    [] Len(i.to) = 4 /\ i.rtx = "sign_extend" /\ i.one = BC -> A
    [] OTHER -> <<>>

Inputs(i) == (Range(i.one) \cup Range(i.two)) \ DOMAIN Known

\* Any operand values and any carry; the other cells hold something else.
Init ==
  /\ insn \in Cases
  /\ \E in \in [Inputs(insn) -> Bytes] :
       start = [b \in Cells |-> CASE b \in DOMAIN Known -> Known[b]
                                  [] b \in DOMAIN in -> in[b]
                                  [] OTHER -> R \div 2]
  /\ carry \in 0..1
  /\ cell = start
  /\ code = Output(insn, start["i0"])

-----------------------------------------------------------------------------
(* The Z80                                                                 *)

Now == Head(code)
X == Val(cell, Now.x)
Y == Val(cell, Now.y)

\* The instruction stores v in its first operand and c in the carry flag.
Execute(v, c) ==
  /\ cell' = Put(cell, Now.x, v)
  /\ carry' = c
  /\ code' = Tail(code)
  /\ UNCHANGED <<insn, start>>

Is(ops) == code # <<>> /\ Now.op \in ops

Load == Is({"ld"}) /\ Execute(Y, carry)

Add ==
  /\ Is({"add", "adc"})
  /\ LET sum == X + Y + (IF Now.op = "adc" THEN carry ELSE 0)
     IN Execute(sum % Size(Now.x), sum \div Size(Now.x))

Subtract ==
  /\ Is({"sub", "sbc"})
  /\ LET diff == X - Y - (IF Now.op = "sbc" THEN carry ELSE 0)
     IN Execute(diff % Size(Now.x), IF diff < 0 THEN 1 ELSE 0)

Combine == Is(LogicOps) /\ Execute(Bits(Now.op, X, Y), 0)

Exchange ==
  /\ Is({"ex"})
  /\ cell' = Put(Put(cell, Now.x, Y), Now.y, X)
  /\ code' = Tail(code)
  /\ UNCHANGED <<insn, start, carry>>

Rotate ==
  /\ Is({"rl"})
  /\ Execute((2 * X + carry) % Size(Now.x), (2 * X) \div Size(Now.x))

Count ==
  /\ Is({"inc", "dec"})
  /\ Execute((IF Now.op = "inc" THEN X + 1 ELSE X - 1) % Size(Now.x), carry)

Negate == Is({"neg"}) /\ Execute((-X) % Size(Now.x), IF X = 0 THEN 0 ELSE 1)

Complement == Is({"cpl"}) /\ Execute(Size(Now.x) - 1 - X, carry)

Finished == code = <<>> /\ UNCHANGED vars

Next ==
  \/ Load \/ Add \/ Subtract \/ Combine \/ Exchange
  \/ Rotate \/ Count \/ Negate \/ Complement
  \/ Finished

Spec == Init /\ [][Next]_vars

-----------------------------------------------------------------------------
(***************************************************************************)
(* Types: the cells hold bytes, and every Z80 instruction output for a     *)
(* pattern has two operands of one width and a destination that is no      *)
(* constant (the parts z80_gen_lowpart and z80_gen_highpart make fit).     *)
(***************************************************************************)
TypeOK ==
  /\ cell \in [Cells -> 0..(R - 1)]
  /\ carry \in 0..1
  /\ \A k \in DOMAIN code :
       /\ Len(code[k].x) = Len(code[k].y)
       /\ Range(code[k].x) \cap Constants = {}

\* What the RTL expression of insn i means for operands with digits d and e.
Meaning(i, d, e) ==
  LET all == Size(i.to)
      half == Size(i.one)
      a == Num(d)
      b == Num(e)
  IN CASE i.rtx \in {"set", "zero_extend"} -> a
       [] i.rtx = "sign_extend" -> IF 2 * a < half THEN a ELSE a + all - half
       [] i.rtx = "plus" -> (a + b) % all
       [] i.rtx = "minus" -> (a - b) % all
       [] i.rtx = "neg" -> (-a) % all
       [] i.rtx = "not" -> all - 1 - a
       [] i.rtx \in LogicOps ->
            Num([k \in 1..Len(d) |-> Bits(i.rtx, d[k], e[k])])

(***************************************************************************)
(* When the instructions of a pattern have run, operand 0 holds the value  *)
(* of the pattern's expression for the operands as they were before: the   *)
(* carry reaches the high half through the loads and exchanges in between, *)
(* and no half is overwritten before its last use.                         *)
(***************************************************************************)
ResultCorrect ==
  code = <<>> =>
    LET d == Digits(start, insn.one)
        e == Digits(start, insn.two)
    IN Val(cell, insn.to) = IF insn.swapped THEN Meaning(insn, e, d)
                                            ELSE Meaning(insn, d, e)

(***************************************************************************)
(* The instructions of a pattern change operand 0 and the scratch          *)
(* registers it declares with clobber, and nothing else: the register      *)
(* allocator takes every other register, operands 1 and 2 included, to     *)
(* keep its value.                                                         *)
(***************************************************************************)
OthersKept ==
  code = <<>> =>
    \A b \in Cells \ Range(insn.to \o Clobbers(insn) \o Pushed) :
      cell[b] = start[b]
=============================================================================
