----------------------------- MODULE AluProofs -----------------------------
(***************************************************************************)
(* TLAPS proofs about Alu, for every byte size, every set of insns the     *)
(* constraints accept and every value of their operands.                   *)
(***************************************************************************)
EXTENDS Alu, SequenceTheorems, TLAPS

(***************************************************************************)
(* Operands: tuples of one, two or four cells, and their parts.            *)
(***************************************************************************)

\* The registers and the memory, which instructions may write.
Writable == Cells \ Constants
Machine == [Cells -> 0..(R - 1)]

\* Two pairs make a long.
LEMMA PairConcat ==
  ASSUME NEW a, NEW b, NEW e, NEW f
  PROVE  <<a, b>> \o <<e, f>> = <<a, b, e, f>>
  <1> DEFINE S == {a, b, e, f}
  <1>1. <<a, b>> \in Seq(S) /\ <<e, f>> \in Seq(S) /\ <<a, b, e, f>> \in Seq(S)
    OBVIOUS
  <1>2. /\ <<a, b>> \o <<e, f>> \in Seq(S)
        /\ Len(<<a, b>> \o <<e, f>>) = 4
        /\ \A i \in 1..4 : (<<a, b>> \o <<e, f>>)[i]
             = IF i <= 2 THEN <<a, b>>[i] ELSE <<e, f>>[i - 2]
    BY <1>1, ConcatProperties
  <1>3. \A i \in 1..4 : (<<a, b>> \o <<e, f>>)[i] = <<a, b, e, f>>[i]
    BY <1>2
  <1> HIDE DEF S
  <1> QED
    BY <1>1, <1>2, <1>3, SeqEqual

\* A part of a sequence of two or four, one or two long.
LEMMA SubSeqOne ==
  ASSUME NEW S, NEW s \in Seq(S), NEW n \in 1..Len(s)
  PROVE  SubSeq(s, n, n) = <<s[n]>>
  <1>1. Len(s) \in Nat /\ \A i \in 1..Len(s) : s[i] \in S
    BY LenProperties
  <1>2. n \in Int /\ \A i \in n..n : s[i] \in S
    BY <1>1
  <1>3. /\ SubSeq(s, n, n) \in Seq(S)
        /\ Len(SubSeq(s, n, n)) = 1
        /\ SubSeq(s, n, n)[1] = s[n]
    BY <1>2, SubSeqProperties
  <1>4. <<s[n]>> \in Seq(S) /\ Len(<<s[n]>>) = 1 /\ <<s[n]>>[1] = s[n]
    BY <1>1
  <1>5. \A i \in 1..1 : SubSeq(s, n, n)[i] = <<s[n]>>[i]
    BY <1>3, <1>4
  <1> QED
    BY <1>3, <1>4, <1>5, SeqEqual

\* Two elements of a sequence as a part of it.
LEMMA SubSeqTwo ==
  ASSUME NEW S, NEW s \in Seq(S), NEW n \in 1..Len(s), n + 1 \in 1..Len(s)
  PROVE  SubSeq(s, n, n + 1) = <<s[n], s[n + 1]>>
  <1>1. Len(s) \in Nat /\ \A i \in 1..Len(s) : s[i] \in S
    BY LenProperties
  <1>2. n \in Int /\ n + 1 \in Int /\ \A i \in n..(n + 1) : s[i] \in S
    BY <1>1
  <1>3. /\ SubSeq(s, n, n + 1) \in Seq(S)
        /\ Len(SubSeq(s, n, n + 1)) = 2
        /\ SubSeq(s, n, n + 1)[1] = s[n]
        /\ SubSeq(s, n, n + 1)[2] = s[n + 1]
    BY <1>2, SubSeqProperties
  <1>4. /\ <<s[n], s[n + 1]>> \in Seq(S)
        /\ Len(<<s[n], s[n + 1]>>) = 2
    BY <1>1
  <1>5. \A i \in 1..2 : SubSeq(s, n, n + 1)[i] = <<s[n], s[n + 1]>>[i]
    BY <1>3
  <1> QED
    BY <1>3, <1>4, <1>5, SeqEqual

\* Four cells are all of themselves.
LEMMA SubSeqFour ==
  ASSUME NEW a, NEW b, NEW e, NEW f
  PROVE  SubSeq(<<a, b, e, f>>, 1, 4) = <<a, b, e, f>>
  <1> DEFINE S == {a, b, e, f}
             s == <<a, b, e, f>>
  <1>1. s \in Seq(S) /\ Len(s) = 4 /\ \A i \in 1..4 : s[i] \in S
    OBVIOUS
  <1> HIDE DEF s, S
  <1>2. /\ SubSeq(s, 1, 4) \in Seq(S)
        /\ Len(SubSeq(s, 1, 4)) = 4
        /\ \A i \in 1..4 : SubSeq(s, 1, 4)[i] = s[i]
    BY <1>1, SubSeqProperties
  <1>3. SubSeq(s, 1, 4) = s
    BY <1>1, <1>2, SeqEqual
  <1> QED
    BY <1>3 DEF s

\* The halves of a long are its pairs.
LEMMA LongParts ==
  ASSUME NEW a, NEW b, NEW e, NEW f
  PROVE  /\ Low(<<a, b, e, f>>) = <<a, b>>
         /\ High(<<a, b, e, f>>) = <<e, f>>
  <1> DEFINE S == {a, b, e, f}
             s == <<a, b, e, f>>
  <1>1. s \in Seq(S) /\ Len(s) = 4
    OBVIOUS
  <1>2. s[1] = a /\ s[2] = b /\ s[3] = e /\ s[4] = f
    OBVIOUS
  <1>3. s \notin {IX, IY}
    BY DEF IX, IY
  <1> HIDE DEF s, S
  <1>4. SubSeq(s, 1, 1 + 1) = <<s[1], s[1 + 1]>>
    BY <1>1, SubSeqTwo
  <1>5. SubSeq(s, 3, 3 + 1) = <<s[3], s[3 + 1]>>
    BY <1>1, SubSeqTwo
  <1>6. Low(s) = <<a, b>> /\ High(s) = <<e, f>>
    BY <1>1, <1>2, <1>3, <1>4, <1>5 DEF Low, High
  <1> QED
    BY <1>6 DEF s

\* The halves of a pair are its bytes, but for an index register, whose low
\* part is the high one.
LEMMA WordParts ==
  ASSUME NEW a, NEW b
  PROVE  /\ Low(<<a, b>>) = IF <<a, b>> \in {IX, IY} THEN <<b>> ELSE <<a>>
         /\ High(<<a, b>>) = <<b>>
  <1> DEFINE S == {a, b}
             s == <<a, b>>
  <1>1. s \in Seq(S) /\ Len(s) = 2
    OBVIOUS
  <1>2. s[1] = a /\ s[2] = b
    OBVIOUS
  <1> HIDE DEF s, S
  <1>3. SubSeq(s, 1, 1) = <<s[1]>> /\ SubSeq(s, 2, 2) = <<s[2]>>
    BY <1>1, SubSeqOne
  <1>4. Len(s) \div 2 = 1 /\ Len(s) \div 2 + 1 = 2
    BY <1>1
  <1>5. High(s) = <<b>>
    BY <1>1, <1>2, <1>3, <1>4 DEF High
  <1>6. Low(s) = IF s \in {IX, IY} THEN <<b>> ELSE <<a>>
    BY <1>2, <1>3, <1>4 DEF Low
  <1> QED
    BY <1>5, <1>6 DEF s

\* The operands that are not registers, spelled out.
LEMMA Operands ==
  /\ HLDE = <<"L", "H", "E", "D">>
  /\ BCIY = <<"C", "B", "IYL", "IYH">>
  /\ Mem(4) = <<"m0", "m1", "m2", "m3">>
  /\ Mem2(4) = <<"n0", "n1", "n2", "n3">>
  /\ Imm(4) = <<"i0", "i1", "i2", "i3">>
  /\ Mem(2) = <<"m0", "m1">> /\ Mem(1) = <<"m0">>
  /\ Imm(2) = <<"i0", "i1">> /\ Imm(1) = <<"i0">>
  <1>1. HLDE = <<"L", "H", "E", "D">> /\ BCIY = <<"C", "B", "IYL", "IYH">>
    BY PairConcat DEF HLDE, BCIY, HL, DE, BC, IY
  <1>2. /\ Mem(4) = <<"m0", "m1", "m2", "m3">>
        /\ Mem2(4) = <<"n0", "n1", "n2", "n3">>
        /\ Imm(4) = <<"i0", "i1", "i2", "i3">>
    BY SubSeqFour DEF Mem, Mem2, Imm
  <1>3. ASSUME NEW a, NEW b, NEW e, NEW f
        PROVE  /\ SubSeq(<<a, b, e, f>>, 1, 1) = <<a>>
               /\ SubSeq(<<a, b, e, f>>, 1, 2) = <<a, b>>
    <2> DEFINE S == {a, b, e, f}
               s == <<a, b, e, f>>
    <2>1. s \in Seq(S) /\ Len(s) = 4 /\ s[1] = a /\ s[2] = b
      OBVIOUS
    <2> HIDE DEF s, S
    <2>2. /\ SubSeq(s, 1, 1) = <<s[1]>>
          /\ SubSeq(s, 1, 1 + 1) = <<s[1], s[1 + 1]>>
      BY <2>1, SubSeqOne, SubSeqTwo
    <2>3. SubSeq(s, 1, 1) = <<a>> /\ SubSeq(s, 1, 2) = <<a, b>>
      BY <2>1, <2>2
    <2> QED
      BY <2>3 DEF s
  <1> QED
    BY <1>1, <1>2, <1>3 DEF Mem, Imm

\* The constants of one or two bytes.
LEMMA ConstantOperands ==
  /\ Zero(1) = <<"zero">> /\ Zero(2) = <<"zero", "zero">>
  /\ One(1) = <<"one">> /\ One(2) = <<"one", "zero">>
  /\ Ones(1) = <<"ones">> /\ Ones(2) = <<"ones", "ones">>
  BY DEF Zero, One, Ones

\* The cells that instructions may write, and the constants.
LEMMA CellNames ==
  /\ Writable = {"A", "L", "H", "E", "D", "C", "B", "IXL", "IXH", "IYL",
                 "IYH", "m0", "m1", "m2", "m3", "n0", "n1", "n2", "n3",
                 "s0", "s1"}
  /\ Constants = {"i0", "i1", "i2", "i3", "zero", "one", "ones"}
  /\ Cells = Writable \cup Constants
  <1>1. Constants = {"i0", "i1", "i2", "i3", "zero", "one", "ones"}
    <2>1. Range(Imm(4)) = {"i0", "i1", "i2", "i3"}
      BY Operands DEF Range
    <2>2. DOMAIN Known = {"zero", "one", "ones"}
      BY DEF Known
    <2> QED
      BY <2>1, <2>2 DEF Constants
  <1>2. /\ Range(A) = {"A"} /\ Range(IX) = {"IXL", "IXH"}
        /\ Range(Pushed) = {"s0", "s1"}
    BY DEF A, IX, Pushed, Range
  <1>3. /\ Range(Mem(4)) = {"m0", "m1", "m2", "m3"}
        /\ Range(Mem2(4)) = {"n0", "n1", "n2", "n3"}
        /\ Range(HLDE) = {"L", "H", "E", "D"}
        /\ Range(BCIY) = {"C", "B", "IYL", "IYH"}
    BY Operands DEF Range
  <1>4. (UNION {Range(x) : x \in Places})
          = Range(A) \cup Range(IX) \cup Range(Mem(4)) \cup Range(Mem2(4))
            \cup Range(Pushed) \cup Range(HLDE) \cup Range(BCIY)
    BY DEF Places, Longs
  <1> QED
    BY <1>1, <1>2, <1>3, <1>4 DEF Cells, Writable

\* The number in one, two or four cells.
LEMMA Values ==
  ASSUME NEW c
  PROVE  /\ \A a : Val(c, <<a>>) = c[a] /\ Size(<<a>>) = R
         /\ \A a, b : /\ Val(c, <<a, b>>) = c[a] + R * c[b]
                      /\ Size(<<a, b>>) = R * R
         /\ \A a, b, e, f :
              /\ Val(c, <<a, b, e, f>>)
                   = (c[a] + R * c[b]) + (R * R) * (c[e] + R * c[f])
              /\ Size(<<a, b, e, f>>) = (R * R) * (R * R)
  <1>1. ASSUME NEW a
        PROVE  Val(c, <<a>>) = c[a] /\ Size(<<a>>) = R
    <2>1. Digits(c, <<a>>) = <<c[a]>>
      BY DEF Digits
    <2> QED
      BY <2>1 DEF Val, Num, Size
  <1>2. ASSUME NEW a, NEW b
        PROVE  /\ Val(c, <<a, b>>) = c[a] + R * c[b]
               /\ Size(<<a, b>>) = R * R
    <2>1. Digits(c, <<a, b>>) = <<c[a], c[b]>>
      BY DEF Digits
    <2> QED
      BY <2>1 DEF Val, Num, Size
  <1>3. ASSUME NEW a, NEW b, NEW e, NEW f
        PROVE  /\ Val(c, <<a, b, e, f>>)
                    = (c[a] + R * c[b]) + (R * R) * (c[e] + R * c[f])
               /\ Size(<<a, b, e, f>>) = (R * R) * (R * R)
    <2>1. Digits(c, <<a, b, e, f>>) = <<c[a], c[b], c[e], c[f]>>
      BY DEF Digits
    <2> QED
      BY <2>1 DEF Val, Num, Size
  <1> QED
    BY <1>1, <1>2, <1>3

(***************************************************************************)
(* Arithmetic modulo a size.                                               *)
(***************************************************************************)

\* Quotient and remainder.
LEMMA DivMod ==
  ASSUME NEW M \in Nat \ {0}, NEW v \in Int
  PROVE  /\ v % M \in 0..(M - 1) /\ v \div M \in Int
         /\ v = M * (v \div M) + (v % M)
  OBVIOUS

\* Different multiples of M are at least M apart.
LEMMA MultiplesApart ==
  ASSUME NEW M \in Nat \ {0}, NEW p \in Int, NEW q \in Int, p + 1 <= q
  PROVE  M * p + M <= M * q
  <1>1. M * (q - p - 1) >= 0
    OBVIOUS
  <1>2. M * (q - p - 1) = M * q - M * p - M
    OBVIOUS
  <1> QED
    BY <1>1, <1>2

\* The quotient and the remainder are the only ones.
LEMMA DivModUnique ==
  ASSUME NEW M \in Nat \ {0}, NEW v \in Int, NEW q \in Int,
         NEW r \in 0..(M - 1), v = M * q + r
  PROVE  v % M = r /\ v \div M = q
  <1>1. PICK p \in Int, s \in 0..(M - 1) :
          p = v \div M /\ s = v % M /\ v = M * p + s
    BY DivMod
  <1>2. ~(p + 1 <= q)
    <2> SUFFICES ASSUME p + 1 <= q PROVE FALSE
      OBVIOUS
    <2>1. M * p + M <= M * q
      BY MultiplesApart
    <2> QED
      BY <1>1, <2>1
  <1>3. ~(q + 1 <= p)
    <2> SUFFICES ASSUME q + 1 <= p PROVE FALSE
      OBVIOUS
    <2>1. M * q + M <= M * p
      BY MultiplesApart
    <2> QED
      BY <1>1, <2>1
  <1>4. p = q
    BY <1>2, <1>3
  <1> QED
    BY <1>1, <1>4

\* The digits of a number below a square.
LEMMA SplitWord ==
  ASSUME NEW M \in Nat \ {0}, NEW v \in 0..(M * M - 1)
  PROVE  /\ v % M \in 0..(M - 1) /\ v \div M \in 0..(M - 1)
         /\ v = (v % M) + M * (v \div M)
  <1>1. PICK p \in Int, s \in 0..(M - 1) :
          p = v \div M /\ s = v % M /\ v = M * p + s
    BY DivMod
  <1>2. v \in Int /\ M * M \in Int /\ 0 <= v /\ v < M * M
    OBVIOUS
  <1>3. ~(p + 1 <= 0)
    <2> SUFFICES ASSUME p + 1 <= 0 PROVE FALSE
      OBVIOUS
    <2>1. M * p + M <= M * 0
      BY MultiplesApart
    <2> QED
      BY <1>1, <1>2, <2>1
  <1>4. ~(M <= p)
    <2> SUFFICES ASSUME M <= p PROVE FALSE
      OBVIOUS
    <2>1. M - 1 \in Int /\ (M - 1) + 1 <= p
      OBVIOUS
    <2>2. M * (M - 1) + M <= M * p
      BY <2>1, MultiplesApart
    <2>3. M * (M - 1) + M = M * M
      OBVIOUS
    <2> QED
      BY <1>1, <1>2, <2>2, <2>3
  <1> QED
    BY <1>1, <1>3, <1>4

\* Two digits make a number of two digits, which splits into them.
LEMMA JoinWord ==
  ASSUME NEW M \in Nat \ {0}, NEW u \in 0..(M - 1), NEW w \in 0..(M - 1)
  PROVE  /\ u + M * w \in 0..(M * M - 1)
         /\ (u + M * w) % M = u /\ (u + M * w) \div M = w
  <1>1. M * w + M <= M * M
    BY MultiplesApart
  <1>2. M * w >= 0 /\ M * w \in Int /\ M * M \in Int
    OBVIOUS
  <1>3. u + M * w \in Int /\ u + M * w = M * w + u
    BY <1>2
  <1>4. (u + M * w) % M = u /\ (u + M * w) \div M = w
    BY <1>3, DivModUnique
  <1> QED
    BY <1>1, <1>2, <1>4

\* A sum of two numbers and a carry, and a difference, fit with one bit more.
LEMMA SumFits ==
  ASSUME NEW M \in Nat \ {0}, NEW x \in 0..(M - 1), NEW y \in 0..(M - 1),
         NEW k \in 0..1
  PROVE  /\ (x + y + k) % M \in 0..(M - 1)
         /\ (x + y + k) \div M \in 0..1
         /\ x + y + k = ((x + y + k) % M) + M * ((x + y + k) \div M)
  <1> DEFINE v == x + y + k
  <1>1. v \in Int /\ 0 <= v /\ v < 2 * M
    OBVIOUS
  <1> HIDE DEF v
  <1>2. CASE v < M
    <2>1. v \in 0..(M - 1) /\ v = M * 0 + v
      BY <1>1, <1>2
    <2>2. v % M = v /\ v \div M = 0
      BY <1>1, <2>1, DivModUnique
    <2> QED
      BY <2>1, <2>2 DEF v
  <1>3. CASE v >= M
    <2>1. v - M \in 0..(M - 1) /\ v = M * 1 + (v - M)
      BY <1>1, <1>3
    <2>2. v % M = v - M /\ v \div M = 1
      BY <1>1, <2>1, DivModUnique
    <2> QED
      BY <2>1, <2>2 DEF v
  <1> QED
    BY <1>1, <1>2, <1>3

\* A sum without carry has a digit and a carry.
LEMMA SumFitsPlain ==
  ASSUME NEW M \in Nat \ {0}, NEW x \in 0..(M - 1), NEW y \in 0..(M - 1)
  PROVE  (x + y) % M \in 0..(M - 1) /\ (x + y) \div M \in 0..1
  <1>1. x + y + 0 = x + y /\ 0 \in 0..1
    OBVIOUS
  <1>2. (x + y + 0) % M \in 0..(M - 1) /\ (x + y + 0) \div M \in 0..1
    BY <1>1, SumFits
  <1> QED
    BY <1>1, <1>2

\* A number doubled, with a bit shifted in.
LEMMA DoubleFits ==
  ASSUME NEW M \in Nat \ {0}, NEW x \in 0..(M - 1), NEW k \in 0..1
  PROVE  /\ (2 * x + k) % M \in 0..(M - 1)
         /\ (2 * x) \div M \in 0..1
         /\ (2 * x) \div M = IF 2 * x < M THEN 0 ELSE 1
  <1>1. 2 * x + k \in Int /\ 2 * x \in Int
    OBVIOUS
  <1>2. (2 * x + k) % M \in 0..(M - 1)
    BY <1>1, DivMod
  <1>3. CASE 2 * x < M
    <2>1. 2 * x \in 0..(M - 1) /\ 2 * x = M * 0 + 2 * x
      BY <1>3
    <2>2. (2 * x) \div M = 0
      BY <1>1, <2>1, DivModUnique
    <2> QED
      BY <1>2, <1>3, <2>2
  <1>4. CASE ~(2 * x < M)
    <2>1. 2 * x - M \in 0..(M - 1) /\ 2 * x = M * 1 + (2 * x - M)
      BY <1>4
    <2>2. (2 * x) \div M = 1
      BY <1>1, <2>1, DivModUnique
    <2> QED
      BY <1>2, <1>4, <2>2
  <1> QED
    BY <1>3, <1>4

\* A difference wraps around by M exactly when it borrows.
LEMMA DifferenceFits ==
  ASSUME NEW M \in Nat \ {0}, NEW x \in 0..(M - 1), NEW y \in 0..(M - 1),
         NEW k \in 0..1
  PROVE  /\ (x - y - k) % M \in 0..(M - 1)
         /\ (x - y - k) % M
              = (x - y - k) + M * (IF x - y - k < 0 THEN 1 ELSE 0)
  <1> DEFINE v == x - y - k
  <1>1. v \in Int /\ -M <= v /\ v < M
    OBVIOUS
  <1> HIDE DEF v
  <1>2. CASE v < 0
    <2>1. v + M \in 0..(M - 1) /\ v = M * (-1) + (v + M)
      BY <1>1, <1>2
    <2>2. v % M = v + M
      BY <1>1, <2>1, DivModUnique
    <2> QED
      BY <1>1, <1>2, <2>1, <2>2 DEF v
  <1>3. CASE v >= 0
    <2>1. v \in 0..(M - 1) /\ v = M * 0 + v
      BY <1>1, <1>3
    <2>2. v % M = v
      BY <1>1, <2>1, DivModUnique
    <2> QED
      BY <1>1, <1>3, <2>1, <2>2 DEF v
  <1> QED
    BY <1>1, <1>2, <1>3

\* and, or and xor of bytes.
LEMMA BitsByte ==
  ASSUME NEW op \in LogicOps, NEW x \in 0..(R - 1), NEW y \in 0..(R - 1)
  PROVE  /\ Bits(op, x, y) \in 0..(R - 1)
         /\ Bits(op, x, y) = Bits(op, y, x)
         /\ Bits("or", x, x) = x
  BY AluAssumption

(***************************************************************************)
(* One instruction.                                                        *)
(***************************************************************************)

Ops == {"ld", "add", "adc", "sub", "sbc", "and", "or", "xor", "ex", "rl",
        "inc", "dec", "neg", "cpl"}

\* The instructions on bytes and on words.
Insns ==
  [op : Ops, x : {<<a>> : a \in Writable}, y : {<<p>> : p \in Cells}]
  \cup [op : Ops \ LogicOps,
        x : {w \in Writable \X Writable : w[1] # w[2]}, y : Cells \X Cells]

\* Instruction n takes cells c and carry k to cells d and carry j.
Stepped(n, c, k, d, j) ==
  LET x == Val(c, n.x)
      y == Val(c, n.y)
      sum == x + y + (IF n.op = "adc" THEN k ELSE 0)
      diff == x - y - (IF n.op = "sbc" THEN k ELSE 0)
      To(v) == d = Put(c, n.x, v)
  IN \/ n.op = "ld" /\ To(y) /\ j = k
     \/ /\ n.op \in {"add", "adc"}
        /\ To(sum % Size(n.x)) /\ j = sum \div Size(n.x)
     \/ /\ n.op \in {"sub", "sbc"}
        /\ To(diff % Size(n.x)) /\ j = (IF diff < 0 THEN 1 ELSE 0)
     \/ n.op \in LogicOps /\ To(Bits(n.op, x, y)) /\ j = 0
     \/ n.op = "ex" /\ d = Put(Put(c, n.x, y), n.y, x) /\ j = k
     \/ /\ n.op = "rl"
        /\ To((2 * x + k) % Size(n.x)) /\ j = (2 * x) \div Size(n.x)
     \/ /\ n.op \in {"inc", "dec"}
        /\ To((IF n.op = "inc" THEN x + 1 ELSE x - 1) % Size(n.x))
        /\ j = k
     \/ /\ n.op = "neg"
        /\ To((-x) % Size(n.x)) /\ j = (IF x = 0 THEN 0 ELSE 1)
     \/ n.op = "cpl" /\ To(Size(n.x) - 1 - x) /\ j = k

\* What a step of the specification does, unless the code is at its end.
LEMMA StepIsStepped ==
  ASSUME Next, code # <<>>
  PROVE  /\ Stepped(Head(code), cell, carry, cell', carry')
         /\ code' = Tail(code)
         /\ UNCHANGED <<insn, start>>
  <1>1. CASE Load
    BY <1>1 DEF Load, Is, Execute, Now, Y, Stepped
  <1>2. CASE Add
    BY <1>2 DEF Add, Is, Execute, Now, X, Y, Stepped
  <1>3. CASE Subtract
    BY <1>3 DEF Subtract, Is, Execute, Now, X, Y, Stepped
  <1>4. CASE Combine
    BY <1>4 DEF Combine, Is, Execute, Now, X, Y, Stepped
  <1>5. CASE Exchange
    BY <1>5 DEF Exchange, Is, Now, X, Y, Stepped
  <1>6. CASE Rotate
    BY <1>6 DEF Rotate, Is, Execute, Now, X, Stepped
  <1>7. CASE Count
    BY <1>7 DEF Count, Is, Execute, Now, X, Stepped
  <1>8. CASE Negate
    BY <1>8 DEF Negate, Is, Execute, Now, X, Stepped
  <1>9. CASE Complement
    BY <1>9 DEF Complement, Is, Execute, Now, X, Stepped
  <1>10. CASE Finished
    BY <1>10 DEF Finished
  <1> QED
    BY <1>1, <1>2, <1>3, <1>4, <1>5, <1>6, <1>7, <1>8, <1>9, <1>10 DEF Next

\* Cells c and d differ in S at most; a becomes u; a and b become u and w.
Only(c, d, S) == d \in Machine /\ \A z \in Cells \ S : d[z] = c[z]
Sets1(c, d, a, u) == Only(c, d, {a}) /\ d[a] = u
Sets2(c, d, a, b, u, w) == Only(c, d, {a, b}) /\ d[a] = u /\ d[b] = w

\* The number in two cells, and how many there are.
Pair(c, a, b) == c[a] + R * c[b]
N == R * R
SetsWord(c, d, a, b, v) == Only(c, d, {a, b}) /\ Pair(d, a, b) = v

\* A pair becomes its sum with another and a bit m, carry j, or its
\* difference, borrow j; two pairs are exchanged.
Sums(c, d, a, b, p, q, m, j) ==
  /\ Only(c, d, {a, b})
  /\ Pair(c, a, b) + Pair(c, p, q) + m = Pair(d, a, b) + N * j
Differs(c, d, a, b, p, q, m, j) ==
  /\ Only(c, d, {a, b})
  /\ Pair(d, a, b) = Pair(c, a, b) - Pair(c, p, q) - m + N * j
Swaps(c, d, a, b, p, q) ==
  /\ Only(c, d, {a, b, p, q})
  /\ d[a] = c[p] /\ d[b] = c[q] /\ d[p] = c[a] /\ d[q] = c[b]

\* A byte is a natural number, the cells hold bytes, the size is positive.
LEMMA Sizes ==
  /\ R \in Nat \ {0} /\ R * R \in Nat \ {0}
  /\ (R * R) * (R * R) \in Nat \ {0}
  /\ Writable \subseteq Cells
  /\ \A c \in Machine, z \in Cells : c[z] \in 0..(R - 1)
  <1>1. R \in Nat \ {0}
    BY AluAssumption
  <1>2. \A M \in Nat \ {0} : M * M \in Nat \ {0}
    OBVIOUS
  <1> QED
    BY <1>1, <1>2 DEF Writable, Machine

\* A byte is stored in its cell.
LEMMA PutByte ==
  ASSUME NEW c \in Machine, NEW a \in Cells, NEW v \in 0..(R - 1)
  PROVE  Sets1(c, Put(c, <<a>>, v), a, v)
  <1>1. v % R = v
    <2>1. v \in Int /\ 0 \in Int /\ v = R * 0 + v
      BY Sizes
    <2> QED
      BY <2>1, Sizes, DivModUnique
  <1>2. Put(c, <<a>>, v) = [b \in Cells |-> IF b = a THEN v ELSE c[b]]
    BY <1>1 DEF Put
  <1> QED
    BY <1>2, Sizes DEF Sets1, Only, Machine

\* A word is stored in its two cells, the low byte first.
LEMMA PutWord ==
  ASSUME NEW c \in Machine, NEW a \in Cells, NEW b \in Cells, a # b,
         NEW v \in 0..(R * R - 1)
  PROVE  /\ Sets2(c, Put(c, <<a, b>>, v), a, b, v % R, v \div R)
         /\ v % R \in 0..(R - 1) /\ v \div R \in 0..(R - 1)
         /\ v = (v % R) + R * (v \div R)
  <1>1. /\ v % R \in 0..(R - 1) /\ v \div R \in 0..(R - 1)
        /\ v = (v % R) + R * (v \div R)
    BY Sizes, SplitWord
  <1>2. Put(c, <<a, b>>, v)
          = [z \in Cells |-> IF z = a THEN v % R
                             ELSE IF z = b THEN v \div R ELSE c[z]]
    BY DEF Put
  <1> QED
    BY <1>1, <1>2, Sizes DEF Sets2, Only, Machine

\* The number in one cell, and the one in two.
LEMMA WordRange ==
  ASSUME NEW c \in Machine, NEW a \in Cells, NEW b \in Cells
  PROVE  /\ c[a] \in 0..(R - 1) /\ c[b] \in 0..(R - 1)
         /\ c[a] + R * c[b] \in 0..(R * R - 1)
         /\ (c[a] + R * c[b]) % R = c[a] /\ (c[a] + R * c[b]) \div R = c[b]
  <1>1. c[a] \in 0..(R - 1) /\ c[b] \in 0..(R - 1) /\ R \in Nat \ {0}
    BY Sizes
  <1> QED
    BY <1>1, JoinWord

(***************************************************************************)
(* Sequences of instructions.                                              *)
(***************************************************************************)

Code == Seq(Insns)

\* The instructions p take cells c and carry k to cells d and carry j.
Runs(p, c, k, d, j) ==
  \E t : /\ t[0] = <<c, k>> /\ t[Len(p)] = <<d, j>>
         /\ \A n \in 1..Len(p) :
              Stepped(p[n], t[n - 1][1], t[n - 1][2], t[n][1], t[n][2])

\* No instructions change nothing.
LEMMA RunsEmpty ==
  ASSUME NEW c, NEW k
  PROVE  /\ Runs(<<>>, c, k, c, k)
         /\ \A d, j : Runs(<<>>, c, k, d, j) => d = c /\ j = k
  <1>1. Runs(<<>>, c, k, c, k)
    <2> DEFINE t == [n \in {0} |-> <<c, k>>]
    <2>1. t[0] = <<c, k>> /\ Len(<<>>) = 0
      OBVIOUS
    <2> HIDE DEF t
    <2> QED
      BY <2>1 DEF Runs
  <1> QED
    BY <1>1 DEF Runs

\* One instruction is one step.
LEMMA RunsOne ==
  ASSUME NEW n, NEW c, NEW k, NEW d, NEW j, Runs(<<n>>, c, k, d, j)
  PROVE  Stepped(n, c, k, d, j)
  <1>1. PICK t : /\ t[0] = <<c, k>> /\ t[Len(<<n>>)] = <<d, j>>
                 /\ \A m \in 1..Len(<<n>>) :
                      Stepped(<<n>>[m], t[m - 1][1], t[m - 1][2],
                              t[m][1], t[m][2])
    BY DEF Runs
  <1>2. Len(<<n>>) = 1 /\ <<n>>[1] = n /\ 1 \in 1..Len(<<n>>) /\ 1 - 1 = 0
    OBVIOUS
  <1>3. Stepped(n, t[0][1], t[0][2], t[1][1], t[1][2])
    BY <1>1, <1>2
  <1>4. t[1] = <<d, j>>
    BY <1>1, <1>2
  <1>5. t[0][1] = c /\ t[0][2] = k /\ t[1][1] = d /\ t[1][2] = j
    BY <1>1, <1>4
  <1> QED
    BY <1>3, <1>5

\* A first instruction before a run.
LEMMA RunsFirst ==
  ASSUME NEW S, NEW p \in Seq(S), p # <<>>, NEW c, NEW k, NEW e, NEW i,
         NEW d, NEW j,
         Stepped(Head(p), c, k, e, i), Runs(Tail(p), e, i, d, j)
  PROVE  Runs(p, c, k, d, j)
  <1>1. /\ Len(p) \in Nat \ {0} /\ Head(p) = p[1]
        /\ Len(Tail(p)) = Len(p) - 1
        /\ \A m \in 1..(Len(p) - 1) : Tail(p)[m] = p[m + 1]
    BY EmptySeq, HeadTailProperties
  <1>2. PICK u : /\ u[0] = <<e, i>> /\ u[Len(Tail(p))] = <<d, j>>
                 /\ \A m \in 1..Len(Tail(p)) :
                      Stepped(Tail(p)[m], u[m - 1][1], u[m - 1][2],
                              u[m][1], u[m][2])
    BY DEF Runs
  <1>3. PICK t : t = [m \in 0..Len(p) |->
                        IF m = 0 THEN <<c, k>> ELSE u[m - 1]]
    OBVIOUS
  <1>4. t[0] = <<c, k>> /\ \A m \in 1..Len(p) : t[m] = u[m - 1]
    BY <1>1, <1>3
  <1>5. t[Len(p)] = <<d, j>> /\ t[1] = <<e, i>>
    BY <1>1, <1>2, <1>4
  <1>6. ASSUME NEW m \in 1..Len(p)
        PROVE  Stepped(p[m], t[m - 1][1], t[m - 1][2], t[m][1], t[m][2])
    <2>1. CASE m = 1
      <3>1. /\ t[m - 1][1] = c /\ t[m - 1][2] = k
            /\ t[m][1] = e /\ t[m][2] = i
        BY <1>4, <1>5, <2>1
      <3> QED
        BY <1>1, <2>1, <3>1
    <2>2. CASE m # 1
      <3>1. m - 1 \in 1..Len(Tail(p)) /\ (m - 1) + 1 = m
        BY <1>1, <2>2
      <3>2. Tail(p)[m - 1] = p[m]
        BY <1>1, <3>1
      <3>3. t[m] = u[m - 1] /\ t[m - 1] = u[(m - 1) - 1]
        BY <1>1, <1>4, <2>2
      <3> QED
        BY <1>2, <3>1, <3>2, <3>3
    <2> QED
      BY <2>1, <2>2
  <1> QED
    BY <1>4, <1>5, <1>6 DEF Runs

\* A run of two parts has a state between them.
LEMMA RunsConcat ==
  ASSUME NEW S, NEW p \in Seq(S), NEW q \in Seq(S), NEW c, NEW k, NEW d,
         NEW j, Runs(p \o q, c, k, d, j)
  PROVE  \E e, i : Runs(p, c, k, e, i) /\ Runs(q, e, i, d, j)
  <1>1. /\ Len(p) \in Nat /\ Len(q) \in Nat
        /\ Len(p \o q) = Len(p) + Len(q)
        /\ \A m \in 1..(Len(p) + Len(q)) :
             (p \o q)[m] = IF m <= Len(p) THEN p[m] ELSE q[m - Len(p)]
    BY ConcatProperties, LenProperties
  <1>2. PICK t : /\ t[0] = <<c, k>> /\ t[Len(p \o q)] = <<d, j>>
                 /\ \A m \in 1..Len(p \o q) :
                      Stepped((p \o q)[m], t[m - 1][1], t[m - 1][2],
                              t[m][1], t[m][2])
    BY DEF Runs
  <1>3. PICK n \in Nat : n = Len(p)
    BY <1>1
  <1>4. PICK l \in Nat : l = Len(q)
    BY <1>1
  <1>5. PICK u : u = [m \in 0..l |-> IF m = 0 THEN <<t[n][1], t[n][2]>>
                                     ELSE t[n + m]]
    OBVIOUS
  <1>6. ASSUME NEW m \in 1..n
        PROVE  Stepped(p[m], t[m - 1][1], t[m - 1][2], t[m][1], t[m][2])
    BY <1>1, <1>2, <1>3, <1>4
  <1>7. ASSUME NEW m \in 1..l
        PROVE  Stepped(q[m], u[m - 1][1], u[m - 1][2], u[m][1], u[m][2])
    <2>1. n + m \in 1..(n + l) /\ ~(n + m <= n) /\ (n + m) - n = m
      OBVIOUS
    <2>2. (p \o q)[n + m] = q[m]
      BY <1>1, <1>3, <1>4, <2>1
    <2>3. Stepped(q[m], t[n + m - 1][1], t[n + m - 1][2],
                  t[n + m][1], t[n + m][2])
      BY <1>1, <1>2, <1>3, <1>4, <2>1, <2>2
    <2>4. u[m] = t[n + m]
      BY <1>5
    <2>5. CASE m = 1
      <3>1. u[m - 1] = <<t[n][1], t[n][2]>> /\ n + m - 1 = n
        BY <1>5, <2>5
      <3> QED
        BY <2>3, <2>4, <3>1
    <2>6. CASE m # 1
      <3>1. u[m - 1] = t[n + m - 1]
        BY <1>5, <2>6
      <3> QED
        BY <2>3, <2>4, <3>1
    <2> QED
      BY <2>5, <2>6
  <1>8. PICK e, i : e = t[n][1] /\ i = t[n][2]
    OBVIOUS
  <1>9. Runs(q, e, i, d, j)
    <2>1. u[0] = <<e, i>>
      BY <1>5, <1>8
    <2>2. CASE l = 0
      <3>1. t[n] = <<d, j>>
        BY <1>1, <1>2, <1>3, <1>4, <2>2
      <3>2. u[l] = <<d, j>>
        BY <1>8, <2>1, <2>2, <3>1
      <3> QED
        BY <1>4, <1>7, <2>1, <3>2 DEF Runs
    <2>3. CASE l # 0
      <3>1. u[l] = <<d, j>>
        BY <1>1, <1>2, <1>3, <1>4, <1>5, <2>3
      <3> QED
        BY <1>4, <1>7, <2>1, <3>1 DEF Runs
    <2> QED
      BY <2>2, <2>3
  <1>10. Runs(p, c, k, e, i)
    <2>1. PICK w : w = [m \in 0..n |-> IF m = 0 THEN <<c, k>>
                                       ELSE IF m = n THEN <<e, i>> ELSE t[m]]
      OBVIOUS
    <2>2. w[0] = <<c, k>>
      BY <2>1
    <2>3. w[n] = <<e, i>>
      BY <1>2, <1>8, <2>1
    <2>4. \A m \in 0..n : w[m][1] = t[m][1] /\ w[m][2] = t[m][2]
      BY <1>2, <1>8, <2>1
    <2>5. ASSUME NEW m \in 1..n
          PROVE  Stepped(p[m], w[m - 1][1], w[m - 1][2], w[m][1], w[m][2])
      BY <1>6, <2>4
    <2> QED
      BY <1>3, <2>2, <2>3, <2>5 DEF Runs
  <1> QED
    BY <1>9, <1>10

\* The code p takes cells c and carry k to cells d and carry j and nowhere
\* else.
Makes(p, c, k, d, j) ==
  /\ p \in Code
  /\ d \in Machine /\ j \in 0..1
  /\ \A e, i : Runs(p, c, k, e, i) => e = d /\ i = j

\* No instructions make of a machine what it is.
LEMMA MakesNothing ==
  ASSUME NEW c \in Machine, NEW k \in 0..1
  PROVE  Makes(<<>>, c, k, c, k)
  <1>1. <<>> \in Code
    BY DEF Code
  <1> QED
    BY <1>1, RunsEmpty DEF Makes

\* What a sequence makes, another one goes on from.
LEMMA MakesBoth ==
  ASSUME NEW p, NEW q, NEW c, NEW k, NEW d, NEW j, NEW e, NEW i,
         Makes(p, c, k, d, j), Makes(q, d, j, e, i)
  PROVE  Makes(p \o q, c, k, e, i)
  <1>1. p \in Seq(Insns) /\ q \in Seq(Insns)
    BY DEF Makes, Code
  <1>2. p \o q \in Seq(Insns)
    BY <1>1, ConcatProperties
  <1>3. ASSUME NEW f, NEW h, Runs(p \o q, c, k, f, h)
        PROVE  f = e /\ h = i
    <2>1. PICK g, l : Runs(p, c, k, g, l) /\ Runs(q, g, l, f, h)
      BY <1>1, <1>3, RunsConcat
    <2>2. g = d /\ l = j
      BY <2>1 DEF Makes
    <2> QED
      BY <2>1, <2>2 DEF Makes
  <1> QED
    BY <1>2, <1>3 DEF Makes, Code

\* An instruction with one outcome makes it.
LEMMA MakesOne ==
  ASSUME NEW n \in Insns, NEW c, NEW k, NEW d \in Machine, NEW j \in 0..1,
         \A e, i : Stepped(n, c, k, e, i) => e = d /\ i = j
  PROVE  Makes(<<n>>, c, k, d, j)
  <1>1. <<n>> \in Code
    BY DEF Code
  <1>2. ASSUME NEW e, NEW i, Runs(<<n>>, c, k, e, i)
        PROVE  e = d /\ i = j
    BY <1>2, RunsOne
  <1> QED
    BY <1>1, <1>2 DEF Makes

(***************************************************************************)
(* What each instruction makes of the cells.                               *)
(***************************************************************************)

\* The instructions on bytes and words are instructions.
LEMMA ByteInsn ==
  ASSUME NEW op \in Ops, NEW a \in Writable, NEW p \in Cells
  PROVE  [op |-> op, x |-> <<a>>, y |-> <<p>>] \in Insns
  BY DEF Insns

\* Instructions on pairs.
LEMMA WordInsn ==
  ASSUME NEW op \in Ops \ LogicOps, NEW a \in Writable, NEW b \in Writable,
         a # b, NEW p \in Cells, NEW q \in Cells
  PROVE  [op |-> op, x |-> <<a, b>>, y |-> <<p, q>>] \in Insns
  BY DEF Insns

\* Instruction n can only store v in its first operand and j in the carry.
Stores(n, c, k, v, j) ==
  \A e, i : Stepped(n, c, k, e, i) => e = Put(c, n.x, v) /\ i = j

\* An instruction that stores v in a byte.
LEMMA ByteStep ==
  ASSUME NEW op \in Ops, NEW a \in Writable, NEW p \in Cells,
         NEW c \in Machine, NEW k \in 0..1, NEW v \in 0..(R - 1),
         NEW j \in 0..1,
         Stores([op |-> op, x |-> <<a>>, y |-> <<p>>], c, k, v, j)
  PROVE  \E d : Makes(Do(op, <<a>>, <<p>>), c, k, d, j) /\ Sets1(c, d, a, v)
  <1>1. PICK n : n = [op |-> op, x |-> <<a>>, y |-> <<p>>]
    OBVIOUS
  <1>2. n \in Insns /\ Do(op, <<a>>, <<p>>) = <<n>>
    BY <1>1, ByteInsn DEF Do
  <1>3. PICK d : d = Put(c, <<a>>, v)
    OBVIOUS
  <1>4. Sets1(c, d, a, v) /\ d \in Machine
    <2>1. a \in Cells
      BY Sizes
    <2>2. Sets1(c, d, a, v)
      BY <1>3, <2>1, PutByte
    <2> QED
      BY <2>2 DEF Sets1, Only
  <1>5. \A e, i : Stepped(n, c, k, e, i) => e = d /\ i = j
    BY <1>1, <1>3 DEF Stores
  <1>6. Makes(<<n>>, c, k, d, j)
    BY <1>2, <1>4, <1>5, MakesOne
  <1> QED
    BY <1>2, <1>4, <1>6

\* An instruction that stores v in a pair.
LEMMA WordStep ==
  ASSUME NEW op \in Ops \ LogicOps, NEW a \in Writable, NEW b \in Writable,
         a # b, NEW p \in Cells, NEW q \in Cells, NEW c \in Machine,
         NEW k \in 0..1, NEW v \in 0..(N - 1), NEW j \in 0..1,
         Stores([op |-> op, x |-> <<a, b>>, y |-> <<p, q>>], c, k, v, j)
  PROVE  \E d : /\ Makes(Do(op, <<a, b>>, <<p, q>>), c, k, d, j)
                /\ SetsWord(c, d, a, b, v)
  <1>1. PICK n : n = [op |-> op, x |-> <<a, b>>, y |-> <<p, q>>]
    OBVIOUS
  <1>2. n \in Insns /\ Do(op, <<a, b>>, <<p, q>>) = <<n>>
    BY <1>1, WordInsn DEF Do
  <1>3. PICK d : d = Put(c, <<a, b>>, v)
    OBVIOUS
  <1>4. Sets2(c, d, a, b, v % R, v \div R) /\ v = (v % R) + R * (v \div R)
    BY <1>3, Sizes, PutWord DEF N
  <1>5. d \in Machine /\ SetsWord(c, d, a, b, v)
    BY <1>4 DEF Sets2, Only, Pair, SetsWord
  <1>6. \A e, i : Stepped(n, c, k, e, i) => e = d /\ i = j
    BY <1>1, <1>3 DEF Stores
  <1>7. Makes(<<n>>, c, k, d, j)
    BY <1>2, <1>5, <1>6, MakesOne
  <1> QED
    BY <1>2, <1>4, <1>5, <1>7

\* *movqi and *movhi: a load copies, and so does the one that is left out.
LEMMA LdByte ==
  ASSUME NEW a \in Writable, NEW p \in Cells, NEW c \in Machine,
         NEW k \in 0..1
  PROVE  \E d : Makes(Ld(<<a>>, <<p>>), c, k, d, k) /\ Sets1(c, d, a, c[p])
  <1>1. a \in Cells /\ c[p] \in 0..(R - 1)
    BY Sizes
  <1>2. CASE a = p
    <2>1. Ld(<<a>>, <<p>>) = <<>>
      BY <1>2 DEF Ld
    <2>2. Sets1(c, c, a, c[p])
      BY <1>2 DEF Sets1, Only
    <2> QED
      BY <2>1, <2>2, MakesNothing
  <1>3. CASE a # p
    <2>1. Ld(<<a>>, <<p>>) = Do("ld", <<a>>, <<p>>)
      BY <1>3 DEF Ld
    <2>2. PICK v, op : v = c[p] /\ op = "ld"
      OBVIOUS
    <2>3. Stores([op |-> op, x |-> <<a>>, y |-> <<p>>], c, k, v, k)
      BY <2>2, Values DEF Stores, Stepped, LogicOps
    <2>4. op \in Ops /\ v \in 0..(R - 1)
      BY <1>1, <2>2 DEF Ops
    <2>5. \E d : Makes(Do(op, <<a>>, <<p>>), c, k, d, k) /\ Sets1(c, d, a, v)
      BY <2>3, <2>4, ByteStep
    <2> QED
      BY <2>1, <2>2, <2>5
  <1> QED
    BY <1>2, <1>3

\* ld from pair to pair, or push and pop: *movhi.
LEMMA LdWord ==
  ASSUME NEW a \in Writable, NEW b \in Writable, a # b,
         NEW p \in Cells, NEW q \in Cells, NEW c \in Machine, NEW k \in 0..1
  PROVE  \E d : /\ Makes(Ld(<<a, b>>, <<p, q>>), c, k, d, k)
                /\ Sets2(c, d, a, b, c[p], c[q])
  <1>1. a \in Cells /\ b \in Cells
    BY Sizes
  <1>2. CASE a = p /\ b = q
    <2>1. Ld(<<a, b>>, <<p, q>>) = <<>>
      BY <1>2 DEF Ld
    <2>2. Sets2(c, c, a, b, c[p], c[q])
      BY <1>2 DEF Sets2, Only
    <2> QED
      BY <2>1, <2>2, MakesNothing
  <1>3. CASE ~(a = p /\ b = q)
    <2>1. Ld(<<a, b>>, <<p, q>>) = Do("ld", <<a, b>>, <<p, q>>)
      BY <1>3 DEF Ld
    <2>2. PICK v : v = c[p] + R * c[q]
      OBVIOUS
    <2>3. v \in 0..(N - 1) /\ v % R = c[p] /\ v \div R = c[q]
      BY <2>2, WordRange DEF N
    <2>4. Stores([op |-> "ld", x |-> <<a, b>>, y |-> <<p, q>>], c, k, v, k)
      BY <2>2, Values DEF Stores, Stepped, LogicOps
    <2>5. "ld" \in Ops \ LogicOps
      BY DEF Ops, LogicOps
    <2>6. PICK d : /\ Makes(Do("ld", <<a, b>>, <<p, q>>), c, k, d, k)
                   /\ SetsWord(c, d, a, b, v)
      BY <2>3, <2>4, <2>5, WordStep
    <2>7. d[a] = v % R /\ d[b] = v \div R
      BY <1>1, <2>6, WordRange DEF Only, Pair, SetsWord
    <2> QED
      BY <2>1, <2>3, <2>6, <2>7 DEF Sets2, SetsWord
  <1> QED
    BY <1>2, <1>3

\* add, sub and sbc of a byte.
LEMMA AddByte ==
  ASSUME NEW a \in Writable, NEW p \in Cells, NEW c \in Machine,
         NEW k \in 0..1
  PROVE  \E d, j : /\ Makes(Do("add", <<a>>, <<p>>), c, k, d, j)
                   /\ Sets1(c, d, a, (c[a] + c[p]) % R)
  <1>1. R \in Nat \ {0} /\ c[a] \in 0..(R - 1) /\ c[p] \in 0..(R - 1)
    BY Sizes
  <1>2. PICK v, j : v = (c[a] + c[p]) % R /\ j = (c[a] + c[p]) \div R
    OBVIOUS
  <1>3. c[a] + c[p] + 0 = c[a] + c[p]
    BY <1>1
  <1>4. v \in 0..(R - 1) /\ j \in 0..1
    BY <1>1, <1>2, SumFitsPlain
  <1>5. Stores([op |-> "add", x |-> <<a>>, y |-> <<p>>], c, k, v, j)
    BY <1>2, <1>3, Values DEF Stores, Stepped, LogicOps
  <1>6. "add" \in Ops
    BY DEF Ops
  <1>7. \E d : Makes(Do("add", <<a>>, <<p>>), c, k, d, j) /\ Sets1(c, d, a, v)
    BY <1>4, <1>5, <1>6, ByteStep
  <1> QED
    BY <1>2, <1>7

\* sub and sbc of bytes.
LEMMA SubByte ==
  ASSUME NEW op \in {"sub", "sbc"}, NEW a \in Writable, NEW p \in Cells,
         NEW c \in Machine, NEW k \in 0..1,
         NEW b, b = IF op = "sbc" THEN k ELSE 0
  PROVE  \E d, j : /\ Makes(Do(op, <<a>>, <<p>>), c, k, d, j)
                   /\ Sets1(c, d, a, (c[a] - c[p] - b) % R)
  <1>1. /\ R \in Nat \ {0} /\ c[a] \in 0..(R - 1) /\ c[p] \in 0..(R - 1)
        /\ b \in 0..1
    BY Sizes
  <1>2. PICK v, j : /\ v = (c[a] - c[p] - b) % R
                    /\ j = IF c[a] - c[p] - b < 0 THEN 1 ELSE 0
    OBVIOUS
  <1>3. v \in 0..(R - 1) /\ j \in 0..1
    BY <1>1, <1>2, DifferenceFits
  <1>4. Stores([op |-> op, x |-> <<a>>, y |-> <<p>>], c, k, v, j)
    BY <1>2, Values DEF Stores, Stepped, LogicOps
  <1>5. op \in Ops
    BY DEF Ops
  <1>6. \E d : Makes(Do(op, <<a>>, <<p>>), c, k, d, j) /\ Sets1(c, d, a, v)
    BY <1>3, <1>4, <1>5, ByteStep
  <1> QED
    BY <1>2, <1>6

\* and, or and xor clear the carry.
LEMMA LogicByte ==
  ASSUME NEW op \in LogicOps, NEW a \in Writable, NEW p \in Cells,
         NEW c \in Machine, NEW k \in 0..1
  PROVE  \E d : /\ Makes(Do(op, <<a>>, <<p>>), c, k, d, 0)
                /\ Sets1(c, d, a, Bits(op, c[a], c[p]))
  <1>1. c[a] \in 0..(R - 1) /\ c[p] \in 0..(R - 1)
    BY Sizes
  <1>2. PICK v : v = Bits(op, c[a], c[p])
    OBVIOUS
  <1>3. v \in 0..(R - 1) /\ 0 \in 0..1
    BY <1>1, <1>2, BitsByte
  <1>4. Stores([op |-> op, x |-> <<a>>, y |-> <<p>>], c, k, v, 0)
    BY <1>2, Values DEF Stores, Stepped, LogicOps
  <1>5. op \in Ops
    BY DEF Ops, LogicOps
  <1>6. \E d : Makes(Do(op, <<a>>, <<p>>), c, k, d, 0) /\ Sets1(c, d, a, v)
    BY <1>3, <1>4, <1>5, ByteStep
  <1> QED
    BY <1>2, <1>6

\* rl moves the high bit to the carry.
LEMMA RlByte ==
  ASSUME NEW a \in Writable, NEW c \in Machine, NEW k \in 0..1
  PROVE  \E d, j : /\ Makes(Do("rl", <<a>>, <<a>>), c, k, d, j)
                   /\ Only(c, d, {a})
                   /\ j = IF 2 * c[a] < R THEN 0 ELSE 1
  <1>1. R \in Nat \ {0} /\ c[a] \in 0..(R - 1) /\ a \in Cells
    BY Sizes
  <1>2. PICK v, j : /\ v = (2 * c[a] + k) % R
                    /\ j = (2 * c[a]) \div R
    OBVIOUS
  <1>3. /\ v \in 0..(R - 1) /\ j \in 0..1
        /\ j = IF 2 * c[a] < R THEN 0 ELSE 1
    BY <1>1, <1>2, DoubleFits
  <1>4. Stores([op |-> "rl", x |-> <<a>>, y |-> <<a>>], c, k, v, j)
    BY <1>2, Values DEF Stores, Stepped, LogicOps
  <1>5. "rl" \in Ops
    BY DEF Ops
  <1>6. \E d : Makes(Do("rl", <<a>>, <<a>>), c, k, d, j) /\ Sets1(c, d, a, v)
    BY <1>1, <1>3, <1>4, <1>5, ByteStep
  <1> QED
    BY <1>3, <1>6 DEF Sets1

\* inc and dec keep the carry.
LEMMA CountByte ==
  ASSUME NEW op \in {"inc", "dec"}, NEW a \in Writable, NEW c \in Machine,
         NEW k \in 0..1
  PROVE  \E d : /\ Makes(Do(op, <<a>>, <<a>>), c, k, d, k)
                /\ Sets1(c, d, a, (IF op = "inc" THEN c[a] + 1
                                                 ELSE c[a] - 1) % R)
  <1>1. R \in Nat \ {0} /\ c[a] \in 0..(R - 1) /\ a \in Cells
    BY Sizes
  <1>2. PICK v : v = (IF op = "inc" THEN c[a] + 1 ELSE c[a] - 1) % R
    OBVIOUS
  <1>3. v \in 0..(R - 1)
    <2>1. (IF op = "inc" THEN c[a] + 1 ELSE c[a] - 1) \in Int
      BY <1>1
    <2> QED
      BY <1>1, <1>2, <2>1, DivMod
  <1>4. Stores([op |-> op, x |-> <<a>>, y |-> <<a>>], c, k, v, k)
    BY <1>2, Values DEF Stores, Stepped, LogicOps
  <1>5. op \in Ops
    BY DEF Ops
  <1>6. \E d : Makes(Do(op, <<a>>, <<a>>), c, k, d, k) /\ Sets1(c, d, a, v)
    BY <1>1, <1>3, <1>4, <1>5, ByteStep
  <1> QED
    BY <1>2, <1>6

\* inc and dec of a pair.
LEMMA CountWord ==
  ASSUME NEW op \in {"inc", "dec"}, NEW a \in Writable, NEW b \in Writable,
         a # b, NEW c \in Machine, NEW k \in 0..1
  PROVE  \E d : /\ Makes(Do(op, <<a, b>>, <<a, b>>), c, k, d, k)
                /\ SetsWord(c, d, a, b,
                            (IF op = "inc" THEN Pair(c, a, b) + 1
                             ELSE Pair(c, a, b) - 1) % N)
  <1>1. /\ N \in Nat \ {0} /\ a \in Cells /\ b \in Cells
        /\ Pair(c, a, b) \in 0..(N - 1)
    BY Sizes, WordRange DEF Pair, N
  <1>2. PICK v : v = (IF op = "inc" THEN Pair(c, a, b) + 1
                      ELSE Pair(c, a, b) - 1) % N
    OBVIOUS
  <1>3. v \in 0..(N - 1)
    <2>1. (IF op = "inc" THEN Pair(c, a, b) + 1
           ELSE Pair(c, a, b) - 1) \in Int
      BY <1>1
    <2> QED
      BY <1>1, <1>2, <2>1, DivMod
  <1>4. Stores([op |-> op, x |-> <<a, b>>, y |-> <<a, b>>], c, k, v, k)
    BY <1>2, Values DEF Stores, Stepped, LogicOps, Pair, N
  <1>5. op \in Ops \ LogicOps /\ a \in Cells /\ b \in Cells
    BY <1>1 DEF Ops, LogicOps
  <1>6. \E d : /\ Makes(Do(op, <<a, b>>, <<a, b>>), c, k, d, k)
               /\ SetsWord(c, d, a, b, v)
    BY <1>3, <1>4, <1>5, WordStep
  <1> QED
    BY <1>2, <1>6

\* neg and cpl of a byte.
LEMMA NegByte ==
  ASSUME NEW a \in Writable, NEW c \in Machine, NEW k \in 0..1
  PROVE  \E d, j : /\ Makes(Do("neg", <<a>>, <<a>>), c, k, d, j)
                   /\ Sets1(c, d, a, (-c[a]) % R)
  <1>1. R \in Nat \ {0} /\ c[a] \in 0..(R - 1) /\ a \in Cells
    BY Sizes
  <1>2. PICK v, j : v = (-c[a]) % R /\ j = IF c[a] = 0 THEN 0 ELSE 1
    OBVIOUS
  <1>3. v \in 0..(R - 1) /\ j \in 0..1
    <2>1. -c[a] \in Int
      BY <1>1
    <2> QED
      BY <1>1, <1>2, <2>1, DivMod
  <1>4. Stores([op |-> "neg", x |-> <<a>>, y |-> <<a>>], c, k, v, j)
    BY <1>2, Values DEF Stores, Stepped, LogicOps
  <1>5. "neg" \in Ops
    BY DEF Ops
  <1>6. \E d : Makes(Do("neg", <<a>>, <<a>>), c, k, d, j) /\ Sets1(c, d, a, v)
    BY <1>1, <1>3, <1>4, <1>5, ByteStep
  <1> QED
    BY <1>2, <1>6

\* cpl of a byte.
LEMMA CplByte ==
  ASSUME NEW a \in Writable, NEW c \in Machine, NEW k \in 0..1
  PROVE  \E d : /\ Makes(Do("cpl", <<a>>, <<a>>), c, k, d, k)
                /\ Sets1(c, d, a, R - 1 - c[a])
  <1>1. R \in Nat \ {0} /\ c[a] \in 0..(R - 1) /\ a \in Cells
    BY Sizes
  <1>2. R - 1 - c[a] \in 0..(R - 1)
    BY <1>1
  <1>3. Stores([op |-> "cpl", x |-> <<a>>, y |-> <<a>>], c, k,
               R - 1 - c[a], k)
    BY Values DEF Stores, Stepped, LogicOps
  <1>4. "cpl" \in Ops
    BY DEF Ops
  <1> QED
    BY <1>1, <1>2, <1>3, <1>4, ByteStep

\* add and adc of a word: what does not fit is in the carry.
LEMMA AddWord ==
  ASSUME NEW op \in {"add", "adc"}, NEW a \in Writable, NEW b \in Writable,
         a # b, NEW p \in Cells, NEW q \in Cells, NEW c \in Machine,
         NEW k \in 0..1, NEW m, m = IF op = "adc" THEN k ELSE 0
  PROVE  \E d, j : /\ Makes(Do(op, <<a, b>>, <<p, q>>), c, k, d, j)
                   /\ Sums(c, d, a, b, p, q, m, j)
  <1>1. /\ N \in Nat \ {0} /\ a \in Cells /\ b \in Cells
        /\ Pair(c, a, b) \in 0..(N - 1) /\ Pair(c, p, q) \in 0..(N - 1)
    BY Sizes, WordRange DEF Pair, N
  <1>2. m \in 0..1
    OBVIOUS
  <1>3. PICK v, j : /\ v = (Pair(c, a, b) + Pair(c, p, q) + m) % N
                    /\ j = (Pair(c, a, b) + Pair(c, p, q) + m) \div N
    OBVIOUS
  <1>4. /\ v \in 0..(N - 1) /\ j \in 0..1
        /\ Pair(c, a, b) + Pair(c, p, q) + m = v + N * j
    <2>1. PICK x, y : x = Pair(c, a, b) /\ y = Pair(c, p, q)
      OBVIOUS
    <2>2. x \in 0..(N - 1) /\ y \in 0..(N - 1)
      BY <1>1, <2>1
    <2>3. /\ (x + y + m) % N \in 0..(N - 1) /\ (x + y + m) \div N \in 0..1
          /\ x + y + m = ((x + y + m) % N) + N * ((x + y + m) \div N)
      BY <1>1, <1>2, <2>2, SumFits
    <2> QED
      BY <1>3, <2>1, <2>3
  <1>5. Stores([op |-> op, x |-> <<a, b>>, y |-> <<p, q>>], c, k, v, j)
    BY <1>2, <1>3, Values DEF Stores, Stepped, LogicOps, Pair, N
  <1>6. op \in Ops \ LogicOps /\ v \in 0..(N - 1) /\ j \in 0..1
    BY <1>4 DEF Ops, LogicOps
  <1>7. \E d : /\ Makes(Do(op, <<a, b>>, <<p, q>>), c, k, d, j)
               /\ SetsWord(c, d, a, b, v)
    BY <1>5, <1>6, WordStep
  <1> QED
    BY <1>4, <1>7 DEF SetsWord, Sums

\* sbc of a word: what was borrowed is in the carry.
LEMMA SbcWord ==
  ASSUME NEW a \in Writable, NEW b \in Writable, a # b, NEW p \in Cells,
         NEW q \in Cells, NEW c \in Machine, NEW k \in 0..1
  PROVE  \E d, j : /\ Makes(Do("sbc", <<a, b>>, <<p, q>>), c, k, d, j)
                   /\ Differs(c, d, a, b, p, q, k, j)
  <1>1. /\ N \in Nat \ {0} /\ a \in Cells /\ b \in Cells
        /\ Pair(c, a, b) \in 0..(N - 1) /\ Pair(c, p, q) \in 0..(N - 1)
    BY Sizes, WordRange DEF Pair, N
  <1>2. PICK v, j :
          /\ v = (Pair(c, a, b) - Pair(c, p, q) - k) % N
          /\ j = IF Pair(c, a, b) - Pair(c, p, q) - k < 0 THEN 1 ELSE 0
    OBVIOUS
  <1>3. /\ v \in 0..(N - 1) /\ j \in 0..1
        /\ v = Pair(c, a, b) - Pair(c, p, q) - k + N * j
    <2>1. PICK x \in 0..(N - 1), y \in 0..(N - 1) :
            x = Pair(c, a, b) /\ y = Pair(c, p, q)
      BY <1>1
    <2>2. /\ (x - y - k) % N \in 0..(N - 1)
          /\ (x - y - k) % N
               = (x - y - k) + N * (IF x - y - k < 0 THEN 1 ELSE 0)
      BY <1>1, DifferenceFits
    <2> QED
      BY <1>2, <2>1, <2>2
  <1>4. Stores([op |-> "sbc", x |-> <<a, b>>, y |-> <<p, q>>], c, k, v, j)
    BY <1>2, Values DEF Stores, Stepped, LogicOps, Pair, N
  <1>5. "sbc" \in Ops \ LogicOps /\ v \in 0..(N - 1) /\ j \in 0..1
    BY <1>3 DEF Ops, LogicOps
  <1>6. \E d : /\ Makes(Do("sbc", <<a, b>>, <<p, q>>), c, k, d, j)
               /\ SetsWord(c, d, a, b, v)
    BY <1>4, <1>5, WordStep
  <1> QED
    BY <1>3, <1>6 DEF SetsWord, Differs

\* ex of two pairs.
LEMMA ExWord ==
  ASSUME NEW a \in Writable, NEW b \in Writable, NEW p \in Writable,
         NEW q \in Writable, a # b, p # q, {a, b} \cap {p, q} = {},
         NEW c \in Machine, NEW k \in 0..1
  PROVE  \E d : /\ Makes(Do("ex", <<a, b>>, <<p, q>>), c, k, d, k)
                /\ Swaps(c, d, a, b, p, q)
  <1>1. a \in Cells /\ b \in Cells /\ p \in Cells /\ q \in Cells
    BY Sizes
  <1>2. PICK x, y : x = c[a] + R * c[b] /\ y = c[p] + R * c[q]
    OBVIOUS
  <1>3. /\ x \in 0..(R * R - 1) /\ x % R = c[a] /\ x \div R = c[b]
        /\ y \in 0..(R * R - 1) /\ y % R = c[p] /\ y \div R = c[q]
    BY <1>1, <1>2, WordRange
  <1>4. PICK e : e = Put(c, <<a, b>>, y)
    OBVIOUS
  <1>5. Sets2(c, e, a, b, c[p], c[q])
    BY <1>1, <1>3, <1>4, PutWord
  <1>6. e \in Machine
    BY <1>5 DEF Sets2, Only
  <1>7. PICK d : d = Put(e, <<p, q>>, x)
    OBVIOUS
  <1>8. Sets2(e, d, p, q, c[a], c[b])
    BY <1>1, <1>3, <1>6, <1>7, PutWord
  <1>9. d \in Machine
    BY <1>8 DEF Sets2, Only
  <1>10. PICK n : n = [op |-> "ex", x |-> <<a, b>>, y |-> <<p, q>>]
    OBVIOUS
  <1>11. n \in Insns /\ Do("ex", <<a, b>>, <<p, q>>) = <<n>>
    BY <1>1, <1>10, WordInsn DEF Do, Ops, LogicOps
  <1>12. \A f, i : Stepped(n, c, k, f, i) => f = d /\ i = k
    BY <1>2, <1>4, <1>7, <1>10, Values DEF Stepped, LogicOps
  <1>13. Makes(<<n>>, c, k, d, k)
    BY <1>9, <1>11, <1>12, MakesOne
  <1>14. Only(c, d, {a, b, p, q})
    BY <1>5, <1>8 DEF Sets2, Only
  <1>15. d[a] = c[p] /\ d[b] = c[q] /\ d[p] = c[a] /\ d[q] = c[b]
    BY <1>1, <1>5, <1>8 DEF Sets2, Only
  <1> QED
    BY <1>11, <1>13, <1>14, <1>15 DEF Swaps

\* or of A with itself changes nothing but the carry.
LEMMA ClearCarryMakes ==
  ASSUME NEW c \in Machine, NEW k \in 0..1
  PROVE  Makes(ClearCarry, c, k, c, 0)
  <1>1. "A" \in Writable /\ "A" \in Cells /\ "or" \in LogicOps
    BY CellNames DEF LogicOps
  <1>2. PICK d : /\ Makes(ClearCarry, c, k, d, 0)
                 /\ Sets1(c, d, "A", Bits("or", c["A"], c["A"]))
    BY <1>1, LogicByte DEF ClearCarry, A
  <1>3. Bits("or", c["A"], c["A"]) = c["A"]
    BY <1>1, Sizes, BitsByte
  <1>4. d = c
    BY <1>2, <1>3 DEF Sets1, Only, Machine
  <1> QED
    BY <1>2, <1>4

(***************************************************************************)
(* The patterns.                                                           *)
(***************************************************************************)

\* The registers.
LEMMA Registers ==
  /\ {"A", "L", "H", "E", "D", "C", "B", "IXL", "IXH", "IYL", "IYH", "m0",
      "m1", "m2", "m3", "s0", "s1"} \subseteq Writable
  /\ \A a \in Writable : a \in Cells
  BY CellNames

\* The parts z80_gen_lowpart and z80_gen_highpart make of registers.
LEMMA RegisterParts ==
  /\ Low(HLDE) = HL /\ High(HLDE) = DE
  /\ Low(BCIY) = BC /\ High(BCIY) = IY
  /\ Low(HL) = <<"L">> /\ High(HL) = <<"H">>
  /\ Low(DE) = <<"E">> /\ High(DE) = <<"D">>
  /\ Low(BC) = <<"C">> /\ High(BC) = <<"B">>
  /\ Low(IX) = <<"IXH">> /\ High(IX) = <<"IXH">>
  /\ Low(IY) = <<"IYH">> /\ High(IY) = <<"IYH">>
  <1>1. /\ Low(HLDE) = HL /\ High(HLDE) = DE
        /\ Low(BCIY) = BC /\ High(BCIY) = IY
    BY LongParts, Operands DEF HL, DE, BC, IY
  <1>2. HL \notin {IX, IY} /\ DE \notin {IX, IY} /\ BC \notin {IX, IY}
    BY DEF HL, DE, BC, IX, IY
  <1>3. Low(HL) = <<"L">> /\ High(HL) = <<"H">>
    BY <1>2, WordParts DEF HL
  <1>4. Low(DE) = <<"E">> /\ High(DE) = <<"D">>
    BY <1>2, WordParts DEF DE
  <1>5. Low(BC) = <<"C">> /\ High(BC) = <<"B">>
    BY <1>2, WordParts DEF BC
  <1>6. /\ Low(IX) = <<"IXH">> /\ High(IX) = <<"IXH">>
        /\ Low(IY) = <<"IYH">> /\ High(IY) = <<"IYH">>
    BY WordParts DEF IX, IY
  <1> QED
    BY <1>1, <1>3, <1>4, <1>5, <1>6

\* The number in two or four cells.
LEMMA PairRange ==
  ASSUME NEW c \in Machine, NEW a \in Cells, NEW b \in Cells
  PROVE  /\ N \in Nat \ {0} /\ N * N \in Nat \ {0}
         /\ Pair(c, a, b) \in 0..(N - 1)
         /\ Val(c, <<a, b>>) = Pair(c, a, b) /\ Size(<<a, b>>) = N
  <1>1. N \in Nat \ {0} /\ N * N \in Nat \ {0}
    BY Sizes DEF N
  <1>2. Pair(c, a, b) \in 0..(N - 1)
    BY WordRange DEF Pair, N
  <1>3. Val(c, <<a, b>>) = Pair(c, a, b) /\ Size(<<a, b>>) = N
    BY Values DEF Pair, N
  <1> QED
    BY <1>1, <1>2, <1>3

\* The value of a long, from its words.
LEMMA LongRange ==
  ASSUME NEW c \in Machine, NEW a \in Cells, NEW b \in Cells,
         NEW e \in Cells, NEW f \in Cells
  PROVE  /\ Val(c, <<a, b, e, f>>) = Pair(c, a, b) + N * Pair(c, e, f)
         /\ Val(c, <<a, b, e, f>>) \in 0..(N * N - 1)
         /\ Size(<<a, b, e, f>>) = N * N
  <1>1. /\ N \in Nat \ {0} /\ Pair(c, a, b) \in 0..(N - 1)
        /\ Pair(c, e, f) \in 0..(N - 1)
    BY PairRange
  <1>2. Pair(c, a, b) + N * Pair(c, e, f) \in 0..(N * N - 1)
    BY <1>1, JoinWord
  <1>3. /\ Val(c, <<a, b, e, f>>) = Pair(c, a, b) + N * Pair(c, e, f)
        /\ Size(<<a, b, e, f>>) = N * N
    BY Values DEF Pair, N
  <1> QED
    BY <1>2, <1>3

\* Two halves are added, and the carry j of the low ones to the high ones.
LEMMA AddHalves ==
  ASSUME NEW M \in Nat \ {0}, NEW x0 \in Int, NEW x1 \in Int,
         NEW y0 \in Int, NEW y1 \in Int, NEW z0 \in 0..(M - 1),
         NEW z1 \in 0..(M - 1), NEW j \in Int, NEW i \in Int,
         x0 + y0 = z0 + M * j, x1 + y1 + j = z1 + M * i
  PROVE  z0 + M * z1 = ((x0 + M * x1) + (y0 + M * y1)) % (M * M)
  <1>1. M * (x1 + y1 + j) = M * (z1 + M * i)
    OBVIOUS
  <1>2. M * (x1 + y1 + j) = M * x1 + M * y1 + M * j
    OBVIOUS
  <1>3. M * (z1 + M * i) = M * z1 + (M * M) * i
    OBVIOUS
  <1>4. (x0 + M * x1) + (y0 + M * y1) = (M * M) * i + (z0 + M * z1)
    BY <1>1, <1>2, <1>3
  <1>5. /\ z0 + M * z1 \in 0..(M * M - 1) /\ M * M \in Nat \ {0}
        /\ (x0 + M * x1) + (y0 + M * y1) \in Int
    BY JoinWord
  <1>6. PICK L, v, r : /\ L = M * M /\ r = z0 + M * z1
                       /\ v = (x0 + M * x1) + (y0 + M * y1)
    OBVIOUS
  <1>7. /\ L \in Nat \ {0} /\ v \in Int /\ r \in 0..(L - 1)
        /\ v = L * i + r
    BY <1>4, <1>5, <1>6
  <1>8. v % L = r
    BY <1>7, DivModUnique
  <1> QED
    BY <1>6, <1>8

\* addsi3: the carry of the low halves reaches the sum of the high ones.
LEMMA AddLong ==
  ASSUME NEW p \in Cells \ {"C", "B"}, NEW q \in Cells \ {"C", "B"},
         NEW r \in Cells \ {"C", "B", "L", "H"},
         NEW s \in Cells \ {"C", "B", "L", "H"},
         NEW c \in Machine, NEW k \in 0..1
  PROVE  \E d, j : /\ Makes(addsi3(HLDE, <<p, q, r, s>>), c, k, d, j)
                   /\ Only(c, d, {"L", "H", "E", "D", "C", "B"})
                   /\ Val(d, HLDE) = (Val(c, HLDE) + Val(c, <<p, q, r, s>>))
                                     % Size(HLDE)
  <1>1. /\ "L" \in Writable /\ "H" \in Writable /\ "E" \in Writable
        /\ "D" \in Writable /\ "C" \in Writable /\ "B" \in Writable
    BY Registers
  <1>2. /\ "L" \in Cells /\ "H" \in Cells /\ "E" \in Cells /\ "D" \in Cells
        /\ "C" \in Cells /\ "B" \in Cells /\ p \in Cells /\ q \in Cells
        /\ r \in Cells /\ s \in Cells
    BY <1>1, Registers
  <1>3. PICK c1 : /\ Makes(Ld(BC, <<p, q>>), c, k, c1, k)
                  /\ Sets2(c, c1, "C", "B", c[p], c[q])
    BY <1>1, <1>2, LdWord DEF BC
  <1>4. c1 \in Machine
    BY <1>3 DEF Makes
  <1>5. PICK c2, j2 : /\ Makes(Do("add", HL, BC), c1, k, c2, j2)
                      /\ Sums(c1, c2, "L", "H", "C", "B", 0, j2)
    BY <1>1, <1>2, <1>4, AddWord DEF HL, BC
  <1>6. c2 \in Machine /\ j2 \in 0..1
    BY <1>5 DEF Makes
  <1>7. PICK c3 : /\ Makes(Ld(BC, <<r, s>>), c2, j2, c3, j2)
                  /\ Sets2(c2, c3, "C", "B", c2[r], c2[s])
    BY <1>1, <1>2, <1>6, LdWord DEF BC
  <1>8. c3 \in Machine
    BY <1>7 DEF Makes
  <1>9. PICK c4 : /\ Makes(Do("ex", HL, DE), c3, j2, c4, j2)
                  /\ Swaps(c3, c4, "L", "H", "E", "D")
    BY <1>1, <1>6, <1>8, ExWord DEF HL, DE
  <1>10. c4 \in Machine
    BY <1>9 DEF Makes
  <1>11. PICK c5, j5 : /\ Makes(Do("adc", HL, BC), c4, j2, c5, j5)
                       /\ Sums(c4, c5, "L", "H", "C", "B", j2, j5)
    BY <1>1, <1>2, <1>6, <1>10, AddWord DEF HL, BC
  <1>12. c5 \in Machine /\ j5 \in 0..1
    BY <1>11 DEF Makes
  <1>13. PICK c6 : /\ Makes(Do("ex", HL, DE), c5, j5, c6, j5)
                   /\ Swaps(c5, c6, "L", "H", "E", "D")
    BY <1>1, <1>12, ExWord DEF HL, DE
  <1>14. addsi3(HLDE, <<p, q, r, s>>)
           = Ld(BC, <<p, q>>) \o Do("add", HL, BC) \o Ld(BC, <<r, s>>)
             \o Do("ex", HL, DE) \o Do("adc", HL, BC) \o Do("ex", HL, DE)
    <2>1. /\ Low(HLDE) = HL /\ High(HLDE) = DE
          /\ Low(<<p, q, r, s>>) = <<p, q>> /\ High(<<p, q, r, s>>) = <<r, s>>
      BY LongParts, RegisterParts
    <2> QED
      BY <2>1, Zenon DEF addsi3
  <1>15. Makes(addsi3(HLDE, <<p, q, r, s>>), c, k, c6, j5)
    BY <1>3, <1>5, <1>7, <1>9, <1>11, <1>13, <1>14, MakesBoth
  <1>16. Only(c, c6, {"L", "H", "E", "D", "C", "B"})
    BY <1>3, <1>5, <1>7, <1>9, <1>11, <1>13
       DEF Sets2, Sums, Swaps, Only
  <1>17. /\ Pair(c1, "L", "H") = Pair(c, "L", "H")
         /\ Pair(c1, "C", "B") = Pair(c, p, q)
    BY <1>2, <1>3 DEF Sets2, Only, Pair
  <1>18. /\ Pair(c4, "L", "H") = Pair(c, "E", "D")
         /\ Pair(c4, "C", "B") = Pair(c, r, s)
         /\ Pair(c4, "E", "D") = Pair(c2, "L", "H")
    BY <1>2, <1>3, <1>5, <1>7, <1>9 DEF Sets2, Sums, Swaps, Only, Pair
  <1>19. /\ Pair(c6, "E", "D") = Pair(c5, "L", "H")
         /\ Pair(c6, "L", "H") = Pair(c4, "E", "D")
    BY <1>2, <1>11, <1>13 DEF Sums, Swaps, Only, Pair
  <1>20. c6 \in Machine
    BY <1>13 DEF Makes
  <1>21. PICK x0, x1, y0, y1, z0, z1 :
           /\ x0 = Pair(c, "L", "H") /\ x1 = Pair(c, "E", "D")
           /\ y0 = Pair(c, p, q) /\ y1 = Pair(c, r, s)
           /\ z0 = Pair(c6, "L", "H") /\ z1 = Pair(c6, "E", "D")
    OBVIOUS
  <1>22. /\ N \in Nat \ {0} /\ x0 \in Int /\ x1 \in Int /\ y0 \in Int
         /\ y1 \in Int /\ z0 \in 0..(N - 1) /\ z1 \in 0..(N - 1)
    <2>1. /\ N \in Nat \ {0} /\ Pair(c6, "L", "H") \in 0..(N - 1)
          /\ Pair(c6, "E", "D") \in 0..(N - 1)
      BY <1>2, <1>20, PairRange
    <2>2. /\ Pair(c, "L", "H") \in 0..(N - 1)
          /\ Pair(c, "E", "D") \in 0..(N - 1)
          /\ Pair(c, p, q) \in 0..(N - 1) /\ Pair(c, r, s) \in 0..(N - 1)
      BY <1>2, PairRange
    <2> QED
      BY <1>21, <2>1, <2>2
  <1>23. x0 + y0 = z0 + N * j2
    BY <1>5, <1>17, <1>18, <1>19, <1>21, <1>22 DEF Sums
  <1>24. x1 + y1 + j2 = z1 + N * j5
    BY <1>11, <1>18, <1>19, <1>21, <1>22 DEF Sums
  <1>25. z0 + N * z1 = ((x0 + N * x1) + (y0 + N * y1)) % (N * N)
    BY <1>6, <1>12, <1>22, <1>23, <1>24, AddHalves
  <1>26. Val(c6, HLDE) = (Val(c, HLDE) + Val(c, <<p, q, r, s>>)) % Size(HLDE)
    BY <1>2, <1>20, <1>21, <1>25, LongRange, Operands
  <1> QED
    BY <1>15, <1>16, <1>26

\* Four cells become u, v, w and z; two, in this order, become u and v.
Sets4(c, d, a, b, e, f, u, v, w, z) ==
  /\ Only(c, d, {a, b, e, f})
  /\ d[a] = u /\ d[b] = v /\ d[e] = w /\ d[f] = z
LoadsBytes(c, d, a, b, u, v) ==
  Only(c, d, {a, b}) /\ d[b] = v /\ (a # b => d[a] = u)

\* Two words or two bytes are loaded, the second unharmed by the first.
LEMMA LoadWords ==
  ASSUME NEW a \in Writable, NEW b \in Writable, NEW e \in Writable,
         NEW f \in Writable, a # b, e # f, {a, b} \cap {e, f} = {},
         NEW p \in Cells, NEW q \in Cells, NEW r \in Cells \ {a, b},
         NEW s \in Cells \ {a, b}, NEW c \in Machine, NEW k \in 0..1
  PROVE  \E d : /\ Makes(Ld(<<a, b>>, <<p, q>>) \o Ld(<<e, f>>, <<r, s>>),
                         c, k, d, k)
                /\ Sets4(c, d, a, b, e, f, c[p], c[q], c[r], c[s])
  <1>1. PICK c1 : /\ Makes(Ld(<<a, b>>, <<p, q>>), c, k, c1, k)
                  /\ Sets2(c, c1, a, b, c[p], c[q])
    BY LdWord
  <1>2. c1 \in Machine /\ r \in Cells /\ s \in Cells
    BY <1>1 DEF Makes
  <1>3. PICK d : /\ Makes(Ld(<<e, f>>, <<r, s>>), c1, k, d, k)
                 /\ Sets2(c1, d, e, f, c1[r], c1[s])
    BY <1>2, LdWord
  <1>4. c1[r] = c[r] /\ c1[s] = c[s]
    BY <1>1 DEF Sets2, Only
  <1>5. a \in Cells /\ b \in Cells
    BY Registers
  <1>6. d[a] = c[p] /\ d[b] = c[q] /\ d[e] = c[r] /\ d[f] = c[s]
    BY <1>1, <1>3, <1>4, <1>5 DEF Sets2, Only
  <1>7. Only(c, d, {a, b, e, f})
    BY <1>1, <1>3 DEF Sets2, Only
  <1>8. Makes(Ld(<<a, b>>, <<p, q>>) \o Ld(<<e, f>>, <<r, s>>), c, k, d, k)
    BY <1>1, <1>3, MakesBoth
  <1> QED
    BY <1>6, <1>7, <1>8 DEF Sets4

\* Two byte loads, of which the first does not touch the second's source.
LEMMA LoadBytes ==
  ASSUME NEW a \in Writable, NEW b \in Writable, NEW p \in Cells,
         NEW q \in Cells \ {a}, NEW c \in Machine, NEW k \in 0..1
  PROVE  \E d : /\ Makes(Ld(<<a>>, <<p>>) \o Ld(<<b>>, <<q>>), c, k, d, k)
                /\ LoadsBytes(c, d, a, b, c[p], c[q])
  <1>1. PICK c1 : /\ Makes(Ld(<<a>>, <<p>>), c, k, c1, k)
                  /\ Sets1(c, c1, a, c[p])
    BY LdByte
  <1>2. c1 \in Machine /\ q \in Cells
    BY <1>1 DEF Makes
  <1>3. PICK d : /\ Makes(Ld(<<b>>, <<q>>), c1, k, d, k)
                 /\ Sets1(c1, d, b, c1[q])
    BY <1>2, LdByte
  <1>4. a \in Cells /\ c1[q] = c[q]
    BY <1>1, Registers DEF Sets1, Only
  <1>5. Only(c, d, {a, b}) /\ d[b] = c[q]
    BY <1>1, <1>3, <1>4 DEF Sets1, Only
  <1>6. a # b => d[a] = c[p]
    BY <1>1, <1>3, <1>4 DEF Sets1, Only
  <1>7. Makes(Ld(<<a>>, <<p>>) \o Ld(<<b>>, <<q>>), c, k, d, k)
    BY <1>1, <1>3, MakesBoth
  <1> QED
    BY <1>5, <1>6, <1>7 DEF LoadsBytes

\* z80_split_move from memory or a constant to memory, through BC.
LEMMA MoveMemory ==
  ASSUME NEW p \in Cells \ {"C", "B"}, NEW q \in Cells \ {"C", "B"},
         NEW r \in Cells \ {"C", "B", "m0", "m1"},
         NEW s \in Cells \ {"C", "B", "m0", "m1"}, NEW c \in Machine,
         NEW k \in 0..1, <<p, q, r, s>> \notin Longs
  PROVE  \E d : /\ Makes(z80_split_move(Mem(4), <<p, q, r, s>>), c, k, d, k)
                /\ Only(c, d, {"m0", "m1", "m2", "m3", "C", "B"})
                /\ d["m0"] = c[p] /\ d["m1"] = c[q]
                /\ d["m2"] = c[r] /\ d["m3"] = c[s]
  <1>1. /\ "C" \in Writable /\ "B" \in Writable /\ "m0" \in Writable
        /\ "m1" \in Writable /\ "m2" \in Writable /\ "m3" \in Writable
    BY Registers
  <1>2. /\ "C" \in Cells /\ "B" \in Cells /\ "m0" \in Cells /\ "m1" \in Cells
        /\ "m2" \in Cells /\ "m3" \in Cells
        /\ p \in Cells /\ q \in Cells /\ r \in Cells /\ s \in Cells
    BY <1>1, Registers
  <1>3. PICK c1 : /\ Makes(Ld(BC, <<p, q>>), c, k, c1, k)
                  /\ Sets2(c, c1, "C", "B", c[p], c[q])
    BY <1>1, <1>2, LdWord DEF BC
  <1>4. c1 \in Machine
    BY <1>3 DEF Makes
  <1>5. PICK c2 : /\ Makes(Ld(<<"m0", "m1">>, BC), c1, k, c2, k)
                  /\ Sets2(c1, c2, "m0", "m1", c1["C"], c1["B"])
    BY <1>1, <1>2, <1>4, LdWord DEF BC
  <1>6. c2 \in Machine
    BY <1>5 DEF Makes
  <1>7. PICK c3 : /\ Makes(Ld(BC, <<r, s>>), c2, k, c3, k)
                  /\ Sets2(c2, c3, "C", "B", c2[r], c2[s])
    BY <1>1, <1>2, <1>6, LdWord DEF BC
  <1>8. c3 \in Machine
    BY <1>7 DEF Makes
  <1>9. PICK d : /\ Makes(Ld(<<"m2", "m3">>, BC), c3, k, d, k)
                 /\ Sets2(c3, d, "m2", "m3", c3["C"], c3["B"])
    BY <1>1, <1>2, <1>8, LdWord DEF BC
  <1>10. z80_split_move(Mem(4), <<p, q, r, s>>)
           = Ld(BC, <<p, q>>) \o Ld(<<"m0", "m1">>, BC)
             \o Ld(BC, <<r, s>>) \o Ld(<<"m2", "m3">>, BC)
    <2>1. Low(Mem(4)) = <<"m0", "m1">> /\ High(Mem(4)) = <<"m2", "m3">>
      BY LongParts, Operands
    <2>2. Low(<<p, q, r, s>>) = <<p, q>> /\ High(<<p, q, r, s>>) = <<r, s>>
      BY LongParts
    <2>3. Mem(4) \notin Longs
      BY Operands DEF Longs
    <2> QED
      BY <2>1, <2>2, <2>3, Zenon DEF z80_split_move
  <1>11. Makes(z80_split_move(Mem(4), <<p, q, r, s>>), c, k, d, k)
    BY <1>3, <1>5, <1>7, <1>9, <1>10, MakesBoth
  <1>12. Only(c, d, {"m0", "m1", "m2", "m3", "C", "B"})
    BY <1>3, <1>5, <1>7, <1>9 DEF Sets2, Only
  <1>13. c2["m0"] = c[p] /\ c2["m1"] = c[q] /\ c2[r] = c[r] /\ c2[s] = c[s]
    BY <1>2, <1>3, <1>5 DEF Sets2, Only
  <1>14. /\ d["m0"] = c2["m0"] /\ d["m1"] = c2["m1"]
         /\ d["m2"] = c2[r] /\ d["m3"] = c2[s]
    BY <1>2, <1>7, <1>9 DEF Sets2, Only
  <1> QED
    BY <1>11, <1>12, <1>13, <1>14

\* A byte that is all sign.
Sign(u) == IF 2 * u < R THEN 0 ELSE R - 1

\* rl and sbc make a byte of the sign bit of A.
LEMMA SignOfA ==
  ASSUME NEW c \in Machine, NEW k \in 0..1
  PROVE  \E e, i, d, j :
           /\ Makes(Do("rl", A, A), c, k, e, i)
           /\ Makes(Do("sbc", A, A), e, i, d, j)
           /\ Sets1(c, d, "A", Sign(c["A"]))
  <1>1. "A" \in Writable /\ "A" \in Cells
    BY Registers
  <1>2. PICK c1, j1 : /\ Makes(Do("rl", A, A), c, k, c1, j1)
                      /\ Only(c, c1, {"A"})
                      /\ j1 = IF 2 * c["A"] < R THEN 0 ELSE 1
    BY <1>1, RlByte DEF A
  <1>3. c1 \in Machine /\ j1 \in 0..1
    BY <1>2 DEF Makes
  <1>4. PICK d, j : /\ Makes(Do("sbc", A, A), c1, j1, d, j)
                    /\ Sets1(c1, d, "A", (c1["A"] - c1["A"] - j1) % R)
    BY <1>1, <1>3, SubByte DEF A
  <1>5. (c1["A"] - c1["A"] - j1) % R = Sign(c["A"])
    <2>1. R \in Nat \ {0} /\ c1["A"] \in 0..(R - 1)
      BY <1>1, <1>3, Sizes
    <2>2. c1["A"] - c1["A"] - j1 = -j1
      BY <1>3, <2>1
    <2>3. CASE j1 = 0
      <3>1. -j1 = R * 0 + 0 /\ 0 \in 0..(R - 1) /\ -j1 \in Int /\ 0 \in Int
        BY <2>1, <2>3
      <3>2. (-j1) % R = 0
        BY <2>1, <3>1, DivModUnique
      <3> QED
        BY <1>2, <2>2, <2>3, <3>2 DEF Sign
    <2>4. CASE j1 = 1
      <3>1. /\ -j1 = R * (-1) + (R - 1) /\ R - 1 \in 0..(R - 1)
            /\ -j1 \in Int /\ -1 \in Int
        BY <2>1, <2>4
      <3>2. (-j1) % R = R - 1
        BY <2>1, <3>1, DivModUnique
      <3> QED
        BY <1>2, <2>2, <2>4, <3>2 DEF Sign
    <2> QED
      BY <1>3, <2>3, <2>4
  <1>6. Sets1(c, d, "A", Sign(c["A"]))
    BY <1>2, <1>4, <1>5 DEF Sets1, Only
  <1> QED
    BY <1>2, <1>4, <1>6

\* A is copied to a and its sign to b, and A is changed.
Extends(c, d, a, b) ==
  /\ Only(c, d, {a, b, "A"})
  /\ d[b] = Sign(c["A"])
  /\ a # b => d[a] = c["A"]

\* extendqihi2, with the low part of the destination in a, the high in b.
LEMMA ExtendByte ==
  ASSUME NEW a \in Writable \ {"A"}, NEW b \in Writable \ {"A"},
         NEW x, Low(x) = <<a>>, High(x) = <<b>>,
         NEW c \in Machine, NEW k \in 0..1
  PROVE  \E d, j : /\ Makes(extendqihi2(x, A), c, k, d, j)
                   /\ Extends(c, d, a, b)
  <1>1. "A" \in Writable /\ "A" \in Cells /\ a \in Cells /\ b \in Cells
    BY Registers
  <1>2. PICK c1 : /\ Makes(Ld(<<a>>, A), c, k, c1, k)
                  /\ Sets1(c, c1, a, c["A"])
    BY <1>1, LdByte DEF A
  <1>3. c1 \in Machine
    BY <1>2 DEF Makes
  <1>4. PICK c2, j2, c3, j3 : /\ Makes(Do("rl", A, A), c1, k, c2, j2)
                              /\ Makes(Do("sbc", A, A), c2, j2, c3, j3)
                              /\ Sets1(c1, c3, "A", Sign(c1["A"]))
    BY <1>3, SignOfA
  <1>5. c3 \in Machine /\ j3 \in 0..1
    BY <1>4 DEF Makes
  <1>6. PICK d : /\ Makes(Ld(<<b>>, A), c3, j3, d, j3)
                 /\ Sets1(c3, d, b, c3["A"])
    BY <1>1, <1>5, LdByte DEF A
  <1>7. Makes(extendqihi2(x, A), c, k, d, j3)
    <2>1. extendqihi2(x, A) = Ld(<<a>>, A) \o Do("rl", A, A)
                              \o Do("sbc", A, A) \o Ld(<<b>>, A)
      BY Zenon DEF extendqihi2
    <2> QED
      BY <1>2, <1>4, <1>6, <2>1, MakesBoth
  <1>8. Only(c, d, {a, b, "A"})
    BY <1>2, <1>4, <1>6 DEF Sets1, Only
  <1>9. c1["A"] = c["A"]
    BY <1>1, <1>2 DEF Sets1, Only
  <1>10. d[b] = Sign(c["A"]) /\ (a # b => d[a] = c["A"])
    BY <1>1, <1>2, <1>4, <1>6, <1>9 DEF Sets1, Only
  <1> QED
    BY <1>7, <1>8, <1>10 DEF Extends

ExtendsLong(c, d, a, b, e, f) ==
  /\ d[b] = Sign(c["A"]) /\ d[f] = Sign(c["A"])
  /\ a # b => d[a] = c["A"]
  /\ e # f => d[e] = Sign(c["A"])

\* extendqisi2, with the parts of the destination in a, b, e and f.
LEMMA ExtendByteLong ==
  ASSUME NEW a \in Writable \ {"A"}, NEW b \in Writable \ {"A"},
         NEW e \in Writable \ {a, b}, NEW f \in Writable \ {a, b},
         NEW x, Low(Low(x)) = <<a>>, High(Low(x)) = <<b>>,
         Low(High(x)) = <<e>>, High(High(x)) = <<f>>,
         NEW c \in Machine, NEW k \in 0..1
  PROVE  \E d, j : /\ Makes(extendqisi2(x, A), c, k, d, j)
                   /\ ExtendsLong(c, d, a, b, e, f)
  <1>1. a \in Cells /\ b \in Cells /\ e \in Cells /\ f \in Cells
    BY Registers
  <1>2. PICK c1, j1 : /\ Makes(extendqihi2(Low(x), A), c, k, c1, j1)
                      /\ Extends(c, c1, a, b)
    BY ExtendByte
  <1>3. c1 \in Machine /\ j1 \in 0..1
    BY <1>2 DEF Makes
  <1>4. PICK c2 : /\ Makes(Ld(<<e>>, <<b>>), c1, j1, c2, j1)
                  /\ Sets1(c1, c2, e, c1[b])
    BY <1>1, <1>3, LdByte
  <1>5. c2 \in Machine
    BY <1>4 DEF Makes
  <1>6. PICK d : /\ Makes(Ld(<<f>>, <<b>>), c2, j1, d, j1)
                 /\ Sets1(c2, d, f, c2[b])
    BY <1>1, <1>3, <1>5, LdByte
  <1>7. Makes(extendqisi2(x, A), c, k, d, j1)
    <2>1. extendqisi2(x, A) = extendqihi2(Low(x), A) \o Ld(<<e>>, <<b>>)
                              \o Ld(<<f>>, <<b>>)
      BY Zenon DEF extendqisi2
    <2> QED
      BY <1>2, <1>4, <1>6, <2>1, MakesBoth
  <1>8. c2[b] = c1[b] /\ d[a] = c1[a] /\ d[b] = c1[b]
    BY <1>1, <1>4, <1>6 DEF Sets1, Only
  <1>9. d[f] = c1[b] /\ (e # f => d[e] = c1[b])
    BY <1>1, <1>4, <1>6, <1>8 DEF Sets1, Only
  <1> QED
    BY <1>2, <1>7, <1>8, <1>9 DEF Extends, ExtendsLong

\* extendhisi2 from BC to HL and DE: the high half is all sign.
LEMMA ExtendWord ==
  ASSUME NEW c \in Machine, NEW k \in 0..1
  PROVE  \E d, j : /\ Makes(extendhisi2(HLDE, BC), c, k, d, j)
                   /\ Only(c, d, {"A", "L", "H", "E", "D"})
                   /\ Pair(d, "L", "H") = Pair(c, "C", "B")
                   /\ Pair(d, "E", "D")
                        = IF 2 * c["B"] < R THEN 0 ELSE N - 1
  <1>1. /\ "A" \in Writable /\ "L" \in Writable /\ "H" \in Writable
        /\ "E" \in Writable /\ "D" \in Writable
    BY Registers
  <1>2. /\ "A" \in Cells /\ "L" \in Cells /\ "H" \in Cells /\ "E" \in Cells
        /\ "D" \in Cells /\ "C" \in Cells /\ "B" \in Cells
    BY Registers
  <1>3. PICK c1 : /\ Makes(Ld(A, <<"B">>), c, k, c1, k)
                  /\ Sets1(c, c1, "A", c["B"])
    BY <1>1, <1>2, LdByte DEF A
  <1>4. c1 \in Machine
    BY <1>3 DEF Makes
  <1>5. PICK c2, j2 : /\ Makes(Do("rl", A, A), c1, k, c2, j2)
                      /\ Only(c1, c2, {"A"})
                      /\ j2 = IF 2 * c1["A"] < R THEN 0 ELSE 1
    BY <1>1, <1>4, RlByte DEF A
  <1>6. c2 \in Machine /\ j2 \in 0..1
    BY <1>5 DEF Makes
  <1>7. PICK c3, j3 : /\ Makes(Do("sbc", HL, HL), c2, j2, c3, j3)
                      /\ Differs(c2, c3, "L", "H", "L", "H", j2, j3)
    BY <1>1, <1>2, <1>6, SbcWord DEF HL
  <1>8. c3 \in Machine /\ j3 \in 0..1
    BY <1>7 DEF Makes
  <1>9. PICK c4 : /\ Makes(Ld(DE, HL), c3, j3, c4, j3)
                  /\ Sets2(c3, c4, "E", "D", c3["L"], c3["H"])
    BY <1>1, <1>2, <1>8, LdWord DEF HL, DE
  <1>10. c4 \in Machine
    BY <1>9 DEF Makes
  <1>11. PICK d : /\ Makes(Ld(HL, BC), c4, j3, d, j3)
                  /\ Sets2(c4, d, "L", "H", c4["C"], c4["B"])
    BY <1>1, <1>2, <1>8, <1>10, LdWord DEF HL, BC
  <1>12. Makes(extendhisi2(HLDE, BC), c, k, d, j3)
    <2>1. extendhisi2(HLDE, BC)
            = Ld(A, <<"B">>) \o Do("rl", A, A) \o Do("sbc", HL, HL)
              \o Ld(DE, HL) \o Ld(HL, BC)
      <3>1. Low(HLDE) = HL /\ High(HLDE) = DE /\ High(BC) = <<"B">>
        BY RegisterParts
      <3> QED
        BY <3>1, Zenon DEF extendhisi2
    <2> QED
      BY <1>3, <1>5, <1>7, <1>9, <1>11, <2>1, MakesBoth
  <1>13. Only(c, d, {"A", "L", "H", "E", "D"})
    BY <1>3, <1>5, <1>7, <1>9, <1>11 DEF Sets1, Sets2, Differs, Only
  <1>14. Pair(d, "L", "H") = Pair(c, "C", "B")
    BY <1>2, <1>3, <1>5, <1>7, <1>9, <1>11
       DEF Sets1, Sets2, Differs, Only, Pair
  <1>15. Pair(d, "E", "D") = Pair(c3, "L", "H")
    BY <1>2, <1>9, <1>11 DEF Sets2, Only, Pair
  <1>16. c1["A"] = c["B"]
    BY <1>3 DEF Sets1
  <1>17. Pair(c3, "L", "H") = IF 2 * c["B"] < R THEN 0 ELSE N - 1
    <2>1. PICK u, v : u = Pair(c2, "L", "H") /\ v = Pair(c3, "L", "H")
      OBVIOUS
    <2>2. N \in Nat \ {0} /\ u \in 0..(N - 1) /\ v \in 0..(N - 1)
      BY <1>2, <1>6, <1>8, <2>1, PairRange
    <2>3. v = u - u - j2 + N * j3
      BY <1>7, <2>1 DEF Differs
    <2>4. v = N * j3 - j2
      BY <1>6, <1>8, <2>2, <2>3
    <2>5. v = IF j2 = 0 THEN 0 ELSE N - 1
      BY <1>6, <1>8, <2>2, <2>4
    <2> QED
      BY <1>5, <1>16, <2>1, <2>5
  <1> QED
    BY <1>12, <1>13, <1>14, <1>15, <1>17

\* extendhisi2 from BC to BC and IY.
LEMMA ExtendWordOver ==
  ASSUME NEW c \in Machine, NEW k \in 0..1
  PROVE  \E d, j : /\ Makes(extendhisi2(BCIY, BC), c, k, d, j)
                   /\ Only(c, d, {"A", "C", "B", "IYL", "IYH"})
  <1>1. /\ "A" \in Writable /\ "C" \in Writable /\ "B" \in Writable
        /\ "IYL" \in Writable /\ "IYH" \in Writable
    BY Registers
  <1>2. /\ "A" \in Cells /\ "C" \in Cells /\ "B" \in Cells
        /\ "IYL" \in Cells /\ "IYH" \in Cells
    BY Registers
  <1>3. PICK c1 : /\ Makes(Ld(A, <<"B">>), c, k, c1, k)
                  /\ Sets1(c, c1, "A", c["B"])
    BY <1>1, <1>2, LdByte DEF A
  <1>4. c1 \in Machine
    BY <1>3 DEF Makes
  <1>5. PICK c2, j2 : /\ Makes(Do("rl", A, A), c1, k, c2, j2)
                      /\ Only(c1, c2, {"A"})
    BY <1>1, <1>4, RlByte DEF A
  <1>6. c2 \in Machine /\ j2 \in 0..1
    BY <1>5 DEF Makes
  <1>7. PICK c3, j3 : /\ Makes(Do("sbc", BC, BC), c2, j2, c3, j3)
                      /\ Differs(c2, c3, "C", "B", "C", "B", j2, j3)
    BY <1>1, <1>2, <1>6, SbcWord DEF BC
  <1>8. c3 \in Machine /\ j3 \in 0..1
    BY <1>7 DEF Makes
  <1>9. PICK c4 : /\ Makes(Ld(IY, BC), c3, j3, c4, j3)
                  /\ Sets2(c3, c4, "IYL", "IYH", c3["C"], c3["B"])
    BY <1>1, <1>2, <1>8, LdWord DEF BC, IY
  <1>10. c4 \in Machine
    BY <1>9 DEF Makes
  <1>11. PICK d : /\ Makes(Ld(BC, BC), c4, j3, d, j3)
                  /\ Sets2(c4, d, "C", "B", c4["C"], c4["B"])
    BY <1>1, <1>2, <1>8, <1>10, LdWord DEF BC
  <1>12. Makes(extendhisi2(BCIY, BC), c, k, d, j3)
    <2>1. extendhisi2(BCIY, BC)
            = Ld(A, <<"B">>) \o Do("rl", A, A) \o Do("sbc", BC, BC)
              \o Ld(IY, BC) \o Ld(BC, BC)
      <3>1. Low(BCIY) = BC /\ High(BCIY) = IY /\ High(BC) = <<"B">>
        BY RegisterParts
      <3> QED
        BY <3>1, Zenon DEF extendhisi2
    <2> QED
      BY <1>3, <1>5, <1>7, <1>9, <1>11, <2>1, MakesBoth
  <1>13. Only(c, d, {"A", "C", "B", "IYL", "IYH"})
    BY <1>3, <1>5, <1>7, <1>9, <1>11 DEF Sets1, Sets2, Differs, Only
  <1> QED
    BY <1>12, <1>13

\* A sum, a difference, and the halves of a difference.
LEMMA AddPairs ==
  ASSUME NEW c \in Machine, NEW d \in Machine, NEW a \in Cells,
         NEW b \in Cells, NEW p \in Cells, NEW q \in Cells, NEW j \in 0..1,
         Sums(c, d, a, b, p, q, 0, j)
  PROVE  SetsWord(c, d, a, b, (Pair(c, a, b) + Pair(c, p, q)) % N)
  <1>1. PICK x, y, z : /\ x = Pair(c, a, b) /\ y = Pair(c, p, q)
                       /\ z = Pair(d, a, b)
    OBVIOUS
  <1>2. /\ N \in Nat \ {0} /\ x \in 0..(N - 1) /\ y \in 0..(N - 1)
        /\ z \in 0..(N - 1)
    BY <1>1, PairRange
  <1>3. x + y = N * j + z /\ x + y \in Int /\ j \in Int
    BY <1>1, <1>2 DEF Sums
  <1>4. (x + y) % N = z
    BY <1>2, <1>3, DivModUnique
  <1> QED
    BY <1>1, <1>4 DEF SetsWord, Sums

\* A difference of pairs without borrow is their difference as words.
LEMMA SubtractPairs ==
  ASSUME NEW c \in Machine, NEW d \in Machine, NEW a \in Cells,
         NEW b \in Cells, NEW p \in Cells, NEW q \in Cells, NEW j \in 0..1,
         Differs(c, d, a, b, p, q, 0, j)
  PROVE  SetsWord(c, d, a, b, (Pair(c, a, b) - Pair(c, p, q)) % N)
  <1>1. PICK x, y, z : /\ x = Pair(c, a, b) /\ y = Pair(c, p, q)
                       /\ z = Pair(d, a, b)
    OBVIOUS
  <1>2. /\ N \in Nat \ {0} /\ x \in 0..(N - 1) /\ y \in 0..(N - 1)
        /\ z \in 0..(N - 1)
    BY <1>1, PairRange
  <1>3. x - y = N * (-j) + z /\ x - y \in Int /\ -j \in Int
    BY <1>1, <1>2 DEF Differs
  <1>4. (x - y) % N = z
    BY <1>2, <1>3, DivModUnique
  <1> QED
    BY <1>1, <1>4 DEF SetsWord, Differs

\* The borrow of the low halves makes the high ones a long difference.
LEMMA SubtractHalves ==
  ASSUME NEW M \in Nat \ {0}, NEW x0 \in Int, NEW x1 \in Int,
         NEW y0 \in Int, NEW y1 \in Int, NEW z0 \in 0..(M - 1),
         NEW z1 \in 0..(M - 1), NEW j \in Int, NEW i \in Int,
         z0 = x0 - y0 + M * j, z1 = x1 - y1 - j + M * i
  PROVE  z0 + M * z1 = ((x0 + M * x1) - (y0 + M * y1)) % (M * M)
  <1>1. M * z1 = M * (x1 - y1 - j + M * i)
    OBVIOUS
  <1>2. M * (x1 - y1 - j + M * i) = M * x1 - M * y1 - M * j + (M * M) * i
    OBVIOUS
  <1>3. (x0 + M * x1) - (y0 + M * y1) = (M * M) * (-i) + (z0 + M * z1)
    BY <1>1, <1>2
  <1>4. /\ z0 + M * z1 \in 0..(M * M - 1) /\ M * M \in Nat \ {0}
        /\ (x0 + M * x1) - (y0 + M * y1) \in Int /\ -i \in Int
    BY JoinWord
  <1>5. PICK P, v, q, r :
          /\ P = M * M /\ v = (x0 + M * x1) - (y0 + M * y1)
          /\ q = -i /\ r = z0 + M * z1
    OBVIOUS
  <1>6. /\ P \in Nat \ {0} /\ v \in Int /\ q \in Int /\ r \in 0..(P - 1)
        /\ v = P * q + r
    BY <1>3, <1>4, <1>5
  <1>7. v % P = r
    BY <1>6, DivModUnique
  <1> QED
    BY <1>5, <1>7

AddsConstant(c, d, a, b, p, q) ==
  /\ Only(c, d, {a, b, "s0", "s1"})
  /\ Pair(d, a, b) = (Pair(c, a, b) + Pair(c, p, q)) % N

\* addhi_mov: BC is pushed, used and popped.
LEMMA AddConstant ==
  ASSUME NEW a \in Writable \ {"C", "B", "s0", "s1"},
         NEW b \in Writable \ {"C", "B", "s0", "s1"}, a # b,
         NEW p \in Cells \ {"s0", "s1"}, NEW q \in Cells \ {"s0", "s1"},
         NEW c \in Machine, NEW k \in 0..1
  PROVE  \E d, j : /\ Makes(addhi_mov(<<a, b>>, <<p, q>>), c, k, d, j)
                   /\ AddsConstant(c, d, a, b, p, q)
  <1>1. /\ "C" \in Writable /\ "B" \in Writable /\ "s0" \in Writable
        /\ "s1" \in Writable
    BY Registers
  <1>2. /\ "C" \in Cells /\ "B" \in Cells /\ "s0" \in Cells /\ "s1" \in Cells
        /\ a \in Cells /\ b \in Cells
    BY Registers
  <1>3. PICK c1 : /\ Makes(Ld(Pushed, BC), c, k, c1, k)
                  /\ Sets2(c, c1, "s0", "s1", c["C"], c["B"])
    BY <1>1, <1>2, LdWord DEF BC, Pushed
  <1>4. c1 \in Machine
    BY <1>3 DEF Makes
  <1>5. PICK c2 : /\ Makes(Ld(BC, <<p, q>>), c1, k, c2, k)
                  /\ Sets2(c1, c2, "C", "B", c1[p], c1[q])
    BY <1>1, <1>4, LdWord DEF BC
  <1>6. c2 \in Machine
    BY <1>5 DEF Makes
  <1>7. PICK c3, j : /\ Makes(Do("add", <<a, b>>, BC), c2, k, c3, j)
                     /\ Sums(c2, c3, a, b, "C", "B", 0, j)
    BY <1>2, <1>6, AddWord DEF BC
  <1>8. c3 \in Machine /\ j \in 0..1
    BY <1>7 DEF Makes
  <1>9. PICK d : /\ Makes(Ld(BC, Pushed), c3, j, d, j)
                 /\ Sets2(c3, d, "C", "B", c3["s0"], c3["s1"])
    BY <1>1, <1>2, <1>8, LdWord DEF BC, Pushed
  <1>10. Makes(addhi_mov(<<a, b>>, <<p, q>>), c, k, d, j)
    BY <1>3, <1>5, <1>7, <1>9, MakesBoth DEF addhi_mov
  <1>11. c3["s0"] = c["C"] /\ c3["s1"] = c["B"]
    BY <1>2, <1>3, <1>5, <1>7 DEF Sets2, Sums, Only
  <1>12. Only(c, d, {a, b, "s0", "s1"})
    BY <1>3, <1>5, <1>7, <1>9, <1>11 DEF Sets2, Sums, Only
  <1>13. SetsWord(c2, c3, a, b, (Pair(c2, a, b) + Pair(c2, "C", "B")) % N)
    BY <1>2, <1>6, <1>7, <1>8, AddPairs
  <1>14. Pair(c2, a, b) = Pair(c, a, b) /\ Pair(c2, "C", "B") = Pair(c, p, q)
    BY <1>2, <1>3, <1>5 DEF Sets2, Only, Pair
  <1>15. Pair(d, a, b) = Pair(c3, a, b)
    BY <1>2, <1>9 DEF Sets2, Only, Pair
  <1> QED
    BY <1>10, <1>12, <1>13, <1>14, <1>15 DEF SetsWord, AddsConstant

\* *addhi3: the sum in place, after a load, and before one.
LEMMA AddInPlace ==
  ASSUME NEW a \in Writable, NEW b \in Writable, a # b, NEW p \in Cells,
         NEW q \in Cells, NEW c \in Machine, NEW k \in 0..1
  PROVE  \E d, j : /\ Makes(Do("add", <<a, b>>, <<p, q>>), c, k, d, j)
                   /\ SetsWord(c, d, a, b,
                               (Pair(c, a, b) + Pair(c, p, q)) % N)
  <1>1. a \in Cells /\ b \in Cells
    BY Registers
  <1>2. PICK d, j : /\ Makes(Do("add", <<a, b>>, <<p, q>>), c, k, d, j)
                    /\ Sums(c, d, a, b, p, q, 0, j)
    BY AddWord
  <1>3. d \in Machine /\ j \in 0..1
    BY <1>2 DEF Makes
  <1>4. SetsWord(c, d, a, b, (Pair(c, a, b) + Pair(c, p, q)) % N)
    BY <1>1, <1>2, <1>3, AddPairs
  <1> QED
    BY <1>2, <1>4

\* *addhi3 that loads operand 2 and adds operand 1 to it.
LEMMA LoadThenAdd ==
  ASSUME NEW a \in Writable, NEW b \in Writable, a # b, NEW p \in Cells,
         NEW q \in Cells, NEW r \in Cells \ {a, b}, NEW s \in Cells \ {a, b},
         NEW c \in Machine, NEW k \in 0..1
  PROVE  \E d, j : /\ Makes(Ld(<<a, b>>, <<p, q>>)
                            \o Do("add", <<a, b>>, <<r, s>>), c, k, d, j)
                   /\ SetsWord(c, d, a, b,
                               (Pair(c, p, q) + Pair(c, r, s)) % N)
  <1>1. a \in Cells /\ b \in Cells /\ r \in Cells /\ s \in Cells
    BY Registers
  <1>2. PICK c1 : /\ Makes(Ld(<<a, b>>, <<p, q>>), c, k, c1, k)
                  /\ Sets2(c, c1, a, b, c[p], c[q])
    BY LdWord
  <1>3. c1 \in Machine
    BY <1>2 DEF Makes
  <1>4. PICK d, j : /\ Makes(Do("add", <<a, b>>, <<r, s>>), c1, k, d, j)
                    /\ SetsWord(c1, d, a, b,
                                (Pair(c1, a, b) + Pair(c1, r, s)) % N)
    BY <1>1, <1>3, AddInPlace
  <1>5. Pair(c1, a, b) = Pair(c, p, q) /\ Pair(c1, r, s) = Pair(c, r, s)
    BY <1>1, <1>2 DEF Sets2, Only, Pair
  <1>6. SetsWord(c, d, a, b, (Pair(c, p, q) + Pair(c, r, s)) % N)
    BY <1>2, <1>4, <1>5 DEF SetsWord, Sets2, Only
  <1> QED
    BY <1>2, <1>4, <1>6, MakesBoth

\* subhi3: the carry is cleared before sbc.
LEMMA SubtractWord ==
  ASSUME NEW a \in Writable, NEW b \in Writable, a # b, NEW p \in Cells,
         NEW q \in Cells, NEW c \in Machine, NEW k \in 0..1
  PROVE  \E d, j : /\ Makes(subhi3(<<a, b>>, <<p, q>>), c, k, d, j)
                   /\ SetsWord(c, d, a, b,
                               (Pair(c, a, b) - Pair(c, p, q)) % N)
  <1>1. a \in Cells /\ b \in Cells /\ 0 \in 0..1
    BY Registers
  <1>2. Makes(ClearCarry, c, k, c, 0)
    BY ClearCarryMakes
  <1>3. PICK d, j : /\ Makes(Do("sbc", <<a, b>>, <<p, q>>), c, 0, d, j)
                    /\ Differs(c, d, a, b, p, q, 0, j)
    BY <1>1, SbcWord
  <1>4. d \in Machine /\ j \in 0..1
    BY <1>3 DEF Makes
  <1>5. SetsWord(c, d, a, b, (Pair(c, a, b) - Pair(c, p, q)) % N)
    BY <1>1, <1>3, <1>4, SubtractPairs
  <1> QED
    BY <1>2, <1>3, <1>5, MakesBoth DEF subhi3

\* subsi3 changes its destination and BC, to whatever it is.
LEMMA SubtractLong ==
  ASSUME NEW p \in Cells, NEW q \in Cells, NEW r \in Cells, NEW s \in Cells,
         NEW c \in Machine, NEW k \in 0..1
  PROVE  \E d, j : /\ Makes(subsi3(HLDE, <<p, q, r, s>>), c, k, d, j)
                   /\ Only(c, d, {"L", "H", "E", "D", "C", "B"})
  <1>1. /\ "L" \in Writable /\ "H" \in Writable /\ "E" \in Writable
        /\ "D" \in Writable /\ "C" \in Writable /\ "B" \in Writable
    BY Registers
  <1>2. /\ "L" \in Cells /\ "H" \in Cells /\ "E" \in Cells /\ "D" \in Cells
        /\ "C" \in Cells /\ "B" \in Cells /\ 0 \in 0..1
    BY <1>1, Registers
  <1>3. PICK c1 : /\ Makes(Ld(BC, <<p, q>>), c, k, c1, k)
                  /\ Sets2(c, c1, "C", "B", c[p], c[q])
    BY <1>1, LdWord DEF BC
  <1>4. c1 \in Machine
    BY <1>3 DEF Makes
  <1>5. Makes(ClearCarry, c1, k, c1, 0)
    BY <1>4, ClearCarryMakes
  <1>6. PICK c2, j2 : /\ Makes(Do("sbc", HL, BC), c1, 0, c2, j2)
                      /\ Differs(c1, c2, "L", "H", "C", "B", 0, j2)
    BY <1>1, <1>2, <1>4, SbcWord DEF HL, BC
  <1>7. c2 \in Machine /\ j2 \in 0..1
    BY <1>6 DEF Makes
  <1>8. PICK c3 : /\ Makes(Ld(BC, <<r, s>>), c2, j2, c3, j2)
                  /\ Sets2(c2, c3, "C", "B", c2[r], c2[s])
    BY <1>1, <1>7, LdWord DEF BC
  <1>9. c3 \in Machine
    BY <1>8 DEF Makes
  <1>10. PICK c4 : /\ Makes(Do("ex", HL, DE), c3, j2, c4, j2)
                   /\ Swaps(c3, c4, "L", "H", "E", "D")
    BY <1>1, <1>7, <1>9, ExWord DEF HL, DE
  <1>11. c4 \in Machine
    BY <1>10 DEF Makes
  <1>12. PICK c5, j5 : /\ Makes(Do("sbc", HL, DE), c4, j2, c5, j5)
                       /\ Differs(c4, c5, "L", "H", "E", "D", j2, j5)
    BY <1>1, <1>2, <1>7, <1>11, SbcWord DEF HL, DE
  <1>13. c5 \in Machine /\ j5 \in 0..1
    BY <1>12 DEF Makes
  <1>14. PICK c6 : /\ Makes(Do("ex", HL, DE), c5, j5, c6, j5)
                   /\ Swaps(c5, c6, "L", "H", "E", "D")
    BY <1>1, <1>13, ExWord DEF HL, DE
  <1>15. Makes(subsi3(HLDE, <<p, q, r, s>>), c, k, c6, j5)
    <2>1. /\ Low(HLDE) = HL /\ High(HLDE) = DE
          /\ Low(<<p, q, r, s>>) = <<p, q>> /\ High(<<p, q, r, s>>) = <<r, s>>
      BY LongParts, RegisterParts
    <2>2. subsi3(HLDE, <<p, q, r, s>>)
            = Ld(BC, <<p, q>>) \o ClearCarry \o Do("sbc", HL, BC)
              \o Ld(BC, <<r, s>>) \o Do("ex", HL, DE) \o Do("sbc", HL, DE)
              \o Do("ex", HL, DE)
      BY <2>1, Zenon DEF subsi3
    <2> QED
      BY <1>3, <1>5, <1>6, <1>8, <1>10, <1>12, <1>14, <2>2, MakesBoth
  <1>16. Only(c, c6, {"L", "H", "E", "D", "C", "B"})
    BY <1>3, <1>6, <1>8, <1>10, <1>12, <1>14 DEF Sets2, Differs, Swaps, Only
  <1> QED
    BY <1>15, <1>16

\* Word a, b becomes its combination with p, q, and A is changed.
Combines(op, c, d, a, b, p, q) ==
  /\ Only(c, d, {a, b, "A"})
  /\ a # b /\ a # q =>
       /\ d[a] = Bits(op, c[a], c[p])
       /\ d[b] = Bits(op, c[b], c[q])

\* andhi3, iorhi3 and xorhi3, with parts a and b, and p and q.
LEMMA LogicWord ==
  ASSUME NEW op \in LogicOps, NEW a \in Writable \ {"A"},
         NEW b \in Writable \ {"A"}, NEW p \in Cells \ {"A"},
         NEW q \in Cells \ {"A"}, NEW x, Low(x) = <<a>>, High(x) = <<b>>,
         NEW y, Low(y) = <<p>>, High(y) = <<q>>, NEW c \in Machine,
         NEW k \in 0..1
  PROVE  \E d, j : /\ Makes(logichi3(op, x, y), c, k, d, j)
                   /\ Combines(op, c, d, a, b, p, q)
  <1>1. /\ "A" \in Writable /\ "A" \in Cells /\ a \in Cells /\ b \in Cells
        /\ p \in Cells /\ q \in Cells /\ 0 \in 0..1
    BY Registers
  <1>2. PICK c1 : /\ Makes(Ld(A, <<a>>), c, k, c1, k)
                  /\ Sets1(c, c1, "A", c[a])
    BY <1>1, LdByte DEF A
  <1>3. c1 \in Machine
    BY <1>2 DEF Makes
  <1>4. PICK c2 : /\ Makes(Do(op, A, <<p>>), c1, k, c2, 0)
                  /\ Sets1(c1, c2, "A", Bits(op, c1["A"], c1[p]))
    BY <1>1, <1>3, LogicByte DEF A
  <1>5. c2 \in Machine
    BY <1>4 DEF Makes
  <1>6. PICK c3 : /\ Makes(Ld(<<a>>, A), c2, 0, c3, 0)
                  /\ Sets1(c2, c3, a, c2["A"])
    BY <1>1, <1>5, LdByte DEF A
  <1>7. c3 \in Machine
    BY <1>6 DEF Makes
  <1>8. PICK c4 : /\ Makes(Ld(A, <<b>>), c3, 0, c4, 0)
                  /\ Sets1(c3, c4, "A", c3[b])
    BY <1>1, <1>7, LdByte DEF A
  <1>9. c4 \in Machine
    BY <1>8 DEF Makes
  <1>10. PICK c5 : /\ Makes(Do(op, A, <<q>>), c4, 0, c5, 0)
                   /\ Sets1(c4, c5, "A", Bits(op, c4["A"], c4[q]))
    BY <1>1, <1>9, LogicByte DEF A
  <1>11. c5 \in Machine
    BY <1>10 DEF Makes
  <1>12. PICK d : /\ Makes(Ld(<<b>>, A), c5, 0, d, 0)
                  /\ Sets1(c5, d, b, c5["A"])
    BY <1>1, <1>11, LdByte DEF A
  <1>13. Makes(logichi3(op, x, y), c, k, d, 0)
    <2>1. logichi3(op, x, y)
            = Ld(A, <<a>>) \o Do(op, A, <<p>>) \o Ld(<<a>>, A)
              \o Ld(A, <<b>>) \o Do(op, A, <<q>>) \o Ld(<<b>>, A)
      BY Zenon DEF logichi3
    <2> QED
      BY <1>2, <1>4, <1>6, <1>8, <1>10, <1>12, <2>1, MakesBoth
  <1>14. Only(c, d, {a, b, "A"})
    BY <1>2, <1>4, <1>6, <1>8, <1>10, <1>12 DEF Sets1, Only
  <1>15. ASSUME a # b, a # q
         PROVE  /\ d[a] = Bits(op, c[a], c[p])
                /\ d[b] = Bits(op, c[b], c[q])
    <2>1. c1["A"] = c[a] /\ c1[p] = c[p]
      BY <1>1, <1>2 DEF Sets1, Only
    <2>2. c3[a] = Bits(op, c[a], c[p]) /\ c3[b] = c[b] /\ c3[q] = c[q]
      BY <1>1, <1>2, <1>4, <1>6, <1>15, <2>1 DEF Sets1, Only
    <2>3. c4["A"] = c[b] /\ c4[q] = c[q] /\ c4[a] = c3[a]
      BY <1>1, <1>8, <2>2 DEF Sets1, Only
    <2> QED
      BY <1>1, <1>10, <1>12, <1>15, <2>2, <2>3 DEF Sets1, Only
  <1> QED
    BY <1>13, <1>14, <1>15 DEF Combines

\* andsi3, iorsi3 and xorsi3, through BC.
LEMMA LogicLong ==
  ASSUME NEW op \in LogicOps, NEW p \in Cells, NEW q \in Cells,
         NEW r \in Cells \ {"A", "L", "H", "C", "B"},
         NEW s \in Cells \ {"A", "L", "H", "C", "B"},
         NEW c \in Machine, NEW k \in 0..1
  PROVE  \E d, j : /\ Makes(logicsi3(op, HLDE, <<p, q, r, s>>), c, k, d, j)
                   /\ Only(c, d, {"L", "H", "E", "D", "A", "C", "B"})
                   /\ d["L"] = Bits(op, c["L"], c[p])
                   /\ d["H"] = Bits(op, c["H"], c[q])
                   /\ d["E"] = Bits(op, c["E"], c[r])
                   /\ d["D"] = Bits(op, c["D"], c[s])
  <1>1. /\ "L" \in Writable \ {"A"} /\ "H" \in Writable \ {"A"}
        /\ "E" \in Writable \ {"A"} /\ "D" \in Writable \ {"A"}
        /\ "C" \in Writable /\ "B" \in Writable
    BY Registers
  <1>2. /\ "L" \in Cells /\ "H" \in Cells /\ "E" \in Cells /\ "D" \in Cells
        /\ "C" \in Cells \ {"A"} /\ "B" \in Cells \ {"A"}
        /\ r \in Cells /\ s \in Cells
    BY Registers
  <1>3. /\ Low(HL) = <<"L">> /\ High(HL) = <<"H">>
        /\ Low(DE) = <<"E">> /\ High(DE) = <<"D">>
        /\ Low(BC) = <<"C">> /\ High(BC) = <<"B">>
    BY RegisterParts
  <1>4. PICK c1 : /\ Makes(Ld(BC, <<p, q>>), c, k, c1, k)
                  /\ Sets2(c, c1, "C", "B", c[p], c[q])
    BY <1>1, LdWord DEF BC
  <1>5. c1 \in Machine
    BY <1>4 DEF Makes
  <1>6. PICK c2, j2 : /\ Makes(logichi3(op, HL, BC), c1, k, c2, j2)
                      /\ Combines(op, c1, c2, "L", "H", "C", "B")
    BY <1>1, <1>2, <1>3, <1>5, LogicWord
  <1>7. c2 \in Machine /\ j2 \in 0..1
    BY <1>6 DEF Makes
  <1>8. PICK c3 : /\ Makes(Ld(BC, <<r, s>>), c2, j2, c3, j2)
                  /\ Sets2(c2, c3, "C", "B", c2[r], c2[s])
    BY <1>1, <1>2, <1>7, LdWord DEF BC
  <1>9. c3 \in Machine
    BY <1>8 DEF Makes
  <1>10. PICK d, j : /\ Makes(logichi3(op, DE, BC), c3, j2, d, j)
                     /\ Combines(op, c3, d, "E", "D", "C", "B")
    BY <1>1, <1>2, <1>3, <1>7, <1>9, LogicWord
  <1>11. Makes(logicsi3(op, HLDE, <<p, q, r, s>>), c, k, d, j)
    <2>1. /\ Low(HLDE) = HL /\ High(HLDE) = DE
          /\ Low(<<p, q, r, s>>) = <<p, q>> /\ High(<<p, q, r, s>>) = <<r, s>>
      BY LongParts, RegisterParts
    <2>2. logicsi3(op, HLDE, <<p, q, r, s>>)
            = Ld(BC, <<p, q>>) \o logichi3(op, HL, BC)
              \o Ld(BC, <<r, s>>) \o logichi3(op, DE, BC)
      BY <2>1, Zenon DEF logicsi3
    <2> QED
      BY <1>4, <1>6, <1>8, <1>10, <2>2, MakesBoth
  <1>12. Only(c, d, {"L", "H", "E", "D", "A", "C", "B"})
    BY <1>4, <1>6, <1>8, <1>10 DEF Sets2, Combines, Only
  <1>13. /\ c1["L"] = c["L"] /\ c1["H"] = c["H"]
         /\ c1["C"] = c[p] /\ c1["B"] = c[q]
    BY <1>2, <1>4 DEF Sets2, Only
  <1>14. /\ d["L"] = c2["L"] /\ d["H"] = c2["H"]
         /\ c2["L"] = Bits(op, c1["L"], c1["C"])
         /\ c2["H"] = Bits(op, c1["H"], c1["B"])
    BY <1>2, <1>6, <1>8, <1>10 DEF Sets2, Combines, Only
  <1>15. /\ c3["E"] = c["E"] /\ c3["D"] = c["D"]
         /\ c3["C"] = c[r] /\ c3["B"] = c[s]
    BY <1>2, <1>4, <1>6, <1>8 DEF Sets2, Combines, Only
  <1>16. /\ d["E"] = Bits(op, c3["E"], c3["C"])
         /\ d["D"] = Bits(op, c3["D"], c3["B"])
    BY <1>10 DEF Combines
  <1> QED
    BY <1>11, <1>12, <1>13, <1>14, <1>15, <1>16

\* Word a, b becomes what it leaves of p, q, borrow j, and HL is changed.
Negates(c, d, a, b, p, q, j) ==
  /\ Only(c, d, {a, b, "L", "H"})
  /\ Pair(d, a, b) = Pair(c, p, q) - Pair(c, a, b) + N * j

\* neghi2 and one_cmplhi2: HL, which k is loaded to, less the word a, b.
LEMMA NegateWord ==
  ASSUME NEW a \in Writable \ {"L", "H"}, NEW b \in Writable \ {"L", "H"},
         a # b, NEW p \in Cells, NEW q \in Cells, NEW c \in Machine,
         NEW k \in 0..1
  PROVE  \E d, j : /\ Makes(negatehi2(<<a, b>>, <<p, q>>), c, k, d, j)
                   /\ Negates(c, d, a, b, p, q, j)
  <1>1. "L" \in Writable /\ "H" \in Writable
    BY Registers
  <1>2. /\ "L" \in Cells /\ "H" \in Cells /\ a \in Cells /\ b \in Cells
        /\ 0 \in 0..1
    BY Registers
  <1>3. PICK c1 : /\ Makes(Ld(HL, <<p, q>>), c, k, c1, k)
                  /\ Sets2(c, c1, "L", "H", c[p], c[q])
    BY <1>1, LdWord DEF HL
  <1>4. c1 \in Machine
    BY <1>3 DEF Makes
  <1>5. Makes(ClearCarry, c1, k, c1, 0)
    BY <1>4, ClearCarryMakes
  <1>6. PICK c2, j : /\ Makes(Do("sbc", HL, <<a, b>>), c1, 0, c2, j)
                     /\ Differs(c1, c2, "L", "H", a, b, 0, j)
    BY <1>1, <1>2, <1>4, SbcWord DEF HL
  <1>7. c2 \in Machine /\ j \in 0..1
    BY <1>6 DEF Makes
  <1>8. PICK d : /\ Makes(Ld(<<a, b>>, HL), c2, j, d, j)
                 /\ Sets2(c2, d, a, b, c2["L"], c2["H"])
    BY <1>2, <1>7, LdWord DEF HL
  <1>9. Makes(negatehi2(<<a, b>>, <<p, q>>), c, k, d, j)
    BY <1>3, <1>5, <1>6, <1>8, MakesBoth DEF negatehi2
  <1>10. Only(c, d, {a, b, "L", "H"})
    BY <1>3, <1>6, <1>8 DEF Sets2, Differs, Only
  <1>11. /\ Pair(c1, "L", "H") = Pair(c, p, q)
         /\ Pair(c1, a, b) = Pair(c, a, b)
         /\ Pair(d, a, b) = Pair(c2, "L", "H")
    BY <1>2, <1>3, <1>8 DEF Sets2, Only, Pair
  <1>12. PICK x, y : x = Pair(c, p, q) /\ y = Pair(c, a, b)
    OBVIOUS
  <1>13. x \in 0..(N - 1) /\ y \in 0..(N - 1) /\ N \in Nat \ {0}
    BY <1>2, <1>12, PairRange
  <1>14. Pair(d, a, b) = x - y + N * j
    BY <1>6, <1>7, <1>11, <1>12, <1>13 DEF Differs
  <1> QED
    BY <1>9, <1>10, <1>12, <1>14 DEF Negates

\* negsi2 and one_cmplsi2: the borrow of the low half, which goes by BC,
\* reaches the high one.
LEMMA NegateLong ==
  ASSUME NEW p \in Cells \ {"L", "H", "E", "D", "C", "B"},
         NEW q \in Cells \ {"L", "H", "E", "D", "C", "B"},
         NEW c \in Machine, NEW k \in 0..1
  PROVE  \E d, j : /\ Makes(negatesi2(HLDE, <<p, q>>), c, k, d, j)
                   /\ Only(c, d, {"L", "H", "E", "D", "C", "B"})
                   /\ Val(d, HLDE) = ((Pair(c, p, q) + N * Pair(c, p, q))
                                        - Val(c, HLDE)) % Size(HLDE)
  <1>1. /\ "L" \in Writable /\ "H" \in Writable /\ "E" \in Writable
        /\ "D" \in Writable /\ "C" \in Writable /\ "B" \in Writable
        /\ "C" \in Writable \ {"L", "H"} /\ "B" \in Writable \ {"L", "H"}
    BY Registers
  <1>2. /\ "L" \in Cells /\ "H" \in Cells /\ "E" \in Cells /\ "D" \in Cells
        /\ "C" \in Cells /\ "B" \in Cells /\ p \in Cells /\ q \in Cells
    BY Registers
  <1>3. PICK c1 : /\ Makes(Ld(BC, HL), c, k, c1, k)
                  /\ Sets2(c, c1, "C", "B", c["L"], c["H"])
    BY <1>1, <1>2, LdWord DEF BC, HL
  <1>4. c1 \in Machine
    BY <1>3 DEF Makes
  <1>5. PICK c2, j2 : /\ Makes(negatehi2(BC, <<p, q>>), c1, k, c2, j2)
                      /\ Negates(c1, c2, "C", "B", p, q, j2)
    BY <1>1, <1>2, <1>4, NegateWord DEF BC
  <1>6. c2 \in Machine /\ j2 \in 0..1
    BY <1>5 DEF Makes
  <1>7. PICK c3 : /\ Makes(Ld(HL, <<p, q>>), c2, j2, c3, j2)
                  /\ Sets2(c2, c3, "L", "H", c2[p], c2[q])
    BY <1>1, <1>2, <1>6, LdWord DEF HL
  <1>8. c3 \in Machine
    BY <1>7 DEF Makes
  <1>9. PICK c4, j4 : /\ Makes(Do("sbc", HL, DE), c3, j2, c4, j4)
                      /\ Differs(c3, c4, "L", "H", "E", "D", j2, j4)
    BY <1>1, <1>2, <1>6, <1>8, SbcWord DEF HL, DE
  <1>10. c4 \in Machine /\ j4 \in 0..1
    BY <1>9 DEF Makes
  <1>11. PICK c5 : /\ Makes(Ld(DE, HL), c4, j4, c5, j4)
                   /\ Sets2(c4, c5, "E", "D", c4["L"], c4["H"])
    BY <1>1, <1>2, <1>10, LdWord DEF HL, DE
  <1>12. c5 \in Machine
    BY <1>11 DEF Makes
  <1>13. PICK d : /\ Makes(Ld(HL, BC), c5, j4, d, j4)
                  /\ Sets2(c5, d, "L", "H", c5["C"], c5["B"])
    BY <1>1, <1>2, <1>10, <1>12, LdWord DEF HL, BC
  <1>14. d \in Machine
    BY <1>13 DEF Makes
  <1>15. Makes(negatesi2(HLDE, <<p, q>>), c, k, d, j4)
    <2>1. Low(HLDE) = HL /\ High(HLDE) = DE
      BY RegisterParts
    <2>2. negatesi2(HLDE, <<p, q>>)
            = Ld(BC, HL) \o negatehi2(BC, <<p, q>>) \o Ld(HL, <<p, q>>)
              \o Do("sbc", HL, DE) \o Ld(DE, HL) \o Ld(HL, BC)
      BY <2>1, Zenon DEF negatesi2
    <2> QED
      BY <1>3, <1>5, <1>7, <1>9, <1>11, <1>13, <2>2, MakesBoth
  <1>16. Only(c, d, {"L", "H", "E", "D", "C", "B"})
    BY <1>3, <1>5, <1>7, <1>9, <1>11, <1>13
       DEF Sets2, Negates, Differs, Only
  <1>17. /\ Pair(c1, "C", "B") = Pair(c, "L", "H")
         /\ Pair(c1, p, q) = Pair(c, p, q)
    BY <1>2, <1>3 DEF Sets2, Only, Pair
  <1>18. /\ Pair(c3, "L", "H") = Pair(c, p, q)
         /\ Pair(c3, "E", "D") = Pair(c, "E", "D")
         /\ Pair(c3, "C", "B") = Pair(c2, "C", "B")
    BY <1>2, <1>3, <1>5, <1>7 DEF Sets2, Negates, Only, Pair
  <1>19. /\ Pair(d, "L", "H") = Pair(c3, "C", "B")
         /\ Pair(d, "E", "D") = Pair(c4, "L", "H")
    BY <1>2, <1>9, <1>11, <1>13 DEF Sets2, Differs, Only, Pair
  <1>20. PICK x, y0, y1, z0, z1 :
           /\ x = Pair(c, p, q)
           /\ y0 = Pair(c, "L", "H") /\ y1 = Pair(c, "E", "D")
           /\ z0 = Pair(d, "L", "H") /\ z1 = Pair(d, "E", "D")
    OBVIOUS
  <1>21. /\ N \in Nat \ {0} /\ x \in Int /\ y0 \in Int /\ y1 \in Int
         /\ z0 \in 0..(N - 1) /\ z1 \in 0..(N - 1)
    <2>1. /\ N \in Nat \ {0} /\ Pair(d, "L", "H") \in 0..(N - 1)
          /\ Pair(d, "E", "D") \in 0..(N - 1)
      BY <1>2, <1>14, PairRange
    <2>2. /\ Pair(c, "L", "H") \in 0..(N - 1)
          /\ Pair(c, "E", "D") \in 0..(N - 1) /\ Pair(c, p, q) \in 0..(N - 1)
      BY <1>2, PairRange
    <2> QED
      BY <1>20, <2>1, <2>2
  <1>22. z0 = x - y0 + N * j2
    BY <1>5, <1>17, <1>18, <1>19, <1>20 DEF Negates
  <1>23. z1 = x - y1 - j2 + N * j4
    BY <1>9, <1>18, <1>19, <1>20 DEF Differs
  <1>24. z0 + N * z1 = ((x + N * x) - (y0 + N * y1)) % (N * N)
    BY <1>6, <1>10, <1>21, <1>22, <1>23, SubtractHalves
  <1>25. Val(d, HLDE) = z0 + N * z1 /\ Val(c, HLDE) = y0 + N * y1
    BY <1>2, <1>14, <1>20, LongRange, Operands
  <1>26. Size(HLDE) = N * N
    BY <1>2, LongRange, Operands
  <1>27. Val(d, HLDE) = ((Pair(c, p, q) + N * Pair(c, p, q)) - Val(c, HLDE))
                        % Size(HLDE)
    BY <1>20, <1>24, <1>25, <1>26, Zenon
  <1> QED
    BY <1>15, <1>16, <1>27

(***************************************************************************)
(* The insns.                                                              *)
(***************************************************************************)

\* From cells c to cells d, insn i keeps what it may not change, and gives
\* operand 0 the value it is meant to.
KeptBy(i, c, d) ==
  \A b \in Cells \ Range(i.to \o Clobbers(i) \o Pushed) : d[b] = c[b]
RightFor(i, c, d) ==
  LET p == Digits(c, i.one)
      q == Digits(c, i.two)
  IN Val(d, i.to) = IF i.swapped THEN Meaning(i, q, p) ELSE Meaning(i, p, q)

\* The instructions for insn i, from cells c and any carry.
Correct(i, v, c) ==
  \A k \in 0..1 : \E d, j :
    /\ Makes(Output(i, v), c, k, d, j)
    /\ i \notin Destructive => KeptBy(i, c, d)
    /\ i \notin Wrong => RightFor(i, c, d)

\* The cells of the constants.
HoldsConstants(c) == c["zero"] = 0 /\ c["one"] = 1 /\ c["ones"] = R - 1

\* A concatenation has the cells of both parts.
LEMMA RangeConcat ==
  ASSUME NEW S, NEW s \in Seq(S), NEW t \in Seq(S)
  PROVE  /\ s \o t \in Seq(S)
         /\ Range(s) \cup Range(t) \subseteq Range(s \o t)
  <1>1. /\ s \o t \in Seq(S) /\ Len(s) \in Nat /\ Len(t) \in Nat
        /\ Len(s \o t) = Len(s) + Len(t)
        /\ DOMAIN s = 1..Len(s) /\ DOMAIN t = 1..Len(t)
        /\ DOMAIN (s \o t) = 1..Len(s \o t)
    BY ConcatProperties, LenProperties
  <1>2. \A n \in 1..(Len(s) + Len(t)) :
          (s \o t)[n] = IF n <= Len(s) THEN s[n] ELSE t[n - Len(s)]
    BY ConcatProperties
  <1>3. ASSUME NEW n \in 1..Len(s)
        PROVE  s[n] \in Range(s \o t)
    <2>1. n \in DOMAIN (s \o t) /\ (s \o t)[n] = s[n]
      BY <1>1, <1>2
    <2> QED
      BY <2>1 DEF Range
  <1>4. ASSUME NEW n \in 1..Len(t)
        PROVE  t[n] \in Range(s \o t)
    <2>1. PICK m \in Nat : m = Len(s) + n
      BY <1>1
    <2>2. m \in DOMAIN (s \o t) /\ (s \o t)[m] = t[n]
      BY <1>1, <1>2, <2>1
    <2> QED
      BY <2>2 DEF Range
  <1> QED
    BY <1>1, <1>3, <1>4 DEF Range

\* What is changed is in operand 0, a scratch register or on the stack.
LEMMA KeptIf ==
  ASSUME NEW i, NEW c, NEW d, NEW S, i.to \in Seq(Cells),
         Clobbers(i) \in Seq(Cells), Only(c, d, S),
         S \subseteq Range(i.to) \cup Range(Clobbers(i)) \cup {"s0", "s1"}
  PROVE  KeptBy(i, c, d)
  <1>1. Pushed \in Seq(Cells) /\ Range(Pushed) = {"s0", "s1"}
    <2>1. "s0" \in Cells /\ "s1" \in Cells
      BY Registers
    <2> QED
      BY <2>1 DEF Pushed, Range
  <1>2. /\ i.to \o Clobbers(i) \in Seq(Cells)
        /\ Range(i.to) \cup Range(Clobbers(i))
             \subseteq Range(i.to \o Clobbers(i))
    BY RangeConcat
  <1>3. Range(i.to \o Clobbers(i)) \cup Range(Pushed)
          \subseteq Range(i.to \o Clobbers(i) \o Pushed)
    BY <1>1, <1>2, RangeConcat
  <1> QED
    BY <1>1, <1>2, <1>3 DEF KeptBy, Only

\* What only writes operand 0 keeps all else.
LEMMA KeptBeside ==
  ASSUME NEW i, NEW c, NEW d, NEW S, i.to \in Seq(Cells),
         Clobbers(i) = <<>>, Only(c, d, S), S \subseteq Range(i.to)
  PROVE  KeptBy(i, c, d)
  <1>1. Clobbers(i) \in Seq(Cells)
    OBVIOUS
  <1> QED
    BY <1>1, KeptIf

\* What each expression means.
LEMMA RightSet ==
  ASSUME NEW i, NEW c, NEW d, i.rtx = "set" \/ i.rtx = "zero_extend",
         i.swapped = FALSE, Val(d, i.to) = Val(c, i.one)
  PROVE  RightFor(i, c, d)
  <1>1. PICK p, q : p = Digits(c, i.one) /\ q = Digits(c, i.two)
    OBVIOUS
  <1>2. Meaning(i, p, q) = Num(p)
    BY DEF Meaning, LogicOps
  <1>3. Num(p) = Val(c, i.one)
    BY <1>1 DEF Val
  <1> QED
    BY <1>1, <1>2, <1>3 DEF RightFor

\* A sum is right, whether its operands were exchanged or not.
LEMMA RightPlus ==
  ASSUME NEW i, NEW c, NEW d, i.rtx = "plus", Val(c, i.one) \in Int,
         Val(c, i.two) \in Int, i.swapped \in BOOLEAN,
         Val(d, i.to) = (Val(c, i.one) + Val(c, i.two)) % Size(i.to)
  PROVE  RightFor(i, c, d)
  <1>1. Val(c, i.one) + Val(c, i.two) = Val(c, i.two) + Val(c, i.one)
    OBVIOUS
  <1>2. PICK p, q : p = Digits(c, i.one) /\ q = Digits(c, i.two)
    OBVIOUS
  <1>3. /\ Meaning(i, p, q) = (Num(p) + Num(q)) % Size(i.to)
        /\ Meaning(i, q, p) = (Num(q) + Num(p)) % Size(i.to)
    BY DEF Meaning, LogicOps
  <1>4. Num(p) = Val(c, i.one) /\ Num(q) = Val(c, i.two)
    BY <1>2 DEF Val
  <1>5. Meaning(i, p, q) = Val(d, i.to) /\ Meaning(i, q, p) = Val(d, i.to)
    BY <1>1, <1>3, <1>4
  <1> QED
    BY <1>2, <1>5 DEF RightFor

\* A difference is right if its operands were not exchanged.
LEMMA RightMinus ==
  ASSUME NEW i, NEW c, NEW d, i.rtx = "minus", i.swapped = FALSE,
         Val(d, i.to) = (Val(c, i.one) - Val(c, i.two)) % Size(i.to)
  PROVE  RightFor(i, c, d)
  <1>1. PICK p, q : p = Digits(c, i.one) /\ q = Digits(c, i.two)
    OBVIOUS
  <1>2. Meaning(i, p, q) = (Num(p) - Num(q)) % Size(i.to)
    BY DEF Meaning, LogicOps
  <1>3. Num(p) = Val(c, i.one) /\ Num(q) = Val(c, i.two)
    BY <1>1 DEF Val
  <1> QED
    BY <1>1, <1>2, <1>3 DEF RightFor

\* neg and not.
LEMMA RightNegation ==
  ASSUME NEW i, NEW c, NEW d, i.swapped = FALSE,
         \/ i.rtx = "neg" /\ Val(d, i.to) = (-Val(c, i.one)) % Size(i.to)
         \/ i.rtx = "not" /\ Val(d, i.to) = Size(i.to) - 1 - Val(c, i.one)
  PROVE  RightFor(i, c, d)
  <1>1. PICK p, q : p = Digits(c, i.one) /\ q = Digits(c, i.two)
    OBVIOUS
  <1>2. Num(p) = Val(c, i.one)
    BY <1>1 DEF Val
  <1>3. CASE i.rtx = "neg"
    <2>1. Meaning(i, p, q) = (-Num(p)) % Size(i.to)
      BY <1>3 DEF Meaning, LogicOps
    <2> QED
      BY <1>1, <1>2, <1>3, <2>1 DEF RightFor
  <1>4. CASE i.rtx = "not"
    <2>1. Meaning(i, p, q) = Size(i.to) - 1 - Num(p)
      BY <1>4 DEF Meaning, LogicOps
    <2> QED
      BY <1>1, <1>2, <1>4, <2>1 DEF RightFor
  <1> QED
    BY <1>3, <1>4

\* Sign extension.
LEMMA RightSign ==
  ASSUME NEW i, NEW c, NEW d, i.rtx = "sign_extend", i.swapped = FALSE,
         Val(d, i.to)
           = IF 2 * Val(c, i.one) < Size(i.one) THEN Val(c, i.one)
             ELSE Val(c, i.one) + (Size(i.to) - Size(i.one))
  PROVE  RightFor(i, c, d)
  <1>1. PICK p, q : p = Digits(c, i.one) /\ q = Digits(c, i.two)
    OBVIOUS
  <1>2. Num(p) = Val(c, i.one)
    BY <1>1 DEF Val
  <1>3. Meaning(i, p, q)
          = IF 2 * Num(p) < Size(i.one) THEN Num(p)
            ELSE Num(p) + (Size(i.to) - Size(i.one))
    BY DEF Meaning, LogicOps
  <1> QED
    BY <1>1, <1>2, <1>3 DEF RightFor

\* Logic is right when each byte is, exchanged operands or not.
LEMMA RightLogic ==
  ASSUME NEW i, NEW c, NEW d, i.rtx \in LogicOps, i.swapped \in BOOLEAN,
         Len(i.to) \in Nat, Len(i.one) = Len(i.to), Len(i.two) = Len(i.to),
         \A n \in 1..Len(i.to) : /\ c[i.one[n]] \in 0..(R - 1)
                                 /\ c[i.two[n]] \in 0..(R - 1)
                                 /\ d[i.to[n]] = Bits(i.rtx, c[i.one[n]],
                                                      c[i.two[n]])
  PROVE  RightFor(i, c, d)
  <1>1. PICK p, q : p = Digits(c, i.one) /\ q = Digits(c, i.two)
    OBVIOUS
  <1>2. /\ Len(p) = Len(i.to) /\ Len(q) = Len(i.to)
        /\ \A n \in 1..Len(i.to) :
             p[n] = c[i.one[n]] /\ q[n] = c[i.two[n]]
    BY <1>1 DEF Digits
  <1>3. \A n \in 1..Len(i.to) : /\ d[i.to[n]] = Bits(i.rtx, p[n], q[n])
                                /\ d[i.to[n]] = Bits(i.rtx, q[n], p[n])
    <2> TAKE n \in 1..Len(i.to)
    <2>1. p[n] \in 0..(R - 1) /\ q[n] \in 0..(R - 1)
      BY <1>2
    <2>2. Bits(i.rtx, p[n], q[n]) = Bits(i.rtx, q[n], p[n])
      BY <2>1, BitsByte
    <2> QED
      BY <1>2, <2>2
  <1>4. /\ Digits(d, i.to) = [n \in 1..Len(p) |-> Bits(i.rtx, p[n], q[n])]
        /\ Digits(d, i.to) = [n \in 1..Len(q) |-> Bits(i.rtx, q[n], p[n])]
    BY <1>2, <1>3 DEF Digits
  <1>5. /\ Meaning(i, p, q) = Val(d, i.to)
        /\ Meaning(i, q, p) = Val(d, i.to)
    <2>1. /\ Meaning(i, p, q)
               = Num([n \in 1..Len(p) |-> Bits(i.rtx, p[n], q[n])])
          /\ Meaning(i, q, p)
               = Num([n \in 1..Len(q) |-> Bits(i.rtx, q[n], p[n])])
      BY DEF Meaning, LogicOps
    <2> QED
      BY <1>4, <2>1 DEF Val
  <1> QED
    BY <1>1, <1>5 DEF RightFor

\* Four cells, the last two none of the first two of any long operand.
IsLong(o) ==
  /\ o = <<o[1], o[2], o[3], o[4]>>
  /\ o[1] \in Cells /\ o[2] \in Cells
  /\ o[3] \in Cells \ {"A", "L", "H", "C", "B", "m0", "m1"}
  /\ o[4] \in Cells \ {"A", "L", "H", "C", "B", "m0", "m1"}

\* Four cells to write.
IsLongPlace(o) ==
  /\ IsLong(o)
  /\ o[1] \in Writable /\ o[2] \in Writable
  /\ o[3] \in Writable /\ o[4] \in Writable
  /\ o[1] \in {"L", "H", "C", "B", "m0", "m1"}
  /\ o[2] \in {"L", "H", "C", "B", "m0", "m1"}
  /\ o[1] # o[2] /\ o[3] # o[4]

\* Two cells to write.
IsWordPlace(w) ==
  /\ w = <<w[1], w[2]>> /\ w[1] # w[2]
  /\ w[1] \in Writable \ {"A", "s0", "s1"}
  /\ w[2] \in Writable \ {"A", "s0", "s1"}

\* The longs that are operands.
LEMMA LongShapes ==
  /\ IsLongPlace(HLDE) /\ IsLongPlace(BCIY) /\ IsLongPlace(Mem(4))
  /\ IsLong(Mem2(4)) /\ IsLong(Imm(4))
  <1>1. IsLong(HLDE) /\ IsLong(BCIY) /\ IsLong(Mem(4))
    BY Operands, CellNames DEF IsLong
  <1>2. IsLong(Mem2(4)) /\ IsLong(Imm(4))
    BY Operands, CellNames DEF IsLong
  <1>3. IsLongPlace(HLDE)
    BY <1>1, Operands, CellNames DEF IsLongPlace
  <1>4. IsLongPlace(BCIY)
    BY <1>1, Operands, CellNames DEF IsLongPlace
  <1>5. IsLongPlace(Mem(4))
    BY <1>1, Operands, CellNames DEF IsLongPlace
  <1> QED
    BY <1>2, <1>3, <1>4, <1>5

\* Every pair of registers can be loaded.
LEMMA WordShapes ==
  ASSUME NEW w \in Words
  PROVE  IsWordPlace(w)
  <1>1. IsWordPlace(HL) /\ IsWordPlace(DE) /\ IsWordPlace(BC)
    BY CellNames DEF IsWordPlace, HL, DE, BC
  <1>2. IsWordPlace(IX) /\ IsWordPlace(IY)
    BY CellNames DEF IsWordPlace, IX, IY
  <1> QED
    BY <1>1, <1>2 DEF Words

\* movsi
LEMMA MovesCorrect ==
  ASSUME NEW i \in Moves, NEW v, NEW c \in Machine
  PROVE  Correct(i, v, c)
  <1>1. PICK t \in Longs \cup {Mem(4)}, o \in Longs \cup {Mem2(4), Imm(4)} :
          i = [rtx |-> "set", to |-> t, one |-> o, two |-> <<>>,
               swapped |-> FALSE]
    BY DEF Moves, Unary
  <1>2. i.rtx = "set" /\ i.to = t /\ i.one = o /\ i.swapped = FALSE
    BY <1>1
  <1>3. Output(i, v) = z80_split_move(t, o)
    BY <1>2 DEF Output, LogicOps
  <1>4. IsLongPlace(t) /\ IsLong(o)
    BY LongShapes DEF Longs, IsLongPlace
  <1>5. PICK p, q, r, s : p = o[1] /\ q = o[2] /\ r = o[3] /\ s = o[4]
    OBVIOUS
  <1>6. PICK a, b, e, f : a = t[1] /\ b = t[2] /\ e = t[3] /\ f = t[4]
    OBVIOUS
  <1>7. /\ o = <<p, q, r, s>> /\ p \in Cells /\ q \in Cells
        /\ r \in Cells \ {a, b} /\ s \in Cells \ {a, b}
    BY <1>4, <1>5, <1>6 DEF IsLongPlace, IsLong
  <1>8. /\ t = <<a, b, e, f>> /\ a \in Writable /\ b \in Writable
        /\ e \in Writable /\ f \in Writable
        /\ a # b /\ e # f /\ {a, b} \cap {e, f} = {}
    BY <1>4, <1>6 DEF IsLongPlace, IsLong
  <1>9. i.to \in Seq(Cells) /\ Range(i.to) = {a, b, e, f}
    BY <1>2, <1>8, Registers DEF Range
  <1>10. SUFFICES ASSUME NEW k \in 0..1
                  PROVE  \E d, j : /\ Makes(Output(i, v), c, k, d, j)
                                   /\ KeptBy(i, c, d)
                                   /\ RightFor(i, c, d)
    BY DEF Correct
  <1>11. CASE t \in Longs \/ o \in Longs
    <2>1. Output(i, v) = Ld(<<a, b>>, <<p, q>>) \o Ld(<<e, f>>, <<r, s>>)
      <3>1. Low(t) = <<a, b>> /\ High(t) = <<e, f>>
        BY <1>8, LongParts
      <3>2. Low(o) = <<p, q>> /\ High(o) = <<r, s>>
        BY <1>7, LongParts
      <3> QED
        BY <1>3, <1>11, <3>1, <3>2, Zenon DEF z80_split_move
    <2>2. PICK d : /\ Makes(Output(i, v), c, k, d, k)
                   /\ Sets4(c, d, a, b, e, f, c[p], c[q], c[r], c[s])
      <3>1. \E d : /\ Makes(Ld(<<a, b>>, <<p, q>>) \o Ld(<<e, f>>, <<r, s>>),
                           c, k, d, k)
                  /\ Sets4(c, d, a, b, e, f, c[p], c[q], c[r], c[s])
        BY <1>7, <1>8, LoadWords
      <3> QED
        BY <2>1, <3>1
    <2>3. Val(d, t) = Val(c, o)
      BY <1>7, <1>8, <2>2, Values DEF Sets4
    <2>4. Clobbers(i) = <<>>
      BY <1>2, <1>11 DEF Clobbers, LogicOps
    <2>5. PICK S : S = {a, b, e, f}
      OBVIOUS
    <2>6. Only(c, d, S) /\ S \subseteq Range(i.to)
      BY <1>9, <2>2, <2>5 DEF Sets4
    <2>7. KeptBy(i, c, d)
      BY <1>9, <2>4, <2>6, KeptBeside
    <2>8. RightFor(i, c, d)
      BY <1>2, <2>3, RightSet, Zenon
    <2> QED
      BY <2>2, <2>7, <2>8
  <1>12. CASE ~(t \in Longs \/ o \in Longs)
    <2>1. t = Mem(4) /\ o \in {Mem2(4), Imm(4)}
      BY <1>12
    <2>2. a = "m0" /\ b = "m1" /\ e = "m2" /\ f = "m3"
      BY <1>6, <2>1, Operands
    <2>3. /\ p \in Cells \ {"C", "B"} /\ q \in Cells \ {"C", "B"}
          /\ r \in Cells \ {"C", "B", "m0", "m1"}
          /\ s \in Cells \ {"C", "B", "m0", "m1"}
      BY <1>4, <1>5, <2>1, Operands DEF IsLong
    <2>4. PICK d : /\ Makes(Output(i, v), c, k, d, k)
                   /\ Only(c, d, {"m0", "m1", "m2", "m3", "C", "B"})
                   /\ d["m0"] = c[p] /\ d["m1"] = c[q]
                   /\ d["m2"] = c[r] /\ d["m3"] = c[s]
      BY <1>3, <1>7, <1>12, <2>1, <2>3, MoveMemory
    <2>5. Val(d, t) = Val(c, o)
      BY <1>7, <1>8, <2>2, <2>4, Values
    <2>6. Clobbers(i) = BC
      BY <1>2, <1>12 DEF Clobbers, LogicOps
    <2>7. BC \in Seq(Cells) /\ Range(BC) = {"C", "B"}
      BY CellNames DEF BC, Range
    <2>8. KeptBy(i, c, d)
      BY <1>9, <2>2, <2>4, <2>6, <2>7, KeptIf
    <2>9. RightFor(i, c, d)
      BY <1>2, <2>5, RightSet, Zenon
    <2> QED
      BY <2>4, <2>8, <2>9
  <1> QED
    BY <1>11, <1>12

\* The cells and the halves of a long.
LEMMA LongPlace ==
  ASSUME NEW t, IsLongPlace(t)
  PROVE  /\ t \in Seq(Cells) /\ Range(t) = {t[1], t[2], t[3], t[4]}
         /\ Len(t) = 4 /\ Low(t) = <<t[1], t[2]>> /\ High(t) = <<t[3], t[4]>>
  <1>1. PICK a, b, e, f : a = t[1] /\ b = t[2] /\ e = t[3] /\ f = t[4]
    OBVIOUS
  <1>2. /\ t = <<a, b, e, f>> /\ a \in Cells /\ b \in Cells /\ e \in Cells
        /\ f \in Cells
    BY <1>1 DEF IsLongPlace, IsLong
  <1>3. Low(t) = <<a, b>> /\ High(t) = <<e, f>>
    BY <1>2, LongParts
  <1>4. Range(t) = {a, b, e, f} /\ t \in Seq(Cells) /\ Len(t) = 4
    BY <1>2 DEF Range
  <1> QED
    BY <1>1, <1>3, <1>4

\* The cells of a pair.
LEMMA WordPlace ==
  ASSUME NEW w, IsWordPlace(w)
  PROVE  w \in Seq(Cells) /\ Range(w) = {w[1], w[2]} /\ Len(w) = 2
  <1>1. PICK a, b : a = w[1] /\ b = w[2]
    OBVIOUS
  <1>2. w = <<a, b>> /\ a \in Cells /\ b \in Cells
    BY <1>1, Registers DEF IsWordPlace
  <1>3. Range(w) = {a, b} /\ w \in Seq(Cells) /\ Len(w) = 2
    BY <1>2 DEF Range
  <1> QED
    BY <1>1, <1>3

\* zero_extendhisi2
LEMMA ZeroWordCorrect ==
  ASSUME NEW i, i.rtx = "zero_extend", i.to \in Longs, i.one \in Words,
         i.swapped = FALSE, NEW v, NEW c \in Machine, HoldsConstants(c)
  PROVE  Correct(i, v, c)
  <1>1. PICK t, w : t = i.to /\ w = i.one
    OBVIOUS
  <1>2. IsLongPlace(t) /\ IsWordPlace(w)
    BY <1>1, LongShapes, WordShapes DEF Longs
  <1>3. /\ t \in Seq(Cells) /\ Range(t) = {t[1], t[2], t[3], t[4]}
        /\ Len(t) = 4 /\ Low(t) = <<t[1], t[2]>> /\ High(t) = <<t[3], t[4]>>
        /\ Len(w) = 2
    BY <1>2, LongPlace, WordPlace
  <1>4. Output(i, v) = Ld(Low(t), w) \o Ld(High(t), Zero(2))
    BY <1>1, <1>3 DEF Output, LogicOps, zero_extendhisi2
  <1>5. PICK a, b, e, f : a = t[1] /\ b = t[2] /\ e = t[3] /\ f = t[4]
    OBVIOUS
  <1>6. PICK p, q : p = w[1] /\ q = w[2]
    OBVIOUS
  <1>7. w = <<p, q>> /\ p \in Cells /\ q \in Cells
    BY <1>2, <1>6, Registers DEF IsWordPlace
  <1>8. /\ t = <<a, b, e, f>> /\ a \in Writable /\ b \in Writable
        /\ e \in Writable /\ f \in Writable
        /\ a # b /\ e # f /\ {a, b} \cap {e, f} = {}
    BY <1>2, <1>5 DEF IsLongPlace, IsLong
  <1>9. /\ a \in Cells /\ b \in Cells /\ e \in Cells /\ f \in Cells
        /\ "zero" \in Cells \ {a, b}
    BY <1>8, CellNames DEF Writable
  <1>10. SUFFICES ASSUME NEW k \in 0..1
                  PROVE  \E d, j : /\ Makes(Output(i, v), c, k, d, j)
                                   /\ KeptBy(i, c, d)
                                   /\ RightFor(i, c, d)
    BY DEF Correct
  <1>11. PICK d : /\ Makes(Output(i, v), c, k, d, k)
                  /\ Sets4(c, d, a, b, e, f, c[p], c[q], c["zero"],
                           c["zero"])
    <2>1. Output(i, v)
            = Ld(<<a, b>>, <<p, q>>) \o Ld(<<e, f>>, <<"zero", "zero">>)
      BY <1>3, <1>4, <1>5, <1>7, ConstantOperands
    <2>2. PICK z : z = "zero"
      OBVIOUS
    <2>3. \E d : /\ Makes(Ld(<<a, b>>, <<p, q>>) \o Ld(<<e, f>>, <<z, z>>),
                         c, k, d, k)
                /\ Sets4(c, d, a, b, e, f, c[p], c[q], c[z], c[z])
      BY <1>7, <1>8, <1>9, <2>2, LoadWords
    <2> QED
      BY <2>1, <2>2, <2>3
  <1>12. PICK S : S = {a, b, e, f}
    OBVIOUS
  <1>13. /\ Only(c, d, S) /\ S \subseteq Range(i.to) /\ i.to \in Seq(Cells)
         /\ Clobbers(i) = <<>>
    <2>1. Clobbers(i) = <<>>
      BY DEF Clobbers, LogicOps
    <2> QED
      BY <1>1, <1>3, <1>5, <1>11, <1>12, <2>1 DEF Sets4
  <1>14. KeptBy(i, c, d)
    BY <1>13, KeptBeside
  <1>15. Val(d, t) = Val(c, w)
    <2>1. d \in Machine
      BY <1>11 DEF Makes
    <2>2. Val(d, t) = Pair(d, a, b) + N * Pair(d, e, f)
      BY <1>8, <1>9, <2>1, LongRange
    <2>3. /\ Val(c, w) = Pair(c, p, q) /\ Pair(c, p, q) \in Int
          /\ N \in Int /\ R \in Int
      BY <1>7, PairRange, Sizes
    <2>4. Pair(d, a, b) = Pair(c, p, q)
      BY <1>11 DEF Sets4, Pair
    <2>5. Pair(d, e, f) = 0
      BY <1>11, <2>3 DEF Sets4, Pair, HoldsConstants
    <2> QED
      BY <2>2, <2>3, <2>4, <2>5
  <1>16. RightFor(i, c, d)
    BY <1>1, <1>15, RightSet, Zenon
  <1> QED
    BY <1>11, <1>14, <1>16

\* The cells of the halves of a word: of an index register, twice the high.
LEMMA WordHalves ==
  ASSUME NEW w \in Words
  PROVE  /\ High(w) = <<w[2]>> /\ Low(w) = <<Low(w)[1]>>
         /\ Low(w)[1] \in {w[1], w[2]}
         /\ w \notin {IX, IY} => Low(w)[1] = w[1]
  <1>1. PICK a, b : a = w[1] /\ b = w[2]
    OBVIOUS
  <1>2. w = <<a, b>>
    BY <1>1, WordShapes DEF IsWordPlace
  <1>3. /\ Low(w) = IF w \in {IX, IY} THEN <<b>> ELSE <<a>>
        /\ High(w) = <<b>>
    BY <1>2, WordParts
  <1> QED
    BY <1>1, <1>3

\* zero_extendqihi2
LEMMA ZeroByteCorrect ==
  ASSUME NEW i \in Accepted, i.rtx = "zero_extend", i.to \in Words,
         i.one = A, i.swapped = FALSE, NEW v, NEW c \in Machine,
         HoldsConstants(c)
  PROVE  Correct(i, v, c)
  <1>1. PICK t : t = i.to
    OBVIOUS
  <1>2. PICK a, b : a = Low(t)[1] /\ b = t[2]
    OBVIOUS
  <1>3. /\ High(t) = <<b>> /\ Low(t) = <<a>> /\ a \in {t[1], b}
        /\ t \notin {IX, IY} => a = t[1]
    BY <1>1, <1>2, WordHalves
  <1>4. IsWordPlace(t)
    BY <1>1, WordShapes
  <1>5. t \in Seq(Cells) /\ Range(t) = {t[1], b} /\ Len(t) = 2
    BY <1>2, <1>4, WordPlace
  <1>6. /\ t = <<t[1], b>> /\ t[1] # b /\ b \in Writable /\ a \in Writable
        /\ t[1] \in Cells /\ b \in Cells /\ "A" \in Cells
        /\ "zero" \in Cells \ {a}
    BY <1>2, <1>3, <1>4, Registers, CellNames DEF IsWordPlace, Writable
  <1>7. SUFFICES ASSUME NEW k \in 0..1
                 PROVE  \E d, j : /\ Makes(Output(i, v), c, k, d, j)
                                  /\ KeptBy(i, c, d)
                                  /\ i \notin Wrong => RightFor(i, c, d)
    BY DEF Correct
  <1>8. PICK d : /\ Makes(Output(i, v), c, k, d, k)
                 /\ LoadsBytes(c, d, a, b, c["A"], c["zero"])
    <2>1. Output(i, v) = Ld(<<a>>, <<"A">>) \o Ld(<<b>>, <<"zero">>)
      <3>1. Output(i, v) = zero_extendqihi2(t, A)
        BY <1>1, <1>5 DEF Output, LogicOps
      <3> QED
        BY <1>3, <3>1, ConstantOperands DEF zero_extendqihi2, A
    <2>2. PICK y, z : y = "A" /\ z = "zero"
      OBVIOUS
    <2>3. \E d : /\ Makes(Ld(<<a>>, <<y>>) \o Ld(<<b>>, <<z>>), c, k, d, k)
                 /\ LoadsBytes(c, d, a, b, c[y], c[z])
      BY <1>6, <2>2, LoadBytes
    <2> QED
      BY <2>1, <2>2, <2>3
  <1>9. PICK S : S = {a, b}
    OBVIOUS
  <1>10. /\ Only(c, d, S) /\ S \subseteq Range(i.to) /\ i.to \in Seq(Cells)
         /\ Clobbers(i) = <<>>
    <2>1. Clobbers(i) = <<>>
      BY DEF Clobbers, LogicOps
    <2> QED
      BY <1>1, <1>3, <1>5, <1>8, <1>9, <2>1 DEF LoadsBytes
  <1>11. KeptBy(i, c, d)
    BY <1>10, KeptBeside
  <1>12. ASSUME i \notin Wrong
         PROVE  RightFor(i, c, d)
    <2>1. t \notin {IX, IY}
      BY <1>1, <1>12 DEF Wrong
    <2>2. d[t[1]] = c["A"] /\ d[b] = 0
      BY <1>3, <1>6, <1>8, <2>1 DEF LoadsBytes, HoldsConstants
    <2>3. c["A"] \in Int /\ R \in Int
      BY <1>6, Sizes
    <2>4. Val(d, t) = d[t[1]] + R * d[b]
      BY <1>6, Values
    <2>5. Val(c, A) = c["A"]
      BY Values DEF A
    <2>6. Val(d, t) = Val(c, A)
      BY <2>2, <2>3, <2>4, <2>5
    <2> QED
      BY <1>1, <2>6, RightSet, Zenon
  <1> QED
    BY <1>8, <1>11, <1>12

\* zero_extendqisi2
LEMMA ZeroByteLongCorrect ==
  ASSUME NEW i, i.rtx = "zero_extend", i.to \in Longs, i.one \in ByteRegs,
         i.swapped = FALSE, NEW v, NEW c \in Machine, HoldsConstants(c)
  PROVE  Correct(i, v, c)
  <1>1. PICK t, p : t = i.to /\ p = i.one[1]
    OBVIOUS
  <1>2. i.one = <<p>> /\ p \in Cells
    BY <1>1, Registers DEF ByteRegs, A
  <1>3. IsLongPlace(t)
    BY <1>1, LongShapes DEF Longs
  <1>4. PICK a, b, e, f : a = t[1] /\ b = t[2] /\ e = t[3] /\ f = t[4]
    OBVIOUS
  <1>5. /\ t \in Seq(Cells) /\ Range(t) = {a, b, e, f} /\ Len(t) = 4
        /\ Low(t) = <<a, b>> /\ High(t) = <<e, f>>
    BY <1>3, <1>4, LongPlace
  <1>6. /\ t = <<a, b, e, f>> /\ a \in Writable /\ b \in Writable
        /\ e \in Writable /\ f \in Writable
        /\ a # b /\ e # f /\ {a, b} \cap {e, f} = {}
    BY <1>3, <1>4 DEF IsLongPlace, IsLong
  <1>7. /\ a \in Cells /\ b \in Cells /\ e \in Cells /\ f \in Cells
        /\ "zero" \in Cells \ {a, b}
    BY <1>6, CellNames DEF Writable
  <1>8. Low(Low(t)) = <<a>> /\ High(Low(t)) = <<b>>
    <2>1. <<a, b>> \notin {IX, IY}
      BY <1>3, <1>4 DEF IsLongPlace, IX, IY
    <2>2. Low(<<a, b>>) = <<a>> /\ High(<<a, b>>) = <<b>>
      BY <2>1, WordParts
    <2> QED
      BY <1>5, <2>2
  <1>9. SUFFICES ASSUME NEW k \in 0..1
                 PROVE  \E d, j : /\ Makes(Output(i, v), c, k, d, j)
                                  /\ KeptBy(i, c, d)
                                  /\ RightFor(i, c, d)
    BY DEF Correct
  <1>10. PICK y : y = "zero"
    OBVIOUS
  <1>11. y \in Cells \ {a, b} /\ y \in Cells
    BY <1>7, <1>10
  <1>12. Output(i, v)
           = Ld(<<a>>, <<p>>) \o Ld(<<b>>, <<y>>) \o Ld(<<e, f>>, <<y, y>>)
    <2>1. Output(i, v) = zero_extendqisi2(t, <<p>>)
      BY <1>1, <1>2, <1>5 DEF Output, LogicOps
    <2> QED
      BY <1>5, <1>8, <1>10, <2>1, ConstantOperands DEF zero_extendqisi2
  <1>13. PICK c1 : /\ Makes(Ld(<<a>>, <<p>>) \o Ld(<<b>>, <<y>>), c, k, c1, k)
                   /\ LoadsBytes(c, c1, a, b, c[p], c[y])
    BY <1>2, <1>6, <1>11, LoadBytes
  <1>14. c1 \in Machine
    BY <1>13 DEF Makes
  <1>15. PICK d : /\ Makes(Ld(<<e, f>>, <<y, y>>), c1, k, d, k)
                  /\ Sets2(c1, d, e, f, c1[y], c1[y])
    BY <1>6, <1>11, <1>14, LdWord
  <1>16. Makes(Output(i, v), c, k, d, k)
    BY <1>12, <1>13, <1>15, MakesBoth
  <1>17. PICK S : S = {a, b, e, f}
    OBVIOUS
  <1>18. /\ Only(c, d, S) /\ S \subseteq Range(i.to) /\ i.to \in Seq(Cells)
         /\ Clobbers(i) = <<>>
    <2>1. Clobbers(i) = <<>>
      BY DEF Clobbers, LogicOps
    <2>2. Only(c, d, S)
      BY <1>13, <1>15, <1>17 DEF LoadsBytes, Sets2, Only
    <2> QED
      BY <1>1, <1>5, <1>17, <2>1, <2>2
  <1>19. KeptBy(i, c, d)
    BY <1>18, KeptBeside
  <1>20. Val(d, t) = Val(c, i.one)
    <2>1. d \in Machine
      BY <1>15 DEF Makes
    <2>2. Val(d, t) = Pair(d, a, b) + N * Pair(d, e, f)
      BY <1>6, <1>7, <2>1, LongRange
    <2>3. /\ Val(c, i.one) = c[p] /\ c[p] \in Int /\ N \in Int /\ R \in Int
      BY <1>2, Values, Sizes DEF N
    <2>4. c[y] = 0 /\ c1[y] = 0
      BY <1>10, <1>11, <1>13 DEF HoldsConstants, LoadsBytes, Only
    <2>5. /\ d[a] = c[p] /\ d[b] = 0
          /\ d[e] = 0 /\ d[f] = 0
      BY <1>6, <1>7, <1>13, <1>15, <2>4 DEF LoadsBytes, Sets2, Only
    <2>6. Pair(d, a, b) = c[p] /\ Pair(d, e, f) = 0
      BY <2>3, <2>5 DEF Pair
    <2> QED
      BY <2>2, <2>3, <2>6
  <1>21. RightFor(i, c, d)
    BY <1>1, <1>20, RightSet, Zenon
  <1> QED
    BY <1>16, <1>19, <1>21

\* A number of one or two digits with its sign repeated.
LEMMA SignDigits ==
  ASSUME NEW M \in Nat \ {0}, NEW u \in 0..(M - 1), NEW s,
         s = IF 2 * u < M THEN 0 ELSE M - 1
  PROVE  /\ s \in 0..(M - 1)
         /\ u + M * s = IF 2 * u < M THEN u ELSE u + (M * M - M)
  <1>1. M * (M - 1) = M * M - M /\ M * 0 = 0
    OBVIOUS
  <1>2. CASE 2 * u < M
    BY <1>1, <1>2
  <1>3. CASE ~(2 * u < M)
    <2>1. s = M - 1
      BY <1>3
    <2>2. M * s = M * M - M
      BY <1>1, <2>1
    <2>3. M * M \in Int
      OBVIOUS
    <2> QED
      BY <1>3, <2>1, <2>2, <2>3
  <1> QED
    BY <1>2, <1>3

\* extendqihi2
LEMMA SignByteCorrect ==
  ASSUME NEW i \in Accepted, i.rtx = "sign_extend", i.to \in Words,
         i.one = A, i.swapped = FALSE, NEW v, NEW c \in Machine
  PROVE  Correct(i, v, c)
  <1>1. PICK t : t = i.to
    OBVIOUS
  <1>2. PICK a, b : a = Low(t)[1] /\ b = t[2]
    OBVIOUS
  <1>3. /\ High(t) = <<b>> /\ Low(t) = <<a>> /\ a \in {t[1], b}
        /\ t \notin {IX, IY} => a = t[1]
    BY <1>1, <1>2, WordHalves
  <1>4. IsWordPlace(t)
    BY <1>1, WordShapes
  <1>5. Len(t) = 2
    BY <1>4, WordPlace
  <1>6. /\ t = <<t[1], b>> /\ t[1] # b /\ b \in Writable \ {"A"}
        /\ a \in Writable \ {"A"} /\ "A" \in Cells
    BY <1>2, <1>3, <1>4, Registers DEF IsWordPlace
  <1>7. i \in Destructive
    BY DEF Destructive
  <1>8. SUFFICES ASSUME NEW k \in 0..1
                 PROVE  \E d, j : /\ Makes(Output(i, v), c, k, d, j)
                                  /\ i \notin Wrong => RightFor(i, c, d)
    BY <1>7 DEF Correct
  <1>9. PICK d, j : /\ Makes(Output(i, v), c, k, d, j)
                    /\ Extends(c, d, a, b)
    <2>1. Output(i, v) = extendqihi2(t, A)
      BY <1>1, <1>5 DEF Output, LogicOps
    <2> QED
      BY <1>3, <1>6, <2>1, ExtendByte
  <1>10. ASSUME i \notin Wrong
         PROVE  RightFor(i, c, d)
    <2>1. t \notin {IX, IY}
      BY <1>1, <1>10 DEF Wrong
    <2>2. d[t[1]] = c["A"] /\ d[b] = Sign(c["A"])
      BY <1>3, <1>6, <1>9, <2>1 DEF Extends
    <2>3. PICK u, s : u = c["A"] /\ s = Sign(c["A"])
      OBVIOUS
    <2>4. /\ u \in 0..(R - 1) /\ R \in Nat \ {0}
          /\ s = IF 2 * u < R THEN 0 ELSE R - 1
      BY <1>6, <2>3, Sizes DEF Sign
    <2>5. u + R * s = IF 2 * u < R THEN u ELSE u + (R * R - R)
      BY <2>4, SignDigits
    <2>6. Val(d, t) = u + R * s /\ Size(t) = R * R
      BY <1>6, <2>2, <2>3, Values
    <2>7. Val(c, A) = u /\ Size(A) = R
      BY <2>3, Values DEF A
    <2>8. Val(d, i.to)
            = IF 2 * Val(c, i.one) < Size(i.one) THEN Val(c, i.one)
              ELSE Val(c, i.one) + (Size(i.to) - Size(i.one))
      BY <1>1, <2>5, <2>6, <2>7
    <2> QED
      BY <2>8, RightSign, Zenon
  <1> QED
    BY <1>9, <1>10

\* extendqisi2
LEMMA SignByteLongCorrect ==
  ASSUME NEW i \in Accepted, i.rtx = "sign_extend", i.to \in Longs,
         i.one = A, i.swapped = FALSE, NEW v, NEW c \in Machine
  PROVE  Correct(i, v, c)
  <1>1. i \in Destructive
    BY DEF Destructive
  <1>2. SUFFICES ASSUME NEW k \in 0..1
                 PROVE  \E d, j : /\ Makes(Output(i, v), c, k, d, j)
                                  /\ i \notin Wrong => RightFor(i, c, d)
    BY <1>1 DEF Correct
  <1>3. Output(i, v) = extendqisi2(i.to, A)
    <2>1. Len(i.to) = 4
      BY LongShapes, LongPlace DEF Longs
    <2> QED
      BY <2>1 DEF Output, LogicOps, A
  <1>4. /\ "A" \in Cells /\ "L" \in Writable \ {"A"}
        /\ "H" \in Writable \ {"A"} /\ "C" \in Writable \ {"A"}
        /\ "B" \in Writable \ {"A"} /\ "IYH" \in Writable \ {"C", "B"}
        /\ "E" \in Writable \ {"L", "H"} /\ "D" \in Writable \ {"L", "H"}
    BY Registers
  <1>5. CASE i.to = HLDE
    <2>1. /\ Low(Low(HLDE)) = <<"L">> /\ High(Low(HLDE)) = <<"H">>
          /\ Low(High(HLDE)) = <<"E">> /\ High(High(HLDE)) = <<"D">>
      BY RegisterParts
    <2>2. PICK a, b, e, f : a = "L" /\ b = "H" /\ e = "E" /\ f = "D"
      OBVIOUS
    <2>3. /\ Low(Low(HLDE)) = <<a>> /\ High(Low(HLDE)) = <<b>>
          /\ Low(High(HLDE)) = <<e>> /\ High(High(HLDE)) = <<f>>
          /\ a \in Writable \ {"A"} /\ b \in Writable \ {"A"}
          /\ e \in Writable \ {a, b} /\ f \in Writable \ {a, b}
          /\ a # b /\ e # f
      BY <1>4, <2>1, <2>2
    <2>4. PICK d, j : /\ Makes(Output(i, v), c, k, d, j)
                      /\ d[a] = c["A"] /\ d[b] = Sign(c["A"])
                      /\ d[e] = Sign(c["A"]) /\ d[f] = Sign(c["A"])
      <3>1. PICK d, j : /\ Makes(extendqisi2(HLDE, A), c, k, d, j)
                        /\ ExtendsLong(c, d, a, b, e, f)
        BY <2>3, ExtendByteLong
      <3> QED
        BY <1>3, <1>5, <2>3, <3>1 DEF ExtendsLong
    <2>5. PICK u, s : u = c["A"] /\ s = Sign(c["A"])
      OBVIOUS
    <2>6. /\ u \in 0..(R - 1) /\ R \in Nat \ {0}
          /\ s = IF 2 * u < R THEN 0 ELSE R - 1
      BY <1>4, <2>5, Sizes DEF Sign
    <2>7. /\ Val(d, HLDE) = (u + R * s) + (R * R) * (s + R * s)
          /\ Size(HLDE) = (R * R) * (R * R)
      BY <2>2, <2>4, <2>5, Values, Operands
    <2>8. Val(c, A) = u /\ Size(A) = R
      BY <2>5, Values DEF A
    <2>9. (u + R * s) + (R * R) * (s + R * s)
            = IF 2 * u < R THEN u ELSE u + ((R * R) * (R * R) - R)
      <3>1. CASE 2 * u < R
        <4>1. s = 0
          BY <2>6, <3>1
        <4>2. R * 0 = 0 /\ (R * R) * 0 = 0 /\ R * R \in Int
          BY <2>6
        <4> QED
          BY <2>6, <3>1, <4>1, <4>2
      <3>2. CASE ~(2 * u < R)
        <4>1. s = R - 1
          BY <2>6, <3>2
        <4>2. PICK M : M = R * R
          OBVIOUS
        <4>3. R * s = M - R /\ M \in Int
          BY <2>6, <4>1, <4>2
        <4>4. s + R * s = M - 1
          BY <2>6, <4>1, <4>3
        <4>5. M * (s + R * s) = M * M - M /\ M * M \in Int
          BY <4>3, <4>4
        <4>6. (u + R * s) + M * (s + R * s) = u + (M * M - R)
          BY <2>6, <4>3, <4>5
        <4> QED
          BY <3>2, <4>2, <4>6
      <3> QED
        BY <3>1, <3>2
    <2>10. Val(d, i.to)
             = IF 2 * Val(c, i.one) < Size(i.one) THEN Val(c, i.one)
               ELSE Val(c, i.one) + (Size(i.to) - Size(i.one))
      BY <1>5, <2>7, <2>8, <2>9
    <2>11. RightFor(i, c, d)
      BY <2>10, RightSign, Zenon
    <2> QED
      BY <2>4, <2>11
  <1>6. CASE i.to = BCIY
    <2>1. /\ Low(Low(BCIY)) = <<"C">> /\ High(Low(BCIY)) = <<"B">>
          /\ Low(High(BCIY)) = <<"IYH">> /\ High(High(BCIY)) = <<"IYH">>
      BY RegisterParts
    <2>2. PICK a, b, e : a = "C" /\ b = "B" /\ e = "IYH"
      OBVIOUS
    <2>3. /\ Low(Low(BCIY)) = <<a>> /\ High(Low(BCIY)) = <<b>>
          /\ Low(High(BCIY)) = <<e>> /\ High(High(BCIY)) = <<e>>
          /\ a \in Writable \ {"A"} /\ b \in Writable \ {"A"}
          /\ e \in Writable \ {a, b}
      BY <1>4, <2>1, <2>2
    <2>4. PICK d, j : Makes(extendqisi2(BCIY, A), c, k, d, j)
      BY <2>3, ExtendByteLong
    <2>5. i \in Wrong
      BY <1>6 DEF Wrong
    <2> QED
      BY <1>3, <1>6, <2>4, <2>5
  <1> QED
    BY <1>5, <1>6 DEF Longs

\* The sign of a word is that of its high byte, as a byte has an even number
\* of values.
LEMMA SignOfHigh ==
  ASSUME NEW u \in 0..(R - 1), NEW w \in 0..(R - 1)
  PROVE  2 * w < R <=> 2 * (u + R * w) < R * R
  <1>1. PICK h \in Int : R = 2 * h
    <2>1. R \in Int /\ R = 2 * (R \div 2) + (R % 2) /\ R % 2 = 0
      BY AluAssumption
    <2> QED
      BY <2>1
  <1>2. R \in Nat \ {0} /\ h \in Nat \ {0}
    BY <1>1, AluAssumption
  <1>3. PICK M : M = R * w
    OBVIOUS
  <1>4. R * R = 2 * (R * h) /\ R * h \in Int /\ M \in Int
    BY <1>1, <1>2, <1>3
  <1>5. CASE w + 1 <= h
    <2>1. R * w + R <= R * h
      BY <1>2, <1>5, MultiplesApart
    <2> QED
      BY <1>1, <1>2, <1>3, <1>4, <1>5, <2>1
  <1>6. CASE h <= w
    <2>1. R * h <= R * w
      BY <1>2, <1>6
    <2> QED
      BY <1>1, <1>2, <1>3, <1>4, <1>6, <2>1
  <1> QED
    BY <1>2, <1>5, <1>6

\* extendhisi2
LEMMA SignWordCorrect ==
  ASSUME NEW i, i.rtx = "sign_extend", i.to = HLDE,
         i.one = BC, i.swapped = FALSE, NEW v, NEW c \in Machine
  PROVE  Correct(i, v, c)
  <1>1. SUFFICES ASSUME NEW k \in 0..1
                 PROVE  \E d, j : /\ Makes(Output(i, v), c, k, d, j)
                                  /\ KeptBy(i, c, d)
                                  /\ RightFor(i, c, d)
    BY DEF Correct
  <1>2. /\ Len(HLDE) = 4 /\ HLDE \in Seq(Cells)
        /\ Range(HLDE) = {"L", "H", "E", "D"}
    BY Operands, Registers DEF Range
  <1>3. Output(i, v) = extendhisi2(HLDE, BC)
    BY <1>2 DEF Output, LogicOps, BC
  <1>4. PICK d, j : /\ Makes(Output(i, v), c, k, d, j)
                    /\ Only(c, d, {"A", "L", "H", "E", "D"})
                    /\ Pair(d, "L", "H") = Pair(c, "C", "B")
                    /\ Pair(d, "E", "D")
                         = IF 2 * c["B"] < R THEN 0 ELSE N - 1
    BY <1>3, ExtendWord
  <1>5. Clobbers(i) = A /\ A \in Seq(Cells) /\ Range(A) = {"A"}
    <2>1. Clobbers(i) = A
      BY <1>2 DEF Clobbers, LogicOps
    <2> QED
      BY <2>1, Registers DEF A, Range
  <1>6. PICK S : S = {"A", "L", "H", "E", "D"}
    OBVIOUS
  <1>7. /\ i.to \in Seq(Cells) /\ Clobbers(i) \in Seq(Cells)
        /\ Only(c, d, S)
        /\ S \subseteq Range(i.to) \cup Range(Clobbers(i)) \cup {"s0", "s1"}
    BY <1>2, <1>4, <1>5, <1>6
  <1>8. KeptBy(i, c, d)
    BY <1>7, KeptIf
  <1>9. /\ "C" \in Cells /\ "B" \in Cells /\ "L" \in Cells /\ "H" \in Cells
        /\ "E" \in Cells /\ "D" \in Cells /\ d \in Machine
    BY <1>4, Registers DEF Makes
  <1>10. PICK u, s : u = Pair(c, "C", "B") /\ s = Pair(d, "E", "D")
    OBVIOUS
  <1>11. /\ N \in Nat \ {0} /\ u \in 0..(N - 1)
         /\ Val(c, BC) = u /\ Size(BC) = N
    BY <1>9, <1>10, PairRange DEF BC
  <1>12. Val(d, HLDE) = u + N * s /\ Size(HLDE) = N * N
    BY <1>4, <1>9, <1>10, LongRange, Operands
  <1>13. 2 * c["B"] < R <=> 2 * u < N
    <2>1. c["C"] \in 0..(R - 1) /\ c["B"] \in 0..(R - 1)
      BY <1>9, Sizes
    <2> QED
      BY <1>10, <2>1, SignOfHigh DEF Pair, N
  <1>14. s = IF 2 * u < N THEN 0 ELSE N - 1
    BY <1>4, <1>10, <1>13
  <1>15. u + N * s = IF 2 * u < N THEN u ELSE u + (N * N - N)
    BY <1>11, <1>14, SignDigits
  <1>16. Val(d, i.to)
           = IF 2 * Val(c, i.one) < Size(i.one) THEN Val(c, i.one)
             ELSE Val(c, i.one) + (Size(i.to) - Size(i.one))
    BY <1>11, <1>12, <1>15
  <1>17. RightFor(i, c, d)
    BY <1>16, RightSign, Zenon
  <1> QED
    BY <1>4, <1>8, <1>17

\* extendhisi2 over its own source: no other register is changed.
LEMMA SignWordOverKept ==
  ASSUME NEW i \in Accepted, i.rtx = "sign_extend", i.to = BCIY,
         i.one = BC, i.swapped = FALSE, NEW v, NEW c \in Machine
  PROVE  Correct(i, v, c)
  <1>1. i \in Wrong
    BY DEF Wrong
  <1>2. SUFFICES ASSUME NEW k \in 0..1
                 PROVE  \E d, j : /\ Makes(Output(i, v), c, k, d, j)
                                  /\ KeptBy(i, c, d)
    BY <1>1 DEF Correct
  <1>3. /\ Len(BCIY) = 4 /\ BCIY \in Seq(Cells)
        /\ Range(BCIY) = {"C", "B", "IYL", "IYH"}
    BY Operands, Registers DEF Range
  <1>4. Output(i, v) = extendhisi2(BCIY, BC)
    BY <1>3 DEF Output, LogicOps, BC
  <1>5. PICK d, j : /\ Makes(Output(i, v), c, k, d, j)
                    /\ Only(c, d, {"A", "C", "B", "IYL", "IYH"})
    BY <1>4, ExtendWordOver
  <1>6. Clobbers(i) = A /\ A \in Seq(Cells) /\ Range(A) = {"A"}
    <2>1. Clobbers(i) = A
      BY <1>3 DEF Clobbers, LogicOps
    <2> QED
      BY <2>1, Registers DEF A, Range
  <1>7. PICK S : S = {"A", "C", "B", "IYL", "IYH"}
    OBVIOUS
  <1>8. /\ i.to \in Seq(Cells) /\ Clobbers(i) \in Seq(Cells)
        /\ Only(c, d, S)
        /\ S \subseteq Range(i.to) \cup Range(Clobbers(i)) \cup {"s0", "s1"}
    BY <1>3, <1>5, <1>6, <1>7
  <1>9. KeptBy(i, c, d)
    BY <1>8, KeptIf
  <1> QED
    BY <1>5, <1>9

\* The fields of an insn.
IsTied(i, rtx, tos, twos) ==
  \/ i \in Tied(rtx, tos, twos)
  \/ \E e \in Tied(rtx, tos, twos) : i = [e EXCEPT !.swapped = TRUE]

\* A two-operand insn has its destination as operand 1.
LEMMA TiedFields ==
  ASSUME NEW i, NEW rtx, NEW tos, NEW twos, IsTied(i, rtx, tos, twos)
  PROVE  /\ i.rtx = rtx /\ i.to \in tos /\ i.one = i.to /\ i.two \in twos
         /\ i.swapped \in BOOLEAN
  <1>1. CASE i \in Tied(rtx, tos, twos)
    <2>1. /\ i.rtx = rtx /\ i.to \in tos /\ i.one = i.to /\ i.two \in twos
          /\ i.swapped = FALSE
      BY <1>1 DEF Tied
    <2> QED
      BY <2>1, Zenon
  <1>2. CASE \E e \in Tied(rtx, tos, twos) : i = [e EXCEPT !.swapped = TRUE]
    BY <1>2 DEF Tied
  <1> QED
    BY <1>1, <1>2 DEF IsTied

\* zero_extendMN and extendMN.
LEMMA ExtensionsCorrect ==
  ASSUME NEW i \in Extensions, NEW v, NEW c \in Machine, HoldsConstants(c)
  PROVE  Correct(i, v, c)
  <1>1. i \in Accepted
    BY DEF Accepted
  <1>2. CASE i \in Unary("zero_extend", Longs, Words \cup ByteRegs)
    <2>1. /\ i.rtx = "zero_extend" /\ i.to \in Longs
          /\ i.one \in Words \cup ByteRegs /\ i.swapped = FALSE
      BY <1>2 DEF Unary
    <2> QED
      BY <2>1, ZeroWordCorrect, ZeroByteLongCorrect, Zenon
  <1>3. CASE i \in Unary("zero_extend", Words, {A})
    <2>1. /\ i.rtx = "zero_extend" /\ i.to \in Words
          /\ i.one = A /\ i.swapped = FALSE
      BY <1>3 DEF Unary
    <2> QED
      BY <1>1, <2>1, ZeroByteCorrect, Zenon
  <1>4. CASE i \in Unary("sign_extend", Longs \cup Words, {A})
    <2>1. /\ i.rtx = "sign_extend" /\ i.to \in Longs \cup Words
          /\ i.one = A /\ i.swapped = FALSE
      BY <1>4 DEF Unary
    <2> QED
      BY <1>1, <2>1, SignByteCorrect, SignByteLongCorrect, Zenon
  <1>5. CASE i \in Unary("sign_extend", Longs, {BC})
    <2>1. /\ i.rtx = "sign_extend"
          /\ i.to = HLDE \/ i.to = BCIY
          /\ i.one = BC /\ i.swapped = FALSE
      BY <1>5 DEF Unary, Longs
    <2> QED
      BY <1>1, <2>1, SignWordCorrect, SignWordOverKept, Zenon
  <1> QED
    BY <1>2, <1>3, <1>4, <1>5 DEF Extensions

\* Operands of one byte and of two.
LEMMA ByteShapes ==
  ASSUME NEW o \in ByteRegs \cup {Mem(1), Imm(1), One(1), Ones(1)}
  PROVE  o = <<o[1]>> /\ o[1] \in Cells
  <1>1. CASE o \in ByteRegs
    BY <1>1, CellNames DEF ByteRegs, A
  <1>2. CASE o \in {Mem(1), Imm(1)}
    BY <1>2, CellNames, Operands
  <1>3. CASE o \in {One(1), Ones(1)}
    BY <1>3, CellNames, ConstantOperands
  <1> QED
    BY <1>1, <1>2, <1>3

\* The word operands of *addhi3.
LEMMA WordOperands ==
  ASSUME NEW w \in Words \cup {Mem(2), Imm(2), One(2), Ones(2)}
  PROVE  w = <<w[1], w[2]>> /\ w[1] \in Cells /\ w[2] \in Cells
  <1>1. CASE w \in Words
    BY <1>1, WordShapes, Registers DEF IsWordPlace
  <1>2. CASE w \in {Mem(2), Imm(2)}
    BY <1>2, CellNames, Operands
  <1>3. CASE w \in {One(2), Ones(2)}
    BY <1>3, CellNames, ConstantOperands
  <1> QED
    BY <1>1, <1>2, <1>3

\* Only operand 0 is changed.
LEMMA ByteKept ==
  ASSUME NEW i, NEW a \in Cells, i.to = <<a>>, Clobbers(i) = <<>>, NEW c,
         NEW d, NEW u, Sets1(c, d, a, u)
  PROVE  KeptBy(i, c, d)
  <1>1. PICK S : S = {a}
    OBVIOUS
  <1>2. i.to \in Seq(Cells) /\ Only(c, d, S) /\ S \subseteq Range(i.to)
    BY <1>1 DEF Sets1, Range
  <1> QED
    BY <1>2, KeptBeside

\* What only writes the pair operand 0 keeps all else.
LEMMA WordKept ==
  ASSUME NEW i, NEW a \in Cells, NEW b \in Cells, i.to = <<a, b>>,
         Clobbers(i) = <<>>, NEW c, NEW d, NEW u, SetsWord(c, d, a, b, u)
  PROVE  KeptBy(i, c, d)
  <1>1. PICK S : S = {a, b}
    OBVIOUS
  <1>2. i.to \in Seq(Cells) /\ Only(c, d, S) /\ S \subseteq Range(i.to)
    BY <1>1 DEF SetsWord, Range
  <1> QED
    BY <1>2, KeptBeside

\* Operand 0 is HL and DE, and BC a scratch register.
LEMMA LongKept ==
  ASSUME NEW i, i.to = HLDE, Clobbers(i) = BC, NEW c, NEW d, NEW S,
         S = {"L", "H", "E", "D", "C", "B"}, Only(c, d, S)
  PROVE  KeptBy(i, c, d)
  <1>1. HLDE \in Seq(Cells) /\ Range(HLDE) = {"L", "H", "E", "D"}
    BY Operands, Registers DEF Range
  <1>2. BC \in Seq(Cells) /\ Range(BC) = {"C", "B"}
    BY Registers DEF BC, Range
  <1>3. S \subseteq Range(i.to) \cup Range(Clobbers(i)) \cup {"s0", "s1"}
    BY <1>1, <1>2
  <1> QED
    BY <1>1, <1>2, <1>3, KeptIf

\* subqi3
LEMMA MinusByteCorrect ==
  ASSUME NEW i \in Accepted, i.rtx = "minus", i.to = A, i.one = A,
         i.two \in ByteRegs \cup {Mem(1), Imm(1)}, i.swapped \in BOOLEAN,
         NEW v, NEW c \in Machine
  PROVE  Correct(i, v, c)
  <1>1. PICK p : p = i.two[1]
    OBVIOUS
  <1>2. i.two = <<p>> /\ p \in Cells
    BY <1>1, ByteShapes
  <1>3. Output(i, v) = Do("sub", A, <<p>>)
    BY <1>2 DEF Output, LogicOps, A
  <1>4. PICK a : a = "A"
    OBVIOUS
  <1>5. A = <<a>> /\ a \in Writable /\ a \in Cells
    BY <1>4, Registers DEF A
  <1>6. SUFFICES ASSUME NEW k \in 0..1
                 PROVE  \E d, j : /\ Makes(Output(i, v), c, k, d, j)
                                  /\ KeptBy(i, c, d)
                                  /\ i \notin Wrong => RightFor(i, c, d)
    BY DEF Correct
  <1>7. PICK d, j : /\ Makes(Do("sub", <<a>>, <<p>>), c, k, d, j)
                    /\ Sets1(c, d, a, (c[a] - c[p] - 0) % R)
    BY <1>2, <1>5, SubByte
  <1>8. Makes(Output(i, v), c, k, d, j)
    BY <1>3, <1>5, <1>7
  <1>9. Clobbers(i) = <<>>
    BY DEF Clobbers, LogicOps, A
  <1>10. KeptBy(i, c, d)
    BY <1>5, <1>7, <1>9, ByteKept
  <1>11. ASSUME i \notin Wrong
         PROVE  RightFor(i, c, d)
    <2>1. i.swapped = FALSE
      BY <1>11, Zenon DEF Wrong
    <2>2. /\ Val(d, A) = d[a] /\ Size(A) = R
          /\ Val(c, A) = c[a] /\ Val(c, <<p>>) = c[p]
      BY <1>5, Values
    <2>3. c[a] \in Int /\ c[p] \in Int
      BY <1>2, <1>5, Sizes
    <2>4. c[a] - c[p] - 0 = c[a] - c[p]
      BY <2>3
    <2>5. Val(d, i.to) = (Val(c, i.one) - Val(c, i.two)) % Size(i.to)
      BY <1>2, <1>7, <2>2, <2>4 DEF Sets1
    <2> QED
      BY <2>1, <2>5, RightMinus, Zenon
  <1> QED
    BY <1>8, <1>10, <1>11

\* subhi3
LEMMA MinusWordCorrect ==
  ASSUME NEW i \in Accepted, i.rtx = "minus", i.to = HL, i.one = HL,
         i.two \in Words, i.swapped \in BOOLEAN, NEW v, NEW c \in Machine
  PROVE  Correct(i, v, c)
  <1>1. PICK p, q : p = i.two[1] /\ q = i.two[2]
    OBVIOUS
  <1>2. i.two = <<p, q>> /\ p \in Cells /\ q \in Cells
    BY <1>1, WordOperands
  <1>3. Output(i, v) = subhi3(HL, <<p, q>>)
    BY <1>2 DEF Output, LogicOps, HL
  <1>4. PICK a, b : a = "L" /\ b = "H"
    OBVIOUS
  <1>5. /\ HL = <<a, b>> /\ a \in Writable /\ b \in Writable /\ a # b
        /\ a \in Cells /\ b \in Cells
    BY <1>4, Registers DEF HL
  <1>6. SUFFICES ASSUME NEW k \in 0..1
                 PROVE  \E d, j : /\ Makes(Output(i, v), c, k, d, j)
                                  /\ KeptBy(i, c, d)
                                  /\ i \notin Wrong => RightFor(i, c, d)
    BY DEF Correct
  <1>7. PICK d, j : /\ Makes(subhi3(<<a, b>>, <<p, q>>), c, k, d, j)
                    /\ SetsWord(c, d, a, b,
                                (Pair(c, a, b) - Pair(c, p, q)) % N)
    BY <1>2, <1>5, SubtractWord
  <1>8. Makes(Output(i, v), c, k, d, j)
    BY <1>3, <1>5, <1>7
  <1>9. Clobbers(i) = <<>>
    BY DEF Clobbers, LogicOps, HL
  <1>10. KeptBy(i, c, d)
    BY <1>5, <1>7, <1>9, WordKept
  <1>11. ASSUME i \notin Wrong
         PROVE  RightFor(i, c, d)
    <2>1. i.swapped = FALSE
      BY <1>11, Zenon DEF Wrong
    <2>2. d \in Machine
      BY <1>7 DEF Makes
    <2>3. /\ Val(d, HL) = Pair(d, a, b) /\ Size(HL) = N
          /\ Val(c, HL) = Pair(c, a, b) /\ Val(c, <<p, q>>) = Pair(c, p, q)
      BY <1>2, <1>5, <2>2, PairRange
    <2>4. Val(d, i.to) = (Val(c, i.one) - Val(c, i.two)) % Size(i.to)
      BY <1>2, <1>7, <2>3 DEF SetsWord
    <2> QED
      BY <2>1, <2>4, RightMinus, Zenon
  <1> QED
    BY <1>8, <1>10, <1>11

\* subsi3, whose result is another.
LEMMA MinusLongCorrect ==
  ASSUME NEW i \in Accepted, i.rtx = "minus", i.to = HLDE, i.one = HLDE,
         i.two \in {HLDE, Mem(4), Imm(4)}, NEW v, NEW c \in Machine
  PROVE  Correct(i, v, c)
  <1>1. PICK p, q, r, s : /\ p = i.two[1] /\ q = i.two[2]
                          /\ r = i.two[3] /\ s = i.two[4]
    OBVIOUS
  <1>2. /\ i.two = <<p, q, r, s>> /\ p \in Cells /\ q \in Cells
        /\ r \in Cells /\ s \in Cells
    BY <1>1, LongShapes DEF IsLong, IsLongPlace
  <1>3. Len(HLDE) = 4
    BY Operands
  <1>4. Output(i, v) = subsi3(HLDE, <<p, q, r, s>>)
    BY <1>2, <1>3 DEF Output, LogicOps
  <1>5. i \in Wrong
    BY DEF Wrong
  <1>6. SUFFICES ASSUME NEW k \in 0..1
                 PROVE  \E d, j : /\ Makes(Output(i, v), c, k, d, j)
                                  /\ KeptBy(i, c, d)
    BY <1>5 DEF Correct
  <1>7. PICK S : S = {"L", "H", "E", "D", "C", "B"}
    OBVIOUS
  <1>8. PICK d, j : /\ Makes(subsi3(HLDE, <<p, q, r, s>>), c, k, d, j)
                    /\ Only(c, d, S)
    BY <1>2, <1>7, SubtractLong
  <1>9. Clobbers(i) = BC
    BY <1>3 DEF Clobbers, LogicOps
  <1>10. KeptBy(i, c, d)
    BY <1>7, <1>8, <1>9, LongKept
  <1> QED
    BY <1>4, <1>8, <1>10

\* subsi3, subhi3 and subqi3.
LEMMA SubtractionsCorrect ==
  ASSUME NEW i \in Subtractions, NEW v, NEW c \in Machine
  PROVE  Correct(i, v, c)
  <1>1. i \in Accepted
    BY DEF Accepted
  <1>2. CASE IsTied(i, "minus", {HL}, {HL, DE, BC})
    <2>1. /\ i.rtx = "minus" /\ i.to \in {HL} /\ i.one = i.to
          /\ i.two \in {HL, DE, BC} /\ i.swapped \in BOOLEAN
      BY <1>2, TiedFields, Zenon
    <2>2. i.to = HL /\ i.one = HL /\ i.two \in Words
      BY <2>1 DEF Words
    <2> QED
      BY <1>1, <2>1, <2>2, MinusWordCorrect, Zenon
  <1>3. CASE IsTied(i, "minus", {A}, ByteRegs \cup {Mem(1)})
    <2>1. /\ i.rtx = "minus" /\ i.to \in {A} /\ i.one = i.to
          /\ i.two \in ByteRegs \cup {Mem(1)} /\ i.swapped \in BOOLEAN
      BY <1>3, TiedFields, Zenon
    <2>2. /\ i.to = A /\ i.one = A
          /\ i.two \in ByteRegs \cup {Mem(1), Imm(1)}
      BY <2>1
    <2> QED
      BY <1>1, <2>1, <2>2, MinusByteCorrect, Zenon
  <1>4. CASE IsTied(i, "minus", {A}, {Imm(1)})
    <2>1. /\ i.rtx = "minus" /\ i.to \in {A} /\ i.one = i.to
          /\ i.two \in {Imm(1)} /\ i.swapped \in BOOLEAN
      BY <1>4, TiedFields, Zenon
    <2>2. /\ i.to = A /\ i.one = A
          /\ i.two \in ByteRegs \cup {Mem(1), Imm(1)}
      BY <2>1
    <2> QED
      BY <1>1, <2>1, <2>2, MinusByteCorrect, Zenon
  <1>5. CASE IsTied(i, "minus", {HLDE}, {HLDE, Mem(4), Imm(4)})
    <2>1. /\ i.rtx = "minus" /\ i.to \in {HLDE} /\ i.one = i.to
          /\ i.two \in {HLDE, Mem(4), Imm(4)}
      BY <1>5, TiedFields, Zenon
    <2>2. i.to = HLDE /\ i.one = HLDE
      BY <2>1
    <2> QED
      BY <1>1, <2>1, <2>2, MinusLongCorrect, Zenon
  <1> QED
    BY <1>2, <1>3, <1>4, <1>5 DEF Subtractions, Commutes, IsTied

\* negqi2 and one_cmplqi2
LEMMA NegateByteCorrect ==
  ASSUME NEW i, i.rtx = "neg" \/ i.rtx = "not", i.to = A, i.one = A,
         i.swapped = FALSE, NEW v, NEW c \in Machine
  PROVE  Correct(i, v, c)
  <1>1. PICK a : a = "A"
    OBVIOUS
  <1>2. A = <<a>> /\ a \in Writable /\ a \in Cells
    BY <1>1, Registers DEF A
  <1>3. SUFFICES ASSUME NEW k \in 0..1
                 PROVE  \E d, j : /\ Makes(Output(i, v), c, k, d, j)
                                  /\ KeptBy(i, c, d)
                                  /\ RightFor(i, c, d)
    BY DEF Correct
  <1>4. Clobbers(i) = <<>>
    BY DEF Clobbers, LogicOps, A
  <1>5. Val(c, A) = c[a] /\ Size(A) = R
    BY <1>2, Values
  <1>6. CASE i.rtx = "neg"
    <2>1. Output(i, v) = Do("neg", A, A)
      BY <1>6 DEF Output, LogicOps, A
    <2>2. PICK d, j : /\ Makes(Do("neg", <<a>>, <<a>>), c, k, d, j)
                      /\ Sets1(c, d, a, (-c[a]) % R)
      BY <1>2, NegByte
    <2>3. KeptBy(i, c, d)
      BY <1>2, <1>4, <2>2, ByteKept
    <2>4. Val(d, A) = d[a] /\ d[a] = (-c[a]) % R
      BY <1>2, <2>2, Values DEF Sets1
    <2>5. Val(d, i.to) = (-Val(c, i.one)) % Size(i.to)
      BY <1>5, <2>4
    <2>6. RightFor(i, c, d)
      BY <1>6, <2>5, RightNegation, Zenon
    <2> QED
      BY <1>2, <2>1, <2>2, <2>3, <2>6
  <1>7. CASE i.rtx = "not"
    <2>1. Output(i, v) = Do("cpl", A, A)
      BY <1>7 DEF Output, LogicOps, A
    <2>2. PICK d : /\ Makes(Do("cpl", <<a>>, <<a>>), c, k, d, k)
                   /\ Sets1(c, d, a, R - 1 - c[a])
      BY <1>2, CplByte
    <2>3. KeptBy(i, c, d)
      BY <1>2, <1>4, <2>2, ByteKept
    <2>4. Val(d, A) = d[a] /\ d[a] = R - 1 - c[a]
      BY <1>2, <2>2, Values DEF Sets1
    <2>5. Val(d, i.to) = Size(i.to) - 1 - Val(c, i.one)
      BY <1>5, <2>4
    <2>6. RightFor(i, c, d)
      BY <1>7, <2>5, RightNegation, Zenon
    <2> QED
      BY <1>2, <2>1, <2>2, <2>3, <2>6
  <1> QED
    BY <1>6, <1>7

\* What a word is subtracted from: 0 or -1.
LEMMA NegationConstant ==
  ASSUME NEW z, NEW m, NEW c \in Machine, HoldsConstants(c),
         \/ z = "zero" /\ m = 0
         \/ z = "ones" /\ m = N - 1
  PROVE  /\ z \in Cells \ {"L", "H", "E", "D", "C", "B"}
         /\ Pair(c, z, z) = m
  <1>1. z \in Cells \ {"L", "H", "E", "D", "C", "B"}
    BY CellNames
  <1>2. R \in Nat \ {0}
    BY Sizes
  <1>3. R * (R - 1) = R * R - R /\ R * 0 = 0 /\ R * R \in Int
    BY <1>2
  <1>4. CASE z = "zero"
    BY <1>1, <1>3, <1>4 DEF HoldsConstants, Pair
  <1>5. CASE z = "ones"
    <2>1. c[z] = R - 1 /\ m = N - 1
      BY <1>5 DEF HoldsConstants
    <2> QED
      BY <1>1, <1>2, <1>3, <2>1 DEF Pair, N
  <1> QED
    BY <1>4, <1>5

\* neghi2 and one_cmplhi2
LEMMA NegateWordCorrect ==
  ASSUME NEW i, i.rtx = "neg" \/ i.rtx = "not", i.to = DE \/ i.to = BC,
         i.one = i.to, i.swapped = FALSE, NEW v, NEW c \in Machine,
         HoldsConstants(c)
  PROVE  Correct(i, v, c)
  <1>1. PICK a, b : a = i.to[1] /\ b = i.to[2]
    OBVIOUS
  <1>2. /\ i.to = <<a, b>> /\ a \in Writable \ {"L", "H"}
        /\ b \in Writable \ {"L", "H"} /\ a # b
        /\ a \in Cells /\ b \in Cells
    BY <1>1, CellNames DEF DE, BC
  <1>3. PICK z, m : /\ z = IF i.rtx = "neg" THEN "zero" ELSE "ones"
                    /\ m = IF i.rtx = "neg" THEN 0 ELSE N - 1
    OBVIOUS
  <1>4. z \in Cells /\ Pair(c, z, z) = m
    BY <1>3, NegationConstant
  <1>5. Output(i, v) = negatehi2(<<a, b>>, <<z, z>>)
    <2>1. <<z, z>> = IF i.rtx = "neg" THEN Zero(2) ELSE Ones(2)
      BY <1>3, ConstantOperands
    <2> QED
      BY <1>2, <2>1 DEF Output, LogicOps
  <1>6. SUFFICES ASSUME NEW k \in 0..1
                 PROVE  \E d, j : /\ Makes(Output(i, v), c, k, d, j)
                                  /\ KeptBy(i, c, d)
                                  /\ RightFor(i, c, d)
    BY DEF Correct
  <1>7. PICK d, j : /\ Makes(negatehi2(<<a, b>>, <<z, z>>), c, k, d, j)
                    /\ Negates(c, d, a, b, z, z, j)
    BY <1>2, <1>4, NegateWord
  <1>8. PICK S : S = {a, b, "L", "H"}
    OBVIOUS
  <1>9. /\ i.to \in Seq(Cells) /\ Clobbers(i) \in Seq(Cells)
        /\ Only(c, d, S)
        /\ S \subseteq Range(i.to) \cup Range(Clobbers(i)) \cup {"s0", "s1"}
    <2>1. Clobbers(i) = HL
      BY <1>2 DEF Clobbers, LogicOps
    <2>2. HL \in Seq(Cells) /\ Range(HL) = {"L", "H"}
      BY Registers DEF HL, Range
    <2>3. i.to \in Seq(Cells) /\ Range(i.to) = {a, b}
      BY <1>2 DEF Range
    <2> QED
      BY <1>7, <1>8, <2>1, <2>2, <2>3 DEF Negates
  <1>10. KeptBy(i, c, d)
    BY <1>9, KeptIf
  <1>11. PICK x, y : x = Pair(c, a, b) /\ y = Pair(d, a, b)
    OBVIOUS
  <1>12. d \in Machine /\ j \in 0..1
    BY <1>7 DEF Makes
  <1>13. /\ N \in Nat \ {0} /\ x \in 0..(N - 1) /\ y \in 0..(N - 1)
         /\ Val(c, i.to) = x /\ Val(d, i.to) = y /\ Size(i.to) = N
    BY <1>2, <1>11, <1>12, PairRange
  <1>14. y = m - x + N * j
    BY <1>4, <1>7, <1>11 DEF Negates
  <1>15. RightFor(i, c, d)
    <2>1. CASE i.rtx = "neg"
      <3>1. -x = N * (-j) + y
        BY <1>3, <1>12, <1>13, <1>14, <2>1
      <3>2. -x \in Int /\ -j \in Int
        BY <1>12, <1>13
      <3>3. (-x) % N = y
        BY <1>13, <3>1, <3>2, DivModUnique
      <3>4. Val(d, i.to) = (-Val(c, i.one)) % Size(i.to)
        BY <1>13, <3>3
      <3> QED
        BY <2>1, <3>4, RightNegation, Zenon
    <2>2. CASE i.rtx = "not"
      <3>1. j = 0
        BY <1>3, <1>12, <1>13, <1>14, <2>2
      <3>2. y = N - 1 - x
        BY <1>3, <1>13, <1>14, <2>2, <3>1
      <3>3. Val(d, i.to) = Size(i.to) - 1 - Val(c, i.one)
        BY <1>13, <3>2
      <3> QED
        BY <2>2, <3>3, RightNegation, Zenon
    <2> QED
      BY <2>1, <2>2
  <1> QED
    BY <1>5, <1>7, <1>10, <1>15

\* negsi2 and one_cmplsi2
LEMMA NegateLongCorrect ==
  ASSUME NEW i, i.rtx = "neg" \/ i.rtx = "not", i.to = HLDE, i.one = HLDE,
         i.swapped = FALSE, NEW v, NEW c \in Machine, HoldsConstants(c)
  PROVE  Correct(i, v, c)
  <1>1. PICK z, m : /\ z = IF i.rtx = "neg" THEN "zero" ELSE "ones"
                    /\ m = IF i.rtx = "neg" THEN 0 ELSE N - 1
    OBVIOUS
  <1>2. /\ z \in Cells \ {"L", "H", "E", "D", "C", "B"}
        /\ Pair(c, z, z) = m
    BY <1>1, NegationConstant
  <1>3. Len(HLDE) = 4
    BY Operands
  <1>4. Output(i, v) = negatesi2(HLDE, <<z, z>>)
    <2>1. <<z, z>> = IF i.rtx = "neg" THEN Zero(2) ELSE Ones(2)
      BY <1>1, ConstantOperands
    <2> QED
      BY <1>3, <2>1 DEF Output, LogicOps
  <1>5. SUFFICES ASSUME NEW k \in 0..1
                 PROVE  \E d, j : /\ Makes(Output(i, v), c, k, d, j)
                                  /\ KeptBy(i, c, d)
                                  /\ RightFor(i, c, d)
    BY DEF Correct
  <1>6. PICK S : S = {"L", "H", "E", "D", "C", "B"}
    OBVIOUS
  <1>7. PICK d, j : /\ Makes(negatesi2(HLDE, <<z, z>>), c, k, d, j)
                    /\ Only(c, d, S)
                    /\ Val(d, HLDE) = ((Pair(c, z, z) + N * Pair(c, z, z))
                                         - Val(c, HLDE)) % Size(HLDE)
    BY <1>2, <1>6, NegateLong
  <1>8. Clobbers(i) = BC
    BY <1>3 DEF Clobbers, LogicOps
  <1>9. KeptBy(i, c, d)
    BY <1>6, <1>7, <1>8, LongKept
  <1>10. PICK x, M : x = Val(c, HLDE) /\ M = N * N
    OBVIOUS
  <1>11. /\ N \in Nat \ {0} /\ M \in Nat \ {0} /\ x \in 0..(M - 1)
         /\ Size(HLDE) = M
    <2>1. "L" \in Cells /\ "H" \in Cells /\ "E" \in Cells /\ "D" \in Cells
      BY Registers
    <2>2. N \in Nat \ {0} /\ M \in Nat \ {0}
      BY <1>10, <2>1, PairRange
    <2>3. x \in 0..(M - 1) /\ Size(HLDE) = M
      BY <1>10, <2>1, LongRange, Operands
    <2> QED
      BY <2>2, <2>3
  <1>12. Val(d, HLDE) = ((m + N * m) - x) % M
    BY <1>2, <1>7, <1>10, <1>11
  <1>13. RightFor(i, c, d)
    <2>1. CASE i.rtx = "neg"
      <3>1. (m + N * m) - x = -x
        BY <1>1, <1>11, <2>1
      <3>2. Val(d, i.to) = (-Val(c, i.one)) % Size(i.to)
        BY <1>10, <1>11, <1>12, <3>1
      <3> QED
        BY <2>1, <3>2, RightNegation, Zenon
    <2>2. CASE i.rtx = "not"
      <3>1. N * (N - 1) = M - N
        BY <1>10, <1>11
      <3>2. m = N - 1
        BY <1>1, <2>2
      <3>3. (m + N * m) - x = M - 1 - x
        BY <1>11, <3>1, <3>2
      <3>4. PICK y : y = M - 1 - x
        OBVIOUS
      <3>5. y \in 0..(M - 1) /\ y \in Int /\ y = M * 0 + y
        BY <1>11, <3>4
      <3>6. y % M = y
        BY <1>11, <3>5, DivModUnique
      <3>7. Val(d, i.to) = Size(i.to) - 1 - Val(c, i.one)
        BY <1>10, <1>11, <1>12, <3>3, <3>4, <3>6
      <3> QED
        BY <2>2, <3>7, RightNegation, Zenon
    <2> QED
      BY <2>1, <2>2
  <1> QED
    BY <1>4, <1>7, <1>9, <1>13

\* negM2 and one_cmplM2.
LEMMA NegationsCorrect ==
  ASSUME NEW i \in Negations, NEW v, NEW c \in Machine, HoldsConstants(c)
  PROVE  Correct(i, v, c)
  <1>1. PICK rtx \in {"neg", "not"} :
          i \in Tied(rtx, {HLDE, DE, BC, A}, {<<>>})
    BY DEF Negations
  <1>2. /\ (i.rtx = "neg" \/ i.rtx = "not") /\ i.to \in {HLDE, DE, BC, A}
        /\ i.one = i.to /\ i.swapped = FALSE
    BY <1>1 DEF Tied
  <1>3. CASE i.to = HLDE
    <2>1. i.one = HLDE
      BY <1>2, <1>3
    <2> QED
      BY <1>2, <1>3, <2>1, NegateLongCorrect, Zenon
  <1>4. CASE i.to = DE \/ i.to = BC
    BY <1>2, <1>4, NegateWordCorrect, Zenon
  <1>5. CASE i.to = A
    <2>1. i.one = A
      BY <1>2, <1>5
    <2> QED
      BY <1>2, <1>5, <2>1, NegateByteCorrect, Zenon
  <1> QED
    BY <1>2, <1>3, <1>4, <1>5

\* andsi3, iorsi3 and xorsi3
LEMMA LogicLongCorrect ==
  ASSUME NEW i, i.rtx \in LogicOps, i.to = HLDE, i.one = HLDE,
         i.two \in {HLDE, Mem(4), Imm(4)}, i.swapped \in BOOLEAN, NEW v,
         NEW c \in Machine
  PROVE  Correct(i, v, c)
  <1>1. PICK p, q, r, s : /\ p = i.two[1] /\ q = i.two[2]
                          /\ r = i.two[3] /\ s = i.two[4]
    OBVIOUS
  <1>2. /\ i.two = <<p, q, r, s>> /\ p \in Cells /\ q \in Cells
        /\ r \in Cells \ {"A", "L", "H", "C", "B"}
        /\ s \in Cells \ {"A", "L", "H", "C", "B"}
    BY <1>1, LongShapes DEF IsLong, IsLongPlace
  <1>3. HLDE = <<"L", "H", "E", "D">> /\ Len(HLDE) = 4
    BY Operands
  <1>4. Output(i, v) = logicsi3(i.rtx, HLDE, <<p, q, r, s>>)
    BY <1>2, <1>3 DEF Output, LogicOps
  <1>5. SUFFICES ASSUME NEW k \in 0..1
                 PROVE  \E d, j : /\ Makes(Output(i, v), c, k, d, j)
                                  /\ KeptBy(i, c, d)
                                  /\ RightFor(i, c, d)
    BY DEF Correct
  <1>6. PICK S, op : S = {"L", "H", "E", "D", "A", "C", "B"} /\ op = i.rtx
    OBVIOUS
  <1>7. PICK d, j : /\ Makes(logicsi3(op, HLDE, <<p, q, r, s>>), c, k, d, j)
                    /\ Only(c, d, S)
                    /\ d["L"] = Bits(op, c["L"], c[p])
                    /\ d["H"] = Bits(op, c["H"], c[q])
                    /\ d["E"] = Bits(op, c["E"], c[r])
                    /\ d["D"] = Bits(op, c["D"], c[s])
    <2>1. op \in LogicOps
      BY <1>6
    <2> QED
      BY <1>2, <1>6, <2>1, LogicLong
  <1>8. /\ i.to \in Seq(Cells) /\ Clobbers(i) \in Seq(Cells)
        /\ S \subseteq Range(i.to) \cup Range(Clobbers(i)) \cup {"s0", "s1"}
    <2>1. Clobbers(i) = A \o BC
      BY <1>3 DEF Clobbers, LogicOps
    <2>2. HLDE \in Seq(Cells) /\ Range(HLDE) = {"L", "H", "E", "D"}
      BY <1>3, Registers DEF Range
    <2>3. /\ A \in Seq(Cells) /\ Range(A) = {"A"}
          /\ BC \in Seq(Cells) /\ Range(BC) = {"C", "B"}
      BY Registers DEF A, BC, Range
    <2>4. A \o BC \in Seq(Cells) /\ {"A", "C", "B"} \subseteq Range(A \o BC)
      BY <2>3, RangeConcat
    <2> QED
      BY <1>6, <2>1, <2>2, <2>4
  <1>9. KeptBy(i, c, d)
    BY <1>7, <1>8, KeptIf
  <1>10. ASSUME NEW n \in 1..Len(i.to)
         PROVE  /\ c[i.one[n]] \in 0..(R - 1) /\ c[i.two[n]] \in 0..(R - 1)
                /\ d[i.to[n]] = Bits(i.rtx, c[i.one[n]], c[i.two[n]])
    <2>1. n \in {1, 2, 3, 4}
      BY <1>3
    <2>2. /\ "L" \in Cells /\ "H" \in Cells /\ "E" \in Cells /\ "D" \in Cells
          /\ r \in Cells /\ s \in Cells
      BY <1>2, Registers
    <2>3. /\ c["L"] \in 0..(R - 1) /\ c["H"] \in 0..(R - 1)
          /\ c["E"] \in 0..(R - 1) /\ c["D"] \in 0..(R - 1)
          /\ c[p] \in 0..(R - 1) /\ c[q] \in 0..(R - 1)
          /\ c[r] \in 0..(R - 1) /\ c[s] \in 0..(R - 1)
      BY <1>2, <2>2, Sizes
    <2> QED
      BY <1>1, <1>3, <1>6, <1>7, <2>1, <2>3
  <1>11. Len(i.to) \in Nat /\ Len(i.one) = Len(i.to) /\ Len(i.two) = Len(i.to)
    BY <1>2, <1>3
  <1>12. RightFor(i, c, d)
    BY <1>10, <1>11, RightLogic
  <1> QED
    BY <1>4, <1>6, <1>7, <1>9, <1>12

\* andhi3, iorhi3 and xorhi3
LEMMA LogicWordCorrect ==
  ASSUME NEW i \in Accepted, i.rtx \in LogicOps, i.to \in Words,
         i.one = i.to, i.two \in Words, i.swapped \in BOOLEAN, NEW v,
         NEW c \in Machine
  PROVE  Correct(i, v, c)
  <1>1. PICK t, w : t = i.to /\ w = i.two
    OBVIOUS
  <1>2. PICK a, b, p, q : /\ a = Low(t)[1] /\ b = t[2]
                          /\ p = Low(w)[1] /\ q = w[2]
    OBVIOUS
  <1>3. /\ High(t) = <<b>> /\ Low(t) = <<a>> /\ a \in {t[1], b}
        /\ t \notin {IX, IY} => a = t[1]
    BY <1>1, <1>2, WordHalves
  <1>4. /\ High(w) = <<q>> /\ Low(w) = <<p>> /\ p \in {w[1], q}
        /\ w \notin {IX, IY} => p = w[1]
    BY <1>1, <1>2, WordHalves
  <1>5. IsWordPlace(t) /\ IsWordPlace(w)
    BY <1>1, WordShapes
  <1>6. /\ t \in Seq(Cells) /\ Range(t) = {t[1], b} /\ Len(t) = 2
        /\ Len(w) = 2
    BY <1>2, <1>5, WordPlace
  <1>7. /\ a \in Writable \ {"A"} /\ b \in Writable \ {"A"} /\ t[1] # b
        /\ p \in Cells \ {"A"} /\ q \in Cells \ {"A"}
    BY <1>2, <1>3, <1>4, <1>5, Registers DEF IsWordPlace
  <1>8. Output(i, v) = logichi3(i.rtx, t, w)
    BY <1>1, <1>6 DEF Output, LogicOps
  <1>9. SUFFICES ASSUME NEW k \in 0..1
                 PROVE  \E d, j : /\ Makes(Output(i, v), c, k, d, j)
                                  /\ KeptBy(i, c, d)
                                  /\ i \notin Wrong => RightFor(i, c, d)
    BY DEF Correct
  <1>10. PICK S, op : S = {a, b, "A"} /\ op = i.rtx
    OBVIOUS
  <1>11. PICK d, j : /\ Makes(logichi3(op, t, w), c, k, d, j)
                     /\ Combines(op, c, d, a, b, p, q)
    <2>1. op \in LogicOps
      BY <1>10
    <2> QED
      BY <1>3, <1>4, <1>7, <2>1, LogicWord
  <1>12. /\ i.to \in Seq(Cells) /\ Clobbers(i) \in Seq(Cells)
         /\ Only(c, d, S)
         /\ S \subseteq Range(i.to) \cup Range(Clobbers(i)) \cup {"s0", "s1"}
    <2>1. Clobbers(i) = A
      BY <1>1, <1>6 DEF Clobbers, LogicOps
    <2>2. A \in Seq(Cells) /\ Range(A) = {"A"}
      BY Registers DEF A, Range
    <2> QED
      BY <1>1, <1>3, <1>6, <1>10, <1>11, <2>1, <2>2 DEF Combines
  <1>13. KeptBy(i, c, d)
    BY <1>12, KeptIf
  <1>14. ASSUME i \notin Wrong
         PROVE  RightFor(i, c, d)
    <2>1. t \notin {IX, IY} /\ w \notin {IX, IY}
      BY <1>1, <1>14 DEF Wrong
    <2>2. a = t[1] /\ p = w[1]
      BY <1>3, <1>4, <2>1
    <2>3. a # q
      <3>1. t \in {HL, DE, BC} /\ w \in {HL, DE, BC}
        BY <1>1, <2>1 DEF Words
      <3>2. a \in {"L", "E", "C"}
        BY <2>2, <3>1 DEF HL, DE, BC
      <3>3. q \in {"H", "D", "B"}
        BY <1>2, <3>1 DEF HL, DE, BC
      <3> QED
        BY <3>2, <3>3
    <2>4. d[a] = Bits(op, c[a], c[p]) /\ d[b] = Bits(op, c[b], c[q])
      BY <1>7, <1>11, <2>2, <2>3 DEF Combines
    <2>5. /\ c[a] \in 0..(R - 1) /\ c[b] \in 0..(R - 1)
          /\ c[p] \in 0..(R - 1) /\ c[q] \in 0..(R - 1)
      BY <1>7, Sizes
    <2>6. ASSUME NEW n \in 1..Len(i.to)
          PROVE  /\ c[i.one[n]] \in 0..(R - 1) /\ c[i.two[n]] \in 0..(R - 1)
                 /\ d[i.to[n]] = Bits(i.rtx, c[i.one[n]], c[i.two[n]])
      <3>1. n \in {1, 2}
        BY <1>1, <1>6
      <3> QED
        BY <1>1, <1>2, <1>10, <2>2, <2>4, <2>5, <3>1
    <2>7. /\ Len(i.to) \in Nat /\ Len(i.one) = Len(i.to)
          /\ Len(i.two) = Len(i.to)
      BY <1>1, <1>6
    <2> QED
      BY <2>6, <2>7, RightLogic
  <1> QED
    BY <1>8, <1>10, <1>11, <1>13, <1>14

\* andqi3, iorqi3 and xorqi3
LEMMA LogicByteCorrect ==
  ASSUME NEW i \in Accepted, i.rtx \in LogicOps, i.to = A, i.one = A,
         i.two \in ByteRegs \cup {Mem(1), Imm(1)}, i.swapped \in BOOLEAN,
         NEW v, NEW c \in Machine
  PROVE  Correct(i, v, c)
  <1>1. PICK p, a, op : p = i.two[1] /\ a = "A" /\ op = i.rtx
    OBVIOUS
  <1>2. i.two = <<p>> /\ p \in Cells /\ op \in LogicOps
    BY <1>1, ByteShapes
  <1>3. A = <<a>> /\ a \in Writable /\ a \in Cells
    BY <1>1, Registers DEF A
  <1>4. Output(i, v) = logicqi3(op, A, <<p>>, v)
    BY <1>1, <1>2 DEF Output, LogicOps, A
  <1>5. Clobbers(i) = <<>>
    BY DEF Clobbers, LogicOps, A
  <1>6. SUFFICES ASSUME NEW k \in 0..1
                 PROVE  \E d, j : /\ Makes(Output(i, v), c, k, d, j)
                                  /\ KeptBy(i, c, d)
                                  /\ i \notin Wrong => RightFor(i, c, d)
    BY DEF Correct
  <1>7. CASE <<p>> # Imm(1)
    <2>1. Output(i, v) = Do(op, A, <<p>>)
      BY <1>4, <1>7 DEF logicqi3
    <2>2. PICK d : /\ Makes(Do(op, <<a>>, <<p>>), c, k, d, 0)
                   /\ Sets1(c, d, a, Bits(op, c[a], c[p]))
      BY <1>2, <1>3, LogicByte
    <2>3. KeptBy(i, c, d)
      BY <1>3, <1>5, <2>2, ByteKept
    <2>4. /\ c[a] \in 0..(R - 1) /\ c[p] \in 0..(R - 1)
          /\ d[a] = Bits(op, c[a], c[p])
      BY <1>2, <1>3, <2>2, Sizes DEF Sets1
    <2>5. ASSUME NEW n \in 1..Len(i.to)
          PROVE  /\ c[i.one[n]] \in 0..(R - 1) /\ c[i.two[n]] \in 0..(R - 1)
                 /\ d[i.to[n]] = Bits(i.rtx, c[i.one[n]], c[i.two[n]])
      <3>1. n = 1
        BY <1>3
      <3> QED
        BY <1>1, <1>3, <2>4, <3>1
    <2>6. /\ Len(i.to) \in Nat /\ Len(i.one) = Len(i.to)
          /\ Len(i.two) = Len(i.to)
      BY <1>2, <1>3
    <2>7. RightFor(i, c, d)
      BY <2>5, <2>6, RightLogic
    <2> QED
      BY <1>3, <2>1, <2>2, <2>3, <2>7
  <1>8. CASE <<p>> = Imm(1)
    <2>1. i \in Wrong
      BY <1>2, <1>8 DEF Wrong
    <2>2. \/ Output(i, v) = <<>> \/ Output(i, v) = Ld(A, Zero(1))
          \/ Output(i, v) = Do(op, A, A)
      BY <1>4, <1>8 DEF logicqi3
    <2>3. PICK d, j, u : /\ Makes(Output(i, v), c, k, d, j)
                         /\ Sets1(c, d, a, u)
      <3>1. CASE Output(i, v) = <<>>
        <4>1. Makes(<<>>, c, k, c, k)
          BY MakesNothing
        <4>2. Sets1(c, c, a, c[a])
          BY DEF Sets1, Only
        <4> QED
          BY <3>1, <4>1, <4>2
      <3>2. CASE Output(i, v) = Ld(A, Zero(1))
        <4>1. PICK z : z = "zero"
          OBVIOUS
        <4>2. z \in Cells /\ Zero(1) = <<z>>
          BY <4>1, CellNames, ConstantOperands
        <4>3. \E d : /\ Makes(Ld(<<a>>, <<z>>), c, k, d, k)
                     /\ Sets1(c, d, a, c[z])
          BY <1>3, <4>2, LdByte
        <4> QED
          BY <1>3, <3>2, <4>2, <4>3
      <3>3. CASE Output(i, v) = Do(op, A, A)
        <4>1. \E d : /\ Makes(Do(op, <<a>>, <<a>>), c, k, d, 0)
                     /\ Sets1(c, d, a, Bits(op, c[a], c[a]))
          BY <1>2, <1>3, LogicByte
        <4> QED
          BY <1>3, <3>3, <4>1
      <3> QED
        BY <2>2, <3>1, <3>2, <3>3
    <2>4. KeptBy(i, c, d)
      BY <1>3, <1>5, <2>3, ByteKept
    <2> QED
      BY <2>1, <2>3, <2>4
  <1> QED
    BY <1>7, <1>8

\* andM3, iorM3 and xorM3.
LEMMA LogicCorrect ==
  ASSUME NEW i \in Logic, NEW v, NEW c \in Machine
  PROVE  Correct(i, v, c)
  <1>1. i \in Accepted
    BY DEF Accepted
  <1>2. PICK op \in LogicOps :
          \/ IsTied(i, op, {HLDE}, {HLDE, Mem(4)})
          \/ IsTied(i, op, Words, Words)
          \/ IsTied(i, op, {A}, ByteRegs \cup {Mem(1)})
          \/ IsTied(i, op, {HLDE}, {Imm(4)})
          \/ IsTied(i, op, {A}, {Imm(1)})
    BY DEF Logic, Commutes, IsTied
  <1>3. CASE \/ IsTied(i, op, {HLDE}, {HLDE, Mem(4)})
             \/ IsTied(i, op, {HLDE}, {Imm(4)})
    <2>1. /\ i.rtx = op /\ i.to \in {HLDE} /\ i.one = i.to
          /\ i.two \in {HLDE, Mem(4)} \/ i.two \in {Imm(4)}
          /\ i.swapped \in BOOLEAN
      BY <1>3, TiedFields, Zenon
    <2>2. /\ i.rtx \in LogicOps /\ i.to = HLDE /\ i.one = HLDE
          /\ i.two \in {HLDE, Mem(4), Imm(4)}
      BY <2>1
    <2> QED
      BY <2>1, <2>2, LogicLongCorrect, Zenon
  <1>4. CASE IsTied(i, op, Words, Words)
    <2>1. /\ i.rtx = op /\ i.to \in Words /\ i.one = i.to
          /\ i.two \in Words /\ i.swapped \in BOOLEAN
      BY <1>4, TiedFields, Zenon
    <2> QED
      BY <1>1, <2>1, LogicWordCorrect, Zenon
  <1>5. CASE \/ IsTied(i, op, {A}, ByteRegs \cup {Mem(1)})
             \/ IsTied(i, op, {A}, {Imm(1)})
    <2>1. /\ i.rtx = op /\ i.to \in {A} /\ i.one = i.to
          /\ i.two \in ByteRegs \cup {Mem(1)} \/ i.two \in {Imm(1)}
          /\ i.swapped \in BOOLEAN
      BY <1>5, TiedFields, Zenon
    <2>2. /\ i.rtx \in LogicOps /\ i.to = A /\ i.one = A
          /\ i.two \in ByteRegs \cup {Mem(1), Imm(1)}
      BY <2>1
    <2> QED
      BY <1>1, <2>1, <2>2, LogicByteCorrect, Zenon
  <1> QED
    BY <1>2, <1>3, <1>4, <1>5

\* Adding -1.
LEMMA AddMinusOne ==
  ASSUME NEW M \in Nat \ {0}, NEW x \in Int
  PROVE  (x + (M - 1)) % M = (x - 1) % M
  <1>1. PICK q, r : q = (x - 1) \div M /\ r = (x - 1) % M
    OBVIOUS
  <1>2. /\ r \in 0..(M - 1) /\ q \in Int /\ x - 1 = M * q + r
    <2>1. x - 1 \in Int
      OBVIOUS
    <2> QED
      BY <1>1, <2>1, DivMod
  <1>3. x + (M - 1) = M * (q + 1) + r
    BY <1>2
  <1>4. x + (M - 1) \in Int /\ q + 1 \in Int
    BY <1>2
  <1>5. (x + (M - 1)) % M = r
    BY <1>2, <1>3, <1>4, DivModUnique
  <1> QED
    BY <1>1, <1>5

\* No register pair is a constant.
LEMMA WordsDiffer ==
  /\ \A w \in Words : w \notin {One(2), Ones(2), Imm(2)}
  /\ Mem(2) \notin {One(2), Ones(2)} /\ Imm(2) \notin {One(2), Ones(2)}
  /\ One(2) # Ones(2)
  <1>1. /\ One(2) = <<"one", "zero">> /\ Ones(2) = <<"ones", "ones">>
        /\ Imm(2) = <<"i0", "i1">> /\ Mem(2) = <<"m0", "m1">>
    BY Operands, ConstantOperands
  <1>2. ASSUME NEW w \in Words
        PROVE  w[1] \in {"L", "E", "C", "IXL", "IYL"}
    BY DEF Words, HL, DE, BC, IX, IY
  <1> QED
    BY <1>1, <1>2

\* addsi3
LEMMA PlusLongCorrect ==
  ASSUME NEW i, i.rtx = "plus", i.to = HLDE, i.one = HLDE,
         i.two \in {HLDE, Mem(4), Imm(4)}, i.swapped \in BOOLEAN, NEW v,
         NEW c \in Machine
  PROVE  Correct(i, v, c)
  <1>1. PICK p, q, r, s : /\ p = i.two[1] /\ q = i.two[2]
                          /\ r = i.two[3] /\ s = i.two[4]
    OBVIOUS
  <1>2. /\ i.two = <<p, q, r, s>>
        /\ p \in Cells \ {"C", "B"} /\ q \in Cells \ {"C", "B"}
        /\ r \in Cells \ {"C", "B", "L", "H"}
        /\ s \in Cells \ {"C", "B", "L", "H"}
    <2>1. /\ i.two = <<p, q, r, s>> /\ p \in Cells /\ q \in Cells
          /\ r \in Cells \ {"C", "B", "L", "H"}
          /\ s \in Cells \ {"C", "B", "L", "H"}
      BY <1>1, LongShapes DEF IsLong, IsLongPlace
    <2>2. p \in {"L", "m0", "i0"} /\ q \in {"H", "m1", "i1"}
      BY <1>1, Operands
    <2> QED
      BY <2>1, <2>2
  <1>3. HLDE = <<"L", "H", "E", "D">> /\ Len(HLDE) = 4
    BY Operands
  <1>4. Output(i, v) = addsi3(HLDE, <<p, q, r, s>>)
    BY <1>2, <1>3 DEF Output, LogicOps
  <1>5. SUFFICES ASSUME NEW k \in 0..1
                 PROVE  \E d, j : /\ Makes(Output(i, v), c, k, d, j)
                                  /\ KeptBy(i, c, d)
                                  /\ RightFor(i, c, d)
    BY DEF Correct
  <1>6. PICK S : S = {"L", "H", "E", "D", "C", "B"}
    OBVIOUS
  <1>7. PICK d, j : /\ Makes(addsi3(HLDE, <<p, q, r, s>>), c, k, d, j)
                    /\ Only(c, d, S)
                    /\ Val(d, HLDE) = (Val(c, HLDE) + Val(c, <<p, q, r, s>>))
                                      % Size(HLDE)
    BY <1>2, <1>6, AddLong
  <1>8. Clobbers(i) = BC
    BY <1>3 DEF Clobbers, LogicOps
  <1>9. KeptBy(i, c, d)
    BY <1>6, <1>7, <1>8, LongKept
  <1>10. Val(c, HLDE) \in Int /\ Val(c, <<p, q, r, s>>) \in Int
    <2>1. /\ "L" \in Cells /\ "H" \in Cells /\ "E" \in Cells /\ "D" \in Cells
          /\ p \in Cells /\ q \in Cells /\ r \in Cells /\ s \in Cells
      BY <1>2, Registers
    <2>2. N * N \in Nat \ {0}
      BY <2>1, PairRange
    <2>3. /\ Val(c, HLDE) \in 0..(N * N - 1)
          /\ Val(c, <<p, q, r, s>>) \in 0..(N * N - 1)
      BY <1>3, <2>1, LongRange
    <2> QED
      BY <2>2, <2>3
  <1>11. Val(d, i.to) = (Val(c, i.one) + Val(c, i.two)) % Size(i.to)
    BY <1>2, <1>7
  <1>12. Val(c, i.one) \in Int /\ Val(c, i.two) \in Int
    BY <1>2, <1>10
  <1>13. RightFor(i, c, d)
    BY <1>11, <1>12, RightPlus, Zenon
  <1> QED
    BY <1>4, <1>7, <1>9, <1>13

\* The value of a word of which the code makes the sum.
LEMMA RightWord ==
  ASSUME NEW i, i.rtx = "plus", i.swapped \in BOOLEAN, NEW c \in Machine,
         NEW d \in Machine, NEW a \in Cells, NEW b \in Cells,
         NEW e \in Cells, NEW f \in Cells, NEW p \in Cells, NEW q \in Cells,
         i.to = <<a, b>>, i.one = <<e, f>>, i.two = <<p, q>>,
         Pair(d, a, b) = (Pair(c, e, f) + Pair(c, p, q)) % N
  PROVE  RightFor(i, c, d)
  <1>1. /\ Val(d, i.to) = Pair(d, a, b) /\ Size(i.to) = N
        /\ Val(c, i.one) = Pair(c, e, f) /\ Val(c, i.two) = Pair(c, p, q)
    BY PairRange
  <1>2. Pair(c, e, f) \in Int /\ Pair(c, p, q) \in Int
    <2>1. /\ N \in Nat \ {0} /\ Pair(c, e, f) \in 0..(N - 1)
          /\ Pair(c, p, q) \in 0..(N - 1)
      BY PairRange
    <2> QED
      BY <2>1
  <1>3. Val(c, i.one) \in Int /\ Val(c, i.two) \in Int
    BY <1>1, <1>2
  <1>4. Val(d, i.to) = (Val(c, i.one) + Val(c, i.two)) % Size(i.to)
    BY <1>1
  <1> QED
    BY <1>3, <1>4, RightPlus, Zenon

\* *addhi3, the sum in place of the first operand.
LEMMA PlusWordCorrect ==
  ASSUME NEW i, i.rtx = "plus", i.to \in {HL, IX, IY}, i.one = i.to,
         i.two \in Words, i.swapped \in BOOLEAN, NEW v, NEW c \in Machine
  PROVE  Correct(i, v, c)
  <1>1. PICK a, b, p, q : /\ a = i.to[1] /\ b = i.to[2]
                          /\ p = i.two[1] /\ q = i.two[2]
    OBVIOUS
  <1>2. i.two = <<p, q>> /\ p \in Cells /\ q \in Cells
    BY <1>1, WordOperands
  <1>3. i.to \in Words /\ i.to \notin {DE, BC} /\ Len(i.to) = 2
    BY DEF Words, HL, DE, BC, IX, IY
  <1>4. /\ i.to = <<a, b>> /\ a \in Writable /\ b \in Writable /\ a # b
        /\ a \in Cells /\ b \in Cells
    BY <1>1, <1>3, WordShapes, Registers DEF IsWordPlace
  <1>5. Output(i, v) = Do("add", <<a, b>>, <<p, q>>)
    <2>1. Output(i, v) = addhi3(i.to, i.to, i.two)
      BY <1>3 DEF Output, LogicOps
    <2>2. i.two # One(2) /\ i.two # Ones(2) /\ i.two # Imm(2)
      BY WordsDiffer
    <2>3. addhi3(i.to, i.to, i.two) = Do("add", i.to, i.two)
      BY <1>3, <2>2 DEF addhi3
    <2> QED
      BY <1>2, <1>4, <2>1, <2>3
  <1>6. Clobbers(i) = <<>>
    BY <1>3 DEF Clobbers, LogicOps
  <1>7. SUFFICES ASSUME NEW k \in 0..1
                 PROVE  \E d, j : /\ Makes(Output(i, v), c, k, d, j)
                                  /\ KeptBy(i, c, d)
                                  /\ RightFor(i, c, d)
    BY DEF Correct
  <1>8. PICK d, j : /\ Makes(Do("add", <<a, b>>, <<p, q>>), c, k, d, j)
                    /\ SetsWord(c, d, a, b,
                                (Pair(c, a, b) + Pair(c, p, q)) % N)
    BY <1>2, <1>4, AddInPlace
  <1>9. KeptBy(i, c, d)
    BY <1>4, <1>6, <1>8, WordKept
  <1>10. d \in Machine /\ Pair(d, a, b) = (Pair(c, a, b) + Pair(c, p, q)) % N
    BY <1>8 DEF Makes, SetsWord
  <1>11. i.one = <<a, b>>
    BY <1>4
  <1>12. RightFor(i, c, d)
    BY <1>2, <1>4, <1>10, <1>11, RightWord, Zenon
  <1> QED
    BY <1>5, <1>8, <1>9, <1>12

\* The nameless inc and dec of a word.
LEMMA PlusOneWordCorrect ==
  ASSUME NEW i, i.rtx = "plus", i.to \in Words, i.one = i.to,
         i.two = One(2) \/ i.two = Ones(2), i.swapped \in BOOLEAN, NEW v,
         NEW c \in Machine, HoldsConstants(c)
  PROVE  Correct(i, v, c)
  <1>1. PICK a, b, p, q : /\ a = i.to[1] /\ b = i.to[2]
                          /\ p = i.two[1] /\ q = i.two[2]
    OBVIOUS
  <1>2. i.two = <<p, q>> /\ p \in Cells /\ q \in Cells
    BY <1>1, WordOperands
  <1>3. /\ i.to = <<a, b>> /\ a \in Writable /\ b \in Writable /\ a # b
        /\ a \in Cells /\ b \in Cells
    BY <1>1, WordShapes, Registers DEF IsWordPlace
  <1>4. PICK op, x : /\ op = IF i.two = One(2) THEN "inc" ELSE "dec"
                     /\ x = Pair(c, a, b)
    OBVIOUS
  <1>5. Output(i, v) = Do(op, <<a, b>>, <<a, b>>)
    <2>1. Output(i, v) = addhi3(i.to, i.to, i.two)
      BY <1>3 DEF Output, LogicOps
    <2>2. /\ i.two # Imm(2) /\ i.two \notin Words /\ One(2) # Ones(2)
      BY WordsDiffer
    <2>3. addhi3(i.to, i.to, i.two) = Do(op, i.to, i.to)
      BY <1>4, <2>2 DEF addhi3
    <2> QED
      BY <1>3, <2>1, <2>3
  <1>6. Clobbers(i) = <<>>
    BY <1>3 DEF Clobbers, LogicOps
  <1>7. SUFFICES ASSUME NEW k \in 0..1
                 PROVE  \E d, j : /\ Makes(Output(i, v), c, k, d, j)
                                  /\ KeptBy(i, c, d)
                                  /\ RightFor(i, c, d)
    BY DEF Correct
  <1>8. PICK d : /\ Makes(Do(op, <<a, b>>, <<a, b>>), c, k, d, k)
                 /\ SetsWord(c, d, a, b,
                             (IF op = "inc" THEN Pair(c, a, b) + 1
                              ELSE Pair(c, a, b) - 1) % N)
    <2>1. op \in {"inc", "dec"}
      BY <1>4
    <2> QED
      BY <1>3, <2>1, CountWord
  <1>9. KeptBy(i, c, d)
    BY <1>3, <1>6, <1>8, WordKept
  <1>10. /\ d \in Machine
         /\ Pair(d, a, b) = (IF op = "inc" THEN x + 1 ELSE x - 1) % N
    BY <1>4, <1>8 DEF Makes, SetsWord
  <1>11. N \in Nat \ {0} /\ x \in Int
    <2>1. N \in Nat \ {0} /\ Pair(c, a, b) \in 0..(N - 1)
      BY <1>3, PairRange
    <2> QED
      BY <1>4, <2>1
  <1>12. Pair(d, a, b) = (x + Pair(c, p, q)) % N
    <2>1. R \in Nat \ {0}
      BY Sizes
    <2>2. CASE i.two = One(2)
      <3>1. p = "one" /\ q = "zero" /\ op = "inc"
        BY <1>1, <1>4, <2>2, ConstantOperands
      <3>2. Pair(c, p, q) = 1
        BY <2>1, <3>1 DEF Pair, HoldsConstants
      <3> QED
        BY <1>10, <3>1, <3>2
    <2>3. CASE i.two = Ones(2)
      <3>1. p = "ones" /\ q = "ones" /\ op = "dec"
        BY <1>1, <1>4, <2>3, ConstantOperands, WordsDiffer
      <3>2. Pair(c, p, q) = N - 1
        BY <3>1, NegationConstant
      <3>3. (x + (N - 1)) % N = (x - 1) % N
        BY <1>11, AddMinusOne
      <3> QED
        BY <1>10, <3>1, <3>2, <3>3
    <2> QED
      BY <2>2, <2>3
  <1>13. /\ Pair(d, a, b) = (Pair(c, a, b) + Pair(c, p, q)) % N
         /\ i.one = <<a, b>>
    BY <1>3, <1>4, <1>12
  <1>14. RightFor(i, c, d)
    BY <1>2, <1>3, <1>10, <1>13, RightWord, Zenon
  <1> QED
    BY <1>5, <1>8, <1>9, <1>14

\* addhi_mov: a constant added to an index register by way of BC, which the
\* stack keeps.
LEMMA PlusConstantCorrect ==
  ASSUME NEW i, i.rtx = "plus", i.to \in {IX, IY}, i.one = i.to,
         i.two = Imm(2), i.swapped \in BOOLEAN, NEW v, NEW c \in Machine
  PROVE  Correct(i, v, c)
  <1>1. PICK a, b, p, q : /\ a = i.to[1] /\ b = i.to[2]
                          /\ p = i.two[1] /\ q = i.two[2]
    OBVIOUS
  <1>2. /\ i.two = <<p, q>> /\ p \in Cells /\ q \in Cells
        /\ p \in Cells \ {"s0", "s1"} /\ q \in Cells \ {"s0", "s1"}
    BY <1>1, Operands, CellNames
  <1>3. i.to \in Words /\ Len(i.to) = 2
    BY DEF Words, IX, IY
  <1>4. /\ i.to = <<a, b>> /\ a # b /\ a \in Cells /\ b \in Cells
        /\ a \in Writable \ {"C", "B", "s0", "s1"}
        /\ b \in Writable \ {"C", "B", "s0", "s1"}
    <2>1. a \in {"IXL", "IYL"} /\ b \in {"IXH", "IYH"} /\ i.to = <<a, b>>
      BY <1>1 DEF IX, IY
    <2> QED
      BY <2>1, CellNames
  <1>5. Output(i, v) = addhi_mov(<<a, b>>, <<p, q>>)
    <2>1. Output(i, v) = addhi3(i.to, i.to, i.two)
      BY <1>3 DEF Output, LogicOps
    <2>2. i.two # One(2) /\ i.two # Ones(2) /\ i.two \notin Words
      BY WordsDiffer
    <2>3. addhi3(i.to, i.to, i.two) = addhi_mov(i.to, i.two)
      BY <2>2 DEF addhi3
    <2> QED
      BY <1>2, <1>4, <2>1, <2>3
  <1>6. Clobbers(i) = <<>>
    BY <1>3 DEF Clobbers, LogicOps
  <1>7. SUFFICES ASSUME NEW k \in 0..1
                 PROVE  \E d, j : /\ Makes(Output(i, v), c, k, d, j)
                                  /\ KeptBy(i, c, d)
                                  /\ RightFor(i, c, d)
    BY DEF Correct
  <1>8. PICK S : S = {a, b, "s0", "s1"}
    OBVIOUS
  <1>9. PICK d, j : /\ Makes(addhi_mov(<<a, b>>, <<p, q>>), c, k, d, j)
                    /\ Only(c, d, S)
                    /\ Pair(d, a, b) = (Pair(c, a, b) + Pair(c, p, q)) % N
    <2>1. PICK d, j : /\ Makes(addhi_mov(<<a, b>>, <<p, q>>), c, k, d, j)
                      /\ AddsConstant(c, d, a, b, p, q)
      BY <1>2, <1>4, AddConstant
    <2> QED
      BY <1>8, <2>1 DEF AddsConstant
  <1>10. /\ i.to \in Seq(Cells) /\ Clobbers(i) \in Seq(Cells)
         /\ S \subseteq Range(i.to) \cup Range(Clobbers(i)) \cup {"s0", "s1"}
    <2>1. i.to \in Seq(Cells) /\ Range(i.to) = {a, b}
      BY <1>4 DEF Range
    <2>2. Clobbers(i) \in Seq(Cells)
      BY <1>6
    <2> QED
      BY <1>8, <2>1, <2>2
  <1>11. KeptBy(i, c, d)
    BY <1>9, <1>10, KeptIf
  <1>12. d \in Machine /\ i.one = <<a, b>>
    BY <1>4, <1>9 DEF Makes
  <1>13. RightFor(i, c, d)
    BY <1>2, <1>4, <1>9, <1>12, RightWord, Zenon
  <1> QED
    BY <1>5, <1>9, <1>11, <1>13

\* *addhi3, the third operand loaded first.
LEMMA PlusLoadCorrect ==
  ASSUME NEW i, i.rtx = "plus", i.to \in {HL, IX, IY}, i.one \in {DE, BC},
         i.two \in {Mem(2), Imm(2)}, i.swapped = FALSE, NEW v,
         NEW c \in Machine
  PROVE  Correct(i, v, c)
  <1>1. PICK a, b, p, q, e, f : /\ a = i.to[1] /\ b = i.to[2]
                                /\ p = i.two[1] /\ q = i.two[2]
                                /\ e = i.one[1] /\ f = i.one[2]
    OBVIOUS
  <1>2. i.two = <<p, q>> /\ p \in Cells /\ q \in Cells
    BY <1>1, WordOperands
  <1>3. i.to \in Words /\ i.one \in Words /\ i.to # i.one /\ Len(i.to) = 2
    BY DEF Words, HL, DE, BC, IX, IY
  <1>4. /\ i.to = <<a, b>> /\ a \in Writable /\ b \in Writable /\ a # b
        /\ a \in Cells /\ b \in Cells
    BY <1>1, <1>3, WordShapes, Registers DEF IsWordPlace
  <1>5. /\ i.one = <<e, f>> /\ e \in Cells /\ f \in Cells
        /\ e \in Cells \ {a, b} /\ f \in Cells \ {a, b}
    <2>1. i.one = <<e, f>> /\ e \in Cells /\ f \in Cells
      BY <1>1, <1>3, WordOperands
    <2>2. e \in {"E", "C"} /\ f \in {"D", "B"}
      BY <1>1 DEF DE, BC
    <2>3. a \in {"L", "IXL", "IYL"} /\ b \in {"H", "IXH", "IYH"}
      BY <1>1 DEF HL, IX, IY
    <2> QED
      BY <2>1, <2>2, <2>3
  <1>6. Output(i, v)
          = Ld(<<a, b>>, <<p, q>>) \o Do("add", <<a, b>>, <<e, f>>)
    <2>1. Output(i, v) = addhi3(i.to, i.one, i.two)
      BY <1>3 DEF Output, LogicOps
    <2>2. i.two # One(2) /\ i.two # Ones(2)
      BY WordsDiffer
    <2>3. addhi3(i.to, i.one, i.two)
            = Ld(i.to, i.two) \o Do("add", i.to, i.one)
      BY <1>3, <2>2 DEF addhi3
    <2> QED
      BY <1>2, <1>4, <1>5, <2>1, <2>3
  <1>7. Clobbers(i) = <<>>
    BY <1>3 DEF Clobbers, LogicOps
  <1>8. SUFFICES ASSUME NEW k \in 0..1
                 PROVE  \E d, j : /\ Makes(Output(i, v), c, k, d, j)
                                  /\ KeptBy(i, c, d)
                                  /\ RightFor(i, c, d)
    BY DEF Correct
  <1>9. PICK d, j : /\ Makes(Ld(<<a, b>>, <<p, q>>)
                             \o Do("add", <<a, b>>, <<e, f>>), c, k, d, j)
                    /\ SetsWord(c, d, a, b,
                                (Pair(c, p, q) + Pair(c, e, f)) % N)
    BY <1>2, <1>4, <1>5, LoadThenAdd
  <1>10. KeptBy(i, c, d)
    BY <1>4, <1>7, <1>9, WordKept
  <1>11. /\ d \in Machine /\ i.swapped \in BOOLEAN
         /\ Pair(d, a, b) = (Pair(c, e, f) + Pair(c, p, q)) % N
    <2>1. /\ N \in Nat \ {0} /\ Pair(c, p, q) \in 0..(N - 1)
          /\ Pair(c, e, f) \in 0..(N - 1)
      BY <1>2, <1>5, PairRange
    <2>2. Pair(c, p, q) + Pair(c, e, f) = Pair(c, e, f) + Pair(c, p, q)
      BY <2>1
    <2>3. i.swapped \in BOOLEAN
      BY Zenon
    <2> QED
      BY <1>9, <2>2, <2>3 DEF Makes, SetsWord
  <1>12. RightFor(i, c, d)
    BY <1>2, <1>4, <1>5, <1>11, RightWord, Zenon
  <1> QED
    BY <1>6, <1>9, <1>10, <1>12

\* addqi3
LEMMA PlusByteCorrect ==
  ASSUME NEW i, i.rtx = "plus", i.to = A, i.one = A,
         i.two \in ByteRegs \cup {Mem(1), Imm(1)}, i.swapped \in BOOLEAN,
         NEW v, NEW c \in Machine
  PROVE  Correct(i, v, c)
  <1>1. PICK p, a : p = i.two[1] /\ a = "A"
    OBVIOUS
  <1>2. i.two = <<p>> /\ p \in Cells
    BY <1>1, ByteShapes
  <1>3. A = <<a>> /\ a \in Writable /\ a \in Cells
    BY <1>1, Registers DEF A
  <1>4. Output(i, v) = Do("add", <<a>>, <<p>>)
    <2>1. Output(i, v) = addqi3(A, i.two)
      BY DEF Output, LogicOps, A
    <2>2. i.two # One(1) /\ i.two # Ones(1)
      <3>1. p \in {"A", "L", "E", "C", "m0", "i0"}
        BY <1>1, Operands DEF ByteRegs, A
      <3> QED
        BY <1>2, <3>1, ConstantOperands
    <2> QED
      BY <1>2, <1>3, <2>1, <2>2 DEF addqi3
  <1>5. Clobbers(i) = <<>>
    BY DEF Clobbers, LogicOps, A
  <1>6. SUFFICES ASSUME NEW k \in 0..1
                 PROVE  \E d, j : /\ Makes(Output(i, v), c, k, d, j)
                                  /\ KeptBy(i, c, d)
                                  /\ RightFor(i, c, d)
    BY DEF Correct
  <1>7. PICK d, j : /\ Makes(Do("add", <<a>>, <<p>>), c, k, d, j)
                    /\ Sets1(c, d, a, (c[a] + c[p]) % R)
    BY <1>2, <1>3, AddByte
  <1>8. KeptBy(i, c, d)
    BY <1>3, <1>5, <1>7, ByteKept
  <1>9. /\ Val(d, i.to) = d[a] /\ Size(i.to) = R
        /\ Val(c, i.one) = c[a] /\ Val(c, i.two) = c[p]
    BY <1>2, <1>3, Values
  <1>10. Val(d, i.to) = (Val(c, i.one) + Val(c, i.two)) % Size(i.to)
    BY <1>7, <1>9 DEF Sets1
  <1>11. Val(c, i.one) \in Int /\ Val(c, i.two) \in Int
    <2>1. c[a] \in Int /\ c[p] \in Int
      BY <1>2, <1>3, Sizes
    <2> QED
      BY <1>9, <2>1
  <1>12. RightFor(i, c, d)
    BY <1>10, <1>11, RightPlus, Zenon
  <1> QED
    BY <1>4, <1>7, <1>8, <1>12

\* The nameless inc and dec of a byte.
LEMMA PlusOneByteCorrect ==
  ASSUME NEW i, i.rtx = "plus", i.to \in ByteRegs, i.one = i.to,
         i.two = One(1) \/ i.two = Ones(1), i.swapped \in BOOLEAN, NEW v,
         NEW c \in Machine, HoldsConstants(c)
  PROVE  Correct(i, v, c)
  <1>1. PICK a, p : a = i.to[1] /\ p = i.two[1]
    OBVIOUS
  <1>2. i.two = <<p>> /\ p \in Cells
    BY <1>1, ByteShapes
  <1>3. i.to = <<a>> /\ a \in Writable /\ a \in Cells
    BY <1>1, Registers DEF ByteRegs, A
  <1>4. PICK op, x : /\ op = IF i.two = One(1) THEN "inc" ELSE "dec"
                     /\ x = c[a]
    OBVIOUS
  <1>5. One(1) # Ones(1)
    BY ConstantOperands
  <1>6. Output(i, v) = Do(op, <<a>>, <<a>>)
    <2>1. Output(i, v) = addqi3(i.to, i.two)
      BY <1>3 DEF Output, LogicOps
    <2> QED
      BY <1>3, <1>4, <1>5, <2>1 DEF addqi3
  <1>7. Clobbers(i) = <<>>
    BY <1>3 DEF Clobbers, LogicOps
  <1>8. SUFFICES ASSUME NEW k \in 0..1
                 PROVE  \E d, j : /\ Makes(Output(i, v), c, k, d, j)
                                  /\ KeptBy(i, c, d)
                                  /\ RightFor(i, c, d)
    BY DEF Correct
  <1>9. PICK d : /\ Makes(Do(op, <<a>>, <<a>>), c, k, d, k)
                 /\ Sets1(c, d, a, (IF op = "inc" THEN c[a] + 1
                                                  ELSE c[a] - 1) % R)
    <2>1. op \in {"inc", "dec"}
      BY <1>4
    <2> QED
      BY <1>3, <2>1, CountByte
  <1>10. KeptBy(i, c, d)
    BY <1>3, <1>7, <1>9, ByteKept
  <1>11. R \in Nat \ {0} /\ x \in Int /\ c[p] \in Int
    BY <1>2, <1>3, <1>4, Sizes
  <1>12. d[a] = (IF op = "inc" THEN x + 1 ELSE x - 1) % R
    BY <1>4, <1>9 DEF Sets1
  <1>13. d[a] = (x + c[p]) % R
    <2>1. CASE i.two = One(1)
      <3>1. c[p] = 1 /\ op = "inc"
        BY <1>1, <1>4, <2>1, ConstantOperands DEF HoldsConstants
      <3> QED
        BY <1>12, <3>1
    <2>2. CASE i.two = Ones(1)
      <3>1. c[p] = R - 1 /\ op = "dec"
        BY <1>1, <1>4, <1>5, <2>2, ConstantOperands DEF HoldsConstants
      <3>2. (x + (R - 1)) % R = (x - 1) % R
        BY <1>11, AddMinusOne
      <3> QED
        BY <1>12, <3>1, <3>2
    <2> QED
      BY <2>1, <2>2
  <1>14. /\ Val(d, i.to) = d[a] /\ Size(i.to) = R
         /\ Val(c, i.one) = c[a] /\ Val(c, i.two) = c[p]
    BY <1>2, <1>3, Values
  <1>15. Val(d, i.to) = (Val(c, i.one) + Val(c, i.two)) % Size(i.to)
    BY <1>4, <1>13, <1>14
  <1>16. Val(c, i.one) \in Int /\ Val(c, i.two) \in Int
    BY <1>4, <1>11, <1>14
  <1>17. RightFor(i, c, d)
    BY <1>15, <1>16, RightPlus, Zenon
  <1> QED
    BY <1>6, <1>9, <1>10, <1>17

\* addsi3, *addhi3, addhi_mov, addqi3, inc and dec.
LEMMA AdditionsCorrect ==
  ASSUME NEW i \in Additions, NEW v, NEW c \in Machine, HoldsConstants(c)
  PROVE  Correct(i, v, c)
  <1> DEFINE P == Commutes(Tied("plus", {HLDE}, {HLDE, Mem(4)})
                           \cup Tied("plus", {HL}, {HL, DE, BC})
                           \cup Tied("plus", {IX, IY}, {DE, BC})
                           \cup Tied("plus", {A}, ByteRegs \cup {Mem(1)}))
             Q == {[rtx |-> "plus", to |-> t, one |-> o, two |-> w,
                    swapped |-> FALSE] : t \in {HL, IX, IY}, o \in {DE, BC},
                                         w \in {Mem(2), Imm(2)}}
  <1>1. i \in Accepted
    BY DEF Accepted
  <1>2. CASE \/ IsTied(i, "plus", {HLDE}, {HLDE, Mem(4)})
             \/ IsTied(i, "plus", {HLDE}, {Imm(4)})
    <2>1. /\ i.rtx = "plus" /\ i.to \in {HLDE} /\ i.one = i.to
          /\ i.two \in {HLDE, Mem(4)} \/ i.two \in {Imm(4)}
          /\ i.swapped \in BOOLEAN
      BY <1>2, TiedFields, Zenon
    <2>2. /\ i.to = HLDE /\ i.one = HLDE
          /\ i.two \in {HLDE, Mem(4), Imm(4)}
      BY <2>1
    <2> QED
      BY <2>1, <2>2, PlusLongCorrect, Zenon
  <1>3. CASE \/ IsTied(i, "plus", {HL}, {HL, DE, BC})
             \/ IsTied(i, "plus", {IX, IY}, {DE, BC})
    <2>1. /\ i.rtx = "plus" /\ i.one = i.to /\ i.swapped \in BOOLEAN
          /\ i.to \in {HL} \/ i.to \in {IX, IY}
          /\ i.two \in {HL, DE, BC} \/ i.two \in {DE, BC}
      BY <1>3, TiedFields, Zenon
    <2>2. i.to \in {HL, IX, IY} /\ i.two \in Words
      BY <2>1 DEF Words
    <2> QED
      BY <2>1, <2>2, PlusWordCorrect, Zenon
  <1>5. CASE \/ IsTied(i, "plus", {A}, ByteRegs \cup {Mem(1)})
             \/ IsTied(i, "plus", {A}, {Imm(1)})
    <2>1. /\ i.rtx = "plus" /\ i.to \in {A} /\ i.one = i.to
          /\ i.two \in ByteRegs \cup {Mem(1)} \/ i.two \in {Imm(1)}
          /\ i.swapped \in BOOLEAN
      BY <1>5, TiedFields, Zenon
    <2>2. /\ i.to = A /\ i.one = A
          /\ i.two \in ByteRegs \cup {Mem(1), Imm(1)}
      BY <2>1
    <2> QED
      BY <2>1, <2>2, PlusByteCorrect, Zenon
  <1>6. CASE IsTied(i, "plus", Words, {One(2), Ones(2)})
    <2>1. /\ i.rtx = "plus" /\ i.to \in Words /\ i.one = i.to
          /\ i.two \in {One(2), Ones(2)} /\ i.swapped \in BOOLEAN
      BY <1>6, TiedFields, Zenon
    <2>2. i.two = One(2) \/ i.two = Ones(2)
      BY <2>1
    <2> QED
      BY <2>1, <2>2, PlusOneWordCorrect, Zenon
  <1>7. CASE IsTied(i, "plus", {IX, IY}, {Imm(2)})
    <2>1. /\ i.rtx = "plus" /\ i.to \in {IX, IY} /\ i.one = i.to
          /\ i.two \in {Imm(2)} /\ i.swapped \in BOOLEAN
      BY <1>7, TiedFields, Zenon
    <2>2. i.two = Imm(2)
      BY <2>1
    <2> QED
      BY <2>1, <2>2, PlusConstantCorrect, Zenon
  <1>8. CASE i \in Q
    <2>1. /\ i.rtx = "plus" /\ i.to \in {HL, IX, IY} /\ i.one \in {DE, BC}
          /\ i.two \in {Mem(2), Imm(2)} /\ i.swapped = FALSE
      BY <1>8
    <2> QED
      BY <2>1, PlusLoadCorrect, Zenon
  <1>9. CASE IsTied(i, "plus", ByteRegs, {One(1), Ones(1)})
    <2>1. /\ i.rtx = "plus" /\ i.to \in ByteRegs /\ i.one = i.to
          /\ i.two \in {One(1), Ones(1)} /\ i.swapped \in BOOLEAN
      BY <1>9, TiedFields, Zenon
    <2>2. i.two = One(1) \/ i.two = Ones(1)
      BY <2>1
    <2> QED
      BY <2>1, <2>2, PlusOneByteCorrect, Zenon
  <1>10. CASE i \in P
    BY <1>2, <1>3, <1>5, <1>10 DEF Commutes, IsTied
  <1>11. CASE \/ i \in Tied("plus", {HLDE}, {Imm(4)})
              \/ i \in Tied("plus", Words, {One(2), Ones(2)})
              \/ i \in Tied("plus", {IX, IY}, {Imm(2)})
              \/ i \in Tied("plus", {A}, {Imm(1)})
              \/ i \in Tied("plus", ByteRegs, {One(1), Ones(1)})
    BY <1>2, <1>5, <1>6, <1>7, <1>9, <1>11 DEF IsTied
  <1>12. \/ i \in P \/ i \in Q
         \/ i \in Tied("plus", {HLDE}, {Imm(4)})
         \/ i \in Tied("plus", Words, {One(2), Ones(2)})
         \/ i \in Tied("plus", {IX, IY}, {Imm(2)})
         \/ i \in Tied("plus", {A}, {Imm(1)})
         \/ i \in Tied("plus", ByteRegs, {One(1), Ones(1)})
    <2>1. Additions = P \cup Tied("plus", {HLDE}, {Imm(4)})
                        \cup Tied("plus", Words, {One(2), Ones(2)})
                        \cup Tied("plus", {IX, IY}, {Imm(2)}) \cup Q
                        \cup Tied("plus", {A}, {Imm(1)})
                        \cup Tied("plus", ByteRegs, {One(1), Ones(1)})
      BY DEF Additions
    <2> HIDE DEF P, Q
    <2> QED
      BY <2>1
  <1> HIDE DEF P, Q
  <1> QED
    BY <1>8, <1>10, <1>11, <1>12

\* Every insn the constraints accept, in cells that hold the constants.
LEMMA OutputCorrect ==
  ASSUME NEW i \in Accepted, NEW v, NEW c \in Machine, HoldsConstants(c)
  PROVE  Correct(i, v, c)
  BY MovesCorrect, ExtensionsCorrect, AdditionsCorrect, SubtractionsCorrect,
     LogicCorrect, NegationsCorrect DEF Accepted

(***************************************************************************)
(* Steps and runs of the specification.                                    *)
(***************************************************************************)

\* Storing a byte or a word keeps cells bytes.
LEMMA PutTyped ==
  ASSUME NEW c \in Machine, NEW a, NEW b
  PROVE  /\ \A v \in 0..(R - 1) : Put(c, <<a>>, v) \in Machine
         /\ \A v \in 0..(N - 1) : Put(c, <<a, b>>, v) \in Machine
  <1>1. R \in Nat \ {0}
    BY Sizes
  <1>2. ASSUME NEW v \in 0..(R - 1)
        PROVE  Put(c, <<a>>, v) \in Machine
    <2>1. Put(c, <<a>>, v) = [z \in Cells |-> IF z = a THEN v % R ELSE c[z]]
      BY DEF Put
    <2>2. v \in Int
      BY <1>1
    <2>3. v % R \in 0..(R - 1)
      BY <1>1, <2>2, DivMod
    <2> QED
      BY <2>1, <2>3, Sizes DEF Machine
  <1>3. ASSUME NEW v \in 0..(N - 1)
        PROVE  Put(c, <<a, b>>, v) \in Machine
    <2>1. Put(c, <<a, b>>, v)
            = [z \in Cells |-> IF z = a THEN v % R
                               ELSE IF z = b THEN v \div R ELSE c[z]]
      BY DEF Put
    <2>2. v % R \in 0..(R - 1) /\ v \div R \in 0..(R - 1)
      BY <1>1, SplitWord DEF N
    <2> QED
      BY <2>1, <2>2, Sizes DEF Machine
  <1> QED
    BY <1>2, <1>3

\* The operands of an instruction have one size, and hold smaller numbers.
LEMMA OperandSizes ==
  ASSUME NEW n \in Insns, NEW c \in Machine
  PROVE  /\ Size(n.x) \in Nat \ {0}
         /\ Val(c, n.x) \in 0..(Size(n.x) - 1)
         /\ Val(c, n.y) \in 0..(Size(n.x) - 1)
         /\ n.op \in LogicOps => Size(n.x) = R
         /\ \A e \in Machine, v \in 0..(Size(n.x) - 1) :
              Put(e, n.x, v) \in Machine /\ Put(e, n.y, v) \in Machine
         /\ n.op \in Ops /\ Len(n.x) = Len(n.y)
         /\ Range(n.x) \cap Constants = {}
  <1>1. CASE n \in [op : Ops, x : {<<a>> : a \in Writable},
                    y : {<<p>> : p \in Cells}]
    <2>1. PICK a \in Writable, p \in Cells : n.x = <<a>> /\ n.y = <<p>>
      BY <1>1
    <2>2. a \in Cells /\ R \in Nat \ {0}
      BY Sizes
    <2>3. /\ Size(n.x) = R /\ Val(c, n.x) \in 0..(R - 1)
          /\ Val(c, n.y) \in 0..(R - 1)
      BY <2>1, <2>2, Values, Sizes
    <2>4. ASSUME NEW e \in Machine, NEW v \in 0..(R - 1)
          PROVE  Put(e, n.x, v) \in Machine /\ Put(e, n.y, v) \in Machine
      BY <2>1, PutTyped
    <2>5. n.op \in Ops /\ Len(n.x) = Len(n.y)
      BY <1>1, <2>1
    <2>6. Range(n.x) \cap Constants = {}
      BY <2>1 DEF Range, Writable
    <2> QED
      BY <2>2, <2>3, <2>4, <2>5, <2>6
  <1>2. CASE n \in [op : Ops \ LogicOps,
                    x : {w \in Writable \X Writable : w[1] # w[2]},
                    y : Cells \X Cells]
    <2>1. PICK a \in Writable, b \in Writable, p \in Cells, q \in Cells :
            n.x = <<a, b>> /\ n.y = <<p, q>>
      BY <1>2
    <2>2. a \in Cells /\ b \in Cells
      BY Sizes
    <2>3. /\ N \in Nat \ {0} /\ Size(n.x) = N /\ Val(c, n.x) \in 0..(N - 1)
          /\ Val(c, n.y) \in 0..(N - 1)
      BY <2>1, <2>2, PairRange
    <2>4. ASSUME NEW e \in Machine, NEW v \in 0..(N - 1)
          PROVE  Put(e, n.x, v) \in Machine /\ Put(e, n.y, v) \in Machine
      BY <2>1, PutTyped
    <2>5. n.op \in Ops \ LogicOps /\ Len(n.x) = Len(n.y)
      BY <1>2, <2>1
    <2>6. Range(n.x) \cap Constants = {}
      BY <2>1 DEF Range, Writable
    <2> QED
      BY <2>3, <2>4, <2>5, <2>6
  <1> QED
    BY <1>1, <1>2 DEF Insns

\* Every instruction leaves bytes in the cells and a bit in the carry.
LEMMA StepType ==
  ASSUME NEW n \in Insns, NEW c \in Machine, NEW k \in 0..1, NEW d, NEW j,
         Stepped(n, c, k, d, j)
  PROVE  d \in Machine /\ j \in 0..1
  <1>1. PICK x, y, M : /\ x = Val(c, n.x) /\ y = Val(c, n.y)
                       /\ M = Size(n.x)
    OBVIOUS
  <1>2. /\ M \in Nat \ {0} /\ x \in 0..(M - 1) /\ y \in 0..(M - 1)
        /\ n.op \in LogicOps => M = R
    BY <1>1, OperandSizes
  <1>3. ASSUME NEW e \in Machine, NEW v \in 0..(M - 1)
        PROVE  Put(e, n.x, v) \in Machine /\ Put(e, n.y, v) \in Machine
    BY <1>1, OperandSizes
  <1>4. CASE n.op = "ld"
    <2>1. d = Put(c, n.x, y) /\ j = k
      BY <1>1, <1>4 DEF Stepped, LogicOps
    <2> QED
      BY <1>2, <1>3, <2>1
  <1>5. CASE n.op \in {"add", "adc"}
    <2>1. PICK m : m = IF n.op = "adc" THEN k ELSE 0
      OBVIOUS
    <2>2. d = Put(c, n.x, (x + y + m) % M) /\ j = (x + y + m) \div M
      BY <1>1, <1>5, <2>1 DEF Stepped, LogicOps
    <2>3. m \in 0..1
      BY <2>1
    <2>4. (x + y + m) % M \in 0..(M - 1) /\ (x + y + m) \div M \in 0..1
      BY <1>2, <2>3, SumFits
    <2> QED
      BY <1>3, <2>2, <2>4
  <1>6. CASE n.op \in {"sub", "sbc"}
    <2>1. PICK m : m = IF n.op = "sbc" THEN k ELSE 0
      OBVIOUS
    <2>2. /\ d = Put(c, n.x, (x - y - m) % M)
          /\ j = IF x - y - m < 0 THEN 1 ELSE 0
      BY <1>1, <1>6, <2>1 DEF Stepped, LogicOps
    <2>3. m \in 0..1
      BY <2>1
    <2>4. (x - y - m) % M \in 0..(M - 1)
      BY <1>2, <2>3, DifferenceFits
    <2> QED
      BY <1>3, <2>2, <2>4
  <1>7. CASE n.op \in LogicOps
    <2>1. d = Put(c, n.x, Bits(n.op, x, y)) /\ j = 0
      BY <1>1, <1>7 DEF Stepped, LogicOps
    <2>2. Bits(n.op, x, y) \in 0..(M - 1)
      BY <1>2, <1>7, BitsByte
    <2> QED
      BY <1>3, <2>1, <2>2
  <1>8. CASE n.op = "ex"
    <2>1. d = Put(Put(c, n.x, y), n.y, x) /\ j = k
      BY <1>1, <1>8 DEF Stepped, LogicOps
    <2> QED
      BY <1>2, <1>3, <2>1
  <1>9. CASE n.op = "rl"
    <2>1. d = Put(c, n.x, (2 * x + k) % M) /\ j = (2 * x) \div M
      BY <1>1, <1>9 DEF Stepped, LogicOps
    <2>2. (2 * x + k) % M \in 0..(M - 1) /\ (2 * x) \div M \in 0..1
      BY <1>2, DoubleFits
    <2> QED
      BY <1>3, <2>1, <2>2
  <1>10. CASE n.op \in {"inc", "dec"}
    <2>1. PICK u : u = IF n.op = "inc" THEN x + 1 ELSE x - 1
      OBVIOUS
    <2>2. d = Put(c, n.x, u % M) /\ j = k
      BY <1>1, <1>10, <2>1 DEF Stepped, LogicOps
    <2>3. u \in Int
      BY <1>2, <2>1
    <2>4. u % M \in 0..(M - 1)
      BY <1>2, <2>3, DivMod
    <2> QED
      BY <1>3, <2>2, <2>4
  <1>11. CASE n.op = "neg"
    <2>1. d = Put(c, n.x, (-x) % M) /\ j = IF x = 0 THEN 0 ELSE 1
      BY <1>1, <1>11 DEF Stepped, LogicOps
    <2>2. -x \in Int
      BY <1>2
    <2>3. (-x) % M \in 0..(M - 1)
      BY <1>2, <2>2, DivMod
    <2> QED
      BY <1>3, <2>1, <2>3
  <1>12. CASE n.op = "cpl"
    <2>1. d = Put(c, n.x, M - 1 - x) /\ j = k
      BY <1>1, <1>12 DEF Stepped, LogicOps
    <2>2. M - 1 - x \in 0..(M - 1)
      BY <1>2
    <2> QED
      BY <1>3, <2>1, <2>2
  <1>13. n.op \in Ops
    BY OperandSizes
  <1> QED
    BY <1>4, <1>5, <1>6, <1>7, <1>8, <1>9, <1>10, <1>11, <1>12, <1>13
       DEF Ops, LogicOps

\* Whatever the rest of the code can make of the cells, all of it can make
\* of those it started with.
Traced ==
  \E k \in 0..1 : \A d, j :
    Runs(code, cell, carry, d, j)
      => Runs(Output(insn, start["i0"]), start, k, d, j)

\* The inductive invariant.
AluInv ==
  /\ insn \in Cases /\ start \in Machine /\ HoldsConstants(start)
  /\ cell \in Machine /\ carry \in 0..1 /\ code \in Code
  /\ Traced

\* Before the first instruction nothing has run.
LEMMA AluInit == Init => AluInv
  <1> SUFFICES ASSUME Init PROVE AluInv
    OBVIOUS
  <1>1. PICK in \in [Inputs(insn) -> Bytes] :
          start = [b \in Cells |-> CASE b \in DOMAIN Known -> Known[b]
                                     [] b \in DOMAIN in -> in[b]
                                     [] OTHER -> R \div 2]
    BY DEF Init
  <1>2. /\ insn \in Cases /\ carry \in 0..1 /\ cell = start
        /\ code = Output(insn, start["i0"])
    BY DEF Init
  <1>3. /\ DOMAIN Known = {"zero", "one", "ones"}
        /\ Known["zero"] = 0 /\ Known["one"] = 1 /\ Known["ones"] = R - 1
    BY DEF Known
  <1>4. /\ {"zero", "one", "ones"} \subseteq Cells
        /\ DOMAIN in \cap {"zero", "one", "ones"} = {}
    BY <1>3, CellNames DEF Inputs
  <1>5. HoldsConstants(start)
    BY <1>1, <1>3, <1>4 DEF HoldsConstants
  <1>6. start \in Machine
    <2>1. R \in Nat \ {0} /\ R % 2 = 0 /\ R = 2 * (R \div 2) + (R % 2)
      BY AluAssumption
    <2>2. R - 1 \in 0..(R - 1) /\ R \div 2 \in 0..(R - 1)
          /\ 0 \in 0..(R - 1) /\ 1 \in 0..(R - 1)
      BY <2>1
    <2>3. \A b \in DOMAIN in : in[b] \in 0..(R - 1)
      BY AluAssumption
    <2>4. \A b \in DOMAIN Known : Known[b] \in 0..(R - 1)
      BY <1>3, <2>2
    <2>5. ASSUME NEW b \in Cells
          PROVE  (CASE b \in DOMAIN Known -> Known[b]
                    [] b \in DOMAIN in -> in[b]
                    [] OTHER -> R \div 2) \in 0..(R - 1)
      <3>1. ~(b \in DOMAIN Known /\ b \in DOMAIN in)
        BY <1>3, <1>4
      <3> QED
        BY <2>2, <2>3, <2>4, <3>1
    <2> QED
      BY <1>1, <2>5 DEF Machine
  <1>7. code \in Code
    <2>1. insn \in Accepted
      BY <1>2, AluAssumption
    <2>2. Correct(insn, start["i0"], start)
      BY <1>5, <1>6, <2>1, OutputCorrect
    <2> QED
      BY <1>2, <2>2 DEF Correct, Makes
  <1>8. Traced
    BY <1>2 DEF Traced
  <1> QED
    BY <1>2, <1>5, <1>6, <1>7, <1>8 DEF AluInv

\* Each Z80 instruction runs the first one of what is left.
LEMMA AluStep == AluInv /\ [Next]_vars => AluInv'
  <1> SUFFICES ASSUME AluInv, [Next]_vars PROVE AluInv'
    OBVIOUS
  <1>1. CASE UNCHANGED vars
    BY <1>1 DEF vars, AluInv, Traced
  <1>2. CASE Next /\ code = <<>>
    <2>1. UNCHANGED vars
      BY <1>2 DEF Next, Load, Add, Subtract, Combine, Exchange, Rotate,
                  Count, Negate, Complement, Finished, Is
    <2> QED
      BY <2>1 DEF vars, AluInv, Traced
  <1>3. CASE Next /\ code # <<>>
    <2>1. /\ Stepped(Head(code), cell, carry, cell', carry')
          /\ code' = Tail(code) /\ insn' = insn /\ start' = start
      BY <1>3, StepIsStepped
    <2>2. Head(code) \in Insns /\ Tail(code) \in Code
      BY <1>3, HeadTailProperties DEF AluInv, Code
    <2>3. cell' \in Machine /\ carry' \in 0..1
      BY <2>1, <2>2, StepType DEF AluInv
    <2>4. PICK k \in 0..1 : \A d, j :
            Runs(code, cell, carry, d, j)
              => Runs(Output(insn, start["i0"]), start, k, d, j)
      BY DEF AluInv, Traced
    <2>5. ASSUME NEW d, NEW j, Runs(code', cell', carry', d, j)
          PROVE  Runs(Output(insn', start'["i0"]), start', k, d, j)
      <3>1. Runs(Tail(code), cell', carry', d, j)
        BY <2>1, <2>5
      <3>2. Runs(code, cell, carry, d, j)
        BY <1>3, <2>1, <3>1, RunsFirst DEF AluInv, Code
      <3> QED
        BY <2>1, <2>4, <3>2
    <2>6. Traced'
      BY <2>5 DEF Traced
    <2> QED
      BY <2>1, <2>2, <2>3, <2>6 DEF AluInv
  <1> QED
    BY <1>1, <1>2, <1>3

\* When the code has run, the cells are those that all of it makes.
LEMMA AluEnd ==
  ASSUME AluInv, code = <<>>
  PROVE  /\ insn \notin Destructive => KeptBy(insn, start, cell)
         /\ insn \notin Wrong => RightFor(insn, start, cell)
  <1>1. PICK k \in 0..1 : \A d, j :
          Runs(code, cell, carry, d, j)
            => Runs(Output(insn, start["i0"]), start, k, d, j)
    BY DEF AluInv, Traced
  <1>2. Runs(code, cell, carry, cell, carry)
    BY RunsEmpty
  <1>3. Runs(Output(insn, start["i0"]), start, k, cell, carry)
    BY <1>1, <1>2
  <1>4. Correct(insn, start["i0"], start)
    <2>1. insn \in Accepted
      BY AluAssumption DEF AluInv
    <2> QED
      BY <2>1, OutputCorrect DEF AluInv
  <1>5. PICK d, j : /\ Makes(Output(insn, start["i0"]), start, k, d, j)
                    /\ insn \notin Destructive => KeptBy(insn, start, d)
                    /\ insn \notin Wrong => RightFor(insn, start, d)
    BY <1>4 DEF Correct
  <1>6. cell = d
    BY <1>3, <1>5 DEF Makes
  <1> QED
    BY <1>5, <1>6

\* AluInv holds throughout the code of every insn.
LEMMA AluAlways == Spec => []AluInv
  BY AluInit, AluStep, PTL DEF Spec

(***************************************************************************)
(* Whatever insns are executed, the cells always hold bytes, the carry a   *)
(* bit, and the parts that z80_gen_lowpart and z80_gen_highpart make of    *)
(* the operands fit each other in every instruction still to run, none of  *)
(* which writes a constant.                                                *)
(***************************************************************************)
THEOREM AluTypes == Spec => []TypeOK
  <1>1. AluInv => TypeOK
    <2> SUFFICES ASSUME AluInv PROVE TypeOK
      OBVIOUS
    <2>1. ASSUME NEW m \in DOMAIN code
          PROVE  /\ Len(code[m].x) = Len(code[m].y)
                 /\ Range(code[m].x) \cap Constants = {}
      <3>1. code[m] \in Insns
        BY LenProperties DEF AluInv, Code
      <3> QED
        BY <3>1, OperandSizes DEF AluInv
    <2> QED
      BY <2>1 DEF TypeOK, AluInv, Machine
  <1> QED
    BY <1>1, AluAlways, PTL

(***************************************************************************)
(* The instructions of z80.md change operand 0, the declared scratch       *)
(* registers and the stack only, unless they sign-extend a byte: for every *)
(* width of a byte, all the operands of Accepted and all their values.     *)
(* Among the insns are those with a wrong result.                          *)
(***************************************************************************)
THEOREM AluKeeps ==
  ASSUME Cases \cap Destructive = {}
  PROVE  Spec => []OthersKept
  <1>1. AluInv => OthersKept
    <2> SUFFICES ASSUME AluInv, code = <<>>
                 PROVE  KeptBy(insn, start, cell)
      BY DEF OthersKept, KeptBy
    <2>1. insn \notin Destructive
      BY DEF AluInv
    <2> QED
      BY <2>1, AluEnd
  <1> QED
    BY <1>1, AluAlways, PTL

(***************************************************************************)
(* Operand 0 ends as the value of the pattern's expression, for every      *)
(* width of a byte and all values of the operands, for all the insns of    *)
(* Accepted but the ones known to go wrong: bytes of index registers, a    *)
(* word extended over its own register, exchanged differences, long        *)
(* differences and logic with a constant byte.                             *)
(***************************************************************************)
THEOREM AluRight ==
  ASSUME Cases \cap Wrong = {}
  PROVE  Spec => []ResultCorrect
  <1>1. AluInv => ResultCorrect
    <2> SUFFICES ASSUME AluInv, code = <<>>
                 PROVE  RightFor(insn, start, cell)
      BY DEF ResultCorrect, RightFor
    <2>1. insn \notin Wrong
      BY DEF AluInv
    <2> QED
      BY <2>1, AluEnd
  <1> QED
    BY <1>1, AluAlways, PTL
=============================================================================
