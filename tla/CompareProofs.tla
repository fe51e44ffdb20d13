--------------------------- MODULE CompareProofs ---------------------------
(***************************************************************************)
(* The branches of Compare, for every word size.                           *)
(***************************************************************************)
EXTENDS Compare, TLAPS

\* The branches the expander gets right: words always, long values other
\* than NE when nothing is deleted as dead code.
SoundCases == \A k \in Cases : k[1] = "SI" => k[2] # "NE" /\ k[3] = FALSE

\* What the flags say at the branch, apart from overflow.
Decided ==
  (code \in Signed => NoOverflow) =>
    (Jumps(SwapCondition(code)) <=> Relation(code, x, y))

\* The first operand and the second one, in the order of the subtraction.
P == IF Swapped THEN y ELSE x
Q == IF Swapped THEN x ELSE y

\* The inductive invariant: at each insn, what the ones before it have
\* established.
BranchInv ==
  /\ TypeOK
  /\ mode = "SI" => code # "NE" /\ opt = FALSE
  /\ pc \in {"word", "low", "skip", "high"} => val = <<x, y>>
  /\ pc = "word" => x.lo = 0 /\ y.lo = 0
  /\ pc \in {"low", "skip", "high"} => mode = "SI"
  /\ pc = "skip" => code = "EQ" /\ flags = FlagsOf(P.lo, Q.lo, 0)
  /\ pc = "high" => flags = FlagsOf(P.lo, Q.lo, 0)
  /\ pc = "high" /\ code = "EQ" => flags.z
  /\ pc = "branch" => Decided
  /\ pc # "done" <=> outcome = "run"
  /\ BranchSound

\* The flags of a subtraction of words.
LEMMA Subtraction ==
  ASSUME NEW a \in Word, NEW b \in Word, NEW k \in {0, 1}
  PROVE  /\ FlagsOf(a, b, k).c <=> a < b + k
         /\ k = 0 => (FlagsOf(a, b, k).z <=> a = b)
         /\ (/\ -H <= AsSigned(a) - AsSigned(b) - k
             /\ AsSigned(a) - AsSigned(b) - k < H)
              => (FlagsOf(a, b, k).s <=> AsSigned(a) - AsSigned(b) - k < 0)
         /\ FlagsOf(a, b, k) \in [z : BOOLEAN, s : BOOLEAN, c : BOOLEAN]
         /\ Diff(a, b, k) \in Word
  <1>1. H \in Nat \ {0} /\ B = 2 * H /\ B \in Int
    BY CompareAssumption DEF B
  <1>2. a \in Int /\ b \in Int /\ 0 <= a /\ 0 <= b /\ a < B /\ b < B /\ k \in Int
    BY <1>1 DEF Word
  <1>3. /\ FlagsOf(a, b, k).z <=> Diff(a, b, k) = 0
        /\ FlagsOf(a, b, k).s <=> Diff(a, b, k) >= H
        /\ FlagsOf(a, b, k).c <=> a - b - k < 0
        /\ FlagsOf(a, b, k) \in [z : BOOLEAN, s : BOOLEAN, c : BOOLEAN]
    <2>1. FlagsOf(a, b, k).z = (Diff(a, b, k) = 0)
      BY Zenon DEF FlagsOf
    <2>2. FlagsOf(a, b, k).s = (Diff(a, b, k) >= H)
      BY Zenon DEF FlagsOf
    <2>3. FlagsOf(a, b, k).c = (a - b - k < 0)
      BY Zenon DEF FlagsOf
    <2>4. FlagsOf(a, b, k) \in [z : BOOLEAN, s : BOOLEAN, c : BOOLEAN]
      BY DEF FlagsOf
    <2> QED
      BY <2>1, <2>2, <2>3, <2>4, Zenon
  <1>4. PICK d \in Int : d = a - b - k
    BY <1>2
  <1>5. Diff(a, b, k) = IF d < 0 THEN d + B ELSE d
    BY <1>4 DEF Diff
  <1>6. -B <= d /\ d < B
    <2>1. k = 0 \/ k = 1
      OBVIOUS
    <2> QED
      BY <1>1, <1>2, <1>4, <2>1
  <1>7. Diff(a, b, k) \in Word
    BY <1>1, <1>5, <1>6 DEF Word
  <1>8. FlagsOf(a, b, k).c <=> a < b + k
    BY <1>2, <1>3
  <1>9. k = 0 => (FlagsOf(a, b, k).z <=> a = b)
    BY <1>1, <1>2, <1>3, <1>4, <1>5, <1>6
  <1>10. ASSUME -H <= AsSigned(a) - AsSigned(b) - k,
                AsSigned(a) - AsSigned(b) - k < H
         PROVE  FlagsOf(a, b, k).s <=> AsSigned(a) - AsSigned(b) - k < 0
    <2>1. CASE a >= H /\ b >= H
      BY <1>1, <1>2, <1>3, <1>4, <1>5, <1>10, <2>1 DEF AsSigned
    <2>2. CASE a >= H /\ ~(b >= H)
      BY <1>1, <1>2, <1>3, <1>4, <1>5, <1>10, <2>2 DEF AsSigned
    <2>3. CASE ~(a >= H) /\ b >= H
      BY <1>1, <1>2, <1>3, <1>4, <1>5, <1>10, <2>3 DEF AsSigned
    <2>4. CASE ~(a >= H) /\ ~(b >= H)
      BY <1>1, <1>2, <1>3, <1>4, <1>5, <1>10, <2>4 DEF AsSigned
    <2> QED
      BY <2>1, <2>2, <2>3, <2>4
  <1> QED
    BY <1>3, <1>7, <1>8, <1>9, <1>10

\* Signed reading is one to one.
LEMMA SignedWords ==
  ASSUME NEW a \in Word, NEW b \in Word
  PROVE  /\ AsSigned(a) = AsSigned(b) <=> a = b
         /\ AsSigned(a) \in Int /\ AsSigned(b) \in Int
  <1>1. H \in Nat \ {0}
    BY CompareAssumption
  <1> QED
    BY <1>1 DEF Word, B, AsSigned

\* The operands in the order of the subtraction.
LEMMA Order ==
  ASSUME TypeOK
  PROVE  /\ P \in [hi : Word, lo : Word] /\ Q \in [hi : Word, lo : Word]
         /\ val = <<x, y>> => val[Op0] = P /\ val[Op1] = Q
         /\ Word \subseteq Int
  BY CompareAssumption DEF TypeOK, P, Q, Op0, Op1, Swapped, Word, B

\* A subtraction of the high parts with the borrow of the low ones, or of
\* words with neither, leaves flags that decide the relation.
LEMMA FlagsDecide ==
  ASSUME TypeOK, NEW k \in {0, 1},
         k = 1 <=> P.lo < Q.lo,
         code \in Equality => P.lo = Q.lo,
         flags' = FlagsOf(P.hi, Q.hi, k),
         UNCHANGED <<code, x, y>>
  PROVE  Decided'
  <1>1. /\ P.hi \in Word /\ P.lo \in Word /\ Q.hi \in Word /\ Q.lo \in Word
        /\ x \in [hi : Word, lo : Word] /\ y \in [hi : Word, lo : Word]
        /\ Word \subseteq Int
    BY Order DEF TypeOK
  <1>2. /\ flags'.c <=> P.hi < Q.hi + k
        /\ k = 0 => (flags'.z <=> P.hi = Q.hi)
        /\ (/\ -H <= AsSigned(P.hi) - AsSigned(Q.hi) - k
            /\ AsSigned(P.hi) - AsSigned(Q.hi) - k < H)
             => (flags'.s <=> AsSigned(P.hi) - AsSigned(Q.hi) - k < 0)
    <2>1. PICK a \in Word, b \in Word : a = P.hi /\ b = Q.hi
      BY <1>1
    <2>2. flags' = FlagsOf(a, b, k)
      BY <2>1
    <2>3. /\ FlagsOf(a, b, k).c <=> a < b + k
          /\ k = 0 => (FlagsOf(a, b, k).z <=> a = b)
          /\ (/\ -H <= AsSigned(a) - AsSigned(b) - k
              /\ AsSigned(a) - AsSigned(b) - k < H)
               => (FlagsOf(a, b, k).s <=> AsSigned(a) - AsSigned(b) - k < 0)
      BY Subtraction, Zenon
    <2> QED
      BY <2>1, <2>2, <2>3, Zenon
  <1>3. /\ AsSigned(P.hi) = AsSigned(Q.hi) <=> P.hi = Q.hi
        /\ AsSigned(P.hi) \in Int /\ AsSigned(Q.hi) \in Int
    BY <1>1, SignedWords
  <1>4. flags'.c <=> Less(P, Q)
    <2>1. PICK p \in Int, q \in Int : p = P.hi /\ q = Q.hi
      BY <1>1
    <2>2. p < q + k <=> p < q \/ (p = q /\ k = 1)
      <3>1. k = 0 \/ k = 1
        OBVIOUS
      <3> QED
        BY <3>1
    <2>3. flags'.c <=> p < q + k
      BY <1>2, <2>1, Zenon
    <2>4. Less(P, Q) <=> p < q \/ (p = q /\ k = 1)
      BY <2>1, Zenon DEF Less
    <2> QED
      BY <2>2, <2>3, <2>4, Zenon
  <1>5. Fits(P, Q) => (flags'.s <=> LessSigned(P, Q))
    <2>1. k = IF P.lo < Q.lo THEN 1 ELSE 0
      OBVIOUS
    <2>2. PICK p \in Int, q \in Int : p = AsSigned(P.hi) /\ q = AsSigned(Q.hi)
      BY <1>3
    <2>3. Fits(P, Q) <=> -H <= p - q - k /\ p - q - k < H
      BY <2>1, <2>2 DEF Fits
    <2>4. LessSigned(P, Q) <=> p < q \/ (p = q /\ k = 1)
      BY <1>3, <2>2 DEF LessSigned
    <2>5. p - q - k < 0 <=> p < q \/ (p = q /\ k = 1)
      <3>1. k = 0 \/ k = 1
        OBVIOUS
      <3> QED
        BY <3>1
    <2>6. (-H <= p - q - k /\ p - q - k < H) => (flags'.s <=> p - q - k < 0)
      BY <1>2, <2>2, Zenon
    <2> QED
      BY <2>3, <2>4, <2>5, <2>6, Zenon
  <1>6. code \in Equality => (flags'.z <=> P = Q)
    <2>1. P \in [hi : Word, lo : Word] /\ Q \in [hi : Word, lo : Word]
      BY Order
    <2>2. P = Q <=> P.hi = Q.hi /\ P.lo = Q.lo
      BY <2>1
    <2>3. ASSUME code \in Equality
          PROVE  k = 0
      <3>1. PICK p \in Int : p = P.lo
        BY <1>1
      <3>2. P.lo = Q.lo
        BY <2>3
      <3>3. ~(p < p)
        BY <3>1
      <3>4. ~(P.lo < Q.lo)
        BY <3>1, <3>2, <3>3, Zenon
      <3> QED
        BY <3>4
    <2> QED
      BY <1>2, <2>2, <2>3, Zenon
  <1>7. code \in Codes
    BY DEF TypeOK
  <1>8. CASE code \in {"GT", "LE", "GTU", "LEU"}
    <2>1. P = y /\ Q = x /\ Swapped
      BY <1>8 DEF P, Q, Swapped
    <2> QED
      BY <1>4, <1>5, <1>8, <2>1
         DEF Decided, NoOverflow, Jumps, SwapCondition, Relation, Signed,
             Swapped, Equality
  <1>9. CASE code \in {"LT", "GE", "LTU", "GEU"}
    <2>1. P = x /\ Q = y /\ ~Swapped
      BY <1>9 DEF P, Q, Swapped
    <2> QED
      BY <1>4, <1>5, <1>9, <2>1
         DEF Decided, NoOverflow, Jumps, SwapCondition, Relation, Signed,
             Swapped, Equality
  <1>10. CASE code \in Equality
    <2>1. P = x /\ Q = y
      BY <1>10 DEF P, Q, Swapped, Equality
    <2> QED
      BY <1>6, <1>10, <2>1
         DEF Decided, Jumps, JumpsOnZero, SwapCondition, Relation, Equality,
             Signed
  <1> QED
    BY <1>7, <1>8, <1>9, <1>10
       DEF Codes, Signed, Unsigned, Equality

\* The start.
LEMMA InvInit ==
  ASSUME SoundCases, Init
  PROVE  BranchInv
  <1>1. PICK k \in Cases : mode = k[1] /\ code = k[2] /\ opt = k[3]
    BY DEF Init
  <1>2. k \in {"QI", "HI", "SI"} \X Codes \X BOOLEAN
    BY <1>1, CompareAssumption
  <1>3. /\ mode \in {"QI", "HI", "SI"} /\ code \in Codes /\ opt \in BOOLEAN
        /\ mode = "SI" => code # "NE" /\ opt = FALSE
    BY <1>1, <1>2 DEF SoundCases
  <1>4. own \in BOOLEAN
    BY CompareAssumption DEF Init
  <1>5. TypeOK
    BY <1>3, <1>4 DEF Init, TypeOK
  <1> QED
    BY <1>3, <1>5 DEF Init, BranchInv, BranchSound

\* Each insn.
LEMMA InvStep ==
  ASSUME BranchInv, [Next]_vars
  PROVE  BranchInv'
  <1>1. TypeOK
    BY DEF BranchInv
  <1>2. /\ P \in [hi : Word, lo : Word] /\ Q \in [hi : Word, lo : Word]
        /\ val = <<x, y>> => val[Op0] = P /\ val[Op1] = Q
        /\ Word \subseteq Int
    BY <1>1, Order
  <1>3. CASE CompareWord
    <2>1. val = <<x, y>> /\ x.lo = 0 /\ y.lo = 0 /\ pc = "word"
      BY <1>3 DEF CompareWord, BranchInv
    <2>2. P.lo = 0 /\ Q.lo = 0 /\ P.hi \in Word /\ Q.hi \in Word
      BY <1>2, <2>1 DEF P, Q
    <2>3. flags' = FlagsOf(P.hi, Q.hi, 0)
      BY <1>2, <1>3, <2>1 DEF CompareWord
    <2>4. UNCHANGED <<mode, code, opt, own, x, y, outcome>> /\ pc' = "branch"
      BY <1>3 DEF CompareWord
    <2>5. Decided'
      BY <1>1, <2>2, <2>3, <2>4, FlagsDecide
    <2>6. /\ flags' \in [z : BOOLEAN, s : BOOLEAN, c : BOOLEAN]
          /\ Diff(P.hi, Q.hi, 0) \in Word
      BY <2>2, <2>3, Subtraction
    <2>7. val' \in [1..2 -> [hi : Word, lo : Word]]
      <3>1. val \in [1..2 -> [hi : Word, lo : Word]] /\ Op0 \in 1..2
        BY <1>1 DEF TypeOK, Op0
      <3>2. \/ val' = val
            \/ val' = [val EXCEPT ![Op0].hi = Diff(P.hi, Q.hi, 0)]
        BY <1>2, <1>3, <2>1 DEF CompareWord
      <3> QED
        BY <2>6, <3>1, <3>2
    <2>8. TypeOK'
      BY <1>1, <2>4, <2>6, <2>7 DEF TypeOK
    <2>9. mode' = "SI" => code' # "NE" /\ opt' = FALSE
      BY <2>4 DEF BranchInv
    <2>10. outcome' = "run"
      BY <2>1, <2>4 DEF BranchInv
    <2> QED
      BY <2>4, <2>5, <2>8, <2>9, <2>10 DEF BranchInv, BranchSound
  <1>4. CASE CompareLow
    <2>1. val = <<x, y>> /\ mode = "SI" /\ opt = FALSE /\ code # "NE"
      BY <1>4 DEF CompareLow, BranchInv
    <2>2. flags' = FlagsOf(P.lo, Q.lo, 0) /\ P.lo \in Word /\ Q.lo \in Word
      BY <1>2, <1>4, <2>1 DEF CompareLow
    <2>3. flags' \in [z : BOOLEAN, s : BOOLEAN, c : BOOLEAN]
      BY <2>2, Subtraction
    <2>4. /\ UNCHANGED <<mode, code, opt, own, x, y, val, outcome>>
          /\ pc' = IF code \in Equality THEN "skip" ELSE "high"
          /\ outcome = "run"
      BY <1>4 DEF CompareLow, BranchInv
    <2>5. TypeOK'
      BY <1>1, <2>3, <2>4 DEF TypeOK
    <2>6. P' = P /\ Q' = Q /\ FlagsOf(P.lo, Q.lo, 0)' = FlagsOf(P.lo, Q.lo, 0)
      BY <2>4 DEF P, Q, Swapped, FlagsOf, Diff
    <2> QED
      BY <2>1, <2>2, <2>4, <2>5, <2>6 DEF BranchInv, BranchSound, Equality
  <1>5. CASE SkipBranch
    <2>1. /\ code = "EQ" /\ flags = FlagsOf(P.lo, Q.lo, 0) /\ mode = "SI"
          /\ val = <<x, y>> /\ outcome = "run" /\ opt = FALSE
      BY <1>5 DEF SkipBranch, BranchInv
    <2>2. UNCHANGED <<mode, code, opt, own, x, y, val, flags>>
      BY <1>5 DEF SkipBranch
    <2>3. P' = P /\ Q' = Q /\ FlagsOf(P.lo, Q.lo, 0)' = FlagsOf(P.lo, Q.lo, 0)
      BY <2>2 DEF P, Q, Swapped, FlagsOf, Diff
    <2>4. CASE ~flags.z
      <3>1. pc' = "done" /\ outcome' = "not"
        BY <1>5, <2>1, <2>4
           DEF SkipBranch, Jumps, JumpsOnZero, Equality, ReverseCondition
      <3>2. P.lo # Q.lo
        BY <1>2, <2>1, <2>4, Subtraction
      <3>3. x # y
        BY <2>1, <3>2 DEF P, Q, Swapped
      <3>4. BranchSound'
        BY <2>1, <2>2, <3>1, <3>3 DEF BranchSound, Relation
      <3>5. TypeOK'
        BY <1>1, <2>2, <3>1 DEF TypeOK
      <3> QED
        BY <2>1, <2>2, <3>1, <3>4, <3>5 DEF BranchInv
    <2>5. CASE flags.z
      <3>1. pc' = "high" /\ UNCHANGED outcome
        BY <1>5, <2>1, <2>5
           DEF SkipBranch, Jumps, JumpsOnZero, Equality, ReverseCondition
      <3>2. TypeOK'
        BY <1>1, <2>2, <3>1 DEF TypeOK
      <3> QED
        BY <2>1, <2>2, <2>3, <2>5, <3>1, <3>2 DEF BranchInv, BranchSound
    <2> QED
      BY <2>4, <2>5
  <1>6. CASE SubtractHigh
    <2>1. /\ mode = "SI" /\ opt = FALSE /\ code # "NE" /\ val = <<x, y>>
          /\ flags = FlagsOf(P.lo, Q.lo, 0) /\ outcome = "run"
          /\ code = "EQ" => flags.z
      BY <1>6 DEF SubtractHigh, BranchInv
    <2>2. P.lo \in Word /\ Q.lo \in Word /\ P.hi \in Word /\ Q.hi \in Word
      BY <1>2
    <2>3. UNCHANGED <<mode, code, opt, own, x, y, val, outcome>> /\ pc' = "branch"
      BY <1>6 DEF SubtractHigh
    <2>4. flags' = FlagsOf(P.hi, Q.hi, Borrow)
      BY <1>2, <1>6, <2>1 DEF SubtractHigh
    <2>5. /\ FlagsOf(P.lo, Q.lo, 0).c <=> P.lo < Q.lo + 0
          /\ FlagsOf(P.lo, Q.lo, 0).z <=> P.lo = Q.lo
      BY <2>2, Subtraction
    <2>6. P.lo < Q.lo + 0 <=> P.lo < Q.lo
      <3>1. PICK q \in Int : q = Q.lo
        BY <1>2, <2>2
      <3>2. q + 0 = q
        OBVIOUS
      <3> QED
        BY <3>1, <3>2, Zenon
    <2>7. Borrow \in {0, 1} /\ (Borrow = 1 <=> P.lo < Q.lo)
      <3>1. flags.c <=> P.lo < Q.lo
        BY <2>1, <2>5, <2>6, Zenon
      <3> QED
        BY <3>1 DEF Borrow
    <2>8. code \in Equality => P.lo = Q.lo
      BY <2>1, <2>5 DEF Equality
    <2>9. Decided'
      BY <1>1, <2>3, <2>4, <2>7, <2>8, FlagsDecide
    <2>10. flags' \in [z : BOOLEAN, s : BOOLEAN, c : BOOLEAN]
      BY <2>2, <2>4, <2>7, Subtraction
    <2>11. TypeOK'
      BY <1>1, <2>3, <2>10 DEF TypeOK
    <2> QED
      BY <2>1, <2>3, <2>9, <2>11 DEF BranchInv, BranchSound
  <1>7. CASE Branch
    <2>1. Decided /\ outcome = "run"
      BY <1>7 DEF Branch, BranchInv
    <2>2. /\ UNCHANGED <<mode, code, opt, own, x, y, val, flags>>
          /\ outcome' = IF Jumps(SwapCondition(code)) THEN "taken" ELSE "not"
          /\ pc' = "done"
      BY <1>7 DEF Branch
    <2>3. Relation(code, x, y)' <=> Relation(code, x, y)
      BY <2>2 DEF Relation, Less, LessSigned, AsSigned
    <2>4. NoOverflow' <=> NoOverflow
      BY <2>2 DEF NoOverflow, Fits, AsSigned, Swapped
    <2>5. BranchSound'
      <3>1. outcome' = "taken" <=> Jumps(SwapCondition(code))
        BY <2>2
      <3> QED
        BY <2>1, <2>2, <2>3, <2>4, <3>1 DEF Decided, BranchSound
    <2>6. TypeOK'
      BY <1>1, <2>2 DEF TypeOK
    <2> QED
      BY <2>2, <2>5, <2>6 DEF BranchInv
  <1>8. CASE Done \/ UNCHANGED vars
    <2>1. UNCHANGED <<mode, code, opt, own, x, y, val, flags, pc, outcome>>
      BY <1>8 DEF Done, vars
    <2>2. Relation(code, x, y)' <=> Relation(code, x, y)
      BY <2>1 DEF Relation, Less, LessSigned, AsSigned
    <2>3. NoOverflow' <=> NoOverflow
      BY <2>1 DEF NoOverflow, Fits, AsSigned, Swapped
    <2>4. Jumps(SwapCondition(code))' <=> Jumps(SwapCondition(code))
      BY <2>1 DEF Jumps, JumpsOnZero, SwapCondition
    <2>5. FlagsOf(P.lo, Q.lo, 0)' = FlagsOf(P.lo, Q.lo, 0)
      BY <2>1 DEF P, Q, Swapped, FlagsOf, Diff
    <2>6. TypeOK' /\ BranchSound' /\ (Decided' <=> Decided)
      BY <1>1, <2>1, <2>2, <2>3, <2>4
         DEF TypeOK, BranchInv, BranchSound, Decided
    <2> QED
      BY <2>1, <2>5, <2>6 DEF BranchInv
  <1> QED
    BY <1>3, <1>4, <1>5, <1>6, <1>7, <1>8 DEF Next

(***************************************************************************)
(* For every word size: the branches of z80_expand_compare_and_branch on   *)
(* words, and on longs other than NE when not optimizing, go where the     *)
(* relation of their operands says, signed ones unless the subtraction     *)
(* overflows.                                                              *)
(***************************************************************************)
THEOREM BranchesSound ==
  ASSUME SoundCases
  PROVE  Spec => []BranchSound
  <1>1. Init => BranchInv
    BY InvInit
  <1>2. BranchInv /\ [Next]_vars => BranchInv'
    BY InvStep
  <1>3. BranchInv => BranchSound
    BY DEF BranchInv
  <1> QED
    BY <1>1, <1>2, <1>3, PTL DEF Spec

(***************************************************************************)
(* For every word size, operands stay words: cp and sbc wrap round.        *)
(***************************************************************************)
THEOREM CompareTypes ==
  ASSUME SoundCases
  PROVE  Spec => []TypeOK
  <1>1. Init => BranchInv
    BY InvInit
  <1>2. BranchInv /\ [Next]_vars => BranchInv'
    BY InvStep
  <1>3. BranchInv => TypeOK
    BY DEF BranchInv
  <1> QED
    BY <1>1, <1>2, <1>3, PTL DEF Spec
=============================================================================
