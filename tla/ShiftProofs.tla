----------------------------- MODULE ShiftProofs -----------------------------
(***************************************************************************)
(* The shifts of z80.md, for every value and every count: the emitted      *)
(* insns stay in their register, give a variable count back, and shift by  *)
(* the count, in all cases but the ones known to be wrong.                 *)
(***************************************************************************)
EXTENDS Shift, TLAPS

Pcs == {"expand", "load", "test", "shift", "djnz", "top", "up", "high",
        "pair", "rotate", "done", "abort", "refused"}
Rotates == {"rotl", "rotr"}

\* Which shifts come to which insns.
Paths ==
  /\ pc \in {"expand", "load", "test", "djnz", "top", "up", "pair", "rotate"}
       => rounds = 0
  /\ pc \in {"expand", "load", "test", "djnz", "top", "up", "pair", "rotate"}
       => at = FirstByte
  /\ pc \in {"load", "test", "shift", "djnz"} => op \notin Rotates
  /\ pc = "top" => op = "ashl" /\ mode = "QI" /\ n >= 7
  /\ pc \in {"up", "high"} => op = "ashl" /\ mode = "HI" /\ n >= 8
  /\ pc = "high" => rounds <= n - 8
  /\ pc = "pair" => ByNextPair
  /\ pc = "rotate" => op \in Rotates /\ mode = "QI"
  /\ pc = "shift" /\ rounds > 0 => Unrolled /\ rounds <= RoundsOf

\* The registers of a variable count.
Counts ==
  /\ c = n
  /\ pc = "test" => b = n
  /\ pc \in {"shift", "djnz"} /\ rounds = 0 => 0 < b /\ b <= n
  /\ how = "reg" => pc \in {"expand", "load", "test", "shift", "djnz", "done"}
  /\ how = "reg" => rounds = 0
  /\ pc = "done" /\ how = "reg" => b = 0

PathInv ==
  /\ TypeOK
  /\ pc \in Pcs
  /\ <<op, mode, how, n>> \in Cases
  /\ orig \in [BitsOf(mode) -> {0, 1}]
  /\ Paths
  /\ Counts

\* The value after k rounds.
After(k) == Shifted(op, orig, k)

\* The bits that the insns of this round have shifted already.
Passed(i) == IF op = "ashl" THEN i < 8 * at ELSE i >= 8 * at + 8

\* k rounds are over and the next one has come to byte at: the carry is the
\* bit that left the byte before.
InRound(k) ==
  /\ \A i \in BitsOf(mode) :
       bits[i] = IF Passed(i) THEN After(k + 1)[i] ELSE After(k)[i]
  /\ at # FirstByte =>
       cf = After(k)[IF op = "ashl" THEN 8 * at - 1 ELSE 8 * at + 8]

\* Rounds that are over: counted down in B, or in the unrolled code.
Over == IF rounds > 0 THEN RoundsOf - rounds ELSE n - b

ValueInv ==
  /\ pc \in {"expand", "load", "test", "top", "up", "pair", "rotate"}
       => bits = orig
  /\ pc = "shift" => \E k \in 0..255 : k = Over /\ InRound(k)
  /\ pc = "djnz" => bits = After(n - b + 1)
  /\ pc = "high" => \A i \in 8..15 : bits[i] = After(n - rounds)[i]
  /\ pc = "done" /\ ~ByNextPair => bits = After(n)

(***************************************************************************)
(* Bytes, bits and their types.                                            *)
(***************************************************************************)

\* Modes and the numbers that go with them.
LEMMA ModeFacts ==
  ASSUME mode \in Modes
  PROVE  /\ NBytes(mode) \in {1, 2, 4} /\ High = NBytes(mode) - 1
         /\ BitsOf(mode) = 0..(8 * NBytes(mode) - 1)
         /\ mode = "QI" => NBytes(mode) = 1
         /\ mode = "HI" => NBytes(mode) = 2
         /\ mode = "SI" => NBytes(mode) = 4
         /\ FirstByte \in {0, High} /\ LastByte = High - FirstByte
         /\ op = "ashl" => FirstByte = 0 /\ LastByte = High
         /\ op # "ashl" => FirstByte = High /\ LastByte = 0
         /\ FirstByte \in 0..(NBytes(mode) - 1)
  <1>1. /\ NBytes(mode) \in {1, 2, 4}
        /\ mode = "QI" => NBytes(mode) = 1
        /\ mode = "HI" => NBytes(mode) = 2
        /\ mode = "SI" => NBytes(mode) = 4
    BY DEF Modes, NBytes
  <1>2. High = NBytes(mode) - 1 /\ High \in Nat
    BY <1>1 DEF High
  <1>3. /\ FirstByte \in {0, High} /\ LastByte = High - FirstByte
        /\ op = "ashl" => FirstByte = 0 /\ LastByte = High
        /\ op # "ashl" => FirstByte = High /\ LastByte = 0
    BY <1>2 DEF FirstByte, LastByte
  <1> QED
    BY <1>1, <1>2, <1>3 DEF BitsOf

\* Insns on one byte leave bits where there were bits.
LEMMA ByteTypes ==
  ASSUME NEW w \in Nat, NEW v \in [0..(w - 1) -> {0, 1}], NEW in \in {0, 1},
         NEW k \in Nat, 8 * k + 8 <= w
  PROVE  /\ Left(v, k, in) \in [0..(w - 1) -> {0, 1}]
         /\ Right(v, k, in) \in [0..(w - 1) -> {0, 1}]
         /\ Clear(v, k) \in [0..(w - 1) -> {0, 1}]
         /\ TopBit(v, k) \in [0..(w - 1) -> {0, 1}]
         /\ v[8 * k] \in {0, 1} /\ v[8 * k + 7] \in {0, 1}
         /\ \A j \in Nat : 8 * j + 8 <= w
              => Copy(v, k, j) \in [0..(w - 1) -> {0, 1}]
  <1>1. DOMAIN v = 0..(w - 1) /\ \A i \in 0..(w - 1) : v[i] \in {0, 1}
    OBVIOUS
  <1>2. /\ 8 * k \in 0..(w - 1) /\ 8 * k + 7 \in 0..(w - 1)
        /\ \A i \in InByte(k) : i = 8 * k \/ i - 1 \in 0..(w - 1)
        /\ \A i \in InByte(k) : i = 8 * k + 7 \/ i + 1 \in 0..(w - 1)
        /\ \A i \in InByte(k), j \in Nat :
             8 * j + 8 <= w => i - 8 * k + 8 * j \in 0..(w - 1)
    BY DEF InByte
  <1>3. v[8 * k] \in {0, 1} /\ v[8 * k + 7] \in {0, 1}
    BY <1>1, <1>2
  <1>4. Left(v, k, in) \in [0..(w - 1) -> {0, 1}]
    BY <1>1, <1>2 DEF Left
  <1>5. ASSUME NEW u \in [0..(w - 1) -> {0, 1}], NEW x \in {0, 1}
        PROVE  Right(u, k, x) \in [0..(w - 1) -> {0, 1}]
    BY <1>2 DEF Right
  <1>6. Clear(v, k) \in [0..(w - 1) -> {0, 1}]
    BY <1>1 DEF Clear
  <1>7. TopBit(v, k) \in [0..(w - 1) -> {0, 1}]
    BY <1>3, <1>5, <1>6 DEF TopBit
  <1>8. ASSUME NEW j \in Nat, 8 * j + 8 <= w
        PROVE  Copy(v, k, j) \in [0..(w - 1) -> {0, 1}]
    BY <1>1, <1>2, <1>8 DEF Copy
  <1> QED
    BY <1>3, <1>4, <1>5, <1>6, <1>7, <1>8

\* What every step starts from.
LEMMA PathFacts ==
  ASSUME PathInv
  PROVE  /\ op \in Ops /\ mode \in Modes /\ n \in 0..255
         /\ bits \in [BitsOf(mode) -> {0, 1}] /\ cf \in {0, 1}
         /\ b \in 0..255 /\ c \in 0..255 /\ rounds \in 0..255
         /\ at \in 0..(NBytes(mode) - 1) /\ pc \in Pcs
         /\ op \in Rotates => how # "reg" /\ mode = "QI"
         /\ Paths /\ Counts
         /\ RoundsOf \in 0..n
  <1>1. /\ op \in Ops /\ mode \in Modes
        /\ bits \in [BitsOf(mode) -> {0, 1}] /\ cf \in {0, 1}
        /\ b \in 0..255 /\ c \in 0..255 /\ rounds \in 0..255
        /\ at \in 0..(NBytes(mode) - 1) /\ pc \in Pcs /\ Paths /\ Counts
    BY DEF PathInv, TypeOK
  <1>2. <<op, mode, how, n>> \in Cases
    BY DEF PathInv
  <1>3. n \in 0..255
    BY <1>2, ShiftAssumption
  <1>4. op \in Rotates => how # "reg" /\ mode = "QI"
    BY <1>2, ShiftAssumption DEF Rotates
  <1>5. RoundsOf \in 0..n
    BY <1>3 DEF RoundsOf
  <1> QED
    BY <1>1, <1>3, <1>4, <1>5

(***************************************************************************)
(* PathInv: the way through the patterns.                                  *)
(***************************************************************************)

\* The shift being compiled, and what follows from it alone, stay.
LEMMA SameInsn ==
  ASSUME UNCHANGED insn
  PROVE  /\ op' = op /\ mode' = mode /\ how' = how /\ n' = n /\ orig' = orig
         /\ FirstByte' = FirstByte /\ LastByte' = LastByte
         /\ (Unrolled)' <=> Unrolled
         /\ RoundsOf' = RoundsOf /\ \A k : After(k)' = After(k)
  BY DEF insn, FirstByte, LastByte, High, Unrolled, RoundsOf, After

\* What remains to be shown of a step.
LEMMA PathsKept ==
  ASSUME PathInv, UNCHANGED insn, pc' \in Pcs,
         bits' \in [BitsOf(mode) -> {0, 1}], cf' \in {0, 1},
         b' \in 0..255, c' = c, rounds' \in 0..255,
         at' \in 0..(NBytes(mode) - 1), Paths',
         pc' = "test" => b' = n,
         pc' \in {"shift", "djnz"} /\ rounds' = 0 => 0 < b' /\ b' <= n,
         how = "reg" => /\ rounds' = 0
                        /\ pc' \in {"load", "test", "shift", "djnz", "done"}
                        /\ pc' = "done" => b' = 0
  PROVE  PathInv'
  <1>1. op' = op /\ mode' = mode /\ how' = how /\ n' = n /\ orig' = orig
    BY SameInsn
  <1>2. Counts'
    BY <1>1, PathFacts DEF Counts
  <1>3. TypeOK'
    BY <1>1, PathFacts DEF TypeOK
  <1> QED
    BY <1>1, <1>2, <1>3 DEF PathInv

\* The state before a shift.
LEMMA PathInit == Init => PathInv
  <1> SUFFICES ASSUME Init PROVE PathInv
    OBVIOUS
  <1>1. PICK k \in Cases : op = k[1] /\ mode = k[2] /\ how = k[3] /\ n = k[4]
    BY DEF Init
  <1>2. k \in Ops \X Modes \X {"const", "reg", "far"} \X (0..255)
    BY <1>1, ShiftAssumption
  <1>3. <<op, mode, how, n>> = k
    BY <1>1, <1>2
  <1>4. op \in Ops /\ mode \in Modes /\ n \in 0..255
    BY <1>1, <1>2
  <1>5. orig \in [BitsOf(mode) -> {0, 1}] /\ bits = orig
    BY <1>4, ShiftAssumption DEF Init
  <1>6. /\ cf \in {0, 1} /\ c = n /\ b \in 0..255 /\ at = FirstByte
        /\ rounds = 0 /\ pc = "expand"
    BY DEF Init
  <1>7. at \in 0..(NBytes(mode) - 1)
    BY <1>4, <1>6, ModeFacts
  <1>8. TypeOK
    BY <1>4, <1>5, <1>6, <1>7 DEF TypeOK
  <1>9. Paths
    BY <1>6 DEF Paths
  <1>10. Counts
    BY <1>6 DEF Counts
  <1> QED
    BY <1>1, <1>3, <1>5, <1>6, <1>8, <1>9, <1>10 DEF PathInv, Pcs

\* recog
LEMMA ExpandPath ==
  ASSUME PathInv, Expand
  PROVE  PathInv'
  <1>1. /\ pc = "expand" /\ bits' = bits /\ cf' = cf /\ b' = b /\ c' = c
        /\ at' = at /\ UNCHANGED insn
        /\ rounds' = IF pc' = "shift" THEN RoundsOf ELSE 0
    BY DEF Expand
  <1>2. /\ op \in Rotates => pc' = "rotate"
        /\ op \notin Rotates /\ how = "reg" => pc' = "load"
        /\ op \notin Rotates /\ how # "reg" => pc' = ConstPath
    BY DEF Expand, Rotates
  <1>3. /\ ConstPath \in {"done", "shift", "top", "up", "pair", "load", "abort",
                          "refused"}
        /\ ConstPath = "shift" => Unrolled /\ RoundsOf # 0
        /\ ConstPath = "top" => op = "ashl" /\ mode = "QI" /\ ~Unrolled
        /\ ConstPath = "up" => op = "ashl" /\ mode = "HI" /\ ~Unrolled
        /\ ConstPath = "pair" => ByNextPair
    BY DEF ConstPath
  <1>4. /\ n \in 0..255 /\ RoundsOf \in 0..n /\ at = FirstByte
        /\ op \in Rotates => how # "reg" /\ mode = "QI"
    BY <1>1, PathFacts DEF Paths
  <1>5. /\ ~Unrolled /\ op = "ashl" /\ mode = "QI" => n >= 7
        /\ ~Unrolled /\ op = "ashl" /\ mode = "HI" => n >= 8
    BY <1>4 DEF Unrolled
  <1>6. /\ op' = op /\ mode' = mode /\ how' = how /\ n' = n
        /\ FirstByte' = FirstByte /\ RoundsOf' = RoundsOf
        /\ (Unrolled)' <=> Unrolled
    BY <1>1, SameInsn
  <1>7. pc' \in Pcs /\ rounds' \in 0..255
    BY <1>1, <1>2, <1>3, <1>4 DEF Pcs
  <1>8. Paths'
    <2>1. /\ pc' # "shift" => rounds' = 0
          /\ pc' = "shift" => Unrolled /\ rounds' = RoundsOf
                              /\ op \notin Rotates
      BY <1>1, <1>2, <1>3
    <2>2. /\ pc' = "load" => op \notin Rotates
          /\ pc' = "rotate" => op \in Rotates /\ mode = "QI"
          /\ pc' \notin {"test", "djnz", "high"}
      BY <1>2, <1>3, <1>4
    <2>3. /\ pc' = "top" => op = "ashl" /\ mode = "QI" /\ n >= 7
          /\ pc' = "up" => op = "ashl" /\ mode = "HI" /\ n >= 8
          /\ pc' = "pair" => (ByNextPair)'
      BY <1>2, <1>3, <1>5, <1>6 DEF ByNextPair
    <2> QED
      BY <1>1, <1>4, <1>6, <2>1, <2>2, <2>3 DEF Paths
  <1>9. pc' # "test" /\ ~(pc' \in {"shift", "djnz"} /\ rounds' = 0)
    BY <1>1, <1>2, <1>3
  <1>10. how = "reg" => pc' = "load" /\ rounds' = 0
    BY <1>1, <1>2, <1>4
  <1> QED
    BY <1>1, <1>7, <1>8, <1>9, <1>10, PathFacts, PathsKept

\* ld b,c ; inc b ; dec b ; jr z
LEMMA CountPath ==
  ASSUME PathInv, LoadCount \/ TestCount
  PROVE  PathInv'
  <1>1. /\ pc \in {"load", "test"} /\ pc' \in {"test", "done", "shift"}
        /\ bits' = bits /\ cf' = cf /\ c' = c /\ at' = at /\ rounds' = rounds
        /\ UNCHANGED insn
        /\ pc = "load" => b' = c /\ pc' = "test"
        /\ pc = "test" => b' = b /\ pc' = IF b = 0 THEN "done" ELSE "shift"
    BY DEF LoadCount, TestCount
  <1>2. /\ rounds = 0 /\ op \notin Rotates /\ n \in 0..255 /\ at = FirstByte
        /\ c = n /\ (pc = "test" => b = n)
    BY <1>1, PathFacts DEF Paths, Counts
  <1>3. /\ op' = op /\ FirstByte' = FirstByte
    BY <1>1, SameInsn
  <1>4. Paths'
    BY <1>1, <1>2, <1>3 DEF Paths
  <1>5. /\ b' = n /\ pc' \in Pcs
        /\ pc' = "shift" => 0 < n
        /\ pc' = "done" => b' = 0
    BY <1>1, <1>2 DEF Pcs
  <1> QED
    BY <1>1, <1>2, <1>4, <1>5, PathFacts, PathsKept

\* One insn of a round stays inside the value.
LEMMA ShiftPath ==
  ASSUME PathInv, ShiftByte
  PROVE  PathInv'
  <1>1. /\ pc = "shift" /\ UNCHANGED insn /\ b' = b /\ c' = c
        /\ cf' = IF op = "ashl" THEN bits[8 * at + 7] ELSE bits[8 * at]
        /\ \/ /\ at # LastByte /\ pc' = pc /\ rounds' = rounds
              /\ at' = IF op = "ashl" THEN at + 1 ELSE at - 1
           \/ /\ at = LastByte /\ at' = FirstByte
              /\ rounds' = IF rounds > 0 THEN rounds - 1 ELSE 0
              /\ pc' = CASE rounds = 0 -> "djnz" [] rounds = 1 -> "done"
                         [] OTHER -> "shift"
    BY DEF ShiftByte
  <1> DEFINE in == CASE at # FirstByte -> cf
                     [] at = FirstByte /\ op = "ashr" -> bits[8 * at + 7]
                     [] OTHER -> 0
  <1>2. bits' = IF op = "ashl" THEN Left(bits, at, in) ELSE Right(bits, at, in)
    BY DEF ShiftByte
  <1>3. /\ op \in Ops /\ mode \in Modes /\ n \in 0..255
        /\ bits \in [BitsOf(mode) -> {0, 1}] /\ cf \in {0, 1}
        /\ b \in 0..255 /\ rounds \in 0..255
        /\ at \in 0..(NBytes(mode) - 1) /\ Paths /\ Counts
        /\ RoundsOf \in 0..n
    BY PathFacts
  <1>4. /\ NBytes(mode) \in {1, 2, 4} /\ High = NBytes(mode) - 1
        /\ BitsOf(mode) = 0..(8 * NBytes(mode) - 1)
        /\ FirstByte \in 0..(NBytes(mode) - 1)
        /\ op = "ashl" => LastByte = High
        /\ op # "ashl" => LastByte = 0
    BY <1>3, ModeFacts
  <1> DEFINE w == 8 * NBytes(mode)
  <1>5. /\ w \in Nat /\ at \in Nat /\ 8 * at + 8 <= w
        /\ bits \in [0..(w - 1) -> {0, 1}]
    BY <1>3, <1>4
  <1>6. bits[8 * at] \in {0, 1} /\ bits[8 * at + 7] \in {0, 1}
    BY <1>5, ByteTypes
  <1>7. in \in {0, 1}
    BY <1>3, <1>6
  <1>8. bits' \in [BitsOf(mode) -> {0, 1}] /\ cf' \in {0, 1}
    <2> HIDE DEF in, w
    <2>1. /\ Left(bits, at, in) \in [0..(w - 1) -> {0, 1}]
          /\ Right(bits, at, in) \in [0..(w - 1) -> {0, 1}]
      BY <1>5, <1>7, ByteTypes
    <2> QED
      BY <1>1, <1>2, <1>4, <1>6, <2>1 DEF w
  <1>9. at' \in 0..(NBytes(mode) - 1)
    BY <1>1, <1>3, <1>4
  <1>10. /\ op \notin Rotates
         /\ rounds > 0 => Unrolled /\ rounds <= RoundsOf
         /\ rounds = 0 => 0 < b /\ b <= n
         /\ how = "reg" => rounds = 0
    BY <1>1, <1>3 DEF Paths, Counts
  <1>11. /\ rounds' \in 0..255 /\ pc' \in {"shift", "djnz", "done"}
         /\ rounds = 0 => rounds' = 0 /\ pc' \in {"shift", "djnz"}
         /\ rounds' > 0 => rounds > 0 /\ rounds' <= rounds
         /\ pc' = "djnz" => at' = FirstByte /\ rounds' = 0
         /\ pc' \in {"shift", "djnz"} /\ rounds' = 0 => rounds = 0
    BY <1>1, <1>3
  <1>12. Paths'
    <2>1. /\ op' = op /\ FirstByte' = FirstByte /\ RoundsOf' = RoundsOf
          /\ (Unrolled)' <=> Unrolled
      BY <1>1, SameInsn
    <2>2. rounds' > 0 => Unrolled /\ rounds' <= RoundsOf
      BY <1>3, <1>10, <1>11
    <2> QED
      BY <1>10, <1>11, <2>1, <2>2 DEF Paths
  <1>13. pc' \in Pcs
    BY <1>11 DEF Pcs
  <1> HIDE DEF in, w
  <1> QED
    BY <1>1, <1>3, <1>8, <1>9, <1>10, <1>11, <1>12, <1>13, PathsKept

\* djnz counts B down to 0 and no further.
LEMMA DjnzPath ==
  ASSUME PathInv, Djnz
  PROVE  /\ PathInv' /\ b' = b - 1 /\ 0 < b /\ b <= n
  <1>1. /\ pc = "djnz" /\ UNCHANGED insn /\ bits' = bits /\ cf' = cf
        /\ c' = c /\ at' = at /\ rounds' = rounds /\ b' = (b - 1) % 256
        /\ pc' = IF b' = 0 THEN "done" ELSE "shift"
    BY DEF Djnz
  <1>2. /\ rounds = 0 /\ op \notin Rotates /\ n \in 0..255 /\ b \in 0..255
        /\ at = FirstByte /\ 0 < b /\ b <= n
    BY <1>1, PathFacts DEF Paths, Counts
  <1>3. b' = b - 1
    BY <1>1, <1>2
  <1>4. Paths'
    <2>1. op' = op
      BY <1>1, SameInsn
    <2> QED
      BY <1>1, <1>2, <2>1 DEF Paths
  <1>5. /\ pc' \in Pcs /\ b' \in 0..255
        /\ pc' \in {"shift", "done"}
        /\ pc' = "shift" => 0 < b' /\ b' <= n
        /\ pc' = "done" => b' = 0
    BY <1>1, <1>2, <1>3 DEF Pcs
  <1>6. PathInv'
    BY <1>1, <1>2, <1>4, <1>5, PathFacts, PathsKept
  <1> QED
    BY <1>2, <1>3, <1>6

\* A value of one, two and four bytes.
LEMMA Widths ==
  ASSUME PathInv
  PROVE  /\ mode = "QI" => bits \in [0..(8 - 1) -> {0, 1}]
                           /\ BitsOf(mode) = 0..(8 - 1)
         /\ mode = "HI" => bits \in [0..(16 - 1) -> {0, 1}]
                           /\ BitsOf(mode) = 0..(16 - 1)
         /\ mode = "SI" => bits \in [0..(32 - 1) -> {0, 1}]
                           /\ BitsOf(mode) = 0..(32 - 1)
  <1>1. mode \in Modes /\ bits \in [BitsOf(mode) -> {0, 1}]
    BY PathFacts
  <1>2. /\ BitsOf(mode) = 0..(8 * NBytes(mode) - 1)
        /\ mode = "QI" => 8 * NBytes(mode) = 8
        /\ mode = "HI" => 8 * NBytes(mode) = 16
        /\ mode = "SI" => 8 * NBytes(mode) = 32
    BY <1>1, ModeFacts
  <1> QED
    BY <1>1, <1>2, Zenon

\* Shifts that move whole bytes, and rotates: none has a variable count.
LEMMA MovePath ==
  ASSUME PathInv,
         ShiftTop \/ MoveUp \/ ShiftHigh \/ ClearLow \/ LoadFromNext \/ Rotate
  PROVE  PathInv'
  <1>1. /\ UNCHANGED insn /\ b' = b /\ c' = c /\ at' = at
        /\ pc \in {"top", "up", "high", "pair", "rotate"}
        /\ pc = "up" => /\ pc' = "high"
                        /\ rounds' = IF n = 15 THEN 0 ELSE n - 8
        /\ pc = "high" => \/ pc' = "high" /\ rounds > 0 /\ rounds' = rounds - 1
                          \/ pc' = "done" /\ rounds' = rounds
        /\ pc \in {"top", "pair", "rotate"} => pc' = "done" /\ rounds' = rounds
    BY DEF ShiftTop, MoveUp, ShiftHigh, ClearLow, LoadFromNext, Rotate
  <1>2. /\ op \in Ops /\ mode \in Modes /\ n \in 0..255 /\ cf \in {0, 1}
        /\ rounds \in 0..255 /\ b \in 0..255 /\ Paths /\ Counts
        /\ at \in 0..(NBytes(mode) - 1)
        /\ bits \in [BitsOf(mode) -> {0, 1}]
        /\ op \in Rotates => mode = "QI"
    BY PathFacts
  <1>3. /\ pc = "top" => mode = "QI"
        /\ pc \in {"up", "high"} => op = "ashl" /\ mode = "HI" /\ n >= 8
        /\ pc = "high" => rounds <= n - 8
        /\ pc = "pair" => mode = "HI"
        /\ pc = "rotate" => mode = "QI"
    BY <1>2 DEF Paths, ByNextPair
  <1>4. how # "reg"
    BY <1>1, <1>2 DEF Counts
  <1>5. /\ pc' \in {"high", "done"} /\ rounds' \in 0..255
        /\ pc' = "high" => /\ op = "ashl" /\ mode = "HI" /\ n >= 8
                           /\ rounds' <= n - 8
    BY <1>1, <1>2, <1>3
  <1>6. Paths'
    <2>1. op' = op /\ mode' = mode /\ n' = n
      BY <1>1, SameInsn
    <2> QED
      BY <1>5, <2>1 DEF Paths
  <1>7. bits' \in [BitsOf(mode) -> {0, 1}] /\ cf' \in {0, 1}
    <2>1. CASE ShiftTop
      <3>1. /\ mode = "QI"
            /\ bits' = IF n = 7 THEN TopBit(bits, 0) ELSE Clear(bits, 0)
            /\ cf' \in {0, cf}
        BY <1>3, <2>1 DEF ShiftTop
      <3>2. bits \in [0..(8 - 1) -> {0, 1}] /\ BitsOf(mode) = 0..(8 - 1)
        BY <3>1, Widths
      <3>3. 8 \in Nat /\ 0 \in Nat /\ 8 * 0 + 8 <= 8
        OBVIOUS
      <3>4. /\ TopBit(bits, 0) \in [0..(8 - 1) -> {0, 1}]
            /\ Clear(bits, 0) \in [0..(8 - 1) -> {0, 1}]
        BY <3>2, <3>3, ByteTypes
      <3> QED
        BY <1>2, <3>1, <3>2, <3>4
    <2>2. CASE MoveUp \/ ShiftHigh \/ ClearLow
      <3>1. mode = "HI"
        BY <1>3, <2>2 DEF MoveUp, ShiftHigh, ClearLow
      <3>2. bits \in [0..(16 - 1) -> {0, 1}] /\ BitsOf(mode) = 0..(16 - 1)
        BY <3>1, Widths
      <3>3. 16 \in Nat /\ 1 \in Nat /\ 0 \in Nat /\ 8 * 1 + 8 <= 16
            /\ 8 * 0 + 8 <= 16 /\ 8 * 1 + 7 = 15 /\ 0 \in {0, 1}
        OBVIOUS
      <3> DEFINE up == Copy(bits, 1, 0)
      <3>4. up \in [0..(16 - 1) -> {0, 1}]
        BY <3>2, <3>3, ByteTypes
      <3> HIDE DEF up
      <3>5. TopBit(up, 1) \in [0..(16 - 1) -> {0, 1}]
        BY <3>3, <3>4, ByteTypes
      <3>6. /\ Left(bits, 1, 0) \in [0..(16 - 1) -> {0, 1}]
            /\ bits[15] \in {0, 1}
        <4>1. Left(bits, 1, 0) \in [0..(16 - 1) -> {0, 1}]
          BY <3>2, <3>3, ByteTypes
        <4> QED
          BY <3>2, <4>1
      <3>7. Clear(bits, 0) \in [0..(16 - 1) -> {0, 1}]
        BY <3>2, <3>3, ByteTypes
      <3>8. /\ \/ bits' = TopBit(up, 1) \/ bits' = up
               \/ bits' = Left(bits, 1, 0) \/ bits' = Clear(bits, 0)
            /\ cf' \in {0, cf, bits[15]}
        BY <2>2 DEF MoveUp, ShiftHigh, ClearLow, up
      <3> QED
        BY <1>2, <3>2, <3>4, <3>5, <3>6, <3>7, <3>8
    <2>3. CASE LoadFromNext
      <3>1. PICK next \in Values[mode] :
              bits' = [i \in DOMAIN bits |->
                         IF i \in InByte(0) THEN next[i] ELSE bits[i]]
        BY <2>3 DEF LoadFromNext
      <3>2. next \in [BitsOf(mode) -> {0, 1}]
        BY <1>2, ShiftAssumption
      <3>3. cf' = cf
        BY <2>3 DEF LoadFromNext
      <3> QED
        BY <1>2, <3>1, <3>2, <3>3
    <2>5. CASE Rotate
      <3>1. /\ mode = "QI" /\ cf' \in {0, 1}
            /\ \/ bits' = Left(bits, 0, bits[7])
               \/ bits' = Right(bits, 0, cf)
               \/ bits' = bits
        BY <1>3, <2>5 DEF Rotate
      <3>2. bits \in [0..(8 - 1) -> {0, 1}] /\ BitsOf(mode) = 0..(8 - 1)
        BY <3>1, Widths
      <3>3. 8 \in Nat /\ 0 \in Nat /\ 8 * 0 + 8 <= 8 /\ bits[7] \in {0, 1}
        BY <3>2
      <3>4. /\ Left(bits, 0, bits[7]) \in [0..(8 - 1) -> {0, 1}]
            /\ Right(bits, 0, cf) \in [0..(8 - 1) -> {0, 1}]
        BY <1>2, <3>2, <3>3, ByteTypes
      <3> QED
        BY <3>1, <3>2, <3>4
    <2> QED
      BY <2>1, <2>2, <2>3, <2>5
  <1>8. pc' \in Pcs /\ pc' \notin {"test", "shift", "djnz"}
    BY <1>5 DEF Pcs
  <1> QED
    BY <1>1, <1>2, <1>4, <1>5, <1>6, <1>7, <1>8, PathsKept

\* Every insn keeps to its path.
LEMMA PathStep == PathInv /\ [Next]_vars => PathInv'
  <1> SUFFICES ASSUME PathInv, [Next]_vars PROVE PathInv'
    OBVIOUS
  <1>1. CASE Insn
    BY <1>1, ExpandPath, CountPath, ShiftPath, DjnzPath, MovePath DEF Insn
  <1>2. CASE Done \/ UNCHANGED vars
    <2>1. /\ pc' = pc /\ bits' = bits /\ cf' = cf /\ b' = b /\ c' = c
          /\ at' = at /\ rounds' = rounds /\ UNCHANGED insn
      BY <1>2 DEF Done, vars, insn
    <2>2. /\ op' = op /\ mode' = mode /\ how' = how /\ n' = n /\ orig' = orig
          /\ FirstByte' = FirstByte /\ RoundsOf' = RoundsOf
          /\ (Unrolled)' <=> Unrolled
      BY <2>1, SameInsn
    <2> QED
      BY <2>1, <2>2 DEF PathInv, TypeOK, Paths, Counts, ByNextPair
  <1> QED
    BY <1>1, <1>2 DEF Next

(***************************************************************************)
(* Every shift keeps to the bits of its register, whatever pattern of      *)
(* z80.md it is compiled by.                                               *)
(***************************************************************************)
THEOREM ShiftTypes == Spec => []TypeOK
  <1>1. PathInv => TypeOK
    BY DEF PathInv
  <1> QED
    BY <1>1, PathInit, PathStep, PTL DEF Spec

(***************************************************************************)
(* The loop of a shift by a variable count gives the count's register back *)
(* for every count, in every mode.                                         *)
(***************************************************************************)
THEOREM CountsKept == Spec => []CountKept
  <1>1. PathInv => CountKept
    BY DEF PathInv, Counts, CountKept
  <1> QED
    BY <1>1, PathInit, PathStep, PTL DEF Spec

(***************************************************************************)
(* What a shift by k is, one bit at a time.                                *)
(***************************************************************************)

\* The width Shifted works with is the value's.
LEMMA Width ==
  ASSUME NEW w \in {8, 16, 32}, NEW v, DOMAIN v = 0..(w - 1)
  PROVE  (CHOOSE m \in {8, 16, 32} : DOMAIN v = 0..(m - 1)) = w
  <1> DEFINE x == CHOOSE m \in {8, 16, 32} : DOMAIN v = 0..(m - 1)
  <1>1. x \in {8, 16, 32} /\ DOMAIN v = 0..(x - 1)
    OBVIOUS
  <1> HIDE DEF x
  <1>2. x = w
    <2>1. w - 1 \in 0..(w - 1) /\ x - 1 \in 0..(x - 1)
      BY <1>1
    <2>2. w - 1 \in 0..(x - 1) /\ x - 1 \in 0..(w - 1)
      BY <1>1, <2>1
    <2> QED
      BY <1>1, <2>2
  <1> QED
    BY <1>2 DEF x

\* u is the value v of w bits, shifted by k.
IsShift(u, o, v, w, k) ==
  /\ u = [i \in 0..(w - 1) |-> u[i]]
  /\ o = "ashl" => \A i \in 0..(w - 1) :
       u[i] = IF i >= k THEN v[i - k] ELSE 0
  /\ o = "lshr" => \A i \in 0..(w - 1) :
       u[i] = IF i + k < w THEN v[i + k] ELSE 0
  /\ o = "ashr" => \A i \in 0..(w - 1) :
       u[i] = IF i + k < w THEN v[i + k] ELSE v[w - 1]
  /\ o = "rotl" => \A i \in 0..(w - 1) :
       u[i] = v[(i - k) % w]

LEMMA ShiftedBits ==
  ASSUME NEW w \in {8, 16, 32}, NEW v \in [0..(w - 1) -> {0, 1}], NEW k, NEW o
  PROVE  IsShift(Shifted(o, v, k), o, v, w, k)
  <1>1. DOMAIN v = 0..(w - 1)
    OBVIOUS
  <1> DEFINE x == CHOOSE m \in {8, 16, 32} : DOMAIN v = 0..(m - 1)
  <1>2. x = w
    BY <1>1, Width
  <1> DEFINE Bit(i) ==
        CASE o = "ashl" -> IF i >= k THEN v[i - k] ELSE 0
          [] o = "lshr" -> IF i + k < x THEN v[i + k] ELSE 0
          [] o = "ashr" -> IF i + k < x THEN v[i + k] ELSE v[x - 1]
          [] o = "rotl" -> v[(i - k) % x]
          [] o = "rotr" -> v[(i + k) % x]
  <1>3. Shifted(o, v, k) = [i \in DOMAIN v |-> Bit(i)]
    BY DEF Shifted
  <1> HIDE DEF x
  <1>4. /\ o = "ashl" => \A i : Bit(i) = IF i >= k THEN v[i - k] ELSE 0
        /\ o = "lshr" => \A i : Bit(i) = IF i + k < w THEN v[i + k] ELSE 0
        /\ o = "ashr" => \A i : Bit(i) = IF i + k < w THEN v[i + k]
                                                      ELSE v[w - 1]
        /\ o = "rotl" => \A i : Bit(i) = v[(i - k) % w]
    BY <1>2
  <1> HIDE DEF Bit
  <1>5. \A i \in 0..(w - 1) : Shifted(o, v, k)[i] = Bit(i)
    BY <1>1, <1>3
  <1>6. Shifted(o, v, k) = [i \in 0..(w - 1) |-> Shifted(o, v, k)[i]]
    BY <1>1, <1>3, <1>5
  <1> QED
    BY <1>4, <1>5, <1>6 DEF IsShift

\* u is t moved by one more bit.
OneBitOn(t, u, o, w) ==
  /\ o = "ashl" => \A i \in 0..(w - 1) : u[i] = IF i = 0 THEN 0 ELSE t[i - 1]
  /\ o = "lshr" => \A i \in 0..(w - 1) :
                     u[i] = IF i = w - 1 THEN 0 ELSE t[i + 1]
  /\ o = "ashr" => \A i \in 0..(w - 1) :
                     u[i] = IF i = w - 1 THEN t[i] ELSE t[i + 1]

\* A shift by k + 1 is a shift by k, and by one more bit.
LEMMA OneMore ==
  ASSUME NEW w \in {8, 16, 32}, NEW v \in [0..(w - 1) -> {0, 1}],
         NEW k \in Nat, NEW o
  PROVE  OneBitOn(Shifted(o, v, k), Shifted(o, v, k + 1), o, w)
  <1> DEFINE t == Shifted(o, v, k)
             u == Shifted(o, v, k + 1)
  <1>1. IsShift(t, o, v, w, k) /\ IsShift(u, o, v, w, k + 1)
    BY ShiftedBits
  <1> HIDE DEF t, u
  <1>2. ASSUME NEW i \in 0..(w - 1)
        PROVE  /\ i # 0 => i - 1 \in 0..(w - 1)
               /\ i # w - 1 => i + 1 \in 0..(w - 1)
               /\ i - (k + 1) = (i - 1) - k
               /\ i >= k + 1 <=> i - 1 >= k
               /\ i = 0 => ~(i >= k + 1)
               /\ i + (k + 1) = (i + 1) + k
               /\ i = w - 1 => ~(i + (k + 1) < w)
               /\ i = w - 1 /\ i + k < w => i + k = w - 1
    OBVIOUS
  <1>3. ASSUME o = "ashl", NEW i \in 0..(w - 1)
        PROVE  u[i] = IF i = 0 THEN 0 ELSE t[i - 1]
    <2>1. \A j \in 0..(w - 1) : t[j] = IF j >= k THEN v[j - k] ELSE 0
      BY <1>1, <1>3 DEF IsShift
    <2>2. u[i] = IF i >= k + 1 THEN v[i - (k + 1)] ELSE 0
      BY <1>1, <1>3 DEF IsShift
    <2> QED
      BY <1>2, <2>1, <2>2
  <1>4. ASSUME o = "lshr", NEW i \in 0..(w - 1)
        PROVE  u[i] = IF i = w - 1 THEN 0 ELSE t[i + 1]
    <2>1. \A j \in 0..(w - 1) : t[j] = IF j + k < w THEN v[j + k] ELSE 0
      BY <1>1, <1>4 DEF IsShift
    <2>2. u[i] = IF i + (k + 1) < w THEN v[i + (k + 1)] ELSE 0
      BY <1>1, <1>4 DEF IsShift
    <2> QED
      BY <1>2, <2>1, <2>2
  <1>5. ASSUME o = "ashr", NEW i \in 0..(w - 1)
        PROVE  u[i] = IF i = w - 1 THEN t[i] ELSE t[i + 1]
    <2>1. \A j \in 0..(w - 1) : t[j] = IF j + k < w THEN v[j + k] ELSE v[w - 1]
      BY <1>1, <1>5 DEF IsShift
    <2>2. u[i] = IF i + (k + 1) < w THEN v[i + (k + 1)] ELSE v[w - 1]
      BY <1>1, <1>5 DEF IsShift
    <2> QED
      BY <1>2, <2>1, <2>2
  <1> QED
    BY <1>3, <1>4, <1>5 DEF OneBitOn, t, u

\* A shift by 0 is none.
LEMMA ByZero ==
  ASSUME NEW w \in {8, 16, 32}, NEW v \in [0..(w - 1) -> {0, 1}],
         NEW o \in {"ashl", "lshr", "ashr"}
  PROVE  Shifted(o, v, 0) = v
  <1> DEFINE u == Shifted(o, v, 0)
  <1>1. IsShift(u, o, v, w, 0)
    BY ShiftedBits
  <1> HIDE DEF u
  <1>2. \A i \in 0..(w - 1) : u[i] = v[i]
    BY <1>1 DEF IsShift
  <1>3. u = [i \in 0..(w - 1) |-> u[i]]
    BY <1>1 DEF IsShift
  <1> QED
    BY <1>2, <1>3 DEF u

\* Byte a is one of a value of w bits.
IsByte(a, w) == a \in Nat /\ 8 * a + 8 <= w

\* A round of shifts, from t to u, has come to byte a of v.
UpTo(v, t, u, o, a, w) ==
  \A i \in 0..(w - 1) :
    v[i] = IF (IF o = "ashl" THEN i < 8 * a ELSE i >= 8 * a + 8)
             THEN u[i] ELSE t[i]

\* And u is t moved by one more bit.
Shifting(v, t, u, o, a, w) ==
  /\ w \in {8, 16, 32} /\ IsByte(a, w) /\ v \in [0..(w - 1) -> {0, 1}]
  /\ OneBitOn(t, u, o, w) /\ UpTo(v, t, u, o, a, w)

\* It has passed byte a as well.
Through(v, t, u, o, a, w) ==
  \A i \in 0..(w - 1) :
    v[i] = IF (IF o = "ashl" THEN i < 8 * a + 8 ELSE i >= 8 * a)
             THEN u[i] ELSE t[i]

\* The bit that comes into byte a.
CarryLeft(t, a) == IF a = 0 THEN 0 ELSE t[8 * a - 1]
CarryRight(v, t, o, a, w) ==
  CASE 8 * a + 8 # w -> t[8 * a + 8]
    [] 8 * a + 8 = w /\ o = "ashr" -> v[8 * a + 7]
    [] OTHER -> 0

\* The bits of byte a and their neighbours.
LEMMA ByteBits ==
  ASSUME NEW w \in {8, 16, 32}, NEW a, IsByte(a, w)
  PROVE  /\ \A i \in 0..(w - 1) :
              /\ i \notin InByte(a) => i < 8 * a \/ i >= 8 * a + 8
              /\ i < 8 * a => i < 8 * a + 8
              /\ i >= 8 * a + 8 => i >= 8 * a /\ ~(i < 8 * a + 8)
              /\ i < 8 * a <=> ~(i >= 8 * a)
              /\ i = 8 * a => (a = 0 <=> i = 0) /\ 8 * a - 1 = i - 1
              /\ i = 8 * a + 7 => (8 * a + 8 = w <=> i = w - 1)
                                  /\ 8 * a + 8 = i + 1
              /\ i \in InByte(a) => i < 8 * a + 8 /\ i >= 8 * a
              /\ i \in InByte(a) /\ i # 8 * a =>
                   i # 0 /\ i - 1 \in 0..(w - 1) /\ ~(i - 1 < 8 * a)
              /\ i \in InByte(a) /\ i # 8 * a + 7 =>
                   /\ i # w - 1 /\ i + 1 \in 0..(w - 1)
                   /\ ~(i + 1 >= 8 * a + 8)
         /\ 8 * a + 7 \in 0..(w - 1) /\ 8 * a \in 0..(w - 1)
         /\ ~(8 * a + 7 < 8 * a) /\ ~(8 * a + 7 >= 8 * a + 8)
         /\ ~(8 * a >= 8 * a + 8)
  BY DEF InByte, IsByte

\* sla or rl of byte a, the bytes below it being shifted already.
LEMMA LeftByte ==
  ASSUME NEW v, NEW t, NEW u, NEW a, NEW w, Shifting(v, t, u, "ashl", a, w)
  PROVE  /\ Through(Left(v, a, CarryLeft(t, a)), t, u, "ashl", a, w)
         /\ v[8 * a + 7] = t[8 * a + 7]
  <1> SUFFICES ASSUME w \in {8, 16, 32}, IsByte(a, w),
                      v \in [0..(w - 1) -> {0, 1}],
                      OneBitOn(t, u, "ashl", w), UpTo(v, t, u, "ashl", a, w)
               PROVE  /\ Through(Left(v, a, CarryLeft(t, a)),
                                 t, u, "ashl", a, w)
                      /\ v[8 * a + 7] = t[8 * a + 7]
    BY DEF Shifting
  <1> DEFINE in == CarryLeft(t, a)
  <1>0. in = IF a = 0 THEN 0 ELSE t[8 * a - 1]
    BY DEF CarryLeft
  <1> HIDE DEF in
  <1>1. \A i \in 0..(w - 1) : u[i] = IF i = 0 THEN 0 ELSE t[i - 1]
    BY DEF OneBitOn
  <1>2. \A i \in 0..(w - 1) : v[i] = IF i < 8 * a THEN u[i] ELSE t[i]
    BY DEF UpTo
  <1>3. ASSUME NEW i \in 0..(w - 1)
        PROVE  Left(v, a, in)[i] = IF i < 8 * a + 8 THEN u[i] ELSE t[i]
    <2>1. Left(v, a, in)[i] = IF i \notin InByte(a) THEN v[i]
                              ELSE IF i = 8 * a THEN in ELSE v[i - 1]
      BY DEF Left
    <2>2. CASE i \notin InByte(a)
      <3>1. \/ i < 8 * a /\ i < 8 * a + 8
            \/ ~(i < 8 * a) /\ ~(i < 8 * a + 8)
        BY <2>2, ByteBits
      <3> QED
        BY <1>2, <2>1, <2>2, <3>1
    <2>3. CASE i \in InByte(a) /\ i = 8 * a
      <3>1. i < 8 * a + 8 /\ (a = 0 <=> i = 0) /\ 8 * a - 1 = i - 1
        BY <2>3, ByteBits
      <3> QED
        BY <1>0, <1>1, <2>1, <2>3, <3>1
    <2>4. CASE i \in InByte(a) /\ i # 8 * a
      <3>1. /\ i < 8 * a + 8 /\ i # 0 /\ i - 1 \in 0..(w - 1)
            /\ ~(i - 1 < 8 * a)
        BY <2>4, ByteBits
      <3>2. v[i - 1] = t[i - 1]
        BY <1>2, <3>1
      <3> QED
        BY <1>1, <2>1, <2>4, <3>1, <3>2
    <2> QED
      BY <2>2, <2>3, <2>4
  <1>4. v[8 * a + 7] = t[8 * a + 7]
    BY <1>2, ByteBits
  <1> QED
    BY <1>3, <1>4 DEF Through, in

\* sra, srl or rr of byte a, the bytes above it being shifted already.
LEMMA RightByte ==
  ASSUME NEW v, NEW t, NEW u, NEW o, NEW a, NEW w,
         Shifting(v, t, u, o, a, w), o \in {"lshr", "ashr"}
  PROVE  /\ Through(Right(v, a, CarryRight(v, t, o, a, w)), t, u, o, a, w)
         /\ v[8 * a] = t[8 * a]
  <1> SUFFICES ASSUME w \in {8, 16, 32}, IsByte(a, w),
                      v \in [0..(w - 1) -> {0, 1}],
                      OneBitOn(t, u, o, w), UpTo(v, t, u, o, a, w)
               PROVE  /\ Through(Right(v, a, CarryRight(v, t, o, a, w)),
                                 t, u, o, a, w)
                      /\ v[8 * a] = t[8 * a]
    BY DEF Shifting
  <1> DEFINE in == CarryRight(v, t, o, a, w)
  <1>1. \A i \in 0..(w - 1) :
          u[i] = IF i = w - 1 THEN (IF o = "ashr" THEN t[i] ELSE 0)
                              ELSE t[i + 1]
    BY DEF OneBitOn
  <1>2. \A i \in 0..(w - 1) : v[i] = IF i >= 8 * a + 8 THEN u[i] ELSE t[i]
    BY DEF UpTo
  <1>3. v[8 * a] = t[8 * a] /\ v[8 * a + 7] = t[8 * a + 7]
    BY <1>2, ByteBits
  <1>4. in = CASE 8 * a + 8 # w -> t[8 * a + 8]
               [] 8 * a + 8 = w /\ o = "ashr" -> t[8 * a + 7]
               [] OTHER -> 0
    BY <1>3 DEF CarryRight
  <1> HIDE DEF in
  <1>5. ASSUME NEW i \in 0..(w - 1)
        PROVE  Right(v, a, in)[i] = IF i >= 8 * a THEN u[i] ELSE t[i]
    <2>1. Right(v, a, in)[i] = IF i \notin InByte(a) THEN v[i]
                               ELSE IF i = 8 * a + 7 THEN in ELSE v[i + 1]
      BY DEF Right
    <2>2. CASE i \notin InByte(a)
      <3>1. \/ i >= 8 * a /\ i >= 8 * a + 8
            \/ ~(i >= 8 * a) /\ ~(i >= 8 * a + 8)
        BY <2>2, ByteBits
      <3> QED
        BY <1>2, <2>1, <2>2, <3>1
    <2>3. CASE i \in InByte(a) /\ i = 8 * a + 7
      <3>1. /\ i >= 8 * a /\ (8 * a + 8 = w <=> i = w - 1)
            /\ 8 * a + 8 = i + 1
        BY <2>3 DEF IsByte
      <3>2. Right(v, a, in)[i] = in
        BY <2>1, <2>3
      <3>3. CASE i = w - 1
        BY <1>1, <1>4, <2>3, <3>1, <3>2, <3>3
      <3>4. CASE i # w - 1
        BY <1>1, <1>4, <3>1, <3>2, <3>4
      <3> QED
        BY <3>3, <3>4
    <2>4. CASE i \in InByte(a) /\ i # 8 * a + 7
      <3>1. /\ i >= 8 * a /\ i # w - 1 /\ i + 1 \in 0..(w - 1)
            /\ ~(i + 1 >= 8 * a + 8)
        BY <2>4, ByteBits
      <3>2. v[i + 1] = t[i + 1]
        BY <1>2, <3>1
      <3> QED
        BY <1>1, <2>1, <2>4, <3>1, <3>2
    <2> QED
      BY <2>2, <2>3, <2>4
  <1> QED
    BY <1>3, <1>5 DEF Through, in

(***************************************************************************)
(* ValueInv: what the register holds on the way.                           *)
(***************************************************************************)

\* The value and its width.
LEMMA ValueFacts ==
  ASSUME PathInv
  PROVE  \E w \in {8, 16, 32} :
           /\ w = 8 * NBytes(mode) /\ BitsOf(mode) = 0..(w - 1)
           /\ orig \in [0..(w - 1) -> {0, 1}]
           /\ bits \in [0..(w - 1) -> {0, 1}]
           /\ NBytes(mode) \in {1, 2, 4}
           /\ mode = "QI" => w = 8
           /\ mode = "HI" => w = 16
           /\ mode = "SI" => w = 32
           /\ at \in Nat /\ 8 * at + 8 <= w
           /\ op = "ashl" => (at = FirstByte <=> at = 0)
                             /\ (at = LastByte <=> 8 * at + 8 = w)
           /\ op # "ashl" => (at = FirstByte <=> 8 * at + 8 = w)
                             /\ (at = LastByte <=> at = 0)
  <1>1. /\ mode \in Modes /\ bits \in [BitsOf(mode) -> {0, 1}]
        /\ at \in 0..(NBytes(mode) - 1)
    BY PathFacts
  <1>2. orig \in [BitsOf(mode) -> {0, 1}]
    BY DEF PathInv
  <1>3. /\ NBytes(mode) \in {1, 2, 4} /\ High = NBytes(mode) - 1
        /\ BitsOf(mode) = 0..(8 * NBytes(mode) - 1)
        /\ mode = "QI" => NBytes(mode) = 1
        /\ mode = "HI" => NBytes(mode) = 2
        /\ mode = "SI" => NBytes(mode) = 4
        /\ op = "ashl" => FirstByte = 0 /\ LastByte = High
        /\ op # "ashl" => FirstByte = High /\ LastByte = 0
    BY <1>1, ModeFacts
  <1> DEFINE w == 8 * NBytes(mode)
  <1>4. w \in {8, 16, 32} /\ BitsOf(mode) = 0..(w - 1)
    BY <1>3
  <1>5. /\ mode = "QI" => w = 8
        /\ mode = "HI" => w = 16
        /\ mode = "SI" => w = 32
    BY <1>3
  <1>6. at \in Nat /\ 8 * at + 8 <= w /\ (at = High <=> 8 * at + 8 = w)
    BY <1>1, <1>3
  <1> HIDE DEF w
  <1>7. /\ w \in {8, 16, 32} /\ w = 8 * NBytes(mode)
        /\ orig \in [0..(w - 1) -> {0, 1}]
        /\ bits \in [0..(w - 1) -> {0, 1}]
    BY <1>1, <1>2, <1>4 DEF w
  <1> QED
    BY <1>3, <1>4, <1>5, <1>6, <1>7

\* Not a rotate.
LEMMA ShiftOps ==
  ASSUME PathInv, op \notin Rotates
  PROVE  op \in {"ashl", "lshr", "ashr"}
  BY PathFacts DEF Ops, Rotates

\* One insn of a round takes the round one byte on, or to its end.
LEMMA RoundByte ==
  ASSUME PathInv, PathInv', ShiftByte, NEW k \in Nat, InRound(k)
  PROVE  /\ at # LastByte => InRound(k)'
         /\ at = LastByte => bits' = After(k + 1)
  <1>1. PICK w \in {8, 16, 32} :
          /\ BitsOf(mode) = 0..(w - 1)
          /\ orig \in [0..(w - 1) -> {0, 1}]
          /\ bits \in [0..(w - 1) -> {0, 1}]
          /\ at \in Nat /\ 8 * at + 8 <= w
          /\ op = "ashl" => (at = FirstByte <=> at = 0)
                            /\ (at = LastByte <=> 8 * at + 8 = w)
          /\ op # "ashl" => (at = FirstByte <=> 8 * at + 8 = w)
                            /\ (at = LastByte <=> at = 0)
    BY ValueFacts
  <1>2. /\ pc = "shift" /\ UNCHANGED insn
        /\ at # LastByte => at' = IF op = "ashl" THEN at + 1 ELSE at - 1
        /\ cf' = IF op = "ashl" THEN bits[8 * at + 7] ELSE bits[8 * at]
    BY DEF ShiftByte
  <1>3. op \in {"ashl", "lshr", "ashr"}
    <2>1. op \notin Rotates
      BY <1>2, PathFacts DEF Paths
    <2> QED
      BY <2>1, ShiftOps
  <1> DEFINE t == After(k)
             u == After(k + 1)
             in == CASE at # FirstByte -> cf
                     [] at = FirstByte /\ op = "ashr" -> bits[8 * at + 7]
                     [] OTHER -> 0
  <1>4. bits' = IF op = "ashl" THEN Left(bits, at, in) ELSE Right(bits, at, in)
    BY DEF ShiftByte
  <1>5. OneBitOn(t, u, op, w)
    BY <1>1, OneMore DEF After
  <1>6. u = [i \in 0..(w - 1) |-> u[i]]
    <2>1. IsShift(u, op, orig, w, k + 1)
      BY <1>1, ShiftedBits DEF After
    <2> HIDE DEF u
    <2> QED
      BY <2>1 DEF IsShift
  <1>7. op' = op /\ mode' = mode /\ After(k)' = t /\ After(k + 1)' = u
    BY <1>2, SameInsn
  <1>8. /\ BitsOf(mode)' = 0..(w - 1) /\ bits' \in [0..(w - 1) -> {0, 1}]
    <2>1. BitsOf(mode)' = 0..(w - 1)
      BY <1>1, <1>7
    <2>2. bits' \in [BitsOf(mode)' -> {0, 1}]
      BY DEF PathInv, TypeOK
    <2> QED
      BY <2>1, <2>2
  <1>9. /\ \A i \in 0..(w - 1) : bits[i] = IF Passed(i) THEN u[i] ELSE t[i]
        /\ at # FirstByte =>
             cf = t[IF op = "ashl" THEN 8 * at - 1 ELSE 8 * at + 8]
    BY <1>1 DEF InRound
  <1> HIDE DEF t, u
  <1>10. UpTo(bits, t, u, op, at, w) /\ IsByte(at, w)
    BY <1>1, <1>9 DEF Passed, UpTo, IsByte
  <1>11. CASE op = "ashl"
    <2>1. in = CarryLeft(t, at)
      BY <1>1, <1>9, <1>11 DEF CarryLeft
    <2>2. /\ Through(Left(bits, at, CarryLeft(t, at)), t, u, "ashl", at, w)
          /\ bits[8 * at + 7] = t[8 * at + 7]
      <3>1. Shifting(bits, t, u, "ashl", at, w)
        BY <1>1, <1>5, <1>10, <1>11 DEF Shifting
      <3> QED
        BY <3>1, LeftByte
    <2> HIDE DEF in
    <2>3. Through(bits', t, u, "ashl", at, w) /\ cf' = t[8 * at + 7]
      BY <1>2, <1>4, <1>11, <2>1, <2>2
    <2>4. \A i \in 0..(w - 1) :
            bits'[i] = IF i < 8 * at + 8 THEN u[i] ELSE t[i]
      BY <2>3 DEF Through
    <2>5. CASE at # LastByte
      <3>1. at' = at + 1 /\ 8 * at' = 8 * at + 8 /\ 8 * at' - 1 = 8 * at + 7
        BY <1>1, <1>2, <1>11, <2>5
      <3>2. \A i \in 0..(w - 1) :
              bits'[i] = IF i < 8 * at' THEN u[i] ELSE t[i]
        BY <2>4, <3>1
      <3> QED
        BY <1>7, <1>8, <1>11, <2>3, <2>5, <3>1, <3>2 DEF InRound, Passed
    <2>6. CASE at = LastByte
      <3>1. \A i \in 0..(w - 1) : i < 8 * at + 8
        BY <1>1, <1>11, <2>6
      <3>2. \A i \in 0..(w - 1) : bits'[i] = u[i]
        BY <2>4, <3>1
      <3>3. bits' = u
        BY <1>6, <1>8, <3>2
      <3> QED
        BY <2>6, <3>3 DEF u
    <2> QED
      BY <2>5, <2>6
  <1>12. CASE op # "ashl"
    <2>1. in = CarryRight(bits, t, op, at, w)
      BY <1>1, <1>9, <1>12 DEF CarryRight
    <2>2. op \in {"lshr", "ashr"}
      BY <1>3, <1>12
    <2>3. /\ Through(Right(bits, at, CarryRight(bits, t, op, at, w)),
                     t, u, op, at, w)
          /\ bits[8 * at] = t[8 * at]
      <3>1. Shifting(bits, t, u, op, at, w)
        BY <1>1, <1>5, <1>10 DEF Shifting
      <3> QED
        BY <2>2, <3>1, RightByte
    <2> HIDE DEF in
    <2>4. Through(bits', t, u, op, at, w) /\ cf' = t[8 * at]
      BY <1>2, <1>4, <1>12, <2>1, <2>3
    <2>5. \A i \in 0..(w - 1) :
            bits'[i] = IF i >= 8 * at THEN u[i] ELSE t[i]
      BY <1>12, <2>4 DEF Through
    <2>6. CASE at # LastByte
      <3>1. at' = at - 1 /\ 8 * at' + 8 = 8 * at
        BY <1>1, <1>2, <1>12, <2>6
      <3>2. \A i \in 0..(w - 1) :
              bits'[i] = IF i >= 8 * at' + 8 THEN u[i] ELSE t[i]
        BY <2>5, <3>1
      <3> QED
        BY <1>7, <1>8, <1>12, <2>4, <2>6, <3>1, <3>2 DEF InRound, Passed
    <2>7. CASE at = LastByte
      <3>1. \A i \in 0..(w - 1) : i >= 8 * at
        BY <1>1, <1>12, <2>7
      <3>2. \A i \in 0..(w - 1) : bits'[i] = u[i]
        BY <2>5, <3>1
      <3>3. bits' = u
        BY <1>6, <1>8, <3>2
      <3> QED
        BY <2>7, <3>3 DEF u
    <2> QED
      BY <2>6, <2>7
  <1> QED
    BY <1>11, <1>12

\* What remains to be shown of a step.
LEMMA ValueKept ==
  ASSUME UNCHANGED insn,
         pc' \in {"expand", "load", "test", "top", "up", "pair", "rotate"}
           => bits' = orig,
         pc' = "shift" => \E k \in 0..255 : k = Over' /\ InRound(k)',
         pc' = "djnz" => bits' = Shifted(op, orig, n - b' + 1),
         pc' = "high" => \A i \in 8..15 :
                           bits'[i] = Shifted(op, orig, n - rounds')[i],
         pc' = "done" /\ ~ByNextPair => bits' = Shifted(op, orig, n)
  PROVE  ValueInv'
  BY DEF ValueInv, After, insn, ByNextPair

\* A round begins with the value of the one before.
LEMMA RoundStart ==
  ASSUME PathInv, PathInv', UNCHANGED insn, NEW k \in Nat, at' = FirstByte,
         bits' = Shifted(op, orig, k)
  PROVE  InRound(k)'
  <1>1. PICK w \in {8, 16, 32} :
          /\ w = 8 * NBytes(mode) /\ BitsOf(mode) = 0..(w - 1)
          /\ NBytes(mode) \in {1, 2, 4}
    BY ValueFacts
  <1>2. /\ op' = op /\ mode' = mode /\ orig' = orig
        /\ FirstByte' = FirstByte
    BY SameInsn
  <1>3. FirstByte = IF op = "ashl" THEN 0 ELSE NBytes(mode) - 1
    BY DEF FirstByte, High
  <1>4. /\ op = "ashl" => 8 * at' = 0
        /\ op # "ashl" => 8 * at' + 8 = w
    BY <1>1, <1>3
  <1>5. \A i \in 0..(w - 1) : ~Passed(i)'
    BY <1>1, <1>2, <1>4 DEF Passed
  <1> QED
    BY <1>1, <1>2, <1>5 DEF InRound, After

\* The value before a shift.
LEMMA ValueInit == Init => ValueInv
  BY DEF Init, ValueInv

\* recog: no round is over yet, and none is needed for a count of 0.
LEMMA ExpandValue ==
  ASSUME PathInv, PathInv', ValueInv, Expand
  PROVE  ValueInv'
  <1>1. /\ pc = "expand" /\ bits' = bits /\ at' = at /\ UNCHANGED insn
        /\ rounds' = IF pc' = "shift" THEN RoundsOf ELSE 0
        /\ op \in Rotates => pc' = "rotate"
        /\ op \notin Rotates /\ how = "reg" => pc' = "load"
        /\ op \notin Rotates /\ how # "reg" => pc' = ConstPath
    BY DEF Expand, Rotates
  <1>2. /\ ConstPath \in {"done", "shift", "top", "up", "pair", "load", "abort",
                          "refused"}
        /\ ConstPath = "shift" => RoundsOf # 0
        /\ ConstPath = "done" => RoundsOf = 0
    BY DEF ConstPath
  <1>3. bits' = orig
    BY <1>1 DEF ValueInv
  <1>4. n \in 0..255 /\ RoundsOf \in 0..n /\ at = FirstByte
    BY <1>1, PathFacts DEF Paths
  <1>5. pc' \in {"shift", "done"} => bits' = Shifted(op, orig, 0)
    <2> SUFFICES ASSUME op \notin Rotates PROVE orig = Shifted(op, orig, 0)
      BY <1>1, <1>3
    <2> QED
      BY ValueFacts, ShiftOps, ByZero
  <1>6. ASSUME pc' = "shift"
        PROVE  \E k \in 0..255 : k = Over' /\ InRound(k)'
    <2>1. rounds' = RoundsOf /\ rounds' > 0 /\ RoundsOf' = RoundsOf
      BY <1>1, <1>2, <1>4, <1>6, SameInsn
    <2>2. Over' = 0
      BY <1>4, <2>1 DEF Over
    <2>3. InRound(0)'
      BY <1>1, <1>4, <1>5, <1>6, RoundStart
    <2> QED
      BY <2>2, <2>3
  <1>7. pc' = "done" => bits' = Shifted(op, orig, n)
    <2>1. pc' = "done" => RoundsOf = 0
      BY <1>1, <1>2
    <2>2. RoundsOf = 0 => n = 0
      BY <1>4 DEF RoundsOf
    <2> QED
      BY <1>5, <2>1, <2>2
  <1>8. pc' \notin {"djnz", "high"}
    BY <1>1, <1>2
  <1> QED
    BY <1>1, <1>3, <1>6, <1>7, <1>8, ValueKept

\* A count of 0 leaves the value alone.
LEMMA CountValue ==
  ASSUME PathInv, PathInv', ValueInv, LoadCount \/ TestCount
  PROVE  ValueInv'
  <1>1. /\ pc \in {"load", "test"} /\ pc' \in {"test", "done", "shift"}
        /\ bits' = bits /\ at' = at /\ rounds' = rounds /\ UNCHANGED insn
        /\ pc = "load" => pc' = "test"
        /\ pc = "test" => b' = b /\ pc' = IF b = 0 THEN "done" ELSE "shift"
    BY DEF LoadCount, TestCount
  <1>2. /\ rounds = 0 /\ op \notin Rotates /\ n \in 0..255 /\ at = FirstByte
        /\ (pc = "test" => b = n)
    BY <1>1, PathFacts DEF Paths, Counts
  <1>3. bits' = orig
    BY <1>1 DEF ValueInv
  <1>4. bits' = Shifted(op, orig, 0)
    BY <1>2, <1>3, ValueFacts, ShiftOps, ByZero
  <1>5. pc' = "done" => bits' = Shifted(op, orig, n)
    BY <1>1, <1>2, <1>4
  <1>6. ASSUME pc' = "shift"
        PROVE  \E k \in 0..255 : k = Over' /\ InRound(k)'
    <2>1. rounds' = 0 /\ b' = n /\ n' = n
      BY <1>1, <1>2, <1>6, SameInsn
    <2>2. Over' = 0
      BY <1>2, <2>1 DEF Over
    <2>3. InRound(0)'
      BY <1>1, <1>2, <1>4, RoundStart
    <2> QED
      BY <2>2, <2>3
  <1> QED
    BY <1>1, <1>3, <1>5, <1>6, ValueKept

\* *ashrqi3_const stops after 8 rounds: more of them change nothing.
LEMMA AllRounds ==
  ASSUME PathInv, Unrolled, op \notin Rotates
  PROVE  Shifted(op, orig, RoundsOf) = Shifted(op, orig, n)
  <1>1. CASE op = "ashr" /\ n > 8
    <2>1. n \in 0..255 /\ RoundsOf = 8
      BY <1>1, PathFacts DEF RoundsOf
    <2>2. mode = "QI"
      BY <1>1, <2>1 DEF Unrolled
    <2>3. orig \in [0..(8 - 1) -> {0, 1}]
      BY <2>2, ValueFacts
    <2> DEFINE t == Shifted(op, orig, 8)
               u == Shifted(op, orig, n)
    <2>4. IsShift(t, op, orig, 8, 8) /\ IsShift(u, op, orig, 8, n)
      BY <2>3, ShiftedBits
    <2> HIDE DEF t, u
    <2>5. /\ t = [i \in 0..(8 - 1) |-> t[i]]
          /\ u = [i \in 0..(8 - 1) |-> u[i]]
      BY <2>4 DEF IsShift
    <2>6. \A i \in 0..(8 - 1) : t[i] = orig[8 - 1] /\ u[i] = orig[8 - 1]
      BY <1>1, <2>1, <2>4 DEF IsShift
    <2>7. t = u
      BY <2>5, <2>6
    <2> QED
      BY <2>1, <2>7 DEF t, u
  <1>2. CASE ~(op = "ashr" /\ n > 8)
    BY <1>2 DEF RoundsOf
  <1> QED
    BY <1>1, <1>2

\* One insn of a round, and the end of the round.
LEMMA ShiftValue ==
  ASSUME PathInv, PathInv', ValueInv, ShiftByte
  PROVE  ValueInv'
  <1>1. /\ pc = "shift" /\ UNCHANGED insn /\ b' = b
        /\ at # LastByte => pc' = "shift" /\ rounds' = rounds
        /\ at = LastByte =>
             /\ at' = FirstByte
             /\ rounds' = IF rounds > 0 THEN rounds - 1 ELSE 0
             /\ pc' = CASE rounds = 0 -> "djnz" [] rounds = 1 -> "done"
                        [] OTHER -> "shift"
    BY DEF ShiftByte
  <1>2. PICK k \in 0..255 : k = Over /\ InRound(k)
    BY <1>1 DEF ValueInv
  <1>3. /\ at # LastByte => InRound(k)'
        /\ at = LastByte => bits' = Shifted(op, orig, k + 1)
    BY <1>2, RoundByte DEF After
  <1>4. /\ n \in 0..255 /\ b \in 0..255 /\ rounds \in 0..255
        /\ RoundsOf \in 0..n /\ op \notin Rotates
        /\ rounds > 0 => Unrolled /\ rounds <= RoundsOf
        /\ rounds = 0 => 0 < b /\ b <= n
    BY <1>1, PathFacts DEF Paths, Counts
  <1>5. n' = n /\ RoundsOf' = RoundsOf
    BY <1>1, SameInsn
  <1>6. CASE at # LastByte
    <2>1. k = Over'
      BY <1>1, <1>2, <1>5, <1>6 DEF Over
    <2> QED
      BY <1>1, <1>3, <1>6, <2>1, ValueKept
  <1>7. CASE at = LastByte /\ rounds = 0
    <2>1. pc' = "djnz" /\ n - b' + 1 = k + 1
      BY <1>1, <1>2, <1>7 DEF Over
    <2>2. bits' = Shifted(op, orig, n - b' + 1)
      BY <1>3, <1>7, <2>1
    <2> QED
      BY <1>1, <2>1, <2>2, ValueKept
  <1>8. CASE at = LastByte /\ rounds = 1
    <2>1. pc' = "done" /\ k + 1 = RoundsOf /\ Unrolled
      BY <1>1, <1>2, <1>4, <1>8 DEF Over
    <2>2. bits' = Shifted(op, orig, n)
      BY <1>3, <1>4, <1>8, <2>1, AllRounds
    <2> QED
      BY <1>1, <2>1, <2>2, ValueKept
  <1>9. CASE at = LastByte /\ rounds > 1
    <2>1. /\ pc' = "shift" /\ at' = FirstByte /\ rounds' > 0
          /\ RoundsOf' - rounds' = k + 1 /\ k + 1 \in 0..255
      BY <1>1, <1>2, <1>4, <1>5, <1>9 DEF Over
    <2>2. k + 1 = Over'
      BY <2>1 DEF Over
    <2>3. InRound(k + 1)'
      BY <1>1, <1>3, <1>9, <2>1, RoundStart
    <2> QED
      BY <1>1, <2>1, <2>2, <2>3, ValueKept
  <1> QED
    BY <1>4, <1>6, <1>7, <1>8, <1>9

\* The loop ends after as many rounds as the count says.
LEMMA DjnzValue ==
  ASSUME PathInv, PathInv', ValueInv, Djnz
  PROVE  ValueInv'
  <1>1. /\ pc = "djnz" /\ UNCHANGED insn /\ bits' = bits
        /\ at' = at /\ rounds' = rounds
        /\ pc' = IF b' = 0 THEN "done" ELSE "shift"
    BY DEF Djnz
  <1>2. b' = b - 1 /\ 0 < b /\ b <= n
    BY DjnzPath
  <1>3. /\ rounds = 0 /\ n \in 0..255 /\ b \in 0..255 /\ at = FirstByte
    BY <1>1, PathFacts DEF Paths
  <1>4. n - b + 1 = n - b' /\ n - b' \in 0..255 /\ n' = n
    BY <1>1, <1>2, <1>3, SameInsn
  <1>5. bits' = Shifted(op, orig, n - b')
    BY <1>1, <1>4 DEF ValueInv, After
  <1>6. pc' = "done" => bits' = Shifted(op, orig, n)
    <2>1. pc' = "done" => n - b' = n
      BY <1>1, <1>3
    <2> QED
      BY <1>5, <2>1
  <1>7. \E k \in 0..255 : k = Over' /\ InRound(k)'
    <2>1. Over' = n - b'
      BY <1>1, <1>3, <1>4 DEF Over
    <2>2. PICK k \in 0..255 : k = Over' /\ bits' = Shifted(op, orig, k)
      BY <1>4, <1>5, <2>1
    <2>3. InRound(k)'
      BY <1>1, <1>3, <2>2, RoundStart
    <2> QED
      BY <2>2, <2>3
  <1> QED
    BY <1>1, <1>6, <1>7, ValueKept

(***************************************************************************)
(* The shifts that move whole bytes.                                       *)
(***************************************************************************)

\* The register holds the result when it does bit by bit.
LEMMA ByBits ==
  ASSUME NEW w \in {8, 16, 32}, NEW x \in [0..(w - 1) -> {0, 1}],
         NEW o, NEW v \in [0..(w - 1) -> {0, 1}], NEW k,
         \A i \in 0..(w - 1) : x[i] = Shifted(o, v, k)[i]
  PROVE  x = Shifted(o, v, k)
  <1> DEFINE u == Shifted(o, v, k)
  <1>1. u = [i \in 0..(w - 1) |-> u[i]]
    <2>1. IsShift(u, o, v, w, k)
      BY ShiftedBits
    <2> HIDE DEF u
    <2> QED
      BY <2>1 DEF IsShift
  <1> HIDE DEF u
  <1>2. \A i \in 0..(w - 1) : x[i] = u[i]
    BY DEF u
  <1>3. x = u
    BY <1>1, <1>2
  <1> QED
    BY <1>3 DEF u

\* A bit of a value shifted left.
LEMMA LeftBits ==
  ASSUME NEW w \in {8, 16, 32}, NEW v \in [0..(w - 1) -> {0, 1}], NEW k
  PROVE  \A i \in 0..(w - 1) :
           Shifted("ashl", v, k)[i] = IF i >= k THEN v[i - k] ELSE 0
  <1> DEFINE u == Shifted("ashl", v, k)
  <1>1. IsShift(u, "ashl", v, w, k)
    BY ShiftedBits
  <1> HIDE DEF u
  <1> QED
    BY <1>1 DEF IsShift, u

\* The register after a step is as wide as before.
LEMMA NewBits ==
  ASSUME PathInv, PathInv', UNCHANGED insn, NEW w \in {8, 16, 32},
         BitsOf(mode) = 0..(w - 1)
  PROVE  bits' \in [0..(w - 1) -> {0, 1}]
  <1>1. BitsOf(mode)' = 0..(w - 1)
    BY SameInsn
  <1>2. bits' \in [BitsOf(mode)' -> {0, 1}]
    BY DEF PathInv, TypeOK
  <1> QED
    BY <1>1, <1>2

\* *ashlqi3_const by 7 and more.
LEMMA TopValue ==
  ASSUME PathInv, PathInv', ValueInv, ShiftTop
  PROVE  ValueInv'
  <1>1. /\ pc = "top" /\ UNCHANGED insn /\ pc' = "done"
        /\ bits' = IF n = 7 THEN TopBit(bits, 0) ELSE Clear(bits, 0)
    BY DEF ShiftTop
  <1>2. op = "ashl" /\ mode = "QI" /\ n \in 7..255
    BY <1>1, PathFacts DEF Paths
  <1>3. bits = orig
    BY <1>1 DEF ValueInv
  <1>4. orig \in [0..(8 - 1) -> {0, 1}] /\ BitsOf(mode) = 0..(8 - 1)
    BY <1>2, ValueFacts
  <1>5. \A i \in 0..(8 - 1) :
          Shifted(op, orig, n)[i] = IF i >= n THEN orig[i - n] ELSE 0
    BY <1>2, <1>4, LeftBits
  <1>6. \A i \in 0..(8 - 1) : i \in InByte(0)
    BY DEF InByte
  <1>7. /\ \A i \in 0..(8 - 1) : Clear(orig, 0)[i] = 0
        /\ DOMAIN Clear(orig, 0) = 0..(8 - 1)
    BY <1>4, <1>6 DEF Clear
  <1>8. \A i \in 0..(8 - 1) : bits'[i] = Shifted(op, orig, n)[i]
    <2>1. CASE n = 7
      <3>1. \A i \in 0..(8 - 1) :
              bits'[i] = IF i = 7 THEN orig[0] ELSE Clear(orig, 0)[i + 1]
        BY <1>1, <1>3, <1>6, <1>7, <2>1 DEF TopBit, Right
      <3> QED
        BY <1>5, <1>7, <2>1, <3>1
    <2>2. CASE n # 7
      BY <1>1, <1>2, <1>3, <1>5, <1>7, <2>2
    <2> QED
      BY <2>1, <2>2
  <1>9. bits' \in [0..(8 - 1) -> {0, 1}]
    BY <1>1, <1>4, NewBits
  <1>10. bits' = Shifted(op, orig, n)
    BY <1>4, <1>8, <1>9, ByBits
  <1> QED
    BY <1>1, <1>10, ValueKept

\* *ashlhi3_const by 8 and more: the byte moved up.
LEMMA UpValue ==
  ASSUME PathInv, PathInv', ValueInv, MoveUp
  PROVE  ValueInv'
  <1>1. /\ pc = "up" /\ UNCHANGED insn /\ pc' = "high"
        /\ bits' = IF n = 15 THEN TopBit(Copy(bits, 1, 0), 1)
                             ELSE Copy(bits, 1, 0)
        /\ rounds' = IF n = 15 THEN 0 ELSE n - 8
    BY DEF MoveUp
  <1>2. op = "ashl" /\ mode = "HI" /\ n \in 8..255
    BY <1>1, PathFacts DEF Paths
  <1>3. bits = orig
    BY <1>1 DEF ValueInv
  <1>4. orig \in [0..(16 - 1) -> {0, 1}]
    BY <1>2, ValueFacts
  <1>5. \A k, i \in 0..(16 - 1) :
          Shifted(op, orig, k)[i] = IF i >= k THEN orig[i - k] ELSE 0
    BY <1>2, <1>4, LeftBits
  <1>6. \A i \in 0..(16 - 1) : i \in InByte(1) <=> i >= 8
    BY DEF InByte
  <1> DEFINE x == Copy(orig, 1, 0)
  <1>7. /\ \A i \in 8..15 : x[i] = orig[i - 8]
        /\ DOMAIN x = 0..(16 - 1)
    BY <1>4, <1>6 DEF Copy
  <1> HIDE DEF x
  <1>8. \A i \in 8..15 : bits'[i] = Shifted(op, orig, n - rounds')[i]
    <2>1. CASE n = 15
      <3>1. /\ \A i \in 8..15 : Clear(x, 1)[i] = 0
            /\ DOMAIN Clear(x, 1) = 0..(16 - 1)
        BY <1>6, <1>7 DEF Clear
      <3>2. n - rounds' = 15 /\ bits' = Right(Clear(x, 1), 1, x[8])
        BY <1>1, <1>3, <2>1 DEF TopBit, x
      <3>3. \A i \in 8..15 :
              bits'[i] = IF i = 15 THEN x[8] ELSE Clear(x, 1)[i + 1]
        BY <1>6, <3>1, <3>2 DEF Right
      <3> QED
        BY <1>5, <1>7, <3>1, <3>2, <3>3
    <2>2. CASE n # 15
      <3>1. n - rounds' = 8 /\ bits' = x
        BY <1>1, <1>2, <1>3, <2>2 DEF x
      <3> QED
        BY <1>5, <1>7, <3>1
    <2> QED
      BY <2>1, <2>2
  <1> QED
    BY <1>1, <1>8, ValueKept

\* and the rounds on the high byte, then the low one cleared
LEMMA HighValue ==
  ASSUME PathInv, PathInv', ValueInv, ShiftHigh \/ ClearLow
  PROVE  ValueInv'
  <1>1. pc = "high" /\ UNCHANGED insn
    BY DEF ShiftHigh, ClearLow
  <1>2. /\ op = "ashl" /\ mode = "HI" /\ n \in 8..255
        /\ rounds \in 0..255 /\ rounds <= n - 8
    BY <1>1, PathFacts DEF Paths
  <1>3. /\ orig \in [0..(16 - 1) -> {0, 1}] /\ bits \in [0..(16 - 1) -> {0, 1}]
        /\ BitsOf(mode) = 0..(16 - 1)
    BY <1>2, ValueFacts
  <1>4. \A k : \A i \in 0..(16 - 1) :
          Shifted(op, orig, k)[i] = IF i >= k THEN orig[i - k] ELSE 0
    BY <1>2, <1>3, LeftBits
  <1>5. \A i \in 8..15 : bits[i] = Shifted(op, orig, n - rounds)[i]
    BY <1>1 DEF ValueInv, After
  <1>6. CASE ShiftHigh
    <2>1. /\ pc' = "high" /\ rounds' = rounds - 1 /\ bits' = Left(bits, 1, 0)
      BY <1>1, <1>6 DEF ShiftHigh
    <2>2. \A i \in 8..15 : bits'[i] = IF i = 8 THEN 0 ELSE bits[i - 1]
      BY <1>3, <2>1 DEF Left, InByte
    <2>3. PICK k \in 8..255 : k = n - rounds /\ n - rounds' = k + 1
      BY <1>2, <2>1
    <2>4. \A i \in 8..15 : bits'[i] = Shifted(op, orig, k + 1)[i]
      <3>1. \A i \in 8..15 : bits[i] = Shifted(op, orig, k)[i]
        BY <1>5, <2>3
      <3>2. ASSUME NEW i \in 8..15
            PROVE  /\ i \in 0..(16 - 1) /\ i - 1 \in 0..(16 - 1)
                   /\ i = 8 => ~(i >= k + 1)
                   /\ i # 8 => i - 1 \in 8..15
                   /\ i >= k + 1 <=> i - 1 >= k
                   /\ i - (k + 1) = (i - 1) - k
        OBVIOUS
      <3>3. ASSUME NEW i \in 8..15
            PROVE  /\ Shifted(op, orig, k + 1)[i] =
                        IF i >= k + 1 THEN orig[i - (k + 1)] ELSE 0
                   /\ Shifted(op, orig, k)[i - 1] =
                        IF i - 1 >= k THEN orig[(i - 1) - k] ELSE 0
        <4>1. /\ Shifted(op, orig, k + 1)[i] =
                   IF i >= k + 1 THEN orig[i - (k + 1)] ELSE 0
          BY <1>4, <3>2, Zenon
        <4>2. /\ Shifted(op, orig, k)[i - 1] =
                   IF i - 1 >= k THEN orig[(i - 1) - k] ELSE 0
          BY <1>4, <3>2, Zenon
        <4> QED
          BY <4>1, <4>2
      <3> QED
        BY <2>2, <3>1, <3>2, <3>3
    <2> QED
      BY <1>1, <2>1, <2>3, <2>4, ValueKept
  <1>7. CASE ClearLow
    <2>1. pc' = "done" /\ rounds = 0 /\ bits' = Clear(bits, 0)
      BY <1>7 DEF ClearLow
    <2>2. \A i \in 0..(16 - 1) : bits'[i] = IF i < 8 THEN 0 ELSE bits[i]
      BY <1>3, <2>1 DEF Clear, InByte
    <2>3. \A i \in 8..15 : bits[i] = Shifted(op, orig, n)[i]
      BY <1>2, <1>5, <2>1
    <2>4. \A i \in 0..(16 - 1) : bits'[i] = Shifted(op, orig, n)[i]
      <3>1. \A i \in 0..(16 - 1) : i < 8 => Shifted(op, orig, n)[i] = 0
        <4>1. \A i \in 0..(16 - 1) :
                Shifted(op, orig, n)[i] = IF i >= n THEN orig[i - n] ELSE 0
          BY <1>4, Zenon
        <4> QED
          BY <1>2, <4>1
      <3> QED
        BY <2>2, <2>3, <3>1
    <2>5. bits' \in [0..(16 - 1) -> {0, 1}]
      BY <1>1, <1>3, NewBits
    <2>6. bits' = Shifted(op, orig, n)
      BY <1>3, <2>4, <2>5, ByBits
    <2> QED
      BY <1>1, <2>1, <2>6, ValueKept
  <1> QED
    BY <1>6, <1>7

\* The shifts that are compiled, and to the right insns: no lshrqi3 by a
\* constant other than 1, which matches no insn, no SImode by 16, which is
\* output as `ld hl,de` or `ld de,hl`, no rotate to the right, and rotates to
\* the left by 1 only.
SoundShifts ==
  \A k \in Cases :
    /\ k[1] = "lshr" /\ k[2] = "QI" /\ k[3] # "reg" => k[4] = 1
    /\ k[1] \in {"ashl", "lshr"} /\ k[2] = "SI" /\ k[3] # "reg" => k[4] # 16
    /\ k[1] # "rotr"
    /\ k[1] = "rotl" => k[4] = 1

\* recog finds an insn for each of them.
LEMMA ExpandCompiles ==
  ASSUME SoundShifts, PathInv, Expand
  PROVE  (Compiled)'
  <1>1. /\ <<op, mode, how, n>> \in Cases /\ op \in Ops /\ mode \in Modes
        /\ n \in 0..255
    BY PathFacts DEF PathInv
  <1>2. ASSUME op \notin Rotates, how # "reg"
        PROVE  ConstPath \notin {"abort", "refused"}
    <2>1. /\ op = "lshr" /\ mode = "QI" => n = 1
          /\ op \in {"ashl", "lshr"} /\ mode = "SI" => n # 16
      BY <1>1, <1>2 DEF SoundShifts
    <2>2. op \in {"ashl", "ashr", "lshr"}
      BY <1>1, <1>2 DEF Ops, Rotates
    <2> QED
      BY <2>1, <2>2 DEF ConstPath, Unrolled
  <1> QED
    BY <1>2 DEF Expand, Rotates, Compiled

\* lshrhi3 by 8
LEMMA PairValue ==
  ASSUME PathInv, PathInv', ValueInv, LoadFromNext
  PROVE  ValueInv'
  <1>1. pc = "pair" /\ UNCHANGED insn /\ pc' = "done"
    BY DEF LoadFromNext
  <1>2. ByNextPair
    BY <1>1, PathFacts DEF Paths
  <1> QED
    BY <1>1, <1>2, ValueKept

\* rlc
LEMMA RotateValue ==
  ASSUME SoundShifts, PathInv, PathInv', ValueInv, Rotate
  PROVE  ValueInv'
  <1>1. pc = "rotate" /\ UNCHANGED insn /\ pc' = "done"
    BY DEF Rotate
  <1>2. op = "rotl" /\ mode = "QI" /\ n = 1
    <2>1. <<op, mode, how, n>> \in Cases
      BY DEF PathInv
    <2>2. op # "rotr" /\ (op = "rotl" => n = 1)
      BY <2>1 DEF SoundShifts
    <2> QED
      BY <1>1, <2>2, PathFacts DEF Paths, Rotates
  <1>3. bits = orig
    BY <1>1 DEF ValueInv
  <1>4. orig \in [0..(8 - 1) -> {0, 1}] /\ BitsOf(mode) = 0..(8 - 1)
    BY <1>2, ValueFacts
  <1>5. bits' = Left(orig, 0, orig[7])
    BY <1>2, <1>3 DEF Rotate
  <1>6. \A i \in 0..(8 - 1) :
          bits'[i] = IF i = 0 THEN orig[7] ELSE orig[i - 1]
    BY <1>4, <1>5 DEF Left, InByte
  <1>7. \A i \in 0..(8 - 1) : Shifted(op, orig, n)[i] = orig[(i - 1) % 8]
    <2> DEFINE u == Shifted(op, orig, n)
    <2>1. IsShift(u, op, orig, 8, n)
      BY <1>4, ShiftedBits
    <2> HIDE DEF u
    <2> QED
      BY <1>2, <2>1 DEF IsShift, u
  <1>8. \A i \in 0..(8 - 1) : (i - 1) % 8 = IF i = 0 THEN 7 ELSE i - 1
    OBVIOUS
  <1>9. \A i \in 0..(8 - 1) : bits'[i] = Shifted(op, orig, n)[i]
    BY <1>6, <1>7, <1>8
  <1>10. bits' \in [0..(8 - 1) -> {0, 1}]
    BY <1>1, <1>4, NewBits
  <1>11. bits' = Shifted(op, orig, n)
    BY <1>4, <1>9, <1>10, ByBits
  <1> QED
    BY <1>1, <1>11, ValueKept

\* Every step keeps the value.
LEMMA ValueStep ==
  SoundShifts /\ PathInv /\ PathInv' /\ ValueInv /\ [Next]_vars => ValueInv'
  <1> SUFFICES ASSUME SoundShifts, PathInv, PathInv', ValueInv, [Next]_vars
               PROVE  ValueInv'
    OBVIOUS
  <1>1. CASE Insn
    BY <1>1, ExpandValue, CountValue, ShiftValue, DjnzValue, TopValue,
       UpValue, HighValue, PairValue, RotateValue DEF Insn
  <1>2. CASE Done \/ UNCHANGED vars
    <2>1. UNCHANGED vars
      BY <1>2 DEF Done
    <2>2. /\ UNCHANGED insn /\ pc' = pc /\ bits' = bits /\ cf' = cf
          /\ b' = b /\ at' = at /\ rounds' = rounds
      BY <2>1 DEF vars, insn
    <2>3. /\ op' = op /\ mode' = mode /\ n' = n /\ FirstByte' = FirstByte
          /\ RoundsOf' = RoundsOf /\ \A k : After(k)' = After(k)
      BY <2>2, SameInsn
    <2>4. Over' = Over
      BY <2>2, <2>3 DEF Over
    <2>5. ASSUME NEW k, InRound(k)
          PROVE  InRound(k)'
      BY <2>2, <2>3, <2>5 DEF InRound, Passed
    <2>6. pc' = "shift" => \E k \in 0..255 : k = Over' /\ InRound(k)'
      BY <2>2, <2>4, <2>5 DEF ValueInv
    <2> QED
      BY <2>2, <2>6, ValueKept DEF ValueInv, After
  <1> QED
    BY <1>1, <1>2 DEF Next

\* A shift that is compiled stays so.
LEMMA CompiledStep ==
  SoundShifts /\ PathInv /\ Compiled /\ [Next]_vars => (Compiled)'
  <1> SUFFICES ASSUME SoundShifts, PathInv, Compiled, [Next]_vars
               PROVE  (Compiled)'
    OBVIOUS
  <1>1. CASE Expand
    BY <1>1, ExpandCompiles
  <1>2. CASE ~Expand
    BY <1>2
       DEF Next, Insn, Compiled, vars, LoadCount, TestCount, ShiftByte, Djnz,
           ShiftTop, MoveUp, ShiftHigh, ClearLow, LoadFromNext, Rotate, Done
  <1> QED
    BY <1>1, <1>2

(***************************************************************************)
(* The shifts of SoundShifts are matched by an insn whose output the Z80   *)
(* has, and it shifts the register by the count: for every value, in the   *)
(* loop, unrolled and by bytes, whatever the carry was before, apart from  *)
(* lshrhi3 by 8.  What SoundShifts leaves out is not compiled, or wrongly. *)
(***************************************************************************)
THEOREM ShiftsCorrect ==
  ASSUME SoundShifts
  PROVE  Spec => [](Compiled /\ ShiftSound)
  <1>1. Init => PathInv /\ ValueInv /\ Compiled
    <2>1. Init => Compiled
      BY DEF Init, Compiled
    <2> QED
      BY <2>1, PathInit, ValueInit
  <1>2. PathInv /\ ValueInv /\ Compiled /\ [Next]_vars
          => (PathInv /\ ValueInv /\ Compiled)'
    BY PathStep, ValueStep, CompiledStep
  <1>3. ValueInv => ShiftSound
    BY DEF ValueInv, ShiftSound, After
  <1> QED
    BY <1>1, <1>2, <1>3, PTL DEF Spec
=============================================================================
