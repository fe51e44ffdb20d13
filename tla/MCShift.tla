------------------------------ MODULE MCShift ------------------------------
(* All bytes; longer values with one bit set, one bit clear, and a mix.    *)
EXTENDS Shift

OneBit(m, x) ==
  {[i \in BitsOf(m) |-> IF i = j THEN x ELSE 1 - x] : j \in BitsOf(m)}
Mixed(m) == [i \in BitsOf(m) |-> IF (i \div 3) % 2 = 0 \/ i % 7 = 6 THEN 1 ELSE 0]

MCValues ==
  [m \in Modes |->
     CASE m = "QI" -> [BitsOf(m) -> {0, 1}]
       [] m = "HI" -> OneBit(m, 1) \cup OneBit(m, 0) \cup {Mixed(m)}
       [] m = "SI" -> {[i \in BitsOf(m) |-> IF i = j THEN 1 ELSE 0] :
                         j \in {0, 7, 8, 15, 16, 31}} \cup {Mixed(m)}]

\* Around every special case, and beyond the width.
MCCounts ==
  [m \in Modes |->
     CASE m = "QI" -> 0..9
       [] m = "HI" -> {0, 1, 2, 7, 8, 9, 14, 15, 16, 17}
       [] m = "SI" -> {0, 1, 2, 15, 16, 17, 31, 32}]

\* lshrqi3 by another constant than 1 matches no insn, and SImode by 16 is
\* output as an instruction the Z80 does not have.
NoInsn == {"lshr"} \X {"QI"} \X {"const"} \X (MCCounts["QI"] \ {1})
NoInstruction == {"ashl", "lshr"} \X {"SI"} \X {"const"} \X {16}
RightByTwoToSeven == {"lshr"} \X {"QI"} \X {"const"} \X (2..7)
RightByEight == {<<"lshr", "HI", "const", 8>>}

\* All shifts that are compiled, and the rotate to the left by 1.
Shifts ==
  (UNION {{"ashl", "ashr", "lshr"} \X {m} \X {"const", "reg"} \X MCCounts[m] :
            m \in Modes} \ (NoInsn \cup NoInstruction))
    \cup {<<"rotl", "QI", "const", 1>>}
=============================================================================
