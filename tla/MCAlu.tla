------------------------------- MODULE MCAlu -------------------------------
(* The insns of Alu that z80.md gets right, and some that it does not.     *)
EXTENDS Alu, Bitwise

MCBits(op, a, b) ==
  CASE op = "and" -> a & b [] op = "or" -> a | b [] op = "xor" -> a ^^ b

Sound == Accepted \ (Destructive \cup Wrong)
LongMinus == {i \in Accepted : i.rtx = "minus" /\ i.to = HLDE}
Exchanged == {i \in Accepted : i.rtx = "minus" /\ i.swapped}
ToIndex == {i \in Accepted : i.rtx = "zero_extend" /\ i.to \in {IX, IY}}
SignOfByte == {i \in Accepted : i.rtx = "sign_extend" /\ i.one = A}
=============================================================================
