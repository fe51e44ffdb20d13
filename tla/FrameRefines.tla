---------------------------- MODULE FrameRefines ----------------------------
(***************************************************************************)
(* Frame implements CallStack.  What the source program sees of an         *)
(* activation is read out of the machine's memory where the emitted code   *)
(* looks for it; the history only says which activations there are, which  *)
(* locals have been written, and how many words there are to read.         *)
(***************************************************************************)
EXTENDS FrameInv

\* The n words from address a up, as the code reads them.
Words(a, n) == [j \in 1..n |-> Word(mem, a + 2 * (j - 1))]

\* Locals and pushed words are there from prologue to epilogue.
HasBody(i) == i < Depth \/ InBody

ViewLocals(i) ==
  [k \in 0..(Size[frames[i].fn] - 1) |->
     IF HasBody(i) /\ frames[i].loc[k] # Junk
       THEN mem[LocalsLow(frames[i]) + k]
       ELSE Junk]

View(i) ==
  [fn |-> frames[i].fn,
   ra |-> Word(mem, frames[i].sp0),
   params |-> Words(frames[i].sp0 + 2, Len(frames[i].args)),
   locals |-> ViewLocals(i),
   passed |-> IF HasBody(i)
                THEN Words(BodySp(frames[i]), Len(frames[i].out))
                ELSE <<>>]

ViewStack == [i \in 1..Depth |-> View(i)]

ViewPhase ==
  CASE InPrologue -> "enter"
    [] InBody -> "body"
    [] pc \in {"restore", "pop_fp", "ret"} -> "leave"
    [] pc = "exit" -> "over"
    [] OTHER -> "lost"

\* An argument is a word or the two words of a long, low word first.
Arguments ==
  UNION {IF mode = "HI" THEN {<<lo>> : lo \in ArgVals}
                        ELSE {<<lo, hi>> : lo, hi \in ArgVals} :
           mode \in Modes}

Calls == INSTANCE CallStack WITH
  Locals <- [f \in Fns |-> 0..(Size[f] - 1)],
  Vals <- [val : Vals, part : {"byte"}],
  NoVal <- Junk,
  Args <- Arguments,
  stack <- ViewStack,
  phase <- ViewPhase

(***************************************************************************)
(* The emitted prologues, epilogues, pushes, pops and calls (z80.c,        *)
(* z80.md) implement calls as the source program means them: parameters,   *)
(* locals and return addresses, read from memory at every moment, change   *)
(* only as a call, an assignment or a return changes them.                 *)
(***************************************************************************)
ImplementsCalls == Calls!AbsSpec
=============================================================================
