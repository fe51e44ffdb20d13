----------------------------- MODULE CallStack -----------------------------
(***************************************************************************)
(* What calls promise the source program, with no machine in sight: a      *)
(* stack of activations, each with the parameters it was given, locals     *)
(* that hold what was last assigned to them, and the words it has passed   *)
(* so far.  A call starts an activation with the first of these words, a   *)
(* return goes on in the caller just as it was, at the place of the call.  *)
(***************************************************************************)
EXTENDS Integers, Sequences

CONSTANTS
  Fns, Main,   \* the functions, and the one that starts
  Locals,      \* the set of local variables of each function
  NParams,     \* the words of parameters of each function
  Sites,       \* the places of the calls in each function
  StartRa,     \* the place of the call of Main
  Vals,        \* the values of locals
  NoVal,       \* the value of a local that was never assigned
  Args         \* the arguments the program passes, as sequences of words

VARIABLES stack, phase

absVars == <<stack, phase>>

Running == Len(stack)
Innermost == stack[Running]

Unset(f) == [k \in Locals[f] |-> NoVal]

Started(f, ra, params) ==
  [fn |-> f, ra |-> ra, params |-> params, locals |-> Unset(f),
   passed |-> <<>>]

AbsInit ==
  /\ stack = <<Started(Main, StartRa, <<>>)>>
  /\ phase = "enter"

Enter ==
  /\ phase = "enter"
  /\ phase' = "body"
  /\ UNCHANGED stack

Assign(v) ==
  /\ phase = "body"
  /\ \E k \in Locals[Innermost.fn] :
       stack' = [stack EXCEPT ![Running].locals = [@ EXCEPT ![k] = v]]
  /\ UNCHANGED phase

Pass(arg) ==
  /\ phase = "body"
  /\ stack' = [stack EXCEPT ![Running].passed = arg \o @]
  /\ UNCHANGED phase

Discard ==
  /\ phase = "body"
  /\ \E n \in 1..Len(Innermost.passed) :
       stack' = [stack EXCEPT ![Running].passed = SubSeq(@, n + 1, Len(@))]
  /\ UNCHANGED phase

Call(f) ==
  /\ phase = "body"
  /\ NParams[f] <= Len(Innermost.passed)
  /\ \E ra \in Sites[Innermost.fn] :
       stack' = Append(stack,
                       Started(f, ra, SubSeq(Innermost.passed, 1, NParams[f])))
  /\ phase' = "enter"

\* The life of the locals ends.
Leave ==
  /\ phase = "body"
  /\ Innermost.passed = <<>>
  /\ stack' = [stack EXCEPT ![Running].locals = Unset(Innermost.fn)]
  /\ phase' = "leave"

Return ==
  /\ phase = "leave"
  /\ stack' = SubSeq(stack, 1, Running - 1)
  /\ phase' = IF Running = 1 THEN "over" ELSE "body"

AbsNext ==
  \/ Enter
  \/ \E v \in Vals : Assign(v)
  \/ \E arg \in Args : Pass(arg)
  \/ Discard
  \/ \E f \in Fns : Call(f)
  \/ Leave
  \/ Return

AbsSpec == AbsInit /\ [][AbsNext]_absVars
=============================================================================
