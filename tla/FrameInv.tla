------------------------------ MODULE FrameInv ------------------------------
(***************************************************************************)
(* The inductive invariant behind the properties of Frame, for programs    *)
(* compiled with frame pointers: where every activation's stack pointer    *)
(* stands, and which words of memory belong to it.                         *)
(***************************************************************************)
EXTENDS Frame

FramePointers == \A f \in Fns : FpNeeded[f]
WordArguments == Modes \subseteq {"HI"}

NSaved(f) == Cardinality(Saved(f))

\* The value of IX in the activation's body, the lowest byte of its locals,
\* of its saved registers, and of what the body has pushed or allocated.
Bp(fr) == fr.sp0 - 2
LocalsLow(fr) == Bp(fr) - Size[fr.fn]
FrameLow(fr) == LocalsLow(fr) - 2 * NSaved(fr.fn)
BodySp(fr) == FrameLow(fr) - fr.dyn - 2 * Len(fr.out)

Running == pc \notin {"exit", "lost"}
InPrologue == pc \in {"push_fp", "set_fp", "alloc", "save"}
InBody == pc \in {"chain", "body"}

\* The stack and frame pointer at each point of the running activation.
Registers ==
  /\ pc = "push_fp" => sp = Cur.sp0 /\ reg[IX] = Cur.regs[IX]
  /\ pc = "set_fp"  => sp = Bp(Cur) /\ reg[IX] = Cur.regs[IX]
  /\ pc = "alloc"   => sp = Bp(Cur) /\ reg[IX] = Bp(Cur)
  /\ pc = "save"    => /\ todo \subseteq Saved(Fn)
                       /\ sp = FrameLow(Cur) + 2 * Cardinality(todo)
                       /\ reg[IX] = Bp(Cur)
  /\ InBody         => sp = BodySp(Cur) /\ reg[IX] = Bp(Cur)
  /\ pc = "restore" => /\ todo \subseteq Saved(Fn)
                       /\ sp = LocalsLow(Cur) - 2 * Cardinality(todo)
                       /\ reg[IX] = Bp(Cur)
  /\ pc = "pop_fp"  => sp = Bp(Cur) /\ reg[IX] = Bp(Cur)
  /\ pc = "ret"     => sp = Cur.sp0 /\ reg[IX] = Cur.regs[IX]

\* What the history says of an activation at each point.
History ==
  /\ InPrologue => Cur.out = <<>> /\ Cur.dyn = 0
  /\ InPrologue => \A k \in Offsets : Cur.loc[k] = Junk
  /\ InBody => Cur.save = FrameLow(Cur)
  /\ \A i \in 1..Depth : frames[i].fn \notin Alloca => frames[i].dyn = 0

\* A caller is suspended at its call; frames lie below one another.
Nesting ==
  /\ \A i \in 1..(Depth - 1) :
       /\ frames[i].save = FrameLow(frames[i])
       /\ frames[i + 1].sp0 + 2 = BodySp(frames[i])
       /\ frames[i + 1].regs[IX] = Bp(frames[i])
  /\ \A i, j \in 1..Depth :
       i < j => frames[j].sp0 + 2 <= BodySp(frames[i])

\* The words and bytes of memory m that belong to activation fr.
RaAt(m, fr) == HoldsWord(m, fr.sp0, fr.ra)
FpAt(m, fr) == HoldsWord(m, Bp(fr), fr.regs[IX])
LocalsAt(m, fr) ==
  \A k \in 0..(Size[fr.fn] - 1) :
    /\ LocalsLow(fr) + k \in Addr
    /\ fr.loc[k] # Junk => m[LocalsLow(fr) + k] = fr.loc[k]
ParamsAt(m, fr) ==
  \A k \in 1..Len(fr.args) :
    HoldsWord(m, fr.sp0 + 2 + 2 * (k - 1), fr.args[k])
PushedAt(m, fr) ==
  \A k \in 1..Len(fr.out) :
    HoldsWord(m, BodySp(fr) + 2 * (k - 1), fr.out[k])

\* What a caller owns while it waits.
Owned(m, fr) ==
  /\ RaAt(m, fr)
  /\ FpAt(m, fr)
  /\ LocalsAt(m, fr)
  /\ WordArguments => ParamsAt(m, fr) /\ PushedAt(m, fr)

Memory ==
  /\ \A i \in 1..(Depth - 1) : Owned(mem, frames[i])
  /\ RaAt(mem, Cur)
  /\ pc \notin {"push_fp", "ret"} => FpAt(mem, Cur)
  /\ InBody => LocalsAt(mem, Cur)
  /\ WordArguments => ParamsAt(mem, Cur)
  /\ WordArguments /\ InBody => PushedAt(mem, Cur)

(***************************************************************************)
(* The inductive invariant: every activation's stack pointer is where the  *)
(* insns of expand_prologue and expand_epilogue put it, frames do not      *)
(* overlap, and the return address, the caller's IX, the parameters, the   *)
(* pushed words and the locals of every activation are in memory.          *)
(***************************************************************************)
FrameInv ==
  /\ TypeOK
  /\ ReturnIntegrity
  /\ Running => /\ sp >= Bottom
                /\ Registers
                /\ History
                /\ Nesting
                /\ Memory

-----------------------------------------------------------------------------
(* Call-saved registers, in functions that save at most one.               *)

OneSaved ==
  /\ IY \notin CallSaved
  /\ \A f \in Fns : \A r, q \in Saved(f) : r = q

\* The register an activation saved is just below its locals.
SavedAt(m, fr) ==
  \A r \in Saved(fr.fn) : HoldsWord(m, FrameLow(fr), fr.regs[r])

\* Points at which register r still has, or has again, its value at the call.
Holding(r) ==
  \/ r \notin Saved(Fn)
  \/ pc \in {"push_fp", "set_fp", "alloc", "pop_fp", "ret"}
  \/ pc = "save" /\ r \in todo
  \/ pc = "restore" /\ r \notin todo

\* Points at which it is on the stack.
Stored ==
  \/ InBody
  \/ pc = "save" /\ todo = {}
  \/ pc = "restore" /\ todo # {}

\* A suspended activation has saved its register, or never changed it.
SuspendedSaved ==
  \A i \in 1..(Depth - 1) :
    /\ SavedAt(mem, frames[i])
    /\ \A r \in CallSaved \ Saved(frames[i].fn) :
         frames[i + 1].regs[r] = frames[i].regs[r]

(***************************************************************************)
(* The invariant behind CallSavedKept: a call-saved register has its value *)
(* at the call, or the word expand_prologue pushed for it is where         *)
(* expand_epilogue will pop it, in every activation on the stack.          *)
(***************************************************************************)
SavedInv ==
  Running => /\ SuspendedSaved
             /\ \A r \in CallSaved : Holding(r) => reg[r] = Cur.regs[r]
             /\ Stored => SavedAt(mem, Cur)
=============================================================================
