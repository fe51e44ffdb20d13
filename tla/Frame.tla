------------------------------- MODULE Frame -------------------------------
(***************************************************************************)
(* The run-time stack protocol of the code the Z80 back end emits: what a  *)
(* caller pushes, what expand_prologue and expand_epilogue (z80.c) make    *)
(* of the frame, how parameters and locals are addressed (z80.h), and how  *)
(* the caller removes its arguments again (addhi_sp of z80.md).            *)
(*                                                                         *)
(* One action is one insn the back end emits, executed by the CPU; the     *)
(* loops over the hard registers take one step per register they emit an   *)
(* insn for.  pc names the next insn of the running activation.            *)
(*                                                                         *)
(* sp, reg and mem are the machine.  frames is a history: one record per   *)
(* activation with what the source program means by it (its parameters,    *)
(* the locals it has written) and what it was given at its call.  Actions  *)
(* read it only for what the compiler knows statically (the function, the  *)
(* words it has pushed) and to recognise a return that goes astray.        *)
(***************************************************************************)
EXTENDS Integers, Sequences, FiniteSets

CONSTANTS
  Fns,         \* the functions of the program
  Main,        \* the one the start-up code calls
  Size,        \* get_frame_size() of each function, in bytes
  Live,        \* the registers with regs_ever_live set, per function
  NParams,     \* the words of stack parameters of each function
  FpNeeded,    \* frame_pointer_needed, per function
  Nested,      \* functions that are given a static chain
  Alloca,      \* functions with current_function_calls_alloca
  CallSaved,   \* registers made call-saved with -fcall-saved-REG
  Modes,       \* machine modes of the arguments the program passes
  Vals,        \* the values the program stores in locals and registers
  ArgVals,     \* the values it passes as arguments
  Sites,       \* the return addresses of the calls in each function
  StartRa,     \* the return address of the start-up code's call of Main
  DynSizes,    \* bytes a call of alloca asks for
  Top, Bottom, \* the stack segment: return address of Main .. lowest byte
  MaxOut,      \* bound: words an activation has pushed at one time
  MaxDyn,      \* bound: bytes of alloca an activation holds
  MaxDepth     \* bound: activations at one time

\* Hard register numbers (z80.h); the loops of prologue and epilogue run
\* over them in ascending order.
HL == 1
DE == 2
BC == 3
IY == 4
IX == 5
Regs == 1..5

Addr == Bottom..(Top + 1)

ASSUME FrameAssumption ==
  /\ Main \in Fns
  /\ Size \in [Fns -> Nat]
  /\ Live \in [Fns -> SUBSET Regs]
  /\ NParams \in [Fns -> Nat]
  /\ NParams[Main] = 0
  /\ FpNeeded \in [Fns -> BOOLEAN]
  /\ Nested \subseteq Fns
  /\ Main \notin Nested
  /\ Alloca \subseteq Fns
  /\ \A f \in Alloca : FpNeeded[f]
  /\ CallSaved \subseteq {HL, DE, BC, IY}
  /\ Modes \subseteq {"HI", "SI"}
  /\ Vals \subseteq Int
  /\ ArgVals \subseteq Int
  /\ Sites \in [Fns -> SUBSET Int]
  /\ StartRa \in Int
  /\ DynSizes \subseteq Nat
  /\ Top \in Int
  /\ Bottom \in Int
  /\ Bottom <= Top
  /\ MaxOut \in Nat
  /\ MaxDyn \in Nat
  /\ MaxDepth \in Nat

VARIABLES pc, sp, reg, mem, todo, frames

vars == <<pc, sp, reg, mem, todo, frames>>

-----------------------------------------------------------------------------
(* The machine: a byte of memory is one half of a word, a byte the program *)
(* stored, or something unknown.                                           *)

Cell == [val : Int, part : {"lo", "hi", "byte", "junk"}]
Junk == [val |-> 0, part |-> "junk"]
Garbage == -1

\* Store a word, low byte first.
PutWord(m, a, v) ==
  [m EXCEPT ![a] = [val |-> v, part |-> "lo"],
            ![a + 1] = [val |-> v, part |-> "hi"]]

\* A word can be read back at a when its two halves are there.
HoldsWord(m, a, v) ==
  /\ a \in Addr
  /\ a + 1 \in Addr
  /\ m[a] = [val |-> v, part |-> "lo"]
  /\ m[a + 1] = [val |-> v, part |-> "hi"]

\* The word read at a: anything that is not a word of its own is garbage.
Word(m, a) ==
  IF a \in Addr /\ HoldsWord(m, a, m[a].val) THEN m[a].val ELSE Garbage

\* Interrupts are serviced on the same stack after any insn, by handlers not
\* compiled by this compiler, which give SP and registers back and leave
\* their own bytes below SP: what an insn frees, it loses at once.
Freed(m, s) == [a \in Addr |-> IF a < s THEN Junk ELSE m[a]]

Room(n) == sp - n >= Bottom

-----------------------------------------------------------------------------
(* What the compiler knows of the running activation.                      *)

Depth == Len(frames)
Cur == frames[Depth]
Fn == Cur.fn

\* regs_ever_live[regno] && !call_used_regs[regno]
Saved(f) == Live[f] \cap CallSaved

\* INITIAL_FRAME_POINTER_OFFSET
InitialFpOffset(f) == Size[f] + 2 * Cardinality(Saved(f))

\* FIRST_PARM_OFFSET as if no frame pointer were pushed.
NoFpParmOffset == 2

\* FIRST_PARM_OFFSET and STARTING_FRAME_OFFSET
FirstParmOffset == 4
StartingFrameOffset == 0

\* The address every frame reference is relative to: IX, or what reload
\* replaces it by when the frame pointer is eliminated.
FrameBase ==
  IF FpNeeded[Fn] THEN reg[IX]
  ELSE sp + 2 * Len(Cur.out) + InitialFpOffset(Fn)

ParamAddr(k) == FrameBase + FirstParmOffset + 2 * (k - 1)

\* Variant: locals are addressed as if the topmost one were at FP - 2.
LocalAddrBelow(k) == FrameBase + StartingFrameOffset - Size[Fn] + k - 1
LocalAddr(k) == FrameBase + StartingFrameOffset - Size[Fn] + k

\* The stack an activation of f uses, from its return address down.
FrameRoom(f) == 2 + 2 + Size[f] + 2 * Cardinality(Saved(f))

-----------------------------------------------------------------------------
\* The bytes of a frame, counted from its lowest address.
Offsets == UNION {0..(Size[f] - 1) : f \in Fns}

\* A call of f whose return address ra is pushed at a, with the registers
\* rs and the parameter words args.  out: the words the activation has
\* pushed itself, lowest address first; dyn: bytes from alloca; save: the
\* stack pointer kept for them; loc: the bytes of the locals written so far.
Activation(f, a, ra, rs, args) ==
  [fn |-> f, sp0 |-> a, ra |-> ra, regs |-> rs, args |-> args,
   out |-> <<>>, dyn |-> 0, save |-> 0,
   loc |-> [k \in Offsets |-> Junk]]

\* The start-up code has just executed `call main`.
Init ==
  /\ pc = "push_fp"
  /\ sp = Top
  /\ reg = [r \in Regs |-> 0]
  /\ todo = {}
  /\ mem = PutWord([a \in Addr |-> Junk], Top, StartRa)
  /\ frames = <<Activation(Main, Top, StartRa, reg, <<>>)>>

-----------------------------------------------------------------------------
(* expand_prologue                                                         *)

\* push ix, only when the frame pointer is needed
PushFp ==
  /\ pc = "push_fp"
  /\ IF FpNeeded[Fn]
       THEN /\ Room(2)
            /\ sp' = sp - 2
            /\ mem' = PutWord(mem, sp - 2, reg[IX])
            /\ pc' = "set_fp"
       ELSE /\ pc' = "alloc"
            /\ UNCHANGED <<sp, mem>>
  /\ UNCHANGED <<reg, todo, frames>>

\* ld ix,0 ; add ix,sp
SetFp ==
  /\ pc = "set_fp"
  /\ reg' = [reg EXCEPT ![IX] = sp]
  /\ pc' = "alloc"
  /\ UNCHANGED <<sp, mem, todo, frames>>

\* Variant: the insns through IY are emitted for an empty frame too.
AllocFrameAlways ==
  /\ pc = "alloc"
  /\ Room(Size[Fn])
  /\ reg' = [reg EXCEPT ![IY] = sp - Size[Fn]]
  /\ sp' = sp - Size[Fn]
  /\ todo' = Saved(Fn)
  /\ pc' = "save"
  /\ UNCHANGED <<mem, frames>>

\* ld iy,-size ; add iy,sp ; ld sp,iy when size > 0
AllocFrame ==
  /\ pc = "alloc"
  /\ IF Size[Fn] > 0
       THEN /\ Room(Size[Fn])
            /\ reg' = [reg EXCEPT ![IY] = sp - Size[Fn]]
            /\ sp' = sp - Size[Fn]
       ELSE UNCHANGED <<reg, sp>>
  /\ todo' = Saved(Fn)
  /\ pc' = "save"
  /\ UNCHANGED <<mem, frames>>

\* one push of the loop over regno
SaveReg ==
  /\ pc = "save"
  /\ Room(2)
  /\ \E r \in todo :
       /\ \A q \in todo : r <= q
       /\ mem' = PutWord(mem, sp - 2, reg[r])
       /\ sp' = sp - 2
       /\ todo' = todo \ {r}
  /\ UNCHANGED <<pc, reg, frames>>

\* The prologue ends; expand_function_end makes a function that calls
\* alloca keep its stack pointer (EXIT_IGNORE_STACK is 0).
EnterBody ==
  /\ pc = "save"
  /\ todo = {}
  /\ pc' = IF Fn \in Nested THEN "chain" ELSE "body"
  /\ frames' = [frames EXCEPT ![Depth].save = sp]
  /\ UNCHANGED <<sp, reg, mem, todo>>

-----------------------------------------------------------------------------
(* The body of a function                                                  *)

\* A nested function copies its static chain out of IY.
ReadChain ==
  /\ pc = "chain"
  /\ pc' = "body"
  /\ UNCHANGED <<sp, reg, mem, todo, frames>>

\* A computation into a register the allocator gave the function.
SetReg(r, v) ==
  /\ pc = "body"
  /\ r \in Live[Fn]
  /\ r = IX => ~FpNeeded[Fn]
  /\ reg' = [reg EXCEPT ![r] = v]
  /\ UNCHANGED <<pc, sp, mem, todo, frames>>

\* A byte stored into local k of the frame.
StoreLocal(v) ==
  /\ pc = "body"
  /\ \E k \in 0..(Size[Fn] - 1) :
       /\ mem' = [mem EXCEPT ![LocalAddr(k)] = [val |-> v, part |-> "byte"]]
       /\ frames' = [frames EXCEPT ![Depth].loc =
                       [@ EXCEPT ![k] = [val |-> v, part |-> "byte"]]]
  /\ UNCHANGED <<pc, sp, reg, todo>>

\* *movhi2_push; an SImode push is split by z80_split_move, low half first.
\* The words the callee will take for the argument go to the front of out:
\* a long has its low word at the lower address (WORDS_BIG_ENDIAN 0).
PushArg(mode, lo, hi) ==
  /\ pc = "body"
  /\ \/ /\ mode = "HI"
        /\ Len(Cur.out) < MaxOut
        /\ Room(2)
        /\ mem' = PutWord(mem, sp - 2, lo)
        /\ sp' = sp - 2
        /\ frames' = [frames EXCEPT ![Depth].out = <<lo>> \o @]
     \/ /\ mode = "SI"
        /\ Len(Cur.out) + 1 < MaxOut
        /\ Room(4)
        /\ mem' = PutWord(PutWord(mem, sp - 2, lo), sp - 4, hi)
        /\ sp' = sp - 4
        /\ frames' = [frames EXCEPT ![Depth].out = <<lo, hi>> \o @]
  /\ UNCHANGED <<pc, reg, todo>>

\* Variant: the adjustment counts words where it must count bytes.
PopArgsWords ==
  /\ pc = "body"
  /\ \E n \in 1..Len(Cur.out) :
       /\ sp' = sp + n
       /\ reg' = [reg EXCEPT ![IY] = sp + n]
       /\ frames' = [frames EXCEPT ![Depth].out = SubSeq(@, n + 1, Len(@))]
       /\ mem' = Freed(mem, sp + n)
  /\ UNCHANGED <<pc, todo>>

\* Variant: the return address is popped along with the arguments.
PopArgsAndReturn ==
  /\ pc = "body"
  /\ \E n \in 1..Len(Cur.out) :
       /\ sp' = sp + 2 * n + 2
       /\ reg' = [reg EXCEPT ![IY] = sp + 2 * n + 2]
       /\ frames' = [frames EXCEPT ![Depth].out = SubSeq(@, n + 1, Len(@))]
       /\ mem' = Freed(mem, sp + 2 * n + 2)
  /\ UNCHANGED <<pc, todo>>

\* do_pending_stack_adjust through addhi_sp: ld iy,n ; add iy,sp ; ld sp,iy
PopArgs ==
  /\ pc = "body"
  /\ \E n \in 1..Len(Cur.out) :
       /\ sp' = sp + 2 * n
       /\ reg' = [reg EXCEPT ![IY] = sp + 2 * n]
       /\ frames' = [frames EXCEPT ![Depth].out = SubSeq(@, n + 1, Len(@))]
       /\ mem' = Freed(mem, sp + 2 * n)
  /\ UNCHANGED <<pc, todo>>

\* allocate_dynamic_stack_space: pending arguments are popped first.
DynAlloc(n) ==
  /\ pc = "body"
  /\ Fn \in Alloca
  /\ Cur.out = <<>>
  /\ Cur.dyn + n <= MaxDyn
  /\ Room(n)
  /\ sp' = sp - n
  /\ reg' = [reg EXCEPT ![IY] = sp - n]
  /\ frames' = [frames EXCEPT ![Depth].dyn = @ + n]
  /\ UNCHANGED <<pc, mem, todo>>

\* The static chain goes to IY, then `call`: a direct one, or through a
\* register by way of a label that jumps on (call pattern of z80.md).
Call(f) ==
  /\ pc = "body"
  /\ Depth < MaxDepth
  /\ NParams[f] <= Len(Cur.out)
  /\ Room(FrameRoom(f))
  /\ reg' = [reg EXCEPT ![IY] = IF f \in Nested THEN reg[IX] ELSE @]
  /\ \E ra \in Sites[Fn] :
       /\ frames' = Append(frames, Activation(f, sp - 2, ra, reg',
                                              SubSeq(Cur.out, 1, NParams[f])))
       /\ mem' = PutWord(mem, sp - 2, ra)
  /\ sp' = sp - 2
  /\ pc' = "push_fp"
  /\ UNCHANGED todo

-----------------------------------------------------------------------------
(* expand_epilogue                                                         *)

\* Variant: alloca's space is left on the stack, as EXIT_IGNORE_STACK 1
\* would allow.
LeaveBodyKeepsDyn ==
  /\ pc = "body"
  /\ Cur.out = <<>>
  /\ todo' = Saved(Fn)
  /\ pc' = "restore"
  /\ UNCHANGED <<sp, reg, mem, frames>>

\* The end of the body: all pending arguments are popped, since
\* EXIT_IGNORE_STACK is 0, and alloca's space is given back.
LeaveBody ==
  /\ pc = "body"
  /\ Cur.out = <<>>
  /\ sp' = IF Fn \in Alloca THEN Cur.save ELSE sp
  /\ mem' = Freed(mem, sp')
  /\ frames' = [frames EXCEPT ![Depth].dyn = 0]
  /\ todo' = Saved(Fn)
  /\ pc' = "restore"
  /\ UNCHANGED reg

\* one pop of the loop over regno: ascending again, as the pushes were
RestoreReg ==
  /\ pc = "restore"
  /\ \E r \in todo :
       /\ \A q \in todo : r <= q
       /\ reg' = [reg EXCEPT ![r] = Word(mem, sp)]
       /\ sp' = sp + 2
       /\ mem' = Freed(mem, sp + 2)
       /\ todo' = todo \ {r}
  /\ UNCHANGED <<pc, frames>>

\* Variant: the stack pointer is taken to be back already.
DropFrameKeepsSp ==
  /\ pc = "restore"
  /\ todo = {}
  /\ pc' = IF FpNeeded[Fn] THEN "pop_fp" ELSE "ret"
  /\ UNCHANGED <<sp, reg, mem, todo, frames>>

\* ld sp,ix, whether or not IX is a frame pointer
DropFrame ==
  /\ pc = "restore"
  /\ todo = {}
  /\ sp' = reg[IX]
  /\ mem' = Freed(mem, reg[IX])
  /\ pc' = IF FpNeeded[Fn] THEN "pop_fp" ELSE "ret"
  /\ UNCHANGED <<reg, todo, frames>>

\* Variant: the word is dropped without being loaded into IX.
PopFpSkips ==
  /\ pc = "pop_fp"
  /\ sp' = sp + 2
  /\ mem' = Freed(mem, sp + 2)
  /\ pc' = "ret"
  /\ UNCHANGED <<reg, todo, frames>>

\* pop ix
PopFp ==
  /\ pc = "pop_fp"
  /\ reg' = [reg EXCEPT ![IX] = Word(mem, sp)]
  /\ sp' = sp + 2
  /\ mem' = Freed(mem, sp + 2)
  /\ pc' = "ret"
  /\ UNCHANGED <<todo, frames>>

\* Variant: main returns like any other function, to a body.
RetToBody ==
  /\ pc = "ret"
  /\ sp' = sp + 2
  /\ mem' = Freed(mem, sp + 2)
  /\ frames' = SubSeq(frames, 1, Depth - 1)
  /\ pc' = "body"
  /\ UNCHANGED <<reg, todo>>

\* ret: control goes to whatever word is on the stack
Ret ==
  /\ pc = "ret"
  /\ sp' = sp + 2
  /\ mem' = Freed(mem, sp + 2)
  /\ IF HoldsWord(mem, sp, Cur.ra)
       THEN /\ frames' = SubSeq(frames, 1, Depth - 1)
            /\ pc' = IF Depth = 1 THEN "exit" ELSE "body"
       ELSE /\ pc' = "lost"
            /\ UNCHANGED frames
  /\ UNCHANGED <<reg, todo>>

-----------------------------------------------------------------------------
\* main has returned, or control has left the model.
Halt == pc \in {"exit", "lost"} /\ UNCHANGED vars

Prologue == PushFp \/ SetFp \/ AllocFrame \/ SaveReg \/ EnterBody
Epilogue == LeaveBody \/ RestoreReg \/ DropFrame \/ PopFp \/ Ret

Next ==
  \/ Prologue
  \/ Epilogue
  \/ ReadChain
  \/ \E r \in Regs, v \in Vals : SetReg(r, v)
  \/ \E v \in Vals : StoreLocal(v)
  \/ \E mode \in Modes : \E lo, hi \in ArgVals : PushArg(mode, lo, hi)
  \/ PopArgs
  \/ \E n \in DynSizes : DynAlloc(n)
  \/ \E f \in Fns : Call(f)
  \/ Halt

Spec == Init /\ [][Next]_vars

-----------------------------------------------------------------------------
Pcs == {"push_fp", "set_fp", "alloc", "save", "chain", "body", "restore",
        "pop_fp", "ret", "exit", "lost"}

ActivationRec ==
  [fn : Fns, sp0 : Int, ra : Int, regs : [Regs -> Int], args : Seq(Int),
   out : Seq(Int), dyn : Nat, save : Int,
   loc : [Offsets -> Cell]]

(***************************************************************************)
(* Types: the stack pointer and the registers hold integers, memory holds  *)
(* cells over the whole segment, and while the program runs there is an    *)
(* activation (the state of the code expand_prologue/expand_epilogue emit).*)
(***************************************************************************)
TypeOK ==
  /\ pc \in Pcs
  /\ sp \in Int
  /\ reg \in [Regs -> Int]
  /\ mem \in [Addr -> Cell]
  /\ todo \subseteq Regs
  /\ frames \in Seq(ActivationRec)
  /\ pc # "exit" => frames # <<>>

(***************************************************************************)
(* A ret always finds the return address its own call pushed: pushes,      *)
(* pops and `ld sp,ix` of prologue, body, nested calls and epilogue        *)
(* (z80.c expand_prologue, expand_epilogue) balance, and neither a         *)
(* store to a local nor an interrupt overwrites the word.                  *)
(***************************************************************************)
ReturnIntegrity == pc # "lost"

(***************************************************************************)
(* While a function's body runs, parameter k read at FP + 4 + 2(k-1)       *)
(* (FIRST_PARM_OFFSET) is the word its caller pushed for it, also after    *)
(* the function has made calls of its own.                                 *)
(***************************************************************************)
ParamsArrive ==
  pc = "body" => \A k \in DOMAIN Cur.args :
                   HoldsWord(mem, ParamAddr(k), Cur.args[k])

(***************************************************************************)
(* A local keeps the byte last stored into it for as long as its function  *)
(* is active: no push, register save, deeper frame, alloca or interrupt    *)
(* lands in the size bytes AllocFrame set aside below the frame pointer.   *)
(***************************************************************************)
LocalsSurvive ==
  pc = "body" => \A k \in 0..(Size[Fn] - 1) :
                   Cur.loc[k] # Junk => mem[LocalAddr(k)] = Cur.loc[k]

(***************************************************************************)
(* When a call returns, the caller has its stack pointer back as it was    *)
(* just before the call (RETURN_POPS_ARGS 0: the arguments are still       *)
(* there) and its frame pointer IX.                                        *)
(***************************************************************************)
CallerRestored ==
  [][pc = "ret" /\ pc' \in {"body", "exit"} =>
       /\ sp' = Cur.sp0 + 2
       /\ FpNeeded[Fn] => reg'[IX] = Cur.regs[IX]]_vars

(***************************************************************************)
(* A register made call-saved with -fcall-saved-REG has the value it had   *)
(* at the call again when the call returns: expand_epilogue pops into each *)
(* register what expand_prologue pushed from it.                           *)
(***************************************************************************)
CallSavedKept ==
  [][pc = "ret" /\ pc' \in {"body", "exit"} =>
       \A r \in CallSaved : reg'[r] = Cur.regs[r]]_vars

(***************************************************************************)
(* A nested function finds in IY (STATIC_CHAIN_REGNUM) the static chain    *)
(* its caller put there, although the prologue ran in between.             *)
(***************************************************************************)
StaticChainArrives == pc = "chain" => reg[IY] = Cur.regs[IY]
=============================================================================
