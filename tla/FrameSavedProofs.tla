-------------------------- MODULE FrameSavedProofs --------------------------
(***************************************************************************)
(* Call-saved registers survive calls, in every program compiled with      *)
(* frame pointers in which no function saves more than one of them.        *)
(***************************************************************************)
EXTENDS FrameProofs

(***************************************************************************)
(* One activation.                                                         *)
(***************************************************************************)

\* The stack pointer never stands above the running activation.
LEMMA SpBelow ==
  ASSUME FrameInv, Running
  PROVE  sp \in Int /\ sp <= Cur.sp0 /\ Cur.sp0 \in Int
  <1>1. /\ Registers /\ Cur \in ActivationRec /\ Fn = Cur.fn /\ Fn \in Fns
        /\ sp \in Int /\ TypeOK
    BY Current
  <1>2. /\ Bp(Cur) = Cur.sp0 - 2 /\ Bp(Cur) \in Int /\ Cur.sp0 \in Int
        /\ LocalsLow(Cur) \in Int /\ LocalsLow(Cur) <= Bp(Cur)
        /\ FrameLow(Cur) \in Int /\ FrameLow(Cur) <= LocalsLow(Cur)
        /\ BodySp(Cur) \in Int /\ BodySp(Cur) <= FrameLow(Cur)
    BY <1>1, Layout
  <1>3. CASE pc \in {"push_fp", "set_fp", "alloc", "pop_fp", "ret"} \/ InBody
    BY <1>1, <1>2, <1>3 DEF Registers
  <1>4. CASE pc \in {"save", "restore"}
    <2>1. /\ todo \subseteq Saved(Fn)
          /\ \/ sp = FrameLow(Cur) + 2 * Cardinality(todo)
             \/ sp = LocalsLow(Cur) - 2 * Cardinality(todo)
      BY <1>1, <1>4 DEF Registers
    <2>2. /\ Cardinality(todo) \in Nat /\ Cardinality(todo) <= NSaved(Fn)
          /\ NSaved(Fn) \in Nat
      BY <1>1, <2>1, TodoSize, SavedFinite
    <2>3. FrameLow(Cur) = LocalsLow(Cur) - 2 * NSaved(Fn)
      BY <1>1 DEF FrameLow
    <2>4. sp <= LocalsLow(Cur)
      BY <1>2, <2>1, <2>2, <2>3
    <2> QED
      BY <1>1, <1>2, <2>4
  <1> QED
    BY <1>1, <1>2, <1>3, <1>4 DEF Running, InBody, TypeOK, Pcs

\* A saved word is in every memory that agrees from below it up.
LEMMA SavedKept ==
  ASSUME NEW fr \in ActivationRec, NEW m, NEW n, NEW lo \in Int,
         Agree(m, n, lo), lo <= FrameLow(fr), SavedAt(m, fr)
  PROVE  SavedAt(n, fr)
  <1>1. FrameLow(fr) \in Int
    BY Layout
  <1> QED
    BY <1>1, WordKept DEF SavedAt

\* A function that saves a register saves one word.
LEMMA OneWord ==
  ASSUME OneSaved, NEW f \in Fns, NEW r \in Saved(f)
  PROVE  /\ Saved(f) = {r} /\ NSaved(f) = 1
         /\ \A S : S \subseteq Saved(f) /\ S # {} => S = {r}
         /\ Cardinality({r}) = 1
  <1>1. Saved(f) = {r}
    BY DEF OneSaved
  <1>2. Cardinality({r}) = 1
    BY FS_Singleton
  <1> QED
    BY <1>1, <1>2 DEF NSaved

\* Call-saved registers are registers, and the frame and index registers
\* are not among them.
LEMMA CallSavedRegs ==
  ASSUME OneSaved
  PROVE  CallSaved \subseteq Regs /\ IX \notin CallSaved /\ IY \notin CallSaved
  <1>1. CallSaved \subseteq {HL, DE, BC, IY}
    BY FrameAssumption
  <1> QED
    BY <1>1 DEF OneSaved, Regs, HL, DE, BC, IY, IX

(***************************************************************************)
(* Steps inside one activation.                                            *)
(***************************************************************************)

\* The step keeps the identity of the running activation and its callers.
SameFrames ==
  /\ Depth' = Depth
  /\ \A i \in 1..(Depth - 1) : frames'[i] = frames[i]
  /\ Cur'.fn = Cur.fn /\ Cur'.sp0 = Cur.sp0 /\ Cur'.regs = Cur.regs

\* The changes that insns other than call and ret make to the history.
LEMMA Inside ==
  ASSUME FrameInv, Running,
         \/ frames' = frames
         \/ \E x : frames' = [frames EXCEPT ![Depth].out = x]
         \/ \E x : frames' = [frames EXCEPT ![Depth].dyn = x]
         \/ \E x : frames' = [frames EXCEPT ![Depth].save = x]
         \/ \E x : frames' = [frames EXCEPT ![Depth].loc = x]
  PROVE  SameFrames
  <1>1. Cur \in ActivationRec
    BY Current
  <1>2. ASSUME NEW fr, frames' = [frames EXCEPT ![Depth] = fr],
               fr.fn = Cur.fn, fr.sp0 = Cur.sp0, fr.regs = Cur.regs
        PROVE  SameFrames
    BY <1>2, CurReplaced DEF SameFrames
  <1>3. CASE frames' = frames
    BY <1>3 DEF SameFrames, Depth, Cur
  <1>4. ASSUME NEW x, frames' = [frames EXCEPT ![Depth].out = x]
        PROVE  SameFrames
    <2> DEFINE fr == [Cur EXCEPT !.out = x]
    <2>1. frames' = [frames EXCEPT ![Depth] = fr]
      BY <1>4 DEF Cur
    <2>2. fr.fn = Cur.fn /\ fr.sp0 = Cur.sp0 /\ fr.regs = Cur.regs
      BY <1>1 DEF ActivationRec
    <2> QED
      BY <1>2, <2>1, <2>2
  <1>5. ASSUME NEW x, frames' = [frames EXCEPT ![Depth].dyn = x]
        PROVE  SameFrames
    <2> DEFINE fr == [Cur EXCEPT !.dyn = x]
    <2>1. frames' = [frames EXCEPT ![Depth] = fr]
      BY <1>5 DEF Cur
    <2>2. fr.fn = Cur.fn /\ fr.sp0 = Cur.sp0 /\ fr.regs = Cur.regs
      BY <1>1 DEF ActivationRec
    <2> QED
      BY <1>2, <2>1, <2>2
  <1>6. ASSUME NEW x, frames' = [frames EXCEPT ![Depth].save = x]
        PROVE  SameFrames
    <2> DEFINE fr == [Cur EXCEPT !.save = x]
    <2>1. frames' = [frames EXCEPT ![Depth] = fr]
      BY <1>6 DEF Cur
    <2>2. fr.fn = Cur.fn /\ fr.sp0 = Cur.sp0 /\ fr.regs = Cur.regs
      BY <1>1 DEF ActivationRec
    <2> QED
      BY <1>2, <2>1, <2>2
  <1>7. ASSUME NEW x, frames' = [frames EXCEPT ![Depth].loc = x]
        PROVE  SameFrames
    <2> DEFINE fr == [Cur EXCEPT !.loc = x]
    <2>1. frames' = [frames EXCEPT ![Depth] = fr]
      BY <1>7 DEF Cur
    <2>2. fr.fn = Cur.fn /\ fr.sp0 = Cur.sp0 /\ fr.regs = Cur.regs
      BY <1>1 DEF ActivationRec
    <2> QED
      BY <1>2, <2>1, <2>2
  <1> QED
    BY <1>3, <1>4, <1>5, <1>6, <1>7

\* Callers' saved words lie above what the running activation changes.
LEMMA SuspendedKept ==
  ASSUME FrameInv, Running, SuspendedSaved,
         NEW m, NEW s \in Int, s <= Cur.sp0, Agree(mem, m, s)
  PROVE  \A i \in 1..(Depth - 1) : SavedAt(m, frames[i])
  <1> SUFFICES ASSUME NEW i \in 1..(Depth - 1)
               PROVE  SavedAt(m, frames[i])
    OBVIOUS
  <1>1. frames[i] \in ActivationRec
    <2>1. frames \in Seq(ActivationRec) /\ Depth = Len(frames)
      BY Current
    <2> QED
      BY <2>1
  <1>2. s <= BodySp(frames[i])
    BY CallersKept
  <1>3. s <= FrameLow(frames[i])
    BY <1>1, <1>2, Layout
  <1>4. SavedAt(mem, frames[i])
    BY DEF SuspendedSaved
  <1> QED
    BY <1>1, <1>3, <1>4, SavedKept

\* An insn of one activation need only be right about the registers it
\* changes and about the saved word of that activation.
LEMMA InsideStep ==
  ASSUME FrameInv, Running, SavedInv, SameFrames,
         NEW s \in Int, s <= Cur.sp0, Agree(mem, mem', s),
         \A r \in CallSaved :
           Holding(r)' => \/ Holding(r) /\ reg'[r] = reg[r]
                          \/ reg'[r] = Cur.regs[r],
         Stored' => \/ Stored /\ s <= FrameLow(Cur)
                    \/ SavedAt(mem', Cur)
  PROVE  SavedInv'
  <1>1. /\ SuspendedSaved
        /\ \A r \in CallSaved : Holding(r) => reg[r] = Cur.regs[r]
        /\ Stored => SavedAt(mem, Cur)
    BY DEF SavedInv
  <1>2. /\ Cur = frames[Depth] /\ Depth \in Nat \ {0} /\ Cur \in ActivationRec
    BY Current
  <1>3. SuspendedSaved'
    <2> SUFFICES ASSUME NEW i \in 1..(Depth - 1)
                 PROVE  /\ SavedAt(mem', frames'[i])
                        /\ \A r \in CallSaved \ Saved(frames'[i].fn) :
                             frames'[i + 1].regs[r] = frames'[i].regs[r]
      BY DEF SuspendedSaved, SameFrames
    <2>1. frames'[i] = frames[i] /\ frames'[i + 1].regs = frames[i + 1].regs
      <3>1. CASE i + 1 = Depth
        BY <1>2, <3>1 DEF SameFrames, Cur
      <3>2. CASE i + 1 # Depth
        BY <1>2, <3>2 DEF SameFrames
      <3> QED
        BY <3>1, <3>2 DEF SameFrames
    <2>2. SavedAt(mem', frames[i])
      BY <1>1, SuspendedKept
    <2> QED
      BY <1>1, <2>1, <2>2 DEF SuspendedSaved
  <1>4. \A r \in CallSaved : Holding(r)' => reg'[r] = Cur'.regs[r]
    BY <1>1 DEF SameFrames
  <1>5. Stored' => SavedAt(mem', Cur')
    <2>1. Stored' => SavedAt(mem', Cur)
      BY <1>1, <1>2, SavedKept
    <2>2. FrameLow(Cur') = FrameLow(Cur)
      BY DEF SameFrames, FrameLow, LocalsLow, Bp
    <2> QED
      BY <2>1, <2>2 DEF SavedAt, SameFrames
  <1> QED
    BY <1>3, <1>4, <1>5 DEF SavedInv

\* What Holding and Stored say while a step stays in one activation.
LEMMA Points ==
  ASSUME SameFrames
  PROVE  /\ Fn' = Fn
         /\ \A r : Holding(r)' <=>
              \/ r \notin Saved(Fn)
              \/ pc' \in {"push_fp", "set_fp", "alloc", "pop_fp", "ret"}
              \/ pc' = "save" /\ r \in todo'
              \/ pc' = "restore" /\ r \notin todo'
         /\ Stored' <=> \/ pc' \in {"chain", "body"}
                        \/ pc' = "save" /\ todo' = {}
                        \/ pc' = "restore" /\ todo' # {}
  BY DEF SameFrames, Fn, Holding, Stored, InBody

\* push ix, ld ix,0 ; add ix,sp
LEMMA FpSaved ==
  ASSUME FrameInv, FrameInv', FramePointers, OneSaved, SavedInv,
         PushFp \/ SetFp
  PROVE  SavedInv'
  <1>1. /\ Running /\ frames' = frames /\ pc \in {"push_fp", "set_fp"}
        /\ pc' \in {"set_fp", "alloc"} /\ SameFrames
    <2>1. /\ Running /\ frames' = frames /\ pc \in {"push_fp", "set_fp"}
          /\ pc' \in {"set_fp", "alloc"}
      BY DEF PushFp, SetFp, Running
    <2> QED
      BY <2>1, Inside
  <1>2. /\ sp \in Int /\ sp <= Cur.sp0 /\ mem \in [Addr -> Cell]
        /\ reg \in [Regs -> Int] /\ Cur.sp0 \in Int
    BY <1>1, SpBelow, Current
  <1>3. Agree(mem, mem', sp)
    <2>1. CASE mem' = mem
      BY <2>1 DEF Agree
    <2>2. CASE mem' = PutWord(mem, sp - 2, reg[IX])
      <3>1. sp - 2 \in Int /\ (sp - 2) + 2 = sp /\ reg[IX] \in Int
        BY <1>2, RegNumbers
      <3> QED
        BY <1>2, <2>2, <3>1, PutWordEffect
    <2> QED
      BY <2>1, <2>2 DEF PushFp, SetFp
  <1>4. \A r \in CallSaved : reg'[r] = reg[r] /\ Holding(r)
    <2>1. \A r \in CallSaved : r \in Regs /\ r # IX
      BY CallSavedRegs
    <2> QED
      BY <1>1, <1>2, <2>1 DEF PushFp, SetFp, Holding
  <1>5. ~Stored'
    BY <1>1, Points
  <1> QED
    BY <1>1, <1>2, <1>3, <1>4, <1>5, InsideStep

\* ld iy,-size ; add iy,sp ; ld sp,iy
LEMMA AllocSaved ==
  ASSUME FrameInv, FrameInv', OneSaved, SavedInv, AllocFrame
  PROVE  SavedInv'
  <1>1. /\ Running /\ frames' = frames /\ pc = "alloc" /\ mem' = mem
        /\ pc' = "save" /\ todo' = Saved(Fn)
    BY DEF AllocFrame, Running
  <1>2. SameFrames
    BY <1>1, Inside
  <1>3. /\ sp \in Int /\ sp <= Cur.sp0 /\ reg \in [Regs -> Int] /\ Fn = Cur.fn
    BY <1>1, SpBelow, Current
  <1>4. Agree(mem, mem', sp)
    BY <1>1 DEF Agree
  <1>5. \A r \in CallSaved : reg'[r] = reg[r] /\ Holding(r)
    <2>1. \A r \in CallSaved : r \in Regs /\ r # IY
      BY CallSavedRegs
    <2> QED
      BY <1>1, <1>3, <2>1 DEF AllocFrame, Holding
  <1>6. Stored' => SavedAt(mem', Cur)
    BY <1>1, <1>2, <1>3, Points DEF SavedAt
  <1> QED
    BY <1>2, <1>1, <1>3, <1>4, <1>5, <1>6, InsideStep

\* push of the call-saved register: the word ends up just below the locals
LEMMA SaveSaved ==
  ASSUME FrameInv, FrameInv', OneSaved, SavedInv, SaveReg
  PROVE  SavedInv'
  <1>1. /\ Running /\ frames' = frames /\ pc = "save" /\ pc' = "save"
        /\ reg' = reg /\ sp - 2 >= Bottom
    BY DEF SaveReg, Running, Room
  <1>2. PICK r \in todo : /\ mem' = PutWord(mem, sp - 2, reg[r])
                         /\ todo' = todo \ {r}
    BY DEF SaveReg
  <1>3. SameFrames
    BY <1>1, Inside
  <1>a. /\ sp \in Int /\ sp <= Cur.sp0 /\ mem \in [Addr -> Cell]
        /\ reg \in [Regs -> Int] /\ Cur \in ActivationRec /\ Fn \in Fns
        /\ Fn = Cur.fn /\ Registers /\ Memory
    BY <1>1, SpBelow, Current
  <1>4. /\ todo \subseteq Saved(Fn) /\ r \in Saved(Fn) /\ r \in CallSaved
        /\ sp = FrameLow(Cur) + 2 * Cardinality(todo)
    BY <1>1, <1>2, <1>a DEF Registers, Saved
  <1>5. /\ Saved(Fn) = {r} /\ todo = {r} /\ Cardinality(todo) = 1
    <2>1. todo # {}
      BY <1>2
    <2> QED
      BY <1>a, <1>4, <2>1, OneWord
  <1>6. sp - 2 = FrameLow(Cur) /\ FrameLow(Cur) \in Int
    BY <1>a, <1>4, <1>5, Layout
  <1>7. reg[r] = Cur.regs[r] /\ reg[r] \in Int
    <2>1. Holding(r) /\ r \in Regs
      BY <1>1, <1>2, <1>4, CallSavedRegs DEF Holding
    <2> QED
      BY <1>1, <1>4, <1>a, <2>1 DEF SavedInv
  <1>8. Agree(mem, mem', sp) /\ HoldsWord(mem', sp - 2, reg[r])
    <2>1. Cur.sp0 \in Addr
      BY <1>a DEF Memory, RaAt, HoldsWord
    <2> QED
      BY <1>1, <1>2, <1>a, <1>7, <2>1, PushEffect
  <1>9. SavedAt(mem', Cur)
    BY <1>5, <1>6, <1>7, <1>8, <1>a DEF SavedAt
  <1>10. \A q \in CallSaved : Holding(q)' => Holding(q) /\ reg'[q] = reg[q]
    BY <1>1, <1>2, <1>3, <1>5, Points DEF Holding
  <1> QED
    BY <1>1, <1>3, <1>a, <1>8, <1>9, <1>10, InsideStep

\* The steps that touch neither memory nor a call-saved register.
LEMMA QuietSaved ==
  ASSUME FrameInv, FrameInv', OneSaved, SavedInv, EnterBody \/ ReadChain
  PROVE  SavedInv'
  <1>1. /\ Running /\ mem' = mem /\ reg' = reg
        /\ InBody \/ (pc = "save" /\ todo = {})
        /\ pc' \in {"chain", "body"}
        /\ \/ frames' = frames
           \/ frames' = [frames EXCEPT ![Depth].save = sp]
    BY DEF EnterBody, ReadChain, Running, InBody
  <1>2. SameFrames
    BY <1>1, Inside
  <1> DEFINE s == BodySp(Cur)
  <1>3. /\ s \in Int /\ s <= Cur.sp0 /\ s <= FrameLow(Cur)
        /\ Cur \in ActivationRec
    <2>1. Cur \in ActivationRec
      BY <1>1, Current
    <2>2. /\ BodySp(Cur) <= FrameLow(Cur) /\ FrameLow(Cur) <= LocalsLow(Cur)
          /\ LocalsLow(Cur) <= Bp(Cur) /\ Bp(Cur) = Cur.sp0 - 2
          /\ BodySp(Cur) \in Int /\ FrameLow(Cur) \in Int
          /\ LocalsLow(Cur) \in Int /\ Bp(Cur) \in Int /\ Cur.sp0 \in Int
      BY <2>1, Layout
    <2> QED
      BY <2>1, <2>2
  <1>4. Agree(mem, mem', s)
    BY <1>1 DEF Agree
  <1>5. Stored
    BY <1>1 DEF Stored
  <1>6. \A q \in CallSaved : Holding(q)' => Holding(q) /\ reg'[q] = reg[q]
    BY <1>1, <1>2, Points DEF Holding, InBody
  <1> HIDE DEF s
  <1> QED
    BY <1>1, <1>2, <1>3, <1>4, <1>5, <1>6, InsideStep

\* Where the body stands, and the bounds of its frame.
LEMMA BodyBounds ==
  ASSUME FrameInv, pc = "body"
  PROVE  /\ Running /\ Stored /\ sp = BodySp(Cur)
         /\ sp \in Int /\ sp <= FrameLow(Cur) /\ FrameLow(Cur) \in Int
         /\ FrameLow(Cur) <= LocalsLow(Cur) /\ LocalsLow(Cur) \in Int
         /\ LocalsLow(Cur) <= Bp(Cur) /\ Bp(Cur) \in Int
         /\ Bp(Cur) = Cur.sp0 - 2 /\ FrameLow(Cur) <= Cur.sp0
         /\ Cur.sp0 \in Int
         /\ reg \in [Regs -> Int] /\ mem \in [Addr -> Cell]
         /\ Cur \in ActivationRec /\ Fn = Cur.fn /\ Fn \in Fns
  <1>1. Running /\ InBody /\ Stored
    BY DEF Running, InBody, Stored
  <1>2. /\ Registers /\ sp \in Int /\ reg \in [Regs -> Int]
        /\ mem \in [Addr -> Cell]
        /\ Cur \in ActivationRec /\ Fn = Cur.fn /\ Fn \in Fns
    BY <1>1, Current
  <1>3. sp = BodySp(Cur)
    BY <1>1, <1>2 DEF Registers
  <1>4. /\ BodySp(Cur) <= FrameLow(Cur) /\ FrameLow(Cur) <= LocalsLow(Cur)
        /\ LocalsLow(Cur) <= Bp(Cur) /\ Bp(Cur) = Cur.sp0 - 2
        /\ FrameLow(Cur) \in Int /\ LocalsLow(Cur) \in Int
        /\ Bp(Cur) \in Int /\ Cur.sp0 \in Int
    BY <1>2, Layout
  <1>5. FrameLow(Cur) <= Cur.sp0
    BY <1>4
  <1> QED
    BY <1>1, <1>2, <1>3, <1>4, <1>5

\* The same one step later.
LEMMA BodyBoundsNext ==
  FrameInv' /\ pc' = "body" => sp' \in Int /\ sp' <= FrameLow(Cur')
  <1>1. (FrameInv /\ pc = "body" => sp \in Int /\ sp <= FrameLow(Cur))'
    BY BodyBounds, PTL
  <1> QED
    BY <1>1

\* An insn of the body that leaves memory from the saved word up alone.
LEMMA BodyStep ==
  ASSUME FrameInv, SavedInv, SameFrames, pc = "body", pc' = "body",
         NEW s \in Int, s <= FrameLow(Cur), Agree(mem, mem', s),
         \A r \in CallSaved \ Saved(Fn) : reg'[r] = reg[r]
  PROVE  SavedInv'
  <1>1. /\ Running /\ Stored /\ FrameLow(Cur) <= Cur.sp0
        /\ FrameLow(Cur) \in Int /\ Cur.sp0 \in Int
    BY BodyBounds
  <1>2. s <= Cur.sp0
    BY <1>1
  <1>3. \A r \in CallSaved : Holding(r)' => Holding(r) /\ reg'[r] = reg[r]
    BY Points DEF Holding
  <1> QED
    BY <1>1, <1>2, <1>3, InsideStep

\* A computation into a register of the function's own.
LEMMA SetSaved ==
  ASSUME FrameInv, FrameInv', OneSaved, SavedInv,
         NEW r \in Regs, NEW v \in Vals, SetReg(r, v)
  PROVE  SavedInv'
  <1>1. /\ pc = "body" /\ pc' = "body" /\ frames' = frames /\ mem' = mem
        /\ reg' = [reg EXCEPT ![r] = v] /\ r \in Live[Fn]
    BY DEF SetReg
  <1>2. /\ Running /\ sp \in Int /\ sp <= FrameLow(Cur)
        /\ reg \in [Regs -> Int]
    BY <1>1, BodyBounds
  <1>3. SameFrames
    BY <1>1, <1>2, Inside
  <1>4. Agree(mem, mem', sp)
    BY <1>1 DEF Agree
  <1>5. \A q \in CallSaved \ Saved(Fn) : reg'[q] = reg[q]
    <2>1. \A q \in CallSaved \ Saved(Fn) : q # r /\ q \in Regs
      BY <1>1, CallSavedRegs DEF Saved
    <2> QED
      BY <1>1, <1>2, <2>1
  <1> QED
    BY <1>1, <1>2, <1>3, <1>4, <1>5, BodyStep

\* push of an argument
LEMMA PushSaved ==
  ASSUME FrameInv, FrameInv', OneSaved, SavedInv, NEW mode \in Modes,
         NEW x \in ArgVals, NEW y \in ArgVals, PushArg(mode, x, y)
  PROVE  SavedInv'
  <1>1. /\ pc = "body" /\ pc' = "body" /\ reg' = reg
        /\ \/ /\ mem' = PutWord(mem, sp - 2, x)
              /\ frames' = [frames EXCEPT ![Depth].out = <<x>> \o @]
           \/ /\ mem' = PutWord(PutWord(mem, sp - 2, x), sp - 4, y)
              /\ frames' = [frames EXCEPT ![Depth].out = <<x, y>> \o @]
    BY DEF PushArg
  <1>2. /\ Running /\ sp \in Int /\ sp <= FrameLow(Cur)
        /\ mem \in [Addr -> Cell]
    BY <1>1, BodyBounds
  <1>3. SameFrames
    BY <1>1, <1>2, Inside
  <1>4. x \in Int /\ y \in Int
    BY FrameAssumption
  <1>5. Agree(mem, mem', sp)
    <2> DEFINE m == PutWord(mem, sp - 2, x)
    <2>1. /\ sp - 2 \in Int /\ (sp - 2) + 2 = sp
          /\ sp - 4 \in Int /\ (sp - 4) + 2 = sp - 2 /\ sp - 2 <= sp
      BY <1>2
    <2>2. m \in [Addr -> Cell] /\ Agree(mem, m, sp)
      <3>1. m \in [Addr -> Cell]
        BY <1>2, <1>4, <2>1, PutWordType
      <3>2. Agree(mem, m, (sp - 2) + 2)
        BY <1>2, <1>4, <2>1, PutWordEffect
      <3> QED
        BY <2>1, <3>1, <3>2
    <2>3. CASE mem' = m
      BY <2>2, <2>3
    <2> HIDE DEF m
    <2>4. CASE mem' = PutWord(m, sp - 4, y)
      <3>1. Agree(m, mem', (sp - 4) + 2)
        BY <1>4, <2>1, <2>2, <2>4, PutWordEffect
      <3>2. Agree(m, mem', sp)
        BY <1>2, <2>1, <3>1, AgreeUp
      <3> QED
        BY <2>2, <3>2 DEF Agree
    <2> QED
      BY <1>1, <2>3, <2>4 DEF m
  <1> QED
    BY <1>1, <1>2, <1>3, <1>5, BodyStep

\* Arguments popped, and alloca: both go through IY.
LEMMA AdjustSaved ==
  ASSUME FrameInv, FrameInv', OneSaved, SavedInv,
         PopArgs \/ \E n \in DynSizes : DynAlloc(n)
  PROVE  SavedInv'
  <1>1. /\ pc = "body" /\ pc' = "body"
        /\ \E v : reg' = [reg EXCEPT ![IY] = v]
        /\ mem' = mem \/ mem' = Freed(mem, sp')
        /\ \/ \E x : frames' = [frames EXCEPT ![Depth].out = x]
           \/ \E x : frames' = [frames EXCEPT ![Depth].dyn = x]
    BY DEF PopArgs, DynAlloc
  <1>2. /\ Running /\ reg \in [Regs -> Int] /\ mem \in [Addr -> Cell]
        /\ FrameLow(Cur) \in Int
    BY <1>1, BodyBounds
  <1>3. SameFrames
    BY <1>1, <1>2, Inside
  <1>4. sp' \in Int /\ sp' <= FrameLow(Cur)
    <2>1. sp' \in Int /\ sp' <= FrameLow(Cur')
      BY <1>1, BodyBoundsNext
    <2>2. FrameLow(Cur') = FrameLow(Cur)
      BY <1>3 DEF SameFrames, FrameLow, LocalsLow, Bp
    <2> QED
      BY <2>1, <2>2
  <1>5. Agree(mem, mem', sp')
    BY <1>1, <1>2, <1>4, FreedEffect DEF Agree
  <1>6. \A q \in CallSaved \ Saved(Fn) : reg'[q] = reg[q]
    <2>1. \A q \in CallSaved : q \in Regs /\ q # IY
      BY CallSavedRegs
    <2> QED
      BY <1>1, <1>2, <2>1
  <1> QED
    BY <1>1, <1>3, <1>4, <1>5, <1>6, BodyStep

\* A byte stored into a local: above the saved word, below the callers.
LEMMA LocalSaved ==
  ASSUME FrameInv, FrameInv', FramePointers, OneSaved, SavedInv,
         NEW v \in Vals, StoreLocal(v)
  PROVE  SavedInv'
  <1> DEFINE cell == [val |-> v, part |-> "byte"]
  <1>1. pc = "body" /\ pc' = "body" /\ reg' = reg
    BY DEF StoreLocal
  <1>2. PICK k \in 0..(Size[Fn] - 1) :
          /\ mem' = [mem EXCEPT ![LocalAddr(k)] = cell]
          /\ \E x : frames' = [frames EXCEPT ![Depth].loc = x]
    <2>1. PICK k \in 0..(Size[Fn] - 1) :
            /\ mem' = [mem EXCEPT ![LocalAddr(k)] = cell]
            /\ frames' = [frames EXCEPT ![Depth].loc = [@ EXCEPT ![k] = cell]]
      BY DEF StoreLocal
    <2>2. frames' = [frames EXCEPT ![Depth].loc =
                       [frames[Depth].loc EXCEPT ![k] = cell]]
      BY <2>1
    <2> QED
      BY <2>1, <2>2
  <1> HIDE DEF cell
  <1>3. /\ Running /\ Stored /\ FrameLow(Cur) \in Int
        /\ FrameLow(Cur) <= LocalsLow(Cur) /\ LocalsLow(Cur) \in Int
        /\ Bp(Cur) \in Int /\ Bp(Cur) = Cur.sp0 - 2 /\ Cur.sp0 \in Int
        /\ mem \in [Addr -> Cell] /\ Cur \in ActivationRec
        /\ Fn = Cur.fn /\ Fn \in Fns
    BY <1>1, BodyBounds
  <1>4. SameFrames
    BY <1>2, <1>3, Inside
  <1>5. /\ LocalAddr(k) = LocalsLow(Cur) + k /\ k \in Nat
        /\ Size[Fn] \in Nat /\ LocalsLow(Cur) = Bp(Cur) - Size[Fn]
    <2>1. FpNeeded[Fn] /\ reg[IX] = Bp(Cur)
      BY <1>1, BodyFacts
    <2>2. Size[Fn] \in Nat /\ LocalsLow(Cur) = Bp(Cur) - Size[Fn]
      BY <1>3, Layout DEF LocalsLow
    <2> QED
      BY <1>3, <2>1, <2>2 DEF LocalAddr, FrameBase, StartingFrameOffset
  <1>6. Agree(mem, mem', Cur.sp0)
    <2> SUFFICES ASSUME NEW x \in Addr, x >= Cur.sp0
                 PROVE  mem'[x] = mem[x]
      BY DEF Agree
    <2>1. x \in Int
      BY FrameAssumption DEF Addr
    <2>2. x # LocalAddr(k)
      BY <1>3, <1>5, <2>1
    <2> QED
      BY <1>2, <1>3, <2>2
  <1>7. SavedAt(mem', Cur)
    <2> SUFFICES ASSUME NEW r \in Saved(Fn)
                 PROVE  HoldsWord(mem', FrameLow(Cur), Cur.regs[r])
      BY <1>3 DEF SavedAt
    <2>1. HoldsWord(mem, FrameLow(Cur), Cur.regs[r])
      BY <1>3 DEF SavedInv, SavedAt
    <2>2. FrameLow(Cur) = LocalsLow(Cur) - 2
      <3>1. NSaved(Fn) = 1
        BY <1>3, OneWord
      <3>2. FrameLow(Cur) = LocalsLow(Cur) - 2 * 1
        BY <1>3, <3>1 DEF FrameLow
      <3> QED
        BY <1>3, <3>2
    <2>3. FrameLow(Cur) # LocalAddr(k) /\ FrameLow(Cur) + 1 # LocalAddr(k)
      BY <1>3, <1>5, <2>2
    <2> QED
      BY <1>2, <1>3, <2>1, <2>3 DEF HoldsWord
  <1>8. \A q \in CallSaved : Holding(q)' => Holding(q) /\ reg'[q] = reg[q]
    BY <1>1, <1>4, Points DEF Holding
  <1>9. Cur.sp0 <= Cur.sp0
    BY <1>3
  <1> QED
    BY <1>3, <1>4, <1>6, <1>7, <1>8, <1>9, InsideStep

(***************************************************************************)
(* The epilogue, calls and returns.                                        *)
(***************************************************************************)

\* The body ends: the stack pointer is back at the saved word.
LEMMA LeaveSaved ==
  ASSUME FrameInv, FrameInv', OneSaved, SavedInv, LeaveBody
  PROVE  SavedInv'
  <1>1. /\ pc = "body" /\ pc' = "restore" /\ mem' = Freed(mem, sp')
        /\ reg' = reg /\ todo' = Saved(Fn)
        /\ frames' = [frames EXCEPT ![Depth].dyn = 0]
    BY DEF LeaveBody
  <1>2. /\ Running /\ Stored /\ FrameLow(Cur) \in Int /\ Fn = Cur.fn
        /\ FrameLow(Cur) <= Cur.sp0 /\ mem \in [Addr -> Cell]
    BY <1>1, BodyBounds
  <1>3. SameFrames
    BY <1>1, <1>2, Inside
  <1>4. sp' = FrameLow(Cur)
    <2>1. sp' = LocalsLow(Cur') - 2 * Cardinality(todo')
      BY <1>1 DEF FrameInv, Running, Registers
    <2>2. LocalsLow(Cur') = LocalsLow(Cur)
      BY <1>3 DEF SameFrames, LocalsLow, Bp
    <2> QED
      BY <1>1, <1>2, <2>1, <2>2 DEF FrameLow, NSaved
  <1>5. Agree(mem, mem', FrameLow(Cur))
    BY <1>1, <1>2, <1>4, FreedEffect
  <1>6. \A q \in CallSaved : Holding(q)' => Holding(q) /\ reg'[q] = reg[q]
    BY <1>1, <1>3, Points DEF Holding
  <1>7. FrameLow(Cur) <= FrameLow(Cur)
    BY <1>2
  <1> QED
    BY <1>2, <1>3, <1>5, <1>6, <1>7, InsideStep

\* pop of the call-saved register: the word prologue pushed
LEMMA RestoreSaved ==
  ASSUME FrameInv, FrameInv', OneSaved, SavedInv, RestoreReg
  PROVE  SavedInv'
  <1>1. pc = "restore" /\ pc' = "restore" /\ frames' = frames /\ Running
    BY DEF RestoreReg, Running
  <1>2. PICK r \in todo : /\ reg' = [reg EXCEPT ![r] = Word(mem, sp)]
                         /\ mem' = Freed(mem, sp + 2)
                         /\ todo' = todo \ {r}
    BY DEF RestoreReg
  <1>3. SameFrames
    BY <1>1, Inside
  <1>4. /\ sp \in Int /\ reg \in [Regs -> Int] /\ Registers
        /\ mem \in [Addr -> Cell]
        /\ Cur \in ActivationRec /\ Fn \in Fns /\ Fn = Cur.fn
    BY <1>1, Current
  <1>5. /\ todo \subseteq Saved(Fn) /\ r \in Saved(Fn)
        /\ sp = LocalsLow(Cur) - 2 * Cardinality(todo)
    BY <1>1, <1>2, <1>4 DEF Registers
  <1>6. /\ Saved(Fn) = {r} /\ todo = {r} /\ Cardinality(todo) = 1
        /\ NSaved(Fn) = 1
    <2>1. todo # {}
      BY <1>2
    <2> QED
      BY <1>4, <1>5, <2>1, OneWord
  <1>7. sp = FrameLow(Cur)
    BY <1>4, <1>5, <1>6 DEF FrameLow
  <1>8. Word(mem, sp) = Cur.regs[r]
    <2>1. SavedAt(mem, Cur)
      BY <1>1, <1>6 DEF SavedInv, Stored
    <2>2. HoldsWord(mem, sp, Cur.regs[r])
      BY <1>4, <1>5, <1>7, <2>1 DEF SavedAt
    <2> QED
      BY <2>2, WordRead
  <1>9. \A q \in CallSaved :
          Holding(q)' => \/ Holding(q) /\ reg'[q] = reg[q]
                         \/ reg'[q] = Cur.regs[q]
    <2> SUFFICES ASSUME NEW q \in CallSaved
                 PROVE  \/ Holding(q) /\ reg'[q] = reg[q]
                        \/ reg'[q] = Cur.regs[q]
      OBVIOUS
    <2>1. q \in Regs
      BY CallSavedRegs
    <2>2. CASE q = r
      BY <1>2, <1>4, <1>8, <2>1, <2>2
    <2>3. CASE q # r
      BY <1>2, <1>4, <1>6, <2>1, <2>3 DEF Holding
    <2> QED
      BY <2>2, <2>3
  <1>10. ~Stored'
    BY <1>1, <1>2, <1>3, <1>6, Points
  <1>11. sp + 2 \in Int /\ sp + 2 <= Cur.sp0
    <2>1. /\ LocalsLow(Cur) \in Int /\ LocalsLow(Cur) <= Bp(Cur)
          /\ Bp(Cur) \in Int /\ Bp(Cur) = Cur.sp0 - 2 /\ Cur.sp0 \in Int
      BY <1>4, Layout
    <2>2. sp = LocalsLow(Cur) - 2 * 1
      BY <1>5, <1>6
    <2> QED
      BY <2>1, <2>2
  <1>12. Agree(mem, mem', sp + 2)
    BY <1>2, <1>4, <1>11, FreedEffect
  <1> QED
    BY <1>1, <1>3, <1>9, <1>10, <1>11, <1>12, InsideStep

\* ld sp,ix and pop ix
LEMMA DropSaved ==
  ASSUME FrameInv, FrameInv', OneSaved, SavedInv, DropFrame \/ PopFp
  PROVE  SavedInv'
  <1>1. /\ Running /\ frames' = frames /\ pc' \in {"pop_fp", "ret"}
        /\ \/ pc = "restore" /\ todo = {}
           \/ pc = "pop_fp"
        /\ mem' = Freed(mem, sp')
        /\ \/ reg' = reg
           \/ \E w : reg' = [reg EXCEPT ![IX] = w]
    BY DEF DropFrame, PopFp, Running
  <1>2. SameFrames
    BY <1>1, Inside
  <1>3. /\ mem \in [Addr -> Cell] /\ reg \in [Regs -> Int]
        /\ Cur \in ActivationRec
    BY <1>1, Current
  <1>4. sp' \in Int /\ sp' <= Cur.sp0
    <2>1. Cur' = Cur
      BY <1>1 DEF Cur, Depth
    <2>2. sp' = Bp(Cur) \/ sp' = Cur.sp0
      BY <1>1, <2>1 DEF FrameInv, Running, Registers
    <2>3. Bp(Cur) = Cur.sp0 - 2 /\ Cur.sp0 \in Int
      BY <1>3, Layout
    <2> QED
      BY <2>2, <2>3
  <1>5. Agree(mem, mem', sp')
    BY <1>1, <1>3, <1>4, FreedEffect
  <1>6. \A q \in CallSaved : Holding(q) /\ reg'[q] = reg[q]
    <2>1. \A q \in CallSaved : q \in Regs /\ q # IX
      BY CallSavedRegs
    <2> QED
      BY <1>1, <1>3, <2>1 DEF Holding
  <1>7. ~Stored'
    BY <1>1, <1>2, Points
  <1> QED
    BY <1>1, <1>2, <1>4, <1>5, <1>6, <1>7, InsideStep

\* call: the caller's saved word stays, and the registers it never touches
\* are handed on as they were handed to it.
LEMMA CallSavedStep ==
  ASSUME FrameInv, FrameInv', OneSaved, SavedInv, NEW f \in Fns, Call(f)
  PROVE  SavedInv'
  <1>1. pc = "body" /\ pc' = "push_fp"
    BY DEF Call
  <1>2. /\ Running /\ Stored /\ sp \in Int /\ sp <= FrameLow(Cur)
        /\ FrameLow(Cur) \in Int /\ FrameLow(Cur) <= Cur.sp0
        /\ Cur.sp0 \in Int
        /\ reg \in [Regs -> Int] /\ mem \in [Addr -> Cell]
        /\ Cur \in ActivationRec /\ Fn = Cur.fn /\ Fn \in Fns
    BY <1>1, BodyBounds
  <1>3. /\ SuspendedSaved /\ SavedAt(mem, Cur)
        /\ \A r \in CallSaved : Holding(r) => reg[r] = Cur.regs[r]
    BY <1>2 DEF SavedInv
  <1>4. /\ frames \in Seq(ActivationRec) /\ Depth = Len(frames)
        /\ Depth \in Nat \ {0} /\ Cur = frames[Depth]
    BY <1>2, Current
  <1> DEFINE act(ra) == Activation(f, sp - 2, ra, reg',
                                   SubSeq(Cur.out, 1, NParams[f]))
  <1>5. PICK ra \in Sites[Fn] : /\ frames' = Append(frames, act(ra))
                               /\ mem' = PutWord(mem, sp - 2, ra)
    BY DEF Call
  <1> DEFINE fr == act(ra)
  <1>6. fr.regs = reg' /\ frames' = Append(frames, fr)
    BY <1>5 DEF Activation
  <1> HIDE DEF fr, act
  <1>7. /\ Depth' = Depth + 1 /\ Cur' = fr /\ frames'[Depth + 1] = fr
        /\ \A i \in 1..Depth : frames'[i] = frames[i]
    <2>1. /\ Len(frames') = Depth + 1 /\ frames'[Depth + 1] = fr
          /\ \A i \in 1..Depth : frames'[i] = frames[i]
      BY <1>4, <1>6
    <2>2. Depth' = Depth + 1
      BY <2>1 DEF Depth
    <2> QED
      BY <2>1, <2>2 DEF Cur
  <1>8. \A r \in CallSaved : reg'[r] = reg[r]
    <2>1. reg' = [reg EXCEPT ![IY] = IF f \in Nested THEN reg[IX] ELSE @]
      BY DEF Call
    <2>2. \A r \in CallSaved : r \in Regs /\ r # IY
      BY CallSavedRegs
    <2> QED
      BY <1>2, <2>1, <2>2
  <1>9. Agree(mem, mem', sp) /\ sp <= Cur.sp0
    <2>1. ra \in Int
      BY <1>2, FrameAssumption
    <2>2. sp - 2 \in Int /\ (sp - 2) + 2 = sp /\ sp <= Cur.sp0
      BY <1>2
    <2> QED
      BY <1>2, <1>5, <2>1, <2>2, PutWordEffect
  <1>10. SuspendedSaved'
    <2> SUFFICES ASSUME NEW i \in 1..Depth
                 PROVE  /\ SavedAt(mem', frames'[i])
                        /\ \A r \in CallSaved \ Saved(frames'[i].fn) :
                             frames'[i + 1].regs[r] = frames'[i].regs[r]
      BY <1>4, <1>7 DEF SuspendedSaved
    <2>1. CASE i = Depth
      <3>1. frames'[i] = Cur /\ frames'[i + 1] = fr
        BY <1>4, <1>7, <2>1
      <3>2. SavedAt(mem', Cur)
        BY <1>2, <1>3, <1>9, SavedKept
      <3>3. \A r \in CallSaved \ Saved(Cur.fn) : reg'[r] = Cur.regs[r]
        BY <1>2, <1>3, <1>8 DEF Holding
      <3> QED
        BY <1>6, <3>1, <3>2, <3>3
    <2>2. CASE i # Depth
      <3>1. i \in 1..(Depth - 1) /\ i + 1 \in 1..Depth
        BY <1>4, <2>2
      <3>2. frames'[i] = frames[i] /\ frames'[i + 1] = frames[i + 1]
        BY <1>7, <3>1
      <3>3. SavedAt(mem', frames[i])
        BY <1>2, <1>3, <1>9, <3>1, SuspendedKept
      <3> QED
        BY <1>3, <3>1, <3>2, <3>3 DEF SuspendedSaved
    <2> QED
      BY <2>1, <2>2
  <1>11. ~Stored'
    BY <1>1 DEF Stored, InBody
  <1> QED
    BY <1>6, <1>7, <1>10, <1>11 DEF SavedInv

\* A register that is given back has its value at the call.
LEMMA RetHolds ==
  ASSUME FrameInv, SavedInv, Ret
  PROVE  \A r \in CallSaved : reg'[r] = Cur.regs[r]
  <1>1. pc = "ret" /\ reg' = reg /\ Running
    BY DEF Ret, Running
  <1> QED
    BY <1>1 DEF SavedInv, Holding

\* ret
LEMMA RetSaved ==
  ASSUME FrameInv, FrameInv', SavedInv, Ret
  PROVE  SavedInv'
  <1>1. /\ Running /\ frames' = SubSeq(frames, 1, Depth - 1)
        /\ pc' = IF Depth = 1 THEN "exit" ELSE "body"
        /\ sp' = Cur.sp0 + 2 /\ mem' = Freed(mem, sp')
    BY RetFinds
  <1>2. /\ mem \in [Addr -> Cell] /\ Nesting /\ Cur \in ActivationRec
        /\ Depth \in Nat \ {0} /\ Depth = Len(frames) /\ Cur = frames[Depth]
        /\ frames \in Seq(ActivationRec)
    BY <1>1, Current
  <1>3. CASE Depth = 1
    BY <1>1, <1>3 DEF SavedInv, Running
  <1>4. CASE Depth # 1
    <2> DEFINE d == Depth - 1
    <2>1. /\ d \in Nat \ {0} /\ d \in 1..(Depth - 1) /\ d \in 1..d
          /\ d + 1 = Depth /\ d \in 0..Len(frames)
          /\ \A i \in 1..(d - 1) :
               /\ i \in 1..(Depth - 1) /\ i \in 1..d /\ i + 1 \in 1..d
               /\ i \in 1..Depth /\ i < d
          /\ d \in 1..Depth
      BY <1>2, <1>4
    <2>2. /\ Len(frames') = d /\ \A i \in 1..d : frames'[i] = frames[i]
      BY <1>1, <1>2, <2>1, SeqParts
    <2>3. Depth' = d
      BY <2>2 DEF Depth
    <2> DEFINE c == frames[d]
    <2>4. Cur' = c /\ c \in ActivationRec
      BY <1>2, <2>1, <2>2, <2>3 DEF Cur
    <2>5. Cur.sp0 + 2 = BodySp(c)
      BY <1>2, <2>1 DEF Nesting
    <2>6. /\ SuspendedSaved
          /\ SavedAt(mem, c)
          /\ \A r \in CallSaved \ Saved(c.fn) : Cur.regs[r] = c.regs[r]
      <3>1. SuspendedSaved /\ Cur = frames[d + 1]
        BY <1>1, <1>2, <2>1 DEF SavedInv
      <3> QED
        BY <2>1, <3>1 DEF SuspendedSaved
    <2>7. /\ sp' = BodySp(c) /\ sp' \in Int /\ sp' <= FrameLow(c)
          /\ BodySp(c) <= c.sp0 /\ c.sp0 \in Int
      <3>1. /\ BodySp(c) <= FrameLow(c) /\ FrameLow(c) <= LocalsLow(c)
            /\ LocalsLow(c) <= Bp(c) /\ Bp(c) = c.sp0 - 2
            /\ BodySp(c) \in Int /\ FrameLow(c) \in Int
            /\ LocalsLow(c) \in Int /\ Bp(c) \in Int /\ c.sp0 \in Int
        BY <2>4, Layout
      <3> QED
        BY <1>1, <2>5, <3>1
    <2>8. Agree(mem, mem', sp')
      BY <1>1, <1>2, <2>7, FreedEffect
    <2>9. SavedAt(mem', c)
      BY <2>4, <2>6, <2>7, <2>8, SavedKept
    <2>10. ASSUME NEW i \in 1..(d - 1)
           PROVE  SavedAt(mem', frames[i])
      <3>1. frames[i] \in ActivationRec
        BY <1>2, <2>1
      <3>2. c.sp0 + 2 <= BodySp(frames[i])
        BY <1>2, <2>1 DEF Nesting
      <3>3. BodySp(frames[i]) \in Int /\ FrameLow(frames[i]) \in Int
            /\ BodySp(frames[i]) <= FrameLow(frames[i])
        BY <3>1, Layout
      <3>4. sp' <= FrameLow(frames[i])
        BY <2>7, <3>2, <3>3
      <3>5. SavedAt(mem, frames[i])
        BY <2>1, <2>6 DEF SuspendedSaved
      <3> QED
        BY <2>7, <2>8, <3>1, <3>4, <3>5, SavedKept
    <2> HIDE DEF d, c
    <2>11. pc' = "body"
      BY <1>1, <1>4
    <2>12. SuspendedSaved'
      <3> SUFFICES ASSUME NEW i \in 1..(d - 1)
                   PROVE  /\ SavedAt(mem', frames'[i])
                          /\ \A r \in CallSaved \ Saved(frames'[i].fn) :
                               frames'[i + 1].regs[r] = frames'[i].regs[r]
        BY <2>3 DEF SuspendedSaved
      <3>1. /\ frames'[i] = frames[i] /\ frames'[i + 1] = frames[i + 1]
            /\ i \in 1..(Depth - 1)
        BY <2>1, <2>2
      <3> QED
        BY <2>6, <2>10, <3>1 DEF SuspendedSaved
    <2>13. \A r \in CallSaved : Holding(r)' => reg'[r] = Cur'.regs[r]
      <3> SUFFICES ASSUME NEW r \in CallSaved, r \notin Saved(c.fn)
                   PROVE  reg'[r] = c.regs[r]
        BY <2>4, <2>11 DEF Holding, Fn
      <3> QED
        BY <2>6, RetHolds
    <2> QED
      BY <2>4, <2>9, <2>12, <2>13 DEF SavedInv
  <1> QED
    BY <1>3, <1>4

(***************************************************************************)
(* The theorems.                                                           *)
(***************************************************************************)

\* At the start-up code's call of main nothing has been saved yet.
LEMMA SavedInit == Init => SavedInv
  <1> SUFFICES ASSUME Init PROVE SavedInv
    OBVIOUS
  <1>1. pc = "push_fp" /\ Depth = 1 /\ Cur.regs = reg
    BY DEF Init, Depth, Cur, Activation
  <1> QED
    BY <1>1 DEF SavedInv, SuspendedSaved, Stored, InBody

\* Every insn of the emitted code preserves SavedInv.
LEMMA SavedStep ==
  ASSUME FramePointers, OneSaved
  PROVE  FrameInv /\ FrameInv' /\ SavedInv /\ [Next]_vars => SavedInv'
  <1> SUFFICES ASSUME FrameInv, FrameInv', SavedInv, [Next]_vars
               PROVE  SavedInv'
    OBVIOUS
  <1>1. CASE Prologue
    BY <1>1, FpSaved, AllocSaved, SaveSaved, QuietSaved DEF Prologue
  <1>2. CASE Epilogue
    BY <1>2, LeaveSaved, RestoreSaved, DropSaved, RetSaved DEF Epilogue
  <1>3. CASE ReadChain \/ \E r \in Regs, v \in Vals : SetReg(r, v)
    BY <1>3, QuietSaved, SetSaved
  <1>4. CASE \E v \in Vals : StoreLocal(v)
    BY <1>4, LocalSaved
  <1>5. CASE \E mode \in Modes : \E lo, hi \in ArgVals : PushArg(mode, lo, hi)
    BY <1>5, PushSaved
  <1>6. CASE PopArgs \/ \E n \in DynSizes : DynAlloc(n)
    BY <1>6, AdjustSaved
  <1>7. CASE \E f \in Fns : Call(f)
    BY <1>7, CallSavedStep
  <1>8. CASE Halt \/ UNCHANGED vars
    <2>1. /\ pc' = pc /\ sp' = sp /\ reg' = reg /\ mem' = mem
          /\ todo' = todo /\ frames' = frames
      BY <1>8 DEF Halt, vars
    <2> QED
      BY <2>1 DEF SavedInv, Running, SuspendedSaved, Holding, Stored, InBody,
         Cur, Depth, Fn
  <1> QED
    BY <1>1, <1>2, <1>3, <1>4, <1>5, <1>6, <1>7, <1>8 DEF Next

(***************************************************************************)
(* With frame pointers, and at most one call-saved register in use per     *)
(* function, the word expand_prologue pushed for it is where               *)
(* expand_epilogue pops it, in every activation and at every point.        *)
(***************************************************************************)
THEOREM SavedInvariant ==
  ASSUME FramePointers, OneSaved
  PROVE  Spec => []SavedInv
  <1>1. Init => SavedInv
    BY SavedInit
  <1>2. FrameInv /\ FrameInv' /\ SavedInv /\ [Next]_vars => SavedInv'
    BY SavedStep
  <1> QED
    BY <1>1, <1>2, FrameInvariant, PTL DEF Spec

(***************************************************************************)
(* With frame pointers, and at most one call-saved register in use per     *)
(* function, every call gives each register made call-saved with           *)
(* -fcall-saved-REG back with the value it had at the call.                *)
(***************************************************************************)
THEOREM CallSavedRestored ==
  ASSUME FramePointers, OneSaved
  PROVE  Spec => CallSavedKept
  <1> DEFINE Kept ==
        pc = "ret" /\ pc' \in {"body", "exit"} =>
          \A r \in CallSaved : reg'[r] = Cur.regs[r]
  <1>1. FrameInv /\ SavedInv /\ [Next]_vars => [Kept]_vars
    <2> SUFFICES ASSUME FrameInv, SavedInv, Next, pc = "ret", pc' # "ret"
                 PROVE  \A r \in CallSaved : reg'[r] = Cur.regs[r]
      OBVIOUS
    <2>1. Ret
      BY DEF Next, Prologue, Epilogue, PushFp, SetFp, AllocFrame, SaveReg,
         EnterBody, LeaveBody, RestoreReg, DropFrame, PopFp, ReadChain,
         SetReg, StoreLocal, PushArg, PopArgs, DynAlloc, Call, Halt, vars
    <2> QED
      BY <2>1, RetHolds
  <1> QED
    BY <1>1, FrameInvariant, SavedInvariant, PTL DEF Spec, CallSavedKept
=============================================================================
