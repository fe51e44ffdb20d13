------------------------- MODULE FrameRefinesProofs -------------------------
(***************************************************************************)
(* Frame implements CallStack, for every program compiled with frame       *)
(* pointers that passes word arguments.                                    *)
(*                                                                         *)
(* FrameInv says that what memory holds of an activation is what the       *)
(* history says of it (ViewMeant).  With that the stack CallStack sees is  *)
(* a function of the history alone, and each insn of Frame either leaves   *)
(* it as it is or changes it as one action of CallStack does.              *)
(***************************************************************************)
EXTENDS FrameRefines, FrameProofs

\* What the history says of an activation with a body, and of one without.
Seen(f, ra, params, locals, passed) ==
  [fn |-> f, ra |-> ra, params |-> params, locals |-> locals,
   passed |-> passed]
LocalsOf(fr) == [k \in 0..(Size[fr.fn] - 1) |-> fr.loc[k]]
NoLocals(f) == [k \in 0..(Size[f] - 1) |-> Junk]
Active(fr) == Seen(fr.fn, fr.ra, fr.args, LocalsOf(fr), fr.out)
Bare(fr) == Seen(fr.fn, fr.ra, fr.args, NoLocals(fr.fn), <<>>)

Meant == [i \in 1..Len(frames) |->
            IF i < Len(frames) \/ InBody THEN Active(frames[i])
                                         ELSE Bare(frames[i])]

\* A sequence of words all in memory is what the code reads there.
LEMMA WordsRead ==
  ASSUME NEW a \in Int, NEW s \in Seq(Int),
         \A k \in 1..Len(s) : HoldsWord(mem, a + 2 * (k - 1), s[k])
  PROVE  Words(a, Len(s)) = s
  <1>1. \A k \in 1..Len(s) : Word(mem, a + 2 * (k - 1)) = s[k]
    BY WordRead
  <1>2. Len(s) \in Nat /\ s = [k \in 1..Len(s) |-> s[k]]
    OBVIOUS
  <1> QED
    BY <1>1, <1>2 DEF Words

\* What memory holds of an activation is what the history says of it.
LEMMA ActivationMeant ==
  ASSUME FrameInv, Running, WordArguments, NEW i \in 1..Depth
  PROVE  View(i) = IF i < Len(frames) \/ InBody THEN Active(frames[i])
                                                ELSE Bare(frames[i])
  <1> DEFINE fr == frames[i]
             b == i < Len(frames) \/ InBody
  <1>1. /\ frames \in Seq(ActivationRec) /\ Depth = Len(frames)
        /\ Depth \in Nat \ {0} /\ Memory /\ Cur = frames[Depth]
    BY Current
  <1>2. fr \in ActivationRec /\ i \in Nat
    BY <1>1
  <1>3. /\ fr.sp0 \in Int /\ fr.sp0 + 2 \in Int /\ BodySp(fr) \in Int
        /\ fr.args \in Seq(Int) /\ fr.out \in Seq(Int)
    <2>1. fr.args \in Seq(Int) /\ fr.out \in Seq(Int)
      BY <1>2 DEF ActivationRec
    <2>2. fr.sp0 \in Int /\ BodySp(fr) \in Int
      BY <1>2, Layout
    <2>3. fr.sp0 + 2 \in Int
      BY <2>2
    <2> QED
      BY <2>1, <2>2, <2>3
  <1>4. RaAt(mem, fr) /\ ParamsAt(mem, fr)
    <2>1. CASE i < Depth
      BY <1>1, <2>1 DEF Memory, Owned
    <2>2. CASE i = Depth
      BY <1>1, <2>2 DEF Memory
    <2> QED
      BY <1>1, <2>1, <2>2
  <1>5. b => LocalsAt(mem, fr) /\ PushedAt(mem, fr)
    <2>1. CASE i < Depth
      BY <1>1, <2>1 DEF Memory, Owned
    <2>2. CASE i = Depth /\ InBody
      BY <1>1, <2>2 DEF Memory
    <2> QED
      BY <1>1, <2>1, <2>2
  <1>6. Word(mem, fr.sp0) = fr.ra
    BY <1>4, WordRead DEF RaAt
  <1>7. Words(fr.sp0 + 2, Len(fr.args)) = fr.args
    BY <1>3, <1>4, WordsRead DEF ParamsAt
  <1>8. b => Words(BodySp(fr), Len(fr.out)) = fr.out
    BY <1>3, <1>5, WordsRead DEF PushedAt
  <1>9. HasBody(i) <=> b
    BY <1>1 DEF HasBody
  <1>10. ViewLocals(i) = [k \in 0..(Size[fr.fn] - 1) |->
                           IF b THEN fr.loc[k] ELSE Junk]
    <2>1. \A k \in 0..(Size[fr.fn] - 1) :
            (IF HasBody(i) /\ fr.loc[k] # Junk
               THEN mem[LocalsLow(fr) + k] ELSE Junk)
            = IF b THEN fr.loc[k] ELSE Junk
      BY <1>5, <1>9 DEF LocalsAt
    <2> QED
      BY <2>1 DEF ViewLocals
  <1> QED
    BY <1>6, <1>7, <1>8, <1>9, <1>10
       DEF View, Active, Bare, Seen, LocalsOf, NoLocals

LEMMA ViewMeant ==
  FrameInv /\ Running /\ WordArguments => ViewStack = Meant
  <1> SUFFICES ASSUME FrameInv, Running, WordArguments
               PROVE  ViewStack = Meant
    OBVIOUS
  <1>1. \A i \in 1..Depth :
          View(i) = IF i < Len(frames) \/ InBody THEN Active(frames[i])
                                                 ELSE Bare(frames[i])
    BY ActivationMeant
  <1> QED
    BY <1>1 DEF ViewStack, Meant, Depth

\* The phases, by the next insn.
LEMMA Phases ==
  /\ pc \in {"push_fp", "set_fp", "alloc", "save"} => ViewPhase = "enter"
  /\ pc \in {"chain", "body"} => ViewPhase = "body"
  /\ pc \in {"restore", "pop_fp", "ret"} => ViewPhase = "leave"
  /\ pc = "exit" => ViewPhase = "over"
  BY DEF ViewPhase, InPrologue, InBody

LEMMA PhasesNext ==
  /\ pc' \in {"push_fp", "set_fp", "alloc", "save"} => ViewPhase' = "enter"
  /\ pc' \in {"chain", "body"} => ViewPhase' = "body"
  /\ pc' \in {"restore", "pop_fp", "ret"} => ViewPhase' = "leave"
  /\ pc' = "exit" => ViewPhase' = "over"
  BY DEF ViewPhase, InPrologue, InBody

\* The view of a running program.
ViewFacts ==
  /\ Depth \in Nat \ {0} /\ Len(ViewStack) = Depth
  /\ ViewStack = [i \in 1..Depth |-> ViewStack[i]]
  /\ ViewStack[Depth] = IF InBody THEN Active(Cur) ELSE Bare(Cur)
  /\ \A i \in 1..(Depth - 1) : ViewStack[i] = Active(frames[i])

LEMMA ViewNow ==
  FrameInv /\ Running /\ WordArguments => ViewFacts
  <1> SUFFICES ASSUME FrameInv, Running, WordArguments PROVE ViewFacts
    OBVIOUS
  <1>1. /\ Depth \in Nat \ {0} /\ Depth = Len(frames) /\ Cur = frames[Depth]
        /\ ViewStack = Meant
    BY Current, ViewMeant
  <1>2. Len(Meant) = Depth /\ Meant = [i \in 1..Depth |-> Meant[i]]
    BY <1>1 DEF Meant
  <1>3. Meant[Depth] = IF InBody THEN Active(Cur) ELSE Bare(Cur)
    <2>1. Depth \in 1..Len(frames) /\ ~(Depth < Len(frames))
      BY <1>1
    <2> QED
      BY <1>1, <2>1 DEF Meant
  <1>4. ASSUME NEW i \in 1..(Depth - 1)
        PROVE  Meant[i] = Active(frames[i])
    <2>1. i \in 1..Len(frames) /\ i < Len(frames)
      BY <1>1
    <2> QED
      BY <2>1 DEF Meant
  <1> QED
    BY <1>1, <1>2, <1>3, <1>4 DEF ViewFacts

LEMMA ViewNext ==
  FrameInv' /\ Running' /\ WordArguments => ViewFacts'
  <1>1. (FrameInv /\ Running /\ WordArguments => ViewFacts)'
    BY ViewNow, PTL
  <1> QED
    BY <1>1

\* A step that leaves the history alone and stays in its phase.
LEMMA QuietView ==
  ASSUME FrameInv, Running, FrameInv', Running', WordArguments,
         frames' = frames, ViewPhase' = ViewPhase, InBody' = InBody
  PROVE  UNCHANGED Calls!absVars
  <1>1. /\ Depth \in Nat \ {0}
        /\ ViewStack = [i \in 1..Depth |-> ViewStack[i]]
        /\ ViewStack[Depth] = IF InBody THEN Active(Cur) ELSE Bare(Cur)
        /\ \A i \in 1..(Depth - 1) : ViewStack[i] = Active(frames[i])
    BY ViewNow DEF ViewFacts
  <1>2. Depth' = Depth /\ Cur' = Cur
    BY DEF Depth, Cur
  <1>3. /\ ViewStack' = [i \in 1..Depth |-> ViewStack'[i]]
        /\ ViewStack'[Depth] = IF InBody THEN Active(Cur) ELSE Bare(Cur)
        /\ \A i \in 1..(Depth - 1) : ViewStack'[i] = Active(frames[i])
    BY <1>2, ViewNext DEF ViewFacts
  <1>4. ASSUME NEW i \in 1..Depth PROVE ViewStack'[i] = ViewStack[i]
    <2>1. i = Depth \/ i \in 1..(Depth - 1)
      BY <1>1
    <2>2. CASE i = Depth
      BY <1>1, <1>3, <2>2
    <2>3. CASE i \in 1..(Depth - 1)
      BY <1>1, <1>3, <2>3
    <2> QED
      BY <2>1, <2>2, <2>3
  <1>5. ViewStack' = ViewStack
    BY <1>1, <1>3, <1>4
  <1> QED
    BY <1>5 DEF Calls!absVars

\* A step that changes the current activation's record only.
LEMMA CurrentView ==
  ASSUME FrameInv, Running, FrameInv', Running', WordArguments,
         NEW fr, frames' = [frames EXCEPT ![Depth] = fr]
  PROVE  /\ Depth \in Nat \ {0} /\ Calls!Running = Depth
         /\ Calls!Innermost = IF InBody THEN Active(Cur) ELSE Bare(Cur)
         /\ ViewStack = [i \in 1..Depth |-> ViewStack[i]]
         /\ ViewStack[Depth] = IF InBody THEN Active(Cur) ELSE Bare(Cur)
         /\ ViewStack' = [ViewStack EXCEPT ![Depth] = IF InBody' THEN Active(fr) ELSE Bare(fr)]
  <1>1. /\ Depth \in Nat \ {0} /\ Len(ViewStack) = Depth
        /\ ViewStack = [i \in 1..Depth |-> ViewStack[i]]
        /\ ViewStack[Depth] = IF InBody THEN Active(Cur) ELSE Bare(Cur)
        /\ \A i \in 1..(Depth - 1) : ViewStack[i] = Active(frames[i])
    BY ViewNow DEF ViewFacts
  <1>2. /\ Depth' = Depth /\ Cur' = fr
        /\ \A i \in 1..(Depth - 1) : frames'[i] = frames[i]
    BY CurReplaced
  <1>3. /\ ViewStack' = [i \in 1..Depth |-> ViewStack'[i]]
        /\ ViewStack'[Depth] = IF InBody' THEN Active(fr) ELSE Bare(fr)
        /\ \A i \in 1..(Depth - 1) : ViewStack'[i] = Active(frames[i])
    BY <1>2, ViewNext DEF ViewFacts
  <1>4. ASSUME NEW i \in 1..Depth, i # Depth
        PROVE  ViewStack'[i] = ViewStack[i]
    <2>1. i \in 1..(Depth - 1)
      BY <1>1, <1>4
    <2> QED
      BY <1>1, <1>3, <2>1
  <1>5. ViewStack' = [ViewStack EXCEPT ![Depth] = IF InBody' THEN Active(fr) ELSE Bare(fr)]
    BY <1>1, <1>3, <1>4
  <1> QED
    BY <1>1, <1>5 DEF Calls!Running, Calls!Innermost

\* How one field of what is seen changes.
LEMMA SeenLocals ==
  \A m, f, ra, params, locals, passed, x :
    m = Seen(f, ra, params, locals, passed) =>
      [m EXCEPT !.locals = x] = Seen(f, ra, params, x, passed)
  BY DEF Seen

LEMMA SeenPassed ==
  \A m, f, ra, params, locals, passed, x :
    m = Seen(f, ra, params, locals, passed) =>
      [m EXCEPT !.passed = x] = Seen(f, ra, params, locals, x)
  BY DEF Seen

\* The fields of an activation with a body.
LEMMA ActiveFields ==
  \A fr : /\ Active(fr).fn = fr.fn
          /\ Active(fr).locals = LocalsOf(fr)
          /\ Active(fr).passed = fr.out
  BY DEF Active, Seen

\* Replacing an element of a function by itself.
LEMMA SameElement ==
  ASSUME NEW S, NEW n \in Nat \ {0}, S = [i \in 1..n |-> S[i]]
  PROVE  [S EXCEPT ![n] = S[n]] = S
  OBVIOUS

\* Another pushed sequence in the record.
LEMMA OutChanged ==
  ASSUME NEW fr, NEW gr, gr.fn = fr.fn, gr.ra = fr.ra, gr.args = fr.args,
         gr.loc = fr.loc
  PROVE  Active(gr) = [Active(fr) EXCEPT !.passed = gr.out]
  <1>1. LocalsOf(gr) = LocalsOf(fr)
    BY DEF LocalsOf
  <1>2. Active(gr) = Seen(fr.fn, fr.ra, fr.args, LocalsOf(fr), gr.out)
    BY <1>1 DEF Active
  <1> QED
    BY <1>2, SeenPassed DEF Active

\* The bytes of a function's frame are offsets.
LEMMA LocalOffsets ==
  ASSUME NEW f \in Fns
  PROVE  0..(Size[f] - 1) \subseteq Offsets
  BY DEF Offsets

\* The prologue ends: locals are not written, nothing is pushed.
LEMMA EnterView ==
  ASSUME FrameInv, FrameInv', WordArguments, EnterBody
  PROVE  Calls!Enter
  <1>1. /\ pc = "save" /\ pc' \in {"chain", "body"} /\ Running /\ Running'
        /\ InPrologue /\ InBody = FALSE /\ InBody' = TRUE
    BY DEF EnterBody, Running, InPrologue, InBody
  <1> DEFINE fr == [Cur EXCEPT !.save = sp]
  <1>2. frames' = [frames EXCEPT ![Depth] = fr]
    BY DEF EnterBody, Cur
  <1>3. /\ Cur \in ActivationRec /\ Cur.fn \in Fns /\ Cur.out = <<>>
        /\ \A k \in Offsets : Cur.loc[k] = Junk
    BY <1>1, Current DEF History
  <1>4. /\ fr.fn = Cur.fn /\ fr.ra = Cur.ra /\ fr.args = Cur.args
        /\ fr.out = Cur.out /\ fr.loc = Cur.loc
    BY <1>3 DEF ActivationRec
  <1> HIDE DEF fr
  <1>5. Active(fr) = Bare(Cur)
    <2>1. LocalsOf(fr) = NoLocals(Cur.fn)
      BY <1>3, <1>4, LocalOffsets DEF LocalsOf, NoLocals
    <2> QED
      BY <1>3, <1>4, <2>1 DEF Active, Bare
  <1>6. ViewStack' = ViewStack
    <2>1. ViewStack' = [ViewStack EXCEPT ![Depth] = ViewStack[Depth]]
      BY <1>1, <1>2, <1>5, CurrentView
    <2> QED
      BY <1>1, <1>2, <2>1, CurrentView, SameElement
  <1> QED
    BY <1>1, <1>6, Phases, PhasesNext DEF Calls!Enter

\* A byte stored into a local is an assignment.
LEMMA StoreView ==
  ASSUME FrameInv, FrameInv', WordArguments, NEW v \in Vals, StoreLocal(v)
  PROVE  Calls!Assign([val |-> v, part |-> "byte"])
  <1>1. /\ pc = "body" /\ pc' = "body" /\ Running /\ Running'
        /\ InBody = TRUE /\ InBody' = TRUE
    BY DEF StoreLocal, Running, InBody
  <1> DEFINE cell == [val |-> v, part |-> "byte"]
  <1>2. PICK k \in 0..(Size[Fn] - 1) :
          frames' = [frames EXCEPT ![Depth].loc = [@ EXCEPT ![k] = cell]]
    BY DEF StoreLocal
  <1> HIDE DEF cell
  <1> DEFINE fr == [Cur EXCEPT !.loc = [Cur.loc EXCEPT ![k] = cell]]
  <1>3. frames' = [frames EXCEPT ![Depth] = fr]
    BY <1>2 DEF Cur
  <1>4. /\ Cur \in ActivationRec /\ Cur.fn \in Fns /\ Fn = Cur.fn
        /\ Cur.loc \in [Offsets -> Cell]
    BY <1>1, Current DEF ActivationRec
  <1>5. /\ fr.fn = Cur.fn /\ fr.ra = Cur.ra /\ fr.args = Cur.args
        /\ fr.out = Cur.out /\ fr.loc = [Cur.loc EXCEPT ![k] = cell]
    BY <1>4 DEF ActivationRec
  <1> HIDE DEF fr
  <1>6. Active(fr)
          = [Active(Cur) EXCEPT !.locals = [@ EXCEPT ![k] = cell]]
    <2>1. LocalsOf(fr) = [LocalsOf(Cur) EXCEPT ![k] = cell]
      BY <1>4, <1>5, LocalOffsets DEF LocalsOf
    <2>2. Active(fr) = Seen(Cur.fn, Cur.ra, Cur.args,
                            [LocalsOf(Cur) EXCEPT ![k] = cell], Cur.out)
      BY <1>5, <2>1 DEF Active
    <2>3. [Active(Cur) EXCEPT !.locals = [LocalsOf(Cur) EXCEPT ![k] = cell]]
            = Seen(Cur.fn, Cur.ra, Cur.args,
                   [LocalsOf(Cur) EXCEPT ![k] = cell], Cur.out)
      BY SeenLocals DEF Active
    <2> QED
      BY <2>2, <2>3, ActiveFields
  <1>7. /\ Calls!Running = Depth /\ Calls!Innermost = Active(Cur)
        /\ ViewStack[Depth] = Active(Cur)
        /\ ViewStack' = [ViewStack EXCEPT ![Depth] = Active(fr)]
    BY <1>1, <1>3, CurrentView
  <1>8. ViewStack' = [ViewStack EXCEPT ![Depth].locals = [@ EXCEPT ![k] = cell]]
    BY <1>6, <1>7
  <1>9. k \in [f \in Fns |-> 0..(Size[f] - 1)][Calls!Innermost.fn]
    BY <1>2, <1>4, <1>7, ActiveFields
  <1> QED
    BY <1>1, <1>7, <1>8, <1>9, Phases, PhasesNext DEF Calls!Assign, cell

\* A word pushed is a word passed.
LEMMA PushView ==
  ASSUME FrameInv, FrameInv', WordArguments,
         NEW mode \in Modes, NEW x \in ArgVals, NEW y \in ArgVals,
         PushArg(mode, x, y)
  PROVE  Calls!Pass(<<x>>)
  <1>1. /\ pc = "body" /\ pc' = "body" /\ Running /\ Running'
        /\ InBody = TRUE /\ InBody' = TRUE /\ mode = "HI"
    BY DEF PushArg, Running, InBody, WordArguments
  <1> DEFINE fr == [Cur EXCEPT !.out = <<x>> \o Cur.out]
  <1>2. frames' = [frames EXCEPT ![Depth] = fr]
    BY <1>1 DEF PushArg, Cur
  <1>3. Cur \in ActivationRec
    BY <1>1, Current
  <1>4. /\ fr.fn = Cur.fn /\ fr.ra = Cur.ra /\ fr.args = Cur.args
        /\ fr.loc = Cur.loc /\ fr.out = <<x>> \o Cur.out
    BY <1>3 DEF ActivationRec
  <1> HIDE DEF fr
  <1>5. Active(fr) = [Active(Cur) EXCEPT !.passed = <<x>> \o @]
    BY SMTT(30), <1>4, OutChanged, ActiveFields
  <1>6. /\ Calls!Running = Depth /\ ViewStack[Depth] = Active(Cur)
        /\ ViewStack' = [ViewStack EXCEPT ![Depth] = Active(fr)]
    BY <1>1, <1>2, CurrentView
  <1> QED
    BY <1>1, <1>5, <1>6, Phases, PhasesNext DEF Calls!Pass

\* Words popped are words discarded.
LEMMA PopView ==
  ASSUME FrameInv, FrameInv', WordArguments, PopArgs
  PROVE  Calls!Discard
  <1>1. /\ pc = "body" /\ pc' = "body" /\ Running /\ Running'
        /\ InBody = TRUE /\ InBody' = TRUE
    BY DEF PopArgs, Running, InBody
  <1>2. PICK n \in 1..Len(Cur.out) :
          frames' = [frames EXCEPT ![Depth].out = SubSeq(@, n + 1, Len(@))]
    BY DEF PopArgs
  <1> DEFINE fr == [Cur EXCEPT !.out = SubSeq(Cur.out, n + 1, Len(Cur.out))]
  <1>3. frames' = [frames EXCEPT ![Depth] = fr]
    BY <1>2 DEF Cur
  <1>4. Cur \in ActivationRec
    BY <1>1, Current
  <1>5. /\ fr.fn = Cur.fn /\ fr.ra = Cur.ra /\ fr.args = Cur.args
        /\ fr.loc = Cur.loc
        /\ fr.out = SubSeq(Cur.out, n + 1, Len(Cur.out))
    BY <1>4 DEF ActivationRec
  <1> HIDE DEF fr
  <1>6. Active(fr)
          = [Active(Cur) EXCEPT !.passed = SubSeq(@, n + 1, Len(@))]
    BY SMTT(30), <1>5, OutChanged, ActiveFields
  <1>7. /\ Calls!Running = Depth /\ Calls!Innermost = Active(Cur)
        /\ ViewStack[Depth] = Active(Cur)
        /\ ViewStack' = [ViewStack EXCEPT ![Depth] = Active(fr)]
    BY <1>1, <1>3, CurrentView
  <1>8. n \in 1..Len(Calls!Innermost.passed)
    BY <1>2, <1>7, ActiveFields
  <1> QED
    BY <1>1, <1>6, <1>7, <1>8, Phases, PhasesNext DEF Calls!Discard

\* alloca is not seen.
LEMMA AllocaView ==
  ASSUME FrameInv, FrameInv', WordArguments, NEW n \in DynSizes, DynAlloc(n)
  PROVE  UNCHANGED Calls!absVars
  <1>1. /\ pc = "body" /\ pc' = "body" /\ Running /\ Running'
        /\ InBody = TRUE /\ InBody' = TRUE
    BY DEF DynAlloc, Running, InBody
  <1> DEFINE fr == [Cur EXCEPT !.dyn = Cur.dyn + n]
  <1>2. frames' = [frames EXCEPT ![Depth] = fr]
    BY DEF DynAlloc, Cur
  <1>3. Cur \in ActivationRec
    BY <1>1, Current
  <1>4. /\ fr.fn = Cur.fn /\ fr.ra = Cur.ra /\ fr.args = Cur.args
        /\ fr.loc = Cur.loc /\ fr.out = Cur.out
    BY <1>3 DEF ActivationRec
  <1> HIDE DEF fr
  <1>5. Active(fr) = Active(Cur)
    BY <1>4 DEF Active, LocalsOf
  <1>6. ViewStack' = ViewStack
    <2>1. ViewStack' = [ViewStack EXCEPT ![Depth] = ViewStack[Depth]]
      BY <1>1, <1>2, <1>5, CurrentView
    <2> QED
      BY <1>1, <1>2, <2>1, CurrentView, SameElement
  <1> QED
    BY <1>1, <1>6, Phases, PhasesNext DEF Calls!absVars

\* The body ends: nothing is pushed, and the locals are given up.
LEMMA LeaveView ==
  ASSUME FrameInv, FrameInv', WordArguments, LeaveBody
  PROVE  Calls!Leave
  <1>1. /\ pc = "body" /\ pc' = "restore" /\ Running /\ Running'
        /\ InBody = TRUE /\ InBody' = FALSE /\ Cur.out = <<>>
    BY DEF LeaveBody, Running, InBody
  <1> DEFINE fr == [Cur EXCEPT !.dyn = 0]
  <1>2. frames' = [frames EXCEPT ![Depth] = fr]
    BY DEF LeaveBody, Cur
  <1>3. Cur \in ActivationRec /\ Cur.fn \in Fns
    BY <1>1, Current
  <1>4. /\ fr.fn = Cur.fn /\ fr.ra = Cur.ra /\ fr.args = Cur.args
    BY <1>3 DEF ActivationRec
  <1> HIDE DEF fr
  <1>5. /\ Calls!Running = Depth /\ Calls!Innermost = Active(Cur)
        /\ ViewStack[Depth] = Active(Cur)
        /\ ViewStack' = [ViewStack EXCEPT ![Depth] = Bare(fr)]
    BY <1>1, <1>2, CurrentView
  <1>6. Calls!Unset(Calls!Innermost.fn) = [k \in 0..(Size[Cur.fn] - 1) |-> Junk]
    BY <1>3, <1>5, ActiveFields DEF Calls!Unset
  <1>7. Bare(fr)
          = [Active(Cur) EXCEPT !.locals = Calls!Unset(Calls!Innermost.fn)]
    <2>1. Bare(fr) = Seen(Cur.fn, Cur.ra, Cur.args,
                          Calls!Unset(Calls!Innermost.fn), <<>>)
      BY <1>4, <1>6 DEF Bare, NoLocals
    <2>2. Active(Cur) = Seen(Cur.fn, Cur.ra, Cur.args, LocalsOf(Cur), <<>>)
      BY <1>1 DEF Active
    <2> QED
      BY <2>1, <2>2, SeenLocals
  <1>8. Calls!Innermost.passed = <<>>
    BY <1>1, <1>5, ActiveFields
  <1> QED
    BY <1>1, <1>5, <1>7, <1>8, Phases, PhasesNext DEF Calls!Leave

\* The view is a sequence.
LEMMA ViewSeq ==
  ASSUME ViewFacts, NEW e
  PROVE  ViewStack \in Seq({ViewStack[i] : i \in 1..Depth} \cup {e})
  BY DEF ViewFacts

\* A sequence is the function of its elements.
LEMMA SeqElements ==
  ASSUME NEW S, NEW s \in Seq(S), NEW n, Len(s) = n
  PROVE  s = [i \in 1..n |-> s[i]]
  OBVIOUS

\* A sequence with an element more.
LEMMA Appended ==
  ASSUME NEW S, NEW s \in Seq(S), NEW e \in S, NEW t,
         t = [i \in 1..(Len(s) + 1) |-> t[i]],
         t[Len(s) + 1] = e, \A i \in 1..Len(s) : t[i] = s[i]
  PROVE  t = Append(s, e)
  <1>1. /\ Append(s, e) \in Seq(S) /\ Len(Append(s, e)) = Len(s) + 1
        /\ \A i \in 1..Len(s) : Append(s, e)[i] = s[i]
        /\ Append(s, e)[Len(s) + 1] = e
    BY AppendProperties
  <1>2. Append(s, e) = [i \in 1..(Len(s) + 1) |-> Append(s, e)[i]]
    BY <1>1, SeqElements
  <1>3. ASSUME NEW i \in 1..(Len(s) + 1) PROVE t[i] = Append(s, e)[i]
    <2>1. i \in 1..Len(s) \/ i = Len(s) + 1
      OBVIOUS
    <2> QED
      BY <1>1, <2>1
  <1> QED
    BY <1>2, <1>3

\* call starts an activation with the first words its caller has pushed.
LEMMA CallView ==
  ASSUME FrameInv, FrameInv', WordArguments, NEW f \in Fns, Call(f)
  PROVE  Calls!Call(f)
  <1>1. /\ pc = "body" /\ pc' = "push_fp" /\ Running /\ Running'
        /\ InBody /\ ~InBody'
    BY DEF Call, Running, InBody
  <1>2. /\ Depth \in Nat \ {0} /\ Depth = Len(frames) /\ Cur = frames[Depth]
        /\ frames \in Seq(ActivationRec) /\ Fn = Cur.fn /\ Cur.fn \in Fns
    BY <1>1, Current
  <1>3. ViewFacts /\ ViewFacts'
    BY <1>1, ViewNow, ViewNext
  <1>4. NParams[f] <= Len(Cur.out)
    BY DEF Call
  <1>5. PICK ra \in Sites[Fn] :
          frames' = Append(frames, Activation(f, sp - 2, ra, reg',
                                     SubSeq(Cur.out, 1, NParams[f])))
    BY DEF Call
  <1> DEFINE fr == Activation(f, sp - 2, ra, reg',
                              SubSeq(Cur.out, 1, NParams[f]))
  <1>6. /\ fr.fn = f /\ fr.ra = ra
        /\ fr.args = SubSeq(Cur.out, 1, NParams[f])
    BY DEF Activation
  <1>7. frames' = Append(frames, fr)
    BY <1>5
  <1> HIDE DEF fr
  <1>8. /\ Len(frames') = Depth + 1 /\ frames'[Depth + 1] = fr
        /\ \A i \in 1..Depth : frames'[i] = frames[i]
    BY <1>2, <1>7
  <1>9. Depth' = Depth + 1 /\ Cur' = fr
    BY <1>8 DEF Depth, Cur
  <1>10. /\ Calls!Running = Depth /\ Len(ViewStack) = Depth
         /\ ViewStack[Depth] = Active(Cur) /\ Calls!Innermost = Active(Cur)
    BY <1>1, <1>3 DEF ViewFacts, Calls!Running, Calls!Innermost
  <1>11. Calls!Innermost.passed = Cur.out /\ Calls!Innermost.fn = Cur.fn
    BY <1>10, ActiveFields
  <1> DEFINE e == Calls!Started(f, ra, SubSeq(Calls!Innermost.passed, 1, NParams[f]))
  <1>12. e = Bare(fr)
    <2>1. Calls!Unset(f) = NoLocals(f)
      BY DEF Calls!Unset, NoLocals
    <2> QED
      BY <1>6, <1>11, <2>1 DEF Calls!Started, Bare, Seen
  <1>13. /\ ViewStack' = [i \in 1..(Depth + 1) |-> ViewStack'[i]]
         /\ ViewStack'[Depth + 1] = Bare(fr)
         /\ \A i \in 1..Depth : ViewStack'[i] = Active(frames[i])
    <2>1. Depth' - 1 = Depth
      BY <1>2, <1>9
    <2> QED
      BY <1>1, <1>3, <1>8, <1>9, <2>1 DEF ViewFacts
  <1>14. ASSUME NEW i \in 1..Depth PROVE ViewStack'[i] = ViewStack[i]
    <2>1. i = Depth \/ i \in 1..(Depth - 1)
      BY <1>2
    <2>2. CASE i = Depth
      BY <1>2, <1>10, <1>13, <2>2
    <2>3. CASE i \in 1..(Depth - 1)
      BY <1>3, <1>13, <2>3 DEF ViewFacts
    <2> QED
      BY <2>1, <2>2, <2>3
  <1> HIDE DEF e
  <1>15. ViewStack' = Append(ViewStack, e)
    <2> DEFINE S == {ViewStack[i] : i \in 1..Depth} \cup {e}
    <2>1. ViewStack \in Seq(S) /\ e \in S
      BY <1>3, ViewSeq
    <2> HIDE DEF S
    <2> QED
      BY <1>10, <1>12, <1>13, <1>14, <2>1, Appended
  <1> QED
    BY <1>1, <1>2, <1>4, <1>5, <1>11, <1>15, Phases, PhasesNext
       DEF Calls!Call, e

\* The first n elements of a sequence.
LEMMA Prefix ==
  ASSUME NEW S, NEW s \in Seq(S), NEW n \in 0..Len(s), NEW t,
         t = [i \in 1..n |-> t[i]], \A i \in 1..n : t[i] = s[i]
  PROVE  t = SubSeq(s, 1, n)
  <1>1. /\ SubSeq(s, 1, n) \in Seq(S) /\ Len(SubSeq(s, 1, n)) = n
        /\ \A i \in 1..n : SubSeq(s, 1, n)[i] = s[i]
    BY SeqParts
  <1>2. SubSeq(s, 1, n) = [i \in 1..n |-> SubSeq(s, 1, n)[i]]
    BY <1>1
  <1> QED
    BY <1>1, <1>2

\* ret gives the callers back as they were.
LEMMA ReturnView ==
  ASSUME FrameInv, FrameInv', WordArguments, Ret
  PROVE  Calls!Return
  <1>1. /\ pc = "ret" /\ Running /\ ~InBody
        /\ frames' = SubSeq(frames, 1, Depth - 1)
        /\ pc' = IF Depth = 1 THEN "exit" ELSE "body"
    BY RetFinds DEF Ret, Running, InBody
  <1>2. /\ Depth \in Nat \ {0} /\ Depth = Len(frames)
        /\ frames \in Seq(ActivationRec)
    BY <1>1, Current
  <1>3. ViewFacts
    BY <1>1, ViewNow
  <1>4. Calls!Running = Depth /\ Len(ViewStack) = Depth
    BY <1>3 DEF ViewFacts, Calls!Running
  <1>5. Depth - 1 \in 0..Len(frames) /\ Depth - 1 \in 0..Len(ViewStack)
    BY <1>2, <1>4
  <1>6. /\ Len(frames') = Depth - 1
        /\ \A i \in 1..(Depth - 1) : frames'[i] = frames[i]
    BY <1>1, <1>2, <1>5, SeqParts
  <1>7. Depth' = Depth - 1
    BY <1>6 DEF Depth
  <1>8. ViewStack' = [i \in 1..(Depth - 1) |-> ViewStack'[i]]
    BY <1>7 DEF ViewStack
  <1>9. \A i \in 1..(Depth - 1) : ViewStack'[i] = ViewStack[i]
    <2>1. CASE Depth = 1
      BY <2>1
    <2>2. CASE Depth # 1
      <3>1. pc' = "body" /\ Running' /\ InBody'
        BY <1>1, <2>2 DEF Running, InBody
      <3>2. ViewFacts'
        BY <3>1, ViewNext
      <3>3. Cur' = frames[Depth - 1]
        BY <1>2, <1>6, <1>7, <2>2 DEF Cur
      <3>4. ASSUME NEW i \in 1..(Depth - 1)
            PROVE  ViewStack'[i] = Active(frames[i])
        <4>1. i = Depth' \/ i \in 1..(Depth' - 1)
          BY <1>2, <1>7
        <4>2. CASE i = Depth'
          BY <1>7, <3>1, <3>2, <3>3, <4>2 DEF ViewFacts
        <4>3. CASE i \in 1..(Depth' - 1)
          BY <1>6, <3>2, <4>3 DEF ViewFacts
        <4> QED
          BY <4>1, <4>2, <4>3
      <3> QED
        BY <1>3, <3>4 DEF ViewFacts
    <2> QED
      BY <2>1, <2>2
  <1>10. ViewStack' = SubSeq(ViewStack, 1, Depth - 1)
    <2>1. PICK S : ViewStack \in Seq(S)
      BY <1>3, ViewSeq
    <2> QED
      BY <1>5, <1>8, <1>9, <2>1, Prefix
  <1> QED
    BY <1>1, <1>4, <1>10, Phases, PhasesNext DEF Calls!Return

\* The start-up code's call of main.
LEMMA InitView ==
  ASSUME FramePointers, WordArguments
  PROVE  Init => Calls!AbsInit
  <1> SUFFICES ASSUME Init PROVE Calls!AbsInit
    OBVIOUS
  <1>1. /\ pc = "push_fp" /\ Running /\ ~InBody /\ FrameInv
        /\ frames = <<Activation(Main, Top, StartRa, reg, <<>>)>>
    BY InvInit DEF Init, Running, InBody
  <1> DEFINE fr == Activation(Main, Top, StartRa, reg, <<>>)
  <1>2. fr.fn = Main /\ fr.ra = StartRa /\ fr.args = <<>>
    BY DEF Activation
  <1>3. frames = <<fr>>
    BY <1>1
  <1> HIDE DEF fr
  <1>4. Depth = 1 /\ Cur = fr
    BY <1>3 DEF Depth, Cur
  <1>5. ViewFacts
    BY <1>1, ViewNow
  <1>6. ViewStack = [i \in 1..1 |-> ViewStack[i]] /\ ViewStack[1] = Bare(fr)
    BY <1>1, <1>4, <1>5 DEF ViewFacts
  <1>7. Calls!Started(Main, StartRa, <<>>) = Bare(fr)
    <2>1. Calls!Unset(Main) = NoLocals(Main)
      BY FrameAssumption DEF Calls!Unset, NoLocals
    <2> QED
      BY <1>2, <2>1 DEF Calls!Started, Bare, Seen
  <1>8. ViewStack = <<Bare(fr)>>
    BY <1>6
  <1> QED
    BY <1>1, <1>7, <1>8, Phases DEF Calls!AbsInit

\* Insns that are not seen.
LEMMA QuietInsns ==
  ASSUME FrameInv, FrameInv', WordArguments, frames' = frames, Running,
         \/ InPrologue /\ InPrologue'
         \/ InBody /\ InBody'
         \/ /\ pc \in {"restore", "pop_fp", "ret"}
            /\ pc' \in {"restore", "pop_fp", "ret"}
  PROVE  UNCHANGED Calls!absVars
  <1>1. Running' /\ ViewPhase' = ViewPhase /\ InBody' = InBody
    BY Phases, PhasesNext DEF Running, InPrologue, InBody
  <1> QED
    BY <1>1, QuietView

\* Every step of Frame is a step of CallStack, or none.
LEMMA StepView ==
  ASSUME FramePointers, WordArguments
  PROVE  FrameInv /\ FrameInv' /\ [Next]_vars => [Calls!AbsNext]_Calls!absVars
  <1> SUFFICES ASSUME FrameInv, FrameInv', [Next]_vars
               PROVE  Calls!AbsNext \/ UNCHANGED Calls!absVars
    OBVIOUS
  <1> USE DEF Running, InPrologue, InBody
  <1>1. CASE PushFp
    BY <1>1, QuietInsns DEF PushFp
  <1>2. CASE SetFp
    BY <1>2, QuietInsns DEF SetFp
  <1>3. CASE AllocFrame
    BY <1>3, QuietInsns DEF AllocFrame
  <1>4. CASE SaveReg
    BY <1>4, QuietInsns DEF SaveReg
  <1>5. CASE EnterBody
    BY <1>5, EnterView DEF Calls!AbsNext
  <1>6. CASE LeaveBody
    BY <1>6, LeaveView DEF Calls!AbsNext
  <1>7. CASE RestoreReg
    BY <1>7, QuietInsns DEF RestoreReg
  <1>8. CASE DropFrame
    BY <1>8, QuietInsns DEF DropFrame
  <1>9. CASE PopFp
    BY <1>9, QuietInsns DEF PopFp
  <1>10. CASE Ret
    BY <1>10, ReturnView DEF Calls!AbsNext
  <1>11. CASE ReadChain
    BY <1>11, QuietInsns DEF ReadChain
  <1>12. ASSUME NEW r \in Regs, NEW v \in Vals, SetReg(r, v)
         PROVE  UNCHANGED Calls!absVars
    BY <1>12, QuietInsns DEF SetReg
  <1>13. ASSUME NEW v \in Vals, StoreLocal(v)
         PROVE  Calls!AbsNext
    <2>1. Calls!Assign([val |-> v, part |-> "byte"])
      BY <1>13, StoreView
    <2>2. [val |-> v, part |-> "byte"] \in [val : Vals, part : {"byte"}]
      OBVIOUS
    <2> QED
      BY <2>1, <2>2 DEF Calls!AbsNext
  <1>14. ASSUME NEW mode \in Modes, NEW x \in ArgVals, NEW y \in ArgVals,
                PushArg(mode, x, y)
         PROVE  Calls!AbsNext
    <2>1. Calls!Pass(<<x>>)
      BY <1>14, PushView
    <2>2. mode = "HI"
      BY DEF WordArguments
    <2>3. <<x>> \in Arguments
      BY <2>2 DEF Arguments
    <2> QED
      BY <2>1, <2>3 DEF Calls!AbsNext
  <1>15. CASE PopArgs
    BY <1>15, PopView DEF Calls!AbsNext
  <1>16. ASSUME NEW n \in DynSizes, DynAlloc(n)
         PROVE  UNCHANGED Calls!absVars
    BY <1>16, AllocaView
  <1>17. ASSUME NEW f \in Fns, Call(f)
         PROVE  Calls!AbsNext
    BY <1>17, CallView DEF Calls!AbsNext
  <1>18. CASE UNCHANGED vars
    BY <1>18 DEF vars, Calls!absVars, ViewStack, View, ViewLocals, Words,
       HasBody, ViewPhase, Depth
  <1> QED
    BY <1>1, <1>2, <1>3, <1>4, <1>5, <1>6, <1>7, <1>8, <1>9, <1>10, <1>11,
       <1>12, <1>13, <1>14, <1>15, <1>16, <1>17, <1>18
       DEF Next, Prologue, Epilogue, Halt

(***************************************************************************)
(* With frame pointers and word arguments the emitted prologues,           *)
(* epilogues, pushes, pops and calls implement calls as the source program *)
(* means them, for any functions, frames, depth and stack.                 *)
(***************************************************************************)
THEOREM CallsImplemented ==
  ASSUME FramePointers, WordArguments
  PROVE  Spec => ImplementsCalls
  <1>1. Init => Calls!AbsInit
    BY InitView
  <1>2. FrameInv /\ FrameInv' /\ [Next]_vars => [Calls!AbsNext]_Calls!absVars
    BY StepView
  <1>3. Spec => []FrameInv
    BY FrameInvariant
  <1> QED
    BY <1>1, <1>2, <1>3, PTL DEF Spec, ImplementsCalls, Calls!AbsSpec
=============================================================================
