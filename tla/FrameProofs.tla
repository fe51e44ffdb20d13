---------------------------- MODULE FrameProofs ----------------------------
(***************************************************************************)
(* TLAPS proofs about Frame, for every program, every frame size, every    *)
(* set of call-saved registers and every depth of calls.                   *)
(***************************************************************************)
EXTENDS FrameInv, SequenceTheorems, FiniteSetTheorems, TLAPS

(***************************************************************************)
(* Types.                                                                  *)
(***************************************************************************)

\* Storing a word keeps memory a memory.
LEMMA PutWordType ==
  ASSUME NEW m \in [Addr -> Cell], NEW a \in Int, NEW v \in Int
  PROVE  PutWord(m, a, v) \in [Addr -> Cell]
  BY DEF PutWord, Cell

\* Losing what lies below the stack pointer keeps memory a memory.
LEMMA FreedType ==
  ASSUME NEW m \in [Addr -> Cell], NEW s \in Int
  PROVE  Freed(m, s) \in [Addr -> Cell]
  BY DEF Freed, Cell, Junk

\* The word read at any address is an integer.
LEMMA WordType ==
  ASSUME NEW m \in [Addr -> Cell], NEW a \in Int
  PROVE  Word(m, a) \in Int
  BY DEF Word, Garbage, Cell

\* A prefix, a suffix and an extension of a sequence.
LEMMA SeqParts ==
  ASSUME NEW S, NEW s \in Seq(S), NEW n \in 0..Len(s)
  PROVE  /\ SubSeq(s, 1, n) \in Seq(S)
         /\ Len(SubSeq(s, 1, n)) = n
         /\ \A i \in 1..n : SubSeq(s, 1, n)[i] = s[i]
         /\ SubSeq(s, n + 1, Len(s)) \in Seq(S)
         /\ Len(SubSeq(s, n + 1, Len(s))) = Len(s) - n
         /\ \A i \in 1..(Len(s) - n) : SubSeq(s, n + 1, Len(s))[i] = s[n + i]
  <1>1. Len(s) \in Nat /\ \A i \in 1..Len(s) : s[i] \in S
    BY LenProperties
  <1>2. \A i \in 1..n : s[i] \in S
    BY <1>1
  <1>3. \A i \in (n + 1)..Len(s) : s[i] \in S
    BY <1>1
  <1>4. n \in Int /\ n + 1 \in Int /\ Len(s) \in Int /\ 1 \in Int
    BY <1>1
  <1>5. /\ SubSeq(s, 1, n) \in Seq(S)
        /\ Len(SubSeq(s, 1, n)) = IF 1 <= n THEN n - 1 + 1 ELSE 0
        /\ \A i \in 1..(n - 1 + 1) : SubSeq(s, 1, n)[i] = s[1 + i - 1]
    BY <1>2, <1>4, SubSeqProperties
  <1>6. /\ SubSeq(s, n + 1, Len(s)) \in Seq(S)
        /\ Len(SubSeq(s, n + 1, Len(s)))
             = IF n + 1 <= Len(s) THEN Len(s) - (n + 1) + 1 ELSE 0
        /\ \A i \in 1..(Len(s) - (n + 1) + 1) :
             SubSeq(s, n + 1, Len(s))[i] = s[n + 1 + i - 1]
    BY <1>3, <1>4, SubSeqProperties
  <1>7. \A i \in 1..n : SubSeq(s, 1, n)[i] = s[i]
    BY <1>4, <1>5
  <1>8. \A i \in 1..(Len(s) - n) : SubSeq(s, n + 1, Len(s))[i] = s[n + i]
    BY <1>4, <1>6
  <1> QED
    BY <1>4, <1>5, <1>6, <1>7, <1>8

\* A new activation record is one.
LEMMA ActivationType ==
  ASSUME NEW f \in Fns, NEW a \in Int, NEW ra \in Int,
         NEW rs \in [Regs -> Int], NEW args \in Seq(Int)
  PROVE  Activation(f, a, ra, rs, args) \in ActivationRec
  BY DEF Activation, ActivationRec, Cell, Junk

\* While the program runs, there is a current activation.
LEMMA CurType ==
  ASSUME TypeOK, pc # "exit"
  PROVE  /\ Depth \in Nat \ {0}
         /\ Depth \in DOMAIN frames
         /\ Cur \in ActivationRec
         /\ Fn \in Fns
         /\ Size[Fn] \in Nat
         /\ FpNeeded[Fn] \in BOOLEAN
  <1>1. frames \in Seq(ActivationRec) /\ frames # <<>>
    BY DEF TypeOK
  <1>2. Depth \in Nat \ {0} /\ Depth \in DOMAIN frames
    BY <1>1 DEF Depth
  <1>3. Cur \in ActivationRec
    BY <1>1, <1>2 DEF Cur
  <1>4. Fn \in Fns
    BY <1>3 DEF Fn, ActivationRec
  <1> QED
    BY <1>2, <1>3, <1>4, FrameAssumption

\* The register numbers.
LEMMA RegNumbers == IX \in Regs /\ IY \in Regs /\ Regs \subseteq Int
  BY DEF IX, IY, Regs

\* The state in which start-up code has called main is well typed.
THEOREM TypeInit == Init => TypeOK
  <1> SUFFICES ASSUME Init PROVE TypeOK
    OBVIOUS
  <1>0. Top \in Int /\ StartRa \in Int /\ Main \in Fns
    BY FrameAssumption
  <1>1. reg = [r \in Regs |-> 0] /\ sp = Top /\ todo = {}
    BY DEF Init
  <1>2. reg \in [Regs -> Int] /\ sp \in Int /\ todo \subseteq Regs
    BY <1>0, <1>1
  <1>3. [a \in Addr |-> Junk] \in [Addr -> Cell]
    BY DEF Junk, Cell
  <1>4. mem \in [Addr -> Cell]
    BY <1>3, PutWordType, <1>0 DEF Init
  <1>5. Activation(Main, Top, StartRa, reg, <<>>) \in ActivationRec
    <2>1. <<>> \in Seq(Int)
      OBVIOUS
    <2> QED
      BY <1>0, <1>2, <2>1, ActivationType
  <1>6. frames \in Seq(ActivationRec) /\ frames # <<>>
    BY <1>5 DEF Init
  <1> QED
    BY <1>2, <1>4, <1>6 DEF TypeOK, Init, Pcs

\* The updates the actions make to the current record.
LEMMA UpdateType ==
  ASSUME TypeOK, pc # "exit"
  PROVE  /\ \A x \in Seq(Int) :
              [frames EXCEPT ![Depth].out = x] \in Seq(ActivationRec)
         /\ \A x \in Nat :
              [frames EXCEPT ![Depth].dyn = x] \in Seq(ActivationRec)
         /\ \A x \in Int :
              [frames EXCEPT ![Depth].save = x] \in Seq(ActivationRec)
         /\ \A x \in [Offsets -> Cell] :
              [frames EXCEPT ![Depth].loc = x] \in Seq(ActivationRec)
  <1>1. frames \in Seq(ActivationRec) /\ Depth \in DOMAIN frames
    BY CurType DEF TypeOK
  <1>2. frames[Depth] \in ActivationRec
    BY CurType DEF Cur
  <1>3. ASSUME NEW fr \in ActivationRec
        PROVE  [frames EXCEPT ![Depth] = fr] \in Seq(ActivationRec)
    BY <1>1
  <1>4. /\ \A x \in Seq(Int) : [frames[Depth] EXCEPT !.out = x] \in ActivationRec
        /\ \A x \in Nat : [frames[Depth] EXCEPT !.dyn = x] \in ActivationRec
        /\ \A x \in Int : [frames[Depth] EXCEPT !.save = x] \in ActivationRec
        /\ \A x \in [Offsets -> Cell] :
              [frames[Depth] EXCEPT !.loc = x] \in ActivationRec
    BY <1>2 DEF ActivationRec
  <1> QED
    BY <1>3, <1>4

\* Every insn of prologue, body and epilogue keeps the state well typed.
THEOREM TypeStep == TypeOK /\ [Next]_vars => TypeOK'
  <1> SUFFICES ASSUME TypeOK, [Next]_vars PROVE TypeOK'
    OBVIOUS
  <1> USE DEF Pcs
  <1>t. /\ pc \in Pcs /\ sp \in Int /\ reg \in [Regs -> Int]
        /\ mem \in [Addr -> Cell] /\ todo \subseteq Regs
        /\ frames \in Seq(ActivationRec)
        /\ pc # "exit" => frames # <<>>
    BY DEF TypeOK
  <1>r. \A r \in Regs, v \in Int : [reg EXCEPT ![r] = v] \in [Regs -> Int]
    BY <1>t
  <1>f. \A f \in Fns : Saved(f) \subseteq Regs
    BY FrameAssumption DEF Saved
  <1>1. CASE PushFp
    <2>1. reg[IX] \in Int /\ sp - 2 \in Int
      BY <1>t, RegNumbers
    <2>2. mem' \in [Addr -> Cell] /\ sp' \in Int /\ pc' \in Pcs \ {"exit"}
      BY <1>1, <1>t, <2>1, PutWordType DEF PushFp
    <2> QED
      BY <1>1, <1>t, <2>2 DEF PushFp, TypeOK
  <1>2. CASE SetFp
    BY <1>2, <1>t, <1>r, RegNumbers DEF SetFp, TypeOK
  <1>3. CASE AllocFrame
    <2>1. Size[Fn] \in Nat /\ Fn \in Fns
      BY <1>3, CurType DEF AllocFrame
    <2>2. reg' \in [Regs -> Int] /\ sp' \in Int
      BY <1>3, <1>t, <1>r, <2>1, RegNumbers DEF AllocFrame
    <2> QED
      BY <1>3, <1>t, <1>f, <2>1, <2>2 DEF AllocFrame, TypeOK
  <1>4. CASE SaveReg
    <2>1. PICK r \in todo : /\ mem' = PutWord(mem, sp - 2, reg[r])
                           /\ sp' = sp - 2
                           /\ todo' = todo \ {r}
      BY <1>4 DEF SaveReg
    <2>2. mem' \in [Addr -> Cell]
      BY <1>t, <2>1, PutWordType
    <2> QED
      BY <1>4, <1>t, <2>1, <2>2 DEF SaveReg, TypeOK
  <1>5. CASE EnterBody
    <2>1. frames' \in Seq(ActivationRec)
      BY <1>5, <1>t, UpdateType DEF EnterBody
    <2>2. frames' # <<>>
      BY <1>5, <1>t DEF EnterBody
    <2> QED
      BY <1>5, <1>t, <2>1, <2>2 DEF EnterBody, TypeOK
  <1>6. CASE LeaveBody
    <2>1. frames' \in Seq(ActivationRec)
      BY <1>6, <1>t, UpdateType DEF LeaveBody
    <2>2. frames' # <<>>
      BY <1>6, <1>t DEF LeaveBody
    <2>3. sp' \in Int
      BY <1>6, <1>t, CurType DEF LeaveBody, ActivationRec
    <2>4. mem' \in [Addr -> Cell]
      BY <1>6, <1>t, <2>3, FreedType DEF LeaveBody
    <2>5. todo' \subseteq Regs
      BY <1>6, <1>t, <1>f, CurType DEF LeaveBody
    <2> QED
      BY <1>6, <1>t, <2>1, <2>2, <2>3, <2>4, <2>5 DEF LeaveBody, TypeOK
  <1>7. CASE RestoreReg
    <2>1. PICK r \in todo : /\ reg' = [reg EXCEPT ![r] = Word(mem, sp)]
                           /\ sp' = sp + 2
                           /\ mem' = Freed(mem, sp + 2)
                           /\ todo' = todo \ {r}
      BY <1>7 DEF RestoreReg
    <2>2. mem' \in [Addr -> Cell]
      BY <1>t, <2>1, FreedType
    <2>3. reg' \in [Regs -> Int]
      BY <1>t, <1>r, <2>1, WordType
    <2> QED
      BY <1>7, <1>t, <2>1, <2>2, <2>3 DEF RestoreReg, TypeOK
  <1>8. CASE DropFrame
    <2>1. sp' \in Int
      BY <1>8, <1>t, RegNumbers DEF DropFrame
    <2>2. mem' \in [Addr -> Cell]
      BY <1>8, <1>t, <2>1, FreedType DEF DropFrame
    <2> QED
      BY <1>8, <1>t, <2>1, <2>2 DEF DropFrame, TypeOK
  <1>9. CASE PopFp
    <2>1. mem' \in [Addr -> Cell]
      <3>1. sp + 2 \in Int
        BY <1>t
      <3> QED
        BY <1>9, <1>t, <3>1, FreedType DEF PopFp
    <2>2. reg' \in [Regs -> Int]
      BY <1>9, <1>t, <1>r, WordType, RegNumbers DEF PopFp
    <2> QED
      BY <1>9, <1>t, <2>1, <2>2 DEF PopFp, TypeOK
  <1>10. CASE Ret
    <2>1. mem' \in [Addr -> Cell] /\ sp' \in Int
      BY <1>10, <1>t, FreedType DEF Ret
    <2>2. Depth \in Nat \ {0}
      BY <1>10, CurType DEF Ret
    <2>3. /\ SubSeq(frames, 1, Depth - 1) \in Seq(ActivationRec)
          /\ Len(SubSeq(frames, 1, Depth - 1)) = Depth - 1
      <3>1. Depth - 1 \in 0..Len(frames)
        BY <2>2 DEF Depth
      <3> QED
        BY <1>t, <3>1, SeqParts
    <2>4. Depth # 1 => SubSeq(frames, 1, Depth - 1) # <<>>
      <3>1. ASSUME NEW t, Len(t) = Depth - 1, Depth # 1 PROVE t # <<>>
        BY <2>2, <3>1
      <3> QED
        BY <2>3, <3>1
    <2>5. /\ frames' \in Seq(ActivationRec)
          /\ pc' \in Pcs
          /\ pc' # "exit" => frames' # <<>>
      BY <1>10, <1>t, <2>3, <2>4 DEF Ret
    <2> QED
      BY <1>10, <1>t, <2>1, <2>5 DEF Ret, TypeOK
  <1>11. CASE ReadChain
    BY <1>11, <1>t DEF ReadChain, TypeOK
  <1>12. ASSUME NEW r \in Regs, NEW v \in Vals, SetReg(r, v) PROVE TypeOK'
    <2>1. v \in Int
      BY FrameAssumption
    <2> QED
      BY <1>12, <1>t, <1>r, <2>1 DEF SetReg, TypeOK
  <1>13. ASSUME NEW v \in Vals, StoreLocal(v) PROVE TypeOK'
    <2>1. PICK k \in 0..(Size[Fn] - 1) :
            /\ mem' = [mem EXCEPT ![LocalAddr(k)] = [val |-> v, part |-> "byte"]]
            /\ frames' = [frames EXCEPT ![Depth].loc =
                            [@ EXCEPT ![k] = [val |-> v, part |-> "byte"]]]
      BY <1>13 DEF StoreLocal
    <2>2. [val |-> v, part |-> "byte"] \in Cell
      BY FrameAssumption DEF Cell
    <2>3. mem' \in [Addr -> Cell]
      BY <1>t, <2>1, <2>2
    <2>4. Cur.loc \in [Offsets -> Cell]
      BY <1>13, CurType DEF StoreLocal, ActivationRec
    <2>5. [Cur.loc EXCEPT ![k] = [val |-> v, part |-> "byte"]] \in [Offsets -> Cell]
      BY <2>2, <2>4
    <2>6. frames' \in Seq(ActivationRec)
      BY <1>13, <2>1, <2>5, UpdateType DEF StoreLocal, Cur
    <2>7. frames' # <<>>
      BY <1>13, <1>t, <2>1 DEF StoreLocal
    <2> QED
      BY <1>13, <1>t, <2>3, <2>6, <2>7 DEF StoreLocal, TypeOK
  <1>14. ASSUME NEW mode \in Modes, NEW lo \in ArgVals, NEW hi \in ArgVals,
                PushArg(mode, lo, hi)
         PROVE  TypeOK'
    <2>1. lo \in Int /\ hi \in Int /\ sp - 2 \in Int /\ sp - 4 \in Int
      BY <1>t, FrameAssumption
    <2>2. Cur.out \in Seq(Int)
      BY <1>14, CurType DEF PushArg, ActivationRec
    <2>3. <<lo>> \in Seq(Int) /\ <<lo, hi>> \in Seq(Int)
      BY <2>1
    <2>4. <<lo>> \o Cur.out \in Seq(Int) /\ <<lo, hi>> \o Cur.out \in Seq(Int)
      BY <2>2, <2>3, ConcatProperties
    <2>5. \A x \in Seq(Int) :
            [frames EXCEPT ![Depth].out = x] \in Seq(ActivationRec)
      BY <1>14, UpdateType DEF PushArg
    <2>6. frames' \in Seq(ActivationRec) /\ frames' # <<>>
      <3>1. \/ frames' = [frames EXCEPT ![Depth].out = <<lo>> \o Cur.out]
            \/ frames' = [frames EXCEPT ![Depth].out = <<lo, hi>> \o Cur.out]
        BY <1>14 DEF PushArg, Cur
      <3>2. frames' \in Seq(ActivationRec)
        BY <2>4, <2>5, <3>1
      <3>3. frames # <<>>
        BY <1>14, <1>t DEF PushArg
      <3> QED
        BY <1>t, <3>1, <3>2, <3>3
    <2>7. sp' \in Int
      BY <1>14, <2>1 DEF PushArg
    <2>8. mem' \in [Addr -> Cell]
      <3>1. PutWord(mem, sp - 2, lo) \in [Addr -> Cell]
        BY <1>t, <2>1, PutWordType
      <3>2. PutWord(PutWord(mem, sp - 2, lo), sp - 4, hi) \in [Addr -> Cell]
        BY <2>1, <3>1, PutWordType
      <3> QED
        BY <1>14, <3>1, <3>2 DEF PushArg
    <2> QED
      BY <1>14, <1>t, <2>6, <2>7, <2>8 DEF PushArg, TypeOK
  <1>15. CASE PopArgs
    <2>1. PICK n \in 1..Len(Cur.out) :
            /\ sp' = sp + 2 * n
            /\ reg' = [reg EXCEPT ![IY] = sp + 2 * n]
            /\ frames' = [frames EXCEPT ![Depth].out = SubSeq(@, n + 1, Len(@))]
            /\ mem' = Freed(mem, sp + 2 * n)
      BY <1>15 DEF PopArgs
    <2>2. Cur.out \in Seq(Int)
      BY <1>15, CurType DEF PopArgs, ActivationRec
    <2>3. n \in 0..Len(Cur.out) /\ n \in Int
      BY <2>2
    <2>4. SubSeq(Cur.out, n + 1, Len(Cur.out)) \in Seq(Int)
      BY <2>2, <2>3, SeqParts
    <2>5. frames' \in Seq(ActivationRec) /\ frames' # <<>>
      <3>1. frames' = [frames EXCEPT ![Depth].out =
                         SubSeq(Cur.out, n + 1, Len(Cur.out))]
        BY <2>1 DEF Cur
      <3>2. frames' \in Seq(ActivationRec)
        BY <1>15, <2>4, <3>1, UpdateType DEF PopArgs
      <3>3. frames # <<>>
        BY <1>15, <1>t DEF PopArgs
      <3> QED
        BY <1>t, <3>1, <3>2, <3>3
    <2>6. sp' \in Int
      BY <1>t, <2>1, <2>3
    <2>7. mem' \in [Addr -> Cell] /\ reg' \in [Regs -> Int]
      BY <1>t, <1>r, <2>1, <2>6, FreedType, RegNumbers
    <2> QED
      BY <1>15, <1>t, <2>5, <2>6, <2>7 DEF PopArgs, TypeOK
  <1>16. ASSUME NEW n \in DynSizes, DynAlloc(n) PROVE TypeOK'
    <2>1. n \in Nat
      BY FrameAssumption
    <2>2. Cur.dyn \in Nat
      BY <1>16, CurType DEF DynAlloc, ActivationRec
    <2>3. Cur.dyn + n \in Nat
      BY <2>1, <2>2
    <2>4. frames' \in Seq(ActivationRec) /\ frames' # <<>>
      BY <1>16, <1>t, <2>3, UpdateType DEF DynAlloc, Cur
    <2>5. sp' \in Int /\ reg' \in [Regs -> Int]
      BY <1>16, <1>t, <1>r, <2>1, RegNumbers DEF DynAlloc
    <2> QED
      BY <1>16, <1>t, <2>4, <2>5 DEF DynAlloc, TypeOK
  <1>17. ASSUME NEW f \in Fns, Call(f) PROVE TypeOK'
    <2>1. PICK ra \in Sites[Fn] :
            /\ frames' = Append(frames, Activation(f, sp - 2, ra, reg',
                                            SubSeq(Cur.out, 1, NParams[f])))
            /\ mem' = PutWord(mem, sp - 2, ra)
      BY <1>17 DEF Call
    <2>2. ra \in Int /\ NParams[f] \in Nat
      <3>1. Sites[Fn] \subseteq Int
        BY <1>17, CurType, FrameAssumption DEF Call
      <3> QED
        BY <2>1, <3>1, FrameAssumption
    <2>3. Cur.out \in Seq(Int) /\ NParams[f] <= Len(Cur.out)
      BY <1>17, CurType DEF Call, ActivationRec
    <2>4. NParams[f] \in 0..Len(Cur.out)
      BY <2>2, <2>3
    <2>5. SubSeq(Cur.out, 1, NParams[f]) \in Seq(Int)
      BY <2>3, <2>4, SeqParts
    <2>6. reg' \in [Regs -> Int]
      BY <1>17, <1>t, RegNumbers DEF Call
    <2>7. sp' \in Int /\ sp - 2 \in Int
      BY <1>17, <1>t DEF Call
    <2>8. Activation(f, sp - 2, ra, reg', SubSeq(Cur.out, 1, NParams[f]))
            \in ActivationRec
      BY <2>2, <2>5, <2>6, <2>7, ActivationType
    <2>9. frames' \in Seq(ActivationRec) /\ frames' # <<>>
      BY <1>t, <2>1, <2>8
    <2>10. mem' \in [Addr -> Cell]
      BY <1>t, <2>1, <2>2, <2>7, PutWordType
    <2> QED
      BY <1>17, <1>t, <2>6, <2>7, <2>9, <2>10 DEF Call, TypeOK
  <1>18. CASE Halt \/ UNCHANGED vars
    BY <1>18, <1>t DEF Halt, vars, TypeOK
  <1> QED
    BY <1>1, <1>2, <1>3, <1>4, <1>5, <1>6, <1>7, <1>8, <1>9, <1>10, <1>11,
       <1>12, <1>13, <1>14, <1>15, <1>16, <1>17, <1>18
       DEF Next, Prologue, Epilogue

(***************************************************************************)
(* The machine state keeps its type through every run of the emitted code  *)
(* (expand_prologue, the body's insns, expand_epilogue).                   *)
(***************************************************************************)
THEOREM FrameTypes == Spec => []TypeOK
  BY TypeInit, TypeStep, PTL DEF Spec

(***************************************************************************)
(* The static chain, on the way from the call to the nested function.      *)
(***************************************************************************)
NestedWithoutLocals == \A f \in Nested : Size[f] = 0

ChainPcs == {"push_fp", "set_fp", "alloc", "save", "chain"}
ChainInv ==
  /\ pc = "chain" => Fn \in Nested
  /\ pc \in ChainPcs /\ Fn \in Nested => reg[IY] = Cur.regs[IY]

LEMMA ChainStep ==
  ASSUME NestedWithoutLocals, TypeOK, ChainInv, [Next]_vars
  PROVE  ChainInv'
  <1>t. /\ frames \in Seq(ActivationRec)
        /\ reg \in [Regs -> Int]
        /\ pc # "exit" => frames # <<>>
    BY DEF TypeOK
  <1>r. IX # IY /\ IX \in Regs /\ IY \in Regs
    BY DEF IX, IY, Regs
  <1>1. CASE PushFp \/ SaveReg
    BY <1>1 DEF PushFp, SaveReg, ChainInv, ChainPcs, Fn, Cur, Depth
  <1>2. CASE SetFp
    BY <1>2, <1>t, <1>r DEF SetFp, ChainInv, ChainPcs, Fn, Cur, Depth
  <1>3. CASE AllocFrame
    <2>1. Fn \in Nested => UNCHANGED reg
      BY <1>3, <1>t DEF AllocFrame, NestedWithoutLocals
    <2> QED
      BY <1>3, <2>1 DEF AllocFrame, ChainInv, ChainPcs, Fn, Cur, Depth
  <1>4. CASE EnterBody
    <2>1. Depth' = Depth /\ Fn' = Fn /\ Cur'.regs = Cur.regs
      <3>1. Depth \in DOMAIN frames /\ frames[Depth] \in ActivationRec
        BY <1>4, <1>t DEF EnterBody, Depth
      <3>2. frames' = [frames EXCEPT ![Depth].save = sp]
        BY <1>4 DEF EnterBody
      <3>3. Len(frames') = Len(frames)
        BY <1>t, <3>1, <3>2
      <3> QED
        BY <1>t, <3>1, <3>2, <3>3 DEF Depth, Fn, Cur, ActivationRec
    <2> QED
      BY <1>4, <2>1 DEF EnterBody, ChainInv, ChainPcs
  <1>5. ASSUME NEW f \in Fns, Call(f) PROVE ChainInv'
    <2>1. PICK ra \in Sites[Fn] :
            frames' = Append(frames, Activation(f, sp - 2, ra, reg',
                                            SubSeq(Cur.out, 1, NParams[f])))
      BY <1>5 DEF Call
    <2>2. Cur' = Activation(f, sp - 2, ra, reg',
                            SubSeq(Cur.out, 1, NParams[f]))
      BY <1>t, <2>1 DEF Cur, Depth
    <2> QED
      BY <1>5, <2>2 DEF Call, Activation, ChainInv
  <1>6. CASE \/ ReadChain \/ LeaveBody \/ RestoreReg \/ DropFrame \/ PopFp
             \/ Ret \/ PopArgs \/ Halt
    BY <1>6 DEF ReadChain, LeaveBody, RestoreReg, DropFrame, PopFp, Ret,
       PopArgs, Halt, ChainInv, ChainPcs, Fn, Cur, Depth, vars
  <1>7. CASE \/ \E r \in Regs, v \in Vals : SetReg(r, v)
             \/ \E v \in Vals : StoreLocal(v)
             \/ \E mode \in Modes :
                  \E lo, hi \in ArgVals : PushArg(mode, lo, hi)
             \/ \E n \in DynSizes : DynAlloc(n)
    BY <1>7 DEF SetReg, StoreLocal, PushArg, DynAlloc, ChainInv, ChainPcs
  <1>8. CASE UNCHANGED vars
    BY <1>8 DEF vars, ChainInv, Fn, Cur, Depth
  <1> QED
    BY <1>1, <1>2, <1>3, <1>4, <1>5, <1>6, <1>7, <1>8
       DEF Next, Prologue, Epilogue

(***************************************************************************)
(* If nested functions have no locals in their frames, so that the         *)
(* prologue leaves IY alone, each one finds the static chain its caller    *)
(* put there, with or without frame pointers (expand_prologue,             *)
(* STATIC_CHAIN_REGNUM).                                                   *)
(***************************************************************************)
THEOREM ChainsFound ==
  ASSUME NestedWithoutLocals
  PROVE  Spec => []StaticChainArrives
  <1>1. Init => ChainInv
    BY FrameAssumption
       DEF Init, ChainInv, Fn, Cur, Depth, Activation
  <1>2. TypeOK /\ ChainInv /\ [Next]_vars => ChainInv'
    BY ChainStep
  <1>3. TypeOK /\ ChainInv => StaticChainArrives
    <2> SUFFICES ASSUME TypeOK, ChainInv, pc = "chain"
                 PROVE  reg[IY] = Cur.regs[IY]
      BY DEF StaticChainArrives
    <2> QED
      BY DEF ChainInv, ChainPcs
  <1> QED
    BY <1>1, <1>2, <1>3, FrameTypes, PTL DEF Spec

-----------------------------------------------------------------------------
(***************************************************************************)
(* FrameInv is an invariant of every program compiled with frame pointers, *)
(* and with it the stack discipline Frame states: returns, the caller's SP *)
(* and IX, locals and word parameters.                                     *)
(***************************************************************************)

\* Memories m and n are the same from address lo up.
Agree(m, n, lo) == \A x \in Addr : x >= lo => n[x] = m[x]

(***************************************************************************)
(* Memory.                                                                 *)
(***************************************************************************)

\* Addresses are closed downwards to the bottom of the stack.
LEMMA AddrBelow ==
  ASSUME NEW a \in Addr, NEW b \in Int, Bottom <= b, b <= a
  PROVE  b \in Addr
  <1>1. Top \in Int /\ Bottom \in Int
    BY FrameAssumption
  <1> QED
    BY <1>1 DEF Addr

\* A push changes nothing from the old stack pointer up, and can be read.
LEMMA PutWordEffect ==
  ASSUME NEW m \in [Addr -> Cell], NEW a \in Int, NEW v \in Int
  PROVE  /\ Agree(m, PutWord(m, a, v), a + 2)
         /\ a \in Addr /\ a + 1 \in Addr => HoldsWord(PutWord(m, a, v), a, v)
  BY FrameAssumption DEF Agree, PutWord, HoldsWord, Addr

\* A push below an address of the segment, with room for it.
LEMMA PushEffect ==
  ASSUME NEW m \in [Addr -> Cell], NEW s \in Int, NEW v \in Int,
         NEW a \in Addr, s <= a, s - 2 >= Bottom
  PROVE  /\ Agree(m, PutWord(m, s - 2, v), s)
         /\ HoldsWord(PutWord(m, s - 2, v), s - 2, v)
  <1>1. Top \in Int /\ Bottom \in Int
    BY FrameAssumption
  <1>2. a \in Int
    BY <1>1 DEF Addr
  <1>3. /\ s - 2 \in Int /\ (s - 2) + 1 \in Int /\ (s - 2) + 2 = s
        /\ s - 2 <= a /\ (s - 2) + 1 <= a
        /\ Bottom <= s - 2 /\ Bottom <= (s - 2) + 1
    BY <1>1, <1>2
  <1>4. s - 2 \in Addr /\ (s - 2) + 1 \in Addr
    BY <1>3, AddrBelow
  <1> QED
    BY <1>3, <1>4, PutWordEffect

\* Agreement from lo up is agreement from any higher address up.
LEMMA AgreeUp ==
  ASSUME NEW m, NEW n, NEW lo \in Int, NEW hi \in Int, lo <= hi,
         Agree(m, n, lo)
  PROVE  Agree(m, n, hi)
  <1>1. Addr \subseteq Int
    BY FrameAssumption DEF Addr
  <1> QED
    BY <1>1 DEF Agree

\* Moving the stack pointer up to s changes nothing from s up.
LEMMA FreedEffect ==
  ASSUME NEW m \in [Addr -> Cell], NEW s \in Int
  PROVE  Agree(m, Freed(m, s), s)
  BY FrameAssumption DEF Agree, Freed, Addr

\* A word lying where two memories agree is in both.
LEMMA WordKept ==
  ASSUME NEW m, NEW n, NEW lo \in Int, NEW a \in Int, NEW v,
         Agree(m, n, lo), lo <= a, HoldsWord(m, a, v)
  PROVE  HoldsWord(n, a, v)
  BY FrameAssumption DEF Agree, HoldsWord, Addr

\* A word found by HoldsWord is what a pop reads.
LEMMA WordRead ==
  ASSUME NEW m, NEW a, NEW v, HoldsWord(m, a, v)
  PROVE  Word(m, a) = v
  BY DEF HoldsWord, Word

(***************************************************************************)
(* The layout of one activation.                                           *)
(***************************************************************************)

\* The number of registers a function saves is a natural number.
LEMMA SavedFinite ==
  ASSUME NEW f \in Fns
  PROVE  /\ Saved(f) \subseteq Regs
         /\ IsFiniteSet(Saved(f))
         /\ NSaved(f) \in Nat
  <1>1. Saved(f) \subseteq Regs
    <2>1. Live \in [Fns -> SUBSET Regs]
      BY FrameAssumption
    <2> QED
      BY <2>1 DEF Saved
  <1>2. IsFiniteSet(Regs)
    <2>1. 1 \in Int /\ 5 \in Int
      OBVIOUS
    <2> QED
      BY <2>1, FS_Interval DEF Regs
  <1>3. IsFiniteSet(Saved(f))
    BY <1>1, <1>2, FS_Subset
  <1> QED
    BY <1>1, <1>3, FS_CardinalityType DEF NSaved

\* From the return address down: IX, locals, saved registers, pushed words.
LEMMA Layout ==
  ASSUME NEW fr \in ActivationRec
  PROVE  /\ fr.fn \in Fns /\ fr.sp0 \in Int /\ Size[fr.fn] \in Nat
         /\ Len(fr.out) \in Nat /\ fr.dyn \in Nat
         /\ Bp(fr) \in Int /\ LocalsLow(fr) \in Int
         /\ FrameLow(fr) \in Int /\ BodySp(fr) \in Int
         /\ BodySp(fr) <= FrameLow(fr)
         /\ FrameLow(fr) <= LocalsLow(fr)
         /\ LocalsLow(fr) <= Bp(fr)
         /\ Bp(fr) = fr.sp0 - 2
  <1>1. /\ fr.fn \in Fns /\ fr.sp0 \in Int /\ fr.dyn \in Nat
        /\ fr.out \in Seq(Int)
    BY DEF ActivationRec
  <1>2. Size[fr.fn] \in Nat /\ NSaved(fr.fn) \in Nat
    <2>1. Size \in [Fns -> Nat]
      BY FrameAssumption
    <2> QED
      BY <1>1, <2>1, SavedFinite
  <1>3. Len(fr.out) \in Nat
    BY <1>1
  <1>4. Bp(fr) = fr.sp0 - 2 /\ Bp(fr) \in Int
    BY <1>1 DEF Bp
  <1>5. LocalsLow(fr) \in Int /\ LocalsLow(fr) <= Bp(fr)
    BY <1>2, <1>4 DEF LocalsLow
  <1>6. FrameLow(fr) \in Int /\ FrameLow(fr) <= LocalsLow(fr)
    BY <1>2, <1>5 DEF FrameLow
  <1>7. BodySp(fr) \in Int /\ BodySp(fr) <= FrameLow(fr)
    BY <1>1, <1>3, <1>6 DEF BodySp
  <1> QED
    BY <1>1, <1>2, <1>3, <1>4, <1>5, <1>6, <1>7

\* The words an activation has pushed lie below its locals.
LEMMA PushedBelow ==
  ASSUME NEW fr \in ActivationRec, NEW j \in 1..Len(fr.out)
  PROVE  /\ BodySp(fr) + 2 * (j - 1) \in Int
         /\ BodySp(fr) <= BodySp(fr) + 2 * (j - 1)
         /\ BodySp(fr) + 2 * (j - 1) + 1 < LocalsLow(fr)
  <1>1. /\ Len(fr.out) \in Nat /\ fr.dyn \in Nat /\ FrameLow(fr) \in Int
        /\ LocalsLow(fr) \in Int /\ FrameLow(fr) <= LocalsLow(fr)
        /\ BodySp(fr) = FrameLow(fr) - fr.dyn - 2 * Len(fr.out)
    BY Layout DEF BodySp
  <1>2. ASSUME NEW n \in Nat, NEW d \in Nat, NEW f \in Int, NEW l \in Int,
               f <= l, NEW i \in 1..n, NEW b, b = f - d - 2 * n
        PROVE  /\ b + 2 * (i - 1) \in Int
               /\ b <= b + 2 * (i - 1)
               /\ b + 2 * (i - 1) + 1 < l
    BY <1>2
  <1> QED
    BY <1>1, <1>2

\* What an activation owns lies above its stack pointer, so a memory that
\* agrees from there up holds it too.
LEMMA OwnedKept ==
  ASSUME NEW fr \in ActivationRec, NEW m, NEW n, NEW lo \in Int,
         Agree(m, n, lo)
  PROVE  /\ RaAt(m, fr) /\ lo <= fr.sp0 => RaAt(n, fr)
         /\ FpAt(m, fr) /\ lo <= Bp(fr) => FpAt(n, fr)
         /\ LocalsAt(m, fr) /\ lo <= LocalsLow(fr) => LocalsAt(n, fr)
         /\ ParamsAt(m, fr) /\ lo <= fr.sp0 => ParamsAt(n, fr)
         /\ PushedAt(m, fr) /\ lo <= BodySp(fr) => PushedAt(n, fr)
         /\ Owned(m, fr) /\ lo <= BodySp(fr) => Owned(n, fr)
  <1>1. RaAt(m, fr) /\ lo <= fr.sp0 => RaAt(n, fr)
    BY Layout, WordKept DEF RaAt
  <1>2. FpAt(m, fr) /\ lo <= Bp(fr) => FpAt(n, fr)
    BY Layout, WordKept DEF FpAt
  <1>3. LocalsAt(m, fr) /\ lo <= LocalsLow(fr) => LocalsAt(n, fr)
    BY Layout DEF LocalsAt, Agree
  <1>4. ParamsAt(m, fr) /\ lo <= fr.sp0 => ParamsAt(n, fr)
    <2> SUFFICES ASSUME ParamsAt(m, fr), lo <= fr.sp0,
                        NEW k \in 1..Len(fr.args)
                 PROVE  HoldsWord(n, fr.sp0 + 2 + 2 * (k - 1), fr.args[k])
      BY DEF ParamsAt
    <2>1. HoldsWord(m, fr.sp0 + 2 + 2 * (k - 1), fr.args[k])
      BY DEF ParamsAt
    <2>2. /\ fr.sp0 + 2 + 2 * (k - 1) \in Int
          /\ lo <= fr.sp0 + 2 + 2 * (k - 1)
      BY Layout
    <2> QED
      BY <2>1, <2>2, WordKept
  <1>5. PushedAt(m, fr) /\ lo <= BodySp(fr) => PushedAt(n, fr)
    <2> SUFFICES ASSUME PushedAt(m, fr), lo <= BodySp(fr),
                        NEW k \in 1..Len(fr.out)
                 PROVE  HoldsWord(n, BodySp(fr) + 2 * (k - 1), fr.out[k])
      BY DEF PushedAt
    <2>1. HoldsWord(m, BodySp(fr) + 2 * (k - 1), fr.out[k])
      BY DEF PushedAt
    <2>2. /\ BodySp(fr) + 2 * (k - 1) \in Int
          /\ lo <= BodySp(fr) + 2 * (k - 1)
      BY Layout
    <2> QED
      BY <2>1, <2>2, WordKept
  <1> QED
    BY <1>1, <1>2, <1>3, <1>4, <1>5, Layout DEF Owned

(***************************************************************************)
(* Steps inside one activation.                                            *)
(***************************************************************************)

\* A step that keeps the identity of the current activation, all of its
\* callers, and memory from its return address up, disturbs neither the
\* nesting nor what callers own, nor the return address and parameters.
LEMMA SameActivation ==
  ASSUME TypeOK, TypeOK', pc # "exit", Nesting, Memory,
         Len(frames') = Len(frames),
         \A i \in 1..(Depth - 1) : frames'[i] = frames[i],
         Cur'.fn = Cur.fn, Cur'.sp0 = Cur.sp0, Cur'.ra = Cur.ra,
         Cur'.regs = Cur.regs, Cur'.args = Cur.args,
         Agree(mem, mem', Cur.sp0)
  PROVE  /\ Nesting'
         /\ \A i \in 1..(Depth' - 1) : Owned(mem', frames'[i])
         /\ RaAt(mem', Cur')
         /\ WordArguments => ParamsAt(mem', Cur')
  <1>1. /\ Depth' = Depth /\ Depth \in Nat \ {0}
        /\ Cur = frames[Depth] /\ Cur' = frames'[Depth]
    BY CurType DEF Depth, Cur
  <1>2. /\ \A i \in 1..Depth : frames[i] \in ActivationRec
        /\ Cur \in ActivationRec /\ Cur.sp0 \in Int
    <2>1. frames \in Seq(ActivationRec) /\ Depth = Len(frames)
      BY DEF TypeOK, Depth
    <2>2. Cur \in ActivationRec
      BY CurType
    <2>3. Cur.sp0 \in Int
      BY <2>2, Layout
    <2> QED
      BY <2>1, <2>2, <2>3
  <1>3. \A i \in 1..Depth :
          frames'[i].sp0 = frames[i].sp0 /\ frames'[i].regs = frames[i].regs
    BY <1>1
  <1>4. Nesting'
    <2>1. \A i \in 1..(Depth - 1) :
            /\ frames'[i].save = FrameLow(frames'[i])
            /\ frames'[i + 1].sp0 + 2 = BodySp(frames'[i])
            /\ frames'[i + 1].regs[IX] = Bp(frames'[i])
      <3> SUFFICES ASSUME NEW i \in 1..(Depth - 1)
                   PROVE  /\ frames'[i].save = FrameLow(frames'[i])
                          /\ frames'[i + 1].sp0 + 2 = BodySp(frames'[i])
                          /\ frames'[i + 1].regs[IX] = Bp(frames'[i])
        OBVIOUS
      <3>1. i + 1 \in 1..Depth /\ frames'[i] = frames[i]
        BY <1>1
      <3> QED
        BY <1>3, <3>1 DEF Nesting
    <2>2. \A i, j \in 1..Depth :
            i < j => frames'[j].sp0 + 2 <= BodySp(frames'[i])
      <3> SUFFICES ASSUME NEW i \in 1..Depth, NEW j \in 1..Depth, i < j
                   PROVE  frames'[j].sp0 + 2 <= BodySp(frames'[i])
        OBVIOUS
      <3>1. frames'[i] = frames[i]
        BY <1>1
      <3> QED
        BY <1>3, <3>1 DEF Nesting
    <2> QED
      BY <1>1, <2>1, <2>2 DEF Nesting
  <1>5. \A i \in 1..(Depth' - 1) : Owned(mem', frames'[i])
    <2> SUFFICES ASSUME NEW i \in 1..(Depth - 1)
                 PROVE  Owned(mem', frames[i])
      BY <1>1
    <2>1. /\ i \in 1..Depth /\ Depth \in 1..Depth /\ i < Depth
          /\ frames[i] \in ActivationRec
      BY <1>1, <1>2
    <2>2. Cur.sp0 + 2 <= BodySp(frames[i])
      BY <1>1, <2>1 DEF Nesting
    <2>3. Cur.sp0 <= BodySp(frames[i])
      <3>1. BodySp(frames[i]) \in Int
        BY <2>1, Layout
      <3> QED
        BY <1>2, <2>2, <3>1
    <2>4. Owned(mem, frames[i])
      BY DEF Memory
    <2> QED
      BY <1>2, <2>1, <2>3, <2>4, OwnedKept
  <1>6. RaAt(mem', Cur') /\ (WordArguments => ParamsAt(mem', Cur'))
    <2>1. RaAt(mem, Cur) /\ (WordArguments => ParamsAt(mem, Cur))
      BY DEF Memory
    <2>2. Cur.sp0 <= Cur.sp0
      BY <1>2
    <2>3. RaAt(mem', Cur) /\ (WordArguments => ParamsAt(mem', Cur))
      BY <1>2, <2>1, <2>2, OwnedKept
    <2> QED
      BY <2>3 DEF RaAt, ParamsAt
  <1> QED
    BY <1>4, <1>5, <1>6

\* The facts about the current activation that every step starts from.
LEMMA Current ==
  ASSUME FrameInv, Running
  PROVE  /\ TypeOK /\ Registers /\ History /\ Nesting /\ Memory
         /\ sp \in Int /\ sp >= Bottom
         /\ reg \in [Regs -> Int] /\ mem \in [Addr -> Cell]
         /\ frames \in Seq(ActivationRec)
         /\ Depth = Len(frames) /\ Depth \in Nat \ {0}
         /\ Depth \in DOMAIN frames
         /\ Cur = frames[Depth] /\ Cur \in ActivationRec
         /\ Fn = Cur.fn /\ Fn \in Fns
         /\ pc # "exit" /\ pc # "lost"
  <1>1. /\ TypeOK /\ Registers /\ History /\ Nesting /\ Memory
        /\ sp >= Bottom /\ pc # "exit" /\ pc # "lost"
    BY DEF FrameInv, Running
  <1>2. /\ Depth \in Nat \ {0} /\ Depth \in DOMAIN frames
        /\ Cur \in ActivationRec /\ Fn \in Fns
    BY <1>1, CurType
  <1>3. /\ sp \in Int /\ reg \in [Regs -> Int] /\ mem \in [Addr -> Cell]
        /\ frames \in Seq(ActivationRec)
    BY <1>1 DEF TypeOK
  <1> QED
    BY <1>1, <1>2, <1>3 DEF Depth, Cur, Fn

\* A step that leaves the history alone.
LEMMA FramesUnchanged ==
  ASSUME FrameInv, Running, TypeOK', frames' = frames,
         Agree(mem, mem', Cur.sp0)
  PROVE  /\ Nesting'
         /\ \A i \in 1..(Depth' - 1) : Owned(mem', frames'[i])
         /\ RaAt(mem', Cur')
         /\ WordArguments => ParamsAt(mem', Cur')
         /\ Cur' = Cur /\ Depth' = Depth /\ Fn' = Fn
  <1>1. Cur' = Cur /\ Depth' = Depth /\ Fn' = Fn
    BY DEF Cur, Depth, Fn
  <1> QED
    BY <1>1, Current, SameActivation

\* push ix
LEMMA PushFpStep ==
  ASSUME FrameInv, FramePointers, TypeOK', PushFp
  PROVE  FrameInv'
  <1>1. Running /\ pc = "push_fp"
    BY DEF PushFp, Running
  <1> USE Current, <1>1
  <1>2. FpNeeded[Fn]
    BY DEF FramePointers
  <1>3. /\ sp' = sp - 2 /\ mem' = PutWord(mem, sp - 2, reg[IX])
        /\ pc' = "set_fp" /\ frames' = frames /\ reg' = reg
        /\ sp - 2 >= Bottom
    BY <1>2 DEF PushFp, Room
  <1>4. sp = Cur.sp0 /\ reg[IX] = Cur.regs[IX]
    BY DEF Registers
  <1>5. Cur.sp0 \in Addr
    BY DEF Memory, RaAt, HoldsWord
  <1>6. Agree(mem, mem', Cur.sp0) /\ HoldsWord(mem', Cur.sp0 - 2, Cur.regs[IX])
    <2>1. reg[IX] \in Int /\ sp <= Cur.sp0
      BY <1>4, RegNumbers
    <2> QED
      BY <1>3, <1>4, <1>5, <2>1, PushEffect
  <1>7. /\ Nesting'
        /\ \A i \in 1..(Depth' - 1) : Owned(mem', frames'[i])
        /\ RaAt(mem', Cur')
        /\ WordArguments => ParamsAt(mem', Cur')
        /\ Cur' = Cur /\ Depth' = Depth /\ Fn' = Fn
    BY <1>3, <1>6, FramesUnchanged
  <1>8. FpAt(mem', Cur')
    BY <1>6, <1>7 DEF FpAt, Bp
  <1>9. Registers'
    BY <1>3, <1>4, <1>7 DEF Registers, InBody, Bp
  <1>10. History'
    BY <1>3, <1>7 DEF History, InBody, InPrologue
  <1>11. Memory'
    BY <1>3, <1>7, <1>8 DEF Memory, InBody
  <1> QED
    BY <1>3, <1>7, <1>9, <1>10, <1>11
       DEF FrameInv, ReturnIntegrity, Running

\* ld ix,0 ; add ix,sp
LEMMA SetFpStep ==
  ASSUME FrameInv, TypeOK', SetFp
  PROVE  FrameInv'
  <1>1. Running /\ pc = "set_fp"
    BY DEF SetFp, Running
  <1> USE Current, <1>1
  <1>2. /\ sp' = sp /\ mem' = mem /\ frames' = frames
        /\ pc' = "alloc" /\ reg' = [reg EXCEPT ![IX] = sp]
    BY DEF SetFp
  <1>3. sp = Bp(Cur) /\ reg'[IX] = sp
    BY <1>2, RegNumbers DEF Registers
  <1>4. /\ Nesting'
        /\ \A i \in 1..(Depth' - 1) : Owned(mem', frames'[i])
        /\ RaAt(mem', Cur')
        /\ WordArguments => ParamsAt(mem', Cur')
        /\ Cur' = Cur /\ Depth' = Depth /\ Fn' = Fn
    BY <1>2, FramesUnchanged DEF Agree
  <1>5. Registers'
    BY <1>2, <1>3, <1>4 DEF Registers, InBody
  <1>6. History'
    BY <1>2, <1>4 DEF History, InBody, InPrologue
  <1>7. Memory'
    BY <1>2, <1>4 DEF Memory, InBody
  <1> QED
    BY <1>2, <1>4, <1>5, <1>6, <1>7 DEF FrameInv, ReturnIntegrity, Running

\* ld iy,-size ; add iy,sp ; ld sp,iy
LEMMA AllocFrameStep ==
  ASSUME FrameInv, TypeOK', AllocFrame
  PROVE  FrameInv'
  <1>1. Running /\ pc = "alloc"
    BY DEF AllocFrame, Running
  <1> USE Current, <1>1
  <1>2. /\ mem' = mem /\ frames' = frames /\ pc' = "save"
        /\ todo' = Saved(Fn)
    BY DEF AllocFrame
  <1>3. Size[Fn] \in Nat
    BY CurType
  <1>4. sp' = sp - Size[Fn] /\ sp' >= Bottom /\ reg'[IX] = reg[IX]
    BY <1>3, RegNumbers DEF AllocFrame, Room, IX, IY
  <1>5. sp = Bp(Cur) /\ reg[IX] = Bp(Cur)
    BY DEF Registers
  <1>6. /\ Nesting'
        /\ \A i \in 1..(Depth' - 1) : Owned(mem', frames'[i])
        /\ RaAt(mem', Cur')
        /\ WordArguments => ParamsAt(mem', Cur')
        /\ Cur' = Cur /\ Depth' = Depth /\ Fn' = Fn
    BY <1>2, FramesUnchanged DEF Agree
  <1>7. sp' = FrameLow(Cur) + 2 * Cardinality(Saved(Fn))
    <2>1. Bp(Cur) \in Int /\ Cardinality(Saved(Fn)) \in Nat
      BY Layout, SavedFinite DEF NSaved
    <2>2. FrameLow(Cur) = Bp(Cur) - Size[Fn] - 2 * Cardinality(Saved(Fn))
      BY DEF FrameLow, LocalsLow, NSaved
    <2> QED
      BY <1>3, <1>4, <1>5, <2>1, <2>2
  <1>8. Registers'
    BY <1>2, <1>4, <1>5, <1>6, <1>7 DEF Registers, InBody
  <1>9. History'
    BY <1>2, <1>6 DEF History, InBody, InPrologue
  <1>10. Memory'
    BY <1>2, <1>6 DEF Memory, InBody
  <1> QED
    BY <1>2, <1>4, <1>6, <1>8, <1>9, <1>10
       DEF FrameInv, ReturnIntegrity, Running

\* A set of registers still to be done: its size, and that of the rest.
LEMMA TodoSize ==
  ASSUME NEW f \in Fns, NEW S, S \subseteq Saved(f)
  PROVE  /\ Cardinality(S) \in Nat
         /\ Cardinality(S) <= NSaved(f)
         /\ \A r \in S : Cardinality(S \ {r}) = Cardinality(S) - 1
         /\ S = {} => Cardinality(S) = 0
  <1>1. IsFiniteSet(Saved(f)) /\ S \in SUBSET Saved(f)
    BY SavedFinite
  <1>2. IsFiniteSet(S) /\ Cardinality(S) <= NSaved(f)
    BY <1>1, FS_Subset DEF NSaved
  <1>3. Cardinality(S) \in Nat
    BY <1>2, FS_CardinalityType
  <1>4. \A r \in S : Cardinality(S \ {r}) = Cardinality(S) - 1
    BY <1>2, FS_RemoveElement
  <1> QED
    BY <1>2, <1>3, <1>4, FS_EmptySet

\* push of a call-saved register
LEMMA SaveRegStep ==
  ASSUME FrameInv, TypeOK', SaveReg
  PROVE  FrameInv'
  <1>1. Running /\ pc = "save"
    BY DEF SaveReg, Running
  <1> USE Current, <1>1
  <1>2. PICK r \in todo : /\ mem' = PutWord(mem, sp - 2, reg[r])
                         /\ sp' = sp - 2
                         /\ todo' = todo \ {r}
    BY DEF SaveReg
  <1>3. /\ frames' = frames /\ pc' = "save" /\ reg' = reg
        /\ sp - 2 >= Bottom
    BY DEF SaveReg, Room
  <1>4. /\ todo \subseteq Saved(Fn) /\ reg[IX] = Bp(Cur)
        /\ sp = FrameLow(Cur) + 2 * Cardinality(todo)
    BY DEF Registers
  <1>5. /\ Cardinality(todo) \in Nat /\ Cardinality(todo) <= NSaved(Fn)
        /\ Cardinality(todo \ {r}) = Cardinality(todo) - 1
    BY <1>4, TodoSize
  <1>6. /\ sp <= Bp(Cur) /\ Bp(Cur) <= Cur.sp0 /\ Bp(Cur) \in Int
        /\ Cur.sp0 \in Int /\ FrameLow(Cur) \in Int
    <2>1. /\ LocalsLow(Cur) <= Bp(Cur) /\ Bp(Cur) = Cur.sp0 - 2
          /\ LocalsLow(Cur) \in Int /\ Bp(Cur) \in Int
          /\ Cur.sp0 \in Int /\ FrameLow(Cur) \in Int
      BY Layout
    <2>2. NSaved(Fn) \in Nat /\ FrameLow(Cur) = LocalsLow(Cur) - 2 * NSaved(Fn)
      BY SavedFinite DEF FrameLow
    <2> QED
      BY SMTT(30), <1>4, <1>5, <2>1, <2>2
  <1>7. Agree(mem, mem', sp)
    <2>1. sp - 2 \in Int /\ (sp - 2) + 2 = sp /\ reg[r] \in Int
      BY <1>2 DEF TypeOK
    <2> QED
      BY <1>2, <2>1, PutWordEffect
  <1>8. Agree(mem, mem', Cur.sp0) /\ Agree(mem, mem', Bp(Cur))
    BY <1>6, <1>7, AgreeUp
  <1>9. /\ Nesting'
        /\ \A i \in 1..(Depth' - 1) : Owned(mem', frames'[i])
        /\ RaAt(mem', Cur')
        /\ WordArguments => ParamsAt(mem', Cur')
        /\ Cur' = Cur /\ Depth' = Depth /\ Fn' = Fn
    BY <1>3, <1>8, FramesUnchanged
  <1>10. FpAt(mem', Cur')
    <2>1. FpAt(mem, Cur)
      BY DEF Memory
    <2> QED
      BY <1>6, <1>8, <1>9, <2>1, OwnedKept
  <1>11. Registers'
    <2>1. sp' = FrameLow(Cur) + 2 * Cardinality(todo')
      BY <1>2, <1>4, <1>5, <1>6
    <2>2. todo' \subseteq Saved(Fn)
      BY <1>2, <1>4
    <2> QED
      BY <1>3, <1>4, <1>9, <2>1, <2>2 DEF Registers, InBody
  <1>12. History'
    BY <1>3, <1>9 DEF History, InBody, InPrologue
  <1>13. Memory'
    BY <1>3, <1>9, <1>10 DEF Memory, InBody
  <1> QED
    BY <1>2, <1>3, <1>9, <1>11, <1>12, <1>13
       DEF FrameInv, ReturnIntegrity, Running

\* What replacing the current record by fr does to the history.
LEMMA CurReplaced ==
  ASSUME FrameInv, Running, NEW fr,
         frames' = [frames EXCEPT ![Depth] = fr]
  PROVE  /\ Len(frames') = Len(frames) /\ Depth' = Depth
         /\ \A i \in 1..(Depth - 1) : frames'[i] = frames[i]
         /\ Cur' = fr
  <1>1. /\ frames \in Seq(ActivationRec) /\ Depth = Len(frames)
        /\ Depth \in Nat \ {0}
    BY Current
  <1>2. Len(frames') = Len(frames)
    BY <1>1
  <1>3. Depth' = Depth
    BY <1>2 DEF Depth
  <1>4. \A i \in 1..(Depth - 1) : frames'[i] = frames[i]
    BY <1>1
  <1>5. frames'[Depth] = fr
    BY <1>1
  <1> QED
    BY <1>2, <1>3, <1>4, <1>5 DEF Cur

\* A step that changes only out, dyn, save and loc of the current record.
LEMMA CurUpdated ==
  ASSUME FrameInv, Running, TypeOK', NEW fr,
         frames' = [frames EXCEPT ![Depth] = fr],
         fr.fn = Cur.fn, fr.sp0 = Cur.sp0, fr.ra = Cur.ra,
         fr.regs = Cur.regs, fr.args = Cur.args,
         fr.fn \notin Alloca => fr.dyn = 0,
         Agree(mem, mem', Cur.sp0)
  PROVE  /\ Nesting'
         /\ \A i \in 1..(Depth' - 1) : Owned(mem', frames'[i])
         /\ RaAt(mem', Cur')
         /\ WordArguments => ParamsAt(mem', Cur')
         /\ Cur' = fr /\ Depth' = Depth /\ Fn' = Fn
         /\ \A i \in 1..Depth' :
              frames'[i].fn \notin Alloca => frames'[i].dyn = 0
         /\ Bp(fr) = Bp(Cur) /\ LocalsLow(fr) = LocalsLow(Cur)
         /\ FrameLow(fr) = FrameLow(Cur)
  <1>1. /\ Len(frames') = Len(frames) /\ Depth' = Depth
        /\ \A i \in 1..(Depth - 1) : frames'[i] = frames[i]
        /\ Cur' = fr
    BY CurReplaced
  <1>2. /\ Nesting'
        /\ \A i \in 1..(Depth' - 1) : Owned(mem', frames'[i])
        /\ RaAt(mem', Cur')
        /\ WordArguments => ParamsAt(mem', Cur')
    BY <1>1, Current, SameActivation
  <1>3. \A i \in 1..Depth' :
          frames'[i].fn \notin Alloca => frames'[i].dyn = 0
    <2>1. \A i \in 1..Depth : frames[i].fn \notin Alloca => frames[i].dyn = 0
      BY Current DEF History
    <2>2. frames'[Depth] = fr
      BY <1>1 DEF Cur
    <2>3. Depth \in Nat \ {0}
      BY Current
    <2> QED
      BY <1>1, <2>1, <2>2, <2>3
  <1>4. Fn' = Fn
    BY <1>1 DEF Fn
  <1>5. /\ Bp(fr) = Bp(Cur) /\ LocalsLow(fr) = LocalsLow(Cur)
        /\ FrameLow(fr) = FrameLow(Cur)
    BY DEF Bp, LocalsLow, FrameLow
  <1> QED
    BY <1>1, <1>2, <1>3, <1>4, <1>5

\* The prologue ends.
LEMMA EnterBodyStep ==
  ASSUME FrameInv, TypeOK', EnterBody
  PROVE  FrameInv'
  <1>1. Running /\ pc = "save"
    BY DEF EnterBody, Running
  <1> USE Current, <1>1
  <1> DEFINE fr == [Cur EXCEPT !.save = sp]
  <1>2. /\ frames' = [frames EXCEPT ![Depth] = fr]
        /\ pc' \in {"chain", "body"} /\ sp' = sp /\ reg' = reg
        /\ mem' = mem /\ todo = {}
    BY DEF EnterBody, Cur
  <1>3. /\ fr.fn = Cur.fn /\ fr.sp0 = Cur.sp0 /\ fr.ra = Cur.ra
        /\ fr.regs = Cur.regs /\ fr.args = Cur.args /\ fr.save = sp
        /\ fr.out = Cur.out /\ fr.dyn = Cur.dyn /\ fr.loc = Cur.loc
    BY DEF ActivationRec
  <1>4. /\ Cur.out = <<>> /\ Cur.dyn = 0
        /\ \A k \in Offsets : Cur.loc[k] = Junk
    BY DEF History, InPrologue
  <1> HIDE DEF fr
  <1>5. /\ Nesting'
        /\ \A i \in 1..(Depth' - 1) : Owned(mem', frames'[i])
        /\ RaAt(mem', Cur')
        /\ WordArguments => ParamsAt(mem', Cur')
        /\ Cur' = fr /\ Depth' = Depth /\ Fn' = Fn
        /\ \A i \in 1..Depth' :
             frames'[i].fn \notin Alloca => frames'[i].dyn = 0
        /\ Bp(fr) = Bp(Cur) /\ LocalsLow(fr) = LocalsLow(Cur)
        /\ FrameLow(fr) = FrameLow(Cur)
    <2>1. Agree(mem, mem', Cur.sp0)
      BY <1>2 DEF Agree
    <2> QED
      BY <1>2, <1>3, <1>4, <2>1, CurUpdated
  <1>6. /\ FrameLow(Cur) \in Int /\ LocalsLow(Cur) \in Int /\ Bp(Cur) \in Int
        /\ FrameLow(Cur) <= LocalsLow(Cur) /\ Size[Fn] \in Nat
        /\ LocalsLow(Cur) = Bp(Cur) - Size[Fn]
    BY Layout DEF LocalsLow
  <1>7. sp = FrameLow(Cur) /\ reg[IX] = Bp(Cur)
    <2>1. /\ reg[IX] = Bp(Cur) /\ todo \subseteq Saved(Fn)
          /\ sp = FrameLow(Cur) + 2 * Cardinality(todo)
      BY DEF Registers
    <2>2. Cardinality(todo) = 0
      BY <1>2, <2>1, TodoSize
    <2> QED
      BY <1>6, <2>1, <2>2
  <1>8. BodySp(fr) = FrameLow(Cur)
    <2>1. BodySp(fr) = FrameLow(Cur) - 0 - 2 * Len(<<>>)
      BY <1>3, <1>4, <1>5 DEF BodySp
    <2> QED
      BY <1>6, <2>1
  <1>9. Registers'
    BY <1>2, <1>5, <1>7, <1>8 DEF Registers, InBody
  <1>10. History'
    BY <1>2, <1>3, <1>5, <1>7 DEF History, InBody, InPrologue
  <1>11. FpAt(mem, Cur)
    BY DEF Memory
  <1>12. LocalsAt(mem', Cur')
    <2> SUFFICES ASSUME NEW k \in 0..(Size[Fn] - 1)
                 PROVE  /\ LocalsLow(Cur) + k \in Addr
                        /\ Cur.loc[k] # Junk =>
                             mem[LocalsLow(Cur) + k] = Cur.loc[k]
      BY <1>2, <1>3, <1>5 DEF LocalsAt
    <2>1. k \in Offsets
      BY DEF Offsets
    <2>2. Bp(Cur) \in Addr /\ Bottom \in Int
      BY <1>11, FrameAssumption DEF FpAt, HoldsWord
    <2>3. /\ LocalsLow(Cur) + k \in Int /\ LocalsLow(Cur) + k <= Bp(Cur)
          /\ Bottom <= LocalsLow(Cur) + k
      BY <1>6, <1>7, <2>2
    <2>4. LocalsLow(Cur) + k \in Addr
      BY <2>2, <2>3, AddrBelow
    <2> QED
      BY <1>4, <2>1, <2>4
  <1>13. PushedAt(mem', Cur')
    <2>1. Len(Cur'.out) = 0
      BY <1>3, <1>4, <1>5
    <2> QED
      BY <2>1 DEF PushedAt
  <1>14. FpAt(mem', Cur')
    BY <1>2, <1>3, <1>5, <1>11 DEF FpAt
  <1>15. Memory'
    BY <1>5, <1>12, <1>13, <1>14 DEF Memory
  <1> QED
    BY <1>2, <1>5, <1>9, <1>10, <1>15
       DEF FrameInv, ReturnIntegrity, Running

\* Steps of the body that touch neither memory, the stack pointer nor IX.
LEMMA QuietStep ==
  ASSUME FrameInv, FramePointers, TypeOK',
         ReadChain \/ \E r \in Regs, v \in Vals : SetReg(r, v)
  PROVE  FrameInv'
  <1>1. Running /\ InBody
    BY DEF ReadChain, SetReg, Running, InBody
  <1> USE Current, <1>1
  <1>2. FpNeeded[Fn]
    BY DEF FramePointers
  <1>3. /\ sp' = sp /\ mem' = mem /\ frames' = frames /\ pc' = "body"
        /\ reg'[IX] = reg[IX]
    BY <1>2, RegNumbers DEF ReadChain, SetReg
  <1>4. /\ Nesting'
        /\ \A i \in 1..(Depth' - 1) : Owned(mem', frames'[i])
        /\ RaAt(mem', Cur')
        /\ WordArguments => ParamsAt(mem', Cur')
        /\ Cur' = Cur /\ Depth' = Depth /\ Fn' = Fn
    BY <1>3, FramesUnchanged DEF Agree
  <1>5. Registers'
    BY <1>3, <1>4 DEF Registers, InBody
  <1>6. History'
    BY <1>3, <1>4 DEF History, InBody, InPrologue
  <1>7. Memory'
    BY <1>3, <1>4 DEF Memory, InBody
  <1> QED
    BY <1>3, <1>4, <1>5, <1>6, <1>7 DEF FrameInv, ReturnIntegrity, Running

\* Where the body of a function with a frame pointer stands.
LEMMA BodyFacts ==
  ASSUME FrameInv, FramePointers, pc = "body"
  PROVE  /\ Running /\ InBody /\ FpNeeded[Fn]
         /\ sp = BodySp(Cur) /\ reg[IX] = Bp(Cur)
         /\ Cur.save = FrameLow(Cur)
         /\ RaAt(mem, Cur) /\ FpAt(mem, Cur) /\ LocalsAt(mem, Cur)
         /\ WordArguments => ParamsAt(mem, Cur) /\ PushedAt(mem, Cur)
         /\ Cur.sp0 \in Addr /\ Bp(Cur) \in Addr
  <1>1. Running /\ InBody
    BY DEF Running, InBody
  <1>2. FpNeeded[Fn]
    BY <1>1, Current DEF FramePointers
  <1>3. /\ sp = BodySp(Cur) /\ reg[IX] = Bp(Cur)
        /\ Cur.save = FrameLow(Cur)
    BY <1>1, Current DEF Registers, History
  <1>4. /\ RaAt(mem, Cur) /\ FpAt(mem, Cur) /\ LocalsAt(mem, Cur)
        /\ WordArguments => ParamsAt(mem, Cur) /\ PushedAt(mem, Cur)
    BY <1>1, Current DEF Memory
  <1>5. Cur.sp0 \in Addr /\ Bp(Cur) \in Addr
    BY <1>4 DEF RaAt, FpAt, HoldsWord
  <1> QED
    BY <1>1, <1>2, <1>3, <1>4, <1>5

\* A byte stored into a local.
LEMMA StoreLocalStep ==
  ASSUME FrameInv, FramePointers, TypeOK', NEW v \in Vals, StoreLocal(v)
  PROVE  FrameInv'
  <1>1. pc = "body"
    BY DEF StoreLocal
  <1> USE Current, BodyFacts, <1>1
  <1> DEFINE cell == [val |-> v, part |-> "byte"]
  <1>2. PICK k \in 0..(Size[Fn] - 1) :
          /\ mem' = [mem EXCEPT ![LocalAddr(k)] = cell]
          /\ frames' = [frames EXCEPT ![Depth].loc = [@ EXCEPT ![k] = cell]]
    BY DEF StoreLocal
  <1> HIDE DEF cell
  <1>3. pc' = "body" /\ sp' = sp /\ reg' = reg
    BY DEF StoreLocal
  <1> DEFINE fr == [Cur EXCEPT !.loc = [Cur.loc EXCEPT ![k] = cell]]
  <1>4. frames' = [frames EXCEPT ![Depth] = fr]
    BY <1>2 DEF Cur
  <1>5. /\ fr.fn = Cur.fn /\ fr.sp0 = Cur.sp0 /\ fr.ra = Cur.ra
        /\ fr.regs = Cur.regs /\ fr.args = Cur.args /\ fr.save = Cur.save
        /\ fr.out = Cur.out /\ fr.dyn = Cur.dyn
        /\ fr.loc = [Cur.loc EXCEPT ![k] = cell]
    BY DEF ActivationRec
  <1> HIDE DEF fr
  <1>6. /\ BodySp(Cur) \in Int /\ FrameLow(Cur) \in Int
        /\ LocalsLow(Cur) \in Int /\ Bp(Cur) \in Int
        /\ BodySp(Cur) <= FrameLow(Cur) /\ FrameLow(Cur) <= LocalsLow(Cur)
        /\ Bp(Cur) = Cur.sp0 - 2 /\ Cur.sp0 \in Int
        /\ Size[Fn] \in Nat /\ LocalsLow(Cur) = Bp(Cur) - Size[Fn]
        /\ Len(Cur.out) \in Nat /\ Cur.dyn \in Nat
        /\ BodySp(Cur) = FrameLow(Cur) - Cur.dyn - 2 * Len(Cur.out)
    BY Layout DEF LocalsLow, BodySp
  <1>7. LocalAddr(k) = LocalsLow(Cur) + k
    BY <1>6 DEF LocalAddr, FrameBase, StartingFrameOffset
  <1>8. Addr \subseteq Int
    BY FrameAssumption DEF Addr
  <1>9. Agree(mem, mem', Bp(Cur)) /\ Agree(mem, mem', Cur.sp0)
    <2>1. ASSUME NEW x \in Addr, x >= Bp(Cur) PROVE mem'[x] = mem[x]
      <3>1. x # LocalAddr(k)
        BY SMTT(30), <1>6, <1>7, <1>8, <2>1
      <3> QED
        BY <1>2, <3>1
    <2>2. Agree(mem, mem', Bp(Cur))
      BY <2>1 DEF Agree
    <2>3. Bp(Cur) <= Cur.sp0
      BY <1>6
    <2> QED
      BY <1>6, <2>2, <2>3, AgreeUp
  <1>10. /\ Nesting'
         /\ \A i \in 1..(Depth' - 1) : Owned(mem', frames'[i])
         /\ RaAt(mem', Cur')
         /\ WordArguments => ParamsAt(mem', Cur')
         /\ Cur' = fr /\ Depth' = Depth /\ Fn' = Fn
         /\ \A i \in 1..Depth' :
              frames'[i].fn \notin Alloca => frames'[i].dyn = 0
         /\ Bp(fr) = Bp(Cur) /\ LocalsLow(fr) = LocalsLow(Cur)
         /\ FrameLow(fr) = FrameLow(Cur)
    <2>1. fr.fn \notin Alloca => fr.dyn = 0
      BY <1>5 DEF History
    <2> QED
      BY <1>4, <1>5, <1>9, <2>1, CurUpdated
  <1>11. BodySp(fr) = BodySp(Cur)
    BY <1>5, <1>10 DEF BodySp
  <1>12. FpAt(mem', Cur')
    <2>1. Bp(Cur) <= Bp(Cur)
      BY <1>6
    <2>2. FpAt(mem', Cur)
      BY <1>6, <1>9, <2>1, OwnedKept
    <2> QED
      BY <1>5, <1>10, <2>2 DEF FpAt
  <1>13. LocalsAt(mem', Cur')
    <2> SUFFICES ASSUME NEW j \in 0..(Size[Fn] - 1)
                 PROVE  /\ LocalsLow(Cur) + j \in Addr
                        /\ fr.loc[j] # Junk =>
                             mem'[LocalsLow(Cur) + j] = fr.loc[j]
      <3>1. /\ Cur'.fn = Fn /\ LocalsLow(Cur') = LocalsLow(Cur)
            /\ Cur'.loc = fr.loc
        BY <1>5, <1>10
      <3> QED
        BY <3>1 DEF LocalsAt
    <2>1. /\ LocalsLow(Cur) + j \in Addr
          /\ Cur.loc[j] # Junk => mem[LocalsLow(Cur) + j] = Cur.loc[j]
      BY DEF LocalsAt
    <2>2. Cur.loc \in [Offsets -> Cell] /\ j \in Offsets
      BY DEF ActivationRec, Offsets
    <2>3. CASE j = k
      <3>1. fr.loc[j] = cell
        BY <1>5, <2>2, <2>3
      <3>2. mem'[LocalsLow(Cur) + j] = cell
        BY <1>2, <1>7, <2>1, <2>3
      <3> QED
        BY <2>1, <3>1, <3>2
    <2>4. CASE j # k
      <3>1. fr.loc[j] = Cur.loc[j]
        BY <1>5, <2>2, <2>4
      <3>2. LocalsLow(Cur) + j # LocalAddr(k)
        BY <1>6, <1>7, <2>4
      <3>3. mem'[LocalsLow(Cur) + j] = mem[LocalsLow(Cur) + j]
        BY <1>2, <2>1, <3>2
      <3> QED
        BY <2>1, <3>1, <3>3
    <2> QED
      BY <2>3, <2>4
  <1>14. WordArguments => PushedAt(mem', Cur')
    <2> SUFFICES ASSUME WordArguments, NEW j \in 1..Len(Cur.out)
                 PROVE  HoldsWord(mem', BodySp(Cur) + 2 * (j - 1), Cur.out[j])
      BY <1>5, <1>10, <1>11 DEF PushedAt
    <2>1. HoldsWord(mem, BodySp(Cur) + 2 * (j - 1), Cur.out[j])
      BY DEF PushedAt
    <2>2. /\ BodySp(Cur) + 2 * (j - 1) # LocalAddr(k)
          /\ BodySp(Cur) + 2 * (j - 1) + 1 # LocalAddr(k)
      <3>1. /\ BodySp(Cur) + 2 * (j - 1) \in Int
            /\ BodySp(Cur) + 2 * (j - 1) + 1 < LocalsLow(Cur)
        BY PushedBelow
      <3>2. ASSUME NEW a \in Int, NEW l \in Int, NEW i \in Nat, a + 1 < l
            PROVE  a # l + i /\ a + 1 # l + i
        BY <3>2
      <3>3. k \in Nat /\ LocalsLow(Cur) \in Int
        BY <1>6
      <3>4. /\ BodySp(Cur) + 2 * (j - 1) # LocalsLow(Cur) + k
            /\ BodySp(Cur) + 2 * (j - 1) + 1 # LocalsLow(Cur) + k
        BY <3>1, <3>2, <3>3
      <3> QED
        BY <1>7, <3>4
    <2> QED
      BY <1>2, <2>1, <2>2 DEF HoldsWord
  <1>15. Registers'
    BY <1>3, <1>10, <1>11 DEF Registers, InBody
  <1>16. History'
    BY <1>3, <1>5, <1>10 DEF History, InBody, InPrologue
  <1>17. Memory'
    BY <1>10, <1>12, <1>13, <1>14 DEF Memory
  <1> QED
    BY <1>3, <1>10, <1>15, <1>16, <1>17
       DEF FrameInv, ReturnIntegrity, Running

\* A step of the body that moves the stack pointer: it need only be right
\* about the words the activation has pushed.
LEMMA BodyUpdate ==
  ASSUME FrameInv, FramePointers, TypeOK', pc = "body", pc' = "body",
         NEW fr, frames' = [frames EXCEPT ![Depth] = fr],
         fr.fn = Cur.fn, fr.sp0 = Cur.sp0, fr.ra = Cur.ra,
         fr.regs = Cur.regs, fr.args = Cur.args, fr.save = Cur.save,
         fr.loc = Cur.loc, fr.fn \notin Alloca => fr.dyn = 0,
         reg'[IX] = reg[IX], sp' = BodySp(fr), sp' >= Bottom,
         NEW lo \in Int, lo <= FrameLow(Cur), Agree(mem, mem', lo),
         WordArguments => PushedAt(mem', fr)
  PROVE  FrameInv'
  <1> USE Current, BodyFacts
  <1>1. /\ FrameLow(Cur) \in Int /\ LocalsLow(Cur) \in Int
        /\ Bp(Cur) \in Int /\ Cur.sp0 \in Int
        /\ FrameLow(Cur) <= LocalsLow(Cur) /\ LocalsLow(Cur) <= Bp(Cur)
        /\ Bp(Cur) = Cur.sp0 - 2
    BY Layout
  <1>2. lo <= LocalsLow(Cur) /\ lo <= Bp(Cur) /\ lo <= Cur.sp0
    BY <1>1
  <1>3. /\ Nesting'
        /\ \A i \in 1..(Depth' - 1) : Owned(mem', frames'[i])
        /\ RaAt(mem', Cur')
        /\ WordArguments => ParamsAt(mem', Cur')
        /\ Cur' = fr /\ Depth' = Depth /\ Fn' = Fn
        /\ \A i \in 1..Depth' :
             frames'[i].fn \notin Alloca => frames'[i].dyn = 0
        /\ Bp(fr) = Bp(Cur) /\ LocalsLow(fr) = LocalsLow(Cur)
        /\ FrameLow(fr) = FrameLow(Cur)
    <2>1. Agree(mem, mem', Cur.sp0)
      BY <1>1, <1>2, AgreeUp
    <2> QED
      BY <2>1, CurUpdated
  <1>4. FpAt(mem', Cur') /\ LocalsAt(mem', Cur')
    <2>1. FpAt(mem', Cur) /\ LocalsAt(mem', Cur)
      BY <1>2, OwnedKept
    <2> QED
      BY <1>3, <2>1 DEF FpAt, LocalsAt
  <1>5. Registers'
    BY <1>3 DEF Registers, InBody
  <1>6. History'
    BY <1>3 DEF History, InBody, InPrologue
  <1>7. Memory'
    BY <1>3, <1>4 DEF Memory
  <1> QED
    BY <1>3, <1>5, <1>6, <1>7 DEF FrameInv, ReturnIntegrity, Running

\* push of a word argument, or of the two halves of a long one
LEMMA PushArgStep ==
  ASSUME FrameInv, FramePointers, TypeOK',
         NEW mode \in Modes, NEW x \in ArgVals, NEW y \in ArgVals,
         PushArg(mode, x, y)
  PROVE  FrameInv'
  <1>1. pc = "body" /\ pc' = "body" /\ reg' = reg
    BY DEF PushArg
  <1> USE Current, BodyFacts, <1>1
  <1>2. x \in Int /\ y \in Int
    BY FrameAssumption
  <1>3. /\ BodySp(Cur) \in Int /\ FrameLow(Cur) \in Int
        /\ BodySp(Cur) <= FrameLow(Cur) /\ FrameLow(Cur) <= LocalsLow(Cur)
        /\ LocalsLow(Cur) <= Bp(Cur) /\ LocalsLow(Cur) \in Int
        /\ Bp(Cur) \in Int /\ Cur.dyn \in Nat /\ Len(Cur.out) \in Nat
    BY Layout
  <1>4. Cur.out \in Seq(Int)
    BY DEF ActivationRec
  <1>5. sp <= Bp(Cur)
    BY <1>3
  <1>6. CASE mode = "HI"
    <2> DEFINE fr == [Cur EXCEPT !.out = <<x>> \o Cur.out]
    <2>1. /\ frames' = [frames EXCEPT ![Depth] = fr]
          /\ mem' = PutWord(mem, sp - 2, x) /\ sp' = sp - 2
          /\ sp - 2 >= Bottom
      BY <1>6 DEF PushArg, Cur, Room
    <2>2. /\ fr.fn = Cur.fn /\ fr.sp0 = Cur.sp0 /\ fr.ra = Cur.ra
          /\ fr.regs = Cur.regs /\ fr.args = Cur.args /\ fr.save = Cur.save
          /\ fr.dyn = Cur.dyn /\ fr.loc = Cur.loc
          /\ fr.out = <<x>> \o Cur.out
      BY DEF ActivationRec
    <2> HIDE DEF fr
    <2>3. /\ Len(fr.out) = Len(Cur.out) + 1
          /\ fr.out[1] = x
          /\ \A i \in 2..(Len(Cur.out) + 1) : fr.out[i] = Cur.out[i - 1]
      <3>1. <<x>> \in Seq(Int) /\ Len(<<x>>) = 1 /\ <<x>>[1] = x
        BY <1>2
      <3>2. /\ Len(<<x>> \o Cur.out) = 1 + Len(Cur.out)
            /\ \A i \in 1..(1 + Len(Cur.out)) : (<<x>> \o Cur.out)[i] =
                 IF i <= 1 THEN <<x>>[i] ELSE Cur.out[i - 1]
        BY <1>4, <3>1, ConcatProperties
      <3> QED
        BY <1>3, <2>2, <3>1, <3>2
    <2>4. BodySp(fr) = sp - 2
      <3>1. BodySp(fr) = FrameLow(Cur) - Cur.dyn - 2 * (Len(Cur.out) + 1)
        BY <2>2, <2>3 DEF BodySp, FrameLow, LocalsLow, Bp
      <3>2. BodySp(Cur) = FrameLow(Cur) - Cur.dyn - 2 * Len(Cur.out)
        BY DEF BodySp
      <3> QED
        BY SMTT(30), <1>3, <3>1, <3>2
    <2>5. Agree(mem, mem', sp) /\ HoldsWord(mem', sp - 2, x)
      BY <1>2, <1>5, <2>1, PushEffect
    <2>6. WordArguments => PushedAt(mem', fr)
      <3> SUFFICES ASSUME WordArguments, NEW k \in 1..(Len(Cur.out) + 1)
                   PROVE  HoldsWord(mem', sp - 2 + 2 * (k - 1), fr.out[k])
        BY <2>3, <2>4 DEF PushedAt
      <3>1. CASE k = 1
        <4>1. sp - 2 + 2 * (k - 1) = sp - 2
          BY <3>1
        <4> QED
          BY <2>3, <2>5, <3>1, <4>1
      <3>2. CASE k # 1
        <4>1. k - 1 \in 1..Len(Cur.out) /\ k \in 2..(Len(Cur.out) + 1)
          BY <1>3, <3>2
        <4>2. HoldsWord(mem, BodySp(Cur) + 2 * ((k - 1) - 1), Cur.out[k - 1])
          BY <4>1 DEF PushedAt
        <4>3. /\ BodySp(Cur) + 2 * ((k - 1) - 1) \in Int
              /\ BodySp(Cur) <= BodySp(Cur) + 2 * ((k - 1) - 1)
          BY <4>1, PushedBelow
        <4>4. HoldsWord(mem', BodySp(Cur) + 2 * ((k - 1) - 1), Cur.out[k - 1])
          BY <2>5, <4>2, <4>3, WordKept
        <4>5. BodySp(Cur) + 2 * ((k - 1) - 1) = sp - 2 + 2 * (k - 1)
          BY <1>3
        <4> QED
          BY <2>3, <4>1, <4>4, <4>5
      <3> QED
        BY <3>1, <3>2
    <2>7. fr.fn \notin Alloca => fr.dyn = 0
      BY <2>2 DEF History
    <2>8. sp <= FrameLow(Cur)
      BY <1>3
    <2> QED
      BY <2>1, <2>2, <2>4, <2>5, <2>6, <2>7, <2>8, BodyUpdate
  <1>7. CASE mode = "SI"
    <2> DEFINE fr == [Cur EXCEPT !.out = <<x, y>> \o Cur.out]
    <2>1. /\ frames' = [frames EXCEPT ![Depth] = fr]
          /\ mem' = PutWord(PutWord(mem, sp - 2, x), sp - 4, y)
          /\ sp' = sp - 4 /\ sp - 4 >= Bottom
      BY <1>7 DEF PushArg, Cur, Room
    <2>2. /\ fr.fn = Cur.fn /\ fr.sp0 = Cur.sp0 /\ fr.ra = Cur.ra
          /\ fr.regs = Cur.regs /\ fr.args = Cur.args /\ fr.save = Cur.save
          /\ fr.dyn = Cur.dyn /\ fr.loc = Cur.loc
          /\ fr.out = <<x, y>> \o Cur.out
      BY DEF ActivationRec
    <2> HIDE DEF fr
    <2>3. Len(fr.out) = Len(Cur.out) + 2
      <3>1. <<x, y>> \in Seq(Int) /\ Len(<<x, y>>) = 2
        BY <1>2
      <3>2. Len(<<x, y>> \o Cur.out) = 2 + Len(Cur.out)
        BY <1>4, <3>1, ConcatProperties
      <3> QED
        BY <1>3, <2>2, <3>2
    <2>4. BodySp(fr) = sp - 4
      <3>1. BodySp(fr) = FrameLow(Cur) - Cur.dyn - 2 * (Len(Cur.out) + 2)
        BY <2>2, <2>3 DEF BodySp, FrameLow, LocalsLow, Bp
      <3>2. BodySp(Cur) = FrameLow(Cur) - Cur.dyn - 2 * Len(Cur.out)
        BY DEF BodySp
      <3> QED
        BY SMTT(30), <1>3, <3>1, <3>2
    <2>5. Agree(mem, mem', sp)
      <3>1. /\ sp - 2 \in Int /\ (sp - 2) + 2 = sp
            /\ sp - 4 \in Int /\ (sp - 4) + 2 <= sp /\ (sp - 4) + 2 \in Int
        OBVIOUS
      <3> DEFINE m == PutWord(mem, sp - 2, x)
      <3>2. m \in [Addr -> Cell] /\ Agree(mem, m, sp)
        BY SMTT(30), <1>2, <3>1, PutWordType, PutWordEffect
      <3>3. Agree(m, mem', (sp - 4) + 2)
        <4> HIDE DEF m
        <4>1. mem' = PutWord(m, sp - 4, y)
          BY <2>1 DEF m
        <4> QED
          BY <1>2, <3>1, <3>2, <4>1, PutWordEffect
      <3>4. Agree(m, mem', sp)
        BY <3>1, <3>3, AgreeUp
      <3> QED
        BY <3>2, <3>4 DEF Agree
    <2>6. ~WordArguments
      BY <1>7 DEF WordArguments
    <2>7. fr.fn \notin Alloca => fr.dyn = 0
      BY <2>2 DEF History
    <2>8. sp <= FrameLow(Cur)
      BY <1>3
    <2> QED
      BY <2>1, <2>2, <2>4, <2>5, <2>6, <2>7, <2>8, BodyUpdate
  <1> QED
    BY <1>6, <1>7 DEF PushArg

\* Dropping the front of a sequence.
LEMMA Tails ==
  \A s \in Seq(Int) : \A n \in 1..Len(s) :
    /\ Len(SubSeq(s, n + 1, Len(s))) = Len(s) - n
    /\ \A i \in 1..(Len(s) - n) : SubSeq(s, n + 1, Len(s))[i] = s[n + i]
  <1> SUFFICES ASSUME NEW s \in Seq(Int), NEW n \in 1..Len(s)
               PROVE  /\ Len(SubSeq(s, n + 1, Len(s))) = Len(s) - n
                      /\ \A i \in 1..(Len(s) - n) :
                           SubSeq(s, n + 1, Len(s))[i] = s[n + i]
    OBVIOUS
  <1>1. n \in 0..Len(s)
    OBVIOUS
  <1> QED
    BY <1>1, SeqParts

\* ld iy,n ; add iy,sp ; ld sp,iy over arguments
LEMMA PopArgsStep ==
  ASSUME FrameInv, FramePointers, TypeOK', PopArgs
  PROVE  FrameInv'
  <1>1. pc = "body" /\ pc' = "body" /\ Running
    BY DEF PopArgs, Running
  <1>a. /\ sp \in Int /\ sp >= Bottom /\ sp = BodySp(Cur)
        /\ mem \in [Addr -> Cell] /\ reg \in [Regs -> Int]
        /\ Cur \in ActivationRec /\ Depth \in Nat \ {0}
    BY <1>1, Current, BodyFacts
  <1>2. PICK n \in 1..Len(Cur.out) :
          /\ sp' = sp + 2 * n
          /\ reg' = [reg EXCEPT ![IY] = sp + 2 * n]
          /\ frames' = [frames EXCEPT ![Depth].out = SubSeq(@, n + 1, Len(@))]
          /\ mem' = Freed(mem, sp + 2 * n)
    BY DEF PopArgs
  <1> DEFINE fr == [Cur EXCEPT !.out = SubSeq(Cur.out, n + 1, Len(Cur.out))]
  <1>3. frames' = [frames EXCEPT ![Depth] = fr]
    BY <1>2 DEF Cur
  <1>4. /\ fr.fn = Cur.fn /\ fr.sp0 = Cur.sp0 /\ fr.ra = Cur.ra
        /\ fr.regs = Cur.regs /\ fr.args = Cur.args /\ fr.save = Cur.save
        /\ fr.dyn = Cur.dyn /\ fr.loc = Cur.loc
        /\ fr.out = SubSeq(Cur.out, n + 1, Len(Cur.out))
    BY <1>a DEF ActivationRec
  <1> HIDE DEF fr
  <1>5. /\ FrameLow(Cur) \in Int /\ Cur.dyn \in Nat /\ Len(Cur.out) \in Nat
        /\ sp = FrameLow(Cur) - Cur.dyn - 2 * Len(Cur.out)
    BY <1>a, Layout DEF BodySp
  <1>6. /\ Len(fr.out) = Len(Cur.out) - n
        /\ \A i \in 1..(Len(Cur.out) - n) : fr.out[i] = Cur.out[n + i]
    <2>1. Cur.out \in Seq(Int)
      BY <1>a DEF ActivationRec
    <2>2. /\ Len(SubSeq(Cur.out, n + 1, Len(Cur.out))) = Len(Cur.out) - n
          /\ \A i \in 1..(Len(Cur.out) - n) :
               SubSeq(Cur.out, n + 1, Len(Cur.out))[i] = Cur.out[n + i]
      BY <2>1, Tails, Zenon
    <2> QED
      BY <1>4, <2>2, Zenon
  <1>7. BodySp(fr) = FrameLow(Cur) - Cur.dyn - 2 * (Len(Cur.out) - n)
    BY <1>4, <1>6 DEF BodySp, FrameLow, LocalsLow, Bp
  <1>b. PICK l \in Nat : l = Len(Cur.out)
    BY <1>5
  <1>c. n \in 1..l /\ sp = FrameLow(Cur) - Cur.dyn - 2 * l
    BY <1>5, <1>b
  <1>8. /\ sp + 2 * n \in Int
        /\ FrameLow(Cur) - Cur.dyn - 2 * (l - n) = sp + 2 * n
        /\ sp + 2 * n <= FrameLow(Cur) /\ sp <= sp + 2 * n
        /\ \A k \in 1..(l - n) :
             /\ n + k \in 1..l
             /\ sp + 2 * ((n + k) - 1) = (sp + 2 * n) + 2 * (k - 1)
             /\ (sp + 2 * n) + 2 * (k - 1) \in Int
             /\ sp + 2 * n <= (sp + 2 * n) + 2 * (k - 1)
    <2>1. FrameLow(Cur) \in Int /\ Cur.dyn \in Nat /\ sp \in Int /\ n \in Int
      BY <1>a, <1>5, <1>c
    <2>2. PICK f \in Int, d \in Nat : f = FrameLow(Cur) /\ d = Cur.dyn
      BY <2>1
    <2>3. sp = f - d - 2 * l
      BY <1>c, <2>2
    <2>4. /\ sp + 2 * n \in Int /\ f - d - 2 * (l - n) = sp + 2 * n
          /\ sp + 2 * n <= f /\ sp <= sp + 2 * n
      <3>1. n \in Int /\ 1 <= n /\ n <= l
        BY <1>c
      <3> QED
        BY <2>3, <3>1
    <2>5. ASSUME NEW k \in 1..(l - n)
          PROVE  /\ n + k \in 1..l
                 /\ sp + 2 * ((n + k) - 1) = (sp + 2 * n) + 2 * (k - 1)
                 /\ (sp + 2 * n) + 2 * (k - 1) \in Int
                 /\ sp + 2 * n <= (sp + 2 * n) + 2 * (k - 1)
      BY <1>c, <2>1
    <2> QED
      BY <2>2, <2>4, <2>5
  <1>9. Agree(mem, mem', sp + 2 * n)
    BY <1>a, <1>2, <1>8, FreedEffect
  <1>10. WordArguments => PushedAt(mem', fr)
    <2> SUFFICES ASSUME WordArguments, NEW k \in 1..(l - n)
                 PROVE  HoldsWord(mem', (sp + 2 * n) + 2 * (k - 1),
                                  Cur.out[n + k])
      BY <1>b, <1>6, <1>7, <1>8 DEF PushedAt
    <2>1. PushedAt(mem, Cur)
      BY <1>1, BodyFacts
    <2>2. HoldsWord(mem, sp + 2 * ((n + k) - 1), Cur.out[n + k])
      BY <1>a, <1>b, <1>8, <2>1 DEF PushedAt
    <2>3. HoldsWord(mem, (sp + 2 * n) + 2 * (k - 1), Cur.out[n + k])
      BY <1>8, <2>2
    <2> QED
      BY <1>8, <1>9, <2>3, WordKept
  <1>11. fr.fn \notin Alloca => fr.dyn = 0
    BY <1>1, <1>4, Current DEF History
  <1>12. reg'[IX] = reg[IX]
    BY <1>a, <1>2, RegNumbers DEF IX, IY
  <1>13. sp' = BodySp(fr) /\ sp' >= Bottom
    <2>1. Bottom \in Int
      BY FrameAssumption
    <2>2. sp' = BodySp(fr)
      BY <1>b, <1>2, <1>7, <1>8
    <2>3. ASSUME NEW b \in Int, NEW s \in Int, NEW t \in Int, s >= b, s <= t
          PROVE  t >= b
      BY <2>3
    <2> QED
      BY <1>a, <1>2, <1>8, <2>1, <2>2, <2>3
  <1> QED
    BY <1>1, <1>3, <1>4, <1>8, <1>9, <1>10, <1>11, <1>12, <1>13, BodyUpdate

\* alloca
LEMMA DynAllocStep ==
  ASSUME FrameInv, FramePointers, TypeOK', NEW n \in DynSizes, DynAlloc(n)
  PROVE  FrameInv'
  <1>1. pc = "body" /\ pc' = "body"
    BY DEF DynAlloc
  <1> USE Current, BodyFacts, <1>1
  <1>2. n \in Nat
    BY FrameAssumption
  <1> DEFINE fr == [Cur EXCEPT !.dyn = Cur.dyn + n]
  <1>3. /\ frames' = [frames EXCEPT ![Depth] = fr]
        /\ sp' = sp - n /\ sp - n >= Bottom /\ mem' = mem
        /\ reg' = [reg EXCEPT ![IY] = sp - n]
        /\ Fn \in Alloca /\ Cur.out = <<>>
    BY DEF DynAlloc, Cur, Room
  <1>4. /\ fr.fn = Cur.fn /\ fr.sp0 = Cur.sp0 /\ fr.ra = Cur.ra
        /\ fr.regs = Cur.regs /\ fr.args = Cur.args /\ fr.save = Cur.save
        /\ fr.dyn = Cur.dyn + n /\ fr.loc = Cur.loc /\ fr.out = Cur.out
    BY DEF ActivationRec
  <1> HIDE DEF fr
  <1>5. FrameLow(Cur) \in Int /\ Cur.dyn \in Nat /\ Len(Cur.out) \in Nat
    BY Layout
  <1>6. BodySp(fr) = sp'
    <2>1. BodySp(fr) = FrameLow(Cur) - (Cur.dyn + n) - 2 * Len(Cur.out)
      BY <1>4 DEF BodySp, FrameLow, LocalsLow, Bp
    <2>2. BodySp(Cur) = FrameLow(Cur) - Cur.dyn - 2 * Len(Cur.out)
      BY DEF BodySp
    <2> QED
      BY <1>2, <1>3, <1>5, <2>1, <2>2
  <1>7. WordArguments => PushedAt(mem', fr)
    BY <1>3, <1>4 DEF PushedAt
  <1>8. Agree(mem, mem', FrameLow(Cur)) /\ FrameLow(Cur) <= FrameLow(Cur)
    BY <1>3, <1>5 DEF Agree
  <1>9. reg'[IX] = reg[IX]
    BY <1>3, RegNumbers DEF IX, IY
  <1>10. fr.fn \notin Alloca => fr.dyn = 0
    BY <1>3, <1>4
  <1> QED
    BY <1>3, <1>4, <1>5, <1>6, <1>7, <1>8, <1>9, <1>10, BodyUpdate

\* A memory that agrees from the running activation's stack pointer up.
LEMMA CallersKept ==
  ASSUME FrameInv, Running, NEW m, NEW s \in Int, s <= Cur.sp0,
         Agree(mem, m, s)
  PROVE  \A i \in 1..(Depth - 1) :
           /\ Owned(m, frames[i])
           /\ s <= BodySp(frames[i])
  <1> SUFFICES ASSUME NEW i \in 1..(Depth - 1)
               PROVE  Owned(m, frames[i]) /\ s <= BodySp(frames[i])
    OBVIOUS
  <1>1. /\ Depth \in Nat \ {0} /\ Cur = frames[Depth] /\ Nesting /\ Memory
        /\ frames \in Seq(ActivationRec) /\ Depth = Len(frames)
        /\ Cur \in ActivationRec
    BY Current
  <1>2. /\ i \in 1..Depth /\ Depth \in 1..Depth /\ i < Depth
        /\ frames[i] \in ActivationRec
    BY <1>1
  <1>3. Cur.sp0 + 2 <= BodySp(frames[i])
    BY <1>1, <1>2 DEF Nesting
  <1>4. Cur.sp0 \in Int /\ BodySp(frames[i]) \in Int
    BY <1>1, <1>2, Layout
  <1>5. s <= BodySp(frames[i])
    BY <1>3, <1>4
  <1>6. Owned(mem, frames[i])
    BY <1>1 DEF Memory
  <1> QED
    BY <1>2, <1>5, <1>6, OwnedKept

\* call
LEMMA CallStep ==
  ASSUME FrameInv, FramePointers, TypeOK', NEW f \in Fns, Call(f)
  PROVE  FrameInv'
  <1>1. pc = "body" /\ pc' = "push_fp" /\ sp' = sp - 2 /\ Running
    BY DEF Call, Running
  <1>a. /\ sp \in Int /\ sp >= Bottom /\ sp = BodySp(Cur)
        /\ mem \in [Addr -> Cell] /\ reg \in [Regs -> Int]
        /\ Cur \in ActivationRec /\ Depth \in Nat \ {0}
        /\ Cur = frames[Depth] /\ frames \in Seq(ActivationRec)
        /\ Depth = Len(frames) /\ Fn \in Fns /\ Fn = Cur.fn
    BY <1>1, Current, BodyFacts
  <1>b. /\ reg[IX] = Bp(Cur) /\ Cur.save = FrameLow(Cur)
        /\ Owned(mem, Cur) /\ Bp(Cur) \in Addr
    BY <1>1, BodyFacts DEF Owned
  <1>2. reg' = [reg EXCEPT ![IY] = IF f \in Nested THEN reg[IX] ELSE @]
    BY DEF Call
  <1>3. reg'[IX] = Bp(Cur)
    BY <1>a, <1>b, <1>2, RegNumbers DEF IX, IY
  <1> DEFINE act(ra) == Activation(f, sp - 2, ra, reg',
                                   SubSeq(Cur.out, 1, NParams[f]))
  <1>4. PICK ra \in Sites[Fn] : /\ frames' = Append(frames, act(ra))
                               /\ mem' = PutWord(mem, sp - 2, ra)
    BY DEF Call
  <1> DEFINE fr == act(ra)
  <1>5. /\ fr.fn = f /\ fr.sp0 = sp - 2 /\ fr.ra = ra /\ fr.regs = reg'
        /\ fr.args = SubSeq(Cur.out, 1, NParams[f]) /\ fr.out = <<>>
        /\ fr.dyn = 0 /\ \A k \in Offsets : fr.loc[k] = Junk
    BY DEF Activation
  <1>6. frames' = Append(frames, fr)
    BY <1>4
  <1> HIDE DEF fr, act
  <1>7. /\ Depth' = Depth + 1 /\ Cur' = fr /\ frames'[Depth + 1] = fr
        /\ \A i \in 1..Depth : frames'[i] = frames[i]
    <2>1. /\ Len(frames') = Depth + 1 /\ frames'[Depth + 1] = fr
          /\ \A i \in 1..Depth : frames'[i] = frames[i]
      BY <1>a, <1>6
    <2>2. Depth' = Depth + 1
      BY <2>1 DEF Depth
    <2> QED
      BY <2>1, <2>2 DEF Cur
  <1>8. sp - 2 >= Bottom
    <2>1. Cardinality(Saved(f)) \in Nat /\ Size[f] \in Nat /\ Bottom \in Int
      BY SavedFinite, FrameAssumption DEF NSaved
    <2>2. sp - (2 + 2 + Size[f] + 2 * Cardinality(Saved(f))) >= Bottom
      BY DEF Call, Room, FrameRoom
    <2>3. ASSUME NEW c \in Nat, NEW z \in Nat, NEW b \in Int, NEW s \in Int,
                 s - (2 + 2 + z + 2 * c) >= b
          PROVE  s - 2 >= b
      BY <2>3
    <2> QED
      BY <1>a, <2>1, <2>2, <2>3
  <1>9. /\ sp <= Cur.sp0 /\ sp <= Bp(Cur)
    <2>1. /\ BodySp(Cur) <= FrameLow(Cur) /\ FrameLow(Cur) <= LocalsLow(Cur)
          /\ LocalsLow(Cur) <= Bp(Cur) /\ Bp(Cur) = Cur.sp0 - 2
          /\ BodySp(Cur) \in Int /\ FrameLow(Cur) \in Int
          /\ LocalsLow(Cur) \in Int /\ Bp(Cur) \in Int /\ Cur.sp0 \in Int
      BY <1>a, Layout
    <2> QED
      BY <1>a, <2>1
  <1>10. Agree(mem, mem', sp) /\ HoldsWord(mem', sp - 2, ra)
    <2>1. ra \in Int
      BY <1>a, FrameAssumption
    <2> QED
      BY <1>a, <1>b, <1>4, <1>8, <1>9, <2>1, PushEffect
  <1>11. \A i \in 1..Depth : Owned(mem', frames[i]) /\ sp <= BodySp(frames[i])
    <2>1. \A i \in 1..(Depth - 1) :
            Owned(mem', frames[i]) /\ sp <= BodySp(frames[i])
      BY <1>1, <1>a, <1>9, <1>10, CallersKept
    <2>2. Owned(mem', Cur) /\ sp <= BodySp(Cur)
      BY <1>a, <1>b, <1>10, OwnedKept
    <2> QED
      BY <1>a, <2>1, <2>2
  <1>12. Registers'
    BY <1>1, <1>5, <1>7 DEF Registers, InBody
  <1>13. History'
    <2>1. \A i \in 1..Depth : frames[i].fn \notin Alloca => frames[i].dyn = 0
      BY <1>1, Current DEF History
    <2>2. \A i \in 1..Depth' :
            frames'[i].fn \notin Alloca => frames'[i].dyn = 0
      BY SMTT(30), <1>a, <1>5, <1>7, <2>1
    <2> QED
      BY <1>1, <1>5, <1>7, <2>2 DEF History, InBody, InPrologue
  <1>14. Nesting'
    <2>0. (sp - 2) + 2 = sp
      BY <1>a
    <2>1. ASSUME NEW i \in 1..(Depth' - 1)
          PROVE  /\ frames'[i].save = FrameLow(frames'[i])
                 /\ frames'[i + 1].sp0 + 2 = BodySp(frames'[i])
                 /\ frames'[i + 1].regs[IX] = Bp(frames'[i])
      <3>1. CASE i = Depth
        <4>1. /\ frames'[i] = Cur /\ frames'[i + 1] = fr
          BY <1>a, <1>7, <3>1
        <4> QED
          BY <1>a, <1>b, <1>3, <1>5, <2>0, <4>1
      <3>2. CASE i # Depth
        <4>1. /\ i \in 1..(Depth - 1) /\ i \in 1..Depth /\ i + 1 \in 1..Depth
          BY <1>a, <1>7, <3>2
        <4>2. frames'[i] = frames[i] /\ frames'[i + 1] = frames[i + 1]
          BY <1>7, <4>1
        <4> QED
          BY <1>1, <4>1, <4>2, Current DEF Nesting
      <3> QED
        BY <3>1, <3>2
    <2>2. ASSUME NEW i \in 1..Depth', NEW j \in 1..Depth', i < j
          PROVE  frames'[j].sp0 + 2 <= BodySp(frames'[i])
      <3>1. i \in 1..Depth /\ frames'[i] = frames[i]
        BY <1>a, <1>7, <2>2
      <3>2. CASE j = Depth + 1
        BY <1>5, <1>7, <1>11, <2>0, <3>1, <3>2
      <3>3. CASE j # Depth + 1
        <4>1. j \in 1..Depth
          BY <1>a, <1>7, <3>3
        <4>2. frames'[j] = frames[j]
          BY <1>7, <4>1
        <4> QED
          BY <1>1, <2>2, <3>1, <4>1, <4>2, Current DEF Nesting
      <3> QED
        BY <3>2, <3>3
    <2> QED
      BY <2>1, <2>2 DEF Nesting
  <1>15. WordArguments => ParamsAt(mem', Cur')
    <2> SUFFICES ASSUME WordArguments, NEW k \in 1..Len(fr.args)
                 PROVE  HoldsWord(mem', fr.sp0 + 2 + 2 * (k - 1), fr.args[k])
      BY <1>7 DEF ParamsAt
    <2>1. PushedAt(mem', Cur)
      BY <1>a, <1>11 DEF Owned
    <2>2. Cur.out \in Seq(Int) /\ NParams[f] \in 0..Len(Cur.out)
      <3>1. NParams[f] \in Nat /\ NParams[f] <= Len(Cur.out)
        BY FrameAssumption DEF Call
      <3>2. Cur.out \in Seq(Int)
        BY <1>a DEF ActivationRec
      <3> QED
        BY <3>1, <3>2
    <2>3. /\ Len(SubSeq(Cur.out, 1, NParams[f])) = NParams[f]
          /\ \A i \in 1..NParams[f] :
               SubSeq(Cur.out, 1, NParams[f])[i] = Cur.out[i]
      BY <2>2, SeqParts
    <2>4. k \in 1..NParams[f] /\ fr.args[k] = Cur.out[k]
      BY <1>5, <2>3
    <2>5. k \in 1..Len(Cur.out)
      BY <2>2, <2>4
    <2>6. HoldsWord(mem', sp + 2 * (k - 1), Cur.out[k])
      BY <1>a, <2>1, <2>5 DEF PushedAt
    <2>7. (sp - 2) + 2 + 2 * (k - 1) = sp + 2 * (k - 1)
      BY <1>a
    <2> QED
      BY <1>5, <2>4, <2>6, <2>7
  <1>16. Memory'
    <2>1. \A i \in 1..(Depth' - 1) : Owned(mem', frames'[i])
      BY <1>a, <1>7, <1>11
    <2>2. RaAt(mem', Cur')
      BY <1>5, <1>7, <1>10 DEF RaAt
    <2> QED
      BY <1>1, <1>15, <2>1, <2>2 DEF Memory, InBody
  <1> QED
    BY <1>1, <1>8, <1>12, <1>13, <1>14, <1>16
       DEF FrameInv, ReturnIntegrity, Running

(***************************************************************************)
(* The epilogue.                                                           *)
(***************************************************************************)

\* The end of the body.
LEMMA LeaveBodyStep ==
  ASSUME FrameInv, FramePointers, TypeOK', LeaveBody
  PROVE  FrameInv'
  <1>1. pc = "body" /\ pc' = "restore" /\ Running
    BY DEF LeaveBody, Running
  <1>a. /\ sp \in Int /\ sp >= Bottom /\ sp = BodySp(Cur)
        /\ mem \in [Addr -> Cell] /\ reg[IX] = Bp(Cur)
        /\ Cur \in ActivationRec /\ Depth \in Nat \ {0}
        /\ Cur = frames[Depth] /\ Fn \in Fns /\ Fn = Cur.fn
        /\ Cur.save = FrameLow(Cur) /\ FpAt(mem, Cur)
    BY <1>1, Current, BodyFacts
  <1> DEFINE fr == [Cur EXCEPT !.dyn = 0]
  <1>2. /\ frames' = [frames EXCEPT ![Depth] = fr] /\ reg' = reg
        /\ sp' = IF Fn \in Alloca THEN Cur.save ELSE sp
        /\ mem' = Freed(mem, sp') /\ todo' = Saved(Fn) /\ Cur.out = <<>>
    BY DEF LeaveBody, Cur
  <1>3. /\ fr.fn = Cur.fn /\ fr.sp0 = Cur.sp0 /\ fr.ra = Cur.ra
        /\ fr.regs = Cur.regs /\ fr.args = Cur.args /\ fr.dyn = 0
    BY <1>a DEF ActivationRec
  <1> HIDE DEF fr
  <1>4. /\ BodySp(Cur) \in Int /\ FrameLow(Cur) \in Int
        /\ LocalsLow(Cur) \in Int /\ Bp(Cur) \in Int /\ Cur.sp0 \in Int
        /\ BodySp(Cur) <= FrameLow(Cur) /\ FrameLow(Cur) <= LocalsLow(Cur)
        /\ LocalsLow(Cur) <= Bp(Cur) /\ Bp(Cur) = Cur.sp0 - 2
    BY <1>a, Layout
  <1>5. sp' = FrameLow(Cur)
    <2>1. CASE Fn \in Alloca
      BY <1>a, <1>2, <2>1
    <2>2. CASE Fn \notin Alloca
      <3>1. Cur.dyn = 0
        BY <1>1, <1>a, <2>2, Current DEF History
      <3>2. BodySp(Cur) = FrameLow(Cur) - 0 - 2 * 0
        BY <1>2, <3>1 DEF BodySp
      <3> QED
        BY <1>a, <1>2, <1>4, <2>2, <3>2
    <2> QED
      BY <2>1, <2>2
  <1>6. sp' >= Bottom /\ sp' <= Bp(Cur) /\ sp' <= Cur.sp0 /\ sp' \in Int
    <2>1. Bottom \in Int
      BY FrameAssumption
    <2> QED
      BY <1>a, <1>4, <1>5, <2>1
  <1>7. Agree(mem, mem', sp')
    BY <1>a, <1>2, <1>6, FreedEffect
  <1>8. /\ Nesting'
        /\ \A i \in 1..(Depth' - 1) : Owned(mem', frames'[i])
        /\ RaAt(mem', Cur')
        /\ WordArguments => ParamsAt(mem', Cur')
        /\ Cur' = fr /\ Depth' = Depth /\ Fn' = Fn
        /\ \A i \in 1..Depth' :
             frames'[i].fn \notin Alloca => frames'[i].dyn = 0
        /\ Bp(fr) = Bp(Cur) /\ LocalsLow(fr) = LocalsLow(Cur)
        /\ FrameLow(fr) = FrameLow(Cur)
    <2>1. Agree(mem, mem', Cur.sp0)
      BY <1>4, <1>6, <1>7, AgreeUp
    <2> QED
      BY <1>1, <1>2, <1>3, <2>1, CurUpdated
  <1>9. FpAt(mem', Cur')
    <2>1. FpAt(mem', Cur)
      BY <1>a, <1>6, <1>7, OwnedKept
    <2> QED
      BY <1>3, <1>8, <2>1 DEF FpAt
  <1>10. Registers'
    <2>1. sp' = LocalsLow(Cur) - 2 * Cardinality(Saved(Fn))
      BY <1>a, <1>5 DEF FrameLow, NSaved
    <2> QED
      BY <1>1, <1>a, <1>2, <1>8, <2>1 DEF Registers, InBody
  <1>11. History'
    BY <1>1, <1>8 DEF History, InBody, InPrologue
  <1>12. Memory'
    BY <1>1, <1>8, <1>9 DEF Memory, InBody
  <1> QED
    BY <1>1, <1>6, <1>8, <1>10, <1>11, <1>12
       DEF FrameInv, ReturnIntegrity, Running

\* A step of the epilogue that frees the stack up to the new stack pointer,
\* at most to the saved frame pointer.
LEMMA EpilogueStep ==
  ASSUME FrameInv, Running, TypeOK', frames' = frames,
         pc' \in {"restore", "pop_fp"}, pc = "restore",
         mem' = Freed(mem, sp'), sp' \in Int, sp <= sp', sp' <= Bp(Cur),
         Registers'
  PROVE  FrameInv'
  <1>a. /\ sp \in Int /\ sp >= Bottom /\ mem \in [Addr -> Cell]
        /\ Cur \in ActivationRec /\ Memory /\ History
    BY Current
  <1>1. Bp(Cur) \in Int /\ Cur.sp0 \in Int /\ Bp(Cur) = Cur.sp0 - 2
    BY <1>a, Layout
  <1>2. sp' <= Cur.sp0 /\ sp' >= Bottom
    <2>1. Bottom \in Int
      BY FrameAssumption
    <2> QED
      BY <1>a, <1>1, <2>1
  <1>3. Agree(mem, mem', sp')
    BY <1>a, FreedEffect
  <1>4. Agree(mem, mem', Cur.sp0)
    BY <1>1, <1>2, <1>3, AgreeUp
  <1>5. /\ Nesting'
        /\ \A i \in 1..(Depth' - 1) : Owned(mem', frames'[i])
        /\ RaAt(mem', Cur')
        /\ WordArguments => ParamsAt(mem', Cur')
        /\ Cur' = Cur /\ Depth' = Depth /\ Fn' = Fn
    BY <1>4, FramesUnchanged
  <1>6. FpAt(mem', Cur')
    <2>1. FpAt(mem, Cur)
      BY <1>a DEF Memory
    <2> QED
      BY <1>a, <1>3, <1>5, <2>1, OwnedKept
  <1>7. History'
    BY <1>a, <1>5 DEF History, InBody, InPrologue
  <1>8. Memory'
    BY <1>5, <1>6 DEF Memory, InBody
  <1> QED
    BY <1>2, <1>5, <1>7, <1>8 DEF FrameInv, ReturnIntegrity, Running

\* pop of a call-saved register
LEMMA RestoreRegStep ==
  ASSUME FrameInv, TypeOK', RestoreReg
  PROVE  FrameInv'
  <1>1. pc = "restore" /\ pc' = "restore" /\ frames' = frames /\ Running
    BY DEF RestoreReg, Running
  <1>a. /\ sp \in Int /\ reg \in [Regs -> Int] /\ Registers
        /\ Cur \in ActivationRec /\ Fn \in Fns /\ Fn = Cur.fn
    BY <1>1, Current
  <1>2. PICK r \in todo : /\ reg' = [reg EXCEPT ![r] = Word(mem, sp)]
                         /\ sp' = sp + 2
                         /\ mem' = Freed(mem, sp + 2)
                         /\ todo' = todo \ {r}
    BY DEF RestoreReg
  <1>3. /\ todo \subseteq Saved(Fn) /\ reg[IX] = Bp(Cur)
        /\ sp = LocalsLow(Cur) - 2 * Cardinality(todo)
    BY <1>1, <1>a DEF Registers
  <1>4. reg'[IX] = Bp(Cur)
    <2>1. CallSaved \subseteq {HL, DE, BC, IY}
      BY FrameAssumption
    <2>2. r # IX
      BY <1>3, <2>1 DEF Saved, HL, DE, BC, IY, IX
    <2> QED
      BY <1>a, <1>2, <1>3, <2>2, RegNumbers
  <1>5. /\ Cardinality(todo) \in Nat
        /\ Cardinality(todo \ {r}) \in Nat
        /\ Cardinality(todo \ {r}) = Cardinality(todo) - 1
    <2>1. todo \ {r} \subseteq Saved(Fn)
      BY <1>3
    <2> QED
      BY <1>a, <1>3, <2>1, TodoSize
  <1>6. LocalsLow(Cur) \in Int /\ Bp(Cur) \in Int /\ LocalsLow(Cur) <= Bp(Cur)
    BY <1>a, Layout
  <1>7. /\ sp' = LocalsLow(Cur) - 2 * Cardinality(todo')
        /\ sp' \in Int /\ sp <= sp' /\ sp' <= Bp(Cur)
    <2>1. ASSUME NEW l \in Int, NEW b \in Int, l <= b, NEW c \in Nat,
                 NEW e \in Nat, e = c - 1, NEW s, s = l - 2 * c
          PROVE  /\ s + 2 = l - 2 * e /\ s + 2 \in Int /\ s <= s + 2
                 /\ s + 2 <= b
      BY <2>1
    <2> QED
      BY <1>2, <1>3, <1>5, <1>6, <2>1
  <1>8. Registers'
    <2>1. Cur' = Cur /\ Fn' = Fn
      BY <1>1 DEF Cur, Fn, Depth
    <2>2. todo' \subseteq Saved(Fn)
      BY <1>2, <1>3
    <2> QED
      BY <1>1, <1>4, <1>7, <2>1, <2>2 DEF Registers, InBody
  <1> QED
    BY <1>1, <1>2, <1>7, <1>8, EpilogueStep

\* ld sp,ix
LEMMA DropFrameStep ==
  ASSUME FrameInv, FramePointers, TypeOK', DropFrame
  PROVE  FrameInv'
  <1>1. pc = "restore" /\ frames' = frames /\ Running
    BY DEF DropFrame, Running
  <1>a. /\ sp \in Int /\ reg \in [Regs -> Int] /\ Registers
        /\ Cur \in ActivationRec /\ Fn \in Fns /\ Fn = Cur.fn
    BY <1>1, Current
  <1>2. /\ pc' = "pop_fp" /\ sp' = reg[IX] /\ mem' = Freed(mem, sp')
        /\ reg' = reg /\ todo = {}
    BY <1>a DEF DropFrame, FramePointers
  <1>3. /\ todo \subseteq Saved(Fn) /\ reg[IX] = Bp(Cur)
        /\ sp = LocalsLow(Cur) - 2 * Cardinality(todo)
    BY <1>1, <1>a DEF Registers
  <1>4. LocalsLow(Cur) \in Int /\ Bp(Cur) \in Int /\ LocalsLow(Cur) <= Bp(Cur)
    BY <1>a, Layout
  <1>5. sp' \in Int /\ sp <= sp' /\ sp' <= Bp(Cur)
    <2>1. Cardinality(todo) \in Nat
      BY <1>a, <1>3, TodoSize
    <2> QED
      BY <1>2, <1>3, <1>4, <2>1
  <1>6. Registers'
    <2>1. Cur' = Cur /\ Fn' = Fn
      BY <1>1 DEF Cur, Fn, Depth
    <2> QED
      BY <1>2, <1>3, <2>1 DEF Registers, InBody
  <1> QED
    BY <1>1, <1>2, <1>5, <1>6, EpilogueStep

\* pop ix
LEMMA PopFpStep ==
  ASSUME FrameInv, TypeOK', PopFp
  PROVE  FrameInv'
  <1>1. pc = "pop_fp" /\ pc' = "ret" /\ frames' = frames /\ Running
    BY DEF PopFp, Running
  <1>a. /\ sp \in Int /\ sp >= Bottom /\ mem \in [Addr -> Cell]
        /\ reg \in [Regs -> Int] /\ Registers /\ History /\ Memory
        /\ Cur \in ActivationRec
    BY <1>1, Current
  <1>2. /\ reg' = [reg EXCEPT ![IX] = Word(mem, sp)] /\ sp' = sp + 2
        /\ mem' = Freed(mem, sp + 2)
    BY DEF PopFp
  <1>3. sp = Bp(Cur) /\ FpAt(mem, Cur)
    BY <1>1, <1>a DEF Registers, Memory
  <1>4. sp' = Cur.sp0 /\ sp' >= Bottom /\ Cur.sp0 \in Int
    <2>1. Bp(Cur) = Cur.sp0 - 2 /\ Cur.sp0 \in Int /\ Bottom \in Int
      BY <1>a, Layout, FrameAssumption
    <2> QED
      BY <1>a, <1>2, <1>3, <2>1
  <1>5. reg'[IX] = Cur.regs[IX]
    <2>1. Word(mem, sp) = Cur.regs[IX]
      BY <1>3, WordRead DEF FpAt
    <2> QED
      BY <1>a, <1>2, <2>1, RegNumbers
  <1>6. Agree(mem, mem', Cur.sp0)
    BY <1>a, <1>2, <1>4, FreedEffect
  <1>7. /\ Nesting'
        /\ \A i \in 1..(Depth' - 1) : Owned(mem', frames'[i])
        /\ RaAt(mem', Cur')
        /\ WordArguments => ParamsAt(mem', Cur')
        /\ Cur' = Cur /\ Depth' = Depth /\ Fn' = Fn
    BY <1>1, <1>6, FramesUnchanged
  <1>8. Registers'
    BY <1>1, <1>4, <1>5, <1>7 DEF Registers, InBody
  <1>9. History'
    BY <1>1, <1>a, <1>7 DEF History, InBody, InPrologue
  <1>10. Memory'
    BY <1>1, <1>7 DEF Memory, InBody
  <1> QED
    BY <1>1, <1>4, <1>7, <1>8, <1>9, <1>10
       DEF FrameInv, ReturnIntegrity, Running

\* What ret finds: its return address, so control goes back to the caller.
LEMMA RetFinds ==
  ASSUME FrameInv, Ret
  PROVE  /\ Running /\ sp = Cur.sp0 /\ reg[IX] = Cur.regs[IX]
         /\ frames' = SubSeq(frames, 1, Depth - 1)
         /\ pc' = IF Depth = 1 THEN "exit" ELSE "body"
         /\ sp' = Cur.sp0 + 2 /\ reg' = reg /\ mem' = Freed(mem, sp')
  <1>1. pc = "ret" /\ Running
    BY DEF Ret, Running
  <1>2. sp = Cur.sp0 /\ reg[IX] = Cur.regs[IX] /\ RaAt(mem, Cur)
    BY <1>1, Current DEF Registers, Memory
  <1>3. HoldsWord(mem, sp, Cur.ra)
    BY <1>2 DEF RaAt
  <1> QED
    BY <1>1, <1>2, <1>3 DEF Ret

\* ret
LEMMA RetStep ==
  ASSUME FrameInv, TypeOK', Ret
  PROVE  FrameInv'
  <1>1. /\ Running /\ sp = Cur.sp0 /\ reg[IX] = Cur.regs[IX]
        /\ frames' = SubSeq(frames, 1, Depth - 1)
        /\ pc' = IF Depth = 1 THEN "exit" ELSE "body"
        /\ sp' = Cur.sp0 + 2 /\ reg' = reg /\ mem' = Freed(mem, sp')
    BY RetFinds
  <1>a. /\ sp \in Int /\ sp >= Bottom /\ mem \in [Addr -> Cell]
        /\ Nesting /\ History /\ Memory /\ Cur \in ActivationRec
        /\ Depth \in Nat \ {0} /\ Depth = Len(frames) /\ Cur = frames[Depth]
        /\ frames \in Seq(ActivationRec)
    BY <1>1, Current
  <1>2. CASE Depth = 1
    BY <1>1, <1>2 DEF FrameInv, ReturnIntegrity, Running
  <1>3. CASE Depth # 1
    <2> DEFINE d == Depth - 1
    <2>1. /\ d \in Nat \ {0} /\ d \in 1..d /\ d \in 1..(Depth - 1)
          /\ d + 1 = Depth /\ d \in 0..Len(frames)
          /\ 1..d \subseteq 1..(Depth - 1) /\ 1..d \subseteq 1..Depth
      BY <1>a, <1>3
    <2>2. /\ Len(frames') = d /\ \A i \in 1..d : frames'[i] = frames[i]
      BY <1>1, <1>a, <2>1, SeqParts
    <2>3. Depth' = d
      BY <2>2 DEF Depth
    <2> DEFINE c == frames[d]
    <2>4. Cur' = c
      BY <2>1, <2>2, <2>3 DEF Cur
    <2>5. /\ c.save = FrameLow(c) /\ Cur.sp0 + 2 = BodySp(c)
          /\ Cur.regs[IX] = Bp(c)
      BY <1>a, <2>1 DEF Nesting
    <2>6. c \in ActivationRec
      BY <1>a, <2>1
    <2>7. Owned(mem, c)
      BY <1>a, <2>1 DEF Memory
    <2> HIDE DEF d, c
    <2>8. sp' \in Int /\ sp' = BodySp(c) /\ sp' >= Bottom
      <3>1. Cur.sp0 \in Int /\ Bottom \in Int
        BY <1>a, Layout, FrameAssumption
      <3> QED
        BY <1>1, <1>a, <2>5, <3>1
    <2>9. Agree(mem, mem', sp')
      BY <1>1, <1>a, <2>8, FreedEffect
    <2>10. Owned(mem', c)
      BY <2>6, <2>7, <2>8, <2>9, OwnedKept
    <2>11. ASSUME NEW i \in 1..(d - 1)
           PROVE  Owned(mem', frames[i])
      <3>1. /\ i \in 1..Depth /\ d \in 1..Depth /\ i < d
            /\ i \in 1..(Depth - 1) /\ frames[i] \in ActivationRec
        BY <1>a, <2>1
      <3>2. c.sp0 + 2 <= BodySp(frames[i])
        BY <1>a, <3>1 DEF Nesting, c
      <3>3. /\ BodySp(c) <= FrameLow(c) /\ FrameLow(c) <= LocalsLow(c)
            /\ LocalsLow(c) <= Bp(c) /\ Bp(c) = c.sp0 - 2
            /\ BodySp(c) \in Int /\ FrameLow(c) \in Int
            /\ LocalsLow(c) \in Int /\ Bp(c) \in Int /\ c.sp0 \in Int
        BY <2>6, Layout
      <3>4. BodySp(frames[i]) \in Int
        BY <3>1, Layout
      <3>5. sp' <= BodySp(frames[i])
        BY <2>8, <3>2, <3>3, <3>4
      <3>6. Owned(mem, frames[i])
        BY <1>a, <3>1 DEF Memory
      <3> QED
        BY <2>8, <2>9, <3>1, <3>5, <3>6, OwnedKept
    <2>12. pc' = "body"
      BY <1>1, <1>3
    <2>13. Registers'
      BY <1>1, <2>4, <2>5, <2>8, <2>12 DEF Registers, InBody
    <2>14. History'
      <3>1. \A i \in 1..Depth' :
              frames'[i].fn \notin Alloca => frames'[i].dyn = 0
        BY <1>a, <2>1, <2>2, <2>3 DEF History
      <3> QED
        BY <2>4, <2>5, <2>12, <3>1 DEF History, InBody, InPrologue
    <2>15. Nesting'
      <3>1. ASSUME NEW i \in 1..(d - 1)
            PROVE  /\ frames'[i].save = FrameLow(frames'[i])
                   /\ frames'[i + 1].sp0 + 2 = BodySp(frames'[i])
                   /\ frames'[i + 1].regs[IX] = Bp(frames'[i])
        <4>1. i \in 1..d /\ i + 1 \in 1..d /\ i \in 1..(Depth - 1)
          BY <2>1
        <4>2. frames'[i] = frames[i] /\ frames'[i + 1] = frames[i + 1]
          BY <2>2, <4>1
        <4> QED
          BY <1>a, <4>1, <4>2 DEF Nesting
      <3>2. ASSUME NEW i \in 1..d, NEW j \in 1..d, i < j
            PROVE  frames'[j].sp0 + 2 <= BodySp(frames'[i])
        <4>1. i \in 1..Depth /\ j \in 1..Depth
          BY <2>1
        <4>2. frames'[i] = frames[i] /\ frames'[j] = frames[j]
          BY <2>2
        <4> QED
          BY <1>a, <3>2, <4>1, <4>2 DEF Nesting
      <3> QED
        BY <2>3, <3>1, <3>2 DEF Nesting
    <2>16. Memory'
      <3>1. \A i \in 1..(Depth' - 1) : Owned(mem', frames'[i])
        <4>1. \A i \in 1..(d - 1) : i \in 1..d
          BY <2>1
        <4> QED
          BY <2>2, <2>3, <2>11, <4>1
      <3> QED
        BY <2>4, <2>10, <2>12, <3>1 DEF Memory, Owned
    <2> QED
      BY <2>8, <2>12, <2>13, <2>14, <2>15, <2>16
         DEF FrameInv, ReturnIntegrity, Running
  <1> QED
    BY <1>2, <1>3

(***************************************************************************)
(* The theorems.                                                           *)
(***************************************************************************)

\* The state in which the start-up code leaves main.
LEMMA InvInit == Init => FrameInv
  <1> SUFFICES ASSUME Init PROVE FrameInv
    OBVIOUS
  <1>1. TypeOK
    BY TypeInit
  <1> DEFINE fr == Activation(Main, Top, StartRa, reg, <<>>)
  <1>2. /\ frames = <<fr>> /\ pc = "push_fp" /\ sp = Top
        /\ mem = PutWord([a \in Addr |-> Junk], Top, StartRa)
    BY DEF Init
  <1>3. /\ fr.sp0 = Top /\ fr.ra = StartRa /\ fr.regs = reg /\ fr.args = <<>>
        /\ fr.out = <<>> /\ fr.dyn = 0 /\ \A k \in Offsets : fr.loc[k] = Junk
    BY DEF Activation
  <1> HIDE DEF fr
  <1>4. Depth = 1 /\ Cur = fr
    BY <1>2 DEF Depth, Cur
  <1>5. /\ Top \in Int /\ Bottom \in Int /\ Bottom <= Top /\ StartRa \in Int
    BY FrameAssumption
  <1>6. Registers
    BY <1>2, <1>3, <1>4 DEF Registers, InBody
  <1>7. History
    BY <1>2, <1>3, <1>4 DEF History, InBody, InPrologue, Cur
  <1>8. Nesting
    BY <1>4 DEF Nesting
  <1>9. Memory
    <2>1. [a \in Addr |-> Junk] \in [Addr -> Cell]
      BY DEF Junk, Cell
    <2>2. Top \in Addr /\ Top + 1 \in Addr
      BY <1>5 DEF Addr
    <2>3. HoldsWord(mem, Top, StartRa)
      BY <1>2, <1>5, <2>1, <2>2, PutWordEffect
    <2> QED
      BY <1>2, <1>3, <1>4, <2>3 DEF Memory, InBody, RaAt, ParamsAt
  <1> QED
    BY <1>1, <1>2, <1>5, <1>6, <1>7, <1>8, <1>9
       DEF FrameInv, ReturnIntegrity

\* Every insn of the emitted code preserves the invariant.
LEMMA InvStep ==
  FrameInv /\ FramePointers /\ [Next]_vars => FrameInv'
  <1> SUFFICES ASSUME FrameInv, FramePointers, [Next]_vars PROVE FrameInv'
    OBVIOUS
  <1>t. TypeOK'
    BY TypeStep DEF FrameInv
  <1>1. CASE Prologue
    BY <1>1, <1>t, PushFpStep, SetFpStep, AllocFrameStep, SaveRegStep,
       EnterBodyStep DEF Prologue
  <1>2. CASE Epilogue
    BY <1>2, <1>t, LeaveBodyStep, RestoreRegStep, DropFrameStep, PopFpStep,
       RetStep DEF Epilogue
  <1>3. CASE ReadChain \/ \E r \in Regs, v \in Vals : SetReg(r, v)
    BY <1>3, <1>t, QuietStep
  <1>4. CASE \E v \in Vals : StoreLocal(v)
    BY <1>4, <1>t, StoreLocalStep
  <1>5. CASE \E mode \in Modes : \E lo, hi \in ArgVals : PushArg(mode, lo, hi)
    BY <1>5, <1>t, PushArgStep
  <1>6. CASE PopArgs
    BY <1>6, <1>t, PopArgsStep
  <1>7. CASE \E n \in DynSizes : DynAlloc(n)
    BY <1>7, <1>t, DynAllocStep
  <1>8. CASE \E f \in Fns : Call(f)
    BY <1>8, <1>t, CallStep
  <1>9. CASE Halt \/ UNCHANGED vars
    <2>1. /\ pc' = pc /\ sp' = sp /\ reg' = reg /\ mem' = mem
          /\ todo' = todo /\ frames' = frames
      BY <1>9 DEF Halt, vars
    <2> QED
      BY <2>1 DEF FrameInv, TypeOK, ReturnIntegrity, Running, Registers,
         History, Nesting, Memory, InBody, InPrologue, Cur, Depth, Fn
  <1> QED
    BY <1>1, <1>2, <1>3, <1>4, <1>5, <1>6, <1>7, <1>8, <1>9 DEF Next

(***************************************************************************)
(* In a program whose functions all have frame pointers, the stack layout  *)
(* of FrameInv is kept by everything the emitted code does.                *)
(***************************************************************************)
THEOREM FrameInvariant ==
  ASSUME FramePointers
  PROVE  Spec => []FrameInv
  <1>1. Init => FrameInv
    BY InvInit
  <1>2. FrameInv /\ [Next]_vars => FrameInv'
    BY InvStep
  <1> QED
    BY <1>1, <1>2, PTL DEF Spec

(***************************************************************************)
(* With frame pointers, no ret of the emitted code ever goes astray.       *)
(***************************************************************************)
THEOREM ReturnsFind ==
  ASSUME FramePointers
  PROVE  Spec => []ReturnIntegrity
  <1>1. FrameInv => ReturnIntegrity
    BY DEF FrameInv
  <1> QED
    BY <1>1, FrameInvariant, PTL

(***************************************************************************)
(* With frame pointers, a local keeps the byte last stored into it for as  *)
(* long as its function is active.                                         *)
(***************************************************************************)
THEOREM LocalsKept ==
  ASSUME FramePointers
  PROVE  Spec => []LocalsSurvive
  <1>1. FrameInv => LocalsSurvive
    <2> SUFFICES ASSUME FrameInv, pc = "body", NEW k \in 0..(Size[Fn] - 1),
                        Cur.loc[k] # Junk
                 PROVE  mem[LocalAddr(k)] = Cur.loc[k]
      BY DEF LocalsSurvive
    <2>1. /\ Running /\ FpNeeded[Fn] /\ reg[IX] = Bp(Cur)
          /\ LocalsAt(mem, Cur)
      BY BodyFacts
    <2>2. Cur \in ActivationRec /\ Fn = Cur.fn
      BY <2>1, Current
    <2>3. Bp(Cur) \in Int /\ Size[Fn] \in Nat
      BY <2>2, Layout
    <2>4. LocalAddr(k) = LocalsLow(Cur) + k
      BY <2>1, <2>2, <2>3 DEF LocalAddr, FrameBase, StartingFrameOffset,
         LocalsLow
    <2> QED
      BY <2>1, <2>2, <2>4 DEF LocalsAt
  <1> QED
    BY <1>1, FrameInvariant, PTL

(***************************************************************************)
(* With frame pointers and word-sized arguments, a function reads at       *)
(* FP + 4 + 2(k-1) what its caller pushed as parameter k.                  *)
(***************************************************************************)
THEOREM ParamsFound ==
  ASSUME FramePointers, WordArguments
  PROVE  Spec => []ParamsArrive
  <1>1. FrameInv => ParamsArrive
    <2> SUFFICES ASSUME FrameInv, pc = "body", NEW k \in DOMAIN Cur.args
                 PROVE  HoldsWord(mem, ParamAddr(k), Cur.args[k])
      BY DEF ParamsArrive
    <2>1. /\ Running /\ FpNeeded[Fn] /\ reg[IX] = Bp(Cur)
          /\ ParamsAt(mem, Cur)
      BY BodyFacts
    <2>2. Cur \in ActivationRec
      BY <2>1, Current
    <2>3. k \in 1..Len(Cur.args) /\ k \in Int
      BY <2>2 DEF ActivationRec
    <2>4. Bp(Cur) = Cur.sp0 - 2 /\ Cur.sp0 \in Int
      BY <2>2, Layout
    <2>5. ParamAddr(k) = Cur.sp0 + 2 + 2 * (k - 1)
      <3>1. ParamAddr(k) = (Cur.sp0 - 2) + 4 + 2 * (k - 1)
        BY <2>1, <2>4 DEF ParamAddr, FrameBase, FirstParmOffset
      <3> QED
        BY <2>3, <2>4, <3>1
    <2> QED
      BY <2>1, <2>3, <2>5 DEF ParamsAt
  <1> QED
    BY <1>1, FrameInvariant, PTL

(***************************************************************************)
(* With frame pointers, every return gives the caller its stack pointer    *)
(* and its frame pointer back.                                             *)
(***************************************************************************)
THEOREM CallersRestored ==
  ASSUME FramePointers
  PROVE  Spec => CallerRestored
  <1> DEFINE Restored ==
        pc = "ret" /\ pc' \in {"body", "exit"} =>
          /\ sp' = Cur.sp0 + 2
          /\ FpNeeded[Fn] => reg'[IX] = Cur.regs[IX]
  <1>1. FrameInv /\ [Next]_vars => [Restored]_vars
    <2> SUFFICES ASSUME FrameInv, Next, pc = "ret", pc' # "ret"
                 PROVE  sp' = Cur.sp0 + 2 /\ reg'[IX] = Cur.regs[IX]
      OBVIOUS
    <2>1. Ret
      BY DEF Next, Prologue, Epilogue, PushFp, SetFp, AllocFrame, SaveReg,
         EnterBody, LeaveBody, RestoreReg, DropFrame, PopFp, ReadChain,
         SetReg, StoreLocal, PushArg, PopArgs, DynAlloc, Call, Halt, vars
    <2> QED
      BY <2>1, RetFinds
  <1> QED
    BY <1>1, FrameInvariant, PTL DEF Spec, CallerRestored
=============================================================================
