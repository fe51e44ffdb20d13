------------------------------ MODULE CcProofs ------------------------------
(***************************************************************************)
(* The compares final drops, for any registers and values.                 *)
(***************************************************************************)
EXTENDS CcStatus, TLAPS

\* In optimized functions, every insn that sets the flags is noticed.
AllNoticed == \A k \in Cases : k[1] = TRUE => k[2] = FALSE

\* What cc_status records as compared was compared last, and if it was in
\* bytes, is unchanged.
Faithful ==
  \A r, s \in Regs :
    /\ value1 # CompareOf(r, s)
    /\ value2 = CompareOf(r, s) =>
         /\ SameMode(r, s)
         /\ r \notin Words => flags = Compared(reg[r], reg[s])

\* A dropped compare is one cc_status recorded.
Dropped ==
  \/ elided = Nothing
  \/ /\ opt = TRUE
     /\ \E r, s \in Regs :
          /\ elided = CompareOf(r, s)
          /\ r \notin Words => flags = Compared(reg[r], reg[s])

\* The inductive invariant.
CcInv ==
  /\ opt = TRUE => silent = FALSE
  /\ opt \in BOOLEAN /\ silent \in BOOLEAN
  /\ reg \in [Regs -> Vals] /\ mem \in Vals
  /\ opt = TRUE => Faithful
  /\ Dropped

(***************************************************************************)
(* Types, for every function compiled.                                     *)
(***************************************************************************)

\* Forgetting yields an expression.
LEMMA ForgetType ==
  ASSUME NEW x \in Exprs, NEW r
  PROVE  (IF Mentions(x, r) THEN Nothing ELSE x) \in Exprs
  BY DEF Exprs

\* The expressions that are recorded.
LEMMA ExprTypes ==
  ASSUME NEW r \in Regs, NEW s \in Regs
  PROVE  /\ Nothing \in Exprs /\ Mem \in Exprs /\ Cc0 \in Exprs
         /\ Reg(r) \in Exprs /\ Sum(r, s) \in Exprs
         /\ CompareOf(r, s) \in Exprs
  BY DEF Exprs

\* What notice_update_cc_on_set records are expressions.
LEMMA NoticeType ==
  ASSUME value1 \in Exprs, value2 \in Exprs
  PROVE  /\ CC_STATUS_INIT => value1' \in Exprs /\ value2' \in Exprs
         /\ \A r : NoticeReg(r) => value1' \in Exprs /\ value2' \in Exprs
         /\ \A x, y \in Exprs :
              NoticeValue(x, y) => value1' \in Exprs /\ value2' \in Exprs
  <1>1. Nothing \in Exprs
    BY DEF Exprs
  <1> QED
    BY <1>1, ForgetType DEF CC_STATUS_INIT, NoticeReg, NoticeValue

\* sbc wraps round.
LEMMA DifferenceType ==
  ASSUME NEW v \in Vals, NEW w \in Vals
  PROVE  (v - w) % Width \in Vals
  BY CcAssumption DEF Vals

LEMMA CcTypeInit == Init => TypeOK
  <1> SUFFICES ASSUME Init PROVE TypeOK
    OBVIOUS
  <1>1. PICK k \in Cases : opt = k[1] /\ silent = k[2]
    BY DEF Init
  <1>2. k \in BOOLEAN \X BOOLEAN
    BY <1>1, CcAssumption
  <1>3. Nothing \in Exprs
    BY DEF Exprs
  <1> QED
    BY <1>1, <1>2, <1>3 DEF Init, TypeOK

LEMMA CcTypeStep == TypeOK /\ [Next]_vars => TypeOK'
  <1> SUFFICES ASSUME TypeOK, [Next]_vars PROVE TypeOK'
    OBVIOUS
  <1> DEFINE Flags == {Junk} \cup {Compared(v, w) : v, w \in Vals}
             Drops == {Nothing} \cup {CompareOf(r, s) : r, s \in Regs}
  <1>a. /\ opt \in BOOLEAN /\ silent \in BOOLEAN
        /\ value1 \in Exprs /\ value2 \in Exprs
        /\ reg \in [Regs -> Vals] /\ mem \in Vals
        /\ flags \in Flags /\ elided \in Drops
    BY DEF TypeOK
  <1>b. Nothing \in Drops /\ Junk \in Flags
    OBVIOUS
  <1>c. \A r, s \in Regs : Compared(reg[r], reg[s]) \in Flags
    BY <1>a
  <1>d. \A r \in Regs, v \in Vals : [reg EXCEPT ![r] = v] \in [Regs -> Vals]
    BY <1>a
  <1>e. \A r, s \in Regs : CompareOf(r, s) \in Drops
    OBVIOUS
  <1> HIDE DEF Flags, Drops
  <1>f. ASSUME /\ opt' = opt /\ silent' = silent
               /\ value1' \in Exprs /\ value2' \in Exprs
               /\ reg' \in [Regs -> Vals] /\ mem' \in Vals
               /\ flags' \in Flags /\ elided' \in Drops
        PROVE  TypeOK'
    BY <1>a, <1>f DEF TypeOK, Flags, Drops
  <1>1. ASSUME NEW r \in Regs, NEW s \in Regs,
               EmitCompare(r, s) \/ EmitCompareWord(r, s)
        PROVE  TypeOK'
    <2>1. CASE EmitCompare(r, s)
      BY <2>1, <1>a, <1>b, <1>c, <1>f, ExprTypes DEF EmitCompare, fn
    <2>2. CASE EmitCompareWord(r, s)
      <3>1. (reg[r] - reg[s]) % Width \in Vals
        BY <1>a, DifferenceType
      <3>2. reg' \in [Regs -> Vals]
        BY <2>2, <3>1, <1>d DEF EmitCompareWord
      <3> QED
        BY <2>2, <3>2, <1>a, <1>b, <1>c, <1>f, ExprTypes
           DEF EmitCompareWord, fn
    <2> QED
      BY <1>1, <2>1, <2>2
  <1>2. ASSUME NEW r \in Regs, NEW s \in Regs, DropCompare(r, s)
        PROVE  TypeOK'
    BY <1>2, <1>a, <1>e, <1>f DEF DropCompare, fn
  <1>3. ASSUME NEW r \in Regs, NEW s \in Regs, MoveReg(r, s)
        PROVE  TypeOK'
    BY <1>3, <1>a, <1>b, <1>d, <1>f, ExprTypes, NoticeType DEF MoveReg, fn
  <1>4. ASSUME NEW r \in Regs, LoadMem(r) \/ StoreReg(r)
        PROVE  TypeOK'
    BY <1>4, <1>a, <1>b, <1>d, <1>f, ExprTypes, NoticeType
       DEF LoadMem, StoreReg, fn
  <1>5. ASSUME NEW r \in Regs, NEW s \in Regs, NEW v \in Vals, Arith(r, s, v)
        PROVE  TypeOK'
    BY <1>5, <1>a, <1>b, <1>d, <1>f, ExprTypes, NoticeType DEF Arith, fn
  <1>6. ASSUME NEW r \in Regs, NEW v \in Vals,
               LoadConst(r, v) \/ ShiftReset(r, v) \/ ShiftSilent(r, v)
        PROVE  TypeOK'
    BY <1>6, <1>a, <1>b, <1>d, <1>f, NoticeType
       DEF LoadConst, ShiftReset, ShiftSilent, fn
  <1>7. CASE \/ \E v \in Vals : StoreConst(v)
             \/ \E rs \in [Regs -> Vals] : Call(rs)
             \/ Label
    BY <1>7, <1>a, <1>b, <1>f, NoticeType DEF StoreConst, Call, Label, fn
  <1>8. CASE FallThrough \/ ArithZero
    BY <1>8, <1>a, <1>b, <1>f DEF FallThrough, ArithZero, fn
  <1>9. CASE UNCHANGED vars
    BY <1>9, <1>a, <1>f DEF vars
  <1> QED
    BY <1>1, <1>2, <1>3, <1>4, <1>5, <1>6, <1>7, <1>8, <1>9 DEF Next

(***************************************************************************)
(* cc_status only ever holds expressions over the function's registers,    *)
(* and final.c drops only compares of them, whatever insns are output.     *)
(***************************************************************************)
THEOREM CcTypes == Spec => []TypeOK
  BY CcTypeInit, CcTypeStep, PTL DEF Spec

(***************************************************************************)
(* Dropped compares.                                                       *)
(***************************************************************************)

\* Compares are told apart from all else that stands in cc_status.
LEMMA Kinds ==
  ASSUME NEW r, NEW s, NEW p, NEW q
  PROVE  /\ CompareOf(r, s) # Nothing /\ CompareOf(r, s) # Mem
         /\ CompareOf(r, s) # Cc0 /\ CompareOf(r, s) # Reg(p)
         /\ CompareOf(r, s) # Sum(p, q)
         /\ CompareOf(r, s) = CompareOf(p, q) => r = p /\ s = q
         /\ CompareOf(r, s).a = r /\ CompareOf(r, s).b = s
         /\ Mentions(CompareOf(r, s), p) <=> p \in {r, s}
  <1>1. /\ CompareOf(r, s).kind = "compare" /\ CompareOf(r, s).a = r
        /\ CompareOf(r, s).b = s
    BY DEF CompareOf
  <1>2. /\ CompareOf(p, q).a = p /\ CompareOf(p, q).b = q
    BY DEF CompareOf
  <1>3. /\ Nothing.kind = "nothing" /\ Mem.kind = "mem" /\ Cc0.kind = "cc0"
        /\ Reg(p).kind = "reg" /\ Sum(p, q).kind = "sum"
    BY DEF Nothing, Mem, Cc0, Reg, Sum
  <1>4. Mentions(CompareOf(r, s), p) <=> p \in {r, s}
    BY <1>1 DEF Mentions
  <1> QED
    BY <1>1, <1>2, <1>3, <1>4

\* The start of a function: nothing is recorded yet.
LEMMA CcInit ==
  ASSUME AllNoticed, Init
  PROVE  CcInv
  <1>1. PICK k \in Cases : opt = k[1] /\ silent = k[2]
    BY DEF Init
  <1>2. k \in BOOLEAN \X BOOLEAN
    BY <1>1, CcAssumption
  <1>3. /\ opt = TRUE => silent = FALSE
        /\ opt \in BOOLEAN /\ silent \in BOOLEAN
    BY <1>1, <1>2 DEF AllNoticed
  <1>4. Faithful
    BY Kinds DEF Init, Faithful
  <1> QED
    BY <1>3, <1>4 DEF Init, CcInv, Dropped

\* A set noticed with both values known leaves no compare recorded.
LEMMA ValueForgets ==
  ASSUME NEW src \in {Reg(s) : s \in Regs} \cup {Mem}
               \cup {Sum(p, q) : p, q \in Regs},
         NEW dest \in {Reg(s) : s \in Regs} \cup {Mem},
         NoticeValue(src, dest)
  PROVE  Faithful'
  <1>1. value1' = src /\ value2' \in {Nothing, dest}
    BY DEF NoticeValue
  <1>2. ASSUME NEW r \in Regs, NEW s \in Regs
        PROVE  src # CompareOf(r, s) /\ dest # CompareOf(r, s)
    <2>1. src # CompareOf(r, s)
      BY Kinds
    <2>2. dest # CompareOf(r, s)
      BY Kinds
    <2> QED
      BY <2>1, <2>2
  <1>3. ASSUME NEW r \in Regs, NEW s \in Regs
        PROVE  /\ value1' # CompareOf(r, s)
               /\ value2' # CompareOf(r, s)
    <2>1. CompareOf(r, s) # Nothing
      BY Kinds
    <2>2. src # CompareOf(r, s) /\ dest # CompareOf(r, s)
      BY <1>2
    <2> QED
      BY <1>1, <2>1, <2>2
  <1> QED
    BY <1>3 DEF Faithful

\* A set of register q that leaves the flags alone forgets compares of q.
LEMMA RegForgets ==
  ASSUME CcInv, Faithful, NEW q \in Regs, NEW v \in Vals,
         NoticeReg(q), reg' = [reg EXCEPT ![q] = v], flags' = flags
  PROVE  Faithful'
  <1> SUFFICES ASSUME NEW r \in Regs, NEW s \in Regs
               PROVE  /\ value1' # CompareOf(r, s)
                      /\ value2' = CompareOf(r, s) =>
                           /\ SameMode(r, s)
                           /\ r \notin Words =>
                                flags' = Compared(reg'[r], reg'[s])
    BY DEF Faithful
  <1>1. value1' # CompareOf(r, s)
    BY Kinds DEF NoticeReg, Faithful
  <1>2. ASSUME value2' = CompareOf(r, s)
        PROVE  /\ SameMode(r, s)
               /\ r \notin Words => flags' = Compared(reg'[r], reg'[s])
    <2>1. value2 = CompareOf(r, s) /\ ~Mentions(CompareOf(r, s), q)
      BY <1>2, Kinds DEF NoticeReg
    <2>2. q # r /\ q # s
      BY <2>1, Kinds
    <2>3. reg'[r] = reg[r] /\ reg'[s] = reg[s]
      BY <2>2 DEF CcInv
    <2> QED
      BY <2>1, <2>3 DEF Faithful
  <1> QED
    BY <1>1, <1>2

\* CC_STATUS_INIT
LEMMA ResetForgets ==
  ASSUME CC_STATUS_INIT
  PROVE  Faithful'
  BY Kinds DEF CC_STATUS_INIT, Faithful

\* Every insn, output or dropped, keeps the record faithful.
LEMMA CcStep ==
  ASSUME CcInv, [Next]_vars
  PROVE  CcInv'
  <1>1. ASSUME NEW r \in Regs, NEW s \in Regs, EmitCompare(r, s)
        PROVE  CcInv'
    <2>1. Faithful'
      BY <1>1, Kinds DEF EmitCompare, Faithful, SameMode
    <2> QED
      BY <1>1, <2>1 DEF EmitCompare, CcInv, Dropped, fn
  <1>0. ASSUME NEW r \in Regs, NEW s \in Regs, EmitCompareWord(r, s)
        PROVE  CcInv'
    <2>1. Faithful'
      BY <1>0, Kinds DEF EmitCompareWord, Faithful, SameMode
    <2>2. reg' \in [Regs -> Vals]
      BY <1>0, DifferenceType DEF EmitCompareWord, CcInv
    <2> QED
      BY <1>0, <2>1, <2>2 DEF EmitCompareWord, CcInv, Dropped, fn
  <1>2. ASSUME NEW r \in Regs, NEW s \in Regs, DropCompare(r, s)
        PROVE  CcInv'
    <2>1. opt = TRUE /\ CompareOf(r, s) \in {value1, value2}
      BY <1>2 DEF DropCompare, Redundant, CcInv
    <2>2. UNCHANGED <<opt, silent, value1, value2, reg, mem, flags>>
          /\ elided' = CompareOf(r, s)
      BY <1>2 DEF DropCompare, fn
    <2>3. Faithful
      BY <2>1 DEF CcInv
    <2>4. r \notin Words => flags = Compared(reg[r], reg[s])
      BY <2>1, <2>3 DEF Faithful
    <2>5. Faithful' /\ Dropped'
      BY <2>1, <2>2, <2>3, <2>4 DEF Faithful, Dropped
    <2> QED
      BY <2>2, <2>5 DEF CcInv
  <1>3. ASSUME NEW r \in Regs, NEW s \in Regs, MoveReg(r, s)
        PROVE  CcInv'
    <2>1. Faithful'
      BY <1>3, ValueForgets DEF MoveReg
    <2> QED
      BY <1>3, <2>1 DEF MoveReg, CcInv, Dropped, fn
  <1>4. ASSUME NEW r \in Regs, LoadMem(r)
        PROVE  CcInv'
    <2>1. Faithful'
      BY <1>4, ValueForgets DEF LoadMem
    <2> QED
      BY <1>4, <2>1 DEF LoadMem, CcInv, Dropped, fn
  <1>5. ASSUME NEW r \in Regs, StoreReg(r)
        PROVE  CcInv'
    <2>1. Faithful'
      BY <1>5, ValueForgets DEF StoreReg
    <2> QED
      BY <1>5, <2>1 DEF StoreReg, CcInv, Dropped, fn
  <1>6. ASSUME NEW v \in Vals, StoreConst(v)
        PROVE  CcInv'
    <2>1. Faithful'
      BY <1>6, ResetForgets DEF StoreConst
    <2> QED
      BY <1>6, <2>1 DEF StoreConst, CcInv, Dropped, fn
  <1>7. ASSUME NEW r \in Regs, NEW s \in Regs, NEW v \in Vals, Arith(r, s, v)
        PROVE  CcInv'
    <2>1. Faithful'
      BY <1>7, ValueForgets DEF Arith
    <2> QED
      BY <1>7, <2>1 DEF Arith, CcInv, Dropped, fn
  <1>8. ASSUME NEW r \in Regs, NEW v \in Vals, LoadConst(r, v)
        PROVE  CcInv'
    <2>1. opt = TRUE => Faithful'
      BY <1>8, RegForgets DEF LoadConst, CcInv
    <2> QED
      BY <1>8, <2>1 DEF LoadConst, CcInv, Dropped, fn
  <1>9. ASSUME NEW r \in Regs, NEW v \in Vals, ShiftReset(r, v)
        PROVE  CcInv'
    <2>1. Faithful'
      BY <1>9, ResetForgets DEF ShiftReset
    <2> QED
      BY <1>9, <2>1 DEF ShiftReset, CcInv, Dropped, fn
  <1>10. ASSUME NEW r \in Regs, NEW v \in Vals, ShiftSilent(r, v)
         PROVE  CcInv'
    <2>1. opt = FALSE
      BY <1>10 DEF ShiftSilent, CcInv
    <2> QED
      BY <1>10, <2>1 DEF ShiftSilent, CcInv, Dropped, fn
  <1>11. ASSUME NEW rs \in [Regs -> Vals], Call(rs)
         PROVE  CcInv'
    <2>1. Faithful'
      BY <1>11, ResetForgets DEF Call
    <2> QED
      BY <1>11, <2>1 DEF Call, CcInv, Dropped, fn
  <1>12. CASE Label
    <2>1. Faithful'
      BY <1>12, ResetForgets DEF Label
    <2> QED
      BY <1>12, <2>1 DEF Label, CcInv, Dropped, fn
  <1>13. CASE FallThrough \/ ArithZero
    BY <1>13 DEF FallThrough, ArithZero, CcInv, Dropped, Faithful, fn
  <1>14. CASE UNCHANGED vars
    BY <1>14 DEF vars, CcInv, Dropped, Faithful
  <1> QED
    BY <1>0, <1>1, <1>2, <1>3, <1>4, <1>5, <1>6, <1>7, <1>8, <1>9, <1>10,
       <1>11, <1>12, <1>13, <1>14 DEF Next

(***************************************************************************)
(* If every insn of the optimized functions that sets the flags is one     *)
(* that notice_update_cc_on_set lists or resets cc_status, final.c never   *)
(* drops a compare of bytes whose flags are not there, whatever compares   *)
(* of words (cmphi_1) store into their operands.                           *)
(***************************************************************************)
THEOREM DropsSound ==
  ASSUME AllNoticed
  PROVE  Spec => []ByteElisionSound
  <1>1. Init => CcInv
    BY CcInit
  <1>2. CcInv /\ [Next]_vars => CcInv'
    BY CcStep
  <1>3. CcInv => ByteElisionSound
    BY Kinds DEF CcInv, Dropped, ByteElisionSound
  <1> QED
    BY <1>1, <1>2, <1>3, PTL DEF Spec

(***************************************************************************)
(* Functions that hold no words in registers: no compare at all is         *)
(* dropped whose flags are not there.  CcStatusWord shows that words break *)
(* this, CcStatusSilent that insns that are not noticed do.                *)
(***************************************************************************)
THEOREM BytesDropSound ==
  ASSUME AllNoticed, Words = {}
  PROVE  Spec => []ElisionSound
  <1>1. ByteElisionSound => ElisionSound
    BY DEF ByteElisionSound, ElisionSound
  <1> QED
    BY <1>1, DropsSound, PTL
=============================================================================
