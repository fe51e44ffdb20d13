----------------------------- MODULE CcStatus -----------------------------
(***************************************************************************)
(* Redundant compares: what notice_update_cc_on_set (z80.c) and            *)
(* NOTICE_UPDATE_CC (z80.h) record in cc_status, how final.c drops a       *)
(* compare that cc_status says is already reflected in the flags, and what *)
(* the flags really hold by then.                                          *)
(*                                                                         *)
(* One action is one insn of a function, output by final and executed.     *)
(* cc_status is compile-time state, reg, mem and flags are the machine;    *)
(* control runs straight through, as a label makes final forget all.       *)
(* Registers do not overlap one another (they have one mode each: bytes,   *)
(* or the words of Words).  flags says which two values were last          *)
(* compared, or that something else was left in F.                         *)
(***************************************************************************)
EXTENDS Integers

CONSTANTS
  Regs,  \* the hard registers
  Words, \* those in HImode, the others are in QImode
  Width, \* the number of values of a register
  Cases  \* <<opt, silent>>: what functions are compiled

ASSUME CcAssumption ==
  /\ Cases \subseteq BOOLEAN \X BOOLEAN
  /\ Regs # {} /\ Words \subseteq Regs
  /\ Width \in Nat \ {0}

Vals == 0..Width - 1  \* of registers and memory
SameMode(r, s) == r \in Words <=> s \in Words

Nothing == [kind |-> "nothing"]
CompareOf(r, s) == [kind |-> "compare", a |-> r, b |-> s]
Reg(r) == [kind |-> "reg", r |-> r]
Mem == [kind |-> "mem"]
Sum(r, s) == [kind |-> "sum", a |-> r, b |-> s]
Cc0 == [kind |-> "cc0"]

\* The expressions that stand in cc_status.
Exprs ==
  {Nothing, Mem, Cc0} \cup {Reg(r) : r \in Regs}
    \cup {CompareOf(r, s) : r, s \in Regs} \cup {Sum(r, s) : r, s \in Regs}

Junk == [kind |-> "junk"]
Compared(v, w) == [kind |-> "compared", v |-> v, w |-> w]

VARIABLES
  opt,            \* final looks for redundant compares
  silent,         \* some insn that sets the flags has a source other than
                  \* those notice_update_cc_on_set lists, and no reset
  value1, value2, \* cc_status
  reg, mem,
  flags,
  elided          \* the compare final has just dropped

fn == <<opt, silent>>
vars == <<opt, silent, value1, value2, reg, mem, flags, elided>>

-----------------------------------------------------------------------------
\* reg_overlap_mentioned_p (Reg(r), x)
Mentions(x, r) ==
  CASE x.kind = "reg" -> x.r = r
    [] x.kind \in {"compare", "sum"} -> r \in {x.a, x.b}
    [] OTHER -> FALSE

CC_STATUS_INIT == value1' = Nothing /\ value2' = Nothing

\* A set of a register or memory from a register, memory or arithmetic.
NoticeValue(src, dest) ==
  /\ value1' = src
  /\ value2' = IF \/ src.kind = "reg" /\ dest = src
                  \/ src = Mem /\ dest = Mem
                 THEN Nothing ELSE dest

\* Variant: value2 is kept.
NoticeRegKeeps(r) ==
  /\ value1' = IF Mentions(value1, r) THEN Nothing ELSE value1
  /\ UNCHANGED value2

\* A set of register r from anything else.
NoticeReg(r) ==
  /\ value1' = IF Mentions(value1, r) THEN Nothing ELSE value1
  /\ value2' = IF Mentions(value2, r) THEN Nothing ELSE value2

\* final.c: the compare is what cc_status says the flags reflect.
Redundant(r, s) ==
  /\ opt
  /\ CompareOf(r, s) \in {value1, value2}

-----------------------------------------------------------------------------
Init ==
  /\ \E k \in Cases : opt = k[1] /\ silent = k[2]
  /\ value1 = Nothing /\ value2 = Nothing
  /\ reg \in [Regs -> Vals]
  /\ mem \in Vals
  /\ flags = Junk
  /\ elided = Nothing

\* Variant: the whole SET is recorded, not its source.
EmitCompareSet(r, s) ==
  /\ r \notin Words /\ s \notin Words
  /\ ~Redundant(r, s)
  /\ value1' = Cc0
  /\ value2' = [kind |-> "set", a |-> r, b |-> s]
  /\ flags' = Compared(reg[r], reg[s])
  /\ elided' = Nothing
  /\ UNCHANGED <<fn, reg, mem>>

\* A compare of bytes that is output: cp, and notice_update_cc_on_set of a
\* CC0 set
EmitCompare(r, s) ==
  /\ r \notin Words /\ s \notin Words
  /\ ~Redundant(r, s)
  /\ value1' = Cc0
  /\ value2' = CompareOf(r, s)
  /\ flags' = Compared(reg[r], reg[s])
  /\ elided' = Nothing
  /\ UNCHANGED <<fn, reg, mem>>

\* A compare of words that is output: or a; sbc r,s stores the difference
\* into r, and the same set of CC0 is noticed
EmitCompareWord(r, s) ==
  /\ r \in Words /\ s \in Words
  /\ ~Redundant(r, s)
  /\ value1' = Cc0
  /\ value2' = CompareOf(r, s)
  /\ flags' = Compared(reg[r], reg[s])
  /\ reg' = [reg EXCEPT ![r] = (reg[r] - reg[s]) % Width]
  /\ elided' = Nothing
  /\ UNCHANGED <<fn, mem>>

\* A compare that is dropped
DropCompare(r, s) ==
  /\ SameMode(r, s)
  /\ Redundant(r, s)
  /\ elided' = CompareOf(r, s)
  /\ UNCHANGED <<fn, value1, value2, reg, mem, flags>>

\* A conditional jump not taken: SET_DEST is pc_rtx
FallThrough ==
  /\ elided' = Nothing
  /\ UNCHANGED <<fn, value1, value2, reg, mem, flags>>

\* ld r,s
MoveReg(r, s) ==
  /\ SameMode(r, s)
  /\ NoticeValue(Reg(s), Reg(r))
  /\ reg' = [reg EXCEPT ![r] = reg[s]]
  /\ elided' = Nothing
  /\ UNCHANGED <<fn, mem, flags>>

\* ld r,(mem)
LoadMem(r) ==
  /\ NoticeValue(Mem, Reg(r))
  /\ reg' = [reg EXCEPT ![r] = mem]
  /\ elided' = Nothing
  /\ UNCHANGED <<fn, mem, flags>>

\* ld (mem),r
StoreReg(r) ==
  /\ NoticeValue(Reg(r), Mem)
  /\ mem' = reg[r]
  /\ elided' = Nothing
  /\ UNCHANGED <<fn, reg, flags>>

\* ld (mem),constant: the last else
StoreConst(v) ==
  /\ CC_STATUS_INIT
  /\ mem' = v
  /\ elided' = Nothing
  /\ UNCHANGED <<fn, reg, flags>>

\* add, sub, and, or, ...: r := r op s, and flags of the result
Arith(r, s, v) ==
  /\ SameMode(r, s)
  /\ NoticeValue(Sum(r, s), Reg(r))
  /\ reg' = [reg EXCEPT ![r] = v]
  /\ flags' = Junk
  /\ elided' = Nothing
  /\ UNCHANGED <<fn, mem>>

\* iorqi3, xorqi3 with 0: no insn is output and cc_prev_status is put back
ArithZero ==
  /\ elided' = Nothing
  /\ UNCHANGED <<fn, value1, value2, reg, mem, flags>>

\* ld r,constant
LoadConst(r, v) ==
  /\ NoticeReg(r)
  /\ reg' = [reg EXCEPT ![r] = v]
  /\ elided' = Nothing
  /\ UNCHANGED <<fn, mem, flags>>

\* Shifts whose output runs CC_STATUS_INIT (*ashlqi3, *ashrhi3, *lshrsi3, ...)
ShiftReset(r, v) ==
  /\ CC_STATUS_INIT
  /\ reg' = [reg EXCEPT ![r] = v]
  /\ flags' = Junk
  /\ elided' = Nothing
  /\ UNCHANGED <<fn, mem>>

\* Shifts whose output does not (*ashlhi3_const1, *ashlqi3_const1, ...)
ShiftSilent(r, v) ==
  /\ silent
  /\ NoticeReg(r)
  /\ reg' = [reg EXCEPT ![r] = v]
  /\ flags' = Junk
  /\ elided' = Nothing
  /\ UNCHANGED <<fn, mem>>

\* call: every register is call-used
Call(rs) ==
  /\ CC_STATUS_INIT
  /\ reg' = rs
  /\ mem' \in Vals
  /\ flags' = Junk
  /\ elided' = Nothing
  /\ UNCHANGED fn

\* A label: final starts anew, other paths join here
Label ==
  /\ CC_STATUS_INIT
  /\ flags' = Junk
  /\ elided' = Nothing
  /\ UNCHANGED <<fn, reg, mem>>

Next ==
  \/ \E r, s \in Regs : EmitCompare(r, s) \/ EmitCompareWord(r, s)
  \/ \E r, s \in Regs : DropCompare(r, s) \/ MoveReg(r, s)
  \/ \E r \in Regs : LoadMem(r) \/ StoreReg(r)
  \/ \E v \in Vals : StoreConst(v)
  \/ \E r, s \in Regs, v \in Vals : Arith(r, s, v)
  \/ \E r \in Regs, v \in Vals : LoadConst(r, v) \/ ShiftReset(r, v)
  \/ \E r \in Regs, v \in Vals : ShiftSilent(r, v)
  \/ \E rs \in [Regs -> Vals] : Call(rs)
  \/ FallThrough \/ ArithZero \/ Label

Spec == Init /\ [][Next]_vars

-----------------------------------------------------------------------------
(***************************************************************************)
(* Types: cc_status holds expressions of the function, flags what was      *)
(* compared (cc_status of final.c, and the machine).                       *)
(***************************************************************************)
TypeOK ==
  /\ opt \in BOOLEAN /\ silent \in BOOLEAN
  /\ value1 \in Exprs /\ value2 \in Exprs
  /\ reg \in [Regs -> Vals] /\ mem \in Vals
  /\ flags \in {Junk} \cup {Compared(v, w) : v, w \in Vals}
  /\ elided \in {Nothing} \cup {CompareOf(r, s) : r, s \in Regs}

(***************************************************************************)
(* A compare is dropped only when the flags are those it would set: no     *)
(* insn since the compare that notice_update_cc_on_set recorded has        *)
(* changed the flags or one of its operands.                               *)
(***************************************************************************)
ElisionSound ==
  elided # Nothing => flags = Compared(reg[elided.a], reg[elided.b])

(***************************************************************************)
(* The same for bytes, whose compares (cp) leave their operands alone:     *)
(* compares of words in between do no harm to what cc_status says of them. *)
(***************************************************************************)
ByteElisionSound ==
  elided # Nothing /\ elided.a \notin Words =>
    flags = Compared(reg[elided.a], reg[elided.b])
=============================================================================
