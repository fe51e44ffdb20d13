# A verification project for the Z80 back end of GCC 2.95.2

The repository is GCC 2.95.2 with a partly working back end for the Zilog Z80
(`gcc-2.95.2_z80/gcc/config/z80`), a patch with the same content, scripts that
build it as a 32-bit program and a few test programs. Almost all of the 2800
files are upstream GCC; the repository's own logic is `z80.c`, `z80.h` and
`z80.md` in that directory, and the build scripts. This project models what the
three files make the compiler emit, how a Z80 executes it, and what the build
script does to its files when tools fail or it is interrupted.

Source paths below are relative to `gcc-2.95.2_z80/gcc/`, apart from the build
scripts, which are in the repository's root.

## Inventory

| Part | State | Operations | Interacts with |
|---|---|---|---|
| Stack frames and calls: `expand_prologue`, `expand_epilogue` (z80.c), frame and argument macros (z80.h), `*movhi2_push`, `addhi_sp`, `call`, `return` (z80.md) | at run time SP, IX, IY, the call-saved registers and the stack; at compile time `regs_ever_live`, `frame_pointer_needed`, `get_frame_size()` | set up and tear down a frame, push and pop arguments, call, return, alloca | function.c and explow.c (alloca, pending arguments), reload (frame pointer elimination), interrupts on the same stack |
| Compare and branch: `cmpM`/`tstM`, the `bCOND` expanders, `z80_expand_compare_and_branch` | `z80_compare_op0/op1`, left behind by a compare for the branch after it; the flags | swap, split into halves, subtract, branch | flow.c, which deletes insns it takes for dead |
| Condition code status: `NOTICE_UPDATE_CC`, `notice_update_cc_on_set` | `cc_status.value1/value2` | record, forget, reset | final.c, which drops compares that `cc_status` says are redundant; output templates that run `CC_STATUS_INIT` or put `cc_prev_status` back |
| Shifts and rotates: `ashlM3`, `ashrM3`, `lshrM3`, `rotlqi3`, `rotrqi3` (z80.md) | the register shifted, the carry, the count in BC | unrolled, byte-moving and djnz-loop forms | the pattern that matches first wins |
| Moves and operand parts: `movM`, `z80_split_move`, `z80_gen_lowpart`, `z80_gen_highpart` | none | split a long move into halves in an order that does not clobber its source | the SImode push uses it |
| Arithmetic, logic, extensions (z80.md) | the carry between the halves; scratch registers | splits of long and word operations, constraints and alternatives, `clobber` | reload, which places the operands and may exchange those marked `%`; the register allocator, which believes the clobbers |
| Register classes, constraints, addresses (z80.h, z80.c) | none | tables and predicates | reload |
| Assembler output, cost macros, options | none | formatting, heuristics | |
| Build scripts (`makeandtest_gcc_z80_i686.sh`, `makeandtest_gcc_z80.sh`, `clearall_gcc_z80_i686.sh`), 32-bit wrappers | the `is_configured` marker, the build and install directories | check the host, configure, make, install, test; clear all | configure, make, the user |
| Machine-independent GCC, other back ends and languages | | | upstream code |

There are no threads or messages in a compiler. What is hard to test here is
what the *emitted* code does: sequences of pushes and pops over nested calls with
interrupts in between, a flag register shared by insns that do not mention it in
their patterns, a cached belief about the flags, halves of a long that travel one
after the other through registers that may overlap, and numeric edges (overflow
of a signed difference, a djnz count of 0, shifts by 7, 8, 15, 16 and more). The
build script does persist state: a marker file that outlives failed and
interrupted runs. The properties that make each part correct:

* frames: every `ret` finds its own return address; parameters, locals, the
  caller's SP and IX, call-saved registers and the static chain are what the
  source program means;
* compares: a branch goes where the source relation says, and operands survive;
* condition codes: a compare is dropped only when the flags are already its own;
* shifts: every shift the expanders let through has an insn, the result is the
  shifted value, the count register is kept, the loop ends;
* arithmetic, logic, extensions, moves: the result is the value of the pattern's
  expression, and nothing changes but the destination and the declared scratch
  registers;
* build: the marker stands for a configured directory, a clean run tested a fresh
  compiler, and running the script again recovers, unless a marker stands on a
  directory that is not configured.

## Modules

| Module | Content |
|---|---|
| `Frame` | the machine and the insns of prologue, body and epilogue; the properties of frames |
| `FrameInv` | the inductive invariants of `Frame`: layout and ownership of the stack, and where call-saved registers are |
| `FrameProofs` | type correctness and the static chain; preservation of `FrameInv` action by action, and the theorems that follow |
| `FrameSavedProofs` | preservation of `SavedInv`, and that calls give call-saved registers back |
| `CallStack` | the abstract specification of calls: activations with parameters, locals and passed words, no machine |
| `FrameRefines`, `FrameRefinesProofs` | the mapping that shows `Frame` to implement `CallStack`; its proof |
| `Compare`, `CompareProofs` | a conditional branch from expansion to its outcome; its proof |
| `CcStatus`, `CcProofs` | `cc_status` and dropped compares; its proof |
| `Shift`, `ShiftProofs` | shift and rotate patterns, byte by byte through the carry; its proof |
| `Alu`, `AluProofs` | arithmetic, logic, extensions and long moves, as the Z80 instructions output for each pattern; its proof |
| `Build`, `BuildProofs` | the build script, its files, its faults and its user; its proof |
| `MCFrame`, `MCCompare`, `MCCcStatus`, `MCShift`, `MCAlu` | values of the constants for TLC |

Definitions named as a variant (`PopArgsWords`, `NoticeRegKeeps`, ...) are
wrong forms of a neighbouring definition. They are in no specification; put in
place of their neighbour, each makes a named property fail.

### Frame

`sp`, `reg`, `mem` are the machine; `pc` is the next insn of the running
activation and `todo` the registers a push or pop loop has left. `frames` is a
history: what the source program means by each activation. Actions read it only
for what the compiler knows statically and to recognise a `ret` that goes
astray (`pc = "lost"`).

| Action | Code |
|---|---|
| `PushFp`, `SetFp`, `AllocFrame`, `SaveReg` | `expand_prologue`: `push ix`; `ld ix,0; add ix,sp`; `ld iy,-size; add iy,sp; ld sp,iy`; pushes in ascending register number |
| `EnterBody`, `LeaveBody` | `expand_function_end` for functions that call alloca (`EXIT_IGNORE_STACK` is 0) |
| `ReadChain` | `expand_function_start` reads the static chain from IY |
| `SetReg`, `StoreLocal` | the body computes and stores |
| `PushArg` | a word push; a long push as split by `z80_split_move` |
| `PopArgs`, `DynAlloc` | `addhi_sp`, through IY |
| `Call` | `call`, with the static chain in IY |
| `RestoreReg`, `DropFrame`, `PopFp`, `Ret` | `expand_epilogue`: pops in ascending register number; `ld sp,ix`; `pop ix`; `ret` |

`Freed` stands for interrupts: a handler uses the same stack, so that whatever
an insn leaves below SP counts as lost at once. Bytes are tagged with the word
and half they belong to, so that reading a word in the wrong place is noticed.
`FrameBase` follows reload: IX, or SP plus `INITIAL_FRAME_POINTER_OFFSET` where
the frame pointer is eliminated. Stack overflow is not modelled: insns are
guarded by `Room`.

### CallStack and FrameRefines

`CallStack` is what the source program expects: `Enter`, `Assign`, `Pass`,
`Discard`, `Call`, `Leave`, `Return` on a stack of activations. `FrameRefines`
maps `Frame` to it by *reading the machine's memory*: return address, parameters,
locals and passed words are fetched from the addresses the emitted code uses. The
history `frames` contributes how many activations there are, which function each
runs, which locals have been written and how many words there are to read, never
their values. A pop, a push or an interrupt that damages a suspended activation
therefore shows as an abstract step nobody is allowed to take.

### Compare

One action per emitted insn: `CompareWord` (`cmphi_1`, `cmpqi_1`), `CompareLow`,
`SkipBranch` and `SubtractHigh` (the recursion of
`z80_expand_compare_and_branch` for SImode with its `isout` argument), `Branch`.
Words are `0..2H-1`; the flags at the start are arbitrary. With `opt`, an insn
that flow.c takes for dead leaves the flags alone.

### CcStatus

One action per kind of insn, as `notice_update_cc_on_set` distinguishes them.
`value1` and `value2` are compile-time state, `reg`, `mem` and `flags` the
machine, and `flags` records *which values* were last compared. `Words` are the
registers in HImode, the others are bytes: `EmitCompare` is `cp`, and
`EmitCompareWord` the `or a; sbc` of `cmphi_1`, which stores the difference into
operand 0 while `cc_status` records the same expression as for bytes.
`DropCompare` is final.c's removal of a redundant compare. `silent` allows shifts
whose output template does not run `CC_STATUS_INIT`. Registers do not overlap;
pairs and halves are planned.

### Shift

A value is a function from bit numbers to bits. `Expand` chooses the pattern,
then one action per emitted insn: `LoadCount`, `TestCount`, `ShiftByte` and
`Djnz` for the loop (the unrolled forms use `ShiftByte` too), `ShiftTop`,
`MoveUp`, `ShiftHigh`, `ClearLow`, `LoadFromNext` for the forms that move bytes.
A shift no insn matches ends in `"abort"` (`lshrqi3` by a constant other than 1),
one whose output is no Z80 instruction in `"refused"` (SImode by 16 to the left
or logically to the right: `ld` of a pair into a pair); `Compiled` says that
neither happens. `Shifted` is the reference definition, from the meaning of the
RTL operations; `ShiftCorrect` compares with it, and `ShiftSound` does so apart
from `lshrhi3` by 8 (`ByNextPair`).

### Alu

An operand is the sequence of byte cells it occupies, low byte first. One
operator per pattern (`addsi3`, `subsi3`, `extendhisi2`, `logichi3`,
`z80_split_move`, ...) gives the instructions it is split into or output as; one
action per kind of Z80 instruction (`Load`, `Add`, `Subtract`, `Combine`,
`Exchange`, `Rotate`, `Count`, `Negate`, `Complement`) executes the next one.
`Accepted` has the operands that the constraints let through, and `swapped`
records that reload exchanged operands 1 and 2, as `%` permits. `Meaning` is the
reference definition, from the RTL expression. `Clobbers` is what the pattern
declares. Memory operands have constant addresses.

`R` is the number of values of a byte. Operands have one, two or four bytes, so
that their values (`Num`) are written out and need no recursion. What the Z80's
`and`, `or` and `xor` make of two bytes is the constant `Bits`: z80.md relies on
their being commutative (`%`) and on `or a` clearing the carry without changing
A, and on nothing else about them. `MCAlu` defines it with Bitwise.
`Destructive` and `Wrong` are the accepted insns that z80.md is known to compile
wrongly, for `OthersKept` and for `ResultCorrect`. Alternatives that are output
as instructions the Z80 does not have are in neither: they are not in `Accepted`
(see "Not modelled").

### Build

`marker`, `tree`, `objs` and `bin` are files; `pc` and `told` belong to a run of
the script and what it printed. One action per step of the script (`Start`,
`CheckHost`, `EnterBuildDir`, `Configure`, `Touch`, `Make`, `Install`, `Test`),
each with the failures its tool can have; `Interrupt` stops the script at any
point, also in the middle of configure, make or install. Between two runs the
user edits the source (also during one), removes the marker as the script's
message says (`RemoveMarker`) or clears everything (`ClearAll`). `ClearStopped`
is a `rm -r` that fails or is stopped with any part of the files removed: what
it leaves of the tree is `"damaged"` for `verdict`, with or without a marker.
`Stuck` is a marker on a tree that is not configured, which the script never
gets out of.

## Runs

Run with `tlc -config X.cfg M`.

| Run | Module | Checks | Shows |
|---|---|---|---|
| `Frame` | `MCFrame` | `TypeOK`, `FrameInv`, `SavedInv`, `ParamsArrive`, `StaticChainArrives`, `CallSavedKept`, `ImplementsCalls` | with frame pointers, word arguments, at most one call-saved register and nested functions without locals, frames are right and `Frame` implements `CallStack`; the invariants of the proofs hold on the way |
| `FrameMixed` | `MCFrame` | `ReturnIntegrity`, `LocalsSurvive`, `CallerRestored` | long arguments, two saved registers and a nested function with locals harm nothing beyond themselves |
| `Compare` | `MCCompare` | `TypeOK`, `BranchSound` | words with every condition, longs with every condition but NE, apart from signed overflow |
| `CcStatus` | `MCCcStatus` | `TypeOK`, `ByteElisionSound` | compares of bytes are dropped soundly as long as every insn that sets flags is noticed, whatever compares of words store |
| `Shift` | `MCShift` | `TypeOK`, `Compiled`, `ShiftSound`, `CountKept`, `Terminates` | every shift but those that are not compiled, and the rotate to the left by 1, has an insn; the result is right but for `lshrhi3` by 8 |
| `Alu` | `MCAlu` | `TypeOK`, `ResultCorrect`, `OthersKept` | every pattern with every operand the constraints accept, apart from `Destructive` and `Wrong` |
| `Build` | `Build` | `TypeOK`, `MarkerHonest`, `CleanRunFresh`, `Recovers` | interruptions of the script at any step, and failures, leave files the next runs repair, or a marker on a tree that is not configured; the latter only after configure reported errors or a removal stopped half-way |
| `FrameLongArg`, `CompareLongNe`, `CcStatusSilent`, `CcStatusWord`, `AluResult` | | one property each | the disagreements below |

Bounds, and why they are enough:

* `Frame`: three functions (an odd frame and two parameters; a nested function
  with alloca; main), three activations, so that a callee calls again and
  recursion happens; two pushed words, as many as one callee takes and one more
  than the other; a stack of 20 to 26 bytes, in which three activations with
  arguments fit; two argument values, so that two parameters can be told apart.
* `Compare`: words of two bits (`H = 2`) have both signs, wrap-around, and long
  values whose halves are in every relation; all operands and all stale flags
  are enumerated. The proof covers every `H`.
* `CcStatus`: three bytes and two words with two values: a compare has two
  operands, and an insn in between, of either mode, may change either or neither.
  The proof covers all.
* `Shift`: all bytes with counts 0..9; words with one bit set, one bit clear and
  a mix, since every form moves each bit independently of the others; counts
  around every special case and beyond the width. The proof covers every value
  and every count.
* `Alu`: bytes of two bits (`R = 4`), each operand byte 0, 1 or 3, any carry at
  the start: bytes that produce, pass on and absorb a carry or a borrow meet in
  every position of a long, and both signs occur. All other cells hold a value no
  operand byte has, so that a stray write is noticed. The proof covers every even
  `R` and every value.
* `Build`: three versions of the source and three faults: a failure, an
  interruption or a half-done removal, a second one during the recovery, and an
  edit while a stale compiler is installed.

Fairness: `Shift` has `WF_vars(Insn)`: a CPU executes the next insn. `Terminates`
then says that the emitted loop ends by itself. `Build` has weak fairness of
`Script` (a started script goes on to its next step) and of `Start` (somebody
keeps running it: `Recovers` is about repeated runs), and of nothing else. No code
makes the user remove the marker, so `RemoveMarker` is not fair, and `Recovers`
has a second disjunct: the script does not get out of `Stuck` by itself. When the
user does remove the marker, the first disjunct must hold. `Interrupt`, removals
and failures are bounded by `MaxFaults` and `Edit` by `MaxSource`, so that they
stop some day and need no fairness. `Frame`, `Compare`,
`CcStatus` and `Alu` have no liveness property: the first runs the program as
long as the program likes, the others have no loops.

## What is proved

`tlapm` checks these for every value of the constants, from the named
assumptions on the constants (`FrameAssumption`, `CompareAssumption`,
`CcAssumption`, `ShiftAssumption`, `AluAssumption`, `BuildAssumption`) and the
hypothesis in the theorem.

| Theorem | Module | Hypothesis | Conclusion |
|---|---|---|---|
| `FrameTypes` | `FrameProofs` | | `Spec => []TypeOK` |
| `ChainsFound` | `FrameProofs` | nested functions without locals | `[]StaticChainArrives` |
| `FrameInvariant` | | frame pointers | `Spec => []FrameInv` |
| `ReturnsFind` | | frame pointers | `[]ReturnIntegrity` |
| `LocalsKept` | | frame pointers | `[]LocalsSurvive` |
| `ParamsFound` | | frame pointers, word arguments | `[]ParamsArrive` |
| `CallersRestored` | | frame pointers | `CallerRestored` |
| `CallsImplemented` | `FrameRefinesProofs` | frame pointers, word arguments | `Spec => ImplementsCalls` |
| `SavedInvariant`, `CallSavedRestored` | `FrameSavedProofs` | frame pointers, `OneSaved` | `[]SavedInv`, `CallSavedKept` |
| `CompareTypes` | `CompareProofs` | `SoundCases` | `[]TypeOK` |
| `BranchesSound` | | `SoundCases` | `[]BranchSound` |
| `CcTypes` | `CcProofs` | | `[]TypeOK` |
| `DropsSound` | | `AllNoticed` | `[]ByteElisionSound` |
| `BytesDropSound` | | `AllNoticed`, no words | `[]ElisionSound` |
| `ShiftTypes`, `CountsKept` | `ShiftProofs` | | `[]TypeOK`, `[]CountKept` |
| `ShiftsCorrect` | | `SoundShifts` | `[](Compiled /\ ShiftSound)` |
| `AluTypes` | `AluProofs` | | `[]TypeOK` |
| `AluKeeps` | | no insn of `Destructive` | `[]OthersKept` |
| `AluRight` | | no insn of `Wrong` | `[]ResultCorrect` |
| `BuildTypes`, `MarkerTrue`, `CleanRuns` | `BuildProofs` | | `[]TypeOK`, `[]MarkerHonest`, `[]CleanRunFresh` |

`FrameInv` is needed because `ReturnIntegrity` says nothing about how SP gets
back to the return address. It fixes SP and IX at each `pc` (`Registers`),
relates each activation to the one below it (`Nesting`: the callee's return
address lies just below what its caller had pushed) and says that every
suspended activation still owns its return address, saved IX, locals and, with
word arguments only, its parameters and pushed words (`Memory`). Each action has
a lemma; most use that a write below a frame's lowest byte, or freeing what lies
below SP, leaves everything the frame owns alone (`OwnedKept`).
Pushes and pops of saved registers enter only through their number, so that the
theorems also hold where the registers come back in the wrong order.

`CallSavedKept` needs more, since what a `ret` gives back was put on the stack
by an activation's own prologue and must outlive all calls in between.
`SavedInv` says where each call-saved register is: untouched before the
prologue's pushes and after the epilogue's pops (`Holding`), on the stack just
below the locals in the body (`Stored`), and for every suspended activation
either there or, unchanged, in the activation above it (`SuspendedSaved`). It is
inductive together with `FrameInv`, which keeps that word out of reach of pushes,
pops, alloca and interrupts. `OneSaved` is needed because the epilogue pops in
ascending register number, as the prologue pushes: with one register per function
the orders agree, with two they come back exchanged (`FrameMixed` runs without
`CallSavedKept` for that reason). It also excludes IY, which the prologue and
`addhi_sp` use as a scratch register. Both hold for z80.h as it is, where
`CALL_USED_REGISTERS` names every register and only `-fcall-saved-REG` makes one
call-saved.

`ChainInv` says that from the call to the read of the static chain IY is what the
caller put there; without locals, no insn of the prologue uses IY.

`CallsImplemented` rests on `FrameInv`: in every reachable state the view read
out of memory equals the one the history means, since `Memory` says of every
suspended activation, and `Registers` of the running one, that its words are
where they were put. Each step of `Frame` then maps to one step of `CallStack`
(the last insn of the prologue to `Enter`, a store to `Assign`, the push, pop,
call and return insns to theirs) or to a stutter.

`BranchInv` records, at each insn, what the flags say of the parts subtracted so
far; `FlagsDecide` turns the flags of the last subtraction into the relation of
the operands. `CcInv` says that a compare of bytes in `value2` was the last thing
to set the flags and its operands have not changed, and that `value1` is never a
compare. It says nothing of a compare of words, whose operand changes as it is
recorded; that registers have one mode each keeps that store away from bytes.

The shifts are proved in two parts. `PathInv` says which shifts reach which
insns and what the counters are there (`Paths`, `Counts`): B runs from the count
down to 1 and is never decremented at 0, unrolled rounds are no more than
`RoundsOf`, and every byte addressed is one of the value. `ValueInv` says what
the register holds. In the middle of round `k + 1` (`InRound`) the bits already
passed are those of the value shifted by `k + 1`, the others those of the value
shifted by `k`, and the carry is the bit that left the byte before.
`RoundByte` shows that one insn takes this one byte on, from `OneMore` (a shift
by `k + 1` is a shift by `k` and by one more bit) and `LeftByte` and `RightByte`
(what `sla`, `rl`, `sra`, `srl` and `rr` do to a byte in between). No induction
over the count is needed: the loop's own steps do it. The forms that move whole
bytes are computed bit by bit. `SoundShifts` leaves out what is not
compiled (`lshrqi3` by a constant other than 1, `ashlsi3` and `lshrsi3` by the
constant 16) and the rotates other than to the left by 1; `ShiftSound` leaves out
`lshrhi3` by the constant 8. All cases the run checks satisfy `SoundShifts`.

`AluAssumption` says that `R` is even and positive, that the operand values are
bytes, that the insns executed are accepted by the constraints, and of `Bits`
what is said above. The proof first finds out what a whole sequence of
instructions does. `Stepped` is one instruction as a relation between machines,
`Runs` a sequence of them, and `Makes(p, c, k, d, j)` says that `p`, started with
cells `c` and carry `k`, can only end with cells `d` and carry `j`. There is a
lemma for each kind of instruction (`LdWord`, `SubByte`, ...), `MakesBoth` puts
sequences together, and one lemma per pattern follows what its instructions make
of the cells: that the carry reaches the high half of a long sum through a load
and an exchange (`AddLong`), that the borrow does so in a negation, that each
half is read before it is overwritten. `OutputCorrect` collects them: whatever
insn the constraints accept, and whatever the machine holds, `Output` makes one
machine, which keeps the others unless the insn is `Destructive` and has the
right result unless it is `Wrong`. `AluInv` carries this along a behaviour: what
the rest of the code can make of the cells, all of it can make of the cells at
the start (`Traced`), so that with no code left the cells are what `OutputCorrect`
says. It quantifies over all machines, and TLC cannot evaluate it; that it is
inductive is shown by the proof alone. The insns of the `Alu` run are all accepted
ones outside `Destructive` and `Wrong`; the theorems say more, since a wrong
result does not excuse a lost register, nor the other way round.

`BuildInv` joins the three properties with what holds at each step of a run
(`RunInv`): after configure the tree is configured or the error was reported; at
install, what is built is no older than the source at the start of the run unless
make complained; at test, the same holds of what is installed.

Only model-checked: `Terminates` and `Recovers`, which are liveness properties
under fairness and out of the prover's reach.

## Findings

Each is a run that TLC ends with a counterexample; `PROJECT.json` quotes the
line of the repository it disagrees with.

* `FrameLongArg`: a long is pushed low half first, so that the callee reads its
  halves exchanged.
* `CompareLongNe`: `a != b` on longs falls through when the low halves are equal,
  also when the high halves differ: the first branch, on EQ, leaves the sequence.
* `CcStatusSilent`: some shifts change the flags and neither
  `notice_update_cc_on_set` nor their template says so; a needed compare is
  dropped.
* `CcStatusWord`: a word compare is `sbc op0,op1` and overwrites operand 0, which
  `cc_status` goes on recording; an equal compare behind it is dropped.
* `AluResult`: a long subtraction takes the low difference, not the high half of
  operand 2, from the high half of operand 1.

The passing configurations step around these, and around more that the code gets
wrong. Those below have a configuration too, which ends with a counterexample to
the property named; they repeat no question of the runs above and are kept as
demonstrations.

| Configuration | Module | Property | What happens |
|---|---|---|---|
| `FrameSaved` | `MCFrame` | `CallSavedKept` | two call-saved registers are popped in the order they were pushed in and come back exchanged |
| `FrameChain` | `MCFrame` | `StaticChainArrives` | the prologue of a nested function with locals computes SP in IY, where the static chain still is |
| `FrameNoFp` | `MCFrame` | `ReturnIntegrity` | without a frame pointer `expand_epilogue` still emits `ld sp,ix`, and the `ret` takes a wrong word |
| `FrameNoFpParams` | `MCFrame` | `ParamsArrive` | `FIRST_PARM_OFFSET` is 4 without a frame pointer too |
| `CompareOpt` | `MCCompare` | `BranchCorrect` | when optimizing, flow.c deletes both subtractions of a long compare, and the branch goes by older flags |
| `CompareOperands` | `MCCompare` | `OperandsKept` | a word compare loses its operand 0 |
| `ShiftUnmatched` | `MCShift` | `Compiled` | `lshrqi3` by a constant other than 1 is matched by no insn |
| `ShiftRightByEight` | `MCShift` | `ShiftCorrect` | `lshrhi3` by 8 loads the low byte from the next register pair instead of the high byte |
| `AluExchanged` | `MCAlu` | `ResultCorrect` | `subhi3` and `subqi3` mark their operands as commutative |
| `AluIndex` | `MCAlu` | `ResultCorrect` | the low part of IX and IY is their high part |
| `AluSign` | `MCAlu` | `OthersKept` | sign extension of a byte destroys A, which the pattern does not declare |
| `BuildMarker` | `Build` | `MarkedConfigured` | the marker is touched after a failed configure too |
| `BuildInstall` | `Build` | `ReportedInstalled` | `make -i` reports no failed install |

Further limits that the models contain show up when the constants are widened:

* compares: signed branches look at the sign flag alone (`BranchCorrect` for LT
  on words);
* shifts: the rotates rotate by one whatever the count (`rotl`, `rotr` with
  `n > 1`: `ShiftCorrect`); SImode by 16 is output as `ld hl,de` or `ld de,hl`,
  which the Z80 does not have (`Compiled`);
* arithmetic (`Wrong` in `Alu`): a word in BC extended to BC and IY loses its
  value before it is read; a logic operation with a constant byte is output on A
  with itself (`ResultCorrect`);
* build: without the second disjunct of `Recovers` a failed configure refutes it,
  and without `hidden` a failed install refutes `CleanRunFresh`; a removal stopped
  half-way can leave a marker on a damaged tree (without `"damaged"`:
  `MarkerHonest`).

## Not modelled

* Upstream GCC: of about a million lines, the models contain only the decisions
  that flow.c, final.c, function.c, explow.c and reload make about the back end's
  insns. The front ends, optimizers, other back ends and libraries are vendored
  code the repository did not write, which is why the share of all lines covered
  is small; the share of the Z80 back end is not.
* Assembler output, cost macros and option tables: formatting and heuristics.
* In `CcStatus`, register pairs and their halves; in `Alu`, memory operands
  addressed through registers and the forms whose output the Z80 does not have:
  `lea`, the byte exchange, and the loads of a pair into a pair (`ld de,hl`,
  `ld bc,ix`) that end alternative 3 of `*addhi3`.
* In `Compare`, the insns `*bgt`, `*bgtu`, `*ble` and `*bleu`: the expander swaps
  the operands and never emits them.
* `dead_register_here`, `find_addr_reg`, `dead_p`: nothing in the back end's
  output depends on them.
* The float compares, disabled in z80.md; rotates of words, which are output as
  instructions the Z80 does not have.
* The 32-bit wrappers, which pass their arguments on, and
  `makeandtest_gcc_i686.sh`, which builds an unchanged GCC the same way.

## Plan

1. `CcStatus` with register pairs and their halves, which
   `reg_overlap_mentioned_p` compares by number only.
2. An atomic branch as an abstract specification, implemented by `Compare`.
3. `Alu` with memory operands addressed through registers, where writing a
   register moves another operand.
