# Verification of emu86

emu86 (`src/packages/emu86`) is an 8086 emulator in C: an interpreter core that
touches the outside world only through ring buffers and callbacks, a Linux host
around it, a reference emulator (8086tiny) and a harness that runs the two in
lockstep. This project models the parts of it whose correctness depends on an
order of events, and the instructions that compute, checks the models with TLC
and proves the main results with TLAPS. Paths below are relative to `src/packages/emu86`.

## 1. Inventory

| Part | State | Operations | What makes it correct |
|---|---|---|---|
| Ring buffers, `src/emulator/platform.h` | slots, `head`, `tail` | write, read, block write, block read | a bounded FIFO for one producer and one consumer on two threads |
| Control state, `state.h`, `opcodes/control.h`, `flags_io.h` | CS:IP, IF, TF, halt, trap latch, pending interrupt, two override countdowns, tick | interrupt entry, prefixes, HLT, flag loads | a prefix acts on the next instruction only; an interrupt enters only where it may |
| Run loop, `run.c` `emu86_run` | the above, cycles, yield reason | one loop of eleven numbered steps | no output lost, keys in order, every call returns |
| Single step, `run.c` `emu86_step_single` | the same | one instruction | as the run loop |
| Linux host, `src/hosts/linux` | `running`, the yield reason, standard input and output | main loop, flush, keyboard service, wait, signal | keeps to the protocol of the run loop; shuts down; wakes the CPU |
| Reference, `reference/8086tiny.c` | its registers and static variables | one loop | it is the definition of right for the harness |
| Harness, `harness/harness.c`, `overrides.c` | both states, key queue, last key consumed | two hooks around each instruction, comparator | both emulators see each key at the same instruction; a difference stops the run, and a fault does not hide longer than the mode of comparison says |
| Harness control, `harness/control.c` | named variables | get, set, ping, help over a socket | a client that keeps the replies knows the settings |
| Decode, `decode.h`, `tables.h` | decode context | effective address, lengths | the 8086's encoding and addressing rules |
| Instructions, `opcodes/*.h` | registers, memory, flags | arithmetic, logic, shift, transfer, control, string | the 8086 results and flags; calls return, blocks arrive whole, searches stop where they should |
| BIOS services and ports, `flags_io.h`, `run.c` | ports, disks, clock | PUTCHAR, clock, disk, IN/OUT | what is written to a disk comes back; ports as in the reference |
| Snapshot, `snapshot.c` | a byte buffer | save, restore | restore after save is the identity, and damage is refused |
| BIOS, `reference/bios.asm` | the mailbox at 0040:00A6 | INT 7, INT 0Ah | the other side of the keyboard protocol |

**How they interact.** The host calls `emu86_run` with a cycle budget; the call
returns with a reason (budget, halted, output needed, exit) that tells the host
what to do before the next call. Characters go out through `console_out`
(producer: PUTCHAR in the emulator), keys come in through `console_in`
(consumer: the timer poll). A key reaches the guest through one byte of memory
and INT 7. The harness takes the host's place: it calls `emu86_run` with a
budget of one instruction after each iteration of the reference, and hands over
each key the reference has consumed.

**What is hard.** The two sides of a ring on two threads (the browser host the
header describes); prefixes that live across instruction boundaries while
timer, host and trap interrupts want to enter at those boundaries; a one-byte
mailbox filled by a timer that ESC re-arms; a yield protocol on which the
absence of lost output depends; a signal at any instruction; two emulators that
must take a tick at the same step. `PROJECT.json` lists each hazard with its
line and the properties that would catch it.

## 2. Modules

| Module | Models | Built on |
|---|---|---|
| `ByteQueue` | the abstract promise of a ring: a bounded FIFO with all-or-nothing calls | |
| `RingBuf` | the ring, one shared access per step | refines `ByteQueue` |
| `Cpu` | the control state and the pure steps of the loop on it (operators, no variables) | |
| `EmuRun` | `emu86_run` under the most general host | `Cpu` |
| `EntryPoints` | `emu86_step_single` between two calls of `emu86_run`, on one state | `EmuRun` |
| `LinuxHost` | `main.c` and the console service around `EmuRun` | refines `EmuRun` |
| `Tiny8086` | one iteration of the reference (operators) | `Cpu` |
| `Control` | the commands of the harness's control socket (operators) | |
| `Lockstep` | the harness: reference, our emulator, keys, comparator, commands, limit, self-test | `Tiny8086`, `Control` |
| `Alu` | the instructions that compute: flags, arithmetic, logic, shifts, decimal adjustments, conditions (operators) | |
| `AluMachine` | a processor that runs short programs of them | `Alu` |
| `Decode` | the bytes at CS:IP, over the tables of the BIOS: lengths, addresses, operands, the stack (operators) | |
| `Guest` | the processor on programs of bytes in memory: every opcode, ports, clock and disk | `Decode`, `Alu`; abstracted by `Cpu` |
| `Snapshot` | saving to a file, starting from it, and what happens to the file | |
| `MC*` | the instances TLC checks | |
| `CpuProofs` | lemmas about the operators of `Cpu` | `Cpu` |
| `AluLemmas` | lemmas about the operators of `Alu`: words, bits, folds, flags | `Alu` |
| `EmuRunProofs` | theorems about the run loop, both entry points and the Linux host | `EntryPoints`, `LinuxHost`, `CpuProofs` |
| `LockstepProofs` | theorems about the harness | `Lockstep`, `CpuProofs` |
| `AluProofs`, `GuestProofs` | theorems about the instructions, computing and on memory | `AluMachine`, `Guest`; `AluLemmas` |
| `RingBufProofs`, `SnapshotProofs` | theorems | the module named |

### RingBuf
`buf`, `head`, `tail` are the C fields. A call is a check (`BeginWrite`,
`BeginWriteBuf`, `BeginRead`, `BeginReadBuf`) followed, when it is accepted, by
a store and a publication, or a load and an advance, per byte; these are the
loads and stores of the C code in its order. The local copies `h` and `t` need
no variable of their own because only the owner writes the index they copy.
Steps are sequentially consistent: the header asks for atomics on the indices,
so weak memory is not modelled. The Linux host, where one thread is both sides,
is one of the behaviours.

### Cpu and EmuRun
The registers, the memory and the arithmetic flags decide only where an
instruction leads and what it loads into IF and TF, so an instruction is a
record with these as fields and the guest is **any** program: at each step any
instruction of the configured kinds, to any location. The switch of
`execute_instruction` is then a choice between kinds: prefixes, LEA, HLT,
PUTCHAR, flag loads (CLI, STI, POPF, IRET), software interrupts (INT n, INTO,
AAM and DIV by zero), and the rest. The iteration is cut into four steps where
it touches the rings the host shares: `Begin` (steps 1-4 of the code),
`Execute` (5-9), `Tick` (10), `Check` (11). The rings are used through their
abstraction: a count for `console_out`, a sequence for `console_in`.
`pushed` collects the interrupt frames of one iteration; it stands for the
guest's stack. `inst_count` is kept modulo the tick period.

The mailbox needs its reader: at `KbdEntry` and `KbdRead` the program is the
BIOS handler of INT 7, some plain instructions with interrupts off and then the
load of the key. Elsewhere the guest is free, except that it does not call
INT 7 itself.

The host of `EmuRun` is the contract `emu86_run` is written for: it calls again
only with `console_out` at or below the mark it yields at, wakes the CPU only
between calls, and may drain, and type into a ring with room, at any time, also
on another thread.

### LinuxHost
`hpc` is the place in `main()`. Each case of the `switch` is a path through
`flush`, `keys`, `select` and `wake`; flushing and serving go byte by byte so
that a key or a signal can come in between. `HostContract` says that this host
never does what `EmuRun` does not allow. `EMU86_YIELD_ERROR` has a case in
`main()` but nothing returns it, so it has none here. Both ends of a string of
bytes on the terminal are abstract: standard output accepts every byte.

### EntryPoints
A debugger runs with `emu86_run` and steps with `emu86_step_single` in between,
on the same state: a prefix executed by the one may wait for its instruction in
the other. `StepSingle` is the whole function in its own order (decode, count
down, execute, trap), between any two calls of `EmuRun`; the history variable
`scope` records under which prefixes the last single step decoded and executed.
It neither takes ticks nor sees a multiple of the period, as in the code: a
debugger that steps over the multiple loses a tick, which the comment of the
function and its callers take into account.

### Tiny8086, Lockstep and Control
`RefStep` is one iteration of the reference with its own order of steps (timer,
trap, tick), its guard with TF, its LEA that borrows the override register
REG_ZERO, and its 32-bit counter (`Wrap`). `StepEnd` replicates the key, runs
`Iterate` (an iteration of `emu86_run` with a budget of one) on the same
instruction, compares and counts; then `Serve` takes the commands that are due one
by one, and `Conclude` looks at the limit.

How a harness is started is one of the records in `Setups`: which instructions
the guest uses, how many keys and commands come, the step limit, the mode of
comparison, the self-test (`SelfTest`: ours is a copy of the reference), the
injected divergence, and whether our emulator has faults. A fault leaves
a wrong register or a wrong byte at any step (`wrong`): without one there is
nothing for the comparator to be right about. `AgreeCheap` and `AgreeMemory` are
the two comparators, and `NeedsFull` says when the second is called. `Control`
is the table of variables and the four verbs, with what `strtoull` makes of a
number (`Strtoull`).

The lockstep models compare the control state, the frames pushed and the mailbox:
what an instruction computes is the same on both sides by construction, except
for faults. What it computes is the subject of `AluMachine` and `Guest`.

### Alu and AluMachine
An operator of `Alu` takes the operands and the flags and returns the value
written and the flags left, in the order the C function sets them. A width is a
record of the bits of the operand and of a byte, so that the definitions of the
8-bit and 16-bit forms also hold for a scaled machine of which every operand can
be tried; the bit of AF is half a byte, parity looks at one byte, and C computes
in four bytes. Where the code relies on a 32-bit value that wraps below zero, the
value is a negative integer: it exceeds the mask and has the same low bits.
Where C leaves the result open the model takes what the builds do: shift counts
are taken modulo the size of the type (`CShift`), and the least dividend of the
word form of IDIV by -1 either returns or stops the process (`Idiv`). `Byte` and
`Word` are the widths of the code, `Small` and `Wide` the scaled ones.

`AluMachine` executes a program of a few instructions from any of its inputs. The
properties are about programs rather than single instructions because it is the
flags handed from one instruction to the next that are hard to test: a carry that
has to pass over an INC, the borrow that DAS reads, the sixteen conditions after
a CMP. They are stated with the arithmetic of integers, never with the formulas
of the code.

### Decode and Guest
`Decode` reads an instruction as `decode_instruction` does, with the tables of
the BIOS as sets of opcodes: kind, ModRM, displacement, the three data words,
the address, the length before the switch corrects it. Memory is a function on
the cells a program has touched; the others hold zero (`Peek`), and a store is the
function with other cells laid over it (`Over`). The 32-bit data words are
kept in 16 bits, as every use of them takes no more.

`Guest` has an action per group of instructions, and each executes what the
switch of `execute_instruction` does for it: decode, count down, execute,
advance. `disk` is the image behind the two disk calls, which may fail or move
fewer bytes than asked; `stop` says whether the machine has halted or the process
was killed by IDIV. The segment register field of MOV is at most 3: the code
indexes four registers with three bits, and programs do not use the rest.

The programs are bytes, assembled in `MCGuest`, each with the machines it starts
from: `one` is a single instruction of every opcode with many second bytes;
`operand` an LEA and a store to the same operand after a chain of prefixes;
`calls` two nested calls out of seven kinds; `move` a block moved, filled or
mapped; `disk` a write and a read; `scan` a search with SCAS, CMPS or LOOPcc;
`call far` the instruction the fourth finding is about. As in `AluMachine`, the
properties say what a program is for and not what the code does.
`InstructionsFollow` is about every step of every program: where the encoding of
the 8086, written down without the tables, says the next instruction begins.

`EmuRun`, `EntryPoints` and `Lockstep` let the guest be any program over the few
instructions of `Cpu`. That this is an abstraction of the processor is the
property `ControlAbstracted`: each step of `Guest`, seen through `Control` (CS:IP,
IF, TF, halt, countdowns, frame pushed), is `Exec` of `Cpu` for some instruction,
of one of the opcodes behind it (`Opcodes`).

### Snapshot
A buffer is a sequence of bytes, and each byte says which group of fields wrote
it, at which place and with which value, so that a byte read back as part of
something else is noticed. `WriteOrder` and `ReadOrder` are the two lists of the
code, `DataSize` its third, and `Save` and `Restore` follow them with the tests
in their order. Around the format is the process of `main.c`: a session boots or
loads, the guest writes some groups, and the end of the main loop opens (and so
empties) the file before writing it. The process may be killed at any point, the
write may stop at any byte, and a whole file may lose a byte. The checksum is
taken to tell any two buffers apart. The pointer of the code is what `WriteAt`
and `ReadAt` add up from their lists, and a group is read at the pointer of the
reading list, wherever the writing list has put it. A damaged size is read as any
number of `WrongSize`; sizes so large that the sum in `expected_total` wraps are
not modelled.

Each module also holds, just before some definitions, a variant with a plausible
bug (marked `bug:`). No specification uses them; put in the place of the
definition they stand before, each makes one property fail, which shows that the
property can fail.

## 3. Runs

| Run | Shows | Bounds |
|---|---|---|
| `ring` | all safety of the ring, the refinement of `ByteQueue`, and that every accepted byte is handed over (`RoomForAccepted`, `BytesForClaimed`, `SlotsDisjoint`, `CopyStillCurrent`, `ImplementsQueue`, `EventuallyDelivered`) | 4 slots, 2 byte values, blocks of 1 to 3: the ring fills with one block, wraps, and is empty and full with both sides in the middle of a block |
| `prefixes` | scope of prefixes over both entry points; no interrupt inside a prefixed instruction; every call returns (`TypeOK`, `PrefixScope`, `StringInScope`, `AsyncNotSplit`, `RunReturns`) | 2 registers and both REP modes (an override can be replaced), period 3, TF and IF free, traps and HLT on, two instructions per call and any number of single steps between calls |
| `keys` | keys read once and in order; no character lost; a due tick is not forgotten (`KeysInOrder`, `NoOutputLost`, `KeysServed`) | 2 keys, 2 values, one of them ESC; period 3, so that a tick can fall in the handler, behind a prefix and under CLI; an output ring of 8 (mark 6) which the host may leave at the mark |
| `single_step_decode` | **fails**: prefixes as a single step's decode reads them (`OverrideNextOnly`) | as `prefixes` |
| `linux` | host invariant, final flush, contract; shutdown, wake, keys taken (`HostInv`, `FlushedAtEnd`, `HostContract`, `ShutsDown`, `HaltWakes`, `KeysTaken`) | 2 keys in a ring of 1 (one is dropped), signal anywhere, a budget of 7 instructions that may all print, so that each of the four yields occurs; a tick per instruction |
| `lockstep` | no difference but a fault; keys at the same tick; what each comparator must catch at once; replies tell the settings; the limit holds (`LockstepHolds`, `KeysTogether`, `OnlyStoresWait`, `RepliesTell`, `WithinLimit`) | 6 instructions (4 when software interrupts are among them) with 2 keys and 2 registers and TF clear: two ticks and the early one ESC asks for; 4 steps of a guest with REP for up to two of twelve commands, or for a fault at any step and one command, in both modes and with limits 0 and 3; the self-test; an injected divergence |
| `lockstep_trap` | **fails**: ticks with TF set (`TicksTogether`) | 7 instructions |
| `alu` | sums of two words, jumps after CMP, quotients of products, shifts, masks, decimal sums and digits (`WideSums`, `JumpsDecide`, `QuotientsUndo`, `ShiftIsSteps`, `ShiftPairs`, `MergesBits`, `DecimalSums`) | bytes of 4 bits and words of 8, every operand for most programs and the boundary values for the word forms; decimals on bytes of 8 bits with all pairs of digits; shift counts to 15 and rotations to 20, past the width and past a full turn |
| `alu_idiv` | **fails**: a division comes back with success or divide error (`DivideReturns`) | as `alu` |
| `snapshot` | only a machine saved whole is run; each refusal says what is wrong (`OnlyWholeSaves`, `RefusalTells`) | 4 bytes of memory and 2 ports, 2 steps of the guest, every cut and every lost byte |
| `guest` | lengths, operand addresses, calls, blocks, searches; `Cpu` abstracts the processor (`InstructionsFollow`, `OperandsAddressed`, `CallsReturn`, `BlocksMoved`, `ScansStop`, `ControlAbstracted`) | all opcodes that the tables give a meaning on an 8086, with 96 ModRM bytes; every R/M form with displacements at the edges of sign and of 64 kB, and no, one or two prefixes; 49 pairs of calls on stacks that wrap and do not; blocks up to 3 elements overlapping from either side; searches in all lists of up to 4 elements |
| `far_call` | **fails**: the return address of a far CALL (`FarCallReturns`) | one instruction |

Deadlock is checked except in `linux`, `lockstep*`, `alu*`, `guest` and `far_call`,
where the program ends.

**Fairness.** `RingBuf` `FairSpec`: a call that has started runs to its end
(weak fairness of stores, publications, loads and advances; nothing in them
blocks), and the consumer polls again and again (strong fairness of `BeginRead`,
because block reads also start calls: `flush_console` and the timer poll use the
one-byte read). The producer need not write. `EmuRun` `FairSpec`: the thread inside
`emu86_run` does not stop there; nothing is assumed of the host or the guest.
`EntryPoints` `BothFairSpec` assumes the same, so that `RunReturns` is checked with
single steps between the calls.
`KeysServed` has the premise that the guest reaches the poll with interrupts on
again and again. `LinuxHost` `LFairSpec`: the process is scheduled and `select`
times out; the user need not type and no signal need come.

## 4. Findings

1. `emu86_step_single` decodes before it counts the overrides down
   (`run.c:648-654`), so an override leaks into the address of the following
   instruction. The comment at `run.c:237-241` excludes this leak; it was
   repaired in `emu86_run` only. String instructions are not affected: they read
   the overrides while executing (`StringInScope`, run `prefixes`).
2. The tick in `run.c:609` lacks the reference's test of TF
   (`8086tiny.c:761`), so the two emulators differ when a guest single-steps
   with interrupts on, while `tasks/completed/emu32-task.md:54` takes ticks to
   fall at the same step.
3. The comment of IDIV names two results, success and divide error
   (`opcodes/arithmetic.h:303`), but the word form divides a 32-bit dividend in C
   before it tests the quotient (`opcodes/arithmetic.h:316`). For the least
   dividend and the divisor -1 the C division overflows; on x86 the processor
   raises an exception and the emulator ends with SIGFPE instead of raising the
   guest's INT 0. The byte form computes in `int` and is not affected.
4. Case 32 (`run.c:419-421`) passes the length of the tables to `exec_call_far`,
   and `base_size` has 0 for opcode 9A (`reference/bios.asm:3825`); the other
   control transfers with a 0 there have their length set in the switch. A far
   CALL to an absolute address thus pushes its own address. The
   unit test hands the function a length of 5 (`test/unit/test_control.c:119-127`)
   and does not come through the tables.

`PUSH SP` pushes SP as it was before the push (`Stack` in `Guest`), while
`tasks/completed/emu07-task.md:33` asks for the 8086's value, SP as it is after;
no run is spent on it.

A known limit of the harness rather than a finding: the reference counts
instructions in 32 bits and ours in 64, and 20000 does not divide 2^32, so after
2^32 instructions their ticks fall due at different steps. `RefTimer` models the
wrap (`Wrap`); the lockstep runs stop before it.

## 5. Proofs

All theorems are about every value of the constants that meets the assumptions
stated with them.

- **Ring** (`SizeAssumption`: a power of two from 2 to 2^31). `Inv` strengthens
  the safety properties with `Pending` (a stored byte is the next one to
  publish; a loaded one belongs to an accepted read). `RoomForAccepted` and
  `BytesForClaimed` are what makes a check against an old index safe: the other
  side only ever adds room or bytes. Slot arithmetic is modulo the size, and the
  lemmas on it are proved first. Their consequences for the two calls are
  theorems of their own (`RingRoomForAccepted`, `RingBytesForClaimed`,
  `RingCopyStillCurrent`). From `Inv` each step maps to a step of
  `ByteQueue` or to a stutter (`RingImplementsQueue`).
- **Run loop** (`CpuAssumption`, `RunAssumption`: a ring of at least 8 bytes).
  `PrefixScope` is not inductive: between instructions the countdowns are 0, 1
  or 2, and `PrefixInv` says that exactly 2 means "for the next instruction".
  `RoomInv` says that no instruction starts above the mark; with
  `OutSize >= 8` three quarters leave room for one byte (`MarkIs`).
  `AsyncNotSplit` follows from the same invariant.
- **Both entry points.** A single step finds the waiting prefixes of `PrefixInv`,
  puts them in force by counting down, and leaves waiting what it should
  (`CountDownScopes`, `InstructionScopes`), so the same invariant carries
  `StringInScope` and keeps `PrefixScope`, `NoOutputLost` and the types
  (`BothInvariant`, `PrefixesScopedInBoth`, `OutputKeptInBoth`, `BothTyped`).
- **Keys** (`BiosGuest`). `KeyInv` adds that while a key is in the mailbox the
  handler is running with interrupts off and nothing is trapped, so neither a
  tick nor the host's interrupt can come in between.
- **Linux host.** `HostInv` says where `console_out` is known to be empty, that
  `main()` is outside `emu86_run` exactly when the contract says so, and counts
  keys. With it every step of the process is a step of `EmuRun` or invisible to
  it (`LinuxKeepsContract`), and results about `EmuRun` carry over
  (`LinuxLosesNoOutput`).
- **Control plane** (`SetupAssumption`, `UlongAssumption`). A command leaves a
  number in every variable, changes at most the one it names, and shows what is
  then in force (`HandleIs`); hence `WithinLimit` (`LimitHolds`). `RepliesTell` is
  inductive with the types, because a reply added at the end takes nothing back
  of what the earlier ones tell (`TellAppend`).

- **Lockstep.** `HarnessTyped` gives the types for every set-up, and
  `StoresWait` holds for every set-up too: what the fast comparison puts off is
  decided within one `StepEnd`. The other two hold for the set-ups of
  `Comparable`: the self-test, or a guest that neither halts nor sets TF and a
  limit before the reference's counter wraps. Outside them they are false, as
  `lockstep_trap` shows for TF. `LockstepHolds` is not inductive: the comparator
  does not look at the trap latches, halt, the pending interrupt or the tick
  counts, and each of them makes a difference one step later. `SyncInv` adds
  them, and between `RefStep` and `StepEnd` it relates the reference to what
  `Iterate` will make of our state; `KeepsStep` is that it is an invariant.
  The heart is that one iteration of the reference, with its order of timer, trap
  and tick, and one of ours, with its own, lead from states in step to states in
  step. Hence `LockstepKept` and `KeysAndTicksTogether`, which states the equal
  ticks of `TicksTogether` as well.
- **Snapshot** (`SizesAssumption`). The lemmas on the layout come first: where
  each pointer stands (`PointerIs`), that the sum the header carries is the sum of
  the list, and that what is read under a name is what was written under it.
  The invariant says what the file is (a whole save, its beginning, or a whole
  save with one byte lost, in agreement with `damage`) and what the state of the
  process is at each place of it (`FileOK`, `ProcessOK`). A wrong size may be any
  natural number: it names either more bytes than there are, or a place where the
  four bytes are not the checksum of those before them.
- **Instructions** (`ProgramsAssumption`, with every operand of 8 or 16 bits, and of
  the scaled widths). The invariant has two parts, where the program stands
  (`Position`) and that the machine is one that the first instructions may leave
  (`Followed`, which needs `Run` of at most eight instructions, without recursion).
  A property of a program is then one of the instructions composed: `Comparisons`
  (the flags of a subtraction decide the order of the operands, also when it
  overflows), `SumsOfWords` (the carry survives INC and DEC, and two words make one
  number with its sign and overflow), `DecimalArithmetic` (the adjustments, case by
  case over the two digits and the flags that come in), `ShiftsOfWords` and
  `ProductsAndQuotients` (a shift splits a word at one of its places, a division is
  the only pair of numbers that make up the dividend, so no operand has to be
  enumerated). `ShiftsByOne` is about programs of any length and has an invariant of
  its own: a program that repeats a shift by one has come, after n of them, to the
  shift by n (`Stepped`); the step is `ShiftMore`, a lemma for each operation. The
  counts go up to the size of C's type, past the width of the operand. `BitsMerged`
  is about AND, OR and XOR, which are folds over the positions of a word: there is a
  fold over every finite set (`FoldExists`), one of bits has those bits
  (`SumBits`), and a word is its bits (`BitsEqual`). These are inductions, done
  without the library's induction theorems: of the cases that fail, take one with
  none below it (`LeastNat`, `LeastSubset`).

- **The processor on memory** (`GuestAssumption`: the machines a program starts on
  are machines, with registers of 16 bits and bytes in memory; the programs are any
  bytes at all). `GuestTypes` is the inductive invariant: every instruction, over
  all opcodes and operands, leaves a machine. From it follow two action
  properties, one lemma per group of instructions each. `GuestControlAbstracted`
  is a refinement step by step: the step of `Guest` is put in one of a few forms
  (`Keeps`, `Reaches`, `Leaves`, `Entered`), and for each form the instruction of
  `Cpu` that does the same is named, so that what is proved about `EmuRun`,
  `EntryPoints` and `Lockstep` for every guest over those instructions is not about
  too few guests. `GuestInstructionsFollow` compares the three size tables, with the
  corrections of the switch, with the encoding of the 8086, opcode by opcode.
  The rest is about what programs rely on, on every machine:
  - `OperandAddressed`: where an operand is, for every ModRM byte and prefix, and
    that LEA gets the offset back from the linear address.
  - `CallReturns`, `FarReturns` and `InterruptReturns`: a procedure or a handler that
    has left its return address alone, whatever else it has done, returns with the
    stack as it was, the segment's end and SP's wrap included; IRET brings back
    all the flags. `FarReturns` also says where the fourth finding returns to.
  - `RepeatStops`: the REP loop is a run of its elements (`Items`) that stops after
    the first one that ends it. `Stands` says what each of them finds: CX, the
    indexes, and nothing else changed. The loop is a recursive function over the
    count, and the argument is the one of `AluProofs`, by the least element that
    fails (`Upto`).
  - `ScanStops`: with nothing written, each comparison is one of the string as it
    was (`ItemsCompared`), so the search ends where the first difference (or
    match) is.
  - `BlockWritten`: `Filled` is the loop invariant, that the first k elements are
    written and nothing else is. It needs that no element is written over by a
    later one nor, for MOVS, before it is read (`Clear`), which `BlockClear` derives
    from the direction (`Suits`) for blocks that stay within their segments.

  `OperandsAddressed`, `CallsReturn`, `BlocksMoved` and `ScansStop` themselves are
  about the programs assembled in `MCGuest`, several instructions that the theorems
  cannot know for an arbitrary `Programs`; they stay with TLC, and the theorems above
  say of every machine and operand what each of their instructions contributes.

Only model-checked: liveness (`EventuallyDelivered`, `RunReturns`, `KeysServed`,
`ShutsDown`, `HaltWakes`, `KeysTaken`), because the prover does not handle
fairness; the four invariants just named; and the disk calls, of which only the
types are proved.

## 6. Not modelled, and the plan

Out of scope: argument parsing, terminal modes, the opening of disk files,
graphics and audio of the reference, build scripts; the editor and the browser
host are empty directories.

Left, in this order:

1. The harness's report: the two snapshots it keeps in turn and prints at a
   difference (at the first step they are still zero), the heartbeat, the scratch
   copies of the disks.
2. The interrupts between instructions on the byte level: the frame that
   `EmuRun` pushes as the one `Guest` returns from.
