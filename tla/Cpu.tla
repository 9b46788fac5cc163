-------------------------------- MODULE Cpu --------------------------------
(***************************************************************************)
(* The part of Emu86State that decides which instruction runs next and     *)
(* under which prefixes, and what run.c does to it between one instruction *)
(* and the next.  Registers, memory and arithmetic flags are left out:     *)
(* what they decide (where a jump goes, what POPF or IRET loads) is a      *)
(* field of the instruction, so that the guest may be any program.         *)
(*                                                                         *)
(* Operators only; EmuRun, EntryPoints and Lockstep build their steps from *)
(* them.                                                                   *)
(***************************************************************************)
EXTENDS Integers, Sequences

CONSTANTS
  Loc,      \* the values of CS:IP the model tells apart
  Exit,     \* CS:IP = 0000:0000
  Boot,     \* CS:IP at reset, F000:0100
  Isr,      \* the interrupt vector table, a function from vectors to Loc
  SegReg,   \* segment registers a prefix can name
  Period    \* instructions per timer tick (20000 in run.c)

None == "none"

Vector == DOMAIN Isr

\* rep_mode 0 and 1
RepMode == {"repnz", "repz"}

ASSUME CpuAssumption ==
  /\ Exit \in Loc /\ Boot \in Loc
  /\ Isr \in [Vector -> Loc] /\ {0, 1, 7, 10} \subseteq Vector
  /\ SegReg # {} /\ None \notin SegReg
  /\ Period \in Nat /\ Period >= 1

Frame == [at : Loc, IFlag : BOOLEAN, TFlag : BOOLEAN]

\* pushed: the interrupt frames the iteration in progress has put on the stack
CpuState ==
  [at : Loc, IFlag : BOOLEAN, TFlag : BOOLEAN,
   halted : BOOLEAN, trap_flag : BOOLEAN,
   int_pending : BOOLEAN, int_vector : Vector,
   seg_override_en : 0..2, seg_override : SegReg,
   rep_override_en : 0..2, rep_mode : RepMode,
   int8_asap : BOOLEAN, inst_count : 0..(Period - 1), pushed : Seq(Frame)]

\* memset to zero, then CS:IP
CpuInit(r) ==
  [at |-> Boot, IFlag |-> FALSE, TFlag |-> FALSE,
   halted |-> FALSE, trap_flag |-> FALSE,
   int_pending |-> FALSE, int_vector |-> 0,
   seg_override_en |-> 0, seg_override |-> r,
   rep_override_en |-> 0, rep_mode |-> "repnz",
   int8_asap |-> FALSE, inst_count |-> 0, pushed |-> <<>>]

(* Instructions, by what they do to this state; "to" is CS:IP afterwards.  *)
(* "flags" is CLI, STI, POPF or IRET; everything else that changes only    *)
(* CS:IP, registers or memory is "plain".                                  *)
Instr ==
  [op : {"plain", "lea", "hlt", "putchar"}, to : Loc]
    \cup [op : {"seg"}, sreg : SegReg, to : Loc]
    \cup [op : {"rep"}, mode : RepMode, to : Loc]
    \cup [op : {"flags"}, IFlag : BOOLEAN, TFlag : BOOLEAN, to : Loc]
    \cup [op : {"int"}, vec : Vector, to : Loc]

\* bug: IF not cleared on the way into the handler
InterruptKeepsIF(s, v) ==
  [s EXCEPT !.pushed = Append(@, [at |-> s.at, IFlag |-> s.IFlag, TFlag |-> s.TFlag]),
            !.at = Isr[v], !.TFlag = FALSE]

\* push FLAGS, CS and IP; clear IF and TF; load CS:IP from the table
PcInterrupt(s, v) ==
  [s EXCEPT !.pushed = Append(@, [at |-> s.at, IFlag |-> s.IFlag, TFlag |-> s.TFlag]),
            !.at = Isr[v], !.IFlag = FALSE, !.TFlag = FALSE]

\* bug: the prefixes not looked at
OpenByIF(s) == s.IFlag

\* interrupts are on and no prefix is waiting for its instruction
Open(s) == s.IFlag /\ s.seg_override_en = 0 /\ s.rep_override_en = 0

\* step 2: the hardware interrupt the host has made pending
Deliver(s) ==
  IF s.int_pending /\ Open(s)
    THEN [PcInterrupt(s, s.int_vector) EXCEPT !.int_pending = FALSE]
    ELSE s

\* bug: the unsigned byte counted below zero
DecUnguarded(n) == n - 1

Dec(n) == IF n > 0 THEN n - 1 ELSE 0

\* bug: the REP countdown forgotten
DecSegOnly(s) == [s EXCEPT !.seg_override_en = Dec(@)]

\* step 4: the override countdowns
DecPrefix(s) ==
  [s EXCEPT !.seg_override_en = Dec(@), !.rep_override_en = Dec(@)]

\* what decode and execute take from the countdowns
SegUsed(s) == IF s.seg_override_en > 0 THEN s.seg_override ELSE None
RepUsed(s) == IF s.rep_override_en > 0 THEN s.rep_mode ELSE None

\* bug: the prefix before this one not carried over it
BumpNothing(n) == n

Bump(n) == IF n > 0 THEN n + 1 ELSE n

\* steps 6 to 8: the switch of execute_instruction, IP, inst_count
Exec(s, i) ==
  LET t == [s EXCEPT !.at = i.to, !.inst_count = (@ + 1) % Period]
  IN  CASE i.op = "seg" ->
             [t EXCEPT !.seg_override_en = 2, !.seg_override = i.sreg,
                       !.rep_override_en = Bump(@)]
        [] i.op = "rep" ->
             [t EXCEPT !.rep_override_en = 2, !.rep_mode = i.mode,
                       !.seg_override_en = Bump(@)]
        [] i.op = "lea"   -> [t EXCEPT !.seg_override_en = 1]
        [] i.op = "hlt"   -> [t EXCEPT !.halted = TRUE]
        [] i.op = "flags" -> [t EXCEPT !.IFlag = i.IFlag, !.TFlag = i.TFlag]
        [] i.op = "int"   -> PcInterrupt(t, i.vec)
        [] OTHER          -> t

\* step 9: INT 1 for the instruction before, and the latch for the next
Trap(s) ==
  LET t == IF s.trap_flag THEN [PcInterrupt(s, 1) EXCEPT !.trap_flag = FALSE] ELSE s
  IN  IF t.TFlag THEN [t EXCEPT !.trap_flag = TRUE] ELSE t

\* bug: a tick that falls due while it cannot be taken is forgotten
TickDueIfOpen(s) ==
  IF s.inst_count = 0 /\ Open(s) THEN [s EXCEPT !.int8_asap = TRUE] ELSE s

\* step 10, its first half: a tick falls due every Period instructions
TickDue(s) == IF s.inst_count = 0 THEN [s EXCEPT !.int8_asap = TRUE] ELSE s

\* step 10, its second half, without and with a key to hand to the guest
TakeTick(s) == [PcInterrupt(s, 10) EXCEPT !.int8_asap = FALSE]

\* bug: ESC does not ask for the next byte of its sequence at once
TakeKeyNoRearm(s, escape) == PcInterrupt(s, 7)

TakeKey(s, escape) ==
  PcInterrupt(IF escape THEN [s EXCEPT !.int8_asap = TRUE] ELSE s, 7)
=============================================================================
