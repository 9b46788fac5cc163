------------------------------- MODULE EmuRun -------------------------------
(***************************************************************************)
(* emu86_run (run.c) under the most general host.  An iteration of its     *)
(* loop is four steps, cut where the loop touches the ring buffers the     *)
(* host shares with it:                                                    *)
(*                                                                         *)
(*   Begin    1-4   exit, pending interrupt, halt, override countdowns     *)
(*   Execute  5-9   decode, execute, count, trap (and PUTCHAR)             *)
(*   Tick     10    the timer tick and the keyboard poll                   *)
(*   Check    11    yield when console_out is filling up                   *)
(*                                                                         *)
(* The guest is any program over GuestOps; only the entry of the BIOS      *)
(* keyboard handler is fixed, because the mailbox protocol needs its two   *)
(* sides.  The host may drain console_out and type into console_in at any  *)
(* moment (the threaded host platform.h describes), may wake a halted CPU  *)
(* between two calls, and calls again only once console_out is drained     *)
(* below the mark emu86_run yields at.                                     *)
(***************************************************************************)
EXTENDS Cpu

CONSTANTS
  GuestOps,   \* the kinds of instruction the guest uses
  GuestTF,    \* the values the guest gives TF
  KbdEntry,   \* INT 7 handler, up to the load of the mailbox
  KbdRead,    \* INT 7 handler, the load of the mailbox
  Key,        \* bytes the host types
  Esc,        \* 0x1B
  MaxKeys,    \* keys typed in a behaviour (bounds the model)
  OutSize,    \* console_out.size
  InSize,     \* console_in.size
  Budget      \* cycle budget of a call

ASSUME RunAssumption ==
  /\ GuestTF \subseteq BOOLEAN
  /\ KbdEntry \in Loc => KbdRead \in Loc
  /\ OutSize \in Nat /\ OutSize >= 8     \* three quarters leave room for one byte
  /\ InSize \in Nat /\ InSize >= 2
  /\ Budget \in Nat /\ MaxKeys \in Nat

VARIABLES
  s,        \* Emu86State
  phase,    \* where the run loop is, or "host" between two calls
  cycles,   \* cycles of the call in progress
  reason,   \* yield->reason of the last call
  out,      \* bytes in console_out
  inq,      \* bytes in console_in
  mailbox,  \* mem[0x4A6]: the key the guest has not read yet, if any
  typed,    \* history: the keys console_in accepted
  heard,    \* history: the keys the guest has read
  dropped,  \* history: a PUTCHAR found console_out full
  prefix    \* history: the prefixes since the last instruction that is not one

ring == <<out, inq>>
history == <<typed, heard, dropped, prefix>>
vars == <<s, phase, cycles, reason, ring, mailbox, history>>

\* bug: the yield only when the ring is full
MarkFull == OutSize - 1

\* console_out.size * 3 / 4
Mark == (OutSize * 3) \div 4

NoPrefix == [seg |-> None, rep |-> None]

\* bug: an instruction that costs nothing
CostNothing == 0

\* step 8: cycles += 4
Cost == 4

\* the instructions the guest may have at a location
Program(at) ==
  IF at = KbdEntry THEN {[op |-> "plain", to |-> KbdRead]}
  ELSE IF at = KbdRead THEN [op : {"getkey"}, to : Loc \ {KbdEntry, KbdRead}]
  ELSE {i \in Instr : /\ i.op \in GuestOps
                      /\ i.to \notin {KbdEntry, KbdRead}
                      /\ i.op = "flags" => i.TFlag \in GuestTF
                      /\ i.op = "int" => i.vec # 7}

Init ==
  /\ \E r \in SegReg : s = CpuInit(r)
  /\ phase = "host" /\ cycles = 0 /\ reason = None
  /\ out = 0 /\ inq = <<>> /\ mailbox = <<>>
  /\ typed = <<>> /\ heard = <<>> /\ dropped = FALSE /\ prefix = NoPrefix

-----------------------------------------------------------------------------
(* The run loop.                                                           *)

Yield(why) ==
  /\ phase' = "host"
  /\ reason' = why
  /\ UNCHANGED <<cycles, ring, mailbox, history>>

\* the loop condition fails
Exhausted ==
  /\ phase = "top" /\ cycles >= Budget
  /\ Yield("budget")
  /\ UNCHANGED s

Begin ==
  /\ phase = "top" /\ cycles < Budget
  /\ \/ /\ s.at = Exit
        /\ Yield("exit")
        /\ UNCHANGED s
     \/ /\ s.at # Exit /\ s.halted
        /\ s' = Deliver(s)
        /\ Yield("halted")
     \/ /\ s.at # Exit /\ ~s.halted
        /\ s' = DecPrefix(Deliver(s))
        /\ phase' = "execute"
        /\ UNCHANGED <<cycles, reason, ring, mailbox, history>>

\* the prefixes in force after instruction i, by the order of the code alone
PrefixAfter(i) ==
  CASE i.op = "seg" -> [prefix EXCEPT !.seg = i.sreg]
    [] i.op = "rep" -> [prefix EXCEPT !.rep = i.mode]
    [] OTHER        -> NoPrefix

\* what execute_instruction does outside the CPU: PUTCHAR_AL, and the load of
\* the mailbox by the guest
Effects(i) ==
  /\ prefix' = PrefixAfter(i)
  /\ IF i.op = "putchar"
       THEN IF out < OutSize - 1
              THEN out' = out + 1 /\ UNCHANGED dropped
              ELSE dropped' = TRUE /\ UNCHANGED out
       ELSE UNCHANGED <<out, dropped>>
  /\ IF i.op = "getkey"
       THEN heard' = heard \o mailbox /\ mailbox' = <<>>
       ELSE UNCHANGED <<heard, mailbox>>

Execute(i) ==
  /\ phase = "execute"
  /\ i \in Program(s.at)
  /\ s' = Trap(Exec(s, i))
  /\ Effects(i)
  /\ cycles' = cycles + Cost
  /\ phase' = "tick"
  /\ UNCHANGED <<reason, inq, typed>>

Tick ==
  /\ phase = "tick"
  /\ LET t == TickDue(s)
     IN  IF t.int8_asap /\ Open(t)
           THEN IF inq # <<>>
                  THEN /\ s' = TakeKey(TakeTick(t), Head(inq) = Esc)
                       /\ mailbox' = <<Head(inq)>>
                       /\ inq' = Tail(inq)
                  ELSE s' = TakeTick(t) /\ UNCHANGED <<mailbox, inq>>
           ELSE s' = t /\ UNCHANGED <<mailbox, inq>>
  /\ phase' = "check"
  /\ UNCHANGED <<cycles, reason, out, history>>

Check ==
  /\ phase = "check"
  /\ s' = [s EXCEPT !.pushed = <<>>]
  /\ IF out > Mark
       THEN Yield("io_needed")
       ELSE phase' = "top" /\ UNCHANGED <<cycles, reason, ring, mailbox, history>>

Run == Exhausted \/ Begin \/ (\E i \in Program(s.at) : Execute(i)) \/ Tick \/ Check

-----------------------------------------------------------------------------
(* The host.                                                               *)

Call ==
  /\ phase = "host" /\ out <= Mark
  /\ phase' = "top" /\ cycles' = 0
  /\ UNCHANGED <<s, reason, ring, mailbox, history>>

\* halted = 0, int_pending = 1, int_vector = 0x0A
Wake ==
  /\ phase = "host"
  /\ s' = [s EXCEPT !.halted = FALSE, !.int_pending = TRUE, !.int_vector = 10,
                    !.pushed = <<>>]
  /\ UNCHANGED <<phase, cycles, reason, ring, mailbox, history>>

Drain ==
  /\ out > 0
  /\ out' = out - 1
  /\ UNCHANGED <<s, phase, cycles, reason, inq, mailbox, history>>

\* ringbuf_write on console_in; a key that finds it full is not typed
Type(k) ==
  /\ Len(typed) < MaxKeys
  /\ Len(inq) < InSize - 1
  /\ inq' = Append(inq, k)
  /\ typed' = Append(typed, k)
  /\ UNCHANGED <<s, phase, cycles, reason, out, mailbox, heard, dropped, prefix>>

Host == Call \/ Wake \/ Drain \/ (\E k \in Key : Type(k))

Next == Run \/ Host

Spec == Init /\ [][Next]_vars

\* the emulator's thread does not stop in the middle of a call
FairSpec == Spec /\ WF_vars(Run)

-----------------------------------------------------------------------------
Phases == {"host", "top", "execute", "tick", "check"}
Reasons == {None, "budget", "halted", "io_needed", "exit"}

TypeOK ==
  /\ s \in CpuState
  /\ phase \in Phases /\ cycles \in Nat /\ reason \in Reasons
  /\ out \in 0..(OutSize - 1)
  /\ inq \in Seq(Key) /\ mailbox \in Seq(Key) /\ Len(mailbox) <= 1
  /\ typed \in Seq(Key) /\ heard \in Seq(Key) /\ dropped \in BOOLEAN
  /\ prefix \in [seg : SegReg \cup {None}, rep : RepMode \cup {None}]

(* An override prefix acts on the next instruction and on no other: what   *)
(* the countdowns let decode and execute see is exactly what the prefixes  *)
(* since the last instruction ask for, however prefixes are stacked and    *)
(* although LEA leaves the segment countdown at 1 (run.c, cases 10, 23 and *)
(* 27, step 4).                                                            *)
PrefixScope ==
  phase = "execute" => SegUsed(s) = prefix.seg /\ RepUsed(s) = prefix.rep

(* No character the guest prints is lost, although ringbuf_write's result  *)
(* is ignored by PUTCHAR: the yield at three quarters always comes before  *)
(* console_out is full.                                                    *)
NoOutputLost == ~dropped

(* The inductive strengthening the proofs of the three use: what the        *)
(* countdowns say between two instructions, and that no instruction starts *)
(* with console_out above the mark.                                        *)
PrefixInv ==
  /\ phase = "execute" =>
       /\ s.seg_override_en \in 0..1 /\ s.rep_override_en \in 0..1
       /\ SegUsed(s) = prefix.seg /\ RepUsed(s) = prefix.rep
  /\ phase # "execute" =>
       /\ prefix.seg = IF s.seg_override_en = 2 THEN s.seg_override ELSE None
       /\ prefix.rep = IF s.rep_override_en = 2 THEN s.rep_mode ELSE None

RoomInv == phase \in {"top", "execute"} => out <= Mark

Inv == TypeOK /\ PrefixInv /\ RoomInv /\ NoOutputLost

(* Every key console_in accepted is in exactly one place, in the order of  *)
(* typing: read by the guest, in the one-byte mailbox, or in the ring.  In *)
(* particular the next tick never overwrites a key INT 7 has yet to read.  *)
KeysInOrder == typed = heard \o mailbox \o inq

(* The BIOS the mailbox protocol is written for: INT 7 leads to the        *)
(* keyboard handler, and no program single-steps.                          *)
BiosGuest ==
  /\ GuestTF = {FALSE}
  /\ Isr[7] = KbdEntry /\ KbdEntry \in Loc

(* The inductive strengthening for KeysInOrder: while a key is in the      *)
(* mailbox the handler is running, with interrupts off and no trap latched.*)
KeyInv ==
  /\ KeysInOrder
  /\ ~s.TFlag /\ ~s.trap_flag
  /\ mailbox # <<>> => s.at \in {KbdEntry, KbdRead} /\ ~s.IFlag

(* The timer and the host's interrupt never separate a prefix from its     *)
(* instruction, and never enter with interrupts off.                       *)
AsyncNotSplit ==
  [][(phase \in {"top", "tick"} /\ Len(s'.pushed) > Len(s.pushed))
       => (prefix = NoPrefix /\ s.IFlag)]_vars

(* A call of emu86_run returns, whatever the guest does.                   *)
RunReturns == phase # "host" ~> phase = "host"

(* A due tick is not forgotten while interrupts are off or a prefix stands: *)
(* a guest that over and over reaches the poll with interrupts on gets      *)
(* every key in console_in, one by one.                                     *)
KeysServed ==
  ([]<>(phase = "tick" /\ Open(s))) => (inq # <<>> ~> inq = <<>>)
=============================================================================
