---------------------------- MODULE EmuRunProofs ----------------------------
(***************************************************************************)
(* Proofs about EmuRun, for every guest program, vector table, tick        *)
(* period, budget and pair of ring sizes: prefixes act on one instruction, *)
(* asynchronous interrupts do not separate the two, no output is lost, and *)
(* keys reach the guest in order; and of the two that are built on it, a   *)
(* debugger's single steps and the Linux host.                             *)
(***************************************************************************)
EXTENDS EntryPoints, LinuxHost, CpuProofs

-----------------------------------------------------------------------------
(* The fields of the instructions a program may have.                      *)
LEMMA ProgramIs ==
  ASSUME NEW at \in Loc, NEW i \in Program(at)
  PROVE  /\ WellFormed(i)
         /\ i.op \in {"plain", "lea", "hlt", "putchar", "seg", "rep", "flags", "int", "getkey"}
  <1>1. CASE at = KbdEntry
    BY <1>1, RunAssumption DEF Program, WellFormed
  <1>2. CASE at # KbdEntry /\ at = KbdRead
    BY <1>2 DEF Program, WellFormed
  <1>3. CASE at # KbdEntry /\ at # KbdRead
    BY <1>3 DEF Program, Instr, WellFormed
  <1>4. QED
    BY <1>1, <1>2, <1>3

-----------------------------------------------------------------------------
(* The mark leaves room for the byte of one more PUTCHAR.                  *)
LEMMA MarkIs == Mark \in Nat /\ Mark < OutSize - 1
  BY RunAssumption DEF Mark

(* The reset state satisfies the invariant.                                *)
LEMMA RunInit == Init => Inv
  <1> SUFFICES ASSUME Init PROVE Inv
    OBVIOUS
  <1>1. PICK r \in SegReg : s = CpuInit(r)
    BY DEF Init
  <1>2. s \in CpuState /\ s.seg_override_en = 0 /\ s.rep_override_en = 0
    BY <1>1, CpuAssumption DEF CpuInit, CpuState, RepMode
  <1>3. TypeOK
    <2>1. /\ 0 \in 0..(OutSize - 1) /\ 0 \in Nat
          /\ <<>> \in Seq(Key) /\ Len(<<>>) <= 1
      BY RunAssumption
    <2>2. NoPrefix \in [seg : SegReg \cup {None}, rep : RepMode \cup {None}]
      BY DEF NoPrefix
    <2>3. QED
      BY <1>2, <2>1, <2>2 DEF Init, TypeOK, Phases, Reasons
  <1>4. QED
    BY <1>2, <1>3 DEF Init, Inv, PrefixInv, RoomInv, NoOutputLost, NoPrefix

(* Begin: the countdowns reach the instruction one lower.                  *)
LEMMA BeginInv == Inv /\ Begin => Inv'
  <1> SUFFICES ASSUME Inv, Begin PROVE Inv'
    OBVIOUS
  <1> DEFINE d == Deliver(s)
  <1>1. s \in CpuState /\ d \in CpuState /\ SamePrefix(s, d)
    BY DeliverIs DEF Inv, TypeOK
  <1>2. ASSUME UNCHANGED <<cycles, ring, mailbox, history>>, s' \in CpuState,
               phase' \in Phases, reason' \in Reasons
        PROVE  TypeOK' /\ NoOutputLost'
    BY <1>2 DEF Inv, TypeOK, NoOutputLost, ring, history
  <1>3. CASE s.at = Exit /\ Yield("exit") /\ UNCHANGED s
    <2>1. TypeOK' /\ NoOutputLost'
      BY <1>1, <1>2, <1>3 DEF Yield, Phases, Reasons
    <2>2. PrefixInv' /\ RoomInv'
      BY <1>3 DEF Begin, Inv, PrefixInv, RoomInv, Yield, history
    <2>3. QED
      BY <2>1, <2>2 DEF Inv
  <1>4. CASE s' = d /\ Yield("halted")
    <2>1. TypeOK' /\ NoOutputLost'
      BY <1>1, <1>2, <1>4 DEF Yield, Phases, Reasons
    <2>2. PrefixInv' /\ RoomInv'
      BY <1>1, <1>4 DEF Begin, Inv, PrefixInv, RoomInv, Yield, history, SamePrefix
    <2>3. QED
      BY <2>1, <2>2 DEF Inv
  <1>5. CASE /\ s' = DecPrefix(d)
             /\ phase' = "execute"
             /\ UNCHANGED <<cycles, reason, ring, mailbox, history>>
    <2>1. /\ s' \in CpuState
          /\ s'.seg_override_en = Dec(d.seg_override_en) /\ s'.seg_override = d.seg_override
          /\ s'.rep_override_en = Dec(d.rep_override_en) /\ s'.rep_mode = d.rep_mode
          /\ s'.seg_override_en \in 0..1 /\ s'.rep_override_en \in 0..1
      BY <1>1, <1>5, DecPrefixIs
    <2>2. TypeOK' /\ NoOutputLost'
      BY <1>2, <1>5, <2>1 DEF Phases, Inv, TypeOK
    <2>3. PrefixInv'
      <3>1. /\ prefix.seg = IF d.seg_override_en = 2 THEN d.seg_override ELSE None
            /\ prefix.rep = IF d.rep_override_en = 2 THEN d.rep_mode ELSE None
        BY <1>1 DEF Begin, Inv, PrefixInv, SamePrefix
      <3>2. d.seg_override_en \in 0..2 /\ d.rep_override_en \in 0..2
        BY <1>1 DEF CpuState
      <3>3. /\ (s'.seg_override_en > 0) <=> (d.seg_override_en = 2)
            /\ (s'.rep_override_en > 0) <=> (d.rep_override_en = 2)
        BY <2>1, <3>2 DEF Dec
      <3>4. prefix' = prefix
        BY <1>5 DEF history
      <3>5. SegUsed(s') = prefix'.seg /\ RepUsed(s') = prefix'.rep
        BY <2>1, <3>1, <3>3, <3>4 DEF SegUsed, RepUsed
      <3>6. QED
        BY <1>5, <2>1, <3>5 DEF PrefixInv, SegUsed, RepUsed
    <2>4. RoomInv'
      BY <1>5 DEF Begin, Inv, RoomInv, ring
    <2>5. QED
      BY <2>2, <2>3, <2>4 DEF Inv
  <1>6. QED
    BY <1>3, <1>4, <1>5 DEF Begin

(* Execute: a prefix arms its countdown at 2 and carries the other one on, *)
(* anything else leaves neither at 2; a PUTCHAR finds room.                *)
LEMMA ExecuteInv ==
  ASSUME Inv, NEW i \in Program(s.at), Execute(i)
  PROVE  Inv'
  <1> DEFINE e == Exec(s, i)
  <1>1. /\ phase = "execute" /\ s \in CpuState
        /\ s.seg_override_en \in 0..1 /\ s.rep_override_en \in 0..1
        /\ SegUsed(s) = prefix.seg /\ RepUsed(s) = prefix.rep
    BY DEF Execute, Effects, Inv, TypeOK, PrefixInv
  <1>2. /\ e \in CpuState
        /\ i.op = "seg" =>
             /\ e.seg_override_en = 2 /\ e.seg_override = i.sreg
             /\ e.rep_override_en = Bump(s.rep_override_en) /\ e.rep_mode = s.rep_mode
        /\ i.op = "rep" =>
             /\ e.rep_override_en = 2 /\ e.rep_mode = i.mode
             /\ e.seg_override_en = Bump(s.seg_override_en)
             /\ e.seg_override = s.seg_override
        /\ i.op \notin {"seg", "rep"} =>
             e.seg_override_en \in 0..1 /\ e.rep_override_en \in 0..1
    <2>1. WellFormed(i)
      BY <1>1, ProgramIs DEF CpuState
    <2>2. QED
      BY <1>1, <2>1, ExecIs
  <1>3. s' \in CpuState /\ SamePrefix(e, s')
    BY <1>2, TrapIs DEF Execute, Effects
  <1>4. /\ i.op = "seg" => i.sreg \in SegReg
        /\ i.op = "rep" => i.mode \in RepMode
    BY <1>1, ProgramIs DEF CpuState, WellFormed
  <1>5. prefix \in [seg : SegReg \cup {None}, rep : RepMode \cup {None}]
    BY DEF Inv, TypeOK
  <1>6. prefix' = CASE i.op = "seg" -> [prefix EXCEPT !.seg = i.sreg]
                    [] i.op = "rep" -> [prefix EXCEPT !.rep = i.mode]
                    [] OTHER        -> NoPrefix
    BY DEF Execute, Effects, PrefixAfter
  <1>7. prefix' \in [seg : SegReg \cup {None}, rep : RepMode \cup {None}]
    BY <1>4, <1>5, <1>6 DEF NoPrefix
  <1>8. out < OutSize - 1 /\ out \in Nat
    BY <1>1, MarkIs, RunAssumption DEF Inv, TypeOK, RoomInv
  <1>9. out' \in 0..(OutSize - 1) /\ ~dropped'
    BY <1>8, RunAssumption DEF Execute, Effects, Inv, TypeOK, NoOutputLost
  <1>10. /\ heard' \in Seq(Key) /\ mailbox' \in Seq(Key) /\ Len(mailbox') <= 1
    <2>1. heard \in Seq(Key) /\ mailbox \in Seq(Key) /\ Len(mailbox) <= 1
      BY DEF Inv, TypeOK
    <2>2. heard \o mailbox \in Seq(Key)
      BY <2>1, ConcatProperties
    <2>3. <<>> \in Seq(Key) /\ Len(<<>>) = 0
      OBVIOUS
    <2>4. CASE i.op = "getkey"
      <3>1. heard' = heard \o mailbox /\ mailbox' = <<>>
        BY <2>4 DEF Execute, Effects
      <3>2. QED
        BY <2>2, <2>3, <3>1
    <2>5. CASE i.op # "getkey"
      <3>1. heard' = heard /\ mailbox' = mailbox
        BY <2>5 DEF Execute, Effects
      <3>2. QED
        BY <2>1, <3>1
    <2>6. QED
      BY <2>4, <2>5
  <1>11. TypeOK'
    BY <1>3, <1>7, <1>9, <1>10 DEF Execute, Effects, Cost, Inv, TypeOK, Phases
  <1>12. PrefixInv'
    <2>1. CASE i.op = "seg"
      <3>1. prefix'.seg = i.sreg /\ prefix'.rep = prefix.rep
        BY <1>5, <1>6, <2>1
      <3>2. s'.seg_override_en = 2 /\ s'.seg_override = i.sreg
        BY <1>2, <1>3, <2>1 DEF SamePrefix
      <3>3. s'.rep_override_en = Bump(s.rep_override_en) /\ s'.rep_mode = s.rep_mode
        BY <1>2, <1>3, <2>1 DEF SamePrefix
      <3>4. prefix.rep = IF s'.rep_override_en = 2 THEN s'.rep_mode ELSE None
        BY <1>1, <3>3 DEF Bump, RepUsed
      <3>5. QED
        BY <3>1, <3>2, <3>4 DEF Execute, Effects, PrefixInv
    <2>2. CASE i.op = "rep"
      <3>1. prefix'.rep = i.mode /\ prefix'.seg = prefix.seg
        BY <1>5, <1>6, <2>2
      <3>2. s'.rep_override_en = 2 /\ s'.rep_mode = i.mode
        BY <1>2, <1>3, <2>2 DEF SamePrefix
      <3>3. s'.seg_override_en = Bump(s.seg_override_en) /\ s'.seg_override = s.seg_override
        BY <1>2, <1>3, <2>2 DEF SamePrefix
      <3>4. prefix.seg = IF s'.seg_override_en = 2 THEN s'.seg_override ELSE None
        BY <1>1, <3>3 DEF Bump, SegUsed
      <3>5. QED
        BY <3>1, <3>2, <3>4 DEF Execute, Effects, PrefixInv
    <2>3. CASE i.op \notin {"seg", "rep"}
      <3>1. prefix'.seg = None /\ prefix'.rep = None
        BY <1>6, <2>3 DEF NoPrefix
      <3>2. s'.seg_override_en \in 0..1 /\ s'.rep_override_en \in 0..1
        BY <1>2, <1>3, <2>3 DEF SamePrefix
      <3>3. QED
        BY <3>1, <3>2 DEF Execute, Effects, PrefixInv
    <2>4. QED
      BY <2>1, <2>2, <2>3
  <1>13. RoomInv'
    BY DEF Execute, Effects, RoomInv
  <1>14. QED
    BY <1>9, <1>11, <1>12, <1>13 DEF Inv, NoOutputLost

(* Tick: the handlers are entered with both countdowns as they were.       *)
LEMMA TickInv == Inv /\ Tick => Inv'
  <1> SUFFICES ASSUME Inv, Tick PROVE Inv'
    OBVIOUS
  <1> DEFINE t == TickDue(s)
             k == TakeTick(t)
  <1>1. s \in CpuState /\ t \in CpuState /\ SamePrefix(s, t)
    BY TickDueIs DEF Inv, TypeOK
  <1>2. k \in CpuState /\ SamePrefix(t, k)
    BY <1>1, TakeTickIs
  <1>3. \A b \in BOOLEAN : TakeKey(k, b) \in CpuState /\ SamePrefix(k, TakeKey(k, b))
    BY <1>2, TakeKeyIs
  <1> HIDE DEF t, k
  <1>4. s' \in {t, k, TakeKey(k, Head(inq) = Esc)}
    BY DEF Tick, t, k
  <1>5. s' \in CpuState /\ SamePrefix(s, s')
    BY <1>1, <1>2, <1>3, <1>4 DEF SamePrefix
  <1>6. /\ inq' \in Seq(Key) /\ mailbox' \in Seq(Key) /\ Len(mailbox') <= 1
    <2>1. inq \in Seq(Key) /\ mailbox \in Seq(Key) /\ Len(mailbox) <= 1
      BY DEF Inv, TypeOK
    <2>2. CASE inq' = inq /\ mailbox' = mailbox
      BY <2>1, <2>2
    <2>3. CASE inq # <<>> /\ inq' = Tail(inq) /\ mailbox' = <<Head(inq)>>
      <3>1. Head(inq) \in Key /\ Tail(inq) \in Seq(Key)
        BY <2>1, <2>3, HeadTailProperties
      <3>2. QED
        BY <2>3, <3>1
    <2>4. QED
      BY <2>2, <2>3 DEF Tick
  <1>7. UNCHANGED <<cycles, reason, out, typed, heard, dropped, prefix>> /\ phase' = "check"
    BY DEF Tick, history
  <1>8. TypeOK' /\ NoOutputLost'
    BY <1>5, <1>6, <1>7 DEF Inv, TypeOK, Phases, NoOutputLost
  <1>9. PrefixInv' /\ RoomInv'
    BY <1>5, <1>7 DEF Tick, Inv, PrefixInv, RoomInv, SamePrefix
  <1>10. QED
    BY <1>8, <1>9 DEF Inv

(* Check: the loop goes on only below the mark.                            *)
LEMMA CheckInv == Inv /\ Check => Inv'
  <1> SUFFICES ASSUME Inv, Check PROVE Inv'
    OBVIOUS
  <1>1. s' \in CpuState /\ SamePrefix(s, s')
    <2>1. s \in CpuState /\ <<>> \in Seq(Frame)
      BY DEF Inv, TypeOK
    <2>2. s' = [s EXCEPT !.pushed = <<>>]
      BY DEF Check
    <2>3. QED
      BY <2>1, <2>2 DEF CpuState, SamePrefix
  <1>2. /\ UNCHANGED <<cycles, ring, mailbox, history>>
        /\ phase' \in {"host", "top"} /\ (phase' = "top" => out <= Mark)
        /\ reason' \in Reasons
    BY MarkIs DEF Check, Yield, Reasons, Inv, TypeOK
  <1>3. TypeOK' /\ NoOutputLost'
    BY <1>1, <1>2 DEF Inv, TypeOK, Phases, NoOutputLost, ring, history
  <1>4. PrefixInv' /\ RoomInv'
    BY <1>1, <1>2 DEF Check, Inv, PrefixInv, RoomInv, SamePrefix, ring, history
  <1>5. QED
    BY <1>3, <1>4 DEF Inv

(* Every step of the run loop and of the host preserves the invariant.     *)
LEMMA RunStep == Inv /\ [Next]_vars => Inv'
  <1> SUFFICES ASSUME Inv, [Next]_vars PROVE Inv'
    OBVIOUS
  <1>1. CASE Exhausted
    BY <1>1 DEF Exhausted, Yield, Inv, TypeOK, Phases, Reasons, PrefixInv, RoomInv,
                NoOutputLost, ring, history
  <1>2. CASE Begin
    BY <1>2, BeginInv
  <1>3. CASE \E i \in Program(s.at) : Execute(i)
    BY <1>3, ExecuteInv
  <1>4. CASE Tick
    BY <1>4, TickInv
  <1>5. CASE Check
    BY <1>5, CheckInv
  <1>6. CASE Call
    BY <1>6 DEF Call, Inv, TypeOK, Phases, PrefixInv, RoomInv, NoOutputLost, ring, history
  <1>7. CASE Wake
    <2>1. s \in CpuState /\ 10 \in Vector /\ <<>> \in Seq(Frame)
      BY CpuAssumption DEF Inv, TypeOK
    <2>2. s' = [s EXCEPT !.halted = FALSE, !.int_pending = TRUE, !.int_vector = 10,
                         !.pushed = <<>>]
      BY <1>7 DEF Wake
    <2>3. s' \in CpuState /\ SamePrefix(s, s')
      BY <2>1, <2>2 DEF CpuState, SamePrefix
    <2>4. QED
      BY <1>7, <2>3 DEF Wake, Inv, TypeOK, PrefixInv, RoomInv, NoOutputLost, SamePrefix,
                        ring, history
  <1>8. CASE Drain
    <2>1. out' \in 0..(OutSize - 1) /\ out' <= out
      BY <1>8, RunAssumption DEF Drain, Inv, TypeOK
    <2>2. RoomInv'
      BY <1>8, <2>1, MarkIs, RunAssumption DEF Drain, Inv, TypeOK, RoomInv
    <2>3. TypeOK' /\ PrefixInv' /\ NoOutputLost'
      BY <1>8, <2>1 DEF Drain, Inv, TypeOK, PrefixInv, NoOutputLost, history
    <2>4. QED
      BY <2>2, <2>3 DEF Inv
  <1>9. ASSUME NEW k \in Key, Type(k) PROVE Inv'
    <2>1. Append(inq, k) \in Seq(Key) /\ Append(typed, k) \in Seq(Key)
      BY AppendProperties DEF Inv, TypeOK
    <2>2. QED
      BY <1>9, <2>1 DEF Type, Inv, TypeOK, PrefixInv, RoomInv, NoOutputLost
  <1>10. CASE UNCHANGED vars
    BY <1>10 DEF vars, ring, history, Inv, TypeOK, PrefixInv, RoomInv, NoOutputLost
  <1>11. QED
    BY <1>1, <1>2, <1>3, <1>4, <1>5, <1>6, <1>7, <1>8, <1>9, <1>10 DEF Next, Run, Host

(* The run loop's inductive invariant holds in every reachable state.      *)
THEOREM RunInvariant == Spec => []Inv
  BY RunInit, RunStep, PTL DEF Spec

(* An override prefix acts on the next instruction and on no other, for    *)
(* every program (run.c, step 4 and cases 10, 23 and 27).                  *)
THEOREM PrefixesScoped == Spec => []PrefixScope
  <1>1. Inv => PrefixScope
    BY DEF Inv, PrefixInv, PrefixScope
  <1>2. QED
    BY <1>1, RunInvariant, PTL

(* PUTCHAR never finds console_out full, for every ring of eight bytes or  *)
(* more, every budget and every moment at which the host drains it.        *)
THEOREM OutputKept == Spec => []NoOutputLost
  <1>1. Inv => NoOutputLost
    BY DEF Inv
  <1>2. QED
    BY <1>1, RunInvariant, PTL

(* The timer and the host's interrupts enter between whole instructions    *)
(* only, and only with interrupts on (run.c, steps 2 and 10).              *)
THEOREM AsyncBetweenInstructions == Spec => AsyncNotSplit
  <1> DEFINE A == (phase \in {"top", "tick"} /\ Len(s'.pushed) > Len(s.pushed))
                    => (prefix = NoPrefix /\ s.IFlag)
  <1>1. Inv /\ [Next]_vars => [A]_vars
    <2> SUFFICES ASSUME Inv, Next, phase \in {"top", "tick"},
                        Len(s'.pushed) > Len(s.pushed)
                 PROVE  prefix = NoPrefix /\ s.IFlag
      OBVIOUS
    <2>1. s \in CpuState /\ Len(s.pushed) \in Nat
      BY LenProperties DEF Inv, TypeOK, CpuState
    <2>2. s'.pushed # s.pushed
      BY <2>1
    <2>3. Open(s) => prefix = NoPrefix /\ s.IFlag
      <3>1. prefix \in [seg : SegReg \cup {None}, rep : RepMode \cup {None}]
        BY DEF Inv, TypeOK
      <3>2. phase # "execute"
        OBVIOUS
      <3>3. Open(s) => prefix.seg = None /\ prefix.rep = None
        BY <3>2 DEF Inv, PrefixInv, Open
      <3>4. QED
        BY <3>1, <3>3 DEF NoPrefix, Open
    <2>4. CASE Begin
      <3>1. Deliver(s) \in CpuState
        BY <2>1, DeliverIs
      <3>2. s'.pushed = s.pushed \/ s'.pushed = Deliver(s).pushed
        BY <2>4, <3>1, DecPrefixIs DEF Begin
      <3>3. Deliver(s) # s
        BY <2>2, <3>2
      <3>4. QED
        BY <2>3, <3>3 DEF Deliver
    <2>5. CASE Tick
      <3>1. TickDue(s).pushed = s.pushed /\ Open(TickDue(s)) = Open(s)
        BY <2>1 DEF TickDue, Open, CpuState
      <3>2. CASE TickDue(s).int8_asap /\ Open(TickDue(s))
        BY <2>3, <3>1, <3>2
      <3>3. CASE ~(TickDue(s).int8_asap /\ Open(TickDue(s)))
        BY <2>2, <2>5, <3>1, <3>3 DEF Tick
      <3>4. QED
        BY <3>2, <3>3
    <2>6. CASE ~(Begin \/ Tick)
      BY <2>2, <2>6 DEF Next, Run, Host, Exhausted, Execute, Effects, Check, Call, Wake, Drain, Type
    <2>7. QED
      BY <2>4, <2>5, <2>6
  <1>2. QED
    BY <1>1, RunInvariant, PTL DEF Spec, AsyncNotSplit

-----------------------------------------------------------------------------
(* The keyboard path.                                                      *)

(* What an instruction of a program without single-stepping does to the    *)
(* fields the mailbox protocol rests on.                                   *)
LEMMA ExecNoTrap ==
  ASSUME BiosGuest, NEW c \in CpuState, ~c.TFlag, ~c.trap_flag, NEW i \in Program(c.at)
  PROVE  LET e == Exec(c, i)
         IN  /\ ~e.TFlag /\ Trap(e) = e /\ ~e.trap_flag
             /\ i.op = "plain" => e.at = i.to /\ e.IFlag = c.IFlag
  <1> DEFINE n == (c.inst_count + 1) % Period
             t == [c EXCEPT !.at = i.to, !.inst_count = n]
             e == Exec(c, i)
  <1>1. c.at \in Loc /\ c.inst_count \in 0..(Period - 1)
    BY DEF CpuState
  <1>2. n \in 0..(Period - 1)
    BY <1>1, CpuAssumption
  <1>3. i.to \in Loc /\ (i.op = "int" => i.vec \in Vector)
    BY <1>1, ProgramIs DEF WellFormed
  <1>4. /\ t \in CpuState /\ ~t.TFlag /\ ~t.trap_flag
        /\ t.at = i.to /\ t.IFlag = c.IFlag
    <2> HIDE DEF n
    <2> QED BY <1>2, <1>3 DEF CpuState
  <1>5. e = CASE i.op = "seg" ->
                   [t EXCEPT !.seg_override_en = 2, !.seg_override = i.sreg,
                             !.rep_override_en = Bump(@)]
              [] i.op = "rep" ->
                   [t EXCEPT !.rep_override_en = 2, !.rep_mode = i.mode,
                             !.seg_override_en = Bump(@)]
              [] i.op = "lea"   -> [t EXCEPT !.seg_override_en = 1]
              [] i.op = "hlt"   -> [t EXCEPT !.halted = TRUE]
              [] i.op = "flags" -> [t EXCEPT !.IFlag = i.IFlag, !.TFlag = i.TFlag]
              [] i.op = "int"   -> PcInterrupt(t, i.vec)
              [] OTHER          -> t
    BY DEF Exec
  <1>6. i.op = "flags" => i.TFlag = FALSE
    <2>1. i.op = "flags" => i.TFlag \in GuestTF
      BY DEF Program
    <2>2. QED
      BY <2>1 DEF BiosGuest
  <1> HIDE DEF t, e, n
  <1>7. ~e.TFlag /\ ~e.trap_flag
    <2>1. CASE i.op = "int"
      BY <1>3, <1>4, <1>5, <2>1, PcInterruptIs DEF SameLatches
    <2>2. CASE i.op = "flags"
      BY <1>4, <1>5, <1>6, <2>2 DEF CpuState
    <2>3. CASE i.op \in {"seg", "rep", "lea", "hlt"}
      BY <1>4, <1>5, <2>3 DEF CpuState
    <2>4. CASE i.op \notin {"seg", "rep", "lea", "hlt", "flags", "int"}
      BY <1>4, <1>5, <2>4
    <2>5. QED
      BY <2>1, <2>2, <2>3, <2>4
  <1>8. i.op = "plain" => e = t
    BY <1>5
  <1>9. QED
    BY <1>4, <1>7, <1>8 DEF e, Trap

(* Nothing has been typed at first.                                        *)
LEMMA KeyInit == BiosGuest /\ Init => KeyInv
  <1> SUFFICES ASSUME Init PROVE KeyInv
    OBVIOUS
  <1>1. <<>> \o <<>> \o <<>> = <<>>
    OBVIOUS
  <1>2. QED
    BY <1>1 DEF Init, CpuInit, KeyInv, KeysInOrder

(* Execute: the handler's load is the only instruction that moves a key,   *)
(* and until it runs the handler stays shut.                               *)
LEMMA KeyExecute ==
  ASSUME BiosGuest, Inv, KeyInv, NEW i \in Program(s.at), Execute(i)
  PROVE  KeyInv'
  <1>1. /\ heard \in Seq(Key) /\ mailbox \in Seq(Key) /\ inq \in Seq(Key)
        /\ s \in CpuState /\ s.at \in Loc
    BY DEF Inv, TypeOK, CpuState
  <1>2. ~s.TFlag /\ ~s.trap_flag
    BY DEF KeyInv
  <1>3. /\ ~s'.TFlag /\ ~s'.trap_flag
        /\ i.op = "plain" => s'.at = i.to /\ s'.IFlag = s.IFlag
    BY <1>1, <1>2, ExecNoTrap DEF Execute, Effects
  <1>4. CASE i.op = "getkey"
    <2>1. mailbox' = <<>> /\ heard' = heard \o mailbox /\ UNCHANGED <<typed, inq>>
      BY <1>4 DEF Execute, Effects
    <2>2. heard \o mailbox \in Seq(Key)
      BY <1>1, ConcatProperties
    <2>3. (heard \o mailbox) \o <<>> = heard \o mailbox
      BY <2>2, ConcatEmptySeq
    <2>4. QED
      BY <1>3, <2>1, <2>3 DEF KeyInv, KeysInOrder
  <1>5. CASE i.op # "getkey"
    <2>1. UNCHANGED <<typed, heard, mailbox, inq>>
      BY <1>5 DEF Execute, Effects
    <2>2. ASSUME mailbox # <<>> PROVE s'.at \in {KbdEntry, KbdRead} /\ ~s'.IFlag
      <3>1. s.at \in {KbdEntry, KbdRead} /\ ~s.IFlag
        BY <2>2 DEF KeyInv
      <3>2. i = [op |-> "plain", to |-> KbdRead]
        BY <1>5, <3>1 DEF Program
      <3>3. QED
        BY <1>3, <3>1, <3>2
    <2>3. QED
      BY <1>3, <2>1, <2>2 DEF KeyInv, KeysInOrder
  <1>6. QED
    BY <1>4, <1>5

(* Tick: a key is taken only with interrupts on, so the mailbox is empty.  *)
LEMMA KeyTick ==
  ASSUME BiosGuest, Inv, KeyInv, Tick
  PROVE  KeyInv'
  <1> DEFINE t == TickDue(s)
             k == TakeTick(t)
             e == Head(inq) = Esc
             u == IF e THEN [k EXCEPT !.int8_asap = TRUE] ELSE k
  <1>1. /\ heard \in Seq(Key) /\ mailbox \in Seq(Key) /\ inq \in Seq(Key)
        /\ s \in CpuState
    BY DEF Inv, TypeOK
  <1>2. /\ t \in CpuState /\ t.at = s.at /\ t.IFlag = s.IFlag
        /\ t.TFlag = s.TFlag /\ t.trap_flag = s.trap_flag
    BY <1>1 DEF TickDue, CpuState
  <1>3. /\ k \in CpuState /\ ~k.IFlag /\ ~k.TFlag /\ k.trap_flag = t.trap_flag
    <2> DEFINE d == PcInterrupt(t, 10)
    <2>1. d \in CpuState /\ ~d.IFlag /\ ~d.TFlag /\ d.trap_flag = t.trap_flag
      BY <1>2, PcInterruptIs, CpuAssumption DEF SameLatches
    <2>2. k = [d EXCEPT !.int8_asap = FALSE]
      BY DEF TakeTick
    <2>3. QED
      <3> HIDE DEF d, k
      <3> QED BY <2>1, <2>2, TakeTickIs, <1>2 DEF CpuState, k
  <1>4. /\ UNCHANGED <<typed, heard>>
    BY DEF Tick, history
  <1>5. CASE /\ t.int8_asap /\ Open(t) /\ inq # <<>>
             /\ s' = TakeKey(k, e) /\ mailbox' = <<Head(inq)>> /\ inq' = Tail(inq)
    <2>1. mailbox = <<>>
      BY <1>2, <1>5 DEF Open, KeyInv
    <2>2. <<Head(inq)>> \o Tail(inq) = inq
      <3>1. Len(inq) \in Nat /\ Len(inq) >= 1
        BY <1>1, <1>5, EmptySeq
      <3>2. SubSeq(inq, 1, Len(inq)) = <<inq[1]>> \o SubSeq(inq, 2, Len(inq))
        BY <1>1, <3>1, SubSeqRecursiveFirst
      <3>3. /\ SubSeq(inq, 1, Len(inq)) = inq
            /\ Tail(inq) = SubSeq(inq, 2, Len(inq)) /\ Head(inq) = inq[1]
        BY <1>1, <1>5, SubSeqFull, TailIsSubSeq
      <3>4. QED
        BY <3>2, <3>3
    <2>3. heard \o <<>> \o inq = heard \o <<Head(inq)>> \o Tail(inq)
      <3>1. Head(inq) \in Key /\ Tail(inq) \in Seq(Key) /\ <<Head(inq)>> \in Seq(Key)
        BY <1>1, <1>5, HeadTailProperties
      <3>2. heard \o <<>> = heard
        BY <1>1, ConcatEmptySeq
      <3>3. (heard \o <<Head(inq)>>) \o Tail(inq) = heard \o (<<Head(inq)>> \o Tail(inq))
        BY <1>1, <3>1, ConcatAssociative
      <3>4. QED
        BY <2>2, <3>2, <3>3
    <2>4. typed' = heard' \o mailbox' \o inq'
      BY <1>4, <1>5, <2>1, <2>3 DEF KeyInv, KeysInOrder
    <2>5. u \in CpuState /\ u.trap_flag = k.trap_flag
      <3> HIDE DEF k, e
      <3> QED BY <1>3 DEF CpuState
    <2>6. s'.at = Isr[7] /\ ~s'.IFlag /\ ~s'.TFlag /\ s'.trap_flag = u.trap_flag
      <3>1. s' = PcInterrupt(u, 7)
        BY <1>5 DEF TakeKey
      <3> HIDE DEF u
      <3>2. QED
        BY <2>5, <3>1, PcInterruptIs, CpuAssumption DEF SameLatches
    <2>7. QED
      BY <1>2, <1>3, <2>4, <2>5, <2>6 DEF KeyInv, KeysInOrder, BiosGuest
  <1>6. CASE s' = k /\ UNCHANGED <<mailbox, inq>> /\ Open(t)
    <2>1. mailbox = <<>>
      BY <1>2, <1>6 DEF Open, KeyInv
    <2>2. ~s'.TFlag /\ ~s'.trap_flag
      BY <1>2, <1>3, <1>6 DEF KeyInv
    <2>3. QED
      BY <1>4, <1>6, <2>1, <2>2 DEF KeyInv, KeysInOrder
  <1>7. CASE s' = t /\ UNCHANGED <<mailbox, inq>>
    <2> HIDE DEF t
    <2> QED BY <1>2, <1>4, <1>7 DEF KeyInv, KeysInOrder
  <1>8. QED
    BY <1>5, <1>6, <1>7 DEF Tick

(* Begin: the host's interrupt waits while the handler is shut.            *)
LEMMA KeyBegin ==
  ASSUME BiosGuest, Inv, KeyInv, Begin
  PROVE  KeyInv'
  <1> DEFINE d == PcInterrupt(s, s.int_vector)
             f == [d EXCEPT !.int_pending = FALSE]
             c == Deliver(s)
  <1>1. s \in CpuState /\ s.int_vector \in Vector
    BY DEF Inv, TypeOK, CpuState
  <1>2. d \in CpuState /\ ~d.TFlag /\ d.trap_flag = s.trap_flag
    BY <1>1, PcInterruptIs DEF SameLatches
  <1>3. f \in CpuState /\ ~f.TFlag /\ f.trap_flag = s.trap_flag
    <2> HIDE DEF d
    <2> QED BY <1>2 DEF CpuState
  <1>4. IF s.int_pending /\ Open(s) THEN c = f ELSE c = s
    BY DEF Deliver
  <1> HIDE DEF c, f, d
  <1>5. /\ c \in CpuState /\ ~c.TFlag /\ ~c.trap_flag
        /\ mailbox # <<>> => c.at \in {KbdEntry, KbdRead} /\ ~c.IFlag
    BY <1>1, <1>3, <1>4 DEF KeyInv, Open
  <1>6. /\ ~s'.TFlag /\ ~s'.trap_flag
        /\ mailbox # <<>> => s'.at \in {KbdEntry, KbdRead} /\ ~s'.IFlag
    <2>1. DecPrefix(c).TFlag = c.TFlag /\ DecPrefix(c).trap_flag = c.trap_flag
          /\ DecPrefix(c).at = c.at /\ DecPrefix(c).IFlag = c.IFlag
      BY <1>5 DEF DecPrefix, CpuState
    <2>2. s' = s \/ s' = c \/ s' = DecPrefix(c)
      BY DEF Begin, c
    <2>3. QED
      BY <1>5, <2>1, <2>2 DEF KeyInv
  <1>7. UNCHANGED <<typed, heard, mailbox, inq>>
    BY DEF Begin, Yield, history, ring
  <1>8. QED
    BY <1>6, <1>7 DEF KeyInv, KeysInOrder

(* Every step preserves the mailbox invariant.                             *)
LEMMA KeyStep == BiosGuest /\ Inv /\ KeyInv /\ [Next]_vars => KeyInv'
  <1> SUFFICES ASSUME BiosGuest, Inv, KeyInv, [Next]_vars PROVE KeyInv'
    OBVIOUS
  <1>0. s \in CpuState
    BY DEF Inv, TypeOK
  <1>1. CASE Begin
    BY <1>1, KeyBegin
  <1>2. CASE \E i \in Program(s.at) : Execute(i)
    BY <1>2, KeyExecute
  <1>3. CASE Tick
    BY <1>3, KeyTick
  <1>4. CASE Check \/ Wake
    <2>1. /\ s'.at = s.at /\ s'.IFlag = s.IFlag
          /\ s'.TFlag = s.TFlag /\ s'.trap_flag = s.trap_flag
      BY <1>0, <1>4 DEF Check, Wake, CpuState
    <2>2. UNCHANGED <<typed, heard, mailbox, inq>>
      BY <1>4 DEF Check, Wake, Yield, history, ring
    <2>3. QED
      BY <2>1, <2>2 DEF KeyInv, KeysInOrder
  <1>5. CASE Exhausted \/ Call \/ Drain \/ UNCHANGED vars
    BY <1>5 DEF Exhausted, Call, Drain, Yield, vars, history, ring, KeyInv, KeysInOrder
  <1>6. ASSUME NEW key \in Key, Type(key) PROVE KeyInv'
    <2>1. /\ heard \in Seq(Key) /\ mailbox \in Seq(Key) /\ inq \in Seq(Key)
          /\ heard \o mailbox \in Seq(Key) /\ <<key>> \in Seq(Key)
      BY ConcatProperties DEF Inv, TypeOK
    <2>2. (heard \o mailbox \o inq) \o <<key>> = heard \o mailbox \o (inq \o <<key>>)
      <3> DEFINE hm == heard \o mailbox
      <3>1. hm \in Seq(Key)
        BY <2>1
      <3> HIDE DEF hm
      <3>2. (hm \o inq) \o <<key>> = hm \o (inq \o <<key>>)
        BY <2>1, <3>1, ConcatAssociative
      <3>3. QED
        BY <3>2 DEF hm
    <2>3. /\ Append(inq, key) = inq \o <<key>>
          /\ Append(heard \o mailbox \o inq, key) = (heard \o mailbox \o inq) \o <<key>>
      <3>1. heard \o mailbox \o inq \in Seq(Key)
        BY <2>1, ConcatProperties
      <3>2. QED
        BY <2>1, <3>1, AppendIsConcat
    <2>4. QED
      BY <1>6, <2>2, <2>3 DEF Type, KeyInv, KeysInOrder
  <1>7. QED
    BY <1>1, <1>2, <1>3, <1>4, <1>5, <1>6 DEF Next, Run, Host

(* No accepted key is lost, repeated or reordered on its way to the guest, *)
(* for every program that does not single-step and every ring size: the    *)
(* one-byte mailbox is always empty when the next key arrives.             *)
THEOREM KeysKept == ASSUME BiosGuest PROVE Spec => []KeysInOrder
  <1>1. Init => KeyInv
    BY KeyInit
  <1>2. Inv /\ KeyInv /\ [Next]_vars => KeyInv'
    BY KeyStep
  <1>3. KeyInv => KeysInOrder
    BY DEF KeyInv
  <1>4. QED
    BY <1>1, <1>2, <1>3, RunInvariant, PTL DEF Spec

-----------------------------------------------------------------------------
(* EntryPoints: what holds of emu86_run alone also holds when a debugger   *)
(* single-steps between its calls, and a single step executes under the    *)
(* prefixes written before it.                                             *)

\* the prefixes p are those the countdowns of c hand to the next instruction
Waiting(c, p) ==
  /\ p.seg = IF c.seg_override_en = 2 THEN c.seg_override ELSE None
  /\ p.rep = IF c.rep_override_en = 2 THEN c.rep_mode ELSE None

\* ... and to the instruction about to execute
InForce(c, p) ==
  /\ c.seg_override_en \in 0..1 /\ c.rep_override_en \in 0..1
  /\ SegUsed(c) = p.seg /\ RepUsed(c) = p.rep

Prefixes == [seg : SegReg \cup {None}, rep : RepMode \cup {None}]

(* Counting down puts the waiting prefixes in force.                       *)
LEMMA CountDownScopes ==
  ASSUME NEW c \in CpuState, NEW p \in Prefixes, Waiting(c, p)
  PROVE  DecPrefix(c) \in CpuState /\ DecPrefix(c).at = c.at /\ InForce(DecPrefix(c), p)
  <1> DEFINE d == DecPrefix(c)
  <1>1. /\ d \in CpuState
        /\ d.seg_override_en = Dec(c.seg_override_en) /\ d.seg_override = c.seg_override
        /\ d.rep_override_en = Dec(c.rep_override_en) /\ d.rep_mode = c.rep_mode
        /\ d.seg_override_en \in 0..1 /\ d.rep_override_en \in 0..1
    BY DecPrefixIs
  <1>2. d.at = c.at
    BY DEF DecPrefix, CpuState
  <1>3. c.seg_override_en \in 0..2 /\ c.rep_override_en \in 0..2
    BY DEF CpuState
  <1> HIDE DEF d
  <1>4. /\ (d.seg_override_en > 0) <=> (c.seg_override_en = 2)
        /\ (d.rep_override_en > 0) <=> (c.rep_override_en = 2)
    BY <1>1, <1>3 DEF Dec
  <1>5. SegUsed(d) = p.seg /\ RepUsed(d) = p.rep
    BY <1>1, <1>4 DEF SegUsed, RepUsed, Waiting
  <1>6. QED
    BY <1>1, <1>2, <1>5 DEF InForce, d

(* An instruction, and the trap after it, leave waiting what the code says *)
(* is waiting: a prefix carries the other one on, the rest leave neither.  *)
LEMMA InstructionScopes ==
  ASSUME NEW c \in CpuState, prefix \in Prefixes, InForce(c, prefix),
         NEW i \in Program(c.at), prefix' = PrefixAfter(i)
  PROVE  /\ Trap(Exec(c, i)) \in CpuState
         /\ prefix' \in Prefixes
         /\ Waiting(Trap(Exec(c, i)), prefix')
  <1> DEFINE e == Exec(c, i)
             t == Trap(e)
  <1>1. /\ e \in CpuState
        /\ i.op = "seg" =>
             /\ e.seg_override_en = 2 /\ e.seg_override = i.sreg
             /\ e.rep_override_en = Bump(c.rep_override_en) /\ e.rep_mode = c.rep_mode
        /\ i.op = "rep" =>
             /\ e.rep_override_en = 2 /\ e.rep_mode = i.mode
             /\ e.seg_override_en = Bump(c.seg_override_en)
             /\ e.seg_override = c.seg_override
        /\ i.op \notin {"seg", "rep"} =>
             e.seg_override_en \in 0..1 /\ e.rep_override_en \in 0..1
    <2>1. WellFormed(i)
      BY ProgramIs DEF CpuState
    <2>2. QED
      BY <2>1, ExecIs DEF InForce
  <1> HIDE DEF e
  <1>2. t \in CpuState /\ SamePrefix(e, t)
    BY <1>1, TrapIs
  <1> HIDE DEF t
  <1>3. /\ i.op = "seg" => i.sreg \in SegReg
        /\ i.op = "rep" => i.mode \in RepMode
    BY ProgramIs DEF CpuState, WellFormed
  <1>4. prefix' = CASE i.op = "seg" -> [prefix EXCEPT !.seg = i.sreg]
                    [] i.op = "rep" -> [prefix EXCEPT !.rep = i.mode]
                    [] OTHER        -> NoPrefix
    BY DEF PrefixAfter
  <1>5. prefix' \in Prefixes
    BY <1>3, <1>4 DEF NoPrefix, Prefixes
  <1>6. CASE i.op = "seg"
    <2>1. prefix'.seg = i.sreg /\ prefix'.rep = prefix.rep
      BY <1>4, <1>6 DEF Prefixes
    <2>2. t.seg_override_en = 2 /\ t.seg_override = i.sreg
      BY <1>1, <1>2, <1>6 DEF SamePrefix
    <2>3. t.rep_override_en = Bump(c.rep_override_en) /\ t.rep_mode = c.rep_mode
      BY <1>1, <1>2, <1>6 DEF SamePrefix
    <2>4. prefix.rep = IF t.rep_override_en = 2 THEN t.rep_mode ELSE None
      BY <2>3 DEF InForce, Bump, RepUsed
    <2>5. QED
      BY <1>2, <1>5, <2>1, <2>2, <2>4 DEF Waiting, t, e
  <1>7. CASE i.op = "rep"
    <2>1. prefix'.rep = i.mode /\ prefix'.seg = prefix.seg
      BY <1>4, <1>7 DEF Prefixes
    <2>2. t.rep_override_en = 2 /\ t.rep_mode = i.mode
      BY <1>1, <1>2, <1>7 DEF SamePrefix
    <2>3. t.seg_override_en = Bump(c.seg_override_en) /\ t.seg_override = c.seg_override
      BY <1>1, <1>2, <1>7 DEF SamePrefix
    <2>4. prefix.seg = IF t.seg_override_en = 2 THEN t.seg_override ELSE None
      BY <2>3 DEF InForce, Bump, SegUsed
    <2>5. QED
      BY <1>2, <1>5, <2>1, <2>2, <2>4 DEF Waiting, t, e
  <1>8. CASE i.op \notin {"seg", "rep"}
    <2>1. prefix'.seg = None /\ prefix'.rep = None
      BY <1>4, <1>8 DEF NoPrefix
    <2>2. t.seg_override_en \in 0..1 /\ t.rep_override_en \in 0..1
      BY <1>1, <1>2, <1>8 DEF SamePrefix
    <2>3. QED
      BY <1>2, <1>5, <2>1, <2>2 DEF Waiting, t, e
  <1>9. QED
    BY <1>6, <1>7, <1>8

(* A PUTCHAR at or below the mark finds room, and the mailbox hands its key *)
(* on whole.                                                                *)
LEMMA EffectsTyped ==
  ASSUME TypeOK, NoOutputLost, out <= Mark, NEW i, Effects(i)
  PROVE  /\ out' \in 0..(OutSize - 1) /\ dropped' \in BOOLEAN /\ ~dropped'
         /\ heard' \in Seq(Key) /\ mailbox' \in Seq(Key) /\ Len(mailbox') <= 1
  <1>1. out < OutSize - 1 /\ out \in Nat
    BY MarkIs, RunAssumption DEF TypeOK
  <1>2. out' \in 0..(OutSize - 1) /\ dropped' \in BOOLEAN /\ ~dropped'
    BY <1>1, RunAssumption DEF Effects, TypeOK, NoOutputLost
  <1>3. heard \in Seq(Key) /\ mailbox \in Seq(Key) /\ Len(mailbox) <= 1
    BY DEF TypeOK
  <1>4. heard \o mailbox \in Seq(Key)
    BY <1>3, ConcatProperties
  <1>5. <<>> \in Seq(Key) /\ Len(<<>>) = 0
    OBVIOUS
  <1>6. CASE i.op = "getkey"
    <2>1. heard' = heard \o mailbox /\ mailbox' = <<>>
      BY <1>6 DEF Effects
    <2>2. QED
      BY <1>2, <1>4, <1>5, <2>1
  <1>7. CASE i.op # "getkey"
    <2>1. heard' = heard /\ mailbox' = mailbox
      BY <1>7 DEF Effects
    <2>2. QED
      BY <1>2, <1>3, <2>1
  <1>8. QED
    BY <1>6, <1>7

(* A single step preserves the run loop's invariant, and executes under the *)
(* prefixes written before it.                                              *)
LEMMA StepSingleInv ==
  ASSUME Inv, NEW i \in Program(s.at), StepSingle(i)
  PROVE  Inv' /\ scope'.execute
  <1> DEFINE d == DecPrefix(s)
             t == Trap(Exec(d, i))
  <1>1. phase = "host" /\ out <= Mark /\ Effects(i)
    BY DEF StepSingle
  <1>2. s \in CpuState /\ prefix \in Prefixes /\ Waiting(s, prefix)
    BY <1>1 DEF Inv, TypeOK, PrefixInv, Prefixes, Waiting
  <1>3. d \in CpuState /\ d.at = s.at /\ InForce(d, prefix)
    BY <1>2, CountDownScopes
  <1>4. s' = [t EXCEPT !.pushed = <<>>]
    BY DEF StepSingle
  <1>5. scope' = [decode |-> SegUsed(s) = prefix.seg,
                  execute |-> SegUsed(d) = prefix.seg /\ RepUsed(d) = prefix.rep]
    BY DEF StepSingle
  <1>6. UNCHANGED <<phase, cycles, reason, inq, typed>>
    BY DEF StepSingle
  <1> HIDE DEF d
  <1>7. prefix' = PrefixAfter(i)
    BY <1>1 DEF Effects
  <1>8. t \in CpuState /\ prefix' \in Prefixes /\ Waiting(t, prefix')
    BY <1>2, <1>3, <1>7, InstructionScopes
  <1> HIDE DEF t
  <1>9. s' \in CpuState /\ Waiting(s', prefix')
    <2>1. <<>> \in Seq(Frame)
      OBVIOUS
    <2>2. QED
      BY <1>4, <1>8, <2>1 DEF CpuState, Waiting
  <1>10. /\ out' \in 0..(OutSize - 1) /\ dropped' \in BOOLEAN /\ ~dropped'
         /\ heard' \in Seq(Key) /\ mailbox' \in Seq(Key) /\ Len(mailbox') <= 1
    BY <1>1, EffectsTyped DEF Inv
  <1>11. TypeOK'
    BY <1>6, <1>8, <1>9, <1>10 DEF Inv, TypeOK, Prefixes
  <1>12. PrefixInv' /\ RoomInv'
    BY <1>1, <1>6, <1>9 DEF PrefixInv, RoomInv, Waiting
  <1>13. scope'.execute
    BY <1>3, <1>5 DEF InForce
  <1>14. QED
    BY <1>10, <1>11, <1>12, <1>13 DEF Inv, NoOutputLost

(* Both entry points preserve the invariant.                               *)
LEMMA BothStep ==
  Inv /\ StringInScope /\ [BothNext]_bothVars => Inv' /\ StringInScope'
  <1> SUFFICES ASSUME Inv, StringInScope, [BothNext]_bothVars
               PROVE  Inv' /\ StringInScope'
    OBVIOUS
  <1>1. CASE Next /\ UNCHANGED scope
    BY <1>1, RunStep DEF StringInScope
  <1>2. ASSUME NEW i \in Program(s.at), StepSingle(i) PROVE Inv' /\ StringInScope'
    BY <1>2, StepSingleInv DEF StringInScope
  <1>3. CASE UNCHANGED bothVars
    BY <1>3, RunStep DEF bothVars, StringInScope
  <1>4. QED
    BY <1>1, <1>2, <1>3 DEF BothNext

(* The invariant behind the run loop's theorems holds on through single    *)
(* steps, and what a single step executes - a string instruction reads the *)
(* overrides itself - is under the prefixes written before it and no       *)
(* others, through whichever entry point these came (string.h,             *)
(* string_src_seg and exec_string_op).                                     *)
THEOREM BothInvariant == BothSpec => []Inv /\ []StringInScope
  <1>1. BothInit => Inv /\ StringInScope
    BY RunInit DEF BothInit, StringInScope
  <1>2. QED
    BY <1>1, BothStep, PTL DEF BothSpec

(* The control state keeps its types in both entry points: countdowns of at *)
(* most 2, a frame pushed only for an interrupt, never more output than the *)
(* ring holds (state.h, run.c).                                             *)
THEOREM BothTyped == BothSpec => []TypeOK
  <1>1. Inv => TypeOK
    BY DEF Inv
  <1>2. QED
    BY <1>1, BothInvariant, PTL

(* Prefixes act on one instruction in emu86_run also when single steps come *)
(* between its calls.                                                       *)
THEOREM PrefixesScopedInBoth == BothSpec => []PrefixScope
  <1>1. Inv => PrefixScope
    BY DEF Inv, PrefixInv, PrefixScope
  <1>2. QED
    BY <1>1, BothInvariant, PTL

(* No character is lost to single steps either.                            *)
THEOREM OutputKeptInBoth == BothSpec => []NoOutputLost
  <1>1. Inv => NoOutputLost
    BY DEF Inv
  <1>2. QED
    BY <1>1, BothInvariant, PTL

-----------------------------------------------------------------------------
(* LinuxHost keeps to the contract EmuRun states for a host, so that what  *)
(* is shown above of every host holds of the real program.                 *)

\* the emulator leaves the history of accepted keys alone
LEMMA RunKeepsTyped == Run => typed' = typed
  BY DEF Run, Exhausted, Begin, Execute, Tick, Check, Yield, history

(* The process starts in the host's invariant.                             *)
LEMMA HostInit == LInit => Inv /\ HostInv
  <1> SUFFICES ASSUME LInit PROVE Inv /\ HostInv
    OBVIOUS
  <1>1. Inv
    BY RunInit DEF LInit
  <1>2. MaxKeys \in Nat /\ <<>> \in Seq(Key) /\ Len(<<>>) = 0
    BY RunAssumption
  <1>3. HostInv
    BY <1>2 DEF LInit, Init, HostInv, HostPc
  <1>4. QED
    BY <1>1, <1>3

(* A step of the process, of the user or of the signal handler is a step   *)
(* the contract allows, or changes nothing emu86_run can see.              *)
LEMMA HostStepAllowed == Inv /\ HostInv /\ [LNext]_lvars => [Next]_vars
  <1> SUFFICES ASSUME Inv, HostInv, [LNext]_lvars PROVE [Next]_vars
    OBVIOUS
  <1>1. CASE Loop
    <2>1. Mark \in Nat
      BY MarkIs
    <2>2. running => Call
      BY <1>1, <2>1 DEF Loop, Call, HostInv
    <2>3. ~running => UNCHANGED vars
      BY <1>1 DEF Loop
    <2>4. QED
      BY <2>2, <2>3 DEF Next, Host
  <1>2. CASE Emulate
    BY <1>2 DEF Emulate, Next
  <1>3. CASE Dispatch
    BY <1>3 DEF Dispatch
  <1>4. CASE Flush
    <2>1. out > 0 => Drain
      BY <1>4 DEF Flush, Drain, history
    <2>2. ~(out > 0) => UNCHANGED vars
      BY <1>4 DEF Flush
    <2>3. QED
      BY <2>1, <2>2 DEF Next, Host
  <1>5. CASE Service
    <2>1. CASE stdin # <<>> /\ Len(inq) < InSize - 1
      <3> DEFINE k == Head(stdin)
      <3>1. k \in Key /\ Len(stdin) \in Nat /\ Len(stdin) >= 1
        BY <2>1, HeadTailProperties, EmptySeq, LenProperties DEF HostInv
      <3>2. Len(typed) < MaxKeys
        <4>1. typed \in Seq(Key) /\ Len(typed) \in Nat
          BY LenProperties DEF Inv, TypeOK
        <4>2. QED
          BY <3>1, <4>1, RunAssumption DEF HostInv
      <3>3. Type(k)
        BY <1>5, <2>1, <3>2 DEF Service, Type
      <3>4. QED
        BY <3>1, <3>3 DEF Next, Host
    <2>2. CASE ~(stdin # <<>> /\ Len(inq) < InSize - 1)
      BY <1>5, <2>2 DEF Service, vars, ring, history
    <2>3. QED
      BY <2>1, <2>2
  <1>6. CASE Select
    BY <1>6 DEF Select
  <1>7. CASE WakeCpu
    <2>1. Wake
      BY <1>7 DEF WakeCpu, Wake, HostInv
    <2>2. QED
      BY <2>1 DEF Next, Host
  <1>8. CASE \E k \in Key : Press(k)
    BY <1>8 DEF Press
  <1>9. CASE Signal
    BY <1>9 DEF Signal
  <1>10. CASE UNCHANGED lvars
    BY <1>10 DEF lvars
  <1>11. QED
    BY <1>1, <1>2, <1>3, <1>4, <1>5, <1>6, <1>7, <1>8, <1>9, <1>10
       DEF LNext, Process

(* Every step of the program preserves the host's invariant.               *)
LEMMA HostStep == Inv /\ HostInv /\ [LNext]_lvars => HostInv'
  <1> SUFFICES ASSUME Inv, HostInv, [LNext]_lvars PROVE HostInv'
    OBVIOUS
  <1>0. out \in Nat /\ out' \in Nat /\ Len(typed) \in Nat /\ Len(stdin) \in Nat
    <2>1. Inv'
      BY HostStepAllowed, RunStep
    <2>2. QED
      BY <2>1, RunAssumption, LenProperties DEF Inv, TypeOK, HostInv
  <1>1. CASE Loop
    BY <1>1 DEF Loop, HostInv, HostPc, ring, history, vars
  <1>2. CASE Emulate
    BY <1>2, RunKeepsTyped DEF Emulate, HostInv, hvars
  <1>3. CASE Dispatch
    BY <1>3 DEF Dispatch, HostInv, HostPc, ring, history, vars
  <1>4. CASE Flush
    <2>1. CASE out > 0
      BY <1>4, <2>1 DEF Flush, HostInv, history
    <2>2. CASE ~(out > 0)
      <3>1. out = 0 /\ out' = 0
        BY <1>0, <1>4, <2>2 DEF Flush, vars, ring
      <3>2. hpc' \in {"keys", "select", "loop", "done"}
        BY <1>4, <2>2 DEF Flush, AfterFlush
      <3>3. QED
        BY <1>4, <2>2, <3>1, <3>2 DEF Flush, HostInv, HostPc, vars, history
    <2>3. QED
      BY <2>1, <2>2
  <1>5. CASE Service
    <2>1. CASE stdin # <<>>
      <3>1. /\ Tail(stdin) \in Seq(Key)
            /\ Len(Tail(stdin)) = Len(stdin) - 1
        BY <2>1, HeadTailProperties, EmptySeq DEF HostInv
      <3>2. Len(typed') \in {Len(typed), Len(typed) + 1}
        <4>1. typed' \in {typed, Append(typed, Head(stdin))}
          BY <1>5, <2>1 DEF Service
        <4>2. typed \in Seq(Key) /\ Head(stdin) \in Key
          BY <2>1, HeadTailProperties, EmptySeq DEF Inv, TypeOK, HostInv
        <4>3. Len(Append(typed, Head(stdin))) = Len(typed) + 1
          BY <4>2, AppendProperties
        <4>4. QED
          BY <4>1, <4>3
      <3>3. Len(typed') + Len(stdin') <= pressed
        <4>1. stdin' = Tail(stdin) /\ pressed \in Nat
          BY <1>5, <2>1, RunAssumption DEF Service, HostInv
        <4>2. Len(typed) + Len(stdin) <= pressed
          BY DEF HostInv
        <4>3. QED
          BY <1>0, <3>1, <3>2, <4>1, <4>2
      <3>4. QED
        BY <1>5, <2>1, <3>1, <3>3 DEF Service, HostInv
    <2>2. CASE stdin = <<>>
      BY <1>5, <2>2 DEF Service, HostInv, HostPc
    <2>3. QED
      BY <2>1, <2>2
  <1>6. CASE Select
    BY <1>6 DEF Select, HostInv, HostPc, ring, history, vars
  <1>7. CASE WakeCpu
    BY <1>7 DEF WakeCpu, HostInv, HostPc, ring, history
  <1>8. CASE \E k \in Key : Press(k)
    <2>1. PICK k \in Key : Press(k)
      BY <1>8
    <2>2. /\ Append(stdin, k) \in Seq(Key)
          /\ Len(Append(stdin, k)) = Len(stdin) + 1
      BY AppendProperties DEF HostInv
    <2>3. /\ stdin' = Append(stdin, k)
          /\ pressed' = pressed + 1 /\ pressed' \in 0..MaxKeys
          /\ UNCHANGED <<vars, hpc, running>>
      BY <2>1, RunAssumption DEF Press, HostInv
    <2>4. Len(typed') + Len(stdin') <= pressed'
      <3>1. typed' = typed /\ pressed \in Nat /\ Len(typed) + Len(stdin) <= pressed
        BY <2>3, RunAssumption DEF HostInv, vars, history
      <3>2. QED
        BY <1>0, <2>2, <2>3, <3>1
    <2>5. QED
      BY <2>2, <2>3, <2>4 DEF HostInv, vars, ring
  <1>9. CASE Signal
    BY <1>9 DEF Signal, HostInv, ring, history, vars
  <1>10. CASE UNCHANGED lvars
    BY <1>10 DEF lvars, hvars, vars, ring, history, HostInv
  <1>11. QED
    BY <1>1, <1>2, <1>3, <1>4, <1>5, <1>6, <1>7, <1>8, <1>9, <1>10
       DEF LNext, Process

(* Both invariants hold of the running program.                            *)
THEOREM HostInvariant == LSpec => [](Inv /\ HostInv)
  <1>1. Inv /\ HostInv /\ [LNext]_lvars => (Inv /\ HostInv)'
    BY HostStep, HostStepAllowed, RunStep
  <1>2. QED
    BY <1>1, HostInit, PTL DEF LSpec

(* The main loop of main.c calls emu86_run only as the yield protocol      *)
(* allows: with console_out drained, waking it only between two calls, and *)
(* typing only into a ring with room.                                      *)
THEOREM LinuxKeepsContract == LSpec => HostContract
  <1>1. LInit => Init
    BY DEF LInit
  <1>2. Inv /\ HostInv /\ [LNext]_lvars => [Next]_vars
    BY HostStepAllowed
  <1>3. QED
    BY <1>1, <1>2, HostInvariant, PTL DEF LSpec, HostContract, Spec

(* No character is left in console_out when the program has ended.         *)
THEOREM LinuxFlushes == LSpec => []FlushedAtEnd
  <1>1. HostInv => FlushedAtEnd
    BY DEF HostInv, FlushedAtEnd
  <1>2. QED
    BY <1>1, HostInvariant, PTL

(* Under the Linux host no character the guest prints is lost.             *)
THEOREM LinuxLosesNoOutput == LSpec => []NoOutputLost
  <1>1. QED
    BY LinuxKeepsContract, OutputKept, PTL DEF HostContract
=============================================================================
