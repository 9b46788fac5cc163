------------------------------ MODULE CpuProofs ------------------------------
(***************************************************************************)
(* Lemmas on the operators of Cpu: what each step of the run loop leaves   *)
(* of the processor's state, for every state and instruction.              *)
(***************************************************************************)
EXTENDS Cpu, SequenceTheorems, TLAPS

\* the fields an interrupt leaves alone
SameLatches(c, d) ==
  /\ d.halted = c.halted /\ d.trap_flag = c.trap_flag
  /\ d.int_pending = c.int_pending /\ d.int_vector = c.int_vector
  /\ d.int8_asap = c.int8_asap /\ d.inst_count = c.inst_count

SamePrefix(c, d) ==
  /\ d.seg_override_en = c.seg_override_en /\ d.seg_override = c.seg_override
  /\ d.rep_override_en = c.rep_override_en /\ d.rep_mode = c.rep_mode

(* Entering a handler shuts interrupts, goes to the table's entry, and     *)
(* leaves latches, countdowns and counters alone.                          *)
LEMMA PcInterruptIs ==
  ASSUME NEW c \in CpuState, NEW v \in Vector
  PROVE  /\ PcInterrupt(c, v) \in CpuState
         /\ PcInterrupt(c, v).at = Isr[v]
         /\ ~PcInterrupt(c, v).IFlag /\ ~PcInterrupt(c, v).TFlag
         /\ SameLatches(c, PcInterrupt(c, v)) /\ SamePrefix(c, PcInterrupt(c, v))
  <1> DEFINE f == [at |-> c.at, IFlag |-> c.IFlag, TFlag |-> c.TFlag]
  <1>1. f \in Frame /\ c.pushed \in Seq(Frame)
    BY DEF CpuState, Frame
  <1>2. Append(c.pushed, f) \in Seq(Frame)
    BY <1>1, AppendProperties
  <1>3. Isr[v] \in Loc
    BY CpuAssumption
  <1> DEFINE q == Append(c.pushed, f)
  <1>4. PcInterrupt(c, v) = [c EXCEPT !.pushed = q, !.at = Isr[v], !.IFlag = FALSE, !.TFlag = FALSE]
    BY DEF PcInterrupt
  <1> HIDE DEF q
  <1>5. PcInterrupt(c, v) \in CpuState
    BY <1>2, <1>3, <1>4 DEF CpuState, q
  <1>6. QED
    BY <1>4, <1>5 DEF CpuState, SameLatches, SamePrefix

(* Delivering the host's interrupt leaves the countdowns alone.            *)
LEMMA DeliverIs ==
  ASSUME NEW c \in CpuState
  PROVE  /\ Deliver(c) \in CpuState
         /\ SamePrefix(c, Deliver(c))
  <1> DEFINE d == PcInterrupt(c, c.int_vector)
  <1>1. d \in CpuState /\ SamePrefix(c, d)
    BY PcInterruptIs DEF CpuState
  <1>2. [d EXCEPT !.int_pending = FALSE] \in CpuState /\ SamePrefix(c, [d EXCEPT !.int_pending = FALSE])
    <2> HIDE DEF d
    <2> QED BY <1>1 DEF CpuState, SamePrefix
  <1>3. Deliver(c) = c \/ Deliver(c) = [d EXCEPT !.int_pending = FALSE]
    BY DEF Deliver
  <1>4. QED
    BY <1>2, <1>3 DEF SamePrefix

(* The countdowns go down by one, and nothing else changes.                *)
LEMMA DecPrefixIs ==
  ASSUME NEW c \in CpuState
  PROVE  /\ DecPrefix(c) \in CpuState
         /\ DecPrefix(c).seg_override_en = Dec(c.seg_override_en)
         /\ DecPrefix(c).rep_override_en = Dec(c.rep_override_en)
         /\ DecPrefix(c).seg_override = c.seg_override /\ DecPrefix(c).rep_mode = c.rep_mode
         /\ DecPrefix(c).seg_override_en \in 0..1 /\ DecPrefix(c).rep_override_en \in 0..1
         /\ DecPrefix(c).pushed = c.pushed
  <1>1. /\ Dec(c.seg_override_en) \in 0..1 /\ Dec(c.rep_override_en) \in 0..1
        /\ 0..1 \subseteq 0..2
    BY DEF CpuState, Dec
  <1>2. QED
    BY <1>1 DEF CpuState, DecPrefix

(* The trap leaves the countdowns alone.                                   *)
LEMMA TrapIs ==
  ASSUME NEW c \in CpuState
  PROVE  Trap(c) \in CpuState /\ SamePrefix(c, Trap(c))
  <1> DEFINE d == PcInterrupt(c, 1)
             t == IF c.trap_flag THEN [d EXCEPT !.trap_flag = FALSE] ELSE c
  <1>1. d \in CpuState /\ SamePrefix(c, d)
    BY PcInterruptIs, CpuAssumption
  <1>2. t \in CpuState /\ SamePrefix(c, t)
    <2> HIDE DEF d
    <2> QED BY <1>1 DEF CpuState, SamePrefix
  <1>3. Trap(c) = IF t.TFlag THEN [t EXCEPT !.trap_flag = TRUE] ELSE t
    BY DEF Trap
  <1>4. QED
    <2> HIDE DEF t
    <2> QED BY <1>2, <1>3 DEF CpuState, SamePrefix

(* So does a tick falling due,                                             *)
LEMMA TickDueIs ==
  ASSUME NEW c \in CpuState
  PROVE  TickDue(c) \in CpuState /\ SamePrefix(c, TickDue(c))
  BY DEF CpuState, TickDue, SamePrefix

(* being taken,                                                            *)
LEMMA TakeTickIs ==
  ASSUME NEW c \in CpuState
  PROVE  TakeTick(c) \in CpuState /\ SamePrefix(c, TakeTick(c))
  <1> DEFINE d == PcInterrupt(c, 10)
  <1>1. d \in CpuState /\ SamePrefix(c, d)
    BY PcInterruptIs, CpuAssumption
  <1>2. TakeTick(c) = [d EXCEPT !.int8_asap = FALSE]
    BY DEF TakeTick
  <1>3. QED
    <2> HIDE DEF d
    <2> QED BY <1>1, <1>2 DEF CpuState, SamePrefix

(* and being followed by a key.                                            *)
LEMMA TakeKeyIs ==
  ASSUME NEW c \in CpuState, NEW escape \in BOOLEAN
  PROVE  TakeKey(c, escape) \in CpuState /\ SamePrefix(c, TakeKey(c, escape))
  <1> DEFINE d == IF escape THEN [c EXCEPT !.int8_asap = TRUE] ELSE c
  <1>1. d \in CpuState /\ SamePrefix(c, d)
    BY DEF CpuState, SamePrefix
  <1>2. TakeKey(c, escape) = PcInterrupt(d, 7)
    BY DEF TakeKey
  <1>3. QED
    <2> HIDE DEF d
    <2>1. PcInterrupt(d, 7) \in CpuState /\ SamePrefix(d, PcInterrupt(d, 7))
      BY <1>1, PcInterruptIs, CpuAssumption
    <2>2. QED
      BY <1>1, <1>2, <2>1 DEF SamePrefix

\* an instruction, as far as Exec looks at it
WellFormed(i) ==
  /\ i.to \in Loc
  /\ i.op = "seg" => i.sreg \in SegReg
  /\ i.op = "rep" => i.mode \in RepMode
  /\ i.op = "flags" => i.IFlag \in BOOLEAN /\ i.TFlag \in BOOLEAN
  /\ i.op = "int" => i.vec \in Vector

(* What an instruction does to the countdowns it finds at 0 or 1.          *)
LEMMA ExecIs ==
  ASSUME NEW c \in CpuState, c.seg_override_en \in 0..1, c.rep_override_en \in 0..1,
         NEW i, WellFormed(i)
  PROVE  LET e == Exec(c, i)
         IN  /\ e \in CpuState
             /\ i.op = "seg" =>
                  /\ e.seg_override_en = 2 /\ e.seg_override = i.sreg
                  /\ e.rep_override_en = Bump(c.rep_override_en) /\ e.rep_mode = c.rep_mode
             /\ i.op = "rep" =>
                  /\ e.rep_override_en = 2 /\ e.rep_mode = i.mode
                  /\ e.seg_override_en = Bump(c.seg_override_en)
                  /\ e.seg_override = c.seg_override
             /\ i.op \notin {"seg", "rep"} =>
                  e.seg_override_en \in 0..1 /\ e.rep_override_en \in 0..1
  <1> DEFINE n == (c.inst_count + 1) % Period
             t == [c EXCEPT !.at = i.to, !.inst_count = n]
             e == Exec(c, i)
  <1>1. c.at \in Loc /\ c.inst_count \in 0..(Period - 1)
    BY DEF CpuState
  <1>2. n \in 0..(Period - 1)
    BY <1>1, CpuAssumption
  <1>3. i.to \in Loc
    BY DEF WellFormed
  <1>4. t \in CpuState /\ SamePrefix(c, t)
    <2> HIDE DEF n
    <2> QED BY <1>2, <1>3 DEF CpuState, SamePrefix
  <1>5. e = CASE i.op = "seg" ->
                   [t EXCEPT !.seg_override_en = 2, !.seg_override = i.sreg,
                             !.rep_override_en = Bump(@)]
              [] i.op = "rep" ->
                   [t EXCEPT !.rep_override_en = 2, !.rep_mode = i.mode,
                             !.seg_override_en = Bump(@)]
              [] i.op = "lea"   -> [t EXCEPT !.seg_override_en = 1]
              [] i.op = "hlt"   -> [t EXCEPT !.halted = TRUE]
              [] i.op = "flags" -> [t EXCEPT !.IFlag = i.IFlag, !.TFlag = i.TFlag]
              [] i.op = "int"   -> PcInterrupt(t, i.vec)
              [] OTHER          -> t
    BY DEF Exec
  <1>6. /\ i.op = "seg" => i.sreg \in SegReg
        /\ i.op = "rep" => i.mode \in RepMode
        /\ i.op = "flags" => i.IFlag \in BOOLEAN /\ i.TFlag \in BOOLEAN
        /\ i.op = "int" => i.vec \in Vector
    BY DEF WellFormed
  <1>7. /\ Bump(c.seg_override_en) \in 0..2 /\ Bump(c.rep_override_en) \in 0..2
        /\ 1 \in 0..2 /\ 2 \in 0..2
    BY DEF Bump
  <1> HIDE DEF t, e, n
  <1>8. CASE i.op = "seg"
    <2>1. e = [t EXCEPT !.seg_override_en = 2, !.seg_override = i.sreg,
                        !.rep_override_en = Bump(c.rep_override_en)]
      BY <1>4, <1>5, <1>8 DEF SamePrefix
    <2>2. e \in CpuState
      BY <1>4, <1>6, <1>7, <1>8, <2>1 DEF CpuState
    <2>3. /\ e.seg_override_en = 2 /\ e.seg_override = i.sreg
          /\ e.rep_override_en = Bump(c.rep_override_en) /\ e.rep_mode = c.rep_mode
      BY <1>4, <2>1 DEF CpuState, SamePrefix
    <2>4. QED
      BY <1>8, <2>2, <2>3 DEF e
  <1>9. CASE i.op = "rep"
    <2>1. e = [t EXCEPT !.rep_override_en = 2, !.rep_mode = i.mode,
                        !.seg_override_en = Bump(c.seg_override_en)]
      BY <1>4, <1>5, <1>9 DEF SamePrefix
    <2>2. e \in CpuState
      BY <1>4, <1>6, <1>7, <1>9, <2>1 DEF CpuState
    <2>3. /\ e.rep_override_en = 2 /\ e.rep_mode = i.mode
          /\ e.seg_override_en = Bump(c.seg_override_en) /\ e.seg_override = c.seg_override
      BY <1>4, <2>1 DEF CpuState, SamePrefix
    <2>4. QED
      BY <1>9, <2>2, <2>3 DEF e
  <1>10. CASE i.op = "lea"
    BY <1>4, <1>5, <1>7, <1>10 DEF CpuState, SamePrefix, e
  <1>11. CASE i.op = "hlt"
    BY <1>4, <1>5, <1>11 DEF CpuState, SamePrefix, e
  <1>12. CASE i.op = "flags"
    BY <1>4, <1>5, <1>6, <1>12 DEF CpuState, SamePrefix, e
  <1>13. CASE i.op = "int"
    BY <1>4, <1>5, <1>6, <1>13, PcInterruptIs DEF SamePrefix, e
  <1>14. CASE i.op \notin {"seg", "rep", "lea", "hlt", "flags", "int"}
    BY <1>4, <1>5, <1>14 DEF SamePrefix, e
  <1>15. QED
    BY <1>8, <1>9, <1>10, <1>11, <1>12, <1>13, <1>14 DEF e
=============================================================================
