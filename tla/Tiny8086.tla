------------------------------ MODULE Tiny8086 ------------------------------
(***************************************************************************)
(* One iteration of the reference emulator's loop (8086tiny.c), on the     *)
(* same state as Cpu: what the harness compares emu86_run with.  The       *)
(* reference polls the timer before the trap, takes a tick only with TF    *)
(* clear, knows no HLT, lets LEA borrow the segment override, and counts   *)
(* instructions in a C unsigned int.                                       *)
(***************************************************************************)
EXTENDS Cpu

CONSTANT Wrap   \* 2^32, the range of inst_counter

ASSUME WrapAssumption == Wrap \in Nat /\ Wrap > Period

\* the interrupt of 8086tiny.c; INT n by an instruction runs it as well
RefInterrupt(c, v) ==
  [c EXCEPT !.pushed = Append(@, [at |-> c.at, IFlag |-> c.IFlag, TFlag |-> c.TFlag]),
            !.at = Isr[v], !.IFlag = FALSE, !.TFlag = FALSE]

\* lines 322-325
RefDecrement(c) ==
  [c EXCEPT !.seg_override_en = IF @ # 0 THEN @ - 1 ELSE @,
            !.rep_override_en = IF @ # 0 THEN @ - 1 ELSE @]

\* the switch; seg_override None is REG_ZERO
RefSwitch(c, i) ==
  LET t == [c EXCEPT !.at = i.to]
  IN  CASE i.op = "rep" ->
             [t EXCEPT !.rep_override_en = 2, !.rep_mode = i.mode,
                       !.seg_override_en = IF @ # 0 THEN @ + 1 ELSE @]
        [] i.op = "seg" ->
             [t EXCEPT !.seg_override_en = 2, !.seg_override = i.sreg,
                       !.rep_override_en = IF @ # 0 THEN @ + 1 ELSE @]
        [] i.op = "lea"   -> [t EXCEPT !.seg_override_en = 1, !.seg_override = None]
        [] i.op = "flags" -> [t EXCEPT !.IFlag = i.IFlag, !.TFlag = i.TFlag]
        [] i.op = "int"   -> RefInterrupt(t, i.vec)
        [] OTHER          -> t

\* ++inst_counter % KEYBOARD_TIMER_UPDATE_DELAY
RefTimer(c) ==
  LET n == (c.inst_count + 1) % Wrap
  IN  [c EXCEPT !.inst_count = n, !.int8_asap = IF n % Period = 0 THEN TRUE ELSE @]

RefTrap(c) ==
  LET t == IF c.trap_flag THEN RefInterrupt(c, 1) ELSE c
  IN  [t EXCEPT !.trap_flag = t.TFlag]

RefTickOpen(c) ==
  /\ c.int8_asap /\ c.IFlag /\ ~c.TFlag
  /\ c.seg_override_en = 0 /\ c.rep_override_en = 0

RefTick(c) == [RefInterrupt(c, 10) EXCEPT !.int8_asap = FALSE]

\* KEYBOARD_DRIVER with a key there to read
RefKey(c, escape) == RefInterrupt([c EXCEPT !.int8_asap = escape], 7)
=============================================================================
