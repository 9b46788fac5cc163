------------------------------ MODULE Lockstep ------------------------------
(***************************************************************************)
(* The differential harness (harness.c): the reference emulator and ours   *)
(* execute the same program one instruction at a time, keys are handed to  *)
(* both, and after each instruction the two states are compared; the first *)
(* difference stops the run.  An instruction is StepBegin, RefStep and      *)
(* StepEnd: the harness's two hooks and the iteration of the reference     *)
(* between them. The second hook ends with the commands that have come in  *)
(* over the control socket, one by one, and a look at the limit.           *)
(*                                                                         *)
(* What the comparison is for is a fault of our emulator: in the set-ups   *)
(* that have one, any step may leave a wrong register or a wrong byte.     *)
(***************************************************************************)
EXTENDS Tiny8086, Control

CONSTANTS
  Setups,       \* how the harness is started, see Setup
  Key, Esc,     \* bytes written to the kbd.in fifo, and 0x1B
  QueueSize,    \* KBD_QUEUE_SIZE
  Commands,     \* what is sent to the control socket
  ControlEvery  \* steps between two looks at the socket (1000 in harness.c)

\* The guest of a set-up uses instructions in ops, with TF in tf and prefixes
\* that name the registers in segs; keys, commands and steps bound how many
\* keys are written, commands sent and instructions executed.
Setup ==
  [ops : SUBSET {i.op : i \in Instr}, tf : SUBSET BOOLEAN, segs : SUBSET SegReg,
   keys : Nat, commands : Nat, steps : Nat,
   selftest : BOOLEAN, fast : 0..1, limit : 0..Ulong - 1, inject : Nat, faults : BOOLEAN]

ASSUME SetupAssumption ==
  /\ Setups # {} /\ Setups \subseteq Setup
  /\ ControlEvery \in Nat \ {0}
  /\ \A c \in Commands : c.value.n \in Int

VARIABLES
  setup,       \* the set-up of this run
  ref,         \* the reference's state
  our,         \* our_state
  refbox,      \* mem[0x4A6] of the reference
  ourbox,      \* mem[0x4A6] of ours
  queue,       \* kbd_queue
  consumed,    \* last_consumed_byte, if present
  console_in,  \* our_platform.console_in
  keys,        \* keys written so far
  insn,        \* the instruction the reference has executed and ours has not
  knobs,       \* the variables of the control plane, harness_step_count among them
  wrong,       \* what a fault has made wrong: "register", "memory"
  last,        \* the last step: whether REP was in force, whether memory was compared
  replies,     \* history: the commands handled and their answers
  phase,       \* where the harness is: before a step, or in one of its parts
  verdict      \* "running", or why the run stopped

kbd == <<queue, consumed, console_in, keys>>
boxes == <<refbox, ourbox>>
settings == <<setup, knobs, wrong, last, replies>>
vars == <<ref, our, boxes, kbd, insn, settings, phase, verdict>>

steps == knobs.step_count

Program == {i \in Instr : /\ i.op \in setup.ops
                          /\ i.op = "flags" => i.TFlag \in setup.tf
                          /\ i.op = "seg" => i.sreg \in setup.segs}

NoInsn == [op |-> "plain", to |-> Boot]

Start(u) ==
  [x \in Variable |-> CASE x = "fast_compare" -> u.fast
                        [] x = "step_limit" -> u.limit
                        [] x = "heartbeat_every" -> 1000 % Ulong
                        [] x = "kbd_enabled" -> IF u.keys > 0 THEN 1 ELSE 0
                        [] OTHER -> 0]

Init ==
  /\ setup \in Setups
  /\ \E r \in setup.segs : our = CpuInit(r)
  /\ ref = [our EXCEPT !.seg_override = None]
  /\ refbox = None /\ ourbox = None
  /\ queue = <<>> /\ consumed = <<>> /\ console_in = <<>> /\ keys = 0
  /\ insn = NoInsn /\ phase = "begin" /\ verdict = "running"
  /\ knobs = Start(setup) /\ replies = <<>>
  /\ wrong = {} /\ last = [rep |-> FALSE, scanned |-> FALSE]

\* harness_step_begin, at the top of the reference's loop: drain_kbd_fifo
StepBegin ==
  /\ phase = "begin" /\ verdict = "running" /\ steps < setup.steps
  /\ \/ /\ ref.at = Exit
        /\ verdict' = "exit"
        /\ UNCHANGED <<ref, our, boxes, kbd, insn, settings, phase>>
     \/ /\ ref.at # Exit
        /\ phase' = "ref"
        /\ \E burst \in UNION {[1..n -> Key] : n \in 0..(setup.keys - keys)} :
             /\ Len(queue) + Len(burst) <= QueueSize
             /\ queue' = queue \o burst /\ keys' = keys + Len(burst)
        /\ UNCHANGED <<ref, our, boxes, consumed, console_in, insn, settings, verdict>>

\* sim(), one iteration; its read(0, ...) is harness_consume_kbd_byte
RefStep(i) ==
  /\ phase = "ref"
  /\ LET c == RefTrap(RefTimer(RefSwitch(RefDecrement([ref EXCEPT !.pushed = <<>>]), i)))
     IN  IF RefTickOpen(c)
           THEN IF queue # <<>>
                  THEN /\ ref' = RefKey(RefTick(c), Head(queue) = Esc)
                       /\ refbox' = Head(queue)
                       /\ consumed' = <<Head(queue)>>
                       /\ queue' = Tail(queue)
                  ELSE ref' = RefTick(c) /\ UNCHANGED <<refbox, queue, consumed>>
           ELSE ref' = c /\ UNCHANGED <<refbox, queue, consumed>>
  /\ insn' = i
  /\ phase' = "our"
  /\ UNCHANGED <<our, ourbox, console_in, keys, settings, verdict>>

\* emu86_run with a budget of one: what an iteration makes of our state, of
\* the mailbox and of the keys in console_in
Iterate(c, box, inq, i) ==
  LET d == Deliver([c EXCEPT !.pushed = <<>>])
      t == TickDue(Trap(Exec(DecPrefix(d), i)))
  IN  CASE c.at = Exit -> [s |-> c, box |-> box, inq |-> inq]
        [] c.at # Exit /\ d.halted -> [s |-> d, box |-> box, inq |-> inq]
        [] c.at # Exit /\ ~d.halted ->
             IF t.int8_asap /\ Open(t)
               THEN IF inq # <<>>
                      THEN [s |-> TakeKey(TakeTick(t), Head(inq) = Esc),
                            box |-> Head(inq), inq |-> Tail(inq)]
                      ELSE [s |-> TakeTick(t), box |-> box, inq |-> inq]
               ELSE [s |-> t, box |-> box, inq |-> inq]

\* compare_states_cheap; the instruction counters agree as unsigned ints
AgreeCheap(r, o, w) ==
  /\ "register" \notin w
  /\ r.at = o.at /\ r.IFlag = o.IFlag /\ r.TFlag = o.TFlag
  /\ r.seg_override_en = o.seg_override_en
  /\ r.seg_override_en # 0 /\ r.seg_override # None => r.seg_override = o.seg_override
  /\ r.rep_override_en = o.rep_override_en
  /\ r.rep_override_en # 0 => r.rep_mode = o.rep_mode
  /\ r.trap_flag = o.trap_flag /\ r.int8_asap = o.int8_asap

\* what compare_states_full adds: memory and ports
AgreeMemory(r, o, rbox, obox, w) ==
  "memory" \notin w /\ rbox = obox /\ r.pushed = o.pushed

\* bug: the REP of the step just done is forgotten
NeedsFullCheapOnly(r, o, w) == knobs.fast_compare = 0 \/ ~AgreeCheap(r, o, w)

\* memory is compared: every time, or when REP was in force or to complete the
\* report of a difference
NeedsFull(r, o, w) ==
  \/ knobs.fast_compare = 0
  \/ ~AgreeCheap(r, o, w)
  \/ r.rep_override_en # 0 \/ o.rep_override_en # 0

\* the count is one up, and so is one of the comparators, or both
Counted(full) ==
  [knobs EXCEPT !.step_count = @ + 1,
                !.compare_cheap = @ + knobs.fast_compare,
                !.compare_full = IF full THEN @ + 1 ELSE @]

\* bug: the limit missed by a step that does not stop at it
LimitReachedExactly(v) == v.step_limit > 0 /\ v.step_count = v.step_limit

LimitReached(v) == v.step_limit > 0 /\ v.step_count >= v.step_limit

\* what may be wrong after a step: what it was, or what a fault makes of it
Faulty(n) ==
  {w \cup (IF setup.inject = n THEN {"register"} ELSE {}) :
     w \in IF setup.faults THEN SUBSET {"register", "memory"} ELSE {wrong}}

\* bug: last_consumed_byte_present not cleared
KeyKept == consumed

\* the key the reference has consumed, once ours has got it
KeyHandedOver == <<>>

\* harness_step_end: replicate the key, step ours, compare
StepEnd ==
  /\ phase = "our" /\ ~setup.selftest
  /\ LET r == Iterate(our, ourbox, console_in \o consumed, insn)
     IN  /\ our' = r.s /\ ourbox' = r.box /\ console_in' = r.inq
         /\ \E w \in Faulty(steps + 1) :
              LET full == NeedsFull(ref, r.s, w)
                  v == Counted(full)
              IN  /\ wrong' = w /\ knobs' = v
                  /\ last' = [rep |-> RepUsed(DecPrefix(our)) # None, scanned |-> full]
                  /\ IF /\ AgreeCheap(ref, r.s, w)
                        /\ full => AgreeMemory(ref, r.s, refbox, r.box, w)
                       THEN phase' = "control" /\ UNCHANGED verdict
                       ELSE phase' = "begin" /\ verdict' = "diverged"
  /\ consumed' = KeyHandedOver
  /\ insn' = NoInsn
  /\ UNCHANGED <<setup, ref, refbox, queue, keys, replies>>

\* harness_control_tick: it takes the datagrams that have come in, one by one
Serve(c) ==
  /\ phase = "control"
  /\ steps % ControlEvery = 0 /\ Len(replies) < setup.commands
  /\ LET a == Handle(knobs, c)
     IN  /\ knobs' = a.vars
         /\ replies' = Append(replies, [cmd |-> c, ok |-> a.ok, shown |-> a.shown])
  /\ UNCHANGED <<ref, our, boxes, kbd, insn, setup, wrong, last, phase, verdict>>

\* the end of harness_step_end
Conclude ==
  /\ phase = "control"
  /\ verdict' = IF LimitReached(knobs) THEN "limit" ELSE "running"
  /\ phase' = "begin"
  /\ UNCHANGED <<ref, our, boxes, kbd, insn, settings>>

\* harness_step_end when the harness tests itself: ours is made a copy of the
\* reference, in which the comparator must find no difference
SelfTest ==
  /\ phase = "our" /\ setup.selftest
  /\ LET copy == [ref EXCEPT
                    !.seg_override = IF @ = None THEN CHOOSE r \in SegReg : TRUE ELSE @,
                    !.halted = our.halted, !.int_pending = our.int_pending,
                    !.inst_count = @ % Period]
         v == [knobs EXCEPT !.step_count = @ + 1]
     IN  /\ our' = copy /\ ourbox' = refbox
         /\ IF AgreeCheap(ref, copy, wrong) /\ AgreeMemory(ref, copy, refbox, refbox, wrong)
              THEN knobs' = v /\ verdict' = IF LimitReached(v) THEN "pass" ELSE "running"
              ELSE verdict' = "selftest failed" /\ UNCHANGED knobs
  /\ insn' = NoInsn
  /\ phase' = "begin"
  /\ UNCHANGED <<setup, ref, refbox, kbd, wrong, last, replies>>

Next ==
  \/ StepBegin \/ (\E i \in Program : RefStep(i)) \/ StepEnd \/ SelfTest
  \/ (\E c \in Commands : Serve(c)) \/ Conclude

Spec == Init /\ [][Next]_vars

-----------------------------------------------------------------------------
(* The two emulators never differ: after every instruction, with keys      *)
(* arriving at any moment, prefixes stacked, interrupts on and off and ESC *)
(* re-arming the tick, the comparator finds nothing but a fault, and       *)
(* nothing at all between a state and its copy.                            *)
LockstepHolds ==
  /\ verdict = "diverged" => wrong # {}
  /\ verdict # "selftest failed"

(* A key the reference reads at a tick is read by our emulator at the same *)
(* tick: none is left over in console_in for a later one.                  *)
KeysTogether == phase = "begin" => console_in = <<>>

(* The fast comparison puts off nothing but single stores: a wrong register *)
(* stops the run at its step, whatever the mode, and so does a wrong byte  *)
(* when the last instruction ran under REP or every step is compared in    *)
(* full, also when the mode is switched by a command during the run        *)
(* (harness.c, lines 1018-1057; the policy of tasks/completed/emu33-task.md).*)
OnlyStoresWait ==
  phase = "begin" /\ verdict \in {"running", "limit"} =>
    /\ "register" \notin wrong
    /\ "memory" \in wrong => ~last.scanned
    /\ last.rep /\ ~setup.selftest => last.scanned

\* a reply to a set of x that was done
Sets(r, x) == r.ok /\ r.cmd.verb = "set" /\ x \in DOMAIN r.shown

\* the first n replies tell that x has value v: by the last set of it, or by
\* there being none
Tell(n, x, v) ==
  LET told == {k \in 1..n : Sets(replies[k], x)}
  IN  /\ told = {} => v = Start(setup)[x]
      /\ \A k \in told : (\A j \in told : j <= k) => v = replies[k].shown[x]

(* A client that keeps the replies knows the settings: those in force are  *)
(* the ones the harness was started with, each overwritten by the last OK  *)
(* reply to a set of it, and every get answers with the same; a refused    *)
(* command and a read-only variable change nothing (control.c).            *)
RepliesTell ==
  /\ \A x \in Writable : Tell(Len(replies), x, knobs[x])
  /\ \A n \in 1..Len(replies) :
       /\ \A x \in Writable \cap DOMAIN replies[n].shown : Tell(n, x, replies[n].shown[x])
       /\ replies[n].ok /\ replies[n].cmd.verb = "set" =>
            DOMAIN replies[n].shown = {replies[n].cmd.name} \cap Writable

(* The run goes no further than the limit in force, also when it is moved  *)
(* by a command during the run, behind the steps already done included; a  *)
(* limit of 0 is none (harness.c, line 1094).                              *)
WithinLimit ==
  phase = "begin" /\ verdict = "running" =>
    \/ knobs.step_limit = 0
    \/ steps < knobs.step_limit

(* The timer, the keyboard and the trap enter their handlers at the same   *)
(* instruction on both sides (tasks/completed/emu32-task.md, line 54).     *)
TicksTogether == phase = "begin" => ref.pushed = our.pushed
=============================================================================
