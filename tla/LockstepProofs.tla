--------------------------- MODULE LockstepProofs ---------------------------
(***************************************************************************)
(* Proofs about Lockstep, for every set-up, guest, key, command and range  *)
(* of numbers.  First the control plane of the harness: the step limit in  *)
(* force holds, and the replies tell the settings.  Then the comparison:   *)
(* what it puts off, and that it finds nothing but faults, because each    *)
(* iteration of the reference and of our emulator keeps them in step.      *)
(***************************************************************************)
EXTENDS Lockstep, CpuProofs

Knobs == [Variable -> Nat]

Reply == [cmd : Commands, ok : BOOLEAN, shown : UNION {[N -> Nat] : N \in SUBSET Variable}]

\* what the control plane works on
ControlOK == setup \in Setups /\ knobs \in Knobs /\ replies \in Seq(Reply)

(* Every number sent is stored as one in the range of the variables.       *)
LEMMA StrtoullIs == ASSUME NEW n \in Int PROVE Strtoull(n) \in Nat
  BY UlongAssumption DEF Strtoull

(* A harness starts with a number in each variable.                        *)
LEMMA StartIs ==
  ASSUME NEW u \in Setups
  PROVE  Start(u) \in Knobs /\ Start(u).step_count = 0 /\ Start(u).step_limit = u.limit
  <1>1. u.fast \in Nat /\ u.limit \in Nat /\ 1000 % Ulong \in Nat
    BY SetupAssumption, UlongAssumption DEF Setup
  <1>2. QED
    BY <1>1 DEF Start, Knobs, Variable, Writable, ReadOnly

(* A command leaves a number in each variable; only an OK set changes one, *)
(* the one it names; and what a reply shows is what is in force after it.  *)
LEMMA HandleIs ==
  ASSUME NEW v \in Knobs, NEW c \in Commands
  PROVE  LET a == Handle(v, c)
             sets == a.ok /\ c.verb = "set"
         IN  /\ a.vars \in Knobs
             /\ a.ok \in BOOLEAN
             /\ a.shown \in UNION {[N -> Nat] : N \in SUBSET Variable}
             /\ \A x \in DOMAIN a.shown : a.shown[x] = a.vars[x]
             /\ sets => DOMAIN a.shown = {c.name} \cap Writable
             /\ \A x \in Variable : ~(sets /\ x \in DOMAIN a.shown) => a.vars[x] = v[x]
  <1> DEFINE a == Handle(v, c)
  <1>1. \A w \in Knobs, names \in SUBSET Variable, ok \in BOOLEAN :
          LET b == Answer(w, ok, names)
          IN  /\ b.vars = w /\ b.ok = ok
              /\ b.shown = [x \in names |-> w[x]]
              /\ b.shown \in [names -> Nat]
    BY DEF Answer, Knobs
  <1>2. CASE \E names \in SUBSET Variable, ok \in BOOLEAN :
               a = Answer(v, ok, names) /\ ~(ok /\ c.verb = "set")
    <2>1. PICK names \in SUBSET Variable, ok \in BOOLEAN :
            a = Answer(v, ok, names) /\ ~(ok /\ c.verb = "set")
      BY <1>2
    <2>2. /\ a.vars = v /\ a.ok = ok
          /\ a.shown = [x \in names |-> v[x]] /\ a.shown \in [names -> Nat]
      BY <1>1, <2>1
    <2> HIDE DEF a
    <2>3. QED
      BY <2>1, <2>2 DEF a
  <1>3. CASE /\ c.verb = "set" /\ c.name \in Writable
             /\ a = Answer([v EXCEPT ![c.name] = Strtoull(c.value.n)], TRUE, {c.name})
    <2> DEFINE w == [v EXCEPT ![c.name] = Strtoull(c.value.n)]
    <2>1. {c.name} \in SUBSET Variable
      BY <1>3 DEF Variable
    <2>2. Strtoull(c.value.n) \in Nat
      BY StrtoullIs, SetupAssumption
    <2>3. w \in Knobs /\ \A x \in Variable : x # c.name => w[x] = v[x]
      BY <2>1, <2>2 DEF Knobs
    <2> HIDE DEF w
    <2>4. /\ a.vars = w /\ a.ok
          /\ a.shown = [x \in {c.name} |-> w[x]] /\ a.shown \in [{c.name} -> Nat]
      <3>1. a = Answer(w, TRUE, {c.name})
        BY <1>3 DEF w
      <3> HIDE DEF a
      <3>2. a.vars = w /\ a.ok /\ a.shown = [x \in {c.name} |-> w[x]]
        BY <3>1 DEF Answer
      <3>3. w[c.name] \in Nat
        BY <2>1, <2>3 DEF Knobs
      <3>4. QED
        BY <3>2, <3>3 DEF a
    <2> HIDE DEF a
    <2>5. a.shown \in UNION {[N -> Nat] : N \in SUBSET Variable}
      BY <2>1, <2>4
    <2>6. \A x \in DOMAIN a.shown : a.shown[x] = a.vars[x]
      BY <2>4
    <2>7. DOMAIN a.shown = {c.name} \cap Writable
      BY <1>3, <2>4
    <2>8. \A x \in Variable : x \notin DOMAIN a.shown => a.vars[x] = v[x]
      BY <2>3, <2>4
    <2>9. QED
      BY <1>3, <2>3, <2>4, <2>5, <2>6, <2>7, <2>8 DEF a
  <1>4. QED
    <2>1. /\ {} \in SUBSET Variable /\ Variable \in SUBSET Variable
          /\ \A x \in Variable : {x} \in SUBSET Variable
      OBVIOUS
    <2>2. CASE c.verb = "set"
      <3>1. a = Set(v, c.name, c.value)
        BY <2>2 DEF Handle
      <3>2. QED
        BY <1>2, <1>3, <2>1, <2>2, <3>1 DEF Set, Err
    <2>3. CASE c.verb = "get"
      <3>1. a = Get(v, c.name)
        BY <2>3 DEF Handle
      <3>2. QED
        BY <1>2, <2>1, <2>3, <3>1 DEF Get, Err
    <2>4. CASE c.verb \notin {"set", "get"}
      <3>1. a = Answer(v, TRUE, {}) \/ a = Err(v)
        BY <2>4 DEF Handle
      <3>2. QED
        BY <1>2, <2>1, <2>4, <3>1 DEF Err
    <2>5. QED
      BY <2>2, <2>3, <2>4

-----------------------------------------------------------------------------
(* The count of steps and of comparisons are the only variables a step     *)
(* changes by itself.                                                      *)
LEMMA CountedIs ==
  ASSUME knobs \in Knobs, NEW full \in BOOLEAN
  PROVE  /\ Counted(full) \in Knobs /\ \A x \in Writable : Counted(full)[x] = knobs[x]
         /\ Counted(full).step_count = steps + 1
  <1>1. /\ {"step_count", "compare_cheap", "compare_full", "fast_compare"} \subseteq Variable
        /\ "step_count" \notin Writable /\ "compare_cheap" \notin Writable
        /\ "compare_full" \notin Writable
    BY DEF Variable, Writable, ReadOnly
  <1> DEFINE n == knobs.step_count + 1
             p == knobs.compare_cheap + knobs.fast_compare
             q == IF full THEN knobs.compare_full + 1 ELSE knobs.compare_full
  <1>2. n \in Nat /\ p \in Nat /\ q \in Nat
    BY <1>1 DEF Knobs
  <1>3. Counted(full) = [knobs EXCEPT !.step_count = n, !.compare_cheap = p, !.compare_full = q]
    BY <1>1 DEF Counted, Knobs
  <1> HIDE DEF n, p, q
  <1>4. Writable \subseteq Variable
    BY DEF Variable
  <1>5. QED
    BY <1>1, <1>2, <1>3, <1>4 DEF Knobs, n, steps

(* How a step changes the settings and the replies.                        *)
LEMMA StepIs ==
  ASSUME ControlOK, [Next]_vars
  PROVE  /\ setup' = setup /\ knobs' \in Knobs
         /\ \/ replies' = replies /\ \A x \in Writable : knobs'[x] = knobs[x]
            \/ \E c \in Commands :
                 /\ knobs' = Handle(knobs, c).vars
                 /\ replies' = Append(replies, [cmd |-> c, ok |-> Handle(knobs, c).ok,
                                                shown |-> Handle(knobs, c).shown])
  <1>1. CASE StepBegin
    BY <1>1 DEF StepBegin, settings, ControlOK
  <1>2. CASE \E i \in Program : RefStep(i)
    BY <1>2 DEF RefStep, settings, ControlOK
  <1>3. CASE StepEnd
    <2>1. PICK full \in BOOLEAN : knobs' = Counted(full)
      <3>1. \A r, o, w : NeedsFull(r, o, w) \in BOOLEAN
        BY DEF NeedsFull
      <3>2. QED
        BY <1>3, <3>1 DEF StepEnd
    <2>2. setup' = setup /\ replies' = replies
      BY <1>3 DEF StepEnd
    <2>3. QED
      BY <2>1, <2>2, CountedIs DEF ControlOK
  <1>4. CASE SelfTest
    <2>1. /\ "step_count" \in Variable /\ "step_count" \notin Writable
          /\ Writable \subseteq Variable
      BY DEF Variable, Writable, ReadOnly
    <2>2. /\ setup' = setup /\ replies' = replies
          /\ knobs' = knobs \/ knobs' = [knobs EXCEPT !.step_count = @ + 1]
      BY <1>4 DEF SelfTest
    <2>3. QED
      BY <2>1, <2>2 DEF ControlOK, Knobs
  <1>5. ASSUME NEW c \in Commands, Serve(c)
        PROVE  /\ setup' = setup /\ knobs' = Handle(knobs, c).vars
               /\ replies' = Append(replies, [cmd |-> c, ok |-> Handle(knobs, c).ok,
                                              shown |-> Handle(knobs, c).shown])
    BY <1>5 DEF Serve
  <1>6. ASSUME NEW c \in Commands, Serve(c) PROVE knobs' \in Knobs
    <2>1. Handle(knobs, c).vars \in Knobs
      BY HandleIs DEF ControlOK
    <2>2. QED
      BY <1>5, <1>6, <2>1
  <1>7. CASE Conclude
    BY <1>7 DEF Conclude, settings, ControlOK
  <1>8. CASE UNCHANGED vars
    BY <1>8 DEF vars, settings, ControlOK
  <1>9. QED
    BY <1>1, <1>2, <1>3, <1>4, <1>5, <1>6, <1>7, <1>8 DEF Next

-----------------------------------------------------------------------------
(* The control plane starts well and stays so.                             *)
LEMMA ControlInit == Init => ControlOK /\ RepliesTell
  <1> SUFFICES ASSUME Init PROVE ControlOK /\ RepliesTell
    OBVIOUS
  <1>1. setup \in Setups /\ knobs = Start(setup) /\ replies = <<>>
    BY DEF Init
  <1>2. <<>> \in Seq(Reply) /\ Len(<<>>) = 0
    OBVIOUS
  <1>3. \A x : Tell(0, x, Start(setup)[x])
    BY DEF Tell
  <1>4. QED
    BY <1>1, <1>2, <1>3, StartIs DEF ControlOK, RepliesTell

LEMMA ControlStep == ControlOK /\ [Next]_vars => ControlOK'
  <1> SUFFICES ASSUME ControlOK, [Next]_vars PROVE ControlOK'
    OBVIOUS
  <1>1. setup' = setup /\ knobs' \in Knobs
    BY StepIs
  <1>2. CASE replies' = replies
    BY <1>1, <1>2 DEF ControlOK
  <1>3. ASSUME NEW c \in Commands,
               replies' = Append(replies, [cmd |-> c, ok |-> Handle(knobs, c).ok,
                                           shown |-> Handle(knobs, c).shown])
        PROVE  ControlOK'
    <2>1. /\ Handle(knobs, c).ok \in BOOLEAN
          /\ Handle(knobs, c).shown \in UNION {[N -> Nat] : N \in SUBSET Variable}
      BY HandleIs DEF ControlOK
    <2>2. [cmd |-> c, ok |-> Handle(knobs, c).ok, shown |-> Handle(knobs, c).shown] \in Reply
      BY <2>1 DEF Reply
    <2>3. QED
      BY <1>1, <1>3, <2>2, AppendProperties DEF ControlOK
  <1>4. QED
    BY <1>2, <1>3, StepIs

(* The settings and the replies keep their types, whatever is sent.        *)
THEOREM ControlTyped == Spec => []ControlOK
  BY ControlInit, ControlStep, PTL DEF Spec

-----------------------------------------------------------------------------
(* A step that does not stop at the limit is below it.                     *)
LEMMA LimitStep == ControlOK /\ WithinLimit /\ [Next]_vars => WithinLimit'
  <1> SUFFICES ASSUME ControlOK, WithinLimit, [Next]_vars PROVE WithinLimit'
    OBVIOUS
  <1>1. \A v \in Knobs : ~LimitReached(v) => v.step_limit = 0 \/ v.step_count < v.step_limit
    BY DEF LimitReached, Knobs, Variable, Writable, ReadOnly
  <1>2. CASE StepBegin
    BY <1>2 DEF StepBegin, WithinLimit, settings
  <1>3. CASE \E i \in Program : RefStep(i)
    BY <1>3 DEF RefStep, WithinLimit
  <1>4. CASE StepEnd
    BY <1>4 DEF StepEnd, WithinLimit
  <1>5. CASE SelfTest
    <2>1. verdict' = "running" => ~LimitReached(knobs')
      BY <1>5 DEF SelfTest
    <2>2. knobs' \in Knobs
      BY StepIs
    <2>3. QED
      BY <1>1, <2>1, <2>2 DEF WithinLimit, steps
  <1>6. CASE \E c \in Commands : Serve(c)
    BY <1>6 DEF Serve, WithinLimit
  <1>7. CASE Conclude
    BY <1>1, <1>7 DEF Conclude, WithinLimit, settings, steps, ControlOK
  <1>8. CASE UNCHANGED vars
    BY <1>8 DEF vars, settings, WithinLimit, steps
  <1>9. QED
    BY <1>2, <1>3, <1>4, <1>5, <1>6, <1>7, <1>8 DEF Next

(* The run goes no further than the limit in force, for every limit and    *)
(* every command that moves it (harness.c, line 1094).                     *)
THEOREM LimitHolds == Spec => []WithinLimit
  <1>1. Init => WithinLimit
    <2>1. ASSUME Init PROVE knobs.step_count = 0 /\ knobs.step_limit \in Nat
      <3>1. setup \in Setups /\ knobs = Start(setup)
        BY <2>1 DEF Init
      <3>2. setup.limit \in Nat
        BY <3>1, SetupAssumption, UlongAssumption DEF Setup
      <3>3. QED
        BY <3>1, <3>2, StartIs
    <2>2. QED
      BY <2>1 DEF WithinLimit, steps
  <1>2. QED
    BY <1>1, LimitStep, ControlTyped, PTL DEF Spec

-----------------------------------------------------------------------------
(* A reply added at the end takes nothing back, and says what a variable   *)
(* it sets is from then on.                                                *)
LEMMA TellAppend ==
  ASSUME replies \in Seq(Reply), NEW e \in Reply, replies' = Append(replies, e),
         setup' = setup, NEW n \in Nat, n = Len(replies)
  PROVE  /\ Len(replies') = n + 1 /\ replies'[n + 1] = e
         /\ \A k \in 1..n : replies'[k] = replies[k]
         /\ \A k \in 0..n : \A x, v : Tell(k, x, v) => Tell(k, x, v)'
         /\ \A x, v : ~Sets(e, x) /\ Tell(n, x, v) => Tell(n + 1, x, v)'
         /\ \A x : Sets(e, x) => Tell(n + 1, x, e.shown[x])'
  <1>1. /\ n \in Nat /\ Len(replies') = n + 1 /\ replies'[n + 1] = e
        /\ \A k \in 1..n : replies'[k] = replies[k]
    BY AppendProperties, LenProperties
  <1> DEFINE told(k, x) == {j \in 1..k : Sets(replies[j], x)}
             told1(k, x) == {j \in 1..k : Sets(replies'[j], x)}
  <1>2. /\ \A k, x, v : Tell(k, x, v) <=>
             /\ told(k, x) = {} => v = Start(setup)[x]
             /\ \A l \in told(k, x) : (\A j \in told(k, x) : j <= l)
                                        => v = replies[l].shown[x]
        /\ \A k, x, v : Tell(k, x, v)' <=>
             /\ told1(k, x) = {} => v = Start(setup)[x]
             /\ \A l \in told1(k, x) : (\A j \in told1(k, x) : j <= l)
                                        => v = replies'[l].shown[x]
    BY DEF Tell, Start
  <1>3. \A k \in 0..n : \A x : told1(k, x) = told(k, x) /\ told(k, x) \subseteq 1..n
    BY <1>1
  <1>4. \A k \in 0..n : \A x, v : Tell(k, x, v) => Tell(k, x, v)'
    <2> SUFFICES ASSUME NEW k \in 0..n, NEW x, NEW v, Tell(k, x, v) PROVE Tell(k, x, v)'
      OBVIOUS
    <2>1. told1(k, x) = told(k, x) /\ told(k, x) \subseteq 1..n
      BY <1>3
    <2> HIDE DEF told, told1
    <2>2. QED
      BY <1>1, <1>2, <2>1
  <1>5. ASSUME NEW x, NEW v, ~Sets(e, x), Tell(n, x, v) PROVE Tell(n + 1, x, v)'
    <2>1. told1(n + 1, x) = told(n, x) /\ told(n, x) \subseteq 1..n
      BY <1>1, <1>5
    <2> HIDE DEF told, told1
    <2>2. QED
      BY <1>1, <1>2, <1>5, <2>1
  <1>6. ASSUME NEW x, Sets(e, x) PROVE Tell(n + 1, x, e.shown[x])'
    <2>1. n + 1 \in told1(n + 1, x) /\ told1(n + 1, x) \subseteq 1..n + 1
      BY <1>1, <1>6
    <2> HIDE DEF told1
    <2>2. \A l \in told1(n + 1, x) :
            (\A j \in told1(n + 1, x) : j <= l) => l = n + 1
      BY <1>1, <2>1
    <2>3. QED
      BY <1>1, <1>2, <2>1, <2>2
  <1>7. QED
    BY <1>1, <1>4, <1>5, <1>6

LEMMA RepliesStep == ControlOK /\ RepliesTell /\ [Next]_vars => RepliesTell'
  <1> SUFFICES ASSUME ControlOK, RepliesTell, [Next]_vars PROVE RepliesTell'
    OBVIOUS
  <1>1. setup' = setup /\ knobs' \in Knobs /\ Writable \subseteq Variable
    BY StepIs DEF Variable
  <1>2. CASE replies' = replies /\ \A x \in Writable : knobs'[x] = knobs[x]
    <2>1. \A k, x, v : Tell(k, x, v) => Tell(k, x, v)'
      BY <1>1, <1>2 DEF Tell
    <2>2. QED
      BY <1>2, <2>1 DEF RepliesTell
  <1>3. ASSUME NEW c \in Commands,
               knobs' = Handle(knobs, c).vars,
               replies' = Append(replies, [cmd |-> c, ok |-> Handle(knobs, c).ok,
                                           shown |-> Handle(knobs, c).shown])
        PROVE  RepliesTell'
    <2> DEFINE a == Handle(knobs, c)
               sets == a.ok /\ c.verb = "set"
    <2>1. /\ a.ok \in BOOLEAN
          /\ a.shown \in UNION {[N -> Nat] : N \in SUBSET Variable}
          /\ \A x \in DOMAIN a.shown : a.shown[x] = knobs'[x]
          /\ sets => DOMAIN a.shown = {c.name} \cap Writable
          /\ \A x \in Variable : ~(sets /\ x \in DOMAIN a.shown) => knobs'[x] = knobs[x]
      BY <1>3, HandleIs DEF ControlOK
    <2> HIDE DEF a
    <2>2. PICK e \in Reply : /\ e.ok = a.ok /\ e.cmd = c /\ e.shown = a.shown
                             /\ replies' = Append(replies, e)
      <3>1. [cmd |-> c, ok |-> a.ok, shown |-> a.shown] \in Reply
        BY <2>1 DEF Reply
      <3>2. QED
        BY <1>3, <3>1 DEF a
    <2>3. PICK n \in Nat : n = Len(replies)
      BY LenProperties DEF ControlOK
    <2>4. /\ Len(replies') = n + 1 /\ replies'[n + 1] = e
          /\ \A k \in 1..n : replies'[k] = replies[k]
          /\ \A k \in 0..n : \A x, v : Tell(k, x, v) => Tell(k, x, v)'
          /\ \A x, v : ~Sets(e, x) /\ Tell(n, x, v) => Tell(n + 1, x, v)'
          /\ \A x : Sets(e, x) => Tell(n + 1, x, e.shown[x])'
      BY <1>1, <2>2, <2>3, TellAppend DEF ControlOK
    <2>5. \A x \in Writable : Tell(n, x, knobs[x])
      BY <2>3 DEF RepliesTell
    <2>6. ASSUME NEW x \in Writable PROVE Tell(n + 1, x, knobs[x])'
      <3>1. CASE Sets(e, x)
        BY <2>1, <2>2, <2>4, <3>1 DEF Sets
      <3>2. CASE ~Sets(e, x)
        <4>1. knobs'[x] = knobs[x]
          BY <1>1, <2>1, <2>2, <3>2 DEF Sets
        <4>2. QED
          BY <2>4, <2>5, <3>2, <4>1
      <3>3. QED
        BY <3>1, <3>2
    <2>7. ASSUME NEW k \in 1..n
          PROVE  /\ \A x \in Writable \cap DOMAIN replies'[k].shown :
                      Tell(k, x, replies[k].shown[x])'
                 /\ replies'[k].ok /\ replies'[k].cmd.verb = "set" =>
                      DOMAIN replies'[k].shown = {replies'[k].cmd.name} \cap Writable
      <3>1. /\ \A x \in Writable \cap DOMAIN replies[k].shown :
                  Tell(k, x, replies[k].shown[x])
            /\ replies[k].ok /\ replies[k].cmd.verb = "set" =>
                  DOMAIN replies[k].shown = {replies[k].cmd.name} \cap Writable
        BY <2>3 DEF RepliesTell
      <3>2. replies'[k] = replies[k] /\ k \in 0..n
        BY <2>4
      <3>3. QED
        BY <2>4, <3>1, <3>2
    <2>8. /\ \A x \in Writable \cap DOMAIN e.shown : Tell(n + 1, x, e.shown[x])'
          /\ e.ok /\ e.cmd.verb = "set" => DOMAIN e.shown = {e.cmd.name} \cap Writable
      BY <2>1, <2>2, <2>6
    <2>9. \A k \in 1..n + 1 : k \in 1..n \/ k = n + 1
      BY <2>3
    <2>10. QED
      BY <2>4, <2>6, <2>7, <2>8, <2>9 DEF RepliesTell
  <1>4. QED
    BY <1>2, <1>3, StepIs

(* Whatever commands are sent, in whatever order and with whatever numbers, *)
(* the OK replies to the sets tell the settings in force (control.c).      *)
THEOREM RepliesAreTrue == Spec => []RepliesTell
  BY ControlInit, RepliesStep, ControlTyped, PTL DEF Spec

-----------------------------------------------------------------------------
(* The two processors side by side. Where ours is compared, both are at the *)
(* same place under the same flags and prefixes, neither traps, and our      *)
(* count is the reference's within the period of the tick.                   *)

\* the reference's state: its segment override may be none, its count is wider
RefState ==
  [at : Loc, IFlag : BOOLEAN, TFlag : BOOLEAN,
   halted : BOOLEAN, trap_flag : BOOLEAN,
   int_pending : BOOLEAN, int_vector : Vector,
   seg_override_en : 0..2, seg_override : SegReg \cup {None},
   rep_override_en : 0..2, rep_mode : RepMode,
   int8_asap : BOOLEAN, inst_count : Nat, pushed : Seq(Frame)]

Agree(r, o) ==
  /\ r.at = o.at /\ r.IFlag = o.IFlag /\ ~r.TFlag /\ ~o.TFlag
  /\ ~r.trap_flag /\ ~o.trap_flag /\ ~o.halted /\ ~o.int_pending
  /\ r.seg_override_en = o.seg_override_en /\ r.rep_override_en = o.rep_override_en
  /\ r.seg_override # None => r.seg_override = o.seg_override
  /\ r.rep_mode = o.rep_mode
  /\ r.int8_asap = o.int8_asap
  /\ r.pushed = o.pushed

\* a pair of states that agree, and one whose counts do too
Pair(r, o) == r \in RefState /\ o \in CpuState /\ Agree(r, o)
InStep(r, o) == Pair(r, o) /\ o.inst_count = r.inst_count % Period

Uncounted(r, x, o, y) == x.inst_count = r.inst_count /\ y.inst_count = o.inst_count

(* Division with remainder, and its uniqueness.                             *)
LEMMA DivMod ==
  ASSUME NEW n \in Int, NEW p \in Nat \ {0}
  PROVE  n = p * (n \div p) + (n % p) /\ n % p \in 0..(p - 1) /\ n \div p \in Int
  OBVIOUS

LEMMA DivModUnique ==
  ASSUME NEW n \in Nat, NEW p \in Nat \ {0}, NEW q \in Int, NEW r \in 0..(p - 1), n = p * q + r
  PROVE  n % p = r /\ n \div p = q
  OBVIOUS

(* Counting up commutes with taking the remainder.                          *)
LEMMA CountUp ==
  ASSUME NEW n \in Nat, NEW p \in Nat \ {0}
  PROVE  (n + 1) % p = ((n % p) + 1) % p
  <1> DEFINE q == n \div p
             r == n % p
  <1>1. n = p * q + r /\ r \in 0..(p - 1) /\ q \in Int
    BY DivMod
  <1> HIDE DEF q, r
  <1>2. CASE r + 1 < p
    <2>1. n + 1 = p * q + (r + 1) /\ r + 1 \in 0..(p - 1)
      BY <1>1, <1>2
    <2>2. (n + 1) % p = r + 1
      BY <1>1, <2>1, DivModUnique
    <2>3. (r + 1) % p = r + 1
      <3>1. r + 1 = p * 0 + (r + 1) /\ r + 1 \in 0..(p - 1)
        BY <1>1, <1>2
      <3>2. QED
        BY <3>1, DivModUnique
    <2>4. QED
      BY <2>2, <2>3 DEF r
  <1>3. CASE r + 1 = p
    <2>1. n + 1 = p * (q + 1) + 0
      BY <1>1, <1>3
    <2>2. (n + 1) % p = 0
      BY <1>1, <2>1, DivModUnique
    <2>3. (r + 1) % p = 0
      <3>1. r + 1 = p * 1 + 0 /\ r + 1 \in Nat
        BY <1>1, <1>3
      <3>2. QED
        BY <3>1, DivModUnique
    <2>4. QED
      BY <2>2, <2>3 DEF r
  <1>4. QED
    BY <1>1, <1>2, <1>3

(* Both enter a handler in the same way.                                    *)
LEMMA InterruptAgrees ==
  ASSUME NEW r, NEW o, Pair(r, o), NEW v \in Vector
  PROVE  /\ Pair(RefInterrupt(r, v), PcInterrupt(o, v))
         /\ Uncounted(r, RefInterrupt(r, v), o, PcInterrupt(o, v))
  <1> DEFINE f == [at |-> r.at, IFlag |-> r.IFlag, TFlag |-> r.TFlag]
             q == Append(r.pushed, f)
             x == RefInterrupt(r, v)
             y == PcInterrupt(o, v)
  <1>1. r \in RefState /\ o \in CpuState /\ Agree(r, o)
    BY DEF Pair
  <1>2. f \in Frame /\ r.pushed \in Seq(Frame)
    BY <1>1 DEF RefState, Frame
  <1>3. q \in Seq(Frame)
    BY <1>2, AppendProperties
  <1>4. Isr[v] \in Loc
    BY CpuAssumption
  <1>5. x = [r EXCEPT !.pushed = q, !.at = Isr[v], !.IFlag = FALSE, !.TFlag = FALSE]
    BY DEF RefInterrupt
  <1>6. y = [o EXCEPT !.pushed = q, !.at = Isr[v], !.IFlag = FALSE, !.TFlag = FALSE]
    <2>1. o.at = r.at /\ o.IFlag = r.IFlag /\ o.TFlag = r.TFlag /\ o.pushed = r.pushed
      BY <1>1 DEF RefState, CpuState, Agree
    <2>2. QED
      BY <2>1 DEF PcInterrupt
  <1> HIDE DEF q, x, y
  <1>7. x \in RefState /\ y \in CpuState
    BY <1>1, <1>3, <1>4, <1>5, <1>6 DEF RefState, CpuState
  <1>8. Agree(x, y)
    BY <1>1, <1>5, <1>6 DEF RefState, CpuState, Agree
  <1>9. Uncounted(r, x, o, y)
    BY <1>1, <1>5, <1>6 DEF RefState, CpuState, Uncounted
  <1>10. QED
    BY <1>7, <1>8, <1>9 DEF Pair, x, y

(* Both count down the prefixes; no interrupt is pending for ours.          *)
LEMMA CountDownAgrees ==
  ASSUME NEW r, NEW o, Pair(r, o)
  PROVE  LET x == RefDecrement([r EXCEPT !.pushed = <<>>])
             d == Deliver([o EXCEPT !.pushed = <<>>])
         IN  /\ Pair(x, DecPrefix(d)) /\ Uncounted(r, x, o, DecPrefix(d))
             /\ DecPrefix(d).seg_override_en \in 0..1 /\ DecPrefix(d).rep_override_en \in 0..1
             /\ ~d.halted
  <1> DEFINE r0 == [r EXCEPT !.pushed = <<>>]
             o0 == [o EXCEPT !.pushed = <<>>]
             m == IF r.seg_override_en # 0 THEN r.seg_override_en - 1 ELSE r.seg_override_en
             n == IF r.rep_override_en # 0 THEN r.rep_override_en - 1 ELSE r.rep_override_en
  <1>1. r \in RefState /\ o \in CpuState /\ Agree(r, o)
    BY DEF Pair
  <1>2. /\ r0 \in RefState /\ o0 \in CpuState /\ Agree(r0, o0)
        /\ r0.seg_override_en = r.seg_override_en /\ r0.rep_override_en = r.rep_override_en
        /\ r0.inst_count = r.inst_count /\ o0.inst_count = o.inst_count
    <2>1. <<>> \in Seq(Frame)
      OBVIOUS
    <2>2. r0 \in RefState /\ o0 \in CpuState
      BY <1>1, <2>1 DEF RefState, CpuState
    <2>3. QED
      BY <1>1, <2>2 DEF RefState, CpuState, Agree
  <1>3. Deliver(o0) = o0
    BY <1>2 DEF Deliver, Agree
  <1>4. m \in 0..1 /\ n \in 0..1 /\ 0..1 \subseteq 0..2
    BY <1>1 DEF RefState
  <1>5. Dec(o0.seg_override_en) = m /\ Dec(o0.rep_override_en) = n
    BY <1>1, <1>2 DEF RefState, Agree, Dec
  <1> HIDE DEF r0, o0
  <1>6. RefDecrement(r0) = [r0 EXCEPT !.seg_override_en = m, !.rep_override_en = n]
    BY <1>2 DEF RefDecrement, RefState
  <1>7. DecPrefix(o0) = [o0 EXCEPT !.seg_override_en = m, !.rep_override_en = n]
    BY <1>2, <1>5 DEF DecPrefix, CpuState
  <1> HIDE DEF m, n
  <1>8. RefDecrement(r0) \in RefState /\ DecPrefix(o0) \in CpuState
    BY <1>2, <1>4, <1>6, <1>7 DEF RefState, CpuState
  <1>9. Agree(RefDecrement(r0), DecPrefix(o0))
    BY <1>2, <1>4, <1>6, <1>7 DEF RefState, CpuState, Agree
  <1>10. /\ Uncounted(r0, RefDecrement(r0), o0, DecPrefix(o0))
         /\ DecPrefix(o0).seg_override_en = m /\ DecPrefix(o0).rep_override_en = n
    BY <1>2, <1>6, <1>7 DEF RefState, CpuState, Uncounted
  <1>11. QED
    BY <1>2, <1>3, <1>4, <1>8, <1>9, <1>10 DEF Pair, Uncounted, Agree, r0, o0

(* Both execute the instruction alike, LEA included, after which the        *)
(* reference reads no segment register; ours counts it at once.             *)
LEMMA SwitchAgrees ==
  ASSUME NEW r, NEW o, Pair(r, o), o.seg_override_en \in 0..1, o.rep_override_en \in 0..1,
         NEW i, WellFormed(i), i.op # "hlt", i.op = "flags" => ~i.TFlag
  PROVE  /\ Pair(RefSwitch(r, i), Exec(o, i))
         /\ RefSwitch(r, i).inst_count = r.inst_count
         /\ Exec(o, i).inst_count = (o.inst_count + 1) % Period
  <1> DEFINE n == (o.inst_count + 1) % Period
             a == [r EXCEPT !.at = i.to]
             b == [o EXCEPT !.at = i.to, !.inst_count = n]
             x == RefSwitch(r, i)
             y == Exec(o, i)
             sb == Bump(o.seg_override_en)
             rb == Bump(o.rep_override_en)
  <1>1. r \in RefState /\ o \in CpuState /\ Agree(r, o)
    BY DEF Pair
  <1>2. n \in 0..(Period - 1)
    BY <1>1, CpuAssumption DEF CpuState
  <1>3. i.to \in Loc
    BY DEF WellFormed
  <1> HIDE DEF n
  <1>4. /\ a \in RefState /\ b \in CpuState
        /\ a.inst_count = r.inst_count /\ b.inst_count = n
        /\ a.seg_override_en = b.seg_override_en /\ b.seg_override_en = o.seg_override_en
        /\ a.rep_override_en = b.rep_override_en /\ b.rep_override_en = o.rep_override_en
    BY <1>1, <1>2, <1>3 DEF RefState, CpuState, Agree
  <1>5. Agree(a, b)
    BY <1>1, <1>2, <1>3 DEF RefState, CpuState, Agree
  <1>6. sb \in 0..2 /\ rb \in 0..2 /\ 1 \in 0..2 /\ 2 \in 0..2
    BY DEF Bump
  <1>7. /\ sb = IF a.seg_override_en # 0 THEN a.seg_override_en + 1 ELSE a.seg_override_en
        /\ rb = IF a.rep_override_en # 0 THEN a.rep_override_en + 1 ELSE a.rep_override_en
        /\ sb = Bump(b.seg_override_en) /\ rb = Bump(b.rep_override_en)
    BY <1>4 DEF Bump
  <1> HIDE DEF sb, rb
  <1>8. y = CASE i.op = "seg" ->
                   [b EXCEPT !.seg_override_en = 2, !.seg_override = i.sreg,
                             !.rep_override_en = Bump(@)]
              [] i.op = "rep" ->
                   [b EXCEPT !.rep_override_en = 2, !.rep_mode = i.mode,
                             !.seg_override_en = Bump(@)]
              [] i.op = "lea"   -> [b EXCEPT !.seg_override_en = 1]
              [] i.op = "hlt"   -> [b EXCEPT !.halted = TRUE]
              [] i.op = "flags" -> [b EXCEPT !.IFlag = i.IFlag, !.TFlag = i.TFlag]
              [] i.op = "int"   -> PcInterrupt(b, i.vec)
              [] OTHER          -> b
    BY DEF Exec, n
  <1>9. x = CASE i.op = "rep" ->
                   [a EXCEPT !.rep_override_en = 2, !.rep_mode = i.mode,
                             !.seg_override_en = IF @ # 0 THEN @ + 1 ELSE @]
              [] i.op = "seg" ->
                   [a EXCEPT !.seg_override_en = 2, !.seg_override = i.sreg,
                             !.rep_override_en = IF @ # 0 THEN @ + 1 ELSE @]
              [] i.op = "lea"   -> [a EXCEPT !.seg_override_en = 1, !.seg_override = None]
              [] i.op = "flags" -> [a EXCEPT !.IFlag = i.IFlag, !.TFlag = i.TFlag]
              [] i.op = "int"   -> RefInterrupt(a, i.vec)
              [] OTHER          -> a
    BY DEF RefSwitch
  <1> HIDE DEF a, b, x, y
  <1>10. CASE i.op = "seg"
    <2>1. i.sreg \in SegReg
      BY <1>10 DEF WellFormed
    <2>2. /\ x = [a EXCEPT !.seg_override_en = 2, !.seg_override = i.sreg,
                           !.rep_override_en = rb]
          /\ y = [b EXCEPT !.seg_override_en = 2, !.seg_override = i.sreg,
                           !.rep_override_en = rb]
      BY <1>4, <1>7, <1>8, <1>9, <1>10
    <2>3. x \in RefState /\ y \in CpuState
      BY <1>4, <1>6, <2>1, <2>2 DEF RefState, CpuState
    <2>4. Agree(x, y) /\ x.inst_count = r.inst_count /\ y.inst_count = n
      BY <1>4, <1>5, <2>2 DEF RefState, CpuState, Agree
    <2>5. QED
      BY <2>3, <2>4 DEF Pair, x, y, n
  <1>11. CASE i.op = "rep"
    <2>1. i.mode \in RepMode
      BY <1>11 DEF WellFormed
    <2>2. /\ x = [a EXCEPT !.rep_override_en = 2, !.rep_mode = i.mode,
                           !.seg_override_en = sb]
          /\ y = [b EXCEPT !.rep_override_en = 2, !.rep_mode = i.mode,
                           !.seg_override_en = sb]
      BY <1>4, <1>7, <1>8, <1>9, <1>11
    <2>3. x \in RefState /\ y \in CpuState
      BY <1>4, <1>6, <2>1, <2>2 DEF RefState, CpuState
    <2>4. Agree(x, y) /\ x.inst_count = r.inst_count /\ y.inst_count = n
      BY <1>4, <1>5, <2>2 DEF RefState, CpuState, Agree
    <2>5. QED
      BY <2>3, <2>4 DEF Pair, x, y, n
  <1>12. CASE i.op = "lea"
    <2>1. /\ x = [a EXCEPT !.seg_override_en = 1, !.seg_override = None]
          /\ y = [b EXCEPT !.seg_override_en = 1]
      BY <1>8, <1>9, <1>12
    <2>2. x \in RefState /\ y \in CpuState
      BY <1>4, <1>6, <2>1 DEF RefState, CpuState
    <2>3. Agree(x, y) /\ x.inst_count = r.inst_count /\ y.inst_count = n
      BY <1>4, <1>5, <2>1 DEF RefState, CpuState, Agree
    <2>4. QED
      BY <2>2, <2>3 DEF Pair, x, y, n
  <1>13. CASE i.op = "flags"
    <2>1. i.IFlag \in BOOLEAN /\ i.TFlag \in BOOLEAN /\ ~i.TFlag
      BY <1>13 DEF WellFormed
    <2>2. /\ x = [a EXCEPT !.IFlag = i.IFlag, !.TFlag = i.TFlag]
          /\ y = [b EXCEPT !.IFlag = i.IFlag, !.TFlag = i.TFlag]
      BY <1>8, <1>9, <1>13
    <2>3. x \in RefState /\ y \in CpuState
      BY <1>4, <2>1, <2>2 DEF RefState, CpuState
    <2>4. Agree(x, y) /\ x.inst_count = r.inst_count /\ y.inst_count = n
      BY <1>4, <1>5, <2>1, <2>2 DEF RefState, CpuState, Agree
    <2>5. QED
      BY <2>3, <2>4 DEF Pair, x, y, n
  <1>14. CASE i.op = "int"
    <2>1. i.vec \in Vector
      BY <1>14 DEF WellFormed
    <2>2. x = RefInterrupt(a, i.vec) /\ y = PcInterrupt(b, i.vec)
      BY <1>8, <1>9, <1>14
    <2>3. Pair(x, y) /\ Uncounted(a, x, b, y)
      BY <1>4, <1>5, <2>1, <2>2, InterruptAgrees DEF Pair
    <2>4. QED
      BY <1>4, <2>3 DEF Uncounted, x, y, n
  <1>15. CASE i.op \notin {"seg", "rep", "lea", "flags", "int"}
    <2>1. x = a /\ y = b
      BY <1>8, <1>9, <1>15
    <2>2. QED
      BY <1>4, <1>5, <2>1 DEF Pair, x, y, n
  <1>16. QED
    BY <1>10, <1>11, <1>12, <1>13, <1>14, <1>15

(* Both count the instruction, find no trap, and see a tick fall due when    *)
(* it does, as long as the reference's count has not wrapped.                *)
LEMMA TimerAgrees ==
  ASSUME NEW r, NEW o, Pair(r, o), r.inst_count + 1 < Wrap,
         o.inst_count = (r.inst_count + 1) % Period
  PROVE  /\ InStep(RefTrap(RefTimer(r)), TickDue(Trap(o)))
         /\ RefTrap(RefTimer(r)).inst_count = r.inst_count + 1
  <1> DEFINE n == r.inst_count + 1
             due == o.inst_count = 0
             x == [r EXCEPT !.inst_count = n, !.int8_asap = IF due THEN TRUE ELSE @]
             y == [o EXCEPT !.int8_asap = IF due THEN TRUE ELSE @]
  <1>1. r \in RefState /\ o \in CpuState /\ Agree(r, o)
    BY DEF Pair
  <1>2. n \in Nat /\ n % Wrap = n
    BY <1>1, WrapAssumption DEF RefState
  <1>3. RefTimer(r) = x
    BY <1>2 DEF RefTimer
  <1>4. Trap(o) = o
    BY <1>1 DEF Trap, Agree
  <1>5. TickDue(o) = y
    <2>1. CASE due
      BY <2>1 DEF TickDue
    <2>2. CASE ~due
      BY <1>1, <2>2 DEF TickDue, CpuState
    <2>3. QED
      BY <2>1, <2>2
  <1>6. x \in RefState /\ y \in CpuState
    <2> HIDE DEF n, due
    <2>1. QED
      BY <1>1, <1>2 DEF RefState, CpuState
  <1>7. Agree(x, y) /\ x.inst_count = n /\ y.inst_count = o.inst_count
    <2> HIDE DEF n, due
    <2>1. QED
      BY <1>1, <1>2 DEF RefState, CpuState, Agree
  <1> HIDE DEF x, y, n, due
  <1>8. RefTrap(x) = x
    <2>1. ~x.trap_flag /\ x.TFlag = FALSE /\ x.trap_flag = FALSE
      BY <1>6, <1>7 DEF RefState, Agree
    <2>2. RefTrap(x) = [x EXCEPT !.trap_flag = FALSE]
      BY <2>1 DEF RefTrap
    <2>3. QED
      BY <1>6, <2>1, <2>2 DEF RefState
  <1>9. QED
    BY <1>3, <1>4, <1>5, <1>6, <1>7, <1>8 DEF InStep, Pair, n

(* Both take the tick at the same place,                                     *)
LEMMA OpenAgrees ==
  ASSUME NEW r, NEW o, Pair(r, o)
  PROVE  RefTickOpen(r) <=> o.int8_asap /\ Open(o)
  BY DEF Pair, Agree, RefState, CpuState, RefTickOpen, Open

(* enter its handler, which leaves it no longer due,                         *)
LEMMA TickAgrees ==
  ASSUME NEW r, NEW o, InStep(r, o)
  PROVE  /\ InStep(RefTick(r), TakeTick(o)) /\ ~TakeTick(o).int8_asap
         /\ RefTick(r).inst_count = r.inst_count
  <1> DEFINE x == RefInterrupt(r, 10)
             y == PcInterrupt(o, 10)
  <1>1. /\ x \in RefState /\ y \in CpuState /\ Agree(x, y) /\ Uncounted(r, x, o, y)
    BY InterruptAgrees, CpuAssumption DEF InStep, Pair
  <1>2. /\ RefTick(r) = [x EXCEPT !.int8_asap = FALSE]
        /\ TakeTick(o) = [y EXCEPT !.int8_asap = FALSE]
    BY DEF RefTick, TakeTick
  <1>3. o.inst_count = r.inst_count % Period
    BY DEF InStep
  <1> HIDE DEF x, y
  <1>4. RefTick(r) \in RefState /\ TakeTick(o) \in CpuState
    BY <1>1, <1>2 DEF RefState, CpuState
  <1>5. /\ Agree(RefTick(r), TakeTick(o)) /\ ~TakeTick(o).int8_asap
        /\ RefTick(r).inst_count = r.inst_count /\ TakeTick(o).inst_count = o.inst_count
    BY <1>1, <1>2 DEF RefState, CpuState, Agree, Uncounted
  <1>6. QED
    BY <1>3, <1>4, <1>5 DEF InStep, Pair

(* and then the keyboard's; ESC makes the next tick due in both.             *)
LEMMA KeyAgrees ==
  ASSUME NEW r, NEW o, InStep(r, o), ~o.int8_asap, NEW escape \in BOOLEAN
  PROVE  /\ InStep(RefKey(r, escape), TakeKey(o, escape))
         /\ RefKey(r, escape).inst_count = r.inst_count
  <1> DEFINE a == [r EXCEPT !.int8_asap = escape]
             b == [o EXCEPT !.int8_asap = escape]
  <1>1. r \in RefState /\ o \in CpuState /\ Agree(r, o) /\ o.inst_count = r.inst_count % Period
    BY DEF InStep, Pair
  <1>2. (IF escape THEN [o EXCEPT !.int8_asap = TRUE] ELSE o) = b
    BY <1>1 DEF CpuState
  <1>3. RefKey(r, escape) = RefInterrupt(a, 7) /\ TakeKey(o, escape) = PcInterrupt(b, 7)
    BY <1>2 DEF RefKey, TakeKey
  <1>4. /\ Pair(a, b) /\ a.inst_count = r.inst_count /\ b.inst_count = o.inst_count
    BY <1>1 DEF RefState, CpuState, Agree, Pair
  <1> HIDE DEF a, b
  <1>5. /\ Pair(RefInterrupt(a, 7), PcInterrupt(b, 7))
        /\ Uncounted(a, RefInterrupt(a, 7), b, PcInterrupt(b, 7))
    BY <1>4, InterruptAgrees, CpuAssumption
  <1>6. QED
    BY <1>1, <1>3, <1>4, <1>5 DEF InStep, Uncounted

-----------------------------------------------------------------------------
(* What each part of the reference's iteration leaves is a state of it, for *)
(* every guest, TF and interrupts included.                                 *)
LEMMA RefInterruptIs ==
  ASSUME NEW r \in RefState, NEW v \in Vector
  PROVE  RefInterrupt(r, v) \in RefState
  <1> DEFINE q == Append(r.pushed, [at |-> r.at, IFlag |-> r.IFlag, TFlag |-> r.TFlag])
  <1>1. [at |-> r.at, IFlag |-> r.IFlag, TFlag |-> r.TFlag] \in Frame /\ r.pushed \in Seq(Frame)
    BY DEF RefState, Frame
  <1>2. q \in Seq(Frame) /\ Isr[v] \in Loc
    BY <1>1, AppendProperties, CpuAssumption
  <1>3. RefInterrupt(r, v) = [r EXCEPT !.pushed = q, !.at = Isr[v], !.IFlag = FALSE, !.TFlag = FALSE]
    BY DEF RefInterrupt
  <1> HIDE DEF q
  <1>4. QED
    BY <1>2, <1>3 DEF RefState

LEMMA RefDecrementIs ==
  ASSUME NEW r \in RefState
  PROVE  /\ RefDecrement([r EXCEPT !.pushed = <<>>]) \in RefState
         /\ RefDecrement([r EXCEPT !.pushed = <<>>]).seg_override_en \in 0..1
         /\ RefDecrement([r EXCEPT !.pushed = <<>>]).rep_override_en \in 0..1
  <1> DEFINE m == IF r.seg_override_en # 0 THEN r.seg_override_en - 1 ELSE r.seg_override_en
             n == IF r.rep_override_en # 0 THEN r.rep_override_en - 1 ELSE r.rep_override_en
             s == [r EXCEPT !.pushed = <<>>]
  <1>1. m \in 0..1 /\ n \in 0..1 /\ 0..1 \subseteq 0..2 /\ <<>> \in Seq(Frame)
    BY DEF RefState
  <1>2. s \in RefState /\ s.seg_override_en = r.seg_override_en /\ s.rep_override_en = r.rep_override_en
    BY <1>1 DEF RefState
  <1> HIDE DEF s
  <1>3. RefDecrement(s) = [s EXCEPT !.seg_override_en = m, !.rep_override_en = n]
    BY <1>2 DEF RefDecrement, RefState
  <1> HIDE DEF m, n
  <1>4. QED
    BY <1>1, <1>2, <1>3 DEF RefState, s

LEMMA RefSwitchIs ==
  ASSUME NEW r \in RefState, r.seg_override_en \in 0..1, r.rep_override_en \in 0..1,
         NEW i, WellFormed(i)
  PROVE  RefSwitch(r, i) \in RefState
  <1> DEFINE a == [r EXCEPT !.at = i.to]
             x == RefSwitch(r, i)
             sb == IF a.seg_override_en # 0 THEN a.seg_override_en + 1 ELSE a.seg_override_en
             rb == IF a.rep_override_en # 0 THEN a.rep_override_en + 1 ELSE a.rep_override_en
  <1>1. /\ a \in RefState
        /\ a.seg_override_en = r.seg_override_en /\ a.rep_override_en = r.rep_override_en
    BY DEF RefState, WellFormed
  <1>2. sb \in 0..2 /\ rb \in 0..2 /\ 1 \in 0..2 /\ 2 \in 0..2
    BY <1>1
  <1>3. x = CASE i.op = "rep" ->
                   [a EXCEPT !.rep_override_en = 2, !.rep_mode = i.mode, !.seg_override_en = sb]
              [] i.op = "seg" ->
                   [a EXCEPT !.seg_override_en = 2, !.seg_override = i.sreg,
                             !.rep_override_en = rb]
              [] i.op = "lea"   -> [a EXCEPT !.seg_override_en = 1, !.seg_override = None]
              [] i.op = "flags" -> [a EXCEPT !.IFlag = i.IFlag, !.TFlag = i.TFlag]
              [] i.op = "int"   -> RefInterrupt(a, i.vec)
              [] OTHER          -> a
    BY <1>1 DEF RefSwitch, RefState
  <1> HIDE DEF a, x, sb, rb
  <1>4. CASE i.op = "int"
    BY <1>1, <1>3, <1>4, RefInterruptIs DEF WellFormed, x
  <1>5. CASE i.op = "seg"
    <2>1. x = [a EXCEPT !.seg_override_en = 2, !.seg_override = i.sreg, !.rep_override_en = rb]
      BY <1>3, <1>5
    <2>2. i.sreg \in SegReg
      BY <1>5 DEF WellFormed
    <2>3. x \in RefState
      BY <1>1, <1>2, <2>1, <2>2 DEF RefState
    <2>4. QED
      BY <2>3 DEF x
  <1>6. CASE i.op = "rep"
    <2>1. x = [a EXCEPT !.rep_override_en = 2, !.rep_mode = i.mode, !.seg_override_en = sb]
      BY <1>3, <1>6
    <2>2. i.mode \in RepMode
      BY <1>6 DEF WellFormed
    <2>3. x \in RefState
      BY <1>1, <1>2, <2>1, <2>2 DEF RefState
    <2>4. QED
      BY <2>3 DEF x
  <1>7. CASE i.op = "lea"
    <2>1. x = [a EXCEPT !.seg_override_en = 1, !.seg_override = None]
      BY <1>3, <1>7
    <2>2. x \in RefState
      BY <1>1, <1>2, <2>1 DEF RefState
    <2>3. QED
      BY <2>2 DEF x
  <1>8. CASE i.op = "flags"
    <2>1. x = [a EXCEPT !.IFlag = i.IFlag, !.TFlag = i.TFlag]
      BY <1>3, <1>8
    <2>2. i.IFlag \in BOOLEAN /\ i.TFlag \in BOOLEAN
      BY <1>8 DEF WellFormed
    <2>3. x \in RefState
      BY <1>1, <2>1, <2>2 DEF RefState
    <2>4. QED
      BY <2>3 DEF x
  <1>9. CASE i.op \notin {"int", "seg", "rep", "lea", "flags"}
    BY <1>1, <1>3, <1>9 DEF x
  <1>10. QED
    BY <1>4, <1>5, <1>6, <1>7, <1>8, <1>9

LEMMA RefTimerIs == ASSUME NEW r \in RefState PROVE RefTimer(r) \in RefState
  <1> DEFINE n == (r.inst_count + 1) % Wrap
  <1>1. n \in Nat
    BY WrapAssumption, CpuAssumption DEF RefState
  <1>2. RefTimer(r) = [r EXCEPT !.inst_count = n, !.int8_asap = IF n % Period = 0 THEN TRUE ELSE @]
    BY DEF RefTimer
  <1> HIDE DEF n
  <1>3. QED
    BY <1>1, <1>2 DEF RefState

LEMMA RefTrapIs == ASSUME NEW r \in RefState PROVE RefTrap(r) \in RefState
  <1> DEFINE t == IF r.trap_flag THEN RefInterrupt(r, 1) ELSE r
  <1>1. t \in RefState
    BY RefInterruptIs, CpuAssumption
  <1>2. RefTrap(r) = [t EXCEPT !.trap_flag = t.TFlag]
    BY DEF RefTrap
  <1> HIDE DEF t
  <1>3. QED
    BY <1>1, <1>2 DEF RefState

LEMMA RefTickIs == ASSUME NEW r \in RefState PROVE RefTick(r) \in RefState
  <1> DEFINE t == RefInterrupt(r, 10)
  <1>1. t \in RefState
    BY RefInterruptIs, CpuAssumption
  <1>2. RefTick(r) = [t EXCEPT !.int8_asap = FALSE]
    BY DEF RefTick
  <1> HIDE DEF t
  <1>3. QED
    BY <1>1, <1>2 DEF RefState

LEMMA RefKeyIs ==
  ASSUME NEW r \in RefState, NEW escape \in BOOLEAN
  PROVE  RefKey(r, escape) \in RefState
  <1> DEFINE t == [r EXCEPT !.int8_asap = escape]
  <1>1. t \in RefState
    BY DEF RefState
  <1> HIDE DEF t
  <1>2. RefInterrupt(t, 7) \in RefState
    BY <1>1, RefInterruptIs, CpuAssumption
  <1>3. QED
    BY <1>2 DEF RefKey, t

\* the reference up to the question whether it takes a tick, and ours
RefMid(i) == RefTrap(RefTimer(RefSwitch(RefDecrement([ref EXCEPT !.pushed = <<>>]), i)))
OurMid(c, i) == TickDue(Trap(Exec(DecPrefix(Deliver([c EXCEPT !.pushed = <<>>])), i)))

LEMMA RefMidIs ==
  ASSUME ref \in RefState, NEW i, WellFormed(i)
  PROVE  RefMid(i) \in RefState
  BY RefDecrementIs, RefSwitchIs, RefTimerIs, RefTrapIs DEF RefMid

LEMMA OurMidIs ==
  ASSUME NEW c \in CpuState, NEW i, WellFormed(i)
  PROVE  /\ OurMid(c, i) \in CpuState
         /\ RepUsed(DecPrefix(c)) # None => OurMid(c, i).rep_override_en # 0
  <1> DEFINE c0 == [c EXCEPT !.pushed = <<>>]
             d == Deliver(c0)
             e == DecPrefix(d)
             x == Exec(e, i)
             t == Trap(x)
  <1>1. c0 \in CpuState /\ c0.rep_override_en = c.rep_override_en
    <2>1. <<>> \in Seq(Frame)
      OBVIOUS
    <2>2. QED
      BY <2>1 DEF CpuState
  <1> HIDE DEF c0
  <1>2. d \in CpuState /\ d.rep_override_en = c.rep_override_en
    BY <1>1, DeliverIs DEF SamePrefix
  <1> HIDE DEF d
  <1>3. /\ e \in CpuState /\ e.seg_override_en \in 0..1 /\ e.rep_override_en \in 0..1
        /\ e.rep_override_en = Dec(c.rep_override_en)
    BY <1>2, DecPrefixIs
  <1> HIDE DEF e
  <1>4. /\ x \in CpuState
        /\ e.rep_override_en = 1 => x.rep_override_en # 0
    <2>1. /\ x \in CpuState
          /\ i.op = "seg" => x.rep_override_en = Bump(e.rep_override_en)
          /\ i.op = "rep" => x.rep_override_en = 2
      BY <1>3, ExecIs
    <2>2. i.op \notin {"seg", "rep"} => x.rep_override_en = e.rep_override_en
      <3> DEFINE n == (e.inst_count + 1) % Period
                 y == [e EXCEPT !.at = i.to, !.inst_count = n]
      <3>1. y \in CpuState /\ y.rep_override_en = e.rep_override_en
        <4>1. n \in 0..(Period - 1) /\ i.to \in Loc
          BY <1>3, CpuAssumption DEF CpuState, WellFormed
        <4> HIDE DEF n
        <4>2. QED
          BY <1>3, <4>1 DEF CpuState
      <3>2. x = CASE i.op = "seg" ->
                   [y EXCEPT !.seg_override_en = 2, !.seg_override = i.sreg,
                             !.rep_override_en = Bump(@)]
              [] i.op = "rep" ->
                   [y EXCEPT !.rep_override_en = 2, !.rep_mode = i.mode,
                             !.seg_override_en = Bump(@)]
              [] i.op = "lea"   -> [y EXCEPT !.seg_override_en = 1]
              [] i.op = "hlt"   -> [y EXCEPT !.halted = TRUE]
              [] i.op = "flags" -> [y EXCEPT !.IFlag = i.IFlag, !.TFlag = i.TFlag]
              [] i.op = "int"   -> PcInterrupt(y, i.vec)
              [] OTHER          -> y
        BY DEF Exec
      <3>3. i.op = "int" => PcInterrupt(y, i.vec).rep_override_en = y.rep_override_en
        BY <3>1, PcInterruptIs DEF WellFormed, SamePrefix
      <3> HIDE DEF y, x
      <3>4. QED
        BY <3>1, <3>2, <3>3 DEF CpuState
    <2>3. QED
      BY <2>1, <2>2 DEF Bump
  <1> HIDE DEF x
  <1>5. t \in CpuState /\ t.rep_override_en = x.rep_override_en
    BY <1>4, TrapIs DEF SamePrefix
  <1> HIDE DEF t
  <1>6. TickDue(t) \in CpuState /\ TickDue(t).rep_override_en = x.rep_override_en
    BY <1>5, TickDueIs DEF SamePrefix
  <1>7. RepUsed(DecPrefix(c)) # None => e.rep_override_en = 1
    BY <1>3, DecPrefixIs DEF RepUsed
  <1>8. QED
    BY <1>4, <1>6, <1>7 DEF OurMid, c0, d, e, x, t

(* So is what an iteration of ours leaves, in which an instruction under     *)
(* REP leaves the countdown running.                                         *)
LEMMA IterateIs ==
  ASSUME NEW c \in CpuState, NEW i, WellFormed(i), NEW box, NEW inq
  PROVE  /\ Iterate(c, box, inq, i).s \in CpuState
         /\ RepUsed(DecPrefix(c)) # None => Iterate(c, box, inq, i).s.rep_override_en # 0
  <1> DEFINE d == Deliver([c EXCEPT !.pushed = <<>>])
             t == OurMid(c, i)
             u == TakeTick(t)
             k == TakeKey(u, Head(inq) = Esc)
  <1>1. Iterate(c, box, inq, i).s \in {c, d, t, u, k}
    BY DEF Iterate, OurMid
  <1>2. /\ d \in CpuState /\ d.rep_override_en = c.rep_override_en
    <2>1. /\ [c EXCEPT !.pushed = <<>>] \in CpuState
          /\ [c EXCEPT !.pushed = <<>>].rep_override_en = c.rep_override_en
      <3>1. <<>> \in Seq(Frame)
        OBVIOUS
      <3>2. QED
        BY <3>1 DEF CpuState
    <2>2. QED
      BY <2>1, DeliverIs DEF SamePrefix
  <1>3. t \in CpuState /\ (RepUsed(DecPrefix(c)) # None => t.rep_override_en # 0)
    BY OurMidIs
  <1> HIDE DEF d, t
  <1>4. u \in CpuState /\ u.rep_override_en = t.rep_override_en
    BY <1>3, TakeTickIs DEF SamePrefix
  <1> HIDE DEF u
  <1>5. k \in CpuState /\ k.rep_override_en = t.rep_override_en
    BY <1>4, TakeKeyIs DEF SamePrefix
  <1> HIDE DEF k
  <1>6. RepUsed(DecPrefix(c)) # None => c.rep_override_en # 0
    BY DecPrefixIs DEF RepUsed, CpuState, Dec
  <1>7. QED
    BY <1>1, <1>2, <1>3, <1>4, <1>5, <1>6

-----------------------------------------------------------------------------
(* The states of the two sides keep their types, a harness that tests       *)
(* itself has nothing wrong and nothing to hand over, and only a harness     *)
(* between two steps has stopped.                                            *)
HarnessOK ==
  /\ ref \in RefState /\ our \in CpuState /\ WellFormed(insn)
  /\ phase \in {"begin", "ref", "our", "control"}
  /\ phase # "begin" => verdict = "running"
  /\ setup.selftest =>
       /\ wrong = {} /\ console_in = <<>> /\ phase # "control"
       /\ phase = "begin" => ref.pushed = our.pushed

LEMMA ProgramIs == ASSUME NEW i \in Program PROVE WellFormed(i)
  BY DEF Program, Instr, WellFormed

LEMMA HarnessInit == Init => HarnessOK
  <1> SUFFICES ASSUME Init PROVE HarnessOK
    OBVIOUS
  <1>1. PICK s \in setup.segs : our = CpuInit(s)
    BY DEF Init
  <1>2. s \in SegReg
    BY <1>1, SetupAssumption DEF Init, Setup
  <1>3. CpuInit(s) \in CpuState
    BY <1>2, CpuAssumption DEF CpuInit, CpuState, RepMode
  <1>4. our \in CpuState /\ ref = [our EXCEPT !.seg_override = None]
    BY <1>1, <1>3 DEF Init
  <1>5. ref \in RefState
    BY <1>4 DEF CpuState, RefState
  <1>6. QED
    BY <1>4, <1>5, CpuAssumption DEF Init, HarnessOK, NoInsn, WellFormed

(* What a step of the reference makes of it.                                *)
LEMMA RefStepIs ==
  ASSUME ref \in RefState, NEW i, WellFormed(i), RefStep(i)
  PROVE  ref' \in RefState
  <1> DEFINE c == RefMid(i)
             d == RefTick(c)
             k == RefKey(d, Head(queue) = Esc)
  <1>1. ref' \in {c, d, k}
    BY DEF RefStep, RefMid
  <1>2. c \in RefState
    BY RefMidIs
  <1> HIDE DEF c
  <1>3. d \in RefState
    BY <1>2, RefTickIs
  <1> HIDE DEF d
  <1>4. k \in RefState
    BY <1>3, RefKeyIs
  <1>5. QED
    BY <1>1, <1>2, <1>3, <1>4

\* the copy that the harness makes when it tests itself
Copy ==
  [ref EXCEPT !.seg_override = IF @ = None THEN CHOOSE r \in SegReg : TRUE ELSE @,
              !.halted = our.halted, !.int_pending = our.int_pending,
              !.inst_count = @ % Period]

(* It is a state of ours, and the comparator tells it from the reference     *)
(* in nothing.                                                               *)
LEMMA CopyIs ==
  ASSUME ref \in RefState, our \in CpuState
  PROVE  /\ Copy \in CpuState
         /\ AgreeCheap(ref, Copy, {})
         /\ AgreeMemory(ref, Copy, refbox, refbox, {})
         /\ Copy.pushed = ref.pushed
  <1> DEFINE g == IF ref.seg_override = None THEN CHOOSE r \in SegReg : TRUE ELSE ref.seg_override
             n == ref.inst_count % Period
  <1>1. g \in SegReg
    BY CpuAssumption DEF RefState
  <1>2. n \in 0..(Period - 1)
    BY CpuAssumption DEF RefState
  <1>3. our.halted \in BOOLEAN /\ our.int_pending \in BOOLEAN
    BY DEF CpuState
  <1>4. Copy = [ref EXCEPT !.seg_override = g, !.halted = our.halted,
                           !.int_pending = our.int_pending, !.inst_count = n]
    BY DEF Copy, RefState
  <1>5. ref.seg_override # None => g = ref.seg_override
    OBVIOUS
  <1> HIDE DEF g, n
  <1>6. Copy \in CpuState
    BY <1>1, <1>2, <1>3, <1>4 DEF RefState, CpuState
  <1>7. QED
    BY <1>4, <1>5, <1>6 DEF RefState, AgreeCheap, AgreeMemory

LEMMA HarnessStep == HarnessOK /\ [Next]_vars => HarnessOK'
  <1> SUFFICES ASSUME HarnessOK, [Next]_vars PROVE HarnessOK'
    OBVIOUS
  <1>1. WellFormed(NoInsn)
    BY CpuAssumption DEF NoInsn, WellFormed
  <1>2. CASE StepBegin
    BY <1>2 DEF StepBegin, HarnessOK, settings, kbd
  <1>3. ASSUME NEW i \in Program, RefStep(i) PROVE HarnessOK'
    <2>1. WellFormed(i)
      BY ProgramIs
    <2>2. ref' \in RefState
      BY <1>3, <2>1, RefStepIs DEF HarnessOK
    <2>3. /\ insn' = i /\ phase' = "our" /\ phase = "ref"
          /\ UNCHANGED <<our, console_in, setup, wrong, verdict>>
      BY <1>3 DEF RefStep, settings
    <2>4. QED
      BY <2>1, <2>2, <2>3 DEF HarnessOK
  <1>4. CASE StepEnd
    <2>1. our' \in CpuState
      <3>1. our' = Iterate(our, ourbox, console_in \o consumed, insn).s
        BY <1>4 DEF StepEnd
      <3>2. QED
        BY <3>1, IterateIs DEF HarnessOK
    <2>2. /\ phase = "our" /\ ~setup.selftest
          /\ (phase' = "control" /\ verdict' = verdict) \/ phase' = "begin"
          /\ insn' = NoInsn /\ ref' = ref /\ setup' = setup
      BY <1>4 DEF StepEnd
    <2>3. QED
      BY <1>1, <2>1, <2>2 DEF HarnessOK
  <1>5. CASE SelfTest
    <2>1. our' = Copy
      BY <1>5 DEF SelfTest, Copy
    <2>2. /\ phase' = "begin" /\ insn' = NoInsn
          /\ UNCHANGED <<setup, ref, console_in, wrong>>
      BY <1>5 DEF SelfTest, kbd
    <2>3. QED
      BY <1>1, <2>1, <2>2, CopyIs DEF HarnessOK
  <1>6. CASE \E c \in Commands : Serve(c)
    BY <1>6 DEF Serve, HarnessOK, kbd
  <1>7. CASE Conclude
    BY <1>7 DEF Conclude, HarnessOK, kbd, settings
  <1>8. CASE UNCHANGED vars
    BY <1>8 DEF vars, settings, kbd, HarnessOK
  <1>9. QED
    BY <1>2, <1>3, <1>4, <1>5, <1>6, <1>7, <1>8 DEF Next

(* Both states, the keys on their way and the phases of a step keep their    *)
(* types, for every set-up and whatever is typed or commanded (harness.c).   *)
THEOREM HarnessTyped == Spec => []HarnessOK
  BY HarnessInit, HarnessStep, PTL DEF Spec

-----------------------------------------------------------------------------
(* What stands at the end of a step: no wrong register, no wrong byte that   *)
(* was looked at, and memory looked at when REP was in force.                *)
Waits ==
  phase = "control" \/ (phase = "begin" /\ verdict \in {"running", "limit"}) =>
    /\ "register" \notin wrong
    /\ "memory" \in wrong => ~last.scanned
    /\ last.rep /\ ~setup.selftest => last.scanned

LEMMA WaitsInit == Init => Waits
  BY DEF Init, Waits

LEMMA WaitsStep == HarnessOK /\ Waits /\ [Next]_vars => Waits'
  <1> SUFFICES ASSUME HarnessOK, Waits, [Next]_vars PROVE Waits'
    OBVIOUS
  <1>1. CASE StepBegin
    BY <1>1 DEF StepBegin, Waits, settings
  <1>2. CASE \E i \in Program : RefStep(i)
    BY <1>2 DEF RefStep, Waits
  <1>3. CASE StepEnd
    <2> DEFINE r == Iterate(our, ourbox, console_in \o consumed, insn)
               rep == RepUsed(DecPrefix(our)) # None
    <2>1. PICK w \in Faulty(steps + 1) :
            LET full == NeedsFull(ref, r.s, w)
            IN  /\ wrong' = w /\ last' = [rep |-> rep, scanned |-> full]
                /\ IF /\ AgreeCheap(ref, r.s, w)
                      /\ full => AgreeMemory(ref, r.s, refbox, r.box, w)
                     THEN phase' = "control" /\ UNCHANGED verdict
                     ELSE phase' = "begin" /\ verdict' = "diverged"
      BY <1>3 DEF StepEnd
    <2>2. rep => r.s.rep_override_en # 0
      BY IterateIs DEF HarnessOK
    <2> HIDE DEF r, rep
    <2>3. rep => NeedsFull(ref, r.s, w)
      BY <2>2 DEF NeedsFull
    <2>4. AgreeCheap(ref, r.s, w) => "register" \notin w
      BY DEF AgreeCheap
    <2>5. AgreeMemory(ref, r.s, refbox, r.box, w) => "memory" \notin w
      BY DEF AgreeMemory
    <2>6. CASE /\ AgreeCheap(ref, r.s, w)
               /\ NeedsFull(ref, r.s, w) => AgreeMemory(ref, r.s, refbox, r.box, w)
      <3>1. wrong' = w /\ last'.rep = rep /\ last'.scanned = NeedsFull(ref, r.s, w)
        BY <2>1
      <3>2. QED
        BY <2>3, <2>4, <2>5, <2>6, <3>1 DEF Waits
    <2>7. CASE ~(/\ AgreeCheap(ref, r.s, w)
                 /\ NeedsFull(ref, r.s, w) => AgreeMemory(ref, r.s, refbox, r.box, w))
      BY <2>1, <2>7 DEF Waits
    <2>8. QED
      BY <2>6, <2>7
  <1>4. CASE SelfTest
    <2>1. setup.selftest /\ wrong = {} /\ UNCHANGED <<setup, wrong, last>>
      BY <1>4 DEF SelfTest, HarnessOK
    <2>2. phase' = "begin"
      BY <1>4 DEF SelfTest
    <2>3. QED
      BY <2>1, <2>2 DEF Waits
  <1>5. CASE \E c \in Commands : Serve(c)
    BY <1>5 DEF Serve, Waits
  <1>6. CASE Conclude
    BY <1>6 DEF Conclude, Waits, settings
  <1>7. CASE UNCHANGED vars
    BY <1>7 DEF vars, settings, Waits
  <1>8. QED
    BY <1>1, <1>2, <1>3, <1>4, <1>5, <1>6, <1>7 DEF Next

(* The fast comparison puts off nothing but single stores, for every guest,  *)
(* every fault, and every switch of the mode by a command (harness.c, lines  *)
(* 1018-1057).                                                               *)
THEOREM StoresWait == Spec => []OnlyStoresWait
  <1>1. Waits => OnlyStoresWait
    BY DEF Waits, OnlyStoresWait
  <1>2. QED
    BY <1>1, WaitsInit, WaitsStep, HarnessTyped, PTL DEF Spec

-----------------------------------------------------------------------------
(* One iteration of each, from states in step: they agree up to the tick,    *)
LEMMA MidAgrees ==
  ASSUME InStep(ref, our), ref.inst_count + 1 < Wrap,
         NEW i, WellFormed(i), i.op # "hlt", i.op = "flags" => ~i.TFlag
  PROVE  /\ InStep(RefMid(i), OurMid(our, i))
         /\ RefMid(i).inst_count = ref.inst_count + 1
         /\ ~Deliver([our EXCEPT !.pushed = <<>>]).halted
  <1> DEFINE r1 == RefDecrement([ref EXCEPT !.pushed = <<>>])
             d == Deliver([our EXCEPT !.pushed = <<>>])
             o1 == DecPrefix(d)
             r2 == RefSwitch(r1, i)
             o2 == Exec(o1, i)
  <1>1. Pair(ref, our) /\ our.inst_count = ref.inst_count % Period /\ ref.inst_count \in Nat
    BY DEF InStep, Pair, RefState
  <1>2. /\ Pair(r1, o1) /\ r1.inst_count = ref.inst_count /\ o1.inst_count = our.inst_count
        /\ o1.seg_override_en \in 0..1 /\ o1.rep_override_en \in 0..1 /\ ~d.halted
    BY <1>1, CountDownAgrees DEF Uncounted
  <1> HIDE DEF r1, o1
  <1>3. /\ Pair(r2, o2) /\ r2.inst_count = r1.inst_count
        /\ o2.inst_count = (o1.inst_count + 1) % Period
    BY <1>2, SwitchAgrees
  <1>4. o2.inst_count = (r2.inst_count + 1) % Period
    BY <1>1, <1>2, <1>3, CountUp, CpuAssumption
  <1> HIDE DEF r2, o2
  <1>5. /\ InStep(RefTrap(RefTimer(r2)), TickDue(Trap(o2)))
        /\ RefTrap(RefTimer(r2)).inst_count = ref.inst_count + 1
    BY <1>2, <1>3, <1>4, TimerAgrees
  <1>6. QED
    BY <1>2, <1>5 DEF RefMid, OurMid, r1, d, o1, r2, o2

(* and at the end, the key the reference read given to ours.                 *)
LEMMA RefStepAgrees ==
  ASSUME InStep(ref, our), refbox = ourbox, ref.at # Exit, ref.inst_count + 1 < Wrap,
         consumed = <<>>, NEW i, WellFormed(i), i.op # "hlt", i.op = "flags" => ~i.TFlag,
         RefStep(i)
  PROVE  LET next == Iterate(our, ourbox, consumed', i)
         IN  /\ InStep(ref', next.s) /\ refbox' = next.box /\ next.inq = <<>>
             /\ ref'.inst_count = ref.inst_count + 1
  <1> DEFINE c == RefMid(i)
             t == OurMid(our, i)
             h == Head(queue)
             next == Iterate(our, ourbox, consumed', i)
  <1>1. /\ InStep(c, t) /\ c.inst_count = ref.inst_count + 1
        /\ ~Deliver([our EXCEPT !.pushed = <<>>]).halted
    BY MidAgrees
  <1>2. our.at # Exit
    BY DEF InStep, Pair, Agree
  <1>3. IF RefTickOpen(c)
          THEN IF queue # <<>>
                 THEN /\ ref' = RefKey(RefTick(c), h = Esc)
                      /\ refbox' = h /\ consumed' = <<h>>
                 ELSE ref' = RefTick(c) /\ refbox' = refbox /\ consumed' = <<>>
          ELSE ref' = c /\ refbox' = refbox /\ consumed' = <<>>
    BY DEF RefStep, RefMid
  <1>4. next = IF t.int8_asap /\ Open(t)
                 THEN IF consumed' # <<>>
                        THEN [s |-> TakeKey(TakeTick(t), Head(consumed') = Esc),
                              box |-> Head(consumed'), inq |-> Tail(consumed')]
                        ELSE [s |-> TakeTick(t), box |-> ourbox, inq |-> consumed']
                 ELSE [s |-> t, box |-> ourbox, inq |-> consumed']
    BY <1>1, <1>2 DEF Iterate, OurMid
  <1>5. RefTickOpen(c) <=> t.int8_asap /\ Open(t)
    BY <1>1, OpenAgrees DEF InStep
  <1> HIDE DEF c, t, next
  <1>6. CASE ~RefTickOpen(c)
    BY <1>1, <1>3, <1>4, <1>5, <1>6 DEF next
  <1>7. CASE RefTickOpen(c) /\ queue = <<>>
    <2>1. InStep(RefTick(c), TakeTick(t)) /\ RefTick(c).inst_count = c.inst_count
      BY <1>1, TickAgrees
    <2>2. QED
      BY <1>1, <1>3, <1>4, <1>5, <1>7, <2>1 DEF next
  <1>8. CASE RefTickOpen(c) /\ queue # <<>>
    <2>1. /\ InStep(RefTick(c), TakeTick(t)) /\ ~TakeTick(t).int8_asap
          /\ RefTick(c).inst_count = c.inst_count
      BY <1>1, TickAgrees
    <2>2. /\ InStep(RefKey(RefTick(c), h = Esc), TakeKey(TakeTick(t), h = Esc))
          /\ RefKey(RefTick(c), h = Esc).inst_count = c.inst_count
      BY <2>1, KeyAgrees
    <2>3. /\ consumed' = <<h>> /\ consumed' # <<>>
          /\ Head(consumed') = h /\ Tail(consumed') = <<>>
      <3>1. consumed' = <<h>>
        BY <1>3, <1>8
      <3>2. <<h>> # <<>> /\ Head(<<h>>) = h /\ Tail(<<h>>) = <<>>
        <4> HIDE DEF h
        <4>1. QED
          OBVIOUS
      <3>3. QED
        BY <3>1, <3>2
    <2>4. QED
      BY <1>1, <1>3, <1>4, <1>5, <1>8, <2>2, <2>3 DEF next
  <1>9. QED
    BY <1>6, <1>7, <1>8

\* between the steps the two are in step; while ours is a step behind, its next
\* iteration, with the key handed over, brings it there
SyncInv ==
  ~setup.selftest =>
    /\ phase # "our" =>
         /\ InStep(ref, our) /\ refbox = ourbox
         /\ console_in = <<>> /\ consumed = <<>>
         /\ ref.inst_count = steps
    /\ phase = "ref" => ref.at # Exit /\ steps < setup.steps
    /\ phase = "our" =>
         LET next == Iterate(our, ourbox, console_in \o consumed, insn)
         IN  /\ InStep(ref, next.s) /\ refbox = next.box /\ next.inq = <<>>
             /\ ref.inst_count = steps + 1

\* set-ups whose runs can be compared: the guest uses no HLT, which the
\* reference lacks, sets no TF, on which the two differ, and the reference's
\* counter of instructions does not wrap
Comparable(u) ==
  u.selftest \/ ("hlt" \notin u.ops /\ TRUE \notin u.tf /\ u.steps < Wrap)

LEMMA SyncInit == Init /\ ControlOK => SyncInv
  <1> SUFFICES ASSUME Init, ControlOK PROVE SyncInv
    OBVIOUS
  <1>1. HarnessOK
    BY HarnessInit
  <1>2. PICK s \in setup.segs : our = CpuInit(s) /\ ref = [our EXCEPT !.seg_override = None]
    BY DEF Init
  <1>3. our \in CpuState /\ ref \in RefState
    BY <1>1 DEF HarnessOK
  <1>4. /\ ~our.TFlag /\ ~our.trap_flag /\ ~our.halted /\ ~our.int_pending /\ our.inst_count = 0
    BY <1>2 DEF CpuInit
  <1>5. Agree(ref, our) /\ ref.inst_count = 0
    BY <1>2, <1>3, <1>4 DEF CpuState, RefState, Agree
  <1>6. 0 % Period = 0
    BY CpuAssumption
  <1>7. InStep(ref, our)
    BY <1>3, <1>4, <1>5, <1>6 DEF InStep, Pair
  <1>8. steps = 0
    BY StartIs DEF Init, ControlOK, steps
  <1>9. QED
    BY <1>5, <1>7, <1>8 DEF Init, SyncInv

LEMMA SyncStep ==
  ASSUME \A u \in Setups : Comparable(u), ControlOK, HarnessOK, SyncInv, [Next]_vars
  PROVE  SyncInv'
  <1>1. CASE setup.selftest
    BY <1>1, StepIs DEF SyncInv
  <1> SUFFICES ASSUME ~setup.selftest PROVE SyncInv'
    BY <1>1
  <1>2. setup \in Setup /\ setup' = setup /\ Comparable(setup)
    BY SetupAssumption, StepIs DEF ControlOK
  <1>3. CASE StepBegin
    BY <1>3 DEF StepBegin, SyncInv, settings, boxes, kbd, steps
  <1>4. ASSUME NEW i \in Program, RefStep(i) PROVE SyncInv'
    <2>1. WellFormed(i)
      BY ProgramIs
    <2>2. i.op # "hlt" /\ (i.op = "flags" => ~i.TFlag)
      BY <1>2, <2>1 DEF Program, Comparable, WellFormed
    <2>3. /\ phase = "ref" /\ phase' = "our" /\ insn' = i
          /\ UNCHANGED <<our, ourbox, console_in, knobs, setup>>
      BY <1>4 DEF RefStep, settings
    <2>4. /\ InStep(ref, our) /\ refbox = ourbox /\ console_in = <<>> /\ consumed = <<>>
          /\ ref.inst_count = steps /\ ref.at # Exit /\ steps < setup.steps
      BY <2>3 DEF SyncInv
    <2>5. steps \in Nat /\ setup.steps \in Nat /\ setup.steps < Wrap /\ Wrap \in Nat
      BY <1>2, WrapAssumption DEF ControlOK, Knobs, Variable, ReadOnly, steps, Comparable, Setup
    <2>6. LET next == Iterate(our, ourbox, consumed', i)
          IN  /\ InStep(ref', next.s) /\ refbox' = next.box /\ next.inq = <<>>
              /\ ref'.inst_count = steps + 1
      BY <1>4, <2>1, <2>2, <2>4, <2>5, RefStepAgrees
    <2>7. console_in' \o consumed' = consumed'
      <3>1. \E h : consumed' \in {<<>>, <<h>>}
        BY <1>4, <2>4 DEF RefStep
      <3>2. <<>> \o consumed' = consumed'
        BY <3>1, ConcatEmptySeq
      <3>3. QED
        BY <2>3, <2>4, <3>2
    <2>8. QED
      BY <2>3, <2>6, <2>7 DEF SyncInv, steps
  <1>5. CASE StepEnd
    <2> DEFINE next == Iterate(our, ourbox, console_in \o consumed, insn)
    <2>1. /\ InStep(ref, next.s) /\ refbox = next.box /\ next.inq = <<>>
          /\ ref.inst_count = steps + 1
      BY <1>5 DEF StepEnd, SyncInv
    <2>2. /\ our' = next.s /\ ourbox' = next.box /\ console_in' = next.inq /\ consumed' = <<>>
          /\ ref' = ref /\ refbox' = refbox /\ setup' = setup
          /\ phase' \in {"control", "begin"}
      BY <1>5 DEF StepEnd, KeyHandedOver
    <2>3. steps' = steps + 1
      <3>1. PICK full \in BOOLEAN : knobs' = Counted(full)
        <4>1. \A r, o, w : NeedsFull(r, o, w) \in BOOLEAN
          BY DEF NeedsFull
        <4>2. QED
          BY <1>5, <4>1 DEF StepEnd
      <3>2. QED
        BY <3>1, CountedIs DEF ControlOK, steps
    <2> HIDE DEF next
    <2>4. QED
      BY <2>1, <2>2, <2>3 DEF SyncInv
  <1>6. ASSUME NEW c \in Commands, Serve(c) PROVE SyncInv'
    <2>1. steps' = steps
      <3>1. /\ "step_count" \in Variable /\ "step_count" \notin Writable
        BY DEF Variable, ReadOnly, Writable
      <3>2. Handle(knobs, c).vars["step_count"] = knobs["step_count"]
        BY <3>1, HandleIs DEF ControlOK
      <3>3. QED
        BY <1>6, <3>2 DEF Serve, steps
    <2>2. phase = "control" /\ UNCHANGED <<ref, our, boxes, kbd, setup, phase>>
      BY <1>6 DEF Serve
    <2>3. QED
      BY <2>1, <2>2 DEF SyncInv, boxes, kbd
  <1>7. CASE Conclude
    BY <1>7 DEF Conclude, SyncInv, settings, boxes, kbd, steps
  <1>8. CASE UNCHANGED vars
    BY <1>8 DEF vars, settings, boxes, kbd, SyncInv, steps
  <1>9. CASE SelfTest
    BY <1>9 DEF SelfTest
  <1>10. QED
    BY <1>3, <1>4, <1>5, <1>6, <1>7, <1>8, <1>9 DEF Next

(* At the end of every step the two states are in step in all that steers    *)
(* them, also in what the comparator does not look at: trap latches, halt,   *)
(* pending interrupts and the counters of the tick (run.c against            *)
(* 8086tiny.c).                                                              *)
THEOREM KeepsStep ==
  ASSUME \A u \in Setups : Comparable(u)
  PROVE  Spec => []SyncInv
  <1>1. ControlOK /\ HarnessOK /\ SyncInv /\ [Next]_vars => SyncInv'
    BY SyncStep
  <1>2. QED
    BY <1>1, SyncInit, ControlInit, ControlTyped, HarnessTyped, PTL DEF Spec

(* States in step are found the same by the comparator.                      *)
LEMMA InStepCompared ==
  ASSUME NEW r, NEW o, InStep(r, o), NEW box, NEW w
  PROVE  /\ "register" \notin w => AgreeCheap(r, o, w)
         /\ "memory" \notin w => AgreeMemory(r, o, box, box, w)
  BY DEF InStep, Pair, Agree, RefState, CpuState, AgreeCheap, AgreeMemory

LEMMA LockstepStep ==
  ASSUME HarnessOK, SyncInv, LockstepHolds, [Next]_vars
  PROVE  LockstepHolds'
  <1>1. CASE StepBegin
    BY <1>1 DEF StepBegin, LockstepHolds, settings
  <1>2. CASE \E i \in Program : RefStep(i)
    BY <1>2 DEF RefStep, LockstepHolds, settings
  <1>3. CASE StepEnd
    <2> DEFINE r == Iterate(our, ourbox, console_in \o consumed, insn)
    <2>1. PICK w \in Faulty(steps + 1) :
            LET full == NeedsFull(ref, r.s, w)
            IN  /\ wrong' = w
                /\ IF /\ AgreeCheap(ref, r.s, w)
                      /\ full => AgreeMemory(ref, r.s, refbox, r.box, w)
                     THEN phase' = "control" /\ UNCHANGED verdict
                     ELSE phase' = "begin" /\ verdict' = "diverged"
      BY <1>3 DEF StepEnd
    <2>2. phase = "our" /\ verdict = "running" /\ ~setup.selftest
      BY <1>3 DEF StepEnd, HarnessOK
    <2>3. InStep(ref, r.s) /\ refbox = r.box
      BY <2>2 DEF SyncInv
    <2> HIDE DEF r
    <2>4. w = {} => AgreeCheap(ref, r.s, w) /\ AgreeMemory(ref, r.s, refbox, r.box, w)
      BY <2>3, InStepCompared
    <2>5. QED
      BY <2>1, <2>2, <2>4 DEF LockstepHolds
  <1>4. CASE SelfTest
    <2>1. wrong = {} /\ ref \in RefState /\ our \in CpuState
      BY <1>4 DEF SelfTest, HarnessOK
    <2>2. AgreeCheap(ref, Copy, wrong) /\ AgreeMemory(ref, Copy, refbox, refbox, wrong)
      BY <2>1, CopyIs
    <2>3. verdict' \in {"pass", "running"}
      BY <1>4, <2>2 DEF SelfTest, Copy
    <2>4. QED
      BY <2>3 DEF LockstepHolds
  <1>5. CASE \E c \in Commands : Serve(c)
    BY <1>5 DEF Serve, LockstepHolds
  <1>6. CASE Conclude
    BY <1>6 DEF Conclude, LockstepHolds
  <1>7. CASE UNCHANGED vars
    BY <1>7 DEF vars, settings, LockstepHolds
  <1>8. QED
    BY <1>1, <1>2, <1>3, <1>4, <1>5, <1>6, <1>7 DEF Next

(* The two emulators never differ, for every program of such a set-up and    *)
(* every arrival of keys and commands: the comparator finds nothing but a    *)
(* fault (harness.c, harness_step_end), and nothing between a state and its  *)
(* copy.                                                                     *)
THEOREM LockstepKept ==
  ASSUME \A u \in Setups : Comparable(u)
  PROVE  Spec => []LockstepHolds
  <1>1. Init => LockstepHolds
    BY DEF Init, LockstepHolds
  <1>2. HarnessOK /\ SyncInv /\ LockstepHolds /\ [Next]_vars => LockstepHolds'
    BY LockstepStep
  <1>3. QED
    BY <1>1, <1>2, HarnessTyped, KeepsStep, PTL DEF Spec

(* A key the reference reads is read by ours at the same tick, and both      *)
(* enter the same handlers in the same iteration (harness.c, lines 970-973;  *)
(* tasks/completed/emu32-task.md, line 54): what breaks the latter is TF.    *)
THEOREM KeysAndTicksTogether ==
  ASSUME \A u \in Setups : Comparable(u)
  PROVE  Spec => [](KeysTogether /\ TicksTogether)
  <1>1. HarnessOK /\ SyncInv => KeysTogether /\ TicksTogether
    BY DEF HarnessOK, SyncInv, InStep, Pair, Agree, KeysTogether, TicksTogether
  <1>2. QED
    BY <1>1, HarnessTyped, KeepsStep, PTL DEF Spec
=============================================================================
