------------------------------ MODULE Control ------------------------------
(***************************************************************************)
(* The control plane of the differential harness (control.c): text         *)
(* commands that read and set the variables of a running harness.          *)
(*                                                                         *)
(* A command is a record: its verb, the variable it names and the value it *)
(* gives, a number, a word that is none, or nothing. The values of the     *)
(* variables are a function, FALSE and TRUE being 0 and 1 in it.           *)
(*                                                                         *)
(* Operators only; Lockstep hands them the commands.                       *)
(***************************************************************************)
EXTENDS Integers

CONSTANT Ulong   \* 2^64, the range of an unsigned long long

ASSUME UlongAssumption == Ulong \in Nat /\ Ulong >= 2

Writable == {"fast_compare", "heartbeat_every", "step_limit"}
ReadOnly == {"step_count", "compare_cheap", "compare_full", "split_output", "kbd_enabled"}
Variable == Writable \cup ReadOnly
Bool == {"fast_compare", "split_output", "kbd_enabled"}

\* a minus sign negates in the unsigned type; what does not fit is the maximum
Strtoull(n) == IF n \in 1 - Ulong .. Ulong - 1 THEN n % Ulong ELSE Ulong - 1

\* var_set_str
Accepts(name, value) ==
  /\ value.is = "number"
  /\ name \in Bool => value.n \in {0, 1}

\* what the harness is left with, whether the reply is OK, and what it shows
Answer(v, ok, names) == [vars |-> v, ok |-> ok, shown |-> [x \in names |-> v[x]]]
Err(v) == Answer(v, FALSE, {})

Get(v, name) ==
  CASE name = "all"        -> Answer(v, TRUE, Variable)
    [] name \in Variable   -> Answer(v, TRUE, {name})
    [] OTHER               -> Err(v)

\* bug: the value is stored before it is judged
SetThenJudge(v, name, value) ==
  IF name \notin Writable THEN Err(v)
  ELSE LET w == [v EXCEPT ![name] = Strtoull(value.n)]
       IN  IF Accepts(name, value) THEN Answer(w, TRUE, {name}) ELSE Err(w)

Set(v, name, value) ==
  IF name \in Writable /\ Accepts(name, value)
    THEN Answer([v EXCEPT ![name] = Strtoull(value.n)], TRUE, {name})
    ELSE Err(v)

Handle(v, c) ==
  CASE c.verb \in {"ping", "help"} -> Answer(v, TRUE, {})
    [] c.verb = "get"              -> Get(v, c.name)
    [] c.verb = "set"              -> Set(v, c.name, c.value)
    [] OTHER                       -> Err(v)      \* empty, or unknown
=============================================================================
