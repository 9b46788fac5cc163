----------------------------- MODULE MCLockstep -----------------------------
(* Model checking of Lockstep.  The tick and the key have a handler each, so*)
(* that entering one instead of another shows in CS:IP.                    *)
EXTENDS Lockstep

Handlers == [v \in {0, 1, 7, 10} |->
               CASE v = 7 -> "int7" [] v = 10 -> "inta" [] OTHER -> "code"]

AllOps == {"plain", "lea", "seg", "rep", "flags"}

Plain ==
  [ops |-> AllOps, tf |-> {FALSE}, segs |-> {"ES", "CS"}, keys |-> 2, commands |-> 0,
   steps |-> 7, selftest |-> FALSE, fast |-> 0, limit |-> 6, inject |-> 0, faults |-> FALSE]

\* software interrupts as well, in fewer steps
Calling == [Plain EXCEPT !.ops = AllOps \cup {"int"}, !.limit = 4]

\* commands, faults and REP at any step, for a guest with few instructions
Watched == [Plain EXCEPT !.ops = {"plain", "rep"}, !.segs = {"ES"}, !.keys = 0, !.steps = 4]

MCSetups ==
  {Plain, Calling, [Plain EXCEPT !.selftest = TRUE, !.limit = 4],
   [Watched EXCEPT !.inject = 2, !.fast = 1]}
    \cup {[Watched EXCEPT !.fast = fast, !.limit = limit, !.commands = 2] :
            fast \in 0..1, limit \in {0, 3}}
    \cup {[Watched EXCEPT !.fast = fast, !.limit = 0, !.commands = 1, !.faults = TRUE] :
            fast \in 0..1}

TrapSetups ==
  {[Plain EXCEPT !.ops = {"plain", "flags"}, !.tf = BOOLEAN, !.segs = {"ES"},
                 !.keys = 0, !.limit = 7]}

Value(is, n) == [is |-> is, n |-> n]
Command(verb, name, value) == [verb |-> verb, name |-> name, value |-> value]
Nothing == Value("nothing", 0)

MCCommands ==
  {Command("ping", "", Nothing), Command("get", "all", Nothing),
   Command("get", "nonexistent", Nothing), Command("set", "step_count", Value("number", 1)),
   Command("set", "fast_compare", Value("word", 1))}
    \cup {Command("set", "fast_compare", Value("number", n)) : n \in 0..2}
    \cup {Command("set", "step_limit", Value("number", n)) : n \in {-1, 0, 1, 4}}
=============================================================================
