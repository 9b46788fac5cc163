---------------------------- MODULE EntryPoints ----------------------------
(***************************************************************************)
(* The two ways into the emulator on one state: a host that runs in        *)
(* batches with emu86_run (EmuRun) and single-steps with emu86_step_single *)
(* between two of them, as a debugger does.  A step decodes BEFORE it      *)
(* counts the prefixes down, and knows neither exit, halt, pending         *)
(* interrupt, timer nor yield.                                             *)
(***************************************************************************)
EXTENDS EmuRun

VARIABLE
  scope   \* history: were the prefixes of the last single step those written
          \* before it, as its decode and as its execution read them

bothVars == <<vars, scope>>

BothInit == Init /\ scope = [decode |-> TRUE, execute |-> TRUE]

\* emu86_step_single; the caller drains console_out as before a call
StepSingle(i) ==
  /\ phase = "host" /\ out <= Mark
  /\ i \in Program(s.at)
  /\ LET d == DecPrefix(s)
     IN  /\ s' = [Trap(Exec(d, i)) EXCEPT !.pushed = <<>>]
         /\ scope' = [decode |-> SegUsed(s) = prefix.seg,
                      execute |-> SegUsed(d) = prefix.seg /\ RepUsed(d) = prefix.rep]
  /\ Effects(i)
  /\ UNCHANGED <<phase, cycles, reason, inq, typed>>

BothNext ==
  \/ Next /\ UNCHANGED scope
  \/ \E i \in Program(s.at) : StepSingle(i)

BothSpec == BothInit /\ [][BothNext]_bothVars

\* as in EmuRun: the emulator's thread does not stop in the middle of a call
BothFairSpec == BothSpec /\ WF_bothVars(Run /\ UNCHANGED scope)

-----------------------------------------------------------------------------
(* What an instruction does as it executes - string instructions, which    *)
(* read the overrides themselves - is under the prefixes written before it *)
(* and no others, also when the prefix was executed through one entry      *)
(* point and the instruction through the other (string.h, string_src_seg   *)
(* and exec_string_op).                                                    *)
StringInScope == scope.execute

(* The effective address of an instruction is computed under the segment   *)
(* prefix written before it and no other: in particular the override LEA   *)
(* leaves behind has no effect on the next one (run.c, lines 237-241).     *)
OverrideNextOnly == scope.decode
=============================================================================
