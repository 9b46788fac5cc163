----------------------------- MODULE LinuxHost -----------------------------
(***************************************************************************)
(* The Linux host (main.c, platform_linux.c): the main loop that calls     *)
(* emu86_run, acts on the reason it yields for, moves keys from standard   *)
(* input to console_in and characters from console_out to standard output, *)
(* waits while the CPU is halted, and shuts down on a signal or when the   *)
(* guest jumps to 0:0.                                                     *)
(*                                                                         *)
(* Its steps are EmuRun's steps for the emulator and its own for the       *)
(* process around it; emu86_run asks a host for what EmuRun's Call, Wake,  *)
(* Drain and Type allow, and this host is shown to give it no more.        *)
(***************************************************************************)
EXTENDS EmuRun

VARIABLES
  hpc,      \* where main() is
  running,  \* the flag the signal handler clears
  stdin,    \* keys waiting on standard input
  pressed   \* history: how many keys have been pressed (bounds the model)

hvars == <<hpc, running, stdin, pressed>>
lvars == <<vars, hvars>>

HostPc == {"loop", "run", "flush", "keys", "select", "wake", "final", "done"}

LInit ==
  /\ Init
  /\ hpc = "loop" /\ running = TRUE /\ stdin = <<>> /\ pressed = 0

-----------------------------------------------------------------------------
(* The process.                                                            *)

\* bugs: the flag never looked at, and no flush on the way out
LoopUnchecked ==
  /\ hpc = "loop"
  /\ phase' = "top" /\ cycles' = 0
  /\ hpc' = "run"
  /\ UNCHANGED <<s, reason, ring, mailbox, history, running, stdin, pressed>>
LoopNoFlush ==
  /\ hpc = "loop"
  /\ IF running
       THEN /\ phase' = "top" /\ cycles' = 0
            /\ hpc' = "run"
            /\ UNCHANGED <<s, reason, ring, mailbox, history>>
       ELSE hpc' = "done" /\ UNCHANGED vars
  /\ UNCHANGED <<running, stdin, pressed>>

\* while (running), and the call of emu86_run
Loop ==
  /\ hpc = "loop"
  /\ IF running
       THEN /\ phase' = "top" /\ cycles' = 0
            /\ hpc' = "run"
            /\ UNCHANGED <<s, reason, ring, mailbox, history>>
       ELSE hpc' = "final" /\ UNCHANGED vars
  /\ UNCHANGED <<running, stdin, pressed>>

\* inside emu86_run
Emulate == hpc = "run" /\ Run /\ UNCHANGED hvars

\* bug: the yield for output not acted on
DispatchNoFlush ==
  /\ hpc = "run" /\ phase = "host"
  /\ CASE reason = "exit"      -> running' = FALSE /\ hpc' = "loop"
       [] reason = "io_needed" -> hpc' = "loop" /\ UNCHANGED running
       [] OTHER                -> hpc' = "flush" /\ UNCHANGED running
  /\ UNCHANGED <<vars, stdin, pressed>>

\* switch (yield.reason)
Dispatch ==
  /\ hpc = "run" /\ phase = "host"
  /\ IF reason = "exit"
       THEN running' = FALSE /\ hpc' = "loop"
       ELSE hpc' = "flush" /\ UNCHANGED running
  /\ UNCHANGED <<vars, stdin, pressed>>

\* bug: the keyboard looked at only when the CPU is halted
AfterFlushNoKeys == IF reason = "halted" THEN "select" ELSE "loop"

\* after flush_console, by the case it was called from
AfterFlush ==
  CASE reason = "budget"    -> "keys"
    [] reason = "halted"    -> "select"
    [] OTHER                -> "loop"    \* io_needed

\* bug: one chunk flushed, not all of them
FlushOnce ==
  /\ hpc \in {"flush", "final"}
  /\ hpc' = IF hpc = "final" THEN "done" ELSE AfterFlush
  /\ IF out > 0
       THEN out' = out - 1 /\ UNCHANGED <<s, phase, cycles, reason, inq, mailbox, history>>
       ELSE UNCHANGED vars
  /\ UNCHANGED <<running, stdin, pressed>>

\* flush_console: one character, or the end of its loop
Flush ==
  /\ hpc \in {"flush", "final"}
  /\ IF out > 0
       THEN /\ out' = out - 1
            /\ UNCHANGED <<s, phase, cycles, reason, inq, mailbox, history, hpc>>
       ELSE /\ hpc' = IF hpc = "final" THEN "done" ELSE AfterFlush
            /\ UNCHANGED vars
  /\ UNCHANGED <<running, stdin, pressed>>

\* service_keyboard: one key, or the end of its loop; a full ring drops it
Service ==
  /\ hpc = "keys"
  /\ IF stdin # <<>>
       THEN /\ IF Len(inq) < InSize - 1
                 THEN /\ inq' = Append(inq, Head(stdin))
                      /\ typed' = Append(typed, Head(stdin))
                 ELSE UNCHANGED <<inq, typed>>
            /\ stdin' = Tail(stdin)
            /\ UNCHANGED hpc
       ELSE /\ hpc' = IF reason = "halted" THEN "wake" ELSE "loop"
            /\ UNCHANGED <<inq, typed, stdin>>
  /\ UNCHANGED <<s, phase, cycles, reason, out, mailbox, heard, dropped, prefix>>
  /\ UNCHANGED <<running, pressed>>

\* bug: select() without a timeout
SelectBlocks ==
  /\ hpc = "select" /\ stdin # <<>>
  /\ hpc' = "keys"
  /\ UNCHANGED <<vars, running, stdin, pressed>>

\* select() with its 10 ms: input is there, or the time or a signal ends it
Select ==
  /\ hpc = "select"
  /\ hpc' = IF stdin # <<>> THEN "keys" ELSE "wake"
  /\ UNCHANGED <<vars, running, stdin, pressed>>

\* halted = 0, int_pending = 1, int_vector = 0x0A
WakeCpu ==
  /\ hpc = "wake"
  /\ s' = [s EXCEPT !.halted = FALSE, !.int_pending = TRUE, !.int_vector = 10,
                    !.pushed = <<>>]
  /\ hpc' = "loop"
  /\ UNCHANGED <<phase, cycles, reason, ring, mailbox, history>>
  /\ UNCHANGED <<running, stdin, pressed>>

Process == Loop \/ Emulate \/ Dispatch \/ Flush \/ Service \/ Select \/ WakeCpu

-----------------------------------------------------------------------------
(* The user at the terminal, and the signal handler.                       *)

Press(k) ==
  /\ pressed < MaxKeys
  /\ stdin' = Append(stdin, k)
  /\ pressed' = pressed + 1
  /\ UNCHANGED <<vars, hpc, running>>

\* SIGINT or SIGTERM, at any instruction of the process
Signal ==
  /\ running /\ hpc # "done"
  /\ running' = FALSE
  /\ UNCHANGED <<vars, hpc, stdin, pressed>>

LNext == Process \/ (\E k \in Key : Press(k)) \/ Signal

LSpec == LInit /\ [][LNext]_lvars

\* the operating system keeps scheduling the process, and select times out
LFairSpec == LSpec /\ WF_lvars(Process)

-----------------------------------------------------------------------------
(* The inductive invariant of the refinement: emu86_run is entered only    *)
(* with console_out drained, a call is in progress only where main() is in *)
(* it, and no key is counted twice.                                        *)
HostInv ==
  /\ hpc \in HostPc /\ running \in BOOLEAN
  /\ stdin \in Seq(Key) /\ pressed \in 0..MaxKeys
  /\ Len(typed) + Len(stdin) <= pressed
  /\ hpc # "run" => phase = "host"
  /\ hpc \in {"keys", "select", "wake", "done"} => out = 0
  /\ hpc = "loop" /\ running => out = 0

(* The program ends with nothing left in console_out, whatever the reason  *)
(* it ends for and wherever the signal struck.                             *)
FlushedAtEnd == hpc = "done" => out = 0

(* This host keeps to the contract of emu86_run: a call only with room in  *)
(* console_out below the yield mark, a wake-up only between calls, keys    *)
(* only into a ring with room.                                             *)
HostContract == Spec

(* A signal, or the guest's exit, ends the program: no call of emu86_run,  *)
(* flush, wait or burst of keys holds it up for ever.                      *)
ShutsDown == ~running ~> hpc = "done"

(* HLT is never the end: within one wait, key or no key, interrupts on or  *)
(* off, the CPU runs again or the program shuts down.                      *)
HaltWakes == s.halted ~> (~s.halted \/ hpc = "done")

(* A pressed key stays on standard input for ever only if the program ends *)
(* or, from some moment on, every call yields for output (the one reason   *)
(* for which main() does not look at the keyboard).                        *)
KeysTaken ==
  \/ <>[](reason = "io_needed")
  \/ stdin # <<>> ~> (stdin = <<>> \/ ~running)
=============================================================================
