------------------------------ MODULE MCEmuRun ------------------------------
(* Model checking of EmuRun.  INT 7 leads to the BIOS keyboard handler.     *)
EXTENDS EmuRun

KbdIsr == [v \in {0, 1, 7, 10} |-> IF v = 7 THEN "kbd" ELSE "code"]
=============================================================================
