---------------------------- MODULE MCLinuxHost ----------------------------
(* Model checking of LinuxHost: the budget covers eight instructions, so a *)
(* call can yield for each of the four reasons.                            *)
EXTENDS LinuxHost

FlatIsr == [v \in {0, 1, 7, 10} |-> "code"]
=============================================================================
