------------------------------ MODULE MCRingBuf ------------------------------
(* Model checking of RingBuf: a ring of four slots, so that the indices    *)
(* wrap and the ring fills, and blocks of up to three bytes, so that one   *)
(* block fills the whole ring.                                             *)
EXTENDS RingBuf
=============================================================================
