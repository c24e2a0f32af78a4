----------------------------- MODULE MCThrottle -----------------------------
(* Throttle with limits below, at and above zero, for TLC. *)
EXTENDS Throttle

MCLimits == {-1, 0, 1, 2}
=============================================================================
