---------------------------- MODULE MCLifecycle -----------------------------
(* Three concurrent invocations on one container, as model values.        *)
EXTENDS Lifecycle, TLC

CONSTANTS p1, p2, p3

MCProcs == {p1, p2, p3}

(* The invocations are interchangeable.                                   *)
MCSymmetry == Permutations(MCProcs)
=============================================================================
