---------------------------- MODULE MCSealedCache ----------------------------
(***************************************************************************)
(* Three calls reach retirement (the third generation); one foreign file    *)
(* can sit below, among or above them.  It is a plaintext cache too, so the *)
(* purge with which each process begins finds that, generation zero or      *)
(* nothing.  With the lock of a dead process at the start, three processes  *)
(* are enough for the race of two lock holders: one mistakes the second's   *)
(* new lock for the old one, and the third slips in.                        *)
(***************************************************************************)
EXTENDS SealedCache, TLC

CONSTANTS p1, p2, p3, f1

MCSymmetry == Permutations(Process)
=============================================================================
