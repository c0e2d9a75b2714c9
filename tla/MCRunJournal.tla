---------------------------- MODULE MCRunJournal ----------------------------
(***************************************************************************)
(* Two processes, two runs and one place too few invocations to keep them  *)
(* apart by accident: run names, events and results collide on purpose.    *)
(***************************************************************************)
EXTENDS RunJournal, TLC

CONSTANTS p1, p2, r1, r2, i1, i2, in1, e1, e2, ok, huge, q1, q2, polA, polB

MCSymmetry ==
    Permutations({p1, p2}) \cup Permutations({r1, r2}) \cup Permutations({i1, i2})
        \cup Permutations({e1, e2}) \cup Permutations({q1, q2})

MCCapacity == polA :> 2 @@ polB :> 1
=============================================================================
