------------------------------ MODULE MCTraining ------------------------------
(* Small instances of Training for TLC. *)
EXTENDS Training, TLC

CONSTANTS r1, r2

MCRuns == {r1, r2}

\* Either run may come first, so the later one does better or worse.
MCScore == (r1 :> 1) @@ (r2 :> 2)
\* Runs are alike where no property looks at their scores.
MCSameScore == [r \in Runs |-> 1]
MCSymmetry == Permutations(Runs)
===============================================================================
