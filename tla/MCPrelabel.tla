------------------------------ MODULE MCPrelabel ------------------------------
(* Small instances of Prelabel for TLC. *)
EXTENDS Prelabel, TLC

CONSTANTS p1, p2, m1, m2, f1, t1, t2, c1, c2

MCTwoRuns == {p1, p2}
MCModels == {m1, m2}
MCOneFrame == {f1}
MCTypes == {t1, t2}
MCOneType == {t1}
MCOneCaller == {c1}
MCCallers == {c1, c2}

\* The frame is one of a clip.
MCClip == [f \in Frames |-> "clip"]
MCSymmetry ==
  UNION {Permutations(S) : S \in {Runs, Models, Frames, Types, Callers}}
===============================================================================
