---------------------------- MODULE MCLabelStore ----------------------------
(* Small instances of LabelStore for TLC. *)
EXTENDS LabelStore

CONSTANTS c1, c2, x, y, a, b

MCClips == {c1, c2}
MCFrames == 1..3
MCClipOf == [f \in Frames |-> IF f = GoldFrame THEN c2 ELSE c1]
MCTypes == {x, y}
MCRects == {a, b}
MCDrawable == {<<a, x>>}

(* The first clip has a track with a box a model proposed, and a frame that   *)
(* is done.  A gold check counts its tracks from the same id, and its frame's *)
(* id is that of the clip the frame is in.                                    *)
MCFirst == 1
MCGoldId == MCClipOf[GoldFrame]
MCRows ==
  [track |-> [Nothing EXCEPT ![MCFirst] = [clip |-> c1, type |-> x]],
   box |-> [t \in Tracks |-> IF t = MCFirst
                             THEN [NoBoxes EXCEPT ![1] = [at |-> a, is |-> "proposed"]]
                             ELSE NoBoxes],
   status |-> [f \in Frames |-> IF f = 2 THEN "empty" ELSE "unlabeled"], next |-> MCFirst + 1]
=============================================================================
