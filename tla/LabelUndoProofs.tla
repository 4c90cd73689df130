--------------------------- MODULE LabelUndoProofs ----------------------------
(***************************************************************************)
(* Undoing everything brings back what the clip had when it was loaded: the *)
(* argument for UndoRestores of LabelStore, for any clips, frames, tracks   *)
(* and bounds, when every track has a box.                                  *)
(*                                                                         *)
(* The undo stack could be argued about as a whole, entry by entry; it is   *)
(* enough to follow each spot alone, a track's type or its box on a frame.  *)
(* Remembers says for every spot what it had when the clip was loaded, and  *)
(* that the oldest entry of the stack which is about it puts that back; if  *)
(* none is, then the undo that runs does, or what will undo the edit that   *)
(* the API accepted last; and if none of them is about it, then it has in   *)
(* the rows what it had, and the edits that wait found it so.  A step makes *)
(* one of these into another.  A track that undo made again has another id  *)
(* by then: Heir says which, and the rest of Undoable that it is well       *)
(* defined.                                                                 *)
(***************************************************************************)
EXTENDS LabelStoreProofs

(* Every track has a box. *)
Full(rows) ==
  \A t \in Tracks : rows.track[t] # None => \E f \in Frames : rows.box[t][f] # None

(* The tracks that boxes were copied to. *)
Made(a) == {t \in Tracks : a.made[t] # None}

(***************************************************************************)
(* What undoes an edit that was answered with a, or what is left of an undo. *)
(***************************************************************************)
After(j, a) ==
  CASE j.kind = "draw" -> [Blank("undraw") EXCEPT !.track = a.track]
    [] j.kind = "move" ->
         IF j.prev = None THEN [Blank("remove") EXCEPT !.track = j.track, !.frame = j.frame]
         ELSE [Blank("putBack") EXCEPT !.track = j.track, !.frame = j.frame, !.at = j.prev.at]
    [] j.kind = "deleteBox" ->
         IF a.gone
         THEN [Blank("recreate") EXCEPT !.track = j.track, !.clip = j.clip, !.type = j.type,
                                        !.boxes = [NoBoxes EXCEPT ![j.frame] = j.prev]]
         ELSE [Blank("putBack") EXCEPT !.track = j.track, !.frame = j.frame, !.at = j.prev.at]
    [] j.kind = "deleteTrack" ->
         [Blank("recreate") EXCEPT !.track = j.track, !.clip = j.clip, !.type = j.type,
                                   !.boxes = j.boxes]
    [] j.kind = "update" -> [Blank("rename") EXCEPT !.track = j.track, !.type = j.old]
    [] j.kind = "copy" ->
         [Blank("uncopy") EXCEPT !.frame = j.frame, !.tracks = Made(a)]
    [] j.kind = "recreate" ->
         [Blank("refill") EXCEPT !.n = j.n, !.page = j.page, !.track = a.track,
                                 !.boxes = [j.boxes EXCEPT ![j.frame] = None]]
    [] j.kind = "refill" -> [j EXCEPT !.boxes = [j.boxes EXCEPT ![j.frame] = None]]
    [] j.kind = "uncopy" -> [j EXCEPT !.tracks = j.tracks \ {Least(j.tracks)}]
    [] OTHER -> Blank("unmark")

(* The tracks an undo is about, and what of them it puts back: a box by its   *)
(* frame, the type by None.  The tracks' ids by now are given by h.          *)
About(j) == IF j.kind = "uncopy" THEN j.tracks ELSE {j.track} \intersect Tracks
Covers(j, g) ==
  \/ j.kind \in {"undraw", "recreate"}
  \/ j.kind \in {"putBack", "remove", "uncopy"} /\ g = j.frame /\ g # None
  \/ j.kind = "refill" /\ g # None /\ j.boxes[g] # None
  \/ j.kind = "rename" /\ g = None
Touches(h, j, u, g) == Covers(j, g) /\ \E t \in About(j) : h[t] = u
Restores(j, g) ==
  CASE j.kind = "recreate" -> IF g = None THEN j.type ELSE Rect(j.boxes[g])
    [] j.kind = "refill" -> Rect(j.boxes[g])
    [] j.kind = "putBack" -> j.at
    [] j.kind = "rename" -> j.type
    [] OTHER -> None

(* What an edit changes, and what it found when it was made.  Taking a box    *)
(* away may take the track away.                                             *)
Alters(j, u, g) ==
  /\ j.track = u
  /\ \/ j.kind \in {"move", "deleteBox"} /\ g = j.frame
     \/ j.kind = "deleteTrack"
     \/ j.kind = "update" /\ g = None
May(j, u, g) == Alters(j, u, g) \/ (j.kind = "deleteBox" /\ j.track = u /\ g = None)
Found(j, g) ==
  CASE j.kind \in {"move", "deleteBox"} -> IF g = None THEN j.type ELSE Rect(j.prev)
    [] j.kind = "deleteTrack" -> IF g = None THEN j.type ELSE Rect(j.boxes[g])
    [] OTHER -> j.old

Has(rows, u, g) == IF g = None THEN rows.track[u].type ELSE Rect(rows.box[u][g])

(* What the rows had to be for a request to be accepted. *)
Finds(rows, j, a) ==
  /\ j.kind \in {"move", "putBack", "refill", "deleteTrack", "undraw"} =>
       rows.track[j.track] # None
  /\ j.kind \in {"deleteBox", "remove", "uncopy"} =>
       /\ rows.box[j.track][j.frame] # None
       /\ j.track \in Tracks =>
            (a.gone <=> \A f \in Frames : f # j.frame => rows.box[j.track][f] = None)
  /\ j.kind = "copy" => \A t \in Tracks : a.made[t] # None =>
       rows.box[t][j.frame] = None /\ \E f \in Frames : rows.box[t][f] # None
  /\ j.kind \in {"draw", "recreate", "update", "rename"} => a.was.type = j.type

(* Kind by kind. *)
LEMMA AfterKinds ==
  ASSUME NEW j, NEW a
  PROVE  /\ j.kind = "draw" => After(j, a) = [Blank("undraw") EXCEPT !.track = a.track]
         /\ j.kind = "move" /\ j.prev = None =>
              After(j, a) = [Blank("remove") EXCEPT !.track = j.track, !.frame = j.frame]
         /\ (j.kind = "move" /\ j.prev # None) \/ (j.kind = "deleteBox" /\ ~a.gone) =>
              After(j, a) = [Blank("putBack") EXCEPT !.track = j.track, !.frame = j.frame,
                                                     !.at = j.prev.at]
         /\ j.kind = "deleteBox" /\ a.gone =>
              After(j, a) = [Blank("recreate") EXCEPT !.track = j.track, !.clip = j.clip,
                               !.type = j.type, !.boxes = [NoBoxes EXCEPT ![j.frame] = j.prev]]
         /\ j.kind = "deleteTrack" =>
              After(j, a) = [Blank("recreate") EXCEPT !.track = j.track, !.clip = j.clip,
                               !.type = j.type, !.boxes = j.boxes]
         /\ j.kind = "update" => After(j, a) = [Blank("rename") EXCEPT !.track = j.track,
                                                                       !.type = j.old]
         /\ j.kind = "copy" =>
              After(j, a) = [Blank("uncopy") EXCEPT !.frame = j.frame,
                               !.tracks = Made(a)]
         /\ j.kind = "recreate" =>
              After(j, a) = [Blank("refill") EXCEPT !.n = j.n, !.page = j.page, !.track = a.track,
                               !.boxes = [j.boxes EXCEPT ![j.frame] = None]]
         /\ j.kind = "refill" => After(j, a) = [j EXCEPT !.boxes = [j.boxes EXCEPT ![j.frame] = None]]
         /\ j.kind = "uncopy" => After(j, a) = [j EXCEPT !.tracks = j.tracks \ {Least(j.tracks)}]
         /\ j.kind \notin {"draw", "move", "deleteBox", "deleteTrack", "update", "copy", "recreate",
                           "refill", "uncopy"} => After(j, a) = Blank("unmark")
BY DEF After

(* The fields of it that say what it undoes. *)
LEMMA AfterShape ==
  ASSUME NEW j \in Good, NEW a \in Answer
  PROVE  LET k == After(j, a)
         IN /\ j.kind = "draw" => k.kind = "undraw" /\ k.track = a.track
            /\ j.kind = "move" =>
                 /\ k.track = j.track /\ k.frame = j.frame
                 /\ j.prev = None => k.kind = "remove"
                 /\ j.prev # None => k.kind = "putBack" /\ k.at = j.prev.at
            /\ j.kind = "deleteBox" /\ ~a.gone =>
                 k.kind = "putBack" /\ k.track = j.track /\ k.frame = j.frame /\ k.at = j.prev.at
            /\ j.kind = "deleteBox" /\ a.gone =>
                 /\ k.kind = "recreate" /\ k.track = j.track /\ k.type = j.type
                 /\ k.boxes = [NoBoxes EXCEPT ![j.frame] = j.prev]
            /\ j.kind = "deleteTrack" =>
                 k.kind = "recreate" /\ k.track = j.track /\ k.type = j.type /\ k.boxes = j.boxes
            /\ j.kind = "update" => k.kind = "rename" /\ k.track = j.track /\ k.type = j.old
            /\ j.kind = "copy" => /\ k.kind = "uncopy" /\ k.frame = j.frame
                                  /\ k.tracks = Made(a)
            /\ j.kind = "recreate" => /\ k.kind = "refill" /\ k.track = a.track
                                      /\ k.boxes = [j.boxes EXCEPT ![j.frame] = None]
            /\ j.kind = "refill" => /\ k.kind = "refill" /\ k.track = j.track
                                    /\ k.boxes = [j.boxes EXCEPT ![j.frame] = None]
            /\ j.kind = "uncopy" => /\ k.kind = "uncopy" /\ k.frame = j.frame
                                    /\ k.tracks = j.tracks \ {Least(j.tracks)}
            /\ j.kind \in {"mark", "undraw", "putBack", "remove", "rename", "unmark"} =>
                 k.kind = "unmark" /\ k.track = None
<1> DEFINE k == After(j, a)
           at == j.prev.at
           gone == [NoBoxes EXCEPT ![j.frame] = j.prev]
           rest == [j.boxes EXCEPT ![j.frame] = None]
           left == j.tracks \ {Least(j.tracks)}
<1>1. j \in Job
  BY DEF Good
<1>2. \A kind \in Edits \union Undos : Blank(kind) \in Job /\ Blank(kind).kind = kind
                                       /\ Blank(kind).track = None
  BY BlankType DEF Blank
<1>3. Undos \subseteq Edits \union Undos /\ {"undraw", "remove", "putBack", "recreate", "rename",
        "uncopy", "refill", "unmark"} = Undos
  BY DEF Undos
<1> HIDE DEF at, gone, rest, left
<1>4. CASE j.kind = "draw"
  <2>1. k = [Blank("undraw") EXCEPT !.track = a.track]
    BY <1>4, AfterKinds
  <2> HIDE DEF k
  <2>2. k.kind = "undraw" /\ k.track = a.track
    BY <1>2, <1>3, <2>1 DEF Job
  <2>3. QED BY <1>4, <2>2 DEF k
<1>5. CASE j.kind = "move"
  <2>1. CASE j.prev = None
    <3>1. k = [Blank("remove") EXCEPT !.track = j.track, !.frame = j.frame]
      BY <1>5, <2>1, AfterKinds
    <3> HIDE DEF k
    <3>2. k.kind = "remove" /\ k.track = j.track /\ k.frame = j.frame
      BY <1>2, <1>3, <3>1 DEF Job
    <3>3. QED BY <1>5, <2>1, <3>2 DEF k
  <2>2. CASE j.prev # None
    <3>1. k = [Blank("putBack") EXCEPT !.track = j.track, !.frame = j.frame, !.at = at]
      BY <1>5, <2>2, AfterKinds DEF at
    <3> HIDE DEF k
    <3>2. k.kind = "putBack" /\ k.track = j.track /\ k.frame = j.frame /\ k.at = at
      BY <1>2, <1>3, <3>1 DEF Job
    <3>3. QED BY <1>5, <2>2, <3>2 DEF k, at
  <2>3. QED BY <2>1, <2>2
<1>6. CASE j.kind = "deleteBox"
  <2>1. CASE ~a.gone
    <3>1. k = [Blank("putBack") EXCEPT !.track = j.track, !.frame = j.frame, !.at = at]
      BY <1>6, <2>1, AfterKinds DEF at
    <3> HIDE DEF k
    <3>2. k.kind = "putBack" /\ k.track = j.track /\ k.frame = j.frame /\ k.at = at
      BY <1>2, <1>3, <3>1 DEF Job
    <3>3. QED BY <1>6, <2>1, <3>2 DEF k, at
  <2>2. CASE a.gone
    <3>1. k = [Blank("recreate") EXCEPT !.track = j.track, !.clip = j.clip, !.type = j.type,
                                        !.boxes = gone]
      BY <1>6, <2>2, AfterKinds DEF gone
    <3> HIDE DEF k
    <3>2. k.kind = "recreate" /\ k.track = j.track /\ k.type = j.type /\ k.boxes = gone
      BY <1>2, <1>3, <3>1 DEF Job
    <3>3. QED BY <1>6, <2>2, <3>2 DEF k, gone
  <2>3. QED BY <2>1, <2>2
<1>7. CASE j.kind = "deleteTrack"
  <2>1. k = [Blank("recreate") EXCEPT !.track = j.track, !.clip = j.clip, !.type = j.type,
                                      !.boxes = j.boxes]
    BY <1>7, AfterKinds
  <2> HIDE DEF k
  <2>2. k.kind = "recreate" /\ k.track = j.track /\ k.type = j.type /\ k.boxes = j.boxes
    BY <1>2, <1>3, <2>1 DEF Job
  <2>3. QED BY <1>7, <2>2 DEF k
<1>8. CASE j.kind = "update"
  <2>1. k = [Blank("rename") EXCEPT !.track = j.track, !.type = j.old]
    BY <1>8, AfterKinds
  <2> HIDE DEF k
  <2>2. k.kind = "rename" /\ k.track = j.track /\ k.type = j.old
    BY <1>2, <1>3, <2>1 DEF Job
  <2>3. QED BY <1>8, <2>2 DEF k
<1>9. CASE j.kind = "copy"
  <2>1. k = [Blank("uncopy") EXCEPT !.frame = j.frame, !.tracks = Made(a)]
    BY <1>9 DEF After
  <2> HIDE DEF k
  <2>2. k.kind = "uncopy" /\ k.frame = j.frame /\ k.tracks = Made(a)
    BY <1>2, <1>3, <2>1 DEF Job
  <2>3. QED BY <1>9, <2>2 DEF k
<1>10. CASE j.kind = "recreate"
  <2>1. k = [Blank("refill") EXCEPT !.n = j.n, !.page = j.page, !.track = a.track, !.boxes = rest]
    BY <1>10, AfterKinds DEF rest
  <2> HIDE DEF k
  <2>2. k.kind = "refill" /\ k.track = a.track /\ k.boxes = rest
    BY <1>2, <1>3, <2>1 DEF Job
  <2>3. QED BY <1>10, <2>2 DEF k, rest
<1>11. CASE j.kind = "refill"
  <2>1. k = [j EXCEPT !.boxes = rest]
    BY <1>11, AfterKinds DEF rest
  <2> HIDE DEF k
  <2>2. k.kind = "refill" /\ k.track = j.track /\ k.boxes = rest
    BY <1>1, <1>11, <2>1 DEF Job
  <2>3. QED BY <1>11, <2>2 DEF k, rest
<1>12. CASE j.kind = "uncopy"
  <2>1. k = [j EXCEPT !.tracks = left]
    BY <1>12, AfterKinds DEF left
  <2> HIDE DEF k
  <2>2. k.kind = "uncopy" /\ k.frame = j.frame /\ k.tracks = left
    BY <1>1, <1>12, <2>1 DEF Job
  <2>3. QED BY <1>12, <2>2 DEF k, left
<1>13. CASE j.kind \in {"mark", "undraw", "putBack", "remove", "rename", "unmark"}
  <2>1. k = Blank("unmark")
    <3>1. j.kind \notin {"draw", "move", "deleteBox", "deleteTrack", "update", "copy", "recreate",
                         "refill", "uncopy"}
      BY <1>13
    <3>2. QED BY <3>1, AfterKinds
  <2>2. k.kind = "unmark" /\ k.track = None
    BY <1>2, <1>3, <2>1
  <2> HIDE DEF k
  <2>3. QED BY <1>13, <2>2 DEF k
<1>14. j.kind \in Edits \union Undos
  BY <1>1, JobShape
<1>15. QED BY <1>4, <1>5, <1>6, <1>7, <1>8, <1>9, <1>10, <1>11, <1>12, <1>13, <1>14 DEF Edits, Undos

(* DeleteBox says that the track is gone when it had no other box. *)
LEMMA TakeFinds ==
  ASSUME NEW rows \in Rows, NEW t \in Tracks, NEW f
  PROVE  TakeBox(rows, t, f).answer.gone <=> \A g \in Frames : g # f => rows.box[t][g] = None
<1> DEFINE box == [rows.box EXCEPT ![t][f] = None]
           left == [rows EXCEPT !.box = box]
           gone == left.box[t] = NoBoxes
<1>1. box \in [Tracks -> [Frames -> BoxOrNone]]
  BY Bits, RowsShape
<1>2. \A g \in Frames : box[t][g] = IF g = f THEN None ELSE rows.box[t][g]
  BY RowsShape
<1>3. box[t] \in [Frames -> BoxOrNone]
  BY <1>1
<1> HIDE DEF box
<1>4. left.box = box
  BY DEF Rows
<1>5. box[t] = NoBoxes <=> \A g \in Frames : box[t][g] = None
  BY <1>3 DEF NoBoxes
<1>6. TakeBox(rows, t, f).answer = [Accepted EXCEPT !.gone = gone]
  BY DEF TakeBox, Outcome, box
<1> HIDE DEF gone
<1>7. TakeBox(rows, t, f).answer.gone = gone
  BY <1>6 DEF Accepted, Refusal
<1>8. QED BY <1>2, <1>4, <1>5, <1>7 DEF gone

(* CopyBoxes makes boxes where there was none, of tracks with one before. *)
LEMMA CopyFinds ==
  ASSUME NEW rows \in Rows, NEW q, Complete(q), q.op = "copyBoxes", CopyBoxes(rows, q).answer.ok,
         NEW t \in Tracks, CopyBoxes(rows, q).answer.made[t] # None
  PROVE  rows.box[t][q.to] = None /\ rows.box[t][q.frame] # None
<1> DEFINE copies == Copied(rows, q.frame, q.to)
           done == CopyBoxes(rows, q)
<1>1. CASE ClipOf[q.frame] # ClipOf[q.to]
  BY <1>1 DEF CopyBoxes, Refuse, Refusal, Outcome
<1>2. CASE ClipOf[q.frame] = ClipOf[q.to] /\ copies = Nothing
  <2>1. done.answer = Accepted
    BY <1>2 DEF CopyBoxes, Outcome
  <2>2. done.answer.made = Nothing
    BY <2>1 DEF Accepted, Refusal
  <2>3. QED BY <2>2 DEF Nothing
<1>3. CASE ClipOf[q.frame] = ClipOf[q.to] /\ copies # Nothing
  <2>1. done.answer = [Accepted EXCEPT !.made = copies]
    BY <1>3 DEF CopyBoxes, Outcome
  <2> HIDE DEF done, copies
  <2>2. done.answer.made = copies
    BY <2>1, AcceptedWith
  <2>3. copies[t] # None
    BY <2>2 DEF done
  <2>4. QED BY <2>3 DEF copies, Copied
<1>4. QED BY <1>1, <1>2, <1>3

(* An accepted request found what it needs. *)
LEMMA HandleFinds ==
  ASSUME NEW rows \in Rows, NEW j \in Good,
         j.kind \in {"recreate", "refill"} => j.at \in Rects /\ j.frame \in Frames,
         Handle(rows, RequestOf(j)).answer.ok
  PROVE  Finds(rows, j, Handle(rows, RequestOf(j)).answer)
<1> DEFINE q == RequestOf(j)
           done == Handle(rows, q)
           a == done.answer
<1>1. Complete(q)
  BY RequestComplete
<1>2. ~Refuse(rows).answer.ok
  BY DEF Refuse, Outcome, Refusal
<1>3. CASE j.kind \in {"draw", "recreate"}
  <2>1. q.op = "createTrack" /\ q.type = j.type
    BY <1>3 DEF RequestOf, Ask
  <2> HIDE DEF q
  <2>2. done = CreateTrack(rows, q)
    BY <2>1 DEF Handle
  <2>3. done = Make(rows, q.clip, q.type, q.frame, q.at)
    BY <1>2, <2>2 DEF CreateTrack, q
  <2> DEFINE new == [clip |-> q.clip, type |-> q.type]
             n == rows.next
  <2>4. a = [Accepted EXCEPT !.track = n, !.was = new]
    BY <2>3 DEF Make, Outcome
  <2>5. new.type = j.type
    BY <2>1
  <2> HIDE DEF new, a, n
  <2>6. a.was = new
    BY <2>4, AcceptedWith
  <2>7. QED BY <1>3, <2>5, <2>6 DEF Finds, a, q
<1>4. CASE j.kind \in {"move", "putBack", "refill"}
  <2>1. q.op = "setBox" /\ q.track = j.track
    BY <1>4 DEF RequestOf, Ask
  <2> HIDE DEF q
  <2>2. done = SetBox(rows, q)
    BY <2>1 DEF Handle
  <2>3. rows.track[j.track] # None
    BY <1>2, <2>1, <2>2 DEF SetBox, q
  <2>4. QED BY <1>4, <2>3 DEF Finds
<1>5. CASE j.kind \in {"deleteBox", "remove", "uncopy"}
  <2>1. q.op = "deleteBox" /\ q.track = j.track /\ q.frame = j.frame
    BY <1>5 DEF RequestOf, Ask
  <2> HIDE DEF q
  <2>2. done = DeleteBox(rows, q)
    BY <2>1 DEF Handle
  <2>3. rows.box[j.track][j.frame] # None /\ done = TakeBox(rows, j.track, j.frame)
    BY <1>2, <2>1, <2>2 DEF DeleteBox, q
  <2>4. QED BY <1>5, <2>3, TakeFinds DEF Finds, q
<1>6. CASE j.kind \in {"deleteTrack", "undraw"}
  <2>1. q.op = "deleteTrack" /\ q.track = j.track
    BY <1>6 DEF RequestOf, Ask
  <2> HIDE DEF q
  <2>2. done = DeleteTrack(rows, q)
    BY <2>1 DEF Handle
  <2>3. rows.track[j.track] # None
    BY <1>2, <2>1, <2>2 DEF DeleteTrack, q
  <2>4. QED BY <1>6, <2>3 DEF Finds
<1>7. CASE j.kind \in {"update", "rename"}
  <2>1. q.op = "updateTrack" /\ q.track = j.track /\ q.type = j.type
    BY <1>7 DEF RequestOf, Ask
  <2>2. q.track \in Tracks
    BY <1>1, <2>1 DEF Complete
  <2> HIDE DEF q
  <2>3. done = UpdateTrack(rows, q)
    BY <2>1 DEF Handle
  <2> DEFINE old == rows.track[q.track]
             now == [old EXCEPT !.type = q.type]
  <2>4. old # None /\ a = [Accepted EXCEPT !.was = now]
    BY <1>2, <2>3 DEF UpdateTrack, Outcome, q
  <2>5. old \in Track
    BY <2>2, <2>4, RowsShape DEF TrackOrNone
  <2>6. now.type = j.type
    BY <2>1, <2>5 DEF Track
  <2> HIDE DEF now, a
  <2>7. a.was = now
    BY <2>4, AcceptedWith
  <2>8. QED BY <1>7, <2>6, <2>7 DEF Finds, a, q
<1>8. CASE j.kind = "copy"
  <2>1. q.op = "copyBoxes" /\ q.to = j.frame
    BY <1>8 DEF RequestOf, Ask
  <2>2. q.frame \in Frames
    BY <1>1, <2>1 DEF Complete
  <2> HIDE DEF q
  <2>3. done = CopyBoxes(rows, q)
    BY <2>1 DEF Handle
  <2>4. a.ok
    BY DEF q
  <2>5. ASSUME NEW t \in Tracks, a.made[t] # None
        PROVE  rows.box[t][j.frame] = None /\ rows.box[t][q.frame] # None
    BY <1>1, <2>1, <2>3, <2>4, <2>5, CopyFinds DEF q
  <2>6. QED BY <1>8, <2>2, <2>5 DEF Finds, q
<1>9. CASE j.kind \in {"mark", "unmark"}
  BY <1>9 DEF Finds
<1>10. j.kind \in Edits \union Undos
  BY JobShape DEF Good
<1>11. QED BY <1>3, <1>4, <1>5, <1>6, <1>7, <1>8, <1>9, <1>10 DEF Edits, Undos

(* No request leaves a track without a box. *)
LEMMA FullKept ==
  ASSUME NEW rows \in Rows, NEW now \in Rows, NEW j \in Good, NEW a \in Answer,
         j.kind \in {"recreate", "refill"} => j.at \in Rects /\ j.frame \in Frames,
         Effect(rows, now, j, a), a.ok => Finds(rows, j, a), Full(rows)
  PROVE  Full(now)
<1>1. CASE ~a.ok
  BY <1>1 DEF Effect
<1>2. CASE a.ok
  <2>1. Applied(rows, now, j, a) /\ Finds(rows, j, a)
    BY <1>2 DEF Effect
  <2>2. /\ j.kind \in {"draw", "move", "putBack", "recreate", "refill"} =>
             j.at \in Rects /\ j.at # None
        /\ j.kind \in {"draw", "recreate"} => j.frame \in Frames
    BY NoneAssumption DEF Good, JobOK
  <2>3. a.made \in [Tracks -> BoxOrNone]
    BY DEF Answer
  <2>4. ASSUME NEW t \in Tracks, now.track[t] # None
        PROVE  \E f \in Frames : now.box[t][f] # None
    <3> DEFINE is(f) == BoxSet(j, a, t, f, Rect(rows.box[t][f]))
    <3>1. \A f \in Frames : Rect(now.box[t][f]) = is(f)
      BY <2>1 DEF Applied
    <3>2. \A f \in Frames : is(f) # None => now.box[t][f] # None
      BY <3>1 DEF Rect
    <3>3. now.track[t] = TrackSet(j, a, t, rows.track[t])
      BY <2>1 DEF Applied
    <3>4. CASE j.kind \in {"draw", "recreate"} /\ t = a.track
      <4>1. is(j.frame) = j.at
        BY <3>4 DEF BoxSet, Places
      <4>2. QED BY <2>2, <3>2, <3>4, <4>1
    <3>5. CASE ~(j.kind \in {"draw", "recreate"} /\ t = a.track)
      <4>1. rows.track[t] # None
        BY <1>2, <2>4, <3>3, <3>5 DEF TrackSet, Brings, Effect
      <4>2. ~Drops(j, a, t)
        BY <2>4, <3>3, <3>5 DEF TrackSet, Brings, Drops
      <4>3. \E f \in Frames : rows.box[t][f] # None /\ ~Takes(j, a, t, f)
        <5>1. CASE j.kind \in {"deleteBox", "remove", "uncopy"} /\ t = j.track
          <6>1. ~a.gone
            BY <4>2, <5>1 DEF Drops
          <6>2. PICK f \in Frames : f # j.frame /\ rows.box[t][f] # None
            BY <2>1, <5>1, <6>1 DEF Finds
          <6>3. QED BY <4>2, <6>2 DEF Takes
        <5>2. CASE ~(j.kind \in {"deleteBox", "remove", "uncopy"} /\ t = j.track)
          <6>1. PICK f \in Frames : rows.box[t][f] # None
            BY <4>1 DEF Full
          <6>2. QED BY <4>2, <5>2, <6>1 DEF Takes
        <5>3. QED BY <5>1, <5>2
      <4>4. PICK f \in Frames : rows.box[t][f] # None /\ ~Takes(j, a, t, f)
        BY <4>3
      <4>5. Rect(rows.box[t][f]) # None
        BY <4>4, RowsShape, RectShape
      <4>6. Copies(j, a, t, f) => a.made[t].at # None
        BY <2>3, NoneAssumption DEF Copies, BoxOrNone, Box
      <4>7. Places(j, a, t, f) => j.at # None
        BY <2>2 DEF Places
      <4>8. is(f) # None
        BY <4>4, <4>5, <4>6, <4>7 DEF BoxSet
      <4>9. QED BY <3>2, <4>8
    <3>6. QED BY <3>4, <3>5
  <2>5. QED BY <2>4 DEF Full
<1>3. QED BY <1>1, <1>2

(* Only the API's handlers change its rows. *)
LEMMA StepFull == IInv /\ Full(api) /\ [Next]_vars => Full(api)'
<1> SUFFICES ASSUME IInv, Full(api), [Next]_vars PROVE Full(api')
  OBVIOUS
<1>1. CASE api' = api
  BY <1>1
<1>2. CASE api' # api
  <2>1. Serve
    BY <1>2, OnlyServed
  <2> DEFINE j == Running
             done == Handle(api, RequestOf(j))
  <2>2. j \in Good /\ Complete(RequestOf(j)) /\ api \in Rows
    BY <2>1, InTransit, FlightShape DEF Serve
  <2>3. j.kind \in {"recreate", "refill"} => j.at \in Rects /\ j.frame \in Frames
    BY <2>1 DEF Serve, IInv, InFlight
  <2>4. api' = done.rows
    BY <2>1 DEF Serve
  <2>5. done.rows \in Rows /\ done.answer \in Answer
    BY <2>2, HandleKeeps DEF Kept
  <2>6. Effect(api, done.rows, j, done.answer)
    BY <2>2, <2>3, HandleDoes
  <2>7. done.answer.ok => Finds(api, j, done.answer)
    BY <2>2, <2>3, HandleFinds
  <2> HIDE DEF done, j
  <2>8. QED BY <2>2, <2>3, <2>4, <2>5, <2>6, <2>7, FullKept
<1>3. QED BY <1>1, <1>2

(* When every track of the database has a box at the start, each always has:  *)
(* DeleteBox deletes a track with its last box, and no request makes a track  *)
(* without one.                                                              *)
THEOREM TracksHaveBoxes == Full(FirstRows) => (Spec => []Full(api))
<1>1. Full(FirstRows) /\ Init => Full(api)
  BY DEF Init
<1>2. QED BY <1>1, Invariant, StepFull, PTL DEF Spec

(* A box or a type: of frame g of track u, or of the track itself. *)
Spot == Frames \union {None}

(* What undoes an edit is about what the edit changed, and says what the edit *)
(* found; what it is not about, the edit left alone.                         *)
Paid(rows, now, h, j, a, u, g) ==
  LET k == After(j, a)
  IN /\ Touches(h, k, u, g) =>
          \/ May(j, u, g) /\ Restores(k, g) = Found(j, g)
          \/ g # None /\ Rect(rows.box[u][g]) = None /\ Restores(k, g) = None
          \/ j.kind = "draw" /\ u = a.track /\ Restores(k, g) = None
     /\ Alters(j, u, g) => Touches(h, k, u, g)
     /\ ~Touches(h, k, u, g) =>
          /\ g # None => Rect(now.box[u][g]) = Rect(rows.box[u][g])
          /\ g = None => now.track[u] = rows.track[u]

(* A box that was moved, drawn on or deleted. *)
LEMMA BoxEditsPay ==
  ASSUME NEW rows \in Rows, NEW now, NEW j \in Good, NEW a \in Answer, Applied(rows, now, j, a),
         Finds(rows, j, a), NEW h, \A t \in About(After(j, a)) : h[t] = t,
         NEW u \in Tracks, NEW g \in Spot, j.kind \in {"move", "deleteBox"}
  PROVE  Paid(rows, now, h, j, a, u, g)
<1> DEFINE k == After(j, a)
<1>1. j.track \in Tracks /\ j.frame \in Frames /\ j.frame # None
  BY NoneAssumption DEF Good, JobOK
<1>2. now.track[u] = TrackSet(j, a, u, rows.track[u])
  BY DEF Applied
<1>3. g # None => Rect(now.box[u][g]) = BoxSet(j, a, u, g, Rect(rows.box[u][g]))
  BY DEF Applied, Spot
<1>4. CASE j.kind = "move"
  <2>1. /\ k.track = j.track /\ k.frame = j.frame
        /\ j.prev = None => k.kind = "remove"
        /\ j.prev # None => k.kind = "putBack" /\ k.at = j.prev.at
    BY <1>4, AfterShape
  <2>2. \A t \in About(k) : h[t] = t
    OBVIOUS
  <2> HIDE DEF k
  <2>3. About(k) = {j.track}
    BY <1>1, <2>1 DEF About
  <2>4. Touches(h, k, u, g) <=> u = j.track /\ g = j.frame
    BY <1>1, <2>1, <2>2, <2>3 DEF Touches, Covers
  <2>5. Restores(k, g) = Rect(j.prev)
    BY <2>1 DEF Restores, Rect
  <2>6. ~Touches(h, k, u, g) =>
          /\ g # None => Rect(now.box[u][g]) = Rect(rows.box[u][g])
          /\ g = None => now.track[u] = rows.track[u]
    BY <1>2, <1>3, <1>4, <2>4 DEF TrackSet, Brings, Drops, BoxSet, Places, Takes, Copies
  <2>7. QED BY <1>1, <1>4, <2>4, <2>5, <2>6 DEF Paid, Alters, May, Found, k
<1>5. CASE j.kind = "deleteBox" /\ ~a.gone
  <2>1. k.kind = "putBack" /\ k.track = j.track /\ k.frame = j.frame /\ k.at = j.prev.at
    BY <1>5, AfterShape
  <2>2. \A t \in About(k) : h[t] = t
    OBVIOUS
  <2>3. j.prev # None
    BY <1>5, NoneAssumption DEF Good, JobOK, Box
  <2> HIDE DEF k
  <2>4. About(k) = {j.track}
    BY <1>1, <2>1 DEF About
  <2>5. Touches(h, k, u, g) <=> u = j.track /\ g = j.frame
    BY <1>1, <2>1, <2>2, <2>4 DEF Touches, Covers
  <2>6. Restores(k, g) = Rect(j.prev)
    BY <2>1, <2>3 DEF Restores, Rect
  <2>7. ~Touches(h, k, u, g) =>
          /\ g # None => Rect(now.box[u][g]) = Rect(rows.box[u][g])
          /\ g = None => now.track[u] = rows.track[u]
    BY <1>2, <1>3, <1>5, <2>5 DEF TrackSet, Brings, Drops, BoxSet, Places, Takes, Copies
  <2>8. QED BY <1>1, <1>5, <2>5, <2>6, <2>7 DEF Paid, Alters, May, Found, k
<1>6. CASE j.kind = "deleteBox" /\ a.gone
  <2>1. /\ k.kind = "recreate" /\ k.track = j.track /\ k.type = j.type
        /\ k.boxes = [NoBoxes EXCEPT ![j.frame] = j.prev]
    BY <1>6, AfterShape
  <2>2. \A t \in About(k) : h[t] = t
    OBVIOUS
  <2> HIDE DEF k
  <2>3. About(k) = {j.track}
    BY <1>1, <2>1 DEF About
  <2>4. Touches(h, k, u, g) <=> u = j.track
    BY <1>1, <2>1, <2>2, <2>3 DEF Touches, Covers
  <2>5. /\ g = None => Restores(k, g) = j.type
        /\ g = j.frame => Restores(k, g) = Rect(j.prev)
        /\ g \notin {None, j.frame} => Restores(k, g) = None
    BY <1>1, <2>1 DEF Restores, Rect, Spot, NoBoxes
  <2>6. u = j.track /\ g \notin {None, j.frame} => Rect(rows.box[u][g]) = None
    BY <1>6 DEF Finds, Spot, Rect
  <2>7. ~Touches(h, k, u, g) =>
          /\ g # None => Rect(now.box[u][g]) = Rect(rows.box[u][g])
          /\ g = None => now.track[u] = rows.track[u]
    BY <1>2, <1>3, <1>6, <2>4 DEF TrackSet, Brings, Drops, BoxSet, Places, Takes, Copies
  <2>8. Alters(j, u, g) => u = j.track
    BY DEF Alters
  <2>9. u = j.track /\ g \in {None, j.frame} => May(j, u, g) /\ Restores(k, g) = Found(j, g)
    BY <1>1, <1>6, <2>5 DEF May, Alters, Found
  <2>10. QED BY <1>1, <1>6, <2>4, <2>5, <2>6, <2>7, <2>8, <2>9 DEF Paid, k
<1>7. QED BY <1>4, <1>5, <1>6

(* A track that was deleted or given another type. *)
LEMMA TrackEditsPay ==
  ASSUME NEW rows \in Rows, NEW now, NEW j \in Good, NEW a \in Answer, Applied(rows, now, j, a),
         Finds(rows, j, a), NEW h, \A t \in About(After(j, a)) : h[t] = t, j.track \in Tracks,
         NEW u \in Tracks, NEW g \in Spot, j.kind \in {"deleteTrack", "update"}
  PROVE  Paid(rows, now, h, j, a, u, g)
<1> DEFINE k == After(j, a)
<1>1. now.track[u] = TrackSet(j, a, u, rows.track[u])
  BY DEF Applied
<1>2. g # None => Rect(now.box[u][g]) = BoxSet(j, a, u, g, Rect(rows.box[u][g]))
  BY DEF Applied, Spot
<1>3. \A t \in About(k) : h[t] = t
  OBVIOUS
<1>4. CASE j.kind = "deleteTrack"
  <2>1. k.kind = "recreate" /\ k.track = j.track /\ k.type = j.type /\ k.boxes = j.boxes
    BY <1>4, AfterShape
  <2> HIDE DEF k
  <2>2. About(k) = {j.track}
    BY <2>1 DEF About
  <2>3. Touches(h, k, u, g) <=> u = j.track
    BY <1>3, <2>1, <2>2 DEF Touches, Covers
  <2>4. Restores(k, g) = Found(j, g)
    BY <1>4, <2>1 DEF Restores, Found
  <2>5. ~Touches(h, k, u, g) =>
          /\ g # None => Rect(now.box[u][g]) = Rect(rows.box[u][g])
          /\ g = None => now.track[u] = rows.track[u]
    BY <1>1, <1>2, <1>4, <2>3 DEF TrackSet, Brings, Drops, BoxSet, Places, Takes, Copies
  <2>6. QED BY <1>4, <2>3, <2>4, <2>5 DEF Paid, Alters, May, k
<1>5. CASE j.kind = "update"
  <2>1. k.kind = "rename" /\ k.track = j.track /\ k.type = j.old
    BY <1>5, AfterShape
  <2> HIDE DEF k
  <2>2. About(k) = {j.track}
    BY <2>1 DEF About
  <2>3. Touches(h, k, u, g) <=> u = j.track /\ g = None
    BY <1>3, <2>1, <2>2 DEF Touches, Covers
  <2>4. Restores(k, g) = Found(j, g)
    BY <1>5, <2>1 DEF Restores, Found
  <2>5. ~Touches(h, k, u, g) =>
          /\ g # None => Rect(now.box[u][g]) = Rect(rows.box[u][g])
          /\ g = None => now.track[u] = rows.track[u]
    BY <1>1, <1>2, <1>5, <2>3 DEF TrackSet, Brings, Drops, BoxSet, Places, Takes, Copies
  <2>6. QED BY <1>5, <2>3, <2>4, <2>5 DEF Paid, Alters, May, k
<1>6. QED BY <1>4, <1>5

(* A track that was drawn, boxes that were copied, a frame that was marked. *)
LEMMA OtherEditsPay ==
  ASSUME NEW rows \in Rows, NEW now, NEW j \in Good, NEW a \in Answer, Applied(rows, now, j, a),
         Finds(rows, j, a), NEW h, \A t \in About(After(j, a)) : h[t] = t,
         j.kind = "draw" => a.track \in Tracks,
         NEW u \in Tracks, NEW g \in Spot, j.kind \in {"draw", "copy", "mark"}
  PROVE  Paid(rows, now, h, j, a, u, g)
<1> DEFINE k == After(j, a)
<1>1. now.track[u] = TrackSet(j, a, u, rows.track[u])
  BY DEF Applied
<1>2. g # None => Rect(now.box[u][g]) = BoxSet(j, a, u, g, Rect(rows.box[u][g]))
  BY DEF Applied, Spot
<1>3. \A t \in About(k) : h[t] = t
  OBVIOUS
<1>4. ~Alters(j, u, g)
  BY DEF Alters
<1>5. CASE j.kind = "draw"
  <2>1. k.kind = "undraw" /\ k.track = a.track
    BY <1>5, AfterShape
  <2> HIDE DEF k
  <2>2. About(k) = {a.track}
    BY <1>5, <2>1 DEF About
  <2>3. Touches(h, k, u, g) <=> u = a.track
    BY <1>3, <2>1, <2>2 DEF Touches, Covers
  <2>4. Restores(k, g) = None
    BY <2>1 DEF Restores
  <2>5. ~Touches(h, k, u, g) =>
          /\ g # None => Rect(now.box[u][g]) = Rect(rows.box[u][g])
          /\ g = None => now.track[u] = rows.track[u]
    BY <1>1, <1>2, <1>5, <2>3 DEF TrackSet, Brings, Drops, BoxSet, Places, Takes, Copies
  <2>6. QED BY <1>4, <1>5, <2>3, <2>4, <2>5 DEF Paid, k
<1>6. CASE j.kind = "copy"
  <2>1. k.kind = "uncopy" /\ k.frame = j.frame /\ k.tracks = Made(a)
    BY <1>6, AfterShape
  <2>2. j.frame \in Frames /\ j.frame # None
    BY <1>6, NoneAssumption DEF Good, JobOK
  <2> HIDE DEF k
  <2>3. About(k) = Made(a)
    BY <2>1 DEF About
  <2>4. Touches(h, k, u, g) <=> g = j.frame /\ a.made[u] # None
    BY <1>3, <2>1, <2>2, <2>3 DEF Touches, Covers, Made
  <2>5. Restores(k, g) = None
    BY <2>1 DEF Restores
  <2>6. Touches(h, k, u, g) => g # None /\ Rect(rows.box[u][g]) = None
    BY <1>6, <2>2, <2>4 DEF Finds, Rect
  <2>7. ~Touches(h, k, u, g) =>
          /\ g # None => Rect(now.box[u][g]) = Rect(rows.box[u][g])
          /\ g = None => now.track[u] = rows.track[u]
    BY <1>1, <1>2, <1>6, <2>4 DEF TrackSet, Brings, Drops, BoxSet, Places, Takes, Copies
  <2>8. QED BY <1>4, <2>5, <2>6, <2>7 DEF Paid, k
<1>7. CASE j.kind = "mark"
  <2>1. k.kind = "unmark"
    BY <1>7, AfterShape
  <2> HIDE DEF k
  <2>2. ~Touches(h, k, u, g)
    BY <2>1 DEF Touches, Covers
  <2>3. /\ g # None => Rect(now.box[u][g]) = Rect(rows.box[u][g])
        /\ g = None => now.track[u] = rows.track[u]
    BY <1>1, <1>2, <1>7 DEF TrackSet, Brings, Drops, BoxSet, Places, Takes, Copies
  <2>4. QED BY <1>4, <2>2, <2>3 DEF Paid, k
<1>8. QED BY <1>5, <1>6, <1>7

(* So every edit is paid back by what undoes it. *)
LEMMA EditsPay ==
  ASSUME NEW rows \in Rows, NEW now, NEW j \in Good, NEW a \in Answer, Applied(rows, now, j, a),
         Finds(rows, j, a), NEW h, \A t \in About(After(j, a)) : h[t] = t,
         j.kind = "draw" => a.track \in Tracks,
         j.kind \in {"deleteTrack", "update"} => j.track \in Tracks,
         NEW u \in Tracks, NEW g \in Spot, j.kind \in Edits
  PROVE  Paid(rows, now, h, j, a, u, g)
BY BoxEditsPay, TrackEditsPay, OtherEditsPay DEF Edits

(* An undo puts back what it says, at once or in what is left of it, and      *)
(* leaves alone what it is not about.                                        *)
UndoPaid(rows, now, h, j, a, u, g) ==
  LET k == After(j, a)
      still == g = None => now.track[u] # None
  IN /\ Touches(h, k, u, g) => Touches(h, j, u, g) /\ Restores(k, g) = Restores(j, g)
     /\ Touches(h, j, u, g) /\ ~Touches(h, k, u, g) /\ still => Has(now, u, g) = Restores(j, g)
     /\ ~Touches(h, j, u, g) /\ still =>
          Has(now, u, g) = Has(rows, u, g) /\ (g = None => rows.track[u] # None)

(* What the rows have at a spot after a request. *)
LEMMA RowsThen ==
  ASSUME NEW rows, NEW now, NEW j, NEW a, Applied(rows, now, j, a),
         NEW u \in Tracks, NEW g \in Spot
  PROVE  /\ now.track[u] = TrackSet(j, a, u, rows.track[u])
         /\ g # None => Rect(now.box[u][g]) = BoxSet(j, a, u, g, Rect(rows.box[u][g]))
         /\ g # None => Has(now, u, g) = Rect(now.box[u][g])
         /\ g # None => Has(rows, u, g) = Rect(rows.box[u][g])
         /\ g = None => Has(now, u, g) = now.track[u].type
         /\ g = None => Has(rows, u, g) = rows.track[u].type
BY DEF Applied, Spot, Has

(* A track that was drawn goes. *)
LEMMA UndrawPays ==
  ASSUME NEW rows \in Rows, NEW now, NEW j \in Good, NEW a \in Answer, Applied(rows, now, j, a),
         NEW h, j.kind = "undraw" => \A t \in About(j) : h[t] = t,
         NEW u \in Tracks, NEW g \in Spot, j.kind \in {"undraw", "unmark"}
  PROVE  UndoPaid(rows, now, h, j, a, u, g)
<1> DEFINE k == After(j, a)
<1>1. k.kind = "unmark"
  BY AfterShape
<1> HIDE DEF k
<1>2. ~Touches(h, k, u, g)
  BY <1>1 DEF Touches, Covers
<1>3. CASE j.kind = "undraw"
  <2>1. Touches(h, j, u, g) <=> u = j.track
    BY <1>3 DEF Touches, Covers, About
  <2>2. Restores(j, g) = None
    BY <1>3 DEF Restores
  <2>3. u = j.track => now.track[u] = None /\ (g # None => Has(now, u, g) = None)
    BY <1>3, RowsThen DEF TrackSet, Brings, Drops, BoxSet, Places, Takes
  <2>4. u # j.track => /\ now.track[u] = rows.track[u]
                       /\ g # None => Has(now, u, g) = Has(rows, u, g)
    BY <1>3, RowsThen DEF TrackSet, Brings, Drops, BoxSet, Places, Takes, Copies
  <2>5. u # j.track => Has(now, u, g) = Has(rows, u, g)
    BY <2>4 DEF Has
  <2>6. QED BY <1>2, <2>1, <2>2, <2>3, <2>4, <2>5 DEF UndoPaid, k
<1>4. CASE j.kind = "unmark"
  <2>1. ~Touches(h, j, u, g)
    BY <1>4 DEF Touches, Covers
  <2>2. /\ now.track[u] = rows.track[u]
        /\ g # None => Has(now, u, g) = Has(rows, u, g)
    BY <1>4, RowsThen DEF TrackSet, Brings, Drops, BoxSet, Places, Takes, Copies
  <2>3. Has(now, u, g) = Has(rows, u, g)
    BY <2>2 DEF Has
  <2>4. QED BY <1>2, <2>1, <2>2, <2>3 DEF UndoPaid, k
<1>5. QED BY <1>3, <1>4

(* A box goes back where it was, a type to what it was. *)
LEMMA PutBackPays ==
  ASSUME NEW rows \in Rows, NEW now, NEW j \in Good, NEW a \in Answer, Applied(rows, now, j, a),
         Finds(rows, j, a), NEW h, \A t \in About(j) : h[t] = t,
         NEW u \in Tracks, NEW g \in Spot, j.kind \in {"putBack", "rename"}
  PROVE  UndoPaid(rows, now, h, j, a, u, g)
<1> DEFINE k == After(j, a)
<1>1. k.kind = "unmark"
  BY AfterShape
<1> HIDE DEF k
<1>2. ~Touches(h, k, u, g)
  BY <1>1 DEF Touches, Covers
<1>3. About(j) = {j.track}
  BY DEF About, Good, JobOK
<1>4. CASE j.kind = "putBack"
  <2>1. Touches(h, j, u, g) <=> u = j.track /\ g = j.frame /\ g # None
    BY <1>3, <1>4 DEF Touches, Covers
  <2>2. Restores(j, g) = j.at
    BY <1>4 DEF Restores
  <2>3. now.track[u] = rows.track[u]
    BY <1>4, RowsThen DEF TrackSet, Brings, Drops
  <2>4. g # None /\ u = j.track /\ g = j.frame => Has(now, u, g) = j.at
    BY <1>4, RowsThen DEF BoxSet, Places
  <2>5. g # None /\ ~(u = j.track /\ g = j.frame) => Has(now, u, g) = Has(rows, u, g)
    BY <1>4, RowsThen DEF BoxSet, Places, Takes, Drops, Copies
  <2>6. g = None => Has(now, u, g) = Has(rows, u, g)
    BY <2>3 DEF Has
  <2>7. QED BY <1>2, <2>1, <2>2, <2>3, <2>4, <2>5, <2>6 DEF UndoPaid, k
<1>5. CASE j.kind = "rename"
  <2>1. Touches(h, j, u, g) <=> u = j.track /\ g = None
    BY <1>3, <1>5 DEF Touches, Covers
  <2>2. Restores(j, g) = j.type /\ a.was.type = j.type
    BY <1>5 DEF Restores, Finds
  <2>3. u = j.track => now.track[u] = a.was
    BY <1>5, RowsThen DEF TrackSet, Brings
  <2>4. u # j.track => now.track[u] = rows.track[u]
    BY <1>5, RowsThen DEF TrackSet, Brings, Drops
  <2>5. g # None => Has(now, u, g) = Has(rows, u, g)
    BY <1>5, RowsThen DEF BoxSet, Places, Takes, Drops, Copies
  <2>6. g = None /\ u # j.track => Has(now, u, g) = Has(rows, u, g)
    BY <2>4 DEF Has
  <2>7. g = None /\ u = j.track => Has(now, u, g) = j.type
    BY <2>2, <2>3 DEF Has
  <2>8. QED BY <1>2, <2>1, <2>2, <2>4, <2>5, <2>6, <2>7 DEF UndoPaid, k
<1>6. QED BY <1>4, <1>5

(* Taking a box away, and the track with its last one. *)
LEMMA TakingPays ==
  ASSUME NEW rows \in Rows, NEW now, NEW j \in Good, NEW a \in Answer, Applied(rows, now, j, a),
         Finds(rows, j, a), j.track \in Tracks, j.frame \in Frames,
         NEW u \in Tracks, NEW g \in Spot, j.kind \in {"remove", "uncopy"}
  PROVE  LET still == g = None => now.track[u] # None
         IN /\ u = j.track /\ g = j.frame => Has(now, u, g) = None
            /\ ~(u = j.track /\ g = j.frame) /\ still =>
                 Has(now, u, g) = Has(rows, u, g) /\ (g = None => rows.track[u] # None)
<1>1. CASE u # j.track
  <2>1. /\ now.track[u] = rows.track[u]
        /\ g # None => Has(now, u, g) = Has(rows, u, g)
    BY <1>1, RowsThen DEF TrackSet, Brings, Drops, BoxSet, Places, Takes, Copies
  <2>2. QED BY <1>1, <2>1 DEF Has
<1>2. CASE u = j.track /\ g = j.frame
  <2>1. g # None
    BY <1>2, NoneAssumption
  <2>2. Has(now, u, g) = None
    BY <1>2, <2>1, RowsThen DEF BoxSet, Places, Takes
  <2>3. QED BY <1>2, <2>2
<1>3. CASE u = j.track /\ g # j.frame /\ g # None
  <2>1. CASE a.gone
    <3>1. Has(now, u, g) = None
      BY <1>3, <2>1, RowsThen DEF BoxSet, Places, Takes, Drops
    <3>2. rows.box[u][g] = None
      BY <1>3, <2>1 DEF Finds, Spot
    <3>3. Has(rows, u, g) = None
      BY <1>3, <3>2 DEF Has, Rect
    <3>4. QED BY <1>3, <3>1, <3>3
  <2>2. CASE ~a.gone
    <3>1. Has(now, u, g) = Has(rows, u, g)
      BY <1>3, <2>2, RowsThen DEF BoxSet, Places, Takes, Drops, Copies
    <3>2. QED BY <1>3, <3>1
  <2>3. QED BY <2>1, <2>2
<1>4. CASE u = j.track /\ g = None
  <2>1. a.gone => now.track[u] = None
    BY <1>4, RowsThen DEF TrackSet, Brings, Drops
  <2>2. ~a.gone => now.track[u] = rows.track[u]
    BY <1>4, RowsThen DEF TrackSet, Brings, Drops
  <2>3. ~a.gone => Has(now, u, g) = Has(rows, u, g)
    BY <1>4, <2>2 DEF Has
  <2>4. g # j.frame
    BY <1>4, NoneAssumption
  <2>5. QED BY <1>4, <2>1, <2>2, <2>3, <2>4
<1>5. QED BY <1>1, <1>2, <1>3, <1>4

(* A box goes that there was not. *)
LEMMA RemovePays ==
  ASSUME NEW rows \in Rows, NEW now, NEW j \in Good, NEW a \in Answer, Applied(rows, now, j, a),
         Finds(rows, j, a), NEW h, \A t \in About(j) : h[t] = t, j.frame \in Frames,
         NEW u \in Tracks, NEW g \in Spot, j.kind = "remove"
  PROVE  UndoPaid(rows, now, h, j, a, u, g)
<1> DEFINE k == After(j, a)
<1>1. k.kind = "unmark"
  BY AfterShape
<1> HIDE DEF k
<1>2. ~Touches(h, k, u, g)
  BY <1>1 DEF Touches, Covers
<1>3. j.track \in Tracks /\ About(j) = {j.track} /\ j.frame # None
  BY NoneAssumption DEF About, Good, JobOK
<1>4. Touches(h, j, u, g) <=> u = j.track /\ g = j.frame
  BY <1>3 DEF Touches, Covers
<1>5. Restores(j, g) = None
  BY DEF Restores
<1>6. /\ u = j.track /\ g = j.frame => Has(now, u, g) = None
      /\ ~(u = j.track /\ g = j.frame) /\ (g = None => now.track[u] # None) =>
           Has(now, u, g) = Has(rows, u, g) /\ (g = None => rows.track[u] # None)
  <2>1. j.kind \in {"remove", "uncopy"} /\ j.track \in Tracks
    BY <1>3
  <2>2. QED BY <2>1, TakingPays
<1>7. QED BY <1>2, <1>4, <1>5, <1>6 DEF UndoPaid, k

(* One of the copied boxes goes; the others are left to do. *)
LEMMA UncopyPays ==
  ASSUME NEW rows \in Rows, NEW now, NEW j \in Good, NEW a \in Answer, Applied(rows, now, j, a),
         Finds(rows, j, a), NEW h \in [Tracks -> Tracks], j.track = h[Least(j.tracks)],
         j.frame \in Frames, NEW u \in Tracks, NEW g \in Spot, j.kind = "uncopy"
  PROVE  UndoPaid(rows, now, h, j, a, u, g)
<1> DEFINE k == After(j, a)
<1>1. k.kind = "uncopy" /\ k.frame = j.frame /\ k.tracks = j.tracks \ {Least(j.tracks)}
  BY AfterShape
<1>2. j.tracks \subseteq Tracks /\ j.tracks # {} /\ j.frame # None
  BY JobShape, NoneAssumption DEF Good, JobOK
<1>3. Least(j.tracks) \in j.tracks
  BY <1>2, LeastIn DEF Tracks
<1> HIDE DEF k
<1>4. About(k) = j.tracks \ {Least(j.tracks)} /\ About(j) = j.tracks
  BY <1>1 DEF About
<1>5. /\ Touches(h, k, u, g) <=> g = j.frame /\ \E t \in j.tracks \ {Least(j.tracks)} : h[t] = u
      /\ Touches(h, j, u, g) <=> g = j.frame /\ \E t \in j.tracks : h[t] = u
  BY <1>1, <1>2, <1>4 DEF Touches, Covers
<1>6. Restores(j, g) = None /\ Restores(k, g) = None
  BY <1>1 DEF Restores
<1>7. j.track \in Tracks
  BY <1>2, <1>3
<1>8. Touches(h, j, u, g) /\ ~Touches(h, k, u, g) => u = j.track /\ g = j.frame
  BY <1>5
<1>9. ~Touches(h, j, u, g) => ~(u = j.track /\ g = j.frame)
  BY <1>3, <1>5
<1>10. Touches(h, k, u, g) => Touches(h, j, u, g)
  BY <1>5
<1>11. QED BY <1>6, <1>7, <1>8, <1>9, <1>10, TakingPays DEF UndoPaid, k

(* One of the boxes goes back; the others are left to do. *)
LEMMA RefillPays ==
  ASSUME NEW rows \in Rows, NEW now, NEW j \in Good, NEW a \in Answer, Applied(rows, now, j, a),
         NEW h, \A t \in About(j) : h[t] = t, j.track \in Tracks,
         j.frame \in Frames, j.boxes[j.frame] # None, j.at = j.boxes[j.frame].at,
         NEW u \in Tracks, NEW g \in Spot, j.kind = "refill"
  PROVE  UndoPaid(rows, now, h, j, a, u, g)
<1> DEFINE k == After(j, a)
<1>1. k.kind = "refill" /\ k.track = j.track /\ k.boxes = [j.boxes EXCEPT ![j.frame] = None]
  BY AfterShape
<1>2. j.boxes \in [Frames -> BoxOrNone] /\ j.frame # None
  BY JobShape, NoneAssumption DEF Good
<1> HIDE DEF k
<1>3. About(k) = {j.track} /\ About(j) = {j.track}
  BY <1>1 DEF About
<1>4. \A f \in Frames : k.boxes[f] = IF f = j.frame THEN None ELSE j.boxes[f]
  BY <1>1, <1>2
<1>5. /\ Touches(h, j, u, g) <=> u = j.track /\ g # None /\ j.boxes[g] # None
      /\ Touches(h, k, u, g) <=> u = j.track /\ g # None /\ j.boxes[g] # None /\ g # j.frame
  BY <1>1, <1>2, <1>3, <1>4 DEF Touches, Covers, Spot
<1>6. Restores(j, g) = Rect(j.boxes[g]) /\ Restores(k, g) = Rect(k.boxes[g])
  BY <1>1 DEF Restores
<1>7. now.track[u] = rows.track[u]
  BY RowsThen DEF TrackSet, Brings, Drops
<1>8. u = j.track /\ g = j.frame => Has(now, u, g) = Rect(j.boxes[g])
  BY <1>2, RowsThen DEF BoxSet, Places, Rect
<1>9. g # None /\ ~(u = j.track /\ g = j.frame) => Has(now, u, g) = Has(rows, u, g)
  BY RowsThen DEF BoxSet, Places, Takes, Drops, Copies
<1>10. g = None => Has(now, u, g) = Has(rows, u, g)
  BY <1>7 DEF Has
<1>11. Touches(h, k, u, g) => Restores(k, g) = Restores(j, g)
  BY <1>4, <1>5, <1>6 DEF Spot
<1>12. QED BY <1>2, <1>5, <1>6, <1>7, <1>8, <1>9, <1>10, <1>11 DEF UndoPaid, k

(* So every undo does its part; the one that makes a track again is below. *)
LEMMA UndosPay ==
  ASSUME NEW rows \in Rows, NEW now, NEW j \in Good, NEW a \in Answer, Applied(rows, now, j, a),
         Finds(rows, j, a), NEW h \in [Tracks -> Tracks],
         j.kind \notin {"uncopy", "unmark"} => \A t \in About(j) : h[t] = t,
         j.kind = "uncopy" => j.track = h[Least(j.tracks)],
         j.kind \in {"remove", "uncopy"} => j.frame \in Frames,
         j.kind = "refill" => /\ j.track \in Tracks /\ j.frame \in Frames
                              /\ j.boxes[j.frame] # None /\ j.at = j.boxes[j.frame].at,
         NEW u \in Tracks, NEW g \in Spot, j.kind \in Undos \ {"recreate"}
  PROVE  UndoPaid(rows, now, h, j, a, u, g)
BY UndrawPays, PutBackPays, RemovePays, UncopyPays, RefillPays DEF Undos

(***************************************************************************)
(* What a spot of a track comes to when everything is undone: the entry that *)
(* is undone last says so, or else the undo that runs; and where neither is   *)
(* about the spot, the edits that wait found it so and the rows have it so.  *)
(***************************************************************************)
Untouched(h, s, u, g) == \A i \in DOMAIN s : ~Touches(h, s[i], u, g)
Stacked(h, s, u, g, v) ==
  \A i \in DOMAIN s :
    (Touches(h, s[i], u, g) /\ \A k \in DOMAIN s : k < i => ~Touches(h, s[k], u, g))
      => Restores(s[i], g) = v
Expected(w, u, g, v) ==
  \A i \in DOMAIN w :
    (May(w[i], u, g) /\ \A k \in DOMAIN w : k < i => ~Alters(w[k], u, g)) => Found(w[i], g) = v
Holds(rows, u, g, v) == (g = None => rows.track[u] # None) => Has(rows, u, g) = v
Back(h, s, top, w, rows, u, g, v) ==
  /\ Stacked(h, s, u, g, v)
  /\ Untouched(h, s, u, g) /\ Touches(h, top, u, g) => Restores(top, g) = v
  /\ Untouched(h, s, u, g) /\ ~Touches(h, top, u, g) => Expected(w, u, g, v) /\ Holds(rows, u, g, v)

(* What Append, SubSeq and Tail make of a sequence. *)
LEMMA PushShape ==
  ASSUME NEW S, NEW s \in Seq(S), NEW e
  PROVE  /\ Len(s) \in Nat /\ DOMAIN s = 1..Len(s) /\ DOMAIN Append(s, e) = 1..(Len(s) + 1)
         /\ \A i \in 1..Len(s) : Append(s, e)[i] = s[i]
         /\ Append(s, e)[Len(s) + 1] = e
OBVIOUS

(* Without its last element. *)
LEMMA PopShape ==
  ASSUME NEW S, NEW s \in Seq(S), s # <<>>
  PROVE  LET r == SubSeq(s, 1, Len(s) - 1)
         IN /\ Len(s) \in Nat \ {0} /\ DOMAIN s = 1..Len(s) /\ DOMAIN r = 1..(Len(s) - 1)
            /\ \A i \in 1..(Len(s) - 1) : r[i] = s[i]
OBVIOUS

(* Without its first element. *)
LEMMA RestShape ==
  ASSUME NEW S, NEW s \in Seq(S), s # <<>>
  PROVE  /\ Len(s) \in Nat \ {0} /\ DOMAIN s = 1..Len(s) /\ DOMAIN Tail(s) = 1..(Len(s) - 1)
         /\ \A i \in 1..(Len(s) - 1) : Tail(s)[i] = s[i + 1]
         /\ Tail(s) \in Seq(S)
OBVIOUS

(* Whoever is undone next goes on the stack. *)
LEMMA BackPush ==
  ASSUME NEW s \in Seq(Good), NEW h, NEW top, NEW blank, NEW w, NEW rows, NEW u, NEW g, NEW v,
         Back(h, s, top, w, rows, u, g, v), ~Touches(h, blank, u, g)
  PROVE  Back(h, Append(s, top), blank, w, rows, u, g, v)
<1> DEFINE r == Append(s, top)
           m == Len(s)
<1>1. /\ m \in Nat /\ DOMAIN s = 1..m /\ DOMAIN r = 1..(m + 1)
      /\ \A i \in 1..m : r[i] = s[i]
      /\ r[m + 1] = top
  BY PushShape
<1> HIDE DEF r, m
<1>2. Untouched(h, r, u, g) <=> Untouched(h, s, u, g) /\ ~Touches(h, top, u, g)
  BY <1>1 DEF Untouched
<1>3. ASSUME NEW i \in DOMAIN r, Touches(h, r[i], u, g),
             \A k \in DOMAIN r : k < i => ~Touches(h, r[k], u, g)
      PROVE  Restores(r[i], g) = v
  <2>1. CASE i \in 1..m
    BY <1>1, <1>3, <2>1 DEF Back, Stacked
  <2>2. CASE i = m + 1
    <3>1. Untouched(h, s, u, g)
      BY <1>1, <1>3, <2>2 DEF Untouched
    <3>2. QED BY <1>1, <1>3, <2>2, <3>1 DEF Back
  <2>3. QED BY <1>1, <2>1, <2>2
<1>4. Stacked(h, r, u, g, v)
  BY <1>3 DEF Stacked
<1>5. QED BY <1>2, <1>4 DEF Back, r

(* An entry that is about another spot, or none, changes nothing here. *)
LEMMA BackBeside ==
  ASSUME NEW s \in Seq(Good), NEW h, NEW top, NEW e, NEW w, NEW rows, NEW u, NEW g, NEW v,
         Back(h, s, top, w, rows, u, g, v), ~Touches(h, e, u, g)
  PROVE  Back(h, Append(s, e), top, w, rows, u, g, v)
<1> DEFINE r == Append(s, e)
           m == Len(s)
<1>1. /\ m \in Nat /\ DOMAIN s = 1..m /\ DOMAIN r = 1..(m + 1)
      /\ \A i \in 1..m : r[i] = s[i]
      /\ r[m + 1] = e
  BY PushShape
<1> HIDE DEF r, m
<1>2. Untouched(h, r, u, g) <=> Untouched(h, s, u, g)
  BY <1>1 DEF Untouched
<1>3. ASSUME NEW i \in DOMAIN r, Touches(h, r[i], u, g),
             \A k \in DOMAIN r : k < i => ~Touches(h, r[k], u, g)
      PROVE  Restores(r[i], g) = v
  <2>1. i \in 1..m
    BY <1>1, <1>3
  <2>2. QED BY <1>1, <1>3, <2>1 DEF Back, Stacked
<1>4. Stacked(h, r, u, g, v)
  BY <1>3 DEF Stacked
<1>5. QED BY <1>2, <1>4 DEF Back, r

(* The undo that runs next leaves the stack. *)
LEMMA BackPop ==
  ASSUME NEW s \in Seq(Good), s # <<>>, NEW h, NEW top, NEW blank, NEW w, NEW rows,
         NEW u, NEW g, NEW v, Back(h, s, blank, w, rows, u, g, v), ~Touches(h, blank, u, g),
         Touches(h, top, u, g) <=> Touches(h, s[Len(s)], u, g),
         Touches(h, top, u, g) => Restores(top, g) = Restores(s[Len(s)], g)
  PROVE  Back(h, SubSeq(s, 1, Len(s) - 1), top, w, rows, u, g, v)
<1> DEFINE r == SubSeq(s, 1, Len(s) - 1)
           m == Len(s)
<1>1. /\ m \in Nat \ {0} /\ DOMAIN s = 1..m /\ DOMAIN r = 1..(m - 1)
      /\ \A i \in 1..(m - 1) : r[i] = s[i]
  BY PopShape
<1> HIDE DEF r, m
<1>2. Untouched(h, s, u, g) <=> Untouched(h, r, u, g) /\ ~Touches(h, top, u, g)
  BY <1>1 DEF Untouched, m
<1>3. Stacked(h, r, u, g, v)
  BY <1>1 DEF Back, Stacked
<1>4. ASSUME Untouched(h, r, u, g), Touches(h, top, u, g)
      PROVE  Restores(top, g) = v
  <2>1. \A k \in DOMAIN s : k < m => ~Touches(h, s[k], u, g)
    BY <1>1, <1>4 DEF Untouched
  <2>2. m \in DOMAIN s /\ Touches(h, s[m], u, g)
    BY <1>1, <1>4 DEF m
  <2>3. Restores(s[m], g) = v
    BY <2>1, <2>2 DEF Back, Stacked
  <2>4. QED BY <1>4, <2>3 DEF m
<1>5. QED BY <1>2, <1>3, <1>4 DEF Back, r

(* What runs changes, not what it puts back. *)
LEMMA BackAs ==
  ASSUME NEW h, NEW s, NEW top, NEW other, NEW w, NEW rows, NEW u, NEW g, NEW v,
         Back(h, s, top, w, rows, u, g, v),
         Touches(h, other, u, g) <=> Touches(h, top, u, g),
         Touches(h, other, u, g) => Restores(other, g) = Restores(top, g)
  PROVE  Back(h, s, other, w, rows, u, g, v)
BY DEF Back

(* One more edit waits. *)
LEMMA BackWait ==
  ASSUME NEW h, NEW s, NEW top, NEW S, NEW w \in Seq(S), NEW rows, NEW u, NEW g, NEW v, NEW new,
         Back(h, s, top, w, rows, u, g, v),
         (/\ Untouched(h, s, u, g) /\ ~Touches(h, top, u, g) /\ Holds(rows, u, g, v)
          /\ May(new, u, g) /\ \A k \in DOMAIN w : ~Alters(w[k], u, g)) => Found(new, g) = v
  PROVE  Back(h, s, top, Append(w, new), rows, u, g, v)
<1> DEFINE r == Append(w, new)
           m == Len(w)
<1>1. /\ m \in Nat /\ DOMAIN w = 1..m /\ DOMAIN r = 1..(m + 1)
      /\ \A i \in 1..m : r[i] = w[i]
      /\ r[m + 1] = new
  BY PushShape
<1> HIDE DEF r, m
<1>2. ASSUME Untouched(h, s, u, g), ~Touches(h, top, u, g), NEW i \in DOMAIN r, May(r[i], u, g),
             \A k \in DOMAIN r : k < i => ~Alters(r[k], u, g)
      PROVE  Found(r[i], g) = v
  <2>1. Expected(w, u, g, v) /\ Holds(rows, u, g, v)
    BY <1>2 DEF Back
  <2>2. CASE i \in 1..m
    BY <1>1, <1>2, <2>1, <2>2 DEF Expected
  <2>3. CASE i = m + 1
    <3>1. \A k \in DOMAIN w : ~Alters(w[k], u, g)
      BY <1>1, <1>2, <2>3
    <3>2. QED BY <1>1, <1>2, <2>1, <2>3, <3>1
  <2>4. QED BY <1>1, <2>2, <2>3
<1>3. Untouched(h, s, u, g) /\ ~Touches(h, top, u, g) => Expected(r, u, g, v)
  BY <1>2 DEF Expected
<1>4. QED BY <1>3 DEF Back, r

(* The API handles the edit that is first. *)
LEMMA BackEdit ==
  ASSUME NEW h, NEW s, NEW blank, NEW S, NEW w \in Seq(S), w # <<>>, NEW rows, NEW now,
         NEW u, NEW g \in Spot, NEW v, NEW a,
         Back(h, s, blank, w, rows, u, g, v), ~Touches(h, blank, u, g),
         Paid(rows, now, h, w[1], a, u, g), w[1].kind = "draw" /\ u = a.track => v = None
  PROVE  Back(h, s, After(w[1], a), Tail(w), now, u, g, v)
<1> DEFINE j == w[1]
           k == After(j, a)
           r == Tail(w)
           m == Len(w)
<1>1. /\ m \in Nat \ {0} /\ DOMAIN w = 1..m /\ DOMAIN r = 1..(m - 1)
      /\ \A i \in 1..(m - 1) : r[i] = w[i + 1]
  BY RestShape
<1>2. Stacked(h, s, u, g, v)
  BY DEF Back
<1>3. Untouched(h, s, u, g) => Expected(w, u, g, v) /\ Holds(rows, u, g, v)
  BY DEF Back
<1>4. /\ Touches(h, k, u, g) =>
           \/ May(j, u, g) /\ Restores(k, g) = Found(j, g)
           \/ g # None /\ Rect(rows.box[u][g]) = None /\ Restores(k, g) = None
           \/ j.kind = "draw" /\ u = a.track /\ Restores(k, g) = None
      /\ Alters(j, u, g) => Touches(h, k, u, g)
      /\ ~Touches(h, k, u, g) =>
           /\ g # None => Rect(now.box[u][g]) = Rect(rows.box[u][g])
           /\ g = None => now.track[u] = rows.track[u]
  BY DEF Paid
<1>5. 1 \in DOMAIN w /\ \A i \in DOMAIN w : ~(i < 1)
  BY <1>1
<1> HIDE DEF r, m, k
<1>6. ASSUME Untouched(h, s, u, g), Touches(h, k, u, g)
      PROVE  Restores(k, g) = v
  <2>1. Expected(w, u, g, v) /\ Holds(rows, u, g, v)
    BY <1>3, <1>6
  <2>2. May(j, u, g) => Found(j, g) = v
    BY <1>5, <2>1 DEF Expected
  <2>3. g # None => Rect(rows.box[u][g]) = v
    BY <2>1 DEF Holds, Has
  <2>4. QED BY <1>4, <1>6, <2>2, <2>3
<1>7. ASSUME Untouched(h, s, u, g), ~Touches(h, k, u, g)
      PROVE  Expected(r, u, g, v) /\ Holds(now, u, g, v)
  <2>1. Expected(w, u, g, v) /\ Holds(rows, u, g, v) /\ ~Alters(j, u, g)
    BY <1>3, <1>4, <1>7
  <2>2. ASSUME NEW i \in DOMAIN r, May(r[i], u, g),
               \A l \in DOMAIN r : l < i => ~Alters(r[l], u, g)
        PROVE  Found(r[i], g) = v
    <3>1. i + 1 \in DOMAIN w /\ r[i] = w[i + 1]
      BY <1>1
    <3>2. ASSUME NEW l \in DOMAIN w, l < i + 1 PROVE ~Alters(w[l], u, g)
      <4>1. CASE l = 1
        BY <2>1, <4>1
      <4>2. CASE l # 1
        <5>1. l - 1 \in DOMAIN r /\ l - 1 < i /\ r[l - 1] = w[l]
          BY <1>1, <3>2, <4>2
        <5>2. QED BY <2>2, <5>1
      <4>3. QED BY <4>1, <4>2
    <3>3. QED BY <2>1, <2>2, <3>1, <3>2 DEF Expected
  <2>3. Expected(r, u, g, v)
    BY <2>2 DEF Expected
  <2>4. Holds(now, u, g, v)
    BY <1>4, <1>7, <2>1 DEF Holds, Has
  <2>5. QED BY <2>3, <2>4
<1>8. QED BY <1>2, <1>6, <1>7 DEF Back, k, r

(* The API handles the undo that runs. *)
LEMMA BackUndo ==
  ASSUME NEW h, NEW s, NEW w, NEW rows, NEW now, NEW j, NEW a, NEW u, NEW g, NEW v,
         Back(h, s, j, w, rows, u, g, v), w = <<>>, UndoPaid(rows, now, h, j, a, u, g)
  PROVE  Back(h, s, After(j, a), w, now, u, g, v)
<1> DEFINE k == After(j, a)
<1>1. Expected(w, u, g, v)
  BY DEF Expected
<1>2. /\ Touches(h, k, u, g) => Touches(h, j, u, g) /\ Restores(k, g) = Restores(j, g)
      /\ Touches(h, j, u, g) /\ ~Touches(h, k, u, g) /\ (g = None => now.track[u] # None) =>
           Has(now, u, g) = Restores(j, g)
      /\ ~Touches(h, j, u, g) /\ (g = None => now.track[u] # None) =>
           Has(now, u, g) = Has(rows, u, g) /\ (g = None => rows.track[u] # None)
  BY DEF UndoPaid
<1> HIDE DEF k
<1>3. Untouched(h, s, u, g) /\ ~Touches(h, k, u, g) => Holds(now, u, g, v)
  BY <1>2 DEF Back, Holds
<1>4. QED BY <1>1, <1>2, <1>3 DEF Back, k

(***************************************************************************)
(* The clip's tracks when it was loaded, o being its labels then, and what    *)
(* was at a spot.  A track of them has id u by now, or u is to have no boxes. *)
(***************************************************************************)
Had(o) == {t \in Tracks : o.track[t] # None}
Was(o, t, g) == IF g = None THEN o.track[t].type ELSE Rect(o.box[t][g])
Wants(h, o, u, g, v) ==
  \/ \E t \in Had(o) : h[t] = u /\ v = Was(o, t, g)
  \/ g # None /\ v = None /\ \A t \in Had(o) : h[t] # u

(* What undoing a delete left of the track's old id u0: everything is now      *)
(* about the new id n.                                                       *)
Reborn(h, u0, n) == [t \in Tracks |-> IF h[t] = u0 THEN n ELSE h[t]]

(* No track that was had, and none a stack's entry is about, is n by now. *)
Unborn(h, o, s, n) ==
  /\ \A t \in Had(o) : h[t] # n
  /\ \A i \in DOMAIN s : \A t \in About(s[i]) : h[t] # n

(* An undo is about tracks. *)
LEMMA AboutTracks ==
  ASSUME NEW j \in Good
  PROVE  About(j) \subseteq Tracks
BY JobShape DEF About, Good

(* An entry about the old id is about the new one now. *)
LEMMA RebornTouches ==
  ASSUME NEW h \in [Tracks -> Tracks], NEW u0 \in Tracks, NEW n \in Tracks, u0 # n,
         NEW e \in Good, \A t \in About(e) : h[t] # n, NEW g, NEW u \in Tracks
  PROVE  /\ Touches(Reborn(h, u0, n), e, n, g) <=> Touches(h, e, u0, g)
         /\ ~Touches(Reborn(h, u0, n), e, u0, g)
         /\ u \notin {u0, n} => (Touches(Reborn(h, u0, n), e, u, g) <=> Touches(h, e, u, g))
<1>1. About(e) \subseteq Tracks
  BY AboutTracks
<1>2. \A t \in About(e) : Reborn(h, u0, n)[t] = IF h[t] = u0 THEN n ELSE h[t]
  BY <1>1 DEF Reborn
<1>3. QED BY <1>2 DEF Touches

(* The API makes the track again: what was to come back to its old id is to*)
(* come back to its new one.                                               *)
LEMMA BackReborn ==
  ASSUME NEW rows \in Rows, Sound(rows), NEW now, NEW j \in Good, NEW a \in Answer,
         j.kind = "recreate", Applied(rows, now, j, a), Finds(rows, j, a),
         NEW u0 \in Tracks, u0 = j.track, rows.track[u0] = None,
         NEW n \in Tracks, n = a.track, n = rows.next, n # u0,
         j.frame \in Frames, j.boxes[j.frame] # None, j.at = j.boxes[j.frame].at,
         NEW h \in [Tracks -> Tracks], h[u0] = u0, h[n] = n,
         NEW o, NEW s \in Seq(Good), Unborn(h, o, s, n), NEW g \in Spot, NEW v,
         \A u \in Tracks : Wants(h, o, u, g, v) => Back(h, s, j, <<>>, rows, u, g, v),
         NEW u \in Tracks, Wants(Reborn(h, u0, n), o, u, g, v)
  PROVE  Back(Reborn(h, u0, n), s, After(j, a), <<>>, now, u, g, v)
<1> DEFINE k == After(j, a)
           hh == Reborn(h, u0, n)
<1>1. k.kind = "refill" /\ k.track = n /\ k.boxes = [j.boxes EXCEPT ![j.frame] = None]
  BY AfterShape
<1>2. j.boxes \in [Frames -> BoxOrNone] /\ j.frame # None
  BY JobShape, NoneAssumption DEF Good
<1>3. \A f \in Frames : k.boxes[f] = IF f = j.frame THEN None ELSE j.boxes[f]
  BY <1>1, <1>2
<1>4. hh \in [Tracks -> Tracks] /\ hh[n] = n
      /\ \A t \in Tracks : hh[t] = IF h[t] = u0 THEN n ELSE h[t]
  BY DEF Reborn
<1>5. \A i \in DOMAIN s : s[i] \in Good /\ \A t \in About(s[i]) : h[t] # n
  BY DEF Unborn
<1>6. \A i \in DOMAIN s : /\ Touches(hh, s[i], n, g) <=> Touches(h, s[i], u0, g)
                          /\ ~Touches(hh, s[i], u0, g)
                          /\ u \notin {u0, n} => (Touches(hh, s[i], u, g) <=> Touches(h, s[i], u, g))
  BY <1>5, RebornTouches
<1> HIDE DEF k, hh
<1>7. About(k) = {n} /\ About(j) = {u0}
  BY <1>1 DEF About
<1>8. Touches(hh, k, u, g) <=> u = n /\ g # None /\ g # j.frame /\ j.boxes[g] # None
  BY <1>1, <1>3, <1>4, <1>7 DEF Touches, Covers, Spot
<1>9. Touches(h, j, u0, g) /\ (u # u0 => ~Touches(h, j, u, g))
  BY <1>7 DEF Touches, Covers
<1>10. Expected(<<>>, u, g, v)
  BY DEF Expected
<1>11. \A t \in Had(o) : t \in Tracks /\ h[t] # n
  BY DEF Unborn, Had
<1>12. /\ now.track[u] = TrackSet(j, a, u, rows.track[u])
       /\ g # None => Has(now, u, g) = BoxSet(j, a, u, g, Has(rows, u, g))
       /\ g # None => Has(rows, u, g) = Rect(rows.box[u][g])
  BY RowsThen
<1>13. u # n => /\ now.track[u] = rows.track[u]
                /\ g # None => Has(now, u, g) = Has(rows, u, g)
  BY <1>12 DEF TrackSet, Brings, Drops, BoxSet, Places, Takes, Copies
<1>14. u = n => /\ now.track[u] = a.was
                /\ g = j.frame => Has(now, u, g) = j.at
                /\ g # None /\ g # j.frame => Has(now, u, g) = Rect(rows.box[n][g])
  BY <1>2, <1>12 DEF TrackSet, Brings, Drops, BoxSet, Places, Takes, Copies
<1>15. CASE u \notin {u0, n}
  <2>1. Wants(h, o, u, g, v)
    BY <1>4, <1>11, <1>15 DEF Wants, hh
  <2>2. Back(h, s, j, <<>>, rows, u, g, v)
    BY <2>1
  <2>3. Stacked(hh, s, u, g, v) /\ (Untouched(hh, s, u, g) <=> Untouched(h, s, u, g))
    BY <1>6, <1>15, <2>2 DEF Back, Stacked, Untouched
  <2>4. ~Touches(hh, k, u, g)
    BY <1>8, <1>15
  <2>5. Untouched(h, s, u, g) => Holds(rows, u, g, v)
    BY <1>9, <1>15, <2>2 DEF Back
  <2>6. now.track[u] = rows.track[u] /\ (g # None => Has(now, u, g) = Has(rows, u, g))
    BY <1>15, <1>13
  <2>7. Has(now, u, g) = Has(rows, u, g)
    BY <2>6 DEF Has
  <2>8. Holds(rows, u, g, v) => Holds(now, u, g, v)
    BY <2>6, <2>7 DEF Holds
  <2>9. QED BY <1>10, <2>3, <2>4, <2>5, <2>8 DEF Back, k, hh
<1>16. CASE u = n
  <2>1. Wants(h, o, u0, g, v)
    BY <1>4, <1>11, <1>16 DEF Wants, hh
  <2>2. Back(h, s, j, <<>>, rows, u0, g, v)
    BY <2>1
  <2>3. Stacked(hh, s, u, g, v) /\ (Untouched(hh, s, u, g) <=> Untouched(h, s, u0, g))
    BY <1>6, <1>16, <2>2 DEF Back, Stacked, Untouched
  <2>4. Restores(j, g) = IF g = None THEN j.type ELSE Rect(j.boxes[g])
    BY DEF Restores
  <2>5. Untouched(h, s, u0, g) => Restores(j, g) = v
    BY <1>9, <2>2 DEF Back
  <2>6. Touches(hh, k, u, g) => Restores(k, g) = Restores(j, g)
    BY <1>1, <1>3, <1>8, <2>4 DEF Restores, Spot
  <2>7. ASSUME ~Touches(hh, k, u, g)
        PROVE  Has(now, u, g) = Restores(j, g)
    <3>1. CASE g = None
      <4>1. now.track[n] = a.was /\ a.was.type = j.type
        BY <1>16, <1>14 DEF Finds
      <4>2. QED BY <1>16, <2>4, <3>1, <4>1 DEF Has
    <3>2. CASE g = j.frame
      BY <1>2, <1>16, <1>14, <2>4, <3>2 DEF Rect
    <3>3. CASE g # None /\ g # j.frame
      <4>1. j.boxes[g] = None
        BY <1>8, <1>16, <2>7, <3>3
      <4>2. rows.box[n][g] = None
        <5>1. rows.track[n] = None
          BY RowsShape DEF Sound, Unused, Tracks
        <5>2. QED BY <3>3, <5>1 DEF Sound, InClip, Spot
      <4>3. Has(now, u, g) = Rect(rows.box[n][g])
        BY <1>16, <1>14, <3>3
      <4>4. QED BY <2>4, <3>3, <4>1, <4>2, <4>3
    <3>4. QED BY <3>1, <3>2, <3>3
  <2>8. QED BY <1>10, <2>3, <2>5, <2>6, <2>7 DEF Back, Holds, k, hh
<1>17. CASE u = u0
  <2>1. g # None /\ v = None
    BY <1>4, <1>11, <1>17 DEF Wants, hh
  <2>2. Stacked(hh, s, u, g, v)
    BY <1>6, <1>17 DEF Stacked
  <2>3. ~Touches(hh, k, u, g)
    BY <1>8, <1>17
  <2>4. rows.box[u0][g] = None
    BY <2>1 DEF Sound, InClip, Spot
  <2>5. Has(now, u, g) = Rect(rows.box[u0][g])
    BY <1>17, <1>12, <1>13, <2>1
  <2>6. Holds(now, u, g, v)
    BY <2>1, <2>4, <2>5 DEF Holds, Rect
  <2>7. QED BY <1>10, <2>2, <2>3, <2>6 DEF Back, k, hh
<1>18. QED BY <1>15, <1>16, <1>17

(***************************************************************************)
(* The ids of the tracks by now: an accepted request to make a track again    *)
(* gives it its new id, although the queue learns it with the answer.        *)
(***************************************************************************)
Ids == [t \in Tracks |-> Resolve(t)]
Heir == IF Landed /\ Running.kind = "recreate" THEN Reborn(Ids, Running.track, Reply.track) ELSE Ids

(* The undo that runs, or what will undo the edit that was accepted, and the  *)
(* edits behind it.                                                          *)
Owing == queue # <<>> /\ (Landed \/ Running.kind \in Undos)
Spent == Blank("unmark")
Due == IF ~Owing THEN Spent ELSE IF Landed THEN After(Running, Reply) ELSE Running
Later == IF Owing THEN Tail(queue) ELSE queue

Remembers ==
  \A u \in Tracks, g \in FramesOf(page) \union {None}, v \in Rects \union Types \union {None} :
    Wants(Heir, opened, u, g, v) => Back(Heir, undoStack, Due, Later, api, u, g, v)

(* An undo runs alone. *)
UndoAlone == \A i \in DOMAIN queue : queue[i].kind \in Undos => Len(queue) = 1

(* The way from an id to the one it has by now has one end. *)
OneEnd == \A t \in Tracks : {u \in Heirs(t) : remap[u] = None} = {Resolve(t)}

(* A track that was deleted, and that no other stands in for. *)
Dead(t) == t \in Tracks /\ t < api.next /\ api.track[t] = None
Gone(t) == Dead(t) /\ remap[t] = None

(* What makes a track again is about one that is gone, and about each once. *)
Reviving == Owing /\ (Running.kind = "recreate" \/ Due.kind = "recreate")
Recreates ==
  /\ \A i \in DOMAIN undoStack : undoStack[i].kind = "recreate" =>
       /\ Gone(undoStack[i].track)
       /\ \A k \in DOMAIN undoStack : k # i /\ undoStack[k].kind = "recreate" =>
            undoStack[k].track # undoStack[i].track
       /\ Reviving => undoStack[i].track # Running.track
  /\ Reviving => Gone(Running.track)

(* Edits, and what is left of making a track again, name a track by the id it *)
(* has by now.                                                               *)
Named(j) == j.kind \in {"move", "deleteBox", "deleteTrack", "update", "refill"} =>
              j.track \in Tracks /\ remap[j.track] = None
Direct ==
  /\ \A i \in DOMAIN queue : Named(queue[i])
  /\ \A i \in DOMAIN undoStack : undoStack[i].kind # "refill"

(* What is to be undone is about tracks that were made. *)
Able(j) ==
  /\ \A t \in About(j) : t < api.next
  /\ j.kind \in {"remove", "uncopy"} => j.frame \in Frames
  /\ j.kind = "undraw" => j.track \in Tracks
Born ==
  /\ \A t \in Had(opened) : t < api.next
  /\ \A t \in Tracks : remap[t] # None => Dead(t) /\ remap[t] < api.next
  /\ \A i \in DOMAIN undoStack : Able(undoStack[i])
  /\ Able(Due)

(* What undoes an accepted edit names its tracks by the ids they have.        *)
Fresh == Landed /\ Running.kind # "uncopy" => \A t \in About(Due) : remap[t] = None

(* A request was made out with the ids of when it was sent. *)
Sent == flight.at = "sent" =>
  /\ Running = Started(Running)
  /\ Running.kind = "recreate" => Running.boxes # NoBoxes

(* A track that was made again has a new id. *)
New == Landed /\ Running.kind = "recreate" => Reply.track \in Tracks /\ Reply.track # Running.track

(* The labels that were loaded were those of the clip. *)
Loaded ==
  /\ \A t \in Had(opened) : /\ opened.track[t].clip = page
                            /\ \E f \in Frames : opened.box[t][f] # None
  /\ \A t \in Tracks, f \in Frames : opened.box[t][f] # None => ClipOf[f] = page

Clean == page \in Clips /\ upset = {}
Undoable ==
  /\ UndoAlone /\ OneEnd /\ Recreates /\ Direct /\ Born
  /\ Fresh /\ Sent /\ New /\ Loaded /\ Remembers

(* What is known of a step that leaves nothing in doubt. *)
Sane == IInv /\ Apart /\ Mirror /\ Full(api) /\ Clean /\ Undoable

(* What runs when nothing does is about nothing. *)
LEMMA SpentIs ==
  /\ Spent \in Job /\ Spent.kind = "unmark" /\ About(Spent) = {}
  /\ \A h, u, g : ~Touches(h, Spent, u, g)
<1> DEFINE is == Spent
<1>1. is \in Job /\ is.kind = "unmark" /\ is.track = None
  BY BlankType DEF Spent, Blank, Undos
<1> HIDE DEF is
<1>2. About(is) = {}
  BY <1>1, NoneAssumption DEF About, Tracks
<1>3. \A h, u, g : ~Touches(h, is, u, g)
  BY <1>1 DEF Touches, Covers
<1>4. QED BY <1>1, <1>2, <1>3 DEF is

(***************************************************************************)
(* The way from an id to the one it has by now, in the ids m of recreated     *)
(* tracks: remap, or what it will be.                                        *)
(***************************************************************************)
Closed(m, S) == \A v \in S : m[v] \in S \union {None}
Way(m, t) == {u \in Tracks : \A S \in SUBSET Tracks : t \in S /\ Closed(m, S) => u \in S}
End(m, t) == {u \in Way(m, t) : m[u] = None}
EndsAt(m, t, x) == End(m, t) = {x}
By(m, t) == IF m[t] = None \/ End(m, t) = {} THEN t ELSE CHOOSE u \in End(m, t) : TRUE

(* The way is the one that LabelStore takes with remap. *)
LEMMA WayIs ==
  ASSUME NEW t
  PROVE  /\ Way(remap, t) = Heirs(t) /\ End(remap, t) = {u \in Heirs(t) : remap[u] = None}
         /\ By(remap, t) = Resolve(t)
<1>1. Way(remap, t) = Heirs(t)
  BY DEF Way, Heirs, Closed
<1>2. End(remap, t) = {u \in Heirs(t) : remap[u] = None}
  BY <1>1 DEF End
<1>3. By(remap, t) = Resolve(t)
  BY <1>2 DEF By, Resolve
<1>4. QED BY <1>1, <1>2, <1>3

(* And so it is after a step. *)
LEMMA WayWas ==
  ASSUME NEW t
  PROVE  /\ Way(remap', t) = Heirs(t)' /\ End(remap', t) = {u \in Heirs(t) : remap[u] = None}'
         /\ By(remap', t) = Resolve(t)'
<1>1. Way(remap', t) = Heirs(t)'
  BY DEF Way, Heirs, Closed
<1>2. End(remap', t) = {u \in Heirs(t) : remap[u] = None}'
  BY <1>1 DEF End
<1>3. By(remap', t) = Resolve(t)'
  BY <1>2 DEF By, Resolve
<1>4. QED BY <1>1, <1>2, <1>3

(* The way from an id is the least set that leads nowhere else. *)
LEMMA WayCloses ==
  ASSUME NEW m \in [Tracks -> Tracks \union {None}], NEW t \in Tracks
  PROVE  /\ t \in Way(m, t) /\ Way(m, t) \in SUBSET Tracks
         /\ Closed(m, Way(m, t))
         /\ \A S \in SUBSET Tracks : t \in S /\ Closed(m, S) => Way(m, t) \subseteq S
BY DEF Way, Closed

(* Its one end is what the id stands for by now. *)
LEMMA EndIs ==
  ASSUME NEW m \in [Tracks -> Tracks \union {None}], NEW t \in Tracks, NEW x, EndsAt(m, t, x)
  PROVE  By(m, t) = x /\ x \in Tracks /\ m[x] = None /\ (m[t] = None => x = t)
<1>1. x \in Way(m, t) /\ m[x] = None /\ x \in Tracks
  BY WayCloses DEF End, EndsAt
<1>2. m[t] = None => x = t
  BY WayCloses DEF End, EndsAt
<1>3. CASE m[t] = None
  BY <1>1, <1>2, <1>3 DEF By
<1>4. CASE m[t] # None
  <2>1. By(m, t) = CHOOSE u \in {x} : TRUE
    BY <1>4 DEF By, EndsAt
  <2>2. QED BY <1>1, <1>2, <2>1
<1>5. QED BY <1>3, <1>4

(* An id that stands for itself gets another: who went to it goes to the other. *)
LEMMA EndMoves ==
  ASSUME NEW m \in [Tracks -> Tracks \union {None}], NEW u0 \in Tracks, NEW n \in Tracks, n # u0,
         m[u0] = None, m[n] = None, NEW w \in [Tracks -> Tracks \union {None}],
         w[u0] = n, \A v \in Tracks : v # u0 => w[v] = m[v],
         NEW t \in Tracks, NEW x, EndsAt(m, t, x)
  PROVE  EndsAt(w, t, IF x = u0 THEN n ELSE x)
<1> DEFINE old == Way(m, t)
           new == Way(w, t)
<1>1. n # None
  BY NoneAssumption DEF Tracks
<1>2. x \in old /\ m[x] = None /\ x \in Tracks /\ \A v \in old : m[v] = None => v = x
  BY WayCloses DEF End, EndsAt
<1>3. /\ t \in old /\ old \in SUBSET Tracks /\ Closed(m, old)
      /\ \A S \in SUBSET Tracks : t \in S /\ Closed(m, S) => old \subseteq S
  BY WayCloses
<1>4. /\ t \in new /\ new \in SUBSET Tracks /\ Closed(w, new)
      /\ \A S \in SUBSET Tracks : t \in S /\ Closed(w, S) => new \subseteq S
  BY <1>1, WayCloses
<1>5. End(w, t) = {u \in new : w[u] = None}
  BY DEF End
<1> HIDE DEF old, new
<1>6. u0 \notin new => Closed(m, new) /\ old \subseteq new
  <2>1. u0 \notin new => Closed(m, new)
    BY <1>1, <1>4 DEF Closed
  <2>2. QED BY <1>3, <1>4, <2>1
<1>7. CASE x # u0
  <2>1. u0 \notin old
    BY <1>2, <1>7
  <2>2. Closed(w, old)
    BY <1>1, <1>3, <2>1 DEF Closed
  <2>3. new \subseteq old
    BY <1>3, <1>4, <2>2
  <2>4. new = old
    BY <1>6, <2>1, <2>3
  <2>5. \A u \in new : w[u] = None <=> u = x
    BY <1>1, <1>2, <1>3, <2>1, <2>4
  <2>6. QED BY <1>2, <1>5, <1>7, <2>4, <2>5 DEF EndsAt
<1>8. CASE x = u0
  <2>1. Closed(w, old \union {n})
    BY <1>1, <1>3 DEF Closed
  <2>2. new \subseteq old \union {n}
    BY <1>3, <1>4, <2>1
  <2>3. u0 \in new
    BY <1>2, <1>6, <1>8
  <2>4. n \in new
    BY <1>1, <1>4, <2>3 DEF Closed
  <2>5. \A u \in new : w[u] = None <=> u = n
    BY <1>1, <1>2, <1>3, <1>8, <2>2
  <2>6. QED BY <1>5, <1>8, <2>4, <2>5 DEF EndsAt
<1>9. QED BY <1>7, <1>8

(* Every id stands for one that stands for itself. *)
LEMMA IdsShape ==
  ASSUME IInv, OneEnd
  PROVE  /\ Ids \in [Tracks -> Tracks]
         /\ \A t \in Tracks : /\ Ids[t] = Resolve(t) /\ remap[Resolve(t)] = None
                              /\ Resolve(Resolve(t)) = Resolve(t)
                              /\ remap[t] = None => Resolve(t) = t
<1>1. remap \in [Tracks -> Tracks \union {None}]
  BY DEF IInv, TypeOK
<1>2. ASSUME NEW t \in Tracks
      PROVE  Resolve(t) \in Tracks /\ remap[Resolve(t)] = None /\ (remap[t] = None => Resolve(t) = t)
  <2>1. EndsAt(remap, t, Resolve(t))
    BY WayIs DEF OneEnd, EndsAt
  <2>2. By(remap, t) = Resolve(t)
    BY WayIs
  <2>3. QED BY <1>1, <2>1, <2>2, EndIs
<1>3. QED BY <1>2 DEF Ids

(* One way after an id was given an heir. *)
LEMMA WaysMove ==
  ASSUME NEW m \in [Tracks -> Tracks \union {None}], NEW u0 \in Tracks, NEW n \in Tracks, n # u0,
         m[u0] = None, m[n] = None, NEW w \in [Tracks -> Tracks \union {None}],
         w[u0] = n, \A v \in Tracks : v # u0 => w[v] = m[v],
         NEW t \in Tracks, EndsAt(m, t, By(m, t))
  PROVE  EndsAt(w, t, By(w, t)) /\ By(w, t) = IF By(m, t) = u0 THEN n ELSE By(m, t)
<1> DEFINE x == By(m, t)
           y == IF x = u0 THEN n ELSE x
<1>1. EndsAt(w, t, y)
  BY EndMoves
<1> HIDE DEF x, y
<1>2. By(w, t) = y
  BY <1>1, EndIs
<1>3. QED BY <1>1, <1>2 DEF x, y

(* An undo made a track again: its old id is now the new one. *)
LEMMA RemapMoves ==
  ASSUME IInv, OneEnd, NEW u0 \in Tracks, NEW n \in Tracks, n # u0,
         remap[u0] = None, remap[n] = None, remap' \in [Tracks -> Tracks \union {None}],
         remap'[u0] = n, \A v \in Tracks : v # u0 => remap'[v] = remap[v]
  PROVE  OneEnd' /\ Ids' = Reborn(Ids, u0, n)
<1>1. remap \in [Tracks -> Tracks \union {None}]
  BY DEF IInv, TypeOK
<1>2. \A t \in Tracks : By(remap, t) = Resolve(t) /\ By(remap', t) = Resolve(t)'
  BY WayIs, WayWas
<1>3. \A t \in Tracks : EndsAt(remap, t, By(remap, t))
  BY <1>2, WayIs DEF OneEnd, EndsAt
<1>4. \A t \in Tracks : /\ EndsAt(remap', t, By(remap', t))
                       /\ By(remap', t) = IF By(remap, t) = u0 THEN n ELSE By(remap, t)
  BY <1>1, <1>3, WaysMove
<1>5. OneEnd'
  BY <1>2, <1>4, WayWas DEF OneEnd, EndsAt
<1>6. Ids' = Reborn(Ids, u0, n)
  BY <1>2, <1>4 DEF Ids, Reborn
<1>7. QED BY <1>5, <1>6

(* Nobody has another id. *)
LEMMA RemapSame ==
  ASSUME UNCHANGED remap
  PROVE  /\ \A t \in Tracks : Resolve(t)' = Resolve(t)
         /\ Ids' = Ids /\ (OneEnd' <=> OneEnd)
<1>1. \A t \in Tracks : Resolve(t)' = Resolve(t)
  BY WayIs, WayWas
<1>2. \A t \in Tracks : {u \in Heirs(t) : remap[u] = None}' = {u \in Heirs(t) : remap[u] = None}
  BY WayIs, WayWas
<1>3. QED BY <1>1, <1>2 DEF Ids, OneEnd

(* Nothing was made again yet. *)
LEMMA RemapNew ==
  ASSUME remap' = Nothing
  PROVE  /\ \A t \in Tracks : Resolve(t)' = t /\ Ids'[t] = t /\ remap'[t] = None
         /\ OneEnd'
<1>1. remap' \in [Tracks -> Tracks \union {None}] /\ \A t \in Tracks : remap'[t] = None
  BY DEF Nothing
<1>2. ASSUME NEW t \in Tracks PROVE EndsAt(remap', t, t)
  <2>1. {t} \in SUBSET Tracks /\ Closed(remap', {t})
    BY <1>1 DEF Closed
  <2>2. Way(remap', t) = {t}
    BY <1>1, <2>1, WayCloses
  <2>3. QED BY <1>1, <2>2 DEF End, EndsAt
<1>3. \A t \in Tracks : By(remap', t) = t
  BY <1>1, <1>2, EndIs
<1>4. \A t \in Tracks : Resolve(t)' = t
  BY <1>3, WayWas
<1>5. OneEnd'
  BY <1>2, <1>4, WayWas DEF OneEnd, EndsAt
<1>6. QED BY <1>1, <1>4, <1>5 DEF Ids

(* The id that a track has by now was given out, if the track's was. *)
LEMMA ResolveBorn ==
  ASSUME IInv, OneEnd, Born, NEW t \in Tracks, t < api.next
  PROVE  Resolve(t) < api.next
<1> DEFINE S == {t} \union {u \in Tracks : \E v \in Tracks : remap[v] = u}
<1>1. remap \in [Tracks -> Tracks \union {None}]
  BY DEF IInv, TypeOK
<1>2. S \in SUBSET Tracks /\ t \in S /\ Closed(remap, S)
  BY <1>1 DEF Closed
<1> HIDE DEF S
<1>3. Way(remap, t) \subseteq S
  BY <1>1, <1>2, WayCloses
<1>4. Resolve(t) \in Way(remap, t)
  BY WayIs DEF OneEnd
<1>5. \A u \in S : u = t \/ \E v \in Tracks : remap[v] = u /\ u \in Tracks
  BY DEF S
<1>6. PICK u \in S : u = Resolve(t)
  BY <1>3, <1>4
<1>7. CASE u = t
  BY <1>6, <1>7
<1>8. CASE \E v \in Tracks : remap[v] = u /\ u \in Tracks
  <2>1. u # None
    BY <1>8, NoneAssumption DEF Tracks
  <2>2. QED BY <1>6, <1>8, <2>1 DEF Born
<1>9. QED BY <1>5, <1>6, <1>7, <1>8

(* A step that changes nothing of it. *)
LEMMA QuietUndoable ==
  ASSUME Undoable, UNCHANGED <<api, page, queue, remap, undoStack, opened>>,
         Landed' <=> Landed, Landed => Reply' = Reply, flight'.at = "sent" => flight.at = "sent"
  PROVE  Undoable'
<1>1. Running' = Running /\ (Owing' <=> Owing)
  BY DEF Running, Owing
<1>2. Ids' = Ids /\ (OneEnd' <=> OneEnd) /\ \A t \in Tracks : Resolve(t)' = Resolve(t)
  BY RemapSame
<1>3. Heir' = Heir
  BY <1>1, <1>2 DEF Heir
<1>4. Spent' = Spent
  BY DEF Spent
<1>5. Due' = Due
  BY <1>1, <1>4 DEF Due
<1>6. Later' = Later
  BY <1>1 DEF Later
<1>7. UndoAlone' /\ OneEnd' /\ Direct' /\ Loaded'
  BY <1>2 DEF Undoable, UndoAlone, Direct, Named, Loaded
<1>8. Recreates'
  BY <1>1, <1>5 DEF Undoable, Recreates, Reviving, Gone, Dead
<1>9. Born'
  BY <1>5 DEF Undoable, Born, Able, Dead
<1>10. Fresh' /\ New'
  BY <1>1, <1>5 DEF Undoable, Fresh, New
<1>11. Sent'
  <2>1. Started(Running)' = Started(Running)
    BY <1>1, WayIs, WayWas DEF Started
  <2>2. QED BY <1>1, <2>1 DEF Undoable, Sent
<1>12. Remembers'
  BY <1>3, <1>5, <1>6 DEF Undoable, Remembers
<1>13. QED BY <1>7, <1>8, <1>9, <1>10, <1>11, <1>12 DEF Undoable

(* Nothing is to be undone, and nothing waits. *)
LEMMA BackStart ==
  ASSUME NEW h, NEW rows, NEW u, NEW g, NEW v, Holds(rows, u, g, v)
  PROVE  Back(h, <<>>, Spent, <<>>, rows, u, g, v)
<1>1. Stacked(h, <<>>, u, g, v) /\ Expected(<<>>, u, g, v)
  BY DEF Stacked, Expected
<1>2. QED BY <1>1, SpentIs DEF Back

(* The labels of a clip are loaded, and nothing waits. *)
LEMMA LoadUndoable ==
  ASSUME IInv, IInv', Full(api), NEW p \in Pages, NEW view, Load(p, view),
         UNCHANGED <<api, queue, flight>>, Clean'
  PROVE  Undoable'
<1>1. p \in Clips /\ page' = p /\ queue = <<>> /\ view = Of(api, p) /\ opened' = view
      /\ undoStack' = <<>> /\ remap' = Nothing
  BY DEF Load, Clean
<1>2. api \in Rows /\ Sound(api) /\ flight = Idle
  BY <1>1 DEF IInv, TypeOK
<1>3. ~Landed' /\ flight'.at = "idle" /\ ~Owing'
  BY <1>1, <1>2 DEF Landed, Idle, Owing
<1>4. OneEnd' /\ \A t \in Tracks : Ids'[t] = t /\ remap'[t] = None
  BY <1>1, RemapNew
<1>5. Due' = Spent /\ Later' = <<>> /\ Heir' = Ids'
  BY <1>1, <1>3 DEF Due, Later, Heir, Spent
<1>6. \A t \in Tracks : opened'.track[t] = SavedTrack(api, p, t)
                        /\ \A f \in Frames : Rect(opened'.box[t][f]) = SavedBox(api, p, t, f)
  BY <1>1, <1>2, SavedIsOf
<1>7. \A t \in Tracks : opened'.box[t] = IF api.track[t] # None /\ api.track[t].clip = p
                                         THEN api.box[t] ELSE NoBoxes
  BY <1>1 DEF Of
<1>8. Had(opened') = {t \in Tracks : api.track[t] # None /\ api.track[t].clip = p}
  BY <1>6 DEF Had, SavedTrack
<1>9. \A t \in Had(opened') : t < api.next
  <2>1. api.next \in Nat
    BY <1>2, RowsShape DEF Tracks
  <2>2. QED BY <1>2, <1>8, <2>1 DEF Sound, Unused, Tracks
<1>10. UndoAlone' /\ Recreates' /\ Direct' /\ Fresh' /\ Sent' /\ New'
  <2>1. ~Reviving'
    BY <1>3 DEF Reviving
  <2>2. DOMAIN queue' = {} /\ DOMAIN undoStack' = {}
    BY <1>1
  <2>3. QED BY <1>3, <2>1, <2>2 DEF UndoAlone, Recreates, Direct, Fresh, Sent, New
<1>11. Born'
  <2>1. Able(Due)'
    BY <1>5, SpentIs DEF Able
  <2>2. DOMAIN undoStack' = {}
    BY <1>1
  <2>3. QED BY <1>4, <1>9, <2>1, <2>2 DEF Born
<1>12. Loaded'
  <2>1. ASSUME NEW t \in Had(opened')
        PROVE  opened'.track[t].clip = page' /\ \E f \in Frames : opened'.box[t][f] # None
    BY <1>1, <1>6, <1>7, <1>8, <2>1 DEF Full, SavedTrack
  <2>2. ASSUME NEW t \in Tracks, NEW f \in Frames, opened'.box[t][f] # None
        PROVE  ClipOf[f] = page'
    <3>1. api.box[t][f] # None /\ api.track[t].clip = p
      BY <1>7, <2>2 DEF NoBoxes
    <3>2. QED BY <1>1, <1>2, <3>1 DEF Sound, InClip
  <2>3. QED BY <2>1, <2>2 DEF Loaded
<1>13. Remembers'
  <2> SUFFICES ASSUME NEW u \in Tracks, NEW g \in FramesOf(p) \union {None}, NEW v,
                      Wants(Ids', opened', u, g, v)
               PROVE  Back(Ids', <<>>, Spent, <<>>, api, u, g, v)
    BY <1>1, <1>5 DEF Remembers
  <2>1. g # None => g \in Frames /\ ClipOf[g] = p
    BY <1>1, FrameOnPage
  <2>2. CASE \E t \in Had(opened') : Ids'[t] = u /\ v = Was(opened', t, g)
    <3>1. u \in Had(opened') /\ v = Was(opened', u, g)
      BY <1>4, <2>2 DEF Had
    <3>2. opened'.track[u] = api.track[u]
      BY <1>6, <1>8, <3>1 DEF SavedTrack
    <3>3. g # None => Rect(opened'.box[u][g]) = Rect(api.box[u][g])
      BY <1>6, <2>1 DEF SavedBox
    <3>4. Holds(api, u, g, v)
      BY <3>1, <3>2, <3>3 DEF Was, Has, Holds
    <3>5. QED BY <3>4, BackStart
  <2>3. CASE g # None /\ v = None /\ \A t \in Had(opened') : Ids'[t] # u
    <3>1. u \notin Had(opened')
      BY <1>4, <2>3 DEF Had
    <3>2. api.box[u][g] = None
      BY <1>2, <1>8, <2>1, <2>3, <3>1 DEF Sound, InClip
    <3>3. Has(api, u, g) = None
      BY <2>3, <3>2 DEF Has, Rect
    <3>4. Holds(api, u, g, v)
      BY <2>3, <3>3 DEF Holds
    <3>5. QED BY <3>4, BackStart
  <2>4. QED BY <2>2, <2>3 DEF Wants
<1>14. QED BY <1>4, <1>10, <1>11, <1>12, <1>13 DEF Undoable

(* With nothing left to undo, the clip is as it was. *)
LEMMA UndoableShows ==
  ASSUME IInv, Full(api), Clean, Undoable, queue = <<>>, undoStack = <<>>
  PROVE  UndoRestores
<1> DEFINE now == Of(api, page)
           had == Had(opened)
<1>1. api \in Rows /\ Sound(api) /\ flight = Idle /\ page \in Clips /\ opened \in View
  BY DEF IInv, TypeOK, Clean
<1>2. Due = Spent /\ Later = <<>> /\ Heir = Ids
  BY <1>1 DEF Due, Later, Heir, Owing, Landed, Idle
<1>3. Ids \in [Tracks -> Tracks] /\ \A t \in Tracks : Ids[t] = Resolve(t)
  BY IdsShape DEF Undoable
<1>4. ASSUME NEW u \in Tracks, NEW g \in FramesOf(page) \union {None},
             NEW v \in Rects \union Types \union {None}, Wants(Ids, opened, u, g, v)
      PROVE  Holds(api, u, g, v)
  <2>1. Back(Ids, <<>>, Spent, <<>>, api, u, g, v)
    BY <1>2, <1>4 DEF Undoable, Remembers
  <2>2. Untouched(Ids, <<>>, u, g)
    BY DEF Untouched
  <2>3. QED BY <2>1, <2>2, SpentIs DEF Back
<1>5. \A t \in Tracks : /\ now.track[t] = SavedTrack(api, page, t)
                       /\ \A f \in Frames : Rect(now.box[t][f]) = SavedBox(api, page, t, f)
  BY <1>1, SavedIsOf
<1>6. \A t \in Tracks, f \in Frames : opened.box[t][f] \in BoxOrNone
  BY <1>1, ViewShape
<1>7. \A t \in had : opened.track[t] \in Track
  BY <1>1, ViewShape DEF Had, TrackOrNone
<1> HIDE DEF now
<1>8. ASSUME NEW t \in had
      PROVE  /\ now.track[Resolve(t)] = opened.track[t]
             /\ \A f \in Frames : Rect(now.box[Resolve(t)][f]) = Rect(opened.box[t][f])
  <2> DEFINE u == Resolve(t)
  <2>1. t \in Tracks /\ u \in Tracks /\ Ids[t] = u
    BY <1>3 DEF Had
  <2> HIDE DEF u
  <2>2. ASSUME NEW f \in Frames, ClipOf[f] = page
        PROVE  Rect(api.box[u][f]) = Rect(opened.box[t][f])
    <3> DEFINE v == Rect(opened.box[t][f])
    <3>1. v \in Rects \union Types \union {None}
      BY <1>6, <2>1, RectShape
    <3>2. f \in FramesOf(page) /\ f # None
      BY <1>1, <2>2, NoneAssumption, NoGoldClip DEF FramesOf
    <3>3. Wants(Ids, opened, u, f, v)
      BY <2>1, <3>2 DEF Wants, Was
    <3> HIDE DEF v
    <3>4. Holds(api, u, f, v)
      BY <1>4, <2>1, <3>1, <3>2, <3>3
    <3>5. QED BY <3>2, <3>4 DEF Holds, Has, v
  <2>3. PICK f \in Frames : opened.box[t][f] # None
    BY DEF Undoable, Loaded
  <2>4. ClipOf[f] = page
    BY <2>1, <2>3 DEF Undoable, Loaded
  <2>5. api.box[u][f] # None
    BY <1>6, <2>1, <2>2, <2>3, <2>4, RectShape DEF Rect
  <2>6. api.track[u] # None /\ api.track[u].clip = page
    BY <1>1, <2>1, <2>4, <2>5 DEF Sound, InClip
  <2>7. api.track[u].type = opened.track[t].type
    <3> DEFINE v == opened.track[t].type
    <3>1. v \in Rects \union Types \union {None}
      BY <1>7 DEF Track
    <3>2. Wants(Ids, opened, u, None, v)
      BY <2>1 DEF Wants, Was
    <3> HIDE DEF v
    <3>3. Holds(api, u, None, v)
      BY <1>4, <2>1, <3>1, <3>2
    <3>4. QED BY <2>6, <3>3 DEF Holds, Has, v
  <2>8. api.track[u] = opened.track[t]
    <3>1. api.track[u] \in Track /\ opened.track[t] \in Track
      BY <1>1, <1>7, <2>1, <2>6, RowsShape DEF TrackOrNone
    <3>2. opened.track[t].clip = page
      BY DEF Undoable, Loaded
    <3>3. QED BY <2>6, <2>7, <3>1, <3>2 DEF Track
  <2>9. now.track[u] = opened.track[t]
    BY <1>5, <2>1, <2>6, <2>8 DEF SavedTrack
  <2>10. ASSUME NEW e \in Frames PROVE Rect(now.box[u][e]) = Rect(opened.box[t][e])
    <3>1. Rect(now.box[u][e]) = SavedBox(api, page, u, e)
      BY <1>5, <2>1
    <3>2. CASE ClipOf[e] = page
      BY <2>2, <3>1, <3>2 DEF SavedBox
    <3>3. CASE ClipOf[e] # page
      <4>1. opened.box[t][e] = None
        BY <2>1, <3>3 DEF Undoable, Loaded
      <4>2. QED BY <3>1, <3>3, <4>1 DEF SavedBox, Rect
    <3>4. QED BY <3>2, <3>3
  <2>11. QED BY <2>9, <2>10 DEF u
<1>9. ASSUME NEW u \in Tracks, now.track[u] # None
      PROVE  \E t \in had : u = Resolve(t)
  <2> SUFFICES ASSUME \A t \in had : Ids[t] # u PROVE FALSE
    BY <1>3 DEF Had
  <2>1. api.track[u] # None /\ api.track[u].clip = page
    BY <1>5, <1>9 DEF SavedTrack
  <2>2. PICK f \in Frames : api.box[u][f] # None
    BY <2>1 DEF Full
  <2>3. ClipOf[f] = page
    BY <1>1, <2>1, <2>2 DEF Sound, InClip
  <2>4. f \in FramesOf(page) /\ f # None
    BY <1>1, <2>3, NoneAssumption, NoGoldClip DEF FramesOf
  <2>5. Wants(Ids, opened, u, f, None)
    BY <2>4 DEF Wants
  <2>6. Holds(api, u, f, None)
    BY <1>4, <2>4, <2>5
  <2>7. Rect(api.box[u][f]) = None
    BY <2>4, <2>6 DEF Holds, Has
  <2>8. QED BY <1>1, <2>2, <2>7, RowsShape, RectShape
<1>10. {t \in Tracks : now.track[t] # None} = {Resolve(t) : t \in had}
  <2>1. \A t \in had : Resolve(t) \in Tracks /\ now.track[Resolve(t)] # None
    BY <1>3, <1>8 DEF Had
  <2>2. QED BY <1>9, <2>1
<1>11. QED BY <1>8, <1>10 DEF UndoRestores, now, Had

(* What the queue notes on an edit is no part of what it does. *)
LEMMA PlacedSame ==
  ASSUME NEW job, Placed(job) \in Job
  PROVE  LET new == Placed(job)
         IN /\ new.kind = job.kind /\ new.clip = job.clip /\ new.track = job.track
            /\ new.frame = job.frame /\ new.at = job.at /\ new.type = job.type
            /\ new.old = job.old /\ new.prev = job.prev /\ new.boxes = job.boxes
            /\ new.tracks = job.tracks
<1> DEFINE new == Placed(job)
<1>1. DOMAIN new = DOMAIN job
  BY DEF Placed
<1>2. {"kind", "clip", "track", "frame", "at", "type", "old", "prev", "boxes", "tracks"}
        \subseteq DOMAIN new
  <2> HIDE DEF new
  <2>1. QED BY DEF Job, new
<1>3. QED BY <1>1, <1>2 DEF Placed

(* An edit leaves alone what its undo is not about. *)
LEMMA LandedSame ==
  ASSUME NEW j \in Good, NEW a \in Answer, j.kind \in Edits, NEW h,
         \A t \in About(After(j, a)) : h[t] = t, j.kind = "draw" => a.track \in Tracks,
         j.kind \in {"deleteTrack", "update"} => j.track \in Tracks,
         NEW u \in Tracks, NEW g \in Spot, ~Touches(h, After(j, a), u, g), NEW x
  PROVE  /\ g # None => BoxSet(j, a, u, g, x) = x
         /\ g = None => TrackSet(j, a, u, x) = x
<1> DEFINE k == After(j, a)
<1>1. \A t \in About(k) : h[t] = t
  OBVIOUS
<1>2. ~Touches(h, k, u, g)
  OBVIOUS
<1>3. CASE j.kind \in {"move", "deleteBox"}
  <2>1. j.track \in Tracks /\ j.frame \in Frames /\ j.frame # None
    BY <1>3, NoneAssumption DEF Good, JobOK
  <2>2. CASE j.kind = "move" \/ ~a.gone
    <3>1. k.kind \in {"remove", "putBack"} /\ k.track = j.track /\ k.frame = j.frame
      BY <1>3, <2>2, AfterShape
    <3> HIDE DEF k
    <3>2. About(k) = {j.track}
      BY <2>1, <3>1 DEF About
    <3>3. ~(u = j.track /\ g = j.frame)
      BY <1>1, <1>2, <2>1, <3>1, <3>2 DEF Touches, Covers
    <3>4. QED BY <1>3, <2>2, <3>3 DEF TrackSet, Brings, Drops, BoxSet, Places, Takes, Copies
  <2>3. CASE j.kind = "deleteBox" /\ a.gone
    <3>1. k.kind = "recreate" /\ k.track = j.track
      BY <2>3, AfterShape
    <3> HIDE DEF k
    <3>2. About(k) = {j.track}
      BY <2>1, <3>1 DEF About
    <3>3. u # j.track
      BY <1>1, <1>2, <3>1, <3>2 DEF Touches, Covers
    <3>4. QED BY <2>3, <3>3 DEF TrackSet, Brings, Drops, BoxSet, Places, Takes, Copies
  <2>4. QED BY <1>3, <2>2, <2>3
<1>4. CASE j.kind \in {"deleteTrack", "update"}
  <2>1. /\ k.track = j.track
        /\ j.kind = "deleteTrack" => k.kind = "recreate"
        /\ j.kind = "update" => k.kind = "rename"
    BY <1>4, AfterShape
  <2> HIDE DEF k
  <2>2. About(k) = {j.track}
    BY <1>4, <2>1 DEF About
  <2>3. u # j.track \/ (j.kind = "update" /\ g # None)
    BY <1>1, <1>2, <1>4, <2>1, <2>2 DEF Touches, Covers
  <2>4. QED BY <1>4, <2>3 DEF TrackSet, Brings, Drops, BoxSet, Places, Takes, Copies
<1>5. CASE j.kind = "draw"
  <2>1. k.kind = "undraw" /\ k.track = a.track
    BY <1>5, AfterShape
  <2> HIDE DEF k
  <2>2. About(k) = {a.track}
    BY <1>5, <2>1 DEF About
  <2>3. u # a.track
    BY <1>1, <1>2, <2>1, <2>2 DEF Touches, Covers
  <2>4. QED BY <1>5, <2>3 DEF TrackSet, Brings, Drops, BoxSet, Places, Takes, Copies
<1>6. CASE j.kind = "copy"
  <2>1. k.kind = "uncopy" /\ k.frame = j.frame /\ k.tracks = Made(a)
    BY <1>6, AfterShape
  <2>2. j.frame # None
    BY <1>6, NoneAssumption DEF Good, JobOK
  <2> HIDE DEF k
  <2>3. About(k) = Made(a)
    BY <2>1 DEF About
  <2>4. ~(g = j.frame /\ a.made[u] # None)
    BY <1>1, <1>2, <2>1, <2>2, <2>3 DEF Touches, Covers, Made
  <2>5. QED BY <1>6, <2>4 DEF TrackSet, Brings, Drops, BoxSet, Places, Takes, Copies
<1>7. CASE j.kind = "mark"
  BY <1>7 DEF TrackSet, Brings, Drops, BoxSet, Places, Takes, Copies
<1>8. QED BY <1>3, <1>4, <1>5, <1>6, <1>7 DEF Edits

(* What undoes an edit is about tracks. *)
LEMMA AboutAfter ==
  ASSUME NEW j \in Good, NEW a \in Answer, j.kind \in Edits
  PROVE  About(After(j, a)) \subseteq Tracks
<1> DEFINE k == After(j, a)
<1>1. CASE j.kind = "copy"
  <2>1. k.kind = "uncopy" /\ k.tracks = Made(a)
    BY <1>1, AfterShape
  <2> HIDE DEF k
  <2>2. QED BY <2>1 DEF About, Made, k
<1>2. CASE j.kind # "copy"
  <2>1. k.kind \in {"undraw", "remove", "putBack", "recreate", "rename", "unmark"}
    BY <1>2, AfterShape DEF Edits
  <2> HIDE DEF k
  <2>2. QED BY <2>1 DEF About, k
<1>3. QED BY <1>1, <1>2

(* What is known of the edit whose answer is on its way to the screen. *)
LEMMA LandedKnows ==
  ASSUME Sane, Landed
  PROVE  /\ queue # <<>> /\ Running \in Good /\ Reply \in Answer /\ Owing
         /\ Due = After(Running, Reply) /\ Later = Tail(queue)
         /\ Running.kind \in Edits =>
              /\ Heir = Ids
              /\ \A t \in About(Due) : Heir[t] = t
              /\ Running.kind = "draw" => Reply.track \in Tracks
              /\ Running.kind \in {"deleteTrack", "update"} => Running.track \in Tracks
<1>1. queue # <<>>
  BY DEF Sane, IInv, TypeOK, Landed, Idle
<1>2. Running \in Good /\ Reply \in Answer /\ 1 \in DOMAIN queue /\ Running = queue[1]
  BY <1>1, Queued, FlightShape DEF Sane, Reply, Running
<1>3. Owing /\ Due = After(Running, Reply) /\ Later = Tail(queue)
  BY <1>1 DEF Owing, Due, Later
<1>4. ASSUME Running.kind \in Edits
      PROVE  /\ Heir = Ids
             /\ \A t \in About(Due) : Heir[t] = t
             /\ Running.kind = "draw" => Reply.track \in Tracks
             /\ Running.kind \in {"deleteTrack", "update"} => Running.track \in Tracks
  <2>1. Running.kind \notin {"recreate", "uncopy", "refill"}
    BY <1>4 DEF Edits
  <2>2. Heir = Ids
    BY <2>1 DEF Heir
  <2>3. About(Due) \subseteq Tracks
    BY <1>2, <1>3, <1>4, AboutAfter
  <2>4. \A t \in About(Due) : remap[t] = None
    BY <2>1 DEF Sane, Undoable, Fresh
  <2>5. ASSUME NEW t \in About(Due) PROVE Ids[t] = t
    BY <2>3, <2>4, IdsShape DEF Sane, Undoable
  <2>6. Running.kind = "draw" => Reply.track \in Tracks
    BY DEF Sane, Mirror, OwnFlight
  <2>7. Named(Running)
    BY <1>2 DEF Sane, Undoable, Direct
  <2>8. QED BY <2>2, <2>5, <2>6, <2>7 DEF Named, Good, JobOK
<1>5. QED BY <1>1, <1>2, <1>3, <1>4

Unhurried == \A i \in DOMAIN queue : queue[i].kind \notin Undos

(* What neither an undo nor an edit that waits is about is on screen as saved. *)
LEMMA ShownAs ==
  ASSUME Sane, Unhurried, NEW u \in Tracks, NEW g \in FramesOf(page) \union {None}, NEW v,
         ~Touches(Heir, Due, u, g), \A k \in DOMAIN Later : ~Alters(Later[k], u, g),
         Holds(api, u, g, v)
  PROVE  /\ g # None => Rect(labels.box[u][g]) = v
         /\ g = None /\ labels.track[u] # None => labels.track[u].type = v
<1>1. /\ page \in Clips /\ Mirrored
      /\ g # None => g \in Frames /\ ClipOf[g] = page
  BY FrameOnPage DEF Sane, Clean, Mirror
<1>2. g \in Spot
  BY <1>1 DEF Spot
<1>3. queue \in Seq(Good)
  BY DEF Sane, IInv, Pending
<1>4. CASE Landed
  <2>1. /\ queue # <<>> /\ Running \in Good /\ Reply \in Answer
        /\ Due = After(Running, Reply) /\ Later = Tail(queue)
    BY <1>4, LandedKnows
  <2>2. Running.kind \in Edits
    <3>1. 1 \in DOMAIN queue /\ Running = queue[1]
      BY <2>1, Queued DEF Sane, Running
    <3>2. QED BY <2>1, <3>1, JobShape DEF Unhurried, Good
  <2>3. /\ \A t \in About(Due) : Heir[t] = t
        /\ Running.kind = "draw" => Reply.track \in Tracks
        /\ Running.kind \in {"deleteTrack", "update"} => Running.track \in Tracks
    BY <1>4, <2>2, LandedKnows
  <2>4. \A x : /\ g # None => BoxSet(Running, Reply, u, g, x) = x
               /\ g = None => TrackSet(Running, Reply, u, x) = x
    BY <1>2, <2>1, <2>2, <2>3, LandedSame
  <2>5. CASE g # None
    <3>1. BoxNow(u, g) = Rect(labels.box[u][g])
      BY <1>4, <2>4, <2>5 DEF BoxNow
    <3>2. ~Ahead(u, g)
      <4>1. ASSUME NEW i \in DOMAIN queue, i # 1, Moves(queue[i], u, g) PROVE FALSE
        <5>1. i - 1 \in DOMAIN Tail(queue) /\ Tail(queue)[i - 1] = queue[i]
          BY <1>3, <2>1, <4>1, RestShape
        <5>2. Alters(queue[i], u, g)
          BY <4>1 DEF Moves, Alters
        <5>3. QED BY <2>1, <5>1, <5>2
      <4>2. QED BY <1>4, <4>1 DEF Ahead, Waits
    <3>3. BoxNow(u, g) = SavedBox(api, page, u, g)
      BY <1>1, <2>5, <3>2 DEF Mirrored
    <3>4. QED BY <1>1, <2>5, <3>1, <3>3 DEF SavedBox, Holds, Has
  <2>6. CASE g = None
    <3>1. TrackNow(u) = labels.track[u]
      BY <1>4, <2>4, <2>6 DEF TrackNow
    <3>2. labels.track[u] = SavedTrack(api, page, u)
      BY <1>1, <3>1 DEF Mirrored
    <3>3. QED BY <2>6, <3>2 DEF SavedTrack, Holds, Has
  <2>7. QED BY <2>5, <2>6
<1>5. CASE ~Landed
  <2>1. Later = queue
    <3>1. queue # <<>> => 1 \in DOMAIN queue
      BY Queued DEF Sane
    <3>2. ~Owing
      BY <1>5, <3>1 DEF Unhurried, Owing, Running
    <3>3. QED BY <3>2 DEF Later
  <2>2. CASE g # None
    <3>1. BoxNow(u, g) = Rect(labels.box[u][g])
      BY <1>5 DEF BoxNow
    <3>2. ~Ahead(u, g)
      <4>1. ASSUME NEW i \in DOMAIN queue, Moves(queue[i], u, g) PROVE FALSE
        BY <2>1, <4>1 DEF Moves, Alters
      <4>2. queue # <<>> => 1 \in DOMAIN queue
        BY Queued DEF Sane
      <4>3. QED BY <4>1, <4>2 DEF Ahead, Waits, Running
    <3>3. BoxNow(u, g) = SavedBox(api, page, u, g)
      BY <1>1, <2>2, <3>2 DEF Mirrored
    <3>4. QED BY <1>1, <2>2, <3>1, <3>3 DEF SavedBox, Holds, Has
  <2>3. CASE g = None
    <3>1. TrackNow(u) = labels.track[u]
      BY <1>5 DEF TrackNow
    <3>2. labels.track[u] = SavedTrack(api, page, u)
      BY <1>1, <3>1 DEF Mirrored
    <3>3. QED BY <2>3, <3>2 DEF SavedTrack, Holds, Has
  <2>4. QED BY <2>2, <2>3
<1>6. QED BY <1>4, <1>5

(* An edit found on screen what it changes. *)
Seen(j) ==
  \A u \in Tracks, g \in FramesOf(page) \union {None} : May(j, u, g) =>
    /\ g # None => Found(j, g) = Rect(labels.box[u][g])
    /\ g = None => labels.track[u] # None /\ Found(j, g) = labels.track[u].type

(* An edit is made that overlaps no undo. *)
LEMMA EnqueuedWaits ==
  ASSUME Sane, IInv', NEW job, job.kind \in Edits, Enqueue(job), UNCHANGED <<remap, flight>>, Clean'
  PROVE  /\ Unhurried /\ Unhurried' /\ Placed(job) \in Good
         /\ queue' = Append(queue, Placed(job)) /\ queue' # <<>>
         /\ queue # <<>> => Running' = Running
         /\ (Owing' <=> Owing) /\ (Landed' <=> Landed)
         /\ Due' = Due /\ Heir' = Heir /\ Later' = Append(Later, Placed(job))
         /\ Later \in Seq(Good)
         /\ (Reviving' <=> Reviving) /\ (Reviving => Running' = Running)
<1> DEFINE new == Placed(job)
           m == Len(queue)
<1>1. /\ new \in Good /\ new.kind = job.kind
      /\ m \in Nat /\ DOMAIN queue = 1..m /\ DOMAIN queue' = 1..(m + 1)
      /\ \A i \in 1..m : queue'[i] = queue[i]
      /\ queue'[m + 1] = new
      /\ m = 0 <=> queue = <<>>
      /\ queue' # <<>>
      /\ queue' = Append(queue, new)
  BY NewEdit DEF Sane
<1>2. Edits \cap Undos = {}
  BY DEF Edits, Undos
<1>3. Unhurried
  <2>1. ~Hurried(job)
    BY DEF Enqueue, Hurry, Clean, Sane
  <2>2. CASE queue = <<>>
    BY <2>2 DEF Unhurried
  <2>3. CASE queue # <<>>
    BY <2>1, <2>3 DEF Hurried, Unhurried
  <2>4. QED BY <2>2, <2>3
<1> HIDE DEF new, m
<1>4. Unhurried'
  <2>1. ASSUME NEW i \in DOMAIN queue' PROVE queue'[i].kind \notin Undos
    <3>1. i \in 1..m \/ i = m + 1
      BY <1>1
    <3>2. QED BY <1>1, <1>2, <1>3, <3>1 DEF Unhurried
  <2>2. QED BY <2>1 DEF Unhurried
<1>5. queue # <<>> => Running' = Running
  BY <1>1 DEF Running
<1>6. queue = <<>> => ~Landed
  BY DEF Sane, IInv, TypeOK, Landed, Idle
<1>7. Landed' <=> Landed
  BY DEF Landed, Reply
<1>8. (queue # <<>> => 1 \in DOMAIN queue) /\ 1 \in DOMAIN queue'
  BY <1>1
<1>9. (Owing <=> Landed) /\ (Owing' <=> Landed')
  <2>1. Owing <=> Landed
    BY <1>3, <1>6, <1>8 DEF Owing, Unhurried, Running
  <2>2. Owing' <=> Landed'
    BY <1>1, <1>4, <1>8 DEF Owing, Unhurried, Running
  <2>3. QED BY <2>1, <2>2
<1>10. Reply' = Reply /\ Spent' = Spent
  BY DEF Reply, Spent
<1>11. Due' = Due
  BY <1>5, <1>6, <1>7, <1>9, <1>10 DEF Due
<1>12. Heir' = Heir
  <2>1. Ids' = Ids
    BY RemapSame
  <2>2. QED BY <1>5, <1>6, <1>7, <1>10, <2>1 DEF Heir
<1>13. Later' = Append(Later, new) /\ Later \in Seq(Good)
  <2>1. queue \in Seq(Good)
    BY DEF Sane, IInv, Pending
  <2>2. CASE Landed
    <3>1. queue # <<>> /\ Later = Tail(queue) /\ Later' = Tail(queue')
      BY <1>6, <1>7, <1>9, <2>2 DEF Later
    <3>2. Tail(Append(queue, new)) = Append(Tail(queue), new) /\ Tail(queue) \in Seq(Good)
      BY <1>1, <2>1, <3>1
    <3>3. QED BY <1>1, <3>1, <3>2
  <2>3. CASE ~Landed
    BY <1>1, <1>7, <1>9, <2>1, <2>3 DEF Later
  <2>4. QED BY <2>2, <2>3
<1>14. (Reviving' <=> Reviving) /\ (Reviving => Running' = Running)
  BY <1>5, <1>6, <1>7, <1>9, <1>11 DEF Reviving
<1>15. QED BY <1>1, <1>3, <1>4, <1>5, <1>7, <1>9, <1>11, <1>12, <1>13, <1>14 DEF new

(* What was the case of an undo's entry stays so, and so does an unmark's. *)
Marking(e) == e \in Good /\ e.kind = "unmark" /\ e.track = None

(* An unmark puts no box and no type back. *)
LEMMA MarkingTouches ==
  ASSUME NEW e, Marking(e)
  PROVE  About(e) = {} /\ \A h, u, g : ~Touches(h, e, u, g)
BY NoneAssumption DEF Marking, About, Tracks, Touches, Covers

(* An edit joins the queue that found on screen what it changes: where     *)
(* nothing else is to come back or about to change, that is what is saved. *)
LEMMA EditUndoable ==
  ASSUME Sane, IInv', Clean', NEW job, job.kind \in Edits, Enqueue(job), Seen(job), Named(job),
         UNCHANGED <<api, page, remap, flight, opened>>,
         undoStack' = undoStack \/ \E e : Marking(e) /\ Pushes(e)
  PROVE  Undoable'
<1> DEFINE new == Placed(job)
<1>1. /\ Unhurried' /\ new \in Good
      /\ queue' = Append(queue, new) /\ queue' # <<>>
      /\ queue # <<>> => Running' = Running
      /\ (Owing' <=> Owing) /\ (Landed' <=> Landed)
      /\ Due' = Due /\ Heir' = Heir /\ Later' = Append(Later, new)
      /\ Later \in Seq(Good)
      /\ (Reviving' <=> Reviving) /\ (Reviving => Running' = Running)
  BY EnqueuedWaits
<1>2. /\ new.kind = job.kind /\ new.track = job.track /\ new.frame = job.frame
      /\ new.type = job.type /\ new.old = job.old /\ new.prev = job.prev /\ new.boxes = job.boxes
  BY <1>1, PlacedSame DEF Good
<1>3. /\ Undoable /\ IInv /\ Mirror
      /\ UndoAlone /\ OneEnd /\ Recreates /\ Direct /\ Born
      /\ Fresh /\ Sent /\ New /\ Loaded /\ Remembers
  BY DEF Sane, Undoable
<1>4. queue \in Seq(Good) /\ undoStack \in Seq(Good)
  BY <1>3 DEF IInv, Pending
<1> HIDE DEF new
<1>5. \A i \in DOMAIN undoStack' :
        \/ i \in DOMAIN undoStack /\ undoStack'[i] = undoStack[i]
        \/ undoStack'[i].kind = "unmark" /\ About(undoStack'[i]) = {}
  <2>1. CASE undoStack' = undoStack
    BY <2>1
  <2>2. ASSUME NEW e, Marking(e), Pushes(e)
        PROVE  \A i \in DOMAIN undoStack' :
                 \/ i \in DOMAIN undoStack /\ undoStack'[i] = undoStack[i]
                 \/ undoStack'[i].kind = "unmark" /\ About(undoStack'[i]) = {}
    <3>1. undoStack' = Append(undoStack, e) /\ e.kind = "unmark" /\ About(e) = {}
      BY <2>2, MarkingTouches DEF Pushes, Marking
    <3>2. QED BY <1>4, <3>1, PushShape
  <2>3. QED BY <2>1, <2>2
<1>6. Landed => queue # <<>>
  BY <1>3 DEF IInv, TypeOK, Landed, Idle
<1>7. flight.at = "sent" => queue # <<>>
  BY <1>3 DEF IInv, TypeOK, Idle
<1>8. OneEnd' /\ \A t \in Tracks : Resolve(t)' = Resolve(t)
  BY <1>3, RemapSame
<1>9. UndoAlone'
  BY <1>1 DEF Unhurried, UndoAlone
<1>10. Direct'
  <2>1. ASSUME NEW i \in DOMAIN queue' PROVE Named(queue[i])'
    <3>1. (i \in DOMAIN queue /\ queue'[i] = queue[i]) \/ queue'[i] = new
      BY <1>1, <1>4, PushShape
    <3>2. QED BY <1>2, <1>3, <3>1 DEF Direct, Named
  <2>2. QED BY <1>3, <1>5, <2>1 DEF Direct
<1>11. Recreates'
  <2>1. \A t : Gone(t)' <=> Gone(t)
    BY DEF Gone, Dead
  <2>2. ASSUME NEW i \in DOMAIN undoStack', undoStack'[i].kind = "recreate"
        PROVE  i \in DOMAIN undoStack /\ undoStack'[i] = undoStack[i]
    BY <1>5, <2>2
  <2>3. QED BY <1>1, <1>3, <2>1, <2>2 DEF Recreates
<1>12. Born'
  <2>1. \A i \in DOMAIN undoStack' : Able(undoStack[i])'
    BY <1>3, <1>5 DEF Born, Able
  <2>2. QED BY <1>1, <1>3, <2>1 DEF Born, Able, Dead
<1>13. Fresh' /\ Sent' /\ New'
  <2>1. Fresh'
    BY <1>1, <1>3, <1>6 DEF Fresh
  <2>2. queue # <<>> => Started(Running)' = Started(Running)
    BY <1>1, WayIs, WayWas DEF Started
  <2>3. Sent'
    BY <1>1, <1>3, <1>7, <2>2 DEF Sent
  <2>4. New'
    BY <1>1, <1>3, <1>6 DEF New, Reply
  <2>5. QED BY <2>1, <2>3, <2>4
<1>14. Loaded'
  BY <1>3 DEF Loaded
<1>15. Remembers'
  <2> SUFFICES ASSUME NEW u \in Tracks, NEW g \in FramesOf(page) \union {None},
                      NEW v \in Rects \union Types \union {None}, Wants(Heir, opened, u, g, v)
               PROVE  Back(Heir, undoStack', Due, Append(Later, new), api, u, g, v)
    BY <1>1 DEF Remembers
  <2>1. Back(Heir, undoStack, Due, Later, api, u, g, v)
    BY <1>3 DEF Remembers
  <2>2. ASSUME ~Touches(Heir, Due, u, g), Holds(api, u, g, v), May(new, u, g),
               \A k \in DOMAIN Later : ~Alters(Later[k], u, g)
        PROVE  Found(new, g) = v
    <3>1. Unhurried
      BY EnqueuedWaits
    <3>2. /\ g # None => Rect(labels.box[u][g]) = v
          /\ g = None /\ labels.track[u] # None => labels.track[u].type = v
      BY <2>2, <3>1, ShownAs
    <3>3. May(job, u, g) /\ Found(job, g) = Found(new, g)
      BY <1>2, <2>2 DEF May, Alters, Found
    <3>4. QED BY <3>2, <3>3 DEF Seen
  <2>3. Back(Heir, undoStack, Due, Append(Later, new), api, u, g, v)
    BY <1>1, <2>1, <2>2, BackWait
  <2>4. ASSUME NEW e, Marking(e), Pushes(e)
        PROVE  Back(Heir, undoStack', Due, Append(Later, new), api, u, g, v)
    BY <1>4, <2>3, <2>4, MarkingTouches, BackBeside DEF Pushes
  <2>5. QED BY <2>3, <2>4
<1>16. QED BY <1>8, <1>9, <1>10, <1>11, <1>12, <1>13, <1>14, <1>15 DEF Undoable

(* The last element is the one that was appended. *)
LEMMA AppendIs ==
  ASSUME NEW S, NEW s \in Seq(S), NEW e
  PROVE  Len(s) + 1 \in DOMAIN Append(s, e) /\ Append(s, e)[Len(s) + 1] = e
<1>1. s \in Seq(S \union {e})
  BY SeqMonotonic
<1>2. QED BY <1>1, PushShape

(* An id that was looked up stands for itself. *)
LEMMA NowNamed ==
  ASSUME Sane, NEW t \in Tracks
  PROVE  Resolve(t) \in Tracks /\ remap[Resolve(t)] = None
BY IdsShape DEF Sane, Undoable

(* Each of the edits.  A box that is put somewhere. *)
LEMMA MoveUndoable ==
  ASSUME Sane, IInv', Clean', NEW t \in Tracks, remap[t] = None, NEW f \in FramesOf(page), NEW at,
         Move(t, f, at), UNCHANGED <<api, page, remap, flight, opened, undoStack>>
  PROVE  Undoable'
<1> DEFINE prev == labels.box[t][f]
           job == [Blank("move") EXCEPT !.track = t, !.frame = f, !.at = at, !.prev = prev]
<1>1. Enqueue(job)
  BY DEF Move
<1>2. job.kind = "move" /\ job.track = t /\ job.frame = f /\ job.prev = prev
  BY DEF Blank
<1>3. f \in Frames /\ f # None
  BY FrameOnPage, NoneAssumption
<1> HIDE DEF job
<1>4. Named(job) /\ job.kind \in Edits
  BY <1>2 DEF Named, Edits
<1>5. Seen(job)
  BY <1>2, <1>3 DEF Seen, May, Alters, Found
<1> HIDE DEF prev
<1>6. QED BY <1>1, <1>4, <1>5, EditUndoable

(* MoveBox *)
LEMMA MoveBoxUndoable ==
  ASSUME Sane, IInv', Clean', NEW t \in Tracks, NEW f \in Frames, NEW at \in Rects, MoveBox(t, f, at)
  PROVE  Undoable'
<1> DEFINE u == Resolve(t)
<1>1. u \in Tracks /\ remap[u] = None
  BY NowNamed
<1>2. /\ Move(u, f, at) /\ f \in FramesOf(page)
      /\ UNCHANGED <<api, page, remap, flight, opened, undoStack>>
  BY DEF MoveBox
<1> HIDE DEF u
<1>3. QED BY <1>1, <1>2, MoveUndoable

(* DrawBox, which may continue the selected track. *)
LEMMA DrawBoxUndoable ==
  ASSUME Sane, IInv', Clean', NEW f \in Frames, NEW at \in Rects, NEW type \in Types,
         DrawBox(f, at, type)
  PROVE  Undoable'
<1>1. f \in FramesOf(page) /\ UNCHANGED <<api, page, remap, flight, opened, undoStack>>
  BY DEF DrawBox
<1>2. CASE selected # None /\ ~Shown(selected, f)
  <2> DEFINE u == Resolve(selected)
  <2>1. selected \in Tracks
    BY <1>2 DEF Sane, IInv, TypeOK
  <2>2. u \in Tracks /\ remap[u] = None
    BY <2>1, NowNamed
  <2>3. Move(u, f, at)
    BY <1>2 DEF DrawBox
  <2> HIDE DEF u
  <2>4. QED BY <1>1, <2>2, <2>3, MoveUndoable
<1>3. CASE ~(selected # None /\ ~Shown(selected, f))
  <2> DEFINE job == [Blank("draw") EXCEPT !.clip = IdOf(page), !.frame = f, !.at = at, !.type = type]
  <2>1. Enqueue(job)
    BY <1>3 DEF DrawBox
  <2>2. job.kind = "draw"
    BY DEF Blank
  <2> HIDE DEF job
  <2>3. Named(job) /\ job.kind \in Edits /\ Seen(job)
    BY <2>2 DEF Named, Edits, Seen, May, Alters
  <2>4. QED BY <1>1, <2>1, <2>3, EditUndoable
<1>4. QED BY <1>2, <1>3

(* DeleteSelected *)
LEMMA DeleteSelectedUndoable ==
  ASSUME Sane, IInv', Clean', NEW f \in Frames, DeleteSelected(f)
  PROVE  Undoable'
<1> DEFINE t == Resolve(selected)
           prev == labels.box[t][f]
           track == labels.track[t]
           job == [Blank("deleteBox") EXCEPT !.track = t, !.frame = f, !.prev = prev,
                                             !.clip = track.clip, !.type = track.type]
<1>1. selected \in Tracks
  BY DEF Sane, IInv, TypeOK, DeleteSelected
<1>2. t \in Tracks /\ remap[t] = None
  BY <1>1, NowNamed
<1>3. /\ Enqueue(job) /\ labels.track[t] # None
      /\ UNCHANGED <<api, page, remap, flight, opened, undoStack>>
  BY DEF DeleteSelected, storeVars
<1>4. /\ job.kind = "deleteBox" /\ job.track = t /\ job.frame = f /\ job.prev = prev
      /\ job.type = track.type
  BY DEF Blank
<1>5. f # None
  BY NoneAssumption
<1> HIDE DEF job
<1>6. Named(job) /\ job.kind \in Edits
  BY <1>2, <1>4 DEF Named, Edits
<1>7. Seen(job)
  BY <1>3, <1>4, <1>5 DEF Seen, May, Alters, Found
<1>8. QED BY <1>3, <1>6, <1>7, EditUndoable

(* DeleteWhole *)
LEMMA DeleteWholeUndoable ==
  ASSUME Sane, IInv', Clean', NEW t \in Tracks, DeleteWhole(t)
  PROVE  Undoable'
<1> DEFINE u == Resolve(t)
           track == labels.track[u]
           boxes == labels.box[u]
           job == [Blank("deleteTrack") EXCEPT !.track = u, !.boxes = boxes,
                                               !.clip = track.clip, !.type = track.type]
<1>1. u \in Tracks /\ remap[u] = None
  BY NowNamed
<1>2. /\ Enqueue(job) /\ labels.track[u] # None
      /\ UNCHANGED <<api, page, remap, flight, opened, undoStack>>
  BY DEF DeleteWhole, storeVars
<1>3. job.kind = "deleteTrack" /\ job.track = u /\ job.boxes = boxes /\ job.type = track.type
  BY DEF Blank
<1> HIDE DEF job
<1>4. Named(job) /\ job.kind \in Edits
  BY <1>1, <1>3 DEF Named, Edits
<1>5. Seen(job)
  BY <1>2, <1>3 DEF Seen, May, Alters, Found
<1>6. QED BY <1>2, <1>4, <1>5, EditUndoable

(* Retype *)
LEMMA RetypeUndoable ==
  ASSUME Sane, IInv', Clean', NEW t \in Tracks, NEW type \in Types, Retype(t, type)
  PROVE  Undoable'
<1> DEFINE u == Resolve(t)
           old == labels.track[u].type
           job == [Blank("update") EXCEPT !.track = u, !.type = type, !.old = old]
<1>1. u \in Tracks /\ remap[u] = None
  BY NowNamed
<1>2. /\ Enqueue(job) /\ labels.track[u] # None
      /\ UNCHANGED <<api, page, remap, flight, opened, undoStack>>
  BY DEF Retype, storeVars
<1>3. job.kind = "update" /\ job.track = u /\ job.old = old
  BY DEF Blank
<1> HIDE DEF job
<1>4. Named(job) /\ job.kind \in Edits
  BY <1>1, <1>3 DEF Named, Edits
<1>5. Seen(job)
  BY <1>2, <1>3 DEF Seen, May, Alters, Found
<1>6. QED BY <1>2, <1>4, <1>5, EditUndoable

(* CopyForward *)
LEMMA CopyUndoable ==
  ASSUME Sane, IInv', Clean', NEW f \in Frames, NEW g \in Frames, CopyForward(f, g)
  PROVE  Undoable'
<1> DEFINE job == [Blank("copy") EXCEPT !.from = f, !.frame = g]
<1>1. Enqueue(job) /\ UNCHANGED <<api, page, remap, flight, opened, undoStack>>
  BY DEF CopyForward, storeVars
<1>2. job.kind = "copy"
  BY DEF Blank
<1> HIDE DEF job
<1>3. Named(job) /\ job.kind \in Edits /\ Seen(job)
  BY <1>2 DEF Named, Edits, Seen, May, Alters
<1>4. QED BY <1>1, <1>3, EditUndoable

(* Mark, which pushes its undo at once. *)
LEMMA MarkUndoable ==
  ASSUME Sane, IInv', Clean', NEW f \in Frames, NEW status \in Statuses, Mark(f, status)
  PROVE  Undoable'
<1> DEFINE before == labels.status[f]
           accepted == IF status = "labeled" THEN Proposed(f) ELSE {}
           job == [Blank("mark") EXCEPT !.frame = f, !.status = status, !.before = before,
                                        !.tracks = accepted]
           e == [Blank("unmark") EXCEPT !.frame = f, !.status = before, !.n = made + 1]
<1>1. /\ Enqueue(job) /\ UNCHANGED <<api, page, remap, flight, opened>>
      /\ undoStack' = undoStack \/ undoStack' = Append(undoStack, e)
  BY DEF Mark
<1>2. job.kind = "mark" /\ e.kind = "unmark" /\ e.track = None
  BY DEF Blank
<1>3. undoStack' = undoStack \/ \E x : Marking(x) /\ Pushes(x)
  <2>1. undoStack' \in Seq(Good) /\ undoStack \in Seq(Good)
    BY DEF Sane, IInv, Pending
  <2> HIDE DEF e
  <2>2. CASE undoStack' = Append(undoStack, e)
    <3>1. Len(undoStack) + 1 \in DOMAIN undoStack' /\ undoStack'[Len(undoStack) + 1] = e
      BY <2>1, <2>2, AppendIs
    <3>2. e \in Good
      BY <2>1, <3>1, ElementOfSeq, LenProperties
    <3>3. QED BY <1>2, <2>2, <3>2 DEF Marking, Pushes
  <2>3. QED BY <1>1, <2>2
<1> HIDE DEF job, e
<1>4. Named(job) /\ job.kind \in Edits /\ Seen(job)
  BY <1>2 DEF Named, Edits, Seen, May, Alters
<1>5. QED BY <1>1, <1>3, <1>4, EditUndoable

(* The undo that runs next is alone in the queue. *)
LEMMA UndoQueued ==
  ASSUME Sane, IInv', Clean', Undo
  PROVE  LET m == Len(undoStack)
             new == Placed(undoStack[m])
         IN /\ queue = <<>> /\ flight = Idle /\ undoStack \in Seq(Good) /\ undoStack # <<>>
            /\ m \in Nat \ {0} /\ DOMAIN undoStack = 1..m /\ DOMAIN undoStack' = 1..(m - 1)
            /\ \A i \in 1..(m - 1) : undoStack'[i] = undoStack[i]
            /\ undoStack' = SubSeq(undoStack, 1, m - 1)
            /\ new \in Good /\ new.kind \in Undos
            /\ DOMAIN queue' = {1} /\ Len(queue') = 1 /\ Running' = new /\ queue' # <<>>
            /\ Tail(queue') = <<>>
            /\ UNCHANGED <<api, page, remap, flight, opened>>
<1> DEFINE m == Len(undoStack)
           e == undoStack[m]
           new == Placed(e)
<1>1. /\ undoStack # <<>> /\ undoStack' = SubSeq(undoStack, 1, m - 1) /\ Enqueue(e)
      /\ UNCHANGED <<api, page, remap, flight, opened>>
  BY DEF Undo
<1>2. undoStack \in Seq(Good) /\ undoStack \in Seq(OwnUndos(api, page))
  BY DEF Sane, IInv, Pending, Mirror, OwnEdits
<1>3. /\ m \in Nat \ {0} /\ DOMAIN undoStack = 1..m /\ DOMAIN undoStack' = 1..(m - 1)
      /\ \A i \in 1..(m - 1) : undoStack'[i] = undoStack[i]
  BY <1>1, <1>2, PopShape
<1>4. e.kind \in Undos
  BY <1>2, <1>3 DEF OwnUndos
<1> HIDE DEF e, m
<1>5. queue = <<>>
  <2>1. ~Hurried(e)
    BY <1>1 DEF Enqueue, Hurry, Clean
  <2>2. QED BY <1>4, <2>1 DEF Hurried
<1>6. flight = Idle
  BY <1>5 DEF Sane, IInv, TypeOK
<1>7. new \in Good /\ new.kind = e.kind /\ queue' = Append(queue, new)
  BY <1>1, NewEdit DEF Sane
<1> HIDE DEF new
<1>8. queue' = <<new>>
  BY <1>5, <1>7
<1>9. DOMAIN queue' = {1} /\ Len(queue') = 1 /\ Running' = new /\ queue' # <<>> /\ Tail(queue') = <<>>
  BY <1>8 DEF Running
<1>10. QED BY <1>1, <1>2, <1>3, <1>4, <1>5, <1>6, <1>7, <1>9 DEF m, e, new

(* An undo takes its entry off the stack and runs it. *)
LEMMA UndoUndoable ==
  ASSUME Sane, IInv', Clean', Undo
  PROVE  Undoable'
<1> DEFINE m == Len(undoStack)
           e == undoStack[m]
           new == Placed(e)
<1>1. /\ queue = <<>> /\ flight = Idle /\ undoStack \in Seq(Good) /\ undoStack # <<>>
      /\ m \in Nat \ {0} /\ DOMAIN undoStack = 1..m /\ DOMAIN undoStack' = 1..(m - 1)
      /\ \A i \in 1..(m - 1) : undoStack'[i] = undoStack[i]
      /\ undoStack' = SubSeq(undoStack, 1, m - 1)
      /\ new \in Good /\ new.kind \in Undos
      /\ DOMAIN queue' = {1} /\ Len(queue') = 1 /\ Running' = new /\ queue' # <<>>
      /\ Tail(queue') = <<>>
      /\ UNCHANGED <<api, page, remap, flight, opened>>
  BY UndoQueued
<1>2. /\ new.kind = e.kind /\ new.track = e.track /\ new.frame = e.frame /\ new.at = e.at
      /\ new.type = e.type /\ new.boxes = e.boxes /\ new.tracks = e.tracks
  BY <1>1, PlacedSame DEF Good
<1>3. m \in DOMAIN undoStack /\ e = undoStack[m]
  BY <1>1
<1> HIDE DEF new, e
<1>4. /\ UndoAlone /\ OneEnd /\ Recreates /\ Direct /\ Born
      /\ Loaded /\ Remembers
  BY DEF Sane, Undoable
<1>5. ~Landed /\ ~Landed' /\ flight'.at # "sent" /\ ~Owing /\ Owing'
  BY <1>1 DEF Landed, Idle, Owing
<1>6. Due = Spent /\ Later = <<>> /\ Heir = Ids /\ Due' = new /\ Later' = <<>>
  BY <1>1, <1>5 DEF Due, Later, Heir
<1>7. OneEnd' /\ Ids' = Ids /\ Heir' = Ids'
  BY <1>1, <1>4, <1>5, RemapSame DEF Heir
<1>8. UndoAlone'
  BY <1>1 DEF UndoAlone
<1>9. Direct'
  <2>1. new.kind # "refill"
    BY <1>2, <1>3, <1>4 DEF Direct
  <2>2. Named(queue[1])'
    BY <1>1, <2>1 DEF Named, Undos, Running
  <2>3. QED BY <1>1, <1>4, <2>2 DEF Direct
<1>10. Recreates'
  <2>1. \A t : Gone(t)' <=> Gone(t)
    BY <1>1 DEF Gone, Dead
  <2>2. Reviving' <=> new.kind = "recreate"
    BY <1>1, <1>5, <1>6 DEF Reviving
  <2>3. new.kind = "recreate" => Gone(new.track)
    BY <1>2, <1>3, <1>4 DEF Recreates
  <2>4. ASSUME NEW i \in DOMAIN undoStack', undoStack'[i].kind = "recreate"
        PROVE  /\ Gone(undoStack'[i].track)
               /\ \A k \in DOMAIN undoStack' : k # i /\ undoStack'[k].kind = "recreate" =>
                    undoStack'[k].track # undoStack'[i].track
               /\ new.kind = "recreate" => undoStack'[i].track # new.track
    <3>1. i \in DOMAIN undoStack /\ undoStack'[i] = undoStack[i] /\ i # m
      BY <1>1
    <3>2. Gone(undoStack[i].track)
      BY <2>4, <3>1, <1>4 DEF Recreates
    <3>3. \A k \in DOMAIN undoStack' : k \in DOMAIN undoStack /\ undoStack'[k] = undoStack[k]
      BY <1>1
    <3>4. \A k \in DOMAIN undoStack' : k # i /\ undoStack'[k].kind = "recreate" =>
            undoStack'[k].track # undoStack'[i].track
      BY <2>4, <3>1, <3>3, <1>4 DEF Recreates
    <3>5. new.kind = "recreate" => undoStack'[i].track # new.track
      BY <2>4, <3>1, <1>2, <1>3, <1>4 DEF Recreates
    <3>6. QED BY <3>1, <3>2, <3>4, <3>5
  <2>5. QED BY <1>1, <2>1, <2>2, <2>3, <2>4 DEF Recreates
<1>11. Born'
  <2>1. About(new) = About(e)
    BY <1>2 DEF About
  <2>2. Able(e)
    BY <1>3, <1>4 DEF Born
  <2>3. Able(Due)'
    BY <1>1, <1>2, <1>6, <2>1, <2>2 DEF Able
  <2>4. \A i \in DOMAIN undoStack' : Able(undoStack[i])'
    BY <1>1, <1>4 DEF Born, Able
  <2>5. QED BY <1>1, <1>4, <2>3, <2>4 DEF Born, Dead
<1>12. Fresh' /\ Sent' /\ New'
  BY <1>5 DEF Fresh, Sent, New
<1>13. Loaded'
  BY <1>1, <1>4 DEF Loaded
<1>14. Remembers'
  <2> SUFFICES ASSUME NEW u \in Tracks, NEW g \in FramesOf(page) \union {None},
                      NEW v \in Rects \union Types \union {None}, Wants(Ids, opened, u, g, v)
               PROVE  Back(Ids, undoStack', new, <<>>, api, u, g, v)
    BY <1>1, <1>6, <1>7 DEF Remembers
  <2>1. Back(Ids, undoStack, Spent, <<>>, api, u, g, v)
    BY <1>4, <1>6 DEF Remembers
  <2>2. ~Touches(Ids, Spent, u, g)
    BY SpentIs
  <2>3. Touches(Ids, new, u, g) <=> Touches(Ids, e, u, g)
    BY <1>2 DEF Touches, Covers, About
  <2>4. Restores(new, g) = Restores(e, g)
    BY <1>2 DEF Restores
  <2>5. e = undoStack[Len(undoStack)]
    BY <1>3
  <2>6. QED BY <1>1, <2>1, <2>2, <2>3, <2>4, <2>5, BackPop
<1>15. QED BY <1>7, <1>8, <1>9, <1>10, <1>11, <1>12, <1>13, <1>14, <1>4 DEF Undoable

(* Whatever the labeler does. *)
LEMMA EditsUndoable ==
  ASSUME Sane, IInv', Clean', Edit
  PROVE  Undoable'
<1>1. ASSUME NEW t \in Tracks, NEW f \in Frames, NEW at \in Rects, MoveBox(t, f, at)
      PROVE  Undoable'
  BY <1>1, MoveBoxUndoable
<1>2. ASSUME NEW f \in Frames, NEW new \in Drawable, DrawBox(f, new[1], new[2])
      PROVE  Undoable'
  <2>1. new[1] \in Rects /\ new[2] \in Types
    BY DrawableAssumption
  <2>2. QED BY <1>2, <2>1, DrawBoxUndoable
<1>3. ASSUME NEW f \in Frames, DeleteSelected(f)
      PROVE  Undoable'
  BY <1>3, DeleteSelectedUndoable
<1>4. ASSUME NEW t \in Tracks, DeleteWhole(t)
      PROVE  Undoable'
  BY <1>4, DeleteWholeUndoable
<1>5. ASSUME NEW t \in Tracks, NEW type \in Types, Retype(t, type)
      PROVE  Undoable'
  BY <1>5, RetypeUndoable
<1>6. ASSUME NEW f \in Frames, NEW g \in Frames, CopyForward(f, g)
      PROVE  Undoable'
  BY <1>6, CopyUndoable
<1>7. ASSUME NEW f \in Frames, NEW status \in Statuses, Mark(f, status)
      PROVE  Undoable'
  BY <1>7, MarkUndoable
<1>8. ASSUME Undo
      PROVE  Undoable'
  BY <1>8, UndoUndoable
<1>9. QED BY <1>1, <1>2, <1>3, <1>4, <1>5, <1>6, <1>7, <1>8 DEF Edit

(* Whoever waits behind an edit that ends is an edit, and waits for it alone. *)
LEMMA EndedQueue ==
  ASSUME Sane, queue # <<>>, queue' = Tail(queue), flight' = Idle
  PROVE  /\ ~Landed' /\ ~Owing' /\ flight'.at # "sent" /\ Later' = Tail(queue)
         /\ Due' = Spent /\ UndoAlone'
         /\ \A i \in DOMAIN queue' : i + 1 \in DOMAIN queue /\ queue'[i] = queue[i + 1]
<1>1. /\ Len(queue) \in Nat \ {0} /\ DOMAIN queue = 1..Len(queue)
      /\ DOMAIN queue' = 1..(Len(queue) - 1)
      /\ \A i \in 1..(Len(queue) - 1) : queue'[i] = queue[i + 1]
  BY TailWaits DEF Sane
<1>2. \A i \in DOMAIN queue' : i + 1 \in DOMAIN queue /\ queue'[i] = queue[i + 1]
  BY <1>1
<1>3. \A i \in DOMAIN queue' : queue'[i].kind \notin Undos
  <2>1. ASSUME NEW i \in DOMAIN queue', queue'[i].kind \in Undos PROVE FALSE
    <3>1. Len(queue) = 1
      BY <1>2, <2>1 DEF Sane, Undoable, UndoAlone
    <3>2. QED BY <1>1, <2>1, <3>1
  <2>2. QED BY <2>1
<1>4. ~Landed' /\ flight'.at # "sent"
  BY DEF Landed, Idle
<1>5. ~Owing'
  <2>1. CASE queue' = <<>>
    BY <2>1 DEF Owing
  <2>2. CASE queue' # <<>>
    <3>1. queue \in Seq(Good)
      BY DEF Sane, IInv, Pending
    <3>2. 1 \in DOMAIN queue'
      BY <2>2, <3>1, <1>1
    <3>3. QED BY <1>3, <1>4, <3>2 DEF Owing, Running
  <2>3. QED BY <2>1, <2>2
<1>6. QED BY <1>2, <1>3, <1>4, <1>5 DEF Later, Due, UndoAlone, Spent

(* What is pushed makes the same track again that the edit deleted. *)
LEMMA LandedPushes ==
  ASSUME Sane, Landed, Running.kind \in Edits
  PROVE  /\ Due.kind # "refill"
         /\ Due.kind = "recreate" => Due.track = Running.track
<1>1. Running \in Good /\ Reply \in Answer /\ Due = After(Running, Reply)
  BY LandedKnows
<1>2. Due.kind # "refill" /\ (Due.kind = "recreate" => Due.track = Running.track)
  BY <1>1, AfterShape DEF Edits
<1>3. QED BY <1>2

(* An edit that ends can be undone; an undo that ends has done its part. *)
LEMMA EndUndoable ==
  ASSUME Sane, Landed, queue' = Tail(queue), flight' = Idle, UNCHANGED <<api, page, remap, opened>>,
         Running.kind # "recreate",
         \/ undoStack' = undoStack /\ \A u \in Tracks : \A g : ~Touches(Heir, Due, u, g)
         \/ Running.kind \in Edits /\ Pushes(Due)
  PROVE  Undoable'
<1>1. /\ queue # <<>> /\ Running \in Good /\ Reply \in Answer /\ Owing
      /\ Due = After(Running, Reply) /\ Later = Tail(queue)
  BY LandedKnows
<1>2. /\ ~Landed' /\ ~Owing' /\ flight'.at # "sent" /\ Later' = Later
      /\ Due' = Spent /\ UndoAlone'
      /\ \A i \in DOMAIN queue' : i + 1 \in DOMAIN queue /\ queue'[i] = queue[i + 1]
  BY <1>1, EndedQueue
<1>3. /\ UndoAlone /\ OneEnd /\ Recreates /\ Direct /\ Born
      /\ Loaded /\ Remembers /\ undoStack \in Seq(Good)
  BY DEF Sane, Undoable, IInv, Pending
<1>4. OneEnd' /\ Ids' = Ids /\ Heir' = Ids' /\ Heir = Ids
  BY <1>2, <1>3, RemapSame DEF Heir
<1>5. \A i \in DOMAIN undoStack' :
        \/ i \in DOMAIN undoStack /\ undoStack'[i] = undoStack[i]
        \/ undoStack'[i] = Due /\ Running.kind \in Edits /\ undoStack' # undoStack
           /\ i = Len(undoStack) + 1 /\ i \notin DOMAIN undoStack
  <2>1. CASE undoStack' = undoStack
    BY <2>1
  <2>2. CASE Running.kind \in Edits /\ Pushes(Due)
    <3>1. undoStack' = Append(undoStack, Due)
      BY <2>2 DEF Pushes
    <3>2. /\ Len(undoStack) \in Nat /\ DOMAIN undoStack = 1..Len(undoStack)
          /\ DOMAIN undoStack' = 1..(Len(undoStack) + 1)
          /\ \A i \in 1..Len(undoStack) : undoStack'[i] = undoStack[i]
          /\ undoStack'[Len(undoStack) + 1] = Due
      BY <1>3, <3>1, PushShape
    <3>3. QED BY <2>2, <3>2
  <2>3. QED BY <2>1, <2>2
<1>6. Direct'
  <2>1. \A i \in DOMAIN queue' : Named(queue[i])'
    BY <1>2, <1>3 DEF Direct, Named
  <2>2. \A i \in DOMAIN undoStack' : undoStack'[i].kind # "refill"
    BY <1>3, <1>5, LandedPushes DEF Direct
  <2>3. QED BY <2>1, <2>2 DEF Direct
<1>7. Recreates'
  <2>1. \A t : Gone(t)' <=> Gone(t)
    BY DEF Gone, Dead
  <2>2. ~Reviving'
    BY <1>2 DEF Reviving
  <2>3. Running.kind \in Edits /\ Due.kind = "recreate" => Reviving /\ Due.track = Running.track
    BY <1>1, LandedPushes DEF Reviving
  <2>4. ASSUME NEW i \in DOMAIN undoStack', undoStack'[i].kind = "recreate"
        PROVE  /\ Gone(undoStack'[i].track)
               /\ \A k \in DOMAIN undoStack' : k # i /\ undoStack'[k].kind = "recreate" =>
                    undoStack'[k].track # undoStack'[i].track
    <3>1. CASE i \in DOMAIN undoStack /\ undoStack'[i] = undoStack[i]
      <4>1. /\ Gone(undoStack[i].track)
            /\ \A k \in DOMAIN undoStack : k # i /\ undoStack[k].kind = "recreate" =>
                 undoStack[k].track # undoStack[i].track
            /\ Reviving => undoStack[i].track # Running.track
        BY <1>3, <2>4, <3>1 DEF Recreates
      <4>2. QED BY <1>5, <2>3, <3>1, <4>1
    <3>2. CASE undoStack'[i] = Due /\ Running.kind \in Edits /\ i = Len(undoStack) + 1
      <4>1. Reviving /\ Due.track = Running.track /\ Gone(Running.track)
        BY <1>3, <2>3, <2>4, <3>2 DEF Recreates
      <4>2. \A k \in DOMAIN undoStack : undoStack[k].kind = "recreate" =>
              undoStack[k].track # Running.track
        BY <1>3, <4>1 DEF Recreates
      <4>3. QED BY <1>5, <3>2, <4>1, <4>2
    <3>3. QED BY <1>5, <3>1, <3>2
  <2>5. QED BY <2>1, <2>2, <2>4 DEF Recreates
<1>8. Born'
  <2>1. \A j : Able(j)' <=> Able(j)
    BY DEF Able
  <2>2. Able(Due)'
    BY <1>2, SpentIs DEF Able
  <2>3. \A i \in DOMAIN undoStack' : Able(undoStack'[i])
    BY <1>3, <1>5 DEF Born
  <2>4. QED BY <1>3, <2>1, <2>2, <2>3 DEF Born, Dead, Able
<1>9. Fresh' /\ Sent' /\ New' /\ Loaded'
  BY <1>2, <1>3 DEF Fresh, Sent, New, Loaded
<1>10. Remembers'
  <2> SUFFICES ASSUME NEW u \in Tracks, NEW g \in FramesOf(page) \union {None},
                      NEW v \in Rects \union Types \union {None}, Wants(Heir, opened, u, g, v)
               PROVE  Back(Heir, undoStack', Spent, Later, api, u, g, v)
    BY <1>2, <1>4 DEF Remembers
  <2>1. Back(Heir, undoStack, Due, Later, api, u, g, v)
    BY <1>3 DEF Remembers
  <2>2. ~Touches(Heir, Spent, u, g)
    BY SpentIs
  <2>3. CASE Pushes(Due)
    BY <1>3, <2>1, <2>2, <2>3, BackPush DEF Pushes
  <2>4. CASE undoStack' = undoStack /\ ~Touches(Heir, Due, u, g)
    BY <2>1, <2>2, <2>4, BackAs
  <2>5. QED BY <2>3, <2>4
<1>11. QED BY <1>2, <1>4, <1>6, <1>7, <1>8, <1>9, <1>10 DEF Undoable

(* The edits that are saved. *)
LEMMA SavedLands ==
  ASSUME Sane, NEW kinds, Answered(kinds, TRUE)
  PROVE  Landed /\ Running.kind \in kinds /\ flight' = Idle /\ UNCHANGED <<api, page, opened>>
BY DEF Answered, Landed, Reply

(* Edits that push what undoes them. *)
LEMMA SavedUndoable ==
  ASSUME Sane,
         SavedDraw \/ SavedMove \/ SavedDeleteBox \/ SavedDeleteTrack \/ SavedUpdate
  PROVE  Undoable'
<1>1. /\ Answered({"draw", "move", "deleteBox", "deleteTrack", "update"}, TRUE) /\ Ends
      /\ Pushes(After(Running, Reply))
  <2>1. CASE SavedDraw
    BY <2>1, AfterKinds DEF SavedDraw, Saved, Answered
  <2>2. CASE SavedMove
    <3>1. Running.kind = "move" /\ Answered({"move"}, TRUE) /\ Ends
      BY <2>2 DEF SavedMove, Saved, Answered
    <3>2. Pushes(After(Running, Reply))
      <4>1. After(Running, Reply) =
              IF Running.prev = None
              THEN [Blank("remove") EXCEPT !.track = Running.track, !.frame = Running.frame]
              ELSE [Blank("putBack") EXCEPT !.track = Running.track, !.frame = Running.frame,
                                            !.at = Running.prev.at]
        BY <3>1 DEF After
      <4>2. QED BY <2>2, <4>1 DEF SavedMove
    <3>3. QED BY <3>1, <3>2 DEF Answered
  <2>3. CASE SavedDeleteBox
    <3>1. Running.kind = "deleteBox" /\ Answered({"deleteBox"}, TRUE) /\ Ends
      BY <2>3 DEF SavedDeleteBox, Saved, Answered
    <3>2. Pushes(After(Running, Reply))
      <4>1. After(Running, Reply) =
              IF Reply.gone
              THEN [Blank("recreate") EXCEPT !.track = Running.track, !.clip = Running.clip,
                      !.type = Running.type,
                      !.boxes = [NoBoxes EXCEPT ![Running.frame] = Running.prev]]
              ELSE [Blank("putBack") EXCEPT !.track = Running.track, !.frame = Running.frame,
                                            !.at = Running.prev.at]
        BY <3>1 DEF After
      <4>2. QED BY <2>3, <4>1 DEF SavedDeleteBox
    <3>3. QED BY <3>1, <3>2 DEF Answered
  <2>4. CASE SavedDeleteTrack
    BY <2>4, AfterKinds DEF SavedDeleteTrack, Saved, Answered
  <2>5. CASE SavedUpdate
    BY <2>5, AfterKinds DEF SavedUpdate, Saved, Answered
  <2>6. QED BY <2>1, <2>2, <2>3, <2>4, <2>5
<1>2. /\ Landed /\ Running.kind \in {"draw", "move", "deleteBox", "deleteTrack", "update"}
      /\ flight' = Idle /\ UNCHANGED <<api, page, opened>>
  BY <1>1, SavedLands
<1>3. Due = After(Running, Reply)
  BY <1>2, LandedKnows
<1>4. Running.kind \in Edits /\ Running.kind # "recreate"
  BY <1>2 DEF Edits
<1>5. queue' = Tail(queue) /\ UNCHANGED remap /\ Pushes(Due)
  BY <1>1, <1>3 DEF Ends
<1>6. QED BY <1>2, <1>4, <1>5, EndUndoable

(* A copy pushes nothing if it made no box. *)
LEMMA CopiedUndoable ==
  ASSUME Sane, SavedCopy
  PROVE  Undoable'
<1>1. Answered({"copy"}, TRUE) /\ Ends
  BY DEF SavedCopy, Saved
<1>2. Landed /\ Running.kind \in {"copy"} /\ flight' = Idle /\ UNCHANGED <<api, page, opened>>
  BY <1>1, SavedLands
<1>3. Due = After(Running, Reply) /\ Running \in Good /\ Reply \in Answer
  BY <1>2, LandedKnows
<1>4. Due = [Blank("uncopy") EXCEPT !.frame = Running.frame, !.tracks = Made(Reply)]
  <2>1. Running.kind = "copy"
    BY <1>2
  <2>2. QED BY <1>3, <2>1 DEF After
<1>5. Due.kind = "uncopy" /\ Due.tracks = Made(Reply)
  BY <1>2, <1>3, AfterShape
<1>6. queue' = Tail(queue) /\ UNCHANGED remap
  BY <1>1 DEF Ends
<1>7. CASE Made(Reply) = {}
  <2>1. undoStack' = undoStack
    BY <1>7 DEF SavedCopy, Made
  <2>2. About(Due) = {}
    BY <1>5, <1>7 DEF About
  <2>3. \A u \in Tracks : \A g : ~Touches(Heir, Due, u, g)
    BY <2>2 DEF Touches
  <2>4. QED BY <1>2, <1>6, <2>1, <2>3, EndUndoable
<1>8. CASE Made(Reply) # {}
  <2>1. Pushes([Blank("uncopy") EXCEPT !.frame = Running.frame, !.tracks = Made(Reply)])
    BY <1>8 DEF SavedCopy, Made
  <2>2. Pushes(Due)
    BY <1>4, <2>1
  <2>3. QED BY <1>2, <1>6, <2>2, EndUndoable DEF Edits
<1>9. QED BY <1>7, <1>8

(* Marks, and undos of one request, end and push nothing. *)
LEMMA DoneUndoable ==
  ASSUME Sane, SavedMark \/ Undraw \/ PutBack \/ RemoveBox \/ Rename \/ Unmark
  PROVE  Undoable'
<1> DEFINE kinds == {"mark", "undraw", "putBack", "remove", "rename", "unmark"}
<1>1. Answered(kinds, TRUE) /\ Ends /\ undoStack' = undoStack
  BY DEF SavedMark, Undraw, PutBack, RemoveBox, Rename, Unmark, Undone, Saved, Answered
<1>2. Landed /\ Running.kind \in kinds /\ flight' = Idle /\ UNCHANGED <<api, page, opened>>
  BY <1>1, SavedLands
<1>3. Due = After(Running, Reply) /\ Running \in Good /\ Reply \in Answer
  BY <1>2, LandedKnows
<1>4. Due.kind = "unmark"
  BY <1>2, <1>3, AfterShape
<1>5. \A u \in Tracks : \A g : ~Touches(Heir, Due, u, g)
  BY <1>4 DEF Touches, Covers
<1>6. queue' = Tail(queue) /\ UNCHANGED remap /\ Running.kind # "recreate"
  BY <1>1, <1>2 DEF Ends
<1>7. QED BY <1>1, <1>2, <1>5, <1>6, EndUndoable

Several == {"recreate", "refill", "uncopy"}

(* A sequence of one. *)
LEMMA AloneIs ==
  ASSUME NEW S, NEW x \in S
  PROVE  <<x>> \o <<>> = <<x>>
OBVIOUS

(* An undo of several requests goes on with what is left of it, or is done. *)
LEMMA GoesOnUndoable ==
  ASSUME Sane, Landed, Running.kind \in Several, flight' = Idle,
         UNCHANGED <<api, page, opened, undoStack>>, OneEnd', Ids' = Heir,
         \A t \in Tracks : \/ remap'[t] = remap[t]
                           \/ /\ Running.kind = "recreate" /\ t = Running.track
                              /\ remap'[t] = Reply.track,
         \/ queue' = <<Due>> \o Tail(queue) /\ Due \in Good
         \/ queue' = Tail(queue) /\ \A u \in Tracks, g \in Spot : ~Touches(Heir, Due, u, g)
  PROVE  Undoable'
<1>1. /\ queue # <<>> /\ Running \in Good /\ Reply \in Answer /\ Owing
      /\ Due = After(Running, Reply) /\ Later = Tail(queue)
  BY LandedKnows
<1>2. /\ UndoAlone /\ OneEnd /\ Recreates /\ Direct /\ Born /\ Fresh /\ New
      /\ Loaded /\ Remembers
  BY DEF Sane, Undoable
<1>3. /\ Running.kind = "recreate" => Due.kind = "refill" /\ Due.track = Reply.track
      /\ Running.kind = "refill" => Due.kind = "refill" /\ Due.track = Running.track
      /\ Running.kind = "uncopy" => Due.kind = "uncopy"
  BY <1>1, AfterShape
<1>4. 1 \in DOMAIN queue /\ Running = queue[1] /\ DOMAIN queue = 1..Len(queue)
  BY <1>1, Queued DEF Sane, Running
<1>5. Len(queue) = 1 /\ DOMAIN queue = {1} /\ Tail(queue) = <<>>
  <2>1. Len(queue) = 1
    BY <1>2, <1>4 DEF UndoAlone, Several, Undos
  <2>2. queue \in Seq(Good)
    BY DEF Sane, IInv, Pending
  <2>3. QED BY <1>4, <2>1, <2>2
<1>6. ~Landed' /\ flight'.at # "sent"
  BY DEF Landed, Idle
<1>7. Heir' = Heir
  BY <1>6 DEF Heir
<1>8. \/ /\ queue' # <<>> /\ Running' = Due /\ DOMAIN queue' = {1} /\ Len(queue') = 1
         /\ queue'[1] = Due /\ Owing' /\ Due' = Due /\ Later' = Later
      \/ /\ queue' = <<>> /\ ~Owing' /\ Due' = Spent /\ Later' = Later
         /\ \A u \in Tracks, g \in Spot : ~Touches(Heir, Due, u, g)
  <2>1. CASE queue' = <<Due>> \o Tail(queue) /\ Due \in Good
    <3>1. queue' = <<Due>>
      BY <1>5, <2>1, AloneIs
    <3>2. queue' # <<>> /\ Running' = Due /\ DOMAIN queue' = {1} /\ Len(queue') = 1
          /\ queue'[1] = Due /\ Tail(queue') = <<>>
      BY <3>1 DEF Running
    <3>3. Due.kind \in Undos
      BY <1>3 DEF Several, Undos
    <3>4. Owing'
      BY <3>2, <3>3 DEF Owing
    <3>5. QED BY <1>1, <1>5, <1>6, <3>2, <3>4 DEF Due, Later
  <2>2. CASE queue' = Tail(queue) /\ \A u \in Tracks, g \in Spot : ~Touches(Heir, Due, u, g)
    BY <1>1, <1>5, <1>6, <2>2 DEF Owing, Due, Later, Spent
  <2>3. QED BY <2>1, <2>2
<1>9. UndoAlone'
  BY <1>8 DEF UndoAlone
<1>10. Due.kind = "refill" => Due.track \in Tracks /\ remap'[Due.track] = None
  <2>1. CASE Running.kind = "recreate"
    <3>1. Reply.track \in Tracks /\ Reply.track # Running.track
      BY <1>2, <2>1 DEF New
    <3>2. About(Due) = {Reply.track}
      BY <1>3, <2>1, <3>1 DEF About
    <3>3. remap[Reply.track] = None
      BY <1>2, <2>1, <3>2 DEF Fresh
    <3>4. QED BY <1>3, <2>1, <3>1, <3>3
  <2>2. CASE Running.kind = "refill"
    <3>1. Named(Running)
      BY <1>2, <1>4 DEF Direct
    <3>2. Running.track \in Tracks /\ remap[Running.track] = None
      BY <2>2, <3>1 DEF Named
    <3>3. QED BY <1>3, <2>2, <3>2
  <2>3. QED BY <1>3, <2>1, <2>2 DEF Several
<1>11. Direct'
  <2>1. \A i \in DOMAIN queue' : Named(queue[i])'
    BY <1>3, <1>8, <1>10 DEF Named, Several
  <2>2. QED BY <1>2, <2>1 DEF Direct
<1>12. Recreates'
  <2>1. ~Reviving'
    BY <1>3, <1>8 DEF Reviving, Several
  <2>2. ASSUME NEW i \in DOMAIN undoStack, undoStack[i].kind = "recreate"
        PROVE  Gone(undoStack[i].track)'
    <3>1. Gone(undoStack[i].track) /\ (Reviving => undoStack[i].track # Running.track)
      BY <1>2, <2>2 DEF Recreates
    <3>2. Running.kind = "recreate" => Reviving
      BY <1>1 DEF Reviving
    <3>3. undoStack[i].track \in Tracks
      BY <3>1 DEF Gone, Dead
    <3>4. remap'[undoStack[i].track] = remap[undoStack[i].track]
      BY <3>1, <3>2, <3>3
    <3>5. QED BY <3>1, <3>4 DEF Gone, Dead
  <2>3. QED BY <1>2, <2>1, <2>2 DEF Recreates
<1>13. Born'
  <2>1. \A j : Able(j)' <=> Able(j)
    BY DEF Able
  <2>2. Able(Due)'
    <3>1. Able(Spent)
      BY SpentIs DEF Able
    <3>2. Able(Due) /\ (Due' = Due \/ Due' = Spent)
      BY <1>2, <1>8 DEF Born
    <3>3. QED BY <3>1, <3>2 DEF Able
  <2>3. ASSUME NEW t \in Tracks, remap'[t] # None
        PROVE  Dead(t) /\ remap'[t] < api.next
    <3>1. CASE remap'[t] = remap[t]
      BY <1>2, <2>3, <3>1 DEF Born
    <3>2. CASE Running.kind = "recreate" /\ t = Running.track /\ remap'[t] = Reply.track
      <4>1. Gone(Running.track)
        BY <1>1, <1>2, <3>2 DEF Recreates, Reviving
      <4>2. About(Due) = {Reply.track}
        BY <1>2, <1>3, <3>2 DEF About, New
      <4>3. Reply.track < api.next
        BY <1>2, <4>2 DEF Born, Able
      <4>4. QED BY <3>2, <4>1, <4>3 DEF Gone
    <3>3. QED BY <3>1, <3>2
  <2>4. \A i \in DOMAIN undoStack : Able(undoStack[i])'
    BY <1>2, <2>1 DEF Born, Able
  <2>5. QED BY <1>2, <2>2, <2>3, <2>4 DEF Born, Dead
<1>14. Fresh' /\ Sent' /\ New' /\ Loaded'
  BY <1>2, <1>6 DEF Fresh, Sent, New, Loaded
<1>15. Remembers'
  <2> SUFFICES ASSUME NEW u \in Tracks, NEW g \in FramesOf(page) \union {None},
                      NEW v \in Rects \union Types \union {None}, Wants(Heir, opened, u, g, v)
               PROVE  Back(Heir, undoStack, Due', Later, api, u, g, v)
    BY <1>7, <1>8 DEF Remembers
  <2>1. Back(Heir, undoStack, Due, Later, api, u, g, v)
    BY <1>2 DEF Remembers
  <2>2. CASE Due' = Due
    BY <2>1, <2>2
  <2> g \in Spot
    BY FrameOnPage DEF Spot
  <2>3. CASE Due' = Spent /\ ~Touches(Heir, Due, u, g)
    <3>1. ~Touches(Heir, Spent, u, g)
      BY SpentIs
    <3>2. Back(Heir, undoStack, Spent, Later, api, u, g, v)
      BY <2>1, <2>3, <3>1, BackAs
    <3>3. QED BY <2>3, <3>2
  <2>4. QED BY <1>8, <2>2, <2>3
<1>16. QED BY <1>9, <1>11, <1>12, <1>13, <1>14, <1>15 DEF Undoable

(* With the same ids. *)
LEMMA SameIds ==
  ASSUME Sane, UNCHANGED remap, Running.kind # "recreate"
  PROVE  OneEnd' /\ Ids' = Heir /\ \A t \in Tracks : remap'[t] = remap[t]
BY RemapSame DEF Sane, Undoable, Heir

(* What is left of a track to put back, when no box is. *)
LEMMA NoneLeft ==
  ASSUME NEW j, j.kind = "refill", j.boxes = NoBoxes, NEW h
  PROVE  \A u \in Tracks, g \in Spot : ~Touches(h, j, u, g)
BY DEF Touches, Covers, NoBoxes, Spot

(* What is left is what undoes it, so it goes on as long as something is.     *)
LEMMA RestUndoable ==
  ASSUME Sane, IInv', NEW more, Landed, Running.kind \in Several, flight' = Idle,
         UNCHANGED <<api, page, opened, undoStack>>, OneEnd', Ids' = Heir,
         \A t \in Tracks : \/ remap'[t] = remap[t]
                           \/ /\ Running.kind = "recreate" /\ t = Running.track
                              /\ remap'[t] = Reply.track,
         queue' = IF more THEN <<Due>> \o Tail(queue) ELSE Tail(queue),
         more \/ \A u \in Tracks, g \in Spot : ~Touches(Heir, Due, u, g)
  PROVE  Undoable'
<1>1. CASE more
  <2>1. queue' = <<Due>> \o Tail(queue)
    BY <1>1
  <2>2. Due \in Good
    <3>1. queue' \in Seq(Good) /\ queue \in Seq(Good) /\ queue # <<>>
      BY LandedKnows DEF IInv, Pending, Sane
    <3>2. 1 \in DOMAIN queue' /\ queue'[1] = Due
      BY <2>1, <3>1
    <3>3. QED BY <3>1, <3>2, ElementOfSeq
  <2>3. QED BY <2>1, <2>2, GoesOnUndoable
<1>2. CASE ~more
  <2>1. queue' = Tail(queue) /\ \A u \in Tracks, g \in Spot : ~Touches(Heir, Due, u, g)
    BY <1>2
  <2>2. QED BY <2>1, GoesOnUndoable
<1>3. QED BY <1>1, <1>2

(* Each undo of several requests.  The boxes of a track that was made      *)
(* again,                                                                  *)
LEMMA RefillUndoable ==
  ASSUME Sane, IInv', Refill
  PROVE  Undoable'
<1> DEFINE j == Running
           rest == [j.boxes EXCEPT ![j.frame] = None]
           left == [j EXCEPT !.boxes = rest]
<1>1. Answered({"refill"}, TRUE) /\ GoesOn(left, rest # NoBoxes) /\ UNCHANGED remap
  BY DEF Refill
<1>2. Landed /\ j.kind \in {"refill"} /\ flight' = Idle /\ UNCHANGED <<api, page, opened>>
  BY <1>1, SavedLands
<1>3. Due = After(j, Reply) /\ j \in Good /\ Reply \in Answer
  BY <1>2, LandedKnows
<1>4. Due = left
  <2>1. j.kind = "refill"
    BY <1>2
  <2>2. QED BY <1>3, <2>1 DEF After
<1>5. Due.kind = "refill" /\ Due.boxes = rest
  BY <1>2, <1>3, AfterShape
<1>6. OneEnd' /\ Ids' = Heir /\ \A t \in Tracks : remap'[t] = remap[t]
  BY <1>1, <1>2, SameIds
<1>7. queue' = (IF rest # NoBoxes THEN <<Due>> \o Tail(queue) ELSE Tail(queue))
      /\ undoStack' = undoStack
  BY <1>1, <1>4 DEF GoesOn
<1> HIDE DEF rest, left
<1>8. rest # NoBoxes \/ \A u \in Tracks, g \in Spot : ~Touches(Heir, Due, u, g)
  BY <1>5, NoneLeft
<1>9. j.kind \in Several
  BY <1>2 DEF Several
<1>10. QED BY <1>2, <1>6, <1>7, <1>8, <1>9, RestUndoable

(* the boxes that were copied, *)
LEMMA UncopyUndoable ==
  ASSUME Sane, IInv', Uncopy
  PROVE  Undoable'
<1> DEFINE j == Running
           rest == j.tracks \ {Least(j.tracks)}
           left == [j EXCEPT !.tracks = rest]
<1>1. Answered({"uncopy"}, TRUE) /\ GoesOn(left, rest # {}) /\ UNCHANGED remap
  BY DEF Uncopy
<1>2. Landed /\ j.kind \in {"uncopy"} /\ flight' = Idle /\ UNCHANGED <<api, page, opened>>
  BY <1>1, SavedLands
<1>3. Due = After(j, Reply) /\ j \in Good /\ Reply \in Answer
  BY <1>2, LandedKnows
<1>4. Due = left
  <2>1. j.kind = "uncopy"
    BY <1>2
  <2>2. QED BY <1>3, <2>1 DEF After
<1>5. Due.kind = "uncopy" /\ Due.tracks = rest
  BY <1>2, <1>3, AfterShape
<1>6. OneEnd' /\ Ids' = Heir /\ \A t \in Tracks : remap'[t] = remap[t]
  BY <1>1, <1>2, SameIds
<1>7. queue' = (IF rest # {} THEN <<Due>> \o Tail(queue) ELSE Tail(queue))
      /\ undoStack' = undoStack
  BY <1>1, <1>4 DEF GoesOn
<1> HIDE DEF rest, left
<1>8. rest # {} \/ \A u \in Tracks, g \in Spot : ~Touches(Heir, Due, u, g)
  BY <1>5 DEF Touches, About
<1>9. j.kind \in Several
  BY <1>2 DEF Several
<1>10. QED BY <1>2, <1>6, <1>7, <1>8, <1>9, RestUndoable

(* and the track itself, whose old id learns the new one now. *)
LEMMA RecreateUndoable ==
  ASSUME Sane, IInv', Recreate
  PROVE  Undoable'
<1> DEFINE j == Running
           n == Reply.track
           rest == [j.boxes EXCEPT ![j.frame] = None]
           left == [Blank("refill") EXCEPT !.n = j.n, !.page = j.page, !.track = n, !.boxes = rest]
<1>1. /\ Answered({"recreate"}, TRUE) /\ GoesOn(left, rest # NoBoxes)
      /\ remap' = [remap EXCEPT ![j.track] = n]
  BY DEF Recreate
<1>2. Landed /\ j.kind \in {"recreate"} /\ flight' = Idle /\ UNCHANGED <<api, page, opened>>
  BY <1>1, SavedLands
<1>3. Due = After(j, Reply) /\ j \in Good /\ Reply \in Answer /\ Owing
  BY <1>2, LandedKnows
<1>4. Due = left
  <2>1. j.kind = "recreate"
    BY <1>2
  <2>2. QED BY <1>3, <2>1 DEF After
<1>5. Due.kind = "refill" /\ Due.boxes = rest /\ Due.track = n
  BY <1>2, <1>3, AfterShape
<1>6. queue' = (IF rest # NoBoxes THEN <<Due>> \o Tail(queue) ELSE Tail(queue))
      /\ undoStack' = undoStack
  BY <1>1, <1>4 DEF GoesOn
<1> HIDE DEF rest, left
<1>7. rest # NoBoxes \/ \A u \in Tracks, g \in Spot : ~Touches(Heir, Due, u, g)
  BY <1>5, NoneLeft
<1>8. n \in Tracks /\ n # j.track
  BY <1>2 DEF Sane, Undoable, New
<1>9. j.track \in Tracks /\ remap[j.track] = None
  BY <1>2, <1>3 DEF Sane, Undoable, Recreates, Reviving, Gone, Dead
<1>10. About(Due) = {n}
  BY <1>5, <1>8 DEF About
<1>11. remap[n] = None
  BY <1>2, <1>10 DEF Sane, Undoable, Fresh
<1>12. /\ remap \in [Tracks -> Tracks \union {None}] /\ remap' \in [Tracks -> Tracks \union {None}]
       /\ IInv /\ OneEnd
  BY DEF Sane, Undoable, IInv, TypeOK
<1>13. remap'[j.track] = n /\ \A v \in Tracks : v # j.track => remap'[v] = remap[v]
  BY <1>1, <1>9, <1>12
<1>14. OneEnd' /\ Ids' = Reborn(Ids, j.track, n)
  BY <1>8, <1>9, <1>11, <1>12, <1>13, RemapMoves
<1>15. Ids' = Heir
  BY <1>2, <1>14 DEF Heir
<1>16. \A t \in Tracks : \/ remap'[t] = remap[t]
                         \/ j.kind = "recreate" /\ t = j.track /\ remap'[t] = n
  BY <1>2, <1>13
<1>17. j.kind \in Several
  BY <1>2 DEF Several
<1>18. QED BY <1>2, <1>6, <1>7, <1>14, <1>15, <1>16, <1>17, RestUndoable

(* Whatever the store does with an answer. *)
LEMMA AnswersUndoable ==
  ASSUME Sane, IInv', Clean', Answers
  PROVE  Undoable'
<1>1. ASSUME SavedDraw \/ SavedMove \/ SavedDeleteBox \/ SavedDeleteTrack \/ SavedUpdate
      PROVE  Undoable'
  BY <1>1, SavedUndoable
<1>2. ASSUME SavedMark \/ Undraw \/ PutBack \/ RemoveBox \/ Rename \/ Unmark
      PROVE  Undoable'
  BY <1>2, DoneUndoable
<1>3. ~(FailedMove \/ FailedMark \/ FailedOther)
  BY DEF Clean, FailedMove, FailedMark, FailedOther
<1>4. QED BY <1>1, <1>2, <1>3, CopiedUndoable, RecreateUndoable, RefillUndoable, UncopyUndoable
          DEF Answers

(***************************************************************************)
(* A request is sent.                                                       *)
(***************************************************************************)
Looked == {"undraw", "putBack", "remove", "rename"}

(* What an undo is when it is sent. *)
LEMMA StartedSame ==
  ASSUME NEW j \in Good, ~(j.kind = "recreate" /\ j.boxes = NoBoxes)
  PROVE  LET s == Started(j)
         IN /\ s \in Good /\ s.kind = j.kind /\ s.boxes = j.boxes /\ s.tracks = j.tracks
            /\ s.type = j.type
            /\ j.kind \in Looked => s.track = Resolve(j.track)
            /\ j.kind = "uncopy" => s.track = Resolve(Least(j.tracks))
            /\ j.kind \notin Looked \union {"uncopy"} => s.track = j.track
            /\ j.kind \notin {"recreate", "refill"} => s.frame = j.frame /\ s.at = j.at
            /\ j.kind \in {"recreate", "refill"} =>
                 /\ Filled(j.boxes) # {} /\ s.frame = Least(Filled(j.boxes))
                 /\ s.at = j.boxes[s.frame].at /\ s.frame \in Frames /\ j.boxes[s.frame] # None
            /\ j.kind \in Edits => s = j
<1> DEFINE s == Started(j)
           f == Least(Filled(j.boxes))
           t == Resolve(j.track)
           u == Resolve(Least(j.tracks))
<1>1. s \in Good /\ s.kind = j.kind
  BY StartedGood
<1>2. j \in Job
  BY DEF Good
<1>3. CASE j.kind \in Looked
  <2>1. s = [j EXCEPT !.track = t]
    BY <1>3 DEF Started, Looked
  <2> HIDE DEF s, t
  <2>2. /\ s.boxes = j.boxes /\ s.tracks = j.tracks /\ s.type = j.type /\ s.track = t
        /\ s.frame = j.frame /\ s.at = j.at
    BY <1>2, <2>1 DEF Job
  <2>3. QED BY <1>1, <1>3, <2>2 DEF s, t, Looked, Edits
<1>4. CASE j.kind = "uncopy"
  <2>1. s = [j EXCEPT !.track = u]
    BY <1>4 DEF Started
  <2> HIDE DEF s, u
  <2>2. /\ s.boxes = j.boxes /\ s.tracks = j.tracks /\ s.type = j.type /\ s.track = u
        /\ s.frame = j.frame /\ s.at = j.at
    BY <1>2, <2>1 DEF Job
  <2>3. QED BY <1>1, <1>4, <2>2 DEF s, u, Looked, Edits
<1>5. CASE j.kind \in {"recreate", "refill"}
  <2>1. j.boxes \in [Frames -> BoxOrNone] /\ j.boxes # NoBoxes
    BY <1>2, <1>5, JobShape DEF Good, JobOK
  <2>2. Filled(j.boxes) # {}
    BY <2>1 DEF Filled, NoBoxes
  <2>3. s = [j EXCEPT !.frame = f, !.at = j.boxes[f].at]
    BY <1>5, <2>2 DEF Started
  <2>4. f \in Frames /\ j.boxes[f] # None
    <3>1. Filled(j.boxes) \subseteq Nat
      BY FramesAssumption DEF Filled
    <3>2. f \in Filled(j.boxes)
      BY <2>2, <3>1, LeastIn
    <3>3. QED BY <3>2 DEF Filled
  <2> HIDE DEF s, f
  <2>5. /\ s.boxes = j.boxes /\ s.tracks = j.tracks /\ s.type = j.type /\ s.track = j.track
        /\ s.frame = f /\ s.at = j.boxes[f].at
    BY <1>2, <2>3 DEF Job
  <2>6. QED BY <1>1, <1>5, <2>2, <2>4, <2>5 DEF s, f, Looked, Edits
<1>6. CASE j.kind \notin Looked \union {"uncopy", "recreate", "refill"}
  <2>1. s = j
    BY <1>6 DEF Started, Looked
  <2>2. QED BY <1>1, <1>6, <2>1
<1>7. CASE j.kind \in Edits
  <2>1. s = j
    BY <1>7 DEF Started, Edits
  <2>2. QED BY <1>6, <1>7 DEF Looked, Edits
<1>8. QED BY <1>3, <1>4, <1>5, <1>6

(* Looking up the ids again finds the same. *)
LEMMA StartedOnce ==
  ASSUME NEW j \in Good, ~(j.kind = "recreate" /\ j.boxes = NoBoxes),
         j.kind \in Looked => Resolve(Resolve(j.track)) = Resolve(j.track)
  PROVE  Started(Started(j)) = Started(j)
<1> DEFINE s == Started(j)
<1>1. /\ s \in Good /\ s.kind = j.kind /\ s.boxes = j.boxes /\ s.tracks = j.tracks
      /\ j.kind \in Looked => s.track = Resolve(j.track)
      /\ j.kind = "uncopy" => s.track = Resolve(Least(j.tracks))
      /\ j.kind \in {"recreate", "refill"} =>
           s.frame = Least(Filled(j.boxes)) /\ s.at = j.boxes[s.frame].at
  BY StartedSame
<1> HIDE DEF s
<1>2. s \in Job
  BY <1>1 DEF Good
<1>3. CASE s.kind \in Looked
  <2>1. Started(s) = [s EXCEPT !.track = s.track]
    BY <1>1, <1>3 DEF Started, Looked
  <2>2. QED BY <1>2, <2>1 DEF Job, s
<1>4. CASE s.kind = "uncopy"
  <2>1. Started(s) = [s EXCEPT !.track = s.track]
    BY <1>1, <1>4 DEF Started
  <2>2. QED BY <1>2, <2>1 DEF Job, s
<1>5. CASE s.kind \in {"recreate", "refill"}
  <2>1. Started(s) = s \/ Started(s) = [s EXCEPT !.frame = s.frame, !.at = s.at]
    BY <1>1, <1>5 DEF Started
  <2>2. QED BY <1>2, <2>1 DEF Job, s
<1>6. CASE s.kind \notin Looked \union {"uncopy", "recreate", "refill"}
  BY <1>6 DEF Started, Looked, s
<1>7. QED BY <1>3, <1>4, <1>5, <1>6

(* A sequence and its first element. *)
LEMMA AgainIs ==
  ASSUME NEW S, NEW s \in Seq(S), s # <<>>
  PROVE  <<s[1]>> \o Tail(s) = s
OBVIOUS

(* Making a track again that had no boxes is asking for nothing. *)
LEMMA SkippedUndoable ==
  ASSUME Sane, queue # <<>>, flight = Idle, queue' = Tail(queue),
         UNCHANGED <<api, page, flight, remap, undoStack, opened>>,
         Running.kind = "recreate", Running.boxes = NoBoxes
  PROVE  Undoable'
<1> DEFINE j == Running
<1>1. /\ UndoAlone /\ OneEnd /\ Recreates /\ Direct /\ Born
      /\ Loaded /\ Remembers /\ IInv
  BY DEF Sane, Undoable
<1>2. j \in Good /\ 1 \in DOMAIN queue /\ j = queue[1]
  BY <1>1, Queued DEF Running
<1>3. Owing /\ ~Landed /\ Due = j /\ Later = Tail(queue) /\ Heir = Ids
  BY DEF Owing, Due, Later, Heir, Landed, Idle, Undos
<1>4. /\ ~Landed' /\ ~Owing' /\ flight'.at # "sent" /\ Later' = Tail(queue)
      /\ Due' = Spent /\ UndoAlone'
      /\ \A i \in DOMAIN queue' : i + 1 \in DOMAIN queue /\ queue'[i] = queue[i + 1]
  BY EndedQueue
<1>5. Tail(queue) = <<>>
  <2>1. Len(queue) = 1
    BY <1>1, <1>2 DEF UndoAlone, Undos
  <2>2. queue \in Seq(Good)
    BY <1>1 DEF IInv, Pending
  <2>3. QED BY <2>1, <2>2
<1>6. OneEnd' /\ Ids' = Ids /\ Heir' = Ids'
  BY <1>1, <1>4, RemapSame DEF Heir
<1>7. Direct'
  BY <1>1, <1>4 DEF Direct, Named
<1>8. Gone(j.track) /\ Reviving
  BY <1>1, <1>3 DEF Recreates, Reviving
<1>9. Recreates'
  <2>1. ~Reviving'
    BY <1>4 DEF Reviving
  <2>2. QED BY <1>1, <2>1 DEF Recreates, Gone, Dead
<1>10. Born'
  <2>1. Able(Due)'
    BY <1>4, SpentIs DEF Able
  <2>2. QED BY <1>1, <2>1 DEF Born, Able, Dead
<1>11. Fresh' /\ Sent' /\ New' /\ Loaded'
  BY <1>1, <1>4 DEF Fresh, Sent, New, Loaded
<1>12. Remembers'
  <2> SUFFICES ASSUME NEW u \in Tracks, NEW g \in FramesOf(page) \union {None},
                      NEW v \in Rects \union Types \union {None}, Wants(Ids, opened, u, g, v)
               PROVE  Back(Ids, undoStack, Spent, <<>>, api, u, g, v)
    BY <1>4, <1>5, <1>6 DEF Remembers
  <2>1. Back(Ids, undoStack, j, <<>>, api, u, g, v)
    BY <1>1, <1>3, <1>5 DEF Remembers
  <2>2. ~Touches(Ids, Spent, u, g)
    BY SpentIs
  <2>3. CASE ~Touches(Ids, j, u, g)
    BY <2>1, <2>2, <2>3, BackAs
  <2>4. CASE Touches(Ids, j, u, g)
    <3>1. j.track \in Tracks /\ api.track[j.track] = None /\ remap[j.track] = None
      BY <1>8 DEF Gone, Dead
    <3>2. Ids[j.track] = j.track
      BY <1>1, <3>1, IdsShape
    <3>3. u = j.track
      BY <2>4, <3>1, <3>2 DEF Touches, About
    <3>4. g # None => g \in Frames
      BY FrameOnPage
    <3>5. g # None => Restores(j, g) = None
      BY <3>4 DEF Restores, NoBoxes, Rect
    <3>6. g # None => Has(api, u, g) = None
      BY <1>1, <3>1, <3>3, <3>4 DEF IInv, Sound, InClip, Has, Rect
    <3>7. Untouched(Ids, undoStack, u, g) => Restores(j, g) = v
      BY <2>1, <2>4 DEF Back
    <3>8. Untouched(Ids, undoStack, u, g) => Holds(api, u, g, v)
      BY <3>1, <3>3, <3>5, <3>6, <3>7 DEF Holds
    <3>9. Expected(<<>>, u, g, v)
      BY DEF Expected
    <3>10. QED BY <2>1, <2>2, <3>8, <3>9 DEF Back
  <2>5. QED BY <2>3, <2>4
<1>13. QED BY <1>4, <1>6, <1>7, <1>9, <1>10, <1>11, <1>12 DEF Undoable

(* An undo that was sent is still about the same tracks, and is owed. *)
LEMMA StartedKeeps ==
  ASSUME IInv, OneEnd, Born, NEW j \in Good, ~(j.kind = "recreate" /\ j.boxes = NoBoxes), Able(j)
  PROVE  LET s == Started(j)
         IN /\ j.kind \in Looked => j.track \in Tracks
            /\ Started(s) = s
            /\ Able(s)
            /\ \A u \in Tracks : \A g : /\ Touches(Ids, s, u, g) <=> Touches(Ids, j, u, g)
                                        /\ Touches(Ids, s, u, g) => Restores(s, g) = Restores(j, g)
<1> DEFINE s == Started(j)
<1>1. /\ s \in Good /\ s.kind = j.kind /\ s.boxes = j.boxes /\ s.tracks = j.tracks
      /\ s.type = j.type
      /\ j.kind \in Looked => s.track = Resolve(j.track)
      /\ j.kind \notin Looked \union {"uncopy"} => s.track = j.track
      /\ j.kind \notin {"recreate", "refill"} => s.frame = j.frame /\ s.at = j.at
  BY StartedSame
<1>2. ASSUME j.kind \in Looked PROVE j.track \in Tracks
  BY <1>2 DEF Looked, Able, Good, JobOK
<1>3. \A t \in Tracks : /\ Resolve(t) \in Tracks /\ Ids[t] = Resolve(t)
                        /\ Resolve(Resolve(t)) = Resolve(t)
  BY IdsShape
<1>4. Started(s) = s
  BY <1>2, <1>3, StartedOnce
<1> HIDE DEF s
<1>5. Able(s)
  <2>1. CASE j.kind \in Looked
    <3>1. About(j) = {j.track} /\ About(s) = {Resolve(j.track)}
      BY <1>1, <1>2, <1>3, <2>1 DEF About, Looked
    <3>2. Resolve(j.track) < api.next
      BY <1>2, <2>1, <3>1, ResolveBorn DEF Able
    <3>3. QED BY <1>1, <1>2, <1>3, <2>1, <3>1, <3>2 DEF Able, Looked
  <2>2. CASE j.kind \notin Looked
    <3>1. About(s) = About(j)
      BY <1>1, <2>2 DEF About
    <3>2. QED BY <1>1, <2>2, <3>1 DEF Able, Looked
  <2>3. QED BY <2>1, <2>2
<1>6. ASSUME NEW u \in Tracks, NEW g
      PROVE  /\ Touches(Ids, s, u, g) <=> Touches(Ids, j, u, g)
             /\ Touches(Ids, s, u, g) => Restores(s, g) = Restores(j, g)
  <2>1. Covers(s, g) <=> Covers(j, g)
    BY <1>1 DEF Covers
  <2>2. Restores(s, g) = Restores(j, g)
    BY <1>1 DEF Restores
  <2>3. CASE j.kind \in Looked
    <3>1. About(j) = {j.track} /\ About(s) = {Resolve(j.track)}
      BY <1>1, <1>2, <1>3, <2>3 DEF About, Looked
    <3>2. QED BY <1>2, <1>3, <2>1, <2>2, <2>3, <3>1 DEF Touches
  <2>4. CASE j.kind \notin Looked
    <3>1. About(s) = About(j)
      BY <1>1, <2>4 DEF About
    <3>2. QED BY <2>1, <2>2, <3>1 DEF Touches
  <2>5. QED BY <2>3, <2>4
<1>7. QED BY <1>2, <1>4, <1>5, <1>6 DEF s

(* By the ids of m. *)
StartedBy(m, j) ==
  CASE j.kind \in {"undraw", "putBack", "remove", "rename"} -> [j EXCEPT !.track = By(m, j.track)]
    [] j.kind = "uncopy" -> [j EXCEPT !.track = By(m, Least(j.tracks))]
    [] j.kind \in {"recreate", "refill"} ->
         IF Filled(j.boxes) = {} THEN j
         ELSE [j EXCEPT !.frame = Least(Filled(j.boxes)), !.at = j.boxes[Least(Filled(j.boxes))].at]
    [] OTHER -> j

(* By remap it is what is sent. *)
LEMMA StartedIs ==
  ASSUME NEW j
  PROVE  StartedBy(remap, j) = Started(j)
BY WayIs DEF Started, StartedBy

(* And so it is after a step. *)
LEMMA StartedWas == Started(Running)' = StartedBy(remap', Running')
BY WayWas DEF Started, StartedBy

(* A request leaves with the ids of now. *)
LEMMA SentUndoable ==
  ASSUME Sane, queue # <<>>, flight = Idle, flight'.at = "sent",
         queue' = <<Started(Running)>> \o Tail(queue),
         UNCHANGED <<api, page, remap, undoStack, opened>>,
         ~(Running.kind = "recreate" /\ Running.boxes = NoBoxes)
  PROVE  Undoable'
<1> DEFINE j == Running
           s == Started(j)
<1>1. /\ UndoAlone /\ OneEnd /\ Recreates /\ Direct /\ Born
      /\ Loaded /\ Remembers /\ IInv
  BY DEF Sane, Undoable
<1>2. /\ j \in Good /\ 1 \in DOMAIN queue /\ j = queue[1] /\ queue \in Seq(Good)
      /\ j.kind \in Edits \union Undos
  BY <1>1, Queued, JobShape DEF Running, IInv, Pending, Good
<1>3. /\ s \in Good /\ s.kind = j.kind /\ s.boxes = j.boxes /\ s.tracks = j.tracks
      /\ j.kind \notin Looked \union {"uncopy"} => s.track = j.track
      /\ j.kind \in Edits => s = j
  BY <1>2, StartedSame
<1>4. /\ queue' # <<>> /\ Running' = s /\ DOMAIN queue' = DOMAIN queue
      /\ \A i \in DOMAIN queue : i # 1 => queue'[i] = queue[i]
  BY <1>1, <1>3, ChangeShape
<1>5. Started(Running)' = StartedBy(remap', Running') /\ StartedBy(remap, s) = Started(s)
  BY StartedIs, StartedWas
<1> HIDE DEF s
<1>6. Tail(queue') = Tail(queue) /\ Len(queue') = Len(queue) /\ queue'[1] = s
  BY <1>2, <1>3, <1>4 DEF Running, s
<1>7. j.kind \in Edits => queue' = queue
  BY <1>2, <1>3, AgainIs DEF s
<1>8. ~Landed /\ ~Landed'
  BY DEF Landed, Idle
<1>9. (Owing <=> j.kind \in Undos) /\ (Owing' <=> j.kind \in Undos)
  BY <1>3, <1>4, <1>8 DEF Owing
<1>10. /\ j.kind \in Undos => Due = j /\ Due' = s /\ Later' = Later
       /\ j.kind \notin Undos => Due = Spent /\ Due' = Spent /\ Later' = Later
  BY <1>2, <1>3, <1>4, <1>6, <1>7, <1>8, <1>9 DEF Due, Later, Spent
<1>11. OneEnd' /\ Ids' = Ids /\ Heir' = Ids' /\ Heir = Ids
  BY <1>1, <1>8, RemapSame DEF Heir
<1>12. \A i \in DOMAIN queue : queue'[i].kind = queue[i].kind
                               /\ (queue[i].kind \notin Looked \union {"uncopy"} =>
                                     queue'[i].track = queue[i].track)
  BY <1>2, <1>3, <1>4, <1>6
<1>13. UndoAlone'
  BY <1>1, <1>4, <1>6, <1>12 DEF UndoAlone
<1>14. Direct'
  BY <1>1, <1>4, <1>12 DEF Direct, Named, Looked
<1>15. Recreates'
  <2>1. \A t : Gone(t)' <=> Gone(t)
    BY DEF Gone, Dead
  <2>2. (Reviving <=> j.kind = "recreate") /\ (Reviving' <=> j.kind = "recreate")
    BY <1>3, <1>4, <1>9, <1>10 DEF Reviving, Undos
  <2>3. j.kind = "recreate" => s.track = j.track
    BY <1>3 DEF Looked
  <2>4. QED BY <1>1, <1>4, <2>1, <2>2, <2>3 DEF Recreates
<1>16. /\ j.kind \in Undos =>
            /\ Able(s)
            /\ \A u \in Tracks : \A g : /\ Touches(Ids, s, u, g) <=> Touches(Ids, j, u, g)
                                        /\ Touches(Ids, s, u, g) => Restores(s, g) = Restores(j, g)
       /\ Started(s) = s
  <2>1. CASE j.kind \in Undos
    <3>1. Able(j)
      BY <1>1, <1>10, <2>1 DEF Born
    <3>2. QED BY <1>1, <1>2, <3>1, StartedKeeps DEF s
  <2>2. CASE j.kind \in Edits
    <3>1. j.kind \notin Undos
      BY <2>2 DEF Edits, Undos
    <3>2. Started(s) = s
      BY <1>3, <2>2 DEF s
    <3>3. QED BY <3>1, <3>2
  <2>3. QED BY <1>2, <2>1, <2>2
<1>17. Born'
  <2>1. \A k : Able(k)' <=> Able(k)
    BY DEF Able
  <2>2. Able(Due)'
    <3>1. Able(Spent)
      BY SpentIs DEF Able
    <3>2. QED BY <1>10, <1>16, <3>1 DEF Able
  <2>3. QED BY <1>1, <2>1, <2>2 DEF Born, Dead, Able
<1>18. Sent'
  <2>1. Started(Running)' = s
    BY <1>4, <1>5, <1>16
  <2>2. QED BY <1>3, <1>4, <2>1 DEF Sent
<1>19. Fresh' /\ New' /\ Loaded'
  BY <1>1, <1>8 DEF Fresh, New, Loaded
<1>20. Remembers'
  <2> SUFFICES ASSUME NEW u \in Tracks, NEW g \in FramesOf(page) \union {None},
                      NEW v \in Rects \union Types \union {None}, Wants(Ids, opened, u, g, v)
               PROVE  Back(Ids, undoStack, Due', Later, api, u, g, v)
    BY <1>10, <1>11 DEF Remembers
  <2>1. Back(Ids, undoStack, Due, Later, api, u, g, v)
    BY <1>1, <1>11 DEF Remembers
  <2>2. CASE j.kind \in Undos
    <3>1. Back(Ids, undoStack, j, Later, api, u, g, v)
      BY <1>10, <2>1, <2>2
    <3>2. Back(Ids, undoStack, s, Later, api, u, g, v)
      BY <1>16, <2>2, <3>1, BackAs
    <3>3. QED BY <1>10, <2>2, <3>2
  <2>3. CASE j.kind \notin Undos
    BY <1>10, <2>1, <2>3
  <2>4. QED BY <2>2, <2>3
<1>21. QED BY <1>11, <1>13, <1>14, <1>15, <1>17, <1>18, <1>19, <1>20 DEF Undoable

(* Send, also to the backend in memory. *)
LEMMA SendUndoable ==
  ASSUME Sane, Send
  PROVE  Undoable'
<1> DEFINE j == Started(Running)
<1>1. /\ queue # <<>> /\ flight.at = "idle"
      /\ UNCHANGED <<api, page, remap, undoStack, opened>>
  BY DEF Send, storeVars, ghostVars
<1>2. flight = Idle /\ Running \in Good
  BY <1>1, Queued DEF Sane, IInv, InFlight
<1>3. backend = "api"
  BY NoGoldClip DEF Sane, Apart, BackendFor, Clean
<1>4. CASE Running.kind = "recreate" /\ Running.boxes = NoBoxes
  <2>1. Filled(Running.boxes) = {}
    BY <1>4 DEF Filled, NoBoxes
  <2>2. j = Running
    BY <1>4, <2>1 DEF Started
  <2>3. queue' = Tail(queue) /\ flight' = flight
    BY <1>4, <2>2 DEF Send
  <2>4. QED BY <1>1, <1>2, <1>4, <2>3, SkippedUndoable
<1>5. CASE ~(Running.kind = "recreate" /\ Running.boxes = NoBoxes)
  <2>1. j.kind = Running.kind /\ j.boxes = Running.boxes
    BY <1>2, <1>5, StartedSame
  <2>2. queue' = <<j>> \o Tail(queue) /\ flight' = [Idle EXCEPT !.at = "sent"]
    BY <1>3, <1>5, <2>1 DEF Send
  <2>3. flight'.at = "sent"
    BY <2>2 DEF Idle
  <2>4. QED BY <1>1, <1>2, <1>5, <2>2, <2>3, SentUndoable
<1>6. QED BY <1>4, <1>5

(***************************************************************************)
(* A request is served.                                                     *)
(***************************************************************************)
(* Ids are given out once: whose track was deleted never has one again.      *)
LEMMA NextGrows ==
  ASSUME NEW rows \in Rows, NEW now, NEW j, NEW a, Effect(rows, now, j, a)
  PROVE  /\ now.next \in {rows.next, rows.next + 1} /\ rows.next \in Nat
         /\ \A t \in Nat : t < rows.next => t < now.next
<1>1. rows.next \in Nat
  BY RowsShape
<1>2. now.next \in {rows.next, rows.next + 1}
  BY DEF Effect
<1>3. QED BY <1>1, <1>2

(* A track that was deleted is not made again under its id. *)
LEMMA DeadStays ==
  ASSUME NEW rows \in Rows, NEW now, NEW j, NEW a, Effect(rows, now, j, a),
         NEW t \in Tracks, t < rows.next, rows.track[t] = None
  PROVE  now.track[t] = None /\ t < now.next
<1>1. t < now.next
  BY NextGrows DEF Tracks
<1>2. CASE ~a.ok
  <2>1. now = rows
    BY <1>2 DEF Effect
  <2>2. QED BY <1>1, <2>1
<1>3. CASE a.ok
  <2>1. now.track[t] = TrackSet(j, a, t, rows.track[t])
    BY <1>3 DEF Effect, Applied
  <2>2. ~Brings(j, a, t)
    <3>1. rows.next \in Nat /\ t \in Nat
      BY RowsShape DEF Tracks
    <3>2. QED BY <1>3, <3>1 DEF Effect, Brings
  <2>3. QED BY <1>1, <2>1, <2>2 DEF TrackSet
<1>4. QED BY <1>2, <1>3

(* What undoes an edit is about tracks there were, or the one that it made.   *)
LEMMA AboutAlive ==
  ASSUME NEW rows \in Rows, Sound(rows), NEW now, NEW j \in Good, NEW a \in Answer,
         Effect(rows, now, j, a), a.ok, Finds(rows, j, a),
         j.kind # "uncopy", NEW t \in About(After(j, a))
  PROVE  /\ t \in Tracks /\ t < now.next
         /\ t = rows.next \/ rows.track[t] # None
<1> DEFINE k == After(j, a)
<1>1. rows.next \in Nat
  BY RowsShape
<1>2. \A u \in Tracks : rows.track[u] # None => u < rows.next
  BY <1>1 DEF Sound, Unused, Tracks
<1>3. \A u \in Tracks, f \in Frames : rows.box[u][f] # None => rows.track[u] # None
  BY DEF Sound, InClip
<1>4. j.kind \in {"draw", "recreate"} => a.track = rows.next /\ a.track \in Tracks
                                         /\ now.next = rows.next + 1
  BY DEF Effect
<1>5. t \in Tracks /\ ((t = rows.next /\ now.next = rows.next + 1) \/ rows.track[t] # None)
  <2>1. CASE j.kind \in {"draw", "recreate"}
    <3>1. k.kind \in {"undraw", "refill"} /\ k.track = a.track
      BY <2>1, AfterShape
    <3> HIDE DEF k
    <3>2. t = a.track
      BY <3>1 DEF About, k
    <3>3. QED BY <1>4, <2>1, <3>2
  <2>2. CASE j.kind \in {"move", "deleteTrack", "refill"}
    <3>1. k.kind \in {"remove", "putBack", "recreate", "refill"} /\ k.track = j.track
      BY <2>2, AfterShape
    <3> HIDE DEF k
    <3>2. t = j.track /\ t \in Tracks
      BY <3>1 DEF About, k
    <3>3. QED BY <2>2, <3>2 DEF Finds
  <2>3. CASE j.kind = "deleteBox"
    <3>1. k.kind \in {"putBack", "recreate"} /\ k.track = j.track
      BY <2>3, AfterShape
    <3> HIDE DEF k
    <3>2. t = j.track /\ t \in Tracks /\ j.frame \in Frames
      BY <2>3, <3>1 DEF About, k, Good, JobOK
    <3>3. QED BY <1>3, <2>3, <3>2 DEF Finds
  <2>4. CASE j.kind = "update"
    <3>1. k.kind = "rename" /\ k.track = j.track
      BY <2>4, AfterShape
    <3> HIDE DEF k
    <3>2. t = j.track /\ t \in Tracks
      BY <3>1 DEF About, k
    <3>3. QED BY <2>4, <3>2 DEF Effect
  <2>5. CASE j.kind = "copy"
    <3>1. k.kind = "uncopy" /\ k.tracks = Made(a)
      BY <2>5, AfterShape
    <3> HIDE DEF k
    <3>2. t \in Tracks /\ a.made[t] # None
      BY <3>1 DEF About, k, Made
    <3>3. PICK f \in Frames : rows.box[t][f] # None
      BY <2>5, <3>2 DEF Finds
    <3>4. QED BY <1>3, <3>2, <3>3
  <2>6. CASE j.kind \in {"mark", "undraw", "putBack", "remove", "rename", "unmark"}
    <3>1. k = Blank("unmark")
      BY <2>6 DEF After
    <3> HIDE DEF k
    <3>2. k.track = None /\ k.kind = "unmark"
      BY <3>1 DEF Blank
    <3>3. About(k) = {}
      BY <3>2, NoneAssumption DEF About, Tracks
    <3>4. QED BY <3>3 DEF k
  <2>7. QED BY <2>1, <2>2, <2>3, <2>4, <2>5, <2>6, JobShape DEF Good, Edits, Undos
<1>6. t < now.next
  <2>1. \A u \in Nat : u < rows.next => u < now.next
    BY NextGrows
  <2>2. QED BY <1>1, <1>2, <1>5, <2>1 DEF Tracks
<1>7. QED BY <1>5, <1>6

(* What is left of copying back is about what it was about. *)
LEMMA AboutLeft ==
  ASSUME NEW j \in Good, NEW a \in Answer, j.kind = "uncopy"
  PROVE  /\ After(j, a).kind = "uncopy" /\ After(j, a).frame = j.frame
         /\ About(After(j, a)) \subseteq About(j)
         /\ Least(j.tracks) \in Tracks
<1> DEFINE k == After(j, a)
<1>1. k.kind = "uncopy" /\ k.tracks = j.tracks \ {Least(j.tracks)} /\ k.frame = j.frame
  BY AfterShape
<1> HIDE DEF k
<1>2. j.tracks \subseteq Tracks /\ j.tracks # {}
  BY JobShape DEF Good, JobOK
<1>3. Least(j.tracks) \in j.tracks
  BY <1>2, LeastIn DEF Tracks
<1>4. QED BY <1>1, <1>2, <1>3 DEF About, k

(* What is known of a request that the API accepts. *)
LEMMA ServedKnows ==
  ASSUME Sane, IInv', Serve, Reply'.ok
  PROVE  LET j == Running
             a == Reply'
         IN /\ queue # <<>> /\ j \in Good /\ 1 \in DOMAIN queue /\ j = queue[1]
            /\ queue \in Seq(Good) /\ undoStack \in Seq(Good)
            /\ j.kind \in Edits \union Undos
            /\ api \in Rows /\ Sound(api) /\ a \in Answer
            /\ Effect(api, api', j, a) /\ Applied(api, api', j, a) /\ Finds(api, j, a)
            /\ ~Landed /\ Landed' /\ flight'.at # "sent" /\ Running' = j
            /\ Owing' /\ (Owing <=> j.kind \in Undos)
            /\ Due' = After(j, a) /\ Later' = Tail(queue)
            /\ OneEnd' /\ Ids' = Ids
            /\ UNCHANGED <<page, undoStack, queue, remap, opened>>
<1> DEFINE done == Handle(api, RequestOf(Running))
           j == Running
           a == done.answer
<1>1. /\ api' = done.rows /\ flight' = [flight EXCEPT !.at = "answered", !.answer = a]
      /\ flight.at = "sent" /\ ~Landed
      /\ UNCHANGED <<page, undoStack, queue, remap, opened>>
  BY DEF Serve, storeVars, Landed
<1>2. /\ queue # <<>> /\ j \in Good /\ Complete(RequestOf(j))
      /\ api \in Rows /\ Sound(api) /\ IInv
  BY <1>1, InTransit, FlightShape DEF Sane
<1>3. j.kind \in {"recreate", "refill"} => j.at \in Rects /\ j.frame \in Frames
  BY <1>1, <1>2 DEF IInv, InFlight
<1>4. Effect(api, api', j, a)
  BY <1>1, <1>2, <1>3, HandleDoes
<1>5. a.ok => Finds(api, j, a)
  BY <1>2, <1>3, HandleFinds
<1>6. a \in Answer
  BY <1>2, HandleKeeps DEF Kept
<1> HIDE DEF done, a
<1>7. flight'.at = "answered" /\ Reply' = a
  BY <1>1, FlightShape DEF Sane, Flight, Reply
<1>8. a.ok
  BY <1>7
<1>9. Applied(api, api', j, a)
  BY <1>4, <1>8 DEF Effect
<1>10. Landed' /\ flight'.at # "sent" /\ Running' = j
  BY <1>1, <1>7 DEF Landed, Running
<1>11. 1 \in DOMAIN queue /\ j = queue[1] /\ queue \in Seq(Good) /\ undoStack \in Seq(Good)
       /\ j.kind \in Edits \union Undos
  BY <1>2, Queued, JobShape DEF Running, IInv, Pending, Good
<1>12. Owing' /\ (Owing <=> j.kind \in Undos)
  BY <1>1, <1>2, <1>10 DEF Owing
<1>13. Due' = After(j, a) /\ Later' = Tail(queue)
  BY <1>1, <1>7, <1>10, <1>12 DEF Due, Later
<1>14. OneEnd' /\ Ids' = Ids
  BY <1>1, RemapSame DEF Sane, Undoable
<1>15. QED BY <1>1, <1>2, <1>4, <1>5, <1>6, <1>7, <1>8, <1>9, <1>10, <1>11, <1>12, <1>13, <1>14

(* What is gone stays gone. *)
LEMMA ServedDead ==
  ASSUME Sane, IInv', Serve, Reply'.ok
  PROVE  /\ \A t : Dead(t) => Dead(t)'
         /\ \A t : Gone(t) => Gone(t)'
<1> DEFINE a == Reply'
<1>1. /\ api \in Rows /\ Effect(api, api', Running, a)
      /\ UNCHANGED remap
  BY ServedKnows
<1> HIDE DEF a
<1>2. ASSUME NEW t, Dead(t)
      PROVE  Dead(t)'
  <2>1. t \in Tracks /\ t < api.next /\ api.track[t] = None
    BY <1>2 DEF Dead
  <2>2. api'.track[t] = None /\ t < api'.next
    BY <1>1, <2>1, DeadStays
  <2>3. QED BY <2>1, <2>2 DEF Dead
<1>3. QED BY <1>1, <1>2 DEF Gone

(* Only a delete is undone by making its track again; the track was there.   *)
LEMMA ServedDeletes ==
  ASSUME Sane, IInv', Serve, Reply'.ok, After(Running, Reply').kind = "recreate"
  PROVE  /\ Running.kind \in Edits /\ Running.track \in Tracks /\ remap[Running.track] = None
         /\ api.track[Running.track] # None /\ Gone(Running.track)'
<1> DEFINE a == Reply'
           j == Running
           k == After(j, a)
<1>1. /\ queue # <<>> /\ j \in Good /\ 1 \in DOMAIN queue /\ j = queue[1]
      /\ j.kind \in Edits \union Undos
      /\ api \in Rows /\ Sound(api) /\ a \in Answer
      /\ Effect(api, api', j, a) /\ Applied(api, api', j, a) /\ Finds(api, j, a)
      /\ UNCHANGED remap
  BY ServedKnows
<1>2. k.kind = "recreate"
  OBVIOUS
<1> HIDE DEF a, j
<1>3. j.kind = "deleteTrack" \/ (j.kind = "deleteBox" /\ a.gone)
  BY <1>1, <1>2, AfterShape DEF Edits, Undos
<1> HIDE DEF k
<1>4. j.track \in Tracks /\ remap[j.track] = None
  BY <1>1, <1>3 DEF Sane, Undoable, Direct, Named
<1>5. api.track[j.track] # None
  <2>1. CASE j.kind = "deleteTrack"
    BY <1>1, <2>1 DEF Finds
  <2>2. CASE j.kind = "deleteBox"
    <3>1. api.box[j.track][j.frame] # None /\ j.frame \in Frames
      BY <1>1, <2>2 DEF Finds, Good, JobOK
    <3>2. QED BY <1>1, <1>4, <3>1 DEF Sound, InClip
  <2>3. QED BY <1>3, <2>1, <2>2
<1>6. j.track < api'.next
  <2>1. api.next \in Nat /\ j.track \in Nat
    BY <1>1, <1>4, RowsShape DEF Tracks
  <2>2. j.track < api.next
    BY <1>1, <1>4, <1>5, <2>1 DEF Sound, Unused
  <2>3. QED BY <1>1, <2>1, <2>2, NextGrows
<1>7. api'.track[j.track] = None
  <2>1. api'.track[j.track] = TrackSet(j, a, j.track, api.track[j.track])
    BY <1>1, <1>4 DEF Applied
  <2>2. Drops(j, a, j.track) /\ ~Brings(j, a, j.track)
    BY <1>3 DEF Drops, Brings
  <2>3. QED BY <2>1, <2>2 DEF TrackSet
<1>8. Gone(j.track)'
  <2>1. UNCHANGED j
    BY ServedKnows DEF j
  <2>2. QED BY <1>1, <1>4, <1>6, <1>7, <2>1 DEF Gone, Dead
<1>9. QED BY <1>3, <1>4, <1>5, <1>8 DEF j, Edits

(* What makes a track again is about one that is gone, once. *)
LEMMA ServedRecreates ==
  ASSUME Sane, IInv', Serve, Reply'.ok
  PROVE  Recreates'
<1> DEFINE a == Reply'
           j == Running
<1>1. /\ j.kind \in Edits \union Undos /\ (Owing <=> j.kind \in Undos)
      /\ Owing' /\ Running' = j /\ Due' = After(j, a)
      /\ UNCHANGED <<undoStack, remap>>
  BY ServedKnows
<1>2. \A t : Gone(t) => Gone(t)'
  BY ServedDead
<1>3. Recreates
  BY DEF Sane, Undoable
<1>4. CASE Reviving' /\ j.kind = "recreate"
  <2>1. Reviving
    BY <1>1, <1>4 DEF Reviving, Undos
  <2>2. Gone(j.track)'
    <3>1. Gone(j.track)
      BY <1>3, <2>1 DEF Recreates
    <3>2. PICK t : t = j.track
      OBVIOUS
    <3>3. Gone(t)'
      BY <1>2, <3>1, <3>2
    <3>4. t = j.track'
      BY <1>1, <3>2
    <3>5. QED BY <3>3, <3>4 DEF Gone, Dead
  <2>3. \A i \in DOMAIN undoStack : undoStack[i].kind = "recreate" => undoStack[i].track # j.track
    BY <1>3, <2>1 DEF Recreates
  <2> HIDE DEF j
  <2>4. Running'.track = j.track
    BY <1>1
  <2>5. Gone(Running.track)'
    BY <1>1, <2>2 DEF Gone, Dead, j
  <2>6. QED BY <1>1, <1>2, <1>3, <2>3, <2>4, <2>5 DEF Recreates, Gone, Dead
<1>5. CASE Reviving' /\ After(j, a).kind = "recreate"
  <2>1. api.track[j.track] # None /\ Gone(j.track)'
    BY <1>5, ServedDeletes
  <2>2. \A i \in DOMAIN undoStack : undoStack[i].kind = "recreate" => undoStack[i].track # j.track
    BY <1>3, <2>1 DEF Recreates, Gone, Dead
  <2> HIDE DEF j
  <2>3. Running'.track = j.track
    BY <1>1
  <2>4. Gone(Running.track)'
    BY <1>1, <2>1 DEF Gone, Dead, j
  <2>5. QED BY <1>1, <1>2, <1>3, <2>2, <2>3, <2>4 DEF Recreates, Gone, Dead
<1>6. CASE ~Reviving'
  BY <1>1, <1>2, <1>3, <1>6 DEF Recreates, Gone, Dead
<1>7. QED BY <1>1, <1>4, <1>5, <1>6 DEF Reviving

(* What undoes the edit is about tracks under the id they have. *)
LEMMA ServedFresh ==
  ASSUME Sane, IInv', Serve, Reply'.ok
  PROVE  /\ Running.kind # "uncopy" =>
              \A t \in About(After(Running, Reply')) : t \in Tracks /\ remap[t] = None /\ Ids[t] = t
         /\ Fresh' /\ New'
<1> DEFINE a == Reply'
           j == Running
           k == After(j, a)
<1>1. /\ j \in Good /\ api \in Rows /\ Sound(api) /\ a \in Answer
      /\ Effect(api, api', j, a) /\ Finds(api, j, a) /\ a.ok
      /\ Landed' /\ Running' = j /\ Due' = k /\ Owing' /\ (Owing <=> j.kind \in Undos)
      /\ UNCHANGED remap
  BY ServedKnows
<1>2. ASSUME NEW t \in Tracks, t = api.next \/ api.track[t] # None
      PROVE  remap[t] = None
  <2>1. ~Dead(t)
    BY <1>1, <1>2, RowsShape DEF Dead
  <2>2. QED BY <2>1 DEF Sane, Undoable, Born
<1> HIDE DEF a, k, j
<1>3. ASSUME j.kind # "uncopy", NEW t \in About(k)
      PROVE  t \in Tracks /\ remap[t] = None /\ Ids[t] = t
  <2>1. t \in Tracks /\ (t = api.next \/ api.track[t] # None)
    BY <1>1, <1>3, AboutAlive DEF k
  <2>2. remap[t] = None
    BY <1>2, <2>1
  <2>3. Ids[t] = t
    BY <2>1, <2>2, IdsShape DEF Sane, Undoable
  <2>4. QED BY <2>1, <2>2, <2>3
<1>4. Fresh'
  BY <1>1, <1>3 DEF Fresh
<1>5. New'
  <2>1. CASE j.kind = "recreate"
    <3>1. a.track = api.next /\ a.track \in Tracks
      BY <1>1, <2>1 DEF Effect
    <3>2. Reviving
      BY <1>1, <2>1 DEF Reviving, Undos, j
    <3>3. j.track < api.next /\ j.track \in Tracks
      BY <3>2 DEF Sane, Undoable, Recreates, Gone, Dead, j
    <3>4. a.track # j.track
      BY <3>1, <3>3 DEF Tracks
    <3>5. Reply'.track \in Tracks /\ Reply'.track # Running'.track
      BY <1>1, <3>1, <3>4 DEF a
    <3>6. QED BY <3>5 DEF New
  <2>2. CASE j.kind # "recreate"
    BY <1>1, <2>2 DEF New
  <2>3. QED BY <2>1, <2>2
<1>6. QED BY <1>3, <1>4, <1>5 DEF a, j, k

(* What is to be undone is about tracks that were made. *)
LEMMA ServedBorn ==
  ASSUME Sane, IInv', Serve, Reply'.ok
  PROVE  Born'
<1> DEFINE a == Reply'
           j == Running
           k == After(j, a)
<1>1. /\ j \in Good /\ api \in Rows /\ Sound(api) /\ a \in Answer
      /\ j.kind \in Edits \union Undos /\ undoStack \in Seq(Good)
      /\ Effect(api, api', j, a) /\ Finds(api, j, a) /\ a.ok
      /\ ~Landed /\ Due' = k /\ (Owing <=> j.kind \in Undos)
      /\ UNCHANGED <<remap, undoStack, opened>>
  BY ServedKnows
<1>2. \A t \in Tracks : t < api.next => t < api'.next
  BY <1>1, NextGrows DEF Tracks
<1>3. Born
  BY DEF Sane, Undoable
<1>4. \A t \in Had(opened) : t < api'.next
  BY <1>2, <1>3 DEF Born, Had
<1>5. \A t \in Tracks : remap[t] # None => Dead(t)' /\ remap[t] < api'.next
  <2>1. remap \in [Tracks -> Tracks \union {None}]
    BY DEF Sane, IInv, TypeOK
  <2>2. QED BY <1>2, <1>3, <2>1, ServedDead DEF Born
<1>6. ASSUME NEW e \in Good, Able(e)
      PROVE  Able(e)'
  <2>1. About(e) \subseteq Tracks
    BY AboutTracks
  <2>2. QED BY <1>2, <1>6, <2>1 DEF Able
<1>7. \A i \in DOMAIN undoStack : Able(undoStack[i])'
  <2>1. ASSUME NEW i \in DOMAIN undoStack, NEW e, e = undoStack[i]
        PROVE  Able(e)'
    BY <1>1, <1>3, <1>6, <2>1, ElementOfSeq DEF Born
  <2>2. QED BY <1>1, <2>1 DEF Able
<1> HIDE DEF a, j, k
<1>8. \A t \in About(k) : t < api'.next
  <2>1. CASE j.kind = "uncopy"
    <3>1. Due = j
      BY <1>1, <2>1 DEF Due, Undos, j
    <3>2. \A t \in About(j) : t < api.next
      BY <1>3, <3>1 DEF Born, Able
    <3>3. About(k) \subseteq About(j)
      BY <1>1, <2>1, AboutLeft DEF k
    <3>4. QED BY <1>1, <1>2, <3>2, <3>3, AboutTracks
  <2>2. CASE j.kind # "uncopy"
    BY <1>1, <2>2, AboutAlive DEF k
  <2>3. QED BY <2>1, <2>2
<1>9. k.kind \in {"remove", "uncopy"} => k.frame \in Frames
  <2>1. CASE j.kind = "uncopy"
    <3>1. Due = j
      BY <1>1, <2>1 DEF Due, Undos, j
    <3>2. j.frame \in Frames
      BY <1>3, <2>1, <3>1 DEF Born, Able
    <3>3. QED BY <1>1, <2>1, <3>2, AboutLeft DEF k
  <2>2. CASE j.kind \in {"move", "copy"}
    BY <1>1, <2>2, AfterShape DEF k, Good, JobOK
  <2>3. CASE j.kind \notin {"uncopy", "move", "copy"}
    <3>1. k.kind \notin {"remove", "uncopy"}
      <4>1. CASE j.kind \in {"draw", "deleteBox", "deleteTrack", "update", "recreate", "refill"}
        BY <1>1, <4>1, AfterShape DEF k
      <4>2. CASE j.kind \in {"mark", "undraw", "putBack", "remove", "rename", "unmark"}
        <5>1. k = Blank("unmark")
          BY <4>2 DEF k, After
        <5>2. QED BY <5>1 DEF Blank
      <4>3. QED BY <1>1, <2>3, <4>1, <4>2 DEF Edits, Undos
    <3>2. QED BY <3>1
  <2>4. QED BY <2>1, <2>2, <2>3
<1>10. k.kind = "undraw" => k.track \in Tracks
  <2>1. CASE j.kind = "draw"
    BY <1>1, <2>1, AfterShape DEF k, Effect
  <2>2. CASE j.kind # "draw"
    <3>1. k.kind # "undraw"
      <4>1. CASE j.kind \in {"move", "deleteBox", "deleteTrack", "update", "copy", "recreate",
                             "refill", "uncopy"}
        BY <1>1, <4>1, AfterShape DEF k
      <4>2. CASE j.kind \in {"mark", "undraw", "putBack", "remove", "rename", "unmark"}
        <5>1. k = Blank("unmark")
          BY <4>2 DEF k, After
        <5>2. QED BY <5>1 DEF Blank
      <4>3. QED BY <1>1, <2>2, <4>1, <4>2 DEF Edits, Undos
    <3>2. QED BY <3>1
  <2>3. QED BY <2>1, <2>2
<1>11. Able(Due)'
  BY <1>1, <1>8, <1>9, <1>10 DEF Able
<1>12. QED BY <1>1, <1>4, <1>5, <1>7, <1>11 DEF Born, Dead

(* An edit changes what is saved and owes it to its undo. *)
LEMMA EditRemembers ==
  ASSUME Sane, IInv', Clean', Serve, Reply'.ok, Running.kind \in Edits
  PROVE  Remembers'
<1> DEFINE a == Reply'
           j == Running
           k == After(j, a)
           h == Ids
<1>1. /\ queue # <<>> /\ j \in Good /\ 1 \in DOMAIN queue /\ j = queue[1]
      /\ queue \in Seq(Good) /\ api \in Rows /\ a \in Answer
      /\ Effect(api, api', j, a) /\ Applied(api, api', j, a) /\ Finds(api, j, a)
      /\ ~Landed /\ Running' = j /\ Ids' = Ids
      /\ (Owing <=> j.kind \in Undos)
      /\ Due' = k /\ Later' = Tail(queue)
      /\ UNCHANGED <<page, undoStack, opened>>
  BY ServedKnows
<1>2. j.kind \in Edits /\ j.kind \notin Undos /\ j.kind # "recreate" /\ j.kind # "uncopy"
  BY DEF Edits, Undos
<1>3. Heir = h /\ Due = Spent /\ Later = queue
  BY <1>1, <1>2 DEF Heir, Due, Later
<1>4. Heir' = h
  BY <1>1, <1>2 DEF Heir
<1>5. \A t \in About(k) : h[t] = t
  BY <1>2, ServedFresh
<1>6. j.kind = "draw" => a.track \in Tracks /\ a.track = api.next
  BY <1>1, ServedKnows DEF Effect
<1>7. j.kind \in {"deleteTrack", "update"} => j.track \in Tracks
  BY <1>1 DEF Sane, Undoable, Direct, Named
<1>8. \A t \in Had(opened) : h[t] < api.next
  BY ResolveBorn, IdsShape DEF Sane, Undoable, Born, Had
<1>9. FramesOf(page) \subseteq Frames
  BY NoGoldClip DEF Clean, Sane, FramesOf
<1> HIDE DEF a, j, k, h
<1>10. ASSUME NEW u \in Tracks, NEW g \in FramesOf(page) \union {None},
             NEW v \in Rects \union Types \union {None}, Wants(h, opened, u, g, v)
       PROVE  Back(h, undoStack, k, Tail(queue), api', u, g, v)
  <2>1. g \in Spot
    BY <1>9 DEF Spot
  <2>2. Back(h, undoStack, Spent, queue, api, u, g, v)
    BY <1>3, <1>10 DEF Sane, Undoable, Remembers
  <2>3. ~Touches(h, Spent, u, g)
    BY SpentIs
  <2>4. Paid(api, api', h, j, a, u, g)
    BY <1>1, <1>2, <1>5, <1>6, <1>7, <2>1, EditsPay DEF k
  <2>5. j.kind = "draw" /\ u = a.track => v = None
    <3>1. SUFFICES ASSUME j.kind = "draw", u = a.track PROVE v = None
      OBVIOUS
    <3>2. api.next \in Nat
      BY <1>1, RowsShape
    <3>3. \A t \in Had(opened) : h[t] # u
      BY <1>6, <1>8, <3>1, <3>2
    <3>4. QED BY <1>10, <3>3 DEF Wants
  <2>6. Back(h, undoStack, After(queue[1], a), Tail(queue), api', u, g, v)
    <3>1. Paid(api, api', h, queue[1], a, u, g) /\ (queue[1].kind = "draw" /\ u = a.track => v = None)
      BY <1>1, <2>4, <2>5
    <3>2. QED BY <1>1, <2>1, <2>2, <2>3, <3>1, BackEdit
  <2>7. QED BY <1>1, <2>6 DEF k
<1>11. QED BY <1>1, <1>4, <1>10 DEF Remembers, FramesOf

(* An undo that is on its way was made out with the ids there are. *)
LEMMA ServedUndo ==
  ASSUME Sane, IInv', Serve, Reply'.ok, Running.kind \in Undos
  PROVE  LET j == Running
         IN /\ Due = j /\ Later = <<>> /\ Tail(queue) = <<>> /\ Heir = Ids
            /\ j.kind \notin {"uncopy", "unmark", "recreate"} => \A t \in About(j) : Ids[t] = t
            /\ j.kind = "uncopy" => j.track = Ids[Least(j.tracks)]
            /\ j.kind \in {"remove", "uncopy"} => j.frame \in Frames
            /\ j.kind = "refill" => j.track \in Tracks
            /\ j.kind \in {"recreate", "refill"} =>
                 /\ j.frame \in Frames /\ j.boxes[j.frame] # None
                 /\ j.at = j.boxes[j.frame].at
<1> DEFINE j == Running
           s == Started(j)
<1>1. /\ queue # <<>> /\ j \in Good /\ 1 \in DOMAIN queue /\ j = queue[1]
      /\ queue \in Seq(Good) /\ ~Landed /\ (Owing <=> j.kind \in Undos)
  BY ServedKnows
<1>2. Due = j /\ Later = Tail(queue) /\ Heir = Ids
  BY <1>1 DEF Due, Later, Heir
<1>3. Tail(queue) = <<>>
  <2>1. Len(queue) = 1
    BY <1>1 DEF Sane, Undoable, UndoAlone
  <2>2. Tail(queue) \in Seq(Good) /\ DOMAIN Tail(queue) = 1..(Len(queue) - 1)
    BY <1>1, RestShape
  <2>3. \A i : i \notin DOMAIN Tail(queue)
    BY <2>1, <2>2
  <2>4. QED BY <2>2, <2>3, EmptySeq
<1>4. j = s /\ (j.kind = "recreate" => j.boxes # NoBoxes)
  BY DEF Serve, Sane, Undoable, Sent
<1> HIDE DEF s, j
<1>5. /\ j.kind \in Looked => s.track = Resolve(j.track)
      /\ j.kind = "uncopy" => s.track = Resolve(Least(j.tracks))
      /\ j.kind \in {"recreate", "refill"} =>
           /\ s.at = j.boxes[s.frame].at /\ s.frame \in Frames /\ j.boxes[s.frame] # None
  BY <1>1, <1>4, StartedSame DEF s
<1>6. \A t \in Tracks : Ids[t] = Resolve(t) /\ (remap[t] = None => Resolve(t) = t)
  BY IdsShape DEF Sane, Undoable
<1>7. j.kind = "refill" => j.track \in Tracks /\ remap[j.track] = None
  BY <1>1 DEF Sane, Undoable, Direct, Named
<1>8. ASSUME j.kind \notin {"uncopy", "unmark", "recreate"}, NEW t \in About(j)
      PROVE  Ids[t] = t
  <2>1. t = j.track /\ t \in Tracks
    BY <1>8 DEF About
  <2>2. CASE j.kind \in Looked
    BY <1>4, <1>5, <1>6, <2>1, <2>2
  <2>3. CASE j.kind = "refill"
    BY <1>6, <1>7, <2>1, <2>3
  <2>4. QED BY <1>8, <2>2, <2>3 DEF Undos, Looked, j
<1>9. j.kind = "uncopy" => j.track = Ids[Least(j.tracks)]
  BY <1>1, <1>4, <1>5, <1>6, AboutLeft, ServedKnows
<1>10. j.kind \in {"remove", "uncopy"} => j.frame \in Frames
  BY <1>2 DEF Sane, Undoable, Born, Able
<1>11. QED BY <1>2, <1>3, <1>4, <1>5, <1>7, <1>8, <1>9, <1>10 DEF j

(* An undo puts back what it says. *)
LEMMA UndoRemembers ==
  ASSUME Sane, IInv', Clean', Serve, Reply'.ok, Running.kind \in Undos, Running.kind # "recreate"
  PROVE  Remembers'
<1> DEFINE a == Reply'
           j == Running
           k == After(j, a)
           h == Ids
<1>1. /\ j \in Good /\ api \in Rows /\ a \in Answer
      /\ Applied(api, api', j, a) /\ Finds(api, j, a)
      /\ Running' = j /\ Ids' = Ids
      /\ Due' = k /\ Later' = Tail(queue)
      /\ UNCHANGED <<page, undoStack, opened>>
  BY ServedKnows
<1>2. /\ Due = j /\ Later = <<>> /\ Tail(queue) = <<>> /\ Heir = h
      /\ j.kind \notin {"uncopy", "unmark"} => \A t \in About(j) : h[t] = t
      /\ j.kind = "uncopy" => j.track = h[Least(j.tracks)]
      /\ j.kind \in {"remove", "uncopy"} => j.frame \in Frames
      /\ j.kind = "refill" => /\ j.track \in Tracks /\ j.frame \in Frames
                              /\ j.boxes[j.frame] # None /\ j.at = j.boxes[j.frame].at
  BY ServedUndo
<1>3. Heir' = h
  BY <1>1 DEF Heir
<1>4. FramesOf(page) \subseteq Frames
  BY NoGoldClip DEF Clean, Sane, FramesOf
<1>5. h \in [Tracks -> Tracks]
  BY IdsShape DEF Sane, Undoable
<1>6. j.kind \in Undos \ {"recreate"}
  OBVIOUS
<1> HIDE DEF a, j, k, h
<1>7. ASSUME NEW u \in Tracks, NEW g \in FramesOf(page) \union {None},
             NEW v \in Rects \union Types \union {None}, Wants(h, opened, u, g, v)
      PROVE  Back(h, undoStack, k, <<>>, api', u, g, v)
  <2>1. g \in Spot
    BY <1>4 DEF Spot
  <2>2. Back(h, undoStack, j, <<>>, api, u, g, v)
    BY <1>2, <1>7 DEF Sane, Undoable, Remembers
  <2>3. UndoPaid(api, api', h, j, a, u, g)
    BY <1>1, <1>2, <1>5, <1>6, <2>1, UndosPay
  <2>4. QED BY <2>2, <2>3, BackUndo DEF k
<1>8. QED BY <1>1, <1>2, <1>3, <1>7 DEF Remembers, FramesOf

(* Making a track again moves what is to come back to its new id. *)
LEMMA RecreateRemembers ==
  ASSUME Sane, IInv', Clean', Serve, Reply'.ok, Running.kind = "recreate"
  PROVE  Remembers'
<1> DEFINE a == Reply'
           j == Running
           k == After(j, a)
           h == Ids
           u0 == j.track
           n == a.track
<1>1. /\ j \in Good /\ api \in Rows /\ Sound(api) /\ a \in Answer
      /\ undoStack \in Seq(Good) /\ (Owing <=> j.kind \in Undos)
      /\ Effect(api, api', j, a) /\ Applied(api, api', j, a) /\ Finds(api, j, a)
      /\ Landed' /\ Running' = j /\ Ids' = Ids /\ a.ok
      /\ Due' = k /\ Later' = Tail(queue)
      /\ UNCHANGED <<page, undoStack, opened>>
  BY ServedKnows
<1>2. /\ Due = j /\ Later = <<>> /\ Tail(queue) = <<>> /\ Heir = h
      /\ j.frame \in Frames /\ j.boxes[j.frame] # None /\ j.at = j.boxes[j.frame].at
  BY ServedUndo DEF Undos
<1>3. Heir' = Reborn(h, u0, n)
  BY <1>1 DEF Heir
<1>4. FramesOf(page) \subseteq Frames
  BY NoGoldClip DEF Clean, Sane, FramesOf
<1>5. h \in [Tracks -> Tracks]
  BY IdsShape DEF Sane, Undoable
<1>6. j.kind = "recreate" /\ u0 = j.track /\ n = a.track
  OBVIOUS
<1>7. \A t \in Tracks : t < api.next => h[t] < api.next
  BY ResolveBorn, IdsShape DEF Sane, Undoable
<1>8. \A t \in Tracks : remap[t] = None => h[t] = t
  BY IdsShape DEF Sane, Undoable
<1> HIDE DEF a, j, k, h, u0, n
<1>9. n = api.next /\ n \in Tracks
  BY <1>1, <1>6 DEF Effect
<1>10. u0 \in Tracks /\ u0 < api.next /\ api.track[u0] = None /\ remap[u0] = None
  <2>1. Reviving
    BY <1>1, <1>6 DEF Reviving, Undos, j
  <2>2. QED BY <1>6, <2>1 DEF Sane, Undoable, Recreates, Gone, Dead, j
<1>11. n # u0
  BY <1>9, <1>10 DEF Tracks
<1>12. remap[n] = None
  BY <1>9 DEF Sane, Undoable, Born, Dead, Tracks
<1>13. Unborn(h, opened, undoStack, n)
  <2>1. \A t \in Tracks : t < api.next => h[t] # n
    BY <1>5, <1>7, <1>9 DEF Tracks
  <2>2. \A t \in Had(opened) : t \in Tracks /\ t < api.next
    BY DEF Sane, Undoable, Born, Had
  <2>3. \A i \in DOMAIN undoStack : \A t \in About(undoStack[i]) : t \in Tracks /\ t < api.next
    BY <1>1, AboutTracks, ElementOfSeq DEF Sane, Undoable, Born, Able
  <2>4. QED BY <2>1, <2>2, <2>3 DEF Unborn
<1>14. ASSUME NEW u \in Tracks, NEW g \in FramesOf(page) \union {None},
              NEW v \in Rects \union Types \union {None},
              Wants(Reborn(h, u0, n), opened, u, g, v)
       PROVE  Back(Reborn(h, u0, n), undoStack, k, <<>>, api', u, g, v)
  <2>1. g \in Spot
    BY <1>4 DEF Spot
  <2>2. \A w \in Tracks : Wants(h, opened, w, g, v) => Back(h, undoStack, j, <<>>, api, w, g, v)
    BY <1>2, <1>14 DEF Sane, Undoable, Remembers
  <2>3. h[u0] = u0 /\ h[n] = n
    BY <1>8, <1>9, <1>10, <1>12
  <2>4. QED BY <1>1, <1>2, <1>5, <1>6, <1>9, <1>10, <1>11, <1>13, <1>14, <2>1, <2>2, <2>3,
               BackReborn DEF k
<1>15. QED BY <1>1, <1>2, <1>3, <1>14 DEF Remembers, FramesOf

(* Serve *)
LEMMA ServeUndoable ==
  ASSUME Sane, IInv', Clean', Serve
  PROVE  Undoable'
<1>1. CASE Reply'.ok
  <2>1. /\ Running' = Running /\ OneEnd' /\ flight'.at # "sent" /\ Running.kind \in Edits \union Undos
        /\ UNCHANGED <<page, undoStack, queue, remap, opened>>
    BY <1>1, ServedKnows
  <2>2. Recreates' /\ Born' /\ Fresh' /\ New'
    BY <1>1, ServedRecreates, ServedBorn, ServedFresh
  <2>3. Remembers'
    BY <1>1, <2>1, EditRemembers, UndoRemembers, RecreateRemembers
  <2>4. UndoAlone' /\ Direct' /\ Sent' /\ Loaded'
    BY <2>1 DEF Sane, Undoable, UndoAlone, Direct, Named, Sent, Loaded, Had
  <2>5. QED BY <2>1, <2>2, <2>3, <2>4 DEF Undoable
<1>2. CASE ~Reply'.ok
  <2>1. api' = api /\ flight'.at = "answered" /\ ~Landed /\ ~Landed'
        /\ UNCHANGED <<page, undoStack, queue, remap, opened>>
    <3> DEFINE done == Handle(api, RequestOf(Running))
    <3>1. /\ api' = done.rows /\ flight' = [flight EXCEPT !.at = "answered", !.answer = done.answer]
          /\ flight.at = "sent" /\ ~Landed
          /\ UNCHANGED <<page, undoStack, queue, remap, opened>>
      BY DEF Serve, storeVars, Landed
    <3>2. Running \in Good /\ api \in Rows /\ IInv
      BY <3>1, InTransit, FlightShape DEF Sane
    <3>3. Running.kind \in {"recreate", "refill"} => Running.at \in Rects /\ Running.frame \in Frames
      BY <3>1, <3>2 DEF IInv, InFlight
    <3>4. Effect(api, done.rows, Running, done.answer)
      BY <3>2, <3>3, HandleDoes
    <3> HIDE DEF done
    <3>5. flight'.at = "answered" /\ Reply' = done.answer
      BY <3>1, <3>2, FlightShape DEF Flight, Reply
    <3>6. api' = api
      BY <1>2, <3>1, <3>4, <3>5 DEF Effect
    <3>7. QED BY <1>2, <3>1, <3>5, <3>6 DEF Landed
  <2>2. QED BY <2>1, QuietUndoable DEF Sane
<1>3. QED BY <1>1, <1>2

(***************************************************************************)
(* Together.                                                                *)
(***************************************************************************)
UInv == Clean => Undoable

(* The page's steps leave it alone, or load labels. *)
LEMMA PageUndoable ==
  ASSUME IInv, IInv', Full(api), UInv,
         OpenGold \/ \E c \in Clips : Open(c) \/ Read(c) \/ Arrive(c) \/ Evict(c)
  PROVE  UInv'
<1>1. UNCHANGED <<api, queue, flight>>
  BY DEF OpenGold, Open, Read, Arrive, Evict, queueVars
<1>2. CASE UNCHANGED <<storeVars, remap, opened, upset>>
  <2>1. UNCHANGED <<page, undoStack, remap, opened, upset>>
    BY <1>2 DEF storeVars
  <2>2. (Clean' <=> Clean) /\ (Landed' <=> Landed) /\ Reply' = Reply
    BY <1>1, <2>1 DEF Clean, Landed, Reply
  <2>3. Undoable => Undoable'
    BY <1>1, <2>1, <2>2, QuietUndoable
  <2>4. QED BY <2>2, <2>3 DEF UInv
<1>3. CASE \E p \in Pages : \E view : Load(p, view)
  BY <1>1, <1>3, LoadUndoable DEF UInv
<1>4. CASE OpenGold
  BY <1>3, <1>4 DEF OpenGold, Pages
<1>5. ASSUME NEW c \in Clips, Open(c) \/ Read(c) \/ Arrive(c) \/ Evict(c)
      PROVE  UNCHANGED <<storeVars, remap, opened, upset>> \/ \E p \in Pages : \E view : Load(p, view)
  <2>1. c \in Pages
    BY DEF Pages
  <2>2. QED BY <1>5, <2>1 DEF Open, Read, Arrive, Evict, LoadClip, queueVars, ghostVars
<1>6. QED BY <1>2, <1>3, <1>4, <1>5

(* At the start no clip is open. *)
LEMMA InitUndoable == Init => UInv
<1>1. Init => page \notin Clips
  BY NoneAssumption DEF Init
<1>2. QED BY <1>1 DEF UInv, Clean

(* Every step; from a state in doubt only a load leads to one that is not. *)
LEMMA StepUndoable == IInv /\ Apart /\ Faithful /\ Full(api) /\ UInv /\ [Next]_vars => UInv'
<1> SUFFICES ASSUME IInv, Apart, Faithful, Full(api), UInv, [Next]_vars PROVE UInv'
  OBVIOUS
<1>1. IInv'
  BY StepInv
<1>2. CASE OpenGold \/ \E c \in Clips : Open(c) \/ Read(c) \/ Arrive(c) \/ Evict(c)
  BY <1>1, <1>2, PageUndoable
<1>3. Clean => Sane
  BY DEF Clean, UInv, Faithful, Certain, Sane
<1>4. ASSUME page' = page, upset \subseteq upset', Sane /\ Clean' => Undoable'
      PROVE  UInv'
  <2>1. Clean' => Clean
    BY <1>4 DEF Clean
  <2>2. QED BY <1>3, <1>4, <2>1 DEF UInv
<1>5. ASSUME UNCHANGED <<api, page, queue, remap, undoStack, flight, opened, upset>>
      PROVE  UInv'
  <2>1. (Landed' <=> Landed) /\ Reply' = Reply
    BY <1>5 DEF Landed, Reply
  <2>2. Undoable => Undoable'
    BY <1>5, <2>1, QuietUndoable
  <2>3. QED BY <1>4, <1>5, <2>2 DEF Sane
<1>6. CASE Edit
  <2>1. page' = page
    BY <1>6 DEF Edit, MoveBox, DrawBox, DeleteSelected, DeleteWhole, Retype, CopyForward, Mark, Undo,
                storeVars
  <2>2. \E job : Enqueue(job)
    BY <1>6 DEF Edit, MoveBox, DrawBox, Move, DeleteSelected, DeleteWhole, Retype, CopyForward, Mark,
                Undo
  <2>3. upset \subseteq upset'
    BY <2>2 DEF Enqueue, Hurry
  <2>4. QED BY <1>1, <1>4, <1>6, <2>1, <2>3, EditsUndoable
<1>7. CASE \E t \in Tracks \union {None} : Select(t)
  <2>1. UNCHANGED <<api, page, queue, remap, undoStack, flight, opened, upset>>
    BY <1>7 DEF Select, queueVars, ghostVars
  <2>2. QED BY <1>5, <2>1
<1>8. CASE Send
  <2>1. UNCHANGED <<page, upset>>
    BY <1>8 DEF Send, storeVars, ghostVars
  <2>2. QED BY <1>4, <1>8, <2>1, SendUndoable
<1>9. CASE Serve
  <2>1. UNCHANGED <<page, upset>>
    BY <1>9 DEF Serve, storeVars
  <2>2. QED BY <1>1, <1>4, <1>9, <2>1, ServeUndoable
<1>10. CASE LoseRequest
  <2>1. /\ UNCHANGED <<api, page, queue, remap, undoStack, opened, upset>>
        /\ flight' = [flight EXCEPT !.at = "answered"] /\ flight.at = "sent"
    BY <1>10 DEF LoseRequest, storeVars, ghostVars
  <2>2. ASSUME Sane
        PROVE  Undoable'
    <3>1. flight.answer = Refusal /\ flight \in Flight
      BY <2>1, <2>2, FlightShape DEF Sane, Mirror, OwnFlight
    <3>2. flight'.at = "answered" /\ flight'.answer = Refusal
      BY <2>1, <3>1 DEF Flight
    <3>3. ~Landed /\ ~Landed' /\ flight'.at # "sent"
      BY <2>1, <3>2 DEF Landed, Reply, Refusal
    <3>4. QED BY <2>1, <2>2, <3>3, QuietUndoable DEF Sane
  <2>3. QED BY <1>4, <2>1, <2>2
<1>11. CASE LoseAnswer
  <2>1. page' = page /\ upset \subseteq upset' /\ ~Clean'
    BY <1>11 DEF LoseAnswer, storeVars, Clean
  <2>2. QED BY <1>4, <2>1
<1>12. CASE Answers
  <2>1. page' = page
    BY <1>12, AnswersWhen
  <2>2. upset \subseteq upset'
    BY <1>12 DEF Answers, SavedDraw, SavedMove, SavedDeleteBox, SavedDeleteTrack, SavedUpdate,
                 SavedCopy, SavedMark, FailedMove, FailedMark, FailedOther, Undraw, PutBack, RemoveBox, Rename,
                 Unmark, Recreate, Refill, Uncopy, Undone, Saved, GoesOn
  <2>3. QED BY <1>1, <1>4, <1>12, <2>1, <2>2, AnswersUndoable
<1>13. CASE UNCHANGED vars
  <2>1. UNCHANGED <<api, page, queue, remap, undoStack, flight, opened, upset>>
    BY <1>13 DEF vars, storeVars, queueVars, ghostVars
  <2>2. QED BY <1>5, <2>1
<1>14. QED BY <1>2, <1>6, <1>7, <1>8, <1>9, <1>10, <1>11, <1>12, <1>13 DEF Next

(* When every track has a box at the start, undoing everything brings back    *)
(* what the clip had when it was loaded, some of it under a new id, and        *)
(* nothing else, however edits and answers interleaved before; unless an undo  *)
(* overlapped other edits, or a request failed.                              *)
THEOREM UndoBringsBack == Full(FirstRows) => (Spec => []UndoRestores)
<1>1. Full(FirstRows) /\ Init => Full(api)
  BY DEF Init
<1>2. IInv /\ Full(api) /\ UInv => UndoRestores
  BY UndoableShows DEF UInv, UndoRestores, Clean
<1>3. QED BY <1>1, <1>2, Invariant, InitApart, StepApart, InitFaithful, StepFaithful, StepFull,
             InitUndoable, StepUndoable, PTL DEF Spec
===============================================================================
