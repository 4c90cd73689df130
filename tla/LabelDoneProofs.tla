---------------------------- MODULE LabelDoneProofs ----------------------------
(***************************************************************************)
(* A frame that a labeler's screen shows as done is done: the argument for  *)
(* NoFalseDone of LabelStore, for any clips, frames, tracks and bounds.     *)
(*                                                                         *)
(* The status on the screen runs ahead of what is saved while a mark waits, *)
(* and behind it while an answer is on its way.  Honest says how far, and   *)
(* that each of the two ways to go back, a refused mark and an undo, knows  *)
(* the status to go back to.                                                *)
(***************************************************************************)
EXTENDS LabelStoreProofs

(***************************************************************************)
(* What a handler does to the status of the frames, and what the screen     *)
(* makes of its answer.                                                     *)
(***************************************************************************)
(* The edit put a box on the frame, which is not empty any more. *)
Fills(j, a, f) ==
  /\ f = j.frame
  /\ \/ j.kind \in {"draw", "move", "recreate", "refill"}
     \/ j.kind = "copy" /\ \E t \in Tracks : a.made[t] # None

(* ... and the API clears it when one is put back, too. *)
StatusSet(j, a, f, old) ==
  IF j.kind \in {"mark", "unmark"} /\ f = j.frame THEN j.status
  ELSE IF (Fills(j, a, f) \/ (j.kind = "putBack" /\ f = j.frame)) /\ old = "empty" THEN "unlabeled"
  ELSE old

NoneOn(rows, f) == \A t \in Tracks : rows.box[t][f] = None

LEMMA ClearEmptyDoes ==
  ASSUME NEW status \in [Frames -> Statuses], NEW f, NEW g \in Frames
  PROVE  ClearEmpty(status, f)[g] = IF g = f /\ status[f] = "empty" THEN "unlabeled" ELSE status[g]
BY DEF ClearEmpty

LEMMA CreateStatus ==
  ASSUME NEW rows \in Rows, NEW j, j.kind \in {"draw", "recreate"},
         NEW q, q.frame = j.frame, NEW a
  PROVE  CreateTrack(rows, q).answer.ok =>
           \A f \in Frames :
             CreateTrack(rows, q).rows.status[f] = StatusSet(j, a, f, rows.status[f])
<1> HAVE CreateTrack(rows, q).answer.ok
<1> DEFINE done == CreateTrack(rows, q)
<1>1. ~Refuse(rows).answer.ok
  BY DEF Refuse, Outcome, Refusal
<1>2. done = Make(rows, q.clip, q.type, q.frame, q.at)
  BY <1>1 DEF CreateTrack
<1> DEFINE t == rows.next
           track == [rows.track EXCEPT ![t] = [clip |-> q.clip, type |-> q.type]]
           new == [rows EXCEPT !.track = track, !.next = t + 1]
<1>3. done.rows = PutBox(new, t, q.frame, q.at)
  BY <1>2 DEF Make, Outcome, Rows
<1> HIDE DEF done, track, t
<1>4. new.status = rows.status /\ DOMAIN new = DOMAIN rows
  BY DEF Rows
<1> HIDE DEF new
<1>5. done.rows.status = ClearEmpty(rows.status, q.frame)
  BY <1>3, <1>4 DEF PutBox, Rows
<1>6. QED BY <1>5, RowsShape, ClearEmptyDoes DEF StatusSet, Fills, done

LEMMA SetBoxStatus ==
  ASSUME NEW rows \in Rows, NEW j, j.kind \in {"move", "putBack", "refill"},
         NEW q, q.frame = j.frame, NEW a
  PROVE  SetBox(rows, q).answer.ok =>
           \A f \in Frames : SetBox(rows, q).rows.status[f] = StatusSet(j, a, f, rows.status[f])
<1> HAVE SetBox(rows, q).answer.ok
<1> DEFINE done == SetBox(rows, q)
<1>1. ~Refuse(rows).answer.ok
  BY DEF Refuse, Outcome, Refusal
<1>2. done.rows = PutBox(rows, q.track, q.frame, q.at)
  BY <1>1 DEF SetBox, Outcome
<1>3. done.rows.status = ClearEmpty(rows.status, q.frame)
  BY <1>2 DEF PutBox, Rows
<1> HIDE DEF done
<1>4. QED BY <1>3, RowsShape, ClearEmptyDoes DEF StatusSet, Fills, done

LEMMA CopyStatus ==
  ASSUME NEW rows \in Rows, NEW j, j.kind = "copy",
         NEW q, q.to = j.frame, CopyBoxes(rows, q).answer.ok
  PROVE  \A f \in Frames : CopyBoxes(rows, q).rows.status[f]
                             = StatusSet(j, CopyBoxes(rows, q).answer, f, rows.status[f])
<1> DEFINE done == CopyBoxes(rows, q)
           copies == Copied(rows, q.frame, q.to)
<1>1. ~Refuse(rows).answer.ok /\ ClipOf[q.frame] = ClipOf[q.to]
  BY DEF Refuse, Outcome, Refusal, CopyBoxes
<1>2. CASE copies = Nothing
  <2>1. done = Outcome(rows, Accepted)
    BY <1>1, <1>2 DEF CopyBoxes
  <2>2. done.rows.status = rows.status /\ \A t \in Tracks : done.answer.made[t] = None
    BY <2>1 DEF Outcome, Accepted, Refusal, Nothing
  <2> HIDE DEF done
  <2>3. QED BY <2>2 DEF StatusSet, Fills, done
<1>3. CASE copies # Nothing
  <2> DEFINE box == [t \in Tracks |-> IF copies[t] = None THEN rows.box[t]
                                      ELSE [rows.box[t] EXCEPT ![q.to] = copies[t]]]
             status == ClearEmpty(rows.status, q.to)
             answer == [Accepted EXCEPT !.made = copies]
  <2>1. done = Outcome([rows EXCEPT !.box = box, !.status = status], answer)
    BY <1>1, <1>3 DEF CopyBoxes
  <2>2. answer.made = copies
    BY AcceptedWith
  <2>3. \E t \in Tracks : copies[t] # None
    BY <1>3 DEF Copied, Nothing
  <2> HIDE DEF copies, box, status, answer
  <2>4. done.rows = [rows EXCEPT !.box = box, !.status = status] /\ done.answer = answer
    BY <2>1 DEF Outcome
  <2> HIDE DEF done
  <2>5. done.rows.status = status
    BY <2>4 DEF Rows
  <2>6. QED BY <2>2, <2>3, <2>4, <2>5, RowsShape, ClearEmptyDoes DEF StatusSet, Fills, status, done
<1>4. QED BY <1>2, <1>3

LEMMA SetStatus ==
  ASSUME NEW rows \in Rows, NEW j, j.kind \in {"mark", "unmark"},
         NEW q, q.frame = j.frame, q.status = j.status, NEW a
  PROVE  SetFrameStatus(rows, q).answer.ok =>
           /\ \A f \in Frames :
                SetFrameStatus(rows, q).rows.status[f] = StatusSet(j, a, f, rows.status[f])
           /\ j.status = "empty" => NoneOn(SetFrameStatus(rows, q).rows, j.frame)
<1> HAVE SetFrameStatus(rows, q).answer.ok
<1> DEFINE done == SetFrameStatus(rows, q)
           box == IF q.status = "labeled" THEN AcceptAll(rows.box, q.frame) ELSE rows.box
           status == [rows.status EXCEPT ![q.frame] = q.status]
<1>1. ~Refuse(rows).answer.ok
  BY DEF Refuse, Outcome, Refusal
<1>2. /\ ~(q.status = "empty" /\ \E t \in Tracks : rows.box[t][q.frame] # None)
      /\ done.rows = [rows EXCEPT !.box = box, !.status = status]
  BY <1>1, RowsShape DEF SetFrameStatus, Outcome, Rows
<1>3. j.status = "empty" => box = rows.box
  OBVIOUS
<1> HIDE DEF box, status
<1>4. done.rows.status = status /\ done.rows.box = box
  BY <1>2 DEF Rows
<1> HIDE DEF done
<1>5. \A f \in Frames : status[f] = StatusSet(j, a, f, rows.status[f])
  BY RowsShape DEF StatusSet, Fills, status
<1>6. QED BY <1>2, <1>3, <1>4, <1>5 DEF NoneOn, done

LEMMA DeleteStatus ==
  ASSUME NEW rows \in Rows, NEW j, j.kind \in {"deleteBox", "remove", "uncopy"},
         NEW q, q.track = j.track, q.frame = j.frame, NEW a
  PROVE  DeleteBox(rows, q).answer.ok =>
           /\ \A f \in Frames :
                DeleteBox(rows, q).rows.status[f] = StatusSet(j, a, f, rows.status[f])
           /\ rows.box[j.track][j.frame] # None
<1> HAVE DeleteBox(rows, q).answer.ok
<1> DEFINE box == [rows.box EXCEPT ![q.track][q.frame] = None]
           left == [rows EXCEPT !.box = box]
           done == DeleteBox(rows, q)
<1>1. ~Refuse(rows).answer.ok
  BY DEF Refuse, Outcome, Refusal
<1>2. done = TakeBox(rows, q.track, q.frame) /\ rows.box[j.track][j.frame] # None
  BY <1>1 DEF DeleteBox
<1>3. done.rows = left \/ done.rows = Erase(left, q.track)
  BY <1>2 DEF TakeBox, Outcome
<1> HIDE DEF box
<1>4. left.status = rows.status /\ DOMAIN left = DOMAIN rows
  BY DEF Rows
<1>5. done.rows.status = rows.status
  BY <1>3, <1>4 DEF Erase, Rows
<1> HIDE DEF done
<1>6. QED BY <1>2, <1>5 DEF StatusSet, Fills, done

LEMMA RestStatus ==
  ASSUME NEW rows \in Rows, NEW j, j.kind \in {"deleteTrack", "undraw", "update", "rename"}, NEW q, NEW a
  PROVE  \A f \in Frames : /\ DeleteTrack(rows, q).rows.status[f] = StatusSet(j, a, f, rows.status[f])
                           /\ UpdateTrack(rows, q).rows.status[f] = StatusSet(j, a, f, rows.status[f])
<1>1. DeleteTrack(rows, q).rows.status = rows.status
  BY DEF DeleteTrack, Outcome, Refuse, Erase, Rows
<1>2. UpdateTrack(rows, q).rows.status = rows.status
  BY DEF UpdateTrack, Outcome, Refuse, Rows
<1>3. QED BY <1>1, <1>2 DEF StatusSet, Fills

LEMMA HandleStatus ==
  ASSUME NEW rows \in Rows, NEW j \in Good,
         j.kind \in {"recreate", "refill"} => j.at \in Rects /\ j.frame \in Frames,
         NEW done, done = Handle(rows, RequestOf(j)), done.answer.ok
  PROVE  /\ \A f \in Frames : done.rows.status[f] = StatusSet(j, done.answer, f, rows.status[f])
         /\ j.kind = "deleteBox" => rows.box[j.track][j.frame] # None
         /\ j.kind \in {"mark", "unmark"} /\ j.status = "empty" => NoneOn(done.rows, j.frame)
<1> DEFINE q == RequestOf(j)
<1>1. Complete(q)
  BY RequestComplete
<1>2. CASE j.kind \in {"draw", "recreate"}
  <2>1. q.op = "createTrack" /\ q.frame = j.frame
    BY <1>2 DEF RequestOf, Ask
  <2> HIDE DEF q
  <2>2. done = CreateTrack(rows, q)
    BY <2>1 DEF Handle, q
  <2>3. CreateTrack(rows, q).answer.ok
    BY <2>2
  <2>4. \A f \in Frames : CreateTrack(rows, q).rows.status[f] = StatusSet(j, done.answer, f, rows.status[f])
    BY <1>2, <2>1, <2>3, CreateStatus
  <2>5. QED BY <1>2, <2>2, <2>4
<1>3. CASE j.kind \in {"move", "putBack", "refill"}
  <2>1. q.op = "setBox" /\ q.frame = j.frame
    BY <1>3 DEF RequestOf, Ask
  <2> HIDE DEF q
  <2>2. done = SetBox(rows, q)
    BY <2>1 DEF Handle, q
  <2>3. SetBox(rows, q).answer.ok
    BY <2>2
  <2>4. \A f \in Frames : SetBox(rows, q).rows.status[f] = StatusSet(j, done.answer, f, rows.status[f])
    BY <1>3, <2>1, <2>3, SetBoxStatus
  <2>5. QED BY <1>3, <2>2, <2>4
<1>4. CASE j.kind \in {"deleteBox", "remove", "uncopy"}
  <2>1. q.op = "deleteBox" /\ q.track = j.track /\ q.frame = j.frame
    BY <1>4 DEF RequestOf, Ask
  <2> HIDE DEF q
  <2>2. done = DeleteBox(rows, q)
    BY <2>1 DEF Handle, q
  <2>3. DeleteBox(rows, q).answer.ok
    BY <2>2
  <2>4. /\ \A f \in Frames :
             DeleteBox(rows, q).rows.status[f] = StatusSet(j, done.answer, f, rows.status[f])
        /\ rows.box[j.track][j.frame] # None
    BY <1>4, <2>1, <2>3, DeleteStatus
  <2>5. QED BY <1>4, <2>2, <2>4
<1>5. CASE j.kind \in {"deleteTrack", "undraw"}
  <2>1. q.op = "deleteTrack"
    BY <1>5 DEF RequestOf, Ask
  <2> HIDE DEF q
  <2>2. done = DeleteTrack(rows, q)
    BY <2>1 DEF Handle, q
  <2>3. \A f \in Frames : DeleteTrack(rows, q).rows.status[f] = StatusSet(j, done.answer, f, rows.status[f])
    BY <1>5, <2>2, RestStatus
  <2>4. QED BY <1>5, <2>2, <2>3
<1>6. CASE j.kind \in {"update", "rename"}
  <2>1. q.op = "updateTrack"
    BY <1>6 DEF RequestOf, Ask
  <2> HIDE DEF q
  <2>2. done = UpdateTrack(rows, q)
    BY <2>1 DEF Handle, q
  <2>3. \A f \in Frames : UpdateTrack(rows, q).rows.status[f] = StatusSet(j, done.answer, f, rows.status[f])
    BY <1>6, <2>2, RestStatus
  <2>4. QED BY <1>6, <2>2, <2>3
<1>7. CASE j.kind = "copy"
  <2>1. q.op = "copyBoxes" /\ q.to = j.frame
    BY <1>7 DEF RequestOf, Ask
  <2> HIDE DEF q
  <2>2. done = CopyBoxes(rows, q)
    BY <2>1 DEF Handle, q
  <2>3. QED BY <1>7, <2>1, <2>2, CopyStatus
<1>8. CASE j.kind \in {"mark", "unmark"}
  <2>1. q.op = "setFrameStatus" /\ q.frame = j.frame /\ q.status = j.status
    BY <1>8 DEF RequestOf, Ask
  <2> HIDE DEF q
  <2>2. done = SetFrameStatus(rows, q)
    BY <2>1 DEF Handle, q
  <2>3. SetFrameStatus(rows, q).answer.ok
    BY <2>2
  <2>4. /\ \A f \in Frames :
             SetFrameStatus(rows, q).rows.status[f] = StatusSet(j, done.answer, f, rows.status[f])
        /\ j.status = "empty" => NoneOn(SetFrameStatus(rows, q).rows, j.frame)
    BY <1>8, <2>1, <2>3, SetStatus
  <2>5. QED BY <1>8, <2>2, <2>4
<1>9. j.kind \in Edits \union Undos
  BY JobShape DEF Good
<1>10. QED BY <1>2, <1>3, <1>4, <1>5, <1>6, <1>7, <1>8, <1>9 DEF Edits, Undos

(* What the store does with an answer to the status of a frame on screen. *)
StatusShown(j, a, f, old) ==
  IF j.kind = "unmark" /\ f = j.frame THEN j.status
  ELSE IF Fills(j, a, f) /\ old = "empty" THEN "unlabeled"
  ELSE old

LEMMA ClearedStatus ==
  ASSUME NEW v \in View, NEW w \in View, w.status = v.status, NEW f, NEW g \in Frames
  PROVE  Cleared(w, f).status[g] = IF g = f /\ v.status[g] = "empty" THEN "unlabeled" ELSE v.status[g]
<1> DEFINE status == ClearEmpty(v.status, f)
<1>1. status[g] = IF g = f /\ v.status[g] = "empty" THEN "unlabeled" ELSE v.status[g]
  BY ViewShape DEF ClearEmpty
<1>2. Cleared(w, f) = [w EXCEPT !.status = status]
  BY DEF Cleared
<1> HIDE DEF status
<1>3. Cleared(w, f).status = status
  BY <1>2 DEF View
<1>4. QED BY <1>1, <1>3

LEMMA KeepsStatus ==
  ASSUME NEW v \in View, NEW t, NEW f, NEW box \in BoxOrNone, NEW track \in TrackOrNone
  PROVE  /\ Put(v, t, f, box) \in View /\ Put(v, t, f, box).status = v.status
         /\ RemoveTrack(v, t).status = v.status
         /\ SetTrack(v, t, track) \in View /\ SetTrack(v, t, track).status = v.status
         /\ Put(SetTrack(v, t, track), t, f, box) \in View
         /\ Put(SetTrack(v, t, track), t, f, box).status = v.status
<1>1. ASSUME NEW w \in View PROVE Put(w, t, f, box) \in View /\ Put(w, t, f, box).status = w.status
  <2>1. Put(w, t, f, box).status = w.status
    BY DEF Put, View
  <2>2. QED BY <2>1, PutShows
<1>2. RemoveTrack(v, t).status = v.status
  BY DEF RemoveTrack, View
<1>3. SetTrack(v, t, track) \in View
  BY TrackShows
<1>4. SetTrack(v, t, track).status = v.status
  BY DEF SetTrack, View
<1>5. QED BY <1>1, <1>2, <1>3, <1>4

LEMMA AnswerStatus ==
  ASSUME IInv, Answers, Reply.ok, NEW f \in Frames
  PROVE  labels'.status[f] = StatusShown(Running, Reply, f, labels.status[f])
<1> DEFINE j == Running
           a == Reply
<1>1. PICK kinds, ok : Answered(kinds, ok)
  BY DEF Answers, SavedDraw, SavedMove, SavedDeleteBox, SavedDeleteTrack, SavedUpdate, SavedCopy,
         SavedMark, FailedMove, FailedMark, FailedOther, Undraw, PutBack, RemoveBox, Rename, Unmark,
         Recreate, Refill, Uncopy, Undone, Saved
<1>2. /\ labels \in View /\ JobOK(j)
      /\ j.kind \in {"recreate", "refill"} => j.at \in Rects /\ j.frame \in Frames
      /\ a.was \in TrackOrNone /\ a.made \in [Tracks -> BoxOrNone]
      /\ None \in BoxOrNone
  BY <1>1, AnswerShape, Bits DEF IInv, TypeOK
<1>3. j.kind \in {"draw", "move", "putBack", "recreate", "refill"} => Drawn(j.at) \in BoxOrNone
  BY <1>2, Bits DEF JobOK, BoxOrNone
<1> USE DEF Answered, Undone, Saved
<1>4. CASE SavedMove \/ Refill
  <2>1. /\ j.kind \in {"move", "refill"}
        /\ labels' = Cleared(Put(labels, j.track, j.frame, Drawn(j.at)), j.frame)
    BY <1>4 DEF SavedMove, Refill
  <2>2. /\ Put(labels, j.track, j.frame, Drawn(j.at)) \in View
        /\ Put(labels, j.track, j.frame, Drawn(j.at)).status = labels.status
    BY <1>2, <1>3, <2>1, KeepsStatus
  <2> HIDE DEF j, a
  <2>3. QED BY <1>2, <2>1, <2>2, ClearedStatus DEF StatusShown, Fills, j, a
<1>5. CASE SavedDraw \/ Recreate
  <2> DEFINE put == Put(SetTrack(labels, a.track, a.was), a.track, j.frame, Drawn(j.at))
  <2>1. j.kind \in {"draw", "recreate"} /\ labels' = Cleared(put, j.frame)
    BY <1>5 DEF SavedDraw, Recreate, SetTrack
  <2> HIDE DEF j, a
  <2>2. put \in View /\ put.status = labels.status
    <3>1. Drawn(j.at) \in BoxOrNone
      BY <1>3, <2>1
    <3> DEFINE v == SetTrack(labels, a.track, a.was)
    <3>2. v \in View /\ v.status = labels.status
      BY <1>2, KeepsStatus
    <3> HIDE DEF v
    <3>3. Put(v, a.track, j.frame, Drawn(j.at)) \in View
          /\ Put(v, a.track, j.frame, Drawn(j.at)).status = v.status
      BY <1>2, <3>1, <3>2, KeepsStatus
    <3>4. QED BY <3>2, <3>3 DEF v
  <2> HIDE DEF put
  <2>3. QED BY <1>2, <2>1, <2>2, ClearedStatus DEF StatusShown, Fills, j, a
<1>6. CASE PutBack
  <2>1. j.kind = "putBack" /\ labels' = Put(labels, j.track, j.frame, Drawn(j.at))
    BY <1>6 DEF PutBack
  <2> HIDE DEF j, a
  <2>2. Put(labels, j.track, j.frame, Drawn(j.at)).status = labels.status
    BY <1>2, <1>3, <2>1, KeepsStatus
  <2>3. QED BY <2>1, <2>2 DEF StatusShown, Fills, j, a
<1>7. CASE SavedDeleteTrack \/ Undraw
  <2>1. j.kind \in {"deleteTrack", "undraw"} /\ labels' = RemoveTrack(labels, j.track)
    BY <1>7 DEF SavedDeleteTrack, Undraw, Removes
  <2>2. labels'.status = labels.status
    BY <1>2, <2>1, KeepsStatus
  <2>3. QED BY <2>1, <2>2 DEF StatusShown, Fills
<1>8. CASE SavedDeleteBox \/ RemoveBox \/ Uncopy
  <2>1. /\ j.kind \in {"deleteBox", "remove", "uncopy"}
        /\ labels' = IF a.gone THEN RemoveTrack(labels, j.track) ELSE Put(labels, j.track, j.frame, None)
    BY <1>8 DEF SavedDeleteBox, RemoveBox, Uncopy, TakesAway, Removes
  <2>2. /\ RemoveTrack(labels, j.track).status = labels.status
        /\ Put(labels, j.track, j.frame, None).status = labels.status
    BY <1>2, KeepsStatus
  <2>3. QED BY <2>1, <2>2 DEF StatusShown, Fills
<1>9. CASE SavedUpdate \/ Rename
  <2>1. j.kind \in {"update", "rename"} /\ labels' = SetTrack(labels, j.track, a.was)
    BY <1>9 DEF SavedUpdate, Rename, SetTrack
  <2>2. labels'.status = labels.status
    BY <1>2, <2>1, KeepsStatus
  <2>3. QED BY <2>1, <2>2 DEF StatusShown, Fills
<1>10. CASE SavedMark
  BY <1>10 DEF SavedMark, StatusShown, Fills
<1>11. CASE Unmark
  <2> DEFINE status == [labels.status EXCEPT ![j.frame] = j.status]
  <2>1. j.kind = "unmark" /\ labels' = [labels EXCEPT !.status = status]
    BY <1>2, <1>11 DEF Unmark, View
  <2>2. status[f] = IF f = j.frame THEN j.status ELSE labels.status[f]
    BY <1>2, ViewShape
  <2> HIDE DEF status
  <2>3. labels'.status = status
    BY <1>2, <2>1 DEF View
  <2>4. QED BY <2>1, <2>2, <2>3 DEF StatusShown, Fills
<1>12. CASE SavedCopy
  <2> DEFINE new == {t \in Tracks : a.made[t] # None}
             box == [t \in Tracks |-> IF t \in new THEN [labels.box[t] EXCEPT ![j.frame] = a.made[t]]
                                      ELSE labels.box[t]]
             put == [labels EXCEPT !.box = box]
  <2>1. j.kind = "copy" /\ j.frame \in Frames
        /\ labels' = IF new = {} THEN labels ELSE Cleared(put, j.frame)
    BY <1>2, <1>12 DEF SavedCopy, JobOK
  <2>2. CASE new = {}
    BY <2>1, <2>2 DEF StatusShown, Fills
  <2>3. CASE new # {}
    <3>1. box \in [Tracks -> [Frames -> BoxOrNone]]
      BY <1>2, <2>1, ViewShape
    <3>2. \E t \in Tracks : a.made[t] # None
      BY <2>3
    <3> HIDE DEF box, j, a
    <3>3. put \in View /\ put.status = labels.status
      BY <1>2, <3>1, ViewShape DEF View
    <3> HIDE DEF put
    <3>4. labels' = Cleared(put, j.frame)
      BY <2>1, <2>3
    <3>5. labels'.status[f] = IF f = j.frame /\ labels.status[f] = "empty" THEN "unlabeled"
                              ELSE labels.status[f]
      BY <1>2, <3>3, <3>4, ClearedStatus
    <3>6. StatusShown(j, a, f, labels.status[f])
            = IF f = j.frame /\ labels.status[f] = "empty" THEN "unlabeled" ELSE labels.status[f]
      BY <2>1, <3>2 DEF StatusShown, Fills
    <3>7. QED BY <3>5, <3>6 DEF j, a
  <2>4. QED BY <2>2, <2>3
<1>13. ~FailedMove /\ ~FailedMark /\ ~FailedOther
  BY DEF FailedMove, FailedMark, FailedOther
<1>14. QED BY <1>4, <1>5, <1>6, <1>7, <1>8, <1>9, <1>10, <1>11, <1>12, <1>13 DEF Answers

(***************************************************************************)
(* The invariant.                                                           *)
(***************************************************************************)
(* A mark of the frame that waits, or runs and was not saved yet. *)
Unmade(i, f) == queue[i].kind = "mark" /\ queue[i].frame = f /\ ~(i = 1 /\ Landed)

(* What the screen shows of a frame is saved, or the last mark will save it. *)
Known(f) ==
  \/ api.status[f] = labels.status[f] /\ \A i \in DOMAIN queue : ~Unmade(i, f)
  \/ \E i \in DOMAIN queue : /\ Unmade(i, f) /\ queue[i].status = labels.status[f]
                             /\ \A k \in DOMAIN queue : Unmade(k, f) => k <= i

Filling(f) == Landed /\ Fills(Running, Reply, f)
Told(f) ==
  \/ labels.status[f] = "unlabeled"
  \/ Filling(f) /\ labels.status[f] = "empty"
  \/ Landed /\ Running.kind = "unmark" /\ Running.frame = f
  \/ Known(f)
StatusTold == \A f \in FramesOf(page) : Told(f)

(* A frame shown as empty has no box, and each box is on the screen. *)
EmptyIsBare == \A f \in FramesOf(page) :
  labels.status[f] = "empty" => Filling(f) \/ NoneOn(api, f)
BoxesShow == \A t \in Tracks, f \in FramesOf(page) :
  api.box[t][f] # None =>
    Shown(t, f) \/ (Landed /\ (Places(Running, Reply, t, f) \/ Copies(Running, Reply, t, f)))

(* What was saved until the screen shows it. *)
TakenGone == Landed =>
  \A t \in Tracks, f \in FramesOf(page) : Takes(Running, Reply, t, f) => api.box[t][f] = None
DeletedShows == Landed /\ Running.kind = "deleteBox" =>
  Shown(Running.track, Running.frame) /\ labels.status[Running.frame] # "empty"
Unmarked == Landed /\ Running.kind = "unmark" =>
  /\ api.status[Running.frame] = Running.status
  /\ Running.status = "empty" => NoneOn(api, Running.frame)
OnFrames == StatusTold /\ EmptyIsBare /\ BoxesShow /\ TakenGone /\ DeletedShows /\ Unmarked

(* A mark that was made while nothing waited knows what is saved until it is, *)
(* and only the undos of marks that wait behind it are above its own.         *)
Marking == queue # <<>> /\ Running.kind = "mark" /\ Running.alone /\ ~Landed
Entry(i, n) == undoStack[i].kind = "unmark" /\ undoStack[i].n = n
MarkKnows ==
  /\ Running.before # "unlabeled" => api.status[Running.frame] = Running.before
  /\ Running.before = "empty" => NoneOn(api, Running.frame)
MarkEntry == \A i \in DOMAIN undoStack : Entry(i, Running.n) =>
  /\ undoStack[i].frame = Running.frame /\ undoStack[i].status = Running.before
  /\ \A k \in DOMAIN undoStack : k > i =>
       /\ undoStack[k].kind = "unmark"
       /\ \E q \in DOMAIN queue \ {1} :
            queue[q].kind = "mark" /\ queue[q].frame = undoStack[k].frame
MarkHas == Running.before # Running.status => \E i \in DOMAIN undoStack : Entry(i, Running.n)
Marks == Marking => MarkKnows /\ MarkEntry /\ MarkHas

(* An undo runs alone.  What would put a box back does not find its frame     *)
(* empty: neither as it is by then, nor as an undo above it leaves it.        *)
OneUndo == \A i \in DOMAIN queue : queue[i].kind \in Undos => Len(queue) = 1
Soon(f) == IF queue # <<>> /\ Running.kind = "unmark" /\ Running.frame = f
           THEN Running.status ELSE labels.status[f]
Above(i, k, f) == k > i /\ undoStack[k].kind = "unmark" /\ undoStack[k].frame = f
First(i, k, f) ==
  /\ Above(i, k, f)
  /\ \A m \in DOMAIN undoStack : Above(i, m, f) => k <= m
PutOn(i, f) ==
  /\ (\A k \in DOMAIN undoStack : ~Above(i, k, f)) => Soon(f) # "empty"
  /\ \A k \in DOMAIN undoStack : First(i, k, f) => undoStack[k].status # "empty"
PutsOnDone == \A i \in DOMAIN undoStack :
  undoStack[i].kind = "putBack" =>
    undoStack[i].frame \in FramesOf(page) /\ PutOn(i, undoStack[i].frame)
RunningPut == queue # <<>> /\ Running.kind = "putBack" => labels.status[Running.frame] # "empty"
UndosFit == OneUndo /\ PutsOnDone /\ RunningPut

(* Since the clip was loaded, edits of frames and boxes were refused at most. *)
Sure == page \in Clips /\ upset \subseteq {"refused"}
Honest == OnFrames /\ Marks /\ UndosFit
StackOld == \A i \in DOMAIN undoStack : undoStack[i].n <= made
Tidy(rows) == \A f \in Frames : rows.status[f] = "empty" => NoneOn(rows, f)

LEMMA HonestSame ==
  ASSUME Honest, UNCHANGED <<api, page, labels, undoStack, queue>>,
         Landed' <=> Landed, Landed => Reply' = Reply
  PROVE  Honest'
<1>1. Running' = Running
  BY DEF Running
<1>2. \A f : /\ Filling(f)' <=> Filling(f)
             /\ Known(f)' <=> Known(f)
  BY <1>1 DEF Filling, Known, Unmade
<1>3. StatusTold'
  BY <1>1, <1>2 DEF Honest, OnFrames, StatusTold, Told
<1>4. EmptyIsBare' /\ BoxesShow'
  BY <1>1, <1>2 DEF Honest, OnFrames, EmptyIsBare, BoxesShow, Shown
<1>5. TakenGone' /\ DeletedShows' /\ Unmarked'
  BY <1>1 DEF Honest, OnFrames, TakenGone, DeletedShows, Unmarked, Shown
<1>6. Marks'
  BY <1>1 DEF Honest, Marks, Marking, MarkKnows, MarkEntry, MarkHas, Entry
<1>7. OneUndo' /\ PutsOnDone' /\ RunningPut'
  BY <1>1 DEF Honest, UndosFit, OneUndo, PutsOnDone, PutOn, First, Above, Soon, RunningPut
<1>8. QED BY <1>3, <1>4, <1>5, <1>6, <1>7 DEF Honest, OnFrames, UndosFit

(* An edit waits behind the others: no undo does, and none is before it.      *)
LEMMA EditWaits ==
  ASSUME IInv, IInv', NEW job, Enqueue(job), UNCHANGED flight, "hurried" \notin upset'
  PROVE  LET new == Placed(job)
             m == Len(queue)
         IN /\ m \in Nat /\ DOMAIN queue = 1..m /\ DOMAIN queue' = 1..(m + 1) /\ Len(queue') = m + 1
            /\ \A i \in DOMAIN queue : queue'[i] = queue[i]
            /\ queue'[m + 1] = new
            /\ queue' # <<>>
            /\ queue # <<>> => /\ Running' = Running
                               /\ job.kind \notin Undos
                               /\ \A i \in DOMAIN queue : queue[i].kind \notin Undos
                               /\ m + 1 # 1
                               /\ 1 \in DOMAIN queue
            /\ queue = <<>> => Running' = new /\ ~Landed /\ m = 0
            /\ Reply' = Reply /\ (Landed' <=> Landed)
            /\ new.kind = job.kind /\ new.frame = job.frame /\ new.status = job.status
            /\ new.before = job.before /\ new.track = job.track
            /\ new.alone = (queue = <<>>) /\ new.n = made + 1
            /\ made' = made + 1
<1> DEFINE new == Placed(job)
           m == Len(queue)
<1>1. /\ m \in Nat /\ DOMAIN queue = 1..m /\ DOMAIN queue' = 1..(m + 1)
      /\ \A i \in 1..m : queue'[i] = queue[i]
      /\ queue'[m + 1] = new
      /\ m = 0 <=> queue = <<>>
      /\ queue' # <<>>
      /\ new \in Good
      /\ new.kind = job.kind /\ new.track = job.track /\ new.frame = job.frame
      /\ new.alone = (queue = <<>>)
  BY NewEdit
<1>2. Reply' = Reply /\ (Landed' <=> Landed)
  BY DEF Reply, Landed
<1>3. new.status = job.status /\ new.before = job.before /\ new.n = made + 1
  <2>1. DOMAIN new = DOMAIN job
    BY DEF Placed
  <2>2. {"status", "before", "n"} \subseteq DOMAIN new
    <3> HIDE DEF new
    <3>1. QED BY <1>1 DEF Good, Job
  <2>3. QED BY <2>1, <2>2 DEF Placed
<1>4. queue = <<>> => ~Landed
  BY DEF IInv, TypeOK, Landed, Idle
<1>5. ~Hurried(job)
  BY DEF Enqueue, Hurry
<1>6. ASSUME queue # <<>>
      PROVE  job.kind \notin Undos /\ \A i \in DOMAIN queue : queue[i].kind \notin Undos
  BY <1>5, <1>6 DEF Hurried
<1>7. made' = made + 1
  BY DEF Enqueue
<1>8. Len(queue') = m + 1
  <2>1. queue' \in Seq(Good)
    BY DEF IInv, Pending
  <2>2. Len(queue') \in Nat /\ DOMAIN queue' = 1..Len(queue')
    BY <2>1, LenProperties
  <2>3. QED BY <1>1, <2>2
<1> HIDE DEF new, m
<1>9. QED BY <1>1, <1>2, <1>3, <1>4, <1>6, <1>7, <1>8 DEF Running, new, m

(* The same when the running edit ended, ... *)
LEMMA KnownAfter ==
  ASSUME IInv, queue # <<>>, queue' = Tail(queue), ~Landed', UNCHANGED api, NEW f, ~Unmade(1, f),
         labels'.status[f] = labels.status[f], Known(f)
  PROVE  Known(f)'
<1> DEFINE m == Len(queue)
<1>1. /\ m \in Nat \ {0} /\ DOMAIN queue = 1..m /\ DOMAIN queue' = 1..(m - 1)
      /\ \A i \in 1..(m - 1) : queue'[i] = queue[i + 1]
  BY TailWaits
<1> HIDE DEF m
<1>2. \A i \in 1..(m - 1) : i + 1 \in 1..m /\ (Unmade(i, f)' <=> Unmade(i + 1, f))
  BY <1>1 DEF Unmade
<1>3. CASE api.status[f] = labels.status[f] /\ \A i \in DOMAIN queue : ~Unmade(i, f)
  BY <1>1, <1>2, <1>3 DEF Known
<1>4. ASSUME NEW i \in DOMAIN queue, Unmade(i, f), queue[i].status = labels.status[f],
             \A k \in DOMAIN queue : Unmade(k, f) => k <= i
      PROVE  Known(f)'
  <2>1. i - 1 \in 1..(m - 1) /\ (i - 1) + 1 = i
    BY <1>1, <1>4
  <2>2. Unmade(i - 1, f)' /\ queue'[i - 1] = queue[i]
    BY <1>1, <1>2, <1>4, <2>1
  <2>3. \A k \in 1..(m - 1) : Unmade(k, f)' => k <= i - 1
    BY <1>1, <1>2, <1>4
  <2>4. QED BY <1>1, <1>4, <2>1, <2>2, <2>3 DEF Known
<1>5. QED BY <1>3, <1>4 DEF Known

(* ... or goes on as another that is no mark. *)
LEMMA KnownOn ==
  ASSUME IInv, queue # <<>>, NEW j \in Good, j.kind # "mark", queue' = <<j>> \o Tail(queue),
         UNCHANGED api, NEW f, ~Unmade(1, f), labels'.status[f] = labels.status[f], Known(f)
  PROVE  Known(f)'
<1>1. /\ queue' # <<>> /\ Running' = j /\ DOMAIN queue' = DOMAIN queue
      /\ \A i \in DOMAIN queue : i # 1 => queue'[i] = queue[i]
  BY ChangeShape
<1>2. \A i \in DOMAIN queue : Unmade(i, f)' <=> Unmade(i, f)
  BY <1>1 DEF Unmade, Running
<1>3. \A i \in DOMAIN queue : Unmade(i, f) => queue'[i] = queue[i]
  BY <1>1
<1>4. QED BY <1>1, <1>2, <1>3 DEF Known

(***************************************************************************)
(* An edit is made.                                                         *)
(***************************************************************************)
LEMMA EditFrame ==
  ASSUME IInv, IInv', Honest, NEW job, Enqueue(job), UNCHANGED <<api, page, flight>>,
         "hurried" \notin upset', NEW f \in FramesOf(page),
         ~(job.kind = "mark" /\ job.frame = f), labels'.status[f] = labels.status[f]
  PROVE  /\ Told(f)'
         /\ labels'.status[f] = "empty" => Filling(f)' \/ NoneOn(api, f)
<1>1. PICK m \in Nat :
      /\ DOMAIN queue = 1..m /\ DOMAIN queue' = 1..(m + 1)
      /\ \A i \in DOMAIN queue : queue'[i] = queue[i]
      /\ queue'[m + 1].kind = job.kind /\ queue'[m + 1].frame = job.frame
      /\ queue # <<>> => Running' = Running
      /\ queue = <<>> => ~Landed
      /\ Reply' = Reply /\ (Landed' <=> Landed)
  BY EditWaits
<1>2. Filling(f)' <=> Filling(f)
  BY <1>1 DEF Filling
<1>3. Told(f) /\ (labels.status[f] = "empty" => Filling(f) \/ NoneOn(api, f))
  BY DEF Honest, OnFrames, StatusTold, EmptyIsBare
<1>4. /\ \A i \in DOMAIN queue : Unmade(i, f)' <=> Unmade(i, f)
      /\ ~Unmade(m + 1, f)'
  <2>1. ASSUME NEW i \in DOMAIN queue PROVE Unmade(i, f)' <=> Unmade(i, f)
    <3>1. queue'[i] = queue[i] /\ (Landed' <=> Landed)
      BY <1>1
    <3>2. QED BY <3>1 DEF Unmade
  <2>2. QED BY <1>1, <2>1 DEF Unmade
<1>5. \A i \in DOMAIN queue' : i \in DOMAIN queue \/ i = m + 1
  BY <1>1
<1>6. \A i \in DOMAIN queue : i \in DOMAIN queue'
  BY <1>1
<1>7. Known(f) => Known(f)'
  <2>1. CASE api.status[f] = labels.status[f] /\ \A i \in DOMAIN queue : ~Unmade(i, f)
    BY <1>4, <1>5, <2>1 DEF Known
  <2>2. ASSUME NEW i \in DOMAIN queue, Unmade(i, f), queue[i].status = labels.status[f],
               \A k \in DOMAIN queue : Unmade(k, f) => k <= i
        PROVE  Known(f)'
    <3>1. i \in DOMAIN queue' /\ Unmade(i, f)' /\ queue'[i].status = labels'.status[f]
      BY <1>1, <1>4, <1>6, <2>2
    <3>2. \A k \in DOMAIN queue' : Unmade(k, f)' => k <= i
      BY <1>4, <1>5, <2>2
    <3>3. QED BY <3>1, <3>2 DEF Known
  <2>3. QED BY <2>1, <2>2 DEF Known
<1>8. Told(f)'
  BY <1>1, <1>2, <1>3, <1>7 DEF Told
<1>9. QED BY <1>2, <1>3, <1>8

LEMMA EditRest ==
  ASSUME IInv, IInv', Honest, NEW job, Enqueue(job), UNCHANGED <<api, page, flight>>,
         "hurried" \notin upset',
         \A t \in Tracks, f \in Frames : Shown(t, f) => Shown(t, f)',
         job.kind = "putBack" => labels'.status[job.frame] # "empty"
  PROVE  BoxesShow' /\ TakenGone' /\ Unmarked' /\ OneUndo' /\ RunningPut'
<1> DEFINE m == Len(queue)
<1>1. /\ m \in Nat /\ DOMAIN queue = 1..m /\ DOMAIN queue' = 1..(m + 1) /\ Len(queue') = m + 1
      /\ \A i \in DOMAIN queue : queue'[i] = queue[i]
      /\ queue'[m + 1].kind = job.kind
      /\ queue # <<>> => /\ Running' = Running /\ 1 \in DOMAIN queue
                         /\ job.kind \notin Undos
                         /\ \A i \in DOMAIN queue : queue[i].kind \notin Undos
      /\ queue = <<>> => /\ Running'.kind = job.kind /\ Running'.frame = job.frame
                         /\ ~Landed /\ m = 0
      /\ Reply' = Reply /\ (Landed' <=> Landed)
  BY EditWaits
<1> HIDE DEF m
<1>2. BoxesShow'
  <2>1. \A t \in Tracks, f \in FramesOf(page) : Shown(t, f) => Shown(t, f)'
    BY FrameOnPage
  <2>2. QED BY <1>1, <2>1 DEF Honest, OnFrames, BoxesShow
<1>3. TakenGone' /\ Unmarked'
  BY <1>1 DEF Honest, OnFrames, TakenGone, Unmarked
<1>4. OneUndo'
  <2>1. \A i \in DOMAIN queue' : i \in DOMAIN queue \/ i = m + 1
    BY <1>1
  <2>2. CASE queue = <<>>
    BY <1>1, <2>2 DEF OneUndo
  <2>3. CASE queue # <<>>
    BY <1>1, <2>1, <2>3 DEF OneUndo
  <2>4. QED BY <2>2, <2>3
<1>5. RunningPut'
  <2>1. "putBack" \in Undos
    BY DEF Undos
  <2>2. CASE queue = <<>>
    BY <1>1, <2>2 DEF RunningPut
  <2>3. CASE queue # <<>>
    <3>1. Running.kind # "putBack"
      BY <1>1, <2>1, <2>3 DEF Running
    <3>2. QED BY <1>1, <2>3, <3>1 DEF RunningPut
  <2>4. QED BY <2>2, <2>3
<1>6. QED BY <1>2, <1>3, <1>4, <1>5

LEMMA KeptPuts ==
  ASSUME PutsOnDone, UNCHANGED <<undoStack, page>>, \A f \in Frames : Soon(f) # "empty" => Soon(f)' # "empty"
  PROVE  PutsOnDone'
<1>1. \A i, k, f : Above(i, k, f)' <=> Above(i, k, f)
  BY DEF Above
<1>2. \A i : \A f \in Frames : PutOn(i, f) => PutOn(i, f)'
  BY <1>1 DEF PutOn, First
<1>3. QED BY <1>2, FrameOnPage DEF PutsOnDone

LEMMA EditHonest ==
  ASSUME IInv, IInv', Honest, Sure', NEW job, Enqueue(job), job.kind \notin Undos, job.kind # "mark",
         UNCHANGED <<api, page, undoStack, flight>>, labels'.status = labels.status,
         \A t \in Tracks, f \in Frames : Shown(t, f) => Shown(t, f)'
  PROVE  Honest'
<1> DEFINE m == Len(queue)
<1>1. "hurried" \notin upset'
  BY DEF Sure
<1>2. /\ m \in Nat /\ DOMAIN queue = 1..m /\ DOMAIN queue' = 1..(m + 1)
      /\ \A i \in DOMAIN queue : queue'[i] = queue[i]
      /\ queue' # <<>>
      /\ queue # <<>> => /\ Running' = Running /\ 1 \in DOMAIN queue
                         /\ \A i \in DOMAIN queue : queue[i].kind \notin Undos
      /\ queue = <<>> => /\ Running'.kind = job.kind /\ ~Landed
      /\ Reply' = Reply /\ (Landed' <=> Landed)
  BY <1>1, EditWaits
<1> HIDE DEF m
<1>3. StatusTold' /\ EmptyIsBare'
  <2>1. \A f \in FramesOf(page) : /\ Told(f)'
                                  /\ labels'.status[f] = "empty" => Filling(f)' \/ NoneOn(api, f)
    BY <1>1, EditFrame
  <2>2. QED BY <2>1 DEF StatusTold, EmptyIsBare
<1>4. "putBack" \in Undos /\ "unmark" \in Undos
  BY DEF Undos
<1>5. BoxesShow' /\ TakenGone' /\ Unmarked' /\ OneUndo' /\ RunningPut'
  BY <1>1, <1>4, EditRest
<1>6. DeletedShows'
  <2> SUFFICES ASSUME Landed', Running'.kind = "deleteBox"
               PROVE  Shown(Running.track, Running.frame)' /\ labels'.status[Running'.frame] # "empty"
    BY DEF DeletedShows
  <2>1. Landed /\ queue # <<>> /\ Running' = Running /\ Running.kind = "deleteBox"
    BY <1>2
  <2>2. Running.track \in Tracks /\ Running.frame \in Frames
    BY <2>1, Queued DEF Good, JobOK
  <2>3. Shown(Running.track, Running.frame) /\ labels.status[Running.frame] # "empty"
    BY <2>1 DEF Honest, OnFrames, DeletedShows
  <2>4. QED BY <2>1, <2>2, <2>3 DEF Shown
<1>7. Marks'
  <2> SUFFICES ASSUME Marking' PROVE (MarkKnows /\ MarkEntry /\ MarkHas)'
    BY DEF Marks
  <2>1. queue # <<>> /\ Marking /\ Running' = Running
    BY <1>2 DEF Marking
  <2>2. MarkKnows /\ MarkEntry /\ MarkHas
    BY <2>1 DEF Honest, Marks
  <2>3. MarkKnows' /\ MarkHas'
    BY <2>1, <2>2 DEF MarkKnows, MarkHas, Entry
  <2>4. \A q \in DOMAIN queue \ {1} : q \in DOMAIN queue' \ {1} /\ queue'[q] = queue[q]
    BY <1>2
  <2>5. MarkEntry'
    <3>1. ASSUME NEW i \in DOMAIN undoStack, Entry(i, Running.n), NEW k \in DOMAIN undoStack, k > i
          PROVE  /\ undoStack[k].kind = "unmark"
                 /\ \E q \in DOMAIN queue' \ {1} :
                      queue'[q].kind = "mark" /\ queue'[q].frame = undoStack[k].frame
      <4>1. /\ undoStack[k].kind = "unmark"
            /\ \E q \in DOMAIN queue \ {1} :
                 queue[q].kind = "mark" /\ queue[q].frame = undoStack[k].frame
        BY <2>2, <3>1 DEF MarkEntry
      <4>2. QED BY <2>4, <4>1
    <3>2. QED BY <2>1, <2>2, <3>1 DEF MarkEntry, Entry
  <2>6. QED BY <2>3, <2>5
<1>8. PutsOnDone'
  <2>1. \A f : Soon(f)' = Soon(f)
    <3>1. queue = <<>> => Running'.kind # "unmark"
      BY <1>2, <1>4
    <3>2. QED BY <1>2, <3>1 DEF Soon
  <2>2. QED BY <2>1, KeptPuts DEF Honest, UndosFit
<1>9. QED BY <1>3, <1>5, <1>6, <1>7, <1>8 DEF Honest, OnFrames, UndosFit

(* Entries of the undo stack. *)
LEMMA PushShape ==
  ASSUME NEW s \in Seq(Good), NEW e, NEW l \in Nat, l = Len(s)
  PROVE  /\ DOMAIN s = 1..l /\ DOMAIN Append(s, e) = 1..(l + 1)
         /\ \A i \in 1..l : Append(s, e)[i] = s[i]
         /\ Append(s, e)[l + 1] = e
<1> DEFINE S == Good \union {e}
<1>1. s \in Seq(S) /\ e \in S
  <2>1. Good \subseteq S
    OBVIOUS
  <2>2. QED BY <2>1, SeqMonotonic
<1> HIDE DEF S
<1>2. /\ Append(s, e) \in Seq(S) /\ Len(Append(s, e)) = l + 1
      /\ \A i \in 1..l : Append(s, e)[i] = s[i]
      /\ Append(s, e)[l + 1] = e
  BY <1>1, AppendProperties
<1>3. DOMAIN s = 1..l /\ DOMAIN Append(s, e) = 1..(l + 1)
  BY <1>1, <1>2, LenProperties
<1>4. QED BY <1>2, <1>3

LEMMA PopShape ==
  ASSUME NEW s \in Seq(Good), s # <<>>
  PROVE  LET l == Len(s)
         IN /\ l \in Nat \ {0} /\ DOMAIN s = 1..l
            /\ DOMAIN SubSeq(s, 1, l - 1) = 1..(l - 1)
            /\ \A i \in 1..(l - 1) : SubSeq(s, 1, l - 1)[i] = s[i]
<1> DEFINE l == Len(s)
<1>1. l \in Nat \ {0} /\ DOMAIN s = 1..l
  BY LenProperties, EmptySeq
<1> HIDE DEF l
<1>2. DOMAIN SubSeq(s, 1, l - 1) = 1..(l - 1) /\ \A i \in 1..(l - 1) : SubSeq(s, 1, l - 1)[i] = s[i]
  BY <1>1 DEF SubSeq
<1>3. QED BY <1>1, <1>2 DEF l

(* What undoes another edit goes on top. *)
LEMMA PushedPuts ==
  ASSUME PutsOnDone, undoStack \in Seq(Good), NEW e, Pushes(e), e.kind # "unmark",
         UNCHANGED page, \A f \in Frames : Soon(f) # "empty" => Soon(f)' # "empty",
         e.kind = "putBack" => e.frame \in FramesOf(page) /\ Soon(e.frame)' # "empty"
  PROVE  PutsOnDone'
<1>0. PICK l \in Nat : l = Len(undoStack)
  BY LenProperties
<1>1. /\ DOMAIN undoStack = 1..l /\ DOMAIN undoStack' = 1..(l + 1)
      /\ \A i \in 1..l : undoStack'[i] = undoStack[i]
      /\ undoStack'[l + 1] = e
      /\ \A k \in 1..l : k \in 1..(l + 1) /\ k \in DOMAIN undoStack'
  <2>1. undoStack' = Append(undoStack, e)
    BY DEF Pushes
  <2>2. /\ DOMAIN undoStack = 1..l /\ DOMAIN Append(undoStack, e) = 1..(l + 1)
        /\ \A i \in 1..l : Append(undoStack, e)[i] = undoStack[i]
        /\ Append(undoStack, e)[l + 1] = e
    BY <1>0, PushShape
  <2>3. QED BY <2>1, <2>2
<1>2. ASSUME NEW i, NEW f PROVE /\ \A k \in 1..l : Above(i, k, f)' <=> Above(i, k, f)
                                /\ ~Above(i, l + 1, f)'
  BY <1>1 DEF Above
<1>3. ASSUME NEW i \in 1..l, NEW f \in Frames, PutOn(i, f) PROVE PutOn(i, f)'
  <2>1. ASSUME \A k \in DOMAIN undoStack' : ~Above(i, k, f)'
        PROVE  Soon(f)' # "empty"
    <3>1. \A k \in 1..l : ~Above(i, k, f)
      BY <1>1, <1>2, <2>1
    <3>2. Soon(f) # "empty"
      BY <1>1, <1>3, <3>1 DEF PutOn
    <3>3. QED BY <3>2
  <2>2. ASSUME NEW k \in DOMAIN undoStack', First(i, k, f)' PROVE undoStack'[k].status # "empty"
    <3>1. k \in 1..l
      BY <1>1, <1>2, <2>2 DEF First
    <3>2. Above(i, k, f) /\ \A m \in 1..l : Above(i, m, f) => k <= m
      BY <1>1, <1>2, <2>2, <3>1 DEF First
    <3>3. First(i, k, f)
      BY <1>1, <3>2 DEF First
    <3>4. QED BY <1>1, <1>3, <3>1, <3>3 DEF PutOn
  <2>3. QED BY <2>1, <2>2 DEF PutOn
<1>4. ASSUME e.kind = "putBack" PROVE e.frame \in FramesOf(page) /\ PutOn(l + 1, e.frame)'
  <2>1. \A k \in DOMAIN undoStack' : ~(k > l + 1)
    BY <1>1
  <2>2. QED BY <1>4, <2>1 DEF PutOn, First, Above
<1>5. ASSUME NEW i \in DOMAIN undoStack', undoStack'[i].kind = "putBack"
      PROVE  (undoStack[i].frame \in FramesOf(page) /\ PutOn(i, undoStack[i].frame))'
  <2>1. CASE i = l + 1
    BY <1>1, <1>4, <1>5, <2>1
  <2>2. CASE i \in 1..l
    <3>1. undoStack[i].kind = "putBack" /\ undoStack'[i] = undoStack[i]
      BY <1>1, <1>5, <2>2
    <3>2. undoStack[i].frame \in FramesOf(page) /\ PutOn(i, undoStack[i].frame)
      BY <1>1, <2>2, <3>1 DEF PutsOnDone
    <3>3. QED BY <1>3, <2>2, <3>1, <3>2, FrameOnPage
  <2>3. QED BY <1>1, <1>5, <2>1, <2>2
<1>6. QED BY <1>5 DEF PutsOnDone

(* What undoes a mark goes on top, with the status the frame had. *)
LEMMA MarkedPuts ==
  ASSUME PutsOnDone, undoStack \in Seq(Good), NEW e, Pushes(e), e.kind = "unmark",
         e.status = Soon(e.frame),
         UNCHANGED page, \A f \in Frames : f # e.frame /\ Soon(f) # "empty" => Soon(f)' # "empty"
  PROVE  PutsOnDone'
<1>0. PICK l \in Nat : l = Len(undoStack)
  BY LenProperties
<1>1. /\ DOMAIN undoStack = 1..l /\ DOMAIN undoStack' = 1..(l + 1)
      /\ \A i \in 1..l : undoStack'[i] = undoStack[i]
      /\ undoStack'[l + 1] = e
      /\ \A k \in 1..l : k \in 1..(l + 1) /\ k \in DOMAIN undoStack'
  <2>1. undoStack' = Append(undoStack, e)
    BY DEF Pushes
  <2>2. /\ DOMAIN undoStack = 1..l /\ DOMAIN Append(undoStack, e) = 1..(l + 1)
        /\ \A i \in 1..l : Append(undoStack, e)[i] = undoStack[i]
        /\ Append(undoStack, e)[l + 1] = e
    BY <1>0, PushShape
  <2>3. QED BY <2>1, <2>2
<1>2. ASSUME NEW i \in 1..l, NEW f PROVE /\ \A k \in 1..l : Above(i, k, f)' <=> Above(i, k, f)
                                         /\ Above(i, l + 1, f)' <=> f = e.frame
  BY <1>1 DEF Above
<1>3. ASSUME NEW i \in 1..l, NEW f \in Frames, PutOn(i, f) PROVE PutOn(i, f)'
  <2>1. ASSUME \A k \in DOMAIN undoStack' : ~Above(i, k, f)'
        PROVE  Soon(f)' # "empty"
    <3>1. \A k \in 1..l : ~Above(i, k, f)
      BY <1>1, <1>2, <2>1
    <3>2. Soon(f) # "empty"
      BY <1>1, <1>3, <3>1 DEF PutOn
    <3>3. l + 1 \in DOMAIN undoStack'
      BY <1>1
    <3>4. f # e.frame
      BY <1>2, <2>1, <3>3
    <3>5. QED BY <3>2, <3>4
  <2>2. ASSUME NEW k \in DOMAIN undoStack', First(i, k, f)' PROVE undoStack'[k].status # "empty"
    <3>1. CASE k \in 1..l
      <4>1. Above(i, k, f) /\ \A m \in 1..l : Above(i, m, f) => k <= m
        BY <1>1, <1>2, <2>2, <3>1 DEF First
      <4>2. First(i, k, f)
        BY <1>1, <4>1 DEF First
      <4>3. QED BY <1>1, <1>3, <3>1, <4>2 DEF PutOn
    <3>2. CASE k = l + 1
      <4>1. f = e.frame
        BY <1>2, <2>2, <3>2 DEF First
      <4>2. \A m \in 1..l : ~Above(i, m, f)
        BY <1>1, <1>2, <2>2, <3>2 DEF First
      <4>3. QED BY <1>1, <1>3, <3>2, <4>1, <4>2 DEF PutOn
    <3>3. QED BY <1>1, <3>1, <3>2
  <2>3. QED BY <2>1, <2>2 DEF PutOn
<1>4. ASSUME NEW i \in DOMAIN undoStack', undoStack'[i].kind = "putBack"
      PROVE  (undoStack[i].frame \in FramesOf(page) /\ PutOn(i, undoStack[i].frame))'
  <2>1. i \in 1..l
    BY <1>1, <1>4
  <2>2. undoStack[i].kind = "putBack" /\ undoStack'[i] = undoStack[i]
    BY <1>1, <1>4, <2>1
  <2>3. undoStack[i].frame \in FramesOf(page) /\ PutOn(i, undoStack[i].frame)
    BY <1>1, <2>1, <2>2 DEF PutsOnDone
  <2>4. QED BY <1>3, <2>1, <2>2, <2>3, FrameOnPage
<1>5. QED BY <1>4 DEF PutsOnDone

(* The top one is taken, and is about to run. *)
LEMMA PoppedPuts ==
  ASSUME PutsOnDone, undoStack \in Seq(Good), undoStack # <<>>,
         UNCHANGED page, undoStack' = SubSeq(undoStack, 1, Len(undoStack) - 1),
         NEW e, e = undoStack[Len(undoStack)],
         \A f : Soon(f)' = IF e.kind = "unmark" /\ e.frame = f THEN e.status ELSE Soon(f)
  PROVE  PutsOnDone' /\ (e.kind = "putBack" => Soon(e.frame) # "empty")
<1>1. PICK l \in Nat \ {0} :
      /\ DOMAIN undoStack = 1..l /\ DOMAIN undoStack' = 1..(l - 1)
      /\ \A i \in 1..(l - 1) : undoStack'[i] = undoStack[i]
      /\ undoStack[l] = e
  BY PopShape
<1>2. ASSUME NEW i \in 1..(l - 1), NEW f
      PROVE  /\ \A k \in 1..(l - 1) : Above(i, k, f)' <=> Above(i, k, f)
             /\ Above(i, l, f) <=> e.kind = "unmark" /\ e.frame = f
  BY <1>1 DEF Above
<1>3. \A k \in 1..l : k \in 1..(l - 1) \/ k = l
  BY <1>1
<1>4. ASSUME NEW i \in 1..(l - 1), NEW f, PutOn(i, f) PROVE PutOn(i, f)'
  <2>1. ASSUME \A k \in DOMAIN undoStack' : ~Above(i, k, f)'
        PROVE  Soon(f)' # "empty"
    <3>1. \A k \in 1..(l - 1) : ~Above(i, k, f)
      BY <1>1, <1>2, <2>1
    <3>2. CASE Above(i, l, f)
      <4>1. First(i, l, f)
        BY <1>1, <1>3, <3>1, <3>2 DEF First
      <4>2. l \in DOMAIN undoStack
        BY <1>1
      <4>3. e.status # "empty"
        BY <1>1, <1>4, <4>1, <4>2 DEF PutOn
      <4>4. QED BY <1>2, <3>2, <4>3
    <3>3. CASE ~Above(i, l, f)
      <4>1. Soon(f) # "empty"
        BY <1>1, <1>3, <1>4, <3>1, <3>3 DEF PutOn
      <4>2. QED BY <1>2, <3>3, <4>1
    <3>4. QED BY <3>2, <3>3
  <2>2. ASSUME NEW k \in DOMAIN undoStack', First(i, k, f)' PROVE undoStack'[k].status # "empty"
    <3>1. k \in 1..(l - 1) /\ k \in 1..l /\ k <= l
      BY <1>1
    <3>2. Above(i, k, f) /\ \A m \in 1..(l - 1) : Above(i, m, f) => k <= m
      BY <1>1, <1>2, <2>2, <3>1 DEF First
    <3>3. First(i, k, f)
      BY <1>1, <1>3, <3>1, <3>2 DEF First
    <3>4. QED BY <1>1, <1>4, <3>1, <3>3 DEF PutOn
  <2>3. QED BY <2>1, <2>2 DEF PutOn
<1>5. PutsOnDone'
  <2>1. ASSUME NEW i \in DOMAIN undoStack', undoStack'[i].kind = "putBack"
        PROVE  (undoStack[i].frame \in FramesOf(page) /\ PutOn(i, undoStack[i].frame))'
    <3>1. /\ i \in 1..(l - 1) /\ i \in DOMAIN undoStack
          /\ undoStack[i].kind = "putBack" /\ undoStack'[i] = undoStack[i]
      BY <1>1, <2>1
    <3>2. undoStack[i].frame \in FramesOf(page) /\ PutOn(i, undoStack[i].frame)
      BY <3>1 DEF PutsOnDone
    <3>3. QED BY <1>4, <3>1, <3>2
  <2>2. QED BY <2>1 DEF PutsOnDone
<1>6. ASSUME e.kind = "putBack" PROVE Soon(e.frame) # "empty"
  <2>1. l \in DOMAIN undoStack /\ \A k \in DOMAIN undoStack : ~(k > l)
    BY <1>1
  <2>2. PutOn(l, e.frame) /\ e.frame \in FramesOf(page)
    BY <1>1, <1>6, <2>1 DEF PutsOnDone
  <2>3. QED BY <2>1, <2>2 DEF PutOn, Above
<1>7. QED BY <1>5, <1>6

(* What marking a frame changes. *)
LEMMA MarkDoes ==
  ASSUME IInv, IInv', NEW f \in Frames, NEW status \in Statuses, Mark(f, status)
  PROVE  \E job, undo :
           /\ job.kind = "mark" /\ job.frame = f /\ job.status = status
           /\ job.before = labels.status[f]
           /\ undo.kind = "unmark" /\ undo.frame = f /\ undo.status = labels.status[f]
           /\ undo.n = made + 1
           /\ Enqueue(job)
           /\ undoStack' = IF labels.status[f] = status THEN undoStack ELSE Append(undoStack, undo)
           /\ labels'.status[f] = status
           /\ \A g \in Frames : g # f => labels'.status[g] = labels.status[g]
           /\ \A t \in Tracks, g \in Frames : Shown(t, g)' <=> Shown(t, g)
<1> DEFINE before == labels.status[f]
           accepted == IF status = "labeled" THEN Proposed(f) ELSE {}
           job == [Blank("mark") EXCEPT !.frame = f, !.status = status, !.before = before,
                     !.tracks = accepted]
           undo == [Blank("unmark") EXCEPT !.frame = f, !.status = before, !.n = made + 1]
           box == Say(labels.box, accepted, f, "accepted")
           statuses == [labels.status EXCEPT ![f] = status]
<1>1. /\ labels' = [labels EXCEPT !.status = statuses, !.box = box]
      /\ undoStack' = IF before = status THEN undoStack ELSE Append(undoStack, undo)
      /\ Enqueue(job)
  BY DEF Mark, IInv, TypeOK, View
<1>2. /\ job.kind = "mark" /\ job.frame = f /\ job.status = status /\ job.before = before
      /\ undo.kind = "unmark" /\ undo.frame = f /\ undo.status = before /\ undo.n = made + 1
  BY DEF Blank
<1>3. \A t \in accepted : labels.box[t][f] # None
  BY DEF Proposed, Shown
<1>4. labels \in View /\ statuses[f] = status /\ \A g \in Frames : g # f => statuses[g] = labels.status[g]
  BY ViewShape DEF IInv, TypeOK
<1> HIDE DEF job, undo, accepted, statuses
<1>5. \A t \in Tracks, g \in Frames : Rect(box[t][g]) = Rect(labels.box[t][g])
  <2> DEFINE is == "accepted"
             old == labels.box
  <2>1. /\ \A t \in accepted : old[t][f] # None
        /\ old \in [Tracks -> [Frames -> BoxOrNone]] /\ is \in {"proposed", "verified", "accepted"}
    BY <1>3, OnScreen
  <2> HIDE DEF is, old
  <2>2. \A t \in Tracks, g \in Frames : Rect(Say(old, accepted, f, is)[t][g]) = Rect(old[t][g])
    BY <2>1, SaySame
  <2>3. QED BY <2>2 DEF is, old
<1> HIDE DEF box
<1>6. labels'.status = statuses /\ labels'.box = box
  BY <1>1, <1>4 DEF View
<1>7. \A t \in Tracks, g \in Frames : Shown(t, g)' <=> Shown(t, g)
  <2>1. labels' \in View
    BY DEF IInv, TypeOK
  <2>2. ASSUME NEW v \in View, NEW t \in Tracks, NEW g \in Frames
        PROVE  Rect(v.box[t][g]) = None <=> v.box[t][g] = None
    BY RectShape, ViewShape
  <2>3. QED BY <1>4, <1>5, <1>6, <2>1, <2>2 DEF Shown
<1>8. QED BY <1>1, <1>2, <1>4, <1>6, <1>7

LEMMA MarkHonest ==
  ASSUME IInv, IInv', Honest, StackOld, Sure', NEW f \in Frames, NEW status \in Statuses, Mark(f, status)
  PROVE  Honest'
<1>1. PICK job, undo :
        /\ job.kind = "mark" /\ job.frame = f /\ job.status = status
        /\ job.before = labels.status[f]
        /\ undo.kind = "unmark" /\ undo.frame = f /\ undo.status = labels.status[f]
        /\ undo.n = made + 1
        /\ Enqueue(job)
        /\ undoStack' = IF labels.status[f] = status THEN undoStack ELSE Append(undoStack, undo)
        /\ labels'.status[f] = status
        /\ \A g \in Frames : g # f => labels'.status[g] = labels.status[g]
        /\ \A t \in Tracks, g \in Frames : Shown(t, g)' <=> Shown(t, g)
  BY MarkDoes
<1>2. /\ UNCHANGED <<api, page, flight>> /\ "hurried" \notin upset' /\ f \in FramesOf(page)
      /\ status = "empty" => \A t \in Tracks : ~Shown(t, f)
  BY DEF Mark, Sure
<1>3. /\ Len(queue) \in Nat /\ DOMAIN queue = 1..Len(queue)
      /\ DOMAIN queue' = 1..(Len(queue) + 1)
      /\ \A i \in DOMAIN queue : queue'[i] = queue[i]
      /\ queue'[Len(queue) + 1] = Placed(job)
      /\ queue' # <<>>
      /\ queue # <<>> => /\ Running' = Running /\ 1 \in DOMAIN queue /\ Len(queue) + 1 # 1
                         /\ \A i \in DOMAIN queue : queue[i].kind \notin Undos
      /\ queue = <<>> => Running' = Placed(job) /\ ~Landed /\ Len(queue) = 0
      /\ Reply' = Reply /\ (Landed' <=> Landed)
      /\ Placed(job).kind = "mark" /\ Placed(job).frame = f /\ Placed(job).status = status
      /\ Placed(job).before = labels.status[f] /\ Placed(job).n = made + 1
      /\ made' = made + 1
  BY <1>1, <1>2, EditWaits
<1>4. PICK m \in Nat : m = Len(queue)
  BY <1>3
<1>5. "putBack" \in Undos /\ "unmark" \in Undos /\ "mark" \notin Undos
  BY DEF Undos
<1>6. queue # <<>> => Running.kind \notin Undos
  BY <1>3 DEF Running
<1>7. labels' \in View /\ made \in Nat /\ undoStack \in Seq(Good)
  BY DEF IInv, TypeOK, Pending
<1>8. StatusTold'
  <2>1. Told(f)'
    <3>1. Unmade(m + 1, f)' /\ queue'[m + 1].status = labels'.status[f] /\ m + 1 \in DOMAIN queue'
      BY <1>1, <1>3, <1>4 DEF Unmade
    <3>2. \A k \in DOMAIN queue' : k <= m + 1
      BY <1>3, <1>4
    <3>3. Known(f)'
      BY <3>1, <3>2 DEF Known
    <3>4. QED BY <3>3 DEF Told
  <2>2. ASSUME NEW g \in FramesOf(page), g # f PROVE Told(g)'
    BY <1>1, <1>2, <2>2, FrameOnPage, EditFrame
  <2>3. QED BY <1>2, <2>1, <2>2 DEF StatusTold
<1>9. EmptyIsBare'
  <2>1. ASSUME status = "empty" PROVE Filling(f)' \/ NoneOn(api, f)
    <3>1. ASSUME NEW t \in Tracks, api.box[t][f] # None PROVE Filling(f)'
      <4>1. Landed /\ (Places(Running, Reply, t, f) \/ Copies(Running, Reply, t, f))
        BY <1>2, <2>1, <3>1 DEF Honest, OnFrames, BoxesShow
      <4>2. queue # <<>> /\ Running.kind # "putBack"
        BY <1>3, <1>5, <1>6, <4>1
      <4>3. Fills(Running, Reply, f)
        BY <4>1, <4>2 DEF Places, Copies, Fills
      <4>4. QED BY <1>3, <4>1, <4>2, <4>3 DEF Filling
    <3>2. QED BY <3>1 DEF NoneOn
  <2>2. ASSUME NEW g \in FramesOf(page), g # f, labels'.status[g] = "empty"
        PROVE  Filling(g)' \/ NoneOn(api, g)
    BY <1>1, <1>2, <2>2, FrameOnPage, EditFrame
  <2>3. QED BY <1>1, <1>2, <2>1, <2>2 DEF EmptyIsBare
<1>10. BoxesShow' /\ TakenGone' /\ Unmarked' /\ OneUndo' /\ RunningPut'
  BY <1>1, <1>2, EditRest
<1>11. DeletedShows'
  <2> SUFFICES ASSUME Landed', Running'.kind = "deleteBox"
               PROVE  Shown(Running.track, Running.frame)' /\ labels'.status[Running'.frame] # "empty"
    BY DEF DeletedShows
  <2>1. Landed /\ queue # <<>> /\ Running' = Running /\ Running.kind = "deleteBox"
    BY <1>3
  <2>2. Running.track \in Tracks /\ Running.frame \in Frames
    BY <2>1, Queued DEF Good, JobOK
  <2>3. Shown(Running.track, Running.frame) /\ labels.status[Running.frame] # "empty"
    BY <2>1 DEF Honest, OnFrames, DeletedShows
  <2>4. Shown(Running.track, Running.frame)'
    <3> DEFINE t == Running.track
               g == Running.frame
    <3>1. t' = t /\ g' = g
      BY <2>1
    <3>2. labels'.box[t][g] # None
      BY <1>1, <2>2, <2>3 DEF Shown
    <3>3. QED BY <3>1, <3>2 DEF Shown
  <2>5. labels'.status[Running.frame] # "empty"
    BY <1>1, <1>2, <2>2, <2>3
  <2>6. QED BY <2>1, <2>4, <2>5
<1>12. Marks'
  <2> SUFFICES ASSUME Marking' PROVE (MarkKnows /\ MarkEntry /\ MarkHas)'
    BY DEF Marks
  <2>1. PICK l \in Nat : /\ DOMAIN undoStack = 1..l
                         /\ \A i \in 1..l : undoStack'[i] = undoStack[i]
                         /\ \/ DOMAIN undoStack' = 1..l /\ labels.status[f] = status
                            \/ /\ labels.status[f] # status
                               /\ DOMAIN undoStack' = 1..(l + 1) /\ undoStack'[l + 1] = undo
    <3>1. CASE labels.status[f] = status
      <4>1. undoStack' = undoStack
        BY <1>1, <3>1
      <4>2. QED BY <1>7, <3>1, <4>1, LenProperties
    <3>2. CASE labels.status[f] # status
      <4>1. undoStack' = Append(undoStack, undo)
        BY <1>1, <3>2
      <4>2. PICK l \in Nat : l = Len(undoStack)
        BY <1>7, LenProperties
      <4>3. /\ DOMAIN undoStack = 1..l /\ DOMAIN Append(undoStack, undo) = 1..(l + 1)
            /\ \A i \in 1..l : Append(undoStack, undo)[i] = undoStack[i]
            /\ Append(undoStack, undo)[l + 1] = undo
        BY <1>7, <4>2, PushShape
      <4>4. QED BY <3>2, <4>1, <4>3
    <3>3. QED BY <3>1, <3>2
  <2>2. CASE queue = <<>>
    <3>1. MarkKnows'
      <4>1. DOMAIN queue = {} /\ ~Landed
        BY <1>3, <2>2
      <4>2. Told(f) /\ (labels.status[f] = "empty" => NoneOn(api, f))
        BY <1>2, <4>1 DEF Honest, OnFrames, StatusTold, EmptyIsBare, Filling
      <4>3. labels.status[f] # "unlabeled" => api.status[f] = labels.status[f]
        BY <4>1, <4>2 DEF Told, Filling, Known
      <4>4. QED BY <1>2, <1>3, <2>2, <4>2, <4>3 DEF MarkKnows
    <3>2. \A i \in 1..l : undoStack[i].n <= made /\ undoStack[i].n \in Nat
      <4>1. \A i \in 1..l : undoStack[i] \in Good
        BY <1>7, <2>1, ElementOfSeq, LenProperties
      <4>2. QED BY <2>1, <4>1, JobShape DEF StackOld, Good
    <3>3. \A i \in 1..l : ~Entry(i, Running.n)'
      BY <1>3, <1>7, <2>1, <2>2, <3>2 DEF Entry
    <3>4. MarkEntry'
      <4>1. ASSUME NEW i \in DOMAIN undoStack', Entry(i, Running.n)'
            PROVE  i = l + 1 /\ undoStack'[i] = undo /\ \A k \in DOMAIN undoStack' : ~(k > i)
        BY <2>1, <3>3, <4>1
      <4>2. QED BY <1>1, <1>3, <2>2, <4>1 DEF MarkEntry
    <3>5. MarkHas'
      <4>1. ASSUME labels.status[f] # status PROVE \E i \in DOMAIN undoStack' : Entry(i, Running.n)'
        <5>1. l + 1 \in DOMAIN undoStack' /\ undoStack'[l + 1] = undo
          BY <2>1, <4>1
        <5>2. Entry(l + 1, Running.n)'
          BY <1>1, <1>3, <2>2, <5>1 DEF Entry
        <5>3. QED BY <5>1, <5>2
      <4>2. QED BY <1>3, <2>2, <4>1 DEF MarkHas
    <3>6. QED BY <3>1, <3>4, <3>5
  <2>3. CASE queue # <<>>
    <3>1. Marking /\ Running' = Running /\ MarkKnows /\ MarkEntry /\ MarkHas
      BY <1>3, <2>3 DEF Honest, Marks, Marking
    <3>2. MarkKnows'
      BY <1>2, <3>1 DEF MarkKnows
    <3>3. Running.n <= made /\ Running.n \in Nat
      BY <2>3, Queued
    <3>4. \A i \in 1..l : Entry(i, Running.n)' <=> Entry(i, Running.n)
      BY <2>1, <3>1 DEF Entry
    <3>5. ~Entry(l + 1, Running.n)' \/ l + 1 \notin DOMAIN undoStack'
      BY <1>1, <1>7, <2>1, <3>1, <3>3 DEF Entry
    <3>6. MarkHas'
      BY <2>1, <3>1, <3>4 DEF MarkHas
    <3>7. \A q \in DOMAIN queue \ {1} : q \in DOMAIN queue' \ {1} /\ queue'[q] = queue[q]
      BY <1>3
    <3>8. \E q \in DOMAIN queue' \ {1} : queue'[q].kind = "mark" /\ queue'[q].frame = f
      BY <1>3, <2>3
    <3>9. MarkEntry'
      <4>1. ASSUME NEW i \in DOMAIN undoStack', Entry(i, Running.n)'
            PROVE  /\ i \in 1..l /\ Entry(i, Running.n) /\ undoStack'[i] = undoStack[i]
                   /\ undoStack[i].frame = Running.frame /\ undoStack[i].status = Running.before
        <5>1. i \in 1..l
          BY <2>1, <3>5, <4>1
        <5>2. QED BY <2>1, <3>1, <3>4, <4>1, <5>1 DEF MarkEntry
      <4>2. ASSUME NEW i \in DOMAIN undoStack', Entry(i, Running.n)', NEW k \in DOMAIN undoStack', k > i
            PROVE  /\ undoStack'[k].kind = "unmark"
                   /\ \E q \in DOMAIN queue' \ {1} :
                        queue'[q].kind = "mark" /\ queue'[q].frame = undoStack'[k].frame
        <5>1. CASE k \in 1..l
          <6>1. /\ undoStack[k].kind = "unmark" /\ undoStack'[k] = undoStack[k]
                /\ \E q \in DOMAIN queue \ {1} :
                     queue[q].kind = "mark" /\ queue[q].frame = undoStack[k].frame
            BY <2>1, <3>1, <4>1, <4>2, <5>1 DEF MarkEntry
          <6>2. QED BY <3>7, <6>1
        <5>2. CASE undoStack'[k] = undo
          BY <1>1, <3>8, <5>2
        <5>3. QED BY <2>1, <5>1, <5>2
      <4>3. QED BY <3>1, <4>1, <4>2 DEF MarkEntry
    <3>10. QED BY <3>2, <3>6, <3>9
  <2>4. QED BY <2>2, <2>3
<1>13. PutsOnDone'
  <2>1. PutsOnDone
    BY DEF Honest, UndosFit
  <2>2. \A g : Soon(g) = labels.status[g] /\ Soon(g)' = labels'.status[g]
    <3>1. queue # <<>> => Running.kind # "unmark"
      BY <1>5, <1>6
    <3>2. Running'.kind # "unmark"
      BY <1>3, <3>1
    <3>3. QED BY <3>1, <3>2 DEF Soon
  <2>3. CASE labels.status[f] = status
    <3>1. \A g \in Frames : labels'.status[g] = labels.status[g]
      BY <1>1, <2>3
    <3>2. UNCHANGED <<undoStack, page>>
      BY <1>1, <1>2, <2>3
    <3>3. QED BY <1>7, <2>1, <2>2, <3>1, <3>2, KeptPuts
  <2>4. CASE labels.status[f] # status
    <3>1. Pushes(undo)
      BY <1>1, <2>4 DEF Pushes
    <3>2. QED BY <1>1, <1>2, <1>7, <2>1, <2>2, <3>1, MarkedPuts
  <2>5. QED BY <2>3, <2>4
<1>14. QED BY <1>8, <1>9, <1>10, <1>11, <1>12, <1>13 DEF Honest, OnFrames, UndosFit

LEMMA MoveHonest ==
  ASSUME IInv, IInv', Honest, Sure', NEW t \in Tracks, NEW f \in Frames, NEW at \in Rects, Move(t, f, at),
         UNCHANGED <<api, page, undoStack, flight>>
  PROVE  Honest'
<1> DEFINE prev == labels.box[t][f]
           now == IF prev = None THEN Drawn(at)
                  ELSE [at |-> at, is |-> IF prev.is = "accepted" THEN "verified" ELSE prev.is]
           job == [Blank("move") EXCEPT !.track = t, !.frame = f, !.at = at, !.prev = prev]
<1>1. Enqueue(job) /\ labels' = Put(labels, t, f, now)
  BY DEF Move, Put
<1>2. now \in Box /\ now \in BoxOrNone /\ now # None
  <2>1. prev \in BoxOrNone
    BY OnScreen
  <2> HIDE DEF prev
  <2>2. now \in Box
    BY <2>1, Bits DEF BoxOrNone, Box
  <2> HIDE DEF now
  <2>3. QED BY <2>2, NoneAssumption DEF BoxOrNone, Box
<1>3. job.kind = "move"
  <2> HIDE DEF prev
  <2>1. QED BY DEF Blank
<1> HIDE DEF now, job
<1>4. labels \in View
  BY DEF IInv, TypeOK
<1>5. \A u \in Tracks, g \in Frames : Shown(u, g) => Shown(u, g)'
  BY <1>1, <1>2, <1>4, PutShows DEF Shown
<1>6. labels'.status = labels.status
  BY <1>1, <1>4 DEF Put, View
<1>7. job.kind \notin Undos /\ job.kind # "mark"
  BY <1>3 DEF Undos
<1>8. QED BY <1>1, <1>5, <1>6, <1>7, EditHonest

LEMMA WaitHonest ==
  ASSUME IInv, IInv', Honest, Sure', NEW job, Enqueue(job), job.kind \notin Undos, job.kind # "mark",
         UNCHANGED <<api, page, labels, undoStack, flight>>
  PROVE  Honest'
<1>1. \A t \in Tracks, f \in Frames : Shown(t, f) => Shown(t, f)'
  BY DEF Shown
<1>2. QED BY <1>1, EditHonest

LEMMA UndoHonest ==
  ASSUME IInv, IInv', Honest, Mirror, Sure', Undo
  PROVE  Honest'
<1>1. PICK job : job = undoStack[Len(undoStack)]
  OBVIOUS
<1>2. /\ Enqueue(job) /\ UNCHANGED <<api, page, labels, flight>>
      /\ undoStack' = SubSeq(undoStack, 1, Len(undoStack) - 1)
      /\ undoStack # <<>> /\ undoStack \in Seq(Good)
      /\ "hurried" \notin upset'
  BY <1>1 DEF Undo, Sure, IInv, Pending
<1>3. job.kind \in Undos
  <2>1. undoStack \in Seq(OwnUndos(api, page))
    BY DEF Mirror, OwnEdits
  <2>2. Len(undoStack) \in DOMAIN undoStack
    BY <1>2, LenProperties, EmptySeq
  <2>3. QED BY <1>1, <2>1, <2>2, ElementOfSeq, LenProperties DEF OwnUndos
<1>4. /\ queue = <<>> /\ queue' # <<>> /\ ~Landed /\ ~Landed'
      /\ Running'.kind = job.kind /\ Running'.frame = job.frame /\ Running'.status = job.status
  BY <1>2, <1>3, EditWaits
<1>5. job.kind # "mark"
  BY <1>3 DEF Undos
<1>6. \A f : Soon(f) = labels.status[f]
  BY <1>4 DEF Soon
<1>7. \A f : Soon(f)' = IF job.kind = "unmark" /\ job.frame = f THEN job.status ELSE Soon(f)
  BY <1>2, <1>4, <1>6 DEF Soon
<1>8. PutsOnDone' /\ (job.kind = "putBack" => Soon(job.frame) # "empty")
  BY <1>1, <1>2, <1>7, PoppedPuts DEF Honest, UndosFit
<1>9. BoxesShow' /\ TakenGone' /\ Unmarked' /\ OneUndo' /\ RunningPut'
  <2>1. \A t \in Tracks, f \in Frames : Shown(t, f) => Shown(t, f)'
    BY <1>2 DEF Shown
  <2>2. job.kind = "putBack" => labels'.status[job.frame] # "empty"
    BY <1>2, <1>6, <1>8
  <2>3. QED BY <1>2, <2>1, <2>2, EditRest
<1>10. StatusTold' /\ EmptyIsBare'
  <2>1. \A f \in FramesOf(page) : /\ Told(f)'
                                  /\ labels'.status[f] = "empty" => Filling(f)' \/ NoneOn(api, f)
    BY <1>2, <1>5, EditFrame
  <2>2. QED BY <1>2, <2>1 DEF StatusTold, EmptyIsBare
<1>11. DeletedShows' /\ Marks'
  BY <1>4, <1>5 DEF DeletedShows, Marks, Marking
<1>12. QED BY <1>8, <1>9, <1>10, <1>11 DEF Honest, OnFrames, UndosFit

LEMMA EditsHonest ==
  ASSUME IInv, IInv', Honest, Mirror, StackOld, Sure', Edit
  PROVE  Honest'
<1>1. /\ \A f \in FramesOf(page) : f \in Frames
      /\ selected \in Tracks \union {None}
      /\ \A t \in Tracks : Resolve(t) \in Tracks
  BY FrameOnPage, ResolveType, OnScreen
<1>2. ASSUME NEW t \in Tracks, NEW f \in Frames, NEW at \in Rects, MoveBox(t, f, at) PROVE Honest'
  BY <1>1, <1>2, MoveHonest DEF MoveBox
<1>3. ASSUME NEW f \in Frames, NEW at \in Rects, NEW type \in Types, DrawBox(f, at, type) PROVE Honest'
  <2>1. UNCHANGED <<api, page, undoStack, flight>>
    BY <1>3 DEF DrawBox
  <2>2. CASE selected # None /\ ~Shown(selected, f)
    BY <1>1, <1>3, <2>1, <2>2, MoveHonest DEF DrawBox
  <2>3. CASE ~(selected # None /\ ~Shown(selected, f))
    <3> DEFINE job == [Blank("draw") EXCEPT !.clip = IdOf(page), !.frame = f, !.at = at, !.type = type]
    <3>1. Enqueue(job) /\ UNCHANGED labels
      BY <1>3, <2>3 DEF DrawBox
    <3>2. job.kind \notin Undos /\ job.kind # "mark"
      BY DEF Blank, Undos
    <3> HIDE DEF job
    <3>3. QED BY <2>1, <3>1, <3>2, WaitHonest
  <2>4. QED BY <2>2, <2>3
<1>4. ASSUME NEW f \in Frames, DeleteSelected(f) PROVE Honest'
  <2> DEFINE t == Resolve(selected)
             job == [Blank("deleteBox") EXCEPT !.track = t, !.frame = f,
                       !.prev = labels.box[t][f], !.clip = labels.track[t].clip,
                       !.type = labels.track[t].type]
  <2>1. Enqueue(job) /\ UNCHANGED <<api, page, labels, undoStack, flight>>
    BY <1>4 DEF DeleteSelected, storeVars
  <2>2. job.kind \notin Undos /\ job.kind # "mark"
    <3> HIDE DEF t
    <3>1. QED BY DEF Blank, Undos
  <2> HIDE DEF job
  <2>3. QED BY <2>1, <2>2, WaitHonest
<1>5. ASSUME NEW t \in Tracks, DeleteWhole(t) PROVE Honest'
  <2> DEFINE u == Resolve(t)
             job == [Blank("deleteTrack") EXCEPT !.track = u, !.boxes = labels.box[u],
                       !.clip = labels.track[u].clip, !.type = labels.track[u].type]
  <2>1. Enqueue(job) /\ UNCHANGED <<api, page, labels, undoStack, flight>>
    BY <1>5 DEF DeleteWhole, storeVars
  <2>2. job.kind \notin Undos /\ job.kind # "mark"
    <3> HIDE DEF u
    <3>1. QED BY DEF Blank, Undos
  <2> HIDE DEF job
  <2>3. QED BY <2>1, <2>2, WaitHonest
<1>6. ASSUME NEW t \in Tracks, NEW type \in Types, Retype(t, type) PROVE Honest'
  <2> DEFINE u == Resolve(t)
             job == [Blank("update") EXCEPT !.track = u, !.type = type, !.old = labels.track[u].type]
  <2>1. Enqueue(job) /\ UNCHANGED <<api, page, labels, undoStack, flight>>
    BY <1>6 DEF Retype, storeVars
  <2>2. job.kind \notin Undos /\ job.kind # "mark"
    <3> HIDE DEF u
    <3>1. QED BY DEF Blank, Undos
  <2> HIDE DEF job
  <2>3. QED BY <2>1, <2>2, WaitHonest
<1>7. ASSUME NEW f \in Frames, NEW g \in Frames, CopyForward(f, g) PROVE Honest'
  <2> DEFINE job == [Blank("copy") EXCEPT !.from = f, !.frame = g]
  <2>1. Enqueue(job) /\ UNCHANGED <<api, page, labels, undoStack, flight>>
    BY <1>7 DEF CopyForward, storeVars
  <2>2. job.kind \notin Undos /\ job.kind # "mark"
    BY DEF Blank, Undos
  <2> HIDE DEF job
  <2>3. QED BY <2>1, <2>2, WaitHonest
<1>8. ASSUME NEW f \in Frames, NEW new \in Drawable, DrawBox(f, new[1], new[2]) PROVE Honest'
  BY <1>3, <1>8, DrawableAssumption
<1>9. QED BY <1>2, <1>4, <1>5, <1>6, <1>7, <1>8, MarkHonest, UndoHonest DEF Edit

(***************************************************************************)
(* A request is sent and served.                                            *)
(***************************************************************************)
LEMMA StartedSame ==
  ASSUME NEW j \in Job
  PROVE  /\ Started(j).kind = j.kind /\ Started(j).boxes = j.boxes
         /\ j.kind \in {"mark", "unmark"} => Started(j) = j
         /\ j.kind = "putBack" => Started(j).frame = j.frame
BY DEF Started, Job

LEMMA SendHonest ==
  ASSUME IInv, IInv', Apart, Honest, page \in Clips, Send
  PROVE  Honest'
<1> DEFINE j == Started(Running)
           over == j.kind = "recreate" /\ j.boxes = NoBoxes
<1>1. /\ queue # <<>> /\ flight = Idle /\ ~Landed /\ 1 \in DOMAIN queue
      /\ UNCHANGED <<api, page, labels, undoStack>>
      /\ Running \in Good /\ Running \in Job
  BY Queued DEF Send, IInv, InFlight, storeVars, Landed, Idle, Good
<1>2. /\ j.kind = Running.kind /\ j.boxes = Running.boxes
      /\ Running.kind \in {"mark", "unmark"} => j = Running
      /\ Running.kind = "putBack" => j.frame = Running.frame
  <2> DEFINE r == Running
  <2>1. r \in Job
    BY <1>1
  <2> HIDE DEF r
  <2>2. /\ Started(r).kind = r.kind /\ Started(r).boxes = r.boxes
        /\ r.kind \in {"mark", "unmark"} => Started(r) = r
        /\ r.kind = "putBack" => Started(r).frame = r.frame
    BY <2>1, StartedSame
  <2>3. QED BY <2>2 DEF r
<1>3. CASE over
  <2>1. queue' = Tail(queue) /\ UNCHANGED flight
    BY <1>3 DEF Send
  <2>2. ~Landed'
    BY <1>1, <2>1 DEF Landed, Idle
  <2>3. queue' = <<>>
    <3>1. Running.kind \in Undos
      BY <1>2, <1>3 DEF Undos
    <3>2. Len(queue) = 1
      BY <1>1, <3>1 DEF Honest, UndosFit, OneUndo, Running
    <3>3. queue \in Seq(Good) /\ Tail(queue) \in Seq(Good) /\ Len(Tail(queue)) = 0
      BY <1>1, <3>2, HeadTailProperties DEF IInv, Pending
    <3>4. QED BY <2>1, <3>3, EmptySeq
  <2>4. DOMAIN queue' = {}
    BY <2>3
  <2>5. Running.kind = "recreate"
    BY <1>2, <1>3
  <2>6. StatusTold'
    <3>1. ASSUME NEW f \in FramesOf(page) PROVE Told(f)'
      <4>1. labels.status[f] = "unlabeled" \/ Known(f)
        BY <1>1 DEF Honest, OnFrames, StatusTold, Told, Filling
      <4>2. ~Unmade(1, f) /\ labels'.status[f] = labels.status[f]
        BY <1>1, <2>5 DEF Unmade, Running
      <4>3. Known(f) => Known(f)'
        BY <1>1, <2>1, <2>2, <4>2, KnownAfter
      <4>4. QED BY <4>1, <4>2, <4>3 DEF Told
    <3>2. QED BY <1>1, <3>1 DEF StatusTold
  <2>7. EmptyIsBare' /\ BoxesShow'
    BY <1>1 DEF Honest, OnFrames, EmptyIsBare, BoxesShow, Filling, Shown
  <2>8. TakenGone' /\ DeletedShows' /\ Unmarked' /\ Marks' /\ OneUndo' /\ RunningPut'
    BY <2>2, <2>3, <2>4 DEF TakenGone, DeletedShows, Unmarked, Marks, Marking, OneUndo, RunningPut
  <2>9. PutsOnDone'
    <3>1. \A f : Soon(f)' = Soon(f)
      BY <1>1, <2>3, <2>5 DEF Soon
    <3>2. QED BY <1>1, <3>1, KeptPuts DEF Honest, UndosFit
  <2>10. QED BY <2>6, <2>7, <2>8, <2>9 DEF Honest, OnFrames, UndosFit
<1>4. CASE ~over
  <2>1. j \in Good
    BY <1>1, <1>2, <1>4, StartedGood
  <2>2. backend = "api"
    BY NoGoldClip DEF Apart, BackendFor
  <2>3. queue' = <<j>> \o Tail(queue) /\ flight' = [Idle EXCEPT !.at = "sent"]
    BY <1>4, <2>2 DEF Send
  <2> HIDE DEF j
  <2>4. ~Landed'
    BY <2>3 DEF Landed, Idle
  <2>5. /\ queue' # <<>> /\ Running' = j /\ DOMAIN queue' = DOMAIN queue
        /\ \A i \in DOMAIN queue : i # 1 => queue'[i] = queue[i]
        /\ queue'[1] = j
    BY <1>1, <2>1, <2>3, ChangeShape DEF Running
  <2>6. \A i \in DOMAIN queue : /\ queue'[i].kind = queue[i].kind
                                /\ queue[i].kind = "mark" => queue'[i] = queue[i]
    BY <1>2, <2>5 DEF Running
  <2>7. \A i \in DOMAIN queue : \A f : Unmade(i, f)' <=> Unmade(i, f)
    BY <1>1, <2>4, <2>6 DEF Unmade
  <2>8. \A f : Known(f)' <=> Known(f)
    <3> TAKE f
    <3>1. \A i \in DOMAIN queue : /\ Unmade(i, f)' <=> Unmade(i, f)
                                  /\ Unmade(i, f) => queue'[i] = queue[i]
      BY <2>6, <2>7 DEF Unmade
    <3>2. UNCHANGED <<api, labels>> /\ DOMAIN queue' = DOMAIN queue
      BY <1>1, <2>5
    <3>3. QED BY <3>1, <3>2 DEF Known
  <2>9. StatusTold' /\ EmptyIsBare' /\ BoxesShow'
    BY <1>1, <2>4, <2>8 DEF Honest, OnFrames, StatusTold, Told, EmptyIsBare, BoxesShow, Filling, Shown
  <2>10. TakenGone' /\ DeletedShows' /\ Unmarked'
    BY <2>4 DEF TakenGone, DeletedShows, Unmarked
  <2>11. Marks'
    <3> SUFFICES ASSUME Marking' PROVE (MarkKnows /\ MarkEntry /\ MarkHas)'
      BY DEF Marks
    <3>1. Marking /\ Running' = Running
      BY <1>1, <1>2, <2>5 DEF Marking
    <3>2. MarkKnows /\ MarkEntry /\ MarkHas
      BY <3>1 DEF Honest, Marks
    <3>3. MarkKnows' /\ MarkHas'
      BY <1>1, <3>1, <3>2 DEF MarkKnows, MarkHas, Entry
    <3>4. MarkEntry'
      BY <1>1, <2>5, <3>1, <3>2 DEF MarkEntry, Entry
    <3>5. QED BY <3>3, <3>4
  <2>12. OneUndo'
    <3>1. Len(queue') = Len(queue)
      <4>1. queue \in Seq(Good) /\ queue' \in Seq(Good)
        BY DEF IInv, Pending
      <4>2. /\ Len(queue) \in Nat /\ Len(queue') \in Nat
            /\ 1..Len(queue) = 1..Len(queue')
        BY <2>5, <4>1, LenProperties
      <4>3. QED BY <4>2
    <3>2. QED BY <2>5, <2>6, <3>1 DEF Honest, UndosFit, OneUndo
  <2>13. PutsOnDone'
    <3>1. \A f : Soon(f)' = Soon(f)
      BY <1>1, <1>2, <2>5 DEF Soon
    <3>2. QED BY <1>1, <3>1, KeptPuts DEF Honest, UndosFit
  <2>14. RunningPut'
    BY <1>1, <1>2, <2>5 DEF Honest, UndosFit, RunningPut
  <2>15. QED BY <2>9, <2>10, <2>11, <2>12, <2>13, <2>14 DEF Honest, OnFrames, UndosFit
<1>5. QED BY <1>3, <1>4

LEMMA LoseHonest ==
  ASSUME IInv, Honest, OwnFlight, LoseRequest
  PROVE  Honest'
<1>1. /\ flight.at = "sent" /\ flight' = [flight EXCEPT !.at = "answered"]
      /\ UNCHANGED <<api, page, labels, undoStack, queue>>
  BY DEF LoseRequest, storeVars
<1>2. flight.answer = Refusal
  BY <1>1 DEF OwnFlight
<1>3. ~Landed /\ ~Landed'
  <2>1. flight'.answer = flight.answer
    BY <1>1, FlightShape DEF Flight
  <2>2. ~Refusal.ok
    BY DEF Refusal
  <2>3. QED BY <1>1, <1>2, <2>1, <2>2 DEF Landed, Reply
<1>4. QED BY <1>1, <1>3, HonestSame

(* What the API does to the boxes of the clip's frames. *)
LEMMA BoxesSaved ==
  ASSUME IInv, NEW j \in Good, NEW now \in Rows, NEW a, Effect(api, now, j, a), a.ok,
         OnItsWay(api, page, j), page \in Clips, NEW t \in Tracks, NEW f \in FramesOf(page)
  PROVE  /\ Takes(j, a, t, f) => now.box[t][f] = None
         /\ now.box[t][f] # None => \/ Places(j, a, t, f) \/ Copies(j, a, t, f)
                                    \/ api.box[t][f] # None
<1>1. api \in Rows /\ f \in Frames /\ ClipOf[f] = page
  BY FrameOnPage, FlightShape
<1>2. SavedBox(now, page, t, f) = BoxSet(j, a, t, f, SavedBox(api, page, t, f))
  BY <1>1, SavedAs
<1>3. Rect(now.box[t][f]) = BoxSet(j, a, t, f, Rect(api.box[t][f]))
  BY <1>1, <1>2 DEF SavedBox
<1>4. ASSUME NEW rows \in Rows PROVE Rect(rows.box[t][f]) = None <=> rows.box[t][f] = None
  BY <1>1, RowsShape, RectShape
<1>5. ~(Takes(j, a, t, f) /\ Places(j, a, t, f))
  BY DEF Takes, Drops, Places
<1>6. QED BY <1>1, <1>3, <1>4, <1>5 DEF BoxSet

LEMMA ServeTold ==
  ASSUME IInv, Honest, ~Landed, Landed', queue # <<>>, UNCHANGED <<page, labels, queue>>,
         NEW f \in FramesOf(page),
         api'.status[f] = StatusSet(Running, Reply', f, api.status[f])
  PROVE  Told(f)'
<1>1. labels.status[f] = "unlabeled" \/ Known(f)
  BY DEF Honest, OnFrames, StatusTold, Told, Filling
<1>2. Running' = Running /\ Running = queue[1] /\ 1 \in DOMAIN queue
  BY Queued DEF Running
<1>3. \A i : Unmade(i, f)' <=> Unmade(i, f) /\ i # 1
  BY DEF Unmade
<1>4. CASE labels.status[f] = "unlabeled"
  BY <1>4 DEF Told
<1>5. CASE api.status[f] = labels.status[f] /\ \A i \in DOMAIN queue : ~Unmade(i, f)
  <2>1. ~(Running.kind = "mark" /\ Running.frame = f)
    BY <1>2, <1>5 DEF Unmade
  <2>2. CASE Running.kind = "unmark" /\ Running.frame = f
    BY <1>2, <2>2 DEF Told
  <2>3. CASE Fills(Running, Reply', f) /\ api.status[f] = "empty"
    BY <1>2, <1>5, <2>3 DEF Told, Filling
  <2>4. ~(Running.kind = "putBack" /\ Running.frame = f /\ api.status[f] = "empty")
    BY <1>5 DEF Honest, UndosFit, RunningPut
  <2>5. CASE api'.status[f] = api.status[f]
    BY <1>3, <1>5, <2>5 DEF Told, Known
  <2>6. QED BY <2>1, <2>2, <2>3, <2>4, <2>5 DEF StatusSet
<1>6. ASSUME NEW i \in DOMAIN queue, Unmade(i, f), queue[i].status = labels.status[f],
             \A k \in DOMAIN queue : Unmade(k, f) => k <= i
      PROVE  Told(f)'
  <2>1. CASE i = 1
    <3>1. Running.kind = "mark" /\ Running.frame = f /\ Running.status = labels.status[f]
      BY <1>2, <1>6, <2>1 DEF Unmade
    <3>2. api'.status[f] = labels.status[f]
      BY <3>1 DEF StatusSet
    <3>3. DOMAIN queue = 1..Len(queue) /\ Len(queue) \in Nat
      BY Queued
    <3>4. \A k \in DOMAIN queue : ~Unmade(k, f)'
      BY <1>3, <1>6, <2>1, <3>3
    <3>5. QED BY <3>2, <3>4 DEF Told, Known
  <2>2. CASE i # 1
    BY <1>3, <1>6, <2>2 DEF Told, Known
  <2>3. QED BY <2>1, <2>2
<1>7. QED BY <1>1, <1>4, <1>5, <1>6 DEF Known

LEMMA ServeHonest ==
  ASSUME IInv, IInv', Mirror, Honest, page \in Clips, Serve
  PROVE  Honest'
<1> DEFINE done == Handle(api, RequestOf(Running))
           j == Running
           a == done.answer
           rows == done.rows
<1>1. /\ api' = rows /\ flight' = [flight EXCEPT !.at = "answered", !.answer = a]
      /\ flight.at = "sent" /\ ~Landed
      /\ UNCHANGED <<page, labels, undoStack, queue>>
  BY DEF Serve, storeVars, Landed
<1>2. /\ queue # <<>> /\ j \in Good /\ OnItsWay(api, page, j)
      /\ api \in Rows /\ rows \in Rows
  BY <1>1, InTransit, FlightShape DEF Mirror, OwnFlight, IInv, TypeOK
<1>3. Effect(api, rows, j, a)
  BY <1>2, HandleDoes DEF OnItsWay
<1>4. flight'.at = "answered" /\ Reply' = a /\ (Landed' <=> a.ok) /\ Running' = j
  <2> HIDE DEF a
  <2>1. flight'.at = "answered" /\ flight'.answer = a
    BY <1>1, FlightShape DEF Flight
  <2>2. QED BY <1>1, <2>1 DEF Landed, Reply, Running
<1>5. a.ok =>
        /\ \A f \in Frames : rows.status[f] = StatusSet(j, a, f, api.status[f])
        /\ j.kind = "deleteBox" => api.box[j.track][j.frame] # None
        /\ j.kind \in {"mark", "unmark"} /\ j.status = "empty" => NoneOn(rows, j.frame)
  <2>1. j.kind \in {"recreate", "refill"} => j.at \in Rects /\ j.frame \in Frames
    BY <1>2 DEF OnItsWay
  <2> HIDE DEF done, j
  <2>2. done = Handle(api, RequestOf(j))
    BY DEF done, j
  <2>3. QED BY <1>2, <2>1, <2>2, HandleStatus
<1> HIDE DEF done, a, rows, j
<1>6. CASE ~a.ok
  <2>1. rows = api
    BY <1>3, <1>6 DEF Effect
  <2>2. QED BY <1>1, <1>4, <1>6, <2>1, HonestSame
<1>7. CASE a.ok
  <2>1. \A t \in Tracks, f \in FramesOf(page) :
          /\ Takes(j, a, t, f) => rows.box[t][f] = None
          /\ rows.box[t][f] # None => \/ Places(j, a, t, f) \/ Copies(j, a, t, f)
                                      \/ api.box[t][f] # None
    BY <1>2, <1>3, <1>7, BoxesSaved
  <2>2. \A f \in FramesOf(page) : labels.status[f] = "empty" => NoneOn(api, f)
    BY <1>1 DEF Honest, OnFrames, EmptyIsBare, Filling
  <2>3. \A t \in Tracks, f \in FramesOf(page) : api.box[t][f] # None => Shown(t, f)
    BY <1>1 DEF Honest, OnFrames, BoxesShow
  <2>4. j.kind = "putBack" => labels.status[j.frame] # "empty"
    BY <1>2 DEF Honest, UndosFit, RunningPut, j
  <2>5. StatusTold'
    <3>1. ASSUME NEW f \in FramesOf(page) PROVE Told(f)'
      <4>1. api'.status[f] = StatusSet(j, a, f, api.status[f])
        BY <1>1, <1>5, <1>7, FrameOnPage
      <4>2. QED BY <1>1, <1>2, <1>4, <1>7, <4>1, ServeTold DEF j
    <3>2. QED BY <1>1, <3>1 DEF StatusTold
  <2>6. EmptyIsBare'
    <3>1. ASSUME NEW f \in FramesOf(page), labels.status[f] = "empty", ~Fills(j, a, f),
                 NEW t \in Tracks, rows.box[t][f] # None
          PROVE  FALSE
      <4>1. api.box[t][f] = None
        BY <2>2, <3>1 DEF NoneOn
      <4>2. Places(j, a, t, f) \/ Copies(j, a, t, f)
        BY <2>1, <3>1, <4>1
      <4>3. j.kind = "putBack" /\ f = j.frame
        BY <3>1, <4>2 DEF Places, Copies, Fills
      <4>4. QED BY <2>4, <3>1, <4>3
    <3>2. QED BY <1>1, <1>4, <1>7, <3>1 DEF EmptyIsBare, Filling, NoneOn
  <2>7. BoxesShow'
    BY <1>1, <1>4, <1>7, <2>1, <2>3 DEF BoxesShow, Shown
  <2>8. TakenGone'
    BY <1>1, <1>4, <1>7, <2>1 DEF TakenGone
  <2>9. DeletedShows'
    <3>1. ASSUME j.kind = "deleteBox"
          PROVE  Shown(j.track, j.frame) /\ labels.status[j.frame] # "empty"
      <4>1. j.frame \in FramesOf(page)
        BY <1>2, <3>1, NoGoldClip DEF OnItsWay, Own, OfPage, Good, JobOK, FramesOf
      <4>2. j.track \in Tracks /\ api.box[j.track][j.frame] # None
        BY <1>2, <1>5, <1>7, <3>1 DEF Good, JobOK
      <4>3. QED BY <2>2, <2>3, <4>1, <4>2 DEF NoneOn
    <3>2. QED BY <1>1, <1>4, <3>1 DEF DeletedShows, Shown
  <2>10. Unmarked'
    <3>1. ASSUME j.kind = "unmark"
          PROVE  rows.status[j.frame] = j.status /\ (j.status = "empty" => NoneOn(rows, j.frame))
      <4>1. j.frame \in Frames
        BY <1>2, <3>1 DEF Good, JobOK
      <4>2. QED BY <1>5, <1>7, <3>1, <4>1 DEF StatusSet
    <3>2. QED BY <1>1, <1>4, <3>1 DEF Unmarked, NoneOn
  <2>11. Marks'
    BY <1>4, <1>7 DEF Marks, Marking
  <2>12. UndosFit'
    BY <1>1, <1>4 DEF Honest, UndosFit, OneUndo, PutsOnDone, PutOn, First, Above, Soon, RunningPut, j
  <2>13. QED
    BY <2>5, <2>6, <2>7, <2>8, <2>9, <2>10, <2>11, <2>12 DEF Honest, OnFrames
<1>8. QED BY <1>6, <1>7

(***************************************************************************)
(* What an answer does to the queue and the undo stack.                     *)
(***************************************************************************)
LEMMA HeadKept ==
  ASSUME IInv, IInv', queue # <<>>, NEW j, queue' = <<j>> \o Tail(queue)
  PROVE  j \in Good
<1> DEFINE S == Good \union {j}
           rest == Tail(queue)
<1>1. rest \in Seq(S) /\ <<j>> \in Seq(S) /\ Len(<<j>>) = 1 /\ <<j>>[1] = j
  <2>1. rest \in Seq(Good) /\ Good \subseteq S /\ j \in S
    BY HeadTailProperties DEF IInv, Pending
  <2>2. rest \in Seq(S)
    BY <2>1, SeqMonotonic
  <2> HIDE DEF S
  <2>3. QED BY <2>1, <2>2
<1> HIDE DEF S
<1>2. Len(rest) \in Nat
  BY <1>1, LenProperties
<1>3. /\ queue' \in Seq(S) /\ Len(queue') = 1 + Len(rest)
      /\ \A i \in 1..(1 + Len(rest)) : queue'[i] = IF i <= 1 THEN <<j>>[i] ELSE rest[i - 1]
  BY <1>1, ConcatProperties
<1>4. queue'[1] = j /\ 1 \in 1..Len(queue')
  BY <1>1, <1>2, <1>3
<1>5. queue' \in Seq(Good)
  BY DEF IInv, Pending
<1>6. QED BY <1>4, <1>5, ElementOfSeq

LEMMA SavedQueue ==
  ASSUME IInv, IInv', Answers, Reply.ok
  PROVE  \/ queue' = Tail(queue)
         \/ \E j \in Good : /\ j.kind \in {"refill", "uncopy"} /\ Running.kind \in {"recreate", "refill", "uncopy"}
                            /\ queue' = <<j>> \o Tail(queue)
<1>1. queue # <<>> /\ Running \in Job
  BY AnswersEnd, Queued DEF Good
<1>2. ASSUME NEW j, NEW more, GoesOn(j, more), j.kind \in {"refill", "uncopy"}, Running.kind \in {"recreate", "refill", "uncopy"}
      PROVE  \/ queue' = Tail(queue)
             \/ \E i \in Good : /\ i.kind \in {"refill", "uncopy"} /\ Running.kind \in {"recreate", "refill", "uncopy"}
                                /\ queue' = <<i>> \o Tail(queue)
  BY <1>1, <1>2, HeadKept DEF GoesOn
<1> DEFINE boxes == [Running.boxes EXCEPT ![Running.frame] = None]
           left == Running.tracks \ {Least(Running.tracks)}
           new == [Blank("refill") EXCEPT !.n = Running.n, !.page = Running.page,
                                          !.track = Reply.track, !.boxes = boxes]
<1>3. CASE Recreate
  <2>1. Running.kind \in {"recreate", "refill", "uncopy"}
    BY <1>3 DEF Recreate, Answered
  <2>2. new.kind = "refill"
    BY DEF Blank
  <2>3. \E more : GoesOn(new, more)
    BY <1>3 DEF Recreate
  <2> HIDE DEF new
  <2>4. QED BY <1>2, <2>1, <2>2, <2>3
<1>4. CASE Refill
  <2> DEFINE next == [Running EXCEPT !.boxes = boxes]
  <2>1. Running.kind = "refill" /\ Running.kind \in {"recreate", "refill", "uncopy"}
    BY <1>4 DEF Refill, Answered
  <2>2. next.kind = "refill"
    <3> HIDE DEF boxes
    <3>1. QED BY <1>1, <2>1 DEF Job
  <2>3. \E more : GoesOn(next, more)
    BY <1>4 DEF Refill
  <2> HIDE DEF next
  <2>4. QED BY <1>2, <2>1, <2>2, <2>3
<1>5. CASE Uncopy
  <2> DEFINE next == [Running EXCEPT !.tracks = left]
  <2>1. Running.kind = "uncopy" /\ Running.kind \in {"recreate", "refill", "uncopy"}
    BY <1>5 DEF Uncopy, Answered
  <2>2. next.kind = "uncopy"
    <3> HIDE DEF left
    <3>1. QED BY <1>1, <2>1 DEF Job
  <2>3. \E more : GoesOn(next, more)
    BY <1>5 DEF Uncopy
  <2> HIDE DEF next
  <2>4. QED BY <1>2, <2>1, <2>2, <2>3
<1>6. CASE ~(Recreate \/ Refill \/ Uncopy)
  BY <1>6 DEF Answers, SavedDraw, SavedMove, SavedDeleteBox, SavedDeleteTrack, SavedUpdate,
              SavedCopy, SavedMark, FailedMove, FailedMark, FailedOther, Undraw, PutBack,
              RemoveBox, Rename, Unmark, Undone, Saved, Ends
<1>7. QED BY <1>3, <1>4, <1>5, <1>6

(* What is pushed undoes the edit; it is no undo of a mark. *)
Undoes(e) ==
  /\ e.kind # "unmark" /\ e.n = 0
  /\ e.kind = "putBack" => Running.kind \in {"move", "deleteBox"} /\ e.frame = Running.frame

LEMMA SavedEntry ==
  ASSUME Answers, Reply.ok
  PROVE  UNCHANGED undoStack \/ \E e : Pushes(e) /\ Undoes(e)
<1> DEFINE j == Running
           t == j.track
           f == j.frame
           new == Reply.track
           clip == j.clip
           type == j.type
           old == j.old
           at == j.prev.at
           boxes == j.boxes
           box == [NoBoxes EXCEPT ![f] = j.prev]
           copied == {u \in Tracks : Reply.made[u] # None}
           undraw == [Blank("undraw") EXCEPT !.track = new]
           put == [Blank("putBack") EXCEPT !.track = t, !.frame = f, !.at = at]
           remove == [Blank("remove") EXCEPT !.track = t, !.frame = f]
           one == [Blank("recreate") EXCEPT !.track = t, !.clip = clip, !.type = type, !.boxes = box]
           all == [Blank("recreate") EXCEPT !.track = t, !.clip = clip, !.type = type, !.boxes = boxes]
           rename == [Blank("rename") EXCEPT !.track = t, !.type = old]
           uncopy == [Blank("uncopy") EXCEPT !.frame = f, !.tracks = copied]
<1>1. CASE SavedDraw
  <2>1. Pushes(undraw)
    BY <1>1 DEF SavedDraw
  <2> HIDE DEF new
  <2>2. undraw.kind = "undraw" /\ undraw.n = 0
    BY DEF Blank
  <2>3. QED BY <2>1, <2>2 DEF Undoes
<1>2. CASE SavedMove \/ SavedDeleteBox
  <2>1. j.kind \in {"move", "deleteBox"}
    BY <1>2 DEF SavedMove, SavedDeleteBox, Saved, Answered
  <2>2. Pushes(put) \/ Pushes(remove) \/ Pushes(one)
    BY <1>2 DEF SavedMove, SavedDeleteBox
  <2>3. /\ put.kind = "putBack" /\ put.n = 0 /\ put.frame = f
        /\ remove.kind = "remove" /\ remove.n = 0
        /\ one.kind = "recreate" /\ one.n = 0
    <3> HIDE DEF t, f, at, clip, type, box
    <3>1. QED BY DEF Blank
  <2> HIDE DEF put, remove, one
  <2>4. QED BY <2>1, <2>2, <2>3 DEF Undoes
<1>3. CASE SavedDeleteTrack
  <2>1. Pushes(all)
    BY <1>3 DEF SavedDeleteTrack
  <2>2. all.kind = "recreate" /\ all.n = 0
    <3> HIDE DEF t, clip, type, boxes
    <3>1. QED BY DEF Blank
  <2>3. QED BY <2>1, <2>2 DEF Undoes
<1>4. CASE SavedUpdate
  <2>1. Pushes(rename)
    BY <1>4 DEF SavedUpdate
  <2>2. rename.kind = "rename" /\ rename.n = 0
    <3> HIDE DEF t, old
    <3>1. QED BY DEF Blank
  <2>3. QED BY <2>1, <2>2 DEF Undoes
<1>5. CASE SavedCopy
  <2>1. UNCHANGED undoStack \/ Pushes(uncopy)
    BY <1>5 DEF SavedCopy
  <2>2. uncopy.kind = "uncopy" /\ uncopy.n = 0
    <3> HIDE DEF f, copied
    <3>1. QED BY DEF Blank
  <2>3. QED BY <2>1, <2>2 DEF Undoes
<1>6. CASE SavedMark \/ Undraw \/ PutBack \/ RemoveBox \/ Rename \/ Unmark \/ Recreate \/ Refill \/ Uncopy
  BY <1>6 DEF SavedMark, Undraw, PutBack, RemoveBox, Rename, Unmark, Undone, Recreate, Refill, Uncopy, GoesOn
<1>7. ~FailedMove /\ ~FailedMark /\ ~FailedOther
  BY DEF FailedMove, FailedMark, FailedOther, Answered
<1>8. QED BY <1>1, <1>2, <1>3, <1>4, <1>5, <1>6, <1>7 DEF Answers

(* What runs next after an edit ended or went on. *)
LEMMA NextRuns ==
  ASSUME IInv, IInv', queue # <<>>, OneUndo, PutsBack,
         \/ queue' = Tail(queue)
         \/ \E j \in Good : /\ j.kind \in {"refill", "uncopy"} /\ Running.kind \in {"recreate", "refill", "uncopy"}
                            /\ queue' = <<j>> \o Tail(queue)
  PROVE  /\ OneUndo'
         /\ queue' # <<>> => /\ Running'.kind \notin {"unmark", "putBack"}
                             /\ ~(Running'.kind = "mark" /\ Running'.alone)
         /\ Running.kind \in {"mark", "unmark"} => queue' = Tail(queue)
         /\ Running.kind = "unmark" => queue' = <<>>
<1>1. PICK m \in Nat \ {0} : m = Len(queue)
  BY TailWaits
<1>2. DOMAIN queue = 1..m
  BY <1>1, TailWaits
<1>3. queue' \in Seq(Good)
  BY DEF IInv, Pending
<1>4. Running.kind \in Undos => m = 1
  BY <1>1, <1>2 DEF OneUndo, Running
<1>5. CASE queue' = Tail(queue)
  <2>1. /\ DOMAIN queue' = 1..(m - 1) /\ Len(queue') = m - 1
        /\ \A i \in 1..(m - 1) : queue'[i] = queue[i + 1]
    BY <1>1, <1>5, TailWaits
  <2>2. m = 1 => queue' = <<>>
    BY <1>3, <2>1, EmptySeq
  <2>3. \A i \in 1..(m - 1) : queue'[i].kind \notin Undos /\ ~queue'[i].alone
    <3> TAKE i \in 1..(m - 1)
    <3>1. i + 1 \in DOMAIN queue /\ i + 1 # 1 /\ m # 1
      BY <1>2
    <3>2. queue[i + 1].kind \notin Undos /\ ~queue[i + 1].alone
      BY <1>1, <3>1 DEF OneUndo, PutsBack
    <3>3. QED BY <2>1, <3>2
  <2>4. OneUndo'
    BY <2>1, <2>3 DEF OneUndo
  <2>5. queue' # <<>> => 1 \in 1..(m - 1)
    BY <1>1, <2>2
  <2>6. queue' # <<>> => Running'.kind \notin Undos /\ ~Running'.alone
    BY <2>3, <2>5 DEF Running
  <2>7. "unmark" \in Undos /\ "putBack" \in Undos
    BY DEF Undos
  <2>8. QED BY <1>4, <1>5, <2>2, <2>4, <2>6, <2>7
<1>6. ASSUME NEW j \in Good, j.kind \in {"refill", "uncopy"}, Running.kind \in {"recreate", "refill", "uncopy"},
             queue' = <<j>> \o Tail(queue)
      PROVE  /\ OneUndo'
             /\ queue' # <<>> /\ Running'.kind \in {"refill", "uncopy"}
  <2>1. queue' # <<>> /\ Running' = j /\ DOMAIN queue' = DOMAIN queue
    BY <1>6, ChangeShape
  <2>2. Len(queue') = 1
    <3>1. Len(queue') \in Nat /\ DOMAIN queue' = 1..Len(queue')
      BY <1>3, LenProperties
    <3>0. m = 1
      BY <1>4, <1>6 DEF Undos
    <3>2. 1..Len(queue') = 1..1
      BY <1>2, <2>1, <3>0, <3>1
    <3>3. QED BY <3>1, <3>2
  <2>3. QED BY <1>6, <2>1, <2>2 DEF OneUndo
<1>7. CASE queue' # Tail(queue)
  <2>1. PICK j \in Good : /\ j.kind \in {"refill", "uncopy"} /\ Running.kind \in {"recreate", "refill", "uncopy"}
                          /\ queue' = <<j>> \o Tail(queue)
    BY <1>7
  <2>2. OneUndo' /\ queue' # <<>> /\ Running'.kind \in {"refill", "uncopy"}
    BY <1>6, <2>1
  <2>3. QED BY <2>1, <2>2
<1>8. QED BY <1>5, <1>7

(***************************************************************************)
(* The screen takes an answer in.                                           *)
(***************************************************************************)
LEMMA SavedTold ==
  ASSUME IInv, Landed, ~Landed', queue # <<>>, UNCHANGED <<api, page>>,
         Unmarked, NEW f \in FramesOf(page), Told(f),
         labels'.status[f] = StatusShown(Running, Reply, f, labels.status[f]),
         \/ queue' = Tail(queue)
         \/ \E j \in Good : j.kind # "mark" /\ queue' = <<j>> \o Tail(queue),
         Running.kind = "unmark" => queue' = <<>>
  PROVE  Told(f)'
<1>1. ~Unmade(1, f)
  BY DEF Unmade
<1>2. CASE Running.kind = "unmark" /\ Running.frame = f
  <2>1. labels'.status[f] = api'.status[f]
    BY <1>2 DEF StatusShown, Unmarked
  <2>2. DOMAIN queue' = {}
    BY <1>2
  <2>3. QED BY <2>1, <2>2 DEF Told, Known
<1>3. CASE Fills(Running, Reply, f) /\ labels.status[f] = "empty" /\ Running.kind # "unmark"
  BY <1>3 DEF StatusShown, Told
<1>4. CASE /\ ~(Running.kind = "unmark" /\ Running.frame = f)
           /\ ~(Fills(Running, Reply, f) /\ labels.status[f] = "empty")
  <2>1. labels'.status[f] = labels.status[f]
    BY <1>4 DEF StatusShown
  <2>2. labels.status[f] = "unlabeled" \/ Known(f)
    BY <1>4 DEF Told, Filling
  <2>3. ASSUME Known(f) PROVE Known(f)'
    <3>1. CASE queue' = Tail(queue)
      BY <1>1, <2>1, <2>3, <3>1, KnownAfter
    <3>2. ASSUME NEW j \in Good, j.kind # "mark", queue' = <<j>> \o Tail(queue) PROVE Known(f)'
      BY <1>1, <2>1, <2>3, <3>2, KnownOn
    <3>3. QED BY <3>1, <3>2
  <2>4. QED BY <2>1, <2>2, <2>3 DEF Told
<1>5. Fills(Running, Reply, f) => Running.kind # "unmark"
  BY DEF Fills
<1>6. QED BY <1>2, <1>3, <1>4, <1>5

LEMMA SavedBoxes ==
  ASSUME IInv, Answers, Reply.ok, BoxesShow, TakenGone, page \in Clips
  PROVE  \A t \in Tracks, f \in FramesOf(page) : api.box[t][f] # None => Shown(t, f)'
<1> DEFINE j == Running
           a == Reply
<1>1. Landed
  BY AnswersWhen DEF Landed
<1>2. /\ \A t \in Tracks, f \in Frames :
           Rect(labels'.box[t][f]) = BoxSet(j, a, t, f, Rect(labels.box[t][f]))
  BY AnswerApplied DEF Applied
<1>3. /\ j.kind \in {"draw", "move", "putBack", "recreate", "refill"} => j.at \in Rects
      /\ a.made \in [Tracks -> BoxOrNone]
      /\ labels \in View
  <2>1. j \in Good
    BY AnswersEnd, Queued
  <2>2. j.kind \in {"recreate", "refill"} => j.at \in Rects
    BY AnswersWhen DEF IInv, InFlight
  <2>3. a.made \in [Tracks -> BoxOrNone]
    BY FlightShape DEF Answer, Reply
  <2>4. QED BY <2>1, <2>2, <2>3 DEF Good, JobOK, IInv, TypeOK
<1>4. None \notin Rects
  BY NoneAssumption
<1> HIDE DEF j, a
<1>5. ASSUME NEW t \in Tracks, NEW f \in FramesOf(page), api.box[t][f] # None
      PROVE  Shown(t, f)'
  <2>1. f \in Frames
    BY FrameOnPage
  <2>2. labels.box[t][f] # None \/ Places(j, a, t, f) \/ Copies(j, a, t, f)
    BY <1>5 DEF BoxesShow, Shown, j, a
  <2>3. ~Takes(j, a, t, f)
    BY <1>1, <1>5 DEF TakenGone, j, a
  <2>4. labels.box[t][f] \in BoxOrNone
    BY <1>3, <2>1, ViewShape
  <2>5. BoxSet(j, a, t, f, Rect(labels.box[t][f])) # None
    <3>1. CASE Places(j, a, t, f)
      BY <1>3, <1>4, <3>1 DEF Places, BoxSet
    <3>2. CASE ~Places(j, a, t, f) /\ Copies(j, a, t, f)
      <4>1. a.made[t] \in BoxOrNone /\ a.made[t] # None
        BY <1>3, <3>2 DEF Copies
      <4>2. a.made[t].at \in Rects
        BY <4>1, RectShape
      <4>3. QED BY <1>4, <2>3, <3>2, <4>2 DEF BoxSet
    <3>3. CASE ~Places(j, a, t, f) /\ ~Copies(j, a, t, f)
      BY <2>2, <2>3, <2>4, <3>3, RectShape DEF BoxSet
    <3>4. QED BY <3>1, <3>2, <3>3
  <2>6. Rect(labels'.box[t][f]) # None
    BY <1>2, <2>1, <2>5
  <2>7. QED BY <2>6 DEF Shown, Rect
<1>6. QED BY <1>5

LEMMA SavedHonest ==
  ASSUME IInv, IInv', Mirror, Honest, page \in Clips, Answers, Reply.ok
  PROVE  Honest'
<1> DEFINE j == Running
           a == Reply
<1>1. /\ Landed /\ ~Landed' /\ queue # <<>> /\ UNCHANGED <<api, page>>
      /\ j \in Good /\ OnItsWay(api, page, j) /\ undoStack \in Seq(Good)
  BY AnswersEnd, AnswersWhen, Queued, OnScreen DEF Landed, Idle, Mirror, OwnFlight
<1>2. \A f \in Frames : labels'.status[f] = StatusShown(j, a, f, labels.status[f])
  BY AnswerStatus
<1>3. \/ queue' = Tail(queue)
      \/ \E i \in Good : /\ i.kind \in {"refill", "uncopy"}
                         /\ j.kind \in {"recreate", "refill", "uncopy"}
                         /\ queue' = <<i>> \o Tail(queue)
  BY SavedQueue
<1>4. /\ OneUndo'
      /\ queue' # <<>> => /\ Running'.kind \notin {"unmark", "putBack"}
                          /\ ~(Running'.kind = "mark" /\ Running'.alone)
      /\ j.kind = "unmark" => queue' = <<>>
  BY <1>1, <1>3, NextRuns DEF Honest, UndosFit, Mirror
<1>5. StatusTold'
  <2>1. \A f \in FramesOf(page) : Told(f)'
    BY <1>1, <1>2, <1>3, <1>4, SavedTold, FrameOnPage DEF Honest, OnFrames, StatusTold
  <2>2. QED BY <1>1, <2>1 DEF StatusTold
<1>6. EmptyIsBare'
  <2>1. ASSUME NEW f \in FramesOf(page), labels'.status[f] = "empty" PROVE NoneOn(api, f)
    <3>1. f \in Frames
      BY FrameOnPage
    <3>2. CASE j.kind = "unmark" /\ f = j.frame
      <4>1. j.status = "empty"
        BY <1>2, <2>1, <3>1, <3>2 DEF StatusShown
      <4>2. QED BY <1>1, <3>2, <4>1 DEF Honest, OnFrames, Unmarked
    <3>3. CASE ~(j.kind = "unmark" /\ f = j.frame)
      <4>1. labels.status[f] = "empty" /\ ~Fills(j, a, f)
        BY <1>2, <2>1, <3>1, <3>3 DEF StatusShown
      <4>2. QED BY <4>1 DEF Honest, OnFrames, EmptyIsBare, Filling
    <3>4. QED BY <3>2, <3>3
  <2>2. QED BY <1>1, <2>1 DEF EmptyIsBare, NoneOn
<1>7. BoxesShow'
  <2>1. \A t \in Tracks, f \in FramesOf(page) : api.box[t][f] # None => Shown(t, f)'
    BY SavedBoxes DEF Honest, OnFrames
  <2>2. QED BY <1>1, <2>1 DEF BoxesShow
<1>8. TakenGone' /\ DeletedShows' /\ Unmarked'
  BY <1>1 DEF TakenGone, DeletedShows, Unmarked
<1>9. Marks'
  BY <1>4 DEF Marks, Marking
<1>10. RunningPut'
  BY <1>4 DEF RunningPut
<1>11. \A f \in Frames : Soon(f)' = labels'.status[f]
  BY <1>4 DEF Soon
<1>12. \A f \in Frames : Soon(f) # "empty" => Soon(f)' # "empty"
  BY <1>1, <1>2, <1>11 DEF Soon, StatusShown
<1>13. PutsOnDone'
  <2>1. CASE UNCHANGED undoStack
    BY <1>1, <1>12, <2>1, KeptPuts DEF Honest, UndosFit
  <2>2. ASSUME NEW e, Pushes(e), Undoes(e) PROVE PutsOnDone'
    <3>1. ASSUME e.kind = "putBack"
          PROVE  e.frame \in FramesOf(page) /\ Soon(e.frame)' # "empty"
      <4>1. j.kind \in {"move", "deleteBox"} /\ e.frame = j.frame
        BY <2>2, <3>1 DEF Undoes
      <4>2. j.frame \in Frames /\ j.frame \in FramesOf(page)
        BY <1>1, <4>1, NoGoldClip DEF OnItsWay, Own, OfPage, Good, JobOK, FramesOf
      <4>3. labels'.status[j.frame] # "empty"
        <5>1. labels'.status[j.frame] = StatusShown(j, a, j.frame, labels.status[j.frame])
          BY <1>2, <4>2
        <5>2. j.kind = "move" => Fills(j, a, j.frame)
          BY DEF Fills
        <5>3. j.kind = "deleteBox" => labels.status[j.frame] # "empty"
          BY <1>1 DEF Honest, OnFrames, DeletedShows
        <5>4. QED BY <4>1, <5>1, <5>2, <5>3 DEF StatusShown
      <4>4. QED BY <1>11, <4>1, <4>2, <4>3
    <3>2. QED BY <1>1, <1>12, <2>2, <3>1, PushedPuts DEF Honest, UndosFit, Undoes
  <2>3. QED BY <2>1, <2>2, SavedEntry
<1>14. QED
  BY <1>4, <1>5, <1>6, <1>7, <1>8, <1>9, <1>10, <1>13 DEF Honest, OnFrames, UndosFit

(***************************************************************************)
(* A request is refused.                                                    *)
(***************************************************************************)
LEMMA RemoveShape ==
  ASSUME NEW s \in Seq(Good), NEW i \in DOMAIN s
  PROVE  LET l == Len(s)
         IN /\ l \in Nat \ {0} /\ DOMAIN s = 1..l /\ i \in 1..l
            /\ DOMAIN RemoveAt(s, i) = 1..(l - 1)
            /\ \A k \in 1..(i - 1) : RemoveAt(s, i)[k] = s[k]
            /\ \A k \in i..(l - 1) : RemoveAt(s, i)[k] = s[k + 1]
<1> DEFINE l == Len(s)
           x == SubSeq(s, 1, i - 1)
           y == SubSeq(s, i + 1, l)
<1>1. l \in Nat \ {0} /\ DOMAIN s = 1..l /\ i \in 1..l /\ \A k \in 1..l : s[k] \in Good
  BY LenProperties, ElementOfSeq
<1> HIDE DEF l
<1>2. x \in Seq(Good) /\ Len(x) = i - 1 /\ \A k \in 1..(i - 1) : x[k] = s[k]
  <2>1. 1 \in Int /\ i - 1 \in Int /\ \A k \in 1..(i - 1) : s[k] \in Good
    BY <1>1
  <2>2. /\ x \in Seq(Good) /\ Len(x) = IF 1 <= i - 1 THEN (i - 1) - 1 + 1 ELSE 0
        /\ \A k \in 1..((i - 1) - 1 + 1) : x[k] = s[1 + k - 1]
    BY <2>1, SubSeqProperties
  <2> HIDE DEF x
  <2>3. QED BY <1>1, <2>2
<1>3. y \in Seq(Good) /\ Len(y) = l - i /\ \A k \in 1..(l - i) : y[k] = s[k + i]
  <2>1. i + 1 \in Int /\ l \in Int /\ \A k \in (i + 1)..l : s[k] \in Good
    BY <1>1
  <2>2. /\ y \in Seq(Good) /\ Len(y) = IF i + 1 <= l THEN l - (i + 1) + 1 ELSE 0
        /\ \A k \in 1..(l - (i + 1) + 1) : y[k] = s[(i + 1) + k - 1]
    BY <2>1, SubSeqProperties
  <2> HIDE DEF y
  <2>3. l - (i + 1) + 1 = l - i /\ \A k \in 1..(l - i) : (i + 1) + k - 1 = k + i
    BY <1>1
  <2>4. Len(y) = l - i
    BY <1>1, <2>2
  <2>5. \A k \in 1..(l - i) : y[k] = s[k + i]
    <3> TAKE k \in 1..(l - i)
    <3>1. y[k] = s[(i + 1) + k - 1]
      BY <2>2, <2>3
    <3>2. QED BY <2>3, <3>1
  <2>6. QED BY <2>2, <2>4, <2>5
<1> HIDE DEF x, y
<1>4. /\ x \o y \in Seq(Good) /\ Len(x \o y) = l - 1
      /\ \A k \in 1..(l - 1) : (x \o y)[k] = IF k <= i - 1 THEN x[k] ELSE y[k - (i - 1)]
  <2>1. Len(x) + Len(y) = l - 1
    BY <1>1, <1>2, <1>3
  <2>2. /\ x \o y \in Seq(Good) /\ Len(x \o y) = Len(x) + Len(y)
        /\ \A k \in 1..(Len(x) + Len(y)) : (x \o y)[k] = IF k <= Len(x) THEN x[k] ELSE y[k - Len(x)]
    BY <1>2, <1>3, ConcatProperties
  <2>3. QED BY <1>2, <2>1, <2>2
<1>5. RemoveAt(s, i) = x \o y
  BY DEF RemoveAt, x, y, l
<1>6. DOMAIN (x \o y) = 1..(l - 1)
  BY <1>4, LenProperties
<1>7. \A k \in 1..(i - 1) : (x \o y)[k] = s[k]
  BY <1>1, <1>2, <1>4
<1>8. \A k \in i..(l - 1) : (x \o y)[k] = s[k + 1]
  <2> TAKE k \in i..(l - 1)
  <2>1. k \in 1..(l - 1) /\ ~(k <= i - 1) /\ k - (i - 1) \in 1..(l - i) /\ (k - (i - 1)) + i = k + 1
    BY <1>1
  <2>2. QED BY <1>3, <1>4, <2>1
<1>9. QED BY <1>1, <1>5, <1>6, <1>7, <1>8 DEF l

(* The undo of a mark is withdrawn; the ones above it are of other frames. *)
LEMMA WithdrawnPuts ==
  ASSUME PutsOnDone, undoStack \in Seq(Good), NEW m \in DOMAIN undoStack,
         undoStack[m].kind = "unmark", NEW fr, undoStack[m].frame = fr,
         \A k \in DOMAIN undoStack : k > m => undoStack[k].kind = "unmark" /\ undoStack[k].frame # fr,
         undoStack' = RemoveAt(undoStack, m), UNCHANGED page,
         \A f \in Frames : f # fr => Soon(f)' = Soon(f),
         undoStack[m].status # "empty" /\ fr \in FramesOf(page) => Soon(fr)' # "empty"
  PROVE  PutsOnDone'
<1>1. PICK l \in Nat \ {0} :
        /\ DOMAIN undoStack = 1..l /\ m \in 1..l
        /\ DOMAIN undoStack' = 1..(l - 1)
        /\ \A k \in 1..(m - 1) : undoStack'[k] = undoStack[k]
        /\ \A k \in m..(l - 1) : undoStack'[k] = undoStack[k + 1]
  BY RemoveShape
<1>2. ASSUME NEW i \in DOMAIN undoStack', undoStack'[i].kind = "putBack"
      PROVE  (undoStack[i].frame \in FramesOf(page) /\ PutOn(i, undoStack[i].frame))'
  <2>0. PICK f : f = undoStack[i].frame
    OBVIOUS
  <2>1. i < m /\ i \in 1..l /\ undoStack'[i] = undoStack[i]
    <3>1. i \in m..(l - 1) => undoStack'[i].kind = "unmark"
      BY <1>1
    <3>2. QED BY <1>1, <1>2, <3>1
  <2>2. f \in FramesOf(page) /\ PutOn(i, f) /\ f \in Frames
    BY <1>1, <1>2, <2>0, <2>1, FrameOnPage DEF PutsOnDone
  <2>3. /\ \A k \in 1..(m - 1) : Above(i, k, f)' <=> Above(i, k, f)
        /\ \A k \in m..(l - 1) : Above(i, k, f)' <=> Above(i, k + 1, f)
    BY <1>1, <2>1 DEF Above
  <2>4. Above(i, m, f) <=> f = fr
    BY <1>1, <2>1 DEF Above
  <2>5. CASE f # fr
    <3>1. ASSUME \A k \in DOMAIN undoStack' : ~Above(i, k, f)' PROVE Soon(f)' # "empty"
      <4>1. ASSUME NEW k \in 1..l PROVE ~Above(i, k, f)
        <5>1. CASE k < m
          BY <1>1, <2>3, <3>1, <5>1
        <5>2. CASE k = m
          BY <2>4, <2>5, <5>2
        <5>3. CASE k > m
          <6>1. k - 1 \in m..(l - 1) /\ k - 1 \in 1..(l - 1) /\ (k - 1) + 1 = k
            BY <1>1, <5>3
          <6>2. QED BY <1>1, <2>3, <3>1, <6>1
        <5>4. QED BY <1>1, <5>1, <5>2, <5>3
      <4>2. QED BY <1>1, <2>2, <2>5, <4>1 DEF PutOn
    <3>2. ASSUME NEW k \in 1..(l - 1), First(i, k, f)' PROVE undoStack'[k].status # "empty"
      <4>1. /\ Above(i, k, f)'
            /\ \A n \in 1..(l - 1) : Above(i, n, f)' => k <= n
        BY <1>1, <3>2 DEF First
      <4> DEFINE o == IF k < m THEN k ELSE k + 1
      <4>2. o \in 1..l /\ Above(i, o, f) /\ undoStack'[k] = undoStack[o]
        BY <1>1, <2>3, <4>1
      <4>3. ASSUME NEW n \in 1..l, Above(i, n, f) PROVE o <= n
        <5>1. CASE n < m
          <6>1. n \in 1..(l - 1) /\ Above(i, n, f)'
            BY <1>1, <2>3, <4>3, <5>1
          <6>2. k <= n
            BY <4>1, <6>1
          <6>3. QED BY <5>1, <6>2
        <5>2. n # m
          BY <2>4, <2>5, <4>3
        <5>3. CASE n > m
          <6>1. n - 1 \in m..(l - 1) /\ n - 1 \in 1..(l - 1) /\ (n - 1) + 1 = n
            BY <1>1, <5>3
          <6>2. Above(i, n - 1, f)'
            BY <2>3, <4>3, <6>1
          <6>3. k <= n - 1
            BY <4>1, <6>1, <6>2
          <6>4. QED BY <5>3, <6>3
        <5>4. QED BY <1>1, <5>1, <5>2, <5>3
      <4> HIDE DEF o
      <4>4. First(i, o, f)
        BY <1>1, <4>2, <4>3 DEF First
      <4>5. QED BY <1>1, <2>2, <4>2, <4>4 DEF PutOn
    <3>3. PutOn(i, f)'
      BY <1>1, <3>1, <3>2 DEF PutOn
    <3>4. QED BY <2>0, <2>1, <2>2, <3>3
  <2>6. CASE f = fr
    <3>1. \A k \in m..(l - 1) : ~Above(i, k, f)'
      <4> TAKE k \in m..(l - 1)
      <4>1. k + 1 \in DOMAIN undoStack /\ k + 1 > m
        BY <1>1
      <4>2. undoStack[k + 1].frame # f
        BY <2>6, <4>1
      <4>3. QED BY <2>3, <4>2 DEF Above
    <3>2. ASSUME \A k \in DOMAIN undoStack' : ~Above(i, k, f)' PROVE Soon(f)' # "empty"
      <4>1. \A k \in 1..(m - 1) : ~Above(i, k, f)
        BY <1>1, <2>3, <3>2
      <4>2. First(i, m, f)
        BY <1>1, <2>4, <2>6, <4>1 DEF First
      <4>3. undoStack[m].status # "empty"
        BY <2>2, <4>2 DEF PutOn
      <4>4. QED BY <2>2, <2>6, <4>3
    <3>3. ASSUME NEW k \in 1..(l - 1), First(i, k, f)' PROVE undoStack'[k].status # "empty"
      <4>1. /\ Above(i, k, f)'
            /\ \A n \in 1..(l - 1) : Above(i, n, f)' => k <= n
        BY <1>1, <3>3 DEF First
      <4>2. k \in 1..(m - 1) /\ k \in 1..l
        BY <1>1, <3>1, <4>1
      <4>3. Above(i, k, f) /\ undoStack'[k] = undoStack[k]
        BY <1>1, <2>3, <4>1, <4>2
      <4>4. ASSUME NEW n \in 1..l, Above(i, n, f) PROVE k <= n
        <5>1. CASE n < m
          <6>1. n \in 1..(l - 1) /\ Above(i, n, f)'
            BY <1>1, <2>3, <4>4, <5>1
          <6>2. QED BY <4>1, <6>1
        <5>2. QED BY <1>1, <4>2, <5>1
      <4>5. First(i, k, f)
        BY <1>1, <4>3, <4>4 DEF First
      <4>6. QED BY <1>1, <2>2, <4>2, <4>3, <4>5 DEF PutOn
    <3>4. PutOn(i, f)'
      BY <1>1, <3>2, <3>3 DEF PutOn
    <3>5. QED BY <2>0, <2>1, <2>2, <3>4
  <2>7. QED BY <2>5, <2>6
<1>3. QED BY <1>2 DEF PutsOnDone

LEMMA FailedRest ==
  ASSUME IInv, IInv', Mirror, Honest, page \in Clips, Answers, ~Reply.ok, Ends
  PROVE  /\ ~Landed /\ ~Landed' /\ queue # <<>> /\ UNCHANGED <<api, page>>
         /\ queue' = Tail(queue) /\ Running = queue[1]
         /\ TakenGone' /\ DeletedShows' /\ Unmarked' /\ Marks' /\ OneUndo' /\ RunningPut'
         /\ \A f \in Frames : Soon(f)' = labels'.status[f]
<1>1. ~Landed /\ ~Landed' /\ queue # <<>> /\ UNCHANGED <<api, page>> /\ queue' = Tail(queue)
  BY AnswersWhen, AnswersEnd DEF Landed, Idle, Ends
<1>2. /\ OneUndo'
      /\ queue' # <<>> => /\ Running'.kind \notin {"unmark", "putBack"}
                          /\ ~(Running'.kind = "mark" /\ Running'.alone)
  BY <1>1, NextRuns DEF Honest, UndosFit, Mirror
<1>3. TakenGone' /\ DeletedShows' /\ Unmarked'
  BY <1>1 DEF TakenGone, DeletedShows, Unmarked
<1>4. Marks' /\ RunningPut'
  BY <1>2 DEF Marks, Marking, RunningPut
<1>5. \A f \in Frames : Soon(f)' = labels'.status[f]
  BY <1>2 DEF Soon
<1>6. QED BY <1>1, <1>2, <1>3, <1>4, <1>5 DEF Running

(* The status of the frames stays: the edit was no mark. *)
LEMMA FailedSame ==
  ASSUME IInv, IInv', Mirror, Honest, page \in Clips, Answers, ~Reply.ok, Ends,
         Running.kind \notin Undos, Running.kind # "mark", UNCHANGED undoStack,
         labels'.status = labels.status,
         \A t \in Tracks, f \in FramesOf(page) : api.box[t][f] # None => Shown(t, f)'
  PROVE  Honest'
<1>1. /\ ~Landed /\ ~Landed' /\ queue # <<>> /\ UNCHANGED <<api, page>>
      /\ queue' = Tail(queue) /\ Running = queue[1]
      /\ TakenGone' /\ DeletedShows' /\ Unmarked' /\ Marks' /\ OneUndo' /\ RunningPut'
      /\ \A f \in Frames : Soon(f)' = labels'.status[f]
  BY FailedRest
<1>2. StatusTold'
  <2>1. ASSUME NEW f \in FramesOf(page) PROVE Told(f)'
    <3>1. labels.status[f] = "unlabeled" \/ Known(f)
      BY <1>1 DEF Honest, OnFrames, StatusTold, Told, Filling
    <3>2. ~Unmade(1, f) /\ labels'.status[f] = labels.status[f]
      BY <1>1 DEF Unmade
    <3>3. Known(f) => Known(f)'
      BY <1>1, <3>2, KnownAfter
    <3>4. QED BY <3>1, <3>2, <3>3 DEF Told
  <2>2. QED BY <1>1, <2>1 DEF StatusTold
<1>3. EmptyIsBare' /\ BoxesShow'
  BY <1>1 DEF Honest, OnFrames, EmptyIsBare, BoxesShow, Filling, NoneOn
<1>4. PutsOnDone'
  <2>1. \A f \in Frames : Soon(f)' = Soon(f)
    BY <1>1 DEF Soon, Undos
  <2>2. QED BY <1>1, <2>1, KeptPuts DEF Honest, UndosFit
<1>5. QED BY <1>1, <1>2, <1>3, <1>4 DEF Honest, OnFrames, UndosFit

LEMMA FailedMoveHonest ==
  ASSUME IInv, IInv', Mirror, Honest, page \in Clips, Sure', FailedMove
  PROVE  Honest'
<1> DEFINE j == Running
           tr == j.track
           fr == j.frame
           prev == j.prev
<1>1. Answers /\ ~Reply.ok /\ Ends /\ queue # <<>> /\ ~Landed
  BY DEF Answers, FailedMove, Answered, Landed
<1>2. j \in Job /\ JobOK(j) /\ labels \in View /\ page \in Clips
  BY <1>1, Queued DEF IInv, TypeOK, Good
<1>3. j.kind = "move" /\ j.alone /\ labels' = Put(labels, tr, fr, prev) /\ undoStack' = undoStack
  BY DEF FailedMove, Answered, Sure
<1>4. Rect(prev) = SavedBox(api, page, tr, fr)
  BY <1>1, <1>3 DEF Mirror, PutsBack
<1>5. prev \in BoxOrNone
  BY <1>2, JobShape
<1>6. j.kind \notin Undos /\ j.kind # "mark"
  BY <1>3 DEF Undos
<1> HIDE DEF j, tr, fr, prev
<1>7. \A u \in Tracks, g \in Frames :
        labels'.box[u][g] = IF u = tr /\ g = fr THEN prev ELSE labels.box[u][g]
  BY <1>2, <1>3, <1>5, PutShows
<1>8. labels'.status = labels.status
  BY <1>2, <1>3, <1>5, Bits, KeepsStatus
<1>9. ASSUME NEW t \in Tracks, NEW f \in FramesOf(page), api.box[t][f] # None
      PROVE  Shown(t, f)'
  <2>1. f \in Frames /\ ClipOf[f] = page
    BY <1>2, FrameOnPage
  <2>2. CASE t = tr /\ f = fr
    <3>1. Rect(prev) = Rect(api.box[t][f])
      BY <1>4, <2>1, <2>2 DEF SavedBox
    <3>2. api.box[t][f] \in BoxOrNone
      BY <2>1, FlightShape, RowsShape
    <3>3. prev # None
      BY <1>5, <1>9, <3>1, <3>2, RectShape
    <3>4. QED BY <1>7, <2>1, <2>2, <3>3 DEF Shown
  <2>3. CASE ~(t = tr /\ f = fr)
    <3>1. Shown(t, f)
      BY <1>1, <1>9 DEF Honest, OnFrames, BoxesShow
    <3>2. QED BY <1>7, <2>1, <2>3, <3>1 DEF Shown
  <2>4. QED BY <2>2, <2>3
<1>10. QED BY <1>1, <1>3, <1>6, <1>8, <1>9, FailedSame DEF j

LEMMA FailedOtherHonest ==
  ASSUME IInv, IInv', Mirror, Honest, page \in Clips, Sure', FailedOther
  PROVE  Honest'
<1>1. Answers /\ ~Reply.ok /\ Ends /\ ~Landed
  BY DEF Answers, FailedOther, Answered, Landed
<1>2. Running.kind \notin Undos /\ Running.kind # "mark" /\ UNCHANGED <<labels, undoStack>>
  BY DEF FailedOther, Answered, Sure, Undos
<1>3. \A t \in Tracks, f \in FramesOf(page) : api.box[t][f] # None => Shown(t, f)'
  BY <1>1, <1>2 DEF Honest, OnFrames, BoxesShow, Shown
<1>4. QED BY <1>1, <1>2, <1>3, FailedSame

(* What a refused mark that was made alone leaves. *)
LEMMA UnmarkedShows ==
  ASSUME IInv, IInv', FailedMark
  PROVE  LET j == Running
             was == labels.status[j.frame]
         IN /\ j.kind = "mark" /\ j.frame \in Frames
            /\ labels'.status[j.frame] = IF was = j.status THEN j.before ELSE was
            /\ \A g \in Frames : g # j.frame => labels'.status[g] = labels.status[g]
            /\ \A t \in Tracks, g \in Frames : Shown(t, g)' <=> Shown(t, g)
            /\ \/ /\ undoStack' = undoStack
                  /\ \A i \in DOMAIN undoStack : ~Entry(i, j.n)
               \/ \E m \in DOMAIN undoStack : Entry(m, j.n) /\ undoStack' = RemoveAt(undoStack, m)
            /\ upset' \subseteq {"refused"} =>
                 /\ j.alone
                 /\ \A i \in DOMAIN queue \ {1} : ~(queue[i].kind = "mark" /\ queue[i].frame = j.frame)
<1> DEFINE j == Running
           f == j.frame
           still == {u \in j.tracks : Shown(u, f) /\ labels.box[u][f].is = "accepted"}
           is == "proposed"
           was == labels.box
           box == Say(was, still, f, is)
           mine == {i \in DOMAIN undoStack : undoStack[i].kind = "unmark" /\ undoStack[i].n = j.n}
           status == IF labels.status[f] = j.status THEN j.before ELSE labels.status[f]
<1>1. /\ j.kind = "mark" /\ labels' = [labels EXCEPT !.status[f] = status, !.box = box]
      /\ undoStack' = IF mine = {} THEN undoStack ELSE RemoveAt(undoStack, CHOOSE i \in mine : TRUE)
      /\ queue # <<>>
  BY DEF FailedMark, Answered
<1>2. j \in Job /\ f \in Frames /\ labels \in View /\ labels' \in View
  BY <1>1, Queued DEF IInv, TypeOK, Good, JobOK
<1>3. /\ upset' \subseteq {"refused"} =>
           /\ j.alone
           /\ \A i \in DOMAIN queue \ {1} : ~(queue[i].kind = "mark" /\ queue[i].frame = f)
  BY DEF FailedMark
<1>4. /\ \A u \in still : was[u][f] # None
      /\ was \in [Tracks -> [Frames -> BoxOrNone]] /\ is \in {"proposed", "verified", "accepted"}
  BY OnScreen DEF Shown
<1>5. \/ /\ undoStack' = undoStack
         /\ \A i \in DOMAIN undoStack : ~Entry(i, j.n)
      \/ \E m \in DOMAIN undoStack : Entry(m, j.n) /\ undoStack' = RemoveAt(undoStack, m)
  <2>1. CASE mine = {}
    BY <1>1, <2>1 DEF Entry
  <2>2. CASE mine # {}
    <3> DEFINE m == CHOOSE i \in mine : TRUE
    <3>1. m \in mine
      BY <2>2
    <3>2. undoStack' = RemoveAt(undoStack, m)
      BY <1>1, <2>2
    <3> HIDE DEF m
    <3>3. QED BY <3>1, <3>2 DEF Entry
  <2>3. QED BY <2>1, <2>2
<1> HIDE DEF still, is, was, mine, j, f
<1>6. \A u \in Tracks, g \in Frames : Rect(box[u][g]) = Rect(was[u][g])
  BY <1>4, SaySame
<1> HIDE DEF box
<1>7. /\ labels'.box = box
      /\ labels'.status[f] = status
      /\ \A g \in Frames : g # f => labels'.status[g] = labels.status[g]
  <2> DEFINE all == [labels.status EXCEPT ![f] = status]
  <2>1. labels' = [labels EXCEPT !.status = all, !.box = box]
    BY <1>1, <1>2 DEF View
  <2>2. all[f] = status /\ \A g \in Frames : g # f => all[g] = labels.status[g]
    BY <1>2, ViewShape
  <2> HIDE DEF all, status
  <2>3. labels'.status = all /\ labels'.box = box
    BY <1>2, <2>1 DEF View
  <2>4. QED BY <2>2, <2>3
<1>8. ASSUME NEW t \in Tracks, NEW g \in Frames PROVE Shown(t, g)' <=> Shown(t, g)
  <2>1. labels.box[t][g] \in BoxOrNone /\ labels'.box[t][g] \in BoxOrNone
    BY <1>2, ViewShape
  <2>2. Rect(labels'.box[t][g]) = Rect(labels.box[t][g])
    BY <1>6, <1>7 DEF was
  <2>3. QED BY <2>1, <2>2, RectShape DEF Shown
<1>9. QED BY <1>1, <1>2, <1>3, <1>5, <1>7, <1>8 DEF j, f

LEMMA FailedMarkHonest ==
  ASSUME IInv, IInv', Mirror, Honest, page \in Clips, Sure', FailedMark
  PROVE  Honest'
<1>0. PICK j, fr : j = Running /\ fr = j.frame
  OBVIOUS
<1>1. /\ ~Landed /\ ~Landed' /\ queue # <<>> /\ UNCHANGED <<api, page>>
      /\ queue' = Tail(queue) /\ j = queue[1]
      /\ TakenGone' /\ DeletedShows' /\ Unmarked' /\ Marks' /\ OneUndo' /\ RunningPut'
      /\ \A f \in Frames : Soon(f)' = labels'.status[f]
  <2>1. Answers /\ ~Reply.ok /\ Ends
    BY DEF Answers, FailedMark, Answered
  <2>2. QED BY <1>0, <2>1, FailedRest
<1>2. /\ j.kind = "mark" /\ fr \in Frames
      /\ labels'.status[fr] = IF labels.status[fr] = j.status THEN j.before ELSE labels.status[fr]
      /\ \A g \in Frames : g # fr => labels'.status[g] = labels.status[g]
      /\ \A t \in Tracks, g \in Frames : Shown(t, g)' <=> Shown(t, g)
      /\ \/ /\ undoStack' = undoStack
            /\ \A i \in DOMAIN undoStack : ~Entry(i, j.n)
         \/ \E m \in DOMAIN undoStack : Entry(m, j.n) /\ undoStack' = RemoveAt(undoStack, m)
      /\ j.alone
      /\ \A i \in DOMAIN queue \ {1} : ~(queue[i].kind = "mark" /\ queue[i].frame = fr)
  <2>1. upset' \subseteq {"refused"}
    BY DEF Sure
  <2>2. QED BY <1>0, <2>1, UnmarkedShows
<1>3. /\ j.before # "unlabeled" => api.status[fr] = j.before
      /\ j.before = "empty" => NoneOn(api, fr)
  BY <1>0, <1>1, <1>2 DEF Honest, Marks, Marking, MarkKnows
<1>4. /\ \A i \in DOMAIN undoStack : Entry(i, j.n) =>
           /\ undoStack[i].frame = fr /\ undoStack[i].status = j.before
           /\ \A k \in DOMAIN undoStack : k > i =>
                undoStack[k].kind = "unmark" /\ undoStack[k].frame # fr
      /\ j.before # j.status => \E i \in DOMAIN undoStack : Entry(i, j.n)
  <2>1. MarkEntry /\ MarkHas
    BY <1>0, <1>1, <1>2 DEF Honest, Marks, Marking
  <2>2. QED BY <1>0, <1>2, <2>1 DEF MarkEntry, MarkHas
<1>5. /\ DOMAIN queue = 1..Len(queue) /\ Len(queue) \in Nat \ {0}
      /\ DOMAIN queue' = 1..(Len(queue) - 1)
      /\ \A i \in 1..(Len(queue) - 1) : queue'[i] = queue[i + 1]
  BY <1>1, TailWaits
<1>6. \A i \in DOMAIN queue' : ~Unmade(i, fr)'
  <2> TAKE i \in DOMAIN queue'
  <2>1. i + 1 \in DOMAIN queue \ {1} /\ queue'[i] = queue[i + 1]
    BY <1>5
  <2>2. QED BY <1>2, <2>1 DEF Unmade
<1>7. labels.status[fr] = j.status \/ labels.status[fr] = "unlabeled" \/ fr \notin FramesOf(page)
  <2> SUFFICES ASSUME fr \in FramesOf(page), labels.status[fr] # "unlabeled"
               PROVE  labels.status[fr] = j.status
    OBVIOUS
  <2>1. Known(fr)
    BY <1>1 DEF Honest, OnFrames, StatusTold, Told, Filling
  <2>2. Unmade(1, fr) /\ 1 \in DOMAIN queue
    BY <1>0, <1>1, <1>2, <1>5 DEF Unmade
  <2>3. PICK i \in DOMAIN queue : Unmade(i, fr) /\ queue[i].status = labels.status[fr]
    BY <2>1, <2>2 DEF Known
  <2>4. i = 1
    BY <1>2, <2>3 DEF Unmade
  <2>5. QED BY <1>1, <2>3, <2>4
<1>8. StatusTold'
  <2>1. ASSUME NEW f \in FramesOf(page) PROVE Told(f)'
    <3>1. labels.status[f] = "unlabeled" \/ Known(f)
      BY <1>1 DEF Honest, OnFrames, StatusTold, Told, Filling
    <3>2. CASE f # fr
      <4>1. ~Unmade(1, f) /\ labels'.status[f] = labels.status[f]
        BY <1>0, <1>1, <1>2, <2>1, <3>2, FrameOnPage DEF Unmade
      <4>2. Known(f) => Known(f)'
        BY <1>1, <4>1, KnownAfter
      <4>3. QED BY <3>1, <4>1, <4>2 DEF Told
    <3>3. CASE f = fr
      <4>1. labels'.status[f] = "unlabeled" \/ labels'.status[f] = api.status[f]
        BY <1>2, <1>3, <1>7, <3>3
      <4>2. QED BY <1>1, <1>6, <3>3, <4>1 DEF Told, Known
    <3>4. QED BY <3>2, <3>3
  <2>2. QED BY <1>1, <2>1 DEF StatusTold
<1>9. EmptyIsBare'
  <2>1. ASSUME NEW f \in FramesOf(page), labels'.status[f] = "empty" PROVE NoneOn(api, f)
    <3>1. f # fr \/ labels.status[fr] # j.status => labels.status[f] = "empty"
      BY <1>2, <2>1, FrameOnPage
    <3>2. labels.status[f] = "empty" => NoneOn(api, f)
      BY <1>1 DEF Honest, OnFrames, EmptyIsBare, Filling
    <3>3. f = fr /\ labels.status[fr] = j.status => j.before = "empty"
      BY <1>2, <2>1
    <3>4. QED BY <1>3, <3>1, <3>2, <3>3
  <2>2. QED BY <1>1, <2>1 DEF EmptyIsBare, NoneOn
<1>10. BoxesShow'
  BY <1>1, <1>2, FrameOnPage DEF Honest, OnFrames, BoxesShow
<1>11. \A f \in Frames : Soon(f) = labels.status[f]
  BY <1>0, <1>2 DEF Soon
<1>12. PutsOnDone'
  <2>1. CASE undoStack' = undoStack /\ \A i \in DOMAIN undoStack : ~Entry(i, j.n)
    <3>1. j.before = j.status
      BY <1>4, <2>1
    <3>2. \A f \in Frames : Soon(f)' = Soon(f)
      BY <1>1, <1>2, <1>11, <3>1
    <3>3. QED BY <1>1, <2>1, <3>2, KeptPuts DEF Honest, UndosFit
  <2>2. ASSUME NEW m \in DOMAIN undoStack, Entry(m, j.n), undoStack' = RemoveAt(undoStack, m)
        PROVE  PutsOnDone'
    <3>1. /\ undoStack[m].kind = "unmark" /\ undoStack[m].frame = fr /\ undoStack[m].status = j.before
          /\ \A k \in DOMAIN undoStack : k > m =>
               undoStack[k].kind = "unmark" /\ undoStack[k].frame # fr
      BY <1>4, <2>2 DEF Entry
    <3>2. \A f \in Frames : f # fr => Soon(f)' = Soon(f)
      BY <1>1, <1>2, <1>11
    <3>3. undoStack[m].status # "empty" /\ fr \in FramesOf(page) => Soon(fr)' # "empty"
      BY <1>1, <1>2, <1>7, <3>1
    <3>4. undoStack \in Seq(Good)
      BY OnScreen
    <3>5. QED BY <1>1, <2>2, <3>1, <3>2, <3>3, <3>4, WithdrawnPuts DEF Honest, UndosFit
  <2>3. QED BY <1>2, <2>1, <2>2
<1>13. QED
  BY <1>1, <1>8, <1>9, <1>10, <1>12 DEF Honest, OnFrames, UndosFit

LEMMA AnswersHonest ==
  ASSUME IInv, IInv', Mirror, Honest, page \in Clips, Sure', Answers
  PROVE  Honest'
<1>1. CASE Reply.ok
  BY <1>1, SavedHonest
<1>2. CASE FailedMove \/ FailedMark \/ FailedOther
  BY <1>2, FailedMoveHonest, FailedMarkHonest, FailedOtherHonest
<1>3. CASE ~Reply.ok /\ ~(FailedMove \/ FailedMark \/ FailedOther)
  BY <1>3 DEF Answers, SavedDraw, SavedMove, SavedDeleteBox, SavedDeleteTrack, SavedUpdate,
              SavedCopy, SavedMark, Undraw, PutBack, RemoveBox, Rename, Unmark,
              Recreate, Refill, Uncopy, Undone, Saved, Answered
<1>4. QED BY <1>1, <1>2, <1>3

(***************************************************************************)
(* What holds of the rows and of the undo stack on every page.              *)
(***************************************************************************)
LEMMA HandleTidy ==
  ASSUME NEW rows \in Rows, NEW j \in Good,
         j.kind \in {"recreate", "refill"} => j.at \in Rects /\ j.frame \in Frames,
         Tidy(rows), NEW done, done = Handle(rows, RequestOf(j)), done.rows \in Rows
  PROVE  Tidy(done.rows)
<1> DEFINE a == done.answer
           now == done.rows
<1>1. Effect(rows, now, j, a)
  BY HandleDoes
<1>2. CASE ~a.ok
  BY <1>1, <1>2 DEF Effect
<1>3. CASE a.ok
  <2>1. /\ \A f \in Frames : now.status[f] = StatusSet(j, a, f, rows.status[f])
        /\ j.kind \in {"mark", "unmark"} /\ j.status = "empty" => NoneOn(now, j.frame)
    BY <1>3, HandleStatus
  <2>2. \A t \in Tracks, f \in Frames : Rect(now.box[t][f]) = BoxSet(j, a, t, f, Rect(rows.box[t][f]))
    BY <1>1, <1>3 DEF Effect, Applied
  <2>3. now \in Rows
    OBVIOUS
  <2> HIDE DEF now, a
  <2>4. ASSUME NEW f \in Frames, now.status[f] = "empty" PROVE NoneOn(now, f)
    <3>1. CASE j.kind \in {"mark", "unmark"} /\ f = j.frame
      BY <2>1, <2>4, <3>1 DEF StatusSet
    <3>2. CASE ~(j.kind \in {"mark", "unmark"} /\ f = j.frame)
      <4>1. /\ rows.status[f] = "empty" /\ ~Fills(j, a, f)
            /\ ~(j.kind = "putBack" /\ f = j.frame)
        BY <2>1, <2>4, <3>2 DEF StatusSet
      <4>2. ASSUME NEW t \in Tracks PROVE now.box[t][f] = None
        <5>1. rows.box[t][f] = None
          BY <4>1 DEF Tidy, NoneOn
        <5>2. ~Places(j, a, t, f) /\ ~Copies(j, a, t, f)
          BY <4>1 DEF Places, Copies, Fills
        <5>3. Rect(now.box[t][f]) = None
          BY <2>2, <5>1, <5>2 DEF BoxSet, Rect
        <5>4. QED BY <2>3, <5>3, RowsShape, RectShape
      <4>3. QED BY <4>2 DEF NoneOn
    <3>3. QED BY <3>1, <3>2
  <2>5. QED BY <2>4 DEF Tidy, now
<1>4. QED BY <1>2, <1>3

LEMMA StepTidy == IInv /\ Tidy(api) /\ [Next]_vars => Tidy(api')
<1> SUFFICES ASSUME IInv, Tidy(api), [Next]_vars, api' # api PROVE Tidy(api')
  OBVIOUS
<1> DEFINE done == Handle(api, RequestOf(Running))
<1>1. Serve
  BY OnlyServed
<1>2. api' = done.rows /\ flight.at = "sent"
  BY <1>1 DEF Serve
<1>3. Running \in Good /\ api \in Rows
  BY <1>2, InTransit, FlightShape
<1>4. Running.kind \in {"recreate", "refill"} => Running.at \in Rects /\ Running.frame \in Frames
  BY <1>2 DEF IInv, InFlight
<1>5. api' \in Rows
  BY StepInv DEF IInv, TypeOK
<1> HIDE DEF done
<1>6. done = Handle(api, RequestOf(Running))
  BY DEF done
<1>7. QED BY <1>2, <1>3, <1>4, <1>5, <1>6, HandleTidy

LEMMA StackSame ==
  ASSUME StackOld, IInv, made' \in Nat, made' >= made,
         \/ undoStack' = undoStack \/ undoStack' = <<>>
         \/ \E e : Pushes(e) /\ e.n <= made'
         \/ \E i \in DOMAIN undoStack : undoStack' = RemoveAt(undoStack, i)
         \/ undoStack # <<>> /\ undoStack' = SubSeq(undoStack, 1, Len(undoStack) - 1)
  PROVE  StackOld'
<1>1. /\ undoStack \in Seq(Good) /\ made \in Nat
      /\ \A i \in DOMAIN undoStack : undoStack[i].n <= made /\ undoStack[i].n \in Nat
  <2>1. undoStack \in Seq(Good) /\ made \in Nat
    BY OnScreen
  <2>2. \A i \in DOMAIN undoStack : undoStack[i] \in Good
    BY <2>1, ElementOfSeq, LenProperties
  <2>3. \A i \in DOMAIN undoStack : undoStack[i].n \in Nat
    BY <2>2, JobShape DEF Good
  <2>4. QED BY <2>1, <2>3 DEF StackOld
<1>2. ASSUME \A i \in DOMAIN undoStack' :
               \/ \E k \in DOMAIN undoStack : undoStack'[i] = undoStack[k]
               \/ undoStack'[i].n <= made'
      PROVE  StackOld'
  BY <1>1, <1>2 DEF StackOld
<1>3. CASE undoStack' = undoStack \/ undoStack' = <<>>
  BY <1>2, <1>3
<1>4. ASSUME NEW e, Pushes(e), e.n <= made' PROVE StackOld'
  <2>1. PICK l \in Nat : l = Len(undoStack)
    BY <1>1, LenProperties
  <2>2. /\ DOMAIN undoStack = 1..l /\ DOMAIN Append(undoStack, e) = 1..(l + 1)
        /\ \A i \in 1..l : Append(undoStack, e)[i] = undoStack[i]
        /\ Append(undoStack, e)[l + 1] = e
    BY <1>1, <2>1, PushShape
  <2>3. QED BY <1>2, <1>4, <2>2 DEF Pushes
<1>5. ASSUME NEW i \in DOMAIN undoStack, undoStack' = RemoveAt(undoStack, i) PROVE StackOld'
  <2>1. PICK l \in Nat \ {0} :
          /\ DOMAIN undoStack = 1..l /\ i \in 1..l /\ DOMAIN undoStack' = 1..(l - 1)
          /\ \A k \in 1..(i - 1) : undoStack'[k] = undoStack[k]
          /\ \A k \in i..(l - 1) : undoStack'[k] = undoStack[k + 1]
    BY <1>1, <1>5, RemoveShape
  <2>2. ASSUME NEW k \in 1..(l - 1)
        PROVE  \E o \in DOMAIN undoStack : undoStack'[k] = undoStack[o]
    <3>1. CASE k < i
      BY <2>1, <3>1
    <3>2. CASE k >= i
      <4>1. k + 1 \in DOMAIN undoStack /\ undoStack'[k] = undoStack[k + 1]
        BY <2>1, <3>2
      <4>2. QED BY <4>1
    <3>3. QED BY <2>1, <3>1, <3>2
  <2>3. QED BY <1>2, <2>1, <2>2
<1>6. CASE undoStack # <<>> /\ undoStack' = SubSeq(undoStack, 1, Len(undoStack) - 1)
  <2>1. PICK l \in Nat \ {0} : /\ DOMAIN undoStack = 1..l /\ DOMAIN undoStack' = 1..(l - 1)
                               /\ \A i \in 1..(l - 1) : undoStack'[i] = undoStack[i]
    BY <1>1, <1>6, PopShape
  <2>2. QED BY <1>2, <2>1
<1>7. QED BY <1>3, <1>4, <1>5, <1>6

LEMMA StepStack == IInv /\ StackOld /\ [Next]_vars => StackOld'
<1> SUFFICES ASSUME IInv, StackOld, [Next]_vars PROVE StackOld'
  OBVIOUS
<1>1. IInv' /\ made \in Nat
  BY StepInv DEF IInv, TypeOK
<1>2. CASE Edit
  <2>1. made' = made + 1
    BY <1>2 DEF Edit, MoveBox, DrawBox, Move, DeleteSelected, DeleteWhole, Retype, CopyForward, Mark,
                Undo, Enqueue
  <2>2. CASE \E f \in Frames, status \in Statuses : Mark(f, status)
    <3>1. PICK f \in Frames, status \in Statuses : Mark(f, status)
      BY <2>2
    <3>2. \E job, undo : /\ undo.n = made + 1
                         /\ undoStack' = IF labels.status[f] = status THEN undoStack
                                         ELSE Append(undoStack, undo)
      BY <1>1, <3>1, MarkDoes
    <3>3. undoStack' = undoStack \/ \E e : Pushes(e) /\ e.n <= made'
      BY <1>1, <2>1, <3>2 DEF Pushes
    <3>4. QED BY <1>1, <2>1, <3>3, StackSame
  <2>3. CASE Undo
    <3>1. undoStack # <<>> /\ undoStack' = SubSeq(undoStack, 1, Len(undoStack) - 1)
      BY <2>3 DEF Undo
    <3>2. QED BY <1>1, <2>1, <3>1, StackSame
  <2>4. CASE ~Undo /\ ~\E f \in Frames, status \in Statuses : Mark(f, status)
    <3>1. undoStack' = undoStack
      BY <1>2, <2>4 DEF Edit, MoveBox, DrawBox, DeleteSelected, DeleteWhole, Retype, CopyForward,
                        storeVars
    <3>2. QED BY <1>1, <2>1, <3>1, StackSame
  <2>5. QED BY <2>2, <2>3, <2>4
<1>3. CASE Answers
  <2>1. made' = made
    <3>1. PICK kinds, ok : Answered(kinds, ok)
      BY <1>3 DEF Answers, SavedDraw, SavedMove, SavedDeleteBox, SavedDeleteTrack, SavedUpdate,
                  SavedCopy, SavedMark, FailedMove, FailedMark, FailedOther, Undraw, PutBack,
                  RemoveBox, Rename, Unmark, Recreate, Refill, Uncopy, Undone, Saved
    <3>2. QED BY <3>1 DEF Answered, counted
  <2>2. CASE Reply.ok
    <3>1. UNCHANGED undoStack \/ \E e : Pushes(e) /\ e.n <= made'
      BY <1>1, <1>3, <2>1, <2>2, SavedEntry DEF Undoes
    <3>2. QED BY <1>1, <2>1, <3>1, StackSame
  <2>3. CASE FailedMark
    <3>1. undoStack' = undoStack \/ \E i \in DOMAIN undoStack : undoStack' = RemoveAt(undoStack, i)
      BY <1>1, <2>3, UnmarkedShows
    <3>2. QED BY <1>1, <2>1, <3>1, StackSame
  <2>4. CASE ~Reply.ok /\ ~FailedMark
    <3>1. undoStack' = undoStack
      BY <1>3, <2>4 DEF Answers, SavedDraw, SavedMove, SavedDeleteBox, SavedDeleteTrack, SavedUpdate,
                        SavedCopy, SavedMark, FailedMove, FailedOther, Undraw, PutBack, RemoveBox,
                        Rename, Unmark, Recreate, Refill, Uncopy, Undone, Saved, Answered
    <3>2. QED BY <1>1, <2>1, <3>1, StackSame
  <2>5. QED BY <2>2, <2>3, <2>4
<1>4. ASSUME made' = made, undoStack' = undoStack \/ undoStack' = <<>> PROVE StackOld'
  BY <1>1, <1>4, StackSame
<1>5. CASE (\E t \in Tracks \union {None} : Select(t)) \/ Send \/ Serve \/ LoseRequest \/ LoseAnswer
           \/ UNCHANGED vars
  BY <1>4, <1>5 DEF Select, Send, Serve, LoseRequest, LoseAnswer, vars, counted, storeVars
<1>6. CASE OpenGold \/ \E c \in Clips : Open(c) \/ Read(c) \/ Arrive(c) \/ Evict(c)
  BY <1>4, <1>6 DEF OpenGold, Open, Read, Arrive, Evict, LoadClip, Load, counted, storeVars
<1>7. QED BY <1>2, <1>3, <1>5, <1>6 DEF Next

(***************************************************************************)
(* A clip is loaded, and the steps together.                                *)
(***************************************************************************)
LEMMA LoadHonest ==
  ASSUME IInv, Tidy(api), NEW p \in Pages, NEW view, Load(p, view), UNCHANGED <<api, queue, flight>>,
         Sure'
  PROVE  Honest'
<1>1. /\ page' = p /\ labels' = view /\ undoStack' = <<>>
      /\ upset' = IF queue = <<>> /\ (p \in Clips => view = Of(api, p)) THEN {} ELSE {"stale"}
  BY DEF Load
<1>2. p \in Clips /\ queue = <<>> /\ queue' = <<>> /\ view = Of(api, p)
  BY <1>1 DEF Sure
<1>3. flight = Idle /\ ~Landed' /\ DOMAIN queue' = {} /\ DOMAIN undoStack' = {}
  BY <1>1, <1>2 DEF IInv, TypeOK, Landed, Idle
<1>4. ASSUME NEW f \in FramesOf(p)
      PROVE  /\ labels'.status[f] = api.status[f]
             /\ \A t \in Tracks : api.box[t][f] # None => Shown(t, f)'
  <2>1. f \in Frames /\ ClipOf[f] = p
    BY <1>2, FrameOnPage
  <2>2. labels'.status[f] = api.status[f]
    BY <1>1, <1>2, <2>1 DEF Of
  <2>3. ASSUME NEW t \in Tracks, api.box[t][f] # None PROVE Shown(t, f)'
    <3>1. api.track[t] # None /\ api.track[t].clip = p
      BY <2>1, <2>3, FlightShape DEF Sound, InClip
    <3>2. labels'.box[t] = api.box[t]
      BY <1>1, <1>2, <3>1 DEF Of
    <3>3. QED BY <2>3, <3>2 DEF Shown
  <2>4. QED BY <2>2, <2>3
<1>5. StatusTold' /\ BoxesShow'
  <2>1. \A f \in FramesOf(p) : Told(f)'
    BY <1>3, <1>4 DEF Told, Known
  <2>2. QED BY <1>1, <1>4, <2>1 DEF StatusTold, BoxesShow
<1>6. EmptyIsBare'
  <2>1. \A f \in FramesOf(p) : labels'.status[f] = "empty" => NoneOn(api, f)
    BY <1>4, FrameOnPage DEF Tidy
  <2>2. QED BY <1>1, <2>1 DEF EmptyIsBare, NoneOn
<1>7. TakenGone' /\ DeletedShows' /\ Unmarked'
  BY <1>3 DEF TakenGone, DeletedShows, Unmarked
<1>8. Marks' /\ UndosFit'
  BY <1>2, <1>3 DEF Marks, Marking, UndosFit, OneUndo, PutsOnDone, RunningPut
<1>9. QED BY <1>5, <1>6, <1>7, <1>8 DEF Honest, OnFrames

(* While it can be told, the screen is honest. *)
StaysHonest == Sure => Honest

LEMMA PageHonest ==
  ASSUME IInv, Tidy(api), StaysHonest, OpenGold \/ \E c \in Clips : Open(c) \/ Read(c) \/ Arrive(c) \/ Evict(c)
  PROVE  StaysHonest'
<1>1. UNCHANGED <<api, queue, flight>>
  BY DEF OpenGold, Open, Read, Arrive, Evict, queueVars
<1>2. CASE UNCHANGED <<storeVars, remap, upset>>
  <2>1. UNCHANGED <<page, labels, undoStack, upset>>
    BY <1>2 DEF storeVars
  <2>2. /\ Sure' <=> Sure
        /\ Landed' <=> Landed
        /\ Reply' = Reply
    BY <1>1, <2>1 DEF Sure, Landed, Reply
  <2>3. QED BY <1>1, <2>1, <2>2, HonestSame DEF StaysHonest
<1>3. CASE \E p \in Pages : \E view : Load(p, view)
  BY <1>1, <1>3, LoadHonest DEF StaysHonest
<1>4. CASE OpenGold
  BY <1>3, <1>4 DEF OpenGold, Pages
<1>5. ASSUME NEW c \in Clips, Open(c) \/ Read(c) \/ Arrive(c) \/ Evict(c)
      PROVE  UNCHANGED <<storeVars, remap, upset>> \/ \E p \in Pages : \E view : Load(p, view)
  <2>1. c \in Pages
    BY DEF Pages
  <2>2. QED BY <1>5, <2>1 DEF Open, Read, Arrive, Evict, LoadClip, queueVars, ghostVars
<1>6. QED BY <1>2, <1>3, <1>4, <1>5

LEMMA InitHonest == Init => StaysHonest /\ StackOld
BY NoneAssumption DEF Init, StaysHonest, Sure, StackOld

LEMMA StepHonest ==
  IInv /\ Apart /\ Faithful /\ StackOld /\ Tidy(api) /\ StaysHonest /\ [Next]_vars => StaysHonest'
<1> SUFFICES ASSUME IInv, Apart, Faithful, StackOld, Tidy(api), StaysHonest, [Next]_vars PROVE StaysHonest'
  OBVIOUS
<1>1. IInv'
  BY StepInv
<1>2. CASE OpenGold \/ \E c \in Clips : Open(c) \/ Read(c) \/ Arrive(c) \/ Evict(c)
  BY <1>2, PageHonest
<1>3. ASSUME page' = page, upset \subseteq upset',
             Mirror /\ Honest /\ page \in Clips /\ Sure' => Honest'
      PROVE  StaysHonest'
  <2>1. Sure' => Sure /\ Certain /\ page \in Clips
    BY <1>3 DEF Sure, Certain
  <2>2. QED BY <1>3, <2>1 DEF Faithful, StaysHonest
<1>4. CASE Edit
  <2>1. page' = page
    BY <1>4 DEF Edit, MoveBox, DrawBox, DeleteSelected, DeleteWhole, Retype, CopyForward, Mark, Undo,
                storeVars
  <2>2. \E job : Enqueue(job)
    BY <1>4 DEF Edit, MoveBox, DrawBox, Move, DeleteSelected, DeleteWhole, Retype, CopyForward, Mark,
                Undo
  <2>3. upset \subseteq upset'
    BY <2>2 DEF Enqueue, Hurry
  <2>4. QED BY <1>1, <1>3, <1>4, <2>1, <2>3, EditsHonest
<1>5. CASE (\E t \in Tracks \union {None} : Select(t)) \/ UNCHANGED vars
  <2>1. UNCHANGED <<api, page, labels, undoStack, queue, flight, upset>>
    BY <1>5 DEF Select, queueVars, ghostVars, vars, storeVars
  <2>2. Honest => Honest'
    BY <2>1, HonestSame DEF Landed, Reply
  <2>3. QED BY <1>3, <2>1, <2>2
<1>6. CASE Send
  <2>1. UNCHANGED <<page, upset>>
    BY <1>6 DEF Send, storeVars, ghostVars
  <2>2. QED BY <1>1, <1>3, <1>6, <2>1, SendHonest
<1>7. CASE Serve
  <2>1. UNCHANGED <<page, upset>>
    BY <1>7 DEF Serve, storeVars
  <2>2. QED BY <1>1, <1>3, <1>7, <2>1, ServeHonest
<1>8. CASE LoseRequest
  <2>1. UNCHANGED <<page, upset>>
    BY <1>8 DEF LoseRequest, storeVars, ghostVars
  <2>2. QED BY <1>3, <1>8, <2>1, LoseHonest DEF Mirror
<1>9. CASE LoseAnswer
  <2>1. page' = page /\ upset \subseteq upset' /\ ~Sure'
    BY <1>9 DEF LoseAnswer, storeVars, Sure
  <2>2. QED BY <1>3, <2>1
<1>10. CASE Answers
  <2>1. page' = page
    BY <1>10, AnswersWhen
  <2>2. upset \subseteq upset'
    BY <1>10 DEF Answers, SavedDraw, SavedMove, SavedDeleteBox, SavedDeleteTrack, SavedUpdate, SavedCopy,
                 SavedMark, FailedMove, FailedMark, FailedOther, Undraw, PutBack, RemoveBox, Rename,
                 Unmark, Recreate, Refill, Uncopy, Undone, Saved, GoesOn
  <2>3. QED BY <1>1, <1>3, <1>10, <2>1, <2>2, AnswersHonest
<1>11. QED BY <1>2, <1>4, <1>5, <1>6, <1>7, <1>8, <1>9, <1>10 DEF Next

LEMMA HonestDone ==
  ASSUME IInv, StaysHonest
  PROVE  NoFalseDone
<1> SUFFICES ASSUME page \in Clips, queue = <<>>, upset \subseteq {"refused"},
                    NEW f \in FramesOf(page), labels.status[f] # "unlabeled"
             PROVE  labels.status[f] = api.status[f]
  BY DEF NoFalseDone, DoneIsSaved
<1>1. ~Landed /\ DOMAIN queue = {}
  BY DEF IInv, TypeOK, Landed, Idle
<1>2. Told(f)
  BY DEF StaysHonest, Sure, Honest, OnFrames, StatusTold
<1>3. Known(f)
  BY <1>1, <1>2 DEF Told, Filling
<1>4. QED BY <1>1, <1>3 DEF Known

(* A frame that is marked empty has no box, if none had one at the start:    *)
(* every handler of the API that gives it a box clears the mark, and         *)
(* SetFrameStatus marks no frame empty that has one.                         *)
THEOREM EmptyHasNoBox == Spec /\ Tidy(FirstRows) => []Tidy(api)
<1>1. Init /\ Tidy(FirstRows) => Tidy(api)
  BY DEF Init
<1>2. IInv /\ Tidy(api) /\ [Next]_vars => Tidy(api)'
  BY StepTidy DEF Tidy, NoneOn
<1>3. QED BY <1>1, <1>2, Invariant, PTL DEF Spec

(* Once the queue is empty, a frame of the clip on screen that is shown as    *)
(* labeled or empty is saved as that, whatever was edited, marked, undone or  *)
(* put back, and whichever edits were refused, as long as no undo was, nor a  *)
(* move or mark made while others waited or made again since, no undo         *)
(* overlapped another edit and no answer was lost.                            *)
THEOREM DoneIsDone == Spec /\ Tidy(FirstRows) => []NoFalseDone
<1>1. Init /\ Tidy(FirstRows) => Tidy(api)
  BY DEF Init
<1>2. IInv /\ Apart /\ [Next]_vars => Apart'
  BY StepApart
<1>3. IInv /\ Apart /\ Faithful /\ [Next]_vars => Faithful'
  BY StepFaithful
<1>4. IInv /\ StackOld /\ [Next]_vars => StackOld'
  BY StepStack
<1>5. IInv /\ Tidy(api) /\ [Next]_vars => Tidy(api)'
  BY StepTidy DEF Tidy, NoneOn
<1>6. IInv /\ Apart /\ Faithful /\ StackOld /\ Tidy(api) /\ StaysHonest /\ [Next]_vars => StaysHonest'
  BY StepHonest
<1>7. IInv /\ StaysHonest => NoFalseDone
  BY HonestDone
<1>8. QED
  BY <1>1, <1>2, <1>3, <1>4, <1>5, <1>6, <1>7, Invariant, InitApart, InitFaithful, InitHonest, PTL
     DEF Spec
=============================================================================
