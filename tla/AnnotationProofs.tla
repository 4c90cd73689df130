--------------------------- MODULE AnnotationProofs ---------------------------
(* The handlers keep the rows' type, and boxes on the frames of their        *)
(* track's clip, for any rows and requests.                                   *)
EXTENDS Annotation, TLAPS

(* A request that a page makes: it names what its operation needs. *)
Complete(q) ==
  /\ q \in Request
  /\ q.op = "createTrack" => q.clip \in ClipIds /\ q.type \in Types
  /\ q.op \in {"createTrack", "setBox"} => q.at \in Rects
  /\ q.op \in {"createTrack", "copyBoxes", "setFrameStatus"} => q.frame \in Frames
  /\ q.op = "copyBoxes" => q.to \in Frames
  /\ q.op = "updateTrack" => q.track \in Tracks /\ q.type \in Types

Sound(rows) == InClip(rows) /\ Unused(rows)

(* What a handler leaves is rows again, sound if they were, and an answer. *)
Kept(rows, done) ==
  /\ done.rows \in Rows
  /\ done.answer \in Answer
  /\ Sound(rows) => Sound(done.rows)

LEMMA RowsShape ==
  ASSUME NEW rows \in Rows
  PROVE  /\ rows.track \in [Tracks -> TrackOrNone]
         /\ rows.box \in [Tracks -> [Frames -> BoxOrNone]]
         /\ rows.status \in [Frames -> Statuses]
         /\ rows.next \in 1..(MaxTracks + 1)
         /\ rows.next \in Nat
BY MaxTracksAssumption DEF Rows

LEMMA Bits ==
  /\ \A at \in Rects : Drawn(at) \in Box
  /\ NoBoxes \in [Frames -> BoxOrNone]
  /\ Nothing \in [Tracks -> TrackOrNone] /\ Nothing \in [Tracks -> BoxOrNone]
  /\ None \in BoxOrNone /\ None \in TrackOrNone
  /\ Refusal \in Answer /\ Accepted \in Answer
<1>1. \A at \in Rects : Drawn(at) \in Box
  BY DEF Drawn, Box
<1>2. NoBoxes \in [Frames -> BoxOrNone] /\ None \in BoxOrNone /\ None \in TrackOrNone
  BY DEF NoBoxes, BoxOrNone, TrackOrNone
<1>3. Nothing \in [Tracks -> TrackOrNone] /\ Nothing \in [Tracks -> BoxOrNone]
  BY <1>2 DEF Nothing
<1>4. Refusal \in Answer
  BY <1>2, <1>3 DEF Refusal, Answer
<1>5. Accepted \in Answer
  BY <1>4 DEF Accepted, Answer
<1>6. QED BY <1>1, <1>2, <1>3, <1>4, <1>5

LEMMA NoneNotTrack == None \notin Track
BY NoneAssumption DEF Track, ClipIds

LEMMA ClearEmptyType ==
  ASSUME NEW status \in [Frames -> Statuses], NEW f
  PROVE  ClearEmpty(status, f) \in [Frames -> Statuses]
BY DEF ClearEmpty, Statuses

LEMMA PutBoxType ==
  ASSUME NEW rows \in Rows, NEW t, NEW f, NEW at \in Rects
  PROVE  /\ PutBox(rows, t, f, at) \in Rows
         /\ PutBox(rows, t, f, at).track = rows.track
         /\ PutBox(rows, t, f, at).next = rows.next
         /\ \A u \in Tracks, g \in Frames :
              PutBox(rows, t, f, at).box[u][g]
                = IF u = t /\ g = f THEN Drawn(at) ELSE rows.box[u][g]
<1>1. Drawn(at) \in BoxOrNone
  BY Bits DEF BoxOrNone
<1>2. [rows.box EXCEPT ![t][f] = Drawn(at)] \in [Tracks -> [Frames -> BoxOrNone]]
  BY <1>1, RowsShape
<1>3. ClearEmpty(rows.status, f) \in [Frames -> Statuses]
  BY RowsShape, ClearEmptyType
<1> DEFINE box == [rows.box EXCEPT ![t][f] = Drawn(at)]
           status == ClearEmpty(rows.status, f)
<1>4. PutBox(rows, t, f, at) = [rows EXCEPT !.box = box, !.status = status]
  BY DEF PutBox
<1>5. ASSUME NEW u \in Tracks, NEW g \in Frames
      PROVE  box[u][g] = IF u = t /\ g = f THEN Drawn(at) ELSE rows.box[u][g]
  BY RowsShape
<1> HIDE DEF box, status
<1>6. /\ PutBox(rows, t, f, at) \in Rows
      /\ PutBox(rows, t, f, at).track = rows.track
      /\ PutBox(rows, t, f, at).next = rows.next
      /\ PutBox(rows, t, f, at).box = box
  BY <1>2, <1>3, <1>4, RowsShape DEF Rows, box, status
<1>7. QED BY <1>5, <1>6

LEMMA EraseType ==
  ASSUME NEW rows \in Rows, NEW t
  PROVE  /\ Erase(rows, t) \in Rows
         /\ Erase(rows, t).track = [rows.track EXCEPT ![t] = None]
         /\ Erase(rows, t).box = [rows.box EXCEPT ![t] = NoBoxes]
         /\ Erase(rows, t).next = rows.next
<1>1. [rows.track EXCEPT ![t] = None] \in [Tracks -> TrackOrNone]
  BY Bits, RowsShape
<1>2. [rows.box EXCEPT ![t] = NoBoxes] \in [Tracks -> [Frames -> BoxOrNone]]
  BY Bits, RowsShape
<1> DEFINE track == [rows.track EXCEPT ![t] = None]
           box == [rows.box EXCEPT ![t] = NoBoxes]
<1>3. Erase(rows, t) = [rows EXCEPT !.track = track, !.box = box]
  BY DEF Erase
<1> HIDE DEF track, box
<1>4. QED BY <1>1, <1>2, <1>3, RowsShape DEF Rows, track, box

LEMMA EraseSound ==
  ASSUME NEW rows \in Rows, NEW t, Sound(rows)
  PROVE  Sound(Erase(rows, t))
<1> DEFINE after == Erase(rows, t)
<1>1. /\ after.track = [rows.track EXCEPT ![t] = None]
      /\ after.box = [rows.box EXCEPT ![t] = NoBoxes]
      /\ after.next = rows.next
  BY EraseType
<1> HIDE DEF after
<1>2. ASSUME NEW u \in Tracks, NEW f \in Frames, after.box[u][f] # None
      PROVE  after.track[u] # None /\ after.track[u].clip = ClipOf[f]
  <2>1. u # t
    BY <1>1, <1>2, RowsShape DEF NoBoxes
  <2>2. after.box[u] = rows.box[u] /\ after.track[u] = rows.track[u]
    BY <1>1, <2>1, RowsShape
  <2>3. QED BY <1>2, <2>2 DEF Sound, InClip
<1>3. ASSUME NEW u \in Tracks, u >= after.next PROVE after.track[u] = None
  BY <1>1, <1>3, RowsShape DEF Sound, Unused
<1>4. QED BY <1>2, <1>3 DEF Sound, InClip, Unused, after

LEMMA MakeType ==
  ASSUME NEW rows \in Rows, NEW clip \in ClipIds, NEW type \in Types, NEW f, NEW at \in Rects,
         NEW t \in Tracks, t = rows.next
  PROVE  /\ Make(rows, clip, type, f, at).rows \in Rows
         /\ Make(rows, clip, type, f, at).answer \in Answer
         /\ Make(rows, clip, type, f, at).rows.track
              = [rows.track EXCEPT ![t] = [clip |-> clip, type |-> type]]
         /\ Make(rows, clip, type, f, at).rows.next = t + 1
         /\ \A u \in Tracks, g \in Frames :
              Make(rows, clip, type, f, at).rows.box[u][g]
                = IF u = t /\ g = f THEN Drawn(at) ELSE rows.box[u][g]
<1> DEFINE new == [clip |-> clip, type |-> type]
           grown == [rows EXCEPT !.track[t] = new, !.next = t + 1]
           track == [rows.track EXCEPT ![t] = new]
           answer == [Accepted EXCEPT !.track = t, !.was = new]
<1>1. new \in TrackOrNone
  BY DEF Track, TrackOrNone
<1>2. t \in Nat /\ t + 1 \in 1..(MaxTracks + 1)
  BY MaxTracksAssumption DEF Tracks
<1>3. track \in [Tracks -> TrackOrNone]
  BY <1>1, RowsShape
<1>4. grown = [rows EXCEPT !.track = track, !.next = t + 1]
  BY DEF Rows
<1>5. grown \in Rows /\ grown.track = track /\ grown.next = t + 1 /\ grown.box = rows.box
  <2> HIDE DEF track
  <2>1. QED BY <1>2, <1>3, <1>4, RowsShape DEF Rows
<1>6. answer \in Answer
  <2> HIDE DEF new
  <2>1. QED BY <1>1, Bits DEF Answer
<1>7. /\ Make(rows, clip, type, f, at).rows = PutBox(grown, t, f, at)
      /\ Make(rows, clip, type, f, at).answer = answer
  BY DEF Make, Outcome
<1> HIDE DEF grown, answer, track
<1>8. /\ PutBox(grown, t, f, at) \in Rows
      /\ PutBox(grown, t, f, at).track = track
      /\ PutBox(grown, t, f, at).next = t + 1
      /\ \A u \in Tracks, g \in Frames :
           PutBox(grown, t, f, at).box[u][g]
             = IF u = t /\ g = f THEN Drawn(at) ELSE rows.box[u][g]
  BY <1>5, PutBoxType
<1>9. QED BY <1>6, <1>7, <1>8 DEF track

LEMMA RefuseType ==
  ASSUME NEW rows \in Rows
  PROVE  Refuse(rows).rows = rows /\ Refuse(rows).answer \in Answer
BY Bits DEF Refuse, Outcome

LEMMA TakeBoxType ==
  ASSUME NEW rows \in Rows, NEW t, NEW f
  PROVE  /\ TakeBox(rows, t, f).rows \in Rows
         /\ TakeBox(rows, t, f).answer \in Answer
         /\ Sound(rows) => Sound(TakeBox(rows, t, f).rows)
<1> DEFINE box == [rows.box EXCEPT ![t][f] = None]
           left == [rows EXCEPT !.box = box]
           gone == left.box[t] = NoBoxes
<1>1. box \in [Tracks -> [Frames -> BoxOrNone]]
  BY Bits, RowsShape
<1>2. left \in Rows /\ left.track = rows.track /\ left.next = rows.next /\ left.box = box
  <2> HIDE DEF box
  <2>1. QED BY <1>1, RowsShape DEF Rows
<1>3. /\ TakeBox(rows, t, f).rows = (IF gone THEN Erase(left, t) ELSE left)
      /\ TakeBox(rows, t, f).answer = [Accepted EXCEPT !.gone = gone]
  BY DEF TakeBox, Outcome, Rows
<1>4. [Accepted EXCEPT !.gone = gone] \in Answer
  BY Bits DEF Answer
<1>5. Sound(rows) => Sound(left)
  <2>1. \A u \in Tracks, g \in Frames : box[u][g] # None => rows.box[u][g] # None
    BY RowsShape
  <2>2. QED BY <1>2, <2>1 DEF Sound, InClip, Unused
<1> HIDE DEF left
<1>6. Sound(left) => Sound(Erase(left, t))
  BY <1>2, EraseSound
<1> HIDE DEF gone
<1>7. Erase(left, t) \in Rows
  BY <1>2, EraseType
<1>8. CASE gone
  BY <1>3, <1>4, <1>5, <1>6, <1>7, <1>8
<1>9. CASE ~gone
  BY <1>2, <1>3, <1>4, <1>5, <1>9
<1>10. QED BY <1>8, <1>9

LEMMA RefuseKeeps ==
  ASSUME NEW rows \in Rows
  PROVE  Kept(rows, Refuse(rows))
BY RefuseType DEF Kept

LEMMA CreateKeeps ==
  ASSUME NEW rows \in Rows, NEW q, Complete(q), q.op = "createTrack"
  PROVE  Kept(rows, CreateTrack(rows, q))
<1>1. CASE ~(ClipOf[q.frame] = q.clip /\ rows.next \in Tracks)
  BY <1>1, RefuseKeeps DEF CreateTrack
<1>2. CASE ClipOf[q.frame] = q.clip /\ rows.next \in Tracks
  <2> DEFINE t == rows.next
             new == [clip |-> q.clip, type |-> q.type]
             done == Make(rows, q.clip, q.type, q.frame, q.at)
  <2>1. q.clip \in ClipIds /\ q.type \in Types /\ q.frame \in Frames /\ q.at \in Rects
    BY DEF Complete
  <2>2. /\ done.rows \in Rows /\ done.answer \in Answer
        /\ done.rows.track = [rows.track EXCEPT ![t] = new]
        /\ done.rows.next = t + 1
        /\ \A u \in Tracks, g \in Frames :
             done.rows.box[u][g]
               = IF u = t /\ g = q.frame THEN Drawn(q.at) ELSE rows.box[u][g]
    BY <1>2, <2>1, MakeType
  <2>3. new \in Track /\ new.clip = q.clip
    BY <2>1 DEF Track
  <2>4. new # None
    BY <2>3, NoneNotTrack
  <2>5. CreateTrack(rows, q) = done
    BY <1>2 DEF CreateTrack
  <2> HIDE DEF done, new
  <2>6. ASSUME Sound(rows) PROVE Sound(done.rows)
    <3>1. ASSUME NEW u \in Tracks, NEW g \in Frames, done.rows.box[u][g] # None
          PROVE  done.rows.track[u] # None /\ done.rows.track[u].clip = ClipOf[g]
      <4>1. CASE u # t
        <5>1. done.rows.box[u][g] = rows.box[u][g] /\ done.rows.track[u] = rows.track[u]
          BY <2>2, <4>1, RowsShape
        <5>2. QED BY <2>6, <3>1, <5>1 DEF Sound, InClip
      <4>2. CASE u = t
        <5>1. rows.track[t] = None
          BY <1>2, <2>6, RowsShape DEF Sound, Unused
        <5>2. rows.box[t][g] = None
          BY <1>2, <2>6, <5>1 DEF Sound, InClip
        <5>3. g = q.frame
          BY <2>2, <3>1, <4>2, <5>2
        <5>4. done.rows.track[u] = new
          BY <1>2, <2>2, <4>2, RowsShape
        <5>5. QED BY <1>2, <2>3, <2>4, <5>3, <5>4
      <4>3. QED BY <4>1, <4>2
    <3>2. ASSUME NEW u \in Tracks, u >= done.rows.next PROVE done.rows.track[u] = None
      <4>1. u \in Nat /\ t \in Nat /\ u # t /\ u >= t
        BY <2>2, <3>2, RowsShape, MaxTracksAssumption DEF Tracks
      <4>2. QED BY <2>2, <2>6, <4>1, RowsShape DEF Sound, Unused
    <3>3. QED BY <3>1, <3>2 DEF Sound, InClip, Unused
  <2>7. QED BY <2>2, <2>5, <2>6 DEF Kept
<1>3. QED BY <1>1, <1>2

LEMMA PutKeeps ==
  ASSUME NEW rows \in Rows, NEW t, NEW f, NEW at \in Rects, Sound(rows),
         rows.track[t] # None, rows.track[t].clip = ClipOf[f]
  PROVE  Sound(PutBox(rows, t, f, at))
<1> DEFINE after == PutBox(rows, t, f, at)
<1>1. /\ after.track = rows.track
      /\ after.next = rows.next
      /\ \A u \in Tracks, g \in Frames :
           after.box[u][g] = IF u = t /\ g = f THEN Drawn(at) ELSE rows.box[u][g]
  BY PutBoxType
<1> HIDE DEF after
<1>2. ASSUME NEW u \in Tracks, NEW g \in Frames, after.box[u][g] # None
      PROVE  rows.track[u] # None /\ rows.track[u].clip = ClipOf[g]
  <2>1. CASE u = t /\ g = f
    BY <2>1
  <2>2. CASE ~(u = t /\ g = f)
    BY <1>1, <1>2, <2>2 DEF Sound, InClip
  <2>3. QED BY <2>1, <2>2
<1>3. QED BY <1>1, <1>2 DEF Sound, InClip, Unused, after

LEMMA SetBoxKeeps ==
  ASSUME NEW rows \in Rows, NEW q, Complete(q), q.op = "setBox"
  PROVE  Kept(rows, SetBox(rows, q))
<1>1. CASE ~(rows.track[q.track] # None /\ rows.track[q.track].clip = ClipOf[q.frame])
  BY <1>1, RefuseKeeps DEF SetBox
<1>2. CASE rows.track[q.track] # None /\ rows.track[q.track].clip = ClipOf[q.frame]
  <2> DEFINE after == PutBox(rows, q.track, q.frame, q.at)
  <2>1. q.at \in Rects
    BY DEF Complete
  <2>2. SetBox(rows, q).rows = after /\ SetBox(rows, q).answer = Accepted
    BY <1>2 DEF SetBox, Outcome
  <2>3. after \in Rows
    BY <2>1, PutBoxType
  <2>4. Sound(rows) => Sound(after)
    BY <1>2, <2>1, PutKeeps
  <2>5. QED BY <2>2, <2>3, <2>4, Bits DEF Kept
<1>3. QED BY <1>1, <1>2

LEMMA DeleteBoxKeeps ==
  ASSUME NEW rows \in Rows, NEW q
  PROVE  Kept(rows, DeleteBox(rows, q))
BY RefuseKeeps, TakeBoxType DEF DeleteBox, Kept

LEMMA DeleteTrackKeeps ==
  ASSUME NEW rows \in Rows, NEW q
  PROVE  Kept(rows, DeleteTrack(rows, q))
<1>1. CASE rows.track[q.track] # None
  <2>1. /\ DeleteTrack(rows, q).rows = Erase(rows, q.track)
        /\ DeleteTrack(rows, q).answer = Accepted
    BY <1>1 DEF DeleteTrack, Outcome
  <2>2. Erase(rows, q.track) \in Rows /\ Accepted \in Answer
    BY EraseType, Bits
  <2>3. Sound(rows) => Sound(Erase(rows, q.track))
    BY EraseSound
  <2>4. QED BY <2>1, <2>2, <2>3 DEF Kept
<1>2. CASE rows.track[q.track] = None
  BY <1>2, RefuseKeeps DEF DeleteTrack
<1>3. QED BY <1>1, <1>2

LEMMA UpdateKeeps ==
  ASSUME NEW rows \in Rows, NEW q, q.track \in Tracks, q.type \in Types
  PROVE  Kept(rows, UpdateTrack(rows, q))
<1>1. CASE rows.track[q.track] # None
  <2> DEFINE t == q.track
             old == rows.track[t]
             now == [old EXCEPT !.type = q.type]
             track == [rows.track EXCEPT ![t] = now]
             answer == [Accepted EXCEPT !.was = now]
  <2>1. old \in Track
    BY <1>1, RowsShape DEF TrackOrNone
  <2>2. now \in Track /\ now.clip = old.clip
    BY <2>1 DEF Track
  <2>3. now # None /\ now \in TrackOrNone
    BY <2>2, NoneNotTrack DEF TrackOrNone
  <2>4. UpdateTrack(rows, q) = Outcome([rows EXCEPT !.track = track], answer)
    BY <1>1, RowsShape DEF UpdateTrack, Rows
  <2> HIDE DEF now, old
  <2>5. track \in [Tracks -> TrackOrNone]
    BY <2>3, RowsShape
  <2>6. answer \in Answer
    BY <2>3, Bits DEF Answer
  <2>7. \A u \in Tracks : track[u] = IF u = t THEN now ELSE rows.track[u]
    BY RowsShape
  <2> HIDE DEF track, answer
  <2> DEFINE after == [rows EXCEPT !.track = track]
  <2>8. /\ after \in Rows
        /\ after.track = track /\ after.box = rows.box /\ after.next = rows.next
    BY <2>5, RowsShape DEF Rows
  <2>9. UpdateTrack(rows, q).rows = after /\ UpdateTrack(rows, q).answer = answer
    BY <2>4 DEF Outcome
  <2> HIDE DEF after
  <2>10. ASSUME Sound(rows) PROVE Sound(after)
    <3>1. ASSUME NEW u \in Tracks, NEW f \in Frames, after.box[u][f] # None
          PROVE  after.track[u] # None /\ after.track[u].clip = ClipOf[f]
      <4>1. rows.track[u] # None /\ rows.track[u].clip = ClipOf[f]
        BY <2>8, <2>10, <3>1 DEF Sound, InClip
      <4>2. QED BY <2>2, <2>3, <2>7, <2>8, <4>1 DEF old
    <3>2. ASSUME NEW u \in Tracks, u >= after.next PROVE after.track[u] = None
      BY <1>1, <2>7, <2>8, <2>10, <3>2 DEF Sound, Unused
    <3>3. QED BY <3>1, <3>2 DEF Sound, InClip, Unused
  <2>11. QED BY <2>6, <2>8, <2>9, <2>10 DEF Kept
<1>2. CASE rows.track[q.track] = None
  BY <1>2, RefuseKeeps DEF UpdateTrack
<1>3. QED BY <1>1, <1>2

(* A box set that is as sound as the one before: every box is on a frame where *)
(* its track had one already, or on one of the same clip.                      *)
LEMMA BoxesKeep ==
  ASSUME NEW rows \in Rows, NEW box \in [Tracks -> [Frames -> BoxOrNone]],
         NEW status \in [Frames -> Statuses],
         \A t \in Tracks, f \in Frames : box[t][f] # None =>
           \E g \in Frames : rows.box[t][g] # None /\ ClipOf[g] = ClipOf[f]
  PROVE  /\ [rows EXCEPT !.box = box, !.status = status] \in Rows
         /\ Sound(rows) => Sound([rows EXCEPT !.box = box, !.status = status])
<1> DEFINE after == [rows EXCEPT !.box = box, !.status = status]
<1>1. after \in Rows /\ after.box = box /\ after.track = rows.track /\ after.next = rows.next
  BY RowsShape DEF Rows
<1> HIDE DEF after
<1>2. ASSUME Sound(rows) PROVE Sound(after)
  BY <1>1, <1>2 DEF Sound, InClip, Unused
<1>3. QED BY <1>1, <1>2 DEF after

LEMMA CopyKeeps ==
  ASSUME NEW rows \in Rows, NEW q, Complete(q), q.op = "copyBoxes"
  PROVE  Kept(rows, CopyBoxes(rows, q))
<1> DEFINE f == q.frame
           g == q.to
           made == Copied(rows, f, g)
           box == [t \in Tracks |-> IF made[t] = None THEN rows.box[t]
                                    ELSE [rows.box[t] EXCEPT ![g] = made[t]]]
           status == ClearEmpty(rows.status, g)
           after == [rows EXCEPT !.box = box, !.status = status]
           answer == [Accepted EXCEPT !.made = made]
<1>1. f \in Frames /\ g \in Frames
  BY DEF Complete
<1>2. CASE ClipOf[f] # ClipOf[g]
  BY <1>2, RefuseKeeps DEF CopyBoxes
<1>3. CASE ClipOf[f] = ClipOf[g] /\ made = Nothing
  <2>1. CopyBoxes(rows, q) = Outcome(rows, Accepted)
    BY <1>3 DEF CopyBoxes
  <2>2. QED BY <2>1, Bits DEF Kept, Outcome
<1>4. CASE ClipOf[f] = ClipOf[g] /\ made # Nothing
  <2>1. CopyBoxes(rows, q) = Outcome(after, answer)
    BY <1>4 DEF CopyBoxes
  <2>2. ASSUME NEW t \in Tracks
        PROVE  made[t] \in BoxOrNone /\ (made[t] # None => rows.box[t][f] # None)
    <3>1. rows.box[t][f] # None => rows.box[t][f] \in Box /\ rows.box[t][f].at \in Rects
      BY <1>1, RowsShape DEF BoxOrNone, Box
    <3>2. QED BY <3>1, Bits DEF Copied, BoxOrNone
  <2>3. made \in [Tracks -> BoxOrNone]
    BY <2>2 DEF Copied
  <2> HIDE DEF made
  <2>4. box \in [Tracks -> [Frames -> BoxOrNone]]
    BY <2>2, RowsShape
  <2>5. ASSUME NEW t \in Tracks, NEW h \in Frames, box[t][h] # None
        PROVE  \E k \in Frames : rows.box[t][k] # None /\ ClipOf[k] = ClipOf[h]
    <3>1. CASE made[t] = None \/ h # g
      BY <2>5, <3>1, RowsShape
    <3>2. CASE made[t] # None /\ h = g
      BY <1>1, <1>4, <2>2, <3>2
    <3>3. QED BY <3>1, <3>2
  <2>6. status \in [Frames -> Statuses]
    BY RowsShape, ClearEmptyType
  <2> HIDE DEF box, status
  <2>7. after \in Rows /\ (Sound(rows) => Sound(after))
    BY <2>4, <2>5, <2>6, BoxesKeep
  <2>8. answer \in Answer
    BY <2>3, Bits DEF Answer
  <2> HIDE DEF after, answer
  <2>9. QED BY <2>1, <2>7, <2>8 DEF Kept, Outcome
<1>5. QED BY <1>2, <1>3, <1>4

LEMMA StatusKeeps ==
  ASSUME NEW rows \in Rows, NEW q, Complete(q), q.op = "setFrameStatus"
  PROVE  Kept(rows, SetFrameStatus(rows, q))
<1> DEFINE f == q.frame
           full == q.status = "empty" /\ \E t \in Tracks : rows.box[t][f] # None
           box == IF q.status = "labeled" THEN AcceptAll(rows.box, f) ELSE rows.box
           status == [rows.status EXCEPT ![f] = q.status]
           after == [rows EXCEPT !.box = box, !.status = status]
<1>1. f \in Frames /\ q.status \in Statuses
  BY DEF Complete, Request
<1>2. CASE full
  BY <1>2, RefuseKeeps DEF SetFrameStatus
<1>3. CASE ~full
  <2>1. SetFrameStatus(rows, q) = Outcome(after, Accepted)
    BY <1>3, RowsShape DEF SetFrameStatus, Rows
  <2>2. ASSUME NEW t \in Tracks
        PROVE  /\ AcceptAll(rows.box, f)[t] \in [Frames -> BoxOrNone]
               /\ \A h \in Frames : AcceptAll(rows.box, f)[t][h] # None => rows.box[t][h] # None
    <3>1. rows.box[t][f] # None => Drawn(rows.box[t][f].at) \in BoxOrNone
      BY <1>1, RowsShape, Bits DEF BoxOrNone, Box
    <3>2. QED BY <1>1, <3>1, RowsShape DEF AcceptAll
  <2>3. AcceptAll(rows.box, f) \in [Tracks -> [Frames -> BoxOrNone]]
    BY <2>2 DEF AcceptAll
  <2>4. /\ box \in [Tracks -> [Frames -> BoxOrNone]]
        /\ \A t \in Tracks, h \in Frames : box[t][h] # None => rows.box[t][h] # None
    BY <2>2, <2>3, RowsShape
  <2>5. status \in [Frames -> Statuses]
    BY <1>1, RowsShape
  <2> HIDE DEF box, status
  <2>6. after \in Rows /\ (Sound(rows) => Sound(after))
    BY <2>4, <2>5, BoxesKeep
  <2> HIDE DEF after
  <2>7. QED BY <2>1, <2>6, Bits DEF Kept, Outcome
<1>4. QED BY <1>2, <1>3

(* Every handler of the service keeps the rows what they were. *)
LEMMA HandleKeeps ==
  ASSUME NEW rows \in Rows, NEW q, Complete(q)
  PROVE  Kept(rows, Handle(rows, q))
<1>1. CASE q.op = "createTrack"
  BY <1>1, CreateKeeps DEF Handle
<1>2. CASE q.op = "setBox"
  BY <1>2, SetBoxKeeps DEF Handle
<1>3. CASE q.op = "deleteBox"
  BY <1>3, DeleteBoxKeeps DEF Handle
<1>4. CASE q.op = "deleteTrack"
  BY <1>4, DeleteTrackKeeps DEF Handle
<1>5. CASE q.op = "updateTrack"
  BY <1>5, UpdateKeeps DEF Handle, Complete
<1>6. CASE q.op = "copyBoxes"
  BY <1>6, CopyKeeps DEF Handle
<1>7. CASE q.op = "setFrameStatus"
  BY <1>7, StatusKeeps DEF Handle
<1>8. QED BY <1>1, <1>2, <1>3, <1>4, <1>5, <1>6, <1>7 DEF Complete, Request

(* The backend in memory keeps its rows' type; it does not look at clips. *)
LEMMA LocalType ==
  ASSUME NEW rows \in Rows, NEW q, Complete(q)
  PROVE  LocalHandle(rows, q).rows \in Rows /\ LocalHandle(rows, q).answer \in Answer
<1> DEFINE done == LocalHandle(rows, q)
<1>1. CASE q.op = "createTrack"
  <2>1. q.clip \in ClipIds /\ q.type \in Types /\ q.at \in Rects
    BY <1>1 DEF Complete
  <2>2. CASE rows.next \in Tracks
    <3> DEFINE new == Make(rows, q.clip, q.type, q.frame, q.at)
    <3>1. done = new
      BY <1>1, <2>2 DEF LocalHandle
    <3>2. new.rows \in Rows /\ new.answer \in Answer
      BY <2>1, <2>2, MakeType
    <3>3. QED BY <3>1, <3>2
  <2>3. CASE rows.next \notin Tracks
    BY <1>1, <2>3, RefuseType DEF LocalHandle
  <2>4. QED BY <2>2, <2>3
<1>2. CASE q.op = "setBox"
  <2>1. q.at \in Rects
    BY <1>2 DEF Complete
  <2>2. CASE rows.track[q.track] # None
    <3>1. done = Outcome(PutBox(rows, q.track, q.frame, q.at), Accepted)
      BY <1>2, <2>2 DEF LocalHandle
    <3>2. QED BY <2>1, <3>1, PutBoxType, Bits DEF Outcome
  <2>3. CASE rows.track[q.track] = None
    BY <1>2, <2>3, RefuseType DEF LocalHandle
  <2>4. QED BY <2>2, <2>3
<1>3. CASE q.op = "deleteBox"
  BY <1>3, RefuseType, TakeBoxType DEF LocalHandle
<1>4. CASE q.op = "deleteTrack"
  <2>1. done = Outcome(Erase(rows, q.track), Accepted)
    BY <1>4 DEF LocalHandle
  <2>2. Erase(rows, q.track) \in Rows /\ Accepted \in Answer
    BY EraseType, Bits
  <2>3. QED BY <2>1, <2>2 DEF Outcome
<1>5. CASE q.op = "updateTrack"
  <2>1. q.track \in Tracks /\ q.type \in Types
    BY <1>5 DEF Complete
  <2>2. done = UpdateTrack(rows, q)
    BY <1>5 DEF LocalHandle
  <2>3. QED BY <2>1, <2>2, UpdateKeeps DEF Kept
<1>6. CASE q.op \in {"copyBoxes", "setFrameStatus"}
  BY <1>6, Bits DEF LocalHandle, Outcome
<1>7. QED BY <1>1, <1>2, <1>3, <1>4, <1>5, <1>6 DEF Complete, Request
===============================================================================
