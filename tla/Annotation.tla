------------------------------ MODULE Annotation ------------------------------
(***************************************************************************)
(* The handlers of the annotation service as functions of the rows they    *)
(* read and write, and the backend in memory that a gold check uses in     *)
(* their place.  A handler takes the rows and a request; it answers        *)
(* whether it accepted the request, the rows it leaves and what it         *)
(* returns.  One transaction is one step here; Prelabel takes the          *)
(* statements of these transactions apart.                                 *)
(***************************************************************************)
EXTENDS Integers, FiniteSets

CONSTANTS
  Clips,      \* clips of videos
  Frames,     \* ids of frames, numbers in the order of the video
  ClipOf,     \* the clip of each frame
  Types,      \* label types
  Rects,      \* where a box may be
  MaxTracks,  \* bound: ids of tracks
  Gold,       \* a model value: the page of a gold check
  GoldId,     \* the clip it says it labels: its frame's id, which a clip may have too
  None        \* a model value: no track, no box, no frame

ASSUME FramesAssumption == Frames \subseteq Nat /\ IsFiniteSet(Frames)
ASSUME ClipOfAssumption == ClipOf \in [Frames -> Clips]
ASSUME MaxTracksAssumption == MaxTracks \in Nat \ {0}
ASSUME NoneAssumption ==
  /\ None \notin Frames \union Types \union Rects \union (1..MaxTracks)
  /\ Gold \notin Clips \union {None}
  /\ None \notin Clips \union {GoldId}
  /\ None \notin [clip : Clips \union {GoldId}, type : Types]
  /\ None \notin [at : Rects, is : {"proposed", "verified", "accepted"}]

Tracks == 1..MaxTracks
Pages == Clips \union {Gold}
ClipIds == Clips \union {GoldId}
Statuses == {"unlabeled", "labeled", "empty"}
(* A box on a screen is "accepted" when marking its frame verified it and     *)
(* nothing replaced it since; the database knows only the other two.         *)
Box == [at : Rects, is : {"proposed", "verified", "accepted"}]
Track == [clip : ClipIds, type : Types]
BoxOrNone == Box \union {None}
TrackOrNone == Track \union {None}
NoBoxes == [f \in Frames |-> None]

Rows == [track : [Tracks -> TrackOrNone], box : [Tracks -> [Frames -> BoxOrNone]],
         status : [Frames -> Statuses], next : 1..(MaxTracks + 1)]

(* What holds of the rows: boxes are on frames of their track's clip, and     *)
(* ids to come are unused.                                                   *)
InClip(rows) == \A t \in Tracks, f \in Frames :
  rows.box[t][f] # None => rows.track[t] # None /\ rows.track[t].clip = ClipOf[f]
Unused(rows) == \A t \in Tracks : t >= rows.next => rows.track[t] = None

Drawn(at) == [at |-> at, is |-> "verified"]

Request == [op : {"createTrack", "setBox", "deleteBox", "deleteTrack", "updateTrack",
                  "copyBoxes", "setFrameStatus"},
            track : Tracks \union {None}, frame : Frames \union {None}, to : Frames \union {None},
            clip : ClipIds \union {None}, type : Types \union {None}, at : Rects \union {None},
            status : Statuses]

(* What a handler answers: the track it made or changed, whether it deleted  *)
(* the track, and the boxes it copied.                                       *)
Answer == [ok : BOOLEAN, track : Tracks \union {None}, was : TrackOrNone, gone : BOOLEAN,
           made : [Tracks -> BoxOrNone]]
Nothing == [t \in Tracks |-> None]
Refusal == [ok |-> FALSE, track |-> None, was |-> None, gone |-> FALSE, made |-> Nothing]
Accepted == [Refusal EXCEPT !.ok = TRUE]

Outcome(rows, answer) == [rows |-> rows, answer |-> answer]
Refuse(rows) == Outcome(rows, Refusal)

(* ClearEmptyFrame: a frame marked empty that now has a box needs to be      *)
(* confirmed again.                                                          *)
ClearEmpty(status, f) == IF status[f] = "empty" THEN [status EXCEPT ![f] = "unlabeled"] ELSE status

PutBox(rows, t, f, at) ==
  [rows EXCEPT !.box[t][f] = Drawn(at), !.status = ClearEmpty(rows.status, f)]

Erase(rows, t) == [rows EXCEPT !.track[t] = None, !.box[t] = NoBoxes]

Make(rows, clip, type, f, at) ==
  LET t == rows.next IN
  Outcome(PutBox([rows EXCEPT !.track[t] = [clip |-> clip, type |-> type], !.next = t + 1], t, f, at),
          [Accepted EXCEPT !.track = t, !.was = [clip |-> clip, type |-> type]])

CreateTrack(rows, q) ==
  IF ClipOf[q.frame] = q.clip /\ rows.next \in Tracks
  THEN Make(rows, q.clip, q.type, q.frame, q.at)
  ELSE Refuse(rows)

(* Mutant of SetBox: the frame may be one of another clip. *)
SetBoxAnywhere(rows, q) ==
  IF rows.track[q.track] # None
  THEN Outcome(PutBox(rows, q.track, q.frame, q.at), Accepted)
  ELSE Refuse(rows)

SetBox(rows, q) ==
  IF rows.track[q.track] # None /\ rows.track[q.track].clip = ClipOf[q.frame]
  THEN Outcome(PutBox(rows, q.track, q.frame, q.at), Accepted)
  ELSE Refuse(rows)

(* A track goes with its last box. *)
TakeBox(rows, t, f) ==
  LET left == [rows EXCEPT !.box[t][f] = None]
      gone == left.box[t] = NoBoxes
  IN Outcome(IF gone THEN Erase(left, t) ELSE left, [Accepted EXCEPT !.gone = gone])

DeleteBox(rows, q) ==
  IF rows.box[q.track][q.frame] # None THEN TakeBox(rows, q.track, q.frame) ELSE Refuse(rows)

DeleteTrack(rows, q) ==
  IF rows.track[q.track] # None THEN Outcome(Erase(rows, q.track), Accepted) ELSE Refuse(rows)

UpdateTrack(rows, q) ==
  IF rows.track[q.track] # None
  THEN LET now == [rows.track[q.track] EXCEPT !.type = q.type]
       IN Outcome([rows EXCEPT !.track[q.track] = now], [Accepted EXCEPT !.was = now])
  ELSE Refuse(rows)

(* Boxes of the frame whose track has none on the other one. *)
Copied(rows, f, g) ==
  [t \in Tracks |-> IF rows.box[t][f] # None /\ rows.box[t][g] = None
                    THEN Drawn(rows.box[t][f].at) ELSE None]

CopyBoxes(rows, q) ==
  LET made == Copied(rows, q.frame, q.to)
      box == [t \in Tracks |-> IF made[t] = None THEN rows.box[t]
                               ELSE [rows.box[t] EXCEPT ![q.to] = made[t]]]
  IN IF ClipOf[q.frame] # ClipOf[q.to] THEN Refuse(rows)
     ELSE IF made = Nothing THEN Outcome(rows, Accepted)
     ELSE Outcome([rows EXCEPT !.box = box, !.status = ClearEmpty(rows.status, q.to)],
                  [Accepted EXCEPT !.made = made])

(* AcceptFrameProposals *)
AcceptAll(box, f) ==
  [t \in Tracks |-> IF box[t][f] = None THEN box[t]
                    ELSE [box[t] EXCEPT ![f] = Drawn(box[t][f].at)]]

SetFrameStatus(rows, q) ==
  IF q.status = "empty" /\ \E t \in Tracks : rows.box[t][q.frame] # None
  THEN Refuse(rows)
  ELSE Outcome([rows EXCEPT !.status[q.frame] = q.status,
                            !.box = IF q.status = "labeled" THEN AcceptAll(rows.box, q.frame)
                                    ELSE rows.box],
               Accepted)

Handle(rows, q) ==
  CASE q.op = "createTrack" -> CreateTrack(rows, q)
    [] q.op = "setBox" -> SetBox(rows, q)
    [] q.op = "deleteBox" -> DeleteBox(rows, q)
    [] q.op = "deleteTrack" -> DeleteTrack(rows, q)
    [] q.op = "updateTrack" -> UpdateTrack(rows, q)
    [] q.op = "copyBoxes" -> CopyBoxes(rows, q)
    [] q.op = "setFrameStatus" -> SetFrameStatus(rows, q)

(***************************************************************************)
(* localBackend, where a gold check's edits go.  It knows no clips, accepts *)
(* any status without keeping it, copies nothing, and deletes a track it    *)
(* does not have.                                                           *)
(***************************************************************************)
NoRows == [track |-> Nothing, box |-> [t \in Tracks |-> NoBoxes],
           status |-> [f \in Frames |-> "unlabeled"], next |-> 1]

LocalHandle(rows, q) ==
  CASE q.op = "createTrack" ->
         IF rows.next \in Tracks THEN Make(rows, q.clip, q.type, q.frame, q.at) ELSE Refuse(rows)
    [] q.op = "setBox" ->
         IF rows.track[q.track] # None
         THEN Outcome(PutBox(rows, q.track, q.frame, q.at), Accepted) ELSE Refuse(rows)
    [] q.op = "deleteBox" ->
         IF rows.track[q.track] # None THEN TakeBox(rows, q.track, q.frame) ELSE Refuse(rows)
    [] q.op = "deleteTrack" -> Outcome(Erase(rows, q.track), Accepted)
    [] q.op = "updateTrack" -> UpdateTrack(rows, q)
    [] q.op \in {"copyBoxes", "setFrameStatus"} -> Outcome(rows, Accepted)
===============================================================================
