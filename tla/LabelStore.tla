------------------------------ MODULE LabelStore ------------------------------
(***************************************************************************)
(* The labels of the clip that is open in a labeler's browser: the store,  *)
(* its queue of edits, undo, and the clips the page keeps in its cache.    *)
(*                                                                         *)
(* An edit is a job in one queue that outlives the clip it was made on.    *)
(* Its requests go to whichever backend the store has when each is sent,   *)
(* the API's or the one in memory of a gold check.  A step of the browser  *)
(* runs to completion; an answer of the API may come at any time later,    *)
(* and meanwhile the labeler goes on editing, undoes, or opens another     *)
(* clip.                                                                   *)
(***************************************************************************)
EXTENDS Annotation, SequencesExt

CONSTANTS
  FirstRows,  \* what the database holds at the start
  GoldFrame,  \* the frame a gold check shows
  MaxEdits,   \* bound: edits, each of which can be undone
  MaxLoads,   \* bound: clips and gold checks opened
  MaxFaults,  \* bound: requests or answers lost
  Budget,     \* bound: edits, undos and faults together, fewer with more loads
  Drawable    \* the boxes and types that are tried for a new track

ASSUME FirstRowsAssumption == FirstRows \in Rows /\ InClip(FirstRows) /\ Unused(FirstRows)
ASSUME GoldFrameAssumption == GoldFrame \in Frames
ASSUME BoundsAssumption == MaxEdits \in Nat /\ MaxLoads \in Nat /\ MaxFaults \in Nat /\ Budget \in Nat
ASSUME DrawableAssumption == Drawable \subseteq Rects \X Types

VARIABLES
  api,        \* the rows of the database
  local,      \* the rows of the gold check's backend
  \* useLabelStore
  page,       \* the clip whose labels are loaded
  labels,     \* its tracks, boxes and the status of its frames
  selected,   \* the selected track
  undoStack,  \* what undo would run, latest last
  backend,    \* where a request goes that is sent now
  \* its module
  queue,      \* edits that have not ended, the first one running
  remap,      \* the id that each recreated track has now
  flight,     \* the running edit's request
  \* the page
  cache,      \* the labels of clips that are cached
  kept,       \* cached clips that stay when they are left
  asked,      \* clips whose labels the API is asked for
  reply,      \* the labels it read for them, on their way
  coming,     \* the clip being opened whose labels are not here yet
  \* what happened, for the properties
  made,       \* edits and undos so far
  undos,      \* undos among them
  served,     \* the last edit that reached the API
  opened,     \* the API's labels of the clip when it was loaded
  upset,      \* what may keep the screen from showing what is saved
  loads, faults

storeVars == <<page, labels, selected, undoStack, backend>>
queueVars == <<queue, remap, flight>>
pageVars == <<cache, kept, asked, reply, coming>>
ghostVars == <<served, opened, upset>>
counted == <<made, undos>>
vars == <<api, local, storeVars, queueVars, pageVars, counted, ghostVars, loads, faults>>

FramesOf(p) == IF p = Gold THEN {GoldFrame} ELSE {f \in Frames : ClipOf[f] = p}

(* The store's clipId.                                                      *)
IdOf(p) == IF p = Gold THEN GoldId ELSE p

View == [track : [Tracks -> TrackOrNone], box : [Tracks -> [Frames -> BoxOrNone]],
         status : [Frames -> Statuses \union {None}]]

(* What GetClip returns: the clip's tracks, their boxes, its frames' status. *)
Of(rows, c) ==
  [track |-> [t \in Tracks |-> IF rows.track[t] # None /\ rows.track[t].clip = c
                               THEN rows.track[t] ELSE None],
   box |-> [t \in Tracks |-> IF rows.track[t] # None /\ rows.track[t].clip = c
                             THEN rows.box[t] ELSE NoBoxes],
   status |-> [f \in Frames |-> IF ClipOf[f] = c THEN rows.status[f] ELSE None]]

GoldView == [track |-> Nothing, box |-> [t \in Tracks |-> NoBoxes],
             status |-> [f \in Frames |-> IF f = GoldFrame THEN "unlabeled" ELSE None]]
NoView == [GoldView EXCEPT !.status = [f \in Frames |-> None]]

(***************************************************************************)
(* An edit, or what undoes one: its kind, and what its closure holds.       *)
(***************************************************************************)
Edits == {"draw", "move", "deleteBox", "deleteTrack", "update", "copy", "mark"}
Undos == {"undraw", "putBack", "remove", "recreate", "refill", "rename", "uncopy", "unmark"}

Job == [kind : Edits \union Undos,
        n : Nat,                         \* its place among all of them
        page : Pages \union {None},      \* the page it was made on
        clip : ClipIds \union {None},    \* the clip of the track it makes
        track : Tracks \union {None},
        frame : Frames \union {None},
        from : Frames \union {None},
        at : Rects \union {None},
        type : Types \union {None},
        old : Types \union {None},       \* the track's type before
        status : Statuses,
        before : Statuses,               \* the frame's status before
        prev : BoxOrNone,                \* the box before
        boxes : [Frames -> BoxOrNone],   \* boxes to recreate
        tracks : SUBSET Tracks,          \* proposals accepted, or tracks copied
        alone : BOOLEAN]                 \* nothing was waiting when it was made

Blank(kind) ==
  [kind |-> kind, n |-> 0, page |-> None, clip |-> None, track |-> None, frame |-> None,
   from |-> None, at |-> None, type |-> None, old |-> None, status |-> "unlabeled",
   before |-> "unlabeled", prev |-> None, boxes |-> NoBoxes, tracks |-> {},
   alone |-> TRUE]

Idle == [at |-> "idle", via |-> "api", answer |-> Refusal]
Flight == [at : {"idle", "sent", "answered"}, via : {"api", "local"}, answer : Answer]

Running == queue[1]

(* Once an edit ends, the next one's request is sent before anything else    *)
(* runs, and the backend in memory answers as soon.                          *)
Turn == queue = <<>> \/ (flight.via = "api" /\ flight.at # "idle")

(* A new id stands in for a track that undo recreated, and may itself be     *)
(* stood in for.  It is never an old id, so the way ends.                    *)
Heirs(t) == {u \in Tracks : \A S \in SUBSET Tracks :
               (t \in S /\ \A v \in S : remap[v] \in S \union {None}) => u \in S}
Resolve(t) ==
  LET last == {u \in Heirs(t) : remap[u] = None}
  IN IF remap[t] = None \/ last = {} THEN t ELSE CHOOSE u \in last : TRUE

Init ==
  /\ api = FirstRows
  /\ local = NoRows
  /\ page = None
  /\ labels = NoView
  /\ selected = None
  /\ undoStack = <<>>
  /\ backend = "api"
  /\ queue = <<>>
  /\ remap = Nothing
  /\ flight = Idle
  /\ cache = [c \in Clips |-> NoView]
  /\ kept = {}
  /\ asked = {}
  /\ reply = [c \in Clips |-> NoView]
  /\ coming = None
  /\ made = 0
  /\ undos = 0
  /\ served = 0
  /\ opened = NoView
  /\ upset = {}
  /\ loads = 0
  /\ faults = 0

(***************************************************************************)
(* What the labeler does.  moveBox and setFrameStatus change the screen at  *)
(* once, the others when the answer comes.  The page of one clip stays on   *)
(* screen while the next one loads: the mouse still works there, the keys    *)
(* do not.                                                                   *)
(***************************************************************************)
Acts ==
  /\ Turn
  /\ page # None
  /\ coming # None => page \in Clips \ {coming}
Keys == coming = None
Within(n) == (made + faults + n) * loads <= Budget
MayLoad == loads < MaxLoads /\ 2 * (made + faults) <= Budget
MayEdit == Acts /\ Within(1) /\ made - undos < MaxEdits /\ UNCHANGED undos

(* An undo overlaps the edits before or after it.                            *)
Hurried(job) == queue # <<>> /\ ({job.kind} \union {queue[i].kind : i \in DOMAIN queue}) \cap Undos # {}
Hurry(job) == upset' = IF Hurried(job) THEN upset \union {"hurried"} ELSE upset

Placed(job) == [job EXCEPT !.n = made + 1, !.page = page, !.alone = queue = <<>>]

(* Mutant of Enqueue: a later edit overtakes those that wait. *)
EnqueueFirst(job) ==
  /\ queue' = IF queue = <<>> THEN <<Placed(job)>>
               ELSE <<queue[1], Placed(job)>> \o Tail(queue)
  /\ made' = made + 1
  /\ Hurry(job)

Enqueue(job) ==
  /\ queue' = Append(queue, Placed(job))
  /\ made' = made + 1
  /\ Hurry(job)

Shown(t, f) == labels.box[t][f] # None

\* A box that is moved is no longer the one that was accepted.
Move(t, f, at) ==
  LET prev == labels.box[t][f]
      now == IF prev = None THEN Drawn(at)
             ELSE [at |-> at, is |-> IF prev.is = "accepted" THEN "verified" ELSE prev.is]
  IN /\ labels' = [labels EXCEPT !.box[t][f] = now]
     /\ Enqueue([Blank("move") EXCEPT !.track = t, !.frame = f, !.at = at, !.prev = prev])

MoveBox(t, f, at) ==
  /\ MayEdit
  /\ f \in FramesOf(page)
  /\ Shown(t, f)
  /\ labels.box[t][f].at # at
  /\ Move(Resolve(t), f, at)
  /\ UNCHANGED <<api, local, page, selected, undoStack, backend, remap, flight, pageVars,
                 served, opened, loads, faults>>

(* A box drawn while a track is selected that has none here continues it.    *)
DrawBox(f, at, type) ==
  /\ MayEdit
  /\ f \in FramesOf(page)
  /\ IF selected # None /\ ~Shown(selected, f)
     THEN Move(Resolve(selected), f, at)
     ELSE /\ Enqueue([Blank("draw") EXCEPT !.clip = IdOf(page), !.frame = f, !.at = at, !.type = type])
          /\ UNCHANGED labels
  /\ UNCHANGED <<api, local, page, selected, undoStack, backend, remap, flight, pageVars,
                 served, opened, loads, faults>>

DeleteSelected(f) ==
  /\ MayEdit /\ Keys
  /\ f \in FramesOf(page)
  /\ selected # None
  /\ LET t == Resolve(selected)
     IN /\ Shown(t, f)
        /\ labels.track[t] # None
        /\ Enqueue([Blank("deleteBox") EXCEPT !.track = t, !.frame = f,
                      !.prev = labels.box[t][f], !.clip = labels.track[t].clip,
                      !.type = labels.track[t].type])
  /\ UNCHANGED <<api, local, storeVars, remap, flight, pageVars, served, opened, loads, faults>>

DeleteWhole(t) ==
  /\ MayEdit
  /\ labels.track[Resolve(t)] # None
  /\ LET u == Resolve(t)
     IN Enqueue([Blank("deleteTrack") EXCEPT !.track = u, !.boxes = labels.box[u],
                   !.clip = labels.track[u].clip, !.type = labels.track[u].type])
  /\ UNCHANGED <<api, local, storeVars, remap, flight, pageVars, served, opened, loads, faults>>

Retype(t, type) ==
  /\ MayEdit
  /\ labels.track[Resolve(t)] # None
  /\ labels.track[Resolve(t)].type # type
  /\ Enqueue([Blank("update") EXCEPT !.track = Resolve(t), !.type = type,
                !.old = labels.track[Resolve(t)].type])
  /\ UNCHANGED <<api, local, storeVars, remap, flight, pageVars, served, opened, loads, faults>>

\* Boxes are copied to the frame on screen from the one before.
CopyForward(f, g) ==
  /\ MayEdit /\ Keys
  /\ page \in Clips
  /\ {f, g} \subseteq FramesOf(page)
  /\ f < g
  /\ ~\E h \in FramesOf(page) : f < h /\ h < g
  /\ Enqueue([Blank("copy") EXCEPT !.from = f, !.frame = g])
  /\ UNCHANGED <<api, local, storeVars, remap, flight, pageVars, served, opened, loads, faults>>

Proposed(f) == {t \in Tracks : Shown(t, f) /\ labels.box[t][f].is = "proposed"}

(* acceptProposals, and what a failed save does with them *)
Say(box, who, f, is) ==
  [t \in Tracks |-> IF t \in who THEN [box[t] EXCEPT ![f].is = is] ELSE box[t]]

Mark(f, status) ==
  LET before == labels.status[f]
      accepted == IF status = "labeled" THEN Proposed(f) ELSE {}
  IN /\ MayEdit /\ Keys
     /\ page \in Clips
     /\ f \in FramesOf(page)
     /\ status = "empty" => \A t \in Tracks : ~Shown(t, f)
     /\ labels' = [labels EXCEPT !.status[f] = status,
                                 !.box = Say(labels.box, accepted, f, "accepted")]
     /\ undoStack' = IF before = status THEN undoStack
                     ELSE Append(undoStack, [Blank("unmark") EXCEPT !.frame = f,
                                               !.status = before, !.n = made + 1])
     /\ Enqueue([Blank("mark") EXCEPT !.frame = f, !.status = status, !.before = before,
                   !.tracks = accepted])
     /\ UNCHANGED <<api, local, page, selected, backend, remap, flight, pageVars, served, opened,
                    loads, faults>>

Undo ==
  /\ Acts /\ Keys /\ Within(1)
  /\ undoStack # <<>>
  /\ undos' = undos + 1
  /\ undoStack' = SubSeq(undoStack, 1, Len(undoStack) - 1)
  /\ Enqueue(undoStack[Len(undoStack)])
  /\ UNCHANGED <<api, local, page, labels, selected, backend, remap, flight, pageVars, served,
                 opened, loads, faults>>

\* A track in the list, or one with a box on screen.
Select(t) ==
  /\ Turn
  /\ page # None
  /\ t # None => labels.track[t] # None \/ labels.box[t] # NoBoxes
  /\ t # selected
  /\ selected' = t
  /\ UNCHANGED <<api, local, page, labels, undoStack, backend, queueVars, pageVars, counted,
                 ghostVars, loads, faults>>

(***************************************************************************)
(* The queue: the first edit's request is sent, to the backend the store    *)
(* has by then.  What undoes an edit looks up the track's id only now.      *)
(***************************************************************************)
Least(S) == CHOOSE n \in S : \A m \in S : n <= m
Filled(boxes) == {f \in Frames : boxes[f] # None}

Started(j) ==
  CASE j.kind \in {"undraw", "putBack", "remove", "rename"} -> [j EXCEPT !.track = Resolve(j.track)]
    [] j.kind = "uncopy" -> [j EXCEPT !.track = Resolve(Least(j.tracks))]
    [] j.kind \in {"recreate", "refill"} ->
         IF Filled(j.boxes) = {} THEN j
         ELSE [j EXCEPT !.frame = Least(Filled(j.boxes)), !.at = j.boxes[Least(Filled(j.boxes))].at]
    [] OTHER -> j

Ask(op, j) == [op |-> op, track |-> j.track, frame |-> j.frame, to |-> None, clip |-> None,
               type |-> None, at |-> None, status |-> j.status]

RequestOf(j) ==
  CASE j.kind \in {"draw", "recreate"} ->
         [Ask("createTrack", j) EXCEPT !.clip = j.clip, !.type = j.type, !.at = j.at]
    [] j.kind \in {"move", "putBack", "refill"} -> [Ask("setBox", j) EXCEPT !.at = j.at]
    [] j.kind \in {"deleteBox", "remove", "uncopy"} -> Ask("deleteBox", j)
    [] j.kind \in {"deleteTrack", "undraw"} -> Ask("deleteTrack", j)
    [] j.kind \in {"update", "rename"} -> [Ask("updateTrack", j) EXCEPT !.type = j.type]
    [] j.kind = "copy" -> [Ask("copyBoxes", j) EXCEPT !.frame = j.from, !.to = j.frame]
    [] j.kind \in {"mark", "unmark"} -> Ask("setFrameStatus", j)

Send ==
  /\ queue # <<>>
  /\ flight.at = "idle"
  /\ LET j == Started(Running)
         done == LocalHandle(local, RequestOf(j))
     IN IF j.kind = "recreate" /\ j.boxes = NoBoxes
        THEN queue' = Tail(queue) /\ UNCHANGED <<local, flight>>
        ELSE /\ queue' = <<j>> \o Tail(queue)
             /\ IF backend = "api"
                THEN flight' = [Idle EXCEPT !.at = "sent"] /\ UNCHANGED local
                ELSE /\ flight' = [at |-> "answered", via |-> "local", answer |-> done.answer]
                     /\ local' = done.rows
  /\ UNCHANGED <<api, storeVars, remap, pageVars, counted, ghostVars, loads, faults>>

(* The API handles the request and answers. *)
Serve ==
  /\ flight.at = "sent"
  /\ LET done == Handle(api, RequestOf(Running))
     IN /\ api' = done.rows
        /\ flight' = [flight EXCEPT !.at = "answered", !.answer = done.answer]
  /\ served' = Running.n
  /\ UNCHANGED <<local, storeVars, queue, remap, pageVars, counted, opened, upset, loads, faults>>

(* The request does not reach the API, or fails there.                       *)
LoseRequest ==
  /\ flight.at = "sent"
  /\ faults < MaxFaults /\ Within(1)
  /\ flight' = [flight EXCEPT !.at = "answered"]
  /\ faults' = faults + 1
  /\ UNCHANGED <<api, local, storeVars, queue, remap, pageVars, counted, ghostVars, loads>>

(* The API handled it, and its answer does not arrive.                       *)
LoseAnswer ==
  /\ flight.at = "answered"
  /\ flight.via = "api"
  /\ flight.answer.ok
  /\ faults < MaxFaults /\ Within(1)
  /\ flight' = [flight EXCEPT !.answer = Refusal]
  /\ faults' = faults + 1
  /\ upset' = upset \union {"lost"}
  /\ UNCHANGED <<api, local, storeVars, queue, remap, pageVars, counted, served, opened, loads>>

(***************************************************************************)
(* What the store does with an answer.                                      *)
(***************************************************************************)
Put(v, t, f, box) == [v EXCEPT !.box[t][f] = box]
(* Mutant of Cleared: the frame stays empty. *)
NotCleared(v, f) == v

Cleared(v, f) == [v EXCEPT !.status = ClearEmpty(v.status, f)]
RemoveTrack(v, t) == [v EXCEPT !.track[t] = None, !.box[t] = NoBoxes]
Reply == flight.answer

(* removeTrack also drops the selection. *)
Removes(t) == labels' = RemoveTrack(labels, t) /\ selected' = (IF selected = t THEN None ELSE selected)
TakesAway(t, f) ==
  IF Reply.gone THEN Removes(t) ELSE labels' = Put(labels, t, f, None) /\ UNCHANGED selected
Pushes(entry) == undoStack' = Append(undoStack, entry)

(* The running edit's request was answered: accepted, or an error. *)
Answered(kinds, ok) ==
  /\ queue # <<>>
  /\ flight.at = "answered"
  /\ Running.kind \in kinds
  /\ Reply.ok = ok
  /\ flight' = Idle
  /\ UNCHANGED <<api, local, page, backend, pageVars, counted, served, opened, loads, faults>>
Ends == queue' = Tail(queue) /\ UNCHANGED remap
Saved(kind) == Answered({kind}, TRUE) /\ Ends /\ UNCHANGED upset

SavedDraw ==
  LET t == Reply.track
      f == Running.frame
  IN /\ Saved("draw")
     /\ labels' = Cleared(Put([labels EXCEPT !.track[t] = Reply.was], t, f, Drawn(Running.at)), f)
     /\ selected' = t
     /\ Pushes([Blank("undraw") EXCEPT !.track = t])

SavedMove ==
  LET j == Running
  IN /\ Saved("move")
     /\ labels' = Cleared(Put(labels, j.track, j.frame, Drawn(j.at)), j.frame)
     /\ Pushes(IF j.prev = None THEN [Blank("remove") EXCEPT !.track = j.track, !.frame = j.frame]
               ELSE [Blank("putBack") EXCEPT !.track = j.track, !.frame = j.frame, !.at = j.prev.at])
     /\ UNCHANGED selected

SavedDeleteBox ==
  LET j == Running
  IN /\ Saved("deleteBox")
     /\ TakesAway(j.track, j.frame)
     /\ Pushes(IF Reply.gone
               THEN [Blank("recreate") EXCEPT !.track = j.track, !.clip = j.clip, !.type = j.type,
                                              !.boxes = [NoBoxes EXCEPT ![j.frame] = j.prev]]
               ELSE [Blank("putBack") EXCEPT !.track = j.track, !.frame = j.frame, !.at = j.prev.at])

SavedDeleteTrack ==
  LET j == Running
  IN /\ Saved("deleteTrack")
     /\ Removes(j.track)
     /\ Pushes([Blank("recreate") EXCEPT !.track = j.track, !.clip = j.clip, !.type = j.type,
                                         !.boxes = j.boxes])

SavedUpdate ==
  LET j == Running
  IN /\ Saved("update")
     /\ labels' = [labels EXCEPT !.track[j.track] = Reply.was]
     /\ Pushes([Blank("rename") EXCEPT !.track = j.track, !.type = j.old])
     /\ UNCHANGED selected

SavedCopy ==
  LET g == Running.frame
      new == {t \in Tracks : Reply.made[t] # None}
      put == [labels EXCEPT !.box = [t \in Tracks |-> IF t \in new
                                                      THEN [labels.box[t] EXCEPT ![g] = Reply.made[t]]
                                                      ELSE labels.box[t]]]
  IN /\ Saved("copy")
     /\ IF new = {} THEN UNCHANGED <<labels, undoStack>>
        ELSE /\ labels' = Cleared(put, g)
             /\ Pushes([Blank("uncopy") EXCEPT !.frame = g, !.tracks = new])
     /\ UNCHANGED selected

SavedMark == Saved("mark") /\ UNCHANGED <<labels, selected, undoStack>>

(* Mutant of FailedMove: the screen keeps what was not saved. *)
FailedMoveStays ==
  /\ Answered({"move"}, FALSE) /\ Ends
  /\ upset' = upset \union {IF Running.alone THEN "refused" ELSE "guessed"}
  /\ UNCHANGED <<labels, selected, undoStack>>

(* Edits that had changed the screen put back what was there before; a mark  *)
(* gives up its undo entry too.                                              *)
FailedMove ==
  LET j == Running
  IN /\ Answered({"move"}, FALSE) /\ Ends
     /\ labels' = Put(labels, j.track, j.frame, j.prev)
     /\ upset' = upset \union {IF j.alone THEN "refused" ELSE "guessed"}
     /\ UNCHANGED <<selected, undoStack>>

FailedMark ==
  LET j == Running
      still == {t \in j.tracks : Shown(t, j.frame) /\ labels.box[t][j.frame].is = "accepted"}
      mine == {i \in DOMAIN undoStack : undoStack[i].kind = "unmark" /\ undoStack[i].n = j.n}
      again == \E i \in DOMAIN queue \ {1} : queue[i].kind = "mark" /\ queue[i].frame = j.frame
  IN /\ Answered({"mark"}, FALSE) /\ Ends
     /\ labels' = [labels EXCEPT
          !.status[j.frame] = IF @ = j.status THEN j.before ELSE @,
          !.box = Say(labels.box, still, j.frame, "proposed")]
     /\ undoStack' = IF mine = {} THEN undoStack
                     ELSE RemoveAt(undoStack, CHOOSE i \in mine : TRUE)
     /\ upset' = upset \union {IF j.alone THEN "refused" ELSE "guessed"}
                       \union (IF again THEN {"remarked"} ELSE {})
     /\ UNCHANGED selected

FailedOther ==
  /\ Answered((Edits \ {"move", "mark"}) \union Undos, FALSE) /\ Ends
  /\ upset' = upset \union {IF Running.kind \in Undos THEN "undoRefused" ELSE "refused"}
  /\ UNCHANGED <<labels, selected, undoStack>>

(* Undo.  An undo that fails is not tried again.                             *)
Undone(kind) == Saved(kind) /\ UNCHANGED undoStack

Undraw == Undone("undraw") /\ Removes(Running.track)

PutBack ==
  /\ Undone("putBack")
  /\ labels' = Put(labels, Running.track, Running.frame, Drawn(Running.at))
  /\ UNCHANGED selected

RemoveBox == Undone("remove") /\ TakesAway(Running.track, Running.frame)

Rename ==
  /\ Undone("rename")
  /\ labels' = [labels EXCEPT !.track[Running.track] = Reply.was]
  /\ UNCHANGED selected

Unmark ==
  /\ Undone("unmark")
  /\ labels' = [labels EXCEPT !.status[Running.frame] = Running.status]
  /\ UNCHANGED selected

(* An undo of several requests goes on with the next one.                    *)
GoesOn(j, more) ==
  /\ queue' = IF more THEN <<j>> \o Tail(queue) ELSE Tail(queue)
  /\ UNCHANGED <<undoStack, upset>>

(* Mutant of Recreate: older entries do not learn the new id. *)
RecreateForgotten ==
  LET j == Running
      t == Reply.track
      rest == [j.boxes EXCEPT ![j.frame] = None]
  IN /\ Answered({"recreate"}, TRUE)
     /\ labels' = Cleared(Put([labels EXCEPT !.track[t] = Reply.was], t, j.frame, Drawn(j.at)),
                          j.frame)
     /\ GoesOn([Blank("refill") EXCEPT !.n = j.n, !.page = j.page, !.track = t, !.boxes = rest],
               rest # NoBoxes)
     /\ UNCHANGED <<remap, selected>>

(* recreateTrack makes a new track with the first box, then puts the others. *)
Recreate ==
  LET j == Running
      t == Reply.track
      rest == [j.boxes EXCEPT ![j.frame] = None]
  IN /\ Answered({"recreate"}, TRUE)
     /\ remap' = [remap EXCEPT ![j.track] = t]
     /\ labels' = Cleared(Put([labels EXCEPT !.track[t] = Reply.was], t, j.frame, Drawn(j.at)),
                          j.frame)
     /\ GoesOn([Blank("refill") EXCEPT !.n = j.n, !.page = j.page, !.track = t, !.boxes = rest],
               rest # NoBoxes)
     /\ UNCHANGED selected

Refill ==
  LET j == Running
      rest == [j.boxes EXCEPT ![j.frame] = None]
  IN /\ Answered({"refill"}, TRUE)
     /\ labels' = Cleared(Put(labels, j.track, j.frame, Drawn(j.at)), j.frame)
     /\ GoesOn([j EXCEPT !.boxes = rest], rest # NoBoxes)
     /\ UNCHANGED <<remap, selected>>

Uncopy ==
  LET j == Running
      rest == j.tracks \ {Least(j.tracks)}
  IN /\ Answered({"uncopy"}, TRUE)
     /\ TakesAway(j.track, j.frame)
     /\ GoesOn([j EXCEPT !.tracks = rest], rest # {})
     /\ UNCHANGED remap

(***************************************************************************)
(* The page.  What is loaded replaces the store's labels, but not the queue. *)
(* A clip's query drops its labels as soon as no page watches it, unless    *)
(* they were fetched ahead; its request is cancelled then.                   *)
(***************************************************************************)
Watched == IF coming # None THEN coming ELSE page
Leave(labelsOf) ==
  [c \in Clips |-> IF c = Watched /\ c \notin kept THEN NoView ELSE labelsOf[c]]
Unanswered == asked \ {Watched}
(* Mutant of Unread: the answer to a request that was cancelled is kept. *)
StillRead == reply

Unread == [c \in Clips |-> IF c = Watched THEN NoView ELSE reply[c]]

(* Mutant of BackendFor: every page saves to the API. *)
ApiForAll(p) == "api"

BackendFor(p) == IF p = Gold THEN "local" ELSE "api"

Load(p, view) ==
  /\ page' = p
  /\ backend' = BackendFor(p)
  /\ labels' = view
  /\ selected' = None
  /\ undoStack' = <<>>
  /\ remap' = Nothing
  /\ coming' = None
  /\ opened' = view
  /\ upset' = IF queue = <<>> /\ (p \in Clips => view = Of(api, p)) THEN {} ELSE {"stale"}

(* Then the other clips are fetched ahead, but one that is cached and was     *)
(* fetched in the last 30 seconds is not fetched again.                      *)
Prefetch(c, fresh, waiting) ==
  LET due == Clips \ ({c} \union fresh \union waiting)
  IN asked' = waiting \union due /\ kept' = kept \union due

LoadClip(c, view, cached, waiting) ==
  /\ Load(c, view)
  /\ cache' = cached
  /\ \E fresh \in SUBSET {d \in Clips : cached[d] # NoView} : Prefetch(c, fresh, waiting)

(* Also leaving the page of a clip and coming back to it.                    *)
Open(c) ==
  /\ Turn
  /\ MayLoad
  /\ loads' = loads + 1
  /\ c # coming
  /\ reply' = Unread
  /\ LET left == Leave(cache)
     IN IF left[c] # NoView
        THEN LoadClip(c, left[c], left, Unanswered)
        ELSE /\ coming' = c
             /\ cache' = left
             /\ asked' = Unanswered \union {c}
             /\ UNCHANGED <<storeVars, remap, kept, opened, upset>>
  /\ UNCHANGED <<api, local, queue, flight, counted, served, faults>>

Read(c) ==
  /\ c \in asked
  /\ reply[c] = NoView
  /\ reply' = [reply EXCEPT ![c] = Of(api, c)]
  /\ UNCHANGED <<api, local, storeVars, queueVars, cache, kept, asked, coming, counted, ghostVars,
                 loads, faults>>

(* The labels arrive; they are loaded if the clip is on screen by now.       *)
Arrive(c) ==
  /\ Turn
  /\ c \in asked
  /\ reply[c] # NoView
  /\ reply' = [reply EXCEPT ![c] = NoView]
  /\ LET cached == [cache EXCEPT ![c] = reply[c]]
     IN IF c = Watched
        THEN LoadClip(c, reply[c], cached, asked \ {c})
        ELSE /\ cache' = cached
             /\ asked' = asked \ {c}
             /\ UNCHANGED <<storeVars, remap, kept, coming, opened, upset>>
  /\ UNCHANGED <<api, local, queue, flight, counted, served, loads, faults>>

(* A gold check shows its frame without boxes, over a backend of its own,    *)
(* as a clip with the frame's id; its tracks are counted from 1, like the    *)
(* database's.                                                               *)
OpenGold ==
  /\ Turn
  /\ MayLoad
  /\ loads' = loads + 1
  /\ Load(Gold, GoldView)
  /\ local' = NoRows
  /\ cache' = Leave(cache)
  /\ asked' = Unanswered
  /\ reply' = Unread
  /\ UNCHANGED <<api, queue, flight, kept, counted, served, faults>>

\* Five minutes after nobody watches it, a clip fetched ahead is dropped.
Evict(c) ==
  /\ c \in kept
  /\ c # Watched
  /\ c \notin asked
  /\ cache' = [cache EXCEPT ![c] = NoView]
  /\ kept' = kept \ {c}
  /\ UNCHANGED <<api, local, storeVars, queueVars, asked, reply, coming, counted, ghostVars,
                 loads, faults>>

Edit ==
  \/ \E t \in Tracks, f \in Frames, at \in Rects : MoveBox(t, f, at)
  \/ \E f \in Frames, new \in Drawable : DrawBox(f, new[1], new[2])
  \/ \E f \in Frames : DeleteSelected(f)
  \/ \E t \in Tracks : DeleteWhole(t)
  \/ \E t \in Tracks, type \in Types : Retype(t, type)
  \/ \E f, g \in Frames : CopyForward(f, g)
  \/ \E f \in Frames, status \in Statuses : Mark(f, status)
  \/ Undo

Answers ==
  \/ SavedDraw \/ SavedMove \/ SavedDeleteBox \/ SavedDeleteTrack
  \/ SavedUpdate \/ SavedCopy \/ SavedMark
  \/ FailedMove \/ FailedMark \/ FailedOther
  \/ Undraw \/ PutBack \/ RemoveBox \/ Rename \/ Unmark
  \/ Recreate \/ Refill \/ Uncopy

Next ==
  \/ Edit
  \/ \E t \in Tracks \union {None} : Select(t)
  \/ Send \/ Serve \/ LoseRequest \/ LoseAnswer
  \/ Answers
  \/ \E c \in Clips : Open(c) \/ Read(c) \/ Arrive(c) \/ Evict(c)
  \/ OpenGold

Spec == Init /\ [][Next]_vars

(***************************************************************************)
(* Properties.                                                              *)
(***************************************************************************)
(* The store's state keeps its type. *)
TypeOK ==
  /\ api \in Rows
  /\ local \in Rows
  /\ page \in Pages \union {None}
  /\ labels \in View
  /\ selected \in Tracks \union {None}
  /\ undoStack \in Seq(Job)
  /\ backend \in {"api", "local"}
  /\ queue \in Seq(Job)
  /\ remap \in [Tracks -> Tracks \union {None}]
  /\ flight \in Flight
  /\ cache \in [Clips -> View]
  /\ kept \subseteq Clips
  /\ asked \subseteq Clips
  /\ reply \in [Clips -> View]
  /\ \A c \in Clips \ asked : reply[c] = NoView
  /\ queue = <<>> => flight = Idle
  /\ coming \in Clips \union {None}
  /\ made \in Nat
  /\ undos \in 0..made
  /\ served \in 0..made
  /\ opened \in View
  /\ upset \subseteq {"stale", "refused", "undoRefused", "hurried", "guessed", "remarked", "lost"}
  /\ loads \in 0..MaxLoads
  /\ faults \in 0..MaxFaults

(* "Edits run one at a time so a quick drag followed by a delete can never   *)
(* reach the server out of order", across undos, clips and failures.         *)
InOrder == [][served' # served => served' > served]_served

(* A screen's boxes are where the API has them.                              *)
Rect(box) == IF box = None THEN None ELSE box.at
SameBoxes(v, w) ==
  \A t \in Tracks : /\ v.track[t] = w.track[t]
                    /\ \A f \in Frames : Rect(v.box[t][f]) = Rect(w.box[t][f])

(* Once the queue is empty ("Saved"), the screen shows what is saved, also   *)
(* after a save was rolled back.                                             *)
ShownIsSaved ==
  (page \in Clips /\ queue = <<>>
     /\ upset \subseteq {"hurried", "refused", "undoRefused", "remarked"})
    => SameBoxes(labels, Of(api, page))

DoneIsSaved == \A f \in FramesOf(page) :
  labels.status[f] # "unlabeled" => labels.status[f] = api.status[f]

(* A frame shown as done is done, whatever edits were refused.  It need not   *)
(* be after an undo was refused: undoing the delete before it puts a box on   *)
(* a frame still shown as empty, which moveBox and deleteBox do not clear on  *)
(* an undo.  Nor after an undo that overlapped other edits, whose answer      *)
(* changes the screen again after a later mark did, nor after a mark failed   *)
(* that was made again meanwhile.                                            *)
NoFalseDone ==
  (page \in Clips /\ queue = <<>> /\ upset \subseteq {"refused"}) => DoneIsSaved

(* "Rolls back a failed save without undoing edits made while it was in     *)
(* flight": a frame that was marked again meanwhile is not shown done when   *)
(* it is not.                                                                *)
RollbackKeepsLater ==
  (page \in Clips /\ queue = <<>> /\ upset \subseteq {"refused", "remarked"}) => DoneIsSaved

(* Undoing everything brings back the tracks the clip had when it was        *)
(* loaded, some under a new id, and no others.                               *)
UndoRestores ==
  (page \in Clips /\ queue = <<>> /\ undoStack = <<>> /\ upset = {})
    => LET now == Of(api, page)
           had == {t \in Tracks : opened.track[t] # None}
       IN /\ {t \in Tracks : now.track[t] # None} = {Resolve(t) : t \in had}
          /\ \A t \in had : /\ now.track[Resolve(t)] = opened.track[t]
                            /\ \A f \in Frames : Rect(now.box[Resolve(t)][f])
                                                   = Rect(opened.box[t][f])

(* "Gold checks swap in a local one so nothing reaches the clip": of what is  *)
(* done in a gold check, a step that changes the API's rows can only serve a  *)
(* box drawn on its frame, and only if the frame's id, which the store takes  *)
(* for the clip's, is that of the frame's own clip.                          *)
OnlyDrawsEscape ==
  [][api' # api /\ Running.page = Gold => Running.kind = "draw" /\ GoldId = ClipOf[GoldFrame]]_api

(* Every box of the database is on a frame of its track's clip, although an  *)
(* answer can put a track of the clip before on the screen of the next one.  *)
BoxesInClip == InClip(api)

(* "gcTime 0 drops a clip once it is left, so coming back always loads fresh *)
(* labels": a clip opened with everything saved is not shown from a cache    *)
(* that is older than what is saved.                                         *)
LoadsFresh ==
  [][\A c \in Clips :
       (loads' > loads /\ coming' = None /\ page' = c /\ queue = <<>>)
         => labels' = Of(api, c)]_vars
===============================================================================
