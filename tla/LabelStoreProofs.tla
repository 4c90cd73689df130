--------------------------- MODULE LabelStoreProofs ---------------------------
(* Theorems about LabelStore, for any clips, frames, tracks and bounds. *)
EXTENDS LabelStore, AnnotationProofs, SequenceTheorems, WellFoundedInduction

(* What an edit of each kind, or what undoes it, holds. *)
JobOK(j) ==
  /\ j.kind \in {"draw", "deleteBox", "deleteTrack", "recreate"} => j.clip \in ClipIds
  /\ j.kind \in {"draw", "deleteBox", "deleteTrack", "recreate", "update", "rename"}
       => j.type \in Types
  /\ j.kind \in {"draw", "move", "putBack"} => j.at \in Rects
  /\ j.kind \in {"draw", "move", "deleteBox", "copy", "mark", "unmark"} => j.frame \in Frames
  /\ j.kind \in {"move", "putBack", "remove", "deleteBox", "update", "rename"}
       => j.track \in Tracks
  /\ j.kind = "copy" => j.from \in Frames
  /\ j.kind = "update" => j.old \in Types
  /\ j.kind = "deleteBox" => j.prev \in Box
  /\ j.kind = "refill" => j.boxes # NoBoxes
  /\ j.kind = "uncopy" => j.tracks # {}
Good == {j \in Job : JobOK(j)}

(* The labels on the screen of a clip know the status of its frames. *)
Fits(p, v) ==
  /\ v \in View
  /\ \A f \in Frames : p \in Clips /\ ClipOf[f] = p => v.status[f] \in Statuses

Pending == queue \in Seq(Good) /\ undoStack \in Seq(Good)

(* A request that was sent says where the box of a recreated track goes. *)
InFlight ==
  /\ flight.at = "idle" => flight = Idle
  /\ flight.at # "idle" /\ Running.kind \in {"recreate", "refill"}
       => Running.at \in Rects /\ Running.frame \in Frames

(* Edits wait in the order they were made, and none is older than the last   *)
(* one the API served.                                                       *)
Numbered ==
  /\ \A i \in DOMAIN queue : served <= queue[i].n /\ queue[i].n <= made
  /\ \A i, k \in DOMAIN queue : i < k => queue[i].n < queue[k].n

(* Every screenful of labels is of the clip it is kept for. *)
PerClip(views) ==
  /\ views \in [Clips -> View]
  /\ \A c \in Clips : views[c] # NoView => Fits(c, views[c])
Screens == Fits(page, labels) /\ PerClip(cache) /\ PerClip(reply)

IInv == TypeOK /\ Pending /\ InFlight /\ Numbered /\ Screens /\ Sound(api)

(***************************************************************************)
(* The helpers.                                                             *)
(***************************************************************************)
LEMMA LeastIn ==
  ASSUME NEW S, S \subseteq Nat, S # {}
  PROVE  Least(S) \in S
<1> DEFINE R == OpToRel(<, Nat)
<1>1. IsWellFoundedOn(R, Nat)
  BY NatLessThanWellFounded, Zenon
<1>2. \A n, m \in Nat : <<m, n>> \in R <=> m < n
  BY DEF OpToRel
<1> HIDE DEF R
<1>3. PICK n \in S : \A m \in S : ~(<<m, n>> \in R)
  BY <1>1, WFMin
<1>4. ASSUME NEW m \in S PROVE n <= m
  <2>1. n \in Nat /\ m \in Nat
    OBVIOUS
  <2>2. ~(m < n)
    BY <1>2, <1>3, <2>1
  <2>3. QED BY <2>1, <2>2
<1>5. QED BY <1>4 DEF Least

LEMMA ResolveType ==
  ASSUME NEW t
  PROVE  Resolve(t) \in Tracks \union {t}
<1>1. Heirs(t) \subseteq Tracks
  BY DEF Heirs
<1>2. QED BY <1>1 DEF Resolve

LEMMA ViewShape ==
  ASSUME NEW v \in View
  PROVE  /\ v.track \in [Tracks -> TrackOrNone]
         /\ v.box \in [Tracks -> [Frames -> BoxOrNone]]
         /\ v.status \in [Frames -> Statuses \union {None}]
BY DEF View

(* Changing a box, a track, all boxes or a status of the labels on a screen. *)
LEMMA PutFits ==
  ASSUME NEW p, NEW v, Fits(p, v), NEW t, NEW f, NEW box \in BoxOrNone
  PROVE  Fits(p, Put(v, t, f, box))
<1> DEFINE now == [v.box EXCEPT ![t][f] = box]
<1>1. now \in [Tracks -> [Frames -> BoxOrNone]]
  BY ViewShape DEF Fits
<1>2. Put(v, t, f, box) = [v EXCEPT !.box = now]
  BY DEF Put
<1> HIDE DEF now
<1>3. QED BY <1>1, <1>2, ViewShape DEF Fits, View

LEMMA TrackFits ==
  ASSUME NEW p, NEW v, Fits(p, v), NEW t, NEW track \in TrackOrNone
  PROVE  Fits(p, [v EXCEPT !.track[t] = track])
<1> DEFINE now == [v.track EXCEPT ![t] = track]
<1>1. now \in [Tracks -> TrackOrNone]
  BY ViewShape DEF Fits
<1>2. [v EXCEPT !.track[t] = track] = [v EXCEPT !.track = now]
  BY DEF Fits, View
<1> HIDE DEF now
<1>3. QED BY <1>1, <1>2, ViewShape DEF Fits, View

LEMMA RemoveFits ==
  ASSUME NEW p, NEW v, Fits(p, v), NEW t
  PROVE  Fits(p, RemoveTrack(v, t))
<1> DEFINE track == [v.track EXCEPT ![t] = None]
           box == [v.box EXCEPT ![t] = NoBoxes]
<1>1. track \in [Tracks -> TrackOrNone] /\ box \in [Tracks -> [Frames -> BoxOrNone]]
  BY ViewShape, Bits DEF Fits
<1>2. RemoveTrack(v, t) = [v EXCEPT !.track = track, !.box = box]
  BY DEF RemoveTrack, Fits, View
<1> HIDE DEF track, box
<1>3. QED BY <1>1, <1>2, ViewShape DEF Fits, View

LEMMA BoxesFit ==
  ASSUME NEW p, NEW v, Fits(p, v), NEW box \in [Tracks -> [Frames -> BoxOrNone]]
  PROVE  Fits(p, [v EXCEPT !.box = box])
BY ViewShape DEF Fits, View

LEMMA StatusFits ==
  ASSUME NEW p, NEW v, Fits(p, v), NEW f, NEW status \in Statuses
  PROVE  Fits(p, [v EXCEPT !.status[f] = status])
<1> DEFINE now == [v.status EXCEPT ![f] = status]
<1>1. /\ now \in [Frames -> Statuses \union {None}]
      /\ \A g \in Frames : now[g] = IF g = f THEN status ELSE v.status[g]
  BY ViewShape DEF Fits
<1>2. [v EXCEPT !.status[f] = status] = [v EXCEPT !.status = now]
  BY DEF Fits, View
<1> HIDE DEF now
<1>3. QED BY <1>1, <1>2, ViewShape DEF Fits, View

LEMMA ClearedFits ==
  ASSUME NEW p, NEW v, Fits(p, v), NEW f
  PROVE  Fits(p, Cleared(v, f))
<1>1. CASE v.status[f] = "empty"
  <2>1. Cleared(v, f) = [v EXCEPT !.status[f] = "unlabeled"]
    BY <1>1 DEF Cleared, ClearEmpty, Fits, View
  <2>2. "unlabeled" \in Statuses
    BY DEF Statuses
  <2>3. Fits(p, [v EXCEPT !.status[f] = "unlabeled"])
    BY <2>2, StatusFits
  <2>4. QED BY <2>1, <2>3
<1>2. CASE v.status[f] # "empty"
  <2>1. Cleared(v, f) = [v EXCEPT !.status = v.status]
    BY <1>2 DEF Cleared, ClearEmpty
  <2>2. QED BY <2>1, ViewShape DEF Fits, View
<1>3. QED BY <1>1, <1>2

LEMMA SayType ==
  ASSUME NEW box \in [Tracks -> [Frames -> BoxOrNone]], NEW f \in Frames,
         NEW is \in {"proposed", "verified", "accepted"},
         NEW who, \A t \in who : box[t][f] # None
  PROVE  Say(box, who, f, is) \in [Tracks -> [Frames -> BoxOrNone]]
<1>1. ASSUME NEW t \in Tracks, t \in who
      PROVE  [box[t] EXCEPT ![f].is = is] \in [Frames -> BoxOrNone]
  <2> DEFINE b == [box[t][f] EXCEPT !.is = is]
  <2>1. box[t] \in [Frames -> BoxOrNone] /\ box[t][f] \in Box
    BY <1>1 DEF BoxOrNone
  <2>2. b \in Box
    BY <2>1 DEF Box
  <2>3. [box[t] EXCEPT ![f].is = is] = [box[t] EXCEPT ![f] = b]
    BY <2>1
  <2> HIDE DEF b
  <2>4. QED BY <2>1, <2>2, <2>3 DEF BoxOrNone
<1>2. QED BY <1>1 DEF Say

(* What the database shows of a clip. *)
LEMMA OfFits ==
  ASSUME NEW rows \in Rows, NEW c \in Clips
  PROVE  Fits(c, Of(rows, c))
<1> DEFINE v == Of(rows, c)
<1>1. v.track \in [Tracks -> TrackOrNone]
  BY RowsShape, Bits DEF Of
<1>2. v.box \in [Tracks -> [Frames -> BoxOrNone]]
  BY RowsShape, Bits DEF Of
<1>3. /\ v.status \in [Frames -> Statuses \union {None}]
      /\ \A f \in Frames : ClipOf[f] = c => v.status[f] \in Statuses
  BY RowsShape DEF Of
<1>4. v = [track |-> v.track, box |-> v.box, status |-> v.status]
  BY DEF Of
<1> HIDE DEF v
<1>5. v \in View
  BY <1>1, <1>2, <1>3, <1>4 DEF View
<1>6. QED BY <1>3, <1>5 DEF Fits, v

LEMMA EmptyViews ==
  /\ GoldView \in View /\ NoView \in View
  /\ Fits(Gold, GoldView) /\ Fits(None, NoView)
<1>1. GoldView \in View
  BY Bits DEF GoldView, View, Statuses
<1>2. NoView \in View
  BY <1>1 DEF NoView, View
<1>3. QED BY <1>1, <1>2, NoneAssumption DEF Fits

(***************************************************************************)
(* Jobs and the requests they make.                                         *)
(***************************************************************************)
LEMMA JobShape ==
  ASSUME NEW j \in Job
  PROVE  /\ j.kind \in Edits \union Undos /\ j.n \in Nat
         /\ j.page \in Pages \union {None} /\ j.clip \in ClipIds \union {None}
         /\ j.track \in Tracks \union {None}
         /\ j.frame \in Frames \union {None} /\ j.from \in Frames \union {None}
         /\ j.at \in Rects \union {None}
         /\ j.type \in Types \union {None} /\ j.old \in Types \union {None}
         /\ j.status \in Statuses /\ j.before \in Statuses
         /\ j.prev \in BoxOrNone /\ j.boxes \in [Frames -> BoxOrNone]
         /\ j.tracks \in SUBSET Tracks /\ j.alone \in BOOLEAN
BY DEF Job

LEMMA BlankType ==
  ASSUME NEW kind \in Edits \union Undos
  PROVE  Blank(kind) \in Job
BY Bits DEF Blank, Job, Statuses

(* The place an edit gets in the queue changes nothing else of it. *)
LEMMA PlacedGood ==
  ASSUME NEW j \in Good, made \in Nat, page \in Pages \union {None}
  PROVE  Placed(j) \in Good /\ Placed(j).n = made + 1
<1> DEFINE n == made + 1
           k == Placed(j)
<1> USE DEF Placed
<1>1. /\ k \in Job
      /\ k.kind = j.kind /\ k.n = n /\ k.clip = j.clip /\ k.track = j.track
      /\ k.frame = j.frame /\ k.from = j.from /\ k.at = j.at /\ k.type = j.type
      /\ k.old = j.old /\ k.prev = j.prev /\ k.boxes = j.boxes /\ k.tracks = j.tracks
  <2>1. j \in Job
    BY DEF Good
  <2>2. k \in Job
    <3> DEFINE i == [j EXCEPT !.n = n, !.page = page]
    <3>1. i \in Job
      <4>1. n \in Nat
        OBVIOUS
      <4> HIDE DEF n
      <4>2. QED BY <2>1, <4>1 DEF Job
    <3>2. CASE queue = <<>>
      <4>1. k = [i EXCEPT !.alone = TRUE]
        BY <3>2
      <4> HIDE DEF i, k
      <4>2. QED BY <3>1, <4>1 DEF Job
    <3>3. CASE queue # <<>>
      <4>1. k = [i EXCEPT !.alone = FALSE]
        BY <3>3
      <4> HIDE DEF i, k
      <4>2. QED BY <3>1, <4>1 DEF Job
    <3>4. QED BY <3>2, <3>3
  <2>3. k.kind = j.kind /\ k.n = n /\ k.clip = j.clip /\ k.track = j.track /\ k.frame = j.frame
    BY <2>1 DEF Job
  <2>4. k.from = j.from /\ k.at = j.at /\ k.type = j.type /\ k.old = j.old
    BY <2>1 DEF Job
  <2>5. k.prev = j.prev /\ k.boxes = j.boxes /\ k.tracks = j.tracks
    BY <2>1 DEF Job
  <2>6. QED BY <2>2, <2>3, <2>4, <2>5
<1> HIDE DEF k
<1>2. JobOK(k)
  BY <1>1 DEF Good, JobOK
<1>3. QED BY <1>1, <1>2 DEF Good, k

LEMMA FilledIn ==
  ASSUME NEW boxes \in [Frames -> BoxOrNone], Filled(boxes) # {}
  PROVE  Least(Filled(boxes)) \in Frames /\ boxes[Least(Filled(boxes))].at \in Rects
<1> DEFINE f == Least(Filled(boxes))
<1>1. f \in Filled(boxes)
  BY LeastIn, FramesAssumption DEF Filled
<1>2. f \in Frames /\ boxes[f] \in Box
  BY <1>1 DEF Filled, BoxOrNone
<1>3. QED BY <1>2 DEF Box

LEMMA StartedGood ==
  ASSUME NEW j \in Good, ~(j.kind = "recreate" /\ j.boxes = NoBoxes)
  PROVE  /\ Started(j) \in Good
         /\ Started(j).n = j.n
         /\ Started(j).kind = j.kind
         /\ j.kind \in {"recreate", "refill"} =>
              Started(j).at \in Rects /\ Started(j).frame \in Frames
<1> USE DEF Good
<1>1. CASE j.kind \in {"undraw", "putBack", "remove", "rename"}
  <2>1. Started(j) = [j EXCEPT !.track = Resolve(j.track)]
    BY <1>1 DEF Started
  <2>2. /\ Resolve(j.track) \in Tracks \union {None}
        /\ j.track \in Tracks => Resolve(j.track) \in Tracks
    BY ResolveType, JobShape
  <2>3. QED BY <1>1, <2>1, <2>2 DEF Job, JobOK
<1>2. CASE j.kind = "uncopy"
  <2>1. Started(j) = [j EXCEPT !.track = Resolve(Least(j.tracks))]
    BY <1>2 DEF Started
  <2>2. j.tracks \subseteq Tracks /\ j.tracks # {} /\ j.tracks \subseteq Nat
    BY <1>2, JobShape DEF JobOK, Tracks
  <2>3. Least(j.tracks) \in Tracks
    BY <2>2, LeastIn
  <2>4. Resolve(Least(j.tracks)) \in Tracks
    BY <2>3, ResolveType
  <2>5. QED BY <1>2, <2>1, <2>4 DEF Job, JobOK
<1>3. CASE j.kind \in {"recreate", "refill"}
  <2> DEFINE f == Least(Filled(j.boxes))
             at == j.boxes[f].at
  <2>1. j.boxes \in [Frames -> BoxOrNone] /\ j.boxes # NoBoxes
    BY <1>3, JobShape DEF JobOK
  <2>2. Filled(j.boxes) # {}
    BY <2>1 DEF Filled, NoBoxes
  <2>3. f \in Frames /\ at \in Rects
    BY <2>1, <2>2, FilledIn
  <2>4. Started(j) = [j EXCEPT !.frame = f, !.at = at]
    BY <1>3, <2>2 DEF Started
  <2> HIDE DEF f, at
  <2>5. QED BY <1>3, <2>3, <2>4 DEF Job, JobOK
<1>4. CASE j.kind \notin {"undraw", "putBack", "remove", "rename", "uncopy", "recreate", "refill"}
  <2>1. Started(j) = j
    BY <1>4 DEF Started
  <2>2. QED BY <1>4, <2>1
<1>5. QED BY <1>1, <1>2, <1>3, <1>4

(* The request of an edit names what the handler needs. *)
LEMMA RequestComplete ==
  ASSUME NEW j \in Good,
         j.kind \in {"recreate", "refill"} => j.at \in Rects /\ j.frame \in Frames
  PROVE  Complete(RequestOf(j))
<1> DEFINE q(op) == Ask(op, j)
<1>1. /\ j \in Job /\ JobOK(j)
      /\ j.track \in Tracks \union {None} /\ j.frame \in Frames \union {None}
      /\ j.from \in Frames \union {None} /\ j.status \in Statuses
  BY JobShape DEF Good
<1>2. CASE j.kind \in {"draw", "recreate"}
  BY <1>1, <1>2 DEF RequestOf, Ask, Complete, Request, JobOK
<1>3. CASE j.kind \in {"move", "putBack", "refill"}
  BY <1>1, <1>3 DEF RequestOf, Ask, Complete, Request, JobOK
<1>4. CASE j.kind \in {"deleteBox", "remove", "uncopy"}
  BY <1>1, <1>4 DEF RequestOf, Ask, Complete, Request, JobOK
<1>5. CASE j.kind \in {"deleteTrack", "undraw"}
  BY <1>1, <1>5 DEF RequestOf, Ask, Complete, Request, JobOK
<1>6. CASE j.kind \in {"update", "rename"}
  BY <1>1, <1>6 DEF RequestOf, Ask, Complete, Request, JobOK
<1>7. CASE j.kind = "copy"
  BY <1>1, <1>7 DEF RequestOf, Ask, Complete, Request, JobOK
<1>8. CASE j.kind \in {"mark", "unmark"}
  BY <1>1, <1>8 DEF RequestOf, Ask, Complete, Request, JobOK
<1>9. QED BY <1>1, <1>2, <1>3, <1>4, <1>5, <1>6, <1>7, <1>8, JobShape DEF Edits, Undos

(***************************************************************************)
(* The queue.                                                               *)
(***************************************************************************)
LEMMA Queued ==
  ASSUME IInv, queue # <<>>
  PROVE  /\ Running \in Good /\ Running = Head(queue)
         /\ Running.n \in Nat /\ served <= Running.n /\ Running.n <= made
         /\ DOMAIN queue = 1..Len(queue) /\ 1 \in DOMAIN queue /\ Len(queue) \in Nat
<1>1. queue \in Seq(Good)
  BY DEF IInv, Pending
<1>2. /\ DOMAIN queue = 1..Len(queue) /\ Len(queue) \in Nat /\ 1 \in DOMAIN queue
      /\ Running \in Good /\ Running = Head(queue)
  BY <1>1, HeadTailProperties, LenProperties, EmptySeq DEF Running
<1>3. QED BY <1>2 DEF IInv, Numbered, Running, Good, Job

LEMMA EnqueueKeeps ==
  ASSUME IInv, NEW job \in Good, Enqueue(job), UNCHANGED <<page, served, flight>>
  PROVE  /\ queue' \in Seq(Good) /\ queue' # <<>>
         /\ made' = made + 1 /\ made' \in Nat
         /\ Numbered'
         /\ InFlight'
         /\ upset' \subseteq upset \union {"hurried"}
<1> DEFINE j == Placed(job)
           m == Len(queue)
<1>1. made \in Nat /\ page \in Pages \union {None} /\ queue \in Seq(Good) /\ served \in 0..made
  BY DEF IInv, TypeOK, Pending
<1>2. j \in Good /\ j.n = made + 1
  BY <1>1, PlacedGood
<1>3. queue' = Append(queue, j) /\ made' = made + 1 /\ Hurry(job)
  BY DEF Enqueue
<1> HIDE DEF j
<1>4. /\ queue' \in Seq(Good) /\ queue' # <<>>
      /\ m \in Nat /\ DOMAIN queue = 1..m /\ DOMAIN queue' = 1..(m + 1)
      /\ \A i \in 1..m : queue'[i] = queue[i]
      /\ queue'[m + 1] = j
  <2>1. /\ queue' \in Seq(Good) /\ Len(queue') = m + 1
        /\ \A i \in 1..m : queue'[i] = queue[i]
        /\ queue'[m + 1] = j
    BY <1>1, <1>2, <1>3, AppendProperties
  <2>2. QED BY <1>1, <2>1, LenProperties, EmptySeq
<1> HIDE DEF m
<1>5. Numbered'
  <2>1. \A i \in 1..m : /\ queue[i].n \in Nat /\ served <= queue[i].n /\ queue[i].n <= made
                        /\ \A k \in 1..m : i < k => queue[i].n < queue[k].n
    <3>1. \A i \in 1..m : queue[i] \in Good
      BY <1>1, <1>4, ElementOfSeq
    <3>2. QED BY <1>4, <3>1 DEF IInv, Numbered, Good, Job
  <2>2. \A i \in 1..(m + 1) : i # m + 1 => i \in 1..m
    BY <1>4
  <2>3. ASSUME NEW i \in 1..(m + 1) PROVE served <= queue'[i].n /\ queue'[i].n <= made + 1
    BY <1>1, <1>2, <1>4, <2>1, <2>2
  <2>4. ASSUME NEW i \in 1..(m + 1), NEW k \in 1..(m + 1), i < k
        PROVE  queue'[i].n < queue'[k].n
    <3>1. i \in 1..m
      BY <1>4, <2>4
    <3>2. CASE k = m + 1
      BY <1>1, <1>2, <1>4, <2>1, <3>1, <3>2
    <3>3. CASE k \in 1..m
      BY <1>4, <2>1, <2>4, <3>1, <3>3
    <3>4. QED BY <2>2, <3>2, <3>3
  <2>5. QED BY <1>3, <1>4, <2>3, <2>4 DEF Numbered
<1>6. InFlight'
  <2>1. CASE queue = <<>>
    BY <2>1 DEF IInv, TypeOK, InFlight, Idle
  <2>2. CASE queue # <<>>
    <3>1. Running' = Running
      BY <1>4, <2>2, Queued DEF Running
    <3>2. QED BY <3>1 DEF IInv, InFlight
  <2>3. QED BY <2>1, <2>2
<1>7. upset' \subseteq upset \union {"hurried"}
  BY <1>3 DEF Hurry
<1>8. QED BY <1>1, <1>3, <1>4, <1>5, <1>6, <1>7

(* The running edit ends. *)
LEMMA EndKeeps ==
  ASSUME IInv, queue # <<>>, queue' = Tail(queue), UNCHANGED <<served, made>>
  PROVE  queue' \in Seq(Good) /\ Numbered'
<1>1. /\ queue' \in Seq(Good) /\ Len(queue') = Len(queue) - 1
      /\ \A i \in 1..Len(queue') : queue'[i] = queue[i + 1]
  BY HeadTailProperties DEF IInv, Pending
<1>2. DOMAIN queue = 1..Len(queue) /\ Len(queue) \in Nat /\ DOMAIN queue' = 1..(Len(queue) - 1)
  BY <1>1, Queued, LenProperties
<1>3. \A i \in DOMAIN queue' : i + 1 \in DOMAIN queue /\ queue'[i] = queue[i + 1]
  BY <1>1, <1>2
<1>4. \A i, k \in DOMAIN queue' : i < k => i + 1 < k + 1
  BY <1>2
<1>5. QED BY <1>1, <1>3, <1>4 DEF IInv, Numbered

(* The running edit changes but for its place. *)
LEMMA ChangeKeeps ==
  ASSUME IInv, queue # <<>>, NEW j \in Good, j.n = Running.n, queue' = <<j>> \o Tail(queue),
         UNCHANGED <<served, made>>
  PROVE  queue' \in Seq(Good) /\ queue' # <<>> /\ Running' = j /\ Numbered'
<1> DEFINE m == Len(queue)
           rest == Tail(queue)
<1>1. queue \in Seq(Good) /\ m \in Nat /\ DOMAIN queue = 1..m /\ 1 \in 1..m
  BY Queued DEF IInv, Pending
<1>2. rest \in Seq(Good) /\ Len(rest) = m - 1 /\ \A i \in 1..(m - 1) : rest[i] = queue[i + 1]
  BY <1>1, HeadTailProperties
<1> HIDE DEF rest, m
<1>3. <<j>> \in Seq(Good) /\ Len(<<j>>) = 1 /\ <<j>>[1] = j
  OBVIOUS
<1>4. /\ queue' \in Seq(Good) /\ Len(queue') = 1 + (m - 1)
      /\ \A i \in 1..(1 + (m - 1)) : queue'[i] = IF i <= 1 THEN <<j>>[i] ELSE rest[i - 1]
  BY <1>2, <1>3, ConcatProperties DEF rest
<1>5. /\ DOMAIN queue' = 1..m
      /\ queue'[1] = j
      /\ \A i \in 1..m : i # 1 => queue'[i] = queue[i]
  <2>1. DOMAIN queue' = 1..m /\ queue'[1] = j
    BY <1>1, <1>3, <1>4, LenProperties
  <2>2. ASSUME NEW i \in 1..m, i # 1 PROVE queue'[i] = queue[i]
    <3>1. i - 1 \in 1..(m - 1) /\ (i - 1) + 1 = i /\ ~(i <= 1) /\ i \in 1..(1 + (m - 1))
      BY <1>1, <2>2
    <3>2. QED BY <1>2, <1>4, <3>1
  <2>3. QED BY <2>1, <2>2
<1>6. \A i \in 1..m : queue'[i].n = queue[i].n
  BY <1>5 DEF Running
<1>7. Numbered'
  BY <1>1, <1>5, <1>6 DEF IInv, Numbered, m
<1>8. QED BY <1>1, <1>4, <1>5, <1>7, EmptySeq DEF Running

(***************************************************************************)
(* What the labeler does.                                                   *)
(***************************************************************************)
(* An edit or undo is put in the queue, and the rest stays in order. *)
LEMMA EditStep ==
  ASSUME IInv, NEW job \in Good, Enqueue(job), Fits(page, labels'), undoStack' \in Seq(Good),
         undos' \in 0..(made + 1),
         UNCHANGED <<api, local, page, selected, backend, remap, flight, pageVars, served, opened,
                     loads, faults>>
  PROVE  IInv'
<1>1. /\ queue' \in Seq(Good) /\ queue' # <<>>
      /\ made' = made + 1 /\ made' \in Nat
      /\ Numbered' /\ InFlight'
      /\ upset' \subseteq upset \union {"hurried"}
  BY EnqueueKeeps
<1>2. Good \subseteq Job
  BY DEF Good
<1>3. queue' \in Seq(Job) /\ undoStack' \in Seq(Job)
  BY <1>1, <1>2, SeqMonotonic
<1>4. labels' \in View
  BY DEF Fits
<1>5. TypeOK'
  BY <1>1, <1>3, <1>4 DEF IInv, TypeOK, pageVars
<1>6. Screens'
  BY DEF IInv, Screens, PerClip, Fits, pageVars
<1>7. QED BY <1>1, <1>5, <1>6 DEF IInv, Pending, Sound, InClip, Unused

LEMMA OnScreen ==
  ASSUME IInv
  PROVE  /\ Fits(page, labels)
         /\ labels.track \in [Tracks -> TrackOrNone]
         /\ labels.box \in [Tracks -> [Frames -> BoxOrNone]]
         /\ page \in Pages \union {None} /\ selected \in Tracks \union {None}
         /\ undoStack \in Seq(Good) /\ undos \in 0..(made + 1) /\ made \in Nat
         /\ remap \in [Tracks -> Tracks \union {None}]
BY ViewShape DEF IInv, TypeOK, Pending, Screens, Fits

LEMMA FrameOnPage ==
  ASSUME NEW p, NEW f \in FramesOf(p)
  PROVE  f \in Frames /\ (p \in Clips => ClipOf[f] = p)
BY GoldFrameAssumption, NoneAssumption DEF FramesOf

LEMMA MoveGood ==
  ASSUME IInv, NEW t \in Tracks, NEW f \in Frames, NEW at \in Rects, Move(t, f, at),
         UNCHANGED <<undos, api, local, page, selected, undoStack, backend, remap, flight, pageVars,
                     served, opened, loads, faults>>
  PROVE  IInv'
<1> DEFINE prev == labels.box[t][f]
           now == IF prev = None THEN Drawn(at)
                  ELSE [at |-> at, is |-> IF prev.is = "accepted" THEN "verified" ELSE prev.is]
           job == [Blank("move") EXCEPT !.track = t, !.frame = f, !.at = at, !.prev = prev]
<1>1. prev \in BoxOrNone
  BY OnScreen
<1>2. now \in BoxOrNone
  BY <1>1, Bits DEF BoxOrNone, Box
<1>3. job \in Good
  <2> HIDE DEF prev
  <2>1. Blank("move") \in Job /\ Blank("move").kind = "move"
    BY BlankType DEF Edits, Blank
  <2>2. QED BY <1>1, <2>1 DEF Good, Job, JobOK
<1>4. labels' = Put(labels, t, f, now) /\ Enqueue(job)
  BY DEF Move, Put
<1> HIDE DEF now, job
<1>5. Fits(page, labels')
  BY <1>2, <1>4, OnScreen, PutFits
<1>6. QED BY <1>3, <1>4, <1>5, OnScreen, EditStep

LEMMA MoveBoxStep ==
  ASSUME IInv, NEW t \in Tracks, NEW f \in Frames, NEW at \in Rects, MoveBox(t, f, at)
  PROVE  IInv'
<1>1. Resolve(t) \in Tracks
  BY ResolveType
<1>2. QED BY <1>1, MoveGood DEF MoveBox, MayEdit

LEMMA DrawBoxStep ==
  ASSUME IInv, NEW f \in Frames, NEW at \in Rects, NEW type \in Types, DrawBox(f, at, type)
  PROVE  IInv'
<1>1. CASE selected # None /\ ~Shown(selected, f)
  <2>1. Resolve(selected) \in Tracks
    BY <1>1, OnScreen, ResolveType
  <2>2. QED BY <1>1, <2>1, MoveGood DEF DrawBox, MayEdit
<1>2. CASE ~(selected # None /\ ~Shown(selected, f))
  <2> DEFINE job == [Blank("draw") EXCEPT !.clip = IdOf(page), !.frame = f, !.at = at, !.type = type]
  <2>1. page \in Pages
    BY OnScreen DEF DrawBox, MayEdit, Acts
  <2>2. job \in Good
    <3>1. Blank("draw") \in Job /\ Blank("draw").kind = "draw"
      BY BlankType DEF Edits, Blank
    <3>2. IdOf(page) \in ClipIds
      BY <2>1 DEF IdOf, Pages, ClipIds
    <3>3. QED BY <3>1, <3>2 DEF Good, Job, JobOK
  <2>3. Enqueue(job) /\ labels' = labels
    BY <1>2 DEF DrawBox
  <2> HIDE DEF job
  <2>4. QED BY <2>2, <2>3, OnScreen, EditStep DEF DrawBox, MayEdit
<1>3. QED BY <1>1, <1>2

LEMMA DeleteSelectedStep ==
  ASSUME IInv, NEW f \in Frames, DeleteSelected(f)
  PROVE  IInv'
<1> DEFINE t == Resolve(selected)
           job == [Blank("deleteBox") EXCEPT !.track = t, !.frame = f,
                     !.prev = labels.box[t][f], !.clip = labels.track[t].clip,
                     !.type = labels.track[t].type]
<1>1. t \in Tracks
  BY OnScreen, ResolveType DEF DeleteSelected
<1>2. labels.box[t][f] \in Box /\ labels.box[t][f] \in BoxOrNone
  BY <1>1, OnScreen DEF DeleteSelected, Shown, BoxOrNone
<1>3. labels.track[t].clip \in ClipIds /\ labels.track[t].type \in Types
  BY <1>1, OnScreen DEF DeleteSelected, TrackOrNone, Track
<1>4. job \in Good
  <2>1. Blank("deleteBox") \in Job /\ Blank("deleteBox").kind = "deleteBox"
    BY BlankType DEF Edits, Blank
  <2> HIDE DEF t
  <2>2. QED BY <1>1, <1>2, <1>3, <2>1 DEF Good, Job, JobOK
<1>5. Enqueue(job)
  BY DEF DeleteSelected
<1> HIDE DEF job
<1>6. QED BY <1>4, <1>5, OnScreen, EditStep DEF DeleteSelected, MayEdit, storeVars

LEMMA DeleteWholeStep ==
  ASSUME IInv, NEW t \in Tracks, DeleteWhole(t)
  PROVE  IInv'
<1> DEFINE u == Resolve(t)
           job == [Blank("deleteTrack") EXCEPT !.track = u, !.boxes = labels.box[u],
                     !.clip = labels.track[u].clip, !.type = labels.track[u].type]
<1>1. u \in Tracks /\ labels.box[u] \in [Frames -> BoxOrNone]
  BY OnScreen, ResolveType
<1>2. labels.track[u].clip \in ClipIds /\ labels.track[u].type \in Types
  BY <1>1, OnScreen DEF DeleteWhole, TrackOrNone, Track
<1>3. job \in Good
  <2>1. Blank("deleteTrack") \in Job /\ Blank("deleteTrack").kind = "deleteTrack"
    BY BlankType DEF Edits, Blank
  <2> HIDE DEF u
  <2>2. QED BY <1>1, <1>2, <2>1 DEF Good, Job, JobOK
<1>4. Enqueue(job)
  BY DEF DeleteWhole
<1> HIDE DEF job
<1>5. QED BY <1>3, <1>4, OnScreen, EditStep DEF DeleteWhole, MayEdit, storeVars

LEMMA RetypeStep ==
  ASSUME IInv, NEW t \in Tracks, NEW type \in Types, Retype(t, type)
  PROVE  IInv'
<1> DEFINE u == Resolve(t)
           job == [Blank("update") EXCEPT !.track = u, !.type = type, !.old = labels.track[u].type]
<1>1. u \in Tracks
  BY ResolveType
<1>2. labels.track[u].type \in Types
  BY <1>1, OnScreen DEF Retype, TrackOrNone, Track
<1>3. job \in Good
  <2>1. Blank("update") \in Job /\ Blank("update").kind = "update"
    BY BlankType DEF Edits, Blank
  <2> HIDE DEF u
  <2>2. QED BY <1>1, <1>2, <2>1 DEF Good, Job, JobOK
<1>4. Enqueue(job)
  BY DEF Retype
<1> HIDE DEF job
<1>5. QED BY <1>3, <1>4, OnScreen, EditStep DEF Retype, MayEdit, storeVars

LEMMA CopyForwardStep ==
  ASSUME IInv, NEW f \in Frames, NEW g \in Frames, CopyForward(f, g)
  PROVE  IInv'
<1> DEFINE job == [Blank("copy") EXCEPT !.from = f, !.frame = g]
<1>1. job \in Good
  <2>1. Blank("copy") \in Job /\ Blank("copy").kind = "copy"
    BY BlankType DEF Edits, Blank
  <2>2. QED BY <2>1 DEF Good, Job, JobOK
<1>2. Enqueue(job)
  BY DEF CopyForward
<1> HIDE DEF job
<1>3. QED BY <1>1, <1>2, OnScreen, EditStep DEF CopyForward, MayEdit, storeVars

LEMMA MarkStep ==
  ASSUME IInv, NEW f \in Frames, NEW status \in Statuses, Mark(f, status)
  PROVE  IInv'
<1> DEFINE before == labels.status[f]
           accepted == IF status = "labeled" THEN Proposed(f) ELSE {}
           job == [Blank("mark") EXCEPT !.frame = f, !.status = status, !.before = before,
                     !.tracks = accepted]
           undo == [Blank("unmark") EXCEPT !.frame = f, !.status = before, !.n = made + 1]
           box == Say(labels.box, accepted, f, "accepted")
<1>1. page \in Clips /\ ClipOf[f] = page
  BY FrameOnPage DEF Mark
<1>2. before \in Statuses
  BY <1>1, OnScreen DEF Fits
<1>3. accepted \in SUBSET Tracks /\ \A t \in accepted : labels.box[t][f] # None
  BY DEF Proposed, Shown
<1>4. job \in Good
  <2>1. Blank("mark") \in Job /\ Blank("mark").kind = "mark"
    BY BlankType DEF Edits, Blank
  <2> HIDE DEF before, accepted
  <2>2. QED BY <1>2, <1>3, <2>1 DEF Good, Job, JobOK
<1>5. undo \in Good
  <2>1. Blank("unmark") \in Job /\ Blank("unmark").kind = "unmark" /\ made + 1 \in Nat
    BY BlankType, OnScreen DEF Undos, Blank
  <2> HIDE DEF before
  <2>2. QED BY <1>2, <2>1 DEF Good, Job, JobOK
<1>6. box \in [Tracks -> [Frames -> BoxOrNone]]
  <2> HIDE DEF accepted
  <2>1. QED BY <1>3, OnScreen, SayType
<1>7. /\ labels' = [labels EXCEPT !.status[f] = status, !.box = box]
      /\ undoStack' = IF before = status THEN undoStack ELSE Append(undoStack, undo)
      /\ Enqueue(job)
  BY DEF Mark
<1> HIDE DEF job, undo, box, accepted
<1>8. Fits(page, labels')
  <2> DEFINE marked == [labels EXCEPT !.status[f] = status]
  <2>1. Fits(page, marked)
    BY OnScreen, StatusFits
  <2>2. labels' = [marked EXCEPT !.box = box]
    BY <1>7
  <2> HIDE DEF marked
  <2>3. QED BY <1>6, <2>1, <2>2, BoxesFit
<1>9. undoStack' \in Seq(Good)
  BY <1>5, <1>7, OnScreen, AppendProperties
<1>10. QED BY <1>4, <1>7, <1>8, <1>9, OnScreen, EditStep DEF Mark, MayEdit

LEMMA UndoStep ==
  ASSUME IInv, Undo
  PROVE  IInv'
<1> DEFINE m == Len(undoStack)
           job == undoStack[m]
<1>1. undoStack \in Seq(Good) /\ undoStack # <<>>
  BY OnScreen DEF Undo
<1>2. m \in Nat /\ m > 0
  BY <1>1, LenProperties, EmptySeq
<1>3. job \in Good
  BY <1>1, <1>2, ElementOfSeq
<1>4. undoStack' \in Seq(Good)
  <2>1. undoStack' = SubSeq(undoStack, 1, m - 1)
    BY DEF Undo
  <2>2. QED BY <1>1, <1>2, <2>1, SubSeqProperties
<1>5. Enqueue(job)
  BY DEF Undo
<1> HIDE DEF job
<1>6. undos' \in 0..(made + 1)
  BY DEF Undo, IInv, TypeOK
<1>7. QED BY <1>3, <1>4, <1>5, <1>6, OnScreen, EditStep DEF Undo

LEMMA SelectStep ==
  ASSUME IInv, NEW t \in Tracks \union {None}, Select(t)
  PROVE  IInv'
<1>1. TypeOK'
  BY DEF IInv, TypeOK, Select, queueVars, pageVars, counted, ghostVars
<1>2. Pending' /\ InFlight' /\ Numbered' /\ Screens' /\ Sound(api)'
  BY DEF IInv, Pending, InFlight, Running, Numbered, Screens, PerClip, Fits, Sound, InClip, Unused, Select,
         queueVars, pageVars, counted, ghostVars
<1>3. QED BY <1>1, <1>2 DEF IInv

(***************************************************************************)
(* The queue's requests.                                                    *)
(***************************************************************************)
LEMMA InTransit ==
  ASSUME IInv, flight.at # "idle"
  PROVE  /\ queue # <<>>
         /\ Running \in Good
         /\ Complete(RequestOf(Running))
<1>1. queue # <<>>
  BY DEF IInv, TypeOK, Idle
<1>2. Running \in Good
  BY <1>1, Queued
<1>3. QED BY <1>1, <1>2, RequestComplete DEF IInv, InFlight

(* A request that is on its way changes, with the edit it belongs to. *)
LEMMA FlightStep ==
  ASSUME IInv, api' \in Rows, local' \in Rows, Sound(api'), queue' \in Seq(Good), Numbered',
         flight' \in Flight, InFlight', queue' = <<>> => flight' = Idle, served' \in 0..made,
         upset' \subseteq upset \union {"lost"}, faults' \in 0..MaxFaults,
         UNCHANGED <<storeVars, remap, pageVars, counted, opened, loads>>
  PROVE  IInv'
<1>1. queue' \in Seq(Job)
  <2>1. Good \subseteq Job
    BY DEF Good
  <2>2. QED BY <2>1, SeqMonotonic
<1>2. TypeOK'
  BY <1>1 DEF IInv, TypeOK, storeVars, pageVars, counted
<1>3. Pending' /\ Screens'
  BY DEF IInv, Pending, Screens, PerClip, Fits, storeVars, pageVars
<1>4. QED BY <1>2, <1>3 DEF IInv, Sound, InClip, Unused

LEMMA FlightShape ==
  ASSUME IInv
  PROVE  /\ flight \in Flight /\ flight.answer \in Answer
         /\ api \in Rows /\ Sound(api) /\ local \in Rows
         /\ made \in Nat /\ served \in 0..made
         /\ Refusal \in Answer /\ Idle \in Flight
BY Bits DEF IInv, TypeOK, Flight, Idle

LEMMA SendStep ==
  ASSUME IInv, Send
  PROVE  IInv'
<1> DEFINE j == Started(Running)
           done == LocalHandle(local, RequestOf(j))
           over == j.kind = "recreate" /\ j.boxes = NoBoxes
<1>1. queue # <<>> /\ Running \in Good /\ flight = Idle
  BY Queued DEF Send, IInv, InFlight
<1>2. Started(Running).kind = Running.kind /\ Started(Running).boxes = Running.boxes
  <2>1. Running \in Job
    BY <1>1 DEF Good
  <2> DEFINE r == Running
  <2> HIDE DEF r
  <2>2. r \in Job => Started(r).kind = r.kind /\ Started(r).boxes = r.boxes
    BY DEF Started, Job
  <2>3. QED BY <2>1, <2>2 DEF r
<1>3. UNCHANGED <<api, storeVars, remap, pageVars, made, undos, served, opened, upset, loads, faults>>
  BY DEF Send, counted, ghostVars
<1>4. CASE over
  <2>1. queue' = Tail(queue) /\ UNCHANGED <<local, flight>>
    BY <1>4 DEF Send
  <2>2. queue' \in Seq(Good) /\ Numbered'
    BY <1>1, <1>3, <2>1, EndKeeps
  <2>3. InFlight'
    BY <1>1, <2>1 DEF InFlight, Idle
  <2>4. QED BY <1>1, <1>3, <2>1, <2>2, <2>3, FlightShape, FlightStep
              DEF counted, IInv, TypeOK, Sound, InClip, Unused
<1>5. CASE ~over
  <2>1. j \in Good /\ j.n = Running.n
        /\ (j.kind \in {"recreate", "refill"} => j.at \in Rects /\ j.frame \in Frames)
    BY <1>1, <1>2, <1>5, StartedGood
  <2>2. Complete(RequestOf(j))
    BY <2>1, RequestComplete
  <2>3. done.rows \in Rows /\ done.answer \in Answer
    BY <2>2, FlightShape, LocalType
  <2>4. /\ queue' = <<j>> \o Tail(queue)
        /\ \/ flight' = [Idle EXCEPT !.at = "sent"] /\ UNCHANGED local
           \/ flight' = [at |-> "answered", via |-> "local", answer |-> done.answer]
              /\ local' = done.rows
    BY <1>5 DEF Send
  <2> HIDE DEF j, done
  <2>5. queue' \in Seq(Good) /\ queue' # <<>> /\ Running' = j /\ Numbered'
    BY <1>1, <1>3, <2>1, <2>4, ChangeKeeps
  <2>6. flight' \in Flight /\ flight'.at # "idle" /\ local' \in Rows
    BY <2>3, <2>4, FlightShape DEF Flight, Idle
  <2>7. InFlight'
    BY <2>1, <2>5, <2>6 DEF InFlight
  <2>8. QED BY <1>3, <2>5, <2>6, <2>7, FlightShape, FlightStep
              DEF counted, IInv, TypeOK
<1>6. QED BY <1>4, <1>5

LEMMA ServeStep ==
  ASSUME IInv, Serve
  PROVE  IInv' /\ served' >= served
<1> DEFINE done == Handle(api, RequestOf(Running))
<1>1. queue # <<>> /\ Running \in Good /\ Complete(RequestOf(Running))
  BY InTransit DEF Serve
<1>2. Kept(api, done)
  BY <1>1, FlightShape, HandleKeeps
<1>3. /\ api' = done.rows /\ flight' = [flight EXCEPT !.at = "answered", !.answer = done.answer]
      /\ served' = Running.n /\ flight.at = "sent"
      /\ UNCHANGED <<local, storeVars, queue, remap, pageVars, counted, opened, upset, loads, faults>>
  BY DEF Serve
<1> HIDE DEF done
<1>4. api' \in Rows /\ Sound(api') /\ flight' \in Flight /\ flight'.at = "answered"
  BY <1>2, <1>3, FlightShape DEF Kept, Flight
<1>5. Running.n \in Nat /\ served <= Running.n /\ Running.n <= made
  BY <1>1, Queued
<1>6. served' \in 0..made /\ served' >= served
  BY <1>3, <1>5, FlightShape
<1>7. Numbered'
  <2>1. DOMAIN queue = 1..Len(queue) /\ 1 \in DOMAIN queue /\ Len(queue) \in Nat
    BY <1>1, Queued
  <2>2. \A i \in DOMAIN queue : Running.n <= queue[i].n
    <3>1. ASSUME NEW i \in DOMAIN queue PROVE Running.n <= queue[i].n
      <4>1. CASE i = 1
        BY <1>5, <4>1 DEF Running
      <4>2. CASE i # 1
        <5>1. 1 < i
          BY <2>1, <4>2
        <5>2. queue[1].n < queue[i].n
          BY <2>1, <5>1 DEF IInv, Numbered
        <5>3. queue[i].n \in Nat
          BY ElementOfSeq, <2>1 DEF IInv, Pending, Good, Job
        <5>4. QED BY <1>5, <5>2, <5>3 DEF Running
      <4>3. QED BY <4>1, <4>2
    <3>2. QED BY <3>1
  <2>3. queue' = queue /\ made' = made
    BY <1>3 DEF counted
  <2>4. QED BY <1>3, <2>2, <2>3 DEF IInv, Numbered
<1>8. InFlight'
  BY <1>3, <1>4 DEF IInv, InFlight, Running
<1>9. QED BY <1>1, <1>3, <1>4, <1>6, <1>7, <1>8, FlightShape, FlightStep DEF IInv, TypeOK, Pending

LEMMA LoseRequestStep ==
  ASSUME IInv, LoseRequest
  PROVE  IInv'
<1>1. /\ flight.at = "sent" /\ flight' = [flight EXCEPT !.at = "answered"] /\ faults < MaxFaults
      /\ faults' = faults + 1
      /\ UNCHANGED <<api, local, storeVars, queue, remap, pageVars, counted, served, opened, upset,
                     loads>>
  BY DEF LoseRequest, ghostVars
<1>2. flight' \in Flight /\ flight'.at = "answered"
  BY <1>1, FlightShape DEF Flight
<1>3. queue # <<>>
  BY <1>1, InTransit
<1>4. faults' \in 0..MaxFaults
  BY <1>1, BoundsAssumption DEF IInv, TypeOK
<1>5. Numbered' /\ InFlight'
  BY <1>1, <1>2 DEF IInv, Numbered, InFlight, Running, counted
<1>6. QED BY <1>1, <1>2, <1>3, <1>4, <1>5, FlightShape, FlightStep DEF IInv, Pending, Sound, InClip, Unused

LEMMA LoseAnswerStep ==
  ASSUME IInv, LoseAnswer
  PROVE  IInv'
<1>1. /\ flight.at = "answered" /\ flight' = [flight EXCEPT !.answer = Refusal]
      /\ faults < MaxFaults /\ faults' = faults + 1 /\ upset' = upset \union {"lost"}
      /\ UNCHANGED <<api, local, storeVars, queue, remap, pageVars, counted, served, opened, loads>>
  BY DEF LoseAnswer
<1>2. flight' \in Flight /\ flight'.at = "answered"
  BY <1>1, FlightShape DEF Flight
<1>3. queue # <<>>
  BY <1>1, InTransit
<1>4. faults' \in 0..MaxFaults
  BY <1>1, BoundsAssumption DEF IInv, TypeOK
<1>5. Numbered' /\ InFlight'
  BY <1>1, <1>2 DEF IInv, Numbered, InFlight, Running, counted
<1>6. QED BY <1>1, <1>2, <1>3, <1>4, <1>5, FlightShape, FlightStep DEF IInv, Pending, Sound, InClip, Unused

(***************************************************************************)
(* What the store does with an answer.                                      *)
(***************************************************************************)
Upsets == {"stale", "refused", "undoRefused", "hurried", "guessed", "remarked", "lost"}

(* An answer changes the labels, the undo stack and the queue's first edit.  *)
LEMMA AnswerStep ==
  ASSUME IInv, NEW kinds, NEW ok, Answered(kinds, ok), queue' \in Seq(Good), Numbered',
         Fits(page, labels'), selected' \in Tracks \union {None}, undoStack' \in Seq(Good),
         remap' \in [Tracks -> Tracks \union {None}], upset' \subseteq Upsets
  PROVE  IInv'
<1>1. Good \subseteq Job
  BY DEF Good
<1>2. queue' \in Seq(Job) /\ undoStack' \in Seq(Job)
  BY <1>1, SeqMonotonic
<1>3. /\ flight' = Idle
      /\ UNCHANGED <<api, local, page, backend, pageVars, counted, served, opened, loads, faults>>
  BY DEF Answered
<1>4. labels' \in View
  BY DEF Fits
<1>5. TypeOK'
  BY <1>2, <1>3, <1>4, FlightShape DEF IInv, TypeOK, pageVars, counted, Upsets
<1>6. Pending' /\ InFlight' /\ Screens' /\ Sound(api)'
  BY <1>3 DEF IInv, Pending, InFlight, Idle, Screens, PerClip, Fits, Sound, InClip, Unused, pageVars
<1>7. QED BY <1>5, <1>6 DEF IInv

LEMMA AnswerShape ==
  ASSUME IInv, NEW kinds, NEW ok, Answered(kinds, ok)
  PROVE  /\ queue # <<>> /\ Running \in Good /\ Running \in Job /\ JobOK(Running)
         /\ Running.kind \in kinds
         /\ Running.kind \in {"recreate", "refill"} =>
              Running.at \in Rects /\ Running.frame \in Frames
         /\ Reply.track \in Tracks \union {None} /\ Reply.was \in TrackOrNone
         /\ Reply.made \in [Tracks -> BoxOrNone]
         /\ upset \subseteq Upsets
         /\ UNCHANGED <<page, served, made>>
<1>1. queue # <<>> /\ Running.kind \in kinds /\ UNCHANGED <<page, served, made>> /\ flight.at = "answered"
  BY DEF Answered, counted
<1>2. Running \in Good
  BY <1>1, Queued
<1>3. Reply \in Answer
  BY FlightShape DEF Reply
<1>4. QED BY <1>1, <1>2, <1>3 DEF Answer, Good, IInv, InFlight, TypeOK, Upsets

LEMMA EndsKeeps ==
  ASSUME IInv, queue # <<>>, Ends, UNCHANGED <<served, made>>
  PROVE  queue' \in Seq(Good) /\ Numbered' /\ remap' \in [Tracks -> Tracks \union {None}]
BY EndKeeps, OnScreen DEF Ends

(* The running edit ends, and the undo stack stays or gets an entry. *)
LEMMA EndStep ==
  ASSUME IInv, NEW kinds, NEW ok, Answered(kinds, ok), Ends, Fits(page, labels'),
         selected' \in Tracks \union {None}, undoStack' \in Seq(Good), upset' \subseteq Upsets
  PROVE  IInv'
<1>1. queue # <<>> /\ UNCHANGED <<served, made>>
  BY AnswerShape
<1>2. queue' \in Seq(Good) /\ Numbered' /\ remap' \in [Tracks -> Tracks \union {None}]
  BY <1>1, EndsKeeps
<1>3. QED BY <1>2, AnswerStep

LEMMA SavedStep ==
  ASSUME IInv, NEW kind, Saved(kind), Fits(page, labels'), selected' \in Tracks \union {None},
         \/ undoStack' = undoStack
         \/ \E entry \in Good : Pushes(entry)
  PROVE  IInv'
<1>1. undoStack' \in Seq(Good)
  BY OnScreen, AppendProperties DEF Pushes
<1>2. upset' \subseteq Upsets
  BY AnswerShape DEF Saved
<1>3. QED BY <1>1, <1>2, EndStep DEF Saved

(* The track of an answer appears with its box. *)
LEMMA AddedFits ==
  ASSUME NEW p, NEW v, Fits(p, v), NEW t, NEW track \in TrackOrNone, NEW f, NEW at \in Rects
  PROVE  Fits(p, Cleared(Put([v EXCEPT !.track[t] = track], t, f, Drawn(at)), f))
<1> DEFINE one == [v EXCEPT !.track[t] = track]
           two == Put(one, t, f, Drawn(at))
<1>1. Fits(p, one)
  BY TrackFits
<1>2. Drawn(at) \in BoxOrNone
  BY Bits DEF BoxOrNone
<1> HIDE DEF one
<1>3. Fits(p, two)
  BY <1>1, <1>2, PutFits
<1> HIDE DEF two
<1>4. Fits(p, Cleared(two, f))
  BY <1>3, ClearedFits
<1>5. QED BY <1>4 DEF two, one

LEMMA MovedFits ==
  ASSUME NEW p, NEW v, Fits(p, v), NEW t, NEW f, NEW at \in Rects
  PROVE  Fits(p, Put(v, t, f, Drawn(at))) /\ Fits(p, Cleared(Put(v, t, f, Drawn(at)), f))
<1> DEFINE two == Put(v, t, f, Drawn(at))
<1>1. Drawn(at) \in BoxOrNone
  BY Bits DEF BoxOrNone
<1>2. Fits(p, two)
  BY <1>1, PutFits
<1> HIDE DEF two
<1>3. Fits(p, Cleared(two, f))
  BY <1>2, ClearedFits
<1>4. QED BY <1>2, <1>3 DEF two

LEMMA RemovesFits ==
  ASSUME IInv, NEW t, Removes(t)
  PROVE  Fits(page, labels') /\ selected' \in Tracks \union {None}
BY OnScreen, RemoveFits DEF Removes

LEMMA TakesAwayFits ==
  ASSUME IInv, NEW t, NEW f, TakesAway(t, f)
  PROVE  Fits(page, labels') /\ selected' \in Tracks \union {None}
<1>1. CASE Reply.gone
  BY <1>1, RemovesFits DEF TakesAway
<1>2. CASE ~Reply.gone
  BY <1>2, OnScreen, PutFits, Bits DEF TakesAway
<1>3. QED BY <1>1, <1>2

LEMMA SavedDrawStep ==
  ASSUME IInv, SavedDraw
  PROVE  IInv'
<1> DEFINE t == Reply.track
           f == Running.frame
           entry == [Blank("undraw") EXCEPT !.track = t]
<1>1. Answered({"draw"}, TRUE)
  BY DEF SavedDraw, Saved
<1>2. /\ t \in Tracks \union {None} /\ Reply.was \in TrackOrNone
      /\ Running.at \in Rects
  BY <1>1, AnswerShape DEF JobOK
<1>3. Fits(page, labels') /\ selected' \in Tracks \union {None}
  <2>1. labels' = Cleared(Put([labels EXCEPT !.track[t] = Reply.was], t, f, Drawn(Running.at)), f)
    BY DEF SavedDraw
  <2> DEFINE at == Running.at
             was == Reply.was
  <2> HIDE DEF t, f, at, was
  <2>2. Fits(page, Cleared(Put([labels EXCEPT !.track[t] = was], t, f, Drawn(at)), f))
    BY <1>2, OnScreen, AddedFits DEF at, was
  <2>3. QED BY <1>2, <2>1, <2>2 DEF SavedDraw, at, was, t
<1>4. entry \in Good
  <2>1. Blank("undraw") \in Job /\ Blank("undraw").kind = "undraw"
    BY BlankType DEF Undos, Blank
  <2> HIDE DEF t
  <2>2. QED BY <1>2, <2>1 DEF Good, Job, JobOK
<1>5. Saved("draw") /\ Pushes(entry)
  BY DEF SavedDraw
<1> HIDE DEF entry
<1>6. QED BY <1>3, <1>4, <1>5, SavedStep

(* The entries that undo a move or a deletion. *)
LEMMA PutBackGood ==
  ASSUME NEW t \in Tracks, NEW f \in Frames, NEW at \in Rects
  PROVE  [Blank("putBack") EXCEPT !.track = t, !.frame = f, !.at = at] \in Good
<1>1. Blank("putBack") \in Job /\ Blank("putBack").kind = "putBack"
  BY BlankType DEF Undos, Blank
<1>2. QED BY <1>1 DEF Good, Job, JobOK

LEMMA RemoveGood ==
  ASSUME NEW t \in Tracks, NEW f \in Frames
  PROVE  [Blank("remove") EXCEPT !.track = t, !.frame = f] \in Good
<1> DEFINE k == [Blank("remove") EXCEPT !.track = t, !.frame = f]
<1>1. Blank("remove") \in Job /\ Blank("remove").kind = "remove"
  BY BlankType DEF Undos, Blank
<1>2. k \in Job /\ k.kind = "remove" /\ k.track = t
  BY <1>1 DEF Job
<1> HIDE DEF k
<1>3. QED BY <1>2 DEF Good, JobOK, k

LEMMA RecreateGood ==
  ASSUME NEW j \in Good, j.kind \in {"deleteBox", "deleteTrack"},
         NEW boxes \in [Frames -> BoxOrNone]
  PROVE  [Blank("recreate") EXCEPT !.track = j.track, !.clip = j.clip, !.type = j.type,
                                   !.boxes = boxes] \in Good
<1> DEFINE t == j.track
           clip == j.clip
           type == j.type
<1>1. t \in Tracks \union {None} /\ clip \in ClipIds /\ type \in Types
  BY JobShape DEF Good, JobOK
<1>2. Blank("recreate") \in Job /\ Blank("recreate").kind = "recreate"
  BY BlankType DEF Undos, Blank
<1> HIDE DEF t, clip, type
<1> DEFINE k == [Blank("recreate") EXCEPT !.track = t, !.clip = clip, !.type = type, !.boxes = boxes]
<1>3. k \in Job
  BY <1>1, <1>2 DEF Job
<1>4. k.kind = "recreate" /\ k.clip = clip /\ k.type = type
  BY <1>1, <1>2 DEF Job
<1> HIDE DEF k
<1>5. k \in Good
  BY <1>1, <1>3, <1>4 DEF Good, JobOK
<1>6. QED BY <1>5 DEF k, t, clip, type

LEMMA SavedMoveStep ==
  ASSUME IInv, SavedMove
  PROVE  IInv'
<1> DEFINE t == Running.track
           f == Running.frame
           at == Running.at
           prev == Running.prev
           entry == IF prev = None THEN [Blank("remove") EXCEPT !.track = t, !.frame = f]
                    ELSE [Blank("putBack") EXCEPT !.track = t, !.frame = f, !.at = prev.at]
<1>1. Saved("move") /\ Answered({"move"}, TRUE) /\ Pushes(entry)
      /\ labels' = Cleared(Put(labels, t, f, Drawn(at)), f) /\ selected' = selected
  BY DEF SavedMove, Saved
<1>2. t \in Tracks /\ f \in Frames /\ at \in Rects /\ prev \in BoxOrNone
  BY <1>1, AnswerShape, JobShape DEF JobOK
<1>3. entry \in Good
  <2> HIDE DEF t, f, prev
  <2>1. CASE prev = None
    BY <1>2, <2>1, RemoveGood
  <2>2. CASE prev # None
    <3> DEFINE was == prev.at
    <3>1. was \in Rects
      BY <1>2, <2>2 DEF BoxOrNone, Box
    <3> HIDE DEF was
    <3>2. [Blank("putBack") EXCEPT !.track = t, !.frame = f, !.at = was] \in Good
      BY <1>2, <3>1, PutBackGood
    <3>3. QED BY <2>2, <3>2 DEF was
  <2>3. QED BY <2>1, <2>2
<1> HIDE DEF entry, t, f, at
<1>4. Fits(page, labels')
  BY <1>1, <1>2, OnScreen, MovedFits
<1>5. QED BY <1>1, <1>3, <1>4, OnScreen, SavedStep

LEMMA SavedDeleteBoxStep ==
  ASSUME IInv, SavedDeleteBox
  PROVE  IInv'
<1> DEFINE t == Running.track
           f == Running.frame
           at == Running.prev.at
           boxes == [NoBoxes EXCEPT ![f] = Running.prev]
           again == [Blank("recreate") EXCEPT !.track = t, !.clip = Running.clip,
                                              !.type = Running.type, !.boxes = boxes]
           entry == IF Reply.gone THEN again
                    ELSE [Blank("putBack") EXCEPT !.track = t, !.frame = f, !.at = at]
<1>1. Saved("deleteBox") /\ Answered({"deleteBox"}, TRUE) /\ Pushes(entry) /\ TakesAway(t, f)
  BY DEF SavedDeleteBox, Saved
<1>2. /\ Running \in Good /\ Running.kind = "deleteBox"
      /\ t \in Tracks /\ f \in Frames /\ Running.prev \in Box
  <2>1. Running \in Good /\ JobOK(Running) /\ Running.kind \in {"deleteBox"}
    BY <1>1, AnswerShape
  <2>2. QED BY <2>1 DEF JobOK
<1>3. boxes \in [Frames -> BoxOrNone] /\ at \in Rects
  BY <1>2, Bits DEF BoxOrNone, Box
<1>4. again \in Good
  <2> HIDE DEF boxes
  <2>1. QED BY <1>2, <1>3, RecreateGood
<1>5. [Blank("putBack") EXCEPT !.track = t, !.frame = f, !.at = at] \in Good
  <2> HIDE DEF t, f, at
  <2>1. QED BY <1>2, <1>3, PutBackGood
<1>6. entry \in Good
  <2> HIDE DEF again
  <2>1. QED BY <1>4, <1>5
<1> HIDE DEF entry
<1>7. Fits(page, labels') /\ selected' \in Tracks \union {None}
  BY <1>1, TakesAwayFits
<1>8. QED BY <1>1, <1>6, <1>7, SavedStep

LEMMA SavedDeleteTrackStep ==
  ASSUME IInv, SavedDeleteTrack
  PROVE  IInv'
<1> DEFINE boxes == Running.boxes
           entry == [Blank("recreate") EXCEPT !.track = Running.track, !.clip = Running.clip,
                                              !.type = Running.type, !.boxes = boxes]
<1>1. Saved("deleteTrack") /\ Answered({"deleteTrack"}, TRUE) /\ Pushes(entry)
      /\ Removes(Running.track)
  BY DEF SavedDeleteTrack, Saved
<1>2. Running \in Good /\ Running.kind = "deleteTrack" /\ boxes \in [Frames -> BoxOrNone]
  <2>1. Running \in Good /\ Running \in Job /\ Running.kind \in {"deleteTrack"}
    BY <1>1, AnswerShape
  <2>2. QED BY <2>1, JobShape
<1>3. entry \in Good
  <2> HIDE DEF boxes
  <2>1. QED BY <1>2, RecreateGood
<1> HIDE DEF entry
<1>4. Fits(page, labels') /\ selected' \in Tracks \union {None}
  BY <1>1, RemovesFits
<1>5. QED BY <1>1, <1>3, <1>4, SavedStep

LEMMA SavedUpdateStep ==
  ASSUME IInv, SavedUpdate
  PROVE  IInv'
<1> DEFINE t == Running.track
           old == Running.old
           entry == [Blank("rename") EXCEPT !.track = t, !.type = old]
<1>1. /\ Saved("update") /\ Answered({"update"}, TRUE) /\ Pushes(entry)
      /\ labels' = [labels EXCEPT !.track[t] = Reply.was] /\ selected' = selected
  BY DEF SavedUpdate, Saved
<1>2. t \in Tracks /\ old \in Types /\ Reply.was \in TrackOrNone
  <2>1. JobOK(Running) /\ Running.kind \in {"update"} /\ Reply.was \in TrackOrNone
    BY <1>1, AnswerShape
  <2>2. QED BY <2>1 DEF JobOK
<1>3. entry \in Good
  <2>1. Blank("rename") \in Job /\ Blank("rename").kind = "rename"
    BY BlankType DEF Undos, Blank
  <2> HIDE DEF t, old
  <2>2. QED BY <1>2, <2>1 DEF Good, Job, JobOK
<1> HIDE DEF entry, t
<1>4. Fits(page, labels')
  BY <1>1, <1>2, OnScreen, TrackFits
<1>5. QED BY <1>1, <1>3, <1>4, OnScreen, SavedStep

LEMMA SavedCopyStep ==
  ASSUME IInv, SavedCopy
  PROVE  IInv'
<1> DEFINE g == Running.frame
           copies == Reply.made
           new == {t \in Tracks : copies[t] # None}
           box == [t \in Tracks |-> IF t \in new THEN [labels.box[t] EXCEPT ![g] = copies[t]]
                                    ELSE labels.box[t]]
           put == [labels EXCEPT !.box = box]
           entry == [Blank("uncopy") EXCEPT !.frame = g, !.tracks = new]
<1>1. /\ Saved("copy") /\ Answered({"copy"}, TRUE) /\ selected' = selected
      /\ IF new = {} THEN UNCHANGED <<labels, undoStack>>
         ELSE labels' = Cleared(put, g) /\ Pushes(entry)
  BY DEF SavedCopy, Saved
<1>2. g \in Frames /\ copies \in [Tracks -> BoxOrNone]
  BY <1>1, AnswerShape DEF JobOK
<1>3. CASE new = {}
  BY <1>1, <1>3, OnScreen, SavedStep
<1>4. CASE new # {}
  <2> HIDE DEF g, copies
  <2>1. box \in [Tracks -> [Frames -> BoxOrNone]]
    BY <1>2, OnScreen
  <2>2. entry \in Good
    <3>1. Blank("uncopy") \in Job /\ Blank("uncopy").kind = "uncopy"
      BY BlankType DEF Undos, Blank
    <3>2. new \in SUBSET Tracks
      OBVIOUS
    <3> HIDE DEF new
    <3>3. QED BY <1>2, <1>4, <3>1, <3>2 DEF Good, Job, JobOK
  <2> HIDE DEF box, entry, new
  <2>3. Fits(page, put)
    BY <2>1, OnScreen, BoxesFit
  <2> HIDE DEF put
  <2>4. Fits(page, labels') /\ Pushes(entry)
    BY <1>1, <1>4, <2>3, ClearedFits
  <2>5. QED BY <1>1, <2>2, <2>4, OnScreen, SavedStep
<1>5. QED BY <1>3, <1>4

LEMMA SavedMarkStep ==
  ASSUME IInv, SavedMark
  PROVE  IInv'
BY OnScreen, SavedStep DEF SavedMark

LEMMA FailedMoveStep ==
  ASSUME IInv, FailedMove
  PROVE  IInv'
<1> DEFINE t == Running.track
           f == Running.frame
           prev == Running.prev
<1>1. /\ Answered({"move"}, FALSE) /\ Ends /\ labels' = Put(labels, t, f, prev)
      /\ upset' = upset \union {IF Running.alone THEN "refused" ELSE "guessed"}
      /\ UNCHANGED <<selected, undoStack>>
  BY DEF FailedMove
<1>2. prev \in BoxOrNone /\ upset \subseteq Upsets
  <2>1. Running \in Job /\ upset \subseteq Upsets
    BY <1>1, AnswerShape
  <2>2. QED BY <2>1, JobShape
<1>3. upset' \subseteq Upsets
  BY <1>1, <1>2 DEF Upsets
<1> HIDE DEF t, f, prev
<1>4. Fits(page, labels')
  BY <1>1, <1>2, OnScreen, PutFits
<1>5. QED BY <1>1, <1>3, <1>4, OnScreen, EndStep

LEMMA WithdrawGood ==
  ASSUME NEW s \in Seq(Good), NEW i \in DOMAIN s
  PROVE  RemoveAt(s, i) \in Seq(Good)
<1>1. Len(s) \in Nat /\ i \in 1..Len(s)
  BY LenProperties
<1>2. SubSeq(s, 1, i - 1) \in Seq(Good) /\ SubSeq(s, i + 1, Len(s)) \in Seq(Good)
  BY <1>1, SubSeqProperties
<1>3. QED BY <1>2, ConcatProperties DEF RemoveAt

LEMMA FailedMarkStep ==
  ASSUME IInv, FailedMark
  PROVE  IInv'
<1> DEFINE j == Running
           f == j.frame
           still == {t \in j.tracks : Shown(t, f) /\ labels.box[t][f].is = "accepted"}
           mine == {i \in DOMAIN undoStack : undoStack[i].kind = "unmark" /\ undoStack[i].n = j.n}
           box == Say(labels.box, still, f, "proposed")
           status == IF labels.status[f] = j.status THEN j.before ELSE labels.status[f]
<1>1. /\ Answered({"mark"}, FALSE) /\ Ends
      /\ labels' = [labels EXCEPT !.status[f] = status, !.box = box]
      /\ undoStack' = IF mine = {} THEN undoStack
                      ELSE RemoveAt(undoStack, CHOOSE i \in mine : TRUE)
      /\ upset' \subseteq upset \union {"refused", "guessed", "remarked"}
      /\ selected' = selected
  BY DEF FailedMark
<1>2. /\ f \in Frames /\ j.before \in Statuses /\ j.tracks \subseteq Tracks
      /\ upset \subseteq Upsets
  <2>1. j \in Job /\ JobOK(j) /\ j.kind \in {"mark"} /\ upset \subseteq Upsets
    BY <1>1, AnswerShape
  <2>2. QED BY <2>1, JobShape DEF JobOK
<1>3. upset' \subseteq Upsets
  BY <1>1, <1>2 DEF Upsets
<1>4. undoStack' \in Seq(Good)
  <2>1. CASE mine = {}
    BY <1>1, <2>1, OnScreen
  <2>2. CASE mine # {}
    <3> DEFINE i == CHOOSE i \in mine : TRUE
    <3>1. i \in DOMAIN undoStack
      BY <2>2
    <3> HIDE DEF i
    <3>2. RemoveAt(undoStack, i) \in Seq(Good)
      BY <3>1, OnScreen, WithdrawGood
    <3>3. QED BY <1>1, <2>2, <3>2 DEF i
  <2>3. QED BY <2>1, <2>2
<1>5. box \in [Tracks -> [Frames -> BoxOrNone]]
  <2>1. \A t \in still : labels.box[t][f] # None
    BY DEF Shown
  <2> HIDE DEF still
  <2>2. "proposed" \in {"proposed", "verified", "accepted"}
    OBVIOUS
  <2>3. QED BY <1>2, <2>1, <2>2, OnScreen, SayType
<1> HIDE DEF box, mine
<1>6. Fits(page, labels')
  <2> DEFINE marked == [labels EXCEPT !.status[f] = status]
  <2>1. labels' = [marked EXCEPT !.box = box]
    BY <1>1
  <2>2. Fits(page, marked)
    <3>1. CASE labels.status[f] = j.status
      <4>1. marked = [labels EXCEPT !.status[f] = j.before]
        BY <3>1
      <4> DEFINE b == j.before
      <4> HIDE DEF marked, b, f
      <4>2. QED BY <1>2, <4>1, OnScreen, StatusFits DEF b
    <3>2. CASE labels.status[f] # j.status
      <4>1. marked = labels
        BY <3>2, ViewShape, OnScreen DEF Fits, View
      <4> HIDE DEF marked
      <4>2. QED BY <4>1, OnScreen
    <3>3. QED BY <3>1, <3>2
  <2> HIDE DEF marked
  <2>3. QED BY <1>5, <2>1, <2>2, BoxesFit
<1>7. QED BY <1>1, <1>3, <1>4, <1>6, OnScreen, EndStep

LEMMA FailedOtherStep ==
  ASSUME IInv, FailedOther
  PROVE  IInv'
<1> DEFINE kinds == (Edits \ {"move", "mark"}) \union Undos
<1>1. /\ Answered(kinds, FALSE) /\ Ends
      /\ upset' = upset \union {IF Running.kind \in Undos THEN "undoRefused" ELSE "refused"}
      /\ UNCHANGED <<labels, selected, undoStack>>
  BY DEF FailedOther
<1> HIDE DEF kinds
<1>2. upset \subseteq Upsets
  BY <1>1, AnswerShape
<1>3. upset' \subseteq Upsets
  BY <1>1, <1>2 DEF Upsets
<1>4. QED BY <1>1, <1>3, OnScreen, EndStep

LEMMA UndrawStep ==
  ASSUME IInv, Undraw
  PROVE  IInv'
BY RemovesFits, SavedStep DEF Undraw, Undone

LEMMA PutBackStep ==
  ASSUME IInv, PutBack
  PROVE  IInv'
<1> DEFINE t == Running.track
           f == Running.frame
           at == Running.at
<1>1. /\ Saved("putBack") /\ Answered({"putBack"}, TRUE) /\ undoStack' = undoStack
      /\ labels' = Put(labels, t, f, Drawn(at)) /\ selected' = selected
  BY DEF PutBack, Undone, Saved
<1>2. at \in Rects
  <2>1. JobOK(Running) /\ Running.kind \in {"putBack"}
    BY <1>1, AnswerShape
  <2>2. QED BY <2>1 DEF JobOK
<1> HIDE DEF t, f, at
<1>3. Fits(page, labels')
  BY <1>1, <1>2, OnScreen, MovedFits
<1>4. QED BY <1>1, <1>3, OnScreen, SavedStep

LEMMA RemoveBoxStep ==
  ASSUME IInv, RemoveBox
  PROVE  IInv'
BY TakesAwayFits, SavedStep DEF RemoveBox, Undone

LEMMA RenameStep ==
  ASSUME IInv, Rename
  PROVE  IInv'
<1> DEFINE t == Running.track
           was == Reply.was
<1>1. /\ Saved("rename") /\ Answered({"rename"}, TRUE) /\ undoStack' = undoStack
      /\ labels' = [labels EXCEPT !.track[t] = was] /\ selected' = selected
  BY DEF Rename, Undone, Saved
<1>2. was \in TrackOrNone
  BY <1>1, AnswerShape
<1> HIDE DEF t, was
<1>3. Fits(page, labels')
  BY <1>1, <1>2, OnScreen, TrackFits
<1>4. QED BY <1>1, <1>3, OnScreen, SavedStep

LEMMA UnmarkStep ==
  ASSUME IInv, Unmark
  PROVE  IInv'
<1> DEFINE f == Running.frame
           status == Running.status
<1>1. /\ Saved("unmark") /\ Answered({"unmark"}, TRUE) /\ undoStack' = undoStack
      /\ labels' = [labels EXCEPT !.status[f] = status] /\ selected' = selected
  BY DEF Unmark, Undone, Saved
<1>2. status \in Statuses
  <2>1. Running \in Job
    BY <1>1, AnswerShape
  <2>2. QED BY <2>1, JobShape
<1> HIDE DEF f, status
<1>3. Fits(page, labels')
  BY <1>1, <1>2, OnScreen, StatusFits
<1>4. QED BY <1>1, <1>3, OnScreen, SavedStep

(* An undo of several requests goes on, or ends. *)
LEMMA GoesOnStep ==
  ASSUME IInv, NEW kinds, Answered(kinds, TRUE), NEW j, NEW more, more \in BOOLEAN,
         more => j \in Good /\ j.n = Running.n, GoesOn(j, more), Fits(page, labels'),
         selected' \in Tracks \union {None}, remap' \in [Tracks -> Tracks \union {None}]
  PROVE  IInv'
<1>1. /\ queue # <<>> /\ UNCHANGED <<served, made>> /\ upset' \subseteq Upsets
      /\ undoStack' \in Seq(Good)
  BY AnswerShape, OnScreen DEF GoesOn
<1>2. CASE more
  <2>1. queue' = <<j>> \o Tail(queue)
    BY <1>2 DEF GoesOn
  <2>2. queue' \in Seq(Good) /\ Numbered'
    BY <1>1, <1>2, <2>1, ChangeKeeps
  <2>3. QED BY <1>1, <2>2, AnswerStep
<1>3. CASE ~more
  <2>1. queue' = Tail(queue)
    BY <1>3 DEF GoesOn
  <2>2. queue' \in Seq(Good) /\ Numbered'
    BY <1>1, <2>1, EndKeeps
  <2>3. QED BY <1>1, <2>2, AnswerStep
<1>4. QED BY <1>2, <1>3

LEMMA RecreateStep ==
  ASSUME IInv, Recreate
  PROVE  IInv'
<1> DEFINE j == Running
           t == Reply.track
           f == j.frame
           at == j.at
           was == Reply.was
           rest == [j.boxes EXCEPT ![f] = None]
           more == rest # NoBoxes
           next == [Blank("refill") EXCEPT !.n = j.n, !.page = j.page, !.track = t, !.boxes = rest]
<1>1. Answered({"recreate"}, TRUE) /\ flight.answer.ok
  BY DEF Recreate, Answered, Reply
<1>2. /\ remap' = [remap EXCEPT ![j.track] = t]
      /\ labels' = Cleared(Put([labels EXCEPT !.track[t] = was], t, f, Drawn(at)), f)
      /\ GoesOn(next, more) /\ selected' = selected
  BY DEF Recreate
<1>3. /\ j \in Job /\ t \in Tracks \union {None} /\ was \in TrackOrNone /\ at \in Rects
      /\ f \in Frames
  <2>1. /\ j \in Job /\ j.kind \in {"recreate"} /\ t \in Tracks \union {None}
        /\ was \in TrackOrNone
        /\ j.kind \in {"recreate", "refill"} => at \in Rects /\ f \in Frames
    BY <1>1, AnswerShape
  <2>2. QED BY <2>1
<1>4. Fits(page, labels')
  <2> HIDE DEF t, f, at, was
  <2>1. QED BY <1>2, <1>3, OnScreen, AddedFits
<1>5. remap' \in [Tracks -> Tracks \union {None}]
  <2> HIDE DEF t, j
  <2>1. QED BY <1>2, <1>3, OnScreen
<1>6. more => next \in Good /\ next.n = j.n
  <2>1. rest \in [Frames -> BoxOrNone] /\ j.n \in Nat /\ j.page \in Pages \union {None}
    BY <1>3, JobShape, Bits
  <2> DEFINE n == j.n
             p == j.page
             k == [Blank("refill") EXCEPT !.n = n, !.page = p, !.track = t, !.boxes = rest]
  <2>2. Blank("refill") \in Job /\ Blank("refill").kind = "refill"
    BY BlankType DEF Undos, Blank
  <2> HIDE DEF t, rest, n, p
  <2>3. k \in Job
    <3> DEFINE i == [Blank("refill") EXCEPT !.n = n, !.page = p]
    <3>1. n \in Nat /\ p \in Pages \union {None}
      BY <2>1 DEF n, p
    <3>2. i \in Job
      BY <2>2, <3>1 DEF Job
    <3>3. k = [i EXCEPT !.track = t, !.boxes = rest]
      OBVIOUS
    <3> HIDE DEF i, k
    <3>4. QED BY <1>3, <2>1, <3>2, <3>3 DEF Job
  <2>4. k.kind = "refill" /\ k.boxes = rest /\ k.n = n
    BY <2>2 DEF Job
  <2> HIDE DEF k
  <2>5. more => k \in Good /\ k.n = n
    BY <2>3, <2>4 DEF Good, JobOK
  <2>6. QED BY <2>5 DEF k, n, p
<1>7. more \in BOOLEAN
  OBVIOUS
<1> HIDE DEF next, more
<1>8. QED BY <1>1, <1>2, <1>4, <1>5, <1>6, <1>7, OnScreen, GoesOnStep

LEMMA RefillStep ==
  ASSUME IInv, Refill
  PROVE  IInv'
<1> DEFINE j == Running
           t == j.track
           f == j.frame
           at == j.at
           rest == [j.boxes EXCEPT ![f] = None]
           more == rest # NoBoxes
           next == [j EXCEPT !.boxes = rest]
<1>1. Answered({"refill"}, TRUE)
  BY DEF Refill
<1>2. /\ remap' = remap
      /\ labels' = Cleared(Put(labels, t, f, Drawn(at)), f)
      /\ GoesOn(next, more) /\ selected' = selected
  BY DEF Refill
<1>3. j \in Job /\ at \in Rects /\ f \in Frames /\ JobOK(j) /\ j.kind = "refill"
  <2>1. /\ j \in Job /\ j.kind \in {"refill"} /\ JobOK(j)
        /\ j.kind \in {"recreate", "refill"} => at \in Rects /\ f \in Frames
    BY <1>1, AnswerShape
  <2>2. QED BY <2>1
<1>4. Fits(page, labels')
  <2> HIDE DEF t, f, at
  <2>1. QED BY <1>2, <1>3, OnScreen, MovedFits
<1>5. more => next \in Good /\ next.n = j.n
  <2>1. rest \in [Frames -> BoxOrNone]
    BY <1>3, JobShape, Bits
  <2> DEFINE i == j
  <2> HIDE DEF rest, i
  <2>2. i \in Job /\ i.kind = "refill"
    BY <1>3 DEF i
  <2> DEFINE k == [i EXCEPT !.boxes = rest]
  <2>3. k \in Job /\ k.kind = "refill" /\ k.boxes = rest /\ k.n = i.n
    BY <2>1, <2>2 DEF Job
  <2> HIDE DEF k
  <2>4. more => k \in Good /\ k.n = i.n
    BY <2>3 DEF Good, JobOK
  <2>5. QED BY <2>4 DEF k, i
<1>6. more \in BOOLEAN
  OBVIOUS
<1> HIDE DEF next, more
<1>7. QED BY <1>1, <1>2, <1>4, <1>5, <1>6, OnScreen, GoesOnStep

LEMMA UncopyStep ==
  ASSUME IInv, Uncopy
  PROVE  IInv'
<1> DEFINE j == Running
           rest == j.tracks \ {Least(j.tracks)}
           more == rest # {}
           next == [j EXCEPT !.tracks = rest]
<1>1. /\ Answered({"uncopy"}, TRUE) /\ TakesAway(j.track, j.frame) /\ GoesOn(next, more)
      /\ remap' = remap
  BY DEF Uncopy
<1>2. j \in Job /\ j.kind = "uncopy"
  <2>1. j \in Job /\ j.kind \in {"uncopy"}
    BY <1>1, AnswerShape
  <2>2. QED BY <2>1
<1>3. more => next \in Good /\ next.n = j.n
  <2>1. rest \in SUBSET Tracks
    BY <1>2, JobShape
  <2> DEFINE i == j
  <2> HIDE DEF rest, i
  <2>2. i \in Job /\ i.kind = "uncopy"
    BY <1>2 DEF i
  <2> DEFINE k == [i EXCEPT !.tracks = rest]
  <2>3. k \in Job /\ k.kind = "uncopy" /\ k.tracks = rest /\ k.n = i.n
    BY <2>1, <2>2 DEF Job
  <2> HIDE DEF k
  <2>4. more => k \in Good /\ k.n = i.n
    BY <2>3 DEF Good, JobOK
  <2>5. QED BY <2>4 DEF k, i
<1>4. Fits(page, labels') /\ selected' \in Tracks \union {None}
  BY <1>1, TakesAwayFits
<1>5. more \in BOOLEAN
  OBVIOUS
<1> HIDE DEF next, more
<1>6. QED BY <1>1, <1>3, <1>4, <1>5, OnScreen, GoesOnStep

(***************************************************************************)
(* The page.                                                                *)
(***************************************************************************)
LEMMA PageShape ==
  ASSUME IInv
  PROVE  /\ PerClip(cache) /\ PerClip(reply) /\ Fits(page, labels)
         /\ cache \in [Clips -> View] /\ reply \in [Clips -> View]
         /\ kept \subseteq Clips /\ asked \subseteq Clips
         /\ \A c \in Clips \ asked : reply[c] = NoView
         /\ coming \in Clips \union {None} /\ page \in Pages \union {None}
         /\ selected \in Tracks \union {None} /\ undoStack \in Seq(Good)
         /\ backend \in {"api", "local"} /\ remap \in [Tracks -> Tracks \union {None}]
         /\ opened \in View /\ upset \subseteq Upsets
         /\ loads \in 0..MaxLoads /\ local \in Rows /\ api \in Rows
BY DEF IInv, TypeOK, Pending, Screens, Upsets

(* What the page does leaves the queue alone. *)
LEMMA PageStep ==
  ASSUME IInv, UNCHANGED <<api, queue, flight, made, undos, served, faults>>,
         local' \in Rows, page' \in Pages \union {None}, Fits(page', labels'),
         selected' \in Tracks \union {None}, undoStack' \in Seq(Good),
         backend' \in {"api", "local"}, remap' \in [Tracks -> Tracks \union {None}],
         PerClip(cache'), PerClip(reply'), kept' \subseteq Clips, asked' \subseteq Clips,
         \A c \in Clips \ asked' : reply'[c] = NoView, coming' \in Clips \union {None},
         opened' \in View, upset' \subseteq Upsets, loads' \in 0..MaxLoads
  PROVE  IInv'
<1>1. undoStack' \in Seq(Job)
  <2>1. Good \subseteq Job
    BY DEF Good
  <2>2. QED BY <2>1, SeqMonotonic
<1>2. labels' \in View /\ cache' \in [Clips -> View] /\ reply' \in [Clips -> View]
  BY DEF Fits, PerClip
<1>3. TypeOK'
  BY <1>1, <1>2 DEF IInv, TypeOK, Upsets
<1>4. Screens'
  BY DEF Screens, PerClip, Fits
<1>5. Pending' /\ InFlight' /\ Numbered' /\ Sound(api)'
  BY DEF IInv, Pending, InFlight, Running, Numbered, Sound, InClip, Unused
<1>6. QED BY <1>3, <1>4, <1>5 DEF IInv

LEMMA LoadType ==
  ASSUME IInv, NEW p \in Pages, NEW view, Fits(p, view), Load(p, view)
  PROVE  /\ page' \in Pages \union {None} /\ Fits(page', labels')
         /\ selected' \in Tracks \union {None} /\ undoStack' \in Seq(Good)
         /\ backend' \in {"api", "local"} /\ remap' \in [Tracks -> Tracks \union {None}]
         /\ coming' \in Clips \union {None} /\ opened' \in View /\ upset' \subseteq Upsets
<1>1. page' = p /\ labels' = view /\ opened' = view /\ selected' = None /\ coming' = None
  BY DEF Load
<1>2. undoStack' \in Seq(Good)
  BY DEF Load
<1>3. backend' \in {"api", "local"}
  BY DEF Load, BackendFor
<1>4. remap' \in [Tracks -> Tracks \union {None}]
  BY DEF Load, Nothing
<1>5. upset' \subseteq Upsets
  BY DEF Load, Upsets
<1>6. view \in View
  BY DEF Fits
<1>7. QED BY <1>1, <1>2, <1>3, <1>4, <1>5, <1>6

LEMMA LoadClipType ==
  ASSUME IInv, NEW c \in Clips, NEW view, Fits(c, view), NEW cached, PerClip(cached),
         NEW waiting, waiting \subseteq Clips, LoadClip(c, view, cached, waiting)
  PROVE  /\ page' \in Pages \union {None} /\ Fits(page', labels')
         /\ selected' \in Tracks \union {None} /\ undoStack' \in Seq(Good)
         /\ backend' \in {"api", "local"} /\ remap' \in [Tracks -> Tracks \union {None}]
         /\ coming' \in Clips \union {None} /\ opened' \in View /\ upset' \subseteq Upsets
         /\ PerClip(cache') /\ kept' \subseteq Clips /\ asked' \subseteq Clips
         /\ waiting \subseteq asked'
<1>1. c \in Pages /\ Load(c, view)
  BY DEF Pages, LoadClip
<1>2. cache' = cached
  BY DEF LoadClip
<1>3. PICK fresh \in SUBSET {d \in Clips : cached[d] # NoView} : Prefetch(c, fresh, waiting)
  BY DEF LoadClip
<1>4. kept' \subseteq Clips /\ asked' \subseteq Clips /\ waiting \subseteq asked'
  BY <1>3, PageShape DEF Prefetch
<1>5. QED BY <1>1, <1>2, <1>4, LoadType

(* Leaving the page drops labels and cancels a request. *)
LEMMA LeaveType ==
  ASSUME IInv
  PROVE  /\ PerClip(Leave(cache)) /\ PerClip(Unread) /\ Unanswered \subseteq Clips
         /\ \A c \in Clips \ Unanswered : Unread[c] = NoView
<1>1. NoView \in View
  BY EmptyViews
<1>2. PerClip(Leave(cache))
  BY <1>1, PageShape DEF PerClip, Leave
<1>3. PerClip(Unread)
  BY <1>1, PageShape DEF PerClip, Unread
<1>4. Unanswered \subseteq Clips /\ \A c \in Clips \ Unanswered : Unread[c] = NoView
  BY PageShape DEF Unanswered, Unread
<1>5. QED BY <1>2, <1>3, <1>4

LEMMA OpenStep ==
  ASSUME IInv, NEW c \in Clips, Open(c)
  PROVE  IInv'
<1> DEFINE left == Leave(cache)
<1>1. /\ loads' = loads + 1 /\ loads < MaxLoads /\ reply' = Unread
      /\ UNCHANGED <<api, local, queue, flight, counted, served, faults>>
      /\ IF left[c] # NoView THEN LoadClip(c, left[c], left, Unanswered)
         ELSE /\ coming' = c /\ cache' = left /\ asked' = Unanswered \union {c}
              /\ UNCHANGED <<storeVars, remap, kept, opened, upset>>
  BY DEF Open, MayLoad
<1>2. PerClip(left) /\ PerClip(reply') /\ Unanswered \subseteq Clips
      /\ \A d \in Clips \ Unanswered : reply'[d] = NoView
  BY <1>1, LeaveType
<1>3. loads' \in 0..MaxLoads /\ local' \in Rows
  BY <1>1, PageShape, BoundsAssumption
<1>4. UNCHANGED <<api, queue, flight, made, undos, served, faults>>
  BY <1>1 DEF counted
<1> HIDE DEF left
<1>5. CASE left[c] # NoView
  <2> DEFINE view == left[c]
  <2>1. Fits(c, view) /\ LoadClip(c, view, left, Unanswered)
    BY <1>1, <1>2, <1>5 DEF PerClip
  <2> HIDE DEF view
  <2>2. /\ page' \in Pages \union {None} /\ Fits(page', labels')
        /\ selected' \in Tracks \union {None} /\ undoStack' \in Seq(Good)
        /\ backend' \in {"api", "local"} /\ remap' \in [Tracks -> Tracks \union {None}]
        /\ coming' \in Clips \union {None} /\ opened' \in View /\ upset' \subseteq Upsets
        /\ PerClip(cache') /\ kept' \subseteq Clips /\ asked' \subseteq Clips
        /\ Unanswered \subseteq asked'
    BY <1>2, <2>1, LoadClipType
  <2>3. QED BY <1>2, <1>3, <1>4, <2>2, PageStep
<1>6. CASE left[c] = NoView
  <2>1. /\ coming' = c /\ cache' = left /\ asked' = Unanswered \union {c}
        /\ UNCHANGED <<page, labels, selected, undoStack, backend, remap, kept, opened, upset>>
    BY <1>1, <1>6 DEF storeVars
  <2>2. asked' \subseteq Clips /\ \A d \in Clips \ asked' : reply'[d] = NoView
    BY <1>2, <2>1
  <2>3. Fits(page', labels')
    BY <2>1, PageShape
  <2>4. QED BY <1>2, <1>3, <1>4, <2>1, <2>2, <2>3, PageShape, PageStep
<1>7. QED BY <1>5, <1>6

LEMMA ReadStep ==
  ASSUME IInv, NEW c \in Clips, Read(c)
  PROVE  IInv'
<1> DEFINE view == Of(api, c)
<1>1. /\ c \in asked /\ reply' = [reply EXCEPT ![c] = view]
      /\ UNCHANGED <<api, local, page, labels, selected, undoStack, backend, queue, remap, flight,
                     cache, kept, asked, coming, made, undos, served, opened, upset, loads, faults>>
  BY DEF Read, storeVars, queueVars, counted, ghostVars
<1>2. Fits(c, view) /\ view \in View
  BY PageShape, OfFits DEF Fits
<1> HIDE DEF view
<1>3. PerClip(reply')
  BY <1>1, <1>2, PageShape DEF PerClip
<1>4. \A d \in Clips \ asked' : reply'[d] = NoView
  BY <1>1, PageShape
<1>5. PerClip(cache') /\ Fits(page', labels')
  BY <1>1, PageShape
<1>6. QED BY <1>1, <1>3, <1>4, <1>5, PageShape, PageStep

LEMMA ArriveStep ==
  ASSUME IInv, NEW c \in Clips, Arrive(c)
  PROVE  IInv'
<1> DEFINE view == reply[c]
           cached == [cache EXCEPT ![c] = view]
           waiting == asked \ {c}
<1>1. /\ view # NoView /\ reply' = [reply EXCEPT ![c] = NoView]
      /\ UNCHANGED <<api, local, queue, flight, counted, served, loads, faults>>
      /\ IF c = Watched THEN LoadClip(c, view, cached, waiting)
         ELSE /\ cache' = cached /\ asked' = waiting
              /\ UNCHANGED <<storeVars, remap, kept, coming, opened, upset>>
  BY DEF Arrive
<1>2. view \in View /\ Fits(c, view)
  BY <1>1, PageShape DEF PerClip
<1> HIDE DEF view
<1>3. PerClip(cached) /\ waiting \subseteq Clips
  BY <1>2, PageShape DEF PerClip
<1>4. PerClip(reply') /\ \A d \in Clips \ waiting : reply'[d] = NoView
  <2>1. PerClip(reply')
    BY <1>1, PageShape, EmptyViews DEF PerClip
  <2>2. \A d \in Clips \ waiting : reply'[d] = NoView
    BY <1>1, PageShape
  <2>3. QED BY <2>1, <2>2
<1>5. UNCHANGED <<api, local, queue, flight, made, undos, served, loads, faults>>
  BY <1>1 DEF counted
<1> HIDE DEF cached, waiting
<1>6. CASE c = Watched
  <2>1. /\ page' \in Pages \union {None} /\ Fits(page', labels')
        /\ selected' \in Tracks \union {None} /\ undoStack' \in Seq(Good)
        /\ backend' \in {"api", "local"} /\ remap' \in [Tracks -> Tracks \union {None}]
        /\ coming' \in Clips \union {None} /\ opened' \in View /\ upset' \subseteq Upsets
        /\ PerClip(cache') /\ kept' \subseteq Clips /\ asked' \subseteq Clips
        /\ waiting \subseteq asked'
    BY <1>1, <1>2, <1>3, <1>6, LoadClipType
  <2>2. QED BY <1>4, <1>5, <2>1, PageShape, PageStep
<1>7. CASE c # Watched
  <2>1. /\ cache' = cached /\ asked' = waiting
        /\ UNCHANGED <<page, labels, selected, undoStack, backend, remap, kept, coming, opened, upset>>
    BY <1>1, <1>7 DEF storeVars
  <2>2. Fits(page', labels') /\ PerClip(cache')
    BY <1>3, <2>1, PageShape
  <2>3. QED BY <1>3, <1>4, <1>5, <2>1, <2>2, PageShape, PageStep
<1>8. QED BY <1>6, <1>7

LEMMA NoRowsType == NoRows \in Rows
<1>1. [t \in Tracks |-> NoBoxes] \in [Tracks -> [Frames -> BoxOrNone]]
  BY Bits
<1>2. [f \in Frames |-> "unlabeled"] \in [Frames -> Statuses]
  BY DEF Statuses
<1>3. 1 \in 1..(MaxTracks + 1)
  BY MaxTracksAssumption
<1>4. QED BY <1>1, <1>2, <1>3, Bits DEF NoRows, Rows

LEMMA OpenGoldStep ==
  ASSUME IInv, OpenGold
  PROVE  IInv'
<1>1. /\ loads' = loads + 1 /\ loads < MaxLoads /\ Load(Gold, GoldView) /\ local' = NoRows
      /\ cache' = Leave(cache) /\ asked' = Unanswered /\ reply' = Unread
      /\ UNCHANGED <<api, queue, flight, kept, made, undos, served, faults>>
  BY DEF OpenGold, MayLoad, counted
<1>2. /\ page' \in Pages \union {None} /\ Fits(page', labels')
      /\ selected' \in Tracks \union {None} /\ undoStack' \in Seq(Good)
      /\ backend' \in {"api", "local"} /\ remap' \in [Tracks -> Tracks \union {None}]
      /\ coming' \in Clips \union {None} /\ opened' \in View /\ upset' \subseteq Upsets
  <2>1. Gold \in Pages /\ Fits(Gold, GoldView)
    BY EmptyViews DEF Pages
  <2>2. QED BY <1>1, <2>1, LoadType
<1>3. /\ PerClip(cache') /\ PerClip(reply') /\ asked' \subseteq Clips
      /\ \A c \in Clips \ asked' : reply'[c] = NoView
  BY <1>1, LeaveType
<1>4. loads' \in 0..MaxLoads /\ local' \in Rows
  BY <1>1, PageShape, BoundsAssumption, NoRowsType
<1>5. QED BY <1>1, <1>2, <1>3, <1>4, PageShape, PageStep

LEMMA EvictStep ==
  ASSUME IInv, NEW c \in Clips, Evict(c)
  PROVE  IInv'
<1>1. /\ cache' = [cache EXCEPT ![c] = NoView] /\ kept' = kept \ {c}
      /\ UNCHANGED <<api, local, page, labels, selected, undoStack, backend, queue, remap, flight,
                     asked, reply, coming, made, undos, served, opened, upset, loads, faults>>
  BY DEF Evict, storeVars, queueVars, counted, ghostVars
<1>2. PerClip(cache')
  BY <1>1, PageShape, EmptyViews DEF PerClip
<1>3. PerClip(reply') /\ Fits(page', labels')
  BY <1>1, PageShape
<1>4. QED BY <1>1, <1>2, <1>3, PageShape, PageStep

(***************************************************************************)
(* The invariant and the theorems.                                          *)
(***************************************************************************)
LEMMA InitInv == Init => IInv
<1> SUFFICES ASSUME Init PROVE IInv
  OBVIOUS
<1> USE DEF Init
<1>1. api \in Rows /\ Sound(api)
  BY FirstRowsAssumption DEF Sound
<1>2. PerClip(cache) /\ PerClip(reply)
  BY EmptyViews DEF PerClip
<1>3. Fits(page, labels)
  BY EmptyViews
<1>4. Idle \in Flight
  BY Bits DEF Idle, Flight
<1>5. local \in Rows
  BY NoRowsType
<1>6. remap \in [Tracks -> Tracks \union {None}]
  BY DEF Nothing
<1>7. labels \in View /\ opened \in View /\ cache \in [Clips -> View] /\ reply \in [Clips -> View]
  BY EmptyViews
<1>8. TypeOK
  BY <1>1, <1>4, <1>5, <1>6, <1>7, BoundsAssumption DEF TypeOK
<1>9. Pending /\ InFlight /\ Numbered /\ Screens
  BY <1>2, <1>3 DEF Pending, InFlight, Idle, Numbered, Screens
<1>10. QED BY <1>1, <1>8, <1>9 DEF IInv

LEMMA EditKeeps ==
  ASSUME IInv, Edit
  PROVE  IInv'
<1>1. CASE \E t \in Tracks, f \in Frames, at \in Rects : MoveBox(t, f, at)
  BY <1>1, MoveBoxStep
<1>2. CASE \E f \in Frames, new \in Drawable : DrawBox(f, new[1], new[2])
  <2>1. PICK f \in Frames, new \in Drawable : DrawBox(f, new[1], new[2])
    BY <1>2
  <2>2. new[1] \in Rects /\ new[2] \in Types
    BY DrawableAssumption
  <2>3. QED BY <2>1, <2>2, DrawBoxStep
<1>3. CASE \E f \in Frames : DeleteSelected(f)
  BY <1>3, DeleteSelectedStep
<1>4. CASE \E t \in Tracks : DeleteWhole(t)
  BY <1>4, DeleteWholeStep
<1>5. CASE \E t \in Tracks, type \in Types : Retype(t, type)
  BY <1>5, RetypeStep
<1>6. CASE \E f, g \in Frames : CopyForward(f, g)
  BY <1>6, CopyForwardStep
<1>7. CASE \E f \in Frames, status \in Statuses : Mark(f, status)
  BY <1>7, MarkStep
<1>8. CASE Undo
  BY <1>8, UndoStep
<1>9. QED BY <1>1, <1>2, <1>3, <1>4, <1>5, <1>6, <1>7, <1>8 DEF Edit

LEMMA AnswersKeep ==
  ASSUME IInv, Answers
  PROVE  IInv'
<1>1. CASE SavedDraw \/ SavedMove \/ SavedDeleteBox \/ SavedDeleteTrack
  BY <1>1, SavedDrawStep, SavedMoveStep, SavedDeleteBoxStep, SavedDeleteTrackStep
<1>2. CASE SavedUpdate \/ SavedCopy \/ SavedMark
  BY <1>2, SavedUpdateStep, SavedCopyStep, SavedMarkStep
<1>3. CASE FailedMove \/ FailedMark \/ FailedOther
  BY <1>3, FailedMoveStep, FailedMarkStep, FailedOtherStep
<1>4. CASE Undraw \/ PutBack \/ RemoveBox \/ Rename \/ Unmark
  BY <1>4, UndrawStep, PutBackStep, RemoveBoxStep, RenameStep, UnmarkStep
<1>5. CASE Recreate \/ Refill \/ Uncopy
  BY <1>5, RecreateStep, RefillStep, UncopyStep
<1>6. QED BY <1>1, <1>2, <1>3, <1>4, <1>5 DEF Answers

LEMMA StepInv == IInv /\ [Next]_vars => IInv'
<1> SUFFICES ASSUME IInv, [Next]_vars PROVE IInv'
  OBVIOUS
<1>1. CASE Edit
  BY <1>1, EditKeeps
<1>2. CASE \E t \in Tracks \union {None} : Select(t)
  BY <1>2, SelectStep
<1>3. CASE Send \/ Serve \/ LoseRequest \/ LoseAnswer
  BY <1>3, SendStep, ServeStep, LoseRequestStep, LoseAnswerStep
<1>4. CASE Answers
  BY <1>4, AnswersKeep
<1>5. CASE \E c \in Clips : Open(c) \/ Read(c) \/ Arrive(c) \/ Evict(c)
  BY <1>5, OpenStep, ReadStep, ArriveStep, EvictStep
<1>6. CASE OpenGold
  BY <1>6, OpenGoldStep
<1>7. CASE UNCHANGED vars
  <2>1. UNCHANGED <<api, local, page, labels, selected, undoStack, backend, queue, remap, flight,
                   cache, kept, asked, reply, coming, made, undos, served, opened, upset, loads,
                   faults>>
    BY <1>7 DEF vars, storeVars, queueVars, pageVars, counted, ghostVars
  <2>2. Fits(page', labels') /\ PerClip(cache') /\ PerClip(reply')
    BY <2>1, PageShape
  <2>3. QED BY <2>1, <2>2, PageShape, PageStep
<1>8. QED BY <1>1, <1>2, <1>3, <1>4, <1>5, <1>6, <1>7 DEF Next

LEMMA Invariant == Spec => []IInv
BY InitInv, StepInv, PTL DEF Spec

(* The store, its queue and the cache keep their type. *)
THEOREM TypeCorrect == Spec => []TypeOK
<1>1. IInv => TypeOK
  BY DEF IInv
<1>2. QED BY <1>1, Invariant, PTL

(* Every box the labelers' edits leave in the database is on a frame of its  *)
(* track's clip.                                                             *)
THEOREM BoxesStayInClip == Spec => []BoxesInClip
<1>1. IInv => BoxesInClip
  BY DEF IInv, Sound, BoxesInClip
<1>2. QED BY <1>1, Invariant, PTL

(* Only the API's answer to the running edit moves on what was served. *)
LEMMA ServedStep ==
  ASSUME IInv, [Next]_vars
  PROVE  served' # served => served' > served
<1>1. CASE Serve
  <2>1. served' >= served
    BY <1>1, ServeStep
  <2>2. served \in Nat /\ served' \in Nat
    <3>1. served' = Running.n /\ queue # <<>>
      BY <1>1, InTransit DEF Serve
    <3>2. QED BY <3>1, Queued, FlightShape
  <2>3. QED BY <2>1, <2>2
<1>2. CASE UNCHANGED vars
  BY <1>2 DEF vars, ghostVars
<1>3. CASE Edit
  <2>1. served' = served
    BY <1>3 DEF Edit, MoveBox, DrawBox, DeleteSelected, DeleteWhole, Retype, CopyForward, Mark, Undo
  <2>2. QED BY <2>1
<1>4. CASE Answers
  <2>1. served' = served
    BY <1>4 DEF Answers, SavedDraw, SavedMove, SavedDeleteBox, SavedDeleteTrack, SavedUpdate,
                SavedCopy, SavedMark, FailedMove, FailedMark, FailedOther, Undraw, PutBack,
                RemoveBox, Rename, Unmark, Recreate, Refill, Uncopy, Undone, Saved, Answered
  <2>2. QED BY <2>1
<1>5. CASE \/ \E t \in Tracks \union {None} : Select(t)
           \/ Send \/ LoseRequest \/ LoseAnswer
  <2>1. served' = served
    BY <1>5 DEF Select, Send, LoseRequest, LoseAnswer, ghostVars
  <2>2. QED BY <2>1
<1>6. CASE OpenGold \/ \E c \in Clips : Open(c) \/ Read(c) \/ Arrive(c) \/ Evict(c)
  <2>1. served' = served
    BY <1>6 DEF OpenGold, Open, Read, Arrive, Evict, ghostVars
  <2>2. QED BY <2>1
<1>7. QED BY <1>1, <1>2, <1>3, <1>4, <1>5, <1>6 DEF Next

(* Edits reach the API in the order they were made. *)
THEOREM EditsInOrder == Spec => InOrder
<1>1. IInv /\ [Next]_vars => [served' # served => served' > served]_served
  BY ServedStep
<1>2. QED BY <1>1, Invariant, PTL DEF Spec, InOrder

(***************************************************************************)
(* What is done in a gold check stays there, but for one case.              *)
(***************************************************************************)
DrawsGold(j) == j.kind = "draw" /\ j.clip = GoldId /\ j.frame = GoldFrame

(* An edit of a gold check that is not a new track on its frame.            *)
Gilded(j) == j.page = Gold /\ ~DrawsGold(j)

OnTheWay == flight.at # "idle" /\ flight.via = "api"
Bare == /\ labels.track = Nothing /\ labels.box = [t \in Tracks |-> NoBoxes]
        /\ selected = None /\ undoStack = <<>>

(* Requests go to the page's backend.  While one made on a clip is on its   *)
(* way to the API, a gold check has nothing on screen to edit, so all that   *)
(* can wait behind it is a new track; afterwards edits are answered at once, *)
(* before the labeler can leave.                                            *)
Apart ==
  /\ backend = BackendFor(page)
  /\ flight.at = "sent" => flight.via = "api"
  /\ \A i \in DOMAIN queue : Gilded(queue[i]) => backend = "local" /\ ~OnTheWay
  /\ page = Gold /\ OnTheWay => Bare

LEMMA InitApart == Init => Apart
<1> SUFFICES ASSUME Init PROVE Apart
  OBVIOUS
<1>1. DOMAIN queue = {} /\ ~OnTheWay /\ flight.at = "idle"
  BY EmptySeq DEF Init, OnTheWay, Idle
<1>2. backend = BackendFor(page)
  BY NoneAssumption DEF Init, BackendFor
<1>3. QED BY <1>1, <1>2 DEF Apart

(* A step that leaves the queue and what it depends on alone. *)
LEMMA ApartQuiet ==
  ASSUME Apart, UNCHANGED <<page, backend, queue, flight, labels, undoStack>>,
         Bare => selected' = selected
  PROVE  Apart'
<1>1. Bare => Bare'
  BY DEF Bare
<1>2. QED BY <1>1 DEF Apart, OnTheWay

LEMMA EnqueueApart ==
  ASSUME IInv, IInv', Apart, NEW job, Enqueue(job), UNCHANGED <<page, backend, flight>>,
         page = Gold /\ OnTheWay =>
           DrawsGold(job) /\ UNCHANGED <<labels, selected, undoStack>>
  PROVE  Apart'
<1> DEFINE new == Placed(job)
           S == Good \union {new}
<1>1. queue \in Seq(S) /\ new \in S /\ queue' = Append(queue, new)
  <2>1. queue \in Seq(Good) /\ Good \subseteq S
    BY DEF IInv, Pending
  <2>2. QED BY <2>1, SeqMonotonic DEF Enqueue
<1> HIDE DEF S
<1>2. /\ Len(queue) \in Nat /\ DOMAIN queue = 1..Len(queue)
      /\ DOMAIN queue' = 1..(Len(queue) + 1)
      /\ \A i \in 1..Len(queue) : queue'[i] = queue[i]
      /\ queue'[Len(queue) + 1] = new
  <2> HIDE DEF new
  <2>1. QED BY <1>1, AppendProperties, LenProperties
<1>3. new.page = page /\ new.kind = job.kind /\ new.clip = job.clip /\ new.frame = job.frame
  <2>1. new \in Job
    <3>1. queue' \in Seq(Good)
      BY DEF IInv, Pending
    <3>2. queue'[Len(queue) + 1] \in Good
      BY <1>2, <3>1, ElementOfSeq
    <3>3. QED BY <1>2, <3>2 DEF Good
  <2>2. DOMAIN new = DOMAIN job
    BY DEF Placed
  <2>3. {"page", "kind", "clip", "frame"} \subseteq DOMAIN new
    <3> HIDE DEF new
    <3>1. QED BY <2>1 DEF Job
  <2>4. QED BY <2>2, <2>3 DEF Placed
<1> HIDE DEF new
<1>4. Gilded(new) => backend = "local" /\ ~OnTheWay
  BY <1>3 DEF Gilded, DrawsGold, Apart, BackendFor
<1>5. \A i \in DOMAIN queue' : Gilded(queue'[i]) => backend = "local" /\ ~OnTheWay
  <2>1. \A i \in DOMAIN queue' : queue'[i] = new \/ (i \in DOMAIN queue /\ queue'[i] = queue[i])
    BY <1>2
  <2>2. QED BY <1>4, <2>1 DEF Apart
<1>6. page = Gold /\ OnTheWay => Bare'
  BY DEF Apart, Bare
<1>7. QED BY <1>5, <1>6 DEF Apart, OnTheWay

LEMMA NoGoldClip == Gold \notin Clips /\ None \notin Clips /\ Gold # None
BY NoneAssumption

(* With nothing on screen the labeler can only draw. *)
LEMMA OnlyDraws ==
  ASSUME IInv, Bare, page = Gold, Edit
  PROVE  \E job : /\ Enqueue(job) /\ DrawsGold(job)
                  /\ UNCHANGED <<labels, selected, undoStack>>
<1>1. /\ \A t \in Tracks, f \in Frames : ~Shown(t, f)
      /\ \A t \in Tracks : labels.track[t] = None
  BY DEF Bare, Shown, Nothing, NoBoxes
<1>2. ~\E t \in Tracks, f \in Frames, at \in Rects : MoveBox(t, f, at)
  BY <1>1 DEF MoveBox
<1>3. ~(\E t \in Tracks : DeleteWhole(t)) /\ ~(\E t \in Tracks, type \in Types : Retype(t, type))
  <2>1. \A t \in Tracks : labels.track[Resolve(t)] = None
    BY <1>1, ResolveType
  <2>2. QED BY <2>1 DEF DeleteWhole, Retype
<1>4. /\ ~\E f \in Frames : DeleteSelected(f)
      /\ ~\E f, g \in Frames : CopyForward(f, g)
      /\ ~\E f \in Frames, status \in Statuses : Mark(f, status)
      /\ ~Undo
  BY NoGoldClip DEF Bare, DeleteSelected, CopyForward, Mark, Undo
<1>5. PICK f \in Frames, new \in Drawable : DrawBox(f, new[1], new[2])
  BY <1>2, <1>3, <1>4 DEF Edit
<1> DEFINE job == [Blank("draw") EXCEPT !.clip = IdOf(page), !.frame = f, !.at = new[1], !.type = new[2]]
<1>6. Enqueue(job) /\ UNCHANGED <<labels, selected, undoStack>>
  BY <1>5 DEF DrawBox, Bare
<1>7. f = GoldFrame
  BY <1>5 DEF DrawBox, FramesOf
<1>8. DrawsGold(job)
  BY <1>7 DEF DrawsGold, Blank, IdOf
<1> HIDE DEF job
<1>9. QED BY <1>6, <1>8

LEMMA EditApart ==
  ASSUME IInv, IInv', Apart, Edit
  PROVE  Apart'
<1>1. UNCHANGED <<page, backend, flight>>
  BY DEF Edit, MoveBox, DrawBox, DeleteSelected, DeleteWhole, Retype, CopyForward, Mark, Undo,
         storeVars
<1>2. CASE page = Gold /\ OnTheWay
  BY <1>1, <1>2, OnlyDraws, EnqueueApart DEF Apart
<1>3. CASE ~(page = Gold /\ OnTheWay)
  <2>1. \E job : Enqueue(job)
    BY DEF Edit, MoveBox, DrawBox, Move, DeleteSelected, DeleteWhole, Retype, CopyForward, Mark, Undo
  <2>2. QED BY <1>1, <1>3, <2>1, EnqueueApart
<1>4. QED BY <1>2, <1>3

(* Whoever waits behind the running edit was there before. *)
LEMMA TailWaits ==
  ASSUME IInv, queue # <<>>
  PROVE  /\ Len(Tail(queue)) = Len(queue) - 1 /\ Len(queue) \in Nat \ {0}
         /\ DOMAIN Tail(queue) = 1..(Len(queue) - 1) /\ DOMAIN queue = 1..Len(queue)
         /\ \A i \in 1..(Len(queue) - 1) : Tail(queue)[i] = queue[i + 1]
<1>1. queue \in Seq(Good)
  BY DEF IInv, Pending
<1>2. /\ Tail(queue) \in Seq(Good) /\ Len(Tail(queue)) = Len(queue) - 1
      /\ \A i \in 1..Len(Tail(queue)) : Tail(queue)[i] = queue[i + 1]
  BY <1>1, HeadTailProperties
<1>3. Len(queue) \in Nat \ {0} /\ DOMAIN queue = 1..Len(queue)
  BY <1>1, Queued
<1>4. QED BY <1>2, <1>3, LenProperties

LEMMA NoneGildedInTail ==
  ASSUME IInv, queue # <<>>, NEW i \in DOMAIN Tail(queue), Gilded(Tail(queue)[i])
  PROVE  \E k \in DOMAIN queue : Gilded(queue[k])
BY TailWaits

LEMMA NoneGildedAhead ==
  ASSUME IInv, queue # <<>>, NEW j, Gilded(j) => Gilded(Running),
         NEW i \in DOMAIN (<<j>> \o Tail(queue)), Gilded((<<j>> \o Tail(queue))[i])
  PROVE  \E k \in DOMAIN queue : Gilded(queue[k])
<1> DEFINE S == Good \union {j}
           rest == Tail(queue)
           now == <<j>> \o rest
           m == Len(queue)
<1>1. rest \in Seq(S) /\ <<j>> \in Seq(S) /\ Len(<<j>>) = 1 /\ <<j>>[1] = j
  <2>1. rest \in Seq(Good) /\ Good \subseteq S /\ j \in S
    BY HeadTailProperties DEF IInv, Pending
  <2>2. rest \in Seq(S)
    BY <2>1, SeqMonotonic
  <2> HIDE DEF S
  <2>3. QED BY <2>1, <2>2
<1> HIDE DEF S
<1>2. m \in Nat \ {0} /\ DOMAIN queue = 1..m /\ Len(rest) = m - 1
      /\ \A k \in 1..(m - 1) : rest[k] = queue[k + 1]
  BY TailWaits
<1> HIDE DEF rest, m
<1>3. /\ now \in Seq(S) /\ Len(now) = 1 + (m - 1)
      /\ \A k \in 1..(1 + (m - 1)) : now[k] = IF k <= 1 THEN <<j>>[k] ELSE rest[k - 1]
  BY <1>1, <1>2, ConcatProperties
<1>4. DOMAIN now = 1..m /\ now[1] = j
  BY <1>1, <1>2, <1>3, LenProperties
<1>5. i \in 1..m /\ Gilded(now[i])
  BY <1>4 DEF rest
<1>6. CASE i = 1
  <2>1. Gilded(Running) /\ 1 \in DOMAIN queue
    BY <1>2, <1>4, <1>5, <1>6
  <2>2. QED BY <2>1 DEF Running
<1>7. CASE i # 1
  <2>1. i - 1 \in 1..(m - 1) /\ ~(i <= 1) /\ i \in 1..(1 + (m - 1)) /\ (i - 1) + 1 = i
    BY <1>2, <1>5, <1>7
  <2>2. now[i] = queue[i]
    BY <1>2, <1>3, <2>1
  <2>3. QED BY <1>2, <1>5, <2>2
<1>8. QED BY <1>6, <1>7

(* The queue gets no edit of a gold check, and nothing goes on its way. *)
LEMMA QueueApart ==
  ASSUME Apart, UNCHANGED <<page, backend>>,
         \A i \in DOMAIN queue' : Gilded(queue'[i]) => \E k \in DOMAIN queue : Gilded(queue[k]),
         flight'.at = "sent" => flight'.via = "api",
         OnTheWay' => OnTheWay /\ UNCHANGED <<labels, selected, undoStack>>
  PROVE  Apart'
<1>1. page' = Gold /\ OnTheWay' => Bare'
  BY DEF Apart, Bare
<1>2. \A i \in DOMAIN queue' : Gilded(queue'[i]) => backend' = "local" /\ ~OnTheWay'
  BY DEF Apart
<1>3. QED BY <1>1, <1>2 DEF Apart, BackendFor

LEMMA StartedWhere ==
  ASSUME NEW j \in Job
  PROVE  Gilded(Started(j)) => Gilded(j)
<1>1. /\ Started(j).kind = j.kind /\ Started(j).page = j.page /\ Started(j).clip = j.clip
      /\ j.kind = "draw" => Started(j) = j
  BY DEF Started, Job
<1>2. QED BY <1>1 DEF Gilded, DrawsGold

LEMMA SendApart ==
  ASSUME IInv, Apart, Send
  PROVE  Apart'
<1> DEFINE j == Started(Running)
           over == j.kind = "recreate" /\ j.boxes = NoBoxes
<1>1. /\ queue # <<>> /\ flight.at = "idle"
      /\ UNCHANGED <<page, labels, selected, undoStack, backend>>
  BY DEF Send, storeVars
<1>2. Gilded(j) => Gilded(Running)
  BY <1>1, Queued, StartedWhere DEF Good
<1>3. queue' = Tail(queue) \/ queue' = <<j>> \o Tail(queue)
  BY DEF Send
<1>4. \A i \in DOMAIN queue' : Gilded(queue'[i]) => \E k \in DOMAIN queue : Gilded(queue[k])
  <2> HIDE DEF j
  <2>1. QED BY <1>1, <1>2, <1>3, NoneGildedInTail, NoneGildedAhead
<1>5. CASE backend = "api"
  <2>1. page' # Gold
    BY <1>1, <1>5 DEF Apart, BackendFor
  <2>2. \A i \in DOMAIN queue' : ~Gilded(queue'[i])
    BY <1>4, <1>5 DEF Apart
  <2>3. flight'.at = "sent" => flight'.via = "api"
    BY <1>1, <1>5 DEF Send, Idle
  <2>4. QED BY <1>1, <2>1, <2>2, <2>3 DEF Apart, BackendFor
<1>6. CASE backend # "api"
  <2>1. \/ flight' = flight
        \/ flight'.at = "answered" /\ flight'.via = "local"
    BY <1>6 DEF Send
  <2>2. ~OnTheWay' /\ flight'.at # "sent"
    BY <1>1, <2>1 DEF OnTheWay
  <2>3. QED BY <1>1, <1>4, <2>2, QueueApart
<1>7. QED BY <1>5, <1>6

(* On its way, a request is served or lost, and its answer may be lost too. *)
LEMMA TransitApart ==
  ASSUME IInv, Apart, Serve \/ LoseRequest \/ LoseAnswer
  PROVE  Apart'
<1>1. UNCHANGED <<page, labels, selected, undoStack, backend, queue>>
  BY DEF Serve, LoseRequest, LoseAnswer, storeVars
<1>2. flight'.at = "answered" /\ flight'.via = flight.via /\ flight.at # "idle"
  BY FlightShape DEF Serve, LoseRequest, LoseAnswer, Flight
<1>3. OnTheWay' => OnTheWay
  BY <1>2 DEF OnTheWay
<1>4. QED BY <1>1, <1>2, <1>3, QueueApart

(* An edit that ended, or what is left of it. *)
LEMMA AnswersEnd ==
  ASSUME IInv, Answers
  PROVE  /\ queue # <<>> /\ flight' = Idle /\ UNCHANGED <<api, page, backend>>
         /\ \/ queue' = Tail(queue)
            \/ \E j : queue' = <<j>> \o Tail(queue) /\ (Gilded(j) => Gilded(Running))
<1>1. PICK kinds, ok : Answered(kinds, ok)
  BY DEF Answers, SavedDraw, SavedMove, SavedDeleteBox, SavedDeleteTrack, SavedUpdate, SavedCopy,
         SavedMark, FailedMove, FailedMark, FailedOther, Undraw, PutBack, RemoveBox, Rename, Unmark,
         Recreate, Refill, Uncopy, Undone, Saved
<1>2. queue # <<>> /\ flight' = Idle /\ UNCHANGED <<api, page, backend>>
  BY <1>1 DEF Answered
<1>3. CASE ~(Recreate \/ Refill \/ Uncopy)
  <2>1. Ends
    BY <1>3 DEF Answers, SavedDraw, SavedMove, SavedDeleteBox, SavedDeleteTrack, SavedUpdate,
                SavedCopy, SavedMark, FailedMove, FailedMark, FailedOther, Undraw, PutBack,
                RemoveBox, Rename, Unmark, Undone, Saved
  <2>2. QED BY <1>2, <2>1 DEF Ends
<1> DEFINE boxes == [Running.boxes EXCEPT ![Running.frame] = None]
           left == Running.tracks \ {Least(Running.tracks)}
           new == [Blank("refill") EXCEPT !.n = Running.n, !.page = Running.page,
                                          !.track = Reply.track, !.boxes = boxes]
<1>4. Running \in Job
  BY <1>2, Queued DEF Good
<1>5. CASE Recreate
  <2>1. Running.kind = "recreate"
    BY <1>5 DEF Recreate, Answered
  <2>2. new.page = Running.page
    BY DEF Blank
  <2>3. Gilded(new) => Gilded(Running)
    BY <2>1, <2>2 DEF Gilded, DrawsGold
  <2>4. \E more : GoesOn(new, more)
    BY <1>5 DEF Recreate
  <2> HIDE DEF new
  <2>5. QED BY <1>2, <2>3, <2>4 DEF GoesOn
<1>6. CASE Refill
  <2> DEFINE next == [Running EXCEPT !.boxes = boxes]
  <2>1. Gilded(next) => Gilded(Running)
    <3> HIDE DEF boxes
    <3>1. QED BY <1>4 DEF Gilded, DrawsGold, Job
  <2>2. \E more : GoesOn(next, more)
    BY <1>6 DEF Refill
  <2> HIDE DEF next
  <2>3. QED BY <1>2, <2>1, <2>2 DEF GoesOn
<1>7. CASE Uncopy
  <2> DEFINE next == [Running EXCEPT !.tracks = left]
  <2>1. Gilded(next) => Gilded(Running)
    <3> HIDE DEF left
    <3>1. QED BY <1>4 DEF Gilded, DrawsGold, Job
  <2>2. \E more : GoesOn(next, more)
    BY <1>7 DEF Uncopy
  <2> HIDE DEF next
  <2>3. QED BY <1>2, <2>1, <2>2 DEF GoesOn
<1>8. QED BY <1>3, <1>5, <1>6, <1>7

LEMMA AnswersApart ==
  ASSUME IInv, Apart, Answers
  PROVE  Apart'
<1>1. queue # <<>> /\ flight' = Idle /\ UNCHANGED <<page, backend>>
  BY AnswersEnd
<1>2. \A i \in DOMAIN queue' : Gilded(queue'[i]) => \E k \in DOMAIN queue : Gilded(queue[k])
  BY AnswersEnd, NoneGildedInTail, NoneGildedAhead
<1>3. ~OnTheWay' /\ flight'.at # "sent"
  BY <1>1 DEF OnTheWay, Idle
<1>4. QED BY <1>1, <1>2, <1>3, QueueApart

LEMMA SelectApart ==
  ASSUME IInv, Apart, NEW t \in Tracks \union {None}, Select(t)
  PROVE  Apart'
<1>1. UNCHANGED <<page, backend, queue, flight, labels, undoStack>>
  BY DEF Select, queueVars
<1>2. Bare => t = None
  BY DEF Bare, Select, Nothing
<1>3. QED BY <1>1, <1>2, ApartQuiet DEF Bare, Select

(* Whoever leaves a gold check has nothing of it in the queue. *)
LEMMA LoadApart ==
  ASSUME IInv, Apart, Turn, NEW p, NEW view, Load(p, view), UNCHANGED <<queue, flight>>,
         p = Gold => view = GoldView
  PROVE  Apart'
<1>1. page' = p /\ backend' = BackendFor(p) /\ labels' = view /\ selected' = None
      /\ undoStack' = <<>>
  BY DEF Load
<1>2. \A i \in DOMAIN queue : ~Gilded(queue[i])
  <2>1. CASE queue = <<>>
    BY <2>1
  <2>2. CASE queue # <<>>
    BY <2>2 DEF Turn, Apart, OnTheWay
  <2>3. QED BY <2>1, <2>2
<1>3. page' = Gold => Bare'
  BY <1>1 DEF Bare, GoldView
<1>4. QED BY <1>1, <1>2, <1>3 DEF Apart, OnTheWay, BackendFor

LEMMA PageApart ==
  ASSUME IInv, Apart, OpenGold \/ \E c \in Clips : Open(c) \/ Read(c) \/ Arrive(c) \/ Evict(c)
  PROVE  Apart'
<1>1. UNCHANGED <<queue, flight>>
  BY DEF OpenGold, Open, Read, Arrive, Evict, queueVars
<1>2. CASE UNCHANGED storeVars
  BY <1>1, <1>2, ApartQuiet DEF storeVars
<1>3. CASE OpenGold
  BY <1>1, <1>3, LoadApart DEF OpenGold
<1>4. CASE \E c \in Clips : \E view : Turn /\ Load(c, view)
  BY <1>1, <1>4, LoadApart, NoGoldClip
<1>5. ASSUME NEW c \in Clips, Open(c) \/ Read(c) \/ Arrive(c) \/ Evict(c)
      PROVE  UNCHANGED storeVars \/ \E view : Turn /\ Load(c, view)
  BY <1>5 DEF Open, Read, Arrive, Evict, LoadClip
<1>6. QED BY <1>2, <1>3, <1>4, <1>5

LEMMA StepApart == IInv /\ Apart /\ [Next]_vars => Apart'
<1> SUFFICES ASSUME IInv, Apart, [Next]_vars PROVE Apart'
  OBVIOUS
<1>1. IInv'
  BY StepInv
<1>2. CASE Edit
  BY <1>1, <1>2, EditApart
<1>3. CASE \E t \in Tracks \union {None} : Select(t)
  BY <1>3, SelectApart
<1>4. CASE Send \/ Serve \/ LoseRequest \/ LoseAnswer
  BY <1>4, SendApart, TransitApart
<1>5. CASE Answers
  BY <1>5, AnswersApart
<1>6. CASE OpenGold \/ \E c \in Clips : Open(c) \/ Read(c) \/ Arrive(c) \/ Evict(c)
  BY <1>6, PageApart
<1>7. CASE UNCHANGED vars
  BY <1>7, ApartQuiet DEF vars, storeVars, queueVars
<1>8. QED BY <1>2, <1>3, <1>4, <1>5, <1>6, <1>7 DEF Next

(* The API makes a track for a frame only in the frame's clip. *)
LEMMA GoldDrawRefused ==
  ASSUME NEW j \in Good, j.kind = "draw", j.clip = GoldId, j.frame = GoldFrame,
         ClipOf[GoldFrame] # GoldId, NEW rows
  PROVE  Handle(rows, RequestOf(j)).rows = rows
<1> DEFINE q == RequestOf(j)
<1>1. q.op = "createTrack" /\ q.clip = GoldId /\ q.frame = GoldFrame
  BY DEF RequestOf, Ask
<1> HIDE DEF q
<1>2. Handle(rows, q) = Refuse(rows)
  BY <1>1 DEF Handle, CreateTrack
<1>3. QED BY <1>2 DEF q, Refuse, Outcome

LEMMA OnlyServed ==
  ASSUME IInv, [Next]_vars, api' # api
  PROVE  Serve
<1>1. ~Edit
  BY DEF Edit, MoveBox, DrawBox, DeleteSelected, DeleteWhole, Retype, CopyForward, Mark, Undo
<1>2. ~Answers
  BY AnswersEnd
<1>3. ~(\E t \in Tracks \union {None} : Select(t)) /\ ~Send /\ ~LoseRequest /\ ~LoseAnswer
  BY DEF Select, Send, LoseRequest, LoseAnswer
<1>4. ~OpenGold /\ ~\E c \in Clips : Open(c) \/ Read(c) \/ Arrive(c) \/ Evict(c)
  BY DEF OpenGold, Open, Read, Arrive, Evict
<1>5. ~UNCHANGED vars
  BY DEF vars
<1>6. QED BY <1>1, <1>2, <1>3, <1>4, <1>5 DEF Next

LEMMA GoldStep ==
  ASSUME IInv, Apart, [Next]_vars, api' # api, Running.page = Gold
  PROVE  Running.kind = "draw" /\ GoldId = ClipOf[GoldFrame]
<1>1. Serve
  BY OnlyServed
<1>2. queue # <<>> /\ Running \in Good /\ 1 \in DOMAIN queue /\ flight.at = "sent"
  BY <1>1, InTransit, Queued DEF Serve
<1>3. OnTheWay
  BY <1>2 DEF Apart, OnTheWay
<1>4. ~Gilded(Running)
  BY <1>2, <1>3 DEF Apart, Running
<1>5. DrawsGold(Running)
  BY <1>4 DEF Gilded
<1>6. ClipOf[GoldFrame] # GoldId => api' = api
  BY <1>1, <1>2, <1>5, GoldDrawRefused DEF Serve, DrawsGold
<1>7. QED BY <1>5, <1>6 DEF DrawsGold

(* However edits of a clip left just before are still on their way, and       *)
(* whichever clip is open when the gold check's edits are sent, nothing that *)
(* is done in the gold check reaches a clip, but for a box drawn on its frame *)
(* where the frame and its clip have the same id.                            *)
THEOREM GoldEditsStay == Spec => OnlyDrawsEscape
<1>1. IInv /\ Apart /\ [Next]_vars =>
        [api' # api /\ Running.page = Gold => Running.kind = "draw" /\ GoldId = ClipOf[GoldFrame]]_api
  BY GoldStep
<1>2. IInv /\ Apart /\ [Next]_vars => Apart'
  BY StepApart
<1>3. QED BY <1>1, <1>2, Invariant, InitApart, PTL DEF Spec, OnlyDrawsEscape

(***************************************************************************)
(* What the screen shows against what is saved.  An edit changes the rows   *)
(* of the database and the labels on the screen alike, so both can be said   *)
(* at once: what track and what box is there after edit j was answered with  *)
(* a, if old was there before.                                               *)
(***************************************************************************)
Brings(j, a, t) ==
  \/ j.kind \in {"draw", "recreate"} /\ t = a.track
  \/ j.kind \in {"update", "rename"} /\ t = j.track
Drops(j, a, t) ==
  /\ t = j.track
  /\ \/ j.kind \in {"deleteTrack", "undraw"}
     \/ j.kind \in {"deleteBox", "remove", "uncopy"} /\ a.gone
TrackSet(j, a, t, old) ==
  IF Brings(j, a, t) THEN a.was ELSE IF Drops(j, a, t) THEN None ELSE old

Places(j, a, t, f) ==
  /\ f = j.frame
  /\ \/ j.kind \in {"draw", "recreate"} /\ t = a.track
     \/ j.kind \in {"move", "putBack", "refill"} /\ t = j.track
Takes(j, a, t, f) ==
  \/ Drops(j, a, t)
  \/ j.kind \in {"deleteBox", "remove", "uncopy"} /\ t = j.track /\ f = j.frame
Copies(j, a, t, f) == j.kind = "copy" /\ f = j.frame /\ a.made[t] # None
BoxSet(j, a, t, f, old) ==
  IF Places(j, a, t, f) THEN j.at
  ELSE IF Takes(j, a, t, f) THEN None
  ELSE IF Copies(j, a, t, f) THEN a.made[t].at
  ELSE old

Applied(v, w, j, a) ==
  /\ \A t \in Tracks : w.track[t] = TrackSet(j, a, t, v.track[t])
  /\ \A t \in Tracks, f \in Frames :
       Rect(w.box[t][f]) = BoxSet(j, a, t, f, Rect(v.box[t][f]))

LEMMA RectShape ==
  ASSUME NEW box \in BoxOrNone
  PROVE  /\ Rect(box) = None <=> box = None
         /\ box # None => Rect(box) = box.at /\ box.at \in Rects
<1>1. None \notin Rects
  BY NoneAssumption
<1>2. box # None => box.at \in Rects
  BY DEF BoxOrNone, Box
<1>3. QED BY <1>1, <1>2 DEF Rect

LEMMA RectDrawn ==
  ASSUME NEW at \in Rects
  PROVE  Rect(Drawn(at)) = at
<1>1. Drawn(at) # None
  BY Bits, NoneAssumption DEF Box
<1>2. QED BY <1>1 DEF Rect, Drawn

(***************************************************************************)
(* What each handler does, track by track and box by box.                   *)
(***************************************************************************)
Refused(rows, done) == ~done.answer.ok /\ done.rows = rows
Does(rows, done, j) ==
  \/ Refused(rows, done)
  \/ done.answer.ok /\ Applied(rows, done.rows, j, done.answer)

LEMMA RefuseRefuses ==
  ASSUME NEW rows
  PROVE  Refused(rows, Refuse(rows))
BY DEF Refused, Refuse, Outcome, Refusal

LEMMA AcceptedWith ==
  ASSUME NEW x, NEW y
  PROVE  /\ Accepted.ok
         /\ [Accepted EXCEPT !.made = x].ok /\ [Accepted EXCEPT !.made = x].made = x
         /\ [Accepted EXCEPT !.was = x].ok /\ [Accepted EXCEPT !.was = x].was = x
         /\ [Accepted EXCEPT !.track = y, !.was = x].ok
         /\ [Accepted EXCEPT !.track = y, !.was = x].was = x
         /\ [Accepted EXCEPT !.track = y, !.was = x].track = y
<1>1. Accepted \in Answer
  BY Bits
<1>2. Accepted.ok
  BY DEF Accepted, Refusal
<1>3. QED BY <1>1, <1>2 DEF Answer

LEMMA CreateDoes ==
  ASSUME NEW rows \in Rows, NEW j, j.kind \in {"draw", "recreate"},
         NEW q, Complete(q), q.op = "createTrack", q.clip = j.clip, q.frame = j.frame, q.at = j.at
  PROVE  LET done == CreateTrack(rows, q)
             t == done.answer.track
         IN \/ Refused(rows, done)
            \/ /\ done.answer.ok /\ Applied(rows, done.rows, j, done.answer)
               /\ t = rows.next /\ t \in Tracks /\ done.rows.next = rows.next + 1
               /\ done.answer.was # None /\ done.answer.was.clip = j.clip
               /\ ClipOf[j.frame] = j.clip
<1> DEFINE done == CreateTrack(rows, q)
           t == rows.next
           new == [clip |-> q.clip, type |-> q.type]
<1>1. CASE ~(ClipOf[q.frame] = q.clip /\ t \in Tracks)
  BY <1>1, RefuseRefuses DEF CreateTrack
<1>2. CASE ClipOf[q.frame] = q.clip /\ t \in Tracks
  <2>1. q.clip \in ClipIds /\ q.type \in Types /\ q.frame \in Frames /\ q.at \in Rects
    BY DEF Complete
  <2>2. done = Make(rows, q.clip, q.type, q.frame, q.at)
    BY <1>2 DEF CreateTrack
  <2>3. /\ done.rows.track = [rows.track EXCEPT ![t] = new]
        /\ done.rows.next = t + 1
        /\ \A u \in Tracks, g \in Frames :
             done.rows.box[u][g] = IF u = t /\ g = q.frame THEN Drawn(q.at) ELSE rows.box[u][g]
    BY <1>2, <2>1, <2>2, MakeType
  <2>4. done.answer.ok /\ done.answer.track = t /\ done.answer.was = new
    <3> DEFINE answer == [Accepted EXCEPT !.track = t, !.was = new]
    <3>1. done.answer = answer
      BY <2>2 DEF Make, Outcome
    <3>2. answer.ok /\ answer.track = t /\ answer.was = new
      BY AcceptedWith
    <3> HIDE DEF answer, new, done
    <3>3. QED BY <3>1, <3>2
  <2>5. new \in Track /\ new.clip = q.clip
    BY <2>1 DEF Track
  <2>6. new # None
    BY <2>5, NoneNotTrack
  <2> HIDE DEF done, new
  <2>7. ASSUME NEW u \in Tracks
        PROVE  done.rows.track[u] = TrackSet(j, done.answer, u, rows.track[u])
    BY <2>3, <2>4, RowsShape DEF TrackSet, Brings, Drops
  <2>8. ASSUME NEW u \in Tracks, NEW g \in Frames
        PROVE  Rect(done.rows.box[u][g]) = BoxSet(j, done.answer, u, g, Rect(rows.box[u][g]))
    <3>1. CASE u = t /\ g = j.frame
      BY <2>1, <2>3, <2>4, <3>1, RectDrawn DEF BoxSet, Places
    <3>2. CASE ~(u = t /\ g = j.frame)
      BY <2>3, <2>4, <3>2 DEF BoxSet, Places, Takes, Drops, Copies
    <3>3. QED BY <3>1, <3>2
  <2>9. Applied(rows, done.rows, j, done.answer)
    BY <2>7, <2>8 DEF Applied
  <2>10. QED BY <1>2, <2>3, <2>4, <2>5, <2>6, <2>9 DEF done
<1>3. QED BY <1>1, <1>2

LEMMA SetBoxDoes ==
  ASSUME NEW rows \in Rows, NEW j, j.kind \in {"move", "putBack", "refill"},
         NEW q, Complete(q), q.op = "setBox", q.track = j.track, q.frame = j.frame, q.at = j.at
  PROVE  Does(rows, SetBox(rows, q), j) /\ SetBox(rows, q).rows.next = rows.next
<1> DEFINE done == SetBox(rows, q)
<1>1. CASE ~(rows.track[q.track] # None /\ rows.track[q.track].clip = ClipOf[q.frame])
  BY <1>1, RefuseRefuses DEF SetBox, Does, Refused
<1>2. CASE rows.track[q.track] # None /\ rows.track[q.track].clip = ClipOf[q.frame]
  <2>1. done.rows = PutBox(rows, q.track, q.frame, q.at) /\ done.answer = Accepted
    BY <1>2 DEF SetBox, Outcome
  <2>2. q.at \in Rects
    BY DEF Complete
  <2>3. /\ done.rows.track = rows.track /\ done.rows.next = rows.next
        /\ \A u \in Tracks, g \in Frames :
             done.rows.box[u][g]
               = IF u = q.track /\ g = q.frame THEN Drawn(q.at) ELSE rows.box[u][g]
    BY <2>1, <2>2, PutBoxType
  <2>4. done.answer.ok
    BY <2>1 DEF Accepted, Refusal
  <2> HIDE DEF done
  <2>5. ASSUME NEW u \in Tracks, NEW g \in Frames
        PROVE  Rect(done.rows.box[u][g]) = BoxSet(j, done.answer, u, g, Rect(rows.box[u][g]))
    <3>1. CASE u = j.track /\ g = j.frame
      BY <2>2, <2>3, <3>1, RectDrawn DEF BoxSet, Places
    <3>2. CASE ~(u = j.track /\ g = j.frame)
      BY <2>3, <3>2 DEF BoxSet, Places, Takes, Drops, Copies
    <3>3. QED BY <3>1, <3>2
  <2>6. Applied(rows, done.rows, j, done.answer)
    BY <2>3, <2>5 DEF Applied, TrackSet, Brings, Drops
  <2>7. QED BY <2>3, <2>4, <2>6 DEF Does, done
<1>3. QED BY <1>1, <1>2

LEMMA EraseDoes ==
  ASSUME NEW rows \in Rows, NEW t
  PROVE  /\ \A u \in Tracks : Erase(rows, t).track[u] = IF u = t THEN None ELSE rows.track[u]
         /\ \A u \in Tracks, g \in Frames :
              Erase(rows, t).box[u][g] = IF u = t THEN None ELSE rows.box[u][g]
         /\ Erase(rows, t).next = rows.next
<1> DEFINE after == Erase(rows, t)
<1>1. /\ after.track = [rows.track EXCEPT ![t] = None]
      /\ after.box = [rows.box EXCEPT ![t] = NoBoxes]
      /\ after.next = rows.next
  BY EraseType
<1> HIDE DEF after
<1>2. \A u \in Tracks : after.track[u] = IF u = t THEN None ELSE rows.track[u]
  BY <1>1, RowsShape
<1>3. \A u \in Tracks : after.box[u] = IF u = t THEN NoBoxes ELSE rows.box[u]
  BY <1>1, RowsShape
<1>4. \A u \in Tracks, g \in Frames : after.box[u][g] = IF u = t THEN None ELSE rows.box[u][g]
  BY <1>3 DEF NoBoxes
<1>5. QED BY <1>1, <1>2, <1>4 DEF after

LEMMA DeleteTrackDoes ==
  ASSUME NEW rows \in Rows, NEW j, j.kind \in {"deleteTrack", "undraw"},
         NEW q, q.track = j.track
  PROVE  Does(rows, DeleteTrack(rows, q), j) /\ DeleteTrack(rows, q).rows.next = rows.next
<1> DEFINE done == DeleteTrack(rows, q)
           t == q.track
<1>1. CASE rows.track[t] = None
  BY <1>1, RefuseRefuses DEF DeleteTrack, Does, Refused
<1>2. CASE rows.track[t] # None
  <2>1. done.rows = Erase(rows, t) /\ done.answer = Accepted
    BY <1>2 DEF DeleteTrack, Outcome
  <2>2. done.answer.ok
    BY <2>1 DEF Accepted, Refusal
  <2>3. /\ \A u \in Tracks : done.rows.track[u] = IF u = t THEN None ELSE rows.track[u]
        /\ \A u \in Tracks, g \in Frames :
             done.rows.box[u][g] = IF u = t THEN None ELSE rows.box[u][g]
        /\ done.rows.next = rows.next
    BY <2>1, EraseDoes
  <2> HIDE DEF done
  <2>4. Applied(rows, done.rows, j, done.answer)
    BY <2>3 DEF Applied, TrackSet, BoxSet, Brings, Drops, Places, Takes, Copies, Rect
  <2>5. QED BY <2>2, <2>3, <2>4 DEF Does, done
<1>3. QED BY <1>1, <1>2

LEMMA TakeBoxDoes ==
  ASSUME NEW rows \in Rows, NEW j, j.kind \in {"deleteBox", "remove", "uncopy"}
  PROVE  /\ Does(rows, TakeBox(rows, j.track, j.frame), j)
         /\ TakeBox(rows, j.track, j.frame).rows.next = rows.next
<1> DEFINE t == j.track
           f == j.frame
           done == TakeBox(rows, t, f)
           box == [rows.box EXCEPT ![t][f] = None]
           left == [rows EXCEPT !.box = box]
           gone == left.box[t] = NoBoxes
<1>1. box \in [Tracks -> [Frames -> BoxOrNone]]
  BY Bits, RowsShape
<1>2. left \in Rows /\ left.track = rows.track /\ left.next = rows.next /\ left.box = box
  <2> HIDE DEF box
  <2>1. QED BY <1>1, RowsShape DEF Rows
<1>3. /\ done.rows = (IF gone THEN Erase(left, t) ELSE left)
      /\ done.answer = [Accepted EXCEPT !.gone = gone]
  BY DEF TakeBox, Outcome, Rows
<1>4. \A u \in Tracks, g \in Frames :
        box[u][g] = IF u = t /\ g = f THEN None ELSE rows.box[u][g]
  BY RowsShape
<1> HIDE DEF left, box
<1>5. /\ \A u \in Tracks : Erase(left, t).track[u] = IF u = t THEN None ELSE rows.track[u]
      /\ \A u \in Tracks, g \in Frames :
           Erase(left, t).box[u][g] = IF u = t THEN None ELSE rows.box[u][g]
      /\ Erase(left, t).next = rows.next
  <2>1. \A u \in Tracks, g \in Frames :
          Erase(left, t).box[u][g] = IF u = t THEN None ELSE box[u][g]
    BY <1>2, EraseDoes
  <2>2. QED BY <1>2, <1>4, <2>1, EraseDoes
<1> HIDE DEF gone
<1>6. done.answer.ok /\ done.answer.gone = gone
  BY <1>3 DEF Accepted, Refusal
<1> HIDE DEF done
<1>7. CASE gone
  <2>1. Applied(rows, done.rows, j, done.answer)
    BY <1>3, <1>5, <1>6, <1>7
       DEF Applied, TrackSet, BoxSet, Brings, Drops, Places, Takes, Copies, Rect
  <2>2. QED BY <1>3, <1>5, <1>6, <1>7, <2>1 DEF Does, done
<1>8. CASE ~gone
  <2>1. done.rows = left
    BY <1>3, <1>8
  <2>2. Applied(rows, done.rows, j, done.answer)
    BY <1>2, <1>4, <1>6, <1>8, <2>1
       DEF Applied, TrackSet, BoxSet, Brings, Drops, Places, Takes, Copies, Rect
  <2>3. QED BY <1>2, <1>6, <2>1, <2>2 DEF Does, done
<1>9. QED BY <1>7, <1>8

LEMMA DeleteBoxDoes ==
  ASSUME NEW rows \in Rows, NEW j, j.kind \in {"deleteBox", "remove", "uncopy"},
         NEW q, q.track = j.track, q.frame = j.frame
  PROVE  Does(rows, DeleteBox(rows, q), j) /\ DeleteBox(rows, q).rows.next = rows.next
<1>1. CASE rows.box[q.track][q.frame] = None
  BY <1>1, RefuseRefuses DEF DeleteBox, Does, Refused
<1>2. CASE rows.box[q.track][q.frame] # None
  BY <1>2, TakeBoxDoes DEF DeleteBox
<1>3. QED BY <1>1, <1>2

LEMMA UpdateDoes ==
  ASSUME NEW rows \in Rows, NEW j, j.kind \in {"update", "rename"}, j.track \in Tracks,
         NEW q, q.track = j.track, q.type \in Types
  PROVE  LET done == UpdateTrack(rows, q)
         IN \/ Refused(rows, done)
            \/ /\ done.answer.ok /\ Applied(rows, done.rows, j, done.answer)
               /\ done.rows.next = rows.next
               /\ rows.track[j.track] # None /\ done.answer.was # None
               /\ done.answer.was.clip = rows.track[j.track].clip
<1> DEFINE t == j.track
           old == rows.track[t]
           now == [old EXCEPT !.type = q.type]
           track == [rows.track EXCEPT ![t] = now]
           done == UpdateTrack(rows, q)
<1>1. CASE old = None
  BY <1>1, RefuseRefuses DEF UpdateTrack
<1>2. CASE old # None
  <2>1. old \in Track
    BY <1>2, RowsShape DEF TrackOrNone
  <2>2. now \in Track /\ now.clip = old.clip
    BY <2>1 DEF Track
  <2>3. now # None
    BY <2>2, NoneNotTrack
  <2> DEFINE answer == [Accepted EXCEPT !.was = now]
  <2>4. /\ done = Outcome([rows EXCEPT !.track = track], answer)
        /\ answer.ok /\ answer.was = now
    BY <1>2, RowsShape, AcceptedWith DEF UpdateTrack, Rows
  <2> HIDE DEF now, old, answer
  <2>5. \A u \in Tracks : track[u] = IF u = t THEN now ELSE rows.track[u]
    BY RowsShape
  <2> HIDE DEF track
  <2>6. done.rows = [rows EXCEPT !.track = track] /\ done.answer.ok /\ done.answer.was = now
    BY <2>4 DEF Outcome
  <2> HIDE DEF done
  <2>7. done.rows.track = track /\ done.rows.box = rows.box /\ done.rows.next = rows.next
    BY <2>6 DEF Rows
  <2>8. Applied(rows, done.rows, j, done.answer)
    BY <2>5, <2>6, <2>7
       DEF Applied, TrackSet, BoxSet, Brings, Drops, Places, Takes, Copies
  <2>9. QED BY <1>2, <2>2, <2>3, <2>6, <2>7, <2>8 DEF done, old
<1>3. QED BY <1>1, <1>2

LEMMA CopyDoes ==
  ASSUME NEW rows \in Rows, NEW j, j.kind = "copy",
         NEW q, Complete(q), q.op = "copyBoxes", q.to = j.frame
  PROVE  Does(rows, CopyBoxes(rows, q), j) /\ CopyBoxes(rows, q).rows.next = rows.next
<1> DEFINE f == q.frame
           g == q.to
           copies == Copied(rows, f, g)
           box == [t \in Tracks |-> IF copies[t] = None THEN rows.box[t]
                                    ELSE [rows.box[t] EXCEPT ![g] = copies[t]]]
           status == ClearEmpty(rows.status, g)
           done == CopyBoxes(rows, q)
<1>1. f \in Frames /\ g \in Frames
  BY DEF Complete
<1>2. CASE ClipOf[f] # ClipOf[g]
  BY <1>2, RefuseRefuses DEF CopyBoxes, Does, Refused
<1>3. CASE ClipOf[f] = ClipOf[g] /\ copies = Nothing
  <2>1. done = Outcome(rows, Accepted)
    BY <1>3 DEF CopyBoxes
  <2>2. done.rows = rows /\ done.answer.ok /\ done.answer.made = Nothing
    BY <2>1 DEF Outcome, Accepted, Refusal
  <2> HIDE DEF done
  <2>3. Applied(rows, done.rows, j, done.answer)
    BY <2>2 DEF Applied, TrackSet, BoxSet, Brings, Drops, Places, Takes, Copies, Nothing
  <2>4. QED BY <2>2, <2>3 DEF Does, done
<1>4. CASE ClipOf[f] = ClipOf[g] /\ copies # Nothing
  <2> DEFINE answer == [Accepted EXCEPT !.made = copies]
  <2>1. /\ done = Outcome([rows EXCEPT !.box = box, !.status = status], answer)
        /\ answer.ok /\ answer.made = copies
    BY <1>4, AcceptedWith DEF CopyBoxes
  <2> HIDE DEF answer
  <2>2. \A t \in Tracks : copies[t] # None => Rect(copies[t]) = copies[t].at
    BY DEF Rect
  <2> HIDE DEF copies
  <2>3. \A t \in Tracks, h \in Frames :
          box[t][h] = IF copies[t] # None /\ h = g THEN copies[t] ELSE rows.box[t][h]
    BY <1>1, RowsShape
  <2> HIDE DEF box, status
  <2>4. /\ done.rows = [rows EXCEPT !.box = box, !.status = status]
        /\ done.answer.ok /\ done.answer.made = copies
    BY <2>1 DEF Outcome
  <2> HIDE DEF done
  <2>5. done.rows.track = rows.track /\ done.rows.box = box /\ done.rows.next = rows.next
    BY <2>4 DEF Rows
  <2>6. ASSUME NEW t \in Tracks, NEW h \in Frames
        PROVE  Rect(done.rows.box[t][h]) = BoxSet(j, done.answer, t, h, Rect(rows.box[t][h]))
    BY <2>2, <2>3, <2>4, <2>5 DEF BoxSet, Drops, Places, Takes, Copies
  <2>7. Applied(rows, done.rows, j, done.answer)
    BY <2>5, <2>6 DEF Applied, TrackSet, Brings, Drops
  <2>8. QED BY <2>4, <2>5, <2>7 DEF Does, done
<1>5. QED BY <1>2, <1>3, <1>4

LEMMA StatusDoes ==
  ASSUME NEW rows \in Rows, NEW j, j.kind \in {"mark", "unmark"},
         NEW q, Complete(q), q.op = "setFrameStatus"
  PROVE  Does(rows, SetFrameStatus(rows, q), j) /\ SetFrameStatus(rows, q).rows.next = rows.next
<1> DEFINE f == q.frame
           full == q.status = "empty" /\ \E t \in Tracks : rows.box[t][f] # None
           box == IF q.status = "labeled" THEN AcceptAll(rows.box, f) ELSE rows.box
           status == [rows.status EXCEPT ![f] = q.status]
           done == SetFrameStatus(rows, q)
<1>1. f \in Frames
  BY DEF Complete
<1>2. CASE full
  BY <1>2, RefuseRefuses DEF SetFrameStatus, Does, Refused
<1>3. CASE ~full
  <2>1. done = Outcome([rows EXCEPT !.box = box, !.status = status], Accepted)
    BY <1>3, RowsShape DEF SetFrameStatus, Rows
  <2>2. ASSUME NEW t \in Tracks, NEW h \in Frames
        PROVE  Rect(AcceptAll(rows.box, f)[t][h]) = Rect(rows.box[t][h])
    <3>1. CASE rows.box[t][f] = None \/ h # f
      BY <3>1, RowsShape DEF AcceptAll
    <3>2. CASE rows.box[t][f] # None /\ h = f
      <4>1. Rect(rows.box[t][f]) = rows.box[t][f].at /\ rows.box[t][f].at \in Rects
        BY <1>1, <3>2, RowsShape, RectShape
      <4>2. AcceptAll(rows.box, f)[t][h] = Drawn(rows.box[t][f].at)
        BY <1>1, <3>2, RowsShape DEF AcceptAll
      <4>3. QED BY <3>2, <4>1, <4>2, RectDrawn
    <3>3. QED BY <3>1, <3>2
  <2>3. \A t \in Tracks, h \in Frames : Rect(box[t][h]) = Rect(rows.box[t][h])
    BY <2>2
  <2> HIDE DEF box, status
  <2>4. done.rows = [rows EXCEPT !.box = box, !.status = status] /\ done.answer.ok
    BY <2>1 DEF Outcome, Accepted, Refusal
  <2> HIDE DEF done
  <2>5. done.rows.track = rows.track /\ done.rows.box = box /\ done.rows.next = rows.next
    BY <2>4 DEF Rows
  <2>6. Applied(rows, done.rows, j, done.answer)
    BY <2>3, <2>5 DEF Applied, TrackSet, BoxSet, Brings, Drops, Places, Takes, Copies
  <2>7. QED BY <2>4, <2>5, <2>6 DEF Does, done
<1>4. QED BY <1>2, <1>3

(***************************************************************************)
(* What is on screen, waits or can be undone is about the clip on screen.   *)
(***************************************************************************)
(* An id that a track of the clip has, or had: it is never another's. *)
Mine(rows, p, t) == t < rows.next /\ (rows.track[t] # None => rows.track[t].clip = p)

OfPage(rows, p, j) ==
  /\ j.kind \in {"draw", "recreate", "deleteBox", "deleteTrack"} => j.clip = p
  /\ j.kind \in {"move", "putBack", "deleteBox", "copy"} => ClipOf[j.frame] = p
  /\ j.kind \in {"recreate", "refill", "deleteTrack"} =>
       \A f \in Frames : j.boxes[f] # None => ClipOf[f] = p
  /\ j.kind \in {"update", "rename"} => Mine(rows, p, j.track)
Own(rows, p) == {j \in Good : OfPage(rows, p, j)}
OwnUndos(rows, p) == {j \in Own(rows, p) : j.kind \in Undos}

(* The request that is under way, and where it puts a box. *)
OnItsWay(rows, p, j) ==
  /\ j \in Own(rows, p)
  /\ j.kind \in {"recreate", "refill"} => j.at \in Rects /\ j.frame \in Frames
  /\ j.kind = "refill" => ClipOf[j.frame] = p

(* What the API has of the clip. *)
SavedTrack(rows, p, t) ==
  IF rows.track[t] # None /\ rows.track[t].clip = p THEN rows.track[t] ELSE None
SavedBox(rows, p, t, f) == IF ClipOf[f] = p THEN Rect(rows.box[t][f]) ELSE None

LEMMA SavedIsOf ==
  ASSUME NEW rows \in Rows, Sound(rows), NEW p \in Clips, NEW t \in Tracks
  PROVE  /\ Of(rows, p).track[t] = SavedTrack(rows, p, t)
         /\ \A f \in Frames : Rect(Of(rows, p).box[t][f]) = SavedBox(rows, p, t, f)
<1>1. Of(rows, p).track[t] = SavedTrack(rows, p, t)
  BY DEF Of, SavedTrack
<1>2. Of(rows, p).box[t] = IF rows.track[t] # None /\ rows.track[t].clip = p THEN rows.box[t]
                           ELSE NoBoxes
  BY DEF Of
<1>3. ASSUME NEW f \in Frames
      PROVE  Rect(Of(rows, p).box[t][f]) = SavedBox(rows, p, t, f)
  <2>1. rows.box[t][f] # None => rows.track[t] # None /\ rows.track[t].clip = ClipOf[f]
    BY DEF Sound, InClip
  <2>2. QED BY <1>2, <2>1 DEF SavedBox, NoBoxes, Rect
<1>4. QED BY <1>1, <1>3

(* What a handler does with the request of an edit. *)
Effect(rows, now, j, a) ==
  \/ ~a.ok /\ now = rows
  \/ /\ a.ok
     /\ Applied(rows, now, j, a)
     /\ j.kind \in {"draw", "recreate"} =>
          /\ a.track = rows.next /\ a.track \in Tracks /\ now.next = rows.next + 1
          /\ a.was # None /\ a.was.clip = j.clip
          /\ ClipOf[j.frame] = j.clip
     /\ j.kind \notin {"draw", "recreate"} => now.next = rows.next
     /\ j.kind \in {"update", "rename"} =>
          /\ rows.track[j.track] # None /\ a.was # None
          /\ a.was.clip = rows.track[j.track].clip

LEMMA HandleDoes ==
  ASSUME NEW rows \in Rows, NEW j \in Good,
         j.kind \in {"recreate", "refill"} => j.at \in Rects /\ j.frame \in Frames
  PROVE  Effect(rows, Handle(rows, RequestOf(j)).rows, j, Handle(rows, RequestOf(j)).answer)
<1> DEFINE q == RequestOf(j)
           done == Handle(rows, q)
<1>1. Complete(q)
  BY RequestComplete
<1>2. CASE j.kind \in {"draw", "recreate"}
  <2>1. q.op = "createTrack" /\ q.clip = j.clip /\ q.frame = j.frame /\ q.at = j.at
    BY <1>2 DEF RequestOf, Ask
  <2> HIDE DEF q
  <2>2. done = CreateTrack(rows, q)
    BY <2>1 DEF Handle
  <2>3. QED BY <1>1, <1>2, <2>1, <2>2, CreateDoes DEF Effect, Refused, q
<1>3. CASE j.kind \in {"move", "putBack", "refill"}
  <2>1. q.op = "setBox" /\ q.track = j.track /\ q.frame = j.frame /\ q.at = j.at
    BY <1>3 DEF RequestOf, Ask
  <2> HIDE DEF q
  <2>2. done = SetBox(rows, q)
    BY <2>1 DEF Handle
  <2>3. QED BY <1>1, <1>3, <2>1, <2>2, SetBoxDoes DEF Effect, Does, Refused, q
<1>4. CASE j.kind \in {"deleteBox", "remove", "uncopy"}
  <2>1. q.op = "deleteBox" /\ q.track = j.track /\ q.frame = j.frame
    BY <1>4 DEF RequestOf, Ask
  <2> HIDE DEF q
  <2>2. done = DeleteBox(rows, q)
    BY <2>1 DEF Handle
  <2>3. QED BY <1>1, <1>4, <2>1, <2>2, DeleteBoxDoes DEF Effect, Does, Refused, q
<1>5. CASE j.kind \in {"deleteTrack", "undraw"}
  <2>1. q.op = "deleteTrack" /\ q.track = j.track
    BY <1>5 DEF RequestOf, Ask
  <2> HIDE DEF q
  <2>2. done = DeleteTrack(rows, q)
    BY <2>1 DEF Handle
  <2>3. QED BY <1>1, <1>5, <2>1, <2>2, DeleteTrackDoes DEF Effect, Does, Refused, q
<1>6. CASE j.kind \in {"update", "rename"}
  <2>1. q.op = "updateTrack" /\ q.track = j.track /\ j.track \in Tracks /\ q.type \in Types
    <3>1. q.op = "updateTrack" /\ q.track = j.track
      BY <1>6 DEF RequestOf, Ask
    <3>2. QED BY <1>1, <3>1 DEF Complete
  <2> HIDE DEF q
  <2>2. done = UpdateTrack(rows, q)
    BY <2>1 DEF Handle
  <2>3. QED BY <1>1, <1>6, <2>1, <2>2, UpdateDoes DEF Effect, Refused, q
<1>7. CASE j.kind = "copy"
  <2>1. q.op = "copyBoxes" /\ q.to = j.frame
    BY <1>7 DEF RequestOf, Ask
  <2> HIDE DEF q
  <2>2. done = CopyBoxes(rows, q)
    BY <2>1 DEF Handle
  <2>3. QED BY <1>1, <1>7, <2>1, <2>2, CopyDoes DEF Effect, Does, Refused, q
<1>8. CASE j.kind \in {"mark", "unmark"}
  <2>1. q.op = "setFrameStatus"
    BY <1>8 DEF RequestOf, Ask
  <2> HIDE DEF q
  <2>2. done = SetFrameStatus(rows, q)
    BY <2>1 DEF Handle
  <2>3. QED BY <1>1, <1>8, <2>1, <2>2, StatusDoes DEF Effect, Does, Refused, q
<1>9. j.kind \in Edits \union Undos
  BY JobShape DEF Good
<1>10. QED BY <1>2, <1>3, <1>4, <1>5, <1>6, <1>7, <1>8, <1>9 DEF Edits, Undos

(* Whose track an id is, no request changes. *)
LEMMA MineKept ==
  ASSUME NEW rows \in Rows, NEW now, NEW j, NEW a, Effect(rows, now, j, a),
         NEW p, NEW t \in Tracks, Mine(rows, p, t)
  PROVE  Mine(now, p, t)
<1>1. t \in Nat /\ rows.next \in Nat /\ t < rows.next
  BY RowsShape, MaxTracksAssumption DEF Tracks, Mine
<1>2. CASE ~a.ok
  BY <1>2 DEF Effect
<1>3. CASE a.ok
  <2>1. now.track[t] = TrackSet(j, a, t, rows.track[t])
    BY <1>3 DEF Effect, Applied
  <2>2. t < now.next
    BY <1>1, <1>3 DEF Effect
  <2>3. CASE Brings(j, a, t)
    <3>1. j.kind \in {"update", "rename"} /\ t = j.track
      BY <1>1, <1>3, <2>3 DEF Brings, Effect
    <3>2. QED BY <1>3, <2>1, <2>2, <2>3, <3>1 DEF Effect, Mine, TrackSet
  <2>4. CASE ~Brings(j, a, t)
    BY <2>1, <2>2, <2>4 DEF Mine, TrackSet
  <2>5. QED BY <2>3, <2>4
<1>4. QED BY <1>2, <1>3

LEMMA OwnKept ==
  ASSUME NEW rows \in Rows, NEW now, NEW j, NEW a, Effect(rows, now, j, a), NEW p
  PROVE  Own(rows, p) \subseteq Own(now, p)
<1> SUFFICES ASSUME NEW k \in Own(rows, p) PROVE k \in Own(now, p)
  OBVIOUS
<1>1. k \in Good /\ OfPage(rows, p, k)
  BY DEF Own
<1>2. k.kind \in {"update", "rename"} => Mine(now, p, k.track)
  <2>1. k.kind \in {"update", "rename"} => k.track \in Tracks /\ Mine(rows, p, k.track)
    BY <1>1 DEF OfPage, Good, JobOK
  <2>2. QED BY <2>1, MineKept
<1>3. QED BY <1>1, <1>2 DEF Own, OfPage

(* A track that a request makes belongs to the clip. *)
LEMMA MadeMine ==
  ASSUME NEW rows \in Rows, NEW now \in Rows, NEW j, NEW a, Effect(rows, now, j, a), a.ok,
         j.kind \in {"draw", "recreate"}
  PROVE  a.track \in Tracks /\ Mine(now, j.clip, a.track)
<1>1. /\ a.track = rows.next /\ a.track \in Tracks /\ now.next = rows.next + 1
      /\ a.was.clip = j.clip /\ Applied(rows, now, j, a)
  BY DEF Effect
<1>2. now.track[a.track] = a.was
  BY <1>1 DEF Applied, TrackSet, Brings
<1>3. QED BY <1>1, <1>2, RowsShape DEF Mine

(* The clip's tracks and boxes change as the screen will. *)
LEMMA SavedAs ==
  ASSUME NEW rows \in Rows, NEW now, NEW p, NEW j, NEW a, Effect(rows, now, j, a), a.ok,
         OnItsWay(rows, p, j), NEW t \in Tracks
  PROVE  /\ SavedTrack(now, p, t) = TrackSet(j, a, t, SavedTrack(rows, p, t))
         /\ \A f \in Frames : SavedBox(now, p, t, f) = BoxSet(j, a, t, f, SavedBox(rows, p, t, f))
<1>1. j \in Good /\ OfPage(rows, p, j) /\ (j.kind = "refill" => ClipOf[j.frame] = p)
  BY DEF OnItsWay, Own
<1>2. Applied(rows, now, j, a)
  BY DEF Effect
<1>3. now.track[t] = TrackSet(j, a, t, rows.track[t])
  BY <1>2 DEF Applied
<1>4. SavedTrack(now, p, t) = TrackSet(j, a, t, SavedTrack(rows, p, t))
  <2>1. CASE Brings(j, a, t)
    <3>1. a.was # None /\ a.was.clip = p
      BY <1>1, <2>1 DEF Brings, Effect, OfPage, Mine
    <3>2. QED BY <1>3, <2>1, <3>1 DEF SavedTrack, TrackSet
  <2>2. CASE ~Brings(j, a, t)
    BY <1>3, <2>2 DEF SavedTrack, TrackSet
  <2>3. QED BY <2>1, <2>2
<1>5. ASSUME NEW f \in Frames
      PROVE  SavedBox(now, p, t, f) = BoxSet(j, a, t, f, SavedBox(rows, p, t, f))
  <2>1. Rect(now.box[t][f]) = BoxSet(j, a, t, f, Rect(rows.box[t][f]))
    BY <1>2 DEF Applied
  <2>2. CASE Places(j, a, t, f)
    <3>1. ClipOf[f] = p
      BY <1>1, <2>2 DEF Places, Effect, OfPage
    <3>2. QED BY <2>1, <3>1 DEF SavedBox
  <2>3. CASE Copies(j, a, t, f)
    <3>1. ClipOf[f] = p
      BY <1>1, <2>3 DEF Copies, OfPage
    <3>2. QED BY <2>1, <3>1 DEF SavedBox
  <2>4. CASE ~Places(j, a, t, f) /\ ~Copies(j, a, t, f)
    BY <2>1, <2>4 DEF SavedBox, BoxSet
  <2>5. QED BY <2>2, <2>3, <2>4
<1>6. QED BY <1>4, <1>5

(***************************************************************************)
(* What the store does with an answer is what the handler did.              *)
(***************************************************************************)
LEMMA ClearedShows ==
  ASSUME NEW v \in View, NEW f
  PROVE  Cleared(v, f).track = v.track /\ Cleared(v, f).box = v.box
BY DEF Cleared, View

LEMMA PutShows ==
  ASSUME NEW v \in View, NEW t, NEW f, NEW box \in BoxOrNone
  PROVE  /\ Put(v, t, f, box) \in View
         /\ Put(v, t, f, box).track = v.track
         /\ \A u \in Tracks, g \in Frames :
              Put(v, t, f, box).box[u][g] = IF u = t /\ g = f THEN box ELSE v.box[u][g]
<1> DEFINE now == [v.box EXCEPT ![t][f] = box]
<1>1. /\ now \in [Tracks -> [Frames -> BoxOrNone]]
      /\ \A u \in Tracks, g \in Frames : now[u][g] = IF u = t /\ g = f THEN box ELSE v.box[u][g]
  BY ViewShape
<1>2. Put(v, t, f, box) = [v EXCEPT !.box = now]
  BY DEF Put
<1> HIDE DEF now
<1>3. Put(v, t, f, box) \in View /\ Put(v, t, f, box).track = v.track /\ Put(v, t, f, box).box = now
  BY <1>1, <1>2, ViewShape DEF View
<1>4. QED BY <1>1, <1>3

SetTrack(v, t, track) == [v EXCEPT !.track[t] = track]

LEMMA TrackShows ==
  ASSUME NEW v \in View, NEW t, NEW track \in TrackOrNone
  PROVE  /\ SetTrack(v, t, track) \in View
         /\ SetTrack(v, t, track).box = v.box
         /\ \A u \in Tracks : SetTrack(v, t, track).track[u] = IF u = t THEN track ELSE v.track[u]
<1> DEFINE now == [v.track EXCEPT ![t] = track]
<1>1. now \in [Tracks -> TrackOrNone] /\ \A u \in Tracks : now[u] = IF u = t THEN track ELSE v.track[u]
  BY ViewShape
<1>2. SetTrack(v, t, track) = [v EXCEPT !.track = now]
  BY DEF View, SetTrack
<1> HIDE DEF now
<1>3. QED BY <1>1, <1>2, ViewShape DEF View

LEMMA RemoveShows ==
  ASSUME NEW v \in View, NEW t
  PROVE  /\ \A u \in Tracks : RemoveTrack(v, t).track[u] = IF u = t THEN None ELSE v.track[u]
         /\ \A u \in Tracks, g \in Frames :
              RemoveTrack(v, t).box[u][g] = IF u = t THEN None ELSE v.box[u][g]
<1> DEFINE track == [v.track EXCEPT ![t] = None]
           box == [v.box EXCEPT ![t] = NoBoxes]
<1>1. /\ \A u \in Tracks : track[u] = IF u = t THEN None ELSE v.track[u]
      /\ \A u \in Tracks : box[u] = IF u = t THEN NoBoxes ELSE v.box[u]
  BY ViewShape
<1>2. RemoveTrack(v, t).track = track /\ RemoveTrack(v, t).box = box
  BY DEF RemoveTrack, View
<1> HIDE DEF track, box
<1>3. QED BY <1>1, <1>2 DEF NoBoxes

LEMMA Moved ==
  ASSUME NEW v \in View, NEW w, NEW j, NEW a, j.kind \in {"move", "putBack", "refill"}, j.at \in Rects,
         \/ w = Put(v, j.track, j.frame, Drawn(j.at))
         \/ w = Cleared(Put(v, j.track, j.frame, Drawn(j.at)), j.frame)
  PROVE  Applied(v, w, j, a)
<1> DEFINE put == Put(v, j.track, j.frame, Drawn(j.at))
<1>1. Drawn(j.at) \in BoxOrNone /\ Rect(Drawn(j.at)) = j.at
  BY Bits, RectDrawn DEF BoxOrNone
<1>2. /\ put \in View /\ put.track = v.track
      /\ \A u \in Tracks, g \in Frames :
           put.box[u][g] = IF u = j.track /\ g = j.frame THEN Drawn(j.at) ELSE v.box[u][g]
  BY <1>1, PutShows
<1> HIDE DEF put
<1>3. w.track = put.track /\ w.box = put.box
  BY <1>2, ClearedShows DEF put
<1>4. ASSUME NEW u \in Tracks, NEW g \in Frames
      PROVE  Rect(w.box[u][g]) = BoxSet(j, a, u, g, Rect(v.box[u][g]))
  BY <1>1, <1>2, <1>3 DEF BoxSet, Places, Takes, Drops, Copies
<1>5. QED BY <1>2, <1>3, <1>4 DEF Applied, TrackSet, Brings, Drops

LEMMA Added ==
  ASSUME NEW v \in View, NEW w, NEW j, NEW a, j.kind \in {"draw", "recreate"}, j.at \in Rects,
         a.was \in TrackOrNone,
         w = Cleared(Put([v EXCEPT !.track[a.track] = a.was], a.track, j.frame, Drawn(j.at)), j.frame)
  PROVE  Applied(v, w, j, a)
<1> DEFINE was == a.was
           t == a.track
           f == j.frame
           one == SetTrack(v, t, was)
           put == Put(one, t, f, Drawn(j.at))
<1>1. Drawn(j.at) \in BoxOrNone /\ Rect(Drawn(j.at)) = j.at
  BY Bits, RectDrawn DEF BoxOrNone
<1>2. /\ one \in View /\ one.box = v.box
      /\ \A u \in Tracks : one.track[u] = IF u = t THEN was ELSE v.track[u]
  <2> HIDE DEF was, t
  <2>1. was \in TrackOrNone
    BY DEF was
  <2>2. QED BY <2>1, TrackShows
<1>3. w = Cleared(put, f)
  BY DEF SetTrack
<1> HIDE DEF one
<1>4. /\ put \in View /\ put.track = one.track
      /\ \A u \in Tracks, g \in Frames :
           put.box[u][g] = IF u = t /\ g = f THEN Drawn(j.at) ELSE one.box[u][g]
  BY <1>1, <1>2, PutShows
<1> HIDE DEF put
<1>5. w.track = put.track /\ w.box = put.box
  BY <1>3, <1>4, ClearedShows
<1>6. ASSUME NEW u \in Tracks PROVE w.track[u] = TrackSet(j, a, u, v.track[u])
  BY <1>2, <1>4, <1>5 DEF TrackSet, Brings, Drops
<1>7. ASSUME NEW u \in Tracks, NEW g \in Frames
      PROVE  Rect(w.box[u][g]) = BoxSet(j, a, u, g, Rect(v.box[u][g]))
  BY <1>1, <1>2, <1>4, <1>5 DEF BoxSet, Places, Takes, Drops, Copies
<1>8. QED BY <1>6, <1>7 DEF Applied

LEMMA Removed ==
  ASSUME NEW v \in View, NEW w, NEW j, NEW a,
         \/ j.kind \in {"deleteTrack", "undraw"}
         \/ j.kind \in {"deleteBox", "remove", "uncopy"} /\ a.gone,
         w = RemoveTrack(v, j.track)
  PROVE  Applied(v, w, j, a)
<1>1. /\ \A u \in Tracks : w.track[u] = IF u = j.track THEN None ELSE v.track[u]
      /\ \A u \in Tracks, g \in Frames : w.box[u][g] = IF u = j.track THEN None ELSE v.box[u][g]
  BY RemoveShows
<1>2. QED BY <1>1 DEF Applied, TrackSet, BoxSet, Brings, Drops, Places, Takes, Copies, Rect

LEMMA TakenAway ==
  ASSUME NEW v \in View, NEW w, NEW j, NEW a,
         j.kind \in {"deleteBox", "remove", "uncopy"},
         w = IF a.gone THEN RemoveTrack(v, j.track) ELSE Put(v, j.track, j.frame, None)
  PROVE  Applied(v, w, j, a)
<1>1. CASE a.gone
  BY <1>1, Removed
<1>2. CASE ~a.gone
  <2>1. w = Put(v, j.track, j.frame, None)
    BY <1>2
  <2>2. /\ w.track = v.track
        /\ \A u \in Tracks, g \in Frames :
             w.box[u][g] = IF u = j.track /\ g = j.frame THEN None ELSE v.box[u][g]
    BY <2>1, Bits, PutShows
  <2>3. QED BY <1>2, <2>2
            DEF Applied, TrackSet, BoxSet, Brings, Drops, Places, Takes, Copies, Rect
<1>3. QED BY <1>1, <1>2

LEMMA Renamed ==
  ASSUME NEW v \in View, NEW w, NEW j, NEW a, j.kind \in {"update", "rename"},
         a.was \in TrackOrNone, w = [v EXCEPT !.track[j.track] = a.was]
  PROVE  Applied(v, w, j, a)
<1> DEFINE was == a.was
           t == j.track
<1>1. w.box = v.box /\ \A u \in Tracks : w.track[u] = IF u = t THEN was ELSE v.track[u]
  <2>1. was \in TrackOrNone /\ w = SetTrack(v, t, was)
    BY DEF SetTrack
  <2> HIDE DEF was, t
  <2> DEFINE now == SetTrack(v, t, was)
  <2>2. now.box = v.box /\ \A u \in Tracks : now.track[u] = IF u = t THEN was ELSE v.track[u]
    BY <2>1, TrackShows
  <2> HIDE DEF now
  <2>3. w = now
    BY <2>1 DEF now
  <2>4. QED BY <2>2, <2>3
<1>2. QED BY <1>1 DEF Applied, TrackSet, BoxSet, Brings, Drops, Places, Takes, Copies

LEMMA Same ==
  ASSUME NEW v, NEW w, NEW j, NEW a,
         \/ j.kind \in {"mark", "unmark"}
         \/ j.kind = "copy" /\ \A t \in Tracks : a.made[t] = None,
         w.track = v.track, w.box = v.box
  PROVE  Applied(v, w, j, a)
BY DEF Applied, TrackSet, BoxSet, Brings, Drops, Places, Takes, Copies

LEMMA CopiesShown ==
  ASSUME NEW v \in View, NEW w, NEW j, NEW a, j.kind = "copy", j.frame \in Frames,
         a.made \in [Tracks -> BoxOrNone], w.track = v.track,
         w.box = [t \in Tracks |-> IF a.made[t] # None THEN [v.box[t] EXCEPT ![j.frame] = a.made[t]]
                                   ELSE v.box[t]]
  PROVE  Applied(v, w, j, a)
<1>1. \A t \in Tracks, h \in Frames :
        w.box[t][h] = IF a.made[t] # None /\ h = j.frame THEN a.made[t] ELSE v.box[t][h]
  BY ViewShape
<1>2. \A t \in Tracks : a.made[t] # None => Rect(a.made[t]) = a.made[t].at
  BY DEF Rect
<1>3. QED BY <1>1, <1>2 DEF Applied, TrackSet, BoxSet, Brings, Drops, Places, Takes, Copies

LEMMA AnswerApplied ==
  ASSUME IInv, Answers, Reply.ok
  PROVE  Applied(labels, labels', Running, Reply)
<1> DEFINE j == Running
           a == Reply
<1>1. PICK kinds, ok : Answered(kinds, ok)
  BY DEF Answers, SavedDraw, SavedMove, SavedDeleteBox, SavedDeleteTrack, SavedUpdate, SavedCopy,
         SavedMark, FailedMove, FailedMark, FailedOther, Undraw, PutBack, RemoveBox, Rename, Unmark,
         Recreate, Refill, Uncopy, Undone, Saved
<1>2. /\ labels \in View /\ JobOK(j)
      /\ j.kind \in {"recreate", "refill"} => j.at \in Rects /\ j.frame \in Frames
      /\ a.was \in TrackOrNone /\ a.made \in [Tracks -> BoxOrNone]
  BY <1>1, AnswerShape DEF IInv, TypeOK
<1> USE DEF Answered, Undone, Saved
<1>3. CASE SavedMove \/ PutBack \/ Refill
  <2>1. j.kind \in {"move", "putBack", "refill"} /\ j.at \in Rects
    BY <1>2, <1>3 DEF SavedMove, PutBack, Refill, JobOK
  <2>2. \/ labels' = Put(labels, j.track, j.frame, Drawn(j.at))
        \/ labels' = Cleared(Put(labels, j.track, j.frame, Drawn(j.at)), j.frame)
    BY <1>3 DEF SavedMove, PutBack, Refill
  <2> HIDE DEF j, a
  <2>3. QED BY <1>2, <2>1, <2>2, Moved DEF j, a
<1>4. CASE SavedDraw \/ Recreate
  <2>1. j.kind \in {"draw", "recreate"} /\ j.at \in Rects
    BY <1>2, <1>4 DEF SavedDraw, Recreate, JobOK
  <2>2. labels' = Cleared(Put([labels EXCEPT !.track[a.track] = a.was], a.track, j.frame, Drawn(j.at)),
                          j.frame)
    BY <1>4 DEF SavedDraw, Recreate
  <2> HIDE DEF j, a
  <2>3. QED BY <1>2, <2>1, <2>2, Added DEF j, a
<1>5. CASE SavedDeleteTrack \/ Undraw
  <2>1. j.kind \in {"deleteTrack", "undraw"} /\ labels' = RemoveTrack(labels, j.track)
    BY <1>5 DEF SavedDeleteTrack, Undraw, Removes
  <2> HIDE DEF j, a
  <2>2. QED BY <1>2, <2>1, Removed DEF j, a
<1>6. CASE SavedDeleteBox \/ RemoveBox \/ Uncopy
  <2>1. /\ j.kind \in {"deleteBox", "remove", "uncopy"}
        /\ labels' = IF a.gone THEN RemoveTrack(labels, j.track) ELSE Put(labels, j.track, j.frame, None)
    BY <1>6 DEF SavedDeleteBox, RemoveBox, Uncopy, TakesAway, Removes
  <2> HIDE DEF j, a
  <2>2. QED BY <1>2, <2>1, TakenAway DEF j, a
<1>7. CASE SavedUpdate \/ Rename
  <2>1. j.kind \in {"update", "rename"} /\ labels' = [labels EXCEPT !.track[j.track] = a.was]
    BY <1>7 DEF SavedUpdate, Rename
  <2> HIDE DEF j, a
  <2>2. QED BY <1>2, <2>1, Renamed DEF j, a
<1>8. CASE SavedMark \/ Unmark
  <2>1. j.kind \in {"mark", "unmark"} /\ labels'.track = labels.track /\ labels'.box = labels.box
    BY <1>2, <1>8 DEF SavedMark, Unmark, View
  <2> HIDE DEF j, a
  <2>2. QED BY <2>1, Same DEF j, a
<1>9. CASE SavedCopy
  <2> DEFINE new == {t \in Tracks : a.made[t] # None}
             box == [t \in Tracks |-> IF t \in new THEN [labels.box[t] EXCEPT ![j.frame] = a.made[t]]
                                      ELSE labels.box[t]]
             put == [labels EXCEPT !.box = box]
  <2>1. j.kind = "copy" /\ j.frame \in Frames
        /\ labels' = IF new = {} THEN labels ELSE Cleared(put, j.frame)
    BY <1>2, <1>9 DEF SavedCopy, JobOK
  <2>2. CASE new = {}
    BY <2>1, <2>2, Same
  <2>3. CASE new # {}
    <3>1. box \in [Tracks -> [Frames -> BoxOrNone]]
      BY <1>2, <2>1, ViewShape
    <3>2. box = [t \in Tracks |-> IF a.made[t] # None
                                  THEN [labels.box[t] EXCEPT ![j.frame] = a.made[t]] ELSE labels.box[t]]
      OBVIOUS
    <3> HIDE DEF box, j, a
    <3>3. put \in View /\ put.track = labels.track /\ put.box = box
      BY <1>2, <3>1, ViewShape DEF View
    <3> HIDE DEF put
    <3>4. labels'.track = labels.track /\ labels'.box = box
      BY <2>1, <2>3, <3>3, ClearedShows
    <3>5. QED BY <1>2, <2>1, <3>2, <3>4, CopiesShown DEF j, a
  <2>4. QED BY <2>2, <2>3
<1>10. ~FailedMove /\ ~FailedMark /\ ~FailedOther
  BY DEF FailedMove, FailedMark, FailedOther
<1>11. QED BY <1>3, <1>4, <1>5, <1>6, <1>7, <1>8, <1>9, <1>10 DEF Answers

(***************************************************************************)
(* The invariant.                                                           *)
(***************************************************************************)
(* The running edit was saved, and the screen does not show it yet. *)
Landed == flight.at = "answered" /\ Reply.ok

(* What the screen shows, or is about to. *)
TrackNow(t) == IF Landed THEN TrackSet(Running, Reply, t, labels.track[t]) ELSE labels.track[t]
BoxNow(t, f) == IF Landed THEN BoxSet(Running, Reply, t, f, Rect(labels.box[t][f]))
                ELSE Rect(labels.box[t][f])

(* A box that was moved on screen before it is saved. *)
Moves(j, t, f) == j.kind = "move" /\ j.track = t /\ j.frame = f
Waits(t, f) == \E i \in DOMAIN queue : i # 1 /\ Moves(queue[i], t, f)
Ahead(t, f) == Waits(t, f) \/ (queue # <<>> /\ ~Landed /\ Moves(Running, t, f))

Mirrored ==
  /\ \A t \in Tracks : TrackNow(t) = SavedTrack(api, page, t)
  /\ \A t \in Tracks, f \in Frames : Ahead(t, f) \/ BoxNow(t, f) = SavedBox(api, page, t, f)

OwnLabels ==
  /\ \A t \in Tracks : labels.track[t] # None => Mine(api, page, t) /\ labels.track[t].clip = page
  /\ \A t \in Tracks, f \in Frames : labels.box[t][f] # None => ClipOf[f] = page
OwnEdits ==
  /\ queue \in Seq(Own(api, page)) /\ undoStack \in Seq(OwnUndos(api, page))
  /\ \A t \in Tracks : remap[t] # None => Mine(api, page, remap[t])
OwnFlight ==
  /\ flight.at = "sent" => flight.answer = Refusal
  /\ flight.at # "idle" => OnItsWay(api, page, Running)
  /\ Landed /\ Running.kind \in {"draw", "recreate"} =>
       Reply.track \in Tracks /\ Mine(api, page, Reply.track)

(* A move that was made while nothing waited knows what is saved until it is. *)
PutsBack ==
  /\ \A i \in DOMAIN queue : i # 1 => ~queue[i].alone
  /\ queue # <<>> /\ Running.kind = "move" /\ Running.alone /\ ~Landed =>
       Rect(Running.prev) = SavedBox(api, page, Running.track, Running.frame)

(* Since the clip was loaded, no answer was lost and no rollback guessed.     *)
Certain == page \in Clips /\ upset \cap {"stale", "guessed", "lost"} = {}
Mirror == OwnLabels /\ OwnEdits /\ OwnFlight /\ Mirrored /\ PutsBack
Faithful == Certain => Mirror

LEMMA SettledOwns == IInv /\ page \in Clips /\ ~Landed /\ OwnEdits /\ Mirrored => OwnLabels
<1> SUFFICES ASSUME IInv, page \in Clips, ~Landed, OwnEdits, Mirrored PROVE OwnLabels
  OBVIOUS
<1>1. api \in Rows /\ Sound(api) /\ labels \in View
  BY DEF IInv, TypeOK
<1>2. ASSUME NEW t \in Tracks, labels.track[t] # None
      PROVE  Mine(api, page, t) /\ labels.track[t].clip = page
  <2>1. labels.track[t] = SavedTrack(api, page, t)
    BY DEF Mirrored, TrackNow
  <2>2. api.track[t] # None /\ api.track[t].clip = page /\ labels.track[t] = api.track[t]
    BY <1>2, <2>1 DEF SavedTrack
  <2>3. t \in Nat /\ api.next \in Nat /\ ~(t >= api.next)
    BY <1>1, <2>2, RowsShape, MaxTracksAssumption DEF Sound, Unused, Tracks
  <2>4. QED BY <2>2, <2>3 DEF Mine
<1>3. ASSUME NEW t \in Tracks, NEW f \in Frames, labels.box[t][f] # None
      PROVE  ClipOf[f] = page
  <2>1. CASE Ahead(t, f)
    <3>1. PICK i \in DOMAIN queue : Moves(queue[i], t, f)
      BY <2>1, Queued DEF Ahead, Waits, Running
    <3>2. queue[i] \in Own(api, page)
      BY <3>1, ElementOfSeq, LenProperties DEF OwnEdits
    <3>3. QED BY <3>1, <3>2 DEF Own, OfPage, Moves
  <2>2. CASE ~Ahead(t, f)
    <3>1. Rect(labels.box[t][f]) = SavedBox(api, page, t, f)
      BY <2>2 DEF Mirrored, BoxNow
    <3>2. Rect(labels.box[t][f]) # None
      BY <1>1, <1>3, RectShape, ViewShape
    <3>3. QED BY <3>1, <3>2 DEF SavedBox
  <2>3. QED BY <2>1, <2>2
<1>4. QED BY <1>2, <1>3 DEF OwnLabels

(* Nothing of it changes. *)
LEMMA MirrorQuiet ==
  ASSUME Mirror, UNCHANGED <<api, page, labels, undoStack, queue, remap, flight>>
  PROVE  Mirror'
<1>1. UNCHANGED <<Running, Reply, Landed>>
  BY DEF Running, Reply, Landed
<1>2. OwnLabels' /\ OwnEdits'
  BY DEF Mirror, OwnLabels, OwnEdits
<1>3. OwnFlight'
  BY <1>1 DEF Mirror, OwnFlight
<1>4. Mirrored'
  BY <1>1 DEF Mirror, Mirrored, TrackNow, BoxNow, Ahead, Waits
<1>5. PutsBack'
  BY <1>1 DEF Mirror, PutsBack
<1>6. QED BY <1>2, <1>3, <1>4, <1>5 DEF Mirror

LEMMA ResolveMine ==
  ASSUME IInv, OwnEdits, NEW t \in Tracks, Mine(api, page, t)
  PROVE  Resolve(t) \in Tracks /\ Mine(api, page, Resolve(t))
<1>1. Resolve(t) \in Tracks
  BY ResolveType
<1> DEFINE S == {t} \union {u \in Tracks : \E v \in Tracks : remap[v] = u}
           last == {u \in Heirs(t) : remap[u] = None}
<1>2. Heirs(t) \subseteq S
  <2>1. remap \in [Tracks -> Tracks \union {None}]
    BY DEF IInv, TypeOK
  <2>2. S \in SUBSET Tracks /\ t \in S /\ \A v \in S : remap[v] \in S \union {None}
    BY <2>1
  <2> HIDE DEF S
  <2>3. QED BY <2>2 DEF Heirs
<1>3. Resolve(t) \in S
  <2>1. CASE remap[t] = None \/ last = {}
    BY <2>1 DEF Resolve
  <2>2. CASE ~(remap[t] = None \/ last = {})
    <3>1. Resolve(t) = CHOOSE u \in last : TRUE
      BY <2>2 DEF Resolve
    <3>2. Resolve(t) \in last
      BY <2>2, <3>1
    <3>3. QED BY <1>2, <3>2
  <2>3. QED BY <2>1, <2>2
<1>4. \A u \in S : Mine(api, page, u)
  <2>1. ASSUME NEW v \in Tracks, remap[v] \in Tracks PROVE Mine(api, page, remap[v])
    <3>1. remap[v] # None
      BY <2>1, NoneAssumption DEF Tracks
    <3>2. QED BY <3>1 DEF OwnEdits
  <2>2. QED BY <2>1
<1>5. QED BY <1>1, <1>3, <1>4

(***************************************************************************)
(* Who waits, when the queue changes.                                       *)
(***************************************************************************)
LEMMA TailMirrors ==
  ASSUME IInv, queue # <<>>, queue' = Tail(queue), ~Landed', PutsBack
  PROVE  /\ \A t \in Tracks, f \in Frames : Waits(t, f) => Ahead(t, f)'
         /\ PutsBack'
<1> DEFINE m == Len(queue)
<1>1. /\ m \in Nat \ {0} /\ DOMAIN queue = 1..m /\ DOMAIN queue' = 1..(m - 1)
      /\ \A i \in 1..(m - 1) : queue'[i] = queue[i + 1]
  BY TailWaits
<1> HIDE DEF m
<1>2. ASSUME NEW t \in Tracks, NEW f \in Frames, NEW i \in DOMAIN queue, i # 1, Moves(queue[i], t, f)
      PROVE  Ahead(t, f)'
  <2>1. i - 1 \in DOMAIN queue' /\ queue'[i - 1] = queue[i]
    <3>1. i \in 1..m /\ i - 1 \in 1..(m - 1) /\ (i - 1) + 1 = i
      BY <1>1, <1>2
    <3>2. QED BY <1>1, <3>1
  <2>2. CASE i - 1 = 1
    <3>1. queue' # <<>> /\ Moves(Running', t, f)
      BY <1>2, <2>1, <2>2 DEF Running
    <3>2. QED BY <3>1 DEF Ahead, Moves
  <2>3. CASE i - 1 # 1
    BY <1>2, <2>1, <2>3 DEF Ahead, Waits, Moves
  <2>4. QED BY <2>2, <2>3
<1>3. \A i \in DOMAIN queue' : ~queue'[i].alone
  <2>1. ASSUME NEW i \in 1..(m - 1) PROVE i + 1 \in DOMAIN queue /\ i + 1 # 1 /\ queue'[i] = queue[i + 1]
    BY <1>1
  <2>2. QED BY <1>1, <2>1 DEF PutsBack
<1>4. queue' # <<>> => ~Running'.alone
  <2>1. queue' # <<>> => 1 \in DOMAIN queue'
    <3>1. queue \in Seq(Good)
      BY DEF IInv, Pending
    <3>2. queue' \in Seq(Good) /\ Len(queue') = m - 1
      BY <3>1, HeadTailProperties DEF m
    <3>3. queue' # <<>> => m - 1 # 0
      BY <3>2, EmptySeq
    <3>4. QED BY <1>1, <3>3
  <2>2. QED BY <1>3, <2>1 DEF Running
<1>5. QED BY <1>2, <1>3, <1>4 DEF Waits, PutsBack

(* The running edit changes. *)
LEMMA ChangeShape ==
  ASSUME IInv, queue # <<>>, NEW j \in Good, queue' = <<j>> \o Tail(queue)
  PROVE  /\ queue' # <<>> /\ Running' = j /\ DOMAIN queue' = DOMAIN queue
         /\ \A i \in DOMAIN queue : i # 1 => queue'[i] = queue[i]
<1> DEFINE m == Len(queue)
           rest == Tail(queue)
<1>1. /\ m \in Nat \ {0} /\ DOMAIN queue = 1..m /\ Len(rest) = m - 1
      /\ \A i \in 1..(m - 1) : rest[i] = queue[i + 1]
  BY TailWaits
<1>2. rest \in Seq(Good)
  BY HeadTailProperties DEF IInv, Pending
<1> HIDE DEF rest, m
<1>3. <<j>> \in Seq(Good) /\ Len(<<j>>) = 1 /\ <<j>>[1] = j
  OBVIOUS
<1>4. /\ queue' \in Seq(Good) /\ Len(queue') = 1 + (m - 1)
      /\ \A i \in 1..(1 + (m - 1)) : queue'[i] = IF i <= 1 THEN <<j>>[i] ELSE rest[i - 1]
  BY <1>1, <1>2, <1>3, ConcatProperties DEF rest
<1>5. DOMAIN queue' = 1..m /\ queue'[1] = j
  BY <1>1, <1>3, <1>4, LenProperties
<1>6. ASSUME NEW i \in 1..m, i # 1 PROVE queue'[i] = queue[i]
  <2>1. i - 1 \in 1..(m - 1) /\ (i - 1) + 1 = i /\ ~(i <= 1) /\ i \in 1..(1 + (m - 1))
    BY <1>1, <1>6
  <2>2. QED BY <1>1, <1>4, <2>1
<1>7. queue' # <<>>
  BY <1>1, <1>4, EmptySeq
<1>8. QED BY <1>1, <1>5, <1>6, <1>7 DEF Running

LEMMA ChangeMirrors ==
  ASSUME IInv, queue # <<>>, NEW j \in Good, queue' = <<j>> \o Tail(queue)
  PROVE  /\ \A t \in Tracks, f \in Frames : Waits(t, f)' <=> Waits(t, f)
         /\ PutsBack /\ j.kind # "move" => PutsBack'
<1>1. /\ Running' = j /\ DOMAIN queue' = DOMAIN queue
      /\ \A i \in DOMAIN queue : i # 1 => queue'[i] = queue[i]
  BY ChangeShape
<1>2. ASSUME NEW t \in Tracks, NEW f \in Frames PROVE Waits(t, f)' <=> Waits(t, f)
  BY <1>1 DEF Waits
<1>3. QED BY <1>1, <1>2 DEF PutsBack

(***************************************************************************)
(* An edit is made.                                                         *)
(***************************************************************************)
(* It waits as what it is, behind those that were made before. *)
LEMMA NewEdit ==
  ASSUME IInv, IInv', NEW job, Enqueue(job)
  PROVE  LET new == Placed(job)
             m == Len(queue)
         IN /\ new \in Good
            /\ new.kind = job.kind /\ new.clip = job.clip /\ new.track = job.track
            /\ new.frame = job.frame /\ new.prev = job.prev /\ new.boxes = job.boxes
            /\ new.alone = (queue = <<>>)
            /\ m \in Nat /\ DOMAIN queue = 1..m /\ DOMAIN queue' = 1..(m + 1)
            /\ \A i \in 1..m : queue'[i] = queue[i]
            /\ queue'[m + 1] = new
            /\ m = 0 <=> queue = <<>>
            /\ queue' # <<>>
            /\ queue' = Append(queue, new)
<1> DEFINE new == Placed(job)
           m == Len(queue)
           S == Good \union {new}
<1>1. queue \in Seq(S) /\ new \in S /\ queue' = Append(queue, new)
  <2>1. queue \in Seq(Good) /\ Good \subseteq S
    BY DEF IInv, Pending
  <2>2. QED BY <2>1, SeqMonotonic DEF Enqueue
<1> HIDE DEF S
<1>2. /\ m \in Nat /\ DOMAIN queue = 1..m /\ DOMAIN queue' = 1..(m + 1)
      /\ \A i \in 1..m : queue'[i] = queue[i]
      /\ queue'[m + 1] = new
      /\ m = 0 <=> queue = <<>>
      /\ queue' # <<>>
  <2> HIDE DEF new
  <2>1. /\ m \in Nat /\ DOMAIN queue = 1..m /\ m = 0 <=> queue = <<>>
    BY <1>1, LenProperties, EmptySeq
  <2>2. /\ queue' \in Seq(S) /\ Len(queue') = m + 1
        /\ \A i \in 1..m : queue'[i] = queue[i]
        /\ queue'[m + 1] = new
    BY <1>1, AppendProperties
  <2>3. DOMAIN queue' = 1..(m + 1) /\ queue' # <<>>
    BY <2>1, <2>2, LenProperties, EmptySeq
  <2>4. QED BY <2>1, <2>2, <2>3
<1>3. new \in Good
  <2>1. queue' \in Seq(Good) /\ m + 1 \in DOMAIN queue'
    BY <1>2 DEF IInv, Pending
  <2>2. queue'[m + 1] \in Good
    BY <2>1, ElementOfSeq, LenProperties
  <2>3. QED BY <1>2, <2>2
<1>4. /\ new.kind = job.kind /\ new.clip = job.clip /\ new.track = job.track
      /\ new.frame = job.frame /\ new.prev = job.prev /\ new.boxes = job.boxes
      /\ new.alone = (queue = <<>>)
  <2>1. DOMAIN new = DOMAIN job
    BY DEF Placed
  <2>2. {"kind", "clip", "track", "frame", "prev", "boxes", "alone"} \subseteq DOMAIN new
    <3> HIDE DEF new
    <3>1. QED BY <1>3 DEF Good, Job
  <2>3. QED BY <2>1, <2>2 DEF Placed
<1>5. QED BY <1>1, <1>2, <1>3, <1>4

(* What can be undone stays of the clip. *)
LEMMA PushOwn ==
  ASSUME NEW rows, NEW p, NEW s \in Seq(OwnUndos(rows, p)), NEW e, OfPage(rows, p, e), e.kind \in Undos,
         Append(s, e) \in Seq(Good)
  PROVE  Append(s, e) \in Seq(OwnUndos(rows, p))
<1> DEFINE S == OwnUndos(rows, p) \union {e}
           m == Len(s)
<1>1. s \in Seq(S) /\ e \in S
  <2>1. OwnUndos(rows, p) \subseteq S
    OBVIOUS
  <2>2. QED BY <2>1, SeqMonotonic
<1> HIDE DEF S
<1>2. /\ m \in Nat /\ Len(Append(s, e)) = m + 1 /\ Append(s, e)[m + 1] = e
  BY <1>1, AppendProperties, LenProperties
<1>3. e \in Good
  <2>1. m + 1 \in 1..(m + 1)
    BY <1>2
  <2>2. QED BY <1>2, <2>1, ElementOfSeq
<1>4. e \in OwnUndos(rows, p)
  BY <1>3 DEF OwnUndos, Own
<1>5. QED BY <1>4, AppendProperties

LEMMA RestOwn ==
  ASSUME NEW S, NEW s \in Seq(S), NEW i \in DOMAIN s
  PROVE  RemoveAt(s, i) \in Seq(S) /\ SubSeq(s, 1, Len(s) - 1) \in Seq(S)
<1>1. Len(s) \in Nat /\ i \in 1..Len(s)
  BY LenProperties
<1>2. /\ SubSeq(s, 1, i - 1) \in Seq(S) /\ SubSeq(s, i + 1, Len(s)) \in Seq(S)
      /\ SubSeq(s, 1, Len(s) - 1) \in Seq(S)
  BY <1>1, SubSeqProperties
<1>3. QED BY <1>2, ConcatProperties DEF RemoveAt

(* The screen shows what it showed, but for a box that is moved. *)
LEMMA EditMirror ==
  ASSUME IInv, IInv', Mirror, page \in Clips, NEW job, OfPage(api, page, job), Enqueue(job),
         UNCHANGED <<api, page, remap, flight>>, undoStack' \in Seq(OwnUndos(api, page)),
         labels'.track = labels.track,
         \A t \in Tracks, f \in Frames :
           Moves(job, t, f) \/ Rect(labels'.box[t][f]) = Rect(labels.box[t][f]),
         job.kind = "move" => Rect(job.prev) = Rect(labels.box[job.track][job.frame])
  PROVE  Mirror'
<1> DEFINE new == Placed(job)
           m == Len(queue)
<1>1. /\ new \in Good
      /\ new.kind = job.kind /\ new.clip = job.clip /\ new.track = job.track
      /\ new.frame = job.frame /\ new.prev = job.prev /\ new.boxes = job.boxes
      /\ new.alone = (queue = <<>>)
      /\ m \in Nat /\ DOMAIN queue = 1..m /\ DOMAIN queue' = 1..(m + 1)
      /\ \A i \in 1..m : queue'[i] = queue[i]
      /\ queue'[m + 1] = new
      /\ m = 0 <=> queue = <<>>
      /\ queue' # <<>>
      /\ queue' = Append(queue, new)
  BY NewEdit
<1>2. new \in Own(api, page)
  <2> HIDE DEF new
  <2>1. QED BY <1>1 DEF Own, OfPage
<1> HIDE DEF new, m
<1>3. \A t \in Tracks, f \in Frames : Moves(job, t, f) <=> Moves(new, t, f)
  BY <1>1 DEF Moves
<1>4. /\ queue # <<>> => Running' = Running
      /\ queue = <<>> => Running' = new /\ flight.at = "idle"
  <2>1. queue # <<>> => 1 \in 1..m
    BY <1>1
  <2>2. queue = <<>> => flight = Idle
    BY DEF IInv, TypeOK
  <2>3. QED BY <1>1, <2>1, <2>2 DEF Running, Idle
<1>5. /\ Reply' = Reply /\ (Landed' <=> Landed)
      /\ queue = <<>> => ~Landed
  BY <1>4 DEF Reply, Landed
<1>6. \A t \in Tracks, f \in Frames : Ahead(t, f) \/ Moves(new, t, f) => Ahead(t, f)'
  <2> SUFFICES ASSUME NEW t \in Tracks, NEW f \in Frames, Ahead(t, f) \/ Moves(new, t, f)
               PROVE  Ahead(t, f)'
    OBVIOUS
  <2>1. CASE Waits(t, f)
    <3>1. PICK i \in 1..m : i # 1 /\ Moves(queue[i], t, f)
      BY <1>1, <2>1 DEF Waits
    <3>2. i \in 1..(m + 1) /\ Moves(queue'[i], t, f)
      BY <1>1, <3>1
    <3>3. QED BY <1>1, <3>1, <3>2 DEF Ahead, Waits, Moves
  <2>2. CASE queue # <<>> /\ ~Landed /\ Moves(Running, t, f)
    BY <1>1, <1>4, <1>5, <2>2 DEF Ahead, Moves
  <2>3. CASE Moves(new, t, f)
    <3>1. CASE queue = <<>>
      BY <1>1, <1>4, <1>5, <2>3, <3>1 DEF Ahead, Moves
    <3>2. CASE queue # <<>>
      <4>1. m + 1 \in 1..(m + 1) /\ m + 1 # 1 /\ Moves(queue'[m + 1], t, f)
        BY <1>1, <2>3, <3>2
      <4>2. QED BY <1>1, <4>1 DEF Ahead, Waits, Moves
    <3>3. QED BY <3>1, <3>2
  <2>4. QED BY <2>1, <2>2, <2>3 DEF Ahead
<1>7. OwnLabels'
  <2>1. ASSUME NEW t \in Tracks, NEW f \in Frames, labels'.box[t][f] # None PROVE ClipOf[f] = page
    <3>1. CASE Moves(new, t, f)
      BY <1>2, <3>1 DEF Own, OfPage, Moves
    <3>2. CASE ~Moves(new, t, f)
      <4>1. Rect(labels'.box[t][f]) = Rect(labels.box[t][f])
        BY <1>3, <3>2
      <4>2. labels'.box[t][f] \in BoxOrNone /\ labels.box[t][f] \in BoxOrNone
        BY ViewShape DEF IInv, TypeOK
      <4>3. labels.box[t][f] # None
        BY <2>1, <4>1, <4>2, RectShape
      <4>4. QED BY <4>3 DEF Mirror, OwnLabels
    <3>3. QED BY <3>1, <3>2
  <2>2. QED BY <2>1 DEF Mirror, OwnLabels
<1>8. OwnEdits'
  <2>1. queue \in Seq(Own(api, page))
    BY DEF Mirror, OwnEdits
  <2>2. queue' \in Seq(Own(api, page))
    BY <1>1, <1>2, <2>1, AppendProperties
  <2>3. QED BY <2>2 DEF Mirror, OwnEdits
<1>9. OwnFlight'
  <2>1. CASE queue = <<>>
    BY <1>4, <1>5, <2>1 DEF OwnFlight
  <2>2. CASE queue # <<>>
    BY <1>4, <1>5, <2>2 DEF Mirror, OwnFlight
  <2>3. QED BY <2>1, <2>2
<1>10. Mirrored'
  <2>1. ASSUME NEW t \in Tracks PROVE TrackNow(t)' = TrackNow(t)
    BY <1>4, <1>5 DEF TrackNow
  <2>2. ASSUME NEW t \in Tracks, NEW f \in Frames, ~Ahead(t, f)'
        PROVE  BoxNow(t, f)' = SavedBox(api, page, t, f)
    <3>1. ~Ahead(t, f) /\ Rect(labels'.box[t][f]) = Rect(labels.box[t][f])
      BY <1>3, <1>6, <2>2
    <3>2. BoxNow(t, f)' = BoxNow(t, f)
      BY <1>4, <1>5, <3>1 DEF BoxNow
    <3>3. QED BY <3>1, <3>2 DEF Mirror, Mirrored
  <2>3. QED BY <2>1, <2>2 DEF Mirror, Mirrored
<1>11. PutsBack'
  <2>1. ASSUME NEW i \in 1..(m + 1), i # 1 PROVE ~queue'[i].alone
    <3>1. CASE i \in 1..m
      BY <1>1, <2>1, <3>1 DEF Mirror, PutsBack
    <3>2. CASE i \notin 1..m
      <4>1. i = m + 1 /\ queue # <<>>
        BY <1>1, <2>1, <3>2
      <4>2. QED BY <1>1, <4>1
    <3>3. QED BY <3>1, <3>2
  <2>2. CASE queue # <<>>
    BY <1>1, <1>4, <1>5, <2>1, <2>2 DEF Mirror, PutsBack
  <2>3. CASE queue = <<>>
    <3>1. Running' = new /\ ~Landed
      BY <1>4, <1>5, <2>3
    <3>2. ASSUME new.kind = "move"
          PROVE  Rect(new.prev) = SavedBox(api, page, new.track, new.frame)
      <4>1. new.track \in Tracks /\ new.frame \in Frames
        BY <1>1, <3>2 DEF Good, JobOK
      <4>2. ~Ahead(new.track, new.frame)
        BY <1>1, <2>3 DEF Ahead, Waits
      <4>3. Rect(labels.box[new.track][new.frame]) = SavedBox(api, page, new.track, new.frame)
        BY <3>1, <4>1, <4>2 DEF Mirror, Mirrored, BoxNow
      <4>4. QED BY <1>1, <3>2, <4>3
    <3>3. QED BY <1>1, <1>4, <1>5, <2>1, <3>1, <3>2 DEF PutsBack
  <2>4. QED BY <2>2, <2>3
<1>12. QED BY <1>7, <1>8, <1>9, <1>10, <1>11 DEF Mirror

LEMMA MoveMirror ==
  ASSUME IInv, IInv', Mirror, page \in Clips, NEW t \in Tracks, NEW f \in Frames, ClipOf[f] = page,
         NEW at \in Rects, Move(t, f, at), UNCHANGED <<api, page, undoStack, remap, flight>>
  PROVE  Mirror'
<1> DEFINE prev == labels.box[t][f]
           now == IF prev = None THEN Drawn(at)
                  ELSE [at |-> at, is |-> IF prev.is = "accepted" THEN "verified" ELSE prev.is]
           job == [Blank("move") EXCEPT !.track = t, !.frame = f, !.at = at, !.prev = prev]
<1>1. Enqueue(job) /\ labels' = Put(labels, t, f, now)
  BY DEF Move, Put
<1>2. now \in BoxOrNone
  <2>1. prev \in BoxOrNone
    BY OnScreen
  <2> HIDE DEF prev
  <2>2. QED BY <2>1, Bits DEF BoxOrNone, Box
<1>3. job.kind = "move" /\ job.track = t /\ job.frame = f /\ job.prev = prev
  <2> HIDE DEF prev
  <2>1. QED BY DEF Blank
<1> HIDE DEF now, job
<1>4. labels \in View
  BY DEF IInv, TypeOK
<1>5. /\ labels'.track = labels.track
      /\ \A u \in Tracks, g \in Frames :
           (u = t /\ g = f) \/ labels'.box[u][g] = labels.box[u][g]
  BY <1>1, <1>2, <1>4, PutShows
<1>6. OfPage(api, page, job)
  BY <1>3 DEF OfPage
<1>7. \A u \in Tracks, g \in Frames :
        Moves(job, u, g) \/ Rect(labels'.box[u][g]) = Rect(labels.box[u][g])
  BY <1>3, <1>5 DEF Moves
<1>8. undoStack' \in Seq(OwnUndos(api, page))
  BY DEF Mirror, OwnEdits
<1>9. QED BY <1>1, <1>3, <1>5, <1>6, <1>7, <1>8, EditMirror

LEMMA WaitMirror ==
  ASSUME IInv, IInv', Mirror, page \in Clips, NEW job, Enqueue(job), job.kind # "move",
         OfPage(api, page, job), undoStack' \in Seq(OwnUndos(api, page)),
         UNCHANGED <<api, page, labels, remap, flight>>
  PROVE  Mirror'
BY EditMirror

LEMMA SaySame ==
  ASSUME NEW box \in [Tracks -> [Frames -> BoxOrNone]], NEW who, NEW f,
         NEW is \in {"proposed", "verified", "accepted"},
         \A t \in who : box[t][f] # None
  PROVE  \A t \in Tracks, g \in Frames : Rect(Say(box, who, f, is)[t][g]) = Rect(box[t][g])
<1> SUFFICES ASSUME NEW t \in Tracks, NEW g \in Frames
             PROVE  Rect(Say(box, who, f, is)[t][g]) = Rect(box[t][g])
  OBVIOUS
<1> DEFINE b == box[t]
           old == b[f]
           new == [old EXCEPT !.is = is]
<1>1. Say(box, who, f, is)[t] = IF t \in who THEN [b EXCEPT ![f] = new] ELSE b
  BY DEF Say
<1>2. CASE t \in who /\ g = f
  <2>1. b \in [Frames -> BoxOrNone] /\ old \in BoxOrNone
    BY <1>2
  <2>2. old \in Box
    BY <1>2, <2>1 DEF BoxOrNone
  <2>3. new.at = old.at /\ new # None
    <3>1. new = [at |-> old.at, is |-> is]
      BY <2>2 DEF Box
    <3>2. new \in Box
      BY <2>2, <3>1 DEF Box
    <3>3. QED BY <3>1, <3>2, NoneAssumption DEF Box
  <2>4. Say(box, who, f, is)[t][g] = new
    BY <1>1, <1>2, <2>1
  <2> HIDE DEF new, old
  <2>5. Rect(new) = Rect(old)
    BY <2>2, <2>3, NoneAssumption DEF Rect, Box
  <2>6. QED BY <1>2, <2>4, <2>5 DEF old
<1>3. CASE ~(t \in who /\ g = f)
  BY <1>1, <1>3
<1>4. QED BY <1>2, <1>3

LEMMA MarkMirror ==
  ASSUME IInv, IInv', Mirror, page \in Clips, NEW f \in Frames, NEW status \in Statuses,
         Mark(f, status)
  PROVE  Mirror'
<1> DEFINE before == labels.status[f]
           accepted == IF status = "labeled" THEN Proposed(f) ELSE {}
           job == [Blank("mark") EXCEPT !.frame = f, !.status = status, !.before = before,
                     !.tracks = accepted]
           undo == [Blank("unmark") EXCEPT !.frame = f, !.status = before, !.n = made + 1]
           box == Say(labels.box, accepted, f, "accepted")
<1>1. /\ labels' = [labels EXCEPT !.status[f] = status, !.box = box]
      /\ undoStack' = IF before = status THEN undoStack ELSE Append(undoStack, undo)
      /\ Enqueue(job) /\ UNCHANGED <<api, page, remap, flight>>
  BY DEF Mark
<1>2. job.kind = "mark" /\ undo.kind = "unmark"
  BY DEF Blank
<1>3. \A t \in accepted : labels.box[t][f] # None
  BY DEF Proposed, Shown
<1> HIDE DEF job, undo, accepted
<1>4. \A t \in Tracks, g \in Frames : Rect(box[t][g]) = Rect(labels.box[t][g])
  <2> DEFINE is == "accepted"
             old == labels.box
  <2>1. /\ \A t \in accepted : old[t][f] # None
        /\ old \in [Tracks -> [Frames -> BoxOrNone]] /\ is \in {"proposed", "verified", "accepted"}
    BY <1>3, OnScreen
  <2> HIDE DEF is, old
  <2>2. \A t \in Tracks, g \in Frames : Rect(Say(old, accepted, f, is)[t][g]) = Rect(old[t][g])
    BY <2>1, SaySame
  <2>3. QED BY <2>2 DEF is, old
<1> HIDE DEF box
<1>5. labels'.track = labels.track /\ labels'.box = box
  BY <1>1 DEF IInv, TypeOK, View
<1>6. OfPage(api, page, job) /\ OfPage(api, page, undo)
  BY <1>2 DEF OfPage
<1>7. undoStack' \in Seq(OwnUndos(api, page))
  <2>1. undoStack' \in Seq(Good) /\ undoStack \in Seq(OwnUndos(api, page))
    BY DEF IInv, Pending, Mirror, OwnEdits
  <2>2. undo.kind \in Undos
    BY <1>2 DEF Undos
  <2>3. QED BY <1>1, <1>6, <2>1, <2>2, PushOwn
<1>8. QED BY <1>1, <1>2, <1>4, <1>5, <1>6, <1>7, EditMirror

LEMMA UndoMirror ==
  ASSUME IInv, IInv', Mirror, page \in Clips, Undo
  PROVE  Mirror'
<1> DEFINE m == Len(undoStack)
           job == undoStack[m]
<1>1. undoStack \in Seq(OwnUndos(api, page)) /\ undoStack # <<>>
  BY DEF Mirror, OwnEdits, Undo
<1>2. m \in Nat /\ m > 0 /\ m \in DOMAIN undoStack
  BY <1>1, LenProperties, EmptySeq
<1>3. job \in OwnUndos(api, page)
  BY <1>1, <1>2, ElementOfSeq
<1>4. undoStack' \in Seq(OwnUndos(api, page))
  BY <1>1, <1>2, RestOwn DEF Undo
<1>5. Enqueue(job) /\ UNCHANGED <<api, page, labels, remap, flight>>
  BY DEF Undo
<1> HIDE DEF job
<1>6. OfPage(api, page, job) /\ job.kind # "move"
  BY <1>3 DEF OwnUndos, Own, Undos
<1>7. QED BY <1>4, <1>5, <1>6, WaitMirror

LEMMA EditsMirror ==
  ASSUME IInv, IInv', Mirror, page \in Clips, Edit
  PROVE  Mirror'
<1>1. /\ \A t \in Tracks : labels.track[t] # None => Mine(api, page, t) /\ labels.track[t].clip = page
      /\ \A t \in Tracks, f \in Frames : labels.box[t][f] # None => ClipOf[f] = page
      /\ undoStack \in Seq(OwnUndos(api, page))
      /\ \A f \in FramesOf(page) : ClipOf[f] = page
      /\ selected \in Tracks \union {None}
      /\ \A t \in Tracks : Resolve(t) \in Tracks
  BY FrameOnPage, ResolveType, OnScreen DEF Mirror, OwnLabels, OwnEdits
<1>2. ASSUME NEW t \in Tracks, NEW f \in Frames, NEW at \in Rects, MoveBox(t, f, at) PROVE Mirror'
  BY <1>1, <1>2, MoveMirror DEF MoveBox
<1>3. ASSUME NEW f \in Frames, NEW at \in Rects, NEW type \in Types, DrawBox(f, at, type) PROVE Mirror'
  <2>1. f \in FramesOf(page) /\ UNCHANGED <<api, page, undoStack, remap, flight>>
    BY <1>3 DEF DrawBox
  <2>2. CASE selected # None /\ ~Shown(selected, f)
    BY <1>1, <1>3, <2>1, <2>2, MoveMirror DEF DrawBox
  <2>3. CASE ~(selected # None /\ ~Shown(selected, f))
    <3> DEFINE job == [Blank("draw") EXCEPT !.clip = IdOf(page), !.frame = f, !.at = at, !.type = type]
    <3>1. Enqueue(job) /\ UNCHANGED labels
      BY <1>3, <2>3 DEF DrawBox
    <3>2. job.kind = "draw" /\ job.clip = page
      BY NoGoldClip DEF Blank, IdOf
    <3> HIDE DEF job
    <3>3. OfPage(api, page, job) /\ job.kind # "move"
      BY <3>2 DEF OfPage
    <3>4. QED BY <1>1, <2>1, <3>1, <3>3, WaitMirror
  <2>4. QED BY <2>2, <2>3
<1>4. ASSUME NEW f \in Frames, DeleteSelected(f) PROVE Mirror'
  <2> DEFINE t == Resolve(selected)
             job == [Blank("deleteBox") EXCEPT !.track = t, !.frame = f,
                       !.prev = labels.box[t][f], !.clip = labels.track[t].clip,
                       !.type = labels.track[t].type]
  <2>1. /\ Enqueue(job) /\ f \in FramesOf(page) /\ t \in Tracks /\ labels.track[t] # None
        /\ UNCHANGED <<api, page, labels, undoStack, remap, flight>>
    BY <1>1, <1>4 DEF DeleteSelected, storeVars
  <2>2. job.kind = "deleteBox" /\ job.clip = labels.track[t].clip /\ job.frame = f
    <3> HIDE DEF t
    <3>1. QED BY DEF Blank
  <2> HIDE DEF job
  <2>3. OfPage(api, page, job) /\ job.kind # "move"
    BY <1>1, <2>1, <2>2 DEF OfPage
  <2>4. QED BY <1>1, <2>1, <2>3, WaitMirror
<1>5. ASSUME NEW t \in Tracks, DeleteWhole(t) PROVE Mirror'
  <2> DEFINE u == Resolve(t)
             job == [Blank("deleteTrack") EXCEPT !.track = u, !.boxes = labels.box[u],
                       !.clip = labels.track[u].clip, !.type = labels.track[u].type]
  <2>1. /\ Enqueue(job) /\ u \in Tracks /\ labels.track[u] # None
        /\ UNCHANGED <<api, page, labels, undoStack, remap, flight>>
    BY <1>1, <1>5 DEF DeleteWhole, storeVars
  <2>2. job.kind = "deleteTrack" /\ job.clip = labels.track[u].clip /\ job.boxes = labels.box[u]
    <3> HIDE DEF u
    <3>1. QED BY DEF Blank
  <2> HIDE DEF job
  <2>3. OfPage(api, page, job) /\ job.kind # "move"
    BY <1>1, <2>1, <2>2 DEF OfPage
  <2>4. QED BY <1>1, <2>1, <2>3, WaitMirror
<1>6. ASSUME NEW t \in Tracks, NEW type \in Types, Retype(t, type) PROVE Mirror'
  <2> DEFINE u == Resolve(t)
             job == [Blank("update") EXCEPT !.track = u, !.type = type, !.old = labels.track[u].type]
  <2>1. /\ Enqueue(job) /\ u \in Tracks /\ labels.track[u] # None
        /\ UNCHANGED <<api, page, labels, undoStack, remap, flight>>
    BY <1>1, <1>6 DEF Retype, storeVars
  <2>2. job.kind = "update" /\ job.track = u
    <3> HIDE DEF u
    <3>1. QED BY DEF Blank
  <2> HIDE DEF job
  <2>3. OfPage(api, page, job) /\ job.kind # "move"
    BY <1>1, <2>1, <2>2 DEF OfPage
  <2>4. QED BY <1>1, <2>1, <2>3, WaitMirror
<1>7. ASSUME NEW f \in Frames, NEW g \in Frames, CopyForward(f, g) PROVE Mirror'
  <2> DEFINE job == [Blank("copy") EXCEPT !.from = f, !.frame = g]
  <2>1. /\ Enqueue(job) /\ g \in FramesOf(page)
        /\ UNCHANGED <<api, page, labels, undoStack, remap, flight>>
    BY <1>7 DEF CopyForward, storeVars
  <2>2. job.kind = "copy" /\ job.frame = g
    BY DEF Blank
  <2> HIDE DEF job
  <2>3. OfPage(api, page, job) /\ job.kind # "move"
    BY <1>1, <2>1, <2>2 DEF OfPage
  <2>4. QED BY <1>1, <2>1, <2>3, WaitMirror
<1>8. ASSUME NEW f \in Frames, NEW new \in Drawable, DrawBox(f, new[1], new[2]) PROVE Mirror'
  BY <1>3, <1>8, DrawableAssumption
<1>9. QED BY <1>2, <1>4, <1>5, <1>6, <1>7, <1>8, MarkMirror, UndoMirror DEF Edit

(***************************************************************************)
(* A request is sent and served.                                            *)
(***************************************************************************)
LEMMA StartedOwn ==
  ASSUME IInv, OwnEdits, NEW j \in Own(api, page), Started(j) \in Good, Started(j).kind = j.kind,
         j.kind \in {"recreate", "refill"} => Started(j).at \in Rects /\ Started(j).frame \in Frames
  PROVE  /\ OnItsWay(api, page, Started(j))
         /\ j.kind = "move" => Started(j) = j
<1> DEFINE k == Started(j)
<1>1. j \in Good /\ j \in Job /\ JobOK(j) /\ OfPage(api, page, j)
  BY DEF Own, Good
<1>2. k.clip = j.clip /\ k.boxes = j.boxes
  BY <1>1 DEF Started, Job
<1>3. j.kind \in {"putBack", "deleteBox", "copy", "move"} => k.frame = j.frame
  BY <1>1 DEF Started, Job
<1>4. j.kind \in {"update", "rename"} => Mine(api, page, k.track)
  <2>1. j.kind = "update" => k = j
    BY DEF Started
  <2>2. j.kind = "rename" => k.track = Resolve(j.track) /\ j.track \in Tracks
    BY <1>1 DEF Started, Job, JobOK
  <2>3. QED BY <1>1, <2>1, <2>2, ResolveMine DEF OfPage
<1>5. j.kind = "refill" => ClipOf[k.frame] = page
  <2> SUFFICES ASSUME j.kind = "refill" PROVE ClipOf[k.frame] = page
    OBVIOUS
  <2>1. j.boxes \in [Frames -> BoxOrNone] /\ j.boxes # NoBoxes
    BY <1>1, JobShape DEF JobOK
  <2>2. Filled(j.boxes) # {}
    BY <2>1 DEF Filled, NoBoxes
  <2> DEFINE f == Least(Filled(j.boxes))
             at == j.boxes[f].at
  <2>3. f \in Filled(j.boxes)
    BY <2>2, LeastIn, FramesAssumption DEF Filled
  <2>4. k = [j EXCEPT !.frame = f, !.at = at]
    BY <2>2 DEF Started
  <2> HIDE DEF f, at, k
  <2>5. k.frame = f
    BY <1>1, <2>4 DEF Job
  <2>6. QED BY <1>1, <2>3, <2>5 DEF Filled, OfPage
<1>6. j.kind = "move" => k = j
  BY DEF Started
<1> HIDE DEF k
<1>7. OfPage(api, page, k)
  BY <1>1, <1>2, <1>3, <1>4 DEF OfPage, k
<1>8. QED BY <1>5, <1>6, <1>7 DEF OnItsWay, Own, k

LEMMA SendMirror ==
  ASSUME IInv, Apart, Mirror, page \in Clips, Send
  PROVE  Mirror'
<1> DEFINE j == Started(Running)
           over == j.kind = "recreate" /\ j.boxes = NoBoxes
<1>1. /\ queue # <<>> /\ flight = Idle /\ ~Landed
      /\ UNCHANGED <<api, page, labels, undoStack, remap>>
  BY DEF Send, IInv, InFlight, storeVars, Landed, Idle
<1>2. Running \in Own(api, page) /\ Running \in Good /\ queue \in Seq(Own(api, page))
  <2>1. queue \in Seq(Own(api, page))
    BY DEF Mirror, OwnEdits
  <2>2. QED BY <1>1, <2>1, Queued, HeadTailProperties
<1>3. Started(Running).kind = Running.kind /\ Started(Running).boxes = Running.boxes
  <2>1. Running \in Job
    BY <1>2 DEF Good
  <2> DEFINE r == Running
  <2> HIDE DEF r
  <2>2. r \in Job => Started(r).kind = r.kind /\ Started(r).boxes = r.boxes
    BY DEF Started, Job
  <2>3. QED BY <2>1, <2>2 DEF r
<1>4. CASE over
  <2>1. queue' = Tail(queue) /\ UNCHANGED flight
    BY <1>4 DEF Send
  <2>2. ~Landed'
    BY <1>1, <2>1 DEF Landed, Idle
  <2>3. /\ \A t \in Tracks, f \in Frames : Waits(t, f) => Ahead(t, f)'
        /\ PutsBack'
    BY <1>1, <2>1, <2>2, TailMirrors DEF Mirror
  <2>4. \A t \in Tracks, f \in Frames : Ahead(t, f) => Ahead(t, f)'
    BY <1>3, <1>4, <2>3 DEF Ahead, Moves
  <2>5. Mirrored'
    BY <1>1, <2>2, <2>4 DEF Mirror, Mirrored, TrackNow, BoxNow
  <2>6. OwnEdits'
    <3>1. Tail(queue) \in Seq(Own(api, page))
      BY <1>1, <1>2, HeadTailProperties
    <3>2. QED BY <1>1, <2>1, <3>1 DEF Mirror, OwnEdits
  <2>7. OwnFlight' /\ OwnLabels'
    BY <1>1, <2>1, <2>2 DEF Mirror, OwnFlight, OwnLabels, Idle
  <2>8. QED BY <2>3, <2>5, <2>6, <2>7 DEF Mirror
<1>5. CASE ~over
  <2>1. j \in Good /\ (Running.kind \in {"recreate", "refill"} => j.at \in Rects /\ j.frame \in Frames)
    BY <1>2, <1>3, <1>5, StartedGood
  <2>2. OnItsWay(api, page, j) /\ (Running.kind = "move" => j = Running)
    BY <1>2, <1>3, <2>1, StartedOwn DEF Mirror
  <2>3. backend = "api"
    BY NoGoldClip DEF Apart, BackendFor
  <2>4. queue' = <<j>> \o Tail(queue) /\ flight' = [Idle EXCEPT !.at = "sent"]
    BY <1>5, <2>3 DEF Send
  <2>5. j.kind = Running.kind
    BY <1>3
  <2> HIDE DEF j
  <2>6. ~Landed' /\ flight'.at = "sent" /\ flight'.answer = Refusal
    BY <2>4 DEF Landed, Idle
  <2>7. /\ queue' # <<>> /\ Running' = j /\ DOMAIN queue' = DOMAIN queue
        /\ \A i \in DOMAIN queue : i # 1 => queue'[i] = queue[i]
    BY <1>1, <2>1, <2>4, ChangeShape
  <2>8. \A t \in Tracks, f \in Frames : Waits(t, f)' <=> Waits(t, f)
    BY <1>1, <2>1, <2>4, ChangeMirrors
  <2>9. \A t \in Tracks, f \in Frames : Ahead(t, f)' <=> Ahead(t, f)
    BY <1>1, <2>2, <2>5, <2>6, <2>7, <2>8 DEF Ahead, Moves
  <2>10. Mirrored'
    BY <1>1, <2>6, <2>9 DEF Mirror, Mirrored, TrackNow, BoxNow
  <2>11. PutsBack'
    BY <1>1, <2>2, <2>5, <2>6, <2>7 DEF Mirror, PutsBack
  <2>12. OwnEdits'
    <3>1. Tail(queue) \in Seq(Own(api, page)) /\ j \in Own(api, page)
      BY <1>1, <1>2, <2>2, HeadTailProperties DEF OnItsWay
    <3>2. <<j>> \in Seq(Own(api, page))
      BY <3>1
    <3>3. queue' \in Seq(Own(api, page))
      BY <2>4, <3>1, <3>2, ConcatProperties
    <3>4. QED BY <1>1, <3>3 DEF Mirror, OwnEdits
  <2>13. OwnFlight' /\ OwnLabels'
    BY <1>1, <2>2, <2>6, <2>7 DEF Mirror, OwnFlight, OwnLabels
  <2>14. QED BY <2>10, <2>11, <2>12, <2>13 DEF Mirror
<1>6. QED BY <1>4, <1>5

LEMMA ServeMirror ==
  ASSUME IInv, IInv', Mirror, page \in Clips, Serve
  PROVE  Mirror'
<1> DEFINE done == Handle(api, RequestOf(Running))
           j == Running
           a == done.answer
           rows == done.rows
<1>1. /\ api' = rows /\ flight' = [flight EXCEPT !.at = "answered", !.answer = a]
      /\ flight.at = "sent" /\ ~Landed
      /\ UNCHANGED <<page, labels, undoStack, queue, remap>>
  BY DEF Serve, storeVars, Landed
<1>2. /\ queue # <<>> /\ j \in Good /\ OnItsWay(api, page, j)
      /\ api \in Rows /\ Sound(api) /\ rows \in Rows
  BY <1>1, InTransit, FlightShape DEF Mirror, OwnFlight, IInv, TypeOK
<1>3. Effect(api, rows, j, a)
  BY <1>2, HandleDoes DEF OnItsWay
<1>4. flight'.at = "answered" /\ Reply' = a /\ (Landed' <=> a.ok) /\ Running' = j
  <2> HIDE DEF a
  <2>1. flight'.at = "answered" /\ flight'.answer = a
    BY <1>1, FlightShape DEF Flight
  <2>2. QED BY <1>1, <2>1 DEF Landed, Reply, Running
<1> HIDE DEF done, a, rows, j
<1>5. \A t \in Tracks : Mine(api, page, t) => Mine(rows, page, t)
  BY <1>2, <1>3, MineKept
<1>6. Own(api, page) \subseteq Own(rows, page)
  BY <1>2, <1>3, OwnKept
<1>7. OwnLabels'
  BY <1>1, <1>5 DEF Mirror, OwnLabels
<1>8. OwnEdits'
  <2>1. OwnUndos(api, page) \subseteq OwnUndos(rows, page)
    BY <1>6 DEF OwnUndos
  <2>2. queue' \in Seq(Own(rows, page)) /\ undoStack' \in Seq(OwnUndos(rows, page))
    BY <1>1, <1>6, <2>1, SeqMonotonic DEF Mirror, OwnEdits
  <2>3. \A t \in Tracks : remap[t] # None => Mine(rows, page, remap[t])
    <3>1. \A t \in Tracks : remap[t] # None => remap[t] \in Tracks /\ Mine(api, page, remap[t])
      BY OnScreen DEF Mirror, OwnEdits
    <3>2. QED BY <1>5, <3>1
  <2>4. QED BY <1>1, <2>2, <2>3 DEF OwnEdits
<1>9. OwnFlight'
  <2>1. OnItsWay(rows, page, j)
    BY <1>2, <1>6 DEF OnItsWay
  <2>2. a.ok /\ j.kind \in {"draw", "recreate"} => a.track \in Tracks /\ Mine(rows, page, a.track)
    <3>1. j.kind \in {"draw", "recreate"} => j.clip = page
      BY <1>2 DEF OnItsWay, Own, OfPage
    <3>2. QED BY <1>2, <1>3, <3>1, MadeMine
  <2>3. QED BY <1>1, <1>4, <2>1, <2>2 DEF OwnFlight
<1>10. \A t \in Tracks : labels.track[t] = SavedTrack(api, page, t)
  BY <1>1 DEF Mirror, Mirrored, TrackNow
<1>11. \A t \in Tracks, f \in Frames :
         Ahead(t, f) \/ Rect(labels.box[t][f]) = SavedBox(api, page, t, f)
  BY <1>1 DEF Mirror, Mirrored, BoxNow
<1>12. \A t \in Tracks, f \in Frames :
         Ahead(t, f) => Ahead(t, f)' \/ (a.ok /\ Moves(j, t, f))
  BY <1>1, <1>4 DEF Ahead, Waits, Moves, j
<1>13. CASE a.ok
  <2>1. ASSUME NEW t \in Tracks
        PROVE  /\ SavedTrack(rows, page, t) = TrackSet(j, a, t, SavedTrack(api, page, t))
               /\ \A f \in Frames :
                    SavedBox(rows, page, t, f) = BoxSet(j, a, t, f, SavedBox(api, page, t, f))
    BY <1>2, <1>3, <1>13, SavedAs
  <2>2. ASSUME NEW t \in Tracks PROVE TrackNow(t)' = SavedTrack(rows, page, t)
    BY <1>1, <1>4, <1>10, <1>13, <2>1 DEF TrackNow
  <2>3. ASSUME NEW t \in Tracks, NEW f \in Frames, ~Ahead(t, f)'
        PROVE  BoxNow(t, f)' = SavedBox(rows, page, t, f)
    <3>1. BoxNow(t, f)' = BoxSet(j, a, t, f, Rect(labels.box[t][f]))
      BY <1>1, <1>4, <1>13 DEF BoxNow
    <3>2. CASE Moves(j, t, f)
      <4>1. Places(j, a, t, f)
        BY <3>2 DEF Moves, Places
      <4>2. QED BY <2>1, <3>1, <4>1 DEF BoxSet
    <3>3. CASE ~Moves(j, t, f)
      <4>1. Rect(labels.box[t][f]) = SavedBox(api, page, t, f)
        BY <1>11, <1>12, <2>3, <3>3
      <4>2. QED BY <2>1, <3>1, <4>1
    <3>4. QED BY <3>2, <3>3
  <2>4. Mirrored'
    BY <1>1, <2>2, <2>3 DEF Mirrored
  <2>5. PutsBack'
    BY <1>1, <1>4, <1>13 DEF Mirror, PutsBack
  <2>6. QED BY <1>7, <1>8, <1>9, <2>4, <2>5 DEF Mirror
<1>14. CASE ~a.ok
  <2>1. rows = api
    BY <1>3, <1>14 DEF Effect
  <2>2. Mirrored'
    BY <1>1, <1>4, <1>10, <1>11, <1>12, <1>14, <2>1 DEF Mirrored, TrackNow, BoxNow
  <2>3. PutsBack'
    BY <1>1, <1>4, <1>14, <2>1 DEF Mirror, PutsBack, j
  <2>4. QED BY <1>7, <1>8, <1>9, <2>2, <2>3 DEF Mirror
<1>15. QED BY <1>13, <1>14

LEMMA LoseMirror ==
  ASSUME IInv, Mirror, page \in Clips, LoseRequest
  PROVE  Mirror'
<1>1. /\ flight.at = "sent" /\ flight' = [flight EXCEPT !.at = "answered"]
      /\ UNCHANGED <<api, page, labels, undoStack, queue, remap>>
  BY DEF LoseRequest, storeVars
<1>2. flight.answer = Refusal
  BY <1>1 DEF Mirror, OwnFlight
<1>3. /\ flight'.at = "answered" /\ ~Landed /\ ~Landed' /\ Running' = Running
  <2>1. flight'.answer = flight.answer /\ flight'.at = "answered"
    BY <1>1, FlightShape DEF Flight
  <2>2. ~Refusal.ok
    BY DEF Refusal
  <2>3. QED BY <1>1, <1>2, <2>1, <2>2 DEF Landed, Reply, Running
<1>4. OwnLabels' /\ OwnEdits'
  BY <1>1 DEF Mirror, OwnLabels, OwnEdits
<1>5. OwnFlight'
  BY <1>1, <1>3 DEF Mirror, OwnFlight
<1>6. Mirrored'
  BY <1>1, <1>3 DEF Mirror, Mirrored, TrackNow, BoxNow, Ahead, Waits, Moves
<1>7. PutsBack'
  BY <1>1, <1>3 DEF Mirror, PutsBack
<1>8. QED BY <1>4, <1>5, <1>6, <1>7 DEF Mirror

(***************************************************************************)
(* An edit was answered.                                                    *)
(***************************************************************************)
LEMMA NextOwns == (IInv /\ page \in Clips /\ ~Landed /\ OwnEdits /\ Mirrored => OwnLabels)'
BY SettledOwns, PTL

LEMMA TailOwn ==
  ASSUME OwnEdits, queue # <<>>
  PROVE  Tail(queue) \in Seq(Own(api, page)) /\ Running \in Own(api, page)
BY HeadTailProperties DEF OwnEdits, Running

LEMMA LeftOwn ==
  ASSUME IInv, IInv', OwnEdits, queue # <<>>, NEW j, queue' = <<j>> \o Tail(queue),
         OfPage(api, page, j)
  PROVE  j \in Good /\ queue' \in Seq(Own(api, page))
<1> DEFINE S == Own(api, page) \union {j}
           rest == Tail(queue)
<1>1. rest \in Seq(S) /\ <<j>> \in Seq(S) /\ Len(<<j>>) = 1 /\ <<j>>[1] = j
  <2>1. rest \in Seq(Own(api, page)) /\ Own(api, page) \subseteq S /\ j \in S
    BY TailOwn
  <2>2. rest \in Seq(S)
    BY <2>1, SeqMonotonic
  <2> HIDE DEF S
  <2>3. QED BY <2>1, <2>2
<1> HIDE DEF S
<1>2. Len(rest) \in Nat
  BY <1>1, LenProperties
<1>3. /\ queue' \in Seq(S) /\ Len(queue') = 1 + Len(rest)
      /\ \A i \in 1..(1 + Len(rest)) : queue'[i] = IF i <= 1 THEN <<j>>[i] ELSE rest[i - 1]
  BY <1>1, ConcatProperties
<1>4. queue'[1] = j /\ 1 \in 1..Len(queue')
  BY <1>1, <1>2, <1>3
<1>5. j \in Good
  <2>1. queue' \in Seq(Good)
    BY DEF IInv, Pending
  <2>2. QED BY <1>4, <2>1, ElementOfSeq
<1>6. j \in Own(api, page)
  BY <1>5 DEF Own
<1>7. <<j>> \in Seq(Own(api, page)) /\ rest \in Seq(Own(api, page))
  BY <1>6, TailOwn
<1>8. QED BY <1>5, <1>7, ConcatProperties

LEMMA PushedOwn ==
  ASSUME IInv', OwnEdits, NEW entry, Pushes(entry), OfPage(api, page, entry), entry.kind \in Undos
  PROVE  undoStack' \in Seq(OwnUndos(api, page))
<1>1. Append(undoStack, entry) \in Seq(Good) /\ undoStack \in Seq(OwnUndos(api, page))
  BY DEF IInv, Pending, OwnEdits, Pushes
<1>2. QED BY <1>1, PushOwn DEF Pushes

LEMMA AnswersWhen ==
  ASSUME Answers
  PROVE  flight.at = "answered" /\ UNCHANGED <<api, page>>
<1>1. PICK kinds, ok : Answered(kinds, ok)
  BY DEF Answers, SavedDraw, SavedMove, SavedDeleteBox, SavedDeleteTrack, SavedUpdate, SavedCopy,
         SavedMark, FailedMove, FailedMark, FailedOther, Undraw, PutBack, RemoveBox, Rename, Unmark,
         Recreate, Refill, Uncopy, Undone, Saved
<1>2. QED BY <1>1 DEF Answered

(* The screen shows it now. *)
LEMMA SavedMirror ==
  ASSUME IInv, IInv', Mirror, page \in Clips, Answers, Reply.ok, OwnEdits',
         \/ queue' = Tail(queue)
         \/ \E j \in Good : j.kind # "move" /\ queue' = <<j>> \o Tail(queue)
  PROVE  Mirror'
<1>1. /\ Landed /\ queue # <<>> /\ flight' = Idle /\ ~Landed' /\ flight'.at = "idle"
      /\ UNCHANGED <<api, page>>
  BY AnswersWhen, AnswersEnd DEF Landed, Idle
<1>2. Applied(labels, labels', Running, Reply)
  BY AnswerApplied
<1>3. /\ PutsBack'
      /\ \A t \in Tracks, f \in Frames : Waits(t, f) => Ahead(t, f)'
  <2>1. CASE queue' = Tail(queue)
    BY <1>1, <2>1, TailMirrors DEF Mirror
  <2>2. ASSUME NEW j \in Good, j.kind # "move", queue' = <<j>> \o Tail(queue)
        PROVE  /\ PutsBack'
               /\ \A t \in Tracks, f \in Frames : Waits(t, f) => Ahead(t, f)'
    <3>1. /\ PutsBack'
          /\ \A t \in Tracks, f \in Frames : Waits(t, f)' <=> Waits(t, f)
      BY <1>1, <2>2, ChangeMirrors DEF Mirror
    <3>2. QED BY <3>1 DEF Ahead
  <2>3. QED BY <2>1, <2>2
<1>4. Mirrored'
  <2>1. ASSUME NEW t \in Tracks PROVE TrackNow(t)' = SavedTrack(api, page, t)
    <3>1. TrackNow(t)' = TrackSet(Running, Reply, t, labels.track[t])
      BY <1>1, <1>2 DEF TrackNow, Applied
    <3>2. QED BY <1>1, <3>1 DEF Mirror, Mirrored, TrackNow
  <2>2. ASSUME NEW t \in Tracks, NEW f \in Frames, ~Ahead(t, f)'
        PROVE  BoxNow(t, f)' = SavedBox(api, page, t, f)
    <3>1. BoxNow(t, f)' = BoxSet(Running, Reply, t, f, Rect(labels.box[t][f]))
      BY <1>1, <1>2 DEF BoxNow, Applied
    <3>2. ~Ahead(t, f)
      BY <1>1, <1>3, <2>2 DEF Ahead
    <3>3. QED BY <1>1, <3>1, <3>2 DEF Mirror, Mirrored, BoxNow
  <2>3. QED BY <1>1, <2>1, <2>2 DEF Mirrored
<1>5. OwnFlight'
  BY <1>1 DEF OwnFlight
<1>6. OwnLabels'
  BY <1>1, <1>4, NextOwns
<1>7. QED BY <1>3, <1>4, <1>5, <1>6 DEF Mirror

LEMMA SavedOwn ==
  ASSUME IInv, IInv', Mirror, page \in Clips, Answers, Reply.ok, Ends,
         undoStack' \in Seq(OwnUndos(api, page))
  PROVE  Mirror'
<1>1. queue # <<>> /\ UNCHANGED <<api, page, remap>> /\ queue' = Tail(queue)
  BY AnswersEnd, AnswersWhen DEF Ends
<1>2. OwnEdits'
  BY <1>1, TailOwn DEF Mirror, OwnEdits
<1>3. QED BY <1>1, <1>2, SavedMirror

(* What undoes an edit that was saved. *)
LEMMA UndoableMirror ==
  ASSUME IInv, IInv', Mirror, page \in Clips,
         SavedDraw \/ SavedMove \/ SavedDeleteBox \/ SavedDeleteTrack \/ SavedUpdate
  PROVE  Mirror'
<1> DEFINE j == Running
           t == j.track
           f == j.frame
           new == Reply.track
           clip == j.clip
           type == j.type
           old == j.old
           at == j.prev.at
           boxes == j.boxes
           box == [NoBoxes EXCEPT ![f] = j.prev]
<1>1. Answers /\ Reply.ok /\ Ends /\ queue # <<>>
  BY DEF Answers, SavedDraw, SavedMove, SavedDeleteBox, SavedDeleteTrack, SavedUpdate, Saved, Answered
<1>2. j \in Good /\ OfPage(api, page, j)
  BY <1>1, TailOwn DEF Mirror, Own
<1>3. ASSUME NEW entry, Pushes(entry), OfPage(api, page, entry), entry.kind \in Undos PROVE Mirror'
  BY <1>1, <1>3, PushedOwn, SavedOwn DEF Mirror
<1>4. CASE SavedDraw
  <2> DEFINE entry == [Blank("undraw") EXCEPT !.track = new]
  <2>1. Pushes(entry)
    BY <1>4 DEF SavedDraw
  <2> HIDE DEF new
  <2>2. entry.kind = "undraw"
    BY DEF Blank
  <2> HIDE DEF entry
  <2>3. OfPage(api, page, entry) /\ entry.kind \in Undos
    BY <2>2 DEF OfPage, Undos
  <2>4. QED BY <1>3, <2>1, <2>3
<1>5. ASSUME Pushes([Blank("putBack") EXCEPT !.track = t, !.frame = f, !.at = at]),
             j.kind \in {"move", "deleteBox"}
      PROVE  Mirror'
  <2> DEFINE entry == [Blank("putBack") EXCEPT !.track = t, !.frame = f, !.at = at]
  <2>1. Pushes(entry) /\ ClipOf[f] = page
    BY <1>2, <1>5 DEF OfPage
  <2> HIDE DEF t, f, at
  <2>2. entry.kind = "putBack" /\ entry.frame = f
    BY DEF Blank
  <2> HIDE DEF entry
  <2>3. OfPage(api, page, entry) /\ entry.kind \in Undos
    BY <2>1, <2>2 DEF OfPage, Undos
  <2>4. QED BY <1>3, <2>1, <2>3
<1>6. CASE SavedMove
  <2> DEFINE entry == [Blank("remove") EXCEPT !.track = t, !.frame = f]
  <2>1. j.kind = "move"
    BY <1>6 DEF SavedMove, Saved, Answered
  <2>2. CASE j.prev = None
    <3>1. Pushes(entry)
      BY <1>6, <2>2 DEF SavedMove
    <3> HIDE DEF t, f
    <3>2. entry.kind = "remove"
      BY DEF Blank
    <3> HIDE DEF entry
    <3>3. OfPage(api, page, entry) /\ entry.kind \in Undos
      BY <3>2 DEF OfPage, Undos
    <3>4. QED BY <1>3, <3>1, <3>3
  <2>3. CASE j.prev # None
    BY <1>5, <1>6, <2>1, <2>3 DEF SavedMove
  <2>4. QED BY <2>2, <2>3
<1>7. CASE SavedDeleteBox
  <2> DEFINE entry == [Blank("recreate") EXCEPT !.track = t, !.clip = clip, !.type = type, !.boxes = box]
  <2>1. j.kind = "deleteBox" /\ clip = page /\ ClipOf[f] = page
    <3>1. j.kind = "deleteBox"
      BY <1>7 DEF SavedDeleteBox, Saved, Answered
    <3>2. QED BY <1>2, <3>1 DEF OfPage
  <2>2. CASE Reply.gone
    <3>1. Pushes(entry)
      BY <1>7, <2>2 DEF SavedDeleteBox
    <3>2. \A g \in Frames : box[g] # None => g = f
      BY DEF NoBoxes
    <3> HIDE DEF t, clip, type, box
    <3>3. entry.kind = "recreate" /\ entry.clip = clip /\ entry.boxes = box
      BY DEF Blank
    <3> HIDE DEF entry
    <3>4. OfPage(api, page, entry) /\ entry.kind \in Undos
      BY <2>1, <3>2, <3>3 DEF OfPage, Undos
    <3>5. QED BY <1>3, <3>1, <3>4
  <2>3. CASE ~Reply.gone
    BY <1>5, <1>7, <2>1, <2>3 DEF SavedDeleteBox
  <2>4. QED BY <2>2, <2>3
<1>8. CASE SavedDeleteTrack
  <2> DEFINE entry == [Blank("recreate") EXCEPT !.track = t, !.clip = clip, !.type = type,
                                                !.boxes = boxes]
  <2>1. Pushes(entry) /\ clip = page /\ \A g \in Frames : boxes[g] # None => ClipOf[g] = page
    <3>1. j.kind = "deleteTrack" /\ Pushes(entry)
      BY <1>8 DEF SavedDeleteTrack, Saved, Answered
    <3>2. QED BY <1>2, <3>1 DEF OfPage
  <2> HIDE DEF t, clip, type, boxes
  <2>2. entry.kind = "recreate" /\ entry.clip = clip /\ entry.boxes = boxes
    BY DEF Blank
  <2> HIDE DEF entry
  <2>3. OfPage(api, page, entry) /\ entry.kind \in Undos
    BY <2>1, <2>2 DEF OfPage, Undos
  <2>4. QED BY <1>3, <2>1, <2>3
<1>9. CASE SavedUpdate
  <2> DEFINE entry == [Blank("rename") EXCEPT !.track = t, !.type = old]
  <2>1. Pushes(entry) /\ Mine(api, page, t)
    <3>1. j.kind = "update" /\ Pushes(entry)
      BY <1>9 DEF SavedUpdate, Saved, Answered
    <3>2. QED BY <1>2, <3>1 DEF OfPage
  <2> HIDE DEF t, old
  <2>2. entry.kind = "rename" /\ entry.track = t
    BY DEF Blank
  <2> HIDE DEF entry
  <2>3. OfPage(api, page, entry) /\ entry.kind \in Undos
    BY <2>1, <2>2 DEF OfPage, Undos
  <2>4. QED BY <1>3, <2>1, <2>3
<1>10. QED BY <1>4, <1>6, <1>7, <1>8, <1>9

LEMMA CopyMirror ==
  ASSUME IInv, IInv', Mirror, page \in Clips, SavedCopy
  PROVE  Mirror'
<1> DEFINE g == Running.frame
           new == {t \in Tracks : Reply.made[t] # None}
           entry == [Blank("uncopy") EXCEPT !.frame = g, !.tracks = new]
<1>1. Answers /\ Reply.ok /\ Ends
  BY DEF Answers, SavedCopy, Saved, Answered
<1>2. undoStack' = undoStack \/ Pushes(entry)
  BY DEF SavedCopy
<1> HIDE DEF g, new
<1>3. entry.kind = "uncopy"
  BY DEF Blank
<1> HIDE DEF entry
<1>4. OfPage(api, page, entry) /\ entry.kind \in Undos
  BY <1>3 DEF OfPage, Undos
<1>5. undoStack' \in Seq(OwnUndos(api, page))
  BY <1>2, <1>4, PushedOwn DEF Mirror, OwnEdits
<1>6. QED BY <1>1, <1>5, SavedOwn

(* Marks, and undos of one request, push nothing. *)
LEMMA UndoneMirror ==
  ASSUME IInv, IInv', Mirror, page \in Clips,
         SavedMark \/ Undraw \/ PutBack \/ RemoveBox \/ Rename \/ Unmark
  PROVE  Mirror'
<1>1. Answers /\ Reply.ok /\ Ends /\ undoStack' = undoStack
  BY DEF Answers, SavedMark, Undraw, PutBack, RemoveBox, Rename, Unmark, Undone, Saved, Answered
<1>2. undoStack' \in Seq(OwnUndos(api, page))
  BY <1>1 DEF Mirror, OwnEdits
<1>3. QED BY <1>1, <1>2, SavedOwn

(* An undo of several requests goes on with what is left. *)
LEMMA GoesOnMirror ==
  ASSUME IInv, IInv', Mirror, page \in Clips, Answers, Reply.ok, NEW j, NEW more, GoesOn(j, more),
         more => OfPage(api, page, j) /\ j.kind # "move",
         \A t \in Tracks : remap'[t] # None => Mine(api, page, remap'[t])
  PROVE  Mirror'
<1>1. queue # <<>> /\ UNCHANGED <<api, page, undoStack>>
  BY AnswersEnd, AnswersWhen DEF GoesOn
<1>2. CASE more
  <2>1. queue' = <<j>> \o Tail(queue)
    BY <1>2 DEF GoesOn
  <2>2. j \in Good /\ queue' \in Seq(Own(api, page))
    BY <1>1, <1>2, <2>1, LeftOwn DEF Mirror
  <2>3. OwnEdits'
    BY <1>1, <2>2 DEF Mirror, OwnEdits
  <2>4. QED BY <1>2, <2>1, <2>2, <2>3, SavedMirror
<1>3. CASE ~more
  <2>1. queue' = Tail(queue)
    BY <1>3 DEF GoesOn
  <2>2. OwnEdits'
    BY <1>1, <2>1, TailOwn DEF Mirror, OwnEdits
  <2>3. QED BY <2>1, <2>2, SavedMirror
<1>4. QED BY <1>2, <1>3

LEMMA SeveralMirror ==
  ASSUME IInv, IInv', Mirror, page \in Clips, Recreate \/ Refill \/ Uncopy
  PROVE  Mirror'
<1> DEFINE j == Running
           t == Reply.track
           boxes == [j.boxes EXCEPT ![j.frame] = None]
           tracks == j.tracks \ {Least(j.tracks)}
<1>1. Answers /\ Reply.ok /\ flight.at = "answered" /\ Landed
  BY DEF Answers, Recreate, Refill, Uncopy, Answered, Landed
<1>2. /\ queue # <<>> /\ j \in Job /\ j \in Good /\ OfPage(api, page, j)
      /\ \A u \in Tracks : remap[u] # None => Mine(api, page, remap[u])
      /\ j.boxes \in [Frames -> BoxOrNone]
  <2>1. queue # <<>>
    BY <1>1, AnswersEnd
  <2>2. /\ j \in Good /\ OfPage(api, page, j)
        /\ \A u \in Tracks : remap[u] # None => Mine(api, page, remap[u])
    BY <2>1, TailOwn DEF Mirror, OwnEdits, Own
  <2>3. QED BY <2>1, <2>2, JobShape DEF Good
<1>3. j.kind \in {"recreate", "refill"} => \A f \in Frames : boxes[f] # None => ClipOf[f] = page
  <2>1. \A f \in Frames : boxes[f] # None => j.boxes[f] # None
    BY <1>2
  <2>2. QED BY <1>2, <2>1 DEF OfPage
<1>4. CASE Recreate
  <2> DEFINE n == j.n
             p == j.page
             next == [Blank("refill") EXCEPT !.n = n, !.page = p, !.track = t, !.boxes = boxes]
             more == boxes # NoBoxes
  <2>1. j.kind = "recreate" /\ remap' = [remap EXCEPT ![j.track] = t] /\ GoesOn(next, more)
    BY <1>4 DEF Recreate, Answered
  <2>2. t \in Tracks /\ Mine(api, page, t)
    BY <1>1, <2>1 DEF Mirror, OwnFlight
  <2> HIDE DEF j, t
  <2>3. \A u \in Tracks : remap'[u] # None => Mine(api, page, remap'[u])
    <3>1. remap \in [Tracks -> Tracks \union {None}]
      BY OnScreen
    <3>2. QED BY <1>2, <2>1, <2>2, <3>1
  <2> HIDE DEF n, p, boxes
  <2>4. next.kind = "refill" /\ next.boxes = boxes
    BY DEF Blank
  <2> HIDE DEF next, more
  <2>5. OfPage(api, page, next) /\ next.kind # "move"
    BY <1>3, <2>1, <2>4 DEF OfPage
  <2>6. QED BY <1>1, <2>1, <2>3, <2>5, GoesOnMirror
<1>5. CASE Refill
  <2> DEFINE next == [j EXCEPT !.boxes = boxes]
             more == boxes # NoBoxes
  <2>1. j.kind = "refill" /\ remap' = remap /\ GoesOn(next, more)
    BY <1>5 DEF Refill, Answered
  <2> HIDE DEF j, boxes
  <2>2. next.kind = "refill" /\ next.boxes = boxes
    BY <1>2, <2>1 DEF Job
  <2> HIDE DEF next, more
  <2>3. OfPage(api, page, next) /\ next.kind # "move"
    BY <1>3, <2>1, <2>2 DEF OfPage
  <2>4. QED BY <1>1, <1>2, <2>1, <2>3, GoesOnMirror
<1>6. CASE Uncopy
  <2> DEFINE next == [j EXCEPT !.tracks = tracks]
             more == tracks # {}
  <2>1. j.kind = "uncopy" /\ remap' = remap /\ GoesOn(next, more)
    BY <1>6 DEF Uncopy, Answered
  <2> HIDE DEF j, tracks
  <2>2. next.kind = "uncopy"
    BY <1>2, <2>1 DEF Job
  <2> HIDE DEF next, more
  <2>3. OfPage(api, page, next) /\ next.kind # "move"
    BY <2>2 DEF OfPage
  <2>4. QED BY <1>1, <1>2, <2>1, <2>3, GoesOnMirror
<1>7. QED BY <1>4, <1>5, <1>6

(* A refused edit changes the screen back, or nothing.                       *)
LEMMA FailedMirror ==
  ASSUME IInv, IInv', Mirror, page \in Clips, Answers, ~Reply.ok, Ends,
         undoStack' \in Seq(OwnUndos(api, page)), labels'.track = labels.track,
         \A t \in Tracks, f \in Frames :
           \/ ~Moves(Running, t, f) /\ Rect(labels'.box[t][f]) = Rect(labels.box[t][f])
           \/ Moves(Running, t, f) /\ Rect(labels'.box[t][f]) = SavedBox(api, page, t, f)
  PROVE  Mirror'
<1>1. /\ ~Landed /\ queue # <<>> /\ flight' = Idle /\ ~Landed' /\ flight'.at = "idle"
      /\ UNCHANGED <<api, page, remap>> /\ queue' = Tail(queue)
  BY AnswersWhen, AnswersEnd DEF Landed, Idle, Ends
<1>2. /\ PutsBack'
      /\ \A t \in Tracks, f \in Frames : Waits(t, f) => Ahead(t, f)'
  BY <1>1, TailMirrors DEF Mirror
<1>3. Mirrored'
  <2>1. ASSUME NEW t \in Tracks PROVE TrackNow(t)' = SavedTrack(api, page, t)
    BY <1>1 DEF Mirror, Mirrored, TrackNow
  <2>2. ASSUME NEW t \in Tracks, NEW f \in Frames, ~Ahead(t, f)'
        PROVE  BoxNow(t, f)' = SavedBox(api, page, t, f)
    <3>1. BoxNow(t, f)' = Rect(labels'.box[t][f]) /\ BoxNow(t, f) = Rect(labels.box[t][f])
      BY <1>1 DEF BoxNow
    <3>2. CASE Moves(Running, t, f)
      BY <3>1, <3>2
    <3>3. CASE ~Moves(Running, t, f)
      <4>1. ~Ahead(t, f)
        BY <1>2, <2>2, <3>3 DEF Ahead
      <4>2. QED BY <3>1, <3>3, <4>1 DEF Mirror, Mirrored
    <3>4. QED BY <3>2, <3>3
  <2>3. QED BY <1>1, <2>1, <2>2 DEF Mirrored
<1>4. OwnEdits'
  BY <1>1, TailOwn DEF Mirror, OwnEdits
<1>5. OwnFlight'
  BY <1>1 DEF OwnFlight
<1>6. OwnLabels'
  BY <1>1, <1>3, <1>4, NextOwns
<1>7. QED BY <1>2, <1>3, <1>4, <1>5, <1>6 DEF Mirror

LEMMA RefusedMirror ==
  ASSUME IInv, IInv', Mirror, page \in Clips, FailedMove \/ FailedMark \/ FailedOther,
         "guessed" \notin upset'
  PROVE  Mirror'
<1> DEFINE j == Running
           t == j.track
           f == j.frame
           prev == j.prev
<1>1. Answers /\ ~Reply.ok /\ Ends /\ queue # <<>> /\ ~Landed
  BY DEF Answers, FailedMove, FailedMark, FailedOther, Answered, Landed
<1>2. j \in Job /\ JobOK(j) /\ labels \in View /\ undoStack \in Seq(OwnUndos(api, page))
  BY <1>1, Queued DEF IInv, TypeOK, Good, Mirror, OwnEdits
<1>3. CASE FailedMove
  <2>1. j.kind = "move" /\ j.alone /\ labels' = Put(labels, t, f, prev) /\ undoStack' = undoStack
    BY <1>3 DEF FailedMove, Answered
  <2>2. Rect(prev) = SavedBox(api, page, t, f)
    BY <1>1, <2>1 DEF Mirror, PutsBack
  <2>3. prev \in BoxOrNone
    BY <1>2, JobShape
  <2> HIDE DEF j, t, f, prev
  <2>4. /\ labels'.track = labels.track
        /\ \A u \in Tracks, g \in Frames :
             labels'.box[u][g] = IF u = t /\ g = f THEN prev ELSE labels.box[u][g]
    BY <1>2, <2>1, <2>3, PutShows
  <2>5. \A u \in Tracks, g \in Frames :
          \/ ~Moves(j, u, g) /\ Rect(labels'.box[u][g]) = Rect(labels.box[u][g])
          \/ Moves(j, u, g) /\ Rect(labels'.box[u][g]) = SavedBox(api, page, u, g)
    BY <2>1, <2>2, <2>4 DEF Moves, t, f
  <2>6. QED BY <1>1, <1>2, <2>1, <2>4, <2>5, FailedMirror DEF j
<1>4. CASE FailedMark
  <2> DEFINE still == {u \in j.tracks : Shown(u, f) /\ labels.box[u][f].is = "accepted"}
             is == "proposed"
             was == labels.box
             box == Say(was, still, f, is)
             mine == {i \in DOMAIN undoStack : undoStack[i].kind = "unmark" /\ undoStack[i].n = j.n}
             status == IF labels.status[f] = j.status THEN j.before ELSE labels.status[f]
  <2>1. /\ j.kind = "mark" /\ labels' = [labels EXCEPT !.status[f] = status, !.box = box]
        /\ undoStack' = IF mine = {} THEN undoStack ELSE RemoveAt(undoStack, CHOOSE i \in mine : TRUE)
    BY <1>4 DEF FailedMark, Answered
  <2>2. undoStack' \in Seq(OwnUndos(api, page))
    <3>1. CASE mine = {}
      BY <1>2, <2>1, <3>1
    <3>2. CASE mine # {}
      <4> DEFINE i == CHOOSE i \in mine : TRUE
      <4>1. i \in DOMAIN undoStack
        BY <3>2
      <4> HIDE DEF i
      <4>2. RemoveAt(undoStack, i) \in Seq(OwnUndos(api, page))
        BY <1>2, <4>1, RestOwn
      <4>3. QED BY <2>1, <3>2, <4>2 DEF i
    <3>3. QED BY <3>1, <3>2
  <2>3. /\ \A u \in still : was[u][f] # None
        /\ was \in [Tracks -> [Frames -> BoxOrNone]] /\ is \in {"proposed", "verified", "accepted"}
    BY OnScreen DEF Shown
  <2> HIDE DEF still, is, was, status, mine
  <2>4. \A u \in Tracks, g \in Frames : Rect(box[u][g]) = Rect(was[u][g])
    BY <2>3, SaySame
  <2> HIDE DEF box
  <2>5. labels'.track = labels.track /\ labels'.box = box
    BY <1>2, <2>1 DEF View
  <2>6. \A u \in Tracks, g \in Frames :
          ~Moves(j, u, g) /\ Rect(labels'.box[u][g]) = Rect(labels.box[u][g])
    BY <2>1, <2>4, <2>5 DEF Moves, was
  <2>7. QED BY <1>1, <2>2, <2>5, <2>6, FailedMirror
<1>5. CASE FailedOther
  <2>1. j.kind # "move" /\ UNCHANGED <<labels, undoStack>>
    BY <1>5 DEF FailedOther, Answered, Undos
  <2>2. \A u \in Tracks, g \in Frames : ~Moves(j, u, g)
    BY <2>1 DEF Moves
  <2>3. QED BY <1>1, <1>2, <2>1, <2>2, FailedMirror
<1>6. QED BY <1>3, <1>4, <1>5

LEMMA AnswersMirror ==
  ASSUME IInv, IInv', Mirror, page \in Clips, Answers, "guessed" \notin upset'
  PROVE  Mirror'
BY UndoableMirror, CopyMirror, UndoneMirror, SeveralMirror, RefusedMirror DEF Answers

(***************************************************************************)
(* The clip is loaded; and the theorem.                                     *)
(***************************************************************************)
LEMMA LoadFaithful ==
  ASSUME IInv, IInv', NEW p \in Pages, NEW view, Load(p, view), UNCHANGED <<api, queue, flight>>
  PROVE  Faithful'
<1> SUFFICES ASSUME Certain' PROVE Mirror'
  BY DEF Faithful
<1>1. /\ page' = p /\ labels' = view /\ undoStack' = <<>> /\ remap' = Nothing
      /\ upset' = IF queue = <<>> /\ (p \in Clips => view = Of(api, p)) THEN {} ELSE {"stale"}
  BY DEF Load
<1>2. p \in Clips /\ queue = <<>> /\ view = Of(api, p)
  BY <1>1 DEF Certain
<1>3. flight = Idle /\ ~Landed' /\ flight'.at = "idle" /\ DOMAIN queue = {}
  BY <1>2, EmptySeq DEF IInv, TypeOK, Landed, Idle
<1>4. OwnEdits'
  <2>1. queue' = <<>> /\ undoStack' = <<>> /\ \A t \in Tracks : remap'[t] = None
    BY <1>1, <1>2 DEF Nothing
  <2>2. QED BY <2>1 DEF OwnEdits
<1>5. OwnFlight'
  BY <1>3 DEF OwnFlight
<1>6. Mirrored'
  <2>1. ASSUME NEW t \in Tracks
        PROVE  /\ view.track[t] = SavedTrack(api, p, t)
               /\ \A f \in Frames : Rect(view.box[t][f]) = SavedBox(api, p, t, f)
    BY <1>2, SavedIsOf, FlightShape
  <2>2. QED BY <1>1, <1>3, <2>1 DEF Mirrored, TrackNow, BoxNow
<1>7. PutsBack'
  BY <1>2, <1>3 DEF PutsBack
<1>8. OwnLabels'
  BY <1>1, <1>2, <1>3, <1>4, <1>6, NextOwns
<1>9. QED BY <1>4, <1>5, <1>6, <1>7, <1>8 DEF Mirror

LEMMA PageFaithful ==
  ASSUME IInv, IInv', Faithful, OpenGold \/ \E c \in Clips : Open(c) \/ Read(c) \/ Arrive(c) \/ Evict(c)
  PROVE  Faithful'
<1>1. UNCHANGED <<api, queue, flight>>
  BY DEF OpenGold, Open, Read, Arrive, Evict, queueVars
<1>2. CASE UNCHANGED <<storeVars, remap, upset>>
  <2>1. UNCHANGED <<page, labels, undoStack, remap, upset>>
    BY <1>2 DEF storeVars
  <2>2. Certain' => Certain
    BY <2>1 DEF Certain
  <2>3. QED BY <1>1, <2>1, <2>2, MirrorQuiet DEF Faithful
<1>3. CASE \E p \in Pages : \E view : Load(p, view)
  BY <1>1, <1>3, LoadFaithful
<1>4. CASE OpenGold
  BY <1>3, <1>4 DEF OpenGold, Pages
<1>5. ASSUME NEW c \in Clips, Open(c) \/ Read(c) \/ Arrive(c) \/ Evict(c)
      PROVE  UNCHANGED <<storeVars, remap, upset>> \/ \E p \in Pages : \E view : Load(p, view)
  <2>1. c \in Pages
    BY DEF Pages
  <2>2. QED BY <1>5, <2>1 DEF Open, Read, Arrive, Evict, LoadClip, queueVars, ghostVars
<1>6. QED BY <1>2, <1>3, <1>4, <1>5

LEMMA InitFaithful == Init => Faithful
BY NoneAssumption DEF Init, Faithful, Certain

LEMMA StepFaithful == IInv /\ Apart /\ Faithful /\ [Next]_vars => Faithful'
<1> SUFFICES ASSUME IInv, Apart, Faithful, [Next]_vars PROVE Faithful'
  OBVIOUS
<1>1. IInv'
  BY StepInv
<1>2. CASE OpenGold \/ \E c \in Clips : Open(c) \/ Read(c) \/ Arrive(c) \/ Evict(c)
  BY <1>1, <1>2, PageFaithful
<1>3. ASSUME page' = page, upset \subseteq upset', Mirror /\ page \in Clips /\ Certain' => Mirror'
      PROVE  Faithful'
  BY <1>3 DEF Faithful, Certain
<1>4. CASE Edit
  <2>1. page' = page
    BY <1>4 DEF Edit, MoveBox, DrawBox, DeleteSelected, DeleteWhole, Retype, CopyForward, Mark, Undo,
                storeVars
  <2>2. \E job : Enqueue(job)
    BY <1>4 DEF Edit, MoveBox, DrawBox, Move, DeleteSelected, DeleteWhole, Retype, CopyForward, Mark,
                Undo
  <2>3. upset \subseteq upset'
    BY <2>2 DEF Enqueue, Hurry
  <2>4. QED BY <1>1, <1>3, <1>4, <2>1, <2>3, EditsMirror
<1>5. CASE \E t \in Tracks \union {None} : Select(t)
  <2>1. UNCHANGED <<api, page, labels, undoStack, queue, remap, flight, upset>>
    BY <1>5 DEF Select, queueVars, ghostVars
  <2>2. QED BY <1>3, <2>1, MirrorQuiet
<1>6. CASE Send
  <2>1. UNCHANGED <<page, upset>>
    BY <1>6 DEF Send, storeVars, ghostVars
  <2>2. QED BY <1>3, <1>6, <2>1, SendMirror
<1>7. CASE Serve
  <2>1. UNCHANGED <<page, upset>>
    BY <1>7 DEF Serve, storeVars
  <2>2. QED BY <1>1, <1>3, <1>7, <2>1, ServeMirror
<1>8. CASE LoseRequest
  <2>1. UNCHANGED <<page, upset>>
    BY <1>8 DEF LoseRequest, storeVars, ghostVars
  <2>2. QED BY <1>3, <1>8, <2>1, LoseMirror
<1>9. CASE LoseAnswer
  <2>1. page' = page /\ upset \subseteq upset' /\ ~Certain'
    BY <1>9 DEF LoseAnswer, storeVars, Certain
  <2>2. QED BY <1>3, <2>1
<1>10. CASE Answers
  <2>1. page' = page
    BY <1>10, AnswersWhen
  <2>2. upset \subseteq upset'
    BY <1>10 DEF Answers, SavedDraw, SavedMove, SavedDeleteBox, SavedDeleteTrack, SavedUpdate, SavedCopy,
                 SavedMark, FailedMove, FailedMark, FailedOther, Undraw, PutBack, RemoveBox, Rename,
                 Unmark, Recreate, Refill, Uncopy, Undone, Saved, GoesOn
  <2>3. Certain' => "guessed" \notin upset'
    BY DEF Certain
  <2>4. QED BY <1>1, <1>3, <1>10, <2>1, <2>2, <2>3, AnswersMirror
<1>11. CASE UNCHANGED vars
  <2>1. UNCHANGED <<api, page, labels, undoStack, queue, remap, flight, upset>>
    BY <1>11 DEF vars, storeVars, queueVars, ghostVars
  <2>2. QED BY <1>3, <2>1, MirrorQuiet
<1>12. QED BY <1>2, <1>4, <1>5, <1>6, <1>7, <1>8, <1>9, <1>10, <1>11 DEF Next

LEMMA FaithfulShows ==
  ASSUME IInv, Faithful
  PROVE  ShownIsSaved
<1> SUFFICES ASSUME page \in Clips, queue = <<>>,
                    upset \subseteq {"hurried", "refused", "undoRefused", "remarked"}
             PROVE  SameBoxes(labels, Of(api, page))
  BY DEF ShownIsSaved
<1>1. Mirror
  BY DEF Faithful, Certain
<1>2. ~Landed /\ \A t \in Tracks, f \in Frames : ~Ahead(t, f)
  <2>1. flight = Idle /\ DOMAIN queue = {}
    BY EmptySeq DEF IInv, TypeOK
  <2>2. QED BY <2>1 DEF Landed, Ahead, Waits, Idle
<1>3. ASSUME NEW t \in Tracks
      PROVE  /\ labels.track[t] = Of(api, page).track[t]
             /\ \A f \in Frames : Rect(labels.box[t][f]) = Rect(Of(api, page).box[t][f])
  <2>1. /\ labels.track[t] = SavedTrack(api, page, t)
        /\ \A f \in Frames : Rect(labels.box[t][f]) = SavedBox(api, page, t, f)
    BY <1>1, <1>2 DEF Mirror, Mirrored, TrackNow, BoxNow
  <2>2. QED BY <2>1, SavedIsOf, FlightShape
<1>4. QED BY <1>3 DEF SameBoxes

(* Once the queue is empty, the screen shows the tracks and boxes that are  *)
(* saved, whatever was edited, undone, refused or put back in between, unless *)
(* an answer was lost or a rollback had to guess what was saved.            *)
THEOREM ScreenTells == Spec => []ShownIsSaved
<1>1. IInv /\ Apart /\ [Next]_vars => Apart'
  BY StepApart
<1>2. IInv /\ Apart /\ Faithful /\ [Next]_vars => Faithful'
  BY StepFaithful
<1>3. IInv /\ Faithful => ShownIsSaved
  BY FaithfulShows
<1>4. QED BY <1>1, <1>2, <1>3, Invariant, InitApart, InitFaithful, PTL DEF Spec

===============================================================================
