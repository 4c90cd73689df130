------------------------------- MODULE Prelabel -------------------------------
(***************************************************************************)
(* Pre-labeling: runs that propose boxes on the unlabeled frames of a       *)
(* video, with the pinned model or with classical vision, while people pin *)
(* models, start and cancel runs, label the same frames, and hold the      *)
(* video out for testing.                                                  *)
(*                                                                         *)
(* Postgres runs these transactions READ COMMITTED, so each statement sees  *)
(* what others have committed by then, and waits only for the rows they    *)
(* locked.  The transactions that pin, start and save are split at their   *)
(* statements; what they wrote appears when they commit.  A row inserted    *)
(* with a reference to a frame waits for a save that locked the frame.      *)
(* A frame shows one object, and whatever is proposed on it overlaps.       *)
(***************************************************************************)
EXTENDS Integers, Sequences

CONSTANTS
  Runs,       \* pre-label runs that may be created
  Models,     \* training runs that succeeded
  CV,         \* the classical pre-labelers, which share a source
  Frames,     \* frames of the video
  Types,      \* label types
  Clip,       \* the clip of each frame
  Callers,    \* requests that may be open at once
  NoModel,    \* a model value: no model
  NoRun,      \* a model value: no run
  Person,     \* a model value: who drew a box
  MaxStarts,  \* bound: runs started or cancelled by hand
  MaxEdits,   \* bound: boxes, frames and the video's split edited
  MaxBoots    \* bound: restarts of the API process

ASSUME NamesAssumption ==
  /\ CV \notin Models /\ Person \notin Models \cup {CV}
  /\ NoModel \notin Models \cup {CV} /\ NoRun \notin Runs
ASSUME BoundsAssumption == MaxStarts \in Nat /\ MaxEdits \in Nat /\ MaxBoots \in Nat

Labelers == Models \cup {CV}
Clips == {Clip[f] : f \in Frames}
Active == {"queued", "running"}

VARIABLES
  \* the database
  pinned,     \* the pinned model
  status,     \* each run's status, "none" before it is created
  labeler,    \* what each run proposes with
  jobs,       \* runs whose job River has yet to hand out
  split,      \* the video's split
  frame,      \* each frame's status
  open,       \* proposals nobody decided on, see Proposals
  kept,       \* boxes that are verified: the frame, who made it, and as what
  edited,     \* the open proposals whose track's class a person edited
  rejected,   \* the frame and the label type of each rejected proposal
  \* requests with a transaction open
  call,       \* what each does, and the runs it cancels
  counted,    \* frames whose boxes a SetFrameStatus(empty) found none of
  \* the goroutine of the one worker of the queue
  at,         \* where it is
  cur,        \* the run it works
  todo,       \* the clips left
  listed,     \* the clip's frames the task was given
  dets,       \* the boxes the worker reported: a frame and a label type
  locked,     \* those found unlabeled and locked
  cleared,    \* the proposals deleted
  covered,    \* frames where a box was found
  barred,     \* the rejections found
  \* history: runs that run with nobody at them, see RecordLost
  stranded,
  \* bounds
  starts, edits, boots

runVars == <<pinned, status, labeler, jobs>>
labelVars == <<frame, open, kept, edited, rejected>>
saveVars == <<listed, dets, locked, cleared, covered, barred>>
workerVars == <<at, cur, todo, saveVars>>
boundVars == <<starts, edits, boots>>
noteVars == <<stranded, boundVars>>
vars == <<runVars, split, labelVars, call, counted, workerVars, noteVars>>

(* A box on a frame that a labeler proposed as one label type, and whose    *)
(* track is of the same type or was given another since.                   *)
Proposals == Frames \X Labelers \X Types \X Types

Idle == [kind |-> "none", by |-> NoModel, hit |-> {}, stage |-> "begun"]

Init ==
  /\ pinned \in Models \cup {NoModel}
  /\ status = [p \in Runs |-> "none"]
  /\ labeler = [p \in Runs |-> NoModel]
  /\ jobs = {}
  /\ split = "train"
  /\ frame = [f \in Frames |-> "unlabeled"]
  /\ open = {}
  /\ kept = {}
  /\ edited = {}
  /\ rejected = {}
  /\ call = [c \in Callers |-> Idle]
  /\ counted = {}
  /\ at = "idle" /\ cur = NoRun /\ todo = {}
  /\ listed = {} /\ dets = {} /\ locked = {} /\ cleared = {} /\ covered = {} /\ barred = {}
  /\ stranded = {}
  /\ starts = 0 /\ edits = 0 /\ boots = 0

Source(l) == IF l = CV THEN "cv" ELSE "yolo"
On(f, boxes) == {b \in boxes : b[1] = f}

(* The places where the goroutine holds the locks of savePrelabels.         *)
Saving == at \in {"run", "video", "frames", "cleared", "boxed", "ready"}

(* Nobody cancelled the run in a transaction still open.                    *)
Settled(p) == \A c \in Callers : ~(call[c].stage = "cancelled" /\ p \in call[c].hit)

(***************************************************************************)
(* PinModel, autoPin and StartPrelabel: choose a model, cancel the runs of  *)
(* its source, queue a run.                                                *)
(***************************************************************************)
(* The rows of training_runs keep two pins apart.                           *)
BeginPin(c, m) ==
  /\ call[c] = Idle
  /\ \A d \in Callers : call[d].kind # "pin"
  /\ call' = [call EXCEPT ![c] = [Idle EXCEPT !.kind = "pin", !.by = m]]
  /\ UNCHANGED <<runVars, split, labelVars, counted, workerVars, noteVars>>

BeginStart(c, l) ==
  /\ starts < MaxStarts
  /\ call[c] = Idle
  /\ l \in {pinned, CV} \ {NoModel}
  /\ call' = [call EXCEPT ![c] = [Idle EXCEPT !.kind = "start", !.by = l]]
  /\ starts' = starts + 1
  /\ UNCHANGED <<runVars, split, labelVars, counted, workerVars,
                 stranded, edits, boots>>

(* CancelActivePrelabelRuns updates the runs it saw active, each once the   *)
(* transactions that hold its row are over, if it is active still.          *)
(* Mutant: it leaves the run that is at work alone. *)
SeeQueued(c) ==
  /\ call[c].kind # "none" /\ call[c].stage = "begun"
  /\ call' = [call EXCEPT
       ![c].hit = {p \in Runs : status[p] = "queued" /\ Source(labeler[p]) = Source(call[c].by)},
       ![c].stage = "waiting"]
  /\ UNCHANGED <<runVars, split, labelVars, counted, workerVars, noteVars>>

SeeActive(c) ==
  /\ call[c].kind # "none" /\ call[c].stage = "begun"
  /\ call' = [call EXCEPT
       ![c].hit = {p \in Runs : status[p] \in Active /\ Source(labeler[p]) = Source(call[c].by)},
       ![c].stage = "waiting"]
  /\ UNCHANGED <<runVars, split, labelVars, counted, workerVars, noteVars>>

CancelActive(c) ==
  /\ call[c].stage = "waiting"
  /\ \A p \in call[c].hit : Settled(p) /\ ~(Saving /\ cur = p)
  /\ call' = [call EXCEPT ![c].hit = {p \in @ : status[p] \in Active}, ![c].stage = "cancelled"]
  /\ UNCHANGED <<runVars, split, labelVars, counted, workerVars, noteVars>>

Commit(c, p) ==
  /\ call[c].stage = "cancelled"
  /\ status[p] = "none"
  /\ status' = [r \in Runs |-> IF r = p THEN "queued"
                               ELSE IF r \in call[c].hit THEN "cancelled" ELSE status[r]]
  /\ labeler' = [labeler EXCEPT ![p] = call[c].by]
  /\ jobs' = jobs \cup {p}
  /\ pinned' = IF call[c].kind = "pin" THEN call[c].by ELSE pinned
  /\ call' = [call EXCEPT ![c] = Idle]
  /\ UNCHANGED <<split, labelVars, counted, workerVars, noteVars>>

Rollback(c) ==
  /\ call[c] # Idle
  /\ call' = [call EXCEPT ![c] = Idle]
  /\ UNCHANGED <<runVars, split, labelVars, counted, workerVars, noteVars>>

CancelPrelabel(p) ==
  /\ starts < MaxStarts
  /\ starts' = starts + 1
  /\ status[p] \in Active
  /\ Settled(p) /\ ~(Saving /\ cur = p)
  /\ status' = [status EXCEPT ![p] = "cancelled"]
  /\ UNCHANGED <<pinned, labeler, jobs, split, labelVars, call, counted, workerVars,
                 stranded, edits, boots>>

(***************************************************************************)
(* The goroutine that works a run.                                         *)
(***************************************************************************)
Forget ==
  /\ listed' = {} /\ dets' = {} /\ locked' = {}
  /\ cleared' = {} /\ covered' = {} /\ barred' = {}

Return ==
  /\ at' = "idle" /\ cur' = NoRun /\ todo' = {}
  /\ Forget

Fetch(p) ==
  /\ at = "idle"
  /\ p \in jobs
  /\ jobs' = jobs \ {p}
  /\ at' = "fetched"
  /\ cur' = p
  /\ UNCHANGED <<pinned, status, labeler, split, labelVars, call, counted, todo, saveVars, noteVars>>

(* A run that is not queued is nothing to do. *)
ListClips ==
  /\ at = "fetched"
  /\ \/ /\ status[cur] = "queued"
        /\ todo' = IF split = "test" THEN {} ELSE {Clip[f] : f \in {g \in Frames : frame[g] = "unlabeled"}}
        /\ at' = "listed"
        /\ UNCHANGED <<cur, saveVars>>
     \/ status[cur] # "queued" /\ Return
  /\ UNCHANGED <<runVars, split, labelVars, call, counted, noteVars>>

StartRun ==
  /\ at = "listed"
  /\ Settled(cur)
  /\ \/ /\ status[cur] = "queued"
        /\ status' = [status EXCEPT ![cur] = "running"]
        /\ at' = "clips"
        /\ UNCHANGED <<cur, todo, saveVars>>
     \/ status[cur] # "queued" /\ Return /\ UNCHANGED status
  /\ UNCHANGED <<pinned, labeler, jobs, split, labelVars, call, counted, noteVars>>

NextClip(k) ==
  /\ at = "clips"
  /\ k \in todo
  /\ todo' = todo \ {k}
  /\ listed' = {f \in Frames : Clip[f] = k /\ frame[f] = "unlabeled"}
  /\ at' = IF listed' = {} THEN "clips" ELSE "waiting"
  /\ UNCHANGED <<runVars, split, labelVars, call, counted, cur,
                 dets, locked, cleared, covered, barred, noteVars>>

TaskDone ==
  /\ at = "waiting"
  /\ dets' \in SUBSET (listed \X Types)
  /\ at' = "reported"
  /\ UNCHANGED <<runVars, split, labelVars, call, counted, cur, todo,
                 listed, locked, cleared, covered, barred, noteVars>>

(* savePrelabels, a statement at a time. *)
(* Mutant of LockRun: the run is read but not waited for. *)
ReadRun ==
  /\ at = "reported"
  /\ at' = IF status[cur] = "running" THEN "run" ELSE "failing"
  /\ UNCHANGED <<runVars, split, labelVars, call, counted, cur, todo, saveVars, noteVars>>

LockRun ==
  /\ at = "reported"
  /\ Settled(cur)
  /\ at' = IF status[cur] = "running" THEN "run" ELSE "failing"
  /\ UNCHANGED <<runVars, split, labelVars, call, counted, cur, todo, saveVars, noteVars>>

LockVideo ==
  /\ at = "run"
  /\ \/ split = "test" /\ at' = "clips" /\ Forget
     \/ split # "test" /\ at' = "video" /\ UNCHANGED saveVars
  /\ UNCHANGED <<runVars, split, labelVars, call, counted, cur, todo, noteVars>>

(* Mutant of LockFrames: the frames the task was given. *)
LockListed ==
  /\ at = "video"
  /\ locked' = listed
  /\ at' = "frames"
  /\ UNCHANGED <<runVars, split, labelVars, call, counted, cur, todo,
                 listed, dets, cleared, covered, barred, noteVars>>

LockFrames ==
  /\ at = "video"
  /\ locked' = {f \in listed : frame[f] = "unlabeled"}
  /\ at' = "frames"
  /\ UNCHANGED <<runVars, split, labelVars, call, counted, cur, todo,
                 listed, dets, cleared, covered, barred, noteVars>>

ClearOld ==
  /\ at = "frames"
  /\ cleared' = {b \in open \ edited : b[1] \in locked /\ Source(b[2]) = Source(labeler[cur])}
  /\ at' = "cleared"
  /\ UNCHANGED <<runVars, split, labelVars, call, counted, cur, todo,
                 listed, dets, locked, covered, barred, noteVars>>

(* Mutant of ListBoxes: only proposals are a reason to drop a box. *)
ListOpen ==
  /\ at = "cleared"
  /\ covered' = {f \in locked : On(f, open \ cleared) # {}}
  /\ at' = "boxed"
  /\ UNCHANGED <<runVars, split, labelVars, call, counted, cur, todo,
                 listed, dets, locked, cleared, barred, noteVars>>

ListBoxes ==
  /\ at = "cleared"
  /\ covered' = {f \in locked : On(f, (open \ cleared) \cup kept) # {}}
  /\ at' = "boxed"
  /\ UNCHANGED <<runVars, split, labelVars, call, counted, cur, todo,
                 listed, dets, locked, cleared, barred, noteVars>>

(* Mutants of ListRejected: none, and the rejections of every frame. *)
ListNoneRejected ==
  /\ at = "boxed"
  /\ barred' = {}
  /\ at' = "ready"
  /\ UNCHANGED <<runVars, split, labelVars, call, counted, cur, todo,
                 listed, dets, locked, cleared, covered, noteVars>>

ListAllRejected ==
  /\ at = "boxed"
  /\ barred' = rejected
  /\ at' = "ready"
  /\ UNCHANGED <<runVars, split, labelVars, call, counted, cur, todo,
                 listed, dets, locked, cleared, covered, noteVars>>

ListRejected ==
  /\ at = "boxed"
  /\ barred' = {d \in rejected : d[1] \in locked}
  /\ at' = "ready"
  /\ UNCHANGED <<runVars, split, labelVars, call, counted, cur, todo,
                 listed, dets, locked, cleared, covered, noteVars>>

Landing ==
  {<<d[1], labeler[cur], d[2], d[2]>> :
     d \in {e \in dets \ barred : e[1] \in locked \ covered}}

Save ==
  /\ at = "ready"
  /\ open' = (open \ cleared) \cup Landing
  /\ edited' = edited \ cleared
  /\ at' = "clips"
  /\ Forget
  /\ UNCHANGED <<runVars, split, frame, kept, rejected, call, counted, cur, todo, noteVars>>

Finish ==
  /\ at = "clips"
  /\ todo = {}
  /\ Settled(cur)
  /\ status' = [status EXCEPT ![cur] = IF @ = "running" THEN "succeeded" ELSE @]
  /\ Return
  /\ UNCHANGED <<pinned, labeler, jobs, split, labelVars, call, counted, noteVars>>

(* Any call may fail, and does once the run's context is cancelled; a save  *)
(* rolls back.                                                             *)
GiveUp ==
  /\ at \notin {"idle", "failing", "recording"}
  /\ at' = "failing"
  /\ Forget
  /\ UNCHANGED <<runVars, split, labelVars, call, counted, cur, todo, noteVars>>

(* A run that could not be read is taken for one that was not cancelled. *)
CheckCancelled ==
  /\ at = "failing"
  /\ \/ status[cur] = "cancelled" /\ Return
     \/ at' = "recording" /\ UNCHANGED <<cur, todo, saveVars>>
  /\ UNCHANGED <<runVars, split, labelVars, call, counted, noteVars>>

RecordFailure ==
  /\ at = "recording"
  /\ Settled(cur)
  /\ status' = [status EXCEPT ![cur] = IF @ \in Active THEN "failed" ELSE @]
  /\ Return
  /\ UNCHANGED <<pinned, labeler, jobs, split, labelVars, call, counted, noteVars>>

(* The write fails: the run keeps its status, and its job is over. *)
RecordLost ==
  /\ at = "recording"
  /\ stranded' = IF status[cur] = "running" THEN stranded \cup {cur} ELSE stranded
  /\ Return
  /\ UNCHANGED <<runVars, split, labelVars, call, counted, boundVars>>

(***************************************************************************)
(* Labelers.  An edit is a transaction of its own, and waits for a frame    *)
(* that a save locked where it records what it did.                        *)
(***************************************************************************)
Edit ==
  /\ edits < MaxEdits
  /\ edits' = edits + 1
  /\ UNCHANGED <<stranded, starts, boots>>

(* CreateTrack: a frame marked empty needs to be confirmed again.  A person *)
(* draws one box of a type on a frame, where the object is.                *)
Draw(f, t) ==
  /\ Edit
  /\ f \notin locked
  /\ <<f, Person, t>> \notin kept
  /\ kept' = kept \cup {<<f, Person, t>>}
  /\ frame' = [frame EXCEPT ![f] = IF @ = "empty" THEN "unlabeled" ELSE @]
  /\ UNCHANGED <<runVars, split, open, edited, rejected, call, counted, workerVars>>

Box(b) == <<b[1], b[2], b[3]>>

(* SetBox on a proposal decides it. *)
Keep(b) ==
  /\ Edit
  /\ b[1] \notin locked
  /\ open' = open \ {b}
  /\ edited' = edited \ {b}
  /\ kept' = kept \cup {Box(b)}
  /\ frame' = [frame EXCEPT ![b[1]] = IF @ = "empty" THEN "unlabeled" ELSE @]
  /\ UNCHANGED <<runVars, split, rejected, call, counted, workerVars>>

(* DeleteBox and DeleteTrack: deleting a proposal rejects it as what its    *)
(* track is.                                                               *)
Reject(b) ==
  /\ Edit
  /\ b[1] \notin locked
  /\ open' = open \ {b}
  /\ edited' = edited \ {b}
  /\ rejected' = rejected \cup {<<b[1], b[4]>>}
  /\ UNCHANGED <<runVars, split, frame, kept, call, counted, workerVars>>

Delete(b) ==
  /\ Edit
  /\ kept' = kept \ {b}
  /\ UNCHANGED <<runVars, split, frame, open, edited, rejected, call, counted, workerVars>>

Retyped(b, type) == <<b[1], b[2], b[3], type>>

(* UpdateTrack edits a track's attributes, or gives it another label type,  *)
(* which rejects its proposals if it has the one they were made with, and  *)
(* then waits for their frames.  A track is any proposals of one type that  *)
(* one labeler made on a clip and that were edited together.                *)
UpdateTrack(k, b, type) ==
  /\ Edit
  /\ \E track \in SUBSET {x \in open : Clip[x[1]] = k /\ Tail(x) = Tail(b)} :
       /\ track # {}
       /\ track \subseteq edited \/ track \cap edited = {}
       /\ \/ /\ b[4] = b[3] /\ type # b[4]
             /\ \A x \in track : x[1] \notin locked
             /\ rejected' = rejected \cup {<<x[1], x[4]>> : x \in track}
          \/ /\ b[4] # b[3] \/ type = b[4]
             /\ UNCHANGED rejected
       /\ open' = (open \ track) \cup {Retyped(x, type) : x \in track}
       /\ edited' = (edited \ track) \cup {Retyped(x, type) : x \in track}
  /\ UNCHANGED <<runVars, split, frame, kept, call, counted, workerVars>>

(* SetFrameStatus: labeled verifies what is proposed.                       *)
(* Mutant of MarkDone: the proposals stay. *)
MarkOnly(f) ==
  /\ Edit
  /\ f \notin locked
  /\ frame' = [frame EXCEPT ![f] = "labeled"]
  /\ UNCHANGED <<runVars, split, open, kept, edited, rejected, call, counted, workerVars>>

MarkDone(f) ==
  /\ Edit
  /\ f \notin locked
  /\ frame' = [frame EXCEPT ![f] = "labeled"]
  /\ open' = open \ On(f, open)
  /\ edited' = edited \ On(f, open)
  /\ kept' = kept \cup {Box(b) : b \in On(f, open)}
  /\ UNCHANGED <<runVars, split, rejected, call, counted, workerVars>>

MarkUnlabeled(f) ==
  /\ Edit
  /\ f \notin locked
  /\ frame' = [frame EXCEPT ![f] = "unlabeled"]
  /\ UNCHANGED <<runVars, split, open, kept, edited, rejected, call, counted, workerVars>>

CountBoxes(f) ==
  /\ Edit
  /\ On(f, open \cup kept) = {}
  /\ counted' = counted \cup {f}
  /\ UNCHANGED <<runVars, split, labelVars, call, workerVars>>

MarkEmpty(f) ==
  /\ f \in counted
  /\ f \notin locked
  /\ counted' = counted \ {f}
  /\ frame' = [frame EXCEPT ![f] = "empty"]
  /\ UNCHANGED <<runVars, split, open, kept, edited, rejected, call, workerVars, noteVars>>

(* UpdateVideo with a split. *)
(* Mutant of HoldOut: the row is not waited for. *)
HoldOutNow ==
  /\ Edit
  /\ split' = "test"
  /\ open' = {} /\ edited' = {}
  /\ UNCHANGED <<runVars, frame, kept, rejected, call, counted, workerVars>>

HoldOut ==
  /\ Edit
  /\ at \notin {"video", "frames", "cleared", "boxed", "ready"}
  /\ split' = "test"
  /\ open' = {} /\ edited' = {}
  /\ UNCHANGED <<runVars, frame, kept, rejected, call, counted, workerVars>>

TakeBack ==
  /\ Edit
  /\ split = "test"
  /\ split' = "train"
  /\ UNCHANGED <<runVars, labelVars, call, counted, workerVars>>

(* The API restarts: open transactions roll back, and boot fails what ran.  *)
(* Mutant of ApiRestarts: boot forgets pre-labeling. *)
ApiRestartsOnly ==
  /\ boots < MaxBoots
  /\ boots' = boots + 1
  /\ call' = [c \in Callers |-> Idle]
  /\ counted' = {}
  /\ Return
  /\ stranded' = {}
  /\ UNCHANGED <<runVars, split, labelVars, starts, edits>>

ApiRestarts ==
  /\ boots < MaxBoots
  /\ boots' = boots + 1
  /\ status' = [p \in Runs |-> IF status[p] = "running" THEN "failed" ELSE status[p]]
  /\ call' = [c \in Callers |-> Idle]
  /\ counted' = {}
  /\ Return
  /\ stranded' = {}
  /\ UNCHANGED <<pinned, labeler, jobs, split, labelVars, starts, edits>>

CallStep ==
  \/ \E c \in Callers :
       \/ \E m \in Models : BeginPin(c, m)
       \/ \E l \in Labelers : BeginStart(c, l)
       \/ SeeActive(c)
       \/ CancelActive(c)
       \/ \E p \in Runs : Commit(c, p)
       \/ Rollback(c)
  \/ \E p \in Runs : CancelPrelabel(p)

WorkerStep ==
  \/ \E p \in Runs : Fetch(p)
  \/ ListClips \/ StartRun
  \/ \E k \in Clips : NextClip(k)
  \/ TaskDone \/ LockRun \/ LockVideo \/ LockFrames \/ ClearOld \/ ListBoxes \/ ListRejected \/ Save
  \/ Finish \/ GiveUp \/ CheckCancelled \/ RecordFailure \/ RecordLost

LabelStep ==
  \/ \E f \in Frames :
       \/ MarkDone(f) \/ MarkUnlabeled(f) \/ CountBoxes(f) \/ MarkEmpty(f)
       \/ \E t \in Types : Draw(f, t)
  \/ \E b \in open : Keep(b) \/ Reject(b) \/ \E t \in Types : UpdateTrack(Clip[b[1]], b, t)
  \/ \E b \in kept : Delete(b)

Next == CallStep \/ WorkerStep \/ LabelStep \/ HoldOut \/ TakeBack \/ ApiRestarts

Spec == Init /\ [][Next]_vars

(***************************************************************************)
(* Properties.                                                             *)
(***************************************************************************)
Statuses == {"none", "queued", "running", "succeeded", "failed", "cancelled"}

TypeOK ==
  /\ pinned \in Models \cup {NoModel}
  /\ status \in [Runs -> Statuses]
  /\ labeler \in [Runs -> Labelers \cup {NoModel}]
  /\ jobs \subseteq Runs
  /\ split \in {"train", "test"}
  /\ frame \in [Frames -> {"unlabeled", "labeled", "empty"}]
  /\ open \subseteq Proposals
  /\ kept \subseteq Frames \X (Labelers \cup {Person}) \X Types
  /\ edited \subseteq open
  /\ rejected \subseteq Frames \X Types
  /\ call \in [Callers -> [kind : {"none", "pin", "start"}, by : Labelers \cup {NoModel},
                           hit : SUBSET Runs, stage : {"begun", "waiting", "cancelled"}]]
  /\ counted \subseteq Frames
  /\ at \in {"idle", "fetched", "listed", "clips", "waiting", "reported", "run", "video",
             "frames", "cleared", "boxed", "ready", "failing", "recording"}
  /\ cur \in Runs \cup {NoRun}
  /\ todo \subseteq Clips
  /\ listed \subseteq Frames /\ dets \subseteq listed \X Types /\ locked \subseteq listed
  /\ cleared \subseteq Proposals /\ covered \subseteq locked /\ barred \subseteq locked \X Types
  /\ stranded \subseteq Runs

(* The proposals a step adds; a save may replace one by another of the same *)
(* labeler, and a track given another type keeps its proposals.            *)
Landed ==
  LET old == IF at = "ready" /\ at' = "clips" THEN open \ cleared ELSE open
  IN  {b \in open' : Box(b) \notin {Box(a) : a \in old}}

(* Whatever waits or runs for a YOLO model does so for the pinned one: each *)
(* pin cancels the runs of the model it replaces.                          *)
ActiveForPinned ==
  \A p \in Runs : status[p] \in Active /\ Source(labeler[p]) = "yolo" => labeler[p] = pinned

(* Proposals appear only while their run runs: a cancellation that returned *)
(* is the end of it.                                                       *)
LandsWhileRunning == [][Landed # {} => status[cur] = "running"]_vars

(* A run that says it is running is worked, unless its failure could not be *)
(* recorded since the API started.                                         *)
RunningIsWorked ==
  \A p \in Runs : status[p] = "running" =>
    p \in stranded \/ (cur = p /\ at \notin {"idle", "fetched", "listed"})

(* An older model's boxes do not replace what the pinned model proposed.    *)
OlderNeverLands ==
  [][\A b \in Landed :
       b[2] \in Models \ {pinned} => \A a \in open : ~(a[1] = b[1] /\ a[2] = pinned)]_vars

(* A held-out video has no model's proposals, whatever was being saved when *)
(* it was held out.                                                        *)
HeldOutClean == split = "test" => open = {}

(* A frame marked done has no proposal left to decide on.                   *)
DoneIsDecided == \A f \in Frames : frame[f] = "labeled" => On(f, open) = {}

(* Where a person rejected a proposal of a label type, by deleting it or by *)
(* giving its track another, none of that type is made again: one of       *)
(* another type may be.                                                    *)
NeverProposedAgain == [][\A b \in Landed : <<b[1], b[3]>> \notin rejected]_vars

(* Nothing is proposed on top of a box a person drew or accepted.           *)
DrawnNotCovered == [][\A b \in Landed : On(b[1], kept) = {}]_vars
===============================================================================
