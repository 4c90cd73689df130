# Krill in TLA+

Krill is a labeling tool for underwater video. A Go API keeps videos, clips, frames,
boxes and models in Postgres and in an object store; Python workers with a GPU ask the
API for work; a React client is what labelers and admins see. This directory models the
parts of it whose correctness depends on the order in which several actors act, checks
them with TLC on small instances, and proves the most important results with TLAPS for
every instance.

Paths below are relative to the repository, `int/` stands for `api/internal/`.

## 1. The system

| part | state | operations | hard because |
|---|---|---|---|
| dispatcher, `int/tracker` | in memory: three queues of tasks, a wakeup channel of one token, the tasks registered by id; each job's goroutine | `Run` offers a task and waits, with a pickup timer and an idle timer; `NextTask` and `CheckIn` take one; reports touch or end it; `Heartbeat` names what to stop | a timer against a pop, one token for many, ids reused after a restart |
| GPU worker, `worker/src/krill_worker` | the tasks it is inside, what the heartbeat last said | a main loop, tasks nested in training, a heartbeat thread | lost answers, stale cancel lists |
| training, `int/pipeline/train.go`, `schedule.go` | `training_runs`, a River job for each, the pin, goroutines | start, schedule, cancel, report, finish, pin by hand or automatically; the admin panel's cancel and retry | cancel against register, late reports, restarts |
| pre-labeling, `int/pipeline/prelabel.go` | `prelabel_runs`, proposed boxes, rejections | a pin or a person starts a run, which replaces the active ones; a run saves a clip at a time | saves against pins, labelers and the video's split |
| model trials, `int/pipeline/model_trials.go` | `model_trials`, their boxes and tracks; a River job each; one goroutine | start, cancel, start again on the same row, report, finish, fail | old goroutine, job, reports and cancellation against the new attempt |
| annotation, `int/annotation` | tracks, boxes, frame status, events | draw, move, delete, relabel, mark done or empty, copy | counts read before a write |
| label editor, `web/src/labeling/useLabelStore.ts`, `localBackend.ts`, `pages/ClipPage.tsx`, `workspace/usePrefetchNeighbours.ts` | the labels on screen, the queue of edits, undo entries, ids that undo replaced, the cached clips | each edit, its answer or rollback, undo, opening a clip or a gold check, fetching neighbours ahead | what is on screen runs ahead of what is saved, across clips |
| claims, `int/queue`, `int/video/claim.go` | who holds each clip, since when | next clip, take, release, refresh | two labelers at once, staleness |
| ingest, embedding, trash, content: `int/ingest`, `int/trash`, `int/content`, `int/clip` | videos, clips, frames, objects | ingest, re-extract, trash, restore, purge | rows and objects are two stores; a purge job against an ingest |
| review, gold | reviews, gold frames, attempts | flag, enqueue, resolve, score | little: single statements and one unique index |
| export, backup, storage scan | a row and a River job each | queue, work, fail at boot | interrupted work |
| users, sign-in, invites, taxonomy, settings, audit, mail, logs, statistics, compute registry | rows | single transactions, reads | not the labeling core |

They meet in five ways. Jobs (tracks, exemplar searches, embeddings, pre-labels, trials,
training) call `Dispatcher.Run` and wait there. Workers call RPC handlers, which find the
task by its id and the row by its own. A pin, made by a person or by a training run that
just finished, inserts a pre-label run in the same transaction. A pre-label run writes
boxes to frames that labelers edit. The label editor queues edits and sends them one at a
time to the annotation service, while the page loads labels through a cache of its own.

## 2. Modules

    TaskLine            what the dispatcher promises: one line, in order
    Dispatcher          queues, jobs, handlers and workers; implements TaskLine
    DispatcherProofs    theorems about Dispatcher, the facts about queues they rest on, and the
                        proof that Dispatcher implements TaskLine
    Training            training runs, their jobs, pins
    TrainingProofs      theorems about Training
    Prelabel            pre-label runs, saves, labelers, the video's split
    PrelabelProofs      theorems about Prelabel
    ModelTrial          a trial's attempts, its jobs, reports and restarts
    ModelTrialProofs    theorems about ModelTrial
    Annotation          the annotation service's handlers as functions of the rows
    AnnotationProofs    what those functions keep
    LabelStore          the label editor against the API; composes Annotation
    LabelStoreProofs    theorems about LabelStore
    LabelDoneProofs     theorems about LabelStore: what is shown as done is done
    LabelUndoProofs     theorems about LabelStore: undoing everything brings back what there was
    MCDispatcher, MCTraining, MCPrelabel, MCModelTrial, MCLabelStore
                        small instances for TLC

Training, Prelabel and ModelTrial take a dispatcher that ends every task (`JobsEnd`, checked in
Dispatcher) as given: waiting for a task is one state there, and the answer comes or does
not. `Prelabel` takes from Training that a pin is a transaction that cancels and queues.

### Dispatcher

One step is one critical section under `Dispatcher.mu`, or one channel operation outside
it, so `push` and its `wake` are two steps, as are a poller's look at the queues and its
wait for the token. State maps one to one: `pending`, `ready` and `running` are the
fields of the same names; `picked` is the set of tasks whose `picked` channel is closed;
`done` is what each task's buffered channel holds; `job[t]` is the program counter of the
goroutine in `tracker.run`. A worker is a stack of tasks (training at the bottom may hold
one more on top), a phase, and the heartbeat's last answer.

Taken together, deliberately: the pickup timer and the cancellation of the job's context
both lead to `givingUp`, where `withdraw` decides; the idle timer may fire at any moment
after pickup, so the progress channel that puts it back needs no state. A lost request or
response, or a worker that dies, is a fault, bounded by `MaxFaults`; a restart of the API
is bounded by `MaxBoots`. After a restart workers keep what they hold, ids start at 0.

### Training

One step is a transaction whose statements lock what they read, or a statement outside a
transaction. `Lock`, `QueueRun` and `Rollback` are the three parts of starting a run under
the table lock, so both the start by hand and the hourly schedule can stand between them.
`pc[r]` is where `workTraining` is; `tracked` and `halted` are the map behind `track` and
`stop` and the contexts cancelled through it. `report[r]` is a report whose handler has
read the row and not written it yet. River is external: it hands out an available job,
files it when `Work` returns, and finds jobs that nobody works after a restart (`Rescue`);
what its client's cancel and retry do to a job is modelled from how `admin/jobs.go` uses
them.

A write that fails is `GiveUp`, and one that fails while it records a failure, `RecordLost`: the
run stays active and its job is over. The history variable `stranded` holds such runs, and at a
restart those that are still queued with a job that was handed out and is not worked any more
(`Forgotten`); the properties leave these out and nothing else. What a dataset contains and when
a retrain is due are left out: the schedule may start a run whenever none is active.

### Prelabel

Postgres runs these transactions READ COMMITTED, so their statements are separate steps,
each of which sees what others committed before it. A statement that updates or locks a
row waits while another open transaction holds it: `Settled` and `Saving` say who holds
the rows of runs. What a transaction wrote appears at its commit, until then it is in
`call`, `cleared`, `covered`, `barred`. `CancelActivePrelabelRuns` is two steps, because it
updates the rows of the snapshot it began with, after waiting for them.

`savePrelabels` locks the run, then the video, then the frames, `FOR UPDATE`. Boxes, box
events and rejections reference their frame, and such an insert takes a key-share lock on
the frame: a labeler's step that inserts one waits for the save. Steps without such an
insert, like deleting a verified box, do not wait.

`RecordLost` is as in Training: `FailPrelabelRun` may fail too, and `stranded` holds the runs
that it leaves running until the next restart.

A frame shows one object, so any two boxes on it overlap. A proposal is its frame, who made it,
the label type it was made with and the one its track has now; a save may propose several types
on a frame, and a rejection, as in the code, is of a frame and a label type. What rejects a
proposal is that it is deleted, or that its track is taken off the type it was made with
(`UpdateTrack`, for any set of proposals of a clip that can be one track). The third way, a box
that is moved far from where it was proposed, is left out with the positions of boxes, as are
how a moved box meets a proposal and the linking of boxes into tracks. `MaxEdits` bounds what
labelers do and the changes of the split together.

### ModelTrial

One step is a statement or a transaction, as in Training. `at` is where `workTrial` is, and
there is one goroutine because the queue has one worker; `Tracked` stands for the map behind
`track` and `stop`. `task` and `sent` are the dispatcher's task of the chunk being worked, and
`report[h]` is a ReportPrelabels handler, which looks the task up, then saves, then signals.
A row is reused when it is started again: the history variable `era` counts the attempts and
every reported box carries the era of the goroutine that asked for it, so that boxes of two
attempts can be told apart, which the code cannot. `stranded` holds the trials that a crash
or a failure that could not be recorded left active with nobody to work them.

A box stands for all boxes of a report, a worker sends at most two reports on a chunk, and
jobs are counted per trial, since an admin may set their priorities and so change their
order. Cancelling a trial's waiting job in the admin panel is left out; `cleanUpCancelled`
has no case for it either, so such a trial stays queued like a training run.

### Annotation and LabelStore

`Annotation` has the handlers as functions from rows and a request to rows and an answer:
one transaction, one step. `LocalHandle` is `localBackend`, which a gold check uses in their
place. Prelabel takes the same transactions apart, statement by statement.

`LabelStore` is one browser and the API. A step of the browser is one that JavaScript runs
to completion; what waits at an `await` is in `queue` and `flight`. Since a job's end starts
the next one in the same turn, `Turn` keeps the labeler from acting between the two. An edit
is a record of what its closure holds: the box it replaced, the status before, the tracks it
accepted. `RequestOf` is evaluated when the request is sent, with the backend the store has
by then. `undoStack` holds the undo entries' closures in the same form, and `remap` is the
map from ids that undo has replaced to their successors, which `Resolve` follows.

The page: `cache` and `asked` are react-query's cache and its requests, `kept` the clips that
stay for five minutes because a prefetch asked for them without a `gcTime`. A clip that is
left without having been fetched ahead is dropped at once. `Open` shows a cached clip without
asking, because `staleTime` is infinite.

The history variable `upset` says what may keep the screen from matching the API, and the
properties name what they tolerate: "stale", the clip was loaded with edits on their way;
"lost", an answer was lost after the API acted; "refused" and "undoRefused", an edit or an
undo was refused; "guessed", a move or a mark was refused that had been made while others
waited; "remarked", a mark was refused after the same frame had been marked again; "hurried",
an undo overlapped other edits. `ShownIsSaved` holds in spite of hurried undos and refusals,
`NoFalseDone` in spite of "refused", `UndoRestores` only without any of these.

Left out: starting a track and the poll for its boxes, exemplar search, attributes, the
limit of 100 undo entries, the claim an edit refreshes, other labelers.

A gold check takes its frame's id for the id of its clip, and counts its tracks from 1, so its ids
may be those of a clip and of tracks in the database: `IdOf` is the id that the store has for
what is open, and `GoldId` the one that a gold check's has, which the instances make that of the
frame's own clip. A job asks for the backend when it runs, so it matters which requests of a gold
check the API would accept.

## 3. What the runs show

| run | question | instance |
|---|---|---|
| dispatcher_races | Is a task popped twice, held twice, or stopped by mistake, a result taken for another's, a click handed out after training, or ever starved, without any timer to help? | a track and training, 2 workers |
| dispatcher_restart | Do the queues behave as one line (TaskLine), across a restart? Is a wakeup lost? Does a refused task run, does an ended job leave its task waiting or registered, does every job end? | a track and training, 1 worker, 1 fault, 1 restart |
| dispatcher_stale_results | violation: results of a task of the last boot are taken for another's | 1 worker, 1 restart |
| training_runs | Is one run active at a time, does cancelling reach the job, is a run abandoned, does one change after it ended? | 2 runs, one of each bound, symmetry |
| training_queue | Does a queued run have a job, does it end, does a scheduled model replace only one it beats? | 2 runs, nobody pins by hand, no admin, 1 restart |
| training_cancel_job | violation: cancelling a waiting job in the admin panel leaves its run queued for ever | 2 runs, 1 admin step |
| prelabel_runs | Are active runs for the pinned model, is a running run worked, does a box land after a cancellation? Does a held-out video stay clean, a done frame decided, a rejection of a label type or a drawn box respected? | 2 runs, 2 models, 1 frame, 2 label types, 1 request at a time, 2 edits or changes of the split, 1 restart |
| prelabel_start | violation: a start that races a pin proposes the older model's boxes over the pinned one's | 2 runs, 2 models, 2 requests |
| labels_edits | Do edits arrive in order? Is what is shown once all is saved what the API has, and a frame shown done done? Does undoing everything bring the clip back? What of a gold check, or of the clip before, reaches the clip? | 2 clips, 3 frames, one of them done and empty, a proposed box, a gold frame with the id of its clip, 2 edits and their undos, 3 loads, 1 fault |
| labels_rollback | violation: a frame marked twice with the same status, the first mark refused, is shown with the status before both | 2 clips, 2 edits, 1 load, 1 fault |
| labels_fresh | violation: a clip that was fetched ahead is shown from the cache, older than what was saved | 1 edit, 3 loads |
| trial_runs | Is a finished trial whole, and does it stay? Is an active trial attended, and does it end? | 1 trial of 2 chunks, 2 handlers, 2 starts, 1 cancellation, 1 restart |

Why the bounds are enough. Every property of the dispatcher is about at most two tasks, or a task
and a worker; two of each put a token, a pop and a timer of each side against each other. Their
priorities differ; the third queue, of pre-labels, works like the other two. A fault or a restart
is one event whose effect on a task does not depend on an earlier one. Faults and two workers meet
in no run, but in the theorems, which cover any number of each. Two runs are what it takes to be
two at once, and to have a pin and its replacement. A save meets a labeler twice (a mark and its
change, a draw and its deletion) within two edits. In the label editor two edits are one that
waits behind the other, and their two undos reach an entry older than the last one; two loads are
leaving a clip and what is shown instead; three are coming back to it, or a gold check between two
clips, which is what it takes for an edit of the check to wait until the API is the backend again.
`Budget` bounds edits, undos and faults together, by less the more loads there are: four of them
happen in one clip, the second load comes after at most two and leaves room for two in all, the
third comes after at most two and leaves room for one. Two starts of a trial are one attempt and
what is left of it during the next; two chunks a chunk that is counted and one that is not; two
handlers a late report and a current one. Since one worker takes one trial at a time, another
trial only delays this one. The proofs below remove the bounds altogether for the properties they
cover, including any number of faults and restarts. Symmetry is used only where no liveness is
checked and no property tells the members apart.

Deadlock is checked for the dispatcher, Training and Prelabel. The runs of LabelStore and
ModelTrial say CHECK_DEADLOCK FALSE: a labeler may have nothing left to do within the
bounds, and a trial queue may be empty; that a trial does not stop half-way is `Ends`.

### Disagreements found

1. *dispatcher_stale_results*. `Heartbeat` (int/tracker/service.go:246) assumes that
   nothing accepts the results of a task from before a restart. Ids start at 0 on every
   boot and reports are matched by id, so a new task of the same number takes them.
2. *training_cancel_job*. `cleanUpCancelled` (int/admin/jobs.go:480) has no case for
   training jobs, so the run of a cancelled waiting job stays queued, and while it does
   every start is refused.
3. *prelabel_start*. `StartPrelabel` (int/pipeline/service.go:255) reads the pinned model
   before its transaction takes any lock that a pin takes, so it may queue a run of the
   model that was just replaced, whose boxes then replace the pinned model's.
4. *labels_rollback*. The store's test (web/src/labeling/useLabelStore.test.ts:54) promises
   that it "rolls back a failed save without undoing edits made while it was in flight". The
   rollback of a mark (useLabelStore.ts:518) knows its own mark by the status alone, and takes
   a later mark with the same status for its own: a done frame that is marked as not done
   twice, while the first request fails, is shown as done, and is saved as not done.
5. *labels_fresh*. `ClipPage.tsx` (web/src/pages/ClipPage.tsx:199) says that a clip is dropped
   once it is left, "so coming back always loads fresh labels". `usePrefetchNeighbours`
   (web/src/workspace/usePrefetchNeighbours.ts:21) fetches the same query without a `gcTime`,
   so a clip reached from its neighbour stays cached for five minutes with the labels it had
   when it was fetched ahead, and what was drawn since is missing from the screen.

Another came from the attempt to prove NoFalseDone as it was first stated; the bounds of
labels_edits are too small to meet it. "A frame marked empty that gains a box goes back to
unlabeled, matching what the server does" (useLabelStore.ts:164). Every edit that adds a box
calls `clearEmpty` for it, but the undo of a move or a deletion, which puts a box back
(lines 376-382 and 408-416), does not. It matters when the frame is shown as empty by then:
a box is deleted of a track that has others, its frame is marked empty, the undo of the mark
is refused, and the next undo puts the box back. The API has the frame unlabeled, the screen
shows it as empty and done. No refusal is needed on a frame that was empty when it was loaded
and has a box all the same, which a tracker can leave there: `UpsertProposals`
(int/db/queries/tracking.sql:13) does not look at the frame's status. NoFalseDone is
stated for refusals other than an undo's, and proved if no empty frame has a box to begin with.

One came from asking which ids a gold check has. "Gold checks swap in a local one so nothing
reaches the clip" (useLabelStore.ts:27), but the backend is chosen when an edit is sent
(line 363), and a gold check's clip has its frame's id (GoldCheckPage.tsx:192). Where a frame and
its clip have the same id, a box drawn in a gold check while an edit of the clip before is still
on its way is sent to the API if another clip is opened by then, and the API accepts it. TLC
reaches this in labels_edits' instance. `OnlyDrawsEscape` states what is left of the comment: no
other edit of a gold check, and no draw on a frame with other ids, reaches the rows.

Two more are of model trials. ModelTrial has the behaviours, and no property excludes them:

- `CancelModelTrial` commits and then stops whatever goroutine is registered for the trial
  (int/pipeline/model_trials.go:689), and the goroutine of a cancelled attempt reads the row
  again to see why it failed (line 80). If the trial was queued again in between, the
  cancellation stops the new attempt, or the old goroutine finds the row queued and fails
  the new attempt with the old one's error, although the comment at line 67 says "records
  why it failed unless it was cancelled".
- "Boxes a worker reports after the trial stopped are dropped"
  (int/db/queries/model_trials.sql:78) looks at the row's status alone. A handler that is
  still at work when the trial runs again adds the old attempt's boxes to the new one's.

Lesser ones are in the notes of PROJECT.json's hazards: a frame's boxes are counted before
the transaction that marks it empty; a model pinned by hand during a scheduled run is
replaced by one that was never compared with it; an API that dies between River's handing
out a job and `StartTrainingRun` leaves the run queued. In the label editor: an edit of a clip
that still waits when a gold check opens is saved in memory only; a move that fails after a
deletion was queued behind it puts a box on the screen that the deletion takes from the API
alone; the answer of a copy clears an EMPTY that the API is yet to be told of; and with a
mark, another mark, an undo and a mark in quick succession the undo's answer shows a status
older than the last mark.

### Fairness

- `JobFairSpec` (JobsEnd): a job's goroutine runs and its timers end. Nothing is asked of the
  workers.
- `ServiceFairSpec` (NobodyStarves): a push and its wakeup happen; workers poll, handlers answer;
  training checks in again and again between batches, though it may never end (strong fairness,
  since a check-in is possible only between reports); a task other than training ends. No timer is
  assumed to fire, neither the job's nor the poll's, so a lost wakeup would show.
- `FairSpec` of Training (RunsEnd): the goroutine of a run takes its steps, and a transaction that
  found the table busy rolls back. Strong fairness on the job's steps: Postgres serves a table
  lock in order, so others who keep asking cannot keep it away. `RecordLost` has no fairness: a
  write that records a failure may be lost, and need not be.
- `FairSpec` of ModelTrial (Ends): River hands out jobs, and the goroutine goes on, which it does
  because every wait of it has a timeout: the dispatcher's pickup and idle timers, the ten seconds
  for recording a failure. Nothing is asked of the GPU worker, of the handlers of its reports or
  of the database, which may fail at each step.
- Prelabel has no liveness property: a run may be cancelled or fail at any time. LabelStore has
  none either: a browser's request may take for ever.

## 4. What is proved

TLAPS checks these for any tasks, workers, kinds, runs, scores, trials, chunks, clips, frames
and bounds, from the named
assumptions on the constants (they are typed, and the model values are none of the others).

**Dispatcher** (DispatcherProofs): `TypeOK`, `NoLostWakeup`, `PoppedOnce`, `OneHolder`,
`RefusedNeverRuns`, `Settled` (a job that ended, or was not begun, has its task in no queue and
not registered, and one that waits for an answer has it registered), the action property
`ByPriority`, which is about levels only (that the oldest of a level leaves first is part of
ImplementsLine), and, until the API restarts
for the first time, `StopsOnlyTheDead` and `OwnResults` (dispatcher_stale_results shows why no
longer). The inductive invariant is the conjunction of TypeOK, Settled,
PoppedOnce, NoLostWakeup and OneHolder. PoppedOnce alone is not inductive: that a pushed
task is not yet picked needs to know where its job is, which is Settled; OneHolder needs
that whatever a worker holds was popped, and a popped task never waits again. Most steps
touch neither the queues nor the stacks, and one lemma (InvQuiet) does them all; a push,
a pop with the worker's taking it, a withdrawal and a restart have lemmas of their own,
which rest on what the sequence operators do to who is in a queue (AppendToQueue to
RemoveFromQueue). NoLostWakeup holds by the argument that each way to empty the
token channel puts a poller in front of the queues, and that a pop leaves a token behind
if anything still waits. OwnResults rests on Numbered: until a restart no two tasks get the
same id, so whoever names an id means the task that was given it.

`ImplementsLine` (the end of DispatcherProofs) is proved step by step. Line's queue is the three
queues of the dispatcher one after the other, `InLine`, and its fate of an offer is read off the
job and the workers, `Fate`. A push appends to one of the three, which inserts into the line
behind as many as are of its priority or a more urgent one; a pop takes the head of the first
queue that is not empty, which is the line's head; a withdrawal removes one; a restart empties the
line and drops all that was in it; every other step leaves both, or takes or refuses one offer
(FateCases says which fate goes with which place of the job, from the invariant).

**Training** (TrainingProofs): `TypeOK`, `OneActive`, `CancelStops`, `NoneAbandoned`,
`EndIsFinal`; `QueuedHasJob` until an admin's step, which can lose a job (training_cancel_job),
and `AutoPinImproves` as long as nobody pins by hand or has a job run again in the admin panel.
The inductive invariant adds two conjuncts. CountHolds says that a locker that counted no active
run is still right, because inserting takes the lock that it holds and no other step makes a run
active. Placed says where a goroutine, its registration and a cancellation on its way can be
together, which is what CancelStops needs: a run registers before it reads its row, and a
cancellation commits before it stops whoever is registered, so one of them sees the other. The
proof of OneActive goes through `Moves`: every step but QueueRun takes a run from active to active
or to an end, so it cannot make a second one active. EndIsFinal is an action property; it follows
from Moves and type correctness. QueuedHasJob needs that a goroutine which is done with a run left
it no longer queued, or stranded, and that a restart strands the runs whose jobs it cut off before
they started them; AutoPinImproves that the pin a goroutine compared its score with is still the
pin when it writes, because no other run can have finished in between.

**Prelabel** (PrelabelProofs): `TypeOK`, `RunningIsWorked`, `HeldOutClean`, `DoneIsDecided`, and
the action properties `LandsWhileRunning`, `NeverProposedAgain` and `DrawnNotCovered`, for any
number of requests, runs and restarts and any split of the frames into clips. What makes them
inductive is that a save holds what it locked, and what it read stays true of it. HoldsRun says
that its run runs and that no open transaction has cancelled it; HoldsVideo that its video is not
held out; HoldsFrames that its frames are still unlabeled, that every frame with a verified box is
among those it found covered, and that every rejection on them, frame and label type, is among
those it read. A pin or a cancellation keeps HoldsRun because its statement waits for the row the
save locked, and the save waited for those that came before (KeepsRun, CallRun); a labeler keeps
HoldsFrames because each change of a frame waits at the frames the save locked (LabelLabel). Fresh
says that what a save gathers is empty outside of it, and HitsExist that a request cancels only
runs that exist, so that creating a run never resurrects one. OnlySavesLand reduces the action
properties to the last statement of a save. `ActiveForPinned` and `OlderNeverLands` are proved of
behaviours in which the requests that choose a model do not overlap, which is exactly what
prelabel_start breaks: what such a request read of the pin is then still so when it commits.

**ModelTrial** (ModelTrialProofs): `TypeOK`, `Attended`, `SucceededIsWhole`, and the action
properties `SucceededStays` and `CancelSticks`; the last one has no run. Eras says
that what was saved or reported before a trial was queued again is of an earlier attempt;
Place that a goroutine which ran its trial runs it still, unless the trial was cancelled, and
belongs to an earlier attempt if the trial waits again; from it follows that the goroutine
never touches a finished trial. Kept is Attended with the place of the goroutine added: a
trial that runs is past the step that made it run, so no second job makes it running.
OneTask says that a goroutine's own reports belong to the one task it waits for. Gathered
follows a box from its report over the handler that saves it to the list that is linked, and
gives SucceededIsWhole at Finish: a task is done only once the handler of its last report has
saved, and a worker reports again only when the report before was answered.

**Annotation** (AnnotationProofs): `HandleKeeps`, for every request: a handler's rows have
their type, boxes are on frames of their track's clip, ids to come are unused, and its answer
has the type of an answer. `LocalType` says the same of the backend in memory, except that it
knows no clips.

**LabelStore** (LabelStoreProofs; LabelDoneProofs and LabelUndoProofs for the last two): `TypeOK`,
`BoxesInClip`, `ShownIsSaved`, the action properties `InOrder` and `OnlyDrawsEscape`; if no frame
marked empty has a box at the start, `NoFalseDone`; and if every track has a box at the start,
`UndoRestores`.
Pending says that every waiting edit and undo entry has the fields its kind needs, which is
what makes RequestOf a request; InFlight that a request under way was prepared; Screens that
what is loaded, cached or on its way is of the clip it is kept for, so that a frame on screen
has a status to come back to; Sound that the database satisfies what HandleKeeps assumes.
Numbered carries InOrder: edits wait in the order they were made, and none is older than the
last one served. BoxesInClip does not depend on the client at all: a track of the last clip
can be on screen, and it is the handlers' check that keeps its box out.

OnlyDrawsEscape needs Apart: as long as a clip's request is on its way, a gold check that was
opened meanwhile has nothing on screen and no undo entries, and its only edits are draws on its
frame, since its own queue has not run yet. So whatever the API is sent of a gold check is such a
draw (an edit that comes later is made while the backend is the one in memory, and runs before
another clip can replace it), and CreateTrack's check that the frame is in the clip refuses it
unless the gold frame's id is that of its own clip.

ShownIsSaved is the longest argument. Its invariant, Mirror, relates the screen to the API
while edits are on their way, as long as the screen was loaded when nothing waited, no answer
was lost and no rollback had to guess (Certain). Mirrored says that what is shown equals what
is saved but for two differences that will pass: a box that was moved on screen and whose
request waits (Ahead), and an answer that the API has given and the screen has not taken in
(Landed), for which TrackNow and BoxNow say what it will show. OwnLabels, OwnEdits and
OwnFlight say that every id on screen, in the queue, among the undo entries and in `remap` is
one the API gave out for this clip, so that no request can touch what is not shown, and no
heir of an id is of another clip. PutsBack says that a move made while nothing waited knows
the saved box, so its rollback is right. HandleDoes states what each handler changes of the
rows (Applied), AnswerApplied that the answer changes the screen in the same way.

NoFalseDone is about the statuses, and builds on Mirror. Its invariant, Honest, holds while the
clip on screen was loaded with nothing on its way and nothing worse than "refused" happened since
(Sure). OnFrames says how far the screen may be from what is saved: a status it shows is saved, or
the last mark that waits will save it, or it is "unlabeled", or an answer that is on its way will
correct it (Told); a frame shown as empty has no box, and every box is on the screen. Marks says
that a mark made while nothing waited knows the saved status, which is what its rollback shows,
and that above its own undo entry are only the undos of marks that still wait. UndosFit is the
discipline of the undo stack: an undo runs alone, and when an entry that puts a box back is
reached its frame is not shown as empty, since the mark made after it has been undone by then.
This is what an undo that is refused breaks, and so does a box on an empty frame, hence the
assumption: with such a box in the database, deleting and restoring it leaves an empty frame on
the screen that the API has as unlabeled. `EmptyHasNoBox` proves that the handlers never bring it
about with one labeler (Tidy); `UpsertProposals` and the races among the hazards may. HandleStatus
and AnswerStatus state what a handler and its answer do to a status. The assumption is true of the
instance that labels_edits checks.

UndoRestores says what the clip is once a whole stack of edits has been undone. That need not be
computed by recursion over the stack: the argument follows each *spot* alone, the type of a track
or its box on one frame. Remembers, its invariant, says of each spot that had a value when the
clip was loaded who will give it that value back: the entry of the undo stack that is undone
last of those about the spot; if there is none, the undo that runs, or what will undo the edit
whose answer is on its way (Due, built by After, before the screen knows of it); and if nothing is
about the spot, then the rows have that value (Holds), and the edits that wait and will change it
have noted it as what they found (Expected). Every step moves a spot along this chain. An edit
that the API accepts makes a spot of the rows one of Due, and its undo restores what it found
(EditsPay, BackEdit); the answer pushes Due on the stack (BackPush); Undo takes an entry off
(BackPop); an undo that the API accepts pays the spot back to the rows, or leaves it to the rest
of itself when it has several requests (UndosPay, BackUndo). An edit finds on screen what is
to be found because Mirror holds (ShownAs).

A track that undo makes again has a new id, while older entries hold the old one. The rest of
the invariant is about this. OneEnd says that following `remap` from an id comes to one id that
stands for itself, which is `Resolve`; Recreates, that a track which the stack will make again is
deleted, has no heir and is made again once; Born and New, that a new id is none that anything
named before; Direct and Fresh, that edits and the undo of the edit that was just accepted name a
track by the id it has by now, and Sent that a request does. When the API makes a track again,
every spot of the old id becomes one of the new id (BackReborn), before the store learns the new
id from the answer; Heir is `Resolve` as it will be then (RemapMoves).

The assumption, Full, is needed: a track without boxes that is deleted is not made again by the
undo, which asks for nothing when there is no box to put back; and a box that is drawn on such a
track is undone by deleting it, which deletes the track too. TLC finds the first of these when
MCRows is given such a track. `TracksHaveBoxes` proves that with one labeler each
track always has a box. Two labelers who delete the last two boxes of a track at once can leave
one that has none, since each transaction still counts the other's box
(int/annotation/service.go:298, a hazard). MCRows has no such track. And the code keeps 100 undo
entries (`MAX_UNDO`), a limit that the model leaves out: the theorem is about what a labeler does
with a clip in at most 100 edits.

**Only model-checked.** Liveness under fairness (JobsEnd, NobodyStarves, RunsEnd, Ends), which
is out of the prover's reach, as is ENABLED. Every invariant and every action property of a passing
run is proved, some of them under a condition that the paragraphs above name.

## 5. What is not modelled

PROJECT.json lists every part with its reason. Left out on purpose: what models compute,
images and frames, the wording of messages, logging, auditing, presigned URLs, and the
client beyond its label editor, which displays what queries return. Most of the repository's
TypeScript is such display, or generated from the protocol; the core modelled here is in Go,
SQL and Python and in a few files of `web/src`. The client's poll for tracked boxes and
exemplar searches, and the admin panel's handling of jobs other than training, are the open
ends of parts that are modelled. Sign-in, invites, users, taxonomy and
settings are single transactions outside the labeling core. River, Postgres and the object
store are modelled only by how the code uses them.

## 6. Plan

In the order of what matters next, with its hazards already listed:

1. *Tracking* in LabelStore: starting a track, the poll of its boxes (useTrackingPoll.ts),
   whose answer may be older than an edit made since, and what a worker's boxes do to the
   labels.
2. *Library*: videos, clips, frames and objects under ingest, re-extraction, trash,
   restore, purge and the purge jobs. Every frame with a row has its object once an ingest
   has finished; a purge removes no live frame's object; clips of a video are numbered
   without gaps; nothing that was purged comes back.
3. *Claims*, with the trash that releases them: a labeler who was given a clip holds it
   until it is taken, released or stale; a claim that changes hands is audited.
4. *Tracks*: boxes, copies and deletion of a track's last box, statement by statement, with
   two labelers.
5. Uploads: multipart uploads that are resumed, finished twice or given up.
6. Proofs: that the annotation service's handlers, statement by statement as Prelabel has
   them, implement those of Annotation where no two meet.

Some properties hold only in the instance that checks them, and widening it needs a weaker
statement: NobodyStarves across a restart, after which an id may name two tasks; AutoPinImproves
with a pin by hand in between.
