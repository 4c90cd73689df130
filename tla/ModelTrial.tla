------------------------------ MODULE ModelTrial ------------------------------
(***************************************************************************)
(* Model trials: a finished run's model tried on every frame of a clip.     *)
(*                                                                         *)
(* A trial is one row, which StartModelTrial queues again once it failed or *)
(* was cancelled.  The one worker of the queue sends the clip's frames to a *)
(* GPU worker a chunk at a time; the handlers of that worker's reports save *)
(* boxes; a cancellation commits and then stops whatever goroutine is       *)
(* registered for the trial.  Each statement and each transaction is a      *)
(* step.                                                                    *)
(*                                                                         *)
(* River may hand out jobs in any order: an admin sets their priority.      *)
(***************************************************************************)
EXTENDS Integers

CONSTANTS
  Trials,     \* pairs of a run and a clip that may be tried
  Chunks,     \* how many tasks a clip's frames take
  Handlers,   \* requests of ReportPrelabels that may be open at once
  NoTrial,    \* a model value: no trial
  MaxStarts,  \* bound: requests that queue trials
  MaxCancels, \* bound: trials cancelled
  MaxBoots    \* bound: restarts of the API process

ASSUME NoTrialAssumption == NoTrial \notin Trials
ASSUME ChunksAssumption == Chunks \in Nat
ASSUME BoundsAssumption == MaxStarts \in Nat /\ MaxCancels \in Nat /\ MaxBoots \in Nat

Active == {"queued", "running"}

VARIABLES
  \* the database
  status,     \* each trial's status, "none" before it is created
  boxes,      \* the boxes saved for each trial
  linked,     \* those numbered into a track
  jobs,       \* how many River jobs of each trial wait
  \* the goroutine of the one worker of the queue
  at,         \* where it is
  cur,        \* the trial it works
  next,       \* the chunk it sends, or sends next
  listed,     \* the boxes it links
  stopped,    \* whether CancelModelTrial cancelled its context
  \* its task in the dispatcher, and the handlers of the task's reports
  task,       \* the task's state
  sent,       \* the reports the GPU worker has made on it
  report,     \* what each handler is saving
  \* requests
  stopping,   \* how many cancellations of each trial have yet to stop it
  \* history
  era,        \* how often each trial was queued
  mine,       \* the era of the trial when the goroutine marked it running
  found,      \* the boxes reported to each trial's tasks
  stranded,   \* active trials nobody works: see Boot and RecordLost
  \* bounds
  starts, cancels, boots

rowVars == <<status, boxes, linked, jobs>>
workVars == <<at, cur, next, listed, mine>>
taskVars == <<task, sent, report>>
ghostVars == <<era, found, stranded>>
boundVars == <<starts, cancels, boots>>
vars == <<rowVars, workVars, stopped, taskVars, stopping, ghostVars, boundVars>>

Parts == {"early", "last"}
Box == [era : Nat, chunk : Nat, part : Parts]
Idle == [stage |-> "idle", trial |-> NoTrial, box |-> [era |-> 0, chunk |-> 0, part |-> "early"]]

Init ==
  /\ status = [t \in Trials |-> "none"]
  /\ boxes = [t \in Trials |-> {}]
  /\ linked = [t \in Trials |-> {}]
  /\ jobs = [t \in Trials |-> 0]
  /\ at = "idle" /\ cur = NoTrial /\ next = 1 /\ listed = {} /\ mine = 0
  /\ stopped = FALSE
  /\ task = "none" /\ sent = {}
  /\ report = [h \in Handlers |-> Idle]
  /\ stopping = [t \in Trials |-> 0]
  /\ era = [t \in Trials |-> 0]
  /\ found = [t \in Trials |-> {}]
  /\ stranded = {}
  /\ starts = 0 /\ cancels = 0 /\ boots = 0

(***************************************************************************)
(* StartModelTrial, for a clip or for the clips of a video, and             *)
(* CancelModelTrial.                                                        *)
(***************************************************************************)
Startable(t) == status[t] \in {"none", "failed", "cancelled"}

(* QueueModelTrial and DeleteModelTrialBoxes for each trial of S, and a job   *)
(* for each of those in gain.                                               *)
Queue(S, gain) ==
  /\ status' = [t \in Trials |-> IF t \in S THEN "queued" ELSE status[t]]
  /\ boxes' = [t \in Trials |-> IF t \in S THEN {} ELSE boxes[t]]
  /\ linked' = [t \in Trials |-> IF t \in S THEN {} ELSE linked[t]]
  /\ jobs' = [t \in Trials |-> IF t \in gain THEN jobs[t] + 1 ELSE jobs[t]]
  /\ era' = [t \in Trials |-> IF t \in S THEN era[t] + 1 ELSE era[t]]
  /\ stranded' = stranded \ S

(* Mutant of Start: a trial queued again keeps its job of the first time. *)
StartWithOldJob(asked) ==
  LET S == {t \in asked : Startable(t)}
  IN /\ starts < MaxStarts /\ starts' = starts + 1
     /\ S # {}
     /\ Queue(S, {t \in S : era[t] = 0})
     /\ UNCHANGED <<workVars, stopped, taskVars, stopping, found, cancels, boots>>

Start(asked) ==
  LET S == {t \in asked : Startable(t)}
  IN /\ starts < MaxStarts /\ starts' = starts + 1
     /\ S # {}
     /\ Queue(S, S)
     /\ UNCHANGED <<workVars, stopped, taskVars, stopping, found, cancels, boots>>

Cancel(t) ==
  /\ cancels < MaxCancels /\ cancels' = cancels + 1
  /\ status[t] \in Active
  /\ status' = [status EXCEPT ![t] = "cancelled"]
  /\ stopping' = [stopping EXCEPT ![t] = @ + 1]
  /\ stranded' = stranded \ {t}
  /\ UNCHANGED <<boxes, linked, jobs, workVars, stopped, taskVars, era, found, starts, boots>>

Tracked == at \notin {"idle", "fetched"}

(* After the commit. *)
Stop(t) ==
  /\ stopping[t] > 0
  /\ stopping' = [stopping EXCEPT ![t] = @ - 1]
  /\ stopped' = (stopped \/ (Tracked /\ cur = t))
  /\ UNCHANGED <<rowVars, workVars, taskVars, ghostVars, boundVars>>

(***************************************************************************)
(* The goroutine that works a trial.  A call fails once the context is      *)
(* cancelled.                                                               *)
(***************************************************************************)
Go(place) == at' = place /\ UNCHANGED <<cur, next, listed, mine>>

(* Mutant of Return: the trial stays registered. *)
ReturnTracked ==
  /\ at' = "idle" /\ next' = 1 /\ listed' = {} /\ mine' = 0
  /\ stopped' = FALSE
  /\ UNCHANGED cur

Return ==
  /\ at' = "idle" /\ cur' = NoTrial /\ next' = 1 /\ listed' = {} /\ mine' = 0
  /\ stopped' = FALSE

Fetch(t) ==
  /\ at = "idle"
  /\ jobs[t] > 0
  /\ jobs' = [jobs EXCEPT ![t] = @ - 1]
  /\ at' = "fetched" /\ cur' = t
  /\ UNCHANGED <<status, boxes, linked, next, listed, mine, stopped, taskVars, stopping,
                 ghostVars, boundVars>>

Track ==
  /\ at = "fetched"
  /\ Go("tracked")
  /\ UNCHANGED <<rowVars, stopped, taskVars, stopping, ghostVars, boundVars>>

(* A trial that is not queued is nothing to do. *)
Load ==
  /\ at = "tracked" /\ ~stopped
  /\ \/ status[cur] = "queued" /\ Go("loaded") /\ UNCHANGED stopped
     \/ status[cur] # "queued" /\ Return
  /\ UNCHANGED <<rowVars, taskVars, stopping, ghostVars, boundVars>>

(* RunModelTrial. *)
Run ==
  /\ at = "loaded" /\ ~stopped
  /\ \/ /\ status[cur] = "queued"
        /\ status' = [status EXCEPT ![cur] = "running"]
        /\ at' = "chunks"
        /\ mine' = era[cur]
        /\ UNCHANGED <<cur, next, listed, stopped>>
     \/ status[cur] # "queued" /\ Return /\ UNCHANGED status
  /\ UNCHANGED <<boxes, linked, jobs, taskVars, stopping, ghostVars, boundVars>>

Offer ==
  /\ at = "chunks" /\ next <= Chunks
  /\ Go("waiting")
  /\ task' = "offered" /\ sent' = {}
  /\ UNCHANGED <<rowVars, stopped, report, stopping, ghostVars, boundVars>>

TaskDone ==
  /\ at = "waiting" /\ task = "done"
  /\ Go("advancing")
  /\ task' = "none"
  /\ UNCHANGED <<rowVars, stopped, sent, report, stopping, ghostVars, boundVars>>

(* AdvanceModelTrial counts the chunk's frames, and no row once the trial is *)
(* not running.                                                             *)
Advance ==
  /\ at = "advancing" /\ ~stopped
  /\ \/ status[cur] = "running" /\ at' = "chunks" /\ next' = next + 1
     \/ status[cur] # "running" /\ at' = "failing" /\ UNCHANGED next
  /\ UNCHANGED <<rowVars, cur, listed, mine, stopped, taskVars, stopping, ghostVars, boundVars>>

ListBoxes ==
  /\ at = "chunks" /\ next > Chunks /\ ~stopped
  /\ at' = "linking"
  /\ listed' = boxes[cur]
  /\ UNCHANGED <<rowVars, cur, next, mine, stopped, taskVars, stopping, ghostVars, boundVars>>

SetTracks ==
  /\ at = "linking" /\ ~stopped
  /\ Go("linked")
  /\ linked' = [linked EXCEPT ![cur] = @ \cup (listed \cap boxes[cur])]
  /\ UNCHANGED <<status, boxes, jobs, stopped, taskVars, stopping, ghostVars, boundVars>>

(* Mutant of Finish: a trial that is queued again is finished too. *)
FinishActive ==
  /\ at = "linked" /\ ~stopped
  /\ \/ /\ status[cur] \in Active
        /\ status' = [status EXCEPT ![cur] = "succeeded"]
        /\ Return
     \/ status[cur] \notin Active /\ Go("failing") /\ UNCHANGED <<status, stopped>>
  /\ UNCHANGED <<boxes, linked, jobs, taskVars, stopping, ghostVars, boundVars>>

(* FinishModelTrial. *)
Finish ==
  /\ at = "linked" /\ ~stopped
  /\ \/ /\ status[cur] = "running"
        /\ status' = [status EXCEPT ![cur] = "succeeded"]
        /\ Return
     \/ status[cur] # "running" /\ Go("failing") /\ UNCHANGED <<status, stopped>>
  /\ UNCHANGED <<boxes, linked, jobs, taskVars, stopping, ghostVars, boundVars>>

(* Mutant of GiveUp: a task has no timeouts. *)
GiveUpEarly ==
  /\ at \in {"tracked", "loaded", "chunks", "advancing", "linking", "linked"}
  /\ Go("failing")
  /\ task' = "none"
  /\ UNCHANGED <<rowVars, stopped, sent, report, stopping, ghostVars, boundVars>>

(* Any call may fail, and does once the context is cancelled; the            *)
(* dispatcher's may also time out or return the GPU worker's failure.       *)
GiveUp ==
  /\ at \notin {"idle", "fetched", "failing", "recording"}
  /\ Go("failing")
  /\ task' = "none"
  /\ UNCHANGED <<rowVars, stopped, sent, report, stopping, ghostVars, boundVars>>

(* With a context of its own.  The row may not be readable. *)
CheckCancelled ==
  /\ at = "failing"
  /\ \/ status[cur] = "cancelled" /\ Return
     \/ Go("recording") /\ UNCHANGED stopped
  /\ UNCHANGED <<rowVars, taskVars, stopping, ghostVars, boundVars>>

(* FailModelTrial. *)
RecordFailure ==
  /\ at = "recording"
  /\ status' = [status EXCEPT ![cur] = IF @ \in Active THEN "failed" ELSE @]
  /\ stranded' = stranded \ {cur}
  /\ Return
  /\ UNCHANGED <<boxes, linked, jobs, taskVars, stopping, era, found, boundVars>>

(* The trial's job is worked or was, and none waits. *)
Left(t) == IF status[t] = "running" \/ (status[t] = "queued" /\ jobs[t] = 0) THEN {t} ELSE {}

(* The database is away: the trial stays as it is. *)
RecordLost ==
  /\ at = "recording"
  /\ stranded' = stranded \cup Left(cur)
  /\ Return
  /\ UNCHANGED <<rowVars, taskVars, stopping, era, found, boundVars>>

(***************************************************************************)
(* The GPU worker, and the handlers of ReportPrelabels.  A handler looks the *)
(* task up, then saves, then signals the task; the goroutine may be gone    *)
(* and the trial queued again by then.  The GPU worker reports on a task    *)
(* once the report before was answered, the last time with done set, and    *)
(* fails the task when an answer is an error.  A box stands for those of a   *)
(* report.                                                                  *)
(***************************************************************************)
Take ==
  /\ task = "offered"
  /\ task' = "taken"
  /\ UNCHANGED <<rowVars, workVars, stopped, sent, report, stopping, ghostVars, boundVars>>

Own(h) ==
  /\ at = "waiting"
  /\ report[h].trial = cur /\ report[h].box.era = mine /\ report[h].box.chunk = next

Report(h, part) ==
  /\ task = "taken"
  /\ part \notin sent /\ "last" \notin sent
  /\ report[h] = Idle
  /\ \A g \in Handlers : ~Own(g)
  /\ sent' = sent \cup {part}
  /\ LET box == [era |-> mine, chunk |-> next, part |-> part]
     IN /\ report' = [report EXCEPT ![h] = [stage |-> "saving", trial |-> cur, box |-> box]]
        /\ found' = [found EXCEPT ![cur] = @ \cup {box}]
  /\ UNCHANGED <<rowVars, workVars, stopped, task, stopping, era, stranded, boundVars>>

(* Mutant of Save: the trial's status does not matter. *)
SaveAlways(h) ==
  /\ report[h].stage = "saving"
  /\ boxes' = [boxes EXCEPT ![report[h].trial] = @ \cup {report[h].box}]
  /\ report' = [report EXCEPT ![h].stage = "saved"]
  /\ UNCHANGED <<status, linked, jobs, workVars, stopped, task, sent, stopping, ghostVars, boundVars>>

(* InsertModelTrialBoxes. *)
Save(h) ==
  /\ report[h].stage = "saving"
  /\ boxes' = [boxes EXCEPT ![report[h].trial] =
                 IF status[report[h].trial] = "running" THEN @ \cup {report[h].box} ELSE @]
  /\ report' = [report EXCEPT ![h].stage = "saved"]
  /\ UNCHANGED <<status, linked, jobs, workVars, stopped, task, sent, stopping, ghostVars, boundVars>>

(* The task is signalled through the handler's own reference to it. *)
Signal(h) ==
  /\ report[h].stage = "saved"
  /\ task' = IF Own(h) /\ report[h].box.part = "last" /\ task = "taken" THEN "done" ELSE task
  /\ report' = [report EXCEPT ![h] = Idle]
  /\ UNCHANGED <<rowVars, workVars, stopped, sent, stopping, ghostVars, boundVars>>

HandlerFails(h) ==
  /\ report[h] # Idle
  /\ report' = [report EXCEPT ![h] = Idle]
  /\ sent' = IF Own(h) THEN Parts ELSE sent
  /\ UNCHANGED <<rowVars, workVars, stopped, task, stopping, ghostVars, boundVars>>

(* FailTask, also while the handler of a report that timed out goes on. *)
FailTask ==
  /\ task = "taken"
  /\ task' = "failed"
  /\ sent' = Parts
  /\ UNCHANGED <<rowVars, workVars, stopped, report, stopping, ghostVars, boundVars>>

(***************************************************************************)
(* A crash and a restart.  FailInterruptedModelTrials fails the running      *)
(* trials.  The job River had handed out is not handed out again: it has    *)
(* one attempt.                                                             *)
(***************************************************************************)
Boot ==
  /\ boots < MaxBoots /\ boots' = boots + 1
  /\ status' = [t \in Trials |-> IF status[t] = "running" THEN "failed" ELSE status[t]]
  /\ stranded' = {t \in stranded : status[t] = "queued"}
                   \cup {t \in Trials : t = cur /\ status[t] = "queued" /\ jobs[t] = 0}
  /\ Return
  /\ task' = "none" /\ sent' = {}
  /\ report' = [h \in Handlers |-> Idle]
  /\ stopping' = [t \in Trials |-> 0]
  /\ UNCHANGED <<boxes, linked, jobs, era, found, starts, cancels>>

Work ==
  \/ Track \/ Load \/ Run \/ Offer \/ TaskDone \/ Advance \/ ListBoxes \/ SetTracks \/ Finish
  \/ GiveUp \/ CheckCancelled \/ RecordFailure

Next ==
  \/ \E S \in SUBSET Trials : Start(S)
  \/ \E t \in Trials : Cancel(t) \/ Stop(t) \/ Fetch(t)
  \/ Work \/ RecordLost
  \/ Take \/ FailTask
  \/ \E h \in Handlers : \/ \E part \in Parts : Report(h, part)
                         \/ Save(h) \/ Signal(h) \/ HandlerFails(h)
  \/ Boot

Spec == Init /\ [][Next]_vars

(* River hands jobs out, the goroutine goes on (a task that is not taken or  *)
(* reported on times out), and so do the handlers and a cancellation.  No   *)
(* GPU worker need be there.                                                *)
FairSpec ==
  /\ Spec
  /\ WF_vars(\E t \in Trials : Fetch(t))
  /\ WF_vars(Work)

(***************************************************************************)
(* Properties.                                                              *)
(***************************************************************************)
Reports ==
  [stage : {"idle", "saving", "saved"}, trial : Trials \cup {NoTrial}, box : Box]

(* Every variable keeps its type. *)
TypeOK ==
  /\ status \in [Trials -> {"none", "queued", "running", "succeeded", "failed", "cancelled"}]
  /\ boxes \in [Trials -> SUBSET Box] /\ linked \in [Trials -> SUBSET Box]
  /\ jobs \in [Trials -> Nat]
  /\ at \in {"idle", "fetched", "tracked", "loaded", "chunks", "waiting", "advancing", "linking",
             "linked", "failing", "recording"}
  /\ cur \in Trials \cup {NoTrial} /\ (at = "idle" <=> cur = NoTrial)
  /\ next \in Nat /\ listed \in SUBSET Box /\ mine \in Nat
  /\ stopped \in BOOLEAN
  /\ task \in {"none", "offered", "taken", "done", "failed"} /\ sent \in SUBSET Parts
  /\ report \in [Handlers -> Reports]
  /\ stopping \in [Trials -> Nat]
  /\ era \in [Trials -> Nat] /\ found \in [Trials -> SUBSET Box]
  /\ stranded \in SUBSET Trials
  /\ starts \in Nat /\ cancels \in Nat /\ boots \in Nat

(* The goroutine marked its trial running. *)
Ran == at \in {"chunks", "waiting", "advancing", "linking", "linked"}

(* A trial shown as running is worked, and one shown as queued will be: its *)
(* job waits, or the goroutine has it, however cancels, restarts and        *)
(* failures of an earlier attempt overlap, but for the trials a crash or a  *)
(* failure that could not be saved left behind.                             *)
Attended ==
  \A t \in Trials \ stranded :
    /\ status[t] = "queued" => jobs[t] > 0 \/ cur = t
    /\ status[t] = "running" => cur = t

Reported(t) ==
  {b \in found[t] : b.era = era[t]} \cup [era : {era[t]}, chunk : 1..Chunks, part : {"last"}]

(* A finished trial shows what was reported of every chunk in that attempt,  *)
(* each box with its track, whatever was left of attempts before.           *)
SucceededIsWhole ==
  \A t \in Trials : status[t] = "succeeded" => Reported(t) \subseteq boxes[t] \cap linked[t]

(* What a finished trial shows does not change: a report that is saved late *)
(* is dropped.                                                              *)
SucceededStays ==
  [][\A t \in Trials : status[t] = "succeeded" =>
       /\ status'[t] = "succeeded" /\ boxes'[t] = boxes[t] /\ linked'[t] = linked[t]]_vars

(* A cancelled trial stays so unless it is queued again: the failure its     *)
(* goroutine meets is not recorded.                                         *)
CancelSticks ==
  [][\A t \in Trials : status[t] = "cancelled" => status'[t] \in {"cancelled", "queued"}]_vars

(* A trial that is queued ends, unless it was left behind, also when no GPU  *)
(* worker takes or finishes its tasks.                                      *)
Ends ==
  \A t \in Trials : status[t] = "queued" ~> (status[t] \notin Active \/ t \in stranded)
===============================================================================
