------------------------------- MODULE Training -------------------------------
(***************************************************************************)
(* Training runs: the rows of training_runs, the River job that works each *)
(* run, and the pinned model.                                              *)
(*                                                                         *)
(* People (and the hourly schedule) start runs, cancel them and pin        *)
(* models; the one worker of the training queue fetches a job, prepares a  *)
(* dataset, hands a task to a GPU worker and waits; the handlers of that   *)
(* worker's reports write to the same row.  A transaction whose statements *)
(* lock what they read is one step, and so is every statement outside a    *)
(* transaction.  Dispatcher models what happens inside dispatcher.Run.     *)
(***************************************************************************)
EXTENDS Integers

CONSTANTS
  Runs,       \* training runs that may be created
  Score,      \* how well each run's model does
  NoRun,      \* a model value: no run
  MaxPins,    \* bound: models pinned by hand
  MaxAdmin,   \* bound: jobs cancelled or retried in the admin panel
  MaxBoots    \* bound: restarts of the API process

ASSUME ScoreAssumption == Score \in [Runs -> Int]
ASSUME NoRunAssumption == NoRun \notin Runs
ASSUME BoundsAssumption == MaxPins \in Nat /\ MaxAdmin \in Nat /\ MaxBoots \in Nat

Triggers == {"manual", "schedule"}
Active == {"queued", "preparing", "training", "evaluating"}
Started == {"preparing", "training", "evaluating"}
Terminal == {"succeeded", "failed", "cancelled"}

VARIABLES
  \* the database
  status,     \* each run's status, "none" before it is created
  trigger,    \* what started it
  baseline,   \* the run whose model was scored on the same images
  pinned,     \* the pinned run
  locker,     \* who holds the lock on training_runs
  busy,       \* whether the locker counted an active run
  job,        \* the state of each run's River job
  \* the API process
  pc,         \* where the goroutine working a run is
  base,       \* the pinned run it saw when it prepared
  tracked,    \* runs whose job can be cancelled
  halted,     \* runs whose job's context is cancelled
  stopping,   \* runs whose cancellation committed and is yet to stop the job
  report,     \* what a handler is about to write about a run
  done,       \* runs whose task has its result
  \* history: active runs nobody works, see RecordLost and ApiRestarts
  stranded,
  \* bounds
  pins, admin, boots

dbVars == <<status, trigger, baseline, pinned, locker, busy, job>>
apiVars == <<pc, base, tracked, halted, stopping, report, done>>
noteVars == <<stranded, pins, admin, boots>>
vars == <<dbVars, apiVars, noteVars>>

Places == {"idle", "fetched", "tracked", "loading", "waiting", "failing", "recording",
           "finished", "pinning"}

Init ==
  /\ status = [r \in Runs |-> "none"]
  /\ trigger = [r \in Runs |-> "none"]
  /\ baseline = [r \in Runs |-> NoRun]
  /\ pinned = NoRun
  /\ locker = "none"
  /\ busy = FALSE
  /\ job = [r \in Runs |-> "none"]
  /\ pc = [r \in Runs |-> "idle"]
  /\ base = [r \in Runs |-> NoRun]
  /\ tracked = {}
  /\ halted = {}
  /\ stopping = {}
  /\ report = [r \in Runs |-> "none"]
  /\ done = {}
  /\ stranded = {}
  /\ pins = 0
  /\ admin = 0
  /\ boots = 0

(* Every write to training_runs waits for a table lock to go. *)
Writable == locker = "none"

Working(r) == pc[r] # "idle"

Go(r, place) == pc' = [pc EXCEPT ![r] = place]

(* The goroutine returns from Work: River files the job, and the deferred   *)
(* calls forget it.  A handler that found its task keeps what it saw.       *)
Return(r, outcome) ==
  /\ Go(r, "idle")
  /\ job' = [job EXCEPT ![r] = outcome]
  /\ tracked' = tracked \ {r}
  /\ halted' = halted \ {r}
  /\ done' = done \ {r}

(***************************************************************************)
(* StartTraining and the hourly ScheduleWorker.  Both lock the table, count *)
(* the active runs, and insert a run and its job.                          *)
(***************************************************************************)
(* Mutant of Lock: a queued run does not count. *)
LockCountingStarted(who) ==
  /\ Writable
  /\ locker' = who
  /\ busy' = \E r \in Runs : status[r] \in Started
  /\ UNCHANGED <<status, trigger, baseline, pinned, job, apiVars, noteVars>>

Lock(who) ==
  /\ Writable
  /\ locker' = who
  /\ busy' = \E r \in Runs : status[r] \in Active
  /\ UNCHANGED <<status, trigger, baseline, pinned, job, apiVars, noteVars>>

QueueRun(who, r) ==
  /\ locker = who
  /\ ~busy
  /\ status[r] = "none"
  /\ status' = [status EXCEPT ![r] = "queued"]
  /\ trigger' = [trigger EXCEPT ![r] = who]
  /\ job' = [job EXCEPT ![r] = "available"]
  /\ locker' = "none"
  /\ busy' = FALSE
  /\ UNCHANGED <<baseline, pinned, apiVars, noteVars>>

(* An active run, an invalid config, too few new labels, or an error. *)
Rollback(who) ==
  /\ locker = who
  /\ locker' = "none"
  /\ busy' = FALSE
  /\ UNCHANGED <<status, trigger, baseline, pinned, job, apiVars, noteVars>>

(***************************************************************************)
(* CancelTraining and PinModel.                                            *)
(***************************************************************************)
CancelTraining(r) ==
  /\ Writable
  /\ status[r] \in Active
  /\ status' = [status EXCEPT ![r] = "cancelled"]
  /\ stopping' = stopping \cup {r}
  /\ UNCHANGED <<trigger, baseline, pinned, locker, busy, job, pc, base, tracked,
                 halted, report, done, noteVars>>

(* Mutant of Stop: only a job that waits for its task is stopped. *)
StopWaiting(r) ==
  /\ r \in stopping
  /\ stopping' = stopping \ {r}
  /\ halted' = IF pc[r] = "waiting" THEN halted \cup {r} ELSE halted
  /\ UNCHANGED <<dbVars, pc, base, tracked, report, done, noteVars>>

(* After the commit: the job, if one is tracked, loses its context. *)
Stop(r) ==
  /\ r \in stopping
  /\ stopping' = stopping \ {r}
  /\ halted' = halted \cup ({r} \cap tracked)
  /\ UNCHANGED <<dbVars, pc, base, tracked, report, done, noteVars>>

PinModel(r) ==
  /\ pins < MaxPins
  /\ pins' = pins + 1
  /\ Writable
  /\ status[r] = "succeeded"
  /\ pinned' = r
  /\ UNCHANGED <<status, trigger, baseline, locker, busy, job, apiVars, stranded, admin, boots>>

(***************************************************************************)
(* The goroutine that works a run.                                         *)
(***************************************************************************)
(* Mutant of Fetch: the queue has as many workers as it likes. *)
FetchFreely(r) ==
  /\ job[r] = "available"
  /\ job' = [job EXCEPT ![r] = "running"]
  /\ Go(r, "fetched")
  /\ UNCHANGED <<status, trigger, baseline, pinned, locker, busy,
                 base, tracked, halted, stopping, report, done, noteVars>>

(* The queue has one worker. *)
Fetch(r) ==
  /\ job[r] = "available"
  /\ \A s \in Runs : ~Working(s)
  /\ job' = [job EXCEPT ![r] = "running"]
  /\ Go(r, "fetched")
  /\ UNCHANGED <<status, trigger, baseline, pinned, locker, busy,
                 base, tracked, halted, stopping, report, done, noteVars>>

Track(r) ==
  /\ pc[r] = "fetched"
  /\ tracked' = tracked \cup {r}
  /\ Go(r, "tracked")
  /\ UNCHANGED <<dbVars, base, halted, stopping, report, done, noteVars>>

(* StartTrainingRun.  A run that is not queued is nothing to do, which is   *)
(* no error.                                                               *)
StartRun(r) ==
  /\ pc[r] = "tracked"
  /\ Writable
  /\ r \notin halted
  /\ \/ /\ status[r] = "queued"
        /\ status' = [status EXCEPT ![r] = "preparing"]
        /\ Go(r, "loading")
        /\ stranded' = stranded \ {r}
     \/ /\ status[r] # "queued"
        /\ Go(r, "finished")
        /\ UNCHANGED <<status, stranded>>
  /\ UNCHANGED <<trigger, baseline, pinned, locker, busy, job, base, tracked,
                 halted, stopping, report, done, pins, admin, boots>>

(* The pinned model is to be scored on the same images, if it has the same  *)
(* classes; then the task is offered.                                      *)
Offer(r) ==
  /\ pc[r] = "loading"
  /\ r \notin halted
  /\ \E b \in {NoRun, pinned} : base' = [base EXCEPT ![r] = b]
  /\ Go(r, "waiting")
  /\ UNCHANGED <<dbVars, tracked, halted, stopping, report, done, noteVars>>

(* Mutant of GiveUp: the task has no timeouts. *)
GiveUpEarly(r) ==
  /\ pc[r] \in {"tracked", "loading"}
  /\ Go(r, "failing")
  /\ UNCHANGED <<dbVars, base, tracked, halted, stopping, report, done, noteVars>>

(* Any call may fail, and does once the context is cancelled; the           *)
(* dispatcher's may also be refused, time out, or return the worker's      *)
(* failure.                                                                *)
GiveUp(r) ==
  /\ pc[r] \in {"tracked", "loading", "waiting"}
  /\ Go(r, "failing")
  /\ UNCHANGED <<dbVars, base, tracked, halted, stopping, report, done, noteVars>>

TaskDone(r) ==
  /\ pc[r] = "waiting"
  /\ r \in done
  /\ Go(r, "finished")
  /\ UNCHANGED <<dbVars, base, tracked, halted, stopping, report, done, noteVars>>

(* A job cancelled in the admin panel ends cancelled, another one           *)
(* discarded: it has one attempt.                                          *)
Failed(r) == IF job[r] = "cancelling" THEN "cancelled" ELSE "discarded"

(* A run that could not be read is taken for one that was not cancelled. *)
CheckCancelled(r) ==
  /\ pc[r] = "failing"
  /\ \/ status[r] = "cancelled" /\ Return(r, "completed")
     \/ Go(r, "recording") /\ UNCHANGED <<job, tracked, halted, done>>
  /\ UNCHANGED <<status, trigger, baseline, pinned, locker, busy, base, stopping, report, noteVars>>

(* Mutants of RecordFailure: the row is written whatever it says; a queued  *)
(* run is left alone.                                                      *)
RecordFailureBlindly(r) ==
  /\ pc[r] = "recording"
  /\ Writable
  /\ status' = [status EXCEPT ![r] = "failed"]
  /\ Return(r, Failed(r))
  /\ UNCHANGED <<trigger, baseline, pinned, locker, busy, base, stopping, report, noteVars>>

RecordFailureStarted(r) ==
  /\ pc[r] = "recording"
  /\ Writable
  /\ status' = [status EXCEPT ![r] = IF @ \in Started THEN "failed" ELSE @]
  /\ Return(r, Failed(r))
  /\ UNCHANGED <<trigger, baseline, pinned, locker, busy, base, stopping, report, noteVars>>

(* FailTrainingRun. *)
RecordFailure(r) ==
  /\ pc[r] = "recording"
  /\ Writable
  /\ status' = [status EXCEPT ![r] = IF @ \in Active THEN "failed" ELSE @]
  /\ Return(r, Failed(r))
  /\ UNCHANGED <<trigger, baseline, pinned, locker, busy, base, stopping, report, noteVars>>

(* The write fails: the run stays active, and its job is over. *)
RecordLost(r) ==
  /\ pc[r] = "recording"
  /\ stranded' = IF status[r] \in Active THEN stranded \cup {r} ELSE stranded
  /\ Return(r, Failed(r))
  /\ UNCHANGED <<status, trigger, baseline, pinned, locker, busy, base, stopping, report,
                 pins, admin, boots>>

Beats(r) == baseline[r] # NoRun /\ Score[r] > Score[baseline[r]]

(* autoPin before its transaction.  Settings may forbid pinning. *)
AutoPin(r) ==
  /\ pc[r] = "finished"
  /\ \/ /\ trigger[r] = "schedule"
        /\ status[r] = "succeeded"
        /\ pinned = NoRun \/ Beats(r)
        /\ Go(r, "pinning")
        /\ UNCHANGED <<job, tracked, halted, done>>
     \/ Return(r, "completed")
  /\ UNCHANGED <<status, trigger, baseline, pinned, locker, busy, base, stopping, report, noteVars>>

Pin(r) ==
  /\ pc[r] = "pinning"
  /\ Writable
  /\ pinned' = r
  /\ Return(r, "completed")
  /\ UNCHANGED <<status, trigger, baseline, locker, busy, base, stopping, report, noteVars>>

(***************************************************************************)
(* The handlers of ReportTrainProgress and FinishTrain.  A handler looks    *)
(* the task up, writes, and then signals the task; the goroutine may be    *)
(* gone by then.                                                           *)
(***************************************************************************)
Report(r, what) ==
  /\ pc[r] = "waiting"
  /\ report[r] = "none"
  /\ report' = [report EXCEPT ![r] = what]
  /\ UNCHANGED <<dbVars, pc, base, tracked, halted, stopping, done, noteVars>>

(* Mutant of SaveProgress: it writes what any report says. *)
SaveAnyProgress(r) ==
  /\ report[r] # "none"
  /\ Writable
  /\ status' = [status EXCEPT ![r] = IF @ \in Started THEN report[r] ELSE @]
  /\ report' = [report EXCEPT ![r] = "none"]
  /\ UNCHANGED <<trigger, baseline, pinned, locker, busy, job,
                 pc, base, tracked, halted, stopping, done, noteVars>>

(* SetTrainingProgress. *)
SaveProgress(r) ==
  /\ report[r] \in {"training", "evaluating"}
  /\ Writable
  /\ status' = [status EXCEPT ![r] = IF @ \in Started THEN report[r] ELSE @]
  /\ report' = [report EXCEPT ![r] = "none"]
  /\ UNCHANGED <<trigger, baseline, pinned, locker, busy, job,
                 pc, base, tracked, halted, stopping, done, noteVars>>

(* FinishTrainingRun.  Its row count is ignored. *)
SaveResult(r) ==
  /\ report[r] = "finish"
  /\ Writable
  /\ IF status[r] \in Started
     THEN /\ status' = [status EXCEPT ![r] = "succeeded"]
          /\ baseline' = [baseline EXCEPT ![r] = base[r]]
     ELSE UNCHANGED <<status, baseline>>
  /\ report' = [report EXCEPT ![r] = "signal"]
  /\ UNCHANGED <<trigger, pinned, locker, busy, job,
                 pc, base, tracked, halted, stopping, done, noteVars>>

Signal(r) ==
  /\ report[r] = "signal"
  /\ done' = IF pc[r] = "waiting" THEN done \cup {r} ELSE done
  /\ report' = [report EXCEPT ![r] = "none"]
  /\ UNCHANGED <<dbVars, pc, base, tracked, halted, stopping, noteVars>>

(* A failed request or write: the row stays as it is. *)
ReportFails(r) ==
  /\ report[r] \in {"training", "evaluating", "finish"}
  /\ report' = [report EXCEPT ![r] = "none"]
  /\ UNCHANGED <<dbVars, pc, base, tracked, halted, stopping, done, noteVars>>

(***************************************************************************)
(* The admin panel's jobs page.                                            *)
(***************************************************************************)
(* A job that runs has its context cancelled.  One that waits never runs,   *)
(* and cleanUpCancelled has nothing for a training job.                    *)
CancelJob(r) ==
  /\ admin < MaxAdmin
  /\ admin' = admin + 1
  /\ \/ /\ job[r] = "running"
        /\ job' = [job EXCEPT ![r] = "cancelling"]
        /\ halted' = IF Working(r) THEN halted \cup {r} ELSE halted
     \/ /\ job[r] = "available"
        /\ job' = [job EXCEPT ![r] = "cancelled"]
        /\ UNCHANGED halted
  /\ UNCHANGED <<status, trigger, baseline, pinned, locker, busy,
                 pc, base, tracked, stopping, report, done, stranded, pins, boots>>

RetryJob(r) ==
  /\ admin < MaxAdmin
  /\ admin' = admin + 1
  /\ job[r] \in {"discarded", "cancelled"}
  /\ job' = [job EXCEPT ![r] = "available"]
  /\ UNCHANGED <<status, trigger, baseline, pinned, locker, busy, apiVars, stranded, pins, boots>>

(***************************************************************************)
(* The API restarts: its transactions roll back, and at boot whatever had   *)
(* started is failed.                                                      *)
(***************************************************************************)
(* A queued run whose job was handed out and did not start it yet, or is    *)
(* over, is left as it is.                                                 *)
Forgotten == {r \in Runs : status[r] = "queued" /\
                            (r \in stranded \/ job[r] \in {"running", "cancelling"})}

(* Mutant of ApiRestarts: a run whose dataset was being written is missed. *)
ApiRestartsMissing ==
  /\ boots < MaxBoots
  /\ boots' = boots + 1
  /\ status' = [r \in Runs |-> IF status[r] \in {"training", "evaluating"} THEN "failed" ELSE status[r]]
  /\ locker' = "none"
  /\ busy' = FALSE
  /\ pc' = [r \in Runs |-> "idle"]
  /\ base' = [r \in Runs |-> NoRun]
  /\ tracked' = {}
  /\ halted' = {}
  /\ stopping' = {}
  /\ report' = [r \in Runs |-> "none"]
  /\ done' = {}
  /\ stranded' = Forgotten
  /\ UNCHANGED <<trigger, baseline, pinned, job, pins, admin>>

ApiRestarts ==
  /\ boots < MaxBoots
  /\ boots' = boots + 1
  /\ status' = [r \in Runs |-> IF status[r] \in Started THEN "failed" ELSE status[r]]
  /\ locker' = "none"
  /\ busy' = FALSE
  /\ pc' = [r \in Runs |-> "idle"]
  /\ base' = [r \in Runs |-> NoRun]
  /\ tracked' = {}
  /\ halted' = {}
  /\ stopping' = {}
  /\ report' = [r \in Runs |-> "none"]
  /\ done' = {}
  /\ stranded' = Forgotten
  /\ UNCHANGED <<trigger, baseline, pinned, job, pins, admin>>

(* River finds a job that nobody works any more. *)
Rescue(r) ==
  /\ job[r] \in {"running", "cancelling"}
  /\ ~Working(r)
  /\ job' = [job EXCEPT ![r] = Failed(r)]
  /\ UNCHANGED <<status, trigger, baseline, pinned, locker, busy, apiVars, noteVars>>

StartStep == \E who \in Triggers : Lock(who) \/ Rollback(who) \/ \E r \in Runs : QueueRun(who, r)

PersonStep(r) == CancelTraining(r) \/ Stop(r) \/ PinModel(r) \/ CancelJob(r) \/ RetryJob(r)

JobStep(r) ==
  \/ Fetch(r) \/ Track(r) \/ StartRun(r) \/ Offer(r) \/ GiveUp(r) \/ TaskDone(r)
  \/ CheckCancelled(r) \/ RecordFailure(r) \/ AutoPin(r) \/ Pin(r)

HandlerStep(r) ==
  \/ \E what \in {"training", "evaluating", "finish"} : Report(r, what)
  \/ SaveProgress(r) \/ SaveResult(r) \/ Signal(r) \/ ReportFails(r)

Next ==
  \/ StartStep
  \/ \E r \in Runs :
       PersonStep(r) \/ JobStep(r) \/ RecordLost(r) \/ HandlerStep(r) \/ Rescue(r)
  \/ ApiRestarts

Spec == Init /\ [][Next]_vars

(***************************************************************************)
(* Properties.                                                             *)
(***************************************************************************)
TypeOK ==
  /\ status \in [Runs -> {"none"} \cup Active \cup Terminal]
  /\ trigger \in [Runs -> {"none"} \cup Triggers]
  /\ baseline \in [Runs -> Runs \cup {NoRun}]
  /\ pinned \in Runs \cup {NoRun}
  /\ locker \in {"none"} \cup Triggers
  /\ busy \in BOOLEAN
  /\ job \in [Runs -> {"none", "available", "running", "cancelling",
                       "completed", "discarded", "cancelled"}]
  /\ pc \in [Runs -> Places]
  /\ base \in [Runs -> Runs \cup {NoRun}]
  /\ tracked \subseteq Runs
  /\ halted \subseteq Runs
  /\ stopping \subseteq Runs
  /\ report \in [Runs -> {"none", "training", "evaluating", "finish", "signal"}]
  /\ done \subseteq Runs
  /\ stranded \subseteq Runs
  /\ pins \in Nat /\ admin \in Nat /\ boots \in Nat

(* Two runs are never queued or training at once, however a person, the     *)
(* schedule, a cancelled job that goes on and a restart interleave.        *)
OneActive == \A r, s \in Runs : status[r] \in Active /\ status[s] \in Active => r = s

(* What a person was told of a run that ended stays true: a late report, a  *)
(* late failure or a retried job never reopens or relabels it.             *)
EndIsFinal == [][\A r \in Runs : status[r] \in Terminal => status'[r] = status[r]]_vars

(* A cancelled run whose job still waits for the GPU, or is about to, has   *)
(* lost its context once the cancellation returned, so its task leaves the *)
(* dispatcher.                                                             *)
CancelStops ==
  \A r \in Runs :
    status[r] = "cancelled" /\ pc[r] \in {"loading", "waiting"} /\ r \notin stopping
      => r \in halted

(* A run that says it is preparing, training or evaluating has a goroutine  *)
(* that will end it, unless its failure could not be recorded since the    *)
(* API started.  A restart ends those too.                                 *)
NoneAbandoned ==
  \A r \in Runs : status[r] \in Started =>
    r \in stranded \/ pc[r] \in {"loading", "waiting", "failing", "recording"}

(* A run that is queued has a job that will work it: while one is queued    *)
(* no other can start.  Only two things leave it without: its job failed    *)
(* before it started it and the failure could not be recorded, or the API   *)
(* stopped between the two.                                                *)
QueuedHasJob ==
  \A r \in Runs : status[r] = "queued" =>
    \/ job[r] = "available"
    \/ pc[r] \in {"fetched", "tracked", "failing", "recording"}
    \/ r \in stranded

(* A scheduled run's model only replaces a pinned model that it beats. *)
AutoPinImproves ==
  [][\A r \in Runs :
       pc[r] = "pinning" /\ pinned' = r /\ pinned \notin {NoRun, r}
         => Score[r] > Score[pinned]]_vars

(***************************************************************************)
(* Fairness.  The goroutine runs, and a task it waits for ends: that is     *)
(* JobsEnd of Dispatcher.  Postgres serves locks in order, so whoever waits *)
(* for the table gets it although others keep coming.  No write need fail,  *)
(* so a run that ends does not do so because its failure was lost.         *)
(***************************************************************************)
FairSpec ==
  /\ Spec
  /\ \A who \in Triggers : WF_vars(Rollback(who))
  /\ \A r \in Runs : SF_vars(JobStep(r))

(* Every queued run ends, or its end could not be recorded. *)
RunsEnd == \A r \in Runs : status[r] = "queued" ~> status[r] \in Terminal \/ r \in stranded
===============================================================================
