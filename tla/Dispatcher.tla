------------------------------ MODULE Dispatcher ------------------------------
(***************************************************************************)
(* The in-memory dispatcher that hands GPU tasks from the API's jobs to    *)
(* the Python workers polling NextTask, with the workers that serve them.  *)
(*                                                                         *)
(* Three kinds of process take steps here.  A job is the goroutine inside  *)
(* tracker.run: it registers a task, offers it and waits for a result.  A  *)
(* handler is the goroutine of one RPC of a worker (NextTask, CheckIn, a   *)
(* report).  A worker is the Python process: a main thread that serves     *)
(* tasks, nesting those it is given while it trains, and a heartbeat       *)
(* thread.  Every critical section under Dispatcher.mu is one step, and    *)
(* so is every channel operation outside it.                               *)
(*                                                                         *)
(* A member of Tasks is one call of tracker.run, with its own channels;    *)
(* its number is only unique within one boot of the API, because the       *)
(* counter starts again at 0 every time.                                   *)
(***************************************************************************)
EXTENDS Integers, FiniteSets, SequencesExt

CONSTANTS
  Tasks,      \* calls of tracker.run
  Workers,    \* GPU workers
  Kind,       \* what each task asks of the worker
  NoTask,     \* a model value: no task
  MaxFaults,  \* bound: worker crashes and lost requests or responses
  MaxBoots    \* bound: restarts of the API process

Kinds == {"track", "exemplar", "embed", "prelabel", "preview", "train"}

ASSUME KindAssumption == Kind \in [Tasks -> Kinds]
ASSUME NoTaskAssumption == NoTask \notin Tasks
ASSUME BoundsAssumption == MaxFaults \in Nat /\ MaxBoots \in Nat

Priorities == 1..3
Interactive == 1
Background == 2
Training == 3

Priority(t) ==
  CASE Kind[t] \in {"track", "exemplar", "preview"} -> Interactive
    [] Kind[t] \in {"embed", "prelabel"} -> Background
    [] OTHER -> Training

(* Only these report more than once, so only these reset the idle timer. *)
ReportsProgress(t) == Kind[t] \in {"track", "prelabel", "train"}

(* Reports of these kinds carry boxes, which must be on the task's frames. *)
ChecksFrames(t) == Kind[t] \in {"track", "prelabel"}

(* Training goes on when a progress report fails. *)
Tolerates(t, what) == Kind[t] = "train" /\ what = "touch"

(* Only the SAM tasks that run long look at the heartbeat's answer. *)
HeedsHeartbeat(t) == Kind[t] \in {"track", "embed"}

VARIABLES
  \* the API process
  ids,        \* the last task id given out since boot
  id,         \* each task's id, 0 before it has one
  pending,    \* the queue of each priority
  ready,      \* whether the channel that wakes a poller holds a token
  running,    \* the tasks registered under their ids
  picked,     \* the tasks whose picked channel is closed
  done,       \* what went into each task's done channel
  job,        \* where each job's goroutine is
  result,     \* what run returned
  call,       \* where the handler of each worker's poll is
  report,     \* the report each worker's handler is about to apply
  \* the workers
  stack,      \* the tasks a worker is inside, innermost first
  phase,      \* what a worker's main thread is doing with the innermost
  stop,       \* the id the heartbeat last told a worker to stop
  answer,     \* the heartbeat answer on its way to each worker
  gone,       \* workers that died while their poll's handler was waiting
  \* bounds
  boots, faults

apiVars == <<ids, id, pending, ready, running, picked, done, job, result>>
rpcVars == <<call, report>>
workerVars == <<stack, phase, stop, answer, gone>>
boundVars == <<boots, faults>>
vars == <<apiVars, rpcVars, workerVars, boundVars>>

JobStates == {"new", "added", "queued", "offering", "givingUp", "working", "leaving",
              "ended", "lost"}
Results == {"none", "ok", "err", "refused", "gaveUp"}
Reports == [task : Tasks, from : Tasks, what : {"touch", "done", "fail"}]
NoReport == [task |-> NoTask, from |-> NoTask, what |-> "none"]

(* The task registered under number n, as a set of at most one. *)
Lookup(n) == {t \in running : id[t] = n}

HasPending == \E p \in Priorities : pending[p] # <<>>

(* The id the worker says it is working on, 0 when it is not. *)
WorkingOn(w) == IF stack[w] = <<>> THEN 0 ELSE id[Head(stack[w])]

Init ==
  /\ ids = 0
  /\ id = [t \in Tasks |-> 0]
  /\ pending = [p \in Priorities |-> <<>>]
  /\ ready = FALSE
  /\ running = {}
  /\ picked = {}
  /\ done = [t \in Tasks |-> "none"]
  /\ job = [t \in Tasks |-> "new"]
  /\ result = [t \in Tasks |-> "none"]
  /\ call = [w \in Workers |-> "none"]
  /\ report = [w \in Workers |-> NoReport]
  /\ stack = [w \in Workers |-> <<>>]
  /\ phase = [w \in Workers |-> "run"]
  /\ stop = [w \in Workers |-> 0]
  /\ answer = [w \in Workers |-> 0]
  /\ gone = {}
  /\ boots = 0
  /\ faults = 0

(***************************************************************************)
(* The job's goroutine.                                                    *)
(***************************************************************************)
(* Mutant of Add: numbers are taken from the tasks alive, not from a counter. *)
AddReusingIds(t) ==
  /\ job[t] = "new"
  /\ ids' = Cardinality(running) + 1
  /\ id' = [id EXCEPT ![t] = Cardinality(running) + 1]
  /\ running' = {u \in running : id[u] # Cardinality(running) + 1} \cup {t}
  /\ job' = [job EXCEPT ![t] = "added"]
  /\ UNCHANGED <<pending, ready, picked, done, result, rpcVars, workerVars, boundVars>>

(* The id is drawn when the message is built; nothing looks at it before   *)
(* the task is registered under it.                                        *)
Add(t) ==
  /\ job[t] = "new"
  /\ ids' = ids + 1
  /\ id' = [id EXCEPT ![t] = ids + 1]
  /\ running' = {u \in running : id[u] # ids + 1} \cup {t}
  /\ job' = [job EXCEPT ![t] = "added"]
  /\ UNCHANGED <<pending, ready, picked, done, result, rpcVars, workerVars, boundVars>>

(* Mutant of Push: a task jumps its queue. *)
PushInFront(t) ==
  /\ job[t] = "added"
  /\ pending' = [pending EXCEPT ![Priority(t)] = Cons(t, @)]
  /\ job' = [job EXCEPT ![t] = "queued"]
  /\ UNCHANGED <<ids, id, ready, running, picked, done, result,
                 rpcVars, workerVars, boundVars>>

(* push releases the lock before it wakes a poller. *)
Push(t) ==
  /\ job[t] = "added"
  /\ pending' = [pending EXCEPT ![Priority(t)] = Append(@, t)]
  /\ job' = [job EXCEPT ![t] = "queued"]
  /\ UNCHANGED <<ids, id, ready, running, picked, done, result,
                 rpcVars, workerVars, boundVars>>

(* Mutant of Wake: the channel has no buffer. *)
WakeUnbuffered(t) ==
  /\ job[t] = "queued"
  /\ ready' = (ready \/ \E w \in Workers : call[w] = "wait")
  /\ job' = [job EXCEPT ![t] = "offering"]
  /\ UNCHANGED <<ids, id, pending, running, picked, done, result,
                 rpcVars, workerVars, boundVars>>

Wake(t) ==
  /\ job[t] = "queued"
  /\ ready' = TRUE
  /\ job' = [job EXCEPT ![t] = "offering"]
  /\ UNCHANGED <<ids, id, pending, running, picked, done, result,
                 rpcVars, workerVars, boundVars>>

(* offer's select: a choice among the branches that are ready. *)
OfferPicked(t) ==
  /\ job[t] = "offering"
  /\ t \in picked
  /\ job' = [job EXCEPT ![t] = "working"]
  /\ UNCHANGED <<ids, id, pending, ready, running, picked, done, result,
                 rpcVars, workerVars, boundVars>>

(* The pickup timer, or the end of the job's context. *)
OfferGivesUp(t) ==
  /\ job[t] = "offering"
  /\ job' = [job EXCEPT ![t] = "givingUp"]
  /\ UNCHANGED <<ids, id, pending, ready, running, picked, done, result,
                 rpcVars, workerVars, boundVars>>

(* Mutants of Withdraw: the task stays in its queue; a task that was taken  *)
(* is unregistered.                                                        *)
WithdrawInPlace(t) ==
  /\ job[t] = "givingUp"
  /\ IF t \in ToSet(pending[Priority(t)])
     THEN /\ job' = [job EXCEPT ![t] = "leaving"]
          /\ result' = [result EXCEPT ![t] = "refused"]
     ELSE /\ job' = [job EXCEPT ![t] = "working"]
          /\ UNCHANGED result
  /\ UNCHANGED <<ids, id, pending, ready, running, picked, done,
                 rpcVars, workerVars, boundVars>>

WithdrawUnregisters(t) ==
  /\ job[t] = "givingUp"
  /\ IF t \in ToSet(pending[Priority(t)])
     THEN /\ pending' = [pending EXCEPT ![Priority(t)] = SelectSeq(@, LAMBDA u : u # t)]
          /\ job' = [job EXCEPT ![t] = "leaving"]
          /\ result' = [result EXCEPT ![t] = "refused"]
          /\ UNCHANGED running
     ELSE /\ running' = running \ {t}
          /\ job' = [job EXCEPT ![t] = "working"]
          /\ UNCHANGED <<pending, result>>
  /\ UNCHANGED <<ids, id, ready, picked, done, rpcVars, workerVars, boundVars>>

(* Whoever locks first decides: the withdrawal wins only while t waits. *)
Withdraw(t) ==
  /\ job[t] = "givingUp"
  /\ \/ \E i \in DOMAIN pending[Priority(t)] :
          /\ pending[Priority(t)][i] = t
          /\ pending' = [pending EXCEPT ![Priority(t)] = RemoveAt(@, i)]
          /\ job' = [job EXCEPT ![t] = "leaving"]
          /\ result' = [result EXCEPT ![t] = "refused"]
     \/ /\ \A i \in DOMAIN pending[Priority(t)] : pending[Priority(t)][i] # t
        /\ job' = [job EXCEPT ![t] = "working"]
        /\ UNCHANGED <<pending, result>>
  /\ UNCHANGED <<ids, id, ready, running, picked, done, rpcVars, workerVars, boundVars>>

(* run's select, once a worker has the task. *)
RunDone(t) ==
  /\ job[t] = "working"
  /\ done[t] # "none"
  /\ result' = [result EXCEPT ![t] = done[t]]
  /\ job' = [job EXCEPT ![t] = "leaving"]
  /\ UNCHANGED <<ids, id, pending, ready, running, picked, done,
                 rpcVars, workerVars, boundVars>>

(* Mutant of RunGivesUp: a task that reports progress has no idle timer. *)
RunTrustsProgress(t) ==
  /\ job[t] = "working"
  /\ ~ReportsProgress(t)
  /\ result' = [result EXCEPT ![t] = "gaveUp"]
  /\ job' = [job EXCEPT ![t] = "leaving"]
  /\ UNCHANGED <<ids, id, pending, ready, running, picked, done,
                 rpcVars, workerVars, boundVars>>

(* The idle timer, or the end of the job's context.  Progress only sets the *)
(* timer back, and here it may run out between any two reports.            *)
RunGivesUp(t) ==
  /\ job[t] = "working"
  /\ result' = [result EXCEPT ![t] = "gaveUp"]
  /\ job' = [job EXCEPT ![t] = "leaving"]
  /\ UNCHANGED <<ids, id, pending, ready, running, picked, done,
                 rpcVars, workerVars, boundVars>>

(* Mutant of RemoveTask: a refused task stays registered. *)
RemoveTaken(t) ==
  /\ job[t] = "leaving"
  /\ running' = IF result[t] = "refused" THEN running ELSE {u \in running : id[u] # id[t]}
  /\ job' = [job EXCEPT ![t] = "ended"]
  /\ UNCHANGED <<ids, id, pending, ready, picked, done, result,
                 rpcVars, workerVars, boundVars>>

RemoveTask(t) ==
  /\ job[t] = "leaving"
  /\ running' = {u \in running : id[u] # id[t]}
  /\ job' = [job EXCEPT ![t] = "ended"]
  /\ UNCHANGED <<ids, id, pending, ready, picked, done, result,
                 rpcVars, workerVars, boundVars>>

(***************************************************************************)
(* The handlers of NextTask and CheckIn.                                   *)
(***************************************************************************)
(* Mutant of First: the queues are searched from the other end. *)
FirstFromBehind(p) == pending[p] # <<>> /\ \A q \in Priorities : q > p => pending[q] = <<>>

First(p) == pending[p] # <<>> /\ \A q \in Priorities : q < p => pending[q] = <<>>

(* Mutants of Pop: the next poller is not woken; the task stays queued. *)
PopQuietly(p) ==
  /\ pending' = [pending EXCEPT ![p] = Tail(@)]
  /\ picked' = picked \cup {Head(pending[p])}
  /\ UNCHANGED ready

PopInPlace(p) ==
  /\ picked' = picked \cup {Head(pending[p])}
  /\ ready' = TRUE
  /\ UNCHANGED pending

(* takeBefore's critical section, for the first nonempty priority. *)
Pop(p) ==
  /\ pending' = [pending EXCEPT ![p] = Tail(@)]
  /\ picked' = picked \cup {Head(pending[p])}
  /\ ready' = (ready \/ \E q \in Priorities : pending'[q] # <<>>)

(* The response reaches the worker, which enters the task, or it is lost:   *)
(* the worker died, or the connection did.                                 *)
Hand(w, t) ==
  \/ /\ w \notin gone
     /\ stack' = [stack EXCEPT ![w] = Cons(t, @)]
     /\ stop' = [stop EXCEPT ![w] = 0]
     /\ UNCHANGED faults
  \/ /\ w \in gone
     /\ UNCHANGED <<stack, stop, faults>>
  \/ /\ w \notin gone
     /\ faults < MaxFaults
     /\ faults' = faults + 1
     /\ UNCHANGED <<stack, stop>>

Poll(w) ==
  /\ stack[w] = <<>>
  /\ call[w] = "none"
  /\ call' = [call EXCEPT ![w] = "take"]
  /\ UNCHANGED <<apiVars, report, workerVars, boundVars>>

TakeAny(w) ==
  /\ call[w] = "take"
  /\ \E p \in Priorities :
       /\ First(p)
       /\ Pop(p)
       /\ Hand(w, Head(pending[p]))
  /\ call' = [call EXCEPT ![w] = "none"]
  /\ gone' = gone \ {w}
  /\ UNCHANGED <<ids, id, running, done, job, result, report, phase, answer, boots>>

(* Mutant of TakeNothing: the poller sleeps without another look. *)
TakeNothingUnseen(w) ==
  /\ call[w] = "take"
  /\ call' = [call EXCEPT ![w] = "wait"]
  /\ UNCHANGED <<apiVars, report, workerVars, boundVars>>

TakeNothing(w) ==
  /\ call[w] = "take"
  /\ ~HasPending
  /\ call' = [call EXCEPT ![w] = "wait"]
  /\ UNCHANGED <<apiVars, report, workerVars, boundVars>>

Woken(w) ==
  /\ call[w] = "wait"
  /\ ready
  /\ ready' = FALSE
  /\ call' = [call EXCEPT ![w] = "take"]
  /\ UNCHANGED <<ids, id, pending, running, picked, done, job, result, report,
                 workerVars, boundVars>>

(* The poll's timer, or the end of the request's context. *)
PollEnds(w) ==
  /\ call[w] = "wait"
  /\ call' = [call EXCEPT ![w] = "none"]
  /\ gone' = gone \ {w}
  /\ UNCHANGED <<apiVars, report, stack, phase, stop, answer, boundVars>>

(* Between batches, a worker that trains asks for whatever waits.  A run   *)
(* the API no longer knows stops the training; an id that now belongs to a *)
(* task of another kind is an error the worker only logs.                  *)
CheckIn(w) ==
  /\ stack[w] # <<>>
  /\ LET t == Head(stack[w]) IN
     /\ Kind[t] = "train"
     /\ phase[w] = "run"
     /\ call[w] = "none"
     /\ \/ /\ Lookup(id[t]) = {}
           /\ stack' = [stack EXCEPT ![w] = Tail(@)]
           /\ UNCHANGED call
        \/ \E u \in Lookup(id[t]) :
             /\ Kind[u] = "train"
             /\ call' = [call EXCEPT ![w] = "nested"]
             /\ UNCHANGED stack
  /\ UNCHANGED <<ids, id, pending, ready, running, picked, done, job, result, report,
                 phase, stop, answer, gone, boundVars>>

TakeWaiting(w) ==
  /\ call[w] = "nested"
  /\ \/ \E p \in 1..(Training - 1) :
          /\ First(p)
          /\ Pop(p)
          /\ Hand(w, Head(pending[p]))
     \/ /\ \A p \in 1..(Training - 1) : pending[p] = <<>>
        /\ UNCHANGED <<pending, picked, ready, stack, stop, faults>>
  /\ call' = [call EXCEPT ![w] = "none"]
  /\ gone' = gone \ {w}
  /\ UNCHANGED <<ids, id, running, done, job, result, report, phase, answer, boots>>

(***************************************************************************)
(* Reports: the handler looks the task up, saves what came with it, and    *)
(* only then signals the task.                                             *)
(***************************************************************************)
Leave(w) == /\ stack' = [stack EXCEPT ![w] = Tail(@)]
            /\ phase' = [phase EXCEPT ![w] = "run"]

Continue(w, p) == /\ phase' = [phase EXCEPT ![w] = p]
                  /\ UNCHANGED stack

(* The connection broke, so the worker goes on to report a failure, which  *)
(* is its last word on the task.                                           *)
Broken(w, t, what) ==
  CASE what = "fail" -> Leave(w)
    [] Tolerates(t, what) -> Continue(w, "run")
    [] OTHER -> Continue(w, "failing")

CanReport(w, what) ==
  /\ stack[w] # <<>>
  /\ call[w] = "none"
  /\ report[w] = NoReport
  /\ \/ phase[w] = "run" /\ (what = "touch" => ReportsProgress(Head(stack[w])))
     \/ phase[w] = "failing" /\ what = "fail"

(* Task u, registered under the id task t had, may take t's report for its *)
(* own.  FailTask does not look at what kind of task it fails.             *)
Accepts(u, t, what) == what # "fail" => Kind[u] = Kind[t]
Refuses(u, t, what) == what # "fail" /\ (Kind[u] # Kind[t] \/ (u # t /\ ChecksFrames(t)))

(* The lookup.  The worker leaves a task the API answers with an error. *)
Report(w, what) ==
  /\ CanReport(w, what)
  /\ LET t == Head(stack[w]) IN
     \/ \E u \in Lookup(id[t]) :
          /\ Accepts(u, t, what)
          /\ report' = [report EXCEPT ![w] = [task |-> u, from |-> t, what |-> what]]
          /\ Continue(w, "reporting")
     \/ /\ \E u \in Lookup(id[t]) : Refuses(u, t, what)
        /\ IF Tolerates(t, what) THEN Continue(w, "run") ELSE Leave(w)
        /\ UNCHANGED report
     \/ /\ Lookup(id[t]) = {}
        /\ Leave(w)
        /\ UNCHANGED report
  /\ UNCHANGED <<apiVars, call, stop, answer, gone, boundVars>>

(* The request never arrives. *)
ReportLost(w, what) ==
  /\ CanReport(w, what)
  /\ faults < MaxFaults
  /\ faults' = faults + 1
  /\ Broken(w, Head(stack[w]), what)
  /\ UNCHANGED <<apiVars, rpcVars, stop, answer, gone, boots>>

(* The answer, if the worker still waits for it and it arrives. *)
Answered(w, ends) ==
  \/ /\ phase[w] = "reporting"
     /\ IF ends THEN Leave(w) ELSE Continue(w, "run")
     /\ UNCHANGED faults
  \/ /\ phase[w] = "reporting"
     /\ faults < MaxFaults
     /\ faults' = faults + 1
     /\ Broken(w, report[w].from, report[w].what)
  \/ phase[w] # "reporting" /\ UNCHANGED <<stack, phase, faults>>

(* Only the first result counts. *)
Finish(u, r) == done' = [done EXCEPT ![u] = IF @ = "none" THEN r ELSE @]

(* Mutant of Unsaved: the task ends with what only its job may return. *)
UnsavedGivesUp(w, u, what) ==
  /\ Finish(u, "gaveUp")
  /\ Answered(w, TRUE)

(* What a report that cannot be saved does depends on the handler. *)
Unsaved(w, u, what) ==
  \/ /\ Kind[u] = "track" \/ (Kind[u] = "train" /\ what = "done")
     /\ Finish(u, "err")
     /\ Answered(w, TRUE)
  \/ /\ Kind[u] = "prelabel" \/ (Kind[u] = "train" /\ what = "touch")
     /\ UNCHANGED done
     /\ Answered(w, Kind[u] = "prelabel")

Apply(w) ==
  /\ report[w] # NoReport
  /\ LET u == report[w].task
         what == report[w].what
     IN  \/ what = "touch" /\ UNCHANGED done /\ Answered(w, FALSE)
         \/ what = "done" /\ Finish(u, "ok") /\ Answered(w, TRUE)
         \/ what = "fail" /\ Finish(u, "err") /\ Answered(w, TRUE)
         \/ what # "fail" /\ Unsaved(w, u, what)
  /\ report' = [report EXCEPT ![w] = NoReport]
  /\ UNCHANGED <<ids, id, pending, ready, running, picked, job, result, call,
                 stop, answer, gone, boots>>

(***************************************************************************)
(* The heartbeat thread.                                                   *)
(***************************************************************************)
Heartbeat(w) ==
  /\ answer[w] = 0
  /\ WorkingOn(w) # 0
  /\ Lookup(WorkingOn(w)) = {}
  /\ answer' = [answer EXCEPT ![w] = WorkingOn(w)]
  /\ UNCHANGED <<apiVars, rpcVars, stack, phase, stop, gone, boundVars>>

HeartbeatAnswered(w) ==
  /\ answer[w] # 0
  /\ stop' = [stop EXCEPT ![w] = IF answer[w] = WorkingOn(w) THEN answer[w] ELSE @]
  /\ answer' = [answer EXCEPT ![w] = 0]
  /\ UNCHANGED <<apiVars, rpcVars, stack, phase, gone, boundVars>>

Cancelled(w) == WorkingOn(w) # 0 /\ stop[w] = WorkingOn(w)

(* TaskCancelledError: the worker reports nothing more. *)
StopTask(w) ==
  /\ Cancelled(w)
  /\ HeedsHeartbeat(Head(stack[w]))
  /\ phase[w] = "run"
  /\ call[w] = "none"
  /\ Leave(w)
  /\ UNCHANGED <<apiVars, rpcVars, stop, answer, gone, boundVars>>

(***************************************************************************)
(* Crashes.                                                                *)
(***************************************************************************)
WorkerDies(w) ==
  /\ faults < MaxFaults
  /\ faults' = faults + 1
  /\ stack' = [stack EXCEPT ![w] = <<>>]
  /\ phase' = [phase EXCEPT ![w] = "run"]
  /\ stop' = [stop EXCEPT ![w] = 0]
  /\ answer' = [answer EXCEPT ![w] = 0]
  /\ gone' = IF call[w] = "none" THEN gone ELSE gone \cup {w}
  /\ UNCHANGED <<apiVars, rpcVars, boots>>

(* The process ends with everything in it.  Workers keep the tasks they    *)
(* hold; the request one was making breaks.                                      *)
ApiRestarts ==
  /\ boots < MaxBoots
  /\ boots' = boots + 1
  /\ ids' = 0
  /\ pending' = [p \in Priorities |-> <<>>]
  /\ ready' = FALSE
  /\ running' = {}
  /\ job' = [t \in Tasks |-> IF job[t] \in {"new", "ended"} THEN job[t] ELSE "lost"]
  /\ call' = [w \in Workers |-> "none"]
  /\ stack' = [w \in Workers |-> IF phase[w] = "reporting" /\ report[w].what = "fail"
                                 THEN Tail(stack[w]) ELSE stack[w]]
  /\ phase' = [w \in Workers |->
                 CASE phase[w] # "reporting" -> phase[w]
                   [] report[w].what = "fail" \/ Tolerates(report[w].from, report[w].what) -> "run"
                   [] OTHER -> "failing"]
  /\ report' = [w \in Workers |-> NoReport]
  /\ gone' = {}
  /\ UNCHANGED <<id, picked, done, result, stop, answer, faults>>

JobStep(t) ==
  \/ Add(t) \/ Push(t) \/ Wake(t)
  \/ OfferPicked(t) \/ OfferGivesUp(t) \/ Withdraw(t)
  \/ RunDone(t) \/ RunGivesUp(t) \/ RemoveTask(t)

HandlerStep(w) ==
  \/ TakeAny(w) \/ TakeNothing(w) \/ Woken(w) \/ PollEnds(w) \/ TakeWaiting(w) \/ Apply(w)

WorkerStep(w) ==
  \/ Poll(w) \/ CheckIn(w)
  \/ \E what \in {"touch", "done", "fail"} : Report(w, what) \/ ReportLost(w, what)
  \/ StopTask(w) \/ Heartbeat(w) \/ HeartbeatAnswered(w) \/ WorkerDies(w)

Next ==
  \/ \E t \in Tasks : JobStep(t)
  \/ \E w \in Workers : HandlerStep(w) \/ WorkerStep(w)
  \/ ApiRestarts

Spec == Init /\ [][Next]_vars

(***************************************************************************)
(* Properties.                                                             *)
(***************************************************************************)
TypeOK ==
  /\ ids \in Nat
  /\ id \in [Tasks -> Nat]
  /\ pending \in [Priorities -> Seq(Tasks)]
  /\ ready \in BOOLEAN
  /\ running \subseteq Tasks
  /\ picked \subseteq Tasks
  /\ done \in [Tasks -> {"none", "ok", "err"}]
  /\ job \in [Tasks -> JobStates]
  /\ result \in [Tasks -> Results]
  /\ call \in [Workers -> {"none", "take", "wait", "nested"}]
  /\ report \in [Workers -> Reports \cup {NoReport}]
  /\ stack \in [Workers -> Seq(Tasks)]
  /\ phase \in [Workers -> {"run", "reporting", "failing"}]
  /\ stop \in [Workers -> Nat]
  /\ answer \in [Workers -> Nat]
  /\ gone \subseteq Workers
  /\ boots \in Nat
  /\ faults \in Nat

(* No lost wakeup: ready has room for one token however many tasks and      *)
(* pollers there are, yet while a task waits, the token is there, or its   *)
(* job is about to put it there, or a poller is about to look.             *)
NoLostWakeup ==
  HasPending => \/ ready
                \/ \E t \in Tasks : job[t] = "queued"
                \/ \E w \in Workers : call[w] = "take"

Waiting(t) == t \in ToSet(pending[Priority(t)])

(* A task waits in its own queue, once, from the moment its job pushes it   *)
(* until it is popped or withdrawn.  takeBefore closes picked without a    *)
(* check, so a task it could pop twice would crash the API.                *)
PoppedOnce ==
  /\ \A p \in Priorities : IsInjective(pending[p])
  /\ \A p \in Priorities : \A t \in ToSet(pending[p]) :
       /\ Priority(t) = p
       /\ t \notin picked
       /\ job[t] \in {"queued", "offering", "givingUp"}

(* What a job has left behind where it is.  Once it is over, by a result, a  *)
(* refusal, a timer or the end of the process, its task is in no queue and *)
(* not registered: no worker is offered it and every report about it is    *)
(* refused.  A task a worker took was pushed, a refused one was not taken  *)
(* and its job is past the queue, and a worker holds only what was taken   *)
(* from a queue.                                                           *)
Settled ==
  /\ \A t \in Tasks : job[t] \in {"ended", "lost"} =>
       t \notin running /\ \A p \in Priorities : t \notin ToSet(pending[p])
  /\ \A t \in picked : job[t] \notin {"new", "added"}
  /\ \A t \in Tasks : result[t] = "refused" =>
       t \notin picked /\ job[t] \in {"leaving", "ended", "lost"}
  /\ \A w \in Workers : ToSet(stack[w]) \subseteq picked
  /\ \A w \in Workers : phase[w] # "run" => stack[w] # <<>>

(* Once run returned "no GPU worker", or the cancellation of a task that    *)
(* never left the queue, no worker has the task or will get it.            *)
RefusedNeverRuns ==
  \A t \in Tasks : result[t] = "refused" =>
    /\ t \notin picked
    /\ ~Waiting(t)
    /\ \A w \in Workers : t \notin ToSet(stack[w])

(* A task is on at most one worker, at one level. *)
OneHolder ==
  \A v, w \in Workers : \A i \in DOMAIN stack[v], j \in DOMAIN stack[w] :
    stack[v][i] = stack[w][j] => v = w /\ i = j

(* While the API stays up, the heartbeat stops only tasks whose job is     *)
(* over: one that is still waited for is never given up by mistake.        *)
StopsOnlyTheDead ==
  \A w \in Workers : Cancelled(w) => job[Head(stack[w])] \in {"ended", "lost"}

(* What a worker says of one task is never taken for another's. *)
OwnResults == \A w \in Workers : report[w].task = report[w].from

(* NextTask and CheckIn never hand out a task while one of a higher         *)
(* priority waits: a click is never behind bulk work.                      *)
ByPriority ==
  [][\A t \in picked' \ picked : \A u \in Tasks :
       Waiting(u) => Priority(t) <= Priority(u)]_vars

(* The three queues as one line, and what became of each task. *)
InLine == pending[Interactive] \o pending[Background] \o pending[Training]

Fate == [t \in Tasks |->
           CASE t \in picked -> "taken"
             [] result[t] = "refused" -> "refused"
             [] Waiting(t) -> "waiting"
             [] job[t] = "lost" /\ t \notin picked /\ result[t] # "refused" -> "lost"
             [] OTHER -> "new"]

(* The three queues behave as one line: see TaskLine. *)
Line == INSTANCE TaskLine WITH
  Rank <- [t \in Tasks |-> Priority(t)], line <- InLine, fate <- Fate

ImplementsLine == Line!Spec

(***************************************************************************)
(* Fairness.  A job's goroutine runs, and its timers end.  Reports, which  *)
(* set the idle timer back, are finite in number for each task.            *)
(***************************************************************************)
JobAdvances(t) ==
  \/ Push(t) \/ Wake(t) \/ OfferPicked(t) \/ OfferGivesUp(t) \/ Withdraw(t)
  \/ RunDone(t) \/ RunGivesUp(t) \/ RemoveTask(t)

JobFairSpec == Spec /\ \A t \in Tasks : WF_vars(JobAdvances(t))

(* Whatever the workers do or fail to do, a job that offered a task ends,  *)
(* unless the API stops under it.                                          *)
JobsEnd == \A t \in Tasks : job[t] = "added" ~> job[t] \in {"ended", "lost"}

(* Workers poll and answer what they took, except that training may take   *)
(* forever, as long as it checks in between batches.  No timer need ever   *)
(* run out, neither the job's nor the poll's.                              *)
Serves(w) == /\ stack[w] # <<>> /\ Kind[Head(stack[w])] # "train"
             /\ Report(w, "done") \/ Report(w, "fail")

Answers(w) == TakeAny(w) \/ TakeNothing(w) \/ Woken(w) \/ TakeWaiting(w) \/ Apply(w)

ServiceFairSpec ==
  /\ Spec
  /\ \A t \in Tasks : WF_vars(Push(t)) /\ WF_vars(Wake(t))
  /\ \A w \in Workers :
       WF_vars(Poll(w)) /\ WF_vars(Answers(w)) /\ SF_vars(CheckIn(w)) /\ SF_vars(Serves(w))

(* A task other than training never waits forever: not behind a token that *)
(* was lost, and not behind a training run that holds the only worker.     *)
NobodyStarves ==
  \A t \in Tasks : Kind[t] # "train" => (Waiting(t) ~> ~Waiting(t))
===============================================================================
