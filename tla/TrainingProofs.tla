---------------------------- MODULE TrainingProofs ----------------------------
(* Proofs about Training, for any runs, scores and bounds. *)
EXTENDS Training, TLAPS

(* Whoever holds the lock and counted no active run can rely on it. *)
CountHolds == locker # "none" /\ ~busy => \A r \in Runs : status[r] \notin Active

(* What the place of a run's goroutine, and what is reported of it, say     *)
(* about its row.                                                          *)
Placed ==
  \A r \in Runs :
    /\ pc[r] \in {"tracked", "loading", "waiting"} => r \in tracked
    /\ pc[r] \in {"loading", "waiting"} => status[r] \notin {"none", "queued"}
    /\ report[r] # "none" => status[r] \notin {"none", "queued"}
    /\ report[r] = "signal" => status[r] \in Terminal
    /\ r \in done => status[r] \in Terminal

IInv == TypeOK /\ OneActive /\ CountHolds /\ CancelStops /\ NoneAbandoned /\ Placed

LEMMA InitHolds == Init => IInv
<1> SUFFICES ASSUME Init PROVE IInv
  OBVIOUS
<1>1. status \in [Runs -> {"none", "succeeded"}]
  BY DEF Init
<1>2. TypeOK
  <2>1. status \in [Runs -> {"none"} \cup Active \cup Terminal]
    BY <1>1 DEF Terminal
  <2>2. trigger \in [Runs -> {"none"} \cup Triggers]
    BY DEF Init, Triggers
  <2>3. pinned \in Runs \cup {NoRun}
    BY DEF Init
  <2>4. job \in [Runs -> {"none", "available", "running", "cancelling",
                         "completed", "discarded", "cancelled"}]
    BY DEF Init
  <2>5. QED BY <2>1, <2>2, <2>3, <2>4 DEF Init, TypeOK, Places
<1>3. OneActive /\ CountHolds /\ NoneAbandoned
  BY <1>1 DEF Init, OneActive, CountHolds, NoneAbandoned, Active, Started
<1>4. CancelStops /\ Placed
  BY DEF Init, CancelStops, Placed
<1>5. QED BY <1>2, <1>3, <1>4 DEF IInv

-------------------------------------------------------------------------------
(* The type invariant. *)

LEMMA TypeStart ==
  ASSUME TypeOK, StartStep
  PROVE  TypeOK'
<1>1. ASSUME NEW who \in Triggers, Lock(who) PROVE TypeOK'
  BY <1>1 DEF Lock, TypeOK, apiVars, noteVars
<1>2. ASSUME NEW who \in Triggers, Rollback(who) PROVE TypeOK'
  BY <1>2 DEF Rollback, TypeOK, apiVars, noteVars
<1>3. ASSUME NEW who \in Triggers, NEW r \in Runs, QueueRun(who, r) PROVE TypeOK'
  BY <1>3 DEF QueueRun, TypeOK, apiVars, noteVars, Active
<1>4. QED BY <1>1, <1>2, <1>3 DEF StartStep

LEMMA TypePerson ==
  ASSUME TypeOK, NEW r \in Runs, PersonStep(r)
  PROVE  TypeOK'
<1>1. CASE CancelTraining(r)
  BY <1>1 DEF CancelTraining, TypeOK, noteVars, Terminal
<1>2. CASE Stop(r)
  BY <1>2 DEF Stop, TypeOK, dbVars, noteVars
<1>3. CASE PinModel(r)
  BY <1>3 DEF PinModel, TypeOK, apiVars
<1>4. CASE CancelJob(r)
  BY <1>4 DEF CancelJob, TypeOK
<1>5. CASE RetryJob(r)
  BY <1>5 DEF RetryJob, TypeOK, apiVars
<1>6. QED BY <1>1, <1>2, <1>3, <1>4, <1>5 DEF PersonStep

LEMMA TypeJob ==
  ASSUME TypeOK, NEW r \in Runs, JobStep(r) \/ RecordLost(r)
  PROVE  TypeOK'
<1>1. CASE Fetch(r)
  BY <1>1 DEF Fetch, Go, TypeOK, Places, noteVars
<1>2. CASE Track(r)
  BY <1>2 DEF Track, Go, TypeOK, Places, dbVars, noteVars
<1>3. CASE StartRun(r)
  BY <1>3 DEF StartRun, Go, TypeOK, Places, Active, noteVars
<1>4. CASE Offer(r)
  BY <1>4 DEF Offer, Go, TypeOK, Places, dbVars, noteVars
<1>5. CASE GiveUp(r) \/ TaskDone(r)
  BY <1>5 DEF GiveUp, TaskDone, Go, TypeOK, Places, dbVars, noteVars
<1>6. CASE CheckCancelled(r)
  BY <1>6 DEF CheckCancelled, Return, Go, TypeOK, Places, noteVars
<1>7. CASE RecordFailure(r)
  BY <1>7 DEF RecordFailure, Return, Failed, Go, TypeOK, Places, Terminal, noteVars
<1>8. CASE AutoPin(r)
  BY <1>8 DEF AutoPin, Return, Go, TypeOK, Places, noteVars
<1>9. CASE Pin(r)
  BY <1>9 DEF Pin, Return, Go, TypeOK, Places, noteVars
<1>10. CASE RecordLost(r)
  BY <1>10 DEF RecordLost, Return, Failed, Go, TypeOK, Places
<1>11. QED BY <1>1, <1>2, <1>3, <1>4, <1>5, <1>6, <1>7, <1>8, <1>9, <1>10 DEF JobStep

LEMMA TypeHandler ==
  ASSUME TypeOK, NEW r \in Runs, HandlerStep(r)
  PROVE  TypeOK'
<1>1. ASSUME NEW what \in {"training", "evaluating", "finish"}, Report(r, what) PROVE TypeOK'
  BY <1>1 DEF Report, TypeOK, dbVars, noteVars
<1>2. CASE SaveProgress(r)
  <2>1. report[r] \in Active /\ status \in [Runs -> {"none"} \cup Active \cup Terminal]
    BY <1>2 DEF SaveProgress, TypeOK, Active
  <2>2. status' \in [Runs -> {"none"} \cup Active \cup Terminal]
    BY <1>2, <2>1 DEF SaveProgress
  <2>3. QED BY <1>2, <2>2 DEF SaveProgress, TypeOK, noteVars
<1>3. CASE SaveResult(r)
  <2>1. /\ status \in [Runs -> {"none"} \cup Active \cup Terminal]
        /\ baseline \in [Runs -> Runs \cup {NoRun}]
        /\ base \in [Runs -> Runs \cup {NoRun}]
    BY DEF TypeOK
  <2>2. /\ status' \in [Runs -> {"none"} \cup Active \cup Terminal]
        /\ baseline' \in [Runs -> Runs \cup {NoRun}]
    BY <1>3, <2>1 DEF SaveResult, Terminal
  <2>3. QED BY <1>3, <2>2 DEF SaveResult, TypeOK, noteVars
<1>4. CASE Signal(r)
  BY <1>4 DEF Signal, TypeOK, dbVars, noteVars
<1>5. CASE ReportFails(r)
  BY <1>5 DEF ReportFails, TypeOK, dbVars, noteVars
<1>6. QED BY <1>1, <1>2, <1>3, <1>4, <1>5 DEF HandlerStep

LEMMA TypeCrash ==
  ASSUME TypeOK, ApiRestarts \/ \E r \in Runs : Rescue(r)
  PROVE  TypeOK'
<1>1. CASE ApiRestarts
  <2>1. status' \in [Runs -> {"none"} \cup Active \cup Terminal] /\ boots' \in Nat
    BY <1>1 DEF ApiRestarts, TypeOK, Terminal
  <2>2. /\ pc' \in [Runs -> Places] /\ base' \in [Runs -> Runs \cup {NoRun}]
        /\ report' \in [Runs -> {"none", "training", "evaluating", "finish", "signal"}]
        /\ stranded' \subseteq Runs
    BY <1>1 DEF ApiRestarts, Forgotten, Places
  <2>3. QED BY <1>1, <2>1, <2>2 DEF ApiRestarts, TypeOK
<1>2. ASSUME NEW r \in Runs, Rescue(r) PROVE TypeOK'
  BY <1>2 DEF Rescue, Failed, TypeOK, apiVars, noteVars
<1>3. QED BY <1>1, <1>2

LEMMA TypeNext == TypeOK /\ [Next]_vars => TypeOK'
<1>1. TypeOK /\ UNCHANGED vars => TypeOK'
  BY DEF TypeOK, vars, dbVars, apiVars, noteVars
<1>2. QED BY <1>1, TypeStart, TypePerson, TypeJob, TypeHandler, TypeCrash DEF Next

-------------------------------------------------------------------------------
(* How a row may change: a run that ended, or was never created, stays as   *)
(* it is, and one that is active starts or ends.                           *)
Moves ==
  \A r \in Runs :
    \/ status'[r] = status[r]
    \/ status[r] \in Active /\ status'[r] \in Started \cup Terminal

(* Every step but QueueRun moves rows like that, and no other takes the     *)
(* lock without counting.                                                  *)
LockKept == locker' = "none" \/ UNCHANGED <<locker, busy>>

LEMMA LockMoves ==
  ASSUME TypeOK, NEW who \in Triggers, Lock(who) \/ Rollback(who)
  PROVE  Moves
BY DEF Lock, Rollback, Moves

LEMMA PersonMoves ==
  ASSUME TypeOK, NEW r \in Runs, PersonStep(r)
  PROVE  Moves /\ LockKept
<1>1. CASE CancelTraining(r)
  BY <1>1 DEF CancelTraining, Moves, LockKept, TypeOK, Terminal
<1>2. CASE Stop(r) \/ PinModel(r) \/ CancelJob(r) \/ RetryJob(r)
  BY <1>2 DEF Stop, PinModel, CancelJob, RetryJob, Moves, LockKept, dbVars
<1>3. QED BY <1>1, <1>2 DEF PersonStep

LEMMA JobMoves ==
  ASSUME TypeOK, NEW r \in Runs, JobStep(r) \/ RecordLost(r)
  PROVE  Moves /\ LockKept
<1>1. CASE StartRun(r)
  BY <1>1 DEF StartRun, Moves, LockKept, TypeOK, Active, Started
<1>2. CASE RecordFailure(r)
  BY <1>2 DEF RecordFailure, Moves, LockKept, TypeOK, Terminal
<1>3. CASE \/ Fetch(r) \/ Track(r) \/ Offer(r) \/ GiveUp(r) \/ TaskDone(r)
           \/ CheckCancelled(r) \/ RecordLost(r) \/ AutoPin(r) \/ Pin(r)
  BY <1>3 DEF Fetch, Track, Offer, GiveUp, TaskDone, CheckCancelled, RecordLost, AutoPin, Pin,
              Moves, LockKept, dbVars
<1>4. QED BY <1>1, <1>2, <1>3 DEF JobStep

LEMMA HandlerMoves ==
  ASSUME TypeOK, NEW r \in Runs, HandlerStep(r)
  PROVE  Moves /\ LockKept
<1>1. CASE SaveProgress(r)
  BY <1>1 DEF SaveProgress, Moves, LockKept, TypeOK, Active, Started
<1>2. CASE SaveResult(r)
  BY <1>2 DEF SaveResult, Moves, LockKept, TypeOK, Active, Started, Terminal
<1>3. CASE \/ \E what \in {"training", "evaluating", "finish"} : Report(r, what)
           \/ Signal(r) \/ ReportFails(r)
  BY <1>3 DEF Report, Signal, ReportFails, Moves, LockKept, dbVars
<1>4. QED BY <1>1, <1>2, <1>3 DEF HandlerStep

LEMMA CrashMoves ==
  ASSUME TypeOK, ApiRestarts \/ \E r \in Runs : Rescue(r)
  PROVE  Moves /\ LockKept
<1>1. CASE ApiRestarts
  BY <1>1 DEF ApiRestarts, Moves, LockKept, TypeOK, Active, Started, Terminal
<1>2. CASE \E r \in Runs : Rescue(r)
  BY <1>2 DEF Rescue, Moves, LockKept
<1>3. QED BY <1>1, <1>2

(* A run that moves was active before, or ends.                            *)
LEMMA MovesKeepOneActive ==
  ASSUME OneActive, CountHolds, Moves, LockKept
  PROVE  OneActive' /\ CountHolds'
<1>1. \A r \in Runs : status'[r] \in Active => status[r] \in Active
  BY DEF Moves
<1>2. QED BY <1>1 DEF OneActive, CountHolds, LockKept

LEMMA QueueRunKeepsOneActive ==
  ASSUME TypeOK, CountHolds, NEW who \in Triggers, NEW r \in Runs, QueueRun(who, r)
  PROVE  OneActive' /\ CountHolds'
<1>1. \A s \in Runs : status[s] \notin Active
  BY DEF QueueRun, CountHolds, Triggers
<1>2. \A s \in Runs \ {r} : status'[s] \notin Active
  BY <1>1 DEF QueueRun, TypeOK
<1>3. QED BY <1>2 DEF QueueRun, OneActive, CountHolds

LEMMA LockKeepsOneActive ==
  ASSUME OneActive, CountHolds, NEW who \in Triggers, Lock(who) \/ Rollback(who)
  PROVE  OneActive' /\ CountHolds'
BY DEF Lock, Rollback, OneActive, CountHolds

-------------------------------------------------------------------------------
(* Where the goroutines are.  The three parts lean on each other, so a step *)
(* is shown to keep them together.                                         *)
Local == CancelStops /\ NoneAbandoned /\ Placed

LEMMA StartLocal ==
  ASSUME TypeOK, Local, StartStep
  PROVE  Local'
<1>1. ASSUME NEW who \in Triggers, Lock(who) \/ Rollback(who) PROVE Local'
  BY <1>1 DEF Lock, Rollback, apiVars, noteVars, Local, CancelStops, NoneAbandoned, Placed
<1>2. ASSUME NEW who \in Triggers, NEW r \in Runs, QueueRun(who, r) PROVE Local'
  <2>1. \A s \in Runs \ {r} : status'[s] = status[s]
    BY <1>2 DEF QueueRun, TypeOK
  <2>2. status[r] = "none" /\ status'[r] = "queued"
    BY <1>2 DEF QueueRun, TypeOK
  <2>3. UNCHANGED apiVars /\ UNCHANGED noteVars
    BY <1>2 DEF QueueRun
  <2>4. QED BY <2>1, <2>2, <2>3
            DEF apiVars, noteVars, Local, CancelStops, NoneAbandoned, Placed, Started, Terminal
<1>3. QED BY <1>1, <1>2 DEF StartStep

LEMMA PersonLocal ==
  ASSUME TypeOK, Local, NEW r \in Runs, PersonStep(r)
  PROVE  Local'
<1>1. CASE CancelTraining(r)
  <2>1. \A s \in Runs \ {r} : status'[s] = status[s] /\ (s \in stopping <=> s \in stopping')
    BY <1>1 DEF CancelTraining, TypeOK
  <2>2. status'[r] = "cancelled" /\ r \in stopping'
    BY <1>1 DEF CancelTraining, TypeOK
  <2>3. UNCHANGED <<pc, tracked, halted, report, done, stranded>>
    BY <1>1 DEF CancelTraining, noteVars
  <2>4. QED BY <2>1, <2>2, <2>3
            DEF Local, CancelStops, NoneAbandoned, Placed, Started, Terminal
<1>2. CASE Stop(r)
  BY <1>2 DEF Stop, dbVars, noteVars, Local, CancelStops, NoneAbandoned, Placed
<1>3. CASE PinModel(r) \/ RetryJob(r)
  BY <1>3 DEF PinModel, RetryJob, apiVars, noteVars, Local, CancelStops, NoneAbandoned, Placed
<1>4. CASE CancelJob(r)
  BY <1>4 DEF CancelJob, Local, CancelStops, NoneAbandoned, Placed
<1>5. QED BY <1>1, <1>2, <1>3, <1>4 DEF PersonStep

(* A goroutine that returns leaves nothing behind but reports. *)
LEMMA ReturnLocal ==
  ASSUME TypeOK, Local, NEW r \in Runs, NEW outcome, Return(r, outcome), Moves,
         status'[r] \in Started => r \in stranded', stranded \subseteq stranded',
         UNCHANGED <<stopping, report>>,
         \A s \in Runs \ {r} : status'[s] = status[s]
  PROVE  Local'
<1>1. /\ pc'[r] = "idle"
      /\ \A s \in Runs \ {r} : pc'[s] = pc[s]
  BY DEF Return, Go, TypeOK
<1>2. \A s \in Runs \ {r} :
        /\ (s \in tracked') <=> (s \in tracked)
        /\ (s \in halted') <=> (s \in halted)
        /\ (s \in done') <=> (s \in done)
  BY DEF Return
<1>3. r \notin done'
  BY DEF Return
<1>4. CancelStops' /\ NoneAbandoned'
  BY <1>1, <1>2 DEF Local, CancelStops, NoneAbandoned
<1>5. Placed'
  BY <1>1, <1>2, <1>3 DEF Moves, Local, Placed, Active, Started, Terminal
<1>6. QED BY <1>4, <1>5 DEF Local

LEMMA JobLocal ==
  ASSUME TypeOK, Local, NEW r \in Runs, JobStep(r) \/ RecordLost(r)
  PROVE  Local'
<1>1. CASE Fetch(r)
  BY <1>1 DEF Fetch, Go, noteVars, Working, TypeOK, Local, CancelStops, NoneAbandoned, Placed
<1>2. CASE Track(r)
  BY <1>2 DEF Track, Go, dbVars, noteVars, TypeOK, Local, CancelStops, NoneAbandoned, Placed
<1>3. CASE StartRun(r)
  <2>1. /\ pc[r] = "tracked"
        /\ \A s \in Runs \ {r} : status'[s] = status[s] /\ pc'[s] = pc[s]
        /\ UNCHANGED <<tracked, halted, stopping, report, done>>
        /\ \A s \in Runs \ {r} : s \in stranded => s \in stranded'
    BY <1>3 DEF StartRun, Go, TypeOK
  <2>2. \/ status[r] = "queued" /\ status'[r] = "preparing" /\ pc'[r] = "loading"
        \/ /\ status[r] # "queued" /\ status'[r] = status[r] /\ pc'[r] = "finished"
           /\ stranded' = stranded
    BY <1>3 DEF StartRun, Go, TypeOK
  <2>3. QED BY <2>1, <2>2 DEF Local, CancelStops, NoneAbandoned, Placed, Started, Terminal
<1>4. CASE Offer(r)
  BY <1>4 DEF Offer, Go, dbVars, noteVars, TypeOK, Local, CancelStops, NoneAbandoned, Placed
<1>5. CASE GiveUp(r)
  BY <1>5 DEF GiveUp, Go, dbVars, noteVars, TypeOK, Local, CancelStops, NoneAbandoned, Placed
<1>6. CASE TaskDone(r)
  BY <1>6 DEF TaskDone, Go, dbVars, noteVars, TypeOK, Local, CancelStops, NoneAbandoned, Placed,
              Started, Terminal
<1>7. CASE CheckCancelled(r)
  <2>1. CASE status[r] = "cancelled" /\ Return(r, "completed")
    BY <1>7, <2>1, ReturnLocal DEF CheckCancelled, noteVars, Moves, Started
  <2>2. CASE Go(r, "recording") /\ UNCHANGED <<job, tracked, halted, done>>
    BY <1>7, <2>2 DEF CheckCancelled, Go, noteVars, TypeOK, Local, CancelStops, NoneAbandoned, Placed
  <2>3. QED BY <1>7, <2>1, <2>2 DEF CheckCancelled
<1>8. CASE RecordFailure(r)
  <2>1. status'[r] \notin Started /\ \A s \in Runs \ {r} : status'[s] = status[s]
    BY <1>8 DEF RecordFailure, TypeOK, Active, Started
  <2>2. Moves
    BY <1>8, JobMoves DEF JobStep
  <2>3. QED BY <1>8, <2>1, <2>2, ReturnLocal DEF RecordFailure, noteVars
<1>9. CASE AutoPin(r)
  <2>1. status[r] \in Started => r \in stranded
    BY <1>9 DEF AutoPin, Local, NoneAbandoned
  <2>2. CASE Return(r, "completed")
    BY <1>9, <2>1, <2>2, ReturnLocal DEF AutoPin, noteVars, Moves
  <2>3. CASE Go(r, "pinning") /\ UNCHANGED <<job, tracked, halted, done>>
    BY <1>9, <2>1, <2>3 DEF AutoPin, Go, noteVars, TypeOK, Local, CancelStops, NoneAbandoned, Placed
  <2>4. QED BY <1>9, <2>2, <2>3 DEF AutoPin
<1>10. CASE Pin(r)
  <2>1. status[r] \in Started => r \in stranded
    BY <1>10 DEF Pin, Local, NoneAbandoned
  <2>2. QED BY <1>10, <2>1, ReturnLocal DEF Pin, noteVars, Moves
<1>11. CASE RecordLost(r)
  <2>1. status[r] \in Started => r \in stranded'
    BY <1>11 DEF RecordLost, Active, Started
  <2>2. Moves
    BY <1>11, JobMoves
  <2>3. QED BY <1>11, <2>1, <2>2, ReturnLocal DEF RecordLost
<1>12. QED BY <1>1, <1>2, <1>3, <1>4, <1>5, <1>6, <1>7, <1>8, <1>9, <1>10, <1>11 DEF JobStep

LEMMA HandlerLocal ==
  ASSUME TypeOK, Local, NEW r \in Runs, HandlerStep(r)
  PROVE  Local'
<1>1. ASSUME NEW what \in {"training", "evaluating", "finish"}, Report(r, what) PROVE Local'
  BY <1>1 DEF Report, dbVars, noteVars, TypeOK, Local, CancelStops, NoneAbandoned, Placed
<1>2. CASE SaveProgress(r)
  <2>1. Moves
    BY <1>2, HandlerMoves DEF HandlerStep
  <2>2. /\ \A s \in Runs : status'[s] \in Started <=> status[s] \in Started
        /\ \A s \in Runs : status'[s] = "cancelled" <=> status[s] = "cancelled"
        /\ \A s \in Runs : report'[s] \in {report[s], "none"}
        /\ UNCHANGED <<pc, tracked, halted, stopping, done, stranded>>
    BY <1>2 DEF SaveProgress, TypeOK, Started, noteVars
  <2>3. CancelStops' /\ NoneAbandoned'
    BY <2>2 DEF Local, CancelStops, NoneAbandoned
  <2>4. Placed'
    BY <2>1, <2>2 DEF Moves, Local, Placed, Active, Started, Terminal
  <2>5. QED BY <2>3, <2>4 DEF Local
<1>3. CASE SaveResult(r)
  <2>1. Moves
    BY <1>3, HandlerMoves DEF HandlerStep
  <2>2. /\ \A s \in Runs : status'[s] \in Started => status[s] \in Started
        /\ \A s \in Runs : status'[s] = "cancelled" <=> status[s] = "cancelled"
        /\ \A s \in Runs \ {r} : status'[s] = status[s] /\ report'[s] = report[s]
        /\ report[r] = "finish" /\ status'[r] \notin Started
        /\ UNCHANGED <<pc, tracked, halted, stopping, done, stranded>>
    BY <1>3 DEF SaveResult, TypeOK, Started, noteVars
  <2>3. CancelStops' /\ NoneAbandoned'
    BY <2>2 DEF Local, CancelStops, NoneAbandoned
  <2>4. status'[r] \in Terminal
    <3>1. status[r] \in {"none"} \cup Active \cup Terminal /\ status[r] \notin {"none", "queued"}
      BY <2>2 DEF TypeOK, Local, Placed
    <3>2. QED BY <2>1, <2>2, <3>1 DEF Moves, Active, Started, Terminal
  <2>5. Placed'
    BY <2>1, <2>2, <2>4 DEF Moves, Local, Placed, Active, Started, Terminal
  <2>6. QED BY <2>3, <2>5 DEF Local
<1>4. CASE Signal(r)
  BY <1>4 DEF Signal, dbVars, noteVars, TypeOK, Local, CancelStops, NoneAbandoned, Placed
<1>5. CASE ReportFails(r)
  BY <1>5 DEF ReportFails, dbVars, noteVars, TypeOK, Local, CancelStops, NoneAbandoned, Placed
<1>6. QED BY <1>1, <1>2, <1>3, <1>4, <1>5 DEF HandlerStep

LEMMA CrashLocal ==
  ASSUME TypeOK, Local, ApiRestarts \/ \E r \in Runs : Rescue(r)
  PROVE  Local'
<1>1. CASE ApiRestarts
  BY <1>1 DEF ApiRestarts, TypeOK, Local, CancelStops, NoneAbandoned, Placed, Started
<1>2. CASE \E r \in Runs : Rescue(r)
  BY <1>2 DEF Rescue, apiVars, noteVars, Local, CancelStops, NoneAbandoned, Placed
<1>3. QED BY <1>1, <1>2

-------------------------------------------------------------------------------
(* Every step keeps the invariant. *)

LEMMA Inductive == IInv /\ [Next]_vars => IInv'
<1> SUFFICES ASSUME IInv, [Next]_vars PROVE IInv'
  OBVIOUS
<1>1. TypeOK /\ OneActive /\ CountHolds /\ Local
  BY DEF IInv, Local
<1>2. TypeOK'
  BY <1>1, TypeNext
<1>3. Local'
  <2>1. CASE UNCHANGED vars
    BY <1>1, <2>1 DEF vars, dbVars, apiVars, noteVars, Local, CancelStops, NoneAbandoned, Placed
  <2>2. CASE Next
    BY <1>1, <2>2, StartLocal, PersonLocal, JobLocal, HandlerLocal, CrashLocal DEF Next
  <2>3. QED BY <2>1, <2>2
<1>4. OneActive' /\ CountHolds'
  <2>1. CASE UNCHANGED vars
    BY <1>1, <2>1 DEF vars, dbVars, OneActive, CountHolds
  <2>2. CASE StartStep
    BY <1>1, <2>2, QueueRunKeepsOneActive, LockKeepsOneActive DEF StartStep
  <2>3. CASE \/ \E r \in Runs :
                   PersonStep(r) \/ JobStep(r) \/ RecordLost(r) \/ HandlerStep(r) \/ Rescue(r)
             \/ ApiRestarts
    <3>1. Moves /\ LockKept
      BY <1>1, <2>3, PersonMoves, JobMoves, HandlerMoves, CrashMoves
    <3>2. QED BY <1>1, <3>1, MovesKeepOneActive
  <2>4. QED BY <2>1, <2>2, <2>3 DEF Next
<1>5. QED BY <1>2, <1>3, <1>4 DEF IInv, Local

(* Every variable of Training keeps its type. *)
THEOREM TypeCorrect == Spec => []TypeOK
<1>1. Init => TypeOK
  BY InitHolds DEF IInv
<1>2. QED BY <1>1, TypeNext, PTL DEF Spec

(* The inductive invariant holds in every reachable state. *)
THEOREM InvariantHolds == Spec => []IInv
BY InitHolds, Inductive, PTL DEF Spec

(* StartTraining and the schedule never start a second run while one is     *)
(* queued or trains.                                                       *)
THEOREM NeverTwoActive == Spec => []OneActive
<1>1. IInv => OneActive
  BY DEF IInv
<1>2. QED BY <1>1, InvariantHolds, PTL

(* CancelTraining reaches the job whatever the order of its commit and the  *)
(* job's registration.                                                     *)
THEOREM CancelReachesJob == Spec => []CancelStops
<1>1. IInv => CancelStops
  BY DEF IInv
<1>2. QED BY <1>1, InvariantHolds, PTL

(* No run is left preparing, training or evaluating without a goroutine,    *)
(* across any number of restarts, unless its failure could not be recorded *)
(* since the last one.                                                     *)
THEOREM NeverAbandoned == Spec => []NoneAbandoned
<1>1. IInv => NoneAbandoned
  BY DEF IInv
<1>2. QED BY <1>1, InvariantHolds, PTL

(* FinishTrainingRun, FailTrainingRun, SetTrainingProgress and the restart  *)
(* leave a run that ended alone.                                           *)
THEOREM EndsStay == Spec => EndIsFinal
<1> DEFINE Kept == \A r \in Runs : status[r] \in Terminal => status'[r] = status[r]
<1>1. TypeOK /\ [Next]_vars => [Kept]_vars
  <2> SUFFICES ASSUME TypeOK, [Next]_vars PROVE Kept
    OBVIOUS
  <2>1. CASE UNCHANGED vars
    BY <2>1 DEF vars, dbVars
  <2>2. ASSUME NEW who \in Triggers, NEW r \in Runs, QueueRun(who, r) PROVE Kept
    BY <2>2 DEF QueueRun, TypeOK, Terminal
  <2>3. CASE Moves
    BY <2>3 DEF Moves, Active, Terminal
  <2>4. QED BY <2>1, <2>2, <2>3, LockMoves, PersonMoves, JobMoves, HandlerMoves, CrashMoves
            DEF Next, StartStep
<1>2. QED BY <1>1, TypeCorrect, PTL DEF Spec, EndIsFinal

-------------------------------------------------------------------------------
(* A queued run has a job.                                                  *)

(* A job, and a goroutine that works it, are of a run that was created; the *)
(* job of a goroutine runs; and a goroutine that is done with a run left it *)
(* no longer queued.                                                       *)
Created ==
  \A r \in Runs :
    /\ job[r] # "none" \/ Working(r) => status[r] # "none"
    /\ Working(r) => job[r] \in {"running", "cancelling"}
    /\ pc[r] \in {"finished", "pinning"} => status[r] # "queued"

(* The admin panel loses a job that waits. *)
Attended == Created /\ (admin = 0 => QueuedHasJob)

LEMMA InitAttended == Init => Attended
BY DEF Init, Attended, Created, QueuedHasJob, Working

(* A step that leaves rows, jobs and goroutines alone. *)
LEMMA AttendedQuiet ==
  ASSUME Attended, UNCHANGED <<status, job, pc, stranded, admin>>
  PROVE  Attended'
BY DEF Attended, Created, QueuedHasJob, Working

LEMMA StartAttended ==
  ASSUME TypeOK, Attended, StartStep
  PROVE  Attended'
<1>1. ASSUME NEW who \in Triggers, Lock(who) \/ Rollback(who) PROVE Attended'
  BY <1>1, AttendedQuiet DEF Lock, Rollback, apiVars, noteVars
<1>2. ASSUME NEW who \in Triggers, NEW r \in Runs, QueueRun(who, r) PROVE Attended'
  <2>1. /\ \A s \in Runs \ {r} : status'[s] = status[s] /\ job'[s] = job[s]
        /\ status[r] = "none" /\ status'[r] = "queued" /\ job'[r] = "available"
        /\ UNCHANGED <<pc, stranded, admin>>
    BY <1>2 DEF QueueRun, TypeOK, apiVars, noteVars
  <2>2. pc[r] = "idle"
    BY <2>1 DEF Attended, Created, Working
  <2>3. Created'
    BY <2>1, <2>2 DEF Attended, Created, Working
  <2>4. admin = 0 => QueuedHasJob'
    BY <2>1 DEF Attended, QueuedHasJob
  <2>5. QED BY <2>1, <2>3, <2>4 DEF Attended
<1>3. QED BY <1>1, <1>2 DEF StartStep

LEMMA PersonAttended ==
  ASSUME TypeOK, Attended, NEW r \in Runs, PersonStep(r)
  PROVE  Attended'
<1>1. CASE CancelTraining(r)
  BY <1>1 DEF CancelTraining, noteVars, TypeOK, Attended, Created, QueuedHasJob, Working
<1>2. CASE Stop(r) \/ PinModel(r)
  BY <1>2, AttendedQuiet DEF Stop, PinModel, dbVars, apiVars, noteVars
<1>3. CASE CancelJob(r) \/ RetryJob(r)
  <2>1. /\ \A s \in Runs : job'[s] # "none" => job[s] # "none"
        /\ \A s \in Runs : job[s] \in {"running", "cancelling"} =>
                            job'[s] \in {"running", "cancelling"}
        /\ UNCHANGED <<status, pc>>
    BY <1>3 DEF CancelJob, RetryJob, TypeOK, apiVars
  <2>2. admin' # 0
    BY <1>3 DEF CancelJob, RetryJob, TypeOK
  <2>3. QED BY <2>1, <2>2 DEF Attended, Created, Working
<1>4. QED BY <1>1, <1>2, <1>3 DEF PersonStep

(* A goroutine may return once its run is no longer queued, or is noted. *)
LEMMA ReturnAttended ==
  ASSUME TypeOK, Attended, NEW r \in Runs, NEW outcome, Return(r, outcome), Working(r),
         status'[r] # "none", status'[r] = "queued" => r \in stranded',
         admin' = admin, stranded \subseteq stranded',
         \A s \in Runs \ {r} : status'[s] = status[s]
  PROVE  Attended'
<1>1. /\ pc'[r] = "idle"
      /\ \A s \in Runs \ {r} : pc'[s] = pc[s] /\ job'[s] = job[s]
  BY DEF Return, Go, TypeOK
<1>2. Created'
  BY <1>1 DEF Attended, Created, Working
<1>3. admin = 0 => QueuedHasJob'
  BY <1>1 DEF Attended, QueuedHasJob
<1>4. QED BY <1>2, <1>3 DEF Attended

LEMMA JobAttended ==
  ASSUME TypeOK, Local, Attended, NEW r \in Runs, JobStep(r) \/ RecordLost(r)
  PROVE  Attended'
<1>1. CASE Fetch(r)
  <2>1. /\ \A s \in Runs \ {r} : pc'[s] = pc[s] /\ job'[s] = job[s]
        /\ job[r] = "available" /\ job'[r] = "running" /\ pc'[r] = "fetched"
        /\ UNCHANGED <<status, stranded, admin>>
    BY <1>1 DEF Fetch, Go, TypeOK, noteVars
  <2>2. QED BY <2>1 DEF Attended, Created, QueuedHasJob, Working
<1>2. CASE Track(r) \/ GiveUp(r)
  <2>1. /\ \A s \in Runs \ {r} : pc'[s] = pc[s]
        /\ Working(r) /\ pc'[r] \in {"tracked", "failing"}
        /\ UNCHANGED <<status, job, stranded, admin>>
    BY <1>2 DEF Track, GiveUp, Go, Working, TypeOK, dbVars, noteVars
  <2>2. QED BY <2>1 DEF Attended, Created, QueuedHasJob, Working
<1>3. CASE StartRun(r)
  <2>1. /\ \A s \in Runs \ {r} : pc'[s] = pc[s] /\ status'[s] = status[s]
        /\ Working(r) /\ UNCHANGED <<job, admin>>
        /\ \A s \in Runs \ {r} : s \in stranded => s \in stranded'
        /\ \/ status'[r] = "preparing" /\ pc'[r] = "loading"
           \/ status[r] # "queued" /\ status'[r] = status[r] /\ pc'[r] = "finished"
    BY <1>3 DEF StartRun, Go, Working, TypeOK, noteVars
  <2>2. QED BY <2>1 DEF Attended, Created, QueuedHasJob, Working
<1>4. CASE Offer(r) \/ TaskDone(r)
  <2>1. /\ \A s \in Runs \ {r} : pc'[s] = pc[s]
        /\ pc[r] \in {"loading", "waiting"}
        /\ pc'[r] \in {"waiting", "finished"}
        /\ UNCHANGED <<status, job, stranded, admin>>
    BY <1>4 DEF Offer, TaskDone, Go, TypeOK, dbVars, noteVars
  <2>2. status[r] \notin {"none", "queued"}
    BY <2>1 DEF Local, Placed
  <2>3. QED BY <2>1, <2>2 DEF Attended, Created, QueuedHasJob, Working
<1>5. CASE CheckCancelled(r)
  <2>1. CASE status[r] = "cancelled" /\ Return(r, "completed")
    <3>1. Working(r) /\ UNCHANGED <<status, stranded, admin>>
      BY <1>5 DEF CheckCancelled, Working, noteVars
    <3>2. QED BY <2>1, <3>1, ReturnAttended
  <2>2. CASE Go(r, "recording") /\ UNCHANGED job
    <3>1. /\ \A s \in Runs \ {r} : pc'[s] = pc[s]
          /\ Working(r) /\ pc'[r] = "recording"
          /\ UNCHANGED <<status, job, stranded, admin>>
      BY <1>5, <2>2 DEF CheckCancelled, Go, Working, TypeOK, noteVars
    <3>2. QED BY <3>1 DEF Attended, Created, QueuedHasJob, Working
  <2>3. QED BY <1>5, <2>1, <2>2 DEF CheckCancelled
<1>6. CASE RecordFailure(r)
  <2>1. status[r] # "none" /\ Working(r)
    BY <1>6 DEF RecordFailure, Attended, Created, Working
  <2>2. /\ status'[r] \notin {"none", "queued"}
        /\ \A s \in Runs \ {r} : status'[s] = status[s]
    BY <1>6, <2>1 DEF RecordFailure, TypeOK, Active
  <2>3. QED BY <1>6, <2>1, <2>2, ReturnAttended DEF RecordFailure, noteVars
<1>7. CASE AutoPin(r) \/ Pin(r)
  <2>1. Working(r) /\ status[r] \notin {"none", "queued"} /\ UNCHANGED <<status, stranded, admin>>
    BY <1>7 DEF AutoPin, Pin, Working, Attended, Created, noteVars
  <2>2. CASE Return(r, "completed")
    BY <2>1, <2>2, ReturnAttended
  <2>3. CASE AutoPin(r) /\ Go(r, "pinning") /\ UNCHANGED job
    <3>1. /\ \A s \in Runs \ {r} : pc'[s] = pc[s]
          /\ pc'[r] = "pinning"
      BY <2>3 DEF Go, TypeOK
    <3>2. QED BY <2>1, <2>3, <3>1 DEF Attended, Created, QueuedHasJob, Working
  <2>4. QED BY <1>7, <2>2, <2>3 DEF AutoPin, Pin
<1>8. CASE RecordLost(r)
  <2>1. status[r] # "none" /\ Working(r) /\ UNCHANGED <<status, admin>>
    BY <1>8 DEF RecordLost, Attended, Created, Working
  <2>2. /\ status'[r] = "queued" => r \in stranded'
        /\ stranded \subseteq stranded'
    BY <1>8, <2>1 DEF RecordLost, Active
  <2>3. QED BY <1>8, <2>1, <2>2, ReturnAttended DEF RecordLost
<1>9. QED BY <1>1, <1>2, <1>3, <1>4, <1>5, <1>6, <1>7, <1>8 DEF JobStep

LEMMA HandlerAttended ==
  ASSUME TypeOK, Attended, NEW r \in Runs, HandlerStep(r)
  PROVE  Attended'
<1>1. Moves
  BY HandlerMoves
<1>2. UNCHANGED <<job, pc, stranded, admin>>
  BY DEF HandlerStep, Report, SaveProgress, SaveResult, Signal, ReportFails, dbVars, noteVars
<1>3. \A s \in Runs : /\ status[s] # "none" => status'[s] # "none"
                      /\ status'[s] = "queued" => status[s] = "queued"
  BY <1>1 DEF Moves, Active, Started, Terminal
<1>4. Created'
  BY <1>2, <1>3 DEF Attended, Created, Working
<1>5. admin = 0 => QueuedHasJob'
  BY <1>2, <1>3 DEF Attended, QueuedHasJob
<1>6. QED BY <1>2, <1>4, <1>5 DEF Attended

LEMMA CrashAttended ==
  ASSUME TypeOK, Attended, ApiRestarts \/ \E r \in Runs : Rescue(r)
  PROVE  Attended'
<1>1. CASE ApiRestarts
  <2>1. /\ \A r \in Runs : pc'[r] = "idle"
        /\ \A r \in Runs : status[r] # "none" => status'[r] # "none"
        /\ \A r \in Runs : status'[r] = "queued" => status[r] = "queued"
        /\ UNCHANGED <<job, admin>>
    BY <1>1 DEF ApiRestarts, TypeOK
  <2>2. Created'
    BY <2>1 DEF Attended, Created, Working
  <2>3. ASSUME admin = 0 PROVE QueuedHasJob'
    <3>1. ASSUME NEW r \in Runs, status'[r] = "queued" PROVE job'[r] = "available" \/ r \in stranded'
      <4>1. job[r] = "available" \/ Working(r) \/ r \in stranded
        BY <2>1, <2>3, <3>1 DEF Attended, QueuedHasJob, Working
      <4>2. QED BY <1>1, <2>1, <3>1, <4>1 DEF ApiRestarts, Forgotten, Attended, Created
    <3>2. QED BY <3>1 DEF QueuedHasJob
  <2>4. QED BY <2>1, <2>2, <2>3 DEF Attended
<1>2. ASSUME NEW r \in Runs, Rescue(r) PROVE Attended'
  <2>1. /\ \A s \in Runs \ {r} : job'[s] = job[s]
        /\ job[r] \notin {"none", "available"} /\ ~Working(r)
        /\ UNCHANGED <<status, pc, stranded, admin>>
    BY <1>2 DEF Rescue, TypeOK, apiVars, noteVars
  <2>2. QED BY <2>1 DEF Attended, Created, QueuedHasJob, Working
<1>3. QED BY <1>1, <1>2

LEMMA AttendedNext == IInv /\ Attended /\ [Next]_vars => Attended'
<1> SUFFICES ASSUME IInv, Attended, [Next]_vars PROVE Attended'
  OBVIOUS
<1>1. TypeOK /\ Local
  BY DEF IInv, Local
<1>2. CASE UNCHANGED vars
  BY <1>2, AttendedQuiet DEF vars, dbVars, apiVars, noteVars
<1>3. CASE Next
  BY <1>1, <1>3, StartAttended, PersonAttended, JobAttended, HandlerAttended, CrashAttended
  DEF Next
<1>4. QED BY <1>2, <1>3

(* While nobody touches jobs in the admin panel, a run that is queued has a *)
(* job that waits or is being worked, whatever fails or restarts: only a    *)
(* failure that could not be recorded, or a restart between the fetch of    *)
(* the job and the start of its run, blocks the queue.                      *)
THEOREM QueuedIsWorked == Spec => [](admin = 0 => QueuedHasJob)
<1>1. Attended => (admin = 0 => QueuedHasJob)
  BY DEF Attended
<1>2. QED BY <1>1, InitAttended, AttendedNext, InvariantHolds, PTL DEF Spec

-------------------------------------------------------------------------------
(* A scheduled run only replaces a model it beats.                          *)

(* The queue has one worker: one goroutine works. *)
Single == \A r, s \in Runs : Working(r) /\ Working(s) => r = s

(* A job that was not started is of a run that was not either and saw no    *)
(* pinned model: each job is worked once, unless it is retried.  A run with *)
(* nobody at it stays so.                                                   *)
Fresh ==
  \A r \in Runs :
    /\ job[r] = "available" \/ pc[r] \in {"fetched", "tracked"} =>
         status[r] \in {"queued", "cancelled"} /\ base[r] = NoRun
    /\ status[r] = "none" => base[r] = NoRun /\ r \notin stranded
    /\ r \in stranded => ~Working(r) /\ job[r] # "available"

(* The baseline of the run being worked is the model that is pinned still,  *)
(* so what it beats is what it replaces.                                   *)
Seen ==
  \A r \in Runs : Working(r) =>
    /\ base[r] \in {NoRun, pinned}
    /\ status[r] = "succeeded" => baseline[r] \in {NoRun, pinned}
    /\ pc[r] = "pinning" => status[r] = "succeeded" /\ (pinned = NoRun \/ Beats(r))

Unaided == admin = 0 => Fresh /\ (pins = 0 => Seen)

LEMMA InitSingle == Init => Single /\ Unaided
BY DEF Init, Single, Unaided, Fresh, Seen, Working

(* What a step does to the other runs, when it is about one. *)
Others(r) ==
  \A s \in Runs \ {r} :
    /\ pc'[s] = pc[s] /\ job'[s] = job[s] /\ base'[s] = base[s]
    /\ status'[s] = status[s] /\ baseline'[s] = baseline[s]
    /\ s \in stranded' <=> s \in stranded

LEMMA SingleStep ==
  ASSUME Single, NEW r \in Runs, Others(r),
         Working(r) \/ (\A s \in Runs : ~Working(s)) \/ ~Working(r)'
  PROVE  Single'
<1>1. \A s \in Runs \ {r} : Working(s)' <=> Working(s)
  BY DEF Others, Working
<1>2. Working(r)' => \A s \in Runs \ {r} : ~Working(s)
  BY DEF Single
<1>3. QED BY <1>1, <1>2 DEF Single

(* A step that does not touch what they speak of. *)
LEMMA SingleQuiet ==
  ASSUME Single, Unaided, UNCHANGED <<status, baseline, job, pc, base, stranded>>,
         pinned' = pinned \/ pins' # 0, admin' = admin, pins' = pins \/ pins' # 0
  PROVE  Single' /\ Unaided'
<1>1. Single'
  BY DEF Single, Working
<1>2. Fresh => Fresh'
  BY DEF Fresh, Working
<1>3. pinned' = pinned => (Seen => Seen')
  BY DEF Seen, Working, Beats
<1>4. QED BY <1>1, <1>2, <1>3 DEF Unaided

(* The rest is about a step that changes the goroutine or the row of one    *)
(* run and leaves the pinned model.                                        *)
LEMMA FreshStep ==
  ASSUME Fresh, NEW r \in Runs, Others(r), status'[r] # "none",
         job'[r] = "available" \/ pc'[r] \in {"fetched", "tracked"}
           => status'[r] \in {"queued", "cancelled"} /\ base'[r] = NoRun,
         r \in stranded' => ~Working(r)' /\ job'[r] # "available"
  PROVE  Fresh'
BY DEF Fresh, Others, Working

LEMMA SeenStep ==
  ASSUME Seen, NEW r \in Runs, Others(r), pinned' = pinned,
         Working(r)' =>
           /\ base'[r] \in {NoRun, pinned}
           /\ status'[r] = "succeeded" => baseline'[r] \in {NoRun, pinned}
           /\ pc'[r] = "pinning" =>
                status'[r] = "succeeded" /\ (pinned = NoRun \/ Beats(r)')
  PROVE  Seen'
BY DEF Seen, Others, Working, Beats

LEMMA StartSingle ==
  ASSUME TypeOK, Attended, Single, Unaided, StartStep
  PROVE  Single' /\ Unaided'
<1>1. ASSUME NEW who \in Triggers, Lock(who) \/ Rollback(who) PROVE Single' /\ Unaided'
  BY <1>1, SingleQuiet DEF Lock, Rollback, apiVars, noteVars
<1>2. ASSUME NEW who \in Triggers, NEW r \in Runs, QueueRun(who, r) PROVE Single' /\ Unaided'
  <2>1. /\ Others(r) /\ status[r] = "none" /\ status'[r] = "queued"
        /\ UNCHANGED <<pc, base, baseline, pinned, stranded, pins, admin>>
    BY <1>2 DEF QueueRun, Others, TypeOK, apiVars, noteVars
  <2>2. ~Working(r) /\ ~Working(r)'
    BY <2>1 DEF Attended, Created, Working
  <2>3. Single'
    BY <2>1, <2>2, SingleStep
  <2>4. Fresh => base'[r] = NoRun /\ r \notin stranded'
    BY <2>1 DEF Fresh
  <2>5. Fresh => Fresh'
    BY <2>1, <2>4, FreshStep
  <2>6. Seen => Seen'
    BY <2>1, <2>2, SeenStep
  <2>7. QED BY <2>1, <2>3, <2>5, <2>6 DEF Unaided
<1>3. QED BY <1>1, <1>2 DEF StartStep

LEMMA PersonSingle ==
  ASSUME TypeOK, Single, Unaided, NEW r \in Runs, PersonStep(r)
  PROVE  Single' /\ Unaided'
<1>1. CASE CancelTraining(r)
  <2>1. /\ \A s \in Runs \ {r} : status'[s] = status[s]
        /\ status[r] # "succeeded" /\ status'[r] = "cancelled"
        /\ UNCHANGED <<pc, job, base, baseline, pinned, stranded, pins, admin>>
    BY <1>1 DEF CancelTraining, TypeOK, Active, noteVars
  <2>2. Single'
    BY <2>1 DEF Single, Working
  <2>3. Fresh => Fresh'
    BY <2>1 DEF Fresh, Working
  <2>4. Seen => Seen'
    BY <2>1 DEF Seen, Working, Beats
  <2>5. QED BY <2>1, <2>2, <2>3, <2>4 DEF Unaided
<1>2. CASE Stop(r) \/ PinModel(r)
  BY <1>2, SingleQuiet DEF Stop, PinModel, TypeOK, dbVars, apiVars, noteVars
<1>3. CASE CancelJob(r) \/ RetryJob(r)
  <2>1. UNCHANGED pc /\ admin' # 0
    BY <1>3 DEF CancelJob, RetryJob, TypeOK, apiVars
  <2>2. Single'
    BY <2>1 DEF Single, Working
  <2>3. QED BY <2>1, <2>2 DEF Unaided
<1>4. QED BY <1>1, <1>2, <1>3 DEF PersonStep

(* A goroutine that returns is no longer spoken of. *)
LEMMA ReturnSingle ==
  ASSUME TypeOK, Single, Unaided, NEW r \in Runs, NEW outcome, Return(r, outcome),
         outcome # "available", status'[r] # "none",
         UNCHANGED <<base, baseline, admin, pins>>,
         \A s \in Runs \ {r} : status'[s] = status[s] /\ (s \in stranded' <=> s \in stranded),
         pinned' = pinned \/ Working(r)
  PROVE  Single' /\ Unaided'
<1>1. Others(r) /\ pc'[r] = "idle" /\ job'[r] = outcome
  BY DEF Return, Go, Others, TypeOK
<1>2. ~Working(r)'
  BY <1>1 DEF Working
<1>3. Single'
  BY <1>1, <1>2, SingleStep
<1>4. Fresh => Fresh'
  BY <1>1, <1>2, FreshStep
<1>5. Seen => Seen'
  <2>1. CASE pinned' = pinned
    BY <1>1, <1>2, <2>1, SeenStep
  <2>2. CASE Working(r)
    <3>1. \A s \in Runs : ~Working(s)'
      BY <1>1, <1>2, <2>2 DEF Single, Others, Working
    <3>2. QED BY <3>1 DEF Seen
  <2>3. QED BY <2>1, <2>2
<1>6. QED BY <1>3, <1>4, <1>5 DEF Unaided

LEMMA JobSingle ==
  ASSUME TypeOK, Local, Attended, Single, Unaided, NEW r \in Runs, JobStep(r) \/ RecordLost(r)
  PROVE  Single' /\ Unaided'
<1>1. CASE Fetch(r)
  <2>1. /\ Others(r) /\ job[r] = "available" /\ \A s \in Runs : ~Working(s)
        /\ pc'[r] = "fetched" /\ job'[r] = "running"
        /\ UNCHANGED <<status, base, baseline, pinned, stranded, pins, admin>>
    BY <1>1 DEF Fetch, Go, Others, TypeOK, noteVars
  <2>2. Single'
    BY <2>1, SingleStep
  <2>3. Fresh => status'[r] \in {"queued", "cancelled"} /\ base'[r] = NoRun /\ r \notin stranded'
    BY <2>1 DEF Fresh
  <2>4. Fresh => Fresh'
    BY <2>1, <2>3, FreshStep
  <2>5. Fresh /\ Seen => Seen'
    BY <2>1, <2>3, SeenStep
  <2>6. QED BY <2>1, <2>2, <2>4, <2>5 DEF Unaided
<1>2. CASE Track(r) \/ GiveUp(r) \/ TaskDone(r) \/ StartRun(r) \/ Offer(r)
  <2>1. /\ Others(r) /\ Working(r) /\ Working(r)'
        /\ UNCHANGED <<job, baseline, pinned, pins, admin>>
        /\ r \in stranded' => r \in stranded
    BY <1>2 DEF Track, GiveUp, TaskDone, StartRun, Offer, Go, Working, Others, TypeOK,
                dbVars, noteVars
  <2>2. /\ job[r] \in {"running", "cancelling"} /\ status[r] # "none"
        /\ Single'
    BY <2>1, SingleStep DEF Attended, Created
  <2>3. Fresh => Fresh'
    <3>1. pc'[r] \in {"fetched", "tracked"} =>
            pc[r] = "fetched" /\ UNCHANGED <<status, base>>
      BY <1>2 DEF Track, GiveUp, TaskDone, StartRun, Offer, Go, TypeOK, dbVars
    <3>2. status'[r] # "none"
      BY <1>2, <2>2 DEF Track, GiveUp, TaskDone, StartRun, Offer, TypeOK, dbVars
    <3>3. Fresh => /\ pc'[r] \in {"fetched", "tracked"} =>
                        status'[r] \in {"queued", "cancelled"} /\ base'[r] = NoRun
                   /\ r \notin stranded'
      BY <2>1, <3>1 DEF Fresh
    <3>4. QED BY <2>1, <2>2, <3>2, <3>3, FreshStep
  <2>4. Seen => Seen'
    <3>1. /\ pc'[r] # "pinning"
          /\ status'[r] = "succeeded" => status[r] = "succeeded"
          /\ base'[r] = base[r] \/ base'[r] \in {NoRun, pinned}
      BY <1>2 DEF Track, GiveUp, TaskDone, StartRun, Offer, Go, TypeOK, dbVars
    <3>2. Seen => /\ base'[r] \in {NoRun, pinned}
                  /\ status'[r] = "succeeded" => baseline'[r] \in {NoRun, pinned}
      BY <2>1, <3>1 DEF Seen
    <3>3. QED BY <2>1, <3>1, <3>2, SeenStep
  <2>5. QED BY <2>1, <2>2, <2>3, <2>4 DEF Unaided
<1>3. CASE CheckCancelled(r) \/ RecordFailure(r) \/ RecordLost(r) \/ AutoPin(r) \/ Pin(r)
  <2>1. Working(r)
    BY <1>3 DEF CheckCancelled, RecordFailure, RecordLost, AutoPin, Pin, Working
  <2>2. job[r] \in {"running", "cancelling"} /\ status[r] # "none" /\ r \in Runs
    BY <2>1 DEF Attended, Created
  <2>3. /\ UNCHANGED <<base, baseline, pins, admin>>
        /\ \A s \in Runs \ {r} : status'[s] = status[s] /\ (s \in stranded' <=> s \in stranded)
        /\ status'[r] # "none"
    BY <1>3, <2>2 DEF CheckCancelled, RecordFailure, RecordLost, AutoPin, Pin, TypeOK, noteVars
  <2>4. ASSUME NEW outcome, Return(r, outcome), outcome # "available"
        PROVE  Single' /\ Unaided'
    BY <2>1, <2>3, <2>4, ReturnSingle
  <2>5. Failed(r) # "available"
    BY DEF Failed
  <2>6. CASE \/ CheckCancelled(r) /\ Go(r, "recording") /\ UNCHANGED job
             \/ AutoPin(r) /\ Go(r, "pinning") /\ UNCHANGED job
                /\ status[r] = "succeeded" /\ (pinned = NoRun \/ Beats(r))
    <3>1. /\ Others(r) /\ Working(r)' /\ UNCHANGED <<job, status, pinned, stranded>>
          /\ pc'[r] \in {"recording", "pinning"}
          /\ pc'[r] = "pinning" => status[r] = "succeeded" /\ (pinned = NoRun \/ Beats(r))
      BY <2>6 DEF CheckCancelled, AutoPin, Go, Others, Working, TypeOK, noteVars
    <3>2. Single'
      BY <2>1, <3>1, SingleStep
    <3>3. Fresh => r \notin stranded'
      BY <2>1, <3>1 DEF Fresh
    <3>4. Fresh => Fresh'
      BY <2>2, <2>3, <3>1, <3>3, FreshStep
    <3>5. Beats(r) => Beats(r)'
      BY <2>3 DEF Beats
    <3>6. Seen => /\ base'[r] \in {NoRun, pinned}
                  /\ status'[r] = "succeeded" => baseline'[r] \in {NoRun, pinned}
      BY <2>1, <2>3, <3>1 DEF Seen
    <3>7. Seen => Seen'
      BY <3>1, <3>5, <3>6, SeenStep
    <3>8. QED BY <2>3, <3>2, <3>4, <3>7 DEF Unaided
  <2>7. CASE \/ Return(r, "completed")
             \/ RecordFailure(r) \/ RecordLost(r)
    <3>1. Return(r, "completed") \/ Return(r, Failed(r))
      BY <2>7 DEF RecordFailure, RecordLost
    <3>2. QED BY <2>4, <2>5, <3>1
  <2>8. QED BY <1>3, <2>6, <2>7 DEF CheckCancelled, AutoPin, Pin
<1>4. QED BY <1>1, <1>2, <1>3 DEF JobStep

LEMMA HandlerSingle ==
  ASSUME TypeOK, Local, Single, Unaided, NEW r \in Runs, HandlerStep(r)
  PROVE  Single' /\ Unaided'
<1>1. CASE \/ \E what \in {"training", "evaluating", "finish"} : Report(r, what)
           \/ Signal(r) \/ ReportFails(r)
  BY <1>1, SingleQuiet DEF Report, Signal, ReportFails, dbVars, noteVars
<1>2. CASE SaveProgress(r)
  <2>1. /\ \A s \in Runs : \/ status'[s] = status[s]
                           \/ status[s] \in Started /\ status'[s] \in Started
        /\ UNCHANGED <<job, pc, base, baseline, pinned, stranded, pins, admin>>
    BY <1>2 DEF SaveProgress, TypeOK, Started, noteVars
  <2>2. Single'
    BY <2>1 DEF Single, Working
  <2>3. Fresh => Fresh'
    BY <2>1 DEF Fresh, Started, Working
  <2>4. Seen => Seen'
    BY <2>1 DEF Seen, Working, Beats, Started
  <2>5. QED BY <2>1, <2>2, <2>3, <2>4 DEF Unaided
<1>3. CASE SaveResult(r)
  <2>1. UNCHANGED <<job, pc, base, pinned, stranded, pins, admin>> /\ Others(r)
    BY <1>3 DEF SaveResult, Others, TypeOK, noteVars
  <2>2. CASE UNCHANGED <<status, baseline>>
    BY <2>1, <2>2, SingleQuiet
  <2>3. CASE status[r] \in Started /\ status'[r] = "succeeded" /\ baseline'[r] = base[r]
    <3>1. Single'
      BY <2>1 DEF Single, Working
    <3>2. Fresh => /\ job'[r] # "available" /\ pc'[r] \notin {"fetched", "tracked"}
                   /\ r \in stranded' => ~Working(r)'
      BY <2>1, <2>3 DEF Fresh, Started, Working
    <3>3. Fresh => Fresh'
      BY <2>1, <2>3, <3>2, FreshStep
    <3>4. Fresh => (Working(r) => pc[r] # "pinning")
      BY <2>3 DEF Fresh, Local, NoneAbandoned
    <3>5. Working(r)' => Working(r)
      BY <2>1 DEF Working
    <3>6. Fresh /\ Seen => (Working(r)' => /\ base'[r] \in {NoRun, pinned}
                                           /\ baseline'[r] \in {NoRun, pinned}
                                           /\ pc'[r] # "pinning")
      BY <2>1, <2>3, <3>4, <3>5 DEF Seen
    <3>7. Fresh /\ Seen => Seen'
      BY <2>1, <2>3, <3>6, SeenStep
    <3>8. QED BY <2>1, <3>1, <3>3, <3>7 DEF Unaided
  <2>4. QED BY <1>3, <2>2, <2>3 DEF SaveResult, TypeOK
<1>4. QED BY <1>1, <1>2, <1>3 DEF HandlerStep

LEMMA CrashSingle ==
  ASSUME TypeOK, Single, Unaided, ApiRestarts \/ \E r \in Runs : Rescue(r)
  PROVE  Single' /\ Unaided'
<1>1. CASE ApiRestarts
  <2>1. /\ \A r \in Runs : ~Working(r)' /\ base'[r] = NoRun /\ pc'[r] = "idle"
        /\ \A r \in Runs : \/ status'[r] = status[r]
                           \/ status[r] \in Started /\ status'[r] = "failed"
        /\ stranded' = Forgotten
        /\ UNCHANGED <<job, pins, admin>>
    BY <1>1 DEF ApiRestarts, TypeOK, Working
  <2>2. Single' /\ Seen'
    BY <2>1 DEF Single, Seen
  <2>3. ASSUME Fresh, NEW r \in Runs
        PROVE  /\ job'[r] = "available" => status'[r] \in {"queued", "cancelled"}
               /\ status'[r] = "none" => r \notin stranded'
               /\ r \in stranded' => job'[r] # "available"
    BY <2>1, <2>3 DEF Fresh, Forgotten, Started
  <2>4. Fresh => Fresh'
    BY <2>1, <2>3 DEF Fresh
  <2>5. QED BY <2>1, <2>2, <2>4 DEF Unaided
<1>2. ASSUME NEW r \in Runs, Rescue(r) PROVE Single' /\ Unaided'
  <2>1. /\ Others(r) /\ ~Working(r) /\ ~Working(r)' /\ job'[r] # "available" /\ pc'[r] = "idle"
        /\ UNCHANGED <<pc, base, status, baseline, pinned, stranded, pins, admin>>
    BY <1>2 DEF Rescue, Failed, Others, Working, TypeOK, apiVars, noteVars
  <2>2. Single'
    BY <2>1, SingleStep
  <2>3. Fresh => Fresh'
    BY <2>1 DEF Fresh, Others, Working
  <2>4. Seen => Seen'
    BY <2>1, SeenStep
  <2>5. QED BY <2>1, <2>2, <2>3, <2>4 DEF Unaided
<1>3. QED BY <1>1, <1>2

LEMMA SingleNext ==
  IInv /\ Attended /\ Single /\ Unaided /\ [Next]_vars => Single' /\ Unaided'
<1> SUFFICES ASSUME IInv, Attended, Single, Unaided, [Next]_vars PROVE Single' /\ Unaided'
  OBVIOUS
<1>1. TypeOK /\ Local
  BY DEF IInv, Local
<1>2. CASE UNCHANGED vars
  BY <1>2, SingleQuiet DEF vars, dbVars, apiVars, noteVars
<1>3. CASE Next
  BY <1>1, <1>3, StartSingle, PersonSingle, JobSingle, HandlerSingle, CrashSingle DEF Next
<1>4. QED BY <1>2, <1>3

(* Without a pin by hand and without the admin panel's retries, across any  *)
(* restarts and cancellations, a scheduled run only replaces a pinned model *)
(* that it beats on the same images.                                       *)
THEOREM PinsTheBetter == Spec /\ [](pins = 0 /\ admin = 0) => AutoPinImproves
<1> DEFINE Improves ==
      \A r \in Runs : pc[r] = "pinning" /\ pinned' = r /\ pinned \notin {NoRun, r}
                      => Score[r] > Score[pinned]
<1>1. Unaided /\ pins = 0 /\ admin = 0 => Improves
  <2> SUFFICES ASSUME Unaided, pins = 0, admin = 0, NEW r \in Runs,
                      pc[r] = "pinning", pinned \notin {NoRun, r}
               PROVE  Score[r] > Score[pinned]
    OBVIOUS
  <2>1. Working(r) /\ Seen
    BY DEF Working, Unaided
  <2>2. Beats(r) /\ baseline[r] = pinned
    BY <2>1 DEF Seen, Beats
  <2>3. QED BY <2>2 DEF Beats
<1>2. QED
  BY <1>1, InitSingle, SingleNext, InitAttended, AttendedNext, InvariantHolds, PTL
  DEF Spec, AutoPinImproves

===============================================================================
