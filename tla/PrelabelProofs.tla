---------------------------- MODULE PrelabelProofs ----------------------------
(* Proofs about Prelabel, for any runs, models, frames, requests and bounds. *)
EXTENDS Prelabel, TLAPS

Filled == {"waiting", "reported", "run", "video", "frames", "cleared", "boxed", "ready"}

(* What a save has gathered is empty until the statement that gathers it.   *)
Fresh ==
  /\ at \notin Filled \cup {"failing", "recording"} => listed = {}
  /\ at \notin (Filled \ {"waiting"}) \cup {"failing", "recording"} => dets = {}
  /\ at \notin {"frames", "cleared", "boxed", "ready"} => locked = {}
  /\ at \notin {"cleared", "boxed", "ready"} => cleared = {}
  /\ at \notin {"boxed", "ready"} => covered = {}
  /\ at # "ready" => barred = {}

(* A save holds its run: it runs, and nobody is about to cancel it.         *)
HoldsRun == Saving => status[cur] = "running" /\ Settled(cur)

(* A save holds its video: it was not held out when the row was locked.     *)
HoldsVideo == at \in {"video", "frames", "cleared", "boxed", "ready"} => split # "test"

(* A save holds its frames: they stay unlabeled, and what it read of their  *)
(* boxes and rejections leaves out none that was made since.                *)
HoldsFrames ==
  /\ \A f \in locked : frame[f] = "unlabeled"
  /\ at \in {"boxed", "ready"} => \A f \in locked : On(f, kept) # {} => f \in covered
  /\ at = "ready" => \A d \in rejected : d[1] \in locked => d \in barred

HasRun == at # "idle" => cur \in Runs

(* A request that pins does so for a model, not for classical vision, and   *)
(* whatever is asked for, or runs, is one or the other.                     *)
PinsModel == \A c \in Callers :
  /\ call[c].kind = "pin" => call[c].by \in Models
  /\ call[c].kind # "none" => call[c].by \in Labelers
  /\ call[c].stage # "begun" => call[c].kind # "none"
HasLabeler == \A p \in Runs : status[p] # "none" => labeler[p] \in Labelers
HitsExist == \A c \in Callers, p \in Runs : p \in call[c].hit => status[p] # "none"

RunPart == HasRun /\ HoldsRun /\ RunningIsWorked
LabelPart == HoldsVideo /\ HoldsFrames /\ HeldOutClean /\ DoneIsDecided

IInv == TypeOK /\ PinsModel /\ HasLabeler /\ HitsExist /\ Fresh /\ RunPart /\ LabelPart

LEMMA InitHolds == Init => IInv
<1> SUFFICES ASSUME Init PROVE IInv
  OBVIOUS
<1>1. TypeOK
  BY DEF Init, TypeOK, Idle, Labelers, Statuses
<1>2. Fresh
  BY DEF Init, Fresh
<1>3. RunPart
  BY DEF Init, RunPart, HasRun, HoldsRun, RunningIsWorked, Saving
<1>4. LabelPart
  BY DEF Init, LabelPart, HoldsVideo, HoldsFrames, HeldOutClean, DoneIsDecided
<1>5. PinsModel /\ HasLabeler /\ HitsExist
  BY DEF Init, PinsModel, Idle, HasLabeler, HitsExist
<1>6. QED BY <1>1, <1>2, <1>3, <1>4, <1>5 DEF IInv

-------------------------------------------------------------------------------
(* Requests that pin, start and cancel. *)

Calls == [kind : {"none", "pin", "start"}, by : Labelers \cup {NoModel},
          hit : SUBSET Runs, stage : {"begun", "waiting", "cancelled"}]

(* A step of one request leaves the others, and the request well formed.    *)
LEMMA CallUpdate ==
  ASSUME call \in [Callers -> Calls], NEW c \in Callers, NEW new \in Calls,
         call' = [call EXCEPT ![c] = new]
  PROVE  call' \in [Callers -> Calls]
OBVIOUS

LEMMA CallType ==
  ASSUME TypeOK, PinsModel, CallStep
  PROVE  TypeOK'
<1> USE DEF runVars, labelVars, saveVars, workerVars, noteVars, boundVars
<1>1. ASSUME NEW c \in Callers, NEW m \in Models, BeginPin(c, m) PROVE TypeOK'
  BY <1>1 DEF BeginPin, TypeOK, Idle, Labelers
<1>2. ASSUME NEW c \in Callers, NEW l \in Labelers, BeginStart(c, l) PROVE TypeOK'
  BY <1>2 DEF BeginStart, TypeOK, Idle
<1>3. ASSUME NEW c \in Callers, SeeActive(c) PROVE TypeOK'
  <2> DEFINE hit == {p \in Runs : status[p] \in Active /\ Source(labeler[p]) = Source(call[c].by)}
  <2>1. call' = [call EXCEPT ![c] = [call[c] EXCEPT !.hit = hit, !.stage = "waiting"]]
    BY <1>3 DEF SeeActive, TypeOK
  <2>2. call[c] \in Calls /\ hit \in SUBSET Runs
    BY DEF TypeOK, Calls
  <2> HIDE DEF hit
  <2>3. [call[c] EXCEPT !.hit = hit, !.stage = "waiting"] \in Calls
    BY <2>2 DEF Calls
  <2>4. call' \in [Callers -> Calls]
    BY <2>1, <2>3, CallUpdate DEF TypeOK, Calls
  <2>5. QED BY <1>3, <2>4 DEF SeeActive, TypeOK, Calls
<1>4. ASSUME NEW c \in Callers, CancelActive(c) PROVE TypeOK'
  <2> DEFINE hit == {p \in call[c].hit : status[p] \in Active}
  <2>1. call' = [call EXCEPT ![c] = [call[c] EXCEPT !.hit = hit, !.stage = "cancelled"]]
    BY <1>4 DEF CancelActive, TypeOK
  <2>2. call[c] \in Calls /\ hit \in SUBSET Runs
    BY DEF TypeOK, Calls
  <2> HIDE DEF hit
  <2>3. [call[c] EXCEPT !.hit = hit, !.stage = "cancelled"] \in Calls
    BY <2>2 DEF Calls
  <2>4. call' \in [Callers -> Calls]
    BY <2>1, <2>3, CallUpdate DEF TypeOK, Calls
  <2>5. QED BY <1>4, <2>4 DEF CancelActive, TypeOK, Calls
<1>5. ASSUME NEW c \in Callers, NEW p \in Runs, Commit(c, p) PROVE TypeOK'
  <2>1. call[c] \in Calls
    BY DEF TypeOK, Calls
  <2>2. status' \in [Runs -> Statuses]
    BY <1>5 DEF Commit, TypeOK, Statuses
  <2>3. labeler' \in [Runs -> Labelers \cup {NoModel}]
    BY <1>5, <2>1 DEF Commit, TypeOK, Calls
  <2>4. jobs' \subseteq Runs
    BY <1>5 DEF Commit, TypeOK
  <2>5. pinned' \in Models \cup {NoModel}
    BY <1>5 DEF Commit, TypeOK, PinsModel
  <2>6. call' \in [Callers -> Calls]
    BY <1>5 DEF Commit, TypeOK, Calls, Idle
  <2>7. QED BY <1>5, <2>2, <2>3, <2>4, <2>5, <2>6 DEF Commit, TypeOK, Calls
<1>6. ASSUME NEW c \in Callers, Rollback(c) PROVE TypeOK'
  BY <1>6 DEF Rollback, TypeOK, Idle
<1>7. ASSUME NEW p \in Runs, CancelPrelabel(p) PROVE TypeOK'
  BY <1>7 DEF CancelPrelabel, TypeOK, Statuses
<1>8. QED BY <1>1, <1>2, <1>3, <1>4, <1>5, <1>6, <1>7 DEF CallStep

LEMMA CallPins ==
  ASSUME TypeOK, PinsModel, CallStep
  PROVE  PinsModel'
<1>1. ASSUME NEW c \in Callers, NEW m \in Models, BeginPin(c, m) PROVE PinsModel'
  BY <1>1 DEF BeginPin, Idle, PinsModel, TypeOK, Labelers
<1>2. ASSUME NEW c \in Callers, NEW l \in Labelers, BeginStart(c, l) PROVE PinsModel'
  BY <1>2 DEF BeginStart, Idle, PinsModel, TypeOK
<1>3. ASSUME NEW c \in Callers, SeeActive(c) \/ CancelActive(c) PROVE PinsModel'
  <2>1. /\ \A d \in Callers : call'[d].kind = call[d].kind /\ call'[d].by = call[d].by
        /\ \A d \in Callers \ {c} : call'[d].stage = call[d].stage
    BY <1>3 DEF SeeActive, CancelActive, TypeOK
  <2>2. call[c].kind # "none"
    BY <1>3 DEF SeeActive, CancelActive, PinsModel
  <2>3. QED BY <2>1, <2>2 DEF PinsModel
<1>4. ASSUME NEW c \in Callers, NEW p \in Runs, Commit(c, p) PROVE PinsModel'
  BY <1>4 DEF Commit, Idle, PinsModel, TypeOK
<1>5. ASSUME NEW c \in Callers, Rollback(c) PROVE PinsModel'
  BY <1>5 DEF Rollback, Idle, PinsModel, TypeOK
<1>6. CASE \E p \in Runs : CancelPrelabel(p)
  BY <1>6 DEF CancelPrelabel, PinsModel
<1>7. QED BY <1>1, <1>2, <1>3, <1>4, <1>5, <1>6 DEF CallStep

LEMMA CallLabelers ==
  ASSUME TypeOK, PinsModel, HasLabeler, HitsExist, CallStep
  PROVE  HasLabeler'
<1>1. ASSUME NEW c \in Callers, NEW p \in Runs, Commit(c, p) PROVE HasLabeler'
  BY <1>1 DEF Commit, PinsModel, HasLabeler, HitsExist, TypeOK
<1>2. ASSUME NEW p \in Runs, CancelPrelabel(p) PROVE HasLabeler'
  BY <1>2 DEF CancelPrelabel, HasLabeler, TypeOK, Active
<1>3. CASE UNCHANGED runVars
  BY <1>3 DEF runVars, HasLabeler
<1>4. QED BY <1>1, <1>2, <1>3 DEF CallStep, BeginPin, BeginStart, SeeActive, CancelActive, Rollback

LEMMA CallHits ==
  ASSUME TypeOK, HitsExist, CallStep
  PROVE  HitsExist'
<1>1. \A p \in Runs : status[p] # "none" => status'[p] # "none"
  <2>1. ASSUME NEW c \in Callers, NEW p \in Runs, Commit(c, p)
        PROVE  \A r \in Runs : status[r] # "none" => status'[r] # "none"
    BY <2>1 DEF Commit
  <2>2. ASSUME NEW p \in Runs, CancelPrelabel(p)
        PROVE  \A r \in Runs : status[r] # "none" => status'[r] # "none"
    BY <2>2 DEF CancelPrelabel, TypeOK
  <2>3. QED BY <2>1, <2>2 DEF CallStep, BeginPin, BeginStart, SeeActive, CancelActive,
                              Rollback, runVars
<1>2. \A c \in Callers, p \in Runs :
        p \in call'[c].hit => p \in call[c].hit \/ status[p] # "none"
  <2>1. ASSUME NEW c \in Callers, SeeActive(c) \/ CancelActive(c)
        PROVE  \A d \in Callers, p \in Runs :
                 p \in call'[d].hit => p \in call[d].hit \/ status[p] # "none"
    BY <2>1 DEF SeeActive, CancelActive, TypeOK, Active
  <2>2. ASSUME NEW c \in Callers, NEW new, new.hit = {}, call' = [call EXCEPT ![c] = new]
        PROVE  \A d \in Callers, p \in Runs : p \in call'[d].hit => p \in call[d].hit
    BY <2>2 DEF TypeOK
  <2>3. ASSUME NEW c \in Callers, NEW m \in Models, BeginPin(c, m)
        PROVE  \A d \in Callers, p \in Runs : p \in call'[d].hit => p \in call[d].hit
    <3>1. [Idle EXCEPT !.kind = "pin", !.by = m].hit = {}
      BY DEF Idle
    <3>2. QED BY <2>2, <2>3, <3>1 DEF BeginPin
  <2>4. ASSUME NEW c \in Callers, NEW l \in Labelers, BeginStart(c, l)
        PROVE  \A d \in Callers, p \in Runs : p \in call'[d].hit => p \in call[d].hit
    <3>1. [Idle EXCEPT !.kind = "start", !.by = l].hit = {}
      BY DEF Idle
    <3>2. QED BY <2>2, <2>4, <3>1 DEF BeginStart
  <2>5. ASSUME NEW c \in Callers, Rollback(c) \/ \E p \in Runs : Commit(c, p)
        PROVE  \A d \in Callers, p \in Runs : p \in call'[d].hit => p \in call[d].hit
    BY <2>2, <2>5 DEF Rollback, Commit, Idle
  <2>6. CASE UNCHANGED call
    BY <2>6
  <2>7. QED BY <2>1, <2>3, <2>4, <2>5, <2>6 DEF CallStep, CancelPrelabel
<1>3. QED BY <1>1, <1>2 DEF HitsExist

(* A statement that cancels waits for the run that a save holds, and the    *)
(* save waited for those that had cancelled it.                            *)
LEMMA CallRun ==
  ASSUME TypeOK, RunPart, CallStep
  PROVE  RunPart'
<1> USE DEF Settled
<1>1. UNCHANGED <<at, cur, stranded>>
  BY DEF CallStep, BeginPin, BeginStart, SeeActive, CancelActive, Commit, Rollback,
         CancelPrelabel, workerVars, noteVars
<1>2. ASSUME \A p \in Runs : status'[p] = "running" => status[p] = "running",
             HoldsRun'
      PROVE  RunPart'
  BY <1>1, <1>2 DEF RunPart, HasRun, RunningIsWorked
<1>3. ASSUME UNCHANGED status, NEW c \in Callers,
             \A d \in Callers \ {c} : call'[d] = call[d],
             call'[c].stage # "cancelled"
      PROVE  RunPart'
  <2>1. HoldsRun'
    BY <1>1, <1>3 DEF RunPart, HoldsRun, Saving
  <2>2. QED BY <1>2, <1>3, <2>1
<1>4. ASSUME NEW c \in Callers,
             \/ \E m \in Models : BeginPin(c, m)
             \/ \E l \in Labelers : BeginStart(c, l)
             \/ SeeActive(c)
             \/ Rollback(c)
      PROVE  RunPart'
  <2>1. UNCHANGED status
    BY <1>4 DEF BeginPin, BeginStart, SeeActive, Rollback, runVars
  <2>2. \A d \in Callers \ {c} : call'[d] = call[d]
    BY <1>4 DEF BeginPin, BeginStart, SeeActive, Rollback, TypeOK
  <2>3. call'[c].stage # "cancelled"
    <3>1. CASE SeeActive(c)
      <4>1. call[c] \in Calls /\ c \in DOMAIN call
        BY DEF TypeOK, Calls
      <4>2. call'[c].stage = "waiting"
        BY <3>1, <4>1 DEF SeeActive, Calls
      <4>3. QED BY <4>2
    <3>2. ASSUME NEW new, call' = [call EXCEPT ![c] = new], new.stage = "begun"
          PROVE  call'[c].stage # "cancelled"
      BY <3>2 DEF TypeOK
    <3>3. ASSUME NEW m \in Models, BeginPin(c, m) PROVE call'[c].stage # "cancelled"
      <4>1. [Idle EXCEPT !.kind = "pin", !.by = m].stage = "begun"
        BY DEF Idle
      <4>2. QED BY <3>2, <3>3, <4>1 DEF BeginPin
    <3>4. ASSUME NEW l \in Labelers, BeginStart(c, l) PROVE call'[c].stage # "cancelled"
      <4>1. [Idle EXCEPT !.kind = "start", !.by = l].stage = "begun"
        BY DEF Idle
      <4>2. QED BY <3>2, <3>4, <4>1 DEF BeginStart
    <3>5. CASE Rollback(c)
      BY <3>2, <3>5 DEF Rollback, Idle
    <3>6. QED BY <1>4, <3>1, <3>3, <3>4, <3>5
  <2>4. QED BY <1>3, <2>1, <2>2, <2>3
<1>5. ASSUME NEW c \in Callers, CancelActive(c) PROVE RunPart'
  <2>1. \A d \in Callers \ {c} : call'[d] = call[d]
    BY <1>5 DEF CancelActive, TypeOK
  <2>2. call'[c].hit \subseteq call[c].hit
    BY <1>5 DEF CancelActive, TypeOK
  <2>3. Saving => cur \notin call[c].hit
    BY <1>5 DEF CancelActive
  <2>4. UNCHANGED status
    BY <1>5 DEF CancelActive, runVars
  <2>5. HoldsRun'
    BY <1>1, <2>1, <2>2, <2>3, <2>4 DEF RunPart, HoldsRun, Saving
  <2>6. QED BY <1>2, <2>4, <2>5
<1>6. ASSUME NEW c \in Callers, NEW p \in Runs, Commit(c, p) PROVE RunPart'
  <2>1. \A r \in Runs : status'[r] = IF r = p THEN "queued"
                                     ELSE IF r \in call[c].hit THEN "cancelled" ELSE status[r]
    BY <1>6 DEF Commit
  <2>2. \A d \in Callers \ {c} : call'[d] = call[d]
    BY <1>6 DEF Commit, TypeOK
  <2>3. call'[c].stage # "cancelled"
    BY <1>6 DEF Commit, TypeOK, Idle
  <2>4. Saving => cur \in Runs /\ cur # p /\ cur \notin call[c].hit
    BY <1>6 DEF Commit, RunPart, HasRun, HoldsRun, Saving
  <2>5. HoldsRun'
    BY <1>1, <2>1, <2>2, <2>3, <2>4 DEF RunPart, HoldsRun, Saving
  <2>6. QED BY <1>2, <2>1, <2>5
<1>7. ASSUME NEW p \in Runs, CancelPrelabel(p) PROVE RunPart'
  <2>1. \A r \in Runs : status'[r] = IF r = p THEN "cancelled" ELSE status[r]
    BY <1>7 DEF CancelPrelabel, TypeOK
  <2>2. UNCHANGED call /\ (Saving => cur # p)
    BY <1>7 DEF CancelPrelabel
  <2>3. HoldsRun'
    BY <1>1, <2>1, <2>2 DEF RunPart, HasRun, HoldsRun, Saving
  <2>4. QED BY <1>2, <2>1, <2>3
<1>8. QED BY <1>4, <1>5, <1>6, <1>7 DEF CallStep

-------------------------------------------------------------------------------
(* The goroutine that works a run. *)

LEMMA WorkerType ==
  ASSUME TypeOK, Fresh, HasLabeler, HasRun, HoldsRun, WorkerStep
  PROVE  TypeOK'
<1> USE DEF TypeOK, runVars, labelVars, saveVars, workerVars, noteVars, boundVars
<1>1. ASSUME NEW p \in Runs, Fetch(p) PROVE TypeOK'
  BY <1>1 DEF Fetch
<1>2. CASE ListClips
  <2>1. todo' \subseteq Clips
    BY <1>2 DEF ListClips, Return, Clips
  <2>2. QED BY <1>2, <2>1 DEF ListClips, Return, Forget
<1>3. CASE StartRun
  BY <1>3 DEF StartRun, Return, Forget, Statuses
<1>4. ASSUME NEW k \in Clips, NextClip(k) PROVE TypeOK'
  BY <1>4 DEF NextClip, Fresh, Filled
<1>5. CASE TaskDone
  BY <1>5 DEF TaskDone
<1>6. CASE LockRun
  BY <1>6 DEF LockRun
<1>7. CASE LockVideo
  BY <1>7 DEF LockVideo, Forget
<1>8. CASE LockFrames
  BY <1>8 DEF LockFrames, Fresh
<1>9. CASE ClearOld
  BY <1>9 DEF ClearOld
<1>10. CASE ListBoxes
  BY <1>10 DEF ListBoxes
<1>11. CASE ListRejected
  BY <1>11 DEF ListRejected
<1>12. CASE Save
  <2>1. cur \in Runs
    BY <1>12 DEF Save, HasRun
  <2>2. labeler[cur] \in Labelers
    BY <1>12, <2>1 DEF Save, Saving, HoldsRun, HasLabeler
  <2>3. \A d \in dets : d[1] \in Frames /\ d[2] \in Types
    OBVIOUS
  <2>4. Landing \subseteq Proposals
    BY <2>2, <2>3 DEF Landing, Proposals
  <2>5. QED BY <1>12, <2>4 DEF Save, Forget
<1>13. CASE Finish
  BY <1>13 DEF Finish, Return, Forget, Statuses
<1>14. CASE GiveUp
  BY <1>14 DEF GiveUp, Forget
<1>15. CASE CheckCancelled
  BY <1>15 DEF CheckCancelled, Return, Forget
<1>16. CASE RecordFailure
  BY <1>16 DEF RecordFailure, Return, Forget, Statuses
<1>17. CASE RecordLost
  <2>1. cur \in Runs
    BY <1>17 DEF RecordLost, HasRun
  <2>2. QED BY <1>17, <2>1 DEF RecordLost, Return, Forget
<1>18. QED BY <1>1, <1>2, <1>3, <1>4, <1>5, <1>6, <1>7, <1>8, <1>9, <1>10, <1>11, <1>12,
              <1>13, <1>14, <1>15, <1>16, <1>17 DEF WorkerStep

LEMMA WorkerFresh ==
  ASSUME Fresh, WorkerStep
  PROVE  Fresh'
<1> USE DEF Fresh, Filled, Return, Forget, saveVars, workerVars
<1>1. CASE (\E p \in Runs : Fetch(p)) \/ ListClips \/ StartRun \/ \E k \in Clips : NextClip(k)
  <2>1. CASE \E p \in Runs : Fetch(p)
    BY <2>1 DEF Fetch
  <2>2. CASE ListClips
    BY <2>2 DEF ListClips
  <2>3. CASE StartRun
    BY <2>3 DEF StartRun
  <2>4. CASE \E k \in Clips : NextClip(k)
    BY <2>4 DEF NextClip
  <2>5. QED BY <1>1, <2>1, <2>2, <2>3, <2>4
<1>2. CASE TaskDone \/ LockRun \/ LockVideo \/ LockFrames
  <2>1. CASE TaskDone
    BY <2>1 DEF TaskDone
  <2>2. CASE LockRun
    BY <2>2 DEF LockRun
  <2>3. CASE LockVideo
    BY <2>3 DEF LockVideo
  <2>4. CASE LockFrames
    BY <2>4 DEF LockFrames
  <2>5. QED BY <1>2, <2>1, <2>2, <2>3, <2>4
<1>3. CASE ClearOld \/ ListBoxes \/ ListRejected \/ Save
  BY <1>3 DEF ClearOld, ListBoxes, ListRejected, Save
<1>4. CASE Finish \/ GiveUp \/ CheckCancelled \/ RecordFailure \/ RecordLost
  BY <1>4 DEF Finish, GiveUp, CheckCancelled, RecordFailure,
         RecordLost
<1>5. QED BY <1>1, <1>2, <1>3, <1>4 DEF WorkerStep

(* A step that leaves the runs and the requests alone, and takes up no run. *)
LEMMA KeepsRun ==
  ASSUME RunPart, UNCHANGED <<status, call, cur, stranded>>, at # "idle", at' # "idle",
         at' \notin {"fetched", "listed"} \/ at \in {"fetched", "listed"},
         \/ at' \notin {"run", "video", "frames", "cleared", "boxed", "ready"}
         \/ Saving
         \/ status[cur] = "running" /\ Settled(cur)
  PROVE  RunPart'
<1>1. HoldsRun'
  BY DEF RunPart, HoldsRun, Saving, Settled
<1>2. QED BY <1>1 DEF RunPart, HasRun, RunningIsWorked

(* What the goroutine changes of its run, and that it changes no other.     *)
LEMMA WorkerRun ==
  ASSUME TypeOK, RunPart, WorkerStep
  PROVE  RunPart'
<1> USE DEF RunPart, HasRun, RunningIsWorked, runVars, saveVars, workerVars, noteVars, Return
<1>2. ASSUME at' = "idle", \A p \in Runs : status'[p] = "running" => p \in stranded'
      PROVE  RunPart'
  BY <1>2 DEF HoldsRun, Saving
<1>3. ASSUME NEW p \in Runs, Fetch(p) PROVE RunPart'
  BY <1>3 DEF Fetch, HoldsRun, Saving
<1>4. CASE ListClips
  BY <1>2, <1>4, KeepsRun DEF ListClips
<1>5. CASE StartRun
  <2>1. CASE status[cur] = "queued"
    <3>1. \A p \in Runs \ {cur} : status'[p] = status[p]
      BY <1>5, <2>1 DEF StartRun, TypeOK
    <3>2. QED BY <1>5, <2>1, <3>1 DEF StartRun, HoldsRun, Saving
  <2>2. CASE status[cur] # "queued"
    BY <1>2, <1>5, <2>2 DEF StartRun
  <2>3. QED BY <2>1, <2>2
<1>6. CASE (\E k \in Clips : NextClip(k)) \/ TaskDone \/ GiveUp
  BY <1>6, KeepsRun DEF NextClip, TaskDone, GiveUp
<1>7. CASE LockRun \/ LockVideo \/ LockFrames \/ ClearOld \/ ListBoxes \/ ListRejected \/ Save
  <2>1. CASE LockRun
    BY <2>1, KeepsRun DEF LockRun
  <2>2. CASE LockVideo \/ LockFrames \/ ClearOld
    <3>1. UNCHANGED <<status, call, cur, stranded>> /\ Saving
      BY <2>2 DEF LockVideo, LockFrames, ClearOld, Saving
    <3>2. at # "idle" /\ at' # "idle" /\ at' \notin {"fetched", "listed"}
      BY <2>2 DEF LockVideo, LockFrames, ClearOld
    <3>3. QED BY <3>1, <3>2, KeepsRun DEF Saving
  <2>3. CASE ListBoxes \/ ListRejected \/ Save
    <3>1. UNCHANGED <<status, call, cur, stranded>> /\ Saving
      BY <2>3 DEF ListBoxes, ListRejected, Save, Saving
    <3>2. at # "idle" /\ at' # "idle" /\ at' \notin {"fetched", "listed"}
      BY <2>3 DEF ListBoxes, ListRejected, Save
    <3>3. QED BY <3>1, <3>2, KeepsRun DEF Saving
  <2>4. QED BY <1>7, <2>1, <2>2, <2>3
<1>8. CASE Finish \/ RecordFailure
  <2>1. \A p \in Runs \ {cur} : status'[p] = status[p]
    BY <1>8 DEF Finish, RecordFailure, TypeOK
  <2>2. cur \in Runs /\ status'[cur] # "running"
    BY <1>8 DEF Finish, RecordFailure, TypeOK, Active
  <2>3. QED BY <1>2, <1>8, <2>1, <2>2 DEF Finish, RecordFailure
<1>9. CASE CheckCancelled
  BY <1>2, <1>9, KeepsRun DEF CheckCancelled
<1>10. CASE RecordLost
  BY <1>2, <1>10 DEF RecordLost
<1>11. QED BY <1>3, <1>4, <1>5, <1>6, <1>7, <1>8, <1>9, <1>10 DEF WorkerStep

LEMMA WorkerLabelers ==
  ASSUME TypeOK, HasRun, PinsModel, HasLabeler, HitsExist, WorkerStep
  PROVE  PinsModel' /\ HasLabeler' /\ HitsExist'
<1>1. UNCHANGED <<labeler, call>>
  BY DEF WorkerStep, runVars,
         Fetch, ListClips, StartRun, NextClip, TaskDone, LockRun, LockVideo, LockFrames,
         ClearOld, ListBoxes, ListRejected, Save, Finish, GiveUp, CheckCancelled, RecordFailure,
         RecordLost
<1>2. \A p \in Runs : status'[p] # "none" <=> status[p] # "none"
  <2>1. CASE StartRun \/ Finish \/ RecordFailure
    BY <2>1 DEF StartRun, Finish, RecordFailure, HasRun, TypeOK, Active
  <2>2. CASE UNCHANGED status
    BY <2>2
  <2>3. QED BY <2>1, <2>2
    DEF WorkerStep, runVars,
         Fetch, ListClips, StartRun, NextClip, TaskDone, LockRun, LockVideo, LockFrames,
         ClearOld, ListBoxes, ListRejected, Save, Finish, GiveUp, CheckCancelled, RecordFailure,
         RecordLost
<1>3. QED BY <1>1, <1>2 DEF PinsModel, HasLabeler, HitsExist

(* Each statement of a save finds what it says it found, and what the       *)
(* statements before it found is still so.                                 *)
LEMMA WorkerLabel ==
  ASSUME TypeOK, Fresh, LabelPart, WorkerStep
  PROVE  LabelPart'
<1> USE DEF LabelPart, HoldsVideo, HoldsFrames, HeldOutClean, DoneIsDecided, Forget, Fresh, Filled
<1>1. ASSUME UNCHANGED <<split, labelVars>>, locked' = {},
             at' \notin {"video", "frames", "cleared", "boxed", "ready"}
      PROVE  LabelPart'
  BY <1>1 DEF labelVars
<1>2. CASE (\E p \in Runs : Fetch(p)) \/ ListClips \/ StartRun \/ \E k \in Clips : NextClip(k)
  BY <1>1, <1>2 DEF Fetch, ListClips, StartRun, NextClip, Return, saveVars
<1>3. CASE TaskDone \/ LockRun
  BY <1>1, <1>3 DEF TaskDone, LockRun, saveVars
<1>4. CASE LockVideo
  BY <1>4 DEF LockVideo, labelVars, saveVars
<1>5. CASE LockFrames
  BY <1>5 DEF LockFrames, labelVars
<1>6. CASE ClearOld
  BY <1>6 DEF ClearOld, labelVars
<1>7. CASE ListBoxes
  <2>1. \A f \in locked : On(f, kept) # {} => f \in covered'
    BY <1>7 DEF ListBoxes, On
  <2>2. QED BY <1>7, <2>1 DEF ListBoxes, labelVars
<1>8. CASE ListRejected
  BY <1>8 DEF ListRejected, labelVars
<1>9. CASE Save
  <2>1. split # "test" /\ UNCHANGED <<split, frame, kept, rejected>> /\ locked' = {} /\ at' = "clips"
    BY <1>9 DEF Save
  <2>2. \A b \in open' : b \in open \/ frame[b[1]] = "unlabeled"
    BY <1>9 DEF Save, Landing
  <2>3. DoneIsDecided'
    <3>1. SUFFICES ASSUME NEW f \in Frames, frame'[f] = "labeled", NEW b \in open', b[1] = f
                   PROVE  FALSE
      BY DEF On
    <3>2. b \in open /\ frame[f] = "labeled"
      BY <2>1, <2>2, <3>1
    <3>3. QED BY <3>1, <3>2 DEF On
  <2>4. QED BY <2>1, <2>3
<1>10. CASE Finish \/ GiveUp \/ CheckCancelled \/ RecordFailure \/ RecordLost
  BY <1>1, <1>10 DEF Finish, GiveUp, CheckCancelled, RecordFailure, RecordLost, Return, saveVars
<1>11. QED BY <1>2, <1>3, <1>4, <1>5, <1>6, <1>7, <1>8, <1>9, <1>10 DEF WorkerStep

-------------------------------------------------------------------------------
(* Labelers, splits, and a restart. *)

LEMMA LabelType ==
  ASSUME TypeOK, LabelStep
  PROVE  TypeOK'
<1> USE DEF TypeOK, Edit, runVars, labelVars, saveVars, workerVars, noteVars, boundVars
<1>1. ASSUME NEW f \in Frames, NEW t \in Types, Draw(f, t) PROVE TypeOK'
  BY <1>1 DEF Draw
<1>2. ASSUME NEW b \in open, Keep(b) PROVE TypeOK'
  <2>1. Box(b) \in Frames \X (Labelers \cup {Person}) \X Types /\ b[1] \in Frames
    BY DEF Box, Proposals
  <2>2. QED BY <1>2, <2>1 DEF Keep
<1>3. ASSUME NEW b \in open, Reject(b) PROVE TypeOK'
  <2>1. <<b[1], b[4]>> \in Frames \X Types
    BY DEF Proposals
  <2>2. QED BY <1>3, <2>1 DEF Reject
<1>4. ASSUME NEW b \in open, NEW t \in Types, UpdateTrack(Clip[b[1]], b, t) PROVE TypeOK'
  <2>1. PICK track \in SUBSET open :
          /\ rejected' = rejected \cup {<<x[1], x[4]>> : x \in track} \/ UNCHANGED rejected
          /\ open' = (open \ track) \cup {Retyped(x, t) : x \in track}
          /\ edited' = (edited \ track) \cup {Retyped(x, t) : x \in track}
    BY <1>4 DEF UpdateTrack
  <2>2. \A x \in track : <<x[1], x[4]>> \in Frames \X Types /\ Retyped(x, t) \in Proposals
    BY <2>1 DEF Retyped, Proposals
  <2>3. rejected' \subseteq Frames \X Types
    BY <2>1, <2>2
  <2>4. open' \subseteq Proposals /\ edited' \subseteq open'
    <3> DEFINE new == {Retyped(x, t) : x \in track}
    <3>1. new \subseteq Proposals
      <4>1. SUFFICES ASSUME NEW x \in track PROVE Retyped(x, t) \in Proposals
        OBVIOUS
      <4>2. QED BY <2>2
    <3>2. open' = (open \ track) \cup new /\ edited' = (edited \ track) \cup new
      BY <2>1
    <3> HIDE DEF new
    <3>3. QED BY <3>1, <3>2
  <2>5. UNCHANGED <<runVars, split, frame, kept, call, counted, workerVars, stranded>>
    BY <1>4 DEF UpdateTrack
  <2>6. QED BY <2>3, <2>4, <2>5
<1>5. ASSUME NEW f \in Frames, MarkDone(f) PROVE TypeOK'
  <2>1. \A b \in On(f, open) : Box(b) \in Frames \X (Labelers \cup {Person}) \X Types
    BY DEF On, Box, Proposals
  <2>2. QED BY <1>5, <2>1 DEF MarkDone, On
<1>6. ASSUME NEW f \in Frames, MarkUnlabeled(f) PROVE TypeOK'
  BY <1>6 DEF MarkUnlabeled
<1>7. ASSUME NEW f \in Frames, CountBoxes(f) \/ MarkEmpty(f) PROVE TypeOK'
  BY <1>7 DEF CountBoxes, MarkEmpty
<1>8. ASSUME NEW b \in kept, Delete(b) PROVE TypeOK'
  BY <1>8 DEF Delete
<1>9. QED BY <1>1, <1>2, <1>3, <1>4, <1>5, <1>6, <1>7, <1>8 DEF LabelStep

(* A person proposes nothing: what is open on a frame was open on it before. *)
LEMMA LabelOpen ==
  ASSUME LabelStep
  PROVE  \A b \in open' : \E a \in open : Box(a) = Box(b) /\ a[1] = b[1]
<1>1. ASSUME NEW b \in open, NEW t \in Types, UpdateTrack(Clip[b[1]], b, t)
      PROVE  \A c \in open' : \E a \in open : Box(a) = Box(c) /\ a[1] = c[1]
  <2>1. PICK track \in SUBSET open : open' = (open \ track) \cup {Retyped(x, t) : x \in track}
    BY <1>1 DEF UpdateTrack
  <2>2. \A x \in track : Box(Retyped(x, t)) = Box(x) /\ Retyped(x, t)[1] = x[1]
    BY DEF Retyped, Box
  <2>3. QED BY <2>1, <2>2
<1>2. CASE open' \subseteq open
  BY <1>2
<1>3. QED BY <1>1, <1>2 DEF LabelStep, Draw, Keep, Reject, Delete, MarkDone, MarkUnlabeled,
                            CountBoxes, MarkEmpty, labelVars

(* A labeler waits for a save at the frames the save locked. *)
LEMMA LabelLabel ==
  ASSUME TypeOK, LabelPart, LabelStep
  PROVE  LabelPart'
<1> USE DEF LabelPart, On
<1>1. UNCHANGED <<split, at, locked, covered, barred>>
  BY DEF LabelStep, Draw, Keep, Reject, Delete, UpdateTrack, MarkDone, MarkUnlabeled, CountBoxes, MarkEmpty,
         labelVars, workerVars, saveVars
<1>2. \A b \in open' : \E a \in open : a[1] = b[1]
  BY LabelOpen
<1>3. \A g \in locked : frame'[g] = frame[g]
  BY DEF LabelStep, Draw, Keep, Reject, Delete, UpdateTrack, MarkDone, MarkUnlabeled, CountBoxes, MarkEmpty,
         labelVars, TypeOK
<1>4. \A b \in kept' \ kept : b[1] \notin locked
  <2>1. ASSUME NEW f \in Frames, NEW t \in Types, Draw(f, t)
        PROVE  \A b \in kept' \ kept : b[1] \notin locked
    BY <2>1 DEF Draw
  <2>2. ASSUME NEW a \in open, Keep(a) PROVE \A b \in kept' \ kept : b[1] \notin locked
    BY <2>2 DEF Keep, Box
  <2>3. ASSUME NEW f \in Frames, MarkDone(f) PROVE \A b \in kept' \ kept : b[1] \notin locked
    BY <2>3 DEF MarkDone, Box
  <2>4. CASE kept' \subseteq kept
    BY <2>4
  <2>5. QED BY <2>1, <2>2, <2>3, <2>4 DEF LabelStep, Reject, Delete, UpdateTrack, MarkUnlabeled,
                                          CountBoxes, MarkEmpty, labelVars
<1>5. \A d \in rejected' \ rejected : d[1] \notin locked
  <2>1. ASSUME NEW b \in open, Reject(b)
        PROVE  \A d \in rejected' \ rejected : d[1] \notin locked
    BY <2>1 DEF Reject
  <2>2. ASSUME NEW b \in open, NEW t \in Types, UpdateTrack(Clip[b[1]], b, t)
        PROVE  \A d \in rejected' \ rejected : d[1] \notin locked
    BY <2>2 DEF UpdateTrack
  <2>3. CASE UNCHANGED rejected
    BY <2>3
  <2>4. QED BY <2>1, <2>2, <2>3 DEF LabelStep, Draw, Keep, Delete, MarkDone, MarkUnlabeled,
                                    CountBoxes, MarkEmpty, labelVars
<1>6. HoldsVideo' /\ HoldsFrames'
  BY <1>1, <1>3, <1>4, <1>5 DEF HoldsVideo, HoldsFrames
<1>7. HeldOutClean'
  BY <1>1, <1>2 DEF HeldOutClean
<1>8. DoneIsDecided'
  <2>1. ASSUME NEW f \in Frames, MarkDone(f) PROVE DoneIsDecided'
    <3>1. \A b \in open' : b \in open /\ b[1] # f
      BY <2>1 DEF MarkDone
    <3>2. \A g \in Frames : g # f => frame'[g] = frame[g]
      BY <2>1 DEF MarkDone, TypeOK
    <3>3. QED BY <3>1, <3>2 DEF DoneIsDecided
  <2>2. ASSUME \A g \in Frames : frame'[g] = "labeled" => frame[g] = "labeled"
        PROVE  DoneIsDecided'
    BY <1>2, <2>2 DEF DoneIsDecided
  <2>3. ASSUME NEW f \in Frames, NEW t \in Types, Draw(f, t) PROVE DoneIsDecided'
    BY <2>2, <2>3 DEF Draw, TypeOK
  <2>4. ASSUME NEW b \in open, Keep(b) PROVE DoneIsDecided'
    BY <2>2, <2>4 DEF Keep, TypeOK
  <2>5. ASSUME NEW f \in Frames, MarkUnlabeled(f) \/ MarkEmpty(f) PROVE DoneIsDecided'
    BY <2>2, <2>5 DEF MarkUnlabeled, MarkEmpty, TypeOK
  <2>6. CASE UNCHANGED frame
    BY <2>2, <2>6
  <2>7. QED BY <2>1, <2>3, <2>4, <2>5, <2>6 DEF LabelStep, Reject, Delete, UpdateTrack, CountBoxes,
                                                labelVars
<1>9. QED BY <1>6, <1>7, <1>8

LEMMA RestLabel ==
  ASSUME TypeOK, Fresh, LabelPart, HoldOut \/ TakeBack \/ ApiRestarts
  PROVE  LabelPart'
<1> USE DEF LabelPart, HoldsVideo, HoldsFrames, HeldOutClean, DoneIsDecided, On, labelVars,
            workerVars, saveVars
<1>1. CASE HoldOut
  BY <1>1 DEF HoldOut, Fresh
<1>2. CASE TakeBack
  BY <1>2 DEF TakeBack
<1>3. CASE ApiRestarts
  BY <1>3 DEF ApiRestarts, Return, Forget
<1>4. QED BY <1>1, <1>2, <1>3

LEMMA RestType ==
  ASSUME TypeOK, HoldOut \/ TakeBack \/ ApiRestarts
  PROVE  TypeOK'
<1> USE DEF TypeOK, runVars, labelVars, saveVars, workerVars, noteVars, boundVars
<1>1. CASE HoldOut \/ TakeBack
  BY <1>1 DEF HoldOut, TakeBack, Edit
<1>2. CASE ApiRestarts
  BY <1>2 DEF ApiRestarts, Return, Forget, Idle, Statuses
<1>3. QED BY <1>1, <1>2

(* Boot fails the runs that were at work, with the goroutine gone. *)
LEMMA RestartRun ==
  ASSUME TypeOK, PinsModel, HasLabeler, HitsExist, ApiRestarts
  PROVE  Fresh' /\ RunPart' /\ PinsModel' /\ HasLabeler' /\ HitsExist'
<1> USE DEF ApiRestarts
<1>1. at' = "idle" /\ Forget
  BY DEF Return
<1>2. \A p \in Runs : /\ status'[p] # "running"
                      /\ status'[p] # "none" <=> status[p] # "none"
  OBVIOUS
<1>3. Fresh'
  BY <1>1 DEF Fresh, Forget, Filled
<1>4. RunPart'
  BY <1>1, <1>2 DEF RunPart, HasRun, HoldsRun, Saving, RunningIsWorked
<1>5. PinsModel' /\ HitsExist'
  BY DEF PinsModel, HitsExist, Idle
<1>6. HasLabeler'
  BY <1>2 DEF HasLabeler
<1>7. QED BY <1>3, <1>4, <1>5, <1>6

(* What a step that leaves the runs, the requests and the worker alone      *)
(* keeps.                                                                  *)
LEMMA KeepsRest ==
  ASSUME Fresh, RunPart, PinsModel, HasLabeler, HitsExist,
         UNCHANGED <<runVars, call, workerVars, stranded>>
  PROVE  Fresh' /\ RunPart' /\ PinsModel' /\ HasLabeler' /\ HitsExist'
<1> USE DEF runVars, workerVars, saveVars
<1>1. Fresh'
  BY DEF Fresh
<1>2. RunPart'
  BY DEF RunPart, HasRun, HoldsRun, Saving, Settled, RunningIsWorked
<1>3. PinsModel' /\ HasLabeler' /\ HitsExist'
  BY DEF PinsModel, HasLabeler, HitsExist
<1>4. QED BY <1>1, <1>2, <1>3

(* What a step that leaves the worker, the labels and the video alone       *)
(* keeps.                                                                  *)
LEMMA KeepsLabel ==
  ASSUME Fresh, LabelPart, UNCHANGED <<split, labelVars, workerVars>>
  PROVE  Fresh' /\ LabelPart'
<1> USE DEF labelVars, workerVars, saveVars
<1>1. Fresh'
  BY DEF Fresh
<1>2. LabelPart'
  BY DEF LabelPart, HoldsVideo, HoldsFrames, HeldOutClean, DoneIsDecided
<1>3. QED BY <1>1, <1>2

-------------------------------------------------------------------------------
(* IInv is inductive. *)

LEMMA InvStep ==
  ASSUME IInv, Next
  PROVE  IInv'
<1> USE DEF IInv
<1>1. CASE CallStep
  <2>1. UNCHANGED <<split, labelVars, workerVars>>
    BY <1>1 DEF CallStep, BeginPin, BeginStart, SeeActive, CancelActive, Commit, Rollback,
                CancelPrelabel
  <2>2. QED BY <1>1, <2>1, CallType, CallPins, CallLabelers, CallHits, CallRun, KeepsLabel
<1>2. CASE WorkerStep
  <2>1. HasRun /\ HoldsRun
    BY DEF RunPart
  <2>2. QED BY <1>2, <2>1, WorkerType, WorkerFresh, WorkerRun, WorkerLabelers, WorkerLabel
<1>3. CASE LabelStep
  <2>1. UNCHANGED <<runVars, call, workerVars, stranded>>
    BY <1>3 DEF LabelStep, Draw, Keep, Reject, Delete, UpdateTrack, MarkDone, MarkUnlabeled, CountBoxes,
                MarkEmpty, Edit, noteVars
  <2>2. QED BY <1>3, <2>1, LabelType, LabelLabel, KeepsRest
<1>4. CASE HoldOut \/ TakeBack
  <2>1. UNCHANGED <<runVars, call, workerVars, stranded>>
    BY <1>4 DEF HoldOut, TakeBack, Edit
  <2>2. QED BY <1>4, <2>1, RestType, RestLabel, KeepsRest
<1>5. CASE ApiRestarts
  BY <1>5, RestType, RestLabel, RestartRun
<1>6. QED BY <1>1, <1>2, <1>3, <1>4, <1>5 DEF Next

LEMMA InvStutter ==
  ASSUME IInv, UNCHANGED vars
  PROVE  IInv'
<1> USE DEF IInv, vars
<1>1. TypeOK'
  BY DEF TypeOK, runVars, labelVars, workerVars, saveVars, noteVars, boundVars
<1>2. UNCHANGED stranded
  BY DEF noteVars
<1>3. QED BY <1>1, <1>2, KeepsRest, KeepsLabel

(* IInv holds in every reachable state. *)
THEOREM Inductive == Spec => []IInv
<1>1. IInv /\ [Next]_vars => IInv'
  BY InvStep, InvStutter
<1>2. QED BY InitHolds, <1>1, PTL DEF Spec

(* Every variable keeps its type: an open proposal is some labeler's, a     *)
(* given class only ever marks an open proposal, and a save deletes and     *)
(* reads nothing outside the frames it locked.                             *)
THEOREM TypeCorrect == Spec => []TypeOK
BY Inductive, PTL DEF IInv

(* However many runs, requests and restarts there are, a run that says it   *)
(* is running is the one the worker is at, or one whose failure could not   *)
(* be recorded since the API started: no other is left behind running.     *)
THEOREM RunningWorked == Spec => []RunningIsWorked
<1>1. IInv => RunningIsWorked
  BY DEF IInv, RunPart
<1>2. QED BY Inductive, <1>1, PTL

(* A video held out in the middle of a save, or between two, has no         *)
(* proposals for as long as it is held out.                                *)
THEOREM HeldOutStaysClean == Spec => []HeldOutClean
<1>1. IInv => HeldOutClean
  BY DEF IInv, LabelPart
<1>2. QED BY Inductive, <1>1, PTL

(* No save puts a proposal on a frame that a labeler marked done while the  *)
(* worker looked at it.                                                    *)
THEOREM DoneStaysDecided == Spec => []DoneIsDecided
<1>1. IInv => DoneIsDecided
  BY DEF IInv, LabelPart
<1>2. QED BY Inductive, <1>1, PTL

(* Only a save adds proposals, where nothing it looked for was found. *)
LEMMA OnlySavesLand ==
  ASSUME IInv, Next, NEW b \in Landed
  PROVE  /\ at = "ready" /\ at' = "clips"
         /\ b[1] \in locked \ covered
         /\ <<b[1], b[3]>> \notin barred
         /\ b[2] = labeler[cur]
<1>1. CASE Save
  <2>1. b \in Landing
    BY <1>1 DEF Save, Landed
  <2>2. PICK d \in dets \ barred :
          d[1] \in locked \ covered /\ b = <<d[1], labeler[cur], d[2], d[2]>>
    BY <2>1 DEF Landing
  <2>3. d = <<d[1], d[2]>>
    BY DEF IInv, TypeOK
  <2>4. QED BY <1>1, <2>2, <2>3 DEF Save
<1>2. CASE LabelStep
  <2>1. UNCHANGED at
    BY <1>2 DEF LabelStep, Draw, Keep, Reject, Delete, UpdateTrack, MarkDone, MarkUnlabeled,
                CountBoxes, MarkEmpty, workerVars
  <2>2. QED BY <1>2, <2>1, LabelOpen DEF Landed
<1>3. CASE ~Save /\ ~LabelStep
  <2>1. ~(at = "ready" /\ at' = "clips")
    BY <1>3 DEF Next, CallStep, WorkerStep, BeginPin, BeginStart, SeeActive,
                CancelActive, Commit, Rollback, CancelPrelabel, HoldOut, TakeBack, ApiRestarts,
                Return, Fetch, ListClips, StartRun, NextClip, TaskDone, LockRun, LockVideo,
                LockFrames, ClearOld, ListBoxes, ListRejected, Finish, GiveUp, CheckCancelled,
                RecordFailure, RecordLost, workerVars
  <2>2. open' \subseteq open
    BY <1>3 DEF Next, CallStep, WorkerStep, BeginPin, BeginStart, SeeActive,
                CancelActive, Commit, Rollback, CancelPrelabel, HoldOut, TakeBack, ApiRestarts,
                Fetch, ListClips, StartRun, NextClip, TaskDone, LockRun, LockVideo,
                LockFrames, ClearOld, ListBoxes, ListRejected, Finish, GiveUp, CheckCancelled,
                RecordFailure, RecordLost, labelVars
  <2>3. QED BY <2>1, <2>2 DEF Landed
<1>4. QED BY <1>1, <1>2, <1>3

LEMMA StutterLands ==
  ASSUME UNCHANGED vars
  PROVE  Landed = {}
<1>1. UNCHANGED <<at, open>>
  BY DEF vars, labelVars, workerVars
<1>2. ~(at = "ready" /\ at' = "clips")
  BY <1>1
<1>3. QED BY <1>1, <1>2 DEF Landed

(* A proposal appears only while its run runs, so none appears once a       *)
(* cancellation has returned.                                              *)
THEOREM LandsInItsRun == Spec => LandsWhileRunning
<1>1. IInv /\ [Next]_vars => [Landed # {} => status[cur] = "running"]_vars
  <2>1. SUFFICES ASSUME IInv, Next, Landed # {} PROVE status[cur] = "running"
    BY StutterLands
  <2>2. PICK b \in Landed : TRUE
    BY <2>1
  <2>3. at = "ready"
    BY <2>1, <2>2, OnlySavesLand
  <2>4. QED BY <2>1, <2>3 DEF IInv, RunPart, HoldsRun, Saving
<1>2. QED BY Inductive, <1>1, PTL DEF Spec, LandsWhileRunning

(* Where a person rejected a proposal of a label type, even while the save  *)
(* that would make another was under way, none of that type is made again.  *)
(* One of another type may be: a rejection is of what was proposed.         *)
THEOREM RejectedStaysRejected == Spec => NeverProposedAgain
<1>1. IInv /\ [Next]_vars => [\A b \in Landed : <<b[1], b[3]>> \notin rejected]_vars
  <2>1. SUFFICES ASSUME IInv, Next, NEW b \in Landed PROVE <<b[1], b[3]>> \notin rejected
    BY StutterLands
  <2>2. at = "ready" /\ b[1] \in locked /\ <<b[1], b[3]>> \notin barred
    BY <2>1, OnlySavesLand
  <2>3. \A d \in rejected : d[1] \in locked => d \in barred
    BY <2>1, <2>2 DEF IInv, LabelPart, HoldsFrames
  <2>4. QED BY <2>2, <2>3
<1>2. QED BY Inductive, <1>1, PTL DEF Spec, NeverProposedAgain

(* Nothing is proposed on top of a box that a person drew or accepted up to *)
(* the moment the save commits.                                            *)
THEOREM DrawnStaysBare == Spec => DrawnNotCovered
<1>1. IInv /\ [Next]_vars => [\A b \in Landed : On(b[1], kept) = {}]_vars
  <2>1. SUFFICES ASSUME IInv, Next, NEW b \in Landed PROVE On(b[1], kept) = {}
    BY StutterLands
  <2>2. at = "ready" /\ b[1] \in locked \ covered
    BY <2>1, OnlySavesLand
  <2>3. QED BY <2>1, <2>2 DEF IInv, LabelPart, HoldsFrames
<1>2. QED BY Inductive, <1>1, PTL DEF Spec, DrawnNotCovered

-------------------------------------------------------------------------------
(* Requests that do not overlap.                                            *)

(* At most one request to pin a model, or to start a run with one, has its  *)
(* transaction open; those for classical vision may come in between.        *)
OneAtATime == \A c, d \in Callers : call[c].by \in Models /\ call[d].by \in Models => c = d

(* A run waits or is worked for a model. *)
Yolo(p) == status[p] \in Active /\ Source(labeler[p]) = "yolo"

(* What a request read stays true until it commits: the pinned model, and   *)
(* the runs it is to cancel.                                               *)
StillPinned ==
  \A c \in Callers : call[c].kind = "start" /\ call[c].by \in Models => call[c].by = pinned
HitsAll ==
  \A c \in Callers, p \in Runs :
    call[c].by \in Models /\ call[c].stage # "begun" /\ Yolo(p) => p \in call[c].hit

UpToDate == StillPinned /\ HitsAll /\ ActiveForPinned

LEMMA InitUpToDate == Init => UpToDate
<1> SUFFICES ASSUME Init PROVE UpToDate
  OBVIOUS
<1>1. \A c \in Callers : call[c].kind = "none" /\ call[c].stage = "begun"
  BY DEF Init, Idle
<1>2. \A p \in Runs : ~(status[p] \in Active)
  BY DEF Init, Active
<1>3. QED BY <1>1, <1>2 DEF UpToDate, StillPinned, HitsAll, Yolo, ActiveForPinned

(* Most steps leave the requests alone and make no run active. *)
NoneStarts ==
  /\ \A p \in Runs : status'[p] \in Active => status[p] \in Active
  /\ UNCHANGED <<labeler, pinned>>

LEMMA NoneStartsKeeps ==
  ASSUME UpToDate, NoneStarts
  PROVE  /\ \A p \in Runs : Yolo(p)' => Yolo(p)
         /\ ActiveForPinned'
<1>1. \A p \in Runs : Source(labeler'[p]) = Source(labeler[p])
  BY DEF NoneStarts
<1>2. \A p \in Runs : Yolo(p)' => Yolo(p)
  BY <1>1 DEF NoneStarts, Yolo, Source
<1>3. ActiveForPinned'
  BY <1>1 DEF UpToDate, NoneStarts, ActiveForPinned, Source
<1>4. QED BY <1>2, <1>3

LEMMA UpToDateQuiet ==
  ASSUME UpToDate, NoneStarts, UNCHANGED call
  PROVE  UpToDate'
<1>1. HitsAll'
  BY NoneStartsKeeps DEF UpToDate, HitsAll
<1>2. StillPinned'
  BY DEF UpToDate, NoneStarts, StillPinned
<1>3. QED BY <1>1, <1>2, NoneStartsKeeps DEF UpToDate

LEMMA WorkerStartsNone ==
  ASSUME TypeOK, RunPart, WorkerStep
  PROVE  NoneStarts /\ UNCHANGED call
<1> USE DEF NoneStarts
<1>1. CASE StartRun
  BY <1>1 DEF StartRun, TypeOK, RunPart, HasRun, Active
<1>2. CASE Finish
  BY <1>2 DEF Finish, TypeOK, Active
<1>3. CASE RecordFailure
  BY <1>3 DEF RecordFailure, TypeOK, Active
<1>4. CASE \/ \E p \in Runs : Fetch(p)
           \/ \E k \in Clips : NextClip(k)
           \/ ListClips \/ TaskDone \/ LockRun \/ LockVideo \/ LockFrames \/ ClearOld
           \/ ListBoxes \/ ListRejected \/ Save \/ GiveUp \/ CheckCancelled \/ RecordLost
  BY <1>4 DEF Fetch, NextClip, ListClips, TaskDone, LockRun, LockVideo, LockFrames, ClearOld,
              ListBoxes, ListRejected, Save, GiveUp, CheckCancelled, RecordLost, runVars
<1>5. QED BY <1>1, <1>2, <1>3, <1>4 DEF WorkerStep

(* A request that moves on leaves the others and the runs as they are.      *)
LEMMA UpToDateCall ==
  ASSUME UpToDate, UNCHANGED runVars, NEW c \in Callers,
         \A d \in Callers \ {c} : call'[d] = call[d],
         call'[c].kind = "start" /\ call'[c].by \in Models => call'[c].by = pinned,
         \A p \in Runs :
           call'[c].by \in Models /\ call'[c].stage # "begun" /\ Yolo(p) => p \in call'[c].hit
  PROVE  UpToDate'
<1>1. NoneStarts
  BY DEF NoneStarts, runVars
<1>2. StillPinned'
  BY DEF UpToDate, StillPinned, runVars
<1>3. \A p \in Runs : Yolo(p)' => Yolo(p)
  BY <1>1, NoneStartsKeeps
<1>4. HitsAll'
  BY <1>3 DEF UpToDate, HitsAll
<1>5. QED BY <1>1, <1>2, <1>4, NoneStartsKeeps DEF UpToDate

LEMMA UpToDateBegin ==
  ASSUME TypeOK, UpToDate, NEW c \in Callers,
         \/ \E m \in Models : BeginPin(c, m)
         \/ \E l \in Labelers : BeginStart(c, l)
         \/ Rollback(c)
  PROVE  UpToDate'
<1>1. CASE Rollback(c)
  BY <1>1, UpToDateCall, NamesAssumption DEF Rollback, Idle, TypeOK
<1>2. ASSUME NEW m \in Models, BeginPin(c, m) PROVE UpToDate'
  <2>1. /\ call'[c] = [Idle EXCEPT !.kind = "pin", !.by = m]
        /\ \A d \in Callers \ {c} : call'[d] = call[d]
        /\ UNCHANGED runVars
    BY <1>2 DEF BeginPin, TypeOK
  <2>2. call'[c].kind = "pin" /\ call'[c].stage = "begun"
    BY <2>1 DEF Idle
  <2>3. QED BY <2>1, <2>2, UpToDateCall
<1>3. ASSUME NEW l \in Labelers, BeginStart(c, l) PROVE UpToDate'
  <2>1. /\ call'[c] = [Idle EXCEPT !.kind = "start", !.by = l]
        /\ \A d \in Callers \ {c} : call'[d] = call[d]
        /\ l \in Models => l = pinned
        /\ UNCHANGED runVars
    BY <1>3, NamesAssumption DEF BeginStart, TypeOK
  <2>2. call'[c].by = l /\ call'[c].stage = "begun"
    BY <2>1 DEF Idle
  <2>3. QED BY <2>1, <2>2, UpToDateCall
<1>4. QED BY <1>1, <1>2, <1>3

LEMMA UpToDateSee ==
  ASSUME TypeOK, UpToDate, NEW c \in Callers, SeeActive(c)
  PROVE  UpToDate'
<1> DEFINE hit == {p \in Runs : status[p] \in Active /\ Source(labeler[p]) = Source(call[c].by)}
<1>1. /\ call' = [call EXCEPT ![c] = [call[c] EXCEPT !.hit = hit, !.stage = "waiting"]]
      /\ UNCHANGED runVars
  BY DEF SeeActive, TypeOK
<1>2. call[c].by \in Models => \A p \in Runs : Yolo(p) => p \in hit
  BY NamesAssumption DEF Yolo, Source
<1> HIDE DEF hit
<1>3. call[c] \in Calls /\ c \in DOMAIN call
  BY DEF TypeOK, Calls
<1>4. /\ call'[c].by = call[c].by /\ call'[c].kind = call[c].kind /\ call'[c].hit = hit
      /\ \A d \in Callers \ {c} : call'[d] = call[d]
  BY <1>1, <1>3 DEF Calls, TypeOK
<1>5. QED BY <1>1, <1>2, <1>4, UpToDateCall DEF UpToDate, StillPinned

LEMMA UpToDateCancel ==
  ASSUME TypeOK, UpToDate, NEW c \in Callers, CancelActive(c)
  PROVE  UpToDate'
<1> DEFINE hit == {p \in call[c].hit : status[p] \in Active}
<1>1. /\ call' = [call EXCEPT ![c] = [call[c] EXCEPT !.hit = hit, !.stage = "cancelled"]]
      /\ UNCHANGED runVars /\ call[c].stage = "waiting"
  BY DEF CancelActive, TypeOK
<1>2. call[c].by \in Models => \A p \in Runs : Yolo(p) => p \in hit
  BY <1>1 DEF UpToDate, HitsAll, Yolo
<1> HIDE DEF hit
<1>3. call[c] \in Calls /\ c \in DOMAIN call
  BY DEF TypeOK, Calls
<1>4. /\ call'[c].by = call[c].by /\ call'[c].kind = call[c].kind /\ call'[c].hit = hit
      /\ \A d \in Callers \ {c} : call'[d] = call[d]
  BY <1>1, <1>3 DEF Calls, TypeOK
<1>5. QED BY <1>1, <1>2, <1>4, UpToDateCall DEF UpToDate, StillPinned

(* A request that commits cancelled every run of the model it replaces, and *)
(* nobody else is about to queue one for it.                               *)
LEMMA UpToDateCommit ==
  ASSUME TypeOK, PinsModel, UpToDate, OneAtATime, NEW c \in Callers, NEW p \in Runs, Commit(c, p)
  PROVE  UpToDate'
<1>1. /\ \A r \in Runs : status'[r] = IF r = p THEN "queued"
                                      ELSE IF r \in call[c].hit THEN "cancelled" ELSE status[r]
      /\ \A r \in Runs \ {p} : labeler'[r] = labeler[r]
      /\ labeler'[p] = call[c].by
      /\ pinned' = IF call[c].kind = "pin" THEN call[c].by ELSE pinned
      /\ call'[c] = Idle /\ \A d \in Callers \ {c} : call'[d] = call[d]
      /\ call[c].stage = "cancelled" /\ call[c].kind \in {"pin", "start"}
  BY DEF Commit, TypeOK, PinsModel
<1>2. call[c].by \in Labelers
  BY <1>1 DEF PinsModel
<1>3. \A r \in Runs \ {p} : Yolo(r)' => Yolo(r) /\ r \notin call[c].hit
  BY <1>1 DEF Yolo, Source, Active
<1>4. CASE call[c].by \in Models
  <2>1. pinned' = call[c].by
    BY <1>1, <1>4 DEF UpToDate, StillPinned
  <2>2. \A r \in Runs \ {p} : ~Yolo(r)'
    BY <1>1, <1>3, <1>4 DEF UpToDate, HitsAll
  <2>3. ActiveForPinned'
    BY <1>1, <2>1, <2>2 DEF ActiveForPinned, Yolo
  <2>4. \A d \in Callers : call'[d].by \notin Models
    BY <1>1, <1>4, NamesAssumption DEF OneAtATime, Idle
  <2>5. QED BY <2>3, <2>4 DEF UpToDate, StillPinned, HitsAll
<1>5. CASE call[c].by = CV
  <2>1. pinned' = pinned
    BY <1>1, <1>5, NamesAssumption DEF PinsModel
  <2>2. ~Yolo(p)'
    BY <1>1, <1>5 DEF Yolo, Source
  <2>3. ActiveForPinned'
    BY <1>1, <1>3, <2>1, <2>2 DEF UpToDate, ActiveForPinned, Yolo
  <2>4. StillPinned'
    BY <1>1, <2>1 DEF UpToDate, StillPinned, Idle
  <2>5. HitsAll'
    BY <1>1, <1>3, <2>2, NamesAssumption DEF UpToDate, HitsAll, Idle
  <2>6. QED BY <2>3, <2>4, <2>5 DEF UpToDate
<1>6. QED BY <1>2, <1>4, <1>5 DEF Labelers

LEMMA UpToDateNext == IInv /\ OneAtATime /\ UpToDate /\ [Next]_vars => UpToDate'
<1> SUFFICES ASSUME IInv, OneAtATime, UpToDate, [Next]_vars PROVE UpToDate'
  OBVIOUS
<1>1. TypeOK /\ PinsModel /\ RunPart
  BY DEF IInv
<1>2. CASE WorkerStep
  BY <1>1, <1>2, WorkerStartsNone, UpToDateQuiet
<1>3. CASE LabelStep \/ HoldOut \/ TakeBack \/ UNCHANGED vars
  <2>1. UNCHANGED <<runVars, call>>
    BY <1>3 DEF LabelStep, Draw, Keep, Reject, Delete, UpdateTrack, MarkDone, MarkUnlabeled, CountBoxes,
                MarkEmpty, HoldOut, TakeBack, vars
  <2>2. QED BY <2>1, UpToDateQuiet DEF NoneStarts, runVars
<1>4. CASE ApiRestarts
  <2>1. NoneStarts /\ call' = [c \in Callers |-> Idle]
    BY <1>1, <1>4 DEF ApiRestarts, NoneStarts, TypeOK, Active
  <2>2. StillPinned' /\ HitsAll'
    BY <2>1 DEF StillPinned, HitsAll, Idle
  <2>3. QED BY <2>1, <2>2, NoneStartsKeeps DEF UpToDate
<1>5. ASSUME NEW p \in Runs, CancelPrelabel(p) PROVE UpToDate'
  <2>1. NoneStarts /\ UNCHANGED call
    BY <1>1, <1>5 DEF CancelPrelabel, NoneStarts, TypeOK, Active
  <2>2. QED BY <2>1, UpToDateQuiet
<1>6. QED
  BY <1>1, <1>2, <1>3, <1>4, <1>5, UpToDateBegin, UpToDateSee, UpToDateCancel, UpToDateCommit
  DEF Next, CallStep

(* If requests that pin or start a model do not overlap, then whatever runs *)
(* or waits with a model does so with the pinned one, whoever else starts   *)
(* classical vision, cancels, labels or restarts the API meanwhile.         *)
THEOREM PinsTakeOver == Spec /\ []OneAtATime => []ActiveForPinned
<1>1. UpToDate => ActiveForPinned
  BY DEF UpToDate
<1>2. QED BY <1>1, InitUpToDate, UpToDateNext, Inductive, PTL DEF Spec

(* And no save puts another model's boxes in the place of the pinned one's: *)
(* a start that read the pinned model before a pin commits is all that can  *)
(* make it so.                                                             *)
THEOREM OlderLandsOnlyByOverlap == Spec /\ []OneAtATime => OlderNeverLands
<1>1. IInv /\ UpToDate /\ [Next]_vars =>
        [\A b \in Landed :
           b[2] \in Models \ {pinned} => \A a \in open : ~(a[1] = b[1] /\ a[2] = pinned)]_vars
  <2>1. SUFFICES ASSUME IInv, UpToDate, Next, NEW b \in Landed
                 PROVE  b[2] \notin Models \ {pinned}
    BY StutterLands
  <2>2. at = "ready" /\ at' = "clips"
    BY <2>1, OnlySavesLand
  <2>3. cur \in Runs /\ status[cur] = "running"
    BY <2>1, <2>2 DEF IInv, RunPart, HasRun, HoldsRun, Saving
  <2>4. b[2] = labeler[cur]
    BY <2>1, OnlySavesLand
  <2>5. Source(labeler[cur]) = "yolo" => labeler[cur] = pinned
    BY <2>1, <2>3 DEF UpToDate, ActiveForPinned, Active
  <2>6. QED BY <2>4, <2>5, NamesAssumption DEF Source
<1>2. QED BY <1>1, InitUpToDate, UpToDateNext, Inductive, PTL DEF Spec, OlderNeverLands
===============================================================================
