--------------------------- MODULE ModelTrialProofs ---------------------------
(***************************************************************************)
(* Proofs about ModelTrial: its type, that every active trial is attended,  *)
(* and that a finished trial is whole.                                      *)
(***************************************************************************)
EXTENDS ModelTrial, TLAPS

(* Boxes and reports are of an attempt before, once the trial is queued     *)
(* again.                                                                   *)
Old(t, e) == e <= era[t] /\ (status[t] = "queued" => e < era[t])

Eras ==
  /\ \A t \in Trials : \A b \in boxes[t] \cup found[t] : Old(t, b.era)
  /\ \A h \in Handlers : report[h].trial # NoTrial => Old(report[h].trial, report[h].box.era)

(* The goroutine that ran its trial runs it still, or the trial has ended.  *)
Place ==
  /\ at \in {"idle", "fetched", "tracked", "loaded"} => next = 1
  /\ Ran => /\ mine <= era[cur]
            /\ status[cur] = "running" => mine = era[cur]
            /\ mine = era[cur] => status[cur] # "queued"
            /\ status[cur] # "succeeded"

(* A queued trial has a job, or the goroutine has it; a running one is past *)
(* the step that made it running.                                           *)
Kept ==
  \A t \in Trials \ stranded :
    /\ status[t] = "queued" => jobs[t] > 0 \/ cur = t
    /\ status[t] = "running" => cur = t /\ at \notin {"fetched", "tracked", "loaded"}

(* Reports on this attempt are on the one task.                             *)
OneTask ==
  /\ task # "none" => at = "waiting"
  /\ Ran => \A h \in Handlers : (report[h].trial = cur /\ report[h].box.era = mine) => Own(h)
  /\ \A g, h \in Handlers : Own(g) /\ Own(h) => g = h
  /\ task \in {"offered", "done"} => \A h \in Handlers : ~Own(h)

Mine == {b \in found[cur] : b.era = mine}
Lasts(n) == [era : {mine}, chunk : 1..n, part : {"last"}]

(* While the trial runs, what was reported is saved, is being saved, or the  *)
(* task cannot be done any more.                                            *)
Gathered ==
  (Ran /\ status[cur] = "running") =>
    /\ Lasts(next - 1) \subseteq boxes[cur]
    /\ at # "waiting" => Mine \subseteq boxes[cur]
    /\ at = "advancing" => Lasts(next) \subseteq boxes[cur]
    /\ at \in {"linking", "linked"} => next > Chunks
    /\ at = "linking" => Mine \cup Lasts(Chunks) \subseteq listed
    /\ at = "linked" => Mine \cup Lasts(Chunks) \subseteq linked[cur]
    /\ task = "done" => Mine \cup Lasts(next) \subseteq boxes[cur]
    /\ (task \in {"offered", "taken"} /\ "last" \notin sent /\ \A h \in Handlers : ~Own(h))
         => Mine \subseteq boxes[cur]
    /\ \A h \in Handlers : (task = "taken" /\ Own(h)) =>
         /\ Mine \subseteq boxes[cur] \cup {report[h].box}
         /\ report[h].stage = "saved" => report[h].box \in boxes[cur]

IInv == TypeOK /\ Eras /\ Place /\ Kept /\ OneTask /\ Gathered /\ SucceededIsWhole

(* What the goroutine keeps has its type again once it has returned.        *)
LEMMA Returned ==
  ASSUME Return
  PROVE  /\ at' \in {"idle", "fetched", "tracked", "loaded", "chunks", "waiting", "advancing",
                     "linking", "linked", "failing", "recording"}
         /\ cur' \in Trials \cup {NoTrial} /\ (at' = "idle" <=> cur' = NoTrial)
         /\ next' \in Nat /\ listed' \in SUBSET Box /\ mine' \in Nat
         /\ stopped' \in BOOLEAN
BY DEF Return

LEMMA InitHolds == Init => IInv
<1> SUFFICES ASSUME Init PROVE IInv
  OBVIOUS
<1>1. Idle \in Reports /\ Idle.trial = NoTrial
  BY DEF Idle, Reports, Box, Parts
<1> USE NoTrialAssumption
<1>2. TypeOK
  <2>1. report \in [Handlers -> Reports]
    BY <1>1 DEF Init
  <2>2. QED BY <2>1 DEF Init, TypeOK, Parts
<1>3. Eras
  BY <1>1 DEF Init, Eras
<1>4. Place
  BY DEF Init, Place, Ran
<1>5. Kept
  BY DEF Init, Kept
<1>6. OneTask
  BY DEF Init, OneTask, Ran, Own
<1>7. Gathered
  BY DEF Init, Gathered, Ran
<1>8. SucceededIsWhole
  BY DEF Init, SucceededIsWhole
<1>9. QED BY <1>2, <1>3, <1>4, <1>5, <1>6, <1>7, <1>8 DEF IInv

(* Every step keeps the types.                                              *)
LEMMA TypeOKStep ==
  ASSUME TypeOK, Next
  PROVE  TypeOK'
<1>1. CASE \E S \in SUBSET Trials : Start(S)
  BY <1>1, NoTrialAssumption, ChunksAssumption DEF Start, Queue, Startable, TypeOK, Parts, Box,
       Reports, Idle, Active, rowVars, workVars, taskVars, ghostVars, boundVars
<1>2. CASE \E t \in Trials : Cancel(t)
  BY <1>2, NoTrialAssumption, ChunksAssumption DEF Cancel, TypeOK, Parts, Box, Reports, Idle,
       Active, rowVars, workVars, taskVars, ghostVars, boundVars
<1>3. CASE \E t \in Trials : Stop(t)
  BY <1>3, NoTrialAssumption, ChunksAssumption DEF Stop, Tracked, TypeOK, Parts, Box, Reports,
       Idle, Active, rowVars, workVars, taskVars, ghostVars, boundVars
<1>4. CASE \E t \in Trials : Fetch(t)
  BY <1>4, NoTrialAssumption, ChunksAssumption DEF Fetch, TypeOK, Parts, Box, Reports, Idle,
       Active, rowVars, workVars, taskVars, ghostVars, boundVars
<1>5. CASE Track
  BY <1>5, NoTrialAssumption, ChunksAssumption DEF Track, Go, TypeOK, Parts, Box, Reports, Idle,
       Active, rowVars, workVars, taskVars, ghostVars, boundVars
<1>6. CASE Load
  <2>1. CASE status[cur] = "queued" /\ Go("loaded") /\ UNCHANGED stopped
    BY <1>6, <2>1, NoTrialAssumption DEF Load, Go, TypeOK, rowVars, taskVars, ghostVars, boundVars
  <2>2. CASE status[cur] # "queued" /\ Return
    BY <1>6, <2>2, NoTrialAssumption
      DEF Load, Return, TypeOK, rowVars, taskVars, ghostVars, boundVars
  <2>3. QED BY <1>6, <2>1, <2>2 DEF Load
<1>7. CASE Run
  <2>1. status' \in [Trials -> {"none", "queued", "running", "succeeded", "failed", "cancelled"}]
    BY <1>7 DEF Run, TypeOK
  <2>2. CASE status[cur] = "queued"
    BY <1>7, <2>1, <2>2, NoTrialAssumption DEF Run, Return, TypeOK, taskVars, ghostVars, boundVars
  <2>3. CASE status[cur] # "queued"
    BY <1>7, <2>1, <2>3, Returned DEF Run, TypeOK, taskVars, ghostVars, boundVars
  <2>4. QED BY <2>2, <2>3
<1>8. CASE Offer
  BY <1>8, NoTrialAssumption, ChunksAssumption DEF Offer, Go, TypeOK, Parts, Box, Reports, Idle,
       Active, rowVars, workVars, taskVars, ghostVars, boundVars
<1>9. CASE TaskDone
  BY <1>9, NoTrialAssumption, ChunksAssumption DEF TaskDone, Go, TypeOK, Parts, Box, Reports,
       Idle, Active, rowVars, workVars, taskVars, ghostVars, boundVars
<1>10. CASE Advance
  BY <1>10, NoTrialAssumption, ChunksAssumption DEF Advance, TypeOK, Parts, Box, Reports, Idle,
       Active, rowVars, workVars, taskVars, ghostVars, boundVars
<1>11. CASE ListBoxes
  BY <1>11, NoTrialAssumption, ChunksAssumption DEF ListBoxes, TypeOK, Parts, Box, Reports, Idle,
       Active, rowVars, workVars, taskVars, ghostVars, boundVars
<1>12. CASE SetTracks
  BY <1>12, NoTrialAssumption, ChunksAssumption DEF SetTracks, Go, TypeOK, Parts, Box, Reports,
       Idle, Active, rowVars, workVars, taskVars, ghostVars, boundVars
<1>13. CASE Finish
  <2>1. status' \in [Trials -> {"none", "queued", "running", "succeeded", "failed", "cancelled"}]
    BY <1>13 DEF Finish, TypeOK
  <2>2. CASE status[cur] = "running"
    BY <1>13, <2>1, <2>2, Returned DEF Finish, TypeOK, taskVars, ghostVars, boundVars
  <2>3. CASE status[cur] # "running"
    BY <1>13, <2>1, <2>3, NoTrialAssumption
      DEF Finish, Go, Return, TypeOK, taskVars, ghostVars, boundVars
  <2>4. QED BY <2>2, <2>3
<1>14. CASE GiveUp
  BY <1>14, NoTrialAssumption, ChunksAssumption DEF GiveUp, Go, TypeOK, Parts, Box, Reports, Idle,
       Active, rowVars, workVars, taskVars, ghostVars, boundVars
<1>15. CASE CheckCancelled
  <2>1. CASE status[cur] = "cancelled" /\ Return
    BY <1>15, <2>1, NoTrialAssumption
      DEF CheckCancelled, Return, TypeOK, rowVars, taskVars, ghostVars, boundVars
  <2>2. CASE Go("recording") /\ UNCHANGED stopped
    BY <1>15, <2>2, NoTrialAssumption
      DEF CheckCancelled, Go, TypeOK, rowVars, taskVars, ghostVars, boundVars
  <2>3. QED BY <1>15, <2>1, <2>2 DEF CheckCancelled
<1>16. CASE RecordFailure
  BY <1>16, NoTrialAssumption, ChunksAssumption DEF RecordFailure, Return, TypeOK, Parts, Box,
       Reports, Idle, Active, rowVars, workVars, taskVars, ghostVars, boundVars
<1>17. CASE RecordLost
  BY <1>17, NoTrialAssumption, ChunksAssumption DEF RecordLost, Return, Left, TypeOK, Parts, Box,
       Reports, Idle, Active, rowVars, workVars, taskVars, ghostVars, boundVars
<1>18. CASE Take
  BY <1>18, NoTrialAssumption, ChunksAssumption DEF Take, TypeOK, Parts, Box, Reports, Idle,
       Active, rowVars, workVars, taskVars, ghostVars, boundVars
<1>19. CASE FailTask
  BY <1>19, NoTrialAssumption, ChunksAssumption DEF FailTask, TypeOK, Parts, Box, Reports, Idle,
       Active, rowVars, workVars, taskVars, ghostVars, boundVars
<1>20. CASE \E h \in Handlers, part \in Parts : Report(h, part)
  <2>1. PICK h \in Handlers, part \in Parts : Report(h, part)
    BY <1>20
  <2> DEFINE box == [era |-> mine, chunk |-> next, part |-> part]
             saving == [stage |-> "saving", trial |-> cur, box |-> box]
  <2>2. box \in Box
    BY DEF TypeOK, Box
  <2>3. saving \in Reports
    BY <2>2 DEF TypeOK, Reports
  <2>4. report' = [report EXCEPT ![h] = saving]
    BY <2>1 DEF Report
  <2>5. report' \in [Handlers -> Reports]
    <3> HIDE DEF saving
    <3>1. QED BY <2>3, <2>4 DEF TypeOK
  <2>6. found' = [found EXCEPT ![cur] = @ \cup {box}]
    BY <2>1 DEF Report
  <2>7. found' \in [Trials -> SUBSET Box]
    <3> HIDE DEF box
    <3>1. QED BY <2>2, <2>6 DEF TypeOK
  <2>8. sent' \in SUBSET Parts
    BY <2>1 DEF Report, TypeOK
  <2> HIDE DEF box, saving
  <2>9. UNCHANGED <<rowVars, workVars, stopped, task, stopping, era, stranded, boundVars>>
    BY <2>1 DEF Report
  <2>10. QED BY <2>5, <2>7, <2>8, <2>9 DEF TypeOK, rowVars, workVars, boundVars
<1>21. CASE \E h \in Handlers : Save(h)
  <2>1. PICK h \in Handlers : Save(h)
    BY <1>21
  <2>2. report[h] \in Reports /\ report[h].box \in Box
    BY DEF TypeOK, Reports
  <2>3. boxes' \in [Trials -> SUBSET Box]
    BY <2>1, <2>2 DEF Save, TypeOK
  <2>4. [report[h] EXCEPT !.stage = "saved"] \in Reports
    BY <2>2 DEF Reports
  <2>5. report' = [report EXCEPT ![h] = [report[h] EXCEPT !.stage = "saved"]]
    BY <2>1 DEF Save, TypeOK
  <2>6. report' \in [Handlers -> Reports]
    BY <2>4, <2>5 DEF TypeOK
  <2>7. QED BY <2>1, <2>3, <2>6 DEF Save, TypeOK, workVars, ghostVars, boundVars
<1>22. CASE \E h \in Handlers : Signal(h)
  BY <1>22, NoTrialAssumption, ChunksAssumption DEF Signal, TypeOK, Parts, Box, Reports, Idle,
       Active, rowVars, workVars, taskVars, ghostVars, boundVars
<1>23. CASE \E h \in Handlers : HandlerFails(h)
  BY <1>23, NoTrialAssumption, ChunksAssumption DEF HandlerFails, TypeOK, Parts, Box, Reports,
       Idle, Active, rowVars, workVars, taskVars, ghostVars, boundVars
<1>24. CASE Boot
  <2>1. Idle \in Reports
    BY DEF Idle, Reports, Box, Parts
  <2>2. report' \in [Handlers -> Reports]
    BY <1>24, <2>1 DEF Boot
  <2>3. status' \in [Trials -> {"none", "queued", "running", "succeeded", "failed", "cancelled"}]
    BY <1>24 DEF Boot, TypeOK
  <2>4. stranded' \in SUBSET Trials /\ stopping' \in [Trials -> Nat]
    BY <1>24 DEF Boot, TypeOK
  <2>5. Return
    BY <1>24 DEF Boot
  <2>6. task' = "none" /\ sent' = {} /\ boots' = boots + 1
    BY <1>24 DEF Boot
  <2>7. UNCHANGED <<boxes, linked, jobs, era, found, starts, cancels>>
    BY <1>24 DEF Boot
  <2>8. QED BY <2>2, <2>3, <2>4, <2>5, <2>6, <2>7, Returned DEF TypeOK
<1>25. QED BY <1>1, <1>2, <1>3, <1>4, <1>5, <1>6, <1>7, <1>8, <1>9, <1>10, <1>11, <1>12, <1>13,
           <1>14, <1>15, <1>16, <1>17, <1>18, <1>19, <1>20, <1>21, <1>22, <1>23, <1>24
      DEF Next, Work

(* Nothing saved or on its way is of an attempt to come.                    *)
LEMMA ErasStep ==
  ASSUME TypeOK /\ Eras /\ Place /\ OneTask, Next
  PROVE  Eras'
<1>1. CASE \E S \in SUBSET Trials : Start(S)
  BY <1>1, NoTrialAssumption, ChunksAssumption DEF Start, Queue, Startable, Eras, Parts, Box,
       Reports, Idle, Active, Ran, Old, TypeOK, Place, rowVars, workVars, taskVars, ghostVars,
       boundVars
<1>2. CASE \E t \in Trials : Cancel(t)
  BY <1>2, NoTrialAssumption, ChunksAssumption DEF Cancel, Eras, Parts, Box, Reports, Idle,
       Active, Ran, Old, TypeOK, Place, rowVars, workVars, taskVars, ghostVars, boundVars
<1>3. CASE \E t \in Trials : Stop(t)
  BY <1>3, NoTrialAssumption, ChunksAssumption DEF Stop, Tracked, Eras, Parts, Box, Reports, Idle,
       Active, Ran, Old, TypeOK, Place, rowVars, workVars, taskVars, ghostVars, boundVars
<1>4. CASE \E t \in Trials : Fetch(t)
  BY <1>4, NoTrialAssumption, ChunksAssumption DEF Fetch, Eras, Parts, Box, Reports, Idle, Active,
       Ran, Old, TypeOK, Place, rowVars, workVars, taskVars, ghostVars, boundVars
<1>5. CASE Track
  BY <1>5, NoTrialAssumption, ChunksAssumption DEF Track, Go, Eras, Parts, Box, Reports, Idle,
       Active, Ran, Old, TypeOK, Place, rowVars, workVars, taskVars, ghostVars, boundVars
<1>6. CASE Load
  BY <1>6, NoTrialAssumption, ChunksAssumption DEF Load, Return, Go, Eras, Parts, Box, Reports,
       Idle, Active, Ran, Old, TypeOK, Place, rowVars, workVars, taskVars, ghostVars, boundVars
<1>7. CASE Run
  BY <1>7, NoTrialAssumption, ChunksAssumption DEF Run, Return, Eras, Parts, Box, Reports, Idle,
       Active, Ran, Old, TypeOK, Place, rowVars, workVars, taskVars, ghostVars, boundVars
<1>8. CASE Offer
  BY <1>8, NoTrialAssumption, ChunksAssumption DEF Offer, Go, Eras, Parts, Box, Reports, Idle,
       Active, Ran, Old, TypeOK, Place, rowVars, workVars, taskVars, ghostVars, boundVars
<1>9. CASE TaskDone
  BY <1>9, NoTrialAssumption, ChunksAssumption DEF TaskDone, Go, Eras, Parts, Box, Reports, Idle,
       Active, Ran, Old, TypeOK, Place, rowVars, workVars, taskVars, ghostVars, boundVars
<1>10. CASE Advance
  BY <1>10, NoTrialAssumption, ChunksAssumption DEF Advance, Eras, Parts, Box, Reports, Idle,
       Active, Ran, Old, TypeOK, Place, rowVars, workVars, taskVars, ghostVars, boundVars
<1>11. CASE ListBoxes
  BY <1>11, NoTrialAssumption, ChunksAssumption DEF ListBoxes, Eras, Parts, Box, Reports, Idle,
       Active, Ran, Old, TypeOK, Place, rowVars, workVars, taskVars, ghostVars, boundVars
<1>12. CASE SetTracks
  BY <1>12, NoTrialAssumption, ChunksAssumption DEF SetTracks, Go, Eras, Parts, Box, Reports,
       Idle, Active, Ran, Old, TypeOK, Place, rowVars, workVars, taskVars, ghostVars, boundVars
<1>13. CASE Finish
  BY <1>13, NoTrialAssumption, ChunksAssumption DEF Finish, Return, Go, Eras, Parts, Box, Reports,
       Idle, Active, Ran, Old, TypeOK, Place, rowVars, workVars, taskVars, ghostVars, boundVars
<1>14. CASE GiveUp
  BY <1>14, NoTrialAssumption, ChunksAssumption DEF GiveUp, Go, Eras, Parts, Box, Reports, Idle,
       Active, Ran, Old, TypeOK, Place, rowVars, workVars, taskVars, ghostVars, boundVars
<1>15. CASE CheckCancelled
  BY <1>15, NoTrialAssumption, ChunksAssumption DEF CheckCancelled, Return, Go, Eras, Parts, Box,
       Reports, Idle, Active, Ran, Old, TypeOK, Place, rowVars, workVars, taskVars, ghostVars,
       boundVars
<1>16. CASE RecordFailure
  BY <1>16, NoTrialAssumption, ChunksAssumption DEF RecordFailure, Return, Eras, Parts, Box,
       Reports, Idle, Active, Ran, Old, TypeOK, Place, rowVars, workVars, taskVars, ghostVars,
       boundVars
<1>17. CASE RecordLost
  BY <1>17, NoTrialAssumption, ChunksAssumption DEF RecordLost, Return, Left, Eras, Parts, Box,
       Reports, Idle, Active, Ran, Old, TypeOK, Place, rowVars, workVars, taskVars, ghostVars,
       boundVars
<1>18. CASE Take
  BY <1>18, NoTrialAssumption, ChunksAssumption DEF Take, Eras, Parts, Box, Reports, Idle, Active,
       Ran, Old, TypeOK, Place, rowVars, workVars, taskVars, ghostVars, boundVars
<1>19. CASE FailTask
  BY <1>19, NoTrialAssumption, ChunksAssumption DEF FailTask, Eras, Parts, Box, Reports, Idle,
       Active, Ran, Old, TypeOK, Place, rowVars, workVars, taskVars, ghostVars, boundVars
<1>20. CASE \E h \in Handlers, part \in Parts : Report(h, part)
  <2>1. PICK h \in Handlers, part \in Parts : Report(h, part)
    BY <1>20
  <2>2. Ran
    BY <2>1 DEF Report, OneTask, Ran
  <2>3. cur \in Trials
    BY <2>2 DEF Ran, TypeOK
  <2>4. Old(cur, mine)
    BY <2>2, <2>3 DEF Place, Old, TypeOK
  <2> DEFINE box == [era |-> mine, chunk |-> next, part |-> part]
             saving == [stage |-> "saving", trial |-> cur, box |-> box]
  <2>5. box.era = mine /\ saving.trial = cur /\ saving.box = box
    OBVIOUS
  <2>6. /\ found' = [found EXCEPT ![cur] = @ \cup {box}]
        /\ report' = [report EXCEPT ![h] = saving]
        /\ UNCHANGED <<status, boxes, era>>
    BY <2>1 DEF Report, rowVars
  <2> HIDE DEF box, saving
  <2>7. \A t \in Trials : \A b \in boxes'[t] \cup found'[t] : Old(t, b.era)
    BY <2>4, <2>5, <2>6 DEF Eras, TypeOK
  <2>8. \A g \in Handlers :
          report'[g].trial # NoTrial => Old(report'[g].trial, report'[g].box.era)
    BY <2>4, <2>5, <2>6 DEF Eras, TypeOK
  <2>9. QED BY <2>6, <2>7, <2>8 DEF Eras, Old
<1>21. CASE \E h \in Handlers : Save(h)
  BY <1>21, NoTrialAssumption, ChunksAssumption DEF Save, Eras, Parts, Box, Reports, Idle, Active,
       Ran, Old, TypeOK, Place, rowVars, workVars, taskVars, ghostVars, boundVars
<1>22. CASE \E h \in Handlers : Signal(h)
  BY <1>22, NoTrialAssumption, ChunksAssumption DEF Signal, Eras, Parts, Box, Reports, Idle,
       Active, Ran, Old, TypeOK, Place, rowVars, workVars, taskVars, ghostVars, boundVars
<1>23. CASE \E h \in Handlers : HandlerFails(h)
  BY <1>23, NoTrialAssumption, ChunksAssumption DEF HandlerFails, Eras, Parts, Box, Reports, Idle,
       Active, Ran, Old, TypeOK, Place, rowVars, workVars, taskVars, ghostVars, boundVars
<1>24. CASE Boot
  BY <1>24, NoTrialAssumption, ChunksAssumption DEF Boot, Return, Eras, Parts, Box, Reports, Idle,
       Active, Ran, Old, TypeOK, Place, rowVars, workVars, taskVars, ghostVars, boundVars
<1>25. QED BY <1>1, <1>2, <1>3, <1>4, <1>5, <1>6, <1>7, <1>8, <1>9, <1>10, <1>11, <1>12, <1>13,
           <1>14, <1>15, <1>16, <1>17, <1>18, <1>19, <1>20, <1>21, <1>22, <1>23, <1>24
      DEF Next, Work

(* A trial queued again is of a later era than the goroutine's.             *)
LEMMA PlaceStep ==
  ASSUME TypeOK /\ Place, Next
  PROVE  Place'
<1> USE NoTrialAssumption, ChunksAssumption DEF Place, Active, Ran, TypeOK, rowVars, workVars,
      taskVars, ghostVars, boundVars
<1>1. CASE \E S \in SUBSET Trials : Start(S)
  BY <1>1 DEF Start, Queue, Startable
<1>2. CASE \E t \in Trials : Cancel(t)
  BY <1>2 DEF Cancel
<1>3. CASE \E t \in Trials : Stop(t)
  BY <1>3 DEF Stop, Tracked
<1>4. CASE \E t \in Trials : Fetch(t)
  BY <1>4 DEF Fetch
<1>5. CASE Track
  BY <1>5 DEF Track, Go
<1>6. CASE Load
  BY <1>6 DEF Load, Return, Go
<1>7. CASE Run
  BY <1>7 DEF Run, Return
<1>8. CASE Offer
  BY <1>8 DEF Offer, Go
<1>9. CASE TaskDone
  BY <1>9 DEF TaskDone, Go
<1>10. CASE Advance
  BY <1>10 DEF Advance
<1>11. CASE ListBoxes
  BY <1>11 DEF ListBoxes
<1>12. CASE SetTracks
  BY <1>12 DEF SetTracks, Go
<1>13. CASE Finish
  BY <1>13 DEF Finish, Return, Go
<1>14. CASE GiveUp
  BY <1>14 DEF GiveUp, Go
<1>15. CASE CheckCancelled
  BY <1>15 DEF CheckCancelled, Return, Go
<1>16. CASE RecordFailure
  BY <1>16 DEF RecordFailure, Return
<1>17. CASE RecordLost
  BY <1>17 DEF RecordLost, Return, Left
<1>18. CASE Take
  BY <1>18 DEF Take
<1>19. CASE FailTask
  BY <1>19 DEF FailTask
<1>20. CASE \E h \in Handlers, part \in Parts : Report(h, part)
  BY <1>20 DEF Report
<1>21. CASE \E h \in Handlers : Save(h)
  BY <1>21 DEF Save
<1>22. CASE \E h \in Handlers : Signal(h)
  BY <1>22 DEF Signal
<1>23. CASE \E h \in Handlers : HandlerFails(h)
  BY <1>23 DEF HandlerFails
<1>24. CASE Boot
  BY <1>24 DEF Boot, Return
<1>25. QED BY <1>1, <1>2, <1>3, <1>4, <1>5, <1>6, <1>7, <1>8, <1>9, <1>10, <1>11, <1>12, <1>13,
           <1>14, <1>15, <1>16, <1>17, <1>18, <1>19, <1>20, <1>21, <1>22, <1>23, <1>24
      DEF Next, Work

(* Only a job or the goroutine keeps a trial active.                        *)
LEMMA KeptStep ==
  ASSUME TypeOK /\ Kept /\ Place, Next
  PROVE  Kept'
<1> USE NoTrialAssumption, ChunksAssumption DEF Kept, Active, Ran, TypeOK, Place, rowVars,
      workVars, taskVars, ghostVars, boundVars
<1>1. CASE \E S \in SUBSET Trials : Start(S)
  BY <1>1 DEF Start, Queue, Startable
<1>2. CASE \E t \in Trials : Cancel(t)
  BY <1>2 DEF Cancel
<1>3. CASE \E t \in Trials : Stop(t)
  BY <1>3 DEF Stop, Tracked
<1>4. CASE \E t \in Trials : Fetch(t)
  BY <1>4 DEF Fetch
<1>5. CASE Track
  BY <1>5 DEF Track, Go
<1>6. CASE Load
  BY <1>6 DEF Load, Return, Go
<1>7. CASE Run
  BY <1>7 DEF Run, Return
<1>8. CASE Offer
  BY <1>8 DEF Offer, Go
<1>9. CASE TaskDone
  BY <1>9 DEF TaskDone, Go
<1>10. CASE Advance
  BY <1>10 DEF Advance
<1>11. CASE ListBoxes
  BY <1>11 DEF ListBoxes
<1>12. CASE SetTracks
  BY <1>12 DEF SetTracks, Go
<1>13. CASE Finish
  BY <1>13 DEF Finish, Return, Go
<1>14. CASE GiveUp
  BY <1>14 DEF GiveUp, Go
<1>15. CASE CheckCancelled
  BY <1>15 DEF CheckCancelled, Return, Go
<1>16. CASE RecordFailure
  BY <1>16 DEF RecordFailure, Return
<1>17. CASE RecordLost
  BY <1>17 DEF RecordLost, Return, Left
<1>18. CASE Take
  BY <1>18 DEF Take
<1>19. CASE FailTask
  BY <1>19 DEF FailTask
<1>20. CASE \E h \in Handlers, part \in Parts : Report(h, part)
  BY <1>20 DEF Report
<1>21. CASE \E h \in Handlers : Save(h)
  BY <1>21 DEF Save
<1>22. CASE \E h \in Handlers : Signal(h)
  BY <1>22 DEF Signal
<1>23. CASE \E h \in Handlers : HandlerFails(h)
  BY <1>23 DEF HandlerFails
<1>24. CASE Boot
  BY <1>24 DEF Boot, Return
<1>25. QED BY <1>1, <1>2, <1>3, <1>4, <1>5, <1>6, <1>7, <1>8, <1>9, <1>10, <1>11, <1>12, <1>13,
           <1>14, <1>15, <1>16, <1>17, <1>18, <1>19, <1>20, <1>21, <1>22, <1>23, <1>24
      DEF Next, Work

(* The goroutine has one task, and a task one report at a time.             *)
LEMMA OneTaskStep ==
  ASSUME TypeOK /\ OneTask /\ Eras /\ Place, Next
  PROVE  OneTask'
<1> USE NoTrialAssumption, ChunksAssumption DEF OneTask, Parts, Box, Reports, Idle, Ran, Own, Old,
      Eras, TypeOK, Place, rowVars, workVars, taskVars, ghostVars, boundVars
<1>1. CASE \E S \in SUBSET Trials : Start(S)
  BY <1>1 DEF Start, Queue, Startable
<1>2. CASE \E t \in Trials : Cancel(t)
  BY <1>2 DEF Cancel
<1>3. CASE \E t \in Trials : Stop(t)
  BY <1>3 DEF Stop, Tracked
<1>4. CASE \E t \in Trials : Fetch(t)
  BY <1>4 DEF Fetch
<1>5. CASE Track
  BY <1>5 DEF Track, Go
<1>6. CASE Load
  BY <1>6 DEF Load, Return, Go
<1>7. CASE Run
  BY <1>7 DEF Run, Return
<1>8. CASE Offer
  BY <1>8 DEF Offer, Go
<1>9. CASE TaskDone
  BY <1>9 DEF TaskDone, Go
<1>10. CASE Advance
  BY <1>10 DEF Advance
<1>11. CASE ListBoxes
  BY <1>11 DEF ListBoxes
<1>12. CASE SetTracks
  BY <1>12 DEF SetTracks, Go
<1>13. CASE Finish
  BY <1>13 DEF Finish, Return, Go
<1>14. CASE GiveUp
  BY <1>14 DEF GiveUp, Go
<1>15. CASE CheckCancelled
  BY <1>15 DEF CheckCancelled, Return, Go
<1>16. CASE RecordFailure
  BY <1>16 DEF RecordFailure, Return
<1>17. CASE RecordLost
  BY <1>17 DEF RecordLost, Return, Left
<1>18. CASE Take
  BY <1>18 DEF Take
<1>19. CASE FailTask
  BY <1>19 DEF FailTask
<1>20. CASE \E h \in Handlers, part \in Parts : Report(h, part)
  BY <1>20 DEF Report
<1>21. CASE \E h \in Handlers : Save(h)
  BY <1>21 DEF Save
<1>22. CASE \E h \in Handlers : Signal(h)
  BY <1>22 DEF Signal
<1>23. CASE \E h \in Handlers : HandlerFails(h)
  BY <1>23 DEF HandlerFails
<1>24. CASE Boot
  BY <1>24 DEF Boot, Return
<1>25. QED BY <1>1, <1>2, <1>3, <1>4, <1>5, <1>6, <1>7, <1>8, <1>9, <1>10, <1>11, <1>12, <1>13,
           <1>14, <1>15, <1>16, <1>17, <1>18, <1>19, <1>20, <1>21, <1>22, <1>23, <1>24
      DEF Next, Work

(* What was reported is saved before the task is done, and linked before the end.*)
LEMMA GatheredStep ==
  ASSUME IInv, Next
  PROVE  Gathered'
<1> USE NoTrialAssumption, ChunksAssumption DEF Gathered, Parts, Box, Reports, Idle, Ran, Own,
      Old, Eras, Place, OneTask, TypeOK, IInv, Mine, Lasts, rowVars, workVars, taskVars,
      ghostVars, boundVars
<1>1. CASE \E S \in SUBSET Trials : Start(S)
  BY <1>1 DEF Start, Queue, Startable
<1>2. CASE \E t \in Trials : Cancel(t)
  BY <1>2 DEF Cancel
<1>3. CASE \E t \in Trials : Stop(t)
  BY <1>3 DEF Stop, Tracked
<1>4. CASE \E t \in Trials : Fetch(t)
  BY <1>4 DEF Fetch
<1>5. CASE Track
  BY <1>5 DEF Track, Go
<1>6. CASE Load
  BY <1>6 DEF Load, Return, Go
<1>7. CASE Run
  BY <1>7 DEF Run, Return
<1>8. CASE Offer
  BY <1>8 DEF Offer, Go
<1>9. CASE TaskDone
  BY <1>9 DEF TaskDone, Go
<1>10. CASE Advance
  BY <1>10 DEF Advance
<1>11. CASE ListBoxes
  BY <1>11 DEF ListBoxes
<1>12. CASE SetTracks
  BY <1>12 DEF SetTracks, Go
<1>13. CASE Finish
  BY <1>13 DEF Finish, Return, Go
<1>14. CASE GiveUp
  BY <1>14 DEF GiveUp, Go
<1>15. CASE CheckCancelled
  BY <1>15 DEF CheckCancelled, Return, Go
<1>16. CASE RecordFailure
  BY <1>16 DEF RecordFailure, Return
<1>17. CASE RecordLost
  BY <1>17 DEF RecordLost, Return, Left
<1>18. CASE Take
  BY <1>18 DEF Take
<1>19. CASE FailTask
  BY <1>19 DEF FailTask
<1>20. CASE \E h \in Handlers, part \in Parts : Report(h, part)
  BY <1>20 DEF Report
<1>21. CASE \E h \in Handlers : Save(h)
  BY <1>21 DEF Save
<1>22. CASE \E h \in Handlers : Signal(h)
  BY <1>22 DEF Signal
<1>23. CASE \E h \in Handlers : HandlerFails(h)
  BY <1>23 DEF HandlerFails
<1>24. CASE Boot
  BY <1>24 DEF Boot, Return
<1>25. QED BY <1>1, <1>2, <1>3, <1>4, <1>5, <1>6, <1>7, <1>8, <1>9, <1>10, <1>11, <1>12, <1>13,
           <1>14, <1>15, <1>16, <1>17, <1>18, <1>19, <1>20, <1>21, <1>22, <1>23, <1>24
      DEF Next, Work

(* Finish makes a trial whole, and no step takes anything from it.          *)
LEMMA SucceededIsWholeStep ==
  ASSUME IInv, Next
  PROVE  SucceededIsWhole'
<1>1. CASE \E S \in SUBSET Trials : Start(S)
  BY <1>1, NoTrialAssumption, ChunksAssumption DEF Start, Queue, Startable, SucceededIsWhole,
       Parts, Box, Reports, Idle, Ran, Own, Old, Eras, Place, Gathered, TypeOK, IInv, Mine, Lasts,
       Reported, rowVars, workVars, taskVars, ghostVars, boundVars
<1>2. CASE \E t \in Trials : Cancel(t)
  BY <1>2, NoTrialAssumption, ChunksAssumption DEF Cancel, SucceededIsWhole, Parts, Box, Reports,
       Idle, Ran, Own, Old, Eras, Place, Gathered, TypeOK, IInv, Mine, Lasts, Reported, rowVars,
       workVars, taskVars, ghostVars, boundVars
<1>3. CASE \E t \in Trials : Stop(t)
  BY <1>3, NoTrialAssumption, ChunksAssumption DEF Stop, Tracked, SucceededIsWhole, Parts, Box,
       Reports, Idle, Ran, Own, Old, Eras, Place, Gathered, TypeOK, IInv, Mine, Lasts, Reported,
       rowVars, workVars, taskVars, ghostVars, boundVars
<1>4. CASE \E t \in Trials : Fetch(t)
  BY <1>4, NoTrialAssumption, ChunksAssumption DEF Fetch, SucceededIsWhole, Parts, Box, Reports,
       Idle, Ran, Own, Old, Eras, Place, Gathered, TypeOK, IInv, Mine, Lasts, Reported, rowVars,
       workVars, taskVars, ghostVars, boundVars
<1>5. CASE Track
  BY <1>5, NoTrialAssumption, ChunksAssumption DEF Track, Go, SucceededIsWhole, Parts, Box,
       Reports, Idle, Ran, Own, Old, Eras, Place, Gathered, TypeOK, IInv, Mine, Lasts, Reported,
       rowVars, workVars, taskVars, ghostVars, boundVars
<1>6. CASE Load
  BY <1>6, NoTrialAssumption, ChunksAssumption DEF Load, Return, Go, SucceededIsWhole, Parts, Box,
       Reports, Idle, Ran, Own, Old, Eras, Place, Gathered, TypeOK, IInv, Mine, Lasts, Reported,
       rowVars, workVars, taskVars, ghostVars, boundVars
<1>7. CASE Run
  BY <1>7, NoTrialAssumption, ChunksAssumption DEF Run, Return, SucceededIsWhole, Parts, Box,
       Reports, Idle, Ran, Own, Old, Eras, Place, Gathered, TypeOK, IInv, Mine, Lasts, Reported,
       rowVars, workVars, taskVars, ghostVars, boundVars
<1>8. CASE Offer
  BY <1>8, NoTrialAssumption, ChunksAssumption DEF Offer, Go, SucceededIsWhole, Parts, Box,
       Reports, Idle, Ran, Own, Old, Eras, Place, Gathered, TypeOK, IInv, Mine, Lasts, Reported,
       rowVars, workVars, taskVars, ghostVars, boundVars
<1>9. CASE TaskDone
  BY <1>9, NoTrialAssumption, ChunksAssumption DEF TaskDone, Go, SucceededIsWhole, Parts, Box,
       Reports, Idle, Ran, Own, Old, Eras, Place, Gathered, TypeOK, IInv, Mine, Lasts, Reported,
       rowVars, workVars, taskVars, ghostVars, boundVars
<1>10. CASE Advance
  BY <1>10, NoTrialAssumption, ChunksAssumption DEF Advance, SucceededIsWhole, Parts, Box,
       Reports, Idle, Ran, Own, Old, Eras, Place, Gathered, TypeOK, IInv, Mine, Lasts, Reported,
       rowVars, workVars, taskVars, ghostVars, boundVars
<1>11. CASE ListBoxes
  BY <1>11, NoTrialAssumption, ChunksAssumption DEF ListBoxes, SucceededIsWhole, Parts, Box,
       Reports, Idle, Ran, Own, Old, Eras, Place, Gathered, TypeOK, IInv, Mine, Lasts, Reported,
       rowVars, workVars, taskVars, ghostVars, boundVars
<1>12. CASE SetTracks
  BY <1>12, NoTrialAssumption, ChunksAssumption DEF SetTracks, Go, SucceededIsWhole, Parts, Box,
       Reports, Idle, Ran, Own, Old, Eras, Place, Gathered, TypeOK, IInv, Mine, Lasts, Reported,
       rowVars, workVars, taskVars, ghostVars, boundVars
<1>13. CASE Finish
  BY <1>13, NoTrialAssumption, ChunksAssumption DEF Finish, Return, Go, SucceededIsWhole, Parts,
       Box, Reports, Idle, Ran, Own, Old, Eras, Place, Gathered, TypeOK, IInv, Mine, Lasts,
       Reported, rowVars, workVars, taskVars, ghostVars, boundVars
<1>14. CASE GiveUp
  BY <1>14, NoTrialAssumption, ChunksAssumption DEF GiveUp, Go, SucceededIsWhole, Parts, Box,
       Reports, Idle, Ran, Own, Old, Eras, Place, Gathered, TypeOK, IInv, Mine, Lasts, Reported,
       rowVars, workVars, taskVars, ghostVars, boundVars
<1>15. CASE CheckCancelled
  BY <1>15, NoTrialAssumption, ChunksAssumption DEF CheckCancelled, Return, Go, SucceededIsWhole,
       Parts, Box, Reports, Idle, Ran, Own, Old, Eras, Place, Gathered, TypeOK, IInv, Mine, Lasts,
       Reported, rowVars, workVars, taskVars, ghostVars, boundVars
<1>16. CASE RecordFailure
  BY <1>16, NoTrialAssumption, ChunksAssumption DEF RecordFailure, Return, SucceededIsWhole,
       Parts, Box, Reports, Idle, Ran, Own, Old, Eras, Place, Gathered, TypeOK, IInv, Mine, Lasts,
       Reported, rowVars, workVars, taskVars, ghostVars, boundVars
<1>17. CASE RecordLost
  BY <1>17, NoTrialAssumption, ChunksAssumption DEF RecordLost, Return, Left, SucceededIsWhole,
       Parts, Box, Reports, Idle, Ran, Own, Old, Eras, Place, Gathered, TypeOK, IInv, Mine, Lasts,
       Reported, rowVars, workVars, taskVars, ghostVars, boundVars
<1>18. CASE Take
  BY <1>18, NoTrialAssumption, ChunksAssumption DEF Take, SucceededIsWhole, Parts, Box, Reports,
       Idle, Ran, Own, Old, Eras, Place, Gathered, TypeOK, IInv, Mine, Lasts, Reported, rowVars,
       workVars, taskVars, ghostVars, boundVars
<1>19. CASE FailTask
  BY <1>19, NoTrialAssumption, ChunksAssumption DEF FailTask, SucceededIsWhole, Parts, Box,
       Reports, Idle, Ran, Own, Old, Eras, Place, Gathered, TypeOK, IInv, Mine, Lasts, Reported,
       rowVars, workVars, taskVars, ghostVars, boundVars
<1>20. CASE \E h \in Handlers, part \in Parts : Report(h, part)
  <2>1. PICK h \in Handlers, part \in Parts : Report(h, part)
    BY <1>20
  <2>2. Ran
    BY <2>1 DEF Report, IInv, OneTask, Ran
  <2>3. cur \in Trials
    BY <2>2 DEF Ran, IInv, TypeOK
  <2>4. status[cur] = "succeeded" => mine # era[cur]
    BY <2>2 DEF IInv, Place
  <2> DEFINE box == [era |-> mine, chunk |-> next, part |-> part]
  <2>5. box.era = mine
    OBVIOUS
  <2>6. found' = [found EXCEPT ![cur] = @ \cup {box}] /\ UNCHANGED <<status, boxes, linked, era>>
    BY <2>1 DEF Report, rowVars
  <2> HIDE DEF box
  <2>7. SUFFICES ASSUME NEW t \in Trials, status'[t] = "succeeded"
                 PROVE  Reported(t)' \subseteq boxes'[t] \cap linked'[t]
    BY DEF SucceededIsWhole
  <2>8. {b \in found'[t] : b.era = era'[t]} = {b \in found[t] : b.era = era[t]}
    BY <2>4, <2>5, <2>6, <2>7 DEF IInv, TypeOK
  <2>9. Reported(t)' = Reported(t)
    BY <2>6, <2>8 DEF Reported
  <2>10. QED BY <2>6, <2>7, <2>9 DEF IInv, SucceededIsWhole
<1>21. CASE \E h \in Handlers : Save(h)
  BY <1>21, NoTrialAssumption, ChunksAssumption DEF Save, SucceededIsWhole, Parts, Box, Reports,
       Idle, Ran, Own, Old, Eras, Place, Gathered, TypeOK, IInv, Mine, Lasts, Reported, rowVars,
       workVars, taskVars, ghostVars, boundVars
<1>22. CASE \E h \in Handlers : Signal(h)
  BY <1>22, NoTrialAssumption, ChunksAssumption DEF Signal, SucceededIsWhole, Parts, Box, Reports,
       Idle, Ran, Own, Old, Eras, Place, Gathered, TypeOK, IInv, Mine, Lasts, Reported, rowVars,
       workVars, taskVars, ghostVars, boundVars
<1>23. CASE \E h \in Handlers : HandlerFails(h)
  BY <1>23, NoTrialAssumption, ChunksAssumption DEF HandlerFails, SucceededIsWhole, Parts, Box,
       Reports, Idle, Ran, Own, Old, Eras, Place, Gathered, TypeOK, IInv, Mine, Lasts, Reported,
       rowVars, workVars, taskVars, ghostVars, boundVars
<1>24. CASE Boot
  BY <1>24, NoTrialAssumption, ChunksAssumption DEF Boot, Return, SucceededIsWhole, Parts, Box,
       Reports, Idle, Ran, Own, Old, Eras, Place, Gathered, TypeOK, IInv, Mine, Lasts, Reported,
       rowVars, workVars, taskVars, ghostVars, boundVars
<1>25. QED BY <1>1, <1>2, <1>3, <1>4, <1>5, <1>6, <1>7, <1>8, <1>9, <1>10, <1>11, <1>12, <1>13,
           <1>14, <1>15, <1>16, <1>17, <1>18, <1>19, <1>20, <1>21, <1>22, <1>23, <1>24
      DEF Next, Work

(* IInv is inductive.                                                       *)
LEMMA Inductive ==
  ASSUME IInv, [Next]_vars
  PROVE  IInv'
<1>1. CASE Next
  <2>1. TypeOK'
    BY <1>1, TypeOKStep DEF IInv
  <2>2. QED BY <1>1, <2>1, ErasStep, PlaceStep, KeptStep, OneTaskStep, GatheredStep,
               SucceededIsWholeStep DEF IInv
<1>2. CASE UNCHANGED vars
  <2>1. TypeOK'
    BY <1>2 DEF IInv, TypeOK, vars, rowVars, workVars, taskVars, ghostVars, boundVars
  <2>2. Eras' /\ Kept' /\ SucceededIsWhole'
    BY <1>2 DEF IInv, Eras, Old, Kept, SucceededIsWhole, Reported, vars, rowVars, workVars,
         taskVars, ghostVars
  <2>3. Place' /\ OneTask'
    BY <1>2 DEF IInv, Place, OneTask, Own, Ran, vars, rowVars, workVars, taskVars, ghostVars
  <2>4. Gathered'
    BY <1>2 DEF IInv, Gathered, Own, Ran, Mine, Lasts, vars, rowVars, workVars, taskVars,
         ghostVars
  <2>5. QED BY <2>1, <2>2, <2>3, <2>4 DEF IInv
<1>3. QED BY <1>1, <1>2

(* The inductive invariant holds in every reachable state.                  *)
THEOREM InvariantHolds == Spec => []IInv
BY InitHolds, Inductive, PTL DEF Spec

(* Every variable of ModelTrial keeps its type.                             *)
THEOREM TypeCorrect == Spec => []TypeOK
<1>1. IInv => TypeOK
  BY DEF IInv
<1>2. QED BY <1>1, InvariantHolds, PTL

(* A trial that StartModelTrial queued has a job or the goroutine, and a     *)
(* running one the goroutine, but for those a crash or a lost write left.   *)
THEOREM ActiveAttended == Spec => []Attended
<1>1. IInv => Attended
  BY DEF IInv, Kept, Attended
<1>2. QED BY <1>1, InvariantHolds, PTL

(* FinishModelTrial finds every box of its own attempt saved and linked.    *)
THEOREM FinishedIsWhole == Spec => []SucceededIsWhole
<1>1. IInv => SucceededIsWhole
  BY DEF IInv
<1>2. QED BY <1>1, InvariantHolds, PTL

(* No step but StartModelTrial's moves a trial out of "cancelled": not the   *)
(* goroutine's RunModelTrial, FinishModelTrial or FailModelTrial.           *)
THEOREM CancelHolds == Spec => CancelSticks
<1> DEFINE Sticks == \A t \in Trials : status[t] = "cancelled"
                                        => status'[t] \in {"cancelled", "queued"}
<1>1. IInv /\ [Next]_vars => [Sticks]_vars
  <2> SUFFICES ASSUME IInv, Next PROVE Sticks
    BY DEF vars, rowVars
  <2>1. CASE \E S \in SUBSET Trials : Start(S)
    BY <2>1 DEF Start, Queue, IInv, TypeOK
  <2>2. CASE \E t \in Trials : Cancel(t) \/ Stop(t) \/ Fetch(t)
    BY <2>2 DEF Cancel, Stop, Fetch, IInv, TypeOK, rowVars
  <2>3. CASE Run \/ Finish \/ RecordFailure
    BY <2>3 DEF Run, Finish, RecordFailure, Active, IInv, TypeOK
  <2>4. CASE \/ Track \/ Load \/ Offer \/ TaskDone \/ Advance \/ ListBoxes \/ SetTracks
             \/ GiveUp \/ CheckCancelled \/ RecordLost
    BY <2>4 DEF Track, Load, Offer, TaskDone, Advance, ListBoxes, SetTracks, GiveUp,
         CheckCancelled, RecordLost, rowVars
  <2>5. CASE \/ Take \/ FailTask
             \/ \E h \in Handlers : \/ \E part \in Parts : Report(h, part)
                                    \/ Save(h) \/ Signal(h) \/ HandlerFails(h)
    BY <2>5 DEF Take, FailTask, Report, Save, Signal, HandlerFails, rowVars
  <2>6. CASE Boot
    BY <2>6 DEF Boot, IInv, TypeOK
  <2>7. QED BY <2>1, <2>2, <2>3, <2>4, <2>5, <2>6 DEF Next, Work
<1>2. QED BY <1>1, InvariantHolds, PTL DEF Spec, CancelSticks

(* What a finished trial shows stays: no late report, goroutine or restart   *)
(* changes it, and it cannot be started again.                              *)
THEOREM FinishedStays == Spec => SucceededStays
<1> DEFINE Stays == \A t \in Trials : status[t] = "succeeded" =>
                      /\ status'[t] = "succeeded" /\ boxes'[t] = boxes[t] /\ linked'[t] = linked[t]
<1>1. IInv /\ [Next]_vars => [Stays]_vars
  <2> SUFFICES ASSUME IInv, Next PROVE Stays
    BY DEF vars, rowVars
  <2>1. CASE \E S \in SUBSET Trials : Start(S)
    BY <2>1 DEF Start, Queue, Startable, IInv, TypeOK
  <2>2. CASE \E t \in Trials : Cancel(t) \/ Stop(t) \/ Fetch(t)
    BY <2>2 DEF Cancel, Stop, Fetch, Active, IInv, TypeOK, rowVars
  <2>3. CASE Run \/ Finish \/ RecordFailure
    BY <2>3 DEF Run, Finish, RecordFailure, Active, IInv, TypeOK
  <2>4. CASE SetTracks
    <3>1. cur \in Trials /\ status[cur] # "succeeded"
      BY <2>4 DEF SetTracks, IInv, TypeOK, Place, Ran
    <3>2. QED BY <2>4, <3>1 DEF SetTracks, IInv, TypeOK
  <2>5. CASE \/ Track \/ Load \/ Offer \/ TaskDone \/ Advance \/ ListBoxes
             \/ GiveUp \/ CheckCancelled \/ RecordLost
    BY <2>5 DEF Track, Load, Offer, TaskDone, Advance, ListBoxes, GiveUp,
         CheckCancelled, RecordLost, rowVars
  <2>6. CASE \E h \in Handlers : Save(h)
    BY <2>6 DEF Save, IInv, TypeOK
  <2>7. CASE \/ Take \/ FailTask
             \/ \E h \in Handlers : \/ \E part \in Parts : Report(h, part)
                                    \/ Signal(h) \/ HandlerFails(h)
    BY <2>7 DEF Take, FailTask, Report, Signal, HandlerFails, rowVars
  <2>8. CASE Boot
    BY <2>8 DEF Boot, IInv, TypeOK
  <2>9. QED BY <2>1, <2>2, <2>3, <2>4, <2>5, <2>6, <2>7, <2>8 DEF Next, Work
<1>2. QED BY <1>1, InvariantHolds, PTL DEF Spec, SucceededStays

===============================================================================
