----------------------------- MODULE MCDispatcher -----------------------------
(* Small instances of Dispatcher for TLC. *)
EXTENDS Dispatcher

CONSTANTS t1, t2, w1, w2

\* A click and a training run on one or two workers.
MCTwoTasks == {t1, t2}
MCTrainTrack == (t1 :> "track") @@ (t2 :> "train")
MCWorkers == {w1, w2}
MCOneWorker == {w1}
===============================================================================
