------------------------------- MODULE TaskLine -------------------------------
(***************************************************************************)
(* What the dispatcher promises the jobs and the workers: one line, kept   *)
(* in order of priority and then of arrival, from whose head workers take  *)
(* tasks.  A task leaves the line once, by being taken or by being         *)
(* refused, and nothing in between can be seen.                            *)
(***************************************************************************)
EXTENDS Integers, FiniteSets, SequencesExt

CONSTANTS Tasks, Rank   \* Rank: the priority of each task, smaller first

VARIABLES line, fate

vars == <<line, fate>>

Fates == {"new", "waiting", "taken", "refused", "lost"}

Init == line = <<>> /\ fate = [t \in Tasks |-> "new"]

(* A task joins behind everything of its own rank or a smaller one. *)
Offer(t) ==
  /\ fate[t] = "new"
  /\ LET ahead == Cardinality({i \in DOMAIN line : Rank[line[i]] <= Rank[t]})
     IN  line' = InsertAt(line, ahead + 1, t)
  /\ fate' = [fate EXCEPT ![t] = "waiting"]

Take ==
  /\ line # <<>>
  /\ line' = Tail(line)
  /\ fate' = [fate EXCEPT ![Head(line)] = "taken"]

Refuse(t) ==
  /\ fate[t] = "waiting"
  /\ \E i \in DOMAIN line : line[i] = t /\ line' = RemoveAt(line, i)
  /\ fate' = [fate EXCEPT ![t] = "refused"]

(* The line is in memory only: whoever waits, or was about to, is lost. *)
Crash ==
  /\ line' = <<>>
  /\ \E S \in SUBSET Tasks :
       /\ {t \in Tasks : fate[t] = "waiting"} \subseteq S
       /\ S \subseteq {t \in Tasks : fate[t] \in {"new", "waiting"}}
       /\ fate' = [t \in Tasks |-> IF t \in S THEN "lost" ELSE fate[t]]

Next == (\E t \in Tasks : Offer(t) \/ Refuse(t)) \/ Take \/ Crash

Spec == Init /\ [][Next]_vars
===============================================================================
