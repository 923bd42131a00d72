------------------------------ MODULE TaskPool ------------------------------
(***************************************************************************)
(* What a pool of worker threads promises its clients, without locks,      *)
(* condition variables or a ring: the accepted tasks, numbered in the      *)
(* order of their acceptance, wait in a bounded queue, each is taken by    *)
(* exactly one worker, the oldest first, and is run once.                  *)
(* SyPthreadPool is shown to implement this specification.                 *)
(***************************************************************************)
EXTENDS Naturals, Sequences

CONSTANTS
  Workers,    \* the worker threads
  Capacity    \* the largest number of tasks that may wait

VARIABLES
  accepted,   \* number of tasks accepted so far; task k is the k-th accepted
  waiting,    \* the tasks that wait, oldest first
  running,    \* the task each worker runs, 0 for none
  done        \* the tasks that were run

vars == <<accepted, waiting, running, done>>

Init ==
  /\ accepted = 0
  /\ waiting = <<>>
  /\ running = [w \in Workers |-> 0]
  /\ done = {}

(* A client hands over a task while the queue has room. *)
Submit ==
  /\ Len(waiting) < Capacity
  /\ accepted' = accepted + 1
  /\ waiting' = Append(waiting, accepted + 1)
  /\ UNCHANGED <<running, done>>

(* An idle worker takes the oldest waiting task. *)
Take(w) ==
  /\ running[w] = 0
  /\ waiting # <<>>
  /\ running' = [running EXCEPT ![w] = Head(waiting)]
  /\ waiting' = Tail(waiting)
  /\ UNCHANGED <<accepted, done>>

(* A worker finishes its task. *)
Finish(w) ==
  /\ running[w] # 0
  /\ done' = done \cup {running[w]}
  /\ running' = [running EXCEPT ![w] = 0]
  /\ UNCHANGED <<accepted, waiting>>

Next == Submit \/ \E w \in Workers : Take(w) \/ Finish(w)

Spec == Init /\ [][Next]_vars
=============================================================================
