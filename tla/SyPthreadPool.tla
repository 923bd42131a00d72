--------------------------- MODULE SyPthreadPool ---------------------------
(***************************************************************************)
(* The thread pool of SyPthreadPool.cpp: a ring of tasks under one mutex   *)
(* (Pthlock) and one condition variable (Pthcond), the worker loop         *)
(* SyPthreadPool_thread, and the operations Initialize, AddTaskFunc and    *)
(* Close that other threads call.                                          *)
(*                                                                         *)
(* Taking the mutex is a step of its own; what a thread does while it      *)
(* holds the mutex, up to the unlock, is one step.  The mutex is created   *)
(* with default attributes: it is not recursive, so a thread that locks it *)
(* twice waits for itself, and a thread that returns without unlocking     *)
(* keeps it.  Tasks are numbered in the order of their acceptance; what a  *)
(* task computes (startfunc, arg) is left out.                             *)
(***************************************************************************)
EXTENDS Integers, FiniteSets

CONSTANTS
  Workers,    \* the thread_count threads Initialize creates
  Producers,  \* the threads that call AddTaskFunc
  Main,       \* the one that runs Initialize and calls Close
  QueueSize,  \* queue_size, SetTaskNum of Config.ini
  MaxTasks,   \* bound on the number of calls that are accepted
  NoThread    \* "the mutex is free"

ASSUME PoolAssumption ==
  /\ IsFiniteSet(Workers)
  /\ Main \in Producers
  /\ Workers \cap Producers = {}
  /\ NoThread \notin Workers \cup Producers
  /\ QueueSize \in Nat
  /\ MaxTasks \in Nat

VARIABLES
  lock,          \* Pthlock: the thread that holds it, or NoThread
  Taskqueue,     \* the ring; 0 is a slot never written
  count, HeadIndex, TailIndex,
  PthpoolClose,  \* the flag the workers test
  started,       \* number of threads created and not exited
  PthreadStatus, \* PTHREAD_STATUS_CLOSE or PTHREAD_STATUS_WORK
  freed,         \* SyPthreadPool_free deleted the pool
  wpc,           \* where each worker is
  PthTask,       \* the task each worker took, 0 for none
  ppc,           \* where each producer is
  accepted,      \* history: number of tasks AddTaskFunc accepted
  done           \* history: the tasks whose function returned

ring == <<Taskqueue, count, HeadIndex, TailIndex>>
vars == <<lock, ring, PthpoolClose, started, PthreadStatus, freed, wpc,
          PthTask, ppc, accepted, done>>

Threads == Workers \cup Producers

(* Mutated: the index is reset to the wrong slot. *)
Succ_WrapToOne(i) == IF i + 1 = QueueSize THEN 1 ELSE i + 1

(* The slot after i: the index is reset when it reaches queue_size. *)
Succ(i) == IF i + 1 = QueueSize THEN 0 ELSE i + 1

(* The slot i places after HeadIndex. *)
Slot(i) == IF HeadIndex + i < QueueSize
           THEN HeadIndex + i ELSE HeadIndex + i - QueueSize

(* Where a worker is: not created; about to lock Pthlock (also after       *)
(* leaving pthread_cond_wait); holding it; asleep in pthread_cond_wait;    *)
(* running a task; exited; or lost, having used the pool's freed memory,   *)
(* after which the program's behaviour is undefined and no longer tracked. *)
WorkerPC == {"none", "lock", "scan", "wait", "run", "exit", "lost"}

(* Where a producer is: inside Initialize (Main only); outside the pool;   *)
(* in AddTaskFunc before and after locking; in Close before locking, after *)
(* locking, and about to free the pool; returned from Close; or lost.      *)
ProducerPC == {"init", "idle", "addlock", "add",
               "closelock", "close", "free", "closed", "lost"}

Init ==
  /\ lock = NoThread
  /\ Taskqueue = [i \in 0 .. QueueSize - 1 |-> 0]
  /\ count = 0 /\ HeadIndex = 0 /\ TailIndex = 0
  /\ PthpoolClose = FALSE
  /\ started = 0
  /\ PthreadStatus = "PTHREAD_STATUS_CLOSE"
  /\ freed = FALSE
  /\ wpc = [w \in Workers |-> "none"]
  /\ PthTask = [w \in Workers |-> 0]
  /\ ppc = [p \in Producers |-> IF p = Main THEN "init" ELSE "idle"]
  /\ accepted = 0
  /\ done = {}

-----------------------------------------------------------------------------
(* Initialize: the pool is laid out as in Init, then the threads are       *)
(* created one by one; each runs at once, before Initialize has returned.  *)

CreateThread(w) ==
  /\ ppc[Main] = "init" /\ wpc[w] = "none"
  /\ wpc' = [wpc EXCEPT ![w] = "lock"]
  /\ started' = started + 1
  /\ UNCHANGED <<lock, ring, PthpoolClose, PthreadStatus, freed, PthTask, ppc,
                 accepted, done>>

(* pthread_create fails: Initialize returns NULL, the threads already      *)
(* created stay, and the caller only logs it.                              *)
CreateFails ==
  /\ ppc[Main] = "init" /\ \E w \in Workers : wpc[w] = "none"
  /\ ppc' = [ppc EXCEPT ![Main] = "idle"]
  /\ UNCHANGED <<lock, ring, PthpoolClose, started, PthreadStatus, freed, wpc,
                 PthTask, accepted, done>>

InitializeReturns ==
  /\ ppc[Main] = "init" /\ \A w \in Workers : wpc[w] # "none"
  /\ ppc' = [ppc EXCEPT ![Main] = "idle"]
  /\ PthreadStatus' = "PTHREAD_STATUS_WORK"
  /\ UNCHANGED <<lock, ring, PthpoolClose, started, freed, wpc, PthTask,
                 accepted, done>>

-----------------------------------------------------------------------------
(* SyPthreadPool_thread.                                                   *)

WorkerLock(w) ==
  /\ wpc[w] = "lock" /\ lock = NoThread /\ ~freed
  /\ lock' = w
  /\ wpc' = [wpc EXCEPT ![w] = "scan"]
  /\ UNCHANGED <<ring, PthpoolClose, started, PthreadStatus, freed, PthTask, ppc,
                 accepted, done>>

MustWait == count = 0 /\ ~PthpoolClose

(* Mutated: the worker polls for a task with the mutex held. *)
WorkerWait_Polling(w) ==
  /\ wpc[w] = "scan" /\ ~freed /\ MustWait
  /\ UNCHANGED vars

(* pthread_cond_wait: release the mutex and sleep, in one step. *)
WorkerWait(w) ==
  /\ wpc[w] = "scan" /\ ~freed /\ MustWait
  /\ lock' = NoThread
  /\ wpc' = [wpc EXCEPT ![w] = "wait"]
  /\ UNCHANGED <<ring, PthpoolClose, started, PthreadStatus, freed, PthTask, ppc,
                 accepted, done>>

(* The queue is full: `continue` goes back to pthread_mutex_lock with the  *)
(* mutex still held.                                                       *)
WorkerContinue(w) ==
  /\ wpc[w] = "scan" /\ ~freed /\ ~MustWait /\ count = QueueSize
  /\ wpc' = [wpc EXCEPT ![w] = "lock"]
  /\ UNCHANGED <<lock, ring, PthpoolClose, started, PthreadStatus, freed, PthTask,
                 ppc, accepted, done>>

(* Leave if the pool is flagged closed; otherwise take the task at         *)
(* HeadIndex and unlock.                                                   *)
WorkerTake(w) ==
  /\ wpc[w] = "scan" /\ ~freed /\ ~MustWait /\ count # QueueSize
  /\ lock' = NoThread
  /\ IF PthpoolClose
     THEN /\ wpc' = [wpc EXCEPT ![w] = "exit"]
          /\ started' = started - 1
          /\ UNCHANGED <<PthTask, HeadIndex, count>>
     ELSE /\ PthTask' = [PthTask EXCEPT ![w] = Taskqueue[HeadIndex]]
          /\ HeadIndex' = Succ(HeadIndex)
          /\ count' = count - 1
          /\ wpc' = [wpc EXCEPT ![w] = "run"]
          /\ UNCHANGED started
  /\ UNCHANGED <<Taskqueue, TailIndex, PthpoolClose, PthreadStatus, freed, ppc,
                 accepted, done>>

(* func(PthTask.arg) returns. *)
WorkerRun(w) ==
  /\ wpc[w] = "run"
  /\ done' = done \cup {PthTask[w]}
  /\ PthTask' = [PthTask EXCEPT ![w] = 0]
  /\ wpc' = [wpc EXCEPT ![w] = "lock"]
  /\ UNCHANGED <<lock, ring, PthpoolClose, started, PthreadStatus, freed, ppc,
                 accepted>>

(* pthread_cond_wait may return without a signal. *)
SpuriousWakeup(w) ==
  /\ wpc[w] = "wait"
  /\ wpc' = [wpc EXCEPT ![w] = "lock"]
  /\ UNCHANGED <<lock, ring, PthpoolClose, started, PthreadStatus, freed, PthTask,
                 ppc, accepted, done>>

-----------------------------------------------------------------------------
(* AddTaskFunc.  A NULL callback is refused before anything is touched.    *)
(* The bound MaxTasks keeps a producer from getting the mutex.             *)

AddTaskFunc(p) ==
  /\ ppc[Main] # "init" /\ ppc[p] = "idle"
  /\ ppc' = [ppc EXCEPT ![p] = "addlock"]
  /\ UNCHANGED <<lock, ring, PthpoolClose, started, PthreadStatus, freed, wpc,
                 PthTask, accepted, done>>

AddLock(p) ==
  /\ ppc[p] = "addlock" /\ lock = NoThread /\ ~freed /\ accepted < MaxTasks
  /\ lock' = p
  /\ ppc' = [ppc EXCEPT ![p] = "add"]
  /\ UNCHANGED <<ring, PthpoolClose, started, PthreadStatus, freed, wpc, PthTask,
                 accepted, done>>

(* Mutated: one slot is kept empty to tell a full ring from an empty one. *)
AddQueueIsMax_OneEarly(p) ==
  /\ ppc[p] = "add" /\ ~freed /\ count + 1 = QueueSize
  /\ ppc' = [ppc EXCEPT ![p] = "idle"]
  /\ UNCHANGED <<lock, ring, PthpoolClose, started, PthreadStatus, freed, wpc,
                 PthTask, accepted, done>>

(* QueueIsMax: an early return that does not unlock. *)
AddQueueIsMax(p) ==
  /\ ppc[p] = "add" /\ ~freed /\ count = QueueSize
  /\ ppc' = [ppc EXCEPT ![p] = "idle"]
  /\ UNCHANGED <<lock, ring, PthpoolClose, started, PthreadStatus, freed, wpc,
                 PthTask, accepted, done>>

(* Mutated: no signal, or a signal only when the ring was empty. *)
Signal_Missing == UNCHANGED wpc
Signal_WhenEmpty ==
  LET asleep == {w \in Workers : wpc[w] = "wait" /\ count = 0}
  IN  \/ asleep = {} /\ UNCHANGED wpc
      \/ \E w \in asleep : wpc' = [wpc EXCEPT ![w] = "lock"]

(* pthread_cond_signal wakes one sleeping worker, if there is one. *)
Signal ==
  LET asleep == {w \in Workers : wpc[w] = "wait"}
  IN  \/ asleep = {} /\ UNCHANGED wpc
      \/ \E w \in asleep : wpc' = [wpc EXCEPT ![w] = "lock"]

(* Call Close if the pool is flagged closed, with the mutex held;          *)
(* otherwise store the task at TailIndex, signal and unlock.               *)
AddTask(p) ==
  /\ ppc[p] = "add" /\ ~freed /\ count # QueueSize
  /\ IF PthpoolClose
     THEN /\ ppc' = [ppc EXCEPT ![p] = "closelock"]
          /\ PthreadStatus' = "PTHREAD_STATUS_CLOSE"
          /\ UNCHANGED <<lock, Taskqueue, TailIndex, count, accepted, wpc>>
     ELSE /\ Taskqueue' = [Taskqueue EXCEPT ![TailIndex] = accepted + 1]
          /\ TailIndex' = Succ(TailIndex)
          /\ count' = count + 1
          /\ accepted' = accepted + 1
          /\ Signal
          /\ lock' = NoThread
          /\ ppc' = [ppc EXCEPT ![p] = "idle"]
          /\ UNCHANGED PthreadStatus
  /\ UNCHANGED <<HeadIndex, PthpoolClose, started, freed, PthTask, done>>

-----------------------------------------------------------------------------
(* Close: lock, wake every worker, unlock, free.  PthpoolClose stays.      *)

Close ==
  /\ ppc[Main] = "idle"
  /\ ppc' = [ppc EXCEPT ![Main] = "closelock"]
  /\ PthreadStatus' = "PTHREAD_STATUS_CLOSE"
  /\ UNCHANGED <<lock, ring, PthpoolClose, started, freed, wpc, PthTask, accepted,
                 done>>

CloseLock(p) ==
  /\ ppc[p] = "closelock" /\ lock = NoThread /\ ~freed
  /\ lock' = p
  /\ ppc' = [ppc EXCEPT ![p] = "close"]
  /\ UNCHANGED <<ring, PthpoolClose, started, PthreadStatus, freed, wpc, PthTask,
                 accepted, done>>

CloseBroadcast(p) ==
  /\ ppc[p] = "close" /\ ~freed
  /\ wpc' = [w \in Workers |-> IF wpc[w] = "wait" THEN "lock" ELSE wpc[w]]
  /\ lock' = NoThread
  /\ ppc' = [ppc EXCEPT ![p] = "free"]
  /\ UNCHANGED <<ring, PthpoolClose, started, PthreadStatus, freed, PthTask,
                 accepted, done>>

(* SyPthreadPool_free: threads is set to NULL before it is tested, so the  *)
(* mutex and the condition variable are not destroyed; the memory of all   *)
(* of them is deleted.                                                     *)
SyPthreadPool_free(p) ==
  /\ ppc[p] = "free" /\ ~freed
  /\ freed' = TRUE
  /\ ppc' = [ppc EXCEPT ![p] = "closed"]
  /\ UNCHANGED <<lock, ring, PthpoolClose, started, PthreadStatus, wpc, PthTask,
                 accepted, done>>

(* A thread whose next step reads or writes the pool after it was freed.   *)
WorkerUsesFreed(w) ==
  /\ freed /\ wpc[w] \in {"lock", "scan"}
  /\ wpc' = [wpc EXCEPT ![w] = "lost"]
  /\ UNCHANGED <<lock, ring, PthpoolClose, started, PthreadStatus, freed, PthTask,
                 ppc, accepted, done>>

ProducerUsesFreed(p) ==
  /\ freed /\ ppc[p] \in {"addlock", "add"}
  /\ ppc' = [ppc EXCEPT ![p] = "lost"]
  /\ UNCHANGED <<lock, ring, PthpoolClose, started, PthreadStatus, freed, wpc,
                 PthTask, accepted, done>>

-----------------------------------------------------------------------------
WorkerStep(w) ==
  \/ CreateThread(w)
  \/ WorkerLock(w) \/ WorkerWait(w) \/ WorkerContinue(w) \/ WorkerTake(w)
  \/ WorkerRun(w) \/ SpuriousWakeup(w) \/ WorkerUsesFreed(w)

ProducerStep(p) ==
  \/ AddTaskFunc(p) \/ AddLock(p) \/ AddQueueIsMax(p) \/ AddTask(p)
  \/ CloseLock(p) \/ CloseBroadcast(p) \/ SyPthreadPool_free(p)
  \/ ProducerUsesFreed(p)

Next ==
  \/ CreateFails \/ InitializeReturns \/ Close
  \/ \E w \in Workers : WorkerStep(w)
  \/ \E p \in Producers : ProducerStep(p)

Spec == Init /\ [][Next]_vars

(* The scheduler runs every thread that can run, a thread that waits for   *)
(* the mutex gets it if it is released again and again, and tasks return.  *)
(* Nobody is obliged to call AddTaskFunc or Close, and spurious wake-ups   *)
(* and failures of pthread_create are not owed to anyone.                  *)
Fairness ==
  /\ \A w \in Workers :
       /\ SF_vars(WorkerLock(w))
       /\ WF_vars(WorkerWait(w) \/ WorkerContinue(w) \/ WorkerTake(w))
       /\ WF_vars(WorkerRun(w))
  /\ \A p \in Producers :
       /\ SF_vars(AddLock(p)) /\ SF_vars(CloseLock(p))
       /\ WF_vars(AddQueueIsMax(p) \/ AddTask(p))
       /\ WF_vars(CloseBroadcast(p)) /\ WF_vars(SyPthreadPool_free(p))
  /\ WF_vars(InitializeReturns)
  /\ \A w \in Workers : WF_vars(CreateThread(w))

FairSpec == Spec /\ Fairness

-----------------------------------------------------------------------------
(* Properties.                                                             *)

(* Every variable has its type; in particular an index never leaves the    *)
(* ring.                                                                   *)
TypeOK ==
  /\ lock \in Threads \cup {NoThread}
  /\ Taskqueue \in [0 .. QueueSize - 1 -> 0 .. MaxTasks]
  /\ count \in 0 .. QueueSize
  /\ HeadIndex \in Nat /\ TailIndex \in Nat
  /\ QueueSize > 0 => HeadIndex < QueueSize /\ TailIndex < QueueSize
  /\ PthpoolClose \in BOOLEAN
  /\ started \in Int
  /\ PthreadStatus \in {"PTHREAD_STATUS_CLOSE", "PTHREAD_STATUS_WORK"}
  /\ freed \in BOOLEAN
  /\ wpc \in [Workers -> WorkerPC]
  /\ PthTask \in [Workers -> 0 .. MaxTasks]
  /\ ppc \in [Producers -> ProducerPC]
  /\ accepted \in 0 .. MaxTasks
  /\ done \in SUBSET (1 .. MaxTasks)

(* The slots from HeadIndex on hold exactly the accepted tasks no worker   *)
(* has taken, in the order AddTaskFunc accepted them, wherever the two     *)
(* indices have wrapped; so a worker never runs a slot that was not        *)
(* written, and never the same slot's old task again.                      *)
RingHoldsBacklog ==
  /\ \A i \in 0 .. count - 1 : Taskqueue[Slot(i)] = accepted - count + 1 + i
  /\ TailIndex = Slot(count)

(* Every task that left the ring was run, or is being run by exactly one   *)
(* worker: no task is lost between the ring and a worker, and none is run  *)
(* twice, whichever workers the signals and the broadcast wake.            *)
TakenOnce ==
  /\ \A w \in Workers : PthTask[w] # 0 => PthTask[w] \notin done
  /\ \A v, w \in Workers : PthTask[v] = PthTask[w] /\ v # w => PthTask[v] = 0
  /\ \A k \in 1 .. MaxTasks :
       k <= accepted - count <=> k \in done \/ \E w \in Workers : PthTask[w] = k

Awake  == {w \in Workers : wpc[w] \in {"lock", "scan", "run"}}
Asleep == {w \in Workers : wpc[w] = "wait"}

(* No wake-up is lost: while a worker sleeps in pthread_cond_wait, there   *)
(* are at least as many workers awake as there are tasks in the ring, so   *)
(* no task waits only for a signal that was already sent.                  *)
NoLostWakeup ==
  ~freed => Asleep = {} \/ count <= Cardinality(Awake)

(* A thread holds the mutex where no unlock follows.                       *)
KeptByWorker(w)   == lock = w /\ wpc[w] # "scan"
KeptByProducer(p) == lock = p /\ ppc[p] \notin {"add", "close"}
Jammed == ~freed /\ ( \/ \E w \in Workers : KeptByWorker(w)
                     \/ \E p \in Producers : KeptByProducer(p) )

(* The mutex is kept by a thread that will not release it (the `continue`  *)
(* of the worker, the QueueIsMax return of AddTaskFunc) only when the      *)
(* ring is full: a pool whose ring never fills never jams.                 *)
JamsOnlyWhenFull == Jammed => count = QueueSize

(* Once jammed the pool stays so: no later call or return releases the     *)
(* mutex or moves a task, unless the memory itself is freed.               *)
JamIsForever == [][Jammed => UNCHANGED <<lock, ring>> /\ (Jammed' \/ freed')]_vars

(* The pool does what TaskPool promises: first accepted, first taken, one  *)
(* worker each, also while it jams, closes or has been freed.              *)
Pool == INSTANCE TaskPool WITH
          Capacity <- QueueSize,
          waiting  <- [i \in 1 .. count |-> Taskqueue[Slot(i - 1)]],
          running  <- PthTask

ImplementsTaskPool == Pool!Spec

Closing == ppc[Main] \in {"closelock", "close", "free", "closed"}

(* Every accepted task is eventually run, if some worker was created, the  *)
(* ring never fills and nobody closes the pool: the signals sent for tasks *)
(* that arrive while every worker is busy are not needed.                  *)
DrainsUnlessFull ==
  ( /\ [](count < QueueSize /\ ~Closing)
    /\ <>(\E w \in Workers : wpc[w] # "none") )
  => \A k \in 1 .. MaxTasks : k <= accepted ~> k \in done

(* Close returns, whatever workers and producers do meanwhile, if the pool *)
(* is not jammed.                                                          *)
CloseReturns ==
  []~Jammed => (ppc[Main] = "closelock" ~> ppc[Main] = "closed")

(* SyPthreadPool.h:23 calls queue_size the largest number of tasks the     *)
(* queue holds and :52 QueueIsMax the report that it is full: a full queue *)
(* should be served until there is room again.                             *)
FullQueueDrains ==
  []~Closing /\ <>(\E w \in Workers : wpc[w] # "none")
  => (count = QueueSize ~> count < QueueSize)

=============================================================================
