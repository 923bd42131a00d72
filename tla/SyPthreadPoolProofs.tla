------------------------ MODULE SyPthreadPoolProofs ------------------------
(***************************************************************************)
(* Proofs about SyPthreadPool for any number of workers, producers, slots  *)
(* and tasks.                                                              *)
(***************************************************************************)
EXTENDS SyPthreadPool, FiniteSetTheorems, SequenceTheorems, TLAPS

(* Nothing sets PthpoolClose: the branches that test it are never taken.   *)
NeverFlagged == PthpoolClose = FALSE

(* A thread inside a critical section holds the mutex, and a producer that *)
(* is about to store a task is within the bound.                           *)
Holder ==
  ~freed =>
    /\ \A w \in Workers : wpc[w] = "scan" => lock = w
    /\ \A p \in Producers : ppc[p] \in {"add", "close"} => lock = p
    /\ \A p \in Producers : ppc[p] = "add" => accepted < MaxTasks

(* A worker has a task exactly while it runs one.                          *)
TaskWhileRunning ==
  \A w \in Workers : PthTask[w] # 0 <=> wpc[w] = "run"

IInv ==
  /\ TypeOK
  /\ NeverFlagged
  /\ Holder
  /\ TaskWhileRunning
  /\ count <= accepted
  /\ RingHoldsBacklog
  /\ TakenOnce
  /\ JamsOnlyWhenFull

-----------------------------------------------------------------------------
(* The slot after a slot of the ring is in the ring.                       *)
LEMMA SuccInRing ==
  ASSUME NEW i \in Nat, QueueSize \in Nat, i < QueueSize
  PROVE  Succ(i) \in Nat /\ Succ(i) < QueueSize
  BY DEF Succ

QuietStep == UNCHANGED <<ring, PthTask, accepted, done>>

(* Only a take, an accepted AddTaskFunc and the end of a task move tasks.  *)
LEMMA StepKinds ==
  ASSUME [Next]_vars, NeverFlagged
  PROVE  \/ QuietStep
         \/ \E w \in Workers : WorkerTake(w)
         \/ \E w \in Workers : WorkerRun(w)
         \/ \E p \in Producers : AddTask(p)
<1> USE DEF QuietStep, ring
<1>1. CASE CreateFails \/ InitializeReturns \/ Close
  BY <1>1 DEF CreateFails, InitializeReturns, Close
<1>2. ASSUME NEW w \in Workers, WorkerStep(w)
      PROVE  QuietStep \/ WorkerTake(w) \/ WorkerRun(w)
  BY <1>2 DEF WorkerStep, CreateThread, WorkerLock, WorkerWait, WorkerContinue,
              SpuriousWakeup, WorkerUsesFreed
<1>3. ASSUME NEW p \in Producers, ProducerStep(p)
      PROVE  QuietStep \/ AddTask(p)
  BY <1>3 DEF ProducerStep, AddTaskFunc, AddLock, AddQueueIsMax, CloseLock,
              CloseBroadcast, SyPthreadPool_free, ProducerUsesFreed
<1>4. CASE UNCHANGED vars
  BY <1>4 DEF vars
<1> QED BY <1>1, <1>2, <1>3, <1>4 DEF Next

(* No step takes a variable out of its type or flags the pool closed.      *)
LEMMA TypeStep ==
  ASSUME TypeOK, NeverFlagged, Holder, TaskWhileRunning, [Next]_vars
  PROVE  TypeOK' /\ NeverFlagged'
<1> USE PoolAssumption DEF TypeOK, NeverFlagged, Threads, WorkerPC, ProducerPC, ring
<1>1. CASE CreateFails \/ InitializeReturns \/ Close
  BY <1>1 DEF CreateFails, InitializeReturns, Close
<1>2. ASSUME NEW w \in Workers, WorkerStep(w)
      PROVE  TypeOK' /\ NeverFlagged'
  <2>1. CASE WorkerTake(w)
    <3>1. count # 0 /\ count - 1 \in 0 .. QueueSize /\ QueueSize > 0
      BY <2>1 DEF WorkerTake, MustWait
    <3>2. Taskqueue[HeadIndex] \in 0 .. MaxTasks
      BY <3>1
    <3>3. Succ(HeadIndex) \in Nat /\ Succ(HeadIndex) < QueueSize
      BY <3>1, SuccInRing
    <3> QED BY <2>1, <3>1, <3>2, <3>3 DEF WorkerTake
  <2>2. CASE WorkerRun(w)
    <3>1. PthTask[w] \in 1 .. MaxTasks
      BY <2>2 DEF WorkerRun, TaskWhileRunning
    <3>2. done' \in SUBSET (1 .. MaxTasks)
      BY <2>2, <3>1 DEF WorkerRun
    <3>3. PthTask' \in [Workers -> 0 .. MaxTasks] /\ wpc' \in [Workers -> WorkerPC]
      BY <2>2 DEF WorkerRun
    <3> QED BY <2>2, <3>2, <3>3 DEF WorkerRun
  <2>3. CASE CreateThread(w)
    BY <2>3 DEF CreateThread
  <2>6. CASE WorkerLock(w)
    BY <2>6 DEF WorkerLock
  <2>5. CASE WorkerWait(w) \/ WorkerContinue(w)
    BY <2>5 DEF WorkerWait, WorkerContinue
  <2>4. CASE SpuriousWakeup(w) \/ WorkerUsesFreed(w)
    BY <2>4 DEF SpuriousWakeup, WorkerUsesFreed
  <2> QED BY <1>2, <2>1, <2>2, <2>3, <2>4, <2>5, <2>6 DEF WorkerStep
<1>3. ASSUME NEW p \in Producers, ProducerStep(p)
      PROVE  TypeOK' /\ NeverFlagged'
  <2>1. CASE AddTask(p)
    <3>1. accepted + 1 \in 0 .. MaxTasks /\ count + 1 \in 0 .. QueueSize /\ QueueSize > 0
      BY <2>1 DEF AddTask, Holder
    <3>2. Succ(TailIndex) \in Nat /\ Succ(TailIndex) < QueueSize
      BY <3>1, SuccInRing
    <3>3. wpc' \in [Workers -> WorkerPC]
      BY <2>1 DEF AddTask, Signal
    <3>4. /\ Taskqueue' = [Taskqueue EXCEPT ![TailIndex] = accepted + 1]
          /\ TailIndex' = Succ(TailIndex) /\ count' = count + 1
          /\ accepted' = accepted + 1 /\ lock' = NoThread
          /\ ppc' = [ppc EXCEPT ![p] = "idle"]
          /\ UNCHANGED <<HeadIndex, PthpoolClose, started, PthreadStatus, freed,
                         PthTask, done>>
      BY <2>1 DEF AddTask
    <3>5. Taskqueue' \in [0 .. QueueSize - 1 -> 0 .. MaxTasks]
      BY <3>1, <3>4
    <3>6. ppc' \in [Producers -> ProducerPC]
      BY <3>4
    <3> QED BY <3>1, <3>2, <3>3, <3>4, <3>5, <3>6
  <2>2. CASE AddTaskFunc(p) \/ AddLock(p) \/ AddQueueIsMax(p) \/ CloseLock(p)
    BY <2>2 DEF AddTaskFunc, AddLock, AddQueueIsMax, CloseLock
  <2>3. CASE CloseBroadcast(p) \/ SyPthreadPool_free(p) \/ ProducerUsesFreed(p)
    BY <2>3 DEF CloseBroadcast, SyPthreadPool_free, ProducerUsesFreed
  <2> QED BY <1>3, <2>1, <2>2, <2>3 DEF ProducerStep
<1>4. CASE UNCHANGED vars
  BY <1>4 DEF vars
<1> QED BY <1>1, <1>2, <1>3, <1>4 DEF Next

(* Nobody enters a critical section without the mutex, and nobody but its  *)
(* holder, inside one, gives the mutex away.                               *)
LEMMA HolderStep ==
  ASSUME TypeOK, NeverFlagged, Holder, [Next]_vars
  PROVE  Holder'
<1> USE PoolAssumption DEF TypeOK, NeverFlagged, Holder, Threads, ring
<1>1. CASE CreateFails \/ InitializeReturns \/ Close
  BY <1>1 DEF CreateFails, InitializeReturns, Close
<1>2. ASSUME NEW w \in Workers, WorkerStep(w)
      PROVE  Holder'
  <2>1. CASE CreateThread(w) \/ SpuriousWakeup(w) \/ WorkerUsesFreed(w)
    BY <2>1 DEF CreateThread, SpuriousWakeup, WorkerUsesFreed
  <2>2. CASE WorkerLock(w)
    BY <2>2 DEF WorkerLock
  <2>3. CASE WorkerWait(w) \/ WorkerContinue(w)
    BY <2>3 DEF WorkerWait, WorkerContinue
  <2>4. CASE WorkerTake(w)
    BY <2>4 DEF WorkerTake
  <2>5. CASE WorkerRun(w)
    BY <2>5 DEF WorkerRun
  <2> QED BY <1>2, <2>1, <2>2, <2>3, <2>4, <2>5 DEF WorkerStep
<1>3. ASSUME NEW p \in Producers, ProducerStep(p)
      PROVE  Holder'
  <2>1. CASE AddTask(p)
    <3>1. /\ ~freed /\ lock = p /\ freed' = freed
          /\ ppc' = [ppc EXCEPT ![p] = "idle"]
      BY <2>1 DEF AddTask
    <3>2. \A w \in Workers : wpc[w] # "scan" /\ wpc'[w] # "scan"
      BY <2>1, <3>1 DEF AddTask, Signal
    <3>3. \A q \in Producers : ppc'[q] \notin {"add", "close"}
      BY <3>1
    <3> QED BY <3>2, <3>3
  <2>2. CASE AddTaskFunc(p) \/ AddQueueIsMax(p) \/ ProducerUsesFreed(p)
    BY <2>2 DEF AddTaskFunc, AddQueueIsMax, ProducerUsesFreed
  <2>3. CASE AddLock(p) \/ CloseLock(p)
    BY <2>3 DEF AddLock, CloseLock
  <2>4. CASE CloseBroadcast(p)
    BY <2>4 DEF CloseBroadcast
  <2>5. CASE SyPthreadPool_free(p)
    BY <2>5 DEF SyPthreadPool_free
  <2> QED BY <1>3, <2>1, <2>2, <2>3, <2>4, <2>5 DEF ProducerStep
<1>4. CASE UNCHANGED vars
  BY <1>4 DEF vars
<1> QED BY <1>1, <1>2, <1>3, <1>4 DEF Next

(* The ring's slots are pairwise different, and move by one when the head  *)
(* does.                                                                   *)
LEMMA Slots ==
  ASSUME TypeOK, QueueSize > 0
  PROVE  /\ Slot(0) = HeadIndex
         /\ \A i \in 0 .. QueueSize - 1 :
              /\ Slot(i) \in 0 .. QueueSize - 1
              /\ Succ(Slot(i)) = Slot(i + 1)
              /\ \A j \in 0 .. QueueSize - 1 : Slot(i) = Slot(j) => i = j
  BY PoolAssumption DEF TypeOK, Slot, Succ

(* A take moves the head over the oldest task of the backlog.              *)
LEMMA TakeFacts ==
  ASSUME TypeOK, NeverFlagged, RingHoldsBacklog, NEW w \in Workers, WorkerTake(w)
  PROVE  /\ count \in 1 .. QueueSize - 1 /\ QueueSize > 0
         /\ HeadIndex' = Succ(HeadIndex) /\ count' = count - 1
         /\ PthTask' = [PthTask EXCEPT ![w] = accepted - count + 1]
         /\ UNCHANGED <<Taskqueue, TailIndex, accepted, done>>
<1>1. /\ count \in 1 .. QueueSize - 1 /\ QueueSize > 0
      /\ HeadIndex' = Succ(HeadIndex) /\ count' = count - 1
      /\ PthTask' = [PthTask EXCEPT ![w] = Taskqueue[HeadIndex]]
      /\ UNCHANGED <<Taskqueue, TailIndex, accepted, done>>
  BY PoolAssumption DEF WorkerTake, MustWait, TypeOK, NeverFlagged
<1>2. Slot(0) = HeadIndex
  BY <1>1, Slots
<1>3. 0 \in 0 .. count - 1
  BY <1>1, PoolAssumption
<1>4. Taskqueue[Slot(0)] = accepted - count + 1 + 0
  BY <1>3 DEF RingHoldsBacklog
<1>5. Taskqueue[HeadIndex] = accepted - count + 1
  BY <1>2, <1>4 DEF TypeOK
<1> QED BY <1>1, <1>5

(* An accepted call appends the next task to the backlog.                  *)
LEMMA AddFacts ==
  ASSUME TypeOK, NeverFlagged, Holder, NEW p \in Producers, AddTask(p)
  PROVE  /\ count \in 0 .. QueueSize - 1 /\ QueueSize > 0 /\ accepted < MaxTasks
         /\ Taskqueue' = [Taskqueue EXCEPT ![TailIndex] = accepted + 1]
         /\ TailIndex' = Succ(TailIndex) /\ count' = count + 1
         /\ accepted' = accepted + 1
         /\ UNCHANGED <<HeadIndex, PthTask, done>>
  BY PoolAssumption DEF AddTask, TypeOK, NeverFlagged, Holder

(* A take shifts the backlog by one slot and an accepted call appends to   *)
(* it, without touching the slot of another waiting task.                  *)
LEMMA RingStep ==
  ASSUME TypeOK, NeverFlagged, Holder, RingHoldsBacklog, [Next]_vars
  PROVE  RingHoldsBacklog'
<1>1. ASSUME NEW w \in Workers, WorkerTake(w)
      PROVE  RingHoldsBacklog'
  <2>1. /\ count \in 1 .. QueueSize - 1 /\ QueueSize > 0
        /\ HeadIndex' = Succ(HeadIndex) /\ count' = count - 1
        /\ UNCHANGED <<Taskqueue, TailIndex, accepted>>
    BY <1>1, TakeFacts
  <2>2. \A i \in 0 .. count - 1 : Slot(i)' = Slot(i + 1)
    BY <2>1, PoolAssumption DEF TypeOK, Slot, Succ
  <2>3. ASSUME NEW i \in 0 .. count' - 1
        PROVE  Taskqueue'[Slot(i)'] = accepted' - count' + 1 + i
    <3>1. i + 1 \in 0 .. count - 1 /\ i \in 0 .. count - 1
      BY <2>1, PoolAssumption
    <3>2. Taskqueue[Slot(i + 1)] = accepted - count + 1 + (i + 1)
      BY <3>1 DEF RingHoldsBacklog
    <3>3. Taskqueue'[Slot(i)'] = Taskqueue[Slot(i + 1)]
      BY <2>1, <2>2, <3>1
    <3>4. accepted - count + 1 + (i + 1) = accepted' - count' + 1 + i
      BY <2>1 DEF TypeOK
    <3> QED BY <3>2, <3>3, <3>4
  <2>4. TailIndex' = Slot(count)'
    BY <2>1, PoolAssumption, SMTT(20) DEF TypeOK, Slot, Succ, RingHoldsBacklog
  <2> QED BY <2>3, <2>4 DEF RingHoldsBacklog
<1>2. ASSUME NEW p \in Producers, AddTask(p)
      PROVE  RingHoldsBacklog'
  <2>1. /\ count \in 0 .. QueueSize - 1 /\ QueueSize > 0
        /\ Taskqueue' = [Taskqueue EXCEPT ![TailIndex] = accepted + 1]
        /\ TailIndex' = Succ(TailIndex) /\ count' = count + 1
        /\ accepted' = accepted + 1 /\ HeadIndex' = HeadIndex
    BY <1>2, AddFacts
  <2>2. \A i : Slot(i)' = Slot(i)
    BY <2>1 DEF Slot
  <2>3. TailIndex = Slot(count) /\ TailIndex \in 0 .. QueueSize - 1
    BY <2>1, Slots DEF RingHoldsBacklog
  <2>4. ASSUME NEW i \in 0 .. count' - 1
        PROVE  Taskqueue'[Slot(i)] = accepted' - count' + 1 + i
    <3>1. CASE i = count
      BY <2>1, <2>3, <3>1 DEF TypeOK
    <3>2. CASE i # count
      <4>1. i \in 0 .. count - 1 /\ i \in 0 .. QueueSize - 1
        BY <2>1, <3>2, PoolAssumption
      <4>2. Slot(i) # TailIndex /\ Slot(i) \in 0 .. QueueSize - 1
        BY <2>1, <2>3, <3>2, <4>1, Slots
      <4>3. Taskqueue'[Slot(i)] = Taskqueue[Slot(i)]
        BY <2>1, <4>2 DEF TypeOK
      <4>4. Taskqueue[Slot(i)] = accepted - count + 1 + i
        BY <4>1 DEF RingHoldsBacklog
      <4> QED BY <2>1, <4>3, <4>4 DEF TypeOK
    <3> QED BY <3>1, <3>2
  <2>5. TailIndex' = Slot(count + 1)
    BY <2>1, <2>3, Slots
  <2>6. Slot(count)' = Slot(count')
    BY <2>1 DEF Slot
  <2> QED BY <2>1, <2>2, <2>4, <2>5, <2>6 DEF RingHoldsBacklog
<1>3. CASE QuietStep
  BY <1>3 DEF QuietStep, ring, RingHoldsBacklog, Slot
<1>4. ASSUME NEW w \in Workers, WorkerRun(w)
      PROVE  RingHoldsBacklog'
  BY <1>4 DEF WorkerRun, ring, RingHoldsBacklog, Slot
<1> QED BY <1>1, <1>2, <1>3, <1>4, StepKinds

(* A worker gets its task when it leaves the mutex to run it and has none  *)
(* when it comes back.                                                     *)
LEMMA TaskStep ==
  ASSUME TypeOK, NeverFlagged, RingHoldsBacklog, TaskWhileRunning,
         count <= accepted, [Next]_vars
  PROVE  TaskWhileRunning' /\ (count <= accepted)'
<1> USE PoolAssumption DEF TypeOK, NeverFlagged, TaskWhileRunning
<1>1. CASE CreateFails \/ InitializeReturns \/ Close
  BY <1>1 DEF CreateFails, InitializeReturns, Close, ring
<1>2. ASSUME NEW w \in Workers, WorkerStep(w)
      PROVE  TaskWhileRunning' /\ (count <= accepted)'
  <2>1. CASE CreateThread(w) \/ SpuriousWakeup(w) \/ WorkerUsesFreed(w)
    BY <2>1 DEF CreateThread, SpuriousWakeup, WorkerUsesFreed, ring
  <2>2. CASE WorkerLock(w)
    BY <2>2 DEF WorkerLock, ring
  <2>3. CASE WorkerWait(w) \/ WorkerContinue(w)
    BY <2>3 DEF WorkerWait, WorkerContinue, ring
  <2>4. CASE WorkerTake(w)
    <3>1. /\ PthTask' = [PthTask EXCEPT ![w] = accepted - count + 1]
          /\ count' = count - 1 /\ accepted' = accepted
      BY <2>4, TakeFacts
    <3>2. wpc' = [wpc EXCEPT ![w] = "run"]
      BY <2>4 DEF WorkerTake
    <3> QED BY <3>1, <3>2
  <2>5. CASE WorkerRun(w)
    BY <2>5 DEF WorkerRun, ring
  <2> QED BY <1>2, <2>1, <2>2, <2>3, <2>4, <2>5 DEF WorkerStep
<1>3. ASSUME NEW p \in Producers, ProducerStep(p)
      PROVE  TaskWhileRunning' /\ (count <= accepted)'
  <2>1. CASE AddTask(p)
    <3>1. \A w \in Workers : wpc'[w] = "run" <=> wpc[w] = "run"
      BY <2>1 DEF AddTask, Signal
    <3>2. PthTask' = PthTask /\ count' = count + 1 /\ accepted' = accepted + 1
      BY <2>1 DEF AddTask
    <3> QED BY <3>1, <3>2
  <2>2. CASE AddTaskFunc(p) \/ AddQueueIsMax(p) \/ ProducerUsesFreed(p)
    BY <2>2 DEF AddTaskFunc, AddQueueIsMax, ProducerUsesFreed, ring
  <2>3. CASE AddLock(p) \/ CloseLock(p) \/ SyPthreadPool_free(p)
    BY <2>3 DEF AddLock, CloseLock, SyPthreadPool_free, ring
  <2>4. CASE CloseBroadcast(p)
    BY <2>4 DEF CloseBroadcast, ring
  <2> QED BY <1>3, <2>1, <2>2, <2>3, <2>4 DEF ProducerStep
<1>4. CASE UNCHANGED vars
  BY <1>4 DEF vars, ring
<1> QED BY <1>1, <1>2, <1>3, <1>4 DEF Next

(* Each task leaves the ring into one worker's hands and those into done.  *)
LEMMA TakenStep ==
  ASSUME TypeOK, NeverFlagged, Holder, RingHoldsBacklog, TaskWhileRunning,
         count <= accepted, TakenOnce, [Next]_vars
  PROVE  TakenOnce'
<1>1. ASSUME NEW w \in Workers, WorkerTake(w)
      PROVE  TakenOnce'
  <2> DEFINE next == accepted - count + 1
  <2>1. /\ PthTask' = [PthTask EXCEPT ![w] = next]
        /\ count' = count - 1 /\ UNCHANGED <<accepted, done>>
        /\ next \in 1 .. MaxTasks
    BY <1>1, TakeFacts, PoolAssumption DEF TypeOK
  <2>2. PthTask[w] = 0
    BY <1>1 DEF WorkerTake, TaskWhileRunning
  <2>3. next \notin done /\ \A v \in Workers : PthTask[v] # next
    BY <2>1 DEF TakenOnce, TypeOK
  <2>4. accepted' - count' = next
    BY <2>1 DEF TypeOK
  <2>5. \A v \in Workers : PthTask'[v] = IF v = w THEN next ELSE PthTask[v]
    BY <2>1 DEF TypeOK
  <2> HIDE DEF next
  <2>6. \A k \in 1 .. MaxTasks : k <= next <=> k <= accepted - count \/ k = next
    BY <2>1 DEF next, TypeOK
  <2>7. next \in Nat /\ next # 0
    BY <2>1
  <2>8. \A k \in 1 .. MaxTasks :
          k <= accepted' - count' <=> k \in done' \/ \E v \in Workers : PthTask'[v] = k
    <3> SUFFICES ASSUME NEW k \in 1 .. MaxTasks
                 PROVE  k <= accepted' - count'
                        <=> k \in done' \/ \E v \in Workers : PthTask'[v] = k
      OBVIOUS
    <3>1. k <= accepted' - count' <=> k <= accepted - count \/ k = next
      BY <2>4, <2>6
    <3>2. k <= accepted - count <=> k \in done \/ \E v \in Workers : PthTask[v] = k
      BY DEF TakenOnce
    <3>3. (\E v \in Workers : PthTask'[v] = k)
          <=> (\E v \in Workers : PthTask[v] = k) \/ k = next
      BY <2>2, <2>5
    <3> QED BY <2>1, <3>1, <3>2, <3>3
  <2>9. \A v \in Workers : PthTask'[v] # 0 => PthTask'[v] \notin done'
    BY <2>1, <2>3, <2>5 DEF TakenOnce
  <2>10. \A u, v \in Workers : PthTask'[u] = PthTask'[v] /\ u # v => PthTask'[u] = 0
    BY <2>3, <2>5 DEF TakenOnce
  <2> QED BY <2>8, <2>9, <2>10 DEF TakenOnce
<1>2. ASSUME NEW w \in Workers, WorkerRun(w)
      PROVE  TakenOnce'
  <2>1. /\ done' = done \cup {PthTask[w]}
        /\ PthTask' = [PthTask EXCEPT ![w] = 0]
        /\ UNCHANGED <<count, accepted>>
    BY <1>2 DEF WorkerRun, ring
  <2>2. PthTask[w] # 0
    BY <1>2 DEF WorkerRun, TaskWhileRunning
  <2>3. \A v \in Workers : PthTask'[v] = IF v = w THEN 0 ELSE PthTask[v]
    BY <2>1 DEF TypeOK
  <2> QED BY <2>1, <2>2, <2>3 DEF TakenOnce
<1>3. ASSUME NEW p \in Producers, AddTask(p)
      PROVE  TakenOnce'
  <2>1. /\ accepted' - count' = accepted - count
        /\ UNCHANGED <<PthTask, done>>
    BY <1>3, AddFacts DEF TypeOK
  <2> QED BY <2>1 DEF TakenOnce
<1>4. CASE QuietStep
  BY <1>4 DEF QuietStep, ring, TakenOnce
<1> QED BY <1>1, <1>2, <1>3, <1>4, StepKinds

-----------------------------------------------------------------------------
(* In a jammed pool nobody is inside a critical section, and nobody enters *)
(* one: the mutex, the ring and the jam stay until the memory is freed.    *)
LEMMA JamStays ==
  ASSUME TypeOK, Holder, Jammed, [Next]_vars
  PROVE  UNCHANGED <<lock, ring>> /\ (Jammed' \/ freed')
<1> USE PoolAssumption DEF TypeOK, Threads
<1>1. /\ ~freed /\ lock # NoThread
      /\ \A w \in Workers : wpc[w] # "scan"
      /\ \A p \in Producers : ppc[p] \notin {"add", "close"}
  BY DEF Jammed, KeptByWorker, KeptByProducer, Holder
<1> DEFINE NobodyInside == /\ \A w \in Workers : wpc'[w] # "scan"
                           /\ \A p \in Producers : ppc'[p] \notin {"add", "close"}
<1>2. /\ UNCHANGED <<lock, ring>>
      /\ freed' \/ NobodyInside
  <2>1. CASE CreateFails \/ InitializeReturns \/ Close
    BY <1>1, <2>1 DEF CreateFails, InitializeReturns, Close
  <2>2. ASSUME NEW w \in Workers, WorkerStep(w)
        PROVE  UNCHANGED <<lock, ring>> /\ (freed' \/ NobodyInside)
    <3>1. \/ CreateThread(w) \/ WorkerRun(w) \/ SpuriousWakeup(w)
          \/ WorkerUsesFreed(w)
      BY <1>1, <2>2 DEF WorkerStep, WorkerLock, WorkerWait, WorkerContinue, WorkerTake
    <3> QED BY <1>1, <3>1
            DEF CreateThread, WorkerRun, SpuriousWakeup, WorkerUsesFreed
  <2>3. ASSUME NEW p \in Producers, ProducerStep(p)
        PROVE  UNCHANGED <<lock, ring>> /\ (freed' \/ NobodyInside)
    <3>1. AddTaskFunc(p) \/ SyPthreadPool_free(p) \/ ProducerUsesFreed(p)
      BY <1>1, <2>3 DEF ProducerStep, AddLock, AddQueueIsMax, AddTask, CloseLock,
                        CloseBroadcast
    <3> QED BY <1>1, <3>1 DEF AddTaskFunc, SyPthreadPool_free, ProducerUsesFreed
  <2>4. CASE UNCHANGED vars
    BY <1>1, <2>4 DEF vars
  <2> QED BY <2>1, <2>2, <2>3, <2>4 DEF Next
<1>3. CASE freed'
  BY <1>2, <1>3
<1>4. CASE ~freed' /\ NobodyInside
  <2>1. lock' \in Workers \cup Producers
    BY <1>1, <1>2
  <2> QED BY <1>2, <1>4, <2>1 DEF Jammed, KeptByWorker, KeptByProducer
<1> QED BY <1>2, <1>3, <1>4

(* The steps of a pool that is not jammed which keep the mutex are the     *)
(* `continue` and the QueueIsMax return.                                   *)
LEMMA JamStarts ==
  ASSUME TypeOK, NeverFlagged, Holder, ~Jammed, Jammed', [Next]_vars
  PROVE  count = QueueSize /\ UNCHANGED count
<1> USE PoolAssumption DEF TypeOK, NeverFlagged, Threads, Jammed, KeptByWorker,
                           KeptByProducer, ring
<1>1. CASE CreateFails \/ InitializeReturns \/ Close
  BY <1>1 DEF CreateFails, InitializeReturns, Close
<1>2. ASSUME NEW w \in Workers, WorkerStep(w)
      PROVE  count = QueueSize /\ UNCHANGED count
  <2>1. CASE CreateThread(w) \/ SpuriousWakeup(w) \/ WorkerUsesFreed(w)
    BY <2>1 DEF CreateThread, SpuriousWakeup, WorkerUsesFreed
  <2>2. CASE WorkerLock(w)
    BY <2>2 DEF WorkerLock
  <2>3. CASE WorkerWait(w) \/ WorkerTake(w)
    BY <2>3 DEF WorkerWait, WorkerTake
  <2>4. CASE WorkerContinue(w)
    BY <2>4 DEF WorkerContinue
  <2>5. CASE WorkerRun(w)
    BY <2>5 DEF WorkerRun
  <2> QED BY <1>2, <2>1, <2>2, <2>3, <2>4, <2>5 DEF WorkerStep
<1>3. ASSUME NEW p \in Producers, ProducerStep(p)
      PROVE  count = QueueSize /\ UNCHANGED count
  <2>1. CASE AddTask(p) \/ CloseBroadcast(p)
    BY <2>1 DEF AddTask, CloseBroadcast
  <2>2. CASE AddTaskFunc(p) \/ ProducerUsesFreed(p) \/ SyPthreadPool_free(p)
    BY <2>2 DEF AddTaskFunc, ProducerUsesFreed, SyPthreadPool_free
  <2>3. CASE AddLock(p)
    BY <2>3 DEF AddLock
  <2>5. CASE CloseLock(p)
    BY <2>5 DEF CloseLock
  <2>4. CASE AddQueueIsMax(p)
    BY <2>4 DEF AddQueueIsMax
  <2> QED BY <1>3, <2>1, <2>2, <2>3, <2>4, <2>5 DEF ProducerStep
<1>4. CASE UNCHANGED vars
  BY <1>4 DEF vars
<1> QED BY <1>1, <1>2, <1>3, <1>4 DEF Next

(* The pool jams only when the ring is full, and the ring stays full.      *)
LEMMA JamStep ==
  ASSUME TypeOK, NeverFlagged, Holder, JamsOnlyWhenFull, [Next]_vars
  PROVE  JamsOnlyWhenFull'
<1>1. CASE Jammed
  BY <1>1, JamStays DEF JamsOnlyWhenFull, ring
<1>2. CASE ~Jammed
  BY <1>2, JamStarts DEF JamsOnlyWhenFull
<1> QED BY <1>1, <1>2

-----------------------------------------------------------------------------
(* The initial state satisfies the invariant.                              *)
LEMMA InitIInv == Init => IInv
<1> SUFFICES ASSUME Init PROVE IInv
  OBVIOUS
<1> USE PoolAssumption DEF Init
<1>1. TypeOK
  <2>1. ppc \in [Producers -> ProducerPC] /\ wpc \in [Workers -> WorkerPC]
    BY DEF WorkerPC, ProducerPC
  <2>2. /\ Taskqueue \in [0 .. QueueSize - 1 -> 0 .. MaxTasks]
        /\ PthTask \in [Workers -> 0 .. MaxTasks]
    OBVIOUS
  <2>3. /\ lock \in Threads \cup {NoThread}
        /\ count \in 0 .. QueueSize /\ accepted \in 0 .. MaxTasks
        /\ HeadIndex \in Nat /\ TailIndex \in Nat /\ started \in Int
        /\ QueueSize > 0 => HeadIndex < QueueSize /\ TailIndex < QueueSize
    OBVIOUS
  <2>4. /\ done \in SUBSET (1 .. MaxTasks)
        /\ PthpoolClose \in BOOLEAN /\ freed \in BOOLEAN
        /\ PthreadStatus \in {"PTHREAD_STATUS_CLOSE", "PTHREAD_STATUS_WORK"}
    OBVIOUS
  <2> QED BY <2>1, <2>2, <2>3, <2>4 DEF TypeOK
<1>2. NeverFlagged /\ Holder /\ TaskWhileRunning
  BY DEF NeverFlagged, Holder, TaskWhileRunning
<1>3. count <= accepted
  OBVIOUS
<1>4. RingHoldsBacklog
  BY DEF RingHoldsBacklog, Slot
<1>5. TakenOnce
  BY DEF TakenOnce
<1>6. JamsOnlyWhenFull
  BY DEF JamsOnlyWhenFull, Jammed, KeptByWorker, KeptByProducer
<1> QED BY <1>1, <1>2, <1>3, <1>4, <1>5, <1>6 DEF IInv

(* Every step keeps it.                                                    *)
LEMMA NextIInv == IInv /\ [Next]_vars => IInv'
<1> SUFFICES ASSUME IInv, [Next]_vars PROVE IInv'
  OBVIOUS
<1> QED BY TypeStep, HolderStep, TaskStep, RingStep, TakenStep, JamStep DEF IInv

(* The invariant holds in every reachable state of the pool.               *)
THEOREM PoolInvariant == Spec => []IInv
  BY InitIInv, NextIInv, PTL DEF Spec

(* No index of the pool ever leaves the ring, whatever the scheduler does. *)
THEOREM PoolTypeOK == Spec => []TypeOK
<1>1. IInv => TypeOK
  BY DEF IInv
<1> QED BY <1>1, PoolInvariant, PTL

(* The ring holds the accepted tasks that nobody took, in order.           *)
THEOREM PoolRing == Spec => []RingHoldsBacklog
<1>1. IInv => RingHoldsBacklog
  BY DEF IInv
<1> QED BY <1>1, PoolInvariant, PTL

(* No accepted task is lost or run twice by the workers.                   *)
THEOREM PoolTakenOnce == Spec => []TakenOnce
<1>1. IInv => TakenOnce
  BY DEF IInv
<1> QED BY <1>1, PoolInvariant, PTL

(* A pool whose ring is not full is not jammed.                            *)
THEOREM PoolJams == Spec => []JamsOnlyWhenFull
<1>1. IInv => JamsOnlyWhenFull
  BY DEF IInv
<1> QED BY <1>1, PoolInvariant, PTL

(* A mutex that is kept stays kept, and no task moves any more.            *)
THEOREM PoolJamIsForever == Spec => JamIsForever
<1>1. IInv /\ [Next]_vars => [Jammed => UNCHANGED <<lock, ring>> /\ (Jammed' \/ freed')]_vars
  BY JamStays DEF IInv
<1> QED BY <1>1, PoolInvariant, PTL DEF Spec, JamIsForever

-----------------------------------------------------------------------------
(* No wake-up is lost.                                                     *)

(* A step that only wakes workers and adds no task loses no wake-up.       *)
LEMMA AwakeGrows ==
  ASSUME Awake \subseteq Awake', Asleep' \subseteq Asleep, count' <= count,
         TypeOK, TypeOK', freed' = freed, NoLostWakeup
  PROVE  NoLostWakeup'
<1> DEFINE A == Awake
           B == Awake'
<1>1. IsFiniteSet(Awake') /\ IsFiniteSet(Awake)
  BY FS_Subset, PoolAssumption DEF Awake
<1>2. Cardinality(A) <= Cardinality(B) /\ Cardinality(A) \in Nat /\ Cardinality(B) \in Nat
  BY <1>1, FS_Subset, FS_CardinalityType
<1>3. Cardinality(Awake)' = Cardinality(B)
  OBVIOUS
<1>4. count \in Nat /\ count' \in Nat
  BY PoolAssumption DEF TypeOK
<1> QED BY <1>2, <1>3, <1>4 DEF NoLostWakeup

(* A worker goes to sleep only on an empty ring, and each task that comes  *)
(* while one sleeps wakes one more.                                        *)
LEMMA WakeupStep ==
  ASSUME IInv, IInv', NoLostWakeup, [Next]_vars
  PROVE  NoLostWakeup'
<1> USE PoolAssumption
<1>0. TypeOK /\ TypeOK' /\ NeverFlagged /\ Holder
  BY DEF IInv
<1>1. CASE CreateFails \/ InitializeReturns \/ Close
  BY <1>1 DEF CreateFails, InitializeReturns, Close, ring, NoLostWakeup, Awake, Asleep
<1>2. ASSUME NEW w \in Workers, WorkerStep(w)
      PROVE  NoLostWakeup'
  <2>1. CASE WorkerWait(w)
    <3>1. count' = 0
      BY <1>0, <2>1 DEF WorkerWait, MustWait, ring, NeverFlagged
    <3>2. IsFiniteSet(Awake')
      BY FS_Subset DEF Awake
    <3>3. Cardinality(Awake') \in Nat
      BY <3>2, FS_CardinalityType
    <3> QED BY <3>1, <3>3 DEF NoLostWakeup
  <2>2. CASE WorkerUsesFreed(w)
    BY <2>2 DEF WorkerUsesFreed, NoLostWakeup
  <2>3. CASE CreateThread(w) \/ SpuriousWakeup(w) \/ WorkerLock(w)
    <3>1. Awake \subseteq Awake' /\ Asleep' \subseteq Asleep /\ count' = count /\ freed' = freed
      BY <1>0, <2>3
         DEF CreateThread, SpuriousWakeup, WorkerLock, ring, TypeOK, Awake, Asleep
    <3>2. count' <= count
      BY <1>0, <3>1 DEF TypeOK
    <3> QED BY <1>0, <3>1, <3>2, AwakeGrows
  <2>4. CASE WorkerContinue(w) \/ WorkerRun(w)
    <3>1. Awake \subseteq Awake' /\ Asleep' \subseteq Asleep /\ count' = count /\ freed' = freed
      BY <1>0, <2>4 DEF WorkerContinue, WorkerRun, ring, TypeOK, Awake, Asleep
    <3>2. count' <= count
      BY <1>0, <3>1 DEF TypeOK
    <3> QED BY <1>0, <3>1, <3>2, AwakeGrows
  <2>5. CASE WorkerTake(w)
    <3>1. /\ count' <= count /\ freed' = freed
          /\ wpc' = [wpc EXCEPT ![w] = "run"]
      BY <1>0, <2>5 DEF WorkerTake, TypeOK, NeverFlagged
    <3>2. Awake \subseteq Awake' /\ Asleep' \subseteq Asleep
      BY <1>0, <3>1 DEF TypeOK, Awake, Asleep
    <3> QED BY <1>0, <3>1, <3>2, AwakeGrows
  <2> QED BY <1>2, <2>1, <2>2, <2>3, <2>4, <2>5 DEF WorkerStep
<1>3. ASSUME NEW p \in Producers, ProducerStep(p)
      PROVE  NoLostWakeup'
  <2>1. CASE AddTask(p)
    <3>1. ~freed /\ ~freed' /\ count' = count + 1 /\ Signal /\ count \in Nat
      BY <1>0, <2>1 DEF AddTask, NeverFlagged, TypeOK
    <3>2. CASE Asleep = {}
      <4>1. wpc' = wpc
        BY <3>1, <3>2 DEF Signal, Asleep
      <4> QED BY <3>2, <4>1 DEF NoLostWakeup, Asleep
    <3>3. CASE Asleep # {}
      <4>1. PICK w \in Asleep : wpc' = [wpc EXCEPT ![w] = "lock"]
        BY <3>1, <3>3 DEF Signal, Asleep
      <4>2. Awake' = Awake \cup {w} /\ w \notin Awake
        BY <1>0, <4>1 DEF TypeOK, Awake, Asleep
      <4>3. IsFiniteSet(Awake)
        BY FS_Subset DEF Awake
      <4>4. Cardinality(Awake') = Cardinality(Awake) + 1 /\ Cardinality(Awake) \in Nat
        BY <4>2, <4>3, FS_AddElement, FS_CardinalityType
      <4>5. count <= Cardinality(Awake)
        BY <3>1, <3>3 DEF NoLostWakeup
      <4> QED BY <3>1, <4>4, <4>5 DEF NoLostWakeup
    <3> QED BY <3>2, <3>3
  <2>2. CASE AddTaskFunc(p) \/ AddQueueIsMax(p) \/ ProducerUsesFreed(p)
    BY <2>2 DEF AddTaskFunc, AddQueueIsMax, ProducerUsesFreed, ring, NoLostWakeup,
                Awake, Asleep
  <2>3. CASE AddLock(p) \/ CloseLock(p) \/ SyPthreadPool_free(p)
    BY <2>3 DEF AddLock, CloseLock, SyPthreadPool_free, ring, NoLostWakeup, Awake, Asleep
  <2>4. CASE CloseBroadcast(p)
    <3>1. Asleep' = {}
      BY <1>0, <2>4 DEF CloseBroadcast, TypeOK, Asleep
    <3> QED BY <3>1 DEF NoLostWakeup
  <2> QED BY <1>3, <2>1, <2>2, <2>3, <2>4 DEF ProducerStep
<1>4. CASE UNCHANGED vars
  BY <1>4 DEF vars, ring, NoLostWakeup, Awake, Asleep
<1> QED BY <1>1, <1>2, <1>3, <1>4 DEF Next

(* One signal per task is enough: a sleeping worker is never needed for a  *)
(* task whose signal has gone.                                             *)
THEOREM PoolNoLostWakeup == Spec => []NoLostWakeup
<1>1. Init => NoLostWakeup
  BY DEF Init, NoLostWakeup, Asleep
<1>2. IInv /\ IInv' /\ NoLostWakeup /\ [Next]_vars => NoLostWakeup'
  BY WakeupStep
<1> QED BY <1>1, <1>2, PoolInvariant, PTL DEF Spec

-----------------------------------------------------------------------------
(* The pool implements TaskPool.                                           *)

(* The tasks in the ring, oldest first: the abstract queue.                *)
Backlog == [i \in 1 .. count |-> Taskqueue[Slot(i - 1)]]

BacklogInOrder ==
  /\ Backlog \in Seq(Nat) /\ Len(Backlog) = count
  /\ \A i \in 1 .. count : Backlog[i] = accepted - count + i

(* The queue holds the last `count` accepted tasks.                        *)
LEMMA BacklogIs == IInv => BacklogInOrder
<1> SUFFICES ASSUME IInv PROVE BacklogInOrder
  OBVIOUS
<1> USE PoolAssumption
<1>1. count \in Nat /\ accepted \in Nat /\ count <= accepted
  BY DEF IInv, TypeOK
<1>2. ASSUME NEW i \in 1 .. count
      PROVE  Taskqueue[Slot(i - 1)] = accepted - count + i /\ accepted - count + i \in Nat
  <2>1. i - 1 \in 0 .. count - 1 /\ i \in Nat
    BY <1>1
  <2>2. Taskqueue[Slot(i - 1)] = accepted - count + 1 + (i - 1)
    BY <2>1 DEF IInv, RingHoldsBacklog
  <2> QED BY <1>1, <2>1, <2>2
<1>3. Backlog \in [1 .. count -> Nat]
  BY <1>2 DEF Backlog
<1>4. Backlog \in Seq(Nat) /\ Len(Backlog) = count
  BY <1>1, <1>3
<1> QED BY <1>2, <1>4 DEF Backlog, BacklogInOrder

(* Storing a task at TailIndex appends it to the queue.                    *)
LEMMA AddIsSubmit ==
  ASSUME IInv, IInv', NEW p \in Producers, AddTask(p)
  PROVE  Pool!Submit
<1>1. /\ count \in 0 .. QueueSize - 1 /\ count' = count + 1
      /\ accepted' = accepted + 1 /\ UNCHANGED <<PthTask, done>>
  BY AddFacts DEF IInv
<1>2. count \in Nat /\ accepted \in Nat /\ QueueSize \in Nat
  BY PoolAssumption DEF IInv, TypeOK
<1>3. /\ Backlog \in Seq(Nat) /\ Len(Backlog) = count
      /\ \A i \in 1 .. count : Backlog[i] = accepted - count + i
  BY BacklogIs DEF BacklogInOrder
<1>4. /\ Backlog' \in Seq(Nat) /\ Len(Backlog') = count'
      /\ \A i \in 1 .. count' : Backlog'[i] = accepted' - count' + i
  <2>1. BacklogInOrder'
    BY BacklogIs, PTL
  <2> QED BY <2>1 DEF BacklogInOrder
<1>5. /\ Append(Backlog, accepted + 1) \in Seq(Nat)
      /\ Len(Append(Backlog, accepted + 1)) = count + 1
      /\ \A i \in 1 .. count + 1 :
           Append(Backlog, accepted + 1)[i] = accepted - count + i
  BY <1>2, <1>3
<1>6. Backlog' = Append(Backlog, accepted + 1)
  <2>1. \A i \in 1 .. Len(Backlog') : Backlog'[i] = Append(Backlog, accepted + 1)[i]
    BY <1>1, <1>2, <1>4, <1>5
  <2>2. Len(Backlog') = Len(Append(Backlog, accepted + 1))
    BY <1>1, <1>4, <1>5
  <2> QED BY <1>4, <1>5, <2>1, <2>2, SeqEqual
<1>7. Len(Backlog) < QueueSize
  BY <1>1, <1>2, <1>3
<1> QED BY <1>1, <1>6, <1>7 DEF Pool!Submit, Backlog

(* Taking the task at HeadIndex takes the head of the queue.               *)
LEMMA TakeIsTake ==
  ASSUME IInv, IInv', NEW w \in Workers, WorkerTake(w)
  PROVE  Pool!Take(w)
<1>1. /\ count \in 1 .. QueueSize - 1 /\ count' = count - 1
      /\ PthTask' = [PthTask EXCEPT ![w] = accepted - count + 1]
      /\ UNCHANGED <<accepted, done>>
  BY TakeFacts DEF IInv
<1>2. count \in Nat /\ accepted \in Nat
  BY PoolAssumption DEF IInv, TypeOK
<1>3. /\ Backlog \in Seq(Nat) /\ Len(Backlog) = count
      /\ \A i \in 1 .. count : Backlog[i] = accepted - count + i
  BY BacklogIs DEF BacklogInOrder
<1>4. /\ Backlog' \in Seq(Nat) /\ Len(Backlog') = count'
      /\ \A i \in 1 .. count' : Backlog'[i] = accepted' - count' + i
  <2>1. BacklogInOrder'
    BY BacklogIs, PTL
  <2> QED BY <2>1 DEF BacklogInOrder
<1>5. Backlog # <<>> /\ Head(Backlog) = accepted - count + 1
  BY <1>1, <1>2, <1>3
<1>6. /\ Tail(Backlog) \in Seq(Nat) /\ Len(Tail(Backlog)) = count - 1
      /\ \A i \in 1 .. count - 1 : Tail(Backlog)[i] = Backlog[i + 1]
  BY <1>2, <1>3, <1>5, HeadTailProperties
<1>7. Backlog' = Tail(Backlog)
  <2>1. \A i \in 1 .. Len(Backlog') : Backlog'[i] = Tail(Backlog)[i]
    BY <1>1, <1>2, <1>3, <1>4, <1>6
  <2>2. Len(Backlog') = Len(Tail(Backlog))
    BY <1>1, <1>4, <1>6
  <2> QED BY <1>4, <1>6, <2>1, <2>2, SeqEqual
<1>8. PthTask[w] = 0
  BY DEF IInv, TaskWhileRunning, WorkerTake
<1> QED BY <1>1, <1>5, <1>7, <1>8 DEF Pool!Take, Backlog

(* The return of a task's function finishes it.                            *)
LEMMA RunIsFinish ==
  ASSUME IInv, NEW w \in Workers, WorkerRun(w)
  PROVE  Pool!Finish(w)
<1>1. PthTask[w] # 0
  BY DEF IInv, TaskWhileRunning, WorkerRun
<1> QED BY <1>1 DEF WorkerRun, ring, Slot, Pool!Finish

(* Every step of the pool is a step of TaskPool or leaves it unchanged, so *)
(* a client cannot tell the ring, the mutex and the signals from a queue.  *)
THEOREM PoolImplementsTaskPool == Spec => ImplementsTaskPool
<1>1. Init => Pool!Init
  BY PoolAssumption, EmptySeq DEF Init, Pool!Init
<1>2. IInv /\ IInv' /\ [Next]_vars => [Pool!Next]_(Pool!vars)
  <2> SUFFICES ASSUME IInv, IInv', [Next]_vars
               PROVE  [Pool!Next]_(Pool!vars)
    OBVIOUS
  <2>1. CASE QuietStep
    BY <2>1 DEF QuietStep, ring, Slot, Pool!vars
  <2>2. ASSUME NEW w \in Workers, WorkerTake(w)
        PROVE  Pool!Next
    BY <2>2, TakeIsTake DEF Pool!Next
  <2>3. ASSUME NEW w \in Workers, WorkerRun(w)
        PROVE  Pool!Next
    BY <2>3, RunIsFinish DEF Pool!Next
  <2>4. ASSUME NEW p \in Producers, AddTask(p)
        PROVE  Pool!Next
    BY <2>4, AddIsSubmit DEF Pool!Next
  <2>5. NeverFlagged
    BY DEF IInv
  <2> QED BY <2>1, <2>2, <2>3, <2>4, <2>5, StepKinds
<1> QED BY <1>1, <1>2, PoolInvariant, PTL DEF Spec, ImplementsTaskPool, Pool!Spec

=============================================================================
