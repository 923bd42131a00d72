----------------------- MODULE SyPthreadChannelProofs -----------------------
(***************************************************************************)
(* The multithreaded server, in four parts:                                *)
(*   - its steps, seen from the pool, are steps of the pool, so that the   *)
(*     pool's invariant holds in it (ServerUsesPool, ServerJams);          *)
(*   - ServerInv: what its control relies on at each place of a handler    *)
(*     and of a task, and who owns each channel (ServerInvariant);         *)
(*   - BytesMove: every step moves bytes one place further, hands over,    *)
(*     or drops them, from which no byte is in two places and a stranger's *)
(*     bytes have a stranger that left (ServerStrangerHasLeft,             *)
(*     ServerHoldsOnce);                                                   *)
(*   - OrderInv: what is on the way of a connected client, read from the   *)
(*     channel to the socket, is in order as long as one worker at a time  *)
(*     has bytes of its channel (ServerEchoesInOrder).                     *)
(***************************************************************************)
EXTENDS SyPthreadChannel, SequenceTheorems, TLAPS

(* The steps of the loop's thread that begin or end nothing in the pool.   *)
LEMMA LoopKeepsPool ==
  (\/ LoopStep \/ LoopRaces
   \/ \E k \in Clients : SyinxKernel_Recv_Cb(k) \/ Flush(k)
   \/ \E k \in Clients : ClientStep(k))
  => UNCHANGED poolAll
BY DEF LoopStep, LoopRaces, SyinxKernel_Recv_Cb, Flush, ClientStep, KeepTasks, Race

(* What Main does with a handler it has begun, inside the pool or not.     *)
LEMMA MainGoesOnInPool ==
  MainGoesOn => P!Next \/ UNCHANGED poolAll
<1>1. CASE OnStatusDoAction
  BY <1>1 DEF OnStatusDoAction, P!Next, P!ProducerStep
<1>2. CASE AddTaskReturns
  BY <1>2 DEF AddTaskReturns, P!Next, P!ProducerStep
<1>3. CASE PoolClose
  BY <1>3 DEF PoolClose, P!Next
<1>4. CASE MainInPool
  BY <1>4 DEF MainInPool, P!Next, P!ProducerStep
<1>5. CASE \/ LengthRaces \/ FreeRaces
           \/ NothingToHandle \/ Clear \/ CloseChannel \/ Exit
           \/ /\ MainFree /\ KeepTasks
              /\ \/ R!OnClientConnect \/ R!SocketFdAdd
                 \/ R!Logout \/ R!SocketFdDel
  BY <1>5 DEF LengthRaces, FreeRaces, NothingToHandle, Clear, CloseChannel, Exit,
              KeepTasks, Race
<1> QED
  BY <1>1, <1>2, <1>3, <1>4, <1>5 DEF MainGoesOn

(* A task is inside the worker's WorkerRun step.                           *)
LEMMA TaskInPool ==
  ASSUME NEW w \in Workers, TaskStep(w)
  PROVE  P!Next \/ UNCHANGED poolAll
<1>1. CASE TaskBegins(w)
  BY <1>1 DEF TaskBegins, Race
<1>2. CASE TaskRemoves(w)
  BY <1>2 DEF TaskRemoves, P!Next, P!WorkerStep
<1>3. CASE TaskSends(w)
  <2>1. Race \/ UNCHANGED poolAll \/ TaskReturns(w)
    BY <1>3 DEF TaskSends
  <2> QED
    BY <2>1 DEF Race, TaskReturns, P!Next, P!WorkerStep
<1>4. CASE TaskWrites(w)
  BY <1>4 DEF TaskWrites, TaskReturns, Race, P!Next, P!WorkerStep
<1> QED
  BY <1>1, <1>2, <1>3, <1>4 DEF TaskStep

(* SIG_HANDLE outside AddTaskFunc leaves the pool alone.                   *)
LEMMA SignalInPool ==
  SIG_HANDLE => SignalInAddTask \/ UNCHANGED poolAll
BY DEF SIG_HANDLE, SignalInAddTask, poolAll, ring

(* Every step of the server is one of these for the pool.                  *)
LEMMA StepUsesPool ==
  ASSUME [Next]_vars
  PROVE  P!Next \/ (SIG_HANDLE /\ SignalInAddTask) \/ UNCHANGED poolAll
<1>1. CASE \/ LoopStep \/ LoopRaces
           \/ \E k \in Clients : SyinxKernel_Recv_Cb(k) \/ Flush(k)
           \/ \E k \in Clients : ClientStep(k)
  BY <1>1, LoopKeepsPool
<1>2. CASE MainGoesOn
  BY <1>2, MainGoesOnInPool
<1>3. CASE MainLocks \/ CreateFails
  BY <1>3 DEF MainLocks, CreateFails, P!Next, P!ProducerStep
<1>4. CASE SIG_HANDLE
  BY <1>4, SignalInPool
<1>5. ASSUME NEW w \in Workers,
             \/ CreateThread(w) \/ WorkerLocks(w) \/ WorkerScans(w)
             \/ WorkerMay(w) \/ TaskStep(w)
      PROVE  P!Next \/ UNCHANGED poolAll
  BY <1>5, TaskInPool
     DEF CreateThread, WorkerLocks, WorkerScans, WorkerMay, P!Next, P!WorkerStep
<1>6. CASE UNCHANGED vars
  BY <1>6 DEF vars
<1> QED
  BY <1>1, <1>2, <1>3, <1>4, <1>5, <1>6 DEF Next

(* The composition uses the pool only as SyPthreadPool allows, except when *)
(* the signal finds the loop's thread inside AddTaskFunc: for any number   *)
(* of channels, clients, workers and tasks.                                *)
THEOREM ServerUsesPool == Spec => UsesPool
<1>1. Init => P!Init
  BY DEF Init
<1>2. [Next]_vars => [P!Next \/ SignalInAddTask]_poolAll
  BY StepUsesPool
<1> QED
  BY <1>1, <1>2, PTL DEF Spec, UsesPool

-----------------------------------------------------------------------------
(* What is proved of the pool alone holds of the server's pool: all of it  *)
(* but JamsOnlyWhenFull survives a signal inside AddTaskFunc.              *)
PP == INSTANCE SyPthreadPoolProofs WITH Producers <- {Main}

PoolInv ==
  /\ PP!TypeOK /\ PP!NeverFlagged /\ PP!Holder /\ PP!TaskWhileRunning
  /\ count <= accepted
  /\ PP!RingHoldsBacklog /\ PP!TakenOnce
  /\ m_nWorkStatus = "SYINX_LINK_WORK" => ~interrupted
  /\ ~interrupted => PP!JamsOnlyWhenFull

(* The assumption of SyPthreadPool, for the instance.                      *)
LEMMA PoolConstants ==
  /\ PP!IsFiniteSet(Workers)
  /\ Main \in {Main}
  /\ Workers \cap {Main} = {}
  /\ NoThread \notin Workers \cup {Main}
  /\ QueueSize \in Nat
  /\ MaxTasks \in Nat
BY ServerAssumption DEF IsFiniteSet, PP!IsFiniteSet

(* Both instances of the pool have the same steps.                         *)
LEMMA SamePool ==
  /\ P!Init => PP!Init
  /\ P!Next => PP!Next
  /\ UNCHANGED poolAll => UNCHANGED PP!vars
  /\ P!Jammed <=> PP!Jammed
  /\ PP!TypeOK => P!TypeOK
<1>1. P!Init => PP!Init
  BY DEF P!Init, PP!Init
<1>2. UNCHANGED poolAll => UNCHANGED PP!vars
  BY DEF poolAll, ring, PP!vars, PP!ring
<1>3. P!Jammed <=> PP!Jammed
  BY DEF P!Jammed, P!KeptByWorker, P!KeptByProducer,
         PP!Jammed, PP!KeptByWorker, PP!KeptByProducer
<1>4. PP!TypeOK => P!TypeOK
  BY DEF P!TypeOK, P!Threads, P!WorkerPC, P!ProducerPC,
         PP!TypeOK, PP!Threads, PP!WorkerPC, PP!ProducerPC
<1>5. ASSUME NEW w \in Workers, P!WorkerStep(w)
      PROVE  PP!WorkerStep(w)
  BY <1>5 DEF P!ring, P!MustWait, P!Succ, P!WorkerStep, P!CreateThread,
       P!WorkerLock, P!WorkerWait, P!WorkerContinue, P!WorkerTake, P!WorkerRun,
       P!SpuriousWakeup, P!WorkerUsesFreed,
       PP!ring, PP!MustWait, PP!Succ, PP!WorkerStep, PP!CreateThread,
       PP!WorkerLock, PP!WorkerWait, PP!WorkerContinue, PP!WorkerTake,
       PP!WorkerRun, PP!SpuriousWakeup, PP!WorkerUsesFreed
<1>6. ASSUME NEW p \in {Main}, P!ProducerStep(p)
      PROVE  PP!ProducerStep(p)
  BY <1>6 DEF P!ring, P!Succ, P!Signal, P!ProducerStep, P!AddTaskFunc, P!AddLock,
       P!AddQueueIsMax, P!AddTask, P!CloseLock, P!CloseBroadcast,
       P!SyPthreadPool_free, P!ProducerUsesFreed,
       PP!ring, PP!Succ, PP!Signal, PP!ProducerStep, PP!AddTaskFunc, PP!AddLock,
       PP!AddQueueIsMax, PP!AddTask, PP!CloseLock, PP!CloseBroadcast,
       PP!SyPthreadPool_free, PP!ProducerUsesFreed
<1>7. P!CreateFails \/ P!InitializeReturns \/ P!Close
        => PP!CreateFails \/ PP!InitializeReturns \/ PP!Close
  BY DEF P!ring, P!CreateFails, P!InitializeReturns, P!Close,
         PP!ring, PP!CreateFails, PP!InitializeReturns, PP!Close
<1>8. P!Next => PP!Next
  BY <1>5, <1>6, <1>7 DEF P!Next, PP!Next
<1> QED
  BY <1>1, <1>2, <1>3, <1>4, <1>8

(* Only the signal's handler sets `interrupted`, and only once.            *)
LEMMA SignalOnce ==
  ASSUME [Next]_vars
  PROVE  \/ SIG_HANDLE
         \/ /\ interrupted' = interrupted
            /\ m_nWorkStatus' \in {m_nWorkStatus, "exit"}
<1> USE DEF history, resAll, KeepTasks, Race, UnchangedButAt, OnlyThePool
<1>1. CASE LoopStep \/ LoopRaces
  BY <1>1 DEF LoopStep, LoopRaces, R!Refuse, R!AllocationIChannel,
              R!GameServerDoAction, R!SyinxKernel_Event_Cb
<1>2. CASE \E k \in Clients : SyinxKernel_Recv_Cb(k) \/ Flush(k) \/ ClientStep(k)
  BY <1>2 DEF SyinxKernel_Recv_Cb, Flush, ClientStep, R!SyinxKernel_Recv_Cb,
              R!Writev, R!Flush, R!Send, R!Leave
<1>3. CASE MainGoesOn
  BY <1>3 DEF MainGoesOn, R!OnClientConnect, R!SocketFdAdd, R!Logout,
              R!SocketFdDel, LengthRaces, FreeRaces, NothingToHandle,
              OnStatusDoAction, AddTaskReturns, Clear, CloseChannel, PoolClose,
              Exit, MainInPool
<1>4. CASE MainLocks \/ CreateFails
  BY <1>4 DEF MainLocks, CreateFails
<1>5. ASSUME NEW w \in Workers,
             \/ CreateThread(w) \/ WorkerLocks(w) \/ WorkerScans(w) \/ WorkerMay(w)
      PROVE  interrupted' = interrupted /\ m_nWorkStatus' = m_nWorkStatus
  BY <1>5 DEF CreateThread, WorkerLocks, WorkerScans, WorkerMay
<1>6. ASSUME NEW w \in Workers, TaskStep(w)
      PROVE  interrupted' = interrupted /\ m_nWorkStatus' = m_nWorkStatus
  BY <1>6 DEF TaskStep, TaskBegins, TaskRemoves, TaskSends, TaskWrites
<1>7. CASE UNCHANGED vars
  BY <1>7 DEF vars
<1> QED
  BY <1>1, <1>2, <1>3, <1>4, <1>5, <1>6, <1>7 DEF Next

LEMMA InitPool == Init => PoolInv
<1> SUFFICES ASSUME Init  PROVE PoolInv
  OBVIOUS
<1>1. PP!IInv
  BY SamePool, PoolConstants, PP!InitIInv DEF Init
<1> QED
  BY <1>1 DEF Init, PoolInv, PP!IInv

LEMMA StepPool == PoolInv /\ [Next]_vars => PoolInv'
<1> SUFFICES ASSUME PoolInv, [Next]_vars  PROVE PoolInv'
  OBVIOUS
<1>1. m_nWorkStatus' = "SYINX_LINK_WORK" => ~interrupted'
  BY SignalOnce DEF PoolInv, SIG_HANDLE
<1>2. ~interrupted' => ~interrupted
  BY SignalOnce DEF PoolInv, SIG_HANDLE
<1>3. CASE P!Next \/ UNCHANGED poolAll
  <2>1. [PP!Next]_PP!vars
    BY <1>3, SamePool
  <2>2. PP!TypeOK' /\ PP!NeverFlagged'
    BY <2>1, PoolConstants, PP!TypeStep DEF PoolInv
  <2>3. PP!Holder'
    BY <2>1, PoolConstants, PP!HolderStep DEF PoolInv
  <2>4. PP!TaskWhileRunning' /\ (count <= accepted)'
    BY <2>1, PoolConstants, PP!TaskStep DEF PoolInv
  <2>5. PP!RingHoldsBacklog'
    BY <2>1, PoolConstants, PP!RingStep DEF PoolInv
  <2>6. PP!TakenOnce'
    BY <2>1, PoolConstants, PP!TakenStep DEF PoolInv
  <2>7. ~interrupted => PP!JamsOnlyWhenFull'
    BY <2>1, PoolConstants, PP!JamStep DEF PoolInv
  <2> QED
    BY <1>1, <1>2, <2>2, <2>3, <2>4, <2>5, <2>6, <2>7 DEF PoolInv
<1>4. CASE SignalInAddTask /\ SIG_HANDLE
  <2> USE DEF PoolInv
  <2>1. /\ ppc' = [ppc EXCEPT ![Main] = "idle"] /\ ppc[Main] \in {"addlock", "add"}
        /\ interrupted' = (ppc[Main] = "add")
        /\ UNCHANGED <<lock, Taskqueue, count, HeadIndex, TailIndex, PthpoolClose,
                       started, PthreadStatus, freed, wpc, PthTask, accepted, done>>
    BY <1>4 DEF SignalInAddTask, ring, SIG_HANDLE
  <2>2. PP!TypeOK' /\ PP!NeverFlagged'
    BY <2>1 DEF PP!TypeOK, PP!Threads, PP!ProducerPC, PP!NeverFlagged
  <2>3. PP!Holder'
    BY <2>1 DEF PP!Holder, PP!TypeOK
  <2>4. PP!TaskWhileRunning' /\ (count <= accepted)' /\ PP!RingHoldsBacklog' /\ PP!TakenOnce'
    BY <2>1 DEF PP!TaskWhileRunning, PP!RingHoldsBacklog, PP!Slot, PP!TakenOnce
  <2>5. ~interrupted' => PP!JamsOnlyWhenFull'
    BY <1>2, <2>1, PoolConstants
       DEF PP!JamsOnlyWhenFull, PP!Jammed, PP!KeptByWorker, PP!KeptByProducer, PP!TypeOK
  <2> QED
    BY <1>1, <2>2, <2>3, <2>4, <2>5
<1> QED
  BY <1>3, <1>4, StepUsesPool

(* The mutex is kept for ever only by the full ring or by a signal that    *)
(* found AddTaskFunc holding it.                                           *)
THEOREM ServerJams == Spec => []JamExplained
<1>1. PoolInv => JamExplained
  BY SamePool DEF PoolInv, PP!JamsOnlyWhenFull, JamExplained
<1> QED
  BY InitPool, StepPool, <1>1, PTL DEF Spec
-----------------------------------------------------------------------------
(* The steps, by what they change besides the pool.                        *)

(* A worker that runs a task goes on with it.                              *)
SameTasks ==
  \A w \in Workers : wpc[w] = "run" =>
    wpc'[w] = "run" /\ PthTask'[w] = PthTask[w] /\ Chan(w)' = Chan(w)

(* Where Main is inside the pool's Close.                                  *)
ClosePC == {"closelock", "close", "free", "closed"}

(* A step inside the pool, or a race.                                      *)
Quiet ==
  /\ UNCHANGED <<resAll, taskVars, accepted, history>>
  /\ undefined' \in {undefined, TRUE}
  /\ SameTasks
  /\ ppc'[Main] \in {"addlock", "add"}
       => ppc[Main] \in {"addlock", "add"} \/ AboutToHandle
  /\ ppc'[Main] \in ClosePC => ppc[Main] \in ClosePC \/ at.op = "close"

(* A step of SyResAdapter that the composition takes over unchanged.       *)
Adopted ==
  /\ KeepTasks
  /\ \/ \E k \in Clients : \/ R!Refuse(k) \/ R!AllocationIChannel(k)
                           \/ R!SyinxKernel_Event_Cb(k)
                           \/ R!SyinxKernel_Recv_Cb(k)
                           \/ R!Writev(k) \/ R!Flush(k)
                           \/ R!Send(k) \/ R!Leave(k)
     \/ R!GameServerDoAction \/ R!OnClientConnect \/ R!SocketFdAdd
     \/ R!Logout \/ R!SocketFdDel

MainMoves ==
  NothingToHandle \/ AddTaskReturns \/ Clear \/ CloseChannel \/ Exit \/ SIG_HANDLE

LEMMA StepKinds ==
  ASSUME PoolInv, [Next]_vars
  PROVE  \/ Quiet
         \/ /\ ~undefined /\ ~undefined'
            /\ Adopted \/ MainMoves \/ \E w \in Workers : TaskStep(w)
<1> USE DEF Alive, MainFree
<1>1. ASSUME UNCHANGED <<resAll, poolAll, taskVars, history>>, undefined' \in {undefined, TRUE}
      PROVE  Quiet
  BY <1>1 DEF poolAll, taskVars, Quiet, SameTasks, Chan
<1>2. Race => Quiet
  BY <1>1 DEF Race, history
<1>3. CASE LoopStep
  BY <1>3 DEF LoopStep, Adopted, KeepTasks
<1>4. ASSUME NEW k \in Clients, SyinxKernel_Recv_Cb(k) \/ Flush(k) \/ ClientStep(k)
      PROVE  Race \/ (Adopted /\ ~undefined /\ ~undefined')
  BY <1>4 DEF SyinxKernel_Recv_Cb, Flush, ClientStep, Adopted, KeepTasks
<1>5. CASE /\ MainFree /\ KeepTasks
           /\ \/ R!OnClientConnect \/ R!SocketFdAdd \/ R!Logout \/ R!SocketFdDel
  BY <1>5 DEF Adopted, KeepTasks
<1>14. CASE LoopRaces \/ LengthRaces \/ FreeRaces
  BY <1>2, <1>14 DEF LoopRaces, LengthRaces, FreeRaces
<1>6. CASE NothingToHandle \/ AddTaskReturns \/ Clear \/ CloseChannel \/ Exit \/ SIG_HANDLE
  BY <1>2, <1>6 DEF NothingToHandle, AddTaskReturns, Clear, CloseChannel, Exit,
                    SIG_HANDLE, MainMoves, KeepTasks, history
<1>7. ASSUME UNCHANGED <<resAll, taskVars, accepted, undefined, history>>,
             \A w \in Workers : wpc[w] = "run" =>
               wpc'[w] = "run" /\ PthTask'[w] = PthTask[w],
             \/ ppc' = ppc
             \/ /\ ppc'[Main] \in {"addlock", "add"}
                  => ppc[Main] \in {"addlock", "add"} \/ AboutToHandle
                /\ ppc'[Main] \in ClosePC => ppc[Main] \in ClosePC \/ at.op = "close"
      PROVE  Quiet
  BY <1>7 DEF taskVars, history, Quiet, SameTasks, Chan
<1>8. ppc \in [{Main} -> {"init", "idle", "addlock", "add", "closelock", "close",
                         "free", "closed", "lost"}]
      /\ wpc \in [Workers -> {"none", "lock", "scan", "wait", "run", "exit", "lost"}]
      /\ PthTask \in [Workers -> 0 .. MaxTasks]
  BY DEF PoolInv, PP!TypeOK, PP!ProducerPC, PP!WorkerPC
<1>9. CASE OnStatusDoAction
  <2>1. UNCHANGED <<resAll, taskVars, accepted, undefined, history, wpc, PthTask>>
        /\ AboutToHandle /\ ppc'[Main] = "addlock"
    BY <1>8, <1>9 DEF OnStatusDoAction, P!AddTaskFunc
  <2> QED  BY <1>7, <2>1 DEF ClosePC
<1>10. CASE PoolClose \/ MainInPool \/ MainLocks \/ CreateFails
  <2>1. UNCHANGED <<resAll, taskVars, accepted, undefined, history, PthTask>>
    BY <1>10 DEF PoolClose, MainInPool, MainLocks, CreateFails, OnlyThePool, P!Close,
         P!InitializeReturns, P!CloseBroadcast, P!SyPthreadPool_free,
         P!AddLock, P!CloseLock, P!CreateFails
  <2>2. \A w \in Workers : wpc[w] = "run" => wpc'[w] = "run"
    BY <1>8, <1>10 DEF PoolClose, MainInPool, MainLocks, CreateFails, P!Close,
         P!InitializeReturns, P!CloseBroadcast, P!SyPthreadPool_free,
         P!AddLock, P!CloseLock, P!CreateFails
  <2>3. /\ ppc'[Main] \in {"addlock", "add"} => ppc[Main] \in {"addlock", "add"}
        /\ ppc'[Main] \in ClosePC => ppc[Main] \in ClosePC \/ at.op = "close"
    BY <1>8, <1>10 DEF ClosePC, PoolClose, MainInPool, MainLocks, CreateFails, P!Close,
         P!InitializeReturns, P!CloseBroadcast, P!SyPthreadPool_free,
         P!AddLock, P!CloseLock, P!CreateFails
  <2> QED  BY <1>7, <2>1, <2>2, <2>3
<1>11. ASSUME NEW w \in Workers,
              CreateThread(w) \/ WorkerLocks(w) \/ WorkerScans(w) \/ WorkerMay(w)
       PROVE  Quiet
  <2>1. UNCHANGED <<resAll, taskVars, accepted, undefined, history, ppc>>
    BY <1>11 DEF CreateThread, WorkerLocks, WorkerScans, WorkerMay, OnlyThePool,
         P!CreateThread, P!WorkerLock, P!WorkerWait, P!WorkerContinue, P!WorkerTake,
         P!SpuriousWakeup, P!WorkerUsesFreed
  <2>2. \A v \in Workers : wpc[v] = "run" =>
          wpc'[v] = "run" /\ PthTask'[v] = PthTask[v]
    BY <1>8, <1>11 DEF CreateThread, WorkerLocks, WorkerScans, WorkerMay,
         P!CreateThread, P!WorkerLock, P!WorkerWait, P!WorkerContinue, P!WorkerTake,
         P!SpuriousWakeup, P!WorkerUsesFreed
  <2> QED  BY <1>7, <2>1, <2>2
<1>12. ASSUME NEW w \in Workers, TaskStep(w)
       PROVE  Race \/ (~undefined /\ ~undefined')
  BY <1>12 DEF TaskStep, TaskBegins, TaskRemoves, TaskSends, TaskWrites, InTask, history
<1>13. CASE UNCHANGED vars
  BY <1>1, <1>13 DEF vars, history
<1> QED
  BY <1>2, <1>3, <1>4, <1>5, <1>6, <1>9, <1>10, <1>11, <1>12, <1>13, <1>14
     DEF Next, MainGoesOn

-----------------------------------------------------------------------------
(* The inductive invariant, on top of PoolInv.                             *)

Working == m_nWorkStatus = "SYINX_LINK_WORK"

ServerTypeOK ==
  /\ m_nWorkStatus \in {"SYINX_LINK_WORK", "SYINX_LINK_CLOSE", "exit"}
  /\ at \in [op  : {"loop", "writev", "alloc", "login", "frame", "removed",
                   "cleared", "freed", "logout", "close", "closed"},
             arg : Nat, who : Clients \cup {NoClient}]
  /\ m_queueILoop \in Seq(R!Channels)
  /\ m_listConnectClient \in Seq(R!Channels)
  /\ IChStatus \in [R!Channels -> {"CLIENT_LOGIN", "CLIENT_LOGOUT"}]
  /\ m_buffer \in [R!Channels -> Clients \cup {NoClient}]
  /\ m_Inputevbuffer \in [R!Channels -> Seq(R!Bytes)]
  /\ bev \in [Clients -> {"none", "open", "refused", "freed"}]
  /\ ctx \in [Clients -> 0 .. ConnectNum]
  /\ wire \in [Clients -> Seq(R!Bytes)]
  /\ out \in [Clients -> Seq(R!Bytes)]
  /\ got \in [Clients -> Seq(R!Bytes)]
  /\ sent \in [Clients -> 0 .. MaxSend]
  /\ arg \in Seq(R!Channels) /\ Len(arg) = accepted
  /\ phase \in [Workers -> Phases]
  /\ hand \in [Workers -> Seq(R!Bytes)]
  /\ undefined \in BOOLEAN /\ doubled \in BOOLEAN /\ interrupted \in BOOLEAN
  /\ \A w \in Workers : /\ (hand[w] # <<>>) <=> (phase[w] \in {"parse", "write"})
                        /\ phase[w] # "begin" => wpc[w] = "run"

(* What the statements of a handler that Main has begun rely on.           *)
InHandler == at.op \in {"alloc", "login", "removed", "cleared", "freed", "logout"}
MainOK ==
  /\ at.op \in {"close", "closed"} <=> ~Working
  /\ at.op = "closed" => m_queueILoop # <<>>
  /\ ppc[Main] \in {"addlock", "add"} => AboutToHandle
  /\ ppc[Main] \in ClosePC => ~Working
  /\ at.op = "frame" => at.arg \in 1 .. Len(m_listConnectClient)
  /\ InHandler => at.arg \in R!Channels
  /\ at.op = "alloc" => /\ at.who \in Clients /\ bev[at.who] = "open"
                        /\ ctx[at.who] = at.arg
  /\ at.op = "writev" => at.who \in Clients /\ bev[at.who] = "open"
  /\ at.op \in {"login", "removed", "cleared"} => IChStatus[at.arg] = "CLIENT_LOGIN"
  /\ at.op \in {"freed", "logout"} => IChStatus[at.arg] = "CLIENT_LOGOUT"
  /\ at.op = "logout" => m_buffer[at.arg] = NoClient

(* Until the signal, a channel is in one place.                            *)
ListsOK ==
  Working =>
    /\ R!NoRepeats(m_queueILoop) /\ R!NoRepeats(m_listConnectClient)
    /\ R!Elements(m_queueILoop) \cap R!Elements(m_listConnectClient) = {}
    /\ InHandler => at.arg \notin R!Elements(m_queueILoop)
                                    \cup R!Elements(m_listConnectClient)
    /\ \A c \in R!Elements(m_listConnectClient) : IChStatus[c] = "CLIENT_LOGIN"
    /\ \A k \in Clients : bev[k] = "open" =>
         \/ ctx[k] \in R!Elements(m_listConnectClient)
         \/ at.op \in {"alloc", "login", "removed", "cleared"} /\ at.arg = ctx[k]

(* A channel that is logged in has a client, and nobody else's; a worker   *)
(* that writes does so for a channel that is logged in.                    *)
OwnersOK ==
  /\ \A c \in R!Channels : IChStatus[c] = "CLIENT_LOGIN" =>
       /\ m_buffer[c] \in Clients /\ ctx[m_buffer[c]] = c
       /\ bev[m_buffer[c]] = "open"
  /\ \A c \in R!Elements(m_queueILoop) :
       IChStatus[c] = "CLIENT_LOGIN" \/ m_buffer[c] = NoClient
  /\ \A k \in Clients : bev[k] = "open" => ctx[k] \in R!Channels
  /\ \A j, k \in Clients :
       bev[j] = "open" /\ bev[k] = "open" /\ ctx[j] = ctx[k] => j = k
  /\ \A w \in Workers : phase[w] = "write" => IChStatus[Chan(w)] = "CLIENT_LOGIN"

ServerInv == PoolInv /\ ServerTypeOK /\ MainOK /\ ListsOK /\ OwnersOK

(* A running worker has an accepted task, of some channel.                 *)
LEMMA ChanTyped ==
  ASSUME PoolInv, ServerTypeOK, NEW w \in Workers, wpc[w] = "run"
  PROVE  PthTask[w] \in 1 .. Len(arg) /\ Chan(w) \in R!Channels
<1>1. /\ PthTask[w] # 0 /\ PthTask[w] \in 0 .. MaxTasks
      /\ accepted \in Nat /\ count \in Nat /\ MaxTasks \in Nat
  BY PoolConstants DEF PoolInv, PP!TypeOK, PP!TaskWhileRunning
<1>2. PthTask[w] <= accepted - count
  BY <1>1 DEF PoolInv, PP!TakenOnce
<1>3. PthTask[w] \in 1 .. Len(arg) /\ arg \in Seq(R!Channels)
  BY <1>1, <1>2, SMTT(30) DEF ServerTypeOK
<1> QED  BY <1>3 DEF Chan

-----------------------------------------------------------------------------
(* The lemmas about sequences, for this instance.                          *)
RE == INSTANCE SyResAdapterProofs

LEMMA ResConstants ==
  /\ ConnectNum \in Nat
  /\ NoClient \notin Clients
  /\ BUFFSIZE \in Nat \ {0}
  /\ MaxSend \in Nat
BY ServerAssumption

LEMMA SameElements ==
  ASSUME NEW s
  PROVE  /\ RE!Elements(s) = R!Elements(s)
         /\ RE!NoRepeats(s) <=> R!NoRepeats(s)
         /\ \A c : RE!Without(s, c) = R!Without(s, c)
BY DEF RE!Elements, R!Elements, RE!NoRepeats, R!NoRepeats, RE!Without, R!Without,
       RE!Position, R!Position

LEMMA Pushed ==
  ASSUME NEW S, NEW s \in Seq(S), NEW e \in S
  PROVE  /\ Append(s, e) \in Seq(S)
         /\ R!Elements(Append(s, e)) = R!Elements(s) \cup {e}
         /\ R!NoRepeats(s) /\ e \notin R!Elements(s) => R!NoRepeats(Append(s, e))
<1> DEFINE t == Append(s, e)
<1>1. /\ t \in Seq(S)
      /\ RE!Elements(t) = RE!Elements(s) \cup {e}
      /\ RE!NoRepeats(s) /\ e \notin RE!Elements(s) => RE!NoRepeats(t)
  BY RE!AppendElements, ResConstants
<1> HIDE DEF t
<1>2. t \in Seq(S) /\ R!Elements(t) = R!Elements(s) \cup {e}
      /\ (R!NoRepeats(s) /\ e \notin R!Elements(s) => R!NoRepeats(t))
  BY <1>1, SameElements
<1> QED  BY <1>2 DEF t

LEMMA Popped ==
  ASSUME NEW S, NEW s \in Seq(S), s # <<>>
  PROVE  /\ Tail(s) \in Seq(S) /\ Head(s) \in S /\ Head(s) \in R!Elements(s)
         /\ R!Elements(Tail(s)) \subseteq R!Elements(s)
         /\ R!NoRepeats(s) => /\ R!NoRepeats(Tail(s))
                              /\ R!Elements(Tail(s)) = R!Elements(s) \ {Head(s)}
<1> DEFINE t == Tail(s)
           h == Head(s)
<1>1. /\ t \in Seq(S) /\ h \in S /\ h \in RE!Elements(s)
      /\ RE!NoRepeats(s) => RE!NoRepeats(t) /\ RE!Elements(t) = RE!Elements(s) \ {h}
  BY RE!TailElements, ResConstants
<1>2. R!Elements(t) \subseteq R!Elements(s)
  <2>1. Len(s) \in Nat /\ Len(t) = Len(s) - 1 /\ \A i \in 1 .. Len(t) : t[i] = s[i + 1]
    OBVIOUS
  <2> HIDE DEF t
  <2> QED  BY <2>1 DEF R!Elements
<1> HIDE DEF t, h
<1>3. /\ t \in Seq(S) /\ h \in S /\ h \in R!Elements(s)
      /\ R!NoRepeats(s) => R!NoRepeats(t) /\ R!Elements(t) = R!Elements(s) \ {h}
  BY <1>1, SameElements
<1> QED  BY <1>2, <1>3 DEF t, h

LEMMA Joined ==
  ASSUME NEW S, NEW s \in Seq(S), NEW r \in Seq(S)
  PROVE  s \o r \in Seq(S) /\ R!Elements(s \o r) = R!Elements(s) \cup R!Elements(r)
<1> DEFINE t == s \o r
<1>1. t \in Seq(S) /\ RE!Elements(t) = RE!Elements(s) \cup RE!Elements(r)
  BY RE!ConcatElements, ResConstants
<1> HIDE DEF t
<1>2. t \in Seq(S) /\ R!Elements(t) = R!Elements(s) \cup R!Elements(r)
  BY <1>1, SameElements
<1> QED  BY <1>2 DEF t

LEMMA Removed ==
  ASSUME NEW S, NEW s \in Seq(S), NEW c \in R!Elements(s), R!NoRepeats(s)
  PROVE  /\ R!Without(s, c) \in Seq(S) /\ R!NoRepeats(R!Without(s, c))
         /\ R!Elements(R!Without(s, c)) = R!Elements(s) \ {c}
<1>1. c \in RE!Elements(s) /\ RE!NoRepeats(s)
  BY SameElements
<1>2. /\ RE!Without(s, c) \in Seq(S) /\ RE!NoRepeats(RE!Without(s, c))
      /\ RE!Elements(RE!Without(s, c)) = RE!Elements(s) \ {c}
  BY <1>1, RE!WithoutElements, ResConstants
<1> QED  BY <1>2, SameElements

(* The bytes evbuffer_remove takes and those it leaves.                    *)
LEMMA TakenTyped ==
  ASSUME m_Inputevbuffer \in [R!Channels -> Seq(R!Bytes)], NEW c \in R!Channels
  PROVE  /\ R!Taken(c) \in Seq(R!Bytes) /\ R!Rest(c) \in Seq(R!Bytes)
         /\ R!Taken(c) \o R!Rest(c) = m_Inputevbuffer[c]
<1>1. PICK b \in Seq(R!Bytes) : b = m_Inputevbuffer[c]
  OBVIOUS
<1>2. PICK n \in 0 .. Len(b) : n = R!TakeSize(c)
  BY <1>1, ServerAssumption DEF R!TakeSize
<1>3. R!Taken(c) = SubSeq(b, 1, n) /\ R!Rest(c) = SubSeq(b, n + 1, Len(b))
  BY <1>1, <1>2 DEF R!Taken, R!Rest
<1>4. SubSeq(b, 1, n) \o SubSeq(b, n + 1, Len(b)) = b
  BY RE!Splitting, ResConstants
<1>5. SubSeq(b, 1, n) \in Seq(R!Bytes) /\ SubSeq(b, n + 1, Len(b)) \in Seq(R!Bytes)
  OBVIOUS
<1> QED  BY <1>1, <1>3, <1>4, <1>5

-----------------------------------------------------------------------------
(* The steps and the type invariant.                                       *)

LEMMA HandledTyped ==
  ASSUME ServerTypeOK, MainOK, AboutToHandle
  PROVE  /\ Handled \in R!Channels
         /\ at.op = "close" => Handled = Head(m_queueILoop)
         /\ at.op # "close" => /\ Onward \in [op : {"loop", "frame", "cleared"}, arg : Nat,
                                              who : Clients \cup {NoClient}]
                               /\ Onward.arg = at.arg \/ Onward.op \in {"loop", "frame"}
                               /\ Onward.op = "cleared" <=> at.op = "removed"
                               /\ Onward.op = "frame" => Onward.arg \in 1 .. Len(m_listConnectClient)
         /\ at.op = "close" => /\ Onward = [at EXCEPT !.op = "closed"]
<1>1. at \in [op  : {"loop", "writev", "alloc", "login", "frame", "removed",
                   "cleared", "freed", "logout", "close", "closed"},
              arg : Nat, who : Clients \cup {NoClient}]
  BY DEF ServerTypeOK
<1>2. CASE at.op = "frame"
  <2>1. at.arg \in 1 .. Len(m_listConnectClient)
    BY <1>2 DEF MainOK
  <2>2. m_listConnectClient[at.arg] \in R!Channels /\ Len(m_listConnectClient) \in Nat
    BY <2>1 DEF ServerTypeOK
  <2>3. Handled = m_listConnectClient[at.arg]
    BY <1>2 DEF Handled
  <2>4. Onward = IF at.arg < Len(m_listConnectClient)
                 THEN [at EXCEPT !.arg = @ + 1] ELSE R!AtLoop
    BY <1>2, <2>1, <2>2 DEF Onward
  <2> QED  BY <1>1, <1>2, <2>1, <2>2, <2>3, <2>4 DEF R!AtLoop, R!Place
<1>3. CASE at.op = "removed"
  <2>1. at.arg \in R!Channels
    BY <1>3 DEF MainOK, InHandler
  <2>2. Handled = at.arg /\ Onward = [at EXCEPT !.op = "cleared"]
    BY <1>3 DEF Handled, Onward
  <2> QED  BY <1>1, <1>3, <2>1, <2>2
<1>4. CASE at.op = "close" /\ m_queueILoop # <<>>
  <2>1. Head(m_queueILoop) \in R!Channels
    BY <1>4, Popped DEF ServerTypeOK
  <2>2. Handled = Head(m_queueILoop) /\ Onward = [at EXCEPT !.op = "closed"]
    BY <1>4 DEF Handled, Onward
  <2> QED  BY <1>1, <1>4, <2>1, <2>2
<1> QED  BY <1>2, <1>3, <1>4 DEF AboutToHandle

(* What AddTaskFunc's return and the end of a task leave of the others.    *)
LEMMA OthersGoOn ==
  ASSUME PoolInv, ServerTypeOK, NEW w \in Workers, P!WorkerRun(w), UNCHANGED arg
  PROVE  /\ \A v \in Workers \ {w} :
              /\ wpc'[v] = wpc[v] /\ PthTask'[v] = PthTask[v] /\ Chan(v)' = Chan(v)
         /\ wpc'[w] = "lock" /\ UNCHANGED <<accepted, ppc>>
<1>1. /\ wpc \in [Workers -> {"none", "lock", "scan", "wait", "run", "exit", "lost"}]
      /\ PthTask \in [Workers -> 0 .. MaxTasks]
  BY DEF PoolInv, PP!TypeOK, PP!WorkerPC
<1> QED  BY <1>1 DEF P!WorkerRun, Chan

LEMMA AddReturns ==
  ASSUME ServerInv, AddTaskReturns
  PROVE  /\ SameTasks /\ AboutToHandle
         /\ arg' \in Seq(R!Channels) /\ Len(arg') = accepted'
         /\ ppc'[Main] = "idle"
         /\ at' = Onward
         /\ UNCHANGED <<m_nWorkStatus, resVars, channelVars, clientVars,
                        phase, hand, undefined, doubled, interrupted, PthTask>>
<1>0. PoolInv /\ ServerTypeOK /\ MainOK /\ PthpoolClose = FALSE
  BY DEF ServerInv, PoolInv, PP!NeverFlagged
<1>1. ppc[Main] = "add" /\ AboutToHandle
  BY <1>0 DEF AddTaskReturns, P!AddTask, P!AddQueueIsMax, MainOK
<1>2. Handled \in R!Channels /\ arg \in Seq(R!Channels) /\ Len(arg) = accepted
  BY <1>0, <1>1, HandledTyped DEF ServerTypeOK
<1>3. /\ wpc \in [Workers -> {"none", "lock", "scan", "wait", "run", "exit", "lost"}]
      /\ ppc \in [{Main} -> {"init", "idle", "addlock", "add", "closelock", "close",
                             "free", "closed", "lost"}]
      /\ accepted \in Nat
  BY <1>0, PoolConstants DEF PoolInv, PP!TypeOK, PP!ProducerPC, PP!WorkerPC
<1>4. /\ UNCHANGED PthTask /\ ppc'[Main] = "idle"
      /\ \A w \in Workers : wpc[w] = "run" => wpc'[w] = "run"
  BY <1>0, <1>3 DEF AddTaskReturns, P!AddTask, P!AddQueueIsMax, P!Signal
<1>5. /\ arg' \in Seq(R!Channels) /\ Len(arg') = accepted'
      /\ \A i \in 1 .. Len(arg) : arg'[i] = arg[i]
  <2>1. CASE P!AddTask(Main) /\ arg' = Append(arg, Handled)
    <3>1. accepted' = accepted + 1
      BY <1>0, <2>1 DEF P!AddTask
    <3> QED  BY <1>2, <2>1, <3>1, AppendProperties
  <2>2. CASE P!AddQueueIsMax(Main) /\ UNCHANGED arg
    BY <1>2, <2>2 DEF P!AddQueueIsMax
  <2> QED  BY <2>1, <2>2 DEF AddTaskReturns
<1>6. SameTasks
  <2> SUFFICES ASSUME NEW w \in Workers, wpc[w] = "run"
               PROVE  wpc'[w] = "run" /\ PthTask'[w] = PthTask[w] /\ Chan(w)' = Chan(w)
    BY DEF SameTasks
  <2>1. PthTask[w] \in 1 .. Len(arg)
    BY <1>0, ChanTyped
  <2> QED  BY <1>4, <1>5, <2>1 DEF Chan
<1>7. /\ at' = Onward
      /\ UNCHANGED <<m_nWorkStatus, resVars, channelVars, clientVars,
                     phase, hand, undefined, doubled, interrupted>>
  BY DEF AddTaskReturns, UnchangedButAt, history
<1> QED  BY <1>1, <1>4, <1>5, <1>6, <1>7

(* What a step of SyResAdapter changes is of its type.                     *)
LEMMA AdoptedTypes ==
  ASSUME ServerInv, Adopted
  PROVE  ServerTypeOK'
<1>0. ServerTypeOK /\ MainOK /\ ListsOK /\ OwnersOK
  BY DEF ServerInv
<1>1. /\ UNCHANGED <<wpc, PthTask, accepted, arg, phase, hand, undefined, doubled,
                     interrupted>>
      /\ m_nWorkStatus' = m_nWorkStatus
  BY DEF Adopted, KeepTasks, poolAll, taskVars, history, R!Refuse, R!AllocationIChannel,
         R!SyinxKernel_Event_Cb, R!SyinxKernel_Recv_Cb, R!Writev, R!Flush, R!Send,
         R!Leave, R!GameServerDoAction, R!OnClientConnect, R!SocketFdAdd,
         R!Logout, R!SocketFdDel
<1> USE <1>0 DEF ServerTypeOK, R!resVars, R!channelVars, R!clientVars
<1>2. ASSUME NEW k \in Clients, R!Refuse(k)  PROVE ServerTypeOK'
  BY <1>1, <1>2 DEF R!Refuse
<1>3. ASSUME NEW k \in Clients, R!AllocationIChannel(k)  PROVE ServerTypeOK'
  <2> DEFINE c == Head(m_queueILoop)
  <2>1. Tail(m_queueILoop) \in Seq(R!Channels) /\ c \in R!Channels
    BY <1>3, Popped DEF R!AllocationIChannel
  <2>2. c \in Nat /\ c \in 0 .. ConnectNum
    BY <2>1, ServerAssumption, SMTT(30) DEF R!Channels
  <2>3. /\ m_queueILoop' = Tail(m_queueILoop)
        /\ at' = R!Place("alloc", c, k)
        /\ bev' = [bev EXCEPT ![k] = "open"] /\ ctx' = [ctx EXCEPT ![k] = c]
        /\ UNCHANGED <<m_listConnectClient, IChStatus, m_buffer, m_Inputevbuffer,
                       wire, out, sent, got>>
    BY <1>3 DEF R!AllocationIChannel
  <2> HIDE DEF c
  <2> QED  BY <1>1, <2>1, <2>2, <2>3 DEF R!Place
<1>4. ASSUME NEW k \in Clients, R!SyinxKernel_Event_Cb(k)  PROVE ServerTypeOK'
  <2>1. /\ Working /\ bev[k] = "open" /\ at.op \in {"loop", "writev"}
        /\ ctx[k] \in Nat
    BY <1>4, ServerAssumption DEF R!SyinxKernel_Event_Cb, R!FindsGone, R!Looping,
         R!Running, R!AtLoop, R!Place, Working
  <2>2. ctx[k] \in R!Elements(m_listConnectClient)
    BY <2>1 DEF ListsOK
  <2>3. R!Without(m_listConnectClient, ctx[k]) \in Seq(R!Channels)
    BY <2>1, <2>2, Removed DEF ListsOK
  <2>4. /\ m_listConnectClient' = R!Without(m_listConnectClient, ctx[k])
        /\ at' = R!Place("removed", ctx[k], NoClient)
        /\ UNCHANGED <<m_queueILoop, IChStatus, m_buffer, m_Inputevbuffer, bev, ctx,
                       wire, out, sent, got>>
    BY <1>4 DEF R!SyinxKernel_Event_Cb
  <2> QED  BY <1>1, <2>1, <2>3, <2>4 DEF R!Place
<1>5. ASSUME NEW k \in Clients, R!SyinxKernel_Recv_Cb(k)  PROVE ServerTypeOK'
  <2>1. ctx[k] \in R!Channels /\ wire[k] \in Seq(R!Bytes)
        /\ m_Inputevbuffer[ctx[k]] \in Seq(R!Bytes) /\ <<>> \in Seq(R!Bytes)
    BY <1>5 DEF R!SyinxKernel_Recv_Cb, OwnersOK
  <2> DEFINE b == m_Inputevbuffer[ctx[k]] \o wire[k]
  <2>2. b \in Seq(R!Bytes)
    BY <2>1, Joined
  <2>3. /\ m_Inputevbuffer' = [m_Inputevbuffer EXCEPT ![ctx[k]] = b]
        /\ wire' = [wire EXCEPT ![k] = <<>>]
        /\ UNCHANGED <<at, m_queueILoop, m_listConnectClient, IChStatus, m_buffer,
                       bev, ctx, out, sent, got>>
    BY <1>5 DEF R!SyinxKernel_Recv_Cb
  <2> HIDE DEF b
  <2> QED  BY <1>1, <2>1, <2>2, <2>3
<1>6. ASSUME NEW k \in Clients, R!Flush(k)  PROVE ServerTypeOK'
  <2> DEFINE b == got[k] \o out[k]
  <2>1. b \in Seq(R!Bytes) /\ <<>> \in Seq(R!Bytes)
    BY Joined
  <2>2. /\ got' = [got EXCEPT ![k] = b] /\ out' = [out EXCEPT ![k] = <<>>]
        /\ at' = R!AtLoop
        /\ UNCHANGED <<m_queueILoop, m_listConnectClient, IChStatus, m_buffer,
                       m_Inputevbuffer, bev, ctx, wire, sent>>
    BY <1>6 DEF R!Flush
  <2> HIDE DEF b
  <2> QED  BY <1>1, <2>1, <2>2 DEF R!AtLoop, R!Place
<1>12. ASSUME NEW k \in Clients, R!Writev(k)  PROVE ServerTypeOK'
  BY <1>1, <1>12 DEF R!Writev, R!Place
<1>7. ASSUME NEW k \in Clients, R!Send(k)  PROVE ServerTypeOK'
  <2> DEFINE b == Append(wire[k], <<k, sent[k] + 1>>)
  <2>1. sent[k] + 1 \in 1 .. MaxSend
    <3>1. sent[k] \in 0 .. MaxSend /\ sent[k] < MaxSend
      BY <1>7 DEF R!Send
    <3>2. MaxSend \in Nat
      BY ServerAssumption
    <3> DEFINE n == sent[k]
    <3>3. n \in 0 .. MaxSend /\ n < MaxSend
      BY <3>1
    <3> HIDE DEF n
    <3>4. n + 1 \in 1 .. MaxSend
      BY <3>2, <3>3
    <3> QED  BY <3>4 DEF n
  <2>2. <<k, sent[k] + 1>> \in R!Bytes /\ wire[k] \in Seq(R!Bytes)
    BY <2>1 DEF R!Bytes
  <2>3. b \in Seq(R!Bytes)
    BY <2>2, AppendProperties
  <2>4. /\ wire' = [wire EXCEPT ![k] = b] /\ sent' = [sent EXCEPT ![k] = sent[k] + 1]
        /\ UNCHANGED <<at, m_queueILoop, m_listConnectClient, IChStatus, m_buffer,
                       m_Inputevbuffer, bev, ctx, out, got>>
    BY <1>7 DEF R!Send
  <2>5. sent' \in [Clients -> 0 .. MaxSend]
    <3>1. sent[k] + 1 \in 0 .. MaxSend
      BY <2>1, ServerAssumption
    <3> QED  BY <2>4, <3>1
  <2> HIDE DEF b
  <2> QED  BY <1>1, <2>3, <2>4, <2>5
<1>8. ASSUME NEW k \in Clients, R!Leave(k)  PROVE ServerTypeOK'
  <2>1. UNCHANGED <<at, m_queueILoop, m_listConnectClient, IChStatus, m_buffer,
                    m_Inputevbuffer, bev, ctx, wire, out, got, sent>>
    BY <1>8 DEF R!Leave
  <2> QED  BY <1>1, <2>1
<1>9. CASE R!GameServerDoAction
  BY <1>1, <1>9 DEF R!GameServerDoAction, R!Place
<1>10. CASE R!OnClientConnect
  <2>1. at.arg \in R!Channels /\ at.who \in Clients
    BY <1>10 DEF R!OnClientConnect, R!Running, MainOK, InHandler
  <2>2. /\ m_buffer' = [m_buffer EXCEPT ![at.arg] = at.who]
        /\ IChStatus' = [IChStatus EXCEPT ![at.arg] = "CLIENT_LOGIN"]
        /\ at' = [at EXCEPT !.op = "login"]
        /\ UNCHANGED <<m_queueILoop, m_listConnectClient, m_Inputevbuffer, bev, ctx,
                       wire, out, sent, got>>
    BY <1>10 DEF R!OnClientConnect
  <2> QED  BY <1>1, <2>1, <2>2
<1>13. CASE R!SocketFdAdd
  <2>1. at.arg \in R!Channels
    BY <1>13 DEF R!SocketFdAdd, R!Running, MainOK, InHandler
  <2> DEFINE q == Append(m_listConnectClient, at.arg)
  <2>2. q \in Seq(R!Channels)
    BY <2>1, AppendProperties
  <2>3. /\ m_listConnectClient' = q
        /\ at' = R!AtLoop
        /\ UNCHANGED <<m_queueILoop, IChStatus, m_buffer, m_Inputevbuffer, bev, ctx,
                       wire, out, sent, got>>
    BY <1>13 DEF R!SocketFdAdd
  <2> HIDE DEF q
  <2> QED  BY <1>1, <2>2, <2>3 DEF R!AtLoop, R!Place
<1>14. CASE R!Logout
  <2>1. /\ m_buffer' = [m_buffer EXCEPT ![at.arg] = NoClient]
        /\ at' = [at EXCEPT !.op = "logout"]
        /\ UNCHANGED <<m_queueILoop, m_listConnectClient, IChStatus, m_Inputevbuffer,
                       bev, ctx, wire, out, sent, got>>
    BY <1>14 DEF R!Logout
  <2> QED  BY <1>1, <2>1
<1>11. CASE R!SocketFdDel
  <2>1. at.arg \in R!Channels
    BY <1>11 DEF R!SocketFdDel, R!Running, MainOK, InHandler
  <2> DEFINE q == Append(m_queueILoop, at.arg)
  <2>2. q \in Seq(R!Channels)
    BY <2>1, AppendProperties
  <2>3. /\ m_queueILoop' = q
        /\ at' = R!AtLoop
        /\ UNCHANGED <<m_listConnectClient, IChStatus, m_buffer, m_Inputevbuffer, bev,
                       ctx, wire, out, sent, got>>
    BY <1>11 DEF R!SocketFdDel
  <2> HIDE DEF q
  <2> QED  BY <1>1, <2>2, <2>3 DEF R!AtLoop, R!Place
<1> QED
  BY <1>2, <1>3, <1>4, <1>5, <1>6, <1>7, <1>8, <1>9, <1>10, <1>11, <1>12, <1>13,
     <1>14 DEF Adopted

(* OnStatusDoAction returns, with a task queued or not.                    *)
LEMMA HandledDoes ==
  ASSUME ServerInv, NothingToHandle \/ AddTaskReturns
  PROVE  /\ SameTasks /\ AboutToHandle /\ at' = Onward
         /\ arg' \in Seq(R!Channels) /\ Len(arg') = accepted'
         /\ ppc'[Main] = "idle"
         /\ UNCHANGED <<m_nWorkStatus, resVars, channelVars, clientVars,
                        phase, hand, undefined, doubled, interrupted>>
<1>1. CASE NothingToHandle
  BY <1>1 DEF NothingToHandle, MainFree, UnchangedButAt, KeepTasks, poolAll, taskVars,
              history, SameTasks, Chan, ServerInv, ServerTypeOK
<1>2. CASE AddTaskReturns
  BY <1>2, AddReturns
<1> QED  BY <1>1, <1>2

(* The rest of Clear, when no worker writes to the client.                 *)
LEMMA ClearDoes ==
  ASSUME ServerInv, Clear, ~undefined'
  PROVE  LET c == at.arg
             k == m_buffer[c]
         IN  /\ at.op = "cleared" /\ Working /\ c \in R!Channels
             /\ k \in Clients /\ bev[k] = "open" /\ ctx[k] = c
             /\ \A w \in Workers : phase[w] = "write" => Chan(w) # c
             /\ IChStatus' = [IChStatus EXCEPT ![c] = "CLIENT_LOGOUT"]
             /\ bev' = [bev EXCEPT ![k] = "freed"]
             /\ out' = [out EXCEPT ![k] = <<>>]
             /\ wire' = [wire EXCEPT ![k] = <<>>]
             /\ at' = [at EXCEPT !.op = "freed"]
             /\ UNCHANGED <<m_nWorkStatus, resVars, m_buffer, m_Inputevbuffer, ctx,
                            sent, got, poolAll, taskVars, undefined, history>>
<1> DEFINE c == at.arg
           k == m_buffer[c]
<1>1. MainOK /\ OwnersOK /\ ServerTypeOK
  BY DEF ServerInv
<1>2. at.op = "cleared" /\ Working /\ c \in R!Channels /\ IChStatus[c] = "CLIENT_LOGIN"
  BY <1>1 DEF Clear, MainOK, InHandler
<1>3. k \in Clients /\ bev[k] = "open" /\ ctx[k] = c
  BY <1>1, <1>2 DEF OwnersOK
<1>4. Writers = {}
  BY DEF Clear, Race
<1>5. \A w \in Workers : phase[w] = "write" => Chan(w) # c
  BY <1>1, <1>4 DEF Writers, ServerTypeOK
<1>6. R!Freed(k) = "freed"
  BY <1>3 DEF R!Freed
<1> QED  BY <1>2, <1>3, <1>5, <1>6 DEF Clear, Race, KeepTasks

(* The end of a channel, when no worker is inside its buffers.             *)
LEMMA CloseDoes ==
  ASSUME ServerInv, CloseChannel, ~undefined'
  PROVE  LET c == Head(m_queueILoop)
             k == m_buffer[c]
         IN  /\ at.op = "closed" /\ ~Working /\ c \in R!Channels
             /\ m_queueILoop # <<>> /\ c \in R!Elements(m_queueILoop)
             /\ k \in Clients \cup {NoClient}
             /\ k # NoClient => bev[k] = "open" /\ ctx[k] = c
             /\ \A w \in Workers : phase[w] = "write" => Chan(w) # c
             /\ m_queueILoop' = Tail(m_queueILoop)
             /\ IChStatus' = [IChStatus EXCEPT ![c] = "CLIENT_LOGOUT"]
             /\ m_buffer' = [m_buffer EXCEPT ![c] = NoClient]
             /\ bev' = IF k = NoClient THEN bev ELSE [bev EXCEPT ![k] = "freed"]
             /\ at' = [at EXCEPT !.op = "close"]
             /\ UNCHANGED <<m_nWorkStatus, m_listConnectClient, m_Inputevbuffer, ctx,
                            wire, out, sent, got, poolAll, taskVars, undefined, history>>
<1> DEFINE c == Head(m_queueILoop)
           k == m_buffer[c]
<1>1. MainOK /\ OwnersOK /\ ServerTypeOK
  BY DEF ServerInv
<1>2. at.op = "closed" /\ ~Working /\ m_queueILoop # <<>>
  BY <1>1 DEF CloseChannel, MainOK
<1>3. c \in R!Channels /\ c \in R!Elements(m_queueILoop)
  BY <1>1, <1>2, Popped DEF ServerTypeOK
<1>4. k \in Clients \cup {NoClient} /\ (k # NoClient => bev[k] = "open" /\ ctx[k] = c)
  BY <1>1, <1>3 DEF ServerTypeOK, OwnersOK
<1>5. In("write", c) = {}
  <2>1. In("remove", c) \cup In("write", c) = {}
    BY DEF CloseChannel, Race
  <2> QED  BY <2>1
<1>6. \A w \in Workers : phase[w] = "write" => Chan(w) # c
  BY <1>1, <1>5 DEF In, ServerTypeOK
<1>7. k # NoClient => R!Freed(k) = "freed"
  BY <1>4 DEF R!Freed
<1> QED  BY <1>2, <1>3, <1>4, <1>6, <1>7 DEF CloseChannel, Race, KeepTasks

(* A worker whose task has returned is at its beginning with nothing in    *)
(* hand; the others are where they were.                                   *)
LEMMA BackToBegin ==
  ASSUME hand \in [Workers -> Seq(R!Bytes)], phase \in [Workers -> Phases],
         NEW w \in Workers, NEW v \in Workers,
         (hand[v] # <<>>) <=> (phase[v] \in {"parse", "write"}),
         phase[v] # "begin" => wpc[v] = "run",
         phase' = [phase EXCEPT ![w] = "begin"], hand' = [hand EXCEPT ![w] = <<>>],
         \A u \in Workers \ {w} : wpc'[u] = wpc[u]
  PROVE  /\ (hand'[v] # <<>>) <=> (phase'[v] \in {"parse", "write"})
         /\ phase'[v] # "begin" => wpc'[v] = "run"
<1>1. CASE v = w
  BY <1>1
<1>2. CASE v # w
  <2>1. hand'[v] = hand[v] /\ phase'[v] = phase[v] /\ wpc'[v] = wpc[v]
    BY <1>2
  <2> QED  BY <2>1
<1> QED  BY <1>1, <1>2

(* The type invariant of the composition is kept.                          *)
LEMMA ServerTypeStep ==
  ASSUME ServerInv, PoolInv', [Next]_vars
  PROVE  ServerTypeOK'
<1>0. PoolInv /\ ServerTypeOK /\ MainOK /\ ListsOK /\ OwnersOK
  BY DEF ServerInv
<1>1. CASE Quiet
  <2>1. /\ UNCHANGED <<resAll, taskVars, accepted, history>> /\ undefined' \in {undefined, TRUE}
        /\ \A w \in Workers : wpc[w] = "run" => wpc'[w] = "run"
    BY <1>1 DEF Quiet, SameTasks
  <2>2. UNCHANGED <<at, m_nWorkStatus, m_queueILoop, m_listConnectClient, deleted,
                    IChStatus, m_buffer, m_Inputevbuffer, bev, ctx, wire, out, sent,
                    got, arg, phase, hand, accepted, doubled, interrupted>>
    BY <2>1 DEF resAll, taskVars, history, resVars, channelVars, clientVars
  <2>3. ASSUME NEW w \in Workers
        PROVE  /\ (hand'[w] # <<>>) <=> (phase'[w] \in {"parse", "write"})
               /\ phase'[w] # "begin" => wpc'[w] = "run"
    BY <1>0, <2>1, <2>2 DEF ServerTypeOK
  <2>4. undefined' \in BOOLEAN
    BY <1>0, <2>1 DEF ServerTypeOK
  <2> QED  BY <1>0, <2>2, <2>3, <2>4 DEF ServerTypeOK
<1>2. CASE Adopted
  BY <1>2, AdoptedTypes
<1> USE DEF resVars, channelVars, clientVars, resAll, taskVars, history
<1>3. CASE NothingToHandle \/ AddTaskReturns
  <2>1. AboutToHandle /\ at' = Onward /\ SameTasks
        /\ arg' \in Seq(R!Channels) /\ Len(arg') = accepted'
        /\ UNCHANGED <<m_nWorkStatus, resVars, channelVars, clientVars,
                       phase, hand, undefined, history>>
    BY <1>3, HandledDoes
  <2>2. at' \in [op  : {"loop", "writev", "alloc", "login", "frame", "removed",
                        "cleared", "freed", "logout", "close", "closed"},
                 arg : Nat, who : Clients \cup {NoClient}]
    BY <1>0, <2>1, HandledTyped DEF ServerTypeOK
  <2> QED  BY <1>0, <2>1, <2>2 DEF ServerTypeOK, SameTasks
<1>5. CASE Clear /\ ~undefined'
  <2> DEFINE k == m_buffer[at.arg]
  <2>1. /\ k \in Clients /\ bev[k] = "open" /\ <<>> \in Seq(R!Bytes)
        /\ IChStatus' = [IChStatus EXCEPT ![at.arg] = "CLIENT_LOGOUT"]
        /\ bev' = [bev EXCEPT ![k] = "freed"]
        /\ out' = [out EXCEPT ![k] = <<>>]
        /\ wire' = [wire EXCEPT ![k] = <<>>]
        /\ at' = [at EXCEPT !.op = "freed"]
        /\ UNCHANGED <<m_nWorkStatus, resVars, m_buffer, m_Inputevbuffer, ctx,
                       sent, got, wpc, accepted, taskVars, undefined, history>>
    BY <1>5, ClearDoes DEF poolAll
  <2> HIDE DEF k
  <2> QED  BY <1>0, <2>1 DEF ServerTypeOK
<1>6. CASE CloseChannel /\ ~undefined'
  <2> DEFINE c == Head(m_queueILoop)
             k == m_buffer[c]
             q == Tail(m_queueILoop)
  <2>1. /\ k \in Clients \cup {NoClient} /\ m_queueILoop # <<>>
        /\ m_queueILoop' = q
        /\ IChStatus' = [IChStatus EXCEPT ![c] = "CLIENT_LOGOUT"]
        /\ m_buffer' = [m_buffer EXCEPT ![c] = NoClient]
        /\ bev' = IF k = NoClient THEN bev ELSE [bev EXCEPT ![k] = "freed"]
        /\ at' = [at EXCEPT !.op = "close"]
        /\ UNCHANGED <<m_nWorkStatus, m_listConnectClient, m_Inputevbuffer, ctx,
                       wire, out, sent, got, wpc, accepted, taskVars, undefined, history>>
    BY <1>6, CloseDoes DEF poolAll
  <2>2. q \in Seq(R!Channels)
    BY <1>0, <2>1, Popped DEF ServerTypeOK
  <2> HIDE DEF c, k, q
  <2> QED  BY <1>0, <2>1, <2>2 DEF ServerTypeOK
<1>7. CASE Exit
  BY <1>0, <1>7 DEF Exit, KeepTasks, poolAll, ServerTypeOK
<1>8. CASE SIG_HANDLE
  <2>1. m_queueILoop' \in Seq(R!Channels)
    BY <1>0, <1>8, Joined DEF SIG_HANDLE, ServerTypeOK
  <2>2. /\ m_nWorkStatus' = "SYINX_LINK_CLOSE"
        /\ at' = [R!AtLoop EXCEPT !.op = "close"]
        /\ interrupted' \in BOOLEAN
        /\ UNCHANGED <<m_listConnectClient, channelVars, clientVars, wpc, accepted,
                       taskVars, undefined, doubled>>
    BY <1>8 DEF SIG_HANDLE
  <2> QED  BY <1>0, <2>1, <2>2 DEF ServerTypeOK, R!AtLoop, R!Place
<1>9. ASSUME NEW w \in Workers, TaskStep(w), ~undefined'
      PROVE  ServerTypeOK'
  <2>0. ASSUME P!WorkerRun(w)
        PROVE  /\ \A v \in Workers \ {w} : wpc'[v] = wpc[v]
               /\ UNCHANGED accepted
    BY <1>0, <2>0 DEF P!WorkerRun, PoolInv, PP!TypeOK
  <2>1. CASE TaskBegins(w)
    <3>1. /\ InTask(w, "begin") /\ phase' = [phase EXCEPT ![w] = "remove"]
          /\ UNCHANGED <<resAll, accepted, wpc, arg, hand, undefined, history>>
      BY <1>9, <2>1 DEF TaskBegins, Race, poolAll
    <3> QED  BY <1>0, <3>1 DEF ServerTypeOK, InTask, Phases
  <2>2. CASE TaskRemoves(w)
    <3> DEFINE c == Chan(w)
               t == R!Taken(c)
               r == R!Rest(c)
    <3>1. wpc[w] = "run" /\ phase[w] = "remove" /\ c \in R!Channels
      BY <1>0, <2>2, ChanTyped DEF TaskRemoves, InTask
    <3>2. t \in Seq(R!Bytes) /\ r \in Seq(R!Bytes)
      BY <1>0, <3>1, TakenTyped DEF ServerTypeOK
    <3>3. /\ hand' = [hand EXCEPT ![w] = t]
          /\ m_Inputevbuffer' = [m_Inputevbuffer EXCEPT ![c] = r]
          /\ \/ /\ t = <<>> /\ phase' = [phase EXCEPT ![w] = "begin"]
                /\ P!WorkerRun(w) /\ UNCHANGED doubled
             \/ /\ t # <<>> /\ phase' = [phase EXCEPT ![w] = "parse"]
                /\ doubled' \in BOOLEAN /\ UNCHANGED <<wpc, accepted>>
          /\ UNCHANGED <<m_nWorkStatus, at, resVars, IChStatus, m_buffer,
                         clientVars, arg, undefined, interrupted>>
      BY <1>0, <2>2 DEF TaskRemoves, poolAll, ServerTypeOK
    <3> HIDE DEF c, t, r
    <3>4. UNCHANGED accepted /\ doubled' \in BOOLEAN
      BY <1>0, <2>0, <3>3 DEF ServerTypeOK
    <3>5. m_Inputevbuffer' \in [R!Channels -> Seq(R!Bytes)] /\ hand' \in [Workers -> Seq(R!Bytes)]
          /\ phase' \in [Workers -> Phases]
      BY <1>0, <3>1, <3>2, <3>3 DEF ServerTypeOK, Phases
    <3>6. ASSUME NEW v \in Workers
          PROVE  /\ (hand'[v] # <<>>) <=> (phase'[v] \in {"parse", "write"})
                 /\ phase'[v] # "begin" => wpc'[v] = "run"
      <4>0. /\ hand \in [Workers -> Seq(R!Bytes)] /\ phase \in [Workers -> Phases]
            /\ (hand[v] # <<>>) <=> (phase[v] \in {"parse", "write"})
            /\ phase[v] # "begin" => wpc[v] = "run"
        BY <1>0, <3>6 DEF ServerTypeOK
      <4>1. CASE v # w
        <5>1. hand'[v] = hand[v] /\ phase'[v] = phase[v]
          BY <3>3, <4>0, <4>1
        <5>2. wpc'[v] = wpc[v]
          BY <2>0, <3>3, <3>6, <4>1
        <5> QED  BY <4>0, <5>1, <5>2
      <4>2. CASE v = w
        <5>1. /\ hand'[w] = t
              /\ \/ t = <<>> /\ phase'[w] = "begin"
                 \/ t # <<>> /\ phase'[w] = "parse" /\ wpc' = wpc
          BY <3>3, <4>0
        <5> QED  BY <3>1, <4>2, <5>1
      <4> QED  BY <4>1, <4>2
    <3> QED  BY <1>0, <3>3, <3>4, <3>5, <3>6 DEF ServerTypeOK
  <2>3. CASE TaskSends(w)
    <3>1. \/ /\ phase' = [phase EXCEPT ![w] = "write"]
             /\ UNCHANGED <<resAll, accepted, wpc, arg, hand, undefined, history>>
          \/ TaskReturns(w) /\ UNCHANGED <<resAll, arg, undefined, history>>
      BY <1>9, <2>3 DEF TaskSends, Race, poolAll
    <3>2. wpc[w] = "run" /\ phase[w] = "parse" /\ <<>> \in Seq(R!Bytes)
      BY <2>3 DEF TaskSends, InTask
    <3>3. CASE /\ phase' = [phase EXCEPT ![w] = "write"]
               /\ UNCHANGED <<resAll, accepted, wpc, arg, hand, undefined, history>>
      BY <1>0, <3>2, <3>3 DEF ServerTypeOK, Phases
    <3>4. CASE TaskReturns(w) /\ UNCHANGED <<resAll, arg, undefined, history>>
      <4>1. /\ phase' = [phase EXCEPT ![w] = "begin"] /\ hand' = [hand EXCEPT ![w] = <<>>]
            /\ \A v \in Workers \ {w} : wpc'[v] = wpc[v]
            /\ UNCHANGED <<resAll, accepted, arg, undefined, history>>
        BY <2>0, <3>4 DEF TaskReturns
      <4>2. ASSUME NEW v \in Workers
            PROVE  /\ (hand'[v] # <<>>) <=> (phase'[v] \in {"parse", "write"})
                   /\ phase'[v] # "begin" => wpc'[v] = "run"
        BY <1>0, <4>1, BackToBegin DEF ServerTypeOK
      <4>3. phase' \in [Workers -> Phases] /\ hand' \in [Workers -> Seq(R!Bytes)]
        BY <1>0, <3>2, <4>1 DEF ServerTypeOK, Phases
      <4> QED  BY <1>0, <4>1, <4>2, <4>3 DEF ServerTypeOK
    <3> QED  BY <3>1, <3>3, <3>4
  <2>4. CASE TaskWrites(w)
    <3> DEFINE k == m_buffer[Chan(w)]
               b == out[k] \o hand[w]
    <3>1. /\ wpc[w] = "run" /\ phase[w] = "write"
          /\ Chan(w) \in R!Channels /\ <<>> \in Seq(R!Bytes)
      BY <1>0, <2>4, ChanTyped DEF TaskWrites, InTask
    <3>2. k \in Clients
      BY <1>0, <3>1 DEF OwnersOK
    <3>3. b \in Seq(R!Bytes)
      BY <1>0, <3>2, Joined DEF ServerTypeOK
    <3>4. /\ out' = [out EXCEPT ![k] = b] /\ TaskReturns(w)
          /\ UNCHANGED <<m_nWorkStatus, at, resVars, channelVars, bev, ctx, wire, sent,
                         got, arg, undefined, history>>
      BY <1>9, <2>4 DEF TaskWrites, Race
    <3>5. /\ phase' = [phase EXCEPT ![w] = "begin"] /\ hand' = [hand EXCEPT ![w] = <<>>]
          /\ \A v \in Workers \ {w} : wpc'[v] = wpc[v]
          /\ UNCHANGED accepted
      BY <2>0, <3>4 DEF TaskReturns
    <3> HIDE DEF b, k
    <3>6. ASSUME NEW v \in Workers
          PROVE  /\ (hand'[v] # <<>>) <=> (phase'[v] \in {"parse", "write"})
                 /\ phase'[v] # "begin" => wpc'[v] = "run"
      BY <1>0, <3>5, BackToBegin DEF ServerTypeOK
    <3>7. phase' \in [Workers -> Phases] /\ hand' \in [Workers -> Seq(R!Bytes)]
      BY <1>0, <3>1, <3>5 DEF ServerTypeOK, Phases
    <3>8. out' \in [Clients -> Seq(R!Bytes)]
      BY <1>0, <3>3, <3>4 DEF ServerTypeOK
    <3>9. UNCHANGED <<m_nWorkStatus, at, resVars, channelVars, bev, ctx, wire, sent,
                      got, arg, undefined, history, accepted>>
      BY <3>4, <3>5
    <3> QED  BY <1>0, <3>6, <3>7, <3>8, <3>9 DEF ServerTypeOK
  <2> QED  BY <1>9, <2>1, <2>2, <2>3, <2>4 DEF TaskStep
<1> QED
  BY <1>0, <1>1, <1>2, <1>3, <1>5, <1>6, <1>7, <1>8, <1>9, StepKinds DEF MainMoves

-----------------------------------------------------------------------------
(* The steps and the channels.                                             *)

Control == MainOK /\ ListsOK /\ OwnersOK

(* A step that leaves the channels and their users alone.                  *)
LEMMA ControlKept ==
  ASSUME ServerInv,
         UNCHANGED <<m_nWorkStatus, at, m_queueILoop, m_listConnectClient, IChStatus,
                     m_buffer, ctx>>,
         \A k \in Clients : \/ bev'[k] = bev[k]
                            \/ bev[k] = "none" /\ bev'[k] = "refused",
         ppc'[Main] \in {"addlock", "add"}
           => ppc[Main] \in {"addlock", "add"} \/ AboutToHandle,
         ppc'[Main] \in ClosePC => ppc[Main] \in ClosePC \/ at.op = "close",
         \A w \in Workers : phase'[w] = "write" =>
           \/ phase[w] = "write" /\ Chan(w)' = Chan(w)
           \/ IChStatus[Chan(w)] = "CLIENT_LOGIN" /\ Chan(w)' = Chan(w)
  PROVE  Control'
<1>0. ServerTypeOK /\ MainOK /\ ListsOK /\ OwnersOK
  BY DEF ServerInv
<1>1. \A k \in Clients : bev'[k] = "open" <=> bev[k] = "open"
  OBVIOUS
<1>2. MainOK'
  <2>1. AboutToHandle' = AboutToHandle /\ InHandler' = InHandler /\ Working' = Working
    BY DEF AboutToHandle, InHandler, Working
  <2> QED  BY <1>0, <1>1, <2>1 DEF MainOK
<1>3. ListsOK'
  BY <1>0, <1>1 DEF ListsOK, InHandler, Working
<1>4. OwnersOK'
  <2>1. \A w \in Workers : phase'[w] = "write" => IChStatus'[Chan(w)'] = "CLIENT_LOGIN"
    BY <1>0 DEF OwnersOK
  <2> QED  BY <1>0, <1>1, <2>1 DEF OwnersOK, ServerTypeOK
<1> QED  BY <1>2, <1>3, <1>4 DEF Control

LEMMA AdoptedControl ==
  ASSUME ServerInv, ServerTypeOK', Adopted
  PROVE  Control'
<1>0. ServerTypeOK /\ MainOK /\ ListsOK /\ OwnersOK
  BY DEF ServerInv
<1>1. UNCHANGED <<wpc, PthTask, arg, phase, hand, ppc>>
  BY DEF Adopted, KeepTasks, poolAll, taskVars
<1>2. \A w \in Workers : Chan(w)' = Chan(w)
  BY <1>1 DEF Chan
<1>3. m_queueILoop \in Seq(R!Channels) /\ m_listConnectClient \in Seq(R!Channels)
  BY <1>0 DEF ServerTypeOK
<1> DEFINE Queue == R!Elements(m_queueILoop)
           List == R!Elements(m_listConnectClient)
<1>4. /\ \A i \in 1 .. Len(m_listConnectClient) : m_listConnectClient[i] \in R!Channels
      /\ \A i \in 1 .. Len(m_queueILoop) : m_queueILoop[i] \in R!Channels
      /\ Queue \subseteq R!Channels /\ List \subseteq R!Channels
  BY <1>3 DEF R!Elements
<1> USE DEF R!resVars, R!channelVars, R!clientVars
<1>5. ASSUME NEW k \in Clients,
             R!Refuse(k) \/ R!SyinxKernel_Recv_Cb(k) \/ R!Send(k) \/ R!Leave(k)
      PROVE  Control'
  <2>1. UNCHANGED <<m_nWorkStatus, at, m_queueILoop, m_listConnectClient, IChStatus,
                    m_buffer, ctx>>
    BY <1>5 DEF R!Refuse, R!SyinxKernel_Recv_Cb, R!Send, R!Leave
  <2>2. \A j \in Clients : \/ bev'[j] = bev[j]
                           \/ bev[j] = "none" /\ bev'[j] = "refused"
    <3>1. CASE R!Refuse(k)
      <4>1. bev' = [bev EXCEPT ![k] = "refused"] /\ bev[k] = "none"
        BY <3>1 DEF R!Refuse
      <4>2. bev \in [Clients -> {"none", "open", "refused", "freed"}]
        BY <1>0 DEF ServerTypeOK
      <4> QED  BY <4>1, <4>2
    <3>2. CASE R!SyinxKernel_Recv_Cb(k) \/ R!Send(k) \/ R!Leave(k)
      <4>1. bev' = bev
        BY <3>2 DEF R!SyinxKernel_Recv_Cb, R!Send, R!Leave
      <4> QED  BY <4>1
    <3> QED  BY <1>5, <3>1, <3>2
  <2> QED  BY <1>1, <1>2, <2>1, <2>2, ControlKept
<1>11. ASSUME NEW k \in Clients, R!Writev(k) \/ R!Flush(k)
       PROVE  Control'
  <2>1. /\ Working /\ at.op \in {"loop", "writev"} /\ at'.op \in {"loop", "writev"}
        /\ at'.op = "writev" => at'.who \in Clients /\ bev[at'.who] = "open"
        /\ UNCHANGED <<m_nWorkStatus, m_queueILoop, m_listConnectClient, IChStatus,
                       m_buffer, bev, ctx>>
    <3>1. CASE R!Writev(k)
      <4>1. at = R!AtLoop /\ at' = R!Place("writev", 0, k) /\ Working /\ bev[k] = "open"
        BY <3>1 DEF R!Writev, R!Looping, Working
      <4>2. at.op = "loop" /\ at'.op = "writev" /\ at'.who = k
        BY <4>1 DEF R!AtLoop, R!Place
      <4> QED  BY <3>1, <4>1, <4>2 DEF R!Writev
    <3>2. CASE R!Flush(k)
      <4>1. at.op = "writev" /\ at' = R!AtLoop /\ Working
        BY <3>2 DEF R!Flush, R!Running, Working
      <4>2. at'.op = "loop"
        BY <4>1 DEF R!AtLoop, R!Place
      <4> QED  BY <3>2, <4>1, <4>2 DEF R!Flush
    <3> QED  BY <1>11, <3>1, <3>2
  <2>2. MainOK'
    BY <1>0, <1>1, <2>1 DEF MainOK, AboutToHandle, InHandler, Working
  <2>3. ListsOK'
    BY <1>0, <2>1 DEF ListsOK, InHandler, Working
  <2>4. OwnersOK'
    BY <1>0, <1>1, <1>2, <2>1 DEF OwnersOK
  <2> QED  BY <2>2, <2>3, <2>4 DEF Control
<1>6. ASSUME NEW k \in Clients, R!AllocationIChannel(k)
      PROVE  Control'
  <2> DEFINE c == Head(m_queueILoop)
             q == Tail(m_queueILoop)
  <2>1. /\ at = R!AtLoop /\ Working /\ bev[k] = "none" /\ m_queueILoop # <<>>
        /\ m_queueILoop' = q
        /\ at' = R!Place("alloc", c, k)
        /\ bev' = [bev EXCEPT ![k] = "open"] /\ ctx' = [ctx EXCEPT ![k] = c]
        /\ UNCHANGED <<m_nWorkStatus, m_listConnectClient, IChStatus, m_buffer>>
    BY <1>6 DEF R!AllocationIChannel, R!Looping, Working
  <2>2. /\ c \in R!Channels /\ c \in Queue
        /\ R!NoRepeats(q) /\ R!Elements(q) = Queue \ {c}
    BY <1>0, <1>3, <2>1, Popped DEF ListsOK
  <2> HIDE DEF c, q
  <2>3. at.op = "loop" /\ at'.op = "alloc" /\ at'.arg = c /\ at'.who = k
    BY <2>1 DEF R!AtLoop, R!Place
  <2>4. /\ bev'[k] = "open" /\ ctx'[k] = c
        /\ \A j \in Clients \ {k} : bev'[j] = bev[j] /\ ctx'[j] = ctx[j]
    BY <1>0, <2>1 DEF ServerTypeOK
  <2>5. \A j \in Clients : bev[j] = "open" => ctx[j] # c
    BY <1>0, <2>1, <2>2, <2>3 DEF ListsOK
  <2>6. MainOK'
    BY <1>0, <1>1, <2>1, <2>2, <2>3, <2>4 DEF MainOK, AboutToHandle, InHandler, Working
  <2>7. ListsOK'
    BY <1>0, <2>1, <2>2, <2>3, <2>4 DEF ListsOK, InHandler, Working
  <2>8. OwnersOK'
    <3>1. ASSUME NEW d \in R!Channels, IChStatus[d] = "CLIENT_LOGIN"
          PROVE  m_buffer[d] \in Clients \ {k} /\ ctx[m_buffer[d]] = d
                 /\ bev[m_buffer[d]] = "open"
      BY <1>0, <2>1, <3>1 DEF OwnersOK
    <3> QED  BY <1>0, <1>1, <1>2, <2>1, <2>2, <2>4, <2>5, <3>1 DEF OwnersOK
  <2> QED  BY <2>6, <2>7, <2>8 DEF Control
<1>7. ASSUME NEW k \in Clients, R!SyinxKernel_Event_Cb(k)
      PROVE  Control'
  <2> DEFINE c == ctx[k]
             q == R!Without(m_listConnectClient, c)
  <2>1. /\ at = R!AtLoop \/ at.op = "writev"
        /\ Working /\ bev[k] = "open"
        /\ m_listConnectClient' = q
        /\ at' = R!Place("removed", c, NoClient)
        /\ UNCHANGED <<m_nWorkStatus, m_queueILoop, IChStatus, m_buffer, bev, ctx>>
    BY <1>7 DEF R!SyinxKernel_Event_Cb, R!FindsGone, R!Looping, R!Running, Working
  <2>2. at.op \in {"loop", "writev"} /\ at'.op = "removed" /\ at'.arg = c
    BY <2>1 DEF R!AtLoop, R!Place
  <2>3. c \in List /\ c \in R!Channels
    BY <1>0, <1>4, <2>1, <2>2 DEF ListsOK
  <2>4. R!NoRepeats(q) /\ R!Elements(q) = List \ {c}
    BY <1>0, <1>3, <2>1, <2>3, Removed DEF ListsOK
  <2> HIDE DEF q
  <2>5. MainOK'
    BY <1>0, <1>1, <2>1, <2>2, <2>3 DEF MainOK, ListsOK, AboutToHandle, InHandler, Working
  <2>6. ListsOK'
    BY <1>0, <2>1, <2>2, <2>3, <2>4 DEF ListsOK, InHandler, Working
  <2>7. OwnersOK'
    BY <1>0, <1>1, <1>2, <2>1 DEF OwnersOK
  <2> QED  BY <2>5, <2>6, <2>7 DEF Control
<1>8. CASE R!GameServerDoAction
  <2>1. /\ at = R!AtLoop /\ m_listConnectClient # <<>> /\ Working
        /\ at' = R!Place("frame", 1, NoClient)
        /\ UNCHANGED <<m_nWorkStatus, m_queueILoop, m_listConnectClient, IChStatus,
                       m_buffer, bev, ctx>>
    BY <1>8 DEF R!GameServerDoAction, R!Looping, Working
  <2>2. at.op = "loop" /\ at'.op = "frame" /\ at'.arg = 1
    BY <2>1 DEF R!AtLoop, R!Place
  <2>3. 1 \in 1 .. Len(m_listConnectClient)
    BY <1>3, <2>1
  <2>4. MainOK'
    BY <1>0, <1>1, <2>1, <2>2, <2>3 DEF MainOK, AboutToHandle, InHandler, Working
  <2>5. ListsOK'
    BY <1>0, <2>1, <2>2 DEF ListsOK, InHandler, Working
  <2>6. OwnersOK'
    BY <1>0, <1>1, <1>2, <2>1 DEF OwnersOK
  <2> QED  BY <2>4, <2>5, <2>6 DEF Control
<1>9. CASE R!OnClientConnect
  <2> DEFINE c == at.arg
  <2>1. /\ at.op = "alloc" /\ Working
        /\ m_buffer' = [m_buffer EXCEPT ![c] = at.who]
        /\ IChStatus' = [IChStatus EXCEPT ![c] = "CLIENT_LOGIN"]
        /\ at' = [at EXCEPT !.op = "login"]
        /\ UNCHANGED <<m_nWorkStatus, m_queueILoop, m_listConnectClient, bev, ctx>>
    BY <1>9 DEF R!OnClientConnect, R!Running, Working
  <2>2. /\ c \in R!Channels /\ c \notin List /\ c \notin Queue
        /\ at.who \in Clients /\ bev[at.who] = "open" /\ ctx[at.who] = c
    BY <1>0, <2>1 DEF MainOK, ListsOK, InHandler
  <2>4. at'.op = "login" /\ at'.arg = c
    BY <1>0, <2>1 DEF ServerTypeOK
  <2>5. /\ m_buffer'[c] = at.who /\ IChStatus'[c] = "CLIENT_LOGIN"
        /\ \A d \in R!Channels \ {c} : m_buffer'[d] = m_buffer[d]
                                       /\ IChStatus'[d] = IChStatus[d]
    BY <1>0, <2>1, <2>2 DEF ServerTypeOK
  <2> HIDE DEF c
  <2>6. MainOK'
    BY <1>0, <1>1, <2>1, <2>2, <2>4, <2>5 DEF MainOK, AboutToHandle, InHandler, Working
  <2>7. ListsOK'
    <3>1. at.op = "alloc" /\ at.arg = c
      BY <2>1 DEF c
    <3> QED  BY <1>0, <1>4, <2>1, <2>2, <2>4, <2>5, <3>1 DEF ListsOK, InHandler, Working
  <2>8. OwnersOK'
    <3>1. \A d \in Queue : IChStatus'[d] = "CLIENT_LOGIN" \/ m_buffer'[d] = NoClient
      BY <1>0, <1>4, <2>2, <2>5 DEF OwnersOK
    <3>2. \A w \in Workers : phase'[w] = "write" => IChStatus'[Chan(w)'] = "CLIENT_LOGIN"
      <4>1. ASSUME NEW w \in Workers, phase[w] = "write"
            PROVE  Chan(w) \in R!Channels /\ IChStatus[Chan(w)] = "CLIENT_LOGIN"
        BY <1>0, <4>1, ChanTyped DEF ServerInv, OwnersOK, ServerTypeOK
      <4> QED  BY <1>1, <1>2, <2>5, <4>1
    <3> QED  BY <1>0, <2>1, <2>2, <2>5, <3>1, <3>2 DEF OwnersOK
  <2> QED  BY <2>6, <2>7, <2>8 DEF Control
<1>12. CASE R!SocketFdAdd
  <2> DEFINE c == at.arg
             q == Append(m_listConnectClient, c)
  <2>1. /\ at.op = "login" /\ Working
        /\ m_listConnectClient' = q
        /\ at' = R!AtLoop
        /\ UNCHANGED <<m_nWorkStatus, m_queueILoop, IChStatus, m_buffer, bev, ctx>>
    BY <1>12 DEF R!SocketFdAdd, R!Running, Working
  <2>2. /\ c \in R!Channels /\ c \notin List /\ c \notin Queue
        /\ IChStatus[c] = "CLIENT_LOGIN"
    BY <1>0, <2>1 DEF MainOK, ListsOK, InHandler
  <2>3. R!NoRepeats(q) /\ R!Elements(q) = List \cup {c}
    BY <1>0, <1>3, <2>1, <2>2, Pushed DEF ListsOK
  <2> HIDE DEF q
  <2>4. at'.op = "loop"
    BY <2>1 DEF R!AtLoop, R!Place
  <2>6. MainOK'
    BY <1>0, <1>1, <2>1, <2>4 DEF MainOK, AboutToHandle, InHandler, Working
  <2>7. ListsOK'
    BY <1>0, <1>4, <2>1, <2>2, <2>3, <2>4 DEF ListsOK, InHandler, Working
  <2>8. OwnersOK'
    BY <1>0, <1>1, <1>2, <2>1 DEF OwnersOK
  <2> QED  BY <2>6, <2>7, <2>8 DEF Control
<1>13. CASE R!Logout
  <2> DEFINE c == at.arg
  <2>1. /\ at.op = "freed" /\ Working
        /\ m_buffer' = [m_buffer EXCEPT ![c] = NoClient]
        /\ at' = [at EXCEPT !.op = "logout"]
        /\ UNCHANGED <<m_nWorkStatus, m_queueILoop, m_listConnectClient, IChStatus,
                       bev, ctx>>
    BY <1>13 DEF R!Logout, R!Running, Working
  <2>2. /\ c \in R!Channels /\ c \notin List /\ c \notin Queue
        /\ IChStatus[c] = "CLIENT_LOGOUT"
    BY <1>0, <2>1 DEF MainOK, ListsOK, InHandler
  <2>4. at'.op = "logout" /\ at'.arg = c
    BY <1>0, <2>1 DEF ServerTypeOK
  <2>5. /\ m_buffer'[c] = NoClient
        /\ \A d \in R!Channels \ {c} : m_buffer'[d] = m_buffer[d]
    BY <1>0, <2>1, <2>2 DEF ServerTypeOK
  <2> HIDE DEF c
  <2>6. MainOK'
    BY <1>0, <1>1, <2>1, <2>2, <2>4, <2>5 DEF MainOK, AboutToHandle, InHandler, Working
  <2>7. ListsOK'
    BY <1>0, <2>1, <2>2, <2>4 DEF ListsOK, InHandler, Working
  <2>8. OwnersOK'
    <3>1. \A d \in Queue : IChStatus'[d] = "CLIENT_LOGIN" \/ m_buffer'[d] = NoClient
      BY <1>0, <1>4, <2>1, <2>5 DEF OwnersOK
    <3> QED  BY <1>0, <1>1, <1>2, <2>1, <2>2, <2>5, <3>1 DEF OwnersOK
  <2> QED  BY <2>6, <2>7, <2>8 DEF Control
<1>10. CASE R!SocketFdDel
  <2> DEFINE c == at.arg
             q == Append(m_queueILoop, c)
  <2>1. /\ at.op = "logout" /\ Working
        /\ m_queueILoop' = q
        /\ at' = R!AtLoop
        /\ UNCHANGED <<m_nWorkStatus, m_listConnectClient, IChStatus, m_buffer, bev,
                       ctx>>
    BY <1>10 DEF R!SocketFdDel, R!Running, Working
  <2>2. /\ c \in R!Channels /\ c \notin List /\ c \notin Queue
        /\ m_buffer[c] = NoClient
    BY <1>0, <2>1 DEF MainOK, ListsOK, InHandler
  <2>3. R!NoRepeats(q) /\ R!Elements(q) = Queue \cup {c}
    BY <1>0, <1>3, <2>1, <2>2, Pushed DEF ListsOK
  <2> HIDE DEF q
  <2>4. at'.op = "loop"
    BY <2>1 DEF R!AtLoop, R!Place
  <2>6. MainOK'
    BY <1>0, <1>1, <2>1, <2>4 DEF MainOK, AboutToHandle, InHandler, Working
  <2>7. ListsOK'
    BY <1>0, <2>1, <2>2, <2>3, <2>4 DEF ListsOK, InHandler, Working
  <2>8. OwnersOK'
    BY <1>0, <1>1, <1>2, <2>1, <2>2, <2>3 DEF OwnersOK
  <2> QED  BY <2>6, <2>7, <2>8 DEF Control
<1> QED
  BY <1>5, <1>6, <1>7, <1>8, <1>9, <1>10, <1>11, <1>12, <1>13 DEF Adopted

(* What a task does, other than a race.                                    *)
LEMMA TaskFacts ==
  ASSUME ServerInv, NEW w \in Workers, TaskStep(w), ~undefined, ~undefined'
  PROVE  /\ wpc[w] = "run" /\ Chan(w) \in R!Channels
         /\ UNCHANGED <<m_nWorkStatus, at, resVars, IChStatus, m_buffer, bev, ctx, wire,
                        got, sent, arg, interrupted, ppc>>
         /\ \A v \in Workers \ {w} :
              /\ phase'[v] = phase[v] /\ hand'[v] = hand[v]
              /\ wpc'[v] = wpc[v] /\ Chan(v)' = Chan(v)
         /\ phase'[w] # "begin" => Chan(w)' = Chan(w)
         /\ phase'[w] = "write" => IChStatus[Chan(w)] = "CLIENT_LOGIN"
<1>0. PoolInv /\ ServerTypeOK
  BY DEF ServerInv
<1>1. /\ phase \in [Workers -> Phases]
      /\ hand \in [Workers -> Seq(R!Bytes)]
  BY <1>0 DEF ServerTypeOK
<1>2. wpc[w] = "run" /\ Chan(w) \in R!Channels
  <2>1. wpc[w] = "run"
    BY DEF TaskStep, TaskBegins, TaskRemoves, TaskSends, TaskWrites, InTask
  <2> QED  BY <1>0, <2>1, ChanTyped
<1> USE DEF clientVars, channelVars, resAll, history
<1>3. ASSUME P!WorkerRun(w), UNCHANGED arg
      PROVE  /\ \A v \in Workers \ {w} : wpc'[v] = wpc[v] /\ Chan(v)' = Chan(v)
             /\ UNCHANGED ppc
  BY <1>0, <1>3, OthersGoOn
<1>4. ASSUME UNCHANGED <<poolAll, arg>>
      PROVE  /\ \A v \in Workers : wpc'[v] = wpc[v] /\ Chan(v)' = Chan(v)
             /\ UNCHANGED ppc
  BY <1>4 DEF poolAll, Chan
<1>5. CASE TaskBegins(w)
  <2>1. /\ phase' = [phase EXCEPT ![w] = "remove"]
        /\ UNCHANGED <<resAll, poolAll, arg, hand, undefined, history>>
    BY <1>5 DEF TaskBegins, Race
  <2> QED  BY <1>1, <1>2, <1>4, <2>1
<1>6. CASE TaskRemoves(w)
  <2>1. /\ hand' = [hand EXCEPT ![w] = R!Taken(Chan(w))]
        /\ UNCHANGED <<m_nWorkStatus, at, resVars, IChStatus, m_buffer,
                       clientVars, arg, interrupted>>
        /\ \/ phase' = [phase EXCEPT ![w] = "begin"] /\ P!WorkerRun(w)
           \/ phase' = [phase EXCEPT ![w] = "parse"] /\ UNCHANGED poolAll
    BY <1>6 DEF TaskRemoves
  <2>2. CASE phase' = [phase EXCEPT ![w] = "begin"] /\ P!WorkerRun(w)
    BY <1>1, <1>2, <1>3, <2>1, <2>2
  <2>3. CASE phase' = [phase EXCEPT ![w] = "parse"] /\ UNCHANGED poolAll
    BY <1>1, <1>2, <1>4, <2>1, <2>3
  <2> QED  BY <2>1, <2>2, <2>3
<1>7. CASE TaskSends(w)
  <2>1. CASE /\ IChStatus[Chan(w)] = "CLIENT_LOGIN"
             /\ phase' = [phase EXCEPT ![w] = "write"]
             /\ UNCHANGED <<resAll, poolAll, arg, hand, undefined, history>>
    BY <1>1, <1>2, <1>4, <2>1
  <2>2. CASE TaskReturns(w) /\ UNCHANGED <<resAll, arg, undefined, history>>
    BY <1>1, <1>2, <1>3, <2>2 DEF TaskReturns
  <2> QED  BY <1>7, <2>1, <2>2 DEF TaskSends, Race
<1>8. CASE TaskWrites(w)
  <2>1. TaskReturns(w)
        /\ UNCHANGED <<m_nWorkStatus, at, resVars, channelVars, bev, ctx, peer, wire,
                       sent, got, arg, undefined, history>>
    BY <1>8 DEF TaskWrites, Race
  <2> QED  BY <1>1, <1>2, <1>3, <2>1 DEF TaskReturns
<1> QED  BY <1>5, <1>6, <1>7, <1>8 DEF TaskStep

LEMMA MainControl ==
  ASSUME ServerInv, MainMoves, ~undefined'
  PROVE  Control'
<1>0. PoolInv /\ ServerTypeOK /\ MainOK /\ ListsOK /\ OwnersOK
  BY DEF ServerInv
<1>1. m_queueILoop \in Seq(R!Channels) /\ m_listConnectClient \in Seq(R!Channels)
      /\ ppc \in [{Main} -> {"init", "idle", "addlock", "add", "closelock", "close",
                             "free", "closed", "lost"}]
  BY <1>0 DEF ServerTypeOK, PoolInv, PP!TypeOK, PP!ProducerPC
<1> DEFINE Queue == R!Elements(m_queueILoop)
           List == R!Elements(m_listConnectClient)
<1>2. Queue \subseteq R!Channels /\ List \subseteq R!Channels
  BY <1>1 DEF R!Elements
<1>3. ASSUME NEW w \in Workers, phase[w] = "write"
      PROVE  Chan(w) \in R!Channels /\ IChStatus[Chan(w)] = "CLIENT_LOGIN" /\ wpc[w] = "run"
  BY <1>0, <1>3, ChanTyped DEF OwnersOK, ServerTypeOK
<1> USE DEF resVars, channelVars, clientVars, resAll, poolAll, taskVars, history
<1>4. CASE NothingToHandle \/ AddTaskReturns
  <2>1. /\ SameTasks /\ AboutToHandle /\ at' = Onward /\ ppc'[Main] = "idle"
        /\ UNCHANGED <<m_nWorkStatus, resVars, channelVars, clientVars, phase>>
    BY <1>4, HandledDoes
  <2>2. \A w \in Workers : phase[w] = "write" => Chan(w)' = Chan(w)
    BY <1>3, <2>1 DEF SameTasks
  <2>3. at.op = "close" => Onward = [at EXCEPT !.op = "closed"] /\ m_queueILoop # <<>>
    BY <1>0, <2>1, HandledTyped DEF AboutToHandle
  <2>4. at.op # "close" => /\ Onward.op \in {"loop", "frame", "cleared"}
                           /\ Onward.arg = at.arg \/ Onward.op \in {"loop", "frame"}
                           /\ Onward.op = "cleared" <=> at.op = "removed"
                           /\ Onward.op = "frame" => Onward.arg \in 1 .. Len(m_listConnectClient)
    BY <1>0, <2>1, HandledTyped
  <2>5. at.op \in {"frame", "removed", "close"}
    BY <2>1 DEF AboutToHandle
  <2>6. at \in [op  : {"loop", "writev", "alloc", "login", "frame", "removed",
                     "cleared", "freed", "logout", "close", "closed"},
              arg : Nat, who : Clients \cup {NoClient}]
    BY <1>0 DEF ServerTypeOK
  <2>7. MainOK'
    <3>1. CASE at.op = "close"
      <4>1. at'.op = "closed"
        BY <2>1, <2>3, <2>6, <3>1
      <4> QED  BY <1>0, <2>1, <2>3, <3>1, <4>1 DEF MainOK, AboutToHandle, InHandler, Working, ClosePC
    <3>2. CASE at.op # "close"
      BY <1>0, <2>1, <2>4, <2>5, <3>2 DEF MainOK, AboutToHandle, InHandler, Working, ClosePC
    <3> QED  BY <3>1, <3>2
  <2>8. ListsOK'
    <3>1. CASE at.op = "close"
      BY <1>0, <2>1, <3>1 DEF MainOK, ListsOK, Working
    <3>2. CASE at.op # "close"
      BY <1>0, <2>1, <2>4, <2>5, <3>2 DEF ListsOK, InHandler, Working
    <3> QED  BY <3>1, <3>2
  <2>9. OwnersOK'
    BY <1>0, <2>1, <2>2 DEF OwnersOK
  <2> QED  BY <2>7, <2>8, <2>9 DEF Control
<1>5. CASE Clear /\ ~undefined'
  <2> DEFINE c == at.arg
             k == m_buffer[c]
  <2>1. /\ at.op = "cleared" /\ Working /\ c \in R!Channels
        /\ k \in Clients /\ bev[k] = "open" /\ ctx[k] = c
        /\ \A w \in Workers : phase[w] = "write" => Chan(w) # c
        /\ IChStatus' = [IChStatus EXCEPT ![c] = "CLIENT_LOGOUT"]
        /\ bev' = [bev EXCEPT ![k] = "freed"]
        /\ at' = [at EXCEPT !.op = "freed"]
        /\ UNCHANGED <<m_nWorkStatus, m_queueILoop, m_listConnectClient, m_buffer, ctx,
                       PthTask, arg, phase, ppc>>
    BY <1>5, ClearDoes
  <2>2. at'.op = "freed" /\ at'.arg = c
    BY <1>0, <2>1 DEF ServerTypeOK
  <2>3. /\ IChStatus'[c] = "CLIENT_LOGOUT" /\ bev'[k] = "freed"
        /\ \A d \in R!Channels \ {c} : IChStatus'[d] = IChStatus[d]
        /\ \A j \in Clients \ {k} : bev'[j] = bev[j]
    BY <1>0, <2>1 DEF ServerTypeOK
  <2>4. c \notin Queue /\ c \notin List
    BY <1>0, <2>1 DEF ListsOK, InHandler
  <2>5. \A w \in Workers : Chan(w)' = Chan(w)
    BY <2>1 DEF Chan
  <2> HIDE DEF c, k
  <2>6. MainOK'
    <3>1. InHandler' /\ ~AboutToHandle /\ ~AboutToHandle'
      BY <2>1, <2>2 DEF InHandler, AboutToHandle
    <3> QED  BY <1>0, <2>1, <2>2, <2>3, <3>1 DEF MainOK, Working
  <2>7. ListsOK'
    <3>1. \A j \in Clients \ {k} : bev[j] = "open" => ctx[j] # c
      BY <1>0, <2>1 DEF OwnersOK
    <3> QED  BY <1>0, <1>2, <2>1, <2>2, <2>3, <2>4, <3>1 DEF ListsOK, InHandler, Working, c
  <2>8. OwnersOK'
    <3>1. \A d \in R!Channels \ {c} : IChStatus[d] = "CLIENT_LOGIN" => m_buffer[d] # k
      BY <1>0, <2>1 DEF OwnersOK
    <3>2. \A w \in Workers : phase'[w] = "write" => IChStatus'[Chan(w)'] = "CLIENT_LOGIN"
      BY <1>3, <2>1, <2>3, <2>5
    <3> QED  BY <1>0, <1>2, <2>1, <2>3, <2>4, <3>1, <3>2 DEF OwnersOK
  <2> QED  BY <2>6, <2>7, <2>8 DEF Control
<1>6. CASE CloseChannel /\ ~undefined'
  <2> DEFINE c == Head(m_queueILoop)
             k == m_buffer[c]
  <2>1. /\ at.op = "closed" /\ ~Working /\ c \in R!Channels
        /\ m_queueILoop # <<>> /\ c \in Queue
        /\ k \in Clients \cup {NoClient}
        /\ k # NoClient => bev[k] = "open" /\ ctx[k] = c
        /\ \A w \in Workers : phase[w] = "write" => Chan(w) # c
        /\ m_queueILoop' = Tail(m_queueILoop)
        /\ IChStatus' = [IChStatus EXCEPT ![c] = "CLIENT_LOGOUT"]
        /\ m_buffer' = [m_buffer EXCEPT ![c] = NoClient]
        /\ bev' = IF k = NoClient THEN bev ELSE [bev EXCEPT ![k] = "freed"]
        /\ at' = [at EXCEPT !.op = "close"]
        /\ UNCHANGED <<m_nWorkStatus, m_listConnectClient, ctx, PthTask, arg, phase, ppc>>
    BY <1>6, CloseDoes
  <2>2. at'.op = "close"
    BY <1>0, <2>1 DEF ServerTypeOK
  <2>3. /\ IChStatus'[c] = "CLIENT_LOGOUT" /\ m_buffer'[c] = NoClient
        /\ \A d \in R!Channels \ {c} : IChStatus'[d] = IChStatus[d]
                                       /\ m_buffer'[d] = m_buffer[d]
        /\ \A j \in Clients : bev'[j] = "open" => bev[j] = "open"
        /\ \A j \in Clients \ {k} : bev'[j] = bev[j]
    BY <1>0, <2>1 DEF ServerTypeOK
  <2>4. R!Elements(m_queueILoop') \subseteq Queue
    BY <1>1, <2>1, Popped
  <2>5. \A w \in Workers : Chan(w)' = Chan(w)
    BY <2>1 DEF Chan
  <2>6. ppc[Main] \in {"addlock", "add"} => FALSE
    BY <1>6 DEF CloseChannel, MainFree
  <2> HIDE DEF c, k
  <2>7. MainOK'
    BY <1>0, <2>1, <2>2, <2>6 DEF MainOK, Working, InHandler, ClosePC
  <2>8. ListsOK'
    BY <2>1 DEF ListsOK, Working
  <2>9. OwnersOK'
    <3>1. \A d \in R!Channels \ {c} : IChStatus[d] = "CLIENT_LOGIN" => m_buffer[d] # k
      BY <1>0, <2>1, ServerAssumption DEF OwnersOK
    <3>2. \A w \in Workers : phase'[w] = "write" => IChStatus'[Chan(w)'] = "CLIENT_LOGIN"
      BY <1>3, <2>1, <2>3, <2>5
    <3>3. \A d \in R!Elements(m_queueILoop') :
            IChStatus'[d] = "CLIENT_LOGIN" \/ m_buffer'[d] = NoClient
      BY <1>0, <1>2, <2>3, <2>4 DEF OwnersOK
    <3>4. \A d \in R!Channels : IChStatus'[d] = "CLIENT_LOGIN" =>
            /\ m_buffer'[d] \in Clients /\ ctx'[m_buffer'[d]] = d
            /\ bev'[m_buffer'[d]] = "open"
      BY <1>0, <2>1, <2>3, <3>1 DEF OwnersOK
    <3> QED  BY <1>0, <2>1, <2>3, <3>2, <3>3, <3>4 DEF OwnersOK
  <2> QED  BY <2>7, <2>8, <2>9 DEF Control
<1>7. CASE Exit
  <2>1. /\ ppc[Main] = "closed" /\ m_nWorkStatus' = "exit"
        /\ UNCHANGED <<at, m_queueILoop, m_listConnectClient, IChStatus, m_buffer, bev,
                       ctx, phase, PthTask, arg, ppc>>
    BY <1>7 DEF Exit, KeepTasks
  <2>2. ~Working
    BY <1>0, <2>1 DEF MainOK, ClosePC
  <2>3. MainOK'
    BY <1>0, <2>1, <2>2 DEF MainOK, AboutToHandle, InHandler, Working
  <2> QED  BY <1>0, <2>1, <2>3 DEF Control, ListsOK, OwnersOK, Working, Chan
<1>8. CASE SIG_HANDLE
  <2>1. /\ Working /\ m_nWorkStatus' = "SYINX_LINK_CLOSE"
        /\ m_queueILoop' = m_queueILoop \o m_listConnectClient
        /\ at' = [R!AtLoop EXCEPT !.op = "close"]
        /\ ppc'[Main] = "idle"
        /\ UNCHANGED <<IChStatus, m_buffer, bev, ctx, phase, PthTask, arg>>
    BY <1>1, <1>8 DEF SIG_HANDLE, Working
  <2>2. at'.op = "close" /\ ~Working'
    BY <2>1 DEF R!AtLoop, R!Place, Working
  <2>3. R!Elements(m_queueILoop') = Queue \cup List
    BY <1>1, <2>1, Joined
  <2>4. MainOK'
    BY <2>1, <2>2 DEF MainOK, InHandler, ClosePC
  <2>5. ListsOK'
    BY <2>2 DEF ListsOK
  <2>6. OwnersOK'
    BY <1>0, <2>1, <2>3 DEF OwnersOK, ListsOK, Chan
  <2> QED  BY <2>4, <2>5, <2>6 DEF Control
<1> QED  BY <1>4, <1>5, <1>6, <1>7, <1>8 DEF MainMoves

LEMMA ServerStep ==
  ASSUME ServerInv, [Next]_vars
  PROVE  ServerInv'
<1>1. PoolInv'
  BY StepPool DEF ServerInv
<1>2. ServerTypeOK'
  BY <1>1, ServerTypeStep
<1>3. Control'
  <2>1. CASE Quiet
    <3>1. \A w \in Workers : phase'[w] = "write" => phase[w] = "write" /\ Chan(w)' = Chan(w)
      BY <2>1 DEF Quiet, SameTasks, taskVars, ServerInv, ServerTypeOK
    <3> QED  BY <2>1, <3>1, ControlKept
             DEF Quiet, resAll, resVars, channelVars, clientVars
  <2>2. CASE Adopted
    BY <1>2, <2>2, AdoptedControl
  <2>3. CASE MainMoves /\ ~undefined'
    BY <2>3, MainControl
  <2>4. ASSUME NEW w \in Workers, TaskStep(w), ~undefined, ~undefined'
        PROVE  Control'
    <3>1. /\ UNCHANGED <<m_nWorkStatus, at, m_queueILoop, m_listConnectClient, IChStatus,
                         m_buffer, ctx, bev, ppc>>
          /\ \A v \in Workers \ {w} : phase'[v] = phase[v] /\ Chan(v)' = Chan(v)
          /\ phase'[w] # "begin" => Chan(w)' = Chan(w)
          /\ phase'[w] = "write" => IChStatus[Chan(w)] = "CLIENT_LOGIN"
      BY <2>4, TaskFacts DEF resVars
    <3> QED  BY <3>1, ControlKept
  <2> QED  BY <2>1, <2>2, <2>3, <2>4, StepKinds DEF ServerInv
<1> QED  BY <1>1, <1>2, <1>3 DEF ServerInv, Control

LEMMA InitServer == Init => ServerInv
<1> SUFFICES ASSUME Init  PROVE ServerInv
  OBVIOUS
<1>1. PoolInv
  BY InitPool
<1> DEFINE q == [i \in R!Channels |-> i]
<1>2. /\ q \in Seq(R!Channels) /\ Len(q) = ConnectNum
      /\ \A i \in 1 .. Len(q) : q[i] = i
      /\ <<>> \in Seq(R!Channels) /\ <<>> \in Seq(R!Bytes) /\ Len(<<>>) = 0
  BY ServerAssumption DEF R!Channels
<1>3. /\ m_nWorkStatus = "SYINX_LINK_WORK" /\ at = R!AtLoop
      /\ m_queueILoop = q /\ m_listConnectClient = <<>>
      /\ IChStatus = [c \in R!Channels |-> "CLIENT_LOGOUT"]
      /\ m_buffer = [c \in R!Channels |-> NoClient]
      /\ m_Inputevbuffer = [c \in R!Channels |-> <<>>]
      /\ bev = [k \in Clients |-> "none"] /\ ctx = [k \in Clients |-> 0]
      /\ wire = [k \in Clients |-> <<>>] /\ out = [k \in Clients |-> <<>>]
      /\ sent = [k \in Clients |-> 0] /\ got = [k \in Clients |-> <<>>]
      /\ arg = <<>> /\ accepted = 0 /\ ppc[Main] = "init"
      /\ phase = [w \in Workers |-> "begin"] /\ hand = [w \in Workers |-> <<>>]
      /\ undefined = FALSE /\ doubled = FALSE /\ interrupted = FALSE
  BY DEF Init, R!Init, P!Init
<1> HIDE DEF q
<1>4. at.op = "loop" /\ at.arg = 0 /\ at.who = NoClient
      /\ at = [op |-> "loop", arg |-> 0, who |-> NoClient]
  BY <1>3 DEF R!AtLoop, R!Place
<1>5. ServerTypeOK
  <2>1. /\ IChStatus \in [R!Channels -> {"CLIENT_LOGIN", "CLIENT_LOGOUT"}]
        /\ m_buffer \in [R!Channels -> Clients \cup {NoClient}]
        /\ m_Inputevbuffer \in [R!Channels -> Seq(R!Bytes)]
        /\ bev \in [Clients -> {"none", "open", "refused", "freed"}]
        /\ wire \in [Clients -> Seq(R!Bytes)] /\ out \in [Clients -> Seq(R!Bytes)]
        /\ got \in [Clients -> Seq(R!Bytes)]
        /\ hand \in [Workers -> Seq(R!Bytes)] /\ phase \in [Workers -> Phases]
    BY <1>2, <1>3 DEF Phases
  <2>2. ctx \in [Clients -> 0 .. ConnectNum] /\ sent \in [Clients -> 0 .. MaxSend]
    BY <1>3, ServerAssumption
  <2>3. at \in [op  : {"loop", "writev", "alloc", "login", "frame", "removed",
                     "cleared", "freed", "logout", "close", "closed"},
              arg : Nat, who : Clients \cup {NoClient}]
    BY <1>4
  <2> QED  BY <1>2, <1>3, <2>1, <2>2, <2>3 DEF ServerTypeOK
<1>6. MainOK
  BY <1>3, <1>4 DEF MainOK, Working, InHandler, ClosePC
<1>7. R!NoRepeats(q) /\ R!NoRepeats(<<>>) /\ R!Elements(<<>>) = {}
  BY <1>2 DEF R!NoRepeats, R!Elements
<1>8. ListsOK
  BY <1>3, <1>4, <1>7 DEF ListsOK, Working, InHandler
<1>9. OwnersOK
  <2>1. R!Elements(q) \subseteq R!Channels
    BY <1>2 DEF R!Elements
  <2> QED  BY <1>3, <2>1 DEF OwnersOK
<1> QED  BY <1>1, <1>5, <1>6, <1>8, <1>9 DEF ServerInv

(* The invariant of the server's control: for any number of channels,      *)
(* clients, workers and tasks, signals and races included.                 *)
THEOREM ServerInvariant == Spec => []ServerInv
<1>1. ServerInv /\ [Next]_vars => ServerInv'
  BY ServerStep
<1> QED  BY InitServer, <1>1, PTL DEF Spec

-----------------------------------------------------------------------------
(* Whose bytes are where.                                                  *)

(* Byte b is of the client of channel c, or of one that has left.          *)
OfUser(b, c) == \/ bev[b[1]] = "freed"
                \/ bev[b[1]] = "open" /\ ctx[b[1]] = c

BytesOK ==
  /\ \A k \in Clients : \A b \in R!Elements(wire[k]) : b[1] = k
  /\ \A c \in R!Channels : \A b \in R!Elements(m_Inputevbuffer[c]) : OfUser(b, c)
  /\ \A w \in Workers : \A b \in R!Elements(hand[w]) : OfUser(b, Chan(w))
  /\ \A k \in Clients : \A b \in R!Elements(got[k]) \cup R!Elements(out[k]) :
       b[1] = k \/ bev[b[1]] = "freed"

(* The ways of a byte in one step: sent; read from a wire into a buffer;   *)
(* from the buffer into a hand; from there to the client the channel has.  *)
BytesFlow ==
  /\ \A k \in Clients : \A b \in R!Elements(wire'[k]) :
       b \in R!Elements(wire[k]) \/ b[1] = k
  /\ \A c \in R!Channels : \A b \in R!Elements(m_Inputevbuffer'[c]) :
       \/ b \in R!Elements(m_Inputevbuffer[c])
       \/ \E k \in Clients : /\ bev[k] = "open" /\ ctx[k] = c /\ at.op = "loop"
                             /\ b \in R!Elements(wire[k])
  /\ \A w \in Workers : \A b \in R!Elements(hand'[w]) :
       /\ Chan(w)' = Chan(w)
       /\ \/ b \in R!Elements(hand[w])
          \/ Chan(w) \in R!Channels /\ b \in R!Elements(m_Inputevbuffer[Chan(w)])
  /\ \A k \in Clients : \A b \in R!Elements(got'[k]) \cup R!Elements(out'[k]) :
       \/ b \in R!Elements(got[k]) \cup R!Elements(out[k])
       \/ \E w \in Workers : /\ b \in R!Elements(hand[w])
                             /\ bev[k] = "open" /\ ctx[k] = Chan(w)
  /\ \A k \in Clients :
       /\ bev[k] = "freed" => bev'[k] = "freed"
       /\ bev[k] = "open" => \/ bev'[k] = "open" /\ ctx'[k] = ctx[k]
                             \/ bev'[k] = "freed"

(* All that is anywhere is bytes.                                          *)
LEMMA AllBytes ==
  ASSUME ServerTypeOK
  PROVE  /\ \A k \in Clients : /\ R!Elements(wire[k]) \subseteq R!Bytes
                               /\ R!Elements(got[k]) \subseteq R!Bytes
                               /\ R!Elements(out[k]) \subseteq R!Bytes
         /\ \A c \in R!Channels : R!Elements(m_Inputevbuffer[c]) \subseteq R!Bytes
         /\ \A w \in Workers : R!Elements(hand[w]) \subseteq R!Bytes
         /\ \A b \in R!Bytes : b[1] \in Clients
<1>1. ASSUME NEW s \in Seq(R!Bytes)  PROVE R!Elements(s) \subseteq R!Bytes
  BY DEF R!Elements
<1>2. \A b \in R!Bytes : b[1] \in Clients
  BY DEF R!Bytes
<1> QED  BY <1>1, <1>2 DEF ServerTypeOK

LEMMA FlowKeeps ==
  ASSUME ServerInv, BytesOK, BytesFlow
  PROVE  BytesOK'
<1>0. ServerTypeOK /\ OwnersOK
  BY DEF ServerInv
<1>1. ASSUME NEW b \in R!Bytes, NEW c, OfUser(b, c)
      PROVE  OfUser(b, c)'
  BY <1>0, <1>1, AllBytes DEF OfUser, BytesFlow
<1>2. ASSUME NEW k \in Clients, NEW b \in R!Elements(wire'[k])  PROVE b[1] = k
  BY DEF BytesOK, BytesFlow
<1>3. ASSUME NEW c \in R!Channels, NEW b \in R!Elements(m_Inputevbuffer'[c])
      PROVE  OfUser(b, c)'
  <2>1. b \in R!Bytes
    BY <1>0, AllBytes DEF BytesFlow
  <2>2. OfUser(b, c)
    BY DEF BytesOK, BytesFlow, OfUser
  <2> QED  BY <1>1, <2>1, <2>2
<1>4. ASSUME NEW w \in Workers, NEW b \in R!Elements(hand'[w])
      PROVE  OfUser(b, Chan(w))'
  <2>1. b \in R!Bytes /\ Chan(w)' = Chan(w)
    BY <1>0, AllBytes DEF BytesFlow
  <2>2. OfUser(b, Chan(w))
    BY DEF BytesOK, BytesFlow
  <2> DEFINE c == Chan(w)
  <2>3. c' = c
    BY <2>1
  <2>4. OfUser(b, c)
    BY <2>2
  <2> HIDE DEF c
  <2>5. \/ bev'[b[1]] = "freed"
        \/ bev'[b[1]] = "open" /\ ctx'[b[1]] = c
    BY <1>1, <2>1, <2>4 DEF OfUser
  <2>6. \/ bev'[b[1]] = "freed"
        \/ bev'[b[1]] = "open" /\ ctx'[b[1]] = Chan(w)'
    BY <2>3, <2>5 DEF c
  <2> QED  BY <2>6 DEF OfUser
<1>5. ASSUME NEW k \in Clients,
             NEW b \in R!Elements(got'[k]) \cup R!Elements(out'[k])
      PROVE  b[1] = k \/ bev'[b[1]] = "freed"
  <2>1. CASE b \in R!Elements(got[k]) \cup R!Elements(out[k])
    <3>1. b[1] \in Clients
      BY <1>0, <2>1, AllBytes
    <3> QED  BY <2>1, <3>1 DEF BytesOK, BytesFlow
  <2>2. ASSUME NEW w \in Workers, b \in R!Elements(hand[w]), bev[k] = "open",
               ctx[k] = Chan(w)
        PROVE  b[1] = k \/ bev'[b[1]] = "freed"
    <3>1. b[1] \in Clients
      BY <1>0, <2>2, AllBytes
    <3>2. OfUser(b, Chan(w))
      BY <2>2 DEF BytesOK
    <3>3. b[1] = k \/ bev[b[1]] = "freed"
      BY <1>0, <2>2, <3>1, <3>2 DEF OfUser, OwnersOK
    <3> QED  BY <3>1, <3>3 DEF BytesFlow
  <2> QED  BY <2>1, <2>2 DEF BytesFlow
<1> QED  BY <1>2, <1>3, <1>4, <1>5 DEF BytesOK

-----------------------------------------------------------------------------
(* Every step moves the bytes of at most one place, in one of these ways.  *)

Reads(k) ==
  /\ at.op = "loop" /\ bev[k] = "open" /\ ctx[k] \in R!Channels
  /\ m_Inputevbuffer' = [m_Inputevbuffer EXCEPT ![ctx[k]] = @ \o wire[k]]
  /\ wire' = [wire EXCEPT ![k] = <<>>]
  /\ UNCHANGED <<hand, out, got, sent, bev, ctx>>
Flushes(k) ==
  /\ bev[k] = "open"
  /\ got' = [got EXCEPT ![k] = @ \o out[k]]
  /\ out' = [out EXCEPT ![k] = <<>>]
  /\ UNCHANGED <<wire, m_Inputevbuffer, hand, sent, bev, ctx>>
Sends(k) ==
  /\ bev[k] = "open" /\ sent[k] < MaxSend
  /\ sent' = [sent EXCEPT ![k] = @ + 1]
  /\ wire' = [wire EXCEPT ![k] = Append(@, <<k, sent[k] + 1>>)]
  /\ UNCHANGED <<m_Inputevbuffer, hand, out, got, bev, ctx>>
Clears(k) ==
  /\ bev' = [bev EXCEPT ![k] = "freed"]
  /\ out' = [out EXCEPT ![k] = <<>>]
  /\ wire' = [wire EXCEPT ![k] = <<>>]
  /\ UNCHANGED <<m_Inputevbuffer, hand, got, sent, ctx>>
Takes(w) ==
  /\ Chan(w) \in R!Channels /\ hand[w] = <<>>
  /\ hand' = [hand EXCEPT ![w] = R!Taken(Chan(w))]
  /\ m_Inputevbuffer' = [m_Inputevbuffer EXCEPT ![Chan(w)] = R!Rest(Chan(w))]
  /\ hand'[w] # <<>> /\ ~doubled' =>
       \A v \in Workers : hand[v] # <<>> => Chan(v) # Chan(w)
  /\ UNCHANGED <<wire, out, got, sent, bev, ctx>>
Writes(w) ==
  \E k \in Clients :
    /\ bev[k] = "open" /\ ctx[k] = Chan(w)
    /\ out' = [out EXCEPT ![k] = @ \o hand[w]]
    /\ hand' = [hand EXCEPT ![w] = <<>>]
    /\ UNCHANGED <<wire, m_Inputevbuffer, got, sent, bev, ctx>>
Drops(w) ==
  /\ Chan(w) \in R!Channels /\ IChStatus[Chan(w)] = "CLIENT_LOGOUT"
  /\ hand' = [hand EXCEPT ![w] = <<>>]
  /\ UNCHANGED <<wire, m_Inputevbuffer, out, got, sent, bev, ctx>>
Still == UNCHANGED <<wire, m_Inputevbuffer, hand, out, got, sent>>

(* Meanwhile users come and go, and who has bytes keeps his channel.       *)
UsersGoOn ==
  /\ \A k \in Clients :
       /\ bev[k] = "freed" => bev'[k] = "freed"
       /\ bev[k] = "open" => \/ bev'[k] = "open" /\ ctx'[k] = ctx[k]
                             \/ bev'[k] = "freed"
       /\ bev'[k] = "open" => bev[k] = "open" \/ (bev[k] = "none" /\ Still)
       /\ bev'[k] = "none" => bev[k] = "none"
  /\ \A w \in Workers : hand'[w] # <<>> => Chan(w)' = Chan(w)
  /\ ~doubled' => ~doubled
  /\ Working' => Working
  /\ at'.op = "alloc" => \/ at' = at
                         \/ Still /\ bev[at'.who] = "none"

BytesMove ==
  /\ UsersGoOn
  /\ \/ Still
     \/ \E k \in Clients : Reads(k) \/ Flushes(k) \/ Sends(k) \/ Clears(k)
     \/ \E w \in Workers : Takes(w) \/ Writes(w) \/ Drops(w)

(* A worker with bytes runs a task.                                        *)
LEMMA HandChan ==
  ASSUME ServerInv, NEW w \in Workers, hand[w] # <<>>
  PROVE  wpc[w] = "run" /\ phase[w] \in {"parse", "write"} /\ Chan(w) \in R!Channels
<1>1. PoolInv /\ ServerTypeOK
  BY DEF ServerInv
<1>2. wpc[w] = "run" /\ phase[w] \in {"parse", "write"}
  BY <1>1 DEF ServerTypeOK
<1> QED  BY <1>1, <1>2, ChanTyped

(* A step in which no worker's task ends or takes bytes.                   *)
LEMMA HandsStay ==
  ASSUME ServerInv, UNCHANGED hand, SameTasks
  PROVE  \A w \in Workers : hand'[w] # <<>> => Chan(w)' = Chan(w)
<1> SUFFICES ASSUME NEW w \in Workers, hand[w] # <<>>  PROVE Chan(w)' = Chan(w)
  OBVIOUS
<1>1. wpc[w] = "run"
  BY HandChan
<1> QED  BY <1>1 DEF SameTasks

LEMMA AdoptedMoves ==
  ASSUME ServerInv, Adopted
  PROVE  BytesMove
<1>0. ServerTypeOK /\ MainOK /\ ListsOK /\ OwnersOK
  BY DEF ServerInv
<1>1. UNCHANGED <<hand, doubled>> /\ \A w \in Workers : Chan(w)' = Chan(w)
  BY DEF Adopted, KeepTasks, poolAll, taskVars, history, Chan
<1> USE DEF R!resVars, R!channelVars, R!clientVars
<1>2. ASSUME NEW k \in Clients, R!Refuse(k)  PROVE BytesMove
  <2>1. /\ bev[k] = "none" /\ bev' = [bev EXCEPT ![k] = "refused"]
        /\ UNCHANGED <<m_nWorkStatus, at, wire, m_Inputevbuffer, out, got, sent, ctx>>
    BY <1>2 DEF R!Refuse
  <2> QED  BY <1>0, <1>1, <2>1 DEF BytesMove, UsersGoOn, Still, ServerTypeOK, Working
<1>3. ASSUME NEW k \in Clients, R!AllocationIChannel(k)  PROVE BytesMove
  <2> DEFINE c == Head(m_queueILoop)
  <2>1. /\ bev[k] = "none" /\ bev' = [bev EXCEPT ![k] = "open"]
        /\ ctx' = [ctx EXCEPT ![k] = c]
        /\ at' = R!Place("alloc", c, k)
        /\ UNCHANGED <<m_nWorkStatus, wire, m_Inputevbuffer, out, got, sent>>
    BY <1>3 DEF R!AllocationIChannel
  <2> HIDE DEF c
  <2>2. at'.who = k
    BY <2>1 DEF R!Place
  <2> QED  BY <1>0, <1>1, <2>1, <2>2 DEF BytesMove, UsersGoOn, Still, ServerTypeOK, Working
<1>4. ASSUME NEW k \in Clients, R!SyinxKernel_Event_Cb(k)  PROVE BytesMove
  <2>1. /\ at'.op = "removed"
        /\ UNCHANGED <<m_nWorkStatus, wire, m_Inputevbuffer, out, got, sent, bev, ctx>>
    BY <1>4 DEF R!SyinxKernel_Event_Cb, R!Place
  <2> QED  BY <1>1, <2>1 DEF BytesMove, UsersGoOn, Still, Working
<1>5. ASSUME NEW k \in Clients, R!SyinxKernel_Recv_Cb(k)  PROVE BytesMove
  <2>1. Reads(k) /\ UNCHANGED <<m_nWorkStatus, at>>
    BY <1>0, <1>1, <1>5 DEF R!SyinxKernel_Recv_Cb, Reads, OwnersOK, R!Looping, R!AtLoop, R!Place
  <2>2. UsersGoOn
    BY <1>1, <2>1 DEF UsersGoOn, Reads, Working
  <2> QED  BY <2>1, <2>2 DEF BytesMove
<1>6. ASSUME NEW k \in Clients, R!Flush(k)  PROVE BytesMove
  <2>1. at.op = "writev" /\ at.who = k /\ Working
    BY <1>6 DEF R!Flush, R!Running, Working
  <2>2. bev[k] = "open"
    BY <1>0, <2>1 DEF MainOK
  <2>3. Flushes(k) /\ at'.op = "loop" /\ UNCHANGED m_nWorkStatus
    BY <1>1, <1>6, <2>2 DEF R!Flush, Flushes, R!AtLoop, R!Place
  <2>4. UsersGoOn
    BY <1>1, <2>3 DEF UsersGoOn, Flushes, Working
  <2> QED  BY <2>3, <2>4 DEF BytesMove
<1>10. ASSUME NEW k \in Clients, R!Writev(k)  PROVE BytesMove
  <2>1. /\ at'.op = "writev"
        /\ UNCHANGED <<m_nWorkStatus, wire, m_Inputevbuffer, out, got, sent, bev, ctx>>
    BY <1>10 DEF R!Writev, R!Place
  <2> QED  BY <1>1, <2>1 DEF BytesMove, UsersGoOn, Still, Working
<1>7. ASSUME NEW k \in Clients, R!Send(k)  PROVE BytesMove
  <2>1. Sends(k) /\ UNCHANGED <<m_nWorkStatus, at>>
    BY <1>1, <1>7 DEF R!Send, Sends
  <2>2. UsersGoOn
    BY <1>1, <2>1 DEF UsersGoOn, Sends, Working
  <2> QED  BY <2>1, <2>2 DEF BytesMove
<1>8. ASSUME NEW k \in Clients, R!Leave(k)  PROVE BytesMove
  <2>1. UNCHANGED <<m_nWorkStatus, at, wire, m_Inputevbuffer, out, got, sent, bev, ctx>>
    BY <1>8 DEF R!Leave
  <2> QED  BY <1>1, <2>1 DEF BytesMove, UsersGoOn, Still, Working
<1>9. CASE \/ R!GameServerDoAction \/ R!OnClientConnect \/ R!SocketFdAdd
           \/ R!Logout \/ R!SocketFdDel
  <2>1. UNCHANGED <<m_nWorkStatus, wire, m_Inputevbuffer, out, got, sent, bev, ctx>>
    BY <1>9 DEF R!GameServerDoAction, R!OnClientConnect, R!SocketFdAdd, R!Logout,
                R!SocketFdDel
  <2>2. \/ at' = R!Place("frame", 1, NoClient) \/ at' = R!AtLoop
        \/ at' = [at EXCEPT !.op = "login"] \/ at' = [at EXCEPT !.op = "logout"]
    BY <1>9 DEF R!GameServerDoAction, R!OnClientConnect, R!SocketFdAdd, R!Logout,
                R!SocketFdDel
  <2>3. at'.op # "alloc"
    BY <1>0, <2>2 DEF R!AtLoop, R!Place, ServerTypeOK
  <2> QED  BY <1>1, <2>1, <2>3 DEF BytesMove, UsersGoOn, Still, Working
<1> QED
  BY <1>2, <1>3, <1>4, <1>5, <1>6, <1>7, <1>8, <1>9, <1>10 DEF Adopted

LEMMA MainMovesBytes ==
  ASSUME ServerInv, MainMoves, ~undefined'
  PROVE  BytesMove
<1>0. ServerTypeOK /\ MainOK /\ OwnersOK
  BY DEF ServerInv
<1> USE DEF resVars, channelVars, clientVars, resAll, poolAll, taskVars, history
<1>4. CASE NothingToHandle \/ AddTaskReturns
  <2>1. /\ SameTasks /\ AboutToHandle /\ at' = Onward
        /\ UNCHANGED <<m_nWorkStatus, wire, m_Inputevbuffer, hand, out, got, sent, bev,
                       ctx, doubled>>
    BY <1>4, HandledDoes
  <2>2. Onward.op # "alloc"
    <3>1. at.op = "close" => Onward.op = "closed"
      BY <1>0, <2>1, HandledTyped DEF ServerTypeOK
    <3>2. at.op # "close" => Onward.op \in {"loop", "frame", "cleared"}
      BY <1>0, <2>1, HandledTyped
    <3> QED  BY <3>1, <3>2
  <2>3. \A w \in Workers : hand'[w] # <<>> => Chan(w)' = Chan(w)
    BY <2>1, HandsStay
  <2> QED  BY <2>1, <2>2, <2>3 DEF BytesMove, UsersGoOn, Still, Working
<1>5. CASE Clear /\ ~undefined'
  <2> DEFINE k == m_buffer[at.arg]
  <2>1. /\ k \in Clients /\ Clears(k) /\ bev[k] = "open"
        /\ at' = [at EXCEPT !.op = "freed"]
        /\ UNCHANGED <<m_nWorkStatus, hand, doubled, PthTask, arg>>
    BY <1>5, ClearDoes DEF Clears
  <2> HIDE DEF k
  <2>2. UsersGoOn
    <3>1. at'.op = "freed"
      BY <1>0, <2>1 DEF ServerTypeOK
    <3> QED  BY <1>0, <2>1, <3>1 DEF UsersGoOn, Clears, Chan, Working, ServerTypeOK
  <2> QED  BY <2>1, <2>2 DEF BytesMove
<1>6. CASE CloseChannel /\ ~undefined'
  <2> DEFINE c == Head(m_queueILoop)
             k == m_buffer[c]
  <2>1. /\ k \in Clients \cup {NoClient} /\ (k # NoClient => bev[k] = "open")
        /\ bev' = IF k = NoClient THEN bev ELSE [bev EXCEPT ![k] = "freed"]
        /\ at' = [at EXCEPT !.op = "close"]
        /\ UNCHANGED <<m_nWorkStatus, wire, m_Inputevbuffer, hand, out, got, sent, ctx,
                       doubled, PthTask, arg>>
    BY <1>6, CloseDoes
  <2> HIDE DEF c, k
  <2>2. at'.op = "close"
    BY <1>0, <2>1 DEF ServerTypeOK
  <2> QED  BY <1>0, <2>1, <2>2 DEF BytesMove, UsersGoOn, Still, Chan, Working, ServerTypeOK
<1>7. CASE Exit
  <2>1. /\ m_nWorkStatus' = "exit"
        /\ UNCHANGED <<at, wire, m_Inputevbuffer, hand, out, got, sent, bev, ctx,
                       doubled, PthTask, arg>>
    BY <1>7 DEF Exit, KeepTasks
  <2> QED  BY <2>1 DEF BytesMove, UsersGoOn, Still, Chan, Working
<1>8. CASE SIG_HANDLE
  <2>1. /\ m_nWorkStatus' = "SYINX_LINK_CLOSE" /\ at'.op = "close"
        /\ UNCHANGED <<wire, m_Inputevbuffer, hand, out, got, sent, bev, ctx,
                       doubled, PthTask, arg>>
    BY <1>8 DEF SIG_HANDLE, R!AtLoop, R!Place
  <2> QED  BY <2>1 DEF BytesMove, UsersGoOn, Still, Chan, Working
<1> QED  BY <1>4, <1>5, <1>6, <1>7, <1>8 DEF MainMoves

LEMMA TaskMovesBytes ==
  ASSUME ServerInv, NEW w \in Workers, TaskStep(w), ~undefined, ~undefined'
  PROVE  BytesMove
<1>0. ServerTypeOK /\ MainOK /\ OwnersOK
  BY DEF ServerInv
<1>1. /\ wpc[w] = "run" /\ Chan(w) \in R!Channels
      /\ UNCHANGED <<m_nWorkStatus, at, bev, ctx, wire, got, sent>>
      /\ \A v \in Workers \ {w} : hand'[v] = hand[v] /\ Chan(v)' = Chan(v)
      /\ phase'[w] # "begin" => Chan(w)' = Chan(w)
  BY TaskFacts
<1>2. ServerTypeOK'
  BY <1>1, ServerStep DEF ServerInv, Next, MainGoesOn
<1>3. hand'[w] # <<>> => phase'[w] # "begin"
  BY <1>2 DEF ServerTypeOK
<1>4. (~doubled' => ~doubled) => UsersGoOn
  BY <1>1, <1>3 DEF UsersGoOn, Working
<1> USE DEF resVars, channelVars, clientVars, resAll, taskVars, history
<1>5. CASE TaskBegins(w)
  <2>1. UNCHANGED <<wire, m_Inputevbuffer, hand, out, got, sent, doubled>>
    BY <1>5 DEF TaskBegins, Race
  <2> QED  BY <1>4, <2>1 DEF BytesMove, Still
<1>6. CASE TaskRemoves(w)
  <2>1. /\ phase[w] = "remove"
        /\ hand' = [hand EXCEPT ![w] = R!Taken(Chan(w))]
        /\ m_Inputevbuffer' = [m_Inputevbuffer EXCEPT ![Chan(w)] = R!Rest(Chan(w))]
        /\ R!Taken(Chan(w)) = <<>> => doubled' = doubled
        /\ R!Taken(Chan(w)) # <<>> =>
             doubled' = (doubled \/ In("parse", Chan(w)) \cup In("write", Chan(w)) # {})
        /\ UNCHANGED <<wire, out, got, sent>>
    BY <1>6 DEF TaskRemoves, InTask
  <2>2. hand[w] = <<>> /\ hand'[w] = R!Taken(Chan(w)) /\ (~doubled' => ~doubled)
    <3>1. hand[w] = <<>> /\ hand'[w] = R!Taken(Chan(w))
      BY <1>0, <2>1 DEF ServerTypeOK
    <3>2. ~doubled' => ~doubled
      <4>1. CASE R!Taken(Chan(w)) = <<>>
        BY <2>1, <4>1
      <4>2. CASE R!Taken(Chan(w)) # <<>>
        <5>1. doubled' = (doubled \/ In("parse", Chan(w)) \cup In("write", Chan(w)) # {})
          BY <2>1, <4>2
        <5> QED  BY <5>1, Zenon
      <4> QED  BY <4>1, <4>2
    <3> QED  BY <3>1, <3>2
  <2>3. ASSUME R!Taken(Chan(w)) # <<>>, ~doubled', NEW v \in Workers, hand[v] # <<>>
        PROVE  Chan(v) # Chan(w)
    BY <2>1, <2>3, HandChan DEF In
  <2>4. Takes(w)
    BY <1>1, <2>1, <2>2, <2>3 DEF Takes
  <2> QED  BY <1>4, <2>2, <2>4 DEF BytesMove
<1>7. CASE TaskSends(w)
  <2>1. \/ /\ IChStatus[Chan(w)] # "CLIENT_LOGIN" /\ hand' = [hand EXCEPT ![w] = <<>>]
           /\ UNCHANGED <<m_Inputevbuffer, out, doubled>>
        \/ UNCHANGED <<m_Inputevbuffer, hand, out, doubled>>
    BY <1>7 DEF TaskSends, TaskReturns, Race
  <2>2. IChStatus[Chan(w)] # "CLIENT_LOGIN" => IChStatus[Chan(w)] = "CLIENT_LOGOUT"
    BY <1>0, <1>1 DEF ServerTypeOK
  <2>3. UsersGoOn
    BY <1>4, <2>1
  <2>4. Drops(w) \/ Still
    BY <1>1, <2>1, <2>2 DEF Drops, Still
  <2> QED  BY <2>3, <2>4 DEF BytesMove
<1>8. CASE TaskWrites(w)
  <2> DEFINE k == m_buffer[Chan(w)]
  <2>1. /\ phase[w] = "write"
        /\ out' = [out EXCEPT ![k] = @ \o hand[w]]
        /\ hand' = [hand EXCEPT ![w] = <<>>]
        /\ UNCHANGED <<m_Inputevbuffer, doubled>>
    BY <1>8 DEF TaskWrites, InTask, TaskReturns, Race
  <2>2. k \in Clients /\ bev[k] = "open" /\ ctx[k] = Chan(w)
    BY <1>0, <1>1, <2>1 DEF OwnersOK
  <2> HIDE DEF k
  <2>3. Writes(w)
    BY <1>1, <2>1, <2>2 DEF Writes
  <2> QED  BY <1>4, <2>1, <2>3 DEF BytesMove
<1> QED  BY <1>5, <1>6, <1>7, <1>8 DEF TaskStep

LEMMA StepMovesBytes ==
  ASSUME ServerInv, [Next]_vars
  PROVE  BytesMove
<1>1. CASE Quiet
  <2>1. /\ SameTasks
        /\ UNCHANGED <<m_nWorkStatus, at, wire, m_Inputevbuffer, hand, out, got, sent,
                       bev, ctx, doubled>>
    BY <1>1 DEF Quiet, resAll, clientVars, channelVars, taskVars, history
  <2>2. \A w \in Workers : hand'[w] # <<>> => Chan(w)' = Chan(w)
    BY <2>1, HandsStay
  <2> QED  BY <2>1, <2>2 DEF BytesMove, UsersGoOn, Still, Working
<1> QED
  BY <1>1, AdoptedMoves, MainMovesBytes, TaskMovesBytes, StepKinds DEF ServerInv

LEMMA NoElements == R!Elements(<<>>) = {}
BY DEF R!Elements

LEMMA MoveFlows ==
  ASSUME ServerInv, BytesMove
  PROVE  BytesFlow
<1>0. ServerTypeOK /\ UsersGoOn
  BY DEF ServerInv, BytesMove
<1>1. ASSUME NEW w \in Workers, NEW b \in R!Elements(hand'[w])
      PROVE  Chan(w)' = Chan(w)
  BY <1>0, <1>1, NoElements DEF UsersGoOn
<1> DEFINE
      WireFlow == \A k \in Clients : \A b \in R!Elements(wire'[k]) :
                    b \in R!Elements(wire[k]) \/ b[1] = k
      BufferFlow == \A c \in R!Channels : \A b \in R!Elements(m_Inputevbuffer'[c]) :
        \/ b \in R!Elements(m_Inputevbuffer[c])
        \/ \E k \in Clients : /\ bev[k] = "open" /\ ctx[k] = c /\ at.op = "loop"
                              /\ b \in R!Elements(wire[k])
      HandFlow == \A w \in Workers : \A b \in R!Elements(hand'[w]) :
        \/ b \in R!Elements(hand[w])
        \/ Chan(w) \in R!Channels /\ b \in R!Elements(m_Inputevbuffer[Chan(w)])
      PeerFlow == \A k \in Clients : \A b \in R!Elements(got'[k]) \cup R!Elements(out'[k]) :
        \/ b \in R!Elements(got[k]) \cup R!Elements(out[k])
        \/ \E w \in Workers : /\ b \in R!Elements(hand[w])
                              /\ bev[k] = "open" /\ ctx[k] = Chan(w)
<1>2. SUFFICES WireFlow /\ BufferFlow /\ HandFlow /\ PeerFlow
  BY <1>0, <1>1 DEF BytesFlow, UsersGoOn
<1>3. CASE Still
  BY <1>3 DEF Still
<1>4. ASSUME NEW k \in Clients, Reads(k)
      PROVE  WireFlow /\ BufferFlow /\ HandFlow /\ PeerFlow
  <2> DEFINE c == ctx[k]
             b == m_Inputevbuffer[c] \o wire[k]
  <2>1. /\ bev[k] = "open" /\ c \in R!Channels /\ at.op = "loop"
        /\ m_Inputevbuffer' = [m_Inputevbuffer EXCEPT ![c] = b]
        /\ wire' = [wire EXCEPT ![k] = <<>>]
        /\ UNCHANGED <<hand, out, got>>
    BY <1>4 DEF Reads
  <2>2. R!Elements(b) = R!Elements(m_Inputevbuffer[c]) \cup R!Elements(wire[k])
    BY <1>0, <2>1, Joined DEF ServerTypeOK
  <2>3. c = ctx[k]
    OBVIOUS
  <2> HIDE DEF b, c
  <2>4. WireFlow /\ HandFlow /\ PeerFlow
    BY <1>0, <2>1, NoElements DEF ServerTypeOK
  <2>5. BufferFlow
    BY <1>0, <2>1, <2>2, <2>3 DEF ServerTypeOK
  <2> QED  BY <2>4, <2>5
<1>5. ASSUME NEW k \in Clients, Flushes(k)
      PROVE  WireFlow /\ BufferFlow /\ HandFlow /\ PeerFlow
  <2> DEFINE b == got[k] \o out[k]
  <2>1. /\ got' = [got EXCEPT ![k] = b] /\ out' = [out EXCEPT ![k] = <<>>]
        /\ UNCHANGED <<wire, m_Inputevbuffer, hand>>
    BY <1>5 DEF Flushes
  <2>2. R!Elements(b) = R!Elements(got[k]) \cup R!Elements(out[k])
    BY <1>0, Joined DEF ServerTypeOK
  <2> HIDE DEF b
  <2>3. PeerFlow
    BY <1>0, <2>1, <2>2, NoElements DEF ServerTypeOK
  <2> QED  BY <2>1, <2>3
<1>6. ASSUME NEW k \in Clients, Sends(k)
      PROVE  WireFlow /\ BufferFlow /\ HandFlow /\ PeerFlow
  <2> DEFINE e == <<k, sent[k] + 1>>
             b == Append(wire[k], e)
  <2>1. wire' = [wire EXCEPT ![k] = b] /\ UNCHANGED <<m_Inputevbuffer, hand, out, got>>
    BY <1>6 DEF Sends
  <2>2. e[1] = k /\ wire[k] \in Seq(R!Bytes \cup {e}) /\ e \in R!Bytes \cup {e}
    BY <1>0 DEF ServerTypeOK
  <2> HIDE DEF e
  <2>3. R!Elements(b) = R!Elements(wire[k]) \cup {e}
    BY <2>2, Pushed
  <2> HIDE DEF b
  <2>4. WireFlow
    BY <1>0, <2>1, <2>2, <2>3 DEF ServerTypeOK
  <2> QED  BY <2>1, <2>4
<1>7. ASSUME NEW k \in Clients, Clears(k)
      PROVE  WireFlow /\ BufferFlow /\ HandFlow /\ PeerFlow
  BY <1>0, <1>7, NoElements DEF Clears, ServerTypeOK
<1>8. ASSUME NEW w \in Workers, Takes(w)
      PROVE  WireFlow /\ BufferFlow /\ HandFlow /\ PeerFlow
  <2> DEFINE c == Chan(w)
             t == R!Taken(c)
             r == R!Rest(c)
  <2>1. /\ c \in R!Channels
        /\ hand' = [hand EXCEPT ![w] = t]
        /\ m_Inputevbuffer' = [m_Inputevbuffer EXCEPT ![c] = r]
        /\ UNCHANGED <<wire, out, got>>
    BY <1>8 DEF Takes
  <2>2. t \in Seq(R!Bytes) /\ r \in Seq(R!Bytes) /\ t \o r = m_Inputevbuffer[c]
    BY <1>0, <2>1, TakenTyped DEF ServerTypeOK
  <2>3. R!Elements(m_Inputevbuffer[c]) = R!Elements(t) \cup R!Elements(r)
    <3>1. \A x, y \in Seq(R!Bytes) : R!Elements(x \o y) = R!Elements(x) \cup R!Elements(y)
      BY ONLY Joined
    <3> HIDE DEF c, t, r
    <3> QED  BY <2>2, <3>1, Zenon
  <2>4. c = Chan(w)
    OBVIOUS
  <2> HIDE DEF c, t, r
  <2>5. BufferFlow /\ WireFlow /\ PeerFlow
    BY <1>0, <2>1, <2>3 DEF ServerTypeOK
  <2>6. HandFlow
    BY <1>0, <2>1, <2>3, <2>4 DEF ServerTypeOK
  <2> QED  BY <2>5, <2>6
<1>9. ASSUME NEW w \in Workers, Writes(w)
      PROVE  WireFlow /\ BufferFlow /\ HandFlow /\ PeerFlow
  <2>1. PICK k \in Clients :
          /\ bev[k] = "open" /\ ctx[k] = Chan(w)
          /\ out' = [out EXCEPT ![k] = @ \o hand[w]]
          /\ hand' = [hand EXCEPT ![w] = <<>>]
          /\ UNCHANGED <<wire, m_Inputevbuffer, got>>
    BY <1>9 DEF Writes
  <2> DEFINE b == out[k] \o hand[w]
  <2>2. R!Elements(b) = R!Elements(out[k]) \cup R!Elements(hand[w])
    BY <1>0, Joined DEF ServerTypeOK
  <2>3. out' = [out EXCEPT ![k] = b]
    BY <2>1
  <2> HIDE DEF b
  <2>4. PeerFlow
    BY <1>0, <2>1, <2>2, <2>3 DEF ServerTypeOK
  <2>5. HandFlow
    BY <1>0, <2>1, NoElements DEF ServerTypeOK
  <2> QED  BY <2>1, <2>4, <2>5
<1>10. ASSUME NEW w \in Workers, Drops(w)
       PROVE  WireFlow /\ BufferFlow /\ HandFlow /\ PeerFlow
  BY <1>0, <1>10, NoElements DEF Drops, ServerTypeOK
<1> QED
  BY <1>3, <1>4, <1>5, <1>6, <1>7, <1>8, <1>9, <1>10 DEF BytesMove

LEMMA InitBytes == Init => BytesOK
<1> SUFFICES ASSUME Init  PROVE BytesOK
  OBVIOUS
<1>1. /\ m_Inputevbuffer = [c \in R!Channels |-> <<>>]
      /\ wire = [k \in Clients |-> <<>>] /\ out = [k \in Clients |-> <<>>]
      /\ got = [k \in Clients |-> <<>>] /\ hand = [w \in Workers |-> <<>>]
  BY DEF Init, R!Init
<1> QED  BY <1>1, NoElements DEF BytesOK

(* A client is sent a stranger's bytes only after that stranger has left.  *)
THEOREM ServerStrangerHasLeft == Spec => []StrangerHasLeft
<1>1. ServerInv /\ BytesOK => StrangerHasLeft
  <2> SUFFICES ASSUME ServerInv, BytesOK, NEW k \in Clients, NEW j \in Clients,
                      k # j, NEW b \in R!Elements(got[k] \o out[k]), b[1] = j
               PROVE  bev[j] = "freed"
    BY DEF StrangerHasLeft
  <2>1. R!Elements(got[k] \o out[k]) = R!Elements(got[k]) \cup R!Elements(out[k])
    BY Joined DEF ServerInv, ServerTypeOK
  <2> QED  BY <2>1 DEF BytesOK
<1>2. ServerInv /\ BytesOK /\ [Next]_vars => ServerInv' /\ BytesOK'
  BY ServerStep, StepMovesBytes, MoveFlows, FlowKeeps
<1> QED  BY InitServer, InitBytes, <1>1, <1>2, PTL DEF Spec

-----------------------------------------------------------------------------
(* Each byte is in one place.                                              *)

(* No two positions of the sequences H[h], for h in D, hold the same.      *)
Once(D, H) ==
  \A g, h \in D : \A i \in 1 .. Len(H[g]) : \A j \in 1 .. Len(H[h]) :
    H[g][i] = H[h][j] => g = h /\ i = j

(* All that G holds is in H.                                               *)
Kept(D, H, G) ==
  \A h \in D : \A i \in 1 .. Len(G[h]) :
    \E g \in D : \E j \in 1 .. Len(H[g]) : G[h][i] = H[g][j]

(* To move the first n of one sequence to the end of another repeats       *)
(* nothing.                                                                *)
LEMMA OnceMoved ==
  ASSUME NEW D, NEW S, NEW H \in [D -> Seq(S)], NEW G \in [D -> Seq(S)],
         Once(D, H), NEW src \in D, NEW dst \in D, src # dst,
         NEW n \in 0 .. Len(H[src]),
         \A h \in D \ {src, dst} : G[h] = H[h],
         Len(G[dst]) = Len(H[dst]) + n,
         \A i \in 1 .. Len(H[dst]) : G[dst][i] = H[dst][i],
         \A i \in 1 .. n : G[dst][Len(H[dst]) + i] = H[src][i],
         Len(G[src]) = Len(H[src]) - n,
         \A i \in 1 .. Len(G[src]) : G[src][i] = H[src][n + i]
  PROVE  Once(D, G) /\ Kept(D, H, G)
<1>1. Len(H[src]) \in Nat /\ Len(H[dst]) \in Nat /\ n \in Nat /\ Len(G[src]) \in Nat
  OBVIOUS
<1>2. \A m \in 1 .. n : m \in 1 .. Len(H[src])
  BY <1>1
<1> DEFINE Origin(h, i, g, j) ==
             \/ h # src /\ g = h /\ j = i
             \/ h = dst /\ g = src /\ j <= n /\ i = Len(H[dst]) + j
             \/ h = src /\ g = src /\ j = n + i
<1>3. ASSUME NEW h \in D, NEW i \in 1 .. Len(G[h])
      PROVE  \E g \in D : \E j \in 1 .. Len(H[g]) :
               G[h][i] = H[g][j] /\ Origin(h, i, g, j)
  <2>1. CASE h = dst /\ i <= Len(H[dst])
    <3>1. i \in 1 .. Len(H[h]) /\ G[h][i] = H[h][i]
      BY <1>1, <2>1
    <3> QED  BY <2>1, <3>1
  <2>2. CASE h = dst /\ i > Len(H[dst])
    <3> DEFINE m == i - Len(H[dst])
    <3>1. m \in 1 .. n /\ Len(H[dst]) + m = i
      BY <1>1, <2>2
    <3> HIDE DEF m
    <3>2. G[h][i] = H[src][m]
      BY <2>2, <3>1
    <3>3. m \in 1 .. Len(H[src]) /\ Origin(h, i, src, m)
      BY <1>1, <1>2, <2>2, <3>1
    <3> QED  BY <3>2, <3>3
  <2>3. CASE h = src
    <3> DEFINE m == n + i
    <3>1. m \in 1 .. Len(H[src]) /\ G[h][i] = H[src][m]
      BY <1>1, <2>3
    <3>2. Origin(h, i, src, m)
      BY <2>3
    <3> HIDE DEF m, Origin
    <3> QED  BY <3>1, <3>2
  <2>4. CASE h \notin {src, dst}
    BY <2>4
  <2> QED  BY <1>1, <2>1, <2>2, <2>3, <2>4
<1>4. ASSUME NEW g \in D, NEW h \in D, NEW i \in 1 .. Len(G[g]), NEW j \in 1 .. Len(G[h]),
             NEW f \in D, NEW m \in 1 .. Len(H[f]),
             Origin(g, i, f, m), Origin(h, j, f, m)
      PROVE  g = h /\ i = j
  <2>1. i \in Nat /\ j \in Nat /\ m \in Nat /\ i >= 1 /\ j >= 1
    OBVIOUS
  <2>2. CASE f # src
    <3>1. g = f /\ h = f /\ i = m /\ j = m
      BY <1>4, <2>2
    <3> QED  BY <3>1
  <2>3. CASE f = src /\ m <= n
    <3>1. \A l \in Nat : l >= 1 => m # n + l
      <4>1. n \in Nat /\ m \in Nat /\ m <= n
        BY <1>1, <2>1, <2>3
      <4> QED  BY ONLY <4>1
    <3>2. g = dst /\ i = Len(H[dst]) + m
      BY <1>4, <2>1, <2>3, <3>1
    <3>3. h = dst /\ j = Len(H[dst]) + m
      BY <1>4, <2>1, <2>3, <3>1
    <3> QED  BY <3>2, <3>3, Zenon
  <2>4. CASE f = src /\ m > n
    <3>1. g = src /\ m = n + i /\ h = src /\ m = n + j
      BY <1>1, <1>4, <2>1, <2>4
    <3>2. n \in Nat /\ i \in Nat /\ j \in Nat /\ n + i = n + j
      BY <1>1, <2>1, <3>1
    <3>3. i = j
      BY ONLY <3>2
    <3> QED  BY <3>1, <3>3, Zenon
  <2> QED  BY <1>1, <2>1, <2>2, <2>3, <2>4
<1> HIDE DEF Origin
<1>5. Kept(D, H, G)
  BY <1>3 DEF Kept
<1>6. Once(D, G)
  <2> SUFFICES ASSUME NEW g \in D, NEW h \in D,
                      NEW i \in 1 .. Len(G[g]), NEW j \in 1 .. Len(G[h]),
                      G[g][i] = G[h][j]
               PROVE  g = h /\ i = j
    BY DEF Once
  <2>1. PICK f \in D : \E m \in 1 .. Len(H[f]) : G[g][i] = H[f][m] /\ Origin(g, i, f, m)
    BY <1>3
  <2>2. PICK m \in 1 .. Len(H[f]) : G[g][i] = H[f][m] /\ Origin(g, i, f, m)
    BY <2>1
  <2>3. PICK o \in D : \E l \in 1 .. Len(H[o]) : G[h][j] = H[o][l] /\ Origin(h, j, o, l)
    BY <1>3
  <2>4. PICK l \in 1 .. Len(H[o]) : G[h][j] = H[o][l] /\ Origin(h, j, o, l)
    BY <2>3
  <2>5. o = f /\ l = m
    <3>1. H[f][m] = H[o][l]
      BY <2>2, <2>4
    <3>2. \A b \in D : \A x \in 1 .. Len(H[f]) : \A y \in 1 .. Len(H[b]) :
            H[f][x] = H[b][y] => f = b /\ x = y
      BY Zenon DEF Once
    <3>3. \A x \in 1 .. Len(H[f]) : \A y \in 1 .. Len(H[o]) :
            H[f][x] = H[o][y] => f = o /\ x = y
      BY <3>2, Zenon
    <3>4. \A y \in 1 .. Len(H[o]) : H[f][m] = H[o][y] => f = o /\ m = y
      BY <3>3, Zenon
    <3>5. H[f][m] = H[o][l] => f = o /\ m = l
      BY <3>4, Zenon
    <3> QED  BY <3>1, <3>5, Zenon
  <2> QED  BY <1>4, <2>2, <2>4, <2>5
<1> QED  BY <1>5, <1>6

(* To cut the ends off repeats nothing.                                    *)
LEMMA OnceCut ==
  ASSUME NEW D, NEW S, NEW H \in [D -> Seq(S)], NEW G \in [D -> Seq(S)],
         Once(D, H),
         \A h \in D : /\ Len(G[h]) <= Len(H[h])
                      /\ \A i \in 1 .. Len(G[h]) : G[h][i] = H[h][i]
  PROVE  Once(D, G) /\ Kept(D, H, G)
<1>1. \A h \in D : Len(G[h]) \in Nat /\ Len(H[h]) \in Nat
  OBVIOUS
<1>2. \A h \in D : \A i \in 1 .. Len(G[h]) :
        i \in 1 .. Len(H[h]) /\ G[h][i] = H[h][i]
  BY <1>1
<1>3. ASSUME NEW g \in D, NEW h \in D, NEW i \in 1 .. Len(G[g]), NEW j \in 1 .. Len(G[h]),
             G[g][i] = G[h][j]
      PROVE  g = h /\ i = j
  <2>1. \A m \in 1 .. Len(H[g]) : \A l \in 1 .. Len(H[h]) :
          H[g][m] = H[h][l] => g = h /\ m = l
    BY Zenon DEF Once
  <2>2. i \in 1 .. Len(H[g]) /\ j \in 1 .. Len(H[h]) /\ H[g][i] = H[h][j]
    BY <1>2, <1>3, Zenon
  <2> QED  BY <2>1, <2>2, Zenon
<1>4. Once(D, G)
  BY <1>3, Zenon DEF Once
<1>5. Kept(D, H, G)
  BY <1>2, Zenon DEF Kept
<1> QED  BY <1>4, <1>5

(* Something new at one end repeats nothing.                               *)
LEMMA OncePushed ==
  ASSUME NEW D, NEW H, NEW G, \A h \in D : Len(H[h]) \in Nat,
         Once(D, H), NEW dst \in D,
         \A h \in D \ {dst} : G[h] = H[h],
         Len(G[dst]) = Len(H[dst]) + 1,
         \A i \in 1 .. Len(H[dst]) : G[dst][i] = H[dst][i],
         \A h \in D : \A i \in 1 .. Len(H[h]) : H[h][i] # G[dst][Len(H[dst]) + 1]
  PROVE  Once(D, G)
<1> DEFINE e == G[dst][Len(H[dst]) + 1]
<1>1. \A h \in D : Len(H[h]) \in Nat
  OBVIOUS
<1>2. ASSUME NEW h \in D, NEW i \in 1 .. Len(G[h])
      PROVE  \/ i \in 1 .. Len(H[h]) /\ G[h][i] = H[h][i]
             \/ h = dst /\ i = Len(H[dst]) + 1 /\ G[h][i] = e
  BY <1>1
<1>3. SUFFICES ASSUME NEW g \in D, NEW h \in D,
                      NEW i \in 1 .. Len(G[g]), NEW j \in 1 .. Len(G[h]),
                      G[g][i] = G[h][j]
               PROVE  g = h /\ i = j
  BY DEF Once
<1>4. CASE i \in 1 .. Len(H[g]) /\ G[g][i] = H[g][i]
  <2>1. j \in 1 .. Len(H[h]) /\ G[h][j] = H[h][j]
    <3>1. G[h][j] # e
      BY <1>3, <1>4
    <3> QED  BY <1>2, <3>1
  <2>2. H[g][i] = H[h][j]
    BY <1>3, <1>4, <2>1
  <2> QED  BY <1>4, <2>1, <2>2 DEF Once
<1>5. CASE g = dst /\ i = Len(H[dst]) + 1 /\ G[g][i] = e
  <2>1. G[h][j] = e
    BY <1>3, <1>5
  <2>2. h = dst /\ j = Len(H[dst]) + 1
    BY <1>2, <2>1
  <2> QED  BY <1>5, <2>2
<1> QED  BY <1>2, <1>4, <1>5

(* Every holder and what it holds.                                         *)
Hold == [h \in Holders |-> Held(h)]

Echoed == [k \in Clients |-> got[k] \o out[k]]

HoldFacts ==
  /\ \A k \in Clients : Hold[<<"peer", k>>] = Echoed[k] /\ Hold[<<"wire", k>>] = wire[k]
  /\ \A c \in R!Channels : Hold[<<"buffer", c>>] = m_Inputevbuffer[c]
  /\ \A w \in Workers : Hold[<<"hand", w>>] = hand[w]

LEMMA AllHolders ==
  /\ \A k \in Clients : <<"peer", k>> \in Holders /\ <<"wire", k>> \in Holders
  /\ \A c \in R!Channels : <<"buffer", c>> \in Holders
  /\ \A w \in Workers : <<"hand", w>> \in Holders
  /\ \A h \in Holders : \/ \E k \in Clients : h = <<"peer", k>> \/ h = <<"wire", k>>
                        \/ \E c \in R!Channels : h = <<"buffer", c>>
                        \/ \E w \in Workers : h = <<"hand", w>>
BY DEF Holders

(* In this state and in the next.                                          *)
LEMMA HoldIs == HoldFacts /\ HoldFacts'
<1>1. ASSUME NEW k \in Clients
      PROVE  /\ Hold[<<"peer", k>>] = Echoed[k] /\ Hold[<<"wire", k>>] = wire[k]
             /\ Hold'[<<"peer", k>>] = Echoed'[k] /\ Hold'[<<"wire", k>>] = wire'[k]
  <2>1. <<"peer", k>> \in Holders /\ <<"wire", k>> \in Holders
    BY AllHolders
  <2>2. Held(<<"peer", k>>) = got[k] \o out[k] /\ Held(<<"wire", k>>) = wire[k]
    BY DEF Held
  <2>3. /\ Held(<<"peer", k>>)' = got'[k] \o out'[k]
        /\ Held(<<"wire", k>>)' = wire'[k]
    BY DEF Held
  <2> QED  BY <2>1, <2>2, <2>3, Zenon DEF Hold, Echoed
<1>2. ASSUME NEW c \in R!Channels
      PROVE  /\ Hold[<<"buffer", c>>] = m_Inputevbuffer[c]
             /\ Hold'[<<"buffer", c>>] = m_Inputevbuffer'[c]
  <2>1. <<"buffer", c>> \in Holders
    BY AllHolders
  <2>2. /\ Held(<<"buffer", c>>) = m_Inputevbuffer[c]
        /\ Held(<<"buffer", c>>)' = m_Inputevbuffer'[c]
    BY DEF Held
  <2> QED  BY <2>1, <2>2, Zenon DEF Hold
<1>3. ASSUME NEW w \in Workers
      PROVE  Hold[<<"hand", w>>] = hand[w] /\ Hold'[<<"hand", w>>] = hand'[w]
  <2>1. <<"hand", w>> \in Holders
    BY AllHolders
  <2>2. Held(<<"hand", w>>) = hand[w] /\ Held(<<"hand", w>>)' = hand'[w]
    BY DEF Held
  <2> QED  BY <2>1, <2>2, Zenon DEF Hold
<1> QED  BY <1>1, <1>2, <1>3 DEF HoldFacts

LEMMA EveryHolder ==
  ASSUME NEW S, NEW H,
         \A k \in Clients : H[<<"peer", k>>] \in S /\ H[<<"wire", k>>] \in S,
         \A c \in R!Channels : H[<<"buffer", c>>] \in S,
         \A w \in Workers : H[<<"hand", w>>] \in S
  PROVE  \A h \in Holders : H[h] \in S
BY AllHolders

LEMMA EchoTyped ==
  ASSUME ServerTypeOK, ServerTypeOK', NEW k \in Clients
  PROVE  Echoed[k] \in Seq(R!Bytes) /\ Echoed'[k] \in Seq(R!Bytes)
<1> DEFINE a == got[k] \o out[k]
           b == got'[k] \o out'[k]
<1>1. a \in Seq(R!Bytes) /\ Echoed[k] = a
  BY Joined DEF ServerTypeOK, Echoed
<1>2. b \in Seq(R!Bytes) /\ Echoed'[k] = b
  BY Joined DEF ServerTypeOK, Echoed
<1> QED  BY <1>1, <1>2

LEMMA HoldTyped ==
  ASSUME ServerTypeOK, ServerTypeOK'
  PROVE  /\ Hold \in [Holders -> Seq(R!Bytes)]
         /\ Hold' \in [Holders -> Seq(R!Bytes)]
<1> DEFINE H == Hold
           G == Hold'
<1>1. \A h \in Holders : H[h] \in Seq(R!Bytes)
  <2>1. ASSUME NEW k \in Clients
        PROVE  /\ H[<<"peer", k>>] \in Seq(R!Bytes)
               /\ H[<<"wire", k>>] \in Seq(R!Bytes)
    <3>1. Echoed[k] \in Seq(R!Bytes)
      BY EchoTyped
    <3>2. wire[k] \in Seq(R!Bytes)
      BY DEF ServerTypeOK
    <3> QED  BY <3>1, <3>2, HoldIs, Zenon DEF HoldFacts
  <2>2. ASSUME NEW c \in R!Channels  PROVE H[<<"buffer", c>>] \in Seq(R!Bytes)
    <3>1. m_Inputevbuffer[c] \in Seq(R!Bytes)
      BY DEF ServerTypeOK
    <3> QED  BY <3>1, HoldIs, Zenon DEF HoldFacts
  <2>3. ASSUME NEW w \in Workers  PROVE H[<<"hand", w>>] \in Seq(R!Bytes)
    <3>1. hand[w] \in Seq(R!Bytes)
      BY DEF ServerTypeOK
    <3> QED  BY <3>1, HoldIs, Zenon DEF HoldFacts
  <2> HIDE DEF H
  <2> QED  BY <2>1, <2>2, <2>3, EveryHolder
<1>2. \A h \in Holders : G[h] \in Seq(R!Bytes)
  <2>1. ASSUME NEW k \in Clients
        PROVE  /\ G[<<"peer", k>>] \in Seq(R!Bytes)
               /\ G[<<"wire", k>>] \in Seq(R!Bytes)
    <3>1. Echoed'[k] \in Seq(R!Bytes)
      BY EchoTyped
    <3>2. wire'[k] \in Seq(R!Bytes)
      BY DEF ServerTypeOK
    <3> QED  BY <3>1, <3>2, HoldIs, Zenon DEF HoldFacts
  <2>2. ASSUME NEW c \in R!Channels  PROVE G[<<"buffer", c>>] \in Seq(R!Bytes)
    <3>1. m_Inputevbuffer'[c] \in Seq(R!Bytes)
      BY DEF ServerTypeOK
    <3> QED  BY <3>1, HoldIs, Zenon DEF HoldFacts
  <2>3. ASSUME NEW w \in Workers  PROVE G[<<"hand", w>>] \in Seq(R!Bytes)
    <3>1. hand'[w] \in Seq(R!Bytes)
      BY DEF ServerTypeOK
    <3> QED  BY <3>1, HoldIs, Zenon DEF HoldFacts
  <2> HIDE DEF G
  <2> QED  BY <2>1, <2>2, <2>3, EveryHolder
<1>3. Hold = [h \in Holders |-> Held(h)] /\ Hold' = [h \in Holders |-> Held(h)']
  BY DEF Hold, Holders
<1> QED  BY <1>1, <1>2, <1>3

(* A byte is counted by its sender before it is anywhere.                  *)
OnceOK ==
  /\ Once(Holders, Hold)
  /\ \A h \in Holders : \A i \in 1 .. Len(Hold[h]) :
       Hold[h][i][2] <= sent[Hold[h][i][1]]

LEMMA KeptOnce ==
  ASSUME OnceOK, UNCHANGED sent, Once(Holders, Hold'), Kept(Holders, Hold, Hold')
  PROVE  OnceOK'
<1>1. Holders' = Holders
  BY DEF Holders
<1>2. Once(Holders, Hold)'
  BY <1>1 DEF Once
<1>3. ASSUME NEW h \in Holders, NEW i \in 1 .. Len(Hold'[h])
      PROVE  Hold'[h][i][2] <= sent'[Hold'[h][i][1]]
  BY DEF OnceOK, Kept
<1> QED  BY <1>1, <1>2, <1>3 DEF OnceOK

(* Joining is associative.                                                 *)
LEMMA JoinAssociative ==
  \A x, y, z \in Seq(R!Bytes) : (x \o y) \o z = x \o (y \o z)
BY ConcatAssociative

LEMMA OtherHolders ==
  ASSUME NEW H, NEW G, NEW X,
         \A k \in Clients : /\ <<"peer", k>> \notin X => G[<<"peer", k>>] = H[<<"peer", k>>]
                            /\ <<"wire", k>> \notin X => G[<<"wire", k>>] = H[<<"wire", k>>],
         \A c \in R!Channels : <<"buffer", c>> \notin X =>
           G[<<"buffer", c>>] = H[<<"buffer", c>>],
         \A w \in Workers : <<"hand", w>> \notin X => G[<<"hand", w>>] = H[<<"hand", w>>]
  PROVE  \A h \in Holders \ X : G[h] = H[h]
BY AllHolders, ZenonT(30)

LEMMA ConcatPositions ==
  ASSUME NEW S, NEW s \in Seq(S), NEW r \in Seq(S)
  PROVE  /\ Len(s \o r) = Len(s) + Len(r)
         /\ \A i \in 1 .. Len(s) : (s \o r)[i] = s[i]
         /\ \A i \in 1 .. Len(r) : (s \o r)[Len(s) + i] = r[i]
OBVIOUS

(* The bytes evbuffer_remove takes are the buffer's first.                 *)
LEMMA TakenPositions ==
  ASSUME m_Inputevbuffer \in [R!Channels -> Seq(R!Bytes)], NEW c \in R!Channels
  PROVE  \E n \in 0 .. Len(m_Inputevbuffer[c]) :
           /\ Len(R!Taken(c)) = n /\ Len(R!Rest(c)) = Len(m_Inputevbuffer[c]) - n
           /\ \A i \in 1 .. n : R!Taken(c)[i] = m_Inputevbuffer[c][i]
           /\ \A i \in 1 .. Len(R!Rest(c)) : R!Rest(c)[i] = m_Inputevbuffer[c][n + i]
<1>1. PICK b \in Seq(R!Bytes) : b = m_Inputevbuffer[c]
  OBVIOUS
<1>2. PICK n \in 0 .. Len(b) : n = R!TakeSize(c)
  BY <1>1, ServerAssumption DEF R!TakeSize
<1>3. R!Taken(c) = SubSeq(b, 1, n) /\ R!Rest(c) = SubSeq(b, n + 1, Len(b))
  BY <1>1, <1>2 DEF R!Taken, R!Rest
<1>4. Len(b) \in Nat /\ n \in Nat /\ n <= Len(b)
  OBVIOUS
<1>5. /\ Len(SubSeq(b, 1, n)) = n
      /\ \A i \in 1 .. n : SubSeq(b, 1, n)[i] = b[i]
  BY <1>4
<1>6. /\ Len(SubSeq(b, n + 1, Len(b))) = Len(b) - n
      /\ \A i \in 1 .. Len(b) - n : SubSeq(b, n + 1, Len(b))[i] = b[n + i]
  BY <1>4
<1> DEFINE t == R!Taken(c)
           r == R!Rest(c)
<1>7. /\ Len(t) = n /\ \A i \in 1 .. n : t[i] = b[i]
      /\ Len(r) = Len(b) - n /\ \A i \in 1 .. Len(b) - n : r[i] = b[n + i]
  BY <1>3, <1>5, <1>6
<1> HIDE DEF t, r
<1>8. /\ n \in 0 .. Len(m_Inputevbuffer[c])
      /\ Len(t) = n /\ Len(r) = Len(m_Inputevbuffer[c]) - n
      /\ \A i \in 1 .. n : t[i] = m_Inputevbuffer[c][i]
      /\ \A i \in 1 .. Len(r) : r[i] = m_Inputevbuffer[c][n + i]
  BY <1>1, <1>7
<1> QED  BY <1>8 DEF t, r

LEMMA OnceStep ==
  ASSUME ServerInv, ServerInv', OnceOK, BytesMove
  PROVE  OnceOK'
<1>0. ServerTypeOK /\ ServerTypeOK'
  BY DEF ServerInv
<1> DEFINE H == Hold
           G == Hold'
<1>1. H \in [Holders -> Seq(R!Bytes)] /\ G \in [Holders -> Seq(R!Bytes)]
  BY <1>0, HoldTyped
<1>2. Once(Holders, H)
  BY DEF OnceOK
<1>3. /\ \A k \in Clients : /\ G[<<"peer", k>>] = Echoed'[k]
                            /\ G[<<"wire", k>>] = wire'[k]
      /\ \A c \in R!Channels : G[<<"buffer", c>>] = m_Inputevbuffer'[c]
      /\ \A w \in Workers : G[<<"hand", w>>] = hand'[w]
  BY HoldIs DEF HoldFacts
<1>4. /\ \A k \in Clients : H[<<"peer", k>>] = Echoed[k] /\ H[<<"wire", k>>] = wire[k]
      /\ \A c \in R!Channels : H[<<"buffer", c>>] = m_Inputevbuffer[c]
      /\ \A w \in Workers : H[<<"hand", w>>] = hand[w]
  BY HoldIs DEF HoldFacts
<1>5. \A k, j \in Clients : \A c, d \in R!Channels : \A w, v \in Workers :
        /\ <<"peer", k>> # <<"wire", j>> /\ <<"peer", k>> # <<"buffer", c>>
        /\ <<"peer", k>> # <<"hand", w>> /\ <<"wire", k>> # <<"buffer", c>>
        /\ <<"wire", k>> # <<"hand", w>> /\ <<"buffer", c>> # <<"hand", w>>
        /\ k # j => <<"peer", k>> # <<"peer", j>> /\ <<"wire", k>> # <<"wire", j>>
        /\ c # d => <<"buffer", c>> # <<"buffer", d>>
        /\ w # v => <<"hand", w>> # <<"hand", v>>
  OBVIOUS
<1>6. ASSUME UNCHANGED sent,
             \A h \in Holders : /\ Len(G[h]) <= Len(H[h])
                                /\ \A i \in 1 .. Len(G[h]) : G[h][i] = H[h][i]
      PROVE  OnceOK'
  <2> HIDE DEF H, G
  <2>1. Once(Holders, G) /\ Kept(Holders, H, G)
    BY <1>1, <1>2, <1>6, OnceCut
  <2> QED  BY <1>6, <2>1, KeptOnce DEF H, G
<1>7. ASSUME UNCHANGED sent, NEW src \in Holders, NEW dst \in Holders, src # dst,
             NEW n \in 0 .. Len(H[src]),
             \A h \in Holders \ {src, dst} : G[h] = H[h],
             Len(G[dst]) = Len(H[dst]) + n,
             \A i \in 1 .. Len(H[dst]) : G[dst][i] = H[dst][i],
             \A i \in 1 .. n : G[dst][Len(H[dst]) + i] = H[src][i],
             Len(G[src]) = Len(H[src]) - n,
             \A i \in 1 .. Len(G[src]) : G[src][i] = H[src][n + i]
      PROVE  OnceOK'
  <2> HIDE DEF H, G
  <2>1. Once(Holders, G) /\ Kept(Holders, H, G)
    BY <1>1, <1>2, <1>7, OnceMoved
  <2> QED  BY <1>7, <2>1, KeptOnce DEF H, G
<1> HIDE DEF H, G
<1>20. ASSUME NEW X,
              \A k \in Clients : /\ <<"peer", k>> \notin X => Echoed'[k] = Echoed[k]
                                 /\ <<"wire", k>> \notin X => wire'[k] = wire[k],
              \A c \in R!Channels : <<"buffer", c>> \notin X =>
                m_Inputevbuffer'[c] = m_Inputevbuffer[c],
              \A w \in Workers : <<"hand", w>> \notin X => hand'[w] = hand[w]
       PROVE  \A h \in Holders \ X : G[h] = H[h]
  <2>1. ASSUME NEW k \in Clients
        PROVE  /\ <<"peer", k>> \notin X => G[<<"peer", k>>] = H[<<"peer", k>>]
               /\ <<"wire", k>> \notin X => G[<<"wire", k>>] = H[<<"wire", k>>]
    BY <1>3, <1>4, <1>20, ZenonT(30)
  <2>2. ASSUME NEW c \in R!Channels, <<"buffer", c>> \notin X
        PROVE  G[<<"buffer", c>>] = H[<<"buffer", c>>]
    <3>1. m_Inputevbuffer'[c] = m_Inputevbuffer[c]
      BY <1>20, <2>2, Zenon
    <3> QED  BY <1>3, <1>4, <3>1, Zenon
  <2>3. ASSUME NEW w \in Workers, <<"hand", w>> \notin X
        PROVE  G[<<"hand", w>>] = H[<<"hand", w>>]
    <3>1. hand'[w] = hand[w]
      BY <1>20, <2>3, Zenon
    <3> QED  BY <1>3, <1>4, <3>1, Zenon
  <2> QED  BY <2>1, <2>2, <2>3, OtherHolders
<1>21. ASSUME UNCHANGED <<sent, wire, m_Inputevbuffer, hand>>,
              \A k \in Clients : Echoed'[k] = Echoed[k]
       PROVE  OnceOK'
  <2> DEFINE X == {}
  <2>1. \A h \in Holders \ X : G[h] = H[h]
    <3> HIDE DEF X
    <3> QED  BY <1>20, <1>21
  <2> QED  BY <1>1, <1>6, <1>21, <2>1
<1>8. CASE Still
  <2>1. \A k \in Clients : Echoed'[k] = Echoed[k]
    BY <1>8 DEF Still, Echoed
  <2> QED  BY <1>8, <1>21, <2>1 DEF Still
<1>9. ASSUME NEW k \in Clients, Flushes(k)  PROVE OnceOK'
  <2>1. \A j \in Clients : Echoed'[j] = Echoed[j]
    <3> SUFFICES ASSUME NEW j \in Clients  PROVE Echoed'[j] = Echoed[j]
      OBVIOUS
    <3>1. j # k => got'[j] = got[j] /\ out'[j] = out[j]
      BY <1>0, <1>9 DEF Flushes, ServerTypeOK
    <3>2. j = k => got'[j] = got[j] \o out[j] /\ out'[j] = <<>>
      <4> DEFINE b == got[k] \o out[k]
      <4>1. got' = [got EXCEPT ![k] = b] /\ out' = [out EXCEPT ![k] = <<>>]
        BY <1>9 DEF Flushes
      <4>2. got \in [Clients -> Seq(R!Bytes)] /\ out \in [Clients -> Seq(R!Bytes)]
        BY <1>0 DEF ServerTypeOK
      <4> HIDE DEF b
      <4>3. got'[k] = b /\ out'[k] = <<>>
        BY <4>1, <4>2
      <4> QED  BY <4>3, Zenon DEF b
    <3> DEFINE b == got[j] \o out[j]
    <3>3. b \in Seq(R!Bytes) /\ b \o <<>> = b
      BY <1>0, Joined, ConcatEmptySeq DEF ServerTypeOK
    <3>4. Echoed[j] = b /\ Echoed'[j] = got'[j] \o out'[j]
      BY DEF Echoed
    <3> QED  BY <3>1, <3>2, <3>3, <3>4, Zenon
  <2> QED  BY <1>9, <1>21, <2>1 DEF Flushes
<1>10. ASSUME NEW k \in Clients, Clears(k)  PROVE OnceOK'
  <2> DEFINE p == <<"peer", k>>
             q == <<"wire", k>>
             X == {p, q}
  <2>1. UNCHANGED <<sent, got, m_Inputevbuffer, hand>>
    BY <1>10 DEF Clears
  <2>2. \A j \in Clients : j # k => wire'[j] = wire[j] /\ out'[j] = out[j]
    BY <1>0, <1>10 DEF Clears, ServerTypeOK
  <2>3. \A j \in Clients : j # k => Echoed'[j] = Echoed[j]
    BY <2>1, <2>2 DEF Echoed
  <2>4. \A h \in Holders \ X : G[h] = H[h]
    <3> HIDE DEF X
    <3>1. /\ \A j \in Clients : /\ <<"peer", j>> \notin X => j # k
                                /\ <<"wire", j>> \notin X => j # k
      BY DEF X
    <3> QED  BY <1>20, <2>1, <2>2, <2>3, <3>1
  <2>5. Len(G[q]) = 0
    <3>1. wire'[k] = <<>>
      BY <1>0, <1>10 DEF Clears, ServerTypeOK
    <3>2. G[q] = <<>>
      BY <1>3, <3>1, Zenon
    <3> HIDE DEF q
    <3> QED  BY <3>2
  <2>6. Len(G[p]) <= Len(H[p]) /\ \A i \in 1 .. Len(G[p]) : G[p][i] = H[p][i]
    <3>1. PICK s \in Seq(R!Bytes) : s = got[k]
      BY <1>0 DEF ServerTypeOK
    <3>2. PICK r \in Seq(R!Bytes) : r = out[k]
      BY <1>0 DEF ServerTypeOK
    <3>3. out'[k] = <<>> /\ got'[k] = s
      BY <1>0, <1>10, <3>1 DEF Clears, ServerTypeOK
    <3>4. H[p] = s \o r /\ G[p] = s \o <<>>
      BY <1>3, <1>4, <3>1, <3>2, <3>3 DEF Echoed
    <3>5. G[p] = s
      BY <3>4, ConcatEmptySeq
    <3> QED  BY <3>4, <3>5, ConcatPositions
  <2> HIDE DEF p, q
  <2>7. \A h \in Holders : /\ Len(G[h]) <= Len(H[h])
                           /\ \A i \in 1 .. Len(G[h]) : G[h][i] = H[h][i]
    <3> SUFFICES ASSUME NEW h \in Holders
                 PROVE  /\ Len(G[h]) <= Len(H[h])
                        /\ \A i \in 1 .. Len(G[h]) : G[h][i] = H[h][i]
      OBVIOUS
    <3>1. Len(H[h]) \in Nat
      BY <1>1
    <3> QED  BY <2>4, <2>5, <2>6, <3>1
  <2> QED  BY <1>6, <2>1, <2>7
<1>11. ASSUME NEW w \in Workers, Drops(w)  PROVE OnceOK'
  <2> DEFINE p == <<"hand", w>>
             X == {p}
  <2>1. UNCHANGED <<sent, got, out, wire, m_Inputevbuffer>>
        /\ \A v \in Workers : v # w => hand'[v] = hand[v]
    BY <1>0, <1>11 DEF Drops, ServerTypeOK
  <2>2. \A j \in Clients : Echoed'[j] = Echoed[j]
    BY <2>1 DEF Echoed
  <2>3. \A h \in Holders \ X : G[h] = H[h]
    <3>1. \A v \in Workers : <<"hand", v>> \notin X => v # w
      OBVIOUS
    <3> HIDE DEF X
    <3> QED  BY <1>20, <2>1, <2>2, <3>1
  <2>4. Len(G[p]) = 0
    <3>1. hand'[w] = <<>>
      BY <1>0, <1>11 DEF Drops, ServerTypeOK
    <3>2. G[p] = <<>>
      BY <1>3, <3>1, Zenon
    <3> HIDE DEF p
    <3> QED  BY <3>2
  <2> HIDE DEF p
  <2>5. \A h \in Holders : /\ Len(G[h]) <= Len(H[h])
                           /\ \A i \in 1 .. Len(G[h]) : G[h][i] = H[h][i]
    <3> SUFFICES ASSUME NEW h \in Holders
                 PROVE  /\ Len(G[h]) <= Len(H[h])
                        /\ \A i \in 1 .. Len(G[h]) : G[h][i] = H[h][i]
      OBVIOUS
    <3>1. Len(H[h]) \in Nat
      BY <1>1
    <3> QED  BY <2>3, <2>4, <3>1
  <2> QED  BY <1>6, <2>1, <2>5
<1>12. ASSUME NEW k \in Clients, Reads(k)  PROVE OnceOK'
  <2> DEFINE c == ctx[k]
             src == <<"wire", k>>
             dst == <<"buffer", c>>
             X == {src, dst}
  <2>1. c \in R!Channels /\ UNCHANGED <<sent, got, out, hand>>
    BY <1>12 DEF Reads
  <2>2. PICK s \in Seq(R!Bytes) : s = m_Inputevbuffer[c]
    BY <1>0, <2>1 DEF ServerTypeOK
  <2>3. PICK r \in Seq(R!Bytes) : r = wire[k]
    BY <1>0 DEF ServerTypeOK
  <2>4. /\ m_Inputevbuffer'[c] = s \o r /\ wire'[k] = <<>>
        /\ \A d \in R!Channels : d # c => m_Inputevbuffer'[d] = m_Inputevbuffer[d]
        /\ \A j \in Clients : j # k => wire'[j] = wire[j]
    <3> DEFINE b == s \o r
    <3>1. m_Inputevbuffer' = [m_Inputevbuffer EXCEPT ![c] = b]
          /\ wire' = [wire EXCEPT ![k] = <<>>]
      BY <1>12, <2>2, <2>3 DEF Reads
    <3>2. m_Inputevbuffer \in [R!Channels -> Seq(R!Bytes)] /\ wire \in [Clients -> Seq(R!Bytes)]
      BY <1>0 DEF ServerTypeOK
    <3> HIDE DEF b, c
    <3>3. /\ m_Inputevbuffer'[c] = b /\ wire'[k] = <<>>
          /\ \A d \in R!Channels : d # c => m_Inputevbuffer'[d] = m_Inputevbuffer[d]
          /\ \A j \in Clients : j # k => wire'[j] = wire[j]
      BY <2>1, <3>1, <3>2
    <3> QED  BY <3>3, Zenon DEF b
  <2>5. src \in Holders /\ dst \in Holders /\ src # dst
    BY <2>1, AllHolders
  <2>6. H[src] = r /\ H[dst] = s /\ G[dst] = s \o r /\ G[src] = <<>>
    BY <1>3, <1>4, <2>1, <2>2, <2>3, <2>4, Zenon
  <2>7. \A h \in Holders \ X : G[h] = H[h]
    <3>1. /\ \A j \in Clients : <<"wire", j>> \notin X => j # k
          /\ \A d \in R!Channels : <<"buffer", d>> \notin X => d # c
      OBVIOUS
    <3>2. \A j \in Clients : Echoed'[j] = Echoed[j]
      BY <2>1 DEF Echoed
    <3> HIDE DEF X, c
    <3> QED  BY <1>20, <2>1, <2>4, <3>1, <3>2
  <2> HIDE DEF src, dst
  <2> DEFINE n == Len(r)
  <2>8. n \in 0 .. Len(H[src]) /\ Len(G[src]) = 0 /\ Len(G[src]) = Len(H[src]) - n
    BY <2>6
  <2>9. /\ Len(G[dst]) = Len(H[dst]) + n
        /\ \A i \in 1 .. Len(H[dst]) : G[dst][i] = H[dst][i]
        /\ \A i \in 1 .. n : G[dst][Len(H[dst]) + i] = H[src][i]
    BY <2>6, ConcatPositions
  <2>10. \A i \in 1 .. Len(G[src]) : G[src][i] = H[src][n + i]
    BY <2>8
  <2> HIDE DEF n
  <2> QED  BY <1>7, <2>1, <2>5, <2>7, <2>8, <2>9, <2>10
<1>13. ASSUME NEW w \in Workers, Takes(w)  PROVE OnceOK'
  <2> DEFINE c == Chan(w)
             src == <<"buffer", c>>
             dst == <<"hand", w>>
             X == {src, dst}
             t == R!Taken(c)
             r == R!Rest(c)
  <2>1. c \in R!Channels /\ hand[w] = <<>> /\ UNCHANGED <<sent, got, out, wire>>
    BY <1>13 DEF Takes
  <2>2. /\ m_Inputevbuffer'[c] = r /\ hand'[w] = t
        /\ \A d \in R!Channels : d # c => m_Inputevbuffer'[d] = m_Inputevbuffer[d]
        /\ \A v \in Workers : v # w => hand'[v] = hand[v]
    <3>1. /\ hand' = [hand EXCEPT ![w] = t]
          /\ m_Inputevbuffer' = [m_Inputevbuffer EXCEPT ![c] = r]
      BY <1>13 DEF Takes
    <3> HIDE DEF c, t, r
    <3> QED  BY <1>0, <2>1, <3>1 DEF ServerTypeOK
  <2>3. PICK n \in 0 .. Len(m_Inputevbuffer[c]) :
          /\ Len(t) = n /\ Len(r) = Len(m_Inputevbuffer[c]) - n
          /\ \A i \in 1 .. n : t[i] = m_Inputevbuffer[c][i]
          /\ \A i \in 1 .. Len(r) : r[i] = m_Inputevbuffer[c][n + i]
    <3>1. m_Inputevbuffer \in [R!Channels -> Seq(R!Bytes)]
      BY <1>0 DEF ServerTypeOK
    <3>2. t = R!Taken(c) /\ r = R!Rest(c)
      OBVIOUS
    <3> HIDE DEF c, t, r
    <3> QED  BY <2>1, <3>1, <3>2, TakenPositions, Zenon
  <2>4. src \in Holders /\ dst \in Holders /\ src # dst
    BY <2>1, AllHolders
  <2> HIDE DEF t, r
  <2>5. H[src] = m_Inputevbuffer[c] /\ H[dst] = <<>> /\ G[dst] = t /\ G[src] = r
    BY <1>3, <1>4, <2>1, <2>2, Zenon
  <2>6. \A h \in Holders \ X : G[h] = H[h]
    <3>1. /\ \A d \in R!Channels : <<"buffer", d>> \notin X => d # c
          /\ \A v \in Workers : <<"hand", v>> \notin X => v # w
      OBVIOUS
    <3>2. \A j \in Clients : Echoed'[j] = Echoed[j]
      BY <2>1 DEF Echoed
    <3> HIDE DEF X, c
    <3> QED  BY <1>20, <2>1, <2>2, <3>1, <3>2
  <2> HIDE DEF src, dst, c
  <2>7. /\ n \in 0 .. Len(H[src]) /\ Len(H[dst]) = 0
        /\ Len(G[dst]) = n /\ Len(G[src]) = Len(H[src]) - n
        /\ \A i \in 1 .. n : G[dst][i] = H[src][i]
        /\ \A i \in 1 .. Len(G[src]) : G[src][i] = H[src][n + i]
    BY <2>3, <2>5
  <2>8. /\ Len(G[dst]) = Len(H[dst]) + n
        /\ \A i \in 1 .. Len(H[dst]) : G[dst][i] = H[dst][i]
        /\ \A i \in 1 .. n : G[dst][Len(H[dst]) + i] = H[src][i]
    BY <2>7
  <2> QED  BY <1>7, <2>1, <2>4, <2>6, <2>7, <2>8
<1>14. ASSUME NEW w \in Workers, Writes(w)  PROVE OnceOK'
  <2>1. PICK k \in Clients :
          /\ out' = [out EXCEPT ![k] = @ \o hand[w]]
          /\ hand' = [hand EXCEPT ![w] = <<>>]
          /\ UNCHANGED <<wire, m_Inputevbuffer, got, sent>>
    BY <1>14 DEF Writes
  <2> DEFINE src == <<"hand", w>>
             dst == <<"peer", k>>
             X == {src, dst}
  <2>2. PICK r \in Seq(R!Bytes) : r = hand[w]
    BY <1>0 DEF ServerTypeOK
  <2>3. PICK s \in Seq(R!Bytes) : s = Echoed[k]
    BY <1>0, EchoTyped
  <2>4. /\ hand'[w] = <<>> /\ out'[k] = out[k] \o r
        /\ \A j \in Clients : j # k => out'[j] = out[j]
        /\ \A v \in Workers : v # w => hand'[v] = hand[v]
    <3> DEFINE b == out[k] \o r
    <3>1. out' = [out EXCEPT ![k] = b] /\ hand' = [hand EXCEPT ![w] = <<>>]
      BY <2>1, <2>2
    <3> HIDE DEF b
    <3>2. /\ hand'[w] = <<>> /\ out'[k] = b
          /\ \A j \in Clients : j # k => out'[j] = out[j]
          /\ \A v \in Workers : v # w => hand'[v] = hand[v]
      BY <1>0, <3>1 DEF ServerTypeOK
    <3> QED  BY <3>2 DEF b
  <2>5. Echoed'[k] = s \o r
    <3>1. PICK a \in Seq(R!Bytes) : a = got[k]
      BY <1>0 DEF ServerTypeOK
    <3>2. PICK b \in Seq(R!Bytes) : b = out[k]
      BY <1>0 DEF ServerTypeOK
    <3>3. Echoed'[k] = a \o (b \o r) /\ s = a \o b
      BY <2>1, <2>3, <2>4, <3>1, <3>2 DEF Echoed
    <3> QED  BY <3>3, JoinAssociative, Zenon
  <2>6. src \in Holders /\ dst \in Holders /\ src # dst
    BY AllHolders
  <2>7. H[src] = r /\ H[dst] = s /\ G[dst] = s \o r /\ G[src] = <<>>
    BY <1>3, <1>4, <2>2, <2>3, <2>4, <2>5, Zenon
  <2>8. \A h \in Holders \ X : G[h] = H[h]
    <3>1. /\ \A j \in Clients : <<"peer", j>> \notin X => j # k
          /\ \A v \in Workers : <<"hand", v>> \notin X => v # w
      OBVIOUS
    <3>2. ASSUME NEW j \in Clients, j # k  PROVE Echoed'[j] = Echoed[j]
      <4>1. out'[j] = out[j] /\ got'[j] = got[j]
        BY <2>1, <2>4, <3>2
      <4>2. Echoed'[j] = got'[j] \o out'[j] /\ Echoed[j] = got[j] \o out[j]
        BY DEF Echoed
      <4> QED  BY <4>1, <4>2, Zenon
    <3> HIDE DEF X
    <3> QED  BY <1>20, <2>1, <2>4, <3>1, <3>2
  <2> HIDE DEF src, dst
  <2> DEFINE n == Len(r)
  <2>9. n \in 0 .. Len(H[src]) /\ Len(G[src]) = 0 /\ Len(G[src]) = Len(H[src]) - n
    BY <2>7
  <2>10. /\ Len(G[dst]) = Len(H[dst]) + n
         /\ \A i \in 1 .. Len(H[dst]) : G[dst][i] = H[dst][i]
         /\ \A i \in 1 .. n : G[dst][Len(H[dst]) + i] = H[src][i]
    BY <2>7, ConcatPositions
  <2>11. \A i \in 1 .. Len(G[src]) : G[src][i] = H[src][n + i]
    BY <2>9
  <2> HIDE DEF n
  <2> QED  BY <1>7, <2>1, <2>6, <2>8, <2>9, <2>10, <2>11
<1>22. ASSUME NEW dst \in Holders,
              \A h \in Holders \ {dst} : G[h] = H[h],
              Len(G[dst]) = Len(H[dst]) + 1,
              \A i \in 1 .. Len(H[dst]) : G[dst][i] = H[dst][i],
              \A h \in Holders : \A i \in 1 .. Len(H[h]) :
                H[h][i] # G[dst][Len(H[dst]) + 1]
       PROVE  Once(Holders, G)
  <2>1. \A h \in Holders : Len(H[h]) \in Nat
    BY <1>1
  <2> QED  BY <1>2, <1>22, <2>1, OncePushed
<1>15. ASSUME NEW k \in Clients, Sends(k)  PROVE OnceOK'
  <2> DEFINE e == <<k, sent[k] + 1>>
             dst == <<"wire", k>>
             X == {dst}
  <2>1. /\ UNCHANGED <<m_Inputevbuffer, hand, out, got>>
        /\ \A j \in Clients : j # k => sent'[j] = sent[j] /\ wire'[j] = wire[j]
        /\ sent'[k] = sent[k] + 1 /\ wire'[k] = Append(wire[k], e)
        /\ sent[k] \in Nat
    <3> DEFINE b == Append(wire[k], e)
    <3>1. /\ wire' = [wire EXCEPT ![k] = b] /\ sent' = [sent EXCEPT ![k] = sent[k] + 1]
          /\ UNCHANGED <<m_Inputevbuffer, hand, out, got>>
      BY <1>15 DEF Sends
    <3> HIDE DEF b, e
    <3>2. wire'[k] = b /\ sent'[k] = sent[k] + 1
          /\ \A j \in Clients : j # k => sent'[j] = sent[j] /\ wire'[j] = wire[j]
      BY <1>0, <3>1 DEF ServerTypeOK
    <3>3. sent[k] \in 0 .. MaxSend
      BY <1>0 DEF ServerTypeOK
    <3>4. sent[k] \in Nat
      BY <3>3
    <3> QED  BY <3>1, <3>2, <3>4 DEF b
  <2>2. PICK s \in Seq(R!Bytes) : s = wire[k]
    BY <1>0 DEF ServerTypeOK
  <2>3. e[1] = k /\ e[2] = sent[k] + 1
    OBVIOUS
  <2>4. H[dst] = s /\ G[dst] = Append(s, e) /\ dst \in Holders
    <3> HIDE DEF e
    <3> QED  BY <1>3, <1>4, <2>1, <2>2, AllHolders, Zenon
  <2> HIDE DEF e
  <2>5. \A h \in Holders \ X : G[h] = H[h]
    <3>1. \A j \in Clients : <<"wire", j>> \notin X => j # k
      OBVIOUS
    <3>2. \A j \in Clients : Echoed'[j] = Echoed[j]
      BY <2>1 DEF Echoed
    <3> HIDE DEF X
    <3> QED  BY <1>20, <2>1, <3>1, <3>2
  <2> HIDE DEF dst
  <2>6. \A h \in Holders : \A i \in 1 .. Len(H[h]) :
          /\ H[h][i] # e
          /\ H[h][i][2] <= sent'[H[h][i][1]]
    <3> SUFFICES ASSUME NEW h \in Holders, NEW i \in 1 .. Len(H[h])
                 PROVE  H[h][i] # e /\ H[h][i][2] <= sent'[H[h][i][1]]
      OBVIOUS
    <3>1. H[h][i][2] <= sent[H[h][i][1]]
      BY DEF OnceOK, H
    <3>2. PICK b \in R!Bytes : b = H[h][i]
      BY <1>1
    <3>3. b[1] \in Clients /\ b[2] \in Int
      BY <3>2, ServerAssumption DEF R!Bytes
    <3>7. sent[b[1]] \in 0 .. MaxSend
      BY <1>0, <3>3 DEF ServerTypeOK
    <3>4. sent[b[1]] \in Int /\ b[2] <= sent[b[1]]
      BY <3>1, <3>2, <3>7
    <3>5. b # e
      BY <2>1, <2>3, <3>3, <3>4
    <3>6. b[2] <= sent'[b[1]]
      BY <2>1, <3>3, <3>4
    <3> QED  BY <3>2, <3>5, <3>6
  <2>7. /\ Len(G[dst]) = Len(H[dst]) + 1
        /\ \A i \in 1 .. Len(H[dst]) : G[dst][i] = H[dst][i]
        /\ G[dst][Len(H[dst]) + 1] = e
    <3>1. s \in Seq(R!Bytes \cup {e}) /\ e \in R!Bytes \cup {e}
      OBVIOUS
    <3> QED  BY <2>4, <3>1, AppendProperties
  <2>8. Once(Holders, G)
    <3>1. \A h \in Holders : \A i \in 1 .. Len(H[h]) : H[h][i] # G[dst][Len(H[dst]) + 1]
      BY <2>6, <2>7
    <3>2. \A h \in Holders \ {dst} : G[h] = H[h]
      BY <2>5
    <3>3. dst \in Holders
      BY <2>4
    <3>4. /\ Len(G[dst]) = Len(H[dst]) + 1
          /\ \A i \in 1 .. Len(H[dst]) : G[dst][i] = H[dst][i]
      BY <2>7
    <3> HIDE DEF X
    <3> QED  BY <1>22, <3>1, <3>2, <3>3, <3>4
  <2>9. \A h \in Holders : \A i \in 1 .. Len(G[h]) : G[h][i][2] <= sent'[G[h][i][1]]
    <3> SUFFICES ASSUME NEW h \in Holders, NEW i \in 1 .. Len(G[h])
                 PROVE  G[h][i][2] <= sent'[G[h][i][1]]
      OBVIOUS
    <3>1. CASE h # dst
      BY <2>5, <2>6, <3>1
    <3>2. CASE h = dst /\ i <= Len(H[dst])
      <4>1. i \in 1 .. Len(H[dst])
        BY <1>1, <3>2
      <4> QED  BY <2>4, <2>6, <2>7, <3>2, <4>1
    <3>3. CASE h = dst /\ i > Len(H[dst])
      <4>1. i = Len(H[dst]) + 1
        BY <2>4, <2>7, <3>3
      <4>2. G[h][i] = e
        BY <2>7, <3>3, <4>1
      <4> QED  BY <2>1, <2>3, <4>2
    <3> QED  BY <1>1, <2>4, <3>1, <3>2, <3>3
  <2>10. Holders' = Holders /\ G = Hold'
    BY DEF Holders, G
  <2> HIDE DEF G
  <2>11. (Once(Holders, Hold))' /\ \A h \in Holders' : \A i \in 1 .. Len(Hold'[h]) :
           Hold'[h][i][2] <= sent'[Hold'[h][i][1]]
    BY <2>8, <2>9, <2>10 DEF Once
  <2> QED  BY <2>11 DEF OnceOK
<1> QED
  BY <1>8, <1>9, <1>10, <1>11, <1>12, <1>13, <1>14, <1>15 DEF BytesMove

LEMMA InitOnce == Init => OnceOK
<1> SUFFICES ASSUME Init  PROVE OnceOK
  OBVIOUS
<1>1. /\ m_Inputevbuffer = [c \in R!Channels |-> <<>>]
      /\ wire = [k \in Clients |-> <<>>] /\ out = [k \in Clients |-> <<>>]
      /\ got = [k \in Clients |-> <<>>] /\ hand = [w \in Workers |-> <<>>]
  BY DEF Init, R!Init
<1> DEFINE H == Hold
<1>2. ASSUME NEW k \in Clients
      PROVE  H[<<"peer", k>>] \in {<<>>} /\ H[<<"wire", k>>] \in {<<>>}
  <2>1. Echoed[k] = <<>> \o <<>> /\ wire[k] = <<>>
    BY <1>1 DEF Echoed
  <2>2. <<>> \o <<>> = <<>>
    OBVIOUS
  <2>3. H[<<"peer", k>>] = Echoed[k] /\ H[<<"wire", k>>] = wire[k]
    BY HoldIs, Zenon DEF HoldFacts
  <2> QED  BY <2>1, <2>2, <2>3
<1>3. \A c \in R!Channels : H[<<"buffer", c>>] \in {<<>>}
  BY <1>1, HoldIs DEF HoldFacts
<1>4. \A w \in Workers : H[<<"hand", w>>] \in {<<>>}
  BY <1>1, HoldIs DEF HoldFacts
<1> HIDE DEF H
<1>5. \A h \in Holders : H[h] = <<>>
  <2> DEFINE S == {<<>>}
  <2>1. /\ \A k \in Clients : H[<<"peer", k>>] \in S /\ H[<<"wire", k>>] \in S
        /\ \A c \in R!Channels : H[<<"buffer", c>>] \in S
        /\ \A w \in Workers : H[<<"hand", w>>] \in S
    BY <1>2, <1>3, <1>4
  <2> HIDE DEF S
  <2>2. \A h \in Holders : H[h] \in S
    BY <2>1, EveryHolder
  <2> QED  BY <2>2 DEF S
<1>6. \A h \in Holders : Len(H[h]) = 0
  BY <1>5
<1> QED  BY <1>6 DEF OnceOK, Once, H

(* The type invariant of the composition.                                  *)
LEMMA ServerTyped ==
  ASSUME ServerInv
  PROVE  TypeOK
<1>1. PoolInv /\ ServerTypeOK
  BY DEF ServerInv
<1>2. P!TypeOK
  BY <1>1, SamePool DEF PoolInv
<1>3. at.op \in {"loop", "writev", "alloc", "login", "frame", "removed", "cleared",
                 "freed", "logout", "close", "closed"}
  BY <1>1 DEF ServerTypeOK
<1> QED  BY <1>1, <1>2, <1>3 DEF TypeOK, ServerTypeOK

(* However many workers handle however many tasks, each byte is in one     *)
(* place at most, until there was a data race: on a buffer, on the event   *)
(* base, which has no lock either, or on a channel already deleted.        *)
THEOREM ServerHoldsOnce == Spec => []HeldOnce
<1>1. ServerInv /\ OnceOK => HeldOnce
  <2> SUFFICES ASSUME ServerInv, OnceOK  PROVE HeldOnce
    OBVIOUS
  <2>1. \A h \in Holders : Hold[h] = Held(h)
    BY DEF Hold
  <2>2. \A g, h \in Holders :
          \A i \in 1 .. Len(Held(g)) : \A j \in 1 .. Len(Held(h)) :
            Held(g)[i] = Held(h)[j] => g = h /\ i = j
    <3> SUFFICES ASSUME NEW g \in Holders, NEW h \in Holders
                 PROVE  \A i \in 1 .. Len(Held(g)) : \A j \in 1 .. Len(Held(h)) :
                          Held(g)[i] = Held(h)[j] => g = h /\ i = j
      OBVIOUS
    <3>1. \A i \in 1 .. Len(Hold[g]) : \A j \in 1 .. Len(Hold[h]) :
            Hold[g][i] = Hold[h][j] => g = h /\ i = j
      BY DEF OnceOK, Once
    <3> QED  BY <2>1, <3>1, Zenon
  <2> QED  BY <2>2, ServerTyped DEF HeldOnce
<1>2. ServerInv /\ OnceOK /\ [Next]_vars => ServerInv' /\ OnceOK'
  BY ServerStep, StepMovesBytes, OnceStep
<1> QED  BY InitServer, InitOnce, <1>1, <1>2, PTL DEF Spec

-----------------------------------------------------------------------------
(* A client's bytes come back in order.                                    *)

(* EndsWithAllOf for n bytes sent.                                         *)
AllOf(s, k, n) ==
  /\ Len(s) - n >= 0
  /\ \A i \in 1 .. Len(s) : IF i <= Len(s) - n THEN s[i][1] # k
                                                ELSE s[i] = <<k, i - (Len(s) - n)>>

LEMMA AllOfNone ==
  ASSUME NEW S, NEW s \in Seq(S), NEW k, \A i \in 1 .. Len(s) : s[i][1] # k
  PROVE  AllOf(s, k, 0)
<1>1. Len(s) \in Nat /\ Len(s) - 0 = Len(s)
  OBVIOUS
<1> QED  BY <1>1 DEF AllOf

LEMMA AllOfSend ==
  ASSUME NEW S, NEW s \in Seq(S), NEW k, NEW n \in Nat, <<k, n + 1>> \in S,
         AllOf(s, k, n)
  PROVE  AllOf(Append(s, <<k, n + 1>>), k, n + 1)
<1> DEFINE b == <<k, n + 1>>
           t == Append(s, b)
<1>1. Len(s) \in Nat /\ b \in S
  OBVIOUS
<1> HIDE DEF b
<1>2. /\ Len(t) = Len(s) + 1 /\ t[Len(s) + 1] = b
      /\ \A i \in 1 .. Len(s) : t[i] = s[i]
  BY <1>1, AppendProperties
<1> HIDE DEF t
<1>3. Len(t) - (n + 1) = Len(s) - n /\ Len(s) - n >= 0
  BY <1>1, <1>2 DEF AllOf
<1>4. ASSUME NEW i \in 1 .. Len(t)
      PROVE  IF i <= Len(s) - n THEN t[i][1] # k ELSE t[i] = <<k, i - (Len(s) - n)>>
  <2>1. CASE i \in 1 .. Len(s)
    BY <1>2, <2>1 DEF AllOf
  <2>2. CASE i = Len(s) + 1
    <3>1. ~(i <= Len(s) - n) /\ i - (Len(s) - n) = n + 1
      BY <1>1, <2>2
    <3> QED  BY <1>2, <2>2, <3>1 DEF b
  <2> QED  BY <1>1, <1>2, <2>1, <2>2
<1>5. AllOf(t, k, n + 1)
  BY <1>3, <1>4 DEF AllOf
<1> QED  BY <1>5 DEF t, b

LEMMA ConcatAt ==
  ASSUME NEW S, NEW s \in Seq(S), NEW r \in Seq(S)
  PROVE  /\ s \o r \in Seq(S) /\ Len(s \o r) = Len(s) + Len(r)
         /\ \A i \in 1 .. Len(s) + Len(r) :
              (s \o r)[i] = IF i <= Len(s) THEN s[i] ELSE r[i - Len(s)]
OBVIOUS

(* What is lost without being k's was ahead of all that is k's.            *)
LEMMA AllOfDrop ==
  ASSUME NEW S, NEW e \in Seq(S), NEW h \in Seq(S), NEW r \in Seq(S), NEW k,
         NEW n \in Nat, AllOf((e \o h) \o r, k, n),
         \A i \in 1 .. Len(h) : h[i][1] # k
  PROVE  AllOf(e \o r, k, n)
<1> DEFINE p == e \o h
           s == p \o r
           t == e \o r
<1>1. /\ p \in Seq(S) /\ Len(p) = Len(e) + Len(h)
      /\ \A i \in 1 .. Len(e) + Len(h) : p[i] = IF i <= Len(e) THEN e[i] ELSE h[i - Len(e)]
  BY ConcatAt
<1>2. /\ Len(t) = Len(e) + Len(r)
      /\ \A i \in 1 .. Len(e) + Len(r) : t[i] = IF i <= Len(e) THEN e[i] ELSE r[i - Len(e)]
  BY ConcatAt
<1> HIDE DEF p
<1>3. /\ Len(s) = Len(p) + Len(r)
      /\ \A i \in 1 .. Len(p) + Len(r) : s[i] = IF i <= Len(p) THEN p[i] ELSE r[i - Len(p)]
  <2>1. p \in Seq(S)
    BY <1>1
  <2> QED  BY <2>1, ConcatAt
<1>4. Len(e) \in Nat /\ Len(h) \in Nat /\ Len(r) \in Nat /\ AllOf(s, k, n)
  BY DEF p
<1> HIDE DEF s, t
<1> DEFINE N == Len(s) - n
<1>5. /\ N \in Int /\ N >= 0
      /\ \A i \in 1 .. Len(s) : IF i <= N THEN s[i][1] # k ELSE s[i] = <<k, i - N>>
  BY <1>1, <1>3, <1>4 DEF AllOf
<1>6. Len(s) = Len(e) + Len(h) + Len(r) /\ Len(t) - n = N - Len(h)
  BY <1>1, <1>2, <1>3, <1>4
<1> HIDE DEF N
<1>7. N - Len(h) >= 0 /\ (Len(h) # 0 => N >= Len(e) + Len(h))
  <2>1. CASE Len(h) = 0
    BY <1>5, <2>1
  <2>2. CASE Len(h) # 0
    <3>1. PICK j \in 1 .. Len(s) : j = Len(e) + Len(h)
      BY <1>4, <1>6, <2>2
    <3>2. s[j] = p[j] /\ p[j] = h[j - Len(e)] /\ j - Len(e) \in 1 .. Len(h)
      BY <1>1, <1>3, <1>4, <2>2, <3>1
    <3>3. s[j][1] # k
      BY <3>2
    <3>4. j <= N
      <4>1. <<k, j - N>>[1] = k
        OBVIOUS
      <4> QED  BY <1>5, <3>3, <4>1
    <3> QED  BY <1>4, <1>5, <3>1, <3>4
  <2> QED  BY <2>1, <2>2
<1>8. ASSUME NEW i \in 1 .. Len(t)
      PROVE  IF i <= N - Len(h) THEN t[i][1] # k ELSE t[i] = <<k, i - (N - Len(h))>>
  <2>1. CASE i <= Len(e)
    <3>1. t[i] = s[i] /\ i \in 1 .. Len(s)
      BY <1>1, <1>2, <1>3, <1>4, <1>6, <2>1
    <3>2. CASE Len(h) = 0
      <4>1. N - Len(h) = N
        BY <1>5, <3>2
      <4> QED  BY <1>5, <3>1, <4>1
    <3>3. CASE Len(h) # 0
      <4>1. i <= N - Len(h) /\ i <= N
        BY <1>4, <1>5, <1>7, <2>1, <3>3
      <4> QED  BY <1>5, <3>1, <4>1
    <3> QED  BY <3>2, <3>3
  <2>2. CASE ~(i <= Len(e))
    <3>1. PICK m \in 1 .. Len(s) : m = i + Len(h)
      BY <1>2, <1>4, <1>6
    <3>2. t[i] = s[m]
      <4>1. t[i] = r[i - Len(e)]
        BY <1>2, <2>2
      <4>2. s[m] = r[m - Len(p)] /\ m - Len(p) = i - Len(e)
        BY <1>1, <1>3, <1>4, <2>2, <3>1
      <4> QED  BY <4>1, <4>2
    <3>3. /\ i <= N - Len(h) <=> m <= N
          /\ i - (N - Len(h)) = m - N
      BY <1>4, <1>5, <3>1
    <3> QED  BY <1>5, <3>2, <3>3
  <2> QED  BY <2>1, <2>2
<1>9. AllOf(t, k, n)
  BY <1>6, <1>7, <1>8 DEF AllOf
<1> QED  BY <1>9 DEF t

(* Kept apart from its definition, for the equations below.               *)
Cat(x, y) == x \o y

LEMMA CatAt ==
  ASSUME NEW S, NEW s \in Seq(S), NEW r \in Seq(S)
  PROVE  /\ Cat(s, r) \in Seq(S) /\ Len(Cat(s, r)) = Len(s) + Len(r)
         /\ \A i \in 1 .. Len(s) + Len(r) :
              Cat(s, r)[i] = IF i <= Len(s) THEN s[i] ELSE r[i - Len(s)]
BY ConcatAt, Zenon DEF Cat

LEMMA Associative ==
  ASSUME NEW S, NEW x \in Seq(S), NEW y \in Seq(S), NEW z \in Seq(S)
  PROVE  Cat(Cat(x, y), z) = Cat(x, Cat(y, z))
<1>1. PICK a \in Nat, b \in Nat, c \in Nat : a = Len(x) /\ b = Len(y) /\ c = Len(z)
  OBVIOUS
<1> DEFINE p == Cat(x, y)
           q == Cat(y, z)
           l == Cat(p, z)
           r == Cat(x, q)
<1>2. /\ p \in Seq(S) /\ Len(p) = a + b
      /\ \A i \in 1 .. a + b : p[i] = IF i <= a THEN x[i] ELSE y[i - a]
  BY <1>1, CatAt
<1>3. /\ q \in Seq(S) /\ Len(q) = b + c
      /\ \A i \in 1 .. b + c : q[i] = IF i <= b THEN y[i] ELSE z[i - b]
  BY <1>1, CatAt
<1> HIDE DEF p, q
<1>4. /\ l \in Seq(S) /\ Len(l) = (a + b) + c
      /\ \A i \in 1 .. (a + b) + c : l[i] = IF i <= a + b THEN p[i] ELSE z[i - (a + b)]
  <2>1. p \in Seq(S) /\ Len(p) = a + b
    BY <1>2
  <2>2. /\ l \in Seq(S) /\ Len(l) = Len(p) + Len(z)
        /\ \A i \in 1 .. Len(p) + Len(z) :
             l[i] = IF i <= Len(p) THEN p[i] ELSE z[i - Len(p)]
    BY <2>1, CatAt
  <2> HIDE DEF l
  <2> QED  BY <1>1, <2>1, <2>2
<1>5. /\ r \in Seq(S) /\ Len(r) = a + (b + c)
      /\ \A i \in 1 .. a + (b + c) : r[i] = IF i <= a THEN x[i] ELSE q[i - a]
  <2>1. q \in Seq(S) /\ Len(q) = b + c
    BY <1>3
  <2>2. /\ r \in Seq(S) /\ Len(r) = Len(x) + Len(q)
        /\ \A i \in 1 .. Len(x) + Len(q) :
             r[i] = IF i <= Len(x) THEN x[i] ELSE q[i - Len(x)]
    BY <2>1, CatAt
  <2> HIDE DEF r
  <2> QED  BY <1>1, <2>1, <2>2
<1> HIDE DEF l, r
<1>6. ASSUME NEW i \in 1 .. Len(l)  PROVE r[i] = l[i]
  <2>1. CASE i <= a
    <3>1. /\ i \in 1 .. a + (b + c) /\ i \in 1 .. (a + b) + c /\ i \in 1 .. a + b
          /\ i <= a + b
      BY <1>4, <2>1
    <3>2. r[i] = x[i] /\ l[i] = p[i] /\ p[i] = x[i]
      BY <1>2, <1>4, <1>5, <2>1, <3>1
    <3> QED  BY <3>2
  <2>2. CASE ~(i <= a)
    <3>1. PICK j \in 1 .. b + c : j = i - a
      BY <1>4, <2>2
    <3>2. r[i] = q[j]
      BY <1>4, <1>5, <2>2, <3>1
    <3>3. CASE j <= b
      <4>1. q[j] = y[j]
        BY <1>3, <3>3
      <4>2. l[i] = p[i] /\ p[i] = y[i - a]
        BY <1>2, <1>4, <2>2, <3>1, <3>3
      <4> QED  BY <3>1, <3>2, <4>1, <4>2
    <3>4. CASE ~(j <= b)
      <4>1. q[j] = z[j - b]
        BY <1>3, <3>4
      <4>2. l[i] = z[i - (a + b)] /\ i - (a + b) = j - b
        BY <1>4, <3>1, <3>4
      <4> QED  BY <3>2, <4>1, <4>2
    <3> QED  BY <3>3, <3>4
  <2> QED  BY <2>1, <2>2
<1>7. Len(r) = Len(l)
  BY <1>4, <1>5
<1>8. r = l
  BY <1>4, <1>5, <1>6, <1>7, RE!SameSequence, ResConstants
<1> QED  BY <1>8, Zenon DEF l, r, p, q

LEMMA CatFacts ==
  ASSUME NEW S
  PROVE  /\ \A x, y \in Seq(S) : Cat(x, y) \in Seq(S)
         /\ \A x, y, z \in Seq(S) : Cat(Cat(x, y), z) = Cat(x, Cat(y, z))
         /\ <<>> \in Seq(S) /\ \A x \in Seq(S) : Cat(x, <<>>) = x
<1>1. \A x, y \in Seq(S) : Cat(x, y) \in Seq(S)
  BY ConcatProperties DEF Cat
<1>2. \A x, y, z \in Seq(S) : Cat(Cat(x, y), z) = Cat(x, Cat(y, z))
  BY Associative
<1>3. <<>> \in Seq(S) /\ \A x \in Seq(S) : Cat(x, <<>>) = x
  BY ConcatEmptySeq DEF Cat
<1> QED  BY <1>1, <1>2, <1>3

(* The bytes on their way: written, in a hand, in the buffer, on the wire. *)
OnTheWay(e, h, b, w) == Cat(Cat(Cat(e, h), b), w)

(* They move on by one place.                                              *)
LEMMA WayMoves ==
  ASSUME NEW S, NEW e \in Seq(S), NEW h \in Seq(S), NEW b \in Seq(S), NEW w \in Seq(S)
  PROVE  /\ OnTheWay(e, h, b, w) \in Seq(S)
         /\ OnTheWay(e, h, b \o w, <<>>) = OnTheWay(e, h, b, w)
         /\ OnTheWay(e, h, b, w) = OnTheWay(e, <<>>, h \o b, w)
         /\ OnTheWay(e \o h, <<>>, b, w) = OnTheWay(e, h, b, w)
<1>1. /\ b \o w = Cat(b, w) /\ h \o b = Cat(h, b) /\ e \o h = Cat(e, h)
  BY DEF Cat
<1> DEFINE z == <<>>
<1>2. /\ \A x, y \in Seq(S) : Cat(x, y) \in Seq(S)
      /\ \A x, y, v \in Seq(S) : Cat(Cat(x, y), v) = Cat(x, Cat(y, v))
      /\ z \in Seq(S) /\ \A x \in Seq(S) : Cat(x, z) = x
  BY CatFacts
<1> HIDE DEF z
<1>3. Cat(Cat(Cat(e, h), Cat(b, w)), z) = Cat(Cat(Cat(e, h), b), w)
  BY <1>2
<1>4. Cat(Cat(Cat(e, h), b), w) = Cat(Cat(Cat(e, z), Cat(h, b)), w)
  <2>1. Cat(Cat(e, h), b) = Cat(e, Cat(h, b)) /\ Cat(e, z) = e
    BY <1>2
  <2> QED  BY <2>1
<1>5. Cat(Cat(Cat(Cat(e, h), z), b), w) = Cat(Cat(Cat(e, h), b), w)
  BY <1>2
<1>6. Cat(Cat(Cat(e, h), b), w) \in Seq(S)
  BY <1>2
<1> QED  BY <1>1, <1>3, <1>4, <1>5, <1>6, Zenon DEF z, OnTheWay

LEMMA WayDrop ==
  ASSUME NEW S, NEW e \in Seq(S), NEW h \in Seq(S), NEW b \in Seq(S), NEW w \in Seq(S),
         NEW k, NEW n \in Nat, AllOf(OnTheWay(e, h, b, w), k, n),
         \A i \in 1 .. Len(h) : h[i][1] # k
  PROVE  AllOf(OnTheWay(e, <<>>, b, w), k, n)
<1> DEFINE z == <<>>
<1>1. /\ \A x, y \in Seq(S) : Cat(x, y) \in Seq(S)
      /\ \A x, y, v \in Seq(S) : Cat(Cat(x, y), v) = Cat(x, Cat(y, v))
      /\ z \in Seq(S) /\ \A x \in Seq(S) : Cat(x, z) = x
  BY CatFacts
<1> HIDE DEF z
<1>2. PICK r \in Seq(S) : r = Cat(b, w)
  BY <1>1
<1>3. OnTheWay(e, h, b, w) = Cat(Cat(e, h), r)
  BY <1>1, <1>2 DEF OnTheWay
<1>4. OnTheWay(e, z, b, w) = Cat(e, r)
  BY <1>1, <1>2 DEF OnTheWay
<1>5. AllOf((e \o h) \o r, k, n)
  BY <1>3, Zenon DEF Cat
<1>6. AllOf(e \o r, k, n)
  BY <1>5, AllOfDrop
<1> QED  BY <1>4, <1>6, Zenon DEF Cat, z

(* What a worker of channel c holds, when worker w holds H[w], of C[w].    *)
Holding(H, C, c) == {w \in Workers : H[w] # <<>> /\ C[w] = c}
HandIn(H, C, c) ==
  IF Holding(H, C, c) = {} THEN <<>> ELSE H[CHOOSE w \in Holding(H, C, c) : TRUE]

LEMMA HandTyped ==
  ASSUME NEW S, NEW H \in [Workers -> Seq(S)], NEW C, NEW c
  PROVE  HandIn(H, C, c) \in Seq(S)
<1>1. CASE Holding(H, C, c) = {}
  BY <1>1 DEF HandIn
<1>2. CASE Holding(H, C, c) # {}
  <2>1. PICK w \in Holding(H, C, c) : w = CHOOSE v \in Holding(H, C, c) : TRUE
    BY <1>2
  <2>2. w \in Workers /\ HandIn(H, C, c) = H[w]
    BY <1>2, <2>1 DEF HandIn, Holding
  <2> QED  BY <2>2
<1> QED  BY <1>1, <1>2

LEMMA HandNone ==
  ASSUME NEW H, NEW C, NEW c, \A v \in Workers : H[v] # <<>> => C[v] # c
  PROVE  HandIn(H, C, c) = <<>>
BY DEF HandIn, Holding

LEMMA HandOne ==
  ASSUME NEW H, NEW C, NEW w \in Workers, H[w] # <<>>,
         \A v \in Workers : H[v] # <<>> /\ C[v] = C[w] => v = w
  PROVE  HandIn(H, C, C[w]) = H[w]
<1>1. Holding(H, C, C[w]) = {w}
  BY DEF Holding
<1> QED  BY <1>1 DEF HandIn

LEMMA HandSame ==
  ASSUME NEW H, NEW C, NEW G, NEW D, NEW c,
         \A w \in Workers : (H[w] # <<>> /\ C[w] = c) \/ (G[w] # <<>> /\ D[w] = c)
                              => H[w] = G[w] /\ C[w] = D[w]
  PROVE  HandIn(G, D, c) = HandIn(H, C, c)
<1>1. Holding(H, C, c) = Holding(G, D, c)
  BY DEF Holding
<1>2. CASE Holding(H, C, c) = {}
  BY <1>1, <1>2 DEF HandIn
<1>3. CASE Holding(H, C, c) # {}
  <2>1. PICK w \in Holding(H, C, c) : w = CHOOSE v \in Holding(H, C, c) : TRUE
    BY <1>3
  <2>2. HandIn(H, C, c) = H[w] /\ HandIn(G, D, c) = G[w]
    BY <1>1, <1>3, <2>1 DEF HandIn
  <2>3. H[w] = G[w]
    BY <2>1 DEF Holding
  <2> QED  BY <2>2, <2>3
<1> QED  BY <1>2, <1>3

Chans == [w \in Workers |-> Chan(w)]

(* All that is on its way to client k, in the order it will arrive.        *)
Way(k) == OnTheWay(Echoed[k], InHand(k), m_Inputevbuffer[ctx[k]], wire[k])

OneHand ==
  ~doubled => \A v, w \in Workers :
    hand[v] # <<>> /\ hand[w] # <<>> /\ Chan(v) = Chan(w) => v = w

NewClient ==
  \A k \in Clients : bev[k] = "none" =>
    sent[k] = 0 /\ wire[k] = <<>> /\ got[k] = <<>> /\ out[k] = <<>>

(* Until the event loop goes on nothing of a new client was read.          *)
NotYetRead ==
  at.op = "alloc" =>
    /\ \A c \in R!Channels : \A b \in R!Elements(m_Inputevbuffer[c]) : b[1] # at.who
    /\ \A w \in Workers : \A b \in R!Elements(hand[w]) : b[1] # at.who

InOrder ==
  Working /\ ~doubled => \A k \in Clients : bev[k] = "open" => AllOf(Way(k), k, sent[k])

OrderInv == OneHand /\ NewClient /\ NotYetRead /\ InOrder

(* In this state and in the next.                                          *)
LEMMA InHandIs ==
  /\ \A k \in Clients : InHand(k) = HandIn(hand, Chans, ctx[k])
  /\ \A k \in Clients : InHand(k)' = HandIn(hand', Chans', ctx'[k])
  /\ \A w \in Workers : Chans[w] = Chan(w) /\ Chans'[w] = Chan(w)'
<1>1. \A w \in Workers : Chans[w] = Chan(w) /\ Chans'[w] = Chan(w)'
  BY DEF Chans
<1> DEFINE any(s) == CHOOSE w \in s : TRUE
<1>2. ASSUME NEW k \in Clients  PROVE InHand(k) = HandIn(hand, Chans, ctx[k])
  <2> DEFINE ws == {w \in Workers : hand[w] # <<>> /\ Chan(w) = ctx[k]}
             hs == Holding(hand, Chans, ctx[k])
  <2>1. ws = hs
    BY <1>1 DEF Holding
  <2>2. InHand(k) = IF ws = {} THEN <<>> ELSE hand[any(ws)]
    BY Zenon DEF InHand
  <2>3. HandIn(hand, Chans, ctx[k]) = IF hs = {} THEN <<>> ELSE hand[any(hs)]
    BY Zenon DEF HandIn
  <2> HIDE DEF ws, hs, any
  <2> QED  BY <2>1, <2>2, <2>3, Zenon
<1>3. ASSUME NEW k \in Clients  PROVE InHand(k)' = HandIn(hand', Chans', ctx'[k])
  <2> DEFINE ws == {w \in Workers : hand'[w] # <<>> /\ Chan(w)' = ctx'[k]}
             hs == Holding(hand', Chans', ctx'[k])
  <2>1. ws = hs
    BY <1>1 DEF Holding
  <2>2. InHand(k)' = IF ws = {} THEN <<>> ELSE hand'[any(ws)]
    BY DEF InHand
  <2>3. HandIn(hand', Chans', ctx'[k]) = IF hs = {} THEN <<>> ELSE hand'[any(hs)]
    BY Zenon DEF HandIn
  <2> HIDE DEF ws, hs, any
  <2> QED  BY <2>1, <2>2, <2>3, Zenon
<1> QED  BY <1>1, <1>2, <1>3

LEMMA OneHandStep ==
  ASSUME ServerInv, OneHand, BytesMove
  PROVE  OneHand'
<1> SUFFICES ASSUME ~doubled', NEW v \in Workers, NEW w \in Workers,
                    hand'[v] # <<>>, hand'[w] # <<>>, Chan(v)' = Chan(w)'
             PROVE  v = w
  BY DEF OneHand
<1>1. ~doubled /\ Chan(v)' = Chan(v) /\ Chan(w)' = Chan(w)
  BY DEF BytesMove, UsersGoOn
<1>2. hand \in [Workers -> Seq(R!Bytes)]
  BY DEF ServerInv, ServerTypeOK
<1>3. CASE hand[v] # <<>> /\ hand[w] # <<>>
  BY <1>1, <1>3 DEF OneHand
<1>4. ASSUME NEW u \in Workers, Takes(u)  PROVE v = w
  <2>1. \A x \in Workers \ {u} : hand'[x] = hand[x]
    BY <1>2, <1>4 DEF Takes
  <2>2. hand'[u] # <<>> => \A x \in Workers : hand[x] # <<>> => Chan(x) # Chan(u)
    BY <1>4 DEF Takes
  <2> QED  BY <1>1, <1>3, <2>1, <2>2
<1>5. CASE \A u \in Workers : ~Takes(u)
  <2>1. \A x \in Workers : hand'[x] \in {hand[x], <<>>}
    BY <1>2, <1>5 DEF BytesMove, Still, Reads, Flushes, Sends, Clears, Writes, Drops
  <2> QED  BY <1>3, <2>1
<1> QED  BY <1>4, <1>5

LEMMA NewClientStep ==
  ASSUME ServerInv, NewClient, BytesMove
  PROVE  NewClient'
<1> SUFFICES ASSUME NEW k \in Clients, bev'[k] = "none"
             PROVE  sent'[k] = 0 /\ wire'[k] = <<>> /\ got'[k] = <<>> /\ out'[k] = <<>>
  BY DEF NewClient
<1>1. /\ bev[k] = "none" /\ sent[k] = 0 /\ wire[k] = <<>> /\ got[k] = <<>>
      /\ out[k] = <<>>
  BY DEF BytesMove, UsersGoOn, NewClient
<1>2. ServerTypeOK
  BY DEF ServerInv
<1>3. ASSUME NEW j \in Clients, Reads(j) \/ Flushes(j) \/ Sends(j) \/ Clears(j)
      PROVE  sent'[k] = 0 /\ wire'[k] = <<>> /\ got'[k] = <<>> /\ out'[k] = <<>>
  <2>1. CASE Clears(j)
    BY <1>1, <1>2, <2>1 DEF Clears, ServerTypeOK
  <2>2. CASE Reads(j) \/ Flushes(j) \/ Sends(j)
    <3>1. j # k
      BY <1>1, <2>2 DEF Reads, Flushes, Sends
    <3> QED  BY <1>1, <1>2, <2>2, <3>1 DEF Reads, Flushes, Sends, ServerTypeOK
  <2> QED  BY <1>3, <2>1, <2>2
<1>4. ASSUME NEW w \in Workers, Takes(w) \/ Writes(w) \/ Drops(w)
      PROVE  sent'[k] = 0 /\ wire'[k] = <<>> /\ got'[k] = <<>> /\ out'[k] = <<>>
  <2>1. CASE Takes(w) \/ Drops(w)
    BY <1>1, <2>1 DEF Takes, Drops
  <2>2. ASSUME NEW j \in Clients, bev[j] = "open", out' = [out EXCEPT ![j] = @ \o hand[w]]
        PROVE  out'[k] = <<>>
    BY <1>1, <1>2, <2>2 DEF ServerTypeOK
  <2>3. CASE Writes(w)
    BY <1>1, <2>2, <2>3 DEF Writes
  <2> QED  BY <1>4, <2>1, <2>3
<1>5. CASE Still
  BY <1>1, <1>5 DEF Still
<1> QED  BY <1>3, <1>4, <1>5 DEF BytesMove

LEMMA NotYetReadStep ==
  ASSUME ServerInv, BytesOK, NotYetRead, BytesMove
  PROVE  NotYetRead'
<1> SUFFICES ASSUME at'.op = "alloc"
             PROVE  /\ \A c \in R!Channels :
                         \A b \in R!Elements(m_Inputevbuffer'[c]) : b[1] # at'.who
                    /\ \A w \in Workers :
                         \A b \in R!Elements(hand'[w]) : b[1] # at'.who
  BY DEF NotYetRead
<1>1. BytesFlow
  BY MoveFlows
<1>2. CASE at' = at
  BY <1>1, <1>2 DEF NotYetRead, BytesFlow
<1>3. CASE Still /\ bev[at'.who] = "none"
  BY <1>3 DEF Still, BytesOK, OfUser
<1> QED  BY <1>2, <1>3 DEF BytesMove, UsersGoOn

(* The pieces of a way are bytes.                                          *)
LEMMA WayTyped ==
  ASSUME ServerTypeOK, NEW k \in Clients, ctx[k] \in R!Channels
  PROVE  /\ Echoed[k] \in Seq(R!Bytes) /\ InHand(k) \in Seq(R!Bytes)
         /\ m_Inputevbuffer[ctx[k]] \in Seq(R!Bytes) /\ wire[k] \in Seq(R!Bytes)
         /\ Way(k) \in Seq(R!Bytes) /\ sent[k] \in Nat
<1> DEFINE e == Echoed[k]
           h == InHand(k)
           b == m_Inputevbuffer[ctx[k]]
           w == wire[k]
<1>1. e \in Seq(R!Bytes)
  <2> DEFINE a == got[k] \o out[k]
  <2>1. a \in Seq(R!Bytes) /\ Echoed[k] = a
    BY Joined DEF ServerTypeOK, Echoed
  <2> QED  BY <2>1
<1>2. h \in Seq(R!Bytes)
  <2>1. hand \in [Workers -> Seq(R!Bytes)]
    BY DEF ServerTypeOK
  <2>2. HandIn(hand, Chans, ctx[k]) \in Seq(R!Bytes)
    BY <2>1, HandTyped
  <2> QED  BY <2>2, InHandIs
<1>3. b \in Seq(R!Bytes) /\ w \in Seq(R!Bytes) /\ sent[k] \in 0 .. MaxSend
  BY DEF ServerTypeOK
<1>4. Way(k) = OnTheWay(e, h, b, w)
  BY DEF Way
<1> HIDE DEF e, h, b, w
<1>5. OnTheWay(e, h, b, w) \in Seq(R!Bytes)
  BY <1>1, <1>2, <1>3, WayMoves
<1>6. sent[k] \in Nat
  BY <1>3
<1> QED  BY <1>1, <1>2, <1>3, <1>4, <1>5, <1>6 DEF e, h, b, w

LEMMA HandFree ==
  ASSUME NEW H, NEW C, NEW c, NEW k,
         \A w \in Workers : \A b \in R!Elements(H[w]) : b[1] # k
  PROVE  \A b \in R!Elements(HandIn(H, C, c)) : b[1] # k
<1>1. CASE Holding(H, C, c) = {}
  BY <1>1, NoElements DEF HandIn
<1>2. CASE Holding(H, C, c) # {}
  <2>1. PICK w \in Holding(H, C, c) : w = CHOOSE v \in Holding(H, C, c) : TRUE
    BY <1>2
  <2>2. w \in Workers /\ HandIn(H, C, c) = H[w]
    BY <1>2, <2>1 DEF HandIn, Holding
  <2> QED  BY <2>2
<1> QED  BY <1>1, <1>2

(* A client that comes finds nothing of its own in its channel.            *)
LEMMA NewWay ==
  ASSUME ServerInv, ServerInv', BytesOK, NewClient, Still, NEW k \in Clients,
         bev[k] = "none", bev'[k] = "open"
  PROVE  AllOf(Way(k), k, sent[k])'
<1>1. /\ sent'[k] = 0 /\ Echoed'[k] = <<>> \o <<>> /\ wire'[k] = <<>>
      /\ ctx'[k] \in R!Channels /\ hand' = hand
      /\ m_Inputevbuffer' = m_Inputevbuffer
  BY DEF NewClient, Still, ServerInv, OwnersOK, Echoed
<1> DEFINE h == InHand(k)'
           b == m_Inputevbuffer'[ctx'[k]]
<1>2. h \in Seq(R!Bytes) /\ b \in Seq(R!Bytes)
  <2>1. hand' \in [Workers -> Seq(R!Bytes)] /\ b \in Seq(R!Bytes)
    BY <1>1 DEF ServerInv, ServerTypeOK
  <2>2. HandIn(hand', Chans', ctx'[k]) \in Seq(R!Bytes)
    BY <2>1, HandTyped
  <2> QED  BY <2>1, <2>2, InHandIs
<1>3. /\ \A x \in R!Elements(h) : x[1] # k
      /\ \A x \in R!Elements(b) : x[1] # k
  <2>1. \A w \in Workers : \A x \in R!Elements(hand'[w]) : x[1] # k
    BY <1>1 DEF BytesOK, OfUser
  <2>2. \A x \in R!Elements(HandIn(hand', Chans', ctx'[k])) : x[1] # k
    BY <2>1, HandFree
  <2>3. \A x \in R!Elements(b) : x[1] # k
    BY <1>1 DEF BytesOK, OfUser
  <2> QED  BY <2>2, <2>3, InHandIs
<1>4. Way(k)' = (((<<>> \o <<>>) \o h) \o b) \o <<>>
  BY <1>1 DEF Way, OnTheWay, Cat
<1> HIDE DEF h, b
<1> DEFINE s == h \o b
<1>5. s \in Seq(R!Bytes) /\ R!Elements(s) = R!Elements(h) \cup R!Elements(b)
  BY <1>2, Joined
<1>6. Way(k)' = s
  <2>1. <<>> \o <<>> = <<>> /\ <<>> \o h = h
    BY <1>2, ConcatEmptySeq
  <2>2. s \o <<>> = s
    <3> HIDE DEF s
    <3> QED  BY <1>5, ConcatEmptySeq
  <2> QED  BY <1>4, <2>1, <2>2, Zenon
<1> HIDE DEF s
<1>7. \A i \in 1 .. Len(s) : s[i][1] # k
  BY <1>3, <1>5 DEF R!Elements
<1>8. AllOf(s, k, 0)
  BY <1>5, <1>7, AllOfNone
<1> QED  BY <1>1, <1>6, <1>8

(* What a worker holds of a channel changes only by its own doing.         *)
LEMMA HandStep ==
  ASSUME UsersGoOn, NEW c,
         \A w \in Workers : \/ hand'[w] = hand[w]
                            \/ Chan(w) # c
  PROVE  \A d : d = c => HandIn(hand', Chans', d) = HandIn(hand, Chans, c)
<1>1. ASSUME NEW w \in Workers,
             (hand[w] # <<>> /\ Chans[w] = c) \/ (hand'[w] # <<>> /\ Chans'[w] = c)
      PROVE  hand[w] = hand'[w] /\ Chans[w] = Chans'[w]
  BY <1>1, InHandIs DEF UsersGoOn
<1>2. HandIn(hand', Chans', c) = HandIn(hand, Chans, c)
  <2> DEFINE H == hand
             G == hand'
             C == Chans
             D == Chans'
  <2>1. \A w \in Workers : (H[w] # <<>> /\ C[w] = c) \/ (G[w] # <<>> /\ D[w] = c)
                             => H[w] = G[w] /\ C[w] = D[w]
    BY <1>1
  <2> HIDE DEF H, G, C, D
  <2>2. HandIn(G, D, c) = HandIn(H, C, c)
    BY <2>1, HandSame
  <2> QED  BY <2>2 DEF H, G, C, D
<1> QED  BY <1>2

(* A client of another channel, or another client.                         *)
LEMMA SameWay ==
  ASSUME UsersGoOn, NEW k \in Clients, ctx'[k] = ctx[k], sent'[k] = sent[k],
         Echoed'[k] = Echoed[k], wire'[k] = wire[k],
         m_Inputevbuffer'[ctx[k]] = m_Inputevbuffer[ctx[k]],
         \A w \in Workers : hand'[w] = hand[w] \/ Chan(w) # ctx[k],
         AllOf(Way(k), k, sent[k])
  PROVE  AllOf(Way(k), k, sent[k])'
<1>1. InHand(k)' = InHand(k)
  BY HandStep, InHandIs
<1>2. Way(k)' = Way(k)
  BY <1>1, Zenon DEF Way
<1> QED  BY <1>2

LEMMA ReadsWay ==
  ASSUME ServerTypeOK, UsersGoOn, NEW k \in Clients, Reads(k), AllOf(Way(k), k, sent[k])
  PROVE  AllOf(Way(k), k, sent[k])'
<1> DEFINE e == Echoed[k]
           h == InHand(k)
           b == m_Inputevbuffer[ctx[k]]
           w == wire[k]
<1>1. /\ e \in Seq(R!Bytes) /\ h \in Seq(R!Bytes) /\ b \in Seq(R!Bytes)
      /\ w \in Seq(R!Bytes)
  BY WayTyped DEF Reads
<1>2. /\ Echoed'[k] = e /\ InHand(k)' = h /\ wire'[k] = <<>> /\ sent'[k] = sent[k]
      /\ m_Inputevbuffer'[ctx'[k]] = b \o w
  <2>1. InHand(k)' = InHand(k)
    BY HandStep, InHandIs DEF Reads
  <2>2. m_Inputevbuffer'[ctx'[k]] = b \o w /\ wire'[k] = <<>> /\ sent'[k] = sent[k]
    BY DEF Reads, ServerTypeOK
  <2>3. Echoed'[k] = Echoed[k]
    BY DEF Echoed, Reads
  <2> QED  BY <2>1, <2>2, <2>3
<1>3. Way(k) = OnTheWay(e, h, b, w) /\ Way(k)' = OnTheWay(e, h, b \o w, <<>>)
  <2>1. Way(k) = OnTheWay(e, h, b, w)
    BY DEF Way
  <2>2. Way(k)' = OnTheWay(Echoed'[k], InHand(k)', m_Inputevbuffer'[ctx'[k]], wire'[k])
    BY DEF Way
  <2> HIDE DEF e, h, b, w
  <2> QED  BY <1>2, <2>1, <2>2, Zenon
<1> HIDE DEF e, h, b, w
<1>4. Way(k)' = Way(k)
  BY <1>1, <1>3, WayMoves
<1> QED  BY <1>2, <1>4

LEMMA SendsWay ==
  ASSUME ServerTypeOK, UsersGoOn, NEW k \in Clients, ctx[k] \in R!Channels,
         Sends(k), AllOf(Way(k), k, sent[k])
  PROVE  AllOf(Way(k), k, sent[k])'
<1> DEFINE p == (Echoed[k] \o InHand(k)) \o m_Inputevbuffer[ctx[k]]
           w == wire[k]
           b == <<k, sent[k] + 1>>
<1>1. /\ InHand(k)' = InHand(k) /\ wire'[k] = Append(w, b)
      /\ sent'[k] = sent[k] + 1
      /\ Echoed'[k] = Echoed[k] /\ m_Inputevbuffer' = m_Inputevbuffer /\ ctx' = ctx
  <2>1. InHand(k)' = InHand(k)
    BY HandStep, InHandIs DEF Sends
  <2>2. Echoed'[k] = Echoed[k]
    BY DEF Echoed, Sends
  <2> QED  BY <2>1, <2>2 DEF Sends, ServerTypeOK
<1>2. Way(k) = p \o w /\ Way(k)' = p \o Append(w, b)
  <2>1. Way(k) = p \o w
    BY DEF Way, OnTheWay, Cat
  <2>2. Way(k)' = OnTheWay(Echoed'[k], InHand(k)', m_Inputevbuffer'[ctx'[k]], wire'[k])
    BY DEF Way
  <2> HIDE DEF w, b
  <2> QED  BY <1>1, <2>1, <2>2, Zenon DEF OnTheWay, Cat
<1>3. w \in Seq(R!Bytes) /\ Way(k) \in Seq(R!Bytes) /\ sent[k] \in Nat
  BY WayTyped
<1>4. b \in R!Bytes
  <2>1. sent[k] \in 0 .. MaxSend /\ sent[k] < MaxSend
    BY DEF Sends, ServerTypeOK
  <2>2. sent[k] + 1 \in 1 .. MaxSend
    BY <2>1, ServerAssumption
  <2> QED  BY <2>2 DEF R!Bytes
<1>5. p \in Seq(R!Bytes)
  <2>1. Echoed[k] \in Seq(R!Bytes) /\ InHand(k) \in Seq(R!Bytes)
        /\ m_Inputevbuffer[ctx[k]] \in Seq(R!Bytes)
    BY WayTyped
  <2>2. \A x, y \in Seq(R!Bytes) : x \o y \in Seq(R!Bytes)
    BY ConcatProperties
  <2>3. Echoed[k] \o InHand(k) \in Seq(R!Bytes)
    BY <2>1, <2>2, Zenon
  <2> QED  BY <2>1, <2>2, <2>3, Zenon
<1> HIDE DEF p, w
<1>6. p \o Append(w, b) = Append(p \o w, b)
  <2>1. \A s, r \in Seq(R!Bytes) : \A x \in R!Bytes :
          s \o Append(r, x) = Append(s \o r, x)
    BY RE!ConcatAppend, ResConstants
  <2> HIDE DEF b
  <2> QED  BY <1>3, <1>4, <1>5, <2>1
<1>7. Way(k)' = Append(Way(k), b)
  BY <1>2, <1>6, Zenon
<1>8. AllOf(Append(Way(k), b), k, sent[k] + 1)
  BY <1>3, <1>4, AllOfSend
<1> HIDE DEF b
<1> QED  BY <1>1, <1>7, <1>8

(* A worker takes bytes of k's channel when no other worker has any.       *)
LEMMA TakesWay ==
  ASSUME ServerTypeOK, UsersGoOn, ~doubled', NEW k \in Clients, NEW w \in Workers,
         Takes(w), ctx[k] = Chan(w), AllOf(Way(k), k, sent[k])
  PROVE  AllOf(Way(k), k, sent[k])'
<1> DEFINE e == Echoed[k]
           b == m_Inputevbuffer[ctx[k]]
           t == R!Taken(ctx[k])
           r == R!Rest(ctx[k])
           v == wire[k]
<1>1. ctx[k] \in R!Channels
  BY DEF Takes
<1>2. /\ e \in Seq(R!Bytes) /\ b \in Seq(R!Bytes) /\ v \in Seq(R!Bytes)
      /\ InHand(k) \in Seq(R!Bytes)
  BY <1>1, WayTyped
<1>3. t \in Seq(R!Bytes) /\ r \in Seq(R!Bytes) /\ t \o r = b
  BY <1>1, TakenTyped DEF ServerTypeOK
<1>4. /\ hand' = [hand EXCEPT ![w] = t] /\ hand[w] = <<>> /\ hand'[w] = t
      /\ m_Inputevbuffer'[ctx[k]] = r
      /\ ctx' = ctx /\ wire' = wire /\ sent' = sent /\ Echoed'[k] = e
  BY DEF Takes, Echoed, ServerTypeOK
<1>5. Way(k)' = OnTheWay(e, InHand(k)', r, v)
  <2>1. Way(k)' = OnTheWay(Echoed'[k], InHand(k)', m_Inputevbuffer'[ctx'[k]], wire'[k])
    BY DEF Way
  <2> HIDE DEF e, r, v
  <2>2. wire'[k] = v
    BY <1>4 DEF v
  <2> QED  BY <1>4, <2>1, <2>2, Zenon
<1>6. Way(k) = OnTheWay(e, InHand(k), b, v)
  BY DEF Way
<1> HIDE DEF e, b, t, r, v
<1>7. CASE t = <<>>
  <2>1. \A x \in Workers : hand'[x] = hand[x]
    BY <1>4, <1>7 DEF ServerTypeOK
  <2>2. InHand(k)' = InHand(k)
    <3>1. ctx'[k] = ctx[k]
      BY <1>4
    <3> QED  BY <2>1, <3>1, HandStep, InHandIs
  <2>3. r = b
    BY <1>3, <1>7, ConcatEmptySeq
  <2>4. Way(k)' = Way(k)
    BY <1>5, <1>6, <2>2, <2>3, Zenon
  <2> QED  BY <1>4, <2>4
<1>8. CASE t # <<>>
  <2>1. \A x \in Workers : hand[x] # <<>> => Chan(x) # ctx[k]
    BY <1>4, <1>8 DEF Takes
  <2>2. InHand(k) = <<>>
    <3>1. \A x \in Workers : hand[x] # <<>> => Chans[x] # ctx[k]
      BY <2>1, InHandIs
    <3> QED  BY <3>1, HandNone, InHandIs
  <2>3. InHand(k)' = t
    <3>1. \A x \in Workers : hand'[x] # <<>> => Chans'[x] = Chan(x)
      BY InHandIs DEF UsersGoOn
    <3>2. \A x \in Workers \ {w} : hand'[x] = hand[x]
      BY <1>4 DEF ServerTypeOK
    <3>3. Chans'[w] = ctx'[k]
      BY <1>4, <1>8, <3>1
    <3>4. \A x \in Workers : hand'[x] # <<>> /\ Chans'[x] = Chans'[w] => x = w
      BY <1>4, <2>1, <3>1, <3>2, <3>3
    <3> DEFINE H == hand'
               C == Chans'
    <3>5. H[w] # <<>> /\ \A x \in Workers : H[x] # <<>> /\ C[x] = C[w] => x = w
      BY <1>4, <1>8, <3>4
    <3>6. HandIn(H, C, C[w]) = H[w]
      <4> HIDE DEF H, C
      <4> QED  BY <3>5, HandOne
    <3> QED  BY <1>4, <3>3, <3>6, InHandIs
  <2>4. Way(k)' = Way(k)
    <3>1. OnTheWay(e, t, r, v) = OnTheWay(e, <<>>, b, v)
      <4>1. t \in Seq(R!Bytes) /\ r \in Seq(R!Bytes)
        BY <1>3
      <4>2. OnTheWay(e, t, r, v) = OnTheWay(e, <<>>, t \o r, v)
        BY <1>2, <4>1, WayMoves
      <4> QED  BY <1>3, <4>2, Zenon
    <3> QED  BY <1>5, <1>6, <2>2, <2>3, <3>1, Zenon
  <2> QED  BY <1>4, <2>4
<1> QED  BY <1>7, <1>8

(* The only worker with bytes of k's channel: what it holds is InHand.     *)
LEMMA OnlyHand ==
  ASSUME OneHand, ~doubled, NEW k \in Clients, NEW w \in Workers, hand[w] # <<>>,
         Chan(w) = ctx[k]
  PROVE  InHand(k) = hand[w]
<1>1. \A v \in Workers : hand[v] # <<>> /\ Chans[v] = Chans[w] => v = w
  BY InHandIs DEF OneHand
<1> DEFINE H == hand
           C == Chans
<1>2. H[w] # <<>> /\ \A v \in Workers : H[v] # <<>> /\ C[v] = C[w] => v = w
  BY <1>1
<1>3. HandIn(H, C, C[w]) = H[w]
  <2> HIDE DEF H, C
  <2> QED  BY <1>2, HandOne
<1> QED  BY <1>3, InHandIs

(* And when it has given them away nobody holds any.                       *)
LEMMA EmptyHand ==
  ASSUME ServerTypeOK, UsersGoOn, OneHand, ~doubled, NEW k \in Clients, NEW w \in Workers,
         hand[w] # <<>>, Chan(w) = ctx[k], hand' = [hand EXCEPT ![w] = <<>>],
         ctx' = ctx
  PROVE  InHand(k)' = <<>>
<1>1. /\ hand'[w] = <<>>
      /\ \A v \in Workers \ {w} : hand'[v] = hand[v]
  BY DEF ServerTypeOK
<1>2. ASSUME NEW v \in Workers, hand'[v] # <<>>  PROVE Chans'[v] # ctx'[k]
  <2>1. v # w /\ hand[v] # <<>> /\ Chan(v)' = Chan(v)
    BY <1>1, <1>2 DEF UsersGoOn
  <2>2. Chan(v) # ctx[k]
    BY <2>1 DEF OneHand
  <2> QED  BY <2>1, <2>2, InHandIs
<1>3. HandIn(hand', Chans', ctx'[k]) = <<>>
  <2> DEFINE H == hand'
             C == Chans'
             c == ctx'[k]
  <2>1. \A v \in Workers : H[v] # <<>> => C[v] # c
    BY <1>2
  <2> HIDE DEF H, C, c
  <2>2. HandIn(H, C, c) = <<>>
    BY <2>1, HandNone
  <2> QED  BY <2>2 DEF H, C, c
<1> QED  BY <1>3, InHandIs

(* A worker writes to its channel's client what it has of it.              *)
LEMMA WritesWay ==
  ASSUME ServerTypeOK, UsersGoOn, OneHand, ~doubled, NEW k \in Clients,
         NEW w \in Workers, hand[w] # <<>>, Chan(w) = ctx[k], ctx[k] \in R!Channels,
         out' = [out EXCEPT ![k] = @ \o hand[w]],
         hand' = [hand EXCEPT ![w] = <<>>],
         UNCHANGED <<wire, m_Inputevbuffer, got, sent, ctx>>,
         AllOf(Way(k), k, sent[k])
  PROVE  AllOf(Way(k), k, sent[k])'
<1> DEFINE e == Echoed[k]
           h == hand[w]
           b == m_Inputevbuffer[ctx[k]]
           v == wire[k]
<1>1. /\ e \in Seq(R!Bytes) /\ b \in Seq(R!Bytes) /\ v \in Seq(R!Bytes)
      /\ h \in Seq(R!Bytes)
  <2>1. h \in Seq(R!Bytes)
    BY DEF ServerTypeOK
  <2> QED  BY <2>1, WayTyped
<1>2. InHand(k) = h /\ InHand(k)' = <<>>
  BY OnlyHand, EmptyHand
<1>3. Echoed'[k] = e \o h
  <2>1. PICK x \in Seq(R!Bytes) : x = got[k]
    BY DEF ServerTypeOK
  <2>2. PICK y \in Seq(R!Bytes) : y = out[k]
    BY DEF ServerTypeOK
  <2>3. Echoed'[k] = got'[k] \o out'[k] /\ e = got[k] \o out[k]
    BY DEF Echoed
  <2>4. got'[k] = x /\ out'[k] = out[k] \o h
    BY <2>1 DEF ServerTypeOK
  <2> HIDE DEF h, e
  <2>5. Echoed'[k] = x \o (y \o h) /\ e = x \o y
    BY <2>1, <2>2, <2>3, <2>4, Zenon
  <2>6. PICK z \in Seq(R!Bytes) : z = h
    BY <1>1
  <2>7. (x \o y) \o z = x \o (y \o z)
    BY JoinAssociative, Zenon
  <2> QED  BY <2>5, <2>6, <2>7, Zenon
<1>4. Way(k) = OnTheWay(e, h, b, v) /\ Way(k)' = OnTheWay(e \o h, <<>>, b, v)
  <2>1. Way(k) = OnTheWay(e, InHand(k), b, v)
    BY DEF Way
  <2>2. Way(k)' = OnTheWay(Echoed'[k], InHand(k)', m_Inputevbuffer'[ctx'[k]], wire'[k])
    BY DEF Way
  <2>3. m_Inputevbuffer'[ctx'[k]] = b /\ wire'[k] = v
    OBVIOUS
  <2> HIDE DEF e, h, b, v
  <2> QED  BY <1>2, <1>3, <2>1, <2>2, <2>3, Zenon
<1> HIDE DEF e, h, b, v
<1>5. OnTheWay(e \o h, <<>>, b, v) = OnTheWay(e, h, b, v)
  BY <1>1, WayMoves
<1>6. Way(k)' = Way(k)
  BY <1>4, <1>5, Zenon
<1> QED  BY <1>6

(* A worker drops bytes while their channel's client is connected only in  *)
(* the time in which OnClientConnect has not run: they are a stranger's.   *)
LEMMA DropsWay ==
  ASSUME ServerInv, UsersGoOn, OneHand, NotYetRead, Working, ~doubled,
         NEW k \in Clients, bev[k] = "open", NEW w \in Workers, Drops(w),
         hand[w] # <<>>, Chan(w) = ctx[k], AllOf(Way(k), k, sent[k])
  PROVE  AllOf(Way(k), k, sent[k])'
<1>0. ServerTypeOK /\ MainOK /\ ListsOK /\ OwnersOK
  BY DEF ServerInv
<1> DEFINE e == Echoed[k]
           h == hand[w]
           b == m_Inputevbuffer[ctx[k]]
           v == wire[k]
<1>1. IChStatus[ctx[k]] = "CLIENT_LOGOUT" /\ ctx[k] \in R!Channels
  BY DEF Drops
<1>2. at.op = "alloc" /\ at.who = k
  <2>1. ctx[k] \notin R!Elements(m_listConnectClient)
    BY <1>0, <1>1 DEF ListsOK
  <2>2. at.op \in {"alloc", "login", "removed", "cleared"} /\ at.arg = ctx[k]
    BY <1>0, <2>1 DEF ListsOK
  <2>3. at.op = "alloc"
    BY <1>0, <1>1, <2>2 DEF MainOK
  <2> QED  BY <1>0, <2>2, <2>3 DEF MainOK, OwnersOK
<1>3. /\ e \in Seq(R!Bytes) /\ b \in Seq(R!Bytes) /\ v \in Seq(R!Bytes)
      /\ h \in Seq(R!Bytes) /\ sent[k] \in Nat
  <2>1. h \in Seq(R!Bytes)
    BY <1>0 DEF ServerTypeOK
  <2> QED  BY <1>0, <1>1, <2>1, WayTyped
<1>4. \A i \in 1 .. Len(h) : h[i][1] # k
  BY <1>2 DEF NotYetRead, R!Elements
<1>5. InHand(k) = h /\ InHand(k)' = <<>>
  BY <1>0, OnlyHand, EmptyHand DEF Drops
<1>6. Way(k) = OnTheWay(e, h, b, v) /\ Way(k)' = OnTheWay(e, <<>>, b, v)
  <2>1. Way(k) = OnTheWay(e, InHand(k), b, v)
    BY DEF Way
  <2>2. Way(k)' = OnTheWay(Echoed'[k], InHand(k)', m_Inputevbuffer'[ctx'[k]], wire'[k])
    BY DEF Way
  <2>3. m_Inputevbuffer'[ctx'[k]] = b /\ wire'[k] = v /\ Echoed'[k] = e
    BY DEF Drops, Echoed
  <2> HIDE DEF e, h, b, v
  <2> QED  BY <1>5, <2>1, <2>2, <2>3, Zenon
<1> HIDE DEF e, h, b, v
<1>7. AllOf(OnTheWay(e, <<>>, b, v), k, sent[k])
  <2>1. AllOf(OnTheWay(e, h, b, v), k, sent[k])
    BY <1>6, Zenon
  <2> QED  BY <1>3, <1>4, <2>1, WayDrop
<1>8. sent'[k] = sent[k]
  BY DEF Drops
<1>9. (AllOf(Way(k), k, sent[k]))' = AllOf(OnTheWay(e, <<>>, b, v), k, sent[k])
  BY <1>6, <1>8
<1> QED  BY <1>7, <1>9

(* The client that was connected before the step.                          *)
LEMMA OldWay ==
  ASSUME ServerInv, BytesMove, OneHand, NotYetRead, Working, ~doubled', ~doubled,
         NEW k \in Clients, bev[k] = "open", bev'[k] = "open", AllOf(Way(k), k, sent[k])
  PROVE  AllOf(Way(k), k, sent[k])'
<1>0. ServerTypeOK /\ OwnersOK /\ UsersGoOn
  BY DEF ServerInv, BytesMove
<1>1. ctx'[k] = ctx[k] /\ ctx[k] \in R!Channels
  BY <1>0 DEF UsersGoOn, OwnersOK
<1> DEFINE Same == /\ sent'[k] = sent[k] /\ Echoed'[k] = Echoed[k] /\ wire'[k] = wire[k]
                   /\ m_Inputevbuffer'[ctx[k]] = m_Inputevbuffer[ctx[k]]
                   /\ \A w \in Workers : hand'[w] = hand[w] \/ Chan(w) # ctx[k]
<1>2. Same => AllOf(Way(k), k, sent[k])'
  BY <1>0, <1>1, SameWay
<1>3. CASE Still
  <2>1. Same
    BY <1>3 DEF Still, Echoed
  <2> QED  BY <1>2, <2>1
<1>4. ASSUME NEW j \in Clients, Reads(j)  PROVE AllOf(Way(k), k, sent[k])'
  <2>1. CASE j = k
    BY <1>0, <1>4, <2>1, ReadsWay
  <2>2. CASE j # k
    <3>1. ctx[j] # ctx[k]
      BY <1>0, <1>4, <2>2 DEF Reads, OwnersOK
    <3>2. /\ wire'[k] = wire[k] /\ m_Inputevbuffer'[ctx[k]] = m_Inputevbuffer[ctx[k]]
      BY <1>0, <1>1, <1>4, <2>2, <3>1 DEF Reads, ServerTypeOK
    <3>3. Echoed'[k] = Echoed[k] /\ hand' = hand /\ sent' = sent
      BY <1>4 DEF Reads, Echoed
    <3>4. Same
      BY <3>2, <3>3
    <3> QED  BY <1>2, <3>4
  <2> QED  BY <2>1, <2>2
<1>5. ASSUME NEW j \in Clients, Flushes(j)  PROVE AllOf(Way(k), k, sent[k])'
  <2>1. Echoed'[k] = Echoed[k]
    <3>1. CASE j = k
      <4>1. PICK g \in Seq(R!Bytes) : g = got[k]
        BY <1>0 DEF ServerTypeOK
      <4>2. PICK o \in Seq(R!Bytes) : o = out[k]
        BY <1>0 DEF ServerTypeOK
      <4>3. got'[k] = g \o o /\ out'[k] = <<>>
        BY <1>0, <1>5, <3>1, <4>1, <4>2 DEF Flushes, ServerTypeOK
      <4>4. Echoed[k] = g \o o /\ Echoed'[k] = got'[k] \o out'[k]
        BY <4>1, <4>2 DEF Echoed
      <4>5. PICK t \in Seq(R!Bytes) : t = g \o o
        BY ConcatProperties
      <4>6. t \o <<>> = t
        BY ConcatEmptySeq
      <4> QED  BY <4>3, <4>4, <4>5, <4>6, Zenon
    <3>2. CASE j # k
      BY <1>0, <1>5, <3>2 DEF Flushes, Echoed, ServerTypeOK
    <3> QED  BY <3>1, <3>2
  <2>2. UNCHANGED <<sent, wire, m_Inputevbuffer, hand>>
    BY <1>5 DEF Flushes
  <2>3. Same
    BY <2>1, <2>2
  <2> QED  BY <1>2, <2>3
<1>6. ASSUME NEW j \in Clients, Sends(j)  PROVE AllOf(Way(k), k, sent[k])'
  <2>1. CASE j = k
    BY <1>0, <1>1, <1>6, <2>1, SendsWay
  <2>2. CASE j # k
    <3>1. sent'[k] = sent[k] /\ wire'[k] = wire[k]
      BY <1>0, <1>6, <2>2 DEF Sends, ServerTypeOK
    <3>2. Echoed'[k] = Echoed[k] /\ hand' = hand /\ m_Inputevbuffer' = m_Inputevbuffer
      BY <1>6 DEF Sends, Echoed
    <3>3. Same
      BY <3>1, <3>2
    <3> QED  BY <1>2, <3>3
  <2> QED  BY <2>1, <2>2
<1>7. ASSUME NEW j \in Clients, Clears(j)  PROVE AllOf(Way(k), k, sent[k])'
  <2>1. j # k
    BY <1>0, <1>7 DEF Clears, ServerTypeOK
  <2>2. out'[k] = out[k] /\ wire'[k] = wire[k]
    BY <1>0, <1>7, <2>1 DEF Clears, ServerTypeOK
  <2>3. got' = got /\ hand' = hand /\ m_Inputevbuffer' = m_Inputevbuffer /\ sent' = sent
    BY <1>7 DEF Clears
  <2>4. Echoed'[k] = Echoed[k]
    BY <2>2, <2>3 DEF Echoed
  <2>5. Same
    BY <2>2, <2>3, <2>4
  <2> QED  BY <1>2, <2>5
<1>8. ASSUME NEW w \in Workers, Takes(w)  PROVE AllOf(Way(k), k, sent[k])'
  <2>1. CASE ctx[k] = Chan(w)
    BY <1>0, <1>8, <2>1, TakesWay
  <2>2. CASE ctx[k] # Chan(w)
    <3>1. /\ m_Inputevbuffer'[ctx[k]] = m_Inputevbuffer[ctx[k]]
          /\ \A v \in Workers : hand'[v] = hand[v] \/ Chan(v) # ctx[k]
      BY <1>0, <1>1, <1>8, <2>2 DEF Takes, ServerTypeOK
    <3>2. Echoed'[k] = Echoed[k] /\ wire' = wire /\ sent' = sent
      BY <1>8 DEF Takes, Echoed
    <3>3. Same
      BY <3>1, <3>2
    <3> QED  BY <1>2, <3>3
  <2> QED  BY <2>1, <2>2
<1>9. ASSUME NEW w \in Workers, Drops(w)  PROVE AllOf(Way(k), k, sent[k])'
  <2>1. CASE hand[w] # <<>> /\ Chan(w) = ctx[k]
    BY <1>0, <1>9, <2>1, DropsWay
  <2>2. CASE hand[w] = <<>> \/ Chan(w) # ctx[k]
    <3>1. \A v \in Workers : hand'[v] = hand[v] \/ Chan(v) # ctx[k]
      BY <1>0, <1>9, <2>2 DEF Drops, ServerTypeOK
    <3>2. Echoed'[k] = Echoed[k] /\ UNCHANGED <<wire, sent, m_Inputevbuffer>>
      BY <1>9 DEF Drops, Echoed
    <3>3. Same
      BY <3>1, <3>2
    <3> QED  BY <1>2, <3>3
  <2> QED  BY <2>1, <2>2
<1>10. ASSUME NEW w \in Workers, Writes(w)  PROVE AllOf(Way(k), k, sent[k])'
  <2>1. PICK j \in Clients :
          /\ bev[j] = "open" /\ ctx[j] = Chan(w)
          /\ out' = [out EXCEPT ![j] = @ \o hand[w]]
          /\ hand' = [hand EXCEPT ![w] = <<>>]
          /\ UNCHANGED <<wire, m_Inputevbuffer, got, sent, bev, ctx>>
    BY <1>10 DEF Writes
  <2>2. CASE j = k /\ hand[w] # <<>>
    BY <1>0, <1>1, <2>1, <2>2, WritesWay
  <2>3. CASE j # k \/ hand[w] = <<>>
    <3>1. \A v \in Workers : hand'[v] = hand[v] \/ Chan(v) # ctx[k]
      BY <1>0, <2>1, <2>3 DEF OwnersOK, ServerTypeOK
    <3>2. out'[k] = out[k]
      <4>1. CASE j # k
        BY <1>0, <2>1, <4>1 DEF ServerTypeOK
      <4>2. CASE j = k /\ hand[w] = <<>>
        <5>1. PICK o \in Seq(R!Bytes) : o = out[k]
          BY <1>0 DEF ServerTypeOK
        <5>2. out'[k] = out[k] \o hand[w]
          BY <1>0, <2>1, <4>2 DEF ServerTypeOK
        <5>3. o \o <<>> = o
          BY ConcatEmptySeq
        <5> QED  BY <4>2, <5>1, <5>2, <5>3, Zenon
      <4> QED  BY <2>3, <4>1, <4>2
    <3>3. Echoed'[k] = Echoed[k]
      <4>1. got'[k] = got[k]
        BY <2>1
      <4> QED  BY <3>2, <4>1 DEF Echoed
    <3>4. Same
      BY <2>1, <3>1, <3>3
    <3> QED  BY <1>2, <3>4
  <2> QED  BY <2>2, <2>3
<1> HIDE DEF Same
<1> QED
  BY <1>3, <1>4, <1>5, <1>6, <1>7, <1>8, <1>9, <1>10 DEF BytesMove

LEMMA OrderStep ==
  ASSUME ServerInv, ServerInv', BytesOK, OrderInv, BytesMove
  PROVE  OrderInv'
<1>1. OneHand' /\ NewClient' /\ NotYetRead'
  BY OneHandStep, NewClientStep, NotYetReadStep DEF OrderInv
<1>2. InOrder'
  <2> SUFFICES ASSUME Working', ~doubled', NEW k \in Clients, bev'[k] = "open"
               PROVE  AllOf(Way(k), k, sent[k])'
    BY DEF InOrder
  <2>1. Working /\ ~doubled
    BY DEF BytesMove, UsersGoOn
  <2>2. CASE bev[k] = "open"
    <3>1. AllOf(Way(k), k, sent[k])
      BY <2>1, <2>2 DEF OrderInv, InOrder
    <3> QED  BY <2>1, <2>2, <3>1, OldWay DEF OrderInv
  <2>3. CASE bev[k] # "open"
    <3>1. bev[k] = "none" /\ Still
      BY <2>3 DEF BytesMove, UsersGoOn
    <3> QED  BY <3>1, NewWay DEF OrderInv
  <2> QED  BY <2>2, <2>3
<1> QED  BY <1>1, <1>2 DEF OrderInv

LEMMA InitOrder == Init => OrderInv
<1> SUFFICES ASSUME Init  PROVE OrderInv
  OBVIOUS
<1>1. /\ at.op = "loop" /\ \A w \in Workers : hand[w] = <<>>
      /\ \A k \in Clients : /\ bev[k] = "none" /\ sent[k] = 0 /\ wire[k] = <<>>
                            /\ got[k] = <<>> /\ out[k] = <<>>
  BY DEF Init, R!Init, R!AtLoop, R!Place
<1> QED  BY <1>1 DEF OrderInv, OneHand, NewClient, NotYetRead, InOrder

(* While a client is connected its bytes come back in order, none lost and *)
(* none twice, for every number of workers, as long as no two of them had  *)
(* bytes of one channel at a time, and until there was a data race, be it  *)
(* on a buffer or by a worker's bufferevent_write on the event base.       *)
THEOREM ServerEchoesInOrder == Spec => []OrderUnlessDoubled
<1>1. ServerInv /\ OrderInv => OrderUnlessDoubled
  <2> SUFFICES ASSUME OrderInv, Working, ~doubled, NEW k \in Clients, bev[k] = "open"
               PROVE  R!EndsWithAllOf(got[k] \o out[k] \o InHand(k)
                                        \o m_Inputevbuffer[ctx[k]] \o wire[k], k)
    BY DEF OrderUnlessDoubled, Working
  <2>1. AllOf(Way(k), k, sent[k])
    BY DEF OrderInv, InOrder
  <2>2. Way(k) = got[k] \o out[k] \o InHand(k) \o m_Inputevbuffer[ctx[k]] \o wire[k]
    BY Zenon DEF Way, OnTheWay, Cat, Echoed
  <2> DEFINE s == got[k] \o out[k] \o InHand(k) \o m_Inputevbuffer[ctx[k]] \o wire[k]
  <2>3. AllOf(s, k, sent[k])
    BY <2>1, <2>2, Zenon
  <2> HIDE DEF s
  <2>4. R!EndsWithAllOf(s, k)
    BY <2>3 DEF AllOf, R!EndsWithAllOf
  <2> QED  BY <2>4, Zenon DEF s
<1>2. ServerInv /\ BytesOK /\ OrderInv /\ [Next]_vars
        => ServerInv' /\ BytesOK' /\ OrderInv'
  BY ServerStep, StepMovesBytes, MoveFlows, FlowKeeps, OrderStep
<1> QED  BY InitServer, InitBytes, InitOrder, <1>1, <1>2, PTL DEF Spec

=============================================================================
