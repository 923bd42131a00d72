-------------------------- MODULE SyPthreadChannel --------------------------
(***************************************************************************)
(* The server built with SYINX_USE_PTHREAD: a channel's bytes are handled  *)
(* by the workers of the pool.  The composition of SyResAdapter, whose     *)
(* thread is the event loop, and SyPthreadPool, whose only producer is     *)
(* that thread; what the macro changes is OnStatusDoAction, which queues   *)
(* a task instead of handling, and with it Clear.                          *)
(*                                                                         *)
(* evbuffer_enable_locking(m_Inputevbuffer, NULL) gets no lock: on Linux   *)
(* no lock functions are ever installed, on Windows only after Initialize  *)
(* made the channels.  evbuffer_lock and evbuffer_unlock do nothing, so    *)
(* the task that finds nothing and returns early keeps no lock, and        *)
(* nothing orders a worker's access to a buffer with the loop's.  Nor does *)
(* the event base have a lock, it is made with EVENT_BASE_FLAG_NOLOCK, and *)
(* bufferevent_write may add the write event to it.  A worker is inside    *)
(* evbuffer_remove or bufferevent_write for a while; an access of another  *)
(* thread in that time to the same buffer, or from bufferevent_write to    *)
(* the base, whoever the clients are, is a data race, as is one to a       *)
(* channel that was deleted: from there on nothing is said of the program. *)
(* In the callbacks and in writev libevent is done with the base for the   *)
(* while, as it would there have given up the lock that it does not have.  *)
(***************************************************************************)
EXTENDS Integers, Sequences, FiniteSets

CONSTANTS
  ConnectNum, Clients, NoClient, BUFFSIZE, MaxSend,  \* as in SyResAdapter
  Workers, Main, QueueSize, MaxTasks, NoThread,      \* as in SyPthreadPool
  MaxBytes  \* bound on the number of bytes all clients send

(* What SyResAdapter and SyPthreadPool assume of theirs.                   *)
ASSUME ServerAssumption ==
  /\ ConnectNum \in Nat
  /\ NoClient \notin Clients
  /\ BUFFSIZE \in Nat \ {0}
  /\ MaxSend \in Nat
  /\ IsFiniteSet(Workers)
  /\ Main \notin Workers
  /\ NoThread \notin Workers \cup {Main}
  /\ QueueSize \in Nat
  /\ MaxTasks \in Nat

VARIABLES
  \* the channels and the clients, as in SyResAdapter
  m_nWorkStatus, at, m_queueILoop, m_listConnectClient, deleted, IChStatus,
  m_buffer, m_Inputevbuffer, logins, logouts, bev, ctx, peer, wire, out, sent,
  got,
  \* the pool, as in SyPthreadPool
  lock, Taskqueue, count, HeadIndex, TailIndex, PthpoolClose, started,
  PthreadStatus, freed, wpc, PthTask, ppc, accepted, done,
  \* the tasks
  arg,          \* the channel of each accepted task
  phase,        \* where each worker is in PthreadFuncHandle
  hand,         \* strData of each worker
  undefined,    \* a data race or a use of freed memory has happened
  doubled,      \* history: two workers had bytes of one channel at a time
  interrupted   \* history: the signal came while Main held Pthlock

R == INSTANCE SyResAdapter
P == INSTANCE SyPthreadPool WITH Producers <- {Main}

resVars     == <<m_queueILoop, m_listConnectClient, deleted>>
channelVars == <<IChStatus, m_buffer, m_Inputevbuffer, logins, logouts>>
clientVars  == <<bev, ctx, peer, wire, out, sent, got>>
resAll      == <<m_nWorkStatus, at, resVars, channelVars, clientVars>>
ring        == <<Taskqueue, count, HeadIndex, TailIndex>>
poolAll     == <<lock, ring, PthpoolClose, started, PthreadStatus, freed, wpc,
                 PthTask, ppc, accepted, done>>
taskVars == <<arg, phase, hand>>
history  == <<doubled, interrupted>>
vars == <<resAll, poolAll, taskVars, undefined, history>>

(* In PthreadFuncHandle a worker is at its beginning, in evbuffer_remove,  *)
(* past it with bytes in strData, or in bufferevent_write.                 *)
Phases == {"begin", "remove", "parse", "write"}

Init ==
  /\ R!Init
  /\ P!Init
  /\ arg = <<>>
  /\ phase = [w \in Workers |-> "begin"]
  /\ hand = [w \in Workers |-> <<>>]
  /\ undefined = FALSE
  /\ doubled = FALSE
  /\ interrupted = FALSE

Alive == ~undefined /\ m_nWorkStatus # "exit"

(* The channel of the task a worker runs.                                  *)
Chan(w) == arg[PthTask[w]]

In(ph, c) == {w \in Workers : wpc[w] = "run" /\ phase[w] = ph /\ Chan(w) = c}

(* The workers in bufferevent_write: whatever libevent does with the base  *)
(* meanwhile, in the loop or for another worker, is a race.                *)
Writers == {w \in Workers : wpc[w] = "run" /\ phase[w] = "write"}

-----------------------------------------------------------------------------
(* The event loop's thread.                                                *)

(* Main runs the loop: it is not inside AddTaskFunc or Close.              *)
MainFree == Alive /\ ppc[Main] = "idle"
KeepTasks == UNCHANGED <<poolAll, taskVars, undefined, history>>

(* The bound: no handler that may queue tasks starts without room for      *)
(* them, so that the bound never stops a handler half-way.                 *)
Budget(n) == accepted + n <= MaxTasks

Race == /\ undefined' = TRUE
        /\ UNCHANGED <<resAll, poolAll, taskVars, history>>

(* event_base_loop, whatever is ready, and the return from writev into it, *)
(* while a worker is in bufferevent_write.                                 *)
LoopRaces ==
  /\ MainFree /\ Writers # {}
  /\ R!Looping \/ R!Running("writev")
  /\ Race

SyinxKernel_Recv_Cb(k) ==
  /\ MainFree /\ Writers = {}
  /\ IF In("remove", ctx[k]) # {}
     THEN R!Looping /\ bev[k] = "open" /\ wire[k] # <<>> /\ Race
     ELSE R!SyinxKernel_Recv_Cb(k) /\ KeepTasks

Flush(k) ==
  /\ MainFree /\ Writers = {} /\ KeepTasks
  /\ R!Writev(k) \/ R!Flush(k)

(* The channel OnStatusDoAction is called for: the frame's next, the one   *)
(* SocketFdDel clears, or the one Close clears.                            *)
Handled == CASE at.op = "frame"   -> m_listConnectClient[at.arg]
             [] at.op = "removed" -> at.arg
             [] at.op = "close"   -> Head(m_queueILoop)

(* Where Main goes on when OnStatusDoAction has returned.                  *)
Onward ==
  CASE at.op = "frame" /\ at.arg < Len(m_listConnectClient)
                            -> [at EXCEPT !.arg = @ + 1]
    [] at.op = "frame" /\ at.arg = Len(m_listConnectClient) -> R!AtLoop
    [] at.op = "removed" -> [at EXCEPT !.op = "cleared"]
    [] at.op = "close"   -> [at EXCEPT !.op = "closed"]

AboutToHandle == \/ at.op \in {"frame", "removed"}
                 \/ at.op = "close" /\ m_queueILoop # <<>>

UnchangedButAt ==
  UNCHANGED <<m_nWorkStatus, resVars, channelVars, clientVars>>

(* OnStatusDoAction asks evbuffer_get_length while a worker is in          *)
(* evbuffer_remove of the same buffer.                                     *)
LengthRaces ==
  /\ MainFree /\ AboutToHandle /\ In("remove", Handled) # {}
  /\ Race

(* OnStatusDoAction with an empty buffer.                                  *)
NothingToHandle ==
  /\ MainFree /\ AboutToHandle /\ In("remove", Handled) = {}
  /\ m_Inputevbuffer[Handled] = <<>>
  /\ at' = Onward
  /\ UnchangedButAt /\ KeepTasks

(* OnStatusDoAction: the call of AddTaskFunc, whose result is not used,    *)
(* and its return.                                                         *)
OnStatusDoAction ==
  /\ MainFree /\ AboutToHandle /\ In("remove", Handled) = {}
  /\ m_Inputevbuffer[Handled] # <<>>
  /\ P!AddTaskFunc(Main)
  /\ UNCHANGED <<resAll, taskVars, undefined, history>>

AddTaskReturns ==
  /\ Alive
  /\ \/ P!AddTask(Main) /\ arg' = Append(arg, Handled)
     \/ P!AddQueueIsMax(Main) /\ UNCHANGED arg
  /\ at' = Onward
  /\ UnchangedButAt
  /\ UNCHANGED <<phase, hand, undefined, history>>

(* The rest of Clear: log the channel out and free its bufferevent.        *)
Clear ==
  LET c == at.arg
      k == m_buffer[c]
  IN  /\ MainFree /\ at.op = "cleared"
      /\ IF Writers # {} THEN Race ELSE
           /\ IChStatus' = [IChStatus EXCEPT ![c] = "CLIENT_LOGOUT"]
           /\ bev' = [bev EXCEPT ![k] = R!Freed(k)]
           /\ out' = [out EXCEPT ![k] = <<>>] /\ wire' = [wire EXCEPT ![k] = <<>>]
           /\ at' = [at EXCEPT !.op = "freed"]
           /\ UNCHANGED <<m_nWorkStatus, resVars, m_buffer, m_Inputevbuffer,
                          logins, logouts, ctx, peer, sent, got>>
           /\ KeepTasks

(* Mutated: the handler gives up the mutex it finds locked. *)
SIG_HANDLE_Unlocks ==
  /\ Alive /\ ppc[Main] \in {"idle", "addlock", "add"}
  /\ Budget(ConnectNum)
  /\ m_nWorkStatus = "SYINX_LINK_WORK"
  /\ m_nWorkStatus' = "SYINX_LINK_CLOSE"
  /\ m_queueILoop' = m_queueILoop \o m_listConnectClient
  /\ at' = [R!AtLoop EXCEPT !.op = "close"]
  /\ ppc' = [ppc EXCEPT ![Main] = "idle"]
  /\ lock' = IF lock = Main THEN NoThread ELSE lock
  /\ UNCHANGED <<m_listConnectClient, deleted, channelVars, clientVars, ring,
                 PthpoolClose, started, PthreadStatus, freed, wpc, PthTask,
                 accepted, done, taskVars, undefined, history>>

(* SIG_HANDLE on Main, also inside AddTaskFunc, which is never resumed:    *)
(* Pthlock stays locked if it was, and Close's own calls will want it.     *)
SIG_HANDLE ==
  /\ Alive /\ ppc[Main] \in {"idle", "addlock", "add"}
  /\ Budget(ConnectNum)
  /\ m_nWorkStatus = "SYINX_LINK_WORK"
  /\ m_nWorkStatus' = "SYINX_LINK_CLOSE"
  /\ m_queueILoop' = m_queueILoop \o m_listConnectClient
  /\ at' = [R!AtLoop EXCEPT !.op = "close"]
  /\ IF ppc[Main] = "idle"
     THEN UNCHANGED ppc ELSE ppc' = [ppc EXCEPT ![Main] = "idle"]
  /\ interrupted' = (ppc[Main] = "add")
  /\ UNCHANGED <<m_listConnectClient, deleted, channelVars, clientVars,
                 lock, ring, PthpoolClose, started, PthreadStatus, freed, wpc,
                 PthTask, accepted, done, taskVars, undefined, doubled>>

(* SyinxAdapterResource::Close, after Clear's OnStatusDoAction: the rest   *)
(* of Clear, IChannel::Close and the delete.  If there is a bufferevent to *)
(* free, that changes the base.                                            *)
CloseChannel ==
  LET c == Head(m_queueILoop)
      k == m_buffer[c]
  IN  /\ MainFree /\ at.op = "closed"
      /\ IF \/ In("remove", c) \cup In("write", c) # {}
            \/ k # NoClient /\ Writers # {}
         THEN Race ELSE
           /\ m_queueILoop' = Tail(m_queueILoop)
           /\ IChStatus' = [IChStatus EXCEPT ![c] = "CLIENT_LOGOUT"]
           /\ m_buffer' = [m_buffer EXCEPT ![c] = NoClient]
           /\ bev' = IF k = NoClient THEN bev ELSE [bev EXCEPT ![k] = R!Freed(k)]
           /\ deleted' = deleted \cup {c}
           /\ at' = [at EXCEPT !.op = "close"]
           /\ UNCHANGED <<m_nWorkStatus, m_listConnectClient, m_Inputevbuffer,
                          logins, logouts, ctx, peer, wire, out, sent, got>>
           /\ KeepTasks

(* event_base_free, while a worker is in bufferevent_write, to the client  *)
(* of a channel that Close did not reach.                                  *)
FreeRaces ==
  /\ MainFree /\ at.op = "close" /\ m_queueILoop = <<>> /\ Writers # {}
  /\ Race

(* The rest of SyinxKernel::Close: event_base_free, g_SyinxPthPool.Close   *)
(* and exit(0).                                                            *)
PoolClose ==
  /\ MainFree /\ at.op = "close" /\ m_queueILoop = <<>> /\ Writers = {}
  /\ P!Close
  /\ UNCHANGED <<resAll, taskVars, undefined, history>>

Exit ==
  /\ Alive /\ ppc[Main] = "closed"
  /\ m_nWorkStatus' = "exit"
  /\ UNCHANGED <<at, resVars, channelVars, clientVars>> /\ KeepTasks

(* Main inside the pool, up to where AddTaskFunc returns.                  *)
OnlyThePool == Alive /\ UNCHANGED <<resAll, taskVars, undefined, history>>
MainLocks == (P!AddLock(Main) \/ P!CloseLock(Main)) /\ OnlyThePool
MainInPool ==
  /\ \/ P!InitializeReturns \/ P!CloseBroadcast(Main)
     \/ P!SyPthreadPool_free(Main)
  /\ OnlyThePool
CreateFails == P!CreateFails /\ OnlyThePool

-----------------------------------------------------------------------------
(* The workers.                                                            *)

CreateThread(w) == P!CreateThread(w) /\ OnlyThePool
WorkerLocks(w) == P!WorkerLock(w) /\ OnlyThePool
WorkerScans(w) ==
  /\ P!WorkerWait(w) \/ P!WorkerContinue(w) \/ P!WorkerTake(w)
  /\ OnlyThePool
WorkerMay(w) == (P!SpuriousWakeup(w) \/ P!WorkerUsesFreed(w)) /\ OnlyThePool

InTask(w, ph) == Alive /\ wpc[w] = "run" /\ phase[w] = ph

(* PthreadFuncHandle enters evbuffer_remove.                               *)
TaskBegins(w) ==
  /\ InTask(w, "begin")
  /\ IF Chan(w) \in deleted \/ In("remove", Chan(w)) # {} THEN Race ELSE
       /\ phase' = [phase EXCEPT ![w] = "remove"]
       /\ UNCHANGED <<resAll, poolAll, arg, hand, undefined, history>>

(* Mutated: the bytes are copied out and not removed. *)
TaskRemoves_Copies(w) ==
  LET c == Chan(w)
  IN  /\ InTask(w, "remove") /\ R!Taken(c) # <<>>
      /\ hand' = [hand EXCEPT ![w] = R!Taken(c)]
      /\ phase' = [phase EXCEPT ![w] = "parse"]
      /\ UNCHANGED <<resAll, poolAll, arg, undefined, history>>

(* evbuffer_remove: at most BUFFSIZE bytes, or none and the early return.  *)
TaskRemoves(w) ==
  LET c == Chan(w)
  IN  /\ InTask(w, "remove")
      /\ hand' = [hand EXCEPT ![w] = R!Taken(c)]
      /\ m_Inputevbuffer' = [m_Inputevbuffer EXCEPT ![c] = R!Rest(c)]
      /\ IF R!Taken(c) = <<>>
         THEN /\ phase' = [phase EXCEPT ![w] = "begin"]
              /\ P!WorkerRun(w)
              /\ UNCHANGED doubled
         ELSE /\ phase' = [phase EXCEPT ![w] = "parse"]
              /\ doubled' = (doubled \/ In("parse", c) \cup In("write", c) # {})
              /\ UNCHANGED poolAll
      /\ UNCHANGED <<m_nWorkStatus, at, resVars, IChStatus, m_buffer, logins,
                     logouts, clientVars, arg, undefined, interrupted>>

(* strData is gone and the task's function returns.                        *)
TaskReturns(w) ==
  /\ P!WorkerRun(w)
  /\ phase' = [phase EXCEPT ![w] = "begin"]
  /\ hand' = [hand EXCEPT ![w] = <<>>]

(* SendDataToClient: the bytes are dropped unless the channel, whoever has *)
(* it by now, is logged in.  Two workers in bufferevent_write may both     *)
(* change the base; the loop may be writing from the same bufferevent; and *)
(* Close may have freed the base.                                          *)
TaskSends(w) ==
  LET c == Chan(w)
  IN  /\ InTask(w, "parse")
      /\ CASE c \in deleted -> Race
           [] c \notin deleted /\ IChStatus[c] = "CLIENT_LOGIN" ->
                IF \/ Writers # {} \/ P!Closing
                   \/ at.op = "writev" /\ at.who = m_buffer[c]
                THEN Race ELSE
                  /\ phase' = [phase EXCEPT ![w] = "write"]
                  /\ UNCHANGED <<resAll, poolAll, arg, hand, undefined, history>>
           [] OTHER -> TaskReturns(w) /\ UNCHANGED <<resAll, arg, undefined, history>>

(* bufferevent_write, to the client the channel has; it is the same until  *)
(* the write is done, for freeing its bufferevent meanwhile is a race.     *)
TaskWrites(w) ==
  LET k == m_buffer[Chan(w)]
  IN  /\ InTask(w, "write")
      /\ out' = [out EXCEPT ![k] = @ \o hand[w]]
      /\ TaskReturns(w)
      /\ UNCHANGED <<m_nWorkStatus, at, resVars, channelVars, bev, ctx, peer,
                     wire, sent, got, arg, undefined, history>>

TaskStep(w) == TaskBegins(w) \/ TaskRemoves(w) \/ TaskSends(w) \/ TaskWrites(w)

Sent == {b \in R!Bytes : b[2] <= sent[b[1]]}

(* The clients; MaxBytes bounds what they send together.                   *)
ClientStep(k) ==
  /\ Alive
  /\ \/ R!Send(k) /\ Cardinality(Sent) < MaxBytes
     \/ R!Leave(k)
  /\ KeepTasks

-----------------------------------------------------------------------------
(* What Main does once it has begun to handle something.                   *)
MainGoesOn ==
  \/ /\ MainFree /\ KeepTasks
     /\ \/ R!OnClientConnect \/ R!SocketFdAdd
        \/ R!Logout \/ R!SocketFdDel
  \/ LengthRaces \/ NothingToHandle \/ OnStatusDoAction \/ AddTaskReturns \/ Clear
  \/ CloseChannel \/ FreeRaces \/ PoolClose \/ Exit \/ MainInPool

LoopStep ==
  /\ MainFree /\ KeepTasks
  /\ \/ /\ Writers = {}
        /\ \/ \E k \in Clients : R!Refuse(k) \/ R!AllocationIChannel(k)
           \/ Budget(1 + ConnectNum) /\ \E k \in Clients : R!SyinxKernel_Event_Cb(k)
     \/ Budget(Len(m_listConnectClient) + ConnectNum) /\ R!GameServerDoAction

Next ==
  \/ LoopStep \/ LoopRaces \/ \E k \in Clients : SyinxKernel_Recv_Cb(k) \/ Flush(k)
  \/ MainGoesOn \/ MainLocks \/ CreateFails \/ SIG_HANDLE
  \/ \E w \in Workers : \/ CreateThread(w) \/ WorkerLocks(w)
                        \/ WorkerScans(w) \/ WorkerMay(w) \/ TaskStep(w)
  \/ \E k \in Clients : ClientStep(k)

Spec == Init /\ [][Next]_vars

-----------------------------------------------------------------------------
(* Properties.                                                             *)

(* Every variable has its type.                                            *)
TypeOK ==
  /\ P!TypeOK
  /\ m_nWorkStatus \in {"SYINX_LINK_WORK", "SYINX_LINK_CLOSE", "exit"}
  /\ at.op \in {"loop", "writev", "alloc", "login", "frame", "removed",
               "cleared", "freed", "logout", "close", "closed"}
  /\ arg \in Seq(R!Channels) /\ Len(arg) = accepted
  /\ phase \in [Workers -> Phases]
  /\ \A w \in Workers : (hand[w] # <<>>) <=> (phase[w] \in {"parse", "write"})
  /\ {undefined, doubled, interrupted} \subseteq BOOLEAN

(* The server uses its pool as SyPthreadPool says pools are used, with the *)
(* one exception of a signal that finds Main in AddTaskFunc; so what is    *)
(* proved of the pool holds here until then.                               *)
SignalInAddTask ==
  /\ m_nWorkStatus = "SYINX_LINK_WORK" /\ m_nWorkStatus' = "SYINX_LINK_CLOSE"
  /\ ppc[Main] \in {"addlock", "add"} /\ ppc' = [ppc EXCEPT ![Main] = "idle"]
  /\ UNCHANGED <<lock, ring, PthpoolClose, started, PthreadStatus, freed, wpc,
                 PthTask, accepted, done>>
UsesPool == P!Init /\ [][P!Next \/ SignalInAddTask]_poolAll

(* Pthlock is kept for ever only by the full ring, or by Close when the    *)
(* signal came while AddTaskFunc had it: Close then waits for itself.      *)
JamExplained == P!Jammed => count = QueueSize \/ interrupted

(* What a worker holds of client k's channel.                              *)
InHand(k) ==
  LET ws == {w \in Workers : hand[w] # <<>> /\ Chan(w) = ctx[k]}
  IN  IF ws = {} THEN <<>> ELSE hand[CHOOSE w \in ws : TRUE]

(* While a client is connected its bytes come back in order, none lost and *)
(* none twice, however its channel's tasks are spread over the workers,    *)
(* unless two workers had bytes of the channel at one time.                *)
OrderUnlessDoubled ==
  m_nWorkStatus = "SYINX_LINK_WORK" /\ ~undefined /\ ~doubled =>
    \A k \in Clients : bev[k] = "open" =>
      R!EndsWithAllOf(got[k] \o out[k] \o InHand(k)
                        \o m_Inputevbuffer[ctx[k]] \o wire[k], k)

(* All places where bytes are.                                             *)
Holders == ({"peer", "wire"} \X Clients) \cup ({"buffer"} \X R!Channels)
             \cup ({"hand"} \X Workers)
Held(h) == CASE h[1] = "peer"   -> got[h[2]] \o out[h[2]]
             [] h[1] = "wire"   -> wire[h[2]]
             [] h[1] = "buffer" -> m_Inputevbuffer[h[2]]
             [] h[1] = "hand"   -> hand[h[2]]

(* However the tasks are spread, each byte is in one place at most: no two *)
(* workers take the same byte, and no client is sent it twice.             *)
HeldOnce ==
  TypeOK /\ (~undefined =>
    \A g, h \in Holders :
      \A i \in 1 .. Len(Held(g)) : \A j \in 1 .. Len(Held(h)) :
        Held(g)[i] = Held(h)[j] => g = h /\ i = j)

(* A client is sent another's bytes only after that other one has left     *)
(* with bytes that no task had handled.                                    *)
StrangerHasLeft ==
  \A k, j \in Clients :
    k # j /\ (\E b \in R!Elements(got[k] \o out[k]) : b[1] = j)
      => bev[j] = "freed"
=============================================================================
