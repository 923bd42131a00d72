---------------------------- MODULE SyinxKernel -----------------------------
(***************************************************************************)
(* The life of the server process: SyinxKernel of Syinx.cpp from main to   *)
(* exit, its two server modes, the connection SConnect makes to another    *)
(* server, and the release of what it owns in SyinxKernel::Close, which    *)
(* main calls and which SIG_HANDLE calls on the same thread between any    *)
(* two of its statements.                                                  *)
(*                                                                         *)
(* The resource manager, the event base and the HTTP server are owned      *)
(* through pointers that Close tests and nulls; each is an object that is  *)
(* live, freed, or freed twice.  What runs inside the event loop is in     *)
(* SyResAdapter, what Close does to the workers in SyPthreadPool.          *)
(***************************************************************************)
EXTENDS Integers

CONSTANTS
  Ports,       \* what Config.ini may hold for Port,
  ThreadNums,  \* for SetThreadNum,
  Models       \* and for SetModel

ASSUME KernelAssumption ==
  /\ Ports \subseteq Int
  /\ ThreadNums \subseteq Int

VARIABLES
  ini,            \* Config.ini as it was read
  at,             \* where the thread is
  m_nWorkStatus,  \* SYINX_LINK_CLOSE or SYINX_LINK_WORK
  m_Port,         \* a short
  obj,            \* the state of each object the kernel owns
  ptr,            \* the kernel's pointer to it: null or set
  mSyinxListen,   \* the listener, or mBoundSket: null or bound
  PthPool,        \* the thread pool: null, live, freed
  con,            \* the state of the one SConnect object
  m_AllConnect,   \* the tags of the SConnect objects in the list
  misused,        \* history: the freed or null things that were used
  interrupted     \* history: where a signal found the thread half way

vars == <<ini, interrupted, at, m_nWorkStatus, m_Port, obj, ptr, mSyinxListen,
          PthPool, con, m_AllConnect, misused>>

(* The tag of the one connection the kernel makes.                         *)
Tag == "test"

(* mSyResource, mSyinxBase and mEvHttp.                                    *)
Owned == {"resource", "base", "http"}

(* The values of a short, and the ports of TCP.                            *)
Shorts      == {n \in Int : n >= -32768 /\ n < 32768}
PortNumbers == {n \in Nat : n < 65536}

(* A conversion to short.                                                  *)
Short(n) == ((n + 32768) % 65536) - 32768

(* The conversion of a short to the unsigned port of sockaddr_in.          *)
Bound(n) == n % 65536

(* Where the thread is; within Finish and DisConnect, between the status   *)
(* and the list; within Close, the object it releases or the pointer it    *)
(* nulls.                                                                  *)
Places == {"Config", "InitAdapter", "InitResource", "RegisterSignal", "Server",
           "Bind", "NewConnect", "SocketNew", "SocketConnect", "SetCb", "Work",
           "Run", "Finish", "DisConnect", "Close", "resource", "resource null",
           "base", "base null", "http", "http null", "CloseConnects",
           "ClosePool", "getchar", "exit", "crashed", "killed", "returned"}

(* The status of the connection is changed and the list not yet.           *)
HalfWay == {"Finish", "DisConnect"}

(* RegisterSignal has been executed.                                       *)
Handled == at \notin {"Config", "InitAdapter", "InitResource", "RegisterSignal"}

Stopped == {"exit", "crashed", "killed", "returned"}

Init ==
  /\ ini \in [Port : Ports, ThreadNum : ThreadNums, UsePool : {"yes", "no"},
              Model : Models]
  /\ at = "Config"
  /\ m_nWorkStatus = "SYINX_LINK_CLOSE"
  /\ m_Port = 0
  /\ obj = [h \in Owned |-> "none"]
  /\ ptr = [h \in Owned |-> "null"]
  /\ mSyinxListen = "null"
  /\ PthPool = "null"
  /\ con = [bev |-> "none", evbuffer |-> "none", ctx |-> "null",
            this |-> "none", m_Status |-> "0", awaits |-> {}]
  /\ m_AllConnect = {}
  /\ misused = {}
  /\ interrupted = "no"

-----------------------------------------------------------------------------
(* Config and Initialize.                                                  *)

(* A missing number reads as -1, and so does a number that converts to it; *)
(* a missing SetModel reads as "Failed", but one that is neither TCP nor   *)
(* HTTP is accepted here.  The other settings that are refused when they   *)
(* are missing end the process in the same way and are left out.           *)
Config ==
  /\ at = "Config"
  /\ m_Port' = Short(ini.Port)
  /\ at' = IF Short(ini.Port) = -1 \/ ini.ThreadNum = -1 \/ ini.Model = "Failed"
           THEN "returned" ELSE "InitAdapter"
  /\ UNCHANGED <<ini, interrupted, m_nWorkStatus, obj, ptr, mSyinxListen,
                 PthPool, con, m_AllConnect, misused>>

WantsPool == ini.ThreadNum > 1 /\ ini.UsePool = "yes"

(* Mutated: a pool of two or more threads is made only on demand. *)
SyinxKernelInitAdapter_Later ==
  /\ at = "InitAdapter"
  /\ PthPool' = "null"
  /\ at' = "InitResource"
  /\ UNCHANGED <<ini, interrupted, m_nWorkStatus, m_Port, obj, ptr,
                 mSyinxListen, con, m_AllConnect, misused>>

(* The pool is made only if it is asked for with more than one thread.  If *)
(* its Initialize fails, PthPool is set all the same and the kernel only   *)
(* logs it.                                                                *)
SyinxKernelInitAdapter ==
  /\ at = "InitAdapter"
  /\ PthPool' = IF WantsPool THEN "live" ELSE "null"
  /\ at' = "InitResource"
  /\ UNCHANGED <<ini, interrupted, m_nWorkStatus, m_Port, obj, ptr,
                 mSyinxListen, con, m_AllConnect, misused>>

(* Allocate object h and set the kernel's pointer to it.                   *)
Make(h) == /\ obj' = [obj EXCEPT ![h] = "live"]
           /\ ptr' = [ptr EXCEPT ![h] = "set"]

InitResource ==
  /\ at = "InitResource"
  /\ Make("resource")
  /\ \E initialized \in BOOLEAN :
       at' = IF initialized THEN "RegisterSignal" ELSE "returned"
  /\ UNCHANGED <<ini, interrupted, m_nWorkStatus, m_Port, mSyinxListen,
                 PthPool, con, m_AllConnect, misused>>

RegisterSignal ==
  /\ at = "RegisterSignal"
  /\ at' = IF ini.Model \in {"TCP", "HTTP"} THEN "Server" ELSE "returned"
  /\ UNCHANGED <<ini, interrupted, m_nWorkStatus, m_Port, obj, ptr,
                 mSyinxListen, PthPool, con, m_AllConnect, misused>>

(* The first half of TCPServer and HTTPServer makes the event base.        *)
Server ==
  /\ at = "Server"
  /\ \/ Make("base") /\ at' = "Bind"
     \/ UNCHANGED <<obj, ptr>> /\ at' = "returned"
  /\ UNCHANGED <<ini, interrupted, m_nWorkStatus, m_Port, mSyinxListen,
                 PthPool, con, m_AllConnect, misused>>

(* Mutated: the server is at work before it has a listener. *)
TCPServer_WorkFirst ==
  /\ at = "Bind" /\ ini.Model = "TCP"
  /\ m_nWorkStatus' = "SYINX_LINK_WORK"
  /\ \/ mSyinxListen' = "bound" /\ at' = "NewConnect"
     \/ UNCHANGED mSyinxListen /\ at' = "returned"
  /\ UNCHANGED <<ini, interrupted, m_Port, obj, ptr, PthPool, con,
                 m_AllConnect, misused>>

(* TCPServer binds its listener, which may fail.                           *)
TCPServer ==
  /\ at = "Bind" /\ ini.Model = "TCP"
  /\ \/ mSyinxListen' = "bound" /\ at' = "NewConnect"
     \/ UNCHANGED mSyinxListen /\ at' = "returned"
  /\ UNCHANGED <<ini, interrupted, m_nWorkStatus, m_Port, obj, ptr, PthPool,
                 con, m_AllConnect, misused>>

(* HTTPServer makes the HTTP server and binds its socket; each may fail.   *)
HTTPServer ==
  /\ at = "Bind" /\ ini.Model = "HTTP"
  /\ \/ UNCHANGED <<obj, ptr, mSyinxListen>> /\ at' = "returned"
     \/ Make("http") /\ mSyinxListen' = "bound" /\ at' = "Work"
     \/ Make("http") /\ UNCHANGED mSyinxListen /\ at' = "returned"
  /\ UNCHANGED <<ini, interrupted, m_nWorkStatus, m_Port, PthPool, con,
                 m_AllConnect, misused>>

Work ==
  /\ at = "Work"
  /\ m_nWorkStatus' = "SYINX_LINK_WORK"
  /\ at' = "Run"
  /\ UNCHANGED <<ini, interrupted, m_Port, obj, ptr, mSyinxListen, PthPool,
                 con, m_AllConnect, misused>>

-----------------------------------------------------------------------------
(* OnStatusConnect, called by TCPServer: SConnect::Connect to the one      *)
(* server it knows.  A failure deletes the SConnect object and what it     *)
(* points at stays; the server goes on either way.                         *)

(* new SConnect and its Initialize, which makes the evbuffer.              *)
NewConnect ==
  /\ at = "NewConnect"
  /\ \/ /\ con' = [con EXCEPT !.this = "live", !.evbuffer = "live"]
        /\ at' = "SocketNew"
     \/ /\ con' = [con EXCEPT !.this = "deleted"]
        /\ at' = "Work"
  /\ UNCHANGED <<ini, interrupted, m_nWorkStatus, m_Port, obj, ptr,
                 mSyinxListen, PthPool, m_AllConnect, misused>>

SocketNew ==
  /\ at = "SocketNew"
  /\ \/ con' = [con EXCEPT !.bev = "live"]     /\ at' = "SocketConnect"
     \/ con' = [con EXCEPT !.this = "deleted"]   /\ at' = "Work"
  /\ UNCHANGED <<ini, interrupted, m_nWorkStatus, m_Port, obj, ptr,
                 mSyinxListen, PthPool, m_AllConnect, misused>>

SocketConnect ==
  /\ at = "SocketConnect"
  /\ \/ UNCHANGED con                         /\ at' = "SetCb"
     \/ con' = [con EXCEPT !.this = "deleted"]  /\ at' = "Work"
  /\ UNCHANGED <<ini, interrupted, m_nWorkStatus, m_Port, obj, ptr,
                 mSyinxListen, PthPool, m_AllConnect, misused>>

(* bufferevent_setcb and bufferevent_enable: the bufferevent awaits the    *)
(* answer to its connect and the end of the connection.                    *)
SetCb ==
  /\ at = "SetCb"
  /\ con' = [con EXCEPT !.ctx = "set", !.awaits = {"answer", "end"}]
  /\ at' = "Work"
  /\ UNCHANGED <<ini, interrupted, m_nWorkStatus, m_Port, obj, ptr,
                 mSyinxListen, PthPool, m_AllConnect, misused>>

(* ConnectEvent with BEV_EVENT_CONNECTED, which may come after the end     *)
(* was told (module BuffereventSock): SConnect::Finish, the status first,  *)
(* then the list.                                                          *)
Finish ==
  /\ at = "Run" /\ con.ctx = "set" /\ "answer" \in con.awaits
  /\ con' = [con EXCEPT !.m_Status = "CLIENT_LOGIN",
                        !.awaits = @ \ {"answer"}]
  /\ at' = "Finish"
  /\ UNCHANGED <<ini, interrupted, m_nWorkStatus, m_Port, obj, ptr,
                 mSyinxListen, PthPool, m_AllConnect, misused>>

ListenerConnect ==
  /\ at = "Finish"
  /\ m_AllConnect' = {Tag}
  /\ at' = "Run"
  /\ UNCHANGED <<ini, interrupted, m_nWorkStatus, m_Port, obj, ptr,
                 mSyinxListen, PthPool, con, misused>>

(* ConnectEvent with an error or EOF: readcb may leave the connect to be   *)
(* answered.  SConnect::DisConnect, in the same order.                     *)
DisConnect ==
  /\ at = "Run" /\ con.ctx = "set" /\ "end" \in con.awaits
  /\ \E left \in SUBSET (con.awaits \ {"end"}) :
       con' = [con EXCEPT !.m_Status = "CLIENT_LOGOUT", !.awaits = left]
  /\ at' = "DisConnect"
  /\ UNCHANGED <<ini, interrupted, m_nWorkStatus, m_Port, obj, ptr,
                 mSyinxListen, PthPool, m_AllConnect, misused>>

(* Mutated: the connection stays in the kernel's list. *)
RemoveConnect_Keeps ==
  /\ at = "DisConnect"
  /\ at' = "Run"
  /\ UNCHANGED <<ini, interrupted, m_nWorkStatus, m_Port, obj, ptr,
                 mSyinxListen, PthPool, con, m_AllConnect, misused>>

RemoveConnect ==
  /\ at = "DisConnect"
  /\ m_AllConnect' = {}
  /\ at' = "Run"
  /\ UNCHANGED <<ini, interrupted, m_nWorkStatus, m_Port, obj, ptr,
                 mSyinxListen, PthPool, con, misused>>

-----------------------------------------------------------------------------
(* Run and Close.                                                          *)

(* event_base_loop fails: TCPRun or HTTPRun returns, and main calls Close. *)
LoopFails ==
  /\ at = "Run"
  /\ at' = "Close"
  /\ UNCHANGED <<ini, interrupted, m_nWorkStatus, m_Port, obj, ptr,
                 mSyinxListen, PthPool, con, m_AllConnect, misused>>

(* Mutated: Close does not test m_nWorkStatus. *)
Close_NoTest ==
  /\ m_nWorkStatus' = "SYINX_LINK_CLOSE"
  /\ at' = "resource"
  /\ interrupted' = IF at \in HalfWay THEN at ELSE interrupted
  /\ UNCHANGED <<ini, m_Port, obj, ptr, mSyinxListen, PthPool, con,
                 m_AllConnect, misused>>

(* The first statements of Close: only a server at work is closed.         *)
Close ==
  /\ m_nWorkStatus = "SYINX_LINK_WORK"
  /\ m_nWorkStatus' = "SYINX_LINK_CLOSE"
  /\ at' = "resource"
  /\ interrupted' = IF at \in HalfWay THEN at ELSE interrupted
  /\ UNCHANGED <<ini, m_Port, obj, ptr, mSyinxListen, PthPool, con,
                 m_AllConnect, misused>>

MainCloses == at = "Close" /\ Close

(* A signal, once it is handled.  When Close returns early, before the     *)
(* server works and once it closes, the signal is without effect.          *)
SIG_HANDLE == Handled /\ at \notin Stopped /\ Close

(* A signal before RegisterSignal.                                         *)
Killed ==
  /\ ~Handled /\ at \notin Stopped
  /\ at' = "killed"
  /\ UNCHANGED <<ini, interrupted, m_nWorkStatus, m_Port, obj, ptr,
                 mSyinxListen, PthPool, con, m_AllConnect, misused>>

(* The order in which Close releases: what comes after object h.           *)
After(h) ==
  CASE h = "resource" -> "base"
    [] h = "base"     -> "http"
    [] h = "http"     -> "CloseConnects"
Null(h) ==
  CASE h = "resource" -> "resource null"
    [] h = "base"     -> "base null"
    [] h = "http"     -> "http null"

Freed(state) == IF state = "live" THEN "freed" ELSE "freed twice"

(* The thread goes on to place p, or, having used the event base after it  *)
(* was freed, may as well crash.                                           *)
GoOnFrom(usesBase, p) ==
  IF usesBase /\ obj["base"] # "live"
  THEN at' \in {p, "crashed"} /\ misused' = misused \cup {"base"}
  ELSE at' = p /\ UNCHANGED misused

(* Close or free object h if the pointer to it is set.  The resource       *)
(* manager frees its clients' bufferevents, the HTTP server its listener:  *)
(* both use the event base.                                                *)
Release(h) ==
  /\ at = h
  /\ IF ptr[h] = "set"
     THEN /\ obj' = [obj EXCEPT ![h] = Freed(@)]
          /\ GoOnFrom(h # "base", Null(h))
     ELSE at' = After(h) /\ UNCHANGED <<obj, misused>>
  /\ UNCHANGED <<ini, interrupted, m_nWorkStatus, m_Port, ptr, mSyinxListen,
                 PthPool, con, m_AllConnect>>

SetNull(h) ==
  /\ at = Null(h)
  /\ ptr' = [ptr EXCEPT ![h] = "null"]
  /\ at' = After(h)
  /\ UNCHANGED <<ini, interrupted, m_nWorkStatus, m_Port, obj, mSyinxListen,
                 PthPool, con, m_AllConnect, misused>>

(* SConnect::Close of what is in the list.                                 *)
CloseConnects ==
  /\ at = "CloseConnects"
  /\ IF Tag \in m_AllConnect
     THEN con' = [con EXCEPT !.bev = Freed(@), !.evbuffer = Freed(@)]
     ELSE UNCHANGED con
  /\ GoOnFrom(Tag \in m_AllConnect, "ClosePool")
  /\ UNCHANGED <<ini, interrupted, m_nWorkStatus, m_Port, obj, ptr,
                 mSyinxListen, PthPool, m_AllConnect>>

(* SyinxPthreadPool::Close locks the mutex of the pool, whether or not     *)
(* there is a pool.                                                        *)
ClosePool ==
  /\ at = "ClosePool"
  /\ IF PthPool = "null"
     THEN /\ misused' = misused \cup {"PthPool"} /\ at' = "crashed"
          /\ UNCHANGED PthPool
     ELSE PthPool' = Freed(PthPool) /\ at' = "getchar" /\ UNCHANGED misused
  /\ UNCHANGED <<ini, interrupted, m_nWorkStatus, m_Port, obj, ptr,
                 mSyinxListen, con, m_AllConnect>>

(* A key was pressed.  The destructors that exit(0) runs call Close, which *)
(* returns early.                                                          *)
Exit ==
  /\ at = "getchar"
  /\ at' = "exit"
  /\ UNCHANGED <<ini, interrupted, m_nWorkStatus, m_Port, obj, ptr,
                 mSyinxListen, PthPool, con, m_AllConnect, misused>>

-----------------------------------------------------------------------------
Next ==
  \/ Config \/ SyinxKernelInitAdapter \/ InitResource \/ RegisterSignal
  \/ Server \/ TCPServer \/ HTTPServer \/ Work
  \/ NewConnect \/ SocketNew \/ SocketConnect \/ SetCb
  \/ Finish \/ ListenerConnect \/ DisConnect \/ RemoveConnect
  \/ LoopFails \/ MainCloses \/ SIG_HANDLE \/ Killed
  \/ \E h \in Owned : Release(h) \/ SetNull(h)
  \/ CloseConnects \/ ClosePool \/ Exit

Spec == Init /\ [][Next]_vars

-----------------------------------------------------------------------------
(* Properties.                                                             *)

Objects == {"none", "live", "freed", "freed twice"}

(* Every variable has its type, and the pointer to an object that was      *)
(* never made is null.                                                     *)
TypeOK ==
  /\ ini \in [Port : Ports, ThreadNum : ThreadNums, UsePool : {"yes", "no"},
              Model : Models]
  /\ at \in Places
  /\ m_nWorkStatus \in {"SYINX_LINK_CLOSE", "SYINX_LINK_WORK"}
  /\ m_Port \in Shorts
  /\ obj \in [Owned -> Objects]
  /\ ptr \in [Owned -> {"null", "set"}]
  /\ \A h \in Owned : obj[h] = "none" => ptr[h] = "null"
  /\ mSyinxListen \in {"null", "bound"}
  /\ PthPool \in {"null", "live", "freed", "freed twice"}
  /\ con \in [bev : Objects, evbuffer : Objects, ctx : {"null", "set"},
              this : {"none", "live", "deleted"},
              m_Status : {"0", "CLIENT_LOGIN", "CLIENT_LOGOUT"},
              awaits : SUBSET {"answer", "end"}]
  /\ m_AllConnect \subseteq {Tag}
  /\ misused \subseteq {"base", "PthPool"}
  /\ interrupted \in {"no"} \cup HalfWay

(* Whichever statement of main or of Close a signal interrupts, and        *)
(* however often, nothing the kernel owns is freed twice.                  *)
ReleasedOnce ==
  /\ \A h \in Owned : obj[h] # "freed twice"
  /\ con.bev # "freed twice" /\ con.evbuffer # "freed twice"
  /\ PthPool # "freed twice"

(* Close uses the freed event base only for an HTTP server or a connection *)
(* that is up, and a pool that is not there just when none is configured:  *)
(* such a server never gets through Close.                                 *)
MisuseExplained ==
  /\ "base" \in misused => ini.Model = "HTTP" \/ Tag \in m_AllConnect
  /\ "PthPool" \in misused => ~WantsPool
  /\ at \in {"getchar", "exit"} => WantsPool

(* While the status is SYINX_LINK_WORK, the only time at which a signal is *)
(* acted upon, all that the callbacks and Close rely on is there, and the  *)
(* server listens on the port of Config.ini, above 32767 too, where the    *)
(* number that Config keeps in a short is negative.                        *)
WorkHasAll ==
  m_nWorkStatus = "SYINX_LINK_WORK" =>
    /\ Handled /\ mSyinxListen = "bound"
    /\ ini.Port \in PortNumbers => Bound(m_Port) = ini.Port
    /\ \A h \in {"resource", "base"} : ptr[h] = "set" /\ obj[h] = "live"
    /\ ini.Model = "HTTP" => ptr["http"] = "set" /\ obj["http"] = "live"

(* The list holds the connection just while its status says it is up, but  *)
(* for the moment in which Finish or DisConnect has changed the one and    *)
(* not the other; and if a signal comes in that moment it stays so: Close  *)
(* then passes over a connection that is up, or closes one that has ended. *)
(* Whichever step of Connect failed, Close is never called on an object    *)
(* that was deleted or has no buffers, and no callback is given a deleted  *)
(* object.                                                                 *)
AllConnectUp ==
  /\ Tag \in m_AllConnect /\ con.m_Status # "CLIENT_LOGIN"
       => "DisConnect" \in {at, interrupted}
  /\ con.m_Status = "CLIENT_LOGIN" /\ Tag \notin m_AllConnect
       => "Finish" \in {at, interrupted}
  /\ con.ctx = "set" =>
       con.this = "live" /\ con.bev # "none" /\ con.evbuffer # "none"
  /\ Tag \in m_AllConnect => con.ctx = "set"
=============================================================================
