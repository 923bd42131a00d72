------------------------- MODULE SyinxKernelProofs --------------------------
(***************************************************************************)
(* What holds of the kernel for every configuration, every failure of its  *)
(* start and every time a signal can arrive.                               *)
(***************************************************************************)
EXTENDS SyinxKernel, TLAPS

-----------------------------------------------------------------------------
(* The inductive invariant: what has been made and released, by place.     *)

(* The places of the start, in order, from the one where each is there.    *)
Connecting == {"NewConnect", "SocketNew", "SocketConnect", "SetCb"}
HasListen  == Connecting \cup {"Work", "Run", "Finish", "DisConnect", "Close"}
HasBase    == HasListen \cup {"Bind"}
HasHandler == HasBase \cup {"Server"}
HasRes     == HasHandler \cup {"RegisterSignal"}

(* The places of Close, and what it leads to.                              *)
Closing    == {"resource", "resource null", "base", "base null", "http",
               "http null", "CloseConnects", "ClosePool", "getchar",
               "exit", "crashed"}
ConsClosed == {"ClosePool", "getchar", "exit", "crashed"}

Starts ==
  /\ m_nWorkStatus = "SYINX_LINK_WORK" <=>
       at \in {"Run", "Finish", "DisConnect", "Close"}
  /\ at \in HasRes => ptr["resource"] = "set"
  /\ at \in HasBase => ptr["base"] = "set"
  /\ at \in HasListen =>
       mSyinxListen = "bound" /\ (ini.Model = "HTTP" => ptr["http"] = "set")
  /\ at \in Connecting => ini.Model # "HTTP"
  /\ at \notin {"Config", "InitAdapter", "killed", "returned"} =>
       (PthPool = "null" <=> ~WantsPool)
  /\ ptr["http"] = "set" => ini.Model = "HTTP"

PortKept ==
  /\ mSyinxListen = "bound" => Handled /\ at # "killed"
  /\ at \notin {"Config", "killed"} => m_Port = Short(ini.Port)

(* A pointer that is set points at a live object, except between the       *)
(* release and the assignment that nulls it, or once the process crashed.  *)
Pointers ==
  /\ \A h \in Owned :
       /\ obj[h] # "freed twice"
       /\ ptr[h] = "set" => \/ obj[h] = "live"
                    \/ at = Null(h)
                    \/ at = "crashed"
  /\ at = "resource" => obj["base"] = "live"

Connection ==
  /\ con.bev # "freed twice" /\ con.evbuffer # "freed twice"
  /\ at \notin ConsClosed => con.bev # "freed" /\ con.evbuffer # "freed"
  /\ con.ctx = "set" =>
       at \in {"Work", "Run", "Finish", "DisConnect", "Close"} \cup Closing
  /\ at = "Finish" => con.ctx = "set" /\ con.m_Status = "CLIENT_LOGIN"
  /\ at = "DisConnect" => con.m_Status = "CLIENT_LOGOUT"
  /\ at \in Connecting \ {"NewConnect"} =>
       con.evbuffer # "none" /\ con.this = "live"
  /\ at \in {"SocketConnect", "SetCb"} => con.bev # "none"
  /\ con.m_Status # "0" => con.ctx = "set"

Misuses ==
  /\ at \notin Closing => misused = {}
  /\ at \notin {"getchar", "exit"} => PthPool # "freed"
  /\ PthPool # "freed twice"

IInv == /\ TypeOK /\ Starts /\ PortKept /\ Pointers /\ Connection /\ Misuses
        /\ MisuseExplained /\ AllConnectUp

-----------------------------------------------------------------------------
(* A conversion to short yields a short.                                   *)
LEMMA ShortRange == \A n \in Int : Short(n) \in Shorts
  BY DEF Short, Shorts

(* The port that is bound is the port that was converted.                  *)
LEMMA ShortPort == \A n \in PortNumbers : Bound(Short(n)) = n
<1>. SUFFICES ASSUME NEW n \in PortNumbers  PROVE Bound(Short(n)) = n
  OBVIOUS
<1>. n \in Int /\ 0 <= n /\ n < 65536
  BY DEF PortNumbers
<1>1. CASE n < 32768
  BY <1>1 DEF Short, Bound
<1>2. CASE n >= 32768
  BY <1>2 DEF Short, Bound
<1>. QED  BY <1>1, <1>2

(* The invariant holds initially.                                          *)
LEMMA InitIInv == Init => IInv
<1>. SUFFICES ASSUME Init  PROVE IInv
  OBVIOUS
<1>1. TypeOK
  <2>1. at \in Places
    BY DEF Init, Places
  <2>2. m_Port \in Shorts
    BY DEF Init, Shorts
  <2>3. /\ obj \in [Owned -> Objects] /\ ptr \in [Owned -> {"null", "set"}]
        /\ \A h \in Owned : obj[h] = "none" => ptr[h] = "null"
    BY DEF Init, Objects
  <2>4. con \in [bev : Objects, evbuffer : Objects, ctx : {"null", "set"},
                this : {"none", "live", "deleted"},
                m_Status : {"0", "CLIENT_LOGIN", "CLIENT_LOGOUT"},
                awaits : SUBSET {"answer", "end"}]
    BY DEF Init, Objects
  <2>. QED  BY <2>1, <2>2, <2>3, <2>4 DEF Init, TypeOK
<1>. USE DEF Init
<1>2. Starts /\ PortKept
  BY DEF Starts, PortKept, HasRes, HasHandler, HasBase, HasListen, Connecting,
     Owned, Handled
<1>3. Pointers /\ Connection /\ Misuses
  BY DEF Pointers, Connection, Misuses, ConsClosed, Connecting, Closing, Owned
<1>4. MisuseExplained /\ AllConnectUp
  BY DEF MisuseExplained, AllConnectUp
<1>. QED  BY <1>1, <1>2, <1>3, <1>4 DEF IInv

(* What was freed is still an object that was made.                        *)
LEMMA FreedObject ==
  \A x \in Objects : Freed(x) \in Objects /\ Freed(x) # "none"
  BY DEF Freed, Objects

(* Making an object keeps the types of obj and ptr.                        *)
LEMMA MakeTypes ==
  ASSUME TypeOK, NEW h \in Owned, Make(h)
  PROVE  /\ obj' \in [Owned -> Objects] /\ ptr' \in [Owned -> {"null", "set"}]
         /\ \A i \in Owned : obj'[i] = "none" => ptr'[i] = "null"
<1>1. "live" \in Objects /\ "live" # "none"
  BY DEF Objects
<1>. QED  BY <1>1 DEF TypeOK, Make

(* Every step preserves the types.                                         *)
LEMMA TypeStep == TypeOK /\ [Next]_vars => TypeOK'
<1>. SUFFICES ASSUME TypeOK, [Next]_vars  PROVE TypeOK'
  OBVIOUS
<1>. USE DEF TypeOK
<1>1. CASE Config
  <2>1. at' \in Places
    BY <1>1 DEF Config, Places
  <2>. QED  BY <1>1, <2>1, ShortRange, KernelAssumption, ZenonT(60) DEF Config
<1>2. CASE SyinxKernelInitAdapter
  <2>1. at' \in Places
    BY <1>2 DEF SyinxKernelInitAdapter, Places
  <2>. QED  BY <1>2, <2>1 DEF SyinxKernelInitAdapter
<1>3. CASE InitResource
  <2>1. at' \in Places
    BY <1>3 DEF InitResource, Places
  <2>2. /\ obj' \in [Owned -> Objects] /\ ptr' \in [Owned -> {"null", "set"}]
        /\ \A h \in Owned : obj'[h] = "none" => ptr'[h] = "null"
    <3>1. "resource" \in Owned
      BY DEF Owned
    <3>2. CASE Make("resource")
      BY <3>1, <3>2, MakeTypes
    <3>3. CASE UNCHANGED <<obj, ptr>>
      BY <3>3
    <3>. QED  BY <1>3, <3>2, <3>3 DEF InitResource
  <2>. QED  BY <1>3, <2>1, <2>2, ZenonT(60) DEF InitResource
<1>4. CASE RegisterSignal
  <2>1. at' \in Places
    BY <1>4 DEF RegisterSignal, Places
  <2>. QED  BY <1>4, <2>1, ZenonT(60) DEF RegisterSignal
<1>5. CASE Server
  <2>1. at' \in Places
    BY <1>5 DEF Server, Places
  <2>2. /\ obj' \in [Owned -> Objects] /\ ptr' \in [Owned -> {"null", "set"}]
        /\ \A h \in Owned : obj'[h] = "none" => ptr'[h] = "null"
    <3>1. "base" \in Owned
      BY DEF Owned
    <3>2. CASE Make("base")
      BY <3>1, <3>2, MakeTypes
    <3>3. CASE UNCHANGED <<obj, ptr>>
      BY <3>3
    <3>. QED  BY <1>5, <3>2, <3>3 DEF Server
  <2>. QED  BY <1>5, <2>1, <2>2, ZenonT(60) DEF Server
<1>6. CASE TCPServer
  <2>1. at' \in Places
    BY <1>6 DEF TCPServer, Places
  <2>. QED  BY <1>6, <2>1, ZenonT(40) DEF TCPServer
<1>7. CASE HTTPServer
  <2>1. at' \in Places
    BY <1>7 DEF HTTPServer, Places
  <2>2. /\ obj' \in [Owned -> Objects] /\ ptr' \in [Owned -> {"null", "set"}]
        /\ \A h \in Owned : obj'[h] = "none" => ptr'[h] = "null"
    <3>1. "http" \in Owned
      BY DEF Owned
    <3>2. CASE Make("http")
      BY <3>1, <3>2, MakeTypes
    <3>3. CASE UNCHANGED <<obj, ptr>>
      BY <3>3
    <3>. QED  BY <1>7, <3>2, <3>3 DEF HTTPServer
  <2>. QED  BY <1>7, <2>1, <2>2, ZenonT(40) DEF HTTPServer
<1>8. CASE Work
  <2>1. at' \in Places
    BY <1>8 DEF Work, Places
  <2>. QED  BY <1>8, <2>1 DEF Work
<1>9. CASE NewConnect
  <2>1. at' \in Places
    BY <1>9 DEF NewConnect, Places
  <2>. QED  BY <1>9, <2>1, ZenonT(40) DEF NewConnect, Objects
<1>10. CASE SocketNew
  <2>1. at' \in Places
    BY <1>10 DEF SocketNew, Places
  <2>. QED  BY <1>10, <2>1, ZenonT(40) DEF SocketNew, Objects
<1>11. CASE SocketConnect
  <2>1. at' \in Places
    BY <1>11 DEF SocketConnect, Places
  <2>. QED  BY <1>11, <2>1 DEF SocketConnect
<1>12. CASE SetCb
  <2>1. at' \in Places
    BY <1>12 DEF SetCb, Places
  <2>. QED  BY <1>12, <2>1 DEF SetCb, Objects
<1>13. CASE Finish
  <2>1. at' \in Places
    BY <1>13 DEF Finish, Places
  <2>. QED  BY <1>13, <2>1 DEF Finish
<1>14. CASE DisConnect
  <2>1. at' \in Places
    BY <1>14 DEF DisConnect, Places
  <2>. QED  BY <1>14, <2>1, ZenonT(40) DEF DisConnect
<1>25. CASE ListenerConnect
  <2>1. at' \in Places
    BY <1>25 DEF ListenerConnect, Places
  <2>. QED  BY <1>25, <2>1, ZenonT(60) DEF ListenerConnect
<1>26. CASE RemoveConnect
  <2>1. at' \in Places
    BY <1>26 DEF RemoveConnect, Places
  <2>. QED  BY <1>26, <2>1, ZenonT(60) DEF RemoveConnect
<1>15. CASE LoopFails
  <2>1. at' \in Places
    BY <1>15 DEF LoopFails, Places
  <2>. QED  BY <1>15, <2>1, ZenonT(60) DEF LoopFails
<1>16. CASE MainCloses
  <2>1. at' \in Places
    BY <1>16 DEF MainCloses, Close, Places
  <2>. QED  BY <1>16, <2>1 DEF MainCloses, Close, HalfWay
<1>17. CASE SIG_HANDLE
  <2>1. at' \in Places
    BY <1>17 DEF SIG_HANDLE, Close, Places
  <2>. QED  BY <1>17, <2>1 DEF SIG_HANDLE, Close, HalfWay
<1>18. CASE Killed
  <2>1. at' \in Places
    BY <1>18 DEF Killed, Places
  <2>. QED  BY <1>18, <2>1 DEF Killed
<1>19. CASE CloseConnects
  <2>1. at' \in Places
    BY <1>19 DEF CloseConnects, GoOnFrom, Places
  <2>2. misused' \subseteq {"base", "PthPool"}
    BY <1>19 DEF CloseConnects, GoOnFrom
  <2>3. con' \in [bev : Objects, evbuffer : Objects, ctx : {"null", "set"},
                 this : {"none", "live", "deleted"},
                 m_Status : {"0", "CLIENT_LOGIN", "CLIENT_LOGOUT"},
                 awaits : SUBSET {"answer", "end"}]
    <3>1. Freed(con.bev) \in Objects /\ Freed(con.evbuffer) \in Objects
      BY FreedObject
    <3>2. \/ con' = con
          \/ con' = [con EXCEPT !.bev = Freed(con.bev),
                                !.evbuffer = Freed(con.evbuffer)]
      BY <1>19 DEF CloseConnects
    <3>. QED  BY <3>1, <3>2
  <2>. QED  BY <1>19, <2>1, <2>2, <2>3 DEF CloseConnects
<1>20. CASE ClosePool
  <2>1. at' \in Places
    BY <1>20 DEF ClosePool, Places
  <2>. QED  BY <1>20, <2>1, ZenonT(40) DEF ClosePool, Freed
<1>21. CASE Exit
  <2>1. at' \in Places
    BY <1>21 DEF Exit, Places
  <2>. QED  BY <1>21, <2>1, ZenonT(60) DEF Exit
<1>22. ASSUME NEW h \in Owned, Release(h)  PROVE TypeOK'
  <2>1. at' \in Places
    BY <1>22 DEF Release, GoOnFrom, Null, After, Owned, Places
  <2>2. misused' \subseteq {"base", "PthPool"}
    BY <1>22 DEF Release, GoOnFrom
  <2>3. /\ obj' \in [Owned -> Objects]
        /\ \A i \in Owned : obj'[i] = "none" => ptr'[i] = "null"
    <3>1. CASE ptr[h] = "set"
      <4>1. obj' = [obj EXCEPT ![h] = Freed(obj[h])] /\ ptr' = ptr
        BY <1>22, <3>1 DEF Release
      <4>2. Freed(obj[h]) \in Objects /\ Freed(obj[h]) # "none"
        BY FreedObject
      <4>. QED  BY <4>1, <4>2
    <3>2. CASE ptr[h] # "set"
      BY <1>22, <3>2 DEF Release
    <3>. QED  BY <3>1, <3>2
  <2>. QED  BY <1>22, <2>1, <2>2, <2>3, ZenonT(60) DEF Release
<1>23. ASSUME NEW h \in Owned, SetNull(h)  PROVE TypeOK'
  <2>1. at' \in Places
    BY <1>23 DEF SetNull, Null, After, Owned, Places
  <2>. QED  BY <1>23, <2>1, ZenonT(40) DEF SetNull
<1>24. CASE UNCHANGED vars
  BY <1>24 DEF vars
<1>. QED  BY <1>1, <1>2, <1>3, <1>4, <1>5, <1>6, <1>7, <1>8, <1>9, <1>10,
             <1>11, <1>12, <1>13, <1>14, <1>15, <1>16, <1>17, <1>18, <1>19,
             <1>20, <1>21, <1>22, <1>23, <1>24, <1>25, <1>26 DEF Next

(* Making an object leaves no pointer at a freed one.                      *)
LEMMA MakePointers ==
  ASSUME obj \in [Owned -> Objects], ptr \in [Owned -> {"null", "set"}],
         Pointers,
         at \notin {"resource null", "base null", "http null", "crashed"},
         NEW h \in Owned, Make(h)
  PROVE  \A i \in Owned :
           obj'[i] # "freed twice" /\ (ptr'[i] = "set" => obj'[i] = "live")
<1>1. \A i \in Owned : at # Null(i)
  BY DEF Owned, Null
<1>2. \A i \in Owned :
        obj[i] # "freed twice" /\ (ptr[i] = "set" => obj[i] = "live")
  BY <1>1 DEF Pointers
<1>3. TAKE i \in Owned
<1>4. CASE i = h
  BY <1>4 DEF Make
<1>5. CASE i # h
  BY <1>2, <1>5 DEF Make
<1>. QED  BY <1>4, <1>5

(* Every step preserves the invariant.                                     *)
LEMMA StepIInv == IInv /\ [Next]_vars => IInv'
<1>. SUFFICES ASSUME IInv, [Next]_vars  PROVE IInv'
  OBVIOUS
<1>t. TypeOK'
  BY TypeStep DEF IInv
<1>o. /\ obj \in [Owned -> Objects]
      /\ ptr \in [Owned -> {"null", "set"}]
      /\ con \in [bev : Objects, evbuffer : Objects, ctx : {"null", "set"},
              this : {"none", "live", "deleted"},
              m_Status : {"0", "CLIENT_LOGIN", "CLIENT_LOGOUT"},
              awaits : SUBSET {"answer", "end"}]
      /\ m_AllConnect \subseteq {Tag}
  BY DEF IInv, TypeOK
<1>. USE <1>o DEF IInv
<1>1. CASE Config
  <2>1. Starts'
    BY <1>1 DEF Config, Starts, HasRes, HasHandler, HasBase, HasListen,
       Connecting
  <2>2. PortKept'
    BY <1>1 DEF Config, PortKept, Handled
  <2>3. Pointers'
    BY <1>1 DEF Config, Pointers, Owned, Null
  <2>4. Connection'
    BY <1>1 DEF Config, Connection, Connecting, ConsClosed, Closing
  <2>5. Misuses'
    BY <1>1 DEF Config, Misuses, Closing
  <2>6. MisuseExplained'
    BY <1>1 DEF Config, MisuseExplained, WantsPool
  <2>7. AllConnectUp'
    BY <1>1 DEF Config, AllConnectUp
  <2>. QED  BY <1>t, <2>1, <2>2, <2>3, <2>4, <2>5, <2>6, <2>7
<1>2. CASE SyinxKernelInitAdapter
  <2>1. Starts'
    BY <1>2 DEF SyinxKernelInitAdapter, WantsPool, Starts, HasRes, HasHandler,
       HasBase, HasListen, Connecting
  <2>2. PortKept'
    BY <1>2 DEF SyinxKernelInitAdapter, PortKept, Handled
  <2>3. Pointers'
    BY <1>2 DEF SyinxKernelInitAdapter, Pointers, Owned, Null
  <2>4. Connection'
    BY <1>2 DEF SyinxKernelInitAdapter, Connection, Connecting, ConsClosed,
       Closing
  <2>5. Misuses'
    BY <1>2 DEF SyinxKernelInitAdapter, Misuses, Closing
  <2>6. MisuseExplained'
    BY <1>2 DEF SyinxKernelInitAdapter, MisuseExplained, Misuses, Closing
  <2>7. AllConnectUp'
    BY <1>2 DEF SyinxKernelInitAdapter, AllConnectUp
  <2>. QED  BY <1>t, <2>1, <2>2, <2>3, <2>4, <2>5, <2>6, <2>7
<1>3. CASE InitResource
  <2>1. Starts'
    BY <1>3 DEF InitResource, Make, Starts, WantsPool, HasBase, HasListen,
       Connecting, Owned
  <2>2. PortKept'
    BY <1>3 DEF InitResource, PortKept, Handled
  <2>3. Pointers'
    BY <1>3 DEF InitResource, Make, Pointers, Owned, Null
  <2>4. Connection'
    BY <1>3 DEF InitResource, Connection, Connecting, ConsClosed, Closing
  <2>5. Misuses'
    BY <1>3 DEF InitResource, Misuses, Closing
  <2>6. MisuseExplained'
    BY <1>3 DEF InitResource, MisuseExplained, WantsPool
  <2>7. AllConnectUp'
    BY <1>3 DEF InitResource, AllConnectUp
  <2>. QED  BY <1>t, <2>1, <2>2, <2>3, <2>4, <2>5, <2>6, <2>7
<1>4. CASE RegisterSignal
  <2>1. Starts'
    BY <1>4 DEF RegisterSignal, Starts, WantsPool, HasRes, HasBase, HasListen,
       Connecting
  <2>2. PortKept'
    BY <1>4 DEF RegisterSignal, PortKept, Handled
  <2>3. Pointers'
    BY <1>4 DEF RegisterSignal, Pointers, Owned, Null
  <2>4. Connection'
    BY <1>4 DEF RegisterSignal, Connection, Connecting, ConsClosed, Closing
  <2>5. Misuses'
    BY <1>4 DEF RegisterSignal, Misuses, Starts, Closing
  <2>6. MisuseExplained'
    BY <1>4 DEF RegisterSignal, MisuseExplained, Misuses, Starts, Closing,
       WantsPool, HasRes, HasHandler, HasBase, HasListen, Connecting
  <2>7. AllConnectUp'
    BY <1>4 DEF RegisterSignal, AllConnectUp, Connection, Connecting,
       ConsClosed, Closing
  <2>. QED  BY <1>t, <2>1, <2>2, <2>3, <2>4, <2>5, <2>6, <2>7
<1>5. CASE Server
  <2>1. Starts'
    BY <1>5 DEF Server, Make, Starts, WantsPool, HasRes, HasHandler, HasBase,
       HasListen, Connecting, Owned
  <2>2. PortKept'
    BY <1>5 DEF Server, PortKept, Handled
  <2>3. Pointers'
    <3>1. /\ at' # "resource"
          /\ at \notin {"resource null", "base null", "http null", "crashed"}
      BY <1>5 DEF Server
    <3>2. CASE Make("base")
      BY <3>1, <3>2, MakePointers DEF Pointers, Owned
    <3>3. CASE UNCHANGED <<obj, ptr>>
      BY <1>5, <3>1, <3>3 DEF Pointers, Owned, Null
    <3>. QED  BY <1>5, <3>2, <3>3 DEF Server
  <2>4. Connection'
    BY <1>5 DEF Server, Connection, Connecting, ConsClosed, Closing
  <2>5. Misuses'
    BY <1>5 DEF Server, Misuses, Closing
  <2>6. MisuseExplained'
    BY <1>5 DEF Server, MisuseExplained, WantsPool
  <2>7. AllConnectUp'
    BY <1>5 DEF Server, AllConnectUp
  <2>. QED  BY <1>t, <2>1, <2>2, <2>3, <2>4, <2>5, <2>6, <2>7
<1>6. CASE TCPServer
  <2>1. Starts'
    BY <1>6 DEF TCPServer, Starts, WantsPool, HasRes, HasHandler, HasBase,
       HasListen, Connecting
  <2>2. PortKept'
    BY <1>6 DEF TCPServer, PortKept, Handled
  <2>3. Pointers'
    BY <1>6 DEF TCPServer, Pointers, Owned, Null
  <2>4. Connection'
    BY <1>6 DEF TCPServer, Connection, Connecting, ConsClosed, Closing
  <2>5. Misuses'
    BY <1>6 DEF TCPServer, Misuses, Closing
  <2>6. MisuseExplained'
    BY <1>6 DEF TCPServer, MisuseExplained, WantsPool
  <2>7. AllConnectUp'
    BY <1>6 DEF TCPServer, AllConnectUp
  <2>. QED  BY <1>t, <2>1, <2>2, <2>3, <2>4, <2>5, <2>6, <2>7
<1>7. CASE HTTPServer
  <2>1. Starts'
    BY <1>7 DEF HTTPServer, Make, Starts, WantsPool, HasRes, HasHandler,
       HasBase, HasListen, Connecting, Owned
  <2>2. PortKept'
    BY <1>7 DEF HTTPServer, PortKept, Handled
  <2>3. Pointers'
    <3>1. /\ at' # "resource"
          /\ at \notin {"resource null", "base null", "http null", "crashed"}
      BY <1>7 DEF HTTPServer
    <3>2. CASE Make("http")
      BY <3>1, <3>2, MakePointers DEF Pointers, Owned
    <3>3. CASE UNCHANGED <<obj, ptr>>
      BY <1>7, <3>1, <3>3 DEF Pointers, Owned, Null
    <3>. QED  BY <1>7, <3>2, <3>3 DEF HTTPServer
  <2>4. Connection'
    BY <1>7 DEF HTTPServer, Connection, Connecting, ConsClosed, Closing
  <2>5. Misuses'
    BY <1>7 DEF HTTPServer, Misuses, Closing
  <2>6. MisuseExplained'
    BY <1>7 DEF HTTPServer, MisuseExplained, WantsPool
  <2>7. AllConnectUp'
    BY <1>7 DEF HTTPServer, AllConnectUp
  <2>. QED  BY <1>t, <2>1, <2>2, <2>3, <2>4, <2>5, <2>6, <2>7
<1>8. CASE Work
  <2>1. Starts'
    BY <1>8 DEF Work, Starts, WantsPool, HasRes, HasHandler, HasBase,
       HasListen, Connecting
  <2>2. PortKept'
    BY <1>8 DEF Work, PortKept, Handled
  <2>3. Pointers'
    BY <1>8 DEF Work, Pointers, Owned, Null
  <2>4. Connection'
    BY <1>8 DEF Work, Connection, Connecting, ConsClosed
  <2>5. Misuses'
    BY <1>8 DEF Work, Misuses, Closing
  <2>6. MisuseExplained'
    BY <1>8 DEF Work, MisuseExplained, WantsPool
  <2>7. AllConnectUp'
    BY <1>8 DEF Work, AllConnectUp
  <2>. QED  BY <1>t, <2>1, <2>2, <2>3, <2>4, <2>5, <2>6, <2>7
<1>9. CASE NewConnect
  <2>1. Starts'
    BY <1>9 DEF NewConnect, Starts, WantsPool, HasRes, HasHandler, HasBase,
       HasListen, Connecting
  <2>2. PortKept'
    BY <1>9 DEF NewConnect, PortKept, Handled
  <2>3. Pointers'
    BY <1>9 DEF NewConnect, Pointers, Owned, Null
  <2>4. Connection'
    BY <1>9 DEF NewConnect, Connection, Connecting, ConsClosed, Closing
  <2>5. Misuses'
    BY <1>9 DEF NewConnect, Misuses, Closing
  <2>6. MisuseExplained'
    BY <1>9 DEF NewConnect, MisuseExplained, WantsPool
  <2>7. AllConnectUp'
    BY <1>9 DEF NewConnect, AllConnectUp, Connection, Closing
  <2>. QED  BY <1>t, <2>1, <2>2, <2>3, <2>4, <2>5, <2>6, <2>7
<1>10. CASE SocketNew
  <2>1. Starts'
    BY <1>10 DEF SocketNew, Starts, WantsPool, HasRes, HasHandler, HasBase,
       HasListen, Connecting
  <2>2. PortKept'
    BY <1>10 DEF SocketNew, PortKept, Handled
  <2>3. Pointers'
    BY <1>10 DEF SocketNew, Pointers, Owned, Null
  <2>4. Connection'
    BY <1>10 DEF SocketNew, Connection, Connecting, ConsClosed, Closing
  <2>5. Misuses'
    BY <1>10 DEF SocketNew, Misuses, Closing
  <2>6. MisuseExplained'
    BY <1>10 DEF SocketNew, MisuseExplained, WantsPool
  <2>7. AllConnectUp'
    BY <1>10 DEF SocketNew, AllConnectUp, Connection, Closing
  <2>. QED  BY <1>t, <2>1, <2>2, <2>3, <2>4, <2>5, <2>6, <2>7
<1>11. CASE SocketConnect
  <2>1. Starts'
    BY <1>11 DEF SocketConnect, Starts, WantsPool, HasRes, HasHandler, HasBase,
       HasListen, Connecting
  <2>2. PortKept'
    BY <1>11 DEF SocketConnect, PortKept, Handled
  <2>3. Pointers'
    BY <1>11 DEF SocketConnect, Pointers, Owned, Null
  <2>4. Connection'
    BY <1>11 DEF SocketConnect, Connection, Connecting, ConsClosed, Closing
  <2>5. Misuses'
    BY <1>11 DEF SocketConnect, Misuses, Closing
  <2>6. MisuseExplained'
    BY <1>11 DEF SocketConnect, MisuseExplained, WantsPool
  <2>7. AllConnectUp'
    BY <1>11 DEF SocketConnect, AllConnectUp, Connection, Closing
  <2>. QED  BY <1>t, <2>1, <2>2, <2>3, <2>4, <2>5, <2>6, <2>7
<1>12. CASE SetCb
  <2>1. Starts'
    BY <1>12 DEF SetCb, Starts, WantsPool, HasRes, HasHandler, HasBase,
       HasListen, Connecting
  <2>2. PortKept'
    BY <1>12 DEF SetCb, PortKept, Handled
  <2>3. Pointers'
    BY <1>12 DEF SetCb, Pointers, Owned, Null
  <2>4. Connection'
    BY <1>12 DEF SetCb, Connection, Connecting, ConsClosed
  <2>5. Misuses'
    BY <1>12 DEF SetCb, Misuses, Closing
  <2>6. MisuseExplained'
    BY <1>12 DEF SetCb, MisuseExplained, WantsPool
  <2>7. AllConnectUp'
    BY <1>12 DEF SetCb, AllConnectUp, Connection, Connecting
  <2>. QED  BY <1>t, <2>1, <2>2, <2>3, <2>4, <2>5, <2>6, <2>7
<1>13. CASE Finish
  <2>1. Starts'
    BY <1>13 DEF Finish, Starts, WantsPool, HasRes, HasHandler, HasBase,
       HasListen, Connecting
  <2>2. PortKept'
    BY <1>13 DEF Finish, PortKept, Handled
  <2>3. Pointers'
    BY <1>13 DEF Finish, Pointers, Owned, Null
  <2>4. Connection'
    BY <1>13 DEF Finish, Connection, Connecting, ConsClosed
  <2>5. Misuses'
    BY <1>13 DEF Finish, Misuses, Closing
  <2>6. MisuseExplained'
    BY <1>13 DEF Finish, MisuseExplained, WantsPool
  <2>7. AllConnectUp'
    BY <1>13 DEF Finish, AllConnectUp
  <2>. QED  BY <1>t, <2>1, <2>2, <2>3, <2>4, <2>5, <2>6, <2>7
<1>25. CASE ListenerConnect
  <2>1. Starts'
    BY <1>25 DEF ListenerConnect, Starts, WantsPool, HasRes, HasHandler,
       HasBase, HasListen, Connecting
  <2>2. PortKept'
    BY <1>25 DEF ListenerConnect, PortKept, Handled
  <2>3. Pointers'
    BY <1>25 DEF ListenerConnect, Pointers, Owned, Null
  <2>4. Connection'
    BY <1>25 DEF ListenerConnect, Connection, Connecting, ConsClosed
  <2>5. Misuses'
    BY <1>25 DEF ListenerConnect, Misuses, Closing
  <2>6. MisuseExplained'
    BY <1>25 DEF ListenerConnect, MisuseExplained, WantsPool, Misuses, Closing
  <2>7. AllConnectUp'
    BY <1>25 DEF ListenerConnect, AllConnectUp, Connection
  <2>. QED  BY <1>t, <2>1, <2>2, <2>3, <2>4, <2>5, <2>6, <2>7
<1>14. CASE DisConnect
  <2>1. Starts'
    BY <1>14 DEF DisConnect, Starts, WantsPool, HasRes, HasHandler, HasBase,
       HasListen, Connecting
  <2>2. PortKept'
    BY <1>14 DEF DisConnect, PortKept, Handled
  <2>3. Pointers'
    BY <1>14 DEF DisConnect, Pointers, Owned, Null
  <2>4. Connection'
    BY <1>14 DEF DisConnect, Connection, Connecting, ConsClosed
  <2>5. Misuses'
    BY <1>14 DEF DisConnect, Misuses, Closing
  <2>6. MisuseExplained'
    BY <1>14 DEF DisConnect, MisuseExplained, WantsPool
  <2>7. AllConnectUp'
    BY <1>14 DEF DisConnect, AllConnectUp
  <2>. QED  BY <1>t, <2>1, <2>2, <2>3, <2>4, <2>5, <2>6, <2>7
<1>26. CASE RemoveConnect
  <2>1. Starts'
    BY <1>26 DEF RemoveConnect, Starts, WantsPool, HasRes, HasHandler, HasBase,
       HasListen, Connecting
  <2>2. PortKept'
    BY <1>26 DEF RemoveConnect, PortKept, Handled
  <2>3. Pointers'
    BY <1>26 DEF RemoveConnect, Pointers, Owned, Null
  <2>4. Connection'
    BY <1>26 DEF RemoveConnect, Connection, Connecting, ConsClosed
  <2>5. Misuses'
    BY <1>26 DEF RemoveConnect, Misuses, Closing
  <2>6. MisuseExplained'
    BY <1>26 DEF RemoveConnect, MisuseExplained, WantsPool, Misuses, Closing
  <2>7. AllConnectUp'
    BY <1>26 DEF RemoveConnect, AllConnectUp, Connection
  <2>. QED  BY <1>t, <2>1, <2>2, <2>3, <2>4, <2>5, <2>6, <2>7
<1>15. CASE LoopFails
  <2>1. Starts'
    BY <1>15 DEF LoopFails, Starts, WantsPool, HasRes, HasHandler, HasBase,
       HasListen, Connecting
  <2>2. PortKept'
    BY <1>15 DEF LoopFails, PortKept, Handled
  <2>3. Pointers'
    BY <1>15 DEF LoopFails, Pointers, Owned, Null
  <2>4. Connection'
    BY <1>15 DEF LoopFails, Connection, Connecting, ConsClosed
  <2>5. Misuses'
    BY <1>15 DEF LoopFails, Misuses, Closing
  <2>6. MisuseExplained'
    BY <1>15 DEF LoopFails, MisuseExplained, WantsPool
  <2>7. AllConnectUp'
    BY <1>15 DEF LoopFails, AllConnectUp
  <2>. QED  BY <1>t, <2>1, <2>2, <2>3, <2>4, <2>5, <2>6, <2>7
<1>16. CASE MainCloses
  <2>1. Starts'
    BY <1>16 DEF MainCloses, Close, Starts, WantsPool, HasRes, HasHandler,
       HasBase, HasListen, Connecting
  <2>2. PortKept'
    BY <1>16 DEF MainCloses, Close, PortKept, Handled
  <2>3. Pointers'
    BY <1>16 DEF MainCloses, Close, Pointers, Starts, Owned, Null, HasBase,
       HasListen
  <2>4. Connection'
    BY <1>16 DEF MainCloses, Close, Connection, Connecting, ConsClosed, Closing
  <2>5. Misuses'
    BY <1>16 DEF MainCloses, Close, Misuses, Closing
  <2>6. MisuseExplained'
    BY <1>16 DEF MainCloses, Close, MisuseExplained, WantsPool
  <2>7. AllConnectUp'
    BY <1>16 DEF MainCloses, Close, AllConnectUp, HalfWay
  <2>. QED  BY <1>t, <2>1, <2>2, <2>3, <2>4, <2>5, <2>6, <2>7
<1>17. CASE SIG_HANDLE
  <2>1. Starts'
    BY <1>17 DEF SIG_HANDLE, Close, Starts, WantsPool, HasRes, HasHandler,
       HasBase, HasListen, Connecting
  <2>2. PortKept'
    BY <1>17 DEF SIG_HANDLE, Close, Handled, Starts, PortKept
  <2>3. Pointers'
    BY <1>17 DEF SIG_HANDLE, Close, Pointers, Starts, Owned, Null, HasBase,
       HasListen
  <2>4. Connection'
    BY <1>17 DEF SIG_HANDLE, Close, Connection, Starts, Connecting, ConsClosed,
       Closing
  <2>5. Misuses'
    BY <1>17 DEF SIG_HANDLE, Close, Misuses, Starts, Closing
  <2>6. MisuseExplained'
    BY <1>17 DEF SIG_HANDLE, Close, MisuseExplained, WantsPool
  <2>7. AllConnectUp'
    BY <1>17 DEF SIG_HANDLE, Close, AllConnectUp, HalfWay, Connection
  <2>. QED  BY <1>t, <2>1, <2>2, <2>3, <2>4, <2>5, <2>6, <2>7
<1>18. CASE Killed
  <2>1. Starts'
    BY <1>18 DEF Killed, Starts, PortKept, HasRes, HasHandler, HasBase,
       HasListen, Connecting
  <2>2. PortKept'
    BY <1>18 DEF Killed, PortKept
  <2>3. Pointers'
    BY <1>18 DEF Killed, Handled, Pointers, Owned, Null
  <2>4. Connection'
    BY <1>18 DEF Killed, Handled, Connection, Connecting, ConsClosed, Closing
  <2>5. Misuses'
    BY <1>18 DEF Killed, Handled, Misuses, Closing
  <2>6. MisuseExplained'
    BY <1>18 DEF Killed, MisuseExplained, WantsPool
  <2>7. AllConnectUp'
    BY <1>18 DEF Killed, Handled, AllConnectUp
  <2>. QED  BY <1>t, <2>1, <2>2, <2>3, <2>4, <2>5, <2>6, <2>7
<1>19. CASE CloseConnects
  <2>1. Starts'
    BY <1>19 DEF CloseConnects, GoOnFrom, Starts, WantsPool, HasRes,
       HasHandler, HasBase, HasListen, Connecting
  <2>2. PortKept'
    BY <1>19 DEF CloseConnects, GoOnFrom, PortKept, Handled
  <2>3. Pointers'
    BY <1>19 DEF CloseConnects, GoOnFrom, Pointers, Owned, Null
  <2>4. Connection'
    <3>1. at = "CloseConnects" /\ at' \in {"ClosePool", "crashed"}
      BY <1>19 DEF CloseConnects, GoOnFrom
    <3>2. /\ con'.bev \in {con.bev, Freed(con.bev)}
          /\ con'.evbuffer \in {con.evbuffer, Freed(con.evbuffer)}
          /\ con'.ctx = con.ctx /\ con'.m_Status = con.m_Status
          /\ Tag \in m_AllConnect \/ con' = con
      BY <1>19 DEF CloseConnects
    <3>3. Tag \in m_AllConnect => con.bev # "none" /\ con.evbuffer # "none"
      BY DEF AllConnectUp
    <3>4. con'.bev # "freed twice" /\ con'.evbuffer # "freed twice"
      BY <3>1, <3>2, <3>3 DEF Connection, ConsClosed, Freed, Objects
    <3>. QED  BY <3>1, <3>2, <3>4 DEF Connection, ConsClosed, Connecting,
                 Closing
  <2>5. Misuses'
    BY <1>19 DEF CloseConnects, GoOnFrom, Misuses, Closing
  <2>6. MisuseExplained'
    <3>1. UNCHANGED <<ini, m_AllConnect>>
      BY <1>19 DEF CloseConnects
    <3>2. \/ misused' = misused
          \/ misused' = misused \cup {"base"} /\ Tag \in m_AllConnect
      <4>1. CASE Tag \in m_AllConnect
        BY <1>19, <4>1 DEF CloseConnects, GoOnFrom
      <4>2. CASE Tag \notin m_AllConnect
        BY <1>19, <4>2 DEF CloseConnects, GoOnFrom
      <4>. QED  BY <4>1, <4>2
    <3>3. at' \notin {"getchar", "exit"}
      BY <1>19 DEF CloseConnects, GoOnFrom
    <3>. QED  BY <3>1, <3>2, <3>3 DEF MisuseExplained, WantsPool
  <2>7. AllConnectUp'
    BY <1>19 DEF CloseConnects, Freed, AllConnectUp
  <2>. QED  BY <1>t, <2>1, <2>2, <2>3, <2>4, <2>5, <2>6, <2>7
<1>20. CASE ClosePool
  <2>1. Starts'
    BY <1>20 DEF ClosePool, Freed, Starts, WantsPool, HasRes, HasHandler,
       HasBase, HasListen, Connecting
  <2>2. PortKept'
    BY <1>20 DEF ClosePool, PortKept, Handled
  <2>3. Pointers'
    BY <1>20 DEF ClosePool, Pointers, Owned, Null
  <2>4. Connection'
    BY <1>20 DEF ClosePool, Connection, Connecting, ConsClosed, Closing
  <2>5. Misuses'
    <3>1. PthPool \in {"null", "live"}
      BY <1>20 DEF ClosePool, Misuses, TypeOK
    <3>2. /\ PthPool' \in {PthPool, Freed(PthPool)}
          /\ PthPool = "null" => UNCHANGED PthPool
      BY <1>20 DEF ClosePool
    <3>. QED  BY <1>20, <3>1, <3>2 DEF ClosePool, Misuses, Freed, Closing
  <2>6. MisuseExplained'
    <3>1. /\ UNCHANGED <<ini, m_AllConnect>>
          /\ \/ misused' = misused
             \/ /\ misused' = misused \cup {"PthPool"}
                /\ PthPool = "null" /\ at = "ClosePool"
      BY <1>20 DEF ClosePool
    <3>2. at = "ClosePool" => (PthPool = "null" <=> ~WantsPool)
      BY DEF Starts
    <3>3. at' \in {"getchar", "exit"} => at = "ClosePool" /\ PthPool # "null"
      BY <1>20 DEF ClosePool
    <3>. QED  BY <3>1, <3>2, <3>3 DEF MisuseExplained, WantsPool
  <2>7. AllConnectUp'
    BY <1>20 DEF ClosePool, AllConnectUp
  <2>. QED  BY <1>t, <2>1, <2>2, <2>3, <2>4, <2>5, <2>6, <2>7
<1>21. CASE Exit
  <2>1. Starts'
    BY <1>21 DEF Exit, Starts, WantsPool, HasRes, HasHandler, HasBase,
       HasListen, Connecting
  <2>2. PortKept'
    BY <1>21 DEF Exit, PortKept, Handled
  <2>3. Pointers'
    BY <1>21 DEF Exit, Pointers, Owned, Null
  <2>4. Connection'
    BY <1>21 DEF Exit, Connection, Connecting, ConsClosed, Closing
  <2>5. Misuses'
    BY <1>21 DEF Exit, Misuses, Closing
  <2>6. MisuseExplained'
    BY <1>21 DEF Exit, MisuseExplained, WantsPool
  <2>7. AllConnectUp'
    BY <1>21 DEF Exit, AllConnectUp
  <2>. QED  BY <1>t, <2>1, <2>2, <2>3, <2>4, <2>5, <2>6, <2>7
<1>22. ASSUME NEW h \in Owned, Release(h)  PROVE IInv'
  <2>1. Starts'
    BY <1>22 DEF Release, After, Null, GoOnFrom, Owned, Starts, WantsPool,
       HasRes, HasHandler, HasBase, HasListen, Connecting
  <2>2. PortKept'
    BY <1>22 DEF Release, After, Null, GoOnFrom, Owned, PortKept, Handled
  <2>3. Pointers'
    <3>1. at = h /\ ptr' = ptr
      BY <1>22 DEF Release
    <3>2. \A i \in Owned : at # Null(i) /\ at # "crashed"
      BY <3>1 DEF Owned, Null
    <3>3. CASE ptr[h] = "set"
      <4>1. /\ obj' = [obj EXCEPT ![h] = Freed(obj[h])]
            /\ at' \in {Null(h), "crashed"}
        BY <1>22, <3>3 DEF Release, GoOnFrom
      <4>2. obj[h] = "live" /\ obj'[h] = "freed"
        BY <3>2, <3>3, <4>1 DEF Pointers, Freed
      <4>3. \A i \in Owned : i # h => obj'[i] = obj[i]
        BY <4>1
      <4>4. at' # "resource"
        BY <4>1 DEF Null, Owned
      <4>. QED  BY <3>1, <3>2, <4>1, <4>2, <4>3, <4>4 DEF Pointers
    <3>4. CASE ptr[h] # "set"
      <4>1. obj' = obj /\ at' = After(h)
        BY <1>22, <3>4 DEF Release
      <4>2. at' # "resource"
        BY <4>1 DEF After, Owned
      <4>. QED  BY <3>1, <3>2, <4>1, <4>2 DEF Pointers
    <3>. QED  BY <3>3, <3>4
  <2>4. Connection'
    BY <1>22 DEF Release, After, Null, GoOnFrom, Owned, Connection, Connecting,
       ConsClosed, Closing
  <2>5. Misuses'
    BY <1>22 DEF Release, After, Null, GoOnFrom, Owned, Misuses, Closing
  <2>6. MisuseExplained'
    <3>1. at = h /\ UNCHANGED <<ini, m_AllConnect, ptr>>
      BY <1>22 DEF Release
    <3>2. \/ misused' = misused
          \/ /\ misused' = misused \cup {"base"}
             /\ h # "base" /\ obj["base"] # "live" /\ ptr[h] = "set"
      BY <1>22 DEF Release, GoOnFrom
    <3>3. h # "base" /\ obj["base"] # "live" /\ ptr[h] = "set"
            => ini.Model = "HTTP"
      BY <3>1 DEF Pointers, Starts, Owned
    <3>4. at' \notin {"getchar", "exit"}
      BY <1>22 DEF Release, GoOnFrom, After, Null, Owned
    <3>. QED  BY <3>1, <3>2, <3>3, <3>4 DEF MisuseExplained, WantsPool
  <2>7. AllConnectUp'
    BY <1>22 DEF Release, AllConnectUp, Owned
  <2>. QED  BY <1>t, <2>1, <2>2, <2>3, <2>4, <2>5, <2>6, <2>7
<1>23. ASSUME NEW h \in Owned, SetNull(h)  PROVE IInv'
  <2>1. Starts'
    BY <1>23 DEF SetNull, After, Null, Owned, Starts, WantsPool, HasRes,
       HasHandler, HasBase, HasListen, Connecting
  <2>2. PortKept'
    BY <1>23 DEF SetNull, After, Null, Owned, PortKept, Handled
  <2>3. Pointers'
    <3>1. /\ at = Null(h) /\ obj' = obj /\ ptr' = [ptr EXCEPT ![h] = "null"]
          /\ at' = After(h) /\ at # "crashed"
      BY <1>23 DEF SetNull, Null, Owned
    <3>2. at' # "resource"
      BY <3>1 DEF After, Owned
    <3>3. \A i \in Owned : i # h => at # Null(i)
      <4>1. ASSUME NEW i \in Owned, i # h  PROVE Null(h) # Null(i)
        BY <4>1 DEF Null, Owned
      <4>. QED  BY <3>1, <4>1
    <3>4. ptr'[h] = "null" /\ \A i \in Owned : i # h => ptr'[i] = ptr[i]
      BY <3>1
    <3>. QED  BY <3>1, <3>2, <3>3, <3>4 DEF Pointers
  <2>4. Connection'
    BY <1>23 DEF SetNull, After, Null, Owned, Connection, Connecting,
       ConsClosed, Closing
  <2>5. Misuses'
    BY <1>23 DEF SetNull, After, Null, Owned, Misuses, Closing
  <2>6. MisuseExplained'
    BY <1>23 DEF SetNull, After, Owned, MisuseExplained, WantsPool
  <2>7. AllConnectUp'
    BY <1>23 DEF SetNull, AllConnectUp, Null, Owned
  <2>. QED  BY <1>t, <2>1, <2>2, <2>3, <2>4, <2>5, <2>6, <2>7
<1>24. CASE UNCHANGED vars
  <2>1. Starts'
    BY <1>24 DEF vars, Starts, WantsPool
  <2>2. PortKept'
    BY <1>24 DEF vars, PortKept, Handled
  <2>3. Pointers'
    BY <1>24 DEF vars, Pointers
  <2>4. Connection'
    BY <1>24 DEF vars, Connection
  <2>5. Misuses'
    BY <1>24 DEF vars, Misuses
  <2>6. MisuseExplained'
    BY <1>24 DEF vars, MisuseExplained, WantsPool
  <2>7. AllConnectUp'
    BY <1>24 DEF vars, AllConnectUp
  <2>. QED  BY <1>t, <2>1, <2>2, <2>3, <2>4, <2>5, <2>6, <2>7
<1>. QED  BY <1>1, <1>2, <1>3, <1>4, <1>5, <1>6, <1>7, <1>8, <1>9, <1>10,
             <1>11, <1>12, <1>13, <1>14, <1>15, <1>16, <1>17, <1>18, <1>19,
             <1>20, <1>21, <1>22, <1>23, <1>24, <1>25, <1>26 DEF Next

-----------------------------------------------------------------------------
(* The invariant holds in every reachable state.                           *)
THEOREM KernelInvariant == Spec => []IInv
<1>1. Init => IInv
  BY InitIInv
<1>2. IInv /\ [Next]_vars => IInv'
  BY StepIInv
<1>. QED  BY <1>1, <1>2, PTL DEF Spec

(* Every variable keeps its type.                                          *)
THEOREM KernelTypeOK == Spec => []TypeOK
<1>1. IInv => TypeOK
  BY DEF IInv
<1>. QED  BY <1>1, KernelInvariant, PTL

(* Whenever signals arrive and whatever fails, Close frees nothing twice.  *)
THEOREM KernelReleasedOnce == Spec => []ReleasedOnce
<1>1. IInv => ReleasedOnce
  BY DEF IInv, ReleasedOnce, Pointers, Connection, Misuses
<1>. QED  BY <1>1, KernelInvariant, PTL

(* Close uses freed or missing things only in the two known ways.          *)
THEOREM KernelMisuse == Spec => []MisuseExplained
<1>1. IInv => MisuseExplained
  BY DEF IInv
<1>. QED  BY <1>1, KernelInvariant, PTL

(* A server at work has all that its callbacks and Close rely on, and      *)
(* listens on the port that was read, for every port number.               *)
THEOREM KernelWorkHasAll == Spec => []WorkHasAll
<1>1. IInv => WorkHasAll
  <2>. SUFFICES ASSUME IInv, m_nWorkStatus = "SYINX_LINK_WORK"
                PROVE  WorkHasAll
    BY DEF WorkHasAll
  <2>1. at \in {"Run", "Finish", "DisConnect", "Close"}
    BY DEF IInv, Starts
  <2>2. /\ ptr["resource"] = "set" /\ ptr["base"] = "set"
        /\ mSyinxListen = "bound" /\ (ini.Model = "HTTP" => ptr["http"] = "set")
    BY <2>1 DEF IInv, Starts, HasRes, HasHandler, HasBase, HasListen
  <2>3. \A h \in Owned : ptr[h] = "set" => obj[h] = "live"
    BY <2>1 DEF IInv, Pointers, Null, Owned
  <2>4. ini.Port \in PortNumbers => Bound(m_Port) = ini.Port
    BY <2>1, ShortPort DEF IInv, PortKept
  <2>. QED  BY <2>1, <2>2, <2>3, <2>4 DEF WorkHasAll, Handled, Owned
<1>. QED  BY <1>1, KernelInvariant, PTL

(* The list of connections holds just the one that is up, but between the  *)
(* two statements of Finish and of DisConnect, or once a signal has come   *)
(* there.                                                                  *)
THEOREM KernelAllConnectUp == Spec => []AllConnectUp
<1>1. IInv => AllConnectUp
  BY DEF IInv
<1>. QED  BY <1>1, KernelInvariant, PTL

=============================================================================
