---------------------------- MODULE SyResAdapter ----------------------------
(***************************************************************************)
(* The connections of the server in its default, single-threaded build:    *)
(* SyinxAdapterResource, which hands a fixed set of IChannel objects to    *)
(* the clients that connect and takes them back when they leave; the       *)
(* IChannel and CPlayer objects; and the libevent callbacks of Syinx.cpp   *)
(* that drive them.  Libevent, the clients and the network appear only as  *)
(* the code uses them.                                                     *)
(*                                                                         *)
(* One thread runs everything.  A callback is one step, except where a     *)
(* channel is in neither container, holds a freed bufferevent, or has had  *)
(* its hook called and not yet been moved: there the step ends, because    *)
(* SIG_HANDLE runs on the same thread between any two statements, never    *)
(* returns, and Close finds the objects as they are.  Accepted sockets are *)
(* blocking, so a writev to a client that does not read is a place of its  *)
(* own, where the thread may stand.                                        *)
(*                                                                         *)
(* A byte is the pair of the client that sent it and its number.           *)
(***************************************************************************)
EXTENDS Integers, Sequences

CONSTANTS
  ConnectNum,  \* m_IChannelNum, ConnectNum of Config.ini
  Clients,     \* the connections, each made at most once
  NoClient,    \* a null bufferevent pointer
  BUFFSIZE,    \* the most a channel takes from its buffer in one frame
  MaxSend      \* bound on the number of bytes a client sends

ASSUME ResAssumption ==
  /\ ConnectNum \in Nat
  /\ NoClient \notin Clients
  /\ BUFFSIZE \in Nat \ {0}
  /\ MaxSend \in Nat

VARIABLES
  m_nWorkStatus,        \* SYINX_LINK_WORK or _CLOSE; "exit" after exit(0)
  at,                   \* where the event loop's thread is, see AtLoop
  m_queueILoop,         \* the free channels
  m_listConnectClient,  \* the channels in use
  deleted,              \* the channels that were closed and deleted
  IChStatus,            \* of each channel: CLIENT_LOGIN or CLIENT_LOGOUT
  m_buffer,             \* of each channel: its client's bufferevent
  m_Inputevbuffer,      \* of each channel: the bytes to handle
  logins, logouts,      \* of each channel: calls of its CPlayer's hooks
  bev,                  \* of each client: the state of its bufferevent
  ctx,                  \* of each client: the channel its callbacks get
  peer,                 \* of each client: what the socket reports of it
  wire,                 \* of each client: bytes sent and not yet read
  out,                  \* of each client: bytes in its output buffer
  sent,                 \* of each client: number of bytes sent
  got                   \* of each client: the bytes it was sent back

resVars     == <<m_queueILoop, m_listConnectClient, deleted>>
channelVars == <<IChStatus, m_buffer, m_Inputevbuffer, logins, logouts>>
clientVars  == <<bev, ctx, peer, wire, out, sent, got>>
vars == <<m_nWorkStatus, at, resVars, channelVars, clientVars>>

Channels == 1 .. ConnectNum
Bytes    == Clients \X (1 .. MaxSend)
Elements(s) == {s[i] : i \in 1 .. Len(s)}

(* Where the thread is: in event_base_loop; there in the writev of client  *)
(* who's bufferevent; in AllocationIChannel, with channel arg popped for   *)
(* client who, or its player logged in as well; in GameServerDoAction,     *)
(* about to handle the arg-th channel of the list; in SocketFdDel, with    *)
(* channel arg removed from the list, then its bufferevent freed, then its *)
(* player logged out.                                                      *)
Place(op, arg, who) == [op |-> op, arg |-> arg, who |-> who]
AtLoop == Place("loop", 0, NoClient)
Places == [op  : {"loop", "writev", "alloc", "login", "frame", "removed", "freed",
                  "logout"},
           arg : Nat, who : Clients \cup {NoClient}]

(* The channel that is in neither container.                               *)
InFlight == IF at.op \in {"alloc", "login", "removed", "freed", "logout"}
            THEN {at.arg} ELSE {}

Init ==
  /\ m_nWorkStatus = "SYINX_LINK_WORK"
  /\ at = AtLoop
  /\ m_queueILoop = [i \in Channels |-> i]
  /\ m_listConnectClient = <<>>
  /\ deleted = {}
  /\ IChStatus = [c \in Channels |-> "CLIENT_LOGOUT"]
  /\ m_buffer = [c \in Channels |-> NoClient]
  /\ m_Inputevbuffer = [c \in Channels |-> <<>>]
  /\ logins = [c \in Channels |-> 0] /\ logouts = [c \in Channels |-> 0]
  /\ bev = [k \in Clients |-> "none"]
  /\ ctx = [k \in Clients |-> 0]
  /\ peer = [k \in Clients |-> "up"]
  /\ wire = [k \in Clients |-> <<>>]
  /\ out = [k \in Clients |-> <<>>]
  /\ sent = [k \in Clients |-> 0]
  /\ got = [k \in Clients |-> <<>>]

Looping == m_nWorkStatus = "SYINX_LINK_WORK" /\ at = AtLoop
Running(op) == m_nWorkStatus = "SYINX_LINK_WORK" /\ at.op = op

-----------------------------------------------------------------------------
(* The clients.                                                            *)

Send(k) ==
  /\ bev[k] = "open" /\ peer[k] = "up" /\ sent[k] < MaxSend
  /\ sent' = [sent EXCEPT ![k] = @ + 1]
  /\ wire' = [wire EXCEPT ![k] = Append(@, <<k, sent[k] + 1>>)]
  /\ UNCHANGED <<m_nWorkStatus, at, resVars, channelVars, bev, ctx, peer, out,
                 got>>

(* The client closes its side after what it sent, or the connection fails. *)
Leave(k) ==
  /\ bev[k] = "open" /\ peer[k] = "up"
  /\ \E how \in {"eof", "error"} : peer' = [peer EXCEPT ![k] = how]
  /\ UNCHANGED <<m_nWorkStatus, at, resVars, channelVars, bev, ctx, wire, out,
                 sent, got>>

-----------------------------------------------------------------------------
(* SyinxKernel_Listen_CB and AllocationIChannel.                           *)

(* bufferevent_socket_new fails: the callback returns and forgets the      *)
(* socket.                                                                 *)
ListenFails(k) ==
  /\ Looping /\ bev[k] = "none"
  /\ bev' = [bev EXCEPT ![k] = "leaked"]
  /\ UNCHANGED <<m_nWorkStatus, at, resVars, channelVars, ctx, peer, wire, out,
                 sent, got>>

(* Mutated: one channel is kept in reserve. *)
Refuse_OneEarly(k) ==
  /\ Looping /\ bev[k] = "none" /\ Len(m_queueILoop) <= 1
  /\ bev' = [bev EXCEPT ![k] = "refused"]
  /\ UNCHANGED <<m_nWorkStatus, at, resVars, channelVars, ctx, peer, wire, out,
                 sent, got>>

(* No channel is free: the bufferevent is freed, which closes the socket.  *)
Refuse(k) ==
  /\ Looping /\ bev[k] = "none" /\ m_queueILoop = <<>>
  /\ bev' = [bev EXCEPT ![k] = "refused"]
  /\ UNCHANGED <<m_nWorkStatus, at, resVars, channelVars, ctx, peer, wire, out,
                 sent, got>>

(* Mutated: the channel is not popped, as if front() took it. *)
AllocationIChannel_NoPop(k) ==
  /\ Looping /\ bev[k] = "none" /\ m_queueILoop # <<>>
  /\ at' = Place("alloc", Head(m_queueILoop), k)
  /\ bev' = [bev EXCEPT ![k] = "open"]
  /\ ctx' = [ctx EXCEPT ![k] = Head(m_queueILoop)]
  /\ UNCHANGED <<m_nWorkStatus, resVars, channelVars, peer, wire, out, sent,
                 got>>

(* Take the first free channel and give it to the client's callbacks.      *)
AllocationIChannel(k) ==
  /\ Looping /\ bev[k] = "none" /\ m_queueILoop # <<>>
  /\ m_queueILoop' = Tail(m_queueILoop)
  /\ at' = Place("alloc", Head(m_queueILoop), k)
  /\ bev' = [bev EXCEPT ![k] = "open"]
  /\ ctx' = [ctx EXCEPT ![k] = Head(m_queueILoop)]
  /\ UNCHANGED <<m_nWorkStatus, m_listConnectClient, deleted, channelVars,
                 peer, wire, out, sent, got>>

(* OnClientConnect, with the Login hook.                                   *)
OnClientConnect ==
  LET c == at.arg
  IN  /\ Running("alloc")
      /\ m_buffer' = [m_buffer EXCEPT ![c] = at.who]
      /\ logins' = [logins EXCEPT ![c] = @ + 1]
      /\ IChStatus' = [IChStatus EXCEPT ![c] = "CLIENT_LOGIN"]
      /\ at' = [at EXCEPT !.op = "login"]
      /\ UNCHANGED <<m_nWorkStatus, resVars, m_Inputevbuffer, logouts, clientVars>>

SocketFdAdd ==
  /\ Running("login")
  /\ m_listConnectClient' = Append(m_listConnectClient, at.arg)
  /\ at' = AtLoop
  /\ UNCHANGED <<m_nWorkStatus, m_queueILoop, deleted, channelVars, clientVars>>

-----------------------------------------------------------------------------
(* Reading, handling and writing.                                          *)

(* Mutated: the bytes of the last read replace those not yet handled. *)
SyinxKernel_Recv_Cb_Replaces(k) ==
  /\ Looping /\ bev[k] = "open" /\ wire[k] # <<>>
  /\ m_Inputevbuffer' = [m_Inputevbuffer EXCEPT ![ctx[k]] = wire[k]]
  /\ wire' = [wire EXCEPT ![k] = <<>>]
  /\ UNCHANGED <<m_nWorkStatus, at, resVars, IChStatus, m_buffer, logins,
                 logouts, bev, ctx, peer, out, sent, got>>

(* Move what has arrived behind what the channel has not handled yet.      *)
SyinxKernel_Recv_Cb(k) ==
  /\ Looping /\ bev[k] = "open" /\ wire[k] # <<>>
  /\ m_Inputevbuffer' = [m_Inputevbuffer EXCEPT ![ctx[k]] = @ \o wire[k]]
  /\ wire' = [wire EXCEPT ![k] = <<>>]
  /\ UNCHANGED <<m_nWorkStatus, at, resVars, IChStatus, m_buffer, logins,
                 logouts, bev, ctx, peer, out, sent, got>>

(* evbuffer_remove takes at most BUFFSIZE bytes and leaves the rest.       *)
TakeSize(c) == IF Len(m_Inputevbuffer[c]) < BUFFSIZE
               THEN Len(m_Inputevbuffer[c]) ELSE BUFFSIZE
Taken(c) == SubSeq(m_Inputevbuffer[c], 1, TakeSize(c))

(* Mutated: what does not fit strData is dropped. *)
Rest_Dropped(c) == <<>>

Rest(c) == SubSeq(m_Inputevbuffer[c], TakeSize(c) + 1, Len(m_Inputevbuffer[c]))

(* GameServerDoAction starts a frame if a channel is in use.               *)
GameServerDoAction ==
  /\ Looping /\ m_listConnectClient # <<>>
  /\ at' = Place("frame", 1, NoClient)
  /\ UNCHANGED <<m_nWorkStatus, resVars, channelVars, clientVars>>

(* OnStatusDoAction of the next channel: RecvValuesFromString takes the    *)
(* bytes as one pack, and RecvClientPack sends it back while the channel   *)
(* is logged in.                                                           *)
OnStatusDoAction ==
  LET c == m_listConnectClient[at.arg]
      k == m_buffer[c]
  IN  /\ Running("frame")
      /\ m_Inputevbuffer' = [m_Inputevbuffer EXCEPT ![c] = Rest(c)]
      /\ out' = IF IChStatus[c] = "CLIENT_LOGIN" /\ k \in Clients
                THEN [out EXCEPT ![k] = @ \o Taken(c)] ELSE out
      /\ at' = IF at.arg = Len(m_listConnectClient)
               THEN AtLoop ELSE Place("frame", at.arg + 1, NoClient)
      /\ UNCHANGED <<m_nWorkStatus, resVars, IChStatus, m_buffer, logins,
                     logouts, bev, ctx, peer, wire, sent, got>>

(* Libevent writes the output buffer to the socket, which blocks ...       *)
Writev(k) ==
  /\ Looping /\ bev[k] = "open" /\ peer[k] # "error" /\ out[k] # <<>>
  /\ at' = Place("writev", 0, k)
  /\ UNCHANGED <<m_nWorkStatus, resVars, channelVars, clientVars>>

(* ... until the kernel has taken all of it, for which the client may have *)
(* to read.                                                                *)
Flush(k) ==
  /\ Running("writev") /\ at.who = k /\ peer[k] # "error"
  /\ got' = [got EXCEPT ![k] = @ \o out[k]]
  /\ out' = [out EXCEPT ![k] = <<>>]
  /\ at' = AtLoop
  /\ UNCHANGED <<m_nWorkStatus, resVars, channelVars, bev, ctx, peer, wire,
                 sent>>

-----------------------------------------------------------------------------
(* SyinxKernel_Event_Cb: EOF, once what the client sent has been read, or  *)
(* an error; SocketFdDel and Clear.                                        *)

(* list::remove: channel c is in the list once.                            *)
Position(s, c) == CHOOSE i \in 1 .. Len(s) : s[i] = c
Without(s, c) ==
  [j \in 1 .. Len(s) - 1 |-> IF j < Position(s, c) THEN s[j] ELSE s[j + 1]]

Gone(k) == \/ peer[k] = "eof" /\ wire[k] = <<>>
           \/ peer[k] = "error"

(* Mutated: a writev whose connection breaks is tried again. *)
FindsGone_Retries(k) == bev[k] = "open" /\ Gone(k) /\ Looping

(* The loop finds the end of the socket, or the writev it is in fails.     *)
FindsGone(k) ==
  /\ bev[k] = "open" /\ Gone(k)
  /\ \/ Looping
     \/ Running("writev") /\ at.who = k /\ peer[k] = "error"

(* bufferevent_free, of one that may have been freed before.               *)
Freed(k) == IF bev[k] = "open" THEN "freed" ELSE "freed twice"

(* Mutated: the channel stays in the list until it is pushed. *)
SyinxKernel_Event_Cb_Late(k) ==
  /\ FindsGone(k)
  /\ at' = Place("removed", ctx[k], NoClient)
  /\ UNCHANGED <<m_nWorkStatus, resVars, channelVars, clientVars>>

SyinxKernel_Event_Cb(k) ==
  /\ FindsGone(k)
  /\ m_listConnectClient' = Without(m_listConnectClient, ctx[k])
  /\ at' = Place("removed", ctx[k], NoClient)
  /\ UNCHANGED <<m_nWorkStatus, m_queueILoop, deleted, channelVars,
                 clientVars>>

(* Mutated: the buffer is not handled, or the channel stays logged in. *)
Clear_NoDoAction ==
  LET k == m_buffer[at.arg]
  IN  /\ Running("removed")
      /\ IChStatus' = [IChStatus EXCEPT ![at.arg] = "CLIENT_LOGOUT"]
      /\ bev' = [bev EXCEPT ![k] = Freed(k)]
      /\ out' = [out EXCEPT ![k] = <<>>] /\ wire' = [wire EXCEPT ![k] = <<>>]
      /\ at' = Place("freed", at.arg, NoClient)
      /\ UNCHANGED <<m_nWorkStatus, resVars, m_buffer, m_Inputevbuffer, logins,
                     logouts, ctx, peer, sent, got>>
Clear_StaysLoggedIn ==
  LET c == at.arg
      k == m_buffer[c]
  IN  /\ Running("removed")
      /\ m_Inputevbuffer' = [m_Inputevbuffer EXCEPT ![c] = Rest(c)]
      /\ bev' = [bev EXCEPT ![k] = Freed(k)]
      /\ out' = [out EXCEPT ![k] = <<>>] /\ wire' = [wire EXCEPT ![k] = <<>>]
      /\ at' = Place("freed", at.arg, NoClient)
      /\ UNCHANGED <<m_nWorkStatus, resVars, IChStatus, m_buffer, logins,
                     logouts, ctx, peer, sent, got>>

(* Clear handles the buffer once more; what that writes, and what was not  *)
(* flushed before, goes with the bufferevent.                              *)
Clear ==
  LET c == at.arg
      k == m_buffer[c]
  IN  /\ Running("removed")
      /\ m_Inputevbuffer' = [m_Inputevbuffer EXCEPT ![c] = Rest(c)]
      /\ IChStatus' = [IChStatus EXCEPT ![c] = "CLIENT_LOGOUT"]
      /\ bev' = [bev EXCEPT ![k] = Freed(k)]
      /\ out' = [out EXCEPT ![k] = <<>>] /\ wire' = [wire EXCEPT ![k] = <<>>]
      /\ at' = Place("freed", at.arg, NoClient)
      /\ UNCHANGED <<m_nWorkStatus, resVars, m_buffer, logins, logouts, ctx,
                     peer, sent, got>>

(* Mutated: the Logout hook is not called. *)
Logout_NotCalled ==
  /\ Running("freed")
  /\ m_buffer' = [m_buffer EXCEPT ![at.arg] = NoClient]
  /\ at' = [at EXCEPT !.op = "logout"]
  /\ UNCHANGED <<m_nWorkStatus, resVars, IChStatus, m_Inputevbuffer, logins,
                 logouts, clientVars>>

(* The end of Clear, with the Logout hook.                                 *)
Logout ==
  /\ Running("freed")
  /\ m_buffer' = [m_buffer EXCEPT ![at.arg] = NoClient]
  /\ logouts' = [logouts EXCEPT ![at.arg] = @ + 1]
  /\ at' = [at EXCEPT !.op = "logout"]
  /\ UNCHANGED <<m_nWorkStatus, resVars, IChStatus, m_Inputevbuffer, logins,
                 clientVars>>

(* The end of SocketFdDel: the channel is free again.                      *)
SocketFdDel ==
  /\ Running("logout")
  /\ m_queueILoop' = Append(m_queueILoop, at.arg)
  /\ at' = AtLoop
  /\ UNCHANGED <<m_nWorkStatus, m_listConnectClient, deleted, channelVars,
                 clientVars>>

-----------------------------------------------------------------------------
(* SIG_HANDLE interrupts the thread wherever it is: SyinxKernel::Close and *)
(* SyinxAdapterResource::Close.  A second signal finds SYINX_LINK_CLOSE    *)
(* and does nothing.                                                       *)

SIG_HANDLE ==
  /\ m_nWorkStatus = "SYINX_LINK_WORK"
  /\ m_nWorkStatus' = "SYINX_LINK_CLOSE"
  /\ m_queueILoop' = m_queueILoop \o m_listConnectClient
  /\ UNCHANGED <<at, m_listConnectClient, deleted, channelVars, clientVars>>

(* Pop a channel; Clear, Close and delete it.                              *)
CloseChannel ==
  LET c == Head(m_queueILoop)
      k == m_buffer[c]
  IN  /\ m_nWorkStatus = "SYINX_LINK_CLOSE" /\ m_queueILoop # <<>>
      /\ m_queueILoop' = Tail(m_queueILoop)
      /\ m_Inputevbuffer' = [m_Inputevbuffer EXCEPT ![c] = Rest(c)]
      /\ IChStatus' = [IChStatus EXCEPT ![c] = "CLIENT_LOGOUT"]
      /\ IF k \in Clients
         THEN /\ bev' = [bev EXCEPT ![k] = Freed(k)]
              /\ out' = [out EXCEPT ![k] = <<>>] /\ wire' = [wire EXCEPT ![k] = <<>>]
              /\ m_buffer' = [m_buffer EXCEPT ![c] = NoClient]
         ELSE UNCHANGED <<m_buffer, bev, wire, out>>
      /\ logouts' = [logouts EXCEPT ![c] = @ + 1]
      /\ deleted' = deleted \cup {c}
      /\ UNCHANGED <<m_nWorkStatus, at, m_listConnectClient, logins, ctx, peer,
                     sent, got>>

(* The rest of SyinxKernel::Close ends in exit(0).                         *)
Exit ==
  /\ m_nWorkStatus = "SYINX_LINK_CLOSE" /\ m_queueILoop = <<>>
  /\ m_nWorkStatus' = "exit"
  /\ UNCHANGED <<at, resVars, channelVars, clientVars>>

-----------------------------------------------------------------------------
ClientStep(k) ==
  \/ Send(k) \/ Leave(k)
  \/ ListenFails(k) \/ Refuse(k) \/ AllocationIChannel(k)
  \/ SyinxKernel_Recv_Cb(k) \/ Writev(k) \/ Flush(k)
  \/ SyinxKernel_Event_Cb(k)

Next ==
  \/ \E k \in Clients : ClientStep(k)
  \/ OnClientConnect \/ SocketFdAdd
  \/ GameServerDoAction \/ OnStatusDoAction
  \/ Clear \/ Logout \/ SocketFdDel
  \/ SIG_HANDLE \/ CloseChannel \/ Exit

Spec == Init /\ [][Next]_vars

(* No callback of a connected client is ready.                             *)
Quiet == \A k \in Clients :
           bev[k] = "open" => wire[k] = <<>> /\ out[k] = <<>> /\ ~Gone(k)

(* event_base_loop runs every ready callback before it returns, TCPRun     *)
(* calls it and GameServerDoAction again and again, and a handler that has *)
(* begun runs on.  But event_base_loop returns only when it finds nothing  *)
(* ready, so a frame is sure to come only when all are quiet; and nothing  *)
(* is assumed of when a writev ends, except that a broken connection ends  *)
(* it.  Clients and signals are free to do nothing; that each client sends *)
(* MaxSend bytes at most is what lets the loop become quiet.               *)
Fairness ==
  /\ \A k \in Clients : /\ SF_vars(SyinxKernel_Recv_Cb(k))
                        /\ SF_vars(Writev(k))
                        /\ SF_vars(SyinxKernel_Event_Cb(k))
  /\ WF_vars(Quiet /\ GameServerDoAction)
  /\ WF_vars(\/ OnClientConnect \/ SocketFdAdd \/ OnStatusDoAction
             \/ Clear \/ Logout \/ SocketFdDel \/ CloseChannel \/ Exit)

FairSpec == Spec /\ Fairness

-----------------------------------------------------------------------------
(* Properties.                                                             *)

(* Every variable has its type; the callbacks of an open bufferevent have  *)
(* a channel.                                                              *)
TypeOK ==
  /\ m_nWorkStatus \in {"SYINX_LINK_WORK", "SYINX_LINK_CLOSE", "exit"}
  /\ at \in Places
  /\ m_queueILoop \in Seq(Channels)
  /\ m_listConnectClient \in Seq(Channels)
  /\ deleted \in SUBSET Channels
  /\ IChStatus \in [Channels -> {"CLIENT_LOGIN", "CLIENT_LOGOUT"}]
  /\ m_buffer \in [Channels -> Clients \cup {NoClient}]
  /\ m_Inputevbuffer \in [Channels -> Seq(Bytes)]
  /\ logins \in [Channels -> Nat] /\ logouts \in [Channels -> Nat]
  /\ bev \in [Clients -> {"none", "open", "leaked", "refused", "freed", "freed twice"}]
  /\ ctx \in [Clients -> 0 .. ConnectNum]
  /\ \A k \in Clients : bev[k] = "open" => ctx[k] \in Channels
  /\ peer \in [Clients -> {"up", "eof", "error"}]
  /\ wire \in [Clients -> Seq(Bytes)]
  /\ out \in [Clients -> Seq(Bytes)]
  /\ sent \in [Clients -> 0 .. MaxSend]
  /\ got \in [Clients -> Seq(Bytes)]

NoRepeats(s) == \A i, j \in 1 .. Len(s) : s[i] = s[j] => i = j

(* Until Close has begun, every channel is in exactly one place: once in   *)
(* the queue of free channels, once in the list of those in use, or in the *)
(* hands of the one handler that moves it; afterwards, still to be closed, *)
(* deleted, or in the hands of the interrupted handler.  So no channel is  *)
(* lost, handed to two clients, or deleted twice.                          *)
ChannelsAccounted ==
  /\ NoRepeats(m_queueILoop) /\ NoRepeats(m_listConnectClient)
  /\ InFlight \cap (Elements(m_queueILoop) \cup Elements(m_listConnectClient)) = {}
  /\ m_nWorkStatus = "SYINX_LINK_WORK" =>
       /\ Elements(m_queueILoop) \cap Elements(m_listConnectClient) = {}
       /\ Elements(m_queueILoop) \cup Elements(m_listConnectClient) \cup InFlight
            = Channels
  /\ m_nWorkStatus # "SYINX_LINK_WORK" =>
       /\ Elements(m_queueILoop) \cap deleted = {}
       /\ Elements(m_queueILoop) \cup deleted \cup InFlight = Channels

(* A channel and its client's bufferevent point at each other from the     *)
(* moment the channel is in the list until it is out of it, and a free     *)
(* channel is logged out and points at nothing: a callback never reaches   *)
(* another client's channel.                                               *)
ChannelOwnsClient ==
  m_nWorkStatus = "SYINX_LINK_WORK" =>
    /\ \A c \in Elements(m_listConnectClient) :
         /\ m_buffer[c] \in Clients
         /\ ctx[m_buffer[c]] = c /\ bev[m_buffer[c]] = "open"
         /\ IChStatus[c] = "CLIENT_LOGIN"
    /\ \A k \in Clients : bev[k] = "open" =>
         \/ ctx[k] \in Elements(m_listConnectClient) /\ m_buffer[ctx[k]] = k
         \/ at.op = "alloc" /\ at.arg = ctx[k] /\ at.who = k
         \/ at.op = "login" /\ at.arg = ctx[k] /\ m_buffer[ctx[k]] = k
         \/ at.op = "removed" /\ at.arg = ctx[k] /\ m_buffer[ctx[k]] = k
    /\ \A c \in Elements(m_queueILoop) :
         m_buffer[c] = NoClient /\ IChStatus[c] = "CLIENT_LOGOUT"

(* No bufferevent is freed twice, whichever statement of AllocationIChannel *)
(* or SocketFdDel the signal interrupts.                                   *)
FreedOnce == \A k \in Clients : bev[k] # "freed twice"

(* A channel's player has been told of one login more than of logouts just *)
(* while the channel is in use, from the Login hook to the Logout hook,    *)
(* and of one logout more by its deletion: so Close logs out those who are *)
(* in, and as well every player of a free channel, who never came in or    *)
(* has logged out already.  The one Close does not reach is the channel in *)
(* the hands of the handler that the signal interrupted: if its player had *)
(* been told of the login and not of the logout, it never is.              *)
InUse(c) == \/ c \in Elements(m_listConnectClient)
            \/ at.op \in {"login", "removed", "freed"} /\ at.arg = c
HooksBalanced ==
  \A c \in Channels :
    logins[c] - logouts[c] =
      (IF InUse(c) THEN 1 ELSE 0) - (IF c \in deleted THEN 1 ELSE 0)

(* s ends with all bytes client k has sent, in order, and holds none of    *)
(* them before.                                                            *)
EndsWithAllOf(s, k) ==
  LET n == Len(s) - sent[k]
  IN  /\ n >= 0
      /\ \A i \in 1 .. Len(s) : IF i <= n THEN s[i][1] # k ELSE s[i] = <<k, i - n>>

(* While a client is connected, none of its bytes is lost, repeated or     *)
(* overtaken on the way through the channel and back, also when the        *)
(* channel holds more than one frame takes; and what the channel held for  *)
(* another client before is ahead of them.                                 *)
EchoInOrder ==
  m_nWorkStatus = "SYINX_LINK_WORK" =>
    \A k \in Clients : bev[k] = "open" =>
      EndsWithAllOf(got[k] \o out[k] \o m_Inputevbuffer[ctx[k]] \o wire[k], k)

(* A client is sent another client's bytes only if some client sent more   *)
(* than one frame takes: Clear handles the buffer once.                    *)
IsolatedIfSmall ==
  (\E k \in Clients : \E b \in Elements(got[k]) : b[1] # k)
  => \E k \in Clients : sent[k] > BUFFSIZE

(* The server hands out ConnectNum channels, each to one client at a time, *)
(* refuses a client only when all are taken, and takes a channel back only *)
(* from its own client.                                                    *)
Limit == INSTANCE ConnectionLimit WITH
           owner <- [c \in Channels |-> IF c \in Elements(m_listConnectClient)
                                        THEN m_buffer[c] ELSE NoClient],
           turnedAway <- {k \in Clients : bev[k] = "refused"}

ImplementsConnectionLimit == Limit!Spec

(* The loop stands in the writev to client k, which is there and does not  *)
(* read: nobody else is served.                                            *)
StandsFor(k) == at.op = "writev" /\ at.who = k /\ peer[k] # "error"

(* Again and again no client misses a byte that it sent: each comes back,  *)
(* also behind others in the channel and over several frames, unless its   *)
(* client leaves or the server is closed; and the only thing else that can *)
(* prevent it is some client that does not read, for which the loop stands *)
(* for good.                                                               *)
EchoArrives ==
  \/ \E j \in Clients : <>[]StandsFor(j)
  \/ []<>(\A k \in Clients :
            \/ \A n \in 1 .. sent[k] : <<k, n>> \in Elements(got[k])
            \/ peer[k] # "up" \/ m_nWorkStatus # "SYINX_LINK_WORK")

(* Again and again no client that left has a channel: it lets go of the    *)
(* client and can serve the next, unless the server is closed before, or   *)
(* the loop stands for good in the writev to a client that does not read.  *)
ChannelComesBack ==
  \/ \E j \in Clients : <>[]StandsFor(j)
  \/ []<>(\A k \in Clients :
            peer[k] # "up" => \/ bev[k] = "freed" /\ m_buffer[ctx[k]] # k
                              \/ m_nWorkStatus # "SYINX_LINK_WORK")

(* SyTaskAdapter.h:140 says Clear is there to clear the client's buffer    *)
(* when the client leaves: what it left should not be sent to the next.    *)
BufferCleared ==
  \A k \in Clients : \A b \in Elements(got[k]) : b[1] = k
=============================================================================
