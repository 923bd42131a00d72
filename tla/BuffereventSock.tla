--------------------------- MODULE BuffereventSock ---------------------------
(***************************************************************************)
(* The bufferevents between the server's callbacks and its sockets:        *)
(* bufferevent_sock.c with what it calls of bufferevent.c, buffer.c and    *)
(* evutil.c, driven by the rounds of event_base_loop and the frames of     *)
(* TCPRun.  An Accepted connection is a client's: Recv_Cb moves its bytes  *)
(* to the channel, each frame echoes at most BUFFSIZE of them, Event_Cb    *)
(* echoes once more and frees the bufferevent when it is told of the end.  *)
(* An Outgoing one is SConnect's: its bufferevent stays when it is told of *)
(* the end.                                                                *)
(*                                                                         *)
(* A callback of the loop is one step, except a writev that blocks: the    *)
(* listener leaves the sockets it accepts in blocking mode.  The event     *)
(* base (module EventBase) appears here as the list of the callbacks of    *)
(* the round: the event added last is the first of its socket, a deleted   *)
(* event leaves the round, a finalizer goes to its end.                    *)
(*                                                                         *)
(* The bytes of a connection are the numbers 1, 2, ... in the order in     *)
(* which its peer sends them.                                              *)
(***************************************************************************)
EXTENDS Integers, SequencesExt, Queues

CONSTANTS
  Accepted,    \* the connections clients make
  Outgoing,    \* the connections SConnect makes
  BUFFSIZE,    \* the most a frame echoes of a client
  MaxRead,     \* the most one call of evbuffer_read reads
  MaxWrite,    \* the most one call of evbuffer_write_atmost writes
  SndBuf,      \* the bytes a socket takes before its peer reads them
  MaxSend      \* bound on the number of bytes a peer sends

ASSUME BevAssumption ==
  /\ IsFiniteSet(Accepted \cup Outgoing) /\ Accepted \cap Outgoing = {}
  /\ MaxSend \in Nat
  /\ {BUFFSIZE, MaxRead, MaxWrite, SndBuf} \subseteq Nat \ {0}

VARIABLES
  loop,        \* "out" of event_base_loop, in a "round", in "writev", "killed"
  active,      \* the callbacks of the round: <<connection, "R", "W" or "F">>
  left,        \* what the blocked writev has still to copy
  copied,      \* what it has copied
  bev,         \* of each connection: its bufferevent
  pending,     \* of each: which of ev_read and ev_write is added, last first
  connecting, connection_refused,  \* of each: fields of the bufferevent
  told,        \* of each: what its event callback was told
  handed,      \* of each: the bytes its read callback was handed
  written,     \* of each: the bytes written to its output buffer
  flushed,     \* of each: how many of these were drained to the socket
  sent,        \* of each: how many bytes the peer sent
  rx, fin,     \* of each: what arrived and was not read: bytes, the end
  so_error,    \* of each: the error the socket reports next
  tx,          \* of each: bytes the socket has taken and the peer not read
  got,         \* of each: the bytes the peer has read
  peer         \* of each: "none", "syn", "absent", "open" or "closed"

loopVars == <<loop, active, left, copied>>
bevVars  == <<bev, pending, connecting, connection_refused, told>>
dataVars == <<handed, written, flushed>>
sockVars == <<sent, rx, fin, so_error, tx, got, peer>>
vars == <<loopVars, bevVars, dataVars, sockVars>>

Conns == Accepted \cup Outgoing
Callbacks == Conns \X {"R", "W", "F"}
Smaller(m, n) == IF m < n THEN m ELSE n
Drop(s, n) == SubSeq(s, n + 1, Len(s))

output(k) == Drop(written[k], flushed[k])
Room(k) == SndBuf - Len(tx[k])

Init ==
  /\ loop = "out" /\ active = <<>> /\ left = 0 /\ copied = 0
  /\ bev = [k \in Conns |-> "none"]
  /\ pending = [k \in Conns |-> <<>>]
  /\ connecting = [k \in Conns |-> FALSE]
  /\ connection_refused = [k \in Conns |-> FALSE]
  /\ told = [k \in Conns |-> <<>>]
  /\ handed = [k \in Conns |-> <<>>]
  /\ written = [k \in Conns |-> <<>>]
  /\ flushed = [k \in Conns |-> 0]
  /\ sent = [k \in Conns |-> 0]
  /\ rx = [k \in Conns |-> <<>>]
  /\ fin = [k \in Conns |-> FALSE]
  /\ so_error = [k \in Conns |-> "none"]
  /\ tx = [k \in Conns |-> <<>>]
  /\ got = [k \in Conns |-> <<>>]
  /\ peer = [k \in Conns |-> IF k \in Accepted THEN "open" ELSE "none"]

-----------------------------------------------------------------------------
(* The peers and the network.  The bytes of a client may arrive before it  *)
(* is accepted; what is sent to a socket the server has closed is nowhere. *)

HasSocket(k) == bev[k] # "freed" /\ loop # "killed"

PeerSend(k) ==
  /\ HasSocket(k) /\ peer[k] = "open" /\ sent[k] < MaxSend
  /\ sent' = [sent EXCEPT ![k] = @ + 1]
  /\ rx' = [rx EXCEPT ![k] = Append(@, sent[k] + 1)]
  /\ UNCHANGED <<loopVars, bevVars, dataVars, fin, so_error, tx, got, peer>>

PeerRead(k) ==
  /\ peer[k] = "open" /\ tx[k] # <<>>
  /\ got' = [got EXCEPT ![k] = Append(@, Head(tx[k]))]
  /\ tx' = [tx EXCEPT ![k] = Tail(@)]
  /\ UNCHANGED <<loopVars, bevVars, dataVars, sent, rx, fin, so_error, peer>>

(* The peer closes its socket: the end arrives behind its bytes.  If it    *)
(* has bytes left to read, or goes down, the connection is reset.          *)
PeerClose(k) ==
  /\ HasSocket(k) /\ peer[k] = "open"
  /\ peer' = [peer EXCEPT ![k] = "closed"]
  /\ \/ fin' = [fin EXCEPT ![k] = TRUE] /\ UNCHANGED <<so_error, tx>>
     \/ /\ so_error' = [so_error EXCEPT ![k] = "ECONNRESET"]
        /\ tx' = [tx EXCEPT ![k] = <<>>]
        /\ UNCHANGED fin
  /\ UNCHANGED <<loopVars, bevVars, dataVars, sent, rx, got>>

(* What the server wrote reaches a peer that has closed and is answered    *)
(* with a reset.                                                           *)
PeerResets(k) ==
  /\ HasSocket(k) /\ peer[k] = "closed" /\ fin[k] /\ tx[k] # <<>>
  /\ so_error' = [so_error EXCEPT ![k] = "EPIPE"]
  /\ tx' = [tx EXCEPT ![k] = <<>>]
  /\ UNCHANGED <<loopVars, bevVars, dataVars, sent, rx, fin, got, peer>>

(* The other server answers SConnect's SYN, refuses, or does not answer.   *)
PeerAnswers(k) ==
  /\ peer[k] = "syn"
  /\ \/ peer' = [peer EXCEPT ![k] = "open"] /\ UNCHANGED so_error
     \/ /\ peer' = [peer EXCEPT ![k] = "absent"]
        /\ \E e \in {"ECONNREFUSED", "ETIMEDOUT"} :
             so_error' = [so_error EXCEPT ![k] = e]
  /\ UNCHANGED <<loopVars, bevVars, dataVars, sent, rx, fin, tx, got>>

-----------------------------------------------------------------------------
(* event_base_loop.                                                        *)

Readable(k)  == rx[k] # <<>> \/ fin[k] \/ so_error[k] # "none"
Writeable(k) == peer[k] # "syn" /\ (Room(k) > 0 \/ so_error[k] # "none")

(* The events that the poll reports.                                       *)
Fired == {a \in Conns \X {"R", "W"} :
            /\ Contains(pending[a[1]], a[2])
            /\ IF a[2] = "R" THEN Readable(a[1]) ELSE Writeable(a[1])}

(* The callbacks of a socket follow each other, in the order of evmap's    *)
(* list.                                                                   *)
SocketBySocket(q) ==
  \A i, j \in DOMAIN q : i < j /\ q[i][1] = q[j][1] =>
    j = i + 1 /\ q[i][2] = pending[q[i][1]][1]

(* The sockets are polled: those that are ready make a round, in any order *)
(* of the sockets; when there is none the loop returns, as it is called    *)
(* with EVLOOP_NONBLOCK.                                                   *)
Poll ==
  /\ loop = "round" /\ active = <<>>
  /\ \/ /\ Fired # {}
        /\ \E q \in SetToSeqs(Fired) : SocketBySocket(q) /\ active' = q
        /\ UNCHANGED loop
     \/ Fired = {} /\ loop' = "out" /\ UNCHANGED active
  /\ UNCHANGED <<left, copied, bevVars, dataVars, sockVars>>

Runs(k, cb) == loop = "round" /\ active # <<>> /\ Head(active) = <<k, cb>>
Others(k) == Without(Tail(active), {k} \X {"R", "W", "F"})

(* The callback ends with both events of the connection deleted.           *)
DeleteBoth(k) ==
  /\ pending' = [pending EXCEPT ![k] = <<>>]
  /\ active' = Others(k)

(* The callback ends with one event deleted.                               *)
DeleteOne(k, e) ==
  /\ pending' = [pending EXCEPT ![k] = Without(@, {e})]
  /\ active' = Without(Tail(active), {<<k, e>>})

KeepBoth == active' = Tail(active) /\ UNCHANGED pending

-----------------------------------------------------------------------------
(* The event callback is told what has happened.  SyinxKernel_Event_Cb     *)
(* frees a client's bufferevent when it is the end: the last reference is  *)
(* dropped when the callback of the socket returns, and the finalizer      *)
(* takes the place of the two events.                                      *)

Tell(k, what) == told' = [told EXCEPT ![k] = Append(@, what)]

(* Mutated: the callbacks of the round are not cancelled. *)
bufferevent_free_NoCancel(k) ==
  /\ bev' = [bev EXCEPT ![k] = "closing"]
  /\ pending' = [pending EXCEPT ![k] = <<>>]
  /\ active' = Append(Tail(active), <<k, "F">>)
bufferevent_free(k) ==
  /\ bev' = [bev EXCEPT ![k] = "closing"]
  /\ pending' = [pending EXCEPT ![k] = <<>>]
  /\ active' = Append(Others(k), <<k, "F">>)

(* OnStatusDoAction: at most BUFFSIZE of the bytes the channel holds are   *)
(* written back.                                                           *)
Echoed(k) == SubSeq(handed[k], 1,
                    Smaller(Len(handed[k]), Len(written[k]) + BUFFSIZE))

(* Mutated: be_socket_disable forgets that ev_write waits for the connect. *)
Ends_ForgetsConnect(k, e, what) ==
  /\ Tell(k, what)
  /\ IF k \in Accepted
     THEN bufferevent_free(k) /\ written' = [written EXCEPT ![k] = Echoed(k)]
     ELSE UNCHANGED <<bev, written>> /\ DeleteBoth(k)

(* The end of readcb and writecb at their label error: e is disabled, but  *)
(* not ev_write while it connects.  A client's channel is cleared: it      *)
(* echoes once more, for which outbuf_cb may add ev_write again, and what  *)
(* the output buffer then holds goes with the bufferevent.                 *)
Ends(k, e, what) ==
  /\ Tell(k, what)
  /\ IF k \in Accepted
     THEN bufferevent_free(k) /\ written' = [written EXCEPT ![k] = Echoed(k)]
     ELSE UNCHANGED <<bev, written>> /\ DeleteOne(k, e)

-----------------------------------------------------------------------------
(* Connections are made.                                                   *)

Served == {k \in Accepted : bev[k] = "open"}

(* The listener's callback: AllocationIChannel enables reading and writing *)
(* of the new bufferevent, or, when other clients hold all channels        *)
(* (module SyResAdapter), frees it.                                        *)
SyinxKernel_Listen_CB(k) ==
  /\ loop = "round" /\ bev[k] = "none"
  /\ \/ /\ bev' = [bev EXCEPT ![k] = "open"]
        /\ pending' = [pending EXCEPT ![k] = <<"W", "R">>]
        /\ UNCHANGED active
     \/ /\ bev' = [bev EXCEPT ![k] = "closing"]
        /\ active' = Append(active, <<k, "F">>)
        /\ UNCHANGED pending
  /\ UNCHANGED <<loop, left, copied, connecting, connection_refused, told,
                 dataVars, sockVars>>

(* Mutated: connecting does not wait for the socket to be writeable. *)
SConnect_Connect_NoWrite(k) ==
  /\ loop = "out" /\ bev[k] = "none"
  /\ bev' = [bev EXCEPT ![k] = "open"]
  /\ pending' = [pending EXCEPT ![k] = <<"R">>]
  /\ connecting' = [connecting EXCEPT ![k] = TRUE]
  /\ peer' = [peer EXCEPT ![k] = "syn"]
  /\ UNCHANGED <<loopVars, connection_refused, told, dataVars, sent, rx, fin,
                 so_error, tx, got>>

(* SConnect::Connect: bufferevent_socket_connect begins to connect and     *)
(* waits for the socket to be writeable, and the reading is enabled at     *)
(* once.  That connect() itself succeeds or is refused at once, before     *)
(* SConnect has set its callbacks, is left out: of a socket that does not  *)
(* block, TCP answers EINPROGRESS on Linux.                                *)
SConnect_Connect(k) ==
  /\ loop = "out" /\ bev[k] = "none"
  /\ bev' = [bev EXCEPT ![k] = "open"]
  /\ pending' = [pending EXCEPT ![k] = <<"R", "W">>]
  /\ connecting' = [connecting EXCEPT ![k] = TRUE]
  /\ peer' = [peer EXCEPT ![k] = "syn"]
  /\ UNCHANGED <<loopVars, connection_refused, told, dataVars, sent, rx, fin,
                 so_error, tx, got>>

-----------------------------------------------------------------------------
(* bufferevent_readcb.                                                     *)

(* evbuffer_read reads what there is, as far as MaxRead goes, and the read *)
(* callback moves all of it to the channel or the SConnect object.         *)
ReadData(k) ==
  LET n == Smaller(Len(rx[k]), MaxRead)
  IN  /\ Runs(k, "R") /\ rx[k] # <<>>
      /\ handed' = [handed EXCEPT ![k] = @ \o SubSeq(rx[k], 1, n)]
      /\ rx' = [rx EXCEPT ![k] = Drop(@, n)]
      /\ KeepBoth
      /\ UNCHANGED <<loop, left, copied, bev, connecting, connection_refused,
                     told, written, flushed, sent, fin, so_error, tx, got,
                     peer>>

(* Mutated: readcb takes note of no refusal. *)
ReadError_Forgets(k) ==
  /\ Runs(k, "R") /\ rx[k] = <<>> /\ so_error[k] # "none"
  /\ so_error' = [so_error EXCEPT ![k] = "none"]
  /\ IF so_error[k] = "ECONNREFUSED"
     THEN KeepBoth /\ UNCHANGED <<bev, told, written>>
     ELSE Ends(k, "R", "error")
  /\ UNCHANGED <<loop, left, copied, connecting, connection_refused, handed,
                 flushed, sent, rx, fin, tx, got, peer>>

(* The socket reports its error, which clears it.  That a connection was   *)
(* refused is left for writecb to tell.                                    *)
ReadError(k) ==
  /\ Runs(k, "R") /\ rx[k] = <<>> /\ so_error[k] # "none"
  /\ so_error' = [so_error EXCEPT ![k] = "none"]
  /\ IF so_error[k] = "ECONNREFUSED"
     THEN /\ connection_refused' = [connection_refused EXCEPT ![k] = TRUE]
          /\ KeepBoth
          /\ UNCHANGED <<bev, told, written>>
     ELSE Ends(k, "R", "error") /\ UNCHANGED connection_refused
  /\ UNCHANGED <<loop, left, copied, connecting, handed, flushed, sent, rx,
                 fin, tx, got, peer>>

(* Mutated: the end is told though bytes are left to read. *)
ReadEOF_Early(k) ==
  /\ Runs(k, "R") /\ fin[k]
  /\ Ends(k, "R", "eof")
  /\ UNCHANGED <<loop, left, copied, connecting, connection_refused, handed,
                 flushed, sockVars>>
ReadEOF(k) ==
  /\ Runs(k, "R") /\ rx[k] = <<>> /\ so_error[k] = "none" /\ fin[k]
  /\ Ends(k, "R", "eof")
  /\ UNCHANGED <<loop, left, copied, connecting, connection_refused, handed,
                 flushed, sockVars>>

-----------------------------------------------------------------------------
(* bufferevent_writecb.                                                    *)

(* The connect has failed: getsockopt reports the error, or readcb has     *)
(* left that it was refused.                                               *)
ConnectFailed(k) ==
  /\ Runs(k, "W") /\ connecting[k]
  /\ so_error[k] # "none" \/ connection_refused[k]
  /\ so_error' = [so_error EXCEPT ![k] = "none"]
  /\ connection_refused' = [connection_refused EXCEPT ![k] = FALSE]
  /\ connecting' = [connecting EXCEPT ![k] = FALSE]
  /\ Tell(k, "error")
  /\ DeleteBoth(k)
  /\ UNCHANGED <<loop, left, copied, bev, dataVars, sent, rx, fin, tx, got,
                 peer>>

(* getsockopt reports no error: the socket counts as connected.  SConnect  *)
(* writes nothing, so that ev_write is deleted.                            *)
Connected(k) ==
  /\ Runs(k, "W") /\ connecting[k]
  /\ so_error[k] = "none" /\ ~connection_refused[k]
  /\ connecting' = [connecting EXCEPT ![k] = FALSE]
  /\ Tell(k, "connected")
  /\ DeleteOne(k, "W")
  /\ UNCHANGED <<loop, left, copied, bev, connection_refused, dataVars,
                 sockVars>>

(* The buffer is empty, as it is when a client was just accepted.          *)
WriteNothing(k) ==
  /\ Runs(k, "W") /\ ~connecting[k] /\ output(k) = <<>>
  /\ DeleteOne(k, "W")
  /\ UNCHANGED <<loop, left, copied, bev, connecting, connection_refused, told,
                 dataVars, sockVars>>

(* Mutated: ev_write is deleted after the first write. *)
Written_DeletesAlways(k, n) ==
  /\ flushed' = [flushed EXCEPT ![k] = @ + n]
  /\ DeleteOne(k, "W")

(* evbuffer_write_atmost drains the n bytes that were written, and the     *)
(* event is deleted when the buffer is empty.                              *)
Written(k, n) ==
  /\ flushed' = [flushed EXCEPT ![k] = @ + n]
  /\ IF n = Len(output(k)) THEN DeleteOne(k, "W") ELSE KeepBoth

(* The n bytes after the first from of the output buffer go to the socket. *)
Copy(k, from, n) ==
  tx' = [tx EXCEPT ![k] = @ \o SubSeq(output(k), from + 1, from + n)]

(* writev: all that is wanted fits, or the call blocks with what does.     *)
Writev(k) ==
  LET want == Smaller(Len(output(k)), MaxWrite)
      n    == Smaller(want, Room(k))
  IN  /\ Runs(k, "W") /\ ~connecting[k] /\ output(k) # <<>>
      /\ so_error[k] = "none"
      /\ Copy(k, 0, n)
      /\ \/ n = want /\ Written(k, n) /\ UNCHANGED <<loop, left, copied>>
         \/ /\ n < want
            /\ loop' = "writev" /\ left' = want - n /\ copied' = n
            /\ UNCHANGED <<active, pending, flushed>>
      /\ UNCHANGED <<bev, connecting, connection_refused, told, handed,
                     written, sent, rx, fin, so_error, got, peer>>

(* The blocked call goes on as the peer reads, and returns when it is done *)
(* or, with what it has copied, when the connection is reset.              *)
WritevGoesOn(k) ==
  LET n == Smaller(left, Room(k))
  IN  /\ loop = "writev" /\ Head(active) = <<k, "W">>
      /\ so_error[k] = "none" /\ n > 0
      /\ Copy(k, copied, n)
      /\ \/ /\ n = left
            /\ loop' = "round" /\ left' = 0 /\ copied' = 0
            /\ Written(k, copied + n)
         \/ /\ n < left
            /\ left' = left - n /\ copied' = copied + n
            /\ UNCHANGED <<loop, active, pending, flushed>>
      /\ UNCHANGED <<bev, connecting, connection_refused, told, handed,
                     written, sent, rx, fin, so_error, got, peer>>

WritevCutShort(k) ==
  /\ loop = "writev" /\ Head(active) = <<k, "W">> /\ so_error[k] # "none"
  /\ loop' = "round" /\ left' = 0 /\ copied' = 0
  /\ Written(k, copied)
  /\ UNCHANGED <<bev, connecting, connection_refused, told, handed, written,
                 sockVars>>

(* The socket is reset.  Was the reset the answer to what was written      *)
(* after the end of the peer, the kernel sends SIGPIPE, which RegisterSignal *)
(* leaves to its default; the process ends.                                *)
WriteError(k) ==
  /\ Runs(k, "W") /\ ~connecting[k] /\ output(k) # <<>>
  /\ so_error[k] # "none"
  /\ so_error' = [so_error EXCEPT ![k] = "none"]
  /\ IF so_error[k] = "EPIPE"
     THEN loop' = "killed" /\ UNCHANGED <<active, bev, pending, told, written>>
     ELSE Ends(k, "W", "error") /\ UNCHANGED loop
  /\ UNCHANGED <<left, copied, connecting, connection_refused, handed, flushed,
                 sent, rx, fin, tx, got, peer>>

-----------------------------------------------------------------------------
(* bufferevent_finalize_cb_ closes the socket.  Bytes that were not read,  *)
(* or an earlier reset, lose what the peer has not read; nothing of the    *)
(* socket is used afterwards.                                              *)
bufferevent_finalize_cb_(k) ==
  /\ Runs(k, "F")
  /\ bev' = [bev EXCEPT ![k] = "freed"]
  /\ active' = Tail(active)
  /\ tx' = IF rx[k] = <<>> THEN tx ELSE [tx EXCEPT ![k] = <<>>]
  /\ rx' = [rx EXCEPT ![k] = <<>>]
  /\ UNCHANGED <<loop, left, copied, pending, connecting, connection_refused,
                 told, dataVars, sent, fin, so_error, got, peer>>

-----------------------------------------------------------------------------
(* TCPRun, outside of event_base_loop.                                     *)

(* Mutated: outbuf_cb adds ev_write only behind an empty list. *)
outbuf_cb_OnlyFirst(k, n) ==
  IF n > 0 /\ pending[k] = <<>> THEN <<"W">> ELSE pending[k]

(* bufferevent_socket_outbuf_cb: n bytes were added; ev_write is added in  *)
(* front of the socket's list, unless it was added before.                 *)
outbuf_cb(k, n) ==
  IF n > 0 /\ ~Contains(pending[k], "W")
  THEN <<"W">> \o pending[k] ELSE pending[k]

(* A frame: every client in the list gets its next bytes echoed.           *)
Frame ==
  /\ loop = "out"
  /\ loop' = "round"
  /\ written' = [k \in Conns |-> IF k \in Served THEN Echoed(k) ELSE written[k]]
  /\ pending' = [k \in Conns |->
                   IF k \in Served
                   THEN outbuf_cb(k, Len(Echoed(k)) - Len(written[k]))
                   ELSE pending[k]]
  /\ UNCHANGED <<active, left, copied, bev, connecting, connection_refused,
                 told, handed, flushed, sockVars>>

(* It is not time for a frame yet: TCPRun calls event_base_loop again.     *)
Skip ==
  /\ loop = "out"
  /\ loop' = "round"
  /\ UNCHANGED <<active, left, copied, bevVars, dataVars, sockVars>>

-----------------------------------------------------------------------------
ReadCb(k)  == ReadData(k) \/ ReadError(k) \/ ReadEOF(k)
WriteCb(k) == \/ ConnectFailed(k) \/ Connected(k) \/ WriteNothing(k)
              \/ Writev(k) \/ WritevGoesOn(k) \/ WritevCutShort(k)
              \/ WriteError(k)

Loop == \/ Poll \/ Frame \/ Skip
        \/ \E k \in Conns : \/ ReadCb(k) \/ WriteCb(k)
                            \/ bufferevent_finalize_cb_(k)
Env  == \/ \E k \in Conns : \/ PeerSend(k) \/ PeerRead(k) \/ PeerClose(k)
                            \/ PeerResets(k) \/ PeerAnswers(k)
        \/ \E k \in Accepted : SyinxKernel_Listen_CB(k)
        \/ \E k \in Outgoing : SConnect_Connect(k)

Next == Loop \/ Env

Spec == Init /\ [][Next]_vars

(* A callback that began ends, unless it stands in writev; sockets are     *)
(* polled again and again, frames come whenever the loop returns again and *)
(* again (module FrameLoop), a client that waits is found by the next      *)
(* poll, and a peer that has closed answers with a reset.  Nothing is      *)
(* assumed of what an open peer reads.  That each sends MaxSend bytes at   *)
(* most is what lets the loop return: a steady stream would keep it.       *)
FairSpec ==
  /\ Spec
  /\ WF_vars(Loop) /\ SF_vars(Frame)
  /\ \A k \in Accepted : SF_vars(SyinxKernel_Listen_CB(k))
  /\ \A k \in Conns : WF_vars(PeerResets(k))

-----------------------------------------------------------------------------
(* Properties.                                                             *)

Bytes == Seq(1 .. MaxSend)

TypeOK ==
  /\ loop \in {"out", "round", "writev", "killed"}
  /\ active \in Seq(Callbacks)
  /\ left \in 0 .. MaxWrite /\ copied \in 0 .. MaxWrite
  /\ bev \in [Conns -> {"none", "open", "closing", "freed"}]
  /\ pending \in [Conns -> {<<>>, <<"R">>, <<"W">>, <<"R", "W">>, <<"W", "R">>}]
  /\ connecting \in [Conns -> BOOLEAN]
  /\ connection_refused \in [Conns -> BOOLEAN]
  /\ told \in [Conns -> Seq({"connected", "eof", "error"})]
  /\ handed \in [Conns -> Bytes] /\ written \in [Conns -> Bytes]
  /\ flushed \in [Conns -> 0 .. MaxSend]
  /\ \A k \in Conns : flushed[k] <= Len(written[k])
  /\ sent \in [Conns -> 0 .. MaxSend]
  /\ rx \in [Conns -> Bytes] /\ tx \in [Conns -> Bytes]
  /\ got \in [Conns -> Bytes]
  /\ fin \in [Conns -> BOOLEAN]
  /\ so_error \in [Conns -> {"none", "ECONNRESET", "EPIPE", "ECONNREFUSED",
                             "ETIMEDOUT"}]
  /\ peer \in [Conns -> {"none", "syn", "absent", "open", "closed"}]
  /\ \A k \in Conns : Len(tx[k]) <= SndBuf

Ended(k) == Contains(told[k], "eof") \/ Contains(told[k], "error")

(* As long as a bufferevent is in use, the loop watches its socket for all *)
(* it waits for: to write while the output buffer holds bytes or a connect *)
(* is not answered, and to read until the end was told.  outbuf_cb adds    *)
(* ev_write only when it is not there, writecb deletes it only with the    *)
(* buffer empty, be_socket_disable keeps it while connecting.              *)
WaitsAreWatched ==
  \A k \in Conns : bev[k] = "open" =>
    /\ output(k) # <<>> \/ connecting[k] => Contains(pending[k], "W")
    /\ ~Ended(k) => Contains(pending[k], "R")

(* bufferevent_free, called from a callback of the bufferevent itself      *)
(* while its other callback may be next in the round, leaves one finalizer *)
(* and nothing else to run; the memory is freed once, after the last use.  *)
OnlyTheFinalizer ==
  /\ TypeOK
  /\ \A k \in Conns :
       LET its == {i \in DOMAIN active : active[i][1] = k}
       IN  /\ bev[k] = "closing" => /\ pending[k] = <<>>
                                    /\ \E i \in its : its = {i} /\ active[i][2] = "F"
           /\ bev[k] = "freed" => pending[k] = <<>> /\ its = {}
           /\ bev[k] = "open" => \A i \in its : active[i][2] # "F"

(* What the program was told of the end of a connection: an end told twice *)
(* is none that ByteStream knows.                                          *)
EndTold(k) ==
  LET ends == {i \in DOMAIN told[k] : told[k][i] # "connected"}
  IN  IF ends = {} THEN "none"
      ELSE IF \E i \in ends : ends = {i} THEN told[k][CHOOSE i \in ends : TRUE]
      ELSE "twice"

(* The stream that a connection is, and a step of it or of the others.     *)
Stream(k) == INSTANCE ByteStream WITH
  sent <- sent[k], handed <- handed[k], written <- written[k],
  got <- got[k], end <- EndTold(k)
StreamStep(k) ==
  Stream(k)!Next \/ UNCHANGED <<sent[k], handed[k], written[k], got[k], EndTold(k)>>

(* Each connection is a ByteStream: through read and write sizes, full     *)
(* socket buffers, blocked writes, resets and the end of the peer, no byte *)
(* is lost, doubled or moved before the end is told, an orderly end is     *)
(* told only behind the last byte, and no callback runs after it.          *)
IsByteStream ==
  (\A k \in Conns : Stream(k)!Init) /\ [][\A k \in Conns : StreamStep(k)]_vars

(* Peer k is there and does not read: its socket takes nothing more.  And  *)
(* the loop stands in the writev to it, so that nobody is served.          *)
DoesNotRead(k) == peer[k] = "open" /\ Room(k) = 0
StandsFor(k)   == loop = "writev" /\ Head(active) = <<k, "W">> /\ DoesNotRead(k)

(* All that a client sent is echoed to its socket as long as it stays and  *)
(* reads; the only thing of the other clients that can prevent it is that  *)
(* one does not read, so that the loop stands for it for good, or that one *)
(* brings the process down.                                                *)
EchoComesBack ==
  \/ \E j \in Conns : <>[]StandsFor(j)
  \/ \A k \in Accepted :
       \/ <>[]DoesNotRead(k)
       \/ \A n \in 1 .. MaxSend :
            sent[k] >= n ~> \/ Len(got[k]) + Len(tx[k]) >= n \/ peer[k] = "closed"
                            \/ bev[k] \in {"closing", "freed"} \/ loop = "killed"

(* Once the network has answered a connect, SConnect is told, unless the   *)
(* loop stands for good for a peer that does not read: readcb, which       *)
(* consumes the error of the socket, and writecb together leave no connect *)
(* without an answer.                                                      *)
ConnectIsAnswered ==
  \/ \E j \in Conns : <>[]StandsFor(j)
  \/ \A k \in Outgoing :
       connecting[k] /\ peer[k] # "syn" ~> told[k] # <<>> \/ loop = "killed"

(* A connect that was refused or timed out is not told to SConnect as a    *)
(* success, though readcb clears the error of the socket before writecb    *)
(* asks for it, unless it was told the error first.                        *)
SuccessIsTrue ==
  \A k \in Outgoing :
    told[k] # <<>> /\ told[k][1] = "connected" => peer[k] # "absent"

(* When the answer to a connect and the end of the connection, or its time *)
(* out, are found by one poll, readcb tells SConnect of the end, and then  *)
(* writecb, which finds no error left, of a success: SConnect lists the    *)
(* dead connection as up (Finish after DisConnect in module SyinxKernel).  *)
(* It comes in the same round, as be_socket_disable leaves ev_write while  *)
(* it connects, and once only: no later poll calls an ended connection up. *)
SuccessInTheRound ==
  \A k \in Outgoing :
    /\ connecting[k] /\ Ended(k) => Contains(active, <<k, "W">>)
    /\ \A i, j \in DOMAIN told[k] :
         told[k][i] = "connected" /\ told[k][j] = "connected" => i = j

(* Syinx.cpp:194: a client that goes away is an event of its connection,   *)
(* upon which it is removed.  The code: a frame echoes to a client that    *)
(* has closed, the reset arrives before the next poll, and in that round   *)
(* writecb runs first; writev raises SIGPIPE, which nothing handles.       *)
ServerSurvives == loop # "killed"
=============================================================================
