------------------------- MODULE SyResAdapterProofs --------------------------
(***************************************************************************)
(* What holds of the channels for any number of them, any number of        *)
(* clients, and a signal wherever Close could find a channel half moved:   *)
(* who owns what, and, in the second part, what a client is sent back:     *)
(* none of its bytes is lost, repeated or overtaken while it is connected, *)
(* and no other client's bytes reach it as long as nobody sends more than  *)
(* one frame takes.                                                        *)
(***************************************************************************)
EXTENDS SyResAdapter, SequenceTheorems, TLAPS

-----------------------------------------------------------------------------
(* Sequences as containers of channels.                                    *)

(* push of something new.                                                  *)
LEMMA AppendElements ==
  ASSUME NEW S, NEW s \in Seq(S), NEW e \in S
  PROVE  /\ Append(s, e) \in Seq(S)
         /\ Elements(Append(s, e)) = Elements(s) \cup {e}
         /\ NoRepeats(s) /\ e \notin Elements(s) => NoRepeats(Append(s, e))
<1>. DEFINE t == Append(s, e)
<1>1. /\ t \in Seq(S) /\ Len(t) = Len(s) + 1 /\ t[Len(s) + 1] = e
      /\ \A i \in 1 .. Len(s) : t[i] = s[i]
  OBVIOUS
<1>. HIDE DEF t
<1>2. Elements(t) = Elements(s) \cup {e}
  <2>1. ASSUME NEW x \in Elements(t)  PROVE x \in Elements(s) \cup {e}
    BY <1>1 DEF Elements
  <2>2. ASSUME NEW x \in Elements(s)  PROVE x \in Elements(t)
    BY <1>1 DEF Elements
  <2>3. e \in Elements(t)
    BY <1>1 DEF Elements
  <2>. QED  BY <2>1, <2>2, <2>3
<1>3. ASSUME NoRepeats(s), e \notin Elements(s)  PROVE NoRepeats(t)
  <2>. SUFFICES ASSUME NEW i \in 1 .. Len(t), NEW j \in 1 .. Len(t),
                       t[i] = t[j], i # j
                PROVE  FALSE
    BY DEF NoRepeats
  <2>1. CASE i \in 1 .. Len(s) /\ j \in 1 .. Len(s)
    BY <1>1, <1>3, <2>1 DEF NoRepeats
  <2>2. CASE i = Len(s) + 1 /\ j \in 1 .. Len(s)
    BY <1>1, <1>3, <2>2 DEF Elements
  <2>3. CASE j = Len(s) + 1 /\ i \in 1 .. Len(s)
    BY <1>1, <1>3, <2>3 DEF Elements
  <2>. QED  BY <1>1, <2>1, <2>2, <2>3
<1>. QED  BY <1>1, <1>2, <1>3 DEF t

(* pop.                                                                    *)
LEMMA TailElements ==
  ASSUME NEW S, NEW s \in Seq(S), s # <<>>
  PROVE  /\ Tail(s) \in Seq(S) /\ Head(s) \in S /\ Head(s) \in Elements(s)
         /\ NoRepeats(s) => /\ NoRepeats(Tail(s))
                            /\ Elements(Tail(s)) = Elements(s) \ {Head(s)}
<1>. DEFINE t == Tail(s)
<1>1. /\ t \in Seq(S) /\ Len(t) = Len(s) - 1 /\ Len(s) \in Nat \ {0}
      /\ \A i \in 1 .. Len(t) : t[i] = s[i + 1]
      /\ Head(s) = s[1] /\ s[1] \in S
  OBVIOUS
<1>. HIDE DEF t
<1>2. Head(s) \in Elements(s)
  BY <1>1 DEF Elements
<1>3. ASSUME NoRepeats(s)  PROVE NoRepeats(t)
  BY <1>1, <1>3 DEF NoRepeats
<1>4. ASSUME NoRepeats(s)  PROVE Elements(t) = Elements(s) \ {Head(s)}
  <2>1. ASSUME NEW x \in Elements(t)  PROVE x \in Elements(s) \ {Head(s)}
    <3>1. PICK i \in 1 .. Len(t) : x = t[i]
      BY <2>1 DEF Elements
    <3>. QED  BY <1>1, <1>4, <3>1 DEF Elements, NoRepeats
  <2>2. ASSUME NEW x \in Elements(s), x # Head(s)  PROVE x \in Elements(t)
    <3>1. PICK i \in 1 .. Len(s) : x = s[i]
      BY <2>2 DEF Elements
    <3>2. i - 1 \in 1 .. Len(t) /\ t[i - 1] = x
      BY <1>1, <2>2, <3>1
    <3>. QED  BY <3>2 DEF Elements
  <2>. QED  BY <2>1, <2>2
<1>. QED  BY <1>1, <1>2, <1>3, <1>4 DEF t

(* One container emptied into the other.                                   *)
LEMMA ConcatElements ==
  ASSUME NEW S, NEW s \in Seq(S), NEW r \in Seq(S)
  PROVE  /\ s \o r \in Seq(S)
         /\ Elements(s \o r) = Elements(s) \cup Elements(r)
         /\ NoRepeats(s) /\ NoRepeats(r) /\ Elements(s) \cap Elements(r) = {}
              => NoRepeats(s \o r)
<1>. DEFINE t == s \o r
<1>1. /\ t \in Seq(S) /\ Len(t) = Len(s) + Len(r)
      /\ Len(s) \in Nat /\ Len(r) \in Nat
      /\ \A i \in 1 .. Len(t) :
           t[i] = IF i <= Len(s) THEN s[i] ELSE r[i - Len(s)]
  OBVIOUS
<1>. HIDE DEF t
<1>2. Elements(t) = Elements(s) \cup Elements(r)
  <2>1. ASSUME NEW x \in Elements(t)  PROVE x \in Elements(s) \cup Elements(r)
    <3>1. PICK i \in 1 .. Len(t) : x = t[i]
      BY <2>1 DEF Elements
    <3>2. CASE i <= Len(s)
      BY <1>1, <3>1, <3>2 DEF Elements
    <3>3. CASE i > Len(s)
      <4>1. i - Len(s) \in 1 .. Len(r) /\ r[i - Len(s)] = x
        BY <1>1, <3>1, <3>3
      <4>. QED  BY <4>1 DEF Elements
    <3>. QED  BY <1>1, <3>1, <3>2, <3>3
  <2>2. ASSUME NEW x \in Elements(s)  PROVE x \in Elements(t)
    <3>1. PICK i \in 1 .. Len(s) : x = s[i]
      BY <2>2 DEF Elements
    <3>2. i \in 1 .. Len(t) /\ t[i] = x
      BY <1>1, <3>1
    <3>. QED  BY <3>2 DEF Elements
  <2>3. ASSUME NEW x \in Elements(r)  PROVE x \in Elements(t)
    <3>1. PICK i \in 1 .. Len(r) : x = r[i]
      BY <2>3 DEF Elements
    <3>2. /\ i + Len(s) \in 1 .. Len(t) /\ ~(i + Len(s) <= Len(s))
          /\ i + Len(s) - Len(s) = i
      BY <1>1
    <3>3. t[i + Len(s)] = r[i]
      BY <1>1, <3>2
    <3>. QED  BY <3>1, <3>2, <3>3 DEF Elements
  <2>. QED  BY <2>1, <2>2, <2>3
<1>3. ASSUME NoRepeats(s), NoRepeats(r), Elements(s) \cap Elements(r) = {}
      PROVE  NoRepeats(t)
  <2>. SUFFICES ASSUME NEW i \in 1 .. Len(t), NEW j \in 1 .. Len(t),
                       t[i] = t[j], i # j
                PROVE  FALSE
    BY DEF NoRepeats
  <2>1. CASE i <= Len(s) /\ j <= Len(s)
    BY <1>1, <1>3, <2>1 DEF NoRepeats
  <2>2. CASE i > Len(s) /\ j > Len(s)
    <3>1. /\ i - Len(s) \in 1 .. Len(r) /\ j - Len(s) \in 1 .. Len(r)
          /\ r[i - Len(s)] = r[j - Len(s)]
      BY <1>1, <2>2
    <3>. QED  BY <1>1, <1>3, <3>1 DEF NoRepeats
  <2>3. ASSUME NEW m \in 1 .. Len(s), NEW n \in Len(s) + 1 .. Len(t),
               t[m] = t[n]
        PROVE  FALSE
    <3>1. t[m] \in Elements(s)
      <4>1. m \in 1 .. Len(t) /\ t[m] = s[m]
        BY <1>1
      <4>. QED  BY <4>1 DEF Elements
    <3>2. n - Len(s) \in 1 .. Len(r) /\ r[n - Len(s)] = t[n]
      BY <1>1
    <3>3. t[n] \in Elements(r)
      BY <3>2 DEF Elements
    <3>. QED  BY <1>3, <2>3, <3>1, <3>3
  <2>4. CASE i <= Len(s) /\ j > Len(s)
    BY <1>1, <2>3, <2>4
  <2>5. CASE j <= Len(s) /\ i > Len(s)
    BY <1>1, <2>3, <2>5
  <2>. QED  BY <1>1, <2>1, <2>2, <2>4, <2>5
<1>. QED  BY <1>1, <1>2, <1>3 DEF t

(* list::remove of what is in the list once.                               *)
LEMMA WithoutElements ==
  ASSUME NEW S, NEW s \in Seq(S), NEW c \in Elements(s), NoRepeats(s)
  PROVE  /\ Without(s, c) \in Seq(S) /\ NoRepeats(Without(s, c))
         /\ Elements(Without(s, c)) = Elements(s) \ {c}
<1>. DEFINE i == Position(s, c)
            t == Without(s, c)
<1>1. i \in 1 .. Len(s) /\ s[i] = c /\ Len(s) \in Nat
  BY DEF Elements, Position
<1>2. t = [j \in 1 .. Len(s) - 1 |-> IF j < i THEN s[j] ELSE s[j + 1]]
  BY DEF Without
<1>. HIDE DEF i, t
<1>3. /\ t \in Seq(S) /\ Len(t) = Len(s) - 1
      /\ \A j \in 1 .. Len(t) : t[j] = IF j < i THEN s[j] ELSE s[j + 1]
  BY <1>1, <1>2
<1>4. NoRepeats(t)
  <2>1. ASSUME NEW m \in 1 .. Len(t), NEW n \in 1 .. Len(t), t[m] = t[n]
        PROVE  m = n
    <3>. DEFINE p == IF m < i THEN m ELSE m + 1
                q == IF n < i THEN n ELSE n + 1
    <3>1. p \in 1 .. Len(s) /\ t[m] = s[p]
      BY <1>1, <1>3
    <3>2. q \in 1 .. Len(s) /\ t[n] = s[q]
      BY <1>1, <1>3
    <3>3. p = q
      BY <2>1, <3>1, <3>2 DEF NoRepeats
    <3>. QED  BY <1>1, <1>3, <3>1, <3>2, <3>3
  <2>. QED  BY <2>1 DEF NoRepeats
<1>5. ASSUME NEW x \in Elements(t)  PROVE x \in Elements(s) \ {c}
  <2>1. PICK j \in 1 .. Len(t) : x = t[j]
    BY <1>5 DEF Elements
  <2>2. PICK m \in 1 .. Len(s) : m # i /\ x = s[m]
    BY <1>1, <1>3, <2>1
  <2>. QED  BY <1>1, <2>2 DEF Elements, NoRepeats
<1>6. ASSUME NEW x \in Elements(s), x # c  PROVE x \in Elements(t)
  <2>1. PICK m \in 1 .. Len(s) : x = s[m]
    BY <1>6 DEF Elements
  <2>2. CASE m < i
    <3>1. m \in 1 .. Len(t) /\ t[m] = x
      BY <1>1, <1>3, <2>1, <2>2
    <3>. QED  BY <3>1 DEF Elements
  <2>3. CASE m > i
    <3>1. m - 1 \in 1 .. Len(t) /\ t[m - 1] = x
      BY <1>1, <1>3, <2>1, <2>3
    <3>. QED  BY <3>1 DEF Elements
  <2>. QED  BY <1>1, <1>6, <2>1, <2>2, <2>3
<1>. QED  BY <1>3, <1>4, <1>5, <1>6 DEF t

(* The containers hold channels, the channels hold clients.                *)
LEMMA WellTyped ==
  ASSUME TypeOK
  PROVE  /\ Elements(m_listConnectClient) \subseteq Channels
         /\ Elements(m_queueILoop) \subseteq Channels
         /\ \A c \in Channels : m_buffer[c] \in Clients \cup {NoClient}
<1>1. m_listConnectClient \in Seq(Channels) /\ m_queueILoop \in Seq(Channels)
  BY DEF TypeOK
<1>2. /\ \A i \in 1 .. Len(m_listConnectClient) : m_listConnectClient[i] \in Channels
      /\ \A i \in 1 .. Len(m_queueILoop) : m_queueILoop[i] \in Channels
  BY <1>1
<1>3. \A c \in Channels : m_buffer[c] \in Clients \cup {NoClient}
  BY DEF TypeOK
<1>. QED  BY <1>2, <1>3 DEF Elements

(* What evbuffer_remove takes and leaves are bytes of the buffer.          *)
LEMMA RestIsBytes ==
  ASSUME TypeOK, NEW c \in Channels
  PROVE  Rest(c) \in Seq(Bytes) /\ Taken(c) \in Seq(Bytes)
<1>1. m_Inputevbuffer[c] \in Seq(Bytes)
  BY DEF TypeOK
<1>2. TakeSize(c) \in 0 .. Len(m_Inputevbuffer[c])
  BY <1>1, ResAssumption DEF TakeSize
<1>. QED  BY <1>1, <1>2 DEF Rest, Taken

-----------------------------------------------------------------------------
(* The inductive invariant.                                                *)

(* What the statements of a handler that is under way rely on, each of     *)
(* them established by the statement before it.                            *)
HandlerOK ==
  m_nWorkStatus = "SYINX_LINK_WORK" =>
    /\ deleted = {}
    /\ at.op = "alloc" => /\ at.who \in Clients /\ bev[at.who] = "open"
                          /\ ctx[at.who] = at.arg
    /\ at.op = "login" => /\ m_buffer[at.arg] \in Clients
                          /\ IChStatus[at.arg] = "CLIENT_LOGIN"
    /\ at.op = "writev" => at.who \in Clients /\ bev[at.who] = "open"
    /\ at.op = "frame" => at.arg \in 1 .. Len(m_listConnectClient)
    /\ at.op = "removed" => m_buffer[at.arg] \in Clients
    /\ at.op = "freed" => IChStatus[at.arg] = "CLIENT_LOGOUT"
    /\ at.op = "logout" => /\ m_buffer[at.arg] = NoClient
                           /\ IChStatus[at.arg] = "CLIENT_LOGOUT"

(* A channel's pointer to a bufferevent is good, at any time, but in the   *)
(* one handler that has just freed it.                                     *)
PointerOK ==
  \A c \in Channels : m_buffer[c] # NoClient =>
    /\ ctx[m_buffer[c]] = c
    /\ \/ bev[m_buffer[c]] = "open"
       \/ at.op = "freed" /\ at.arg = c

IInv == /\ TypeOK /\ ChannelsAccounted /\ ChannelOwnsClient
        /\ FreedOnce /\ HooksBalanced
        /\ HandlerOK /\ PointerOK

LEMMA InitIInv == Init => IInv
<1>. SUFFICES ASSUME Init  PROVE IInv
  OBVIOUS
<1>. DEFINE q == [i \in Channels |-> i]
<1>1. /\ q \in Seq(Channels) /\ Len(q) = ConnectNum
      /\ \A i \in 1 .. Len(q) : q[i] = i
      /\ <<>> \in Seq(Channels) /\ <<>> \in Seq(Bytes)
  BY ResAssumption DEF Channels
<1>. HIDE DEF q
<1>2. /\ Elements(m_queueILoop) = Channels /\ NoRepeats(m_queueILoop)
      /\ Elements(m_listConnectClient) = {} /\ NoRepeats(m_listConnectClient)
  <2>1. m_queueILoop = q /\ m_listConnectClient = <<>>
    BY DEF Init, q
  <2>2. Elements(q) = Channels
    BY <1>1 DEF Elements, Channels
  <2>. QED  BY <1>1, <2>1, <2>2 DEF Elements, NoRepeats
<1>3. at = Place("loop", 0, NoClient) /\ at.op = "loop" /\ InFlight = {}
  BY DEF Init, AtLoop, Place, InFlight
<1>4. TypeOK
  BY <1>1, <1>3, ResAssumption DEF Init, TypeOK, Places, Place, q
<1>5. ChannelsAccounted /\ ChannelOwnsClient /\ FreedOnce
  BY <1>2, <1>3 DEF Init, ChannelsAccounted, ChannelOwnsClient, FreedOnce
<1>6. HooksBalanced
  BY <1>2, <1>3 DEF Init, HooksBalanced, InUse
<1>7. HandlerOK /\ PointerOK
  BY <1>3, ResAssumption DEF Init, HandlerOK, PointerOK
<1>. QED  BY <1>4, <1>5, <1>6, <1>7 DEF IInv

(* A step that moves no channel and frees no bufferevent.                  *)
LEMMA QuietStep ==
  ASSUME IInv, TypeOK',
         UNCHANGED <<m_nWorkStatus, resVars, IChStatus, m_buffer, logins,
                     logouts, ctx>>,
         \/ at' = at
         \/ /\ at.op \in {"loop", "frame", "writev"}
            /\ at'.op \in {"loop", "frame", "writev"},
         m_nWorkStatus = "SYINX_LINK_WORK" /\ at'.op = "frame"
           => at'.arg \in 1 .. Len(m_listConnectClient),
         m_nWorkStatus = "SYINX_LINK_WORK" /\ at'.op = "writev"
           => at'.who \in Clients /\ bev[at'.who] = "open",
         \A k \in Clients : \/ bev'[k] = bev[k]
                            \/ bev[k] # "open" /\ bev'[k] \in {"leaked", "refused"}
  PROVE  IInv'
<1>1. InFlight' = InFlight
  BY DEF InFlight
<1>2. \A c \in Channels : InUse(c)' <=> InUse(c)
  BY DEF InUse, resVars
<1>3. ChannelsAccounted'
  BY <1>1 DEF IInv, ChannelsAccounted, resVars
<1>. DEFINE Open(k) == bev[k] = "open"
<1>3a. \A k \in Clients : Open(k)' <=> Open(k)
  OBVIOUS
<1>3b. \A c \in Channels : m_buffer[c] \in Clients \cup {NoClient}
  BY DEF IInv, TypeOK
<1>. HIDE DEF Open
<1>4. ChannelOwnsClient'
  <2>1. CASE at' = at
    BY <1>3a, <2>1 DEF IInv, ChannelOwnsClient, resVars, Open
  <2>2. CASE /\ at.op \in {"loop", "frame", "writev"}
             /\ at'.op \in {"loop", "frame", "writev"}
    BY <1>3a, <2>2 DEF IInv, ChannelOwnsClient, resVars, Open
  <2>. QED  BY <2>1, <2>2
<1>5. FreedOnce'
  BY DEF IInv, FreedOnce
<1>6. HooksBalanced'
  BY <1>2 DEF IInv, HooksBalanced, resVars
<1>7. HandlerOK'
  <2>1. m_nWorkStatus = "SYINX_LINK_WORK" /\ at'.op = "writev" => bev'[at'.who] = "open"
    BY <1>3a DEF Open
  <2>2. CASE at' = at
    BY <2>1, <2>2 DEF IInv, HandlerOK, resVars
  <2>3. CASE at'.op \in {"loop", "frame", "writev"}
    BY <2>1, <2>3 DEF IInv, HandlerOK, resVars
  <2>. QED  BY <2>2, <2>3
<1>8. PointerOK'
  BY <1>3a, <1>3b, ResAssumption DEF IInv, PointerOK, Open
<1>. QED  BY <1>3, <1>4, <1>5, <1>6, <1>7, <1>8 DEF IInv

LEMMA SendStep ==
  ASSUME IInv, NEW k \in Clients, Send(k)  PROVE IInv'
<1>0. sent[k] \in 0 .. MaxSend /\ sent[k] < MaxSend /\ wire[k] \in Seq(Bytes)
  BY DEF IInv, TypeOK, Send
<1>1. <<k, sent[k] + 1>> \in Bytes /\ sent[k] + 1 \in 0 .. MaxSend
  BY <1>0, ResAssumption DEF Bytes
<1>2. Append(wire[k], <<k, sent[k] + 1>>) \in Seq(Bytes)
  BY <1>0, <1>1
<1>3. TypeOK'
  BY <1>1, <1>2 DEF IInv, TypeOK, Send, resVars, channelVars
<1>. QED  BY <1>3, QuietStep DEF IInv, HandlerOK, Send, channelVars

LEMMA LeaveStep ==
  ASSUME IInv, NEW k \in Clients, Leave(k)  PROVE IInv'
<1>1. TypeOK'
  BY ZenonT(40) DEF IInv, TypeOK, Leave, resVars, channelVars
<1>. QED  BY <1>1, QuietStep DEF IInv, HandlerOK, Leave, channelVars

LEMMA RefuseStep ==
  ASSUME IInv, NEW k \in Clients, ListenFails(k) \/ Refuse(k)  PROVE IInv'
<1>1. /\ bev' \in [Clients -> {"none", "open", "leaked", "refused", "freed",
                              "freed twice"}]
      /\ \A x \in Clients :
           \/ bev'[x] = bev[x]
           \/ bev[x] # "open" /\ bev'[x] \in {"leaked", "refused"}
  BY DEF IInv, TypeOK, ListenFails, Refuse
<1>2. TypeOK'
  BY <1>1 DEF IInv, TypeOK, ListenFails, Refuse, resVars, channelVars
<1>. QED  BY <1>1, <1>2, QuietStep
          DEF IInv, HandlerOK, ListenFails, Refuse, channelVars

LEMMA Recv_CbStep ==
  ASSUME IInv, NEW k \in Clients, SyinxKernel_Recv_Cb(k)  PROVE IInv'
<1>1. ctx[k] \in Channels
  BY DEF IInv, TypeOK, SyinxKernel_Recv_Cb
<1>0. m_Inputevbuffer[ctx[k]] \in Seq(Bytes) /\ wire[k] \in Seq(Bytes)
  BY <1>1 DEF IInv, TypeOK
<1>2. m_Inputevbuffer[ctx[k]] \o wire[k] \in Seq(Bytes) /\ <<>> \in Seq(Bytes)
  BY <1>0
<1>3. TypeOK'
  BY <1>1, <1>2 DEF IInv, TypeOK, SyinxKernel_Recv_Cb, resVars
<1>. QED  BY <1>3, QuietStep DEF IInv, HandlerOK, SyinxKernel_Recv_Cb

LEMMA WritevStep ==
  ASSUME IInv, NEW k \in Clients, Writev(k)  PROVE IInv'
<1>1. /\ at' \in Places /\ at.op = "loop" /\ at'.op = "writev" /\ at'.who = k
      /\ bev[k] = "open"
  BY DEF Writev, Looping, AtLoop, Place, Places
<1>2. TypeOK'
  BY <1>1 DEF IInv, TypeOK, Writev, resVars, channelVars, clientVars
<1>. QED  BY <1>1, <1>2, QuietStep DEF Writev, channelVars, clientVars

LEMMA FlushStep ==
  ASSUME IInv, NEW k \in Clients, Flush(k)  PROVE IInv'
<1>0. got[k] \in Seq(Bytes) /\ out[k] \in Seq(Bytes)
  BY DEF IInv, TypeOK
<1>1. got[k] \o out[k] \in Seq(Bytes) /\ <<>> \in Seq(Bytes)
  BY <1>0
<1>2. at' \in Places /\ at.op = "writev" /\ at'.op = "loop"
  BY DEF Flush, Running, AtLoop, Place, Places
<1>3. TypeOK'
  BY <1>1, <1>2 DEF IInv, TypeOK, Flush, resVars, channelVars
<1>. QED  BY <1>2, <1>3, QuietStep DEF Flush, channelVars

LEMMA FrameStep ==
  ASSUME IInv, GameServerDoAction \/ OnStatusDoAction  PROVE IInv'
<1>1. CASE GameServerDoAction
  <2>1. at' \in Places /\ at.op = "loop" /\ at'.op = "frame" /\ at'.arg = 1
    BY <1>1 DEF GameServerDoAction, Looping, AtLoop, Place, Places
  <2>2. 1 \in 1 .. Len(m_listConnectClient)
    <3>1. m_listConnectClient \in Seq(Channels) /\ m_listConnectClient # <<>>
      BY <1>1 DEF IInv, TypeOK, GameServerDoAction
    <3>. QED  BY <3>1
  <2>3. TypeOK'
    BY <1>1, <2>1
       DEF IInv, TypeOK, GameServerDoAction, resVars, channelVars, clientVars
  <2>. QED  BY <1>1, <2>1, <2>2, <2>3, QuietStep
            DEF GameServerDoAction, channelVars, clientVars
<1>2. CASE OnStatusDoAction
  <2>. DEFINE n == at.arg
              c == m_listConnectClient[n]
              k == m_buffer[c]
  <2>1. /\ n \in 1 .. Len(m_listConnectClient) /\ at.op = "frame"
        /\ c \in Channels /\ m_listConnectClient \in Seq(Channels)
    <3>1. n \in 1 .. Len(m_listConnectClient) /\ at.op = "frame"
      BY <1>2 DEF OnStatusDoAction, Running, IInv, HandlerOK
    <3>2. m_listConnectClient \in Seq(Channels)
      BY DEF IInv, TypeOK
    <3>. QED  BY <3>1, <3>2
  <2>2. Rest(c) \in Seq(Bytes) /\ Taken(c) \in Seq(Bytes)
    BY <2>1, RestIsBytes DEF IInv
  <2>3. /\ at' \in Places /\ at'.op \in {"loop", "frame"}
        /\ at'.op = "frame" => at'.arg \in 1 .. Len(m_listConnectClient)
    <3>1. CASE n = Len(m_listConnectClient)
      BY <1>2, <3>1 DEF OnStatusDoAction, AtLoop, Place, Places
    <3>2. CASE n # Len(m_listConnectClient)
      <4>1. at' = Place("frame", n + 1, NoClient)
        BY <1>2, <3>2 DEF OnStatusDoAction
      <4>2. n + 1 \in 1 .. Len(m_listConnectClient)
        BY <2>1, <3>2
      <4>. QED  BY <4>1, <4>2 DEF Place, Places
    <3>. QED  BY <3>1, <3>2
  <2>4. out' \in [Clients -> Seq(Bytes)]
    <3>1. CASE k \in Clients
      <4>1. out[k] \in Seq(Bytes)
        BY <3>1 DEF IInv, TypeOK
      <4>2. out[k] \o Taken(c) \in Seq(Bytes)
        BY <2>2, <4>1
      <4>. QED  BY <1>2, <4>2 DEF IInv, TypeOK, OnStatusDoAction
    <3>2. CASE k \notin Clients
      BY <1>2, <3>2 DEF IInv, TypeOK, OnStatusDoAction
    <3>. QED  BY <3>1, <3>2
  <2>5. m_Inputevbuffer' \in [Channels -> Seq(Bytes)]
    BY <1>2, <2>2 DEF IInv, TypeOK, OnStatusDoAction
  <2>6. TypeOK'
    BY <1>2, <2>3, <2>4, <2>5 DEF IInv, TypeOK, OnStatusDoAction, resVars
  <2>. QED  BY <1>2, <2>1, <2>3, <2>6, QuietStep DEF OnStatusDoAction
<1>. QED  BY <1>1, <1>2

(* A channel is popped for a client: it is in flight, and the client's.    *)
LEMMA AllocationStep ==
  ASSUME IInv, NEW k \in Clients, AllocationIChannel(k)  PROVE IInv'
<1>. DEFINE c == Head(m_queueILoop)
<1>. USE DEF AllocationIChannel, IInv
<1>1. /\ m_queueILoop \in Seq(Channels) /\ m_queueILoop # <<>>
      /\ m_nWorkStatus = "SYINX_LINK_WORK" /\ at.op = "loop"
      /\ bev[k] = "none"
  BY DEF TypeOK, Looping, AtLoop, Place
<1>2. /\ m_queueILoop' \in Seq(Channels) /\ NoRepeats(m_queueILoop')
      /\ Elements(m_queueILoop') = Elements(m_queueILoop) \ {c}
      /\ c \in Channels /\ c \in Elements(m_queueILoop)
  BY <1>1, TailElements DEF ChannelsAccounted
<1>3. /\ at' = Place("alloc", c, k)
      /\ at'.op = "alloc" /\ at'.arg = c /\ at'.who = k
  BY DEF Place
<1>4. InFlight = {} /\ InFlight' = {c}
  BY <1>1, <1>3 DEF InFlight
<1>5. UNCHANGED <<m_nWorkStatus, m_listConnectClient, deleted, IChStatus,
                  m_buffer, m_Inputevbuffer, logins, logouts>>
  BY DEF channelVars
<1>6. bev' = [bev EXCEPT ![k] = "open"] /\ ctx' = [ctx EXCEPT ![k] = c]
  OBVIOUS
<1>6a. c \in Nat
  BY <1>2 DEF Channels
<1>7. at' \in Places
  BY <1>3, <1>6a DEF Places, Place
<1>8. TypeOK'
  <2>1. ctx' \in [Clients -> 0 .. ConnectNum]
    <3>1. ctx \in [Clients -> 0 .. ConnectNum]
      BY DEF TypeOK
    <3>. HIDE DEF c, AllocationIChannel, IInv
    <3>. QED  BY <1>2, <1>6, <3>1, ResAssumption DEF Channels
  <2>2. \A x \in Clients : bev'[x] = "open" => ctx'[x] \in Channels
    BY <1>2, <1>6 DEF TypeOK
  <2>. QED  BY <1>2, <1>5, <1>6, <1>7, <2>1, <2>2 DEF TypeOK
<1>9. ChannelsAccounted'
  BY <1>1, <1>2, <1>4, <1>5 DEF ChannelsAccounted
<1>9a. /\ \A x \in Clients \ {k} : bev'[x] = bev[x] /\ ctx'[x] = ctx[x]
       /\ bev'[k] = "open" /\ ctx'[k] = c
  BY <1>6 DEF TypeOK
<1>9b. /\ \A x \in Channels : m_buffer[x] \in Clients \cup {NoClient}
       /\ \A x \in Channels : m_buffer[x] # k
       /\ Elements(m_listConnectClient) \subseteq Channels
  <2>1. \A x \in Channels : m_buffer[x] # k
    BY <1>1, ResAssumption DEF PointerOK
  <2>. QED  BY <2>1, WellTyped
<1>9c. PointerOK /\ ChannelOwnsClient
  OBVIOUS
<1>. HIDE DEF c
<1>10. ChannelOwnsClient'
  <2>1. ASSUME NEW x \in Elements(m_listConnectClient)
        PROVE  /\ m_buffer[x] \in Clients
               /\ ctx'[m_buffer[x]] = x /\ bev'[m_buffer[x]] = "open"
               /\ IChStatus[x] = "CLIENT_LOGIN"
    BY <1>1, <1>9a, <1>9b, <1>9c DEF ChannelOwnsClient
  <2>2. ASSUME NEW x \in Clients \ {k}, bev'[x] = "open"
        PROVE  ctx'[x] \in Elements(m_listConnectClient) /\ m_buffer[ctx'[x]] = x
    BY <1>1, <1>9a, <1>9c, <2>2 DEF ChannelOwnsClient
  <2>3. \A x \in Elements(m_queueILoop') :
          m_buffer[x] = NoClient /\ IChStatus[x] = "CLIENT_LOGOUT"
    BY <1>1, <1>2, <1>9c DEF ChannelOwnsClient
  <2>. QED  BY <1>3, <1>5, <1>9a, <2>1, <2>2, <2>3 DEF ChannelOwnsClient
<1>11. FreedOnce'
  BY <1>9a DEF FreedOnce
<1>12. HooksBalanced'
  <2>1. \A x \in Channels : InUse(x)' <=> InUse(x)
    BY <1>1, <1>3, <1>5 DEF InUse
  <2>. QED  BY <1>5, <2>1 DEF HooksBalanced
<1>13. HandlerOK'
  BY <1>1, <1>3, <1>5, <1>6 DEF HandlerOK, TypeOK
<1>14. PointerOK'
  BY <1>1, <1>5, <1>9a, <1>9b, <1>9c, ResAssumption DEF PointerOK
<1>. QED  BY <1>8, <1>9, <1>10, <1>11, <1>12, <1>13, <1>14

(* The channel that was popped is the client's, and its player logged in.  *)
LEMMA ConnectStep ==
  ASSUME IInv, OnClientConnect  PROVE IInv'
<1>. DEFINE c == at.arg
            k == at.who
<1>. USE DEF OnClientConnect, IInv
<1>1. /\ m_nWorkStatus = "SYINX_LINK_WORK" /\ at.op = "alloc"
      /\ k \in Clients /\ bev[k] = "open" /\ ctx[k] = c
      /\ InFlight = {c} /\ at \in Places
  BY DEF Running, HandlerOK, InFlight, TypeOK
<1>2. c \in Channels /\ c \notin Elements(m_queueILoop)
      /\ c \notin Elements(m_listConnectClient) /\ deleted = {}
  BY <1>1 DEF ChannelsAccounted, HandlerOK
<1>4. at' \in Places /\ at'.op = "login" /\ at'.arg = c /\ InFlight' = {c}
  BY <1>1 DEF Places, InFlight
<1>5. /\ UNCHANGED <<m_nWorkStatus, m_queueILoop, m_listConnectClient, deleted,
                     m_Inputevbuffer, logouts, bev, ctx, peer, wire, out, sent,
                     got>>
      /\ m_buffer' = [m_buffer EXCEPT ![c] = k]
      /\ logins' = [logins EXCEPT ![c] = @ + 1]
      /\ IChStatus' = [IChStatus EXCEPT ![c] = "CLIENT_LOGIN"]
  BY DEF clientVars, resVars
<1>6. TypeOK'
  <2>1. logins' \in [Channels -> Nat]
    <3>1. logins \in [Channels -> Nat]
      BY DEF TypeOK
    <3>2. logins[c] + 1 \in Nat
      BY <1>2, <3>1
    <3>. HIDE DEF OnClientConnect, IInv, c, k
    <3>. QED  BY <1>5, <3>1, <3>2
  <2>2. m_buffer' \in [Channels -> Clients \cup {NoClient}]
    <3>1. m_buffer \in [Channels -> Clients \cup {NoClient}]
      BY DEF TypeOK
    <3>. HIDE DEF OnClientConnect, IInv, c, k
    <3>. QED  BY <1>1, <1>5, <3>1
  <2>3. IChStatus' \in [Channels -> {"CLIENT_LOGIN", "CLIENT_LOGOUT"}]
    <3>1. IChStatus \in [Channels -> {"CLIENT_LOGIN", "CLIENT_LOGOUT"}]
      BY DEF TypeOK
    <3>. HIDE DEF OnClientConnect, IInv, c, k
    <3>. QED  BY <1>5, <3>1
  <2>. HIDE DEF OnClientConnect
  <2>. QED  BY <1>4, <1>5, <2>1, <2>2, <2>3 DEF TypeOK
<1>7. ChannelsAccounted'
  BY <1>1, <1>4, <1>5 DEF ChannelsAccounted
<1>7a. /\ \A x \in Channels \ {c} : /\ m_buffer'[x] = m_buffer[x]
                                    /\ IChStatus'[x] = IChStatus[x]
       /\ m_buffer'[c] = k /\ IChStatus'[c] = "CLIENT_LOGIN"
  BY <1>2, <1>5 DEF TypeOK
<1>7b. /\ Elements(m_listConnectClient) \subseteq Channels
       /\ Elements(m_queueILoop) \subseteq Channels
       /\ PointerOK /\ ChannelOwnsClient
       /\ \A x \in Clients : bev[x] = "open" => ctx[x] \in Channels
  BY WellTyped DEF TypeOK
<1>. HIDE DEF c, k
<1>8. ChannelOwnsClient'
  <2>. HIDE DEF OnClientConnect, IInv
  <2>1. ASSUME NEW x \in Elements(m_listConnectClient)
        PROVE  /\ m_buffer'[x] \in Clients
               /\ ctx[m_buffer'[x]] = x /\ bev[m_buffer'[x]] = "open"
               /\ IChStatus'[x] = "CLIENT_LOGIN"
    BY <1>1, <1>2, <1>7a, <1>7b DEF ChannelOwnsClient
  <2>2. ASSUME NEW x \in Clients, bev[x] = "open"
        PROVE  /\ ctx[x] \in Elements(m_listConnectClient) \/ ctx[x] = c
               /\ m_buffer'[ctx[x]] = x
    <3>1. CASE x = k
      BY <1>1, <1>7a, <3>1
    <3>2. CASE x # k
      <4>1. ctx[x] \in Elements(m_listConnectClient) /\ m_buffer[ctx[x]] = x
        BY <1>1, <1>7b, <2>2, <3>2 DEF ChannelOwnsClient, k
      <4>. QED  BY <1>2, <1>7a, <1>7b, <4>1
    <3>. QED  BY <3>1, <3>2
  <2>3. \A x \in Elements(m_queueILoop) :
          m_buffer'[x] = NoClient /\ IChStatus'[x] = "CLIENT_LOGOUT"
    BY <1>1, <1>2, <1>7a, <1>7b DEF ChannelOwnsClient
  <2>. QED  BY <1>4, <1>5, <2>1, <2>2, <2>3 DEF ChannelOwnsClient
<1>9. FreedOnce'
  BY <1>5 DEF FreedOnce
<1>10. HooksBalanced'
  <2>1. \A x \in Channels : InUse(x)' <=> (InUse(x) \/ x = c)
    BY <1>1, <1>4, <1>5 DEF InUse
  <2>2. ~InUse(c)
    BY <1>1, <1>2 DEF InUse
  <2>3. logins[c] \in Nat /\ logouts[c] \in Nat
    BY <1>2 DEF TypeOK
  <2>4. logins'[c] = logins[c] + 1
    BY <1>2, <1>5 DEF TypeOK
  <2>5. \A x \in Channels \ {c} : logins'[x] = logins[x]
    BY <1>5 DEF TypeOK
  <2>. QED  BY <1>2, <1>5, <2>1, <2>2, <2>3, <2>4, <2>5 DEF HooksBalanced
<1>11. HandlerOK'
  BY <1>1, <1>2, <1>4, <1>5, <1>7a DEF HandlerOK
<1>12. PointerOK'
  BY <1>1, <1>2, <1>4, <1>5, <1>7a, <1>7b DEF PointerOK
<1>. QED  BY <1>6, <1>7, <1>8, <1>9, <1>10, <1>11, <1>12

(* ... and enters the list.                                                *)
LEMMA SocketFdAddStep ==
  ASSUME IInv, SocketFdAdd  PROVE IInv'
<1>. DEFINE c == at.arg
<1>1. /\ m_nWorkStatus = "SYINX_LINK_WORK" /\ at.op = "login"
      /\ InFlight = {c} /\ m_buffer[c] \in Clients /\ IChStatus[c] = "CLIENT_LOGIN"
  BY DEF SocketFdAdd, Running, IInv, HandlerOK, InFlight
<1>2. c \in Channels /\ c \notin Elements(m_queueILoop)
      /\ c \notin Elements(m_listConnectClient) /\ deleted = {}
  BY <1>1 DEF IInv, ChannelsAccounted, HandlerOK
<1>3. /\ m_listConnectClient' \in Seq(Channels)
      /\ NoRepeats(m_listConnectClient')
      /\ Elements(m_listConnectClient') = Elements(m_listConnectClient) \cup {c}
  <2>1. m_listConnectClient \in Seq(Channels) /\ NoRepeats(m_listConnectClient)
    BY DEF IInv, TypeOK, ChannelsAccounted
  <2>2. m_listConnectClient' = Append(m_listConnectClient, c)
    BY DEF SocketFdAdd
  <2>. QED  BY <1>2, <2>1, <2>2, AppendElements
<1>4. at' \in Places /\ at'.op = "loop" /\ InFlight' = {}
  BY DEF SocketFdAdd, AtLoop, Place, Places, InFlight
<1>5. UNCHANGED <<m_nWorkStatus, m_queueILoop, deleted, IChStatus, m_buffer,
                  m_Inputevbuffer, logins, logouts, bev, ctx, peer, wire, out,
                  sent, got>>
  BY DEF SocketFdAdd, channelVars, clientVars
<1>6. ctx[m_buffer[c]] = c /\ bev[m_buffer[c]] = "open"
  BY <1>1, <1>2, ResAssumption DEF IInv, PointerOK
<1>7. ChannelOwnsClient /\ PointerOK
  BY DEF IInv
<1>. HIDE DEF c
<1>8. TypeOK'
  BY <1>3, <1>4, <1>5 DEF IInv, TypeOK
<1>9. ChannelsAccounted'
  BY <1>1, <1>2, <1>3, <1>4, <1>5 DEF IInv, ChannelsAccounted
<1>10. ChannelOwnsClient'
  <2>1. ASSUME NEW x \in Elements(m_listConnectClient')
        PROVE  /\ m_buffer[x] \in Clients
               /\ ctx[m_buffer[x]] = x /\ bev[m_buffer[x]] = "open"
               /\ IChStatus[x] = "CLIENT_LOGIN"
    BY <1>1, <1>3, <1>6, <1>7 DEF ChannelOwnsClient
  <2>2. ASSUME NEW x \in Clients, bev[x] = "open"
        PROVE  ctx[x] \in Elements(m_listConnectClient') /\ m_buffer[ctx[x]] = x
    BY <1>1, <1>3, <1>7, <2>2 DEF ChannelOwnsClient, c
  <2>3. \A x \in Elements(m_queueILoop) :
          m_buffer[x] = NoClient /\ IChStatus[x] = "CLIENT_LOGOUT"
    BY <1>1, <1>7 DEF ChannelOwnsClient
  <2>. QED  BY <1>5, <2>1, <2>2, <2>3 DEF ChannelOwnsClient
<1>11. FreedOnce'
  BY <1>5 DEF IInv, FreedOnce
<1>12. HooksBalanced'
  <2>1. \A x \in Channels : InUse(x)' <=> InUse(x)
    BY <1>1, <1>3, <1>4 DEF InUse, c
  <2>. QED  BY <1>5, <2>1 DEF IInv, HooksBalanced
<1>13. HandlerOK'
  BY <1>2, <1>4, <1>5 DEF HandlerOK
<1>14. PointerOK'
  BY <1>1, <1>5, <1>7 DEF PointerOK
<1>. QED  BY <1>8, <1>9, <1>10, <1>11, <1>12, <1>13, <1>14 DEF IInv

(* A client's own channel is taken out of the list.                        *)
LEMMA Event_CbStep ==
  ASSUME IInv, NEW k \in Clients, SyinxKernel_Event_Cb(k)  PROVE IInv'
<1>. DEFINE c == ctx[k]
<1>. USE DEF SyinxKernel_Event_Cb, IInv
<1>1. /\ m_nWorkStatus = "SYINX_LINK_WORK" /\ at.op \in {"loop", "writev"}
      /\ bev[k] = "open"
  BY DEF FindsGone, Looping, Running, AtLoop, Place
<1>2. c \in Elements(m_listConnectClient) /\ m_buffer[c] = k /\ c \in Channels
  BY <1>1 DEF ChannelOwnsClient, TypeOK
<1>3. /\ m_listConnectClient' \in Seq(Channels)
      /\ NoRepeats(m_listConnectClient')
      /\ Elements(m_listConnectClient') = Elements(m_listConnectClient) \ {c}
  <2>1. m_listConnectClient \in Seq(Channels) /\ NoRepeats(m_listConnectClient)
    BY DEF TypeOK, ChannelsAccounted
  <2>. QED  BY <1>2, <2>1, WithoutElements
<1>4. /\ at' = Place("removed", c, NoClient)
      /\ at'.op = "removed" /\ at'.arg = c
  BY DEF Place
<1>5. InFlight = {} /\ InFlight' = {c}
  BY <1>1, <1>4 DEF InFlight
<1>6. UNCHANGED <<m_nWorkStatus, m_queueILoop, deleted, IChStatus, m_buffer,
                  m_Inputevbuffer, logins, logouts, bev, ctx, peer, wire, out,
                  sent, got>>
  BY DEF channelVars, clientVars
<1>6a. c \in Nat
  BY <1>2 DEF Channels
<1>7. TypeOK'
  <2>1. at' \in Places
    BY <1>4, <1>6a DEF Places, Place
  <2>. QED  BY <1>3, <1>6, <2>1 DEF TypeOK
<1>8. ChannelsAccounted'
  BY <1>1, <1>2, <1>3, <1>5, <1>6 DEF ChannelsAccounted
<1>9. ChannelOwnsClient'
  BY <1>1, <1>2, <1>3, <1>4, <1>6 DEF ChannelOwnsClient
<1>10. FreedOnce'
  BY <1>6 DEF FreedOnce
<1>11. HooksBalanced'
  <2>1. \A x \in Channels : InUse(x)' <=> InUse(x)
    BY <1>1, <1>2, <1>3, <1>4 DEF InUse
  <2>. QED  BY <1>6, <2>1 DEF HooksBalanced
<1>12. HandlerOK'
  BY <1>1, <1>2, <1>4, <1>6 DEF HandlerOK
<1>13. PointerOK'
  <2>1. PointerOK
    OBVIOUS
  <2>. HIDE DEF SyinxKernel_Event_Cb, IInv
  <2>. QED  BY <1>1, <1>6, <2>1 DEF PointerOK
<1>. QED  BY <1>7, <1>8, <1>9, <1>10, <1>11, <1>12, <1>13

(* What Clear and CloseChannel do to the bufferevent of a channel's        *)
(* client, whose pointer is good, is to free it for the first time.        *)
LEMMA FreesOnce ==
  ASSUME IInv, NEW k \in Clients, bev[k] = "open",
         bev' = [bev EXCEPT ![k] = Freed(k)],
         out' = [out EXCEPT ![k] = <<>>], wire' = [wire EXCEPT ![k] = <<>>]
  PROVE  /\ bev' \in [Clients -> {"none", "open", "leaked", "refused", "freed",
                                  "freed twice"}]
         /\ out' \in [Clients -> Seq(Bytes)] /\ wire' \in [Clients -> Seq(Bytes)]
         /\ bev'[k] = "freed" /\ \A x \in Clients \ {k} : bev'[x] = bev[x]
         /\ FreedOnce'
<1>1. Freed(k) = "freed"
  BY DEF Freed
<1>2. <<>> \in Seq(Bytes)
  OBVIOUS
<1>3. /\ bev \in [Clients -> {"none", "open", "leaked", "refused", "freed",
                              "freed twice"}]
      /\ out \in [Clients -> Seq(Bytes)] /\ wire \in [Clients -> Seq(Bytes)]
      /\ FreedOnce
  BY DEF IInv, TypeOK
<1>4. /\ bev'[k] = "freed" /\ \A x \in Clients \ {k} : bev'[x] = bev[x]
      /\ bev' \in [Clients -> {"none", "open", "leaked", "refused", "freed",
                               "freed twice"}]
  BY <1>1, <1>3
<1>5. out' \in [Clients -> Seq(Bytes)] /\ wire' \in [Clients -> Seq(Bytes)]
  BY <1>2, <1>3
<1>6. FreedOnce'
  BY <1>3, <1>4 DEF FreedOnce
<1>. QED  BY <1>4, <1>5, <1>6

(* What is left of a channel's buffer and of its login.                    *)
LEMMA ClearedTypes ==
  ASSUME IInv, NEW c \in Channels,
         m_Inputevbuffer' = [m_Inputevbuffer EXCEPT ![c] = Rest(c)],
         IChStatus' = [IChStatus EXCEPT ![c] = "CLIENT_LOGOUT"]
  PROVE  /\ m_Inputevbuffer' \in [Channels -> Seq(Bytes)]
         /\ IChStatus' \in [Channels -> {"CLIENT_LOGIN", "CLIENT_LOGOUT"}]
         /\ IChStatus'[c] = "CLIENT_LOGOUT"
         /\ \A x \in Channels \ {c} : IChStatus'[x] = IChStatus[x]
<1>1. Rest(c) \in Seq(Bytes)
  BY RestIsBytes DEF IInv
<1>2. /\ m_Inputevbuffer \in [Channels -> Seq(Bytes)]
      /\ IChStatus \in [Channels -> {"CLIENT_LOGIN", "CLIENT_LOGOUT"}]
  BY DEF IInv, TypeOK
<1>. QED  BY <1>1, <1>2

(* One more logout.                                                        *)
LEMMA LogoutCounted ==
  ASSUME IInv, NEW c \in Channels, logouts' = [logouts EXCEPT ![c] = @ + 1]
  PROVE  /\ logouts' \in [Channels -> Nat]
         /\ logouts'[c] = logouts[c] + 1
         /\ \A x \in Channels \ {c} : logouts'[x] = logouts[x]
<1>1. logouts \in [Channels -> Nat]
  BY DEF IInv, TypeOK
<1>2. logouts[c] + 1 \in Nat
  BY <1>1
<1>. QED  BY <1>1, <1>2

LEMMA ClearStep ==
  ASSUME IInv, Clear  PROVE IInv'
<1>. DEFINE c == at.arg
            k == m_buffer[c]
<1>1. /\ m_nWorkStatus = "SYINX_LINK_WORK" /\ at.op = "removed"
      /\ InFlight = {c} /\ k \in Clients
  BY DEF IInv, Clear, Running, HandlerOK, InFlight
<1>2. /\ c \in Channels /\ c \notin Elements(m_queueILoop)
      /\ c \notin Elements(m_listConnectClient) /\ deleted = {}
  BY <1>1 DEF IInv, ChannelsAccounted, HandlerOK
<1>3. ctx[k] = c /\ bev[k] = "open"
  BY <1>1, <1>2, ResAssumption DEF IInv, PointerOK
<1>4. /\ m_Inputevbuffer' = [m_Inputevbuffer EXCEPT ![c] = Rest(c)]
      /\ IChStatus' = [IChStatus EXCEPT ![c] = "CLIENT_LOGOUT"]
      /\ bev' = [bev EXCEPT ![k] = Freed(k)]
      /\ out' = [out EXCEPT ![k] = <<>>] /\ wire' = [wire EXCEPT ![k] = <<>>]
      /\ at' = Place("freed", c, NoClient)
      /\ UNCHANGED <<m_nWorkStatus, m_queueILoop, m_listConnectClient, deleted,
                     m_buffer, logins, logouts, ctx, peer, sent, got>>
  BY DEF Clear, resVars
<1>5. c \in Nat
  BY <1>2 DEF Channels
<1>6. /\ at' \in Places /\ at'.op = "freed" /\ at'.arg = c /\ InFlight' = {c}
  BY <1>4, <1>5 DEF Place, Places, InFlight
<1>7. /\ bev' \in [Clients -> {"none", "open", "leaked", "refused", "freed",
                              "freed twice"}]
      /\ out' \in [Clients -> Seq(Bytes)] /\ wire' \in [Clients -> Seq(Bytes)]
      /\ bev'[k] = "freed" /\ \A x \in Clients \ {k} : bev'[x] = bev[x]
      /\ FreedOnce'
  BY <1>1, <1>3, <1>4, FreesOnce
<1>8. /\ m_Inputevbuffer' \in [Channels -> Seq(Bytes)]
      /\ IChStatus' \in [Channels -> {"CLIENT_LOGIN", "CLIENT_LOGOUT"}]
      /\ IChStatus'[c] = "CLIENT_LOGOUT"
      /\ \A x \in Channels \ {c} : IChStatus'[x] = IChStatus[x]
  BY <1>2, <1>4, ClearedTypes
<1>9. /\ Elements(m_listConnectClient) \subseteq Channels
      /\ Elements(m_queueILoop) \subseteq Channels
      /\ ChannelOwnsClient /\ PointerOK
  BY WellTyped DEF IInv
<1>10. \A x \in Channels : m_buffer[x] = k => x = c
  BY <1>1, <1>3, <1>9, ResAssumption DEF PointerOK
<1>. HIDE DEF c, k
<1>11. TypeOK'
  <2>1. \A x \in Clients : bev'[x] = "open" => ctx'[x] \in Channels
    BY <1>4, <1>7 DEF IInv, TypeOK
  <2>. QED  BY <1>4, <1>6, <1>7, <1>8, <2>1 DEF IInv, TypeOK
<1>12. ChannelsAccounted'
  BY <1>1, <1>4, <1>6 DEF IInv, ChannelsAccounted
<1>13. ChannelOwnsClient'
  <2>1. ASSUME NEW x \in Elements(m_listConnectClient)
        PROVE  /\ m_buffer[x] \in Clients
               /\ ctx[m_buffer[x]] = x /\ bev'[m_buffer[x]] = "open"
               /\ IChStatus'[x] = "CLIENT_LOGIN"
    <3>1. /\ x \in Channels \ {c} /\ m_buffer[x] \in Clients
          /\ ctx[m_buffer[x]] = x /\ bev[m_buffer[x]] = "open"
          /\ IChStatus[x] = "CLIENT_LOGIN"
      BY <1>1, <1>2, <1>9 DEF ChannelOwnsClient
    <3>2. m_buffer[x] # k
      BY <1>10, <3>1
    <3>. QED  BY <1>7, <1>8, <3>1, <3>2
  <2>2. ASSUME NEW x \in Clients, bev'[x] = "open"
        PROVE  ctx[x] \in Elements(m_listConnectClient) /\ m_buffer[ctx[x]] = x
    <3>1. x # k /\ bev[x] = "open"
      BY <1>7, <2>2
    <3>2. ~(at.arg = ctx[x] /\ m_buffer[ctx[x]] = x)
      BY <3>1 DEF c, k
    <3>. QED  BY <1>1, <1>9, <3>1, <3>2 DEF ChannelOwnsClient
  <2>3. \A x \in Elements(m_queueILoop) :
          m_buffer[x] = NoClient /\ IChStatus'[x] = "CLIENT_LOGOUT"
    BY <1>1, <1>2, <1>8, <1>9 DEF ChannelOwnsClient
  <2>. QED  BY <1>4, <2>1, <2>2, <2>3 DEF ChannelOwnsClient
<1>14. HooksBalanced'
  <2>1. \A x \in Channels : InUse(x)' <=> InUse(x)
    BY <1>1, <1>4, <1>6 DEF InUse, c
  <2>. QED  BY <1>4, <2>1 DEF IInv, HooksBalanced
<1>15. HandlerOK'
  BY <1>1, <1>2, <1>4, <1>6, <1>8 DEF HandlerOK
<1>16. PointerOK'
  <2>1. ASSUME NEW x \in Channels, m_buffer[x] # NoClient, x # c
        PROVE  ctx[m_buffer[x]] = x /\ bev'[m_buffer[x]] = "open"
    <3>1. /\ m_buffer[x] \in Clients \ {k} /\ ctx[m_buffer[x]] = x
          /\ bev[m_buffer[x]] = "open"
      BY <1>1, <1>9, <1>10, <2>1, WellTyped DEF PointerOK, IInv
    <3>. QED  BY <1>7, <3>1
  <2>2. ctx[m_buffer[c]] = c
    BY <1>3 DEF k
  <2>. QED  BY <1>4, <1>6, <2>1, <2>2 DEF PointerOK
<1>. QED  BY <1>7, <1>11, <1>12, <1>13, <1>14, <1>15, <1>16 DEF IInv

(* The player of the channel that was cleared is logged out.               *)
LEMMA LogoutStep ==
  ASSUME IInv, Logout  PROVE IInv'
<1>. DEFINE c == at.arg
<1>1. /\ m_nWorkStatus = "SYINX_LINK_WORK" /\ at.op = "freed" /\ at \in Places
      /\ InFlight = {c} /\ IChStatus[c] = "CLIENT_LOGOUT"
  BY DEF IInv, Logout, Running, HandlerOK, InFlight, TypeOK
<1>2. /\ c \in Channels /\ c \notin Elements(m_queueILoop)
      /\ c \notin Elements(m_listConnectClient) /\ deleted = {}
  BY <1>1 DEF IInv, ChannelsAccounted, HandlerOK
<1>3. /\ m_buffer' = [m_buffer EXCEPT ![c] = NoClient]
      /\ logouts' = [logouts EXCEPT ![c] = @ + 1]
      /\ at' = [at EXCEPT !.op = "logout"]
      /\ UNCHANGED <<m_nWorkStatus, m_queueILoop, m_listConnectClient, deleted,
                     IChStatus, m_Inputevbuffer, logins, bev, ctx, peer, wire,
                     out, sent, got>>
  BY DEF Logout, clientVars, resVars
<1>5. at' \in Places /\ at'.op = "logout" /\ at'.arg = c /\ InFlight' = {c}
  BY <1>1, <1>3 DEF Places, InFlight
<1>6. /\ logouts' \in [Channels -> Nat] /\ logouts'[c] = logouts[c] + 1
      /\ \A x \in Channels \ {c} : logouts'[x] = logouts[x]
  BY <1>2, <1>3, LogoutCounted
<1>7. /\ m_buffer' \in [Channels -> Clients \cup {NoClient}]
      /\ m_buffer'[c] = NoClient
      /\ \A x \in Channels \ {c} : m_buffer'[x] = m_buffer[x]
  <2>1. m_buffer \in [Channels -> Clients \cup {NoClient}]
    BY DEF IInv, TypeOK
  <2>. HIDE DEF c
  <2>. QED  BY <1>2, <1>3, <2>1
<1>8. /\ Elements(m_listConnectClient) \subseteq Channels
      /\ Elements(m_queueILoop) \subseteq Channels
      /\ ChannelOwnsClient /\ PointerOK
  BY WellTyped DEF IInv
<1>. HIDE DEF c
<1>9. TypeOK'
  BY <1>3, <1>5, <1>6, <1>7 DEF IInv, TypeOK
<1>10. ChannelsAccounted'
  BY <1>1, <1>3, <1>5 DEF IInv, ChannelsAccounted
<1>11. ChannelOwnsClient'
  <2>1. ASSUME NEW x \in Clients, bev[x] = "open"
        PROVE  ctx[x] \in Elements(m_listConnectClient) /\ m_buffer'[ctx[x]] = x
    BY <1>1, <1>2, <1>7, <1>8, <2>1 DEF ChannelOwnsClient
  <2>2. ASSUME NEW x \in Elements(m_listConnectClient)
        PROVE  /\ m_buffer'[x] \in Clients
               /\ ctx[m_buffer'[x]] = x /\ bev[m_buffer'[x]] = "open"
               /\ IChStatus[x] = "CLIENT_LOGIN"
    BY <1>1, <1>2, <1>7, <1>8 DEF ChannelOwnsClient
  <2>3. \A x \in Elements(m_queueILoop) :
          m_buffer'[x] = NoClient /\ IChStatus[x] = "CLIENT_LOGOUT"
    BY <1>1, <1>2, <1>7, <1>8 DEF ChannelOwnsClient
  <2>. QED  BY <1>3, <2>1, <2>2, <2>3 DEF ChannelOwnsClient
<1>12. FreedOnce'
  BY <1>3 DEF IInv, FreedOnce
<1>13. HooksBalanced'
  <2>1. \A x \in Channels : InUse(x)' <=> (InUse(x) /\ x # c)
    BY <1>1, <1>2, <1>3, <1>5 DEF InUse, c
  <2>2. InUse(c)
    BY <1>1 DEF InUse, c
  <2>3. logins[c] \in Nat /\ logouts[c] \in Nat
    BY <1>2 DEF IInv, TypeOK
  <2>. QED  BY <1>2, <1>3, <1>6, <2>1, <2>2, <2>3 DEF IInv, HooksBalanced
<1>14. HandlerOK'
  BY <1>1, <1>2, <1>3, <1>5, <1>7 DEF HandlerOK
<1>15. PointerOK'
  BY <1>1, <1>3, <1>5, <1>7, <1>8 DEF PointerOK, c
<1>. QED  BY <1>9, <1>10, <1>11, <1>12, <1>13, <1>14, <1>15 DEF IInv

(* ... and the channel goes back to the queue.                             *)
LEMMA SocketFdDelStep ==
  ASSUME IInv, SocketFdDel  PROVE IInv'
<1>. DEFINE c == at.arg
<1>1. /\ m_nWorkStatus = "SYINX_LINK_WORK" /\ at.op = "logout"
      /\ InFlight = {c} /\ IChStatus[c] = "CLIENT_LOGOUT" /\ m_buffer[c] = NoClient
  BY DEF IInv, SocketFdDel, Running, HandlerOK, InFlight
<1>2. /\ c \in Channels /\ c \notin Elements(m_queueILoop)
      /\ c \notin Elements(m_listConnectClient) /\ deleted = {}
  BY <1>1 DEF IInv, ChannelsAccounted, HandlerOK
<1>3. /\ m_queueILoop' = Append(m_queueILoop, c)
      /\ at' = Place("loop", 0, NoClient)
      /\ UNCHANGED <<m_nWorkStatus, m_listConnectClient, deleted, IChStatus,
                     m_buffer, m_Inputevbuffer, logins, logouts, bev, ctx, peer,
                     wire, out, sent, got>>
  BY DEF SocketFdDel, channelVars, clientVars, AtLoop
<1>4. /\ m_queueILoop' \in Seq(Channels) /\ NoRepeats(m_queueILoop')
      /\ Elements(m_queueILoop') = Elements(m_queueILoop) \cup {c}
  <2>1. m_queueILoop \in Seq(Channels) /\ NoRepeats(m_queueILoop)
    BY DEF IInv, TypeOK, ChannelsAccounted
  <2>. QED  BY <1>2, <1>3, <2>1, AppendElements
<1>5. at' \in Places /\ at'.op = "loop" /\ InFlight' = {}
  BY <1>3 DEF Place, Places, InFlight
<1>6. ChannelOwnsClient /\ PointerOK
  BY DEF IInv
<1>. HIDE DEF c
<1>7. TypeOK'
  BY <1>3, <1>4, <1>5 DEF IInv, TypeOK
<1>8. ChannelsAccounted'
  BY <1>1, <1>2, <1>3, <1>4, <1>5 DEF IInv, ChannelsAccounted
<1>9. ChannelOwnsClient'
  BY <1>1, <1>3, <1>4, <1>6 DEF ChannelOwnsClient
<1>10. FreedOnce'
  BY <1>3 DEF IInv, FreedOnce
<1>11. HooksBalanced'
  <2>1. \A x \in Channels : InUse(x)' <=> InUse(x)
    BY <1>1, <1>3, <1>5 DEF InUse
  <2>. QED  BY <1>3, <2>1 DEF IInv, HooksBalanced
<1>12. HandlerOK'
  BY <1>2, <1>3, <1>5 DEF HandlerOK
<1>13. PointerOK'
  BY <1>1, <1>3, <1>6 DEF PointerOK
<1>. QED  BY <1>7, <1>8, <1>9, <1>10, <1>11, <1>12, <1>13 DEF IInv

(* The signal: Close begins by putting the channels in use behind the free *)
(* ones.                                                                   *)
LEMMA SignalStep ==
  ASSUME IInv, SIG_HANDLE  PROVE IInv'
<1>1. /\ m_nWorkStatus = "SYINX_LINK_WORK"
      /\ m_nWorkStatus' = "SYINX_LINK_CLOSE"
      /\ m_queueILoop' = m_queueILoop \o m_listConnectClient
      /\ UNCHANGED <<at, m_listConnectClient, deleted, IChStatus, m_buffer,
                     m_Inputevbuffer, logins, logouts, bev, ctx, peer, wire,
                     out, sent, got>>
      /\ deleted = {}
  BY DEF SIG_HANDLE, channelVars, clientVars, IInv, HandlerOK
<1>2. /\ m_queueILoop' \in Seq(Channels) /\ NoRepeats(m_queueILoop')
      /\ Elements(m_queueILoop')
           = Elements(m_queueILoop) \cup Elements(m_listConnectClient)
  <2>1. /\ m_queueILoop \in Seq(Channels) /\ NoRepeats(m_queueILoop)
        /\ m_listConnectClient \in Seq(Channels)
        /\ NoRepeats(m_listConnectClient)
        /\ Elements(m_queueILoop) \cap Elements(m_listConnectClient) = {}
    BY <1>1 DEF IInv, TypeOK, ChannelsAccounted
  <2>. QED  BY <1>1, <2>1, ConcatElements
<1>3. InFlight' = InFlight
  BY <1>1 DEF InFlight
<1>4. TypeOK'
  BY <1>1, <1>2 DEF IInv, TypeOK
<1>5. ChannelsAccounted'
  BY <1>1, <1>2, <1>3 DEF IInv, ChannelsAccounted
<1>6. ChannelOwnsClient' /\ FreedOnce' /\ HandlerOK' /\ PointerOK'
  <2>1. ChannelOwnsClient' /\ HandlerOK'
    BY <1>1 DEF ChannelOwnsClient, HandlerOK
  <2>2. FreedOnce'
    BY <1>1 DEF IInv, FreedOnce
  <2>3. PointerOK'
    BY <1>1 DEF IInv, PointerOK
  <2>. QED  BY <2>1, <2>2, <2>3
<1>7. HooksBalanced'
  <2>1. \A x \in Channels : InUse(x)' <=> InUse(x)
    BY <1>1 DEF InUse
  <2>. QED  BY <1>1, <2>1 DEF IInv, HooksBalanced
<1>. QED  BY <1>4, <1>5, <1>6, <1>7 DEF IInv

(* Close deletes a channel, which the interrupted handler does not hold.   *)
LEMMA CloseChannelStep ==
  ASSUME IInv, CloseChannel  PROVE IInv'
<1>. DEFINE c == Head(m_queueILoop)
            k == m_buffer[c]
<1>1. /\ m_nWorkStatus = "SYINX_LINK_CLOSE" /\ m_queueILoop # <<>>
      /\ m_queueILoop' = Tail(m_queueILoop)
      /\ m_Inputevbuffer' = [m_Inputevbuffer EXCEPT ![c] = Rest(c)]
      /\ IChStatus' = [IChStatus EXCEPT ![c] = "CLIENT_LOGOUT"]
      /\ logouts' = [logouts EXCEPT ![c] = @ + 1]
      /\ deleted' = deleted \cup {c}
      /\ UNCHANGED <<m_nWorkStatus, at, m_listConnectClient, logins, ctx, peer,
                     sent, got>>
  BY DEF CloseChannel
<1>2. /\ m_queueILoop' \in Seq(Channels) /\ NoRepeats(m_queueILoop')
      /\ Elements(m_queueILoop') = Elements(m_queueILoop) \ {c}
      /\ c \in Channels /\ c \in Elements(m_queueILoop)
  <2>1. m_queueILoop \in Seq(Channels) /\ NoRepeats(m_queueILoop)
    BY DEF IInv, TypeOK, ChannelsAccounted
  <2>. QED  BY <1>1, <2>1, TailElements
<1>3. c \notin InFlight /\ c \notin deleted /\ InFlight' = InFlight
  BY <1>1, <1>2 DEF IInv, ChannelsAccounted, InFlight
<1>4. ~(at.op = "freed" /\ at.arg = c)
  BY <1>3 DEF InFlight
<1>5. /\ m_Inputevbuffer' \in [Channels -> Seq(Bytes)]
      /\ IChStatus' \in [Channels -> {"CLIENT_LOGIN", "CLIENT_LOGOUT"}]
  BY <1>1, <1>2, ClearedTypes
<1>6. /\ logouts' \in [Channels -> Nat] /\ logouts'[c] = logouts[c] + 1
      /\ \A x \in Channels \ {c} : logouts'[x] = logouts[x]
  BY <1>1, <1>2, LogoutCounted
<1>7. /\ bev' \in [Clients -> {"none", "open", "leaked", "refused", "freed",
                              "freed twice"}]
      /\ out' \in [Clients -> Seq(Bytes)] /\ wire' \in [Clients -> Seq(Bytes)]
      /\ m_buffer' \in [Channels -> Clients \cup {NoClient}]
      /\ \A x \in Channels \ {c} : m_buffer'[x] = m_buffer[x]
      /\ m_buffer'[c] = NoClient
      /\ \A x \in Clients : bev'[x] = bev[x] \/ (bev'[x] = "freed" /\ x = k)
      /\ FreedOnce'
  <2>1. CASE k \in Clients
    <3>1. /\ bev' = [bev EXCEPT ![k] = Freed(k)]
          /\ out' = [out EXCEPT ![k] = <<>>] /\ wire' = [wire EXCEPT ![k] = <<>>]
          /\ m_buffer' = [m_buffer EXCEPT ![c] = NoClient]
      BY <2>1 DEF CloseChannel
    <3>2. bev[k] = "open"
      BY <1>2, <1>4, <2>1, ResAssumption DEF IInv, PointerOK
    <3>3. m_buffer \in [Channels -> Clients \cup {NoClient}]
      BY DEF IInv, TypeOK
    <3>4. /\ m_buffer' \in [Channels -> Clients \cup {NoClient}]
          /\ \A x \in Channels \ {c} : m_buffer'[x] = m_buffer[x]
          /\ m_buffer'[c] = NoClient
      <4>. HIDE DEF c
      <4>. QED  BY <1>2, <3>1, <3>3
    <3>5. /\ bev' \in [Clients -> {"none", "open", "leaked", "refused", "freed",
                                  "freed twice"}]
          /\ out' \in [Clients -> Seq(Bytes)]
          /\ wire' \in [Clients -> Seq(Bytes)]
          /\ bev'[k] = "freed" /\ \A x \in Clients \ {k} : bev'[x] = bev[x]
          /\ FreedOnce'
      BY <2>1, <3>1, <3>2, FreesOnce
    <3>. HIDE DEF c, k
    <3>. QED  BY <3>4, <3>5
  <2>2. CASE k \notin Clients
    <3>1. UNCHANGED <<m_buffer, bev, wire, out>>
      BY <2>2 DEF CloseChannel
    <3>2. k = NoClient
      BY <1>2, <2>2, WellTyped DEF IInv
    <3>3. /\ bev \in [Clients -> {"none", "open", "leaked", "refused", "freed",
                                 "freed twice"}]
          /\ out \in [Clients -> Seq(Bytes)]
          /\ wire \in [Clients -> Seq(Bytes)]
          /\ m_buffer \in [Channels -> Clients \cup {NoClient}]
          /\ FreedOnce
      BY DEF IInv, TypeOK
    <3>4. FreedOnce'
      BY <3>1, <3>3 DEF FreedOnce
    <3>5. m_buffer[c] = NoClient
      BY <3>2
    <3>. HIDE DEF c, k
    <3>. QED  BY <3>1, <3>3, <3>4, <3>5
  <2>. QED  BY <2>1, <2>2
<1>. HIDE DEF c, k
<1>8. TypeOK'
  <2>1. \A x \in Clients : bev'[x] = "open" => ctx'[x] \in Channels
    BY <1>1, <1>7 DEF IInv, TypeOK
  <2>2. deleted' \in SUBSET Channels
    BY <1>1, <1>2 DEF IInv, TypeOK
  <2>. QED  BY <1>1, <1>2, <1>5, <1>6, <1>7, <2>1, <2>2 DEF IInv, TypeOK
<1>9. ChannelsAccounted'
  BY <1>1, <1>2, <1>3 DEF IInv, ChannelsAccounted
<1>10. ChannelOwnsClient' /\ HandlerOK'
  BY <1>1 DEF ChannelOwnsClient, HandlerOK
<1>11. HooksBalanced'
  <2>1. \A x \in Channels : InUse(x)' <=> InUse(x)
    BY <1>1 DEF InUse
  <2>2. logins[c] \in Nat /\ logouts[c] \in Nat
    BY <1>2 DEF IInv, TypeOK
  <2>3. HooksBalanced
    BY DEF IInv
  <2>. QED  BY <1>1, <1>2, <1>3, <1>6, <2>1, <2>2, <2>3 DEF HooksBalanced
<1>12. PointerOK'
  <2>1. ASSUME NEW x \in Channels, m_buffer'[x] # NoClient
        PROVE  /\ ctx[m_buffer'[x]] = x
               /\ bev'[m_buffer'[x]] = "open" \/ (at.op = "freed" /\ at.arg = x)
    <3>1. x # c /\ m_buffer'[x] = m_buffer[x] /\ m_buffer[x] \in Clients
      BY <1>7, <2>1, WellTyped DEF IInv
    <3>2. /\ ctx[m_buffer[x]] = x
          /\ bev[m_buffer[x]] = "open" \/ (at.op = "freed" /\ at.arg = x)
      <4>1. PointerOK /\ m_buffer[x] # NoClient
        BY <3>1, ResAssumption DEF IInv
      <4>. QED  BY <4>1 DEF PointerOK
    <3>3. m_buffer[x] # k
      <4>1. k # NoClient => ctx[k] = c
        BY <1>2 DEF IInv, PointerOK, k
      <4>. QED  BY <2>1, <3>1, <3>2, <4>1
    <3>. QED  BY <1>7, <3>1, <3>2, <3>3
  <2>. QED  BY <1>1, <2>1 DEF PointerOK
<1>. QED  BY <1>7, <1>8, <1>9, <1>10, <1>11, <1>12 DEF IInv

LEMMA ExitStep ==
  ASSUME IInv, Exit \/ UNCHANGED vars  PROVE IInv'
<1>1. UNCHANGED <<at, resVars, channelVars, clientVars>>
  BY DEF Exit, vars
<1>2. \/ m_nWorkStatus' = m_nWorkStatus
      \/ m_nWorkStatus # "SYINX_LINK_WORK" /\ m_nWorkStatus' = "exit"
  BY DEF Exit, vars
<1>. USE <1>1, <1>2 DEF IInv, resVars, channelVars, clientVars
<1>3. TypeOK'
  BY DEF TypeOK
<1>4. ChannelsAccounted'
  BY DEF ChannelsAccounted, InFlight
<1>5. ChannelOwnsClient' /\ FreedOnce' /\ HandlerOK' /\ PointerOK'
  BY ZenonT(40) DEF ChannelOwnsClient, FreedOnce, HandlerOK, PointerOK
<1>6. HooksBalanced'
  BY DEF HooksBalanced, InUse
<1>. QED  BY <1>3, <1>4, <1>5, <1>6

-----------------------------------------------------------------------------
(* The invariant holds of every reachable state: before and after each     *)
(* statement a signal can interrupt.                                       *)
THEOREM ResInvariant == Spec => []IInv
<1>1. IInv /\ [Next]_vars => IInv'
  <2>. SUFFICES ASSUME IInv, [Next]_vars  PROVE IInv'
    OBVIOUS
  <2>1. ASSUME NEW k \in Clients, ClientStep(k)  PROVE IInv'
    BY <2>1, SendStep, LeaveStep, RefuseStep, AllocationStep, Recv_CbStep,
       WritevStep, FlushStep, Event_CbStep DEF ClientStep
  <2>. QED  BY <2>1, ConnectStep, SocketFdAddStep, FrameStep, ClearStep,
               LogoutStep, SocketFdDelStep, SignalStep, CloseChannelStep,
               ExitStep DEF Next
<1>. QED  BY <1>1, InitIInv, PTL DEF Spec

(* The variables keep their types, and an open bufferevent has a channel.  *)
THEOREM ResTypeOK == Spec => []TypeOK
<1>1. IInv => TypeOK
  BY DEF IInv
<1>. QED  BY <1>1, ResInvariant, PTL

(* For every ConnectNum, no channel is lost, handed to two clients or      *)
(* deleted twice by AllocationIChannel, SocketFdDel and Close.             *)
THEOREM ResChannelsAccounted == Spec => []ChannelsAccounted
<1>1. IInv => ChannelsAccounted
  BY DEF IInv
<1>. QED  BY <1>1, ResInvariant, PTL

(* No callback ever reaches the channel of another client.                 *)
THEOREM ResChannelOwnsClient == Spec => []ChannelOwnsClient
<1>1. IInv => ChannelOwnsClient
  BY DEF IInv
<1>. QED  BY <1>1, ResInvariant, PTL

(* No bufferevent is freed twice, wherever the signal comes.               *)
THEOREM ResFreedOnce == Spec => []FreedOnce
<1>1. IInv => FreedOnce
  BY DEF IInv
<1>. QED  BY <1>1, ResInvariant, PTL

(* Login and Logout alternate, from the hook's call on and not only once   *)
(* the channel is moved, but for the Logout that Close adds and the one    *)
(* that the channel of an interrupted handler never gets.                  *)
THEOREM ResHooksBalanced == Spec => []HooksBalanced
<1>1. IInv => HooksBalanced
  BY DEF IInv
<1>. QED  BY <1>1, ResInvariant, PTL

-----------------------------------------------------------------------------
(* The refinement.                                                         *)

Owner == [c \in Channels |-> IF c \in Elements(m_listConnectClient)
                             THEN m_buffer[c] ELSE NoClient]
TurnedAway == {k \in Clients : bev[k] = "refused"}

(* A client that has no bufferevent yet, or whose channel is not in the    *)
(* list, is not served; one whose bufferevent is not refused was not       *)
(* turned away.                                                            *)
LEMMA NotServed ==
  ASSUME IInv, m_nWorkStatus = "SYINX_LINK_WORK", NEW k \in Clients,
         \/ bev[k] = "none"
         \/ bev[k] = "open" /\ ctx[k] \notin Elements(m_listConnectClient)
  PROVE  k \notin Limit!Served \cup TurnedAway
<1>1. ASSUME NEW c \in Channels, Owner[c] = k  PROVE FALSE
  <2>1. c \in Elements(m_listConnectClient) /\ m_buffer[c] = k
    BY <1>1, ResAssumption DEF Owner
  <2>. QED  BY <2>1 DEF IInv, ChannelOwnsClient
<1>. QED  BY <1>1 DEF Limit!Served, TurnedAway, Owner

LEMMA RefuseIsTurnAway ==
  ASSUME IInv, NEW k \in Clients, Refuse(k)  PROVE Limit!TurnAway(k)
<1>1. /\ m_nWorkStatus = "SYINX_LINK_WORK" /\ bev[k] = "none"
      /\ m_queueILoop = <<>> /\ at.op = "loop"
      /\ UNCHANGED <<m_listConnectClient, m_buffer>>
      /\ bev' = [bev EXCEPT ![k] = "refused"]
  BY DEF Refuse, Looping, AtLoop, Place, resVars, channelVars
<1>2. k \notin Limit!Served \cup TurnedAway
  BY <1>1, NotServed
<1>3. Elements(m_listConnectClient) = Channels
  <2>1. Elements(m_queueILoop) = {}
    BY <1>1 DEF Elements
  <2>. QED  BY <1>1, <2>1 DEF IInv, ChannelsAccounted, InFlight
<1>4. \A c \in Channels : Owner[c] # NoClient
  BY <1>1, <1>3, ResAssumption DEF IInv, ChannelOwnsClient, Owner
<1>5. TurnedAway' = TurnedAway \cup {k}
  <2>1. bev \in [Clients -> {"none", "open", "leaked", "refused", "freed",
                             "freed twice"}]
    BY DEF IInv, TypeOK
  <2>. QED  BY <1>1, <2>1 DEF TurnedAway
<1>6. Owner' = Owner
  BY <1>1 DEF Owner
<1>. QED  BY <1>2, <1>4, <1>5, <1>6 DEF Limit!TurnAway, Owner, TurnedAway

LEMMA AddIsAccept ==
  ASSUME IInv, SocketFdAdd,
         NEW c \in Channels, c = at.arg, NEW k \in Clients, k = m_buffer[c]
  PROVE  Limit!Accept(c, k)
<1>1. /\ m_nWorkStatus = "SYINX_LINK_WORK" /\ InFlight = {c}
      /\ at.op = "login"
      /\ m_listConnectClient' = Append(m_listConnectClient, c)
      /\ bev' = bev /\ m_buffer' = m_buffer
  BY DEF SocketFdAdd, Running, InFlight, channelVars, clientVars
<1>7. bev[k] = "open" /\ ctx[k] = c
  BY <1>1, ResAssumption DEF IInv, PointerOK
<1>2. c \notin Elements(m_listConnectClient)
  BY <1>1 DEF IInv, ChannelsAccounted
<1>3. Elements(m_listConnectClient') = Elements(m_listConnectClient) \cup {c}
  <2>1. m_listConnectClient \in Seq(Channels)
    BY DEF IInv, TypeOK
  <2>. QED  BY <1>1, <1>2, <2>1, AppendElements
<1>4. /\ m_buffer \in [Channels -> Clients \cup {NoClient}]
  BY DEF IInv, TypeOK
<1>5. k \notin Limit!Served \cup TurnedAway
  BY <1>1, <1>2, <1>7, NotServed
<1>6. Owner[c] = NoClient /\ Owner' = [Owner EXCEPT ![c] = k]
  <2>1. Owner[c] = NoClient
    BY <1>2 DEF Owner
  <2>2. ASSUME NEW x \in Channels
        PROVE  Owner'[x] = IF x = c THEN k ELSE Owner[x]
    BY <1>1, <1>2, <1>3, <1>4 DEF Owner
  <2>. QED  BY <2>1, <2>2 DEF Owner
<1>8. TurnedAway' = TurnedAway
  BY <1>1 DEF TurnedAway
<1>. QED  BY <1>5, <1>6, <1>8 DEF Limit!Accept, Owner, TurnedAway

LEMMA Event_CbIsLeave ==
  ASSUME IInv, NEW k \in Clients, SyinxKernel_Event_Cb(k),
         NEW c \in Channels, c = ctx[k]
  PROVE  Limit!Leave(c)
<1>1. /\ m_nWorkStatus = "SYINX_LINK_WORK" /\ at.op \in {"loop", "writev"}
      /\ bev[k] = "open" /\ UNCHANGED <<m_buffer, bev>>
      /\ m_listConnectClient' = Without(m_listConnectClient, c)
  BY DEF SyinxKernel_Event_Cb, FindsGone, Looping, Running, AtLoop, Place,
         channelVars, clientVars
<1>2. /\ c \in Elements(m_listConnectClient) /\ m_buffer[c] = k
      /\ c \in Channels
  BY <1>1 DEF IInv, ChannelOwnsClient, TypeOK
<1>3. Elements(m_listConnectClient') = Elements(m_listConnectClient) \ {c}
  <2>1. m_listConnectClient \in Seq(Channels) /\ NoRepeats(m_listConnectClient)
    BY DEF IInv, TypeOK, ChannelsAccounted
  <2>. QED  BY <1>1, <1>2, <2>1, WithoutElements
<1>4. Owner[c] # NoClient /\ Owner' = [Owner EXCEPT ![c] = NoClient]
  <2>1. Owner[c] # NoClient
    BY <1>2, ResAssumption DEF Owner
  <2>2. ASSUME NEW x \in Channels
        PROVE  Owner'[x] = IF x = c THEN NoClient ELSE Owner[x]
    BY <1>1, <1>3 DEF Owner
  <2>. QED  BY <2>2, <2>1 DEF Owner
<1>5. TurnedAway' = TurnedAway
  BY <1>1 DEF TurnedAway
<1>. QED  BY <1>4, <1>5 DEF Limit!Leave, Owner, TurnedAway

(* Close takes the client's bufferevent from a channel that is, or is not, *)
(* in the list.                                                            *)
LEMMA CloseIsLeave ==
  ASSUME IInv, CloseChannel, NEW c \in Channels, c = Head(m_queueILoop)
  PROVE  Limit!Leave(c) \/ (Owner' = Owner /\ TurnedAway' = TurnedAway)
<1>. DEFINE k == m_buffer[c]
<1>1. /\ m_queueILoop # <<>> /\ UNCHANGED m_listConnectClient
      /\ m_nWorkStatus = "SYINX_LINK_CLOSE"
  BY DEF CloseChannel
<1>2. /\ c \in Channels /\ c \in Elements(m_queueILoop)
  <2>1. m_queueILoop \in Seq(Channels)
    BY DEF IInv, TypeOK
  <2>. QED  BY <1>1, <2>1, TailElements
<1>3. CASE k \in Clients
  <2>1. /\ m_buffer' = [m_buffer EXCEPT ![c] = NoClient]
        /\ bev' = [bev EXCEPT ![k] = Freed(k)]
    BY <1>3 DEF CloseChannel
  <2>2. bev[k] = "open"
    <3>1. c \notin InFlight
      BY <1>1, <1>2 DEF IInv, ChannelsAccounted
    <3>. QED  BY <1>2, <1>3, <3>1, ResAssumption DEF IInv, PointerOK, InFlight
  <2>3. /\ bev \in [Clients -> {"none", "open", "leaked", "refused", "freed",
                                "freed twice"}]
        /\ m_buffer \in [Channels -> Clients \cup {NoClient}]
    BY DEF IInv, TypeOK
  <2>4. Freed(k) = "freed"
    BY <2>2 DEF Freed
  <2>. HIDE DEF k
  <2>5. TurnedAway' = TurnedAway
    BY <1>3, <2>1, <2>2, <2>3, <2>4 DEF TurnedAway
  <2>6. CASE c \in Elements(m_listConnectClient)
    <3>1. Owner[c] # NoClient
      BY <1>2, <1>3, <2>6, ResAssumption DEF Owner, k
    <3>2. ASSUME NEW x \in Channels
          PROVE  Owner'[x] = IF x = c THEN NoClient ELSE Owner[x]
      BY <1>1, <2>1, <2>3 DEF Owner
    <3>3. Owner' = [Owner EXCEPT ![c] = NoClient]
      BY <3>2 DEF Owner
    <3>. QED  BY <2>5, <3>1, <3>3 DEF Limit!Leave, Owner, TurnedAway
  <2>7. CASE c \notin Elements(m_listConnectClient)
    <3>1. ASSUME NEW x \in Channels  PROVE Owner'[x] = Owner[x]
      BY <1>1, <2>1, <2>3, <2>7 DEF Owner
    <3>. QED  BY <2>5, <3>1 DEF Owner
  <2>. QED  BY <2>6, <2>7
<1>4. CASE k \notin Clients
  <2>1. UNCHANGED <<m_buffer, bev>>
    BY <1>4 DEF CloseChannel
  <2>. QED  BY <1>1, <2>1 DEF Owner, TurnedAway
<1>. QED  BY <1>3, <1>4

(* The steps that neither give a client to a channel in the list nor take  *)
(* it from one, and refuse nobody.                                         *)
LEMMA OthersStutter ==
  ASSUME IInv, [Next]_vars
  PROVE  \/ \E k \in Clients : \/ Refuse(k) \/ SyinxKernel_Event_Cb(k)
         \/ SocketFdAdd \/ CloseChannel
         \/ Owner' = Owner /\ TurnedAway' = TurnedAway
<1>0. /\ bev \in [Clients -> {"none", "open", "leaked", "refused", "freed",
                              "freed twice"}]
      /\ m_buffer \in [Channels -> Clients \cup {NoClient}]
  BY DEF IInv, TypeOK
<1>1. ASSUME UNCHANGED <<m_listConnectClient, m_buffer, bev>>
      PROVE  Owner' = Owner /\ TurnedAway' = TurnedAway
  BY <1>1 DEF Owner, TurnedAway
<1>2. ASSUME NEW k \in Clients, ListenFails(k) \/ AllocationIChannel(k)
      PROVE  Owner' = Owner /\ TurnedAway' = TurnedAway
  <2>1. /\ UNCHANGED <<m_listConnectClient, m_buffer>>
        /\ bev[k] = "none"
        /\ \/ bev' = [bev EXCEPT ![k] = "leaked"]
           \/ bev' = [bev EXCEPT ![k] = "open"]
    BY <1>2 DEF ListenFails, AllocationIChannel, resVars, channelVars
  <2>. QED  BY <1>0, <2>1 DEF Owner, TurnedAway
<1>3. ASSUME NEW k \in Clients,
             \/ Send(k) \/ Leave(k) \/ SyinxKernel_Recv_Cb(k) \/ Writev(k)
             \/ Flush(k)
      PROVE  UNCHANGED <<m_listConnectClient, m_buffer, bev>>
  BY <1>3 DEF Send, Leave, SyinxKernel_Recv_Cb, Writev, Flush, resVars,
              channelVars, clientVars
<1>4. ASSUME GameServerDoAction \/ OnStatusDoAction \/ SocketFdDel
             \/ SIG_HANDLE \/ Exit \/ UNCHANGED vars
      PROVE  UNCHANGED <<m_listConnectClient, m_buffer, bev>>
  BY <1>4 DEF GameServerDoAction, OnStatusDoAction, SocketFdDel, SIG_HANDLE,
              Exit, vars, resVars, channelVars, clientVars
<1>5. ASSUME Clear  PROVE Owner' = Owner /\ TurnedAway' = TurnedAway
  <2>. DEFINE k == m_buffer[at.arg]
  <2>1. /\ UNCHANGED <<m_listConnectClient, m_buffer>>
        /\ bev' = [bev EXCEPT ![k] = Freed(k)]
        /\ k \in Clients /\ at.op = "removed" /\ at.arg \in Channels
    BY <1>5 DEF Clear, Running, IInv, HandlerOK, ChannelsAccounted, InFlight,
                resVars
  <2>2. bev[k] = "open" /\ Freed(k) = "freed"
    BY <2>1, ResAssumption DEF IInv, PointerOK, Freed
  <2>. HIDE DEF k
  <2>. QED  BY <1>0, <2>1, <2>2 DEF Owner, TurnedAway
<1>6. ASSUME OnClientConnect \/ Logout
      PROVE  Owner' = Owner /\ TurnedAway' = TurnedAway
  <2>. DEFINE c == at.arg
  <2>1. /\ UNCHANGED <<m_listConnectClient, bev>>
        /\ \E b : m_buffer' = [m_buffer EXCEPT ![c] = b]
        /\ c \notin Elements(m_listConnectClient)
    BY <1>6 DEF OnClientConnect, Logout, Running, IInv, ChannelsAccounted,
                InFlight, resVars, clientVars
  <2>. HIDE DEF c
  <2>2. ASSUME NEW x \in Channels  PROVE Owner'[x] = Owner[x]
    BY <1>0, <2>1 DEF Owner
  <2>. QED  BY <2>1, <2>2 DEF Owner, TurnedAway
<1>. QED  BY <1>1, <1>2, <1>3, <1>4, <1>5, <1>6 DEF Next, ClientStep

(* For every ConnectNum and any number of clients, at most ConnectNum are  *)
(* served at a time, each by a channel of its own, and a client is refused *)
(* only when every channel is taken.                                       *)
THEOREM ResImplementsConnectionLimit == Spec => ImplementsConnectionLimit
<1>1. Init => Limit!Init
  <2>. SUFFICES ASSUME Init  PROVE Limit!Init
    OBVIOUS
  <2>1. Owner = [c \in Channels |-> NoClient] /\ TurnedAway = {}
    BY DEF Init, Owner, TurnedAway, Elements
  <2>. QED  BY <2>1 DEF Limit!Init, Owner, TurnedAway
<1>2. IInv /\ [Next]_vars => [Limit!Next]_(Limit!vars)
  <2>. SUFFICES ASSUME IInv, [Next]_vars  PROVE [Limit!Next]_(Limit!vars)
    OBVIOUS
  <2>1. ASSUME NEW k \in Clients, Refuse(k)  PROVE Limit!Next
    BY <2>1, RefuseIsTurnAway DEF Limit!Next
  <2>2. ASSUME NEW k \in Clients, SyinxKernel_Event_Cb(k)  PROVE Limit!Next
    <3>1. PICK c \in Channels : c = ctx[k]
      BY <2>2 DEF SyinxKernel_Event_Cb, FindsGone, IInv, TypeOK
    <3>2. Limit!Leave(c)
      BY <2>2, <3>1, Event_CbIsLeave
    <3>. QED  BY <3>2 DEF Limit!Next
  <2>3. ASSUME SocketFdAdd  PROVE Limit!Next
    <3>0. PICK c \in Channels : c = at.arg
      BY <2>3 DEF SocketFdAdd, Running, IInv, ChannelsAccounted, InFlight
    <3>1. PICK k \in Clients : k = m_buffer[c]
      BY <2>3, <3>0 DEF SocketFdAdd, Running, IInv, HandlerOK
    <3>2. Limit!Accept(c, k)
      BY <2>3, <3>0, <3>1, AddIsAccept
    <3>. QED  BY <3>2 DEF Limit!Next
  <2>4. ASSUME CloseChannel
        PROVE  Limit!Next \/ (Owner' = Owner /\ TurnedAway' = TurnedAway)
    <3>1. PICK c \in Channels : c = Head(m_queueILoop)
      <4>1. m_queueILoop \in Seq(Channels) /\ m_queueILoop # <<>>
        BY <2>4 DEF CloseChannel, IInv, TypeOK
      <4>. QED  BY <4>1, TailElements
    <3>2. Limit!Leave(c) \/ (Owner' = Owner /\ TurnedAway' = TurnedAway)
      BY <2>4, <3>1, CloseIsLeave
    <3>. QED  BY <3>2 DEF Limit!Next
  <2>5. Owner' = Owner /\ TurnedAway' = TurnedAway => UNCHANGED Limit!vars
    BY DEF Limit!vars, Owner, TurnedAway
  <2>. QED  BY <2>1, <2>2, <2>3, <2>4, <2>5, OthersStutter
<1>. QED  BY <1>1, <1>2, ResInvariant, PTL
          DEF Spec, ImplementsConnectionLimit, Limit!Spec

-----------------------------------------------------------------------------
(* Sequences.                                                              *)

LEMMA ConcatAppend ==
  ASSUME NEW S, NEW s \in Seq(S), NEW r \in Seq(S), NEW b \in S
  PROVE  s \o Append(r, b) = Append(s \o r, b)
OBVIOUS

LEMMA SameSequence ==
  ASSUME NEW S, NEW s \in Seq(S), NEW r \in Seq(S), Len(r) = Len(s),
         \A i \in 1 .. Len(s) : r[i] = s[i]
  PROVE  r = s
OBVIOUS

LEMMA Splitting ==
  ASSUME NEW S, NEW s \in Seq(S), NEW n \in 0 .. Len(s)
  PROVE  SubSeq(s, 1, n) \o SubSeq(s, n + 1, Len(s)) = s
<1>. DEFINE p == SubSeq(s, 1, n)
            q == SubSeq(s, n + 1, Len(s))
<1>0. /\ Len(s) \in Nat /\ n \in Nat /\ n <= Len(s)
      /\ \A i \in 1 .. Len(s) : s[i] \in S
  OBVIOUS
<1>1. p \in Seq(S) /\ Len(p) = n /\ \A i \in 1 .. n : p[i] = s[i]
  BY <1>0, SubSeqProperties
<1>2. /\ q \in Seq(S) /\ Len(q) = Len(s) - n
      /\ \A i \in 1 .. Len(s) - n : q[i] = s[n + i]
  BY <1>0, SubSeqProperties
<1>. HIDE DEF p, q
<1>3. p \o q \in Seq(S) /\ Len(p \o q) = Len(s)
  BY <1>0, <1>1, <1>2, ConcatProperties
<1>4. ASSUME NEW i \in 1 .. Len(s)  PROVE (p \o q)[i] = s[i]
  <2>1. (p \o q)[i] = IF i <= Len(p) THEN p[i] ELSE q[i - Len(p)]
    BY <1>0, <1>1, <1>2, ConcatProperties
  <2>. QED  BY <1>0, <1>1, <1>2, <2>1
<1>. QED  BY <1>3, <1>4, SameSequence DEF p, q

(* evbuffer_remove splits the buffer.                                      *)
LEMMA TakenThenRest ==
  ASSUME TypeOK, NEW c \in Channels
  PROVE  /\ Taken(c) \o Rest(c) = m_Inputevbuffer[c]
         /\ Elements(Rest(c)) \subseteq Elements(m_Inputevbuffer[c])
         /\ Len(m_Inputevbuffer[c]) <= BUFFSIZE => Rest(c) = <<>>
<1>1. PICK b \in Seq(Bytes) : b = m_Inputevbuffer[c]
  BY DEF TypeOK
<1>2. PICK n \in 0 .. Len(b) : n = TakeSize(c)
  BY <1>1, ResAssumption DEF TakeSize
<1>3. Len(b) <= BUFFSIZE => n = Len(b)
  BY <1>1, <1>2, ResAssumption DEF TakeSize
<1>4. Taken(c) = SubSeq(b, 1, n) /\ Rest(c) = SubSeq(b, n + 1, Len(b))
  BY <1>1, <1>2 DEF Taken, Rest
<1>5. SubSeq(b, 1, n) \o SubSeq(b, n + 1, Len(b)) = b
  BY Splitting
<1>6. Elements(Rest(c)) \subseteq Elements(b)
  <2>1. ASSUME NEW i \in 1 .. Len(b) - n
        PROVE  SubSeq(b, n + 1, Len(b))[i] = b[i + n]
    OBVIOUS
  <2>2. Len(SubSeq(b, n + 1, Len(b))) = Len(b) - n
    OBVIOUS
  <2>3. \A i \in 1 .. Len(b) - n : i + n \in 1 .. Len(b)
    OBVIOUS
  <2>. QED  BY <1>4, <2>1, <2>2, <2>3 DEF Elements
<1>7. n = Len(b) => SubSeq(b, n + 1, Len(b)) = <<>>
  OBVIOUS
<1>. QED  BY <1>1, <1>3, <1>4, <1>5, <1>6, <1>7

-----------------------------------------------------------------------------
(* The inductive invariants, on top of IInv.                               *)

(* The way of a byte: back at the client, written, held, sent.             *)
Line(k) == got[k] \o out[k] \o m_Inputevbuffer[ctx[k]] \o wire[k]

(* Nothing of a client that has not connected yet is anywhere.             *)
Fresh(k) ==
  /\ sent[k] = 0 /\ got[k] = <<>> /\ out[k] = <<>> /\ wire[k] = <<>>
  /\ \A c \in Channels : \A b \in Elements(m_Inputevbuffer[c]) : b[1] # k

EchoInv ==
  m_nWorkStatus = "SYINX_LINK_WORK" =>
    \A k \in Clients :
      /\ \A b \in Elements(wire[k]) : b[1] = k
      /\ bev[k] = "none" => Fresh(k)
      /\ bev[k] = "open" => EndsWithAllOf(Line(k), k)

AllSmall == \A k \in Clients : sent[k] <= BUFFSIZE

(* Under AllSmall: a channel nobody uses holds nothing, and all that is on *)
(* the way to a client is what it sent.                                    *)
IsolationInv ==
  AllSmall =>
    /\ \A k \in Clients : \A b \in Elements(got[k]) : b[1] = k
    /\ m_nWorkStatus = "SYINX_LINK_WORK" =>
         /\ \A c \in Channels :
              \/ c \in Elements(m_listConnectClient)
              \/ at.op = "removed" /\ at.arg = c
              \/ m_Inputevbuffer[c] = <<>>
         /\ \A k \in Clients : bev[k] = "open" => Len(Line(k)) = sent[k]

(* The pieces of a line are sequences of bytes.                            *)
LEMMA LineTyped ==
  ASSUME TypeOK, NEW k \in Clients, ctx[k] \in Channels
  PROVE  /\ got[k] \in Seq(Bytes) /\ out[k] \in Seq(Bytes)
         /\ m_Inputevbuffer[ctx[k]] \in Seq(Bytes) /\ wire[k] \in Seq(Bytes)
         /\ got[k] \o out[k] \in Seq(Bytes)
         /\ got[k] \o out[k] \o m_Inputevbuffer[ctx[k]] \in Seq(Bytes)
         /\ Line(k) \in Seq(Bytes) /\ sent[k] \in Nat
<1>1. /\ got[k] \in Seq(Bytes) /\ out[k] \in Seq(Bytes)
      /\ m_Inputevbuffer[ctx[k]] \in Seq(Bytes) /\ wire[k] \in Seq(Bytes)
      /\ sent[k] \in 0 .. MaxSend
  BY DEF TypeOK
<1>2. got[k] \o out[k] \in Seq(Bytes)
  BY <1>1, ConcatProperties
<1>3. got[k] \o out[k] \o m_Inputevbuffer[ctx[k]] \in Seq(Bytes)
  BY <1>1, <1>2, ConcatProperties
<1>4. Line(k) \in Seq(Bytes)
  BY <1>1, <1>3, ConcatProperties DEF Line
<1>. QED  BY <1>1, <1>2, <1>3, <1>4, ResAssumption

(* A step that sends nothing and opens no bufferevent keeps the invariant  *)
(* if it leaves the line of every open one as it is, and fills buffers     *)
(* from nothing but the wires of open ones.                                *)
LEMMA EchoQuiet ==
  ASSUME EchoInv, m_nWorkStatus = "SYINX_LINK_WORK", sent' = sent,
         \A k \in Clients : /\ wire'[k] \in {wire[k], <<>>}
                            /\ bev'[k] \in {"none", "open"} => bev'[k] = bev[k],
         \A k \in Clients : bev[k] = "none" => got'[k] = got[k] /\ out'[k] = out[k],
         \A k \in Clients : bev'[k] = "open" => Line(k)' = Line(k),
         \A c \in Channels : \A b \in Elements(m_Inputevbuffer'[c]) :
           \/ b \in Elements(m_Inputevbuffer[c])
           \/ \E k \in Clients : bev[k] = "open" /\ b \in Elements(wire[k])
  PROVE  EchoInv'
<1>. SUFFICES ASSUME NEW k \in Clients
              PROVE  /\ \A b \in Elements(wire'[k]) : b[1] = k
                     /\ bev'[k] = "none" => Fresh(k)'
                     /\ bev'[k] = "open" => EndsWithAllOf(Line(k), k)'
  BY DEF EchoInv
<1>1. /\ \A x \in Clients : \A b \in Elements(wire[x]) : b[1] = x
      /\ bev[k] = "none" => Fresh(k)
      /\ bev[k] = "open" => EndsWithAllOf(Line(k), k)
  BY DEF EchoInv
<1>2. \A b \in Elements(wire'[k]) : b[1] = k
  BY <1>1 DEF Elements
<1>3. ASSUME bev'[k] = "none"  PROVE Fresh(k)'
  BY <1>1, <1>3 DEF Fresh
<1>4. ASSUME bev'[k] = "open"  PROVE EndsWithAllOf(Line(k), k)'
  BY <1>1, <1>4 DEF EndsWithAllOf
<1>. QED  BY <1>2, <1>3, <1>4

(* Under AllSmall nothing on the way to a client is another's.             *)
LEMMA LineIsOwn ==
  ASSUME EchoInv, IsolationInv, AllSmall, m_nWorkStatus = "SYINX_LINK_WORK",
         NEW k \in Clients, bev[k] = "open", Line(k) \in Seq(Bytes)
  PROVE  \A b \in Elements(Line(k)) : b[1] = k
<1>1. EndsWithAllOf(Line(k), k) /\ Len(Line(k)) = sent[k]
  BY DEF EchoInv, IsolationInv
<1>2. Len(Line(k)) \in Nat /\ Len(Line(k)) - sent[k] = 0
  BY <1>1
<1>3. \A i \in 1 .. Len(Line(k)) : Line(k)[i] = <<k, i - 0>>
  BY <1>1, <1>2 DEF EndsWithAllOf
<1>. QED  BY <1>3 DEF Elements

(* The same of the second invariant: a client is sent back what was in its *)
(* line, and the channels nobody uses stay empty.                          *)
LEMMA IsolationQuiet ==
  ASSUME IInv, EchoInv, IsolationInv, m_nWorkStatus = "SYINX_LINK_WORK",
         sent' = sent,
         \A k \in Clients : bev'[k] = "open" => bev[k] = "open" /\ Line(k)' = Line(k),
         \A k \in Clients :
           \/ got'[k] = got[k]
           \/ bev[k] = "open" /\ Elements(got'[k]) \subseteq Elements(Line(k)),
         AllSmall => \A c \in Channels :
                       \/ c \in Elements(m_listConnectClient')
                       \/ at'.op = "removed" /\ at'.arg = c
                       \/ m_Inputevbuffer'[c] = <<>>
  PROVE  IsolationInv'
<1>1. AllSmall' = AllSmall
  BY DEF AllSmall
<1>. SUFFICES ASSUME AllSmall
              PROVE  /\ \A k \in Clients : \A b \in Elements(got'[k]) : b[1] = k
                     /\ \A k \in Clients : bev'[k] = "open" => Len(Line(k))' = sent[k]
  BY <1>1 DEF IsolationInv
<1>2. ASSUME NEW k \in Clients  PROVE \A b \in Elements(got'[k]) : b[1] = k
  <2>1. CASE got'[k] = got[k]
    BY <2>1 DEF IsolationInv
  <2>2. CASE bev[k] = "open" /\ Elements(got'[k]) \subseteq Elements(Line(k))
    <3>1. ctx[k] \in Channels /\ TypeOK
      BY <2>2 DEF IInv, TypeOK
    <3>2. Line(k) \in Seq(Bytes)
      BY <3>1, LineTyped
    <3>. QED  BY <2>2, <3>2, LineIsOwn
  <2>. QED  BY <2>1, <2>2
<1>3. ASSUME NEW k \in Clients, bev'[k] = "open"  PROVE Len(Line(k))' = sent[k]
  BY <1>3 DEF IsolationInv
<1>. QED  BY <1>2, <1>3

(* One more byte at the end of the line.                                   *)
LEMMA EchoSend ==
  ASSUME IInv, IInv', EchoInv, NEW k \in Clients, Send(k)  PROVE EchoInv'
<1>. DEFINE b == <<k, sent[k] + 1>>
<1>1. /\ bev[k] = "open" /\ sent' = [sent EXCEPT ![k] = @ + 1]
      /\ wire' = [wire EXCEPT ![k] = Append(@, b)]
      /\ UNCHANGED <<m_nWorkStatus, m_Inputevbuffer, bev, ctx, out, got>>
  BY DEF Send, channelVars
<1>2. /\ ctx[k] \in Channels /\ TypeOK /\ sent \in [Clients -> 0 .. MaxSend]
      /\ wire \in [Clients -> Seq(Bytes)]
      /\ sent[k] + 1 \in 1 .. MaxSend /\ b \in Bytes
  <2>1. ctx[k] \in Channels
    BY <1>1 DEF IInv, TypeOK
  <2>2. /\ TypeOK /\ sent \in [Clients -> 0 .. MaxSend]
        /\ wire \in [Clients -> Seq(Bytes)]
    BY DEF IInv, TypeOK
  <2>3. sent[k] \in 0 .. MaxSend /\ sent[k] < MaxSend
    BY <2>2 DEF Send
  <2>4. sent[k] + 1 \in 1 .. MaxSend
    BY <2>3, ResAssumption
  <2>. QED  BY <2>1, <2>2, <2>4 DEF Bytes
<1>3. /\ sent'[k] = sent[k] + 1 /\ wire'[k] = Append(wire[k], b)
      /\ \A x \in Clients \ {k} : sent'[x] = sent[x] /\ wire'[x] = wire[x]
  BY <1>1, <1>2
<1>. HIDE DEF b
<1>4. /\ Line(k) \in Seq(Bytes) /\ Line(k)' = Append(Line(k), b)
      /\ sent[k] \in Nat
  <2>1. PICK h \in Seq(Bytes) :
          h = got[k] \o out[k] \o m_Inputevbuffer[ctx[k]]
    BY <1>2, LineTyped
  <2>2. wire[k] \in Seq(Bytes) /\ Line(k) \in Seq(Bytes) /\ sent[k] \in Nat
    BY <1>2, LineTyped
  <2>3. Line(k) = h \o wire[k] /\ Line(k)' = h \o Append(wire[k], b)
    BY <1>1, <1>3, <2>1 DEF Line
  <2>4. h \o Append(wire[k], b) = Append(h \o wire[k], b)
    <3>1. \A s, r \in Seq(Bytes) : \A x \in Bytes :
            s \o Append(r, x) = Append(s \o r, x)
      BY ConcatAppend
    <3>2. h \in Seq(Bytes) /\ wire[k] \in Seq(Bytes) /\ b \in Bytes
      BY <1>2, <2>1, <2>2
    <3>. QED  BY <3>1, <3>2
  <2>. QED  BY <2>2, <2>3, <2>4
<1>5. \A x \in Clients \ {k} : Line(x)' = Line(x)
  BY <1>1, <1>3 DEF Line
<1>. SUFFICES ASSUME m_nWorkStatus = "SYINX_LINK_WORK", NEW x \in Clients
              PROVE  /\ \A y \in Elements(wire'[x]) : y[1] = x
                     /\ bev'[x] = "none" => Fresh(x)'
                     /\ bev'[x] = "open" => EndsWithAllOf(Line(x), x)'
  BY <1>1 DEF EchoInv
<1>6. /\ \A y \in Elements(wire[x]) : y[1] = x
      /\ bev[x] = "none" => Fresh(x)
      /\ bev[x] = "open" => EndsWithAllOf(Line(x), x)
  BY DEF EchoInv
<1>7. CASE x # k
  BY <1>1, <1>3, <1>5, <1>6, <1>7 DEF Fresh, EndsWithAllOf
<1>8. CASE x = k
  <2>1. \A y \in Elements(wire'[k]) : y[1] = k
    <3>1. wire[k] \in Seq(Bytes) /\ b[1] = k
      BY <1>2 DEF b
    <3>2. Elements(wire'[k]) = Elements(wire[k]) \cup {b}
      BY <1>2, <1>3, <3>1, AppendElements
    <3>. QED  BY <1>6, <1>8, <3>1, <3>2
  <2>2. EndsWithAllOf(Line(k), k)'
    <3>. DEFINE s == Line(k)
                n == Len(s) - sent[k]
    <3>1. /\ n \in Nat /\ Len(s) \in Nat
          /\ \A i \in 1 .. Len(s) : IF i <= n THEN s[i][1] # k
                                    ELSE s[i] = <<k, i - n>>
      BY <1>1, <1>4, <1>6, <1>8 DEF EndsWithAllOf
    <3>2. /\ Len(s') = Len(s) + 1 /\ s'[Len(s) + 1] = b
          /\ \A i \in 1 .. Len(s) : s'[i] = s[i]
      <4>. HIDE DEF s
      <4>. QED  BY <1>4 DEF s
    <3>3. Len(s') - sent'[k] = n /\ Len(s) + 1 - n = sent[k] + 1
      BY <1>3, <1>4, <3>1, <3>2
    <3>. HIDE DEF s, n
    <3>4. ASSUME NEW i \in 1 .. Len(s')
          PROVE  IF i <= n THEN s'[i][1] # k ELSE s'[i] = <<k, i - n>>
      <4>1. CASE i \in 1 .. Len(s)
        BY <3>1, <3>2, <4>1
      <4>2. CASE i = Len(s) + 1
        BY <1>4, <3>1, <3>2, <3>3, <4>2 DEF b, n
      <4>. QED  BY <3>1, <3>2, <4>1, <4>2
    <3>. QED  BY <3>1, <3>3, <3>4 DEF EndsWithAllOf, s
  <2>. QED  BY <1>1, <1>8, <2>1, <2>2
<1>. QED  BY <1>7, <1>8

LEMMA IsolationSend ==
  ASSUME IInv, IsolationInv, NEW k \in Clients, Send(k)  PROVE IsolationInv'
<1>. DEFINE b == <<k, sent[k] + 1>>
<1>1. /\ bev[k] = "open" /\ sent' = [sent EXCEPT ![k] = @ + 1]
      /\ wire' = [wire EXCEPT ![k] = Append(@, b)]
      /\ UNCHANGED <<m_nWorkStatus, at, m_listConnectClient, m_Inputevbuffer,
                     bev, ctx, out, got>>
  BY DEF Send, channelVars, resVars
<1>2. /\ TypeOK /\ sent \in [Clients -> 0 .. MaxSend] /\ ctx[k] \in Channels
      /\ wire \in [Clients -> Seq(Bytes)]
  BY <1>1 DEF IInv, TypeOK
<1>3. /\ sent'[k] = sent[k] + 1 /\ wire'[k] = Append(wire[k], b)
      /\ \A x \in Clients \ {k} : sent'[x] = sent[x] /\ wire'[x] = wire[x]
  BY <1>1, <1>2
<1>4. AllSmall' => AllSmall
  <2>1. \A x \in Clients : sent[x] <= sent'[x] /\ sent[x] \in Nat /\ sent'[x] \in Nat
    BY <1>2, <1>3, ResAssumption, SMTT(20)
  <2>. QED  BY <2>1, ResAssumption DEF AllSmall
<1>. HIDE DEF b
<1>5. Len(Line(k))' = Len(Line(k)) + 1
  <2>1. PICK h \in Seq(Bytes) :
          h = got[k] \o out[k] \o m_Inputevbuffer[ctx[k]]
    BY <1>2, LineTyped
  <2>2. wire[k] \in Seq(Bytes)
    BY <1>2
  <2>3. Line(k) = h \o wire[k] /\ Line(k)' = h \o wire'[k]
    BY <1>1, <2>1 DEF Line
  <2>4. wire'[k] \in Seq(Bytes) /\ Len(wire'[k]) = Len(wire[k]) + 1
    <3>1. <<k, sent[k] + 1>> \in Bytes
      <4>1. sent[k] \in 0 .. MaxSend /\ sent[k] < MaxSend
        BY <1>2 DEF Send
      <4>. QED  BY <4>1, ResAssumption DEF Bytes
    <3>. QED  BY <1>3, <2>2, <3>1, AppendProperties DEF b
  <2>. QED  BY <2>2, <2>3, <2>4, ConcatProperties, SMTT(20)
<1>6. \A x \in Clients \ {k} : Line(x)' = Line(x)
  BY <1>1, <1>3 DEF Line
<1>. QED  BY <1>1, <1>3, <1>4, <1>5, <1>6 DEF IsolationInv

-----------------------------------------------------------------------------
(* The steps.                                                              *)

LInv == IInv /\ EchoInv /\ IsolationInv

(* Steps that move no byte.                                                *)
LEMMA StillLine ==
  ASSUME LInv, m_nWorkStatus = "SYINX_LINK_WORK",
         UNCHANGED <<sent, got, out, wire, ctx, m_Inputevbuffer>>,
         \A k \in Clients : bev'[k] \in {"none", "open"} => bev'[k] = bev[k],
         \A c \in Channels :
           c \in Elements(m_listConnectClient) \/ (at.op = "removed" /\ at.arg = c)
           => \/ c \in Elements(m_listConnectClient')
              \/ at'.op = "removed" /\ at'.arg = c
  PROVE  EchoInv' /\ IsolationInv'
<1>1. \A k \in Clients : Line(k)' = Line(k)
  BY DEF Line
<1>2. EchoInv'
  BY <1>1, EchoQuiet DEF LInv
<1>3. AllSmall => \A c \in Channels :
                    \/ c \in Elements(m_listConnectClient')
                    \/ at'.op = "removed" /\ at'.arg = c
                    \/ m_Inputevbuffer'[c] = <<>>
  BY DEF LInv, IsolationInv
<1>4. IsolationInv'
  BY <1>1, <1>3, IsolationQuiet DEF LInv
<1>. QED  BY <1>2, <1>4

LEMMA StillSteps ==
  ASSUME LInv, m_nWorkStatus = "SYINX_LINK_WORK",
         \/ \E k \in Clients : \/ Leave(k) \/ ListenFails(k) \/ Refuse(k)
                              \/ Writev(k) \/ SyinxKernel_Event_Cb(k)
         \/ OnClientConnect \/ SocketFdAdd \/ GameServerDoAction
         \/ Logout \/ SocketFdDel \/ UNCHANGED vars
  PROVE  EchoInv' /\ IsolationInv'
<1>0. /\ bev \in [Clients -> {"none", "open", "leaked", "refused", "freed",
                              "freed twice"}]
      /\ m_listConnectClient \in Seq(Channels)
  BY DEF LInv, IInv, TypeOK
<1>1. ASSUME NEW k \in Clients, Leave(k) \/ ListenFails(k) \/ Refuse(k)
      PROVE  EchoInv' /\ IsolationInv'
  <2>1. /\ UNCHANGED <<at, m_listConnectClient, sent, got, out, wire, ctx,
                       m_Inputevbuffer>>
        /\ \A x \in Clients : bev'[x] \in {"none", "open"} => bev'[x] = bev[x]
    BY <1>0, <1>1 DEF Leave, ListenFails, Refuse, resVars, channelVars
  <2>. QED  BY <2>1, StillLine
<1>2. ASSUME NEW k \in Clients, SyinxKernel_Event_Cb(k)
      PROVE  EchoInv' /\ IsolationInv'
  <2>1. /\ UNCHANGED <<bev, sent, got, out, wire, ctx, m_Inputevbuffer>>
        /\ at.op \in {"loop", "writev"}
        /\ at'.op = "removed" /\ at'.arg = ctx[k]
        /\ bev[k] = "open"
        /\ m_listConnectClient' = Without(m_listConnectClient, ctx[k])
    BY <1>2 DEF SyinxKernel_Event_Cb, FindsGone, channelVars, clientVars,
                Looping, Running, AtLoop, Place
  <2>2. /\ ctx[k] \in Elements(m_listConnectClient)
        /\ NoRepeats(m_listConnectClient)
    BY <2>1 DEF LInv, IInv, ChannelOwnsClient, ChannelsAccounted
  <2>3. Elements(m_listConnectClient')
          = Elements(m_listConnectClient) \ {ctx[k]}
    <3>1. m_listConnectClient \in Seq(Channels)
      BY <1>0
    <3>. QED  BY <2>1, <2>2, <3>1, WithoutElements
  <2>. QED  BY <2>1, <2>3, StillLine
<1>3. ASSUME SocketFdAdd  PROVE EchoInv' /\ IsolationInv'
  <2>1. /\ UNCHANGED <<bev, sent, got, out, wire, ctx, m_Inputevbuffer>>
        /\ at.op = "login"
        /\ m_listConnectClient' = Append(m_listConnectClient, at.arg)
        /\ at.arg \in Channels
    BY <1>3 DEF SocketFdAdd, channelVars, clientVars, Running, LInv, IInv,
                ChannelsAccounted, InFlight
  <2>2. Elements(m_listConnectClient')
          = Elements(m_listConnectClient) \cup {at.arg}
    <3>1. m_listConnectClient \in Seq(Channels)
      BY <1>0
    <3>. QED  BY <2>1, <3>1, AppendElements
  <2>. QED  BY <2>1, <2>2, StillLine
<1>4. ASSUME \/ \E k \in Clients : Writev(k)
             \/ OnClientConnect \/ GameServerDoAction \/ Logout \/ SocketFdDel
             \/ UNCHANGED vars
      PROVE  EchoInv' /\ IsolationInv'
  <2>1. /\ UNCHANGED <<m_listConnectClient, bev, sent, got, out, wire, ctx,
                       m_Inputevbuffer>>
        /\ at.op # "removed" \/ at' = at
    BY <1>4 DEF Writev, OnClientConnect, GameServerDoAction, Logout,
                SocketFdDel, vars, Looping, AtLoop, Place, Running, resVars,
                channelVars, clientVars
  <2>. QED  BY <2>1, StillLine
<1>. QED  BY <1>1, <1>2, <1>3, <1>4

(* bufferevent_read_buffer moves the wire's bytes into the channel.        *)
LEMMA RecvLine ==
  ASSUME LInv, NEW k \in Clients, SyinxKernel_Recv_Cb(k)
  PROVE  EchoInv' /\ IsolationInv'
<1>. DEFINE c == ctx[k]
<1>1. /\ m_nWorkStatus = "SYINX_LINK_WORK" /\ at.op = "loop" /\ bev[k] = "open"
      /\ m_Inputevbuffer' = [m_Inputevbuffer EXCEPT ![c] = @ \o wire[k]]
      /\ wire' = [wire EXCEPT ![k] = <<>>]
      /\ UNCHANGED <<m_nWorkStatus, at, m_listConnectClient, bev, ctx, out,
                     sent, got>>
  BY DEF SyinxKernel_Recv_Cb, Looping, AtLoop, Place, resVars
<1>2. /\ TypeOK /\ c \in Channels
      /\ m_Inputevbuffer \in [Channels -> Seq(Bytes)]
      /\ wire \in [Clients -> Seq(Bytes)]
  BY <1>1 DEF LInv, IInv, TypeOK
<1>3. c \in Elements(m_listConnectClient) /\ m_buffer[c] = k
  BY <1>1 DEF LInv, IInv, ChannelOwnsClient
<1>4. \A x \in Clients \ {k} : bev[x] = "open" => ctx[x] # c
  BY <1>1, <1>3 DEF LInv, IInv, ChannelOwnsClient
<1>5. /\ m_Inputevbuffer'[c] = m_Inputevbuffer[c] \o wire[k]
      /\ \A x \in Channels \ {c} : m_Inputevbuffer'[x] = m_Inputevbuffer[x]
      /\ wire'[k] = <<>> /\ \A x \in Clients \ {k} : wire'[x] = wire[x]
  BY <1>1, <1>2
<1>6. \A x \in Clients : bev[x] = "open" => Line(x)' = Line(x)
  <2>1. Line(k)' = Line(k)
    <3>1. PICK h \in Seq(Bytes) : h = got[k] \o out[k]
      BY <1>2, LineTyped
    <3>2. PICK b \in Seq(Bytes) : b = m_Inputevbuffer[c]
      BY <1>2
    <3>3. PICK w \in Seq(Bytes) : w = wire[k]
      BY <1>2
    <3>4. Line(k) = (h \o b) \o w /\ Line(k)' = (h \o (b \o w)) \o <<>>
      BY <1>1, <1>5, <3>1, <3>2, <3>3 DEF Line
    <3>5. b \o w \in Seq(Bytes) /\ h \o (b \o w) \in Seq(Bytes)
      BY ConcatProperties
    <3>6. (h \o b) \o w = h \o (b \o w)
      OBVIOUS
    <3>7. (h \o (b \o w)) \o <<>> = h \o (b \o w)
      BY <3>5, ConcatEmptySeq
    <3>. QED  BY <3>4, <3>6, <3>7
  <2>2. ASSUME NEW x \in Clients \ {k}, bev[x] = "open"  PROVE Line(x)' = Line(x)
    <3>1. ctx[x] \in Channels \ {c}
      BY <1>4, <2>2 DEF LInv, IInv, TypeOK
    <3>. QED  BY <1>1, <1>5, <3>1 DEF Line
  <2>. QED  BY <2>1, <2>2
<1>7. \A x \in Channels : \A b \in Elements(m_Inputevbuffer'[x]) :
        \/ b \in Elements(m_Inputevbuffer[x])
        \/ \E y \in Clients : bev[y] = "open" /\ b \in Elements(wire[y])
  <2>1. Elements(m_Inputevbuffer'[c])
          = Elements(m_Inputevbuffer[c]) \cup Elements(wire[k])
    BY <1>2, <1>5, ConcatElements
  <2>. QED  BY <1>1, <1>5, <2>1
<1>. HIDE DEF c
<1>8. EchoInv'
  BY <1>1, <1>5, <1>6, <1>7, EchoQuiet DEF LInv
<1>9. AllSmall => \A x \in Channels :
                    \/ x \in Elements(m_listConnectClient')
                    \/ at'.op = "removed" /\ at'.arg = x
                    \/ m_Inputevbuffer'[x] = <<>>
  BY <1>1, <1>3, <1>5 DEF LInv, IsolationInv
<1>10. IsolationInv'
  BY <1>1, <1>6, <1>9, IsolationQuiet DEF LInv
<1>. QED  BY <1>8, <1>10

(* Libevent moves the output buffer to the client.                         *)
LEMMA FlushLine ==
  ASSUME LInv, NEW k \in Clients, Flush(k)
  PROVE  EchoInv' /\ IsolationInv'
<1>1. /\ m_nWorkStatus = "SYINX_LINK_WORK" /\ bev[k] = "open"
      /\ got' = [got EXCEPT ![k] = @ \o out[k]]
      /\ out' = [out EXCEPT ![k] = <<>>]
      /\ at.op = "writev"
      /\ UNCHANGED <<m_nWorkStatus, m_listConnectClient, m_Inputevbuffer, bev,
                     ctx, wire, sent>>
  BY DEF Flush, Running, resVars, channelVars, LInv, IInv, HandlerOK
<1>2. /\ TypeOK /\ ctx[k] \in Channels
      /\ got \in [Clients -> Seq(Bytes)] /\ out \in [Clients -> Seq(Bytes)]
  BY <1>1 DEF LInv, IInv, TypeOK
<1>3. /\ got'[k] = got[k] \o out[k] /\ out'[k] = <<>>
      /\ \A x \in Clients \ {k} : got'[x] = got[x] /\ out'[x] = out[x]
  BY <1>1, <1>2
<1>4. PICK g \in Seq(Bytes), b \in Seq(Bytes), w \in Seq(Bytes) :
        /\ g = got[k] \o out[k] /\ b = m_Inputevbuffer[ctx[k]] /\ w = wire[k]
        /\ g \o b \in Seq(Bytes)
  BY <1>2, LineTyped
<1>5. Line(k) = (g \o b) \o w /\ Line(k)' = ((g \o <<>>) \o b) \o w
  BY <1>1, <1>3, <1>4 DEF Line
<1>6. \A x \in Clients : Line(x)' = Line(x)
  <2>1. Line(k)' = Line(k)
    BY <1>5, ConcatEmptySeq
  <2>. QED  BY <1>1, <1>3, <2>1 DEF Line
<1>7. EchoInv'
  BY <1>1, <1>3, <1>6, EchoQuiet DEF LInv
<1>8. Elements(got'[k]) \subseteq Elements(Line(k))
  <2>1. \A s, r \in Seq(Bytes) : Elements(s \o r) = Elements(s) \cup Elements(r)
    BY ConcatElements
  <2>2. PICK h \in Seq(Bytes) : h = g \o b
    BY <1>4
  <2>3. Elements(g) \subseteq Elements(h) /\ Elements(h) \subseteq Elements(h \o w)
    BY <2>1, <2>2
  <2>. QED  BY <1>3, <1>4, <1>5, <2>2, <2>3
<1>9. AllSmall => \A c \in Channels :
                    \/ c \in Elements(m_listConnectClient')
                    \/ at'.op = "removed" /\ at'.arg = c
                    \/ m_Inputevbuffer'[c] = <<>>
  BY <1>1 DEF LInv, IsolationInv
<1>10. IsolationInv'
  BY <1>1, <1>3, <1>6, <1>8, <1>9, IsolationQuiet DEF LInv
<1>. QED  BY <1>7, <1>10

(* OnStatusDoAction echoes what it takes from the front of the buffer.     *)
LEMMA HandleLine ==
  ASSUME LInv, OnStatusDoAction
  PROVE  EchoInv' /\ IsolationInv'
<1>1. PICK c \in Channels, k \in Clients :
        /\ c = m_listConnectClient[at.arg] /\ k = m_buffer[c]
        /\ c \in Elements(m_listConnectClient)
        /\ ctx[k] = c /\ bev[k] = "open" /\ IChStatus[c] = "CLIENT_LOGIN"
  <2>1. m_nWorkStatus = "SYINX_LINK_WORK" /\ at.op = "frame"
    BY DEF OnStatusDoAction, Running
  <2>2. m_listConnectClient[at.arg] \in Elements(m_listConnectClient)
    BY <2>1 DEF LInv, IInv, HandlerOK, Elements
  <2>. QED  BY <2>1, <2>2, WellTyped DEF LInv, IInv, ChannelOwnsClient
<1>2. /\ m_nWorkStatus = "SYINX_LINK_WORK" /\ at.op = "frame"
      /\ m_Inputevbuffer' = [m_Inputevbuffer EXCEPT ![c] = Rest(c)]
      /\ out' = [out EXCEPT ![k] = @ \o Taken(c)]
      /\ UNCHANGED <<m_nWorkStatus, m_listConnectClient, bev, ctx, wire, sent,
                     got>>
  BY <1>1 DEF OnStatusDoAction, Running, resVars
<1>3. /\ TypeOK /\ ctx[k] \in Channels
      /\ m_Inputevbuffer \in [Channels -> Seq(Bytes)]
      /\ out \in [Clients -> Seq(Bytes)]
  BY <1>1 DEF LInv, IInv, TypeOK
<1>4. /\ m_Inputevbuffer'[c] = Rest(c)
      /\ \A x \in Channels \ {c} : m_Inputevbuffer'[x] = m_Inputevbuffer[x]
      /\ out'[k] = out[k] \o Taken(c)
      /\ \A x \in Clients \ {k} : out'[x] = out[x]
  BY <1>2, <1>3
<1>5. PICK t \in Seq(Bytes), r \in Seq(Bytes) :
        /\ t = Taken(c) /\ r = Rest(c) /\ t \o r = m_Inputevbuffer[c]
        /\ Elements(r) \subseteq Elements(m_Inputevbuffer[c])
  BY <1>3, RestIsBytes, TakenThenRest
<1>6. \A x \in Clients : bev[x] = "open" => Line(x)' = Line(x)
  <2>1. PICK g \in Seq(Bytes), p \in Seq(Bytes), w \in Seq(Bytes) :
          g = got[k] /\ p = out[k] /\ w = wire[k]
    BY <1>3, LineTyped
  <2>. DEFINE cat(x, y) == x \o y
  <2>2. /\ \A x, y \in Seq(Bytes) : cat(x, y) \in Seq(Bytes)
        /\ \A x, y, z \in Seq(Bytes) : cat(cat(x, y), z) = cat(x, cat(y, z))
    <3>1. \A x, y \in Seq(Bytes) : cat(x, y) \in Seq(Bytes)
      BY ConcatProperties
    <3>2. \A x, y, z \in Seq(Bytes) : cat(cat(x, y), z) = cat(x, cat(y, z))
      BY SMTT(20)
    <3>. QED  BY <3>1, <3>2
  <2>3. /\ Line(k) = cat(cat(cat(g, p), cat(t, r)), w)
        /\ Line(k)' = cat(cat(cat(g, cat(p, t)), r), w)
    BY <1>1, <1>2, <1>4, <1>5, <2>1 DEF Line
  <2>. HIDE DEF cat
  <2>4. cat(cat(g, cat(p, t)), r) = cat(cat(g, p), cat(t, r))
    BY <2>2
  <2>5. ASSUME NEW x \in Clients \ {k}, bev[x] = "open"  PROVE Line(x)' = Line(x)
    <3>1. ctx[x] \in Channels
      BY <2>5 DEF LInv, IInv, TypeOK
    <3>2. m_buffer[ctx[x]] = x
      BY <1>2, <2>5 DEF LInv, IInv, ChannelOwnsClient
    <3>. QED  BY <1>1, <1>2, <1>4, <3>1, <3>2, ZenonT(40) DEF Line
  <2>. QED  BY <2>3, <2>4, <2>5
<1>7. \A x \in Channels : Elements(m_Inputevbuffer'[x]) \subseteq
                           Elements(m_Inputevbuffer[x])
  BY <1>4, <1>5
<1>8. EchoInv'
  BY <1>1, <1>2, <1>4, <1>6, <1>7, EchoQuiet DEF LInv
<1>9. AllSmall => \A x \in Channels :
                    \/ x \in Elements(m_listConnectClient')
                    \/ at'.op = "removed" /\ at'.arg = x
                    \/ m_Inputevbuffer'[x] = <<>>
  BY <1>1, <1>2, <1>4 DEF LInv, IsolationInv
<1>10. IsolationInv'
  BY <1>2, <1>6, <1>9, IsolationQuiet DEF LInv
<1>. QED  BY <1>8, <1>10

(* Clear handles the buffer of the client that left once more, which is    *)
(* all of it if that was small.                                            *)
LEMMA ClearLine ==
  ASSUME LInv, Clear
  PROVE  EchoInv' /\ IsolationInv'
<1>1. PICK c \in Channels, k \in Clients :
        /\ c = at.arg /\ k = m_buffer[c] /\ ctx[k] = c /\ bev[k] = "open"
        /\ c \notin Elements(m_listConnectClient)
  <2>1. /\ m_nWorkStatus = "SYINX_LINK_WORK" /\ at.op = "removed"
        /\ InFlight = {at.arg} /\ m_buffer[at.arg] \in Clients
    BY DEF Clear, Running, LInv, IInv, HandlerOK, InFlight
  <2>2. at.arg \in Channels /\ at.arg \notin Elements(m_listConnectClient)
    BY <2>1 DEF LInv, IInv, ChannelsAccounted
  <2>3. ctx[m_buffer[at.arg]] = at.arg /\ bev[m_buffer[at.arg]] = "open"
    BY <2>1, <2>2, ResAssumption DEF LInv, IInv, PointerOK
  <2>. QED  BY <2>1, <2>2, <2>3
<1>2. /\ m_nWorkStatus = "SYINX_LINK_WORK" /\ at.op = "removed"
      /\ m_Inputevbuffer' = [m_Inputevbuffer EXCEPT ![c] = Rest(c)]
      /\ bev' = [bev EXCEPT ![k] = Freed(k)]
      /\ out' = [out EXCEPT ![k] = <<>>] /\ wire' = [wire EXCEPT ![k] = <<>>]
      /\ UNCHANGED <<m_nWorkStatus, m_listConnectClient, ctx, sent, got>>
  BY <1>1 DEF Clear, Running, resVars
<1>3. /\ TypeOK /\ ctx[k] \in Channels
      /\ m_Inputevbuffer \in [Channels -> Seq(Bytes)]
      /\ out \in [Clients -> Seq(Bytes)] /\ wire \in [Clients -> Seq(Bytes)]
      /\ bev \in [Clients -> {"none", "open", "leaked", "refused", "freed",
                              "freed twice"}]
  BY <1>1 DEF LInv, IInv, TypeOK
<1>4. /\ m_Inputevbuffer'[c] = Rest(c)
      /\ \A x \in Channels \ {c} : m_Inputevbuffer'[x] = m_Inputevbuffer[x]
      /\ bev'[k] = "freed" /\ wire'[k] = <<>>
      /\ \A x \in Clients \ {k} : /\ bev'[x] = bev[x] /\ out'[x] = out[x]
                                  /\ wire'[x] = wire[x]
  BY <1>1, <1>2, <1>3 DEF Freed
<1>5. ASSUME NEW x \in Clients \ {k}, bev[x] = "open"  PROVE Line(x)' = Line(x)
  <2>1. ctx[x] \in Elements(m_listConnectClient) \/ m_buffer[c] = x
    BY <1>1, <1>2, <1>5 DEF LInv, IInv, ChannelOwnsClient
  <2>2. ctx[x] \in Channels \ {c}
    BY <1>1, <1>3, <1>5, <2>1 DEF TypeOK
  <2>. QED  BY <1>2, <1>4, <2>2 DEF Line
<1>6. \A x \in Clients : bev'[x] = "open" => bev[x] = "open" /\ Line(x)' = Line(x)
  BY <1>4, <1>5
<1>7. \A x \in Channels : Elements(m_Inputevbuffer'[x]) \subseteq
                           Elements(m_Inputevbuffer[x])
  BY <1>3, <1>4, TakenThenRest
<1>8. EchoInv'
  BY <1>1, <1>2, <1>4, <1>6, <1>7, EchoQuiet DEF LInv
<1>9. ASSUME AllSmall, NEW x \in Channels
      PROVE  \/ x \in Elements(m_listConnectClient')
             \/ at'.op = "removed" /\ at'.arg = x
             \/ m_Inputevbuffer'[x] = <<>>
  <2>1. CASE x = c
    <3>1. Len(Line(k)) = sent[k] /\ sent[k] <= BUFFSIZE
      BY <1>1, <1>2, <1>9 DEF LInv, IsolationInv, AllSmall
    <3>2. PICK h \in Seq(Bytes), b \in Seq(Bytes), w \in Seq(Bytes) :
            /\ h = got[k] \o out[k] /\ b = m_Inputevbuffer[c] /\ w = wire[k]
            /\ h \o b \in Seq(Bytes)
      BY <1>1, <1>3, LineTyped
    <3>3. Line(k) = (h \o b) \o w
      BY <1>1, <3>2 DEF Line
    <3>4. Len(h \o b) = Len(h) + Len(b)
      BY ConcatProperties
    <3>5. \A s, r \in Seq(Bytes) : Len(s \o r) = Len(s) + Len(r)
      BY ConcatProperties
    <3>6. Len((h \o b) \o w) = Len(h) + Len(b) + Len(w)
      BY <3>2, <3>4, <3>5
    <3>7. Len(b) <= BUFFSIZE
      <4>1. Len(h) \in Nat /\ Len(b) \in Nat /\ Len(w) \in Nat
        OBVIOUS
      <4>. QED  BY <3>1, <3>3, <3>6, <4>1, ResAssumption
    <3>. QED  BY <1>3, <1>4, <2>1, <3>2, <3>7, TakenThenRest
  <2>2. CASE x # c
    BY <1>1, <1>2, <1>4, <1>9, <2>2 DEF LInv, IsolationInv
  <2>. QED  BY <2>1, <2>2
<1>10. IsolationInv'
  BY <1>2, <1>6, <1>9, IsolationQuiet DEF LInv
<1>. QED  BY <1>8, <1>10

(* A client comes to a channel that holds none of its bytes, and if all is *)
(* small, none at all.                                                     *)
LEMMA AllocLine ==
  ASSUME LInv, NEW k \in Clients, AllocationIChannel(k)
  PROVE  EchoInv' /\ IsolationInv'
<1>. DEFINE c == Head(m_queueILoop)
<1>1. /\ m_nWorkStatus = "SYINX_LINK_WORK" /\ at.op = "loop"
      /\ bev[k] = "none" /\ m_queueILoop # <<>>
      /\ at' = Place("alloc", c, k)
      /\ bev' = [bev EXCEPT ![k] = "open"] /\ ctx' = [ctx EXCEPT ![k] = c]
      /\ UNCHANGED <<m_nWorkStatus, m_listConnectClient, m_Inputevbuffer, wire,
                     out, sent, got>>
  BY DEF AllocationIChannel, Looping, AtLoop, Place, channelVars
<1>2. /\ c \in Channels /\ c \in Elements(m_queueILoop)
      /\ c \notin Elements(m_listConnectClient)
  <2>1. m_queueILoop \in Seq(Channels)
    BY DEF LInv, IInv, TypeOK
  <2>2. c \in Channels /\ c \in Elements(m_queueILoop)
    BY <1>1, <2>1, TailElements
  <2>. QED  BY <1>1, <2>2 DEF LInv, IInv, ChannelsAccounted
<1>3. /\ TypeOK /\ m_Inputevbuffer[c] \in Seq(Bytes)
      /\ bev \in [Clients -> {"none", "open", "leaked", "refused", "freed",
                              "freed twice"}]
      /\ ctx \in [Clients -> 0 .. ConnectNum]
  BY <1>2 DEF LInv, IInv, TypeOK
<1>4. /\ bev'[k] = "open" /\ ctx'[k] = c
      /\ \A x \in Clients \ {k} : bev'[x] = bev[x] /\ ctx'[x] = ctx[x]
  BY <1>1, <1>3
<1>5. Fresh(k)
  BY <1>1 DEF LInv, EchoInv
<1>. HIDE DEF c
<1>6. Line(k)' = m_Inputevbuffer[c]
  <2>1. Line(k)' = ((<<>> \o <<>>) \o m_Inputevbuffer[c]) \o <<>>
    BY <1>1, <1>4, <1>5 DEF Line, Fresh
  <2>2. <<>> \in Seq(Bytes) /\ <<>> \o <<>> = <<>>
    BY ConcatEmptySeq
  <2>. QED  BY <1>3, <2>1, <2>2, ConcatEmptySeq
<1>7. \A x \in Clients \ {k} : Line(x)' = Line(x)
  BY <1>1, <1>4 DEF Line
<1>8. EndsWithAllOf(Line(k), k)'
  <2>1. sent'[k] = 0 /\ \A i \in 1 .. Len(m_Inputevbuffer[c]) :
                           m_Inputevbuffer[c][i][1] # k
    BY <1>1, <1>2, <1>5 DEF Fresh, Elements
  <2>2. PICK b \in Seq(Bytes) : b = m_Inputevbuffer[c]
    BY <1>3
  <2>3. Len(b) \in Nat /\ Len(b) - 0 = Len(b)
    OBVIOUS
  <2>. QED  BY <1>6, <2>1, <2>2, <2>3 DEF EndsWithAllOf
<1>9. EchoInv'
  <2>. SUFFICES ASSUME NEW x \in Clients
                PROVE  /\ \A b \in Elements(wire'[x]) : b[1] = x
                       /\ bev'[x] = "none" => Fresh(x)'
                       /\ bev'[x] = "open" => EndsWithAllOf(Line(x), x)'
    BY DEF EchoInv
  <2>1. /\ \A b \in Elements(wire[x]) : b[1] = x
        /\ bev[x] = "none" => Fresh(x)
        /\ bev[x] = "open" => EndsWithAllOf(Line(x), x)
    BY <1>1 DEF LInv, EchoInv
  <2>2. CASE x = k
    BY <1>1, <1>4, <1>8, <2>1, <2>2
  <2>3. CASE x # k
    BY <1>1, <1>4, <1>7, <2>1, <2>3 DEF Fresh, EndsWithAllOf
  <2>. QED  BY <2>2, <2>3
<1>10. IsolationInv'
  <2>. SUFFICES ASSUME AllSmall
                PROVE  /\ \A x \in Clients : \A b \in Elements(got'[x]) : b[1] = x
                       /\ \A x \in Channels :
                            \/ x \in Elements(m_listConnectClient')
                            \/ at'.op = "removed" /\ at'.arg = x
                            \/ m_Inputevbuffer'[x] = <<>>
                       /\ \A x \in Clients :
                            bev'[x] = "open" => Len(Line(x))' = sent'[x]
    BY <1>1 DEF IsolationInv, AllSmall
  <2>1. /\ \A x \in Clients : \A b \in Elements(got[x]) : b[1] = x
        /\ \A x \in Channels : \/ x \in Elements(m_listConnectClient)
                               \/ m_Inputevbuffer[x] = <<>>
        /\ \A x \in Clients : bev[x] = "open" => Len(Line(x)) = sent[x]
    BY <1>1 DEF LInv, IsolationInv
  <2>2. Len(Line(k))' = sent'[k]
    <3>1. m_Inputevbuffer[c] = <<>> /\ sent[k] = 0
      BY <1>2, <1>5, <2>1 DEF Fresh
    <3>. QED  BY <1>1, <1>6, <3>1
  <2>. QED  BY <1>1, <1>4, <1>7, <2>1, <2>2
<1>. QED  BY <1>9, <1>10

(* Once Close has begun no client is sent anything any more.               *)
LEMMA EndLine ==
  ASSUME LInv, SIG_HANDLE \/ CloseChannel \/ Exit
  PROVE  EchoInv' /\ IsolationInv'
<1>1. m_nWorkStatus' # "SYINX_LINK_WORK" /\ UNCHANGED <<got, sent>>
  BY DEF SIG_HANDLE, CloseChannel, Exit, clientVars
<1>. QED  BY <1>1 DEF LInv, EchoInv, IsolationInv, AllSmall

LEMMA InitLine == Init => EchoInv /\ IsolationInv
<1>. SUFFICES ASSUME Init  PROVE EchoInv /\ IsolationInv
  OBVIOUS
<1>1. /\ \A k \in Clients : /\ sent[k] = 0 /\ got[k] = <<>> /\ out[k] = <<>>
                            /\ wire[k] = <<>> /\ bev[k] = "none"
      /\ \A c \in Channels : m_Inputevbuffer[c] = <<>>
      /\ Elements(<<>>) = {}
  BY DEF Init, Elements
<1>. QED  BY <1>1 DEF EchoInv, Fresh, IsolationInv

(* The clients and the network go on while Close runs.                     *)
LEMMA ClosedLine ==
  ASSUME LInv, m_nWorkStatus # "SYINX_LINK_WORK",
         UNCHANGED <<m_nWorkStatus, got, sent>>
  PROVE  EchoInv' /\ IsolationInv'
BY DEF LInv, EchoInv, IsolationInv, AllSmall

(* The three invariants hold in every reachable state.                     *)
THEOREM LineInvariant == Spec => []LInv
<1>1. Init => LInv
  BY InitIInv, InitLine DEF LInv
<1>2. LInv /\ IInv' /\ [Next]_vars => LInv'
  <2>. SUFFICES ASSUME LInv, IInv', [Next]_vars  PROVE EchoInv' /\ IsolationInv'
    BY DEF LInv
  <2>1. ASSUME NEW k \in Clients, ClientStep(k)
        PROVE  EchoInv' /\ IsolationInv'
    <3>1. CASE Send(k)
      BY <3>1, EchoSend, IsolationSend DEF LInv
    <3>2. CASE Leave(k) /\ m_nWorkStatus # "SYINX_LINK_WORK"
      BY <3>2, ClosedLine DEF Leave
    <3>3. CASE m_nWorkStatus = "SYINX_LINK_WORK" /\ ~Send(k)
      BY <2>1, <3>3, StillSteps, RecvLine, FlushLine, AllocLine DEF ClientStep
    <3>4. CASE m_nWorkStatus # "SYINX_LINK_WORK" /\ ~Send(k) /\ ~Leave(k)
      BY <2>1, <3>4 DEF ClientStep, ListenFails, Refuse, AllocationIChannel,
                        SyinxKernel_Recv_Cb, Writev, Flush,
                        SyinxKernel_Event_Cb, FindsGone, Looping, Running
    <3>. QED  BY <3>1, <3>2, <3>3, <3>4
  <2>2. CASE \/ OnClientConnect \/ SocketFdAdd \/ GameServerDoAction
             \/ Logout \/ SocketFdDel
    BY <2>2, StillSteps DEF OnClientConnect, SocketFdAdd, GameServerDoAction,
                            Logout, SocketFdDel, Running, Looping
  <2>3. CASE UNCHANGED vars
    BY <2>3, StillSteps, ClosedLine DEF vars, clientVars
  <2>. QED  BY <2>1, <2>2, <2>3, HandleLine, ClearLine, EndLine DEF Next
<1>. QED  BY <1>1, <1>2, ResInvariant, PTL DEF Spec

(* A connected client's bytes are back, or on their way, in order, each    *)
(* once, behind whatever the channel held before, for every ConnectNum,    *)
(* BUFFSIZE and number of clients.                                         *)
THEOREM ResEchoInOrder == Spec => []EchoInOrder
<1>1. LInv => EchoInOrder
  BY DEF LInv, EchoInv, EchoInOrder, Line
<1>. QED  BY <1>1, LineInvariant, PTL

(* As long as no client sent more than BUFFSIZE bytes, nobody is sent      *)
(* another's.                                                              *)
THEOREM ResIsolatedIfSmall == Spec => []IsolatedIfSmall
<1>1. LInv => IsolatedIfSmall
  <2>. SUFFICES ASSUME LInv, \A k \in Clients : ~(sent[k] > BUFFSIZE)
                PROVE  \A k \in Clients : \A b \in Elements(got[k]) : b[1] = k
    BY DEF IsolatedIfSmall
  <2>1. AllSmall
    <3>1. sent \in [Clients -> 0 .. MaxSend]
      BY DEF LInv, IInv, TypeOK
    <3>2. \A k \in Clients : sent[k] \in Nat
      BY <3>1, ResAssumption
    <3>. QED  BY <3>2, ResAssumption DEF AllSmall
  <2>. QED  BY <2>1 DEF LInv, IsolationInv
<1>. QED  BY <1>1, LineInvariant, PTL
=============================================================================
