------------------------ MODULE BuffereventSockProofs ------------------------
(***************************************************************************)
(* The bufferevents: proofs that all that is waited for is watched, that a *)
(* freed bufferevent is finalized once and last, that SConnect is told the *)
(* truth, and that each connection is a ByteStream, for any finite set of  *)
(* connections and any sizes.                                              *)
(***************************************************************************)
EXTENDS BuffereventSock, QueuesProofs, SequenceTheorems

-----------------------------------------------------------------------------
(* The bytes of a connection: sequences of successive numbers.             *)

Counts(s, n) == \A i \in DOMAIN s : s[i] = n + i

LEMMA CountsAppend ==
  ASSUME NEW S, NEW s \in Seq(S), NEW n \in Nat, Counts(s, n),
         n + Len(s) + 1 \in S
  PROVE  /\ Append(s, n + Len(s) + 1) \in Seq(S)
         /\ Len(Append(s, n + Len(s) + 1)) = Len(s) + 1
         /\ Counts(Append(s, n + Len(s) + 1), n)
<1>1. PICK m, l : m = n + Len(s) + 1 /\ l = Len(s)
  OBVIOUS
<1>2. PICK t : t = Append(s, m)
  OBVIOUS
<1>3. /\ t \in Seq(S) /\ Len(t) = l + 1 /\ DOMAIN t = 1 .. l + 1 /\ t[l + 1] = m
      /\ \A i \in 1 .. l : t[i] = s[i]
  BY <1>1, <1>2
<1>4. DOMAIN s = 1 .. l /\ l \in Nat /\ m = n + (l + 1)
  BY <1>1
<1>5. \A i \in 1 .. l + 1 : t[i] = n + i
  <2>1. \A i \in 1 .. l : t[i] = n + i
    BY <1>3, <1>4 DEF Counts
  <2>2. t[l + 1] = n + (l + 1)
    BY <1>3, <1>4
  <2>3. \A i \in 1 .. l + 1 : i \in 1 .. l \/ i = l + 1
    BY <1>4
  <2>. QED  BY <2>1, <2>2, <2>3
<1>6. Counts(t, n)
  BY <1>3, <1>5, Zenon DEF Counts
<1>. QED  BY <1>1, <1>2, <1>3, <1>6, Zenon

LEMMA CountsTail ==
  ASSUME NEW S, NEW s \in Seq(S), NEW n \in Nat, Counts(s, n), s # <<>>
  PROVE  /\ Tail(s) \in Seq(S) /\ Len(Tail(s)) = Len(s) - 1
         /\ Head(s) = n + 1 /\ Counts(Tail(s), n + 1)
BY DEF Counts

LEMMA CountsConcat ==
  ASSUME NEW S, NEW s \in Seq(S), NEW r \in Seq(S), NEW n \in Nat,
         Counts(s, n), Counts(r, n + Len(s))
  PROVE  s \o r \in Seq(S) /\ Len(s \o r) = Len(s) + Len(r) /\ Counts(s \o r, n)
BY DEF Counts

LEMMA CountsPart ==
  ASSUME NEW S, NEW s \in Seq(S), NEW n \in Nat, Counts(s, n),
         NEW a \in 0 .. Len(s), NEW b \in a .. Len(s)
  PROVE  /\ SubSeq(s, a + 1, b) \in Seq(S) /\ Len(SubSeq(s, a + 1, b)) = b - a
         /\ Counts(SubSeq(s, a + 1, b), n + a)
<1>. DEFINE p == SubSeq(s, a + 1, b)
<1>1. /\ p \in Seq(S) /\ Len(p) = b - a /\ DOMAIN p = 1 .. b - a
      /\ \A i \in 1 .. b - a : p[i] = s[a + i]
  OBVIOUS
<1>. HIDE DEF p
<1>2. Counts(p, n + a)
  <2>1. ASSUME NEW i \in 1 .. b - a  PROVE p[i] = (n + a) + i
    <3>1. a + i \in 1 .. Len(s) /\ n + (a + i) = (n + a) + i
      OBVIOUS
    <3>2. s[a + i] = n + (a + i)
      BY <3>1 DEF Counts
    <3>. QED  BY <1>1, <3>1, <3>2
  <2>. QED  BY <1>1, <2>1 DEF Counts
<1>. QED  BY <1>1, <1>2 DEF p

(* Two that begin with 1 and are equally long are equal.                   *)
LEMMA CountsSame ==
  ASSUME NEW S, NEW s \in Seq(S), NEW r \in Seq(S), NEW n \in Nat,
         Counts(s, n), Counts(r, n), Len(s) = Len(r)
  PROVE  s = r
<1>1. DOMAIN s = 1 .. Len(s) /\ DOMAIN r = 1 .. Len(s)
  OBVIOUS
<1>2. \A i \in 1 .. Len(s) : s[i] = r[i]
  BY <1>1 DEF Counts
<1>. QED  BY <1>2, SeqEqual

(* The same, for bytes that peers send.                                    *)
LEMMA BytesAppend ==
  ASSUME NEW s \in Bytes, NEW n \in Nat, Counts(s, n),
         n + Len(s) + 1 \in 1 .. MaxSend
  PROVE  /\ Append(s, n + Len(s) + 1) \in Bytes
         /\ Len(Append(s, n + Len(s) + 1)) = Len(s) + 1
         /\ Counts(Append(s, n + Len(s) + 1), n)
<1>. DEFINE S == 1 .. MaxSend
<1>1. Bytes = Seq(S)
  BY DEF Bytes
<1>. HIDE DEF S
<1>. QED  BY <1>1, CountsAppend DEF S

LEMMA BytesTail ==
  ASSUME NEW s \in Bytes, NEW n \in Nat, Counts(s, n), s # <<>>
  PROVE  /\ Tail(s) \in Bytes /\ Len(Tail(s)) = Len(s) - 1
         /\ Head(s) = n + 1 /\ Counts(Tail(s), n + 1)
<1>. DEFINE S == 1 .. MaxSend
<1>1. Bytes = Seq(S)
  BY DEF Bytes
<1>. HIDE DEF S
<1>. QED  BY <1>1, CountsTail

LEMMA BytesConcat ==
  ASSUME NEW s \in Bytes, NEW r \in Bytes, NEW n \in Nat,
         Counts(s, n), Counts(r, n + Len(s))
  PROVE  s \o r \in Bytes /\ Len(s \o r) = Len(s) + Len(r) /\ Counts(s \o r, n)
<1>. DEFINE S == 1 .. MaxSend
<1>1. Bytes = Seq(S)
  BY DEF Bytes
<1>. HIDE DEF S
<1>. QED  BY <1>1, CountsConcat

LEMMA BytesPart ==
  ASSUME NEW s \in Bytes, NEW n \in Nat, Counts(s, n),
         NEW a \in 0 .. Len(s), NEW b \in a .. Len(s)
  PROVE  /\ SubSeq(s, a + 1, b) \in Bytes /\ Len(SubSeq(s, a + 1, b)) = b - a
         /\ Counts(SubSeq(s, a + 1, b), n + a)
<1>. DEFINE S == 1 .. MaxSend
<1>1. Bytes = Seq(S)
  BY DEF Bytes
<1>. HIDE DEF S
<1>. QED  BY <1>1, CountsPart

LEMMA BytesLen ==
  /\ <<>> \in Bytes /\ Len(<<>>) = 0 /\ \A n : Counts(<<>>, n)
  /\ \A s \in Bytes : Len(s) \in Nat /\ (s = <<>> <=> Len(s) = 0)
<1>. DEFINE S == 1 .. MaxSend
<1>1. Bytes = Seq(S)
  BY DEF Bytes
<1>. HIDE DEF S
<1>2. \A n : Counts(<<>>, n)
  BY DEF Counts
<1>. QED  BY <1>1, <1>2, EmptySeq

LEMMA LessSums ==
  \A f, p, l, n \in Nat : f + p + l <= n => f <= n /\ f + p <= n
OBVIOUS

-----------------------------------------------------------------------------
(* What evmap has of a socket, and what the program was told.              *)

Lists5 == {<<>>, <<"R">>, <<"W">>, <<"R", "W">>, <<"W", "R">>}

LEMMA ListOfTwo ==
  ASSUME NEW q \in Seq({"R", "W"}), NEW T, Lists(q, T)
  PROVE  q \in Lists5
<1>1. /\ DOMAIN q = 1 .. Len(q) /\ Len(q) \in Nat
      /\ \A i \in 1 .. Len(q) : q[i] \in {"R", "W"}
  OBVIOUS
<1>2. \A i, j \in 1 .. Len(q) : q[i] = q[j] => i = j
  BY <1>1 DEF Lists
<1>3. Len(q) <= 2
  <2>1. SUFFICES ASSUME Len(q) >= 3  PROVE FALSE
    BY <1>1
  <2>2. 1 \in 1 .. Len(q) /\ 2 \in 1 .. Len(q) /\ 3 \in 1 .. Len(q)
    BY <1>1, <2>1
  <2>3. q[1] # q[2] /\ q[1] # q[3] /\ q[2] # q[3]
    BY <1>2, <2>2
  <2>. QED  BY <1>1, <2>2, <2>3
<1>4. CASE Len(q) = 0
  BY <1>4 DEF Lists5
<1>5. CASE Len(q) = 1
  <2>1. q = <<q[1]>> /\ q[1] \in {"R", "W"}
    BY <1>1, <1>5
  <2>. QED  BY <2>1 DEF Lists5
<1>6. CASE Len(q) = 2
  <2>1. q = <<q[1], q[2]>> /\ q[1] \in {"R", "W"} /\ q[2] \in {"R", "W"}
    BY <1>1, <1>6
  <2>2. q[1] # q[2]
    BY <1>2, <1>6
  <2>. QED  BY <2>1, <2>2 DEF Lists5
<1>. QED  BY <1>1, <1>3, <1>4, <1>5, <1>6

(* event_del of one event of a socket.                                     *)
LEMMA PendingWithout ==
  ASSUME NEW q \in Lists5, NEW e
  PROVE  /\ Without(q, {e}) \in Lists5
         /\ \A f : Contains(Without(q, {e}), f) <=> Contains(q, f) /\ f # e
<1>. DEFINE T == {q[i] : i \in DOMAIN q}
            r == Without(q, {e})
<1>1. q \in Seq({"R", "W"}) /\ \A i, j \in DOMAIN q : q[i] = q[j] => i = j
  <2>1. CASE q = <<>>
    BY <2>1
  <2>2. CASE q = <<"R">>
    BY <2>2
  <2>3. CASE q = <<"W">>
    BY <2>3
  <2>4. CASE q = <<"R", "W">>
    BY <2>4
  <2>5. CASE q = <<"W", "R">>
    BY <2>5
  <2>. QED  BY <2>1, <2>2, <2>3, <2>4, <2>5 DEF Lists5
<1>2. Lists(q, T)
  BY <1>1 DEF Lists
<1>. HIDE DEF T
<1>3. r \in Seq({"R", "W"}) /\ Lists(r, T \ {e})
  BY <1>1, <1>2, WithoutLists
<1>. HIDE DEF r
<1>4. r \in Lists5
  BY <1>3, ListOfTwo
<1>5. \A f : Contains(q, f) <=> f \in T
  <2>1. DOMAIN q = 1 .. Len(q)
    BY <1>1
  <2>. QED  BY <1>2, <2>1 DEF Lists, Contains
<1>6. \A f : Contains(r, f) <=> f \in T \ {e}
  <2>1. DOMAIN r = 1 .. Len(r)
    BY <1>3
  <2>. QED  BY <1>3, <2>1 DEF Lists, Contains
<1>. QED  BY <1>4, <1>5, <1>6 DEF r

Whats == {"connected", "eof", "error"}
EndIn(s) == Contains(s, "eof") \/ Contains(s, "error")
OneEnd(s) ==
  \A i, j \in DOMAIN s : s[i] # "connected" /\ s[j] # "connected" => i = j

(* bufferevent_run_eventcb_.                                               *)
LEMMA Tells ==
  ASSUME NEW s \in Seq(Whats), NEW w \in Whats
  PROVE  /\ Append(s, w) \in Seq(Whats) /\ Append(s, w) # <<>>
         /\ EndIn(Append(s, w)) <=> EndIn(s) \/ w # "connected"
         /\ s # <<>> => Append(s, w)[1] = s[1]
         /\ s = <<>> => Append(s, w)[1] = w
         /\ OneEnd(s) /\ (~EndIn(s) \/ w = "connected") => OneEnd(Append(s, w))
<1>. DEFINE t == Append(s, w)
<1>1. /\ t \in Seq(Whats) /\ Len(t) = Len(s) + 1 /\ Len(s) \in Nat
      /\ DOMAIN t = 1 .. Len(s) + 1 /\ DOMAIN s = 1 .. Len(s)
      /\ t[Len(s) + 1] = w /\ \A i \in 1 .. Len(s) : t[i] = s[i] /\ s[i] \in Whats
      /\ s = <<>> <=> Len(s) = 0
  OBVIOUS
<1>. HIDE DEF t
<1>2. t # <<>> /\ (s # <<>> => t[1] = s[1]) /\ (s = <<>> => t[1] = w)
  BY <1>1
<1>3. EndIn(t) <=> EndIn(s) \/ w # "connected"
  BY <1>1 DEF EndIn, Contains, Whats
<1>4. ASSUME OneEnd(s), ~EndIn(s) \/ w = "connected"  PROVE OneEnd(t)
  <2>1. CASE w = "connected"
    BY <1>1, <1>4, <2>1 DEF OneEnd
  <2>2. CASE ~EndIn(s)
    <3>1. \A i \in 1 .. Len(s) : t[i] = "connected"
      BY <1>1, <2>2 DEF EndIn, Contains, Whats
    <3>. QED  BY <1>1, <3>1 DEF OneEnd
  <2>. QED  BY <1>4, <2>1, <2>2
<1>. QED  BY <1>1, <1>2, <1>3, <1>4 DEF t

-----------------------------------------------------------------------------
(* The inductive invariant.                                                *)

(* Where the bytes of a connection are: h was handed to the program, w     *)
(* written by it, g read by the peer; r and x are on their ways; f bytes   *)
(* were flushed, p are copied and l to be copied by the writev under way;  *)
(* s were sent; b is the bufferevent, e the peer.                          *)
Placed(h, w, g, r, x, f, p, l, s, b, e) ==
  /\ h \in Bytes /\ w \in Bytes /\ g \in Bytes /\ r \in Bytes /\ x \in Bytes
  /\ f \in Nat /\ p \in Nat /\ l \in Nat /\ s \in 0 .. MaxSend
  /\ Counts(h, 0) /\ Counts(w, 0) /\ Counts(g, 0)
  /\ Len(w) <= Len(h) /\ Len(h) <= s
  /\ b # "freed" => Len(h) + Len(r) = s /\ Counts(r, Len(h))
  /\ Len(g) <= Len(w)
  /\ f + p + l <= Len(w)
  /\ Len(x) <= SndBuf
  /\ e = "open" => /\ Counts(x, Len(g))
                   /\ Len(g) + Len(x) <= f + p
                   /\ b # "freed" => Len(g) + Len(x) = f + p

Members(q) == {q[i] : i \in DOMAIN q}

(* The callbacks of the round, and what the writev under way has copied of *)
(* connection k and what it still has to copy.                             *)
Round == Members(active)
Part(k) == IF loop = "writev" /\ Head(active) = <<k, "W">> THEN copied ELSE 0
Rest(k) == IF loop = "writev" /\ Head(active) = <<k, "W">> THEN left ELSE 0

(* No callback is twice in the round, none waits outside of it, and the    *)
(* writev that blocks is that of a client.                                 *)
RoundOK ==
  /\ Lists(active, Round)
  /\ loop = "out" => active = <<>>
  /\ loop = "writev" =>
       /\ active # <<>> /\ left > 0 /\ copied + left <= MaxWrite
       /\ \E k \in Accepted : Head(active) = <<k, "W">>

(* A callback waits in the round only with its event added, the finalizer  *)
(* exactly while the bufferevent is being freed.                           *)
ListedOK(k) ==
  /\ <<k, "R">> \in Round => bev[k] = "open" /\ Contains(pending[k], "R")
  /\ <<k, "W">> \in Round => /\ bev[k] = "open" /\ Contains(pending[k], "W")
                             /\ peer[k] # "syn"
  /\ <<k, "F">> \in Round <=> bev[k] = "closing"
  /\ bev[k] # "open" => pending[k] = <<>>

(* Only SConnect connects; it writes nothing and frees nothing.            *)
KindOK(k) ==
  /\ connecting[k] => k \in Outgoing /\ bev[k] = "open"
  /\ k \in Accepted => peer[k] \in {"open", "closed"}
  /\ k \in Outgoing => /\ written[k] = <<>> /\ tx[k] = <<>>
                       /\ bev[k] \in {"none", "open"}
                       /\ bev[k] = "none" <=> peer[k] = "none"

(* What the socket reports is true of its peer.                            *)
NetworkOK(k) ==
  /\ fin[k] => peer[k] = "closed"
  /\ peer[k] \in {"none", "syn", "absent"} => sent[k] = 0 /\ rx[k] = <<>>
  /\ so_error[k] \in {"ECONNRESET", "EPIPE"} => peer[k] = "closed"
  /\ so_error[k] \in {"ECONNREFUSED", "ETIMEDOUT"} => peer[k] = "absent"
  /\ connection_refused[k] => peer[k] = "absent" /\ so_error[k] = "none"

(* One end is told and nothing read after it; an absent peer is told, or   *)
(* its error is still to be found.                                         *)
ToldOK(k) ==
  /\ OneEnd(told[k])
  /\ Ended(k) => ~Contains(pending[k], "R")
  /\ Ended(k) /\ k \in Accepted => bev[k] \in {"closing", "freed"}
  /\ Ended(k) /\ connecting[k] => so_error[k] = "none" /\ ~connection_refused[k]
                                  /\ peer[k] \in {"closed", "absent"}
  /\ peer[k] = "absent" /\ told[k] = <<>> =>
       so_error[k] # "none" \/ connection_refused[k]
  /\ told[k] # <<>> /\ told[k][1] = "connected" => peer[k] \in {"open", "closed"}
  /\ peer[k] \in {"none", "syn"} => told[k] = <<>>

(* Where the bytes of the connection are.                                  *)
BytesOK(k) ==
  Placed(handed[k], written[k], got[k], rx[k], tx[k], flushed[k], Part(k),
         Rest(k), sent[k], bev[k], peer[k])

WatchedOK(k) ==
  bev[k] = "open" =>
    /\ flushed[k] # Len(written[k]) \/ connecting[k] => Contains(pending[k], "W")
    /\ ~Ended(k) => Contains(pending[k], "R")

ConnOK(k) == /\ ListedOK(k) /\ KindOK(k) /\ NetworkOK(k) /\ ToldOK(k)
             /\ BytesOK(k) /\ WatchedOK(k)

(* TypeOK, by the groups of the variables.                                 *)
Rounds == Seq(Callbacks)
Tolds  == Seq(Whats)
Bevs   == {"none", "open", "closing", "freed"}
Errors == {"none", "ECONNRESET", "EPIPE", "ECONNREFUSED", "ETIMEDOUT"}
Peers  == {"none", "syn", "absent", "open", "closed"}

LoopTyped == /\ loop \in {"out", "round", "writev", "killed"}
             /\ active \in Rounds
             /\ left \in 0 .. MaxWrite /\ copied \in 0 .. MaxWrite
BevTyped  == /\ bev \in [Conns -> Bevs] /\ pending \in [Conns -> Lists5]
             /\ connecting \in [Conns -> BOOLEAN]
             /\ connection_refused \in [Conns -> BOOLEAN]
             /\ told \in [Conns -> Tolds]
DataTyped == /\ handed \in [Conns -> Bytes] /\ written \in [Conns -> Bytes]
             /\ flushed \in [Conns -> 0 .. MaxSend]
SockTyped == /\ sent \in [Conns -> 0 .. MaxSend] /\ rx \in [Conns -> Bytes]
             /\ fin \in [Conns -> BOOLEAN] /\ so_error \in [Conns -> Errors]
             /\ tx \in [Conns -> Bytes] /\ got \in [Conns -> Bytes]
             /\ peer \in [Conns -> Peers]

BevInv == /\ LoopTyped /\ BevTyped /\ DataTyped /\ SockTyped
          /\ RoundOK /\ \A k \in Conns : ConnOK(k)

LEMMA Typed ==
  ASSUME BevInv
  PROVE  TypeOK
<1>1. ASSUME NEW k \in Conns
      PROVE  flushed[k] <= Len(written[k]) /\ Len(tx[k]) <= SndBuf
  <2>1. /\ flushed[k] \in Nat /\ Part(k) \in Nat /\ Rest(k) \in Nat
        /\ written[k] \in Bytes
        /\ flushed[k] + Part(k) + Rest(k) <= Len(written[k])
        /\ Len(tx[k]) <= SndBuf
    BY Zenon DEF BevInv, ConnOK, BytesOK, Placed
  <2>. QED  BY <2>1, BytesLen, LessSums, Zenon
<1>2. loop \in {"out", "round", "writev", "killed"}
      /\ active \in Seq(Callbacks)
      /\ left \in 0 .. MaxWrite /\ copied \in 0 .. MaxWrite
  BY Zenon DEF BevInv, LoopTyped, Rounds
<1>3. /\ bev \in [Conns -> {"none", "open", "closing", "freed"}]
      /\ pending \in [Conns -> {<<>>, <<"R">>, <<"W">>, <<"R", "W">>, <<"W", "R">>}]
      /\ connecting \in [Conns -> BOOLEAN]
      /\ connection_refused \in [Conns -> BOOLEAN]
      /\ told \in [Conns -> Seq({"connected", "eof", "error"})]
  BY Zenon DEF BevInv, BevTyped, Bevs, Lists5, Tolds, Whats
<1>. QED
  BY <1>1, <1>2, <1>3, Zenon DEF BevInv, TypeOK, DataTyped, SockTyped, Errors, Peers

(* A step that is none of connection j.                                    *)
Same(j) ==
  /\ bev'[j] = bev[j] /\ pending'[j] = pending[j]
  /\ connecting'[j] = connecting[j]
  /\ connection_refused'[j] = connection_refused[j] /\ told'[j] = told[j]
  /\ handed'[j] = handed[j] /\ written'[j] = written[j]
  /\ flushed'[j] = flushed[j] /\ sent'[j] = sent[j] /\ rx'[j] = rx[j]
  /\ fin'[j] = fin[j] /\ so_error'[j] = so_error[j] /\ tx'[j] = tx[j]
  /\ got'[j] = got[j] /\ peer'[j] = peer[j]
  /\ Part(j)' = Part(j) /\ Rest(j)' = Rest(j)
  /\ \A e \in {"R", "W", "F"} : <<j, e>> \in Round' <=> <<j, e>> \in Round

LEMMA SameKept ==
  ASSUME NEW j \in Conns, ConnOK(j), Same(j)
  PROVE  ConnOK(j)'
<1>1. ListedOK(j)' /\ KindOK(j)'
  BY DEF Same, ConnOK, ListedOK, KindOK
<1>2. NetworkOK(j)' /\ ToldOK(j)'
  BY DEF Same, ConnOK, NetworkOK, ToldOK, Ended
<1>3. BytesOK(j)' /\ WatchedOK(j)'
  BY DEF Same, ConnOK, BytesOK, WatchedOK, Ended
<1>. QED  BY <1>1, <1>2, <1>3 DEF ConnOK

(* So an action of connection k has to keep what is said of k.             *)
LEMMA OneConnection ==
  ASSUME BevInv, NEW k, RoundOK', ConnOK(k)',
         LoopTyped', BevTyped', DataTyped', SockTyped',
         \A j \in Conns \ {k} : Same(j)
  PROVE  BevInv'
<1>1. ASSUME NEW j \in Conns  PROVE ConnOK(j)'
  <2>1. CASE j = k
    BY <2>1
  <2>2. CASE j # k
    BY <2>2, SameKept DEF BevInv
  <2>. QED  BY <2>1, <2>2
<1>2. (\A j \in Conns : ConnOK(j))'
  BY <1>1 DEF Conns
<1>. QED  BY <1>2 DEF BevInv

-----------------------------------------------------------------------------
(* How the round changes.                                                  *)

LEMMA RoundEnters ==
  ASSUME NEW q \in Seq(Callbacks), Lists(q, Members(q)),
         NEW a \in Callbacks, a \notin Members(q)
  PROVE  /\ Append(q, a) \in Seq(Callbacks) /\ Append(q, a) # <<>>
         /\ Lists(Append(q, a), Members(Append(q, a)))
         /\ Members(Append(q, a)) = Members(q) \cup {a}
<1>1. /\ Append(q, a) \in Seq(Callbacks)
      /\ Lists(Append(q, a), Members(q) \cup {a})
  BY AppendLists, Zenon
<1>2. Members(Append(q, a)) = Members(q) \cup {a}
  BY <1>1, Zenon DEF Lists, Members
<1>3. Append(q, a) # <<>>
  <2>1. Members(<<>>) = {}
    BY DEF Members
  <2>. QED  BY <1>2, <2>1, Zenon
<1>. QED  BY <1>1, <1>2, <1>3, Zenon

LEMMA RoundGoesOn ==
  ASSUME NEW q \in Seq(Callbacks), Lists(q, Members(q)), q # <<>>
  PROVE  /\ Head(q) \in Members(q)
         /\ Tail(q) \in Seq(Callbacks) /\ Lists(Tail(q), Members(Tail(q)))
         /\ Members(Tail(q)) = Members(q) \ {Head(q)}
<1>1. /\ Head(q) \in Members(q) /\ Tail(q) \in Seq(Callbacks)
      /\ Lists(Tail(q), Members(q) \ {Head(q)})
  BY TailLists, Zenon
<1>2. Members(Tail(q)) = Members(q) \ {Head(q)}
  BY <1>1, Zenon DEF Lists, Members
<1>. QED  BY <1>1, <1>2, Zenon

LEMMA RoundLeaves ==
  ASSUME NEW q \in Seq(Callbacks), Lists(q, Members(q)), NEW S
  PROVE  /\ Without(q, S) \in Seq(Callbacks)
         /\ Lists(Without(q, S), Members(Without(q, S)))
         /\ Members(Without(q, S)) = Members(q) \ S
<1>1. Without(q, S) \in Seq(Callbacks) /\ Lists(Without(q, S), Members(q) \ S)
  BY WithoutLists, Zenon
<1>2. Members(Without(q, S)) = Members(q) \ S
  BY <1>1, Zenon DEF Lists, Members
<1>. QED  BY <1>1, <1>2, Zenon

Its(k) == {k} \X {"R", "W", "F"}

(* The callback at the head of the round has returned: with nothing        *)
(* cancelled, with its event deleted, with all of its connection cancelled *)
(* and with the finalizer added.                                           *)
LEMMA HeadReturns ==
  ASSUME TypeOK, RoundOK, NEW k \in Conns, NEW e, active # <<>>,
         Head(active) = <<k, e>>
  PROVE  /\ <<k, e>> \in Round
         /\ /\ Tail(active) \in Seq(Callbacks)
            /\ Lists(Tail(active), Members(Tail(active)))
            /\ Members(Tail(active)) = Round \ {<<k, e>>}
         /\ LET q == Without(Tail(active), {<<k, e>>})
            IN  /\ q \in Seq(Callbacks) /\ Lists(q, Members(q))
                /\ Members(q) = Round \ {<<k, e>>}
         /\ LET q == Others(k)
            IN  /\ q \in Seq(Callbacks) /\ Lists(q, Members(q))
                /\ Members(q) = Round \ Its(k)
         /\ LET q == Append(Others(k), <<k, "F">>)
            IN  /\ q \in Seq(Callbacks) /\ Lists(q, Members(q)) /\ q # <<>>
                /\ Members(q) = (Round \ Its(k)) \cup {<<k, "F">>}
<1>1. active \in Seq(Callbacks) /\ Lists(active, Members(active))
  BY DEF TypeOK, RoundOK, Round
<1>2. /\ <<k, e>> \in Round
      /\ Tail(active) \in Seq(Callbacks)
      /\ Lists(Tail(active), Members(Tail(active)))
      /\ Members(Tail(active)) = Round \ {<<k, e>>}
  BY <1>1, RoundGoesOn, Zenon DEF Round
<1>3. <<k, e>> \in Callbacks
  BY <1>1 DEF Round, Members
<1>4. <<k, e>> \in Its(k) /\ <<k, "F">> \in Its(k) /\ <<k, "F">> \in Callbacks
  BY <1>3 DEF Its, Callbacks
<1>. DEFINE q == Without(Tail(active), {<<k, e>>})
            r == Others(k)
<1>5. /\ q \in Seq(Callbacks) /\ Lists(q, Members(q))
      /\ Members(q) = Members(Tail(active)) \ {<<k, e>>}
  BY <1>2, RoundLeaves, Zenon
<1>6. /\ r \in Seq(Callbacks) /\ Lists(r, Members(r))
      /\ Members(r) = Members(Tail(active)) \ Its(k)
  BY <1>2, RoundLeaves, Zenon DEF Others, Its
<1>. HIDE DEF q, r
<1>7. Members(q) = Round \ {<<k, e>>} /\ Members(r) = Round \ Its(k)
  BY <1>2, <1>4, <1>5, <1>6
<1>8. /\ Append(r, <<k, "F">>) \in Seq(Callbacks)
      /\ Lists(Append(r, <<k, "F">>), Members(Append(r, <<k, "F">>)))
      /\ Members(Append(r, <<k, "F">>)) = Members(r) \cup {<<k, "F">>}
      /\ Append(r, <<k, "F">>) # <<>>
  BY <1>4, <1>6, <1>7, RoundEnters
<1>. QED  BY <1>2, <1>5, <1>6, <1>7, <1>8, Zenon DEF q, r

(* What is left of a buffer from which f bytes were drained.               *)
LEMMA Drains ==
  ASSUME NEW S, NEW s \in Seq(S), NEW f \in 0 .. Len(s)
  PROVE  /\ Drop(s, f) \in Seq(S) /\ Len(Drop(s, f)) = Len(s) - f
         /\ Drop(s, f) = <<>> <=> f = Len(s)
         /\ \A n \in Nat : Counts(s, n) => Counts(Drop(s, f), n + f)
<1>. DEFINE d == SubSeq(s, f + 1, Len(s))
<1>1. d \in Seq(S) /\ Len(d) = Len(s) - f
  OBVIOUS
<1>2. \A n \in Nat : Counts(s, n) => Counts(d, n + f)
  <2>1. f \in 0 .. Len(s) /\ Len(s) \in f .. Len(s)
    OBVIOUS
  <2>. QED  BY <2>1, CountsPart
<1>3. Drop(s, f) = d
  BY DEF Drop
<1>. HIDE DEF d
<1>4. d = <<>> <=> f = Len(s)
  <2>1. d = <<>> <=> Len(d) = 0
    BY <1>1, EmptySeq
  <2>. QED  BY <1>1, <2>1
<1>. QED  BY <1>1, <1>2, <1>3, <1>4

(* The output buffer.                                                      *)
LEMMA Output ==
  ASSUME TypeOK, NEW k \in Conns
  PROVE  /\ output(k) \in Bytes
         /\ Len(output(k)) = Len(written[k]) - flushed[k]
         /\ output(k) = <<>> <=> flushed[k] = Len(written[k])
         /\ Counts(written[k], 0) => Counts(output(k), flushed[k])
<1>. DEFINE w == written[k]
            f == flushed[k]
<1>1. w \in Bytes /\ f \in 0 .. MaxSend /\ f <= Len(w)
  BY DEF TypeOK
<1>. HIDE DEF w, f
<1>2. w \in Seq(1 .. MaxSend) /\ Len(w) \in Nat
  <2>1. w \in Seq(1 .. MaxSend)
    BY <1>1, Zenon DEF Bytes
  <2>. QED  BY <2>1, LenProperties
<1>3. f \in 0 .. Len(w)
  BY <1>1, <1>2
<1>4. /\ Drop(w, f) \in Seq(1 .. MaxSend) /\ Len(Drop(w, f)) = Len(w) - f
      /\ Drop(w, f) = <<>> <=> f = Len(w)
      /\ \A n \in Nat : Counts(w, n) => Counts(Drop(w, f), n + f)
  BY <1>2, <1>3, Drains, Zenon
<1>5. Counts(w, 0) => Counts(Drop(w, f), f)
  <2>1. 0 \in Nat /\ 0 + f = f
    BY <1>1
  <2>. QED  BY <1>4, <2>1, Zenon
<1>. QED  BY <1>4, <1>5, Zenon DEF output, w, f, Bytes

-----------------------------------------------------------------------------
(* How bytes move.                                                         *)

LEMMA PlacedNumbers ==
  ASSUME NEW h, NEW w, NEW g, NEW r, NEW x, NEW f, NEW p, NEW l, NEW s,
         NEW b, NEW e, Placed(h, w, g, r, x, f, p, l, s, b, e)
  PROVE  /\ Len(h) \in Nat /\ Len(w) \in Nat /\ Len(g) \in Nat
         /\ Len(r) \in Nat /\ Len(x) \in Nat
         /\ f \in Nat /\ p \in Nat /\ l \in Nat /\ s \in Nat
         /\ MaxSend \in Nat /\ MaxRead \in Nat \ {0} /\ MaxWrite \in Nat \ {0}
         /\ SndBuf \in Nat \ {0} /\ BUFFSIZE \in Nat \ {0}
BY BytesLen, BevAssumption DEF Placed

(* The peer sends a byte, and reads one.                                   *)
LEMMA PlacedSend ==
  ASSUME NEW h, NEW w, NEW g, NEW r, NEW x, NEW f, NEW p, NEW l, NEW s,
         NEW b, NEW e, Placed(h, w, g, r, x, f, p, l, s, b, e),
         b # "freed", s < MaxSend
  PROVE  Placed(h, w, g, Append(r, s + 1), x, f, p, l, s + 1, b, e)
<1>0. /\ r \in Bytes /\ Counts(r, Len(h)) /\ Len(h) + Len(r) = s
      /\ Len(h) \in Nat /\ Len(r) \in Nat /\ s \in Nat /\ MaxSend \in Nat
  BY PlacedNumbers, Zenon DEF Placed
<1>1. /\ r \in Bytes /\ Counts(r, Len(h)) /\ Len(h) \in Nat /\ Len(r) \in Nat
      /\ s + 1 = Len(h) + Len(r) + 1 /\ s + 1 \in 1 .. MaxSend
      /\ s \in Nat /\ MaxSend \in Nat /\ s + 1 \in 0 .. MaxSend
  BY <1>0
<1>2. PICK t : t = Append(r, s + 1)
  OBVIOUS
<1>3. t \in Bytes /\ Len(t) = Len(r) + 1 /\ Counts(t, Len(h))
  BY <1>1, <1>2, BytesAppend
<1>4. Placed(h, w, g, t, x, f, p, l, s + 1, b, e)
  BY <1>1, <1>3, PlacedNumbers DEF Placed
<1>. QED  BY <1>2, <1>4

LEMMA PlacedGive ==
  ASSUME NEW h, NEW w, NEW g, NEW r, NEW x, NEW f, NEW p, NEW l, NEW s,
         NEW b, NEW e, Placed(h, w, g, r, x, f, p, l, s, b, e),
         e = "open", x # <<>>
  PROVE  /\ Placed(h, w, Append(g, Head(x)), r, Tail(x), f, p, l, s, b, e)
         /\ Head(x) = Len(g) + 1 /\ Len(g) + 1 <= Len(w)
         /\ Append(g, Head(x)) \in Bytes /\ Len(Append(g, Head(x))) = Len(g) + 1
<1>1. /\ x \in Bytes /\ g \in Bytes /\ Counts(x, Len(g)) /\ Counts(g, 0)
      /\ Len(g) + Len(x) <= f + p /\ f + p + l <= Len(w) /\ w \in Bytes
      /\ Len(w) <= Len(h) /\ Len(h) <= s /\ s <= MaxSend
  BY PlacedNumbers DEF Placed
<1>2. /\ Len(x) \in Nat \ {0} /\ Len(g) \in Nat /\ Len(w) \in Nat
      /\ f \in Nat /\ p \in Nat /\ l \in Nat /\ Len(h) \in Nat /\ s \in Nat
      /\ MaxSend \in Nat /\ SndBuf \in Nat
  BY <1>1, PlacedNumbers, BytesLen
<1>3. PICK t : t = Tail(x)
  OBVIOUS
<1>4. t \in Bytes /\ Len(t) = Len(x) - 1 /\ Head(x) = Len(g) + 1
      /\ Counts(t, Len(g) + 1)
  BY <1>1, <1>2, <1>3, BytesTail
<1>5. 0 + Len(g) + 1 \in 1 .. MaxSend /\ 0 + Len(g) + 1 = Len(g) + 1 /\ 0 \in Nat
      /\ Len(g) + 1 <= Len(w)
  BY <1>1, <1>2
<1>6. PICK o : o = Append(g, Head(x))
  OBVIOUS
<1>7. o \in Bytes /\ Len(o) = Len(g) + 1 /\ Counts(o, 0)
  BY <1>1, <1>4, <1>5, <1>6, BytesAppend
<1>8. Placed(h, w, o, r, t, f, p, l, s, b, e)
  <2>1. Len(t) <= SndBuf /\ Len(o) <= Len(w)
    BY <1>2, <1>4, <1>5, <1>7 DEF Placed
  <2>2. Counts(t, Len(o)) /\ Len(o) + Len(t) = Len(g) + Len(x)
    BY <1>2, <1>4, <1>7
  <2>. QED  BY <1>4, <1>7, <2>1, <2>2 DEF Placed
<1>. QED  BY <1>3, <1>4, <1>5, <1>6, <1>7, <1>8

(* The peer is gone, with what was on its way to it or without.            *)
LEMMA PlacedGone ==
  ASSUME NEW h, NEW w, NEW g, NEW r, NEW x, NEW f, NEW p, NEW l, NEW s,
         NEW b, NEW e, Placed(h, w, g, r, x, f, p, l, s, b, e), NEW d, d # "open"
  PROVE  /\ Placed(h, w, g, r, x, f, p, l, s, b, d)
         /\ Placed(h, w, g, r, <<>>, f, p, l, s, b, d)
BY BytesLen, BevAssumption DEF Placed

(* Another server has answered: nothing was written yet.                   *)
LEMMA PlacedOpens ==
  ASSUME NEW h, NEW w, NEW g, NEW r, NEW x, NEW f, NEW p, NEW l, NEW s,
         NEW b, NEW e, Placed(h, w, g, r, x, f, p, l, s, b, e), w = <<>>, x = <<>>,
         NEW d
  PROVE  Placed(h, w, g, r, x, f, p, l, s, b, d)
<1>1. /\ Len(g) = 0 /\ f = 0 /\ p = 0 /\ Len(x) = 0 /\ Counts(x, Len(g))
  BY PlacedNumbers, BytesLen DEF Placed
<1>. QED  BY <1>1 DEF Placed

(* The bufferevent is another, but not freed or freed.                     *)
LEMMA PlacedBev ==
  ASSUME NEW h, NEW w, NEW g, NEW r, NEW x, NEW f, NEW p, NEW l, NEW s,
         NEW b, NEW e, Placed(h, w, g, r, x, f, p, l, s, b, e), b # "freed", NEW c
  PROVE  Placed(h, w, g, r, x, f, p, l, s, c, e)
BY DEF Placed

(* The socket is closed: what it still gave up to read is no matter.       *)
LEMMA PlacedFreed ==
  ASSUME NEW h, NEW w, NEW g, NEW r, NEW x, NEW f, NEW p, NEW l, NEW s,
         NEW b, NEW e, Placed(h, w, g, r, x, f, p, l, s, b, e)
  PROVE  /\ Placed(h, w, g, <<>>, x, f, p, l, s, "freed", e)
         /\ Placed(h, w, g, <<>>, <<>>, f, p, l, s, "freed", e)
<1>1. /\ Len(g) + 0 <= Len(g) + Len(x) /\ Len(g) + 0 \in Nat /\ 0 <= SndBuf
      /\ Len(g) + Len(x) \in Nat /\ f + p \in Nat
  BY PlacedNumbers
<1>2. e = "open" => Len(g) + 0 <= f + p
  BY <1>1 DEF Placed
<1>. QED  BY <1>1, <1>2, BytesLen DEF Placed

(* evbuffer_read moves n bytes to the program.                             *)
LEMMA PlacedRead ==
  ASSUME NEW h, NEW w, NEW g, NEW r, NEW x, NEW f, NEW p, NEW l, NEW s,
         NEW b, NEW e, Placed(h, w, g, r, x, f, p, l, s, b, e),
         b # "freed", NEW n \in 0 .. Len(r)
  PROVE  /\ Placed(h \o SubSeq(r, 1, n), w, g, Drop(r, n), x, f, p, l, s, b, e)
         /\ h \o SubSeq(r, 1, n) \in Bytes /\ Drop(r, n) \in Bytes
         /\ Len(h \o SubSeq(r, 1, n)) = Len(h) + n
<1>1. /\ r \in Bytes /\ h \in Bytes /\ Counts(r, Len(h)) /\ Counts(h, 0)
      /\ Len(h) + Len(r) = s
      /\ Len(h) \in Nat /\ Len(r) \in Nat /\ Len(w) \in Nat /\ s \in Nat
      /\ Len(w) <= Len(h)
  BY PlacedNumbers DEF Placed
<1>2. PICK t : t = SubSeq(r, 0 + 1, n)
  OBVIOUS
<1>3. PICK u : u = SubSeq(r, n + 1, Len(r))
  OBVIOUS
<1>4. /\ 0 \in 0 .. Len(r) /\ n \in 0 .. Len(r) /\ Len(r) \in n .. Len(r)
      /\ n - 0 = n /\ Len(h) + 0 = Len(h) /\ 0 + Len(h) = Len(h) /\ 0 \in Nat
      /\ 0 + 1 = 1 /\ n \in Nat
  BY <1>1
<1>5. t \in Bytes /\ Len(t) = n /\ Counts(t, 0 + Len(h))
  BY <1>1, <1>2, <1>4, BytesPart
<1>6. u \in Bytes /\ Len(u) = Len(r) - n /\ Counts(u, Len(h) + n)
  BY <1>1, <1>3, <1>4, BytesPart
<1>7. PICK v : v = h \o t
  OBVIOUS
<1>8. v \in Bytes /\ Len(v) = Len(h) + n /\ Counts(v, 0)
  BY <1>1, <1>4, <1>5, <1>7, BytesConcat
<1>9. Len(w) <= Len(v) /\ Len(v) + Len(u) = s /\ Counts(u, Len(v)) /\ Len(v) <= s
  BY <1>1, <1>4, <1>6, <1>8
<1>10. Placed(v, w, g, u, x, f, p, l, s, b, e)
  BY <1>6, <1>8, <1>9 DEF Placed
<1>11. v = h \o SubSeq(r, 1, n) /\ u = Drop(r, n)
  BY <1>2, <1>3, <1>4, <1>7, Zenon DEF Drop
<1>. QED  BY <1>6, <1>8, <1>10, <1>11, Zenon

(* The socket takes n more bytes of the output buffer, whose first p it    *)
(* has taken.                                                              *)
LEMMA PlacedCopied ==
  ASSUME NEW h, NEW w, NEW g, NEW r, NEW x, NEW f, NEW p, NEW l, NEW s,
         NEW b, NEW e, Placed(h, w, g, r, x, f, p, l, s, b, e),
         b # "freed", NEW n \in Nat, n <= SndBuf - Len(x),
         NEW m \in Nat, f + p + n + m <= Len(w)
  PROVE  /\ Placed(h, w, g, r, x \o SubSeq(Drop(w, f), p + 1, p + n),
                   f, p + n, m, s, b, e)
         /\ x \o SubSeq(Drop(w, f), p + 1, p + n) \in Bytes
<1>1. /\ w \in Bytes /\ x \in Bytes /\ Counts(w, 0)
      /\ Len(w) \in Nat /\ Len(x) \in Nat /\ Len(g) \in Nat
      /\ f \in Nat /\ p \in Nat /\ SndBuf \in Nat
      /\ e = "open" => Counts(x, Len(g)) /\ Len(g) + Len(x) = f + p
  BY PlacedNumbers DEF Placed
<1>2. /\ f \in 0 .. Len(w) /\ Len(w) \in f .. Len(w) /\ 0 \in Nat /\ 0 + f = f
      /\ p \in 0 .. Len(w) - f /\ p + n \in p .. Len(w) - f
      /\ (p + n) - p = n /\ f + p \in Nat
      /\ Len(x) + n <= SndBuf /\ f + (p + n) + m <= Len(w) /\ p + n \in Nat
  BY <1>1
<1>3. PICK o : o = SubSeq(w, f + 1, Len(w))
  OBVIOUS
<1>4. o \in Bytes /\ Len(o) = Len(w) - f /\ Counts(o, f)
  BY <1>1, <1>2, <1>3, BytesPart
<1>5. PICK t : t = SubSeq(o, p + 1, p + n)
  OBVIOUS
<1>6. t \in Bytes /\ Len(t) = n /\ Counts(t, f + p)
  <2>1. p \in 0 .. Len(o) /\ p + n \in p .. Len(o) /\ f \in Nat
    BY <1>1, <1>2, <1>4
  <2>2. t \in Bytes /\ Len(t) = (p + n) - p /\ Counts(t, f + p)
    BY <1>4, <1>5, <2>1, BytesPart, Zenon
  <2>. QED  BY <1>2, <2>2
<1>7. PICK y : y = x \o t
  OBVIOUS
<1>8. /\ y \in Bytes /\ Len(y) = Len(x) + n
      /\ e = "open" => Counts(y, Len(g))
  <2>1. y \in Bytes /\ Len(y) = Len(x) + n
    <3>. DEFINE S == 1 .. MaxSend
    <3>1. Bytes = Seq(S)
      BY DEF Bytes
    <3>. HIDE DEF S
    <3>. QED  BY <1>1, <1>6, <1>7, <3>1, ConcatProperties
  <2>2. e = "open" => Counts(y, Len(g))
    BY <1>1, <1>6, <1>7, BytesConcat
  <2>. QED  BY <2>1, <2>2
<1>9. e = "open" => Len(g) + Len(y) = f + (p + n)
  BY <1>1, <1>2, <1>8
<1>10. Placed(h, w, g, r, y, f, p + n, m, s, b, e)
  <2>1. Len(y) <= SndBuf /\ f + (p + n) + m <= Len(w) /\ p + n \in Nat /\ f \in Nat
    BY <1>1, <1>2, <1>8
  <2>2. e = "open" => Len(g) + Len(y) <= f + (p + n)
    BY <1>1, <1>2, <1>8, <1>9
  <2>. QED  BY <1>8, <1>9, <2>1, <2>2 DEF Placed
<1>11. y = x \o SubSeq(Drop(w, f), p + 1, p + n)
  BY <1>3, <1>5, <1>7, Zenon DEF Drop
<1>. QED  BY <1>8, <1>10, <1>11, Zenon

(* evbuffer_drain: what was copied is flushed.                             *)
LEMMA PlacedFlushed ==
  ASSUME NEW h, NEW w, NEW g, NEW r, NEW x, NEW f, NEW p, NEW l, NEW s,
         NEW b, NEW e, Placed(h, w, g, r, x, f, p, l, s, b, e)
  PROVE  Placed(h, w, g, r, x, f + p, 0, 0, s, b, e) /\ f + p \in 0 .. MaxSend
<1>1. /\ f + p \in Nat /\ (f + p) + 0 = f + p /\ (f + p) + 0 + 0 <= Len(w)
      /\ f + p \in 0 .. MaxSend
  <2>1. f + p + l <= Len(w) /\ Len(w) <= Len(h) /\ Len(h) <= s /\ s <= MaxSend
    BY PlacedNumbers DEF Placed
  <2>2. /\ f \in Nat /\ p \in Nat /\ l \in Nat /\ s \in Nat /\ MaxSend \in Nat
        /\ Len(w) \in Nat /\ Len(h) \in Nat
    BY PlacedNumbers
  <2>3. PICK a, c : a = Len(w) /\ c = Len(h)
    OBVIOUS
  <2>. QED  BY <2>1, <2>2, <2>3
<1>. QED  BY <1>1 DEF Placed

(* A frame echoes up to the byte n.                                        *)
LEMMA PlacedEchoed ==
  ASSUME NEW h, NEW w, NEW g, NEW r, NEW x, NEW f, NEW p, NEW l, NEW s,
         NEW b, NEW e, Placed(h, w, g, r, x, f, p, l, s, b, e),
         NEW n \in Len(w) .. Len(h)
  PROVE  /\ Placed(h, SubSeq(h, 1, n), g, r, x, f, p, l, s, b, e)
         /\ SubSeq(h, 1, n) \in Bytes /\ Len(SubSeq(h, 1, n)) = n
         /\ n = Len(w) => SubSeq(h, 1, n) = w
<1>1. /\ w \in Bytes /\ h \in Bytes /\ Counts(w, 0) /\ Counts(h, 0)
      /\ Len(w) \in Nat /\ Len(h) \in Nat /\ Len(g) \in Nat
      /\ f \in Nat /\ p \in Nat /\ l \in Nat
      /\ Len(g) <= Len(w) /\ f + p + l <= Len(w)
  BY PlacedNumbers DEF Placed
<1>2. /\ 0 \in 0 .. Len(h) /\ n \in 0 .. Len(h) /\ n - 0 = n /\ 0 + 0 = 0
      /\ 0 + 1 = 1 /\ 0 \in Nat /\ Len(g) <= n /\ f + p + l <= n /\ n <= Len(h)
  BY <1>1
<1>3. PICK t : t = SubSeq(h, 0 + 1, n)
  OBVIOUS
<1>4. t \in Bytes /\ Len(t) = n /\ Counts(t, 0)
  BY <1>1, <1>2, <1>3, BytesPart
<1>5. Placed(h, t, g, r, x, f, p, l, s, b, e)
  BY <1>2, <1>4 DEF Placed
<1>6. n = Len(w) => t = w
  <2>. DEFINE S == 1 .. MaxSend
  <2>1. Bytes = Seq(S)
    BY DEF Bytes
  <2>. HIDE DEF S
  <2>. QED  BY <1>1, <1>2, <1>4, <2>1, CountsSame
<1>7. t = SubSeq(h, 1, n)
  BY <1>2, <1>3, Zenon
<1>. QED  BY <1>4, <1>5, <1>6, <1>7, Zenon

-----------------------------------------------------------------------------
(* The peers and the network: the program does not move.                   *)

LEMMA Elsewhere ==
  ASSUME BevInv, UNCHANGED <<loopVars, bevVars, dataVars>>
  PROVE  /\ LoopTyped' /\ BevTyped' /\ DataTyped'
         /\ RoundOK' /\ Round' = Round
         /\ \A j \in Conns : Part(j)' = Part(j) /\ Rest(j)' = Rest(j)
BY DEF BevInv, LoopTyped, BevTyped, DataTyped, RoundOK, Round, Part, Rest,
       loopVars, bevVars, dataVars

LEMMA KeptPeerSend ==
  ASSUME BevInv, NEW k \in Conns, PeerSend(k)
  PROVE  BevInv'
<1>1. ConnOK(k) /\ SockTyped
  BY DEF BevInv
<1>2. /\ bev[k] # "freed" /\ peer[k] = "open" /\ sent[k] < MaxSend
      /\ UNCHANGED <<loopVars, bevVars, dataVars>>
      /\ UNCHANGED <<fin, so_error, tx, got, peer>>
  BY DEF PeerSend, HasSocket
<1>3. PICK n : n = sent[k] + 1
  OBVIOUS
<1>4. PICK r : r = Append(rx[k], n)
  OBVIOUS
<1>5. Placed(handed[k], written[k], got[k], r, tx[k], flushed[k], Part(k),
             Rest(k), n, bev[k], peer[k])
  BY <1>1, <1>2, <1>3, <1>4, PlacedSend DEF ConnOK, BytesOK
<1>6. sent' = [sent EXCEPT ![k] = n] /\ rx' = [rx EXCEPT ![k] = r]
  BY <1>3, <1>4, Zenon DEF PeerSend
<1>7. r \in Bytes /\ n \in 0 .. MaxSend
  BY <1>5 DEF Placed
<1>8. SockTyped'
  BY <1>1, <1>2, <1>6, <1>7 DEF SockTyped
<1>9. /\ LoopTyped' /\ BevTyped' /\ DataTyped' /\ RoundOK' /\ Round' = Round
      /\ \A j \in Conns : Part(j)' = Part(j) /\ Rest(j)' = Rest(j)
  BY <1>2, Elsewhere
<1>10. ASSUME NEW j \in Conns \ {k}  PROVE Same(j)
  BY <1>1, <1>2, <1>6, <1>9 DEF Same, SockTyped, bevVars, dataVars
<1>11. ConnOK(k)'
  <2>1. sent'[k] = n /\ rx'[k] = r
    BY <1>1, <1>6 DEF SockTyped
  <2>2. ListedOK(k)' /\ KindOK(k)' /\ NetworkOK(k)'
    BY <1>1, <1>2, <1>9 DEF ConnOK, ListedOK, KindOK, NetworkOK, bevVars, dataVars
  <2>3. ToldOK(k)' /\ WatchedOK(k)'
    BY <1>1, <1>2 DEF ConnOK, ToldOK, WatchedOK, Ended, bevVars, dataVars
  <2>4. BytesOK(k)'
    BY <1>2, <1>5, <1>9, <2>1 DEF BytesOK, bevVars, dataVars
  <2>. QED  BY <2>2, <2>3, <2>4 DEF ConnOK
<1>. QED  BY <1>8, <1>9, <1>10, <1>11, OneConnection

LEMMA KeptPeerRead ==
  ASSUME BevInv, NEW k \in Conns, PeerRead(k)
  PROVE  BevInv'
<1>1. ConnOK(k) /\ SockTyped
  BY DEF BevInv
<1>2. /\ peer[k] = "open" /\ tx[k] # <<>>
      /\ UNCHANGED <<loopVars, bevVars, dataVars>>
      /\ UNCHANGED <<sent, rx, fin, so_error, peer>>
  BY DEF PeerRead
<1>3. PICK g : g = Append(got[k], Head(tx[k]))
  OBVIOUS
<1>4. PICK x : x = Tail(tx[k])
  OBVIOUS
<1>5. Placed(handed[k], written[k], g, rx[k], x, flushed[k], Part(k),
             Rest(k), sent[k], bev[k], peer[k])
  BY <1>1, <1>2, <1>3, <1>4, PlacedGive DEF ConnOK, BytesOK
<1>6. got' = [got EXCEPT ![k] = g] /\ tx' = [tx EXCEPT ![k] = x]
  BY <1>3, <1>4, Zenon DEF PeerRead
<1>7. g \in Bytes /\ x \in Bytes
  BY <1>5 DEF Placed
<1>8. SockTyped'
  BY <1>1, <1>2, <1>6, <1>7 DEF SockTyped
<1>9. /\ LoopTyped' /\ BevTyped' /\ DataTyped' /\ RoundOK' /\ Round' = Round
      /\ \A j \in Conns : Part(j)' = Part(j) /\ Rest(j)' = Rest(j)
  BY <1>2, Elsewhere
<1>10. ASSUME NEW j \in Conns \ {k}  PROVE Same(j)
  BY <1>1, <1>2, <1>6, <1>9 DEF Same, SockTyped, bevVars, dataVars
<1>11. ConnOK(k)'
  <2>1. got'[k] = g /\ tx'[k] = x
    BY <1>1, <1>6 DEF SockTyped
  <2>2. k \notin Outgoing
    BY <1>1, <1>2 DEF ConnOK, KindOK
  <2>3. ListedOK(k)' /\ KindOK(k)' /\ NetworkOK(k)'
    BY <1>1, <1>2, <1>9, <2>2 DEF ConnOK, ListedOK, KindOK, NetworkOK, bevVars, dataVars
  <2>4. ToldOK(k)' /\ WatchedOK(k)'
    BY <1>1, <1>2 DEF ConnOK, ToldOK, WatchedOK, Ended, bevVars, dataVars
  <2>5. BytesOK(k)'
    BY <1>2, <1>5, <1>9, <2>1 DEF BytesOK, bevVars, dataVars
  <2>. QED  BY <2>3, <2>4, <2>5 DEF ConnOK
<1>. QED  BY <1>8, <1>9, <1>10, <1>11, OneConnection

LEMMA KeptPeerClose ==
  ASSUME BevInv, NEW k \in Conns, PeerClose(k)
  PROVE  BevInv'
<1>1. ConnOK(k) /\ SockTyped
  BY DEF BevInv
<1>2. /\ peer[k] = "open" /\ peer' = [peer EXCEPT ![k] = "closed"]
      /\ UNCHANGED <<loopVars, bevVars, dataVars>> /\ UNCHANGED <<sent, rx, got>>
  BY DEF PeerClose
<1>3. \/ fin' = [fin EXCEPT ![k] = TRUE] /\ UNCHANGED <<so_error, tx>>
      \/ /\ so_error' = [so_error EXCEPT ![k] = "ECONNRESET"]
         /\ tx' = [tx EXCEPT ![k] = <<>>] /\ UNCHANGED fin
  BY DEF PeerClose
<1>4. SockTyped'
  <2>1. <<>> \in Bytes
    BY BytesLen
  <2>2. /\ fin' \in [Conns -> BOOLEAN] /\ so_error' \in [Conns -> Errors]
        /\ tx' \in [Conns -> Bytes]
    BY <1>1, <1>3, <2>1 DEF SockTyped, Errors
  <2>3. peer' \in [Conns -> Peers]
    BY <1>1, <1>2 DEF SockTyped, Peers
  <2>. QED  BY <1>1, <1>2, <2>2, <2>3 DEF SockTyped
<1>5. /\ LoopTyped' /\ BevTyped' /\ DataTyped' /\ RoundOK' /\ Round' = Round
      /\ \A j \in Conns : Part(j)' = Part(j) /\ Rest(j)' = Rest(j)
  BY <1>2, Elsewhere
<1>6. ASSUME NEW j \in Conns \ {k}  PROVE Same(j)
  BY <1>1, <1>2, <1>3, <1>5 DEF Same, SockTyped, bevVars, dataVars
<1>7. ConnOK(k)'
  <2>1. /\ peer'[k] = "closed" /\ tx'[k] \in {tx[k], <<>>}
        /\ \/ fin'[k] /\ so_error'[k] = so_error[k]
           \/ fin'[k] = fin[k] /\ so_error'[k] = "ECONNRESET"
    BY <1>1, <1>2, <1>3 DEF SockTyped
  <2>2. ListedOK(k)' /\ KindOK(k)' /\ NetworkOK(k)'
    BY <1>1, <1>2, <1>5, <2>1 DEF ConnOK, ListedOK, KindOK, NetworkOK, bevVars, dataVars
  <2>3. ToldOK(k)' /\ WatchedOK(k)'
    BY <1>1, <1>2, <2>1 DEF ConnOK, ToldOK, WatchedOK, Ended, bevVars, dataVars
  <2>4. Placed(handed[k], written[k], got[k], rx[k], tx'[k], flushed[k], Part(k),
               Rest(k), sent[k], bev[k], "closed")
    BY <1>1, <2>1, PlacedGone DEF ConnOK, BytesOK
  <2>5. BytesOK(k)'
    BY <1>2, <1>5, <2>1, <2>4 DEF BytesOK, bevVars, dataVars
  <2>. QED  BY <2>2, <2>3, <2>5 DEF ConnOK
<1>. QED  BY <1>4, <1>5, <1>6, <1>7, OneConnection

LEMMA KeptPeerResets ==
  ASSUME BevInv, NEW k \in Conns, PeerResets(k)
  PROVE  BevInv'
<1>1. ConnOK(k) /\ SockTyped
  BY DEF BevInv
<1>2. /\ peer[k] = "closed" /\ so_error' = [so_error EXCEPT ![k] = "EPIPE"]
      /\ tx' = [tx EXCEPT ![k] = <<>>]
      /\ UNCHANGED <<loopVars, bevVars, dataVars>>
      /\ UNCHANGED <<sent, rx, fin, got, peer>>
      /\ tx[k] # <<>>
  BY DEF PeerResets
<1>3. SockTyped'
  BY <1>1, <1>2, BytesLen DEF SockTyped, Errors, Peers
<1>4. /\ LoopTyped' /\ BevTyped' /\ DataTyped' /\ RoundOK' /\ Round' = Round
      /\ \A j \in Conns : Part(j)' = Part(j) /\ Rest(j)' = Rest(j)
  BY <1>2, Elsewhere
<1>5. ASSUME NEW j \in Conns \ {k}  PROVE Same(j)
  BY <1>1, <1>2, <1>4 DEF Same, SockTyped, bevVars, dataVars
<1>6. ConnOK(k)'
  <2>1. tx'[k] = <<>> /\ so_error'[k] = "EPIPE"
    BY <1>1, <1>2 DEF SockTyped
  <2>2. k \notin Outgoing
    BY <1>1, <1>2 DEF ConnOK, KindOK
  <2>3. ListedOK(k)' /\ KindOK(k)' /\ NetworkOK(k)'
    BY <1>1, <1>2, <1>4, <2>1, <2>2 DEF ConnOK, ListedOK, KindOK, NetworkOK, bevVars, dataVars
  <2>4. ToldOK(k)' /\ WatchedOK(k)'
    BY <1>1, <1>2, <2>1, <2>2 DEF ConnOK, ToldOK, KindOK, WatchedOK, Ended, bevVars, dataVars
  <2>5. Placed(handed[k], written[k], got[k], rx[k], tx'[k], flushed[k], Part(k),
               Rest(k), sent[k], bev[k], peer[k])
    BY <1>1, <1>2, <2>1, PlacedGone DEF ConnOK, BytesOK
  <2>6. BytesOK(k)'
    BY <1>2, <1>4, <2>5 DEF BytesOK, bevVars, dataVars
  <2>. QED  BY <2>3, <2>4, <2>6 DEF ConnOK
<1>. QED  BY <1>3, <1>4, <1>5, <1>6, OneConnection

LEMMA KeptPeerAnswers ==
  ASSUME BevInv, NEW k \in Conns, PeerAnswers(k)
  PROVE  BevInv'
<1>1. ConnOK(k) /\ SockTyped
  BY DEF BevInv
<1>2. /\ peer[k] = "syn"
      /\ UNCHANGED <<loopVars, bevVars, dataVars>>
      /\ UNCHANGED <<sent, rx, fin, tx, got>>
  BY DEF PeerAnswers
<1>3. PICK d \in {"open", "absent"}, e \in Errors :
        /\ peer' = [peer EXCEPT ![k] = d]
        /\ so_error' = [so_error EXCEPT ![k] = e]
        /\ d = "open" => e = so_error[k]
        /\ d = "absent" => e \in {"ECONNREFUSED", "ETIMEDOUT"}
  <2>1. so_error \in [Conns -> Errors]
    BY <1>1 DEF SockTyped
  <2>2. CASE peer' = [peer EXCEPT ![k] = "open"] /\ UNCHANGED so_error
    <3>1. so_error' = [so_error EXCEPT ![k] = so_error[k]] /\ so_error[k] \in Errors
      BY <2>1, <2>2
    <3>. QED  BY <2>2, <3>1
  <2>3. CASE /\ peer' = [peer EXCEPT ![k] = "absent"]
             /\ \E e \in {"ECONNREFUSED", "ETIMEDOUT"} :
                  so_error' = [so_error EXCEPT ![k] = e]
    <3>1. PICK e \in {"ECONNREFUSED", "ETIMEDOUT"} : so_error' = [so_error EXCEPT ![k] = e]
      BY <2>3
    <3>. QED  BY <2>3, <3>1 DEF Errors
  <2>. QED  BY <2>2, <2>3 DEF PeerAnswers
<1>4. SockTyped'
  BY <1>1, <1>2, <1>3 DEF SockTyped, Peers
<1>5. /\ LoopTyped' /\ BevTyped' /\ DataTyped' /\ RoundOK' /\ Round' = Round
      /\ \A j \in Conns : Part(j)' = Part(j) /\ Rest(j)' = Rest(j)
  BY <1>2, Elsewhere
<1>6. ASSUME NEW j \in Conns \ {k}  PROVE Same(j)
  BY <1>1, <1>2, <1>3, <1>5 DEF Same, SockTyped, bevVars, dataVars
<1>7. ConnOK(k)'
  <2>1. peer'[k] = d /\ so_error'[k] = e
    BY <1>1, <1>3 DEF SockTyped
  <2>2. /\ k \in Outgoing /\ k \notin Accepted /\ so_error[k] = "none"
        /\ ~connection_refused[k] /\ told[k] = <<>> /\ bev[k] # "none"
        /\ written[k] = <<>> /\ tx[k] = <<>> /\ ~Ended(k)
    <3>1. /\ k \in Outgoing /\ k \notin Accepted /\ ~connection_refused[k]
          /\ told[k] = <<>> /\ bev[k] # "none"
          /\ written[k] = <<>> /\ tx[k] = <<>>
      BY <1>1, <1>2 DEF ConnOK, KindOK, NetworkOK, ToldOK, Conns
    <3>2. so_error[k] = "none"
      BY <1>1, <1>2 DEF ConnOK, NetworkOK, SockTyped, Errors
    <3>. QED  BY <3>1, <3>2 DEF Ended, Contains
  <2>3. ListedOK(k)' /\ KindOK(k)' /\ NetworkOK(k)'
    BY <1>1, <1>2, <1>3, <1>5, <2>1, <2>2
       DEF ConnOK, ListedOK, KindOK, NetworkOK, bevVars, dataVars
  <2>4. ToldOK(k)' /\ WatchedOK(k)'
    BY <1>1, <1>2, <1>3, <2>1, <2>2
       DEF ConnOK, ToldOK, WatchedOK, Ended, bevVars, dataVars
  <2>5. Placed(handed[k], written[k], got[k], rx[k], tx[k], flushed[k], Part(k),
               Rest(k), sent[k], bev[k], d)
    BY <1>1, <2>2, PlacedOpens DEF ConnOK, BytesOK
  <2>6. BytesOK(k)'
    BY <1>2, <1>5, <2>1, <2>5 DEF BytesOK, bevVars, dataVars
  <2>. QED  BY <2>3, <2>4, <2>6 DEF ConnOK
<1>. QED  BY <1>4, <1>5, <1>6, <1>7, OneConnection

-----------------------------------------------------------------------------
(* Connections are made.                                                   *)

LEMMA Listed ==
  /\ Contains(<<"W", "R">>, "R") /\ Contains(<<"W", "R">>, "W")
  /\ Contains(<<"R", "W">>, "R") /\ Contains(<<"R", "W">>, "W")
  /\ \A e : ~Contains(<<>>, e)
  /\ <<"W", "R">> \in Lists5 /\ <<"R", "W">> \in Lists5 /\ <<>> \in Lists5
<1>1. /\ Len(<<"W", "R">>) = 2 /\ <<"W", "R">>[1] = "W" /\ <<"W", "R">>[2] = "R"
      /\ Len(<<"R", "W">>) = 2 /\ <<"R", "W">>[1] = "R" /\ <<"R", "W">>[2] = "W"
      /\ 1 \in 1 .. 2 /\ 2 \in 1 .. 2 /\ Len(<<>>) = 0 /\ 1 .. 0 = {}
  OBVIOUS
<1>2. /\ Contains(<<"W", "R">>, "R") /\ Contains(<<"W", "R">>, "W")
      /\ Contains(<<"R", "W">>, "R") /\ Contains(<<"R", "W">>, "W")
  BY <1>1 DEF Contains
<1>3. \A e : ~Contains(<<>>, e)
  BY DEF Contains
<1>. QED  BY <1>2, <1>3 DEF Lists5

LEMMA KeptListen_CB ==
  ASSUME BevInv, NEW k \in Accepted, SyinxKernel_Listen_CB(k)
  PROVE  BevInv'
<1>1. ConnOK(k) /\ LoopTyped /\ BevTyped /\ RoundOK /\ k \in Conns
  BY DEF BevInv, Conns
<1>2. /\ loop = "round" /\ bev[k] = "none"
      /\ UNCHANGED <<loop, left, copied, connecting, connection_refused, told,
                     dataVars, sockVars>>
  BY DEF SyinxKernel_Listen_CB
<1>3. /\ DataTyped' /\ SockTyped'
      /\ \A j \in Conns : Part(j)' = Part(j) /\ Rest(j)' = Rest(j)
  BY <1>2 DEF BevInv, DataTyped, SockTyped, dataVars, sockVars, Part, Rest
<1>4. pending[k] = <<>> /\ ~connecting[k] /\ ~Ended(k) /\ <<k, "F">> \notin Round
      /\ <<k, "R">> \notin Round /\ <<k, "W">> \notin Round
  <2>1. k \notin Outgoing
    BY BevAssumption
  <2>. QED  BY <1>1, <1>2, <2>1 DEF ConnOK, ListedOK, KindOK, ToldOK
<1>5. BytesOK(k)'
  <2>1. PICK b : b = bev'[k]
    OBVIOUS
  <2>2. Placed(handed[k], written[k], got[k], rx[k], tx[k], flushed[k], Part(k),
               Rest(k), sent[k], b, peer[k])
    BY <1>1, <1>2, PlacedBev DEF ConnOK, BytesOK
  <2>. QED  BY <1>1, <1>2, <1>3, <2>1, <2>2 DEF BytesOK, dataVars, sockVars
<1>6. CASE /\ bev' = [bev EXCEPT ![k] = "open"]
           /\ pending' = [pending EXCEPT ![k] = <<"W", "R">>]
           /\ UNCHANGED active
  <2>1. LoopTyped' /\ BevTyped'
    BY <1>1, <1>2, <1>6, Listed DEF LoopTyped, BevTyped, Bevs
  <2>2. Round' = Round /\ RoundOK'
    BY <1>1, <1>2, <1>6 DEF Round, RoundOK
  <2>3. ASSUME NEW j \in Conns \ {k}  PROVE Same(j)
    BY <1>1, <1>2, <1>3, <1>6, <2>2 DEF Same, BevTyped, dataVars, sockVars
  <2>4. bev'[k] = "open" /\ pending'[k] = <<"W", "R">>
    BY <1>1, <1>6 DEF BevTyped
  <2>5. ListedOK(k)' /\ KindOK(k)' /\ NetworkOK(k)'
    BY <1>1, <1>2, <1>4, <2>2, <2>4, BevAssumption, Listed
       DEF ConnOK, ListedOK, KindOK, NetworkOK, dataVars, sockVars
  <2>6. ToldOK(k)' /\ WatchedOK(k)'
    BY <1>1, <1>2, <1>4, <2>4, Listed
       DEF ConnOK, ToldOK, WatchedOK, Ended, dataVars, sockVars
  <2>7. ConnOK(k)'
    BY <1>5, <2>4, <2>5, <2>6 DEF ConnOK
  <2>. QED  BY <1>3, <2>1, <2>2, <2>3, <2>7, OneConnection
<1>7. CASE /\ bev' = [bev EXCEPT ![k] = "closing"]
           /\ active' = Append(active, <<k, "F">>)
           /\ UNCHANGED pending
  <2>1. /\ active' \in Rounds /\ Lists(active', Members(active'))
        /\ Members(active') = Round \cup {<<k, "F">>}
    <3>1. <<k, "F">> \in Callbacks
      BY <1>1 DEF Callbacks
    <3>2. active \in Seq(Callbacks) /\ Lists(active, Members(active))
      BY <1>1, Zenon DEF LoopTyped, Rounds, RoundOK, Round
    <3>. QED  BY <1>4, <1>7, <3>1, <3>2, RoundEnters, Zenon DEF Rounds, Round
  <2>2. LoopTyped' /\ BevTyped'
    BY <1>1, <1>2, <1>7, <2>1 DEF LoopTyped, BevTyped, Bevs
  <2>3. Round' = Round \cup {<<k, "F">>} /\ RoundOK'
    BY <1>2, <2>1 DEF Round, RoundOK
  <2>4. ASSUME NEW j \in Conns \ {k}  PROVE Same(j)
    BY <1>1, <1>2, <1>3, <1>7, <2>3 DEF Same, BevTyped, dataVars, sockVars
  <2>5. bev'[k] = "closing" /\ pending'[k] = <<>>
    BY <1>1, <1>4, <1>7 DEF BevTyped
  <2>6. ListedOK(k)' /\ KindOK(k)' /\ NetworkOK(k)'
    BY <1>1, <1>2, <1>4, <2>3, <2>5, BevAssumption
       DEF ConnOK, ListedOK, KindOK, NetworkOK, dataVars, sockVars
  <2>7. ToldOK(k)' /\ WatchedOK(k)'
    BY <1>1, <1>2, <1>4, <2>5, Listed
       DEF ConnOK, ToldOK, WatchedOK, Ended, dataVars, sockVars
  <2>8. ConnOK(k)'
    BY <1>5, <2>5, <2>6, <2>7 DEF ConnOK
  <2>. QED  BY <1>3, <2>2, <2>3, <2>4, <2>8, OneConnection
<1>. QED  BY <1>6, <1>7 DEF SyinxKernel_Listen_CB

LEMMA KeptSConnect_Connect ==
  ASSUME BevInv, NEW k \in Outgoing, SConnect_Connect(k)
  PROVE  BevInv'
<1>1. ConnOK(k) /\ LoopTyped /\ BevTyped /\ SockTyped /\ RoundOK /\ k \in Conns
  BY DEF BevInv, Conns
<1>2. /\ loop = "out" /\ bev[k] = "none"
      /\ bev' = [bev EXCEPT ![k] = "open"]
      /\ pending' = [pending EXCEPT ![k] = <<"R", "W">>]
      /\ connecting' = [connecting EXCEPT ![k] = TRUE]
      /\ peer' = [peer EXCEPT ![k] = "syn"]
      /\ UNCHANGED <<loopVars, connection_refused, told, dataVars, sent, rx, fin,
                     so_error, tx, got>>
  BY DEF SConnect_Connect
<1>3. /\ LoopTyped' /\ BevTyped' /\ DataTyped' /\ SockTyped' /\ RoundOK'
      /\ Round' = Round
      /\ \A j \in Conns : Part(j)' = Part(j) /\ Rest(j)' = Rest(j)
  <2>1. LoopTyped' /\ RoundOK' /\ Round' = Round
        /\ \A j \in Conns : Part(j)' = Part(j) /\ Rest(j)' = Rest(j)
    BY <1>1, <1>2 DEF LoopTyped, RoundOK, Round, Part, Rest, loopVars
  <2>2. BevTyped'
    BY <1>1, <1>2, Listed DEF BevTyped, Bevs
  <2>3. DataTyped' /\ SockTyped'
    BY <1>1, <1>2 DEF BevInv, DataTyped, SockTyped, Peers, dataVars
  <2>. QED  BY <2>1, <2>2, <2>3
<1>4. ASSUME NEW j \in Conns \ {k}  PROVE Same(j)
  BY <1>1, <1>2, <1>3 DEF Same, BevTyped, SockTyped, dataVars
<1>5. /\ bev'[k] = "open" /\ pending'[k] = <<"R", "W">> /\ connecting'[k]
      /\ peer'[k] = "syn"
  BY <1>1, <1>2 DEF BevTyped, SockTyped
<1>6. /\ k \notin Accepted /\ peer[k] = "none" /\ told[k] = <<>> /\ ~Ended(k)
      /\ <<k, "F">> \notin Round /\ <<k, "R">> \notin Round /\ <<k, "W">> \notin Round
      /\ written[k] = <<>> /\ tx[k] = <<>> /\ so_error[k] = "none"
      /\ ~connection_refused[k]
  <2>1. k \notin Accepted
    BY BevAssumption
  <2>2. /\ peer[k] = "none" /\ told[k] = <<>> /\ written[k] = <<>> /\ tx[k] = <<>>
        /\ <<k, "F">> \notin Round /\ <<k, "R">> \notin Round /\ <<k, "W">> \notin Round
        /\ ~connection_refused[k]
    BY <1>1, <1>2 DEF ConnOK, ListedOK, KindOK, NetworkOK, ToldOK
  <2>3. so_error[k] = "none"
    BY <1>1, <2>2 DEF ConnOK, NetworkOK, SockTyped, Errors
  <2>. QED  BY <2>1, <2>2, <2>3, Listed DEF Ended
<1>7. ConnOK(k)'
  <2>1. ListedOK(k)' /\ KindOK(k)' /\ NetworkOK(k)'
    BY <1>1, <1>2, <1>3, <1>5, <1>6, Listed
       DEF ConnOK, ListedOK, KindOK, NetworkOK, dataVars
  <2>2. ToldOK(k)' /\ WatchedOK(k)'
    BY <1>1, <1>2, <1>5, <1>6, Listed DEF ConnOK, ToldOK, WatchedOK, Ended, dataVars
  <2>3. Placed(handed[k], written[k], got[k], rx[k], tx[k], flushed[k], Part(k),
               Rest(k), sent[k], "open", "syn")
    <3>1. Placed(handed[k], written[k], got[k], rx[k], tx[k], flushed[k], Part(k),
                 Rest(k), sent[k], "open", peer[k])
      BY <1>1, <1>2, PlacedBev DEF ConnOK, BytesOK
    <3>. QED  BY <3>1, PlacedGone
  <2>4. BytesOK(k)'
    BY <1>1, <1>2, <1>3, <1>5, <2>3 DEF BytesOK, dataVars
  <2>. QED  BY <2>1, <2>2, <2>4 DEF ConnOK
<1>. QED  BY <1>1, <1>3, <1>4, <1>7, OneConnection

-----------------------------------------------------------------------------
(* event_base_loop begins a round, or returns.                             *)

LEMMA AllConnections ==
  ASSUME BevInv, RoundOK', LoopTyped', BevTyped', DataTyped', SockTyped',
         \A j \in Conns : ConnOK(j)'
  PROVE  BevInv'
<1>1. (\A j \in Conns : ConnOK(j))'
  BY DEF Conns
<1>. QED  BY <1>1 DEF BevInv

LEMMA KeptSkip ==
  ASSUME BevInv, Skip
  PROVE  BevInv'
<1>1. /\ loop = "out" /\ loop' = "round"
      /\ UNCHANGED <<active, left, copied, bevVars, dataVars, sockVars>>
  BY DEF Skip
<1>2. /\ LoopTyped' /\ BevTyped' /\ DataTyped' /\ SockTyped'
  BY <1>1 DEF BevInv, LoopTyped, BevTyped, DataTyped, SockTyped, bevVars,
              dataVars, sockVars
<1>3. RoundOK' /\ Round' = Round
  BY <1>1 DEF BevInv, RoundOK, Round
<1>4. ASSUME NEW j \in Conns  PROVE Same(j)
  BY <1>1, <1>3 DEF Same, Part, Rest, bevVars, dataVars, sockVars
<1>5. \A j \in Conns : ConnOK(j)'
  BY <1>4, SameKept DEF BevInv
<1>. QED  BY <1>2, <1>3, <1>5, AllConnections

(* What is ready is finite.                                                *)
LEMMA FiredFinite == IsFiniteSet(Fired)
<1>1. IsFiniteSet(Conns)
  BY BevAssumption DEF Conns
<1>2. IsFiniteSet({"R", "W"})
  <2>1. {"R", "W"} = {"R"} \cup {"W"}
    OBVIOUS
  <2>2. IsFiniteSet({"R"}) /\ IsFiniteSet({"W"})
    BY FS_Singleton, Zenon
  <2>3. IsFiniteSet({"R"} \cup {"W"})
    BY <2>2, FS_Union, Zenon
  <2>. QED  BY <2>1, <2>3, Zenon
<1>3. IsFiniteSet(Conns \X {"R", "W"})
  BY <1>1, <1>2, FS_Product
<1>4. Fired \in SUBSET (Conns \X {"R", "W"})
  BY DEF Fired
<1>. QED  BY <1>3, <1>4, FS_Subset

(* A poll lists what is ready, and only that.                              *)
LEMMA FiredListed ==
  ASSUME NEW q \in SetToSeqs(Fired)
  PROVE  /\ q \in Rounds /\ Lists(q, Members(q)) /\ Members(q) \subseteq Fired
<1>1. IsFiniteSet(Fired)
  BY FiredFinite
<1>2. PICK n : n = Cardinality(Fired)
  OBVIOUS
<1>3. n \in Nat
  BY <1>1, <1>2, FS_CardinalityType
<1>4. q \in [1 .. n -> Fired] /\ \A i, j \in 1 .. n : i # j => q[i] # q[j]
  BY <1>2 DEF SetToSeqs
<1>5. Fired \subseteq Callbacks
  BY DEF Fired, Callbacks
<1>6. q \in Seq(Callbacks)
  BY <1>3, <1>4, <1>5
<1>7. Members(q) \subseteq Fired /\ Lists(q, Members(q))
  BY <1>4 DEF Members, Lists
<1>. QED  BY <1>6, <1>7, Zenon DEF Rounds

LEMMA KeptPoll ==
  ASSUME BevInv, Poll
  PROVE  BevInv'
<1>1. /\ loop = "round" /\ active = <<>>
      /\ UNCHANGED <<left, copied, bevVars, dataVars, sockVars>>
  BY DEF Poll
<1>2. BevTyped' /\ DataTyped' /\ SockTyped'
  BY <1>1 DEF BevInv, BevTyped, DataTyped, SockTyped, bevVars, dataVars, sockVars
<1>3. CASE Fired = {} /\ loop' = "out" /\ UNCHANGED active
  <2>1. LoopTyped' /\ RoundOK' /\ Round' = Round
    BY <1>1, <1>3 DEF BevInv, LoopTyped, RoundOK, Round
  <2>2. ASSUME NEW j \in Conns  PROVE Same(j)
    BY <1>1, <1>3, <2>1 DEF Same, Part, Rest, bevVars, dataVars, sockVars
  <2>3. \A j \in Conns : ConnOK(j)'
    BY <2>2, SameKept DEF BevInv
  <2>. QED  BY <1>2, <2>1, <2>3, AllConnections
<1>4. CASE /\ \E q \in SetToSeqs(Fired) : SocketBySocket(q) /\ active' = q
           /\ UNCHANGED loop
  <2>1. PICK q \in SetToSeqs(Fired) : active' = q
    BY <1>4
  <2>2. q \in Rounds /\ Lists(q, Members(q)) /\ Members(q) \subseteq Fired
    BY FiredListed
  <2>3. LoopTyped'
    BY <1>1, <1>4, <2>1, <2>2 DEF BevInv, LoopTyped
  <2>4. Round' = Members(q) /\ RoundOK' /\ Round = {}
    BY <1>1, <1>4, <2>1, <2>2 DEF Round, RoundOK, Members
  <2>5. ASSUME NEW j \in Conns  PROVE ConnOK(j)'
    <3>1. ConnOK(j)
      BY DEF BevInv
    <3>2. ListedOK(j)'
      <4>1. ASSUME NEW e, <<j, e>> \in Fired
            PROVE  /\ e \in {"R", "W"} /\ Contains(pending[j], e)
                   /\ e = "W" => peer[j] # "syn"
        BY <4>1 DEF Fired, Writeable
      <4>2. bev[j] # "closing" /\ (bev[j] # "open" => \A e : ~Contains(pending[j], e))
        BY <2>4, <3>1, Listed DEF ConnOK, ListedOK
      <4>. QED  BY <1>1, <2>2, <2>4, <3>1, <4>1, <4>2
                   DEF ConnOK, ListedOK, bevVars, sockVars
    <3>3. KindOK(j)' /\ NetworkOK(j)' /\ ToldOK(j)' /\ WatchedOK(j)'
      BY <1>1, <3>1 DEF ConnOK, KindOK, NetworkOK, ToldOK, WatchedOK, Ended,
                        bevVars, dataVars, sockVars
    <3>4. Part(j)' = Part(j) /\ Rest(j)' = Rest(j)
      BY <1>1, <1>4 DEF Part, Rest
    <3>5. BytesOK(j)'
      BY <1>1, <3>1, <3>4 DEF ConnOK, BytesOK, bevVars, dataVars, sockVars
    <3>. QED  BY <3>2, <3>3, <3>5 DEF ConnOK
  <2>. QED  BY <1>2, <2>3, <2>4, <2>5, AllConnections
<1>. QED  BY <1>3, <1>4 DEF Poll

-----------------------------------------------------------------------------
(* A frame of TCPRun.                                                      *)

LEMMA EchoEnds ==
  ASSUME NEW w \in Nat, NEW h \in Nat, w <= h
  PROVE  Smaller(h, w + BUFFSIZE) \in w .. h
BY BevAssumption DEF Smaller

(* What a client's channel echoes once more, if anything.                  *)
LEMMA LastEcho ==
  ASSUME BevInv, NEW k \in Conns
  PROVE  /\ Placed(handed[k], Echoed(k), got[k], rx[k], tx[k], flushed[k], Part(k),
                   Rest(k), sent[k], bev[k], peer[k])
         /\ Echoed(k) \in Bytes
         /\ \/ Echoed(k) = written[k]
            \/ \E n \in Len(written[k]) + 1 .. Len(handed[k]) :
                 Echoed(k) = SubSeq(handed[k], 1, n)
<1>1. PICK h, w, m : /\ h = handed[k] /\ w = written[k]
                     /\ m = Smaller(Len(h), Len(w) + BUFFSIZE)
  OBVIOUS
<1>2. PICK v : v = SubSeq(h, 1, m)
  OBVIOUS
<1>3. Echoed(k) = v
  BY <1>1, <1>2, Zenon DEF Echoed
<1>4. Placed(h, w, got[k], rx[k], tx[k], flushed[k], Part(k), Rest(k), sent[k],
             bev[k], peer[k])
  BY <1>1, Zenon DEF BevInv, ConnOK, BytesOK
<1>5. m \in Len(w) .. Len(h) /\ Len(w) \in Nat /\ Len(h) \in Nat
  <2>1. w \in Bytes /\ h \in Bytes /\ Len(w) <= Len(h)
    BY <1>4, Zenon DEF Placed
  <2>2. Len(w) \in Nat /\ Len(h) \in Nat
    BY <2>1, BytesLen, Zenon
  <2>. QED  BY <1>1, <2>1, <2>2, EchoEnds, Zenon
<1>6. /\ Placed(h, v, got[k], rx[k], tx[k], flushed[k], Part(k), Rest(k), sent[k],
                bev[k], peer[k])
      /\ v \in Bytes /\ (m = Len(w) => v = w)
  BY <1>2, <1>4, <1>5, PlacedEchoed
<1>7. m # Len(w) => m \in Len(w) + 1 .. Len(h)
  BY <1>5
<1>. QED  BY <1>1, <1>2, <1>3, <1>6, <1>7, Zenon

LEMMA TwoInRow ==
  ASSUME NEW a, NEW b
  PROVE  <<a>> \o <<b>> = <<a, b>>
<1>0. PICK S : a \in S /\ b \in S
  <2>1. a \in {a, b} /\ b \in {a, b}
    OBVIOUS
  <2>. QED  BY <2>1
<1>1. PICK q, r : q = <<a>> /\ r = <<b>>
  OBVIOUS
<1>2. /\ q \in Seq(S) /\ r \in Seq(S) /\ Len(q) = 1 /\ Len(r) = 1
      /\ q[1] = a /\ r[1] = b
  BY <1>0, <1>1
<1>3. PICK t : t = q \o r
  OBVIOUS
<1>4. /\ t \in Seq(S) /\ Len(t) = Len(q) + Len(r)
      /\ \A i \in 1 .. Len(q) + Len(r) :
           t[i] = IF i <= Len(q) THEN q[i] ELSE r[i - Len(q)]
  BY <1>2, <1>3, ConcatProperties, Zenon
<1>5. t \in Seq(S) /\ Len(t) = 2 /\ t[1] = a /\ t[2] = b
  BY <1>2, <1>4
<1>6. t = <<a, b>>
  BY <1>5
<1>. QED  BY <1>1, <1>3, <1>6

(* bufferevent_socket_outbuf_cb adds ev_write, if anything.                *)
LEMMA OutbufAdds ==
  ASSUME NEW k \in Conns, pending[k] \in Lists5, NEW n
  PROVE  /\ outbuf_cb(k, n) \in Lists5
         /\ Contains(outbuf_cb(k, n), "R") <=> Contains(pending[k], "R")
         /\ Contains(outbuf_cb(k, n), "W") <=> Contains(pending[k], "W") \/ n > 0
<1>1. PICK q : q = pending[k]
  OBVIOUS
<1>2. PICK r : r = outbuf_cb(k, n)
  OBVIOUS
<1>3. r = IF n > 0 /\ ~Contains(q, "W") THEN <<"W">> \o q ELSE q
  BY <1>1, <1>2, Zenon DEF outbuf_cb
<1>4. CASE n > 0 /\ ~Contains(q, "W")
  <2>1. q = <<>> \/ q = <<"R">>
    <3>1. Contains(<<"W">>, "W")
      BY DEF Contains
    <3>. QED  BY <1>1, <1>4, <3>1, Listed DEF Lists5
  <2>2. ~Contains(<<"W">>, "R") /\ Contains(<<"R">>, "R") /\ Contains(<<"W">>, "W")
    BY DEF Contains
  <2>3. CASE q = <<>>
    <3>1. r = <<"W">>
      BY <1>3, <1>4, <2>3
    <3>. QED  BY <1>1, <1>2, <1>4, <2>2, <2>3, <3>1, Listed, Zenon DEF Lists5
  <2>4. CASE q = <<"R">>
    <3>1. r = <<"W", "R">>
      <4>1. <<"W">> \o <<"R">> = <<"W", "R">>
        BY TwoInRow, Zenon
      <4>. QED  BY <1>3, <1>4, <2>4, <4>1, Zenon

    <3>. QED  BY <1>1, <1>2, <1>4, <2>2, <2>4, <3>1, Listed, Zenon DEF Lists5
  <2>. QED  BY <2>1, <2>3, <2>4
<1>5. CASE ~(n > 0 /\ ~Contains(q, "W"))
  BY <1>1, <1>2, <1>3, <1>5, Zenon
<1>. QED  BY <1>4, <1>5


LEMMA KeptFrame ==
  ASSUME BevInv, Frame
  PROVE  BevInv'
<1>1. /\ loop = "out" /\ loop' = "round"
      /\ UNCHANGED <<active, left, copied, bev, connecting, connection_refused,
                     told, handed, flushed, sockVars>>
  BY DEF Frame
<1>2. /\ LoopTyped' /\ RoundOK' /\ Round' = Round /\ Round = {}
      /\ \A j \in Conns : Part(j)' = Part(j) /\ Rest(j)' = Rest(j)
  BY <1>1 DEF BevInv, LoopTyped, RoundOK, Round, Members, Part, Rest
<1>3. BevTyped /\ DataTyped /\ SockTyped' /\ \A j \in Conns : ConnOK(j)
  BY <1>1 DEF BevInv, SockTyped, sockVars
<1>4. ASSUME NEW j \in Conns
      PROVE  /\ written'[j] \in Bytes /\ pending'[j] \in Lists5 /\ ConnOK(j)'
  <2>1. CASE j \in Served
    <3>1. PICK e, n : e = Echoed(j) /\ n = Len(Echoed(j)) - Len(written[j])
      OBVIOUS
    <3>2. written'[j] = e /\ pending'[j] = outbuf_cb(j, n)
      BY <2>1, <3>1, Zenon DEF Frame
    <3>3. PICK h, w, m : /\ h = handed[j] /\ w = written[j]
                         /\ m = Smaller(Len(h), Len(w) + BUFFSIZE)
      OBVIOUS
    <3>4. Placed(h, w, got[j], rx[j], tx[j], flushed[j], Part(j), Rest(j), sent[j],
                 bev[j], peer[j])
      BY <1>3, <3>3, Zenon DEF ConnOK, BytesOK
    <3>5. m \in Len(w) .. Len(h) /\ Len(w) \in Nat
      <4>1. Len(w) \in Nat /\ Len(h) \in Nat /\ Len(w) <= Len(h)
        BY <3>4, PlacedNumbers, Zenon DEF Placed
      <4>. QED  BY <3>3, <4>1, EchoEnds, Zenon
    <3>6. e = SubSeq(h, 1, m)
      BY <3>1, <3>3, Zenon DEF Echoed
    <3>7. /\ Placed(h, e, got[j], rx[j], tx[j], flushed[j], Part(j), Rest(j),
                    sent[j], bev[j], peer[j])
          /\ e \in Bytes /\ Len(e) = m /\ (m = Len(w) => e = w)
      BY <3>4, <3>5, <3>6, PlacedEchoed, ZenonT(60)
    <3>8. e # w => n > 0
      <4>1. n = m - Len(w)
        BY <3>1, <3>3, <3>7, Zenon
      <4>. QED  BY <3>5, <3>7, <4>1
    <3>9. /\ pending'[j] \in Lists5
          /\ Contains(pending'[j], "R") <=> Contains(pending[j], "R")
          /\ Contains(pending'[j], "W") <=> Contains(pending[j], "W") \/ n > 0
      BY <1>3, <3>2, OutbufAdds DEF BevTyped
    <3>10. bev[j] = "open" /\ j \in Accepted /\ j \notin Outgoing
      BY <2>1, BevAssumption DEF Served
    <3>11. ListedOK(j)' /\ KindOK(j)' /\ NetworkOK(j)'
      BY <1>1, <1>2, <1>3, <3>10 DEF ConnOK, ListedOK, KindOK, NetworkOK, sockVars
    <3>12. ToldOK(j)' /\ WatchedOK(j)'
      BY <1>1, <1>3, <3>2, <3>3, <3>8, <3>9
         DEF ConnOK, ToldOK, WatchedOK, Ended, sockVars
    <3>13. BytesOK(j)'
      BY <1>1, <1>2, <3>2, <3>3, <3>7 DEF BytesOK, sockVars
    <3>. QED  BY <3>2, <3>7, <3>9, <3>11, <3>12, <3>13 DEF ConnOK
  <2>2. CASE j \notin Served
    <3>1. written'[j] = written[j] /\ pending'[j] = pending[j]
      BY <2>2 DEF Frame
    <3>2. Same(j)
      BY <1>1, <1>2, <3>1 DEF Same, sockVars
    <3>. QED  BY <1>3, <3>1, <3>2, SameKept DEF BevTyped, DataTyped
  <2>. QED  BY <2>1, <2>2
<1>5. BevTyped' /\ DataTyped'
  <2>1. /\ written' = [j \in Conns |-> written'[j]]
        /\ pending' = [j \in Conns |-> pending'[j]]
    BY DEF Frame
  <2>2. written' \in [Conns -> Bytes] /\ pending' \in [Conns -> Lists5]
    BY <1>4, <2>1
  <2>. QED  BY <1>1, <1>3, <2>2 DEF BevTyped, DataTyped
<1>. QED  BY <1>2, <1>3, <1>4, <1>5, AllConnections

-----------------------------------------------------------------------------
(* A callback returns.                                                     *)

LEMMA HeadDone ==
  ASSUME BevInv, NEW k \in Conns, NEW e, active # <<>>, Head(active) = <<k, e>>,
         loop' = "round",
         \/ active' = Tail(active)
         \/ active' = Without(Tail(active), {<<k, e>>})
  PROVE  /\ <<k, e>> \in Round /\ Round' = Round \ {<<k, e>>}
         /\ active' \in Rounds /\ RoundOK'
         /\ \A j \in Conns : Part(j)' = 0 /\ Rest(j)' = 0
<1>1. /\ <<k, e>> \in Round
      /\ active' \in Seq(Callbacks) /\ Lists(active', Members(active'))
      /\ Members(active') = Round \ {<<k, e>>}
  <2>1. TypeOK /\ RoundOK
    BY Typed DEF BevInv
  <2>2. CASE active' = Tail(active)
    BY <2>1, <2>2, HeadReturns, Zenon
  <2>3. CASE active' = Without(Tail(active), {<<k, e>>})
    BY <2>1, <2>3, HeadReturns, Zenon
  <2>. QED  BY <2>2, <2>3
<1>2. Round' = Round \ {<<k, e>>}
  BY <1>1, Zenon DEF Round
<1>3. RoundOK'
  BY <1>1 DEF RoundOK, Round
<1>4. \A j \in Conns : Part(j)' = 0 /\ Rest(j)' = 0
  BY DEF Part, Rest
<1>. QED  BY <1>1, <1>2, <1>3, <1>4, Zenon DEF Rounds

LEMMA HeadCancels ==
  ASSUME BevInv, NEW k \in Conns, NEW e, active # <<>>, Head(active) = <<k, e>>,
         loop' = "round", active' = Others(k)
  PROVE  /\ <<k, e>> \in Round /\ Round' = Round \ Its(k)
         /\ active' \in Rounds /\ RoundOK'
         /\ \A j \in Conns : Part(j)' = 0 /\ Rest(j)' = 0
<1>1. /\ <<k, e>> \in Round
      /\ active' \in Seq(Callbacks) /\ Lists(active', Members(active'))
      /\ Members(active') = Round \ Its(k)
  <2>1. TypeOK /\ RoundOK
    BY Typed DEF BevInv
  <2>. QED  BY <2>1, HeadReturns, Zenon
<1>2. Round' = Round \ Its(k)
  BY <1>1, Zenon DEF Round
<1>3. RoundOK'
  BY <1>1 DEF RoundOK, Round
<1>4. \A j \in Conns : Part(j)' = 0 /\ Rest(j)' = 0
  BY DEF Part, Rest
<1>. QED  BY <1>1, <1>2, <1>3, <1>4, Zenon DEF Rounds

LEMMA HeadFinalizes ==
  ASSUME BevInv, NEW k \in Conns, NEW e, active # <<>>, Head(active) = <<k, e>>,
         loop' = "round", active' = Append(Others(k), <<k, "F">>)
  PROVE  /\ <<k, e>> \in Round /\ Round' = (Round \ Its(k)) \cup {<<k, "F">>}
         /\ active' \in Rounds /\ RoundOK'
         /\ \A j \in Conns : Part(j)' = 0 /\ Rest(j)' = 0
<1>1. /\ <<k, e>> \in Round
      /\ active' \in Seq(Callbacks) /\ Lists(active', Members(active'))
      /\ Members(active') = (Round \ Its(k)) \cup {<<k, "F">>}
  <2>1. TypeOK /\ RoundOK
    BY Typed DEF BevInv
  <2>. QED  BY <2>1, HeadReturns, Zenon
<1>2. Round' = (Round \ Its(k)) \cup {<<k, "F">>}
  BY <1>1, Zenon DEF Round
<1>3. RoundOK'
  BY <1>1 DEF RoundOK, Round
<1>4. \A j \in Conns : Part(j)' = 0 /\ Rest(j)' = 0
  BY DEF Part, Rest
<1>. QED  BY <1>1, <1>2, <1>3, <1>4, Zenon DEF Rounds

LEMMA OutsideWritev ==
  ASSUME loop = "round"
  PROVE  \A j \in Conns : Part(j) = 0 /\ Rest(j) = 0
BY DEF Part, Rest

(* The end of a connection is told.                                        *)
LEMMA KeptEnds ==
  ASSUME BevInv, NEW k \in Conns, NEW e \in {"R", "W"}, NEW w \in {"eof", "error"},
         Runs(k, e), Ends(k, e, w), loop' = loop,
         UNCHANGED <<left, copied, connecting, connection_refused, handed, flushed,
                     sent, rx, fin, tx, got, peer>>,
         \/ so_error' = so_error
         \/ so_error' = [so_error EXCEPT ![k] = "none"],
         e = "W" => k \in Accepted,
         k \in Outgoing => /\ so_error'[k] = "none" /\ ~connection_refused[k]
                           /\ peer[k] \in {"closed", "absent"}
  PROVE  BevInv' /\ ~Ended(k)
<1>1. /\ ConnOK(k) /\ LoopTyped /\ BevTyped /\ DataTyped /\ SockTyped
      /\ k \in Accepted <=> k \notin Outgoing
  BY BevAssumption DEF BevInv, Conns
<1>2. /\ loop = "round" /\ active # <<>> /\ Head(active) = <<k, e>>
  BY DEF Runs
<1>3. <<k, e>> \in Round
  <2>1. TypeOK /\ RoundOK
    BY Typed DEF BevInv
  <2>. QED  BY <1>2, <2>1, HeadReturns, Zenon
<1>4. bev[k] = "open" /\ Contains(pending[k], e) /\ ~Ended(k)
  BY <1>1, <1>3 DEF ConnOK, ListedOK, ToldOK
<1>5. PICK t : t = Append(told[k], w)
  OBVIOUS
<1>6. /\ t \in Tolds /\ t # <<>> /\ EndIn(t) /\ OneEnd(t)
      /\ t[1] = "connected" => told[k] # <<>> /\ told[k][1] = "connected"
  <2>1. told[k] \in Seq(Whats) /\ w \in Whats /\ OneEnd(told[k]) /\ ~EndIn(told[k])
        /\ w # "connected"
    BY <1>1, <1>4 DEF BevTyped, Tolds, Whats, ConnOK, ToldOK, Ended, EndIn
  <2>2. /\ t \in Seq(Whats) /\ t # <<>>
        /\ EndIn(t) <=> EndIn(told[k]) \/ w # "connected"
        /\ told[k] # <<>> => t[1] = told[k][1]
        /\ told[k] = <<>> => t[1] = w
        /\ OneEnd(told[k]) /\ (~EndIn(told[k]) \/ w = "connected") => OneEnd(t)
    BY <1>5, <2>1, Tells, Zenon
  <2>. QED  BY <2>1, <2>2, Zenon DEF Tolds
<1>7. told' = [told EXCEPT ![k] = t]
  BY <1>5, Zenon DEF Ends, Tell
<1>8. told'[k] = t /\ SockTyped' /\ told' \in [Conns -> Tolds]
  <2>1. told'[k] = t /\ told' \in [Conns -> Tolds]
    BY <1>1, <1>6, <1>7 DEF BevTyped
  <2>. QED  BY <1>1, <2>1 DEF SockTyped, Errors
<1>9. \A j \in Conns : Part(j) = 0 /\ Rest(j) = 0
  BY <1>2, OutsideWritev
<1>10. /\ NetworkOK(k)'
       /\ so_error'[k] \in {so_error[k], "none"}
  BY <1>1 DEF ConnOK, NetworkOK, SockTyped
<1>11. CASE k \in Accepted
  <2>1. /\ bev' = [bev EXCEPT ![k] = "closing"]
        /\ pending' = [pending EXCEPT ![k] = <<>>]
        /\ active' = Append(Others(k), <<k, "F">>)
        /\ written' = [written EXCEPT ![k] = Echoed(k)]
    BY <1>11 DEF Ends, bufferevent_free
  <2>2. /\ Round' = (Round \ Its(k)) \cup {<<k, "F">>}
        /\ active' \in Rounds /\ RoundOK'
        /\ \A j \in Conns : Part(j)' = 0 /\ Rest(j)' = 0
    BY <1>2, <2>1, HeadFinalizes
  <2>3. LoopTyped' /\ BevTyped'
    BY <1>1, <1>8, <2>1, <2>2, Listed DEF LoopTyped, BevTyped, Bevs
  <2>11. PICK v : v = Echoed(k)
    OBVIOUS
  <2>12. /\ v \in Bytes
         /\ Placed(handed[k], v, got[k], rx[k], tx[k], flushed[k], Part(k), Rest(k),
                   sent[k], bev[k], peer[k])
    BY <2>11, LastEcho, Zenon
  <2>13. written' = [written EXCEPT ![k] = v]
    BY <2>1, <2>11, Zenon
  <2>14. DataTyped' /\ written'[k] = v
    BY <1>1, <2>12, <2>13 DEF DataTyped
  <2>4. ASSUME NEW j \in Conns \ {k}  PROVE Same(j)
    BY <1>1, <1>7, <1>9, <2>1, <2>2, <2>13
       DEF Same, BevTyped, DataTyped, SockTyped, Its
  <2>5. bev'[k] = "closing" /\ pending'[k] = <<>>
    BY <1>1, <2>1 DEF BevTyped
  <2>6. ListedOK(k)' /\ KindOK(k)'
    BY <1>1, <1>4, <1>11, <2>2, <2>5 DEF ConnOK, ListedOK, KindOK, Its
  <2>7. ToldOK(k)' /\ WatchedOK(k)'
    <3>1. ~connecting[k]
      BY <1>1, <1>11 DEF ConnOK, KindOK
    <3>. QED  BY <1>1, <1>6, <1>8, <1>11, <2>5, <3>1, Listed
              DEF ConnOK, KindOK, ToldOK, WatchedOK
  <2>8. Placed(handed[k], v, got[k], rx[k], tx[k], flushed[k], Part(k), Rest(k),
               sent[k], "closing", peer[k])
    BY <1>4, <2>12, PlacedBev
  <2>9. BytesOK(k)'
    BY <1>9, <2>2, <2>5, <2>8, <2>14 DEF BytesOK
  <2>10. ConnOK(k)'
    BY <1>10, <2>6, <2>7, <2>9 DEF ConnOK
  <2>. QED  BY <1>4, <1>8, <2>2, <2>3, <2>4, <2>10, <2>14, OneConnection
<1>12. CASE k \in Outgoing
  <2>1. /\ UNCHANGED <<bev, written>> /\ e = "R"
        /\ pending' = [pending EXCEPT ![k] = Without(@, {e})]
        /\ active' = Without(Tail(active), {<<k, e>>})
    BY <1>1, <1>12 DEF Ends, DeleteOne
  <2>2. /\ Round' = Round \ {<<k, e>>} /\ active' \in Rounds /\ RoundOK'
        /\ \A j \in Conns : Part(j)' = 0 /\ Rest(j)' = 0
    BY <1>2, <2>1, HeadDone
  <2>3. PICK q : q = Without(pending[k], {e})
    OBVIOUS
  <2>4. q \in Lists5 /\ \A f : Contains(q, f) <=> Contains(pending[k], f) /\ f # e
    BY <1>1, <2>3, PendingWithout DEF BevTyped
  <2>5. pending' = [pending EXCEPT ![k] = q]
    BY <2>1, <2>3, Zenon
  <2>6. LoopTyped' /\ BevTyped'
    BY <1>1, <1>8, <2>1, <2>2, <2>4, <2>5 DEF LoopTyped, BevTyped
  <2>13. DataTyped'
    BY <1>1, <2>1 DEF DataTyped
  <2>7. ASSUME NEW j \in Conns \ {k}  PROVE Same(j)
    BY <1>1, <1>7, <1>9, <2>1, <2>2, <2>5 DEF Same, BevTyped, SockTyped
  <2>8. pending'[k] = q
    BY <1>1, <2>5 DEF BevTyped
  <2>9. ListedOK(k)' /\ KindOK(k)'
    BY <1>1, <1>4, <1>12, <2>1, <2>2, <2>4, <2>8
       DEF ConnOK, ListedOK, KindOK
  <2>10. ToldOK(k)' /\ WatchedOK(k)'
    BY <1>1, <1>6, <1>8, <1>12, <2>1, <2>4, <2>8
       DEF ConnOK, ToldOK, WatchedOK, Ended, EndIn
  <2>11. BytesOK(k)'
    BY <1>1, <1>9, <2>1, <2>2 DEF ConnOK, BytesOK
  <2>12. ConnOK(k)'
    BY <1>10, <2>9, <2>10, <2>11 DEF ConnOK
  <2>. QED  BY <1>4, <1>8, <2>2, <2>6, <2>7, <2>12, <2>13, OneConnection
<1>. QED  BY <1>1, <1>11, <1>12

-----------------------------------------------------------------------------
(* readcb.                                                                 *)

LEMMA SmallerOf ==
  ASSUME NEW m \in Nat, NEW n \in Nat
  PROVE  Smaller(m, n) \in 0 .. m /\ Smaller(m, n) <= n
         /\ (m > 0 /\ n > 0 => Smaller(m, n) > 0)
BY DEF Smaller

LEMMA KeptReadData ==
  ASSUME BevInv, NEW k \in Conns, ReadData(k)
  PROVE  BevInv' /\ ~Ended(k)
<1>1. ConnOK(k) /\ LoopTyped /\ BevTyped /\ DataTyped /\ SockTyped
  BY DEF BevInv
<1>2. /\ loop = "round" /\ active # <<>> /\ Head(active) = <<k, "R">>
      /\ rx[k] # <<>> /\ active' = Tail(active)
      /\ UNCHANGED <<pending, loop, left, copied, bev, connecting,
                     connection_refused, told, written, flushed, sent, fin,
                     so_error, tx, got, peer>>
  BY DEF ReadData, Runs, KeepBoth
<1>3. /\ <<k, "R">> \in Round /\ Round' = Round \ {<<k, "R">>}
      /\ active' \in Rounds /\ RoundOK'
      /\ \A j \in Conns : Part(j)' = 0 /\ Rest(j)' = 0
  BY <1>2, HeadDone
<1>4. bev[k] = "open" /\ ~Ended(k) /\ \A j \in Conns : Part(j) = 0 /\ Rest(j) = 0
  BY <1>1, <1>2, <1>3, OutsideWritev DEF ConnOK, ListedOK, ToldOK
<1>5. PICK n : n = Smaller(Len(rx[k]), MaxRead)
  OBVIOUS
<1>6. PICK h, r : h = handed[k] \o SubSeq(rx[k], 1, n) /\ r = Drop(rx[k], n)
  OBVIOUS
<1>7. n \in 0 .. Len(rx[k])
  <2>1. Len(rx[k]) \in Nat /\ MaxRead \in Nat
    BY <1>1, BevAssumption, BytesLen DEF SockTyped
  <2>. QED  BY <1>5, <2>1, SmallerOf, Zenon
<1>8. Placed(h, written[k], got[k], r, tx[k], flushed[k], Part(k),
             Rest(k), sent[k], bev[k], peer[k]) /\ h \in Bytes /\ r \in Bytes
  BY <1>1, <1>4, <1>6, <1>7, PlacedRead DEF ConnOK, BytesOK
<1>9. handed' = [handed EXCEPT ![k] = h] /\ rx' = [rx EXCEPT ![k] = r]
  BY <1>5, <1>6, Zenon DEF ReadData
<1>10. LoopTyped' /\ BevTyped' /\ DataTyped' /\ SockTyped'
  BY <1>1, <1>2, <1>3, <1>8, <1>9 DEF LoopTyped, BevTyped, DataTyped, SockTyped
<1>11. ASSUME NEW j \in Conns \ {k}  PROVE Same(j)
  BY <1>1, <1>2, <1>3, <1>4, <1>9 DEF Same, DataTyped, SockTyped
<1>12. ConnOK(k)'
  <2>1. handed'[k] = h /\ rx'[k] = r
    BY <1>1, <1>9 DEF DataTyped, SockTyped
  <2>2. ListedOK(k)' /\ KindOK(k)' /\ NetworkOK(k)'
    BY <1>1, <1>2, <1>3 DEF ConnOK, ListedOK, KindOK, NetworkOK
  <2>3. ToldOK(k)' /\ WatchedOK(k)'
    BY <1>1, <1>2 DEF ConnOK, ToldOK, WatchedOK, Ended
  <2>4. BytesOK(k)'
    BY <1>2, <1>3, <1>4, <1>8, <2>1 DEF BytesOK
  <2>. QED  BY <2>2, <2>3, <2>4 DEF ConnOK
<1>. QED  BY <1>3, <1>4, <1>10, <1>11, <1>12, OneConnection

LEMMA KeptReadError ==
  ASSUME BevInv, NEW k \in Conns, ReadError(k)
  PROVE  BevInv'
<1>1. /\ ConnOK(k) /\ LoopTyped /\ BevTyped /\ SockTyped
      /\ k \in Accepted <=> k \notin Outgoing
  BY BevAssumption DEF BevInv, Conns
<1>2. /\ Runs(k, "R") /\ so_error[k] # "none"
      /\ so_error' = [so_error EXCEPT ![k] = "none"]
      /\ UNCHANGED <<loop, left, copied, connecting, handed, flushed, sent, rx, fin,
                     tx, got, peer>>
      /\ so_error'[k] = "none"
  BY <1>1 DEF ReadError, SockTyped
<1>3. CASE so_error[k] = "ECONNREFUSED"
  <2>1. /\ connection_refused' = [connection_refused EXCEPT ![k] = TRUE]
        /\ active' = Tail(active) /\ UNCHANGED <<pending, bev, told, written>>
        /\ loop = "round" /\ active # <<>> /\ Head(active) = <<k, "R">>
    BY <1>2, <1>3 DEF ReadError, KeepBoth, Runs
  <2>2. /\ <<k, "R">> \in Round /\ Round' = Round \ {<<k, "R">>}
        /\ active' \in Rounds /\ RoundOK'
        /\ \A j \in Conns : Part(j)' = 0 /\ Rest(j)' = 0
    BY <1>2, <2>1, HeadDone
  <2>3. \A j \in Conns : Part(j) = 0 /\ Rest(j) = 0
    BY <2>1, OutsideWritev
  <2>4. LoopTyped' /\ BevTyped' /\ DataTyped' /\ SockTyped'
    BY <1>1, <1>2, <2>1, <2>2
       DEF BevInv, LoopTyped, BevTyped, DataTyped, SockTyped, Errors, dataVars
  <2>5. ASSUME NEW j \in Conns \ {k}  PROVE Same(j)
    BY <1>1, <1>2, <2>1, <2>2, <2>3 DEF Same, BevTyped, SockTyped, dataVars
  <2>6. connection_refused'[k]
    BY <1>1, <2>1 DEF BevTyped
  <2>7. ListedOK(k)' /\ KindOK(k)' /\ NetworkOK(k)'
    BY <1>1, <1>2, <1>3, <2>1, <2>2, <2>6
       DEF ConnOK, ListedOK, KindOK, NetworkOK, dataVars
  <2>8. ToldOK(k)' /\ WatchedOK(k)'
    BY <1>1, <1>2, <1>3, <2>1, <2>6 DEF ConnOK, ToldOK, WatchedOK, Ended, dataVars
  <2>9. BytesOK(k)'
    BY <1>1, <1>2, <2>1, <2>2, <2>3 DEF ConnOK, BytesOK, dataVars
  <2>10. ConnOK(k)'
    BY <2>7, <2>8, <2>9 DEF ConnOK
  <2>. QED  BY <2>2, <2>4, <2>5, <2>10, OneConnection
<1>4. CASE so_error[k] # "ECONNREFUSED"
  <2>1. Ends(k, "R", "error") /\ UNCHANGED connection_refused
    BY <1>4 DEF ReadError
  <2>2. ~connection_refused[k] /\ peer[k] \in {"closed", "absent"}
    BY <1>1, <1>2 DEF ConnOK, NetworkOK, SockTyped, Errors
  <2>. QED  BY <1>2, <2>1, <2>2, KeptEnds
<1>. QED  BY <1>3, <1>4

LEMMA KeptReadEOF ==
  ASSUME BevInv, NEW k \in Conns, ReadEOF(k)
  PROVE  BevInv' /\ ~Ended(k)
<1>1. ConnOK(k)
  BY DEF BevInv
<1>2. /\ Runs(k, "R") /\ so_error[k] = "none" /\ fin[k] /\ Ends(k, "R", "eof")
      /\ UNCHANGED <<loop, left, copied, connecting, connection_refused, handed,
                     flushed, sent, rx, fin, so_error, tx, got, peer>>
  BY DEF ReadEOF, sockVars
<1>3. ~connection_refused[k] /\ peer[k] = "closed"
  BY <1>1, <1>2 DEF ConnOK, NetworkOK
<1>. QED  BY <1>2, <1>3, KeptEnds

-----------------------------------------------------------------------------
(* writecb.                                                                *)

LEMMA PlacedEmpty ==
  ASSUME NEW h, NEW w, NEW g, NEW r, NEW x, NEW f, NEW p, NEW l, NEW s,
         NEW b, NEW e, Placed(h, w, g, r, x, f, p, l, s, b, e), w = <<>>
  PROVE  f = Len(w)
BY PlacedNumbers, BytesLen DEF Placed

LEMMA KeptConnectFailed ==
  ASSUME BevInv, NEW k \in Conns, ConnectFailed(k)
  PROVE  BevInv' /\ ~Ended(k)
<1>1. /\ ConnOK(k) /\ LoopTyped /\ BevTyped /\ SockTyped
      /\ k \in Accepted <=> k \notin Outgoing
  BY BevAssumption DEF BevInv, Conns
<1>2. /\ loop = "round" /\ active # <<>> /\ Head(active) = <<k, "W">>
      /\ connecting[k] /\ (so_error[k] # "none" \/ connection_refused[k])
      /\ so_error' = [so_error EXCEPT ![k] = "none"]
      /\ connection_refused' = [connection_refused EXCEPT ![k] = FALSE]
      /\ connecting' = [connecting EXCEPT ![k] = FALSE]
      /\ pending' = [pending EXCEPT ![k] = <<>>] /\ active' = Others(k)
      /\ UNCHANGED <<loop, left, copied, bev, dataVars, sent, rx, fin, tx, got,
                     peer>>
  BY DEF ConnectFailed, Runs, DeleteBoth
<1>3. /\ <<k, "W">> \in Round /\ Round' = Round \ Its(k)
      /\ active' \in Rounds /\ RoundOK'
      /\ \A j \in Conns : Part(j)' = 0 /\ Rest(j)' = 0
  BY <1>2, HeadCancels
<1>4. /\ k \in Outgoing /\ ~Ended(k) /\ peer[k] \in {"closed", "absent"}
      /\ bev[k] = "open" /\ \A j \in Conns : Part(j) = 0 /\ Rest(j) = 0
  <2>1. k \in Outgoing /\ ~Ended(k) /\ bev[k] = "open"
    BY <1>1, <1>2 DEF ConnOK, KindOK, ToldOK
  <2>2. peer[k] \in {"closed", "absent"}
    BY <1>1, <1>2 DEF ConnOK, NetworkOK, SockTyped, Errors
  <2>. QED  BY <1>2, <2>1, <2>2, OutsideWritev
<1>5. PICK t : t = Append(told[k], "error")
  OBVIOUS
<1>6. /\ t \in Tolds /\ t # <<>> /\ EndIn(t) /\ OneEnd(t)
      /\ t[1] = "connected" => told[k] # <<>> /\ told[k][1] = "connected"
  <2>1. told[k] \in Seq(Whats) /\ "error" \in Whats /\ OneEnd(told[k]) /\ ~EndIn(told[k])
        /\ "error" # "connected"
    BY <1>1, <1>4 DEF BevTyped, Tolds, Whats, ConnOK, ToldOK, Ended, EndIn
  <2>2. /\ t \in Seq(Whats) /\ t # <<>>
        /\ EndIn(t) <=> EndIn(told[k]) \/ "error" # "connected"
        /\ told[k] # <<>> => t[1] = told[k][1]
        /\ told[k] = <<>> => t[1] = "error"
        /\ OneEnd(told[k]) /\ (~EndIn(told[k]) \/ "error" = "connected") => OneEnd(t)
    BY <1>5, <2>1, Tells, Zenon
  <2>. QED  BY <2>1, <2>2, Zenon DEF Tolds
<1>7. told' = [told EXCEPT ![k] = t]
  BY <1>5, Zenon DEF ConnectFailed, Tell
<1>8. LoopTyped' /\ BevTyped' /\ DataTyped' /\ SockTyped'
  BY <1>1, <1>2, <1>3, <1>6, <1>7, Listed
     DEF BevInv, LoopTyped, BevTyped, DataTyped, SockTyped, Errors, dataVars
<1>9. ASSUME NEW j \in Conns \ {k}  PROVE Same(j)
  BY <1>1, <1>2, <1>3, <1>4, <1>7 DEF Same, BevTyped, SockTyped, dataVars, Its
<1>10. ConnOK(k)'
  <2>1. /\ told'[k] = t /\ pending'[k] = <<>> /\ ~connecting'[k]
        /\ ~connection_refused'[k] /\ so_error'[k] = "none"
    BY <1>1, <1>2, <1>7 DEF BevTyped, SockTyped
  <2>2. flushed[k] = Len(written[k])
    BY <1>1, <1>4, PlacedEmpty DEF ConnOK, KindOK, BytesOK
  <2>3. ListedOK(k)' /\ KindOK(k)' /\ NetworkOK(k)'
    BY <1>1, <1>2, <1>3, <1>4, <2>1
       DEF ConnOK, ListedOK, KindOK, NetworkOK, dataVars, Its
  <2>4. ToldOK(k)' /\ WatchedOK(k)'
    BY <1>1, <1>2, <1>4, <1>6, <2>1, <2>2, Listed
       DEF ConnOK, ToldOK, WatchedOK, Ended, EndIn, dataVars
  <2>5. BytesOK(k)'
    BY <1>1, <1>2, <1>3, <1>4 DEF ConnOK, BytesOK, dataVars
  <2>. QED  BY <2>3, <2>4, <2>5 DEF ConnOK
<1>. QED  BY <1>3, <1>4, <1>8, <1>9, <1>10, OneConnection

LEMMA KeptConnected ==
  ASSUME BevInv, NEW k \in Conns, Connected(k)
  PROVE  BevInv' /\ k \in Outgoing /\ peer[k] \in {"open", "closed", "absent"}
<1>1. /\ ConnOK(k) /\ LoopTyped /\ BevTyped /\ SockTyped
      /\ k \in Accepted <=> k \notin Outgoing
  BY BevAssumption DEF BevInv, Conns
<1>2. /\ loop = "round" /\ active # <<>> /\ Head(active) = <<k, "W">>
      /\ connecting[k] /\ so_error[k] = "none" /\ ~connection_refused[k]
      /\ connecting' = [connecting EXCEPT ![k] = FALSE]
      /\ pending' = [pending EXCEPT ![k] = Without(@, {"W"})]
      /\ active' = Without(Tail(active), {<<k, "W">>})
      /\ UNCHANGED <<loop, left, copied, bev, connection_refused, dataVars, sockVars>>
  BY DEF Connected, Runs, DeleteOne
<1>3. /\ <<k, "W">> \in Round /\ Round' = Round \ {<<k, "W">>}
      /\ active' \in Rounds /\ RoundOK'
      /\ \A j \in Conns : Part(j)' = 0 /\ Rest(j)' = 0
  BY <1>2, HeadDone
<1>4. /\ k \in Outgoing /\ peer[k] \in {"open", "closed", "absent"}
      /\ bev[k] = "open" /\ \A j \in Conns : Part(j) = 0 /\ Rest(j) = 0
  <2>1. k \in Outgoing /\ bev[k] = "open" /\ peer[k] # "syn"
    BY <1>1, <1>2, <1>3 DEF ConnOK, KindOK, ListedOK
  <2>2. peer[k] \in {"open", "closed", "absent"}
    BY <1>1, <2>1 DEF ConnOK, KindOK, SockTyped, Peers
  <2>. QED  BY <1>2, <2>1, <2>2, OutsideWritev
<1>5. PICK t : t = Append(told[k], "connected")
  OBVIOUS
<1>6. /\ t \in Tolds /\ t # <<>> /\ OneEnd(t)
      /\ EndIn(t) <=> EndIn(told[k])
      /\ told[k] # <<>> => t[1] = told[k][1]
  <2>1. told[k] \in Seq(Whats) /\ "connected" \in Whats /\ OneEnd(told[k])
    BY <1>1 DEF BevTyped, Tolds, Whats, ConnOK, ToldOK
  <2>2. /\ t \in Seq(Whats) /\ t # <<>>
        /\ EndIn(t) <=> EndIn(told[k]) \/ "connected" # "connected"
        /\ told[k] # <<>> => t[1] = told[k][1]
        /\ OneEnd(told[k]) /\ (~EndIn(told[k]) \/ "connected" = "connected") => OneEnd(t)
    BY <1>5, <2>1, Tells, Zenon
  <2>. QED  BY <2>1, <2>2, Zenon DEF Tolds
<1>7. told' = [told EXCEPT ![k] = t]
  BY <1>5, Zenon DEF Connected, Tell
<1>8. PICK q : q = Without(pending[k], {"W"})
  OBVIOUS
<1>9. q \in Lists5 /\ \A f : Contains(q, f) <=> Contains(pending[k], f) /\ f # "W"
  BY <1>1, <1>8, PendingWithout DEF BevTyped
<1>10. pending' = [pending EXCEPT ![k] = q]
  BY <1>2, <1>8, Zenon
<1>11. LoopTyped' /\ BevTyped' /\ DataTyped' /\ SockTyped'
  BY <1>1, <1>2, <1>3, <1>6, <1>7, <1>9, <1>10
     DEF BevInv, LoopTyped, BevTyped, DataTyped, SockTyped, dataVars, sockVars
<1>12. ASSUME NEW j \in Conns \ {k}  PROVE Same(j)
  BY <1>1, <1>2, <1>3, <1>4, <1>7, <1>10 DEF Same, BevTyped, dataVars, sockVars
<1>13. ConnOK(k)'
  <2>1. told'[k] = t /\ pending'[k] = q /\ ~connecting'[k]
    BY <1>1, <1>2, <1>7, <1>10 DEF BevTyped
  <2>2. flushed[k] = Len(written[k])
    BY <1>1, <1>4, PlacedEmpty DEF ConnOK, KindOK, BytesOK
  <2>3. ListedOK(k)' /\ KindOK(k)' /\ NetworkOK(k)'
    BY <1>1, <1>2, <1>3, <1>4, <1>9, <2>1
       DEF ConnOK, ListedOK, KindOK, NetworkOK, dataVars, sockVars
  <2>4. ToldOK(k)' /\ WatchedOK(k)'
    BY <1>1, <1>2, <1>4, <1>6, <1>9, <2>1, <2>2
       DEF ConnOK, ToldOK, WatchedOK, Ended, EndIn, dataVars, sockVars
  <2>5. BytesOK(k)'
    BY <1>1, <1>2, <1>3, <1>4 DEF ConnOK, BytesOK, dataVars, sockVars
  <2>. QED  BY <2>3, <2>4, <2>5 DEF ConnOK
<1>. QED  BY <1>3, <1>4, <1>11, <1>12, <1>13, OneConnection

(* writecb returns: m bytes were copied, x is on its way to the peer.      *)
LEMMA KeptWritten ==
  ASSUME BevInv, NEW k \in Conns, NEW x, NEW f,
         ~connecting[k], k \in Outgoing => x = tx[k],
         active # <<>>, Head(active) = <<k, "W">>, loop' = "round",
         \/ f = Len(written[k]) /\ DeleteOne(k, "W")
         \/ f # Len(written[k]) /\ KeepBoth,
         tx' = [tx EXCEPT ![k] = x], flushed' = [flushed EXCEPT ![k] = f],
         Placed(handed[k], written[k], got[k], rx[k], x, f, 0, 0, sent[k], bev[k],
                peer[k]),
         f \in 0 .. MaxSend, left' \in 0 .. MaxWrite, copied' \in 0 .. MaxWrite,
         UNCHANGED <<bev, connecting, connection_refused, told, handed, written,
                     sent, rx, fin, so_error, got, peer>>
  PROVE  BevInv'
<1>1. ConnOK(k) /\ LoopTyped /\ BevTyped /\ DataTyped /\ SockTyped
  BY DEF BevInv
<1>2. PICK q : /\ q \in Lists5 /\ pending' = [pending EXCEPT ![k] = q]
               /\ Contains(q, "R") <=> Contains(pending[k], "R")
               /\ f # Len(written[k]) => q = pending[k]
  <2>1. CASE f = Len(written[k]) /\ DeleteOne(k, "W")
    <3>1. PICK q : q = Without(pending[k], {"W"})
      OBVIOUS
    <3>2. q \in Lists5 /\ \A e : Contains(q, e) <=> Contains(pending[k], e) /\ e # "W"
      BY <1>1, <3>1, PendingWithout DEF BevTyped
    <3>3. pending' = [pending EXCEPT ![k] = q]
      BY <2>1, <3>1, Zenon DEF DeleteOne
    <3>. QED  BY <2>1, <3>2, <3>3
  <2>2. CASE f # Len(written[k]) /\ KeepBoth
    <3>1. pending' = [pending EXCEPT ![k] = pending[k]] /\ pending[k] \in Lists5
      BY <1>1, <2>2 DEF KeepBoth, BevTyped
    <3>. QED  BY <3>1
  <2>. QED  BY <2>1, <2>2
<1>3. /\ <<k, "W">> \in Round /\ Round' = Round \ {<<k, "W">>}
      /\ active' \in Rounds /\ RoundOK'
      /\ \A j \in Conns : Part(j)' = 0 /\ Rest(j)' = 0
  <2>1. active' = Tail(active) \/ active' = Without(Tail(active), {<<k, "W">>})
    BY DEF DeleteOne, KeepBoth
  <2>. QED  BY <2>1, HeadDone
<1>4. \A j \in Conns \ {k} : Part(j) = 0 /\ Rest(j) = 0
  BY DEF Part, Rest
<1>5. x \in Bytes
  BY DEF Placed
<1>6. LoopTyped' /\ BevTyped' /\ DataTyped' /\ SockTyped'
  BY <1>1, <1>2, <1>3, <1>5 DEF LoopTyped, BevTyped, DataTyped, SockTyped
<1>7. ASSUME NEW j \in Conns \ {k}  PROVE Same(j)
  BY <1>1, <1>2, <1>3, <1>4 DEF Same, BevTyped, DataTyped, SockTyped
<1>8. ConnOK(k)'
  <2>1. tx'[k] = x /\ flushed'[k] = f /\ pending'[k] = q
    BY <1>1, <1>2 DEF BevTyped, DataTyped, SockTyped
  <2>2. bev[k] = "open" /\ Contains(pending[k], "W")
    BY <1>1, <1>3 DEF ConnOK, ListedOK
  <2>3. ListedOK(k)' /\ KindOK(k)' /\ NetworkOK(k)'
    BY <1>1, <1>2, <1>3, <2>1, <2>2 DEF ConnOK, ListedOK, KindOK, NetworkOK
  <2>4. ToldOK(k)' /\ WatchedOK(k)'
    BY <1>1, <1>2, <2>1, <2>2 DEF ConnOK, ToldOK, WatchedOK, Ended
  <2>5. BytesOK(k)'
    BY <1>3, <2>1 DEF BytesOK
  <2>. QED  BY <2>3, <2>4, <2>5 DEF ConnOK
<1>. QED  BY <1>3, <1>6, <1>7, <1>8, OneConnection


LEMMA KeptWriteNothing ==
  ASSUME BevInv, NEW k \in Conns, WriteNothing(k)
  PROVE  BevInv'
<1>1. ConnOK(k) /\ LoopTyped /\ DataTyped /\ SockTyped /\ TypeOK
  BY Typed DEF BevInv
<1>2. /\ loop = "round" /\ active # <<>> /\ Head(active) = <<k, "W">>
      /\ ~connecting[k] /\ output(k) = <<>> /\ DeleteOne(k, "W")
      /\ UNCHANGED <<loop, left, copied, bev, connecting, connection_refused, told,
                     handed, written, flushed, sent, rx, fin, so_error, tx, got,
                     peer>>
  BY DEF WriteNothing, Runs, dataVars, sockVars
<1>3. flushed[k] = Len(written[k])
  BY <1>1, <1>2, Output
<1>4. PICK x, f : x = tx[k] /\ f = flushed[k]
  OBVIOUS
<1>5. tx' = [tx EXCEPT ![k] = x] /\ flushed' = [flushed EXCEPT ![k] = f]
  BY <1>1, <1>2, <1>4 DEF DataTyped, SockTyped
<1>6. Placed(handed[k], written[k], got[k], rx[k], x, f, 0, 0, sent[k], bev[k],
             peer[k])
  BY <1>1, <1>2, <1>4, OutsideWritev DEF ConnOK, BytesOK
<1>7. f \in 0 .. MaxSend /\ left' \in 0 .. MaxWrite /\ copied' \in 0 .. MaxWrite
  BY <1>1, <1>2, <1>4 DEF DataTyped, LoopTyped
<1>. QED  BY <1>2, <1>3, <1>4, <1>5, <1>6, <1>7, KeptWritten

(* The writev goes on or begins to block: c bytes are copied, l are left.  *)
LEMMA KeptCopying ==
  ASSUME BevInv, NEW k \in Accepted, NEW x, NEW c, NEW l,
         active # <<>>, Head(active) = <<k, "W">>, loop' = "writev",
         left' = l, copied' = c, l > 0, c + l <= MaxWrite, l \in Nat, c \in Nat,
         tx' = [tx EXCEPT ![k] = x],
         Placed(handed[k], written[k], got[k], rx[k], x, flushed[k], c, l, sent[k],
                bev[k], peer[k]),
         UNCHANGED <<active, pending, flushed, bev, connecting, connection_refused,
                     told, handed, written, sent, rx, fin, so_error, got, peer>>
  PROVE  BevInv'
<1>1. /\ ConnOK(k) /\ LoopTyped /\ BevTyped /\ DataTyped /\ SockTyped /\ RoundOK
      /\ k \in Conns /\ k \notin Outgoing
  BY BevAssumption DEF BevInv, Conns
<1>2. Round' = Round /\ RoundOK'
  BY <1>1 DEF Round, RoundOK
<1>3. /\ \A j \in Conns \ {k} : /\ Part(j) = 0 /\ Rest(j) = 0
                               /\ Part(j)' = 0 /\ Rest(j)' = 0
      /\ Part(k)' = c /\ Rest(k)' = l
  BY DEF Part, Rest
<1>4. left' \in 0 .. MaxWrite /\ copied' \in 0 .. MaxWrite /\ x \in Bytes
  <2>1. x \in Bytes
    BY Zenon DEF Placed
  <2>. QED  BY <2>1, BevAssumption
<1>5. LoopTyped' /\ BevTyped' /\ DataTyped' /\ SockTyped'
  BY <1>1, <1>4 DEF LoopTyped, BevTyped, DataTyped, SockTyped
<1>6. ASSUME NEW j \in Conns \ {k}  PROVE Same(j)
  BY <1>1, <1>2, <1>3 DEF Same, SockTyped
<1>7. ConnOK(k)'
  <2>1. tx'[k] = x
    BY <1>1 DEF SockTyped
  <2>2. ListedOK(k)' /\ KindOK(k)' /\ NetworkOK(k)'
    BY <1>1, <1>2, <2>1 DEF ConnOK, ListedOK, KindOK, NetworkOK
  <2>3. ToldOK(k)' /\ WatchedOK(k)'
    BY <1>1 DEF ConnOK, ToldOK, WatchedOK, Ended
  <2>4. BytesOK(k)'
    BY <1>3, <2>1 DEF BytesOK
  <2>. QED  BY <2>2, <2>3, <2>4 DEF ConnOK
<1>. QED  BY <1>1, <1>2, <1>5, <1>6, <1>7, OneConnection

LEMMA WriteSizes ==
  ASSUME NEW o \in Nat \ {0}, NEW room \in Nat, NEW want, NEW n,
         want = Smaller(o, MaxWrite), n = Smaller(want, room)
  PROVE  /\ want \in 1 .. o /\ want <= MaxWrite /\ want \in Nat
         /\ n \in 0 .. want /\ n <= room /\ n \in Nat
<1>1. MaxWrite \in Nat /\ MaxWrite > 0
  BY BevAssumption
<1>2. want \in Nat /\ want > 0 /\ want <= o /\ want <= MaxWrite
  <2>1. CASE o < MaxWrite
    BY <1>1, <2>1 DEF Smaller
  <2>2. CASE ~(o < MaxWrite)
    BY <1>1, <2>2 DEF Smaller
  <2>. QED  BY <2>1, <2>2
<1>3. n \in Nat /\ n <= want /\ n <= room
  <2>1. CASE want < room
    BY <1>2, <2>1 DEF Smaller
  <2>2. CASE ~(want < room)
    BY <1>2, <2>2 DEF Smaller
  <2>. QED  BY <2>1, <2>2
<1>. QED  BY <1>2, <1>3

(* Only clients are written to.                                            *)
LEMMA ToClients ==
  ASSUME BevInv, NEW k \in Conns, output(k) # <<>>
  PROVE  k \in Accepted /\ k \notin Outgoing
<1>1. flushed[k] # Len(written[k])
  BY Typed, Output
<1>2. k \notin Outgoing
  BY <1>1, PlacedEmpty DEF BevInv, ConnOK, KindOK, BytesOK
<1>. QED  BY <1>2 DEF Conns

LEMMA KeptWritev ==
  ASSUME BevInv, NEW k \in Conns, Writev(k)
  PROVE  BevInv'
<1>1. ConnOK(k) /\ LoopTyped /\ DataTyped /\ SockTyped /\ TypeOK
  BY Typed DEF BevInv
<1>2. /\ loop = "round" /\ active # <<>> /\ Head(active) = <<k, "W">>
      /\ ~connecting[k] /\ output(k) # <<>>
      /\ UNCHANGED <<bev, connecting, connection_refused, told, handed,
                     written, sent, rx, fin, so_error, got, peer>>
  BY DEF Writev, Runs
<1>3. k \in Accepted /\ k \notin Outgoing
  BY <1>2, ToClients
<1>4. PICK w, f, x, o, room :
        /\ w = written[k] /\ f = flushed[k] /\ x = tx[k] /\ o = Len(output(k))
        /\ room = Room(k)
  OBVIOUS
<1>5. Placed(handed[k], w, got[k], rx[k], x, f, 0, 0, sent[k], bev[k], peer[k])
  BY <1>1, <1>2, <1>4, OutsideWritev DEF ConnOK, BytesOK
<1>6. /\ Len(w) \in Nat /\ Len(x) \in Nat /\ f \in Nat /\ SndBuf \in Nat
      /\ f + 0 + 0 <= Len(w) /\ Len(x) <= SndBuf
  BY <1>5, PlacedNumbers, Zenon DEF Placed
<1>7. room = SndBuf - Len(x) /\ o = Len(w) - f /\ o # 0
  <2>1. room = SndBuf - Len(x)
    BY <1>4, Zenon DEF Room
  <2>2. o = Len(w) - f /\ f # Len(w)
    BY <1>1, <1>2, <1>4, Output, Zenon
  <2>. QED  BY <1>6, <2>1, <2>2
<1>8. o \in Nat \ {0} /\ room \in Nat
  BY <1>6, <1>7
<1>9. PICK want : want = Smaller(o, MaxWrite)
  OBVIOUS
<1>10. PICK n : n = Smaller(want, room)
  OBVIOUS
<1>11. /\ want \in 1 .. o /\ want <= MaxWrite /\ want \in Nat
       /\ n \in 0 .. want /\ n <= room /\ n \in Nat
  BY <1>8, <1>9, <1>10, WriteSizes, Zenon
<1>12. PICK y : y = x \o SubSeq(Drop(w, f), 0 + 1, 0 + n)
  OBVIOUS
<1>13. /\ tx' = [tx EXCEPT ![k] = y]
       /\ \/ n = want /\ Written(k, n) /\ UNCHANGED <<loop, left, copied>>
          \/ /\ n < want
             /\ loop' = "writev" /\ left' = want - n /\ copied' = n
             /\ UNCHANGED <<active, pending, flushed>>
  BY <1>4, <1>9, <1>10, <1>12, Zenon DEF Writev, Copy, output
<1>14. PICK m : m = want - n
  OBVIOUS
<1>15. /\ m \in Nat /\ f + 0 + n + m <= Len(w) /\ n <= SndBuf - Len(x)
       /\ 0 + n = n /\ n + m = want /\ (n < want => m > 0)
  BY <1>6, <1>7, <1>11, <1>14
<1>16. Placed(handed[k], w, got[k], rx[k], y, f, n, m, sent[k], bev[k], peer[k])
  <2>1. bev[k] # "freed"
    <3>1. <<k, "W">> \in Round
      BY <1>1, <1>2, HeadReturns DEF BevInv
    <3>. QED  BY <1>1, <3>1 DEF ConnOK, ListedOK
  <2>2. Placed(handed[k], w, got[k], rx[k], y, f, 0 + n, m, sent[k], bev[k], peer[k])
    BY <1>5, <1>11, <1>12, <1>15, <2>1, PlacedCopied, Zenon
  <2>. QED  BY <1>15, <2>2, Zenon
<1>17. CASE n = want /\ Written(k, n) /\ UNCHANGED <<loop, left, copied>>
  <2>1. PICK g : g = f + n
    OBVIOUS
  <2>2. /\ Placed(handed[k], w, got[k], rx[k], y, g, 0, 0, sent[k], bev[k], peer[k])
        /\ g \in 0 .. MaxSend
    BY <1>16, <2>1, PlacedFlushed, Zenon
  <2>3. flushed' = [flushed EXCEPT ![k] = g]
    BY <1>4, <1>17, <2>1, Zenon DEF Written
  <2>4. n = o <=> g = Len(w)
    BY <1>6, <1>7, <1>11, <2>1
  <2>5. \/ g = Len(written[k]) /\ DeleteOne(k, "W")
        \/ g # Len(written[k]) /\ KeepBoth
    BY <1>4, <1>17, <2>4, Zenon DEF Written
  <2>6. left' \in 0 .. MaxWrite /\ copied' \in 0 .. MaxWrite /\ loop' = "round"
    BY <1>1, <1>2, <1>17 DEF LoopTyped
  <2>. QED  BY <1>2, <1>3, <1>4, <1>13, <2>2, <2>3, <2>5, <2>6, KeptWritten
<1>18. CASE /\ n < want /\ loop' = "writev" /\ left' = want - n /\ copied' = n
            /\ UNCHANGED <<active, pending, flushed>>
  <2>1. left' = m /\ m > 0 /\ n + m <= MaxWrite
    BY <1>11, <1>14, <1>15, <1>18
  <2>. QED  BY <1>2, <1>3, <1>4, <1>11, <1>13, <1>15, <1>16, <1>18, <2>1, KeptCopying
<1>. QED  BY <1>13, <1>17, <1>18


LEMMA KeptWritevGoesOn ==
  ASSUME BevInv, NEW k \in Conns, WritevGoesOn(k)
  PROVE  BevInv'
<1>1. ConnOK(k) /\ LoopTyped /\ DataTyped /\ SockTyped /\ TypeOK /\ RoundOK
  BY Typed DEF BevInv
<1>2. /\ loop = "writev" /\ Head(active) = <<k, "W">>
      /\ UNCHANGED <<bev, connecting, connection_refused, told, handed,
                     written, sent, rx, fin, so_error, got, peer>>
  BY DEF WritevGoesOn
<1>3. active # <<>> /\ k \in Accepted /\ k \notin Outgoing /\ copied + left <= MaxWrite
      /\ left > 0
  BY <1>1, <1>2, BevAssumption DEF RoundOK
<1>4. bev[k] = "open" /\ ~connecting[k]
  <2>1. <<k, "W">> \in Round
    BY <1>1, <1>2, <1>3, HeadReturns
  <2>. QED  BY <1>1, <1>3, <2>1 DEF ConnOK, ListedOK, KindOK
<1>5. PICK w, f, x, c, l, room :
        /\ w = written[k] /\ f = flushed[k] /\ x = tx[k] /\ c = copied /\ l = left
        /\ room = Room(k)
  OBVIOUS
<1>6. Placed(handed[k], w, got[k], rx[k], x, f, c, l, sent[k], bev[k], peer[k])
  <2>1. Part(k) = c /\ Rest(k) = l
    BY <1>2, <1>5 DEF Part, Rest
  <2>. QED  BY <1>1, <1>5, <2>1, Zenon DEF ConnOK, BytesOK
<1>7. /\ Len(w) \in Nat /\ Len(x) \in Nat /\ f \in Nat /\ SndBuf \in Nat
      /\ c \in Nat /\ l \in Nat /\ MaxWrite \in Nat
      /\ f + c + l <= Len(w) /\ Len(x) <= SndBuf
  BY <1>6, PlacedNumbers DEF Placed
<1>8. room = SndBuf - Len(x) /\ Len(output(k)) = Len(w) - f
  BY <1>1, <1>5, Output, Zenon DEF Room
<1>9. room \in Nat
  BY <1>7, <1>8
<1>10. PICK n : n = Smaller(l, room)
  OBVIOUS
<1>11. n \in 0 .. l /\ n <= room
  BY <1>7, <1>9, <1>10, SmallerOf, Zenon
<1>12. PICK y : y = x \o SubSeq(Drop(w, f), c + 1, c + n)
  OBVIOUS
<1>13. /\ tx' = [tx EXCEPT ![k] = y]
       /\ \/ /\ n = l
             /\ loop' = "round" /\ left' = 0 /\ copied' = 0
             /\ Written(k, c + n)
          \/ /\ n < l
             /\ left' = l - n /\ copied' = c + n
             /\ UNCHANGED <<loop, active, pending, flushed>>
  BY <1>5, <1>10, <1>12, Zenon DEF WritevGoesOn, Copy, output
<1>14. PICK m, d : m = l - n /\ d = c + n
  OBVIOUS
<1>15. /\ n \in Nat /\ m \in Nat /\ d \in Nat /\ f + c + n + m <= Len(w)
       /\ n <= SndBuf - Len(x) /\ d + m = c + l /\ (n < l => m > 0)
  BY <1>7, <1>8, <1>11, <1>14
<1>16. Placed(handed[k], w, got[k], rx[k], y, f, d, m, sent[k], bev[k], peer[k])
  <2>1. bev[k] # "freed"
    BY <1>4
  <2>2. Placed(handed[k], w, got[k], rx[k], y, f, c + n, m, sent[k], bev[k], peer[k])
    BY <1>6, <1>12, <1>15, <2>1, PlacedCopied, Zenon
  <2>. QED  BY <1>14, <2>2, Zenon
<1>17. CASE /\ n = l /\ loop' = "round" /\ left' = 0 /\ copied' = 0
            /\ Written(k, c + n)
  <2>1. PICK g : g = f + d
    OBVIOUS
  <2>2. /\ Placed(handed[k], w, got[k], rx[k], y, g, 0, 0, sent[k], bev[k], peer[k])
        /\ g \in 0 .. MaxSend
    BY <1>16, <2>1, PlacedFlushed, Zenon
  <2>3. flushed' = [flushed EXCEPT ![k] = g]
    BY <1>5, <1>14, <1>17, <2>1, Zenon DEF Written
  <2>4. d = Len(w) - f <=> g = Len(w)
    BY <1>7, <1>15, <2>1
  <2>5. \/ g = Len(written[k]) /\ DeleteOne(k, "W")
        \/ g # Len(written[k]) /\ KeepBoth
    BY <1>5, <1>8, <1>14, <1>17, <2>4, Zenon DEF Written
  <2>6. left' \in 0 .. MaxWrite /\ copied' \in 0 .. MaxWrite /\ loop' = "round"
    BY <1>7, <1>17
  <2>. QED  BY <1>2, <1>3, <1>4, <1>5, <1>13, <2>2, <2>3, <2>5, <2>6, KeptWritten
<1>18. CASE /\ n < l /\ left' = l - n /\ copied' = c + n
            /\ UNCHANGED <<loop, active, pending, flushed>>
  <2>1. left' = m /\ copied' = d /\ m > 0 /\ loop' = "writev"
    BY <1>2, <1>14, <1>15, <1>18
  <2>2. d + m <= MaxWrite
    <3>1. c + l <= MaxWrite
      BY <1>3, <1>5, Zenon
    <3>. QED  BY <1>15, <3>1
  <2>. QED  BY <1>2, <1>3, <1>4, <1>5, <1>13, <1>15, <1>16, <1>18, <2>1, <2>2, KeptCopying
<1>. QED  BY <1>13, <1>17, <1>18

LEMMA KeptWritevCutShort ==
  ASSUME BevInv, NEW k \in Conns, WritevCutShort(k)
  PROVE  BevInv'
<1>1. ConnOK(k) /\ LoopTyped /\ DataTyped /\ SockTyped /\ TypeOK /\ RoundOK
  BY Typed DEF BevInv
<1>2. /\ loop = "writev" /\ Head(active) = <<k, "W">>
      /\ loop' = "round" /\ left' = 0 /\ copied' = 0 /\ Written(k, copied)
      /\ UNCHANGED <<bev, connecting, connection_refused, told, handed,
                     written, sent, rx, fin, so_error, tx, got, peer>>
  BY DEF WritevCutShort, sockVars
<1>3. active # <<>> /\ k \in Accepted /\ k \notin Outgoing
  BY <1>1, <1>2, BevAssumption DEF RoundOK
<1>4. ~connecting[k]
  BY <1>1, <1>3 DEF ConnOK, KindOK
<1>5. PICK w, f, x, c, l :
        /\ w = written[k] /\ f = flushed[k] /\ x = tx[k] /\ c = copied /\ l = left
  OBVIOUS
<1>6. Placed(handed[k], w, got[k], rx[k], x, f, c, l, sent[k], bev[k], peer[k])
  <2>1. Part(k) = c /\ Rest(k) = l
    BY <1>2, <1>5 DEF Part, Rest
  <2>. QED  BY <1>1, <1>5, <2>1, Zenon DEF ConnOK, BytesOK
<1>7. /\ Len(w) \in Nat /\ f \in Nat /\ c \in Nat /\ MaxWrite \in Nat
  BY <1>6, PlacedNumbers DEF Placed
<1>8. Len(output(k)) = Len(w) - f
  BY <1>1, <1>5, Output, Zenon
<1>9. PICK g : g = f + c
  OBVIOUS
<1>10. /\ Placed(handed[k], w, got[k], rx[k], x, g, 0, 0, sent[k], bev[k], peer[k])
       /\ g \in 0 .. MaxSend
  BY <1>6, <1>9, PlacedFlushed, Zenon
<1>11. flushed' = [flushed EXCEPT ![k] = g]
  BY <1>2, <1>5, <1>9, Zenon DEF Written
<1>12. c = Len(w) - f <=> g = Len(w)
  BY <1>7, <1>9
<1>13. \/ g = Len(written[k]) /\ DeleteOne(k, "W")
       \/ g # Len(written[k]) /\ KeepBoth
  BY <1>2, <1>5, <1>8, <1>12, Zenon DEF Written
<1>14. tx' = [tx EXCEPT ![k] = x]
  BY <1>1, <1>2, <1>5 DEF SockTyped
<1>15. left' \in 0 .. MaxWrite /\ copied' \in 0 .. MaxWrite
  BY <1>2, <1>7
<1>. QED  BY <1>2, <1>3, <1>4, <1>5, <1>10, <1>11, <1>13, <1>14, <1>15, KeptWritten


LEMMA KeptWriteError ==
  ASSUME BevInv, NEW k \in Conns, WriteError(k)
  PROVE  BevInv' /\ ~Ended(k)
<1>1. ConnOK(k) /\ LoopTyped /\ BevTyped /\ DataTyped /\ SockTyped /\ RoundOK
  BY DEF BevInv
<1>2. /\ Runs(k, "W") /\ ~connecting[k] /\ output(k) # <<>> /\ so_error[k] # "none"
      /\ so_error' = [so_error EXCEPT ![k] = "none"]
      /\ UNCHANGED <<left, copied, connecting, connection_refused, handed, flushed,
                     sent, rx, fin, tx, got, peer>>
  BY DEF WriteError
<1>3. k \in Accepted /\ k \notin Outgoing
  BY <1>2, ToClients
<1>4. loop = "round" /\ ~Ended(k)
  <2>1. loop = "round" /\ <<k, "W">> \in Round
    BY <1>1, <1>2, Typed, HeadReturns DEF Runs
  <2>. QED  BY <1>1, <1>3, <2>1 DEF ConnOK, ListedOK, ToldOK
<1>5. CASE so_error[k] = "EPIPE"
  <2>1. loop' = "killed" /\ UNCHANGED <<active, bev, pending, told, written>>
    BY <1>5 DEF WriteError
  <2>2. so_error'[k] = "none" /\ SockTyped'
    BY <1>1, <1>2 DEF SockTyped, Errors
  <2>3. LoopTyped' /\ BevTyped' /\ DataTyped' /\ RoundOK' /\ Round' = Round
    BY <1>1, <1>2, <2>1
       DEF LoopTyped, BevTyped, DataTyped, RoundOK, Round, dataVars
  <2>4. \A j \in Conns : Part(j)' = Part(j) /\ Rest(j)' = Rest(j)
    BY <1>4, <2>1 DEF Part, Rest
  <2>5. ASSUME NEW j \in Conns \ {k}  PROVE Same(j)
    BY <1>1, <1>2, <2>1, <2>3, <2>4 DEF Same, SockTyped, dataVars
  <2>6. ConnOK(k)'
    <3>1. ListedOK(k)' /\ KindOK(k)' /\ NetworkOK(k)'
      BY <1>1, <1>2, <2>1, <2>2, <2>3 DEF ConnOK, ListedOK, KindOK, NetworkOK, dataVars
    <3>2. ToldOK(k)' /\ WatchedOK(k)'
      BY <1>1, <1>2, <1>5, <2>1, <2>2
         DEF ConnOK, NetworkOK, ToldOK, WatchedOK, Ended, dataVars
    <3>3. BytesOK(k)'
      BY <1>1, <1>2, <2>1, <2>4 DEF ConnOK, BytesOK, dataVars
    <3>. QED  BY <3>1, <3>2, <3>3 DEF ConnOK
  <2>. QED  BY <1>4, <2>2, <2>3, <2>5, <2>6, OneConnection
<1>6. CASE so_error[k] # "EPIPE"
  <2>1. Ends(k, "W", "error") /\ loop' = loop
    BY <1>6 DEF WriteError
  <2>2. /\ UNCHANGED <<left, copied, connecting, connection_refused, handed, flushed,
                       sent, rx, fin, tx, got, peer>>
        /\ so_error' = [so_error EXCEPT ![k] = "none"]
    BY <1>2
  <2>. QED  BY <1>2, <1>3, <1>4, <2>1, <2>2, KeptEnds
<1>. QED  BY <1>5, <1>6

LEMMA Keptfinalize_cb_ ==
  ASSUME BevInv, NEW k \in Conns, bufferevent_finalize_cb_(k)
  PROVE  BevInv'
<1>1. ConnOK(k) /\ LoopTyped /\ BevTyped /\ DataTyped /\ SockTyped
  BY DEF BevInv
<1>2. /\ loop = "round" /\ active # <<>> /\ Head(active) = <<k, "F">>
      /\ bev' = [bev EXCEPT ![k] = "freed"] /\ active' = Tail(active)
      /\ rx' = [rx EXCEPT ![k] = <<>>]
      /\ UNCHANGED <<loop, left, copied, pending, connecting, connection_refused,
                     told, dataVars, sent, fin, so_error, got, peer>>
  BY DEF bufferevent_finalize_cb_, Runs
<1>3. PICK x \in {tx[k], <<>>} : tx' = [tx EXCEPT ![k] = x]
  <2>1. tx = [tx EXCEPT ![k] = tx[k]]
    BY <1>1 DEF SockTyped
  <2>2. tx' = tx \/ tx' = [tx EXCEPT ![k] = <<>>]
    BY DEF bufferevent_finalize_cb_
  <2>. QED  BY <2>1, <2>2
<1>4. /\ <<k, "F">> \in Round /\ Round' = Round \ {<<k, "F">>}
      /\ active' \in Rounds /\ RoundOK'
      /\ \A j \in Conns : Part(j)' = 0 /\ Rest(j)' = 0
  BY <1>2, HeadDone
<1>5. \A j \in Conns : Part(j) = 0 /\ Rest(j) = 0
  BY <1>2, OutsideWritev
<1>6. /\ bev[k] = "closing" /\ k \notin Outgoing /\ pending[k] = <<>>
      /\ <<k, "R">> \notin Round /\ <<k, "W">> \notin Round
  BY <1>1, <1>4 DEF ConnOK, ListedOK, KindOK
<1>7. LoopTyped' /\ BevTyped' /\ DataTyped' /\ SockTyped'
  <2>1. x \in Bytes
    BY <1>1, <1>3, BytesLen DEF SockTyped
  <2>. QED  BY <1>1, <1>2, <1>3, <1>4, <2>1, BytesLen
            DEF LoopTyped, BevTyped, DataTyped, SockTyped, Bevs, dataVars
<1>8. ASSUME NEW j \in Conns \ {k}  PROVE Same(j)
  BY <1>1, <1>2, <1>3, <1>4, <1>5 DEF Same, BevTyped, SockTyped, dataVars
<1>9. ConnOK(k)'
  <2>1. bev'[k] = "freed" /\ rx'[k] = <<>> /\ tx'[k] = x
    BY <1>1, <1>2, <1>3 DEF BevTyped, SockTyped
  <2>2. ListedOK(k)' /\ KindOK(k)' /\ NetworkOK(k)'
    BY <1>1, <1>2, <1>4, <1>6, <2>1 DEF ConnOK, ListedOK, KindOK, NetworkOK, dataVars
  <2>3. ToldOK(k)' /\ WatchedOK(k)'
    BY <1>1, <1>2, <1>6, <2>1 DEF ConnOK, KindOK, ToldOK, WatchedOK, Ended, dataVars
  <2>4. Placed(handed[k], written[k], got[k], <<>>, x, flushed[k], 0, 0, sent[k],
               "freed", peer[k])
    <3>1. Placed(handed[k], written[k], got[k], rx[k], tx[k], flushed[k], 0, 0, sent[k],
                 bev[k], peer[k])
      BY <1>1, <1>5 DEF ConnOK, BytesOK
    <3>. QED  BY <1>3, <3>1, PlacedFreed
  <2>5. BytesOK(k)'
    BY <1>2, <1>4, <2>1, <2>4 DEF BytesOK, dataVars
  <2>. QED  BY <2>2, <2>3, <2>5 DEF ConnOK
<1>. QED  BY <1>4, <1>7, <1>8, <1>9, OneConnection

-----------------------------------------------------------------------------
(* The invariant.                                                          *)

LEMMA BevInvInit ==
  Init => BevInv
<1>. SUFFICES ASSUME Init  PROVE BevInv
  OBVIOUS
<1>1. LoopTyped
  BY BevAssumption DEF Init, LoopTyped, Rounds
<1>2. BevTyped
  BY Listed DEF Init, BevTyped, Bevs, Tolds
<1>3. DataTyped /\ SockTyped
  BY BytesLen, BevAssumption DEF Init, DataTyped, SockTyped, Errors, Peers
<1>4. Round = {} /\ RoundOK
  BY DEF Init, Round, RoundOK, Members, Lists
<1>5. ASSUME NEW k \in Conns  PROVE ConnOK(k)
  <2>1. ListedOK(k) /\ KindOK(k) /\ NetworkOK(k)
    BY <1>4, BevAssumption DEF Init, ListedOK, KindOK, NetworkOK, Conns
  <2>2. ToldOK(k) /\ WatchedOK(k)
    BY Listed, BevAssumption DEF Init, ToldOK, WatchedOK, Ended, OneEnd
  <2>3. Placed(<<>>, <<>>, <<>>, <<>>, <<>>, 0, 0, 0, 0, "none", peer[k])
    BY BytesLen, BevAssumption DEF Placed
  <2>4. BytesOK(k)
    BY <2>3 DEF Init, BytesOK, Part, Rest
  <2>. QED  BY <2>1, <2>2, <2>4 DEF ConnOK
<1>. QED  BY <1>1, <1>2, <1>3, <1>4, <1>5 DEF BevInv

LEMMA BevInvNext ==
  BevInv /\ [Next]_vars => BevInv'
<1>. SUFFICES ASSUME BevInv, [Next]_vars  PROVE BevInv'
  OBVIOUS
<1>1. CASE Poll
  BY <1>1, KeptPoll
<1>2. CASE Frame
  BY <1>2, KeptFrame
<1>3. CASE Skip
  BY <1>3, KeptSkip
<1>4. ASSUME NEW k \in Conns, ReadCb(k)  PROVE BevInv'
  BY <1>4, KeptReadData, KeptReadError, KeptReadEOF DEF ReadCb
<1>5. ASSUME NEW k \in Conns, WriteCb(k)  PROVE BevInv'
  BY <1>5, KeptConnectFailed, KeptConnected, KeptWriteNothing, KeptWritev,
     KeptWritevGoesOn, KeptWritevCutShort, KeptWriteError DEF WriteCb
<1>6. ASSUME NEW k \in Conns, bufferevent_finalize_cb_(k)  PROVE BevInv'
  BY <1>6, Keptfinalize_cb_
<1>7. ASSUME NEW k \in Conns,
             \/ PeerSend(k) \/ PeerRead(k) \/ PeerClose(k)
             \/ PeerResets(k) \/ PeerAnswers(k)
      PROVE  BevInv'
  BY <1>7, KeptPeerSend, KeptPeerRead, KeptPeerClose, KeptPeerResets, KeptPeerAnswers
<1>8. ASSUME NEW k \in Accepted, SyinxKernel_Listen_CB(k)  PROVE BevInv'
  BY <1>8, KeptListen_CB
<1>9. ASSUME NEW k \in Outgoing, SConnect_Connect(k)  PROVE BevInv'
  BY <1>9, KeptSConnect_Connect
<1>10. CASE UNCHANGED vars
  <2>1. /\ UNCHANGED <<loop, active, left, copied>> /\ UNCHANGED <<bevVars, dataVars, sockVars>>
    BY <1>10 DEF vars, loopVars
  <2>2. /\ LoopTyped' /\ BevTyped' /\ DataTyped' /\ SockTyped' /\ RoundOK'
        /\ Round' = Round
    BY <2>1 DEF BevInv, LoopTyped, BevTyped, DataTyped, SockTyped, RoundOK, Round,
                bevVars, dataVars, sockVars
  <2>3. ASSUME NEW j \in Conns  PROVE Same(j)
    BY <2>1, <2>2 DEF Same, Part, Rest, bevVars, dataVars, sockVars
  <2>4. \A j \in Conns : ConnOK(j)'
    BY <2>3, SameKept DEF BevInv
  <2>. QED  BY <2>2, <2>4, AllConnections
<1>. QED
  BY <1>1, <1>2, <1>3, <1>4, <1>5, <1>6, <1>7, <1>8, <1>9, <1>10 DEF Next, Loop, Env

(* In every reachable state the round holds each callback at most once and *)
(* only of events that are added, every byte is where the last callback    *)
(* left it, and what was told of a connection is true of its peer.         *)
THEOREM BevInvariant == Spec => []BevInv
<1>1. Init => BevInv
  BY BevInvInit
<1>2. BevInv /\ [Next]_vars => BevInv'
  BY BevInvNext
<1>. QED  BY <1>1, <1>2, PTL DEF Spec


(* Every variable keeps its type, through every callback, frame and move   *)
(* of a peer: no more is flushed than was written, no socket takes more    *)
(* than its buffer.                                                        *)
THEOREM BevTypeInvariant == Spec => []TypeOK
<1>1. BevInv => TypeOK
  BY Typed
<1>. QED  BY <1>1, BevInvariant, PTL

(* outbuf_cb, writecb and be_socket_disable keep an event added for all    *)
(* that a bufferevent in use waits for: bytes to write, the answer of a    *)
(* connect, bytes or the end to read.                                      *)
THEOREM BevWaitsAreWatched == Spec => []WaitsAreWatched
<1>1. ASSUME BevInv  PROVE WaitsAreWatched
  <2>1. TypeOK /\ \A k \in Conns : WatchedOK(k)
    BY <1>1, Typed DEF BevInv, ConnOK
  <2>2. \A k \in Conns : output(k) = <<>> <=> flushed[k] = Len(written[k])
    BY <2>1, Output
  <2>. QED  BY <2>1, <2>2, Zenon DEF WatchedOK, WaitsAreWatched
<1>. QED  BY <1>1, BevInvariant, PTL

(* bufferevent_free leaves of a bufferevent exactly its finalizer in the   *)
(* round, whichever of its callbacks called it and whatever else of it was *)
(* to run next; after bufferevent_finalize_cb_ nothing of it runs.         *)
THEOREM BevOnlyTheFinalizer == Spec => []OnlyTheFinalizer
<1>1. ASSUME BevInv  PROVE OnlyTheFinalizer
  <2>1. TypeOK /\ Lists(active, Round) /\ \A k \in Conns : ListedOK(k)
    BY <1>1, Typed DEF BevInv, ConnOK, RoundOK
  <2>2. /\ \A i \in DOMAIN active : active[i] \in Callbacks /\ active[i] \in Round
        /\ \A a \in Round : \E i \in DOMAIN active : active[i] = a
        /\ \A i, j \in DOMAIN active : active[i] = active[j] => i = j
    <3>1. active \in Seq(Callbacks)
      BY <2>1 DEF TypeOK
    <3>. QED  BY <2>1, <3>1 DEF Lists, Round, Members
  <2>. SUFFICES ASSUME NEW k \in Conns
       PROVE  LET its == {i \in DOMAIN active : active[i][1] = k}
              IN  /\ bev[k] = "closing" => /\ pending[k] = <<>>
                                           /\ \E i \in its : its = {i} /\ active[i][2] = "F"
                  /\ bev[k] = "freed" => pending[k] = <<>> /\ its = {}
                  /\ bev[k] = "open" => \A i \in its : active[i][2] # "F"
    BY <2>1, Zenon DEF OnlyTheFinalizer
  <2>. DEFINE its == {i \in DOMAIN active : active[i][1] = k}
  <2>3. ListedOK(k)
    BY <2>1
  <2>4. ASSUME NEW i \in its
        PROVE  /\ bev[k] \in {"open", "closing"}
               /\ active[i][2] = "F" <=> bev[k] = "closing"
               /\ active[i][2] = "F" => active[i] = <<k, "F">>
    <3>1. active[i] \in Callbacks /\ active[i] \in Round /\ active[i][1] = k
      BY <2>2
    <3>2. active[i] \in {<<k, "R">>, <<k, "W">>, <<k, "F">>}
      BY <3>1 DEF Callbacks
    <3>3. active[i] = <<k, active[i][2]>>
      BY <3>2
    <3>. QED  BY <2>3, <3>1, <3>2, <3>3 DEF ListedOK
  <2>5. ASSUME bev[k] = "closing"
        PROVE  \E i \in its : its = {i} /\ active[i][2] = "F"
    <3>1. PICK i \in DOMAIN active : active[i] = <<k, "F">>
      BY <2>2, <2>3, <2>5 DEF ListedOK
    <3>2. i \in its /\ active[i][2] = "F"
      BY <3>1
    <3>3. ASSUME NEW j \in its  PROVE j = i
      BY <2>2, <2>4, <2>5, <3>1, <3>3
    <3>. QED  BY <3>2, <3>3
  <2>6. bev[k] \in {"closing", "freed"} => pending[k] = <<>>
    BY <2>3 DEF ListedOK
  <2>7. bev[k] = "freed" => its = {}
    BY <2>4
  <2>8. bev[k] = "open" => \A i \in its : active[i][2] # "F"
    BY <2>4
  <2>. QED  BY <2>5, <2>6, <2>7, <2>8, Zenon
<1>. QED  BY <1>1, BevInvariant, PTL

(* readcb clears the error of a socket before writecb asks for it, and     *)
(* still SConnect is told first of a connect that failed that it failed.   *)
THEOREM BevSuccessIsTrue == Spec => []SuccessIsTrue
<1>1. ASSUME BevInv  PROVE SuccessIsTrue
  <2>1. \A k \in Conns : ToldOK(k)
    BY <1>1 DEF BevInv, ConnOK
  <2>. QED  BY <2>1 DEF SuccessIsTrue, ToldOK, Conns
<1>. QED  BY <1>1, BevInvariant, PTL

-----------------------------------------------------------------------------
(* A success that is told behind the end of a connection.                  *)

OneSuccess(s) ==
  \A i, j \in DOMAIN s : s[i] = "connected" /\ s[j] = "connected" => i = j

(* While a connection connects, writecb follows readcb in the round, and   *)
(* is still to come in it when readcb has told the end.                    *)
LateOK(k) ==
  /\ connecting[k] /\ <<k, "R">> \in Round => <<k, "W">> \in Round
  /\ connecting[k] /\ Ended(k) => <<k, "W">> \in Round
  /\ connecting[k] => ~Contains(told[k], "connected")
  /\ OneSuccess(told[k])

LEMMA TellsSuccess ==
  ASSUME NEW s \in Seq(Whats), NEW w \in Whats
  PROVE  /\ Contains(Append(s, w), "connected")
              <=> Contains(s, "connected") \/ w = "connected"
         /\ OneSuccess(s) /\ (w = "connected" => ~Contains(s, "connected"))
              => OneSuccess(Append(s, w))
<1>. DEFINE t == Append(s, w)
<1>1. /\ Len(t) = Len(s) + 1 /\ Len(s) \in Nat
      /\ DOMAIN t = 1 .. Len(s) + 1 /\ DOMAIN s = 1 .. Len(s)
      /\ t[Len(s) + 1] = w /\ \A i \in 1 .. Len(s) : t[i] = s[i]
  OBVIOUS
<1>. HIDE DEF t
<1>2. Contains(t, "connected") <=> Contains(s, "connected") \/ w = "connected"
  BY <1>1 DEF Contains
<1>3. ASSUME OneSuccess(s), w = "connected" => ~Contains(s, "connected")
      PROVE  OneSuccess(t)
  BY <1>1, <1>3 DEF OneSuccess, Contains
<1>. QED  BY <1>2, <1>3 DEF t

(* What a step does to it: nothing, readcb tells the end, writecb gives an *)
(* error or a success.                                                     *)
LateSame(j) ==
  /\ connecting'[j] = connecting[j] /\ told'[j] = told[j]
  /\ <<j, "R">> \in Round' => <<j, "R">> \in Round
  /\ <<j, "W">> \in Round => <<j, "W">> \in Round'
LateEnd(j) ==
  /\ connecting'[j] = connecting[j]
  /\ \E w \in {"eof", "error"} : told'[j] = Append(told[j], w)
  /\ <<j, "R">> \in Round
  /\ <<j, "W">> \in Round => <<j, "W">> \in Round'
LateDone(j) ==
  /\ connecting'[j] = FALSE
  /\ told'[j] = told[j] \/ told'[j] = Append(told[j], "error")
LateSuccess(j) ==
  /\ connecting[j] /\ connecting'[j] = FALSE
  /\ told'[j] = Append(told[j], "connected")

LEMMA LateKept ==
  ASSUME BevInv, NEW j \in Conns, LateOK(j),
         LateSame(j) \/ LateEnd(j) \/ LateDone(j) \/ LateSuccess(j)
  PROVE  LateOK(j)'
<1>1. told[j] \in Seq(Whats) /\ {"eof", "error", "connected"} \subseteq Whats
  BY DEF BevInv, BevTyped, Tolds, Whats
<1>2. CASE LateSame(j)
  BY <1>2 DEF LateOK, LateSame, Ended
<1>3. CASE LateEnd(j)
  <2>1. PICK w \in {"eof", "error"} : told'[j] = Append(told[j], w)
    BY <1>3 DEF LateEnd
  <2>2. /\ Contains(told'[j], "connected") => Contains(told[j], "connected")
        /\ OneSuccess(told[j]) => OneSuccess(told'[j])
    BY <1>1, <2>1, TellsSuccess
  <2>. QED  BY <1>3, <2>2 DEF LateOK, LateEnd
<1>4. CASE LateDone(j)
  <2>1. OneSuccess(told[j]) => OneSuccess(told'[j])
    BY <1>1, <1>4, TellsSuccess DEF LateDone
  <2>. QED  BY <1>4, <2>1 DEF LateOK, LateDone
<1>5. CASE LateSuccess(j)
  <2>1. OneSuccess(told'[j])
    BY <1>1, <1>5, TellsSuccess DEF LateOK, LateSuccess
  <2>. QED  BY <1>5, <2>1 DEF LateOK, LateSuccess
<1>. QED  BY <1>2, <1>3, <1>4, <1>5

(* A poll lists all that is ready.                                         *)
LEMMA FiredAll ==
  ASSUME NEW q \in SetToSeqs(Fired)
  PROVE  Members(q) = Fired
<1>1. PICK n : n = Cardinality(Fired)
  OBVIOUS
<1>2. n \in Nat
  BY <1>1, FiredFinite, FS_CardinalityType
<1>3. q \in [1 .. n -> Fired] /\ \A i, j \in 1 .. n : i # j => q[i] # q[j]
  BY <1>1 DEF SetToSeqs
<1>4. Members(q) \subseteq Fired /\ \A i \in 1 .. n : q[i] \in Members(q)
  BY <1>3 DEF Members
<1>5. ASSUME NEW x \in Fired, x \notin Members(q)  PROVE FALSE
  <2>1. IsFiniteSet(Fired \ {x}) /\ Cardinality(Fired \ {x}) = n - 1
    BY <1>1, <1>5, FiredFinite, FS_RemoveElement
  <2>2. IsFiniteSet(1 .. n) /\ Cardinality(1 .. n) = n
    BY <1>2, FS_Interval
  <2>3. q \in [1 .. n -> Fired \ {x}]
    BY <1>3, <1>4, <1>5
  <2>4. Cardinality(Fired \ {x}) < Cardinality(1 .. n)
    BY <1>2, <2>1, <2>2
  <2>5. \E i, j \in 1 .. n : i # j /\ q[i] = q[j]
    BY <2>1, <2>2, <2>3, <2>4, FS_PigeonHole, Zenon
  <2>. QED  BY <1>3, <2>5
<1>. QED  BY <1>4, <1>5

(* A poll finds a connecting socket that is ready to read ready to write.  *)
LEMMA LatePoll ==
  ASSUME BevInv, Poll, NEW j \in Outgoing, LateOK(j)
  PROVE  LateOK(j)'
<1>1. /\ j \in Conns /\ j \notin Accepted /\ ConnOK(j) /\ Round = {}
      /\ UNCHANGED <<connecting, told>>
  BY BevAssumption DEF BevInv, Conns, Poll, Round, Members, bevVars
<1>2. ~(connecting[j] /\ Ended(j))
  BY <1>1 DEF LateOK
<1>3. ASSUME connecting[j], <<j, "R">> \in Round'
      PROVE  <<j, "W">> \in Round'
  <2>1. PICK q \in SetToSeqs(Fired) : active' = q
    BY <1>1, <1>3 DEF Poll, Round
  <2>2. Members(q) = Fired
    BY FiredAll
  <2>3. <<j, "R">> \in Fired
    BY <1>3, <2>1, <2>2 DEF Round
  <2>4. peer[j] # "syn"
    BY <1>1, <2>3 DEF Fired, Readable, ConnOK, NetworkOK, BevInv, SockTyped, Errors
  <2>5. Room(j) > 0
    BY <1>1, BytesLen, BevAssumption DEF ConnOK, KindOK, Room
  <2>6. Contains(pending[j], "W")
    BY <1>1, <1>3 DEF ConnOK, KindOK, WatchedOK
  <2>7. <<j, "W">> \in Fired
    BY <1>1, <2>4, <2>5, <2>6 DEF Fired, Writeable
  <2>. QED  BY <2>1, <2>2, <2>7 DEF Round
<1>. QED  BY <1>1, <1>2, <1>3 DEF LateOK, Ended

(* The end is told.                                                        *)
LEMMA LateEnds ==
  ASSUME BevInv, NEW k \in Conns, NEW e \in {"R", "W"}, NEW w \in {"eof", "error"},
         Runs(k, e), Ends(k, e, w), loop' = loop, UNCHANGED connecting,
         e = "W" => k \in Accepted,
         NEW j \in Outgoing
  PROVE  LateSame(j) \/ LateEnd(j)
<1>1. /\ loop' = "round" /\ active # <<>> /\ Head(active) = <<k, e>>
      /\ told' = [told EXCEPT ![k] = Append(@, w)] /\ told \in [Conns -> Tolds]
      /\ j \in Conns /\ j \notin Accepted
  BY BevAssumption DEF Runs, Ends, Tell, BevInv, BevTyped, Conns
<1>2. CASE k \in Accepted
  <2>1. Round' = (Round \ Its(k)) \cup {<<k, "F">>}
    BY <1>1, <1>2, HeadFinalizes DEF Ends, bufferevent_free
  <2>. QED  BY <1>1, <1>2, <2>1 DEF LateSame, Its
<1>3. CASE k \notin Accepted
  <2>1. /\ <<k, e>> \in Round /\ Round' = Round \ {<<k, e>>} /\ e = "R"
    BY <1>1, <1>3, HeadDone DEF Ends, DeleteOne
  <2>2. CASE j = k
    BY <1>1, <2>1, <2>2 DEF LateEnd
  <2>3. CASE j # k
    BY <1>1, <2>1, <2>3 DEF LateSame
  <2>. QED  BY <2>2, <2>3
<1>. QED  BY <1>2, <1>3

(* A callback runs.                                                        *)
LEMMA LateReadCb ==
  ASSUME BevInv, NEW k \in Conns, ReadCb(k), NEW j \in Outgoing
  PROVE  LateSame(j) \/ LateEnd(j)
<1>1. /\ Runs(k, "R") /\ loop' = loop /\ UNCHANGED connecting
      /\ active # <<>> /\ Head(active) = <<k, "R">> /\ loop' = "round"
  BY DEF ReadCb, ReadData, ReadError, ReadEOF, Runs, sockVars
<1>2. CASE active' = Tail(active) /\ UNCHANGED told
  <2>1. Round' = Round \ {<<k, "R">>}
    BY <1>1, <1>2, HeadDone
  <2>. QED  BY <1>1, <1>2, <2>1 DEF LateSame
<1>3. CASE \E w \in {"eof", "error"} : Ends(k, "R", w)
  BY <1>1, <1>3, LateEnds
<1>. QED  BY <1>2, <1>3 DEF ReadCb, ReadData, ReadError, ReadEOF, KeepBoth

LEMMA LateWriteCb ==
  ASSUME BevInv, NEW k \in Conns, WriteCb(k), NEW j \in Outgoing
  PROVE  LateSame(j) \/ LateEnd(j) \/ LateDone(j) \/ LateSuccess(j)
<1>1. /\ j \in Conns /\ j \notin Accepted
      /\ active # <<>> /\ Head(active) = <<k, "W">>
      /\ connecting \in [Conns -> BOOLEAN] /\ told \in [Conns -> Tolds]
  BY BevAssumption DEF BevInv, BevTyped, RoundOK, Conns, WriteCb, ConnectFailed, Connected, WriteNothing,
     Writev, WritevGoesOn, WritevCutShort, WriteError, Runs
<1>2. CASE ConnectFailed(k)
  <2>1. Round' = Round \ Its(k)
    BY <1>1, <1>2, HeadCancels DEF ConnectFailed, DeleteBoth, Runs
  <2>2. CASE j = k
    BY <1>1, <1>2, <2>2 DEF ConnectFailed, Tell, LateDone
  <2>3. CASE j # k
    BY <1>1, <1>2, <2>1, <2>3 DEF ConnectFailed, Tell, LateSame, Its
  <2>. QED  BY <2>2, <2>3
<1>3. CASE Connected(k)
  <2>1. Round' = Round \ {<<k, "W">>}
    BY <1>1, <1>3, HeadDone DEF Connected, DeleteOne, Runs
  <2>2. CASE j = k
    BY <1>1, <1>3, <2>2 DEF Connected, Tell, LateSuccess
  <2>3. CASE j # k
    BY <1>1, <1>3, <2>1, <2>3 DEF Connected, Tell, LateSame
  <2>. QED  BY <2>2, <2>3
<1>4. CASE /\ WriteNothing(k) \/ Writev(k) \/ WritevGoesOn(k) \/ WritevCutShort(k)
           /\ loop' = "round"
  <2>1. /\ UNCHANGED <<connecting, told>>
        /\ \/ active' = Tail(active)
           \/ active' = Without(Tail(active), {<<k, "W">>})
           \/ active' = active
    BY <1>4 DEF WriteNothing, Writev, WritevGoesOn, WritevCutShort, Written,
       KeepBoth, DeleteOne
  <2>2. Round' = Round \ {<<k, "W">>} \/ Round' = Round
    BY <1>1, <1>4, <2>1, HeadDone DEF Round
  <2>3. CASE j = k
    <3>1. ~connecting[k]
      BY <1>1, <1>4, <2>3 DEF WriteNothing, Writev, WritevGoesOn, WritevCutShort,
         BevInv, RoundOK
    <3>. QED  BY <1>1, <2>1, <2>3, <3>1 DEF LateDone
  <2>4. CASE j # k
    BY <1>1, <2>1, <2>2, <2>4 DEF LateSame
  <2>. QED  BY <2>3, <2>4
<1>5. CASE UNCHANGED <<active, connecting, told>>
  BY <1>5 DEF LateSame, Round
<1>6. CASE WriteError(k)
  <2>1. CASE so_error[k] = "EPIPE"
    BY <1>5, <1>6, <2>1 DEF WriteError
  <2>2. CASE so_error[k] # "EPIPE"
    <3>1. k \in Accepted
      BY <1>6, ToClients DEF WriteError
    <3>. QED  BY <1>6, <2>2, <3>1, LateEnds DEF WriteError
  <2>. QED  BY <2>1, <2>2
<1>7. WritevGoesOn(k) \/ Writev(k) => UNCHANGED <<connecting, told>>
                      /\ (loop' = "round" \/ UNCHANGED active)
  BY DEF Writev, WritevGoesOn, Runs, Written, KeepBoth, DeleteOne
<1>8. WriteNothing(k) \/ WritevCutShort(k) => loop' = "round"
  BY DEF WriteNothing, WritevCutShort, Runs
<1>. QED  BY <1>2, <1>3, <1>4, <1>5, <1>6, <1>7, <1>8 DEF WriteCb

LEMMA LateNext ==
  ASSUME BevInv, [Next]_vars, NEW j \in Outgoing, LateOK(j)
  PROVE  LateOK(j)'
<1>1. j \in Conns /\ j \notin Accepted
  BY BevAssumption DEF Conns
<1>2. CASE UNCHANGED <<active, connecting, told>>
  BY <1>1, <1>2, LateKept DEF LateSame, Round
<1>3. CASE Poll
  BY <1>3, LatePoll
<1>4. ASSUME NEW k \in Conns, ReadCb(k) \/ WriteCb(k)  PROVE LateOK(j)'
  BY <1>1, <1>4, LateReadCb, LateWriteCb, LateKept
<1>5. ASSUME NEW k \in Conns, bufferevent_finalize_cb_(k)  PROVE LateOK(j)'
  <2>1. Round' = Round \ {<<k, "F">>} /\ UNCHANGED <<connecting, told>>
    BY <1>5, HeadDone DEF bufferevent_finalize_cb_, Runs
  <2>. QED  BY <1>1, <2>1, LateKept DEF LateSame
<1>6. ASSUME NEW k \in Conns,
             \/ PeerSend(k) \/ PeerRead(k) \/ PeerClose(k)
             \/ PeerResets(k) \/ PeerAnswers(k)
      PROVE  LateOK(j)'
  BY <1>2, <1>6 DEF PeerSend, PeerRead, PeerClose, PeerResets, PeerAnswers,
     loopVars, bevVars
<1>7. ASSUME NEW k \in Accepted, SyinxKernel_Listen_CB(k)  PROVE LateOK(j)'
  <2>1. UNCHANGED <<connecting, told>>
    BY <1>7 DEF SyinxKernel_Listen_CB
  <2>2. CASE UNCHANGED active
    BY <1>2, <2>1, <2>2
  <2>3. CASE active' = Append(active, <<k, "F">>)
    <3>1. /\ active \in Seq(Callbacks) /\ Lists(active, Members(active))
          /\ <<k, "F">> \notin Members(active) /\ <<k, "F">> \in Callbacks
      <4>1. k \in Conns /\ ListedOK(k) /\ bev[k] = "none"
        BY <1>7 DEF BevInv, ConnOK, Conns, SyinxKernel_Listen_CB
      <4>. QED  BY <4>1 DEF BevInv, RoundOK, LoopTyped, Rounds, Round, ListedOK, Callbacks
    <3>2. Round' = Round \cup {<<k, "F">>}
      BY <2>3, <3>1, RoundEnters DEF Round
    <3>. QED  BY <1>1, <2>1, <3>2, LateKept DEF LateSame
  <2>. QED  BY <1>7, <2>2, <2>3 DEF SyinxKernel_Listen_CB
<1>8. ASSUME NEW k \in Outgoing, SConnect_Connect(k)  PROVE LateOK(j)'
  <2>1. /\ UNCHANGED <<active, told>> /\ bev[k] = "none"
        /\ connecting' = [connecting EXCEPT ![k] = TRUE]
        /\ connecting \in [Conns -> BOOLEAN]
    BY <1>8 DEF SConnect_Connect, loopVars, BevInv, BevTyped
  <2>2. CASE j # k
    BY <1>1, <2>1, <2>2, LateKept DEF LateSame, Round
  <2>3. CASE j = k
    <3>1. told[j] = <<>> /\ <<j, "R">> \notin Round
      BY <1>1, <2>1, <2>3 DEF BevInv, ConnOK, ListedOK, KindOK, ToldOK
    <3>2. told'[j] = <<>> /\ <<j, "R">> \notin Round'
      BY <2>1, <3>1 DEF Round
    <3>. QED  BY <3>2 DEF LateOK, Ended, Contains, OneSuccess
  <2>. QED  BY <2>2, <2>3
<1>9. CASE Frame \/ Skip \/ UNCHANGED vars
  BY <1>2, <1>9 DEF Frame, Skip, vars, loopVars, bevVars
<1>. QED
  BY <1>3, <1>4, <1>5, <1>6, <1>7, <1>8, <1>9 DEF Next, Loop, Env

(* readcb may tell the end of a connecting socket and leave its answer to  *)
(* writecb, which then takes it for a success: that one is told in the     *)
(* same round, because one poll finds the socket ready for both and        *)
(* be_socket_disable leaves ev_write, and it is told once.                 *)
THEOREM BevSuccessInTheRound == Spec => []SuccessInTheRound
<1>. DEFINE I == \A j \in Outgoing : LateOK(j)
<1>1. Init => I
  BY DEF Init, LateOK, Ended, Contains, OneSuccess, Round, Members, Conns
<1>2. BevInv /\ [Next]_vars /\ I => I'
  BY LateNext
<1>3. BevInv /\ I => SuccessInTheRound
  <2>. SUFFICES ASSUME BevInv, I, NEW k \in Outgoing
       PROVE  /\ connecting[k] /\ Ended(k) => Contains(active, <<k, "W">>)
              /\ \A i, j \in DOMAIN told[k] :
                   told[k][i] = "connected" /\ told[k][j] = "connected" => i = j
    BY Zenon DEF SuccessInTheRound
  <2>1. active \in Seq(Callbacks)
    BY DEF BevInv, LoopTyped, Rounds
  <2>2. <<k, "W">> \in Round => Contains(active, <<k, "W">>)
    BY <2>1 DEF Round, Members, Contains
  <2>. QED  BY <2>2 DEF LateOK, OneSuccess
<1>. QED  BY <1>1, <1>2, <1>3, BevInvariant, PTL DEF Spec

-----------------------------------------------------------------------------
(* Each connection is a ByteStream: every step is one of the stream of its *)
(* connection, and of the others none.                                     *)

EndOf(s) ==
  LET ends == {i \in DOMAIN s : s[i] # "connected"}
  IN  IF ends = {} THEN "none"
      ELSE IF \E i \in ends : ends = {i} THEN s[CHOOSE i \in ends : TRUE]
      ELSE "twice"

LEMMA EndOfTold ==
  ASSUME NEW s \in Seq(Whats)
  PROVE  /\ ~EndIn(s) => EndOf(s) = "none"
         /\ EndOf(Append(s, "connected")) = EndOf(s)
         /\ ~EndIn(s) => \A w \in {"eof", "error"} : EndOf(Append(s, w)) = w
<1>. DEFINE ends(t) == {i \in DOMAIN t : t[i] # "connected"}
<1>1. /\ DOMAIN s = 1 .. Len(s) /\ Len(s) \in Nat
      /\ \A i \in 1 .. Len(s) : s[i] \in Whats
  OBVIOUS
<1>2. ASSUME NEW w
      PROVE  /\ DOMAIN Append(s, w) = 1 .. Len(s) + 1
             /\ Append(s, w)[Len(s) + 1] = w
             /\ \A i \in 1 .. Len(s) : Append(s, w)[i] = s[i]
  OBVIOUS
<1>3. ~EndIn(s) => ends(s) = {}
  BY <1>1 DEF EndIn, Contains, Whats
<1>4. EndOf(Append(s, "connected")) = EndOf(s)
  <2>1. PICK t : t = Append(s, "connected")
    OBVIOUS
  <2>2. DOMAIN t = 1 .. Len(s) + 1 /\ t[Len(s) + 1] = "connected"
        /\ \A i \in 1 .. Len(s) : t[i] = s[i]
    BY <1>2, <2>1, Zenon
  <2>3. ends(t) = ends(s)
    BY <1>1, <2>2
  <2>4. \A i \in ends(s) : t[i] = s[i]
    BY <1>1, <2>2
  <2>5. ends(s) # {} => (CHOOSE i \in ends(s) : TRUE) \in ends(s)
    OBVIOUS
  <2>6. EndOf(t) = EndOf(s)
    BY <2>3, <2>4, <2>5, Zenon DEF EndOf
  <2>. QED  BY <2>1, <2>6, Zenon
<1>5. ASSUME ~EndIn(s), NEW w \in {"eof", "error"}  PROVE EndOf(Append(s, w)) = w
  <2>1. PICK t, n : t = Append(s, w) /\ n = Len(s) + 1
    OBVIOUS
  <2>2. DOMAIN t = 1 .. n /\ t[n] = w /\ \A i \in 1 .. Len(s) : t[i] = s[i]
    BY <1>2, <2>1, Zenon
  <2>3. n = Len(s) + 1
    BY <2>1
  <2>4. ends(t) = {n}
    BY <1>1, <1>3, <1>5, <2>2, <2>3
  <2>5. (CHOOSE i \in ends(t) : TRUE) = n
    BY <2>4
  <2>6. EndOf(t) = w
    BY <2>2, <2>4, <2>5, Zenon DEF EndOf
  <2>. QED  BY <2>1, <2>6, Zenon
<1>. QED  BY <1>3, <1>4, <1>5, Zenon DEF EndOf

LEMMA EndToldIs ==
  \A k : EndTold(k) = EndOf(told[k])
BY Zenon DEF EndTold, EndOf

(* The first bytes are the numbers up to some number.                      *)
LEMMA CountsUpTo ==
  ASSUME NEW s \in Bytes, Counts(s, 0)
  PROVE  s = [i \in 1 .. Len(s) |-> i]
<1>1. s \in Seq(1 .. MaxSend)
  BY Zenon DEF Bytes
<1>2. DOMAIN s = 1 .. Len(s) /\ s = [i \in DOMAIN s |-> s[i]]
  BY <1>1
<1>3. \A i \in DOMAIN s : s[i] = i
  <2>1. \A i \in DOMAIN s : s[i] = 0 + i
    BY DEF Counts
  <2>2. \A i \in DOMAIN s : 0 + i = i
    BY <1>2
  <2>. QED  BY <2>1, <2>2, Zenon
<1>4. [i \in DOMAIN s |-> s[i]] = [i \in DOMAIN s |-> i]
  BY <1>3, Zenon
<1>. QED  BY <1>2, <1>4, Zenon

LEMMA CountsBegin ==
  ASSUME NEW s \in Bytes, NEW r \in Bytes, Counts(s, 0), Counts(r, 0), Len(s) <= Len(r)
  PROVE  s = SubSeq(r, 1, Len(s))
<1>1. Len(s) \in Nat /\ Len(r) \in Nat
  BY BytesLen
<1>2. PICK n : n = Len(s)
  OBVIOUS
<1>3. PICK t : t = SubSeq(r, 0 + 1, n)
  OBVIOUS
<1>4. 0 \in 0 .. Len(r) /\ n \in 0 .. Len(r) /\ 0 \in Nat /\ n - 0 = n /\ 0 + 0 = 0
      /\ 0 + 1 = 1
  BY <1>1, <1>2
<1>5. t \in Bytes /\ Len(t) = n /\ Counts(t, 0)
  BY <1>3, <1>4, BytesPart
<1>6. s \in Seq(1 .. MaxSend) /\ t \in Seq(1 .. MaxSend)
  BY <1>5, Zenon DEF Bytes
<1>7. s = t
  BY <1>2, <1>4, <1>5, <1>6, CountsSame, Zenon
<1>. QED  BY <1>2, <1>3, <1>4, <1>7, Zenon

LEMMA NoStep ==
  ASSUME NEW k, sent'[k] = sent[k], handed'[k] = handed[k],
         written'[k] = written[k], got'[k] = got[k], told'[k] = told[k]
  PROVE  StreamStep(k)
<1>1. EndTold(k)' = EndTold(k)
  BY DEF EndTold
<1>. QED  BY <1>1, Zenon DEF StreamStep

LEMMA StreamSends ==
  ASSUME NEW k, sent'[k] = sent[k] + 1, handed'[k] = handed[k],
         written'[k] = written[k], got'[k] = got[k], told'[k] = told[k]
  PROVE  StreamStep(k)
<1>1. EndTold(k)' = EndTold(k)
  BY DEF EndTold
<1>2. Stream(k)!Send
  BY <1>1, Zenon DEF Stream!Send
<1>. QED  BY <1>2, Zenon DEF StreamStep, Stream!Next

LEMMA StreamHands ==
  ASSUME NEW k, EndTold(k) = "none", handed'[k] \in Bytes, Counts(handed'[k], 0),
         Len(handed'[k]) \in Len(handed[k]) + 1 .. sent[k], sent'[k] = sent[k],
         written'[k] = written[k], got'[k] = got[k], told'[k] = told[k]
  PROVE  StreamStep(k)
<1>1. EndTold(k)' = EndTold(k)
  BY DEF EndTold
<1>2. PICK h : h = handed'[k]
  OBVIOUS
<1>3. h = [i \in 1 .. Len(h) |-> i]
  BY <1>2, CountsUpTo, Zenon
<1>4. Stream(k)!Hand
  BY <1>1, <1>2, <1>3, Zenon DEF Stream!Hand, Stream!UpTo
<1>. QED  BY <1>4, Zenon DEF StreamStep, Stream!Next

LEMMA StreamAnswers ==
  ASSUME NEW k, EndTold(k) = "none", NEW n \in Len(written[k]) + 1 .. Len(handed[k]),
         written'[k] = SubSeq(handed[k], 1, n), sent'[k] = sent[k],
         handed'[k] = handed[k], got'[k] = got[k], told'[k] = told[k]
  PROVE  StreamStep(k)
<1>1. EndTold(k)' = EndTold(k)
  BY DEF EndTold
<1>2. Stream(k)!Answer
  BY <1>1, Zenon DEF Stream!Answer, Stream!Answers
<1>. QED  BY <1>2, Zenon DEF StreamStep, Stream!Next

LEMMA StreamGives ==
  ASSUME NEW k, NEW n \in Len(got[k]) + 1 .. Len(written[k]),
         got'[k] = SubSeq(written[k], 1, n), sent'[k] = sent[k],
         handed'[k] = handed[k], written'[k] = written[k], told'[k] = told[k]
  PROVE  StreamStep(k)
<1>1. EndTold(k)' = EndTold(k)
  BY DEF EndTold
<1>2. Stream(k)!Give
  BY <1>1, Zenon DEF Stream!Give
<1>. QED  BY <1>2, Zenon DEF StreamStep, Stream!Next

LEMMA StreamEnds ==
  ASSUME NEW k, told[k] \in Seq(Whats), ~Ended(k), NEW w \in {"eof", "error"},
         told'[k] = Append(told[k], w), w = "eof" => Len(handed[k]) = sent[k],
         sent'[k] = sent[k], handed'[k] = handed[k], got'[k] = got[k],
         \/ written'[k] = written[k]
         \/ \E n \in Len(written[k]) + 1 .. Len(handed[k]) :
              written'[k] = SubSeq(handed[k], 1, n)
  PROVE  StreamStep(k)
<1>1. PICK s : s = told[k]
  OBVIOUS
<1>2. ~EndIn(s) /\ s \in Seq(Whats)
  BY <1>1, Zenon DEF Ended, EndIn
<1>3. EndOf(s) = "none" /\ EndOf(Append(s, w)) = w
  BY <1>2, EndOfTold, Zenon
<1>4. EndTold(k) = "none"
  BY <1>1, <1>3, EndToldIs, Zenon
<1>5. EndTold(k)' = EndOf(told'[k])
  BY Zenon DEF EndTold, EndOf
<1>6. EndTold(k)' = w
  BY <1>1, <1>3, <1>5, Zenon
<1>7. Stream(k)!End
  BY <1>4, <1>6, Zenon DEF Stream!End, Stream!Answers
<1>. QED  BY <1>7, Zenon DEF StreamStep, Stream!Next

LEMMA StreamConnects ==
  ASSUME NEW k, told[k] \in Seq(Whats), told'[k] = Append(told[k], "connected"),
         sent'[k] = sent[k], handed'[k] = handed[k], written'[k] = written[k],
         got'[k] = got[k]
  PROVE  StreamStep(k)
<1>1. EndTold(k)' = EndOf(told'[k]) /\ EndTold(k) = EndOf(told[k])
  BY Zenon DEF EndTold, EndOf
<1>2. EndTold(k)' = EndTold(k)
  BY <1>1, EndOfTold, Zenon
<1>. QED  BY <1>2, Zenon DEF StreamStep

LEMMA NoSteps ==
  ASSUME UNCHANGED <<sent, handed, written, got, told>>, NEW j
  PROVE  StreamStep(j)
BY NoStep

LEMMA EndsSteps ==
  ASSUME BevInv, NEW k \in Conns, NEW w \in {"eof", "error"}, ~Ended(k), Tell(k, w),
         w = "eof" => Len(handed[k]) = sent[k],
         UNCHANGED <<sent, handed, got>>,
         UNCHANGED written \/ written' = [written EXCEPT ![k] = Echoed(k)],
         NEW j \in Conns
  PROVE  StreamStep(j)
<1>1. told \in [Conns -> Seq(Whats)] /\ written \in [Conns -> Bytes]
  BY DEF BevInv, BevTyped, DataTyped, Tolds
<1>2. CASE j = k
  <2>1. told'[k] = Append(told[k], w) /\ told[k] \in Seq(Whats)
    BY <1>1, Zenon DEF Tell
  <2>2. \/ written'[k] = written[k]
        \/ \E n \in Len(written[k]) + 1 .. Len(handed[k]) :
             written'[k] = SubSeq(handed[k], 1, n)
    <3>1. CASE UNCHANGED written
      BY <3>1
    <3>2. CASE written' = [written EXCEPT ![k] = Echoed(k)]
      <4>1. written'[k] = Echoed(k)
        BY <1>1, <3>2, Zenon
      <4>. QED  BY <4>1, LastEcho, Zenon
    <3>. QED  BY <3>1, <3>2
  <2>. QED  BY <1>2, <2>1, <2>2, StreamEnds
<1>3. CASE j # k
  <2>1. told'[j] = told[j] /\ written'[j] = written[j]
    BY <1>1, <1>3, Zenon DEF Tell
  <2>. QED  BY <2>1, NoStep
<1>. QED  BY <1>2, <1>3

LEMMA SendSteps ==
  ASSUME BevInv, NEW k \in Conns, PeerSend(k), NEW j \in Conns
  PROVE  StreamStep(j)
<1>1. sent \in [Conns -> 0 .. MaxSend] /\ sent' = [sent EXCEPT ![k] = @ + 1]
      /\ UNCHANGED <<handed, written, got, told>>
  BY DEF BevInv, SockTyped, PeerSend, dataVars, bevVars
<1>2. CASE j = k
  <2>1. sent'[k] = sent[k] + 1
    BY <1>1, Zenon
  <2>. QED  BY <1>1, <1>2, <2>1, StreamSends
<1>3. CASE j # k
  <2>1. sent'[j] = sent[j]
    BY <1>1, <1>3, Zenon
  <2>. QED  BY <1>1, <2>1, NoStep
<1>. QED  BY <1>2, <1>3

LEMMA ReadsOn ==
  ASSUME BevInv, NEW k \in Conns, Runs(k, "R")
  PROVE  bev[k] = "open" /\ ~Ended(k)
<1>1. active # <<>> /\ Head(active) = <<k, "R">> /\ TypeOK /\ RoundOK
  BY Typed DEF Runs, BevInv
<1>2. <<k, "R">> \in Round
  BY <1>1, HeadReturns, Zenon
<1>. QED  BY <1>2 DEF BevInv, ConnOK, ListedOK, ToldOK

LEMMA HandSteps ==
  ASSUME BevInv, NEW k \in Conns, ReadData(k), NEW j \in Conns
  PROVE  StreamStep(j)
<1>1. ConnOK(k) /\ BevTyped /\ DataTyped /\ SockTyped
  BY DEF BevInv
<1>2. /\ rx[k] # <<>> /\ Runs(k, "R")
      /\ UNCHANGED <<told, written, sent, got>>
  BY DEF ReadData
<1>3. PICK n : n = Smaller(Len(rx[k]), MaxRead)
  OBVIOUS
<1>4. PICK h : h = handed[k] \o SubSeq(rx[k], 1, n)
  OBVIOUS
<1>5. handed' = [handed EXCEPT ![k] = h]
  BY <1>3, <1>4, Zenon DEF ReadData
<1>6. CASE j = k
  <2>1. PICK l, m, s : l = Len(rx[k]) /\ m = Len(handed[k]) /\ s = sent[k]
    OBVIOUS
  <2>2. bev[k] = "open" /\ ~Ended(k)
    BY <1>2, ReadsOn
  <2>3. Placed(handed[k], written[k], got[k], rx[k], tx[k], flushed[k], Part(k),
               Rest(k), sent[k], bev[k], peer[k])
    BY <1>1, Zenon DEF ConnOK, BytesOK
  <2>4. l \in Nat /\ m \in Nat /\ m + l = s /\ l # 0
    <3>1. rx[k] \in Bytes /\ Len(rx[k]) \in Nat /\ Len(handed[k]) \in Nat
          /\ Len(handed[k]) + Len(rx[k]) = sent[k]
      <4>1. rx[k] \in Bytes /\ Len(handed[k]) + Len(rx[k]) = sent[k]
        BY <2>2, <2>3, Zenon DEF Placed
      <4>. QED  BY <2>3, <4>1, PlacedNumbers
    <3>. QED  BY <1>2, <2>1, <3>1, BytesLen, Zenon
  <2>5. n \in 0 .. l /\ n > 0
    <3>1. n = Smaller(l, MaxRead) /\ MaxRead \in Nat /\ MaxRead > 0 /\ l > 0
      BY <1>3, <2>1, <2>4, BevAssumption
    <3>. QED  BY <2>4, <3>1, SmallerOf
  <2>6. /\ Placed(h, written[k], got[k], Drop(rx[k], n), tx[k], flushed[k], Part(k),
                  Rest(k), sent[k], bev[k], peer[k])
        /\ h \in Bytes /\ Len(h) = m + n
    <3>1. PICK o, r : o = handed[k] /\ r = rx[k]
      OBVIOUS
    <3>2. /\ n \in 0 .. Len(r) /\ bev[k] # "freed" /\ h = o \o SubSeq(r, 1, n)
          /\ Placed(o, written[k], got[k], r, tx[k], flushed[k], Part(k),
                    Rest(k), sent[k], bev[k], peer[k])
      BY <1>4, <2>1, <2>2, <2>3, <2>5, <3>1, Zenon
    <3>3. /\ Placed(h, written[k], got[k], Drop(r, n), tx[k], flushed[k],
                    Part(k), Rest(k), sent[k], bev[k], peer[k])
          /\ h \in Bytes /\ Len(h) = Len(o) + n
      BY <3>2, PlacedRead
    <3>. QED  BY <2>1, <3>1, <3>3, Zenon
  <2>7. Counts(h, 0)
    BY <2>6, Zenon DEF Placed
  <2>8. Len(h) \in m + 1 .. s
    BY <2>4, <2>5, <2>6
  <2>9. ~Ended(k) /\ told[k] \in Seq(Whats)
    BY <1>1, <2>2, Zenon DEF BevTyped, Tolds
  <2>10. EndTold(k) = "none"
    BY <2>9, EndToldIs, EndOfTold, Zenon DEF Ended, EndIn
  <2>11. handed'[k] = h
    BY <1>1, <1>5, Zenon DEF DataTyped
  <2>12. Len(handed'[k]) \in Len(handed[k]) + 1 .. sent[k]
    BY <2>1, <2>8, <2>11, Zenon
  <2>. QED  BY <1>2, <1>6, <2>6, <2>7, <2>10, <2>11, <2>12, StreamHands
<1>7. CASE j # k
  <2>1. handed'[j] = handed[j]
    BY <1>1, <1>5, <1>7, Zenon DEF DataTyped
  <2>. QED  BY <1>2, <2>1, NoStep
<1>. QED  BY <1>6, <1>7

LEMMA GiveSteps ==
  ASSUME BevInv, NEW k \in Conns, PeerRead(k), NEW j \in Conns
  PROVE  StreamStep(j)
<1>1. ConnOK(k) /\ SockTyped
  BY DEF BevInv
<1>2. /\ peer[k] = "open" /\ tx[k] # <<>>
      /\ UNCHANGED <<sent, handed, written, told>>
  BY DEF PeerRead, bevVars, dataVars
<1>3. PICK g : g = Append(got[k], Head(tx[k]))
  OBVIOUS
<1>4. got' = [got EXCEPT ![k] = g]
  BY <1>3, Zenon DEF PeerRead
<1>5. CASE j = k
  <2>1. PICK m, w : m = Len(got[k]) /\ w = written[k]
    OBVIOUS
  <2>2. Placed(handed[k], w, got[k], rx[k], tx[k], flushed[k], Part(k),
               Rest(k), sent[k], bev[k], peer[k])
    BY <1>1, <2>1, Zenon DEF ConnOK, BytesOK
  <2>3. /\ Placed(handed[k], w, g, rx[k], Tail(tx[k]), flushed[k], Part(k),
                  Rest(k), sent[k], bev[k], peer[k])
        /\ m + 1 <= Len(w) /\ g \in Bytes /\ Len(g) = m + 1
    BY <1>2, <1>3, <2>1, <2>2, PlacedGive
  <2>4. w \in Bytes /\ Counts(w, 0) /\ Counts(g, 0) /\ Len(w) \in Nat /\ m \in Nat
    <3>1. w \in Bytes /\ Counts(w, 0) /\ Counts(g, 0)
      BY <2>2, <2>3, Zenon DEF Placed
    <3>2. got[k] \in Bytes
      BY <2>2, Zenon DEF Placed
    <3>. QED  BY <2>1, <3>1, <3>2, BytesLen, Zenon
  <2>5. g = SubSeq(w, 1, Len(g)) /\ Len(g) \in m + 1 .. Len(w)
    <3>1. Len(g) <= Len(w) /\ Len(g) \in m + 1 .. Len(w)
      BY <2>3, <2>4
    <3>. QED  BY <2>3, <2>4, <3>1, CountsBegin, Zenon
  <2>6. got'[k] = g
    BY <1>1, <1>4, Zenon DEF SockTyped
  <2>7. PICK n : n = Len(g)
    OBVIOUS
  <2>8. n \in Len(got[k]) + 1 .. Len(written[k]) /\ got'[k] = SubSeq(written[k], 1, n)
    BY <2>1, <2>5, <2>6, <2>7, Zenon
  <2>. QED  BY <1>2, <1>5, <2>8, StreamGives
<1>6. CASE j # k
  <2>1. got'[j] = got[j]
    BY <1>1, <1>4, <1>6, Zenon DEF SockTyped
  <2>. QED  BY <1>2, <2>1, NoStep
<1>. QED  BY <1>5, <1>6

LEMMA AnswerSteps ==
  ASSUME BevInv, Frame, NEW j \in Conns
  PROVE  StreamStep(j)
<1>1. UNCHANGED <<sent, handed, got, told>>
  BY DEF Frame, sockVars
<1>2. CASE j \in Served
  <2>1. PICK h, w, m : /\ h = handed[j] /\ w = written[j]
                       /\ m = Smaller(Len(h), Len(w) + BUFFSIZE)
    OBVIOUS
  <2>2. written'[j] = SubSeq(h, 1, m)
    BY <1>2, <2>1, Zenon DEF Frame, Echoed
  <2>3. Placed(h, w, got[j], rx[j], tx[j], flushed[j], Part(j), Rest(j), sent[j],
               bev[j], peer[j])
    BY <2>1, Zenon DEF BevInv, ConnOK, BytesOK
  <2>4. m \in Len(w) .. Len(h) /\ Len(w) \in Nat /\ Len(h) \in Nat
    <3>1. w \in Bytes /\ h \in Bytes /\ Len(w) <= Len(h)
      BY <2>3, Zenon DEF Placed
    <3>2. Len(w) \in Nat /\ Len(h) \in Nat
      BY <3>1, BytesLen, Zenon
    <3>. QED  BY <2>1, <3>1, <3>2, EchoEnds, Zenon
  <2>5. CASE m = Len(w)
    <3>1. SubSeq(h, 1, m) = w
      BY <2>3, <2>4, <2>5, PlacedEchoed
    <3>2. written'[j] = written[j]
      BY <2>1, <2>2, <3>1, Zenon
    <3>. QED  BY <1>1, <3>2, NoStep
  <2>6. CASE m # Len(w)
    <3>1. m \in Len(w) + 1 .. Len(h)
      BY <2>4, <2>6
    <3>2. m \in Len(written[j]) + 1 .. Len(handed[j])
          /\ written'[j] = SubSeq(handed[j], 1, m)
      BY <2>1, <2>2, <3>1, Zenon
    <3>3. told[j] \in Seq(Whats) /\ ToldOK(j) /\ j \in Accepted /\ bev[j] = "open"
      BY <1>2, Zenon DEF BevInv, BevTyped, Tolds, ConnOK, Served
    <3>4. ~Ended(j)
      BY <3>3 DEF ToldOK
    <3>5. EndTold(j) = "none"
      BY <3>3, <3>4, EndToldIs, EndOfTold, Zenon DEF Ended, EndIn
    <3>. QED  BY <1>1, <3>2, <3>5, StreamAnswers
  <2>. QED  BY <2>5, <2>6
<1>3. CASE j \notin Served
  <2>1. written'[j] = written[j]
    BY <1>3, Zenon DEF Frame
  <2>. QED  BY <1>1, <2>1, NoStep
<1>. QED  BY <1>2, <1>3

(* What readcb tells.                                                      *)
LEMMA ReadEnds ==
  ASSUME BevInv, NEW k \in Conns, ReadError(k) \/ ReadEOF(k), NEW j \in Conns
  PROVE  StreamStep(j)
<1>1. ConnOK(k) /\ Runs(k, "R") /\ UNCHANGED <<sent, handed, got>>
  BY DEF BevInv, ReadError, ReadEOF, sockVars
<1>2. bev[k] = "open" /\ ~Ended(k)
  BY <1>1, ReadsOn
<1>7. UNCHANGED written \/ written' = [written EXCEPT ![k] = Echoed(k)]
  BY DEF ReadError, ReadEOF, Ends
<1>3. CASE UNCHANGED <<told, written>>
  BY <1>1, <1>3, NoSteps
<1>4. CASE Tell(k, "error")
  BY <1>1, <1>2, <1>4, <1>7, EndsSteps
<1>5. CASE ReadEOF(k)
  <2>1. Tell(k, "eof") /\ rx[k] = <<>>
    BY <1>5 DEF ReadEOF, Ends
  <2>2. Placed(handed[k], written[k], got[k], <<>>, tx[k], flushed[k], Part(k),
               Rest(k), sent[k], bev[k], peer[k])
    BY <1>1, <2>1, Zenon DEF ConnOK, BytesOK
  <2>3. PICK m, s : m = Len(handed[k]) /\ s = sent[k]
    OBVIOUS
  <2>4. m \in Nat /\ m + Len(<<>>) = s
    <3>1. handed[k] \in Bytes /\ Len(handed[k]) + Len(<<>>) = sent[k]
      BY <1>2, <2>2, Zenon DEF Placed
    <3>. QED  BY <2>3, <3>1, BytesLen, Zenon
  <2>5. m = s
    BY <2>4
  <2>6. Len(handed[k]) = sent[k]
    BY <2>3, <2>5, Zenon
  <2>. QED  BY <1>1, <1>2, <1>7, <2>1, <2>6, EndsSteps
<1>6. ReadError(k) => UNCHANGED <<told, written>> \/ Tell(k, "error")
  BY DEF ReadError, Ends
<1>. QED  BY <1>3, <1>4, <1>5, <1>6

(* What writecb tells.                                                     *)
LEMMA WriteEnds ==
  ASSUME BevInv, NEW k \in Conns, ConnectFailed(k) \/ WriteError(k), NEW j \in Conns
  PROVE  StreamStep(j)
<1>1. /\ UNCHANGED <<sent, handed, got>>
      /\ UNCHANGED written \/ written' = [written EXCEPT ![k] = Echoed(k)]
  BY DEF ConnectFailed, WriteError, Ends, dataVars
<1>2. UNCHANGED <<told, written>> \/ Tell(k, "error")
  BY DEF ConnectFailed, WriteError, Ends, dataVars
<1>3. CASE UNCHANGED <<told, written>>
  BY <1>1, <1>3, NoSteps
<1>4. CASE Tell(k, "error")
  <2>1. ~Ended(k)
    BY KeptConnectFailed, KeptWriteError
  <2>. QED  BY <1>1, <1>4, <2>1, EndsSteps
<1>. QED  BY <1>2, <1>3, <1>4

LEMMA ConnectedSteps ==
  ASSUME BevInv, NEW k \in Conns, Connected(k), NEW j \in Conns
  PROVE  StreamStep(j)
<1>1. told \in [Conns -> Seq(Whats)] /\ UNCHANGED <<sent, handed, written, got>>
  BY DEF BevInv, BevTyped, Tolds, Connected, dataVars, sockVars
<1>2. CASE j = k
  <2>1. told'[k] = Append(told[k], "connected") /\ told[k] \in Seq(Whats)
    BY <1>1, Zenon DEF Connected, Tell
  <2>. QED  BY <1>1, <1>2, <2>1, StreamConnects
<1>3. CASE j # k
  <2>1. told'[j] = told[j]
    BY <1>1, <1>3, Zenon DEF Connected, Tell
  <2>. QED  BY <1>1, <2>1, NoStep
<1>. QED  BY <1>2, <1>3

(* Every step is a step of the streams.                                    *)
LEMMA StreamSteps ==
  ASSUME BevInv, [Next]_vars, NEW j \in Conns
  PROVE  StreamStep(j)
<1>1. CASE Frame
  BY <1>1, AnswerSteps
<1>2. CASE Poll \/ Skip \/ UNCHANGED vars
  <2>1. UNCHANGED <<sent, handed, written, got, told>>
    BY <1>2 DEF Poll, Skip, vars, bevVars, dataVars, sockVars
  <2>. QED  BY <2>1, NoSteps
<1>3. ASSUME NEW k \in Conns, ReadCb(k)  PROVE StreamStep(j)
  BY <1>3, HandSteps, ReadEnds DEF ReadCb
<1>4. ASSUME NEW k \in Conns,
             \/ WriteNothing(k) \/ Writev(k) \/ WritevGoesOn(k) \/ WritevCutShort(k)
             \/ bufferevent_finalize_cb_(k)
             \/ PeerClose(k) \/ PeerResets(k) \/ PeerAnswers(k)
      PROVE  StreamStep(j)
  <2>1. UNCHANGED <<sent, handed, written, got, told>>
    BY <1>4 DEF WriteNothing, Writev, WritevGoesOn, WritevCutShort,
       bufferevent_finalize_cb_, PeerClose, PeerResets, PeerAnswers,
       bevVars, dataVars, sockVars
  <2>. QED  BY <2>1, NoSteps
<1>5. ASSUME NEW k \in Conns, WriteCb(k)  PROVE StreamStep(j)
  BY <1>4, <1>5, WriteEnds, ConnectedSteps DEF WriteCb
<1>6. ASSUME NEW k \in Conns, PeerSend(k) \/ PeerRead(k)  PROVE StreamStep(j)
  BY <1>6, SendSteps, GiveSteps
<1>7. ASSUME NEW k, SyinxKernel_Listen_CB(k) \/ SConnect_Connect(k)
      PROVE  StreamStep(j)
  <2>1. UNCHANGED <<sent, handed, written, got, told>>
    BY <1>7 DEF SyinxKernel_Listen_CB, SConnect_Connect, dataVars, sockVars
  <2>. QED  BY <2>1, NoSteps
<1>. QED  BY <1>1, <1>2, <1>3, <1>4, <1>5, <1>6, <1>7 DEF Next, Loop, Env

(* Through read and write sizes, full socket buffers, blocked writes,      *)
(* resets and the end of the peer: readcb and the frames hand on every     *)
(* byte once and in order, writecb neither loses nor doubles one before    *)
(* the end is told, an orderly end is told only behind the last byte, and  *)
(* nothing is handed after an end, nor answered but what the channel that  *)
(* is told of it still echoes as it is cleared.                            *)
THEOREM BevIsByteStream == Spec => IsByteStream
<1>1. ASSUME Init, NEW k \in Conns  PROVE Stream(k)!Init
  <2>1. sent[k] = 0 /\ handed[k] = <<>> /\ written[k] = <<>> /\ got[k] = <<>>
        /\ told[k] = <<>>
    BY <1>1 DEF Init
  <2>2. told[k] \in Seq(Whats) /\ ~EndIn(told[k])
    BY <2>1 DEF EndIn, Contains
  <2>3. EndTold(k) = "none"
    BY <2>2, EndToldIs, EndOfTold, Zenon
  <2>. QED  BY <2>1, <2>3, Zenon DEF Stream!Init
<1>2. BevInv /\ [Next]_vars => [\A k \in Conns : StreamStep(k)]_vars
  BY StreamSteps
<1>3. Init => \A k \in Conns : Stream(k)!Init
  BY <1>1
<1>. QED  BY <1>2, <1>3, BevInvariant, PTL DEF Spec, IsByteStream
=============================================================================
