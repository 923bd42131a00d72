--------------------------- MODULE EventBaseProofs ---------------------------
(***************************************************************************)
(* The event base: proofs that its lists, flags and counts agree, that an  *)
(* object that was given up is finalized once, and what a callback may     *)
(* rely on when it begins.                                                 *)
(***************************************************************************)
EXTENDS EventBase, QueuesProofs, FiniteSetTheorems, TLAPS

-----------------------------------------------------------------------------
(* The queues Q and the later queue L hold just the events of A and of B,  *)
(* each once and in the queue of its priority.                             *)
Of(A, p) == {e \in A : ev_pri[e] = p}
QueuesOK(A, B, Q, L) ==
  /\ A \subseteq Events /\ B \subseteq Events /\ A \cap B = {}
  /\ Q \in [Pri -> Seq(Events)] /\ L \in Seq(Events)
  /\ Lists(L, B) /\ \A p \in Pri : Lists(Q[p], Of(A, p))

(* Queues without the events of S; the first of a queue, and the others.   *)
Waits(Q, p) == Q[p] # <<>>
First(Q, p) == Head(Q[p])
AllWithout(Q, S) == [p \in Pri |-> Without(Q[p], S)]
TakenFrom(Q, p) == [Q EXCEPT ![p] = Tail(@)]

(* Events of S leave the queues, the later queue, or both.                 *)
LEMMA QueuesOff ==
  ASSUME NEW A, NEW B, NEW Q, NEW L, QueuesOK(A, B, Q, L), NEW S
  PROVE  /\ QueuesOK(A \ S, B \ S, AllWithout(Q, S), Without(L, S))
         /\ QueuesOK(A, B \ S, Q, Without(L, S))
         /\ QueuesOK(A \ S, B, AllWithout(Q, S), L)
<1>. DEFINE R == [p \in Pri |-> Without(Q[p], S)]
<1>1. Without(L, S) \in Seq(Events) /\ Lists(Without(L, S), B \ S)
  BY WithoutLists DEF QueuesOK
<1>2. ASSUME NEW p \in Pri
      PROVE  Without(Q[p], S) \in Seq(Events) /\ Lists(Without(Q[p], S), Of(A \ S, p))
  <2>1. Q[p] \in Seq(Events) /\ Lists(Q[p], Of(A, p))
    BY DEF QueuesOK
  <2>2. Of(A \ S, p) = Of(A, p) \ S
    BY DEF Of
  <2>3. Without(Q[p], S) \in Seq(Events) /\ Lists(Without(Q[p], S), Of(A, p) \ S)
    BY <2>1, WithoutLists, Zenon
  <2>. QED  BY <2>2, <2>3, Zenon
<1>3. R \in [Pri -> Seq(Events)] /\ \A p \in Pri : Lists(R[p], Of(A \ S, p))
  BY <1>2
<1>. HIDE DEF R
<1>4. /\ QueuesOK(A \ S, B \ S, R, Without(L, S))
      /\ QueuesOK(A, B \ S, Q, Without(L, S))
      /\ QueuesOK(A \ S, B, R, L)
  BY <1>1, <1>3 DEF QueuesOK
<1>. QED  BY <1>4, Zenon DEF R, AllWithout

(* An event enters the tail of its queue, or of the later queue.           *)
LEMMA QueuesInsert ==
  ASSUME NEW A, NEW B, NEW Q, NEW L, QueuesOK(A, B, Q, L),
         NEW e \in Events, e \notin A, e \notin B
  PROVE  /\ QueuesOK(A \cup {e}, B, Inserted(Q, e), L)
         /\ QueuesOK(A, B \cup {e}, Q, Append(L, e))
<1>0. ev_pri[e] \in Pri
  BY EventBaseAssumption
<1>. DEFINE p == ev_pri[e]
<1>1. Append(L, e) \in Seq(Events) /\ Lists(Append(L, e), B \cup {e})
  BY AppendLists DEF QueuesOK
<1>2. Append(Q[p], e) \in Seq(Events) /\ Lists(Append(Q[p], e), Of(A \cup {e}, p))
  <2>1. Q[p] \in Seq(Events) /\ Lists(Q[p], Of(A, p)) /\ e \notin Of(A, p)
    BY <1>0 DEF QueuesOK, Of
  <2>2. Of(A \cup {e}, p) = Of(A, p) \cup {e}
    BY DEF Of
  <2>3. /\ Append(Q[p], e) \in Seq(Events)
        /\ Lists(Append(Q[p], e), Of(A, p) \cup {e})
    BY <2>1, AppendLists, Zenon
  <2>. QED  BY <2>2, <2>3, Zenon
<1>3. ASSUME NEW q \in Pri, q # p  PROVE Of(A \cup {e}, q) = Of(A, q)
  BY <1>3 DEF Of
<1>. DEFINE x == Append(Q[p], e)
<1>4. Inserted(Q, e) = [Q EXCEPT ![p] = x]
  BY DEF Inserted
<1>. HIDE DEF x
<1>5. x \in Seq(Events) /\ Lists(x, Of(A \cup {e}, p))
  BY <1>2 DEF x
<1>6. /\ Inserted(Q, e) \in [Pri -> Seq(Events)]
      /\ \A q \in Pri : Lists(Inserted(Q, e)[q], Of(A \cup {e}, q))
  BY <1>0, <1>3, <1>4, <1>5 DEF QueuesOK
<1>. QED  BY <1>1, <1>6 DEF QueuesOK

(* The first event of a queue leaves it.                                   *)
LEMMA QueuesTaken ==
  ASSUME NEW A, NEW B, NEW Q, NEW L, QueuesOK(A, B, Q, L),
         NEW p \in Pri, Waits(Q, p)
  PROVE  /\ First(Q, p) \in A /\ ev_pri[First(Q, p)] = p
         /\ QueuesOK(A \ {First(Q, p)}, B, TakenFrom(Q, p), L)
<1>. DEFINE h == Head(Q[p])
            t == Tail(Q[p])
            R == [Q EXCEPT ![p] = t]
<1>1. Q[p] \in Seq(Events) /\ Lists(Q[p], Of(A, p))
  BY DEF QueuesOK
<1>2. h \in Of(A, p) /\ t \in Seq(Events) /\ Lists(t, Of(A, p) \ {h})
  BY <1>1, TailLists DEF Waits
<1>. HIDE DEF h, t
<1>3. Of(A \ {h}, p) = Of(A, p) \ {h}
  BY DEF Of
<1>4. ASSUME NEW q \in Pri, q # p  PROVE Of(A \ {h}, q) = Of(A, q)
  BY <1>2, <1>4 DEF Of
<1>5. R \in [Pri -> Seq(Events)] /\ \A q \in Pri : Lists(R[q], Of(A \ {h}, q))
  BY <1>2, <1>3, <1>4 DEF QueuesOK
<1>. HIDE DEF R
<1>6. QueuesOK(A \ {h}, B, R, L)
  BY <1>5 DEF QueuesOK
<1>7. h \in A /\ ev_pri[h] = p
  BY <1>2 DEF Of
<1>. QED  BY <1>6, <1>7, Zenon DEF h, t, R, TakenFrom, First

(* event_queue_make_later_events_active.                                   *)
Merged(Q, L) == [p \in Pri |-> Q[p] \o Without(L, {e \in Events : ev_pri[e] # p})]

LEMMA QueuesMerge ==
  ASSUME NEW A, NEW B, NEW Q, NEW L, QueuesOK(A, B, Q, L)
  PROVE  QueuesOK(A \cup B, {}, Merged(Q, L), <<>>)
<1>. DEFINE Rest(p) == Without(L, {e \in Events : ev_pri[e] # p})
            R == [p \in Pri |-> Q[p] \o Rest(p)]
<1>1. ASSUME NEW p \in Pri
      PROVE  Q[p] \o Rest(p) \in Seq(Events) /\ Lists(Q[p] \o Rest(p), Of(A \cup B, p))
  <2>1. Q[p] \in Seq(Events) /\ Lists(Q[p], Of(A, p))
    BY DEF QueuesOK
  <2>2. B \ {e \in Events : ev_pri[e] # p} = Of(B, p)
    BY DEF Of, QueuesOK
  <2>3. Rest(p) \in Seq(Events) /\ Lists(Rest(p), Of(B, p))
    <3>1. L \in Seq(Events) /\ Lists(L, B)
      BY DEF QueuesOK
    <3>2. /\ Rest(p) \in Seq(Events)
          /\ Lists(Rest(p), B \ {e \in Events : ev_pri[e] # p})
      BY <3>1, WithoutLists, Zenon
    <3>. QED  BY <2>2, <3>2, Zenon
  <2>4. Of(A, p) \cap Of(B, p) = {} /\ Of(A \cup B, p) = Of(A, p) \cup Of(B, p)
    BY DEF Of, QueuesOK
  <2>. HIDE DEF Rest
  <2>5. /\ Q[p] \o Rest(p) \in Seq(Events)
        /\ Lists(Q[p] \o Rest(p), Of(A, p) \cup Of(B, p))
    BY <2>1, <2>3, <2>4, ConcatLists, Zenon
  <2>. QED  BY <2>4, <2>5, Zenon
<1>. HIDE DEF Rest
<1>2. R \in [Pri -> Seq(Events)] /\ \A p \in Pri : Lists(R[p], Of(A \cup B, p))
  <2>. DEFINE C(p) == Q[p] \o Rest(p)
  <2>1. \A p \in Pri : C(p) \in Seq(Events) /\ Lists(C(p), Of(A \cup B, p))
    BY <1>1
  <2>2. R = [p \in Pri |-> C(p)]
    OBVIOUS
  <2>. HIDE DEF C
  <2>. QED  BY <2>1, <2>2
<1>. HIDE DEF R
<1>3. <<>> \in Seq(Events) /\ Lists(<<>>, {})
  BY DEF Lists
<1>4. QueuesOK(A \cup B, {}, R, <<>>)
  BY <1>2, <1>3 DEF QueuesOK
<1>. QED  BY <1>4, Zenon DEF R, Rest, Merged

-----------------------------------------------------------------------------
(* The evmap N and the backend W count and watch just the events of I.     *)
On(I, f, c) == {e \in I : ev_fd[e] = f /\ c \in ev_events[e]}
EvmapOK(I, N, W) ==
  /\ I \subseteq Events
  /\ N \in [Fds -> [Conditions -> Nat]] /\ W \in [Fds -> SUBSET Conditions]
  /\ \A f \in Fds, c \in Conditions :
       N[f][c] = Cardinality(On(I, f, c)) /\ (c \in W[f] <=> On(I, f, c) # {})

InsertedEvents == {e \in Events : Has("INSERTED", e)}

LEMMA OnFinite ==
  ASSUME NEW I \in SUBSET Events, NEW f, NEW c
  PROVE  IsFiniteSet(On(I, f, c)) /\ Cardinality(On(I, f, c)) \in Nat
<1>1. IsFiniteSet(Events) /\ On(I, f, c) \in SUBSET Events
  BY EventBaseAssumption DEF On
<1>. QED  BY <1>1, FS_Subset, FS_CardinalityType

LEMMA EvmapDel ==
  ASSUME EvmapOK(InsertedEvents, nio, interest), NEW S \in SUBSET Events,
         evmap_io_del(S)
  PROVE  EvmapOK(InsertedEvents \ S, nio', interest')
<1>. DEFINE I == InsertedEvents
            J == InsertedEvents \ S
            D(f, c) == InsertedIn(S, f, c)
<1>0. I \subseteq Events /\ J \subseteq Events
  BY DEF InsertedEvents
<1>1. ASSUME NEW f \in Fds, NEW c \in Conditions
      PROVE  /\ Cardinality(On(J, f, c)) = Cardinality(On(I, f, c)) - Cardinality(D(f, c))
             /\ Cardinality(On(J, f, c)) \in Nat
             /\ Cardinality(On(J, f, c)) = 0 <=> On(J, f, c) = {}
             /\ D(f, c) = {} => On(J, f, c) = On(I, f, c)
             /\ On(J, f, c) \subseteq On(I, f, c)
  <2>1. On(I, f, c) \cap D(f, c) = D(f, c) /\ On(J, f, c) = On(I, f, c) \ D(f, c)
    BY DEF On, InsertedIn, InsertedEvents
  <2>2. IsFiniteSet(On(I, f, c)) /\ IsFiniteSet(On(J, f, c))
        /\ Cardinality(On(J, f, c)) \in Nat
    BY <1>0, OnFinite
  <2>3. Cardinality(On(I, f, c) \ D(f, c)) =
          Cardinality(On(I, f, c)) - Cardinality(On(I, f, c) \cap D(f, c))
    BY <2>2, FS_Difference
  <2>. QED  BY <2>1, <2>2, <2>3, FS_EmptySet
<1>2. /\ nio' = [f \in Fds |-> [c \in Conditions |->
                                  nio[f][c] - Cardinality(D(f, c))]]
      /\ interest' = [f \in Fds |-> interest[f] \
           {c \in Conditions : D(f, c) # {} /\ nio'[f][c] = 0}]
  BY DEF evmap_io_del
<1>. HIDE DEF I, J, D
<1>3. ASSUME NEW f \in Fds, NEW c \in Conditions
      PROVE  /\ nio'[f][c] = Cardinality(On(J, f, c))
             /\ c \in interest'[f] <=> On(J, f, c) # {}
  <2>1. /\ nio[f][c] = Cardinality(On(I, f, c))
        /\ c \in interest[f] <=> On(I, f, c) # {}
    BY DEF EvmapOK, I
  <2>2. nio'[f][c] = nio[f][c] - Cardinality(D(f, c))
    BY <1>2
  <2>3. c \in interest'[f] <=> c \in interest[f] /\ ~(D(f, c) # {} /\ nio'[f][c] = 0)
    BY <1>2
  <2>. QED  BY <1>1, <2>1, <2>2, <2>3
<1>4. /\ nio' \in [Fds -> [Conditions -> Nat]]
      /\ interest' \in [Fds -> SUBSET Conditions]
  <2>1. \A f \in Fds, c \in Conditions : nio[f][c] - Cardinality(D(f, c)) \in Nat
    BY <1>1, <1>2, <1>3
  <2>. QED  BY <1>2, <2>1 DEF EvmapOK
<1>5. EvmapOK(J, nio', interest')
  BY <1>0, <1>3, <1>4 DEF EvmapOK, J
<1>. QED  BY <1>5 DEF J

LEMMA EvmapAdd ==
  ASSUME EvmapOK(InsertedEvents, nio, interest), NEW e \in Events,
         ~Has("INSERTED", e), evmap_io_add(e)
  PROVE  EvmapOK(InsertedEvents \cup {e}, nio', interest')
<1>. DEFINE I == InsertedEvents
            J == InsertedEvents \cup {e}
            g == ev_fd[e]
            C == ev_events[e] \cap Conditions
<1>0. I \subseteq Events /\ J \subseteq Events /\ e \notin I /\ g \in Fds
  BY EventBaseAssumption DEF InsertedEvents
<1>1. ASSUME NEW f \in Fds, NEW c \in Conditions
      PROVE  IF f = g /\ c \in C
             THEN /\ Cardinality(On(J, f, c)) = Cardinality(On(I, f, c)) + 1
                  /\ On(J, f, c) # {}
             ELSE On(J, f, c) = On(I, f, c)
  <2>1. CASE f = g /\ c \in C
    <3>1. On(J, f, c) = On(I, f, c) \cup {e} /\ e \notin On(I, f, c)
      BY <1>0, <2>1 DEF On
    <3>2. IsFiniteSet(On(I, f, c))
      BY <1>0, OnFinite
    <3>. HIDE DEF I, J
    <3>. QED  BY <2>1, <3>1, <3>2, FS_AddElement
  <2>2. CASE ~(f = g /\ c \in C)
    BY <2>2 DEF On
  <2>. QED  BY <2>1, <2>2
<1>2. /\ nio' = [nio EXCEPT ![g] =
                   [c \in Conditions |-> @[c] + (IF c \in C THEN 1 ELSE 0)]]
      /\ interest' = [interest EXCEPT ![g] = @ \cup {c \in C : nio[g][c] = 0}]
  BY DEF evmap_io_add
<1>3. C \subseteq Conditions
  OBVIOUS
<1>. HIDE DEF I, J, g, C
<1>4. ASSUME NEW f \in Fds, NEW c \in Conditions
      PROVE  /\ nio'[f][c] = Cardinality(On(J, f, c))
             /\ c \in interest'[f] <=> On(J, f, c) # {}
  <2>1. /\ nio[f][c] = Cardinality(On(I, f, c)) /\ nio[f][c] \in Nat
        /\ c \in interest[f] <=> On(I, f, c) # {}
    BY DEF EvmapOK, I
  <2>2. IsFiniteSet(On(I, f, c))
    BY <1>0, OnFinite
  <2>3. nio[f][c] = 0 <=> On(I, f, c) = {}
    BY <2>1, <2>2, FS_EmptySet
  <2>4. nio'[f][c] = nio[f][c] + (IF f = g /\ c \in C THEN 1 ELSE 0)
    BY <1>2, <2>1 DEF EvmapOK
  <2>5. c \in interest'[f] <=>
          c \in interest[f] \/ (f = g /\ c \in C /\ nio[g][c] = 0)
    BY <1>2 DEF EvmapOK
  <2>. QED  BY <1>1, <2>1, <2>3, <2>4, <2>5
<1>5. /\ nio' \in [Fds -> [Conditions -> Nat]]
      /\ interest' \in [Fds -> SUBSET Conditions]
  BY <1>0, <1>2, <1>3 DEF EvmapOK
<1>6. EvmapOK(J, nio', interest')
  BY <1>0, <1>4, <1>5 DEF EvmapOK
<1>. QED  BY <1>6 DEF J

-----------------------------------------------------------------------------
(* The invariant.                                                          *)

ActiveEvents == {e \in Events : Has("ACTIVE", e)}
LaterEvents == {e \in Events : Has("ACTIVE_LATER", e)}
Flags == {"INSERTED", "TIMEOUT", "ACTIVE", "ACTIVE_LATER", "FINALIZING"}

QueuesInv == QueuesOK(ActiveEvents, LaterEvents, activequeues, active_later_queue)
EvmapInv == EvmapOK(InsertedEvents, nio, interest)

(* The types of what is neither a queue nor the evmap.                     *)
StateOK ==
  /\ flags \in [Events -> SUBSET Flags]
  /\ ev_timeout \in [Events -> Nat] /\ ev_io_timeout \in [Events -> Nat]
  /\ ev_res \in [Events -> SUBSET (Conditions \cup {"EV_TIMEOUT", "EV_USER"})]
  /\ n_deferreds_queued \in Nat /\ running \in Pri \cup {-1}
  /\ event_continue \in BOOLEAN /\ event_break \in BOOLEAN
  /\ loopflag \in {"EVLOOP_NONBLOCK", "EVLOOP_ONCE"}
  /\ at \in Places
  /\ current_event \in Events \cup {NoEvent} /\ reported \subseteq Events
  /\ time \in 0..MaxTime /\ tv_cache \in -1..time /\ ops \in 0..MaxOps
  /\ ready \in [Fds -> SUBSET Conditions]
  /\ group \in [Events -> SUBSET Events] /\ finalized \in [Events -> Nat]
  /\ deleted \subseteq Events /\ rearmed \subseteq Events

(* What the loop relies on where it is.                                    *)
PlaceOK ==
  /\ at \in {"process", "callback"} => running \in Pri
  /\ at \in {"evmap", "timeouts", "process", "callback"} => tv_cache # -1
  /\ at = "process" => activequeues[running] # <<>>
  /\ at = "evmap" => \A e \in reported : Has("INSERTED", e)

(* Only deferred callbacks wait for the next pass, and they are not        *)
(* added, timed or told of a condition.  A persistent event that has a     *)
(* timeout has the delay to renew it with.                                 *)
KindsOK ==
  \A e \in Events :
    /\ Has("ACTIVE_LATER", e) => e \in Deferred
    /\ e \in Deferred => ev_res[e] = {} /\ ~Has("INSERTED", e) /\ ~Has("TIMEOUT", e)
    /\ Has("INSERTED", e) => e \in Io
    /\ Has("TIMEOUT", e) /\ e \in Persist => ev_io_timeout[e] # 0

(* The finalizing events are those that were chosen for a group.           *)
GroupsOK ==
  \A e \in Events : /\ Has("FINALIZING", e) <=> group[e] # {}
                    /\ group[e] # {} => e \in group[e]

DeletedOK == \A e \in deleted : flags[e] \subseteq {"FINALIZING"}

(* What waits with a better priority than the one that runs was put there  *)
(* around event_active, or ends the pass.                                  *)
Passed(d) == Has("ACTIVE", d) /\ ev_pri[d] < running
             => d \in Deferred \/ Has("FINALIZING", d)
PriorityOK == at = "process" \/ (at = "callback" /\ ~event_continue)
              => \A d \in Events : Passed(d)

EventInv ==
  /\ StateOK /\ QueuesInv /\ EvmapInv /\ PlaceOK /\ KindsOK
  /\ GroupsOK /\ FinalizedOnce /\ DeletedOK /\ PriorityOK
  /\ TimeoutNotEarly /\ TimedIsWatched

-----------------------------------------------------------------------------
(* The helpers that the handlers share.                                    *)

(* event_active_nolock_ moves one event, from nowhere or the later queue.  *)
LEMMA Activates ==
  ASSUME StateOK, QueuesInv, NEW e \in Events, NEW res,
         event_active_nolock(e, res)
  PROVE  /\ QueuesInv'
         /\ flags' = [flags EXCEPT ![e] = IF "ACTIVE" \in @ THEN @
                                          ELSE (@ \ {"ACTIVE_LATER"}) \cup {"ACTIVE"}]
<1>. DEFINE A == ActiveEvents
            B == LaterEvents
<1>0. flags \in [Events -> SUBSET Flags]
  BY DEF StateOK
<1>1. CASE Has("ACTIVE", e)
  <2>1. UNCHANGED lists
    BY <1>1 DEF event_active_nolock
  <2>. QED  BY <1>0, <1>1, <2>1 DEF QueuesInv, lists, ActiveEvents, LaterEvents, Has
<1>2. CASE ~Has("ACTIVE", e)
  <2>1. /\ flags' = [flags EXCEPT ![e] = (@ \ {"ACTIVE_LATER"}) \cup {"ACTIVE"}]
        /\ activequeues' = Inserted(activequeues, e)
        /\ active_later_queue' = Without(active_later_queue, {e})
    BY <1>2 DEF event_active_nolock
  <2>2. ActiveEvents' = A \cup {e} /\ LaterEvents' = B \ {e} /\ e \notin A
    BY <1>0, <1>2, <2>1 DEF ActiveEvents, LaterEvents, Has
  <2>3. QueuesOK(A, B \ {e}, activequeues, Without(active_later_queue, {e}))
    BY QueuesOff DEF QueuesInv
  <2>. HIDE DEF A, B
  <2>4. QueuesOK(A \cup {e}, B \ {e}, Inserted(activequeues, e),
                 Without(active_later_queue, {e}))
    BY <2>2, <2>3, QueuesInsert
  <2>5. QueuesInv'
    BY <2>1, <2>2, <2>4, Zenon DEF QueuesInv
  <2>. QED  BY <1>0, <1>2, <2>1, <2>5 DEF Has
<1>. QED  BY <1>1, <1>2

(* event_del_nolock_ takes what it deletes off every list.                 *)
LEMMA Deletes ==
  ASSUME StateOK, QueuesInv, EvmapInv, NEW S \in SUBSET Events,
         event_del_nolock(S)
  PROVE  /\ QueuesInv' /\ EvmapInv'
         /\ flags' = [x \in Events |-> IF x \in S THEN flags[x] \cap {"FINALIZING"}
                                       ELSE flags[x]]
<1>. DEFINE A == ActiveEvents
            B == LaterEvents
<1>1. /\ flags' = [x \in Events |-> IF x \in S THEN flags[x] \cap {"FINALIZING"}
                                    ELSE flags[x]]
      /\ activequeues' = Off(S)
      /\ active_later_queue' = Without(active_later_queue, S)
      /\ evmap_io_del(S)
  BY DEF event_del_nolock
<1>2. /\ ActiveEvents' = A \ S /\ LaterEvents' = B \ S
      /\ InsertedEvents' = InsertedEvents \ S
  BY <1>1 DEF ActiveEvents, LaterEvents, InsertedEvents, Has
<1>3. QueuesOK(A \ S, B \ S, Off(S), Without(active_later_queue, S))
  BY QueuesOff, Zenon DEF QueuesInv, Off, AllWithout
<1>4. QueuesInv'
  BY <1>1, <1>2, <1>3, Zenon DEF QueuesInv
<1>5. EvmapInv'
  BY <1>1, <1>2, EvmapDel DEF EvmapInv
<1>. QED  BY <1>1, <1>4, <1>5

(* event_add_nolock_ of an event whose flags and queues are F and Q.       *)
AddsTo(e, F, t) ==
  (F \ (IF t # -1 /\ "ACTIVE" \in F /\ "EV_TIMEOUT" \in ev_res[e]
        THEN {"ACTIVE"} ELSE {}))
    \cup (IF e \in Io /\ F \cap {"INSERTED", "ACTIVE", "ACTIVE_LATER"} = {}
          THEN {"INSERTED"} ELSE {})
    \cup (IF t # -1 THEN {"TIMEOUT"} ELSE {})

LEMMA Adds ==
  ASSUME StateOK, EvmapInv, NEW e \in Events, NEW F \in SUBSET Flags, NEW Q, NEW t,
         QueuesOK({x \in Events : "ACTIVE" \in [flags EXCEPT ![e] = F][x]},
                  LaterEvents, Q, active_later_queue),
         "ACTIVE_LATER" \in F <=> Has("ACTIVE_LATER", e),
         "INSERTED" \in F <=> Has("INSERTED", e),
         event_add_nolock(e, F, Q, t), UNCHANGED active_later_queue
  PROVE  /\ QueuesInv' /\ EvmapInv'
         /\ flags' = [flags EXCEPT ![e] = AddsTo(e, F, t)]
<1>. DEFINE A == {x \in Events : "ACTIVE" \in [flags EXCEPT ![e] = F][x]}
            inserts == e \in Io /\ F \cap {"INSERTED", "ACTIVE", "ACTIVE_LATER"} = {}
            unfires == t # -1 /\ "ACTIVE" \in F /\ "EV_TIMEOUT" \in ev_res[e]
<1>0. flags \in [Events -> SUBSET Flags]
  BY DEF StateOK
<1>1. /\ flags' = [flags EXCEPT ![e] = AddsTo(e, F, t)]
      /\ activequeues' = IF unfires THEN [p \in Pri |-> Without(Q[p], {e})] ELSE Q
      /\ IF inserts THEN evmap_io_add(e) ELSE UNCHANGED evmap
  BY DEF event_add_nolock, AddsTo
<1>2. flags'[e] = AddsTo(e, F, t) /\ \A x \in Events : x # e => flags'[x] = flags[x]
  BY <1>0, <1>1
<1>3. /\ ActiveEvents' = IF unfires THEN A \ {e} ELSE A
      /\ LaterEvents' = LaterEvents
      /\ InsertedEvents' = IF inserts THEN InsertedEvents \cup {e} ELSE InsertedEvents
  BY <1>0, <1>2 DEF ActiveEvents, LaterEvents, InsertedEvents, Has, AddsTo
<1>4. QueuesInv'
  <2>1. CASE unfires
    <3>1. QueuesOK(A \ {e}, LaterEvents, [p \in Pri |-> Without(Q[p], {e})],
                   active_later_queue)
      <4>1. QueuesOK(A, LaterEvents, Q, active_later_queue)
        OBVIOUS
      <4>. HIDE DEF A
      <4>2. QueuesOK(A \ {e}, LaterEvents, AllWithout(Q, {e}), active_later_queue)
        BY <4>1, QueuesOff
      <4>. QED  BY <4>2, Zenon DEF AllWithout
    <3>. QED  BY <1>1, <1>3, <2>1, <3>1 DEF QueuesInv
  <2>2. CASE ~unfires
    BY <1>1, <1>3, <2>2 DEF QueuesInv
  <2>. QED  BY <2>1, <2>2
<1>5. EvmapInv'
  <2>1. CASE inserts
    <3>1. ~Has("INSERTED", e)
      BY <2>1
    <3>. QED  BY <1>1, <1>3, <2>1, <3>1, EvmapAdd DEF EvmapInv
  <2>2. CASE ~inserts
    BY <1>1, <1>3, <2>2 DEF EvmapInv, evmap
  <2>. QED  BY <2>1, <2>2
<1>. QED  BY <1>1, <1>4, <1>5

(* The callback that begins is active, in the queue that runs.             *)
LEMMA NextCallback ==
  ASSUME EventInv, NEW e \in Events, at = "process",
         e = Head(activequeues[running])
  PROVE  /\ e \in ActiveEvents /\ e \notin LaterEvents
         /\ running \in Pri /\ ev_pri[e] = running /\ tv_cache # -1
         /\ QueuesOK(ActiveEvents \ {e}, LaterEvents, Taken, active_later_queue)
<1>1. at = "process" /\ e = Head(activequeues[running])
  OBVIOUS
<1>2. running \in Pri /\ activequeues[running] # <<>> /\ tv_cache # -1
  BY <1>1 DEF EventInv, PlaceOK
<1>3. QueuesOK(ActiveEvents, LaterEvents, activequeues, active_later_queue)
  BY DEF EventInv, QueuesInv
<1>4. ActiveEvents \cap LaterEvents = {}
  BY <1>3 DEF QueuesOK
<1>5. /\ First(activequeues, running) \in ActiveEvents
      /\ ev_pri[First(activequeues, running)] = running
      /\ QueuesOK(ActiveEvents \ {First(activequeues, running)}, LaterEvents,
                  TakenFrom(activequeues, running), active_later_queue)
  <2>1. Waits(activequeues, running)
    BY <1>2 DEF Waits
  <2>. QED  BY <1>2, <1>3, <2>1, QueuesTaken
<1>6. /\ e \in ActiveEvents /\ ev_pri[e] = running
      /\ QueuesOK(ActiveEvents \ {e}, LaterEvents, Taken, active_later_queue)
  BY <1>1, <1>5, Zenon DEF Taken, TakenFrom, First
<1>. QED  BY <1>2, <1>4, <1>6

LEMMA Begun ==
  ASSUME EventInv, NEW e \in Events, Runs(e)
  PROVE  /\ e \in ActiveEvents /\ e \notin LaterEvents
         /\ running \in Pri /\ ev_pri[e] = running /\ tv_cache # -1
         /\ QueuesOK(ActiveEvents \ {e}, LaterEvents, Taken, active_later_queue)
<1>1. at = "process" /\ e = Head(activequeues[running])
  BY DEF Runs
<1>. QED  BY <1>1, NextCallback

(* What of a finalized object is still on a list is its finalizer.         *)
LEMMA OfGroup ==
  ASSUME EventInv, NEW e \in Events
  PROVE  /\ e \notin Closing => group[e] = {} /\ ~Has("FINALIZING", e)
         /\ Has("INSERTED", e) \/ Has("TIMEOUT", e) \/ Has("ACTIVE_LATER", e)
            => e \notin Closing
         /\ Has("ACTIVE", e) /\ ~Has("FINALIZING", e) => e \notin Closing
<1>1. e \in Closing => flags[e] \subseteq IF group[e] # {} /\ finalized[e] = 0
                                          THEN {"ACTIVE", "FINALIZING"}
                                          ELSE {"FINALIZING"}
  BY DEF EventInv, FinalizedOnce
<1>2. /\ Has("FINALIZING", e) <=> group[e] # {}
      /\ group[e] # {} => e \in group[e]
  BY DEF EventInv, GroupsOK
<1>3. group[e] \subseteq Closing
  BY DEF Closing
<1>. QED  BY <1>1, <1>2, <1>3 DEF Has

(* A step that changes the flags of one event, which is of no object that  *)
(* was given up.                                                           *)
LEMMA OneEventGroups ==
  ASSUME EventInv, NEW e \in Events, e \notin Closing, NEW F,
         flags' = [flags EXCEPT ![e] = F], "FINALIZING" \notin F,
         UNCHANGED <<group, finalized>>, at' # "freed"
  PROVE  GroupsOK' /\ FinalizedOnce'
<1>1. group[e] = {}
  BY OfGroup
<1>2. flags \in [Events -> SUBSET Flags]
  BY DEF EventInv, StateOK
<1>3. Closing' = Closing
  BY DEF Closing
<1>4. \A x \in Events : x # e => flags'[x] = flags[x]
  BY <1>2
<1>5. flags'[e] = F
  BY <1>2
<1>6. GroupsOK'
  BY <1>1, <1>4, <1>5 DEF EventInv, GroupsOK, Has
<1>7. \A x \in Events :
        IF group'[x] = {} THEN finalized'[x] = 0
        ELSE finalized'[x] = IF Has("ACTIVE", x)' THEN 0 ELSE 1
  BY <1>1, <1>4 DEF EventInv, FinalizedOnce, Has
<1>8. \A x \in Closing' :
         flags'[x] \subseteq IF group'[x] # {} /\ finalized'[x] = 0
                             THEN {"ACTIVE", "FINALIZING"} ELSE {"FINALIZING"}
  <2>1. Closing \subseteq Events
    BY DEF EventInv, StateOK, Closing
  <2>. QED  BY <1>3, <1>4, <2>1 DEF EventInv, FinalizedOnce
<1>. QED  BY <1>6, <1>7, <1>8 DEF FinalizedOnce

-----------------------------------------------------------------------------
(* The steps that touch no event.                                          *)

QuietStep ==
  \/ \E f \in {"EVLOOP_NONBLOCK", "EVLOOP_ONCE"} : event_base_loop(f)
  \/ Dispatch \/ EvmapDone \/ event_process_active \/ Return \/ DispatchFails
  \/ event_base_loopbreak \/ Consume \/ SIG_HANDLE \/ event_base_free \/ BaseFreed
  \/ Tick \/ (\E f \in Fds, c \in Conditions : Becomes(f, c)) \/ UNCHANGED vars

LEMMA QuietKeeps ==
  ASSUME QuietStep
  PROVE  UNCHANGED <<flags, activequeues, active_later_queue, ev_timeout,
                     ev_io_timeout, ev_res, nio, interest, group, finalized,
                     deleted, rearmed>>
BY DEF QuietStep, event_base_loop, Dispatch, EvmapDone, event_process_active,
       Return, DispatchFails, event_base_loopbreak, Consume, SIG_HANDLE,
       event_base_free, BaseFreed, Tick, Becomes, KeepLists, vars, lists, times,
       evmap, history

LEMMA QuietState ==
  ASSUME EventInv, QuietStep
  PROVE  StateOK'
<1>0. /\ UNCHANGED <<flags, ev_timeout, ev_io_timeout, ev_res, group, finalized,
                     deleted, rearmed>>
      /\ StateOK
  BY QuietKeeps DEF EventInv
<1>1. CASE \E f \in {"EVLOOP_NONBLOCK", "EVLOOP_ONCE"} : event_base_loop(f)
  <2>1. /\ loopflag' \in {"EVLOOP_NONBLOCK", "EVLOOP_ONCE"} /\ event_break' = FALSE
        /\ at' = "top" /\ tv_cache' = -1
        /\ UNCHANGED <<n_deferreds_queued, running, event_continue, current_event,
                       reported, time, ready, ops>>
    BY <1>1 DEF event_base_loop, world
  <2>2. tv_cache' \in -1 .. time'
    BY <1>0, <2>1, EventBaseAssumption DEF StateOK
  <2>. QED  BY <1>0, <2>1, <2>2 DEF StateOK, Places
<1>2. CASE Dispatch
  BY <1>0, <1>2, EventBaseAssumption DEF StateOK, Dispatch, Places, world, loop, Reported
<1>3. CASE EvmapDone \/ SIG_HANDLE \/ event_base_free \/ BaseFreed
  BY <1>0, <1>3 DEF StateOK, EvmapDone, SIG_HANDLE, event_base_free, BaseFreed,
                    Places, world, loop
<1>4. CASE event_process_active
  BY <1>0, <1>4, EventBaseAssumption DEF StateOK, event_process_active, Leave, Places, world
<1>5. CASE Return
  BY <1>0, <1>5, EventBaseAssumption DEF StateOK, Return, Leave, Places, world
<1>6. CASE DispatchFails
  BY <1>0, <1>6, EventBaseAssumption DEF StateOK, DispatchFails, Places, world
<1>7. CASE event_base_loopbreak
  BY <1>0, <1>7, EventBaseAssumption DEF StateOK, event_base_loopbreak, world
<1>8. CASE Consume
  BY <1>0, <1>8 DEF StateOK, Consume, loop
<1>9. CASE Tick
  BY <1>0, <1>9, EventBaseAssumption DEF StateOK, Tick, loop
<1>10. CASE \E f \in Fds, c \in Conditions : Becomes(f, c)
  BY <1>0, <1>10 DEF StateOK, Becomes, loop
<1>11. CASE UNCHANGED vars
  BY <1>0, <1>11 DEF StateOK, vars, loop, world
<1>. QED  BY <1>1, <1>2, <1>3, <1>4, <1>5, <1>6, <1>7, <1>8, <1>9, <1>10, <1>11
          DEF QuietStep

(* The queue that is chosen is the best that is not empty.                 *)
LEMMA ChosenIsBest ==
  ASSUME EventInv, NEW p \in Pri,
         \A q \in 0 .. (p - 1) : activequeues[q] = <<>>,
         NEW d \in Events, Has("ACTIVE", d)
  PROVE  ~(ev_pri[d] < p)
<1>. SUFFICES ASSUME ev_pri[d] < p  PROVE FALSE
  OBVIOUS
<1>0. ev_pri[d] \in Pri /\ p \in Int
  BY EventBaseAssumption DEF Pri
<1>1. ev_pri[d] \in 0 .. (p - 1)
  BY <1>0 DEF Pri
<1>2. Lists(activequeues[ev_pri[d]], Of(ActiveEvents, ev_pri[d]))
  BY <1>0 DEF EventInv, QueuesInv, QueuesOK
<1>3. d \in Of(ActiveEvents, ev_pri[d])
  BY DEF Of, ActiveEvents
<1>4. activequeues[ev_pri[d]] = <<>>
  BY <1>1
<1>. QED  BY <1>2, <1>3, <1>4 DEF Lists

LEMMA QuietPlace ==
  ASSUME EventInv, QuietStep
  PROVE  PlaceOK' /\ PriorityOK'
<1>0. /\ UNCHANGED <<flags, activequeues>>
      /\ StateOK /\ PlaceOK /\ PriorityOK
  BY QuietKeeps DEF EventInv
<1>1. CASE \E f \in {"EVLOOP_NONBLOCK", "EVLOOP_ONCE"} : event_base_loop(f)
  BY <1>1 DEF PlaceOK, PriorityOK, event_base_loop
<1>2. CASE Dispatch
  <2>1. at' = "evmap" /\ tv_cache' = time /\ reported' = Reported
    BY <1>2 DEF Dispatch
  <2>2. time \in 0 .. MaxTime /\ MaxTime \in Nat
    BY EventBaseAssumption DEF EventInv, StateOK
  <2>3. tv_cache' # -1
    BY <2>1, <2>2
  <2>4. \A e \in reported' : Has("INSERTED", e)'
    BY <1>0, <2>1 DEF Reported, Polled, Has
  <2>. QED  BY <2>1, <2>3, <2>4 DEF PlaceOK, PriorityOK
<1>3. CASE EvmapDone \/ SIG_HANDLE \/ event_base_free \/ BaseFreed \/ DispatchFails
  BY <1>0, <1>3 DEF PlaceOK, PriorityOK, EvmapDone, SIG_HANDLE, event_base_free,
                    BaseFreed, DispatchFails
<1>4. CASE event_process_active
  <2>1. CASE N_ACTIVE_CALLBACKS # {}
    <3>1. PICK p \in Pri : /\ activequeues[p] # <<>>
                           /\ \A q \in 0 .. (p - 1) : activequeues[q] = <<>>
                           /\ running' = p
      BY <1>4, <2>1 DEF event_process_active
    <3>2. at' = "process" /\ UNCHANGED tv_cache /\ at = "timeouts"
      BY <1>4, <2>1 DEF event_process_active
    <3>3. \A d \in Events : Has("ACTIVE", d) => ~(ev_pri[d] < p)
      BY <3>1, ChosenIsBest
    <3>4. \A d \in Events : Passed(d)'
      BY <1>0, <3>1, <3>3 DEF Passed, Has
    <3>. QED  BY <1>0, <3>1, <3>2, <3>4 DEF PlaceOK, PriorityOK
  <2>2. CASE N_ACTIVE_CALLBACKS = {}
    BY <1>4, <2>2 DEF event_process_active, Leave, PlaceOK, PriorityOK
  <2>. QED  BY <2>1, <2>2
<1>5. CASE Return
  <2>1. CASE at' = "process"
    <3>1. /\ at = "callback" /\ ~event_continue /\ activequeues[running] # <<>>
          /\ UNCHANGED <<running, tv_cache>>
      BY <1>5, <2>1 DEF Return, Leave
    <3>2. \A d \in Events : Passed(d)'
      BY <1>0, <3>1 DEF Passed, Has, PriorityOK
    <3>. QED  BY <1>0, <2>1, <3>1, <3>2 DEF PlaceOK, PriorityOK
  <2>2. CASE at' # "process"
    <3>1. at' \in {"out", "top"}
      BY <1>5, <2>2 DEF Return, Leave
    <3>. QED  BY <3>1 DEF PlaceOK, PriorityOK
  <2>. QED  BY <2>1, <2>2
<1>6. CASE event_base_loopbreak \/ Consume \/ Tick
           \/ (\E f \in Fds, c \in Conditions : Becomes(f, c)) \/ UNCHANGED vars
  <2>1. UNCHANGED <<at, running, tv_cache, reported, event_continue>>
    BY <1>6 DEF event_base_loopbreak, Consume, Tick, Becomes, vars, loop
  <2>. QED  BY <1>0, <2>1 DEF PlaceOK, PriorityOK, Passed, Has
<1>. QED  BY <1>1, <1>2, <1>3, <1>4, <1>5, <1>6 DEF QuietStep

LEMMA QuietInv ==
  ASSUME EventInv, QuietStep
  PROVE  EventInv'
<1>1. UNCHANGED <<flags, activequeues, active_later_queue, ev_timeout,
                  ev_io_timeout, ev_res, nio, interest, group, finalized,
                  deleted, rearmed>>
  BY QuietKeeps
<1>2. QueuesInv' /\ EvmapInv'
  BY <1>1 DEF EventInv, QueuesInv, EvmapInv, ActiveEvents, LaterEvents,
              InsertedEvents, Has
<1>3. KindsOK' /\ GroupsOK' /\ DeletedOK' /\ TimedIsWatched'
  BY <1>1 DEF EventInv, KindsOK, GroupsOK, DeletedOK, TimedIsWatched, Has
<1>4. FinalizedOnce'
  <2>1. Closing' = Closing
    BY <1>1 DEF Closing
  <2>2. ASSUME NEW e \in Events, group[e] # {}, at' = "freed"  PROVE finalized[e] = 1
    <3>1. CASE at = "freed"
      BY <2>2, <3>1 DEF EventInv, FinalizedOnce
    <3>2. CASE at # "freed"
      <4>1. BaseFreed
        BY <2>2, <3>2 DEF QuietStep, event_base_loop, Dispatch, EvmapDone,
             event_process_active, Leave, Return, DispatchFails,
             event_base_loopbreak, Consume, SIG_HANDLE, event_base_free, Tick,
             Becomes, vars
      <4>2. ~Has("ACTIVE", e)
        BY <4>1 DEF BaseFreed, N_ACTIVE_CALLBACKS, InUse, Has
      <4>. QED  BY <2>2, <4>2 DEF EventInv, FinalizedOnce
    <3>. QED  BY <3>1, <3>2
  <2>. QED  BY <1>1, <2>1, <2>2 DEF EventInv, FinalizedOnce, Has
<1>5. TimeoutNotEarly'
  <2>1. time \in Int /\ time' \in Int /\ time <= time'
    <3>1. time \in Nat
      BY EventBaseAssumption DEF EventInv, StateOK
    <3>2. time' = time \/ time' = time + 1
      BY DEF QuietStep, event_base_loop, Dispatch, EvmapDone,
             event_process_active, Return, DispatchFails,
             event_base_loopbreak, Consume, SIG_HANDLE, event_base_free, BaseFreed,
             Tick, Becomes, vars, world
    <3>. QED  BY <3>1, <3>2
  <2>2. \A e \in Events : ev_timeout[e] \in Nat
    BY DEF EventInv, StateOK
  <2>. QED  BY <1>1, <2>1, <2>2 DEF EventInv, TimeoutNotEarly, Has
<1>. QED  BY <1>2, <1>3, <1>4, <1>5, QuietState, QuietPlace DEF EventInv

-----------------------------------------------------------------------------
(* event_active_nolock_, of a struct event of no finalized object.         *)
LEMMA ActivateInv ==
  ASSUME EventInv, NEW e \in Events, NEW res \in SUBSET (Conditions \cup {"EV_USER"}),
         e \notin Closing, e \notin Deferred, e \notin deleted', at # "freed",
         at # "process", event_active_nolock(e, res), deleted' \subseteq deleted,
         reported' \subseteq reported, ops' \in 0..MaxOps,
         UNCHANGED <<times, evmap, loop, at, current_event, tv_cache, world,
                     group, finalized, rearmed>>
  PROVE  EventInv'
<1>0. StateOK /\ QueuesInv /\ EvmapInv /\ PlaceOK /\ KindsOK /\ DeletedOK
      /\ PriorityOK /\ TimeoutNotEarly /\ TimedIsWatched
  BY DEF EventInv
<1>. DEFINE F == IF "ACTIVE" \in flags[e] THEN flags[e]
                 ELSE (flags[e] \ {"ACTIVE_LATER"}) \cup {"ACTIVE"}
<1>1. QueuesInv' /\ flags' = [flags EXCEPT ![e] = F]
  BY <1>0, Activates
<1>2. /\ flags \in [Events -> SUBSET Flags] /\ F \in SUBSET Flags
      /\ ~Has("ACTIVE_LATER", e) /\ ~Has("FINALIZING", e)
  BY <1>0, OfGroup DEF StateOK, KindsOK, Has, Flags
<1>3. flags'[e] = F /\ (\A x \in Events : x # e => flags'[x] = flags[x])
      /\ F = flags[e] \cup {"ACTIVE"}
  BY <1>1, <1>2 DEF Has
<1>4. /\ ev_res' = [ev_res EXCEPT ![e] = IF InUse(e) THEN @ \cup res ELSE res]
      /\ IF Has("ACTIVE", e) THEN UNCHANGED event_continue
         ELSE event_continue' = (event_continue \/ ev_pri[e] < running)
  BY DEF event_active_nolock
<1>5. UNCHANGED <<ev_timeout, ev_io_timeout, nio, interest, n_deferreds_queued,
                  running, event_break, loopflag, at, current_event, tv_cache,
                  time, ready, group, finalized, rearmed>>
  BY DEF times, evmap, loop, world
<1>. HIDE DEF F
<1>6. EvmapInv'
  <2>1. InsertedEvents' = InsertedEvents
    BY <1>3 DEF InsertedEvents, Has
  <2>. QED  BY <1>0, <1>5, <2>1 DEF EvmapInv
<1>7. StateOK'
  <2>1. event_continue' \in BOOLEAN
    BY <1>0, <1>4 DEF StateOK
  <2>2. ev_res' \in [Events -> SUBSET (Conditions \cup {"EV_TIMEOUT", "EV_USER"})]
    BY <1>0, <1>4 DEF StateOK
  <2>. QED  BY <1>0, <1>1, <1>2, <1>5, <2>1, <2>2 DEF StateOK
<1>8. PlaceOK'
  BY <1>0, <1>3, <1>5 DEF PlaceOK, StateOK, Has
<1>9. KindsOK'
  BY <1>0, <1>3, <1>4, <1>5 DEF KindsOK, StateOK, Has
<1>10. GroupsOK' /\ FinalizedOnce'
  BY <1>1, <1>2, <1>3, <1>5, OneEventGroups DEF Has
<1>11. DeletedOK'
  BY <1>0, <1>3 DEF DeletedOK, StateOK
<1>12. PriorityOK'
  <2>. SUFFICES ASSUME at' = "callback", ~event_continue', NEW d \in Events
                PROVE  Passed(d)'
    BY <1>5 DEF PriorityOK
  <2>1. at = "callback" /\ ~event_continue
    BY <1>4, <1>5
  <2>2. Passed(d)
    BY <1>0, <2>1 DEF PriorityOK
  <2>3. d = e => Has("ACTIVE", e) \/ ~(ev_pri[e] < running)
    BY <1>4
  <2>4. d = e => Passed(d)'
    BY <1>3, <1>5, <2>2, <2>3 DEF Passed, Has
  <2>. QED  BY <1>3, <1>5, <2>2, <2>4 DEF Passed, Has
<1>13. TimeoutNotEarly'
  <2>. SUFFICES ASSUME NEW x \in Events, Has("ACTIVE", x)', "EV_TIMEOUT" \in ev_res'[x],
                       ~Has("FINALIZING", x)'
                PROVE  ev_timeout'[x] <= time'
    BY DEF TimeoutNotEarly
  <2>1. "EV_TIMEOUT" \in ev_res[x] /\ (x = e => InUse(e))
    BY <1>0, <1>4 DEF StateOK, Conditions
  <2>2. Has("ACTIVE", x) /\ ~Has("FINALIZING", x)
    BY <1>2, <1>3, <2>1 DEF Has, InUse
  <2>. QED  BY <1>0, <1>5, <2>1, <2>2 DEF TimeoutNotEarly
<1>14. TimedIsWatched'
  BY <1>0, <1>3, <1>5 DEF TimedIsWatched, Has, Io
<1>. QED  BY <1>1, <1>6, <1>7, <1>8, <1>9, <1>10, <1>11, <1>12, <1>13, <1>14
          DEF EventInv

LEMMA EvmapActiveInv ==
  ASSUME EventInv, NEW e \in Events, evmap_io_active(e)
  PROVE  EventInv'
<1>1. /\ at = "evmap" /\ e \in reported /\ event_active_nolock(e, Polled(e))
      /\ reported' = reported \ {e}
      /\ UNCHANGED <<times, evmap, loop, at, current_event, tv_cache, world, ops,
                     group, finalized, rearmed, deleted>>
  BY DEF evmap_io_active, history
<1>2. Has("INSERTED", e)
  BY <1>1 DEF EventInv, PlaceOK
<1>3. e \notin Closing /\ e \notin Deferred /\ e \notin deleted
  BY <1>2, OfGroup DEF EventInv, KindsOK, DeletedOK, Has
<1>4. Polled(e) \in SUBSET (Conditions \cup {"EV_USER"})
  <2>1. ev_fd[e] \in Fds /\ interest \in [Fds -> SUBSET Conditions]
    BY EventBaseAssumption DEF EventInv, EvmapInv, EvmapOK
  <2>. QED  BY <2>1 DEF Polled
<1>5. ops' \in 0..MaxOps
  BY <1>1 DEF EventInv, StateOK
<1>. QED  BY <1>1, <1>3, <1>4, <1>5, ActivateInv

(* What an operation has in common.                                        *)
LEMMA Turns ==
  ASSUME EventInv, NEW e \in Events, Turn(e)
  PROVE  /\ at \in {"callback", "out"} /\ e \notin Closing /\ ops' \in 0..MaxOps
         /\ UNCHANGED <<loop, at, current_event, reported, tv_cache, world,
                        group, finalized>>
<1>1. ops \in 0..MaxOps /\ MaxOps \in Nat
  BY EventBaseAssumption DEF EventInv, StateOK
<1>. QED  BY <1>1 DEF Turn

LEMMA ActiveInv ==
  ASSUME EventInv, NEW e \in Events, event_active(e)
  PROVE  EventInv'
<1>1. /\ Turn(e) /\ e \notin Deferred /\ event_active_nolock(e, {"EV_USER"})
      /\ deleted' = deleted \ {e} /\ UNCHANGED <<times, evmap, rearmed>>
  BY DEF event_active
<1>2. /\ at \in {"callback", "out"} /\ e \notin Closing /\ ops' \in 0..MaxOps
      /\ UNCHANGED <<loop, at, current_event, reported, tv_cache, world,
                     group, finalized>>
  BY <1>1, Turns
<1>3. {"EV_USER"} \in SUBSET (Conditions \cup {"EV_USER"})
  OBVIOUS
<1>. QED  BY <1>1, <1>2, <1>3, ActivateInv

-----------------------------------------------------------------------------
(* The other operations.                                                   *)

LEMMA AddInv ==
  ASSUME EventInv, NEW e \in Events, NEW tv \in Timeouts \cup {-1}, event_add(e, tv)
  PROVE  EventInv'
<1>0. StateOK /\ QueuesInv /\ EvmapInv /\ PlaceOK /\ KindsOK /\ DeletedOK
      /\ PriorityOK /\ TimeoutNotEarly /\ TimedIsWatched
  BY DEF EventInv
<1>. DEFINE t == IF tv = -1 THEN -1 ELSE gettime + tv
            G == AddsTo(e, flags[e], t)
<1>1. /\ e \notin Deferred
      /\ event_add_nolock(e, flags[e], activequeues, t)
      /\ ev_io_timeout' =
           [ev_io_timeout EXCEPT ![e] = IF tv # -1 /\ e \in Persist THEN tv ELSE @]
      /\ deleted' = deleted \ {e}
      /\ UNCHANGED <<active_later_queue, ev_res, event_continue>>
  BY DEF event_add
<1>2. /\ at \in {"callback", "out"} /\ e \notin Closing /\ ops' \in 0..MaxOps
      /\ UNCHANGED <<n_deferreds_queued, running, event_break, loopflag, at,
                     current_event, reported, tv_cache, time, ready, group, finalized>>
  <2>1. Turn(e)
    BY DEF event_add
  <2>. QED  BY <2>1, Turns DEF loop, world
<1>3. flags \in [Events -> SUBSET Flags] /\ flags[e] \in SUBSET Flags
      /\ Timeouts \subseteq Nat \ {0} /\ time \in Nat /\ tv_cache \in -1..time
      /\ ev_timeout \in [Events -> Nat] /\ ev_io_timeout \in [Events -> Nat]
  BY <1>0, EventBaseAssumption DEF StateOK
<1>4. t = -1 \/ t \in Nat
  BY <1>3 DEF gettime
<1>5. tv = -1 <=> t = -1
  BY <1>3 DEF gettime
<1>. HIDE DEF t
<1>6. QueuesInv' /\ EvmapInv' /\ flags' = [flags EXCEPT ![e] = G]
  <2>1. {x \in Events : "ACTIVE" \in [flags EXCEPT ![e] = flags[e]][x]} = ActiveEvents
    BY <1>3 DEF ActiveEvents, Has
  <2>2. QueuesOK({x \in Events : "ACTIVE" \in [flags EXCEPT ![e] = flags[e]][x]},
                 LaterEvents, activequeues, active_later_queue)
    BY <1>0, <2>1, Zenon DEF QueuesInv
  <2>3. /\ "ACTIVE_LATER" \in flags[e] <=> Has("ACTIVE_LATER", e)
        /\ "INSERTED" \in flags[e] <=> Has("INSERTED", e)
    BY DEF Has
  <2>. QED  BY <1>0, <1>1, <1>3, <2>2, <2>3, Adds
<1>7. /\ ev_timeout' = [ev_timeout EXCEPT ![e] = IF t # -1 THEN t ELSE @]
      /\ rearmed' = IF (t # -1 /\ "ACTIVE" \in flags[e] /\ "EV_TIMEOUT" \in ev_res[e])
                       /\ "INSERTED" \notin flags[e]
                    THEN rearmed \cup {e} ELSE rearmed
  BY <1>1 DEF event_add_nolock
<1>8. ~Has("FINALIZING", e) /\ ~Has("ACTIVE_LATER", e)
  BY <1>0, <1>1, <1>2, OfGroup DEF KindsOK
<1>9. /\ G \subseteq flags[e] \cup {"INSERTED", "TIMEOUT"} /\ "FINALIZING" \notin G
      /\ flags[e] \subseteq G \cup {"ACTIVE"}
      /\ "ACTIVE" \in G => ~(t # -1 /\ "EV_TIMEOUT" \in ev_res[e])
      /\ "TIMEOUT" \in G <=> t # -1 \/ "TIMEOUT" \in flags[e]
      /\ "INSERTED" \in G /\ "INSERTED" \notin flags[e] => e \in Io
      /\ e \in Io /\ "ACTIVE" \notin flags[e] => "INSERTED" \in G
      /\ e \in Io /\ "ACTIVE" \notin G /\ "INSERTED" \notin G =>
           t # -1 /\ "ACTIVE" \in flags[e] /\ "EV_TIMEOUT" \in ev_res[e]
           /\ "INSERTED" \notin flags[e]
  BY <1>8 DEF AddsTo, Has
<1>. HIDE DEF G
<1>10. flags'[e] = G /\ (\A x \in Events : x # e => flags'[x] = flags[x])
  BY <1>3, <1>6
<1>11. StateOK'
  <2>1. G \in SUBSET Flags
    BY <1>3, <1>9 DEF Flags
  <2>2. flags' \in [Events -> SUBSET Flags]
    BY <1>3, <1>6, <2>1
  <2>3. ev_timeout' \in [Events -> Nat]
    BY <1>3, <1>4, <1>7
  <2>4. ev_io_timeout' \in [Events -> Nat]
    BY <1>1, <1>3
  <2>. QED  BY <1>0, <1>1, <1>2, <1>7, <2>2, <2>3, <2>4 DEF StateOK
<1>12. PlaceOK'
  BY <1>0, <1>2 DEF PlaceOK
<1>13. KindsOK'
  BY <1>0, <1>1, <1>3, <1>5, <1>8, <1>9, <1>10 DEF KindsOK, Has
<1>14. GroupsOK' /\ FinalizedOnce'
  BY <1>2, <1>6, <1>9, OneEventGroups
<1>15. DeletedOK'
  BY <1>0, <1>1, <1>10 DEF DeletedOK, StateOK
<1>16. PriorityOK'
  <2>. SUFFICES ASSUME at' = "callback", ~event_continue', NEW d \in Events
                PROVE  Passed(d)'
    BY <1>2 DEF PriorityOK
  <2>1. Passed(d)
    BY <1>0, <1>1, <1>2 DEF PriorityOK
  <2>. QED  BY <1>2, <1>8, <1>9, <1>10, <2>1 DEF Passed, Has
<1>17. TimeoutNotEarly'
  <2>. SUFFICES ASSUME NEW x \in Events, Has("ACTIVE", x)', "EV_TIMEOUT" \in ev_res[x],
                       ~Has("FINALIZING", x)'
                PROVE  ev_timeout'[x] <= time
    BY <1>1, <1>2 DEF TimeoutNotEarly
  <2>1. Has("ACTIVE", x) /\ ~Has("FINALIZING", x)
    BY <1>8, <1>9, <1>10 DEF Has
  <2>2. ev_timeout'[x] = ev_timeout[x]
    BY <1>3, <1>7, <1>9, <1>10 DEF Has
  <2>. QED  BY <1>0, <2>1, <2>2 DEF TimeoutNotEarly
<1>18. TimedIsWatched'
  <2>. SUFFICES ASSUME NEW x \in Io, Has("TIMEOUT", x)', ~Has("ACTIVE", x)',
                       x \notin rearmed'
                PROVE  Has("INSERTED", x)'
    BY DEF TimedIsWatched, Io
  <2>0. x \in Events
    BY DEF Io
  <2>1. CASE x = e
    BY <1>7, <1>9, <1>10, <2>1 DEF Has
  <2>2. CASE x # e
    BY <1>0, <1>7, <1>10, <2>0, <2>2 DEF TimedIsWatched, Has
  <2>. QED  BY <2>1, <2>2
<1>. QED  BY <1>6, <1>11, <1>12, <1>13, <1>14, <1>15, <1>16, <1>17, <1>18 DEF EventInv

(* A step that deletes one event of no finalized object.                   *)
LEMMA DeleteInv ==
  ASSUME EventInv, NEW e \in Events, event_del_nolock({e}), e \notin Closing,
         at' = at, at \notin {"process", "evmap", "freed"}, ops' \in 0..MaxOps,
         deleted' \subseteq deleted \cup {e}, rearmed' = rearmed \ {e},
         UNCHANGED <<times, ev_res, loop, event_continue, current_event, reported,
                     tv_cache, world, group, finalized>>
  PROVE  EventInv'
<1>0. StateOK /\ QueuesInv /\ EvmapInv /\ PlaceOK /\ KindsOK /\ DeletedOK
      /\ PriorityOK /\ TimeoutNotEarly /\ TimedIsWatched
  BY DEF EventInv
<1>1. /\ QueuesInv' /\ EvmapInv'
      /\ flags' = [x \in Events |-> IF x \in {e} THEN flags[x] \cap {"FINALIZING"}
                                    ELSE flags[x]]
  BY <1>0, Deletes
<1>2. flags \in [Events -> SUBSET Flags] /\ ~Has("FINALIZING", e)
  BY <1>0, OfGroup DEF StateOK
<1>3. /\ flags' = [flags EXCEPT ![e] = {}] /\ flags'[e] = {}
      /\ \A x \in Events : x # e => flags'[x] = flags[x]
  BY <1>1, <1>2 DEF Has
<1>4. UNCHANGED <<ev_timeout, ev_io_timeout, n_deferreds_queued,
                  running, event_break, loopflag, time, ready>>
  BY DEF times, loop, world
<1>5. StateOK'
  BY <1>0, <1>2, <1>3, <1>4 DEF StateOK
<1>6. PlaceOK' /\ KindsOK' /\ DeletedOK'
  BY <1>0, <1>3, <1>4 DEF PlaceOK, KindsOK, DeletedOK, StateOK, Has
<1>7. GroupsOK' /\ FinalizedOnce'
  BY <1>3, OneEventGroups
<1>8. PriorityOK' /\ TimeoutNotEarly' /\ TimedIsWatched'
  BY <1>0, <1>3, <1>4 DEF PriorityOK, Passed, TimeoutNotEarly, TimedIsWatched, Has, Io
<1>. QED  BY <1>1, <1>5, <1>6, <1>7, <1>8 DEF EventInv

LEMMA DelInv ==
  ASSUME EventInv, NEW e \in Events, event_del(e)
  PROVE  EventInv'
<1>1. /\ Turn(e) /\ event_del_nolock({e})
      /\ deleted' = deleted \cup {e} /\ rearmed' = rearmed \ {e}
      /\ UNCHANGED <<times, ev_res, event_continue>>
  BY DEF event_del
<1>. QED  BY <1>1, Turns, DeleteInv

LEMMA FreePendingInv ==
  ASSUME EventInv, NEW e \in Events, FreePending(e)
  PROVE  EventInv'
<1>1. /\ at = "free" /\ e \in Pending /\ event_del_nolock({e})
      /\ rearmed' = rearmed \ {e}
      /\ UNCHANGED <<times, ev_res, loop, event_continue, at, current_event,
                     reported, tv_cache, world, ops, group, finalized, deleted>>
  BY DEF FreePending
<1>2. e \notin Closing
  BY <1>1, OfGroup DEF Pending, Has
<1>3. ops' \in 0..MaxOps
  BY <1>1 DEF EventInv, StateOK
<1>. QED  BY <1>1, <1>2, <1>3, DeleteInv

LEMMA ScheduleInv ==
  ASSUME EventInv, NEW d \in Events, event_deferred_cb_schedule(d)
  PROVE  EventInv'
<1>0. StateOK /\ QueuesInv /\ EvmapInv /\ PlaceOK /\ KindsOK /\ DeletedOK
      /\ PriorityOK /\ TimeoutNotEarly /\ TimedIsWatched
  BY DEF EventInv
<1>1. /\ at \in {"callback", "out"} /\ d \in Deferred /\ d \notin Closing
      /\ deleted' = deleted \ {d}
      /\ ops < MaxOps /\ ops' = ops + 1
      /\ UNCHANGED <<ev_timeout, ev_io_timeout, ev_res, nio, interest, running,
                     event_break, loopflag, event_continue, at, current_event,
                     reported, tv_cache, time, ready, group, finalized, rearmed>>
  BY DEF event_deferred_cb_schedule, times, evmap, world
<1>2. flags \in [Events -> SUBSET Flags] /\ ~Has("FINALIZING", d)
      /\ ~Has("INSERTED", d) /\ ~Has("TIMEOUT", d)
  BY <1>0, <1>1, OfGroup DEF StateOK, KindsOK
<1>3. /\ QueuesInv'
      /\ \E F \in SUBSET {"ACTIVE", "ACTIVE_LATER"} : flags' = [flags EXCEPT ![d] = F]
  <2>. DEFINE A == ActiveEvents
              B == LaterEvents
  <2>0. flags[d] \subseteq {"ACTIVE", "ACTIVE_LATER"}
    BY <1>2 DEF Has, Flags
  <2>1. CASE UNCHANGED lists
    <3>1. QueuesInv'
      BY <1>0, <2>1 DEF QueuesInv, lists, ActiveEvents, LaterEvents, Has
    <3>2. flags' = [flags EXCEPT ![d] = flags[d]]
      BY <1>2, <2>1 DEF lists
    <3>. QED  BY <2>0, <3>1, <3>2
  <2>2. CASE /\ ~InUse(d)
             /\ flags' = [flags EXCEPT ![d] = @ \cup {"ACTIVE_LATER"}]
             /\ active_later_queue' = Append(active_later_queue, d)
             /\ UNCHANGED activequeues
    <3>1. /\ ActiveEvents' = A /\ LaterEvents' = B \cup {d}
          /\ d \notin A /\ d \notin B
      BY <1>2, <2>2 DEF ActiveEvents, LaterEvents, Has, InUse
    <3>. HIDE DEF A, B
    <3>2. QueuesOK(A, B \cup {d}, activequeues, Append(active_later_queue, d))
      BY <1>0, <3>1, QueuesInsert DEF QueuesInv, A, B
    <3>3. QueuesInv'
      BY <2>2, <3>1, <3>2, Zenon DEF QueuesInv
    <3>4. flags' = [flags EXCEPT ![d] = flags[d] \cup {"ACTIVE_LATER"}]
      BY <2>2
    <3>. QED  BY <2>0, <3>3, <3>4
  <2>3. CASE /\ ~Has("ACTIVE", d)
             /\ flags' = [flags EXCEPT ![d] = (@ \ {"ACTIVE_LATER"}) \cup {"ACTIVE"}]
             /\ activequeues' = Inserted(activequeues, d)
             /\ active_later_queue' = Without(active_later_queue, {d})
    <3>1. ActiveEvents' = A \cup {d} /\ LaterEvents' = B \ {d} /\ d \notin A
      BY <1>2, <2>3 DEF ActiveEvents, LaterEvents, Has
    <3>2. QueuesOK(A, B \ {d}, activequeues, Without(active_later_queue, {d}))
      BY <1>0, QueuesOff DEF QueuesInv
    <3>. HIDE DEF A, B
    <3>3. QueuesOK(A \cup {d}, B \ {d}, Inserted(activequeues, d),
                   Without(active_later_queue, {d}))
      BY <3>1, <3>2, QueuesInsert
    <3>4. QueuesInv'
      BY <2>3, <3>1, <3>3, Zenon DEF QueuesInv
    <3>5. flags' = [flags EXCEPT ![d] = (flags[d] \ {"ACTIVE_LATER"}) \cup {"ACTIVE"}]
      BY <2>3
    <3>. QED  BY <2>0, <3>4, <3>5
  <2>. QED  BY <2>1, <2>2, <2>3 DEF event_deferred_cb_schedule
<1>4. PICK F \in SUBSET {"ACTIVE", "ACTIVE_LATER"} : flags' = [flags EXCEPT ![d] = F]
  BY <1>3
<1>5. flags'[d] = F /\ (\A x \in Events : x # d => flags'[x] = flags[x])
  BY <1>2, <1>4
<1>6. StateOK'
  <2>1. flags' \in [Events -> SUBSET Flags]
    BY <1>2, <1>4 DEF Flags
  <2>2. n_deferreds_queued' \in Nat
    BY <1>0 DEF event_deferred_cb_schedule, StateOK
  <2>3. ops' \in 0..MaxOps
    BY <1>0, <1>1, EventBaseAssumption DEF StateOK
  <2>. QED  BY <1>0, <1>1, <2>1, <2>2, <2>3 DEF StateOK
<1>7. EvmapInv'
  <2>1. InsertedEvents' = InsertedEvents
    BY <1>2, <1>5 DEF InsertedEvents, Has
  <2>. QED  BY <1>0, <1>1, <2>1 DEF EvmapInv
<1>8. PlaceOK' /\ KindsOK' /\ DeletedOK'
  <2>1. PlaceOK'
    BY <1>0, <1>1 DEF PlaceOK
  <2>2. KindsOK'
    BY <1>0, <1>1, <1>5 DEF KindsOK, Has
  <2>3. DeletedOK'
    BY <1>0, <1>1, <1>5 DEF DeletedOK, StateOK
  <2>. QED  BY <2>1, <2>2, <2>3
<1>9. GroupsOK' /\ FinalizedOnce'
  BY <1>1, <1>4, OneEventGroups
<1>10. PriorityOK'
  BY <1>0, <1>1, <1>5 DEF PriorityOK, Passed, Has
<1>11. TimeoutNotEarly'
  BY <1>0, <1>1, <1>5 DEF TimeoutNotEarly, KindsOK, Has
<1>12. TimedIsWatched'
  BY <1>0, <1>1, <1>5 DEF TimedIsWatched, Has, Io
<1>. QED  BY <1>3, <1>6, <1>7, <1>8, <1>9, <1>10, <1>11, <1>12 DEF EventInv

(* event_callback_finalize_many_: the group leaves every list and its      *)
(* finalizer enters one.                                                   *)
LEMMA FinalizeInv ==
  ASSUME EventInv, NEW S \in Groups, NEW x \in S, event_callback_finalize_many(S, x)
  PROVE  EventInv'
<1>0. StateOK /\ QueuesInv /\ EvmapInv /\ PlaceOK /\ KindsOK /\ DeletedOK
      /\ PriorityOK /\ TimeoutNotEarly /\ TimedIsWatched /\ GroupsOK /\ FinalizedOnce
  BY DEF EventInv
<1>1. /\ at \in {"callback", "out", "close"} /\ S \cap Closing = {}
      /\ ops < MaxOps /\ ops' = ops + 1
      /\ flags' = [e \in Events |->
                     CASE e = x -> {"ACTIVE", "FINALIZING"}
                       [] e \in S \ {x} -> flags[e] \cap {"FINALIZING"}
                       [] OTHER -> flags[e]]
      /\ activequeues' = Inserted(Off(S), x)
      /\ active_later_queue' = Without(active_later_queue, S)
      /\ evmap_io_del(S)
      /\ group' = [group EXCEPT ![x] = S]
      /\ rearmed' = rearmed \ S /\ deleted' = deleted \ S
      /\ UNCHANGED <<ev_timeout, ev_io_timeout, ev_res, n_deferreds_queued, running,
                     event_break, loopflag, event_continue, at, current_event,
                     reported, tv_cache, time, ready, finalized>>
  BY DEF event_callback_finalize_many, times, loop, world
<1>2. S \subseteq Events /\ x \in Events /\ flags \in [Events -> SUBSET Flags]
      /\ group \in [Events -> SUBSET Events]
  BY <1>0, EventBaseAssumption DEF StateOK
<1>3. ASSUME NEW e \in S  PROVE e \in Events /\ group[e] = {} /\ ~Has("FINALIZING", e)
  BY <1>1, <1>2, OfGroup
<1>4. /\ flags'[x] = {"ACTIVE", "FINALIZING"}
      /\ \A e \in S \ {x} : flags'[e] = {}
      /\ \A e \in Events \ S : flags'[e] = flags[e]
  BY <1>1, <1>2, <1>3 DEF Has
<1>5. group'[x] = S /\ \A e \in Events : e # x => group'[e] = group[e]
  BY <1>1, <1>2
<1>6. QueuesInv'
  <2>. DEFINE A == ActiveEvents
              B == LaterEvents
  <2>1. /\ ActiveEvents' = (A \ S) \cup {x} /\ LaterEvents' = B \ S
        /\ x \notin A \ S /\ x \notin B \ S
    BY <1>2, <1>4 DEF ActiveEvents, LaterEvents, Has
  <2>2. QueuesOK(A \ S, B \ S, AllWithout(activequeues, S), Without(active_later_queue, S))
    BY <1>0, QueuesOff DEF QueuesInv
  <2>. HIDE DEF A, B
  <2>3. QueuesOK((A \ S) \cup {x}, B \ S, Inserted(AllWithout(activequeues, S), x),
                 Without(active_later_queue, S))
    BY <1>2, <2>1, <2>2, QueuesInsert
  <2>4. AllWithout(activequeues, S) = Off(S)
    BY Zenon DEF AllWithout, Off
  <2>. QED  BY <1>1, <2>1, <2>3, <2>4, Zenon DEF QueuesInv
<1>7. EvmapInv'
  <2>1. InsertedEvents' = InsertedEvents \ S
    BY <1>2, <1>4 DEF InsertedEvents, Has
  <2>. QED  BY <1>0, <1>1, <1>2, <2>1, EvmapDel DEF EvmapInv
<1>8. StateOK'
  <2>1. flags' \in [Events -> SUBSET Flags]
    BY <1>1, <1>2 DEF Flags
  <2>2. group' \in [Events -> SUBSET Events] /\ rearmed' \subseteq Events
        /\ deleted' \subseteq Events
    BY <1>0, <1>1, <1>2 DEF StateOK
  <2>3. ops' \in 0..MaxOps
    BY <1>0, <1>1, EventBaseAssumption DEF StateOK
  <2>. QED  BY <1>0, <1>1, <2>1, <2>2, <2>3 DEF StateOK
<1>9. PlaceOK'
  BY <1>0, <1>1 DEF PlaceOK
<1>10. KindsOK'
  BY <1>0, <1>1, <1>2, <1>4 DEF KindsOK, Has
<1>11. DeletedOK'
  BY <1>0, <1>1, <1>2, <1>4 DEF DeletedOK, StateOK
<1>12. GroupsOK'
  BY <1>0, <1>2, <1>3, <1>4, <1>5 DEF GroupsOK, Has
<1>13. FinalizedOnce'
  <2>1. Closing' = Closing \cup S
    BY <1>2, <1>3, <1>5 DEF Closing
  <2>2. finalized[x] = 0
    BY <1>0, <1>2, <1>3 DEF FinalizedOnce
  <2>3. ASSUME NEW e \in Events
        PROVE  IF group'[e] = {} THEN finalized[e] = 0 ELSE
                 finalized[e] = IF Has("ACTIVE", e)' THEN 0 ELSE 1
    <3>1. CASE e = x
      BY <1>4, <1>5, <2>2, <3>1 DEF Has
    <3>2. CASE e \in S \ {x}
      BY <1>0, <1>3, <1>5, <3>2 DEF FinalizedOnce
    <3>3. CASE e \notin S
      BY <1>0, <1>4, <1>5, <3>3 DEF FinalizedOnce, Has
    <3>. QED  BY <3>1, <3>2, <3>3
  <2>4. ASSUME NEW e \in Closing'
        PROVE  flags'[e] \subseteq IF group'[e] # {} /\ finalized[e] = 0
                                   THEN {"ACTIVE", "FINALIZING"} ELSE {"FINALIZING"}
    <3>1. CASE e = x
      BY <1>4, <1>5, <2>2, <3>1
    <3>2. CASE e \in S \ {x}
      BY <1>4, <3>2
    <3>3. CASE e \notin S
      <4>1. e \in Closing /\ e \in Events /\ e # x
        BY <1>2, <2>1, <3>3 DEF Closing
      <4>. QED  BY <1>0, <1>4, <1>5, <3>3, <4>1 DEF FinalizedOnce
    <3>. QED  BY <3>1, <3>2, <3>3
  <2>. QED  BY <1>1, <2>3, <2>4 DEF FinalizedOnce
<1>14. PriorityOK'
  <2>. SUFFICES ASSUME at' = "callback", ~event_continue', NEW d \in Events
                PROVE  Passed(d)'
    BY <1>1 DEF PriorityOK
  <2>1. Passed(d)
    BY <1>0, <1>1 DEF PriorityOK
  <2>. QED  BY <1>1, <1>2, <1>4, <2>1 DEF Passed, Has
<1>15. TimeoutNotEarly'
  <2>. SUFFICES ASSUME NEW e \in Events, Has("ACTIVE", e)', "EV_TIMEOUT" \in ev_res[e],
                       ~Has("FINALIZING", e)'
                PROVE  ev_timeout[e] <= time
    BY <1>1 DEF TimeoutNotEarly
  <2>1. e \notin S
    BY <1>4 DEF Has
  <2>. QED  BY <1>0, <1>4, <2>1 DEF TimeoutNotEarly, Has
<1>16. TimedIsWatched'
  <2>. SUFFICES ASSUME NEW e \in Io, Has("TIMEOUT", e)', ~Has("ACTIVE", e)',
                       e \notin rearmed'
                PROVE  Has("INSERTED", e)'
    BY DEF TimedIsWatched, Io
  <2>1. e \in Events /\ e \notin S
    BY <1>4 DEF Has, Io
  <2>. QED  BY <1>0, <1>1, <1>4, <2>1 DEF TimedIsWatched, Has
<1>. QED  BY <1>6, <1>7, <1>8, <1>9, <1>10, <1>11, <1>12, <1>13, <1>14, <1>15, <1>16
          DEF EventInv

-----------------------------------------------------------------------------
(* The steps of the loop that touch events.                                *)

(* timeout_process: deleted, then activated, in one step.                  *)
LEMMA TimeoutInv ==
  ASSUME EventInv, NEW e \in Events, timeout_process(e)
  PROVE  EventInv'
<1>0. StateOK /\ QueuesInv /\ EvmapInv /\ PlaceOK /\ KindsOK /\ DeletedOK
      /\ PriorityOK /\ TimeoutNotEarly /\ TimedIsWatched
  BY DEF EventInv
<1>1. /\ at = "timeouts" /\ e \in Due(tv_cache)
      /\ flags' = [flags EXCEPT ![e] = {"ACTIVE"}]
      /\ activequeues' = Inserted(Off({e}), e)
      /\ active_later_queue' = Without(active_later_queue, {e})
      /\ evmap_io_del({e})
      /\ ev_res' = [ev_res EXCEPT ![e] = {"EV_TIMEOUT"}]
      /\ rearmed' = rearmed \ {e}
      /\ UNCHANGED <<ev_timeout, ev_io_timeout, n_deferreds_queued, running,
                     event_break, loopflag, event_continue, at, current_event,
                     reported, tv_cache, time, ready, ops, group, finalized, deleted>>
  BY DEF timeout_process, times, loop, world
<1>2. Has("TIMEOUT", e) /\ ev_timeout[e] <= tv_cache
      /\ e \notin Closing /\ e \notin deleted /\ e \notin Deferred
  BY <1>0, <1>1, OfGroup DEF Due, DeletedOK, KindsOK, Has
<1>3. flags \in [Events -> SUBSET Flags]
  BY <1>0 DEF StateOK
<1>4. flags'[e] = {"ACTIVE"} /\ \A x \in Events : x # e => flags'[x] = flags[x]
  BY <1>1, <1>3
<1>5. QueuesInv'
  <2>. DEFINE A == ActiveEvents
              B == LaterEvents
  <2>1. /\ ActiveEvents' = (A \ {e}) \cup {e} /\ LaterEvents' = B \ {e}
        /\ e \notin A \ {e} /\ e \notin B \ {e}
    BY <1>4 DEF ActiveEvents, LaterEvents, Has
  <2>2. QueuesOK(A \ {e}, B \ {e}, AllWithout(activequeues, {e}),
                 Without(active_later_queue, {e}))
    BY <1>0, QueuesOff DEF QueuesInv
  <2>. HIDE DEF A, B
  <2>3. QueuesOK((A \ {e}) \cup {e}, B \ {e}, Inserted(AllWithout(activequeues, {e}), e),
                 Without(active_later_queue, {e}))
    BY <2>1, <2>2, QueuesInsert
  <2>4. AllWithout(activequeues, {e}) = Off({e})
    BY Zenon DEF AllWithout, Off
  <2>. QED  BY <1>1, <2>1, <2>3, <2>4, Zenon DEF QueuesInv
<1>6. EvmapInv'
  <2>1. InsertedEvents' = InsertedEvents \ {e}
    BY <1>4 DEF InsertedEvents, Has
  <2>. QED  BY <1>0, <1>1, <2>1, EvmapDel DEF EvmapInv
<1>7. StateOK'
  <2>1. flags' \in [Events -> SUBSET Flags]
    BY <1>1, <1>3 DEF Flags
  <2>2. ev_res' \in [Events -> SUBSET (Conditions \cup {"EV_TIMEOUT", "EV_USER"})]
    BY <1>0, <1>1 DEF StateOK
  <2>. QED  BY <1>0, <1>1, <2>1, <2>2 DEF StateOK
<1>8. PlaceOK' /\ PriorityOK'
  BY <1>0, <1>1 DEF PlaceOK, PriorityOK
<1>9. KindsOK'
  BY <1>0, <1>1, <1>2, <1>4 DEF KindsOK, StateOK, Has
<1>10. DeletedOK'
  BY <1>0, <1>1, <1>2, <1>4 DEF DeletedOK, StateOK
<1>11. GroupsOK' /\ FinalizedOnce'
  BY <1>1, <1>2, OneEventGroups
<1>12. TimeoutNotEarly'
  <2>1. tv_cache \in -1..time /\ time \in Nat /\ ev_timeout[e] \in Nat
    BY <1>0, EventBaseAssumption DEF StateOK
  <2>2. ev_timeout[e] <= time
    BY <1>2, <2>1
  <2>. QED  BY <1>0, <1>1, <1>4, <2>2 DEF TimeoutNotEarly, StateOK, Has
<1>13. TimedIsWatched'
  BY <1>0, <1>1, <1>4 DEF TimedIsWatched, Has, Io
<1>. QED  BY <1>5, <1>6, <1>7, <1>8, <1>9, <1>10, <1>11, <1>12, <1>13 DEF EventInv

(* The types after a callback begins: it runs in its queue.                *)
LEMMA RunsTo ==
  ASSUME EventInv, NEW e \in Events, Runs(e)
  PROVE  /\ Has("ACTIVE", e) /\ ~Has("ACTIVE_LATER", e) /\ e \notin deleted
         /\ running \in Pri /\ tv_cache \in Nat /\ ev_pri[e] = running
         /\ at = "process" /\ at' = "callback" /\ (\A d \in Events : Passed(d))
         /\ UNCHANGED <<active_later_queue, ev_res, n_deferreds_queued, running,
                        event_break, loopflag, event_continue, reported, tv_cache,
                        time, ready, ops, group, deleted>>
<1>1. e \in ActiveEvents /\ e \notin LaterEvents /\ running \in Pri
      /\ ev_pri[e] = running /\ tv_cache # -1
  BY Begun
<1>2. /\ at = "process" /\ at' = "callback"
      /\ UNCHANGED <<active_later_queue, ev_res, n_deferreds_queued, running,
                     event_break, loopflag, event_continue, reported, tv_cache,
                     time, ready, ops, group, deleted>>
  BY DEF Runs, loop, world
<1>3. Has("ACTIVE", e) /\ ~Has("ACTIVE_LATER", e) /\ e \notin deleted
  BY <1>1 DEF EventInv, DeletedOK, ActiveEvents, LaterEvents, Has
<1>4. tv_cache \in Nat
  BY <1>1, EventBaseAssumption DEF EventInv, StateOK
<1>5. \A d \in Events : Passed(d)
  BY <1>2 DEF EventInv, PriorityOK
<1>. QED  BY <1>1, <1>2, <1>3, <1>4, <1>5

LEMMA FinalizerInv ==
  ASSUME EventInv, NEW e \in Events, RunFinalizer(e)
  PROVE  EventInv'
<1>0. StateOK /\ QueuesInv /\ EvmapInv /\ PlaceOK /\ KindsOK /\ DeletedOK
      /\ PriorityOK /\ TimeoutNotEarly /\ TimedIsWatched /\ GroupsOK /\ FinalizedOnce
  BY DEF EventInv
<1>1. /\ Runs(e) /\ Has("FINALIZING", e) /\ activequeues' = Taken
      /\ flags' = [flags EXCEPT ![e] = @ \ {"ACTIVE"}]
      /\ finalized' = [finalized EXCEPT ![e] = @ + 1]
      /\ current_event' = NoEvent
      /\ UNCHANGED <<ev_timeout, ev_io_timeout, nio, interest, rearmed>>
  BY DEF RunFinalizer, times, evmap
<1>2. /\ Has("ACTIVE", e) /\ ~Has("ACTIVE_LATER", e) /\ e \notin deleted
      /\ running \in Pri /\ tv_cache \in Nat /\ ev_pri[e] = running
      /\ at = "process" /\ at' = "callback" /\ (\A d \in Events : Passed(d))
      /\ UNCHANGED <<active_later_queue, ev_res, n_deferreds_queued, running,
                     event_break, loopflag, event_continue, reported, tv_cache,
                     time, ready, ops, group, deleted>>
  BY <1>1, RunsTo
<1>3. flags \in [Events -> SUBSET Flags] /\ finalized \in [Events -> Nat]
  BY <1>0 DEF StateOK
<1>4. /\ flags'[e] = flags[e] \ {"ACTIVE"}
      /\ \A x \in Events : x # e => flags'[x] = flags[x]
  BY <1>1, <1>3
<1>5. QueuesInv'
  <2>1. ActiveEvents' = ActiveEvents \ {e} /\ LaterEvents' = LaterEvents
    BY <1>4 DEF ActiveEvents, LaterEvents, Has
  <2>2. QueuesOK(ActiveEvents \ {e}, LaterEvents, Taken, active_later_queue)
    BY <1>1, Begun
  <2>. QED  BY <1>1, <1>2, <2>1, <2>2, Zenon DEF QueuesInv
<1>6. EvmapInv'
  <2>1. InsertedEvents' = InsertedEvents
    BY <1>4 DEF InsertedEvents, Has
  <2>. QED  BY <1>0, <1>1, <2>1 DEF EvmapInv
<1>7. StateOK'
  <2>1. flags' \in [Events -> SUBSET Flags] /\ finalized' \in [Events -> Nat]
    BY <1>1, <1>3
  <2>. QED  BY <1>0, <1>1, <1>2, <2>1 DEF StateOK, Places
<1>8. PlaceOK'
  BY <1>2 DEF PlaceOK
<1>9. KindsOK'
  BY <1>0, <1>1, <1>2, <1>4 DEF KindsOK, Has
<1>10. GroupsOK'
  BY <1>0, <1>2, <1>4 DEF GroupsOK, Has
<1>11. FinalizedOnce'
  <2>1. group[e] # {} /\ finalized[e] = 0
    BY <1>0, <1>1, <1>2 DEF GroupsOK, FinalizedOnce
  <2>2. finalized'[e] = 1 /\ \A x \in Events : x # e => finalized'[x] = finalized[x]
    BY <1>1, <1>3, <2>1
  <2>3. Closing' = Closing /\ Closing \subseteq Events
    BY <1>0, <1>2 DEF Closing, StateOK
  <2>4. ASSUME NEW x \in Events
        PROVE  IF group[x] = {} THEN finalized'[x] = 0 ELSE
                 finalized'[x] = IF Has("ACTIVE", x)' THEN 0 ELSE 1
    BY <1>0, <1>4, <2>1, <2>2 DEF FinalizedOnce, Has
  <2>5. ASSUME NEW x \in Closing
        PROVE  flags'[x] \subseteq IF group[x] # {} /\ finalized'[x] = 0
                                   THEN {"ACTIVE", "FINALIZING"} ELSE {"FINALIZING"}
    <3>1. flags[x] \subseteq IF group[x] # {} /\ finalized[x] = 0
                             THEN {"ACTIVE", "FINALIZING"} ELSE {"FINALIZING"}
      BY <1>0 DEF FinalizedOnce
    <3>. QED  BY <1>4, <2>2, <2>3, <3>1
  <2>. QED  BY <1>2, <2>3, <2>4, <2>5 DEF FinalizedOnce
<1>12. DeletedOK' /\ PriorityOK'
  BY <1>0, <1>2, <1>4 DEF DeletedOK, StateOK, PriorityOK, Passed, Has
<1>13. TimeoutNotEarly' /\ TimedIsWatched'
  <2>1. e \in Closing
    BY <1>1, OfGroup
  <2>2. ~Has("TIMEOUT", e)
    BY <2>1, OfGroup
  <2>3. TimedIsWatched'
    BY <1>0, <1>1, <1>4, <2>2 DEF TimedIsWatched, Has, Io
  <2>4. TimeoutNotEarly'
    BY <1>0, <1>1, <1>2, <1>4 DEF TimeoutNotEarly, Has
  <2>. QED  BY <2>3, <2>4
<1>. QED  BY <1>5, <1>6, <1>7, <1>8, <1>9, <1>10, <1>11, <1>12, <1>13 DEF EventInv

LEMMA OnceInv ==
  ASSUME EventInv, NEW e \in Events, RunOnce(e)
  PROVE  EventInv'
<1>0. StateOK /\ QueuesInv /\ EvmapInv /\ PlaceOK /\ KindsOK /\ DeletedOK
      /\ PriorityOK /\ TimeoutNotEarly /\ TimedIsWatched
  BY DEF EventInv
<1>1. /\ Runs(e) /\ ~Has("FINALIZING", e) /\ activequeues' = Taken
      /\ flags' = [flags EXCEPT ![e] = {}]
      /\ evmap_io_del({e}) /\ rearmed' = rearmed \ {e} /\ current_event' = e
      /\ UNCHANGED <<ev_timeout, ev_io_timeout, finalized>>
  BY DEF RunOnce, times
<1>2. /\ Has("ACTIVE", e) /\ ~Has("ACTIVE_LATER", e) /\ e \notin deleted
      /\ running \in Pri /\ tv_cache \in Nat /\ ev_pri[e] = running
      /\ at = "process" /\ at' = "callback" /\ (\A d \in Events : Passed(d))
      /\ UNCHANGED <<active_later_queue, ev_res, n_deferreds_queued, running,
                     event_break, loopflag, event_continue, reported, tv_cache,
                     time, ready, ops, group, deleted>>
  BY <1>1, RunsTo
<1>3. flags \in [Events -> SUBSET Flags] /\ e \notin Closing
  BY <1>0, <1>1, <1>2, OfGroup DEF StateOK
<1>4. flags'[e] = {} /\ \A x \in Events : x # e => flags'[x] = flags[x]
  BY <1>1, <1>3
<1>5. QueuesInv'
  <2>1. ActiveEvents' = ActiveEvents \ {e} /\ LaterEvents' = LaterEvents
    BY <1>2, <1>4 DEF ActiveEvents, LaterEvents, Has
  <2>2. QueuesOK(ActiveEvents \ {e}, LaterEvents, Taken, active_later_queue)
    BY <1>1, Begun
  <2>. QED  BY <1>1, <1>2, <2>1, <2>2, Zenon DEF QueuesInv
<1>6. EvmapInv'
  <2>1. InsertedEvents' = InsertedEvents \ {e}
    BY <1>4 DEF InsertedEvents, Has
  <2>. QED  BY <1>0, <1>1, <2>1, EvmapDel DEF EvmapInv
<1>7. StateOK'
  <2>1. flags' \in [Events -> SUBSET Flags]
    BY <1>1, <1>3
  <2>. QED  BY <1>0, <1>1, <1>2, <2>1 DEF StateOK, Places
<1>8. PlaceOK' /\ KindsOK'
  BY <1>0, <1>1, <1>2, <1>4 DEF PlaceOK, KindsOK, Has
<1>9. GroupsOK' /\ FinalizedOnce'
  BY <1>1, <1>2, <1>3, OneEventGroups
<1>10. DeletedOK' /\ PriorityOK'
  BY <1>0, <1>2, <1>4 DEF DeletedOK, StateOK, PriorityOK, Passed, Has
<1>11. TimeoutNotEarly' /\ TimedIsWatched'
  BY <1>0, <1>1, <1>2, <1>4 DEF TimeoutNotEarly, TimedIsWatched, Has, Io
<1>. QED  BY <1>5, <1>6, <1>7, <1>8, <1>9, <1>10, <1>11 DEF EventInv

(* event_persist_closure: renewed, if it has a timeout, and run.           *)
LEMMA PersistentInv ==
  ASSUME EventInv, NEW e \in Events, RunPersistent(e)
  PROVE  EventInv'
<1>0. StateOK /\ QueuesInv /\ EvmapInv /\ PlaceOK /\ KindsOK /\ DeletedOK
      /\ PriorityOK /\ TimeoutNotEarly /\ TimedIsWatched
  BY DEF EventInv
<1>. DEFINE F == flags[e] \ {"ACTIVE"}
            t == RunAt(e)
            G == IF ev_io_timeout[e] # 0 THEN AddsTo(e, F, t) ELSE F
<1>1. /\ Runs(e) /\ ~Has("FINALIZING", e) /\ e \in Persist
      /\ IF ev_io_timeout[e] # 0
         THEN event_add_nolock(e, F, Taken, t)
         ELSE /\ activequeues' = Taken /\ flags' = [flags EXCEPT ![e] = F]
              /\ UNCHANGED <<ev_timeout, nio, interest, rearmed>>
      /\ current_event' = e /\ UNCHANGED <<ev_io_timeout, finalized>>
  BY DEF RunPersistent, evmap
<1>2. /\ Has("ACTIVE", e) /\ ~Has("ACTIVE_LATER", e) /\ e \notin deleted
      /\ running \in Pri /\ tv_cache \in Nat /\ ev_pri[e] = running
      /\ at = "process" /\ at' = "callback" /\ (\A d \in Events : Passed(d))
      /\ UNCHANGED <<active_later_queue, ev_res, n_deferreds_queued, running,
                     event_break, loopflag, event_continue, reported, tv_cache,
                     time, ready, ops, group, deleted>>
  BY <1>1, RunsTo
<1>3. /\ flags \in [Events -> SUBSET Flags] /\ e \notin Closing
      /\ F \in SUBSET Flags /\ ev_timeout \in [Events -> Nat]
      /\ ev_io_timeout \in [Events -> Nat]
  BY <1>0, <1>1, <1>2, OfGroup DEF StateOK
<1>4. t \in Nat
  BY <1>2, <1>3 DEF RunAt
<1>. HIDE DEF t
<1>5. {x \in Events : "ACTIVE" \in [flags EXCEPT ![e] = F][x]} = ActiveEvents \ {e}
  BY <1>3 DEF ActiveEvents, Has
<1>6. QueuesOK(ActiveEvents \ {e}, LaterEvents, Taken, active_later_queue)
  BY <1>1, Begun
<1>7. /\ QueuesInv' /\ EvmapInv' /\ flags' = [flags EXCEPT ![e] = G]
      /\ ev_timeout' \in [Events -> Nat] /\ rearmed' = rearmed
      /\ \A x \in Events : x # e => ev_timeout'[x] = ev_timeout[x]
  <2>1. CASE ev_io_timeout[e] # 0
    <3>1. event_add_nolock(e, F, Taken, t)
      BY <1>1, <2>1
    <3>2. QueuesOK({x \in Events : "ACTIVE" \in [flags EXCEPT ![e] = F][x]},
                   LaterEvents, Taken, active_later_queue)
      BY <1>5, <1>6, Zenon
    <3>3. /\ "ACTIVE_LATER" \in F <=> Has("ACTIVE_LATER", e)
          /\ "INSERTED" \in F <=> Has("INSERTED", e)
      BY DEF Has
    <3>4. QueuesInv' /\ EvmapInv' /\ flags' = [flags EXCEPT ![e] = AddsTo(e, F, t)]
      BY <1>0, <1>2, <1>3, <3>1, <3>2, <3>3, Adds
    <3>5. /\ ev_timeout' = [ev_timeout EXCEPT ![e] = IF t # -1 THEN t ELSE @]
          /\ rearmed' = rearmed
      BY <3>1 DEF event_add_nolock
    <3>. QED  BY <1>3, <1>4, <2>1, <3>4, <3>5
  <2>2. CASE ev_io_timeout[e] = 0
    <3>1. /\ activequeues' = Taken /\ flags' = [flags EXCEPT ![e] = F]
          /\ UNCHANGED <<ev_timeout, nio, interest, rearmed>>
      BY <1>1, <2>2
    <3>2. flags'[e] = F /\ \A x \in Events : x # e => flags'[x] = flags[x]
      BY <1>3, <3>1
    <3>3. /\ ActiveEvents' = ActiveEvents \ {e} /\ LaterEvents' = LaterEvents
          /\ InsertedEvents' = InsertedEvents
      BY <3>2 DEF ActiveEvents, LaterEvents, InsertedEvents, Has
    <3>4. QueuesInv'
      BY <1>2, <1>6, <3>1, <3>3, Zenon DEF QueuesInv
    <3>5. EvmapInv'
      BY <1>0, <3>1, <3>3 DEF EvmapInv
    <3>. QED  BY <1>3, <2>2, <3>1, <3>4, <3>5
  <2>. QED  BY <2>1, <2>2
<1>8. /\ "ACTIVE" \notin G /\ "ACTIVE_LATER" \notin G /\ "FINALIZING" \notin G
      /\ G \subseteq Flags
      /\ "TIMEOUT" \in G /\ "TIMEOUT" \notin flags[e] => ev_io_timeout[e] # 0
      /\ "INSERTED" \in G /\ "INSERTED" \notin flags[e] => e \in Io
      /\ ev_io_timeout[e] # 0 /\ e \in Io => "INSERTED" \in G
      /\ ev_io_timeout[e] = 0 => ("TIMEOUT" \in G => "TIMEOUT" \in flags[e])
  BY <1>1, <1>2, <1>3 DEF AddsTo, Has, Flags
<1>. HIDE DEF G
<1>9. flags'[e] = G /\ \A x \in Events : x # e => flags'[x] = flags[x]
  BY <1>3, <1>7
<1>10. StateOK'
  <2>1. flags' \in [Events -> SUBSET Flags]
    BY <1>3, <1>7, <1>8
  <2>. QED  BY <1>0, <1>1, <1>2, <1>7, <2>1 DEF StateOK, Places
<1>11. PlaceOK'
  BY <1>2 DEF PlaceOK
<1>12. KindsOK'
  <2>1. e \notin Deferred
    BY <1>1, EventBaseAssumption DEF Persist
  <2>. QED  BY <1>0, <1>1, <1>2, <1>8, <1>9, <2>1 DEF KindsOK, Has
<1>13. GroupsOK' /\ FinalizedOnce'
  BY <1>1, <1>2, <1>3, <1>7, <1>8, OneEventGroups
<1>14. DeletedOK' /\ PriorityOK'
  BY <1>0, <1>2, <1>8, <1>9 DEF DeletedOK, StateOK, PriorityOK, Passed, Has
<1>15. TimeoutNotEarly'
  BY <1>0, <1>2, <1>7, <1>8, <1>9 DEF TimeoutNotEarly, Has
<1>16. TimedIsWatched'
  <2>. SUFFICES ASSUME NEW x \in Io, Has("TIMEOUT", x)', ~Has("ACTIVE", x)',
                       x \notin rearmed
                PROVE  Has("INSERTED", x)'
    BY <1>7 DEF TimedIsWatched, Io
  <2>1. CASE x = e
    <3>1. ev_io_timeout[e] # 0
      BY <1>0, <1>1, <1>8, <1>9, <2>1 DEF KindsOK, Has
    <3>. QED  BY <1>8, <1>9, <2>1, <3>1 DEF Has
  <2>2. CASE x # e
    BY <1>0, <1>9, <2>2 DEF TimedIsWatched, Has, Io
  <2>. QED  BY <2>1, <2>2
<1>. QED  BY <1>7, <1>10, <1>11, <1>12, <1>13, <1>14, <1>15, <1>16 DEF EventInv

(* event_base_cancel_single_callback_: with its finalizer if it has one.   *)
LEMMA CancelInv ==
  ASSUME EventInv, NEW e \in Events, CancelActive(e)
  PROVE  EventInv'
<1>0. StateOK /\ QueuesInv /\ EvmapInv /\ PlaceOK /\ KindsOK /\ DeletedOK
      /\ PriorityOK /\ TimeoutNotEarly /\ TimedIsWatched /\ GroupsOK /\ FinalizedOnce
  BY DEF EventInv
<1>1. /\ at = "free" /\ at' = "free" /\ InUse(e) /\ event_del_nolock({e})
      /\ finalized' = IF Has("FINALIZING", e)
                      THEN [finalized EXCEPT ![e] = @ + 1] ELSE finalized
      /\ UNCHANGED <<ev_timeout, ev_io_timeout, ev_res, n_deferreds_queued, running,
                     event_break, loopflag, event_continue, current_event,
                     reported, tv_cache, time, ready, ops, group, deleted, rearmed>>
  BY DEF CancelActive, N_ACTIVE_CALLBACKS, times, loop, world
<1>2. /\ QueuesInv' /\ EvmapInv'
      /\ flags' = [x \in Events |-> IF x \in {e} THEN flags[x] \cap {"FINALIZING"}
                                    ELSE flags[x]]
  BY <1>0, <1>1, Deletes
<1>3. flags \in [Events -> SUBSET Flags] /\ finalized \in [Events -> Nat]
  BY <1>0 DEF StateOK
<1>4. /\ flags'[e] = flags[e] \cap {"FINALIZING"}
      /\ \A x \in Events : x # e => flags'[x] = flags[x]
  BY <1>2
<1>5. StateOK'
  <2>1. flags' \in [Events -> SUBSET Flags] /\ finalized' \in [Events -> Nat]
    BY <1>1, <1>2, <1>3 DEF Flags
  <2>. QED  BY <1>0, <1>1, <2>1 DEF StateOK
<1>6. PlaceOK' /\ KindsOK' /\ DeletedOK' /\ PriorityOK'
  BY <1>0, <1>1, <1>4 DEF PlaceOK, KindsOK, DeletedOK, PriorityOK, StateOK, Has
<1>7. GroupsOK'
  BY <1>0, <1>1, <1>4 DEF GroupsOK, Has
<1>8. FinalizedOnce'
  <2>1. Has("FINALIZING", e) => /\ Has("ACTIVE", e) /\ group[e] # {} /\ finalized[e] = 0
    <3>. SUFFICES ASSUME Has("FINALIZING", e)
                  PROVE  Has("ACTIVE", e) /\ group[e] # {} /\ finalized[e] = 0
      OBVIOUS
    <3>1. group[e] # {} /\ e \in Closing
      BY <1>0, OfGroup DEF GroupsOK
    <3>2. Has("ACTIVE", e)
      BY <1>1, <3>1, OfGroup DEF InUse, Has
    <3>. QED  BY <1>0, <3>1, <3>2 DEF FinalizedOnce
  <2>2. ~Has("FINALIZING", e) => group[e] = {} /\ e \notin Closing
    <3>. SUFFICES ASSUME ~Has("FINALIZING", e)  PROVE group[e] = {} /\ e \notin Closing
      OBVIOUS
    <3>. QED  BY <1>0, <1>1, OfGroup DEF GroupsOK, InUse, Has
  <2>3. Closing' = Closing /\ Closing \subseteq Events
    BY <1>0, <1>1 DEF Closing, StateOK
  <2>4. \A x \in Events : x # e => finalized'[x] = finalized[x]
    BY <1>1, <1>3
  <2>5. finalized'[e] = IF Has("FINALIZING", e) THEN 1 ELSE finalized[e]
    BY <1>1, <1>3, <2>1
  <2>6. ASSUME NEW x \in Events
        PROVE  IF group[x] = {} THEN finalized'[x] = 0 ELSE
                 finalized'[x] = IF Has("ACTIVE", x)' THEN 0 ELSE 1
    <3>1. CASE x = e
      BY <1>0, <1>4, <2>1, <2>2, <2>5, <3>1 DEF FinalizedOnce, Has
    <3>2. CASE x # e
      BY <1>0, <1>4, <2>4, <3>2 DEF FinalizedOnce, Has
    <3>. QED  BY <3>1, <3>2
  <2>7. ASSUME NEW x \in Closing
        PROVE  flags'[x] \subseteq IF group[x] # {} /\ finalized'[x] = 0
                                   THEN {"ACTIVE", "FINALIZING"} ELSE {"FINALIZING"}
    <3>1. CASE x = e
      BY <1>4, <3>1
    <3>2. CASE x # e
      BY <1>0, <1>4, <2>3, <2>4, <3>2 DEF FinalizedOnce
    <3>. QED  BY <3>1, <3>2
  <2>. QED  BY <1>1, <2>3, <2>6, <2>7 DEF FinalizedOnce
<1>9. TimeoutNotEarly' /\ TimedIsWatched'
  BY <1>0, <1>1, <1>4 DEF TimeoutNotEarly, TimedIsWatched, Has, Io
<1>. QED  BY <1>2, <1>5, <1>6, <1>7, <1>8, <1>9 DEF EventInv

(* The beginning of a pass: the later queue is emptied into the others.    *)
LEMMA TopInv ==
  ASSUME EventInv, Top
  PROVE  EventInv'
<1>0. StateOK /\ QueuesInv /\ EvmapInv /\ PlaceOK /\ KindsOK /\ DeletedOK
      /\ PriorityOK /\ TimeoutNotEarly /\ TimedIsWatched /\ GroupsOK /\ FinalizedOnce
  BY DEF EventInv
<1>1. /\ at' \in {"out", "wait"} /\ tv_cache' = -1 /\ event_continue' = FALSE
      /\ running' \in {-1, running}
      /\ UNCHANGED <<ev_timeout, ev_io_timeout, ev_res, nio, interest, event_break,
                     loopflag, current_event, reported, time, ready, ops, group,
                     finalized, deleted, rearmed>>
  BY DEF Top, Leave, times, evmap, world, history
<1>2. flags \in [Events -> SUBSET Flags]
  BY <1>0 DEF StateOK
<1>3. /\ QueuesInv'
      /\ \/ flags' = flags
         \/ flags' = [e \in Events |-> IF Has("ACTIVE_LATER", e)
              THEN (flags[e] \ {"ACTIVE_LATER"}) \cup {"ACTIVE"} ELSE flags[e]]
  <2>1. CASE event_break \/ ~event_haveevents
    <3>1. UNCHANGED lists
      BY <2>1 DEF Top
    <3>. QED  BY <1>0, <3>1 DEF QueuesInv, lists, ActiveEvents, LaterEvents, Has
  <2>2. CASE ~(event_break \/ ~event_haveevents)
    <3>1. /\ activequeues' = [p \in Pri |-> activequeues[p] \o
               Without(active_later_queue, {e \in Events : ev_pri[e] # p})]
          /\ active_later_queue' = <<>>
          /\ flags' = [e \in Events |-> IF Has("ACTIVE_LATER", e)
               THEN (flags[e] \ {"ACTIVE_LATER"}) \cup {"ACTIVE"} ELSE flags[e]]
      BY <2>2, Zenon DEF Top
    <3>2. ActiveEvents' = ActiveEvents \cup LaterEvents /\ LaterEvents' = {}
      BY <3>1 DEF ActiveEvents, LaterEvents, Has
    <3>3. QueuesOK(ActiveEvents, LaterEvents, activequeues, active_later_queue)
      BY <1>0 DEF QueuesInv
    <3>4. QueuesOK(ActiveEvents \cup LaterEvents, {}, Merged(activequeues, active_later_queue),
                   <<>>)
      BY <3>3, QueuesMerge
    <3>5. Merged(activequeues, active_later_queue) = activequeues'
      BY <3>1, Zenon DEF Merged
    <3>6. QueuesInv'
      BY <3>1, <3>2, <3>4, <3>5, Zenon DEF QueuesInv
    <3>. QED  BY <3>1, <3>6
  <2>. QED  BY <2>1, <2>2
<1>4. ASSUME NEW e \in Events
      PROVE  \/ flags'[e] = flags[e]
             \/ /\ Has("ACTIVE_LATER", e) /\ e \in Deferred /\ e \notin Closing
                /\ flags'[e] = (flags[e] \ {"ACTIVE_LATER"}) \cup {"ACTIVE"}
  BY <1>0, <1>3, OfGroup DEF KindsOK
<1>5. StateOK'
  <2>1. flags' \in [Events -> SUBSET Flags]
    BY <1>2, <1>3 DEF Flags
  <2>2. n_deferreds_queued' \in Nat
    <3>1. {e \in Deferred : Has("ACTIVE_LATER", e)} \in SUBSET Events
      BY EventBaseAssumption
    <3>2. IsFiniteSet(Events)
      BY EventBaseAssumption
    <3>3. Cardinality({e \in Deferred : Has("ACTIVE_LATER", e)}) \in Nat
      BY <3>1, <3>2, FS_Subset, FS_CardinalityType
    <3>. QED  BY <3>3 DEF Top
  <2>3. tv_cache' \in -1 .. time'
    BY <1>0, <1>1, EventBaseAssumption DEF StateOK
  <2>. QED  BY <1>0, <1>1, <2>1, <2>2, <2>3 DEF StateOK, Places
<1>6. EvmapInv'
  <2>1. InsertedEvents' = InsertedEvents
    BY <1>4 DEF InsertedEvents, Has
  <2>. QED  BY <1>0, <1>1, <2>1 DEF EvmapInv
<1>7. PlaceOK' /\ PriorityOK'
  BY <1>1 DEF PlaceOK, PriorityOK
<1>8. KindsOK'
  BY <1>0, <1>1, <1>4 DEF KindsOK, Has
<1>9. GroupsOK'
  BY <1>0, <1>1, <1>4 DEF GroupsOK, Has
<1>10. DeletedOK'
  <2>1. ASSUME NEW e \in deleted  PROVE e \in Events /\ flags[e] \subseteq {"FINALIZING"}
    BY <1>0 DEF DeletedOK, StateOK
  <2>. QED  BY <1>1, <1>4, <2>1 DEF DeletedOK, Has
<1>11. FinalizedOnce'
  <2>1. Closing' = Closing /\ Closing \subseteq Events
    BY <1>0, <1>1 DEF Closing, StateOK
  <2>2. \A e \in Events : e \notin Closing => group[e] = {}
    BY OfGroup
  <2>. QED  BY <1>0, <1>1, <1>4, <2>1, <2>2 DEF FinalizedOnce, Has
<1>12. TimeoutNotEarly'
  BY <1>0, <1>1, <1>4 DEF TimeoutNotEarly, KindsOK, Has
<1>13. TimedIsWatched'
  BY <1>0, <1>1, <1>4 DEF TimedIsWatched, Has, Io
<1>. QED  BY <1>3, <1>5, <1>6, <1>7, <1>8, <1>9, <1>10, <1>11, <1>12, <1>13
          DEF EventInv

-----------------------------------------------------------------------------
(* The theorems.                                                           *)

LEMMA InitInv == Init => EventInv
<1>. SUFFICES ASSUME Init  PROVE EventInv
  OBVIOUS
<1>1. /\ flags = [e \in Events |-> {}] /\ activequeues = [p \in Pri |-> <<>>]
      /\ active_later_queue = <<>> /\ at = "out" /\ reported = {}
      /\ nio = [f \in Fds |-> [c \in Conditions |-> 0]]
      /\ interest = [f \in Fds |-> {}]
      /\ group = [e \in Events |-> {}] /\ finalized = [e \in Events |-> 0]
      /\ deleted = {} /\ rearmed = {}
  BY DEF Init, EmptyQueues
<1>2. StateOK
  <2>1. /\ ev_timeout = [e \in Events |-> 0] /\ ev_io_timeout = [e \in Events |-> 0]
        /\ ev_res = [e \in Events |-> {}]
        /\ n_deferreds_queued = 0 /\ running = -1
        /\ event_continue = FALSE /\ event_break = FALSE
        /\ loopflag \in {"EVLOOP_NONBLOCK", "EVLOOP_ONCE"}
        /\ current_event = NoEvent /\ time = 0 /\ tv_cache = -1 /\ ops = 0
        /\ ready = [f \in Fds |-> {}]
    BY DEF Init
  <2>2. /\ flags \in [Events -> SUBSET Flags] /\ ev_timeout \in [Events -> Nat]
        /\ ev_io_timeout \in [Events -> Nat]
        /\ ev_res \in [Events -> SUBSET (Conditions \cup {"EV_TIMEOUT", "EV_USER"})]
        /\ ready \in [Fds -> SUBSET Conditions]
        /\ group \in [Events -> SUBSET Events] /\ finalized \in [Events -> Nat]
    BY <1>1, <2>1
  <2>3. /\ time \in 0..MaxTime /\ tv_cache \in -1..time /\ ops \in 0..MaxOps
        /\ at \in Places
    BY <1>1, <2>1, EventBaseAssumption DEF Places
  <2>. QED  BY <1>1, <2>1, <2>2, <2>3 DEF StateOK
<1>3. QueuesInv
  <2>1. ActiveEvents = {} /\ LaterEvents = {}
    BY <1>1 DEF ActiveEvents, LaterEvents, Has
  <2>2. Lists(<<>>, {}) /\ <<>> \in Seq(Events)
    BY DEF Lists
  <2>. DEFINE Q == [p \in Pri |-> <<>>]
  <2>3. Q \in [Pri -> Seq(Events)] /\ \A p \in Pri : Lists(Q[p], Of({}, p))
    <3>1. \A p \in Pri : Of({}, p) = {} /\ Q[p] = <<>>
      BY DEF Of
    <3>. QED  BY <2>2, <3>1
  <2>. HIDE DEF Q
  <2>4. QueuesOK({}, {}, Q, <<>>)
    BY <2>2, <2>3 DEF QueuesOK
  <2>. QED  BY <1>1, <2>1, <2>4, Zenon DEF QueuesInv, Q
<1>4. EvmapInv
  <2>1. InsertedEvents = {}
    BY <1>1 DEF InsertedEvents, Has
  <2>2. \A f, c : On({}, f, c) = {}
    BY DEF On
  <2>. QED  BY <1>1, <2>1, <2>2, FS_EmptySet DEF EvmapInv, EvmapOK
<1>5. PlaceOK /\ KindsOK /\ GroupsOK /\ DeletedOK /\ PriorityOK
      /\ TimeoutNotEarly /\ TimedIsWatched
  BY <1>1 DEF Init, PlaceOK, KindsOK, GroupsOK, DeletedOK, PriorityOK,
              TimeoutNotEarly, TimedIsWatched, Has, Io
<1>6. FinalizedOnce
  BY <1>1 DEF FinalizedOnce, Closing
<1>. QED  BY <1>2, <1>3, <1>4, <1>5, <1>6 DEF EventInv

LEMMA StepInv ==
  ASSUME EventInv, [Next]_vars
  PROVE  EventInv'
<1>1. CASE QuietStep
  BY <1>1, QuietInv
<1>2. CASE Top
  BY <1>2, TopInv
<1>3. ASSUME NEW e \in Events,
             \/ evmap_io_active(e) \/ timeout_process(e)
             \/ RunFinalizer(e) \/ RunPersistent(e) \/ RunOnce(e)
      PROVE  EventInv'
  BY <1>3, EvmapActiveInv, TimeoutInv, FinalizerInv, PersistentInv, OnceInv
<1>4. ASSUME NEW e \in Events,
             \/ \E tv \in Timeouts \cup {-1} : event_add(e, tv)
             \/ event_del(e) \/ event_active(e) \/ event_deferred_cb_schedule(e)
             \/ FreePending(e) \/ CancelActive(e)
      PROVE  EventInv'
  BY <1>4, AddInv, DelInv, ActiveInv, ScheduleInv, FreePendingInv, CancelInv
<1>5. ASSUME NEW S \in Groups, NEW x \in S, event_callback_finalize_many(S, x)
      PROVE  EventInv'
  BY <1>5, FinalizeInv
<1>. QED  BY <1>1, <1>2, <1>3, <1>4, <1>5
          DEF Next, LoopStep, Operation, FreeStep, QuietStep

(* The invariant of the event base, for any number of events, descriptors  *)
(* and priorities and any order of operations.                             *)
THEOREM EventInvariant == Spec => []EventInv
BY InitInv, StepInv, PTL DEF Spec

(* What event_base_assert_ok_nolock_ and evmap_check_integrity_ assert     *)
(* holds at every place of the loop: lists, flags and counts agree.        *)
THEOREM EventAssertOk == Spec => []AssertOk
<1>1. EventInv => AssertOk
  <2>. SUFFICES ASSUME EventInv  PROVE AssertOk
    OBVIOUS
  <2>1. /\ StateOK /\ PlaceOK
        /\ QueuesOK(ActiveEvents, LaterEvents, activequeues, active_later_queue)
        /\ EvmapOK(InsertedEvents, nio, interest)
    BY DEF EventInv, QueuesInv, EvmapInv
  <2>2. TypeOK
    <3>1. at = "process" => running # -1
      BY <2>1, EventBaseAssumption DEF PlaceOK, Pri
    <3>. QED  BY <2>1, <3>1 DEF TypeOK, StateOK, QueuesOK, EvmapOK, Flags
  <2>3. Lists(active_later_queue, {e \in Events : Has("ACTIVE_LATER", e)})
    BY <2>1 DEF QueuesOK, LaterEvents
  <2>4. ASSUME NEW p \in Pri
        PROVE  Lists(activequeues[p], {e \in Events : Has("ACTIVE", e) /\ ev_pri[e] = p})
    <3>1. {e \in Events : Has("ACTIVE", e) /\ ev_pri[e] = p} = Of(ActiveEvents, p)
      BY DEF Of, ActiveEvents
    <3>2. Lists(activequeues[p], Of(ActiveEvents, p))
      BY <2>1 DEF QueuesOK
    <3>. QED  BY <3>1, <3>2, Zenon
  <2>5. \A e \in Events : ~(Has("ACTIVE", e) /\ Has("ACTIVE_LATER", e))
    BY <2>1 DEF QueuesOK, ActiveEvents, LaterEvents
  <2>6. ASSUME NEW f \in Fds, NEW c \in Conditions
        PROVE  /\ nio[f][c] = Cardinality(InsertedIn(Events, f, c))
               /\ c \in interest[f] <=> InsertedIn(Events, f, c) # {}
    <3>1. InsertedIn(Events, f, c) = On(InsertedEvents, f, c)
      BY DEF InsertedIn, On, InsertedEvents
    <3>. QED  BY <2>1, <3>1 DEF EvmapOK
  <2>. QED  BY <2>2, <2>3, <2>4, <2>5, <2>6 DEF AssertOk
<1>. QED  BY <1>1, EventInvariant, PTL

(* A bufferevent that was given up is finalized once and last, wherever    *)
(* the loop, a loopbreak, a signal or event_base_free finds it.            *)
THEOREM EventFinalizedOnce == Spec => []FinalizedOnce
<1>1. EventInv => FinalizedOnce
  BY DEF EventInv
<1>. QED  BY <1>1, EventInvariant, PTL

(* A callback is not told of a timeout before it is due, however often the *)
(* event was added again while it waited.                                  *)
THEOREM EventTimeoutNotEarly == Spec => []TimeoutNotEarly
<1>1. EventInv => TimeoutNotEarly
  BY DEF EventInv
<1>. QED  BY <1>1, EventInvariant, PTL

(* An event whose timeout runs is watched for its condition, except after  *)
(* the one order of calls in which event_add leaves it out.                *)
THEOREM EventTimedIsWatched == Spec => []TimedIsWatched
<1>1. EventInv => TimedIsWatched
  BY DEF EventInv
<1>. QED  BY <1>1, EventInvariant, PTL

(* A callback that begins is active and of the priority that runs.         *)
LEMMA BeginsActive ==
  ASSUME EventInv, NEW e \in Events, Begins(e)
  PROVE  Has("ACTIVE", e) /\ ev_pri[e] = running /\ at = "process"
<1>1. at = "process" /\ e = Head(activequeues[running])
  BY DEF Begins
<1>. QED  BY <1>1, NextCallback DEF ActiveEvents

(* After event_del a callback does not begin until the event is added,     *)
(* activated or scheduled again.                                           *)
THEOREM EventDeletedStaysQuiet == Spec => DeletedStaysQuiet
<1>1. EventInv /\ [Next]_vars => [\A e \in deleted : ~Begins(e)]_vars
  <2>. SUFFICES ASSUME EventInv, NEW e \in deleted, Begins(e)  PROVE FALSE
    OBVIOUS
  <2>1. e \in Events /\ flags[e] \subseteq {"FINALIZING"}
    BY DEF EventInv, StateOK, DeletedOK
  <2>. QED  BY <2>1, BeginsActive DEF Has
<1>. QED  BY <1>1, EventInvariant, PTL DEF Spec, DeletedStaysQuiet

(* A callback begins while one of a better priority waits only if that one *)
(* is a deferred callback or a finalizer.                                  *)
THEOREM EventPriorityFirst == Spec => PriorityFirst
<1>1. EventInv /\ [Next]_vars =>
        [\A e \in Events : Begins(e) =>
           \A d \in Events : Has("ACTIVE", d) /\ ev_pri[d] < ev_pri[e] =>
             d \in Deferred \/ Has("FINALIZING", d)]_vars
  <2>. SUFFICES ASSUME EventInv, NEW e \in Events, Begins(e), NEW d \in Events,
                       Has("ACTIVE", d), ev_pri[d] < ev_pri[e]
                PROVE  d \in Deferred \/ Has("FINALIZING", d)
    OBVIOUS
  <2>1. at = "process" /\ ev_pri[e] = running
    BY BeginsActive
  <2>2. Passed(d)
    BY <2>1 DEF EventInv, PriorityOK
  <2>. QED  BY <2>1, <2>2 DEF Passed
<1>. QED  BY <1>1, EventInvariant, PTL DEF Spec, PriorityFirst

=============================================================================
