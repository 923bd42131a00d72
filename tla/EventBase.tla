------------------------------- MODULE EventBase -------------------------------
(***************************************************************************)
(* The event base that TCPRun and HTTPRun drive: one thread calls          *)
(* event_base_loop, which polls, activates what is ready or due and runs   *)
(* callbacks; callbacks, and the code between two calls, add, delete,      *)
(* activate, schedule and finalize events; event_base_free ends it.        *)
(*                                                                         *)
(* Events are those of bufferevents, listeners and evhttp: reads and       *)
(* writes of descriptors, timers, and deferred callbacks, which are not    *)
(* struct events (no EVLIST_INIT).  No internal events, no EV_SIGNAL, no   *)
(* common timeouts and no edge triggering: the server uses none.           *)
(* event_count, event_count_active and the heap's layout are not kept;     *)
(* the flags and the queues say what they would.                           *)
(***************************************************************************)
EXTENDS Integers, Queues

CONSTANTS
  Events,     \* struct events and deferred callbacks
  Deferred,   \* those with EV_CLOSURE_CB_SELF
  Fds,        \* the descriptors
  ev_fd,      \* the descriptor of each struct event
  ev_events,  \* its EV_READ, EV_WRITE, EV_PERSIST; of a timer, none but the last
  ev_pri,     \* the priority of each
  nactivequeues,
  MAX_DEFERREDS_QUEUED,
  NoEvent,
  Groups,     \* the events of each object that is finalized as a whole
  Timeouts,   \* the delays events are added with
  MaxTime,    \* bound on the clock
  MaxOps      \* bound on the operations

Conditions == {"EV_READ", "EV_WRITE"}
Pri == 0..(nactivequeues - 1)

ASSUME EventBaseAssumption ==
  /\ IsFiniteSet(Events) /\ Deferred \subseteq Events /\ NoEvent \notin Events
  /\ ev_fd \in [Events -> Fds]
  /\ ev_events \in [Events -> SUBSET (Conditions \cup {"EV_PERSIST"})]
  /\ \A e \in Deferred : ev_events[e] = {}
  /\ nactivequeues \in Nat \ {0} /\ ev_pri \in [Events -> Pri]
  /\ MAX_DEFERREDS_QUEUED \in Nat /\ MaxTime \in Nat /\ MaxOps \in Nat
  /\ Timeouts \subseteq Nat \ {0} /\ Groups \subseteq SUBSET Events

VARIABLES
  flags,               \* the EVLIST_ flags of each event
  activequeues,        \* by priority
  active_later_queue,
  ev_timeout,          \* when the timeout of each event is due
  ev_io_timeout,       \* the delay of a persistent event, or 0
  ev_res,              \* what each was last activated for
  nio,                 \* evmap: inserted events by descriptor and condition
  interest,            \* what the backend watches of each descriptor
  n_deferreds_queued, running, event_continue, event_break, loopflag,
  at,                  \* where the thread is
  current_event,
  reported,            \* polled and not yet activated
  time,                \* the monotonic clock
  tv_cache,            \* the cached time, or -1
  ready,               \* what is true of each descriptor
  ops,                 \* operations so far
  \* histories
  group,      \* what event_callback_finalize_many_ was given, by the one it chose
  finalized,  \* how often the finalizer of each ran
  deleted,    \* deleted, and not added, activated or scheduled since
  rearmed     \* added with a timeout while active for the last one

lists   == <<flags, activequeues, active_later_queue>>
times   == <<ev_timeout, ev_io_timeout>>
evmap   == <<nio, interest>>
loop    == <<n_deferreds_queued, running, event_break, loopflag>>
history == <<group, finalized, deleted, rearmed>>
world   == <<time, ready>>
vars == <<lists, times, ev_res, evmap, loop, event_continue, at, current_event,
          reported, tv_cache, world, ops, history>>

Io == {e \in Events : ev_events[e] \cap Conditions # {}}
Persist == {e \in Events : "EV_PERSIST" \in ev_events[e]}
Places == {"out", "top", "wait", "evmap", "timeouts", "process", "callback",
           "close", "free", "freed"}
EmptyQueues == [p \in Pri |-> <<>>]

Init ==
  /\ flags = [e \in Events |-> {}]
  /\ activequeues = EmptyQueues /\ active_later_queue = <<>>
  /\ ev_timeout = [e \in Events |-> 0] /\ ev_io_timeout = [e \in Events |-> 0]
  /\ ev_res = [e \in Events |-> {}]
  /\ nio = [f \in Fds |-> [c \in Conditions |-> 0]]
  /\ interest = [f \in Fds |-> {}]
  /\ n_deferreds_queued = 0 /\ running = -1
  /\ event_continue = FALSE /\ event_break = FALSE
  /\ loopflag \in {"EVLOOP_NONBLOCK", "EVLOOP_ONCE"}
  /\ at = "out" /\ current_event = NoEvent /\ reported = {}
  /\ time = 0 /\ tv_cache = -1 /\ ready = [f \in Fds |-> {}] /\ ops = 0
  /\ group = [e \in Events |-> {}] /\ finalized = [e \in Events |-> 0]
  /\ deleted = {} /\ rearmed = {}

-----------------------------------------------------------------------------
(* The lists.                                                              *)

Has(f, e) == f \in flags[e]
InUse(e) == flags[e] \cap {"ACTIVE", "ACTIVE_LATER"} # {}
N_ACTIVE_CALLBACKS == {e \in Events : InUse(e)}
event_haveevents == \E e \in Events : flags[e] \ {"FINALIZING"} # {}

(* What is left of the queues when the events of S are taken off them.     *)
Off(S) == [p \in Pri |-> Without(activequeues[p], S)]

(* TAILQ_INSERT_TAIL.                                                      *)
Inserted(q, e) == [q EXCEPT ![ev_pri[e]] = Append(@, e)]

gettime == IF tv_cache # -1 THEN tv_cache ELSE time

(* evmap_io_add_ and epoll's add.                                          *)
evmap_io_add(e) ==
  LET f == ev_fd[e]
      C == ev_events[e] \cap Conditions
  IN  /\ nio' = [nio EXCEPT ![f] =
                   [c \in Conditions |-> @[c] + (IF c \in C THEN 1 ELSE 0)]]
      /\ interest' = [interest EXCEPT ![f] = @ \cup {c \in C : nio[f][c] = 0}]

(* Those of S that wait for a condition of a descriptor.                   *)
InsertedIn(S, f, c) ==
  {e \in S : Has("INSERTED", e) /\ ev_fd[e] = f /\ c \in ev_events[e]}

(* evmap_io_del_ and epoll's del, for the inserted events of S.            *)
evmap_io_del(S) ==
  /\ nio' = [f \in Fds |-> [c \in Conditions |->
                              nio[f][c] - Cardinality(InsertedIn(S, f, c))]]
  /\ interest' = [f \in Fds |-> interest[f] \
       {c \in Conditions : InsertedIn(S, f, c) # {} /\ nio'[f][c] = 0}]

(* Mutated: the later queue is forgotten.                                  *)
event_del_nolock_OnlyActive(S) ==
  /\ flags' = [e \in Events |-> IF e \in S THEN flags[e] \cap {"FINALIZING"}
                                ELSE flags[e]]
  /\ activequeues' = Off(S)
  /\ UNCHANGED active_later_queue
  /\ evmap_io_del(S)

(* event_del_nolock_ or event_callback_cancel_nolock_, for all of S.       *)
event_del_nolock(S) ==
  /\ flags' = [e \in Events |-> IF e \in S THEN flags[e] \cap {"FINALIZING"}
                                ELSE flags[e]]
  /\ activequeues' = Off(S)
  /\ active_later_queue' = Without(active_later_queue, S)
  /\ evmap_io_del(S)

(* event_add_nolock_ for an event with flags F, in queues Q, at a time t   *)
(* or without a timeout (-1).                                              *)
event_add_nolock(e, F, Q, t) ==
  LET inserts == e \in Io /\ F \cap {"INSERTED", "ACTIVE", "ACTIVE_LATER"} = {}
      unfires == t # -1 /\ "ACTIVE" \in F /\ "EV_TIMEOUT" \in ev_res[e]
  IN  /\ flags' = [flags EXCEPT ![e] =
            (F \ (IF unfires THEN {"ACTIVE"} ELSE {}))
              \cup (IF inserts THEN {"INSERTED"} ELSE {})
              \cup (IF t # -1 THEN {"TIMEOUT"} ELSE {})]
      /\ activequeues' = IF unfires THEN [p \in Pri |-> Without(Q[p], {e})] ELSE Q
      /\ ev_timeout' = [ev_timeout EXCEPT ![e] = IF t # -1 THEN t ELSE @]
      /\ IF inserts THEN evmap_io_add(e) ELSE UNCHANGED evmap
      /\ rearmed' = IF unfires /\ "INSERTED" \notin F
                    THEN rearmed \cup {e} ELSE rearmed

(* event_active_nolock_.                                                   *)
event_active_nolock(e, res) ==
  /\ ev_res' = [ev_res EXCEPT ![e] = IF InUse(e) THEN @ \cup res ELSE res]
  /\ IF Has("ACTIVE", e) THEN UNCHANGED <<lists, event_continue>> ELSE
       /\ event_continue' = (event_continue \/ ev_pri[e] < running)
       /\ flags' = [flags EXCEPT ![e] = (@ \ {"ACTIVE_LATER"}) \cup {"ACTIVE"}]
       /\ activequeues' = Inserted(activequeues, e)
       /\ active_later_queue' = Without(active_later_queue, {e})

-----------------------------------------------------------------------------
(* Operations, of a callback or of the code between two calls of           *)
(* event_base_loop.  What belongs to an object that was finalized is       *)
(* touched no more: its reference count is 0.                              *)

Closing == UNION {group[e] : e \in Events}
Turn(e) == /\ at \in {"callback", "out"} /\ ops < MaxOps /\ ops' = ops + 1
           /\ e \notin Closing
           /\ UNCHANGED <<loop, at, current_event, reported, tv_cache, world,
                          group, finalized>>

(* Mutated: an event that is active and is given a new timeout stays       *)
(* active. *)
event_add_StaysActive(e, tv) ==
  /\ Turn(e) /\ e \notin Deferred /\ (tv # -1 \/ e \in Io)
  /\ flags' = [flags EXCEPT ![e] = @
        \cup (IF e \in Io /\ @ \cap {"INSERTED", "ACTIVE", "ACTIVE_LATER"} = {}
              THEN {"INSERTED"} ELSE {})
        \cup (IF tv # -1 THEN {"TIMEOUT"} ELSE {})]
  /\ ev_timeout' = [ev_timeout EXCEPT ![e] = IF tv # -1 THEN gettime + tv ELSE @]
  /\ IF "INSERTED" \in flags'[e] \ flags[e] THEN evmap_io_add(e)
     ELSE UNCHANGED evmap
  /\ ev_io_timeout' =
       [ev_io_timeout EXCEPT ![e] = IF tv # -1 /\ e \in Persist THEN tv ELSE @]
  /\ deleted' = deleted \ {e}
  /\ UNCHANGED <<activequeues, active_later_queue, ev_res, event_continue,
                 rearmed>>

(* event_add, with a delay or without one (-1).                            *)
event_add(e, tv) ==
  /\ Turn(e) /\ e \notin Deferred /\ (tv # -1 \/ e \in Io)
  /\ event_add_nolock(e, flags[e], activequeues,
                      IF tv = -1 THEN -1 ELSE gettime + tv)
  /\ ev_io_timeout' =
       [ev_io_timeout EXCEPT ![e] = IF tv # -1 /\ e \in Persist THEN tv ELSE @]
  /\ deleted' = deleted \ {e}
  /\ UNCHANGED <<active_later_queue, ev_res, event_continue>>

(* Mutated: an active event is taken off the backend only. *)
event_del_KeepsActive(e) ==
  /\ Turn(e)
  /\ flags' = [flags EXCEPT ![e] = @ \ {"INSERTED", "TIMEOUT"}]
  /\ evmap_io_del({e})
  /\ deleted' = deleted \cup {e} /\ rearmed' = rearmed \ {e}
  /\ UNCHANGED <<activequeues, active_later_queue, times, ev_res, event_continue>>

(* event_del, and event_deferred_cb_cancel_ for a deferred callback, of    *)
(* one that is on some list.                                               *)
event_del(e) ==
  /\ Turn(e) /\ flags[e] # {}
  /\ event_del_nolock({e})
  /\ deleted' = deleted \cup {e} /\ rearmed' = rearmed \ {e}
  /\ UNCHANGED <<times, ev_res, event_continue>>

(* event_active by the user, for a condition of its own.                   *)
event_active(e) ==
  /\ Turn(e) /\ e \notin Deferred
  /\ event_active_nolock(e, {"EV_USER"})
  /\ deleted' = deleted \ {e}
  /\ UNCHANGED <<times, evmap, rearmed>>

(* event_deferred_cb_schedule_: past the limit it waits for the next pass. *)
event_deferred_cb_schedule(d) ==
  /\ at \in {"callback", "out"} /\ ops < MaxOps /\ ops' = ops + 1
  /\ d \in Deferred \ Closing
  /\ IF n_deferreds_queued > MAX_DEFERREDS_QUEUED
     THEN /\ IF InUse(d) THEN UNCHANGED lists ELSE
               /\ flags' = [flags EXCEPT ![d] = @ \cup {"ACTIVE_LATER"}]
               /\ active_later_queue' = Append(active_later_queue, d)
               /\ UNCHANGED activequeues
          /\ UNCHANGED n_deferreds_queued
     ELSE /\ IF Has("ACTIVE", d) THEN UNCHANGED lists ELSE
               /\ flags' = [flags EXCEPT ![d] = (@ \ {"ACTIVE_LATER"}) \cup {"ACTIVE"}]
               /\ activequeues' = Inserted(activequeues, d)
               /\ active_later_queue' = Without(active_later_queue, {d})
          /\ n_deferreds_queued' = n_deferreds_queued + (IF InUse(d) THEN 0 ELSE 1)
  /\ deleted' = deleted \ {d}
  /\ UNCHANGED <<times, ev_res, evmap, running, event_break, loopflag,
                 event_continue, at, current_event, reported, tv_cache, world,
                 group, finalized, rearmed>>

event_base_loopbreak ==
  /\ at = "callback" /\ ops < MaxOps /\ ops' = ops + 1
  /\ event_break' = TRUE
  /\ UNCHANGED <<lists, times, ev_res, evmap, n_deferreds_queued, running,
                 loopflag, event_continue, at, current_event, reported,
                 tv_cache, world, history>>

(* event_callback_finalize_many_ when the last reference to a bufferevent  *)
(* goes: all of its events are cancelled, and one, the current one or else *)
(* the first, comes back as the finalizer.  Also in SyinxKernel::Close.     *)
event_callback_finalize_many(S, x) ==
  /\ at \in {"callback", "out", "close"} /\ ops < MaxOps /\ ops' = ops + 1
  /\ S \cap Closing = {}
  /\ x \in S /\ (current_event \in S => x = current_event)
  /\ flags' = [e \in Events |->
                 CASE e = x -> {"ACTIVE", "FINALIZING"}
                   [] e \in S \ {x} -> flags[e] \cap {"FINALIZING"}
                   [] OTHER -> flags[e]]
  /\ activequeues' = Inserted(Off(S), x)
  /\ active_later_queue' = Without(active_later_queue, S)
  /\ evmap_io_del(S)
  /\ group' = [group EXCEPT ![x] = S]
  /\ rearmed' = rearmed \ S /\ deleted' = deleted \ S
  /\ UNCHANGED <<times, ev_res, loop, event_continue, at, current_event,
                 reported, tv_cache, world, finalized>>

(* The callback reads or writes until its condition holds no more.         *)
Consume ==
  /\ at = "callback" /\ current_event \in Io
  /\ ready' = [ready EXCEPT ![ev_fd[current_event]] = @ \ ev_events[current_event]]
  /\ UNCHANGED <<lists, times, ev_res, evmap, loop, event_continue, at,
                 current_event, reported, tv_cache, time, ops, history>>

-----------------------------------------------------------------------------
(* event_base_loop.                                                        *)

KeepLists == UNCHANGED <<lists, times, ev_res, evmap, history>>

(* done: *)
Leave == at' = "out" /\ tv_cache' = -1 /\ running' = -1

(* The call.                                                               *)
event_base_loop(f) ==
  /\ at = "out"
  /\ loopflag' = f /\ event_break' = FALSE
  /\ at' = "top" /\ tv_cache' = -1
  /\ KeepLists
  /\ UNCHANGED <<n_deferreds_queued, running, event_continue, current_event,
                 reported, world, ops>>

(* The beginning of a pass, up to the poll.                                *)
Top ==
  /\ at = "top"
  /\ event_continue' = FALSE
  /\ IF event_break \/ ~event_haveevents
     THEN /\ Leave /\ n_deferreds_queued' = 0
          /\ UNCHANGED lists
     ELSE /\ at' = "wait" /\ tv_cache' = -1
          /\ n_deferreds_queued' =
               Cardinality({e \in Deferred : Has("ACTIVE_LATER", e)})
          /\ activequeues' = [p \in Pri |-> activequeues[p] \o
               Without(active_later_queue, {e \in Events : ev_pri[e] # p})]
          /\ active_later_queue' = <<>>
          /\ flags' = [e \in Events |-> IF Has("ACTIVE_LATER", e)
               THEN (flags[e] \ {"ACTIVE_LATER"}) \cup {"ACTIVE"} ELSE flags[e]]
          /\ UNCHANGED running
  /\ UNCHANGED <<times, ev_res, evmap, event_break, loopflag,
                 current_event, reported, world, ops, history>>

Due(now) == {e \in Events : Has("TIMEOUT", e) /\ ev_timeout[e] <= now}

(* What the backend reports: the watched conditions that hold.             *)
Polled(e) == IF Has("INSERTED", e)
             THEN ev_events[e] \cap interest[ev_fd[e]] \cap ready[ev_fd[e]] ELSE {}
Reported == {e \in Events : Polled(e) # {}}

(* evsel->dispatch returns: at once if something is active or the call     *)
(* does not block, else when something is ready or due.                    *)
Dispatch ==
  /\ at = "wait"
  /\ \/ N_ACTIVE_CALLBACKS # {} \/ loopflag = "EVLOOP_NONBLOCK"
     \/ Reported # {} \/ Due(time) # {}
  /\ reported' = Reported
  /\ tv_cache' = time
  /\ at' = "evmap"
  /\ KeepLists
  /\ UNCHANGED <<loop, event_continue, current_event, world, ops>>

(* epoll_wait fails: TCPRun and HTTPRun return, and main calls Close.      *)
DispatchFails ==
  /\ at = "wait" /\ at' = "close" /\ tv_cache' = -1 /\ running' = -1
  /\ KeepLists
  /\ UNCHANGED <<n_deferreds_queued, event_break, loopflag,
                 event_continue, current_event, reported, world, ops>>

(* evmap_io_active_ for one of the events, in the backend's order.         *)
evmap_io_active(e) ==
  /\ at = "evmap" /\ e \in reported
  /\ event_active_nolock(e, Polled(e))
  /\ reported' = reported \ {e}
  /\ UNCHANGED <<times, evmap, loop, at, current_event, tv_cache, world, ops,
                 history>>

EvmapDone ==
  /\ at = "evmap" /\ reported = {}
  /\ at' = "timeouts"
  /\ KeepLists
  /\ UNCHANGED <<loop, event_continue, current_event, reported, tv_cache,
                 world, ops>>

(* Mutated: the event keeps its timeout and its place in the backend.      *)
timeout_process_NoDel(e) ==
  /\ at = "timeouts" /\ e \in Due(tv_cache)
  /\ \A d \in Due(tv_cache) : ev_timeout[e] <= ev_timeout[d]
  /\ event_active_nolock(e, {"EV_TIMEOUT"})
  /\ UNCHANGED <<times, evmap, loop, at, current_event, reported, tv_cache,
                 world, ops, history>>

(* timeout_process, one event: deleted, then activated.                    *)
timeout_process(e) ==
  /\ at = "timeouts" /\ e \in Due(tv_cache)
  /\ \A d \in Due(tv_cache) : ev_timeout[e] <= ev_timeout[d]
  /\ flags' = [flags EXCEPT ![e] = {"ACTIVE"}]
  /\ activequeues' = Inserted(Off({e}), e)
  /\ active_later_queue' = Without(active_later_queue, {e})
  /\ evmap_io_del({e})
  /\ ev_res' = [ev_res EXCEPT ![e] = {"EV_TIMEOUT"}]
  /\ rearmed' = rearmed \ {e}
  /\ UNCHANGED <<times, loop, event_continue, at, current_event, reported,
                 tv_cache, world, ops, group, finalized, deleted>>

(* The choice of the queue to run; or nothing is active.                   *)
event_process_active ==
  /\ at = "timeouts" /\ Due(tv_cache) = {}
  /\ IF N_ACTIVE_CALLBACKS # {}
     THEN /\ at' = "process"
          /\ \E p \in Pri : /\ activequeues[p] # <<>>
                            /\ \A q \in 0..(p - 1) : activequeues[q] = <<>>
                            /\ running' = p
          /\ UNCHANGED tv_cache
     ELSE IF loopflag = "EVLOOP_NONBLOCK" THEN Leave
          ELSE at' = "top" /\ UNCHANGED <<tv_cache, running>>
  /\ KeepLists
  /\ UNCHANGED <<n_deferreds_queued, event_break, loopflag, event_continue,
                 current_event, reported, world, ops>>

(* event_process_active_single_queue: the next callback of the queue.      *)
Runs(e) == /\ at = "process" /\ e = Head(activequeues[running])
           /\ at' = "callback"
           /\ UNCHANGED <<active_later_queue, ev_res, loop, event_continue,
                          reported, tv_cache, world, ops, group, deleted>>
Taken == [activequeues EXCEPT ![running] = Tail(@)]

(* Mutated: the finalizer is run with the event still listed. *)
RunFinalizer_Listed(e) ==
  /\ Runs(e) /\ Has("FINALIZING", e)
  /\ finalized' = [finalized EXCEPT ![e] = @ + 1]
  /\ current_event' = NoEvent
  /\ UNCHANGED <<activequeues, flags, times, evmap, rearmed>>

(* EV_CLOSURE_CB_FINALIZE.                                                 *)
RunFinalizer(e) ==
  /\ Runs(e) /\ Has("FINALIZING", e)
  /\ activequeues' = Taken
  /\ flags' = [flags EXCEPT ![e] = @ \ {"ACTIVE"}]
  /\ finalized' = [finalized EXCEPT ![e] = @ + 1]
  /\ current_event' = NoEvent
  /\ UNCHANGED <<times, evmap, rearmed>>

(* event_persist_closure: from when it was due if it timed out, else from  *)
(* now; if that has passed already, from now too.                          *)
RunAt(e) == LET from == IF "EV_TIMEOUT" \in ev_res[e] THEN ev_timeout[e] ELSE tv_cache
                t == from + ev_io_timeout[e]
            IN  IF t < tv_cache THEN tv_cache + ev_io_timeout[e] ELSE t

(* Mutated: only the timeout is set again.                                 *)
RunPersistent_TimerOnly(e) ==
  /\ Runs(e) /\ ~Has("FINALIZING", e) /\ e \in Persist
  /\ activequeues' = Taken
  /\ flags' = [flags EXCEPT ![e] = (@ \ {"ACTIVE"}) \cup
                 (IF ev_io_timeout[e] # 0 THEN {"TIMEOUT"} ELSE {})]
  /\ ev_timeout' = [ev_timeout EXCEPT ![e] = IF ev_io_timeout[e] # 0
                                             THEN RunAt(e) ELSE @]
  /\ current_event' = e
  /\ UNCHANGED <<ev_io_timeout, finalized, evmap, rearmed>>

RunPersistent(e) ==
  /\ Runs(e) /\ ~Has("FINALIZING", e) /\ e \in Persist
  /\ IF ev_io_timeout[e] # 0
     THEN event_add_nolock(e, flags[e] \ {"ACTIVE"}, Taken, RunAt(e))
     ELSE /\ activequeues' = Taken
          /\ flags' = [flags EXCEPT ![e] = @ \ {"ACTIVE"}]
          /\ UNCHANGED <<ev_timeout, evmap, rearmed>>
  /\ current_event' = e
  /\ UNCHANGED <<ev_io_timeout, finalized>>

(* An event that is not persistent is deleted; a deferred callback has     *)
(* nothing but its place in the queue.                                     *)
RunOnce(e) ==
  /\ Runs(e) /\ ~Has("FINALIZING", e) /\ e \notin Persist
  /\ activequeues' = Taken
  /\ flags' = [flags EXCEPT ![e] = {}]
  /\ evmap_io_del({e})
  /\ rearmed' = rearmed \ {e}
  /\ current_event' = e
  /\ UNCHANGED <<times, finalized>>

(* Mutated: event_continue is not looked at. *)
Return_Continues ==
  /\ at = "callback"
  /\ current_event' = NoEvent
  /\ IF event_break \/ activequeues[running] = <<>>
     THEN IF loopflag = "EVLOOP_ONCE" /\ N_ACTIVE_CALLBACKS = {} THEN Leave
          ELSE at' = "top" /\ running' = -1 /\ UNCHANGED tv_cache
     ELSE at' = "process" /\ UNCHANGED <<running, tv_cache>>
  /\ KeepLists
  /\ UNCHANGED <<n_deferreds_queued, event_break, loopflag,
                 event_continue, reported, world, ops>>

(* The callback returns.                                                   *)
Return ==
  /\ at = "callback"
  /\ current_event' = NoEvent
  /\ IF event_break \/ event_continue \/ activequeues[running] = <<>>
     THEN IF loopflag = "EVLOOP_ONCE" /\ N_ACTIVE_CALLBACKS = {} THEN Leave
          ELSE at' = "top" /\ running' = -1 /\ UNCHANGED tv_cache
     ELSE at' = "process" /\ UNCHANGED <<running, tv_cache>>
  /\ KeepLists
  /\ UNCHANGED <<n_deferreds_queued, event_break, loopflag,
                 event_continue, reported, world, ops>>

-----------------------------------------------------------------------------
(* SIG_HANDLE or the end of main: SyinxKernel::Close frees bufferevents    *)
(* and then the base.                                                      *)

SIG_HANDLE ==
  /\ at \notin {"close", "free", "freed"}
  /\ at' = "close"
  /\ KeepLists
  /\ UNCHANGED <<loop, event_continue, current_event, reported, tv_cache,
                 world, ops>>

event_base_free ==
  /\ at = "close" /\ at' = "free"
  /\ KeepLists
  /\ UNCHANGED <<loop, event_continue, current_event, reported, tv_cache,
                 world, ops>>

Pending == {e \in Events : flags[e] \cap {"INSERTED", "TIMEOUT"} # {}}

(* evmap_delete_all_ and the heap: one event is deleted; event_del passes  *)
(* over a finalizing one.                                                  *)
FreePending(e) ==
  /\ at = "free" /\ e \in Pending /\ ~Has("FINALIZING", e)
  /\ event_del_nolock({e})
  /\ rearmed' = rearmed \ {e}
  /\ UNCHANGED <<times, ev_res, loop, event_continue, at, current_event,
                 reported, tv_cache, world, ops, group, finalized, deleted>>

(* Mutated: as event_base_free_nofinalize. *)
CancelActive_NoFinalizers(e) ==
  /\ at = "free" /\ Pending = {} /\ e \in N_ACTIVE_CALLBACKS
  /\ event_del_nolock({e})
  /\ UNCHANGED finalized
  /\ UNCHANGED <<times, ev_res, loop, event_continue, at, current_event,
                 reported, tv_cache, world, ops, group, deleted, rearmed>>

(* event_base_cancel_single_callback_, with its finalizer.                 *)
CancelActive(e) ==
  /\ at = "free" /\ Pending = {} /\ e \in N_ACTIVE_CALLBACKS
  /\ event_del_nolock({e})
  /\ finalized' = IF Has("FINALIZING", e)
                  THEN [finalized EXCEPT ![e] = @ + 1] ELSE finalized
  /\ UNCHANGED <<times, ev_res, loop, event_continue, at, current_event,
                 reported, tv_cache, world, ops, group, deleted, rearmed>>

BaseFreed ==
  /\ at = "free" /\ Pending = {} /\ N_ACTIVE_CALLBACKS = {}
  /\ at' = "freed"
  /\ KeepLists
  /\ UNCHANGED <<loop, event_continue, current_event, reported, tv_cache,
                 world, ops>>

(* The world: the clock, and descriptors that become ready.  Readiness is  *)
(* looked at by the poll only, so it is enough that it changes before one. *)
Tick ==
  /\ at \in {"wait", "callback", "out"} /\ time < MaxTime
  /\ time' = time + 1
  /\ KeepLists
  /\ UNCHANGED <<loop, event_continue, at, current_event, reported, tv_cache,
                 ready, ops>>

Becomes(f, c) ==
  /\ at = "wait" /\ c \notin ready[f]
  /\ ready' = [ready EXCEPT ![f] = @ \cup {c}]
  /\ KeepLists
  /\ UNCHANGED <<loop, event_continue, at, current_event, reported, tv_cache,
                 time, ops>>

LoopStep ==
  \/ Top \/ Dispatch \/ EvmapDone \/ event_process_active \/ Return
  \/ \E e \in Events : \/ evmap_io_active(e) \/ timeout_process(e)
                       \/ RunFinalizer(e) \/ RunPersistent(e) \/ RunOnce(e)

Operation ==
  \/ \E e \in Events : \/ \E tv \in Timeouts \cup {-1} : event_add(e, tv)
                       \/ event_del(e) \/ event_active(e)
                       \/ event_deferred_cb_schedule(e)
  \/ \E S \in Groups : \E x \in S : event_callback_finalize_many(S, x)
  \/ event_base_loopbreak \/ Consume

FreeStep == \/ event_base_free \/ BaseFreed
            \/ \E e \in Events : FreePending(e) \/ CancelActive(e)

Next ==
  \/ \E f \in {"EVLOOP_NONBLOCK", "EVLOOP_ONCE"} : event_base_loop(f)
  \/ LoopStep \/ DispatchFails \/ Operation \/ SIG_HANDLE \/ FreeStep
  \/ Tick \/ \E f \in Fds, c \in Conditions : Becomes(f, c)

Spec == Init /\ [][Next]_vars

(* The loop runs whenever it can, the server calls it again and again, and *)
(* event_base_free goes through; nobody owes an operation or a signal.     *)
FairSpec == Spec /\ WF_vars(LoopStep) /\ WF_vars(FreeStep)
                 /\ WF_vars(\E f \in {"EVLOOP_NONBLOCK", "EVLOOP_ONCE"} :
                              event_base_loop(f))

-----------------------------------------------------------------------------
(* The shape of the state.                                                 *)
TypeOK ==
  /\ flags \in [Events -> SUBSET {"INSERTED", "TIMEOUT", "ACTIVE",
                                  "ACTIVE_LATER", "FINALIZING"}]
  /\ activequeues \in [Pri -> Seq(Events)] /\ active_later_queue \in Seq(Events)
  /\ ev_timeout \in [Events -> Nat] /\ ev_io_timeout \in [Events -> Nat]
  /\ ev_res \in [Events -> SUBSET (Conditions \cup {"EV_TIMEOUT", "EV_USER"})]
  /\ nio \in [Fds -> [Conditions -> Nat]]
  /\ interest \in [Fds -> SUBSET Conditions]
  /\ n_deferreds_queued \in Nat /\ running \in Pri \cup {-1}
  /\ event_continue \in BOOLEAN /\ event_break \in BOOLEAN
  /\ loopflag \in {"EVLOOP_NONBLOCK", "EVLOOP_ONCE"}
  /\ at \in Places /\ (at = "process" => running # -1)
  /\ current_event \in Events \cup {NoEvent} /\ reported \subseteq Events
  /\ time \in 0..MaxTime /\ tv_cache \in -1..time /\ ops \in 0..MaxOps
  /\ ready \in [Fds -> SUBSET Conditions]
  /\ group \in [Events -> SUBSET Events] /\ finalized \in [Events -> Nat]
  /\ deleted \subseteq Events /\ rearmed \subseteq Events

(* event_base_assert_ok_nolock_, at every place of the loop: an event is   *)
(* on the queue of its priority, once, just while it is EVLIST_ACTIVE, on  *)
(* the later queue just while it is EVLIST_ACTIVE_LATER, never on both;    *)
(* and, what evmap_check_integrity_ asserts, the counts of each descriptor *)
(* are those of the inserted events, with the backend watching just these. *)
AssertOk ==
  /\ TypeOK
  /\ Lists(active_later_queue, {e \in Events : Has("ACTIVE_LATER", e)})
  /\ \A p \in Pri :
       Lists(activequeues[p], {e \in Events : Has("ACTIVE", e) /\ ev_pri[e] = p})
  /\ \A e \in Events : ~(Has("ACTIVE", e) /\ Has("ACTIVE_LATER", e))
  /\ \A f \in Fds : \A c \in Conditions :
       /\ nio[f][c] = Cardinality(InsertedIn(Events, f, c))
       /\ c \in interest[f] <=> InsertedIn(Events, f, c) # {}

(* A bufferevent that was given up is destroyed once: its finalizer is     *)
(* active or has run, not both and not twice, wherever the loop is, across *)
(* loopbreak, and also when a signal frees the base under a callback.  Not *)
(* run, the client's socket would stay open; run twice, it would be freed  *)
(* twice.  Nothing else of it is listed: when the finalizer has freed the  *)
(* memory no queue, heap or evmap leads to it.                             *)
FinalizedOnce ==
  /\ \A e \in Events :
       IF group[e] = {} THEN finalized[e] = 0 ELSE
         /\ finalized[e] = IF Has("ACTIVE", e) THEN 0 ELSE 1
         /\ at = "freed" => finalized[e] = 1
  /\ \A e \in Closing : flags[e] \subseteq IF group[e] # {} /\ finalized[e] = 0
                                           THEN {"ACTIVE", "FINALIZING"}
                                           ELSE {"FINALIZING"}

Begins(e) == at = "process" /\ at' = "callback" /\ e = Head(activequeues[running])

(* After event_del a callback does not run until the event is added,       *)
(* activated or scheduled again, also when it was active already and       *)
(* waited behind the callback that deleted it.                             *)
DeletedStaysQuiet == [][\A e \in deleted : ~Begins(e)]_vars

(* When a callback begins, no event of a better priority waits: what       *)
(* event_active puts there ends the pass.  Only what goes around           *)
(* event_active, deferred callbacks and finalizers, may be passed over.    *)
PriorityFirst ==
  [][\A e \in Events : Begins(e) =>
       \A d \in Events : Has("ACTIVE", d) /\ ev_pri[d] < ev_pri[e] =>
         d \in Deferred \/ Has("FINALIZING", d)]_vars

(* A callback told of a timeout is not run before the timeout it was last  *)
(* added with, counted from the cached time of that event_add: giving an   *)
(* event that waits with EV_TIMEOUT a new one takes it off the queue.      *)
TimeoutNotEarly ==
  \A e \in Events : Has("ACTIVE", e) /\ "EV_TIMEOUT" \in ev_res[e]
                    /\ ~Has("FINALIZING", e) =>
     ev_timeout[e] <= time

(* An event added for a condition of a descriptor with a timeout is        *)
(* watched for the condition as long as the timeout runs, except after an  *)
(* event_add with a new timeout while it was active for the last one.      *)
TimedIsWatched ==
  \A e \in Io : /\ Has("TIMEOUT", e) /\ ~Has("ACTIVE", e) /\ e \notin rearmed
                => Has("INSERTED", e)

(* Again and again all that was given up is finalized, if the server goes  *)
(* on to call event_base_loop or frees the base, and nothing that is       *)
(* given up has a worse priority than another event.                       *)
FinalizerRuns ==
  []<>(\A e \in Events : group[e] # {} => finalized[e] = 1)

(* A call that does not block returns, once no descriptor becomes ready    *)
(* any more and callbacks have dealt with those that were: it polls until  *)
(* a poll finds nothing.                                                   *)
QuietReturns ==
  <>[](\A f \in Fds : ready[f] = {}) =>
    []<>(loopflag = "EVLOOP_NONBLOCK" => at \in {"out", "close", "freed"})
=============================================================================
