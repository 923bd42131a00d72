----------------------------- MODULE MCEventBase ------------------------------
EXTENDS EventBase, TLC
CONSTANTS r, w, tmr, d, fd
(* A bufferevent's read and write events on one descriptor, a timer and a  *)
(* deferred callback.                                                      *)
MCEvents == {r, w, tmr, d}
MCfd == [e \in MCEvents |-> fd]
MCevents == (r :> {"EV_READ", "EV_PERSIST"} @@ w :> {"EV_WRITE"}
             @@ tmr :> {} @@ d :> {})
MCGroups == {{r, w, d}}
MCpri == (r :> 0 @@ w :> 0 @@ tmr :> 1 @@ d :> 0)
=============================================================================
