----------------------------- MODULE FrameLoop ------------------------------
(***************************************************************************)
(* The pacing of SyinxKernel::TCPRun: event_base_loop, then a frame if the *)
(* clock has reached NextMeslTime, or else a sleep.  Time is in ms.  The   *)
(* clock GetMselTime reads is gettimeofday on Linux, which an operator or  *)
(* a time daemon can set, and GetTickCount on Windows, a 32-bit count that *)
(* starts again at 0.                                                      *)
(***************************************************************************)
EXTENDS Integers

CONSTANTS
  FrameTime,  \* 1000 / GAME_SERVER_FRAME_NUMS
  LoopTime,   \* the longest a frame's work and event_base_loop take
  SkipTime,   \* the longest Skipping(1) takes
  Range,      \* the clock reads 0 .. Range - 1
  Jumps,      \* by how much the clock may be set forward or back
  Horizon     \* bound up to which sinceFrame counts

ASSUME FrameAssumption ==
  /\ FrameTime \in Nat \ {0} /\ SkipTime \in Nat \ {0}
  /\ LoopTime \in Nat
  /\ Range \in Nat \ {0}
  /\ Jumps \subseteq Int
  /\ Horizon \in Nat /\ Horizon >= FrameTime + LoopTime + SkipTime

VARIABLES
  at,            \* where the loop is
  clock,         \* what GetMselTime would return
  NextMeslTime,  \* a uint64_t: the sum below cannot wrap
  sinceFrame,    \* history: time since the last frame
  setForward,    \* history: the clock was set forward since then,
  setBack        \* or was set back or has started again

vars == <<at, clock, NextMeslTime, sinceFrame, setForward, setBack>>

(* Before event_base_loop, before the clock is read, before Skipping.      *)
Places == {"loop", "time", "skip"}

(* The first frame is due at once, whatever the clock reads.               *)
Init ==
  /\ at = "loop"
  /\ clock \in 0 .. Range - 1
  /\ NextMeslTime = 0
  /\ sinceFrame = FrameTime
  /\ setForward = TRUE /\ setBack = FALSE

(* d ms pass, less than the clock's whole range.                           *)
Elapse(d) ==
  /\ clock' = IF clock + d < Range THEN clock + d ELSE (clock + d) % Range
  /\ setBack' = (setBack \/ clock + d >= Range)
  /\ sinceFrame' = IF sinceFrame + d < Horizon THEN sinceFrame + d ELSE Horizon
  /\ UNCHANGED <<NextMeslTime, setForward>>

EventLoop ==
  /\ at = "loop"
  /\ at' = "time"
  /\ \E d \in 0 .. LoopTime : Elapse(d)

(* Mutated: the next frame is due one period after the last was due. *)
Frame_FromDue ==
  /\ at = "time" /\ clock >= NextMeslTime
  /\ NextMeslTime' = NextMeslTime + FrameTime
  /\ sinceFrame' = 0 /\ setForward' = FALSE /\ setBack' = FALSE
  /\ at' = "loop"
  /\ UNCHANGED clock

(* The frame's work is counted in the next LoopTime.                       *)
Frame ==
  /\ at = "time" /\ clock >= NextMeslTime
  /\ NextMeslTime' = clock + FrameTime
  /\ sinceFrame' = 0 /\ setForward' = FALSE /\ setBack' = FALSE
  /\ at' = "loop"
  /\ UNCHANGED clock

(* Mutated: a frame that is due is skipped once more. *)
NotYet_TooLong ==
  /\ at = "time" /\ clock <= NextMeslTime + 1
  /\ at' = "skip"
  /\ UNCHANGED <<clock, NextMeslTime, sinceFrame, setForward, setBack>>

NotYet ==
  /\ at = "time" /\ clock < NextMeslTime
  /\ at' = "skip"
  /\ UNCHANGED <<clock, NextMeslTime, sinceFrame, setForward, setBack>>

Skipping ==
  /\ at = "skip"
  /\ at' = "loop"
  /\ \E d \in 1 .. SkipTime : Elapse(d)

(* The clock is set.                                                       *)
SetClock ==
  \E j \in Jumps :
    /\ clock + j \in 0 .. Range - 1
    /\ clock' = clock + j
    /\ setForward' = (setForward \/ j > 0)
    /\ setBack' = (setBack \/ j < 0)
    /\ UNCHANGED <<at, NextMeslTime, sinceFrame>>

Next == EventLoop \/ Frame \/ NotYet \/ Skipping \/ SetClock

Spec == Init /\ [][Next]_vars

-----------------------------------------------------------------------------
(* Properties.                                                             *)

(* Every variable has its type; NextMeslTime is never further ahead than   *)
(* one period past the end of the clock's range.                           *)
TypeOK ==
  /\ at \in Places
  /\ clock \in 0 .. Range - 1
  /\ NextMeslTime \in 0 .. Range - 1 + FrameTime
  /\ sinceFrame \in 0 .. Horizon
  /\ setForward \in BOOLEAN /\ setBack \in BOOLEAN

(* Two frames are never closer than FrameTime, however long a frame or     *)
(* event_base_loop took, unless the clock was set forward between them.    *)
NeverEarly == [][Frame => sinceFrame >= FrameTime \/ setForward]_vars

(* A frame is never later than the one sleep and the one event_base_loop   *)
(* that may be under way when it falls due, unless the clock was set back  *)
(* or has started again.                                                   *)
NeverLate == setBack \/ sinceFrame < FrameTime + SkipTime + LoopTime

=============================================================================
