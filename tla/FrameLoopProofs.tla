-------------------------- MODULE FrameLoopProofs ---------------------------
(***************************************************************************)
(* The pacing theorems for every period, loop time and clock range.        *)
(***************************************************************************)
EXTENDS FrameLoop, TLAPS

(* The clock has gone on by at least the time since the last frame unless  *)
(* it was set back, and by at most that time unless it was set forward;    *)
(* and the time since the last frame is bounded by where the loop is.      *)
NotBehind == setBack \/ clock - (NextMeslTime - FrameTime) >= sinceFrame
NotAhead  == \/ setForward \/ sinceFrame = Horizon
             \/ clock - (NextMeslTime - FrameTime) <= sinceFrame
InTime ==
  setBack \/ /\ at = "loop" => sinceFrame < FrameTime + SkipTime
             /\ at = "time" => sinceFrame < FrameTime + SkipTime + LoopTime
             /\ at = "skip" => sinceFrame < FrameTime

IInv == TypeOK /\ NotBehind /\ NotAhead /\ InTime

(* The invariant holds initially.                                          *)
LEMMA InitIInv == Init => IInv
<1>. SUFFICES ASSUME Init  PROVE IInv
  OBVIOUS
<1>1. TypeOK
  <2>1. setForward \in BOOLEAN /\ setBack \in BOOLEAN
    BY DEF Init
  <2>2. 0 \in 0 .. Range - 1 + FrameTime /\ FrameTime \in 0 .. Horizon
    BY FrameAssumption
  <2>. QED  BY <2>1, <2>2 DEF Init, TypeOK, Places
<1>2. NotBehind
  <2>. clock \in Nat
    BY FrameAssumption DEF Init
  <2>. QED  BY FrameAssumption DEF Init, NotBehind
<1>3. setForward
  BY DEF Init
<1>4. InTime
  BY FrameAssumption DEF Init, InTime
<1>. QED  BY <1>1, <1>2, <1>3, <1>4 DEF IInv, NotAhead

(* What Elapse does to the clock and the history, whatever at is.          *)
LEMMA ElapseFacts ==
  ASSUME TypeOK, NEW d \in Nat, Elapse(d)
  PROVE  /\ clock' \in 0 .. Range - 1
         /\ sinceFrame' \in 0 .. Horizon /\ sinceFrame' <= sinceFrame + d
         /\ setBack' \in BOOLEAN /\ (setBack => setBack')
         /\ setBack' \/ clock' = clock + d
         /\ sinceFrame' = Horizon \/ sinceFrame' = sinceFrame + d
         /\ clock' <= clock + d
         /\ NextMeslTime' = NextMeslTime /\ setForward' = setForward
<1>1. clock \in Nat /\ Range \in Nat \ {0} /\ clock < Range /\ clock + d \in Nat
  BY FrameAssumption DEF TypeOK
<1>2. (clock + d) % Range \in 0 .. Range - 1
  BY <1>1, SMTT(30)
<1>3. clock' \in 0 .. Range - 1 /\ clock' <= clock + d
  <2>1. CASE clock + d < Range
    BY <1>1, <2>1 DEF Elapse
  <2>2. CASE ~(clock + d < Range)
    <3>1. clock' = (clock + d) % Range
      BY <2>2 DEF Elapse
    <3>. QED  BY <1>1, <1>2, <2>2, <3>1, SMTT(30)
  <2>. QED  BY <2>1, <2>2
<1>4. sinceFrame' \in 0 .. Horizon /\ sinceFrame' <= sinceFrame + d
      /\ (sinceFrame' = Horizon \/ sinceFrame' = sinceFrame + d)
  BY FrameAssumption DEF Elapse, TypeOK
<1>5. setBack' \in BOOLEAN /\ (setBack => setBack')
  BY DEF Elapse, TypeOK
<1>6. setBack' \/ clock' = clock + d
  <2>1. CASE clock + d < Range
    BY <2>1 DEF Elapse
  <2>2. CASE ~(clock + d < Range)
    <3>1. clock + d >= Range
      BY <1>1, <2>2
    <3>. QED  BY <3>1 DEF Elapse
  <2>. QED  BY <2>1, <2>2
<1>. QED  BY <1>3, <1>4, <1>5, <1>6 DEF Elapse

(* The passing of time keeps both bounds on the clock.                     *)
LEMMA ElapseKeepsClock ==
  ASSUME TypeOK, NotBehind, NotAhead, NEW d \in Nat, Elapse(d)
  PROVE  NotBehind' /\ NotAhead'
<1>1. /\ clock \in Int /\ clock' \in Int /\ NextMeslTime \in Int
      /\ sinceFrame \in Int /\ sinceFrame' \in Int
      /\ FrameTime \in Int /\ Horizon \in Int /\ d \in Int
  BY ElapseFacts, FrameAssumption DEF TypeOK
<1>2. NotBehind'
  <2>1. CASE setBack'
    BY <2>1 DEF NotBehind
  <2>2. CASE ~setBack'
    <3>1. clock - (NextMeslTime - FrameTime) >= sinceFrame
      BY <2>2, ElapseFacts DEF NotBehind
    <3>2. clock' = clock + d /\ sinceFrame' <= sinceFrame + d /\ NextMeslTime' = NextMeslTime
      BY <2>2, ElapseFacts
    <3>3. clock' - (NextMeslTime' - FrameTime) >= sinceFrame'
      BY <1>1, <3>1, <3>2
    <3>. QED  BY <3>3 DEF NotBehind
  <2>. QED  BY <2>1, <2>2
<1>3. NotAhead'
  <2>1. CASE setForward \/ sinceFrame' = Horizon
    BY <2>1, ElapseFacts DEF NotAhead
  <2>2. CASE ~setForward /\ sinceFrame' # Horizon
    <3>1. sinceFrame' = sinceFrame + d /\ clock' <= clock + d /\ NextMeslTime' = NextMeslTime
      BY <2>2, ElapseFacts
    <3>2. sinceFrame # Horizon
      BY <2>2, <3>1, ElapseFacts DEF TypeOK
    <3>3. clock - (NextMeslTime - FrameTime) <= sinceFrame
      BY <2>2, <3>2 DEF NotAhead
    <3>4. clock' - (NextMeslTime - FrameTime) <= sinceFrame + d
      <4>1. \A a, b, x, s, t \in Int : a <= b + t /\ b - x <= s => a - x <= s + t
        OBVIOUS
      <4>2. NextMeslTime - FrameTime \in Int
        BY <1>1
      <4>3. clock' <= clock + d
        BY <3>1
      <4>. QED  BY <1>1, <3>3, <4>1, <4>2, <4>3
    <3>. QED  BY <3>1, <3>4 DEF NotAhead
  <2>. QED  BY <2>1, <2>2
<1>. QED  BY <1>2, <1>3

(* Every step preserves the invariant.                                     *)
LEMMA StepIInv == IInv /\ [Next]_vars => IInv'
<1>. SUFFICES ASSUME IInv, [Next]_vars  PROVE IInv'
  OBVIOUS
<1>. USE FrameAssumption
<1>1. CASE EventLoop
  <2>1. PICK d \in 0 .. LoopTime : Elapse(d)
    BY <1>1 DEF EventLoop
  <2>2. at = "loop" /\ at' = "time" /\ d \in Nat
    BY <1>1 DEF EventLoop
  <2>3. TypeOK'
    BY <2>1, <2>2, ElapseFacts DEF IInv, TypeOK, Places
  <2>4. NotBehind' /\ NotAhead'
    BY <2>1, <2>2, ElapseKeepsClock DEF IInv
  <2>5. InTime'
    <3>1. setBack' \/ sinceFrame < FrameTime + SkipTime
      BY <2>1, <2>2, ElapseFacts DEF IInv, InTime
    <3>2. setBack' \/ sinceFrame' < FrameTime + SkipTime + LoopTime
      <4>1. /\ sinceFrame \in Nat /\ sinceFrame' \in Nat
            /\ sinceFrame' <= sinceFrame + d
        BY <2>1, <2>2, ElapseFacts DEF IInv, TypeOK
      <4>2. sinceFrame < FrameTime + SkipTime
            => sinceFrame' < FrameTime + SkipTime + LoopTime
        BY <4>1
      <4>. QED  BY <3>1, <4>2
    <3>. QED  BY <2>2, <3>2 DEF InTime
  <2>. QED  BY <2>3, <2>4, <2>5 DEF IInv
<1>2. CASE Frame
  <2>1. /\ at' = "loop" /\ clock' = clock /\ NextMeslTime' = clock + FrameTime
        /\ sinceFrame' = 0
    BY <1>2 DEF Frame
  <2>2. setForward' = FALSE /\ setBack' = FALSE
    BY <1>2 DEF Frame
  <2>3. TypeOK'
    <3>1. setForward' \in BOOLEAN /\ setBack' \in BOOLEAN
      BY <2>2
    <3>2. clock + FrameTime \in 0 .. Range - 1 + FrameTime /\ 0 \in 0 .. Horizon
      BY DEF IInv, TypeOK
    <3>. QED  BY <2>1, <3>1, <3>2 DEF IInv, TypeOK, Places
  <2>4. clock' - (NextMeslTime' - FrameTime) = sinceFrame'
    BY <2>1 DEF IInv, TypeOK
  <2>5. sinceFrame' >= sinceFrame' /\ sinceFrame' <= sinceFrame'
    BY <2>1
  <2>6. /\ clock' - (NextMeslTime' - FrameTime) >= sinceFrame'
        /\ clock' - (NextMeslTime' - FrameTime) <= sinceFrame'
    BY <2>4, <2>5, Zenon
  <2>7. sinceFrame' < FrameTime + SkipTime
    BY <2>1
  <2>. QED  BY <2>1, <2>3, <2>6, <2>7 DEF IInv, NotBehind, NotAhead, InTime
<1>3. CASE NotYet
  <2>1. /\ at = "time" /\ at' = "skip" /\ clock < NextMeslTime
        /\ UNCHANGED <<clock, NextMeslTime, sinceFrame, setForward, setBack>>
    BY <1>3 DEF NotYet
  <2>2. TypeOK' /\ NotBehind' /\ NotAhead'
    BY <2>1 DEF IInv, TypeOK, NotBehind, NotAhead, Places
  <2>3. clock - (NextMeslTime - FrameTime) >= sinceFrame => sinceFrame < FrameTime
    BY <2>1 DEF IInv, TypeOK
  <2>4. setBack \/ sinceFrame < FrameTime
    BY <2>3 DEF IInv, NotBehind
  <2>. QED  BY <2>1, <2>2, <2>4 DEF IInv, InTime
<1>4. CASE Skipping
  <2>1. PICK d \in 1 .. SkipTime : Elapse(d)
    BY <1>4 DEF Skipping
  <2>2. at = "skip" /\ at' = "loop" /\ d \in Nat
    BY <1>4 DEF Skipping
  <2>3. TypeOK'
    BY <2>1, <2>2, ElapseFacts DEF IInv, TypeOK, Places
  <2>4. NotBehind' /\ NotAhead'
    BY <2>1, <2>2, ElapseKeepsClock DEF IInv
  <2>5. InTime'
    <3>1. setBack' \/ sinceFrame < FrameTime
      BY <2>1, <2>2, ElapseFacts DEF IInv, InTime
    <3>2. setBack' \/ sinceFrame' < FrameTime + SkipTime
      <4>1. /\ sinceFrame \in Nat /\ sinceFrame' \in Nat
            /\ sinceFrame' <= sinceFrame + d
        BY <2>1, <2>2, ElapseFacts DEF IInv, TypeOK
      <4>2. sinceFrame < FrameTime => sinceFrame' < FrameTime + SkipTime
        BY <4>1
      <4>. QED  BY <3>1, <4>2
    <3>. QED  BY <2>2, <3>2 DEF InTime
  <2>. QED  BY <2>3, <2>4, <2>5 DEF IInv
<1>5. CASE SetClock
  <2>1. PICK j \in Jumps : /\ clock + j \in 0 .. Range - 1
                           /\ clock' = clock + j
                           /\ setForward' = (setForward \/ j > 0)
                           /\ setBack' = (setBack \/ j < 0)
                           /\ UNCHANGED <<at, NextMeslTime, sinceFrame>>
    BY <1>5 DEF SetClock
  <2>2. /\ clock \in Int /\ j \in Int /\ NextMeslTime \in Int /\ sinceFrame \in Int
        /\ FrameTime \in Int
    BY DEF IInv, TypeOK
  <2>3. setForward' \in BOOLEAN /\ setBack' \in BOOLEAN
    BY <2>1
  <2>4. TypeOK'
    BY <2>1, <2>3 DEF IInv, TypeOK
  <2>5. NotBehind'
    <3>1. CASE setBack'
      BY <3>1 DEF NotBehind
    <3>2. CASE ~setBack'
      <4>1. ~setBack /\ ~(j < 0)
        BY <2>1, <3>2
      <4>2. clock - (NextMeslTime - FrameTime) >= sinceFrame
        BY <4>1 DEF IInv, NotBehind
      <4>3. clock' - (NextMeslTime' - FrameTime) >= sinceFrame'
        BY <2>1, <2>2, <4>1, <4>2
      <4>. QED  BY <4>3 DEF NotBehind
    <3>. QED  BY <3>1, <3>2
  <2>6. NotAhead'
    <3>1. CASE setForward' \/ sinceFrame' = Horizon
      BY <3>1 DEF NotAhead
    <3>2. CASE ~setForward' /\ sinceFrame' # Horizon
      <4>1. ~setForward /\ ~(j > 0) /\ sinceFrame # Horizon
        BY <2>1, <3>2
      <4>2. clock - (NextMeslTime - FrameTime) <= sinceFrame
        BY <4>1 DEF IInv, NotAhead
      <4>3. clock' - (NextMeslTime' - FrameTime) <= sinceFrame'
        BY <2>1, <2>2, <4>1, <4>2
      <4>. QED  BY <4>3 DEF NotAhead
    <3>. QED  BY <3>1, <3>2
  <2>7. setBack => setBack'
    BY <2>1
  <2>8. InTime'
    BY <2>1, <2>7 DEF IInv, InTime
  <2>. QED  BY <2>4, <2>5, <2>6, <2>8 DEF IInv
<1>6. CASE UNCHANGED vars
  BY <1>6 DEF vars, IInv, TypeOK, NotBehind, NotAhead, InTime
<1>. QED  BY <1>1, <1>2, <1>3, <1>4, <1>5, <1>6 DEF Next

(* The inductive invariant, which has TypeOK as a part.                    *)
THEOREM FrameInvariant == Spec => []IInv
  BY InitIInv, StepIInv, PTL DEF Spec

(* Every variable keeps its type.                                          *)
THEOREM FrameTypeOK == Spec => []TypeOK
<1>1. IInv => TypeOK
  BY DEF IInv
<1>. QED  BY <1>1, FrameInvariant, PTL

(* No frame is later than one sleep and one event_base_loop after it fell  *)
(* due, unless the clock was set back or has started again.                *)
THEOREM FramesInTime == Spec => []NeverLate
<1>1. IInv => NeverLate
  BY FrameAssumption, SMTT(30) DEF IInv, TypeOK, InTime, NeverLate, Places
<1>. QED  BY <1>1, FrameInvariant, PTL

(* No two frames are closer than the period, unless the clock was set      *)
(* forward between them.                                                   *)
THEOREM FramesApart == Spec => NeverEarly
<1>1. IInv /\ [Next]_vars => [Frame => sinceFrame >= FrameTime \/ setForward]_vars
  BY FrameAssumption, SMTT(30) DEF IInv, TypeOK, NotAhead, Frame
<1>. QED  BY <1>1, FrameInvariant, PTL DEF Spec, NeverEarly

=============================================================================
