----------------------------- MODULE MotorProofs -----------------------------
(***************************************************************************)
(* The counter is the shaft's distance from the zero, homing names a       *)
(* driver at work, and both averages of a row are taken in place, for any  *)
(* lengths, offsets, retries, samples and commands, with a working or a    *)
(* dead Hall sensor.                                                       *)
(***************************************************************************)
EXTENDS Motor, TLAPS

USE DEF Driver, ghosts

LEMMA ZeroIsInt == 0 \in Int
  OBVIOUS

LEMMA CounterInit == Init => CounterInv
<1> SUFFICES ASSUME Init PROVE CounterInv
  OBVIOUS
<1>1. home \in [Driver -> Homes]
  BY DEF Init, Homes, NoHome
<1>2. sh \in Flags
  BY DEF Init, Flags
<1>3. st \in [pc : {"snap", "pulse", "count"}, fwd : BOOLEAN] /\ pc \in [Driver -> Places]
  BY DEF Init, Places
<1>4. MotorTypes
  BY <1>1, <1>2, <1>3, MotorAssumption DEF Init, MotorTypes
<1>5. ~sh.homing /\ sh.pos = 0 /\ st.pc = "snap" /\ \A d \in Driver : pc[d] = "off"
  BY DEF Init
<1>6. PositionIsShaft /\ OneUser
  BY <1>4, <1>5 DEF Init, MotorTypes, PositionIsShaft, Pending, OneUser, Idle, Pulsing
<1>7. QED
  BY <1>4, <1>5, <1>6 DEF CounterInv, HomingInv

\* What one step of a driver's program does.
LEMMA GotoDoes ==
  ASSUME pc \in [Driver -> Places], NEW d \in Driver, NEW to \in Places, Goto(d, to)
  PROVE  /\ pc' \in [Driver -> Places] /\ pc'[d] = to
         /\ \A x \in Driver \ {d} : pc'[x] = pc[x]
  BY DEF Goto

\* What a pulse does to the shaft, and that it leaves the steps to the driver.
LEMMA PulseDoes ==
  ASSUME shaft \in Int, NEW fwd \in BOOLEAN, NEW h \in [Driver -> Homes], Pulse(fwd, h)
  PROVE  /\ shaft' \in Int /\ shaft' = shaft + (IF sh.enabled THEN Sign(fwd) ELSE 0)
         /\ home' \in [Driver -> Homes]
         /\ \A x \in Driver : home'[x].steps = h[x].steps /\ home'[x].try = h[x].try
<1>1. Shift(fwd) = (IF sh.enabled THEN Sign(fwd) ELSE 0) /\ Shift(fwd) \in Int
  BY DEF Shift, Sign
<1>2. shaft' = shaft + Shift(fwd)
  BY DEF Pulse
<1>3. /\ home' \in [Driver -> Homes]
      /\ \A x \in Driver : home'[x].steps = h[x].steps /\ home'[x].try = h[x].try
  BY DEF Pulse, Homes
<1>4. QED
  BY <1>1, <1>2, <1>3

\* What the invariant gives a driver that is at work after calm commands.
LEMMA DriverAlone ==
  ASSUME MotorTypes, OneUser, NEW d \in Driver, ~Idle(d)
  PROVE  st.pc = "snap" /\ \A x \in Driver \ {d} : Idle(x)
  BY DEF OneUser, Idle

-----------------------------------------------------------------------------
(* Commands                                                                *)

\* At rest nothing is pending.
LEMMA RestIsQuiet ==
  ASSUME CounterInv, calm, AtRest
  PROVE  /\ st.pc = "snap" /\ sh.pos = shaft - zero
         /\ ~sh.moving /\ ~sh.homing /\ \A d \in Driver : pc[d] \in {"off", "gone"}
<1>1. MotorTypes /\ OneUser /\ sh.pos + Pending = shaft - zero
  BY DEF CounterInv, HomingInv, PositionIsShaft
<1>2. ~sh.moving /\ ~sh.homing /\ \A d \in Driver : pc[d] \in {"off", "gone"}
  BY DEF AtRest, Idle
<1>3. st.pc = "snap"
  BY <1>1, <1>2 DEF OneUser
<1>4. Pending = 0
  BY <1>2, <1>3 DEF Pending
<1>5. QED
  BY <1>1, <1>2, <1>3, <1>4 DEF MotorTypes, Flags

\* Commands only have to set the counter and the flags consistently.
LEMMA RestStays ==
  ASSUME MotorTypes', st'.pc = "snap", sh'.pos = shaft' - zero',
         \A d \in Driver : pc'[d] \in {"off", "gone", "begin"},
         ~sh'.moving \/ \A d \in Driver : pc'[d] \in {"off", "gone"},
         sh'.homing => \E d \in Driver : pc'[d] = "begin",
         \A d, x \in Driver : pc'[d] = "begin" /\ pc'[x] = "begin" => d = x,
         pc'["log"] = "begin" => home'["log"].try = 1
  PROVE  PositionIsShaft' /\ OneUser'
<1>1. Pending' = 0
  BY DEF Pending
<1>2. PositionIsShaft'
  BY <1>1 DEF PositionIsShaft, MotorTypes, Flags
<1>3. OneUser'
  BY DEF OneUser, Idle, Pulsing
<1>4. QED
  BY <1>2, <1>3

LEMMA CounterByClient == ASSUME CounterInv, Client PROVE CounterInv'
<1> DEFINE Rest == /\ st.pc = "snap" /\ sh.pos = shaft - zero
                   /\ ~sh.moving /\ ~sh.homing /\ \A d \in Driver : pc[d] \in {"off", "gone"}
<1>t. sh \in Flags /\ pc \in [Driver -> Places] /\ home \in [Driver -> Homes] /\ MotorTypes
  BY DEF CounterInv, HomingInv, MotorTypes
<1>h. sh.homing => killed \/ pc["find"] \in Homing \/ pc["log"] \in Pulsing
  BY DEF CounterInv, HomingInv
<1>0. calm' \in BOOLEAN /\ (calm' => Rest)
  <2>1. calm' = (calm /\ AtRest)
    BY DEF Client, EnableStepper, DisableStepper, Stop, Zero, FindZero, StartLog, StopLog, Move, Keeps
  <2>2. QED
    BY <2>1, RestIsQuiet, <1>t DEF AtRest, MotorTypes, Idle
<1>1. CASE EnableStepper
  <2>1. sh' \in Flags /\ sh'.homing = sh.homing /\ sh'.moving = sh.moving /\ sh'.pos = sh.pos
    BY <1>t, <1>1 DEF EnableStepper, Flags
  <2>2. MotorTypes'
    BY <1>t, <1>0, <1>1, <2>1 DEF EnableStepper, MotorTypes
  <2>3. calm' => PositionIsShaft' /\ OneUser'
    BY <1>0, <1>1, <2>1, <2>2, RestStays DEF EnableStepper
  <2>4. QED
    BY <1>h, <1>1, <2>1, <2>2, <2>3 DEF EnableStepper, CounterInv, HomingInv, PositionIsShaft
<1>2. CASE DisableStepper
  <2>1. sh' \in Flags /\ sh'.homing = sh.homing /\ ~sh'.moving /\ sh'.pos = sh.pos
    BY <1>t, <1>2 DEF DisableStepper, Flags
  <2>2. MotorTypes'
    BY <1>t, <1>0, <1>2, <2>1 DEF DisableStepper, MotorTypes
  <2>3. calm' => PositionIsShaft' /\ OneUser'
    BY <1>0, <1>2, <2>1, <2>2, RestStays DEF DisableStepper
  <2>4. QED
    BY <1>h, <1>2, <2>1, <2>2, <2>3 DEF DisableStepper, CounterInv, HomingInv, PositionIsShaft
<1>3. CASE Stop
  <2>1. sh' \in Flags /\ ~sh'.homing /\ ~sh'.moving /\ sh'.pos = sh.pos
    BY <1>t, <1>3 DEF Stop, Flags
  <2>2. MotorTypes'
    BY <1>t, <1>0, <1>3, <2>1 DEF Stop, MotorTypes
  <2>3. calm' => PositionIsShaft' /\ OneUser'
    BY <1>0, <1>3, <2>1, <2>2, RestStays DEF Stop
  <2>4. QED
    BY <1>3, <2>1, <2>2, <2>3 DEF Stop, CounterInv, HomingInv, PositionIsShaft
<1>4. CASE Zero
  <2>1. ASSUME NEW n \in Int, sh' = [sh EXCEPT !.pos = n, !.target = n, !.homed = TRUE]
        PROVE  sh' \in Flags /\ sh'.homing = sh.homing /\ sh'.moving = sh.moving /\ sh'.pos = n
    BY <1>t, <2>1 DEF Flags
  <2>2. sh' \in Flags /\ sh'.homing = sh.homing /\ sh'.moving = sh.moving /\ sh'.pos = 0
    BY <1>4, <2>1, ZeroIsInt, Zenon DEF Zero
  <2>3. MotorTypes'
    BY <1>t, <1>0, <1>4, <2>2 DEF Zero, MotorTypes
  <2>4. sh'.pos = shaft' - zero'
    BY <1>t, <1>4, <2>2 DEF Zero, MotorTypes
  <2>5. calm' => PositionIsShaft' /\ OneUser'
    BY <1>0, <1>4, <2>2, <2>3, <2>4, RestStays DEF Zero
  <2>6. QED
    BY <1>h, <1>4, <2>2, <2>3, <2>5 DEF Zero, CounterInv, HomingInv, PositionIsShaft
<1>5. ASSUME NEW fwd \in BOOLEAN, Move(fwd) PROVE CounterInv'
  <2>1. ASSUME NEW n \in Int, sh' = [sh EXCEPT !.abort = FALSE, !.fwd = fwd, !.moving = TRUE, !.target = n]
        PROVE  sh' \in Flags /\ sh'.homing = sh.homing /\ sh'.pos = sh.pos
    BY <1>t, <2>1 DEF Flags
  <2>2. sh.pos + Sign(fwd) * Reach \in Int
    <3>1. sh.pos \in Int /\ Reach \in Int
      BY <1>t, MotorAssumption DEF Flags
    <3>2. CASE fwd
      BY <3>1, <3>2 DEF Sign
    <3>3. CASE ~fwd
      BY <3>1, <3>3 DEF Sign
    <3>4. QED
      BY <3>2, <3>3
  <2>3. sh' \in Flags /\ sh'.homing = sh.homing /\ sh'.pos = sh.pos
    BY <1>5, <2>1, <2>2 DEF Move
  <2>4. MotorTypes'
    BY <1>t, <1>0, <1>5, <2>3 DEF Move, MotorTypes
  <2>5. calm' => PositionIsShaft' /\ OneUser'
    BY <1>0, <1>5, <2>3, <2>4, RestStays DEF Move
  <2>6. QED
    BY <1>h, <1>5, <2>3, <2>4, <2>5 DEF Move, CounterInv, HomingInv, PositionIsShaft
<1>6. CASE FindZero
  <2>1. CASE pc["find"] = "off"
    <3>1. sh' \in Flags /\ sh'.moving = sh.moving /\ sh'.pos = sh.pos
      BY <1>t, <1>6, <2>1 DEF FindZero, Flags
    <3>2. pc' \in [Driver -> Places] /\ pc'["find"] = "begin" /\ pc'["log"] = pc["log"]
      BY <1>t, <1>6, <2>1, GotoDoes DEF FindZero, Places, Homing
    <3>3. MotorTypes'
      BY <1>t, <1>0, <1>6, <3>1, <3>2 DEF FindZero, MotorTypes
    <3>4. calm' => PositionIsShaft' /\ OneUser'
      BY <1>0, <1>6, <3>1, <3>2, <3>3, RestStays DEF FindZero
    <3>5. QED
      BY <3>2, <3>3, <3>4 DEF CounterInv, HomingInv, PositionIsShaft, Homing
  <2>2. CASE pc["find"] # "off"
    <3>1. sh' \in Flags /\ sh'.homing = sh.homing /\ sh'.moving = sh.moving /\ sh'.pos = sh.pos
      BY <1>t, <1>6, <2>2 DEF FindZero, Flags
    <3>2. MotorTypes'
      BY <1>t, <1>0, <1>6, <2>2, <3>1 DEF FindZero, MotorTypes
    <3>3. calm' => PositionIsShaft' /\ OneUser'
      BY <1>0, <1>6, <2>2, <3>1, <3>2, RestStays DEF FindZero
    <3>4. QED
      BY <1>h, <1>6, <2>2, <3>1, <3>2, <3>3 DEF FindZero, CounterInv, HomingInv, PositionIsShaft
  <2>3. QED
    BY <2>1, <2>2
<1>7. CASE StartLog
  <2>1. pc' \in [Driver -> Places] /\ pc'["log"] = "begin" /\ pc'["find"] = pc["find"]
    BY <1>t, <1>7, GotoDoes DEF StartLog, Places, Homing
  <2>2. home' \in [Driver -> Homes] /\ home'["log"].try = 1
    BY <1>t, <1>7 DEF StartLog, NoHome, Homes
  <2>3. MotorTypes'
    BY <1>t, <1>0, <1>7, <2>1, <2>2 DEF StartLog, MotorTypes
  <2>4. calm' => PositionIsShaft' /\ OneUser'
    BY <1>0, <1>7, <2>1, <2>2, <2>3, RestStays DEF StartLog
  <2>5. sh.homing => killed \/ pc["find"] \in Homing
    BY <1>h, <1>7 DEF StartLog, Pulsing
  <2>6. QED
    BY <1>7, <2>1, <2>3, <2>4, <2>5 DEF StartLog, CounterInv, HomingInv, PositionIsShaft
<1>8. CASE StopLog
  <2>1. sh' \in Flags /\ sh'.homing = sh.homing /\ sh'.pos = sh.pos
    BY <1>t, <1>8 DEF StopLog, Flags
  <2>2. pc' \in [Driver -> Places] /\ pc'["find"] = pc["find"]
    BY <1>t, <1>8, GotoDoes DEF StopLog, Places
  <2>3. MotorTypes'
    BY <1>t, <1>0, <1>8, <2>1, <2>2 DEF StopLog, MotorTypes
  <2>4. ~calm'
    BY <1>0, <1>8 DEF StopLog
  <2>5. sh'.homing => killed' \/ pc'["find"] \in Homing
    BY <1>h, <1>8, <2>1, <2>2 DEF StopLog
  <2>6. QED
    BY <2>3, <2>4, <2>5 DEF CounterInv, HomingInv, PositionIsShaft
<1>9. QED
  BY <1>1, <1>2, <1>3, <1>4, <1>5, <1>6, <1>7, <1>8 DEF Client

-----------------------------------------------------------------------------
(* StepperTask                                                             *)

LEMMA CounterByStepper == ASSUME CounterInv, StepperTask PROVE CounterInv'
<1>t. /\ MotorTypes /\ sh \in Flags /\ pc \in [Driver -> Places] /\ home \in [Driver -> Homes]
      /\ st \in [pc : {"snap", "pulse", "count"}, fwd : BOOLEAN]
      /\ shaft \in Int /\ zero \in Int /\ dir \in BOOLEAN
  BY DEF CounterInv, HomingInv, MotorTypes
<1>h. sh.homing => killed \/ pc["find"] \in Homing \/ pc["log"] \in Pulsing
  BY DEF CounterInv, HomingInv
<1>p. calm => sh.pos + Pending = shaft - zero /\ OneUser
  BY DEF CounterInv, PositionIsShaft
<1>1. CASE Snapshot
  <2>1. /\ sh' \in Flags /\ sh'.homing = sh.homing /\ sh'.pos = sh.pos /\ sh'.fwd = sh.fwd
        /\ sh'.enabled = sh.enabled /\ sh'.moving = (sh.moving /\ ~sh.abort)
    BY <1>t, <1>1 DEF Snapshot, Flags
  <2>2. /\ st.pc = "snap"
        /\ st' \in [pc : {"snap", "pulse", "count"}, fwd : BOOLEAN]
        /\ st'.pc # "count"
        /\ st'.pc = "pulse" => /\ sh.enabled /\ sh.moving /\ ~sh.abort /\ ~sh.homing
                               /\ st'.fwd = sh.fwd
    BY <1>t, <1>1 DEF Snapshot, Flags
  <2>3. MotorTypes'
    BY <1>t, <1>1, <2>1, <2>2 DEF Snapshot, MotorTypes
  <2>4. PositionIsShaft'
    BY <1>p, <1>1, <2>1, <2>2 DEF Snapshot, PositionIsShaft, Pending
  <2>5. ASSUME calm PROVE OneUser'
    <3>1. st'.pc # "snap" => \A d \in Driver : Idle(d)
      BY <1>t, <1>p, <2>2, <2>5 DEF OneUser, Idle, Places, Pulsing, Homing
    <3>2. QED
      BY <1>p, <1>1, <2>1, <2>2, <2>5, <3>1 DEF Snapshot, OneUser, Idle, Pulsing
  <2>6. QED
    BY <1>h, <1>1, <2>1, <2>3, <2>4, <2>5 DEF Snapshot, CounterInv, HomingInv
<1>2. CASE StepPulse
  <2>1. /\ shaft' \in Int /\ shaft' = shaft + (IF sh.enabled THEN Sign(st.fwd) ELSE 0)
        /\ home' \in [Driver -> Homes]
        /\ \A x \in Driver : home'[x].steps = home[x].steps /\ home'[x].try = home[x].try
    BY <1>t, <1>2, PulseDoes DEF StepPulse
  <2>2. /\ st' \in [pc : {"snap", "pulse", "count"}, fwd : BOOLEAN]
        /\ st.pc = "pulse" /\ st'.pc = "count" /\ st'.fwd = st.fwd
    BY <1>t, <1>2 DEF StepPulse
  <2>3. MotorTypes'
    BY <1>t, <1>2, <2>1, <2>2 DEF StepPulse, MotorTypes
  <2>4. ASSUME calm PROVE PositionIsShaft' /\ OneUser'
    <3>1. OneUser /\ sh.enabled /\ sh.pos + Pending = shaft - zero /\ \A d \in Driver : Idle(d)
      BY <1>p, <2>2, <2>4 DEF OneUser
    <3>2. Pending = 0 /\ Pending' = Sign(st.fwd)
      BY <1>2, <2>2, <3>1 DEF StepPulse, Pending, Idle, Sign
    <3>3. sh'.pos + Pending' = shaft' - zero'
      BY <1>t, <1>2, <2>1, <3>1, <3>2 DEF StepPulse, Flags, Sign
    <3>4. OneUser'
      BY <1>2, <2>1, <2>2, <3>1 DEF StepPulse, OneUser, Idle, Pulsing
    <3>5. QED
      BY <3>3, <3>4 DEF PositionIsShaft
  <2>5. calm' = calm
    BY <1>2 DEF StepPulse
  <2>6. QED
    BY <1>h, <1>2, <2>3, <2>4, <2>5 DEF StepPulse, CounterInv, HomingInv, PositionIsShaft
<1>3. CASE StepCount
  <2> DEFINE p == sh.pos + Sign(sh.fwd)
             on == ~(IF sh.fwd THEN p >= sh.target ELSE p <= sh.target)
  <2>0. p \in Int /\ on \in BOOLEAN
    BY <1>t DEF Flags, Sign
  <2>1. /\ st' \in [pc : {"snap", "pulse", "count"}, fwd : BOOLEAN]
        /\ st.pc = "count" /\ st'.pc = "snap"
    BY <1>t, <1>3 DEF StepCount
  <2>2. ASSUME NEW n \in Int, NEW b \in BOOLEAN, sh' = [sh EXCEPT !.pos = n, !.moving = b]
        PROVE  /\ sh' \in Flags /\ sh'.homing = sh.homing /\ sh'.enabled = sh.enabled
               /\ sh'.pos = n
    BY <1>t, <2>2 DEF Flags
  <2>3. /\ sh' \in Flags /\ sh'.homing = sh.homing /\ sh'.enabled = sh.enabled
        /\ sh.enabled /\ sh.moving => sh'.pos = p
    <3>1. CASE ~sh.moving \/ ~sh.enabled
      BY <1>t, <1>3, <3>1 DEF StepCount
    <3>2. CASE ~(~sh.moving \/ ~sh.enabled)
      <4> HIDE DEF p, on
      <4>1. sh' = [sh EXCEPT !.pos = p, !.moving = on]
        BY <1>3, <3>2 DEF StepCount, p, on
      <4>2. QED
        BY <2>0, <2>2, <4>1
    <3>3. QED
      BY <3>1, <3>2
  <2>4. MotorTypes'
    BY <1>t, <1>3, <2>1, <2>3 DEF StepCount, MotorTypes
  <2>5. ASSUME calm PROVE PositionIsShaft' /\ OneUser'
    <3>1. /\ OneUser /\ sh.enabled /\ sh.moving /\ ~sh.homing /\ st.fwd = sh.fwd
          /\ sh.pos + Pending = shaft - zero /\ \A d \in Driver : Idle(d)
      BY <1>p, <2>1, <2>5 DEF OneUser
    <3>2. Pending = Sign(sh.fwd) /\ Pending' = 0
      BY <1>3, <2>1, <3>1 DEF StepCount, Pending, Idle, Sign
    <3>3. sh'.pos + Pending' = shaft' - zero'
      BY <1>t, <1>3, <2>3, <3>1, <3>2 DEF StepCount, Flags, Sign
    <3>4. OneUser'
      BY <1>3, <2>1, <2>3, <3>1 DEF StepCount, OneUser, Idle, Pulsing
    <3>5. QED
      BY <3>3, <3>4 DEF PositionIsShaft
  <2>6. calm' = calm
    BY <1>3 DEF StepCount
  <2>7. QED
    BY <1>h, <1>3, <2>3, <2>4, <2>5, <2>6 DEF StepCount, CounterInv, HomingInv, PositionIsShaft
<1>4. QED
  BY <1>1, <1>2, <1>3 DEF StepperTask

-----------------------------------------------------------------------------
(* Homing, in either driver                                                *)

\* A step of the homing that leaves the motor to its driver keeps OneUser.
LEMMA AloneStays ==
  ASSUME NEW d \in Driver, pc'[d] \notin {"off", "gone", "out", "back"},
         st'.pc = "snap", \A x \in Driver \ {d} : pc'[x] \in {"off", "gone"},
         pc'[d] \in {"seek", "offset", "finish"} => sh'.enabled /\ sh'.homing,
         pc'[d] = "begin" => sh'.enabled \/ d = "find" \/ home'[d].try = 1,
         pc'[d] = "begin" => ~sh'.moving,
         pc'[d] \in {"top", "away", "avgAt", "avgAway"} => sh'.enabled /\ ~sh'.moving,
         pc'[d] = "seek" => dir', pc'[d] = "offset" => dir' = (Offset > 0)
  PROVE  OneUser' /\ Pending' = 0
<1>1. OneUser'
  BY DEF OneUser, Idle, Pulsing
<1>2. Pending' = 0
  BY DEF Pending
<1>3. QED
  BY <1>1, <1>2

LEMMA CounterByHomeStep == ASSUME CounterInv, NEW d \in Driver, HomeStep(d) PROVE CounterInv'
<1>t. /\ MotorTypes /\ sh \in Flags /\ pc \in [Driver -> Places] /\ home \in [Driver -> Homes]
      /\ shaft \in Int /\ zero \in Int /\ dir \in BOOLEAN
      /\ sh.pos \in Int
  BY DEF CounterInv, HomingInv, MotorTypes, Flags
<1>h. sh.homing => killed \/ pc["find"] \in Homing \/ pc["log"] \in Pulsing
  BY DEF CounterInv, HomingInv
<1>a. pc[d] \in Homing
  BY DEF HomeStep, Homing, Begin, Seek, SeekAborted, Missed, Found, OffsetStep, OffsetAborted, OffsetDone
<1>p. ASSUME calm
      PROVE  /\ sh.pos = shaft - zero /\ Pending = 0 /\ st.pc = "snap"
             /\ \A x \in Driver \ {d} : pc[x] \in {"off", "gone"}
             /\ pc[d] \in Pulsing => sh.enabled /\ sh.homing
             /\ pc[d] = "begin" => sh.enabled \/ d = "find" \/ home[d].try = 1
             /\ pc[d] = "seek" => dir
             /\ pc[d] = "offset" => dir = (Offset > 0)
  <2>1. OneUser /\ sh.pos + Pending = shaft - zero
    BY <1>p DEF CounterInv, PositionIsShaft
  <2>2. st.pc = "snap" /\ \A x \in Driver \ {d} : pc[x] \in {"off", "gone"}
    BY <1>t, <1>a, <2>1, DriverAlone DEF Idle, Homing
  <2>3. Pending = 0
    BY <1>a, <2>2 DEF Pending, Homing
  <2>4. QED
    BY <1>t, <2>1, <2>2, <2>3 DEF OneUser
<1>1. CASE Begin(d)
  <2>1. /\ sh' \in Flags /\ sh'.pos = sh.pos /\ sh'.homing
        /\ sh'.enabled = (sh.enabled \/ d = "find" \/ home[d].try = 1)
    BY <1>t, <1>1 DEF Begin, Flags
  <2>2. pc[d] = "begin" /\ pc' \in [Driver -> Places] /\ pc'[d] = "seek" /\ \A x \in Driver \ {d} : pc'[x] = pc[x]
    BY <1>t, <1>1, GotoDoes DEF Begin, Places, Homing
  <2>3. ASSUME NEW n \in Nat, home' = [home EXCEPT ![d].steps = n, ![d].latch = FALSE, ![d].result = "none"]
        PROVE  home' \in [Driver -> Homes]
    BY <1>t, <2>3 DEF Homes
  <2>4. home' \in [Driver -> Homes]
    BY <1>1, <2>3 DEF Begin
  <2>5. MotorTypes'
    BY <1>t, <1>1, <2>1, <2>2, <2>4 DEF Begin, MotorTypes
  <2>6. ASSUME calm PROVE OneUser' /\ Pending' = 0
    BY <1>p, <1>1, <2>1, <2>2, <2>6, AloneStays DEF Begin
  <2>7. ASSUME calm PROVE sh'.pos + Pending' = shaft' - zero'
    BY <1>t, <1>p, <1>1, <2>1, <2>6, <2>7 DEF Begin
  <2>8. calm' = calm /\ (pc'["find"] \in Homing \/ pc'["log"] \in Pulsing)
    BY <1>1, <2>2 DEF Begin, Homing, Pulsing
  <2>9. QED
    BY <2>5, <2>6, <2>7, <2>8 DEF CounterInv, HomingInv, PositionIsShaft
<1>2. CASE Seek(d)
  <2> DEFINE h == [home EXCEPT ![d].steps = @ + 1]
  <2>1. h \in [Driver -> Homes]
    BY <1>t DEF Homes
  <2>2. /\ sh' \in Flags /\ sh'.pos = sh.pos + 1 /\ sh'.homing = sh.homing /\ sh'.enabled = sh.enabled
    BY <1>t, <1>2 DEF Seek, Flags
  <2>3. /\ shaft' \in Int /\ shaft' = shaft + (IF sh.enabled THEN Sign(dir) ELSE 0)
        /\ home' \in [Driver -> Homes]
    <3> HIDE DEF h
    <3>1. Pulse(dir, h)
      BY <1>2 DEF Seek, h
    <3>2. QED
      BY <1>t, <2>1, <3>1, PulseDoes
  <2>4. MotorTypes'
    BY <1>t, <1>2, <2>2, <2>3 DEF Seek, MotorTypes
  <2>5. pc[d] = "seek" /\ UNCHANGED <<pc, st, dir, zero, calm, killed>>
    BY <1>2 DEF Seek
  <2>6. ASSUME calm PROVE OneUser' /\ Pending' = 0
    BY <1>p, <2>2, <2>5, <2>6, AloneStays DEF Pulsing
  <2>7. ASSUME calm PROVE sh'.pos + Pending' = shaft' - zero'
    BY <1>t, <1>p, <2>2, <2>3, <2>5, <2>6, <2>7 DEF Sign, Pulsing
  <2>8. QED
    BY <1>h, <2>2, <2>4, <2>5, <2>6, <2>7 DEF CounterInv, HomingInv, PositionIsShaft
<1>3. CASE SeekAborted(d) \/ Missed(d) \/ OffsetAborted(d)
  <2>1. /\ pc[d] \in {"seek", "offset"} /\ pc' \in [Driver -> Places] /\ pc'[d] = "finish"
        /\ \A x \in Driver \ {d} : pc'[x] = pc[x]
    BY <1>t, <1>3, GotoDoes DEF SeekAborted, Missed, OffsetAborted, Places, Homing
  <2>2. home' \in [Driver -> Homes]
    BY <1>t, <1>3 DEF SeekAborted, Missed, OffsetAborted, Homes
  <2>3. UNCHANGED <<sh, shaft, dir, hall, st, zero, calm, killed>>
    BY <1>3 DEF SeekAborted, Missed, OffsetAborted
  <2>4. MotorTypes'
    BY <1>t, <2>1, <2>2, <2>3 DEF MotorTypes
  <2>5. ASSUME calm PROVE OneUser' /\ Pending' = 0
    BY <1>p, <2>1, <2>3, <2>5, AloneStays DEF Pulsing
  <2>6. ASSUME calm PROVE sh'.pos + Pending' = shaft' - zero'
    BY <1>t, <1>p, <2>3, <2>5, <2>6
  <2>7. pc'["find"] \in Homing \/ pc'["log"] \in Pulsing
    BY <2>1 DEF Homing, Pulsing
  <2>8. QED
    BY <2>3, <2>4, <2>5, <2>6, <2>7 DEF CounterInv, HomingInv, PositionIsShaft
<1>4. CASE Found(d)
  <2> DEFINE fwd == IF Offset = 0 THEN sh.fwd ELSE Offset > 0
             on == sh.moving \/ Offset # 0
  <2>0. fwd \in BOOLEAN /\ on \in BOOLEAN /\ Offset \in Int
    <3>1. Offset \in Int
      BY MotorAssumption
    <3>2. fwd \in BOOLEAN
      <4>1. (Offset > 0) \in BOOLEAN /\ sh.fwd \in BOOLEAN
        BY <1>t, <3>1 DEF Flags
      <4>2. QED
        BY <4>1, Zenon
    <3>3. on \in BOOLEAN
      BY <1>t DEF Flags
    <3>4. QED
      BY <3>1, <3>2, <3>3
  <2>1. ASSUME NEW n \in Int, NEW f \in BOOLEAN, NEW m \in BOOLEAN, n = 0,
               sh' = [sh EXCEPT !.homed = TRUE, !.pos = n, !.fwd = f, !.target = Offset, !.moving = m]
        PROVE  sh' \in Flags /\ sh'.pos = 0 /\ sh'.homing = sh.homing /\ sh'.enabled = sh.enabled
    BY <1>t, <2>0, <2>1 DEF Flags
  <2>2. sh' \in Flags /\ sh'.pos = 0 /\ sh'.homing = sh.homing /\ sh'.enabled = sh.enabled
    <3> HIDE DEF fwd, on
    <3>1. sh' = [sh EXCEPT !.homed = TRUE, !.pos = 0, !.fwd = fwd, !.target = Offset, !.moving = on]
      BY <1>4 DEF Found, fwd, on
    <3>2. QED
      BY <2>0, <2>1, <3>1, ZeroIsInt, Zenon
  <2>3. /\ pc[d] = "seek" /\ pc' \in [Driver -> Places]
        /\ pc'[d] = IF Offset = 0 THEN "finish" ELSE "offset"
        /\ \A x \in Driver \ {d} : pc'[x] = pc[x]
    BY <1>t, <1>4, GotoDoes DEF Found, Places, Homing
  <2>4. ASSUME NEW n \in Nat, NEW r \in {"none", "ok", "missed", "aborted"},
               home' = [home EXCEPT ![d].steps = n, ![d].result = r]
        PROVE  home' \in [Driver -> Homes]
    BY <1>t, <2>4 DEF Homes
  <2>5. home' \in [Driver -> Homes]
    <3>1. (IF Offset = 0 THEN "ok" ELSE home[d].result) \in {"none", "ok", "missed", "aborted"}
      BY <1>t DEF Homes
    <3>2. home' = [home EXCEPT ![d].steps = 0, ![d].result = IF Offset = 0 THEN "ok" ELSE home[d].result]
      BY <1>t, <1>4 DEF Found, Homes
    <3>3. QED
      BY <2>4, <3>1, <3>2
  <2>6. dir' \in BOOLEAN /\ (Offset # 0 => dir' = (Offset > 0)) /\ zero' = shaft /\ UNCHANGED <<shaft, hall, st, killed>>
    BY <1>t, <1>4, <2>0 DEF Found
  <2>7. calm' \in BOOLEAN /\ (calm' => calm \/ Undisturbed(d))
    BY <1>t, <1>4 DEF Found, Undisturbed, Idle, MotorTypes
  <2>8. MotorTypes'
    BY <1>t, <2>2, <2>3, <2>5, <2>6, <2>7 DEF MotorTypes
  <2>9. ASSUME calm' PROVE OneUser' /\ Pending' = 0
    <3>1. /\ sh.enabled /\ sh.homing /\ st.pc = "snap"
          /\ \A x \in Driver \ {d} : pc[x] \in {"off", "gone"}
      BY <1>p, <2>3, <2>7, <2>9 DEF Undisturbed, Idle, Pulsing
    <3>2. QED
      BY <2>2, <2>3, <2>6, <3>1, AloneStays
  <2>10. ASSUME calm' PROVE sh'.pos + Pending' = shaft' - zero'
    BY <1>t, <2>2, <2>6, <2>9, <2>10
  <2>11. pc'["find"] \in Homing \/ pc'["log"] \in Pulsing
    BY <2>3 DEF Homing, Pulsing
  <2>12. QED
    BY <2>8, <2>9, <2>10, <2>11 DEF CounterInv, HomingInv, PositionIsShaft
<1>5. CASE OffsetStep(d)
  <2> DEFINE h == [home EXCEPT ![d].steps = @ + 1]
  <2>1. h \in [Driver -> Homes]
    BY <1>t DEF Homes
  <2>2. /\ sh' \in Flags /\ sh'.pos = sh.pos + Sign(Offset > 0)
        /\ sh'.homing = sh.homing /\ sh'.enabled = sh.enabled
    <3>1. ASSUME NEW n \in Int, sh' = [sh EXCEPT !.pos = n]
          PROVE  sh' \in Flags /\ sh'.pos = n /\ sh'.homing = sh.homing /\ sh'.enabled = sh.enabled
      BY <1>t, <3>1 DEF Flags
    <3>2. sh.pos + Sign(Offset > 0) \in Int /\ sh' = [sh EXCEPT !.pos = sh.pos + Sign(Offset > 0)]
      BY <1>t, <1>5 DEF OffsetStep, Sign
    <3>3. QED
      BY <3>1, <3>2
  <2>3. /\ shaft' \in Int /\ shaft' = shaft + (IF sh.enabled THEN Sign(dir) ELSE 0)
        /\ home' \in [Driver -> Homes]
    <3> HIDE DEF h
    <3>1. Pulse(dir, h)
      BY <1>5 DEF OffsetStep, h
    <3>2. QED
      BY <1>t, <2>1, <3>1, PulseDoes
  <2>4. MotorTypes'
    BY <1>t, <1>5, <2>2, <2>3 DEF OffsetStep, MotorTypes
  <2>5. pc[d] = "offset" /\ UNCHANGED <<pc, st, dir, zero, calm, killed>>
    BY <1>5 DEF OffsetStep
  <2>6. ASSUME calm PROVE OneUser' /\ Pending' = 0
    BY <1>p, <2>2, <2>5, <2>6, AloneStays DEF Pulsing
  <2>7. ASSUME calm PROVE sh'.pos + Pending' = shaft' - zero'
    <3>1. sh.enabled /\ sh.pos = shaft - zero /\ dir = (Offset > 0)
      BY <1>p, <2>5, <2>7 DEF Pulsing
    <3>2. Sign(dir) = Sign(Offset > 0)
      BY <3>1
    <3>3. Sign(dir) \in Int
      BY <1>t DEF Sign
    <3>4. QED
      BY <1>t, <2>2, <2>3, <2>5, <2>6, <2>7, <3>1, <3>2, <3>3
  <2>8. QED
    BY <1>h, <2>2, <2>4, <2>5, <2>6, <2>7 DEF CounterInv, HomingInv, PositionIsShaft
<1>6. CASE OffsetDone(d)
  <2>1. ASSUME NEW n \in Int, n = 0, sh' = [sh EXCEPT !.moving = FALSE, !.pos = n, !.target = n]
        PROVE  sh' \in Flags /\ sh'.pos = 0 /\ sh'.homing = sh.homing /\ sh'.enabled = sh.enabled
    BY <1>t, <2>1 DEF Flags
  <2>2. sh' \in Flags /\ sh'.pos = 0 /\ sh'.homing = sh.homing /\ sh'.enabled = sh.enabled
    BY <1>6, <2>1, ZeroIsInt, Zenon DEF OffsetDone
  <2>3. /\ pc[d] = "offset" /\ pc' \in [Driver -> Places] /\ pc'[d] = "finish"
        /\ \A x \in Driver \ {d} : pc'[x] = pc[x]
    BY <1>t, <1>6, GotoDoes DEF OffsetDone, Places, Homing
  <2>4. home' \in [Driver -> Homes]
    BY <1>t, <1>6 DEF OffsetDone, Homes
  <2>5. zero' = shaft /\ UNCHANGED <<shaft, dir, hall, st, calm, killed>>
    BY <1>6 DEF OffsetDone
  <2>6. MotorTypes'
    BY <1>t, <2>2, <2>3, <2>4, <2>5 DEF MotorTypes
  <2>7. ASSUME calm PROVE OneUser' /\ Pending' = 0
    BY <1>p, <2>2, <2>3, <2>5, <2>7, AloneStays DEF Pulsing
  <2>8. ASSUME calm PROVE sh'.pos + Pending' = shaft' - zero'
    BY <1>t, <2>2, <2>5, <2>7, <2>8
  <2>9. pc'["find"] \in Homing \/ pc'["log"] \in Pulsing
    BY <2>3 DEF Homing, Pulsing
  <2>10. QED
    BY <2>5, <2>6, <2>7, <2>8, <2>9 DEF CounterInv, HomingInv, PositionIsShaft
<1>7. QED
  BY <1>1, <1>2, <1>3, <1>4, <1>5, <1>6 DEF HomeStep

-----------------------------------------------------------------------------
(* The end of find_zero, and the measurement cycle                         *)

LEMMA CounterByFindEnds == ASSUME CounterInv, FindEnds PROVE CounterInv'
<1>t. /\ MotorTypes /\ sh \in Flags /\ pc \in [Driver -> Places] /\ home \in [Driver -> Homes]
      /\ shaft \in Int /\ zero \in Int /\ sh.pos \in Int
  BY DEF CounterInv, HomingInv, MotorTypes, Flags
<1>1. sh' \in Flags /\ sh'.pos = sh.pos /\ ~sh'.homing
  BY <1>t DEF FindEnds, Released, Flags
<1>2. /\ pc["find"] = "finish" /\ pc' \in [Driver -> Places] /\ pc'["find"] = "off"
      /\ pc'["log"] = pc["log"]
  BY <1>t, GotoDoes DEF FindEnds, Places
<1>3. UNCHANGED <<dir, shaft, hall, st, home, zero, calm, killed>>
  BY DEF FindEnds
<1>4. MotorTypes'
  BY <1>t, <1>1, <1>2, <1>3 DEF MotorTypes
<1>5. ASSUME calm PROVE PositionIsShaft' /\ OneUser'
  <2>1. OneUser /\ sh.pos + Pending = shaft - zero
    BY <1>5 DEF CounterInv, PositionIsShaft
  <2>2. st.pc = "snap" /\ pc["log"] \in {"off", "gone"}
    BY <1>t, <1>2, <2>1, DriverAlone DEF Idle
  <2>3. Pending = 0 /\ Pending' = 0
    BY <1>2, <1>3, <2>2 DEF Pending
  <2>4. OneUser'
    BY <1>1, <1>2, <1>3, <2>2 DEF OneUser, Idle, Pulsing
  <2>5. QED
    BY <1>t, <1>1, <1>3, <2>1, <2>3, <2>4 DEF PositionIsShaft
<1>6. QED
  BY <1>1, <1>3, <1>4, <1>5 DEF CounterInv, HomingInv, PositionIsShaft

\* The log task sets out with nothing counted yet.
LEMMA MoveBeginsDoes ==
  ASSUME MotorTypes, NEW fwd \in BOOLEAN, MoveBegins(fwd)
  PROVE  /\ sh' \in Flags /\ sh'.enabled /\ sh'.homing /\ sh'.pos = sh.pos /\ dir' = fwd
         /\ home' \in [Driver -> Homes] /\ home'["log"].steps = 0
<1>1. sh \in Flags /\ home \in [Driver -> Homes]
  BY DEF MotorTypes
<1>2. ASSUME NEW n \in Int, sh' = [sh EXCEPT !.homing = TRUE, !.abort = FALSE, !.moving = TRUE, !.fwd = fwd,
                                             !.target = n, !.enabled = TRUE]
      PROVE  sh' \in Flags /\ sh'.enabled /\ sh'.homing /\ sh'.pos = sh.pos
  BY <1>1, <1>2 DEF Flags
<1>3. sh.pos + Sign(fwd) * LogSteps \in Int
  <2>1. sh.pos \in Int /\ LogSteps \in Int
    BY <1>1, MotorAssumption DEF Flags
  <2>2. CASE fwd
    BY <2>1, <2>2 DEF Sign
  <2>3. CASE ~fwd
    BY <2>1, <2>3 DEF Sign
  <2>4. QED
    BY <2>2, <2>3
<1>4. sh' \in Flags /\ sh'.enabled /\ sh'.homing /\ sh'.pos = sh.pos
  BY <1>2, <1>3 DEF MoveBegins
<1>5. home' \in [Driver -> Homes] /\ home'["log"].steps = 0
  BY <1>1 DEF MoveBegins, Homes
<1>6. QED
  BY <1>4, <1>5 DEF MoveBegins

LEMMA CounterByLogTask == ASSUME CounterInv, LogTask PROVE CounterInv'
<1>t. /\ MotorTypes /\ sh \in Flags /\ pc \in [Driver -> Places] /\ home \in [Driver -> Homes]
      /\ shaft \in Int /\ zero \in Int /\ dir \in BOOLEAN /\ sh.pos \in Int
      /\ home["log"].steps \in Nat
  BY DEF CounterInv, HomingInv, MotorTypes, Flags, Homes
<1>h. sh.homing => killed \/ pc["find"] \in Homing \/ pc["log"] \in Pulsing
  BY DEF CounterInv, HomingInv
<1>p. ASSUME calm, pc["log"] \notin {"off", "gone"}
      PROVE  /\ st.pc = "snap" /\ pc["find"] \in {"off", "gone"}
             /\ sh.pos + Pending = shaft - zero /\ OneUser
             /\ pc["log"] \notin {"out", "back"} => Pending = 0
             /\ sh.enabled \/ pc["log"] = "begin"
  <2>1. OneUser /\ sh.pos + Pending = shaft - zero
    BY <1>p DEF CounterInv, PositionIsShaft
  <2>2. st.pc = "snap" /\ pc["find"] \in {"off", "gone"}
    BY <1>t, <1>p, <2>1, DriverAlone DEF Idle
  <2>3. pc["log"] \notin {"out", "back"} => Pending = 0
    BY <2>2 DEF Pending
  <2>4. sh.enabled \/ pc["log"] = "begin"
    BY <1>t, <1>p, <2>1 DEF OneUser, Places, Homing, Pulsing
  <2>5. QED
    BY <2>1, <2>2, <2>3, <2>4
<1>1. CASE LogHomeEnds
  <2> DEFINE h == home["log"]
             again == h.result = "missed" /\ h.try < Attempts
  <2>1. /\ sh' \in Flags /\ ~sh'.homing /\ ~sh'.moving /\ sh'.pos = sh.pos /\ sh'.enabled = sh.enabled
    BY <1>t, <1>1 DEF LogHomeEnds, Released, GiveUp, Flags
  <2>2. /\ pc["log"] = "finish" /\ pc' \in [Driver -> Places] /\ pc'["log"] \in {"top", "begin", "gone"}
        /\ pc'["find"] = pc["find"]
    <3>1. PICK to \in {"top", "begin", "gone"} : Goto("log", to)
      BY <1>1 DEF LogHomeEnds
    <3>2. QED
      BY <1>t, <1>1, <3>1, GotoDoes DEF LogHomeEnds, Places, Homing
  <2>3. home' \in [Driver -> Homes]
    BY <1>t, <1>1 DEF LogHomeEnds, Homes
  <2>4. UNCHANGED <<dir, shaft, hall, st, zero, calm, killed>>
    BY <1>1 DEF LogHomeEnds
  <2>5. MotorTypes'
    BY <1>t, <2>1, <2>2, <2>3, <2>4 DEF MotorTypes
  <2>6. ASSUME calm PROVE OneUser' /\ Pending' = 0
    BY <1>p, <2>1, <2>2, <2>4, <2>6 DEF OneUser, Pending, Idle, Pulsing
  <2>7. ASSUME calm PROVE sh'.pos + Pending' = shaft' - zero'
    BY <1>t, <1>p, <2>1, <2>2, <2>4, <2>6, <2>7
  <2>8. QED
    BY <2>1, <2>4, <2>5, <2>6, <2>7 DEF CounterInv, HomingInv, PositionIsShaft
<1>2. CASE Settle \/ Sample \/ RowRefused
  <2>1. /\ pc["log"] \in {"top", "away", "avgAt", "avgAway"}
        /\ UNCHANGED <<sh, dir, shaft, hall, st, home, zero, calm, killed>>
    BY <1>2 DEF Settle, Sample, RowRefused
  <2>2. /\ pc' \in [Driver -> Places] /\ pc'["log"] \in {"top", "away", "avgAt", "avgAway"}
        /\ pc'["find"] = pc["find"]
    <3>1. CASE UNCHANGED pc
      BY <1>t, <2>1, <3>1
    <3>2. ASSUME NEW to \in {"top", "away", "avgAt", "avgAway"}, Goto("log", to)
          PROVE  /\ pc' \in [Driver -> Places] /\ pc'["log"] \in {"top", "away", "avgAt", "avgAway"}
                 /\ pc'["find"] = pc["find"]
      BY <1>t, <3>2, GotoDoes DEF Places
    <3>3. UNCHANGED pc \/ \E to \in {"top", "away", "avgAt", "avgAway"} : Goto("log", to)
      BY <1>2 DEF Settle, Sample, RowRefused
    <3>4. QED
      BY <3>1, <3>2, <3>3
  <2>3. MotorTypes'
    BY <1>t, <2>1, <2>2 DEF MotorTypes
  <2>4. ASSUME calm PROVE OneUser' /\ Pending' = 0
    BY <1>t, <1>p, <2>1, <2>2, <2>4 DEF OneUser, Pending, Idle, Pulsing
  <2>5. ASSUME calm PROVE sh'.pos + Pending' = shaft' - zero'
    BY <1>t, <1>p, <2>1, <2>4, <2>5
  <2>6. sh'.homing => killed' \/ pc'["find"] \in Homing \/ pc'["log"] \in Pulsing
    BY <1>h, <2>1, <2>2 DEF Pulsing
  <2>7. QED
    BY <2>1, <2>3, <2>4, <2>5, <2>6 DEF CounterInv, HomingInv, PositionIsShaft
<1>3. ASSUME NEW fwd \in BOOLEAN, MoveBegins(fwd), Goto("log", IF fwd THEN "out" ELSE "back"),
             pc["log"] \in {"avgAt", "avgAway"},
             UNCHANGED <<shaft, hall, st, zero, calm, killed>>
      PROVE  CounterInv'
  <2>1. /\ sh' \in Flags /\ sh'.enabled /\ sh'.homing /\ sh'.pos = sh.pos /\ dir' = fwd
        /\ home' \in [Driver -> Homes] /\ home'["log"].steps = 0
    BY <1>t, <1>3, MoveBeginsDoes
  <2>2. /\ pc' \in [Driver -> Places] /\ pc'["log"] = (IF fwd THEN "out" ELSE "back")
        /\ pc'["find"] = pc["find"]
    BY <1>t, <1>3, GotoDoes DEF Places
  <2>3. MotorTypes'
    BY <1>t, <1>3, <2>1, <2>2 DEF MotorTypes
  <2>4. ASSUME calm PROVE OneUser' /\ Pending' = 0
    <3>1. st.pc = "snap" /\ pc["find"] \in {"off", "gone"}
      BY <1>p, <1>3, <2>4
    <3>2. Pending' = 0
      BY <1>3, <2>1, <2>2, <3>1 DEF Pending
    <3>3. dir' = (pc'["log"] = "out")
      BY <2>1, <2>2
    <3>4. OneUser'
      BY <1>3, <2>1, <2>2, <3>1, <3>3 DEF OneUser, Idle, Pulsing
    <3>5. QED
      BY <3>2, <3>4
  <2>5. ASSUME calm PROVE sh'.pos + Pending' = shaft' - zero'
    BY <1>t, <1>p, <1>3, <2>1, <2>4, <2>5
  <2>6. pc'["log"] \in Pulsing
    BY <2>2 DEF Pulsing
  <2>7. QED
    BY <1>3, <2>3, <2>4, <2>5, <2>6 DEF CounterInv, HomingInv, PositionIsShaft
<1>4. CASE Outward
  BY <1>3, <1>4 DEF Outward
<1>5. CASE LogStep
  <2> DEFINE g == [home EXCEPT !["log"].steps = @ + 1]
  <2>1. g \in [Driver -> Homes] /\ g["log"].steps = home["log"].steps + 1
    BY <1>t DEF Homes
  <2>2. /\ shaft' \in Int /\ shaft' = shaft + (IF sh.enabled THEN Sign(dir) ELSE 0)
        /\ home' \in [Driver -> Homes] /\ home'["log"].steps = home["log"].steps + 1
    <3> HIDE DEF g
    <3>1. Pulse(dir, g)
      BY <1>5 DEF LogStep, g
    <3>2. QED
      BY <1>t, <2>1, <3>1, PulseDoes
  <2>3. pc["log"] \in {"out", "back"} /\ UNCHANGED <<sh, dir, hall, st, pc, zero, calm, killed>>
    BY <1>5 DEF LogStep
  <2>4. MotorTypes'
    BY <1>t, <2>2, <2>3 DEF MotorTypes
  <2>5. ASSUME calm PROVE sh'.pos + Pending' = shaft' - zero' /\ OneUser'
    <3>1. st.pc = "snap" /\ sh.enabled /\ OneUser /\ sh.pos + Pending = shaft - zero
      BY <1>p, <2>3, <2>5
    <3>2. dir = (pc["log"] = "out")
      BY <2>3, <3>1 DEF OneUser
    <3>3. Pending' = Pending + Sign(dir)
      <4>1. CASE pc["log"] = "out"
        <5>1. Pending = home["log"].steps
          BY <1>t, <3>1, <4>1 DEF Pending
        <5>2. Pending' = home'["log"].steps
          BY <1>t, <2>2, <2>3, <3>1, <4>1 DEF Pending
        <5>3. dir
          BY <3>2, <4>1
        <5>4. QED
          BY <1>t, <2>2, <5>1, <5>2, <5>3 DEF Sign
      <4>2. CASE pc["log"] = "back"
        <5>1. Pending = -home["log"].steps
          BY <1>t, <3>1, <4>2 DEF Pending
        <5>2. Pending' = -home'["log"].steps
          BY <1>t, <2>2, <2>3, <3>1, <4>2 DEF Pending
        <5>3. ~dir
          BY <3>2, <4>2
        <5>4. QED
          BY <1>t, <2>2, <5>1, <5>2, <5>3 DEF Sign
      <4>3. QED
        BY <2>3, <4>1, <4>2
    <3>4. Pending \in Int /\ Sign(dir) \in Int
      BY <1>t, <3>1 DEF Pending, Sign
    <3>5. sh'.pos + Pending' = shaft' - zero'
      BY <1>t, <2>2, <2>3, <3>1, <3>3, <3>4
    <3>6. OneUser'
      BY <2>3, <3>1 DEF OneUser, Idle, Pulsing
    <3>7. QED
      BY <3>5, <3>6
  <2>6. QED
    BY <1>h, <2>3, <2>4, <2>5 DEF CounterInv, HomingInv, PositionIsShaft
<1>6. CASE MoveEnds
  <2> DEFINE p == sh.pos + Sign(pc["log"] = "out") * Done
             s == [sh EXCEPT !.homing = FALSE, !.moving = FALSE, !.pos = p, !.target = p]
  <2>1. p \in Int /\ (pc["log"] = "out" => p = sh.pos + home["log"].steps)
                  /\ (pc["log"] = "back" => p = sh.pos - home["log"].steps)
    <3>1. CASE pc["log"] = "out"
      BY <1>t, <3>1 DEF Sign, Done
    <3>2. CASE pc["log"] # "out"
      BY <1>t, <3>2 DEF Sign, Done
    <3>3. QED
      BY <3>1, <3>2
  <2>2. /\ pc["log"] \in {"out", "back"} /\ UNCHANGED <<dir, shaft, hall, st, home, calm, killed>>
    BY <1>6 DEF MoveEnds
  <2>3. ASSUME NEW n \in Int, NEW x, x = [sh EXCEPT !.homing = FALSE, !.moving = FALSE, !.pos = n, !.target = n]
        PROVE  x \in Flags /\ ~x.homing /\ ~x.moving /\ x.pos = n /\ x.enabled = sh.enabled
    BY <1>t, <2>3 DEF Flags
  <2>4. s \in Flags /\ ~s.homing /\ ~s.moving /\ s.pos = p /\ s.enabled = sh.enabled
    <3> HIDE DEF p
    <3>1. QED
      BY <2>1, <2>3
  <2>5. \/ sh' = GiveUp(s) /\ Goto("log", "gone") /\ UNCHANGED zero
        \/ sh' = s /\ Goto("log", "away") /\ UNCHANGED zero
        \/ sh' = [s EXCEPT !.pos = 0, !.target = 0, !.homed = TRUE] /\ zero' = shaft /\ Goto("log", "top")
    <3> HIDE DEF p
    <3>1. QED
      BY <1>6 DEF MoveEnds, p
  <2>6. /\ sh' \in Flags /\ ~sh'.homing /\ ~sh'.moving /\ sh'.enabled = sh.enabled
        /\ \/ sh'.pos = p /\ zero' = zero
           \/ sh'.pos = 0 /\ zero' = shaft
    <3> HIDE DEF p, s
    <3>1. CASE sh' = GiveUp(s) /\ UNCHANGED zero
      BY <2>4, <3>1 DEF GiveUp, Flags
    <3>2. CASE sh' = s /\ UNCHANGED zero
      BY <2>4, <3>2
    <3>3. ASSUME NEW n \in Int, n = 0, sh' = [s EXCEPT !.pos = n, !.target = n, !.homed = TRUE]
          PROVE  sh' \in Flags /\ ~sh'.homing /\ ~sh'.moving /\ sh'.enabled = sh.enabled /\ sh'.pos = 0
      BY <2>4, <3>3 DEF Flags
    <3>4. CASE sh' = [s EXCEPT !.pos = 0, !.target = 0, !.homed = TRUE] /\ zero' = shaft
      BY <3>3, <3>4, ZeroIsInt, Zenon
    <3>5. QED
      BY <2>5, <3>1, <3>2, <3>4
  <2>7. pc' \in [Driver -> Places] /\ pc'["log"] \in {"gone", "away", "top"} /\ pc'["find"] = pc["find"]
    <3>1. ASSUME NEW to \in {"gone", "away", "top"}, Goto("log", to)
          PROVE  pc' \in [Driver -> Places] /\ pc'["log"] \in {"gone", "away", "top"} /\ pc'["find"] = pc["find"]
      BY <1>t, <3>1, GotoDoes DEF Places
    <3>2. QED
      BY <2>5, <3>1
  <2>8. MotorTypes'
    BY <1>t, <2>2, <2>6, <2>7 DEF MotorTypes
  <2>9. ASSUME calm PROVE OneUser' /\ sh'.pos + Pending' = shaft' - zero'
    <3>1. /\ st.pc = "snap" /\ pc["find"] \in {"off", "gone"} /\ sh.enabled
          /\ sh.pos + Pending = shaft - zero
      BY <1>p, <2>2, <2>9
    <3>2. Pending' = 0
      BY <2>2, <2>7, <3>1 DEF Pending
    <3>3. p = shaft - zero
      <4>1. CASE pc["log"] = "out"
        BY <1>t, <2>1, <3>1, <4>1 DEF Pending
      <4>2. CASE pc["log"] = "back"
        BY <1>t, <2>1, <3>1, <4>2 DEF Pending
      <4>3. QED
        BY <2>2, <4>1, <4>2
    <3>4. sh'.pos + Pending' = shaft' - zero'
      <4> HIDE DEF p
      <4>1. QED
        BY <1>t, <2>2, <2>6, <3>2, <3>3
    <3>5. OneUser'
      BY <2>2, <2>6, <2>7, <3>1 DEF OneUser, Idle, Pulsing
    <3>6. QED
      BY <3>4, <3>5
  <2>10. QED
    BY <2>2, <2>6, <2>8, <2>9 DEF CounterInv, HomingInv, PositionIsShaft
<1>7. CASE Row
  <2>1. CASE Goto("log", "back") /\ MoveBegins(FALSE)
    BY <1>3, <1>7, <2>1 DEF Row
  <2>2. CASE Goto("log", "begin") /\ UNCHANGED <<sh, dir, home>>
    <3>1. /\ pc["log"] = "avgAway" /\ pc' \in [Driver -> Places] /\ pc'["log"] = "begin"
          /\ pc'["find"] = pc["find"]
      BY <1>t, <1>7, <2>2, GotoDoes DEF Row, Places, Homing
    <3>2. UNCHANGED <<sh, dir, home, shaft, hall, st, zero, calm, killed>>
      BY <1>7, <2>2 DEF Row
    <3>3. MotorTypes'
      BY <1>t, <3>1, <3>2 DEF MotorTypes
    <3>4. ASSUME calm PROVE OneUser' /\ Pending' = 0
      BY <1>p, <3>1, <3>2, <3>4 DEF OneUser, Pending, Idle, Pulsing
    <3>5. ASSUME calm PROVE sh'.pos + Pending' = shaft' - zero'
      BY <1>t, <1>p, <3>1, <3>2, <3>4, <3>5
    <3>6. sh'.homing => killed' \/ pc'["find"] \in Homing \/ pc'["log"] \in Pulsing
      BY <1>h, <3>1, <3>2 DEF Pulsing
    <3>7. QED
      BY <3>2, <3>3, <3>4, <3>5, <3>6 DEF CounterInv, HomingInv, PositionIsShaft
  <2>3. QED
    BY <1>7, <2>1, <2>2 DEF Row
<1>8. QED
  BY <1>1, <1>2, <1>4, <1>5, <1>6, <1>7, CounterByHomeStep DEF LogTask

-----------------------------------------------------------------------------
LEMMA CounterStep == CounterInv /\ [Next]_vars => CounterInv'
<1> SUFFICES ASSUME CounterInv, [Next]_vars PROVE CounterInv'
  OBVIOUS
<1>1. CASE UNCHANGED vars
  BY <1>1 DEF vars, CounterInv, HomingInv, MotorTypes, PositionIsShaft, Pending, OneUser, Idle
<1>2. CASE HomeStep("find")
  BY <1>2, CounterByHomeStep
<1>3. QED
  BY <1>1, <1>2, CounterByClient, CounterByStepper, CounterByFindEnds, CounterByLogTask DEF Next, FindTask

\* homing is set only while a driver is at work, unless a log task was deleted in
\* its move, whatever the clients and the Hall sensor do.
THEOREM HomingNamesADriver == Spec => []HomingIsDriven
<1>1. CounterInv => HomingIsDriven
  BY DEF CounterInv, HomingInv, HomingIsDriven, Homing, Pulsing
<1>2. QED
  BY <1>1, CounterInit, CounterStep, PTL DEF Spec

\* The counter the UI shows is the shaft's distance from the last zero, while every
\* command since the last undisturbed homing came at rest.
THEOREM CounterIsHonest == Spec => []PositionIsShaft
<1>1. CounterInv => PositionIsShaft
  BY DEF CounterInv
<1>2. QED
  BY <1>1, CounterInit, CounterStep, PTL DEF Spec
-----------------------------------------------------------------------------
(* The rows                                                                *)

\* A place of the mirror, and that LogSteps away from the user's zero is one place.
LEMMA PlaceInTurn == ASSUME NEW x \in Int PROVE x % Turn \in 0..(Turn - 1)
  BY MotorAssumption

LEMMA TurnIsPositive == Turn \in Nat \ {0}
  BY MotorAssumption

LEMMA Divided ==
  ASSUME NEW m \in Nat \ {0}, NEW x \in Int
  PROVE  x = (x \div m) * m + (x % m)
  OBVIOUS

LEMMA TurnsBetween ==
  /\ \A x \in Int : x % Turn = 0 => \E k \in Int : x = k * Turn
  /\ \A x \in Int : \E k \in Int : x = (x % Turn) + k * Turn
  /\ \A r \in 0..(Turn - 1), k \in Int : (r + k * Turn) % Turn = r
<1>1. ASSUME NEW x \in Int PROVE x = (x \div Turn) * Turn + (x % Turn) /\ x \div Turn \in Int
  <2>1. x = (x \div Turn) * Turn + (x % Turn)
    BY TurnIsPositive, Divided
  <2>2. x \div Turn \in Int
    BY TurnIsPositive
  <2>3. QED
    BY <2>1, <2>2
<1>2. ASSUME NEW x \in Int, x % Turn = 0 PROVE \E k \in Int : x = k * Turn
  BY <1>2, TurnIsPositive
<1>3. ASSUME NEW x \in Int PROVE \E k \in Int : x = (x % Turn) + k * Turn
  <2> DEFINE k == x \div Turn
             r == x % Turn
  <2>1. k \in Int /\ x = r + k * Turn
    <3>1. k \in Int /\ x = k * Turn + r /\ r \in Int /\ Turn \in Int
      BY <1>1, PlaceInTurn, TurnIsPositive
    <3> HIDE DEF k, r
    <3>2. QED
      BY <3>1
  <2>2. QED
    BY <2>1
<1>4. ASSUME NEW r \in 0..(Turn - 1), NEW k \in Int PROVE (r + k * Turn) % Turn = r
  BY TurnIsPositive
<1>5. QED
  BY <1>2, <1>3, <1>4

LEMMA PlaceOfSteps ==
  ASSUME NEW x \in Int, WholeTurns(x - LogSteps)
  PROVE  x % Turn = LogSteps % Turn
<1>1. Turn \in Int /\ LogSteps \in Int /\ x - LogSteps \in Int
  BY MotorAssumption
<1>2. PICK k \in Int : x - LogSteps = k * Turn
  BY <1>1, TurnsBetween DEF WholeTurns
<1>3. PICK m \in Int : LogSteps = (LogSteps % Turn) + m * Turn
  BY <1>1, TurnsBetween
<1>4. LogSteps % Turn \in 0..(Turn - 1) /\ LogSteps % Turn \in Int
  BY <1>1, PlaceInTurn, MotorAssumption
<1>5. ASSUME NEW r \in Int, LogSteps = r + m * Turn PROVE k + m \in Int /\ x = r + (k + m) * Turn
  BY <1>1, <1>2, <1>5
<1>6. k + m \in Int /\ x = (LogSteps % Turn) + (k + m) * Turn
  BY <1>3, <1>4, <1>5
<1>7. QED
  BY <1>4, <1>6, TurnsBetween

\* A pulse latches an edge only at the magnet, and touches no outcome.
LEMMA PulseLatches ==
  ASSUME NEW fwd \in BOOLEAN, NEW h \in [Driver -> Homes], Pulse(fwd, h), NEW x \in Driver
  PROVE  /\ home'[x].latch => h[x].latch \/ WholeTurns(shaft')
         /\ home'[x].result = h[x].result
  BY DEF Pulse, Homes, WholeTurns

\* The variables that no other invariant of this module types.
Counts ==
  /\ cycle \in [left : Nat, at : SUBSET (0..(Turn - 1)), away : SUBSET (0..(Turn - 1))]
  /\ rows \in Nat /\ sent \in Nat /\ clean \in BOOLEAN /\ killed \in BOOLEAN

LEMMA CountsByClient == ASSUME MotorTypes, Counts, Client PROVE Counts'
<1>1. sent' = sent + 1 /\ UNCHANGED rows
  BY DEF Client, Command, EnableStepper, DisableStepper, Stop, Zero, FindZero, StartLog, StopLog, Move
<1>2. clean' \in BOOLEAN /\ killed' \in BOOLEAN
  BY DEF Counts, Client, EnableStepper, DisableStepper, Stop, Zero, FindZero, StartLog, StopLog, Move
<1>3. cycle' \in {cycle, NoCycle}
  BY DEF Client, EnableStepper, DisableStepper, Stop, Zero, FindZero, StartLog, StopLog, Move
<1>4. QED
  BY <1>1, <1>2, <1>3 DEF Counts, NoCycle

LEMMA CountsBySample == ASSUME MotorTypes, Counts, Sample PROVE Counts'
<1>1. Place \in 0..(Turn - 1)
  BY PlaceInTurn, MotorAssumption DEF MotorTypes, Place
<1>2. cycle' = cycle \/ cycle' = [cycle EXCEPT !.left = @ - 1, !.at = @ \cup {Place}]
                     \/ cycle' = [cycle EXCEPT !.left = @ - 1, !.away = @ \cup {Place}]
  BY DEF Sample
<1>3. (cycle.left > 0 /\ cycle.left \in Nat) \/ UNCHANGED cycle
  BY DEF Sample, Counts
<1>4. UNCHANGED <<rows, sent, clean, killed>>
  BY DEF Sample, ghosts
<1>5. cycle' \in [left : Nat, at : SUBSET (0..(Turn - 1)), away : SUBSET (0..(Turn - 1))]
  <2> DEFINE Seen == 0..(Turn - 1)
  <2>1. ASSUME NEW p \in Seen, cycle.left - 1 \in Nat
        PROVE  /\ [cycle EXCEPT !.left = @ - 1, !.at = @ \cup {p}] \in [left : Nat, at : SUBSET Seen, away : SUBSET Seen]
               /\ [cycle EXCEPT !.left = @ - 1, !.away = @ \cup {p}] \in [left : Nat, at : SUBSET Seen, away : SUBSET Seen]
    <3> HIDE DEF Seen
    <3>1. cycle \in [left : Nat, at : SUBSET Seen, away : SUBSET Seen]
      BY DEF Counts, Seen
    <3>2. QED
      BY <2>1, <3>1
  <2>2. cycle \in [left : Nat, at : SUBSET Seen, away : SUBSET Seen]
    BY DEF Counts
  <2> HIDE DEF Seen
  <2>3. cycle' \in [left : Nat, at : SUBSET Seen, away : SUBSET Seen]
    <3>1. CASE UNCHANGED cycle
      BY <2>2, <3>1
    <3>2. CASE cycle.left > 0 /\ cycle.left \in Nat
      <4>1. cycle.left - 1 \in Nat
        BY <3>2
      <4>2. QED
        BY <1>1, <1>2, <2>1, <2>2, <4>1 DEF Seen
    <3>3. QED
      BY <1>3, <3>1, <3>2
  <2>4. QED
    BY <2>3 DEF Seen
<1>6. QED
  BY <1>4, <1>5 DEF Counts

LEMMA CountsByTasks == ASSUME MotorTypes, Counts, StepperTask \/ FindTask \/ LogTask PROVE Counts'
<1>1. CASE StepperTask \/ FindTask \/ HomeStep("log")
  <2>1. UNCHANGED <<cycle, rows, sent, clean, killed>>
    BY <1>1 DEF StepperTask, Snapshot, StepPulse, StepCount, FindTask, FindEnds, HomeStep, Begin, Seek, SeekAborted,
                Missed, Found, OffsetStep, OffsetAborted, OffsetDone, ghosts
  <2>2. QED
    BY <2>1 DEF Counts
<1>2. CASE LogHomeEnds
  BY <1>2 DEF LogHomeEnds, NoCycle, Counts, ghosts
<1>3. CASE Settle
  <2>1. UNCHANGED <<rows, sent, clean, killed>>
    BY <1>3 DEF Settle, ghosts
  <2>2. cycle' \in [left : Nat, at : SUBSET (0..(Turn - 1)), away : SUBSET (0..(Turn - 1))]
    BY <1>3, MotorAssumption DEF Settle, Counts
  <2>3. QED
    BY <2>1, <2>2 DEF Counts
<1>4. CASE Outward \/ LogStep \/ MoveEnds \/ RowRefused
  <2>1. UNCHANGED <<cycle, rows, sent, clean, killed>>
    BY <1>4 DEF Outward, LogStep, MoveEnds, RowRefused, ghosts
  <2>2. QED
    BY <2>1 DEF Counts
<1>5. CASE Row
  BY <1>5 DEF Row, Counts, ghosts
<1>6. QED
  BY <1>1, <1>2, <1>3, <1>4, <1>5, CountsBySample DEF LogTask

-----------------------------------------------------------------------------
\* A session that no client disturbed.
Session == MotorTypes /\ Counts /\ clean /\ RowsInPlace /\ LogTaskAlone /\ OnCourse

\* A client leaves such a session as it is, or it begins a new one.
LEMMA SessionByClient ==
  ASSUME MotorTypes, clean => Session, Client, clean'
  PROVE  RowsInPlace' /\ LogTaskAlone' /\ OnCourse'
<1>t. sh \in Flags /\ home \in [Driver -> Homes] /\ pc \in [Driver -> Places]
  BY DEF MotorTypes
<1>1. CASE EnableStepper
  <2>1. clean /\ UNCHANGED <<dir, shaft, st, pc, home, cycle>>
    BY <1>1 DEF EnableStepper
  <2>2. sh'.enabled /\ sh'.moving = sh.moving /\ sh'.homing = sh.homing /\ sh'.abort = sh.abort
    BY <1>t, <1>1 DEF EnableStepper, Flags
  <2>3. QED
    BY <2>1, <2>2 DEF Session, RowsInPlace, LogTaskAlone, OnCourse, WholeTurns
<1>2. CASE Stop
  <2>1. clean /\ UNCHANGED <<dir, shaft, st, pc, home, cycle>>
    BY <1>2 DEF Stop
  <2>2. ~sh'.moving /\ sh'.abort /\ sh'.enabled = sh.enabled
    BY <1>t, <1>2 DEF Stop, Flags
  <2>3. QED
    BY <2>1, <2>2 DEF Session, RowsInPlace, LogTaskAlone, OnCourse, WholeTurns
<1>3. CASE Zero
  <2>1. clean /\ UNCHANGED <<dir, shaft, st, pc, home, cycle>>
    BY <1>3 DEF Zero
  <2>2. sh'.enabled = sh.enabled /\ sh'.moving = sh.moving /\ sh'.homing = sh.homing /\ sh'.abort = sh.abort
    BY <1>t, <1>3 DEF Zero, Flags
  <2>3. QED
    BY <2>1, <2>2 DEF Session, RowsInPlace, LogTaskAlone, OnCourse, WholeTurns
<1>4. CASE StartLog
  <2>1. /\ ~sh.moving /\ pc["find"] = "off" /\ st.pc = "snap" /\ cycle' = NoCycle
        /\ UNCHANGED <<sh, st, shaft>>
    BY <1>4 DEF StartLog
  <2>2. pc'["log"] = "begin" /\ pc'["find"] = "off"
    BY <1>t, <1>4, <2>1 DEF StartLog, Goto
  <2>3. home'["log"].try = 1
    BY <1>t, <1>4 DEF StartLog, NoHome
  <2>4. RowsInPlace'
    BY <2>1 DEF RowsInPlace, NoCycle
  <2>5. QED
    BY <2>1, <2>2, <2>3, <2>4 DEF LogTaskAlone, OnCourse, Driving, Pulsing
<1>5. QED
  BY <1>1, <1>2, <1>3, <1>4 DEF Client, DisableStepper, Move, FindZero, StopLog

LEMMA SessionByStepper ==
  ASSUME Session, StepperTask
  PROVE  RowsInPlace' /\ LogTaskAlone' /\ OnCourse'
<1>1. st.pc = "snap" /\ (sh.moving => sh.homing \/ sh.abort) /\ sh \in Flags
  BY DEF Session, LogTaskAlone, MotorTypes
<1>2. Snapshot
  BY <1>1 DEF StepperTask, StepPulse, StepCount
<1>3. UNCHANGED <<dir, shaft, pc, home, cycle, clean>> /\ st' = st
  BY <1>1, <1>2 DEF Snapshot, ghosts
<1>4. sh'.enabled = sh.enabled /\ sh'.homing = sh.homing /\ sh'.abort = sh.abort /\ (sh'.moving => sh.moving)
  BY <1>1, <1>2 DEF Snapshot, Flags
<1>5. QED
  BY <1>1, <1>3, <1>4 DEF Session, RowsInPlace, LogTaskAlone, OnCourse, WholeTurns

LEMMA SessionByHomeStep ==
  ASSUME Session, HomeStep("log")
  PROVE  RowsInPlace' /\ LogTaskAlone' /\ OnCourse'
<1>t. /\ sh \in Flags /\ pc \in [Driver -> Places] /\ home \in [Driver -> Homes]
      /\ shaft \in Int /\ dir \in BOOLEAN /\ "log" \in Driver
      /\ home["log"].steps \in Nat /\ Offset \in Int /\ Distance \in Nat
  BY MotorAssumption DEF Session, MotorTypes, Homes, Distance
<1>s. /\ st.pc = "snap" /\ pc["find"] = "off"
      /\ sh.moving \/ pc["log"] \in Pulsing => sh.homing \/ sh.abort
      /\ pc["log"] \in Pulsing => sh.enabled
  BY DEF Session, LogTaskAlone, Driving
<1>r. RowsInPlace'
  BY DEF Session, RowsInPlace, HomeStep, Begin, Seek, SeekAborted, Missed, Found, OffsetStep, OffsetAborted, OffsetDone, ghosts
<1>u. UNCHANGED st
  BY DEF HomeStep, Begin, Seek, SeekAborted, Missed, Found, OffsetStep, OffsetAborted, OffsetDone
<1>1. CASE Begin("log")
  <2>1. /\ sh'.homing /\ sh'.enabled
    BY <1>t, <1>1 DEF Begin, Flags, Session, LogTaskAlone
  <2>2. pc'["log"] = "seek" /\ pc'["find"] = "off" /\ ~home'["log"].latch
    BY <1>t, <1>s, <1>1 DEF Begin, Goto, Homes
  <2>3. QED
    BY <1>r, <1>s, <1>u, <2>1, <2>2 DEF LogTaskAlone, OnCourse
<1>2. CASE Seek("log")
  <2> DEFINE h == [home EXCEPT !["log"].steps = @ + 1]
  <2>1. h \in [Driver -> Homes] /\ ~h["log"].latch
    BY <1>t, <1>2 DEF Homes, Seek, Seeking
  <2>2. home'["log"].latch => WholeTurns(shaft')
    <3> HIDE DEF h
    <3>1. Pulse(dir, h)
      BY <1>2 DEF Seek, h
    <3>2. QED
      BY <1>t, <2>1, <3>1, PulseLatches
  <2>3. pc["log"] = "seek" /\ UNCHANGED pc
    BY <1>2 DEF Seek
  <2>4. sh'.moving = sh.moving /\ sh'.homing = sh.homing /\ sh'.abort = sh.abort /\ sh'.enabled = sh.enabled
    BY <1>t, <1>2 DEF Seek, Flags
  <2>5. QED
    BY <1>r, <1>s, <1>u, <2>2, <2>3, <2>4 DEF LogTaskAlone, OnCourse, Pulsing, Driving
<1>3. CASE SeekAborted("log") \/ Missed("log") \/ OffsetAborted("log")
  <2>1. /\ pc["log"] \in {"seek", "offset"} /\ pc'["log"] = "finish" /\ pc'["find"] = "off"
    BY <1>t, <1>s, <1>3 DEF SeekAborted, Missed, OffsetAborted, Goto
  <2>2. home'["log"].result # "ok" /\ UNCHANGED sh
    BY <1>t, <1>3 DEF SeekAborted, Missed, OffsetAborted, Homes
  <2>3. QED
    BY <1>r, <1>s, <1>u, <2>1, <2>2 DEF LogTaskAlone, OnCourse, Pulsing, Driving
<1>4. CASE Found("log")
  <2>1. pc["log"] = "seek" /\ pc'["find"] = "off" /\ pc'["log"] = (IF Offset = 0 THEN "finish" ELSE "offset")
    BY <1>t, <1>s, <1>4 DEF Found, Goto
  <2>2. WholeTurns(shaft) /\ UNCHANGED shaft
    BY <1>4, <2>1 DEF Found, HallTriggered, Session, OnCourse, WholeTurns
  <2>3. home'["log"].steps = 0 /\ (Offset # 0 => dir' = (Offset > 0))
    BY <1>t, <1>4 DEF Found, Homes
  <2>4. sh'.enabled = sh.enabled /\ sh'.homing = sh.homing /\ sh'.abort = sh.abort
    BY <1>t, <1>4 DEF Found, Flags
  <2>5. home'["log"].steps \in 0..Distance /\ shaft' - Sign(Offset > 0) * home'["log"].steps = shaft
    BY <1>t, <2>2, <2>3 DEF Sign
  <2>6. QED
    BY <1>r, <1>s, <1>t, <1>u, <2>1, <2>2, <2>3, <2>4, <2>5 DEF LogTaskAlone, OnCourse, WholeTurns, Pulsing, Driving
<1>5. CASE OffsetStep("log")
  <2> DEFINE h == [home EXCEPT !["log"].steps = @ + 1]
  <2>1. h \in [Driver -> Homes] /\ h["log"].steps = home["log"].steps + 1
    BY <1>t DEF Homes
  <2>2. shaft' = shaft + (IF sh.enabled THEN Sign(dir) ELSE 0) /\ home'["log"].steps = home["log"].steps + 1
    <3> HIDE DEF h
    <3>1. Pulse(dir, h)
      BY <1>5 DEF OffsetStep, h
    <3>2. QED
      BY <1>t, <2>1, <3>1, PulseDoes
  <2>3. pc["log"] = "offset" /\ UNCHANGED <<pc, dir>> /\ home["log"].steps < Distance
    BY <1>5 DEF OffsetStep
  <2>4. sh'.moving = sh.moving /\ sh'.homing = sh.homing /\ sh'.abort = sh.abort /\ sh'.enabled = sh.enabled
    BY <1>t, <1>5 DEF OffsetStep, Flags
  <2>5. dir = (Offset > 0) /\ WholeTurns(shaft - Sign(Offset > 0) * home["log"].steps)
    BY <2>3 DEF Session, OnCourse
  <2>6. sh.enabled
    BY <1>s, <2>3 DEF Pulsing
  <2>7. shaft' - Sign(Offset > 0) * home'["log"].steps = shaft - Sign(Offset > 0) * home["log"].steps
    <3>1. CASE Offset > 0
      <4>1. Sign(Offset > 0) = 1 /\ shaft' = shaft + 1
        BY <1>t, <2>2, <2>5, <2>6, <3>1 DEF Sign
      <4>2. QED
        BY <1>t, <2>2, <4>1
    <3>2. CASE ~(Offset > 0)
      <4>1. Sign(Offset > 0) = -1 /\ shaft' = shaft - 1
        BY <1>t, <2>2, <2>5, <2>6, <3>2 DEF Sign
      <4>2. QED
        BY <1>t, <2>2, <4>1
    <3>3. QED
      BY <3>1, <3>2
  <2>8. home'["log"].steps \in 0..Distance
    BY <1>t, <2>2, <2>3
  <2>9. QED
    BY <1>r, <1>s, <1>u, <2>3, <2>4, <2>5, <2>7, <2>8 DEF LogTaskAlone, OnCourse, WholeTurns, Pulsing, Driving
<1>6. CASE OffsetDone("log")
  <2>1. pc["log"] = "offset" /\ pc'["log"] = "finish" /\ pc'["find"] = "off"
    BY <1>t, <1>s, <1>6 DEF OffsetDone, Goto
  <2>2. home["log"].steps = Distance /\ UNCHANGED shaft
    BY <1>6 DEF OffsetDone
  <2>3. Sign(Offset > 0) * home["log"].steps = Offset
    BY <1>t, <2>1, <2>2 DEF Sign, Distance, Session, OnCourse
  <2>4. WholeTurns(shaft - Offset)
    BY <2>1, <2>3 DEF Session, OnCourse
  <2>5. ~sh'.moving /\ sh'.homing = sh.homing /\ sh'.abort = sh.abort /\ sh'.enabled = sh.enabled
    BY <1>t, <1>6 DEF OffsetDone, Flags
  <2>6. QED
    BY <1>r, <1>s, <1>u, <2>1, <2>2, <2>4, <2>5 DEF LogTaskAlone, OnCourse, WholeTurns, Pulsing, Driving
<1>7. QED
  BY <1>1, <1>2, <1>3, <1>4, <1>5, <1>6 DEF HomeStep

LEMMA SessionByLogTask ==
  ASSUME Session, LogTask
  PROVE  RowsInPlace' /\ LogTaskAlone' /\ OnCourse'
<1>t. /\ sh \in Flags /\ pc \in [Driver -> Places] /\ home \in [Driver -> Homes]
      /\ shaft \in Int /\ dir \in BOOLEAN /\ Counts /\ clean /\ "log" \in Driver
      /\ home["log"].steps \in Nat /\ Offset \in Int /\ LogSteps \in Nat \ {0}
  BY MotorAssumption DEF Session, MotorTypes, Homes
<1>s. /\ st.pc = "snap" /\ pc["find"] = "off"
      /\ sh.moving \/ pc["log"] \in Pulsing => sh.homing \/ sh.abort
      /\ pc["log"] \in Driving => sh.enabled
  BY DEF Session, LogTaskAlone
<1>r. cycle.at \subseteq {0} /\ cycle.away \subseteq {LogSteps % Turn}
  BY <1>t DEF Session, RowsInPlace
<1>1. CASE LogHomeEnds
  <2> DEFINE h == home["log"]
             again == h.result = "missed" /\ h.try < Attempts
  <2>1. /\ pc["log"] = "finish" /\ pc'["find"] = "off"
        /\ pc'["log"] = (CASE h.result = "ok" -> "top" [] again -> "begin" [] OTHER -> "gone")
        /\ cycle' = NoCycle /\ UNCHANGED <<st, shaft>>
    BY <1>t, <1>s, <1>1 DEF LogHomeEnds, Goto
  <2>2. ~sh'.moving /\ sh'.enabled = sh.enabled
    BY <1>t, <1>1 DEF LogHomeEnds, Released, GiveUp, Flags
  <2>3. pc'["log"] \in {"top", "begin", "gone"} /\ (pc'["log"] = "top" => WholeTurns(shaft - Offset))
    BY <2>1 DEF Session, OnCourse
  <2>4. sh.enabled
    BY <1>s, <2>1 DEF Driving, Pulsing
  <2>5. QED
    BY <1>s, <2>1, <2>2, <2>3, <2>4 DEF RowsInPlace, NoCycle, LogTaskAlone, OnCourse, WholeTurns, Pulsing
<1>2. CASE Settle
  <2>1. /\ pc["log"] \in {"top", "away"} /\ pc'["find"] = "off"
        /\ pc'["log"] = (IF pc["log"] = "top" THEN "avgAt" ELSE "avgAway")
        /\ UNCHANGED <<st, shaft, sh>>
    BY <1>t, <1>s, <1>2 DEF Settle, Goto
  <2>2. cycle'.at \subseteq {0} /\ cycle'.away \subseteq {LogSteps % Turn}
    BY <1>t, <1>r, <1>2 DEF Settle, Counts
  <2>3. QED
    BY <1>s, <2>1, <2>2 DEF RowsInPlace, LogTaskAlone, Session, OnCourse, WholeTurns, Pulsing, Driving
<1>3. CASE Sample
  <2>1. /\ pc["log"] \in {"avgAt", "avgAway"} /\ pc'["find"] = "off"
        /\ \/ pc'["log"] = pc["log"]
           \/ pc'["log"] = IF pc["log"] = "avgAt" THEN "top" ELSE "away"
        /\ UNCHANGED <<st, shaft, sh>>
    BY <1>t, <1>s, <1>3 DEF Sample, Goto
  <2>2. pc["log"] = "avgAt" => Place = 0
    BY <1>t DEF Session, OnCourse, WholeTurns, Place
  <2>3. pc["log"] = "avgAway" => Place = LogSteps % Turn
    <3>1. pc["log"] = "avgAway" => WholeTurns((shaft - Offset) - LogSteps)
      BY <1>t DEF Session, OnCourse
    <3>2. shaft - Offset \in Int
      BY <1>t
    <3>3. QED
      BY <3>1, <3>2, PlaceOfSteps DEF Place
  <2>4. cycle'.at \subseteq {0} /\ cycle'.away \subseteq {LogSteps % Turn}
    <3>1. \/ cycle' = cycle
          \/ pc["log"] = "avgAt" /\ cycle' = [cycle EXCEPT !.left = @ - 1, !.at = @ \cup {Place}]
          \/ pc["log"] = "avgAway" /\ cycle' = [cycle EXCEPT !.left = @ - 1, !.away = @ \cup {Place}]
      BY <1>3 DEF Sample
    <3>2. QED
      BY <1>t, <1>r, <2>2, <2>3, <3>1 DEF Counts
  <2>5. QED
    BY <1>s, <2>1, <2>4 DEF RowsInPlace, LogTaskAlone, Session, OnCourse, WholeTurns, Pulsing, Driving
<1>4. ASSUME NEW fwd \in BOOLEAN, MoveBegins(fwd), Goto("log", IF fwd THEN "out" ELSE "back"),
             pc["log"] = (IF fwd THEN "avgAt" ELSE "avgAway"), UNCHANGED <<shaft, st, cycle>>
      PROVE  RowsInPlace' /\ LogTaskAlone' /\ OnCourse'
  <2>1. sh'.enabled /\ sh'.homing /\ dir' = fwd /\ home'["log"].steps = 0
    BY <1>4, MoveBeginsDoes DEF Session
  <2>2. pc'["log"] = (IF fwd THEN "out" ELSE "back") /\ pc'["find"] = "off"
    BY <1>t, <1>s, <1>4 DEF Goto
  <2>3. /\ fwd => WholeTurns(shaft - Offset) /\ shaft' - Offset - home'["log"].steps = shaft - Offset
        /\ ~fwd => WholeTurns(shaft - Offset - LogSteps)
                   /\ shaft' - Offset - LogSteps + home'["log"].steps = shaft - Offset - LogSteps
    BY <1>t, <1>4, <2>1 DEF Session, OnCourse
  <2>4. QED
    BY <1>s, <1>r, <1>4, <2>1, <2>2, <2>3 DEF RowsInPlace, LogTaskAlone, OnCourse, WholeTurns
<1>5. CASE Outward
  BY <1>4, <1>5 DEF Outward
<1>6. CASE LogStep
  <2> DEFINE g == [home EXCEPT !["log"].steps = @ + 1]
  <2>1. g \in [Driver -> Homes] /\ g["log"].steps = home["log"].steps + 1
    BY <1>t DEF Homes
  <2>2. shaft' = shaft + (IF sh.enabled THEN Sign(dir) ELSE 0) /\ home'["log"].steps = home["log"].steps + 1
    <3> HIDE DEF g
    <3>1. Pulse(dir, g)
      BY <1>6 DEF LogStep, g
    <3>2. QED
      BY <1>t, <2>1, <3>1, PulseDoes
  <2>3. pc["log"] \in {"out", "back"} /\ UNCHANGED <<sh, dir, st, pc, cycle>>
    BY <1>6 DEF LogStep
  <2>4. sh.enabled /\ dir = (pc["log"] = "out")
    BY <1>s, <1>t, <2>3 DEF Session, OnCourse, Driving, Pulsing
  <2>5. /\ pc["log"] = "out" => shaft' - Offset - home'["log"].steps = shaft - Offset - home["log"].steps
        /\ pc["log"] = "back" => shaft' - Offset - LogSteps + home'["log"].steps
                                   = shaft - Offset - LogSteps + home["log"].steps
    <3>1. CASE pc["log"] = "out"
      <4>1. shaft' = shaft + 1
        BY <2>2, <2>4, <3>1 DEF Sign
      <4>2. QED
        BY <1>t, <2>2, <3>1, <4>1
    <3>2. CASE pc["log"] = "back"
      <4>1. shaft' = shaft - 1
        BY <1>t, <2>2, <2>4, <3>2 DEF Sign
      <4>2. QED
        BY <1>t, <2>2, <3>2, <4>1
    <3>3. QED
      BY <2>3, <3>1, <3>2
  <2>6. QED
    BY <1>s, <1>r, <2>3, <2>5 DEF RowsInPlace, LogTaskAlone, Session, OnCourse, WholeTurns, Pulsing, Driving
<1>7. CASE MoveEnds
  <2>1. pc["log"] \in {"out", "back"} /\ UNCHANGED <<shaft, st, cycle, dir>>
    BY <1>7 DEF MoveEnds
  <2>2. pc'["find"] = "off" /\ pc'["log"] \in {"gone", "away", "top"}
    BY <1>t, <1>s, <1>7, <2>1 DEF MoveEnds, Goto
  <2>3. /\ pc'["log"] = "away" => pc["log"] = "out" /\ home["log"].steps = LogSteps
        /\ pc'["log"] = "top" => pc["log"] = "back" /\ home["log"].steps = LogSteps
    BY <1>t, <1>7, <2>1 DEF MoveEnds, Goto, MoveSucceeded
  <2>4. ~sh'.moving /\ sh'.enabled
    <3>1. sh.enabled
      BY <1>s, <2>1 DEF Driving, Pulsing
    <3>2. ASSUME NEW n, NEW x, x = [sh EXCEPT !.homing = FALSE, !.moving = FALSE, !.pos = n, !.target = n]
          PROVE  /\ ~x.moving /\ x.enabled = sh.enabled
                 /\ ~GiveUp(x).moving /\ GiveUp(x).enabled = sh.enabled
                 /\ ~[x EXCEPT !.pos = 0, !.target = 0, !.homed = TRUE].moving
                 /\ [x EXCEPT !.pos = 0, !.target = 0, !.homed = TRUE].enabled = sh.enabled
      BY <1>t, <3>2 DEF Flags, GiveUp
    <3> DEFINE p == sh.pos + Sign(pc["log"] = "out") * Done
               s == [sh EXCEPT !.homing = FALSE, !.moving = FALSE, !.pos = p, !.target = p]
    <3> HIDE DEF p
    <3>3. sh' = GiveUp(s) \/ sh' = s \/ sh' = [s EXCEPT !.pos = 0, !.target = 0, !.homed = TRUE]
      BY <1>7 DEF MoveEnds, p
    <3>4. /\ ~s.moving /\ s.enabled = sh.enabled
          /\ ~GiveUp(s).moving /\ GiveUp(s).enabled = sh.enabled
          /\ ~[s EXCEPT !.pos = 0, !.target = 0, !.homed = TRUE].moving
          /\ [s EXCEPT !.pos = 0, !.target = 0, !.homed = TRUE].enabled = sh.enabled
      BY <3>2
    <3>5. QED
      <4> HIDE DEF s
      <4>1. QED
        BY <3>1, <3>3, <3>4
  <2>5. /\ pc'["log"] = "away" => WholeTurns(shaft - Offset - LogSteps)
        /\ pc'["log"] = "top" => WholeTurns(shaft - Offset)
    <3>1. shaft - Offset - LogSteps + LogSteps = shaft - Offset
      BY <1>t
    <3>2. QED
      BY <2>3, <3>1 DEF Session, OnCourse
  <2>6. QED
    BY <1>s, <1>r, <2>1, <2>2, <2>4, <2>5 DEF RowsInPlace, LogTaskAlone, OnCourse, WholeTurns, Pulsing
<1>8. CASE RowRefused
  <2>1. /\ pc["log"] = "avgAway" /\ pc'["find"] = "off" /\ pc'["log"] = "away"
        /\ UNCHANGED <<sh, st, shaft, cycle>>
    BY <1>t, <1>s, <1>8 DEF RowRefused, Goto
  <2>2. QED
    BY <1>s, <1>r, <2>1 DEF RowsInPlace, LogTaskAlone, Session, OnCourse, WholeTurns, Pulsing, Driving
<1>9. CASE Row
  <2>1. CASE Goto("log", "back") /\ MoveBegins(FALSE)
    BY <1>4, <1>9, <2>1 DEF Row
  <2>2. CASE Goto("log", "begin") /\ UNCHANGED <<sh, dir, home>>
    <3>1. pc["log"] = "avgAway" /\ pc'["log"] = "begin" /\ pc'["find"] = "off" /\ UNCHANGED <<st, cycle>>
      BY <1>t, <1>s, <1>9, <2>2 DEF Row, Goto
    <3>2. QED
      BY <1>s, <1>r, <2>2, <3>1 DEF RowsInPlace, LogTaskAlone, OnCourse, Pulsing, Driving
  <2>3. QED
    BY <1>9, <2>1, <2>2 DEF Row
<1>10. QED
  BY <1>1, <1>2, <1>3, <1>5, <1>6, <1>7, <1>8, <1>9, SessionByHomeStep DEF LogTask

-----------------------------------------------------------------------------
LEMMA RowsInit == Init => RowsInv
<1> SUFFICES ASSUME Init PROVE RowsInv
  OBVIOUS
<1>1. MotorTypes
  BY CounterInit DEF CounterInv, HomingInv
<1>2. cycle \in [left : Nat, at : SUBSET (0..(Turn - 1)), away : SUBSET (0..(Turn - 1))]
  BY DEF Init, NoCycle
<1>3. {rows, sent} \subseteq Nat /\ {clean, killed} \subseteq BOOLEAN /\ ~clean
  <2>1. rows = 0 /\ sent = 0 /\ clean = FALSE /\ killed = FALSE
    BY DEF Init
  <2>2. rows \in Nat /\ sent \in Nat
    BY <2>1
  <2>3. clean \in BOOLEAN /\ killed \in BOOLEAN
    BY <2>1
  <2>4. QED
    BY <2>1, <2>2, <2>3
<1>4. TypeOK
  BY <1>1, <1>2, <1>3 DEF TypeOK
<1>5. QED
  BY <1>3, <1>4 DEF RowsInv, RowsInPlace

LEMMA RowsStep == CounterInv /\ CounterInv' /\ RowsInv /\ [Next]_vars => RowsInv'
<1> SUFFICES ASSUME CounterInv, CounterInv', RowsInv, [Next]_vars PROVE RowsInv'
  OBVIOUS
<1>1. MotorTypes /\ MotorTypes' /\ Counts
  BY DEF CounterInv, HomingInv, RowsInv, TypeOK, Counts
<1>2. clean => Session
  BY <1>1 DEF RowsInv, Session
<1>3. CASE UNCHANGED vars
  BY <1>3 DEF vars, RowsInv, TypeOK, MotorTypes, RowsInPlace, LogTaskAlone, OnCourse, WholeTurns
<1>4. CASE Next
  <2>1. Counts'
    BY <1>1, <1>4, CountsByClient, CountsByTasks DEF Next
  <2>2. TypeOK'
    BY <1>1, <2>1 DEF TypeOK, Counts
  <2>3. ASSUME clean' PROVE RowsInPlace' /\ LogTaskAlone' /\ OnCourse'
    <3>1. CASE Client
      BY <1>1, <1>2, <2>3, <3>1, SessionByClient
    <3>2. CASE StepperTask \/ FindTask \/ LogTask
      <4>1. clean
        BY <2>3, <3>2 DEF StepperTask, Snapshot, StepPulse, StepCount, FindTask, FindEnds, LogTask, HomeStep, Begin,
                          Seek, SeekAborted, Missed, Found, OffsetStep, OffsetAborted, OffsetDone, LogHomeEnds, Settle,
                          Sample, Outward, LogStep, MoveEnds, RowRefused, Row, ghosts
      <4>2. pc["find"] = "off"
        BY <1>2, <4>1 DEF Session, LogTaskAlone
      <4>3. ~FindTask
        BY <4>2 DEF FindTask, FindEnds, HomeStep, Begin, Seek, SeekAborted, Missed, Found, OffsetStep, OffsetAborted, OffsetDone
      <4>4. QED
        BY <1>2, <3>2, <4>1, <4>3, SessionByStepper, SessionByLogTask
    <3>3. QED
      BY <1>4, <3>1, <3>2 DEF Next
  <2>4. QED
    BY <2>2, <2>3 DEF RowsInv, RowsInPlace
<1>5. QED
  BY <1>3, <1>4

\* Both averages behind a row are taken at their places, the user's zero and LogSteps
\* from it, unless a client moved or disabled the motor during the session.
THEOREM RowsAreInPlace == Spec => []RowsInPlace
<1>1. RowsInv => RowsInPlace
  BY DEF RowsInv
<1>2. QED
  BY <1>1, CounterInit, CounterStep, RowsInit, RowsStep, PTL DEF Spec

\* The variables keep their types.
THEOREM MotorTypeOK == Spec => []TypeOK
<1>1. RowsInv => TypeOK
  BY DEF RowsInv
<1>2. QED
  BY <1>1, CounterInit, CounterStep, RowsInit, RowsStep, PTL DEF Spec
=============================================================================
