--------------------------- MODULE ControllerProofs ---------------------------
(***************************************************************************)
(* Proofs about the control loop, for every configuration that satisfies   *)
(* the assumptions of module Controller.                                   *)
(***************************************************************************)
EXTENDS Controller, TLAPS

-----------------------------------------------------------------------------
(* Lemmas about the operators the loop is built from *)

(* A bounded counter stays within its bound. *)
LEMMA BumpInRange ==
    ASSUME NEW cap \in Nat, NEW n \in 0 .. cap
    PROVE  Bump(n, cap) \in 0 .. cap
  BY DEF Bump

(* Whatever is clamped lies in the configured range. *)
LEMMA ClampInRange ==
    ASSUME NEW v
    PROVE  Clamp(v) \in MinFanPct .. MaxFanPct
  BY SmoothingAssumption DEF Clamp

(* Clamping leaves a value of the range alone. *)
LEMMA ClampIsIdentity ==
    ASSUME NEW v \in MinFanPct .. MaxFanPct
    PROVE  Clamp(v) = v
  BY DEF Clamp

(* A group's members are sensors. *)
LEMMA GroupedAreSensors == Grouped \subseteq Sensor
  BY ConfigAssumption DEF Grouped, EnabledGroup

(* One step of the ramp stays in the range, moves at most one step away    *)
(* from the commanded speed, and moves towards the desired one.            *)
LEMMA RampTowardBounded ==
    ASSUME NEW d \in MinFanPct .. MaxFanPct,
           commandedPct \in MinFanPct .. MaxFanPct,
           belowHold \in 0 .. RampDownHoldTicks
    PROVE  /\ RampToward(d) \in MinFanPct .. MaxFanPct
           /\ RampToward(d) <= commandedPct + MaxStepUpPct
           /\ RampToward(d) >= commandedPct - MaxStepDownPct
           /\ d > commandedPct => RampToward(d) > commandedPct
  <1>1. commandedPct # Unset
    BY SmoothingAssumption DEF Unset
  <1>2. CASE d > commandedPct + MaxStepUpPct
    <2>1. commandedPct + MaxStepUpPct \in MinFanPct .. MaxFanPct
      BY <1>2, SmoothingAssumption
    <2>2. RampToward(d) = commandedPct + MaxStepUpPct
      BY <1>1, <1>2, <2>1, ClampIsIdentity DEF RampToward
    <2> QED
      BY <2>1, <2>2, SmoothingAssumption
  <1>3. CASE d <= commandedPct + MaxStepUpPct /\ d >= commandedPct
    <2>1. RampToward(d) = d
      BY <1>1, <1>3, ClampIsIdentity, SmoothingAssumption DEF RampToward
    <2> QED
      BY <2>1, <1>3, SmoothingAssumption
  <1>4. CASE d < commandedPct
    <2>1. d <= commandedPct + MaxStepUpPct /\ ~(d >= commandedPct)
      BY <1>4, SmoothingAssumption
    <2>2. CASE Bump(belowHold, RampDownHoldTicks) < RampDownHoldTicks
      <3>1. RampToward(d) = commandedPct
        BY <1>1, <2>1, <2>2, ClampIsIdentity, SmoothingAssumption DEF RampToward
      <3> QED
        BY <3>1, <1>4, SmoothingAssumption
    <2>3. CASE /\ ~(Bump(belowHold, RampDownHoldTicks) < RampDownHoldTicks)
               /\ d < commandedPct - MaxStepDownPct
      <3>1. commandedPct - MaxStepDownPct \in MinFanPct .. MaxFanPct
        BY <2>3, SmoothingAssumption
      <3>2. RampToward(d) = commandedPct - MaxStepDownPct
        BY <1>1, <2>1, <2>3, <3>1, ClampIsIdentity, SmoothingAssumption DEF RampToward
      <3> QED
        BY <3>1, <3>2, <1>4, SmoothingAssumption
    <2>4. CASE /\ ~(Bump(belowHold, RampDownHoldTicks) < RampDownHoldTicks)
               /\ ~(d < commandedPct - MaxStepDownPct)
      <3>1. RampToward(d) = d
        BY <1>1, <2>1, <2>4, ClampIsIdentity, SmoothingAssumption DEF RampToward
      <3> QED
        BY <3>1, <1>4, <2>4, SmoothingAssumption
    <2> QED
      BY <2>2, <2>3, <2>4
  <1> QED
    BY <1>2, <1>3, <1>4, SmoothingAssumption

(* What the curves ask for always lies in the configured range. *)
LEMMA DesiredInRange == Desired \in MinFanPct .. MaxFanPct
  BY ClampInRange DEF Desired

(* One tick's ramp, from any state of the right types, ends in the range.  *)
LEMMA RampTowardInRange ==
    ASSUME NEW d
    PROVE  RampToward(d) \in MinFanPct .. MaxFanPct
  BY ClampInRange DEF RampToward

-----------------------------------------------------------------------------
(* Type correctness *)

(* Polling keeps the types of what it records. *)
LEMMA PollTypes ==
    ASSUME TypeOK, NEW ipmiOk \in BOOLEAN, NEW read \in SUBSET Active,
           Poll(ipmiOk, read)
    PROVE  /\ seen' \in SUBSET Sensor
           /\ raw' \in [Sensor -> Int]
           /\ ema' \in [Grouped -> Int]
           /\ stale' \in [Sensor -> 0 .. StaleCap]
           /\ consecutiveErr' \in 0 .. ErrCap
  <1>1. read \subseteq Sensor
    BY DEF Active
  <1>2. seen' \in SUBSET Sensor
    BY <1>1 DEF TypeOK, Poll
  <1>3. raw' \in [Sensor -> Int]
    <2>1. PICK value \in [read -> UNION {Readings[s] : s \in read}] :
             /\ \A s \in read : value[s] \in Readings[s]
             /\ raw' = [s \in Sensor |-> IF s \in read THEN value[s] ELSE raw[s]]
      BY DEF Poll
    <2>2. \A s \in read : value[s] \in Int
      BY <1>1, <2>1, ConfigAssumption
    <2> QED
      BY <2>1, <2>2 DEF TypeOK
  <1>4. ema' \in [Grouped -> Int]
    <2> DEFINE Smoothed(s) == IF s \notin read THEN {ema[s]}
                              ELSE IF s \notin seen THEN {raw'[s]}
                              ELSE EmaStep(ema[s], raw'[s])
    <2>1. ema' \in {e \in [Grouped -> UNION {Smoothed(s) : s \in Grouped}] :
                       \A s \in Grouped : e[s] \in Smoothed(s)}
      BY DEF Poll
    <2>2. \A s \in Grouped : Smoothed(s) \subseteq Int
      <3> SUFFICES ASSUME NEW s \in Grouped PROVE Smoothed(s) \subseteq Int
        OBVIOUS
      <3>1. ema[s] \in Int /\ raw'[s] \in Int
        BY <1>3, GroupedAreSensors DEF TypeOK
      <3> QED
        BY <3>1 DEF EmaStep
    <2>3. \A s \in Grouped : ema'[s] \in Int
      BY <2>1, <2>2
    <2>4. ema' = [s \in Grouped |-> ema'[s]]
      BY <2>1
    <2> QED
      BY <2>3, <2>4
  <1>5. stale' \in [Sensor -> 0 .. StaleCap]
    <2>1. StaleCap \in Nat
      BY SafetyAssumption DEF StaleCap
    <2>2. \A s \in Sensor : Bump(stale[s], StaleCap) \in 0 .. StaleCap
      BY <2>1, BumpInRange DEF TypeOK
    <2>3. stale' = [s \in Sensor |-> IF s \in read THEN 0
                                     ELSE IF s \in Active THEN Bump(stale[s], StaleCap)
                                     ELSE stale[s]]
      BY DEF Poll
    <2> QED
      BY <2>1, <2>2, <2>3 DEF TypeOK
  <1>6. consecutiveErr' \in 0 .. ErrCap
    <2>1. ErrCap \in Nat
      BY SafetyAssumption DEF ErrCap
    <2>2. Bump(consecutiveErr, ErrCap) \in 0 .. ErrCap
      BY <2>1, BumpInRange DEF TypeOK
    <2> QED
      BY <2>1, <2>2 DEF Poll
  <1> QED
    BY <1>2, <1>3, <1>4, <1>5, <1>6

(* So do the commands to the BMC. *)
LEMMA CommandTypes ==
    ASSUME bmcMode \in {"manual", "auto"},
           zonePct \in [Zone -> {Unset} \cup 0 .. 100]
    PROVE  /\ \A o : SetAutoMode(o) => /\ bmcMode' \in {"manual", "auto"}
                                       /\ zonePct' \in [Zone -> {Unset} \cup 0 .. 100]
           /\ \A o : SetManualMode(o) => /\ bmcMode' \in {"manual", "auto"}
                                         /\ zonePct' \in [Zone -> {Unset} \cup 0 .. 100]
           /\ \A p : SetFanPercent(p) => /\ bmcMode' \in {"manual", "auto"}
                                         /\ zonePct' \in [Zone -> {Unset} \cup 0 .. 100]
  <1>1. ASSUME NEW o, SetAutoMode(o)
        PROVE  bmcMode' \in {"manual", "auto"} /\ zonePct' \in [Zone -> {Unset} \cup 0 .. 100]
    BY <1>1 DEF SetAutoMode, bmc
  <1>2. ASSUME NEW o, SetManualMode(o)
        PROVE  bmcMode' \in {"manual", "auto"} /\ zonePct' \in [Zone -> {Unset} \cup 0 .. 100]
    BY <1>2 DEF SetManualMode
  <1>3. ASSUME NEW p, SetFanPercent(p)
        PROVE  bmcMode' \in {"manual", "auto"} /\ zonePct' \in [Zone -> {Unset} \cup 0 .. 100]
    BY <1>3 DEF SetFanPercent, bmc
  <1> QED
    BY <1>1, <1>2, <1>3

(* Every branch of a tick keeps the types of what it decides. *)
LEMMA DecideTypes ==
    ASSUME TypeOK, Decide
    PROVE  /\ fallbackActive' \in BOOLEAN
           /\ goodTicks' \in 0 .. RecoverGoodTicks
           /\ commandedPct' \in {Unset} \cup MinFanPct .. MaxFanPct
           /\ belowHold' \in 0 .. RampDownHoldTicks
           /\ bmcMode' \in {"manual", "auto"}
           /\ zonePct' \in [Zone -> {Unset} \cup 0 .. 100]
  <1> USE SafetyAssumption, SmoothingAssumption DEF TypeOK
  <1>1. CASE EngageFallback
    BY <1>1, CommandTypes DEF EngageFallback
  <1>2. CASE StayTripped
    BY <1>2 DEF StayTripped, control, bmc
  <1>3. CASE LoseProgress
    BY <1>3 DEF LoseProgress, bmc
  <1>4. CASE CountGoodTick
    BY <1>4, BumpInRange DEF CountGoodTick, bmc
  <1>5. CASE FailToResume
    BY <1>5, CommandTypes DEF FailToResume
  <1>6. CASE ResumeManual
    <2>1. /\ bmcMode' \in {"manual", "auto"}
          /\ zonePct' \in [Zone -> {Unset} \cup 0 .. 100]
      BY <1>6, CommandTypes DEF ResumeManual
    <2>2. goodTicks' = 0 /\ belowHold' = 0 /\ commandedPct' = commandedPct
      BY <1>6 DEF ResumeManual
    <2>3. fallbackActive' \in BOOLEAN
      <3>1. fallbackActive' = FALSE
        BY <1>6 DEF ResumeManual
      <3> QED
        BY <3>1, Zenon
    <2> QED
      BY <2>1, <2>2, <2>3
  <1>7. CASE HoldSpeed
    BY <1>7 DEF HoldSpeed, control, bmc
  <1>8. CASE Regulate
    <2>1. commandedPct' \in MinFanPct .. MaxFanPct
      BY <1>8, RampTowardInRange DEF Regulate
    <2>2. belowHold' \in 0 .. RampDownHoldTicks
      BY <1>8, BumpInRange DEF Regulate, HoldAfter
    <2>3. /\ bmcMode' \in {"manual", "auto"}
          /\ zonePct' \in [Zone -> {Unset} \cup 0 .. 100]
      BY <1>8, CommandTypes DEF Regulate, bmc
    <2> QED
      BY <1>8, <2>1, <2>2, <2>3 DEF Regulate
  <1> QED
    BY <1>1, <1>2, <1>3, <1>4, <1>5, <1>6, <1>7, <1>8 DEF Decide

LEMMA InitTypes == Init => TypeOK
  <1> SUFFICES ASSUME Init PROVE TypeOK
    OBVIOUS
  <1>1. fallbackActive \in BOOLEAN
    <2>1. fallbackActive = FALSE
      BY DEF Init, New
    <2> QED
      BY <2>1, Zenon
  <1>2. bmcMode \in {"manual", "auto"}
    BY DEF Init, New
  <1>3. StaleCap \in Nat /\ ErrCap \in Nat
    BY SafetyAssumption DEF StaleCap, ErrCap
  <1>4. /\ seen \in SUBSET Sensor
        /\ raw \in [Sensor -> Int]
        /\ ema \in [Grouped -> Int]
        /\ stale \in [Sensor -> 0 .. StaleCap]
        /\ consecutiveErr \in 0 .. ErrCap
    BY <1>3 DEF Init, New
  <1>5. /\ goodTicks \in 0 .. RecoverGoodTicks
        /\ commandedPct \in {Unset} \cup MinFanPct .. MaxFanPct
        /\ belowHold \in 0 .. RampDownHoldTicks
        /\ zonePct \in [Zone -> {Unset} \cup 0 .. 100]
    BY SafetyAssumption, SmoothingAssumption DEF Init, New
  <1> QED
    BY <1>1, <1>2, <1>4, <1>5 DEF TypeOK

LEMMA NextTypes == TypeOK /\ [Next]_vars => TypeOK'
  <1> SUFFICES ASSUME TypeOK, [Next]_vars PROVE TypeOK'
    OBVIOUS
  <1>1. CASE Next
    <2>1. PICK ipmiOk \in BOOLEAN, read \in SUBSET Active : Tick(ipmiOk, read)
      BY <1>1 DEF Next
    <2>2. Poll(ipmiOk, read) /\ Decide
      BY <2>1 DEF Tick
    <2> QED
      BY <2>2, PollTypes, DecideTypes DEF TypeOK
  <1>2. CASE UNCHANGED vars
    BY <1>2 DEF vars, sensed, control, bmc, TypeOK
  <1> QED
    BY <1>1, <1>2

(* Every variable of the control loop keeps its type: in particular the    *)
(* commanded speed never leaves the configured range, and no zone is ever  *)
(* set to anything but a percentage.                                       *)
THEOREM TypeCorrect == Spec => []TypeOK
  BY InitTypes, NextTypes, PTL DEF Spec

-----------------------------------------------------------------------------
(* Who is in charge *)

LEMMA ChargeKept ==
    ASSUME InChargeOnlyInManual, Decide
    PROVE  InChargeOnlyInManual'
  <1> SUFFICES ASSUME ~fallbackActive', ~DryRun PROVE bmcMode' = "manual"
    BY DEF InChargeOnlyInManual
  <1>1. CASE EngageFallback
    BY <1>1 DEF EngageFallback
  <1>2. CASE StayTripped
    BY <1>2 DEF StayTripped, control
  <1>3. CASE LoseProgress
    BY <1>3 DEF LoseProgress
  <1>4. CASE CountGoodTick
    BY <1>4 DEF CountGoodTick
  <1>5. CASE FailToResume
    BY <1>5 DEF FailToResume
  <1>6. CASE ResumeManual
    <2>1. PICK o \in Outcome : ~Failed(o) /\ SetManualMode(o)
      BY <1>6 DEF ResumeManual
    <2>2. o = "done"
      BY <2>1, DriverAssumption DEF Outcome, Failed
    <2> QED
      BY <2>1, <2>2 DEF SetManualMode, TakesEffect
  <1>7. CASE HoldSpeed
    BY <1>7 DEF HoldSpeed, control, bmc, InChargeOnlyInManual
  <1>8. CASE Regulate
    BY <1>8 DEF Regulate, SetFanPercent, bmc, InChargeOnlyInManual
  <1> QED
    BY <1>1, <1>2, <1>3, <1>4, <1>5, <1>6, <1>7, <1>8 DEF Decide

(* A dry run sends nothing. *)
LEMMA DryRunKept ==
    ASSUME DryRunLeavesBMC, Decide
    PROVE  DryRunLeavesBMC'
  <1> SUFFICES ASSUME DryRun PROVE UNCHANGED bmc
    BY DEF DryRunLeavesBMC, bmc
  <1>1. ASSUME NEW o \in Outcome PROVE ~TakesEffect(o)
    BY <1>1 DEF Outcome, TakesEffect
  <1>2. CASE EngageFallback
    BY <1>1, <1>2 DEF EngageFallback, SetAutoMode
  <1>3. CASE FailToResume
    BY <1>1, <1>3 DEF FailToResume, SetManualMode, bmc
  <1>4. CASE ResumeManual
    BY <1>1, <1>4 DEF ResumeManual, SetManualMode, bmc
  <1>5. CASE Regulate
    BY <1>5 DEF Regulate, SetFanPercent
  <1> QED
    BY <1>2, <1>3, <1>4, <1>5 DEF Decide, StayTripped, LoseProgress, CountGoodTick, HoldSpeed

LEMMA NoSpeedKept ==
    ASSUME NoSpeedInFallback, Decide
    PROVE  NoSpeedInFallback'
  BY DEF NoSpeedInFallback, Decide, EngageFallback, StayTripped, LoseProgress,
         CountGoodTick, FailToResume, ResumeManual, HoldSpeed, Regulate, control

LEMMA DistinctAreApart ==
    ASSUME NEW a \in Int, NEW b \in Int, Distance(a, b) < 1
    PROVE  a = b
  BY DEF Distance

(* Rounding a speed of at most 100 percent gives a percentage. *)
LEMMA RoundIsPercent ==
    ASSUME NEW p \in 0 .. 100 * Unit
    PROVE  Round(p) \in 0 .. 100
  <1> DEFINE half == Unit \div 2
             q    == (p + half) \div Unit
  <1>1. Unit \in Nat /\ Unit > 0
    BY SmoothingAssumption
  <1>2. half \in Nat /\ half < Unit
    BY <1>1
  <1>3. p \in Nat /\ p <= 100 * Unit
    BY <1>1
  <1>4. q \in Int /\ Unit * q <= p + half /\ p + half < Unit * (q + 1)
    BY <1>1, <1>2, <1>3
  <1>5. Unit * q < Unit * 101
    BY <1>1, <1>2, <1>3, <1>4
  <1>6. Unit * 0 < Unit * (q + 1)
    BY <1>1, <1>2, <1>3, <1>4
  <1>7. q < 101 /\ 0 < q + 1
    BY <1>1, <1>4, <1>5, <1>6
  <1> QED
    BY <1>4, <1>7 DEF Round

(* A regulating tick sends what it commands, to all zones at once, unless  *)
(* nothing changes.                                                        *)
LEMMA ZonesKept ==
    ASSUME TypeOK, NoSpeedInFallback, InChargeOnlyInManual, ZonesFollowCommanded, Decide
    PROVE  ZonesFollowCommanded'
  <1> SUFFICES ASSUME Faults = {}, ~DryRun, MinChangePct <= 1, MaxFanPct <= 100 * Unit,
                      commandedPct' # Unset,
                      NEW z \in Zone
               PROVE  zonePct'[z] = Round(commandedPct')
    BY DEF ZonesFollowCommanded, Round
  <1>1. commandedPct # Unset => zonePct[z] = Round(commandedPct)
    BY DEF ZonesFollowCommanded
  <1>2. CASE Regulate
    <2>1. commandedPct' \in MinFanPct .. MaxFanPct
      BY <1>2, RampTowardInRange DEF Regulate
    <2>2. Round(commandedPct') \in 0 .. 100
      BY <2>1, RoundIsPercent, SmoothingAssumption
    <2>3. CASE commandedPct = Unset \/ Distance(commandedPct', commandedPct) >= MinChangePct
      <3>1. SetFanPercent(Round(commandedPct'))
        BY <1>2, <2>3 DEF Regulate
      <3>2. bmcMode = "manual"
        BY <1>2 DEF Regulate, InChargeOnlyInManual
      <3>3. z <= NumZones
        BY DriverAssumption DEF Zone
      <3>4. ZonesReached = {NumZones}
        BY DEF ZonesReached
      <3>5. zonePct' = [y \in Zone |-> IF y <= NumZones /\ bmcMode = "manual"
                                       THEN Round(commandedPct') ELSE zonePct[y]]
        BY <2>2, <3>1, <3>4 DEF SetFanPercent
      <3> QED
        BY <3>2, <3>3, <3>5
    <2>4. CASE ~(commandedPct = Unset \/ Distance(commandedPct', commandedPct) >= MinChangePct)
      <3>1. commandedPct \in MinFanPct .. MaxFanPct
        BY <2>4 DEF TypeOK
      <3>2. commandedPct' = commandedPct
        <4>1. commandedPct' \in Int /\ commandedPct \in Int
          BY <2>1, <3>1, SmoothingAssumption
        <4>2. Distance(commandedPct', commandedPct) \in Int
          BY <4>1 DEF Distance
        <4>3. Distance(commandedPct', commandedPct) < 1
          BY <2>4, <4>2, SmoothingAssumption
        <4> QED
          BY <4>1, <4>3, DistinctAreApart
      <3>3. zonePct' = zonePct
        BY <1>2, <2>4 DEF Regulate, bmc
      <3> QED
        BY <1>1, <2>4, <3>2, <3>3
    <2> QED
      BY <2>3, <2>4
  <1>3. CASE HoldSpeed
    BY <1>1, <1>3 DEF HoldSpeed, control, bmc
  <1>4. CASE EngageFallback
    BY <1>4 DEF EngageFallback
  <1>5. CASE StayTripped
    BY <1>5 DEF StayTripped, control, NoSpeedInFallback
  <1>6. CASE LoseProgress \/ CountGoodTick \/ FailToResume \/ ResumeManual
    BY <1>6 DEF LoseProgress, CountGoodTick, FailToResume, ResumeManual, NoSpeedInFallback
  <1> QED
    BY <1>2, <1>3, <1>4, <1>5, <1>6 DEF Decide

-----------------------------------------------------------------------------
(* The inductive invariant *)

LEMMA InitIInv == Init => IInv
  <1> SUFFICES ASSUME Init PROVE IInv
    OBVIOUS
  <1>1. fallbackActive = FALSE /\ commandedPct = Unset /\ zonePct = [z \in Zone |-> Unset]
    BY DEF Init, New
  <1>2. bmcMode = IF DryRun THEN "auto" ELSE "manual"
    BY DEF Init, New
  <1> QED
    BY <1>1, <1>2, InitTypes
       DEF IInv, NoSpeedInFallback, InChargeOnlyInManual, DryRunLeavesBMC,
           ZonesFollowCommanded

LEMMA NextIInv == IInv /\ [Next]_vars => IInv'
  <1> SUFFICES ASSUME IInv, [Next]_vars PROVE IInv'
    OBVIOUS
  <1>1. TypeOK'
    BY NextTypes DEF IInv
  <1>2. CASE Next
    <2>1. Decide
      BY <1>2 DEF Next, Tick
    <2> QED
      BY <1>1, <2>1, NoSpeedKept, ChargeKept, DryRunKept, ZonesKept DEF IInv
  <1>3. CASE UNCHANGED vars
    BY <1>1, <1>3
       DEF IInv, NoSpeedInFallback, InChargeOnlyInManual, DryRunLeavesBMC, ZonesFollowCommanded,
           Round, vars, control, bmc
  <1> QED
    BY <1>2, <1>3

THEOREM Invariance == Spec => []IInv
  BY InitIInv, NextIInv, PTL DEF Spec

(* Whatever commands fail, and whether or not the BMC carried the failed   *)
(* ones out: while the daemon believes itself in charge the BMC is in      *)
(* manual mode.                                                            *)
THEOREM ChargeIsReal == Spec => []InChargeOnlyInManual
  <1>1. IInv => InChargeOnlyInManual
    BY DEF IInv
  <1> QED
    BY <1>1, Invariance, PTL

(* If no command can fail and every change is sent, all zones always have  *)
(* the speed that is reported as commanded.                                *)
THEOREM ZonesAreCommanded == Spec => []ZonesFollowCommanded
  <1>1. IInv => ZonesFollowCommanded
    BY DEF IInv
  <1> QED
    BY <1>1, Invariance, PTL

-----------------------------------------------------------------------------
(* The fail-safe promise *)

LEMMA InitFailsSafe == Init => FS!FSInit
  <1> SUFFICES ASSUME Init PROVE FS!FSInit
    OBVIOUS
  <1>1. ~(consecutiveErr >= MaxConsecutiveErrors)
    BY SafetyAssumption DEF Init, New
  <1>2. ~ \E s \in RequiredSet : stale[s] > MaxConsecutiveErrors
    BY SafetyAssumption DEF Init, New, RequiredSet, Active
  <1>3. ~SafetyTrip
    BY <1>1, <1>2 DEF SafetyTrip, Init, New
  <1> QED
    BY <1>3 DEF FS!FSInit, FS!Unset, Init, New, Unset

(* Every branch of a tick is a step that the promise allows. *)
LEMMA DecideFailsSafe ==
    ASSUME TypeOK, NoSpeedInFallback, Decide
    PROVE  FS!FSNext
  <1>1. CASE EngageFallback
    <2>1. FS!HandOver
      BY <1>1 DEF EngageFallback, FS!HandOver, FS!Unset, Unset
    <2> QED
      BY <2>1 DEF FS!FSNext
  <1>2. CASE StayTripped
    <2>1. FS!HandOver
      BY <1>2 DEF StayTripped, control, NoSpeedInFallback, FS!HandOver, FS!Unset, Unset
    <2> QED
      BY <2>1 DEF FS!FSNext
  <1>3. CASE LoseProgress
    <2>1. FS!Wait
      BY <1>3 DEF LoseProgress, FS!Wait
    <2> QED
      BY <2>1 DEF FS!FSNext
  <1>4. CASE CountGoodTick
    <2>1. FS!Wait
      BY <1>4 DEF CountGoodTick, FS!Wait
    <2> QED
      BY <2>1 DEF FS!FSNext
  <1>5. CASE FailToResume
    <2>1. FS!Wait
      BY <1>5 DEF FailToResume, FS!Wait
    <2> QED
      BY <2>1 DEF FS!FSNext
  <1>6. CASE ResumeManual
    <2>1. FS!TakeBack
      BY <1>6 DEF ResumeManual, FS!TakeBack
    <2> QED
      BY <2>1 DEF FS!FSNext
  <1>7. CASE HoldSpeed
    <2>1. ~fallbackActive /\ ~fallbackActive' /\ ~SafetyTrip' /\ commandedPct' = commandedPct
      BY <1>7 DEF HoldSpeed, control
    <2>2. \/ commandedPct = Unset
          \/ /\ commandedPct \in MinFanPct .. MaxFanPct
             /\ commandedPct \in commandedPct - MaxStepDownPct .. commandedPct + MaxStepUpPct
      BY SmoothingAssumption DEF TypeOK
    <2>3. FS!Drive
      BY <2>1, <2>2, SmoothingAssumption DEF FS!Drive, FS!Unset, Unset
    <2> QED
      BY <2>3 DEF FS!FSNext
  <1>8. CASE Regulate
    <2>1. ~fallbackActive /\ ~fallbackActive' /\ ~SafetyTrip'
      BY <1>8 DEF Regulate
    <2>2. commandedPct' = RampToward(Desired') /\ Desired' \in MinFanPct .. MaxFanPct
      BY <1>8, DesiredInRange, ClampInRange DEF Regulate, Desired
    <2>3. commandedPct' \in MinFanPct .. MaxFanPct
      BY <2>2, RampTowardInRange
    <2>4. commandedPct # Unset =>
             commandedPct' \in commandedPct - MaxStepDownPct .. commandedPct + MaxStepUpPct
      BY <2>2, <2>3, RampTowardBounded, SmoothingAssumption DEF TypeOK
    <2>5. FS!Drive
      BY <2>1, <2>3, <2>4, SmoothingAssumption DEF FS!Drive, FS!Unset, Unset
    <2> QED
      BY <2>5 DEF FS!FSNext
  <1> QED
    BY <1>1, <1>2, <1>3, <1>4, <1>5, <1>6, <1>7, <1>8 DEF Decide

(* The control loop implements the safety of FailSafe: danger always means *)
(* the iDRAC is in charge and no speed is claimed, control comes back only *)
(* on a clear tick, and the speed moves by at most one step per tick.      *)
THEOREM LoopFailsSafe == Spec => FailsSafe
  <1>1. Init => FS!FSInit
    BY InitFailsSafe
  <1>2. IInv /\ [Next]_vars => [FS!FSNext]_(FS!fsVars)
    <2> SUFFICES ASSUME IInv, [Next]_vars PROVE [FS!FSNext]_(FS!fsVars)
      OBVIOUS
    <2>1. CASE Next
      BY <2>1, DecideFailsSafe DEF Next, Tick, IInv
    <2>2. CASE UNCHANGED vars
      BY <2>2 DEF vars, sensed, control, bmc, FS!fsVars, SafetyTrip, SafetyClear,
                  FanTooSlow, TooHot
    <2> QED
      BY <2>1, <2>2
  <1> QED
    BY <1>1, <1>2, Invariance, PTL DEF Spec, FailsSafe, FS!Safety

(* A demand above the commanded speed is met with a higher speed in the    *)
(* same tick, whatever is being held back.                                 *)
THEOREM LoopRisesAtOnce == Spec => RisesAtOnce
  <1> DEFINE Rises == /\ ~fallbackActive /\ ~SafetyTrip' /\ commandedPct # Unset
                      /\ HasDemand' /\ Desired' > commandedPct
                      => commandedPct' > commandedPct
  <1>1. IInv /\ [Next]_vars => [Rises]_vars
    <2> SUFFICES ASSUME IInv, Next,
                        ~fallbackActive, ~SafetyTrip', commandedPct # Unset,
                        HasDemand', Desired' > commandedPct
                 PROVE  commandedPct' > commandedPct
      OBVIOUS
    <2>1. Regulate
      BY DEF Next, Tick, Decide, EngageFallback, StayTripped, LoseProgress, CountGoodTick,
             FailToResume, ResumeManual, HoldSpeed
    <2>2. commandedPct' = RampToward(Desired') /\ Desired' \in MinFanPct .. MaxFanPct
      BY <2>1, DesiredInRange, ClampInRange DEF Regulate, Desired
    <2> QED
      BY <2>2, RampTowardBounded DEF IInv, TypeOK
  <1> QED
    BY <1>1, Invariance, PTL DEF Spec, RisesAtOnce
=============================================================================
