----------------------------- MODULE Controller -----------------------------
(***************************************************************************)
(* The control loop of the daemon (internal/control): each tick polls the  *)
(* sensors, falls back to the iDRAC's own fan control when the readings    *)
(* are unsafe or missing, recovers from that after a number of good ticks, *)
(* and otherwise moves the commanded fan percent towards what the fan      *)
(* curves ask for.  The loop is sequential, so a whole tick is one step;   *)
(* its inputs (what each sensor reported, which commands failed) are       *)
(* chosen nondeterministically.                                            *)
(*                                                                         *)
(* Temperatures, fan speeds and percents are integers; Unit model units    *)
(* make one percent of fan speed, the unit the BMC is commanded in.        *)
(***************************************************************************)
EXTENDS FanCurve, FiniteSetsExt

CONSTANTS
    Sensor,        \* the ids of the configured sensors
    SensorCfg,     \* their settings: source, class, required, disabled, critC, minRPM
    Group,         \* the names of the configured groups
    GroupCfg,      \* their settings: enabled, sensors, aggregation, curve
    Readings,      \* the values each sensor may report
    GlobalCritC, RecoverHysteresisC, RecoverGoodTicks, MaxConsecutiveErrors,
    MinFanPct, MaxFanPct, MaxStepUpPct, MaxStepDownPct, MinChangePct,
    RampDownHoldTicks,
    Unit,          \* model units per percent
    NumZones,      \* the fan zones, commanded one after another
    DryRun,        \* --dry-run: no command reaches the BMC
    Faults         \* how an ipmitool command may fail: "lost", "late"

Source      == {"ipmi", "smart"}
Aggregation == {"avg", "max", "min"}
\* The classes whose readings safetyTrip and safetyClear compare to a limit
GuardedTemp == {"cpu", "inlet", "exhaust", "board", "disk"}

(* What the code relies on: the shapes of the configuration; of its        *)
(* numbers only what Config.Validate requires (0 < steps, min < max).      *)
ASSUME ConfigAssumption ==
    /\ \A s \in Sensor :
          /\ SensorCfg[s].source \in Source
          /\ SensorCfg[s].required \in BOOLEAN
          /\ SensorCfg[s].disabled \in BOOLEAN
          /\ SensorCfg[s].critC \in Int
          /\ SensorCfg[s].minRPM \in Int
          /\ Readings[s] \subseteq Int
    /\ \A g \in Group :
          /\ GroupCfg[g].enabled \in BOOLEAN
          /\ GroupCfg[g].sensors \subseteq Sensor
          /\ GroupCfg[g].aggregation \in Aggregation
          /\ GroupCfg[g].enabled => ValidCurve(GroupCfg[g].curve)

ASSUME SafetyAssumption ==
    /\ GlobalCritC \in Int
    /\ RecoverHysteresisC \in Nat
    /\ RecoverGoodTicks \in Nat \ {0}
    /\ MaxConsecutiveErrors \in Nat \ {0}

ASSUME SmoothingAssumption ==
    /\ MinFanPct \in Nat /\ MaxFanPct \in Nat /\ MinFanPct < MaxFanPct
    /\ MaxStepUpPct \in Nat \ {0} /\ MaxStepDownPct \in Nat \ {0}
    /\ MinChangePct \in Nat
    /\ RampDownHoldTicks \in Nat
    /\ Unit \in Nat \ {0}

ASSUME DriverAssumption ==
    /\ NumZones \in Nat \ {0}
    /\ DryRun \in BOOLEAN
    /\ Faults \subseteq {"lost", "late"}

VARIABLES
    seen,            \* sensors that have reported since the start (haveRaw, emaInit)
    raw,             \* their last reported value
    ema,             \* the smoothed value of each sensor a group uses
    stale,           \* ticks since each sensor reported
    consecutiveErr,  \* ipmitool sensor polls that failed in a row
    fallbackActive,  \* has control been handed to the iDRAC?
    goodTicks,       \* clear ticks counted towards recovery
    commandedPct,    \* the speed the loop believes it commanded, or Unset
    belowHold,       \* ticks in a row that asked for a lower speed
    bmcMode,         \* the BMC: "manual", or "auto" (the iDRAC drives the fans)
    zonePct          \* the BMC: percent each zone is set to, or Unset

sensed  == <<seen, raw, ema, stale, consecutiveErr>>
control == <<fallbackActive, goodTicks, commandedPct, belowHold>>
bmc     == <<bmcMode, zonePct>>
vars    == <<sensed, control, bmc>>

Unset == -1

Active       == {s \in Sensor : ~SensorCfg[s].disabled}
RequiredSet  == {s \in Active : SensorCfg[s].required}
EnabledGroup == {g \in Group : GroupCfg[g].enabled}
Grouped      == UNION {GroupCfg[g].sensors : g \in EnabledGroup}
Zone         == 1 .. NumZones

(* The counters are only compared with their limits, so each is kept at    *)
(* most one past the last value that makes a difference.                   *)
StaleCap == MaxConsecutiveErrors + 1
ErrCap   == MaxConsecutiveErrors
Bump(n, cap) == IF n < cap THEN n + 1 ELSE cap

-----------------------------------------------------------------------------
(* Polling *)

(* recordReading's moving average: for every weight in (0, 1] the new      *)
(* average lies strictly nearer to the reading than the old one, and may   *)
(* reach it.                                                               *)
EmaStep(average, reading) ==
    IF average < reading THEN average + 1 .. reading
    ELSE IF average > reading THEN reading .. average - 1
    ELSE {reading}

(* poll: one ipmitool call for all the IPMI sensors, one smartctl call per *)
(* disk.  read is the set of sensors that reported; if the ipmitool call   *)
(* failed no IPMI sensor is among them.                                    *)
Poll(ipmiOk, read) ==
    /\ \A s \in read : SensorCfg[s].source = "ipmi" => ipmiOk
    /\ consecutiveErr' = IF ipmiOk THEN 0 ELSE Bump(consecutiveErr, ErrCap)
    /\ stale' = [s \in Sensor |-> IF s \in read THEN 0
                                  ELSE IF s \in Active THEN Bump(stale[s], StaleCap)
                                  ELSE stale[s]]
    /\ seen' = seen \cup read
    /\ \E value \in [read -> UNION {Readings[s] : s \in read}] :
          /\ \A s \in read : value[s] \in Readings[s]
          /\ raw' = [s \in Sensor |-> IF s \in read THEN value[s] ELSE raw[s]]
    /\ LET Smoothed(s) == IF s \notin read THEN {ema[s]}
                          ELSE IF s \notin seen THEN {raw'[s]}
                          ELSE EmaStep(ema[s], raw'[s])
       IN  ema' \in {e \in [Grouped -> UNION {Smoothed(s) : s \in Grouped}] :
                        \A s \in Grouped : e[s] \in Smoothed(s)}

-----------------------------------------------------------------------------
(* Judging the readings *)

Limit(s) == IF SensorCfg[s].critC > 0 THEN SensorCfg[s].critC ELSE GlobalCritC

FanTooSlow(s) == /\ SensorCfg[s].class = "fan_rpm"
                 /\ SensorCfg[s].minRPM > 0
                 /\ raw[s] < SensorCfg[s].minRPM

TooHot(s, margin) == /\ SensorCfg[s].class \in GuardedTemp
                     /\ Limit(s) > 0
                     /\ raw[s] >= Limit(s) - margin

\* Mutation: a sensor that never reported is skipped before its staleness is judged
TripOnSeenOnly ==
    \/ consecutiveErr >= MaxConsecutiveErrors
    \/ \E s \in RequiredSet \cap seen : stale[s] > MaxConsecutiveErrors
    \/ \E s \in Active \cap seen : FanTooSlow(s) \/ TooHot(s, 0)

SafetyTrip ==
    \/ consecutiveErr >= MaxConsecutiveErrors
    \/ \E s \in RequiredSet : stale[s] > MaxConsecutiveErrors
    \/ \E s \in Active \cap seen : FanTooSlow(s) \/ TooHot(s, 0)

\* Mutation: an old reading counts as a clear one
ClearOnOldReadings ==
    /\ consecutiveErr = 0
    /\ RequiredSet \subseteq seen
    /\ \A s \in Active \cap seen : ~FanTooSlow(s) /\ ~TooHot(s, RecoverHysteresisC)

SafetyClear ==
    /\ consecutiveErr = 0
    /\ \A s \in RequiredSet : stale[s] = 0 /\ s \in seen
    /\ \A s \in Active \cap seen : ~FanTooSlow(s) /\ ~TooHot(s, RecoverHysteresisC)

-----------------------------------------------------------------------------
(* From readings to a fan percent *)

\* For every integer v this is v forced into the configured range
Clamp(v) == IF v \in MinFanPct .. MaxFanPct THEN v
            ELSE IF v > MaxFanPct THEN MaxFanPct ELSE MinFanPct

Distance(a, b) == IF a < b THEN b - a ELSE a - b

Reporting(g) == GroupCfg[g].sensors \cap seen

(* aggregate: over every member that ever reported, however long ago *)
Aggregate(g) ==
    LET values == {ema[s] : s \in Reporting(g)}
    IN  CASE GroupCfg[g].aggregation = "max" -> Max(values)
          [] GroupCfg[g].aggregation = "min" -> Min(values)
          [] GroupCfg[g].aggregation = "avg" ->
                MapThenSumSet(LAMBDA s : ema[s], Reporting(g))
                    \div Cardinality(Reporting(g))

HasDemand == \E g \in EnabledGroup : Reporting(g) # {}

(* The highest percent any group asks for, within the configured range *)
Desired ==
    LET summary == {<<g, Aggregate(g)>> : g \in {g \in EnabledGroup : Reporting(g) # {}}}
    IN  Clamp(Max({0} \cup {Interpolate(GroupCfg[v[1]].curve, v[2]) : v \in summary}))

\* Mutations: no step limit; steps that overshoot; a hold on both directions
RampUnlimited(desired) == Clamp(desired)

RampOvershooting(desired) ==
    IF commandedPct = Unset THEN Clamp(desired)
    ELSE IF desired > commandedPct THEN Clamp(commandedPct + MaxStepUpPct)
    ELSE IF desired < commandedPct THEN Clamp(commandedPct - MaxStepDownPct)
    ELSE commandedPct

RampHeldBothWays(desired) ==
    IF commandedPct = Unset THEN Clamp(desired)
    ELSE IF Bump(belowHold, RampDownHoldTicks) < RampDownHoldTicks THEN commandedPct
    ELSE Clamp(desired)

(* rampToward: at most one step, and downwards only once enough ticks in a *)
(* row have asked for it                                                   *)
RampToward(desired) ==
    IF commandedPct = Unset THEN Clamp(desired)
    ELSE IF desired > commandedPct + MaxStepUpPct THEN Clamp(commandedPct + MaxStepUpPct)
    ELSE IF desired >= commandedPct THEN Clamp(desired)
    ELSE IF Bump(belowHold, RampDownHoldTicks) < RampDownHoldTicks THEN Clamp(commandedPct)
    ELSE IF desired < commandedPct - MaxStepDownPct THEN Clamp(commandedPct - MaxStepDownPct)
    ELSE Clamp(desired)

\* Mutation: a tick that asks for more does not start the hold anew
HoldNotReset(desired) ==
    IF commandedPct # Unset /\ desired < commandedPct
    THEN Bump(belowHold, RampDownHoldTicks)
    ELSE belowHold

HoldAfter(desired) ==
    IF commandedPct # Unset /\ desired < commandedPct
    THEN Bump(belowHold, RampDownHoldTicks)
    ELSE 0

Round(pct) == (pct + Unit \div 2) \div Unit

-----------------------------------------------------------------------------
(* Commanding the BMC *)

(* An ipmitool command is "done"; or it fails, having been "lost" on the   *)
(* way to the BMC, or "late": the BMC carried it out, but the answer was   *)
(* not in time.  A dry run skips every command and reports no error.       *)
Outcome == IF DryRun THEN {"skipped"} ELSE {"done"} \cup Faults

TakesEffect(o) == o \in {"done", "late"}

\* Mutation: the error of a command is not looked at
ErrorIgnored(o) == FALSE

Failed(o) == o \in {"lost", "late"}

SetManualMode(o) ==
    /\ bmcMode' = IF TakesEffect(o) THEN "manual" ELSE bmcMode
    /\ UNCHANGED zonePct

(* While the iDRAC drives the fans no zone has a speed of the daemon's *)
SetAutoMode(o) ==
    IF TakesEffect(o)
    THEN bmcMode' = "auto" /\ zonePct' = [z \in Zone |-> Unset]
    ELSE UNCHANGED bmc

\* Mutation: the loop ends one zone early
OneZoneShort == {NumZones - 1}

(* The loop over the zones ends at the first failure: the zones before it  *)
(* are set, the one that failed is set if its command was only late.       *)
ZonesReached ==
    {NumZones} \cup (IF "lost" \in Faults THEN 0 .. NumZones - 1 ELSE {})
               \cup (IF "late" \in Faults THEN 1 .. NumZones ELSE {})

SetFanPercent(pct) ==
    IF DryRun \/ pct \notin 0 .. 100
    THEN UNCHANGED bmc
    ELSE /\ \E n \in ZonesReached :
               zonePct' = [z \in Zone |-> IF z <= n /\ bmcMode = "manual"
                                          THEN pct ELSE zonePct[z]]
         /\ UNCHANGED bmcMode

-----------------------------------------------------------------------------
(* The branches of a tick.  Each judges the readings this tick has polled, *)
(* hence the primes.                                                       *)

\* Mutation: the speed commanded last is kept through the fallback
EngageKeepingSpeed ==
    /\ SafetyTrip' /\ ~fallbackActive
    /\ \E o \in Outcome : SetAutoMode(o)
    /\ fallbackActive' = TRUE
    /\ goodTicks' = 0
    /\ UNCHANGED <<commandedPct, belowHold>>

\* A failure of the command is only logged.
EngageFallback ==
    /\ SafetyTrip' /\ ~fallbackActive
    /\ \E o \in Outcome : SetAutoMode(o)
    /\ fallbackActive' = TRUE
    /\ commandedPct' = Unset
    /\ goodTicks' = 0
    /\ UNCHANGED belowHold

\* Nothing is done, and the count of good ticks is kept.
StayTripped ==
    /\ SafetyTrip' /\ fallbackActive
    /\ UNCHANGED <<control, bmc>>

\* Neither unsafe nor clear by the hysteresis margin
LoseProgress ==
    /\ ~SafetyTrip' /\ fallbackActive /\ ~SafetyClear'
    /\ goodTicks' = 0
    /\ UNCHANGED <<fallbackActive, commandedPct, belowHold, bmc>>

\* Mutation: the count of good ticks never grows
ForgetGoodTick ==
    /\ ~SafetyTrip' /\ fallbackActive /\ SafetyClear'
    /\ goodTicks' = 0
    /\ goodTicks' < RecoverGoodTicks
    /\ UNCHANGED <<fallbackActive, commandedPct, belowHold, bmc>>

CountGoodTick ==
    /\ ~SafetyTrip' /\ fallbackActive /\ SafetyClear'
    /\ goodTicks' = Bump(goodTicks, RecoverGoodTicks)
    /\ goodTicks' < RecoverGoodTicks
    /\ UNCHANGED <<fallbackActive, commandedPct, belowHold, bmc>>

\* Enough good ticks, but the command failed: the next good tick tries again.
FailToResume ==
    /\ ~SafetyTrip' /\ fallbackActive /\ SafetyClear'
    /\ Bump(goodTicks, RecoverGoodTicks) = RecoverGoodTicks
    /\ \E o \in Outcome : Failed(o) /\ SetManualMode(o)
    /\ goodTicks' = RecoverGoodTicks
    /\ UNCHANGED <<fallbackActive, commandedPct, belowHold>>

ResumeManual ==
    /\ ~SafetyTrip' /\ fallbackActive /\ SafetyClear'
    /\ Bump(goodTicks, RecoverGoodTicks) = RecoverGoodTicks
    /\ \E o \in Outcome : ~Failed(o) /\ SetManualMode(o)
    /\ fallbackActive' = FALSE
    /\ goodTicks' = 0
    /\ belowHold' = 0
    /\ UNCHANGED commandedPct

\* No sensor of an enabled group has ever reported.
HoldSpeed ==
    /\ ~SafetyTrip' /\ ~fallbackActive /\ ~HasDemand'
    /\ UNCHANGED <<control, bmc>>

\* Small changes are not sent, and a failure to send is only logged; either
\* way the new percent counts as commanded.
Regulate ==
    /\ ~SafetyTrip' /\ ~fallbackActive /\ HasDemand'
    /\ \E desired \in {Desired'} : /\ commandedPct' = RampToward(desired)
                                   /\ belowHold' = HoldAfter(desired)
    /\ IF commandedPct = Unset \/ Distance(commandedPct', commandedPct) >= MinChangePct
       THEN SetFanPercent(Round(commandedPct'))
       ELSE UNCHANGED bmc
    /\ UNCHANGED <<fallbackActive, goodTicks>>

Decide ==
    \/ EngageFallback \/ StayTripped
    \/ LoseProgress \/ CountGoodTick \/ FailToResume \/ ResumeManual
    \/ HoldSpeed \/ Regulate

Tick(ipmiOk, read) == Poll(ipmiOk, read) /\ Decide

-----------------------------------------------------------------------------
New ==
    /\ seen = {}
    /\ raw = [s \in Sensor |-> 0]
    /\ ema = [s \in Grouped |-> 0]
    /\ stale = [s \in Sensor |-> 0]
    /\ consecutiveErr = 0
    /\ fallbackActive = FALSE
    /\ goodTicks = 0
    /\ commandedPct = Unset
    /\ belowHold = 0

(* The loop as New makes it, and the BMC as Run's enterManual leaves it *)
Init ==
    /\ New
    /\ bmcMode = IF DryRun THEN "auto" ELSE "manual"
    /\ zonePct = [z \in Zone |-> Unset]

Next == \E ipmiOk \in BOOLEAN, read \in SUBSET Active : Tick(ipmiOk, read)

(* The ticker fires for as long as the daemon runs. *)
Spec == Init /\ [][Next]_vars /\ WF_vars(Next)

-----------------------------------------------------------------------------
(* Properties *)

TypeOK ==
    /\ seen \in SUBSET Sensor
    /\ raw \in [Sensor -> Int]
    /\ ema \in [Grouped -> Int]
    /\ stale \in [Sensor -> 0 .. StaleCap]
    /\ consecutiveErr \in 0 .. ErrCap
    /\ fallbackActive \in BOOLEAN
    /\ goodTicks \in 0 .. RecoverGoodTicks
    /\ commandedPct \in {Unset} \cup MinFanPct .. MaxFanPct
    /\ belowHold \in 0 .. RampDownHoldTicks
    /\ bmcMode \in {"manual", "auto"}
    /\ zonePct \in [Zone -> {Unset} \cup 0 .. 100]

(* The daemon never believes itself in charge of fans the iDRAC drives,    *)
(* whichever commands failed or were answered too late: only a handover    *)
(* sends "auto", and only an acknowledged "manual" ends a fallback.        *)
InChargeOnlyInManual == ~fallbackActive /\ ~DryRun => bmcMode = "manual"

(* A dry run leaves the BMC as it found it. *)
DryRunLeavesBMC == DryRun => bmcMode = "auto" /\ \A z \in Zone : zonePct[z] = Unset

(* As long as no command fails, every zone really has the speed that is    *)
(* reported as commanded, if every change that can occur is large enough   *)
(* to be sent.                                                             *)
ZonesFollowCommanded ==
    /\ Faults = {} /\ ~DryRun /\ MinChangePct <= 1 /\ MaxFanPct <= 100 * Unit
    /\ commandedPct # Unset
    => \A z \in Zone : zonePct[z] = Round(commandedPct)

\* The inductive invariant that the proofs rest on
NoSpeedInFallback == fallbackActive => commandedPct = Unset

IInv ==
    /\ TypeOK
    /\ NoSpeedInFallback
    /\ InChargeOnlyInManual
    /\ DryRunLeavesBMC
    /\ ZonesFollowCommanded

(* A demand above the commanded speed raises it in the same tick, however  *)
(* long decreases are being held back.                                     *)
RisesAtOnce ==
    [][/\ ~fallbackActive /\ ~SafetyTrip' /\ commandedPct # Unset
       /\ HasDemand' /\ Desired' > commandedPct
       => commandedPct' > commandedPct]_vars

(* Once the temperatures stop changing and nothing trips, the commanded    *)
(* speed settles on what the curves ask for.                               *)
Settles ==
    (<>[][UNCHANGED raw]_vars /\ <>[](~fallbackActive /\ HasDemand))
        => <>[](commandedPct = Desired)

(* The loop keeps the fail-safe promise; if commands cannot fail, with its *)
(* liveness.                                                               *)
FS == INSTANCE FailSafe WITH
        Lowest <- MinFanPct, Highest <- MaxFanPct,
        StepUp <- MaxStepUpPct, StepDown <- MaxStepDownPct,
        danger <- IF SafetyTrip THEN "trip" ELSE IF SafetyClear THEN "clear" ELSE "wary",
        inCharge <- IF fallbackActive THEN "idrac" ELSE "daemon",
        speed <- commandedPct

FailsSafe == FS!Safety
FailsSafeAndRecovers == FS!FSSpec
=============================================================================
