---------------------------- MODULE HistoryProofs ----------------------------
(***************************************************************************)
(* Proofs about the recorded control loop: its own counters tell the same  *)
(* story as the record kept from the inputs of each tick.                  *)
(***************************************************************************)
EXTENDS ControllerHistory, ControllerProofs

-----------------------------------------------------------------------------
(* The inductive invariant: how the loop's counters relate to the record.  *)
(* goodTicks and belowHold survive ticks that the record does not count,   *)
(* hence the two inequalities; belowHold is kept through a fallback, so it *)
(* is bounded by the record only while the daemon is in charge, and is not *)
(* zero only once some group has a demand.                                 *)
RecordTypes ==
    /\ missed \in [Sensor -> 0 .. StaleCap]
    /\ clearTicks \in 0 .. RecoverGoodTicks
    /\ lowAsks \in 0 .. RampDownHoldTicks

BlindIsCounted  == blind = consecutiveErr
MissedIsCounted == \A s \in RequiredSet : missed[s] = stale[s]
GoodIsCounted   == fallbackActive => goodTicks <= clearTicks
LowIsCounted    == ~fallbackActive => belowHold <= lowAsks
HoldNeedsDemand == belowHold > 0 => HasDemand

HInv ==
    /\ IInv
    /\ RecordTypes
    /\ BlindIsCounted
    /\ MissedIsCounted
    /\ GoodIsCounted
    /\ LowIsCounted
    /\ HoldNeedsDemand

-----------------------------------------------------------------------------
(* Lemmas about what a tick is built from *)

(* Bounded counters keep their order, and one that is bumped is not zero. *)
LEMMA BumpIsMonotone ==
    ASSUME NEW cap \in Nat, NEW m \in 0 .. cap, NEW n \in 0 .. cap, m <= n
    PROVE  Bump(m, cap) <= Bump(n, cap)
  BY DEF Bump

LEMMA BumpIsPositive ==
    ASSUME NEW cap \in Nat \ {0}, NEW n \in 0 .. cap
    PROVE  Bump(n, cap) > 0
  BY DEF Bump

(* A sensor that has reported has done so for good, and so has a demand. *)
LEMMA DemandStays ==
    ASSUME HasDemand, NEW ipmiOk, NEW read, Poll(ipmiOk, read)
    PROVE  HasDemand'
  <1>1. PICK g \in EnabledGroup : Reporting(g) # {}
    BY DEF HasDemand
  <1>2. seen \subseteq seen'
    BY DEF Poll
  <1>3. Reporting(g)' # {}
    BY <1>1, <1>2 DEF Reporting
  <1> QED
    BY <1>1, <1>3 DEF HasDemand

(* In a tick that counts as clear every required sensor reported. *)
LEMMA ClearIsFresh ==
    ASSUME TypeOK, NEW ipmiOk, NEW read \in SUBSET Active, Poll(ipmiOk, read), SafetyClear'
    PROVE  RequiredSet \subseteq read /\ consecutiveErr' = 0
  <1> SUFFICES ASSUME NEW s \in RequiredSet PROVE s \in read
    BY DEF SafetyClear
  <1>1. s \in Active /\ s \in Sensor
    BY DEF RequiredSet, Active
  <1>2. stale'[s] = 0
    BY DEF SafetyClear
  <1>3. stale'[s] = IF s \in read THEN 0 ELSE Bump(stale[s], StaleCap)
    BY <1>1 DEF Poll
  <1>4. Bump(stale[s], StaleCap) > 0
    <2>1. StaleCap \in Nat \ {0}
      BY SafetyAssumption DEF StaleCap
    <2> QED
      BY <1>1, <2>1, BumpIsPositive DEF TypeOK
  <1> QED
    BY <1>2, <1>3, <1>4

(* Polling and the record count the same misses. *)
LEMMA PollIsRecorded ==
    ASSUME TypeOK, RecordTypes, BlindIsCounted, MissedIsCounted,
           NEW ipmiOk \in BOOLEAN, NEW read \in SUBSET Active,
           Poll(ipmiOk, read), Record(ipmiOk, read)
    PROVE  BlindIsCounted' /\ MissedIsCounted' /\ missed' \in [Sensor -> 0 .. StaleCap]
  <1>1. BlindIsCounted'
    BY DEF Poll, Record, BlindIsCounted
  <1>2. missed' = [s \in Sensor |-> IF s \in read THEN 0 ELSE Bump(missed[s], StaleCap)]
    BY DEF Record
  <1>3. MissedIsCounted'
    <2> SUFFICES ASSUME NEW s \in RequiredSet PROVE missed'[s] = stale'[s]
      BY DEF MissedIsCounted
    <2>1. s \in Active /\ s \in Sensor /\ missed[s] = stale[s]
      BY DEF RequiredSet, Active, MissedIsCounted
    <2>2. stale'[s] = IF s \in read THEN 0 ELSE Bump(stale[s], StaleCap)
      BY <2>1 DEF Poll
    <2> QED
      BY <1>2, <2>1, <2>2
  <1>4. missed' \in [Sensor -> 0 .. StaleCap]
    <2>1. StaleCap \in Nat
      BY SafetyAssumption DEF StaleCap
    <2>2. \A s \in Sensor : Bump(missed[s], StaleCap) \in 0 .. StaleCap
      BY <2>1, BumpInRange DEF RecordTypes
    <2> QED
      BY <1>2, <2>1, <2>2
  <1> QED
    BY <1>1, <1>3, <1>4

(* The count of good ticks never gets ahead of the clear ticks recorded. *)
LEMMA GoodIsRecorded ==
    ASSUME TypeOK, RecordTypes, GoodIsCounted,
           NEW ipmiOk, NEW read, Record(ipmiOk, read), Decide
    PROVE  GoodIsCounted' /\ clearTicks' \in 0 .. RecoverGoodTicks
  <1>1. /\ RecoverGoodTicks \in Nat \ {0}
        /\ goodTicks \in 0 .. RecoverGoodTicks
        /\ clearTicks \in 0 .. RecoverGoodTicks
    BY SafetyAssumption DEF TypeOK, RecordTypes
  <1>2. clearTicks' = IF ~fallbackActive THEN 0
                      ELSE IF SafetyTrip' THEN clearTicks
                      ELSE IF SafetyClear' THEN Bump(clearTicks, RecoverGoodTicks) ELSE 0
    BY DEF Record
  <1>3. clearTicks' \in 0 .. RecoverGoodTicks
    BY <1>1, <1>2, BumpInRange
  <1>4. GoodIsCounted'
    <2> SUFFICES ASSUME fallbackActive' PROVE goodTicks' <= clearTicks'
      BY DEF GoodIsCounted
    <2>1. CASE EngageFallback \/ LoseProgress
      <3>1. goodTicks' = 0
        BY <2>1 DEF EngageFallback, LoseProgress
      <3> QED
        BY <1>1, <1>3, <3>1
    <2>2. CASE StayTripped
      BY <1>2, <2>2 DEF StayTripped, control, GoodIsCounted
    <2>3. CASE CountGoodTick \/ FailToResume
      <3>1. goodTicks' = Bump(goodTicks, RecoverGoodTicks)
        BY <2>3 DEF CountGoodTick, FailToResume
      <3>2. clearTicks' = Bump(clearTicks, RecoverGoodTicks) /\ goodTicks <= clearTicks
        BY <1>2, <2>3 DEF CountGoodTick, FailToResume, GoodIsCounted
      <3> QED
        BY <1>1, <3>1, <3>2, BumpIsMonotone
    <2>4. CASE ResumeManual \/ HoldSpeed \/ Regulate
      BY <2>4 DEF ResumeManual, HoldSpeed, Regulate, control
    <2> QED
      BY <2>1, <2>2, <2>3, <2>4 DEF Decide
  <1> QED
    BY <1>3, <1>4

(* A speed falls only if less is asked for and enough ticks in a row have. *)
LEMMA FallNeedsHold ==
    ASSUME NEW d \in MinFanPct .. MaxFanPct,
           commandedPct \in MinFanPct .. MaxFanPct,
           RampToward(d) < commandedPct
    PROVE  d < commandedPct /\ ~(Bump(belowHold, RampDownHoldTicks) < RampDownHoldTicks)
  <1>1. commandedPct # Unset /\ d \in Int /\ commandedPct \in Int
    BY SmoothingAssumption DEF Unset
  <1>2. CASE d > commandedPct + MaxStepUpPct
    <2>1. commandedPct + MaxStepUpPct \in MinFanPct .. MaxFanPct
      BY <1>2, SmoothingAssumption
    <2>2. RampToward(d) = commandedPct + MaxStepUpPct
      BY <1>1, <1>2, <2>1, ClampIsIdentity DEF RampToward
    <2> QED
      BY <2>2, <1>1, SmoothingAssumption
  <1>3. CASE ~(d > commandedPct + MaxStepUpPct) /\ d >= commandedPct
    <2>1. RampToward(d) = d
      BY <1>1, <1>3, ClampIsIdentity DEF RampToward
    <2> QED
      BY <2>1, <1>1, <1>3
  <1>4. CASE /\ ~(d > commandedPct + MaxStepUpPct) /\ ~(d >= commandedPct)
             /\ Bump(belowHold, RampDownHoldTicks) < RampDownHoldTicks
    <2>1. RampToward(d) = commandedPct
      BY <1>1, <1>4, ClampIsIdentity DEF RampToward
    <2> QED
      BY <2>1, <1>1
  <1> QED
    BY <1>1, <1>2, <1>3, <1>4

(* The hold never gets ahead of the low asks recorded. *)
LEMMA LowIsRecorded ==
    ASSUME TypeOK, NoSpeedInFallback, RecordTypes, LowIsCounted, HoldNeedsDemand,
           NEW ipmiOk, NEW read, Poll(ipmiOk, read), Record(ipmiOk, read), Decide
    PROVE  LowIsCounted' /\ HoldNeedsDemand' /\ lowAsks' \in 0 .. RampDownHoldTicks
  <1>1. /\ RampDownHoldTicks \in Nat
        /\ belowHold \in 0 .. RampDownHoldTicks
        /\ lowAsks \in 0 .. RampDownHoldTicks
    BY SmoothingAssumption DEF TypeOK, RecordTypes
  <1>2. lowAsks' = IF ~fallbackActive' /\ HasDemand' /\ Desired' < commandedPct
                   THEN Bump(lowAsks, RampDownHoldTicks) ELSE 0
    BY DEF Record
  <1>3. lowAsks' \in 0 .. RampDownHoldTicks
    BY <1>1, <1>2, BumpInRange
  <1>4. HasDemand => HasDemand'
    BY DemandStays
  <1>5. CASE EngageFallback \/ StayTripped \/ LoseProgress \/ CountGoodTick \/ FailToResume
    <2>1. belowHold' = belowHold /\ (fallbackActive' \/ fallbackActive' = fallbackActive)
      BY <1>5 DEF EngageFallback, StayTripped, LoseProgress, CountGoodTick, FailToResume, control
    <2>2. fallbackActive'
      BY <1>5 DEF EngageFallback, StayTripped, LoseProgress, CountGoodTick, FailToResume, control
    <2> QED
      BY <1>3, <1>4, <2>1, <2>2 DEF LowIsCounted, HoldNeedsDemand
  <1>6. CASE ResumeManual
    <2>1. belowHold' = 0
      BY <1>6 DEF ResumeManual
    <2> QED
      BY <1>3, <1>1, <2>1 DEF LowIsCounted, HoldNeedsDemand
  <1>7. CASE HoldSpeed
    <2>1. belowHold' = belowHold /\ ~HasDemand'
      BY <1>7 DEF HoldSpeed, control
    <2>2. belowHold = 0
      BY <1>1, <1>4, <2>1 DEF HoldNeedsDemand
    <2> QED
      BY <1>1, <1>3, <2>1, <2>2 DEF LowIsCounted, HoldNeedsDemand
  <1>8. CASE Regulate
    <2>1. /\ ~fallbackActive /\ ~fallbackActive' /\ HasDemand'
          /\ belowHold' = HoldAfter(Desired')
      BY <1>8 DEF Regulate
    <2>2. HoldNeedsDemand'
      BY <2>1 DEF HoldNeedsDemand
    <2>3. CASE commandedPct # Unset /\ Desired' < commandedPct
      <3>1. belowHold' = Bump(belowHold, RampDownHoldTicks)
        BY <2>1, <2>3 DEF HoldAfter
      <3>2. lowAsks' = Bump(lowAsks, RampDownHoldTicks) /\ belowHold <= lowAsks
        BY <1>2, <2>1, <2>3 DEF LowIsCounted
      <3> QED
        BY <1>1, <1>3, <2>2, <3>1, <3>2, BumpIsMonotone DEF LowIsCounted
    <2>4. CASE ~(commandedPct # Unset /\ Desired' < commandedPct)
      <3>1. belowHold' = 0
        BY <2>1, <2>4 DEF HoldAfter
      <3> QED
        BY <1>1, <1>3, <2>2, <3>1 DEF LowIsCounted
    <2> QED
      BY <1>3, <2>2, <2>3, <2>4
  <1> QED
    BY <1>5, <1>6, <1>7, <1>8 DEF Decide

-----------------------------------------------------------------------------
LEMMA HInitHolds == HInit => HInv
  <1> SUFFICES ASSUME HInit PROVE HInv
    OBVIOUS
  <1>1. IInv
    BY InitIInv DEF HInit
  <1>2. RecordTypes
    BY SafetyAssumption, SmoothingAssumption DEF HInit, RecordTypes, StaleCap
  <1>3. BlindIsCounted /\ MissedIsCounted
    BY DEF HInit, Init, New, BlindIsCounted, MissedIsCounted, RequiredSet, Active
  <1>4. GoodIsCounted /\ LowIsCounted /\ HoldNeedsDemand
    BY DEF HInit, Init, New, GoodIsCounted, LowIsCounted, HoldNeedsDemand
  <1> QED
    BY <1>1, <1>2, <1>3, <1>4 DEF HInv

LEMMA HNextKeeps == HInv /\ [HNext]_<<vars, record>> => HInv'
  <1> SUFFICES ASSUME HInv, [HNext]_<<vars, record>> PROVE HInv'
    OBVIOUS
  <1>1. CASE HNext
    <2>1. PICK ipmiOk \in BOOLEAN, read \in SUBSET Active :
             Tick(ipmiOk, read) /\ Record(ipmiOk, read)
      BY <1>1 DEF HNext
    <2>2. Poll(ipmiOk, read) /\ Decide
      BY <2>1 DEF Tick
    <2>3. IInv'
      BY <2>1, NextIInv DEF Next, HInv
    <2>4. BlindIsCounted' /\ MissedIsCounted' /\ missed' \in [Sensor -> 0 .. StaleCap]
      BY <2>1, <2>2, PollIsRecorded DEF HInv, IInv
    <2>5. GoodIsCounted' /\ clearTicks' \in 0 .. RecoverGoodTicks
      BY <2>1, <2>2, GoodIsRecorded DEF HInv, IInv
    <2>6. LowIsCounted' /\ HoldNeedsDemand' /\ lowAsks' \in 0 .. RampDownHoldTicks
      BY <2>1, <2>2, LowIsRecorded DEF HInv, IInv
    <2> QED
      BY <2>3, <2>4, <2>5, <2>6 DEF HInv, RecordTypes
  <1>2. CASE UNCHANGED <<vars, record>>
    <2>1. IInv'
      BY <1>2, NextIInv DEF HInv
    <2>2. /\ RecordTypes' /\ BlindIsCounted' /\ MissedIsCounted' /\ GoodIsCounted'
          /\ LowIsCounted' /\ HoldNeedsDemand'
      BY <1>2 DEF HInv, RecordTypes, BlindIsCounted, MissedIsCounted, GoodIsCounted,
                  LowIsCounted, HoldNeedsDemand, HasDemand, Reporting, vars, record,
                  sensed, control
    <2> QED
      BY <2>1, <2>2 DEF HInv
  <1> QED
    BY <1>1, <1>2

LEMMA HistoryInvariance == HSpec => []HInv
  BY HInitHolds, HNextKeeps, PTL DEF HSpec

-----------------------------------------------------------------------------
(* A tick that finds danger ends in a fallback. *)
LEMMA DangerEndsInFallback ==
    ASSUME Decide, SafetyTrip'
    PROVE  fallbackActive'
  BY DEF Decide, EngageFallback, StayTripped, LoseProgress, CountGoodTick, FailToResume,
         ResumeManual, HoldSpeed, Regulate, control

LEMMA NeverBlindKept ==
    ASSUME HInv, HInv', NeverBlindForLong, [HNext]_<<vars, record>>
    PROVE  NeverBlindForLong'
  <1>1. CASE HNext
    <2> SUFFICES ASSUME \/ blind' >= MaxConsecutiveErrors
                        \/ \E s \in RequiredSet : missed'[s] > MaxConsecutiveErrors
                 PROVE  fallbackActive'
      BY DEF NeverBlindForLong
    <2>1. \/ consecutiveErr' >= MaxConsecutiveErrors
          \/ \E s \in RequiredSet : stale'[s] > MaxConsecutiveErrors
      BY DEF HInv, BlindIsCounted, MissedIsCounted
    <2>2. SafetyTrip'
      BY <2>1 DEF SafetyTrip
    <2> QED
      BY <1>1, <2>2, DangerEndsInFallback DEF HNext, Tick
  <1>2. CASE UNCHANGED <<vars, record>>
    BY <1>2 DEF NeverBlindForLong, vars, record, control
  <1> QED
    BY <1>1, <1>2

(* The daemon is never in charge for longer than MaxConsecutiveErrors      *)
(* ticks without a reading of some required sensor or without a working    *)
(* ipmitool, counted from what really happened.                            *)
THEOREM LoopIsNeverBlind == HSpec => []NeverBlindForLong
  <1>1. HInit => NeverBlindForLong
    <2> SUFFICES ASSUME HInit PROVE NeverBlindForLong
      OBVIOUS
    <2>1. ~(blind >= MaxConsecutiveErrors)
      BY SafetyAssumption DEF HInit
    <2>2. \A s \in RequiredSet : ~(missed[s] > MaxConsecutiveErrors)
      BY SafetyAssumption DEF HInit, RequiredSet, Active
    <2> QED
      BY <2>1, <2>2 DEF NeverBlindForLong
  <1> QED
    BY <1>1, NeverBlindKept, HistoryInvariance, PTL DEF HSpec

(* Control is taken back only after RecoverGoodTicks clear ticks of this   *)
(* fallback without a wary one among them, with ipmitool working and every *)
(* required sensor read in this very tick.                                 *)
THEOREM ResumingIsEarned == HSpec => ResumeWasEarned
  <1> DEFINE Earned == /\ clearTicks' >= RecoverGoodTicks
                       /\ blind' = 0
                       /\ RequiredSet \subseteq lastRead'
  <1>1. HInv /\ HInv' /\ [HNext]_<<vars, record>>
        => [fallbackActive /\ ~fallbackActive' => Earned]_<<vars, record>>
    <2> SUFFICES ASSUME HInv, HInv', HNext, fallbackActive, ~fallbackActive'
                 PROVE  Earned
      OBVIOUS
    <2>1. PICK ipmiOk \in BOOLEAN, read \in SUBSET Active :
             Tick(ipmiOk, read) /\ Record(ipmiOk, read)
      BY DEF HNext
    <2>2. Poll(ipmiOk, read) /\ Decide
      BY <2>1 DEF Tick
    <2>3. ResumeManual
      BY <2>2 DEF Decide, EngageFallback, StayTripped, LoseProgress, CountGoodTick,
                  FailToResume, HoldSpeed, Regulate, control
    <2>4. /\ SafetyClear' /\ ~SafetyTrip'
          /\ Bump(goodTicks, RecoverGoodTicks) = RecoverGoodTicks
      BY <2>3 DEF ResumeManual
    <2>5. RequiredSet \subseteq lastRead' /\ consecutiveErr' = 0
      BY <2>1, <2>2, <2>4, ClearIsFresh DEF HInv, IInv, Record
    <2>6. blind' = 0
      BY <2>5 DEF HInv, BlindIsCounted
    <2>7. clearTicks' = Bump(clearTicks, RecoverGoodTicks)
      BY <2>1, <2>4 DEF Record
    <2>8. Bump(clearTicks, RecoverGoodTicks) >= RecoverGoodTicks
      <3>1. /\ RecoverGoodTicks \in Nat
            /\ goodTicks \in 0 .. RecoverGoodTicks
            /\ clearTicks \in 0 .. RecoverGoodTicks
            /\ goodTicks <= clearTicks
        BY SafetyAssumption DEF HInv, IInv, TypeOK, RecordTypes, GoodIsCounted
      <3>2. Bump(goodTicks, RecoverGoodTicks) <= Bump(clearTicks, RecoverGoodTicks)
        BY <3>1, BumpIsMonotone
      <3>3. Bump(clearTicks, RecoverGoodTicks) \in 0 .. RecoverGoodTicks
        BY <3>1, BumpInRange
      <3> QED
        BY <2>4, <3>1, <3>2, <3>3
    <2> QED
      BY <2>5, <2>6, <2>7, <2>8
  <1> QED
    BY <1>1, HistoryInvariance, PTL DEF HSpec, ResumeWasEarned

(* The speed falls only when each of the last RampDownHoldTicks ticks was  *)
(* spent in charge and asked for a lower one.                              *)
THEOREM FallingIsHeld == HSpec => FallWasHeld
  <1> DEFINE Held == commandedPct' # Unset /\ commandedPct' < commandedPct
                     => lowAsks' >= RampDownHoldTicks
  <1>1. HInv /\ HInv' /\ [HNext]_<<vars, record>> => [Held]_<<vars, record>>
    <2> SUFFICES ASSUME HInv, HInv', HNext, commandedPct' # Unset, commandedPct' < commandedPct
                 PROVE  lowAsks' >= RampDownHoldTicks
      OBVIOUS
    <2>1. PICK ipmiOk \in BOOLEAN, read \in SUBSET Active :
             Tick(ipmiOk, read) /\ Record(ipmiOk, read)
      BY DEF HNext
    <2>2. Decide
      BY <2>1 DEF Tick
    <2>3. /\ commandedPct' \in MinFanPct .. MaxFanPct
          /\ commandedPct \in {Unset} \cup MinFanPct .. MaxFanPct
      BY DEF HInv, IInv, TypeOK
    <2>4. commandedPct \in MinFanPct .. MaxFanPct
      BY <2>3, SmoothingAssumption DEF Unset
    <2>5. commandedPct' # commandedPct
      BY <2>3, <2>4, SmoothingAssumption
    <2>6. Regulate
      BY <2>2, <2>5 DEF Decide, EngageFallback, StayTripped, LoseProgress, CountGoodTick,
                        FailToResume, ResumeManual, HoldSpeed, control
    <2>7. /\ ~fallbackActive /\ ~fallbackActive' /\ HasDemand'
          /\ commandedPct' = RampToward(Desired')
      BY <2>6 DEF Regulate
    <2>8. Desired' \in MinFanPct .. MaxFanPct
      BY ClampInRange DEF Desired
    <2>9. Desired' < commandedPct /\ ~(Bump(belowHold, RampDownHoldTicks) < RampDownHoldTicks)
      BY <2>4, <2>7, <2>8, FallNeedsHold
    <2>10. lowAsks' = Bump(lowAsks, RampDownHoldTicks)
      BY <2>1, <2>7, <2>9 DEF Record
    <2>11. /\ RampDownHoldTicks \in Nat
           /\ belowHold \in 0 .. RampDownHoldTicks
           /\ lowAsks \in 0 .. RampDownHoldTicks
           /\ belowHold <= lowAsks
      BY <2>7, SmoothingAssumption DEF HInv, IInv, TypeOK, RecordTypes, LowIsCounted
    <2>12. /\ Bump(belowHold, RampDownHoldTicks) <= Bump(lowAsks, RampDownHoldTicks)
           /\ Bump(belowHold, RampDownHoldTicks) \in 0 .. RampDownHoldTicks
           /\ Bump(lowAsks, RampDownHoldTicks) \in 0 .. RampDownHoldTicks
      BY <2>11, BumpIsMonotone, BumpInRange
    <2> QED
      BY <2>9, <2>10, <2>11, <2>12
  <1> QED
    BY <1>1, HistoryInvariance, PTL DEF HSpec, FallWasHeld
=============================================================================
