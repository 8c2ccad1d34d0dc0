-------------------------- MODULE ControllerHistory --------------------------
(***************************************************************************)
(* The control loop with a record, kept only for the properties below, of  *)
(* what the environment did to it: which sensors answered, for how long    *)
(* they have not, and what the last ticks asked for.  The record is        *)
(* computed from the inputs of each tick, not from the loop's counters.    *)
(***************************************************************************)
EXTENDS Controller

VARIABLES
    lastRead,    \* the sensors that reported in the last tick
    missed,      \* ticks in a row each sensor did not report in
    blind,       \* ticks in a row in which ipmitool failed
    lowAsks,     \* ticks in a row, in charge, that asked for a lower speed
    clearTicks,  \* clear ticks of this fallback since the last wary one
    clearRun     \* clear ticks of this fallback in a row

record == <<lastRead, missed, blind, lowAsks, clearTicks, clearRun>>

Record(ipmiOk, read) ==
    /\ lastRead' = read
    /\ missed' = [s \in Sensor |-> IF s \in read THEN 0 ELSE Bump(missed[s], StaleCap)]
    /\ blind' = IF ipmiOk THEN 0 ELSE Bump(blind, ErrCap)
    /\ lowAsks' = IF ~fallbackActive' /\ HasDemand' /\ Desired' < commandedPct
                  THEN Bump(lowAsks, RampDownHoldTicks) ELSE 0
    /\ clearTicks' = IF ~fallbackActive THEN 0
                     ELSE IF SafetyTrip' THEN clearTicks
                     ELSE IF SafetyClear' THEN Bump(clearTicks, RecoverGoodTicks) ELSE 0
    /\ clearRun' = IF fallbackActive /\ SafetyClear'
                   THEN Bump(clearRun, RecoverGoodTicks) ELSE 0

HInit ==
    /\ Init
    /\ lastRead = {}
    /\ missed = [s \in Sensor |-> 0]
    /\ blind = 0
    /\ lowAsks = 0
    /\ clearTicks = 0
    /\ clearRun = 0

HNext == \E ipmiOk \in BOOLEAN, read \in SUBSET Active :
            Tick(ipmiOk, read) /\ Record(ipmiOk, read)

HSpec == HInit /\ [][HNext]_<<vars, record>>

-----------------------------------------------------------------------------
(* The daemon is never in charge for more than MaxConsecutiveErrors ticks  *)
(* in a row without a reading of some required sensor, and never that long *)
(* without a working ipmitool (safetyTrip's counters, end to end).         *)
NeverBlindForLong ==
    \/ blind >= MaxConsecutiveErrors
    \/ \E s \in RequiredSet : missed[s] > MaxConsecutiveErrors
    => fallbackActive

(* Control is taken back only after RecoverGoodTicks clear ticks without a *)
(* wary one among them, and on the readings of this very tick.             *)
ResumeWasEarned ==
    [][fallbackActive /\ ~fallbackActive'
       => /\ clearTicks' >= RecoverGoodTicks
          /\ blind' = 0
          /\ RequiredSet \subseteq lastRead']_<<vars, record>>

(* The speed falls only when every one of the last RampDownHoldTicks ticks *)
(* was spent in charge and asked for a lower one.                          *)
FallWasHeld ==
    [][commandedPct' # Unset /\ commandedPct' < commandedPct
       => lowAsks' >= RampDownHoldTicks]_<<vars, record>>

-----------------------------------------------------------------------------
(* What the README says of the loop *)

(* "stays there until conditions recover for recover_good_ticks            *)
(* consecutive ticks"                                                      *)
ResumeAfterConsecutiveTicks ==
    [][fallbackActive /\ ~fallbackActive' => clearRun' >= RecoverGoodTicks]_<<vars, record>>
=============================================================================
