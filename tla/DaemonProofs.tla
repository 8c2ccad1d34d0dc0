---------------------------- MODULE DaemonProofs ----------------------------
(***************************************************************************)
(* Proofs about the daemon on its host, for every configuration that       *)
(* satisfies the assumptions of modules Controller and Daemon.  The loop's *)
(* part of each step is known from module ControllerProofs.                *)
(***************************************************************************)
EXTENDS Daemon, ControllerProofs

-----------------------------------------------------------------------------
(* Lemmas about the commands *)

(* Outside a dry run, a command that is acknowledged was carried out. *)
LEMMA AcknowledgedIsDone ==
    ASSUME ~DryRun, NEW o \in Outcome, ~Failed(o)
    PROVE  TakesEffect(o)
  BY DriverAssumption DEF Outcome, Failed, TakesEffect

(* If the daemon has the last word with its command, it was acknowledged   *)
(* or the operator had not interfered before.                              *)
LEMMA LastWord ==
    ASSUME NEW o, Overrules(o), ~meddled'
    PROVE  ~meddled \/ ~Failed(o)
  BY DEF Overrules

(* The operator's command leaves no trace only if it had no effect. *)
LEMMA NoTrace ==
    ASSUME NEW o, Meddles(o), ~meddled'
    PROVE  ~meddled /\ ~TakesEffect(o)
  BY DEF Meddles

-----------------------------------------------------------------------------
(* Type correctness *)

(* DrainHooks waits for all hooks together, so it is their number that is  *)
(* bounded: a hook that HookEnds moves from hooks to held is counted once. *)
HooksBounded == hooks + held <= MaxHooks

DTypeInv == DTypeOK /\ HooksBounded

LEMMA PartsWithinWhole ==
    ASSUME NEW whole \in Nat, NEW a \in Nat, NEW b \in Nat, a + b <= whole
    PROVE  a \in 0 .. whole /\ b \in 0 .. whole
  OBVIOUS

LEMMA NewTypes ==
    ASSUME New
    PROVE  /\ seen \in SUBSET Sensor
           /\ raw \in [Sensor -> Int]
           /\ ema \in [Grouped -> Int]
           /\ stale \in [Sensor -> 0 .. StaleCap]
           /\ consecutiveErr \in 0 .. ErrCap
           /\ fallbackActive \in BOOLEAN
           /\ goodTicks \in 0 .. RecoverGoodTicks
           /\ commandedPct \in {Unset} \cup MinFanPct .. MaxFanPct
           /\ belowHold \in 0 .. RampDownHoldTicks
  <1>1. StaleCap \in Nat /\ ErrCap \in Nat
    BY SafetyAssumption DEF StaleCap, ErrCap
  <1>2. fallbackActive \in BOOLEAN
    <2>1. fallbackActive = FALSE
      BY DEF New
    <2> QED
      BY <2>1, Zenon
  <1> QED
    BY <1>1, <1>2, SafetyAssumption, SmoothingAssumption DEF New

LEMMA DInitTypes == DInit => DTypeInv
  <1> SUFFICES ASSUME DInit PROVE DTypeInv
    OBVIOUS
  <1>1. TypeOK
    <2>1. New /\ bmcMode = "auto" /\ zonePct = [z \in Zone |-> Unset]
      BY DEF DInit
    <2> QED
      BY <2>1, NewTypes DEF TypeOK
  <1>2. signalled \in BOOLEAN /\ due \in BOOLEAN /\ meddled \in BOOLEAN
    <2>1. signalled = FALSE /\ due = TRUE /\ meddled = FALSE
      BY DEF DInit
    <2> QED
      BY <2>1, Zenon
  <1>3. /\ phase \in Phase /\ ended \in Ended /\ cli \in {"idle", "set-speed"}
        /\ hooks = 0 /\ held = 0
    BY DEF DInit, Phase, Ended
  <1> QED
    BY <1>1, <1>2, <1>3, DaemonAssumption DEF DTypeInv, DTypeOK, HooksBounded

(* A step that leaves the loop alone and gives the BMC a command keeps the *)
(* loop's types.                                                           *)
LEMMA CommandKeepsTypes ==
    ASSUME TypeOK, UNCHANGED loop,
           \/ UNCHANGED bmc
           \/ \E o : SetAutoMode(o) \/ SetManualMode(o)
           \/ \E pct : SetFanPercent(pct)
    PROVE  TypeOK'
  <1>1. bmcMode \in {"manual", "auto"} /\ zonePct \in [Zone -> {Unset} \cup 0 .. 100]
    BY DEF TypeOK
  <1>2. bmcMode' \in {"manual", "auto"} /\ zonePct' \in [Zone -> {Unset} \cup 0 .. 100]
    <2>1. CASE UNCHANGED bmc
      BY <1>1, <2>1 DEF bmc
    <2>2. CASE \E o : SetAutoMode(o) \/ SetManualMode(o)
      BY <1>1, <2>2, CommandTypes
    <2>3. CASE \E pct : SetFanPercent(pct)
      BY <1>1, <2>3, CommandTypes
    <2> QED
      BY <2>1, <2>2, <2>3
  <1> QED
    BY <1>2 DEF TypeOK, loop, sensed, control

(* How each step leaves the loop's part of the state. *)
LEMMA WhatMovesTheLoop ==
    ASSUME DNext
    PROVE  \/ Next
           \/ New' /\ UNCHANGED bmc
           \/ /\ UNCHANGED loop
              /\ \/ UNCHANGED bmc
                 \/ \E o : SetAutoMode(o) \/ SetManualMode(o)
                 \/ \E pct : SetFanPercent(pct)
  <1>1. CASE LoopTick
    BY <1>1 DEF LoopTick
  <1>2. CASE Start
    <2>1. New' /\ UNCHANGED bmc
      BY <1>2 DEF Start, New
    <2> QED
      BY <2>1
  <1>3. CASE EnterManual
    BY <1>3 DEF EnterManual
  <1>4. CASE Revert
    BY <1>4 DEF Revert
  <1>5. CASE CliNext
    BY <1>5 DEF CliNext, CliRevert, CliSetManual, CliSetSpeed
  <1>6. CASE \/ Announce \/ HookEnds \/ HeldCloses \/ StopLoop \/ DrainHooks \/ CloseMqtt
             \/ HostNext
    BY <1>6 DEF Announce, HookEnds, HeldCloses, StopLoop, DrainHooks, CloseMqtt,
                HostNext, Signal, Kill, AdminStarts, vars, loop
  <1> QED
    BY <1>1, <1>2, <1>3, <1>4, <1>5, <1>6 DEF DNext, ProcessNext

LEMMA LoopTypesKept ==
    ASSUME TypeOK, [DNext]_dvars
    PROVE  TypeOK'
  <1>1. CASE Next
    BY <1>1, NextTypes
  <1>2. CASE New' /\ UNCHANGED bmc
    <2>1. /\ seen' \in SUBSET Sensor
          /\ raw' \in [Sensor -> Int]
          /\ ema' \in [Grouped -> Int]
          /\ stale' \in [Sensor -> 0 .. StaleCap]
          /\ consecutiveErr' \in 0 .. ErrCap
          /\ fallbackActive' \in BOOLEAN
          /\ goodTicks' \in 0 .. RecoverGoodTicks
          /\ commandedPct' \in {Unset} \cup MinFanPct .. MaxFanPct
          /\ belowHold' \in 0 .. RampDownHoldTicks
      <3>1. StaleCap \in Nat /\ ErrCap \in Nat
        BY SafetyAssumption DEF StaleCap, ErrCap
      <3>2. fallbackActive' \in BOOLEAN
        <4>1. fallbackActive' = FALSE
          BY <1>2 DEF New
        <4> QED
          BY <4>1, Zenon
      <3> QED
        BY <1>2, <3>1, <3>2, SafetyAssumption, SmoothingAssumption DEF New
    <2> QED
      BY <1>2, <2>1 DEF TypeOK, bmc
  <1>3. CASE UNCHANGED dvars
    BY <1>3, NextTypes DEF dvars
  <1>4. CASE /\ UNCHANGED loop
             /\ \/ UNCHANGED bmc
                \/ \E o : SetAutoMode(o) \/ SetManualMode(o)
                \/ \E pct : SetFanPercent(pct)
    BY <1>4, CommandKeepsTypes
  <1> QED
    BY <1>1, <1>2, <1>3, <1>4, WhatMovesTheLoop

(* The daemon's own variables, one case per action that changes one whose  *)
(* range is not evident.                                                   *)
LEMMA DNextTypes == DTypeInv /\ [DNext]_dvars => DTypeInv'
  <1> SUFFICES ASSUME DTypeInv, [DNext]_dvars PROVE DTypeInv'
    OBVIOUS
  <1> DEFINE Own == /\ phase \in Phase /\ ended \in Ended /\ cli \in {"idle", "set-speed"}
                    /\ hooks \in Nat /\ held \in Nat /\ hooks + held <= MaxHooks
  <1>1. TypeOK'
    BY LoopTypesKept DEF DTypeInv, DTypeOK
  <1>2. Own
    BY DaemonAssumption DEF DTypeInv, DTypeOK, HooksBounded
  <1>3. Own'
    <2> USE DEF Phase, Ended, Exit
    <2>1. CASE Start \/ EnterManual \/ Announce \/ StopLoop \/ DrainHooks \/ CloseMqtt \/ Revert
      BY <1>2, <2>1 DEF Start, EnterManual, Announce, StopLoop, DrainHooks, CloseMqtt, Revert
    <2>2. CASE LoopTick
      BY <1>2, <2>2, DaemonAssumption DEF LoopTick
    <2>3. CASE HookEnds
      <3>1. /\ hooks > 0 /\ hooks' = hooks - 1
            /\ held' = held \/ held' = held + 1
            /\ phase' = phase /\ ended' = ended /\ cli' = cli
        BY <2>3 DEF HookEnds
      <3> QED
        BY <1>2, <3>1, DaemonAssumption
    <2>4. CASE HeldCloses
      BY <1>2, <2>4, DaemonAssumption DEF HeldCloses
    <2>5. CASE HostNext
      <3>1. /\ phase' \in {phase, "down"} /\ ended' \in {ended, "killed"} /\ cli' = cli
            /\ \/ hooks' = hooks /\ held' = held
               \/ hooks' = 0 /\ held' = 0
        <4>1. CASE Signal
          <5>1. UNCHANGED <<phase, ended, hooks, held, cli>>
            BY <4>1, Zenon DEF Signal
          <5> QED
            BY <5>1
        <4>2. CASE Kill
          BY <4>2 DEF Kill
        <4>3. CASE AdminStarts
          BY <4>3 DEF AdminStarts
        <4> QED
          BY <2>5, <4>1, <4>2, <4>3 DEF HostNext
      <3> QED
        BY <1>2, <3>1, DaemonAssumption
    <2>6. CASE CliNext
      BY <1>2, <2>6 DEF CliNext, CliRevert, CliSetManual, CliSetSpeed
    <2>7. CASE UNCHANGED dvars
      BY <1>2, <2>7 DEF dvars
    <2> QED
      BY <2>1, <2>2, <2>3, <2>4, <2>5, <2>6, <2>7 DEF DNext, ProcessNext
  <1>4. signalled' \in BOOLEAN
    <2>1. signalled' \in {signalled, TRUE, FALSE}
      BY DEF DNext, ProcessNext, HostNext, CliNext, Start, EnterManual, Announce, LoopTick,
             HookEnds, HeldCloses, StopLoop, DrainHooks, CloseMqtt, Revert, Signal, Kill,
             AdminStarts, CliRevert, CliSetManual, CliSetSpeed, dvars
    <2> QED
      BY <2>1, Zenon DEF DTypeInv, DTypeOK
  <1>5. due' \in BOOLEAN
    <2>1. due' \in {due, TRUE, FALSE}
      BY DEF DNext, ProcessNext, HostNext, CliNext, Start, EnterManual, Announce, LoopTick,
             HookEnds, HeldCloses, StopLoop, DrainHooks, CloseMqtt, Revert, Signal, Kill,
             AdminStarts, CliRevert, CliSetManual, CliSetSpeed, dvars
    <2> QED
      BY <2>1, Zenon DEF DTypeInv, DTypeOK
  <1>6. meddled' \in BOOLEAN
    <2>1. \/ meddled' = meddled
          \/ meddled' = (meddled /\ ~(fallbackActive /\ ~fallbackActive'))
          \/ \E o : Overrules(o) \/ Meddles(o)
      BY DEF DNext, ProcessNext, HostNext, CliNext, Start, EnterManual, Announce, LoopTick,
             HookEnds, HeldCloses, StopLoop, DrainHooks, CloseMqtt, Revert, Signal, Kill,
             AdminStarts, CliRevert, CliSetManual, CliSetSpeed, dvars
    <2> QED
      BY <2>1, Zenon DEF DTypeInv, DTypeOK, Overrules, Meddles
  <1> QED
    <2>1. hooks' \in Nat /\ held' \in Nat /\ hooks' + held' <= MaxHooks /\ MaxHooks \in Nat
      BY <1>3, DaemonAssumption
    <2>2. hooks' \in 0 .. MaxHooks /\ held' \in 0 .. MaxHooks
      BY <2>1, PartsWithinWhole
    <2> QED
      BY <1>1, <1>3, <1>4, <1>5, <1>6, <2>1, <2>2, Zenon DEF DTypeInv, DTypeOK, HooksBounded

LEMMA DTypeInvariance == DSpec => []DTypeInv
  BY DInitTypes, DNextTypes, PTL DEF DSpec

(* Every variable of the daemon and its host keeps its type: across        *)
(* restarts, kills and the operator's commands the commanded speed stays   *)
(* in the configured range, no zone is ever set to anything but a          *)
(* percentage, and the process waits for at most MaxHooks hooks.           *)
THEOREM DaemonTypeCorrect == DSpec => []DTypeOK
  <1>1. DTypeInv => DTypeOK
    BY DEF DTypeInv
  <1> QED
    BY <1>1, DTypeInvariance, PTL

-----------------------------------------------------------------------------
(* Who drives the fans *)

(* No process, no loop: what a step does that is not the daemon's own to   *)
(* the mode of the BMC, unless the operator leaves a trace.                *)
LEMMA OthersKeepMode ==
    ASSUME CliNext \/ HostNext, ~meddled'
    PROVE  ~meddled /\ bmcMode' = bmcMode /\ UNCHANGED loop
  <1>1. CASE CliRevert
    BY <1>1, NoTrace DEF CliRevert, SetAutoMode, bmc
  <1>2. CASE CliSetManual
    BY <1>2, NoTrace DEF CliSetManual, SetManualMode
  <1>3. CASE CliSetSpeed
    BY <1>3 DEF CliSetSpeed, SetFanPercent, bmc
  <1>4. CASE HostNext
    <2>1. UNCHANGED vars /\ meddled' = meddled
      BY <1>4, Zenon DEF HostNext, Signal, Kill, AdminStarts
    <2> QED
      BY <2>1 DEF vars, loop, bmc
  <1> QED
    BY <1>1, <1>2, <1>3, <1>4 DEF CliNext

(* The daemon's steps that wait or hand on and command nothing. *)
Quiet == Announce \/ HookEnds \/ HeldCloses \/ StopLoop \/ DrainHooks \/ CloseMqtt

LEMMA ChargeUnlessMeddledKept ==
    ASSUME ChargeUnlessMeddled, [DNext]_dvars
    PROVE  ChargeUnlessMeddled'
  <1> SUFFICES ASSUME phase' \in {"announcing", "looping"}, ~fallbackActive', ~meddled', ~DryRun
               PROVE  bmcMode' = "manual"
    BY DEF ChargeUnlessMeddled
  <1>1. CASE EnterManual
    <2>1. PICK o \in Outcome : SetManualMode(o) /\ ~Failed(o)
      BY <1>1 DEF EnterManual, Exit
    <2> QED
      BY <2>1, AcknowledgedIsDone DEF SetManualMode
  <1>2. CASE LoopTick
    <2>1. InChargeOnlyInManual
      BY <1>2 DEF LoopTick, ChargeUnlessMeddled, InChargeOnlyInManual
    <2>2. Decide
      BY <1>2 DEF LoopTick, Next, Tick
    <2> QED
      BY <2>1, <2>2, ChargeKept DEF InChargeOnlyInManual
  <1>3. CASE Start
    BY <1>3 DEF Start
  <1>4. CASE Revert
    BY <1>4 DEF Revert, Exit
  <1>5. CASE Quiet
    BY <1>5 DEF Quiet, Announce, HookEnds, HeldCloses, StopLoop, DrainHooks, CloseMqtt,
                ChargeUnlessMeddled, vars, control, bmc
  <1>6. CASE CliNext \/ HostNext
    <2>1. phase' = phase \/ phase' = "down"
      BY <1>6 DEF CliNext, CliRevert, CliSetManual, CliSetSpeed, HostNext, Signal, Kill,
                  AdminStarts, Exit
    <2> QED
      BY <1>6, <2>1, OthersKeepMode DEF ChargeUnlessMeddled, loop, control
  <1>7. CASE UNCHANGED dvars
    BY <1>7 DEF dvars, vars, control, bmc, ChargeUnlessMeddled
  <1> QED
    BY <1>1, <1>2, <1>3, <1>4, <1>5, <1>6, <1>7 DEF DNext, ProcessNext, Quiet

(* After a restart, after a kill at any point, whichever commands were     *)
(* lost or answered too late: unless the operator interferes, a loop that  *)
(* believes itself in charge commands a BMC in manual mode.                *)
THEOREM DaemonChargeIsReal == DSpec => []ChargeUnlessMeddled
  <1>1. DInit => ChargeUnlessMeddled
    BY DEF DInit, ChargeUnlessMeddled
  <1> QED
    BY <1>1, ChargeUnlessMeddledKept, PTL DEF DSpec

LEMMA GracefulExitKept ==
    ASSUME GracefulExitHandsBack, [DNext]_dvars
    PROVE  GracefulExitHandsBack'
  <1> SUFFICES ASSUME phase' = "down", ended' = "graceful", ~meddled', ~DryRun
               PROVE  bmcMode' = "auto"
    BY DEF GracefulExitHandsBack
  <1>1. CASE Revert
    <2>1. PICK o \in Outcome : SetAutoMode(o) /\ ~Failed(o)
      BY <1>1 DEF Revert, Exit
    <2> QED
      BY <2>1, AcknowledgedIsDone DEF SetAutoMode
  <1>2. CASE EnterManual
    BY <1>2 DEF EnterManual, Exit
  <1>3. CASE LoopTick \/ Start
    BY <1>3 DEF LoopTick, Start
  <1>4. CASE Quiet
    BY <1>4 DEF Quiet, Announce, HookEnds, HeldCloses, StopLoop, DrainHooks, CloseMqtt,
                GracefulExitHandsBack, vars, bmc
  <1>5. CASE Kill
    BY <1>5 DEF Kill, Exit
  <1>6. CASE CliNext \/ Signal \/ AdminStarts
    <2>1. phase' = phase /\ ended' = ended
      BY <1>6 DEF CliNext, CliRevert, CliSetManual, CliSetSpeed, Signal, AdminStarts
    <2> QED
      BY <1>6, <2>1, OthersKeepMode DEF GracefulExitHandsBack, HostNext
  <1>7. CASE UNCHANGED dvars
    BY <1>7 DEF dvars, vars, bmc, GracefulExitHandsBack
  <1> QED
    BY <1>1, <1>2, <1>3, <1>4, <1>5, <1>6, <1>7 DEF DNext, ProcessNext, HostNext, Quiet

(* A process that says it handed control back has: as long as the operator *)
(* does not interfere, the BMC it left behind is in automatic mode, until  *)
(* the next process takes over.                                            *)
THEOREM HandedBack == DSpec => []GracefulExitHandsBack
  <1>1. DInit => GracefulExitHandsBack
    BY DEF DInit, GracefulExitHandsBack
  <1> QED
    BY <1>1, GracefulExitKept, PTL DEF DSpec

-----------------------------------------------------------------------------
(* The fail-safe promise in every life of the process *)

LEMMA NoSpeedKeptByDaemon ==
    ASSUME NoSpeedInFallback, [DNext]_dvars
    PROVE  NoSpeedInFallback'
  <1>1. CASE Next
    BY <1>1, NoSpeedKept DEF Next, Tick
  <1>2. CASE New'
    BY <1>2 DEF New, NoSpeedInFallback
  <1>3. CASE UNCHANGED loop
    BY <1>3 DEF loop, control, NoSpeedInFallback
  <1>4. CASE UNCHANGED dvars
    BY <1>4 DEF dvars, vars, control, NoSpeedInFallback
  <1> QED
    BY <1>1, <1>2, <1>3, <1>4, WhatMovesTheLoop

(* Each start of the process is an initial state of FailSafe, and whatever *)
(* else happens on the host, until the next start, is a step that FailSafe *)
(* allows: the promise of the loop survives its composition with restarts, *)
(* kills, hooks and the operator's commands.                               *)
EveryLifeFailsSafe ==
    [][IF Start THEN FS!FSInit' ELSE [FS!FSNext]_(FS!fsVars)]_dvars

LEMMA StartFailsSafe == Start => FS!FSInit'
  <1> SUFFICES ASSUME Start PROVE FS!FSInit'
    OBVIOUS
  <1>1. ~(consecutiveErr' >= MaxConsecutiveErrors)
    BY SafetyAssumption DEF Start
  <1>2. ~ \E s \in RequiredSet : stale'[s] > MaxConsecutiveErrors
    BY SafetyAssumption DEF Start, RequiredSet, Active
  <1>3. ~SafetyTrip'
    BY <1>1, <1>2 DEF SafetyTrip, Start
  <1> QED
    BY <1>3 DEF FS!FSInit, FS!Unset, Start, Unset

(* The loop keeps its fail-safe promise from each start of the process to  *)
(* the next, whatever becomes of the process and whatever the host does.   *)
THEOREM DaemonFailsSafe == DSpec => EveryLifeFailsSafe
  <1> DEFINE Promise == IF Start THEN FS!FSInit' ELSE [FS!FSNext]_(FS!fsVars)
             Good    == DTypeInv /\ NoSpeedInFallback
  <1>1. DInit => NoSpeedInFallback
    BY DEF DInit, New, NoSpeedInFallback
  <1>2. Good /\ [DNext]_dvars => [Promise]_dvars
    <2> SUFFICES ASSUME TypeOK, NoSpeedInFallback, DNext, ~Start
                 PROVE  [FS!FSNext]_(FS!fsVars)
      BY StartFailsSafe DEF DTypeInv, DTypeOK
    <2>1. CASE LoopTick
      BY <2>1, DecideFailsSafe DEF LoopTick, Next, Tick
    <2>2. CASE ~LoopTick
      <3>1. UNCHANGED loop
        BY <2>2 DEF DNext, ProcessNext, HostNext, CliNext, EnterManual, Announce, HookEnds,
                    HeldCloses, StopLoop, DrainHooks, CloseMqtt, Revert, Signal, Kill,
                    AdminStarts, CliRevert, CliSetManual, CliSetSpeed, vars, loop
      <3> QED
        BY <3>1 DEF loop, sensed, control, FS!fsVars, SafetyTrip, SafetyClear, FanTooSlow, TooHot
    <2> QED
      BY <2>1, <2>2
  <1> QED
    BY <1>1, <1>2, NoSpeedKeptByDaemon, DTypeInvariance, PTL DEF DSpec, EveryLifeFailsSafe
=============================================================================
