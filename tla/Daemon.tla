------------------------------- MODULE Daemon -------------------------------
(***************************************************************************)
(* The life of 'dellfanctl run' on its host: the service manager starts    *)
(* it, it takes manual control, loops, and on a signal unwinds its         *)
(* deferred calls and hands control back.  It may be killed at any moment  *)
(* and is then started anew, while the BMC keeps the mode it was left in.  *)
(* The operator may use 'dellfanctl revert' and 'dellfanctl set-speed',    *)
(* separate processes that command the same BMC, at any time.              *)
(*                                                                         *)
(* The loop is module Controller; every command may fail as its Faults     *)
(* say, which includes a command cut off because the signal cancelled it.  *)
(***************************************************************************)
EXTENDS Controller

CONSTANTS
    RevertOnExit,   \* safety.revert_on_exit
    SetSpeeds,      \* the percents the operator may try to set
    MaxHooks        \* bound: notification hooks waited for at once

ASSUME DaemonAssumption ==
    /\ RevertOnExit \in BOOLEAN
    /\ SetSpeeds \subseteq Int
    /\ MaxHooks \in Nat \ {0}

VARIABLES
    phase,      \* where the process is; "down" if there is none
    signalled,  \* the current, or else the last, process got SIGINT or SIGTERM
    due,        \* the service manager will start the process (again)
    ended,      \* how the last process ended
    hooks,      \* notification hooks whose shell is running
    held,       \* hooks whose shell is gone, but not all that it started
    cli,        \* "idle", or "set-speed" between its two commands
    meddled     \* the operator has changed the mode since the daemon last did

Phase == {"down", "entering", "announcing", "looping", "draining", "closing", "reverting"}
Ended == {"never", "graceful", "unreverted", "error", "killed"}

loop  == <<sensed, control>>
dvars == <<vars, phase, signalled, due, ended, hooks, held, cli, meddled>>

(* The daemon's command, once acknowledged, overrules the operator's. *)
Overrules(o) == meddled' = (meddled /\ Failed(o))
Meddles(o)   == meddled' = (meddled \/ TakesEffect(o))

Exit(how) == phase' = "down" /\ ended' = how

-----------------------------------------------------------------------------
(* The process *)

\* Mutation: a killed process is not started anew
StartUnlessKilled ==
    /\ phase = "down" /\ due /\ ended # "killed"
    /\ phase' = "entering"
    /\ signalled' = FALSE
    /\ UNCHANGED <<vars, due, ended, hooks, held, cli, meddled>>

(* The service manager starts the process, or starts it anew after it      *)
(* failed (Restart=on-failure).  The loop's state is that of New.          *)
Start ==
    /\ phase = "down" /\ due
    /\ phase' = "entering"
    /\ signalled' = FALSE
    /\ seen' = {}
    /\ raw' = [s \in Sensor |-> 0]
    /\ ema' = [s \in Grouped |-> 0]
    /\ stale' = [s \in Sensor |-> 0]
    /\ consecutiveErr' = 0
    /\ fallbackActive' = FALSE
    /\ goodTicks' = 0
    /\ commandedPct' = Unset
    /\ belowHold' = 0
    /\ UNCHANGED <<bmc, due, ended, hooks, held, cli, meddled>>

\* Mutation: the error of the first command is not looked at
EnterRegardless ==
    /\ phase = "entering"
    /\ \E o \in Outcome : SetManualMode(o) /\ Overrules(o)
    /\ phase' = "announcing"
    /\ UNCHANGED <<loop, signalled, due, ended, hooks, held, cli>>

(* Run returns an error, with nothing deferred yet, if there is no enabled *)
(* group or if it is not told that the BMC is in manual mode.              *)
EnterManual ==
    /\ phase = "entering"
    /\ \E o \in Outcome :
          IF EnabledGroup = {}
          THEN Exit("error") /\ UNCHANGED <<bmc, meddled>>
          ELSE /\ SetManualMode(o)
               /\ Overrules(o)
               /\ IF Failed(o) THEN Exit("error") ELSE phase' = "announcing" /\ UNCHANGED ended
    /\ UNCHANGED <<loop, signalled, due, hooks, held, cli>>

(* PublishDiscovery waits for the broker, for a bounded time. *)
Announce ==
    /\ phase = "announcing"
    /\ phase' = "looping"
    /\ UNCHANGED <<vars, signalled, due, ended, hooks, held, cli, meddled>>

(* A tick of the loop; entering or leaving the fallback starts a hook.     *)
(* The select may take the ticker once more although the signal came.      *)
LoopTick ==
    /\ phase = "looping"
    /\ Next
    /\ IF fallbackActive' # fallbackActive
       THEN hooks + held < MaxHooks /\ hooks' = hooks + 1
       ELSE UNCHANGED hooks
    /\ meddled' = (meddled /\ ~(fallbackActive /\ ~fallbackActive'))
    /\ UNCHANGED <<phase, signalled, due, ended, held, cli>>

\* Mutations: a hook without a time limit; one whose end is counted twice
HookHangs == FALSE

HookEndsTwice ==
    /\ hooks > 0
    /\ hooks' = hooks - 2
    /\ UNCHANGED <<vars, phase, signalled, due, ended, held, cli, meddled>>

(* The shell of a hook ends, or is killed after hookTimeout.  The daemon   *)
(* goes on reading the hook's output until everything the shell started    *)
(* has closed it.                                                          *)
HookEnds ==
    /\ hooks > 0
    /\ hooks' = hooks - 1
    /\ held' \in {held, held + 1}
    /\ UNCHANGED <<vars, phase, signalled, due, ended, cli, meddled>>

HeldCloses ==
    /\ held > 0
    /\ held' = held - 1
    /\ UNCHANGED <<vars, phase, signalled, due, ended, hooks, cli, meddled>>

(* The loop ends, and the deferred calls run in turn: wait for the hooks,  *)
(* wait for the publishers and close the MQTT connection, revert.          *)
StopLoop ==
    /\ phase = "looping" /\ signalled
    /\ phase' = "draining"
    /\ UNCHANGED <<vars, signalled, due, ended, hooks, held, cli, meddled>>

DrainHooks ==
    /\ phase = "draining" /\ hooks = 0 /\ held = 0
    /\ phase' = "closing"
    /\ UNCHANGED <<vars, signalled, due, ended, hooks, held, cli, meddled>>

CloseMqtt ==
    /\ phase = "closing"
    /\ phase' = "reverting"
    /\ UNCHANGED <<vars, signalled, due, ended, hooks, held, cli, meddled>>

\* Mutation: in a fallback the BMC is taken to be in automatic mode already
RevertUnlessFallback ==
    /\ phase = "reverting"
    /\ IF ~fallbackActive
       THEN \E o \in Outcome : /\ SetAutoMode(o)
                               /\ Overrules(o)
                               /\ Exit(IF Failed(o) THEN "unreverted" ELSE "graceful")
       ELSE Exit("graceful") /\ UNCHANGED <<bmc, meddled>>
    /\ due' = FALSE
    /\ UNCHANGED <<loop, signalled, hooks, held, cli>>

(* revertOnExit, with a context of its own; an error is only logged, and   *)
(* either way the process exits with success, which ends the service.      *)
Revert ==
    /\ phase = "reverting"
    /\ IF RevertOnExit
       THEN \E o \in Outcome : /\ SetAutoMode(o)
                               /\ Overrules(o)
                               /\ Exit(IF Failed(o) THEN "unreverted" ELSE "graceful")
       ELSE Exit("unreverted") /\ UNCHANGED <<bmc, meddled>>
    /\ due' = FALSE
    /\ UNCHANGED <<loop, signalled, hooks, held, cli>>

-----------------------------------------------------------------------------
(* The host *)

(* A signal: from the service manager, which then no longer wants the      *)
(* process, or from elsewhere.                                             *)
Signal ==
    /\ phase # "down" /\ ~signalled
    /\ signalled' = TRUE
    /\ due' \in {due, FALSE}
    /\ UNCHANGED <<vars, phase, ended, hooks, held, cli, meddled>>

(* SIGKILL, a panic or a power failure; the hooks die with the process.    *)
Kill ==
    /\ phase # "down"
    /\ Exit("killed")
    /\ hooks' = 0 /\ held' = 0
    /\ UNCHANGED <<vars, signalled, due, cli, meddled>>

AdminStarts ==
    /\ phase = "down" /\ ~due
    /\ due' = TRUE
    /\ UNCHANGED <<vars, phase, signalled, ended, hooks, held, cli, meddled>>

-----------------------------------------------------------------------------
(* The operator's commands *)

CliRevert ==
    /\ cli = "idle"
    /\ \E o \in Outcome : SetAutoMode(o) /\ Meddles(o)
    /\ UNCHANGED <<loop, phase, signalled, due, ended, hooks, held, cli>>

\* set-speed takes manual control before the percent is looked at
CliSetManual ==
    /\ cli = "idle"
    /\ \E o \in Outcome : /\ SetManualMode(o)
                          /\ Meddles(o)
                          /\ cli' = IF Failed(o) THEN "idle" ELSE "set-speed"
    /\ UNCHANGED <<loop, phase, signalled, due, ended, hooks, held>>

CliSetSpeed ==
    /\ cli = "set-speed"
    /\ cli' = "idle"
    /\ \E pct \in SetSpeeds : SetFanPercent(pct)
    /\ UNCHANGED <<loop, phase, signalled, due, ended, hooks, held, meddled>>

-----------------------------------------------------------------------------
DInit ==
    /\ New
    /\ bmcMode = "auto"
    /\ zonePct = [z \in Zone |-> Unset]
    /\ phase = "down"
    /\ signalled = FALSE
    /\ due = TRUE
    /\ ended = "never"
    /\ hooks = 0 /\ held = 0
    /\ cli = "idle"
    /\ meddled = FALSE

ProcessNext ==
    \/ Start \/ EnterManual \/ Announce \/ LoopTick \/ HookEnds \/ HeldCloses
    \/ StopLoop \/ DrainHooks \/ CloseMqtt \/ Revert

HostNext == Signal \/ Kill \/ AdminStarts

CliNext == CliRevert \/ CliSetManual \/ CliSetSpeed

DNext == ProcessNext \/ HostNext \/ CliNext

(* The process is scheduled, its waits are bounded, and a select that is   *)
(* offered both its channels does not choose the ticker for ever.  The     *)
(* service manager restarts what is due.  Nothing is assumed of signals,   *)
(* kills, the operator, and of what a hook has left running.               *)
DFairness ==
    /\ WF_dvars(Start) /\ WF_dvars(EnterManual) /\ WF_dvars(Announce)
    /\ WF_dvars(LoopTick) /\ WF_dvars(HookEnds)
    /\ WF_dvars(StopLoop) /\ WF_dvars(DrainHooks) /\ WF_dvars(CloseMqtt)
    /\ WF_dvars(Revert)

DSpec == DInit /\ [][DNext]_dvars /\ DFairness

-----------------------------------------------------------------------------
(* Properties *)

DTypeOK ==
    /\ TypeOK
    /\ phase \in Phase
    /\ signalled \in BOOLEAN /\ due \in BOOLEAN
    /\ ended \in Ended
    /\ hooks \in 0 .. MaxHooks /\ held \in 0 .. MaxHooks
    /\ cli \in {"idle", "set-speed"}
    /\ meddled \in BOOLEAN

(* Unless the operator interferes, a loop that believes itself in charge   *)
(* commands a BMC in manual mode: after a restart, after a kill at any     *)
(* point, whichever commands were lost or late.                            *)
ChargeUnlessMeddled ==
    phase \in {"announcing", "looping"} /\ ~fallbackActive /\ ~meddled /\ ~DryRun
        => bmcMode = "manual"

(* A process that entered its loop, ended on a signal and was told that    *)
(* the BMC is automatic again, leaves an automatic BMC behind.             *)
GracefulExitHandsBack ==
    phase = "down" /\ ended = "graceful" /\ ~meddled /\ ~DryRun => bmcMode = "auto"

(* A signal ends the process, if whatever a hook leaves running ends too:  *)
(* no wait for a shell, for the publishers or for a command goes on for    *)
(* ever, and the ticker does not starve the signal.                        *)
SignalEndsProcess ==
    []<>(held = 0) => ((signalled /\ phase # "down") ~> (phase = "down"))

(* Once nobody kills or stops it any more and its first command no longer  *)
(* fails, a failed or killed process is replaced by one that runs its      *)
(* loop, unless the service had been stopped or a stop is still hung on a  *)
(* hook.                                                                   *)
ReplacedAfterKill ==
    <>[][~Kill /\ ~Signal /\ ~(phase = "entering" /\ phase' = "down")]_dvars
        => <>(\/ [](phase = "looping" \/ (phase = "down" /\ ~due))
             \/ [](phase = "draining" /\ held > 0))

-----------------------------------------------------------------------------
(* What the README and a comment say of the daemon *)

(* "On normal shutdown (Ctrl-C / systemctl stop) it also hands control     *)
(* back to the iDRAC before exiting, so a stopped daemon never leaves fans *)
(* stuck at a stale manual speed."                                         *)
NormalShutdownHandsBack ==
    phase = "down" /\ signalled /\ ended \in {"graceful", "error"} /\ ~meddled
        => bmcMode = "auto"

(* "don't let the process exit out from under a still-running              *)
(* on_fallback_cmd/on_recover_cmd (each is itself bounded by hookTimeout,  *)
(* so this can't hang shutdown)" (control.go)                              *)
HooksCannotHangShutdown == (phase = "draining") ~> (phase # "draining")
=============================================================================
