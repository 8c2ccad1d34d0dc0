------------------------------ MODULE FailSafe ------------------------------
(***************************************************************************)
(* What the control loop promises, whatever its sensors, groups and curves *)
(* are: whenever a tick finds danger, the iDRAC is put in charge and the   *)
(* daemon claims no fan speed; the daemon takes control back only on a     *)
(* tick that finds everything clear; while in charge it keeps the speed in *)
(* the configured range and moves it by at most one step per tick.         *)
(***************************************************************************)
EXTENDS Integers

CONSTANTS Lowest, Highest, StepUp, StepDown

VARIABLES
    danger,     \* what the last tick found: "trip", "wary" or "clear"
    inCharge,   \* who drives the fans, as far as the daemon can know
    speed       \* the speed the daemon claims to have commanded, or Unset

fsVars == <<danger, inCharge, speed>>

Unset == -1

HandOver ==
    /\ danger' = "trip"
    /\ inCharge' = "idrac"
    /\ speed' = Unset

Wait ==
    /\ inCharge = "idrac"
    /\ danger' \in {"wary", "clear"}
    /\ UNCHANGED <<inCharge, speed>>

TakeBack ==
    /\ inCharge = "idrac"
    /\ danger' = "clear"
    /\ inCharge' = "daemon"
    /\ UNCHANGED speed

(* A speed, once claimed, is only ever moved. *)
Drive ==
    /\ inCharge = "daemon"
    /\ danger' \in {"wary", "clear"}
    /\ \/ speed = Unset /\ speed' \in {Unset} \cup Lowest .. Highest
       \/ speed # Unset /\ speed' \in Lowest .. Highest
                        /\ speed' \in speed - StepDown .. speed + StepUp
    /\ UNCHANGED inCharge

FSInit ==
    /\ danger \in {"wary", "clear"}
    /\ inCharge = "daemon"
    /\ speed = Unset

FSNext == HandOver \/ Wait \/ TakeBack \/ Drive

Safety == FSInit /\ [][FSNext]_fsVars

(* Nothing but danger keeps the daemon from being in charge. *)
TakesBack == <>[](danger = "clear") => <>[](inCharge = "daemon")

FSSpec == Safety /\ TakesBack
=============================================================================
