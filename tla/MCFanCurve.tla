------------------------------ MODULE MCFanCurve ------------------------------
(* Every curve of up to MaxPoints points, at every temperature: the state  *)
(* is a curve and a temperature, and the temperature jumps about.          *)
EXTENDS FanCurve, FiniteSetsExt

CONSTANTS Temps, Percents, MaxPoints

(* The code's are float64s; the model takes whole degrees and percents.    *)
ASSUME CurveAssumption == Temps \subseteq Int /\ Percents \subseteq Int /\ MaxPoints \in Nat

VARIABLES curve, temp

Curves == {c \in UNION {[1 .. n -> [tempC : Temps, fanPct : Percents]] : n \in 1 .. MaxPoints} :
              ValidCurve(c)}

Probe == (Min(Temps) - 1) .. (Max(Temps) + 1)

CInit == curve \in Curves /\ temp \in Probe

CNext == temp' \in Probe \ {temp} /\ UNCHANGED curve

CSpec == CInit /\ [][CNext]_<<curve, temp>>

Pct == Interpolate(curve, temp)

-----------------------------------------------------------------------------
(* The interpolated percent is the polyline's: on a curve of distinct      *)
(* temperatures it is, rounded down, on the chord of two neighbouring      *)
(* points around temp, and that of the end points outside.                 *)
OnThePolyline ==
    (\A i \in 1 .. Len(curve) - 1 : curve[i].tempC < curve[i+1].tempC) =>
        \/ temp <= curve[1].tempC /\ Pct = curve[1].fanPct
        \/ temp >= curve[Len(curve)].tempC /\ Pct = curve[Len(curve)].fanPct
        \/ \E i \in 1 .. Len(curve) - 1 :
              LET run  == curve[i+1].tempC - curve[i].tempC
                  rise == (temp - curve[i].tempC) * (curve[i+1].fanPct - curve[i].fanPct)
              IN  /\ temp \in curve[i].tempC .. curve[i+1].tempC
                  /\ (Pct - curve[i].fanPct) * run <= rise
                  /\ rise < (Pct - curve[i].fanPct + 1) * run

(* However the points lie, duplicate temperatures included, the percent is *)
(* between the lowest and the highest of the curve.                        *)
WithinTheCurve ==
    \E i, j \in DOMAIN curve : Pct \in curve[i].fanPct .. curve[j].fanPct

(* If no point asks for less than the one before it, a hotter reading      *)
(* never asks for less than a cooler one, duplicate temperatures included. *)
HotterNeverSlower ==
    [][(\A i \in 1 .. Len(curve) - 1 : curve[i].fanPct <= curve[i+1].fanPct)
          /\ temp < temp'
       => Pct <= Pct']_<<curve, temp>>
=============================================================================
