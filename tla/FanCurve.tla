------------------------------ MODULE FanCurve ------------------------------
(***************************************************************************)
(* Piecewise-linear fan curves (internal/curve).  A curve is a sequence of *)
(* points [tempC, fanPct]; temperatures and percents are integers, so the  *)
(* quotient of the interpolation is rounded down to the grid the model is  *)
(* run on, where the code keeps a float64.                                 *)
(***************************************************************************)
EXTENDS Integers, Sequences

(* Mutations that the properties are tested with: a scan that keeps the    *)
(* first match, a weight taken from the wrong end, and the wrong end as    *)
(* the base.                                                               *)
FirstMatch(points, I) == CHOOSE i \in I : \A j \in I : i <= j

WeighedFromRight(left, right, temp) ==
    IF left.tempC = right.tempC
    THEN left.fanPct
    ELSE left.fanPct + ((right.tempC - temp) * (right.fanPct - left.fanPct))
                           \div (right.tempC - left.tempC)

BasedOnRight(left, right, temp) ==
    IF left.tempC = right.tempC
    THEN left.fanPct
    ELSE right.fanPct + ((temp - left.tempC) * (right.fanPct - left.fanPct))
                            \div (right.tempC - left.tempC)

(* The index, among indices I of points, of the first point that has the   *)
(* lowest (highest) temperature: the scans compare strictly, so of several *)
(* points with one temperature the first stays chosen.                     *)
Coolest(points, I) ==
    CHOOSE i \in I : \A j \in I :
        \/ points[i].tempC < points[j].tempC
        \/ points[i].tempC = points[j].tempC /\ i <= j

Hottest(points, I) ==
    CHOOSE i \in I : \A j \in I :
        \/ points[i].tempC > points[j].tempC
        \/ points[i].tempC = points[j].tempC /\ i <= j

(* The value at temp of the segment from the point left to the point right *)
Between(left, right, temp) ==
    IF left.tempC = right.tempC
    THEN left.fanPct
    ELSE left.fanPct + ((temp - left.tempC) * (right.fanPct - left.fanPct))
                           \div (right.tempC - left.tempC)

(* curve.Interpolate: constant below the coolest and above the hottest     *)
(* point, and in between on the segment that brackets temp most tightly.   *)
Interpolate(points, temp) ==
    LET I  == DOMAIN points
        lo == points[Coolest(points, I)]
        hi == points[Hottest(points, I)]
    IN  IF points = <<>> THEN 0
        ELSE IF temp <= lo.tempC THEN lo.fanPct
        ELSE IF temp >= hi.tempC THEN hi.fanPct
        ELSE Between(points[Hottest(points, {i \in I : points[i].tempC <= temp})],
                     points[Coolest(points, {i \in I : points[i].tempC >= temp})],
                     temp)

(* The curves Config.Validate lets an enabled group have: at least one     *)
(* point, in ascending order of temperature, equal temperatures allowed.   *)
ValidCurve(points) ==
    /\ Len(points) >= 1
    /\ \A i \in 1 .. Len(points) - 1 : points[i].tempC <= points[i+1].tempC
=============================================================================
