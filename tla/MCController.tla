---------------------------- MODULE MCController ----------------------------
(* Small instances of the control loop for TLC. *)
EXTENDS Controller

Ipmi(class, required, crit, rpm) ==
    [source |-> "ipmi", class |-> class, required |-> required,
     disabled |-> FALSE, critC |-> crit, minRPM |-> rpm]

Smart(required) ==
    [source |-> "smart", class |-> "disk", required |-> required,
     disabled |-> FALSE, critC |-> 0, minRPM |-> 0]

Point(t, p) == [tempC |-> t, fanPct |-> p]

GroupOf(sensors, aggregation, curve) ==
    [enabled |-> TRUE, sensors |-> sensors, aggregation |-> aggregation, curve |-> curve]

\* A required CPU and a fan that is watched for failure.  The CPU is critical
\* at 4 and clear below 3.
GuardSensor   == {"cpu", "fan"}
GuardCfg      == [cpu |-> Ipmi("cpu", TRUE, 4, 0), fan |-> Ipmi("fan_rpm", FALSE, 0, 2)]
GuardReadings == [cpu |-> {2, 3, 4}, fan |-> {1, 2}]
GuardGroup    == [main |-> GroupOf({"cpu"}, "max", <<Point(2, 2), Point(3, 5)>>)]

\* A critical temperature and a fan watched for failure, two enabled groups
\* that share a disk, a disabled sensor and a disabled group.
LoopSensor   == {"cpu", "disk", "spare"}
LoopCfg      == [cpu   |-> Ipmi("cpu", TRUE, 3, 0),
                 disk  |-> Smart(FALSE),
                 spare |-> [Smart(TRUE) EXCEPT !.disabled = TRUE]]
LoopReadings == [cpu |-> {1, 2, 3}, disk |-> {1, 3}, spare |-> {9}]
LoopGroup    ==
    [all   |-> GroupOf({"cpu", "disk"}, "avg", <<Point(1, 1), Point(3, 9)>>),
     disks |-> GroupOf({"disk", "spare"}, "min", <<Point(2, 4), Point(3, 8)>>),
     off   |-> [GroupOf({"cpu"}, "max", <<>>) EXCEPT !.enabled = FALSE]]
=============================================================================
