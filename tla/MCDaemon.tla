------------------------------- MODULE MCDaemon -------------------------------
(* A small instance of the daemon on its host for TLC: one required CPU    *)
(* sensor that is either cool or critical.                                 *)
EXTENDS Daemon

OneSensor   == {"cpu"}
OneCfg      == [cpu |-> [source |-> "ipmi", class |-> "cpu", required |-> TRUE,
                         disabled |-> FALSE, critC |-> 2, minRPM |-> 0]]
OneReadings == [cpu |-> {1, 2}]
OneGroup    == [main |-> [enabled |-> TRUE, sensors |-> {"cpu"}, aggregation |-> "max",
                          curve |-> <<[tempC |-> 1, fanPct |-> 2]>>]]
=============================================================================
