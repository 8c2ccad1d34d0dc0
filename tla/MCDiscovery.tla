----------------------------- MODULE MCDiscovery -----------------------------
(* Two processors whose sensors have one name, two disks, a fan and an      *)
(* inlet, some of which come and go.                                        *)
EXTENDS Discovery

Ipmi(name, base, class, reading) ==
    [source |-> "ipmi", name |-> name, base |-> base, class |-> class, reading |-> reading]
Smart(device, reading) ==
    [source |-> "smart", name |-> device, base |-> "disk", class |-> "disk", reading |-> reading]

Temp(reading) == Ipmi("Temp", "cpu", "cpu", reading)

MCProbe ==
    {<<Temp(r), Temp(TRUE), Ipmi("Fan1", "fan", "fan", TRUE), Smart("0", d), Smart("1", e)>> :
        r, d, e \in BOOLEAN}
    \cup {<<Temp(TRUE), Ipmi("Inlet", "inlet", "inlet", TRUE)>>, <<Temp(FALSE)>>}

MCCustomIds == {{<<"disk", 1>>}, {<<"disk", 2>>, <<"cpu", 1>>}}
=============================================================================
