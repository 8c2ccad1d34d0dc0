-------------------------------- MODULE Ports --------------------------------
(* Published and exposed ports of the containers.  The library keeps an     *)
(* address as the text it was given and compares texts; only the family is  *)
(* taken from what the text stands for.  Docker listens on what it stands   *)
(* for, and an IPv6 address can be spelled in several ways.                 *)
EXTENDS RenderBase

CONSTANTS
    HostIp,     \* texts that ipaddress.ip_address accepts
    Parse,      \* Parse[ip] : the address the text stands for: [family, host]
    PortCall,   \* arguments of add_port: [bind, mode, published, target, proto, ips]
    PortalCall  \* arguments of Portals.add: [name, valid, host, port, of]

VARIABLES
    ports,    \* ports[c] : the bindings of container c
    exposed,  \* exposed[c] : the [port, proto] it exposes
    portals   \* links shown to the user: [name, host, port]

portVars == <<ports, exposed, portals>>

Family == {4, 6}
AnyOf(family) == [family |-> family, host |-> "any"]

Wildcard(family) == IF family = 4 THEN "0.0.0.0" ELSE "::"
IsWildcard(ip)   == ip \in {"0.0.0.0", "::"}
Opposite(ip)     == IF ip = "::" THEN "0.0.0.0" ELSE "::"
NoIp == ""     \* the host_ip of an entry that has none

\* An IPv4 address has one spelling.  An IPv6 address may have others, the
\* wildcard too.
ASSUME PortAssumption ==
    /\ Parse \in [HostIp -> [family : Family, host : STRING]]
    /\ {"0.0.0.0", "::"} \subseteq HostIp /\ NoIp \notin HostIp
    /\ Parse["0.0.0.0"] = AnyOf(4) /\ Parse["::"] = AnyOf(6)
    /\ \A ip, other \in HostIp : Parse[ip].family = 4 /\ Parse[ip] = Parse[other] => ip = other
    /\ \A a \in PortCall : a.ips \in Seq(STRING)

FamilyOf(ip) == Parse[ip].family

MaxPort == 65535

\* Mutation: a port that is not set is not noticed
AnyPort(n) == n \in 0..MaxPort

ValidPort(n) == n \in 1..MaxPort

Binding(published, target, proto, mode, ip) ==
    [published |-> published, target |-> target, proto |-> proto,
     mode |-> mode, ip |-> ip]

SameSocket(p, q) == p.published = q.published /\ p.proto = q.proto /\ p.ip = q.ip
SamePort(p, q) ==
    p.published = q.published /\ p.target = q.target /\ p.proto = q.proto

\* Mutation: wildcards are compared like any other address
SameSocketOnly(bound, b) == \E p \in bound : SameSocket(p, b)

\* A binding is refused when its socket is taken, when it is specific and the
\* wildcard of its family is taken, or when it is the wildcard and a specific
\* address of the family leads to the same target.
Conflicts(bound, b) ==
    LET wildcard == Wildcard(FamilyOf(b.ip))
    IN  \/ \E p \in bound : SameSocket(p, b)
        \/ /\ b.ip # wildcard
           /\ \E p \in bound : SameSocket(p, [b EXCEPT !.ip = wildcard])
        \/ /\ b.ip = wildcard
           /\ \E p \in bound : FamilyOf(p.ip) = FamilyOf(b.ip) /\ SamePort(p, b)

PortInit ==
    /\ ports = [c \in Container |-> {}]
    /\ exposed = [c \in Container |-> {}]
    /\ portals = {}

Protocol == {"tcp", "udp"}
PortMode == {"ingress", "host"}
BindMode == {"", "published", "exposed"}

\* An entry without container port or addresses gets the host port, and both
\* wildcards.
Target(a) == IF a.target = 0 THEN a.published ELSE a.target
Ips(a) == IF a.ips = <<>> THEN <<"0.0.0.0", "::">> ELSE a.ips

\* The bindings one call asks for, in the order of its addresses.
Requested(a) ==
    [i \in DOMAIN Ips(a) |->
        Binding(a.published, Target(a), a.proto, a.mode, Ips(a)[i])]

Published(c, a) ==
    LET asked == Requested(a)
        good  == /\ a.proto \in Protocol
                 /\ ValidPort(a.published)
                 /\ ValidPort(Target(a))
                 /\ \A i \in DOMAIN asked :
                        asked[i].ip \in HostIp /\ ~Conflicts(ports[c] \cup {asked[j] : j \in 1..(i - 1)}, asked[i])
    IN  \/ /\ good
           /\ ports' = [ports EXCEPT ![c] = @ \cup ToSet(asked)]
           /\ Return
           /\ UNCHANGED <<exposed, portals>>
        \/ /\ ~good
           /\ Raise
           /\ UNCHANGED portVars

Exposed(c, a) ==
    LET key  == [port |-> Target(a), proto |-> a.proto]
        good == ValidPort(key.port) /\ key.proto \in Protocol /\ key \notin exposed[c]
    IN  \/ /\ good
           /\ exposed' = [exposed EXCEPT ![c] = @ \cup {key}]
           /\ Return
           /\ UNCHANGED <<ports, portals>>
        \/ /\ ~good
           /\ Raise
           /\ UNCHANGED portVars

AddPort(c, a) ==
    /\ CallingOn("ports", c)
    /\ \/ a.bind = "" /\ Return /\ UNCHANGED portVars
       \/ a.bind = "published" /\ a.mode \in PortMode /\ Published(c, a)
       \/ a.bind = "exposed" /\ a.mode \in PortMode /\ Exposed(c, a)
       \/ /\ a.bind \notin BindMode \/ (a.bind # "" /\ a.mode \notin PortMode)
          /\ Raise
          /\ UNCHANGED portVars

\* A portal without a host of its own leads to the first address that is left
\* when each wildcard is taken out once, and only to a published port.
PortalHost(p) ==
    LET specific == RemoveFirst(RemoveFirst(p.of.ips, "::"), "0.0.0.0")
    IN  IF p.host # NoIp THEN p.host
        ELSE IF specific # <<>> THEN Head(specific) ELSE "0.0.0.0"

AddPortal(p) ==
    /\ Calling("ports")
    /\ LET port == IF p.port = 0 THEN p.of.published ELSE p.port
           good == /\ \A q \in portals : q.name # p.name
                   /\ p.valid /\ ValidPort(port)
       IN  \/ p.of.bind # "published" /\ Return /\ UNCHANGED portVars
           \/ /\ p.of.bind = "published" /\ good
              /\ portals' = portals \cup
                    {[name |-> p.name, host |-> PortalHost(p), port |-> port]}
              /\ Return
              /\ UNCHANGED <<ports, exposed>>
           \/ p.of.bind = "published" /\ ~good /\ Raise /\ UNCHANGED portVars

PortCalls ==
    \/ \E c \in names, a \in PortCall : AddPort(c, a)
    \/ \E p \in PortalCall : AddPortal(p)

-----------------------------------------------------------------------------
\* Mutation: any binding of the other family counts as its wildcard
HasOtherFamily(bound, p) ==
    \E q \in bound : FamilyOf(q.ip) # FamilyOf(p.ip) /\ SamePort(p, q)

\* A wildcard is written without host_ip when the other family has it too.
HasOppositeFamily(bound, p) ==
    \E q \in bound : q.ip = Opposite(p.ip) /\ SamePort(p, q)

RenderPorts(bound) ==
    {IF IsWildcard(p.ip) /\ HasOppositeFamily(bound, p)
     THEN [p EXCEPT !.ip = NoIp] ELSE p : p \in bound}

\* TrueNAS knows an address and port as taken by another application or
\* service; what this application itself holds, during an upgrade, is ignored,
\* and so is a middleware that does not answer.
HostRefuses(bound) ==
    /\ host.api \in {"validate_ports", "validate_port"}
    /\ \E t \in host.taken, p \in bound :
          t.by # "self" /\ t.port = p.published /\ t.ip = p.ip

\* The sockets an entry of the file makes Docker listen on.
Listens(entry) ==
    {[published |-> entry.published, target |-> entry.target, proto |-> entry.proto, at |-> at] :
        at \in IF entry.ip = NoIp THEN {AnyOf(4), AnyOf(6)} ELSE {Parse[entry.ip]}}

\* Rendering drops host_ip from a pair of wildcards and duplicates with it, but
\* the file makes Docker listen on the sockets the calls asked for, all of them
\* and no other.
BindsWhatWasAsked ==
    \A c \in Container :
        UNION {Listens(e) : e \in RenderPorts(ports[c])} = UNION {Listens(p) : p \in ports[c]}

\* Two bindings that cannot both be listened on: one port at one address, or
\* at a wildcard and an address of its family.
Overlap(p, q) ==
    /\ p # q
    /\ p.published = q.published
    /\ p.proto = q.proto
    /\ FamilyOf(p.ip) = FamilyOf(q.ip)
    /\ \/ Parse[p.ip] = Parse[q.ip]
       \/ AnyOf(FamilyOf(p.ip)) \in {Parse[p.ip], Parse[q.ip]}

\* What the comparisons of the library pass over: a wildcard that is added
\* after an address that leads to another target, for only the same target is
\* looked for in that order; and an IPv6 address, or wildcard, that is spelled
\* in a way the library does not know.
OtherTarget(p, q) == (IsWildcard(p.ip) \/ IsWildcard(q.ip)) /\ p.target # q.target
Respelled(p, q) ==
    ~IsWildcard(p.ip) /\ ~IsWildcard(q.ip) /\ FamilyOf(p.ip) = 6 /\ p.ip # q.ip

\* Bindings of a container overlap only where the library's comparison of
\* texts passes it over, whatever the order the calls came in: with every
\* address in its usual spelling, no two accepted bindings are for the same
\* address, and none is for a wildcard that another one with the same target
\* is part of.
PortsApart ==
    \A c \in Container : \A p, q \in ports[c] :
        Overlap(p, q) => p.ip # q.ip /\ (OtherTarget(p, q) \/ Respelled(p, q))
=============================================================================
