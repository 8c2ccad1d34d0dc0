------------------------------- MODULE Networks -------------------------------
(* Networks of the application, and which container joins which.  A network *)
(* is [name, internal]: an internal one is created with the application and *)
(* its name carries a prefix, the others exist in Docker before it.         *)
EXTENDS RenderBase

CONSTANTS
    NetName,     \* names a template or the user may use
    JoinConfig,  \* attributes of a join a template may pass, and whether they
                 \* are well-formed
    None         \* an attribute that is not set

ASSUME NetAssumption ==
    /\ NetName \subseteq STRING
    /\ \A h \in HostChoice : h.networks \subseteq [name : STRING, internal : BOOLEAN]

VARIABLES
    networks,  \* networks the compose file will declare
    joined,    \* joined[c] : the joins of container c
    netMode    \* netMode[c] : "", "host", "none" or the service whose stack c shares

netVars == <<networks, joined, netMode>>

External(n) == [name |-> n, internal |-> FALSE]
Internal(n) == [name |-> n, internal |-> TRUE]

\* Attributes no two networks of a container may have in common.
Exclusive == {"interface", "mac", "ipv4", "ipv6", "gw_priority", "priority"}

NetInit ==
    /\ networks = {}
    /\ joined = [c \in Container |-> {}]
    /\ netMode = [c \in Container |-> ""]

-----------------------------------------------------------------------------
\* Every network of the values is registered, once, and must exist in Docker.
Registrable(nets) ==
    \A i \in DOMAIN nets :
        /\ External(nets[i].net) \in host.networks
        /\ \A j \in 1..(i - 1) : nets[j].net # nets[i].net

RegisterAll ==
    \/ /\ Registrable(values.nets)
       /\ networks' = {External(values.nets[i].net) : i \in DOMAIN values.nets}
       /\ Return
    \/ ~Registrable(values.nets) /\ Raise /\ UNCHANGED networks

Register(n) ==
    /\ Calling("net")
    /\ LET good == External(n) \in host.networks \ networks
       IN  \/ good /\ networks' = networks \cup {External(n)} /\ Return
           \/ ~good /\ Raise /\ UNCHANGED networks
    /\ UNCHANGED <<joined, netMode>>

CreateInternal(n) ==
    /\ Calling("net")
    /\ \/ Internal(n) \notin networks /\ networks' = networks \cup {Internal(n)} /\ Return
       \/ Internal(n) \in networks /\ Raise /\ UNCHANGED networks
    /\ UNCHANGED <<joined, netMode>>

\* A join conflicts with another of the container when they agree on an
\* attribute both set or share an alias.
Clash(j, k) ==
    \/ \E a \in Exclusive : j.cfg[a] # None /\ j.cfg[a] = k.cfg[a]
    \/ ToSet(j.cfg.aliases) \cap ToSet(k.cfg.aliases) # {}

\* Mutation: only the networks of the joins are compared
JoinableByName(nets, have, join) ==
    join.net \in nets /\ \A k \in have : join.net # k.net

Joinable(nets, have, join) ==
    /\ join.net \in nets
    /\ \A k \in have : join.net # k.net /\ ~Clash(join, k)

AddNetwork(c, net, cfg) ==
    /\ CallingOn("net", c)
    /\ LET join == [net |-> net, cfg |-> cfg]
           good == Joinable(networks, joined[c], join)
       IN  \/ good /\ joined' = [joined EXCEPT ![c] = @ \cup {join}] /\ Return
           \/ ~good /\ Raise /\ UNCHANGED joined
    /\ UNCHANGED <<networks, netMode>>

ValidMode(mode) == mode \in {"host", "none"} \cup names

SetNetworkMode(c, mode) ==
    /\ CallingOn("net", c)
    /\ \/ ValidMode(mode) /\ netMode' = [netMode EXCEPT ![c] = mode] /\ Return
       \/ ~ValidMode(mode) /\ Raise /\ UNCHANGED netMode
    /\ UNCHANGED <<networks, joined>>

-----------------------------------------------------------------------------
\* The joins of a container the values ask for, in the order of the networks,
\* which its constructor makes.
AutoJoins(c) ==
    [i \in DOMAIN values.nets |->
        {[net |-> External(values.nets[i].net), cfg |-> m.cfg] :
            m \in {x \in values.nets[i].members : x.container = c}}]

AutoJoined(c) == UNION {AutoJoins(c)[i] : i \in DOMAIN values.nets}

AutoJoinable(c) ==
    /\ \A i \in DOMAIN values.nets : values.nets[i].members # {}
    /\ \A j, k \in AutoJoined(c) : j # k => j.net # k.net /\ ~Clash(j, k)

AutoMode == IF values.hostNetwork THEN "host" ELSE ""

NetCalls ==
    \/ \E n \in NetName : Register(n) \/ CreateInternal(n)
    \/ \E c \in names, n \in NetName, cfg \in JoinConfig, internal \in BOOLEAN :
           AddNetwork(c, [name |-> n, internal |-> internal], cfg)
    \/ \E c \in names, mode \in {"host", "none"} \cup Container : SetNetworkMode(c, mode)

\* Docker resolves aliases and addresses per container: the joins of a
\* container are to different networks, all declared, and agree on no
\* exclusive attribute and no alias.
JoinsApart ==
    \A c \in Container : \A j \in joined[c] :
        /\ j.net \in networks
        /\ \A k \in joined[c] \ {j} : j.net # k.net /\ ~Clash(j, k)

\* Aliases given twice for one network and malformed addresses are only found
\* when the join is rendered.
BadJoin(joins) ==
    \E j \in joins :
        ~j.cfg.valid \/ \E i, k \in DOMAIN j.cfg.aliases : i # k /\ j.cfg.aliases[i] = j.cfg.aliases[k]
=============================================================================
