---------------------------- MODULE RendererProofs ----------------------------
(***************************************************************************)
(* Proofs about the rendering library, for every set of calls a template   *)
(* may make, every input of the user and every number of calls.            *)
(***************************************************************************)
EXTENDS Renderer, TLAPS

-----------------------------------------------------------------------------
(* Which steps change what *)

(* The calls of a template only change the ports through add_port.         *)
LEMMA OnlyPortCallsChangePorts ==
    RNext => PortStep \/ UNCHANGED ports
  <1> SUFFICES ASSUME RNext, ~PortStep PROVE UNCHANGED ports
    OBVIOUS
  <1> USE DEF portVars
  <1>1. CASE Start
    BY <1>1 DEF Start
  <1>2. CASE NetStep \/ MountStep \/ ServiceStep
    BY <1>2 DEF NetStep, MountStep, ServiceStep
  <1>3. CASE ContainerStep
    BY <1>3 DEF ContainerStep, AddContainer, Place, Abort, SetupAsHelper, AddDockerSocket
  <1>4. CASE StoreStep
    <2>1. ASSUME NEW a \in ActionCall, AddAction(a) PROVE UNCHANGED ports
      BY <2>1 DEF AddAction
    <2>2. CASE Activate
      BY <2>2 DEF Activate, Place, Abort
    <2>3. ASSUME NEW s \in StoreCall, AddStore(s) PROVE UNCHANGED ports
      BY <2>3 DEF AddStore, Place, Abort
    <2>4. ASSUME NEW s \in StoreCall, AddPostgres(s) PROVE UNCHANGED ports
      BY <2>4 DEF AddPostgres, Place, Abort
    <2>5. ASSUME NEW s \in stores, NEW on \in Container, NEW cond \in Condition,
                 AddStoreDependency(s, on, cond)
          PROVE UNCHANGED ports
      BY <2>5 DEF AddStoreDependency
    <2> QED
      BY <1>4, <2>1, <2>2, <2>3, <2>4, <2>5 DEF StoreStep
  <1>5. CASE NoteStep
    BY <1>5 DEF NoteStep, AddNote, ChangeValues
  <1>6. CASE RenderFile
    BY <1>6 DEF RenderFile
  <1> QED
    BY <1>1, <1>2, <1>3, <1>4, <1>5, <1>6 DEF RNext

(* A call is made while building, under the same values, and returns or    *)
(* fails.                                                                  *)
GoesOn == phase = "building" /\ phase' \in {"building", "failed"} /\ UNCHANGED values

Going == GoesOn /\ UNCHANGED <<names, host, kinds>>

LEMMA ServiceCallsGoOn ==
    ASSUME ServiceCalls
    PROVE  Going
  <1> USE DEF GoesOn, Going, CallingOn, Calling, Return, Raise
  <1>1. ASSUME NEW c \in names, NEW s, Set(c, s) PROVE Going
    BY <1>1 DEF Set
  <1>2. ASSUME NEW c \in names, NEW g, AddGroup(c, g) PROVE Going
    BY <1>2 DEF AddGroup
  <1>3. ASSUME NEW c \in names, NEW d, AddDevice(c, d) PROVE Going
    BY <1>3 DEF AddDevice
  <1>4. ASSUME NEW c \in names, NEW path, AddManagedDevice(c, path) PROVE Going
    BY <1>4 DEF AddManagedDevice
  <1>5. ASSUME NEW c \in names, AddSndDevice(c) \/ RemoveDevices(c) PROVE Going
    BY <1>5 DEF AddSndDevice, RemoveDevices
  <1>6. ASSUME NEW c \in names, NEW n, NEW origin, AddEnv(c, origin, n) \/ RemoveAutoEnv(c, n)
        PROVE  Going
    BY <1>6 DEF AddEnv, RemoveAutoEnv
  <1>7. ASSUME NEW c \in names, NEW t, SetTest(c, t) PROVE Going
    BY <1>7 DEF SetTest
  <1>8. ASSUME NEW c \in names, DisableHealthcheck(c) \/ UseBuiltIn(c) PROVE Going
    BY <1>8 DEF DisableHealthcheck, UseBuiltIn, SwitchHealth
  <1>9. ASSUME NEW c \in names, NEW on, NEW cond, AddDependency(c, on, cond) PROVE Going
    BY <1>9 DEF AddDependency
  <1>10. ASSUME NEW c \in names, NEW reg, NEW e, NEW valid, AddEntry(c, reg, e, valid)
         PROVE  Going
    BY <1>10 DEF AddEntry
  <1>11. ASSUME NEW c \in names, NEW e \in EntryCall,
                \/ AddCap(c, e) \/ AddLabel(c, e) \/ AddSysctl(c, e)
                \/ AddSecurityOpt(c, e) \/ AddExtraHost(c, e) \/ AddDnsOpt(c, e)
                \/ AddDnsSearch(c, e) \/ AddNameserver(c, e) \/ AddCgroupRule(c, e)
                \/ RemoveSecurityOpt(c, e.key)
         PROVE  Going
    <2>1. CASE RemoveSecurityOpt(c, e.key)
      BY <2>1 DEF RemoveSecurityOpt
    <2> HIDE DEF Going
    <2> QED
      BY <1>10, <1>11, <2>1 DEF AddCap, AddLabel, AddSysctl, AddSecurityOpt, AddExtraHost,
         AddDnsOpt, AddDnsSearch, AddNameserver, AddCgroupRule
  <1>12. ASSUME NEW c \in names, ClearCaps(c) PROVE Going
    BY <1>12 DEF ClearCaps
  <1>13. ASSUME UseBuiltInElsewhere PROVE Going
    BY <1>13 DEF UseBuiltInElsewhere
  <1> HIDE DEF Going
  <1> QED
    BY <1>1, <1>2, <1>3, <1>4, <1>5, <1>6, <1>7, <1>8, <1>9, <1>11, <1>12, <1>13
       DEF ServiceCalls

(* Rendering starts once and ends once: every other step is a call.        *)
LEMMA StepsOfARendering ==
    ASSUME RNext
    PROVE  Start \/ RenderFile \/ GoesOn
  <1> USE DEF GoesOn, CallingOn, Calling, Return, Raise, Abort
  <1>1. CASE PortStep
    BY <1>1, ZenonT(30) DEF PortStep, PortCalls, AddPort, Published, Exposed, AddPortal
  <1>2. CASE NetStep
    BY <1>2 DEF NetStep, NetCalls, Register, CreateInternal, AddNetwork, SetNetworkMode
  <1>3. CASE MountStep
    <2>1. ASSUME NEW c \in names, NEW path, NEW cfg, AddStorage(c, path, cfg) PROVE GoesOn
      BY <2>1 DEF AddStorage, AddMount, AddTmpfs
    <2>2. ASSUME NEW c \in names, AddUdev(c, "/run/udev") PROVE GoesOn
      BY <2>2 DEF AddUdev, AddMount
    <2>3. ASSUME NEW c \in names, NEW name, NEW data, NEW target,
                 AddConfig(c, name, data, target)
          PROVE  GoesOn
      BY <2>3 DEF AddConfig
    <2> HIDE DEF GoesOn
    <2> QED
      BY <1>3, <2>1, <2>2, <2>3 DEF MountStep, MountCalls
  <1>4. CASE ServiceStep
    BY <1>4, ServiceCallsGoOn DEF ServiceStep, Going
  <1>5. CASE ContainerStep
    <2>1. ASSUME NEW c \in TemplateName, NEW image \in Image, AddContainer(c, image)
          PROVE  GoesOn
      BY <2>1 DEF AddContainer, Place
    <2>2. ASSUME NEW c \in names, NEW profile, NEW cut, SetupAsHelper(c, profile, cut)
          PROVE  GoesOn
      BY <2>2 DEF SetupAsHelper
    <2>3. ASSUME NEW c \in names, AddDockerSocket(c, "/var/run/docker.sock") PROVE GoesOn
      BY <2>3 DEF AddDockerSocket
    <2> HIDE DEF GoesOn
    <2> QED
      BY <1>5, <2>1, <2>2, <2>3 DEF ContainerStep
  <1>6. CASE StoreStep
    <2>1. ASSUME NEW a \in ActionCall, AddAction(a) PROVE GoesOn
      BY <2>1 DEF AddAction
    <2>2. ASSUME Activate PROVE GoesOn
      BY <2>2 DEF Activate, Place
    <2>3. ASSUME NEW s \in StoreCall, AddStore(s) PROVE GoesOn
      BY <2>3 DEF AddStore, Place
    <2>4. ASSUME NEW s \in StoreCall, AddPostgres(s) PROVE GoesOn
      BY <2>4 DEF AddPostgres, Place
    <2>5. ASSUME NEW s \in stores, NEW on \in Container, NEW cond \in Condition,
                 AddStoreDependency(s, on, cond)
          PROVE  GoesOn
      BY <2>5 DEF AddStoreDependency
    <2> HIDE DEF GoesOn
    <2> QED
      BY <1>6, <2>1, <2>2, <2>3, <2>4, <2>5 DEF StoreStep
  <1>7. CASE NoteStep
    BY <1>7 DEF NoteStep, AddNote, ChangeValues
  <1> HIDE DEF GoesOn
  <1> QED
    BY <1>1, <1>2, <1>3, <1>4, <1>5, <1>6, <1>7 DEF RNext

-----------------------------------------------------------------------------
(* Ports *)

IsBinding(p) ==
    p.ip \in HostIp /\ p = Binding(p.published, p.target, p.proto, p.mode, p.ip)

(* The inductive invariant: bindings are well-formed and apart. *)
PortsInv ==
    /\ ports = [c \in Container |-> ports[c]]
    /\ \A c \in Container : \A p \in ports[c] : IsBinding(p)
    /\ PortsApart

Apart(p, q) ==
    Overlap(p, q) => p.ip # q.ip /\ (OtherTarget(p, q) \/ Respelled(p, q))

LEMMA OtherAddress ==
    ASSUME NEW b, IsBinding(b), NEW ip
    PROVE  LET d == [b EXCEPT !.ip = ip]
           IN  /\ d.published = b.published /\ d.target = b.target
               /\ d.proto = b.proto /\ d.ip = ip
  <1>1. b = Binding(b.published, b.target, b.proto, b.mode, b.ip)
    BY DEF IsBinding
  <1> QED
    BY <1>1 DEF Binding

(* What the texts stand for: only an IPv6 address has several spellings.   *)
LEMMA Spellings ==
    ASSUME NEW ip \in HostIp, NEW other \in HostIp
    PROVE  /\ FamilyOf(ip) \in Family
           /\ IsWildcard(ip) <=> ip = Wildcard(FamilyOf(ip))
           /\ IsWildcard(ip) => Parse[ip] = AnyOf(FamilyOf(ip))
           /\ FamilyOf(ip) = 4 /\ Parse[ip] = Parse[other] => ip = other
           /\ FamilyOf(ip) = 4 /\ Parse[ip] = AnyOf(4) => ip = "0.0.0.0"
  <1>1. FamilyOf(ip) \in Family
    BY PortAssumption DEF FamilyOf
  <1>2. /\ {"0.0.0.0", "::"} \subseteq HostIp
        /\ Parse["0.0.0.0"] = AnyOf(4) /\ Parse["::"] = AnyOf(6)
        /\ AnyOf(4).family = 4 /\ AnyOf(6).family = 6
    BY PortAssumption DEF AnyOf
  <1>3. \A x \in HostIp : FamilyOf(ip) = 4 /\ Parse[ip] = Parse[x] => ip = x
    BY PortAssumption DEF FamilyOf
  <1> QED
    BY <1>1, <1>2, <1>3 DEF IsWildcard, Wildcard, FamilyOf, Family

(* What add_port accepts is apart from what was there, in either order,    *)
(* although the test itself is not symmetric, but for what it passes over. *)
LEMMA AcceptedIsApart ==
    ASSUME NEW bound, NEW p \in bound, NEW b, IsBinding(p), IsBinding(b),
           ~Conflicts(bound, b)
    PROVE  Apart(p, b) /\ Apart(b, p)
  <1> DEFINE wildcard == Wildcard(FamilyOf(b.ip))
  <1>1. p.ip # b.ip \/ ~(p.published = b.published /\ p.proto = b.proto)
    BY DEF Conflicts, SameSocket
  <1>2. ASSUME Overlap(p, b) \/ Overlap(b, p)
        PROVE  p.ip # b.ip /\ (OtherTarget(p, b) \/ Respelled(p, b))
    <2>1. /\ p.published = b.published /\ p.proto = b.proto /\ p.ip # b.ip
          /\ FamilyOf(p.ip) = FamilyOf(b.ip)
          /\ \/ Parse[p.ip] = Parse[b.ip]
             \/ Parse[p.ip] = AnyOf(FamilyOf(b.ip)) \/ Parse[b.ip] = AnyOf(FamilyOf(b.ip))
      BY <1>1, <1>2 DEF Overlap
    <2>2. p.ip \in HostIp /\ b.ip \in HostIp
      BY DEF IsBinding
    <2>3. CASE IsWildcard(b.ip)
      <3>1. b.ip = wildcard
        BY <2>2, <2>3, Spellings
      <3>2. p.target # b.target
        BY <2>1, <3>1 DEF Conflicts, SamePort
      <3> QED
        BY <2>1, <2>3, <3>2 DEF OtherTarget
    <2>4. CASE ~IsWildcard(b.ip) /\ IsWildcard(p.ip)
      <3>1. p.ip = wildcard /\ b.ip # wildcard
        BY <2>1, <2>2, <2>4, Spellings
      <3>2. SameSocket(p, [b EXCEPT !.ip = wildcard])
        <4> HIDE DEF wildcard
        <4> QED
          BY <2>1, <3>1, OtherAddress DEF SameSocket
      <3> QED
        BY <3>1, <3>2 DEF Conflicts
    <2>5. CASE ~IsWildcard(b.ip) /\ ~IsWildcard(p.ip)
      <3>1. FamilyOf(p.ip) # 4
        BY <2>1, <2>2, <2>5, Spellings DEF IsWildcard
      <3>2. FamilyOf(p.ip) = 6
        BY <2>2, <3>1, Spellings DEF Family
      <3> QED
        BY <2>1, <2>5, <3>2 DEF Respelled
    <2> QED
      BY <2>3, <2>4, <2>5
  <1>3. Overlap(p, b) \/ Overlap(b, p) => FamilyOf(p.ip) = FamilyOf(b.ip)
    BY DEF Overlap
  <1> QED
    BY <1>2, <1>3 DEF Apart, OtherTarget, Respelled

(* The bindings a call asks for, and the order they are made in. *)
LEMMA RequestedTypes ==
    ASSUME NEW a \in PortCall, NEW i \in DOMAIN Requested(a), Requested(a)[i].ip \in HostIp
    PROVE  i \in Nat \ {0} /\ IsBinding(Requested(a)[i])
  <1>1. i \in DOMAIN Ips(a)
    BY DEF Requested
  <1>2. i \in Nat \ {0}
    <2>1. CASE a.ips = <<>>
      <3>1. Ips(a) = <<"0.0.0.0", "::">>
        BY <2>1 DEF Ips
      <3> QED
        BY <1>1, <3>1
    <2>2. CASE a.ips # <<>>
      <3>1. Ips(a) = a.ips /\ a.ips \in Seq(STRING)
        BY <2>2, PortAssumption DEF Ips
      <3> QED
        BY <1>1, <3>1
    <2> QED
      BY <2>1, <2>2
  <1>3. Requested(a)[i] = Binding(a.published, Target(a), a.proto, a.mode, Ips(a)[i])
    BY <1>1 DEF Requested
  <1> QED
    BY <1>2, <1>3 DEF IsBinding, Binding

LEMMA AddPortKeepsPortsInv ==
    ASSUME PortsInv, NEW c \in names, NEW a \in PortCall, AddPort(c, a)
    PROVE  PortsInv'
  <1> USE DEF PortsInv
  <1>1. CASE UNCHANGED ports
    BY <1>1 DEF PortsApart
  <1>2. CASE a.mode \in PortMode /\ Published(c, a) /\ ~UNCHANGED ports
    <2> DEFINE asked == Requested(a)
               before(i) == ports[c] \cup {asked[j] : j \in 1 .. (i - 1)}
    <2>1. /\ a.proto \in Protocol /\ ValidPort(a.published) /\ ValidPort(Target(a))
          /\ \A i \in DOMAIN asked :
                 asked[i].ip \in HostIp /\ ~Conflicts(before(i), asked[i])
          /\ ports' = [ports EXCEPT ![c] = @ \cup ToSet(asked)]
      BY <1>2 DEF Published, portVars
    <2>2. \A i \in DOMAIN asked : i \in Nat \ {0} /\ IsBinding(asked[i])
      BY <1>2, <2>1, RequestedTypes
    <2>3. ToSet(asked) = {asked[i] : i \in DOMAIN asked}
      BY DEF ToSet
    <2> HIDE DEF asked
    <2>4. /\ ports' = [d \in Container |-> ports'[d]]
           /\ \A d \in Container : \A p \in ports'[d] : IsBinding(p)
      BY <2>1, <2>2, <2>3
    <2>5. \A d \in Container : d # c => ports'[d] = ports[d]
      BY <2>1
    <2>6. ASSUME c \in Container, NEW p \in ports'[c], NEW q \in ports'[c]
          PROVE  Apart(p, q)
      <3>1. ports'[c] = ports[c] \cup {asked[i] : i \in DOMAIN asked}
        BY <2>1, <2>3, <2>6
      <3>2. IsBinding(p) /\ IsBinding(q)
        BY <2>4, <2>6
      <3>3. CASE p \in ports[c] /\ q \in ports[c]
        BY <2>6, <3>3 DEF PortsApart, Apart
      <3>4. ASSUME NEW i \in DOMAIN asked, p \in ports[c], q = asked[i]
            PROVE  Apart(p, q)
        BY <2>1, <3>2, <3>4, AcceptedIsApart
      <3>5. ASSUME NEW i \in DOMAIN asked, q \in ports[c], p = asked[i]
            PROVE  Apart(p, q)
        BY <2>1, <3>2, <3>5, AcceptedIsApart
      <3>6. ASSUME NEW i \in DOMAIN asked, NEW j \in DOMAIN asked,
                   p = asked[i], q = asked[j]
            PROVE  Apart(p, q)
        <4>1. CASE i < j
          <5>1. p \in before(j)
            BY <2>2, <3>6, <4>1
          <5> QED
            BY <2>1, <3>2, <3>6, <5>1, AcceptedIsApart
        <4>2. CASE j < i
          <5>1. q \in before(i)
            BY <2>2, <3>6, <4>2
          <5> QED
            BY <2>1, <3>2, <3>6, <5>1, AcceptedIsApart
        <4>3. CASE i = j
          BY <3>6, <4>3 DEF Apart, Overlap
        <4> QED
          BY <2>2, <3>6, <4>1, <4>2, <4>3
      <3> QED
        BY <3>1, <3>3, <3>4, <3>5, <3>6
    <2>7. ASSUME NEW d \in Container, NEW p \in ports'[d], NEW q \in ports'[d]
          PROVE  Apart(p, q)
      BY <2>5, <2>6, <2>7 DEF PortsApart, Apart
    <2> QED
      BY <2>4, <2>7 DEF PortsApart, Apart, Overlap
  <1> QED
    BY <1>1, <1>2 DEF AddPort, Exposed, portVars

LEMMA PortsInvHolds == RSpec => []PortsInv
  <1>1. RInit => PortsInv
    BY DEF RInit, PortInit, PortsInv, PortsApart
  <1>2. PortsInv /\ [RNext]_rvars => PortsInv'
    <2> SUFFICES ASSUME PortsInv, [RNext]_rvars PROVE PortsInv'
      OBVIOUS
    <2>1. CASE UNCHANGED ports
      BY <2>1 DEF PortsInv, PortsApart
    <2>2. CASE PortStep
      <3>1. ASSUME NEW c \in names, NEW a \in PortCall, AddPort(c, a) PROVE PortsInv'
        BY <3>1, AddPortKeepsPortsInv
      <3>2. ASSUME NEW p \in PortalCall, AddPortal(p) PROVE UNCHANGED ports
        BY <3>2 DEF AddPortal, portVars
      <3> QED
        BY <2>1, <2>2, <3>1, <3>2 DEF PortStep, PortCalls
    <2>3. CASE UNCHANGED rvars
      BY <2>1, <2>3 DEF rvars, portVars
    <2> QED
      BY <2>1, <2>2, <2>3, OnlyPortCallsChangePorts
  <1> QED
    BY <1>1, <1>2, PTL DEF RSpec

(* Bindings of a container overlap only where the comparison of texts      *)
(* passes it over, whatever calls add_port accepted and in whichever order: *)
(* a wildcard after an address with another target, or an IPv6 address in   *)
(* two spellings.                                                           *)
THEOREM PortsStayApart == RSpec => []PortsApart
  BY PortsInvHolds, PTL DEF PortsInv

(* Rendering leaves out the address of a pair of wildcards: the sockets an *)
(* entry of the file stands for are those of bindings the container has.   *)
SocketOf(p, at) ==
    [published |-> p.published, target |-> p.target, proto |-> p.proto, at |-> at]

LEMMA ListensToItsSocket ==
    ASSUME NEW p, IsBinding(p)
    PROVE  /\ Listens(p) = {SocketOf(p, Parse[p.ip])}
           /\ Listens([p EXCEPT !.ip = NoIp]) = {SocketOf(p, AnyOf(4)), SocketOf(p, AnyOf(6))}
  <1>1. p.ip # NoIp
    BY PortAssumption DEF IsBinding
  <1>2. Listens(p) = {SocketOf(p, Parse[p.ip])}
    BY <1>1 DEF Listens, SocketOf
  <1> DEFINE d == [p EXCEPT !.ip = NoIp]
  <1>3. /\ d.published = p.published /\ d.target = p.target
        /\ d.proto = p.proto /\ d.ip = NoIp
    BY OtherAddress
  <1>4. Listens(d) = {SocketOf(p, AnyOf(4)), SocketOf(p, AnyOf(6))}
    <2> HIDE DEF d
    <2> QED
      BY <1>3 DEF Listens, SocketOf
  <1> QED
    BY <1>2, <1>4

LEMMA RenderedPortsListenTheSame ==
    ASSUME NEW bound, \A p \in bound : IsBinding(p)
    PROVE  UNION {Listens(e) : e \in RenderPorts(bound)} = UNION {Listens(p) : p \in bound}
  <1> DEFINE paired(p) == IsWildcard(p.ip) /\ HasOppositeFamily(bound, p)
             entry(p)  == IF paired(p) THEN [p EXCEPT !.ip = NoIp] ELSE p
  <1>1. RenderPorts(bound) = {entry(p) : p \in bound}
    BY DEF RenderPorts
  <1>2. ASSUME NEW p \in bound
        PROVE  Listens(p) \subseteq Listens(entry(p))
    <2>1. CASE paired(p)
      <3>1. Parse[p.ip] = AnyOf(4) \/ Parse[p.ip] = AnyOf(6)
        BY <2>1, PortAssumption DEF IsWildcard
      <3> QED
        BY <2>1, <3>1, ListensToItsSocket
    <2> QED
      BY <2>1
  <1>3. ASSUME NEW p \in bound
        PROVE  Listens(entry(p)) \subseteq UNION {Listens(q) : q \in bound}
    <2>1. CASE paired(p)
      <3>1. PICK q \in bound : q.ip = Opposite(p.ip) /\ SamePort(p, q)
        BY <2>1 DEF HasOppositeFamily
      <3>2. \/ Parse[p.ip] = AnyOf(4) /\ Parse[q.ip] = AnyOf(6)
            \/ Parse[p.ip] = AnyOf(6) /\ Parse[q.ip] = AnyOf(4)
        BY <2>1, <3>1, PortAssumption DEF IsWildcard, Opposite
      <3>3. \A at : SocketOf(p, at) = SocketOf(q, at)
        BY <3>1 DEF SamePort, SocketOf
      <3>4. Listens(p) \cup Listens(q) = {SocketOf(p, AnyOf(4)), SocketOf(p, AnyOf(6))}
        BY <3>2, <3>3, ListensToItsSocket, ZenonT(30)
      <3>5. Listens(entry(p)) = Listens(p) \cup Listens(q)
        BY <2>1, <3>4, ListensToItsSocket
      <3> QED
        BY <3>1, <3>5
    <2> QED
      BY <2>1
  <1> HIDE DEF entry
  <1> QED
    BY <1>1, <1>2, <1>3

(* The file makes Docker listen on the sockets the calls asked for, all of *)
(* them and no other.                                                      *)
THEOREM FileBindsWhatWasAsked == RSpec => []BindsWhatWasAsked
  <1>1. PortsInv => BindsWhatWasAsked
    BY RenderedPortsListenTheSame DEF PortsInv, BindsWhatWasAsked
  <1> QED
    BY <1>1, PortsInvHolds, PTL

-----------------------------------------------------------------------------
(* Containers that are created *)

(* Containers that a step adds, with what is needed to know of them: they  *)
(* join the networks the values give them and mount one storage per path.  *)
OneMountPerPath(ms, ts) ==
    /\ \A m, n \in ms : m.target = n.target => m = n
    /\ \A m \in ms : m.target \notin ts

Welcome(new) ==
    \A x \in DOMAIN new :
        /\ x \in Container
        /\ AutoJoinable(x)
        /\ new[x].joined = AutoJoined(x)
        /\ OneMountPerPath(new[x].mounts, new[x].tmpfs)

Placing == phase = "building" /\ \E new : Place(new) /\ Welcome(new)

(* Actions have identifiers of their own. *)
IdsInv ==
    /\ \E T : perms \in Seq(T)
    /\ \A i, j \in DOMAIN perms : perms[i].id = perms[j].id => i = j
    /\ \A i \in DOMAIN perms : perms[i].id \in PossibleId

LEMMA FreshIsWelcome ==
    ASSUME NEW c \in Container, AutoJoinable(c)
    PROVE  Welcome([x \in {c} |-> Fresh(c)])
  <1>1. /\ Fresh(c).joined = AutoJoined(c)
        /\ Fresh(c).mounts = {}
        /\ Fresh(c).tmpfs = {}
    BY DEF Fresh
  <1> QED
    BY <1>1 DEF Welcome, OneMountPerPath

LEMMA StoreMounts ==
    ASSUME NEW s, NEW spec
    PROVE  /\ StoreContainer(s, spec).joined = AutoJoined(s.name)
           /\ OneMountPerPath(StoreContainer(s, spec).mounts, StoreContainer(s, spec).tmpfs)
  <1>1. /\ StoreContainer(s, spec).joined = AutoJoined(s.name)
        /\ StoreContainer(s, spec).mounts = DataMounts(spec, s.cfg)
        /\ StoreContainer(s, spec).tmpfs = DataTmpfs(spec, s.cfg)
    BY DEF StoreContainer, Fresh
  <1> QED
    BY <1>1 DEF OneMountPerPath, DataMounts, DataTmpfs

LEMMA PermsContainerIsWelcome ==
    ASSUME IdsInv, AutoJoinable(PermsName)
    PROVE  Welcome([x \in {PermsName} |-> PermsContainer])
  <1>1. /\ PermsContainer.joined = AutoJoined(PermsName)
        /\ PermsContainer.mounts = {MountOf(ActionPath(perms[i].id), perms[i].cfg) : i \in Writable}
        /\ PermsContainer.tmpfs = {}
    BY DEF PermsContainer, Fresh
  <1>2. \A i, j \in Writable : ActionPath(perms[i].id) = ActionPath(perms[j].id) => i = j
    BY PathAssumption DEF IdsInv, Writable
  <1>3. \A i \in Writable :
            MountOf(ActionPath(perms[i].id), perms[i].cfg).target = ActionPath(perms[i].id)
    BY DEF MountOf
  <1>4. OneMountPerPath(PermsContainer.mounts, PermsContainer.tmpfs)
    BY <1>1, <1>2, <1>3 DEF OneMountPerPath
  <1> QED
    BY <1>1, <1>4, NameAssumption DEF Welcome

(* Every step that adds containers places them, or aborts the rendering.   *)
LEMMA AddContainerPlaces ==
    ASSUME NEW c \in TemplateName, NEW image, AddContainer(c, image)
    PROVE  Placing \/ Abort
  <1>1. CASE Creatable(c, image) /\ Place([x \in {c} |-> Fresh(c)])
    <2>1. c \in Container /\ AutoJoinable(c)
      BY <1>1, NameAssumption DEF Creatable
    <2> QED
      BY <1>1, <2>1, FreshIsWelcome DEF Placing, AddContainer
  <1> QED
    BY <1>1 DEF AddContainer

LEMMA ActivatePlaces ==
    ASSUME IdsInv, Activate
    PROVE  Placing \/ Abort
  <1>1. CASE /\ Creatable(PermsName, "container_utils_image")
             /\ Place([x \in {PermsName} |-> PermsContainer])
    BY <1>1, PermsContainerIsWelcome DEF Creatable, Placing, Activate
  <1> QED
    BY <1>1 DEF Activate

LEMMA AddStorePlaces ==
    ASSUME NEW s \in StoreCall, AddStore(s)
    PROVE  Placing \/ Abort
  <1> DEFINE new == [x \in {s.name} |-> StoreContainer(s, SpecOf(s.kind))]
  <1>1. CASE GoodStore(s, SpecOf(s.kind)) /\ Place(new)
    <2>1. s.name \in Container /\ AutoJoinable(s.name)
      BY <1>1, NameAssumption DEF GoodStore, Creatable
    <2>2. Welcome(new)
      BY <2>1, StoreMounts DEF Welcome
    <2> QED
      BY <1>1, <2>2 DEF Placing, AddStore
  <1> QED
    BY <1>1 DEF AddStore

LEMMA AddPostgresPlaces ==
    ASSUME NEW s \in StoreCall, AddPostgres(s)
    PROVE  Placing \/ Abort
  <1> DEFINE upgraded == values.images[s.image].repo \in UpgradeRepos
             wait == IF upgraded
                     THEN {[on |-> UpgradeName[s.name], cond |-> "service_completed_successfully"]}
                     ELSE {}
             c == [StoreContainer(s, Postgres) EXCEPT !.depends = wait]
             new == [x \in {s.name} \cup (IF upgraded THEN {UpgradeName[s.name]} ELSE {}) |->
                        IF x = s.name THEN c ELSE Upgrader(s, c)]
  <1>1. CASE /\ GoodStore(s, Postgres) /\ Place(new)
             /\ upgraded => Creatable(UpgradeName[s.name], "postgres_upgrade_image")
    <2>1. /\ s.name \in Container /\ AutoJoinable(s.name)
          /\ UpgradeName[s.name] \in Container
          /\ upgraded => AutoJoinable(UpgradeName[s.name])
      BY <1>1, NameAssumption DEF GoodStore, Creatable
    <2>2. /\ c.joined = StoreContainer(s, Postgres).joined
          /\ c.mounts = StoreContainer(s, Postgres).mounts
          /\ c.tmpfs = StoreContainer(s, Postgres).tmpfs
      BY DEF StoreContainer, Fresh
    <2>3. c.joined = AutoJoined(s.name) /\ OneMountPerPath(c.mounts, c.tmpfs)
      BY <2>2, StoreMounts
    <2> HIDE DEF c
    <2>4. /\ Upgrader(s, c).joined = AutoJoined(UpgradeName[s.name])
          /\ Upgrader(s, c).mounts = c.mounts /\ Upgrader(s, c).tmpfs = c.tmpfs
      BY DEF Upgrader, Fresh
    <2>5. Welcome(new)
      BY <2>1, <2>3, <2>4 DEF Welcome
    <2> QED
      BY <1>1, <2>5 DEF Placing, AddPostgres
  <1> QED
    BY <1>1 DEF AddPostgres

-----------------------------------------------------------------------------
(* Identifiers of permission actions *)

LEMMA NewIdKeepsIdsInv ==
    ASSUME IdsInv, NEW id \in PossibleId, id \notin ActionIds, NEW cfg, NEW uid,
           perms' = WithAction(id, cfg, uid)
    PROVE  IdsInv'
  <1> DEFINE new == [id |-> id, cfg |-> cfg, uid |-> uid]
  <1>1. CASE perms' = perms
    BY <1>1 DEF IdsInv
  <1>2. CASE perms' = Append(perms, new)
    <2>1. PICK T : perms \in Seq(T)
      BY DEF IdsInv
    <2>2. perms \in Seq(T \cup {new})
      BY <2>1
    <2>3. /\ perms' \in Seq(T \cup {new})
          /\ DOMAIN perms = 1 .. Len(perms) /\ Len(perms) \in Nat
          /\ DOMAIN perms' = 1 .. (Len(perms) + 1)
          /\ \A i \in 1 .. Len(perms) : perms'[i] = perms[i]
          /\ perms'[Len(perms) + 1] = new
      BY <1>2, <2>2
    <2>4. \A i \in DOMAIN perms : perms[i].id # id
      BY DEF ActionIds
    <2>5. \A i \in DOMAIN perms' :
              \/ i \in DOMAIN perms /\ perms'[i].id = perms[i].id
              \/ i = Len(perms) + 1 /\ perms'[i].id = id
      BY <2>3
    <2> QED
      BY <2>3, <2>4, <2>5 DEF IdsInv
  <1> QED
    BY <1>1, <1>2 DEF WithAction

LEMMA IdsInvHolds == RSpec => []IdsInv
  <1>1. RInit => IdsInv
    BY DEF RInit, IdsInv
  <1>2. IdsInv /\ [RNext]_rvars => IdsInv'
    <2> SUFFICES ASSUME IdsInv, [RNext]_rvars PROVE IdsInv'
      OBVIOUS
    <2> USE DEF storeVars
    <2>1. CASE UNCHANGED perms
      BY <2>1 DEF IdsInv
    <2>2. ASSUME NEW a \in ActionCall, AddAction(a) PROVE IdsInv'
      <3>1. CASE GoodAction(a.text, a.cfg, a.uid) /\ perms' = WithAction(a.text, a.cfg, a.uid)
        BY <3>1, NewIdKeepsIdsInv DEF GoodAction, PossibleId
      <3> QED
        BY <2>1, <2>2, <3>1 DEF AddAction
    <2>3. CASE Activate
      BY <2>1, <2>3 DEF Activate
    <2>4. ASSUME NEW s \in StoreCall, NEW spec, NEW upgraded,
                 GoodStore(s, spec), Remember(s, spec, upgraded)
          PROVE  IdsInv'
      <3>1. CASE spec.dir # "" /\ perms' = WithAction(StoreId(s), s.cfg, RunAs(spec))
        BY <2>4, <3>1, NewIdKeepsIdsInv DEF GoodStore, GoodAction, PossibleId
      <3> QED
        BY <2>1, <2>4, <3>1 DEF Remember
    <2>5. ASSUME NEW s \in StoreCall, AddStore(s) PROVE IdsInv'
      BY <2>1, <2>4, <2>5 DEF AddStore, Abort
    <2>6. ASSUME NEW s \in StoreCall, AddPostgres(s) PROVE IdsInv'
      BY <2>1, <2>4, <2>6 DEF AddPostgres, Abort
    <2>7. ASSUME NEW s \in stores, NEW on \in Container, NEW cond \in Condition,
                 AddStoreDependency(s, on, cond)
          PROVE  IdsInv'
      BY <2>1, <2>7 DEF AddStoreDependency
    <2>8. CASE StoreStep
      BY <2>2, <2>3, <2>5, <2>6, <2>7, <2>8 DEF StoreStep
    <2>9. CASE ContainerStep
      BY <2>1, <2>9 DEF ContainerStep, AddContainer, Abort, SetupAsHelper, AddDockerSocket
    <2>10. CASE PortStep \/ NetStep \/ MountStep \/ ServiceStep
      BY <2>1, <2>10 DEF PortStep, NetStep, MountStep, ServiceStep
    <2>11. CASE Start \/ NoteStep \/ RenderFile
      BY <2>1, <2>11 DEF Start, NoteStep, AddNote, ChangeValues, RenderFile
    <2>12. CASE UNCHANGED rvars
      BY <2>1, <2>12 DEF rvars
    <2> QED
      BY <2>8, <2>9, <2>10, <2>11, <2>12 DEF RNext
  <1> QED
    BY <1>1, <1>2, PTL DEF RSpec

(* A step of the renderer adds containers, changes one storage of one      *)
(* container, or leaves the storage of all of them as it is.               *)
MountingStep ==
    \/ \E c, path, cfg : AddMount(c, path, cfg) /\ UNCHANGED tmpfs
    \/ \E c, path, cfg : AddTmpfs(c, path, cfg) /\ UNCHANGED mounts

LEMMA WhatChangesStorage ==
    ASSUME IdsInv, RNext
    PROVE  Placing \/ MountingStep \/ UNCHANGED <<mounts, tmpfs>>
  <1> USE DEF mountVars, MountingStep
  <1>1. CASE Start
    BY <1>1 DEF Start
  <1>2. CASE PortStep \/ NetStep \/ ServiceStep
    BY <1>2 DEF PortStep, NetStep, ServiceStep
  <1>3. CASE MountStep
    <2>1. ASSUME NEW c \in names, NEW path, NEW cfg, AddStorage(c, path, cfg)
          PROVE  MountingStep
      BY <2>1 DEF AddStorage
    <2>2. ASSUME NEW c \in names, AddUdev(c, "/run/udev")
          PROVE  MountingStep
      BY <2>2 DEF AddUdev
    <2>3. ASSUME NEW c \in names, NEW name, NEW data, NEW target,
                 AddConfig(c, name, data, target)
          PROVE  UNCHANGED <<mounts, tmpfs>>
      BY <2>3 DEF AddConfig
    <2> QED
      BY <1>3, <2>1, <2>2, <2>3 DEF MountStep, MountCalls
  <1>4. CASE ContainerStep
    <2>1. ASSUME NEW c \in TemplateName, NEW image \in Image, AddContainer(c, image)
          PROVE  Placing \/ UNCHANGED <<mounts, tmpfs>>
      BY <2>1, AddContainerPlaces DEF Abort
    <2>2. ASSUME NEW c \in names, NEW profile, NEW cut, SetupAsHelper(c, profile, cut)
          PROVE  UNCHANGED <<mounts, tmpfs>>
      BY <2>2 DEF SetupAsHelper
    <2>3. ASSUME NEW c \in names, AddDockerSocket(c, "/var/run/docker.sock")
          PROVE  MountingStep \/ UNCHANGED <<mounts, tmpfs>>
      BY <2>3 DEF AddDockerSocket, AddMount
    <2> QED
      BY <1>4, <2>1, <2>2, <2>3 DEF ContainerStep
  <1>5. CASE StoreStep
    <2>1. ASSUME NEW a \in ActionCall, AddAction(a) PROVE UNCHANGED <<mounts, tmpfs>>
      BY <2>1 DEF AddAction
    <2>2. ASSUME NEW s \in stores, NEW on \in Container, NEW cond \in Condition,
                 AddStoreDependency(s, on, cond)
          PROVE  UNCHANGED <<mounts, tmpfs>>
      BY <2>2 DEF AddStoreDependency
    <2> QED
      BY <1>5, <2>1, <2>2, ActivatePlaces, AddStorePlaces, AddPostgresPlaces
         DEF StoreStep, Abort
  <1>6. CASE NoteStep \/ RenderFile
    BY <1>6 DEF NoteStep, AddNote, ChangeValues, RenderFile
  <1> QED
    BY <1>1, <1>2, <1>3, <1>4, <1>5, <1>6 DEF RNext

StorageInv ==
    /\ mounts = [c \in Container |-> mounts[c]]
    /\ tmpfs = [c \in Container |-> tmpfs[c]]
    /\ \A c \in Container : OneMountPerPath(mounts[c], tmpfs[c])

LEMMA StorageInvHolds == RSpec => []StorageInv
  <1>1. RInit => StorageInv
    BY DEF RInit, MountInit, StorageInv, OneMountPerPath
  <1>2. StorageInv /\ IdsInv /\ [RNext]_rvars => StorageInv'
    <2> SUFFICES ASSUME StorageInv, IdsInv, [RNext]_rvars PROVE StorageInv'
      OBVIOUS
    <2>1. CASE UNCHANGED <<mounts, tmpfs>>
      BY <2>1 DEF StorageInv
    <2>2. CASE Placing
      <3>1. PICK new : Place(new) /\ Welcome(new)
        BY <2>2 DEF Placing
      <3>2. /\ mounts' = Put("mounts", mounts, new)
            /\ tmpfs' = Put("tmpfs", tmpfs, new)
        BY <3>1 DEF Place
      <3>3. /\ mounts' = [c \in Container |-> mounts'[c]]
            /\ tmpfs' = [c \in Container |-> tmpfs'[c]]
            /\ \A c \in Container :
                  /\ mounts'[c] = IF c \in DOMAIN new THEN new[c].mounts ELSE mounts[c]
                  /\ tmpfs'[c] = IF c \in DOMAIN new THEN new[c].tmpfs ELSE tmpfs[c]
        BY <3>2 DEF Put
      <3> QED
        BY <3>1, <3>3 DEF StorageInv, Welcome
    <2>3. ASSUME NEW c, NEW path, NEW cfg, AddMount(c, path, cfg), UNCHANGED tmpfs
          PROVE  StorageInv'
      <3>1. CASE /\ path \notin tmpfs[c] \cup {m.target : m \in mounts[c]}
                 /\ mounts' = [mounts EXCEPT ![c] = @ \cup {MountOf(path, cfg)}]
        <4>1. MountOf(path, cfg).target = path
          BY DEF MountOf
        <4>2. mounts' = [d \in Container |-> mounts'[d]]
          BY <3>1 DEF StorageInv
        <4>3. ASSUME NEW d \in Container
              PROVE  OneMountPerPath(mounts'[d], tmpfs[d])
          <5>1. CASE d = c
            <6>1. mounts'[d] = mounts[d] \cup {MountOf(path, cfg)}
              BY <3>1, <5>1 DEF StorageInv
            <6> QED
              BY <3>1, <4>1, <5>1, <6>1 DEF StorageInv, OneMountPerPath
          <5>2. CASE d # c
            BY <3>1, <5>2 DEF StorageInv
          <5> QED
            BY <5>1, <5>2
        <4> QED
          BY <2>3, <4>2, <4>3 DEF StorageInv
      <3> QED
        BY <2>1, <2>3, <3>1 DEF AddMount, Mountable, PathUsed
    <2>4. ASSUME NEW c, NEW path, NEW cfg, AddTmpfs(c, path, cfg), UNCHANGED mounts
          PROVE  StorageInv'
      <3>1. CASE /\ path \notin tmpfs[c] \cup {m.target : m \in mounts[c]}
                 /\ tmpfs' = [tmpfs EXCEPT ![c] = @ \cup {path}]
        <4>1. tmpfs' = [d \in Container |-> tmpfs'[d]]
          BY <3>1 DEF StorageInv
        <4>2. \A d \in Container : OneMountPerPath(mounts[d], tmpfs'[d])
          BY <3>1 DEF StorageInv, OneMountPerPath
        <4> QED
          BY <2>4, <4>1, <4>2 DEF StorageInv
      <3> QED
        BY <2>1, <2>4, <3>1 DEF AddTmpfs, PathUsed
    <2> QED
      BY <2>1, <2>2, <2>3, <2>4, WhatChangesStorage DEF MountingStep, rvars, mountVars
  <1> QED
    BY <1>1, <1>2, IdsInvHolds, PTL DEF RSpec

(* Two different storages are never mounted at one path of a container, be *)
(* they mounts or tmpfs, the template's, a store's or those that the       *)
(* container that sets permissions gets for its actions.                   *)
THEOREM TargetsStayDistinct == RSpec => []TargetsDistinct
  <1>1. StorageInv => TargetsDistinct
    BY DEF StorageInv, TargetsDistinct, OneMountPerPath
  <1> QED
    BY <1>1, StorageInvHolds, PTL

-----------------------------------------------------------------------------
(* Networks *)

(* What makes JoinsApart inductive: once building, the networks of the     *)
(* values, which new containers join, are all declared; and no container   *)
(* joined anything before.                                                 *)
NetworksInv ==
    /\ joined = [c \in Container |-> joined[c]]
    /\ phase = "new" => networks = {}
    /\ phase = "building" =>
          \A i \in DOMAIN values.nets : External(values.nets[i].net) \in networks
    /\ JoinsApart

LEMMA ClashSymmetric ==
    ASSUME NEW j, NEW k, Clash(j, k)
    PROVE  Clash(k, j)
  <1>1. CASE \E a \in Exclusive : j.cfg[a] # None /\ j.cfg[a] = k.cfg[a]
    BY <1>1 DEF Clash
  <1>2. CASE ToSet(j.cfg.aliases) \cap ToSet(k.cfg.aliases) # {}
    BY <1>2 DEF Clash
  <1> QED
    BY <1>1, <1>2 DEF Clash

LEMMA AutoJoinsAreRegistered ==
    ASSUME NEW c, NEW j \in AutoJoined(c)
    PROVE  \E i \in DOMAIN values.nets : j.net = External(values.nets[i].net)
  <1>1. PICK i \in DOMAIN values.nets : j \in AutoJoins(c)[i]
    BY DEF AutoJoined
  <1> QED
    BY <1>1 DEF AutoJoins

(* A step that keeps the joins and drops no network keeps them apart.      *)
LEMMA NetworksInvFrame ==
    ASSUME NetworksInv, UNCHANGED joined, networks \subseteq networks', UNCHANGED values,
           phase = "building", phase' # "new"
    PROVE  NetworksInv'
  BY DEF NetworksInv, JoinsApart

LEMMA WhatChangesNetworks ==
    ASSUME IdsInv, RNext
    PROVE  Start \/ Placing \/ NetStep \/ UNCHANGED <<joined, networks>>
  <1> DEFINE Kept == UNCHANGED <<joined, networks>>
  <1> USE DEF netVars, Abort
  <1>1. CASE PortStep \/ MountStep \/ ServiceStep
    BY <1>1 DEF PortStep, MountStep, ServiceStep
  <1>2. CASE ContainerStep
    <2>1. ASSUME NEW c \in names, NEW profile, NEW cut, SetupAsHelper(c, profile, cut)
          PROVE  Kept
      BY <2>1 DEF SetupAsHelper
    <2>2. ASSUME NEW c \in names, AddDockerSocket(c, "/var/run/docker.sock") PROVE Kept
      BY <2>2 DEF AddDockerSocket
    <2> QED
      BY <1>2, <2>1, <2>2, AddContainerPlaces DEF ContainerStep
  <1>3. CASE StoreStep
    <2>1. ASSUME NEW a \in ActionCall, AddAction(a) PROVE Kept
      BY <2>1 DEF AddAction
    <2>2. ASSUME NEW s \in stores, NEW on \in Container, NEW cond \in Condition,
                 AddStoreDependency(s, on, cond)
          PROVE  Kept
      BY <2>2 DEF AddStoreDependency
    <2> QED
      BY <1>3, <2>1, <2>2, ActivatePlaces, AddStorePlaces, AddPostgresPlaces DEF StoreStep
  <1>4. CASE NoteStep \/ RenderFile
    BY <1>4 DEF NoteStep, AddNote, ChangeValues, RenderFile
  <1> QED
    BY <1>1, <1>2, <1>3, <1>4 DEF RNext

LEMMA NetworksInvHolds == RSpec => []NetworksInv
  <1>1. RInit => NetworksInv
    BY DEF RInit, BaseInit, NetInit, NetworksInv, JoinsApart
  <1>2. NetworksInv /\ IdsInv /\ [RNext]_rvars => NetworksInv'
    <2> SUFFICES ASSUME NetworksInv, IdsInv, [RNext]_rvars PROVE NetworksInv'
      OBVIOUS
    <2> USE DEF Return, Raise
    <2>1. CASE Start
      <3>1. UNCHANGED <<joined, values>> /\ phase = "new" /\ phase' # "new"
        BY <2>1 DEF Start, RegisterAll
      <3>2. \A c \in Container : joined[c] = {}
        BY <3>1 DEF NetworksInv, JoinsApart
      <3>3. phase' = "building" =>
                \A i \in DOMAIN values.nets : External(values.nets[i].net) \in networks'
        BY <2>1 DEF Start, RegisterAll
      <3> QED
        BY <3>1, <3>2, <3>3 DEF NetworksInv, JoinsApart
    <2>2. CASE Placing
      <3>1. PICK new : Place(new) /\ Welcome(new)
        BY <2>2 DEF Placing
      <3>2. /\ phase = "building" /\ phase' = "building" /\ UNCHANGED <<networks, values>>
            /\ joined' = [c \in Container |->
                             IF c \in DOMAIN new THEN new[c].joined ELSE joined[c]]
        BY <2>2, <3>1 DEF Placing, Place, Put
      <3>3. ASSUME NEW c \in Container, NEW j \in joined'[c]
            PROVE  /\ j.net \in networks
                   /\ \A k \in joined'[c] \ {j} : j.net # k.net /\ ~Clash(j, k)
        <4>1. CASE c \in DOMAIN new
          <5>1. joined'[c] = AutoJoined(c) /\ AutoJoinable(c)
            BY <3>1, <3>2, <4>1 DEF Welcome
          <5>2. PICK i \in DOMAIN values.nets : j.net = External(values.nets[i].net)
            BY <3>3, <5>1, AutoJoinsAreRegistered
          <5>3. j.net \in networks
            BY <3>2, <5>2 DEF NetworksInv
          <5> QED
            BY <3>3, <5>1, <5>3 DEF AutoJoinable
        <4>2. CASE c \notin DOMAIN new
          BY <3>2, <3>3, <4>2 DEF NetworksInv, JoinsApart
        <4> QED
          BY <4>1, <4>2
      <3> QED
        BY <3>2, <3>3 DEF NetworksInv, JoinsApart
    <2>3. CASE NetStep
      <3>1. ASSUME NEW n \in NetName, Register(n) \/ CreateInternal(n)
            PROVE  NetworksInv'
        BY <3>1, NetworksInvFrame DEF Register, CreateInternal, Calling
      <3>2. ASSUME NEW c \in names, NEW n, NEW cfg, AddNetwork(c, n, cfg)
            PROVE  NetworksInv'
        <4> DEFINE join == [net |-> n, cfg |-> cfg]
        <4>1. /\ phase = "building" /\ phase' # "new" /\ UNCHANGED <<networks, values>>
          BY <3>2 DEF AddNetwork, CallingOn, Calling
        <4>2. CASE /\ Joinable(networks, joined[c], join)
                   /\ joined' = [joined EXCEPT ![c] = @ \cup {join}]
          <5> HIDE DEF join
          <5>1. ASSUME NEW d \in Container, NEW j \in joined'[d]
                PROVE  /\ j.net \in networks
                       /\ \A k \in joined'[d] \ {j} : j.net # k.net /\ ~Clash(j, k)
            <6>1. CASE d = c
              <7>1. joined'[d] = joined[d] \cup {join}
                BY <4>2, <6>1 DEF NetworksInv
              <7> QED
                BY <4>2, <5>1, <6>1, <7>1, ClashSymmetric DEF Joinable, NetworksInv, JoinsApart
            <6>2. CASE d # c
              BY <4>2, <5>1, <6>2 DEF NetworksInv, JoinsApart
            <6> QED
              BY <6>1, <6>2
          <5> QED
            BY <4>1, <4>2, <5>1 DEF NetworksInv, JoinsApart
        <4>3. CASE UNCHANGED joined
          BY <4>1, <4>3, NetworksInvFrame
        <4> QED
          BY <3>2, <4>2, <4>3 DEF AddNetwork
      <3>3. ASSUME NEW c \in names, NEW mode, SetNetworkMode(c, mode)
            PROVE  NetworksInv'
        BY <3>3, NetworksInvFrame DEF SetNetworkMode, CallingOn, Calling
      <3> QED
        BY <2>3, <3>1, <3>2, <3>3 DEF NetStep, NetCalls
    <2>4. CASE ~Start /\ RNext /\ UNCHANGED <<joined, networks>>
      <3>1. phase = "building" /\ phase' # "new" /\ UNCHANGED values
        BY <2>4, StepsOfARendering DEF GoesOn, RenderFile
      <3> QED
        BY <2>4, <3>1, NetworksInvFrame
    <2>5. CASE UNCHANGED rvars
      BY <2>5 DEF rvars, baseVars, netVars, NetworksInv, JoinsApart
    <2> QED
      BY <2>1, <2>2, <2>3, <2>4, <2>5, WhatChangesNetworks
  <1> QED
    BY <1>1, <1>2, IdsInvHolds, PTL DEF RSpec

(* The joins of a container are to different networks, all declared, and   *)
(* agree on no exclusive attribute and no alias, those it was created with *)
(* and those of later calls alike.                                         *)
THEOREM JoinsStayApart == RSpec => []JoinsApart
  BY NetworksInvHolds, PTL DEF NetworksInv

-----------------------------------------------------------------------------
(* Notes *)

LEMMA WhatAddsNames ==
    ASSUME IdsInv, RNext
    PROVE  Placing \/ UNCHANGED names
  <1> USE DEF Calling, CallingOn, Abort
  <1>1. CASE Start \/ RenderFile
    BY <1>1 DEF Start, RenderFile
  <1>2. CASE PortStep \/ NetStep
    BY <1>2 DEF PortStep, PortCalls, AddPort, AddPortal, NetStep, NetCalls, Register,
       CreateInternal, AddNetwork, SetNetworkMode
  <1>3. CASE MountStep
    BY <1>3 DEF MountStep, MountCalls, AddStorage, AddUdev, AddConfig
  <1>4. CASE ServiceStep
    BY <1>4, ServiceCallsGoOn DEF ServiceStep, Going
  <1>5. CASE ContainerStep
    <2>1. ASSUME NEW c \in names, NEW profile, NEW cut, SetupAsHelper(c, profile, cut)
          PROVE  UNCHANGED names
      BY <2>1 DEF SetupAsHelper
    <2>2. ASSUME NEW c \in names, AddDockerSocket(c, "/var/run/docker.sock")
          PROVE  UNCHANGED names
      BY <2>2 DEF AddDockerSocket
    <2> QED
      BY <1>5, <2>1, <2>2, AddContainerPlaces DEF ContainerStep
  <1>6. CASE StoreStep
    <2>1. ASSUME NEW a \in ActionCall, AddAction(a) PROVE UNCHANGED names
      BY <2>1 DEF AddAction
    <2>2. ASSUME NEW s \in stores, NEW on \in Container, NEW cond \in Condition,
                 AddStoreDependency(s, on, cond)
          PROVE  UNCHANGED names
      BY <2>2 DEF AddStoreDependency
    <2> QED
      BY <1>6, <2>1, <2>2, ActivatePlaces, AddStorePlaces, AddPostgresPlaces DEF StoreStep
  <1>7. CASE NoteStep
    BY <1>7 DEF NoteStep, AddNote, ChangeValues
  <1> QED
    BY <1>1, <1>2, <1>3, <1>4, <1>5, <1>6, <1>7 DEF RNext

(* What the file gives a container of the host is what the container had   *)
(* when the notes were written, but for the groups of a GPU.               *)
LEMMA WhatIsGiven ==
    ASSUME NEW c \in names, NEW before, groups[c] = before \cup GpuGroups(c)
    PROVE  /\ <<"privileged">> \in GivenOf(c) => settings[c].privileged
           /\ GivenOf(c) \subseteq
                {<<"privileged">>, <<"network mode">>} \cup HostNamespaces(c) \cup
                {<<"network", j.net.name>> : j \in joined[c]} \cup
                {<<"group", g>> : g \in before \cup GpuGroups(c)} \cup
                {<<"host", d.host>> : d \in devices[c]} \cup
                {<<"host", path>> : path \in Bound(c)}
  <1> DEFINE s == ServiceOf(c)
  <1>1. File.services[c] = s
    BY DEF File
  <1>2. /\ s.privileged = settings[c].privileged
        /\ s.ipc = settings[c].ipc /\ s.pid = settings[c].pid /\ s.cgroup = settings[c].cgroup
        /\ s.devices = devices[c] /\ s.groups = groups[c] /\ s.volumes = mounts[c]
        /\ s.networks \subseteq {j.net : j \in joined[c]}
    BY DEF ServiceOf
  <1> HIDE DEF s
  <1>3. \A f \in {"ipc", "pid", "cgroup"} :
            settings[c][f] = "host" => <<"namespace", f>> \in HostNamespaces(c)
    BY DEF HostNamespaces
  <1>4. /\ s.ipc = "host" => <<"namespace", "ipc">> \in HostNamespaces(c)
        /\ s.pid = "host" => <<"namespace", "pid">> \in HostNamespaces(c)
        /\ s.cgroup = "host" => <<"namespace", "cgroup">> \in HostNamespaces(c)
    BY <1>2, <1>3
  <1>5. GivenOf(c) =
            (IF s.privileged THEN {<<"privileged">>} ELSE {}) \cup
            (IF s.ipc = "host" THEN {<<"namespace", "ipc">>} ELSE {}) \cup
            (IF s.pid = "host" THEN {<<"namespace", "pid">>} ELSE {}) \cup
            (IF s.cgroup = "host" THEN {<<"namespace", "cgroup">>} ELSE {}) \cup
            (IF s.networkMode = "host" THEN {<<"network mode">>} ELSE {}) \cup
            {<<"network", n.name>> : n \in s.networks} \cup
            {<<"group", g>> : g \in s.groups} \cup
            {<<"host", d.host>> : d \in s.devices} \cup
            {<<"host", m.source[2]>> : m \in {x \in s.volumes : x.kind = "bind"}}
    BY <1>1 DEF GivenOf
  <1>6. /\ {<<"network", n.name>> : n \in s.networks}
               \subseteq {<<"network", j.net.name>> : j \in joined[c]}
        /\ {<<"host", m.source[2]>> : m \in {x \in s.volumes : x.kind = "bind"}}
               \subseteq {<<"host", path>> : path \in Bound(c)}
    BY <1>2 DEF Bound
  <1>7. <<"privileged">> \in GivenOf(c) => s.privileged
    BY <1>5
  <1> QED
    BY <1>2, <1>4, <1>5, <1>6, <1>7

(* All of it is told, or is among what the notes leave out.                *)
AllSaid(c, before, said) ==
    /\ c \in names /\ groups[c] = before \cup GpuGroups(c)
    /\ settings[c].privileged => <<"privileged">> \in said
    /\ HostNamespaces(c) \subseteq said
    /\ \A j \in joined[c] : <<"network", j.net.name>> \in said
    /\ \A g \in before : <<"group", g>> \in said
    /\ \A d \in devices[c] : <<"host", Pretty(d.host)>> \in said
    /\ \A path \in Bound(c) : Named(path) => <<"host", path>> \in said

LEMMA ToldOrUnsaid ==
    \A c, before, said :
        AllSaid(c, before, said) => GivenOf(c) \ Unsaid(c) \subseteq said
  <1> SUFFICES ASSUME NEW c, NEW before, NEW said, AllSaid(c, before, said),
                      NEW x \in GivenOf(c), x \notin Unsaid(c)
               PROVE  x \in said
    OBVIOUS
  <1> USE DEF AllSaid
  <1>1. /\ x # <<"network mode">>
        /\ \A g \in GpuGroups(c) : x # <<"group", g>>
        /\ \A path : path \in {d.host : d \in devices[c]} \cup Bound(c) /\ ~Named(path)
                => x # <<"host", path>>
    BY DEF Unsaid
  <1>2. /\ <<"privileged">> \in GivenOf(c) => settings[c].privileged
        /\ GivenOf(c) \subseteq
              {<<"privileged">>, <<"network mode">>} \cup HostNamespaces(c) \cup
              {<<"network", j.net.name>> : j \in joined[c]} \cup
              {<<"group", g>> : g \in before \cup GpuGroups(c)} \cup
              {<<"host", d.host>> : d \in devices[c]} \cup
              {<<"host", path>> : path \in Bound(c)}
    BY WhatIsGiven
  <1>3. ASSUME NEW d \in devices[c], x = <<"host", d.host>> PROVE x \in said
    BY <1>1, <1>3 DEF Pretty
  <1>4. ASSUME NEW path \in Bound(c), x = <<"host", path>> PROVE x \in said
    BY <1>1, <1>4
  <1>5. ASSUME NEW g \in before \cup GpuGroups(c), x = <<"group", g>> PROVE x \in said
    BY <1>1, <1>5
  <1>6. ASSUME NEW j \in joined[c], x = <<"network", j.net.name>> PROVE x \in said
    BY <1>6
  <1>7. CASE x \in {<<"privileged">>, <<"network mode">>} \cup HostNamespaces(c)
    BY <1>1, <1>2, <1>7
  <1> QED
    BY <1>2, <1>3, <1>4, <1>5, <1>6, <1>7

LEMMA ToldOrUnsaidNext ==
    (\A c, before, said :
        AllSaid(c, before, said) => GivenOf(c) \ Unsaid(c) \subseteq said)'
  BY ToldOrUnsaid, PTL

(* What was told of the containers is still true of the file: nothing that *)
(* is told changes while it is rendered.                                   *)
LEMMA RenderingTellsTheRisks ==
    ASSUME names \subseteq Container, RenderFile
    PROVE  NotesTellTheRisks'
  <1>1. CASE phase' = "rendered"
    <2>1. /\ UNCHANGED <<names, settings, joined, netMode, devices, reserved, mounts>>
          /\ groups' = [c \in Container |-> groups[c] \cup GpuGroups(c)]
          /\ told' = [c \in Container |-> IF c \in names THEN Scan(c) ELSE {}]
      BY <1>1 DEF RenderFile, Raise, netVars, mountVars
    <2>2. ASSUME NEW c \in names
          PROVE  /\ (GivenOf(c) \ Unsaid(c) \subseteq told[c])'
                 /\ \A d \in devices'[c] : ~Named(d.host) => <<"host", "">> \in told'[c]
      <3>1. told'[c] = Scan(c) /\ c \in names'
        BY <2>1, <2>2
      <3>2. /\ settings[c].privileged => <<"privileged">> \in Scan(c)
            /\ HostNamespaces(c) \subseteq Scan(c)
            /\ \A j \in joined[c] : <<"network", j.net.name>> \in Scan(c)
            /\ \A g \in groups[c] : <<"group", g>> \in Scan(c)
            /\ \A d \in devices[c] : <<"host", Pretty(d.host)>> \in Scan(c)
            /\ \A path \in Bound(c) : Named(path) => <<"host", path>> \in Scan(c)
        BY DEF Scan
      <3>3. /\ GpuGroups(c)' = GpuGroups(c) /\ HostNamespaces(c)' = HostNamespaces(c)
            /\ Bound(c)' = Bound(c)
        BY <2>1 DEF GpuGroups, HasGpu, HostNamespaces, Bound
      <3>4. groups'[c] = groups[c] \cup GpuGroups(c)'
        BY <2>1, <2>2, <3>3
      <3>5. (GivenOf(c) \ Unsaid(c) \subseteq told[c])'
        <4>1. PICK before : before = groups[c]
          OBVIOUS
        <4>2. PICK said : said = Scan(c)
          OBVIOUS
        <4>3. AllSaid(c, before, said)'
          BY <2>1, <3>1, <3>2, <3>3, <3>4, <4>1, <4>2 DEF AllSaid
        <4> QED
          BY <3>1, <4>2, <4>3, ToldOrUnsaidNext
      <3>6. \A d \in devices'[c] : ~Named(d.host) => <<"host", "">> \in told'[c]
        BY <2>1, <3>1, <3>2 DEF Pretty
      <3> QED
        BY <3>5, <3>6
    <2> QED
      BY <2>1, <2>2 DEF NotesTellTheRisks
  <1>2. CASE phase' # "rendered"
    BY <1>2 DEF NotesTellTheRisks
  <1> QED
    BY <1>1, <1>2

(* The notes are written before the services are rendered, and tell what   *)
(* the file gives a service of the host: privileges, namespaces, networks, *)
(* groups, devices and bind mounts, but for those that Unsaid lists.       *)
THEOREM NotesAlwaysTellTheRisks == RSpec => []NotesTellTheRisks
  <1> DEFINE Inv == names \subseteq Container /\ NotesTellTheRisks
  <1>1. RInit => Inv
    BY DEF RInit, BaseInit, NotesTellTheRisks
  <1>2. Inv /\ IdsInv /\ [RNext]_rvars => Inv'
    <2> SUFFICES ASSUME Inv, IdsInv, [RNext]_rvars PROVE Inv'
      OBVIOUS
    <2>1. CASE UNCHANGED rvars
      <3>1. UNCHANGED <<names, phase, told>> /\ UNCHANGED File
        BY <2>1 DEF rvars, baseVars, noteVars, portVars, netVars, mountVars, serviceVars,
           storeVars, File, ServiceOf
      <3>2. UNCHANGED <<devices, reserved, mounts>>
        BY <2>1 DEF rvars, mountVars, serviceVars
      <3>3. \A c : GivenOf(c)' = GivenOf(c)
        BY <3>1 DEF GivenOf
      <3>4. \A c : Unsaid(c)' = Unsaid(c)
        BY <3>2 DEF Unsaid, GpuGroups, HasGpu, Bound
      <3> QED
        BY <3>1, <3>2, <3>3, <3>4 DEF NotesTellTheRisks
    <2>2. CASE RNext
      <3>1. names' \subseteq Container
        <4>1. ASSUME NEW new, Place(new), Welcome(new) PROVE names' \subseteq Container
          BY <4>1 DEF Place, Welcome
        <4> QED
          BY <2>2, <4>1, WhatAddsNames DEF Placing
      <3>2. CASE RenderFile
        BY <3>1, <3>2, RenderingTellsTheRisks
      <3>3. CASE Start \/ GoesOn
        <4>1. phase' # "rendered"
          BY <3>3 DEF Start, RegisterAll, Return, Raise, GoesOn
        <4> QED
          BY <3>1, <4>1 DEF NotesTellTheRisks
      <3> QED
        BY <2>2, <3>2, <3>3, StepsOfARendering
    <2> QED
      BY <2>1, <2>2
  <1>3. Inv => NotesTellTheRisks
    OBVIOUS
  <1> HIDE DEF Inv
  <1> QED
    BY <1>1, <1>2, <1>3, IdsInvHolds, PTL DEF RSpec
=============================================================================
