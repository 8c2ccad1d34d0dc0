------------------------------ MODULE StoreProofs ------------------------------
(***************************************************************************)
(* Proofs about what one call of a template leaves of what others set up:  *)
(* the data stores and their upgrades, the container that sets             *)
(* permissions, GPUs, the types, and the references of the file.  All rest *)
(* on one account of what a step may change, given first.                  *)
(***************************************************************************)
EXTENDS RendererProofs, WellFoundedInduction

-----------------------------------------------------------------------------
(* Steps that create containers, and what they create *)

Added(c, image) ==
    /\ Creatable(c, image)
    /\ Place([x \in {c} |-> Fresh(c)])
    /\ UNCHANGED <<volumes, configs, storeVars>>

Activated ==
    /\ "perms" \in kinds
    /\ Creatable(PermsName, "container_utils_image")
    /\ \A i \in Writable : GoodStorage(perms[i].cfg)
    /\ GoodConfig("permissions_actions_data", <<"actions", perms>>)
    /\ Place([x \in {PermsName} |-> PermsContainer])
    /\ volumes' = NewVolumes([i \in Writable |-> perms[i].cfg])
    /\ configs' = configs \cup {[name |-> "permissions_actions_data", data |-> <<"actions", perms>>]}
    /\ UNCHANGED storeVars

Tasks == [name |-> "crontasks", data |-> <<"text", "tasks">>]

StoreAdded(s) ==
    /\ s.kind # "postgres"
    /\ GoodStore(s, SpecOf(s.kind))
    /\ Place([x \in {s.name} |-> StoreContainer(s, SpecOf(s.kind))])
    /\ Remember(s, SpecOf(s.kind), FALSE)
    /\ s.kind = "cron" => GoodConfig(Tasks.name, Tasks.data)
    /\ configs' = configs \cup IF s.kind = "cron" THEN {Tasks} ELSE {}

Upgraded(s) == values.images[s.image].repo \in UpgradeRepos

Database(s) ==
    [StoreContainer(s, Postgres) EXCEPT !.depends =
        IF Upgraded(s)
        THEN {[on |-> UpgradeName[s.name], cond |-> "service_completed_successfully"]} ELSE {}]

NewContainers(s) ==
    [x \in {s.name} \cup (IF Upgraded(s) THEN {UpgradeName[s.name]} ELSE {}) |->
        IF x = s.name THEN Database(s) ELSE Upgrader(s, Database(s))]

PostgresAdded(s) ==
    /\ s.kind = "postgres"
    /\ GoodStore(s, Postgres)
    /\ Upgraded(s) => Creatable(UpgradeName[s.name], "postgres_upgrade_image")
    /\ Place(NewContainers(s))
    /\ Remember(s, Postgres, Upgraded(s))
    /\ UNCHANGED configs

Creating ==
    \/ \E c \in TemplateName, image \in Image : Added(c, image)
    \/ Activated
    \/ \E s \in StoreCall : StoreAdded(s) \/ PostgresAdded(s)

-----------------------------------------------------------------------------
(* What any other step does to what the theorems are about *)

SettingsMove ==
    \/ UNCHANGED settings
    \/ "settings" \in kinds /\ \E c \in names : \E s :
           ValidSetting(s) /\ settings' = [settings EXCEPT ![c] = Applied(@, s)]
    \/ "settings" \in kinds /\ \E c \in names : \E profile :
           settings' = [settings EXCEPT ![c] = Helper(@, profile)]
    \/ \E c \in names : settings' = [settings EXCEPT ![c].capDrop = FALSE]

DependsMove ==
    \/ UNCHANGED depends
    \/ "health" \in kinds /\ \E c \in names, on \in names : \E cond :
           depends' = [depends EXCEPT ![c] = @ \cup {[on |-> on, cond |-> cond]}]
    \/ \E s \in stores, on \in names : \E cond :
           depends' = [c \in Container |->
               depends[c] \cup
                   IF c \in {s.name} \cup IF s.upgraded THEN {UpgradeName[s.name]} ELSE {}
                   THEN {[on |-> on, cond |-> cond]} ELSE {}]

ModeMove ==
    \/ /\ DOMAIN netMode' = DOMAIN netMode
       /\ \A c \in DOMAIN netMode : netMode'[c] = netMode[c]
    \/ {"net", "settings"} \cap kinds # {} /\ \E c \in names, mode \in {"host", "none"} \cup names :
           netMode' = [netMode EXCEPT ![c] = mode]

DevicesMove ==
    \/ UNCHANGED <<devices, reserved, groups>>
    \/ /\ "devices" \in kinds
       /\ DOMAIN devices' = DOMAIN devices /\ DOMAIN reserved' = DOMAIN reserved
       /\ DOMAIN groups' = DOMAIN groups
    \/ \E c \in names : /\ devices' = [devices EXCEPT ![c] = {}]
                        /\ reserved' = [reserved EXCEPT ![c] = FALSE]
                        /\ UNCHANGED groups
    \/ \E c \in names : /\ groups' = [groups EXCEPT ![c] = @ \cup {DockerGid}]
                        /\ UNCHANGED <<devices, reserved>>
    \/ /\ groups' = [c \in Container |-> groups[c] \cup GpuGroups(c)]
       /\ UNCHANGED <<devices, reserved>>

VarsMove == UNCHANGED vars \/ \E c \in names : \E new : vars' = [vars EXCEPT ![c] = new]

StorageMove ==
    \/ UNCHANGED <<mounts, tmpfs, volumes>>
    \/ \E c \in names : \E path, cfg :
           /\ Mountable(c, path, cfg)
           /\ cfg \in StorageConfig \cup {Udev, Socket} /\ cfg.type # "tmpfs"
           /\ mounts' = [mounts EXCEPT ![c] = @ \cup {MountOf(path, cfg)}]
           /\ volumes' = NewVolumes(<<cfg>>)
           /\ UNCHANGED tmpfs
    \/ \E c \in names : \E path :
           /\ ~PathUsed(c, path)
           /\ tmpfs' = [tmpfs EXCEPT ![c] = @ \cup {path}]
           /\ UNCHANGED <<mounts, volumes>>

FileAdded(c, name, data, target) ==
    /\ GoodConfig(name, data)
    /\ configs' = configs \cup {[name |-> name, data |-> data]}
    /\ configFiles' = [configFiles EXCEPT ![c] = @ \cup {[name |-> name, target |-> target]}]

FilesMove ==
    \/ UNCHANGED <<configs, configFiles>>
    \/ \E c \in names, data \in ConfigData : \E name, target : FileAdded(c, name, data, target)

PermsMove ==
    \/ UNCHANGED perms
    \/ \E a \in ActionCall : /\ GoodAction(a.text, a.cfg, a.uid)
                             /\ perms' = WithAction(a.text, a.cfg, a.uid)

PortsMove ==
    \/ UNCHANGED ports
    \/ \E c \in names, a \in PortCall : a.mode \in PortMode /\ Published(c, a)

JoinedMove ==
    \/ UNCHANGED joined
    \/ \E c \in names : \E new : joined' = [joined EXCEPT ![c] = new]

NetworksMove ==
    \/ UNCHANGED networks
    \/ networks' \subseteq host.networks
    \/ \E n \in NetName : networks' \in {networks \cup {External(n)}, networks \cup {Internal(n)}}

ServiceMoves == SettingsMove /\ DependsMove /\ DevicesMove /\ VarsMove

Calls ==
    /\ UNCHANGED <<names, stores, values, host, kinds>>
    /\ ServiceMoves
    /\ ModeMove /\ StorageMove /\ FilesMove /\ PermsMove
    /\ PortsMove /\ JoinedMove /\ NetworksMove

-----------------------------------------------------------------------------
(* Every step creates containers or is a call as above. *)

LEMMA ServiceCallsMove ==
    ASSUME ServiceCalls
    PROVE  ServiceMoves
  <1> USE DEF CallingOn, Calling
  <1> DEFINE Others == UNCHANGED <<settings, depends, devices, reserved, groups>> /\ VarsMove
  <1>0. Others => ServiceMoves
    BY DEF ServiceMoves, SettingsMove, DependsMove, DevicesMove
  <1>1. ASSUME NEW c \in names, NEW s, Set(c, s) PROVE ServiceMoves
    BY <1>1 DEF Set, ServiceMoves, SettingsMove, DependsMove, DevicesMove, VarsMove
  <1>2. ASSUME NEW c \in names, NEW g, AddGroup(c, g) PROVE ServiceMoves
    BY <1>2 DEF AddGroup, ServiceMoves, SettingsMove, DependsMove, DevicesMove, VarsMove
  <1>3. ASSUME NEW c \in names, NEW d, AddDevice(c, d) PROVE ServiceMoves
    BY <1>3 DEF AddDevice, ServiceMoves, SettingsMove, DependsMove, DevicesMove, VarsMove
  <1>4. ASSUME NEW c \in names, NEW path, AddManagedDevice(c, path) PROVE ServiceMoves
    BY <1>4 DEF AddManagedDevice, ServiceMoves, SettingsMove, DependsMove, DevicesMove, VarsMove
  <1>5. ASSUME NEW c \in names, AddSndDevice(c) \/ RemoveDevices(c) PROVE ServiceMoves
    BY <1>5 DEF AddSndDevice, RemoveDevices, ServiceMoves, SettingsMove, DependsMove, DevicesMove,
                VarsMove
  <1>6. ASSUME NEW c \in names, NEW n, NEW origin, AddEnv(c, origin, n) PROVE ServiceMoves
    <2>1. vars' = vars \/ vars' = [vars EXCEPT ![c] = vars[c] \cup {Variable(n, origin, origin)}]
      BY <1>6 DEF AddEnv
    <2>2. VarsMove
      BY <2>1 DEF VarsMove
    <2> QED
      BY <1>0, <1>6, <2>2 DEF AddEnv
  <1>7. ASSUME NEW c \in names, NEW n, RemoveAutoEnv(c, n) PROVE ServiceMoves
    <2>1. vars' = vars \/ \E auto : vars' = [vars EXCEPT ![c] = vars[c] \ auto]
      BY <1>7 DEF RemoveAutoEnv
    <2>2. VarsMove
      BY <2>1 DEF VarsMove
    <2> QED
      BY <1>0, <1>7, <2>2 DEF RemoveAutoEnv
  <1>8. ASSUME NEW c \in names, NEW t, SetTest(c, t) PROVE Others
    BY <1>8 DEF SetTest, VarsMove
  <1>9. ASSUME NEW c \in names, DisableHealthcheck(c) \/ UseBuiltIn(c) PROVE Others
    BY <1>9 DEF DisableHealthcheck, UseBuiltIn, SwitchHealth, VarsMove
  <1>10. ASSUME NEW c \in names, NEW on, NEW cond, AddDependency(c, on, cond) PROVE ServiceMoves
    BY <1>10 DEF AddDependency, ServiceMoves, SettingsMove, DependsMove, DevicesMove, VarsMove
  <1>11. ASSUME NEW c \in names, NEW reg, NEW e, NEW valid, AddEntry(c, reg, e, valid) PROVE Others
    BY <1>11 DEF AddEntry, VarsMove
  <1>12. ASSUME NEW c \in names, NEW e \in EntryCall,
                \/ AddCap(c, e) \/ AddLabel(c, e) \/ AddSysctl(c, e)
                \/ AddSecurityOpt(c, e) \/ AddExtraHost(c, e) \/ AddDnsOpt(c, e)
                \/ AddDnsSearch(c, e) \/ AddNameserver(c, e) \/ AddCgroupRule(c, e)
                \/ RemoveSecurityOpt(c, e.key)
         PROVE  Others
    <2>1. CASE RemoveSecurityOpt(c, e.key)
      BY <2>1 DEF RemoveSecurityOpt, VarsMove
    <2> HIDE DEF Others
    <2> QED
      BY <1>11, <1>12, <2>1 DEF AddCap, AddLabel, AddSysctl, AddSecurityOpt, AddExtraHost,
         AddDnsOpt, AddDnsSearch, AddNameserver, AddCgroupRule
  <1>13. ASSUME NEW c \in names, ClearCaps(c) PROVE ServiceMoves
    BY <1>13 DEF ClearCaps, ServiceMoves, SettingsMove, DependsMove, DevicesMove, VarsMove
  <1>14. ASSUME UseBuiltInElsewhere PROVE Others
    BY <1>14 DEF UseBuiltInElsewhere, VarsMove
  <1> HIDE DEF Others
  <1> QED
    BY <1>0, <1>1, <1>2, <1>3, <1>4, <1>5, <1>6, <1>7, <1>8, <1>9, <1>10, <1>12, <1>13, <1>14
       DEF ServiceCalls

LEMMA StillMoves ==
    ASSUME UNCHANGED serviceVars
    PROVE  ServiceMoves
  BY DEF serviceVars, ServiceMoves, SettingsMove, DependsMove, DevicesMove, VarsMove

LEMMA OneOfItsOwn ==
    /\ UNCHANGED mountVars => StorageMove /\ FilesMove
    /\ UNCHANGED netVars => ModeMove /\ JoinedMove /\ NetworksMove
    /\ UNCHANGED portVars => PortsMove
    /\ UNCHANGED storeVars => PermsMove /\ UNCHANGED stores
  BY DEF mountVars, netVars, portVars, storeVars, StorageMove, FilesMove, ModeMove, JoinedMove,
         NetworksMove, PortsMove, PermsMove

LEMMA MountCallsMove ==
    ASSUME MountCalls
    PROVE  StorageMove /\ FilesMove
  <1>1. ASSUME NEW c \in names, NEW path, NEW cfg \in StorageConfig, AddStorage(c, path, cfg)
        PROVE  StorageMove /\ UNCHANGED <<configs, configFiles>>
    <2>1. CASE cfg.type = "tmpfs"
      BY <1>1, <2>1 DEF AddStorage, AddTmpfs, StorageMove
    <2>2. CASE cfg.type # "tmpfs"
      BY <1>1, <2>2 DEF AddStorage, AddMount, StorageMove
    <2> QED
      BY <2>1, <2>2
  <1>2. ASSUME NEW c \in names, AddUdev(c, "/run/udev")
        PROVE  StorageMove /\ UNCHANGED <<configs, configFiles>>
    <2>1. Udev.type # "tmpfs" /\ Udev \in StorageConfig \cup {Udev, Socket}
      BY DEF Udev
    <2> QED
      BY <1>2, <2>1 DEF AddUdev, AddMount, StorageMove
  <1>3. ASSUME NEW c \in names, NEW name \in ConfigName, NEW data \in ConfigData, NEW target,
               AddConfig(c, name, data, target)
        PROVE  UNCHANGED <<mounts, tmpfs, volumes>> /\ FilesMove
    <2>1. CASE UNCHANGED <<configs, configFiles>>
      BY <1>3, <2>1 DEF AddConfig, FilesMove
    <2>2. CASE FileAdded(c, name, data, target)
      <3>1. FilesMove
        BY <2>2 DEF FilesMove
      <3> QED
        BY <1>3, <3>1 DEF AddConfig
    <2> QED
      BY <1>3, <2>1, <2>2 DEF AddConfig, FileAdded
  <1>4. UNCHANGED <<mounts, tmpfs, volumes>> => StorageMove
    BY DEF StorageMove
  <1>5. UNCHANGED <<configs, configFiles>> => FilesMove
    BY DEF FilesMove
  <1> QED
    BY <1>1, <1>2, <1>3, <1>4, <1>5 DEF MountCalls

LEMMA NetCallsMove ==
    ASSUME NetCalls
    PROVE  ModeMove /\ JoinedMove /\ NetworksMove
  <1> USE DEF CallingOn, Calling, ModeMove, JoinedMove, NetworksMove
  <1>1. ASSUME NEW n \in NetName, Register(n) \/ CreateInternal(n)
        PROVE  ModeMove /\ JoinedMove /\ NetworksMove
    BY <1>1 DEF Register, CreateInternal
  <1>2. ASSUME NEW c \in names, NEW net, NEW cfg, AddNetwork(c, net, cfg)
        PROVE  ModeMove /\ JoinedMove /\ NetworksMove
    <2>1. joined' = joined \/ joined' = [joined EXCEPT ![c] = joined[c] \cup {[net |-> net, cfg |-> cfg]}]
      BY <1>2 DEF AddNetwork
    <2> QED
      BY <1>2, <2>1 DEF AddNetwork
  <1>3. ASSUME NEW c \in names, NEW mode, SetNetworkMode(c, mode)
        PROVE  ModeMove /\ JoinedMove /\ NetworksMove
    BY <1>3 DEF SetNetworkMode, ValidMode
  <1> HIDE DEF ModeMove, JoinedMove, NetworksMove
  <1> QED
    BY <1>1, <1>2, <1>3 DEF NetCalls

LEMMA ContainerCallsMove ==
    ASSUME ContainerStep
    PROVE  Calls \/ Creating
  <1>1. ASSUME NEW c \in TemplateName, NEW image \in Image, AddContainer(c, image)
        PROVE  Calls \/ Creating
    <2>1. CASE Abort
      BY <2>1, OneOfItsOwn, StillMoves DEF Abort, Calls
    <2>2. CASE ~Abort
      BY <1>1, <2>2 DEF AddContainer, Added, Creating
    <2> QED
      BY <2>1, <2>2
  <1>2. ASSUME NEW c \in names, NEW profile, NEW cut \in BOOLEAN, SetupAsHelper(c, profile, cut)
        PROVE  Calls
    <2>1. UNCHANGED <<names, stores, values, host, kinds>> /\ "settings" \in kinds
      BY <1>2 DEF SetupAsHelper, CallingOn, Calling, storeVars
    <2>2. SettingsMove
      BY <1>2, <2>1 DEF SetupAsHelper, SettingsMove
    <2>3. DevicesMove
      BY <1>2 DEF SetupAsHelper, DevicesMove
    <2>4. ModeMove
      <3>1. CASE netMode' = [netMode EXCEPT ![c] = IF cut THEN "none" ELSE @]
        <4>1. CASE cut
          BY <2>1, <3>1, <4>1 DEF ModeMove
        <4>2. CASE ~cut
          <5>1. netMode' = [netMode EXCEPT ![c] = netMode[c]]
            BY <3>1, <4>2
          <5> QED
            BY <5>1 DEF ModeMove
        <4> QED
          BY <4>1, <4>2
      <3> QED
        BY <1>2, <3>1 DEF SetupAsHelper, ModeMove
    <2>5. DependsMove /\ VarsMove /\ JoinedMove /\ NetworksMove
      BY <1>2 DEF SetupAsHelper, DependsMove, VarsMove, JoinedMove, NetworksMove
    <2> QED
      BY <1>2, <2>1, <2>2, <2>3, <2>4, <2>5, OneOfItsOwn DEF SetupAsHelper, Calls, ServiceMoves
  <1>3. ASSUME NEW c \in names, AddDockerSocket(c, "/var/run/docker.sock")
        PROVE  Calls
    <2>1. Socket.type # "tmpfs" /\ Socket \in StorageConfig \cup {Udev, Socket}
      BY DEF Udev, Socket
    <2>2. StorageMove /\ FilesMove
      BY <1>3, <2>1 DEF AddDockerSocket, StorageMove, FilesMove
    <2>3. DevicesMove /\ SettingsMove /\ DependsMove /\ VarsMove
      BY <1>3 DEF AddDockerSocket, DevicesMove, SettingsMove, DependsMove, VarsMove
    <2>4. UNCHANGED <<names, stores, values, host, kinds>>
      BY <1>3 DEF AddDockerSocket, CallingOn, Calling, storeVars
    <2> QED
      BY <1>3, <2>2, <2>3, <2>4, OneOfItsOwn DEF AddDockerSocket, Calls, ServiceMoves
  <1> QED
    BY <1>1, <1>2, <1>3 DEF ContainerStep

LEMMA AbortMoves ==
    ASSUME Abort
    PROVE  Calls
  BY OneOfItsOwn, StillMoves DEF Abort, Calls

LEMMA StoreCallsMove ==
    ASSUME StoreStep
    PROVE  Calls \/ Creating
  <1>1. ASSUME NEW a \in ActionCall, AddAction(a)
        PROVE  Calls
    <2>1. PermsMove
      BY <1>1 DEF AddAction, PermsMove
    <2>2. UNCHANGED <<names, stores, values, host, kinds>>
      BY <1>1 DEF AddAction, Calling
    <2> QED
      BY <1>1, <2>1, <2>2, OneOfItsOwn, StillMoves DEF AddAction, Calls
  <1>2. CASE Activate
    <2>1. CASE ~Abort
      BY <1>2, <2>1 DEF Activate, Activated, Creating
    <2> QED
      BY <2>1, AbortMoves
  <1>3. ASSUME NEW s \in StoreCall, AddStore(s)
        PROVE  Calls \/ Creating
    <2>1. CASE ~Abort
      BY <1>3, <2>1 DEF AddStore, StoreAdded, Tasks, Creating
    <2> QED
      BY <2>1, AbortMoves
  <1>4. ASSUME NEW s \in StoreCall, AddPostgres(s)
        PROVE  Calls \/ Creating
    <2>1. CASE ~Abort
      <3>1. PostgresAdded(s)
        BY <1>4, <2>1 DEF AddPostgres, PostgresAdded, Upgraded, NewContainers, Database
      <3> QED
        BY <3>1 DEF Creating
    <2> QED
      BY <2>1, AbortMoves
  <1>5. ASSUME NEW s \in stores, NEW on \in Container, NEW cond \in Condition,
               AddStoreDependency(s, on, cond)
        PROVE  Calls
    <2>1. DependsMove
      BY <1>5 DEF AddStoreDependency, DependsMove
    <2>2. SettingsMove /\ DevicesMove /\ VarsMove
      BY <1>5 DEF AddStoreDependency, SettingsMove, DevicesMove, VarsMove
    <2>3. UNCHANGED <<names, stores, values, host, kinds>>
      BY <1>5 DEF AddStoreDependency, Calling, storeVars
    <2> QED
      BY <1>5, <2>1, <2>2, <2>3, OneOfItsOwn DEF AddStoreDependency, Calls, ServiceMoves
  <1> QED
    BY <1>1, <1>2, <1>3, <1>4, <1>5 DEF StoreStep

(* The account is complete. *)
LEMMA WhatAStepDoes ==
    ASSUME [RNext]_rvars
    PROVE  Calls \/ Creating
  <1> USE DEF Calls
  <1>1. CASE UNCHANGED rvars
    BY <1>1, OneOfItsOwn, StillMoves DEF rvars, baseVars
  <1>2. CASE Start
    <2>1. ModeMove /\ JoinedMove
      BY <1>2 DEF Start, ModeMove, JoinedMove
    <2>2. NetworksMove
      <3>1. CASE RegisterAll
        <4>1. networks' = networks \/ networks' \subseteq host.networks
          BY <3>1 DEF RegisterAll, Registrable
        <4> QED
          BY <4>1 DEF NetworksMove
      <3> QED
        BY <1>2, <3>1 DEF Start, NetworksMove
    <2> QED
      BY <1>2, <2>1, <2>2, OneOfItsOwn, StillMoves DEF Start
  <1>3. CASE PortStep
    <2>1. PortsMove /\ UNCHANGED <<names, values, host, kinds>>
      <3>1. ASSUME NEW c \in names, NEW a \in PortCall, AddPort(c, a)
            PROVE  PortsMove /\ UNCHANGED <<names, values, host, kinds>>
        BY <3>1 DEF AddPort, PortsMove, Exposed, portVars, CallingOn, Calling
      <3>2. ASSUME NEW p \in PortalCall, AddPortal(p)
            PROVE  PortsMove /\ UNCHANGED <<names, values, host, kinds>>
        BY <3>2 DEF AddPortal, PortsMove, portVars, Calling
      <3> QED
        BY <1>3, <3>1, <3>2 DEF PortStep, PortCalls
    <2> QED
      BY <1>3, <2>1, OneOfItsOwn, StillMoves DEF PortStep
  <1>4. CASE NetStep
    <2>1. UNCHANGED <<names, values, host, kinds>>
      BY <1>4 DEF NetStep, NetCalls, Register, CreateInternal, AddNetwork, SetNetworkMode, CallingOn,
                  Calling
    <2> QED
      BY <1>4, <2>1, NetCallsMove, OneOfItsOwn, StillMoves DEF NetStep
  <1>5. CASE MountStep
    <2>1. UNCHANGED <<names, values, host, kinds>>
      BY <1>5 DEF MountStep, MountCalls, AddStorage, AddUdev, AddConfig, CallingOn, Calling
    <2> QED
      BY <1>5, <2>1, MountCallsMove, OneOfItsOwn, StillMoves DEF MountStep
  <1>6. CASE ServiceStep
    <2>1. UNCHANGED <<names, values, host, kinds>>
      BY <1>6, ServiceCallsGoOn DEF ServiceStep, Going, GoesOn
    <2> QED
      BY <1>6, <2>1, ServiceCallsMove, OneOfItsOwn DEF ServiceStep
  <1>7. CASE ContainerStep \/ StoreStep
    BY <1>7, ContainerCallsMove, StoreCallsMove
  <1>8. CASE NoteStep
    BY <1>8, OneOfItsOwn, StillMoves DEF NoteStep, AddNote, ChangeValues, Calling
  <1>9. CASE RenderFile
    <2>1. DevicesMove
      BY <1>9 DEF RenderFile, DevicesMove
    <2>2. SettingsMove /\ DependsMove /\ VarsMove
      BY <1>9 DEF RenderFile, SettingsMove, DependsMove, VarsMove
    <2> QED
      BY <1>9, <2>1, <2>2, OneOfItsOwn DEF RenderFile, ServiceMoves
  <1> HIDE DEF Calls
  <1> QED
    BY <1>1, <1>2, <1>3, <1>4, <1>5, <1>6, <1>7, <1>8, <1>9 DEF RNext

-----------------------------------------------------------------------------
(* What new containers are made of *)

LEMMA Placed ==
    ASSUME NEW new, Place(new)
    PROVE  /\ names' = names \cup DOMAIN new
           /\ UNCHANGED <<values, host, kinds, ports, networks>>
           /\ DOMAIN settings' = Container /\ DOMAIN depends' = Container
           /\ DOMAIN netMode' = Container /\ DOMAIN devices' = Container
           /\ DOMAIN reserved' = Container /\ DOMAIN groups' = Container
           /\ DOMAIN vars' = Container /\ DOMAIN joined' = Container
           /\ DOMAIN configFiles' = Container
           /\ \A c \in Container :
                 /\ c \in DOMAIN new =>
                       /\ settings'[c] = new[c].settings /\ depends'[c] = new[c].depends
                       /\ netMode'[c] = new[c].netMode /\ devices'[c] = new[c].devices
                       /\ reserved'[c] = new[c].reserved /\ groups'[c] = new[c].groups
                       /\ mounts'[c] = new[c].mounts /\ tmpfs'[c] = new[c].tmpfs
                       /\ configFiles'[c] = new[c].configFiles
                 /\ c \notin DOMAIN new =>
                       /\ settings'[c] = settings[c] /\ depends'[c] = depends[c]
                       /\ netMode'[c] = netMode[c] /\ devices'[c] = devices[c]
                       /\ reserved'[c] = reserved[c] /\ groups'[c] = groups[c]
                       /\ mounts'[c] = mounts[c] /\ tmpfs'[c] = tmpfs[c]
                       /\ configFiles'[c] = configFiles[c]
                       /\ vars'[c] = vars[c] /\ joined'[c] = joined[c]
  BY DEF Place, Put, portVars

LEMMA FreshFields ==
    ASSUME NEW c
    PROVE  /\ Fresh(c).settings = FreshSettings /\ Fresh(c).depends = {}
           /\ Fresh(c).netMode = AutoMode /\ Fresh(c).groups = {Apps}
           /\ Fresh(c).mounts = {} /\ Fresh(c).tmpfs = {} /\ Fresh(c).configFiles = {}
  BY DEF Fresh

StoreFieldsOf(c, s, spec) ==
    /\ {"user", "ipc", "pid"} \subseteq DOMAIN c.settings
    /\ c.settings.user = RunAs(spec) /\ c.settings.ipc = "" /\ c.settings.pid = ""
    /\ c.depends = {} /\ c.netMode = AutoMode /\ c.groups = {Apps}
    /\ c.devices = {} /\ ~c.reserved
    /\ c.mounts = DataMounts(spec, s.cfg) /\ c.tmpfs = DataTmpfs(spec, s.cfg)
    /\ c.configFiles = IF s.kind = "cron"
                       THEN {[name |-> "crontasks", target |-> "/crontasks"]} ELSE {}

LEMMA StoreFields ==
    \A s, spec : StoreFieldsOf(StoreContainer(s, spec), s, spec)
  <1> TAKE s, spec
  <1> DEFINE c == StoreContainer(s, spec)
  <1>1. /\ {"user", "ipc", "pid"} \subseteq DOMAIN c.settings
        /\ c.settings.user = RunAs(spec) /\ c.settings.ipc = "" /\ c.settings.pid = ""
    <2>1. "user" \in DOMAIN c.settings
      BY DEF StoreContainer, Fresh, FreshSettings
    <2>4. c.settings.user = RunAs(spec)
      <3>1. ASSUME NEW r, "user" \in DOMAIN r, NEW u, NEW g, NEW p
            PROVE  [r EXCEPT !.user = u, !.grace = g, !.profile = p].user = u
        BY <3>1
      <3>2. "user" \in DOMAIN FreshSettings
        BY DEF FreshSettings
      <3>3. \E p : c.settings = [FreshSettings EXCEPT !.user = RunAs(spec), !.grace = 60, !.profile = p]
        BY DEF StoreContainer, Fresh
      <3> QED
        BY <3>1, <3>2, <3>3
    <2>2. c.settings.ipc = "" /\ c.settings.pid = ""
      BY DEF StoreContainer, Fresh, FreshSettings
    <2>3. "ipc" \in DOMAIN c.settings /\ "pid" \in DOMAIN c.settings
      BY DEF StoreContainer, Fresh, FreshSettings
    <2> QED
      BY <2>1, <2>2, <2>3, <2>4
  <1>2. c.depends = {} /\ c.netMode = AutoMode /\ c.groups = {Apps}
    BY DEF StoreContainer, Fresh
  <1>3. c.devices = {} /\ ~c.reserved
    BY DEF StoreContainer, Fresh
  <1>4. c.mounts = DataMounts(spec, s.cfg) /\ c.tmpfs = DataTmpfs(spec, s.cfg)
    BY DEF StoreContainer, Fresh
  <1>5. c.configFiles = IF s.kind = "cron"
                        THEN {[name |-> "crontasks", target |-> "/crontasks"]} ELSE {}
    BY DEF StoreContainer, Fresh
  <1> QED
    BY <1>1, <1>2, <1>3, <1>4, <1>5 DEF StoreFieldsOf

LEMMA DatabaseFields ==
    ASSUME NEW s
    PROVE  LET c == Database(s)
               d == StoreContainer(s, Postgres)
           IN  /\ c.settings = d.settings /\ c.netMode = d.netMode /\ c.groups = d.groups
               /\ c.devices = d.devices /\ c.reserved = d.reserved
               /\ c.mounts = d.mounts /\ c.tmpfs = d.tmpfs /\ c.configFiles = d.configFiles
               /\ c.depends = IF Upgraded(s)
                              THEN {[on |-> UpgradeName[s.name],
                                     cond |-> "service_completed_successfully"]}
                              ELSE {}
  BY DEF Database, StoreContainer, Fresh

LEMMA UpgraderFields ==
    ASSUME NEW s, NEW c
    PROVE  LET u == Upgrader(s, c)
           IN  /\ u.settings = [Helper(FreshSettings, "medium") EXCEPT !.user = c.settings.user]
               /\ u.depends = {} /\ u.netMode = "none" /\ u.groups = {Apps}
               /\ u.devices = {} /\ ~u.reserved
               /\ u.mounts = c.mounts /\ u.tmpfs = c.tmpfs /\ u.configFiles = {}
  BY DEF Upgrader, Fresh

LEMMA PermsFields ==
    /\ PermsContainer.settings = [Helper(FreshSettings, "medium") EXCEPT !.user = 0]
    /\ PermsContainer.depends = {} /\ PermsContainer.netMode = "none"
    /\ PermsContainer.groups = {Apps}
    /\ PermsContainer.devices = {} /\ ~PermsContainer.reserved
    /\ PermsContainer.mounts = {MountOf(ActionPath(perms[i].id), perms[i].cfg) : i \in Writable}
    /\ PermsContainer.tmpfs = {}
    /\ PermsContainer.configFiles = {[name |-> "permissions_actions_data", target |-> "/script/actions.json"]}
  BY DEF PermsContainer, Fresh

(* The settings the theorems are about are there from the start *)
SettingsOf(r) == {"user", "ipc", "pid"} \subseteq DOMAIN r

Plain(r) == SettingsOf(r) /\ r.ipc = "" /\ r.pid = ""

HelperOf(user) == [Helper(FreshSettings, "medium") EXCEPT !.user = user]

LEMMA FreshSetting ==
    Plain(FreshSettings)
  BY DEF FreshSettings, SettingsOf, Plain

LEMMA HelperSetting ==
    \A user : Plain(HelperOf(user)) /\ HelperOf(user).user = user
  BY DEF FreshSettings, Helper, SettingsOf, HelperOf, Plain

LEMMA StoreSetting ==
    \A s, spec : Plain(StoreContainer(s, spec).settings)
  <1> TAKE s, spec
  <1>1. StoreFieldsOf(StoreContainer(s, spec), s, spec)
    BY StoreFields
  <1> QED
    BY <1>1 DEF StoreFieldsOf, Plain, SettingsOf

(* Whoever comes was not there, shares nothing with others yet and waits   *)
(* only for whoever comes with it.                                         *)
Newcomer(c, among) ==
    /\ Plain(c.settings)
    /\ c.netMode \in {"", "host", "none"}
    /\ \A d \in c.depends : d.on \in among

Newcomers(new) ==
    /\ Place(new)
    /\ \A x \in DOMAIN new : x \in Container \ names /\ Newcomer(new[x], DOMAIN new)

LEMMA AddedComes ==
    ASSUME NEW c \in TemplateName, NEW image, Added(c, image)
    PROVE  Newcomers([x \in {c} |-> Fresh(c)])
  <1>1. c \in Container \ names
    BY NameAssumption DEF Added, Creatable
  <1>2. Newcomer(Fresh(c), {c})
    <2>1. /\ Fresh(c).settings = FreshSettings /\ Fresh(c).depends = {}
          /\ Fresh(c).netMode = AutoMode
      BY FreshFields
    <2> QED
      BY <2>1, FreshSetting DEF Newcomer, AutoMode
  <1> QED
    BY <1>1, <1>2 DEF Newcomers, Added

LEMMA PermsComes ==
    ASSUME Activated
    PROVE  Newcomers([x \in {PermsName} |-> PermsContainer])
  <1>1. PermsName \in Container \ names
    BY NameAssumption DEF Activated, Creatable
  <1>2. Newcomer(PermsContainer, {PermsName})
    <2>1. PermsContainer.settings = HelperOf(0)
      BY PermsFields DEF HelperOf
    <2>2. Plain(PermsContainer.settings)
      BY <2>1, HelperSetting
    <2> QED
      BY <2>2, PermsFields DEF Newcomer
  <1> QED
    BY <1>1, <1>2 DEF Newcomers, Activated

LEMMA StoreComes ==
    ASSUME NEW s \in StoreCall, StoreAdded(s)
    PROVE  Newcomers([x \in {s.name} |-> StoreContainer(s, SpecOf(s.kind))])
  <1>1. s.name \in Container \ names
    BY NameAssumption DEF StoreAdded, GoodStore, Creatable
  <1>2. Newcomer(StoreContainer(s, SpecOf(s.kind)), {s.name})
    <2>1. StoreFieldsOf(StoreContainer(s, SpecOf(s.kind)), s, SpecOf(s.kind))
      BY StoreFields
    <2> QED
      BY <2>1, StoreSetting DEF Newcomer, StoreFieldsOf, AutoMode
  <1> QED
    BY <1>1, <1>2 DEF Newcomers, StoreAdded

LEMMA PostgresComes ==
    ASSUME NEW s \in StoreCall, PostgresAdded(s)
    PROVE  /\ Newcomers(NewContainers(s))
           /\ UpgradeName[s.name] # s.name
           /\ DOMAIN NewContainers(s) =
                 {s.name} \cup IF Upgraded(s) THEN {UpgradeName[s.name]} ELSE {}
           /\ NewContainers(s)[s.name] = Database(s)
           /\ Upgraded(s) => NewContainers(s)[UpgradeName[s.name]] = Upgrader(s, Database(s))
  <1>1. /\ s.name \in Container \ names
        /\ UpgradeName[s.name] \in Container /\ UpgradeName[s.name] # s.name
        /\ Upgraded(s) => UpgradeName[s.name] \notin names
    BY NameAssumption DEF PostgresAdded, GoodStore, Creatable
  <1>2. /\ DOMAIN NewContainers(s) =
              {s.name} \cup IF Upgraded(s) THEN {UpgradeName[s.name]} ELSE {}
        /\ NewContainers(s)[s.name] = Database(s)
        /\ Upgraded(s) => NewContainers(s)[UpgradeName[s.name]] = Upgrader(s, Database(s))
    BY <1>1 DEF NewContainers
  <1>3. Newcomer(Database(s), DOMAIN NewContainers(s))
    <2>1. Plain(Database(s).settings) /\ Database(s).netMode = AutoMode
      <3>1. /\ Database(s).settings = StoreContainer(s, Postgres).settings
            /\ Database(s).netMode = StoreContainer(s, Postgres).netMode
        BY DatabaseFields
      <3>2. StoreFieldsOf(StoreContainer(s, Postgres), s, Postgres)
        BY StoreFields
      <3> QED
        BY <3>1, <3>2, StoreSetting DEF StoreFieldsOf
    <2>2. \A d \in Database(s).depends : Upgraded(s) /\ d.on = UpgradeName[s.name]
      <3>1. Database(s).depends =
               IF Upgraded(s)
               THEN {[on |-> UpgradeName[s.name], cond |-> "service_completed_successfully"]}
               ELSE {}
        BY DatabaseFields
      <3> QED
        BY <3>1
    <2> QED
      BY <1>2, <2>1, <2>2 DEF Newcomer, AutoMode
  <1>4. \A c : Newcomer(Upgrader(s, c), DOMAIN NewContainers(s))
    <2> SUFFICES ASSUME NEW c PROVE Newcomer(Upgrader(s, c), DOMAIN NewContainers(s))
      OBVIOUS
    <2>1. /\ Upgrader(s, c).settings = HelperOf(c.settings.user)
          /\ Upgrader(s, c).depends = {} /\ Upgrader(s, c).netMode = "none"
      BY UpgraderFields DEF HelperOf
    <2> QED
      BY <2>1, HelperSetting DEF Newcomer
  <1> QED
    BY <1>1, <1>2, <1>3, <1>4 DEF Newcomers, PostgresAdded

LEMMA WhoComes ==
    ASSUME Creating
    PROVE  \E new : Newcomers(new)
  BY AddedComes, PermsComes, StoreComes, PostgresComes DEF Creating

-----------------------------------------------------------------------------
(* The containers of a store *)

Own(s) == {s.name} \cup IF s.upgraded THEN {UpgradeName[s.name]} ELSE {}

(* Containers are told apart by their names, and no two stores share one.  *)
NamesInv ==
    /\ names \subseteq Container
    /\ \A c \in Container : SettingsOf(settings[c])
    /\ \A s \in stores : Own(s) \subseteq names /\ UpgradeName[s.name] # s.name
    /\ \A s, t \in stores : s # t => Own(s) \cap Own(t) = {}

DomainsInv ==
    /\ DOMAIN settings = Container /\ DOMAIN depends = Container
    /\ DOMAIN netMode = Container /\ DOMAIN devices = Container
    /\ DOMAIN reserved = Container /\ DOMAIN groups = Container
    /\ DOMAIN vars = Container /\ DOMAIN joined = Container
    /\ DOMAIN configFiles = Container /\ DOMAIN mounts = Container
    /\ DOMAIN tmpfs = Container

LEMMA DomainsKept ==
    ASSUME DomainsInv, [RNext]_rvars
    PROVE  DomainsInv'
  <1>1. CASE Creating
    <2>1. PICK new : Place(new)
      BY <1>1, WhoComes DEF Newcomers
    <2>2. DOMAIN mounts' = Container /\ DOMAIN tmpfs' = Container
      BY <2>1 DEF Place, Put
    <2> QED
      BY <2>1, <2>2, Placed DEF DomainsInv
  <1>2. CASE Calls
    <2>1. DOMAIN settings' = Container
      BY <1>2 DEF DomainsInv, Calls, ServiceMoves, SettingsMove
    <2>2. DOMAIN depends' = Container
      BY <1>2 DEF DomainsInv, Calls, ServiceMoves, DependsMove
    <2>3. DOMAIN netMode' = Container
      BY <1>2 DEF DomainsInv, Calls, ModeMove
    <2>4. DOMAIN vars' = Container /\ DOMAIN joined' = Container
      BY <1>2 DEF DomainsInv, Calls, ServiceMoves, VarsMove, JoinedMove
    <2>5. DOMAIN configFiles' = Container
      BY <1>2 DEF DomainsInv, Calls, FilesMove, FileAdded
    <2>6. DOMAIN mounts' = Container /\ DOMAIN tmpfs' = Container
      BY <1>2 DEF DomainsInv, Calls, StorageMove
    <2>7. DOMAIN devices' = Container /\ DOMAIN reserved' = Container /\ DOMAIN groups' = Container
      BY <1>2 DEF DomainsInv, Calls, ServiceMoves, DevicesMove
    <2> QED
      BY <2>1, <2>2, <2>3, <2>4, <2>5, <2>6, <2>7 DEF DomainsInv
  <1> QED
    BY <1>1, <1>2, WhatAStepDoes

IpcValues == {"", "host", "private", "shareable", "none"}
PidValues == {"", "host"}

LEMMA AppliedSetting ==
    ASSUME NEW r, NEW s, SettingsOf(r), ValidSetting(s), names \subseteq Container
    PROVE  /\ SettingsOf(Applied(r, s))
           /\ Applied(r, s).ipc = r.ipc \/ Applied(r, s).ipc \in IpcValues \cup names
           /\ Applied(r, s).pid = r.pid \/ Applied(r, s).pid \in PidValues \cup names
  <1> DEFINE new == [r EXCEPT ![s.field] = s.value]
  <1>1. /\ SettingsOf(new)
        /\ new.ipc = r.ipc \/ new.ipc \in IpcValues \cup names
        /\ new.pid = r.pid \/ new.pid \in PidValues \cup names
    BY DEF SettingsOf, ValidSetting, IpcValues, PidValues
  <1> HIDE DEF new
  <1>2. Applied(r, s) = new \/ Applied(r, s) = [new EXCEPT !.retries = s.retries]
    BY DEF Applied, new
  <1> QED
    BY <1>1, <1>2 DEF SettingsOf

LEMMA HelperSettings ==
    ASSUME NEW r, NEW profile, SettingsOf(r)
    PROVE  /\ SettingsOf(Helper(r, profile))
           /\ Helper(r, profile).user = r.user
           /\ Helper(r, profile).ipc = r.ipc /\ Helper(r, profile).pid = r.pid
  <1>1. PICK p : Helper(r, profile) = [r EXCEPT !.restart = "on-failure", !.retries = 1, !.profile = p]
    BY DEF Helper
  <1> QED
    BY <1>1 DEF SettingsOf

LEMMA CapsCleared ==
    ASSUME NEW r, NEW x, SettingsOf(r)
    PROVE  /\ SettingsOf([r EXCEPT !.capDrop = x])
           /\ [r EXCEPT !.capDrop = x].user = r.user
           /\ [r EXCEPT !.capDrop = x].ipc = r.ipc /\ [r EXCEPT !.capDrop = x].pid = r.pid
  BY DEF SettingsOf

(* What a call may make of the settings of a container.                    *)
LEMMA SettingsAfterCall ==
    ASSUME DomainsInv, names \subseteq Container, SettingsMove,
           NEW c \in Container, SettingsOf(settings[c])
    PROVE  /\ SettingsOf(settings'[c])
           /\ "settings" \notin kinds => settings'[c].user = settings[c].user
           /\ settings'[c].ipc = settings[c].ipc \/ settings'[c].ipc \in IpcValues \cup names
           /\ settings'[c].pid = settings[c].pid \/ settings'[c].pid \in PidValues \cup names
  <1> USE DEF DomainsInv
  <1>1. ASSUME NEW d \in names, NEW new, settings' = [settings EXCEPT ![d] = new]
        PROVE  settings'[c] = IF c = d THEN new ELSE settings[c]
    BY <1>1
  <1>2. CASE UNCHANGED settings
    BY <1>2
  <1>3. ASSUME "settings" \in kinds, NEW d \in names, NEW s, ValidSetting(s),
               settings' = [settings EXCEPT ![d] = Applied(settings[d], s)]
        PROVE  /\ SettingsOf(settings'[c])
               /\ settings'[c].ipc = settings[c].ipc \/ settings'[c].ipc \in IpcValues \cup names
               /\ settings'[c].pid = settings[c].pid \/ settings'[c].pid \in PidValues \cup names
    <2>1. settings'[c] = IF c = d THEN Applied(settings[d], s) ELSE settings[c]
      BY <1>1, <1>3
    <2> QED
      BY <2>1, <1>3, AppliedSetting
  <1>4. ASSUME NEW d \in names, NEW profile,
               settings' = [settings EXCEPT ![d] = Helper(settings[d], profile)]
        PROVE  /\ SettingsOf(settings'[c]) /\ settings'[c].user = settings[c].user
               /\ settings'[c].ipc = settings[c].ipc /\ settings'[c].pid = settings[c].pid
    <2>1. settings'[c] = IF c = d THEN Helper(settings[d], profile) ELSE settings[c]
      BY <1>1, <1>4
    <2> QED
      BY <2>1, HelperSettings
  <1>5. ASSUME NEW d \in names, settings' = [settings EXCEPT ![d].capDrop = FALSE]
        PROVE  /\ SettingsOf(settings'[c]) /\ settings'[c].user = settings[c].user
               /\ settings'[c].ipc = settings[c].ipc /\ settings'[c].pid = settings[c].pid
    <2>1. settings'[c] = IF c = d THEN [settings[c] EXCEPT !.capDrop = FALSE] ELSE settings[c]
      BY <1>5, Zenon
    <2>2. /\ SettingsOf([settings[c] EXCEPT !.capDrop = FALSE])
          /\ [settings[c] EXCEPT !.capDrop = FALSE].user = settings[c].user
          /\ [settings[c] EXCEPT !.capDrop = FALSE].ipc = settings[c].ipc
          /\ [settings[c] EXCEPT !.capDrop = FALSE].pid = settings[c].pid
      BY CapsCleared, Zenon
    <2> QED
      BY <2>1, <2>2, Zenon
  <1> QED
    BY <1>2, <1>3, <1>4, <1>5 DEF SettingsMove

Record(s, upgraded) ==
    [name |-> s.name, id |-> StoreId(s), cfg |-> s.cfg, kind |-> s.kind, upgraded |-> upgraded]

(* A store is remembered with the containers that come with it.            *)
LEMMA WhoIsRemembered ==
    ASSUME Creating
    PROVE  \E new : /\ Newcomers(new)
                    /\ \/ UNCHANGED stores
                       \/ \E r : /\ stores' = stores \cup {r}
                                 /\ UpgradeName[r.name] # r.name
                                 /\ Own(r) = DOMAIN new
  <1>1. ASSUME NEW c \in TemplateName, NEW image, Added(c, image)
        PROVE  UNCHANGED stores
    BY <1>1 DEF Added, storeVars
  <1>2. Activated => UNCHANGED stores
    BY DEF Activated, storeVars
  <1>3. ASSUME NEW s \in StoreCall, StoreAdded(s)
        PROVE  \E r : /\ stores' = stores \cup {r}
                      /\ UpgradeName[r.name] # r.name /\ Own(r) = {s.name}
    <2>1. stores' = stores \cup {Record(s, FALSE)}
      BY <1>3 DEF StoreAdded, Remember, Record
    <2>2. UpgradeName[s.name] # s.name
      BY <1>3, NameAssumption DEF StoreAdded, GoodStore, Creatable
    <2>3. Own(Record(s, FALSE)) = {s.name} /\ Record(s, FALSE).name = s.name
      BY DEF Own, Record
    <2> QED
      BY <2>1, <2>2, <2>3
  <1>4. ASSUME NEW s \in StoreCall, PostgresAdded(s)
        PROVE  \E r : /\ stores' = stores \cup {r}
                      /\ UpgradeName[r.name] # r.name /\ Own(r) = DOMAIN NewContainers(s)
    <2>1. stores' = stores \cup {Record(s, Upgraded(s))}
      BY <1>4 DEF PostgresAdded, Remember, Record
    <2>2. UpgradeName[s.name] # s.name
      BY <1>4, PostgresComes
    <2>3. Own(Record(s, Upgraded(s))) = DOMAIN NewContainers(s) /\ Record(s, Upgraded(s)).name = s.name
      BY <1>4, PostgresComes DEF Own, Record
    <2> QED
      BY <2>1, <2>2, <2>3
  <1>5. CASE \E c \in TemplateName, image \in Image : Added(c, image)
    BY <1>5, <1>1, AddedComes
  <1>6. CASE Activated
    BY <1>6, <1>2, PermsComes
  <1>7. CASE \E s \in StoreCall : StoreAdded(s)
    <2>1. PICK s \in StoreCall : StoreAdded(s)
      BY <1>7
    <2>2. Newcomers([x \in {s.name} |-> StoreContainer(s, SpecOf(s.kind))])
      BY <2>1, StoreComes
    <2>3. DOMAIN [x \in {s.name} |-> StoreContainer(s, SpecOf(s.kind))] = {s.name}
      OBVIOUS
    <2> QED
      BY <2>1, <2>2, <2>3, <1>3
  <1>8. CASE \E s \in StoreCall : PostgresAdded(s)
    BY <1>8, <1>4, PostgresComes
  <1> QED
    BY <1>5, <1>6, <1>7, <1>8 DEF Creating

LEMMA NamesKept ==
    ASSUME DomainsInv, NamesInv, [RNext]_rvars
    PROVE  NamesInv'
  <1>1. CASE Calls
    <2>1. UNCHANGED <<names, stores>>
      BY <1>1 DEF Calls
    <2>2. \A c \in Container : SettingsOf(settings'[c])
      BY <1>1, SettingsAfterCall DEF NamesInv, Calls, ServiceMoves
    <2> QED
      BY <2>1, <2>2 DEF NamesInv, Own
  <1>2. CASE Creating
    <2>1. PICK new : /\ Newcomers(new)
                     /\ \/ UNCHANGED stores
                        \/ \E r : /\ stores' = stores \cup {r}
                                  /\ UpgradeName[r.name] # r.name
                                  /\ Own(r) = DOMAIN new
      BY <1>2, WhoIsRemembered
    <2>2. names' = names \cup DOMAIN new /\ DOMAIN new \subseteq Container \ names
      BY <2>1, Placed DEF Newcomers
    <2>3. \A c \in Container : SettingsOf(settings'[c])
      <3>1. \A c \in DOMAIN new : SettingsOf(new[c].settings)
        BY <2>1 DEF Newcomers, Newcomer, Plain
      <3>2. \A c \in Container : IF c \in DOMAIN new THEN settings'[c] = new[c].settings
                                                     ELSE settings'[c] = settings[c]
        BY <2>1, Placed DEF Newcomers
      <3> QED
        BY <3>1, <3>2 DEF NamesInv
    <2>4. /\ \A s \in stores' : Own(s) \subseteq names' /\ UpgradeName[s.name] # s.name
          /\ \A s, t \in stores' : s # t => Own(s) \cap Own(t) = {}
      BY <2>1, <2>2 DEF NamesInv
    <2> QED
      BY <2>2, <2>3, <2>4 DEF NamesInv, Own
  <1> QED
    BY <1>1, <1>2, WhatAStepDoes

LEMMA NamesInvHolds ==
    RSpec => [](DomainsInv /\ NamesInv)
  <1>1. RInit => DomainsInv /\ NamesInv
    BY FreshSetting, ZenonT(30) DEF RInit, BaseInit, NetInit, MountInit, ServiceInit, DomainsInv, NamesInv, Plain
  <1> QED
    BY <1>1, DomainsKept, NamesKept, PTL DEF RSpec

-----------------------------------------------------------------------------
(* The container that sets permissions.  The list of actions is written    *)
(* into a config once, when that container comes, and the storages it      *)
(* mounts then stay mounted; no template can write such a config itself.   *)

LEMMA StorageGrows ==
    ASSUME DomainsInv, StorageMove, NEW c \in Container
    PROVE  mounts[c] \subseteq mounts'[c] /\ tmpfs[c] \subseteq tmpfs'[c]
  BY DEF DomainsInv, StorageMove

SeesActions(actions, ms) ==
    \A i \in DOMAIN actions :
        LET p == actions[i]
        IN  ~p.cfg.readOnly =>
                \E m \in ms : m.target = ActionPath(p.id) /\ m.source = Source(p.cfg) /\ ~m.readOnly

ActionList(k) == k.name = "permissions_actions_data" /\ k.data[1] = "actions"

ActionsInv ==
    \A k \in configs : ActionList(k) =>
        PermsName \in names /\ SeesActions(k.data[2], mounts[PermsName])

LEMMA SourcesStay ==
    ASSUME UNCHANGED values, NEW actions, NEW ms, NEW more, ms \subseteq more,
           SeesActions(actions, ms)
    PROVE  SeesActions(actions, more) /\ (\A new : new = more => SeesActions(actions, new)')
  <1>1. \A cfg : Source(cfg)' = Source(cfg)
    BY DEF Source
  <1> QED
    BY <1>1 DEF SeesActions

LEMMA ActivatedSees ==
    ASSUME UNCHANGED values
    PROVE  SeesActions(perms, PermsContainer.mounts)
  <1> SUFFICES ASSUME NEW i \in DOMAIN perms, ~perms[i].cfg.readOnly
               PROVE  \E m \in PermsContainer.mounts :
                          /\ m.target = ActionPath(perms[i].id)
                          /\ m.source = Source(perms[i].cfg) /\ ~m.readOnly
    BY DEF SeesActions
  <1>1. i \in Writable
    BY DEF Writable
  <1>2. MountOf(ActionPath(perms[i].id), perms[i].cfg) \in PermsContainer.mounts
    BY <1>1, PermsFields
  <1> QED
    BY <1>2 DEF MountOf

LEMMA ActionsKept ==
    ASSUME DomainsInv, NamesInv, ActionsInv, [RNext]_rvars
    PROVE  ActionsInv'
  <1> SUFFICES ASSUME NEW k \in configs', ActionList(k)
               PROVE  PermsName \in names' /\ SeesActions(k.data[2], mounts[PermsName])'
    BY DEF ActionsInv, ActionList
  <1>0. PermsName \in Container
    BY NameAssumption
  <1>1. CASE Calls
    <2>1. k \in configs
      <3>1. k \in configs \/ \E data \in ConfigData : k.data = data
        <4>1. \/ configs' = configs
              \/ \E data \in ConfigData : \E name :
                    configs' = configs \cup {[name |-> name, data |-> data]}
          BY <1>1 DEF Calls, FilesMove, FileAdded
        <4>2. ASSUME NEW data, NEW name, configs' = configs \cup {[name |-> name, data |-> data]}
              PROVE  k \in configs \/ k.data = data
          <5>1. k \in configs \/ k = [name |-> name, data |-> data]
            BY <4>2
          <5> QED
            BY <5>1
        <4> QED
          BY <4>1, <4>2
      <3> QED
        BY <3>1, ConfigAssumption DEF ActionList
    <2>2. mounts[PermsName] \subseteq mounts'[PermsName]
      BY <1>0, <1>1, StorageGrows DEF Calls
    <2> QED
      BY <1>1, <2>1, <2>2, SourcesStay DEF Calls, ActionsInv
  <1>2. ASSUME NEW new, Newcomers(new), k \in configs
        PROVE  PermsName \in names' /\ SeesActions(k.data[2], mounts[PermsName])'
    <2>1. PermsName \in names /\ SeesActions(k.data[2], mounts[PermsName])
      BY <1>2 DEF ActionsInv
    <2>2. /\ UNCHANGED values /\ names \subseteq names'
          /\ mounts'[PermsName] = mounts[PermsName]
      BY <1>0, <1>2, <2>1, Placed DEF Newcomers
    <2> QED
      BY <2>1, <2>2, SourcesStay
  <1>3. ASSUME NEW c \in TemplateName, NEW image, Added(c, image)
        PROVE  \E new : Newcomers(new) /\ k \in configs
    BY <1>3, AddedComes DEF Added
  <1>4. ASSUME Activated
        PROVE  PermsName \in names' /\ SeesActions(k.data[2], mounts[PermsName])'
    <2>1. PermsName \notin names
      BY <1>4 DEF Activated, Creatable
    <2>2. k \notin configs
      BY <2>1 DEF ActionsInv
    <2>3. k.data[2] = perms
      <3>1. k = [name |-> "permissions_actions_data", data |-> <<"actions", perms>>]
        BY <1>4, <2>2 DEF Activated
      <3> QED
        BY <3>1
    <2>4. /\ UNCHANGED values /\ PermsName \in names'
          /\ mounts'[PermsName] = PermsContainer.mounts
      <3>1. Place([x \in {PermsName} |-> PermsContainer])
        BY <1>4 DEF Activated
      <3>2. PICK new : /\ Place(new) /\ DOMAIN new = {PermsName}
                       /\ new[PermsName] = PermsContainer
        BY <3>1
      <3> QED
        BY <1>0, <3>2, Placed
    <2> QED
      BY <2>3, <2>4, ActivatedSees, SourcesStay
  <1>5. ASSUME NEW s \in StoreCall, StoreAdded(s)
        PROVE  \E new : Newcomers(new) /\ k \in configs
    <2>1. k \in configs
      <3>1. k \in configs \/ k = Tasks
        BY <1>5 DEF StoreAdded
      <3>2. ~ActionList(Tasks)
        BY DEF Tasks, ActionList
      <3> QED
        BY <3>1, <3>2
    <2>2. Newcomers([x \in {s.name} |-> StoreContainer(s, SpecOf(s.kind))])
      BY <1>5, StoreComes
    <2> QED
      BY <2>1, <2>2
  <1>6. ASSUME NEW s \in StoreCall, PostgresAdded(s)
        PROVE  \E new : Newcomers(new) /\ k \in configs
    BY <1>6, PostgresComes DEF PostgresAdded
  <1>7. CASE Creating
    BY <1>2, <1>3, <1>4, <1>5, <1>6, <1>7 DEF Creating
  <1> QED
    BY <1>1, <1>7, WhatAStepDoes

\* The container that sets permissions always sees the storages of the
\* actions it carries out, each at its place and writable
\* (deps_perms.py, PermsContainer.activate), whatever is called after it.
THEOREM ActionsAlwaysSeeTheirData == RSpec => []ActionsSeeTheirData
  <1>1. RInit => ActionsInv
    BY DEF RInit, MountInit, ActionsInv
  <1>2. RSpec => []ActionsInv
    BY <1>1, ActionsKept, NamesInvHolds, PTL DEF RSpec
  <1>3. ActionsInv => ActionsSeeTheirData
    BY DEF ActionsInv, ActionsSeeTheirData, ActionList, SeesActions
  <1> QED
    BY <1>2, <1>3, PTL

-----------------------------------------------------------------------------
(* The data of a store.  Its action, its mount and its user are set when   *)
(* it is created; later calls add to the actions and the mounts, and only  *)
(* a template that sets users itself could change whom a store runs as.    *)

LEMMA StoreIsPlaced ==
    ASSUME NEW s \in StoreCall, StoreAdded(s) \/ PostgresAdded(s)
    PROVE  LET spec == SpecOf(s.kind)
           IN  /\ UNCHANGED <<values, kinds>>
               /\ s.name \in Container \ names
               /\ \E upgraded : stores' = stores \cup {Record(s, upgraded)}
               /\ perms' = IF spec.dir = "" THEN perms
                           ELSE WithAction(StoreId(s), s.cfg, RunAs(spec))
               /\ settings'[s.name].user = RunAs(spec)
               /\ mounts'[s.name] = DataMounts(spec, s.cfg)
  <1> DEFINE spec == SpecOf(s.kind)
  <1>1. CASE StoreAdded(s)
    <2>1. s.name \in Container \ names
      BY <1>1, NameAssumption DEF StoreAdded, GoodStore, Creatable
    <2>2. stores' = stores \cup {Record(s, FALSE)}
      BY <1>1 DEF StoreAdded, Remember, Record
    <2>3. PICK new : Place(new) /\ DOMAIN new = {s.name} /\ new[s.name] = StoreContainer(s, spec)
      BY <1>1 DEF StoreAdded
    <2>4. StoreFieldsOf(StoreContainer(s, spec), s, spec)
      BY StoreFields
    <2>5. /\ UNCHANGED <<values, kinds>>
          /\ settings'[s.name].user = RunAs(spec)
          /\ mounts'[s.name] = DataMounts(spec, s.cfg)
      <3>1. /\ UNCHANGED <<values, kinds>>
            /\ settings'[s.name] = new[s.name].settings
            /\ mounts'[s.name] = new[s.name].mounts
        BY <2>1, <2>3, Placed
      <3>2. /\ StoreContainer(s, spec).settings.user = RunAs(spec)
            /\ StoreContainer(s, spec).mounts = DataMounts(spec, s.cfg)
        BY <2>4 DEF StoreFieldsOf
      <3> HIDE DEF spec
      <3> QED
        BY <2>3, <3>1, <3>2
    <2>6. perms' = IF spec.dir = "" THEN perms ELSE WithAction(StoreId(s), s.cfg, RunAs(spec))
      BY <1>1 DEF StoreAdded, Remember
    <2> QED
      BY <2>1, <2>2, <2>5, <2>6
  <1>2. CASE PostgresAdded(s)
    <2>1. s.name \in Container \ names
      BY <1>2, NameAssumption DEF PostgresAdded, GoodStore, Creatable
    <2>2. stores' = stores \cup {Record(s, Upgraded(s))}
      BY <1>2 DEF PostgresAdded, Remember, Record
    <2>0. spec = Postgres
      BY <1>2 DEF PostgresAdded, SpecOf
    <2>3. PICK new : Place(new) /\ s.name \in DOMAIN new /\ new[s.name] = Database(s)
      BY <1>2, PostgresComes DEF PostgresAdded
    <2>4. StoreFieldsOf(StoreContainer(s, Postgres), s, Postgres)
      BY StoreFields
    <2>5. /\ Database(s).settings.user = RunAs(Postgres)
          /\ Database(s).mounts = DataMounts(Postgres, s.cfg)
      BY <2>4, DatabaseFields DEF StoreFieldsOf
    <2>6. /\ UNCHANGED <<values, kinds>>
          /\ settings'[s.name].user = RunAs(spec)
          /\ mounts'[s.name] = DataMounts(spec, s.cfg)
      BY <2>0, <2>1, <2>3, <2>5, Placed
    <2>7. perms' = IF spec.dir = "" THEN perms ELSE WithAction(StoreId(s), s.cfg, RunAs(spec))
      BY <1>2, <2>0 DEF PostgresAdded, Remember
    <2> QED
      BY <2>1, <2>2, <2>6, <2>7
  <1> QED
    BY <1>1, <1>2

(* The actions of before keep their place.                                 *)
MorePerms == /\ DOMAIN perms \subseteq DOMAIN perms'
             /\ \A i \in DOMAIN perms : perms'[i] = perms[i]

LEMMA ActionAdded ==
    ASSUME IdsInv, NEW id, NEW cfg, NEW uid, perms' = WithAction(id, cfg, uid)
    PROVE  /\ MorePerms
           /\ Wanted(cfg) => \E i \in DOMAIN perms' :
                  perms'[i].id = id /\ perms'[i].cfg = cfg /\ perms'[i].uid = uid
  <1> DEFINE new == [id |-> id, cfg |-> cfg, uid |-> uid]
  <1>1. CASE ~Wanted(cfg)
    BY <1>1 DEF WithAction, MorePerms
  <1>2. CASE Wanted(cfg)
    <2>1. PICK T : perms \in Seq(T)
      BY DEF IdsInv
    <2>2. perms \in Seq(T \cup {new}) /\ perms' = Append(perms, new)
      BY <1>2, <2>1 DEF WithAction
    <2>3. /\ DOMAIN perms = 1 .. Len(perms) /\ Len(perms) \in Nat
          /\ DOMAIN perms' = 1 .. (Len(perms) + 1)
          /\ \A i \in 1 .. Len(perms) : perms'[i] = perms[i]
          /\ perms'[Len(perms) + 1] = new
      BY <2>2
    <2>4. new.id = id /\ new.cfg = cfg /\ new.uid = uid
      OBVIOUS
    <2> HIDE DEF new
    <2>5. MorePerms
      BY <2>3 DEF MorePerms
    <2> QED
      BY <2>3, <2>4, <2>5
  <1> QED
    BY <1>1, <1>2

LEMMA ActionsOnlyCome ==
    ASSUME IdsInv, [RNext]_rvars
    PROVE  MorePerms
  <1>1. UNCHANGED perms => MorePerms
    BY DEF MorePerms
  <1>2. CASE Calls
    BY <1>1, <1>2, ActionAdded DEF Calls, PermsMove
  <1>3. ASSUME NEW s \in StoreCall, StoreAdded(s) \/ PostgresAdded(s) PROVE MorePerms
    BY <1>1, <1>3, StoreIsPlaced, ActionAdded
  <1>4. CASE Creating
    BY <1>1, <1>3, <1>4 DEF Creating, Added, Activated, storeVars
  <1> QED
    BY <1>2, <1>4, WhatAStepDoes

OwnsData(s, user, ms) ==
    SpecOf(s.kind).dir # "" /\ Wanted(s.cfg) =>
        \E i \in DOMAIN perms :
            /\ perms[i].id = s.id
            /\ perms[i].uid = user
            /\ \E m \in ms : m.target = SpecOf(s.kind).dir /\ m.source = Source(perms[i].cfg)

LEMMA OwnerStays ==
    ASSUME MorePerms, UNCHANGED values, NEW s, NEW user, NEW ms, NEW more, ms \subseteq more,
           OwnsData(s, user, ms)
    PROVE  \A u, new : u = user /\ new = more => OwnsData(s, u, new)'
  <1>1. \A cfg : Source(cfg)' = Source(cfg)
    BY DEF Source
  <1> QED
    BY <1>1 DEF OwnsData, MorePerms

(* A container that was there keeps its user and what it mounts.           *)
LEMMA WhoWasThereStays ==
    ASSUME DomainsInv, NamesInv, [RNext]_rvars, NEW c \in names
    PROVE  /\ UNCHANGED <<values, kinds>>
           /\ "settings" \notin kinds => settings'[c].user = settings[c].user
           /\ mounts[c] \subseteq mounts'[c] /\ tmpfs[c] \subseteq tmpfs'[c]
  <1>0. c \in Container
    BY DEF NamesInv
  <1>1. CASE Calls
    BY <1>0, <1>1, StorageGrows, SettingsAfterCall DEF Calls, ServiceMoves, NamesInv
  <1>2. CASE Creating
    <2>1. PICK new : Newcomers(new)
      BY <1>2, WhoComes
    <2> QED
      BY <1>0, <2>1, Placed DEF Newcomers
  <1> QED
    BY <1>1, <1>2, WhatAStepDoes

OwnInv == "settings" \notin kinds =>
    \A s \in stores : OwnsData(s, settings[s.name].user, mounts[s.name])

LEMMA OwnKept ==
    ASSUME IdsInv, DomainsInv, NamesInv, OwnInv, [RNext]_rvars
    PROVE  OwnInv'
  <1>1. UNCHANGED <<values, kinds>>
    BY WhatAStepDoes, WhoComes, Placed DEF Calls, Newcomers
  <1> SUFFICES ASSUME "settings" \notin kinds, NEW s \in stores'
               PROVE  OwnsData(s, settings[s.name].user, mounts[s.name])'
    BY <1>1 DEF OwnInv
  <1>2. CASE s \in stores
    <2>1. s.name \in names
      BY <1>2 DEF NamesInv, Own
    <2>2. /\ settings'[s.name].user = settings[s.name].user
          /\ mounts[s.name] \subseteq mounts'[s.name]
      BY <2>1, WhoWasThereStays
    <2>3. OwnsData(s, settings[s.name].user, mounts[s.name])
      BY <1>2 DEF OwnInv
    <2> QED
      BY <1>1, <2>2, <2>3, ActionsOnlyCome, OwnerStays
  <1>3. CASE s \notin stores
    <2>1. PICK t \in StoreCall : StoreAdded(t) \/ PostgresAdded(t)
      BY <1>3, WhatAStepDoes DEF Calls, Creating, Added, Activated, storeVars
    <2> DEFINE spec == SpecOf(t.kind)
    <2>2. /\ perms' = IF spec.dir = "" THEN perms
                      ELSE WithAction(StoreId(t), t.cfg, RunAs(spec))
          /\ settings'[t.name].user = RunAs(spec)
          /\ mounts'[t.name] = DataMounts(spec, t.cfg)
      BY <2>1, StoreIsPlaced
    <2>3. PICK upgraded : s = Record(t, upgraded)
      BY <1>3, <2>1, StoreIsPlaced
    <2>4. s.name = t.name /\ s.kind = t.kind /\ s.cfg = t.cfg /\ s.id = StoreId(t)
      BY <2>3 DEF Record
    <2>5. CASE ~(spec.dir # "" /\ Wanted(t.cfg))
      BY <2>4, <2>5 DEF OwnsData, Wanted
    <2>6. CASE spec.dir # "" /\ Wanted(t.cfg)
      <3>1. PICK id, cfg, user : /\ id = StoreId(t) /\ cfg = t.cfg /\ user = RunAs(spec)
                                 /\ perms' = WithAction(id, cfg, user)
        BY <2>2, <2>6
      <3>0. Wanted(cfg)
        BY <2>6, <3>1
      <3>2. PICK i \in DOMAIN perms' : /\ perms'[i].id = StoreId(t) /\ perms'[i].cfg = t.cfg
                                       /\ perms'[i].uid = user
        <4>1. \E i \in DOMAIN perms' :
                  perms'[i].id = id /\ perms'[i].cfg = cfg /\ perms'[i].uid = user
          BY <3>0, <3>1, ActionAdded
        <4> QED
          BY <3>1, <4>1
      <3>3. MountOf(spec.dir, t.cfg) \in mounts'[t.name]
        BY <2>2, <2>6 DEF DataMounts, Wanted
      <3>4. /\ MountOf(spec.dir, t.cfg).target = spec.dir
            /\ MountOf(spec.dir, t.cfg).source = Source(t.cfg)
        BY DEF MountOf
      <3>5. \A x : Source(x)' = Source(x)
        BY <1>1 DEF Source
      <3>6. settings'[s.name].user = user /\ mounts'[s.name] = mounts'[t.name]
        BY <2>2, <2>4, <3>1
      <3> HIDE DEF spec
      <3> QED
        BY <2>4, <3>2, <3>3, <3>4, <3>5, <3>6 DEF OwnsData, spec
    <2> QED
      BY <2>5, <2>6
  <1> QED
    BY <1>2, <1>3

\* A store whose data the user wants given to it has an action for that very
\* storage, with the user the store runs as (permissions are asked for by each
\* store when it is created, deps_*.py), and nothing called later undoes it.
THEOREM StoresOwnTheirData == RSpec => []StoreOwnsItsData
  <1>1. RInit => OwnInv
    BY DEF RInit, OwnInv
  <1>2. RSpec => []OwnInv
    BY <1>1, OwnKept, IdsInvHolds, NamesInvHolds, PTL DEF RSpec
  <1>3. OwnInv => StoreOwnsItsData
    BY DEF OwnInv, OwnsData, StoreOwnsItsData, Untouched
  <1> QED
    BY <1>2, <1>3, PTL

-----------------------------------------------------------------------------
(* The upgrade of a database.  That the directory of the data is taken, in *)
(* the database and in its upgrade, is what keeps both on the same data:   *)
(* no later call can mount anything else there.                            *)

Upgrading(s) ==
    LET u == UpgradeName[s.name]
    IN  /\ [on |-> u, cond |-> "service_completed_successfully"] \in depends[s.name]
        /\ \A d \in depends[s.name] : d.on = u \/ d \in depends[u]
        /\ DataAt(u) = DataAt(s.name)
        /\ settings[u].user = settings[s.name].user
        /\ netMode[u] = "none"
        /\ PathUsed(u, Postgres.dir) /\ PathUsed(s.name, Postgres.dir)

UpgradeInv ==
    Untouched({"settings", "health", "net"}) => \A s \in stores : s.upgraded => Upgrading(s)

(* Where something is mounted nothing else is.                             *)
LEMMA DataStays ==
    ASSUME DomainsInv, NEW c \in Container, PathUsed(c, Postgres.dir), StorageMove
    PROVE  DataAt(c)' = DataAt(c) /\ PathUsed(c, Postgres.dir)'
  <1> DEFINE dir == Postgres.dir
  <1> HIDE DEF dir
  <1>0. PathUsed(c, dir)
    BY DEF dir
  <1>1. CASE UNCHANGED <<mounts, tmpfs>>
    BY <1>0, <1>1 DEF DataAt, PathUsed, dir
  <1>2. ASSUME NEW b \in names, NEW path, NEW cfg, Mountable(b, path, cfg),
               mounts' = [mounts EXCEPT ![b] = mounts[b] \cup {MountOf(path, cfg)}],
               UNCHANGED tmpfs
        PROVE  DataAt(c)' = DataAt(c) /\ PathUsed(c, Postgres.dir)'
    <2>1. MountOf(path, cfg).target = path
      BY DEF MountOf
    <2>2. b = c => path # dir
      BY <1>0, <1>2 DEF Mountable
    <2>3. mounts'[c] = IF b = c THEN mounts[c] \cup {MountOf(path, cfg)} ELSE mounts[c]
      BY <1>2 DEF DomainsInv
    <2>4. {m \in mounts'[c] : m.target = dir} = {m \in mounts[c] : m.target = dir}
      BY <2>1, <2>2, <2>3
    <2>5. PathUsed(c, dir)'
      BY <1>0, <1>2, <2>3 DEF PathUsed, dir
    <2> QED
      BY <2>4, <2>5 DEF DataAt, dir
  <1>3. ASSUME NEW b \in names, NEW path, tmpfs' = [tmpfs EXCEPT ![b] = tmpfs[b] \cup {path}],
               UNCHANGED mounts
        PROVE  DataAt(c)' = DataAt(c) /\ PathUsed(c, Postgres.dir)'
    <2>1. tmpfs[c] \subseteq tmpfs'[c]
      BY <1>3 DEF DomainsInv
    <2>2. PathUsed(c, dir)'
      BY <1>0, <1>3, <2>1 DEF PathUsed, dir
    <2> QED
      BY <1>3, <2>2 DEF DataAt, dir
  <1> QED
    BY <1>1, <1>2, <1>3 DEF StorageMove

(* What postgres has to wait for its upgrade has to wait for too.          *)
LEMMA DependsStay ==
    ASSUME DomainsInv, NamesInv, DependsMove, "health" \notin kinds,
           NEW s \in stores, s.upgraded,
           [on |-> UpgradeName[s.name], cond |-> "service_completed_successfully"] \in depends[s.name],
           \A d \in depends[s.name] : d.on = UpgradeName[s.name] \/ d \in depends[UpgradeName[s.name]]
    PROVE  /\ [on |-> UpgradeName[s.name], cond |-> "service_completed_successfully"]
                 \in depends'[s.name]
           /\ \A d \in depends'[s.name] :
                 d.on = UpgradeName[s.name] \/ d \in depends'[UpgradeName[s.name]]
  <1> DEFINE u == UpgradeName[s.name]
  <1>1. Own(s) = {s.name, u} /\ Own(s) \subseteq Container
    BY DEF Own, NamesInv
  <1>2. CASE UNCHANGED depends
    BY <1>2
  <1>3. ASSUME NEW t \in stores, NEW new,
               depends' = [c \in Container |-> depends[c] \cup IF c \in Own(t) THEN {new} ELSE {}]
        PROVE  /\ depends[s.name] \subseteq depends'[s.name]
               /\ \A d \in depends'[s.name] : d.on = u \/ d \in depends'[u]
    <2>1. CASE t = s
      BY <1>1, <1>3, <2>1
    <2>2. CASE t # s
      <3>1. s.name \notin Own(t) /\ u \notin Own(t)
        BY <1>1, <2>2 DEF NamesInv
      <3> QED
        BY <1>1, <1>3, <3>1
    <2> QED
      BY <2>1, <2>2
  <1>4. \/ UNCHANGED depends
        \/ \E t \in stores : \E new :
              depends' = [c \in Container |-> depends[c] \cup IF c \in Own(t) THEN {new} ELSE {}]
    BY DEF DependsMove, Own
  <1> QED
    BY <1>2, <1>3, <1>4

LEMMA PostgresUpgrades ==
    ASSUME NEW s \in StoreCall, PostgresAdded(s), Upgraded(s)
    PROVE  Upgrading(s)'
  <1> DEFINE u == UpgradeName[s.name]
             dir == Postgres.dir
  <1>1. dir # ""
    BY DEF Postgres, Store
  <1>2. PICK new : /\ Place(new) /\ DOMAIN new = {s.name, u} /\ u # s.name
                   /\ new[s.name] = Database(s) /\ new[u] = Upgrader(s, Database(s))
    BY PostgresComes DEF PostgresAdded
  <1>3. s.name \in Container /\ u \in Container
    BY NameAssumption DEF PostgresAdded, GoodStore, Creatable
  <1>4. StoreFieldsOf(StoreContainer(s, Postgres), s, Postgres)
    BY StoreFields
  <1> DEFINE d == Database(s)
             ms == DataMounts(Postgres, s.cfg)
             ts == DataTmpfs(Postgres, s.cfg)
  <1>5. /\ d.mounts = ms /\ d.tmpfs = ts
        /\ d.depends = {[on |-> u, cond |-> "service_completed_successfully"]}
    BY <1>4, DatabaseFields DEF StoreFieldsOf
  <1>6. /\ Upgrader(s, d).settings = HelperOf(d.settings.user)
        /\ Upgrader(s, d).netMode = "none"
        /\ Upgrader(s, d).mounts = d.mounts /\ Upgrader(s, d).tmpfs = d.tmpfs
    BY UpgraderFields DEF HelperOf
  <1>7. Upgrader(s, d).settings.user = d.settings.user
    BY <1>6, HelperSetting
  <1> HIDE DEF d
  <1>8. /\ settings'[s.name] = d.settings /\ settings'[u] = Upgrader(s, d).settings
        /\ netMode'[u] = "none" /\ depends'[s.name] = d.depends
        /\ mounts'[s.name] = ms /\ tmpfs'[s.name] = ts
        /\ mounts'[u] = ms /\ tmpfs'[u] = ts
    <2>1. new[s.name] = d /\ new[u] = Upgrader(s, d)
      BY <1>2 DEF d
    <2> HIDE DEF ms, ts
    <2> QED
      BY <1>2, <1>3, <1>5, <1>6, <2>1, Placed
  <1>9. dir \in ts \cup {m.target : m \in ms}
    <2>1. MountOf(dir, s.cfg).target = dir
      BY DEF MountOf
    <2> HIDE DEF dir
    <2> QED
      BY <1>1, <2>1 DEF DataMounts, DataTmpfs, dir
  <1> HIDE DEF ms, ts, dir
  <1>10. PathUsed(u, Postgres.dir)' /\ PathUsed(s.name, Postgres.dir)'
    BY <1>8, <1>9 DEF PathUsed, dir
  <1>11. DataAt(u)' = DataAt(s.name)'
    BY <1>8 DEF DataAt
  <1> QED
    BY <1>5, <1>7, <1>8, <1>10, <1>11 DEF Upgrading

LEMMA UpgradeKept ==
    ASSUME DomainsInv, NamesInv, UpgradeInv, [RNext]_rvars
    PROVE  UpgradeInv'
  <1>1. UNCHANGED <<values, kinds>>
    BY WhatAStepDoes, WhoComes, Placed DEF Calls, Newcomers
  <1> SUFFICES ASSUME Untouched({"settings", "health", "net"}), NEW s \in stores', s.upgraded
               PROVE  Upgrading(s)'
    BY <1>1 DEF UpgradeInv, Untouched
  <1> DEFINE u == UpgradeName[s.name]
  <1>2. ASSUME s \in stores
        PROVE  /\ Upgrading(s) /\ {s.name, u} \subseteq names
               /\ s.name \in Container /\ u \in Container
    BY <1>2 DEF UpgradeInv, NamesInv, Own
  <1>3. CASE Calls
    <2>1. s \in stores
      BY <1>3 DEF Calls
    <2>2. /\ DataAt(u)' = DataAt(u) /\ PathUsed(u, Postgres.dir)'
          /\ DataAt(s.name)' = DataAt(s.name) /\ PathUsed(s.name, Postgres.dir)'
      BY <1>2, <1>3, <2>1, DataStays DEF Upgrading, Calls
    <2>3. settings'[u].user = settings[u].user /\ settings'[s.name].user = settings[s.name].user
      BY <1>2, <1>3, <2>1, WhoWasThereStays DEF Untouched
    <2>4. netMode'[u] = netMode[u]
      BY <1>2, <1>3, <2>1 DEF Calls, ModeMove, Untouched, DomainsInv
    <2>5. /\ [on |-> u, cond |-> "service_completed_successfully"] \in depends'[s.name]
          /\ \A d \in depends'[s.name] : d.on = u \/ d \in depends'[u]
      BY <1>2, <1>3, <2>1, DependsStay DEF Calls, ServiceMoves, Untouched, Upgrading
    <2> QED
      BY <1>2, <2>1, <2>2, <2>3, <2>4, <2>5 DEF Upgrading
  <1>4. CASE Creating /\ s \in stores
    <2>1. PICK new : Newcomers(new)
      BY <1>4, WhoComes
    <2>2. ASSUME NEW c \in {s.name, u}
          PROVE  /\ settings'[c] = settings[c] /\ depends'[c] = depends[c]
                 /\ netMode'[c] = netMode[c] /\ mounts'[c] = mounts[c] /\ tmpfs'[c] = tmpfs[c]
      BY <1>2, <1>4, <2>1, <2>2, Placed DEF Newcomers
    <2>3. \A c \in {s.name, u} :
              /\ DataAt(c)' = DataAt(c)
              /\ PathUsed(c, Postgres.dir)' = PathUsed(c, Postgres.dir)
      BY <2>2 DEF DataAt, PathUsed
    <2> QED
      BY <1>2, <1>4, <2>2, <2>3 DEF Upgrading
  <1>5. CASE Creating /\ s \notin stores
    <2>1. ASSUME NEW t \in StoreCall, StoreAdded(t) PROVE FALSE
      <3>1. stores' = stores \cup {Record(t, FALSE)}
        BY <2>1 DEF StoreAdded, Remember, Record
      <3> QED
        BY <1>5, <3>1 DEF Record
    <2>2. PICK t \in StoreCall : PostgresAdded(t)
      BY <1>5, <2>1 DEF Creating, Added, Activated, storeVars
    <2>3. s = Record(t, Upgraded(t))
      BY <1>5, <2>2 DEF PostgresAdded, Remember, Record
    <2>4. s.name = t.name /\ Upgraded(t)
      BY <2>3 DEF Record
    <2>5. Upgrading(t)'
      BY <2>2, <2>4, PostgresUpgrades
    <2> QED
      BY <2>4, <2>5 DEF Upgrading
  <1> QED
    BY <1>3, <1>4, <1>5, WhatAStepDoes

\* A database waits for its upgrade, which works on its data as its user,
\* without a network and after whatever the database waits for
\* (deps_postgres.py), whatever the template calls in between.
THEOREM UpgradeAlwaysFirst == RSpec => []UpgradeFirst
  <1>1. RInit => UpgradeInv
    BY DEF RInit, UpgradeInv
  <1>2. RSpec => []UpgradeInv
    BY <1>1, UpgradeKept, NamesInvHolds, PTL DEF RSpec
  <1>3. UpgradeInv => UpgradeFirst
    BY DEF UpgradeInv, Upgrading, UpgradeFirst
  <1> QED
    BY <1>2, <1>3, PTL

-----------------------------------------------------------------------------
(* GPUs.  What the library adds for itself is created without any, and     *)
(* only calls on devices could give it one later.                          *)

GpuGids == {Video, RenderGid}

Bare(r) == r.devices = {} /\ ~r.reserved /\ r.groups = {Apps}

LEMMA OthersAreNoGpuGroups ==
    Apps \notin GpuGids /\ DockerGid \notin GpuGids
  BY DEF Apps, DockerGid, GpuGids, Video, RenderGid

LEMMA OwnHelpers ==
    Helpers = (UNION {Own(s) : s \in stores}) \cup ({PermsName} \cap names)
  BY DEF Helpers, Own

LEMMA HelpersComeBare ==
    ASSUME Creating
    PROVE  \E new : /\ Newcomers(new)
                    /\ \/ UNCHANGED stores /\ DOMAIN new \subseteq TemplateName
                       \/ /\ \A x \in DOMAIN new : Bare(new[x])
                          /\ \/ UNCHANGED stores
                             \/ \E r : stores' = stores \cup {r} /\ Own(r) = DOMAIN new
  <1>1. ASSUME NEW c \in TemplateName, NEW image, Added(c, image)
        PROVE  \E new : Newcomers(new) /\ DOMAIN new \subseteq TemplateName /\ UNCHANGED stores
    BY <1>1, AddedComes DEF Added, storeVars
  <1>2. ASSUME Activated
        PROVE  \E new : Newcomers(new) /\ (\A x \in DOMAIN new : Bare(new[x])) /\ UNCHANGED stores
    <2>1. Bare(PermsContainer)
      BY PermsFields DEF Bare
    <2> QED
      BY <1>2, <2>1, PermsComes DEF Activated, storeVars
  <1>3. ASSUME NEW s \in StoreCall, StoreAdded(s)
        PROVE  \E new : /\ Newcomers(new) /\ \A x \in DOMAIN new : Bare(new[x])
                        /\ \E r : stores' = stores \cup {r} /\ Own(r) = DOMAIN new
    <2>1. PICK new : /\ Newcomers(new) /\ DOMAIN new = {s.name}
                     /\ new[s.name] = StoreContainer(s, SpecOf(s.kind))
      <3>1. Newcomers([x \in {s.name} |-> StoreContainer(s, SpecOf(s.kind))])
        BY <1>3, StoreComes
      <3> QED
        BY <3>1
    <2>2. StoreFieldsOf(StoreContainer(s, SpecOf(s.kind)), s, SpecOf(s.kind))
      BY StoreFields
    <2>3. Bare(new[s.name])
      BY <2>1, <2>2 DEF Bare, StoreFieldsOf
    <2>4. stores' = stores \cup {Record(s, FALSE)} /\ Own(Record(s, FALSE)) = {s.name}
      BY <1>3 DEF StoreAdded, Remember, Record, Own
    <2> QED
      BY <2>1, <2>3, <2>4
  <1>4. ASSUME NEW s \in StoreCall, PostgresAdded(s)
        PROVE  \E new : /\ Newcomers(new) /\ \A x \in DOMAIN new : Bare(new[x])
                        /\ \E r : stores' = stores \cup {r} /\ Own(r) = DOMAIN new
    <2> DEFINE u == UpgradeName[s.name]
    <2>1. PICK new : /\ Newcomers(new)
                     /\ DOMAIN new = {s.name} \cup IF Upgraded(s) THEN {u} ELSE {}
                     /\ new[s.name] = Database(s)
                     /\ Upgraded(s) => new[u] = Upgrader(s, Database(s))
      BY <1>4, PostgresComes
    <2>2. StoreFieldsOf(StoreContainer(s, Postgres), s, Postgres)
      BY StoreFields
    <2>3. Bare(Database(s))
      BY <2>2, DatabaseFields DEF Bare, StoreFieldsOf
    <2>4. \A c : Bare(Upgrader(s, c))
      BY UpgraderFields DEF Bare
    <2>5. \A x \in DOMAIN new : Bare(new[x])
      BY <2>1, <2>3, <2>4
    <2>6. stores' = stores \cup {Record(s, Upgraded(s))}
      BY <1>4 DEF PostgresAdded, Remember, Record
    <2>7. Own(Record(s, Upgraded(s))) = DOMAIN new
      BY <2>1 DEF Own, Record
    <2> QED
      BY <2>1, <2>5, <2>6, <2>7
  <1> QED
    BY <1>1, <1>2, <1>3, <1>4 DEF Creating

GpuFree(c) == devices[c] = {} /\ ~reserved[c] /\ GpuGids \cap groups[c] = {}

HelpersInv == "devices" \notin kinds => \A c \in Helpers : GpuFree(c)

LEMMA StillGpuFree ==
    ASSUME DomainsInv, "devices" \notin kinds, DevicesMove, NEW c \in Container, GpuFree(c)
    PROVE  GpuFree(c)'
  <1> USE DEF DomainsInv, GpuFree
  <1>1. CASE UNCHANGED <<devices, reserved, groups>>
    BY <1>1
  <1>2. ASSUME NEW b \in names, devices' = [devices EXCEPT ![b] = {}],
               reserved' = [reserved EXCEPT ![b] = FALSE], UNCHANGED groups
        PROVE  GpuFree(c)'
    <2>1. devices'[c] = {}
      BY <1>2
    <2>2. \A x : [reserved EXCEPT ![b] = x][c] = IF b = c THEN x ELSE reserved[c]
      OBVIOUS
    <2>3. ~reserved'[c]
      BY <1>2, <2>2, Zenon
    <2> QED
      BY <1>2, <2>1, <2>3
  <1>3. ASSUME NEW b \in names, groups' = [groups EXCEPT ![b] = groups[b] \cup {DockerGid}],
               UNCHANGED <<devices, reserved>>
        PROVE  GpuFree(c)'
    <2>1. groups'[c] \subseteq groups[c] \cup {DockerGid}
      BY <1>3
    <2> QED
      BY <1>3, <2>1, OthersAreNoGpuGroups
  <1>4. ASSUME groups' = [x \in Container |-> groups[x] \cup GpuGroups(x)],
               UNCHANGED <<devices, reserved>>
        PROVE  GpuFree(c)'
    <2>1. GpuGroups(c) = {}
      BY DEF GpuGroups, HasGpu
    <2> QED
      BY <1>4, <2>1
  <1> QED
    BY <1>1, <1>2, <1>3, <1>4 DEF DevicesMove

LEMMA HelpersKept ==
    ASSUME DomainsInv, NamesInv, HelpersInv, [RNext]_rvars
    PROVE  HelpersInv'
  <1>1. UNCHANGED kinds
    BY WhatAStepDoes, WhoComes, Placed DEF Calls, Newcomers
  <1> SUFFICES ASSUME "devices" \notin kinds, NEW c \in Helpers'
               PROVE  GpuFree(c)'
    BY <1>1 DEF HelpersInv
  <1>2. Helpers \subseteq names
    BY OwnHelpers DEF NamesInv
  <1>3. CASE Calls
    <2>1. c \in Helpers
      BY <1>3 DEF Calls, Helpers
    <2> QED
      BY <1>2, <1>3, <2>1, StillGpuFree DEF Calls, ServiceMoves, HelpersInv, NamesInv
  <1>4. CASE Creating
    <2>1. PICK new : /\ Newcomers(new)
                     /\ \/ UNCHANGED stores /\ DOMAIN new \subseteq TemplateName
                        \/ /\ \A x \in DOMAIN new : Bare(new[x])
                           /\ \/ UNCHANGED stores
                              \/ \E r : stores' = stores \cup {r} /\ Own(r) = DOMAIN new
      BY <1>4, HelpersComeBare
    <2>2. names' = names \cup DOMAIN new /\ DOMAIN new \subseteq Container \ names
      BY <2>1, Placed DEF Newcomers
    <2>3. PermsName \notin TemplateName
      BY NameAssumption
    <2>4. Helpers' = (UNION {Own(s) : s \in stores'}) \cup ({PermsName} \cap names')
      BY DEF Helpers, Own
    <2>5. c \in Helpers \/ (c \in DOMAIN new /\ Bare(new[c]))
      BY <2>1, <2>2, <2>3, <2>4, OwnHelpers
    <2>6. CASE c \in Helpers
      <3>1. c \in Container /\ c \notin DOMAIN new /\ GpuFree(c)
        BY <1>2, <2>2, <2>6 DEF NamesInv, HelpersInv
      <3>2. devices'[c] = devices[c] /\ reserved'[c] = reserved[c] /\ groups'[c] = groups[c]
        BY <2>1, <3>1, Placed DEF Newcomers
      <3> QED
        BY <3>1, <3>2 DEF GpuFree
    <2>7. CASE c \in DOMAIN new /\ Bare(new[c])
      <3>1. /\ devices'[c] = new[c].devices /\ reserved'[c] = new[c].reserved
            /\ groups'[c] = new[c].groups
        BY <2>1, <2>2, <2>7, Placed DEF Newcomers
      <3> QED
        BY <2>7, <3>1, OthersAreNoGpuGroups DEF Bare, GpuFree
    <2> QED
      BY <2>5, <2>6, <2>7
  <1> QED
    BY <1>3, <1>4, WhatAStepDoes

(* The groups of a GPU come when the file is rendered.                     *)
GpuOpens == \A c \in names : HasGpu(c) => GpuGids \subseteq groups[c]

LEMMA RenderedGpusOpen ==
    ASSUME NamesInv, phase = "rendered" => GpuOpens, [RNext]_rvars, phase' = "rendered"
    PROVE  GpuOpens'
  <1>1. CASE RenderFile
    <2>1. /\ groups' = [c \in Container |-> groups[c] \cup GpuGroups(c)]
          /\ UNCHANGED <<names, reserved, devices>>
      BY <1>1 DEF RenderFile, Raise
    <2>2. \A c : HasGpu(c)' = HasGpu(c)
      BY <2>1 DEF HasGpu
    <2> QED
      BY <2>1, <2>2 DEF GpuOpens, GpuGroups, GpuGids, NamesInv
  <1>2. CASE UNCHANGED rvars
    <2>1. UNCHANGED <<phase, names, reserved, devices, groups>>
      BY <1>2 DEF rvars, baseVars, serviceVars
    <2> QED
      BY <2>1 DEF GpuOpens, HasGpu
  <1> QED
    BY <1>1, <1>2, StepsOfARendering DEF GoesOn, Start, RegisterAll, Return, Raise

\* A container of the file that passes a GPU has the groups that open it, and
\* what the library added for itself passes none and has neither group
\* (Container.render adds the groups, remove_devices in deps_*.py takes the GPUs).
THEOREM GpusStayWhereTheyBelong == RSpec => []GpusWhereTheyBelong
  <1> DEFINE Inv == HelpersInv /\ (phase = "rendered" => GpuOpens)
  <1>1. RInit => Inv
    BY DEF RInit, BaseInit, HelpersInv, Helpers
  <1>2. DomainsInv /\ NamesInv /\ Inv /\ [RNext]_rvars => Inv'
    BY HelpersKept, RenderedGpusOpen
  <1>3. Inv => GpusWhereTheyBelong
    BY DEF HelpersInv, GpuOpens, GpuFree, GpuGids, GpusWhereTheyBelong, Untouched
  <1> HIDE DEF Inv
  <1>4. RSpec => []Inv
    BY <1>1, <1>2, NamesInvHolds, PTL DEF RSpec
  <1> QED
    BY <1>3, <1>4, PTL

-----------------------------------------------------------------------------
(* Volumes.  What a mount of a volume refers to is declared when the mount *)
(* is made.  It is declared as a volume unless the name was first used by  *)
(* the mount of a path of the host, and such a mount never goes.           *)

Binds(m, source) == m.kind = "bind" /\ m.source = source

Backed(m, vs) ==
    m.kind = "volume" /\ m.source # <<"none", "">> => \E v \in vs : v.source = m.source

VolumesInv ==
    /\ \A v \in volumes : v.spec = "none" => BoundSomewhere(v.source)
    /\ \A c \in Container : \A m \in mounts[c] : Backed(m, volumes)

LEMMA LeastOf ==
    ASSUME NEW T, T \subseteq Nat, T # {}
    PROVE  \E x \in T : \A y \in T : ~(y < x)
  <1> DEFINE R == OpToRel(<, Nat)
  <1>1. IsWellFoundedOn(R, Nat)
    BY NatLessThanWellFounded
  <1>2. \A x, y \in Nat : y < x => <<y, x>> \in R
    BY DEF OpToRel
  <1> HIDE DEF R
  <1>3. \E x \in T : \A y \in T : ~(<<y, x>> \in R)
    BY <1>1, WFMin
  <1> QED
    BY <1>2, <1>3

LEMMA SourceTags ==
    ASSUME NEW cfg
    PROVE  /\ cfg.type = "anonymous" => Source(cfg) = <<"none", "">> /\ Source(cfg)[1] = "none"
           /\ cfg.type # "anonymous" => Source(cfg)[1] # "none"
  <1>1. CASE cfg.type \in {"nfs", "cifs"}
    BY <1>1 DEF Source
  <1>2. CASE cfg.type = "ix_volume"
    BY <1>2 DEF Source
  <1>3. CASE cfg.type = "anonymous"
    BY <1>3 DEF Source
  <1>4. CASE cfg.type \notin {"nfs", "cifs", "ix_volume", "anonymous"}
    BY <1>4 DEF Source
  <1> QED
    BY <1>1, <1>2, <1>3, <1>4

LEMMA NewVolumesDeclare ==
    ASSUME NEW cfgs, DOMAIN cfgs \subseteq Nat, NEW i \in DOMAIN cfgs, cfgs[i].type # "anonymous"
    PROVE  \E v \in NewVolumes(cfgs) : v.source = Source(cfgs[i])
  <1> DEFINE volume(k) == [source |-> Source(cfgs[k]), spec |-> VolumeSpec(cfgs[k])]
             Same == {k \in DOMAIN cfgs : Source(cfgs[k]) = Source(cfgs[i])}
  <1>1. CASE Declared(Source(cfgs[i]))
    BY <1>1 DEF Declared, NewVolumes
  <1>2. CASE ~Declared(Source(cfgs[i]))
    <2>1. PICK k \in Same : \A j \in Same : ~(j < k)
      BY LeastOf
    <2>2. cfgs[k].type # "anonymous"
      <3>1. PICK a, b : a = cfgs[i] /\ b = cfgs[k]
        OBVIOUS
      <3>0. Source(b) = Source(a)
        BY <2>1, <3>1
      <3>4. a.type # "anonymous"
        BY <3>1
      <3>2. Source(a)[1] # "none"
        BY <3>4, SourceTags
      <3>3. b.type = "anonymous" => Source(b)[1] = "none"
        BY SourceTags
      <3> QED
        BY <3>0, <3>1, <3>2, <3>3
    <2>3. \A j \in DOMAIN cfgs : j < k => Source(cfgs[j]) # Source(cfgs[k])
      BY <2>1
    <2>4. volume(k) \in NewVolumes(cfgs)
      BY <1>2, <2>1, <2>2, <2>3 DEF NewVolumes
    <2>5. volume(k).source = Source(cfgs[i])
      BY <2>1
    <2> QED
      BY <2>4, <2>5
  <1> QED
    BY <1>1, <1>2

LEMMA BindSources ==
    ASSUME NEW cfg, GoodStorage(cfg), cfg.type # "anonymous", VolumeSpec(cfg) = "none",
           NEW path
    PROVE  Binds(MountOf(path, cfg), Source(cfg))
  <1>1. cfg.type \in {"host_path", "ix_volume"}
    BY DEF GoodStorage, KnownType, VolumeSpec
  <1> QED
    BY <1>1 DEF Binds, MountOf, MountKind

(* Volumes are declared with the mounts of them.                           *)
LEMMA DeclaredWithMounts ==
    ASSUME NEW cfgs, DOMAIN cfgs \subseteq Nat, \A i \in DOMAIN cfgs : GoodStorage(cfgs[i])
    PROVE  /\ volumes \subseteq NewVolumes(cfgs)
           /\ \A v \in NewVolumes(cfgs) :
                  v.spec = "none" => \/ v \in volumes
                                     \/ \E i \in DOMAIN cfgs : \A path :
                                            Binds(MountOf(path, cfgs[i]), v.source)
           /\ \A i \in DOMAIN cfgs : \A path : Backed(MountOf(path, cfgs[i]), NewVolumes(cfgs))
  <1>1. volumes \subseteq NewVolumes(cfgs)
    BY DEF NewVolumes
  <1>2. ASSUME NEW v \in NewVolumes(cfgs), v.spec = "none", v \notin volumes
        PROVE  \E i \in DOMAIN cfgs : \A path : Binds(MountOf(path, cfgs[i]), v.source)
    <2>1. PICK i \in DOMAIN cfgs : /\ cfgs[i].type # "anonymous"
                                   /\ v = [source |-> Source(cfgs[i]), spec |-> VolumeSpec(cfgs[i])]
      BY <1>2 DEF NewVolumes
    <2>2. v.source = Source(cfgs[i]) /\ VolumeSpec(cfgs[i]) = "none"
      BY <1>2, <2>1
    <2> QED
      BY <2>1, <2>2, BindSources
  <1>3. ASSUME NEW i \in DOMAIN cfgs, NEW path
        PROVE  Backed(MountOf(path, cfgs[i]), NewVolumes(cfgs))
    <2>1. MountOf(path, cfgs[i]).source = Source(cfgs[i])
      BY DEF MountOf
    <2>2. Source(cfgs[i]) # <<"none", "">> => cfgs[i].type # "anonymous"
      BY SourceTags
    <2> QED
      BY <2>1, <2>2, NewVolumesDeclare DEF Backed
  <1> QED
    BY <1>1, <1>2, <1>3

LEMMA StillBacked ==
    ASSUME NEW m, NEW vs, NEW more, vs \subseteq more, Backed(m, vs)
    PROVE  Backed(m, more)
  BY DEF Backed

(* What new containers mount and read is declared with them.               *)
BoundBy(new, source) == \E x \in DOMAIN new : \E m \in new[x].mounts : Binds(m, source)

Supplied(new) ==
    /\ volumes \subseteq volumes' /\ configs \subseteq configs'
    /\ \A v \in volumes' : v.spec = "none" => v \in volumes \/ BoundBy(new, v.source)
    /\ \A x \in DOMAIN new :
          /\ \A m \in new[x].mounts : Backed(m, volumes')
          /\ \A f \in new[x].configFiles : \E k \in configs' : k.name = f.name

LEMMA AddedIsSupplied ==
    ASSUME VolumesInv, NEW c \in TemplateName, NEW image, Added(c, image)
    PROVE  Supplied([x \in {c} |-> Fresh(c)])
  BY FreshFields DEF VolumesInv, Added, Supplied

LEMMA PermsIsSupplied ==
    ASSUME IdsInv, VolumesInv, Activated
    PROVE  Supplied([x \in {PermsName} |-> PermsContainer])
  <1>1. PICK cfgs : cfgs = [i \in Writable |-> perms[i].cfg]
    OBVIOUS
  <1>2. DOMAIN cfgs \subseteq Nat
    BY <1>1 DEF Writable, IdsInv
  <1>3. \A i \in DOMAIN cfgs : GoodStorage(cfgs[i])
    BY <1>1 DEF Activated, Writable
  <1>4. volumes' = NewVolumes(cfgs)
    BY <1>1 DEF Activated
  <1>5. /\ volumes \subseteq volumes'
        /\ \A v \in volumes' :
               v.spec = "none" => \/ v \in volumes
                                  \/ \E i \in DOMAIN cfgs : \A path :
                                         Binds(MountOf(path, cfgs[i]), v.source)
        /\ \A i \in DOMAIN cfgs : \A path : Backed(MountOf(path, cfgs[i]), volumes')
    BY <1>2, <1>3, <1>4, DeclaredWithMounts
  <1>6. \A m \in PermsContainer.mounts : Backed(m, volumes')
    BY <1>1, <1>5, PermsFields
  <1>9. \A i \in DOMAIN cfgs : \E m \in PermsContainer.mounts : \E path : m = MountOf(path, cfgs[i])
    BY <1>1, PermsFields
  <1>7. \A f \in PermsContainer.configFiles : \E k \in configs' : k.name = f.name
    <2>1. [name |-> "permissions_actions_data", data |-> <<"actions", perms>>] \in configs'
      BY DEF Activated
    <2> QED
      BY <2>1, PermsFields
  <1>8. configs \subseteq configs'
    BY DEF Activated
  <1>10. PICK new : new = [x \in {PermsName} |-> PermsContainer]
    OBVIOUS
  <1>11. DOMAIN new = {PermsName} /\ new[PermsName] = PermsContainer
    BY <1>10
  <1>12. \A v \in volumes' : v.spec = "none" => v \in volumes \/ BoundBy(new, v.source)
    BY <1>5, <1>9, <1>11 DEF BoundBy
  <1>13. Supplied(new)
    BY <1>5, <1>6, <1>7, <1>8, <1>11, <1>12 DEF Supplied
  <1> QED
    BY <1>10, <1>13

LEMMA StoreDeclares ==
    ASSUME VolumesInv, NEW s \in StoreCall, NEW spec, NEW upgraded,
           GoodStore(s, spec), Remember(s, spec, upgraded)
    PROVE  /\ volumes \subseteq volumes'
           /\ \A v \in volumes' :
                  v.spec = "none" => v \in volumes \/ \E m \in DataMounts(spec, s.cfg) : Binds(m, v.source)
           /\ \A m \in DataMounts(spec, s.cfg) : Backed(m, volumes')
  <1>1. volumes' = NewVolumes(DataVolumes(spec, s.cfg))
    BY DEF Remember
  <1>2. CASE spec.dir = "" \/ s.cfg.type = "tmpfs"
    <2>1. DataVolumes(spec, s.cfg) = <<>> /\ DataMounts(spec, s.cfg) = {}
      BY <1>2 DEF DataVolumes, DataMounts
    <2>2. PICK cfgs : cfgs = <<>>
      OBVIOUS
    <2>3. volumes' = NewVolumes(cfgs) /\ DOMAIN cfgs = {}
      BY <1>1, <2>1, <2>2
    <2>4. /\ volumes \subseteq volumes'
          /\ \A v \in volumes' : v.spec = "none" => v \in volumes
      BY <2>3, DeclaredWithMounts
    <2> QED
      BY <2>1, <2>4
  <1>3. CASE spec.dir # "" /\ s.cfg.type # "tmpfs"
    <2>1. PICK cfgs : cfgs = <<s.cfg>>
      OBVIOUS
    <2>2. DataVolumes(spec, s.cfg) = cfgs /\ DataMounts(spec, s.cfg) = {MountOf(spec.dir, s.cfg)}
      BY <1>3, <2>1 DEF DataVolumes, DataMounts
    <2>3. DOMAIN cfgs = {1} /\ cfgs[1] = s.cfg
      BY <2>1
    <2>4. GoodStorage(s.cfg)
      BY <1>3 DEF GoodStore
    <2>5. volumes' = NewVolumes(cfgs)
      BY <1>1, <2>2
    <2>6. /\ volumes \subseteq volumes'
          /\ \A v \in volumes' :
                 v.spec = "none" => \/ v \in volumes
                                    \/ \E i \in DOMAIN cfgs : \A path :
                                           Binds(MountOf(path, cfgs[i]), v.source)
          /\ \A i \in DOMAIN cfgs : \A path : Backed(MountOf(path, cfgs[i]), volumes')
      BY <2>3, <2>4, <2>5, DeclaredWithMounts
    <2> QED
      BY <2>2, <2>3, <2>6
  <1> QED
    BY <1>2, <1>3

LEMMA StoreIsSupplied ==
    ASSUME VolumesInv, NEW s \in StoreCall, StoreAdded(s)
    PROVE  Supplied([x \in {s.name} |-> StoreContainer(s, SpecOf(s.kind))])
  <1> DEFINE spec == SpecOf(s.kind)
  <1>1. StoreFieldsOf(StoreContainer(s, spec), s, spec)
    BY StoreFields
  <1>2. /\ StoreContainer(s, spec).mounts = DataMounts(spec, s.cfg)
        /\ StoreContainer(s, spec).configFiles =
              IF s.kind = "cron" THEN {[name |-> "crontasks", target |-> "/crontasks"]} ELSE {}
    BY <1>1 DEF StoreFieldsOf
  <1>3. /\ volumes \subseteq volumes'
        /\ \A v \in volumes' :
               v.spec = "none" => v \in volumes \/ \E m \in DataMounts(spec, s.cfg) : Binds(m, v.source)
        /\ \A m \in DataMounts(spec, s.cfg) : Backed(m, volumes')
    BY StoreDeclares DEF StoreAdded
  <1>4. configs' = configs \cup IF s.kind = "cron" THEN {Tasks} ELSE {}
    BY DEF StoreAdded
  <1>5. \A f \in StoreContainer(s, spec).configFiles : \E k \in configs' : k.name = f.name
    <2>1. Tasks.name = "crontasks"
      BY DEF Tasks
    <2> QED
      BY <1>2, <1>4, <2>1
  <1> HIDE DEF spec
  <1>6. Supplied([x \in {s.name} |-> StoreContainer(s, spec)])
    <2>1. PICK new : new = [x \in {s.name} |-> StoreContainer(s, spec)]
      OBVIOUS
    <2>2. DOMAIN new = {s.name} /\ new[s.name] = StoreContainer(s, spec)
      BY <2>1
    <2>3. \A v \in volumes' : v.spec = "none" => v \in volumes \/ BoundBy(new, v.source)
      BY <1>2, <1>3, <2>2 DEF BoundBy
    <2>4. Supplied(new)
      BY <1>2, <1>3, <1>4, <1>5, <2>2, <2>3 DEF Supplied
    <2> QED
      BY <2>1, <2>4
  <1> QED
    BY <1>6 DEF spec

LEMMA PostgresIsSupplied ==
    ASSUME VolumesInv, NEW s \in StoreCall, PostgresAdded(s)
    PROVE  Supplied(NewContainers(s))
  <1>1. StoreFieldsOf(StoreContainer(s, Postgres), s, Postgres)
    BY StoreFields
  <1>2. /\ Database(s).mounts = DataMounts(Postgres, s.cfg) /\ Database(s).configFiles = {}
        /\ Upgrader(s, Database(s)).mounts = Database(s).mounts
        /\ Upgrader(s, Database(s)).configFiles = {}
    <2>1. /\ Database(s).mounts = StoreContainer(s, Postgres).mounts
          /\ Database(s).configFiles = StoreContainer(s, Postgres).configFiles
      BY DatabaseFields
    <2>2. s.kind # "cron"
      BY DEF PostgresAdded
    <2>3. \A c : Upgrader(s, c).mounts = c.mounts /\ Upgrader(s, c).configFiles = {}
      BY UpgraderFields, ZenonT(30)
    <2> QED
      BY <1>1, <2>1, <2>2, <2>3 DEF StoreFieldsOf
  <1>3. /\ volumes \subseteq volumes'
        /\ \A v \in volumes' : v.spec = "none" =>
               v \in volumes \/ \E m \in DataMounts(Postgres, s.cfg) : Binds(m, v.source)
        /\ \A m \in DataMounts(Postgres, s.cfg) : Backed(m, volumes')
    <2>1. GoodStore(s, Postgres) /\ \E upgraded : Remember(s, Postgres, upgraded)
      BY DEF PostgresAdded
    <2> QED
      BY <2>1, StoreDeclares
  <1>4. PICK new : /\ new = NewContainers(s)
                   /\ \A x \in DOMAIN new : new[x] \in {Database(s), Upgrader(s, Database(s))}
    BY PostgresComes
  <1>6. s.name \in DOMAIN new /\ new[s.name] = Database(s)
    BY <1>4 DEF NewContainers
  <1>7. \A v \in volumes' : v.spec = "none" => v \in volumes \/ BoundBy(new, v.source)
    BY <1>2, <1>3, <1>6 DEF BoundBy
  <1>5. Supplied(new)
    BY <1>2, <1>3, <1>4, <1>7 DEF Supplied, PostgresAdded
  <1> QED
    BY <1>4, <1>5

LEMMA WhoComesIsSupplied ==
    ASSUME IdsInv, VolumesInv, Creating
    PROVE  \E new : Newcomers(new) /\ Supplied(new)
  <1>1. ASSUME NEW s \in StoreCall, StoreAdded(s)
        PROVE  \E new : Newcomers(new) /\ Supplied(new)
    <2>1. /\ Newcomers([x \in {s.name} |-> StoreContainer(s, SpecOf(s.kind))])
          /\ Supplied([x \in {s.name} |-> StoreContainer(s, SpecOf(s.kind))])
      BY <1>1, StoreComes, StoreIsSupplied
    <2> QED
      BY <2>1
  <1> QED
    BY <1>1, AddedComes, AddedIsSupplied, PermsComes, PermsIsSupplied, PostgresComes,
       PostgresIsSupplied DEF Creating

LEMMA VolumesKept ==
    ASSUME IdsInv, DomainsInv, NamesInv, VolumesInv, [RNext]_rvars
    PROVE  VolumesInv'
  <1>1. CASE Calls
    <2>1. CASE UNCHANGED <<mounts, volumes>>
      BY <1>1, <2>1 DEF VolumesInv, BoundSomewhere, Calls
    <2>2. ASSUME NEW c \in names, NEW path, NEW cfg \in StorageConfig \cup {Udev, Socket},
                 Mountable(c, path, cfg),
                 mounts' = [mounts EXCEPT ![c] = mounts[c] \cup {MountOf(path, cfg)}],
                 volumes' = NewVolumes(<<cfg>>)
          PROVE  VolumesInv'
      <3>1. PICK cfgs : cfgs = <<cfg>>
        OBVIOUS
      <3>2. DOMAIN cfgs = {1} /\ cfgs[1] = cfg
        BY <3>1
      <3>3. GoodStorage(cfg)
        BY <2>2 DEF Mountable
      <3>4. volumes' = NewVolumes(cfgs)
        BY <2>2, <3>1
      <3>5. /\ volumes \subseteq volumes'
            /\ \A v \in volumes' :
                   v.spec = "none" => v \in volumes \/ Binds(MountOf(path, cfg), v.source)
            /\ Backed(MountOf(path, cfg), volumes')
        BY <3>2, <3>3, <3>4, DeclaredWithMounts
      <3>6. /\ names' = names /\ c \in Container /\ MountOf(path, cfg) \in mounts'[c]
            /\ \A d \in Container : mounts[d] \subseteq mounts'[d]
            /\ \A d \in Container : mounts'[d] \subseteq mounts[d] \cup {MountOf(path, cfg)}
            /\ names \subseteq Container
        BY <1>1, <2>2 DEF DomainsInv, NamesInv, Calls
      <3>7. ASSUME NEW v \in volumes', v.spec = "none"
            PROVE  BoundSomewhere(v.source)'
        <4>1. CASE v \in volumes
          BY <3>6, <3>7, <4>1 DEF VolumesInv, BoundSomewhere
        <4>2. CASE Binds(MountOf(path, cfg), v.source)
          BY <3>6, <4>2 DEF BoundSomewhere, Binds
        <4> QED
          BY <3>5, <3>7, <4>1, <4>2
      <3>8. ASSUME NEW d \in Container, NEW m \in mounts'[d]
            PROVE  Backed(m, volumes')
        BY <3>5, <3>6, <3>8, StillBacked DEF VolumesInv
      <3> QED
        BY <3>7, <3>8 DEF VolumesInv
    <2> QED
      BY <1>1, <2>1, <2>2 DEF Calls, StorageMove
  <1>2. CASE Creating
    <2>1. PICK new : Newcomers(new) /\ Supplied(new)
      BY <1>2, WhoComesIsSupplied
    <2>2. /\ \A c \in Container :
                mounts'[c] = IF c \in DOMAIN new THEN new[c].mounts ELSE mounts[c]
          /\ names' = names \cup DOMAIN new
          /\ DOMAIN new \subseteq Container \ names /\ names \subseteq Container
      BY <2>1, Placed DEF Newcomers, NamesInv
    <2>3. ASSUME NEW c \in Container, NEW m \in mounts'[c]
          PROVE  Backed(m, volumes')
      BY <2>1, <2>2, <2>3, StillBacked DEF Supplied, VolumesInv
    <2>4. ASSUME NEW v \in volumes', v.spec = "none"
          PROVE  BoundSomewhere(v.source)'
      <3>1. CASE v \in volumes
        BY <2>2, <2>4, <3>1 DEF VolumesInv, BoundSomewhere
      <3>2. CASE BoundBy(new, v.source)
        BY <2>2, <3>2 DEF BoundBy, BoundSomewhere, Binds
      <3> QED
        BY <2>1, <2>4, <3>1, <3>2 DEF Supplied
    <2> QED
      BY <2>3, <2>4 DEF VolumesInv
  <1> QED
    BY <1>1, <1>2, WhatAStepDoes

-----------------------------------------------------------------------------
(* References between containers and to configs.  A call only ever refers  *)
(* to a container that is there, and what is there never goes.             *)

RefersTo(files, deps, mode, ipc, pid) ==
    /\ \A f \in files : \E k \in configs : k.name = f.name
    /\ \A d \in deps : d.on \in names
    /\ mode \in {"", "host", "none"} \cup names
    /\ ipc \in IpcValues \cup names
    /\ pid \in PidValues \cup names

RefsInv ==
    \A c \in names :
        RefersTo(configFiles[c], depends[c], netMode[c], settings[c].ipc, settings[c].pid)

LEMMA StillRefers ==
    ASSUME names \subseteq names', configs \subseteq configs',
           NEW files, NEW deps, NEW mode, NEW ipc, NEW pid, RefersTo(files, deps, mode, ipc, pid)
    PROVE  /\ \A f \in files : \E k \in configs' : k.name = f.name
           /\ \A d \in deps : d.on \in names'
           /\ mode \in {"", "host", "none"} \cup names'
           /\ ipc \in IpcValues \cup names'
           /\ pid \in PidValues \cup names'
  BY DEF RefersTo

LEMMA RefsKept ==
    ASSUME IdsInv, DomainsInv, NamesInv, VolumesInv, RefsInv, [RNext]_rvars
    PROVE  RefsInv'
  <1> SUFFICES ASSUME NEW c \in names'
               PROVE  /\ \A f \in configFiles'[c] : \E k \in configs' : k.name = f.name
                      /\ \A d \in depends'[c] : d.on \in names'
                      /\ netMode'[c] \in {"", "host", "none"} \cup names'
                      /\ settings'[c].ipc \in IpcValues \cup names'
                      /\ settings'[c].pid \in PidValues \cup names'
    BY DEF RefsInv, RefersTo
  <1>1. CASE Calls
    <2>1. c \in names /\ c \in Container /\ names' = names
      BY <1>1 DEF Calls, NamesInv
    <2>2. RefersTo(configFiles[c], depends[c], netMode[c], settings[c].ipc, settings[c].pid)
      BY <2>1 DEF RefsInv
    <2>3. \A f \in configFiles'[c] : \E k \in configs' : k.name = f.name
      <3>1. CASE UNCHANGED <<configs, configFiles>>
        BY <2>2, <3>1 DEF RefersTo
      <3>2. ASSUME NEW b \in names, NEW name, NEW data, NEW target,
                   FileAdded(b, name, data, target)
            PROVE  \A f \in configFiles'[c] : \E k \in configs' : k.name = f.name
        <4>1. PICK file, config : /\ file = [name |-> name, target |-> target]
                                  /\ config = [name |-> name, data |-> data]
          OBVIOUS
        <4>2. file.name = config.name
          BY <4>1
        <4>3. /\ configs' = configs \cup {config}
              /\ configFiles' = [configFiles EXCEPT ![b] = configFiles[b] \cup {file}]
          BY <3>2, <4>1 DEF FileAdded
        <4>4. configFiles'[c] \subseteq configFiles[c] \cup {file}
          BY <2>1, <4>3 DEF DomainsInv
        <4> QED
          BY <2>2, <4>2, <4>3, <4>4 DEF RefersTo
      <3> QED
        BY <1>1, <3>1, <3>2 DEF Calls, FilesMove
    <2>4. \A d \in depends'[c] : d.on \in names
      <3>1. \A on, cond : [on |-> on, cond |-> cond].on = on
        OBVIOUS
      <3>2. \A d \in depends'[c] : d \in depends[c] \/ \E on \in names : \E cond :
                                        d = [on |-> on, cond |-> cond]
        <4>1. CASE UNCHANGED depends
          BY <4>1
        <4>2. ASSUME NEW b \in names, NEW on \in names, NEW cond,
                     depends' = [depends EXCEPT ![b] = depends[b] \cup {[on |-> on, cond |-> cond]}]
              PROVE  depends'[c] \subseteq depends[c] \cup {[on |-> on, cond |-> cond]}
          BY <2>1, <4>2 DEF DomainsInv
        <4>3. ASSUME NEW s \in stores, NEW on \in names, NEW cond,
                     depends' = [x \in Container |->
                         depends[x] \cup IF x \in Own(s) THEN {[on |-> on, cond |-> cond]} ELSE {}]
              PROVE  depends'[c] \subseteq depends[c] \cup {[on |-> on, cond |-> cond]}
          BY <2>1, <4>3
        <4>4. \/ UNCHANGED depends
              \/ \E on \in names : \E cond :
                    depends'[c] \subseteq depends[c] \cup {[on |-> on, cond |-> cond]}
          <5>1. DependsMove
            BY <1>1 DEF Calls, ServiceMoves
          <5>2. CASE "health" \in kinds /\ \E b \in names, on \in names : \E cond :
                    depends' = [depends EXCEPT ![b] = depends[b] \cup {[on |-> on, cond |-> cond]}]
            BY <4>2, <5>2
          <5>3. CASE \E s \in stores, on \in names : \E cond :
                    depends' = [x \in Container |->
                        depends[x] \cup IF x \in Own(s) THEN {[on |-> on, cond |-> cond]} ELSE {}]
            BY <4>3, <5>3, SMTT(30)
          <5> QED
            BY <5>1, <5>2, <5>3 DEF DependsMove, Own
        <4> QED
          BY <4>1, <4>4
      <3>3. \A d \in depends[c] : d.on \in names
        BY <2>2 DEF RefersTo
      <3>4. ASSUME NEW d, NEW on \in names, NEW cond, d = [on |-> on, cond |-> cond]
            PROVE  d.on \in names
        BY <3>4
      <3> QED
        BY <3>2, <3>3, <3>4
    <2>5. netMode'[c] \in {"", "host", "none"} \cup names
      BY <1>1, <2>1, <2>2 DEF Calls, ModeMove, DomainsInv, RefersTo
    <2>6. /\ settings'[c].ipc = settings[c].ipc \/ settings'[c].ipc \in IpcValues \cup names
          /\ settings'[c].pid = settings[c].pid \/ settings'[c].pid \in PidValues \cup names
      BY <1>1, <2>1, SettingsAfterCall DEF Calls, ServiceMoves, NamesInv
    <2> QED
      BY <2>1, <2>2, <2>3, <2>4, <2>5, <2>6 DEF RefersTo
  <1>2. CASE Creating
    <2>1. PICK new : Newcomers(new) /\ Supplied(new)
      BY <1>2, WhoComesIsSupplied
    <2>2. names' = names \cup DOMAIN new /\ DOMAIN new \subseteq Container \ names
      BY <2>1, Placed DEF Newcomers
    <2>3. CASE c \in DOMAIN new
      <3>1. /\ settings'[c] = new[c].settings /\ depends'[c] = new[c].depends
            /\ netMode'[c] = new[c].netMode /\ configFiles'[c] = new[c].configFiles
        BY <2>1, <2>2, <2>3, Placed DEF Newcomers
      <3> QED
        BY <2>1, <2>2, <2>3, <3>1 DEF Newcomers, Newcomer, Plain, Supplied, IpcValues, PidValues
    <2>4. CASE c \notin DOMAIN new
      <3>1. c \in names /\ c \in Container
        BY <2>2, <2>4 DEF NamesInv
      <3>2. /\ settings'[c] = settings[c] /\ depends'[c] = depends[c]
            /\ netMode'[c] = netMode[c] /\ configFiles'[c] = configFiles[c]
        BY <2>1, <2>4, <3>1, Placed DEF Newcomers
      <3>3. RefersTo(configFiles[c], depends[c], netMode[c], settings[c].ipc, settings[c].pid)
        BY <3>1 DEF RefsInv
      <3> QED
        BY <2>1, <2>2, <3>2, <3>3, StillRefers, ZenonT(30) DEF Supplied
    <2> QED
      BY <2>3, <2>4
  <1> QED
    BY <1>1, <1>2, WhatAStepDoes

(* What a service of the file refers to is what its container refers to.   *)
LEMMA ServicesSay ==
    ASSUME NEW c \in names
    PROVE  /\ File.services[c].volumes = mounts[c]
           /\ File.services[c].configs = configFiles[c]
           /\ File.services[c].dependsOn = depends[c]
           /\ File.services[c].networkMode = netMode[c]
           /\ File.services[c].ipc = settings[c].ipc
           /\ File.services[c].pid = settings[c].pid
           /\ File.services[c].networks \subseteq {j.net : j \in joined[c]}
  <1> DEFINE s == ServiceOf(c)
  <1>1. File.services[c] = s
    BY DEF File
  <1>2. /\ s.volumes = mounts[c] /\ s.configs = configFiles[c]
        /\ s.dependsOn = depends[c] /\ s.networkMode = netMode[c]
        /\ s.ipc = settings[c].ipc /\ s.pid = settings[c].pid
    BY DEF ServiceOf
  <1>3. s.networks \subseteq {j.net : j \in joined[c]}
    BY DEF ServiceOf
  <1> HIDE DEF s
  <1> QED
    BY <1>1, <1>2, <1>3

LEMMA ClosedWhenReferencesHold ==
    ASSUME NamesInv, VolumesInv, RefsInv, JoinsApart
    PROVE  FileIsClosed
  <1>1. /\ File.volumes = {v.source : v \in {x \in volumes : x.spec # "none"}}
        /\ File.networks = networks
        /\ File.configs = {k.name : k \in configs}
    BY DEF File
  <1>2. ASSUME NEW c \in names
        PROVE  LET s == File.services[c]
               IN  /\ \A m \in s.volumes : m.kind = "volume" /\ m.source # <<"none", "">> =>
                          m.source \in File.volumes \/ BoundSomewhere(m.source)
                   /\ s.networks \subseteq File.networks
                   /\ {f.name : f \in s.configs} \subseteq File.configs
                   /\ {d.on : d \in s.dependsOn} \subseteq names
                   /\ s.networkMode \in {"", "host", "none"} \cup names
                   /\ s.ipc \in {"", "host", "private", "shareable", "none"} \cup names
                   /\ s.pid \in {"", "host"} \cup names
    <2> DEFINE s == File.services[c]
    <2>1. c \in Container
      BY DEF NamesInv
    <2>2. /\ s.volumes = mounts[c] /\ s.configs = configFiles[c]
          /\ s.dependsOn = depends[c] /\ s.networkMode = netMode[c]
          /\ s.ipc = settings[c].ipc /\ s.pid = settings[c].pid
          /\ s.networks \subseteq {j.net : j \in joined[c]}
      BY ServicesSay
    <2> HIDE DEF s
    <2>3. ASSUME NEW m \in mounts[c], m.kind = "volume", m.source # <<"none", "">>
          PROVE  m.source \in File.volumes \/ BoundSomewhere(m.source)
      <3>1. \E v \in volumes : v.source = m.source
        BY <2>1, <2>3 DEF VolumesInv, Backed
      <3> QED
        BY <1>1, <3>1 DEF VolumesInv
    <2>4. s.networks \subseteq File.networks
      <3>1. \A j \in joined[c] : j.net \in networks
        BY <2>1 DEF JoinsApart
      <3> QED
        BY <1>1, <2>2, <3>1
    <2>5. RefersTo(configFiles[c], depends[c], netMode[c], settings[c].ipc, settings[c].pid)
      BY DEF RefsInv
    <2>6. {f.name : f \in s.configs} \subseteq File.configs
      BY <1>1, <2>2, <2>5 DEF RefersTo
    <2>7. {d.on : d \in s.dependsOn} \subseteq names
      BY <2>2, <2>5 DEF RefersTo
    <2>8. /\ s.networkMode \in {"", "host", "none"} \cup names
          /\ s.ipc \in {"", "host", "private", "shareable", "none"} \cup names
          /\ s.pid \in {"", "host"} \cup names
      BY <2>2, <2>5 DEF RefersTo, IpcValues, PidValues
    <2> QED
      BY <2>2, <2>3, <2>4, <2>6, <2>7, <2>8 DEF s
  <1> QED
    BY <1>2 DEF FileIsClosed

\* Whatever a service of the rendered file mounts, joins, reads, waits for or
\* shares is declared in the file, whichever part asked for it and when
\* (render.py writes the services before the volumes, networks and configs),
\* but for a volume named like a path of the host that is bind-mounted too
\* (volumes.py:28).
THEOREM FileStaysClosed == RSpec => []FileIsClosed
  <1>1. RInit => VolumesInv /\ RefsInv
    BY DEF RInit, BaseInit, MountInit, VolumesInv, RefsInv
  <1>2. IdsInv /\ DomainsInv /\ NamesInv /\ VolumesInv /\ RefsInv /\ [RNext]_rvars
        => VolumesInv' /\ RefsInv'
    BY VolumesKept, RefsKept
  <1>3. RSpec => [](VolumesInv /\ RefsInv)
    BY <1>1, <1>2, IdsInvHolds, NamesInvHolds, PTL DEF RSpec
  <1> QED
    BY <1>3, NamesInvHolds, JoinsStayApart, ClosedWhenReferencesHold, PTL

-----------------------------------------------------------------------------
(* The types.  The networks of the values are looked up among those of     *)
(* Docker, so that the type of the host is part of the invariant.          *)

NetworkType == [name : STRING, internal : BOOLEAN]
BindingType == [published : 1..MaxPort, target : 1..MaxPort, proto : Protocol,
                mode : PortMode, ip : HostIp]

TypesInv ==
    /\ phase \in {"new", "building", "failed", "rendered"}
    /\ host \in HostChoice
    /\ networks \subseteq NetworkType
    /\ \A c \in Container : /\ ports[c] \subseteq BindingType
                           /\ netMode[c] \in {"", "host", "none"} \cup Container
    /\ \A c \in Container \ names :
          ports[c] = {} /\ mounts[c] = {} /\ joined[c] = {} /\ vars[c] = {}

LEMMA NetworkTypes ==
    /\ \A n \in NetName : External(n) \in NetworkType /\ Internal(n) \in NetworkType
    /\ \A h \in HostChoice : h.networks \subseteq NetworkType
  <1>1. ASSUME NEW n \in NetName PROVE n \in STRING
    BY NetAssumption
  <1>2. ASSUME NEW n \in STRING, NEW b \in BOOLEAN
        PROVE  [name |-> n, internal |-> b] \in NetworkType
    BY Zenon DEF NetworkType
  <1>3. \A n \in NetName : External(n) \in NetworkType /\ Internal(n) \in NetworkType
    BY <1>1, <1>2, Zenon DEF External, Internal
  <1> QED
    BY <1>3, NetAssumption DEF NetworkType

LEMMA AskedForTypes ==
    ASSUME NEW a \in PortCall, a.mode \in PortMode, a.proto \in Protocol,
           ValidPort(a.published), ValidPort(Target(a)),
           \A i \in DOMAIN Requested(a) : Requested(a)[i].ip \in HostIp
    PROVE  ToSet(Requested(a)) \subseteq BindingType
  <1> SUFFICES ASSUME NEW i \in DOMAIN Requested(a) PROVE Requested(a)[i] \in BindingType
    BY DEF ToSet
  <1>1. Requested(a)[i] = Binding(a.published, Target(a), a.proto, a.mode, Ips(a)[i])
    BY DEF Requested
  <1>2. Ips(a)[i] \in HostIp
    BY <1>1 DEF Binding
  <1> QED
    BY <1>1, <1>2 DEF Binding, BindingType, ValidPort

LEMMA PhaseKept ==
    ASSUME TypesInv, [RNext]_rvars
    PROVE  phase' \in {"new", "building", "failed", "rendered"}
  <1>1. CASE UNCHANGED rvars
    BY <1>1 DEF rvars, baseVars, TypesInv
  <1>2. CASE RNext
    <2>1. CASE Start
      BY <2>1 DEF Start, RegisterAll, Return, Raise
    <2>2. CASE RenderFile
      BY <2>2 DEF RenderFile, Raise
    <2>3. CASE GoesOn
      BY <2>3 DEF GoesOn
    <2> QED
      BY <1>2, <2>1, <2>2, <2>3, StepsOfARendering
  <1> QED
    BY <1>1, <1>2

LEMMA TypesKept ==
    ASSUME PortsInv, DomainsInv, NamesInv, TypesInv, [RNext]_rvars
    PROVE  TypesInv'
  <1>1. phase' \in {"new", "building", "failed", "rendered"}
    BY PhaseKept
  <1>2. CASE Calls
    <2>1. UNCHANGED <<names, host>> /\ names \subseteq Container
      BY <1>2 DEF Calls, NamesInv
    <2>2. networks' \subseteq NetworkType
      BY <1>2, NetworkTypes DEF Calls, NetworksMove, TypesInv
    <2>3. ASSUME NEW c \in Container
          PROVE  /\ ports'[c] \subseteq BindingType
                 /\ c \notin names => ports'[c] = ports[c]
      <3>1. CASE UNCHANGED ports
        BY <3>1 DEF TypesInv
      <3>2. ASSUME NEW d \in names, NEW a \in PortCall, a.mode \in PortMode, Published(d, a),
                   ~UNCHANGED ports
            PROVE  /\ ports'[c] \subseteq BindingType
                   /\ c \notin names => ports'[c] = ports[c]
        <4>1. /\ ports' = [ports EXCEPT ![d] = ports[d] \cup ToSet(Requested(a))]
              /\ a.proto \in Protocol /\ ValidPort(a.published) /\ ValidPort(Target(a))
              /\ \A i \in DOMAIN Requested(a) : Requested(a)[i].ip \in HostIp
          BY <3>2 DEF Published, portVars
        <4>2. ToSet(Requested(a)) \subseteq BindingType
          BY <3>2, <4>1, AskedForTypes
        <4>3. ports'[c] = IF c = d THEN ports[d] \cup ToSet(Requested(a)) ELSE ports[c]
          BY <4>1 DEF PortsInv
        <4>4. ports[c] \subseteq BindingType
          BY DEF TypesInv
        <4> QED
          BY <4>2, <4>3, <4>4
      <3> QED
        BY <1>2, <3>1, <3>2 DEF Calls, PortsMove
    <2>4. \A c \in Container : netMode'[c] \in {"", "host", "none"} \cup Container
      BY <1>2, <2>1, ZenonT(30) DEF Calls, ModeMove, DomainsInv, TypesInv
    <2>5. ASSUME NEW c \in Container \ names
          PROVE  mounts'[c] = {} /\ joined'[c] = {} /\ vars'[c] = {}
      <3>1. mounts'[c] = mounts[c]
        BY <1>2 DEF Calls, StorageMove, DomainsInv
      <3>2. joined'[c] = joined[c]
        BY <1>2 DEF Calls, JoinedMove, DomainsInv
      <3>3. vars'[c] = vars[c]
        BY <1>2 DEF Calls, ServiceMoves, VarsMove, DomainsInv
      <3> QED
        BY <3>1, <3>2, <3>3 DEF TypesInv
    <2>6. \A c \in Container \ names : ports'[c] = {}
      BY <2>3 DEF TypesInv
    <2>7. host' \in HostChoice
      BY <2>1 DEF TypesInv
    <2> QED
      BY <1>1, <2>1, <2>2, <2>3, <2>4, <2>5, <2>6, <2>7 DEF TypesInv
  <1>3. CASE Creating
    <2>1. PICK new : Newcomers(new)
      BY <1>3, WhoComes
    <2>2. UNCHANGED <<host, ports, networks>> /\ names' = names \cup DOMAIN new
      BY <2>1, Placed DEF Newcomers
    <2>3. ASSUME NEW c \in Container
          PROVE  netMode'[c] \in {"", "host", "none"} \cup Container
      <3>1. CASE c \in DOMAIN new
        <4>1. netMode'[c] = new[c].netMode
          BY <2>1, <3>1, Placed DEF Newcomers
        <4> QED
          BY <2>1, <3>1, <4>1 DEF Newcomers, Newcomer
      <3>2. CASE c \notin DOMAIN new
        <4>1. netMode'[c] = netMode[c]
          BY <2>1, <3>2, Placed DEF Newcomers
        <4> QED
          BY <4>1 DEF TypesInv
      <3> QED
        BY <3>1, <3>2
    <2>4. ASSUME NEW c \in Container \ names'
          PROVE  mounts'[c] = {} /\ joined'[c] = {} /\ vars'[c] = {}
      <3>1. c \in Container \ names /\ c \notin DOMAIN new
        BY <2>2
      <3>2. mounts'[c] = mounts[c] /\ joined'[c] = joined[c] /\ vars'[c] = vars[c]
        BY <2>1, <3>1, Placed DEF Newcomers
      <3> QED
        BY <3>1, <3>2 DEF TypesInv
    <2>5. host' \in HostChoice /\ networks' \subseteq NetworkType
      BY <2>2 DEF TypesInv
    <2>6. /\ \A c \in Container : ports'[c] \subseteq BindingType
          /\ \A c \in Container \ names' : ports'[c] = {}
      BY <2>2 DEF TypesInv
    <2> QED
      BY <1>1, <2>3, <2>4, <2>5, <2>6 DEF TypesInv
  <1> QED
    BY <1>2, <1>3, WhatAStepDoes

\* Every rendering stays within its types, and a container that is not there
\* has no port, mount, network or variable (the fields of Render and Container,
\* which the calls of ports.py, networks.py and storage.py fill).
THEOREM RendererTypeCorrect == RSpec => []RTypeOK
  <1>1. RInit => TypesInv
    BY ZenonT(30) DEF RInit, BaseInit, PortInit, NetInit, MountInit, ServiceInit, TypesInv
  <1>2. PortsInv /\ DomainsInv /\ NamesInv /\ TypesInv /\ [RNext]_rvars => TypesInv'
    BY TypesKept
  <1>3. RSpec => []TypesInv
    BY <1>1, <1>2, PortsInvHolds, NamesInvHolds, PTL DEF RSpec
  <1>4. NamesInv /\ TypesInv => RTypeOK
    BY DEF NamesInv, TypesInv, RTypeOK, NetworkType, BindingType
  <1> QED
    BY <1>3, <1>4, NamesInvHolds, PTL
=============================================================================
