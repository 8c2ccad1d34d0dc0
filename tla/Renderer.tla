------------------------------- MODULE Renderer -------------------------------
(* The whole rendering library: the constructor, containers, the helper     *)
(* that sets permissions, the data stores an application may ask for, and   *)
(* the rendering of the compose file with the notes shown to the user.      *)
EXTENDS Ports, Networks, Mounts, Services

CONSTANTS
    TemplateName,  \* names a template gives to its own containers
    PermsName,     \* the container that sets permissions
    UpgradeName,   \* UpgradeName[n] : the container that upgrades the postgres n
    Image,         \* names of images a template may use
    HelperProfile, \* resource profiles a template may pass to setup_as_helper
    SystemPath,    \* host paths below /dev, /proc, /sys, /etc or /lib
    ActionCall,    \* permission actions: [text, valid, cfg, uid]
    StoreCall      \* stores: [name, kind, image, cfg, port, complete]

\* The names of containers a template or the library may come up with.  The
\* template keeps the name of the container that sets permissions for it, and
\* an upgrade is called "<name>_upgrade".
ASSUME NameAssumption ==
    /\ TemplateName \ {""} \subseteq Container
    /\ PermsName \in Container \ TemplateName
    /\ \A s \in StoreCall : s.name # "" =>
           /\ {s.name, UpgradeName[s.name]} \subseteq Container
           /\ UpgradeName[s.name] # s.name

VARIABLES
    perms,    \* permission actions: sequence of [id, cfg, uid]
    stores,   \* stores created: set of [name, id, cfg, upgraded]
    noted,    \* kinds of notes the template added
    meddled,  \* the template changed the values
    told      \* told[c] : what the notes tell of container c, once rendered

storeVars == <<perms, stores>>
noteVars  == <<noted, meddled, told>>
rvars == <<baseVars, portVars, netVars, mountVars, serviceVars, storeVars, noteVars>>

RInit ==
    /\ BaseInit /\ PortInit /\ NetInit /\ MountInit /\ ServiceInit
    /\ perms = <<>>
    /\ stores = {}
    /\ noted = {}
    /\ meddled = FALSE
    /\ told = [c \in Container |-> {}]

-----------------------------------------------------------------------------
\* Render.__init__: Docker must answer on TrueNAS, and the networks of the
\* values are registered.
Start ==
    /\ phase = "new"
    /\ \/ host.docker /\ RegisterAll
       \/ ~host.docker /\ Raise /\ UNCHANGED networks
    /\ UNCHANGED <<names, values, host, kinds, calls, portVars, joined, netMode,
                   mountVars, serviceVars, storeVars, noteVars>>

\* A container as its constructor makes it from the values.
Fresh(c) ==
    [settings |-> FreshSettings, groups |-> {Apps}, devices |-> FreshDevices,
     reserved |-> values.gpu = "nvidia", vars |-> FreshVars, health |-> FreshHealth,
     depends |-> {}, entries |-> FreshEntries(c), joined |-> AutoJoined(c),
     netMode |-> AutoMode, mounts |-> {}, tmpfs |-> {}, configFiles |-> {}]

Creatable(c, image) ==
    /\ c # "" /\ c \notin names
    /\ image \in DOMAIN values.images
    /\ FreshValid(c) /\ AutoJoinable(c)

\* The containers new[c] join those there are.
Put(field, old, new) ==
    [c \in Container |-> IF c \in DOMAIN new THEN new[c][field] ELSE old[c]]

Place(new) ==
    /\ names' = names \cup DOMAIN new
    /\ settings' = Put("settings", settings, new)
    /\ groups' = Put("groups", groups, new)
    /\ devices' = Put("devices", devices, new)
    /\ reserved' = Put("reserved", reserved, new)
    /\ vars' = Put("vars", vars, new)
    /\ health' = Put("health", health, new)
    /\ depends' = Put("depends", depends, new)
    /\ entries' = Put("entries", entries, new)
    /\ joined' = Put("joined", joined, new)
    /\ netMode' = Put("netMode", netMode, new)
    /\ mounts' = Put("mounts", mounts, new)
    /\ tmpfs' = Put("tmpfs", tmpfs, new)
    /\ configFiles' = Put("configFiles", configFiles, new)
    /\ Return
    /\ UNCHANGED <<values, host, kinds, portVars, networks, noteVars>>

Abort ==
    /\ Raise
    /\ UNCHANGED <<names, values, host, kinds, portVars, netVars, mountVars,
                   serviceVars, storeVars, noteVars>>

AddContainer(c, image) ==
    /\ phase = "building"
    /\ \/ Creatable(c, image) /\ Place([x \in {c} |-> Fresh(c)]) /\ UNCHANGED <<volumes, configs, storeVars>>
       \/ ~Creatable(c, image) /\ Abort
    /\ UNCHANGED calls

-----------------------------------------------------------------------------
\* Calls on a container that touch more than one part of it.
Helper(s, profile) ==
    [s EXCEPT !.restart = "on-failure", !.retries = 1,
              !.profile = IF profile = "" THEN @ ELSE profile]

SetupAsHelper(c, profile, cutNetwork) ==
    /\ CallingOn("settings", c)
    /\ LET good == profile \in {"", "low", "medium"}
       IN  \/ /\ good
              /\ settings' = [settings EXCEPT ![c] = Helper(@, profile)]
              /\ health' = [health EXCEPT ![c].disabled = TRUE]
              /\ devices' = [devices EXCEPT ![c] = {}]
              /\ reserved' = [reserved EXCEPT ![c] = FALSE]
              /\ netMode' = [netMode EXCEPT ![c] = IF cutNetwork THEN "none" ELSE @]
              /\ Return
           \/ ~good /\ Raise /\ UNCHANGED <<settings, health, devices, reserved, netMode>>
    /\ UNCHANGED <<groups, vars, depends, entries, networks, joined, portVars, mountVars,
                   storeVars, noteVars>>

Socket == [Udev EXCEPT !.source = "/var/run/docker.sock"]

\* The group is added before the mount.
AddDockerSocket(c, path) ==
    /\ CallingOn("mounts", c)
    /\ LET good == DockerGid \notin groups[c] /\ Mountable(c, path, Socket)
       IN  \/ /\ good
              /\ groups' = [groups EXCEPT ![c] = @ \cup {DockerGid}]
              /\ mounts' = [mounts EXCEPT ![c] = @ \cup {MountOf(path, Socket)}]
              /\ volumes' = NewVolumes(<<Socket>>)
              /\ Return
           \/ ~good /\ Raise /\ UNCHANGED <<groups, mounts, volumes>>
    /\ UNCHANGED <<settings, devices, reserved, vars, health, depends, entries, netVars,
                   portVars, tmpfs, configs, configFiles, storeVars, noteVars>>

-----------------------------------------------------------------------------
\* Permissions are set by a container of their own, for the storages the user
\* wants it for.
Wanted(cfg) ==
    \/ cfg.type = "temporary"
    \/ cfg.type = "volume" /\ cfg.autoPerms
    \/ cfg.type \in {"host_path", "ix_volume"} /\ ~cfg.acl /\ cfg.autoPerms

\* The action a store registers for its data.
StoreId(s) == s.name \o "_" \o s.kind \o "_data"

ActionIds == {perms[i].id : i \in DOMAIN perms}

\* An identifier is refused when it is taken, even for a storage to be skipped;
\* one that is skipped takes none.
GoodAction(id, cfg, uid) == id \notin ActionIds /\ (Wanted(cfg) => uid >= 0)

\* Mutation: data belong to the default user, whoever the store runs as
WithDefaultUser(id, cfg, uid) ==
    IF Wanted(cfg) THEN Append(perms, [id |-> id, cfg |-> cfg, uid |-> Apps]) ELSE perms

WithAction(id, cfg, uid) ==
    IF Wanted(cfg) THEN Append(perms, [id |-> id, cfg |-> cfg, uid |-> uid]) ELSE perms

\* The text of an identifier stands for what is left of it in lower case and
\* without slashes around it.
AddAction(a) ==
    /\ Calling("perms")
    /\ LET good == GoodAction(a.text, a.cfg, a.uid) /\ (Wanted(a.cfg) => a.valid)
       IN  \/ good /\ perms' = WithAction(a.text, a.cfg, a.uid) /\ Return
           \/ ~good /\ Raise /\ UNCHANGED perms
    /\ UNCHANGED <<stores, portVars, netVars, mountVars, serviceVars, noteVars>>

\* Mutation: the test of read_only is the wrong way round
ReadOnlyOnes == {i \in DOMAIN perms : perms[i].cfg.readOnly}

\* The actions whose storage the container mounts, by their place in the list.
Writable == {i \in DOMAIN perms : ~perms[i].cfg.readOnly}
ActionPath(id) == "/mnt/permission/" \o id

\* Identifiers of actions: those of the template and those of the stores.
\* Writing one after a fixed text keeps two of them apart.
PossibleId == {a.text : a \in ActionCall} \cup {StoreId(s) : s \in StoreCall}
ASSUME PathAssumption ==
    \A k, l \in PossibleId : ActionPath(k) = ActionPath(l) => k = l

PermsContainer ==
    [Fresh(PermsName) EXCEPT
        !.settings = [Helper(@, "medium") EXCEPT !.user = 0],
        !.entries = @ \cup {Entry("cap", k, "known") : k \in {"CHOWN", "FOWNER", "DAC_OVERRIDE"}},
        !.netMode = "none", !.devices = {}, !.reserved = FALSE, !.health.disabled = TRUE,
        !.mounts = {MountOf(ActionPath(perms[i].id), perms[i].cfg) : i \in Writable},
        !.configFiles = {[name |-> "permissions_actions_data", target |-> "/script/actions.json"]}]

\* The actions there are become the container; later ones are registered and
\* forgotten.
Activate ==
    /\ phase = "building" /\ "perms" \in kinds
    /\ LET data == <<"actions", perms>>
           good == /\ perms # <<>>
                   /\ Creatable(PermsName, "container_utils_image")
                   /\ \A i \in Writable : GoodStorage(perms[i].cfg)
                   /\ GoodConfig("permissions_actions_data", data)
       IN  \/ /\ good
              /\ Place([x \in {PermsName} |-> PermsContainer])
              /\ volumes' = NewVolumes([i \in Writable |-> perms[i].cfg])
              /\ configs' = configs \cup {[name |-> "permissions_actions_data", data |-> data]}
           \/ ~good /\ Abort
    /\ UNCHANGED <<calls, storeVars>>
-----------------------------------------------------------------------------
\* Stores an application may ask for: the directory of the data ("" when it
\* keeps none), the user (0 for the one of the values), whether the port is
\* checked, the port it listens on and the one its health test probes, and a
\* variable it is configured with.
Store(dir, uid, checked, listens, probes, var) ==
    [dir |-> dir, uid |-> uid, checked |-> checked, listens |-> listens,
     probes |-> probes, var |-> var]

Redis     == Store("/data", 0, TRUE, "config", "default", "REDIS_PASSWORD")
Mariadb   == Store("/var/lib/mysql", 999, TRUE, "config", "default", "MARIADB_PASSWORD")
Mongodb   == Store("/data/db", 0, FALSE, "default", "default", "MONGO_INITDB_ROOT_PASSWORD")
Elastic   == Store("/usr/share/elasticsearch/data", 1000, FALSE, "config", "config", "ELASTIC_PASSWORD")
Meili     == Store("/meili_data", 0, FALSE, "config", "config", "MEILI_MASTER_KEY")
Solr      == Store("/var/solr", 0, FALSE, "config", "config", "SOLR_PORT")
Memcached == Store("", 0, FALSE, "config", "config", "")
Tika      == Store("", 0, FALSE, "config", "config", "")
Guacd     == Store("", 0, FALSE, "config", "config", "")
Cron      == Store("", 0, FALSE, "default", "default", "METRICS_PORT")
Postgres  == Store("/var/lib/postgresql", 999, TRUE, "config", "config", "POSTGRES_PASSWORD")

SpecOf(kind) ==
    CASE kind = "redis" -> Redis [] kind = "mariadb" -> Mariadb
      [] kind = "mongodb" -> Mongodb [] kind = "elastic" -> Elastic
      [] kind = "meili" -> Meili [] kind = "solr" -> Solr
      [] kind = "memcached" -> Memcached [] kind = "tika" -> Tika
      [] kind = "guacd" -> Guacd [] kind = "cron" -> Cron
      [] kind = "postgres" -> Postgres

\* The user of the values runs a store, unless it is root.
RunAs(spec) ==
    IF spec.uid # 0 THEN spec.uid ELSE IF values.runAs # 0 THEN values.runAs ELSE Apps

PortOf(which, s) == IF which = "config" THEN s.port ELSE "default"

DataMounts(spec, cfg) ==
    IF spec.dir = "" \/ cfg.type = "tmpfs" THEN {} ELSE {MountOf(spec.dir, cfg)}
DataTmpfs(spec, cfg) ==
    IF spec.dir # "" /\ cfg.type = "tmpfs" THEN {spec.dir} ELSE {}
DataVolumes(spec, cfg) ==
    IF spec.dir = "" \/ cfg.type = "tmpfs" THEN <<>> ELSE <<cfg>>

\* Devices and reservations are taken from every store.
StoreContainer(s, spec) ==
    [Fresh(s.name) EXCEPT
        !.settings = [@ EXCEPT !.user = RunAs(spec), !.grace = 60,
                               !.profile = IF s.kind = "cron" THEN "low" ELSE @],
        !.devices = {}, !.reserved = FALSE,
        !.vars = @ \cup IF spec.var = "" THEN {} ELSE {Variable(spec.var, "dev", "config")},
        !.health = [@ EXCEPT !.test = TRUE, !.port = PortOf(spec.probes, s)],
        !.mounts = DataMounts(spec, s.cfg), !.tmpfs = DataTmpfs(spec, s.cfg),
        !.configFiles = IF s.kind = "cron"
                        THEN {[name |-> "crontasks", target |-> "/crontasks"]} ELSE {}]

\* A store is accepted when its configuration is complete, its image is of a
\* repository known for its kind, and its storage and action are accepted.
GoodStore(s, spec) ==
    /\ s.complete
    /\ spec.checked => s.port # "invalid"
    /\ Creatable(s.name, s.image)
    /\ spec.dir # "" =>
          /\ IF s.cfg.type = "tmpfs" THEN s.cfg.opt.complete ELSE GoodStorage(s.cfg)
          /\ GoodAction(StoreId(s), s.cfg, RunAs(spec))

Remember(s, spec, upgraded) ==
    /\ stores' = stores \cup {[name |-> s.name, id |-> StoreId(s), cfg |-> s.cfg,
                               kind |-> s.kind, upgraded |-> upgraded]}
    /\ perms' = IF spec.dir = "" THEN perms
                ELSE WithAction(StoreId(s), s.cfg, RunAs(spec))
    /\ volumes' = NewVolumes(DataVolumes(spec, s.cfg))

AddStore(s) ==
    /\ phase = "building" /\ "stores" \in kinds
    /\ s.kind # "postgres"
    /\ LET spec == SpecOf(s.kind)
           tasks == [name |-> "crontasks", data |-> <<"text", "tasks">>]
           good == /\ GoodStore(s, spec)
                   /\ values.images[s.image].repo = s.kind
                   /\ s.kind = "cron" => GoodConfig(tasks.name, tasks.data)
       IN  \/ /\ good
              /\ Place([x \in {s.name} |-> StoreContainer(s, spec)])
              /\ Remember(s, spec, FALSE)
              /\ configs' = configs \cup IF s.kind = "cron" THEN {tasks} ELSE {}
           \/ ~good /\ Abort
    /\ UNCHANGED calls

-----------------------------------------------------------------------------
\* Postgres is started after a container that upgrades its data to the major
\* version of the image, where the repository allows an upgrade.
MaxPostgresVersion == 18
Repos        == {"postgres", "timescale"}
UpgradeRepos == {"postgres"}

\* Mutation: the upgrade is not set up as a helper
UpgraderOnNetwork(s, c) ==
    [Fresh(UpgradeName[s.name]) EXCEPT
        !.settings.user = c.settings.user, !.mounts = c.mounts, !.tmpfs = c.tmpfs]

Upgrader(s, c) ==
    [Fresh(UpgradeName[s.name]) EXCEPT
        !.settings = [Helper(@, "medium") EXCEPT !.user = c.settings.user],
        !.devices = {}, !.reserved = FALSE, !.health.disabled = TRUE, !.netMode = "none",
        !.vars = @ \cup {Variable("POSTGRES_PASSWORD", "dev", "config"),
                         Variable("TARGET_VERSION", "dev", "config")},
        !.mounts = c.mounts, !.tmpfs = c.tmpfs]

AddPostgres(s) ==
    /\ phase = "building" /\ "stores" \in kinds
    /\ s.kind = "postgres"
    /\ LET image    == values.images[s.image]
           upgraded == image.repo \in UpgradeRepos
           upgrade  == UpgradeName[s.name]
           c        == [StoreContainer(s, Postgres) EXCEPT !.depends =
                           IF upgraded THEN {[on |-> upgrade, cond |-> "service_completed_successfully"]}
                           ELSE {}]
           good     == /\ GoodStore(s, Postgres)
                       /\ image.repo \in Repos
                       /\ image.major <= MaxPostgresVersion
                       /\ upgraded => Creatable(upgrade, "postgres_upgrade_image")
       IN  \/ /\ good
              /\ Place([x \in {s.name} \cup (IF upgraded THEN {upgrade} ELSE {}) |->
                           IF x = s.name THEN c ELSE Upgrader(s, c)])
              /\ Remember(s, Postgres, upgraded)
              /\ UNCHANGED configs
           \/ ~good /\ Abort
    /\ UNCHANGED calls

\* What postgres has to wait for, its upgrade has to wait for too.
AddStoreDependency(s, on, cond) ==
    /\ Calling("stores")
    /\ s \in stores /\ s.kind = "postgres"
    /\ LET both == {s.name} \cup IF s.upgraded THEN {UpgradeName[s.name]} ELSE {}
           good == /\ cond \in Condition /\ on \in names
                   /\ \A c \in both : \A d \in depends[c] : d.on # on
       IN  \/ /\ good
              /\ depends' = [c \in Container |->
                    depends[c] \cup IF c \in both THEN {[on |-> on, cond |-> cond]} ELSE {}]
              /\ Return
           \/ ~good /\ Raise /\ UNCHANGED depends
    /\ UNCHANGED <<settings, groups, devices, reserved, vars, health, entries, portVars,
                   netVars, mountVars, storeVars, noteVars>>

-----------------------------------------------------------------------------
\* Notes, and a template that writes to the values it was given.
AddNote(kind) ==
    /\ Calling("notes")
    /\ noted' = noted \cup {kind}
    /\ Return
    /\ UNCHANGED <<portVars, netVars, mountVars, serviceVars, storeVars, meddled, told>>

ChangeValues ==
    /\ Calling("notes")
    /\ meddled' = TRUE
    /\ Return
    /\ UNCHANGED <<portVars, netVars, mountVars, serviceVars, storeVars, noted, told>>

\* The host paths the notes have a name for, without a slash at their end.
HostFiles ==
    {"/dev", "/dev/bus/usb", "/dev/net/tun", "/dev/snd", "/dev/fuse", "/dev/hugepages",
     "/dev/cpu", "/dev/uinput", "/dev/dvb", "/dev/dri", "/dev/kfd", "/etc/os-release",
     "/etc/group", "/etc/passwd", "/etc/hostname", "/lib/modules", "/proc", "/sys",
     "/var/run/docker.sock", "/var/run/utmp", "/var/run/dbus", "/run/udev"}

\* get_pretty_host_mount: whether there is a name for a path, and the name.
Named(path)  == path \in HostFiles \cup SystemPath
Pretty(path) == IF Named(path) THEN path ELSE ""

\* The host paths a container mounts.
Bound(c) == {m.source[2] : m \in {x \in mounts[c] : x.kind = "bind"}}

\* Mutation: a cgroup namespace of the host is passed over
IpcAndPid(c) == {<<"namespace", f>> : f \in {x \in {"ipc", "pid"} : settings[c][x] = "host"}}

\* Namespaces of the host that a container is given.
HostNamespaces(c) ==
    {<<"namespace", f>> : f \in {x \in {"ipc", "pid", "cgroup"} : settings[c][x] = "host"}}

\* scan_containers: what the notes say of a container, found before it is
\* rendered.  A device without a name is told as one, a bind mount not at all.
Scan(c) ==
    (IF settings[c].restart = "on-failure" THEN {<<"short-lived">>} ELSE {}) \cup
    (IF settings[c].grace > 60 THEN {<<"warning", "grace">>} ELSE {}) \cup
    (IF settings[c].tty THEN {<<"warning", "tty">>} ELSE {}) \cup
    (IF settings[c].privileged THEN {<<"privileged">>} ELSE {}) \cup
    {<<"network", j.net.name>> : j \in joined[c]} \cup
    {<<"group", g>> : g \in groups[c]} \cup
    HostNamespaces(c) \cup
    (IF NoPrivilegeGain(c) THEN {} ELSE {<<"privileges gained">>}) \cup
    {<<"host", Pretty(d.host)>> : d \in devices[c]} \cup
    {<<"host", path>> : path \in {x \in Bound(c) : Named(x)}}

\* Container.render accepts the container.
Renderable(c) ==
    /\ netMode[c] # "" => joined[c] = {}
    /\ ~HealthUnset(c)
    /\ GpuGroups(c) \cap groups[c] = {}
    /\ ~BadSysctl(c, netMode[c] = "host")
    /\ netMode[c] # "host" => ~HostRefuses(ports[c]) /\ ~BadJoin(joined[c])
    /\ ~EnvConflict(vars[c])

\* The groups of a GPU are added for good, so that rendering again would fail.
RenderFile ==
    /\ phase = "building"
    /\ LET good == /\ ~meddled
                   /\ names # {}
                   /\ \A c \in names : Renderable(c)
                   /\ \A l \in values.labels : l.on \subseteq names
       IN  \/ /\ good
              /\ groups' = [c \in Container |-> groups[c] \cup GpuGroups(c)]
              /\ told' = [c \in Container |-> IF c \in names THEN Scan(c) ELSE {}]
              /\ phase' = "rendered"
           \/ ~good /\ Raise /\ UNCHANGED <<groups, told>>
    /\ UNCHANGED <<names, values, host, kinds, calls, portVars, netVars, mountVars, settings,
                   devices, reserved, vars, health, depends, entries, storeVars, noted, meddled>>
-----------------------------------------------------------------------------
PortStep == PortCalls /\ UNCHANGED <<netVars, mountVars, serviceVars, storeVars, noteVars>>
NetStep == NetCalls /\ UNCHANGED <<portVars, mountVars, serviceVars, storeVars, noteVars>>
MountStep == MountCalls /\ UNCHANGED <<portVars, netVars, serviceVars, storeVars, noteVars>>
ServiceStep == ServiceCalls /\ UNCHANGED <<portVars, netVars, mountVars, storeVars, noteVars>>

ContainerStep ==
    \/ \E c \in TemplateName, image \in Image : AddContainer(c, image)
    \/ \E c \in names, profile \in HelperProfile, cut \in BOOLEAN : SetupAsHelper(c, profile, cut)
    \/ \E c \in names : AddDockerSocket(c, "/var/run/docker.sock")

StoreStep ==
    \/ \E a \in ActionCall : AddAction(a)
    \/ Activate
    \/ \E s \in StoreCall : AddStore(s) \/ AddPostgres(s)
    \/ \E s \in stores, on \in Container, cond \in Condition : AddStoreDependency(s, on, cond)

NoteStep ==
    \/ \E kind \in {"info", "warning", "deprecation"} : AddNote(kind)
    \/ ChangeValues

RNext ==
    \/ Start
    \/ PortStep \/ NetStep \/ MountStep \/ ServiceStep
    \/ ContainerStep \/ StoreStep \/ NoteStep
    \/ RenderFile

RSpec == RInit /\ [][RNext]_rvars

-----------------------------------------------------------------------------
\* What the file says of a container.
ServiceOf(c) ==
    [networkMode |-> netMode[c],
     networks |-> IF netMode[c] = "host" THEN {} ELSE {j.net : j \in joined[c]},
     ports |-> IF netMode[c] = "host" THEN {} ELSE RenderPorts(ports[c]),
     expose |-> IF netMode[c] = "host" THEN {} ELSE exposed[c],
     ipc |-> settings[c].ipc, pid |-> settings[c].pid, cgroup |-> settings[c].cgroup,
     privileged |-> settings[c].privileged, groups |-> groups[c], devices |-> devices[c],
     reserved |-> reserved[c], volumes |-> mounts[c], tmpfs |-> tmpfs[c],
     configs |-> configFiles[c], dependsOn |-> depends[c], entries |-> entries[c]]

File ==
    [services |-> [c \in names |-> ServiceOf(c)],
     volumes |-> {v.source : v \in {x \in volumes : x.spec # "none"}},
     networks |-> networks,
     configs |-> {k.name : k \in configs},
     portals |-> portals,
     actionRequired |-> noted \cap {"warning", "deprecation"} # {}]

\* Containers that are not there have nothing, and what is there has its type.
RTypeOK ==
    /\ phase \in {"new", "building", "failed", "rendered"}
    /\ names \subseteq Container
    /\ networks \subseteq [name : STRING, internal : BOOLEAN]
    /\ \A c \in Container :
        /\ ports[c] \subseteq [published : 1..MaxPort, target : 1..MaxPort, proto : Protocol,
                               mode : PortMode, ip : HostIp]
        /\ netMode[c] \in {"", "host", "none"} \cup Container
        /\ c \notin names => ports[c] = {} /\ mounts[c] = {} /\ joined[c] = {} /\ vars[c] = {}

\* The template made no calls of these families, which could undo on a store
\* what the library set up.
Untouched(families) == families \cap kinds = {}

\* Some service of the file bind-mounts the source.
BoundSomewhere(source) ==
    \E c \in names : \E m \in mounts[c] : m.kind = "bind" /\ m.source = source

\* Compose refuses a file with a dangling reference: whatever a service of a
\* rendered file mounts, joins, reads, waits for or shares is declared in the
\* file, although the calls that declared it and those that use it were made
\* at different times by different parts.  The one exception is a volume that
\* has the name of a host path which some service of the file bind-mounts: the
\* first use of a name decides, and a bind mount declares nothing.
FileIsClosed ==
    phase = "rendered" =>
    \A c \in names :
        LET s == File.services[c]
        IN  /\ \A m \in s.volumes :
                   m.kind = "volume" /\ m.source # <<"none", "">> =>
                       m.source \in File.volumes \/ BoundSomewhere(m.source)
            /\ s.networks \subseteq File.networks
            /\ {f.name : f \in s.configs} \subseteq File.configs
            /\ {d.on : d \in s.dependsOn} \subseteq names
            /\ s.networkMode \in {"", "host", "none"} \cup names
            /\ s.ipc \in {"", "host", "private", "shareable", "none"} \cup names
            /\ s.pid \in {"", "host"} \cup names

\* A container that passes a GPU has the groups that may open it, and a store,
\* its upgrade or the one that sets permissions passes none and has neither
\* group, whatever GPU the user gave the application, as long as the template
\* adds no device or group itself.
Helpers == {s.name : s \in stores} \cup {UpgradeName[s.name] : s \in {x \in stores : x.upgraded}}
           \cup ({PermsName} \cap names)
GpusWhereTheyBelong ==
    /\ phase = "rendered" => \A c \in names : HasGpu(c) => {Video, RenderGid} \subseteq groups[c]
    /\ Untouched({"devices"}) =>
          \A c \in Helpers :
              devices[c] = {} /\ ~reserved[c] /\ {Video, RenderGid} \cap groups[c] = {}

\* The directory of a store is given to the user the store runs as: when the
\* user wants permissions set there is one action for the store, on the very
\* storage that the store mounts, with the store's user.
StoreOwnsItsData ==
    Untouched({"settings"}) =>
    \A s \in stores :
        SpecOf(s.kind).dir # "" /\ Wanted(s.cfg) =>
            \E i \in DOMAIN perms :
                /\ perms[i].id = s.id
                /\ perms[i].uid = settings[s.name].user
                /\ \E m \in mounts[s.name] :
                       m.target = SpecOf(s.kind).dir /\ m.source = Source(perms[i].cfg)

\* The container that sets permissions sees the storages of the actions it
\* carries out, each at the place its action names, writable.
ActionsSeeTheirData ==
    \A k \in configs :
        k.name = "permissions_actions_data" /\ k.data[1] = "actions" =>
            \A i \in DOMAIN k.data[2] :
                LET p == k.data[2][i]
                IN  ~p.cfg.readOnly =>
                    \E m \in mounts[PermsName] :
                        m.target = ActionPath(p.id) /\ m.source = Source(p.cfg) /\ ~m.readOnly

DataAt(c) == {m \in mounts[c] : m.target = Postgres.dir}

\* A database that may be upgraded only starts once its upgrade completed, and
\* the upgrade works on the database's own data at the same place, as the same
\* user and without a network.
UpgradeFirst ==
    Untouched({"settings", "health", "net"}) =>
    \A s \in {x \in stores : x.upgraded} :
        LET u == UpgradeName[s.name]
        IN  /\ [on |-> u, cond |-> "service_completed_successfully"] \in depends[s.name]
            /\ \A d \in depends[s.name] : d.on = u \/ d \in depends[u]
            /\ DataAt(u) = DataAt(s.name)
            /\ settings[u].user = settings[s.name].user
            /\ netMode[u] = "none"

\* What a service of the file is given of the host, in the words of the notes;
\* they have none for capabilities and for a GPU that is reserved.
GivenOf(c) ==
    LET s == File.services[c]
    IN  (IF s.privileged THEN {<<"privileged">>} ELSE {}) \cup
        (IF s.ipc = "host" THEN {<<"namespace", "ipc">>} ELSE {}) \cup
        (IF s.pid = "host" THEN {<<"namespace", "pid">>} ELSE {}) \cup
        (IF s.cgroup = "host" THEN {<<"namespace", "cgroup">>} ELSE {}) \cup
        (IF s.networkMode = "host" THEN {<<"network mode">>} ELSE {}) \cup
        {<<"network", n.name>> : n \in s.networks} \cup
        {<<"group", g>> : g \in s.groups} \cup
        {<<"host", d.host>> : d \in s.devices} \cup
        {<<"host", m.source[2]>> : m \in {x \in s.volumes : x.kind = "bind"}}

\* What of it the notes leave out: the network mode, the groups of a GPU, which
\* are added after the notes are written, and the paths without a name.
Unsaid(c) ==
    {<<"network mode">>} \cup
    {<<"group", g>> : g \in GpuGroups(c)} \cup
    {<<"host", path>> : path \in {x \in {d.host : d \in devices[c]} \cup Bound(c) : ~Named(x)}}

\* The notes are written before the services are rendered, and what they tell
\* of a service still is what the file gives it of the host: its privileges,
\* namespaces, networks, groups, devices and bind mounts, but for those that
\* Unsaid lists.  A device that has no name is told without one.
NotesTellTheRisks ==
    phase = "rendered" =>
    \A c \in names :
        /\ GivenOf(c) \ Unsaid(c) \subseteq told[c]
        /\ \A d \in devices[c] : ~Named(d.host) => <<"host", "">> \in told[c]
=============================================================================
