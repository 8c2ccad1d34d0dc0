-------------------------------- MODULE Mounts --------------------------------
(* Storage of the containers: mounts, tmpfs and config files of each, and   *)
(* the volumes and configs declared for all.  A storage configuration is a  *)
(* record [type, source, readOnly, autoPerms, acl, opt], where opt tells    *)
(* whether what the type requires is there and well-formed and which mount  *)
(* options are given.  A source is tagged: the name of an nfs or cifs       *)
(* volume is a hash of its configuration, here the configuration itself.    *)
EXTENDS RenderBase

CONSTANTS
    MountPath,      \* paths in containers
    StorageConfig,  \* storage configurations a template may pass
    ConfigName,     \* names of configs
    ConfigData,     \* contents of configs: <<"text", string>>, empty or not
    AllowedSource   \* host paths that are not restricted once resolved

\* What a template writes into a config is text; only the list of permission
\* actions is not.
ASSUME ConfigAssumption == \A data \in ConfigData : data[1] = "text"

VARIABLES
    mounts,        \* mounts[c] : set of [target, kind, source, readOnly]
    tmpfs,         \* tmpfs[c] : set of paths
    volumes,       \* set of [source, spec], the first definition of each source
    configs,       \* set of [name, data]
    configFiles    \* configFiles[c] : set of [name, target]

mountVars == <<mounts, tmpfs, volumes, configs, configFiles>>

MountInit ==
    /\ mounts = [c \in Container |-> {}]
    /\ tmpfs = [c \in Container |-> {}]
    /\ volumes = {}
    /\ configs = {}
    /\ configFiles = [c \in Container |-> {}]

ValidPath(path) == path # "/"

\* Mutation: the paths of tmpfs are forgotten
PathMounted(c, path) == path \in {m.target : m \in mounts[c]}

PathUsed(c, path) == path \in tmpfs[c] \cup {m.target : m \in mounts[c]}

Reserved(type) ==
    IF type = "nfs" THEN {"addr"} ELSE {"user", "password", "domain", "noperm"}

\* A share has all its type requires, and options that are not repeated and
\* not written by the library.
ValidShare(type, opt) ==
    /\ opt.complete
    /\ \A i, j \in DOMAIN opt.keys : opt.keys[i] = opt.keys[j] => i = j
    /\ ToSet(opt.keys) \cap Reserved(type) = {}

Source(cfg) ==
    CASE cfg.type \in {"nfs", "cifs"} -> <<cfg.type, cfg.opt>>
      [] cfg.type = "ix_volume" -> <<"name", values.datasets[cfg.source]>>
      [] cfg.type = "anonymous" -> <<"none", "">>
      [] OTHER -> <<"name", cfg.source>>

ValidSource(cfg) ==
    CASE cfg.type = "host_path" -> cfg.source \in AllowedSource
      [] cfg.type = "ix_volume" -> cfg.source \in DOMAIN values.datasets
      [] cfg.type \in {"volume", "temporary"} -> cfg.source # ""
      [] OTHER -> TRUE

MountKind(cfg) == IF cfg.type \in {"host_path", "ix_volume"} THEN "bind" ELSE "volume"

\* Mutation: a temporary volume is taken for a path of the host
SpecIfNamed(cfg) ==
    CASE cfg.type \in {"nfs", "cifs"} -> cfg.type
      [] cfg.type = "volume" -> "docker"
      [] OTHER -> "none"

\* What a source is declared as; a bind mount takes the name and declares nothing.
VolumeSpec(cfg) ==
    CASE cfg.type \in {"nfs", "cifs"} -> cfg.type
      [] cfg.type \in {"volume", "temporary"} -> "docker"
      [] OTHER -> "none"

Declared(source) == \E v \in volumes : v.source = source

\* add_volume keeps the first definition of a source and never complains of
\* another; only the first is checked.
NewVolumes(cfgs) ==
    volumes \cup
    {[source |-> Source(cfgs[i]), spec |-> VolumeSpec(cfgs[i])] : i \in
        {k \in DOMAIN cfgs :
            /\ cfgs[k].type # "anonymous"
            /\ ~Declared(Source(cfgs[k]))
            /\ \A j \in DOMAIN cfgs : j < k => Source(cfgs[j]) # Source(cfgs[k])}}

GoodVolume(cfg) ==
    cfg.type \in {"nfs", "cifs"} => Declared(Source(cfg)) \/ ValidShare(cfg.type, cfg.opt)

MountOf(path, cfg) ==
    [target |-> path, kind |-> MountKind(cfg), source |-> Source(cfg),
     readOnly |-> cfg.readOnly]

KnownType(cfg) ==
    cfg.type \in {"host_path", "ix_volume", "nfs", "cifs", "volume", "temporary", "anonymous"}

\* Storage.add accepts the configuration at a path that is free.
GoodStorage(cfg) == KnownType(cfg) /\ ValidSource(cfg) /\ GoodVolume(cfg)

Mountable(c, path, cfg) == ValidPath(path) /\ ~PathUsed(c, path) /\ GoodStorage(cfg)

AddMount(c, path, cfg) ==
    \/ /\ Mountable(c, path, cfg)
       /\ mounts' = [mounts EXCEPT ![c] = @ \cup {MountOf(path, cfg)}]
       /\ volumes' = NewVolumes(<<cfg>>)
       /\ Return
    \/ ~Mountable(c, path, cfg) /\ Raise /\ UNCHANGED <<mounts, volumes>>

\* Size, mode and owner of a tmpfs must be well-formed when given.
AddTmpfs(c, path, cfg) ==
    LET good == ValidPath(path) /\ ~PathUsed(c, path) /\ cfg.opt.complete
    IN  \/ good /\ tmpfs' = [tmpfs EXCEPT ![c] = @ \cup {path}] /\ Return
        \/ ~good /\ Raise /\ UNCHANGED tmpfs

\* The udev socket of the host is a mount like any other.
Udev == [type |-> "host_path", source |-> "/run/udev", readOnly |-> TRUE,
         autoPerms |-> FALSE, acl |-> FALSE, opt |-> [complete |-> TRUE, keys |-> <<>>]]

AddUdev(c, path) ==
    /\ CallingOn("mounts", c)
    /\ AddMount(c, path, Udev)
    /\ UNCHANGED <<tmpfs, configs, configFiles>>

AddStorage(c, path, cfg) ==
    /\ CallingOn("mounts", c)
    /\ \/ cfg.type = "tmpfs" /\ AddTmpfs(c, path, cfg) /\ UNCHANGED <<mounts, volumes>>
       \/ cfg.type # "tmpfs" /\ AddMount(c, path, cfg) /\ UNCHANGED tmpfs
    /\ UNCHANGED <<configs, configFiles>>

\* Configs.add lets the same content be added again under a name.
GoodConfig(name, data) ==
    data # <<"text", "">> /\ \A k \in configs : k.name = name => k.data = data

AddConfig(c, name, data, target) ==
    /\ CallingOn("mounts", c)
    /\ LET good == /\ GoodConfig(name, data)
                   /\ target # "" /\ ValidPath(target)
                   /\ \A f \in configFiles[c] : f.target # target
       IN  \/ /\ good
              /\ configs' = configs \cup {[name |-> name, data |-> data]}
              /\ configFiles' = [configFiles EXCEPT ![c] =
                                    @ \cup {[name |-> name, target |-> target]}]
              /\ Return
           \/ ~good /\ Raise /\ UNCHANGED <<configs, configFiles>>
    /\ UNCHANGED <<mounts, tmpfs, volumes>>

MountCalls ==
    \E c \in names :
        \/ \E path \in MountPath, cfg \in StorageConfig : AddStorage(c, path, cfg)
        \/ AddUdev(c, "/run/udev")
        \/ \E name \in ConfigName, data \in ConfigData, target \in MountPath \cup {""} :
               AddConfig(c, name, data, target)

-----------------------------------------------------------------------------
\* Two different storages are never mounted at one path of a container, paths
\* compared as the texts they are, be they mounts or tmpfs and in whichever
\* order they were added.
TargetsDistinct ==
    \A c \in Container :
        /\ \A m, n \in mounts[c] : m.target = n.target => m = n
        /\ \A m \in mounts[c] : m.target \notin tmpfs[c]
=============================================================================
