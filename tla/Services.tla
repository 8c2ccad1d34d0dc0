------------------------------- MODULE Services -------------------------------
(* The rest of a container: its settings, groups, devices and GPUs, its     *)
(* environment, health check, dependencies, and the lists of entries with a *)
(* key.  What a new container has by itself comes from the values:          *)
(* [gpu, runAs, skipGeneric, labels, dns], where gpu tells which GPUs the   *)
(* user chose, labels is a set of [key, on] and dns one of entries.         *)
EXTENDS RenderBase

CONSTANTS
    Setting,     \* settings a template may make: [field, value, retries]
    GroupCall,   \* groups a template may add: [id, text]
    DeviceCall,  \* devices a template may add: [host, path, slash, valid]
    EntryCall,   \* keyed entries a template may add: [reg, key, val]
    VarName,     \* environment variables a template or the user may set
    HealthCall   \* health tests a template may set: [port, valid]

VARIABLES
    settings,  \* settings[c] : a record of scalar settings
    groups,    \* groups[c] : supplementary groups
    devices,   \* devices[c] : set of [host, path, slash]
    reserved,  \* reserved[c] : NVIDIA GPUs are reserved for c
    vars,      \* vars[c] : set of [name, origin, val]
    health,    \* health[c] : [test, port, disabled, builtIn]
    depends,   \* depends[c] : set of [on, cond]
    entries    \* entries[c] : set of [reg, key, val]

serviceVars == <<settings, groups, devices, reserved, vars, health, depends, entries>>

Video     == 44
RenderGid == 107
Audio     == 29
Apps      == 568
DockerGid == 999

Device(host_, path) == [host |-> host_, path |-> path, slash |-> FALSE]
Variable(name, origin, val) == [name |-> name, origin |-> origin, val |-> val]
Entry(reg, key, val) == [reg |-> reg, key |-> key, val |-> val]

-----------------------------------------------------------------------------
FreshSettings ==
    [user |-> -1, privileged |-> FALSE, tty |-> FALSE, grace |-> 0, ipc |-> "",
     pid |-> "", cgroup |-> "", pull |-> "", restart |-> "unless-stopped",
     retries |-> 0, profile |-> "values", capDrop |-> TRUE]
FreshDevices ==
    IF values.gpu \in {"dri", "kfd"}
    THEN {Device(path, path) : path \in {"/dev/dri"} \cup
              (IF values.gpu = "kfd" THEN {"/dev/kfd"} ELSE {})}
    ELSE {}
FreshVars ==
    (IF values.skipGeneric THEN {}
     ELSE {Variable("TZ", "auto", "TZ")} \cup
          (IF values.runAs # 0 THEN {Variable("PUID", "auto", "runAs")} ELSE {})) \cup
    (IF values.gpu = "nvidia"
     THEN {Variable("NVIDIA_VISIBLE_DEVICES", "auto", "uuids"),
           Variable("NVIDIA_DRIVER_CAPABILITIES", "auto", "all")}
     ELSE {Variable("NVIDIA_VISIBLE_DEVICES", "auto", "void")})
FreshHealth == [test |-> FALSE, port |-> "none", disabled |-> FALSE, builtIn |-> FALSE]
LabelsOf(c) == {l \in values.labels : c \in l.on}
FreshEntries(c) ==
    {Entry("security_opt", "no-new-privileges", "true")} \cup
    {Entry("label", l.key, "values") : l \in LabelsOf(c)} \cup
    values.dns

ReservedLabel == {"", "com.docker.compose"}

\* The constructor fails on what the values say wrong of a new container.
FreshValid(c) ==
    /\ values.gpu # "no_uuid"
    /\ \A l \in values.labels : l.on # {}
    /\ \A l \in LabelsOf(c) :
           l.key \notin ReservedLabel /\ \A k \in LabelsOf(c) : k.key = l.key => k = l
    /\ \A o, p \in values.dns : o.reg = p.reg /\ o.key = p.key => o = p

ServiceInit ==
    /\ settings = [c \in Container |-> FreshSettings]
    /\ groups = [c \in Container |-> {}]
    /\ devices = [c \in Container |-> {}]
    /\ reserved = [c \in Container |-> FALSE]
    /\ vars = [c \in Container |-> {}]
    /\ health = [c \in Container |-> FreshHealth]
    /\ depends = [c \in Container |-> {}]
    /\ entries = [c \in Container |-> {}]

-----------------------------------------------------------------------------
\* "none" removes the limits.
ValidSetting(s) ==
    CASE s.field \in {"grace", "user"} -> s.value >= 0
      [] s.field = "ipc" -> s.value \in {"", "host", "private", "shareable", "none"} \cup names
      [] s.field = "pid" -> s.value \in {"", "host"} \cup names
      [] s.field = "cgroup" -> s.value \in {"host", "private"}
      [] s.field = "pull" -> s.value \in {"missing", "always", "never", "build"}
      [] s.field = "profile" -> s.value \in {"low", "medium", "none"}
      [] s.field = "restart" ->
            /\ s.value \in {"always", "on-failure", "unless-stopped", "no"}
            /\ s.retries = 0 \/ (s.retries > 0 /\ s.value = "on-failure")
      [] OTHER -> TRUE

Applied(old, s) ==
    LET new == [old EXCEPT ![s.field] = s.value]
    IN  IF s.field = "restart" THEN [new EXCEPT !.retries = s.retries] ELSE new

Set(c, s) ==
    /\ CallingOn("settings", c)
    /\ \/ /\ ValidSetting(s)
          /\ settings' = [settings EXCEPT ![c] = Applied(@, s)]
          /\ Return
       \/ ~ValidSetting(s) /\ Raise /\ UNCHANGED settings
    /\ UNCHANGED <<groups, devices, reserved, vars, health, depends, entries>>

\* A number written as text is refused.
AddGroup(c, g) ==
    /\ CallingOn("devices", c)
    /\ LET good == ~g.text /\ g.id \notin groups[c]
       IN  \/ good /\ groups' = [groups EXCEPT ![c] = @ \cup {g.id}] /\ Return
           \/ ~good /\ Raise /\ UNCHANGED groups
    /\ UNCHANGED <<settings, devices, reserved, vars, health, depends, entries>>

\* Devices a template may not add by name; the library adds them itself.
Managed == {"/dev/dri", "/dev/kfd", "/dev/bus/usb", "/dev/snd", "/dev/net/tun"}

\* The path in the container is compared as it was written, a trailing slash
\* included, although the device is kept without it.
PathTaken(c, d) == \E e \in devices[c] : e.path = d.path /\ e.slash = d.slash

AddDevice(c, d) ==
    /\ CallingOn("devices", c)
    /\ LET good == ~PathTaken(c, d) /\ d.valid /\ d.host \notin Managed
           new  == [host |-> d.host, path |-> d.path, slash |-> d.slash]
       IN  \/ good /\ devices' = [devices EXCEPT ![c] = @ \cup {new}] /\ Return
           \/ ~good /\ Raise /\ UNCHANGED devices
    /\ UNCHANGED <<settings, groups, reserved, vars, health, depends, entries>>

\* The bus of USB devices and the tun device come by a call of their own.
AddManagedDevice(c, path) ==
    /\ CallingOn("devices", c)
    /\ LET new == Device(path, path)
       IN  \/ /\ ~PathTaken(c, new)
              /\ devices' = [devices EXCEPT ![c] = @ \cup {new}]
              /\ Return
           \/ PathTaken(c, new) /\ Raise /\ UNCHANGED devices
    /\ UNCHANGED <<settings, groups, reserved, vars, health, depends, entries>>

\* The sound device comes with its group.
AddSndDevice(c) ==
    /\ CallingOn("devices", c)
    /\ LET snd  == Device("/dev/snd", "/dev/snd")
           good == Audio \notin groups[c] /\ ~PathTaken(c, snd)
       IN  \/ /\ good
              /\ groups' = [groups EXCEPT ![c] = @ \cup {Audio}]
              /\ devices' = [devices EXCEPT ![c] = @ \cup {snd}]
              /\ Return
           \/ ~good /\ Raise /\ UNCHANGED <<groups, devices>>
    /\ UNCHANGED <<settings, reserved, vars, health, depends, entries>>

\* Devices and reservations go; the environment stays as it was made.
RemoveDevices(c) ==
    /\ CallingOn("devices", c)
    /\ devices' = [devices EXCEPT ![c] = {}]
    /\ reserved' = [reserved EXCEPT ![c] = FALSE]
    /\ Return
    /\ UNCHANGED <<settings, groups, vars, health, depends, entries>>

-----------------------------------------------------------------------------
\* Variables of the application and of the user are kept apart and only
\* compared with each other when the file is rendered.
AddEnv(c, origin, name) ==
    /\ CallingOn("environment", c)
    /\ LET good == name # "" /\ \A v \in vars[c] : v.origin = origin => v.name # name
       IN  \/ /\ good
              /\ vars' = [vars EXCEPT ![c] = @ \cup {Variable(name, origin, origin)}]
              /\ Return
           \/ ~good /\ Raise /\ UNCHANGED vars
    /\ UNCHANGED <<settings, groups, devices, reserved, health, depends, entries>>

RemoveAutoEnv(c, name) ==
    /\ CallingOn("environment", c)
    /\ LET auto == {v \in vars[c] : v.name = name /\ v.origin = "auto"}
       IN  \/ auto # {} /\ vars' = [vars EXCEPT ![c] = @ \ auto] /\ Return
           \/ auto = {} /\ Raise /\ UNCHANGED vars
    /\ UNCHANGED <<settings, groups, devices, reserved, health, depends, entries>>

EnvConflict(all) == \E v, w \in all : v.origin # w.origin /\ v.name = w.name

-----------------------------------------------------------------------------
SetTest(c, t) ==
    /\ CallingOn("health", c)
    /\ LET good == t.valid /\ ~health[c].disabled
       IN  \/ /\ good
              /\ health' = [health EXCEPT ![c].test = TRUE, ![c].port = t.port]
              /\ Return
           \/ ~good /\ Raise /\ UNCHANGED health
    /\ UNCHANGED <<settings, groups, devices, reserved, vars, depends, entries>>

SwitchHealth(c, how) ==
    /\ CallingOn("health", c)
    /\ health' = [health EXCEPT ![c][how] = TRUE]
    /\ Return
    /\ UNCHANGED <<settings, groups, devices, reserved, vars, depends, entries>>

DisableHealthcheck(c) == SwitchHealth(c, "disabled")
UseBuiltIn(c)         == SwitchHealth(c, "builtIn")

\* A test that was never set is only missed when the container is rendered.
HealthUnset(c) == ~health[c].builtIn /\ ~health[c].disabled /\ ~health[c].test

\* A template that is about other things, its calls made, ends with
\* use_built_in on the containers it gave no health check.
UseBuiltInElsewhere ==
    /\ phase = "building" /\ "health" \notin kinds /\ calls = MaxCalls
    /\ \E c \in names : HealthUnset(c)
    /\ health' = [c \in Container |->
                     IF c \in names /\ HealthUnset(c) THEN [health[c] EXCEPT !.builtIn = TRUE]
                     ELSE health[c]]
    /\ Return
    /\ UNCHANGED <<names, values, host, kinds, calls,
                   settings, groups, devices, reserved, vars, depends, entries>>

Condition == {"service_started", "service_healthy", "service_completed_successfully"}

AddDependency(c, on, cond) ==
    /\ CallingOn("health", c)
    /\ LET good == cond \in Condition /\ on \in names /\ \A d \in depends[c] : d.on # on
       IN  \/ /\ good
              /\ depends' = [depends EXCEPT ![c] = @ \cup {[on |-> on, cond |-> cond]}]
              /\ Return
           \/ ~good /\ Raise /\ UNCHANGED depends
    /\ UNCHANGED <<settings, groups, devices, reserved, vars, health, entries>>

-----------------------------------------------------------------------------
\* Lists whose entries have a key that may be added once.  What an entry must
\* look like to be accepted is part of its list.
AddEntry(c, reg, e, valid) ==
    /\ CallingOn("entries", c)
    /\ e.reg = reg
    /\ LET good == valid /\ ~\E f \in entries[c] : f.reg = reg /\ f.key = e.key
       IN  \/ good /\ entries' = [entries EXCEPT ![c] = @ \cup {e}] /\ Return
           \/ ~good /\ Raise /\ UNCHANGED entries
    /\ UNCHANGED <<settings, groups, devices, reserved, vars, health, depends>>

AddCap(c, e)         == AddEntry(c, "cap", e, e.val # "unknown")
AddLabel(c, e)       == AddEntry(c, "label", e, e.key \notin ReservedLabel)
AddSysctl(c, e)      == AddEntry(c, "sysctl", e, e.key # "" /\ e.val # "")
AddSecurityOpt(c, e) == AddEntry(c, "security_opt", e, e.val # "unknown")
AddExtraHost(c, e)   == AddEntry(c, "extra_host", e, e.val # "unknown")
AddDnsOpt(c, e)      == AddEntry(c, "dns_opt", e, TRUE)
AddDnsSearch(c, e)   == AddEntry(c, "dns_search", e, TRUE)
AddNameserver(c, e)  == AddEntry(c, "dns_nameserver", e, TRUE)
\* The key of a device cgroup rule is its type, major and minor.
AddCgroupRule(c, e)  == AddEntry(c, "cgroup_rule", e, e.val # "unknown")

RemoveSecurityOpt(c, key) ==
    /\ CallingOn("entries", c)
    /\ LET gone == {e \in entries[c] : e.reg = "security_opt" /\ e.key = key}
       IN  \/ gone # {} /\ entries' = [entries EXCEPT ![c] = @ \ gone] /\ Return
           \/ gone = {} /\ Raise /\ UNCHANGED entries
    /\ UNCHANGED <<settings, groups, devices, reserved, vars, health, depends>>

\* All capabilities are dropped by default; this takes back the drop as well.
ClearCaps(c) ==
    /\ CallingOn("entries", c)
    /\ entries' = [entries EXCEPT ![c] = {e \in @ : e.reg # "cap"}]
    /\ settings' = [settings EXCEPT ![c].capDrop = FALSE]
    /\ Return
    /\ UNCHANGED <<groups, devices, reserved, vars, health, depends>>

ServiceCalls ==
    \/ UseBuiltInElsewhere
    \/ \E c \in names :
        \/ \E s \in Setting : Set(c, s)
        \/ \E g \in GroupCall : AddGroup(c, g)
        \/ \E d \in DeviceCall : AddDevice(c, d)
        \/ \E path \in {"/dev/bus/usb", "/dev/net/tun"} : AddManagedDevice(c, path)
        \/ AddSndDevice(c) \/ RemoveDevices(c)
        \/ \E origin \in {"dev", "user"}, n \in VarName : AddEnv(c, origin, n)
        \/ \E n \in VarName : RemoveAutoEnv(c, n)
        \/ \E t \in HealthCall : SetTest(c, t)
        \/ DisableHealthcheck(c) \/ UseBuiltIn(c)
        \/ \E on \in Container, cond \in Condition \cup {"unknown"} : AddDependency(c, on, cond)
        \/ \E e \in EntryCall :
               \/ AddCap(c, e) \/ AddLabel(c, e) \/ AddSysctl(c, e)
               \/ AddSecurityOpt(c, e) \/ AddExtraHost(c, e) \/ AddDnsOpt(c, e)
               \/ AddDnsSearch(c, e) \/ AddNameserver(c, e) \/ AddCgroupRule(c, e)
               \/ RemoveSecurityOpt(c, e.key)
        \/ ClearCaps(c)

-----------------------------------------------------------------------------
\* A container with a GPU needs the groups that may open it; they are only
\* added when it is rendered.
HasGpu(c) == reserved[c] \/ \E d \in devices[c] : d.host = "/dev/dri"

\* Mutation: only reserved GPUs bring the groups
GroupsOfReserved(c) == IF reserved[c] THEN {Video, RenderGid} ELSE {}

GpuGroups(c) == IF HasGpu(c) THEN {Video, RenderGid} ELSE {}

NoPrivilegeGain(c) == Entry("security_opt", "no-new-privileges", "true") \in entries[c]

\* A sysctl is only looked at when the container is rendered: one of the
\* network needs a network of its own.
BadSysctl(c, hostNetwork) ==
    \E e \in entries[c] :
        e.reg = "sysctl" /\ (e.val = "unknown" \/ (hostNetwork /\ e.val = "net"))

=============================================================================
