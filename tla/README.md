# dellfanctl in TLA+

TLA+ models of `dellfanctl`, the service that drives the fans of a Dell
PowerEdge through the iDRAC, and of the library that renders its TrueNAS
application, with the TLC configurations that check them and the proofs that
TLAPS checks. Paths below are relative to the repository (`src/`); the files of
the library, in `deploy/truenas/catalog/trains/community/dellfanctl/1.0.0/templates/library/base_v2_3_4`,
go by their names.

    tlc -workers 2 -config ctl_loop.cfg MCController.tla      # one run
    tlapm ControllerProofs.tla                                # one module of proofs

## The system

| Part | Code | State | Operations |
|---|---|---|---|
| control loop | `internal/control` | per sensor: last reading, average, staleness; poll errors in a row; fallback flag, good ticks, commanded percent, hold counter | one `tick` per `poll_interval`: `poll`, `safetyTrip`, `safetyClear`, `aggregate`, `rampToward`, fan commands, snapshot |
| fan curve | `internal/curve` | none | `Interpolate` |
| BMC commands | `internal/ipmi`, `internal/execx` | none of their own; they change the BMC's mode and zone speeds | `SetManualMode`, `SetAutoMode`, `SetFanPercent`, `ListSensors`, each an `ipmitool` process of at most 10 s |
| SMART | `internal/smart` | none | scan, one reading per disk in a goroutine of its own |
| daemon and CLI | `cmd/dellfanctl` | the process: starting, looping, unwinding its deferred calls | `run`, `revert`, `set-speed`, signals; systemd restarts it on failure |
| hooks | `runHookAsync` | goroutines that run a shell command | started when the fallback engages or ends |
| configuration | `internal/model` | the YAML file | `Load`, `Validate`, `Save` |
| discovery | `internal/discover`, `internal/classify` | none; rewrites the config | `Run`, `Diff`, `Merge` |
| MQTT | `internal/mqttpub` | connection, retained topics on the broker | `Start`, `PublishDiscovery`, `PublishSnapshot`, `Close` |
| renderer: ports | `ports.py`, `portals.py`, `expose.py`, `truenas_client.py` | bindings and exposed ports of each container, portals | `add_port`, `add` of a portal, `render` |
| renderer: networks | `networks.py`, `docker_client.py` | networks of the application, joins of each container | register, create, join, `set_network_mode` |
| renderer: storage | `storage.py`, `volumes.py`, `volume_*.py`, `tmpfs.py`, `configs.py` | mounts and tmpfs of each container, volumes and configs of all | `add_storage`, `add_udev`, `add_docker_socket`, `configs.add` |
| renderer: containers | `container.py` and the files of its parts | settings, groups, devices, environment, health check, dependencies, keyed lists | the setters and adders a template calls |
| renderer: stores, permissions | `deps_*.py` | stores created, permission actions | `deps.redis` ... `deps.postgres`, `perms.add_or_skip_action`, `activate` |
| renderer: file, notes | `render.py`, `notes.py` | notes and warnings | `add_container`, `render` |
| installer, packaging, version | `install_service.go`, `install.sh`, the rest of `deploy` | files on disk | write a unit, download a release |

How they interact. `run` loads the configuration, connects to the broker and
calls `Controller.Run`. `Run` puts the BMC into manual mode, then ticks from a
single goroutine; a tick forks one goroutine per SMART disk and joins them, and
afterwards leaves a publishing goroutine and perhaps a hook behind. On a signal
the loop's `select` returns, and the deferred calls run in turn: wait for the
hooks, wait for the publishers and close the connection, hand the fans back.
The BMC is the only state shared with other processes: `revert` and `set-speed`
command it without the daemon's knowledge, and it outlives every one of them.
`discover` and the operator share the configuration file, which the daemon only
reads when it starts; the broker keeps what was published after the daemon and
its connections are gone.

The rendering library runs on its own, when TrueNAS installs or updates the
application: a template creates a renderer from what the user entered, makes a
series of calls on it and on its containers, and asks for the compose file. A
call that is refused raises an error the template cannot catch, so every
rendering ends either at its first refused call or with a file.

### What is hard, and what would make each part correct

* Control loop: long sequences of ticks. Which readings trip, which clear, and
  which do neither; what resets which counter; commands that fail, or that the
  BMC carries out although they were reported as failed. Correct: danger always
  leads to a fallback, a fallback ends only on readings that earned it, the
  loop never believes itself in charge of fans it does not control, the speed
  rises at once, falls late, moves in bounded steps and settles.
* Fan curve: duplicate temperatures and brackets. Correct: on the polyline,
  within the percents of the points, and never slower when hotter.
* Daemon: kills, signals in the middle of a command, waits before the revert,
  the operator's commands in between. Correct: a signal ends the process, a
  graceful end leaves the fans to the iDRAC, a killed daemon is replaced.
* Discovery: identities of sensors across probes in which sensors come and go
  and are numbered anew, the operator's edits in between, a crash while the
  file is rewritten. Correct: what is written loads, and keeps what was edited.
* MQTT: publishing goroutines that overtake each other, lost connections,
  messages that the client library stores and sends again in any order, the
  last will and the connect handler's "online" against the "offline" of
  `Close`. Correct: what is shown goes back at most to a tick that was not
  finished, ends with the last tick or such a one, and a daemon that is gone is
  not shown as online for ever.
* Rendering library: what a call accepts depends on all calls before it, made
  by the template, by a constructor from the user's values or by a helper;
  several tests are not symmetric, some things are only looked at when the file
  is rendered, and helpers undo part of what a constructor did. Correct:
  whatever the order, nothing conflicts, the file is closed, data belong to
  whoever uses them and the notes tell what the containers may do.

`PROJECT.json` lists the hazards at the lines where they bite.

## Modules

| Module | What it is |
|---|---|
| `FanCurve` | `Interpolate` and the curves `Validate` accepts, as operators |
| `FailSafe` | the abstract promise of the loop: who is in charge, what speed is claimed, how danger moves them |
| `Controller` | the control loop and the BMC it commands |
| `ControllerHistory` | `Controller` with a record of its inputs, to state properties over several ticks |
| `Daemon` | `Controller` inside a process that starts, is signalled, killed and restarted, next to the operator's commands |
| `Mqtt` | the publishing goroutines, the client library and the broker, over the life of several processes |
| `Discovery` | the configuration file: probes, merges, edits and crashes |
| `RenderBase` | a rendering as a series of calls, each of which returns or raises |
| `Ports`, `Networks`, `Mounts`, `Services` | one part of the rendering library each, extending `RenderBase` |
| `Renderer` | their composition: constructor, containers, helpers that touch several parts, permissions, stores, notes and the file |
| `ControllerProofs`, `HistoryProofs`, `DaemonProofs` | the theorems about `Controller` and, building on those, about the two modules that extend it |
| `CurveProofs`, `MqttProofs`, `DiscoveryProofs` | the theorems about `FanCurve`, `Mqtt` and `Discovery` |
| `RendererProofs`, `StoreProofs` | the theorems about `Renderer`: ports, networks, paths and notes; then, building on them, types, stores, GPUs and the file |
| `MCFanCurve`, `MCController`, `MCHistory`, `MCDaemon`, `MCDiscovery`, `MCRender` | instances for TLC (`Mqtt` needs none) |

### Controller

The loop is sequential: a tick returns before the next one begins, and the
goroutines of one poll are joined inside it. So a tick is one step, the
conjunction of `Poll` and of one branch of `tick`. `Poll` chooses whether
`ipmitool` answered and which sensors have a reading; the branch is chosen by
`SafetyTrip` and `SafetyClear` on the readings just polled (hence the primes):

| `tick` | action |
|---|---|
| 501-516, trips, not in fallback | `EngageFallback` |
| 501, 517, trips, in fallback | `StayTripped` |
| 540-542, in fallback, not clear | `LoseProgress` |
| 521-523, clear, not yet often enough | `CountGoodTick` |
| 524-529, often enough, command failed | `FailToResume` |
| 524-538, often enough, command worked | `ResumeManual` |
| 565-568, no group has a value | `HoldSpeed` |
| 546-582, otherwise | `Regulate` |

`seen` stands for `haveRaw` and `emaInit`, which are set together. The other
variables carry the names of the code. `bmcMode` and `zonePct` are the BMC.

Abstractions:

* Numbers are integers; `Unit` model units are one percent of fan speed, so
  that a run may have half-percent steps. Interpolation and averages round
  down where the code keeps a `float64`.
* The moving average is any integer strictly nearer to the new reading than
  the old average was: what every weight in (0, 1] does, on the model's grid.
* Counters are only compared with a limit, and stop one past the last value
  that makes a difference (`Bump`).
* The members of a group are a set: a sensor listed twice in a group would
  count twice in the code's average.
* A command is done, lost before the BMC carried it out, or late: carried out
  and reported as failed (the 10 s limit, or the signal that cancels its
  context). A dry run skips it.
* While the iDRAC drives the fans a speed command has no effect, and a zone's
  speed is `Unset`; switching to manual sets no speed by itself.
* Log messages, the reason texts and the snapshot are left out.

### Daemon

`phase` is the control point of `Run`: entering (`enterManual`), announcing
(`PublishDiscovery`), looping, then the deferred calls draining (hooks),
closing (publishers and `Close`), reverting. `LoopTick` is a tick of
`Controller`, and starts a hook when the fallback engages or ends. `HookEnds`
is the end of a hook's shell, by itself or at `hookTimeout`; `held` counts the
hooks whose output something they started still holds open, which is what
`CombinedOutput` waits for. `Kill` is SIGKILL, a panic or a power failure,
`Start` the service manager's start or restart (`Restart=on-failure`), and
`due` whether it wants the process. `meddled` is a record for the properties:
the operator has changed the BMC's mode since the daemon last did.

The publishers never delay a tick and their waits are bounded, so here they are
only the phase closing. `--once` and a config that fails to load are not
modelled.

### Mqtt

| Code | Action |
|---|---|
| `mqttpub.go` 120-170, `Start` | `Start`; the client library's `Connect`, the handler's `OnConnect` |
| `control.go` 99, `PublishDiscovery` | `PublishDiscovery` |
| `control.go` 387-443, `buildSnapshot`, `publishAsync` | `Tick` takes the snapshot and leaves a publisher behind |
| `mqttpub.go` 434-483, one call of `publishRetained` after the other | `PublishNext` |
| `waitAll` | `PublishReturns`: everything acknowledged, or 3 s gone (so at any time after the last message) |
| `control.go` 101-108, `Close` | `Stop`, `Close`, `Disconnect` |
| a kill, or `Run` returning early | `Die` |

The ticks are those of `Controller` as far as the snapshot tells them apart
(`TickOutcome`): in a fallback, regulated, or held. Values are the number of the
tick they tell of, so that what is shown can be put in order. Of the many topics
there are three: one every tick publishes, `fan_percent`, which a tick without a
known percent leaves out, and discovery as a whole.

The client library and the broker are marked external and follow from how `Start`
sets the library up: it retries and reconnects, and is left with clean sessions
and the memory store.

| What happens | Action |
|---|---|
| a message is published | `Queue`: at quality 1 it is stored until it is acknowledged; at 0 it is dropped if there is no connection |
| a connection opens | `Connect`: the first one of a process empties the store, every later one has all of it sent again; the broker ends the session it still holds and publishes its will |
| a stored message is sent again | `Resend`, one at a time, in any order, between whatever is published meanwhile |
| a connection breaks | `Break`: the broker may still receive what is on its way, but no acknowledgement comes back; `Lose`: the client notices, and what is on its way is gone |
| the broker receives a packet | `Deliver`: shown, and acknowledged if the connection is whole |
| the broker misses the client | `Will` |

So a message may be shown, shown again later, or, published before the first
connection, never be shown at all. A connection opens and its store is emptied
or taken for sending again in one step; the library does the one shortly after
the other. Quality 2, which the configuration does not exclude, is not modelled.

### Discovery

`Discover` is `discover` up to the moment it writes, with `--force` and
`--force-reset` chosen freely; `Write` and `CrashInWrite` are how `Save` ends. A
probe is a sequence of rows, some without a reading: the occurrence in a
sensor's identity counts all of them (`Key`), its identifier only those kept
(`UniqueId`), as in the code; `InOrder` lists the indices that a loop with a
condition goes through. A group goes by the class of its sensors, and the five
classes that have one are those of `buildGroups`, in its order. The temperature
limits of a sensor (`limits`), a fan's minimum speed (`minRPM`) and curves are
"default" or "tuned"; of a sensor found again `MergedSensor` keeps the limits and
the switch, as the code does, and not the minimum speed. What a crash leaves of the file is a prefix of
it that may parse or not. The MQTT settings, which `Merge` copies as they are,
are left out, and so are occurrences an operator might write by hand.

### Renderer

Each call a template may make is an action, with the code's tests in the order
in which they matter and two outcomes, `Return` and `Raise`; an error leaves
the variables as they were, since nobody sees the renderer afterwards. `Start`
is `Render.__init__`. `AddContainer` gives a container all that its constructor
takes from the values (`Fresh`), and the stores, the permissions helper and the
postgres upgrade are containers that differ from a fresh one in what their
constructors do next (`StoreContainer`, `PermsContainer`, `Upgrader`).
`RenderFile` is `Render.render`: notes first (`Scan`), then each container's
`render` with the conditions that only it looks at (`Renderable`), then the
file (`File`, an operator, since nothing changes afterwards).

Abstractions:

* Names, paths and images are values to be compared. An address is the text it
  was given as, which is what `ports.py` compares, and `Parse` says which
  address a text stands for: the code asks `ipaddress` for the family only,
  Docker listens on the address. Malformed input is a flag of the call.
* The notes know a host path from a list (`HostFiles`) or by how it begins
  (`SystemPath`); a device they do not know gets an empty name (`Pretty`), a
  bind mount they do not know is not told.
* The source of a volume is tagged with what made it; the hash that names an
  nfs or cifs volume is the configuration itself.
* The lists whose entries have a key (`labels`, `sysctls`, `caps`, `dns`, hosts,
  security options, cgroup rules) are one set of entries tagged with their
  list; what a valid entry is belongs to the list's action.
* Scalar settings no rule depends on (command, host name, ...), the text of
  health tests, connection URLs and the options inside one mount are left out.
* The class of a user or group id is its number; text is never put together,
  except for the identifier and mount path of a permission action, whose
  being different matters.
* `UseBuiltInElsewhere` is a closing call of a template that is about something
  else than health checks: without one no container could be rendered.

## Runs

| Run | States | Shows |
|---|---|---|
| `ctl_loop` | 1 790 | reliable commands, two groups, two zones, half-percent steps: `IInv`, the inductive invariant; `ZonesFollowCommanded`, `RisesAtOnce`, `Settles`; and the refinement of `FailSafe` with its liveness (`FailsSafeAndRecovers`) |
| `ctl_faults` | 16 101 | every command may be lost or late: `InChargeOnlyInManual`, `NeverBlindForLong`, `ResumeWasEarned`, `FallWasHeld`, and the refinement of `FailSafe`'s safety |
| `fan_curve` | 1 998 | every curve of up to 3 points, at every temperature around it: `OnThePolyline`, `WithinTheCurve`, `HotterNeverSlower` |
| `daemon` | 63 536 | starts, signals, kills, hooks, failing commands and the operator in every order: `ChargeUnlessMeddled`, `GracefulExitHandsBack`, `SignalEndsProcess`, `ReplacedAfterKill` |
| `render` | 140 480 | templates of two containers, a store and the helper, every pair of calls of a family: `PortsApart`, `BindsWhatWasAsked`, `JoinsApart`, `TargetsDistinct`, `FileIsClosed`, `GpusWhereTheyBelong`, `StoreOwnsItsData`, `ActionsSeeTheirData`, `UpgradeFirst`, `NotesTellTheRisks` |
| `mqtt` | 397 861 | publishers, handlers, breaks, messages sent again, kills and shutdown at qualities 0 and 1: `BackOnlyToUnfinished`, `NothingCutOff`, `OfflineInTheEnd`, `KeptDiscoveryArrives` |
| `discovery` | 332 082 | hardware that comes and goes, edits and crashes between probes: `OnlyCarriedGroupsBreakTheFile`, `EditsSurvive`, `RequiredIsCurrent` |
| `ctl_consecutive` | violation | the good ticks that end a fallback need not be consecutive |
| `daemon_stop` | violation | stopped during its first command, the daemon leaves manual mode behind |
| `daemon_hooks` | violation | a hook that leaves a process running holds up the shutdown |
| `mqtt_stale` | violation | the fan percent of before a fallback stays retained during it |
| `discovery_min` | violation | `discover --force` resets the minimum speed of a fan found again |

Bounds. The instance of `ctl_faults` has a required CPU sensor with readings
clear, wary and critical, and a fan that is watched but not required; all limits
are 2 (errors in a row, good ticks, hold), the least at which "in a row" differs
from "once". Its percents span 2 to 5, so that a fall needs several steps and a
rise is clipped by the step limit. It has one zone: none of its properties is about
zones, and how far a failing command got with several does not affect the loop.
The instance of `ctl_loop` has a CPU sensor
with a critical temperature, a disk that two groups share, a disabled sensor and
a disabled group, steps of half a percent, and a range wide enough for several
limited steps both ways; the hold and the good ticks are 2. The daemon instance has one sensor, cool or
critical, since the loop's own behaviour is checked elsewhere, and limits of
1. `MaxHooks` = 2 is the only bound in a guard: a tick that would start a third
unfinished hook does not happen. `SetSpeeds` holds one valid percent and one
that `SetFanPercent` refuses after manual mode was taken.

`mqtt` has two ticks in all (`MaxTicks`), enough for one publisher to overtake
another, one restart or lost connection (`MaxOutages`), and one packet on its
way at a time (`MaxWire`; whoever has another to send waits), besides
DISCONNECT: packets reach the broker in the order in which they are put on the
wire, and that order is free whatever fits there. A connection that breaks then
loses one packet, and `mqtt_stale` has two. The proofs are about any number. `discovery` has two
processors whose sensors have one name, two disks, a fan and an inlet, of which
one processor and both disks come and go, a probe in which two classes are gone
and one without any reading; two edits (`MaxEdits`), so that one group can be
added and one thing tuned; the number of probes and crashes is not bounded.

`render` explores one family of calls at a time (`TemplateKinds`), and in pairs
those whose calls meet: permissions with stores, settings with networks, notes
with health. A template makes two calls (`MaxCalls`) besides adding containers
and stores and activating permissions, in every order: each test of the library
compares a call with one earlier call or with what the constructor did, and two
calls are what it takes to violate each of the properties when the test is
broken (the mutants). The arguments are chosen so that each call is accepted
and refused, and conflicts with another through each of its tests: both
wildcards, one wildcard and a specific address of the same family, an IPv6
address and the wildcard each in a second spelling, the same port with another
target; a volume named like a host path that is mounted too; devices with and
without a name in the notes; the values hold a GPU of each kind, a network with
an alias, labels and a DNS option that collide with a template's.

Fairness. `Controller`: the ticker fires for as long as the daemon runs
(`WF(Next)`); what the sensors report and which commands fail is left to the
environment, so recovery is stated for runs without faults in which the
readings stay clear. `Daemon`: the process is scheduled; `PublishDiscovery`,
the publishers, `Close`, the commands and a hook's shell are each bounded by a
timeout in the code; systemd restarts what failed after `RestartSec`; and Go's
`select` chooses at random among the ready channels, so a signal is not passed
over for ever. Nothing is assumed of signals, kills, the operator, or of what a
hook leaves running. `ReplacedAfterKill` names as its premise that the kills,
the signals and the failures of the first command stop. `Mqtt`: what the
process, its publishers, the client and the broker have to do goes on
(`WF(GoesOn)`, one condition for all of it together, which asks less than one
for each goroutine): goroutines are scheduled, the waits of the code are bounded,
the client keeps trying to connect and notices with its keep-alive that a
connection is broken. Nothing is assumed of ticks, signals, breaks and starts.
`Discovery` and `Renderer` promise nothing that must eventually happen.

### What the violations show

* `ctl_consecutive`. `README.md` and `config.go` speak of consecutive good
  ticks. A tick that trips while in fallback returns at `control.go:517` and
  keeps `goodTicks`; only a tick that is neither tripped nor clear resets it.
  What does hold is `ResumeWasEarned`: enough clear ticks with no such tick
  between them, and fresh readings of every required sensor on the last.
* `daemon_stop`. `revertOnExit` is deferred only after `enterManual` has
  succeeded; if the signal or the timeout cuts `ipmitool` off after the BMC
  obeyed, `Run` returns without reverting.
* `daemon_hooks`. `exec.CommandContext` kills the shell at `hookTimeout`, but
  with no `WaitDelay` `CombinedOutput` waits for everything that inherited the
  hook's output. `SignalEndsProcess` is what holds instead.
* `mqtt_stale`. `fanPctForPublish` reports no percent during a fallback so that
  MQTT never shows "a stale manual fan percent" (`control.go:373-375`; the
  README says the same of `summary/fan_percent`). `PublishSnapshot` leaves the
  topic out, but its last value was published retained, and nothing clears it:
  the broker shows it throughout the fallback.
* `discovery_min`. The README says that `--force` refreshes "only the
  hardware-derived facts" (215-217). `Merge` copies `warn_c`, `crit_c` and
  `disabled` of a sensor found again (`discover.go:344-346`); the `min_rpm` an
  operator gave a fan is back at the default. What does hold is `EditsSurvive`.

Seen while modelling, not checked by a run: a failed `SetAutoMode` is logged
and not tried again for the rest of the fallback, in which the fans may then stay
at the last manual speed; `aggregate` uses the last average of a sensor that
no longer reports, where the log speaks of readings of this tick; changes below
`min_change_pct` are not sent but count as commanded, so the two may drift
apart; sensors that are not required trip the fallback too, on an old reading
if need be, although the comment on `safetyTrip` names required ones; and
`revert` or `set-speed` next to a running daemon go unnoticed by it.

In discovery: a group only the old file has is carried over although its
sensors may be gone, and the file then does not load
(`OnlyCarriedGroupsBreakTheFile` says that nothing else does this);
`discover --force` sets `safety`, `ramp` and `smoothing` to defaults as well,
although the README speaks of hardware-derived facts only.

In MQTT: discovery messages published before the first connection never arrive,
dropped at quality of service 0 and discarded from the client library's store
when that connection opens at 1; nothing publishes them again before the next
start. `KeptDiscoveryArrives` says what becomes of later ones.

In the rendering library: `add_device` compares the path in the container as
written but keeps it without a trailing slash, so that one path can be given
twice; the health tests of redis, mariadb and mongodb probe the default port
whatever port is configured; `NVIDIA_VISIBLE_DEVICES` stays in the environment
of a container whose devices were removed; actions registered after `activate`
are lost without an error. Three gaps are stated as exceptions by the property
they limit, which shows that there are no others:

* `PortsApart`: a wildcard is accepted after one of its addresses that leads to
  another target (`OtherTarget`; the other way round it is refused), and an IPv6
  address or wildcard in a second spelling is taken for another (`Respelled`).
* `FileIsClosed`: a volume named like a host path that was mounted before is
  not declared in the file.
* `NotesTellTheRisks`: not told are host network mode, the groups that rendering
  adds for a GPU afterwards, and host paths the notes have no name for, of which
  a device is told with an empty name (`Unsaid`).

## Proofs

Every safety property that a run checks, invariants and action properties
alike, is proved for every value of the constants that meets the assumptions
named at the end of this chapter. No proof uses the bounds of a run: `MaxTicks`,
`MaxCalls` and the like may be anything.

### The control loop (`ControllerProofs`)

| Theorem | Statement |
|---|---|
| `TypeCorrect` | `Spec => []TypeOK`: among others, the commanded speed is unset or in `min_fan_pct .. max_fan_pct`, and no zone is set outside 0 to 100 |
| `Invariance` | `Spec => []IInv` |
| `ChargeIsReal` | `Spec => []InChargeOnlyInManual`, with lost and late commands |
| `ZonesAreCommanded` | `Spec => []ZonesFollowCommanded`, whose premise is that commands do not fail |
| `LoopFailsSafe` | `Spec => FailsSafe`: the loop implements the safety of `FailSafe` |
| `LoopRisesAtOnce` | `Spec => RisesAtOnce` |

None of the properties is inductive alone: that the BMC is in manual mode when
the loop is in charge needs that only `EngageFallback` sends "auto"; that the
zones have the commanded speed needs in addition that the speed is unset
throughout a fallback (`NoSpeedInFallback`), so that the first tick after it
sends a speed whatever it is, and that a dry run leaves the BMC alone. `IInv`
is their conjunction with `TypeOK`. Each conjunct has a lemma that goes through
the actions which may disturb it, and `NextIInv` puts them together. The
refinement needs `IInv` for its `Drive` step (a claimed speed is within the
range, and a ramp step moves it by at most one step, `RampTowardBounded`) and
for `Wait` (no speed in a fallback).

### The loop over several ticks (`HistoryProofs`)

| Theorem | Statement |
|---|---|
| `LoopIsNeverBlind` | `HSpec => []NeverBlindForLong` |
| `ResumingIsEarned` | `HSpec => ResumeWasEarned` |
| `FallingIsHeld` | `HSpec => FallWasHeld` |

The record is kept from the inputs alone, so the invariant `HInv` has to say
how the loop's counters relate to it. Errors in a row and the staleness of a
required sensor are the record (`BlindIsCounted`, `MissedIsCounted`). The other
two counters survive ticks at which the record starts anew or goes on without
them, so there is an inequality only, and only where the counter is in use:
`goodTicks <= clearTicks` during a fallback, `belowHold <= lowAsks` in charge.
A tick without any demand keeps `belowHold` and does not count as one that
asked for less; it comes only before any sensor of a group has reported, hence
while the hold counter is zero (`HoldNeedsDemand`).

### The daemon (`DaemonProofs`)

| Theorem | Statement |
|---|---|
| `DaemonTypeCorrect` | `DSpec => []DTypeOK` |
| `DaemonChargeIsReal` | `DSpec => []ChargeUnlessMeddled` |
| `HandedBack` | `DSpec => []GracefulExitHandsBack` |
| `DaemonFailsSafe` | `DSpec => EveryLifeFailsSafe`: a start meets the initial condition of `FailSafe`, and every other step of the process, the host and the operator is a step of it or leaves its variables alone |

A tick is a step of `Controller`, so its lemmas carry over: that the types hold
(`LoopTypesKept`) and which ticks change the BMC's mode. What remains is who
else does: the operator, whom the properties name, and a process that starts,
which finds the BMC as the last one left it. The types need that hooks are
counted once whether their shell is running or not (`HooksBounded`), since
`DrainHooks` waits for all of them together. `DaemonFailsSafe` lifts the
refinement: `LoopFailsSafe` speaks of a loop that starts once, this of every
life of it.

### The fan curve (`CurveProofs`)

| Theorem | Statement |
|---|---|
| `InterpolatesThePolyline` | `CSpec => []OnThePolyline` |
| `NeverBeyondTheCurve` | `CSpec => []WithinTheCurve` |
| `HotterIsNeverSlower` | `CSpec => HotterNeverSlower` |

Every curve `Validate` accepts, of any length, with temperatures and percents
of any size. That a sorted curve has its points in order wherever they are
takes an induction over the length of the curve in disguise: a pair out of
order with the least distance would be two neighbours (`NeighboursInOrder`).
`WhatItReturns` then says in which two points a temperature lies, duplicate
ones included, and the rest is about `Between` alone: that it rounds down
(`Division`), stays between its ends and does not fall.

### MQTT (`MqttProofs`)

| Theorem | Statement |
|---|---|
| `MqttTypeCorrect` | `MSpec => []MTypeOK` |
| `ShownGoesBackOnlyToUnfinished` | `MSpec => BackOnlyToUnfinished` |
| `NothingIsCutOff` | `MSpec => []NothingCutOff` |

What the broker shows next is on the wire, in the store, from where it may be
sent again, or still with a publisher. Tick k may come after a later tick a only
if k was not finished when a took its snapshot (`Excused`): its publisher was
running, or a message of it was stored. `OrderInv` says so of each of these
places against what is shown: of what is still to be handed over
(`PendingExcused`), of what is stored (`StoreExcused`), of any two packets of a
topic on the wire (`WireExcused`), and of a packet and what is shown
(`ShownExcused`). A message moves from the first to the second and third, may
come back from the second to the third, and ends in the last; a tick that is
taken meanwhile is excused for all of them, since it counts both publishers and
store. For `NothingCutOff` it takes that nothing is lost on the way
(`NoneLost`): unless a packet was dropped, each topic of the last snapshot waits
in its publisher (`Awaited`), or was handed over and followed only by values not
finished then (`Handed`), or is in the store, with only such values on the wire
(`Kept`). With what may be on the wire and in the store at all, that DISCONNECT
comes last and that publishers return with nothing left (`WireInv`), this is
`MInv`.

### Discovery (`DiscoveryProofs`)

| Theorem | Statement |
|---|---|
| `DiscoveryTypeCorrect` | `DSpec => []DiscTypeOK`: identifiers and group names of a complete file are apart |
| `DiscoveredFilesLoad` | `DSpec => []OnlyCarriedGroupsBreakTheFile` |
| `EditsAlwaysSurvive` | `DSpec => []EditsSurvive` |
| `RequiredStaysCurrent` | `DSpec => []RequiredIsCurrent` |

`InOrderIsABijection` and the lemmas on ranks say that numbering rows, by
identifier or by occurrence, gives different numbers. From them: what a probe
builds is `Complete` (identifiers, keys and group names apart, no enabled group
empty, and one that names a sensor which is gone has none of its own class
left, as only a carried group can), and so is what `Merge` makes of it and the
old file. The invariant `DiscInv` adds what an edit may
do, that a crash leaves something that can be merged (`Stored`), that an
untouched file and what is about to be written have their required sensors
marked (`Current`), and, while a merge is about to be written, that it has the
settings of the old file.

### The rendering library (`RendererProofs`, `StoreProofs`)

For every set of calls, every number of them in any order, every input of the
user and every host:

| Theorem | Statement |
|---|---|
| `PortsStayApart` | `RSpec => []PortsApart` |
| `FileBindsWhatWasAsked` | `RSpec => []BindsWhatWasAsked` |
| `JoinsStayApart` | `RSpec => []JoinsApart` |
| `TargetsStayDistinct` | `RSpec => []TargetsDistinct` |
| `NotesAlwaysTellTheRisks` | `RSpec => []NotesTellTheRisks` |
| `RendererTypeCorrect` | `RSpec => []RTypeOK` |
| `FileStaysClosed` | `RSpec => []FileIsClosed` |
| `UpgradeAlwaysFirst` | `RSpec => []UpgradeFirst` |
| `ActionsAlwaysSeeTheirData` | `RSpec => []ActionsSeeTheirData` |
| `StoresOwnTheirData` | `RSpec => []StoreOwnsItsData` |
| `GpusStayWhereTheyBelong` | `RSpec => []GpusWhereTheyBelong` |

Lemmas first say which steps touch which variables, so that each theorem looks
at those few. `AcceptedIsApart` is the heart of the first: what `Conflicts`
lets in overlaps no earlier binding, in either order, but in the two ways that
`PortsApart` names; the new bindings of one call are apart from each
other because each was tested against those before it. `BindsWhatWasAsked`
needs only that bindings are well-formed (`PortsInv`). `JoinsApart` is not
inductive: a new container joins the networks of the values without asking
whether they are declared, which holds because they are registered when the
rendering starts, before anybody joins anything (`NetworksInv`). For
`TargetsDistinct` every step that places containers is shown to place ones
whose own paths are distinct (`Welcome`); for the permissions helper that needs
in turn that the identifiers of the actions are (`IdsInv`). `NotesTellTheRisks`
holds because what the notes tell is not changed by rendering, but for the
groups that `Unsaid` lists, and because no step leads on from a rendered file (`StepsOfARendering`).

The six of `StoreProofs` relate what one call did to what may come after it.
`WhatAStepDoes` sorts the steps into those that change containers that are
there, and how (`Calls`), and those that place new ones, and which
(`Creating`); each conjunct of the invariant then has one lemma over these two
instead of one over every call. The conjuncts: containers are told apart, no
two stores share one, and the one that sets permissions is nobody else's
(`NamesInv`); what is not there has nothing (`DomainsInv`); the list of actions
in the config is that of the mounts (`ActionsInv`); a store's data have an
action, or the user wants none (`OwnInv`); an upgrade differs from its store in
what its constructor sets (`UpgradeInv`); the library's own containers pass no
GPU, and one that does has the groups once rendered (`HelpersInv`, `GpuOpens`);
a source that is mounted is defined or bound by whoever used it first
(`VolumesInv`) and whoever is named is there (`RefsInv`), which give the closed file; and the types (`TypesInv`).

### Assumptions

Of the code's configuration: what `Config.Validate` enforces (a non-empty list
of zones, positive steps, `min < max`, sorted curves of enabled groups), the
shapes of the configuration, and four that it does not: a non-negative
hysteresis, `max_consecutive_errors` and `recover_good_ticks` of at least 1,
non-negative `min_fan_pct`, `min_change_pct` and hold. `max_fan_pct` may exceed
100, as in the code. Of the daemon: `revert_on_exit` is a Boolean, the
operator's speeds are integers, and there may be a hook (`DaemonAssumption`).
Of a probe: its rows have the fields of a row, and `smartctl --scan` lists a
disk once (`ProbeAssumption`); `ipmitool` may list as many sensors of one name
as it likes. Of curves: their numbers are integers (`CurveAssumption`).

Of MQTT: the quality of service is 0 or 1 (`QosAssumption`; the code takes any).

Of a rendering: the texts that the calls may give as addresses include the two
wildcards, `Parse` gives each one's address, and an IPv4 address has one spelling
(`PortAssumption`; so it is with Python's `ipaddress`); network names are strings (`NetAssumption`); configs of the
template are text (`ConfigAssumption` of `Mounts`); the containers a template
or the library may name are in `Container`, the name of the permissions
container is not one the template uses, and an upgrade is not named like its
store (`NameAssumption`; the library appends a suffix); and different identifiers
give different mount paths (`PathAssumption`; the path is a fixed text followed
by the identifier, which the provers cannot look into).

### Only model-checked

Liveness under fairness, which the provers cannot reach together with
`ENABLED`: `Settles`, the recovery in `FailsSafeAndRecovers` (its safety is
`LoopFailsSafe`), `SignalEndsProcess`, `ReplacedAfterKill`, `OfflineInTheEnd`
and `KeptDiscoveryArrives`; and what the violations show.

## Not modelled

`classify` (a table of name patterns), parsing of the output of `ipmitool` and
`smartctl`, `version`, the installer's file writing and downloads, `Diff`
(writes nothing), and the interleavings inside one poll. Of the rendering
library `functions.py` and `formatter.py` (string helpers without state), the
connection URLs, the tag patterns of postgres images, the text of health tests
and notes, and the options inside one mount; of `deploy/` otherwise the
template and compose files, which hold no logic of their own.

## Plan

Done: the control loop, the fan curve, the daemon, MQTT, discovery and the
rendering library, and proofs of all their safety properties. Left:

1. `Shutdown`: the deferred calls with the durations of the code (hooks 10 s,
   publishers 3 s, close 2 s, revert 10 s) against the unit's
   `TimeoutStopSec=15`: which shutdowns reach the revert.
2. `PollFanOut`: the goroutines of one poll under their mutex, shown to
   implement the atomic `Poll` of `Controller`.
3. Abstract specifications of the broker's view and of the configuration file,
   which `Mqtt` and `Discovery` could be shown to implement.
