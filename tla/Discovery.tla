------------------------------ MODULE Discovery ------------------------------
(* The configuration file over the years: discover probes the machine and   *)
(* writes it, with --force it merges what the operator tuned into what it   *)
(* found, and a crash may cut the writing short.  Limits (warn_c and        *)
(* crit_c), minimum fan speeds (min_rpm) and curves are "default" or        *)
(* "tuned".  A probe is a sequence of rows: the base of one is what the     *)
(* identifier of its sensor is made from.  Groups go by the class of their  *)
(* sensors.                                                                 *)
EXTENDS Naturals, Sequences, FiniteSets, FiniteSetsExt

CONSTANTS
    Probe,       \* what a probe of the machine may find
    CustomIds,   \* identifiers an operator may put in a group of his own
    MaxEdits     \* bound on the operator's edits

Class == {"cpu", "disk", "board", "inlet", "exhaust", "memory", "psu", "fan", "other"}
Id    == STRING \X Nat
Row   == [source : {"ipmi", "smart"}, name : STRING, base : STRING, class : Class,
          reading : BOOLEAN]

\* smartctl --scan lists a disk once, by its device and the type to address it with.
ASSUME ProbeAssumption ==
    /\ Probe \subseteq Seq(Row)
    /\ \A rows \in Probe : \A i, j \in DOMAIN rows :
          rows[i].source = "smart" /\ rows[j].source = "smart" /\ rows[i].name = rows[j].name
              => i = j
    /\ CustomIds \subseteq SUBSET Id

VARIABLES
    file,     \* the file: [there, whole, parses, cfg]
    pending,  \* what a discover is about to write: [mode, old, cfg]
    edits,    \* edits made
    touched   \* history: edited since discover wrote it

dvars == <<file, pending, edits, touched>>

Grouped == <<"cpu", "disk", "board", "inlet", "exhaust">>  \* classes with a group, in this order
Ambient == {"inlet", "exhaust"}                            \* whose groups are not enabled
Empty   == [sensors |-> <<>>, groups |-> <<>>]
Nothing == [mode |-> "none", old |-> Empty, cfg |-> Empty]

Sensor == [id : Id, key : [source : {"ipmi", "smart"}, name : STRING, occ : Nat], class : Class,
           limits : {"default", "tuned"}, minRPM : {"default", "tuned"},
           disabled : BOOLEAN, required : BOOLEAN]
Group  == [name : Class \cup {"custom"}, ids : SUBSET Id, enabled : BOOLEAN,
           curve : {"default", "tuned"}]
Config == [sensors : Seq(Sensor), groups : Seq(Group)]

Ids(cfg)  == {cfg.sensors[i].id : i \in DOMAIN cfg.sensors}
Names(cfg) == {cfg.groups[i].name : i \in DOMAIN cfg.groups}

\* The indices of I in ascending order
InOrder(I) == [n \in 1..Cardinality(I) |->
                  CHOOSE i \in I : Cardinality({j \in I : j <= i}) = n]

-----------------------------------------------------------------------------
\* Occurrences are counted over all rows, those without a reading included.
Key(rows, i) ==
    [source |-> rows[i].source, name |-> rows[i].name,
     occ |-> IF rows[i].source = "smart" THEN 0
             ELSE Cardinality({j \in 1..i : rows[j].source = "ipmi" /\ rows[j].name = rows[i].name})]

\* Mutation: identifiers may collide
BaseOnly(rows, kept, i) == <<rows[i].base, 1>>

\* Identifiers are numbered among the rows that are kept.
UniqueId(rows, kept, i) ==
    <<rows[i].base, Cardinality({j \in kept : j <= i /\ rows[j].base = rows[i].base})>>

BuildGroups(sensors) ==
    LET ids(class) == {sensors[i].id : i \in {j \in DOMAIN sensors : sensors[j].class = class}}
        found == InOrder({k \in DOMAIN Grouped : ids(Grouped[k]) # {}})
        group(class) == [name |-> class, ids |-> ids(class), enabled |-> class \notin Ambient,
                         curve |-> "default"]
    IN  [n \in DOMAIN found |-> group(Grouped[found[n]])]

\* Required are the sensors of enabled groups and the fans, and no other.
Required(cfg, s) ==
    \/ s.class = "fan"
    \/ \E i \in DOMAIN cfg.groups : cfg.groups[i].enabled /\ s.id \in cfg.groups[i].ids

MarkRequired(cfg) ==
    [cfg EXCEPT !.sensors =
        [i \in DOMAIN cfg.sensors |->
            [cfg.sensors[i] EXCEPT !.required = Required(cfg, cfg.sensors[i])]]]

Run(rows) ==
    LET kept == {i \in DOMAIN rows : rows[i].reading}
        sensor(i) == [id |-> UniqueId(rows, kept, i), key |-> Key(rows, i),
                      class |-> rows[i].class, limits |-> "default", minRPM |-> "default",
                      disabled |-> FALSE, required |-> FALSE]
        sensors == [n \in DOMAIN InOrder(kept) |-> sensor(InOrder(kept)[n])]
    IN  MarkRequired([sensors |-> sensors, groups |-> BuildGroups(sensors)])

\* Validate, as far as discover could write something it refuses.
Valid(cfg) ==
    /\ \A i, j \in DOMAIN cfg.sensors : cfg.sensors[i].id = cfg.sensors[j].id => i = j
    /\ \A i, j \in DOMAIN cfg.groups : cfg.groups[i].name = cfg.groups[j].name => i = j
    /\ \A i \in DOMAIN cfg.groups :
          cfg.groups[i].enabled => cfg.groups[i].ids # {} /\ cfg.groups[i].ids \subseteq Ids(cfg)

-----------------------------------------------------------------------------
\* A group found again keeps its curve and switch, but not its members.
MergedGroup(old, g) ==
    LET same == {i \in DOMAIN old.groups : old.groups[i].name = g.name}
        o == old.groups[Max(same)]
    IN  IF same = {} THEN g ELSE [g EXCEPT !.enabled = o.enabled, !.curve = o.curve]

\* Mutation: sensors are matched by their identifiers
MergedById(old, s) ==
    LET same == {i \in DOMAIN old.sensors : old.sensors[i].id = s.id}
        o == old.sensors[Max(same)]
    IN  IF same = {} THEN s ELSE [s EXCEPT !.limits = o.limits, !.disabled = o.disabled]

\* A sensor found again, known by its key, keeps its limits and switch.  Its
\* minimum speed is the one derived from this probe.
MergedSensor(old, s) ==
    LET same == {i \in DOMAIN old.sensors : old.sensors[i].key = s.key}
        o == old.sensors[Max(same)]
    IN  IF same = {} THEN s ELSE [s EXCEPT !.limits = o.limits, !.disabled = o.disabled]

\* Mutation: all old groups are carried over
EveryGroup(old, fresh) == old.groups

\* Groups only the old file has are carried over as they are.
Carried(old, fresh) ==
    LET gone == InOrder({i \in DOMAIN old.groups : old.groups[i].name \notin Names(fresh)})
    IN  [n \in DOMAIN gone |-> old.groups[gone[n]]]

Merged(old, fresh) ==
    [sensors |-> [i \in DOMAIN fresh.sensors |-> MergedSensor(old, fresh.sensors[i])],
     groups  |-> [i \in DOMAIN fresh.groups |-> MergedGroup(old, fresh.groups[i])]
                 \o Carried(old, fresh)]

Merge(old, fresh) == MarkRequired(Merged(old, fresh))

Loads == file.there /\ file.parses /\ Valid(file.cfg)

DInit ==
    /\ file = [there |-> FALSE, whole |-> FALSE, parses |-> FALSE, cfg |-> Empty]
    /\ pending = Nothing
    /\ edits = 0
    /\ touched = FALSE

\* discover: without --force an existing file is left alone; with --force it
\* is merged if it loads, and replaced by what was found if it does not.
Discover(rows, force, reset) ==
    /\ pending = Nothing
    /\ \E i \in DOMAIN rows : rows[i].reading
    /\ force \/ ~file.there
    /\ LET fresh == Run(rows)
       IN  pending' = IF force /\ ~reset /\ Loads
                      THEN [mode |-> "merge", old |-> file.cfg, cfg |-> Merge(file.cfg, fresh)]
                      ELSE [mode |-> "fresh", old |-> Empty, cfg |-> fresh]
    /\ UNCHANGED <<file, edits, touched>>

Write ==
    /\ pending # Nothing
    /\ file' = [there |-> TRUE, whole |-> TRUE, parses |-> TRUE, cfg |-> pending.cfg]
    /\ pending' = Nothing
    /\ touched' = FALSE
    /\ UNCHANGED edits

\* The file is truncated and written in place.  What a crash leaves may end
\* between two entries, and then parses.
CrashInWrite ==
    /\ pending # Nothing
    /\ \E k \in 0..Len(pending.cfg.sensors), l \in 0..Len(pending.cfg.groups), parses \in BOOLEAN :
          /\ l > 0 => k = Len(pending.cfg.sensors)
          /\ file' = [there |-> TRUE, whole |-> FALSE, parses |-> parses,
                      cfg |-> [sensors |-> SubSeq(pending.cfg.sensors, 1, k),
                               groups |-> SubSeq(pending.cfg.groups, 1, l)]]
    /\ pending' = Nothing
    /\ UNCHANGED <<edits, touched>>

\* The operator tunes a file that loads, into one that loads.
Edit(cfg) ==
    /\ Loads /\ Valid(cfg) /\ edits < MaxEdits
    /\ file' = [file EXCEPT !.cfg = cfg]
    /\ edits' = edits + 1
    /\ touched' = TRUE
    /\ UNCHANGED pending

Edits ==
    \/ \E i \in DOMAIN file.cfg.sensors : Edit([file.cfg EXCEPT !.sensors[i].limits = "tuned"])
    \/ \E i \in DOMAIN file.cfg.sensors :
          /\ file.cfg.sensors[i].class = "fan"
          /\ Edit([file.cfg EXCEPT !.sensors[i].minRPM = "tuned"])
    \/ \E i \in DOMAIN file.cfg.sensors : Edit([file.cfg EXCEPT !.sensors[i].disabled = ~@])
    \/ \E i \in DOMAIN file.cfg.groups :
          Edit([file.cfg EXCEPT !.groups[i].enabled = ~@, !.groups[i].curve = "tuned"])
    \/ \E ids \in CustomIds :
          Edit([file.cfg EXCEPT !.groups = Append(@,
                   [name |-> "custom", ids |-> ids, enabled |-> TRUE, curve |-> "tuned"])])

DNext ==
    \/ \E rows \in Probe, force, reset \in BOOLEAN : Discover(rows, force, reset)
    \/ Write \/ CrashInWrite \/ Edits

DSpec == DInit /\ [][DNext]_dvars

-----------------------------------------------------------------------------
\* The file, what is about to be written and what it is merged with are
\* configurations.  A file discover completed has its identifiers and names apart.
DiscTypeOK ==
    /\ file \in [there : BOOLEAN, whole : BOOLEAN, parses : BOOLEAN, cfg : Config]
    /\ pending \in [mode : {"none", "merge", "fresh"}, old : Config, cfg : Config]
    /\ file.whole => file.parses
    /\ file.parses => file.there
    /\ file.whole => /\ Cardinality(Ids(file.cfg)) = Len(file.cfg.sensors)
                     /\ Cardinality(Names(file.cfg)) = Len(file.cfg.groups)

\* The daemon can load every file that discover completed, whatever was merged
\* into it, unless a group that was carried over names a sensor that is gone.
OnlyCarriedGroupsBreakTheFile ==
    file.whole /\ ~Loads =>
        \E i \in DOMAIN file.cfg.groups :
            LET g == file.cfg.groups[i]
            IN  /\ g.enabled /\ ~(g.ids \subseteq Ids(file.cfg))
                /\ \A j \in DOMAIN file.cfg.sensors : file.cfg.sensors[j].class # g.name

\* discover --force on a file that loads keeps the temperature limits and the
\* switch of every sensor found again, although probes number sensors anew,
\* and every group's curve and switch (Merge).  A fan's minimum speed is not
\* among what it keeps.
EditsSurvive ==
    pending.mode = "merge" =>
        /\ \A i \in DOMAIN pending.old.sensors, j \in DOMAIN pending.cfg.sensors :
              LET o == pending.old.sensors[i]
                  s == pending.cfg.sensors[j]
              IN  o.key = s.key => s.limits = o.limits /\ s.disabled = o.disabled
        /\ \A i \in DOMAIN pending.old.groups : \E j \in DOMAIN pending.cfg.groups :
              LET o == pending.old.groups[i]
                  g == pending.cfg.groups[j]
              IN  g.name = o.name /\ g.enabled = o.enabled /\ g.curve = o.curve

\* README.md: "Only the hardware-derived facts refresh: which sensors exist,
\* their device/device_type/ipmi_name, and which sensor IDs belong to which
\* group".  Whatever else was tuned at a sensor found again is kept.
OnlyHardwareFactsRefresh ==
    pending.mode = "merge" =>
        \A i \in DOMAIN pending.old.sensors, j \in DOMAIN pending.cfg.sensors :
            LET o == pending.old.sensors[i]
                s == pending.cfg.sensors[j]
            IN  o.key = s.key =>
                    s.limits = o.limits /\ s.minRPM = o.minRPM /\ s.disabled = o.disabled

\* As long as nobody edits the file, the sensors that trip the fallback when
\* they go quiet are those the enabled groups, merged and carried over ones
\* included, look at, and the fans.
RequiredIsCurrent ==
    file.whole /\ ~touched =>
        \A i \in DOMAIN file.cfg.sensors :
            file.cfg.sensors[i].required = Required(file.cfg, file.cfg.sensors[i])
=============================================================================
