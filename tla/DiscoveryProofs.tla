--------------------------- MODULE DiscoveryProofs ---------------------------
(***************************************************************************)
(* Proofs about the configuration file: what discover writes loads, keeps  *)
(* what was edited and requires the right sensors, for all hardware, any   *)
(* number of probes, edits and crashes.                                    *)
(***************************************************************************)
EXTENDS Discovery, FiniteSetTheorems, TLAPS

-----------------------------------------------------------------------------
(* Indices in order *)

Rank(I, i) == Cardinality({j \in I : j <= i})

LEMMA FiniteIndices ==
    ASSUME NEW n \in Nat, NEW I \in SUBSET (1 .. n)
    PROVE  IsFiniteSet(I) /\ Cardinality(I) \in Nat
  <1>1. IsFiniteSet(1 .. n)
    BY FS_Interval
  <1>2. IsFiniteSet(I)
    BY <1>1, FS_Subset
  <1> QED
    BY <1>2, FS_CardinalityType

LEMMA RankRises ==
    ASSUME NEW n \in Nat, NEW I \in SUBSET (1 .. n), NEW i \in I, NEW j \in I, i < j
    PROVE  Rank(I, i) < Rank(I, j)
  <1> DEFINE A == {k \in I : k <= i}
             B == {k \in I : k <= j}
  <1>0. i \in Int /\ j \in Int /\ \A k \in I : k \in Int
    OBVIOUS
  <1>b. \A k \in A : k \in B
    BY <1>0
  <1>1. A \in SUBSET B /\ A \in SUBSET (1 .. n) /\ B \in SUBSET (1 .. n)
    BY <1>b
  <1>2. j \in B /\ j \notin A
    BY <1>0
  <1>3. IsFiniteSet(B) /\ Cardinality(A) \in Nat /\ Cardinality(B) \in Nat
    BY <1>1, FiniteIndices
  <1> HIDE DEF A, B
  <1>4. Cardinality(A) <= Cardinality(B) /\ Cardinality(A) # Cardinality(B)
    BY <1>1, <1>2, <1>3, FS_Subset
  <1>5. Cardinality(A) < Cardinality(B)
    BY <1>3, <1>4
  <1> QED
    BY <1>5 DEF Rank, A, B

LEMMA RankRange ==
    ASSUME NEW n \in Nat, NEW I \in SUBSET (1 .. n), NEW i \in I
    PROVE  Rank(I, i) \in 1 .. Cardinality(I)
  <1> DEFINE A == {k \in I : k <= i}
  <1>1. A \in SUBSET I /\ A \in SUBSET (1 .. n) /\ i \in A
    <2>1. i \in Int /\ i <= i
      OBVIOUS
    <2>2. i \in A
      BY <2>1
    <2> QED
      BY <2>2
  <1>2. IsFiniteSet(A) /\ IsFiniteSet(I) /\ Cardinality(A) \in Nat /\ Cardinality(I) \in Nat
    BY <1>1, FiniteIndices
  <1> HIDE DEF A
  <1>3. Cardinality(A) <= Cardinality(I) /\ Cardinality(A) # 0
    BY <1>1, <1>2, FS_Subset, FS_EmptySet
  <1>4. Cardinality(A) \in 1 .. Cardinality(I)
    BY <1>2, <1>3
  <1> QED
    BY <1>4 DEF Rank, A

LEMMA RankIsNatural ==
    ASSUME NEW n \in Nat, NEW I \in SUBSET (1 .. n), NEW i \in I
    PROVE  Rank(I, i) \in Nat
  <1>1. Rank(I, i) \in 1 .. Cardinality(I)
    BY RankRange
  <1>2. Cardinality(I) \in Nat
    BY FiniteIndices
  <1> QED
    BY <1>1, <1>2

LEMMA RankIsInjective ==
    ASSUME NEW n \in Nat, NEW I \in SUBSET (1 .. n), NEW i \in I, NEW j \in I,
           Rank(I, i) = Rank(I, j)
    PROVE  i = j
  <1>1. i \in Int /\ j \in Int
    OBVIOUS
  <1>2. Rank(I, i) \in 1 .. Cardinality(I)
    BY RankRange
  <1>3. ~(Rank(I, i) < Rank(I, j)) /\ ~(Rank(I, j) < Rank(I, i))
    BY <1>2
  <1> QED
    BY <1>1, <1>3, RankRises

LEMMA RankIsSurjective ==
    ASSUME NEW n \in Nat, NEW I \in SUBSET (1 .. n), NEW k \in 1 .. Cardinality(I)
    PROVE  \E i \in I : Rank(I, i) = k
  <1> DEFINE r == [i \in I |-> Rank(I, i)]
             T == 1 .. Cardinality(I)
  <1>1. IsFiniteSet(I) /\ Cardinality(I) \in Nat
    BY FiniteIndices
  <1>2. IsFiniteSet(T) /\ Cardinality(T) = Cardinality(I)
    BY <1>1, FS_Interval
  <1>3. r \in [I -> T]
    BY RankRange
  <1>4. \A i, j \in I : r[i] = r[j] => i = j
    BY RankIsInjective
  <1> HIDE DEF r, T
  <1>5. r \in Injection(I, T)
    BY <1>3, <1>4 DEF Injection, IsInjective
  <1>6. r \in Surjection(I, T)
    BY <1>2, <1>5, FS_Injection
  <1>7. \E i \in I : r[i] = k
    BY <1>6 DEF Surjection, T
  <1> QED
    BY <1>7 DEF r

\* InOrder(I) goes through I and takes each index once.
LEMMA InOrderIsABijection ==
    ASSUME NEW n \in Nat, NEW I \in SUBSET (1 .. n)
    PROVE  /\ Cardinality(I) \in Nat
           /\ DOMAIN InOrder(I) = 1 .. Cardinality(I)
           /\ \A k \in DOMAIN InOrder(I) : InOrder(I)[k] \in I
           /\ \A k, l \in DOMAIN InOrder(I) : InOrder(I)[k] = InOrder(I)[l] => k = l
           /\ \A i \in I : \E k \in DOMAIN InOrder(I) : InOrder(I)[k] = i
  <1>1. Cardinality(I) \in Nat /\ DOMAIN InOrder(I) = 1 .. Cardinality(I)
    BY FiniteIndices DEF InOrder
  <1>2. ASSUME NEW k \in 1 .. Cardinality(I)
        PROVE  InOrder(I)[k] \in I /\ Rank(I, InOrder(I)[k]) = k
    <2>1. \E i \in I : Rank(I, i) = k
      BY RankIsSurjective
    <2>2. InOrder(I)[k] = CHOOSE i \in I : Rank(I, i) = k
      BY <1>1 DEF InOrder, Rank
    <2> QED
      BY <2>1, <2>2
  <1>3. ASSUME NEW i \in I PROVE \E k \in 1 .. Cardinality(I) : InOrder(I)[k] = i
    <2>1. Rank(I, i) \in 1 .. Cardinality(I)
      BY RankRange
    <2>2. InOrder(I)[Rank(I, i)] \in I /\ Rank(I, InOrder(I)[Rank(I, i)]) = Rank(I, i)
      BY <2>1, <1>2
    <2>3. InOrder(I)[Rank(I, i)] = i
      BY <2>2, RankIsInjective
    <2> QED
      BY <2>1, <2>3
  <1> QED
    BY <1>1, <1>2, <1>3

-----------------------------------------------------------------------------
(* Identifiers and keys *)

Kept(rows) == {i \in DOMAIN rows : rows[i].reading}
Named(rows, name) == {j \in DOMAIN rows : rows[j].source = "ipmi" /\ rows[j].name = name}
Based(rows, base) == {j \in Kept(rows) : rows[j].base = base}

LEMMA RowsAreTyped ==
    ASSUME NEW rows \in Probe
    PROVE  /\ rows \in Seq(Row)
           /\ Len(rows) \in Nat
           /\ DOMAIN rows = 1 .. Len(rows)
           /\ \A i \in DOMAIN rows : rows[i] \in Row
           /\ Kept(rows) \in SUBSET (1 .. Len(rows))
  BY ProbeAssumption DEF Kept

LEMMA OccurrenceIsARank ==
    ASSUME NEW rows \in Probe, NEW i \in DOMAIN rows, rows[i].source = "ipmi"
    PROVE  Key(rows, i) = [source |-> "ipmi", name |-> rows[i].name,
                           occ |-> Rank(Named(rows, rows[i].name), i)]
  <1>1. i \in 1 .. Len(rows) /\ Len(rows) \in Nat
    BY RowsAreTyped
  <1>2. {j \in 1 .. i : rows[j].source = "ipmi" /\ rows[j].name = rows[i].name}
        = {j \in Named(rows, rows[i].name) : j <= i}
    BY <1>1, RowsAreTyped DEF Named
  <1> QED
    BY <1>2 DEF Key, Rank

LEMMA NumberIsARank ==
    ASSUME NEW rows \in Probe, NEW i \in Kept(rows)
    PROVE  UniqueId(rows, Kept(rows), i) = <<rows[i].base, Rank(Based(rows, rows[i].base), i)>>
  <1>1. {j \in Kept(rows) : j <= i /\ rows[j].base = rows[i].base}
        = {j \in Based(rows, rows[i].base) : j <= i}
    BY DEF Based
  <1> QED
    BY <1>1 DEF UniqueId, Rank

LEMMA KeysAreTyped ==
    ASSUME NEW rows \in Probe, NEW i \in DOMAIN rows
    PROVE  Key(rows, i) \in [source : {"ipmi", "smart"}, name : STRING, occ : Nat]
  <1>1. rows[i] \in Row /\ Len(rows) \in Nat
    BY RowsAreTyped
  <1>2. CASE rows[i].source = "ipmi"
    <2>1. Named(rows, rows[i].name) \in SUBSET (1 .. Len(rows)) /\ i \in Named(rows, rows[i].name)
      BY <1>2, RowsAreTyped DEF Named
    <2>2. Rank(Named(rows, rows[i].name), i) \in Nat
      BY <1>1, <2>1, RankIsNatural
    <2> QED
      BY <1>1, <1>2, <2>2, OccurrenceIsARank DEF Row
  <1>3. CASE rows[i].source = "smart"
    BY <1>1, <1>3 DEF Key, Row
  <1> QED
    BY <1>1, <1>2, <1>3 DEF Row

LEMMA IdsAreTyped ==
    ASSUME NEW rows \in Probe, NEW i \in Kept(rows)
    PROVE  UniqueId(rows, Kept(rows), i) \in Id
  <1>1. rows[i] \in Row /\ Len(rows) \in Nat
    BY RowsAreTyped DEF Kept
  <1>2. Based(rows, rows[i].base) \in SUBSET (1 .. Len(rows)) /\ i \in Based(rows, rows[i].base)
    BY RowsAreTyped DEF Based
  <1>3. Rank(Based(rows, rows[i].base), i) \in Nat
    BY <1>1, <1>2, RankIsNatural
  <1> QED
    BY <1>1, <1>3, NumberIsARank DEF Row, Id

\* No two rows of a probe have one key (identityKey), those without a reading
\* included.
LEMMA KeysDiffer ==
    ASSUME NEW rows \in Probe, NEW i \in DOMAIN rows, NEW j \in DOMAIN rows,
           Key(rows, i) = Key(rows, j)
    PROVE  i = j
  <1>1. /\ Key(rows, i).source = rows[i].source /\ Key(rows, i).name = rows[i].name
        /\ Key(rows, j).source = rows[j].source /\ Key(rows, j).name = rows[j].name
    BY DEF Key
  <1>2. /\ rows[i].source = rows[j].source /\ rows[i].name = rows[j].name
        /\ rows[i].source \in {"ipmi", "smart"}
    BY <1>1, RowsAreTyped DEF Row
  <1>3. CASE rows[i].source = "smart"
    BY <1>2, <1>3, ProbeAssumption
  <1>4. CASE rows[i].source = "ipmi"
    <2> DEFINE I == Named(rows, rows[i].name)
    <2>1. I \in SUBSET (1 .. Len(rows)) /\ i \in I /\ j \in I /\ Len(rows) \in Nat
      BY <1>2, <1>4, RowsAreTyped DEF Named
    <2>2. /\ Key(rows, i) = [source |-> "ipmi", name |-> rows[i].name, occ |-> Rank(I, i)]
          /\ Key(rows, j) = [source |-> "ipmi", name |-> rows[j].name, occ |-> Rank(I, j)]
      BY <1>2, <1>4, OccurrenceIsARank
    <2> HIDE DEF I
    <2>3. \A k, n, o : k = [source |-> "ipmi", name |-> n, occ |-> o] => k.occ = o
      OBVIOUS
    <2>4. Rank(I, i) = Key(rows, i).occ /\ Rank(I, j) = Key(rows, j).occ
      BY <2>2, <2>3
    <2> QED
      BY <2>1, <2>4, RankIsInjective
  <1> QED
    BY <1>2, <1>3, <1>4

\* uniqueID never gives one identifier to two sensors of a probe.
LEMMA IdsDiffer ==
    ASSUME NEW rows \in Probe, NEW i \in Kept(rows), NEW j \in Kept(rows),
           UniqueId(rows, Kept(rows), i) = UniqueId(rows, Kept(rows), j)
    PROVE  i = j
  <1> DEFINE I == Based(rows, rows[i].base)
  <1>1. /\ rows[i].base = rows[j].base
        /\ Rank(I, i) = Rank(I, j)
    BY NumberIsARank
  <1>2. I \in SUBSET (1 .. Len(rows)) /\ i \in I /\ j \in I /\ Len(rows) \in Nat
    BY <1>1, RowsAreTyped DEF Based
  <1> HIDE DEF I
  <1> QED
    BY <1>1, <1>2, RankIsInjective

-----------------------------------------------------------------------------
(* What a configuration should be *)

IdsApart(cfg)  == \A i, j \in DOMAIN cfg.sensors : cfg.sensors[i].id = cfg.sensors[j].id => i = j
KeysApart(cfg) == \A i, j \in DOMAIN cfg.sensors : cfg.sensors[i].key = cfg.sensors[j].key => i = j
NamesApart(cfg) == \A i, j \in DOMAIN cfg.groups : cfg.groups[i].name = cfg.groups[j].name => i = j

\* Groups are named for a class that has groups, or by the operator.
HasGroup(class) == \E k \in DOMAIN Grouped : Grouped[k] = class
NamesKnown(cfg) ==
    \A i \in DOMAIN cfg.groups : HasGroup(cfg.groups[i].name) \/ cfg.groups[i].name = "custom"

Populated(cfg) == \A i \in DOMAIN cfg.groups : cfg.groups[i].enabled => cfg.groups[i].ids # {}

\* A group that names a sensor which is gone has none of its own class left.
BrokenAreCarried(cfg) ==
    \A i \in DOMAIN cfg.groups, j \in DOMAIN cfg.sensors :
        cfg.groups[i].enabled /\ ~(cfg.groups[i].ids \subseteq Ids(cfg))
            => cfg.sensors[j].class # cfg.groups[i].name

Current(cfg) ==
    \A i \in DOMAIN cfg.sensors : cfg.sensors[i].required = Required(cfg, cfg.sensors[i])

Stored(cfg) == cfg \in Config /\ KeysApart(cfg) /\ NamesKnown(cfg)

Complete(cfg) ==
    /\ Stored(cfg)
    /\ IdsApart(cfg) /\ NamesApart(cfg) /\ Populated(cfg) /\ BrokenAreCarried(cfg)

LEMMA ValidIsComplete ==
    ASSUME NEW cfg, Stored(cfg), Valid(cfg)
    PROVE  Complete(cfg)
  BY DEF Complete, Valid, IdsApart, NamesApart, Populated, BrokenAreCarried

-----------------------------------------------------------------------------
(* The flags of the required sensors *)

LEMMA FlagIsBoolean == ASSUME NEW cfg, NEW s PROVE Required(cfg, s) \in BOOLEAN
  BY DEF Required

LEMMA SensorMarked ==
    ASSUME NEW s \in Sensor, NEW b \in BOOLEAN
    PROVE  LET t == [s EXCEPT !.required = b]
           IN  /\ t \in Sensor /\ t.required = b
               /\ t.id = s.id /\ t.key = s.key /\ t.class = s.class
               /\ t.limits = s.limits /\ t.disabled = s.disabled
  BY DEF Sensor

LEMMA MarkRequiredMarks ==
    ASSUME NEW cfg \in Config
    PROVE  LET new == MarkRequired(cfg)
           IN  /\ new \in Config
               /\ new.groups = cfg.groups
               /\ DOMAIN new.sensors = DOMAIN cfg.sensors
               /\ \A i \in DOMAIN cfg.sensors :
                     /\ new.sensors[i].id = cfg.sensors[i].id
                     /\ new.sensors[i].key = cfg.sensors[i].key
                     /\ new.sensors[i].class = cfg.sensors[i].class
                     /\ new.sensors[i].limits = cfg.sensors[i].limits
                     /\ new.sensors[i].disabled = cfg.sensors[i].disabled
               /\ Current(new)
  <1> DEFINE flag(i) == Required(cfg, cfg.sensors[i])
             marked == [i \in DOMAIN cfg.sensors |-> [cfg.sensors[i] EXCEPT !.required = flag(i)]]
             new == MarkRequired(cfg)
  <1>1. /\ cfg.sensors \in Seq(Sensor) /\ cfg.groups \in Seq(Group)
        /\ DOMAIN cfg.sensors = 1 .. Len(cfg.sensors) /\ Len(cfg.sensors) \in Nat
    BY DEF Config
  <1>2. /\ new.sensors = marked /\ new.groups = cfg.groups
        /\ new = [sensors |-> marked, groups |-> cfg.groups]
    <2>1. new = [cfg EXCEPT !.sensors = marked]
      BY DEF MarkRequired
    <2> HIDE DEF marked, new
    <2> QED
      BY <2>1 DEF Config
  <1>3. ASSUME NEW i \in DOMAIN cfg.sensors
        PROVE  /\ marked[i] \in Sensor /\ marked[i].required = flag(i)
               /\ marked[i].id = cfg.sensors[i].id /\ marked[i].key = cfg.sensors[i].key
               /\ marked[i].class = cfg.sensors[i].class
               /\ marked[i].limits = cfg.sensors[i].limits
               /\ marked[i].disabled = cfg.sensors[i].disabled
    <2>1. cfg.sensors[i] \in Sensor
      BY <1>1
    <2>2. flag(i) \in BOOLEAN
      BY FlagIsBoolean
    <2>3. marked[i] = [cfg.sensors[i] EXCEPT !.required = flag(i)]
      OBVIOUS
    <2> HIDE DEF flag, marked
    <2> QED
      BY <2>1, <2>2, <2>3, SensorMarked
  <1>4. DOMAIN marked = DOMAIN cfg.sensors
    OBVIOUS
  <1> HIDE DEF flag, marked, new
  <1>5. marked \in Seq(Sensor)
    <2>1. marked \in [1 .. Len(cfg.sensors) -> Sensor]
      BY <1>1, <1>3, <1>4 DEF marked
    <2> QED
      BY <1>1, <2>1
  <1>6. new \in Config
    BY <1>1, <1>2, <1>5 DEF Config
  <1>7. ASSUME NEW i \in DOMAIN new.sensors
        PROVE  new.sensors[i].required = Required(new, new.sensors[i])
    <2>1. i \in DOMAIN cfg.sensors /\ new.sensors[i] = marked[i]
      BY <1>2, <1>4
    <2>2. /\ new.sensors[i].required = Required(cfg, cfg.sensors[i])
          /\ new.sensors[i].id = cfg.sensors[i].id
          /\ new.sensors[i].class = cfg.sensors[i].class
      BY <1>3, <2>1 DEF flag
    <2>3. Required(new, new.sensors[i]) = Required(cfg, cfg.sensors[i])
      BY <1>2, <2>2 DEF Required
    <2> QED
      BY <2>2, <2>3
  <1> QED
    BY <1>2, <1>3, <1>4, <1>6, <1>7 DEF Current, new

-----------------------------------------------------------------------------
(* What a probe finds *)

SensorOf(rows, i) ==
    [id |-> UniqueId(rows, Kept(rows), i), key |-> Key(rows, i), class |-> rows[i].class,
     limits |-> "default", minRPM |-> "default", disabled |-> FALSE, required |-> FALSE]

Sensors(rows) == [n \in DOMAIN InOrder(Kept(rows)) |-> SensorOf(rows, InOrder(Kept(rows))[n])]

Found(rows) == [sensors |-> Sensors(rows), groups |-> BuildGroups(Sensors(rows))]

LEMMA RunMarksWhatIsFound ==
    ASSUME NEW rows
    PROVE  Run(rows) = MarkRequired(Found(rows))
  BY DEF Run, Found, Sensors, SensorOf, Kept

LEMMA SensorsFound ==
    ASSUME NEW rows \in Probe
    PROVE  /\ Sensors(rows) \in Seq(Sensor)
           /\ \A n, m \in DOMAIN Sensors(rows) :
                 \/ Sensors(rows)[n].id = Sensors(rows)[m].id
                 \/ Sensors(rows)[n].key = Sensors(rows)[m].key
                 => n = m
  <1> DEFINE I == Kept(rows)
             c == Cardinality(I)
  <1>1. Len(rows) \in Nat /\ I \in SUBSET (1 .. Len(rows)) /\ \A i \in I : i \in DOMAIN rows
    BY RowsAreTyped
  <1> HIDE DEF I
  <1>2. /\ c \in Nat
        /\ DOMAIN InOrder(I) = 1 .. c
        /\ \A k \in 1 .. c : InOrder(I)[k] \in I
        /\ \A k, l \in 1 .. c : InOrder(I)[k] = InOrder(I)[l] => k = l
    <2>1. PICK l \in Nat : I \in SUBSET (1 .. l)
      BY <1>1
    <2>2. /\ Cardinality(I) \in Nat
          /\ DOMAIN InOrder(I) = 1 .. Cardinality(I)
          /\ \A k \in DOMAIN InOrder(I) : InOrder(I)[k] \in I
          /\ \A k, m \in DOMAIN InOrder(I) : InOrder(I)[k] = InOrder(I)[m] => k = m
      BY <2>1, InOrderIsABijection, ZenonT(30)
    <2> QED
      BY <2>2
  <1>3. /\ DOMAIN Sensors(rows) = 1 .. c
        /\ \A n \in 1 .. c : Sensors(rows)[n] = SensorOf(rows, InOrder(I)[n])
    BY <1>2 DEF Sensors, I
  <1>4. ASSUME NEW i \in I
        PROVE  /\ SensorOf(rows, i) \in Sensor
               /\ SensorOf(rows, i).id = UniqueId(rows, I, i)
               /\ SensorOf(rows, i).key = Key(rows, i)
    <2>1. rows[i].class \in Class
      BY <1>1, RowsAreTyped DEF Row
    <2>2. UniqueId(rows, I, i) \in Id
      BY IdsAreTyped DEF I
    <2>3. Key(rows, i) \in [source : {"ipmi", "smart"}, name : STRING, occ : Nat]
      BY <1>1, KeysAreTyped
    <2> QED
      BY <2>1, <2>2, <2>3 DEF SensorOf, Sensor, I
  <1> HIDE DEF c
  <1>5. Sensors(rows) \in Seq(Sensor)
    <2>1. Sensors(rows) \in [1 .. c -> Sensor]
      BY <1>2, <1>3, <1>4 DEF Sensors, I, c
    <2> QED
      BY <1>2, <2>1
  <1>6. ASSUME NEW n \in 1 .. c, NEW m \in 1 .. c,
               \/ Sensors(rows)[n].id = Sensors(rows)[m].id
               \/ Sensors(rows)[n].key = Sensors(rows)[m].key
        PROVE  n = m
    <2>1. PICK i \in I, j \in I : i = InOrder(I)[n] /\ j = InOrder(I)[m]
      BY <1>2
    <2>2. UniqueId(rows, I, i) = UniqueId(rows, I, j) \/ Key(rows, i) = Key(rows, j)
      BY <1>3, <1>4, <1>6, <2>1
    <2>3. i = j
      BY <1>1, <2>2, KeysDiffer, IdsDiffer DEF I
    <2> QED
      BY <1>2, <2>1, <2>3
  <1> QED
    BY <1>3, <1>5, <1>6

-----------------------------------------------------------------------------
(* The groups of what is found *)

IdsOf(ss, class) == {ss[i].id : i \in {j \in DOMAIN ss : ss[j].class = class}}

FoundClasses(ss) == {k \in DOMAIN Grouped : IdsOf(ss, Grouped[k]) # {}}

GroupOf(ss, class) ==
    [name |-> class, ids |-> IdsOf(ss, class), enabled |-> class \notin Ambient, curve |-> "default"]

LEMMA GroupedIsASequence ==
    /\ DOMAIN Grouped = 1 .. 5
    /\ \A k \in DOMAIN Grouped : Grouped[k] \in Class
    /\ \A k, l \in DOMAIN Grouped : Grouped[k] = Grouped[l] => k = l
  <1>1. DOMAIN Grouped = 1 .. 5
    BY DEF Grouped
  <1>2. /\ Grouped[1] = "cpu" /\ Grouped[2] = "disk" /\ Grouped[3] = "board"
        /\ Grouped[4] = "inlet" /\ Grouped[5] = "exhaust"
    BY DEF Grouped
  <1>3. \A k \in 1 .. 5 : k = 1 \/ k = 2 \/ k = 3 \/ k = 4 \/ k = 5
    OBVIOUS
  <1>4. \A k \in 1 .. 5 : Grouped[k] \in Class
    BY <1>2, <1>3 DEF Class
  <1>5. \A k, l \in 1 .. 5 : Grouped[k] = Grouped[l] => k = l
    BY <1>2, <1>3
  <1> QED
    BY <1>1, <1>4, <1>5

LEMMA GroupsInOrder ==
    ASSUME NEW ss
    PROVE  BuildGroups(ss) = [n \in DOMAIN InOrder(FoundClasses(ss)) |->
                                 GroupOf(ss, Grouped[InOrder(FoundClasses(ss))[n]])]
  BY DEF BuildGroups, FoundClasses, GroupOf, IdsOf

LEMMA GroupIsTyped ==
    ASSUME NEW ss \in Seq(Sensor), NEW class \in Class
    PROVE  GroupOf(ss, class) \in Group
  <1>1. IdsOf(ss, class) \in SUBSET Id
    <2>1. \A i \in DOMAIN ss : ss[i] \in Sensor
      OBVIOUS
    <2>2. \A i \in DOMAIN ss : ss[i].id \in Id
      BY <2>1 DEF Sensor
    <2> QED
      BY <2>2 DEF IdsOf
  <1>2. \A b : b \in BOOLEAN =>
           [name |-> class, ids |-> IdsOf(ss, class), enabled |-> b, curve |-> "default"] \in Group
    BY <1>1 DEF Group
  <1>3. (class \notin Ambient) \in BOOLEAN
    OBVIOUS
  <1> QED
    BY <1>2, <1>3 DEF GroupOf

\* Every class with a group that has a sensor gets one group, of those sensors.
LEMMA GroupsFound ==
    ASSUME NEW ss \in Seq(Sensor)
    PROVE  LET gs == BuildGroups(ss)
           IN  /\ gs \in Seq(Group)
               /\ \A n \in DOMAIN gs : /\ HasGroup(gs[n].name)
                                       /\ gs[n].ids = IdsOf(ss, gs[n].name)
                                       /\ gs[n].ids # {}
               /\ \A n, m \in DOMAIN gs : gs[n].name = gs[m].name => n = m
               /\ \A i \in DOMAIN ss : HasGroup(ss[i].class) =>
                     \E n \in DOMAIN gs : gs[n].name = ss[i].class
  <1> DEFINE gs == BuildGroups(ss)
             I == FoundClasses(ss)
             c == Cardinality(I)
  <1>1. I \in SUBSET (1 .. 5) /\ I \subseteq DOMAIN Grouped /\ 5 \in Nat
    BY GroupedIsASequence DEF FoundClasses
  <1>2. \A k \in I : IdsOf(ss, Grouped[k]) # {}
    BY DEF FoundClasses
  <1>3. \A k \in DOMAIN Grouped : IdsOf(ss, Grouped[k]) # {} => k \in I
    BY DEF FoundClasses
  <1>4. gs = [n \in DOMAIN InOrder(I) |-> GroupOf(ss, Grouped[InOrder(I)[n]])]
    BY GroupsInOrder
  <1> HIDE DEF I, gs
  <1>5. /\ c \in Nat
        /\ DOMAIN InOrder(I) = 1 .. c
        /\ \A k \in 1 .. c : InOrder(I)[k] \in I
        /\ \A k, l \in 1 .. c : InOrder(I)[k] = InOrder(I)[l] => k = l
        /\ \A i \in I : \E k \in 1 .. c : InOrder(I)[k] = i
    <2>1. /\ c \in Nat
          /\ DOMAIN InOrder(I) = 1 .. c
          /\ \A k \in DOMAIN InOrder(I) : InOrder(I)[k] \in I
          /\ \A k, l \in DOMAIN InOrder(I) : InOrder(I)[k] = InOrder(I)[l] => k = l
          /\ \A i \in I : \E k \in DOMAIN InOrder(I) : InOrder(I)[k] = i
      BY <1>1, InOrderIsABijection, SMTT(30)
    <2> QED
      BY <2>1, SMTT(30)
  <1> HIDE DEF c
  <1>6. /\ DOMAIN gs = 1 .. c
        /\ \A n \in 1 .. c : gs[n] = GroupOf(ss, Grouped[InOrder(I)[n]])
    BY <1>4, <1>5
  <1>7. gs \in Seq(Group)
    <2>1. \A n \in 1 .. c : Grouped[InOrder(I)[n]] \in Class
      BY <1>1, <1>5, GroupedIsASequence
    <2>3. \A n \in 1 .. c : gs[n] \in Group
      BY <1>6, <2>1, GroupIsTyped
    <2>2. gs \in [1 .. c -> Group]
      BY <1>4, <1>5, <1>6, <2>3
    <2> QED
      BY <1>5, <2>2
  <1>8. \A n \in 1 .. c : gs[n].name = Grouped[InOrder(I)[n]]
    BY <1>6 DEF GroupOf
  <1>9. ASSUME NEW n \in 1 .. c
        PROVE  HasGroup(gs[n].name) /\ gs[n].ids = IdsOf(ss, gs[n].name) /\ gs[n].ids # {}
    <2>1. gs[n].ids = IdsOf(ss, Grouped[InOrder(I)[n]])
      BY <1>6 DEF GroupOf
    <2> QED
      BY <1>1, <1>2, <1>5, <1>8, <2>1 DEF HasGroup
  <1>10. ASSUME NEW n \in 1 .. c, NEW m \in 1 .. c, gs[n].name = gs[m].name
         PROVE  n = m
    <2>1. Grouped[InOrder(I)[n]] = Grouped[InOrder(I)[m]]
      BY <1>8, <1>10
    <2>2. InOrder(I)[n] \in DOMAIN Grouped /\ InOrder(I)[m] \in DOMAIN Grouped
      BY <1>1, <1>5
    <2>3. InOrder(I)[n] = InOrder(I)[m]
      BY <2>1, <2>2, GroupedIsASequence
    <2> QED
      BY <1>5, <2>3
  <1>11. ASSUME NEW i \in DOMAIN ss, HasGroup(ss[i].class)
         PROVE  \E n \in 1 .. c : gs[n].name = ss[i].class
    <2>1. PICK k \in DOMAIN Grouped : Grouped[k] = ss[i].class
      BY <1>11 DEF HasGroup
    <2>2. ss[i].id \in IdsOf(ss, Grouped[k])
      BY <2>1 DEF IdsOf
    <2>3. k \in I
      BY <1>3, <2>2
    <2> QED
      BY <1>5, <1>8, <2>1, <2>3
  <1> QED
    BY <1>6, <1>7, <1>9, <1>10, <1>11 DEF gs

-----------------------------------------------------------------------------
(* A probe's configuration is complete *)

\* What a probe finds: each group names its sensors, and each class with a
\* group has its group.
Fresh(cfg) ==
    /\ \A i \in DOMAIN cfg.groups : cfg.groups[i].ids # {} /\ cfg.groups[i].ids \subseteq Ids(cfg)
    /\ \A j \in DOMAIN cfg.sensors : HasGroup(cfg.sensors[j].class) => cfg.sensors[j].class \in Names(cfg)

LEMMA MarkingKeeps ==
    ASSUME NEW cfg, Complete(cfg)
    PROVE  LET new == MarkRequired(cfg)
           IN  /\ Complete(new) /\ Current(new)
               /\ Ids(new) = Ids(cfg) /\ Names(new) = Names(cfg)
  <1> DEFINE new == MarkRequired(cfg)
  <1>1. cfg \in Config
    BY DEF Complete, Stored
  <1>2. /\ new \in Config /\ new.groups = cfg.groups /\ DOMAIN new.sensors = DOMAIN cfg.sensors
        /\ \A i \in DOMAIN cfg.sensors :
              /\ new.sensors[i].id = cfg.sensors[i].id
              /\ new.sensors[i].key = cfg.sensors[i].key
              /\ new.sensors[i].class = cfg.sensors[i].class
        /\ Current(new)
    BY <1>1, MarkRequiredMarks
  <1> HIDE DEF new
  <1>3. Ids(new) = Ids(cfg) /\ Names(new) = Names(cfg)
    BY <1>2 DEF Ids, Names
  <1>4. KeysApart(new) /\ IdsApart(new)
    BY <1>2 DEF Complete, Stored, KeysApart, IdsApart
  <1>5. NamesKnown(new) /\ NamesApart(new) /\ Populated(new)
    BY <1>2 DEF Complete, Stored, NamesKnown, NamesApart, Populated
  <1>6. BrokenAreCarried(new)
    BY <1>2, <1>3 DEF Complete, BrokenAreCarried
  <1> QED
    BY <1>2, <1>3, <1>4, <1>5, <1>6 DEF Complete, Stored, new

LEMMA FreshAfterMarking ==
    ASSUME NEW cfg, Complete(cfg), Fresh(cfg)
    PROVE  Fresh(MarkRequired(cfg))
  <1> DEFINE new == MarkRequired(cfg)
  <1>1. cfg \in Config
    BY DEF Complete, Stored
  <1>2. /\ new.groups = cfg.groups /\ DOMAIN new.sensors = DOMAIN cfg.sensors
        /\ \A i \in DOMAIN cfg.sensors : new.sensors[i].class = cfg.sensors[i].class
    BY <1>1, MarkRequiredMarks
  <1>3. Ids(new) = Ids(cfg) /\ Names(new) = Names(cfg)
    BY MarkingKeeps
  <1> HIDE DEF new
  <1>4. Fresh(new)
    BY <1>2, <1>3 DEF Fresh
  <1> QED
    BY <1>4 DEF new

LEMMA FoundIsComplete ==
    ASSUME NEW rows \in Probe
    PROVE  Complete(Found(rows)) /\ Fresh(Found(rows))
  <1> DEFINE ss == Sensors(rows)
             gs == BuildGroups(ss)
             cfg == Found(rows)
  <1>1. cfg = [sensors |-> ss, groups |-> gs] /\ cfg.sensors = ss /\ cfg.groups = gs
    BY DEF Found
  <1>2. /\ ss \in Seq(Sensor)
        /\ \A n, m \in DOMAIN ss : ss[n].id = ss[m].id \/ ss[n].key = ss[m].key => n = m
    BY SensorsFound
  <1>3. /\ gs \in Seq(Group)
        /\ \A n \in DOMAIN gs : /\ HasGroup(gs[n].name)
                                /\ gs[n].ids = IdsOf(ss, gs[n].name)
                                /\ gs[n].ids # {}
        /\ \A n, m \in DOMAIN gs : gs[n].name = gs[m].name => n = m
        /\ \A i \in DOMAIN ss : HasGroup(ss[i].class) => \E n \in DOMAIN gs : gs[n].name = ss[i].class
    BY <1>2, GroupsFound
  <1> HIDE DEF ss, gs, cfg
  <1>4. Stored(cfg)
    BY <1>1, <1>2, <1>3 DEF Stored, Config, KeysApart, NamesKnown
  <1>5. \A n \in DOMAIN gs : gs[n].ids \subseteq Ids(cfg)
    BY <1>1, <1>3 DEF IdsOf, Ids
  <1>6. Fresh(cfg)
    BY <1>1, <1>3, <1>5 DEF Fresh, Names
  <1>7. IdsApart(cfg) /\ NamesApart(cfg)
    BY <1>1, <1>2, <1>3 DEF IdsApart, NamesApart
  <1>8. Populated(cfg) /\ BrokenAreCarried(cfg)
    BY <1>1, <1>3, <1>5 DEF Populated, BrokenAreCarried
  <1> QED
    BY <1>4, <1>6, <1>7, <1>8 DEF Complete, cfg

\* What discover writes without merging
LEMMA RunIsComplete ==
    ASSUME NEW rows \in Probe
    PROVE  Complete(Run(rows)) /\ Current(Run(rows)) /\ Fresh(Run(rows))
  BY FoundIsComplete, MarkingKeeps, FreshAfterMarking, RunMarksWhatIsFound

-----------------------------------------------------------------------------
(* Merging *)

LEMMA OnlyOne == \A i \in Int : Max({i}) = i
  BY DEF Max

SensorLike(s, o) == [s EXCEPT !.limits = o.limits, !.disabled = o.disabled]
GroupLike(g, o)  == [g EXCEPT !.enabled = o.enabled, !.curve = o.curve]

LEMMA SensorSwitched ==
    ASSUME NEW s \in Sensor, NEW o \in Sensor
    PROVE  /\ SensorLike(s, o) \in Sensor
           /\ SensorLike(s, o).limits = o.limits /\ SensorLike(s, o).disabled = o.disabled
           /\ SensorLike(s, o).id = s.id /\ SensorLike(s, o).key = s.key
           /\ SensorLike(s, o).class = s.class
  BY DEF Sensor, SensorLike

LEMMA GroupSwitched ==
    ASSUME NEW g \in Group, NEW o \in Group
    PROVE  /\ GroupLike(g, o) \in Group
           /\ GroupLike(g, o).enabled = o.enabled /\ GroupLike(g, o).curve = o.curve
           /\ GroupLike(g, o).name = g.name /\ GroupLike(g, o).ids = g.ids
  BY DEF Group, GroupLike

LEMMA SensorKeepsItsSettings ==
    ASSUME NEW old \in Config, KeysApart(old), NEW s \in Sensor
    PROVE  LET t == MergedSensor(old, s)
           IN  /\ t \in Sensor /\ t.id = s.id /\ t.key = s.key /\ t.class = s.class
               /\ \A i \in DOMAIN old.sensors :
                     old.sensors[i].key = s.key =>
                        t.limits = old.sensors[i].limits /\ t.disabled = old.sensors[i].disabled
  <1> DEFINE same == {i \in DOMAIN old.sensors : old.sensors[i].key = s.key}
             t == MergedSensor(old, s)
             o == old.sensors[Max(same)]
  <1>1. t = IF same = {} THEN s ELSE SensorLike(s, o)
    BY DEF MergedSensor, SensorLike
  <1>2. CASE same = {}
    BY <1>1, <1>2
  <1>3. CASE same # {}
    <2>1. PICK i \in DOMAIN old.sensors : old.sensors[i].key = s.key
      BY <1>3
    <2>2. same = {i}
      BY <2>1 DEF KeysApart
    <2>3. i \in Int /\ old.sensors[i] \in Sensor
      BY DEF Config
    <2>4. Max(same) = i
      BY <2>2, <2>3, OnlyOne
    <2>5. o = old.sensors[i]
      BY <2>4
    <2> HIDE DEF o, t, same
    <2>6. o \in Sensor
      BY <2>3, <2>5
    <2>7. t = SensorLike(s, o)
      BY <1>1, <1>3
    <2>8. /\ t \in Sensor /\ t.limits = o.limits /\ t.disabled = o.disabled
          /\ t.id = s.id /\ t.key = s.key /\ t.class = s.class
      BY <2>6, <2>7, SensorSwitched
    <2>9. \A k \in DOMAIN old.sensors : old.sensors[k].key = s.key => k = i
      BY <2>1 DEF KeysApart
    <2> QED
      BY <2>5, <2>8, <2>9 DEF t
  <1> QED
    BY <1>2, <1>3

LEMMA GroupKeepsItsSettings ==
    ASSUME NEW old \in Config, NamesApart(old), NEW g \in Group
    PROVE  LET h == MergedGroup(old, g)
           IN  /\ h \in Group /\ h.name = g.name /\ h.ids = g.ids
               /\ \A i \in DOMAIN old.groups :
                     old.groups[i].name = g.name =>
                        h.enabled = old.groups[i].enabled /\ h.curve = old.groups[i].curve
  <1> DEFINE same == {i \in DOMAIN old.groups : old.groups[i].name = g.name}
             h == MergedGroup(old, g)
             o == old.groups[Max(same)]
  <1>1. h = IF same = {} THEN g ELSE GroupLike(g, o)
    BY DEF MergedGroup, GroupLike
  <1>2. CASE same = {}
    BY <1>1, <1>2
  <1>3. CASE same # {}
    <2>1. PICK i \in DOMAIN old.groups : old.groups[i].name = g.name
      BY <1>3
    <2>2. same = {i}
      BY <2>1 DEF NamesApart
    <2>3. i \in Int /\ old.groups[i] \in Group
      BY DEF Config
    <2>4. Max(same) = i
      BY <2>2, <2>3, OnlyOne
    <2>5. o = old.groups[i]
      BY <2>4
    <2> HIDE DEF o, h, same
    <2>6. o \in Group
      BY <2>3, <2>5
    <2>7. h = GroupLike(g, o)
      BY <1>1, <1>3
    <2>8. /\ h \in Group /\ h.enabled = o.enabled /\ h.curve = o.curve
          /\ h.name = g.name /\ h.ids = g.ids
      BY <2>6, <2>7, GroupSwitched
    <2>9. \A k \in DOMAIN old.groups : old.groups[k].name = g.name => k = i
      BY <2>1 DEF NamesApart
    <2> QED
      BY <2>5, <2>8, <2>9 DEF h
  <1> QED
    BY <1>2, <1>3

\* The groups carried over are those of the old file whose names are gone, each
\* once and as it was.
LEMMA CarriedAreGone ==
    ASSUME NEW old \in Config, NamesApart(old), NEW fresh
    PROVE  LET cs == Carried(old, fresh)
           IN  /\ cs \in Seq(Group)
               /\ \A n \in DOMAIN cs : /\ cs[n].name \notin Names(fresh)
                                       /\ \E i \in DOMAIN old.groups : cs[n] = old.groups[i]
               /\ \A n, m \in DOMAIN cs : cs[n].name = cs[m].name => n = m
               /\ \A i \in DOMAIN old.groups : old.groups[i].name \notin Names(fresh) =>
                     \E n \in DOMAIN cs : cs[n] = old.groups[i]
  <1> DEFINE I == {i \in DOMAIN old.groups : old.groups[i].name \notin Names(fresh)}
             c == Cardinality(I)
             cs == Carried(old, fresh)
  <1>1. /\ old.groups \in Seq(Group) /\ Len(old.groups) \in Nat
        /\ DOMAIN old.groups = 1 .. Len(old.groups)
        /\ \A i \in DOMAIN old.groups : old.groups[i] \in Group
    BY DEF Config
  <1>2. /\ I \in SUBSET (1 .. Len(old.groups)) /\ I \subseteq DOMAIN old.groups
        /\ \A i \in I : old.groups[i].name \notin Names(fresh)
        /\ \A i \in DOMAIN old.groups : old.groups[i].name \notin Names(fresh) => i \in I
    BY <1>1
  <1>3. cs = [n \in DOMAIN InOrder(I) |-> old.groups[InOrder(I)[n]]]
    BY DEF Carried
  <1> HIDE DEF I, cs
  <1>4. /\ c \in Nat
        /\ DOMAIN InOrder(I) = 1 .. c
        /\ \A k \in 1 .. c : InOrder(I)[k] \in I
        /\ \A k, l \in 1 .. c : InOrder(I)[k] = InOrder(I)[l] => k = l
        /\ \A i \in I : \E k \in 1 .. c : InOrder(I)[k] = i
    <2>1. PICK l \in Nat : I \in SUBSET (1 .. l)
      BY <1>1, <1>2
    <2>2. /\ Cardinality(I) \in Nat
          /\ DOMAIN InOrder(I) = 1 .. Cardinality(I)
          /\ \A k \in DOMAIN InOrder(I) : InOrder(I)[k] \in I
          /\ \A k, m \in DOMAIN InOrder(I) : InOrder(I)[k] = InOrder(I)[m] => k = m
          /\ \A i \in I : \E k \in DOMAIN InOrder(I) : InOrder(I)[k] = i
      BY <2>1, InOrderIsABijection, ZenonT(30)
    <2> QED
      BY <2>2
  <1> HIDE DEF c
  <1>5. /\ DOMAIN cs = 1 .. c
        /\ \A n \in 1 .. c : cs[n] = old.groups[InOrder(I)[n]]
    BY <1>3, <1>4
  <1>6. \A n \in 1 .. c : InOrder(I)[n] \in DOMAIN old.groups
    BY <1>2, <1>4
  <1>7. cs \in Seq(Group)
    <2>1. cs \in [1 .. c -> Group]
      BY <1>1, <1>3, <1>4, <1>5, <1>6
    <2> QED
      BY <1>4, <2>1
  <1>8. ASSUME NEW n \in 1 .. c
        PROVE  cs[n].name \notin Names(fresh) /\ \E i \in DOMAIN old.groups : cs[n] = old.groups[i]
    BY <1>2, <1>4, <1>5, <1>6
  <1>9. ASSUME NEW n \in 1 .. c, NEW m \in 1 .. c, cs[n].name = cs[m].name
        PROVE  n = m
    <2>1. InOrder(I)[n] = InOrder(I)[m]
      BY <1>5, <1>6, <1>9 DEF NamesApart
    <2> QED
      BY <1>4, <2>1
  <1>10. ASSUME NEW i \in DOMAIN old.groups, old.groups[i].name \notin Names(fresh)
         PROVE  \E n \in 1 .. c : cs[n] = old.groups[i]
    BY <1>2, <1>4, <1>5, <1>10
  <1> QED
    BY <1>5, <1>7, <1>8, <1>9, <1>10 DEF cs

-----------------------------------------------------------------------------
(* The merged file *)

OldOf(old) == Stored(old) /\ NamesApart(old) /\ Populated(old)

Settings(old, cfg) ==
    /\ \A i \in DOMAIN old.sensors, j \in DOMAIN cfg.sensors :
          old.sensors[i].key = cfg.sensors[j].key =>
             /\ cfg.sensors[j].limits = old.sensors[i].limits
             /\ cfg.sensors[j].disabled = old.sensors[i].disabled
    /\ \A i \in DOMAIN old.groups : \E j \in DOMAIN cfg.groups :
          /\ cfg.groups[j].name = old.groups[i].name
          /\ cfg.groups[j].enabled = old.groups[i].enabled
          /\ cfg.groups[j].curve = old.groups[i].curve

LEMMA MergedSensors ==
    ASSUME NEW old \in Config, KeysApart(old), NEW fresh \in Config
    PROVE  LET ms == Merged(old, fresh).sensors
           IN  /\ ms \in Seq(Sensor)
               /\ DOMAIN ms = DOMAIN fresh.sensors
               /\ \A i \in DOMAIN ms :
                     /\ ms[i].id = fresh.sensors[i].id
                     /\ ms[i].key = fresh.sensors[i].key
                     /\ ms[i].class = fresh.sensors[i].class
                     /\ \A k \in DOMAIN old.sensors :
                           old.sensors[k].key = ms[i].key =>
                              ms[i].limits = old.sensors[k].limits /\ ms[i].disabled = old.sensors[k].disabled
  <1> DEFINE ms == Merged(old, fresh).sensors
  <1>1. ms = [i \in DOMAIN fresh.sensors |-> MergedSensor(old, fresh.sensors[i])]
    BY DEF Merged
  <1>2. /\ fresh.sensors \in Seq(Sensor) /\ Len(fresh.sensors) \in Nat
        /\ DOMAIN fresh.sensors = 1 .. Len(fresh.sensors)
        /\ \A i \in DOMAIN fresh.sensors : fresh.sensors[i] \in Sensor
    BY DEF Config
  <1> HIDE DEF ms
  <1>3. DOMAIN ms = DOMAIN fresh.sensors
    BY <1>1
  <1>4. ASSUME NEW i \in DOMAIN fresh.sensors
        PROVE  /\ ms[i] \in Sensor
               /\ ms[i].id = fresh.sensors[i].id
               /\ ms[i].key = fresh.sensors[i].key
               /\ ms[i].class = fresh.sensors[i].class
               /\ \A k \in DOMAIN old.sensors :
                     old.sensors[k].key = ms[i].key =>
                        ms[i].limits = old.sensors[k].limits /\ ms[i].disabled = old.sensors[k].disabled
    <2>1. ms[i] = MergedSensor(old, fresh.sensors[i])
      BY <1>1
    <2> QED
      BY <1>2, <2>1, SensorKeepsItsSettings
  <1>5. ms \in Seq(Sensor)
    <2>1. ms \in [1 .. Len(fresh.sensors) -> Sensor]
      BY <1>1, <1>2, <1>3, <1>4
    <2> QED
      BY <1>2, <2>1
  <1> QED
    BY <1>3, <1>4, <1>5 DEF ms

\* Every group of a merged file is one of the probe with the old settings, or
\* an old one whose name is gone.
AsFound(old, fresh, g, i) ==
    /\ g.name = fresh.groups[i].name /\ g.ids = fresh.groups[i].ids
    /\ \A k \in DOMAIN old.groups :
          old.groups[k].name = g.name =>
             g.enabled = old.groups[k].enabled /\ g.curve = old.groups[k].curve

LEMMA MergedGroups ==
    ASSUME NEW old \in Config, NamesApart(old), NEW fresh \in Config, NamesApart(fresh)
    PROVE  LET gs == Merged(old, fresh).groups
           IN  /\ gs \in Seq(Group)
               /\ \A n \in DOMAIN gs :
                     \/ \E i \in DOMAIN fresh.groups : AsFound(old, fresh, gs[n], i)
                     \/ /\ gs[n].name \notin Names(fresh)
                        /\ \E i \in DOMAIN old.groups : gs[n] = old.groups[i]
               /\ \A i \in DOMAIN fresh.groups : \E n \in DOMAIN gs : AsFound(old, fresh, gs[n], i)
               /\ \A i \in DOMAIN old.groups : old.groups[i].name \notin Names(fresh) =>
                     \E n \in DOMAIN gs : gs[n] = old.groups[i]
               /\ \A n, m \in DOMAIN gs : gs[n].name = gs[m].name => n = m
  <1> DEFINE mg == [i \in DOMAIN fresh.groups |-> MergedGroup(old, fresh.groups[i])]
             cs == Carried(old, fresh)
             gs == Merged(old, fresh).groups
             a == Len(fresh.groups)
             b == Len(cs)
  <1>1. gs = mg \o cs
    BY DEF Merged
  <1>2. /\ fresh.groups \in Seq(Group) /\ a \in Nat
        /\ DOMAIN fresh.groups = 1 .. a
        /\ \A i \in 1 .. a : fresh.groups[i] \in Group
    BY DEF Config
  <1>3. /\ cs \in Seq(Group)
        /\ \A n \in DOMAIN cs : /\ cs[n].name \notin Names(fresh)
                                /\ \E i \in DOMAIN old.groups : cs[n] = old.groups[i]
        /\ \A n, m \in DOMAIN cs : cs[n].name = cs[m].name => n = m
        /\ \A i \in DOMAIN old.groups : old.groups[i].name \notin Names(fresh) =>
              \E n \in DOMAIN cs : cs[n] = old.groups[i]
    BY CarriedAreGone
  <1> HIDE DEF cs
  <1>4. b \in Nat /\ DOMAIN cs = 1 .. b
    BY <1>3
  <1>5. ASSUME NEW i \in 1 .. a
        PROVE  mg[i] \in Group /\ AsFound(old, fresh, mg[i], i) /\ mg[i].name = fresh.groups[i].name
    <2>1. mg[i] = MergedGroup(old, fresh.groups[i]) /\ fresh.groups[i] \in Group
      BY <1>2
    <2> HIDE DEF mg
    <2> QED
      BY <2>1, GroupKeepsItsSettings DEF AsFound
  <1>6. mg \in Seq(Group) /\ Len(mg) = a
    <2>1. mg \in [1 .. a -> Group]
      BY <1>2, <1>5
    <2> HIDE DEF mg
    <2> QED
      BY <1>2, <2>1
  <1> HIDE DEF mg, gs, a, b
  <1>7. /\ gs \in Seq(Group) /\ DOMAIN gs = 1 .. a + b
        /\ \A n \in 1 .. a : gs[n] = mg[n]
        /\ \A n \in 1 .. b : gs[a + n] = cs[n]
    BY <1>1, <1>2, <1>3, <1>4, <1>6 DEF b
  <1>8. \A n \in 1 .. a + b : n \in 1 .. a \/ \E k \in 1 .. b : n = a + k
    <2>1. ASSUME NEW n \in 1 .. a + b, ~(n \in 1 .. a) PROVE n - a \in 1 .. b /\ n = a + (n - a)
      BY <1>2, <1>4, <2>1
    <2> QED
      BY <2>1
  <1>9. \A n \in 1 .. a : n \in 1 .. a + b
    BY <1>2, <1>4
  <1>10. \A n \in 1 .. b : a + n \in 1 .. a + b
    BY <1>2, <1>4
  <1>11. ASSUME NEW n \in 1 .. a + b
         PROVE  \/ \E i \in DOMAIN fresh.groups : AsFound(old, fresh, gs[n], i)
                \/ /\ gs[n].name \notin Names(fresh)
                   /\ \E i \in DOMAIN old.groups : gs[n] = old.groups[i]
    <2>1. CASE n \in 1 .. a
      BY <1>2, <1>5, <1>7, <2>1
    <2>2. ASSUME NEW k \in 1 .. b, n = a + k
          PROVE  /\ gs[n].name \notin Names(fresh)
                 /\ \E i \in DOMAIN old.groups : gs[n] = old.groups[i]
      <3>1. gs[n] = cs[k] /\ k \in DOMAIN cs
        BY <1>4, <1>7, <2>2
      <3> QED
        BY <1>3, <3>1
    <2> QED
      BY <1>8, <2>1, <2>2
  <1>12. \A i \in DOMAIN fresh.groups : \E n \in 1 .. a + b : AsFound(old, fresh, gs[n], i)
    BY <1>2, <1>5, <1>7, <1>9
  <1>13. \A i \in DOMAIN old.groups : old.groups[i].name \notin Names(fresh) =>
            \E n \in 1 .. a + b : gs[n] = old.groups[i]
    BY <1>3, <1>4, <1>7, <1>10
  <1>14. ASSUME NEW n \in 1 .. a + b, NEW m \in 1 .. a + b, gs[n].name = gs[m].name
         PROVE  n = m
    <2>1. \A i \in 1 .. a : gs[i].name \in Names(fresh)
      BY <1>2, <1>5, <1>7 DEF Names
    <2>2. \A k \in 1 .. b : gs[a + k].name \notin Names(fresh)
      BY <1>3, <1>4, <1>7
    <2>3. CASE n \in 1 .. a /\ m \in 1 .. a
      BY <1>2, <1>5, <1>7, <1>14, <2>3, SMTT(30) DEF NamesApart
    <2>4. ASSUME NEW k \in 1 .. b, NEW l \in 1 .. b, n = a + k, m = a + l
          PROVE  n = m
      <3>1. cs[k].name = cs[l].name /\ k \in DOMAIN cs /\ l \in DOMAIN cs
        BY <1>4, <1>7, <1>14, <2>4
      <3>2. k = l
        BY <1>3, <3>1
      <3> QED
        BY <2>4, <3>2
    <2> QED
      BY <1>8, <1>14, <2>1, <2>2, <2>3, <2>4
  <1> QED
    BY <1>7, <1>11, <1>12, <1>13, <1>14 DEF gs

LEMMA MergedIsComplete ==
    ASSUME NEW old, OldOf(old), NEW fresh, Complete(fresh), Fresh(fresh)
    PROVE  Complete(Merged(old, fresh)) /\ Settings(old, Merged(old, fresh))
  <1> DEFINE new == Merged(old, fresh)
  <1>1. /\ old \in Config /\ KeysApart(old) /\ NamesApart(old) /\ NamesKnown(old) /\ Populated(old)
        /\ fresh \in Config /\ KeysApart(fresh) /\ NamesApart(fresh) /\ NamesKnown(fresh)
        /\ IdsApart(fresh)
    BY DEF OldOf, Complete, Stored
  <1>2. /\ new.sensors \in Seq(Sensor)
        /\ DOMAIN new.sensors = DOMAIN fresh.sensors
        /\ \A i \in DOMAIN new.sensors :
              /\ new.sensors[i].id = fresh.sensors[i].id
              /\ new.sensors[i].key = fresh.sensors[i].key
              /\ new.sensors[i].class = fresh.sensors[i].class
              /\ \A k \in DOMAIN old.sensors :
                    old.sensors[k].key = new.sensors[i].key =>
                       /\ new.sensors[i].limits = old.sensors[k].limits
                       /\ new.sensors[i].disabled = old.sensors[k].disabled
    BY <1>1, MergedSensors
  <1>3. /\ new.groups \in Seq(Group)
        /\ \A n \in DOMAIN new.groups :
              \/ \E i \in DOMAIN fresh.groups : AsFound(old, fresh, new.groups[n], i)
              \/ /\ new.groups[n].name \notin Names(fresh)
                 /\ \E i \in DOMAIN old.groups : new.groups[n] = old.groups[i]
        /\ \A i \in DOMAIN fresh.groups : \E n \in DOMAIN new.groups : AsFound(old, fresh, new.groups[n], i)
        /\ \A i \in DOMAIN old.groups : old.groups[i].name \notin Names(fresh) =>
              \E n \in DOMAIN new.groups : new.groups[n] = old.groups[i]
        /\ \A n, m \in DOMAIN new.groups : new.groups[n].name = new.groups[m].name => n = m
    BY <1>1, MergedGroups
  <1>4. new = [sensors |-> new.sensors, groups |-> new.groups]
    BY DEF Merged
  <1> HIDE DEF new
  <1>5. new \in Config
    BY <1>2, <1>3, <1>4 DEF Config
  <1>6. KeysApart(new) /\ IdsApart(new)
    BY <1>1, <1>2 DEF KeysApart, IdsApart
  <1>7. Ids(new) = Ids(fresh)
    BY <1>2 DEF Ids
  <1>8. NamesApart(new)
    BY <1>3 DEF NamesApart
  <1>9. NamesKnown(new)
    BY <1>1, <1>3 DEF NamesKnown, AsFound
  <1>10. Populated(new)
    BY <1>1, <1>3 DEF Populated, AsFound, Fresh
  <1>11. BrokenAreCarried(new)
    <2> SUFFICES ASSUME NEW n \in DOMAIN new.groups, NEW j \in DOMAIN new.sensors,
                        ~(new.groups[n].ids \subseteq Ids(new)),
                        new.sensors[j].class = new.groups[n].name
                 PROVE  FALSE
      BY DEF BrokenAreCarried
    <2>1. \A i \in DOMAIN fresh.groups : ~AsFound(old, fresh, new.groups[n], i)
      BY <1>7 DEF AsFound, Fresh
    <2>2. PICK i \in DOMAIN old.groups : new.groups[n] = old.groups[i]
      BY <1>3, <2>1
    <2>3. new.groups[n].name \notin Names(fresh)
      BY <1>3, <2>1
    <2>4. ~HasGroup(new.groups[n].name)
      BY <1>2, <2>3 DEF Fresh
    <2>5. new.groups[n].name = "custom"
      BY <1>1, <2>2, <2>4 DEF NamesKnown
    <2>6. new.sensors[j].class \in Class
      <3>1. new.sensors[j] \in Sensor
        BY <1>2
      <3> QED
        BY <3>1 DEF Sensor
    <2> QED
      BY <2>5, <2>6 DEF Class
  <1>12. ASSUME NEW i \in DOMAIN old.groups
         PROVE  \E j \in DOMAIN new.groups :
                   /\ new.groups[j].name = old.groups[i].name
                   /\ new.groups[j].enabled = old.groups[i].enabled
                   /\ new.groups[j].curve = old.groups[i].curve
    <2>1. CASE old.groups[i].name \in Names(fresh)
      <3>1. PICK k \in DOMAIN fresh.groups : fresh.groups[k].name = old.groups[i].name
        BY <2>1 DEF Names
      <3>2. PICK j \in DOMAIN new.groups : AsFound(old, fresh, new.groups[j], k)
        BY <1>3
      <3> QED
        BY <3>1, <3>2 DEF AsFound
    <2>2. CASE old.groups[i].name \notin Names(fresh)
      BY <1>3, <2>2
    <2> QED
      BY <2>1, <2>2
  <1>13. Settings(old, new)
    BY <1>2, <1>12 DEF Settings
  <1> QED
    BY <1>5, <1>6, <1>8, <1>9, <1>10, <1>11, <1>13 DEF Complete, Stored, new

LEMMA MergeIsComplete ==
    ASSUME NEW old, OldOf(old), NEW rows \in Probe
    PROVE  LET new == Merge(old, Run(rows))
           IN  Complete(new) /\ Current(new) /\ Settings(old, new)
  <1> DEFINE mid == Merged(old, Run(rows))
             new == MarkRequired(mid)
  <1>1. Complete(mid) /\ Settings(old, mid)
    BY RunIsComplete, MergedIsComplete
  <1>2. mid \in Config
    BY <1>1 DEF Complete, Stored
  <1>3. Complete(new) /\ Current(new)
    BY <1>1, MarkingKeeps
  <1>4. /\ new.groups = mid.groups
        /\ DOMAIN new.sensors = DOMAIN mid.sensors
        /\ \A i \in DOMAIN mid.sensors :
              /\ new.sensors[i].key = mid.sensors[i].key
              /\ new.sensors[i].limits = mid.sensors[i].limits
              /\ new.sensors[i].disabled = mid.sensors[i].disabled
    BY <1>2, MarkRequiredMarks
  <1> HIDE DEF mid, new
  <1>5. Settings(old, new)
    BY <1>1, <1>4 DEF Settings
  <1> QED
    BY <1>3, <1>5 DEF Merge, new, mid

-----------------------------------------------------------------------------
(* The operator's edits *)

LEMMA SensorReplaced ==
    ASSUME NEW cfg, Stored(cfg), NEW i \in DOMAIN cfg.sensors,
           NEW t \in Sensor, t.key = cfg.sensors[i].key
    PROVE  Stored([cfg EXCEPT !.sensors = [@ EXCEPT ![i] = t]])
  <1> DEFINE ss == [cfg.sensors EXCEPT ![i] = t]
             new == [cfg EXCEPT !.sensors = [@ EXCEPT ![i] = t]]
  <1>1. cfg \in Config /\ cfg.sensors \in Seq(Sensor)
    BY DEF Stored, Config
  <1>2. new \in Config /\ new.sensors = ss /\ new.groups = cfg.groups
    BY <1>1, SMTT(30) DEF Config
  <1>3. DOMAIN ss = DOMAIN cfg.sensors /\ \A j \in DOMAIN cfg.sensors : ss[j].key = cfg.sensors[j].key
    BY <1>1
  <1> HIDE DEF ss, new
  <1>4. KeysApart(new) /\ NamesKnown(new)
    BY <1>2, <1>3 DEF Stored, KeysApart, NamesKnown
  <1> QED
    BY <1>2, <1>4 DEF Stored, new

LEMMA GroupReplaced ==
    ASSUME NEW cfg, Stored(cfg), NEW i \in DOMAIN cfg.groups,
           NEW g \in Group, g.name = cfg.groups[i].name
    PROVE  Stored([cfg EXCEPT !.groups = [@ EXCEPT ![i] = g]])
  <1> DEFINE gs == [cfg.groups EXCEPT ![i] = g]
             new == [cfg EXCEPT !.groups = [@ EXCEPT ![i] = g]]
  <1>1. cfg \in Config /\ cfg.groups \in Seq(Group)
    BY DEF Stored, Config
  <1>2. new \in Config /\ new.groups = gs /\ new.sensors = cfg.sensors
    BY <1>1 DEF Config
  <1>3. DOMAIN gs = DOMAIN cfg.groups /\ \A j \in DOMAIN cfg.groups : gs[j].name = cfg.groups[j].name
    BY <1>1
  <1> HIDE DEF gs, new
  <1>4. KeysApart(new) /\ NamesKnown(new)
    BY <1>2, <1>3 DEF Stored, KeysApart, NamesKnown
  <1> QED
    BY <1>2, <1>4 DEF Stored, new

LEMMA GroupAdded ==
    ASSUME NEW cfg, Stored(cfg), NEW g \in Group, g.name = "custom"
    PROVE  Stored([cfg EXCEPT !.groups = Append(@, g)])
  <1> DEFINE gs == Append(cfg.groups, g)
             new == [cfg EXCEPT !.groups = Append(@, g)]
  <1>1. cfg \in Config /\ cfg.groups \in Seq(Group)
    BY DEF Stored, Config
  <1>2. new \in Config /\ new.groups = gs /\ new.sensors = cfg.sensors
    <2>1. gs \in Seq(Group)
      BY <1>1
    <2>2. new = [cfg EXCEPT !.groups = gs]
      OBVIOUS
    <2> HIDE DEF gs, new
    <2> QED
      BY <1>1, <2>1, <2>2 DEF Config
  <1>3. \A j \in DOMAIN gs : gs[j] = g \/ \E k \in DOMAIN cfg.groups : gs[j] = cfg.groups[k]
    BY <1>1
  <1> HIDE DEF gs, new
  <1>4. KeysApart(new) /\ NamesKnown(new)
    BY <1>2, <1>3 DEF Stored, KeysApart, NamesKnown
  <1> QED
    BY <1>2, <1>4 DEF Stored, new


LEMMA LimitsTuned ==
    ASSUME NEW cfg, Stored(cfg), NEW i \in DOMAIN cfg.sensors
    PROVE  Stored([cfg EXCEPT !.sensors[i].limits = "tuned"])
  <1> DEFINE t == [cfg.sensors[i] EXCEPT !.limits = "tuned"]
  <1>1. cfg.sensors[i] \in Sensor
    BY DEF Stored, Config
  <1>2. t \in Sensor /\ t.key = cfg.sensors[i].key
    BY <1>1 DEF Sensor
  <1>3. [cfg EXCEPT !.sensors[i].limits = "tuned"] = [cfg EXCEPT !.sensors = [@ EXCEPT ![i] = t]]
    OBVIOUS
  <1> HIDE DEF t
  <1> QED
    BY <1>2, <1>3, SensorReplaced

LEMMA MinimumTuned ==
    ASSUME NEW cfg, Stored(cfg), NEW i \in DOMAIN cfg.sensors
    PROVE  Stored([cfg EXCEPT !.sensors[i].minRPM = "tuned"])
  <1> DEFINE t == [cfg.sensors[i] EXCEPT !.minRPM = "tuned"]
  <1>1. cfg.sensors[i] \in Sensor
    BY DEF Stored, Config
  <1>2. t \in Sensor /\ t.key = cfg.sensors[i].key
    BY <1>1 DEF Sensor
  <1>3. [cfg EXCEPT !.sensors[i].minRPM = "tuned"] = [cfg EXCEPT !.sensors = [@ EXCEPT ![i] = t]]
    OBVIOUS
  <1> HIDE DEF t
  <1> QED
    BY <1>2, <1>3, SensorReplaced

LEMMA SensorToggled ==
    ASSUME NEW cfg, Stored(cfg), NEW i \in DOMAIN cfg.sensors
    PROVE  Stored([cfg EXCEPT !.sensors[i].disabled = ~@])
  <1> DEFINE t == [cfg.sensors[i] EXCEPT !.disabled = ~@]
  <1>1. cfg.sensors[i] \in Sensor
    BY DEF Stored, Config
  <1>2. t \in Sensor /\ t.key = cfg.sensors[i].key
    BY <1>1 DEF Sensor
  <1>3. [cfg EXCEPT !.sensors[i].disabled = ~@] = [cfg EXCEPT !.sensors = [@ EXCEPT ![i] = t]]
    OBVIOUS
  <1> HIDE DEF t
  <1> QED
    BY <1>2, <1>3, SensorReplaced

LEMMA GroupTuned ==
    ASSUME NEW cfg, Stored(cfg), NEW i \in DOMAIN cfg.groups
    PROVE  Stored([cfg EXCEPT !.groups[i].enabled = ~@, !.groups[i].curve = "tuned"])
  <1> DEFINE g == [cfg.groups[i] EXCEPT !.enabled = ~@, !.curve = "tuned"]
  <1>1. cfg.groups[i] \in Group /\ cfg.groups \in Seq(Group) /\ cfg \in Config
    BY DEF Stored, Config
  <1>2. g \in Group /\ g.name = cfg.groups[i].name
    BY <1>1 DEF Group
  <1>3. [cfg EXCEPT !.groups[i].enabled = ~@, !.groups[i].curve = "tuned"]
        = [cfg EXCEPT !.groups = [@ EXCEPT ![i] = g]]
    BY <1>1 DEF Config, Group
  <1> HIDE DEF g
  <1> QED
    BY <1>2, <1>3, GroupReplaced

-----------------------------------------------------------------------------
(* The inductive invariant *)

Types ==
    /\ file \in [there : BOOLEAN, whole : BOOLEAN, parses : BOOLEAN, cfg : Config]
    /\ pending \in [mode : {"none", "merge", "fresh"}, old : Config, cfg : Config]
    /\ file.whole => file.parses
    /\ file.parses => file.there

\* Whatever is left of the file can be merged; a complete one is as it should
\* be, and so is what is about to be written.
DiscInv ==
    /\ Types
    /\ Stored(file.cfg)
    /\ file.whole => Complete(file.cfg)
    /\ file.whole /\ ~touched => Current(file.cfg)
    /\ Complete(pending.cfg) /\ Current(pending.cfg)
    /\ pending.mode = "merge" => Settings(pending.old, pending.cfg)

LEMMA EmptyIsComplete == Complete(Empty) /\ Current(Empty)
  <1>1. Empty \in Config
    BY DEF Empty, Config
  <1>2. DOMAIN Empty.sensors = {} /\ DOMAIN Empty.groups = {}
    BY DEF Empty
  <1> QED
    BY <1>1, <1>2 DEF Complete, Stored, KeysApart, NamesKnown, IdsApart, NamesApart, Populated,
                      BrokenAreCarried, Current

LEMMA DiscInvInit == DInit => DiscInv
  <1> SUFFICES ASSUME DInit PROVE DiscInv
    OBVIOUS
  <1>1. Empty \in Config /\ Stored(Empty)
    BY EmptyIsComplete DEF Complete, Stored
  <1>2. Types
    BY <1>1 DEF DInit, Nothing, Types
  <1> QED
    BY <1>1, <1>2, EmptyIsComplete DEF DInit, Nothing, DiscInv

LEMMA DiscoverKeeps ==
    ASSUME DiscInv, NEW rows \in Probe, NEW force \in BOOLEAN, NEW reset \in BOOLEAN,
           Discover(rows, force, reset)
    PROVE  DiscInv'
  <1> DEFINE merges == force /\ ~reset /\ Loads
  <1>1. file' = file /\ touched' = touched
    BY DEF Discover
  <1>2. CASE merges
    <2>1. pending' = [mode |-> "merge", old |-> file.cfg, cfg |-> Merge(file.cfg, Run(rows))]
      BY <1>2 DEF Discover
    <2>2. OldOf(file.cfg)
      BY <1>2 DEF DiscInv, OldOf, Loads, Valid, NamesApart, Populated
    <2>3. \A old : OldOf(old) => /\ Complete(Merge(old, Run(rows))) /\ Current(Merge(old, Run(rows)))
                                 /\ Settings(old, Merge(old, Run(rows)))
      BY MergeIsComplete
    <2>4. /\ Complete(pending'.cfg) /\ Current(pending'.cfg)
          /\ Settings(pending'.old, pending'.cfg)
      BY <2>1, <2>2, <2>3
    <2>5. pending' \in [mode : {"none", "merge", "fresh"}, old : Config, cfg : Config]
      BY <2>1, <2>2, <2>4 DEF Complete, Stored, OldOf
    <2> QED
      BY <1>1, <2>4, <2>5 DEF DiscInv, Types
  <1>3. CASE ~merges
    <2>1. pending' = [mode |-> "fresh", old |-> Empty, cfg |-> Run(rows)]
      BY <1>3 DEF Discover
    <2>2. Complete(pending'.cfg) /\ Current(pending'.cfg)
      BY <2>1, RunIsComplete
    <2>3. pending' \in [mode : {"none", "merge", "fresh"}, old : Config, cfg : Config]
      BY <2>1, <2>2, EmptyIsComplete DEF Complete, Stored
    <2>4. pending'.mode # "merge"
      BY <2>1
    <2> QED
      BY <1>1, <2>2, <2>3, <2>4 DEF DiscInv, Types
  <1> QED
    BY <1>2, <1>3

LEMMA WriteKeeps ==
    ASSUME DiscInv, Write
    PROVE  DiscInv'
  <1>1. /\ file' = [there |-> TRUE, whole |-> TRUE, parses |-> TRUE, cfg |-> pending.cfg]
        /\ pending' = Nothing
    BY DEF Write
  <1>2. Complete(pending.cfg) /\ Current(pending.cfg) /\ pending.cfg \in Config
    BY DEF DiscInv, Complete, Stored
  <1>3. /\ file' \in [there : BOOLEAN, whole : BOOLEAN, parses : BOOLEAN, cfg : Config]
        /\ file'.cfg = pending.cfg /\ file'.parses /\ file'.there
    BY <1>1, <1>2
  <1>4. /\ pending'.cfg = Empty /\ pending'.mode = "none"
        /\ pending' \in [mode : {"none", "merge", "fresh"}, old : Config, cfg : Config]
    BY <1>1, EmptyIsComplete DEF Nothing, Complete, Stored
  <1>5. Types'
    BY <1>3, <1>4 DEF Types
  <1> QED
    BY <1>2, <1>3, <1>4, <1>5, EmptyIsComplete DEF DiscInv, Complete

LEMMA PrefixIsStored ==
    ASSUME NEW cfg, Stored(cfg), NEW k \in 0 .. Len(cfg.sensors), NEW l \in 0 .. Len(cfg.groups)
    PROVE  Stored([sensors |-> SubSeq(cfg.sensors, 1, k), groups |-> SubSeq(cfg.groups, 1, l)])
  <1> DEFINE ss == SubSeq(cfg.sensors, 1, k)
             gs == SubSeq(cfg.groups, 1, l)
             new == [sensors |-> ss, groups |-> gs]
  <1>1. cfg.sensors \in Seq(Sensor) /\ cfg.groups \in Seq(Group)
    BY DEF Stored, Config
  <1>2. /\ ss \in Seq(Sensor)
        /\ \A i \in DOMAIN ss : i \in DOMAIN cfg.sensors /\ ss[i] = cfg.sensors[i]
    BY <1>1
  <1>3. /\ gs \in Seq(Group)
        /\ \A i \in DOMAIN gs : i \in DOMAIN cfg.groups /\ gs[i] = cfg.groups[i]
    BY <1>1
  <1> HIDE DEF ss, gs
  <1>4. KeysApart(new) /\ NamesKnown(new)
    BY <1>2, <1>3 DEF Stored, KeysApart, NamesKnown
  <1>5. new \in Config
    BY <1>2, <1>3 DEF Config
  <1> QED
    BY <1>4, <1>5 DEF Stored, ss, gs

LEMMA CrashKeeps ==
    ASSUME DiscInv, CrashInWrite
    PROVE  DiscInv'
  <1>1. PICK k \in 0 .. Len(pending.cfg.sensors), l \in 0 .. Len(pending.cfg.groups), b \in BOOLEAN :
           file' = [there |-> TRUE, whole |-> FALSE, parses |-> b,
                    cfg |-> [sensors |-> SubSeq(pending.cfg.sensors, 1, k),
                             groups |-> SubSeq(pending.cfg.groups, 1, l)]]
    BY DEF CrashInWrite
  <1>2. \A cfg : Stored(cfg) =>
           \A m \in 0 .. Len(cfg.sensors), n \in 0 .. Len(cfg.groups) :
              Stored([sensors |-> SubSeq(cfg.sensors, 1, m), groups |-> SubSeq(cfg.groups, 1, n)])
    BY PrefixIsStored
  <1>3. Stored(pending.cfg)
    BY DEF DiscInv, Complete
  <1>4. Stored([sensors |-> SubSeq(pending.cfg.sensors, 1, k), groups |-> SubSeq(pending.cfg.groups, 1, l)])
    BY <1>2, <1>3
  <1>5. \A c : Stored(c) /\ file' = [there |-> TRUE, whole |-> FALSE, parses |-> b, cfg |-> c]
           => /\ file' \in [there : BOOLEAN, whole : BOOLEAN, parses : BOOLEAN, cfg : Config]
              /\ Stored(file'.cfg) /\ ~file'.whole /\ file'.there
    BY DEF Stored
  <1>6. /\ file' \in [there : BOOLEAN, whole : BOOLEAN, parses : BOOLEAN, cfg : Config]
        /\ Stored(file'.cfg) /\ ~file'.whole /\ file'.there
    BY <1>1, <1>4, <1>5
  <1>7. /\ pending'.cfg = Empty /\ pending'.mode = "none"
        /\ pending' \in [mode : {"none", "merge", "fresh"}, old : Config, cfg : Config]
    BY EmptyIsComplete DEF CrashInWrite, Nothing, Complete, Stored
  <1>8. Types'
    BY <1>6, <1>7 DEF Types
  <1> QED
    BY <1>6, <1>7, <1>8, EmptyIsComplete DEF DiscInv

LEMMA EditsKeep ==
    ASSUME DiscInv, Edits
    PROVE  DiscInv'
  <1>1. \E cfg : Edit(cfg) /\ Stored(cfg)
    <2> DEFINE c == file.cfg
    <2>1. Stored(c)
      BY DEF DiscInv
    <2>2. CASE \E i \in DOMAIN c.sensors : Edit([c EXCEPT !.sensors[i].limits = "tuned"])
      <3>1. \A f : Stored(f) => \A i \in DOMAIN f.sensors : Stored([f EXCEPT !.sensors[i].limits = "tuned"])
        BY LimitsTuned
      <3> QED
        BY <2>1, <2>2, <3>1
    <2>6. CASE \E i \in DOMAIN c.sensors : Edit([c EXCEPT !.sensors[i].minRPM = "tuned"])
      <3>1. \A f : Stored(f) => \A i \in DOMAIN f.sensors : Stored([f EXCEPT !.sensors[i].minRPM = "tuned"])
        BY MinimumTuned
      <3> QED
        BY <2>1, <2>6, <3>1
    <2>3. CASE \E i \in DOMAIN c.sensors : Edit([c EXCEPT !.sensors[i].disabled = ~@])
      <3>1. \A f : Stored(f) => \A i \in DOMAIN f.sensors : Stored([f EXCEPT !.sensors[i].disabled = ~@])
        BY SensorToggled
      <3> QED
        BY <2>1, <2>3, <3>1
    <2>4. CASE \E i \in DOMAIN c.groups :
                  Edit([c EXCEPT !.groups[i].enabled = ~@, !.groups[i].curve = "tuned"])
      <3>1. \A f : Stored(f) => \A i \in DOMAIN f.groups :
               Stored([f EXCEPT !.groups[i].enabled = ~@, !.groups[i].curve = "tuned"])
        BY GroupTuned
      <3> QED
        BY <2>1, <2>4, <3>1
    <2>5. CASE \E ids \in CustomIds :
                  Edit([c EXCEPT !.groups = Append(@,
                           [name |-> "custom", ids |-> ids, enabled |-> TRUE, curve |-> "tuned"])])
      <3> DEFINE g(ids) == [name |-> "custom", ids |-> ids, enabled |-> TRUE, curve |-> "tuned"]
      <3>1. \A ids \in CustomIds : g(ids) \in Group /\ g(ids).name = "custom"
        BY ProbeAssumption DEF Group
      <3>2. \A f : Stored(f) => \A h \in Group : h.name = "custom" => Stored([f EXCEPT !.groups = Append(@, h)])
        BY GroupAdded
      <3>3. PICK ids \in CustomIds : Edit([c EXCEPT !.groups = Append(@, g(ids))])
        BY <2>5
      <3> HIDE DEF g
      <3> QED
        BY <2>1, <3>1, <3>2, <3>3
    <2> QED
      BY <2>2, <2>6, <2>3, <2>4, <2>5 DEF Edits
  <1>2. PICK cfg : Edit(cfg) /\ Stored(cfg)
    BY <1>1
  <1>3. file' = [file EXCEPT !.cfg = cfg] /\ pending' = pending /\ touched' /\ Valid(cfg)
    BY <1>2 DEF Edit
  <1>4. cfg \in Config
    BY <1>2 DEF Stored
  <1>5. /\ file' \in [there : BOOLEAN, whole : BOOLEAN, parses : BOOLEAN, cfg : Config]
        /\ file'.cfg = cfg /\ file'.whole = file.whole
        /\ file'.parses = file.parses /\ file'.there = file.there
    BY <1>3, <1>4 DEF DiscInv, Types
  <1>6. Types'
    BY <1>3, <1>5 DEF DiscInv, Types
  <1>7. Complete(cfg)
    BY <1>2, <1>3, ValidIsComplete
  <1> QED
    BY <1>2, <1>3, <1>5, <1>6, <1>7 DEF DiscInv

LEMMA DiscInvariance == DSpec => []DiscInv
  <1>1. ASSUME DiscInv, UNCHANGED dvars PROVE DiscInv'
    BY <1>1 DEF DiscInv, Types, dvars
  <1>2. DiscInv /\ [DNext]_dvars => DiscInv'
    BY <1>1, DiscoverKeeps, WriteKeeps, CrashKeeps, EditsKeep DEF DNext
  <1> QED
    BY <1>2, DiscInvInit, PTL DEF DSpec

-----------------------------------------------------------------------------
(* What the invariant says of the file *)

\* Entries with different values of a field are as many as its values.
LEMMA Counted ==
    ASSUME NEW n \in Nat, NEW S, NEW f \in [1 .. n -> S],
           \A i, j \in 1 .. n : f[i] = f[j] => i = j,
           \A x \in S : \E i \in 1 .. n : f[i] = x
    PROVE  Cardinality(S) = n
  <1>1. f \in Bijection(1 .. n, S)
    BY DEF Bijection, Injection, IsInjective, Surjection
  <1> QED
    BY <1>1, FS_CountingElements DEF ExistsBijection

LEMMA CompleteIsCounted ==
    ASSUME NEW cfg, Complete(cfg)
    PROVE  /\ Cardinality(Ids(cfg)) = Len(cfg.sensors)
           /\ Cardinality(Names(cfg)) = Len(cfg.groups)
  <1>1. /\ Len(cfg.sensors) \in Nat /\ DOMAIN cfg.sensors = 1 .. Len(cfg.sensors)
        /\ Len(cfg.groups) \in Nat /\ DOMAIN cfg.groups = 1 .. Len(cfg.groups)
    BY DEF Complete, Stored, Config
  <1>2. Cardinality(Ids(cfg)) = Len(cfg.sensors)
    <2> DEFINE f == [i \in 1 .. Len(cfg.sensors) |-> cfg.sensors[i].id]
    <2>1. f \in [1 .. Len(cfg.sensors) -> Ids(cfg)]
      BY <1>1 DEF Ids
    <2>2. \A i, j \in 1 .. Len(cfg.sensors) : f[i] = f[j] => i = j
      BY <1>1 DEF Complete, IdsApart
    <2>3. \A x \in Ids(cfg) : \E i \in 1 .. Len(cfg.sensors) : f[i] = x
      BY <1>1 DEF Ids
    <2> HIDE DEF f
    <2> QED
      BY <1>1, <2>1, <2>2, <2>3, Counted
  <1>3. Cardinality(Names(cfg)) = Len(cfg.groups)
    <2> DEFINE f == [i \in 1 .. Len(cfg.groups) |-> cfg.groups[i].name]
    <2>1. f \in [1 .. Len(cfg.groups) -> Names(cfg)]
      BY <1>1 DEF Names
    <2>2. \A i, j \in 1 .. Len(cfg.groups) : f[i] = f[j] => i = j
      BY <1>1 DEF Complete, NamesApart
    <2>3. \A x \in Names(cfg) : \E i \in 1 .. Len(cfg.groups) : f[i] = x
      BY <1>1 DEF Names
    <2> HIDE DEF f
    <2> QED
      BY <1>1, <2>1, <2>2, <2>3, Counted
  <1> QED
    BY <1>2, <1>3

\* The file and what is about to be written are configurations, and a file that
\* discover completed has its identifiers and group names apart (uniqueID and
\* Merge in discover.go), for all hardware and after any merges and crashes.
THEOREM DiscoveryTypeCorrect == DSpec => []DiscTypeOK
  <1>1. \A cfg : Complete(cfg) => /\ Cardinality(Ids(cfg)) = Len(cfg.sensors)
                                  /\ Cardinality(Names(cfg)) = Len(cfg.groups)
    BY CompleteIsCounted
  <1>2. DiscInv => DiscTypeOK
    BY <1>1 DEF DiscInv, Types, DiscTypeOK
  <1> QED
    BY <1>2, DiscInvariance, PTL

\* A file that discover completed loads, unless a group that Merge carried over
\* names a sensor that is gone.
THEOREM DiscoveredFilesLoad == DSpec => []OnlyCarriedGroupsBreakTheFile
  <1>1. DiscInv => OnlyCarriedGroupsBreakTheFile
    <2> SUFFICES ASSUME DiscInv, file.whole, ~Loads
                 PROVE  \E i \in DOMAIN file.cfg.groups :
                           /\ file.cfg.groups[i].enabled /\ ~(file.cfg.groups[i].ids \subseteq Ids(file.cfg))
                           /\ \A j \in DOMAIN file.cfg.sensors :
                                 file.cfg.sensors[j].class # file.cfg.groups[i].name
      BY DEF OnlyCarriedGroupsBreakTheFile
    <2>1. Complete(file.cfg) /\ ~Valid(file.cfg)
      BY DEF DiscInv, Types, Loads
    <2>2. PICK i \in DOMAIN file.cfg.groups :
             /\ file.cfg.groups[i].enabled
             /\ ~(file.cfg.groups[i].ids # {} /\ file.cfg.groups[i].ids \subseteq Ids(file.cfg))
      BY <2>1 DEF Valid, Complete, IdsApart, NamesApart
    <2>3. ~(file.cfg.groups[i].ids \subseteq Ids(file.cfg))
      BY <2>1, <2>2 DEF Complete, Populated
    <2> QED
      BY <2>1, <2>2, <2>3 DEF Complete, BrokenAreCarried
  <1> QED
    BY <1>1, DiscInvariance, PTL

\* discover --force on a file that loads keeps the temperature limits and the
\* switch of every sensor found again and the curve and switch of every group
\* (Merge), however the hardware changed and however often it is done.  It says
\* nothing of a fan's minimum speed, which Merge does not keep.
THEOREM EditsAlwaysSurvive == DSpec => []EditsSurvive
  <1>1. DiscInv => EditsSurvive
    BY DEF DiscInv, Settings, EditsSurvive
  <1> QED
    BY <1>1, DiscInvariance, PTL

\* As long as nobody edits the file, the sensors it requires are the fans and
\* those of its enabled groups (markRequired, after Run and after Merge).
THEOREM RequiredStaysCurrent == DSpec => []RequiredIsCurrent
  <1>1. DiscInv => RequiredIsCurrent
    BY DEF DiscInv, Current, RequiredIsCurrent
  <1> QED
    BY <1>1, DiscInvariance, PTL
=============================================================================
