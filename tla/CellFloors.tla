----------------------------- MODULE CellFloors ------------------------------
(* The buildings of the world page (world/export.py _buildings_pass): the floors *)
(* of every cell, byte for byte, the voids of the poison a compaction left, the  *)
(* run words of a run cell, and what rides the ring (_city_pass).  A layer is    *)
(* computed once, out of the layer before it.                                    *)
(* Beside them the types of the arena as the page's reader lays the bytes of     *)
(* their values out (ArenaScene.layout), the paths a value names (decode_paths)  *)
(* and the aliases it is written through (alias_uses).  The two share no state.  *)
EXTENDS Integers, FiniteSets, SequencesExt

CONSTANTS
  Cells,        \* what a cell of the stream may be: [kind, payload, refs, cut, run, good]
  Frees,        \* the same of spans that hold no object
  Width,        \* the most cells of a stream
  PoisonRun, VoidTile, DistrictSpan,
  Types,      \* the descriptors: sequences of [form, size, variable, fields]
  Aliases,    \* the aliases of the scope: sequences of [name, target], a target is a path
  MaxHeld,    \* how many leaves of a value name something
  MaxDepth, None

VARIABLES
  magic,        \* "RXFA" for an arena of records, "RXFW" for the world's cells
  stream, poison, buildings, city,
  types,
  built,      \* what layout keeps of the last type
  value,      \* the payload: the bytes it has, whether a gap is not zero, what leaf k holds
  aliases, uses

vars == <<magic, stream, poison, buildings, city>>

Up(n, align) == ((n + align - 1) \div align) * align
Total(s) == FoldSeq(+, 0, s)

Record == magic = "RXFA"
HeaderBytes == IF Record THEN 24 ELSE 64
Align == IF Record THEN 8 ELSE 16
HeaderWords == IF Record THEN <<2, 2, 2, 2, 4, 4, 4, 4>> ELSE <<8, 8, 8, 8, 8, 4, 4, 8, 4, 4>>
RunRegions == <<28, 36, 208, 8>>
RefBytes == IF Record THEN 0 ELSE 24   \* a record's rows live in a table of their own
RunStates == <<"FREE", "READY", "RUNNING", "PARKED", "TERMINAL">>

----------------------------------------------------------------------------

\* The span of a cell: a dead one may be cut short of what its header says.
SpanOf(c) == Up(HeaderBytes + Up(c.payload, Align) + RefBytes * c.refs, Align) - c.cut
OffsetOf(i) == LET at[k \in 1..Len(stream)] == IF k = 1 THEN 0 ELSE at[k - 1] + SpanOf(stream[k - 1]) IN at[i]
Body == OffsetOf(Len(stream)) + SpanOf(stream[Len(stream)])

\* _poison_runs: the runs of the poison byte that are long enough, and _poison_hosts.
PoisonRuns == SelectSeq(poison, LAMBDA run : run[2] >= PoisonRun)
Inside(i, at) == OffsetOf(i) <= at /\ at < OffsetOf(i) + SpanOf(stream[i])
HostOf(run) == {i \in DOMAIN stream : Inside(i, run[1])}
Poisoned(i) == \E k \in DOMAIN PoisonRuns : i \in HostOf(PoisonRuns[k])

\* _split_regions: by the largest remainder, the first of equals.
Split(size) ==
  LET sum == Total(RunRegions)
      part(k) == (size * RunRegions[k]) \div sum
      rest(k) == (size * RunRegions[k]) % sum
      left == size - Total([k \in 1..4 |-> part(k)])
      before(k) == {j \in 1..4 : rest(j) > rest(k) \/ (rest(j) = rest(k) /\ j < k)}
  IN [k \in 1..4 |-> part(k) + IF Cardinality(before(k)) < left THEN 1 ELSE 0]

\* _anatomy and _anatomy_record: the floors by their sizes, in the order of the bytes.
Family(c) == IF c.kind = "run" THEN "tower" ELSE IF c.kind = "dead" THEN "rubble" ELSE "block"
Bands(i) ==
  LET c == stream[i]
      body == IF Poisoned(i) THEN <<c.payload>>
              ELSE IF Family(c) = "tower" /\ c.payload >= 32
              THEN SelectSeq(Split(c.payload), LAMBDA n : n > 0)
              ELSE SelectSeq(<<c.payload>>, LAMBDA n : n > 0)
      slot == Up(c.payload, Align) - c.payload
      rows == RefBytes * c.refs
      end == HeaderBytes + c.payload + slot + rows
  IN HeaderWords \o body \o SelectSeq(<<slot, rows, Up(end, Align) - end>>, LAMBDA n : n > 0)
\* The floors end where the cell ends: padded out, or cut from the top.
FittedUncut(i) ==
  LET bands == Bands(i)   size == SpanOf(stream[i]) IN
  IF Total(bands) < size THEN Append(bands, size - Total(bands)) ELSE bands
Fitted(i) ==
  LET bands == Bands(i)   size == SpanOf(stream[i])
      below(k) == Total(SubSeq(bands, 1, k - 1))
      cut == [k \in DOMAIN bands |-> IF below(k) + bands[k] <= size THEN bands[k]
                                     ELSE IF below(k) < size THEN size - below(k) ELSE 0]
  IN IF Total(bands) < size THEN Append(bands, size - Total(bands))
     ELSE IF Total(bands) = size THEN bands
     ELSE SelectSeq(cut, LAMBDA n : n > 0)

\* _run_words: only of a run cell with a payload of just the shape of a run.
RunWords(c) ==
  IF Family(c) # "tower" \/ c.payload # Total(RunRegions) \/ c.run \notin 1..Len(RunStates)
  THEN <<"none", "none">>
  ELSE <<RunStates[c.run], IF c.good THEN "ok" ELSE "bad">>

Building(i) ==
  [offset |-> OffsetOf(i), size |-> SpanOf(stream[i]), region |-> OffsetOf(i) \div DistrictSpan,
   family |-> Family(stream[i]), floors |-> Fitted(i), poisoned |-> Poisoned(i),
   state |-> RunWords(stream[i])[1], checksum |-> RunWords(stream[i])[2]]

\* The voids of a run: tiles of at most VoidTile bytes, at the cell the run starts in.
TilesOf(run) ==
  [k \in 1..((run[2] + VoidTile - 1) \div VoidTile) |->
     [offset |-> run[1] + (k - 1) * VoidTile,
      size |-> IF k * VoidTile <= run[2] THEN VoidTile ELSE run[2] - (k - 1) * VoidTile,
      hosts |-> HostOf(run), region |-> run[1] \div DistrictSpan]]
Voids == FlattenSeq([k \in DOMAIN PoisonRuns |-> TilesOf(PoisonRuns[k])])

----------------------------------------------------------------------------

BuildingsPass ==
  /\ buildings = <<>>
  /\ buildings' = <<[i \in DOMAIN stream |-> Building(i)], Voids>>
  /\ UNCHANGED <<magic, stream, poison, city>>

\* _city_pass: the trams are the runs in a slot of the ring; a parked one is off the road.
CellsOf == buildings[1]
OnRoad == SelectSeq(CellsOf, LAMBDA c : c.family = "tower" /\ c.state \in {"READY", "RUNNING"})
Carried(state) == Cardinality({i \in DOMAIN CellsOf : CellsOf[i].state = state})
Verdicts(v) == Cardinality({i \in DOMAIN CellsOf : CellsOf[i].checksum = v})
CityPass ==
  /\ buildings # <<>> /\ city = <<>>
  /\ city' = <<[trams |-> OnRoad, occupied |-> Len(OnRoad),
                ring |-> [s \in {RunStates[k] : k \in DOMAIN RunStates} |-> Carried(s)],
                ok |-> Verdicts("ok"), bad |-> Verdicts("bad")]>>
  /\ UNCHANGED <<magic, stream, poison, buildings>>

\* Poison fills from behind the header of a cell, or from behind the last cell where no
\* cell is, past as many cells as it likes: the body may be longer than its cells.
PoisonStarts == {OffsetOf(i) + HeaderBytes : i \in {j \in DOMAIN stream : HeaderBytes < SpanOf(stream[j])}}
                \cup {Body}
Init ==
  /\ magic \in {"RXFA", "RXFW"}
  /\ \E n \in 1..Width : stream \in [1..n -> Cells \cup Frees]
  /\ \A i \in DOMAIN stream : stream[i].cut = 0 \/ (stream[i].kind = "dead" /\ ~ Record)
  /\ \/ poison = <<>>
     \/ \E at \in PoisonStarts, n \in {PoisonRun - 1, PoisonRun, VoidTile, 2 * VoidTile + 1} :
          poison = <<<<at, n>>>>
  /\ buildings = <<>> /\ city = <<>>
Next == BuildingsPass \/ CityPass
Spec == Init /\ [][Next]_vars

----------------------------------------------------------------------------

\* "The bands are contiguous and sum to the cell size": the floors are the cell's bytes,
\* whatever cut it short and whoever left poison in it, and every floor has bytes but one:
\* the poison band of a poisoned cell that has no payload and was not cut.  The voids are
\* the bytes of the poison, at a building that says it is poisoned, or at none where the
\* poison is behind the cells; and the ring shows as many trams as its states say are in
\* a slot.
FloorsAreBytes ==
  buildings # <<>> =>
    /\ \A i \in DOMAIN CellsOf :
         /\ Total(CellsOf[i].floors) = CellsOf[i].size
         /\ \A k \in DOMAIN CellsOf[i].floors :
              \/ CellsOf[i].floors[k] > 0
              \/ CellsOf[i].poisoned /\ stream[i].payload = 0 /\ k = Len(HeaderWords) + 1
    /\ LET voids == buildings[2] IN
       /\ \A k \in DOMAIN voids :
            /\ voids[k].size > 0
            /\ \/ \E i \in voids[k].hosts : CellsOf[i].poisoned
               \/ voids[k].hosts = {} /\ voids[k].offset >= Body
            /\ k > 1 => voids[k].offset = voids[k - 1].offset + voids[k - 1].size
       /\ Total([k \in DOMAIN voids |-> voids[k].size]) = Total([k \in DOMAIN PoisonRuns |-> PoisonRuns[k][2]])
    /\ city # <<>> =>
         /\ city[1].occupied = city[1].ring["READY"] + city[1].ring["RUNNING"]
         /\ city[1].ok + city[1].bad = Total([k \in DOMAIN RunStates |-> city[1].ring[RunStates[k]]])

----------------------------------------------------------------------------
(* The leaves of a type *)

leafVars == <<types, built, value, aliases, uses>>

Empty == [leaves |-> <<>>, error |-> FALSE, raw |-> FALSE, fixed |-> FALSE, prefix |-> 0]

\* A leaf; one that is derived is not written down: the reader can tell it.
Leaf(at, size, ref, enum, derived) ==
  [offset |-> at, size |-> size, reference |-> ref, enum |-> enum, derived |-> derived]

\* The leaves of a field whose value has no fields of its own: in one piece, or one
\* for each of its elements.
ScalarLeaves(field, v, at, derived) ==
  LET odd == v.size \notin {1, 2, 4, 8}
      whole == \/ v.form = "hex"
               \/ v.form = "float" /\ v.size \notin {4, 8}
               \/ v.form \notin {"hex", "float"} /\ odd
               \/ v.form = "bool" /\ v.size # 1
               \/ field.count > 1 /\ v.size = 1 /\ v.form = "uint"
  IN IF whole THEN <<Leaf(at, v.size * field.count, FALSE, FALSE, derived)>>
     ELSE [i \in 1..field.count |->
             Leaf(at + (i - 1) * v.size, v.size, FALSE, v.form = "enum", derived)]

\* _add_leaves: <<>> where the reader refuses the field, else the leaves in a sequence of one.
RECURSIVE AddLeaves(_, _, _)
AddLeaves(field, base, depth) ==
  LET v == types[field.type]   at == base + field.offset
      derived == depth = 0 /\ field.derived
      nested == v.form = "struct" /\ v.fields # <<>>
      member == [k \in 1..(field.count * Len(v.fields)) |->
                   AddLeaves(v.fields[((k - 1) % Len(v.fields)) + 1], at + ((k - 1) \div Len(v.fields)) * v.size, depth + 1)]
  IN IF v.form = "none" \/ field.count = 0 THEN <<>>
     ELSE IF field.ref
     THEN IF v.form # "uint" \/ v.size # 8 \/ field.count # 1 THEN <<>> ELSE <<<<Leaf(at, 8, TRUE, FALSE, derived)>>>>
     ELSE IF nested
     THEN IF depth >= MaxDepth THEN <<>>
          ELSE IF \E k \in DOMAIN member : member[k] = <<>> THEN <<>>
          ELSE <<FlattenSeq([k \in DOMAIN member |-> member[k][1]])>>
     ELSE IF v.size = 0 THEN <<>> ELSE <<ScalarLeaves(field, v, at, derived)>>

ByOffset(leaves) == SortSeq(leaves, LAMBDA a, b : a.offset < b.offset)
End(leaves) == IF leaves = <<>> THEN 0 ELSE Last(leaves).offset + Last(leaves).size
Over(leaves) == \E k \in 1..Len(leaves) - 1 : leaves[k + 1].offset < leaves[k].offset + leaves[k].size

\* layout: the leaves of every field in the order of the bytes; raw when two overlap.
Raw(t) == LET fixed == IF t.size # 0 /\ ~ t.variable THEN t.size ELSE 0
          IN [Empty EXCEPT !.raw = TRUE, !.fixed = fixed # 0, !.prefix = fixed]
Max2(a, b) == IF a > b THEN a ELSE b
LayoutOf(t) ==
  IF t.form = "none" THEN [Empty EXCEPT !.error = TRUE]
  ELSE IF t.form = "union" \/ t.fields = <<>> THEN Raw(t)
  ELSE LET of == [k \in DOMAIN t.fields |-> AddLeaves(t.fields[k], 0, 0)] IN
       IF \E k \in DOMAIN of : of[k] = <<>> THEN [Empty EXCEPT !.error = TRUE]
       ELSE LET leaves == ByOffset(FlattenSeq([k \in DOMAIN of |-> of[k][1]])) IN
            IF Over(leaves) THEN Raw(t)
            ELSE IF t.size # 0 /\ End(leaves) > t.size /\ ~ t.variable THEN [Empty EXCEPT !.error = TRUE]
            ELSE [Empty EXCEPT !.leaves = leaves, !.fixed = ~ t.variable,
                               !.prefix = Max2(IF t.variable THEN 0 ELSE t.size, End(leaves))]

Layout ==
  /\ built = None
  /\ \E t \in DOMAIN types : built' = LayoutOf(types[t]) @@ [of |-> t]
  /\ UNCHANGED <<types, value, aliases, uses>>

\* The leaves that name something: references, and the values of an enumeration.
Naming == {k \in DOMAIN built.leaves : built.leaves[k].reference \/ built.leaves[k].enum}
\* A payload of some length; some of the leaves that name something hold a path, or name
\* nothing that lives, the others are zero.
Payload ==
  /\ built # None /\ value = None
  /\ \E n \in {0, built.prefix, built.prefix + 8}, gap \in BOOLEAN,
        held \in UNION {[of -> {<<"dead">>, <<"m", "x">>, <<"m", "y", "z">>}] :
                       of \in {s \in SUBSET Naming : Cardinality(s) <= MaxHeld}} :
       value' = [size |-> n, gap |-> gap, held |-> held]
  /\ UNCHANGED <<types, built, aliases, uses>>

\* decode_paths: the paths up to the first leaf that names nothing, the derived left out.
Fits == ~ built.error /\ ~ built.raw /\ ~ value.gap
        /\ IF built.fixed THEN value.size = built.prefix ELSE value.size >= built.prefix
Written ==
  IF ~ Fits THEN <<>>
  ELSE LET held(k) == IF k \in DOMAIN value.held /\ ~ built.leaves[k].derived THEN value.held[k] ELSE <<>>
           refs == SelectSeq([k \in DOMAIN built.leaves |-> held(k)], LAMBDA p : p # <<>>)
           dead == {k \in DOMAIN refs : refs[k] = <<"dead">>}
           n == IF dead = {} THEN Len(refs) ELSE (CHOOSE k \in dead : \A j \in dead : k <= j) - 1
       IN [k \in 1..n |-> refs[k]]

\* alias_for: the longest target a path lies under, when writing it so is shorter;
\* alias_uses: every alias once for a user.
Under(path, target) == IsPrefix(target, path)
AliasFor(path) ==
  LET over == {k \in DOMAIN aliases : Under(path, aliases[k].target)}
      best == {k \in over : \A j \in over : Len(aliases[j].target) < Len(aliases[k].target)
                                            \/ (Len(aliases[j].target) = Len(aliases[k].target) /\ k <= j)}
  IN {k \in best : 1 < Len(aliases[k].target)}
Uses ==
  /\ value # None /\ uses = None
  /\ uses' = UNION {AliasFor(Written[k]) : k \in DOMAIN Written}
  /\ UNCHANGED <<types, built, value, aliases>>

LeafInit == types \in Types /\ aliases \in Aliases /\ built = None /\ value = None /\ uses = None
LeafNext == Layout \/ Payload \/ Uses

----------------------------------------------------------------------------

\* However types nest and repeat, the leaves a value is read by do not overlap, lie
\* inside a type of fixed size and inside the bytes of every value that fits, and a
\* reference is eight bytes; an alias is used when a path the value names is under it,
\* and the longest such alone speaks for a path.
LeavesFit ==
  built # None =>
    /\ \A j, k \in DOMAIN built.leaves : j < k => built.leaves[j].offset + built.leaves[j].size <= built.leaves[k].offset
    /\ built.fixed /\ built.leaves # <<>> => End(built.leaves) <= built.prefix
    /\ \A k \in DOMAIN built.leaves : built.leaves[k].size > 0 /\ (built.leaves[k].reference => built.leaves[k].size = 8)
    /\ value # None => (Fits /\ built.leaves # <<>> => End(built.leaves) <= value.size)
    /\ uses # None =>
         /\ uses # {} => Fits
         /\ Cardinality(uses) <= Len(Written)
         /\ \A k \in uses : \E j \in DOMAIN Written : IsPrefix(aliases[k].target, Written[j])
=============================================================================
