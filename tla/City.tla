-------------------------------- MODULE City ---------------------------------
(* The plan of the world page's city (world/export.py): the districts and the    *)
(* tiles of their buildings (_base_pass), the blocks and the streets (_network), *)
(* and the straight sides of the ring.  Then its cables: the rails they run on,  *)
(* the route of every cable from its pad to its pad or grave (_routes), and the  *)
(* ducts the cables share with the stubs that are left (_bundles).  Lengths are  *)
(* twentieths of a world unit.                                                   *)
EXTENDS Integers, FiniteSets, SequencesExt

CONSTANTS
  Plans,        \* the districts of an image: sequences of [w, n], their width and buildings
  Cols,         \* districts in a row
  Cables,       \* the cables of an image: sequences of [from, to, how, fresh], by number of cells
  Graves,       \* where a grave may lie beside its source
  None

VARIABLES plan, cells, blocks, streets, edges, straights, bundles, stubs

planVars == <<plan, cells, blocks, streets>>

Step == 44   Margin == 22   Depth == 520   Gap == 240   Footprint == 22
LaneMin == 16   RingMargin == 80   RoadHalf == 56   Clearance == 32   Bevel == 40   BlockBin == 2

Least(a, b) == IF a < b THEN a ELSE b
Most(a, b) == IF a > b THEN a ELSE b
Abs(n) == IF n < 0 THEN -n ELSE n
LeastOf(S) == CHOOSE m \in S : \A n \in S : m <= n
MostOf(S) == CHOOSE m \in S : \A n \in S : n <= m
Sorted(S) == SortSeq(SetToSeq(S), <)
UpTo(n) == [k \in 1..n |-> k]

----------------------------------------------------------------------------

\* _districts: rows of Cols plates, every one as deep, a gap between them.
RowOf(d) == (d - 1) \div Cols
PlotX(p, d) ==
  LET at[k \in 1..d] == IF (k - 1) % Cols = 0 THEN 0 ELSE at[k - 1] + p[k - 1].w + Gap IN at[d]
PlotZ(d) == RowOf(d) * (Depth + Gap)

\* _tiles: the raster grows by whole columns and rows until it holds the buildings.
RECURSIVE Grown(_, _, _)
Grown(cols, rows, count) ==
  IF cols * rows >= count THEN <<cols, rows>>
  ELSE IF cols <= rows THEN Grown(cols + 1, rows, count) ELSE Grown(cols, rows + 1, count)
Raster(w, count) ==
  Grown(Most(1, (w - 2 * Margin) \div Step), Most(1, (Depth - 2 * Margin) \div Step), count)
Tile(w, count, i) ==
  LET raster == Raster(w, count)
      used == Least(raster[1], count)
      rows == (count + used - 1) \div used
      col == (raster[1] - used) \div 2 + ((i - 1) % used)
      row == (raster[2] - rows) \div 2 + (i - 1) \div used
  IN [col |-> col, row |-> row,
      x |-> (w - Step * raster[1]) \div 2 + col * Step + Step \div 2,
      z |-> (Depth - Step * raster[2]) \div 2 + row * Step + Step \div 2]

\* _base_pass and _buildings_pass: one building a tile, in the order of the offsets.
BuildingsOf(d) ==
  [i \in 1..plan[d].n |->
     LET tile == Tile(plan[d].w, plan[d].n, i)
     IN [region |-> d, col |-> tile.col, row |-> tile.row,
         x |-> plan[d].x + tile.x, z |-> plan[d].z + tile.z]]
PlaceBuildings ==
  /\ cells = <<>>
  /\ cells' = FlattenSeq([d \in DOMAIN plan |-> BuildingsOf(d)])
  /\ UNCHANGED <<plan, blocks, streets>>

\* _blocks: the bins of a raster that hold a building.
BinOf(c) == <<c.region, c.col \div BlockBin, c.row \div BlockBin>>
Slot(bin) ==
  LET d == plan[bin[1]]   raster == Raster(d.w, d.n)
      x0 == d.x + (d.w - Step * raster[1]) \div 2   z0 == d.z + (Depth - Step * raster[2]) \div 2
  IN <<x0 + bin[2] * BlockBin * Step, z0 + bin[3] * BlockBin * Step,
       x0 + Least((bin[2] + 1) * BlockBin, raster[1]) * Step,
       z0 + Least((bin[3] + 1) * BlockBin, raster[2]) * Step>>
MakeBlocks ==
  /\ cells # <<>> /\ blocks = {}
  /\ blocks' = {[slot |-> Slot(BinOf(cells[i])),
                 count |-> Cardinality({j \in DOMAIN cells : BinOf(cells[j]) = BinOf(cells[i])})] :
                i \in DOMAIN cells}
  /\ UNCHANGED <<plan, cells, streets>>

----------------------------------------------------------------------------

\* _bands_of: runs that touch are one band.
BandsOf(runs) ==
  LET lows == Sorted({r[1] : r \in {r \in runs : ~ \E t \in runs : t[1] < r[1] /\ r[1] <= t[2]}})
      highs == Sorted({r[2] : r \in {r \in runs : ~ \E t \in runs : t[1] <= r[2] /\ r[2] < t[2]}})
  IN [k \in DOMAIN lows |-> <<lows[k], highs[k]>>]
Between(bands) == {<<bands[k][2], bands[k + 1][1]>> : k \in 1..Len(bands) - 1}

RingRect ==
  <<LeastOf({plan[d].x : d \in DOMAIN plan}) - RingMargin,
    LeastOf({plan[d].z : d \in DOMAIN plan}) - RingMargin,
    MostOf({plan[d].x + plan[d].w : d \in DOMAIN plan}) + RingMargin,
    MostOf({plan[d].z + Depth : d \in DOMAIN plan}) + RingMargin>>

Street(kind, axis, at, from, to) == [kind |-> kind, axis |-> axis, at |-> at, from |-> from, to |-> to]
Rows == BandsOf({<<plan[d].z, plan[d].z + Depth>> : d \in DOMAIN plan})
Wide == 24  \* a gap that is a street
Avenues ==
  {Street("avenue", "x", (g[1] + g[2]) \div 2, RingRect[1], RingRect[3]) :
     g \in {g \in Between(Rows) : g[2] - g[1] >= Wide}}
CrossesOf(k) ==
  LET here == {d \in DOMAIN plan : plan[d].z < Rows[k][2] /\ plan[d].z + Depth > Rows[k][1]}
      from == IF k = 1 THEN RingRect[2] ELSE (Rows[k - 1][2] + Rows[k][1]) \div 2
      to == IF k = Len(Rows) THEN RingRect[4] ELSE (Rows[k][2] + Rows[k + 1][1]) \div 2
  IN {Street("cross", "z", (g[1] + g[2]) \div 2, from, to) :
        g \in {g \in Between(BandsOf({<<plan[d].x, plan[d].x + plan[d].w>> : d \in here})) :
                 g[2] - g[1] >= Wide}}
Crosses == UNION {CrossesOf(k) : k \in DOMAIN Rows}

\* The lanes of a district: the gaps between the bands of its footprints, and its margins.
Here(d) == {cells[i] : i \in {i \in DOMAIN cells : cells[i].region = d}}
Half == Footprint \div 2
GapsOfOneAxis(d, axis) ==
  LET lo == IF axis = "x" THEN plan[d].z ELSE plan[d].x
      span == IF axis = "x" THEN Depth ELSE plan[d].w
      mid(c) == c.z  \* on both axes
      bands == BandsOf({<<mid(c) - Half, mid(c) + Half>> : c \in Here(d)})
  IN {<<lo, bands[1][1]>>, <<bands[Len(bands)][2], lo + span>>} \cup Between(bands)
GapsOf(d, axis) ==
  LET lo == IF axis = "x" THEN plan[d].z ELSE plan[d].x
      span == IF axis = "x" THEN Depth ELSE plan[d].w
      mid(c) == IF axis = "x" THEN c.z ELSE c.x
      bands == BandsOf({<<mid(c) - Half, mid(c) + Half>> : c \in Here(d)})
  IN {<<lo, bands[1][1]>>, <<bands[Len(bands)][2], lo + span>>} \cup Between(bands)
Lanes(d) ==
  IF Here(d) = {} THEN {}
  ELSE {Street("lane", "x", (g[1] + g[2]) \div 2, plan[d].x + 4, plan[d].x + plan[d].w - 4) :
          g \in {g \in GapsOf(d, "x") : g[2] - g[1] >= LaneMin}}
       \cup {Street("lane", "z", (g[1] + g[2]) \div 2, plan[d].z + 4, plan[d].z + Depth - 4) :
          g \in {g \in GapsOf(d, "z") : g[2] - g[1] >= LaneMin}}

\* The branches: the lane nearest the middle, on to the street it meets, or the ring.
Median(ats, middle) == CHOOSE a \in ats : \A b \in ats : Abs(a - middle) < Abs(b - middle)
                                                        \/ (Abs(a - middle) = Abs(b - middle) /\ a <= b)
Above(ats, edge, ring) == LET S == {a \in ats : a > edge} IN IF S = {} THEN ring ELSE LeastOf(S)
Below(ats, edge, ring) == LET S == {a \in ats : a < edge} IN IF S = {} THEN ring ELSE MostOf(S)
Branches(d) ==
  LET p == plan[d]   lanes == Lanes(d)   ring == RingRect
      across == {s.at : s \in {s \in lanes : s.axis = "z"}}
      along == {s.at : s \in {s \in lanes : s.axis = "x"}}
      avenues == {s.at : s \in Avenues}   crosses == {s.at : s \in Crosses}
  IN (IF across = {} THEN {} ELSE
        LET at == Median(across, p.x + p.w \div 2)
        IN {Street("branch", "z", at, p.z + Depth, Above(avenues, p.z + Depth, ring[4])),
            Street("branch", "z", at, Below(avenues, p.z, ring[2]), p.z)}) \cup
     (IF along = {} THEN {} ELSE
        LET at == Median(along, p.z + Depth \div 2)
        IN {Street("branch", "x", at, p.x + p.w, Above(crosses, p.x + p.w, ring[3])),
            Street("branch", "x", at, Below(crosses, p.x, ring[1]), p.x)})

\* _network: sorted by kind, axis and place.
Kinds == [avenue |-> 0, branch |-> 2, cross |-> 4, lane |-> 6]
Place == 4096  \* more than a coordinate of a plan
Key(s) == ((Kinds[s.kind] + IF s.axis = "x" THEN 0 ELSE 1) * Place + s.at + RingMargin) * Place + s.from + RingMargin
InOrder(S) ==
  LET key == [s \in S |-> Key(s)]
      at == [s \in S |-> Cardinality({t \in S : key[t] < key[s]}) + 1]
  IN [k \in 1..Cardinality(S) |-> CHOOSE s \in S : at[s] = k]
Network ==
  /\ cells # <<>> /\ streets = <<>>
  /\ streets' = InOrder(Avenues \cup Crosses \cup UNION {Lanes(d) \cup Branches(d) : d \in DOMAIN plan})
  /\ UNCHANGED <<plan, cells, blocks>>

PlanInit ==
  /\ \E p \in Plans :
       plan = [d \in DOMAIN p |-> [w |-> p[d].w, n |-> p[d].n, x |-> PlotX(p, d), z |-> PlotZ(d)]]
  /\ \E d \in DOMAIN plan : plan[d].n > 0
  /\ cells = <<>> /\ blocks = {} /\ streets = <<>>
PlanNext == PlaceBuildings \/ MakeBlocks \/ Network

----------------------------------------------------------------------------

Crosses_(s, c) ==
  LET across == IF s.axis = "x" THEN c.z ELSE c.x
      along == IF s.axis = "x" THEN c.x ELSE c.z
  IN Abs(s.at - across) < Half /\ s.from < along + Half /\ along - Half < s.to

\* The sides of the ring, the box a street lies in with what a lane stops short of its
\* plate's edge, and the streets a walk of eight corners from the ring comes to.
Ring ==
  LET r == RingRect IN
  {Street("ring", "x", r[2], r[1], r[3]), Street("ring", "x", r[4], r[1], r[3]),
   Street("ring", "z", r[1], r[2], r[4]), Street("ring", "z", r[3], r[2], r[4])}
Box(s) == IF s.axis = "x" THEN <<s.from, s.to, s.at, s.at>> ELSE <<s.at, s.at, s.from, s.to>>
Touch(s, t) == LET a == Box(s)   b == Box(t) IN
  \A lo \in {1, 3} : a[lo] <= b[lo + 1] + 4 /\ b[lo] <= a[lo + 1] + 4
Walked ==
  LET all == ToSet(streets)
      On(seen) == seen \cup {t \in all : \E s \in seen : Touch(s, t)}
      from[n \in 0..Len(streets)] == IF n = 0 THEN Ring ELSE On(from[n - 1])
  IN from[Least(Len(streets), 8)]

\* Every building stands on a tile of its own, in the block its tile is in; the
\* streets run between the buildings ("no street ever crosses a building volume"),
\* and from the ring one comes to every street, lane and branch, on the streets.
StreetsClear ==
  /\ \A i, j \in DOMAIN cells : i # j => Abs(cells[i].x - cells[j].x) >= Step \/ Abs(cells[i].z - cells[j].z) >= Step
  /\ \A b \in blocks : b.count = Cardinality({i \in DOMAIN cells :
       b.slot[1] <= cells[i].x /\ cells[i].x < b.slot[3] /\ b.slot[2] <= cells[i].z /\ cells[i].z < b.slot[4]})
  /\ \A k \in DOMAIN streets :
       /\ streets[k].from < streets[k].to
       /\ \A i \in DOMAIN cells : ~ Crosses_(streets[k], cells[i])
  /\ streets # <<>> => ToSet(streets) \subseteq Walked

----------------------------------------------------------------------------
(* Cables *)

routeVars == <<planVars, edges, straights, bundles, stubs>>

Snap == 5   PinMargin == 22   MicroLeg == 18   ProjectBin == 480   BundleMin == 2

----------------------------------------------------------------------------

\* _corner_cut and the straight sides of _ring_path, where no building reaches the road.
Corner(r) ==
  LET near(c, x, z) == Abs(c.x - x) + Abs(c.z - z) - (1414 * (Half + RoadHalf + Clearance)) \div 1000
      cuts == {near(cells[i], x, z) : i \in DOMAIN cells, x \in {r[1], r[3]}, z \in {r[2], r[4]}}
      most == Least(360, (34 * Least(r[3] - r[1], r[4] - r[2])) \div 100)
  IN Most(30, LeastOf(cuts \cup {most}))
RingRails(r, corner) ==
  LET cut == corner + Least(Bevel, (45 * 1414 * corner) \div 100000) IN
  <<<<"x", r[2], r[1] + cut, r[3] - cut>>, <<"z", r[3], r[2] + cut, r[4] - cut>>,
    <<"x", r[4], r[1] + cut, r[3] - cut>>, <<"z", r[1], r[2] + cut, r[4] - cut>>>>

\* _rails: <<axis, at, low, high>>, clipped to where the other kind runs.
Clipped(all) ==
  LET of(axis) == {all[k] : k \in {k \in DOMAIN all : all[k][1] = axis}}
      lo == [axis \in {"x", "z"} |-> LeastOf({r[3] : r \in of(axis)})]
      hi == [axis \in {"x", "z"} |-> MostOf({r[4] : r \in of(axis)})]
      clip(r) == <<r[1], r[2], Most(r[3], lo[r[1]]), Least(r[4], hi[r[1]])>>
  IN SelectSeq([k \in DOMAIN all |-> clip(all[k])], LAMBDA r : r[3] < r[4])
Streeted == [k \in DOMAIN streets |-> <<streets[k].axis, streets[k].at, streets[k].from, streets[k].to>>]
Ringed == UNION {{RingRails(r, corner) : corner \in {Corner(r)}} : r \in {RingRect}}
Rails == CHOOSE rails \in {Clipped(Streeted \o ring) : ring \in Ringed} : TRUE

\* _project_rail: the nearest point of a rail, the first of the nearest in the order
\* the buckets around the point are read (_rail_grid, _near_rails).
Clamp(n, lo, hi) == Most(lo, Least(n, hi))
OnRail(r, x, z) == IF r[1] = "x" THEN <<Clamp(x, r[3], r[4]), r[2]>> ELSE <<r[2], Clamp(z, r[3], r[4])>>
Square(r, x, z) == LET p == OnRail(r, x, z) IN (p[1] - x) * (p[1] - x) + (p[2] - z) * (p[2] - z)
Buckets(r) ==
  IF r[1] = "x" THEN ((r[3] \div ProjectBin)..(r[4] \div ProjectBin)) \X {r[2] \div ProjectBin}
  ELSE {r[2] \div ProjectBin} \X ((r[3] \div ProjectBin)..(r[4] \div ProjectBin))
RingOf(b, x, z) == Most(Abs(b[1] - x \div ProjectBin), Abs(b[2] - z \div ProjectBin))
Reached(r, x, z) == LeastOf({RingOf(b, x, z) : b \in Buckets(r)})
NearWithin(rails, x, z, rings) == {k \in DOMAIN rails : Reached(rails[k], x, z) < rings}
Settled(rails, x, z, rings) ==
  LET found == NearWithin(rails, x, z, rings) IN
  /\ found # {}
  /\ ((rings - 1) * ProjectBin) * ((rings - 1) * ProjectBin) > LeastOf({Square(rails[k], x, z) : k \in found})
NearRails(rails, x, z) ==
  NearWithin(rails, x, z, LeastOf({n \in 1..8 : Settled(rails, x, z, n)}))
Plug(rails, x, z) ==
  LET near == NearRails(rails, x, z)
      best == LeastOf({Square(rails[k], x, z) : k \in near})
      read(k) == Reached(rails[k], x, z) * 1000 + k
      k == CHOOSE k \in near : /\ Square(rails[k], x, z) = best
                               /\ \A j \in near : Square(rails[j], x, z) = best => read(k) <= read(j)
  IN <<OnRail(rails[k], x, z)[1], OnRail(rails[k], x, z)[2], k>>

----------------------------------------------------------------------------

\* street_route: the corners between two plugs.
NearestStreet(ats, toward) ==
  CHOOSE a \in ats : \A b \in ats : Abs(2 * a - toward) < Abs(2 * b - toward)
                                    \/ (Abs(2 * a - toward) = Abs(2 * b - toward) /\ a <= b)
StreetRoute(rails, s, t) ==
  LET ats(axis) == {rails[k][2] : k \in {k \in DOMAIN rails : rails[k][1] = axis}}
      of(p) == rails[p[3]][1] IN
  CASE of(s) = "x" /\ of(t) = "z" -> <<<<t[1], s[2]>>>>
    [] of(s) = "z" /\ of(t) = "x" -> <<<<s[1], t[2]>>>>
    [] of(s) = "x" /\ of(t) = "x" -> LET m == NearestStreet(ats("z"), s[1] + t[1]) IN <<<<m, s[2]>>, <<m, t[2]>>>>
    [] of(s) = "z" /\ of(t) = "z" -> LET m == NearestStreet(ats("x"), s[2] + t[2]) IN <<<<s[1], m>>, <<t[1], m>>>>

\* pin: where a cable plugs into its building.
RECURSIVE RootFrom(_, _)
RootFrom(n, k) == IF (k + 1) * (k + 1) > n THEN k ELSE RootFrom(n, k + 1)
Length(dx, dz) == IF dx = 0 THEN Abs(dz) ELSE IF dz = 0 THEN Abs(dx)
                  ELSE RootFrom(dx * dx + dz * dz, Most(Abs(dx), Abs(dz)))
Pin(c, p) ==
  LET dx == p[1] - c.x   dz == p[2] - c.z   reach == Length(dx, dz)
      radius == Least(Half + PinMargin, (45 * reach) \div 100)
  IN IF reach = 0 THEN <<c.x, c.z>> ELSE <<c.x + (dx * radius) \div reach, c.z + (dz * radius) \div reach>>

\* _tidy: straight runs merged and jogs folded, until nothing changes; _ortho bends
\* what runs off the grid.
Apart(points) == FoldSeq(LAMBDA p, out : IF out = <<>> THEN <<p>> ELSE IF out[1] = p THEN out ELSE <<p>> \o out, <<>>, points)
TidyOnce(out) ==
  LET fold[i \in 1..Len(out) - 1] ==
        IF i = 1 THEN <<out[1]>>
        ELSE LET merged == fold[i - 1]   q == Last(merged)   p == out[i]   n == out[i + 1]
                 ux == p[1] - q[1]   uz == p[2] - q[2]   vx == n[1] - p[1]   vz == n[2] - p[2]
                 straight == ux * vz = uz * vx /\ ux * vx + uz * vz > 0
                 jog == Least(ux * ux + uz * uz, vx * vx + vz * vz) < MicroLeg * MicroLeg
             IN IF straight \/ jog THEN merged ELSE Append(merged, p)
  IN Append(fold[Len(out) - 1], Last(out))
RECURSIVE Tidy(_)
Tidy(out) ==
  IF Len(out) <= 2 THEN out
  ELSE LET once == TidyOnce(out) IN IF Len(once) = Len(out) THEN once ELSE Tidy(once)
Ortho(points) ==
  LET bend[i \in 1..Len(points)] ==
        IF i = 1 THEN <<points[1]>>
        ELSE LET a == Last(bend[i - 1])   b == points[i]   dx == b[1] - a[1]   dz == b[2] - a[2]
             IN bend[i - 1] \o (IF dx = 0 \/ dz = 0 THEN <<>>
                                ELSE IF Abs(dx) >= Abs(dz) THEN <<<<b[1], a[2]>>>> ELSE <<<<a[1], b[2]>>>>)
                \o <<b>>
  IN bend[Len(points)]

\* _routes: pad, plug, corners, plug, pad; or to the grave by a line of the grid.
Way(rails, e, grave) ==
  LET s == cells[e.from] IN
  IF e.to = 0
  THEN LET g == <<s.x + grave[1], s.z + grave[2]>>   a == Pin(s, g)
           m == ((a[1] + g[1] + Step) \div (2 * Step)) * Step
       IN <<a, <<m, a[2]>>, <<m, g[2]>>, g>>
  ELSE LET t == cells[e.to]   sp == Plug(rails, s.x, s.z)   tp == Plug(rails, t.x, t.z)
       IN <<Pin(s, sp), <<sp[1], sp[2]>>>> \o StreetRoute(rails, sp, tp) \o <<<<tp[1], tp[2]>>, Pin(t, tp)>>
CablesPass ==
  /\ cells # <<>> /\ edges = None
  /\ \E es \in Cables : /\ \A k \in DOMAIN es : es[k].from \in DOMAIN cells /\ es[k].to \in DOMAIN cells \cup {0}
                        /\ edges' = es
  /\ UNCHANGED <<planVars, straights, bundles, stubs>>
Routes ==
  /\ streets # <<>> /\ edges # None /\ straights = None
  /\ \E rails \in {Rails} : \E grave \in Graves :
       straights' = [k \in DOMAIN edges |-> Ortho(Tidy(Apart(Way(rails, edges[k], grave))))]
  /\ UNCHANGED <<planVars, edges, bundles, stubs>>

----------------------------------------------------------------------------

\* _leg_rail: the rail a leg runs on, the longest stretch of it, the first of equals.
Legs(k) == {<<straights[k][i], straights[k][i + 1]>> : i \in 1..Len(straights[k]) - 1}
Span(leg) ==
  LET i == IF leg[1][2] = leg[2][2] THEN 1 ELSE 2
  IN <<Least(leg[1][i], leg[2][i]), Most(leg[1][i], leg[2][i])>>
Overlap(a, b) == Least(a[2], b[2]) - Most(a[1], b[1])
LegRail(rails, leg) ==
  LET axis == IF leg[1][1] = leg[2][1] THEN "z" ELSE "x"
      at == IF axis = "z" THEN leg[1][1] ELSE leg[1][2]
      over(k) == Overlap(Span(leg), <<rails[k][3], rails[k][4]>>)
      on == {k \in DOMAIN rails : rails[k][1] = axis /\ Abs(rails[k][2] - at) <= Snap /\ over(k) > 0}
  IN IF on = {} THEN 0
     ELSE CHOOSE k \in on : \A j \in on : over(j) < over(k) \/ (over(j) = over(k) /\ k <= j)

\* _bundles: the bands of a rail, those at least two cables run on as a duct.
BundlesOf(rails, k) ==
  LET spans == {<<e, Span(leg)>> : <<e, leg>> \in {<<e, leg>> \in UNION {{e} \X Legs(e) : e \in DOMAIN edges} :
                                                     LegRail(rails, leg) = k}}
      bands == BandsOf({s[2] : s \in spans})
  IN {[rail |-> k, span |-> bands[b],
       edges |-> SelectSeq(UpTo(Len(edges)), LAMBDA e : \E s \in spans : s[1] = e /\ Overlap(bands[b], s[2]) > 0)] :
        b \in DOMAIN bands}
Ducts(rails) == {b \in UNION {BundlesOf(rails, k) : k \in DOMAIN rails} : Len(b.edges) >= BundleMin}
Described(b) ==
  b @@ [marks |-> [how \in {edges[b.edges[i]].how : i \in DOMAIN b.edges} |->
                     Cardinality({i \in DOMAIN b.edges : edges[b.edges[i]].how = how})],
        stale |-> Cardinality({i \in DOMAIN b.edges : ~ edges[b.edges[i]].fresh})]

\* The stubs: the runs of legs no duct covers.
Covered(rails, ducts, leg) ==
  LET k == LegRail(rails, leg)
  IN k # 0 /\ \E b \in ducts : b.rail = k /\ Overlap(Span(leg), b.span) > 0
StubsOf(rails, ducts, k) ==
  {i \in 1..Len(straights[k]) - 1 : ~ Covered(rails, ducts, <<straights[k][i], straights[k][i + 1]>>)}
Bundles ==
  /\ straights # None /\ bundles = None
  /\ \E rails \in {Rails} : \E ducts \in {Ducts(rails)} :
       /\ bundles' = {Described(b) : b \in ducts}
       /\ stubs' = [k \in DOMAIN edges |-> StubsOf(rails, ducts, k)]
  /\ UNCHANGED <<planVars, edges, straights>>

Init == PlanInit /\ edges = None /\ straights = None /\ bundles = None /\ stubs = None
Next ==
  \/ PlanNext /\ UNCHANGED <<edges, straights, bundles, stubs>>
  \/ CablesPass \/ Routes \/ Bundles
Spec == Init /\ [][Next]_routeVars

----------------------------------------------------------------------------

\* Every leg of every cable is drawn once: by the cable's own stub, or by a duct that
\* lies on that street, spans the leg and counts the cable among its members; what a
\* duct says of its members adds up; and a building plugs into no farther street than
\* a look at all of them would find.
DrawnOnce ==
  /\ bundles # None =>
       \E rails \in {Rails} :
       /\ \A k \in DOMAIN edges : \A i \in 1..Len(straights[k]) - 1 :
            LET leg == <<straights[k][i], straights[k][i + 1]>>
                by == {b \in bundles : /\ b.rail = LegRail(rails, leg) /\ k \in {b.edges[j] : j \in DOMAIN b.edges}
                                       /\ b.span[1] <= Span(leg)[1] /\ Span(leg)[2] <= b.span[2]}
            IN Cardinality(by) + (IF i \in stubs[k] THEN 1 ELSE 0) = 1
       /\ \A b \in bundles : /\ Len(b.edges) = FoldFunction(+, 0, b.marks)
                             /\ b.stale <= Len(b.edges)
  /\ straights # None =>
       \E rails \in {Rails} : \A i \in DOMAIN cells :
         LET p == Plug(rails, cells[i].x, cells[i].z) IN
         \A k \in DOMAIN rails : Square(rails[p[3]], cells[i].x, cells[i].z) <= Square(rails[k], cells[i].x, cells[i].z)

\* A leg crosses no building but those its cable ends at.
ClearOf(k, leg) ==
  LET axis == IF leg[1][1] = leg[2][1] THEN "z" ELSE "x"
      along == Street("lane", axis, leg[1][IF axis = "z" THEN 1 ELSE 2], Span(leg)[1], Span(leg)[2])
  IN \A i \in DOMAIN cells \ {edges[k].from, edges[k].to} : ~ Crosses_(along, cells[i])

\* Where a leg of a cable lies on a street, a lane or the ring, it crosses no building.
CablesClear ==
  straights # None =>
    \E rails \in {Rails} : \A k \in DOMAIN edges : \A leg \in Legs(k) :
      LegRail(rails, leg) # 0 => ClearOf(k, leg)

\* "It never crosses a building volume that is not its own endpoint" (_routes): of the
\* legs that lie on no street this does not hold.
RoutesClear == straights # None => \A k \in DOMAIN edges : \A leg \in Legs(k) : ClearOf(k, leg)

\* The streets run between the buildings and lead from the ring to each other, a cable
\* crosses no building where it follows a street, and every leg is drawn once.
CityStands == StreetsClear /\ CablesClear /\ DrawnOnce
=============================================================================
