---------------------------- MODULE SmpArena_proofs ----------------------------
(***************************************************************************)
(* CellsHold of SmpArena for any number of carriers and slots, any sizes   *)
(* and any arena the cells of the start fit into: types, claims that count *)
(* their holders, addresses that are the cells', whole cells, packed       *)
(* passes, forwarding words that are found.                                *)
(***************************************************************************)
EXTENDS SmpArena, FiniteSetTheorems, SequenceTheorems, WellFoundedInduction, TLAPS

-----------------------------------------------------------------------------
(* The cells at the start *)

LEMMA LeastNat ==
    ASSUME NEW T \in SUBSET Nat, T # {}
    PROVE  \E x \in T : \A y \in T : x <= y
<1>1. PICK R : IsWellFoundedOn(R, Nat) /\ R = {p \in Nat \X Nat : p[1] < p[2]}
  BY NatLessThanWellFounded, Zenon DEF OpToRel
<1>2. PICK x \in T : \A y \in T : <<y, x>> \notin R
  BY <1>1, WFMin
<1>3. \A y \in T : ~(y < x)
  BY <1>1, <1>2
<1> QED
  BY <1>3

LEMMA StartOfDef ==
    StartOf = [s \in 1..(Slots + 1) |->
                  IF s = 1 THEN Header ELSE StartOf[s - 1] + Header + SizeOf[s - 1]]
<1> DEFINE Upto(n, g) == g = [s \in 1..n |->
                                 IF s = 1 THEN Header ELSE g[s - 1] + Header + SizeOf[s - 1]]
           T == {n \in Nat \ {0} : ~\E g : Upto(n, g)}
<1>1. T = {}
  <2> SUFFICES ASSUME T # {} PROVE FALSE
    OBVIOUS
  <2>1. PICK n \in T : \A m \in T : n <= m
    BY LeastNat
  <2>2. CASE n = 1
    <3>1. Upto(1, [s \in 1..1 |-> Header])
      OBVIOUS
    <3> QED
      BY <2>1, <2>2, <3>1
  <2>3. CASE n # 1
    <3>1. n - 1 \in Nat \ {0} /\ n - 1 \notin T
      <4>1. n \in Nat /\ n # 0 /\ \A m \in T : n <= m
        BY <2>1
      <4> HIDE DEF T
      <4> QED
        BY <2>3, <4>1
    <3>2. PICK g : Upto(n - 1, g)
      BY <3>1
    <3>0. \A s \in 1..(n - 1) : g[s] = IF s = 1 THEN Header ELSE g[s - 1] + Header + SizeOf[s - 1]
      BY <3>2
    <3> DEFINE h == [s \in 1..n |-> IF s = n THEN g[n - 1] + Header + SizeOf[n - 1] ELSE g[s]]
    <3>3. \A s \in 1..n : h[s] = IF s = 1 THEN Header ELSE h[s - 1] + Header + SizeOf[s - 1]
      BY <2>3, <3>1, <3>0
    <3>4. Upto(n, h)
      BY <3>3, Zenon
    <3> QED
      BY <3>4, <2>1
  <2> QED
    BY <2>2, <2>3
<1>2. Slots + 1 \in Nat \ {0}
  BY ArenaAssumption
<1>3. \E g : Upto(Slots + 1, g)
  BY <1>1, <1>2
<1> QED
  BY <1>3, Zenon DEF StartOf

LEMMA StartOfStep ==
    /\ StartOf[1] = Header
    /\ \A s \in 1..Slots : StartOf[s + 1] = StartOf[s] + Header + SizeOf[s]
<1> DEFINE f == [s \in 1..(Slots + 1) |->
                  IF s = 1 THEN Header ELSE StartOf[s - 1] + Header + SizeOf[s - 1]]
<1>1. \A s \in 1..(Slots + 1) : StartOf[s] = IF s = 1 THEN Header
                                                ELSE StartOf[s - 1] + Header + SizeOf[s - 1]
  <2>1. \A s \in 1..(Slots + 1) : f[s] = IF s = 1 THEN Header
                                                ELSE StartOf[s - 1] + Header + SizeOf[s - 1]
    OBVIOUS
  <2> QED
    BY <2>1, StartOfDef
<1> HIDE DEF f
<1>2. ASSUME NEW s \in 1..Slots PROVE StartOf[s + 1] = StartOf[s] + Header + SizeOf[s]
  <2>1. PICK t \in 1..(Slots + 1) : t = s + 1 /\ t # 1 /\ t - 1 = s
    BY ArenaAssumption
  <2> QED
    BY <1>1, <2>1
<1> QED
  BY <1>1, <1>2, ArenaAssumption

\* The cells of the start lie one behind the other, from the header-sized gap on.
LEMMA StartOfOrder ==
    /\ \A s \in 1..(Slots + 1) : StartOf[s] \in Nat /\ StartOf[s] >= Header
    /\ \A s \in 1..Slots : StartOf[s] + Header + SizeOf[s] <= StartOf[Slots + 1]
    /\ \A s, t \in 1..Slots : s < t => StartOf[s] + Header + SizeOf[s] <= StartOf[t]
<1> USE ArenaAssumption DEF Header
<1>0. \A s \in 1..Slots : SizeOf[s] \in Nat
  OBVIOUS
<1>1. ASSUME NEW n \in 1..(Slots + 1) PROVE StartOf[n] \in Nat /\ StartOf[n] >= 3
  <2> DEFINE T == {k \in Nat : k \in 1..(Slots + 1) /\ ~(StartOf[k] \in Nat /\ StartOf[k] >= 3)}
  <2>1. T = {}
    <3> SUFFICES ASSUME T # {} PROVE FALSE
      OBVIOUS
    <3>1. PICK k \in T : \A m \in T : k <= m
      BY LeastNat
    <3>2. k # 1
      BY <3>1, StartOfStep
    <3>3. PICK j \in 1..Slots : k = j + 1
      BY <3>2
    <3>4. j \notin T
      BY <3>1, <3>3
    <3>5. StartOf[j] \in Nat /\ StartOf[j] >= 3
      BY <3>4
    <3> QED
      BY <1>0, <3>1, <3>3, <3>5, StartOfStep
  <2> QED
    BY <2>1
<1>2. ASSUME NEW s \in 1..Slots, NEW n \in 1..(Slots + 1), s < n
      PROVE  StartOf[s] + 3 + SizeOf[s] <= StartOf[n]
  <2> DEFINE T == {k \in Nat : k \in 1..(Slots + 1) /\ s < k
                                  /\ ~(StartOf[s] + 3 + SizeOf[s] <= StartOf[k])}
  <2>1. T = {}
    <3> SUFFICES ASSUME T # {} PROVE FALSE
      OBVIOUS
    <3>1. PICK k \in T : \A m \in T : k <= m
      BY LeastNat
    <3>2. PICK j \in 1..Slots : k = j + 1 /\ s <= j
      BY <3>1
    <3>3. StartOf[k] = StartOf[j] + 3 + SizeOf[j]
      BY <3>2, StartOfStep
    <3>4. CASE j = s
      BY <3>1, <3>3, <3>4, <1>0, <1>1
    <3>5. CASE j # s
      <4>1. j \notin T
        BY <3>1, <3>2
      <4>2. StartOf[s] + 3 + SizeOf[s] <= StartOf[j]
        BY <3>2, <3>5, <4>1
      <4>3. /\ StartOf[j] \in Nat /\ SizeOf[j] \in Nat
            /\ StartOf[s] \in Nat /\ SizeOf[s] \in Nat
        <5>1. j \in 1..(Slots + 1) /\ s \in 1..(Slots + 1)
          OBVIOUS
        <5> QED
          BY <1>0, <1>1, <5>1
      <4> HIDE ArenaAssumption DEF T
      <4>4. StartOf[s] + 3 + SizeOf[s] <= StartOf[k]
        BY <3>3, <4>2, <4>3
      <4> QED
        BY <3>1, <4>4 DEF T
    <3> QED
      BY <3>4, <3>5
  <2>2. n \notin T /\ n \in Nat
    BY <2>1
  <2> QED
    BY <1>2, <2>2
<1>3. \A s \in 1..(Slots + 1) : StartOf[s] \in Nat /\ StartOf[s] >= Header
  BY <1>1
<1>4. \A s \in 1..Slots : StartOf[s] + Header + SizeOf[s] <= StartOf[Slots + 1]
  BY <1>2
<1>5. \A s, t \in 1..Slots : s < t => StartOf[s] + Header + SizeOf[s] <= StartOf[t]
  BY <1>2
<1> QED
  BY <1>3, <1>4, <1>5

-----------------------------------------------------------------------------
(* The invariant: every part is what the code keeps between two of its     *)
(* steps, and the parts need each other                                    *)

Kept == 1..Slots \ Churn

\* No carrier is given a handle of a cell the mutator frees: the witness hands its carriers the
\* run and data cells and keeps the churn cells and the scratch cells for its mutator.
HandlesKept == \A c \in Carriers : HeldBy[c] \subseteq Kept \X Nat

ClaimPcs == {"generation", "offset", "hold", "unclaim"}
Pcs == {"idle", "claim", "isStale"} \cup ClaimPcs

\* Where the mutator holds the moving bit of its slot, where it has a cell without a name, and
\* where it is inside a pass.
Takes == {"free", "freed", "visit", "publish", "open"}
Making == {"allocated", "named"}
Passing == {"pass", "visit", "publish", "open"}
Muts == {"rest", "finish"} \cup Takes \cup Making \cup Passing

Typed ==
    /\ mem = [i \in Units |-> mem[i]]
    /\ frontier \in Header..Bytes
    /\ claim \in [Index -> Nat \cup {Moving}]
    /\ generation \in [Index -> Nat] /\ offset \in [Index -> {0} \cup Units]
    /\ nextIndex \in (Slots + 1)..(SlotCount + 1)
    /\ pc \in [Carriers -> Pcs]
    /\ handle \in [Carriers -> {<<0, 0>>} \cup (Index \X Nat)]
    /\ addr \in [Carriers -> {0} \cup Units]
    /\ mut \in Muts /\ slot \in 0..SlotCount
    /\ mut \in Takes \cup Making => slot \in 1..(nextIndex - 1)
    /\ todo \subseteq 1..(nextIndex - 1) /\ front \in Header..Bytes
    /\ log \in Seq(Nat \X Nat \X Nat)
    /\ size \in [Index -> Nat] /\ last = [s \in Index |-> last[s]]

Claims ==
    \A s \in Index : IF mut \in Takes /\ slot = s
                     THEN claim[s] = Moving /\ Claimers(s) = {}
                     ELSE claim[s] = Cardinality(Claimers(s))

\* The cells of the carriers are never freed, and the pinned ones never moved.
Names ==
    /\ \A c \in Carriers : pc[c] # "idle" => handle[c] \in HeldBy[c]
    /\ \A s \in Kept : /\ offset[s] # 0
                       /\ mut \in {"free", "freed"} \cup Making => slot # s
                       /\ generation[s] = FirstGeneration(s)
    /\ \A s \in Pinned : offset[s] = StartOf[s]

Addressed ==
    \A c \in Carriers :
        /\ pc[c] \in {"offset", "hold"} => generation[H(c)] = handle[c][2]
        /\ pc[c] = "hold" => addr[c] = offset[H(c)]

Live == {s \in Index : offset[s] # 0}
End(s) == offset[s] + Header + size[s]

\* Where the cells end: a cell without a name lies behind it.
Edge == IF mut \in Making THEN frontier - Header - size[slot] ELSE frontier

Laid ==
    /\ Header <= Edge
    /\ \A s \in Live : /\ s < nextIndex /\ size[s] # 0
                       /\ Header <= offset[s] /\ End(s) <= Edge
    /\ \A s, t \in Live : s # t => End(s) <= offset[t] \/ End(t) <= offset[s]

\* In memory m, the record of slot s at o: generation g, n units, each with value v.
RecordAt(m, s, o, g, n, v) ==
    /\ m[o] = HeadUnit(s, g) /\ m[o + 1] = Chain /\ m[o + 2] = <<"size", n>>
    /\ \A i \in (o + Header)..(o + Header + n - 1) : m[i] = <<"data", v>>

WholeAt(s, o, g) == RecordAt(mem, s, o, g, size[s], last[s])

\* Where the record is: between the copy and its publication it is not where the slot says.
PlaceOf(s) == IF mut = "publish" /\ slot = s THEN front ELSE offset[s]

Whole == \A s \in Live : WholeAt(s, PlaceOf(s), generation[s])

Made ==
    /\ mut \in Making =>
          /\ offset[slot] = 0 /\ size[slot] # 0
          /\ WholeAt(slot, Edge, IF mut = "named" THEN generation[slot] ELSE generation[slot] + 1)
    /\ mut = "free" => offset[slot] # 0
    /\ mut = "freed" => offset[slot] = 0

\* The slots the pass still has before it, the one it works on included, and those behind it.
Ahead == todo \cup (IF mut = "visit" THEN {slot} ELSE {})
Behind == {s \in Live : s \notin todo /\ ~(mut \in {"visit", "publish"} /\ s = slot)}
Ends == {Header} \cup {End(s) : s \in Behind}

Slides ==
    mut \in Passing \cup {"finish"} =>
        /\ front <= frontier
        /\ \A s \in Ahead \cap Live : front <= offset[s]
        /\ \A s \in Behind : End(s) <= front
        /\ front \in Ends
        /\ \A s \in Behind \ Pinned : offset[s] \in Ends
        /\ mut \in {"visit", "publish"} =>
              /\ slot \notin todo
              /\ slot \in Live => \A t \in todo \cap Live : End(slot) <= offset[t]
        /\ mut = "publish" => slot \in Live \ Pinned /\ front < offset[slot]
        /\ mut = "finish" => todo = {} /\ frontier = front

\* The forwarding word of the i-th move, and whether a record of this pass lies over a unit.
Word(i) == log[i][1] + 1
Moved(s) == \E j \in 1..Len(log) : log[j][2] = PlaceOf(s) /\ log[j][3] = Header + size[s]
Covered(at) == \E j \in 1..Len(log) : at \in log[j][2]..(log[j][2] + log[j][3] - 1)

Tracked ==
    /\ mut \in Passing =>
          /\ \A i \in 1..Len(log) :
                 /\ Word(i) \in Units
                 /\ Covered(Word(i)) \/ mem[Word(i)] = Forward(log[i][2])
                 /\ \A s \in Ahead \cap Live : log[i][1] + Header <= offset[s]
          /\ \A s \in Behind : \/ Moved(s)
                               \/ \A i \in 1..Len(log) : Word(i) \notin offset[s]..(End(s) - 1)
          /\ mut = "publish" => Moved(slot)
    /\ ~forwardBad

ArenaInv == /\ Typed /\ Claims /\ Names /\ Addressed
            /\ Laid /\ Whole /\ Made /\ Slides /\ Tracked

-----------------------------------------------------------------------------
(* Lemmas about what a step leaves alone *)

LEMMA ClaimersFinite ==
    \A s \in Index : /\ IsFiniteSet(Claimers(s)) /\ Cardinality(Claimers(s)) \in Nat
                     /\ IsFiniteSet(Claimers(s)') /\ Cardinality(Claimers(s)') \in Nat
<1> SUFFICES ASSUME NEW s \in Index
             PROVE  /\ IsFiniteSet(Claimers(s)) /\ Cardinality(Claimers(s)) \in Nat
                    /\ IsFiniteSet(Claimers(s)') /\ Cardinality(Claimers(s)') \in Nat
  OBVIOUS
<1>1. Claimers(s) \subseteq Carriers /\ Claimers(s)' \subseteq Carriers
  BY DEF Claimers
<1> QED
  BY <1>1, ArenaAssumption, FS_Subset, FS_CardinalityType

cells == <<mem, frontier, generation, offset, nextIndex, mutator, history>>

\* A step that only moves a carrier or a claim word leaves the cells and the pass as they are.
LEMMA CellsStay ==
    ASSUME ArenaInv, UNCHANGED cells
    PROVE  Laid' /\ Whole' /\ Made' /\ Slides' /\ Tracked'
<1> USE DEF ArenaInv, cells, mutator, pass, history
<1>1. /\ Live' = Live /\ Edge' = Edge /\ Ahead' = Ahead /\ Behind' = Behind
      /\ \A s : End(s)' = End(s) /\ PlaceOf(s)' = PlaceOf(s)
  BY DEF Live, Edge, Ahead, Behind, End, PlaceOf
<1>2. /\ Ends' = Ends
      /\ \A s, o, g : WholeAt(s, o, g)' <=> WholeAt(s, o, g)
      /\ \A i : Word(i)' = Word(i) /\ Covered(i)' = Covered(i)
      /\ \A s : Moved(s)' <=> Moved(s)
  <2>1. Ends' = Ends
    BY <1>1 DEF Ends
  <2>2. \A s, o, g : WholeAt(s, o, g)' <=> WholeAt(s, o, g)
    BY DEF WholeAt
  <2>3. \A i : Word(i)' = Word(i) /\ Covered(i)' = Covered(i)
    BY DEF Word, Covered
  <2>4. \A s : Moved(s)' <=> Moved(s)
    BY <1>1 DEF Moved
  <2> QED
    BY <2>1, <2>2, <2>3, <2>4
<1>3. Laid'
  BY <1>1 DEF Laid
<1>4. Whole'
  <2>1. \A s \in Live : WholeAt(s, PlaceOf(s), generation[s])
    BY DEF Whole
  <2>2. \A s \in Live' : WholeAt(s, PlaceOf(s), generation[s])'
    BY <1>1, <2>1 DEF WholeAt
  <2> QED
    BY <2>2 DEF Whole
<1>5. Made'
  BY <1>1 DEF Made, WholeAt
<1>6. Slides'
  BY <1>1, <1>2 DEF Slides
<1>7. Tracked'
  BY <1>1, <1>2 DEF Tracked
<1> QED
  BY <1>3, <1>4, <1>5, <1>6, <1>7

OthersStay(c) == \A d \in Carriers : d # c => pc'[d] = pc[d] /\ handle'[d] = handle[d]

\* The claimers of a slot after the step of one carrier.
LEMMA ClaimersMove ==
    ASSUME NEW c \in Carriers, OthersStay(c), NEW s \in Index
    PROVE  /\ (pc[c] \notin ClaimPcs \/ H(c) # s) /\ pc'[c] \in ClaimPcs /\ H(c)' = s
                 => Claimers(s)' = Claimers(s) \cup {c} /\ c \notin Claimers(s)
           /\ pc[c] \in ClaimPcs /\ H(c) = s /\ pc'[c] \notin ClaimPcs
                 => Claimers(s)' = Claimers(s) \ {c} /\ c \in Claimers(s)
           /\ (pc[c] \in ClaimPcs /\ H(c) = s <=> pc'[c] \in ClaimPcs /\ H(c)' = s)
                 => Claimers(s)' = Claimers(s)
<1>1. \A d \in Carriers : d # c => (d \in Claimers(s)' <=> d \in Claimers(s))
  BY DEF OthersStay, Claimers, H
<1>2. /\ c \in Claimers(s)' <=> pc'[c] \in ClaimPcs /\ H(c)' = s
      /\ c \in Claimers(s) <=> pc[c] \in ClaimPcs /\ H(c) = s
  BY DEF Claimers, H, ClaimPcs
<1>3. Claimers(s) \subseteq Carriers /\ Claimers(s)' \subseteq Carriers
  BY DEF Claimers
<1> QED
  BY <1>1, <1>2, <1>3

\* A step of a carrier that touches no claim word and keeps its own claim, if it has one.
LEMMA CarrierMoves ==
    ASSUME ArenaInv, HandlesKept, NEW c \in Carriers, OthersStay(c),
           UNCHANGED cells, UNCHANGED claim,
           pc' \in [Carriers -> Pcs], addr' \in [Carriers -> {0} \cup Units],
           handle' \in [Carriers -> {<<0, 0>>} \cup (Index \X Nat)],
           pc[c] \in ClaimPcs <=> pc'[c] \in ClaimPcs,
           pc[c] \in ClaimPcs => handle' = handle,
           pc'[c] # "idle" => handle'[c] \in HeldBy[c],
           \A d \in Carriers : d # c => addr'[d] = addr[d],
           pc'[c] \in {"offset", "hold"} => generation[H(c)'] = handle'[c][2],
           pc'[c] = "hold" => addr'[c] = offset[H(c)']
    PROVE  ArenaInv'
<1> USE DEF ArenaInv, cells, mutator, pass, history
<1>1. Laid' /\ Whole' /\ Made' /\ Slides' /\ Tracked'
  BY CellsStay
<1>2. Typed'
  BY DEF Typed
<1>3. \A s \in Index : Claimers(s)' = Claimers(s)
  BY ClaimersMove DEF H
<1>4. Claims'
  BY <1>3 DEF Claims
<1>5. Names'
  BY DEF Names, OthersStay
<1>6. Addressed'
  BY DEF Addressed, OthersStay, H
<1> QED
  BY <1>1, <1>2, <1>4, <1>5, <1>6

-----------------------------------------------------------------------------
(* The carriers *)

\* What a carrier that is not idle works with.
LEMMA InHand ==
    ASSUME ArenaInv, HandlesKept, NEW c \in Carriers, pc[c] # "idle"
    PROVE  /\ handle[c] \in HeldBy[c] /\ H(c) \in Kept /\ H(c) \in Index
           /\ offset[H(c)] # 0 /\ H(c) \in Live
<1>1. handle[c] \in HeldBy[c] /\ handle[c] \in Kept \X Nat
  BY DEF ArenaInv, Names, HandlesKept
<1>2. H(c) \in Kept /\ Kept \subseteq Index
  BY <1>1, ArenaAssumption DEF H, Kept, Index
<1> QED
  BY <1>1, <1>2 DEF ArenaInv, Names, Live

\* A slot with claimers is nobody's to move.
LEMMA ClaimedNotMoving ==
    ASSUME ArenaInv, HandlesKept, NEW c \in Carriers, pc[c] \in ClaimPcs
    PROVE  /\ c \in Claimers(H(c)) /\ claim[H(c)] = Cardinality(Claimers(H(c)))
           /\ claim[H(c)] # Moving /\ ~(mut \in Takes /\ slot = H(c))
<1>1. H(c) \in Index
  BY InHand DEF ClaimPcs
<1>2. c \in Claimers(H(c))
  BY DEF Claimers, ClaimPcs
<1>3. ~(mut \in Takes /\ slot = H(c)) /\ claim[H(c)] = Cardinality(Claimers(H(c)))
  BY <1>1, <1>2 DEF ArenaInv, Claims
<1> QED
  BY <1>1, <1>2, <1>3, ClaimersFinite, ArenaAssumption

LEMMA StepResolve ==
    ASSUME ArenaInv, HandlesKept, NEW c \in Carriers, Resolve(c)
    PROVE  ArenaInv'
<1>1. PICK h \in HeldBy[c] : handle' = [handle EXCEPT ![c] = h]
  BY DEF Resolve
<1>2. h \in Index \X Nat
  BY ArenaAssumption
<1>3. Typed
  BY DEF ArenaInv
<1>4. /\ pc[c] = "idle" /\ pc'[c] = "claim" /\ handle'[c] = h
      /\ OthersStay(c) /\ UNCHANGED cells /\ UNCHANGED <<claim, addr>>
      /\ pc' \in [Carriers -> Pcs] /\ handle' \in [Carriers -> {<<0, 0>>} \cup (Index \X Nat)]
  BY <1>1, <1>2, <1>3 DEF Resolve, Goto, OthersStay, cells, slots, Typed, Pcs
<1> QED
  BY <1>3, <1>4, CarrierMoves DEF ClaimPcs, Typed

\* Refused, StaleNow, ReadGeneration and ReadOffset look and go on.
LEMMA StepLooks ==
    ASSUME ArenaInv, HandlesKept, NEW c \in Carriers,
           Refused(c) \/ StaleNow(c) \/ ReadGeneration(c) \/ ReadOffset(c)
    PROVE  ArenaInv'
<1>3. Typed
  BY DEF ArenaInv
<1>4. /\ OthersStay(c) /\ UNCHANGED cells /\ UNCHANGED <<claim, handle>>
      /\ pc' \in [Carriers -> Pcs]
  BY <1>3 DEF Refused, StaleNow, ReadGeneration, ReadOffset, Goto, OthersStay, cells, slots, Typed,
              Pcs, ClaimPcs
<1>5. pc[c] \in ClaimPcs <=> pc'[c] \in ClaimPcs
  BY <1>3 DEF Refused, StaleNow, ReadGeneration, ReadOffset, Goto, Typed, ClaimPcs
<1>6. pc[c] # "idle"
  BY DEF Refused, StaleNow, ReadGeneration, ReadOffset
<1>7. H(c)' = H(c) /\ H(c) \in Index
  BY <1>4, <1>6, InHand DEF H
<1>8. /\ addr' \in [Carriers -> {0} \cup Units]
      /\ \A d \in Carriers : d # c => addr'[d] = addr[d]
      /\ pc'[c] \in {"offset", "hold"} => generation[H(c)'] = handle'[c][2]
      /\ pc'[c] = "hold" => addr'[c] = offset[H(c)']
  <2>1. CASE ReadOffset(c)
    BY <1>3, <1>4, <1>7, <2>1 DEF ReadOffset, Goto, Typed, ArenaInv, Addressed
  <2>2. CASE Refused(c) \/ StaleNow(c) \/ ReadGeneration(c)
    BY <1>3, <1>4, <1>7, <2>2 DEF Refused, StaleNow, ReadGeneration, Goto, Typed
  <2> QED
    BY <2>1, <2>2
<1>9. handle'[c] \in HeldBy[c]
  BY <1>4, <1>6, InHand
<1> QED
  BY <1>3, <1>4, <1>5, <1>8, <1>9, CarrierMoves DEF Typed

LEMMA StepClaim ==
    ASSUME ArenaInv, HandlesKept, NEW c \in Carriers, Claim(c)
    PROVE  ArenaInv'
<1>0. Typed /\ pc[c] = "claim" /\ claim[H(c)] # Moving
  BY DEF ArenaInv, Claim
<1>1. H(c) \in Index /\ handle[c] \in HeldBy[c]
  BY <1>0, InHand
<1>2. /\ OthersStay(c) /\ UNCHANGED cells /\ UNCHANGED <<handle, addr>> /\ H(c)' = H(c)
      /\ pc'[c] = "generation" /\ pc' \in [Carriers -> Pcs]
  BY <1>0 DEF Claim, Goto, OthersStay, cells, Typed, Pcs, ClaimPcs, H
<1>3. Laid' /\ Whole' /\ Made' /\ Slides' /\ Tracked'
  BY <1>2, CellsStay
<1>4. /\ Claimers(H(c))' = Claimers(H(c)) \cup {c} /\ c \notin Claimers(H(c))
      /\ \A s \in Index : s # H(c) => Claimers(s)' = Claimers(s)
  BY <1>0, <1>1, <1>2, ClaimersMove DEF ClaimPcs
<1>5. Cardinality(Claimers(H(c))') = Cardinality(Claimers(H(c))) + 1
  BY <1>1, <1>4, ClaimersFinite, FS_AddElement
<1>6. ~(mut \in Takes /\ slot = H(c)) /\ claim[H(c)] = Cardinality(Claimers(H(c)))
  BY <1>0, <1>1 DEF ArenaInv, Claims
<1>7. claim' = [claim EXCEPT ![H(c)] = Cardinality(Claimers(H(c))')]
  BY <1>5, <1>6 DEF Claim
<1>8. Claims'
  BY <1>0, <1>1, <1>2, <1>4, <1>6, <1>7 DEF ArenaInv, Claims, Typed, cells, mutator
<1>9. Typed'
  BY <1>0, <1>1, <1>2, <1>7, ClaimersFinite DEF Typed, cells, mutator, pass, history
<1>10. Names' /\ Addressed'
  BY <1>0, <1>1, <1>2 DEF ArenaInv, Names, Addressed, OthersStay, cells, mutator, H
<1> QED
  BY <1>3, <1>8, <1>9, <1>10 DEF ArenaInv

LEMMA StepRelease ==
    ASSUME ArenaInv, HandlesKept, NEW c \in Carriers, Release(c)
    PROVE  ArenaInv'
<1>0. Typed /\ pc[c] \in ClaimPcs
  BY DEF ArenaInv, Release, ClaimPcs
<1>1. H(c) \in Index /\ handle[c] \in HeldBy[c]
  BY <1>0, InHand DEF ClaimPcs
<1>2. /\ OthersStay(c) /\ UNCHANGED cells /\ UNCHANGED <<handle, addr>> /\ H(c)' = H(c)
      /\ pc'[c] = "idle" /\ pc' \in [Carriers -> Pcs]
  BY <1>0 DEF Release, Goto, OthersStay, cells, Typed, Pcs, H
<1>3. Laid' /\ Whole' /\ Made' /\ Slides' /\ Tracked'
  BY <1>2, CellsStay
<1>4. /\ Claimers(H(c))' = Claimers(H(c)) \ {c} /\ c \in Claimers(H(c))
      /\ \A s \in Index : s # H(c) => Claimers(s)' = Claimers(s)
  BY <1>0, <1>1, <1>2, ClaimersMove DEF ClaimPcs
<1>5. Cardinality(Claimers(H(c))') = Cardinality(Claimers(H(c))) - 1
  BY <1>1, <1>4, ClaimersFinite, FS_RemoveElement
<1>6. ~(mut \in Takes /\ slot = H(c)) /\ claim[H(c)] = Cardinality(Claimers(H(c)))
  BY <1>0, ClaimedNotMoving
<1>7. claim' = [claim EXCEPT ![H(c)] = Cardinality(Claimers(H(c))')]
  BY <1>5, <1>6 DEF Release
<1>8. Claims'
  BY <1>0, <1>1, <1>2, <1>4, <1>6, <1>7 DEF ArenaInv, Claims, Typed, cells, mutator
<1>9. Typed'
  BY <1>0, <1>1, <1>2, <1>7, ClaimersFinite DEF Typed, cells, mutator, pass, history
<1>10. Names' /\ Addressed'
  BY <1>0, <1>1, <1>2 DEF ArenaInv, Names, Addressed, OthersStay, cells, mutator, H
<1> QED
  BY <1>3, <1>8, <1>9, <1>10 DEF ArenaInv

-----------------------------------------------------------------------------
(* Records *)

\* A record no unit of which is written stays what it is.
LEMMA RecordStays ==
    ASSUME NEW m, NEW k, NEW s, NEW o \in Nat, NEW g, NEW n \in Nat, NEW v,
           RecordAt(m, s, o, g, n, v),
           \A i \in o..(o + Header + n - 1) : k[i] = m[i]
    PROVE  RecordAt(k, s, o, g, n, v)
<1>1. /\ o \in o..(o + Header + n - 1) /\ o + 1 \in o..(o + Header + n - 1)
      /\ o + 2 \in o..(o + Header + n - 1)
      /\ (o + Header)..(o + Header + n - 1) \subseteq o..(o + Header + n - 1)
  BY DEF Header
<1> QED
  BY <1>1 DEF RecordAt

\* The records lie in the arena, apart from each other, the one between its copy and its
\* publication at the place it was copied to.
LEMMA Places ==
    ASSUME ArenaInv
    PROVE  /\ Edge \in Nat /\ Edge <= frontier /\ frontier \in Nat /\ frontier <= Bytes
           /\ \A s \in Live : /\ s \in Index /\ offset[s] \in Nat /\ size[s] \in Nat \ {0}
                              /\ PlaceOf(s) \in Nat /\ Header <= PlaceOf(s)
                              /\ PlaceOf(s) + Header + size[s] <= Edge
                              /\ PlaceOf(s) <= offset[s]
           /\ \A s, t \in Live : s # t =>
                  \/ PlaceOf(s) + Header + size[s] <= PlaceOf(t)
                  \/ PlaceOf(t) + Header + size[t] <= PlaceOf(s)
<1> USE DEF Header
<1>0. Typed /\ Laid /\ Slides /\ Made
  BY DEF ArenaInv
<1>1. /\ frontier \in Nat /\ frontier <= Bytes /\ front \in Nat /\ 3 <= front
      /\ \A s \in Index : offset[s] \in Nat /\ size[s] \in Nat
  BY <1>0, ArenaAssumption DEF Typed, Units
<1>2. Edge \in Nat /\ Edge <= frontier
  <2>1. CASE mut \in Making
    <3>1. slot \in Index
      BY <1>0, <2>1, ArenaAssumption DEF Typed, Making, Index
    <3>2. Edge = frontier - 3 - size[slot] /\ 3 <= Edge
      BY <1>0, <2>1 DEF Edge, Laid
    <3> QED
      BY <1>1, <3>1, <3>2
  <2> QED
    BY <1>1, <2>1 DEF Edge
<1>3. \A s \in Live : /\ s \in Index /\ offset[s] \in Nat /\ size[s] \in Nat \ {0}
                      /\ 3 <= offset[s] /\ offset[s] + 3 + size[s] <= Edge
  BY <1>0, <1>1 DEF Laid, Live, End
<1>4. \A s, t \in Live : s # t => \/ offset[s] + 3 + size[s] <= offset[t]
                                  \/ offset[t] + 3 + size[t] <= offset[s]
  BY <1>0 DEF Laid, End
<1>5. CASE mut = "publish"
  <2>1. slot \in Live /\ front < offset[slot]
    BY <1>0, <1>5 DEF Slides, Passing
  <2>2. \A t \in Live : t # slot => \/ offset[slot] + 3 + size[slot] <= offset[t]
                                    \/ offset[t] + 3 + size[t] <= front
    <3> SUFFICES ASSUME NEW t \in Live, t # slot
                 PROVE  \/ offset[slot] + 3 + size[slot] <= offset[t]
                        \/ offset[t] + 3 + size[t] <= front
      OBVIOUS
    <3>1. CASE t \in todo
      BY <1>0, <1>5, <2>1, <3>1 DEF Slides, Passing, End
    <3>2. CASE t \notin todo
      BY <1>0, <1>5, <3>2 DEF Slides, Passing, Behind, End
    <3> QED
      BY <3>1, <3>2
  <2>3. \A t \in Live : PlaceOf(t) = IF t = slot THEN front ELSE offset[t]
    BY <1>5 DEF PlaceOf
  <2>4. \A s \in Live : /\ PlaceOf(s) \in Nat /\ 3 <= PlaceOf(s) /\ PlaceOf(s) <= offset[s]
                        /\ PlaceOf(s) + 3 + size[s] <= Edge
    BY <1>1, <1>2, <1>3, <2>1, <2>3
  <2>5. ASSUME NEW s \in Live, NEW t \in Live, s # t
        PROVE  \/ PlaceOf(s) + 3 + size[s] <= PlaceOf(t)
               \/ PlaceOf(t) + 3 + size[t] <= PlaceOf(s)
    <3>1. CASE s = slot
      BY <1>1, <1>3, <2>1, <2>2, <2>3, <2>5, <3>1
    <3>2. CASE t = slot
      BY <1>1, <1>3, <2>1, <2>2, <2>3, <2>5, <3>2
    <3>3. CASE s # slot /\ t # slot
      BY <1>4, <2>3, <2>5, <3>3
    <3> QED
      BY <3>1, <3>2, <3>3
  <2> QED
    BY <1>1, <1>2, <1>3, <2>4, <2>5
<1>6. CASE mut # "publish"
  <2>1. \A t : PlaceOf(t) = offset[t]
    BY <1>6 DEF PlaceOf
  <2> QED
    BY <1>1, <1>2, <1>3, <1>4, <2>1
<1> QED
  BY <1>5, <1>6

\* A carrier writes its cell through the address it holds: the other records, and the
\* forwarding words no record lies over, are elsewhere.
LEMMA StepWrite ==
    ASSUME ArenaInv, HandlesKept, NEW c \in Carriers, Write(c)
    PROVE  ArenaInv'
<1> USE DEF Header
<1>0. /\ Typed /\ Laid /\ Whole /\ Made /\ Slides /\ Tracked
      /\ pc[c] = "hold" /\ pc[c] \in ClaimPcs /\ pc[c] # "idle"
  BY DEF ArenaInv, Write, ClaimPcs
<1>1. PICK h \in Live, o \in Nat, n \in Nat, v \in Values :
          /\ h = H(c) /\ o = offset[h] /\ o = addr[c] /\ o = PlaceOf(h) /\ n = size[h]
          /\ 3 <= o /\ o + 3 + n <= Edge
          /\ last' = [last EXCEPT ![h] = v]
          /\ mem' = [i \in Units |-> IF i \in (o + Header)..(o + Extent(o) - 1)
                                     THEN <<"data", v>> ELSE mem[i]]
  <2>1. H(c) \in Live /\ ~(mut = "publish" /\ slot = H(c))
    BY <1>0, InHand, ClaimedNotMoving DEF Takes
  <2>2. PlaceOf(H(c)) = offset[H(c)] /\ addr[c] = offset[H(c)]
    BY <1>0, <2>1 DEF PlaceOf, ArenaInv, Addressed
  <2>3. /\ offset[H(c)] \in Nat /\ size[H(c)] \in Nat /\ 3 <= offset[H(c)]
        /\ offset[H(c)] + 3 + size[H(c)] <= Edge
    BY <2>1, <2>2, Places
  <2>4. PICK v \in Values :
            /\ last' = [last EXCEPT ![H(c)] = v]
            /\ mem' = [i \in Units |-> IF i \in (addr[c] + Header)..(addr[c] + Extent(addr[c]) - 1)
                                       THEN <<"data", v>> ELSE mem[i]]
    BY DEF Write
  <2> QED
    BY <2>1, <2>2, <2>3, <2>4
<1>2. h \in Index /\ ~(mut \in Takes /\ slot = h)
  BY <1>0, <1>1, InHand, ClaimedNotMoving
<1>3. RecordAt(mem, h, o, generation[h], n, last[h])
  BY <1>0, <1>1 DEF Whole, WholeAt
<1>4. Extent(o) = 3 + n
  BY <1>3 DEF Extent, RecordAt
<1>5. mem' = [i \in Units |-> IF i \in (o + 3)..(o + 3 + n - 1) THEN <<"data", v>> ELSE mem[i]]
  <2>1. o + (3 + n) - 1 = o + 3 + n - 1
    BY <1>1
  <2> QED
    BY <1>1, <1>4, <2>1
<1>6. /\ frontier \in Nat /\ frontier <= Bytes /\ Bytes \in Nat /\ Edge \in Nat /\ Edge <= frontier
  BY Places, ArenaAssumption
<1>7. \A i \in Nat : i < Bytes /\ (i < o + 3 \/ o + 3 + n <= i) => mem'[i] = mem[i]
  <2> SUFFICES ASSUME NEW i \in Nat, i < Bytes, i < o + 3 \/ o + 3 + n <= i PROVE mem'[i] = mem[i]
    OBVIOUS
  <2>1. i \in Units
    BY <1>6 DEF Units
  <2>2. i \notin (o + 3)..(o + 3 + n - 1)
    BY <1>1
  <2> QED
    BY <1>5, <2>1, <2>2
<1>8. /\ UNCHANGED <<frontier, slots, handle, addr, mutator, size>>
      /\ OthersStay(c) /\ pc'[c] = "unclaim" /\ pc' \in [Carriers -> Pcs]
      /\ last' = [s \in Index |-> last'[s]] /\ last'[h] = v
      /\ \A s \in Index : s # h => last'[s] = last[s]
  BY <1>0, <1>1, <1>2 DEF Write, OthersStay, Goto, Typed, Pcs, ClaimPcs
<1>9. /\ Live' = Live /\ Edge' = Edge /\ Ahead' = Ahead /\ Behind' = Behind /\ Ends' = Ends
      /\ \A s : End(s)' = End(s) /\ PlaceOf(s)' = PlaceOf(s)
      /\ \A i : Word(i)' = Word(i) /\ Covered(i)' = Covered(i)
      /\ \A s : Moved(s)' <=> Moved(s)
  <2> USE <1>8 DEF slots, mutator, pass
  <2>1. /\ Live' = Live /\ Edge' = Edge /\ Ahead' = Ahead /\ Behind' = Behind
        /\ \A s : End(s)' = End(s) /\ PlaceOf(s)' = PlaceOf(s)
    BY DEF Live, Edge, Ahead, Behind, End, PlaceOf
  <2>2. Ends' = Ends
    BY <2>1 DEF Ends
  <2>3. \A i : Word(i)' = Word(i) /\ Covered(i)' = Covered(i)
    BY DEF Word, Covered
  <2>4. \A s : Moved(s)' <=> Moved(s)
    BY <2>1 DEF Moved
  <2> QED
    BY <2>1, <2>2, <2>3, <2>4
<1>10. Typed'
  <2>1. mem' = [i \in Units |-> mem'[i]]
    BY <1>5
  <2> QED
    BY <1>0, <1>8, <2>1 DEF Typed, slots, mutator, pass
<1>11. Claims' /\ Names' /\ Addressed'
  <2>1. \A s \in Index : Claimers(s)' = Claimers(s)
    BY <1>0, <1>8, ClaimersMove DEF H, ClaimPcs
  <2>2. Claims'
    BY <1>8, <2>1 DEF ArenaInv, Claims, slots, mutator
  <2>3. Names' /\ Addressed'
    BY <1>0, <1>8 DEF ArenaInv, Names, Addressed, OthersStay, slots, mutator, H
  <2> QED
    BY <2>2, <2>3
<1>12. Laid' /\ Slides'
  BY <1>0, <1>8, <1>9 DEF Laid, Slides, slots, mutator, pass
<1>13. \A s, p, k, g, m : RecordAt(mem, s, p, g, k, m) /\ p \in Nat /\ k \in Nat /\ p + 3 + k <= frontier
                          /\ (p + 3 + k <= o \/ o + 3 + n <= p) => RecordAt(mem', s, p, g, k, m)
  <2> SUFFICES ASSUME NEW s, NEW p \in Nat, NEW k \in Nat, NEW g, NEW m,
                      RecordAt(mem, s, p, g, k, m), p + 3 + k <= frontier,
                      p + 3 + k <= o \/ o + 3 + n <= p
               PROVE  RecordAt(mem', s, p, g, k, m)
    OBVIOUS
  <2>1. \A i \in p..(p + 3 + k - 1) : mem'[i] = mem[i]
    BY <1>1, <1>6, <1>7
  <2> QED
    BY <2>1, RecordStays
<1>14. Whole'
  <2>1. ASSUME NEW s \in Live PROVE RecordAt(mem', s, PlaceOf(s), generation[s], size[s], last'[s])
    <3>1. RecordAt(mem, s, PlaceOf(s), generation[s], size[s], last[s])
      BY <1>0 DEF Whole, WholeAt
    <3>2. CASE s # h
      <4>1. PICK p \in Nat, k \in Nat : p = PlaceOf(s) /\ k = size[s] /\ p + 3 + k <= frontier
        BY <1>6, Places
      <4>2. p + 3 + k <= o \/ o + 3 + n <= p
        BY <1>1, <3>2, <4>1, Places
      <4>3. last'[s] = last[s]
        BY <1>8, <3>2 DEF Live
      <4> QED
        BY <1>13, <3>1, <4>1, <4>2, <4>3
    <3>3. CASE s = h
      <4>1. /\ mem[o] = HeadUnit(h, generation[h]) /\ mem[o + 1] = Chain
            /\ mem[o + 2] = <<"size", n>>
        BY <1>3 DEF RecordAt
      <4>2. mem'[o] = mem[o] /\ mem'[o + 1] = mem[o + 1] /\ mem'[o + 2] = mem[o + 2]
        BY <1>1, <1>6, <1>7
      <4>3. \A i \in (o + 3)..(o + 3 + n - 1) : mem'[i] = <<"data", v>>
        BY <1>1, <1>5, <1>6, SMTT(30) DEF Units
      <4>4. RecordAt(mem', h, o, generation[h], n, v)
        BY <4>1, <4>2, <4>3 DEF RecordAt
      <4> QED
        BY <1>1, <1>8, <3>3, <4>4
    <3> QED
      BY <3>2, <3>3
  <2>2. generation' = generation /\ size' = size
    BY <1>8 DEF slots
  <2> QED
    BY <1>9, <2>1, <2>2 DEF Whole, WholeAt
<1>15. Made'
  <2>1. ASSUME mut \in Making
        PROVE  WholeAt(slot, Edge, IF mut = "named" THEN generation[slot] ELSE generation[slot] + 1)'
    <3>1. slot \in Index /\ offset[slot] = 0 /\ slot # h
      BY <1>0, <1>1, <2>1, ArenaAssumption, SMTT(30) DEF Typed, Made, Making, Index, Live
    <3>2. size[slot] \in Nat /\ Edge = frontier - 3 - size[slot]
      BY <1>0, <2>1, <3>1 DEF Edge, Typed
    <3>3. PICK p \in Nat, k \in Nat : p = Edge /\ k = size[slot] /\ p + 3 + k <= frontier
      BY <1>6, <3>2
    <3>4. o + 3 + n <= p
      BY <1>1, <3>3
    <3>5. RecordAt(mem, slot, p, IF mut = "named" THEN generation[slot] ELSE generation[slot] + 1, k,
                   last[slot])
      BY <1>0, <2>1, <3>3 DEF Made, WholeAt
    <3>6. RecordAt(mem', slot, p, IF mut = "named" THEN generation[slot] ELSE generation[slot] + 1, k,
                   last[slot])
      BY <1>13, <3>3, <3>4, <3>5
    <3>7. last'[slot] = last[slot]
      BY <1>8, <3>1
    <3> QED
      BY <1>8, <1>9, <3>3, <3>6, <3>7 DEF WholeAt, slots, mutator
  <2> QED
    BY <1>0, <1>8, <2>1 DEF Made, slots, mutator
<1>17. \A w, p, k \in Nat : w \notin p..(p + (3 + k) - 1) => w < p + 3 \/ p + 3 + k <= w
  OBVIOUS
<1>16. Tracked'
  <2>1. ASSUME mut \in Passing, NEW i \in 1..Len(log), ~Covered(Word(i))
        PROVE  mem'[Word(i)] = mem[Word(i)]
    <3>1. PICK w \in Nat : w = Word(i) /\ w < Bytes /\ w = log[i][1] + 1 /\ log[i][1] \in Nat
      <4>1. log[i] \in Nat \X Nat \X Nat
        BY <1>0 DEF Typed
      <4> QED
        BY <1>0, <1>6, <2>1, <4>1 DEF Tracked, Word, Units
    <3>2. CASE h \in Ahead
      <4>1. log[i][1] + 3 <= o
        BY <1>0, <1>1, <2>1, <3>2 DEF Tracked
      <4> QED
        BY <1>1, <1>7, <3>1, <4>1, SMTT(30)
    <3>3. CASE h \notin Ahead
      <4>1. h \in Behind
        BY <1>1, <1>2, <2>1, <3>3 DEF Behind, Ahead, Takes
      <4>2. CASE Moved(h)
        <5>1. PICK j \in 1..Len(log) : log[j][2] = o /\ log[j][3] = 3 + n
          BY <1>1, <4>2 DEF Moved
        <5>2. w \notin o..(o + (3 + n) - 1)
          BY <2>1, <3>1, <5>1 DEF Covered
        <5>3. w < o + 3 \/ o + 3 + n <= w
          BY <1>17, <3>1, <5>2
        <5> QED
          BY <1>7, <3>1, <5>3
      <4>3. CASE \A q \in 1..Len(log) : Word(q) \notin offset[h]..(End(h) - 1)
        <5>0. Word(i) \notin offset[h]..(End(h) - 1)
          BY <2>1, <4>3, Zenon
        <5>1. w \notin o..(o + (3 + n) - 1)
          <6>1. End(h) - 1 = o + (3 + n) - 1
            <7>1. End(h) = offset[h] + 3 + size[h]
              BY DEF End
            <7>2. offset[h] = o /\ size[h] = n
              BY <1>1
            <7>3. End(h) = o + 3 + n
              BY <7>1, <7>2, Zenon
            <7> QED
              BY <7>3
          <6> QED
            BY <1>1, <3>1, <5>0, <6>1
        <5>2. w < o + 3 \/ o + 3 + n <= w
          BY <1>17, <3>1, <5>1
        <5> QED
          BY <1>7, <3>1, <5>2
      <4> QED
        BY <1>0, <2>1, <4>1, <4>2, <4>3 DEF Tracked
    <3> QED
      BY <3>2, <3>3
  <2>2. mut' = mut /\ log' = log /\ offset' = offset /\ slot' = slot /\ forwardBad' = forwardBad
    BY <1>8 DEF slots, mutator, pass
  <2> QED
    BY <1>0, <1>9, <2>1, <2>2 DEF Tracked
<1> QED
  BY <1>10, <1>11, <1>12, <1>14, <1>15, <1>16 DEF ArenaInv

-----------------------------------------------------------------------------
(* The mutator frees a cell *)

LEMMA SameClaimers ==
    ASSUME UNCHANGED carriers
    PROVE  \A s : Claimers(s)' = Claimers(s)
BY DEF carriers, Claimers, H

\* The claim word of a slot nobody has is 0, and a word of 0 says nobody has it.
LEMMA Unclaimed ==
    ASSUME NEW s \in Index
    PROVE  Cardinality(Claimers(s)) = 0 <=> Claimers(s) = {}
BY ClaimersFinite, FS_EmptySet

LEMMA PinnedKept == Pinned \subseteq Kept /\ Kept \subseteq Index
BY ArenaAssumption DEF Kept, Index

\* What the mutator may free, and the slots it may hand out, are not the carriers'.
LEMMA NotKept ==
    ASSUME ArenaInv, NEW s \in Index, Mine(s) \/ offset[s] = 0
    PROVE  s \notin Kept /\ s \notin Pinned
<1>1. s \notin Kept
  BY ArenaAssumption DEF ArenaInv, Names, Typed, Mine, Kept
<1> QED
  BY <1>1, PinnedKept

LEMMA StepFreeClaim ==
    ASSUME ArenaInv, NEW s \in Index, FreeClaim(s)
    PROVE  ArenaInv'
<1>0. /\ Typed /\ Claims /\ Names /\ Addressed /\ Laid /\ Whole /\ Made /\ Slides /\ Tracked
      /\ mut = "rest" /\ Mine(s) /\ claim[s] = 0 /\ claim' = [claim EXCEPT ![s] = Moving]
      /\ mut' = "free" /\ slot' = s
      /\ UNCHANGED <<mem, frontier, generation, offset, nextIndex, carriers, pass, allocs, passes,
                     forwardBad, history>>
  BY DEF ArenaInv, FreeClaim
<1>1. s \in Live /\ s < nextIndex /\ s \notin Kept
  BY <1>0, NotKept DEF Laid, Live, Mine
<1>2. \A t : Claimers(t)' = Claimers(t)
  BY <1>0, SameClaimers
<1>3. Claims'
  <2>1. Claimers(s) = {}
    BY <1>0, Unclaimed DEF Claims, Takes
  <2> QED
    BY <1>0, <1>2, <2>1 DEF Claims, Typed, Takes
<1>4. Typed'
  <2>1. slot' \in 1..(nextIndex - 1) /\ slot' \in 0..SlotCount
    BY <1>0, <1>1, ArenaAssumption DEF Index, Typed
  <2> QED
    BY <1>0, <2>1 DEF Typed, carriers, pass, history, Muts, Takes
<1>5. Names' /\ Addressed'
  BY <1>0, <1>1 DEF Names, Addressed, carriers, H, Making
<1>6. Live' = Live /\ \A t : End(t)' = End(t)
  BY <1>0 DEF Live, End, history
<1>7. Laid'
  BY <1>0, <1>6 DEF Laid, Edge, Making, history
<1>8. Whole'
  BY <1>0, <1>6 DEF Whole, WholeAt, PlaceOf, history
<1>9. Made'
  BY <1>0, <1>1 DEF Made, Making, Live
<1>10. Slides' /\ Tracked'
  BY <1>0 DEF Slides, Tracked, Passing
<1> QED
  BY <1>3, <1>4, <1>5, <1>7, <1>8, <1>9, <1>10 DEF ArenaInv

LEMMA StepFree ==
    ASSUME ArenaInv, HandlesKept, Free
    PROVE  ArenaInv'
<1> USE DEF Header
<1>0. /\ Typed /\ Claims /\ Names /\ Addressed /\ Laid /\ Whole /\ Made /\ Slides /\ Tracked
      /\ mut = "free" /\ mem' = [mem EXCEPT ![offset[slot]][1] = "dead"]
      /\ offset' = [offset EXCEPT ![slot] = 0] /\ mut' = "freed"
      /\ UNCHANGED <<frontier, claim, generation, nextIndex, carriers, slot, pass, allocs,
                     passes, forwardBad, history>>
  BY DEF ArenaInv, Free
<1>1. PICK z \in Index : z = slot /\ offset[z] # 0 /\ z \notin Kept /\ z \in Live
  <2>1. slot \in Index /\ offset[slot] # 0
    BY <1>0, ArenaAssumption DEF Typed, Takes, Index, Made
  <2> QED
    BY <1>0, <2>1 DEF Names, Live
<1>2. PICK o \in Nat, n \in Nat : o = offset[z] /\ n = size[z] /\ o = PlaceOf(z)
  BY <1>0, <1>1, Places DEF PlaceOf
<1>3. Live' = Live \ {z} /\ \A t \in Index : t # z => offset'[t] = offset[t] /\ End(t)' = End(t)
  BY <1>0, <1>1 DEF Live, End, Typed, history
<1>4. \A t : Claimers(t)' = Claimers(t)
  BY <1>0, SameClaimers
<1>5. Claims'
  BY <1>0, <1>4 DEF Claims, Typed, Takes
<1>6. Typed'
  <2>1. mem' = [i \in Units |-> mem'[i]]
    BY <1>0 DEF Typed
  <2>2. offset' \in [Index -> {0} \cup Units]
    BY <1>0 DEF Typed
  <2> QED
    BY <1>0, <2>1, <2>2 DEF Typed, carriers, pass, history, Muts, Takes
<1>7. Names'
  BY <1>0, <1>1, <1>3, PinnedKept DEF Names, carriers, Making, Typed
<1>8. Addressed'
  <2>1. \A c \in Carriers : pc[c] = "hold" => offset'[H(c)] = offset[H(c)]
    BY <1>1, <1>3, InHand
  <2> QED
    BY <1>0, <2>1 DEF Addressed, carriers, H
<1>9. Laid'
  BY <1>0, <1>1, <1>3 DEF Laid, Edge, Making, history, Live
<1>10. Whole'
  <2>1. ASSUME NEW t \in Live, t # z
        PROVE  RecordAt(mem', t, offset[t], generation[t], size[t], last[t])
    <3>1. PICK p \in Nat, k \in Nat : /\ p = offset[t] /\ k = size[t] /\ p = PlaceOf(t)
                                      /\ o + 3 + n <= p \/ p + 3 + k <= o
                                      /\ p + 3 + k <= Bytes
      <4>1. /\ Edge \in Nat /\ frontier \in Nat /\ Edge <= frontier /\ frontier <= Bytes
            /\ PlaceOf(t) \in Nat /\ size[t] \in Nat /\ PlaceOf(t) + 3 + size[t] <= Edge
        BY Places
      <4>2. PlaceOf(t) + 3 + size[t] <= Bytes
        BY <4>1, ArenaAssumption
      <4>3. o + 3 + n <= PlaceOf(t) \/ PlaceOf(t) + 3 + size[t] <= o
        BY <1>1, <1>2, <2>1, Places
      <4>4. PlaceOf(t) = offset[t]
        BY <1>0 DEF PlaceOf
      <4> QED
        BY <4>1, <4>2, <4>3, <4>4
    <3>2. RecordAt(mem, t, p, generation[t], k, last[t])
      BY <1>0, <2>1, <3>1 DEF Whole, WholeAt
    <3>3. \A i \in p..(p + 3 + k - 1) : i # o /\ i \in Units
      BY <1>2, <3>1, ArenaAssumption, SMTT(30) DEF Units
    <3>4. \A i \in Units : i # o => mem'[i] = mem[i]
      BY <1>0, <1>1, <1>2 DEF Typed
    <3>5. \A i \in p..(p + 3 + k - 1) : mem'[i] = mem[i]
      BY <3>3, <3>4, Zenon
    <3> QED
      BY <3>1, <3>2, <3>5, RecordStays
  <2> QED
    BY <1>0, <1>3, <2>1 DEF Whole, WholeAt, PlaceOf, history, Live
<1>11. Made'
  BY <1>0, <1>1 DEF Made, Making, Typed
<1>12. Slides' /\ Tracked'
  BY <1>0 DEF Slides, Tracked, Passing
<1> QED
  BY <1>5, <1>6, <1>7, <1>8, <1>9, <1>10, <1>11, <1>12 DEF ArenaInv

LEMMA StepFreeOpen ==
    ASSUME ArenaInv, FreeOpen
    PROVE  ArenaInv'
<1>0. /\ Typed /\ Claims /\ Names /\ Addressed /\ Laid /\ Whole /\ Made /\ Slides /\ Tracked
      /\ mut = "freed" /\ claim' = [claim EXCEPT ![slot] = 0]
      /\ mut' = "rest" /\ slot' = 0
      /\ UNCHANGED <<mem, frontier, generation, offset, nextIndex, carriers, pass, allocs, passes,
                     forwardBad, history>>
  BY DEF ArenaInv, FreeOpen
<1>1. PICK z \in Index : z = slot
  BY <1>0, ArenaAssumption DEF Typed, Takes, Index
<1>2. \A t : Claimers(t)' = Claimers(t)
  BY <1>0, SameClaimers
<1>3. Claims'
  <2>1. Cardinality(Claimers(z)) = 0
    BY <1>0, <1>1, Unclaimed DEF Claims, Takes
  <2> QED
    BY <1>0, <1>1, <1>2, <2>1 DEF Claims, Typed, Takes
<1>4. Typed'
  <2>1. claim' \in [Index -> Nat \cup {Moving}]
    BY <1>0 DEF Typed
  <2>2. mut' \in Muts /\ slot' \in 0..SlotCount /\ mut' \notin Takes \cup Making
    BY <1>0, ArenaAssumption DEF Muts, Takes, Making
  <2> QED
    BY <1>0, <2>1, <2>2 DEF Typed, carriers, pass, history
<1>5. Names' /\ Addressed'
  BY <1>0, <1>1 DEF Names, Addressed, carriers, H, Making
<1>6. Live' = Live /\ \A t : End(t)' = End(t)
  BY <1>0 DEF Live, End, history
<1>7. Laid'
  BY <1>0, <1>6 DEF Laid, Edge, Making, history
<1>8. Whole'
  BY <1>0, <1>6 DEF Whole, WholeAt, PlaceOf, history
<1>9. Made'
  BY <1>0 DEF Made, Making
<1>10. Slides' /\ Tracked'
  BY <1>0 DEF Slides, Tracked, Passing
<1> QED
  BY <1>3, <1>4, <1>5, <1>7, <1>8, <1>9, <1>10 DEF ArenaInv

-----------------------------------------------------------------------------
(* The mutator makes a cell *)

\* The slot an allocation takes: no cell has it, and it is the next of the index or was handed
\* out before.
LEMMA SlotChosen ==
    ASSUME ArenaInv, ChosenSlot <= SlotCount
    PROVE  /\ ChosenSlot \in Index /\ offset[ChosenSlot] = 0 /\ ChosenSlot <= nextIndex
           /\ ChosenSlot \notin Kept /\ ChosenSlot \notin Pinned
<1>0. Typed /\ Laid
  BY DEF ArenaInv
<1>1. nextIndex \in Nat /\ 1 <= nextIndex /\ nextIndex <= SlotCount + 1
  BY <1>0, ArenaAssumption DEF Typed
<1>2. ChosenSlot \in Index /\ offset[ChosenSlot] = 0 /\ ChosenSlot <= nextIndex
  <2>1. CASE FreeSlots # {}
    <3>1. FreeSlots \in SUBSET Nat
      BY <1>1 DEF FreeSlots
    <3>2. \E s \in FreeSlots : \A t \in FreeSlots : s <= t
      BY <2>1, <3>1, LeastNat
    <3>3. ChosenSlot \in FreeSlots
      BY <2>1, <3>2 DEF ChosenSlot
    <3>4. ChosenSlot \in 1..(nextIndex - 1) /\ offset[ChosenSlot] = 0
      BY <3>3, Zenon DEF FreeSlots
    <3> QED
      BY <1>1, <3>4, ArenaAssumption DEF Index
  <2>2. CASE FreeSlots = {}
    <3>1. ChosenSlot = nextIndex
      BY <2>2 DEF ChosenSlot
    <3>2. nextIndex \in Index
      BY <1>1, <3>1, ArenaAssumption DEF Index
    <3>3. nextIndex \notin Live
      BY <1>0, <1>1 DEF Laid
    <3> QED
      BY <1>1, <3>1, <3>2, <3>3 DEF Live
  <2> QED
    BY <2>1, <2>2
<1> QED
  BY <1>2, NotKept

LEMMA StepAlloc ==
    ASSUME ArenaInv, HandlesKept, Alloc
    PROVE  ArenaInv'
<1> USE DEF Header
<1>a. PICK n \in Scratch :
    /\ mut = "rest" /\ allocs < MaxAllocs
    /\ ChosenSlot <= SlotCount
    /\ frontier + Header + n <= Bytes
    /\ mem' = Fill(frontier, ChosenSlot, generation[ChosenSlot] + 1, n, 0)
    /\ frontier' = frontier + Header + n
    /\ nextIndex' = IF ChosenSlot = nextIndex THEN nextIndex + 1 ELSE nextIndex
    /\ size' = [size EXCEPT ![ChosenSlot] = n]
    /\ last' = [last EXCEPT ![ChosenSlot] = 0]
    /\ slot' = ChosenSlot
    /\ mut' = "allocated" /\ allocs' = allocs + 1
    /\ UNCHANGED <<claim, generation, offset, carriers, pass, passes, forwardBad>>
  BY DEF Alloc
<1>0. /\ Typed /\ Claims /\ Names /\ Addressed /\ Laid /\ Whole /\ Made /\ Slides /\ Tracked
  BY DEF ArenaInv
<1>1. n \in Nat \ {0}
  BY ArenaAssumption
<1>2. PICK z \in Index, f \in Nat : /\ z = ChosenSlot /\ offset[z] = 0 /\ z <= nextIndex /\ f = frontier
                                    /\ z \notin Kept /\ z \notin Pinned /\ 3 <= f
                                    /\ f + 3 + n <= Bytes
  <2>1. frontier \in Nat /\ 3 <= frontier
    BY <1>0, ArenaAssumption DEF Typed
  <2> QED
    BY <1>a, <2>1, SlotChosen
<1>3. Live' = Live /\ z \notin Live /\ \A t \in Index : t # z => size'[t] = size[t] /\ last'[t] = last[t]
  BY <1>0, <1>a, <1>2 DEF Live, Typed
<1>4. \A t \in Live : End(t)' = End(t) /\ PlaceOf(t) = offset[t] /\ PlaceOf(t)' = offset[t]
  BY <1>3, <1>a DEF Live, End, PlaceOf
<1>5. /\ size'[z] = n /\ last'[z] = 0 /\ frontier' = f + 3 + n /\ Edge = f /\ Edge' = f
      /\ mut' \in Making /\ slot' = z /\ mut \notin Making
  <2>1. size'[z] = n /\ last'[z] = 0 /\ frontier' = f + 3 + n
    BY <1>0, <1>a, <1>2 DEF Typed
  <2>2. mut' \in Making /\ slot' = z /\ mut \notin Making
    BY <1>a, <1>2 DEF Making
  <2>4. Edge' = frontier' - 3 - size'[z]
    BY <2>2 DEF Edge
  <2>5. Edge' = f
    <3>1. PICK a \in Nat, b \in Nat : a = frontier' /\ b = size'[z] /\ a = f + 3 + n /\ b = n
      BY <1>1, <2>1
    <3>2. a - 3 - b = f
      BY <1>1, <3>1
    <3> QED
      BY <2>4, <3>1, <3>2, Zenon
  <2> QED
    BY <1>2, <2>1, <2>2, <2>5 DEF Edge
<1>6. Typed'
  <2>1. mem' = [i \in Units |-> mem'[i]] /\ last' = [s \in Index |-> last'[s]]
    BY <1>0, <1>a DEF Typed, Fill
  <2>2. size' \in [Index -> Nat]
    BY <1>0, <1>1, <1>2, <1>a DEF Typed
  <2>3. frontier' \in Header..Bytes
    BY <1>1, <1>2, <1>5, ArenaAssumption
  <2>4. nextIndex' \in (Slots + 1)..(SlotCount + 1) /\ slot' \in 1..(nextIndex' - 1)
    <3>1. PICK q \in Nat : q = nextIndex /\ Slots + 1 <= q /\ q <= SlotCount + 1
      BY <1>0, ArenaAssumption DEF Typed
    <3>2. z \in Nat /\ 1 <= z /\ z <= SlotCount /\ z <= q /\ slot' = z
      BY <1>2, <1>a, <3>1, ArenaAssumption DEF Index
    <3>3. nextIndex' = IF z = q THEN q + 1 ELSE q
      BY <1>2, <1>a, <3>1
    <3> QED
      BY <3>1, <3>2, <3>3, ArenaAssumption
  <2>5. mut' \in Muts /\ slot' \in 0..SlotCount
    BY <1>2, <1>a, ArenaAssumption DEF Muts, Making, Index
  <2>6. todo' \subseteq 1..(nextIndex' - 1)
    <3>1. PICK q \in Nat : q = nextIndex
      BY <1>0, ArenaAssumption DEF Typed
    <3>2. nextIndex' = q + 1 \/ nextIndex' = q
      BY <1>a, <3>1
    <3>3. todo' = todo /\ todo \subseteq 1..(q - 1)
      BY <1>0, <1>a, <3>1 DEF Typed, pass
    <3> QED
      BY <3>1, <3>2, <3>3
  <2> QED
    BY <1>0, <1>a, <2>1, <2>2, <2>3, <2>4, <2>5, <2>6 DEF Typed, carriers, pass
<1>7. Claims'
  <2>1. \A t : Claimers(t)' = Claimers(t)
    BY <1>a, SameClaimers
  <2> QED
    BY <1>0, <1>a, <2>1 DEF Claims, Takes
<1>8. Names' /\ Addressed'
  BY <1>0, <1>2, <1>a DEF Names, Addressed, carriers, H, Making
<1>9. Laid'
  <2>1. \A s \in Live : s < nextIndex' /\ s # z /\ size'[s] # 0
    <3> SUFFICES ASSUME NEW s \in Live PROVE s < nextIndex' /\ s # z /\ size'[s] # 0
      OBVIOUS
    <3>1. s \in Index /\ s # z /\ s < nextIndex /\ size[s] # 0
      BY <1>0, <1>3 DEF Laid, Live
    <3>2. PICK q \in Nat : q = nextIndex
      BY <1>0, ArenaAssumption DEF Typed
    <3>3. nextIndex' = q + 1 \/ nextIndex' = q
      BY <1>a, <3>2
    <3>4. s \in Nat
      BY <3>1 DEF Index
    <3> QED
      BY <1>3, <3>1, <3>2, <3>3, <3>4
  <2> QED
    BY <1>0, <1>2, <1>3, <1>4, <1>5, <1>a, <2>1 DEF Laid
<1>10. \A i \in Units : mem'[i] = IF i \in f..(f + 3 + n - 1) THEN Unit(z, generation[z] + 1, n, Chain, 0, i - f)
                                                            ELSE mem[i]
  BY <1>2, <1>a DEF Fill
<1>11. Whole'
  <2>1. ASSUME NEW t \in Live
        PROVE  RecordAt(mem', t, offset[t], generation[t], size'[t], last'[t])
    <3>1. PICK p \in Nat, k \in Nat : p = offset[t] /\ k = size[t] /\ p + 3 + k <= f
      BY <1>2, <1>4, <1>5, Places
    <3>2. RecordAt(mem, t, p, generation[t], k, last[t])
      BY <1>0, <1>4, <3>1 DEF Whole, WholeAt
    <3>3. \A i \in p..(p + 3 + k - 1) : i \in Units /\ i \notin f..(f + 3 + n - 1)
      <4> SUFFICES ASSUME NEW i \in p..(p + 3 + k - 1)
                   PROVE  i \in Units /\ i \notin f..(f + 3 + n - 1)
        OBVIOUS
      <4>1. Bytes \in Nat
        BY ArenaAssumption
      <4>2. i \in Nat /\ i < f /\ f < Bytes
        BY <1>1, <1>2, <3>1, <4>1
      <4> QED
        BY <4>1, <4>2 DEF Units
    <3>4. \A i \in p..(p + 3 + k - 1) : mem'[i] = mem[i]
      BY <1>10, <3>3, Zenon
    <3>5. RecordAt(mem', t, p, generation[t], k, last[t])
      BY <3>2, <3>4, RecordStays
    <3>6. size'[t] = size[t] /\ last'[t] = last[t]
      BY <1>3 DEF Live
    <3> QED
      BY <3>1, <3>5, <3>6
  <2>2. generation' = generation
    BY <1>a
  <2> QED
    BY <1>3, <1>4, <2>1, <2>2 DEF Whole, WholeAt
<1>12. Made'
  <2>1. \A i \in Nat : i < 3 + n => mem'[f + i] = Unit(z, generation[z] + 1, n, Chain, 0, i)
    <3> SUFFICES ASSUME NEW i \in Nat, i < 3 + n
                 PROVE  mem'[f + i] = Unit(z, generation[z] + 1, n, Chain, 0, i)
      OBVIOUS
    <3>1. f + i \in Units /\ f + i \in f..(f + 3 + n - 1) /\ f + i - f = i
      BY <1>1, <1>2, ArenaAssumption DEF Units
    <3> QED
      BY <1>10, <3>1
  <2>2. /\ mem'[f] = HeadUnit(z, generation[z] + 1) /\ mem'[f + 1] = Chain
        /\ mem'[f + 2] = <<"size", n>>
    <3>1. f + 0 = f
      OBVIOUS
    <3>2. mem'[f + 0] = Unit(z, generation[z] + 1, n, Chain, 0, 0)
      BY <1>1, <2>1
    <3>3. mem'[f + 1] = Unit(z, generation[z] + 1, n, Chain, 0, 1)
      BY <1>1, <2>1
    <3>4. mem'[f + 2] = Unit(z, generation[z] + 1, n, Chain, 0, 2)
      BY <1>1, <2>1
    <3> QED
      BY <3>1, <3>2, <3>3, <3>4 DEF Unit
  <2>3. \A i \in (f + 3)..(f + 3 + n - 1) : mem'[i] = <<"data", 0>>
    <3> SUFFICES ASSUME NEW i \in (f + 3)..(f + 3 + n - 1) PROVE mem'[i] = <<"data", 0>>
      OBVIOUS
    <3>1. PICK j \in Nat : i = f + j /\ 3 <= j /\ j < 3 + n
      <4>1. i - f \in Nat /\ i = f + (i - f) /\ 3 <= i - f /\ i - f < 3 + n
        BY <1>1
      <4> QED
        BY <4>1
    <3>2. Unit(z, generation[z] + 1, n, Chain, 0, j) = <<"data", 0>>
      BY <3>1 DEF Unit
    <3> QED
      BY <2>1, <3>1, <3>2
  <2>4. RecordAt(mem', z, f, generation[z] + 1, n, 0)
    BY <2>2, <2>3 DEF RecordAt
  <2>5. WholeAt(z, f, generation[z] + 1)'
    BY <1>5, <1>a, <2>4 DEF WholeAt
  <2> QED
    BY <1>1, <1>2, <1>5, <1>a, <2>4 DEF Made, WholeAt
<1>13. Slides' /\ Tracked'
  BY <1>0, <1>a DEF Slides, Tracked, Passing
<1> QED
  BY <1>6, <1>7, <1>8, <1>9, <1>11, <1>12, <1>13 DEF ArenaInv

LEMMA StepAllocRefused ==
    ASSUME ArenaInv, AllocRefused
    PROVE  ArenaInv'
<1>0. /\ Typed /\ Claims /\ Names /\ Addressed /\ Laid /\ Whole /\ Made /\ Slides /\ Tracked
      /\ mut = "rest" /\ ChosenSlot <= SlotCount
      /\ nextIndex' = IF ChosenSlot = nextIndex THEN nextIndex + 1 ELSE nextIndex
      /\ UNCHANGED <<mem, frontier, claim, generation, offset, carriers, mut, slot, pass, passes,
                     forwardBad, history>>
  BY DEF ArenaInv, AllocRefused
<1>1. PICK q \in Nat, r \in Nat : /\ q = nextIndex /\ Slots + 1 <= q
                                  /\ r = nextIndex' /\ q <= r /\ r <= SlotCount + 1
  <2>1. nextIndex \in Nat /\ Slots + 1 <= nextIndex /\ nextIndex <= SlotCount + 1
    BY <1>0, ArenaAssumption DEF Typed
  <2>2. ChosenSlot \in Index /\ ChosenSlot <= nextIndex
    BY <1>0, SlotChosen
  <2>3. ChosenSlot = nextIndex => nextIndex + 1 <= SlotCount + 1
    BY <2>1, <2>2, ArenaAssumption DEF Index
  <2> QED
    BY <1>0, <2>1, <2>3, ArenaAssumption
<1>2. Typed'
  <2>0. /\ r \in (Slots + 1)..(SlotCount + 1)
        /\ \A i \in 1..(q - 1) : i \in 1..(r - 1)
    <3>1. SlotCount \in Nat /\ Slots \in Nat
      BY ArenaAssumption
    <3>2. r \in (Slots + 1)..(SlotCount + 1)
      BY <1>1, <3>1
    <3>3. q <= r
      BY <1>1
    <3>4. \A i \in 1..(q - 1) : i \in 1..(r - 1)
      BY <3>3
    <3> QED
      BY <3>2, <3>4
  <2>1. /\ nextIndex' \in (Slots + 1)..(SlotCount + 1)
        /\ \A i \in 1..(nextIndex - 1) : i \in 1..(nextIndex' - 1)
    BY <1>1, <2>0, Zenon
  <2>2. mut \notin Takes \cup Making
    BY <1>0 DEF Takes, Making
  <2> QED
    BY <1>0, <2>1, <2>2 DEF Typed, carriers, pass, history
<1>3. Claims'
  <2>1. \A t : Claimers(t)' = Claimers(t)
    BY <1>0, SameClaimers
  <2> QED
    BY <1>0, <2>1 DEF Claims
<1>4. Names' /\ Addressed'
  BY <1>0 DEF Names, Addressed, carriers, H
<1>5. Live' = Live /\ \A t : End(t)' = End(t)
  BY <1>0 DEF Live, End, history
<1>6. Laid'
  <2>1. \A s \in Live : s < nextIndex'
    BY <1>0, <1>1 DEF Laid, Live, Index
  <2> QED
    BY <1>0, <1>5, <2>1 DEF Laid, Edge, history
<1>7. Whole'
  BY <1>0, <1>5 DEF Whole, WholeAt, PlaceOf, history
<1>8. Made' /\ Slides' /\ Tracked'
  BY <1>0 DEF Made, Making, Slides, Tracked, Passing
<1> QED
  BY <1>2, <1>3, <1>4, <1>6, <1>7, <1>8 DEF ArenaInv

\* Between the two words of its slot the new cell has no name yet.
LEMMA StepAllocGeneration ==
    ASSUME ArenaInv, HandlesKept, AllocGeneration
    PROVE  ArenaInv'
<1>0. /\ Typed /\ Claims /\ Names /\ Addressed /\ Laid /\ Whole /\ Made /\ Slides /\ Tracked
      /\ mut = "allocated" /\ mut \in Making /\ generation' = [generation EXCEPT ![slot] = @ + 1]
      /\ mut' = "named" /\ mut' \in Making
      /\ UNCHANGED <<mem, frontier, claim, offset, nextIndex, carriers, slot, pass, allocs, passes,
                     forwardBad, history>>
  BY DEF ArenaInv, AllocGeneration, Making
<1>1. PICK z \in Index : z = slot /\ z \notin Kept /\ z \notin Live /\ offset[z] = 0
  <2>1. slot \in Index /\ offset[slot] = 0
    BY <1>0, ArenaAssumption DEF Typed, Index, Made
  <2> QED
    BY <1>0, <2>1 DEF Names, Live
<1>2. /\ generation' \in [Index -> Nat] /\ generation'[z] = generation[z] + 1
      /\ \A s \in Index : s # z => generation'[s] = generation[s]
  BY <1>0, <1>1 DEF Typed
<1>3. Typed'
  BY <1>0, <1>2 DEF Typed, carriers, pass, history, Muts, Takes, Making
<1>4. Claims'
  <2>1. \A t : Claimers(t)' = Claimers(t)
    BY <1>0, SameClaimers
  <2> QED
    BY <1>0, <2>1 DEF Claims, Takes
<1>5. Names'
  BY <1>0, <1>1, <1>2, PinnedKept DEF Names, carriers, Making
<1>6. Addressed'
  <2>1. \A c \in Carriers : pc[c] \in {"offset", "hold"} => H(c) \in Index /\ H(c) # z
    BY <1>1, InHand
  <2>2. \A c \in Carriers : pc[c] \in {"offset", "hold"} => generation'[H(c)] = generation[H(c)]
    BY <1>2, <2>1
  <2> QED
    BY <1>0, <2>2 DEF Addressed, carriers, H
<1>7. Live' = Live /\ Edge' = Edge /\ \A t : End(t)' = End(t)
  BY <1>0 DEF Live, End, Edge, history
<1>8. Laid'
  BY <1>0, <1>7 DEF Laid, history
<1>9. Whole'
  <2>1. \A t \in Live : generation'[t] = generation[t]
    BY <1>1, <1>2 DEF Live
  <2> QED
    BY <1>0, <1>7, <2>1 DEF Whole, WholeAt, PlaceOf, history
<1>10. Made'
  <2>1. RecordAt(mem, z, Edge, generation[z] + 1, size[z], last[z]) /\ size[z] # 0
    BY <1>0, <1>1 DEF Made, WholeAt
  <2> QED
    BY <1>0, <1>1, <1>2, <1>7, <2>1 DEF Made, WholeAt, history
<1>11. Slides' /\ Tracked'
  BY <1>0 DEF Slides, Tracked, Passing
<1> QED
  BY <1>3, <1>4, <1>5, <1>6, <1>8, <1>9, <1>10, <1>11 DEF ArenaInv

LEMMA StepAllocOffset ==
    ASSUME ArenaInv, HandlesKept, AllocOffset
    PROVE  ArenaInv'
<1> USE DEF Header
<1>0. /\ Typed /\ Claims /\ Names /\ Addressed /\ Laid /\ Whole /\ Made /\ Slides /\ Tracked
      /\ mut = "named" /\ mut \in Making
      /\ offset' = [offset EXCEPT ![slot] = frontier - Header - size[slot]]
      /\ mut' = "rest" /\ slot' = 0
      /\ UNCHANGED <<mem, frontier, claim, generation, nextIndex, carriers, pass, allocs, passes,
                     forwardBad, history>>
  BY DEF ArenaInv, AllocOffset, Making
<1>1. PICK z \in Index : z = slot /\ z \notin Kept /\ z \notin Live /\ offset[z] = 0 /\ z < nextIndex
  <2>1. slot \in Index /\ offset[slot] = 0 /\ slot < nextIndex
    BY <1>0, ArenaAssumption DEF Typed, Index, Made
  <2> QED
    BY <1>0, <2>1 DEF Names, Live
<1>2. PICK e \in Nat, n \in Nat, f \in Nat :
          /\ e = Edge /\ n = size[z] /\ f = frontier /\ f <= Bytes /\ 3 <= e /\ n # 0 /\ e + 3 + n = f
          /\ offset' = [offset EXCEPT ![z] = e] /\ RecordAt(mem, z, e, generation[z], n, last[z])
  <2>1. /\ Edge \in Nat /\ frontier \in Nat /\ frontier <= Bytes /\ size[z] \in Nat
        /\ size[z] # 0 /\ 3 <= Edge
    BY <1>0, <1>1, Places DEF Typed, Made, Laid
  <2>2. Edge = frontier - 3 - size[z]
    BY <1>0, <1>1 DEF Edge
  <2>3. RecordAt(mem, z, Edge, generation[z], size[z], last[z])
    BY <1>0, <1>1 DEF Made, WholeAt
  <2>4. Edge + 3 + size[z] = frontier
    BY <2>1, <2>2
  <2> QED
    BY <1>0, <1>1, <2>1, <2>2, <2>3, <2>4
<1>3. /\ Live' = Live \cup {z} /\ offset'[z] = e /\ End(z)' = f /\ Edge' = f
      /\ \A t \in Index : t # z => offset'[t] = offset[t]
      /\ \A t \in Live : End(t)' = End(t)
  <2>1. offset'[z] = e /\ \A t \in Index : t # z => offset'[t] = offset[t]
    BY <1>0, <1>2 DEF Typed
  <2>2. Live' = Live \cup {z}
    BY <1>2, <2>1 DEF Live
  <2>3. End(z)' = f /\ \A t \in Live : End(t)' = End(t)
    BY <1>0, <1>1, <1>2, <2>1 DEF End, history, Live
  <2>4. Edge' = f
    BY <1>0, <1>2 DEF Edge, Making
  <2> QED
    BY <2>1, <2>2, <2>3, <2>4
<1>4. Typed'
  <2>1. e \in Units
    BY <1>2, ArenaAssumption DEF Units
  <2>2. offset' \in [Index -> {0} \cup Units]
    BY <1>0, <1>2, <2>1 DEF Typed
  <2>3. mut' \in Muts /\ slot' \in 0..SlotCount /\ mut' \notin Takes \cup Making
    BY <1>0, ArenaAssumption DEF Muts, Takes, Making
  <2> QED
    BY <1>0, <2>2, <2>3 DEF Typed, carriers, pass, history
<1>5. Claims'
  <2>1. \A t : Claimers(t)' = Claimers(t)
    BY <1>0, SameClaimers
  <2> QED
    BY <1>0, <2>1 DEF Claims, Takes
<1>6. Names'
  BY <1>0, <1>1, <1>3, PinnedKept DEF Names, carriers, Making
<1>7. Addressed'
  <2>1. \A c \in Carriers : pc[c] = "hold" => H(c) \in Live
    BY InHand
  <2>2. \A c \in Carriers : pc[c] = "hold" => offset'[H(c)] = offset[H(c)]
    BY <1>1, <1>3, <2>1 DEF Live
  <2> QED
    BY <1>0, <2>2 DEF Addressed, carriers, H
<1>8. Laid'
  <2>1. \A s \in Live : offset'[s] = offset[s] /\ s # z /\ End(s) <= e
    BY <1>0, <1>1, <1>2, <1>3 DEF Laid, Live
  <2>2. \A s \in Live' : /\ s < nextIndex' /\ size'[s] # 0 /\ 3 <= offset'[s] /\ End(s)' <= Edge'
    <3>1. \A s \in Live : s < nextIndex /\ size[s] # 0 /\ 3 <= offset[s] /\ End(s) \in Nat
      BY <1>0, Places DEF Laid, End
    <3> QED
      BY <1>0, <1>1, <1>2, <1>3, <2>1, <3>1 DEF history
  <2>3. ASSUME NEW s \in Live', NEW t \in Live', s # t
        PROVE  End(s)' <= offset'[t] \/ End(t)' <= offset'[s]
    <3>1. CASE s = z
      BY <1>3, <2>1, <2>3, <3>1
    <3>2. CASE t = z
      BY <1>3, <2>1, <2>3, <3>2
    <3>3. CASE s # z /\ t # z
      BY <1>0, <1>3, <2>1, <2>3, <3>3 DEF Laid
    <3> QED
      BY <3>1, <3>2, <3>3
  <2> QED
    BY <1>2, <1>3, <2>2, <2>3 DEF Laid
<1>9. Whole'
  <2>1. \A t \in Live : PlaceOf(t)' = offset[t] /\ PlaceOf(t) = offset[t]
    BY <1>0, <1>1, <1>3 DEF PlaceOf, Live
  <2>2. PlaceOf(z)' = e
    BY <1>0, <1>3 DEF PlaceOf
  <2>3. \A t \in Live : RecordAt(mem, t, offset[t], generation[t], size[t], last[t])
    BY <1>0, <2>1 DEF Whole, WholeAt
  <2> QED
    BY <1>0, <1>2, <1>3, <2>1, <2>2, <2>3 DEF Whole, WholeAt, history
<1>10. Made' /\ Slides' /\ Tracked'
  BY <1>0 DEF Made, Making, Slides, Tracked, Passing
<1> QED
  BY <1>4, <1>5, <1>6, <1>7, <1>8, <1>9, <1>10 DEF ArenaInv

-----------------------------------------------------------------------------
(* The pass *)

LEMMA StepPassBegins ==
    ASSUME ArenaInv, PassBegins
    PROVE  ArenaInv'
<1>0. /\ Typed /\ Claims /\ Names /\ Addressed /\ Laid /\ Whole /\ Made /\ Slides /\ Tracked
      /\ mut = "rest" /\ todo' = 1..(nextIndex - 1) /\ front' = Header /\ log' = <<>>
      /\ mut' = "pass"
      /\ UNCHANGED <<mem, frontier, slots, carriers, slot, forwardBad, history>>
  BY DEF ArenaInv, PassBegins
<1>1. /\ mut' \in Muts /\ mut' \notin Takes /\ mut \notin Takes
      /\ mut' \notin Making /\ mut \notin Making
  BY <1>0 DEF Muts, Takes, Making, Passing
<1>2. Typed'
  <2>1. front' \in Header..Bytes
    BY <1>0, ArenaAssumption DEF Typed, Header
  <2> QED
    BY <1>0, <1>1, <2>1 DEF Typed, carriers, slots, history
<1>3. Claims'
  <2>1. \A t : Claimers(t)' = Claimers(t)
    BY <1>0, SameClaimers
  <2> QED
    BY <1>0, <1>1, <2>1 DEF Claims, slots
<1>4. Names' /\ Addressed'
  BY <1>0, <1>1 DEF Names, Addressed, carriers, slots, H
<1>5. Live' = Live /\ Edge' = Edge /\ \A t : End(t)' = End(t)
  BY <1>0, <1>1 DEF Live, End, Edge, history, slots
<1>6. Laid'
  BY <1>0, <1>5 DEF Laid, history, slots
<1>7. Whole'
  BY <1>0, <1>5 DEF Whole, WholeAt, PlaceOf, history, slots
<1>8. Made'
  BY <1>0, <1>1 DEF Made
<1>9. Live \subseteq todo'
  BY <1>0, ArenaAssumption DEF Laid, Live, Typed, Index
<1>10. Ahead' = todo' /\ Behind' = {} /\ Ends' = {Header}
  BY <1>0, <1>5, <1>9 DEF Ahead, Behind, Ends
<1>11. Slides'
  BY <1>0, <1>5, <1>6, <1>9, <1>10, <1>1, ArenaAssumption DEF Slides, Typed, Laid, Header, slots
<1>12. Tracked'
  BY <1>0, <1>10 DEF Tracked
<1> QED
  BY <1>2, <1>3, <1>4, <1>6, <1>7, <1>8, <1>11, <1>12 DEF ArenaInv

LEMMA StepPassClaim ==
    ASSUME ArenaInv, PassClaim
    PROVE  ArenaInv'
<1>0. /\ Typed /\ Claims /\ Names /\ Addressed /\ Laid /\ Whole /\ Made /\ Slides /\ Tracked
      /\ mut = "pass" /\ mut \in Passing /\ mut' = "visit" /\ mut' \in Takes /\ mut' \in Passing
      /\ mut' \in Muts /\ mut' \notin Making /\ mut \notin Making /\ mut \notin Takes
      /\ UNCHANGED <<mem, frontier, generation, offset, nextIndex, carriers, front, log,
                     oldFrontier, allocs, passes, forwardBad, history>>
  BY DEF ArenaInv, PassClaim, Passing, Takes, Muts, Making
<1>1. PICK s \in todo : /\ \A t \in todo \ {s} : Before(s, t)
                        /\ claim[s] = 0 /\ claim' = [claim EXCEPT ![s] = Moving]
                        /\ slot' = s /\ todo' = todo \ {s}
  BY DEF PassClaim
<1>2. s \in Index /\ s \in 1..(nextIndex - 1) /\ s \in 0..SlotCount
  BY <1>0, ArenaAssumption DEF Typed, Index
<1>3. Typed'
  <2>1. claim' \in [Index -> Nat \cup {Moving}]
    BY <1>0, <1>1, <1>2 DEF Typed
  <2> QED
    BY <1>0, <1>1, <1>2, <2>1 DEF Typed, carriers, history
<1>4. Claims'
  <2>1. \A t : Claimers(t)' = Claimers(t)
    BY <1>0, SameClaimers
  <2>2. Claimers(s) = {}
    BY <1>0, <1>1, <1>2, Unclaimed DEF Claims
  <2> QED
    BY <1>0, <1>1, <1>2, <2>1, <2>2 DEF Claims, Typed
<1>5. Names' /\ Addressed'
  BY <1>0 DEF Names, Addressed, carriers, H
<1>6. /\ Live' = Live /\ Edge' = Edge /\ Ahead' = Ahead /\ Behind' = Behind
      /\ \A t : End(t)' = End(t) /\ PlaceOf(t)' = PlaceOf(t)
  <2>1. Live' = Live /\ Edge' = Edge /\ \A t : End(t)' = End(t) /\ PlaceOf(t)' = PlaceOf(t)
    BY <1>0 DEF Live, End, Edge, PlaceOf, history
  <2>2. Ahead' = Ahead
    BY <1>0, <1>1 DEF Ahead
  <2>3. Behind' = Behind
    BY <1>0, <1>1, <2>1 DEF Behind
  <2> QED
    BY <2>1, <2>2, <2>3
<1>7. Ends' = Ends
  BY <1>6 DEF Ends
<1>8. Laid'
  BY <1>0, <1>6 DEF Laid, history
<1>9. Whole'
  BY <1>0, <1>6 DEF Whole, WholeAt, history
<1>10. Made'
  BY <1>0 DEF Made
<1>11. Slides'
  <2>1. s \in Live => \A t \in todo' \cap Live : End(s) <= offset[t]
    <3> SUFFICES ASSUME s \in Live, NEW t \in todo' \cap Live PROVE End(s) <= offset[t]
      OBVIOUS
    <3>1. t # s /\ Before(s, t)
      BY <1>1
    <3>2. PICK a \in Nat, b \in Nat, k \in Nat \ {0}, j \in Nat \ {0} :
              a = offset[s] /\ b = offset[t] /\ k = size[s] /\ j = size[t]
      BY Places
    <3>3. a <= b
      BY <3>1, <3>2 DEF Before
    <3>4. a + Header + k <= b \/ b + Header + j <= a
      BY <1>0, <3>1, <3>2 DEF Laid, End
    <3>5. a + Header + k <= b
      BY <3>3, <3>4 DEF Header
    <3> QED
      BY <3>2, <3>5 DEF End
  <2> QED
    BY <1>0, <1>1, <1>6, <1>7, <2>1 DEF Slides
<1>12. Tracked'
  <2>1. /\ \A i : Word(i)' = Word(i) /\ Covered(i)' = Covered(i)
        /\ \A t : Moved(t)' <=> Moved(t)
    BY <1>0, <1>6 DEF Word, Covered, Moved, history
  <2> QED
    BY <1>0, <1>6, <2>1 DEF Tracked
<1> QED
  BY <1>3, <1>4, <1>5, <1>8, <1>9, <1>10, <1>11, <1>12 DEF ArenaInv

LEMMA StepPassOpen ==
    ASSUME ArenaInv, PassOpen
    PROVE  ArenaInv'
<1>0. /\ Typed /\ Claims /\ Names /\ Addressed /\ Laid /\ Whole /\ Made /\ Slides /\ Tracked
      /\ mut = "open" /\ mut \in Passing /\ mut \in Takes /\ mut' = "pass" /\ mut' \in Passing
      /\ mut' \in Muts /\ mut' \notin Making /\ mut \notin Making /\ mut' \notin Takes
      /\ claim' = [claim EXCEPT ![slot] = 0] /\ slot' = 0
      /\ UNCHANGED <<mem, frontier, generation, offset, nextIndex, carriers, pass, allocs, passes,
                     forwardBad, history>>
  BY DEF ArenaInv, PassOpen, Passing, Takes, Muts, Making
<1>1. PICK z \in Index : z = slot
  BY <1>0, ArenaAssumption DEF Typed, Index
<1>3. Typed'
  <2>1. claim' \in [Index -> Nat \cup {Moving}] /\ slot' \in 0..SlotCount
    BY <1>0, <1>1, ArenaAssumption DEF Typed
  <2> QED
    BY <1>0, <2>1 DEF Typed, carriers, history, pass
<1>4. Claims'
  <2>1. \A t : Claimers(t)' = Claimers(t)
    BY <1>0, SameClaimers
  <2>2. Cardinality(Claimers(z)) = 0
    BY <1>0, <1>1, Unclaimed DEF Claims
  <2> QED
    BY <1>0, <1>1, <2>1, <2>2 DEF Claims, Typed
<1>5. Names' /\ Addressed'
  BY <1>0 DEF Names, Addressed, carriers, H
<1>6. /\ Live' = Live /\ Edge' = Edge /\ Ahead' = Ahead /\ Behind' = Behind
      /\ \A t : End(t)' = End(t) /\ PlaceOf(t)' = PlaceOf(t)
  <2>1. Live' = Live /\ Edge' = Edge /\ \A t : End(t)' = End(t) /\ PlaceOf(t)' = PlaceOf(t)
    BY <1>0 DEF Live, End, Edge, PlaceOf, history
  <2>2. Ahead' = Ahead
    BY <1>0 DEF Ahead, pass
  <2>3. Behind' = Behind
    BY <1>0, <2>1 DEF Behind, pass
  <2> QED
    BY <2>1, <2>2, <2>3
<1>7. Ends' = Ends
  BY <1>6 DEF Ends
<1>8. Laid'
  BY <1>0, <1>6 DEF Laid, history
<1>9. Whole'
  BY <1>0, <1>6 DEF Whole, WholeAt, history
<1>10. Made'
  BY <1>0 DEF Made
<1>11. Slides'
  BY <1>0, <1>6, <1>7 DEF Slides, pass
<1>12. Tracked'
  <2>1. /\ \A i : Word(i)' = Word(i) /\ Covered(i)' = Covered(i)
        /\ \A t : Moved(t)' <=> Moved(t)
    BY <1>0, <1>6 DEF Word, Covered, Moved, history, pass
  <2> QED
    BY <1>0, <1>6, <2>1 DEF Tracked, pass
<1> QED
  BY <1>3, <1>4, <1>5, <1>8, <1>9, <1>10, <1>11, <1>12 DEF ArenaInv

LEMMA StepPassKeeps ==
    ASSUME ArenaInv, PassKeeps
    PROVE  ArenaInv'
<1> USE DEF Header
<1>0. /\ Typed /\ Claims /\ Names /\ Addressed /\ Laid /\ Whole /\ Made /\ Slides /\ Tracked
      /\ mut = "visit" /\ mut \in Passing /\ mut \in Takes /\ mut' = "open" /\ mut' \in Passing
      /\ mut' \in Muts /\ mut' \notin Making /\ mut \notin Making /\ mut' \in Takes
      /\ offset[slot] = 0 \/ slot \in Pinned \/ offset[slot] = front
      /\ front' = IF offset[slot] = 0 THEN front ELSE offset[slot] + Extent(offset[slot])
      /\ UNCHANGED <<mem, frontier, slots, carriers, slot, todo, log, oldFrontier, allocs, passes,
                     forwardBad, history>>
  BY DEF ArenaInv, PassKeeps, Stays, Passing, Takes, Muts, Making
<1>1. PICK z \in Index : z = slot
  BY <1>0, ArenaAssumption DEF Typed, Index
<1>2. /\ Live' = Live /\ Edge' = Edge /\ Edge = frontier
      /\ \A t : End(t)' = End(t) /\ PlaceOf(t)' = PlaceOf(t) /\ PlaceOf(t) = offset[t]
  BY <1>0 DEF Live, End, Edge, PlaceOf, history, slots
<1>3. z \in Live => /\ Extent(offset[z]) = 3 + size[z] /\ front' = End(z) /\ front <= offset[z]
                    /\ End(z) \in Nat /\ 3 <= End(z) /\ End(z) <= frontier
  <2> SUFFICES ASSUME z \in Live
               PROVE  /\ Extent(offset[z]) = 3 + size[z] /\ front' = End(z) /\ front <= offset[z]
                      /\ End(z) \in Nat /\ 3 <= End(z) /\ End(z) <= frontier
    OBVIOUS
  <2>1. RecordAt(mem, z, offset[z], generation[z], size[z], last[z])
    BY <1>0, <1>2 DEF Whole, WholeAt
  <2>2. Extent(offset[z]) = 3 + size[z]
    BY <2>1 DEF Extent, RecordAt
  <2>3. PICK o \in Nat, k \in Nat : o = offset[z] /\ k = size[z] /\ o # 0 /\ o + 3 + k <= frontier
    BY <1>2, Places DEF Live
  <2>4. End(z) = o + 3 + k /\ front' = o + (3 + k)
    BY <1>0, <1>1, <2>2, <2>3 DEF End
  <2>5. z \in Ahead
    BY <1>0, <1>1 DEF Ahead
  <2> QED
    BY <1>0, <2>2, <2>3, <2>4, <2>5 DEF Slides
<1>4. z \notin Live => front' = front
  BY <1>0, <1>1 DEF Live
<1>5. Typed'
  <2>1. front' \in Header..Bytes
    BY <1>0, <1>3, <1>4, Places, ArenaAssumption, SMTT(30) DEF Typed
  <2> QED
    BY <1>0, <2>1 DEF Typed, carriers, history, slots
<1>6. Claims'
  <2>1. \A t : Claimers(t)' = Claimers(t)
    BY <1>0, SameClaimers
  <2> QED
    BY <1>0, <2>1 DEF Claims, slots
<1>7. Names' /\ Addressed'
  BY <1>0 DEF Names, Addressed, carriers, H, slots
<1>8. Laid'
  BY <1>0, <1>2 DEF Laid, history, slots
<1>9. Whole'
  BY <1>0, <1>2 DEF Whole, WholeAt, history, slots
<1>10. Made'
  BY <1>0 DEF Made
<1>11. /\ Ahead' = todo /\ todo \subseteq Ahead /\ z \notin todo
       /\ Behind' = IF z \in Live THEN Behind \cup {z} ELSE Behind
  BY <1>0, <1>1, <1>2 DEF Ahead, Behind, Slides
<1>12. Ends' = IF z \in Live THEN Ends \cup {End(z)} ELSE Ends
  BY <1>2, <1>11 DEF Ends
<1>13. Slides'
  <2>1. front \in Nat /\ \A s \in Live : End(s) \in Nat /\ offset[s] \in Nat
    BY <1>0, Places, SMTT(30) DEF End, Typed
  <2>2. front' <= frontier /\ front' \in Ends'
    BY <1>0, <1>3, <1>4, <1>12 DEF Slides
  <2>3. \A s \in Ahead' \cap Live' : front' <= offset'[s]
    BY <1>0, <1>1, <1>2, <1>3, <1>4, <1>11 DEF Slides, slots
  <2>4. \A s \in Behind' : End(s)' <= front'
    <3>1. CASE z \in Live
      <4>1. \A s \in Behind : End(s) <= front /\ s \in Live
        BY <1>0 DEF Slides, Behind
      <4>2. front <= offset[z] /\ offset[z] <= End(z)
        BY <1>3, <2>1, <3>1, Places DEF End
      <4> QED
        BY <1>2, <1>3, <1>11, <2>1, <3>1, <4>1, <4>2
    <3>2. CASE z \notin Live
      BY <1>0, <1>2, <1>4, <1>11, <3>2 DEF Slides
    <3> QED
      BY <3>1, <3>2
  <2>5. \A s \in Behind' \ Pinned : offset'[s] \in Ends'
    BY <1>0, <1>1, <1>11, <1>12 DEF Slides, slots, Live
  <2> QED
    BY <1>0, <2>2, <2>3, <2>4, <2>5 DEF Slides
<1>14. Tracked'
  <2>1. /\ \A i : Word(i)' = Word(i) /\ Covered(i)' = Covered(i)
        /\ \A t : Moved(t)' <=> Moved(t)
    BY <1>0, <1>2 DEF Word, Covered, Moved, history
  <2>2. z \in Live => \A i \in 1..Len(log) : Word(i) \notin offset[z]..(End(z) - 1)
    <3> SUFFICES ASSUME z \in Live, NEW i \in 1..Len(log) PROVE Word(i) \notin offset[z]..(End(z) - 1)
      OBVIOUS
    <3>1. PICK w \in Nat, o \in Nat : w = log[i][1] /\ o = offset[z] /\ w + 3 <= o
      <4>1. log[i] \in Nat \X Nat \X Nat
        BY <1>0 DEF Typed
      <4>2. z \in Ahead
        BY <1>0, <1>1 DEF Ahead
      <4> QED
        BY <1>0, <4>1, <4>2, Places DEF Tracked
    <3>2. \A x, y \in Nat : \A e : x + 3 <= y => x + 1 \notin y..e
      OBVIOUS
    <3> QED
      BY <3>1, <3>2 DEF Word
  <2>3. \A s \in Behind' : \/ Moved(s)'
                           \/ \A i \in 1..Len(log') : Word(i)' \notin offset'[s]..(End(s)' - 1)
    BY <1>0, <1>2, <1>11, <2>1, <2>2 DEF Tracked, slots
  <2> QED
    BY <1>0, <1>2, <1>11, <2>1, <2>3 DEF Tracked, slots
<1> QED
  BY <1>5, <1>6, <1>7, <1>8, <1>9, <1>10, <1>13, <1>14 DEF ArenaInv

\* The record goes down to the frontier of the pass: it lands below the old place of every
\* cell still to come and above every cell behind, so that nothing else is written but its own
\* old link word.
LEMMA StepSlide ==
    ASSUME ArenaInv, Slide
    PROVE  ArenaInv'
<1> USE DEF Header
<1>0. /\ Typed /\ Claims /\ Names /\ Addressed /\ Laid /\ Whole /\ Made /\ Slides /\ Tracked
      /\ mut = "visit" /\ mut \in Passing /\ mut \in Takes /\ mut' = "publish" /\ mut' \in Passing
      /\ mut' \in Muts /\ mut' \notin Making /\ mut \notin Making /\ mut' \in Takes
      /\ offset[slot] # 0 /\ slot \notin Pinned /\ offset[slot] # front
      /\ mem' = Slid(offset[slot], front)
      /\ log' = Append(log, <<offset[slot], front, Extent(offset[slot])>>)
      /\ UNCHANGED <<frontier, slots, carriers, slot, todo, front, oldFrontier, allocs, passes,
                     forwardBad, history>>
  BY DEF ArenaInv, Slide, Stays, Passing, Takes, Muts, Making
<1>1. PICK z \in Index, o \in Nat, n \in Nat, f \in Nat :
          /\ z = slot /\ o = offset[z] /\ n = size[z] /\ f = front /\ z \in Live
          /\ z \notin Pinned /\ f < o /\ 3 <= f /\ o + 3 + n <= frontier /\ n # 0
          /\ RecordAt(mem, z, o, generation[z], n, last[z])
  <2>1. slot \in Index /\ slot \in Live
    BY <1>0, ArenaAssumption DEF Typed, Index, Live
  <2>2. Edge = frontier /\ \A t : PlaceOf(t) = offset[t]
    BY <1>0 DEF Edge, PlaceOf
  <2>3. front \in Nat /\ 3 <= front /\ front <= offset[slot]
    BY <1>0, <2>1, ArenaAssumption DEF Typed, Slides, Ahead
  <2>4. RecordAt(mem, slot, offset[slot], generation[slot], size[slot], last[slot])
    BY <1>0, <2>1, <2>2 DEF Whole, WholeAt
  <2>5. /\ offset[slot] \in Nat /\ size[slot] \in Nat /\ size[slot] # 0
        /\ offset[slot] + 3 + size[slot] <= frontier
    BY <2>1, <2>2, Places
  <2>6. front < offset[slot]
    BY <1>0, <2>3, <2>5
  <2> QED
    BY <1>0, <2>1, <2>3, <2>4, <2>5, <2>6
<1>2. frontier \in Nat /\ frontier <= Bytes /\ Bytes \in Nat
  BY Places, ArenaAssumption
<1>3. Extent(o) = 3 + n
  BY <1>1 DEF Extent, RecordAt
<1>4. /\ log' = Append(log, <<o, f, 3 + n>>) /\ log \in Seq(Nat \X Nat \X Nat)
      /\ mem' = [i \in Units |-> IF i = f + 1 THEN mem[o + 1]
                                 ELSE IF i \in f..(f + (3 + n) - 1) THEN mem[o + i - f]
                                 ELSE IF i = o + 1 THEN Forward(f)
                                 ELSE mem[i]]
  BY <1>0, <1>1, <1>3 DEF Slid, Typed
<1>5. PICK len \in Nat :
          /\ len = Len(log) /\ Len(log') = len + 1 /\ 1..Len(log') = 1..len \cup {len + 1}
          /\ log'[len + 1] = <<o, f, 3 + n>> /\ \A i \in 1..len : log'[i] = log[i]
          /\ log' \in Seq(Nat \X Nat \X Nat)
  <2>1. <<o, f, 3 + n>> \in Nat \X Nat \X Nat
    OBVIOUS
  <2>2. /\ Len(log) \in Nat /\ Len(log') = Len(log) + 1
        /\ log'[Len(log) + 1] = <<o, f, 3 + n>> /\ \A i \in 1..Len(log) : log'[i] = log[i]
    BY <1>4, <2>1, AppendProperties, LenProperties
  <2>3. log' \in Seq(Nat \X Nat \X Nat)
    BY <1>4, <2>1
  <2>4. 1..(Len(log) + 1) = 1..Len(log) \cup {Len(log) + 1}
    BY <2>2
  <2> QED
    BY <2>2, <2>3, <2>4
<1>6. /\ Live' = Live /\ Edge' = frontier /\ Edge = frontier
      /\ \A t : End(t)' = End(t) /\ PlaceOf(t) = offset[t]
      /\ PlaceOf(z)' = f /\ \A t : t # z => PlaceOf(t)' = offset[t]
  BY <1>0, <1>1 DEF Live, End, Edge, PlaceOf, history, slots
<1>7. /\ z \notin todo /\ Ahead' = todo /\ Ahead = todo \cup {z} /\ Behind' = Behind /\ Ends' = Ends
  <2>1. z \notin todo /\ Ahead' = todo /\ Ahead = todo \cup {z}
    BY <1>0, <1>1 DEF Ahead, Slides
  <2>2. Behind' = Behind
    BY <1>0, <1>6 DEF Behind
  <2> QED
    BY <1>6, <2>1, <2>2 DEF Ends
<1>8. \A t \in Live : t # z => \/ t \in todo /\ o + 3 + n <= offset[t]
                               \/ t \in Behind /\ offset[t] + 3 + size[t] <= f
  BY <1>0, <1>1 DEF Slides, Behind, End
<1>9. Typed'
  <2>1. mem' = [i \in Units |-> mem'[i]]
    BY <1>4
  <2> QED
    BY <1>0, <1>5, <2>1 DEF Typed, carriers, history, slots
<1>10. Claims'
  <2>1. \A t : Claimers(t)' = Claimers(t)
    BY <1>0, SameClaimers
  <2> QED
    BY <1>0, <2>1 DEF Claims, slots
<1>11. Names' /\ Addressed'
  BY <1>0 DEF Names, Addressed, carriers, H, slots
<1>12. Laid'
  BY <1>0, <1>6 DEF Laid, history, slots
\* What is written: the new place and the old link word.
<1>13. \A i \in Nat : i < Bytes /\ (i < f \/ f + 3 + n <= i) /\ i # o + 1 => mem'[i] = mem[i]
  <2> SUFFICES ASSUME NEW i \in Nat, i < Bytes, i < f \/ f + 3 + n <= i, i # o + 1
               PROVE  mem'[i] = mem[i]
    OBVIOUS
  <2>1. i \in Units /\ i # f + 1 /\ i \notin f..(f + (3 + n) - 1)
    BY <1>2 DEF Units
  <2> QED
    BY <1>4, <2>1
<1>14. RecordAt(mem', z, f, generation[z], n, last[z])
  <2>1. \A j \in Nat : j < 3 + n => mem'[f + j] = mem[o + j]
    <3> SUFFICES ASSUME NEW j \in Nat, j < 3 + n PROVE mem'[f + j] = mem[o + j]
      OBVIOUS
    <3>1. f + j \in Units /\ f + j \in f..(f + (3 + n) - 1) /\ o + (f + j) - f = o + j
      BY <1>1, <1>2 DEF Units
    <3>2. f + j = f + 1 => o + 1 = o + j
      OBVIOUS
    <3> QED
      BY <1>4, <3>1, <3>2
  <2>2. mem'[f + 0] = mem[o + 0] /\ mem'[f + 1] = mem[o + 1] /\ mem'[f + 2] = mem[o + 2]
    BY <2>1
  <2>3. \A i \in (f + 3)..(f + 3 + n - 1) : mem'[i] = <<"data", last[z]>>
    <3> SUFFICES ASSUME NEW i \in (f + 3)..(f + 3 + n - 1) PROVE mem'[i] = <<"data", last[z]>>
      OBVIOUS
    <3>1. PICK j \in Nat : i = f + j /\ 3 <= j /\ j < 3 + n
      <4>1. i - f \in Nat /\ i = f + (i - f) /\ 3 <= i - f /\ i - f < 3 + n
        OBVIOUS
      <4> QED
        BY <4>1
    <3>2. o + j \in (o + 3)..(o + 3 + n - 1)
      BY <3>1
    <3>3. \A q \in (o + 3)..(o + 3 + n - 1) : mem[q] = <<"data", last[z]>>
      BY <1>1 DEF RecordAt
    <3> QED
      BY <2>1, <3>1, <3>2, <3>3
  <2>4. mem[o] = HeadUnit(z, generation[z]) /\ mem[o + 1] = Chain /\ mem[o + 2] = <<"size", n>>
    BY <1>1 DEF RecordAt
  <2>5. f + 0 = f /\ o + 0 = o
    OBVIOUS
  <2> QED
    BY <2>2, <2>3, <2>4, <2>5 DEF RecordAt
<1>15. Whole'
  <2>1. ASSUME NEW t \in Live, t # z
        PROVE  RecordAt(mem', t, offset[t], generation[t], size[t], last[t])
    <3>1. PICK p \in Nat, k \in Nat : p = offset[t] /\ k = size[t] /\ p + 3 + k <= frontier
      BY <1>6, Places
    <3>2. RecordAt(mem, t, p, generation[t], k, last[t])
      BY <1>0, <1>6, <3>1 DEF Whole, WholeAt
    <3>3. o + 3 + n <= p \/ p + 3 + k <= f
      BY <1>8, <2>1, <3>1
    <3>4. \A i \in p..(p + 3 + k - 1) : mem'[i] = mem[i]
      <4> SUFFICES ASSUME NEW i \in p..(p + 3 + k - 1) PROVE mem'[i] = mem[i]
        OBVIOUS
      <4>1. i \in Nat /\ i < Bytes /\ (i < f \/ f + 3 + n <= i) /\ i # o + 1
        BY <1>1, <1>2, <3>1, <3>3
      <4> QED
        BY <1>13, <4>1
    <3> QED
      BY <3>1, <3>2, <3>4, RecordStays
  <2>2. generation' = generation /\ size' = size /\ last' = last
    BY <1>0 DEF slots, history
  <2> QED
    BY <1>1, <1>6, <1>14, <2>1, <2>2 DEF Whole, WholeAt
<1>16. Made'
  BY <1>0 DEF Made
<1>17. Slides'
  BY <1>0, <1>1, <1>6, <1>7 DEF Slides, slots
<1>18. Tracked'
  <2>1. \A i \in 1..len : Word(i)' = Word(i)
    BY <1>5 DEF Word
  <2>2. Word(len + 1)' = o + 1
    BY <1>5 DEF Word
  <2>3. \A i, at : at = Word(i)' =>
            (Covered(Word(i))' <=> Covered(at) \/ at \in f..(f + (3 + n) - 1))
    <3> SUFFICES ASSUME NEW i, NEW at, at = Word(i)'
                 PROVE  Covered(Word(i))' <=> Covered(at) \/ at \in f..(f + (3 + n) - 1)
      OBVIOUS
    <3> DEFINE In(g, j) == at \in g[j][2]..(g[j][2] + g[j][3] - 1)
    <3>1. Covered(Word(i))' <=> \E j \in 1..Len(log') : In(log', j)
      BY DEF Covered
    <3>2. Covered(at) <=> \E j \in 1..len : In(log, j)
      BY <1>5 DEF Covered
    <3>3. In(log', len + 1) <=> at \in f..(f + (3 + n) - 1)
      BY <1>5
    <3>4. \A j \in 1..len : In(log', j) <=> In(log, j)
      BY <1>5
    <3> HIDE DEF In
    <3> QED
      BY <1>5, <3>1, <3>2, <3>3, <3>4
  <2>4. /\ \A t \in Behind : Moved(t) => Moved(t)'
        /\ Moved(z)'
    <3>1. Moved(z)'
      BY <1>0, <1>1, <1>5, <1>6 DEF Moved, history
    <3>2. \A t \in Behind : PlaceOf(t)' = PlaceOf(t)
      BY <1>0, <1>1, <1>6 DEF Behind
    <3>3. \A t \in Behind : Moved(t) => Moved(t)'
      BY <1>0, <1>5, <3>2 DEF Moved, history
    <3> QED
      BY <3>1, <3>3
  <2>5. \A i \in 1..len : /\ log[i][1] \in Nat /\ log[i][1] + 3 <= o /\ Word(i) \in Units
                          /\ Covered(Word(i)) \/ mem[Word(i)] = Forward(log[i][2])
                          /\ Word(i) = log[i][1] + 1
    <3>1. \A i \in 1..len : log[i] \in Nat \X Nat \X Nat
      BY <1>4, <1>5
    <3> QED
      BY <1>0, <1>1, <1>5, <1>7, <3>1 DEF Tracked, Word
  <2>6. ASSUME NEW i \in 1..len
        PROVE  /\ Word(i)' \in Units
               /\ Covered(Word(i))' \/ mem'[Word(i)'] = Forward(log'[i][2])
               /\ \A s \in Ahead' \cap Live' : log'[i][1] + 3 <= offset'[s]
    <3>1. PICK w \in Nat : w = log[i][1] /\ Word(i) = w + 1 /\ w + 3 <= o /\ w + 1 < Bytes
      <4>1. log[i][1] + 1 < Bytes
        BY <1>2, <2>5 DEF Units
      <4> QED
        BY <2>5, <4>1
    <3>2. Word(i)' = w + 1 /\ log'[i] = log[i] /\ Word(i)' \in Units
      BY <1>5, <2>1, <2>5, <3>1
    <3>3. Covered(Word(i))' \/ mem'[Word(i)'] = Forward(log'[i][2])
      <4>1. CASE w + 1 \in f..(f + (3 + n) - 1)
        BY <2>3, <3>2, <4>1
      <4>2. CASE w + 1 \notin f..(f + (3 + n) - 1)
        <5>1. (w + 1 < f \/ f + 3 + n <= w + 1) /\ w + 1 # o + 1
          BY <3>1, <4>2
        <5>2. mem'[w + 1] = mem[w + 1]
          BY <1>13, <3>1, <5>1
        <5> QED
          BY <2>3, <2>5, <3>1, <3>2, <5>2
      <4> QED
        BY <4>1, <4>2
    <3>4. \A s \in Ahead' \cap Live' : log'[i][1] + 3 <= offset'[s]
      BY <1>0, <1>5, <1>6, <1>7, <3>2 DEF Tracked, slots
    <3> QED
      BY <3>2, <3>3, <3>4
  <2>7. /\ Word(len + 1)' \in Units
        /\ Covered(Word(len + 1))' \/ mem'[Word(len + 1)'] = Forward(log'[len + 1][2])
        /\ \A s \in Ahead' \cap Live' : log'[len + 1][1] + 3 <= offset'[s]
    <3>1. o + 1 \in Units /\ o + 1 # f + 1
      BY <1>1, <1>2 DEF Units
    <3>2. Covered(Word(len + 1))' \/ mem'[o + 1] = Forward(f)
      BY <1>4, <2>2, <2>3, <3>1
    <3>3. \A s \in todo \cap Live : o + 3 <= offset[s]
      <4>1. \A s \in Live : offset[s] \in Nat
        BY Places
      <4>2. \A s \in todo \cap Live : o + 3 + n <= offset[s]
        BY <1>0, <1>1 DEF Slides, End
      <4>3. \A x \in Nat : o + 3 + n <= x => o + 3 <= x
        OBVIOUS
      <4> QED
        BY <4>1, <4>2, <4>3
    <3> QED
      BY <1>0, <1>5, <1>6, <1>7, <2>2, <3>1, <3>2, <3>3 DEF slots
  <2>8. ASSUME NEW s \in Behind
        PROVE  Moved(s)' \/ \A i \in 1..Len(log') : Word(i)' \notin offset'[s]..(End(s)' - 1)
    <3>1. CASE Moved(s)
      BY <2>4, <3>1
    <3>2. CASE ~Moved(s)
      <4>1. \A i \in 1..len : Word(i) \notin offset[s]..(End(s) - 1)
        BY <1>0, <1>5, <3>2 DEF Tracked
      <4>2. PICK e \in Nat : e = End(s) /\ e <= f
        <5>1. s \in Live /\ End(s) <= f
          BY <1>0, <1>1 DEF Slides, Behind
        <5> QED
          BY <5>1, Places DEF End
      <4>3. o + 1 \notin offset[s]..(e - 1)
        <5>1. \A x : o + 1 \in x..(e - 1) => o + 1 <= e - 1
          OBVIOUS
        <5>2. ~(o + 1 <= e - 1)
          BY <1>1, <4>2
        <5> QED
          BY <5>1, <5>2
      <4>4. offset' = offset /\ End(s)' = End(s)
        BY <1>0, <1>6 DEF slots
      <4> QED
        BY <1>5, <2>1, <2>2, <4>1, <4>2, <4>3, <4>4
    <3> QED
      BY <3>1, <3>2
  <2> QED
    BY <1>0, <1>1, <1>5, <1>6, <1>7, <2>4, <2>6, <2>7, <2>8 DEF Tracked
<1> QED
  BY <1>9, <1>10, <1>11, <1>12, <1>15, <1>16, <1>17, <1>18 DEF ArenaInv

LEMMA StepPublish ==
    ASSUME ArenaInv, HandlesKept, Publish
    PROVE  ArenaInv'
<1> USE DEF Header
<1>0. /\ Typed /\ Claims /\ Names /\ Addressed /\ Laid /\ Whole /\ Made /\ Slides /\ Tracked
      /\ mut = "publish" /\ mut \in Passing /\ mut \in Takes /\ mut' = "open" /\ mut' \in Passing
      /\ mut' \in Muts /\ mut' \notin Making /\ mut \notin Making /\ mut' \in Takes
      /\ offset' = [offset EXCEPT ![slot] = front] /\ front' = front + Extent(front)
      /\ UNCHANGED <<mem, frontier, claim, generation, nextIndex, carriers, slot, todo, log,
                     oldFrontier, allocs, passes, forwardBad, history>>
  BY DEF ArenaInv, Publish, Passing, Takes, Muts, Making
<1>1. PICK z \in Index, o \in Nat, n \in Nat, f \in Nat :
          /\ z = slot /\ o = offset[z] /\ n = size[z] /\ f = front /\ z \in Live
          /\ z \notin Pinned /\ f < o /\ 3 <= f /\ o + 3 + n <= frontier /\ n # 0
          /\ RecordAt(mem, z, f, generation[z], n, last[z]) /\ front' = f + 3 + n
          /\ offset' = [offset EXCEPT ![z] = f]
  <2>1. slot \in Index /\ slot \in Live /\ slot \notin Pinned /\ front < offset[slot]
    BY <1>0 DEF Live, Slides
  <2>2. Edge = frontier /\ PlaceOf(slot) = front
    BY <1>0 DEF Edge, PlaceOf
  <2>3. RecordAt(mem, slot, front, generation[slot], size[slot], last[slot])
    BY <1>0, <2>1, <2>2 DEF Whole, WholeAt
  <2>4. /\ offset[slot] \in Nat /\ size[slot] \in Nat /\ size[slot] # 0 /\ front \in Nat /\ 3 <= front
        /\ offset[slot] + 3 + size[slot] <= frontier
    BY <1>0, <2>1, <2>2, Places DEF Laid, End
  <2>5. Extent(front) = 3 + size[slot]
    BY <2>3 DEF Extent, RecordAt
  <2>6. front' = front + 3 + size[slot]
    BY <1>0, <2>4, <2>5
  <2> QED
    BY <1>0, <2>1, <2>3, <2>4, <2>6
<1>2. frontier \in Nat /\ frontier <= Bytes /\ Bytes \in Nat
  BY Places, ArenaAssumption
<1>3. /\ offset'[z] = f /\ \A t \in Index : t # z => offset'[t] = offset[t]
      /\ offset' \in [Index -> {0} \cup Units]
  <2>1. f \in Units
    BY <1>1, <1>2 DEF Units
  <2> QED
    BY <1>0, <1>1, <2>1 DEF Typed
<1>4. /\ Live' = Live /\ Edge' = frontier /\ Edge = frontier
      /\ \A t \in Index : t # z => End(t)' = End(t)
      /\ \A t \in Live : PlaceOf(t)' = PlaceOf(t) /\ PlaceOf(t) = offset'[t]
      /\ End(z)' = f + 3 + n /\ End(z) = o + 3 + n
  <2>1. Live' = Live
    BY <1>1, <1>3 DEF Live
  <2>2. \A t \in Index : t # z => End(t)' = End(t)
    BY <1>0, <1>3 DEF End, history
  <2>3. \A t \in Live : PlaceOf(t)' = PlaceOf(t) /\ PlaceOf(t) = offset'[t]
    BY <1>0, <1>1, <1>3 DEF PlaceOf, Live
  <2>4. End(z)' = f + 3 + n /\ End(z) = o + 3 + n
    BY <1>0, <1>1, <1>3 DEF End, history
  <2> QED
    BY <1>0, <2>1, <2>2, <2>3, <2>4 DEF Edge
<1>5. /\ z \notin todo /\ Ahead' = todo /\ Ahead = todo /\ Behind' = Behind \cup {z} /\ z \notin Behind
      /\ \A s \in Behind : s \in Live /\ s # z
  BY <1>0, <1>1, <1>4 DEF Ahead, Behind, Slides
<1>6. Ends' = Ends \cup {f + 3 + n}
  BY <1>4, <1>5 DEF Ends, Live
<1>7. Typed'
  <2>1. front' \in Header..Bytes
    BY <1>1, <1>2
  <2> QED
    BY <1>0, <1>3, <2>1, SMTT(30) DEF Typed, carriers, history
<1>8. Claims'
  <2>1. \A t : Claimers(t)' = Claimers(t)
    BY <1>0, SameClaimers
  <2> QED
    BY <1>0, <2>1 DEF Claims
<1>9. Names'
  BY <1>0, <1>1, <1>3, PinnedKept DEF Names, carriers
<1>10. Addressed'
  <2>1. \A c \in Carriers : pc[c] = "hold" => H(c) \in Index /\ H(c) # z
    BY <1>0, <1>1, InHand, ClaimedNotMoving DEF ClaimPcs
  <2>2. \A c \in Carriers : pc[c] = "hold" => offset'[H(c)] = offset[H(c)]
    BY <1>3, <2>1
  <2> QED
    BY <1>0, <2>2 DEF Addressed, carriers, H
<1>11. Laid'
  <2>1. \A s \in Live : /\ s < nextIndex /\ size[s] # 0
    BY <1>0 DEF Laid
  <2>2. \A s \in Live : /\ 3 <= offset'[s] /\ offset'[s] + 3 + size[s] <= frontier
    BY <1>4, Places
  <2>3. \A s, t \in Live : s # t => \/ offset'[s] + 3 + size[s] <= offset'[t]
                                    \/ offset'[t] + 3 + size[t] <= offset'[s]
    BY <1>4, Places
  <2>4. \A s : End(s)' = offset'[s] + 3 + size[s]
    BY <1>0 DEF End, history
  <2>5. 3 <= frontier
    BY <1>0 DEF Typed
  <2> QED
    BY <1>0, <1>4, <2>1, <2>2, <2>3, <2>4, <2>5 DEF Laid, history
<1>12. Whole'
  BY <1>0, <1>4 DEF Whole, WholeAt, history
<1>13. Made'
  BY <1>0 DEF Made
<1>14. Slides'
  <2>1. front' <= frontier /\ front' \in Ends'
    BY <1>1, <1>2, <1>6
  <2>2. \A s \in Ahead' \cap Live' : front' <= offset'[s]
    <3> SUFFICES ASSUME NEW s \in todo \cap Live PROVE front' <= offset'[s]
      BY <1>4, <1>5
    <3>1. s # z /\ o + 3 + n <= offset[s] /\ offset[s] \in Nat /\ offset'[s] = offset[s]
      BY <1>0, <1>1, <1>3, <1>4, <1>5, Places DEF Slides, Live
    <3> QED
      BY <1>1, <3>1
  <2>3. \A s \in Behind' : End(s)' <= front'
    <3>1. ASSUME NEW s \in Behind PROVE End(s)' <= f + 3 + n
      <4>1. End(s) <= f /\ End(s)' = End(s) /\ s \in Live
        BY <1>0, <1>1, <1>4, <1>5 DEF Slides, Live
      <4>2. End(s) \in Nat
        BY <4>1, Places DEF End
      <4> QED
        BY <4>1, <4>2
    <3>2. f + 3 + n <= f + 3 + n
      OBVIOUS
    <3> QED
      BY <1>1, <1>4, <1>5, <3>1, <3>2
  <2>4. \A s \in Behind' \ Pinned : offset'[s] \in Ends'
    BY <1>0, <1>1, <1>3, <1>5, <1>6 DEF Slides, Live
  <2> QED
    BY <1>0, <2>1, <2>2, <2>3, <2>4 DEF Slides
<1>15. Tracked'
  <2>1. /\ \A i : Word(i)' = Word(i) /\ Covered(i)' = Covered(i)
        /\ \A t \in Live : Moved(t)' <=> Moved(t)
    <3>1. \A t \in Live : Moved(t)' <=> Moved(t)
      BY <1>0, <1>4 DEF Moved, history
    <3> QED
      BY <1>0, <3>1 DEF Word, Covered
  <2>2. ASSUME NEW s \in Behind'
        PROVE  Moved(s)' \/ \A i \in 1..Len(log) : Word(i) \notin offset'[s]..(End(s)' - 1)
    <3>1. CASE s = z
      BY <1>0, <1>1, <2>1, <3>1 DEF Tracked
    <3>2. CASE s # z
      <4>1. s \in Behind /\ s \in Live /\ End(s)' = End(s) /\ offset'[s] = offset[s]
        BY <1>3, <1>4, <1>5, <3>2 DEF Live
      <4> QED
        BY <1>0, <2>1, <4>1 DEF Tracked
    <3> QED
      BY <3>1, <3>2
  <2>3. \A i \in 1..Len(log) : \A s \in Ahead' \cap Live' : log[i][1] + 3 <= offset'[s]
    BY <1>0, <1>3, <1>4, <1>5 DEF Tracked, Live
  <2> QED
    BY <1>0, <2>1, <2>2, <2>3 DEF Tracked
<1> QED
  BY <1>7, <1>8, <1>9, <1>10, <1>11, <1>12, <1>13, <1>14, <1>15 DEF ArenaInv

\* The mutator finds every forwarding word, and the pass leaves nothing behind its frontier.
LEMMA StepPassEnds ==
    ASSUME ArenaInv, PassEnds
    PROVE  ArenaInv'
<1>0. /\ Typed /\ Claims /\ Names /\ Addressed /\ Laid /\ Whole /\ Made /\ Slides /\ Tracked
      /\ mut = "pass" /\ mut \in Passing /\ mut' = "finish" /\ mut' \notin Passing
      /\ mut' \in Muts /\ mut' \notin Making /\ mut \notin Making /\ mut' \notin Takes
      /\ mut \notin Takes /\ todo = {} /\ frontier' = front
      /\ UNCHANGED <<mem, slots, carriers, slot, pass, allocs, passes, history>>
  BY DEF ArenaInv, PassEnds, Passing, Takes, Muts, Making
<1>1. forwardBad' = FALSE
  <2>1. log \in Seq(Nat \X Nat \X Nat) /\ DOMAIN log = 1..Len(log)
    BY <1>0, LenProperties DEF Typed
  <2>2. ASSUME NEW i \in DOMAIN log
        PROVE  ~LET at == log[i][1] + 1
                IN  /\ \A j \in DOMAIN log : at \notin log[j][2]..(log[j][2] + log[j][3] - 1)
                    /\ mem[at] # Forward(log[i][2])
    BY <1>0, <2>1, <2>2 DEF Tracked, Covered, Word
  <2>3. forwardBad' = \E i \in DOMAIN log :
                          LET at == log[i][1] + 1
                          IN  /\ \A j \in DOMAIN log :
                                     at \notin log[j][2]..(log[j][2] + log[j][3] - 1)
                              /\ mem[at] # Forward(log[i][2])
    BY DEF PassEnds
  <2> QED
    BY <2>2, <2>3
<1>2. Typed'
  BY <1>0 DEF Typed, carriers, slots, pass, history
<1>3. Claims'
  <2>1. \A t : Claimers(t)' = Claimers(t)
    BY <1>0, SameClaimers
  <2> QED
    BY <1>0, <2>1 DEF Claims, slots
<1>4. Names' /\ Addressed'
  BY <1>0 DEF Names, Addressed, carriers, slots, H
<1>5. /\ Live' = Live /\ Behind' = Live /\ Behind = Live /\ Ahead' = {} /\ Edge' = front
      /\ \A t : End(t)' = End(t) /\ PlaceOf(t)' = PlaceOf(t)
  BY <1>0 DEF Live, Behind, Ahead, Edge, End, PlaceOf, slots, pass, history
<1>6. Ends' = Ends
  BY <1>5 DEF Ends
<1>7. Laid'
  BY <1>0, <1>5 DEF Laid, slots, history, Slides, Typed
<1>8. Whole'
  BY <1>0, <1>5 DEF Whole, WholeAt, slots, history
<1>9. Made'
  BY <1>0 DEF Made
<1>10. Slides'
  BY <1>0, <1>5, <1>6 DEF Slides, slots, pass, Typed
<1>11. Tracked'
  BY <1>0, <1>1 DEF Tracked
<1> QED
  BY <1>2, <1>3, <1>4, <1>7, <1>8, <1>9, <1>10, <1>11 DEF ArenaInv

LEMMA StepFinish ==
    ASSUME ArenaInv, Finish
    PROVE  ArenaInv'
<1> USE DEF Header
<1>0. /\ Typed /\ Claims /\ Names /\ Addressed /\ Laid /\ Whole /\ Made /\ Slides /\ Tracked
      /\ mut = "finish" /\ mut' = "rest" /\ mut' \notin Passing \cup {"finish"}
      /\ mut' \in Muts /\ mut' \notin Making /\ mut \notin Making /\ mut' \notin Takes
      /\ mut \notin Takes
      /\ mem' = [i \in Units |-> IF i \in frontier..(oldFrontier - 1) THEN Void ELSE mem[i]]
      /\ todo' = {} /\ front' = Header /\ log' = <<>>
      /\ UNCHANGED <<frontier, slots, carriers, slot, allocs, passes, forwardBad, history>>
  BY DEF ArenaInv, Finish, Passing, Takes, Muts, Making
<1>1. frontier \in Nat /\ frontier <= Bytes /\ 3 <= frontier /\ Bytes \in Nat
  BY <1>0, Places, ArenaAssumption DEF Typed
<1>2. Typed'
  <2>1. mem' = [i \in Units |-> mem'[i]]
    BY <1>0
  <2>2. front' \in Header..Bytes
    BY <1>0, <1>1
  <2>3. log' \in Seq(Nat \X Nat \X Nat)
    BY <1>0
  <2> QED
    BY <1>0, <2>1, <2>2, <2>3 DEF Typed, carriers, slots, history
<1>3. Claims'
  <2>1. \A t : Claimers(t)' = Claimers(t)
    BY <1>0, SameClaimers
  <2> QED
    BY <1>0, <2>1 DEF Claims, slots
<1>4. Names' /\ Addressed'
  BY <1>0 DEF Names, Addressed, carriers, slots, H
<1>5. /\ Live' = Live /\ Edge' = Edge /\ Edge = frontier
      /\ \A t : End(t)' = End(t) /\ PlaceOf(t)' = offset[t] /\ PlaceOf(t) = offset[t]
  BY <1>0 DEF Live, Edge, End, PlaceOf, slots, history
<1>6. Laid'
  BY <1>0, <1>5 DEF Laid, slots, history
<1>7. Whole'
  <2>1. ASSUME NEW t \in Live
        PROVE  RecordAt(mem', t, offset[t], generation[t], size[t], last[t])
    <3>1. PICK p \in Nat, k \in Nat : p = offset[t] /\ k = size[t] /\ p + 3 + k <= frontier
      BY <1>5, Places
    <3>2. RecordAt(mem, t, p, generation[t], k, last[t])
      BY <1>0, <1>5, <3>1 DEF Whole, WholeAt
    <3>3. \A i \in p..(p + 3 + k - 1) : mem'[i] = mem[i]
      <4> SUFFICES ASSUME NEW i \in p..(p + 3 + k - 1) PROVE mem'[i] = mem[i]
        OBVIOUS
      <4>1. i \in Units /\ i < frontier
        BY <1>1, <3>1 DEF Units
      <4>2. i \notin frontier..(oldFrontier - 1)
        BY <1>1, <4>1
      <4> QED
        BY <1>0, <4>1, <4>2
    <3> QED
      BY <3>1, <3>2, <3>3, RecordStays
  <2>2. generation' = generation /\ size' = size /\ last' = last
    BY <1>0 DEF slots, history
  <2> QED
    BY <1>5, <2>1, <2>2 DEF Whole, WholeAt
<1>8. Made' /\ Slides' /\ Tracked'
  BY <1>0 DEF Made, Slides, Tracked
<1> QED
  BY <1>2, <1>3, <1>4, <1>6, <1>7, <1>8 DEF ArenaInv

-----------------------------------------------------------------------------
(* What the witness sets up *)

LEMMA Starts ==
    ASSUME Init
    PROVE  ArenaInv
<1> USE DEF Header
<1>1. /\ Slots \in Nat /\ SlotCount \in Nat /\ Slots <= SlotCount /\ Bytes \in Nat
      /\ \A s \in 1..Slots : s \in Index /\ SizeOf[s] \in Nat /\ SizeOf[s] # 0
      /\ \A s \in 1..Slots : s + 1 \in 1..(Slots + 1) /\ s \in 1..(Slots + 1)
      /\ Slots + 1 \in 1..(Slots + 1)
  BY ArenaAssumption DEF Index
<1>2. /\ \A s \in 1..(Slots + 1) : StartOf[s] \in Nat /\ StartOf[s] >= 3
      /\ \A s \in 1..Slots : StartOf[s] + 3 + SizeOf[s] <= StartOf[Slots + 1]
      /\ \A s, t \in 1..Slots : s < t => StartOf[s] + 3 + SizeOf[s] <= StartOf[t]
      /\ \A s \in 1..Slots : StartOf[s + 1] = StartOf[s] + 3 + SizeOf[s]
      /\ StartOf[Slots + 1] <= Bytes
  BY StartOfOrder, StartOfStep, ArenaAssumption
<1>3. /\ frontier = StartOf[Slots + 1] /\ frontier \in Nat /\ mut = "rest" /\ nextIndex = Slots + 1
      /\ offset = [s \in Index |-> IF s <= Slots THEN StartOf[s] ELSE 0]
      /\ size = [s \in Index |-> IF s <= Slots THEN SizeOf[s] ELSE 0]
      /\ generation = [s \in Index |-> IF s <= Slots THEN FirstGeneration(s) ELSE 0]
      /\ claim = [s \in Index |-> 0] /\ last = [s \in Index |-> 0]
      /\ pc = [c \in Carriers |-> "idle"] /\ handle = [c \in Carriers |-> <<0, 0>>]
      /\ addr = [c \in Carriers |-> 0] /\ slot = 0 /\ todo = {} /\ front = 3 /\ log = <<>>
      /\ forwardBad = FALSE
  BY <1>1, <1>2 DEF Init
<1>4. Live = 1..Slots
  <2>1. \A s \in 1..Slots : offset[s] = StartOf[s] /\ StartOf[s] # 0
    BY <1>1, <1>2, <1>3
  <2>2. \A s \in Index : s \in 1..Slots \/ offset[s] = 0
    BY <1>1, <1>3 DEF Index
  <2> QED
    BY <1>1, <2>1, <2>2 DEF Live
<1>5. \A s \in Live : /\ offset[s] = StartOf[s] /\ size[s] = SizeOf[s] /\ last[s] = 0
                      /\ generation[s] = FirstGeneration(s) /\ End(s) = StartOf[s] + 3 + SizeOf[s]
                      /\ PlaceOf(s) = StartOf[s]
  BY <1>1, <1>3, <1>4 DEF End, PlaceOf
<1>6. mut \notin Takes /\ mut \notin Making /\ mut \notin Passing /\ mut \in Muts
  BY <1>3 DEF Takes, Making, Passing, Muts
<1>7. Typed
  <2>1. mem = [i \in Units |-> mem[i]] /\ last = [s \in Index |-> last[s]]
    BY <1>3 DEF Init
  <2>2. frontier \in Header..Bytes /\ front \in Header..Bytes
    BY <1>1, <1>2, <1>3
  <2>3. offset \in [Index -> {0} \cup Units]
    <3>1. \A s \in 1..Slots : StartOf[s] \in Units
      <4> SUFFICES ASSUME NEW s \in 1..Slots PROVE StartOf[s] \in Units
        OBVIOUS
      <4>1. PICK a \in Nat, n \in Nat, e \in Nat :
                a = StartOf[s] /\ n = SizeOf[s] /\ e = StartOf[Slots + 1] /\ a + 3 + n <= e /\ e <= Bytes
        BY <1>1, <1>2
      <4>2. a < Bytes
        BY <1>1, <4>1
      <4> QED
        BY <1>1, <4>1, <4>2 DEF Units
    <3>2. \A s \in Index : s <= Slots => s \in 1..Slots
      BY <1>1 DEF Index
    <3> QED
      BY <1>3, <3>1, <3>2
  <2>4. size \in [Index -> Nat] /\ generation \in [Index -> Nat]
    <3>1. \A s \in Index : s <= Slots => SizeOf[s] \in Nat
      BY <1>1 DEF Index
    <3> QED
      BY <1>3, <3>1 DEF FirstGeneration
  <2>5. nextIndex \in (Slots + 1)..(SlotCount + 1) /\ slot \in 0..SlotCount
    BY <1>1, <1>3
  <2>6. /\ claim \in [Index -> Nat \cup {Moving}] /\ pc \in [Carriers -> Pcs]
        /\ handle \in [Carriers -> {<<0, 0>>} \cup (Index \X Nat)]
        /\ addr \in [Carriers -> {0} \cup Units] /\ log \in Seq(Nat \X Nat \X Nat)
    BY <1>3 DEF Pcs
  <2>7. todo \subseteq 1..(nextIndex - 1)
    BY <1>3
  <2> QED
    BY <1>6, <2>1, <2>2, <2>3, <2>4, <2>5, <2>6, <2>7 DEF Typed
<1>8. Claims
  <2>1. \A s : Claimers(s) = {}
    BY <1>3 DEF Claimers
  <2> QED
    BY <1>3, <1>6, <2>1, FS_EmptySet DEF Claims
<1>9. Names
  <2>1. Kept \subseteq Live /\ Pinned \subseteq Live /\ \A s \in Live : offset[s] # 0
    BY <1>4, ArenaAssumption DEF Kept, Live
  <2> QED
    BY <1>3, <1>5, <2>1 DEF Names, Making
<1>10. Addressed
  BY <1>3 DEF Addressed
<1>11. Laid
  <2>1. Edge = frontier /\ 3 <= frontier
    BY <1>1, <1>2, <1>3, <1>6 DEF Edge
  <2>2. \A s \in Live : s < nextIndex /\ size[s] # 0 /\ 3 <= offset[s] /\ End(s) <= Edge
    <3> SUFFICES ASSUME NEW s \in Live
                 PROVE  s < nextIndex /\ size[s] # 0 /\ 3 <= offset[s] /\ End(s) <= Edge
      OBVIOUS
    <3>1. s \in 1..Slots /\ s < nextIndex
      BY <1>1, <1>3, <1>4
    <3>2. s \in 1..(Slots + 1)
      BY <1>1, <3>1
    <3> QED
      BY <1>1, <1>2, <1>3, <1>5, <2>1, <3>1, <3>2
  <2>3. ASSUME NEW s \in Live, NEW t \in Live, s # t
        PROVE  End(s) <= offset[t] \/ End(t) <= offset[s]
    <3>1. s < t \/ t < s
      BY <1>4, <2>3
    <3> QED
      BY <1>2, <1>4, <1>5, <3>1
  <2> QED
    BY <2>1, <2>2, <2>3 DEF Laid
<1>12. Whole
  <2> SUFFICES ASSUME NEW s \in Live
               PROVE  RecordAt(mem, s, StartOf[s], FirstGeneration(s), SizeOf[s], 0)
    BY <1>5 DEF Whole, WholeAt
  <2>0. s \in 1..Slots /\ s + 1 \in 1..(Slots + 1) /\ StartOf[s + 1] = StartOf[s] + 3 + SizeOf[s]
    BY <1>1, <1>2, <1>4
  <2>1. PICK a \in Nat, n \in Nat : /\ a = StartOf[s] /\ n = SizeOf[s] /\ n # 0 /\ a + 3 + n <= Bytes
                                    /\ StartOf[s + 1] = a + 3 + n
    <3>1. PICK e \in Nat : e = StartOf[Slots + 1] /\ e <= Bytes
      BY <1>1, <1>2
    <3>2. PICK a \in Nat, n \in Nat : a = StartOf[s] /\ n = SizeOf[s] /\ n # 0 /\ a + 3 + n <= e
      BY <1>1, <1>2, <2>0, <3>1
    <3>3. a + 3 + n <= Bytes
      BY <1>1, <3>1, <3>2
    <3> QED
      BY <2>0, <3>2, <3>3
  <2>2. ASSUME NEW i \in Nat, i < 3 + n
        PROVE  mem[a + i] = Unit(s, FirstGeneration(s), n, Chain, 0, i)
    <3> DEFINE In(t) == a + i \in StartOf[t]..(StartOf[t + 1] - 1)
    <3>1. a + i \in Units /\ (a + i) - a = i
      BY <1>1, <2>1, <2>2 DEF Units
    <3>2. In(s)
      BY <2>1, <2>2
    <3>3. ASSUME NEW t \in 1..Slots, t # s PROVE ~In(t)
      <4>1. PICK b \in Nat, k \in Nat : b = StartOf[t] /\ k = SizeOf[t] /\ StartOf[t + 1] = b + 3 + k
        BY <1>1, <1>2
      <4>2. t < s \/ s < t
        BY <2>0, <3>3
      <4>3. b + 3 + k <= a \/ a + 3 + n <= b
        BY <1>2, <2>0, <2>1, <4>1, <4>2
      <4>4. a + i \notin b..(b + 3 + k - 1)
        BY <2>2, <4>3
      <4> QED
        BY <4>1, <4>4
    <3>4. (CHOOSE t \in 1..Slots : In(t)) = s
      <4> HIDE DEF In
      <4> QED
        BY <2>0, <3>2, <3>3
    <3> DEFINE At(u) == IF \E t \in 1..Slots : u \in StartOf[t]..(StartOf[t + 1] - 1)
                        THEN LET t == CHOOSE t \in 1..Slots : u \in StartOf[t]..(StartOf[t + 1] - 1)
                             IN  Unit(t, FirstGeneration(t), SizeOf[t], Chain, 0, u - StartOf[t])
                        ELSE Void
    <3>5. mem[a + i] = At(a + i)
      <4>1. mem = [u \in Units |-> At(u)]
        BY Zenon DEF Init
      <4> HIDE DEF At
      <4> QED
        BY <3>1, <4>1
    <3>6. mem[a + i] = Unit(s, FirstGeneration(s), SizeOf[s], Chain, 0, (a + i) - StartOf[s])
      <4> DEFINE x == CHOOSE t \in 1..Slots : In(t)
      <4>1. \E t \in 1..Slots : In(t)
        BY <2>0, <3>2
      <4>2. At(a + i) = Unit(x, FirstGeneration(x), SizeOf[x], Chain, 0, (a + i) - StartOf[x])
        BY <4>1, Zenon
      <4>3. x = s
        BY <3>4
      <4> HIDE DEF x, At
      <4> QED
        BY <3>5, <4>2, <4>3
    <3> QED
      BY <2>1, <3>1, <3>6
  <2>3. /\ mem[a] = HeadUnit(s, FirstGeneration(s)) /\ mem[a + 1] = Chain
        /\ mem[a + 2] = <<"size", n>>
    <3>1. a + 0 = a
      OBVIOUS
    <3>2. mem[a + 0] = Unit(s, FirstGeneration(s), n, Chain, 0, 0)
      BY <2>2
    <3>3. mem[a + 1] = Unit(s, FirstGeneration(s), n, Chain, 0, 1)
      BY <2>2
    <3>4. mem[a + 2] = Unit(s, FirstGeneration(s), n, Chain, 0, 2)
      BY <2>2
    <3> QED
      BY <3>1, <3>2, <3>3, <3>4 DEF Unit
  <2>4. \A i \in (a + 3)..(a + 3 + n - 1) : mem[i] = <<"data", 0>>
    <3> SUFFICES ASSUME NEW i \in (a + 3)..(a + 3 + n - 1) PROVE mem[i] = <<"data", 0>>
      OBVIOUS
    <3>1. PICK j \in Nat : i = a + j /\ 3 <= j /\ j < 3 + n
      <4>1. i - a \in Nat /\ i = a + (i - a) /\ 3 <= i - a /\ i - a < 3 + n
        OBVIOUS
      <4> QED
        BY <4>1
    <3>2. Unit(s, FirstGeneration(s), n, Chain, 0, j) = <<"data", 0>>
      BY <3>1 DEF Unit
    <3> QED
      BY <2>2, <3>1, <3>2
  <2> QED
    BY <2>1, <2>3, <2>4 DEF RecordAt
<1>13. Made /\ Slides /\ Tracked
  BY <1>3, <1>6 DEF Made, Slides, Tracked
<1> QED
  BY <1>7, <1>8, <1>9, <1>10, <1>11, <1>12, <1>13 DEF ArenaInv

-----------------------------------------------------------------------------
(* Every step, and what the invariant says *)

LEMMA Stutters ==
    ASSUME ArenaInv, UNCHANGED vars
    PROVE  ArenaInv'
<1>1. UNCHANGED cells /\ UNCHANGED slots /\ UNCHANGED carriers
  BY DEF vars, cells, slots, carriers, mutator, pass, history
<1>2. Laid' /\ Whole' /\ Made' /\ Slides' /\ Tracked'
  BY <1>1, CellsStay
<1>3. \A t : Claimers(t)' = Claimers(t)
  BY <1>1, SameClaimers
<1>4. Typed' /\ Names' /\ Addressed'
  BY <1>1 DEF ArenaInv, Typed, Names, Addressed, H, cells, slots, carriers, mutator, pass, history
<1>5. Claims'
  BY <1>1, <1>3 DEF ArenaInv, Claims, cells, slots, mutator
<1> QED
  BY <1>2, <1>4, <1>5 DEF ArenaInv

LEMMA Steps ==
    ASSUME ArenaInv, HandlesKept, [Next]_vars
    PROVE  ArenaInv'
<1>1. CASE UNCHANGED vars
  BY <1>1, Stutters
<1>2. ASSUME NEW c \in Carriers, Resolve(c) \/ Carrier(c) \/ Write(c)
      PROVE  ArenaInv'
  BY <1>2, StepResolve, StepLooks, StepClaim, StepRelease, StepWrite DEF Carrier
<1>3. CASE FreeOrAlloc
  BY <1>3, StepFreeClaim, StepFree, StepFreeOpen, StepAlloc, StepAllocRefused, StepAllocGeneration,
     StepAllocOffset DEF FreeOrAlloc
<1>4. CASE Pass
  BY <1>4, StepPassBegins, StepPassClaim, StepPassKeeps, StepSlide, StepPublish, StepPassOpen,
     StepPassEnds, StepFinish DEF Pass
<1> QED
  BY <1>1, <1>2, <1>3, <1>4 DEF Next

LEMMA CellsFollow ==
    ASSUME ArenaInv, HandlesKept
    PROVE  CellsHold
<1> USE DEF Header
<1>0. /\ Typed /\ Claims /\ Names /\ Addressed /\ Laid /\ Whole /\ Made /\ Slides /\ Tracked
  BY DEF ArenaInv
<1>1. TypeOK
  BY <1>0, ArenaAssumption DEF TypeOK, Typed, Claims
<1>2. HeldAddress
  <2> SUFFICES ASSUME NEW c \in Carriers, pc[c] = "hold"
               PROVE  /\ generation[H(c)] = handle[c][2]
                      /\ addr[c] = offset[H(c)] /\ addr[c] # 0 /\ claim[H(c)] # Moving
    BY DEF HeldAddress
  <2>1. pc[c] \in ClaimPcs
    BY DEF ClaimPcs
  <2> QED
    BY <1>0, <2>1, InHand, ClaimedNotMoving DEF Addressed
<1>3. LiveCellsWhole
  <2> SUFFICES ASSUME NEW s \in Index, offset[s] # 0, ~(mut = "publish" /\ slot = s)
               PROVE  /\ offset[s] + 3 + size[s] <= frontier
                      /\ mem[offset[s]] = HeadUnit(s, generation[s])
                      /\ mem[offset[s] + 2] = <<"size", size[s]>> /\ mem[offset[s] + 1] = Chain
                      /\ \A i \in (offset[s] + 3)..(offset[s] + 3 + size[s] - 1) :
                             mem[i] = <<"data", last[s]>>
    BY DEF LiveCellsWhole
  <2>1. s \in Live /\ PlaceOf(s) = offset[s]
    BY DEF Live, PlaceOf
  <2>2. RecordAt(mem, s, offset[s], generation[s], size[s], last[s])
    BY <1>0, <2>1 DEF Whole, WholeAt
  <2>3. PICK o \in Nat, n \in Nat, e \in Nat, f \in Nat :
            /\ o = offset[s] /\ n = size[s] /\ e = Edge /\ f = frontier
            /\ o + 3 + n <= e /\ e <= f
    BY <2>1, Places
  <2>4. o + 3 + n <= f
    BY <2>3
  <2> QED
    BY <2>2, <2>3, <2>4 DEF RecordAt
<1>4. PassPacks
  <2> SUFFICES ASSUME mut = "finish"
               PROVE  /\ \A s \in Live : IF s \in Pinned THEN offset[s] = StartOf[s]
                                                         ELSE offset[s] \in Ends
                      /\ frontier \in Ends /\ \A e \in Ends : e <= frontier
                      /\ Ends = {Header} \cup {offset[s] + Header + size[s] : s \in Live}
    BY DEF PassPacks, Live
  <2>1. Behind = Live /\ frontier = front
    BY <1>0 DEF Behind, Slides
  <2>2. Ends = {3} \cup {offset[s] + 3 + size[s] : s \in Live}
    BY <2>1 DEF Ends, End
  <2>3. \A s \in Live : IF s \in Pinned THEN offset[s] = StartOf[s] ELSE offset[s] \in Ends
    BY <1>0, <2>1 DEF Names, Slides
  <2>4. frontier \in Ends /\ \A e \in Ends : e <= frontier
    BY <1>0, <2>1, ArenaAssumption DEF Slides, Ends, Typed
  <2> QED
    BY <2>2, <2>3, <2>4
<1>5. ForwardTracked
  BY <1>0 DEF Tracked, ForwardTracked
<1> QED
  BY <1>1, <1>2, <1>3, <1>4, <1>5 DEF CellsHold

\* The arena invariant holds in every state, for any number of carriers and slots, any sizes
\* and any arena the cells of the start fit into (rxf_smp_arena_free, rxf_smp_arena_alloc and
\* rxf_smp_compact_move against rxf_smp_resolve).
THEOREM ArenaSafe ==
    ASSUME HandlesKept
    PROVE  Spec => []ArenaInv
<1>1. Init => ArenaInv
  BY Starts
<1>2. ArenaInv /\ [Next]_vars => ArenaInv'
  BY Steps
<1> QED
  BY <1>1, <1>2, PTL DEF Spec

\* A handle names its cell, whole, whatever the compactor and the mutator do to the arena: what
\* arena_safety checks of one arena, for all of them.
THEOREM CellsAlwaysHold ==
    ASSUME HandlesKept
    PROVE  Spec => []CellsHold
<1>1. ArenaInv => CellsHold
  BY CellsFollow
<1>2. Spec => []ArenaInv
  BY ArenaSafe
<1> QED
  BY <1>1, <1>2, PTL
=============================================================================
