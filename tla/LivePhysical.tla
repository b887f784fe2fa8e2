----------------------------- MODULE LivePhysical -----------------------------
(* The physical delta (live/physical.py): compiled from the image before and   *)
(* the image after, applied object by object; and the arena of a running image *)
(* read back into the model (live/arena_image.py): the arena is a world in     *)
(* tree order with its payloads as room, load makes the world again. A handle  *)
(* of a world is a number, the ground's are the first in every model: the      *)
(* root, Type and Field. A word of a payload is plain or names an object.      *)
EXTENDS Integers, Sequences, SequencesExt, FiniteSets

CONSTANTS
  Paths,   \* sequences of names, closed under parents; a name is a number
  Datas,   \* what an object may hold
  Gone,    \* a handle that points at an object that is gone
  Worlds,  \* sequences of objects, the ground's first
  Room,    \* a payload has room in steps of so many words
  None

VARIABLES
  base, result, entry,  \* the images before and after: path -> object; their entries
  ops,      \* the operations still to apply
  image,    \* what the running image made of them so far
  at,       \* its entry
  verdict,  \* None while applying, then "applied" or "refused"
  world, like, loaded   \* of load: the image's world, the world at hand, what it made

vars == <<base, result, entry, ops, image, at, verdict>>

----------------------------------------------------------------------------
(* records: what an object is, with no handle in it.  A mandatory handle on an *)
(* object that is gone is an error, an optional one is unset.                  *)

Object(d, slot, optional) == [data |-> d, slot |-> slot, optional |-> optional]
Stands(img) == \A p \in DOMAIN img : img[p].slot = Gone => img[p].optional
Record(o) == IF o.slot = Gone THEN [o EXCEPT !.slot = None] ELSE o
Records(img) == [p \in DOMAIN img |-> Record(img[p])]

\* The order of a path: by its names, a parent before its children.
Before(p, q) ==
  \/ Len(p) < Len(q) /\ p = SubSeq(q, 1, Len(p))
  \/ \E k \in 1..(IF Len(p) < Len(q) THEN Len(p) ELSE Len(q)) :
       p[k] < q[k] /\ \A j \in 1..k - 1 : p[j] = q[j]
Higher(p, q) == Len(p) < Len(q) \/ (Len(p) = Len(q) /\ Before(p, q))  \* parents first
Deeper(p, q) == Len(p) > Len(q) \/ (Len(p) = Len(q) /\ Before(p, q))

Op(op, p, r) == [op |-> op, path |-> p, record |-> r]

Compile(before, after, was, now) ==
  LET Dels == SetToSortSeq(DOMAIN before \ DOMAIN after, Deeper)
      Creates == SetToSortSeq(DOMAIN after \ DOMAIN before, Before)
      Sets == SetToSortSeq({p \in DOMAIN after \cap DOMAIN before : after[p] # before[p]}, Before)
  IN [k \in DOMAIN Dels |-> Op("delete", Dels[k], None)]
     \o [k \in DOMAIN Creates |-> Op("create", Creates[k], after[Creates[k]])]
     \o [k \in DOMAIN Sets |-> Op("set", Sets[k], after[Sets[k]])]
     \o (IF was = now THEN <<>> ELSE <<Op("entry", now, None)>>)

----------------------------------------------------------------------------
(* The image takes the operations in order, then checks that it links.         *)

Parent(p) == SubSeq(p, 1, Len(p) - 1)
HasChild(img, p) == \E q \in DOMAIN img : q # p /\ Len(q) > 0 /\ Parent(q) = p
Doable(o) ==
  CASE o.op = "delete" -> o.path \in DOMAIN image /\ ~HasChild(image, o.path)
    [] o.op = "create" -> o.path \notin DOMAIN image
                          /\ (Len(o.path) > 1 => Parent(o.path) \in DOMAIN image)
    [] o.op = "set" -> o.path \in DOMAIN image
    [] OTHER -> o.path \in DOMAIN image \cup {None}
Done(o) ==
  CASE o.op = "delete" -> [p \in DOMAIN image \ {o.path} |-> image[p]]
    [] o.op = "entry" -> image
    [] OTHER -> [p \in DOMAIN image \cup {o.path} |-> IF p = o.path THEN o.record ELSE image[p]]

Links(img) == \A p \in DOMAIN img : img[p].slot \in DOMAIN img \cup {None}

Apply ==
  /\ verdict = None /\ ops # <<>>
  /\ IF Doable(Head(ops))
     THEN /\ ops' = Tail(ops)
          /\ \E i \in {Done(Head(ops))} : image' = i
          /\ at' = IF Head(ops).op = "entry" THEN Head(ops).path ELSE at
          /\ UNCHANGED verdict
     ELSE verdict' = "refused" /\ ops' = <<>> /\ image' = Records(base) /\ at' = entry.base
  /\ UNCHANGED <<base, result, entry>>

Finish ==
  /\ verdict = None /\ ops = <<>>
  /\ IF Links(image) THEN verdict' = "applied" /\ UNCHANGED <<image, at>>
     ELSE verdict' = "refused" /\ image' = Records(base) /\ at' = entry.base
  /\ UNCHANGED <<base, result, entry, ops>>

----------------------------------------------------------------------------

Closed(S) == \A p \in S : Len(p) > 1 => Parent(p) \in S
Images == {img \in UNION {[S -> {Object(d, s, o) : d \in Datas, s \in Paths \cup {None, Gone},
                                                   o \in BOOLEAN}]
                          : S \in {T \in SUBSET Paths : Closed(T)}} :
             /\ Stands(img)
             /\ \A p \in DOMAIN img : img[p].slot \in Paths => img[p].slot \in DOMAIN img
             /\ \A p \in DOMAIN img : img[p].slot # Gone => ~img[p].optional}

Entries(img) == {None} \cup DOMAIN img
Init ==
  /\ base \in {i \in Images : \A p \in DOMAIN i : i[p].slot # Gone /\ i[p].data = CHOOSE d \in Datas : TRUE}
  /\ result \in Images
  /\ entry \in {[base |-> b, result |-> r] : b \in Entries(base), r \in Entries(result)}
  /\ entry.base = None \/ entry.result = entry.base
  /\ ops = Compile(Records(base), Records(result), entry.base, entry.result)
  /\ image = Records(base) /\ at = entry.base /\ verdict = None

Next == Apply \/ Finish
Spec == Init /\ [][Next]_vars

\* The delta carries exactly the difference: the image it was made for takes it
\* whole and is the other image, as compaction would leave that one.
DeltaIsDifference ==
  /\ verdict # "refused"
  /\ verdict = "applied" => image = Records(result) /\ at = entry.result

----------------------------------------------------------------------------
(* The loading of an image *)

loadVars == <<world, like, loaded>>

Root == 1
TypeType == 2
FieldType == 3
Ground == 3

Plain(n) == <<"word", n>>
Ref(h) == <<"ref", h>>
Zero == Plain(0)
Pad(payload) == payload \o [k \in 1..(-Len(payload)) % Room |-> Zero]

----------------------------------------------------------------------------
(* A world: objects by handle.  A field says whether it refers (1), and whether  *)
(* the value ends where the payload does (2): then the layout is not fixed.      *)

Children(w, h) == SelectSeq([k \in DOMAIN w |-> k], LAMBDA k : k # Root /\ w[k].parent = h)
Path(w, h) ==
  LET path[o \in DOMAIN w] == IF o = Root THEN <<>> ELSE Append(path[w[o].parent], w[o].name)
  IN path[h]
At(w, path) == LET found == {h \in DOMAIN w : Path(w, h) = path}
               IN IF found = {} THEN None ELSE CHOOSE h \in found : TRUE

\* The layout of a type, read from the fields below it that are known as such.
Layout(w, t) ==
  IF t = None THEN None
  ELSE IF t \in {TypeType, FieldType}
    THEN [fixed |-> TRUE, prefix |-> IF t = FieldType THEN 1 ELSE 0, slots |-> {}]
  ELSE LET fields == SelectSeq(Children(w, t), LAMBDA f : w[f].type = FieldType)
           Is(k, what) == w[fields[k]].payload = <<Plain(what)>>
       IN [fixed |-> \A k \in DOMAIN fields : ~Is(k, 2), prefix |-> Len(fields),
           slots |-> {k \in DOMAIN fields : Is(k, 1)}]

----------------------------------------------------------------------------
(* arena_of: the world in tree order, every payload in its room, the built bytes *)
(* of a recipe in it.                                                            *)

Walk(w, h) ==
  LET walk[o \in DOMAIN w] ==
        LET under == Children(w, o)
        IN <<o>> \o FlattenSeq([k \in DOMAIN under |-> walk[under[k]]])
  IN walk[h]

Filled(w) == [h \in DOMAIN w |-> IF w[h].built = <<>> THEN w[h] ELSE [w[h] EXCEPT !.payload = @ \o w[h].built]]
ArenaOf(w) ==
  LET order == Walk(w, Root)
      Cell(h) == CHOOSE k \in DOMAIN order : order[k] = h
      Moved(word) == IF word[1] = "ref" THEN Ref(Cell(word[2])) ELSE word
      Payload(h) == [k \in DOMAIN Filled(w)[h].payload |-> Moved(Filled(w)[h].payload[k])]
  IN [k \in DOMAIN order |->
       LET o == w[order[k]]
       IN [name |-> o.name, parent |-> IF k = 1 THEN None ELSE Cell(o.parent),
           type |-> IF o.type = None THEN None ELSE Cell(o.type),
           refs |-> {Cell(r) : r \in o.refs}, payload |-> Pad(Payload(order[k]))]]

----------------------------------------------------------------------------
(* load: every object its handle, then what it names, the fields first           *)

\* _walk: the ground is there, the rest is added as the arena has it, untyped.
Placed(arena) ==
  LET PathOf[k \in DOMAIN arena] == IF k = 1 THEN <<>> ELSE Append(PathOf[arena[k].parent], arena[k].name)
      IsGround(k) == PathOf[k] \in {<<>>, <<"Type">>, <<"Field">>}
      GroundOf(k) == IF PathOf[k] = <<>> THEN Root ELSE IF PathOf[k] = <<"Type">> THEN TypeType ELSE FieldType
  IN [k \in DOMAIN arena |-> IF IsGround(k) THEN GroundOf(k)
                             ELSE Ground + Cardinality({j \in 1..k : ~IsGround(j)})]

Added(arena, placed, empty) ==
  [h \in 1..Len(arena) |->
     IF h <= Ground THEN empty[h]
     ELSE LET k == CHOOSE j \in DOMAIN arena : placed[j] = h
          IN [name |-> arena[k].name, parent |-> placed[arena[k].parent], type |-> None,
              refs |-> {}, payload |-> arena[k].payload, built |-> <<>>]]

\* _known: the payload as `like` holds it, when the filled `like` holds these bytes.
Plainly(payload, slots) == [k \in DOMAIN payload |-> IF k \in slots THEN Zero ELSE payload[k]]
Known(w, path, data, slots) ==
  LET h == At(w, path)
      before == w[h].payload
      after == Filled(w)[h].payload
  IN IF h = None THEN data
     ELSE IF Len(after) > Len(data) THEN data
     ELSE IF (\E k \in Len(after) + 1..Len(data) : data[k] # Zero)
             \/ Plainly(SubSeq(data, 1, Len(after)), slots) # Plainly(after, slots) THEN data
     ELSE SubSeq(data, 1, Len(before))

\* A slot names its object by the arena's handle until it is wired.
Wired(w, k, arena, placed) ==
  LET h == placed[k]
      type == IF arena[k].type = None THEN None ELSE placed[arena[k].type]
      layout == Layout(w, type)
      slots == IF layout = None THEN {} ELSE layout.slots
      data == w[h].payload
      tail == IF layout = None THEN {} ELSE {j \in DOMAIN data : j > layout.prefix}
      cut == IF IF layout = None THEN FALSE ELSE layout.fixed
             THEN IF \A j \in tail : data[j] = Zero
                  THEN SubSeq(data, 1, IF layout.prefix < Len(data) THEN layout.prefix ELSE Len(data)) ELSE data
             ELSE IF like = None THEN data ELSE Known(like, Path(w, h), data, slots)
  IN [w EXCEPT ![h].type = type, ![h].refs = {placed[r] : r \in arena[k].refs},
               ![h].payload = [j \in DOMAIN cut |-> IF j \in slots /\ cut[j][1] = "ref"
                                                    THEN Ref(placed[cut[j][2]]) ELSE cut[j]]]

TypedByGround(arena, placed, k) ==
  IF arena[k].type = None THEN FALSE ELSE placed[arena[k].type] <= Ground
WalkOrder(todo, arena, placed) == todo  \* the fields wait for their turn
WiringOrder(todo, arena, placed) ==
  SelectSeq(todo, LAMBDA k : TypedByGround(arena, placed, k))
  \o SelectSeq(todo, LAMBDA k : ~TypedByGround(arena, placed, k))

Load(arena, empty) ==
  LET placed == Placed(arena)
      todo == SelectSeq([k \in DOMAIN arena |-> k], LAMBDA k : placed[k] > Ground)
  IN FoldLeft(LAMBDA w, k : Wired(w, k, arena, placed), Added(arena, placed, empty),
              WiringOrder(todo, arena, placed))

----------------------------------------------------------------------------

LoadInit == world \in Worlds /\ like \in {None, world} /\ loaded = None
LoadImage == loaded = None /\ loaded' = Load(ArenaOf(world), SubSeq(world, 1, Ground)) /\ UNCHANGED <<world, like>>
LoadNext == LoadImage

----------------------------------------------------------------------------

\* "load(arena_of(model)) is the model again", by path: with the world it came
\* from at hand to the word, without it up to the zeros at the end of a payload
\* whose length nothing fixes, and the bytes its recipe built.
Names(w, word) == IF word[1] = "ref" THEN <<"ref", Path(w, word[2])>> ELSE word
Spelled(w, h) == [k \in DOMAIN w[h].payload |-> Names(w, w[h].payload[k])]
SameObject(w, h, v, g) ==
  /\ (w[h].type = None) = (v[g].type = None)
  /\ w[h].type # None => Path(w, w[h].type) = Path(v, v[g].type)
  /\ {Path(w, r) : r \in w[h].refs} = {Path(v, r) : r \in v[g].refs}
  /\ like # None => Spelled(w, h) = Spelled(v, g)
  /\ like = None => IsPrefix(Spelled(w, h), Spelled(v, g))
LoadInverts ==
  loaded # None =>
    /\ Len(loaded) = Len(world)
    /\ \A h \in DOMAIN world : h > Ground =>
         /\ At(loaded, Path(world, h)) # None
         /\ SameObject(world, h, loaded, At(loaded, Path(world, h)))
=============================================================================
