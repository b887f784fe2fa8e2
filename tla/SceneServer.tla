----------------------------- MODULE SceneServer ------------------------------
(* The scene session of the world page (world/__init__.py _Session) and the      *)
(* layers it keeps (world/export.py Layers): requests of several threads ask     *)
(* for parts, one of them at a time computes the passes its part needs, and      *)
(* progress is read beside them.                                                 *)
(*                                                                               *)
(* Beside it the one-arena image as the page streams it (scene_bin, and          *)
(* ArenaScene): the record stream split at its own seams into parts, one         *)
(* district's share of every part, and the cache the requests of several threads *)
(* read.  A handle is the number of its record in the arena.  The two share no   *)
(* state.                                                                        *)
EXTENDS Integers, FiniteSets, Sequences, TLC

CONSTANTS
  Requests, MaxEdits, None,
  Arenas,     \* the images: a set of sequences of records, the first five of them the frame
  Edited,     \* those an edit leads to
  Span        \* the bytes of one district

VARIABLES
  image,    \* the image the inspector answers from, as a version
  layers,   \* the passes that are kept, the digest they are kept under, None at first
  payload,  \* the assembled document
  mutex, working,
  stage,    \* of a request: what it asked for and how far it is
  runs,     \* how often a pass ran over one image
  current,  \* the arena the inspector answers from
  edits,
  cache,    \* the arena that is kept and the digest it is kept under
  request   \* of a thread: where it is, the digest it took, what it asked for and was told

vars == <<image, layers, payload, mutex, working, stage, runs>>
streamVars == <<current, edits, cache, request>>

Passes == {"base", "buildings", "cables", "city", "routes", "bundles"}

\* What a pass asks for first (Layers).
Asks(pass) ==
  CASE pass = "base" -> {}
    [] pass = "buildings" -> {"base"}
    [] pass = "cables" -> {"base", "buildings"}
    [] pass = "city" -> {"base", "buildings"}
    [] pass = "routes" -> {"buildings", "cables", "city"}
    [] pass = "bundles" -> {"buildings", "cables", "city", "routes"}
\* What a part of the plan asks for; the manifest and the document are parts here.
PartAsks(part) ==
  CASE part = "manifest" -> {"base"}
    [] part \in {"cells", "voids"} -> {"buildings"}
    [] part = "blocks" -> {"base", "buildings"}
    [] part \in {"streets", "frame"} -> {"city"}
    [] part = "edges" -> {"routes"}
    [] part \in {"bundles", "stubs"} -> {"bundles"}
    [] part \in {"counts", "document"} -> {"buildings", "routes", "bundles"}
Plan == {"cells", "voids", "blocks", "streets", "frame", "edges", "bundles", "stubs", "counts"}

RECURSIVE Closure(_)
Closure(S) == IF \A p \in S : Asks(p) \subseteq S THEN S ELSE Closure(S \cup UNION {Asks(p) : p \in S})
Missing(part) == Closure(PartAsks(part)) \ layers.kept

At(r, at) == stage[r].at = at
To(r, at) == stage' = [stage EXCEPT ![r].at = at]

----------------------------------------------------------------------------

Ask(r, part) ==
  /\ At(r, "idle")
  /\ stage' = [stage EXCEPT ![r] = [at |-> IF part \in Plan \cup {"manifest", "document"}
                                           THEN "asked" ELSE "no such part", part |-> part]]
  /\ UNCHANGED <<image, layers, payload, mutex, working, runs>>

Enter(r) ==
  /\ At(r, "asked") /\ mutex = None
  /\ mutex' = r /\ To(r, "inside")
  /\ UNCHANGED <<image, layers, payload, working, runs>>

\* _layers_of: new layers, nothing computed, when the image has another digest.
Fresh == [digest |-> image, kept |-> {}]
KeptLayers == IF layers = None THEN FALSE ELSE layers.digest = image
FindLayers(r) ==
  /\ At(r, "inside")
  /\ layers' = IF KeptLayers THEN layers ELSE Fresh
  /\ payload' = IF KeptLayers THEN payload ELSE None
  /\ To(r, IF stage[r].part = "manifest" THEN "computing"
           ELSE IF stage[r].part = "document" /\ payload' # None THEN "done" ELSE "computing")
  /\ working' = IF stage'[r].at = "computing" /\ stage[r].part # "manifest" THEN TRUE ELSE working
  /\ UNCHANGED <<image, mutex, runs>>

\* One pass of those the part still needs, once what it asks for is there.
RunPass(r) ==
  /\ At(r, "computing")
  /\ \E pass \in Missing(stage[r].part) :
       /\ Asks(pass) \subseteq layers.kept
       /\ layers' = [layers EXCEPT !.kept = @ \cup {pass}]
       /\ runs' = [runs EXCEPT ![layers.digest][pass] = @ + 1]
  /\ UNCHANGED <<image, payload, mutex, working, stage>>
FinishPart(r) ==
  /\ At(r, "computing") /\ Missing(stage[r].part) = {}
  /\ payload' = IF stage[r].part = "document" THEN layers.digest ELSE payload
  /\ working' = (stage[r].part = "manifest" /\ working)
  /\ To(r, "done")
  /\ UNCHANGED <<image, layers, mutex, runs>>
\* A pass raises: the finally ends the work, what was computed before it stays.
Raise(r) ==
  /\ At(r, "computing") /\ Missing(stage[r].part) # {}
  /\ working' = (stage[r].part = "manifest" /\ working)
  /\ To(r, "done")
  /\ UNCHANGED <<image, layers, payload, mutex, runs>>

Leave(r) ==
  /\ At(r, "done") /\ mutex' = None /\ To(r, "idle")
  /\ UNCHANGED <<image, layers, payload, working, runs>>
Refused(r) ==
  /\ At(r, "no such part") /\ To(r, "idle")
  /\ UNCHANGED <<image, layers, payload, mutex, working, runs>>

Edit ==
  /\ image < MaxEdits /\ image' = image + 1
  /\ UNCHANGED <<layers, payload, mutex, working, stage, runs>>

Init ==
  /\ image = 0 /\ layers = None /\ payload = None /\ mutex = None /\ working = FALSE
  /\ stage = [r \in Requests |-> [at |-> "idle", part |-> "manifest"]]
  /\ runs = [i \in 0..MaxEdits |-> [p \in Passes |-> 0]]
Next ==
  \/ \E r \in Requests :
       \/ \E part \in {"manifest", "cells", "blocks", "frame", "edges", "stubs", "document", "roofs"} : Ask(r, part)
       \/ Enter(r) \/ FindLayers(r) \/ RunPass(r) \/ FinishPart(r) \/ Raise(r) \/ Leave(r) \/ Refused(r)
  \/ Edit
----------------------------------------------------------------------------

\* "The host computes just that layer, once": no pass runs twice over one image,
\* however many requests need it at once and whichever of them was refused half
\* way, and progress says working just while a part is being computed.
ComputedOnce ==
  /\ \A i \in 0..MaxEdits, p \in Passes : runs[i][p] <= 1
  /\ working <=> \E r \in Requests : At(r, "computing") /\ stage[r].part # "manifest"

----------------------------------------------------------------------------
(* The streamed arena *)

\* A record: its size, the handle it holds (FALSE for a free span), its parent, its
\* type, the targets and roles of its rows, and whether it is a module or an alias.
Index == 1   Root == 2   Sys == 3   Syms == 4   Relations == 5
Frame == {Index, Root, Sys, Syms, Relations}
Superblock == 2  \* the bytes before the stream; as many follow the marker

----------------------------------------------------------------------------

\* _walk: the records one behind the other, up to the marker.
Starts(a) == LET at[i \in 1..Len(a) + 1] == IF i = 1 THEN Superblock ELSE at[i - 1] + a[i - 1].size IN at
Committed(a) == Starts(a)[Len(a) + 1]
Size(a) == Committed(a) + Superblock
Bytes(a, i) == Starts(a)[i] .. Starts(a)[i + 1] - 1
Held(a) == {i \in DOMAIN a : a[i].held}

\* _by_handle, children and chain: a walk ends at the root, at a word that names no
\* live object, and takes what it passes.
Children(a, h) == {i \in Held(a) : a[i].parent = h}
Chain(a, from) ==
  LET up[i \in 0..Len(a)] == IF i \notin Held(a) \ {Root} THEN {} ELSE {i} \cup up[a[i].parent]
  IN up[from]
Ancestry(a, h) == Chain(a, h) \cup ({Root} \cap Held(a))
ScopeOf(a, h) ==
  LET over == {i \in Ancestry(a, h) : a[i].kind = "module"} IN
  IF over = {} THEN 0 ELSE CHOOSE i \in over : \A j \in over : i \in Ancestry(a, j) => i = j

\* _districts: the header, the index, and runs of Span bytes of the rest.
CellsOff(a) == Superblock + a[Index].size
Districts(a) ==
  <<<<0, Superblock>>, <<Superblock, CellsOff(a)>>>> \o
  [k \in 1..((Committed(a) - CellsOff(a) + Span - 1) \div Span) |->
     LET at == CellsOff(a) + (k - 1) * Span
     IN <<at, IF at + Span < Committed(a) THEN at + Span ELSE Committed(a)>>]
Starting(a, d) == {i \in DOMAIN a : Districts(a)[d][1] <= Starts(a)[i] /\ Starts(a)[i] < Districts(a)[d][2]}

\* _district_offsets: the shared tables and the closure of what the district decodes.
Shared(a) ==
  {Index, Syms, Root, Sys, Relations} \cup Children(a, Root) \cup Children(a, Sys) \cup Children(a, Relations)
TypeOf(a, h) == ({a[h].type} \cap Held(a)) \cup Children(a, a[h].type)
AliasesOf(a, h) == {c \in Children(a, ScopeOf(a, h)) : a[c].kind = "alias"}
DecodesAlone(a, i) ==  \* the targets without the chain their paths walk
  {i} \cup Chain(a, a[i].parent) \cup
  IF ~ a[i].held THEN {} ELSE TypeOf(a, i) \cup (a[i].rows \cap Held(a))
Decodes(a, i) ==
  {i} \cup Chain(a, a[i].parent) \cup
  IF ~ a[i].held THEN {}
  ELSE TypeOf(a, i) \cup UNION {Chain(a, t) : t \in a[i].rows}
       \cup UNION {{c} \cup TypeOf(a, c) \cup UNION {Chain(a, t) : t \in a[c].rows} : c \in AliasesOf(a, i)}
DistrictRecords(a, d) == Shared(a) \cup UNION {Decodes(a, i) : i \in Starting(a, d)}

\* _part_of a record's path, and stream_parts: the bytes of every part, whole or one
\* district's share; only the whole index has the marker.
PartOf(a, i) ==
  IF ~ a[i].held THEN "head"
  ELSE IF Sys \notin Ancestry(a, i) THEN "world"
  ELSE IF Relations \in Ancestry(a, i) THEN "edges" ELSE "sys"
Parts == {"head", "edges", "sys", "world"}
Runs(a, records, part) ==
  UNION {Bytes(a, i) : i \in {j \in records : PartOf(a, j) = part}}
  \cup IF part = "head" THEN 0..Superblock - 1 ELSE {}
StreamPartsUnmarked(a, d, part) == Runs(a, IF d = 0 THEN DOMAIN a ELSE DistrictRecords(a, d), part)
StreamParts(a, d, part) ==
  Runs(a, IF d = 0 THEN DOMAIN a ELSE DistrictRecords(a, d), part)
  \cup IF d = 0 /\ part = "head" THEN Committed(a)..Size(a) - 1 ELSE {}

----------------------------------------------------------------------------

BinAt(r, at) == request[r].at = at
Set(r, fields) == request' = [request EXCEPT ![r] = fields @@ @]

\* scene_bin: the digest of the image now, then the arena of the image now when the
\* digest is not the one that is kept, then an answer out of what is kept.
AskBin(r, d, part) ==
  /\ BinAt(r, "idle")
  /\ Set(r, [at |-> "asked", digest |-> current, district |-> d, part |-> part])
  /\ UNCHANGED <<current, edits, cache>>
Keep(r) ==
  /\ BinAt(r, "asked")
  /\ cache' = IF cache.digest = request[r].digest THEN cache ELSE [digest |-> request[r].digest, arena |-> current]
  /\ Set(r, [at |-> "kept"])
  /\ UNCHANGED <<current, edits>>
Answer(r) ==
  /\ BinAt(r, "kept")
  /\ \E a \in {cache.arena} :
       Set(r, [at |-> "answered", of |-> a,
               told |-> IF request[r].district > Len(Districts(a)) THEN {}  \* KeyError
                        ELSE StreamParts(a, request[r].district, request[r].part)])
  /\ UNCHANGED <<current, edits, cache>>
Done(r) ==
  /\ BinAt(r, "answered") /\ Set(r, [at |-> "idle", told |-> {}, of |-> <<>>])
  /\ UNCHANGED <<current, edits, cache>>

EditArena ==
  /\ edits < MaxEdits /\ edits' = edits + 1
  /\ current' \in Edited \ {current}
  /\ UNCHANGED <<cache, request>>

StreamInit ==
  /\ current \in Arenas /\ edits = 0
  /\ cache = [digest |-> <<>>, arena |-> <<>>]
  /\ request = [r \in Requests |-> [at |-> "idle", digest |-> <<>>, district |-> 0, part |-> "head",
                                    told |-> {}, of |-> <<>>]]
StreamNext ==
  \/ \E r \in Requests :
       \/ \E d \in 0..4, part \in Parts : AskBin(r, d, part)
       \/ Keep(r) \/ Answer(r) \/ Done(r)
  \/ EditArena

----------------------------------------------------------------------------

\* The parts reassemble into the byte-identical image, and every district's share of
\* them is enough to read it: what it decodes, and the path of everything its rows
\* and its aliases name, lies in the bytes the district is sent, which are a share
\* of the whole parts; together the districts send all but the marker.
PartsReassemble ==
  \A r \in Requests : BinAt(r, "answered") =>
    LET a == request[r].of   d == request[r].district
        sent(e) == UNION {StreamParts(a, e, p) : p \in Parts}
        Names(i) == IF a[i].held THEN {i} \cup a[i].rows \cup AliasesOf(a, i) ELSE {} IN
    /\ request[r].told \subseteq StreamParts(a, 0, request[r].part)
    /\ IF d = 0
       THEN /\ sent(0) = 0..Size(a) - 1
            /\ \A p \in Parts \ {request[r].part} : request[r].told \cap StreamParts(a, 0, p) = {}
            /\ UNION {sent(e) : e \in DOMAIN Districts(a)} = 0..Committed(a) - 1
       ELSE d \in DOMAIN Districts(a) =>
            \A i \in Starting(a, d) : \A j \in Names(i) \cap Held(a) :
              \A k \in Ancestry(a, j) : Bytes(a, k) \subseteq sent(d)

\* Requests share a pass, and share out an image.
SceneServed == ComputedOnce /\ PartsReassemble
=============================================================================
