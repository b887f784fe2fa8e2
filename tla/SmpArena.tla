------------------------------ MODULE SmpArena ------------------------------
(***************************************************************************)
(* The arena of the execution policy: cells named by handles, carriers     *)
(* that claim a cell while they hold its address, and the one mutator that *)
(* frees, allocates and slides cells under them.  Translated from          *)
(* tests/host/smp_arena.c; the mutator and its check of the forwarding     *)
(* words are mutator_main of tests/host/smp_witness.c.                     *)
(*                                                                         *)
(* Memory is in units of 8 bytes.  A record is three units of header       *)
(* (type and generation; the link word, which C_FORWARD borrows at a       *)
(* vacated place; the payload size) and its payload.  The payload has one  *)
(* value, kept in each of its units.                                       *)
(***************************************************************************)
EXTENDS Naturals, Sequences, FiniteSets

CONSTANTS
    Carriers,
    Slots,      \* how many slots were handed out before the carriers started
    SlotCount,  \* the highest index of a slot (slot_count is one more)
    Bytes,      \* the size of the arena, in units
    SizeOf,     \* SizeOf[s]: the payload units of the cell made for slot s at the start
    Pinned,     \* the slots whose cell is pinned
    Churn,      \* the slots the mutator frees
    Reused,     \* the slots that were freed and handed out again before the start
    HeldBy,     \* HeldBy[c]: the handles carrier c works with
    Values,     \* what a carrier writes; a new cell holds 0
    Scratch,    \* the payload units of the scratch cells asked for
    MaxAllocs, MaxPasses,  \* bounds on what the mutator does
    Moving,     \* RXF_SMP_CLAIM_MOVING, alone in the claim word
    Void        \* memory nobody wrote, or poison

Header == 3
Index == 1..SlotCount
Units == 0..(Bytes - 1)

VARIABLES
    mem,                    \* the units of the arena
    frontier,               \* the first unit no cell was given
    claim, generation, offset,  \* the three words of each slot; offset 0 is a free slot
    nextIndex,
    pc, handle, addr,       \* of each carrier: where it is, its handle, its address
    mut, slot,              \* the mutator: where it is, the slot it works on
    todo, front, log, oldFrontier,  \* its pass: slots left to visit, frontier so far, moves made
    allocs, passes,         \* what it did so far
    size, last,             \* history: the payload asked for, the value last written
    forwardBad              \* the mutator's check found a wrong forwarding word

slots == <<claim, generation, offset, nextIndex>>
carriers == <<pc, handle, addr>>
pass == <<todo, front, log, oldFrontier>>
mutator == <<mut, slot, pass, allocs, passes, forwardBad>>
history == <<size, last>>
vars == <<mem, frontier, slots, carriers, mutator, history>>

\* The units of a record, and a memory with it at offset o.
HeadUnit(s, g) == <<"cell", s, g>>
Unit(s, g, n, link, v, i) ==
    CASE i = 0 -> HeadUnit(s, g) [] i = 1 -> link [] i = 2 -> <<"size", n>>
      [] OTHER -> <<"data", v>>

Chain == <<"chain">>
Forward(o) == <<"forward", o>>

Fill(o, s, g, n, v) ==
    [i \in Units |-> IF i \in o..(o + Header + n - 1)
                        THEN Unit(s, g, n, Chain, v, i - o) ELSE mem[i]]

\* The size of the record at o, as its header says.
Extent(o) == Header + mem[o + 2][2]

StartOf[s \in 1..(Slots + 1)] ==
    IF s = 1 THEN Header ELSE StartOf[s - 1] + Header + SizeOf[s - 1]

FirstGeneration(s) == IF s \in Reused THEN 2 ELSE 1

\* What the witness sets up before its carriers start fits into the arena.
ASSUME ArenaAssumption ==
    /\ IsFiniteSet(Carriers)
    /\ Slots \in Nat /\ SlotCount \in Nat /\ Slots <= SlotCount
    /\ Bytes \in Nat /\ Scratch \subseteq Nat \ {0}
    /\ SizeOf \in [1..Slots -> Nat \ {0}]
    /\ StartOf[Slots + 1] <= Bytes
    /\ Pinned \subseteq 1..Slots /\ Churn \subseteq 1..Slots /\ Reused \subseteq 1..Slots
    /\ HeldBy \in [Carriers -> SUBSET (Index \X Nat)]
    /\ Pinned \cap Churn = {}
    /\ MaxAllocs \in Nat /\ MaxPasses \in Nat
    /\ Moving \notin Nat

Init ==
    /\ mem = [i \in Units |->
                 IF \E s \in 1..Slots : i \in StartOf[s]..(StartOf[s + 1] - 1)
                 THEN LET s == CHOOSE s \in 1..Slots : i \in StartOf[s]..(StartOf[s + 1] - 1)
                      IN  Unit(s, FirstGeneration(s), SizeOf[s], Chain, 0, i - StartOf[s])
                 ELSE Void]
    /\ frontier = StartOf[Slots + 1]
    /\ claim = [s \in Index |-> 0]
    /\ generation = [s \in Index |-> IF s <= Slots THEN FirstGeneration(s) ELSE 0]
    /\ offset = [s \in Index |-> IF s <= Slots THEN StartOf[s] ELSE 0]
    /\ nextIndex = Slots + 1
    /\ pc = [c \in Carriers |-> "idle"]
    /\ handle = [c \in Carriers |-> <<0, 0>>] /\ addr = [c \in Carriers |-> 0]
    /\ mut = "rest" /\ slot = 0
    /\ todo = {} /\ front = Header /\ log = <<>> /\ oldFrontier = 0
    /\ allocs = 0 /\ passes = 0
    /\ size = [s \in Index |-> IF s <= Slots THEN SizeOf[s] ELSE 0]
    /\ last = [s \in Index |-> 0]
    /\ forwardBad = FALSE

-----------------------------------------------------------------------------
(* A carrier: resolve, work, release *)

Goto(c, l) == pc' = [pc EXCEPT ![c] = l]

H(c) == handle[c][1]

Resolve(c) == /\ pc[c] = "idle"
              /\ \E h \in HeldBy[c] : handle' = [handle EXCEPT ![c] = h]
              /\ Goto(c, "claim")
              /\ UNCHANGED <<mem, frontier, slots, addr, mutator, history>>

Claim(c) == /\ pc[c] = "claim" /\ claim[H(c)] # Moving
            /\ claim' = [claim EXCEPT ![H(c)] = @ + 1]
            /\ Goto(c, "generation")
            /\ UNCHANGED <<mem, frontier, generation, offset, nextIndex, handle, addr, mutator,
                           history>>

\* smp_run_resolve: refused under the mover, it asks whether the handle is stale.
Refused(c) == /\ pc[c] = "claim" /\ claim[H(c)] = Moving
              /\ Goto(c, "isStale")
              /\ UNCHANGED <<mem, frontier, slots, handle, addr, mutator, history>>

IsStale(c) == generation[H(c)] # handle[c][2] \/ offset[H(c)] = 0

StaleNow(c) == /\ pc[c] = "isStale"
               /\ Goto(c, IF IsStale(c) THEN "idle" ELSE "claim")
               /\ UNCHANGED <<mem, frontier, slots, handle, addr, mutator, history>>

ReadGeneration(c) == /\ pc[c] = "generation"
                     /\ Goto(c, IF generation[H(c)] = handle[c][2] THEN "offset" ELSE "unclaim")
                     /\ UNCHANGED <<mem, frontier, slots, handle, addr, mutator, history>>

ReadOffset(c) == /\ pc[c] = "offset"
                 /\ addr' = [addr EXCEPT ![c] = offset[H(c)]]
                 /\ Goto(c, IF offset[H(c)] = 0 THEN "unclaim" ELSE "hold")
                 /\ UNCHANGED <<mem, frontier, slots, handle, mutator, history>>

\* A write through the address, one whole value at a time.
Write(c) ==
    /\ pc[c] = "hold"
    /\ \E v \in Values :
           /\ v # last[H(c)]
           /\ last' = [last EXCEPT ![H(c)] = v]
           /\ LET o == addr[c]
                  d == (o + Header)..(o + Extent(o) - 1)
              IN  mem' = [i \in Units |-> IF i \in d THEN <<"data", v>> ELSE mem[i]]
    /\ Goto(c, "unclaim")
    /\ UNCHANGED <<frontier, slots, handle, addr, mutator, size>>

Release(c) == /\ pc[c] \in {"hold", "unclaim"}
              /\ claim' = [claim EXCEPT ![H(c)] = @ - 1]
              /\ Goto(c, "idle")
              /\ UNCHANGED <<mem, frontier, generation, offset, nextIndex, handle, addr, mutator,
                             history>>

-----------------------------------------------------------------------------
(* The mutator: rxf_smp_arena_free *)

\* Its own cells: churn cells of the start and scratch cells it made.
Mine(s) == offset[s] # 0 /\ (s \in Churn \/ s > Slots \/ generation[s] > FirstGeneration(s))

FreeClaim(s) == /\ mut = "rest" /\ s \in Index /\ Mine(s) /\ claim[s] = 0
                /\ claim' = [claim EXCEPT ![s] = Moving]
                /\ mut' = "free" /\ slot' = s
                /\ UNCHANGED <<mem, frontier, generation, offset, nextIndex, carriers, pass,
                               allocs, passes, forwardBad, history>>

Free == /\ mut = "free"
        /\ mem' = [mem EXCEPT ![offset[slot]][1] = "dead"]
        /\ offset' = [offset EXCEPT ![slot] = 0]
        /\ mut' = "freed"
        /\ UNCHANGED <<frontier, claim, generation, nextIndex, carriers, slot, pass, allocs,
                       passes, forwardBad, history>>

FreeOpen == /\ mut = "freed"
            /\ claim' = [claim EXCEPT ![slot] = 0]
            /\ mut' = "rest" /\ slot' = 0
            /\ UNCHANGED <<mem, frontier, generation, offset, nextIndex, carriers, pass, allocs,
                           passes, forwardBad, history>>

-----------------------------------------------------------------------------
(* rxf_smp_arena_alloc of a scratch cell *)

FreeSlots == {s \in 1..(nextIndex - 1) : offset[s] = 0}

\* The lowest free slot, or the next one of the index.
ChosenSlot == IF FreeSlots # {} THEN CHOOSE s \in FreeSlots : \A t \in FreeSlots : s <= t
              ELSE nextIndex

Alloc == \E n \in Scratch :
    /\ mut = "rest" /\ allocs < MaxAllocs
    /\ ChosenSlot <= SlotCount
    /\ frontier + Header + n <= Bytes
    /\ mem' = Fill(frontier, ChosenSlot, generation[ChosenSlot] + 1, n, 0)
    /\ frontier' = frontier + Header + n
    /\ nextIndex' = IF ChosenSlot = nextIndex THEN nextIndex + 1 ELSE nextIndex
    /\ size' = [size EXCEPT ![ChosenSlot] = n]
    /\ last' = [last EXCEPT ![ChosenSlot] = 0]
    /\ slot' = ChosenSlot
    /\ mut' = "allocated" /\ allocs' = allocs + 1
    /\ UNCHANGED <<claim, generation, offset, carriers, pass, passes, forwardBad>>

\* No room: the frontier does not move, but a slot taken from the index stays taken.
AllocRefused == \E n \in Scratch :
    /\ mut = "rest" /\ allocs < MaxAllocs
    /\ ChosenSlot <= SlotCount
    /\ frontier + Header + n > Bytes
    /\ nextIndex' = IF ChosenSlot = nextIndex THEN nextIndex + 1 ELSE nextIndex
    /\ allocs' = allocs + 1
    /\ UNCHANGED <<mem, frontier, claim, generation, offset, carriers, mut, slot, pass, passes,
                   forwardBad, history>>

AllocGeneration == /\ mut = "allocated"
                   /\ generation' = [generation EXCEPT ![slot] = @ + 1]
                   /\ mut' = "named"
                   /\ UNCHANGED <<mem, frontier, claim, offset, nextIndex, carriers, slot, pass,
                                  allocs, passes, forwardBad, history>>

AllocOffset == /\ mut = "named"
               /\ offset' = [offset EXCEPT ![slot] = frontier - Header - size[slot]]
               /\ mut' = "rest" /\ slot' = 0
               /\ UNCHANGED <<mem, frontier, claim, generation, nextIndex, carriers, pass, allocs,
                              passes, forwardBad, history>>

-----------------------------------------------------------------------------
(* rxf_smp_compact_move: the cells in the order of their offsets *)

PassBegins ==
    /\ mut = "rest" /\ passes < MaxPasses
    /\ todo' = 1..(nextIndex - 1)
    /\ front' = Header /\ log' = <<>> /\ oldFrontier' = frontier
    /\ mut' = "pass" /\ passes' = passes + 1
    /\ UNCHANGED <<mem, frontier, slots, carriers, slot, allocs, forwardBad, history>>

\* The insertion sort: by offset, the freed slots first, and by index where it is the same.
Before(s, t) == offset[s] < offset[t] \/ (offset[s] = offset[t] /\ s < t)

PassClaim == /\ mut = "pass"
             /\ \E s \in todo :
                    /\ \A t \in todo \ {s} : Before(s, t)
                    /\ claim[s] = 0
                    /\ claim' = [claim EXCEPT ![s] = Moving]
                    /\ slot' = s
                    /\ todo' = todo \ {s}
             /\ mut' = "visit"
             /\ UNCHANGED <<mem, frontier, generation, offset, nextIndex, carriers, front, log,
                            oldFrontier, allocs, passes, forwardBad, history>>

\* Freed cells have no offset and are skipped; a pinned cell and a cell with no gap before
\* it stay where they are.
Stays == mut = "visit" /\ (offset[slot] = 0 \/ slot \in Pinned \/ offset[slot] = front)

PassKeeps == /\ Stays
             /\ front' = IF offset[slot] = 0 THEN front ELSE offset[slot] + Extent(offset[slot])
             /\ mut' = "open"
             /\ UNCHANGED <<mem, frontier, slots, carriers, slot, todo, log, oldFrontier, allocs,
                            passes, forwardBad, history>>

\* Mutant: the forwarding word is written after the copy, where the record was read from.
SlidThenForward(o, f) ==
    [i \in Units |->
        IF i = f + 1 THEN mem[o + 1]
        ELSE IF i \in f..(f + Extent(o) - 1) /\ i # o + 1 THEN mem[o + i - f]
        ELSE IF i = o + 1 THEN Forward(f)
        ELSE mem[i]]

\* The record at o copied down to f; its old link word holds f unless the copy covers it.
Slid(o, f) ==
    [i \in Units |->
        IF i = f + 1 THEN mem[o + 1]
        ELSE IF i \in f..(f + Extent(o) - 1) THEN mem[o + i - f]
        ELSE IF i = o + 1 THEN Forward(f)
        ELSE mem[i]]

Slide == /\ mut = "visit" /\ ~Stays
         /\ LET o == offset[slot]
            IN  /\ mem' = Slid(o, front)
                /\ log' = Append(log, <<o, front, Extent(o)>>)
         /\ mut' = "publish"
         /\ UNCHANGED <<frontier, slots, carriers, slot, todo, front, oldFrontier, allocs,
                        passes, forwardBad, history>>

Publish == /\ mut = "publish"
           /\ offset' = [offset EXCEPT ![slot] = front]
           /\ front' = front + Extent(front)
           /\ mut' = "open"
           /\ UNCHANGED <<mem, frontier, claim, generation, nextIndex, carriers, slot, todo, log,
                          oldFrontier, allocs, passes, forwardBad, history>>

\* Mutant: the claim is opened with the new offset, and so only for a cell that moved.
PassOpenOnlyMoved ==
    /\ mut = "open"
    /\ claim' = [claim EXCEPT ![slot] = IF \E i \in DOMAIN log : log[i][2] = offset[slot]
                                        THEN 0 ELSE Moving]
    /\ mut' = "pass" /\ slot' = 0
    /\ UNCHANGED <<mem, frontier, generation, offset, nextIndex, carriers, pass, allocs, passes,
                   forwardBad, history>>

PassOpen == /\ mut = "open"
            /\ claim' = [claim EXCEPT ![slot] = 0]
            /\ mut' = "pass" /\ slot' = 0
            /\ UNCHANGED <<mem, frontier, generation, offset, nextIndex, carriers, pass, allocs,
                           passes, forwardBad, history>>

\* The pass sets the frontier; the mutator then reads back the forwarding words.
PassEnds ==
    /\ mut = "pass" /\ todo = {}
    /\ frontier' = front
    /\ forwardBad' = \E i \in DOMAIN log :
                        LET at == log[i][1] + 1
                        IN  /\ \A j \in DOMAIN log : at \notin log[j][2]..(log[j][2] + log[j][3] - 1)
                            /\ mem[at] # Forward(log[i][2])
    /\ mut' = "finish"
    /\ UNCHANGED <<mem, slots, carriers, slot, pass, allocs, passes, history>>

\* rxf_smp_compact_finish
Finish == /\ mut = "finish"
          /\ mem' = [i \in Units |-> IF i \in frontier..(oldFrontier - 1) THEN Void ELSE mem[i]]
          /\ todo' = {} /\ front' = Header /\ log' = <<>> /\ oldFrontier' = 0
          /\ mut' = "rest"
          /\ UNCHANGED <<frontier, slots, carriers, slot, allocs, passes, forwardBad, history>>

-----------------------------------------------------------------------------
Carrier(c) == \/ Claim(c) \/ Refused(c) \/ StaleNow(c) \/ ReadGeneration(c) \/ ReadOffset(c)
              \/ Release(c)

FreeOrAlloc == \/ \E s \in Index : FreeClaim(s)
               \/ Free \/ FreeOpen
               \/ Alloc \/ AllocRefused \/ AllocGeneration \/ AllocOffset

Pass == \/ PassBegins \/ PassClaim \/ PassKeeps \/ Slide \/ Publish \/ PassOpen \/ PassEnds
        \/ Finish

Next == \/ \E c \in Carriers : Resolve(c) \/ Carrier(c) \/ Write(c)
        \/ FreeOrAlloc
        \/ Pass

Spec == Init /\ [][Next]_vars

\* The host schedules every thread; nobody has to start a resolve or a write.
FairSpec == /\ Spec
            /\ \A c \in Carriers : WF_vars(Carrier(c))
            /\ WF_vars(FreeOrAlloc \/ Pass)
-----------------------------------------------------------------------------
Claimers(s) == {c \in Carriers : H(c) = s /\ pc[c] \in {"generation", "offset", "hold", "unclaim"}}

TypeOK ==
    /\ frontier \in Header..Bytes
    /\ \A s \in Index : claim[s] = Moving \/ claim[s] = Cardinality(Claimers(s))
    /\ generation \in [Index -> Nat] /\ offset \in [Index -> {0} \cup Units]
    /\ nextIndex \in 1..(SlotCount + 1)
    /\ addr \in [Carriers -> {0} \cup Units] /\ front \in Header..Bytes

(* Safety *)

\* Whoever holds an address holds it on the cell its handle names: the handle's generation
\* is the slot's, the address is where the slot says the cell is now, and the compactor has
\* not taken the cell (S3, S7).
HeldAddress ==
    \A c \in Carriers : pc[c] = "hold" =>
        /\ generation[H(c)] = handle[c][2]
        /\ addr[c] = offset[H(c)] /\ addr[c] # 0
        /\ claim[H(c)] # Moving

\* No cell is torn, overwritten or poisoned, and no write to it is lost, however often it
\* slides and whatever is freed and allocated around it (S8).
LiveCellsWhole ==
    \A s \in Index : offset[s] # 0 /\ ~(mut = "publish" /\ slot = s) =>
        LET o == offset[s]
        IN  /\ o + Header + size[s] <= frontier
            /\ mem[o] = HeadUnit(s, generation[s]) /\ mem[o + 2] = <<"size", size[s]>>
            /\ mem[o + 1] = Chain
            /\ \A i \in (o + Header)..(o + Header + size[s] - 1) : mem[i] = <<"data", last[s]>>

\* What a pass is for: afterwards no gap is left but the ones in front of pinned cells, which
\* are where they always were, and the frontier is the end of the last cell (S8, step 4).
PassPacks ==
    mut = "finish" =>
        LET live == {s \in Index : offset[s] # 0}
            End(s) == offset[s] + Header + size[s]
            ends == {Header} \cup {End(s) : s \in live}
        IN  /\ \A s \in live : IF s \in Pinned THEN offset[s] = StartOf[s] ELSE offset[s] \in ends
            /\ frontier \in ends /\ \A e \in ends : e <= frontier

\* Every move is accounted for: the forwarding word is read back right at the old place, or
\* a record of the same pass lies over it (S8, the C_FORWARD flip).
ForwardTracked == ~forwardBad

\* A handle names its cell, whole, whatever the compactor and the mutator do to the arena.
CellsHold == TypeOK /\ HeldAddress /\ LiveCellsWhole /\ PassPacks /\ ForwardTracked

(* Liveness *)

\* The retry loop of smp_run_resolve ends: the compactor is never taken for a stale handle,
\* and it does not keep a carrier out for ever.
ResolveAnswers == \A c \in Carriers : (pc[c] = "claim") ~> (pc[c] \in {"hold", "idle"})

-----------------------------------------------------------------------------
(* A small arena for TLC: behind the churn cell a long cell (its slide overlaps *)
(* its old place), a short one (its slide does not) and a pinned one that keeps *)
(* a gap before it; one of the handles was stale before the carriers started.   *)

\* Slot 1 is churn, 2 a run cell, 3 a data cell, 4 pinned.
Sizes == <<1, 3, 1, 1>>

\* All carriers work with the run cell, one also has a stale handle on it.
Held == LET late == CHOOSE c \in Carriers : TRUE
        IN  [c \in Carriers |-> {<<2, 2>>} \cup IF c = late THEN {<<2, 1>>} ELSE {}]
=============================================================================
