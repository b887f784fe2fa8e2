--------------------------- MODULE ReadyRing_proofs ---------------------------
(***************************************************************************)
(* The ready-ring across the moves of its cell: mutual exclusion, and that *)
(* it is a bounded queue, for any threads, handles, capacity and number of *)
(* places.                                                                 *)
(*                                                                         *)
(* The two locks protect each other's words: the lock word lies in the     *)
(* cell that the claim word keeps from moving, so the invariant speaks of  *)
(* both at once.  Claims counts the holders, Moves says what the compactor *)
(* has where, Addresses that no holder's address is old, and Locked that   *)
(* the lock word names at most one thread.                                 *)
(*                                                                         *)
(* The queue is the slots from the tail up to the head.  Its lemmas are    *)
(* about the wrap of an index; its invariant adds what each thread has in  *)
(* hand (Calling) and that no slot in use is empty (Filled).               *)
(***************************************************************************)
EXTENDS ReadyRing, FiniteSetTheorems, SequenceTheorems, TLAPS

Claims == claim = Cardinality(Holders)

Moves ==
    /\ moving <=> mover # "rest"
    /\ moving => Holders = {}
    /\ mover \in {"copy", "publish", "open"} => to \in 1..Places
    /\ mover = "copy" => to # place
    /\ mover = "publish" => mem[to] \in Rings
    /\ mover # "publish" => mem[place] \in Rings

Addresses == \A p \in Procs : pc[p] \in AddressPcs => addr[p] = place

Locked ==
    /\ \A p, q \in Insiders : p = q
    /\ Insiders # {} => mem[place].lock = 1

RingInv == TypeOK /\ Claims /\ Moves /\ Addresses /\ Locked

LEMMA RingInvInit == Init => RingInv
<1> SUFFICES ASSUME Init PROVE RingInv
  OBVIOUS
<1> USE RingAssumption DEF Init
<1>1. Holders = {} /\ Insiders = {}
  BY DEF Holders, Insiders, AddressPcs, InsidePcs
<1>2. Cardinality({}) = 0 /\ Cardinality(Procs) \in Nat
  BY FS_EmptySet, FS_CardinalityType
<1>3. [lock |-> 0, head |-> 0, tail |-> 0, slots |-> [s \in Index |-> NoHandle]] \in Rings
  <2>1. 0 \in Index
    BY DEF Index
  <2> QED
    BY <2>1 DEF Rings
<1>4. mem \in [1..Places -> Rings \cup {Junk}] /\ mem[place] \in Rings
  BY <1>3
<1>5. TypeOK
  <2>1. place \in 1..Places /\ claim \in 0..Cardinality(Procs) /\ to \in 0..Places
    BY <1>2
  <2>2. moving \in BOOLEAN /\ mover \in MoverPcs
    BY DEF MoverPcs
  <2>3. pc \in [Procs -> Pcs] /\ op \in [Procs -> {"push", "pop"}]
    BY DEF Pcs
  <2>4. item \in [Procs -> Handles \cup {NoHandle}] /\ addr \in [Procs -> 0..Places]
    <3>1. 0 \in 0..Places
      OBVIOUS
    <3> QED
      BY <3>1
  <2> QED
    BY <1>4, <2>1, <2>2, <2>3, <2>4 DEF TypeOK
<1>6. Claims /\ Moves /\ Addresses /\ Locked
  BY <1>1, <1>2, <1>4 DEF Claims, Moves, Addresses, Locked, AddressPcs, InsidePcs
<1> QED
  BY <1>5, <1>6 DEF RingInv

\* The claim word never counts more than the threads.
LEMMA ClaimBound ==
    /\ IsFiniteSet(Holders) /\ Cardinality(Holders) \in 0..Cardinality(Procs)
    /\ IsFiniteSet(Holders') /\ Cardinality(Holders') \in 0..Cardinality(Procs)
<1>1. Holders \subseteq Procs /\ Holders' \subseteq Procs
  BY DEF Holders
<1> QED
  BY <1>1, RingAssumption, FS_Subset, FS_CardinalityType

\* A step that stores through its address a ring with the same lock word, inside the lock.
LEMMA InsideStep ==
    ASSUME RingInv, NEW p \in Procs, NEW ring \in Rings,
           pc[p] \in InsidePcs, ring.lock = 1,
           Store(p, ring),
           pc' \in [Procs -> Pcs], pc'[p] \in InsidePcs,
           \A q \in Procs : q # p => pc'[q] = pc[q],
           item' \in [Procs -> Handles \cup {NoHandle}],
           UNCHANGED <<arena, op, addr>>
    PROVE  RingInv'
<1> USE RingAssumption DEF RingInv, arena
<1>1. addr[p] = place /\ place \in 1..Places
  BY DEF Addresses, AddressPcs, TypeOK
<1>2. p \in Holders /\ p \in Insiders
  BY DEF Holders, Insiders, AddressPcs
<1>3. Holders' = Holders /\ Insiders' = Insiders
  BY DEF Holders, Insiders, AddressPcs
<1>4. mover = "rest" /\ mem'[place] = ring
  BY <1>1, <1>2 DEF Moves, TypeOK, MoverPcs, Store
<1>5. TypeOK'
  BY <1>1 DEF TypeOK, Store
<1>6. Claims'
  BY <1>3 DEF Claims
<1>7. Moves'
  BY <1>3, <1>4 DEF Moves
<1>8. Addresses'
  BY <1>1, <1>2 DEF Addresses, AddressPcs
<1>9. Locked'
  BY <1>3, <1>4 DEF Locked
<1> QED
  BY <1>5, <1>6, <1>7, <1>8, <1>9

\* A step that touches neither the arena nor what lies in it.
LEMMA QuietStep ==
    ASSUME RingInv, NEW p \in Procs, NEW l \in Pcs,
           Goto(p, l), UNCHANGED <<mem, arena, addr>>,
           op' \in [Procs -> {"push", "pop"}],
           item' \in [Procs -> Handles \cup {NoHandle}],
           (l \in AddressPcs \cup {"look"}) <=> (pc[p] \in AddressPcs \cup {"look"}),
           l \in AddressPcs => pc[p] \in AddressPcs,
           l \in InsidePcs => pc[p] \in InsidePcs
    PROVE  RingInv'
<1> USE RingAssumption DEF RingInv, arena, Goto
<1>0. pc \in [Procs -> Pcs]
  BY DEF TypeOK
<1>1. Holders' = Holders /\ Insiders' \subseteq Insiders
  BY <1>0 DEF Holders, Insiders
<1>2. TypeOK'
  BY DEF TypeOK
<1>3. Claims'
  BY <1>1 DEF Claims
<1>4. Moves'
  BY <1>1 DEF Moves
<1>5. Addresses'
  BY <1>0 DEF Addresses
<1>6. Locked'
  BY <1>1 DEF Locked
<1> QED
  BY <1>2, <1>3, <1>4, <1>5, <1>6

\* A thread that gives its claim back, outside the lock.
LEMMA UnclaimStep ==
    ASSUME RingInv, NEW p \in Procs, pc[p] \in {"release", "leave"},
           claim' = claim - 1, Goto(p, "claim") \/ Goto(p, "idle"),
           UNCHANGED <<mem, place, moving, mover, to, mine>>
    PROVE  RingInv'
<1> USE RingAssumption DEF RingInv, Goto, mine
<1>0. pc \in [Procs -> Pcs]
  BY DEF TypeOK
<1>1. p \in Holders
  BY DEF Holders, AddressPcs
<1>2. Holders' = Holders \ {p} /\ Insiders' = Insiders
  BY <1>0 DEF Holders, Insiders, AddressPcs, InsidePcs
<1>3. Claims'
  BY <1>1, <1>2, ClaimBound, FS_RemoveElement DEF Claims
<1>4. TypeOK'
  BY <1>3, ClaimBound DEF TypeOK, Pcs, Claims
<1>5. Moves'
  BY <1>2 DEF Moves
<1>6. Addresses'
  BY <1>0 DEF Addresses, AddressPcs, InsidePcs
<1>7. Locked'
  BY <1>2 DEF Locked
<1> QED
  BY <1>3, <1>4, <1>5, <1>6, <1>7

\* What a thread inside finds: the ring, locked, at the place of the cell.
LEMMA Entered ==
    ASSUME RingInv, NEW p \in Procs, pc[p] \in InsidePcs
    PROVE  At(p) \in Rings /\ At(p).lock = 1
<1>1. addr[p] = place /\ p \in Holders /\ p \in Insiders
  BY DEF RingInv, Addresses, AddressPcs, Holders, Insiders
<1>2. mover = "rest"
  BY <1>1 DEF RingInv, Moves
<1> QED
  BY <1>1, <1>2 DEF RingInv, Moves, Locked, At

\* The wrap stays in the index.
LEMMA Next1InIndex == \A i \in Index : Next1(i) \in Index
  BY RingAssumption DEF Index, Next1

LEMMA InvAcquire ==
    ASSUME RingInv, NEW p \in Procs, Start(p) \/ Acquire(p)
    PROVE  RingInv'
<1> USE RingAssumption
<1>0. TypeOK
  BY DEF RingInv
<1>1. CASE StartPush(p)
  BY <1>0, <1>1, QuietStep DEF StartPush, TypeOK, Pcs, AddressPcs, InsidePcs
<1>2. CASE StartPop(p)
  BY <1>0, <1>2, QuietStep DEF StartPop, TypeOK, Pcs, AddressPcs, InsidePcs
<1>3. CASE Claim(p)
  <2> USE DEF RingInv, Goto, mine
  <2>1. p \notin Holders /\ Holders' = Holders \cup {p} /\ Insiders' = Insiders
    BY <1>0, <1>3 DEF Claim, Holders, Insiders, AddressPcs, InsidePcs, TypeOK
  <2>2. Claims'
    BY <1>0, <1>3, <2>1, ClaimBound, FS_AddElement DEF Claim, Claims, TypeOK
  <2>3. TypeOK'
    BY <1>3, <2>2, ClaimBound DEF Claim, Claims, TypeOK, Pcs
  <2>4. Moves'
    BY <1>3 DEF Claim, Moves
  <2>5. Addresses'
    BY <1>0, <1>3 DEF Claim, Addresses, AddressPcs, InsidePcs, TypeOK
  <2>6. Locked'
    BY <1>3, <2>1 DEF Claim, Locked
  <2> QED
    BY <2>2, <2>3, <2>4, <2>5, <2>6
<1>4. CASE Look(p)
  <2> USE DEF RingInv, Goto, arena
  <2>1. Holders' = Holders /\ Insiders' = Insiders
    BY <1>0, <1>4 DEF Look, Holders, Insiders, AddressPcs, InsidePcs, TypeOK
  <2>2. TypeOK'
    BY <1>4 DEF Look, TypeOK, Pcs, AddressPcs
  <2>3. Claims' /\ Moves' /\ Locked'
    BY <1>4, <2>1 DEF Look, Claims, Moves, Locked
  <2>4. Addresses'
    BY <1>0, <1>4 DEF Look, Addresses, TypeOK
  <2> QED
    BY <2>2, <2>3, <2>4
<1>5. CASE Lock(p)
  <2> USE DEF RingInv, Goto, arena, mine
  <2>1. addr[p] = place /\ p \in Holders
    BY <1>5 DEF Lock, Addresses, AddressPcs, Holders
  <2>2. mover = "rest" /\ At(p) \in Rings
    BY <2>1 DEF Moves, At
  <2>3. mem'[place] = [At(p) EXCEPT !.lock = 1] /\ mem'[place] \in Rings /\ mem'[place].lock = 1
    BY <1>0, <1>5, <2>1, <2>2 DEF Lock, Store, Rings, TypeOK
  <2>4. Insiders = {}
    BY <1>5, <2>1 DEF Lock, Locked, At
  <2>5. Holders' = Holders /\ Insiders' = {p}
    BY <1>0, <1>5, <2>4 DEF Lock, Holders, Insiders, AddressPcs, InsidePcs, TypeOK
  <2>6. TypeOK'
    BY <1>5, <2>1, <2>2, <2>3 DEF Lock, Store, TypeOK, Pcs, AddressPcs, InsidePcs
  <2>7. Claims'
    BY <1>5, <2>5 DEF Lock, Claims
  <2>8. Moves'
    BY <1>5, <2>2, <2>3, <2>5 DEF Lock, Moves
  <2>9. Addresses'
    BY <1>0, <1>5, <2>1 DEF Lock, Addresses, TypeOK
  <2>10. Locked'
    BY <1>5, <2>3, <2>5 DEF Lock, Locked
  <2> QED
    BY <2>6, <2>7, <2>8, <2>9, <2>10
<1>6. CASE LockTaken(p)
  BY <1>0, <1>6, QuietStep DEF LockTaken, TypeOK, Pcs, AddressPcs, InsidePcs, arena, mine
<1>7. CASE Release(p)
  BY <1>7, UnclaimStep DEF Release
<1> QED
  BY <1>1, <1>2, <1>3, <1>4, <1>5, <1>6, <1>7 DEF Start, Acquire

LEMMA InvInside ==
    ASSUME RingInv, NEW p \in Procs, Inside(p)
    PROVE  RingInv'
<1> USE RingAssumption
<1>0. TypeOK
  BY DEF RingInv
<1>e. pc[p] \in InsidePcs => At(p) \in Rings /\ At(p).lock = 1
  BY Entered
<1>1. CASE PushFull(p)
  BY <1>0, <1>1, QuietStep DEF PushFull, TypeOK, Pcs, AddressPcs, InsidePcs, arena, mine
<1>2. CASE PushSlot(p)
  <2> DEFINE ring == [At(p) EXCEPT !.slots[At(p).head] = item[p]]
  <2>1. ring \in Rings /\ ring.lock = 1
    BY <1>0, <1>2, <1>e DEF PushSlot, InsidePcs, Rings, TypeOK
  <2>2. /\ Store(p, ring) /\ pc[p] \in InsidePcs
        /\ pc' \in [Procs -> Pcs] /\ pc'[p] \in InsidePcs
        /\ \A q \in Procs : q # p => pc'[q] = pc[q]
    BY <1>0, <1>2 DEF PushSlot, Goto, TypeOK, Pcs, AddressPcs, InsidePcs
  <2>3. item' \in [Procs -> Handles \cup {NoHandle}] /\ UNCHANGED <<arena, op, addr>>
    BY <1>0, <1>2 DEF PushSlot, TypeOK, mine
  <2> HIDE DEF ring
  <2> QED
    BY <2>1, <2>2, <2>3, InsideStep
<1>3. CASE PushHead(p)
  <2> DEFINE ring == [At(p) EXCEPT !.head = Next1(@)]
  <2>1. ring \in Rings /\ ring.lock = 1
    BY <1>3, <1>e, Next1InIndex DEF PushHead, InsidePcs, Rings
  <2>2. /\ Store(p, ring) /\ pc[p] \in InsidePcs
        /\ pc' \in [Procs -> Pcs] /\ pc'[p] \in InsidePcs
        /\ \A q \in Procs : q # p => pc'[q] = pc[q]
    BY <1>0, <1>3 DEF PushHead, Goto, TypeOK, Pcs, AddressPcs, InsidePcs
  <2>3. item' \in [Procs -> Handles \cup {NoHandle}] /\ UNCHANGED <<arena, op, addr>>
    BY <1>0, <1>3 DEF PushHead, TypeOK
  <2> HIDE DEF ring
  <2> QED
    BY <2>1, <2>2, <2>3, InsideStep
<1>4. CASE PopNothing(p)
  BY <1>0, <1>4, QuietStep DEF PopNothing, TypeOK, Pcs, AddressPcs, InsidePcs, arena, mine
<1>5. CASE PopSlot(p)
  <2> DEFINE ring == [At(p) EXCEPT !.slots[At(p).tail] = NoHandle]
  <2>1. ring \in Rings /\ ring.lock = 1
    BY <1>5, <1>e DEF PopSlot, InsidePcs, Rings
  <2>2. /\ Store(p, ring) /\ pc[p] \in InsidePcs
        /\ pc' \in [Procs -> Pcs] /\ pc'[p] \in InsidePcs
        /\ \A q \in Procs : q # p => pc'[q] = pc[q]
    BY <1>0, <1>5 DEF PopSlot, Goto, TypeOK, Pcs, AddressPcs, InsidePcs
  <2>3. At(p).slots[At(p).tail] \in Handles \cup {NoHandle}
    BY <1>5, <1>e DEF PopSlot, InsidePcs, Rings
  <2>4. item' \in [Procs -> Handles \cup {NoHandle}] /\ UNCHANGED <<arena, op, addr>>
    BY <1>0, <1>5, <2>3 DEF PopSlot, TypeOK
  <2> HIDE DEF ring
  <2> QED
    BY <2>1, <2>2, <2>4, InsideStep
<1>6. CASE PopTail(p)
  <2> DEFINE ring == [At(p) EXCEPT !.tail = Next1(@)]
  <2>1. ring \in Rings /\ ring.lock = 1
    BY <1>6, <1>e, Next1InIndex DEF PopTail, InsidePcs, Rings
  <2>2. /\ Store(p, ring) /\ pc[p] \in InsidePcs
        /\ pc' \in [Procs -> Pcs] /\ pc'[p] \in InsidePcs
        /\ \A q \in Procs : q # p => pc'[q] = pc[q]
    BY <1>0, <1>6 DEF PopTail, Goto, TypeOK, Pcs, AddressPcs, InsidePcs
  <2>3. item' \in [Procs -> Handles \cup {NoHandle}] /\ UNCHANGED <<arena, op, addr>>
    BY <1>0, <1>6 DEF PopTail, TypeOK
  <2> HIDE DEF ring
  <2> QED
    BY <2>1, <2>2, <2>3, InsideStep
<1>7. CASE Unlock(p)
  <2> USE DEF RingInv, Goto, arena, mine
  <2>1. addr[p] = place /\ p \in Holders /\ p \in Insiders
    BY <1>7 DEF Unlock, Addresses, AddressPcs, InsidePcs, Holders, Insiders
  <2>2. mover = "rest" /\ At(p) \in Rings
    BY <2>1 DEF Moves, At
  <2>3. mem'[place] \in Rings
    BY <1>0, <1>7, <2>1, <2>2 DEF Unlock, Store, Rings, TypeOK
  <2>4. Holders' = Holders /\ Insiders' = {}
    BY <1>0, <1>7, <2>1 DEF Unlock, Locked, Holders, Insiders, AddressPcs, InsidePcs, TypeOK
  <2>5. TypeOK'
    BY <1>7, <2>1, <2>2, <2>3 DEF Unlock, Store, TypeOK, Pcs, AddressPcs
  <2>6. Claims'
    BY <1>7, <2>4 DEF Unlock, Claims
  <2>7. Moves'
    BY <1>7, <2>2, <2>3, <2>4 DEF Unlock, Moves
  <2>8. Addresses'
    BY <1>0, <1>7, <2>1 DEF Unlock, Addresses, TypeOK
  <2>9. Locked'
    BY <2>4 DEF Locked
  <2> QED
    BY <2>5, <2>6, <2>7, <2>8, <2>9
<1>8. CASE Leave(p)
  BY <1>8, UnclaimStep DEF Leave
<1> QED
  BY <1>1, <1>2, <1>3, <1>4, <1>5, <1>6, <1>7, <1>8 DEF Inside

LEMMA InvCompactor ==
    ASSUME RingInv, Compactor
    PROVE  RingInv'
<1> USE RingAssumption DEF RingInv, Threads, mine
<1>0. Holders' = Holders /\ Insiders' = Insiders /\ Insiders \subseteq Holders
  BY DEF Compactor, Grab, Copy, Publish, Open, Holders, Insiders, AddressPcs
<1>1. Claims' /\ UNCHANGED claim
  BY <1>0 DEF Compactor, Grab, Copy, Publish, Open, Claims
<1>2. CASE Grab
  <2>1. Holders = {}
    BY <1>2, ClaimBound, FS_EmptySet DEF Grab, Claims
  <2>2. PICK q \in 1..(place - 1) : to' = q
    BY <1>2 DEF Grab
  <2>3. q \in 1..Places /\ q # place
    BY DEF TypeOK
  <2>4. TypeOK'
    BY <1>2, <2>2, <2>3 DEF Grab, TypeOK, MoverPcs
  <2>5. Moves'
    BY <1>0, <1>2, <2>1, <2>2, <2>3 DEF Grab, Moves
  <2>6. Addresses' /\ Locked'
    BY <1>0, <1>2 DEF Grab, Addresses, Locked
  <2> QED
    BY <1>1, <2>4, <2>5, <2>6
<1>3. CASE Copy
  <2>1. Holders = {} /\ to \in 1..Places /\ to # place /\ mem[place] \in Rings
    BY <1>3 DEF Copy, Moves
  <2>2. TypeOK'
    BY <1>3, <2>1 DEF Copy, TypeOK, MoverPcs
  <2>3. Moves'
    BY <1>0, <1>3, <2>1 DEF Copy, Moves, TypeOK
  <2>4. Addresses' /\ Locked'
    BY <1>0, <1>3, <2>1 DEF Copy, Addresses, Locked
  <2> QED
    BY <1>1, <2>2, <2>3, <2>4
<1>4. CASE Publish
  <2>1. Holders = {} /\ to \in 1..Places /\ mem[to] \in Rings
    BY <1>4 DEF Publish, Moves
  <2>2. TypeOK'
    BY <1>4, <2>1 DEF Publish, TypeOK, MoverPcs
  <2>3. Moves'
    BY <1>0, <1>4, <2>1 DEF Publish, Moves, TypeOK
  <2>4. Addresses'
    BY <1>4, <2>1 DEF Publish, Addresses, Holders
  <2>5. Locked'
    BY <1>0, <2>1 DEF Locked
  <2> QED
    BY <1>1, <2>2, <2>3, <2>4, <2>5
<1>5. CASE Open
  <2>1. TypeOK'
    <3>1. moving' \in BOOLEAN
      BY <1>5, Zenon DEF Open
    <3>2. mover' \in MoverPcs /\ to' \in 0..Places
      BY <1>5 DEF Open, MoverPcs
    <3> QED
      BY <1>5, <3>1, <3>2 DEF Open, TypeOK
  <2>2. Moves' /\ Addresses' /\ Locked'
    BY <1>0, <1>5 DEF Open, Moves, Addresses, Locked
  <2> QED
    BY <1>1, <2>1, <2>2
<1> QED
  BY <1>2, <1>3, <1>4, <1>5 DEF Compactor

LEMMA RingInvStep == RingInv /\ [Next]_vars => RingInv'
<1> SUFFICES ASSUME RingInv, [Next]_vars PROVE RingInv'
  OBVIOUS
<1>1. ASSUME NEW p \in Procs, Start(p) \/ Acquire(p) PROVE RingInv'
  BY <1>1, InvAcquire
<1>2. ASSUME NEW p \in Procs, Inside(p) PROVE RingInv'
  BY <1>2, InvInside
<1>3. CASE Compactor
  BY <1>3, InvCompactor
<1>4. CASE UNCHANGED vars
  <2>1. Holders' = Holders /\ Insiders' = Insiders
    BY <1>4 DEF vars, Holders, Insiders
  <2> QED
    BY <1>4, <2>1 DEF vars, RingInv, TypeOK, Claims, Moves, Addresses, Locked
<1> QED
  BY <1>1, <1>2, <1>3, <1>4 DEF Next

\* Types, the count of the claim word, where the copies are, and who is locked in: the
\* inductive invariant of the ring.
THEOREM RingTyping == Spec => [](TypeOK /\ RingInv)
<1>1. RingInv => TypeOK
  BY DEF RingInv
<1> QED
  BY <1>1, RingInvInit, RingInvStep, PTL DEF Spec

\* At most one thread is inside smp_ring_push or smp_ring_pop, wherever the compactor has
\* put the cell meanwhile: the spin lock works although its own word moves (S3, S8).
THEOREM RingExclusion == Spec => []OneInside
<1>1. RingInv => OneInside
  <2> SUFFICES ASSUME RingInv PROVE OneInside
    OBVIOUS
  <2>1. \A p \in Insiders : addr[p] = place /\ p \in Holders
    BY DEF RingInv, Addresses, Insiders, Holders, AddressPcs
  <2>2. \A p \in Insiders : At(p).lock = 1
    BY <2>1 DEF RingInv, Locked, At
  <2>3. Insiders # {} => ~moving
    BY <2>1 DEF RingInv, Moves
  <2> QED
    BY <2>1, <2>2, <2>3 DEF OneInside, RingInv, Locked
<1> QED
  BY <1>1, RingTyping, PTL

\* No address outlives a move: whoever holds one sees the ring where it is now, and the
\* compactor never moves the ring under a claim (S7).
THEOREM RingAddresses == Spec => []AddressCurrent
<1>1. RingInv => AddressCurrent
  <2> SUFFICES ASSUME RingInv PROVE AddressCurrent
    OBVIOUS
  <2>1. ASSUME NEW p \in Procs, pc[p] \in AddressPcs
        PROVE  addr[p] = place /\ At(p) # Junk
    <3>1. addr[p] = place /\ p \in Holders
      BY <2>1 DEF RingInv, Addresses, Holders
    <3>2. mover = "rest"
      BY <3>1 DEF RingInv, Moves
    <3> QED
      BY <3>1, <3>2, RingAssumption DEF RingInv, Moves, At
  <2> QED
    BY <2>1 DEF AddressCurrent, RingInv, Moves
<1> QED
  BY <1>1, RingTyping, PTL

\* The ring holds under its lock and its claim wherever the compactor puts it: one thread
\* inside, no old address, and the types, for any threads, capacity and places (S3, S7, S8).
THEOREM RingHolds == Spec => []RingHeld
<1>1. TypeOK /\ OneInside /\ AddressCurrent => RingHeld
  BY DEF RingHeld
<1> QED
  BY <1>1, RingTyping, RingExclusion, RingAddresses, PTL
-----------------------------------------------------------------------------
(* The ring as a sequence: the slots from one index up to the head. *)

Slice(r, from) == [i \in 1..((r.head + Capacity - from) % Capacity) |->
                      r.slots[(from + i - 1) % Capacity]]

Advancing == \E p \in Procs : pc[p] = "advance"

From == IF Advancing THEN Next1(Ring.tail) ELSE Ring.tail

\* How many slots are in use, and what a wrap of the head or of the tail does to that.
LEMMA Count ==
    ASSUME NEW h \in Index, NEW t \in Index,
           NEW n, n = (h + Capacity - t) % Capacity
    PROVE  /\ n \in 0..(Capacity - 1)
           /\ n = 0 <=> h = t
           /\ n = Capacity - 1 <=> Next1(h) = t
           /\ Next1(h) # t => (Next1(h) + Capacity - t) % Capacity = n + 1
           /\ h # t => (h + Capacity - Next1(t)) % Capacity = n - 1
<1>1. n = IF h >= t THEN h - t ELSE h + Capacity - t
  BY RingAssumption DEF Index
<1>2. n \in 0..(Capacity - 1) /\ (n = 0 <=> h = t) /\ (n = Capacity - 1 <=> Next1(h) = t)
  BY <1>1, RingAssumption DEF Index, Next1
<1>3. ASSUME Next1(h) # t PROVE (Next1(h) + Capacity - t) % Capacity = n + 1
  <2>1. CASE h + 1 >= Capacity
    BY <1>1, <1>3, <2>1, RingAssumption DEF Index, Next1
  <2>2. CASE h + 1 < Capacity
    BY <1>1, <1>3, <2>2, RingAssumption DEF Index, Next1
  <2> QED
    BY <2>1, <2>2, RingAssumption DEF Index
<1>4. ASSUME h # t PROVE (h + Capacity - Next1(t)) % Capacity = n - 1
  <2>1. CASE t + 1 >= Capacity
    BY <1>1, <1>4, <2>1, RingAssumption DEF Index, Next1
  <2>2. CASE t + 1 < Capacity
    BY <1>1, <1>4, <2>2, RingAssumption DEF Index, Next1
  <2> QED
    BY <2>1, <2>2, RingAssumption DEF Index
<1> QED
  BY <1>2, <1>3, <1>4

\* The i-th slot in use, counted from the tail: never the head, the tail only for the first.
LEMMA Wraps ==
    ASSUME NEW h \in Index, NEW t \in Index,
           NEW n, n = (h + Capacity - t) % Capacity
    PROVE  /\ \A i \in 1..n : (t + i - 1) % Capacity \in Index \ {h}
           /\ (t + n) % Capacity = h
           /\ \A i \in 1..n : i # 1 => (t + i - 1) % Capacity # t
           /\ (t + 1 - 1) % Capacity = t
           /\ \A i \in 1..(n - 1) : (Next1(t) + i - 1) % Capacity = (t + (i + 1) - 1) % Capacity
<1>1. n = IF h >= t THEN h - t ELSE h + Capacity - t
  BY RingAssumption DEF Index
<1>2. \A a \in 0..(2 * Capacity - 1) : a % Capacity = IF a < Capacity THEN a ELSE a - Capacity
  BY RingAssumption
<1>3. (t + n) % Capacity = h /\ (t + 1 - 1) % Capacity = t
  BY <1>1, <1>2, RingAssumption DEF Index
<1>4. ASSUME NEW i \in 1..n
      PROVE  /\ (t + i - 1) % Capacity \in Index \ {h}
             /\ i # 1 => (t + i - 1) % Capacity # t
  <2>1. t + i - 1 \in 0..(2 * Capacity - 1)
    BY <1>1, RingAssumption DEF Index
  <2> QED
    BY <1>1, <1>2, <2>1, RingAssumption DEF Index
<1>5. ASSUME NEW i \in 1..(n - 1)
      PROVE  (Next1(t) + i - 1) % Capacity = (t + (i + 1) - 1) % Capacity
  <2>1. PICK a \in Nat : a = Next1(t) + i - 1
    BY <1>1, RingAssumption DEF Index, Next1
  <2>2. PICK b \in Nat : b = t + (i + 1) - 1
    BY <1>1, RingAssumption DEF Index
  <2>3. a < 2 * Capacity /\ b < 2 * Capacity
    BY <1>1, <2>1, <2>2, RingAssumption DEF Index, Next1
  <2>4. /\ a % Capacity = IF a < Capacity THEN a ELSE a - Capacity
        /\ b % Capacity = IF b < Capacity THEN b ELSE b - Capacity
    BY <1>2, <2>3, RingAssumption
  <2>5. a % Capacity = b % Capacity
    <3>1. CASE t + 1 >= Capacity
      BY <1>1, <2>1, <2>2, <2>4, <3>1, RingAssumption DEF Index, Next1
    <3>2. CASE t + 1 < Capacity
      BY <1>1, <2>1, <2>2, <2>4, <3>2, RingAssumption DEF Index, Next1
    <3> QED
      BY <3>1, <3>2, RingAssumption DEF Index
  <2> QED
    BY <2>1, <2>2, <2>5
<1> QED
  BY <1>3, <1>4, <1>5

\* The slots in use are a sequence of slot values, shorter than the capacity.
LEMMA SliceSeq ==
    ASSUME NEW r \in Rings, NEW t \in Index
    PROVE  /\ Slice(r, t) \in Seq(Handles \cup {NoHandle})
           /\ Len(Slice(r, t)) = (r.head + Capacity - t) % Capacity
           /\ Len(Slice(r, t)) \in 0..(Capacity - 1)
<1>1. PICK n : n = (r.head + Capacity - t) % Capacity
  OBVIOUS
<1>2. r.head \in Index /\ r.slots \in [Index -> Handles \cup {NoHandle}]
  BY DEF Rings
<1>3. n \in 0..(Capacity - 1)
  BY <1>1, <1>2, Count
<1>4. \A i \in 1..n : (t + i - 1) % Capacity \in Index
  BY <1>1, <1>2, Wraps
<1>5. Slice(r, t) = [i \in 1..n |-> r.slots[(t + i - 1) % Capacity]]
  BY <1>1 DEF Slice
<1>6. n \in Nat
  BY <1>3, RingAssumption
<1>7. Slice(r, t) \in [1..n -> Handles \cup {NoHandle}]
  BY <1>2, <1>4, <1>5
<1>8. Slice(r, t) \in Seq(Handles \cup {NoHandle}) /\ Len(Slice(r, t)) = n
  BY <1>6, <1>7
<1> QED
  BY <1>1, <1>3, <1>8

\* A push stores past the slots in use, and then takes its slot in.
LEMMA SlicePush ==
    ASSUME NEW r \in Rings, NEW t \in Index, NEW h \in Handles \cup {NoHandle}
    PROVE  /\ Slice([r EXCEPT !.slots[r.head] = h], t) = Slice(r, t)
           /\ Next1(r.head) # t =>
                 Slice([r EXCEPT !.head = Next1(@)], t) = Append(Slice(r, t), r.slots[r.head])
<1>1. PICK n : n = (r.head + Capacity - t) % Capacity
  OBVIOUS
<1>2. r.head \in Index /\ r.slots \in [Index -> Handles \cup {NoHandle}]
  BY DEF Rings
<1>3. /\ n \in Nat
      /\ \A i \in 1..n : (t + i - 1) % Capacity \in Index \ {r.head}
      /\ (t + n) % Capacity = r.head
  BY <1>1, <1>2, Count, Wraps, RingAssumption
<1>4. Slice(r, t) = [i \in 1..n |-> r.slots[(t + i - 1) % Capacity]]
  BY <1>1 DEF Slice
<1>5. Slice([r EXCEPT !.slots[r.head] = h], t) = Slice(r, t)
  <2>1. /\ [r EXCEPT !.slots[r.head] = h].head = r.head
        /\ \A i \in 1..n : [r EXCEPT !.slots[r.head] = h].slots[(t + i - 1) % Capacity]
                               = r.slots[(t + i - 1) % Capacity]
    BY <1>2, <1>3 DEF Rings
  <2> QED
    BY <1>1, <1>4, <2>1 DEF Slice
<1>6. ASSUME Next1(r.head) # t
      PROVE  Slice([r EXCEPT !.head = Next1(@)], t) = Append(Slice(r, t), r.slots[r.head])
  <2>1. (Next1(r.head) + Capacity - t) % Capacity = n + 1
    BY <1>1, <1>2, <1>6, Count
  <2>2. /\ [r EXCEPT !.head = Next1(@)].head = Next1(r.head)
        /\ [r EXCEPT !.head = Next1(@)].slots = r.slots
    BY DEF Rings
  <2>3. Slice([r EXCEPT !.head = Next1(@)], t)
            = [i \in 1..(n + 1) |-> r.slots[(t + i - 1) % Capacity]]
    BY <2>1, <2>2 DEF Slice
  <2>4. Slice(r, t) \in Seq(Handles \cup {NoHandle}) /\ Len(Slice(r, t)) = n
    BY <1>1, SliceSeq
  <2>5. t + (n + 1) - 1 = t + n
    BY <1>3, RingAssumption DEF Index
  <2>6. Append(Slice(r, t), r.slots[r.head])
            = [i \in 1..(n + 1) |-> IF i = n + 1 THEN r.slots[r.head] ELSE Slice(r, t)[i]]
    BY <1>2, <2>4
  <2>7. \A i \in 1..(n + 1) : r.slots[(t + i - 1) % Capacity]
            = IF i = n + 1 THEN r.slots[r.head] ELSE Slice(r, t)[i]
    BY <1>3, <1>4, <2>5
  <2> QED
    BY <2>3, <2>6, <2>7
<1> QED
  BY <1>5, <1>6

\* A pop takes the slot of the tail, which it clears first.
LEMMA SlicePop ==
    ASSUME NEW r \in Rings, r.head # r.tail
    PROVE  /\ Slice(r, r.tail) # <<>>
           /\ Head(Slice(r, r.tail)) = r.slots[r.tail]
           /\ Slice([r EXCEPT !.slots[r.tail] = NoHandle], Next1(r.tail)) = Tail(Slice(r, r.tail))
<1>0. PICK t \in Index : t = r.tail
  BY DEF Rings
<1>1. PICK n : n = (r.head + Capacity - t) % Capacity
  OBVIOUS
<1>2. r.head \in Index /\ r.slots \in [Index -> Handles \cup {NoHandle}]
  BY DEF Rings
<1>3. /\ n \in Nat /\ n # 0
      /\ (r.head + Capacity - Next1(t)) % Capacity = n - 1
  BY <1>0, <1>1, <1>2, Count, RingAssumption
<1>4. /\ \A i \in 1..n : (t + i - 1) % Capacity \in Index
      /\ \A i \in 1..n : i # 1 => (t + i - 1) % Capacity # t
      /\ (t + 1 - 1) % Capacity = t
      /\ \A i \in 1..(n - 1) : (Next1(t) + i - 1) % Capacity = (t + (i + 1) - 1) % Capacity
  BY <1>1, <1>2, Wraps
<1>5. Slice(r, t) = [i \in 1..n |-> r.slots[(t + i - 1) % Capacity]]
  BY <1>1 DEF Slice
<1>6. Slice(r, t) \in Seq(Handles \cup {NoHandle}) /\ Len(Slice(r, t)) = n
  BY <1>1, SliceSeq
<1>7. Slice(r, t) # <<>> /\ Head(Slice(r, t)) = r.slots[t]
  BY <1>3, <1>4, <1>5, <1>6, SMTT(30)
<1>8. Slice([r EXCEPT !.slots[r.tail] = NoHandle], Next1(t)) = Tail(Slice(r, t))
  <2>1. PICK s \in Rings : s = [r EXCEPT !.slots[r.tail] = NoHandle]
    BY DEF Rings
  <2>2. s.head = r.head /\ \A j \in Index : j # t => s.slots[j] = r.slots[j]
    BY <1>0, <1>2, <2>1 DEF Rings
  <2>3. Slice(s, Next1(t)) = [i \in 1..(n - 1) |-> s.slots[(Next1(t) + i - 1) % Capacity]]
    BY <1>3, <2>2 DEF Slice
  <2>4. /\ Tail(Slice(r, t)) \in Seq(Handles \cup {NoHandle}) /\ Len(Tail(Slice(r, t))) = n - 1
        /\ \A i \in 1..(n - 1) : Tail(Slice(r, t))[i] = Slice(r, t)[i + 1]
    BY <1>3, <1>6, <1>7
  <2>5. ASSUME NEW i \in 1..(n - 1)
        PROVE  s.slots[(Next1(t) + i - 1) % Capacity] = Slice(r, t)[i + 1]
    <3>1. PICK k \in 1..n : k = i + 1 /\ k # 1
      BY <1>3
    <3>2. (Next1(t) + i - 1) % Capacity = (t + k - 1) % Capacity
      BY <1>4, <3>1
    <3>3. (t + k - 1) % Capacity \in Index /\ (t + k - 1) % Capacity # t
      BY <1>4, <3>1
    <3>4. Slice(r, t)[k] = r.slots[(t + k - 1) % Capacity]
      BY <1>5
    <3> QED
      BY <2>2, <3>1, <3>2, <3>3, <3>4
  <2>6. Tail(Slice(r, t)) = [i \in 1..(n - 1) |-> Tail(Slice(r, t))[i]]
    <3>1. Tail(Slice(r, t)) \in [1..(n - 1) -> Handles \cup {NoHandle}]
      BY <2>4, LenProperties
    <3> QED
      BY <3>1
  <2>7. \A i \in 1..(n - 1) : s.slots[(Next1(t) + i - 1) % Capacity] = Tail(Slice(r, t))[i]
    BY <2>4, <2>5
  <2> QED
    BY <2>1, <2>3, <2>6, <2>7
<1> QED
  BY <1>0, <1>7, <1>8

-----------------------------------------------------------------------------
(* What the threads have in hand, and what the slots in use hold. *)

Before == {"claim", "look", "lock", "release", "enter", "store"}

CallingAt(p) ==
    /\ pc[p] \in Before => IF op[p] = "push" THEN item[p] \in Handles ELSE item[p] = NoHandle
    /\ pc[p] = "store" => /\ op[p] = "push" /\ Next1(Ring.head) # Ring.tail
                          /\ Ring.slots[Ring.head] = item[p]
    /\ pc[p] = "advance" => op[p] = "pop" /\ item[p] \in Handles /\ Ring.head # Ring.tail
    /\ pc[p] \in {"unlock", "leave"} /\ op[p] = "pop" => item[p] \notin StaleHandles

Calling == \A p \in Procs : CallingAt(p)

Filled == Used \in Seq(Handles)

QueueInv == RingInv /\ Calling /\ Filled

calls == [p \in Procs |-> CallOf(p)]

LEMMA UsedIsSlice == Used = Slice(Ring, From)
  BY DEF Used, Slice, From, Advancing

\* Wherever the cell is, one of its copies is whole.
LEMMA RingIsWhole ==
    ASSUME RingInv
    PROVE  Ring \in Rings /\ From \in Index
<1>1. Ring \in Rings
  BY DEF RingInv, Moves, Ring
<1> QED
  BY <1>1, Next1InIndex DEF Rings, From

\* A thread inside works on that copy, and is the only one that can be between the two halves
\* of an operation.
LEMMA InsideRing ==
    ASSUME RingInv, NEW p \in Procs, pc[p] \in InsidePcs
    PROVE  /\ Ring = At(p) /\ mover = "rest" /\ addr[p] = place /\ place \in 1..Places
           /\ Advancing <=> pc[p] = "advance"
           /\ \A q \in Procs : q # p => pc[q] \notin InsidePcs
<1>1. addr[p] = place /\ p \in Holders /\ p \in Insiders
  BY DEF RingInv, Addresses, AddressPcs, Holders, Insiders
<1>2. mover = "rest" /\ place \in 1..Places
  BY <1>1 DEF RingInv, Moves, TypeOK
<1>3. \A q \in Procs : q # p => pc[q] \notin InsidePcs
  BY <1>1 DEF RingInv, Locked, Insiders
<1> QED
  BY <1>1, <1>2, <1>3 DEF Ring, At, Advancing, InsidePcs

Others(p) == \A q \in Procs : q # p => pc'[q] = pc[q] /\ op'[q] = op[q] /\ item'[q] = item[q]

\* What it stores is the ring afterwards; nobody else is between two halves.
LEMMA InsideStores ==
    ASSUME RingInv, NEW p \in Procs, pc[p] \in InsidePcs,
           NEW ring \in Rings, Store(p, ring), UNCHANGED <<place, mover, to>>, Others(p)
    PROVE  Ring' = ring /\ (Advancing' <=> pc'[p] = "advance")
<1>1. mover = "rest" /\ addr[p] = place /\ place \in 1..Places
  BY InsideRing
<1>2. \A q \in Procs : q # p => pc[q] # "advance"
  BY InsideRing DEF InsidePcs
<1>3. Ring' = ring
  BY <1>1 DEF Ring, Store, RingInv, TypeOK
<1> QED
  BY <1>2, <1>3 DEF Advancing, Others

\* One thread's step changes that thread's answer and no other's.
LEMMA CallsMove ==
    ASSUME NEW p \in Procs, Others(p)
    PROVE  calls' = [calls EXCEPT ![p] = CallOf(p)']
<1>1. \A q \in Procs : q # p => CallOf(q)' = CallOf(q)
  BY DEF Others, CallOf
<1> QED
  BY <1>1 DEF calls

\* The threads not inside do not depend on what the one inside stores.
LEMMA CallingMoves ==
    ASSUME QueueInv, NEW p \in Procs, Others(p), CallingAt(p)',
           \/ pc[p] \in InsidePcs
           \/ Ring'.head = Ring.head /\ Ring'.tail = Ring.tail /\ Ring'.slots = Ring.slots
    PROVE  Calling'
<1> SUFFICES ASSUME NEW q \in Procs, q # p PROVE CallingAt(q)'
  BY DEF Calling
<1>1. CallingAt(q) /\ pc'[q] = pc[q] /\ op'[q] = op[q] /\ item'[q] = item[q]
  BY DEF QueueInv, Calling, Others
<1>2. CASE pc[p] \in InsidePcs
  <2>1. pc[q] \notin {"store", "advance"}
    BY <1>2, InsideRing DEF QueueInv, InsidePcs
  <2> QED
    BY <1>1, <2>1 DEF CallingAt
<1>3. CASE Ring'.head = Ring.head /\ Ring'.tail = Ring.tail /\ Ring'.slots = Ring.slots
  BY <1>1, <1>3 DEF CallingAt
<1> QED
  BY <1>2, <1>3

\* A step that changes the head, the tail and the slots of no ring and is not in a pop's half.
LEMMA SameSlots ==
    ASSUME QueueInv, NEW p \in Procs, Others(p), CallingAt(p)',
           pc[p] # "advance", pc'[p] # "advance",
           Ring'.head = Ring.head /\ Ring'.tail = Ring.tail /\ Ring'.slots = Ring.slots
    PROVE  Calling' /\ Filled' /\ Used' = Used
<1>1. Advancing' = Advancing
  BY DEF Advancing, Others
<1>2. From' = From
  BY <1>1 DEF From
<1>3. Slice(Ring, From)' = Slice(Ring, From)
  BY <1>2 DEF Slice
<1>4. Used' = Slice(Ring, From)'
  BY UsedIsSlice DEF Used, Slice, From, Advancing
<1>5. Used' = Used
  BY <1>3, <1>4, UsedIsSlice
<1> QED
  BY <1>5, CallingMoves DEF QueueInv, Filled

-----------------------------------------------------------------------------
(* Every step as a step of the queue *)

Served == Calling' /\ Filled' /\ [Queue!QueueNext]_(Queue!handles)

LEMMA Turns ==
    ASSUME NEW p \in Procs, Others(p), NEW a, NEW b, CallOf(p) = a, CallOf(p)' = b
    PROVE  Queue!Turn(p, a, b)
  BY CallsMove DEF calls, Queue!Turn

\* A step that changes no slot and no answer is none of the queue's.
LEMMA Stutters ==
    ASSUME NEW p \in Procs, Others(p), Used' = Used, CallOf(p)' = CallOf(p)
    PROVE  UNCHANGED Queue!handles
<1>1. calls' = calls
  BY CallsMove DEF calls
<1> QED
  BY <1>1 DEF calls, Queue!handles

LEMMA ServedStart ==
    ASSUME QueueInv, NEW p \in Procs, Start(p)
    PROVE  Served
<1>0. pc \in [Procs -> Pcs] /\ op \in [Procs -> {"push", "pop"}]
      /\ item \in [Procs -> Handles \cup {NoHandle}]
  BY DEF QueueInv, RingInv, TypeOK
<1>1. Others(p) /\ pc[p] = "idle" /\ pc'[p] = "claim" /\ Ring' = Ring
  BY <1>0 DEF Start, StartPush, StartPop, Goto, Others, Ring, arena
<1>2. \/ op'[p] = "push" /\ item'[p] \in Handles
      \/ op'[p] = "pop" /\ item'[p] = NoHandle
  BY <1>0 DEF Start, StartPush, StartPop
<1>3. CallingAt(p)'
  BY <1>1, <1>2 DEF CallingAt
<1>4. Calling' /\ Filled' /\ Used' = Used
  BY <1>1, <1>3, SameSlots
<1>5. PICK c : c = CallOf(p)'
  OBVIOUS
<1>6. c \in Queue!Calls
  BY <1>1, <1>2, <1>5 DEF CallOf, Queue!Calls
<1>7. CallOf(p) = Queue!Idle
  BY <1>1 DEF CallOf, Queue!Idle
<1>8. PICK i : i = Queue!Idle
  OBVIOUS
<1>9. Queue!Turn(p, i, c)
  BY <1>1, <1>5, <1>7, <1>8, Turns
<1>10. Queue!Call(p, c)
  BY <1>4, <1>6, <1>8, <1>9 DEF Queue!Call
<1> QED
  BY <1>4, <1>6, <1>10 DEF Served, Queue!QueueNext

\* Waiting for the claim and for the lock changes nothing a caller sees.
LEMMA ServedAcquire ==
    ASSUME QueueInv, NEW p \in Procs, Acquire(p)
    PROVE  Served
<1>0. pc \in [Procs -> Pcs] /\ addr \in [Procs -> 0..Places]
  BY DEF QueueInv, RingInv, TypeOK
<1>1. /\ Others(p) /\ op' = op /\ item' = item
      /\ pc[p] \in Before \ {"store"} /\ pc'[p] \in Before \ {"store"}
  BY <1>0 DEF Acquire, Claim, Look, Lock, LockTaken, Release, Goto, Others, Before, mine, arena
<1>2. Ring'.head = Ring.head /\ Ring'.tail = Ring.tail /\ Ring'.slots = Ring.slots
  <2>1. CASE Lock(p)
    <3>1. addr[p] = place /\ p \in Holders
      BY <2>1 DEF Lock, QueueInv, RingInv, Addresses, AddressPcs, Holders
    <3>2. mover = "rest" /\ place \in 1..Places /\ At(p) \in Rings
      BY <3>1 DEF QueueInv, RingInv, Moves, At, TypeOK
    <3>3. Ring = At(p) /\ Ring' = [At(p) EXCEPT !.lock = 1]
      BY <2>1, <3>1, <3>2 DEF Lock, Store, Ring, At, arena, QueueInv, RingInv, TypeOK
    <3> QED
      BY <3>2, <3>3 DEF Rings
  <2>2. CASE Claim(p) \/ Look(p) \/ LockTaken(p) \/ Release(p)
    BY <2>2 DEF Claim, Look, LockTaken, Release, Ring, arena
  <2> QED
    BY <2>1, <2>2 DEF Acquire
<1>3. CallingAt(p)'
  BY <1>1 DEF QueueInv, Calling, CallingAt, Before
<1>4. Calling' /\ Filled' /\ Used' = Used
  BY <1>1, <1>2, <1>3, SameSlots DEF Before
<1>5. CallOf(p)' = CallOf(p)
  BY <1>1 DEF CallOf, Before
<1> QED
  BY <1>1, <1>4, <1>5, Stutters DEF Served

\* The answer is taken away: the call is over.
LEMMA ServedLeave ==
    ASSUME QueueInv, NEW p \in Procs, Leave(p)
    PROVE  Served
<1>0. pc \in [Procs -> Pcs] /\ op[p] \in {"push", "pop"} /\ item[p] \in Handles \cup {NoHandle}
  BY DEF QueueInv, RingInv, TypeOK
<1>1. Others(p) /\ pc[p] = "leave" /\ pc'[p] = "idle" /\ Ring' = Ring
  BY <1>0 DEF Leave, Goto, Others, Ring, mine
<1>2. CallingAt(p) /\ CallingAt(p)'
  BY <1>1 DEF QueueInv, Calling, CallingAt, Before
<1>3. Calling' /\ Filled' /\ Used' = Used
  BY <1>1, <1>2, SameSlots
<1>4. PICK a : a = CallOf(p)
  OBVIOUS
<1>5. a \in Queue!Answers
  BY <1>0, <1>1, <1>2, <1>4 DEF CallingAt, CallOf, Queue!Answers
<1>6. PICK i : i = Queue!Idle
  OBVIOUS
<1>7. CallOf(p)' = i
  BY <1>1, <1>6 DEF CallOf, Queue!Idle
<1>8. Queue!Return(p, a)
  BY <1>1, <1>3, <1>4, <1>5, <1>6, <1>7, Turns DEF Queue!Return
<1> QED
  BY <1>3, <1>5, <1>8 DEF Served, Queue!QueueNext

LEMMA ServedCompactor ==
    ASSUME QueueInv, Compactor
    PROVE  Served
<1>1. pc' = pc /\ op' = op /\ item' = item
  BY DEF Compactor, Grab, Copy, Publish, Open, Threads, mine
<1>2. Ring' = Ring
  <2>1. CASE Copy
    BY <2>1 DEF Copy, Ring, QueueInv, RingInv, Moves, TypeOK
  <2>2. CASE Grab \/ Publish \/ Open
    BY <2>2 DEF Grab, Publish, Open, Ring
  <2> QED
    BY <2>1, <2>2 DEF Compactor
<1>3. Used' = Used /\ calls' = calls
  BY <1>1, <1>2 DEF Used, calls, CallOf
<1>4. Calling'
  BY <1>1, <1>2 DEF QueueInv, Calling, CallingAt
<1>5. Filled'
  BY <1>3 DEF QueueInv, Filled
<1> QED
  BY <1>3, <1>4, <1>5 DEF Served, calls, Queue!handles

\* A full ring refuses: every slot but one is in use.
LEMMA ServedFull ==
    ASSUME QueueInv, NEW p \in Procs, PushFull(p)
    PROVE  Served
<1>0. pc \in [Procs -> Pcs] /\ RingInv
  BY DEF QueueInv, RingInv, TypeOK
<1>1. Others(p) /\ pc[p] = "enter" /\ pc'[p] = "unlock" /\ Ring' = Ring /\ op' = op /\ item' = item
  BY <1>0 DEF PushFull, Goto, Others, Ring, arena, mine
<1>2. op[p] = "push" /\ Ring = At(p) /\ Next1(Ring.head) = Ring.tail
  BY <1>0, <1>1, InsideRing DEF PushFull, InsidePcs
<1>3. CallingAt(p) /\ CallingAt(p)'
  BY <1>1, <1>2 DEF QueueInv, Calling, CallingAt, Before
<1>4. Calling' /\ Filled' /\ Used' = Used
  BY <1>1, <1>3, SameSlots
<1>5. PICK h \in Handles : h = item[p]
  BY <1>1, <1>2, <1>3 DEF CallingAt, Before
<1>6. CallOf(p) = <<"push", h>> /\ CallOf(p)' = <<"full", NoHandle>>
  BY <1>1, <1>2, <1>5, RingAssumption DEF CallOf
<1>7. Queue!Turn(p, <<"push", h>>, <<"full", NoHandle>>)
  BY <1>1, <1>6, Turns
<1>8. Len(Used) = Capacity - 1
  <2>1. ~Advancing
    BY <1>0, <1>1, InsideRing DEF InsidePcs
  <2>2. From = Ring.tail /\ Ring \in Rings /\ Ring.head \in Index /\ Ring.tail \in Index
    BY <1>0, <2>1, RingIsWhole DEF From, Rings
  <2>3. Len(Used) = (Ring.head + Capacity - Ring.tail) % Capacity
    BY <2>2, UsedIsSlice, SliceSeq
  <2> QED
    BY <1>2, <2>2, <2>3, Count
<1>9. Queue!Refuse(p, h)
  BY <1>4, <1>7, <1>8 DEF Queue!Refuse
<1> QED
  BY <1>4, <1>9 DEF Served, Queue!QueueNext

\* An empty ring has nothing to give.
LEMMA ServedNothing ==
    ASSUME QueueInv, NEW p \in Procs, PopNothing(p)
    PROVE  Served
<1>0. pc \in [Procs -> Pcs] /\ RingInv
  BY DEF QueueInv, RingInv, TypeOK
<1>1. Others(p) /\ pc[p] = "enter" /\ pc'[p] = "unlock" /\ Ring' = Ring /\ op' = op /\ item' = item
  BY <1>0 DEF PopNothing, Goto, Others, Ring, arena, mine
<1>2. op[p] = "pop" /\ Ring = At(p) /\ Ring.head = Ring.tail
  BY <1>0, <1>1, InsideRing DEF PopNothing, InsidePcs
<1>3. CallingAt(p) /\ CallingAt(p)' /\ item[p] = NoHandle
  BY <1>1, <1>2, RingAssumption DEF QueueInv, Calling, CallingAt, Before
<1>4. Calling' /\ Filled' /\ Used' = Used
  BY <1>1, <1>3, SameSlots
<1>5. CallOf(p) = <<"pop", NoHandle>> /\ CallOf(p)' = <<"empty", NoHandle>>
  BY <1>1, <1>2, <1>3, RingAssumption DEF CallOf
<1>6. Queue!Turn(p, <<"pop", NoHandle>>, <<"empty", NoHandle>>)
  BY <1>1, <1>5, Turns
<1>7. Used = <<>>
  <2>1. ~Advancing
    BY <1>0, <1>1, InsideRing DEF InsidePcs
  <2>2. From = Ring.tail /\ Ring \in Rings /\ Ring.head \in Index /\ Ring.tail \in Index
    BY <1>0, <2>1, RingIsWhole DEF From, Rings
  <2>3. /\ Len(Used) = (Ring.head + Capacity - Ring.tail) % Capacity
        /\ Used \in Seq(Handles \cup {NoHandle})
    BY <2>2, UsedIsSlice, SliceSeq
  <2> QED
    BY <1>2, <2>2, <2>3, Count
<1>8. Queue!Nothing(p)
  BY <1>4, <1>6, <1>7 DEF Queue!Nothing
<1> QED
  BY <1>4, <1>8 DEF Served, Queue!QueueNext

\* What the step of a thread that stores does to the slots in use.
LEMMA UsedAfter ==
    ASSUME RingInv, NEW p \in Procs, pc[p] \in InsidePcs, NEW r \in Rings,
           Store(p, r), UNCHANGED <<place, mover, to>>, Others(p)
    PROVE  Used' = Slice(r, IF pc'[p] = "advance" THEN Next1(r.tail) ELSE r.tail)
<1>1. Ring' = r /\ (Advancing' <=> pc'[p] = "advance")
  BY InsideStores
<1>2. Used' = Slice(Ring', From')
  BY UsedIsSlice DEF Used, Slice, From, Advancing
<1> QED
  BY <1>1, <1>2 DEF From

LEMMA UsedBefore ==
    ASSUME RingInv, NEW p \in Procs, pc[p] \in InsidePcs
    PROVE  /\ At(p) \in Rings /\ Ring = At(p)
           /\ Used = Slice(At(p), IF pc[p] = "advance" THEN Next1(At(p).tail) ELSE At(p).tail)
           /\ At(p).head \in Index /\ At(p).tail \in Index
  BY InsideRing, RingIsWhole, UsedIsSlice DEF From, Rings

\* The slot is written before the head passes it: nobody can see it yet.
LEMMA ServedSlot ==
    ASSUME QueueInv, NEW p \in Procs, PushSlot(p)
    PROVE  Served
<1>0. pc \in [Procs -> Pcs] /\ RingInv /\ item[p] \in Handles \cup {NoHandle}
  BY DEF QueueInv, RingInv, TypeOK
<1>1. /\ Others(p) /\ pc[p] = "enter" /\ pc'[p] = "store" /\ op' = op /\ item' = item
      /\ op[p] = "push" /\ Next1(At(p).head) # At(p).tail /\ pc[p] \in InsidePcs
      /\ UNCHANGED <<place, mover, to>>
  BY <1>0 DEF PushSlot, Goto, Others, mine, arena, InsidePcs
<1>2. PICK r : r = At(p)
  OBVIOUS
<1>3. r \in Rings /\ Ring = r /\ Used = Slice(r, r.tail) /\ r.head \in Index /\ r.tail \in Index
  BY <1>0, <1>1, <1>2, UsedBefore
<1>4. PICK s : s = [r EXCEPT !.slots[r.head] = item[p]]
  OBVIOUS
<1>5. s \in Rings /\ s.head = r.head /\ s.tail = r.tail /\ s.slots[s.head] = item[p]
  BY <1>0, <1>3, <1>4 DEF Rings
<1>6. Store(p, s)
  BY <1>2, <1>4 DEF PushSlot
<1>7. Ring' = s /\ Used' = Slice(s, s.tail)
  BY <1>0, <1>1, <1>5, <1>6, UsedAfter, InsideStores
<1>8. Used' = Used
  <2>1. Slice([r EXCEPT !.slots[r.head] = item[p]], r.tail) = Slice(r, r.tail)
    BY <1>0, <1>3, SlicePush
  <2> QED
    BY <1>3, <1>4, <1>5, <1>7, <2>1
<1>9. CallingAt(p)'
  BY <1>1, <1>2, <1>5, <1>7 DEF QueueInv, Calling, CallingAt, Before
<1>10. Calling'
  BY <1>1, <1>9, CallingMoves
<1>11. CallOf(p)' = CallOf(p)
  BY <1>1 DEF CallOf
<1> QED
  BY <1>1, <1>8, <1>10, <1>11, Stutters DEF Served, QueueInv, Filled

\* With the head the handle is in the queue.
LEMMA ServedHead ==
    ASSUME QueueInv, NEW p \in Procs, PushHead(p)
    PROVE  Served
<1>0. pc \in [Procs -> Pcs] /\ item \in [Procs -> Handles \cup {NoHandle}] /\ RingInv
  BY DEF QueueInv, RingInv, TypeOK
<1>1. /\ Others(p) /\ pc[p] = "store" /\ pc'[p] = "unlock" /\ op' = op /\ item'[p] = NoHandle
      /\ pc[p] \in InsidePcs /\ UNCHANGED <<place, mover, to>>
  BY <1>0 DEF PushHead, Goto, Others, arena, InsidePcs
<1>2. PICK r : r = At(p)
  OBVIOUS
<1>3. r \in Rings /\ Ring = r /\ Used = Slice(r, r.tail) /\ r.head \in Index /\ r.tail \in Index
  BY <1>0, <1>1, <1>2, UsedBefore
<1>4. PICK h \in Handles : h = item[p]
  BY <1>1 DEF QueueInv, Calling, CallingAt, Before
<1>5. op[p] = "push" /\ Next1(r.head) # r.tail /\ r.slots[r.head] = h
  BY <1>1, <1>3, <1>4 DEF QueueInv, Calling, CallingAt
<1>6. PICK s : s = [r EXCEPT !.head = Next1(@)]
  OBVIOUS
<1>7. s \in Rings /\ s.tail = r.tail
  BY <1>3, <1>6, Next1InIndex DEF Rings
<1>8. Store(p, s)
  BY <1>2, <1>6 DEF PushHead
<1>9. Used' = Slice(s, s.tail)
  BY <1>0, <1>1, <1>7, <1>8, UsedAfter
<1>10. Used' = Append(Used, h)
  BY <1>3, <1>5, <1>6, <1>7, <1>9, SlicePush
<1>11. Calling'
  <2>1. CallingAt(p)'
    BY <1>1, <1>5 DEF CallingAt, Before
  <2> QED
    BY <1>1, <2>1, CallingMoves
<1>12. Filled'
  BY <1>10 DEF QueueInv, Filled
<1>13. CallOf(p) = <<"push", h>> /\ CallOf(p)' = <<"pushed", NoHandle>>
  BY <1>1, <1>4, <1>5 DEF CallOf
<1>14. Queue!Turn(p, <<"push", h>>, <<"pushed", NoHandle>>)
  BY <1>1, <1>13, Turns
<1>15. Len(Used) < Capacity - 1
  BY <1>3, <1>5, SliceSeq, Count, RingAssumption
<1>16. Queue!Put(p, h)
  BY <1>10, <1>14, <1>15 DEF Queue!Put
<1> QED
  BY <1>11, <1>12, <1>16 DEF Served, Queue!QueueNext

\* The oldest handle leaves the queue with its slot: an answer, or stale and dropped.
LEMMA ServedPop ==
    ASSUME QueueInv, NEW p \in Procs, PopSlot(p)
    PROVE  Served
<1>0. pc \in [Procs -> Pcs] /\ item \in [Procs -> Handles \cup {NoHandle}] /\ RingInv
  BY DEF QueueInv, RingInv, TypeOK
<1>1. /\ Others(p) /\ pc[p] = "enter" /\ pc'[p] = "advance" /\ op' = op /\ op[p] = "pop"
      /\ item'[p] = At(p).slots[At(p).tail] /\ At(p).tail # At(p).head
      /\ pc[p] \in InsidePcs /\ UNCHANGED <<place, mover, to>>
  BY <1>0 DEF PopSlot, Goto, Others, arena, InsidePcs
<1>2. PICK r : r = At(p)
  OBVIOUS
<1>3. r \in Rings /\ Ring = r /\ Used = Slice(r, r.tail) /\ r.head \in Index /\ r.tail \in Index
  BY <1>0, <1>1, <1>2, UsedBefore
<1>4. Used # <<>> /\ Used \in Seq(Handles) /\ Head(Used) = r.slots[r.tail]
  BY <1>1, <1>2, <1>3, SlicePop DEF QueueInv, Filled
<1>5. PICK h \in Handles : h = item'[p] /\ h = Head(Used)
  BY <1>1, <1>2, <1>4
<1>6. PICK s : s = [r EXCEPT !.slots[r.tail] = NoHandle]
  OBVIOUS
<1>7. s \in Rings /\ s.tail = r.tail /\ s.head = r.head
  BY <1>3, <1>6 DEF Rings
<1>8. Store(p, s)
  BY <1>2, <1>6 DEF PopSlot
<1>9. Ring' = s /\ Used' = Slice(s, Next1(s.tail))
  BY <1>0, <1>1, <1>7, <1>8, UsedAfter, InsideStores
<1>10. Used' = Tail(Used)
  BY <1>1, <1>2, <1>3, <1>6, <1>7, <1>9, SlicePop
<1>11. Calling'
  <2>1. CallingAt(p)'
    BY <1>1, <1>2, <1>5, <1>7, <1>9 DEF CallingAt, Before
  <2> QED
    BY <1>1, <2>1, CallingMoves
<1>12. Filled'
  BY <1>4, <1>10 DEF Filled
<1>13. CallOf(p) = <<"pop", NoHandle>>
  BY <1>1 DEF CallOf
<1>14. CASE h \in StaleHandles
  <2>1. CallOf(p)' = CallOf(p)
    BY <1>1, <1>5, <1>13, <1>14 DEF CallOf
  <2>2. calls' = calls
    BY <1>1, <2>1, CallsMove DEF calls
  <2>3. Queue!DropOldest
    BY <1>4, <1>5, <1>10, <1>14, <2>2 DEF Queue!DropOldest, calls
  <2> QED
    BY <1>11, <1>12, <2>3 DEF Served, Queue!QueueNext
<1>15. CASE h \notin StaleHandles
  <2>1. CallOf(p)' = <<"popped", h>>
    BY <1>1, <1>5, <1>15, RingAssumption DEF CallOf
  <2>2. Queue!Turn(p, <<"pop", NoHandle>>, <<"popped", h>>)
    BY <1>1, <1>13, <2>1, Turns
  <2>3. Queue!Get(p)
    BY <1>4, <1>5, <1>10, <1>15, <2>2 DEF Queue!Get
  <2> QED
    BY <1>11, <1>12, <2>3 DEF Served, Queue!QueueNext
<1> QED
  BY <1>14, <1>15

\* The tail follows: the slot was out of the queue already.
LEMMA ServedTail ==
    ASSUME QueueInv, NEW p \in Procs, PopTail(p)
    PROVE  Served
<1>0. pc \in [Procs -> Pcs] /\ item \in [Procs -> Handles \cup {NoHandle}] /\ RingInv
  BY DEF QueueInv, RingInv, TypeOK
<1>1. /\ Others(p) /\ pc[p] = "advance" /\ op' = op
      /\ \/ item[p] \in StaleHandles /\ item'[p] = NoHandle /\ pc'[p] = "enter"
         \/ item[p] \notin StaleHandles /\ item' = item /\ pc'[p] = "unlock"
      /\ pc[p] \in InsidePcs /\ UNCHANGED <<place, mover, to>>
  BY <1>0 DEF PopTail, Goto, Others, arena, InsidePcs
<1>2. PICK r : r = At(p)
  OBVIOUS
<1>3. r \in Rings /\ Used = Slice(r, Next1(r.tail)) /\ r.tail \in Index
  BY <1>0, <1>1, <1>2, UsedBefore
<1>4. op[p] = "pop" /\ item[p] \in Handles
  BY <1>1 DEF QueueInv, Calling, CallingAt
<1>5. PICK s : s = [r EXCEPT !.tail = Next1(@)]
  OBVIOUS
<1>6. s \in Rings /\ s.tail = Next1(r.tail) /\ s.head = r.head /\ s.slots = r.slots
  BY <1>3, <1>5, Next1InIndex DEF Rings
<1>7. Store(p, s)
  BY <1>2, <1>5 DEF PopTail
<1>8. Used' = Slice(s, s.tail)
  BY <1>0, <1>1, <1>6, <1>7, UsedAfter
<1>9. Used' = Used
  BY <1>3, <1>6, <1>8 DEF Slice
<1>10. Calling'
  <2>1. CallingAt(p)'
    BY <1>1, <1>4 DEF CallingAt, Before
  <2> QED
    BY <1>1, <2>1, CallingMoves
<1>11. CallOf(p)' = CallOf(p)
  BY <1>1, <1>4, RingAssumption DEF CallOf
<1> QED
  BY <1>1, <1>9, <1>10, <1>11, Stutters DEF Served, QueueInv, Filled

LEMMA ServedUnlock ==
    ASSUME QueueInv, NEW p \in Procs, Unlock(p)
    PROVE  Served
<1>0. pc \in [Procs -> Pcs] /\ RingInv
  BY DEF QueueInv, RingInv, TypeOK
<1>1. /\ Others(p) /\ pc[p] = "unlock" /\ pc'[p] = "leave" /\ op' = op /\ item' = item
      /\ pc[p] \in InsidePcs /\ UNCHANGED <<place, mover, to>>
  BY <1>0 DEF Unlock, Goto, Others, mine, arena, InsidePcs
<1>2. PICK s : s = [At(p) EXCEPT !.lock = 0]
  OBVIOUS
<1>3. At(p) \in Rings /\ Ring = At(p)
  BY <1>0, <1>1, UsedBefore
<1>4. s \in Rings /\ s.head = Ring.head /\ s.tail = Ring.tail /\ s.slots = Ring.slots
  BY <1>2, <1>3 DEF Rings
<1>5. Store(p, s)
  BY <1>2 DEF Unlock
<1>6. Ring'.head = Ring.head /\ Ring'.tail = Ring.tail /\ Ring'.slots = Ring.slots
  BY <1>0, <1>1, <1>4, <1>5, InsideStores
<1>7. CallingAt(p)'
  BY <1>1 DEF QueueInv, Calling, CallingAt, Before
<1>8. Calling' /\ Filled' /\ Used' = Used
  BY <1>1, <1>6, <1>7, SameSlots
<1>9. CallOf(p)' = CallOf(p)
  BY <1>1 DEF CallOf
<1> QED
  BY <1>1, <1>8, <1>9, Stutters DEF Served

LEMMA QueueStep ==
    ASSUME QueueInv, [Next]_vars
    PROVE  QueueInv' /\ [Queue!QueueNext]_(Queue!handles)
<1>1. RingInv'
  BY RingInvStep DEF QueueInv
<1>2. Served
  <2>1. ASSUME NEW p \in Procs, Start(p) \/ Acquire(p) PROVE Served
    BY <2>1, ServedStart, ServedAcquire
  <2>2. ASSUME NEW p \in Procs, Inside(p) PROVE Served
    BY <2>2, ServedFull, ServedSlot, ServedHead, ServedNothing, ServedPop, ServedTail,
       ServedUnlock, ServedLeave DEF Inside
  <2>3. CASE Compactor
    BY <2>3, ServedCompactor
  <2>4. CASE UNCHANGED vars
    <3>1. Ring' = Ring /\ pc' = pc /\ op' = op /\ item' = item
      BY <2>4 DEF vars, Ring
    <3>2. Used' = Used /\ calls' = calls
      BY <3>1 DEF Used, calls, CallOf
    <3>3. Calling' /\ Filled'
      BY <3>1, <3>2 DEF QueueInv, Calling, CallingAt, Filled
    <3> QED
      BY <3>2, <3>3 DEF Served, calls, Queue!handles
  <2> QED
    BY <2>1, <2>2, <2>3, <2>4 DEF Next
<1> QED
  BY <1>1, <1>2 DEF QueueInv, Served

LEMMA QueueStarts == Init => QueueInv /\ Queue!QueueInit
<1> SUFFICES ASSUME Init PROVE QueueInv /\ Queue!QueueInit
  OBVIOUS
<1>1. RingInv /\ Calling
  BY RingInvInit DEF Init, Calling, CallingAt, Before
<1>2. Ring \in Rings /\ Ring.head = 0 /\ Ring.tail = 0 /\ ~Advancing
  <2>1. ~Advancing
    BY DEF Init, Advancing
  <2>2. Ring.head = 0 /\ Ring.tail = 0
    BY RingAssumption DEF Init, Ring
  <2> QED
    BY <1>1, <2>1, <2>2, RingIsWhole
<1>3. Used = <<>>
  <2>1. From = Ring.tail /\ Ring.head \in Index /\ Ring.tail \in Index
    BY <1>2 DEF From, Rings
  <2>2. /\ Len(Used) = (Ring.head + Capacity - Ring.tail) % Capacity
        /\ Used \in Seq(Handles \cup {NoHandle})
    BY <1>2, <2>1, UsedIsSlice, SliceSeq
  <2> QED
    BY <1>2, <2>1, <2>2, Count
<1>4. Filled
  BY <1>3 DEF Filled
<1>5. \A p \in Procs : CallOf(p) = <<"idle", NoHandle>>
  BY DEF Init, CallOf
<1> QED
  BY <1>1, <1>3, <1>4, <1>5 DEF QueueInv, Queue!QueueInit, Queue!Idle

\* What the threads have in hand and what the slots hold, on top of who is inside: the
\* inductive invariant under which the ring is a queue.
THEOREM QueueTyping == Spec => []QueueInv
<1>1. Init => QueueInv
  BY QueueStarts
<1>2. QueueInv /\ [Next]_vars => QueueInv'
  BY QueueStep
<1> QED
  BY <1>1, <1>2, PTL DEF Spec

\* smp_ring_push and smp_ring_pop take effect at once: for any threads, handles, capacity and
\* places, every step of a thread or of the compactor is a step of the bounded FIFO or one
\* it does not see (S3).  Nothing is lost, repeated or reordered, full and empty are only
\* answered when true, and no stale handle is handed out.
THEOREM RingIsQueue == Spec => ImplementsQueue
<1>1. Init => Queue!QueueInit
  BY QueueStarts
<1>2. QueueInv /\ [Next]_vars => [Queue!QueueNext]_(Queue!handles)
  BY QueueStep
<1> QED
  BY <1>1, <1>2, QueueTyping, PTL DEF Spec, ImplementsQueue, Queue!QueueSpec

\* Of what the run checks as one property, the queue is settled here for every instance:
\* what is left to TLC is that somebody gets through.
THEOREM RingServes == Spec => (QueueServed <=> RingProgress)
  BY RingIsQueue, PTL DEF QueueServed
=============================================================================
