------------------------------ MODULE ReadyRing ------------------------------
(***************************************************************************)
(* The ready-ring as the cell it is: a record of lock word, head, tail and *)
(* slots that lies in the arena and is moved by the compactor while the    *)
(* carriers push and pop.  Translated from the ring of                     *)
(* tests/host/smp_sched.c and from the claims and the slide of one cell in *)
(* tests/host/smp_arena.c.  SmpSched uses the ring as a sequence with      *)
(* one-step operations; this module is why it may.                         *)
(***************************************************************************)
EXTENDS Naturals, Sequences, FiniteSets

CONSTANTS
    Procs,         \* the threads that push and pop
    Handles,       \* the handles they push
    StaleHandles,  \* those of them whose slot was freed
    Capacity,      \* the capacity word of the cell
    Places,        \* the highest place of the cell; it slides down to lower ones
    NoHandle,      \* RXF_SMP_HANDLE_NONE
    Junk           \* a vacated place: other cells slid over it, or it was poisoned

Index == 0..(Capacity - 1)
Rings == [lock : {0, 1}, head : Index, tail : Index, slots : [Index -> Handles \cup {NoHandle}]]

ASSUME RingAssumption ==
    /\ IsFiniteSet(Procs)
    /\ StaleHandles \subseteq Handles
    /\ NoHandle \notin Handles
    /\ Capacity \in Nat \ {0, 1}
    /\ Places \in Nat \ {0}
    /\ Junk \notin Rings

VARIABLES
    mem,    \* what lies at each place: a ring record or Junk
    place,  \* the offset word of the ring's slot
    claim,  \* the count of its claim word
    moving, \* its CLAIM_MOVING bit
    pc, op, item, addr,  \* of each thread: where it is, its call, its handle, its address
    mover, to            \* the compactor, and where it slides the cell

vars == <<mem, place, claim, moving, pc, op, item, addr, mover, to>>

InsidePcs == {"enter", "store", "advance", "unlock"}
AddressPcs == {"lock", "release"} \cup InsidePcs \cup {"leave"}
Pcs == {"idle", "claim", "look"} \cup AddressPcs
MoverPcs == {"rest", "copy", "publish", "open"}

TypeOK ==
    /\ mem \in [1..Places -> Rings \cup {Junk}]
    /\ place \in 1..Places
    /\ claim \in 0..Cardinality(Procs) /\ moving \in BOOLEAN
    /\ pc \in [Procs -> Pcs]
    /\ op \in [Procs -> {"push", "pop"}]
    /\ item \in [Procs -> Handles \cup {NoHandle}]
    /\ addr \in [Procs -> 0..Places]
    /\ mover \in MoverPcs
    /\ to \in 0..Places

Init ==
    /\ mem = [i \in 1..Places |->
                 IF i = Places
                 THEN [lock |-> 0, head |-> 0, tail |-> 0, slots |-> [s \in Index |-> NoHandle]]
                 ELSE Junk]
    /\ place = Places
    /\ claim = 0 /\ moving = FALSE
    /\ pc = [p \in Procs |-> "idle"]
    /\ op = [p \in Procs |-> "pop"]
    /\ item = [p \in Procs |-> NoHandle]
    /\ addr = [p \in Procs |-> 0]
    /\ mover = "rest" /\ to = 0

Goto(p, l) == pc' = [pc EXCEPT ![p] = l]

Next1(i) == IF i + 1 >= Capacity THEN 0 ELSE i + 1

\* The ring as the thread sees it through its address, and a store through it.
At(p) == mem[addr[p]]
Store(p, ring) == mem' = [mem EXCEPT ![addr[p]] = ring]

arena == <<place, claim, moving, mover, to>>
mine == <<op, item, addr>>

-----------------------------------------------------------------------------
(* ring_lock *)

StartPush(p) == /\ pc[p] = "idle"
                /\ op' = [op EXCEPT ![p] = "push"]
                /\ \E h \in Handles : item' = [item EXCEPT ![p] = h]
                /\ Goto(p, "claim")
                /\ UNCHANGED <<mem, arena, addr>>

StartPop(p) == /\ pc[p] = "idle"
               /\ op' = [op EXCEPT ![p] = "pop"]
               /\ item' = [item EXCEPT ![p] = NoHandle]
               /\ Goto(p, "claim")
               /\ UNCHANGED <<mem, arena, addr>>

\* rxf_smp_arena_resolve: refused (and tried again) while the compactor holds the cell.
Claim(p) == /\ pc[p] = "claim" /\ ~moving
            /\ claim' = claim + 1
            /\ Goto(p, "look")
            /\ UNCHANGED <<mem, place, moving, mover, to, mine>>

Look(p) == /\ pc[p] = "look"
           /\ addr' = [addr EXCEPT ![p] = place]
           /\ Goto(p, "lock")
           /\ UNCHANGED <<mem, arena, op, item>>

Lock(p) == /\ pc[p] = "lock" /\ At(p).lock = 0
           /\ Store(p, [At(p) EXCEPT !.lock = 1])
           /\ Goto(p, "enter")
           /\ UNCHANGED <<arena, mine>>

LockTaken(p) == /\ pc[p] = "lock" /\ At(p).lock = 1
                /\ Goto(p, "release")
                /\ UNCHANGED <<mem, arena, mine>>

\* A claim is never kept while the lock is waited for.
Release(p) == /\ pc[p] = "release"
              /\ claim' = claim - 1
              /\ Goto(p, "claim")
              /\ UNCHANGED <<mem, place, moving, mover, to, mine>>

-----------------------------------------------------------------------------
(* Inside the lock: smp_ring_push, smp_ring_pop *)

PushFull(p) == /\ pc[p] = "enter" /\ op[p] = "push"
               /\ Next1(At(p).head) = At(p).tail
               /\ Goto(p, "unlock")
               /\ UNCHANGED <<mem, arena, mine>>

\* Mutant: the slot after the head.
PushSlotPastHead(p) == /\ pc[p] = "enter" /\ op[p] = "push"
                       /\ Next1(At(p).head) # At(p).tail
                       /\ Store(p, [At(p) EXCEPT !.slots[Next1(At(p).head)] = item[p]])
                       /\ Goto(p, "store")
                       /\ UNCHANGED <<arena, mine>>

PushSlot(p) == /\ pc[p] = "enter" /\ op[p] = "push"
               /\ Next1(At(p).head) # At(p).tail
               /\ Store(p, [At(p) EXCEPT !.slots[At(p).head] = item[p]])
               /\ Goto(p, "store")
               /\ UNCHANGED <<arena, mine>>

PushHead(p) == /\ pc[p] = "store"
               /\ Store(p, [At(p) EXCEPT !.head = Next1(@)])
               /\ item' = [item EXCEPT ![p] = NoHandle]
               /\ Goto(p, "unlock")
               /\ UNCHANGED <<arena, op, addr>>

PopNothing(p) == /\ pc[p] = "enter" /\ op[p] = "pop"
                 /\ At(p).tail = At(p).head
                 /\ Goto(p, "unlock")
                 /\ UNCHANGED <<mem, arena, mine>>

PopSlot(p) == /\ pc[p] = "enter" /\ op[p] = "pop"
              /\ At(p).tail # At(p).head
              /\ item' = [item EXCEPT ![p] = At(p).slots[At(p).tail]]
              /\ Store(p, [At(p) EXCEPT !.slots[At(p).tail] = NoHandle])
              /\ Goto(p, "advance")
              /\ UNCHANGED <<arena, op, addr>>

\* A live handle is the answer; a stale one is dropped and the pop goes on.
PopTail(p) == /\ pc[p] = "advance"
              /\ Store(p, [At(p) EXCEPT !.tail = Next1(@)])
              /\ IF item[p] \in StaleHandles
                 THEN item' = [item EXCEPT ![p] = NoHandle] /\ Goto(p, "enter")
                 ELSE UNCHANGED item /\ Goto(p, "unlock")
              /\ UNCHANGED <<arena, op, addr>>

Unlock(p) == /\ pc[p] = "unlock"
             /\ Store(p, [At(p) EXCEPT !.lock = 0])
             /\ Goto(p, "leave")
             /\ UNCHANGED <<arena, mine>>

Leave(p) == /\ pc[p] = "leave"
            /\ claim' = claim - 1
            /\ Goto(p, "idle")
            /\ UNCHANGED <<mem, place, moving, mover, to, mine>>

-----------------------------------------------------------------------------
(* rxf_smp_compact_move, for the cell of the ring *)

Threads == <<pc, mine>>

\* Mutant: the mover waits for the lock word and not for the claims.
GrabUnlocked == /\ mover = "rest" /\ mem[place].lock = 0 /\ place > 1
                /\ moving' = TRUE
                /\ \E q \in 1..(place - 1) : to' = q
                /\ mover' = "copy"
                /\ UNCHANGED <<mem, place, claim, Threads>>

\* claim_cell: the CAS from no claim at all to the moving bit; the cell then slides down.
Grab == /\ mover = "rest" /\ claim = 0 /\ place > 1
        /\ moving' = TRUE
        /\ \E q \in 1..(place - 1) : to' = q
        /\ mover' = "copy"
        /\ UNCHANGED <<mem, place, claim, Threads>>

\* The record is whole at its new place; the old one is anybody's from here on.
Copy == /\ mover = "copy"
        /\ mem' = [mem EXCEPT ![to] = mem[place], ![place] = Junk]
        /\ mover' = "publish"
        /\ UNCHANGED <<place, claim, moving, to, Threads>>

Publish == /\ mover = "publish"
           /\ place' = to
           /\ mover' = "open"
           /\ UNCHANGED <<mem, claim, moving, to, Threads>>

Open == /\ mover = "open"
        /\ moving' = FALSE
        /\ mover' = "rest" /\ to' = 0
        /\ UNCHANGED <<mem, place, claim, Threads>>

-----------------------------------------------------------------------------
Start(p) == StartPush(p) \/ StartPop(p)

Acquire(p) == Claim(p) \/ Look(p) \/ Lock(p) \/ LockTaken(p) \/ Release(p)

Inside(p) == \/ PushFull(p) \/ PushSlot(p) \/ PushHead(p)
             \/ PopNothing(p) \/ PopSlot(p) \/ PopTail(p)
             \/ Unlock(p) \/ Leave(p)

Compactor == Grab \/ Copy \/ Publish \/ Open

Next == \/ \E p \in Procs : Start(p) \/ Acquire(p) \/ Inside(p)
        \/ Compactor

Spec == Init /\ [][Next]_vars

\* The host schedules every thread; nothing makes a thread start another call, and nobody
\* keeps others off the claim word while the compactor waits for it.
FairSpec == /\ Spec
            /\ \A p \in Procs : WF_vars(Acquire(p) \/ Inside(p))
            /\ WF_vars(Compactor)

-----------------------------------------------------------------------------
(* Safety *)

Holders == {p \in Procs : pc[p] \in AddressPcs \cup {"look"}}

Insiders == {p \in Procs : pc[p] \in InsidePcs}

\* The lock keeps one thread inside across every move of the cell it lies in: the one lock
\* word is set exactly while one thread is inside, and that thread works on the current
\* copy while the compactor keeps off it (S3, S8).
OneInside ==
    /\ \A p, q \in Insiders : p = q
    /\ \A p \in Insiders : addr[p] = place /\ At(p).lock = 1
    /\ Insiders # {} => ~moving

\* An address is never older than the cell: whoever holds one sees the ring and not what
\* the slide left behind, and the compactor never moves the ring under a claim (S7).
AddressCurrent ==
    /\ \A p \in Procs : pc[p] \in AddressPcs => addr[p] = place /\ At(p) # Junk
    /\ moving => Holders = {}

\* The ring holds under its lock and its claim, wherever the compactor puts it.
RingHeld == TypeOK /\ OneInside /\ AddressCurrent

\* The ring in use: the copy, from the copy on.
Ring == mem[IF mover = "publish" THEN to ELSE place]

\* The places of the slots in use, oldest first; a pop that cleared its slot has left it.
Used == LET from == IF \E p \in Procs : pc[p] = "advance" THEN Next1(Ring.tail) ELSE Ring.tail
            n == (Ring.head + Capacity - from) % Capacity
        IN  [i \in 1..n |-> Ring.slots[(from + i - 1) % Capacity]]

\* What the caller of each thread knows.
CallOf(p) ==
    LET before == pc[p] \in {"claim", "look", "lock", "release", "enter", "store"}
    IN  IF pc[p] = "idle" THEN <<"idle", NoHandle>>
        ELSE IF op[p] = "push"
             THEN IF before THEN <<"push", item[p]>>
                  ELSE IF item[p] = NoHandle THEN <<"pushed", NoHandle>> ELSE <<"full", NoHandle>>
             ELSE IF before \/ item[p] \in StaleHandles THEN <<"pop", NoHandle>>
                  ELSE IF item[p] = NoHandle THEN <<"empty", NoHandle>> ELSE <<"popped", item[p]>>

Queue == INSTANCE HandleQueue WITH
    Room <- Capacity - 1,
    queue <- Used,
    call <- [p \in Procs |-> CallOf(p)]

\* Locks, slots and moves apart, the ring is a bounded FIFO whose operations take effect at
\* once: nothing is lost, repeated or reordered, full and empty are answered only when they
\* are true, and a stale handle is never handed out (S3).
ImplementsQueue == Queue!QueueSpec

(* Liveness *)

\* Somebody gets through: threads that want the ring never block each other for ever, nor
\* does the compactor block them.
RingProgress == (\E p \in Procs : pc[p] = "claim") ~> (\E p \in Procs : pc[p] = "leave")

\* The ring is a queue, and one its callers get through.
QueueServed == ImplementsQueue /\ RingProgress

\* What S4 and claim_cell say of the compactor: its wait for the cell is bounded by the step
\* of whoever holds it.
CompactorGetsIn == (mover = "rest" /\ claim # 0) ~> (claim = 0 \/ place = 1)
=============================================================================
