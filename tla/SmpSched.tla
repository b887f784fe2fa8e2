------------------------------ MODULE SmpSched ------------------------------
(***************************************************************************)
(* The dispatcher of the SMP execution policy: the run-cell state machine, *)
(* the ready-ring, the wake and the park, run by N carriers, with the edge *)
(* shim's doorbell.  Translated from tests/host/smp_sched.c and, for the   *)
(* edge shim, the watchdog and the start and stop of a world, from         *)
(* tests/host/smp_witness.c and tests/host/smp_asyncio.c.                  *)
(*                                                                         *)
(* Every atomic operation of the C code on a shared word (one CAS, one     *)
(* exchange, one store, one critical section of the ring lock or of the    *)
(* edge mutex) is one action, so two processes interleave exactly where    *)
(* the machine lets them.  The plain words of a run cell are written only  *)
(* by its owner; the actions fold them into the next atomic operation of   *)
(* that owner.  The ring is a sequence here: ReadyRing is the cell of      *)
(* slots, lock, head and tail, and refines the queue this module uses.     *)
(***************************************************************************)
EXTENDS Naturals, Sequences, FiniteSets

CONSTANTS
    Runs,        \* the run cells of the world
    Carriers,    \* the carrier threads: smp_dispatch_loop
    Edges,       \* edge threads that wake parked runs (watchdog_main)
    Main,        \* the thread that starts and stops the world
    Watched,     \* the runs an edge thread wakes (kinds WORKER and MPVM)
    WakeOf,      \* WakeOf[r]: the runs the program of r may wake
    SpawnOf,     \* SpawnOf[r]: the runs the program of r may start (aio_spawn)
    Parkers,     \* the runs whose program may park
    InitRing,    \* the ring when the carriers start
    Capacity,    \* the capacity word of the ring cell
    ForceCross,  \* the proof knob force_cross_resume
    Stale,       \* a handle whose slot was freed
    NoRun, NoCarrier

Procs == Carriers \cup Edges \cup {Main}
Enqueued == {InitRing[i] : i \in 1..Len(InitRing)} \cap Runs

ASSUME SchedAssumption ==
    /\ IsFiniteSet(Runs)
    /\ NoRun \notin Runs /\ Stale \notin Runs /\ NoRun # Stale
    /\ NoCarrier \notin Procs
    /\ Carriers # {}
    /\ Carriers \cap Edges = {} /\ Main \notin Carriers \cup Edges
    /\ Watched \subseteq Runs /\ Parkers \subseteq Runs
    /\ WakeOf \in [Runs -> SUBSET Runs]
    /\ SpawnOf \in [Runs -> SUBSET Runs]
    /\ \A r \in Runs : r \notin WakeOf[r] \cup SpawnOf[r]
    /\ InitRing \in Seq(Runs \cup {Stale})
    /\ Capacity \in Nat
    /\ ForceCross \in BOOLEAN

VARIABLES
    state,        \* the state word of each run cell
    token,        \* its wake token
    dirty,        \* program words changed since the checksum was written
    parkCarrier,  \* who parked it last (only the knob reads it)
    deferred,     \* how often its resume was deferred (only the knob reads it)
    owed,         \* history: a wake was asked for since its last step began
    ring,         \* the handles of the ready-ring, oldest first
    torn,         \* checksum_fails is not zero
    work,         \* the edge shim's work predicate
    stop,         \* the world's stop word
    pc,           \* where each process is
    cur,          \* the run a carrier popped and works on
    tgt           \* the run a process is waking or starting

cells == <<state, token, dirty, parkCarrier, deferred, owed>>
vars == <<cells, ring, torn, work, stop, pc, cur, tgt>>

RunStates == {"FREE", "READY", "RUNNING", "PARKED", "TERMINAL"}

CarrierPcs == {"top", "pop", "popped", "check", "step", "sealAgain", "again",
               "sealDone", "done", "sealPark", "parkCas", "parkSwap",
               "selfWake", "wait", "asleep"}
WakePcs == {"token", "wakeCas", "wakePush", "refused", "retract"}
SharedPcs == {"idle", "push", "bell", "exit"}

TypeOK ==
    /\ state \in [Runs -> RunStates]
    /\ token \in [Runs -> {0, 1}]
    /\ dirty \in [Runs -> BOOLEAN]
    /\ parkCarrier \in [Runs -> Carriers \cup {NoCarrier}]
    /\ deferred \in [Runs -> 0..2]
    /\ owed \in [Runs -> BOOLEAN]
    /\ ring \in Seq(Runs \cup {Stale})
    /\ torn \in BOOLEAN /\ work \in BOOLEAN /\ stop \in BOOLEAN
    /\ pc \in [Procs -> CarrierPcs \cup WakePcs \cup SharedPcs]
    /\ cur \in [Procs -> Runs \cup {NoRun}]
    /\ tgt \in [Procs -> Runs \cup {NoRun}]

(***************************************************************************)
(* The start: the runs of the initial ring were taken FREE to READY and    *)
(* pushed (with the stale handle first) before the carriers exist.         *)
(***************************************************************************)
Init ==
    /\ state = [r \in Runs |-> IF r \in Enqueued THEN "READY" ELSE "FREE"]
    /\ token = [r \in Runs |-> 0]
    /\ dirty = [r \in Runs |-> FALSE]
    /\ parkCarrier = [r \in Runs |-> NoCarrier]
    /\ deferred = [r \in Runs |-> 0]
    /\ owed = [r \in Runs |-> FALSE]
    /\ ring = InitRing
    /\ torn = FALSE /\ work = TRUE /\ stop = FALSE
    /\ pc = [p \in Procs |-> IF p \in Carriers THEN "top" ELSE "idle"]
    /\ cur = [p \in Procs |-> NoRun]
    /\ tgt = [p \in Procs |-> NoRun]

-----------------------------------------------------------------------------
(* Control *)

Goto(p, l) == pc' = [pc EXCEPT ![p] = l]

\* A carrier is done with the run it popped.
Drop(c) == cur' = [cur EXCEPT ![c] = NoRun]

\* Where smp_wake or aio_spawn returns to, and where the world's stop leaves Main.
Back(p) == IF p \in Carriers THEN "step" ELSE IF p \in Edges THEN "idle" ELSE "exit"

Return(p) == /\ Goto(p, Back(p))
             /\ tgt' = [tgt EXCEPT ![p] = NoRun]

\* The run a process holds for a push: the one it wakes or starts, or the one it stepped.
Item(p) == IF tgt[p] # NoRun THEN tgt[p] ELSE cur[p]

\* A CAS that wins, and one whose loss changes nothing.
Cas(r, from, to) == /\ state[r] = from
                    /\ state' = [state EXCEPT ![r] = to]

TryCas(r, from, to) == state' = IF state[r] = from THEN [state EXCEPT ![r] = to] ELSE state

-----------------------------------------------------------------------------
(* The ready-ring: each operator is one critical section of the ring lock *)

Full == Len(ring) + 1 >= Capacity

RingPush(r) == /\ ~Full
               /\ ring' = Append(ring, r)

\* The places of the handles that are not stale.
Live == {i \in 1..Len(ring) : ring[i] # Stale}

\* Mutant: the youngest handle first.
RingPopYoungest(r) == \E i \in Live : /\ \A j \in Live : j <= i
                                      /\ r = ring[i]
                                      /\ ring' = SubSeq(ring, 1, i - 1)

\* The pop hands out the oldest live handle and drops the stale ones before it.
RingPop(r) == \E i \in Live : /\ \A j \in Live : i <= j
                              /\ r = ring[i]
                              /\ ring' = SubSeq(ring, i + 1, Len(ring))

-----------------------------------------------------------------------------
(* smp_dispatch_one: the pop *)

Stopped(c) == /\ pc[c] = "top" /\ stop
              /\ Goto(c, "exit")
              /\ UNCHANGED <<cells, ring, torn, work, stop, cur, tgt>>

NotStopped(c) == /\ pc[c] = "top" /\ ~stop
                 /\ Goto(c, "pop")
                 /\ UNCHANGED <<cells, ring, torn, work, stop, cur, tgt>>

PopEmpty(c) == /\ pc[c] = "pop" /\ Live = {}
               /\ ring' = <<>>
               /\ Goto(c, "wait")
               /\ UNCHANGED <<cells, torn, work, stop, cur, tgt>>

PopRun(c) == /\ pc[c] = "pop"
             /\ \E r \in Runs : RingPop(r) /\ cur' = [cur EXCEPT ![c] = r]
             /\ Goto(c, "popped")
             /\ UNCHANGED <<cells, torn, work, stop, tgt>>

\* edge_wait: one carrier claims the work, another sleeps until the doorbell.
ClaimWork(c) == /\ pc[c] = "wait" /\ work
                /\ work' = FALSE
                /\ Goto(c, "top")
                /\ UNCHANGED <<cells, ring, torn, stop, cur, tgt>>

Sleep(c) == /\ pc[c] = "wait" /\ ~work
            /\ Goto(c, "asleep")
            /\ UNCHANGED <<cells, ring, torn, work, stop, cur, tgt>>

\* The 2 ms of the timed wait are over.
Timeout(c) == /\ pc[c] = "asleep"
              /\ Goto(c, "top")
              /\ UNCHANGED <<cells, ring, torn, work, stop, cur, tgt>>

\* The carrier that parked the run steps aside, at most twice for one park.
StepsAside(c) == /\ ForceCross
                 /\ parkCarrier[cur[c]] = c
                 /\ deferred[cur[c]] < 2

\* Mutant: the deferral is not counted.
DeferUncounted(c) == /\ pc[c] = "popped" /\ StepsAside(c)
                     /\ Goto(c, "push")
                     /\ UNCHANGED <<cells, ring, torn, work, stop, cur, tgt>>

Defer(c) == /\ pc[c] = "popped" /\ StepsAside(c)
            /\ deferred' = [deferred EXCEPT ![cur[c]] = @ + 1]
            /\ Goto(c, "push")
            /\ UNCHANGED <<state, token, dirty, parkCarrier, owed, ring, torn, work, stop,
                           cur, tgt>>

Take(c) == /\ pc[c] = "popped" /\ ~StepsAside(c)
           /\ Cas(cur[c], "READY", "RUNNING")
           /\ owed' = [owed EXCEPT ![cur[c]] = FALSE]
           /\ Goto(c, "check")
           /\ UNCHANGED <<token, dirty, parkCarrier, deferred, ring, torn, work, stop, cur, tgt>>

\* Enqueued twice or already taken: nothing is stepped twice.
RefuseTake(c) == /\ pc[c] = "popped" /\ ~StepsAside(c)
                 /\ state[cur[c]] # "READY"
                 /\ Goto(c, "top") /\ Drop(c)
                 /\ UNCHANGED <<cells, ring, torn, work, stop, tgt>>

\* The checksum is compared at the step boundary; then the step writes program words.
CheckSum(c) == /\ pc[c] = "check"
               /\ torn' = (torn \/ dirty[cur[c]])
               /\ dirty' = [dirty EXCEPT ![cur[c]] = TRUE]
               /\ Goto(c, "step")
               /\ UNCHANGED <<state, token, parkCarrier, deferred, owed, ring, work, stop,
                              cur, tgt>>

-----------------------------------------------------------------------------
(* The step: the program wakes and starts other runs, then answers once *)

StepWake(c) == /\ pc[c] = "step"
               /\ \E t \in WakeOf[cur[c]] : tgt' = [tgt EXCEPT ![c] = t]
               /\ Goto(c, "token")
               /\ UNCHANGED <<cells, ring, torn, work, stop, cur>>

\* Mutant: a task that ended is started again.
StepSpawnAgain(c) == /\ pc[c] = "step"
                     /\ \E t \in SpawnOf[cur[c]] : /\ state[t] \in {"FREE", "TERMINAL"}
                                                   /\ state' = [state EXCEPT ![t] = "READY"]
                                                   /\ tgt' = [tgt EXCEPT ![c] = t]
                     /\ Goto(c, "push")
                     /\ UNCHANGED <<token, dirty, parkCarrier, deferred, owed, ring, torn,
                                    work, stop, cur>>

\* aio_spawn; a run that already started is refused and nothing changes.
StepSpawn(c) == /\ pc[c] = "step"
                /\ \E t \in SpawnOf[cur[c]] : /\ Cas(t, "FREE", "READY")
                                              /\ tgt' = [tgt EXCEPT ![c] = t]
                /\ Goto(c, "push")
                /\ UNCHANGED <<token, dirty, parkCarrier, deferred, owed, ring, torn, work,
                               stop, cur>>

StepAgain(c) == /\ pc[c] = "step"
                /\ Goto(c, "sealAgain")
                /\ UNCHANGED <<cells, ring, torn, work, stop, cur, tgt>>

StepDone(c) == /\ pc[c] = "step"
               /\ Goto(c, "sealDone")
               /\ UNCHANGED <<cells, ring, torn, work, stop, cur, tgt>>

\* Mutant: the park does not seal before it lets go.
StepParkUnsealed(c) ==
    LET r == cur[c] IN
    /\ pc[c] = "step" /\ r \in Parkers
    /\ token' = [token EXCEPT ![r] = 0]
    /\ Goto(c, IF token[r] = 1 THEN "sealAgain" ELSE "parkCas")
    /\ UNCHANGED <<state, dirty, parkCarrier, deferred, owed, ring, torn, work, stop, cur,
                   tgt>>

\* smp_park up to its first exchange: a token that is there is consumed and the run
\* does not sleep. Without the knob nothing reads parkCarrier and deferred.
StepPark(c) ==
    LET r == cur[c] IN
    /\ pc[c] = "step" /\ r \in Parkers
    /\ parkCarrier' = IF ForceCross THEN [parkCarrier EXCEPT ![r] = c] ELSE parkCarrier
    /\ deferred' = [deferred EXCEPT ![r] = 0]
    /\ token' = [token EXCEPT ![r] = 0]
    /\ Goto(c, IF token[r] = 1 THEN "sealAgain" ELSE "sealPark")
    /\ UNCHANGED <<state, dirty, owed, ring, torn, work, stop, cur, tgt>>

-----------------------------------------------------------------------------
(* run_seal, and the transition each seal comes before *)

Seal(c, from, to) == /\ pc[c] = from
                     /\ dirty' = [dirty EXCEPT ![cur[c]] = FALSE]
                     /\ Goto(c, to)
                     /\ UNCHANGED <<state, token, parkCarrier, deferred, owed, ring, torn,
                                    work, stop, cur, tgt>>

SealAgain(c) == Seal(c, "sealAgain", "again")
SealDone(c) == Seal(c, "sealDone", "done")
SealPark(c) == Seal(c, "sealPark", "parkCas")

Requeue(c) == /\ pc[c] = "again"
              /\ TryCas(cur[c], "RUNNING", "READY")
              /\ IF state[cur[c]] = "RUNNING"
                 THEN Goto(c, "push") /\ UNCHANGED cur
                 ELSE Goto(c, "top") /\ Drop(c)
              /\ UNCHANGED <<token, dirty, parkCarrier, deferred, owed, ring, torn, work, stop,
                             tgt>>

Finish(c) == /\ pc[c] = "done"
             /\ TryCas(cur[c], "RUNNING", "TERMINAL")
             /\ Goto(c, "top") /\ Drop(c)
             /\ UNCHANGED <<token, dirty, parkCarrier, deferred, owed, ring, torn, work, stop,
                            tgt>>

ParkCas(c) == /\ pc[c] = "parkCas"
              /\ TryCas(cur[c], "RUNNING", "PARKED")
              /\ IF state[cur[c]] = "RUNNING"
                 THEN Goto(c, "parkSwap") /\ UNCHANGED cur
                 ELSE Goto(c, "top") /\ Drop(c)
              /\ UNCHANGED <<token, dirty, parkCarrier, deferred, owed, ring, torn, work, stop,
                             tgt>>

\* The second exchange of smp_park: the run may be anybody's by now.
ParkSleeps(c) == /\ pc[c] = "parkSwap" /\ token[cur[c]] = 0
                 /\ Goto(c, "top") /\ Drop(c)
                 /\ UNCHANGED <<cells, ring, torn, work, stop, tgt>>

ParkWoken(c) == /\ pc[c] = "parkSwap" /\ token[cur[c]] = 1
                /\ token' = [token EXCEPT ![cur[c]] = 0]
                /\ Goto(c, "selfWake")
                /\ UNCHANGED <<state, dirty, parkCarrier, deferred, owed, ring, torn, work,
                               stop, cur, tgt>>

SelfWake(c) == /\ pc[c] = "selfWake"
               /\ Cas(cur[c], "PARKED", "READY")
               /\ Goto(c, "push")
               /\ UNCHANGED <<token, dirty, parkCarrier, deferred, owed, ring, torn, work,
                              stop, cur, tgt>>

WakerWon(c) == /\ pc[c] = "selfWake" /\ state[cur[c]] # "PARKED"
               /\ Goto(c, "top") /\ Drop(c)
               /\ UNCHANGED <<cells, ring, torn, work, stop, tgt>>

-----------------------------------------------------------------------------
(* The pushes that are retried until the ring takes them, and the doorbell *)

Push(p) == /\ pc[p] = "push"
           /\ RingPush(Item(p))
           /\ Goto(p, "bell")
           /\ UNCHANGED <<cells, torn, work, stop, cur, tgt>>

\* A full ring changes nothing and the pusher spins: neither loop reads the stop word.
PushRefused(p) == /\ pc[p] = "push" /\ Full
                  /\ UNCHANGED vars

\* edge_notify: the broadcast ends every wait, the work word the next one.
Bell(p) ==
    /\ pc[p] = "bell"
    /\ work' = TRUE
    /\ LET l == IF p \in Carriers /\ tgt[p] = NoRun THEN "top" ELSE Back(p)
       IN  pc' = [q \in Procs |-> IF q = p THEN l
                                  ELSE IF pc[q] = "asleep" THEN "top" ELSE pc[q]]
    /\ cur' = IF tgt[p] = NoRun THEN [cur EXCEPT ![p] = NoRun] ELSE cur
    /\ tgt' = [tgt EXCEPT ![p] = NoRun]
    /\ UNCHANGED <<cells, ring, torn, stop>>

-----------------------------------------------------------------------------
(* smp_wake *)

SetToken(p) == /\ pc[p] = "token"
               /\ token' = [token EXCEPT ![tgt[p]] = 1]
               /\ owed' = [owed EXCEPT ![tgt[p]] = TRUE]
               /\ Goto(p, "wakeCas")
               /\ UNCHANGED <<state, dirty, parkCarrier, deferred, ring, torn, work, stop, cur,
                              tgt>>

\* Mutant: the wake takes a run that still runs.
WakeCasAnyState(p) == /\ pc[p] = "wakeCas" /\ state[tgt[p]] # "TERMINAL"
                      /\ state' = [state EXCEPT ![tgt[p]] = "READY"]
                      /\ Goto(p, "wakePush")
                      /\ UNCHANGED <<token, dirty, parkCarrier, deferred, owed, ring, torn,
                                     work, stop, cur, tgt>>

WakeCas(p) == /\ pc[p] = "wakeCas"
              /\ Cas(tgt[p], "PARKED", "READY")
              /\ Goto(p, "wakePush")
              /\ UNCHANGED <<token, dirty, parkCarrier, deferred, owed, ring, torn, work, stop,
                             cur, tgt>>

NotParked(p) == /\ pc[p] = "wakeCas" /\ state[tgt[p]] # "PARKED"
                /\ Return(p)
                /\ UNCHANGED <<cells, ring, torn, work, stop, cur>>

WakePush(p) == /\ pc[p] = "wakePush"
               /\ RingPush(tgt[p])
               /\ Goto(p, "bell")
               /\ UNCHANGED <<cells, torn, work, stop, cur, tgt>>

RingRefuses(p) == /\ pc[p] = "wakePush" /\ Full
                  /\ Goto(p, "refused")
                  /\ UNCHANGED <<cells, ring, torn, work, stop, cur, tgt>>

TryAgain(p) == /\ pc[p] = "refused" /\ ~stop
               /\ Goto(p, "wakePush")
               /\ UNCHANGED <<cells, ring, torn, work, stop, cur, tgt>>

TakeBack(p) == /\ pc[p] = "refused" /\ stop
               /\ Goto(p, "retract")
               /\ UNCHANGED <<cells, ring, torn, work, stop, cur, tgt>>

Retract(p) == /\ pc[p] = "retract"
              /\ TryCas(tgt[p], "READY", "PARKED")
              /\ Return(p)
              /\ UNCHANGED <<token, dirty, parkCarrier, deferred, owed, ring, torn, work, stop,
                             cur>>

-----------------------------------------------------------------------------
(* The edge: the watchdog, and the main thread that ends the world *)

\* watchdog_main wakes a run it saw parked; the run may move on before the wake.
SeesParked(e, r) == /\ e \in Edges /\ pc[e] = "idle" /\ ~stop
                    /\ state[r] = "PARKED"
                    /\ tgt' = [tgt EXCEPT ![e] = r]
                    /\ Goto(e, "token")
                    /\ UNCHANGED <<cells, ring, torn, work, stop, cur>>

\* Mutant: the watchdog ends before the world stops.
EdgeEndsEarly(e) == /\ e \in Edges /\ pc[e] = "idle"
                    /\ Goto(e, "exit")
                    /\ UNCHANGED <<cells, ring, torn, work, stop, cur, tgt>>

EdgeEnds(e) == /\ e \in Edges /\ pc[e] = "idle" /\ stop
               /\ Goto(e, "exit")
               /\ UNCHANGED <<cells, ring, torn, work, stop, cur, tgt>>

\* The join is over (the main task or every run is terminal) or the deadline passed.
Stop == /\ pc[Main] = "idle"
        /\ stop' = TRUE
        /\ Goto(Main, "bell")
        /\ UNCHANGED <<cells, ring, torn, work, cur, tgt>>

-----------------------------------------------------------------------------
StepEnds(c) == StepAgain(c) \/ StepDone(c) \/ StepPark(c)

Wake(p) == \/ SetToken(p) \/ WakeCas(p) \/ NotParked(p) \/ WakePush(p)
           \/ RingRefuses(p) \/ TryAgain(p) \/ TakeBack(p) \/ Retract(p)

\* What a carrier does without a choice of the program.
Dispatch(c) == \/ Stopped(c) \/ NotStopped(c) \/ PopEmpty(c) \/ PopRun(c)
               \/ ClaimWork(c) \/ Sleep(c) \/ Timeout(c)
               \/ Defer(c) \/ Take(c) \/ RefuseTake(c) \/ CheckSum(c)
               \/ SealAgain(c) \/ SealDone(c) \/ SealPark(c)
               \/ Requeue(c) \/ Finish(c)
               \/ ParkCas(c) \/ ParkSleeps(c) \/ ParkWoken(c) \/ SelfWake(c) \/ WakerWon(c)

CarrierNext(c) == Dispatch(c) \/ StepEnds(c) \/ StepWake(c) \/ StepSpawn(c)

Shared(p) == Wake(p) \/ Push(p) \/ PushRefused(p) \/ Bell(p)

Terminated == /\ \A p \in Procs : pc[p] = "exit"
              /\ UNCHANGED vars

Next == \/ \E c \in Carriers : CarrierNext(c)
        \/ \E p \in Procs : Shared(p)
        \/ \E e \in Edges : EdgeEnds(e) \/ \E r \in Watched : SeesParked(e, r)
        \/ Stop
        \/ Terminated

Spec == Init /\ [][Next]_vars

(***************************************************************************)
(* Fairness: the host schedules every thread, the timed wait of the edge   *)
(* ends, and every step of a program ends (a step is one instruction or    *)
(* one safe-point interval).  The watchdog's loop comes to every run.      *)
(* Nothing makes a program wake or start another run, and nothing makes    *)
(* the world stop.                                                         *)
(***************************************************************************)
Fairness == /\ \A c \in Carriers : WF_vars(Dispatch(c)) /\ SF_vars(StepEnds(c))
            /\ \A p \in Procs : WF_vars(Shared(p))
            /\ \A e \in Edges : WF_vars(EdgeEnds(e))
            /\ \A e \in Edges, r \in Watched : SF_vars(SeesParked(e, r))

FairSpec == Spec /\ Fairness

-----------------------------------------------------------------------------
(* Who holds what *)

\* The processes and the places that will put r before a carrier.
RingPlaces(r) == {i \in 1..Len(ring) : ring[i] = r}

Holds(p, r) == \/ pc[p] = "popped" /\ cur[p] = r
               \/ pc[p] = "push" /\ Item(p) = r
               \/ pc[p] \in {"wakePush", "refused", "retract"} /\ tgt[p] = r

Holders(r) == {p \in Procs : Holds(p, r)}

OwnerPcs == {"check", "step", "sealAgain", "again", "sealDone", "done", "sealPark", "parkCas"}

\* A carrier owns the program words of the run it steps, also while its step wakes another.
Owns(c, r) == cur[c] = r /\ (pc[c] \in OwnerPcs \/ tgt[c] # NoRun)

Owners(r) == {c \in Carriers : Owns(c, r)}

NoDuplicates(q) == \A i, j \in 1..Len(q) : q[i] = q[j] /\ q[i] # Stale => i = j

-----------------------------------------------------------------------------
(* Safety *)

\* A run is stepped by one carrier at a time, whatever the ring gave away: it is RUNNING
\* exactly while one carrier is between its take and its handoff (S5, smp_dispatch_one).
SingleOwner ==
    \A r \in Runs : /\ (state[r] = "RUNNING") <=> (Owners(r) # {})
                    /\ \A c, d \in Owners(r) : c = d

\* No carrier ever finds a run cell whose last owner was still closing its step: every
\* transition that lets go of a run comes after the seal (S5, run_seal and smp_park).
WholeAtHandoff == /\ ~torn
                  /\ \A r \in Runs : state[r] # "RUNNING" => ~dirty[r]

\* A READY run is in the ring once or in the hands of exactly one process that will push
\* or take it, and no other run is: it is never enqueued twice and never dropped (S3).
OneTicket ==
    \A r \in Runs :
        /\ \A i, j \in RingPlaces(r) : i = j
        /\ \A p, q \in Holders(r) : p = q
        /\ RingPlaces(r) = {} \/ Holders(r) = {}
        /\ (state[r] = "READY") <=> (RingPlaces(r) # {} \/ Holders(r) # {})

\* A run sleeps on a token only while somebody is about to act on it: the waker before its
\* CAS or a parker before its second exchange (S4).
TokenNeverStrands ==
    \A r \in Runs :
        state[r] = "PARKED" /\ token[r] = 1 /\ ~stop =>
            \/ \E p \in Procs : pc[p] = "wakeCas" /\ tgt[p] = r
            \/ \E c \in Carriers : pc[c] = "parkSwap" /\ cur[c] = r

\* The carriers are never all asleep on a ring that holds a run unless the doorbell of that
\* run is about to ring: the work word and the broadcast alone are enough, the timed wait
\* of edge_wait is not what finds the work (S9).
DoorbellHeard ==
    (Live # {} /\ \A c \in Carriers : pc[c] = "asleep") => \E p \in Procs : pc[p] = "bell"

\* A run belongs to one: one carrier while it runs, one place in the ring or one hand
\* while it is READY (S3, S5).
RunsHeld == TypeOK /\ SingleOwner /\ OneTicket

\* Nothing is lost between two carriers: the step is sealed when the run changes hands,
\* its token is acted on, the doorbell of its push is heard (S4, S5, S9).
HandedOver == WholeAtHandoff /\ TokenNeverStrands /\ DoorbellHeard

\* What smp_sched.h promises of the token protocol: a wake asked for since the run's last
\* step began never leaves it asleep with nobody on the way to it.
NoLostWake ==
    \A r \in Runs :
        state[r] = "PARKED" /\ owed[r] /\ ~stop =>
            \/ \E p \in Procs : pc[p] = "wakeCas" /\ tgt[p] = r
            \/ \E c \in Carriers : /\ cur[c] = r
                                   /\ pc[c] = "selfWake" \/ (pc[c] = "parkSwap" /\ token[r] = 1)

(* Action properties *)

Transitions == {<<"FREE", "READY">>, <<"READY", "RUNNING">>, <<"RUNNING", "PARKED">>,
                <<"RUNNING", "READY">>, <<"RUNNING", "TERMINAL">>, <<"PARKED", "READY">>,
                <<"READY", "PARKED">>}

\* The table of S1 is the only authority: no process makes another transition, and a run
\* that is in the ring is never taken back by a waker.
StateTable ==
    [][\A r \in Runs : state'[r] # state[r] =>
           /\ <<state[r], state'[r]>> \in Transitions
           /\ state[r] = "READY" => RingPlaces(r) = {}]_vars

(* The policy this dispatcher implements *)

\* READY splits into the ring and the hand that holds the run.
Policy == INSTANCE RunPolicy WITH
    phase <- [r \in Runs |-> IF state[r] # "READY" THEN state[r]
                             ELSE IF RingPlaces(r) # {} THEN "queued" ELSE "hand"],
    queue <- ring

\* Every step of every thread is a step of the policy or changes nothing it can see: the
\* one FIFO queue, one hand per READY run, the state table (S1, S3, S4).
ImplementsPolicy == Policy!PolicySpec

\* The table and the queue: what a run's state and its place do, step for step.
KeepsPolicy == StateTable /\ ImplementsPolicy

(* Liveness *)

\* A run that is READY is stepped, unless the world stops: progress depends neither on the
\* knob nor on the doorbell (S3, S4).
ReadyRuns == \A r \in Runs : (state[r] = "READY") ~> (state[r] = "RUNNING" \/ stop)

\* A token on a parked run wakes it.
TokenWakes ==
    \A r \in Runs : (state[r] = "PARKED" /\ token[r] = 1) ~> (state[r] # "PARKED" \/ stop)

\* The watchdog gets every parked run it watches going again, whatever became of its wakes.
WatchdogRepairs ==
    \A r \in Watched : (state[r] = "PARKED") ~> (state[r] # "PARKED" \/ stop)

\* Once the world stops every thread of it ends, so the joins of wit_go and aio_run return.
StopEndsAll == stop ~> (\A p \in Procs : pc[p] = "exit")

\* What the carriers owe the world under a fair host.
Progress == ReadyRuns /\ TokenWakes /\ StopEndsAll
=============================================================================
