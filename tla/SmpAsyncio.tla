----------------------------- MODULE SmpAsyncio -----------------------------
(***************************************************************************)
(* The asynchronous tasks of the SMP policy: a task is a run cell, an      *)
(* await is a park, the end of a task, an event and the edge timer are     *)
(* wakes, a cancel is a raise deposit and a wake, and the edge moves the   *)
(* virtual clock when its scan finds the world quiescent.  Translated from *)
(* tests/host/smp_asyncio.c, with smp_park and smp_wake of smp_sched.c and *)
(* the raise slot of smp_mpmodel.c.                                        *)
(*                                                                         *)
(* The ready-ring and the take are what SmpSched shows of them: a READY    *)
(* run waits for any one carrier.  The word of a run that several threads  *)
(* touch are its state, its token and its raise slot; each access is one   *)
(* action, and so is each critical section of the loop lock.               *)
(***************************************************************************)
EXTENDS Naturals, Sequences, FiniteSets, SequencesExt

CONSTANTS
    N,          \* how many tasks; task 1 is the main task
    Events,
    Carriers,
    Edge,       \* the thread of aio_run: it scans, fires the timer and ends the world
    Programs,   \* the programs: for each task a sequence of <<op, argument>>
    Timer,      \* what a sleeping task is registered on
    None        \* no task, or registered on nothing

Tasks == 1..N
Main == 1
Objects == Tasks \cup Events
Procs == Carriers \cup {Edge}

ASSUME AsyncioAssumption ==
    /\ N \in Nat \ {0}
    /\ Edge \notin Carriers
    /\ Timer \notin Objects /\ None \notin Objects \cup {Timer}
    /\ Tasks \cap Events = {}
    /\ \A p \in Programs : p \in [Tasks -> Seq(({"sleep"} \X Nat) \cup ({"wait", "set", "clear"} \X Events)
                                               \cup ({"spawn", "join", "cancel"} \X Tasks))]

VARIABLES
    program,
    state, token, raise,   \* the shared words of each run cell
    at, resumed,           \* its program words: the op it is at, and that this op parked
    done, cancelled,       \* the end of each task
    blocked,               \* what each task is registered on
    waiters,               \* who is registered on each task and event, in arrival order
    evSet,                 \* the events that are set
    timers, due,           \* the tasks with a live timer in arming order, and the deadlines
    vnow,                  \* the virtual clock
    straddled,             \* the epoch moved since the scan read it
    seen,                  \* the runs the scan has read
    stop, verdict,         \* the end of the world, and what the report says of it
    misjudged,             \* history: the edge acted on a scan of a world that was not quiet
    eaten,                 \* history: the tasks whose newer wake a late exchange of smp_park ate
    pc, cur, todo          \* where each thread is, its run, the runs it is still to wake

words == <<state, token, raise>>
loop == <<done, cancelled, blocked, waiters, evSet, timers, due, vnow>>
scan == <<straddled, seen>>
history == <<misjudged, eaten>>
report == <<verdict, history>>
vars == <<program, words, at, resumed, loop, scan, stop, report, pc, cur, todo>>

Pcs == {"idle", "poll", "op", "spawn", "block", "unblock", "park", "parkCas", "parkSwap",
        "selfWake", "again", "cancelEnd", "end", "wake", "token", "wakeCas", "exit",
        "scan", "look", "confirm", "fire", "stop"}

TypeOK ==
    /\ state \in [Tasks -> {"FREE", "READY", "RUNNING", "PARKED", "TERMINAL"}]
    /\ token \in [Tasks -> {0, 1}] /\ raise \in [Tasks -> BOOLEAN]
    /\ \A t \in Tasks : at[t] \in 1..(Len(program[t]) + 1)
    /\ resumed \in [Tasks -> BOOLEAN]
    /\ done \in [Tasks -> BOOLEAN] /\ cancelled \in [Tasks -> BOOLEAN]
    /\ blocked \in [Tasks -> Objects \cup {Timer, None}]
    /\ waiters \in [Objects -> Seq(Tasks)]
    /\ evSet \subseteq Events
    /\ timers \in Seq(Tasks) /\ due \in [Tasks -> Nat] /\ vnow \in Nat
    /\ straddled \in BOOLEAN /\ seen \in 0..N
    /\ stop \in BOOLEAN /\ misjudged \in BOOLEAN /\ eaten \subseteq Tasks
    /\ verdict \in {"none", "main", "deadlock", "deadline"}
    /\ pc \in [Procs -> Pcs] /\ cur \in [Procs -> Tasks \cup {None}]
    /\ todo \in [Procs -> Seq(Tasks)]

\* aio_run up to its loop: every run is FREE but the main task, which was spawned.
Init ==
    /\ program \in Programs
    /\ state = [t \in Tasks |-> IF t = Main THEN "READY" ELSE "FREE"]
    /\ token = [t \in Tasks |-> 0] /\ raise = [t \in Tasks |-> FALSE]
    /\ at = [t \in Tasks |-> 1] /\ resumed = [t \in Tasks |-> FALSE]
    /\ done = [t \in Tasks |-> FALSE] /\ cancelled = [t \in Tasks |-> FALSE]
    /\ blocked = [t \in Tasks |-> None]
    /\ waiters = [o \in Objects |-> <<>>]
    /\ evSet = {} /\ timers = <<>> /\ due = [t \in Tasks |-> 0] /\ vnow = 0
    /\ straddled = FALSE /\ seen = 0
    /\ stop = FALSE /\ verdict = "none" /\ misjudged = FALSE /\ eaten = {}
    /\ pc = [p \in Procs |-> IF p = Edge THEN "scan" ELSE "idle"]
    /\ cur = [p \in Procs |-> None]
    /\ todo = [p \in Procs |-> <<>>]

-----------------------------------------------------------------------------
(* Control *)

Goto(p, l) == pc' = [pc EXCEPT ![p] = l]

\* The step of c is over.
Leave(c) == Goto(c, "idle") /\ cur' = [cur EXCEPT ![c] = None]

Becomes(t, s) == state' = [state EXCEPT ![t] = s]

AtEnd(t) == at[t] > Len(program[t])
Op(t) == program[t][at[t]]
IsOp(c, kind) == /\ pc[c] = "op" /\ ~AtEnd(cur[c])
                 /\ Op(cur[c])[1] = kind
                 /\ ~resumed[cur[c]]
Arg(c) == Op(cur[c])[2]

Advance(t) == at' = [at EXCEPT ![t] = @ + 1]

-----------------------------------------------------------------------------
(* The loop objects, under the loop lock *)

\* The loop that keeps the others of a list in their order.
Without(seq, gone) ==
    LET kept[n \in 0..Len(seq)] ==
            IF n = 0 THEN <<>>
            ELSE IF seq[n] \in gone THEN kept[n - 1] ELSE Append(kept[n - 1], seq[n])
    IN  kept[Len(seq)]

Register(t, o) ==
    /\ blocked' = [blocked EXCEPT ![t] = o]
    /\ waiters' = IF o = Timer THEN waiters ELSE [waiters EXCEPT ![o] = Append(@, t)]

\* unregister_locked: t is on at most one thing.
Unregister(t) ==
    /\ blocked' = [blocked EXCEPT ![t] = None]
    /\ timers' = IF blocked[t] = Timer THEN Without(timers, {t}) ELSE timers
    /\ waiters' = IF blocked[t] \in Objects
                     THEN [waiters EXCEPT ![blocked[t]] = Without(@, {t})] ELSE waiters

\* Everyone registered on o is taken off it, to be woken by p in arrival order; a task that
\* ends is on nothing itself.
Release(p, o) ==
    /\ todo' = [todo EXCEPT ![p] = waiters[o]]
    /\ waiters' = [waiters EXCEPT ![o] = <<>>]
    /\ blocked' = [t \in Tasks |-> IF t = o \/ Contains(waiters[o], t) THEN None ELSE blocked[t]]

-----------------------------------------------------------------------------
(* A carrier takes a run; the step polls the raise slot first *)

Exit(c) == /\ pc[c] = "idle" /\ stop
           /\ Goto(c, "exit")
           /\ UNCHANGED <<program, words, at, resumed, loop, scan, stop, report, cur, todo>>

Take(c, t) == /\ pc[c] = "idle" /\ ~stop
              /\ state[t] = "READY"
              /\ Becomes(t, "RUNNING")
              /\ cur' = [cur EXCEPT ![c] = t]
              /\ Goto(c, "poll")
              /\ UNCHANGED <<program, token, raise, at, resumed, loop, scan, stop, report, todo>>

Poll(c) == /\ pc[c] = "poll"
           /\ raise' = [raise EXCEPT ![cur[c]] = FALSE]
           /\ Goto(c, IF raise[cur[c]] THEN "cancelEnd" ELSE "op")
           /\ UNCHANGED <<program, state, token, at, resumed, loop, scan, stop, report, cur, todo>>

\* aio_finish under the lock; the wakes follow.
Finish(c, how) ==
    LET t == cur[c] IN
    /\ done' = [done EXCEPT ![t] = TRUE]
    /\ cancelled' = [cancelled EXCEPT ![t] = how]
    /\ Release(c, t)
    /\ Goto(c, "wake")
    /\ UNCHANGED <<program, words, at, resumed, evSet, timers, due, vnow, scan, stop, report, cur>>

EndsCancelled(c) == pc[c] = "cancelEnd" /\ Finish(c, TRUE)

EndsDone(c) == pc[c] = "op" /\ AtEnd(cur[c]) /\ Finish(c, FALSE)

Terminal(c) == /\ pc[c] = "end"
               /\ Becomes(cur[c], "TERMINAL")
               /\ Leave(c)
               /\ UNCHANGED <<program, token, raise, at, resumed, loop, scan, stop, report, todo>>

-----------------------------------------------------------------------------
(* The ops of one segment *)

\* Mutant: a resume is taken for the wake it waits for.
ServedUnasked(c) ==
    LET t == cur[c] IN
    /\ pc[c] = "op" /\ ~AtEnd(t) /\ resumed[t]
    /\ resumed' = [resumed EXCEPT ![t] = FALSE]
    /\ Advance(t)
    /\ UNCHANGED <<program, words, loop, scan, stop, report, pc, cur, todo>>

\* The waker took the registration before it woke the run.
Served(c) ==
    LET t == cur[c] IN
    /\ pc[c] = "op" /\ ~AtEnd(t) /\ resumed[t]
    /\ blocked[t] = None
    /\ resumed' = [resumed EXCEPT ![t] = FALSE]
    /\ Advance(t)
    /\ UNCHANGED <<program, words, loop, scan, stop, report, pc, cur, todo>>

\* A spurious resume: the token of an earlier wake; the run goes back to sleep.
NotServed(c) ==
    LET t == cur[c] IN
    /\ pc[c] = "op" /\ ~AtEnd(t) /\ resumed[t]
    /\ blocked[t] # None
    /\ Goto(c, "block")
    /\ UNCHANGED <<program, words, at, resumed, loop, scan, stop, report, cur, todo>>

\* The epoch of aio_spawn, and its CAS with the push; a task is started once.
Spawn(c) == /\ IsOp(c, "spawn")
            /\ straddled' = TRUE
            /\ Goto(c, "spawn")
            /\ UNCHANGED <<program, words, at, resumed, loop, seen, stop, report, cur, todo>>

SpawnCas(c) == /\ pc[c] = "spawn"
               /\ state' = IF state[Arg(c)] = "FREE" THEN [state EXCEPT ![Arg(c)] = "READY"]
                           ELSE state
               /\ Advance(cur[c])
               /\ Goto(c, "op")
               /\ UNCHANGED <<program, token, raise, resumed, loop, scan, stop, report, cur, todo>>

SetEvent(c) == /\ IsOp(c, "set")
               /\ evSet' = evSet \cup {Arg(c)}
               /\ Release(c, Arg(c))
               /\ Goto(c, "wake")
               /\ UNCHANGED <<program, words, at, resumed, done, cancelled, timers, due, vnow, scan,
                              stop, report, cur>>

Clear(c) == /\ IsOp(c, "clear")
            /\ evSet' = evSet \ {Arg(c)}
            /\ Advance(cur[c])
            /\ UNCHANGED <<program, words, resumed, done, cancelled, blocked, waiters, timers,
                           due, vnow, scan, stop, report, pc, cur, todo>>

\* The task at the end of the chain of awaits from t.
Deepest(t) ==
    LET victim[hops \in 0..N] ==
            IF hops = 0 THEN t
            ELSE IF blocked[victim[hops - 1]] \in Tasks THEN blocked[victim[hops - 1]]
            ELSE victim[hops - 1]
    IN  victim[N]

CancelDone(c) == /\ IsOp(c, "cancel") /\ done[Arg(c)]
                 /\ Advance(cur[c])
                 /\ UNCHANGED <<program, words, resumed, loop, scan, stop, report, pc, cur, todo>>

\* The registration, the deposit and the decision to wake are one critical section.
Cancel(c) ==
    LET v == Deepest(Arg(c)) IN
    /\ IsOp(c, "cancel") /\ ~done[Arg(c)]
    /\ Unregister(v)
    /\ raise' = [raise EXCEPT ![v] = TRUE]
    /\ todo' = [todo EXCEPT ![c] = IF blocked[v] # None THEN <<v>> ELSE <<>>]
    /\ Goto(c, "wake")
    /\ UNCHANGED <<program, state, token, at, resumed, done, cancelled, evSet, due, vnow, scan, stop,
                   report, cur>>

\* sleep 0: back into the ring.
Yield(c) == /\ IsOp(c, "sleep") /\ Arg(c) = 0
            /\ Advance(cur[c])
            /\ Goto(c, "again")
            /\ UNCHANGED <<program, words, resumed, loop, scan, stop, report, cur, todo>>

\* The op is registered and goes to aio_block, which marks the phase; a wake eaten before is not
\* the one this registration waits for.
Await(c, o) == /\ Register(cur[c], o)
               /\ resumed' = [resumed EXCEPT ![cur[c]] = TRUE]
               /\ eaten' = eaten \ {cur[c]}
               /\ Goto(c, "block")

SleepFor(c) == /\ IsOp(c, "sleep") /\ Arg(c) > 0
               /\ Await(c, Timer)
               /\ timers' = Append(timers, cur[c])
               /\ due' = [due EXCEPT ![cur[c]] = vnow + Arg(c)]
               /\ UNCHANGED <<program, words, at, done, cancelled, evSet, vnow, scan, stop,
                              verdict, misjudged, cur, todo>>

\* The event is set, or the task is done: no wait.
Passed(c) == \/ IsOp(c, "wait") /\ Arg(c) \in evSet
             \/ IsOp(c, "join") /\ done[Arg(c)]

PassOn(c) == /\ Passed(c)
             /\ Advance(cur[c])
             /\ UNCHANGED <<program, words, resumed, loop, scan, stop, report, pc, cur, todo>>

AwaitOther(c) == /\ IsOp(c, "wait") \/ IsOp(c, "join")
                 /\ ~Passed(c)
                 /\ Await(c, Arg(c))
                 /\ UNCHANGED <<program, words, at, done, cancelled, evSet, timers, due, vnow, scan,
                                stop, verdict, misjudged, cur, todo>>

-----------------------------------------------------------------------------
(* aio_block and smp_park *)

\* Mutant: no look at the raise slot before the park.
BlockBlindly(c) ==
    /\ pc[c] = "block"
    /\ Goto(c, "park")
    /\ UNCHANGED <<program, words, at, resumed, loop, scan, stop, report, cur, todo>>

\* A raise that landed since the poll is not slept on.
Block(c) == /\ pc[c] = "block"
            /\ Goto(c, IF raise[cur[c]] THEN "unblock" ELSE "park")
            /\ UNCHANGED <<program, words, at, resumed, loop, scan, stop, report, cur, todo>>

Unblock(c) == /\ pc[c] = "unblock"
              /\ Unregister(cur[c])
              /\ resumed' = [resumed EXCEPT ![cur[c]] = FALSE]
              /\ Goto(c, "again")
              /\ UNCHANGED <<program, words, at, done, cancelled, evSet, due, vnow, scan, stop,
                             report, cur, todo>>

Park(c) == /\ pc[c] = "park"
           /\ token' = [token EXCEPT ![cur[c]] = 0]
           /\ Goto(c, IF token[cur[c]] = 1 THEN "again" ELSE "parkCas")
           /\ UNCHANGED <<program, state, raise, at, resumed, loop, scan, stop, report, cur, todo>>

ParkCas(c) == /\ pc[c] = "parkCas"
              /\ Becomes(cur[c], "PARKED")
              /\ Goto(c, "parkSwap")
              /\ UNCHANGED <<program, token, raise, at, resumed, loop, scan, stop, report, cur,
                             todo>>

\* The exchange of a late parker: its run is on another carrier by now, and the token the wake
\* of what it waits for there.
EatsWake(t) == token[t] = 1 /\ state[t] = "RUNNING" /\ blocked[t] = None

ParkSwap(c) == /\ pc[c] = "parkSwap"
               /\ token' = [token EXCEPT ![cur[c]] = 0]
               /\ IF token[cur[c]] = 1 THEN Goto(c, "selfWake") /\ UNCHANGED cur ELSE Leave(c)
               /\ eaten' = IF EatsWake(cur[c]) THEN eaten \cup {cur[c]} ELSE eaten
               /\ UNCHANGED <<program, state, raise, at, resumed, loop, scan, stop, verdict,
                              misjudged, todo>>

SelfWake(c) == /\ pc[c] = "selfWake"
               /\ state' = IF state[cur[c]] = "PARKED" THEN [state EXCEPT ![cur[c]] = "READY"]
                           ELSE state
               /\ Leave(c)
               /\ UNCHANGED <<program, token, raise, at, resumed, loop, scan, stop, report, todo>>

Again(c) == /\ pc[c] = "again"
            /\ Becomes(cur[c], "READY")
            /\ Leave(c)
            /\ UNCHANGED <<program, token, raise, at, resumed, loop, scan, stop, report, todo>>

-----------------------------------------------------------------------------
(* aio_wake, once for each run of todo, by a carrier or the edge *)

WakeBegins(p) == /\ pc[p] = "wake" /\ todo[p] # <<>>
                 /\ straddled' = TRUE
                 /\ Goto(p, "token")
                 /\ UNCHANGED <<program, words, at, resumed, loop, seen, stop, report, cur, todo>>

SetToken(p) == /\ pc[p] = "token"
               /\ token' = [token EXCEPT ![Head(todo[p])] = 1]
               /\ Goto(p, "wakeCas")
               /\ UNCHANGED <<program, state, raise, at, resumed, loop, scan, stop, report, cur,
                              todo>>

WakeCas(p) == LET t == Head(todo[p]) IN
    /\ pc[p] = "wakeCas"
    /\ state' = IF state[t] = "PARKED" THEN [state EXCEPT ![t] = "READY"] ELSE state
    /\ todo' = [todo EXCEPT ![p] = Tail(@)]
    /\ Goto(p, "wake")
    /\ UNCHANGED <<program, token, raise, at, resumed, loop, scan, stop, report, cur>>

\* Every wake is made: the task ends, its op is over, or the edge scans again.
WakesDone(c) == /\ c \in Carriers
                /\ pc[c] = "wake" /\ todo[c] = <<>>
                /\ IF done[cur[c]] THEN Goto(c, "end") /\ UNCHANGED at
                   ELSE Goto(c, "op") /\ Advance(cur[c])
                /\ UNCHANGED <<program, words, resumed, loop, scan, stop, report, cur, todo>>

FireDone == /\ pc[Edge] = "wake" /\ todo[Edge] = <<>>
            /\ Goto(Edge, "scan")
            /\ UNCHANGED <<program, words, at, resumed, loop, scan, stop, report, cur, todo>>

-----------------------------------------------------------------------------
(* The edge: aio_scan reads the runs one by one, aio_fire moves the clock *)

ScanBegins == /\ pc[Edge] = "scan"
              /\ straddled' = FALSE /\ seen' = 0
              /\ Goto(Edge, "look")
              /\ UNCHANGED <<program, words, at, resumed, loop, stop, report, cur, todo>>

Ends(why) == verdict' = why /\ Goto(Edge, "stop")

Busy == {"READY", "RUNNING"}

\* The run after those seen; the deadline of aio_run may have passed when it is busy.
Look == LET s == state[seen + 1] IN
    /\ pc[Edge] = "look"
    /\ \/ /\ seen = 0 /\ s = "TERMINAL"
          /\ Ends("main") /\ UNCHANGED seen
       \/ /\ s \in Busy
          /\ Goto(Edge, "scan") /\ UNCHANGED <<seen, verdict>>
       \/ /\ s \in Busy
          /\ Ends("deadline") /\ UNCHANGED seen
       \/ /\ s \notin Busy /\ ~(seen = 0 /\ s = "TERMINAL")
          /\ seen' = seen + 1
          /\ Goto(Edge, IF seen + 1 = N THEN "confirm" ELSE "look")
          /\ UNCHANGED verdict
    /\ UNCHANGED <<program, words, at, resumed, loop, straddled, stop, history, cur, todo>>

Confirm == /\ pc[Edge] = "confirm"
           /\ Goto(Edge, IF straddled THEN "scan" ELSE "fire")
           /\ UNCHANGED <<program, words, at, resumed, loop, scan, stop, report, cur, todo>>

\* Somebody is about to wake t: a waker that has its name, or its own late parker.
WakeOnTheWay(t) ==
    \/ \E p \in Procs : Contains(todo[p], t)
    \/ \E c \in Carriers : /\ cur[c] = t
                           /\ pc[c] = "selfWake" \/ (pc[c] = "parkSwap" /\ token[t] = 1)

\* The world is quiet: the main task waits, and no run will move unless the edge moves it.
Quiet == /\ state[Main] # "TERMINAL"
         /\ \A t \in Tasks : state[t] \notin Busy /\ ~WakeOnTheWay(t)

\* What the history keeps of the decision to fire.
Judge == misjudged' = (misjudged \/ ~Quiet)

\* The clock jumps to the earliest deadline; the timers due then wake in arming order.
Fire == \E now \in {due[t] : t \in ToSet(timers)} :
    LET fired == {t \in ToSet(timers) : due[t] = now} IN
    /\ pc[Edge] = "fire"
    /\ \A t \in ToSet(timers) : now <= due[t]
    /\ vnow' = now
    /\ timers' = Without(timers, fired)
    /\ todo' = [todo EXCEPT ![Edge] = Without(timers, Tasks \ fired)]
    /\ blocked' = [t \in Tasks |-> IF t \in fired THEN None ELSE blocked[t]]
    /\ Judge
    /\ Goto(Edge, "wake")
    /\ UNCHANGED <<program, words, at, resumed, done, cancelled, waiters, evSet, due, scan, stop,
                   verdict, eaten, cur>>

NoTimer == /\ pc[Edge] = "fire" /\ timers = <<>>
           /\ Ends("deadlock") /\ Judge
           /\ UNCHANGED <<program, words, at, resumed, loop, scan, stop, eaten, cur, todo>>

Stop == /\ pc[Edge] = "stop"
        /\ stop' = TRUE
        /\ Goto(Edge, "exit")
        /\ UNCHANGED <<program, words, at, resumed, loop, scan, report, cur, todo>>

-----------------------------------------------------------------------------
RunOp(c) == \/ Served(c) \/ NotServed(c) \/ Spawn(c) \/ SpawnCas(c) \/ SetEvent(c) \/ Clear(c)
            \/ CancelDone(c) \/ Cancel(c) \/ Yield(c) \/ SleepFor(c) \/ PassOn(c) \/ AwaitOther(c)

Suspend(c) == \/ Block(c) \/ Unblock(c) \/ Park(c) \/ ParkCas(c) \/ ParkSwap(c) \/ SelfWake(c)
              \/ Again(c)

Wake(p) == WakeBegins(p) \/ SetToken(p) \/ WakeCas(p)

CarrierNext(c) == \/ Exit(c) \/ (\E t \in Tasks : Take(c, t))
                  \/ Poll(c) \/ EndsCancelled(c) \/ EndsDone(c) \/ Terminal(c)
                  \/ RunOp(c) \/ Suspend(c) \/ Wake(c) \/ WakesDone(c)

EdgeNext == ScanBegins \/ Look \/ Confirm \/ Fire \/ NoTimer \/ Wake(Edge) \/ FireDone \/ Stop

Terminated == (\A p \in Procs : pc[p] = "exit") /\ UNCHANGED vars

Next == (\E c \in Carriers : CarrierNext(c)) \/ EdgeNext \/ Terminated

Spec == Init /\ [][Next]_vars

\* The host schedules every thread; nothing makes the deadline pass.
FairSpec == Spec /\ (\A c \in Carriers : WF_vars(CarrierNext(c))) /\ WF_vars(EdgeNext)

-----------------------------------------------------------------------------
(* Safety *)

\* A task is registered on at most one thing, once, and exactly where its blocked word says: the
\* lists of timers, events and awaited tasks agree with it whoever served or cancelled it
\* (unregister_locked).
OneRegistration ==
    /\ IsInjective(timers) /\ ToSet(timers) = {t \in Tasks : blocked[t] = Timer}
    /\ \A o \in Objects :
           IsInjective(waiters[o]) /\ ToSet(waiters[o]) = {t \in Tasks : blocked[t] = o}

\* A task sleeps only where somebody will find it: it is registered and no cancel waits for
\* it, or its wake is on the way (aio_block, aio_cancel: no cancel is left on a task that
\* sleeps, and no waiter is taken off its list and not woken).  The one way to lose a sleeper is
\* the exchange of a late parker that eats the wake of the next sleep (smp_park).
NobodyForgotten ==
    \A t \in Tasks : state[t] = "PARKED" =>
        (blocked[t] # None /\ ~raise[t]) \/ WakeOnTheWay(t) \/ t \in eaten

\* No live timer is overdue: the clock moves to the earliest deadline and no further, in
\* whatever order the sleeps were made (aio_fire).
NoTimerPast == \A t \in ToSet(timers) : vnow <= due[t]

\* A sleeper is registered once, where it will be found in time.
SleepersKept == TypeOK /\ OneRegistration /\ NobodyForgotten /\ NoTimerPast

\* What smp_asyncio.h says of the scan: the epoch re-check closes it against a wake in
\* flight, so a deadlock is reported only of a world in which no run is READY or RUNNING.
DeadlockIsReal ==
    verdict = "deadlock" /\ ~stop => \A t \in Tasks : state[t] \notin Busy

(* Action properties *)

\* An await is passed only with what it waited for, or with a cancel the task will find at
\* its next poll: a resume alone is never taken for a wake (aio_step, spurious resumes).
NoEarlyReturn ==
    [][\A t \in Tasks : at'[t] # at[t] /\ ~raise[t] =>
           /\ Op(t)[1] = "sleep" => Op(t)[2] = 0 \/ due[t] <= vnow
           /\ Op(t)[1] = "join" => done[Op(t)[2]]]_vars

(* Liveness *)

\* The loop of aio_run ends, and with the main task done, unless the deadline passed or the
\* edge acted on a world that was not quiet: the programs here await nothing that cannot come.
MainEnds == <>(misjudged \/ (stop /\ verdict \in {"main", "deadline"}))

\* Awaits answer for what they waited, and the world comes to its end.
AwaitsAnswer == NoEarlyReturn /\ MainEnds
=============================================================================
