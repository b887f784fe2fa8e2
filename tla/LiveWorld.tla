------------------------------ MODULE LiveWorld -------------------------------
(* Who runs the image at one link: runners (server/live/runner.py) and bare    *)
(* sessions (server/live/session.py) that race for the registration, each in   *)
(* a process with a registry of its own (console/world.py), and the shared     *)
(* segment a shm: link is laid out in; consoles attach from either process.    *)
(* Behind a link is the machine (live/machine.py), a state machine of its own: *)
(* the threads of this process and the other processes that map its segment,   *)
(* runs and pumps behind the SegmentGate (live/link.py), and its close.        *)
EXTENDS Integers, FiniteSets

CONSTANTS
  Runners, Sessions,   \* hosts that build a machine, hosts that only register
  Consoles, Procs,
  Threads, Closers, Peer,   \* of the machine: the threads, those that close it, another process
  MaxRuns, None

Hosts == Runners \cup Sessions

VARIABLES  \* who runs
  shared,    \* the link is shm:
  proc,      \* host or console -> its process
  pc, runs,  \* host -> where its life is, how many lives it had
  segment,   \* the host whose segment has the name of the link, and its life
  laid,      \* the head of the block is written: another process may map it
  reserved,  \* process -> the runner at the link (Runner._at_link)
  builder,   \* process -> the session registered at the link (_BUILDERS)
  booted,    \* hosts whose front end is installed
  seat       \* console -> the host and life it speaks to, None

VARIABLES  \* the machine
  stands,  \* thread -> where it is inside run, pump or close
  begun,   \* how many operations each thread began
  held,    \* the thread that owns the RLock of the gate
  flock,   \* the process that has the lock of the segment: "here", Peer or None
  fd,      \* the gate's own descriptor is open
  mapped, closed,
  peers    \* how often the other process came

vars == <<shared, proc, pc, runs, segment, laid, reserved, builder, booted, seat>>
machineVars == <<stands, begun, held, flock, fd, mapped, closed, peers>>

P(x) == proc[x]
Goes(h, from, to) == pc[h] = from /\ pc' = [pc EXCEPT ![h] = to]
Life(h) == [host |-> h, life |-> runs[h]]

\* Seat.__init__: the segment is made new or the link keeps its runner.
MakeSeat(h) ==
  /\ h \in Runners /\ runs[h] < MaxRuns /\ runs' = [runs EXCEPT ![h] = @ + 1]
  /\ IF shared /\ segment # None
     THEN Goes(h, "off", "off") /\ UNCHANGED segment
     ELSE /\ Goes(h, "off", "seated")
          /\ segment' = IF shared THEN [host |-> h, life |-> runs[h] + 1] ELSE segment
  /\ UNCHANGED <<shared, proc, laid, reserved, builder, booted, seat>>

LayHead(h) ==
  /\ Goes(h, "seated", "reserve")
  /\ laid' = IF shared THEN TRUE ELSE laid
  /\ UNCHANGED <<shared, proc, runs, segment, reserved, builder, booted, seat>>

Reserve(h) ==
  /\ pc[h] = "reserve"
  /\ IF reserved[P(h)] # None
     THEN Goes(h, "reserve", "free") /\ UNCHANGED reserved
     ELSE Goes(h, "reserve", "open") /\ reserved' = [reserved EXCEPT ![P(h)] = h]
  /\ UNCHANGED <<shared, proc, runs, segment, laid, builder, booted, seat>>

Begins(h) ==  \* a session opened on a machine of its own, with no reservation
  /\ h \in Sessions /\ runs[h] < MaxRuns /\ runs' = [runs EXCEPT ![h] = @ + 1]
  /\ Goes(h, "off", "open")
  /\ UNCHANGED <<shared, proc, segment, laid, reserved, builder, booted, seat>>

\* world.register: the check-and-set, under the lock of the registry.
Open(h) ==
  /\ pc[h] = "open"
  /\ IF builder[P(h)] # None
     THEN Goes(h, "open", IF h \in Runners THEN "free" ELSE "off") /\ UNCHANGED builder
     ELSE /\ Goes(h, "open", IF h \in Runners THEN "boot" ELSE "serving")
          /\ builder' = [builder EXCEPT ![P(h)] = h]
  /\ UNCHANGED <<shared, proc, runs, segment, laid, reserved, booted, seat>>

\* The boot is one transaction; the image may refuse it.
Boot(h) ==
  /\ \/ Goes(h, "boot", "serving") /\ booted' = booted \cup {Life(h)}
     \/ Goes(h, "boot", "free") /\ UNCHANGED booted
  /\ UNCHANGED <<shared, proc, runs, segment, laid, reserved, builder, seat>>

\* The app around it ends: the lifespan closes the session, then the runner.
Shutdown(h) ==
  /\ Goes(h, "serving", IF h \in Runners THEN "free" ELSE "forget")
  /\ UNCHANGED <<shared, proc, runs, segment, laid, reserved, builder, booted, seat>>
LifespanEnds(h) ==
  /\ h \in Runners /\ pc[h] = "serving" /\ builder[P(h)] = h
  /\ builder' = [builder EXCEPT ![P(h)] = None]
  /\ UNCHANGED <<shared, proc, pc, runs, segment, laid, reserved, booted, seat>>

\* Runner.close: the reservation when it is its own, the registration when its
\* session is open, then the block and the segment it laid out.
FreeLink(h) ==
  /\ Goes(h, "free", "forget")
  /\ reserved' = [reserved EXCEPT ![P(h)] = IF @ = h THEN None ELSE @]
  /\ UNCHANGED <<shared, proc, runs, segment, laid, builder, booted, seat>>
ForgetWhoever(h) ==  \* a session that was refused forgets all the same
  /\ Goes(h, "forget", IF h \in Runners THEN "unlink" ELSE "off")
  /\ builder' = [builder EXCEPT ![P(h)] = None]
  /\ UNCHANGED <<shared, proc, runs, segment, laid, reserved, booted, seat>>
Forget(h) ==
  /\ Goes(h, "forget", IF h \in Runners THEN "unlink" ELSE "off")
  /\ builder' = [builder EXCEPT ![P(h)] = IF @ = h THEN None ELSE @]
  /\ UNCHANGED <<shared, proc, runs, segment, laid, reserved, booted, seat>>
Unlink(h) ==
  /\ Goes(h, "unlink", "off")
  /\ segment' = IF shared THEN None ELSE segment
  /\ laid' = FALSE
  /\ UNCHANGED <<shared, proc, runs, reserved, builder, booted, seat>>

----------------------------------------------------------------------------

\* attach: the world registered in this process, else the block behind the
\* link, else the console cannot reach a running image.
Attach(c) ==
  /\ seat[c] = None
  /\ IF builder[P(c)] # None THEN seat' = [seat EXCEPT ![c] = Life(builder[P(c)])]
     ELSE shared /\ laid /\ seat' = [seat EXCEPT ![c] = segment]
  /\ UNCHANGED <<shared, proc, pc, runs, segment, laid, reserved, builder, booted>>
Detach(c) ==
  /\ seat[c] # None /\ seat' = [seat EXCEPT ![c] = None]
  /\ UNCHANGED <<shared, proc, pc, runs, segment, laid, reserved, builder, booted>>

Init ==
  /\ shared \in BOOLEAN
  /\ proc \in {p \in [Hosts \cup Consoles -> Procs] :
                ~shared => \A x, y \in Hosts \cup Consoles : p[x] = p[y]}
  /\ pc = [h \in Hosts |-> "off"] /\ runs = [h \in Hosts |-> 0]
  /\ segment = None /\ laid = FALSE
  /\ reserved = [p \in Procs |-> None] /\ builder = [p \in Procs |-> None]
  /\ booted = {} /\ seat = [c \in Consoles |-> None]

HostStep(h) ==
  \/ MakeSeat(h) \/ LayHead(h) \/ Reserve(h) \/ Begins(h) \/ Open(h) \/ Boot(h)
  \/ Shutdown(h) \/ LifespanEnds(h) \/ FreeLink(h) \/ Forget(h) \/ Unlink(h)
Next == (\E h \in Hosts : HostStep(h)) \/ \E c \in Consoles : Attach(c) \/ Detach(c)
Spec == Init /\ [][Next]_vars

----------------------------------------------------------------------------
(* The machine under its threads *)

Stands(t, from, to) == stands[t] = from /\ stands' = [stands EXCEPT ![t] = to]

\* run, pump: closed long ago is refused before the gate.
Call(t) ==
  /\ stands[t] = "idle" /\ begun[t] < MaxRuns /\ t \notin Closers
  /\ begun' = [begun EXCEPT ![t] = @ + 1]
  /\ Stands(t, "idle", IF closed THEN "refused" ELSE "enter")
  /\ UNCHANGED <<held, flock, fd, mapped, closed, peers>>

Close(t) ==
  /\ stands[t] = "idle" /\ begun[t] = 0 /\ t \in Closers
  /\ begun' = [begun EXCEPT ![t] = @ + 1]
  /\ Stands(t, "idle", IF closed THEN "done" ELSE "enter")
  /\ UNCHANGED <<held, flock, fd, mapped, closed, peers>>

\* SegmentGate.__enter__: the thread lock, then the lock of the file.
Acquire(t) ==
  /\ held = None /\ held' = t /\ Stands(t, "enter", "flock")
  /\ UNCHANGED <<begun, flock, fd, mapped, closed, peers>>

\* A descriptor that is gone raises, with the thread lock still held.
Flock(t) ==
  /\ stands[t] = "flock" /\ IF fd THEN flock = None ELSE TRUE
  /\ flock' = IF fd THEN "here" ELSE flock
  /\ Stands(t, "flock", IF fd THEN "inside" ELSE "refused")
  /\ UNCHANGED <<begun, held, fd, mapped, closed, peers>>

\* Inside the gate both look again.
Inside(t) ==
  /\ Stands(t, "inside", IF closed THEN "exit" ELSE IF t \in Closers THEN "drop" ELSE "leaf")
  /\ UNCHANGED <<begun, held, flock, fd, mapped, closed, peers>>

Leaf(t) ==  \* the image's code, in the block
  /\ Stands(t, "leaf", "exit")
  /\ UNCHANGED <<begun, held, flock, fd, mapped, closed, peers>>

Drop(t) ==
  /\ closed' = TRUE /\ mapped' = FALSE /\ Stands(t, "drop", "exit")
  /\ UNCHANGED <<begun, held, flock, fd, peers>>

\* __exit__; a close then takes the descriptor.
Exit(t) ==
  /\ Stands(t, "exit", IF t \in Closers THEN "descriptor" ELSE "done")
  /\ flock' = None /\ held' = None
  /\ UNCHANGED <<begun, fd, mapped, closed, peers>>

Descriptor(t) ==
  /\ fd' = FALSE /\ Stands(t, "descriptor", "done")
  /\ UNCHANGED <<begun, held, flock, mapped, closed, peers>>

Answered(t) ==
  /\ stands[t] \in {"done", "refused"} /\ t \notin Closers
  /\ stands' = [stands EXCEPT ![t] = "idle"]
  /\ UNCHANGED <<begun, held, flock, fd, mapped, closed, peers>>

\* Another process takes the segment, leaves it, or dies inside: the lock goes.
PeerEnters ==
  /\ flock = None /\ peers < MaxRuns /\ flock' = Peer /\ peers' = peers + 1
  /\ UNCHANGED <<stands, begun, held, fd, mapped, closed>>
PeerLeaves ==
  /\ flock = Peer /\ flock' = None
  /\ UNCHANGED <<stands, begun, held, fd, mapped, closed, peers>>

MachineInit ==
  /\ stands = [t \in Threads |-> "idle"] /\ begun = [t \in Threads |-> 0]
  /\ held = None /\ flock = None /\ fd = TRUE /\ mapped = TRUE /\ closed = FALSE /\ peers = 0

ThreadStep(t) ==
  \/ Acquire(t) \/ Flock(t) \/ Inside(t) \/ Leaf(t) \/ Drop(t) \/ Exit(t)
  \/ Descriptor(t) \/ Answered(t)
MachineNext == PeerEnters \/ PeerLeaves \/ \E t \in Threads : Call(t) \/ Close(t) \/ ThreadStep(t)
MachineSpec == MachineInit /\ [][MachineNext]_machineVars

----------------------------------------------------------------------------

Running(h) == pc[h] \in {"boot", "serving"}

\* "One link has one image": no two machines run at the link - in one process
\* by its registry, across processes by the segment - and the registration a
\* running session made is its own until it lets go.
OneRunner ==
  /\ \A h, g \in Runners : Running(h) /\ Running(g) => h = g
  /\ \A h \in Sessions : pc[h] = "serving" => builder[P(h)] = h
  /\ \A p \in Procs : builder[p] # None => pc[builder[p]] # "off"

\* After the last close nothing is left at the link: a fresh runner can start.
NothingLeft == (\A h \in Hosts : pc[h] = "off") =>
  /\ segment = None /\ ~laid
  /\ \A p \in Procs : reserved[p] = None /\ builder[p] = None

\* "Unmapping under a running leaf is a segmentation fault": whoever runs the
\* image's code finds the block mapped and is alone in it, in every process.
NeverUnderLeaf == \A t \in Threads :
  stands[t] = "leaf" => mapped /\ flock = "here" /\ \A u \in Threads \ {t} : stands[u] # "leaf"

\* A link has one owner while anybody runs and none when nobody does.
LinkOwned == OneRunner /\ NothingLeft
=============================================================================
