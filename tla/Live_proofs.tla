------------------------------ MODULE Live_proofs ------------------------------
(***************************************************************************)
(* The live side of a host and its image files, proved.  A live image has  *)
(* one owner, its clients get their own answers, and its users install     *)
(* what they submitted.  What a program imports is one image's, and the    *)
(* ledger of honors verifies.                                              *)
(***************************************************************************)
EXTENDS HostParts, FiniteSetTheorems, SequenceTheorems, TLAPS

-----------------------------------------------------------------------------
(* Who runs the image of a link, and who is in it                            *)

\* A runner is no bare session, and no host is taken for None.
HostsApart ==
    /\ Runners \cap Sessions = {}
    /\ None \notin World!Hosts /\ None \notin [host : World!Hosts, life : Nat]

-----------------------------------------------------------------------------
(* The invariant: who has the link's segment, its reservation and its        *)
(* registration, by where each life stands                                   *)

\* Where a runner has the seat, where it may have the reservation and where it has it for sure.
Seated == {"seated", "reserve", "open", "boot", "serving", "free", "forget", "unlink"}
Reserved == {"open", "boot", "serving"}
Registered == {"boot", "serving", "free", "forget"}

Typed ==
    /\ shared \in BOOLEAN
    /\ proc \in [World!Hosts \cup Viewers -> Procs]
    /\ ~shared => \A x, y \in World!Hosts \cup Viewers : proc[x] = proc[y]
    /\ pc \in [World!Hosts -> {"off"} \cup Seated]
    /\ \A h \in Sessions : pc[h] \in {"off", "open", "serving", "forget"}
    /\ runs \in [World!Hosts -> Nat]
    /\ segment \in {None} \cup [host : World!Hosts, life : Nat]
    /\ laid \in BOOLEAN
    /\ reserved \in [Procs -> Runners \cup {None}]
    /\ builder \in [Procs -> World!Hosts \cup {None}]

\* At a shm: link whoever is seated has the segment, and the segment is somebody's who is; the
\* head lies in no other.
SegmentHeld ==
    /\ \A h \in Runners : shared /\ pc[h] # "off" => segment # None /\ segment.host = h
    /\ segment # None => shared /\ segment.host \in Runners /\ pc[segment.host] # "off"
    /\ laid => segment # None

\* In one process: the reservation is one runner's, from before its session opens until it closes.
ReservationHeld ==
    /\ \A h \in Runners : pc[h] \in Reserved => reserved[World!P(h)] = h
    /\ \A p \in Procs : reserved[p] # None =>
           World!P(reserved[p]) = p /\ pc[reserved[p]] \in Reserved \cup {"free"}

\* The registration: no session loses it to another, and nobody who is gone has it.
RegistrationHeld ==
    /\ \A h \in Sessions : pc[h] = "serving" => builder[World!P(h)] = h
    /\ \A p \in Procs : builder[p] # None =>
           World!P(builder[p]) = p /\ pc[builder[p]] \in Registered

LinkInv == Typed /\ SegmentHeld /\ ReservationHeld /\ RegistrationHeld

-----------------------------------------------------------------------------
(* Every step keeps it *)

LEMMA MakeSeatKeeps ==
    ASSUME HostsApart, LinkInv, NEW h \in World!Hosts, World!MakeSeat(h)
    PROVE  LinkInv'
<1> USE DEF HostsApart, LinkInv, World!MakeSeat, World!Goes, World!P, World!Hosts
<1>1. Typed'
  BY DEF Typed, Seated, World!Life
<1>2. SegmentHeld'
  BY DEF Typed, Seated, SegmentHeld
<1>3. ReservationHeld'
  BY DEF Typed, Seated, Reserved, ReservationHeld
<1>4. RegistrationHeld'
  BY DEF Typed, Seated, Registered, RegistrationHeld, ReservationHeld, Reserved
<1> QED
  BY <1>1, <1>2, <1>3, <1>4

LEMMA LayHeadKeeps ==
    ASSUME HostsApart, LinkInv, NEW h \in World!Hosts, World!LayHead(h)
    PROVE  LinkInv'
<1> USE DEF HostsApart, LinkInv, World!LayHead, World!Goes, World!P, World!Hosts
<1>1. Typed'
  BY DEF Typed, Seated, World!Life
<1>2. SegmentHeld'
  BY DEF Typed, Seated, SegmentHeld
<1>3. ReservationHeld'
  BY DEF Typed, Seated, Reserved, ReservationHeld
<1>4. RegistrationHeld'
  BY DEF Typed, Seated, Registered, RegistrationHeld, ReservationHeld, Reserved
<1> QED
  BY <1>1, <1>2, <1>3, <1>4

LEMMA ReserveKeeps ==
    ASSUME HostsApart, LinkInv, NEW h \in World!Hosts, World!Reserve(h)
    PROVE  LinkInv'
<1> USE DEF HostsApart, LinkInv, World!Reserve, World!Goes, World!P, World!Hosts
<1>1. Typed'
  BY DEF Typed, Seated, World!Life
<1>2. SegmentHeld'
  BY DEF Typed, Seated, SegmentHeld
<1>3. ReservationHeld'
  BY DEF Typed, Seated, Reserved, ReservationHeld
<1>4. RegistrationHeld'
  BY DEF Typed, Seated, Registered, RegistrationHeld, ReservationHeld, Reserved
<1> QED
  BY <1>1, <1>2, <1>3, <1>4

LEMMA BeginsKeeps ==
    ASSUME HostsApart, LinkInv, NEW h \in World!Hosts, World!Begins(h)
    PROVE  LinkInv'
<1> USE DEF HostsApart, LinkInv, World!Begins, World!Goes, World!P, World!Hosts
<1>1. Typed'
  BY DEF Typed, Seated, World!Life
<1>2. SegmentHeld'
  BY DEF Typed, Seated, SegmentHeld
<1>3. ReservationHeld'
  BY DEF Typed, Seated, Reserved, ReservationHeld
<1>4. RegistrationHeld'
  BY DEF Typed, Seated, Registered, RegistrationHeld, ReservationHeld, Reserved
<1> QED
  BY <1>1, <1>2, <1>3, <1>4

LEMMA OpenKeeps ==
    ASSUME HostsApart, LinkInv, NEW h \in World!Hosts, World!Open(h)
    PROVE  LinkInv'
<1> USE DEF HostsApart, LinkInv, World!Open, World!Goes, World!P, World!Hosts
<1>1. Typed'
  BY DEF Typed, Seated, World!Life
<1>2. SegmentHeld'
  BY DEF Typed, Seated, SegmentHeld
<1>3. ReservationHeld'
  BY DEF Typed, Seated, Reserved, ReservationHeld
<1>4. RegistrationHeld'
  BY DEF Typed, Seated, Registered, RegistrationHeld, ReservationHeld, Reserved
<1> QED
  BY <1>1, <1>2, <1>3, <1>4

LEMMA BootKeeps ==
    ASSUME HostsApart, LinkInv, NEW h \in World!Hosts, World!Boot(h)
    PROVE  LinkInv'
<1> USE DEF HostsApart, LinkInv, World!Boot, World!Goes, World!P, World!Hosts
<1>1. Typed'
  BY DEF Typed, Seated, World!Life
<1>2. SegmentHeld'
  BY DEF Typed, Seated, SegmentHeld
<1>3. ReservationHeld'
  BY DEF Typed, Seated, Reserved, ReservationHeld
<1>4. RegistrationHeld'
  BY DEF Typed, Seated, Registered, RegistrationHeld, ReservationHeld, Reserved
<1> QED
  BY <1>1, <1>2, <1>3, <1>4

LEMMA ShutdownKeeps ==
    ASSUME HostsApart, LinkInv, NEW h \in World!Hosts, World!Shutdown(h)
    PROVE  LinkInv'
<1> USE DEF HostsApart, LinkInv, World!Shutdown, World!Goes, World!P, World!Hosts
<1>1. Typed'
  BY DEF Typed, Seated, World!Life
<1>2. SegmentHeld'
  BY DEF Typed, Seated, SegmentHeld
<1>3. ReservationHeld'
  BY DEF Typed, Seated, Reserved, ReservationHeld
<1>4. RegistrationHeld'
  BY DEF Typed, Seated, Registered, RegistrationHeld, ReservationHeld, Reserved
<1> QED
  BY <1>1, <1>2, <1>3, <1>4

LEMMA LifespanEndsKeeps ==
    ASSUME HostsApart, LinkInv, NEW h \in World!Hosts, World!LifespanEnds(h)
    PROVE  LinkInv'
<1> USE DEF HostsApart, LinkInv, World!LifespanEnds, World!Goes, World!P, World!Hosts
<1>1. Typed'
  BY DEF Typed, Seated, World!Life
<1>2. SegmentHeld'
  BY DEF Typed, Seated, SegmentHeld
<1>3. ReservationHeld'
  BY DEF Typed, Seated, Reserved, ReservationHeld
<1>4. RegistrationHeld'
  BY DEF Typed, Seated, Registered, RegistrationHeld, ReservationHeld, Reserved
<1> QED
  BY <1>1, <1>2, <1>3, <1>4

LEMMA FreeLinkKeeps ==
    ASSUME HostsApart, LinkInv, NEW h \in World!Hosts, World!FreeLink(h)
    PROVE  LinkInv'
<1> USE DEF HostsApart, LinkInv, World!FreeLink, World!Goes, World!P, World!Hosts
<1>1. Typed'
  BY DEF Typed, Seated, World!Life
<1>2. SegmentHeld'
  BY DEF Typed, Seated, SegmentHeld
<1>3. ReservationHeld'
  BY DEF Typed, Seated, Reserved, ReservationHeld
<1>4. RegistrationHeld'
  BY DEF Typed, Seated, Registered, RegistrationHeld, ReservationHeld, Reserved
<1> QED
  BY <1>1, <1>2, <1>3, <1>4

LEMMA ForgetKeeps ==
    ASSUME HostsApart, LinkInv, NEW h \in World!Hosts, World!Forget(h)
    PROVE  LinkInv'
<1> USE DEF HostsApart, LinkInv, World!Forget, World!Goes, World!P, World!Hosts
<1>1. Typed'
  BY DEF Typed, Seated, World!Life
<1>2. SegmentHeld'
  BY DEF Typed, Seated, SegmentHeld
<1>3. ReservationHeld'
  BY DEF Typed, Seated, Reserved, ReservationHeld
<1>4. RegistrationHeld'
  BY DEF Typed, Seated, Registered, RegistrationHeld, ReservationHeld, Reserved
<1> QED
  BY <1>1, <1>2, <1>3, <1>4

LEMMA UnlinkKeeps ==
    ASSUME HostsApart, LinkInv, NEW h \in World!Hosts, World!Unlink(h)
    PROVE  LinkInv'
<1> USE DEF HostsApart, LinkInv, World!Unlink, World!Goes, World!P, World!Hosts
<1>1. Typed'
  BY DEF Typed, Seated, World!Life
<1>2. SegmentHeld'
  BY DEF Typed, Seated, SegmentHeld
<1>3. ReservationHeld'
  BY DEF Typed, Seated, Reserved, ReservationHeld
<1>4. RegistrationHeld'
  BY DEF Typed, Seated, Registered, RegistrationHeld, ReservationHeld, Reserved
<1> QED
  BY <1>1, <1>2, <1>3, <1>4

\* A console that attaches or detaches touches none of it.
LEMMA ConsolesPass ==
    ASSUME LinkInv, UNCHANGED <<shared, proc, pc, runs, segment, laid, reserved, builder>>
    PROVE  LinkInv'
BY DEF LinkInv, Typed, SegmentHeld, ReservationHeld, RegistrationHeld, World!P

LEMMA LinkSteps ==
    ASSUME HostsApart, LinkInv, [World!Next]_(World!vars)
    PROVE  LinkInv'
<1>1. CASE UNCHANGED World!vars
  BY <1>1, ConsolesPass DEF World!vars
<1>2. ASSUME NEW h \in World!Hosts, World!HostStep(h)
      PROVE  LinkInv'
  BY <1>2, MakeSeatKeeps, LayHeadKeeps, ReserveKeeps, BeginsKeeps, OpenKeeps, BootKeeps,
     ShutdownKeeps, LifespanEndsKeeps, FreeLinkKeeps, ForgetKeeps, UnlinkKeeps DEF World!HostStep
<1>3. ASSUME NEW c \in Viewers, World!Attach(c) \/ World!Detach(c)
      PROVE  LinkInv'
  BY <1>3, ConsolesPass DEF World!Attach, World!Detach
<1> QED
  BY <1>1, <1>2, <1>3 DEF World!Next

LEMMA LinkStarts ==
    ASSUME HostsApart, World!Init
    PROVE  LinkInv
<1> USE DEF HostsApart, World!Init, World!Hosts
<1>1. Typed
  BY DEF Typed
<1>2. SegmentHeld /\ ReservationHeld /\ RegistrationHeld
  BY DEF SegmentHeld, ReservationHeld, RegistrationHeld, Reserved
<1> QED
  BY <1>1, <1>2 DEF LinkInv

\* Two runners never run at one link: at a shm: link both would have the segment, in one process
\* both the reservation; and when everybody is off nobody has anything of the link.
LEMMA LinkFollows ==
    ASSUME HostsApart, LinkInv
    PROVE  World!LinkOwned
<1> USE DEF HostsApart, LinkInv, World!Hosts
<1>1. ASSUME NEW h \in Runners, NEW g \in Runners, World!Running(h), World!Running(g)
      PROVE  h = g
  <2>1. CASE shared
    BY <1>1, <2>1 DEF SegmentHeld, World!Running
  <2>2. CASE ~shared
    <3>1. World!P(h) = World!P(g)
      BY <2>2 DEF Typed, World!P
    <3> QED
      BY <1>1, <3>1 DEF ReservationHeld, Reserved, World!Running
  <2> QED
    BY <2>1, <2>2
<1>2. /\ \A h \in Sessions : pc[h] = "serving" => builder[World!P(h)] = h
      /\ \A p \in Procs : builder[p] # None => pc[builder[p]] # "off"
  BY DEF RegistrationHeld, Registered
<1>3. World!NothingLeft
  BY DEF World!NothingLeft, Typed, SegmentHeld, ReservationHeld, RegistrationHeld, Reserved, Registered
<1> QED
  BY <1>1, <1>2, <1>3 DEF World!LinkOwned, World!OneRunner

\* One link has one image: however runners and sessions of any processes race for it, no two
\* machines run at it, no running session loses its registration, and a link nobody runs at is
\* free for the next (live/seat.py, server/live/runner.py, console/world.py).
THEOREM LinkAlwaysOwned ==
    ASSUME HostsApart
    PROVE  World!Spec => []World!LinkOwned
<1>1. World!Init => LinkInv
  BY LinkStarts
<1>2. LinkInv /\ [World!Next]_(World!vars) => LinkInv'
  BY LinkSteps
<1>3. LinkInv => World!LinkOwned
  BY LinkFollows
<1> QED
  BY <1>1, <1>2, <1>3, PTL DEF World!Spec

-----------------------------------------------------------------------------
(* The threads of the machine that runs there *)

\* None and the other process are neither a thread nor this process.
ThreadsApart == None \notin Threads /\ None # "here" /\ Outsider # "here"

\* Where a thread has the lock of the process, and where it has the lock of the segment too.
Gated == {"flock", "inside", "leaf", "drop", "exit"}
Locked == Gated \ {"flock"}

\* A thread the closed descriptor turned away keeps the lock of the process, so having it says
\* nothing of where a thread stands; standing in the gate says it has both.
MachineInv ==
    /\ DOMAIN stands = Threads
    /\ \A t \in Threads : /\ stands[t] \in Gated => held = t
                          /\ stands[t] \in Locked => flock = "here"
                          /\ stands[t] = "leaf" => ~closed
    /\ ~closed => mapped

LEMMA MachineSteps ==
    ASSUME ThreadsApart, MachineInv, [World!MachineNext]_(World!machineVars)
    PROVE  MachineInv'
<1> USE DEF ThreadsApart, MachineInv, Gated, Locked, World!Stands
<1>1. CASE UNCHANGED World!machineVars
  BY <1>1 DEF World!machineVars
<1>2. CASE World!PeerEnters \/ World!PeerLeaves
  BY <1>2 DEF World!PeerEnters, World!PeerLeaves
<1>3. ASSUME NEW t \in Threads, World!Call(t) \/ World!Close(t)
      PROVE  MachineInv'
  BY <1>3 DEF World!Call, World!Close
<1>4. ASSUME NEW t \in Threads, World!ThreadStep(t)
      PROVE  MachineInv'
  <2>1. CASE World!Acquire(t)
    BY <2>1 DEF World!Acquire
  <2>2. CASE World!Flock(t)
    BY <2>2 DEF World!Flock
  <2>3. CASE World!Inside(t)
    BY <2>3 DEF World!Inside
  <2>4. CASE World!Leaf(t)
    BY <2>4 DEF World!Leaf
  <2>5. CASE World!Drop(t)
    BY <2>5 DEF World!Drop
  <2>6. CASE World!Exit(t)
    BY <2>6 DEF World!Exit
  <2>7. CASE World!Descriptor(t) \/ World!Answered(t)
    BY <2>7 DEF World!Descriptor, World!Answered
  <2> QED
    BY <1>4, <2>1, <2>2, <2>3, <2>4, <2>5, <2>6, <2>7 DEF World!ThreadStep
<1> QED
  BY <1>1, <1>2, <1>3, <1>4 DEF World!MachineNext

LEMMA MachineStarts == World!MachineInit => MachineInv
  BY DEF World!MachineInit, MachineInv, Gated, Locked

LEMMA LeafFollows == MachineInv => World!NeverUnderLeaf
  BY DEF MachineInv, World!NeverUnderLeaf, Gated, Locked

\* No leaf runs in a block that is unmapped, or beside another in any process: a close waits its
\* turn at the gate, and who comes after it looks again (live/machine.py, live/link.py).
THEOREM LeafIsAlone ==
    ASSUME ThreadsApart
    PROVE  World!MachineSpec => []World!NeverUnderLeaf
<1>1. World!MachineInit => MachineInv
  BY MachineStarts
<1>2. MachineInv /\ [World!MachineNext]_(World!machineVars) => MachineInv'
  BY MachineSteps
<1>3. MachineInv => World!NeverUnderLeaf
  BY LeafFollows
<1> QED
  BY <1>1, <1>2, <1>3, PTL DEF World!MachineSpec

-----------------------------------------------------------------------------
(* The users of a front end: what is installed and what the mirrors hold     *)

\* What an image holds has four parts, and None is neither that nor a user.
IsState(s) == s = [slot \in {"source", "out", "fns", "cells"} |-> s[slot]]
FrontsApart ==
    /\ Fronts # {} /\ Consoles \subseteq Users /\ None \notin Users
    /\ \A s : IsState(s) => s # None

Within == {"send", "run", "read", "verdict", "install"}
IsUser(m) == m = [slot \in {"at", "words", "text", "name", "twice"} |-> m[slot]]
IsTyped(t) ==
    t = [slot \in {"keys", "lines", "sent", "submitted", "installed", "refused", "result", "over"} |-> t[slot]]

FrontTyped ==
    /\ front \in [Users -> Fronts] /\ inside \in Users \cup {None}
    /\ IsState(running)
    /\ mirror = [f \in Fronts |-> mirror[f]] /\ \A f \in Fronts : mirror[f] = None \/ IsState(mirror[f])
    /\ user = [u \in Users |-> user[u]] /\ \A u \in Users : IsUser(user[u])
    /\ typing \in [Consoles -> Seq(Lines)]
    /\ typed = [u \in Consoles |-> typed[u]] /\ \A u \in Consoles : IsTyped(typed[u])
    /\ faults \in Nat

\* Whoever has the transaction is on its way through it, and nobody else.
OneInside == \A u \in Users : IF inside = u THEN user[u].at \in Within ELSE user[u].at = "idle"

\* What the one inside has from the image is made of the text it submitted.
Carried == \A u \in Users :
    /\ user[u].at # "idle" => Front!Of(u) # None /\ user[u].name = Front!NameOf(user[u].text)
    /\ user[u].at = "run" => running.source = user[u].text
    /\ user[u].at = "read" => running.out = Front!Words(user[u].text)
    /\ user[u].at \in {"verdict", "install"} => user[u].words = Front!Words(user[u].text)
    /\ user[u].at = "install" => Front!Compiles(user[u].text)

\* The one mirror is the image, but for the words a run has written and nobody read.
Follows ==
    faults = 0 /\ (\A u, v \in Users : front[u] = front[v]) =>
      \A u \in Users :
        \/ Front!Of(u) = running
        \/ inside = None /\ Front!Of(u) = None
        \/ \E v \in Users : inside = v /\ user[v].at = "read"
                            /\ running = [Front!Of(u) EXCEPT !.out = running.out]

Counted == \A u \in Consoles :
    /\ {typed[u].lines, typed[u].sent, typed[u].submitted, typed[u].installed, typed[u].refused} \subseteq Nat
    /\ typed[u].lines = typed[u].sent + Len(typing[u])
    /\ typed[u].over => typing[u] = <<>>
    /\ typed[u].submitted = typed[u].installed + typed[u].refused

FrontInv ==
    FrontTyped /\ OneInside /\ Carried /\ Follows /\ Counted /\ Front!InstalledIsSubmitted

LEMMA FrontStarts ==
    ASSUME FrontsApart, Front!Init
    PROVE  FrontInv
<1>1. front \in [Users -> Fronts]
  BY DEF Front!Init, FrontsApart
<1>2. FrontTyped
  <2>1. IsState(running) /\ inside = None
    BY DEF Front!Init, IsState
  <2>2. mirror = [f \in Fronts |-> mirror[f]] /\ \A f \in Fronts : mirror[f] = None
    BY DEF Front!Init
  <2>3. user = [u \in Users |-> user[u]] /\ \A u \in Users : IsUser(user[u])
    BY DEF Front!Init, IsUser
  <2>4. typing \in [Consoles -> Seq(Lines)]
    BY DEF Front!Init
  <2>5. typed = [u \in Consoles |-> typed[u]] /\ \A u \in Consoles : IsTyped(typed[u])
    BY DEF Front!Init, IsTyped
  <2> QED
    BY <1>1, <2>1, <2>2, <2>3, <2>4, <2>5 DEF FrontTyped, Front!Init
<1>3. OneInside /\ Carried
  BY DEF FrontsApart, Front!Init, OneInside, Carried
<1>4. Follows
  BY <1>1 DEF Front!Init, Follows, Front!Of
<1>5. Counted /\ Front!InstalledIsSubmitted
  BY DEF Front!Init, Counted, Front!InstalledIsSubmitted
<1> QED
  BY <1>2, <1>3, <1>4, <1>5 DEF FrontInv

\* How a user moves on, and how a call is counted when it returns.
LEMMA GoesOn ==
    ASSUME FrontTyped, NEW u \in Users, NEW place, Front!Goes(u, place)
    PROVE  /\ user' = [v \in Users |-> user'[v]] /\ \A v \in Users : IsUser(user'[v])
           /\ user'[u].at = place
           /\ \A v \in Users : v # u => user'[v] = user[v]
           /\ \A v \in Users : /\ user'[v].words = user[v].words /\ user'[v].text = user[v].text
                               /\ user'[v].name = user[v].name /\ user'[v].twice = user[v].twice
  BY DEF FrontTyped, IsUser, Front!Goes

LEMMA ToldCounts ==
    ASSUME FrontTyped, Counted, NEW u \in Users, NEW outcome, Front!Told(u, outcome), UNCHANGED typing
    PROVE  /\ typed' = [c \in Consoles |-> typed'[c]] /\ \A c \in Consoles : IsTyped(typed'[c])
           /\ Counted'
<1>1. CASE u \notin Consoles
  BY <1>1 DEF Front!Told, FrontTyped, Counted
<1>2. CASE u \in Consoles
  <2>1. /\ typed' = [c \in Consoles |-> typed'[c]]
        /\ \A c \in Consoles : c # u => typed'[c] = typed[c]
        /\ typed'[u] = [typed[u] EXCEPT !.submitted = @ + 1, !.result = outcome,
                              !.installed = IF outcome = "installed" THEN @ + 1 ELSE @,
                              !.refused = IF outcome = "installed" THEN @ ELSE @ + 1]
    BY <1>2 DEF Front!Told, FrontTyped
  <2>2. /\ typed'[u].lines = typed[u].lines /\ typed'[u].sent = typed[u].sent
        /\ typed'[u].submitted = typed[u].submitted + 1
        /\ \/ typed'[u].installed = typed[u].installed + 1 /\ typed'[u].refused = typed[u].refused
           \/ typed'[u].installed = typed[u].installed /\ typed'[u].refused = typed[u].refused + 1
    BY <1>2, <2>1 DEF FrontTyped, IsTyped
  <2>5. IsTyped(typed'[u]) /\ typed'[u].over = typed[u].over
    BY <1>2, <2>1 DEF FrontTyped, IsTyped
  <2>3. \A c \in Consoles : IsTyped(typed'[c])
    BY <2>1, <2>5 DEF FrontTyped
  <2>4. Counted'
    <3> SUFFICES ASSUME NEW c \in Consoles
                 PROVE  /\ {typed'[c].lines, typed'[c].sent, typed'[c].submitted, typed'[c].installed,
                            typed'[c].refused} \subseteq Nat
                        /\ typed'[c].lines = typed'[c].sent + Len(typing[c])
                        /\ typed'[c].over => typing[c] = <<>>
                        /\ typed'[c].submitted = typed'[c].installed + typed'[c].refused
      BY DEF Counted
    <3>1. CASE c # u
      BY <2>1, <3>1 DEF Counted
    <3>2. CASE c = u
      <4>1. /\ typed[u].lines \in Nat /\ typed[u].sent \in Nat /\ typed[u].submitted \in Nat
            /\ typed[u].installed \in Nat /\ typed[u].refused \in Nat
            /\ typed[u].submitted = typed[u].installed + typed[u].refused
        BY <1>2 DEF Counted
      <4>2. /\ typed'[u].lines \in Nat /\ typed'[u].sent \in Nat /\ typed'[u].submitted \in Nat
            /\ typed'[u].installed \in Nat /\ typed'[u].refused \in Nat
            /\ typed'[u].submitted = typed'[u].installed + typed'[u].refused
        BY ONLY <2>2, <4>1
      <4>3. typed'[u].lines = typed'[u].sent + Len(typing[u]) /\ (typed'[u].over => typing[u] = <<>>)
        BY <1>2, <2>2, <2>5 DEF Counted
      <4> QED
        BY <3>2, <4>2, <4>3
    <3> QED
      BY <3>1, <3>2
  <2> QED
    BY <2>1, <2>3, <2>4
<1> QED
  BY <1>1, <1>2

LEMMA SendKeeps ==
    ASSUME FrontsApart, FrontInv, NEW u \in Users, Front!SendSource(u), UNCHANGED front
    PROVE  FrontInv'
<1> DEFINE f == front[u]
           delta == [set |-> "source", value |-> user[u].text]
<1>1. /\ inside = u /\ f \in Fronts /\ Front!Of(u) = mirror[f] /\ IsState(mirror[f])
      /\ user[u].name = Front!NameOf(user[u].text)
      /\ \A v \in Users : v # u => user[v].at = "idle"
  BY DEF FrontInv, FrontTyped, OneInside, Carried, Front!SendSource, Front!Of
<1>2. /\ mirror' = [mirror EXCEPT ![f] = Front!Takes(@, delta)]
      /\ UNCHANGED <<typing, pokes, front>>
      /\ \/ /\ running = mirror[f] /\ running' = Front!Takes(running, delta)
            /\ UNCHANGED faults /\ Front!Goes(u, "run") /\ UNCHANGED <<inside, typed>>
         \/ /\ UNCHANGED running /\ (running = mirror[f] => faults' = faults + 1)
            /\ faults' \in {faults, faults + 1} /\ Front!Leaves(u, "refused")
  BY <1>1 DEF Front!SendSource, Front!SendDelta, Front!Holds, Front!Lands, Front!Fault, FrontTyped, FrontInv
<1>3. \A s : IsState(s) => /\ IsState(Front!Takes(s, delta))
                           /\ Front!Takes(s, delta).source = user[u].text
                           /\ Front!Takes(s, delta).fns = s.fns
  BY DEF IsState, Front!Takes
<1>4. IsState(running') /\ running'.fns = running.fns
  BY <1>2, <1>3 DEF FrontInv, FrontTyped
<1>5. mirror' = [g \in Fronts |-> mirror'[g]] /\ \A g \in Fronts : mirror'[g] = None \/ IsState(mirror'[g])
  BY <1>1, <1>2, <1>3 DEF FrontInv, FrontTyped
<1>6. /\ user' = [v \in Users |-> user'[v]] /\ \A v \in Users : IsUser(user'[v])
      /\ user'[u].at \in {"run", "idle"} /\ \A v \in Users : v # u => user'[v] = user[v]
      /\ user'[u].name = user[u].name /\ user'[u].text = user[u].text
      /\ user'[u].at = "run" => inside' = u /\ running' = Front!Takes(running, delta) /\ running = mirror[f]
      /\ user'[u].at = "idle" => inside' = None
  BY <1>1, <1>2, GoesOn DEF FrontInv, Front!Leaves
<1>7. /\ typed' = [c \in Consoles |-> typed'[c]] /\ \A c \in Consoles : IsTyped(typed'[c])
      /\ Counted'
  BY <1>2, ToldCounts DEF FrontInv, Front!Leaves, FrontTyped, Counted
<1>8. FrontTyped'
  <2>1. faults' \in Nat
    BY <1>2 DEF FrontTyped, FrontInv
  <2>2. inside' \in Users \cup {None} /\ front' \in [Users -> Fronts] /\ typing' \in [Consoles -> Seq(Lines)]
    BY <1>2, <1>6 DEF FrontTyped, FrontInv
  <2> QED
    BY <1>4, <1>5, <1>6, <1>7, <2>1, <2>2 DEF FrontTyped
<1>9. OneInside'
  BY <1>1, <1>6 DEF OneInside, Within, FrontsApart
<1>10. Carried'
  BY <1>1, <1>2, <1>3, <1>5, <1>6 DEF Carried, Front!Of, FrontsApart
<1>11. Follows'
  <2> SUFFICES ASSUME faults' = 0, \A v, w \in Users : front[v] = front[w], NEW w \in Users
               PROVE  mirror'[front[w]] = running'
    BY <1>2 DEF Follows, Front!Of
  <2>1. faults = 0 /\ faults' = faults
    BY <1>2 DEF FrontInv, FrontTyped
  <2>2. running = mirror[f]
    BY <1>1, <2>1 DEF FrontInv, Follows, Front!SendSource, FrontsApart
  <2> QED
    BY <1>1, <1>2, <2>1, <2>2 DEF FrontInv, FrontTyped
<1>12. (Front!InstalledIsSubmitted)'
  BY <1>4 DEF Front!InstalledIsSubmitted, FrontInv
<1> QED
  BY <1>7, <1>8, <1>9, <1>10, <1>11, <1>12 DEF FrontInv

LEMMA EntersKeeps ==
    ASSUME FrontsApart, FrontInv, NEW u \in Users, NEW text, user[u].at = "idle",
           Front!Enters(u, text, Front!NameOf(text)), UNCHANGED <<front, running, faults>>
    PROVE  /\ user' = [v \in Users |-> user'[v]] /\ \A v \in Users : IsUser(user'[v])
           /\ mirror' = [f \in Fronts |-> mirror'[f]]
           /\ \A f \in Fronts : mirror'[f] = None \/ IsState(mirror'[f])
           /\ inside' \in Users \cup {None} /\ OneInside' /\ Carried' /\ Follows'
<1> DEFINE f == front[u]
<1>1. /\ inside = None /\ inside' = u /\ f \in Fronts /\ Front!Of(u) = mirror[f]
      /\ \A v \in Users : user[v].at = "idle"
  BY DEF FrontInv, FrontTyped, OneInside, Front!Enters, Front!Free, Front!Of, FrontsApart
<1>2. mirror' = IF mirror[f] = None THEN [mirror EXCEPT ![f] = running] ELSE mirror
  BY DEF Front!Enters, Front!Of
<1>3. /\ mirror' = [g \in Fronts |-> mirror'[g]]
      /\ \A g \in Fronts : mirror'[g] = None \/ IsState(mirror'[g])
      /\ mirror'[f] # None /\ mirror'[f] = IF mirror[f] = None THEN running ELSE mirror[f]
  BY <1>1, <1>2 DEF FrontInv, FrontTyped, FrontsApart
<1>4. /\ user' = [v \in Users |-> user'[v]] /\ \A v \in Users : v # u => user'[v] = user[v]
      /\ IsUser(user'[u]) /\ user'[u].at = "send" /\ user'[u].text = text
      /\ user'[u].name = Front!NameOf(text)
  <2> DEFINE now == [user[u] EXCEPT !.at = "send", !.text = text, !.name = Front!NameOf(text),
                                    !.words = None, !.twice = u \notin Consoles]
  <2>1. user' = [user EXCEPT ![u] = now]
    BY DEF Front!Enters
  <2>2. /\ user' = [v \in Users |-> user'[v]] /\ \A v \in Users : v # u => user'[v] = user[v]
        /\ user'[u] = now
    BY <2>1 DEF FrontInv, FrontTyped
  <2>3. IsUser(user[u])
    BY DEF FrontInv, FrontTyped
  <2>4. IsUser(now) /\ now.at = "send" /\ now.text = text /\ now.name = Front!NameOf(text)
    BY <2>3 DEF IsUser
  <2> QED
    BY <2>2, <2>4
<1>5. \A v \in Users : IsUser(user'[v])
  BY <1>4 DEF FrontInv, FrontTyped
<1>6. OneInside'
  BY <1>1, <1>4 DEF OneInside, Within
<1>7. Carried'
  <2> SUFFICES ASSUME NEW v \in Users, user'[v].at # "idle"
               PROVE  /\ mirror'[front[v]] # None /\ user'[v].name = Front!NameOf(user'[v].text)
                      /\ user'[v].at = "send"
    BY DEF Carried, Front!Of
  <2> QED
    BY <1>1, <1>3, <1>4
<1>8. Follows'
  <2> SUFFICES ASSUME faults = 0, \A v, w \in Users : front[v] = front[w], NEW w \in Users
               PROVE  mirror'[front[w]] = running
    BY DEF Follows, Front!Of
  <2> QED
    BY <1>1, <1>3 DEF FrontInv, Follows, FrontsApart
<1> QED
  BY <1>1, <1>3, <1>4, <1>5, <1>6, <1>7, <1>8

LEMMA LeavesKeeps ==
    ASSUME FrontsApart, FrontInv, NEW u \in Users, NEW outcome, inside = u,
           Front!Leaves(u, outcome), UNCHANGED typing
    PROVE  /\ user' = [v \in Users |-> user'[v]] /\ \A v \in Users : IsUser(user'[v])
           /\ typed' = [c \in Consoles |-> typed'[c]] /\ \A c \in Consoles : IsTyped(typed'[c])
           /\ Counted' /\ inside' = None /\ OneInside' /\ Carried'
<1>1. /\ user' = [v \in Users |-> user'[v]] /\ \A v \in Users : IsUser(user'[v])
      /\ \A v \in Users : user'[v].at = "idle"
  BY GoesOn DEF FrontInv, OneInside, FrontsApart, Front!Leaves
<1>2. /\ typed' = [c \in Consoles |-> typed'[c]] /\ \A c \in Consoles : IsTyped(typed'[c])
      /\ Counted'
  BY ToldCounts DEF FrontInv, Front!Leaves
<1>3. inside' = None
  BY DEF Front!Leaves
<1> QED
  BY <1>1, <1>2, <1>3 DEF OneInside, Carried, FrontsApart

LEMMA RunKeeps ==
    ASSUME FrontsApart, FrontInv, NEW u \in Users, Front!Run(u), UNCHANGED front
    PROVE  FrontInv'
<1>1. /\ inside = u /\ user[u].at = "run" /\ running.source = user[u].text
      /\ UNCHANGED <<mirror, inside, typing, typed, pokes, faults, front>>
      /\ \A v \in Users : v # u => user[v].at = "idle"
  BY DEF FrontInv, FrontTyped, OneInside, Carried, Front!Run
<1>2. /\ user' = [v \in Users |-> user'[v]] /\ \A v \in Users : IsUser(user'[v])
      /\ user'[u].at = "read" /\ \A v \in Users : v # u => user'[v] = user[v]
      /\ user'[u].name = user[u].name /\ user'[u].text = user[u].text
  BY GoesOn DEF FrontInv, Front!Run
<1>3. /\ IsState(running') /\ running'.out = Front!Words(user[u].text) /\ running'.fns = running.fns
      /\ running' = [running EXCEPT !.out = running'.out]
  BY <1>1 DEF FrontInv, FrontTyped, IsState, Front!Run
<1>4. FrontTyped'
  BY <1>1, <1>2, <1>3 DEF FrontInv, FrontTyped
<1>5. OneInside' /\ Carried'
  BY <1>1, <1>2, <1>3 DEF FrontInv, OneInside, Carried, Within, Front!Of, FrontsApart
<1>6. Follows'
  <2> SUFFICES ASSUME faults = 0, \A v, w \in Users : front[v] = front[w], NEW w \in Users
               PROVE  running' = [mirror[front[w]] EXCEPT !.out = running'.out]
    BY <1>1, <1>2 DEF Follows, Front!Of
  <2> QED
    BY <1>1, <1>3 DEF FrontInv, Follows, Front!Of, FrontsApart
<1>7. Counted' /\ (Front!InstalledIsSubmitted)'
  BY <1>1, <1>3 DEF FrontInv, Counted, Front!InstalledIsSubmitted
<1> QED
  BY <1>4, <1>5, <1>6, <1>7 DEF FrontInv

LEMMA ReadOutKeeps ==
    ASSUME FrontsApart, FrontInv, NEW u \in Users, Front!ReadOut(u), UNCHANGED front
    PROVE  FrontInv'
<1> DEFINE f == front[u]
<1>1. /\ inside = u /\ user[u].at = "read" /\ running.out = Front!Words(user[u].text)
      /\ UNCHANGED <<running, typing, pokes, front>> /\ f \in Fronts
      /\ mirror[f] # None /\ IsState(mirror[f]) /\ Front!Of(u) = mirror[f]
      /\ user[u].name = Front!NameOf(user[u].text)
      /\ \A v \in Users : v # u => user[v].at = "idle"
  BY DEF FrontInv, FrontTyped, OneInside, Carried, Front!ReadOut, Front!Of
<1>2. Counted' /\ (Front!InstalledIsSubmitted)' /\ faults' \in Nat
      /\ typed' = [c \in Consoles |-> typed'[c]] /\ \A c \in Consoles : IsTyped(typed'[c])
  <2>1. CASE UNCHANGED <<typed, faults>>
    BY <1>1, <2>1 DEF FrontInv, FrontTyped, Counted, Front!InstalledIsSubmitted
  <2>2. CASE Front!Fault /\ Front!Leaves(u, "refused")
    BY <1>1, <2>2, LeavesKeeps DEF FrontInv, FrontTyped, Front!Fault, Front!InstalledIsSubmitted
  <2> QED
    BY <2>1, <2>2 DEF Front!ReadOut
<1>3. CASE /\ user' = [user EXCEPT ![u].words = running.out, ![u].at = "verdict"]
           /\ mirror' = [mirror EXCEPT ![f].out = running.out]
           /\ UNCHANGED <<inside, typed, faults>>
  <2>1. /\ user' = [v \in Users |-> user'[v]] /\ \A v \in Users : v # u => user'[v] = user[v]
        /\ IsUser(user'[u]) /\ user'[u].at = "verdict" /\ user'[u].words = running.out
        /\ user'[u].text = user[u].text /\ user'[u].name = user[u].name
    <3> DEFINE now == [user[u] EXCEPT !.words = running.out, !.at = "verdict"]
    <3>1. /\ user' = [v \in Users |-> user'[v]] /\ \A v \in Users : v # u => user'[v] = user[v]
          /\ user'[u] = now
      BY <1>3 DEF FrontInv, FrontTyped
    <3>2. IsUser(user[u])
      BY DEF FrontInv, FrontTyped
    <3>3. IsUser(now) /\ now.at = "verdict" /\ now.words = running.out /\ now.text = user[u].text
          /\ now.name = user[u].name
      BY <3>2 DEF IsUser
    <3> QED
      BY <3>1, <3>3
  <2>2. /\ mirror' = [g \in Fronts |-> mirror'[g]] /\ \A g \in Fronts : g # f => mirror'[g] = mirror[g]
        /\ mirror'[f] = [mirror[f] EXCEPT !.out = running.out] /\ IsState(mirror'[f])
    BY <1>1, <1>3 DEF FrontInv, FrontTyped, IsState
  <2>3. FrontTyped'
    BY <1>1, <1>2, <1>3, <2>1, <2>2 DEF FrontInv, FrontTyped
  <2>4. OneInside' /\ Carried'
    BY <1>1, <1>3, <2>1, <2>2 DEF FrontInv, OneInside, Carried, Within, Front!Of, FrontsApart
  <2>5. Follows'
    <3> SUFFICES ASSUME faults = 0, \A v, w \in Users : front[v] = front[w], NEW w \in Users
                 PROVE  mirror'[front[w]] = running
      BY <1>1, <1>3 DEF Follows, Front!Of
    <3>1. front[w] = f
      OBVIOUS
    <3>2. running = mirror[f] \/ running = [mirror[f] EXCEPT !.out = running.out]
      BY <1>1 DEF FrontInv, Follows, FrontsApart, Front!Of
    <3>3. IsState(running)
      BY DEF FrontInv, FrontTyped
    <3> QED
      BY <2>2, <3>1, <3>2, <3>3 DEF IsState
  <2> QED
    BY <1>2, <2>3, <2>4, <2>5 DEF FrontInv
<1>4. CASE Front!Fault /\ Front!Leaves(u, "refused") /\ UNCHANGED mirror
  <2>1. /\ user' = [v \in Users |-> user'[v]] /\ \A v \in Users : IsUser(user'[v])
        /\ inside' = None /\ OneInside' /\ Carried' /\ faults' # 0
    BY <1>1, <1>4, LeavesKeeps DEF FrontInv, FrontTyped, Front!Fault
  <2>2. FrontTyped' /\ Follows'
    BY <1>1, <1>2, <1>4, <2>1 DEF FrontInv, FrontTyped, Follows
  <2> QED
    BY <1>2, <2>1, <2>2 DEF FrontInv
<1> QED
  BY <1>3, <1>4 DEF Front!ReadOut

LEMMA VerdictKeeps ==
    ASSUME FrontsApart, FrontInv, NEW u \in Users, Front!VerdictOf(u), UNCHANGED front
    PROVE  FrontInv'
<1>1. /\ inside = u /\ user[u].at = "verdict" /\ user[u].words = Front!Words(user[u].text)
      /\ UNCHANGED <<running, mirror, typing, pokes, faults, front>>
      /\ \A v \in Users : v # u => user[v].at = "idle"
  BY DEF FrontInv, FrontTyped, OneInside, Carried, Front!VerdictOf
<1>2. ASSUME faults = 0, \A v, w \in Users : front[v] = front[w], NEW w \in Users
      PROVE  mirror[front[w]] = running
  BY <1>1, <1>2 DEF FrontInv, Follows, FrontsApart, Front!Of
<1>3. Follows' /\ (Front!InstalledIsSubmitted)'
  BY <1>1, <1>2 DEF FrontInv, Follows, Front!Of, Front!InstalledIsSubmitted
<1>4. CASE Front!Leaves(u, "refused")
  <2>1. /\ user' = [v \in Users |-> user'[v]] /\ \A v \in Users : IsUser(user'[v])
        /\ typed' = [c \in Consoles |-> typed'[c]] /\ \A c \in Consoles : IsTyped(typed'[c])
        /\ Counted' /\ inside' = None /\ OneInside' /\ Carried'
    BY <1>1, <1>4, LeavesKeeps
  <2>2. FrontTyped'
    BY <1>1, <2>1 DEF FrontInv, FrontTyped
  <2> QED
    BY <1>3, <2>1, <2>2 DEF FrontInv
<1>5. CASE /\ Front!Compiles(user[u].text) /\ UNCHANGED <<inside, typed>>
           /\ user' = [user EXCEPT ![u].at = IF user[u].twice THEN "send" ELSE "install",
                                   ![u].twice = FALSE]
  <2>1. /\ user' = [v \in Users |-> user'[v]] /\ \A v \in Users : v # u => user'[v] = user[v]
        /\ IsUser(user'[u]) /\ user'[u].at \in {"send", "install"} /\ user'[u].words = user[u].words
        /\ user'[u].text = user[u].text /\ user'[u].name = user[u].name
    <3> DEFINE next == IF user[u].twice THEN "send" ELSE "install"
               now == [user[u] EXCEPT !.at = next, !.twice = FALSE]
    <3>1. /\ user' = [v \in Users |-> user'[v]] /\ \A v \in Users : v # u => user'[v] = user[v]
          /\ user'[u] = now
      BY <1>5 DEF FrontInv, FrontTyped
    <3>2. IsUser(user[u]) /\ next \in {"send", "install"}
      BY DEF FrontInv, FrontTyped
    <3> HIDE DEF next
    <3>3. IsUser(now) /\ now.at = next /\ now.words = user[u].words /\ now.text = user[u].text
          /\ now.name = user[u].name
      BY <3>2 DEF IsUser
    <3> QED
      BY <3>1, <3>2, <3>3
  <2>2. FrontTyped'
    BY <1>1, <1>5, <2>1 DEF FrontInv, FrontTyped
  <2>3. OneInside' /\ Carried'
    <3>1. OneInside'
      BY <1>1, <1>5, <2>1 DEF FrontInv, OneInside, Within
    <3>2. Front!Of(u) # None /\ user[u].name = Front!NameOf(user[u].text)
      BY <1>1 DEF FrontInv, Carried
    <3>3. \A v \in Users : mirror'[front'[v]] = mirror[front[v]]
      BY <1>1
    <3> QED
      BY <1>1, <1>5, <2>1, <3>1, <3>2, <3>3 DEF Carried, Front!Of
  <2> QED
    BY <1>1, <1>3, <1>5, <2>2, <2>3 DEF FrontInv, Counted
<1> QED
  BY <1>1, <1>4, <1>5 DEF Front!VerdictOf

LEMMA InstallKeeps ==
    ASSUME FrontsApart, FrontInv, NEW u \in Users, Front!InstallWords(u), UNCHANGED front
    PROVE  FrontInv'
<1> DEFINE f == front[u]
           fn == [name |-> user[u].name, words |-> user[u].words, text |-> user[u].text]
           delta == [set |-> "fns", value |-> fn]
<1>1. /\ inside = u /\ f \in Fronts /\ Front!Of(u) = mirror[f] /\ IsState(mirror[f])
      /\ user[u].name = Front!NameOf(user[u].text) /\ user[u].words = <<"words", user[u].text>>
      /\ \A v \in Users : v # u => user[v].at = "idle"
      /\ UNCHANGED <<front, typing, pokes>> /\ user[u].at = "install"
  BY DEF FrontInv, FrontTyped, OneInside, Carried, Front!InstallWords, Front!Of, Front!Words
<1>2. \/ UNCHANGED <<running, mirror, faults>>
      \/ mirror' = [mirror EXCEPT ![f] = Front!Takes(@, delta)]
         /\ \/ running = mirror[f] /\ running' = Front!Takes(running, delta) /\ UNCHANGED faults
            \/ /\ UNCHANGED running /\ faults' \in {faults, faults + 1}
               /\ running = mirror[f] => faults' = faults + 1
  BY <1>1 DEF Front!InstallWords, Front!SendDelta, Front!Lands, Front!Fault
<1>3. Front!Leaves(u, "installed") \/ Front!Leaves(u, "refused")
  BY <1>1 DEF Front!InstallWords, Front!SendDelta
<1>4. \A s : IsState(s) => IsState(Front!Takes(s, delta)) /\ Front!Takes(s, delta).fns = s.fns \cup {fn}
  BY DEF IsState, Front!Takes
<1>5. IsState(running') /\ running'.fns \in {running.fns, running.fns \cup {fn}}
  BY <1>2, <1>4 DEF FrontInv, FrontTyped
<1>6. mirror' = [g \in Fronts |-> mirror'[g]] /\ \A g \in Fronts : mirror'[g] = None \/ IsState(mirror'[g])
  BY <1>1, <1>2, <1>4 DEF FrontInv, FrontTyped
<1>7. /\ user' = [v \in Users |-> user'[v]] /\ \A v \in Users : IsUser(user'[v])
      /\ typed' = [c \in Consoles |-> typed'[c]] /\ \A c \in Consoles : IsTyped(typed'[c])
      /\ Counted' /\ inside' = None /\ OneInside' /\ Carried'
  BY <1>1, <1>3, LeavesKeeps
<1>8. FrontTyped'
  BY <1>1, <1>2, <1>5, <1>6, <1>7 DEF FrontTyped, FrontInv
<1>9. (Front!InstalledIsSubmitted)'
  BY <1>1, <1>5 DEF Front!InstalledIsSubmitted, FrontInv
<1>10. Follows'
  <2> SUFFICES ASSUME faults' = 0, \A v, w \in Users : front[v] = front[w], NEW w \in Users
               PROVE  mirror'[front[w]] = running'
    BY <1>1 DEF Follows, Front!Of
  <2>1. faults = 0 /\ faults' = faults
    BY <1>2 DEF FrontInv, FrontTyped
  <2>2. running = mirror[f]
    BY <1>1, <2>1 DEF FrontInv, Follows, FrontsApart
  <2> QED
    BY <1>1, <1>2, <2>1, <2>2 DEF FrontInv, FrontTyped
<1> QED
  BY <1>7, <1>8, <1>9, <1>10 DEF FrontInv

LEMMA PokeKeeps ==
    ASSUME FrontsApart, FrontInv, NEW u \in Users, Front!Poke(u), UNCHANGED front
    PROVE  FrontInv'
<1> DEFINE f == front[u]
<1>1. /\ inside = None /\ f \in Fronts /\ UNCHANGED <<front, inside, user, typing, typed, faults>>
      /\ \A v \in Users : user[v].at = "idle"
  BY DEF FrontInv, FrontTyped, OneInside, Front!Poke, Front!Free, FrontsApart
<1>2. IsState(running') /\ running'.fns = running.fns
  BY DEF FrontInv, FrontTyped, IsState, Front!Poke
<1>3. /\ mirror' = [g \in Fronts |-> mirror'[g]] /\ mirror'[f] = running'
      /\ \A g \in Fronts : g # f => mirror'[g] = mirror[g]
  BY <1>1 DEF FrontInv, FrontTyped, Front!Poke
<1>4. FrontTyped'
  BY <1>1, <1>2, <1>3 DEF FrontInv, FrontTyped
<1>5. OneInside' /\ Carried' /\ Counted' /\ (Front!InstalledIsSubmitted)'
  BY <1>1, <1>2 DEF FrontInv, OneInside, Carried, Counted, Front!InstalledIsSubmitted
<1>6. Follows'
  BY <1>1, <1>3 DEF Follows, Front!Of
<1> QED
  BY <1>4, <1>5, <1>6 DEF FrontInv

LEMMA EditKeeps ==
    ASSUME FrontsApart, FrontInv, NEW u \in Users, NEW text, Front!Edit(u, text), UNCHANGED front
    PROVE  FrontInv'
<1>1. /\ user[u].at = "idle" /\ Front!Enters(u, text, Front!NameOf(text))
      /\ UNCHANGED <<running, typing, typed, faults, front>>
  BY DEF Front!Edit
<1>2. FrontTyped'
  BY <1>1, EntersKeeps DEF FrontInv, FrontTyped
<1>3. Counted' /\ (Front!InstalledIsSubmitted)'
  BY <1>1 DEF FrontInv, Counted, Front!InstalledIsSubmitted
<1> QED
  BY <1>1, <1>2, <1>3, EntersKeeps DEF FrontInv

\* One console's typing and counts change together.
LEMMA CountsStep ==
    ASSUME FrontTyped, Counted, NEW u \in Consoles,
           typed' = [c \in Consoles |-> typed'[c]], IsTyped(typed'[u]),
           \A c \in Consoles : c # u => typed'[c] = typed[c] /\ typing'[c] = typing[c],
           {typed'[u].lines, typed'[u].sent, typed'[u].submitted, typed'[u].installed,
            typed'[u].refused} \subseteq Nat,
           typed'[u].lines = typed'[u].sent + Len(typing'[u]),
           typed'[u].over => typing'[u] = <<>>,
           typed'[u].submitted = typed'[u].installed + typed'[u].refused
    PROVE  Counted' /\ \A c \in Consoles : IsTyped(typed'[c])
<1>1. \A c \in Consoles : IsTyped(typed'[c])
  BY DEF FrontTyped
<1>2. ASSUME NEW c \in Consoles
      PROVE  /\ {typed'[c].lines, typed'[c].sent, typed'[c].submitted, typed'[c].installed,
                 typed'[c].refused} \subseteq Nat
             /\ typed'[c].lines = typed'[c].sent + Len(typing'[c])
             /\ typed'[c].over => typing'[c] = <<>>
             /\ typed'[c].submitted = typed'[c].installed + typed'[c].refused
  <2>1. CASE c = u
    BY <2>1
  <2>2. CASE c # u
    <3>1. typed'[c] = typed[c] /\ typing'[c] = typing[c]
      BY <2>2
    <3> QED
      BY <3>1 DEF Counted
  <2> QED
    BY <2>1, <2>2
<1> QED
  BY <1>1, <1>2 DEF Counted

\* What a submission of what was typed leaves: the lines it took, counted.
LEMMA EnterKeeps ==
    ASSUME FrontsApart, FrontInv, NEW u \in Consoles, user[u].at = "idle", Front!Enter(u),
           typing' = [typing EXCEPT ![u] = <<>>], UNCHANGED <<front, running, pokes, faults>>
    PROVE  FrontInv'
<1>1. u \in Users
  BY DEF FrontsApart
<1>2. /\ typing' \in [Consoles -> Seq(Lines)] /\ typing'[u] = <<>>
      /\ \A c \in Consoles : c # u => typing'[c] = typing[c]
  BY DEF FrontInv, FrontTyped
<1>3. /\ typed[u].lines \in Nat /\ typed[u].sent \in Nat /\ typed[u].submitted \in Nat
      /\ typed[u].installed \in Nat /\ typed[u].refused \in Nat
      /\ typed[u].submitted = typed[u].installed + typed[u].refused
      /\ typed[u].lines = typed[u].sent + Len(typing[u])
  BY DEF FrontInv, Counted
<1>4. Len(typing[u]) \in Nat /\ Len(typing'[u]) = 0
  BY <1>2 DEF FrontInv, FrontTyped
<1>5. /\ typed' = [c \in Consoles |-> typed'[c]]
      /\ \A c \in Consoles : c # u => typed'[c] = typed[c]
      /\ typed'[u].lines = typed[u].lines /\ typed'[u].sent = typed[u].sent + Len(typing[u])
      /\ typed'[u].installed = typed[u].installed
      /\ \/ typed'[u].submitted = typed[u].submitted /\ typed'[u].refused = typed[u].refused
         \/ /\ typed'[u].submitted = typed[u].submitted + 1
            /\ typed'[u].refused = typed[u].refused + 1
      /\ IsTyped(typed'[u])
  <2> DEFINE sending == [typed[u] EXCEPT !.sent = @ + Len(typing[u])]
             told == [sending EXCEPT !.submitted = @ + 1, !.refused = @ + 1]
  <2>1. /\ typed' = [c \in Consoles |-> typed'[c]]
        /\ \A c \in Consoles : c # u => typed'[c] = typed[c]
        /\ typed'[u] \in {sending, told}
    BY DEF Front!Enter, Front!Sent, FrontInv, FrontTyped
  <2>2. IsTyped(typed[u])
    BY DEF FrontInv, FrontTyped
  <2>3. /\ IsTyped(sending) /\ sending.lines = typed[u].lines /\ sending.sent = typed[u].sent + Len(typing[u])
        /\ sending.submitted = typed[u].submitted /\ sending.installed = typed[u].installed
        /\ sending.refused = typed[u].refused
    BY <2>2 DEF IsTyped
  <2> HIDE DEF sending
  <2>4. /\ IsTyped(told) /\ told.lines = sending.lines /\ told.sent = sending.sent
        /\ told.submitted = sending.submitted + 1 /\ told.installed = sending.installed
        /\ told.refused = sending.refused + 1
    BY <2>3 DEF IsTyped
  <2> HIDE DEF told
  <2> QED
    BY <2>1, <2>3, <2>4
<1>6. /\ typed'[u].lines \in Nat /\ typed'[u].sent \in Nat /\ typed'[u].submitted \in Nat
      /\ typed'[u].installed \in Nat /\ typed'[u].refused \in Nat
      /\ typed'[u].lines = typed'[u].sent + Len(typing'[u])
      /\ typed'[u].submitted = typed'[u].installed + typed'[u].refused
  <2> DEFINE l == typed[u].lines  s == typed[u].sent  m == typed[u].submitted
             i == typed[u].installed  r == typed[u].refused  n == Len(typing[u])
  <2>1. /\ l \in Nat /\ s \in Nat /\ m \in Nat /\ i \in Nat /\ r \in Nat /\ n \in Nat
        /\ l = s + n /\ m = i + r
    BY <1>3, <1>4
  <2>2. typed'[u].lines = l /\ typed'[u].sent = s + n /\ typed'[u].installed = i
    BY <1>5
  <2>3. \/ typed'[u].submitted = m /\ typed'[u].refused = r
        \/ typed'[u].submitted = m + 1 /\ typed'[u].refused = r + 1
    BY <1>5
  <2>4. s + n \in Nat /\ l = s + n + 0 /\ m + 1 \in Nat /\ r + 1 \in Nat /\ m + 1 = i + (r + 1)
    <3> HIDE DEF l, s, m, i, r, n
    <3> QED
      BY ONLY <2>1
  <2> QED
    BY <1>4, <2>1, <2>2, <2>3, <2>4
<1>7. Counted' /\ \A c \in Consoles : IsTyped(typed'[c])
  BY <1>2, <1>5, <1>6, CountsStep DEF FrontInv
<1>8. (Front!InstalledIsSubmitted)'
  BY DEF FrontInv, Front!InstalledIsSubmitted
<1>9. CASE UNCHANGED <<mirror, inside, user>>
  <2>1. FrontTyped'
    BY <1>2, <1>5, <1>7, <1>9 DEF FrontInv, FrontTyped
  <2>2. OneInside' /\ Carried' /\ Follows'
    BY <1>9 DEF FrontInv, OneInside, Carried, Follows, Front!Of
  <2> QED
    BY <1>7, <1>8, <2>1, <2>2 DEF FrontInv
<1>10. CASE Front!Enters(u, typing[u], Front!NameOf(typing[u]))
  <2>1. FrontTyped' /\ OneInside' /\ Carried' /\ Follows'
    BY <1>1, <1>2, <1>5, <1>7, <1>10, EntersKeeps DEF FrontInv, FrontTyped
  <2> QED
    BY <1>7, <1>8, <2>1 DEF FrontInv
<1> QED
  BY <1>9, <1>10 DEF Front!Enter

\* What stays of the rest when only the terminal of a console changes.
LEMMA TerminalKeeps ==
    ASSUME FrontInv, UNCHANGED <<front, running, mirror, inside, user, faults>>,
           typing' \in [Consoles -> Seq(Lines)], typed' = [c \in Consoles |-> typed'[c]],
           Counted', \A c \in Consoles : IsTyped(typed'[c])
    PROVE  FrontInv'
  BY DEF FrontInv, FrontTyped, OneInside, Carried, Follows, Front!Of, Front!InstalledIsSubmitted

LEMMA TypeKeeps ==
    ASSUME FrontsApart, FrontInv, NEW u \in Consoles, NEW word \in Lines \cup {"blank", "dot"},
           Front!Type(u, word), UNCHANGED front
    PROVE  FrontInv'
<1> DEFINE stops == word \in {"blank", "dot"}
<1>1. user[u].at = "idle" /\ ~typed[u].over /\ UNCHANGED <<front, running, pokes, faults>>
  BY DEF Front!Type, Front!Typing
<1>2. CASE Front!Enter(u) /\ typing' = [typing EXCEPT ![u] = <<>>]
  BY <1>1, <1>2, EnterKeeps
<1>3. CASE /\ UNCHANGED <<mirror, inside, user>>
           /\ typing' = IF stops THEN typing ELSE [typing EXCEPT ![u] = Append(@, word)]
           /\ typed' = [typed EXCEPT ![u].keys = @ + 1, ![u].lines = IF stops THEN @ ELSE @ + 1]
  <2>1. /\ typing' \in [Consoles -> Seq(Lines)]
        /\ \A c \in Consoles : c # u => typing'[c] = typing[c]
        /\ typing'[u] = IF stops THEN typing[u] ELSE Append(typing[u], word)
    BY <1>3 DEF FrontInv, FrontTyped
  <2>2. /\ typed' = [c \in Consoles |-> typed'[c]]
        /\ \A c \in Consoles : c # u => typed'[c] = typed[c]
        /\ typed'[u] = [typed[u] EXCEPT !.keys = @ + 1, !.lines = IF stops THEN @ ELSE @ + 1]
    BY <1>3 DEF FrontInv, FrontTyped
  <2>3. /\ IsTyped(typed'[u]) /\ typed'[u].lines = IF stops THEN typed[u].lines ELSE typed[u].lines + 1
        /\ typed'[u].sent = typed[u].sent /\ typed'[u].submitted = typed[u].submitted
        /\ typed'[u].installed = typed[u].installed /\ typed'[u].refused = typed[u].refused
        /\ typed'[u].over = typed[u].over
    BY <2>2 DEF FrontInv, FrontTyped, IsTyped
  <2>4. typing[u] \in Seq(Lines)
    BY DEF FrontInv, FrontTyped
  <2>5. Len(typing'[u]) = IF stops THEN Len(typing[u]) ELSE Len(typing[u]) + 1
    BY <2>1, <2>4
  <2>6. /\ typed[u].lines \in Nat /\ typed[u].sent \in Nat /\ typed[u].submitted \in Nat
        /\ typed[u].installed \in Nat /\ typed[u].refused \in Nat /\ Len(typing[u]) \in Nat
        /\ typed[u].submitted = typed[u].installed + typed[u].refused
        /\ typed[u].lines = typed[u].sent + Len(typing[u])
    BY <2>4 DEF FrontInv, Counted
  <2> HIDE DEF stops
  <2>7. /\ typed'[u].lines \in Nat /\ typed'[u].sent \in Nat /\ typed'[u].submitted \in Nat
        /\ typed'[u].installed \in Nat /\ typed'[u].refused \in Nat
        /\ typed'[u].lines = typed'[u].sent + Len(typing'[u])
        /\ typed'[u].submitted = typed'[u].installed + typed'[u].refused
    <3> DEFINE l == typed[u].lines  s == typed[u].sent  n == Len(typing[u])
    <3>1. /\ l \in Nat /\ s \in Nat /\ n \in Nat /\ l = s + n
          /\ typed'[u].lines = IF stops THEN l ELSE l + 1
          /\ Len(typing'[u]) = IF stops THEN n ELSE n + 1
      BY <2>3, <2>5, <2>6
    <3>2. typed'[u].lines = s + Len(typing'[u]) /\ typed'[u].lines \in Nat
      <4> HIDE DEF l, s, n
      <4> QED
        BY ONLY <3>1
    <3> QED
      BY <2>3, <2>6, <3>2
  <2>8. Counted' /\ \A c \in Consoles : IsTyped(typed'[c])
    BY <1>1, <2>1, <2>2, <2>3, <2>7, CountsStep DEF FrontInv
  <2> QED
    BY <1>1, <1>3, <2>1, <2>2, <2>8, TerminalKeeps
<1> QED
  BY <1>2, <1>3 DEF Front!Type

LEMMA OverKeeps ==
    ASSUME FrontInv, NEW u \in Consoles, typing[u] = <<>>,
           typed' = [typed EXCEPT ![u].over = TRUE],
           UNCHANGED <<front, running, mirror, inside, user, typing, faults>>
    PROVE  FrontInv'
<1>1. /\ typed' = [c \in Consoles |-> typed'[c]]
      /\ \A c \in Consoles : c # u => typed'[c] = typed[c]
      /\ typed'[u] = [typed[u] EXCEPT !.over = TRUE]
  BY DEF FrontInv, FrontTyped
<1>2. /\ IsTyped(typed'[u]) /\ typed'[u].lines = typed[u].lines /\ typed'[u].sent = typed[u].sent
      /\ typed'[u].submitted = typed[u].submitted /\ typed'[u].installed = typed[u].installed
      /\ typed'[u].refused = typed[u].refused
  <2> DEFINE over == [typed[u] EXCEPT !.over = TRUE]
  <2>1. IsTyped(typed[u])
    BY DEF FrontInv, FrontTyped
  <2>2. /\ IsTyped(over) /\ over.lines = typed[u].lines /\ over.sent = typed[u].sent
        /\ over.submitted = typed[u].submitted /\ over.installed = typed[u].installed
        /\ over.refused = typed[u].refused
    BY <2>1 DEF IsTyped
  <2> QED
    BY <1>1, <2>2
<1>3. /\ {typed'[u].lines, typed'[u].sent, typed'[u].submitted, typed'[u].installed,
           typed'[u].refused} \subseteq Nat
      /\ typed'[u].lines = typed'[u].sent + Len(typing'[u])
      /\ typed'[u].submitted = typed'[u].installed + typed'[u].refused
  BY <1>2 DEF FrontInv, Counted
<1>4. Counted' /\ \A c \in Consoles : IsTyped(typed'[c])
  BY <1>1, <1>2, <1>3, CountsStep DEF FrontInv
<1> QED
  BY <1>1, <1>4, TerminalKeeps DEF FrontInv, FrontTyped

LEMMA FrontStep ==
    ASSUME FrontsApart, FrontInv, [Front!Next]_(Front!vars)
    PROVE  FrontInv'
<1>1. CASE UNCHANGED Front!vars
  BY <1>1, TerminalKeeps DEF Front!vars, FrontInv, FrontTyped, Counted
<1>2. ASSUME NEW u \in Users, UNCHANGED front,
             Front!Work(u) \/ Front!Poke(u) \/ \E word \in Lines : Front!Edit(u, <<word>>)
      PROVE  FrontInv'
  BY <1>2, SendKeeps, RunKeeps, ReadOutKeeps, VerdictKeeps, InstallKeeps, PokeKeeps, EditKeeps
  DEF Front!Work
<1>3. ASSUME NEW u \in Consoles, UNCHANGED front, Front!Quit(u)
      PROVE  FrontInv'
  BY <1>3, OverKeeps DEF Front!Quit
<1>4. ASSUME NEW u \in Consoles, UNCHANGED front, Front!EndOfInput(u)
      PROVE  FrontInv'
  BY <1>4, OverKeeps, EnterKeeps DEF Front!EndOfInput, Front!Typing
<1>5. ASSUME NEW u \in Consoles, UNCHANGED front,
             NEW word \in Lines \cup {"blank", "dot"}, Front!Type(u, word)
      PROVE  FrontInv'
  BY <1>5, TypeKeeps
<1> QED
  BY <1>1, <1>2, <1>3, <1>4, <1>5 DEF Front!Next, Front!Step

LEMMA FrontHolds ==
    ASSUME FrontsApart, FrontInv
    PROVE  Front!FrontFollows
  BY DEF FrontInv, FrontsApart, FrontTyped, OneInside, Follows, Front!FrontFollows,
         Front!MirrorFollows, Front!Free

\* An image has under every name the words of the very source its user submitted,
\* whoever else compiled through the same source and out objects; and while no
\* delta was lost, the one mirror of a process is the image whenever nobody is
\* inside the transaction (live/front.py, console/session.py, server/editor.py).
THEOREM FrontsFollow ==
    ASSUME FrontsApart
    PROVE  Front!Spec => []Front!FrontFollows
<1>1. FrontInv => Front!FrontFollows
  BY FrontHolds
<1>2. Front!Spec => []FrontInv
  BY FrontStarts, FrontStep, PTL DEF Front!Spec
<1> QED
  BY <1>1, <1>2, PTL

\* "A program is read until a blank line": every line typed into a program is in
\* exactly one submission, also when the input ends inside one, and every
\* submission is answered once (console/session.py).
THEOREM TypedLinesAreSubmitted ==
    ASSUME FrontsApart
    PROVE  Front!Spec => []Front!TypedIsSubmitted
<1>1. FrontInv => Front!TypedIsSubmitted
  BY DEF FrontInv, Counted, Front!TypedIsSubmitted
<1>2. Front!Spec => []FrontInv
  BY FrontStarts, FrontStep, PTL DEF Front!Spec
<1> QED
  BY <1>1, <1>2, PTL

-----------------------------------------------------------------------------
(* The calls of clients over one image: what is on the way and what it says  *)

Ops == {"EMIT", "EMIT_READ", "STAGE_RESET", "STAGE_WRITE", "STAGE_COMMIT", "GROW"}
Frames == [from : Clients, job : Nat, op : Ops, k : Nat, seq : Nat, body : Seq(Clients)]
Replies == [from : Clients, job : Nat, op : Ops, seq : Nat,
            status : {"ok", "mismatch", "base", "room"}, body : Seq(Clients)]

\* There is a client and a page, and None is neither a client nor what one is told.
WireAssumption ==
    /\ Clients # {} /\ Bare \subseteq Clients /\ Pages \in Nat \ {0} /\ Room \in Nat
    /\ None \notin Clients \cup Replies \cup {"ok", "mismatch", "base", "room"}

IsClient(m) ==
    /\ m = [slot \in {"at", "op", "k", "base", "seq", "late", "last", "result", "jobs"} |-> m[slot]]
    /\ m.at \in {"idle", "call", "wait"}
    /\ m.at # "idle" => m.op \in Ops
    /\ m.k \in Nat /\ m.seq \in Nat /\ m.jobs \in Nat
    /\ m.base \in Seq(Clients) /\ m.late \subseteq Replies
IsImage(i) ==
    /\ i = [slot \in {"world", "stage", "staged", "dump", "committed", "ask"} |-> i[slot]]
    /\ i.world \in Seq(Clients) /\ i.dump \in Seq(Clients)
    /\ i.stage \in [1..Pages -> Clients \cup {None}]
    /\ i.staged \in Nat /\ i.committed \in Nat /\ i.ask \in Nat

WireTyped ==
    /\ mode \in {"rings", "line"} /\ gate \in Clients \cup {None}
    /\ rx \in Seq(Frames) /\ tx \in Seq(Replies) /\ IsImage(image)
    /\ client = [c \in Clients |-> client[c]] /\ \A c \in Clients : IsClient(client[c])

\* On the rings whoever waits has the gate, a client of whole jobs also between its calls;
\* the line has one client.
GateHeld ==
    /\ mode = "rings" => \A c \in Clients :
         gate = c <=> client[c].at = "wait" \/ (c \notin Bare /\ client[c].at = "call")
    /\ mode = "line" => gate = None /\ \A c \in Clients \ {Wire!First} : client[c].at = "idle"

Request(c) == Wire!Frame(c, client[c], client[c].seq, Wire!Body(c))

\* The answer to what a client waits for, and what the image is since it gave it.
Answers(c, a) ==
    /\ a.from = c /\ a.job = client[c].jobs /\ a.op = client[c].op
    /\ a.op = "STAGE_COMMIT" =>
         /\ a.status = "ok" => \E k \in 1..Len(image.world) : image.world[k] = c
         /\ a.status = "room" => image.ask > image.committed
    /\ c \notin Bare =>
         /\ a.op = "EMIT" => a.body = image.world /\ image.dump = image.world
         /\ a.op = "EMIT_READ" => a.body = client[c].base
         /\ a.op = "STAGE_RESET" => image.staged = 0
         /\ a.op = "STAGE_WRITE" => image.staged = client[c].k /\ image.stage[client[c].k] = c
         /\ a.op = "STAGE_COMMIT" => a.status \in {"ok", "room"}
         /\ a.op = "STAGE_COMMIT" /\ a.status = "room" =>
              image.world = client[c].base /\ image.dump = client[c].base

\* What a client waits for is the last on its way, and its answer comes once it is served.
Awaited == \A c \in Clients : client[c].at = "wait" =>
    /\ rx # <<>> => /\ rx[Len(rx)] = Request(c)
                    /\ \A i \in 1..Len(rx) - 1 : rx[i].seq < client[c].seq
                    /\ mode = "rings" \/ client[c].op # "EMIT" => Len(rx) = 1
    /\ \A i \in 1..Len(tx) : tx[i].seq = client[c].seq => rx = <<>> /\ Answers(c, tx[i])
    /\ \A a \in client[c].late : a.seq = client[c].seq => rx = <<>> /\ Answers(c, a)
    /\ mode = "rings" /\ tx # <<>> => Wire!Wanted(c) = {}

\* Numbers only grow, and on the rings nothing is on its way while nobody waits.
Numbered ==
    /\ \A c \in Clients : \A a \in client[c].late : a.seq <= client[c].seq
    /\ mode = "line" =>
         /\ \A i \in 1..Len(rx) : rx[i].seq <= client[Wire!First].seq
         /\ \A i \in 1..Len(tx) : tx[i].seq <= client[Wire!First].seq
         /\ client[Wire!First].at = "call" /\ client[Wire!First].op # "EMIT" => rx = <<>>
    /\ mode = "rings" =>
         /\ (\A c \in Clients : client[c].at # "wait") => rx = <<>> /\ tx = <<>>
         /\ \A c \in Clients : client[c].at = "wait" =>
              \A i \in 1..Len(tx) : tx[i].seq = client[c].seq

\* Inside its transaction a job finds the image as it dumped it, and its stage as it wrote it.
Works == \A c \in Clients \ Bare : client[c].at \in {"call", "wait"} /\ client[c].op # "EMIT" =>
    /\ (client[c].op = "STAGE_COMMIT" => client[c].at = "call" \/ rx # <<>>) =>
         image.world = client[c].base /\ image.dump = client[c].base
    /\ client[c].op = "STAGE_WRITE" =>
         /\ client[c].k \in 1..Pages /\ image.staged \in {client[c].k - 1, client[c].k}
         /\ \A j \in 1..client[c].k - 1 : image.stage[j] = c
    /\ client[c].op = "STAGE_COMMIT" => image.staged = Pages /\ \A j \in 1..Pages : image.stage[j] = c

Told == \A c \in Clients :
    /\ client[c].last # None => client[c].last.from = c /\ client[c].last.job = client[c].jobs
    /\ client[c].result = "ok" => \E k \in 1..Len(image.world) : image.world[k] = c
    /\ mode = "rings" => client[c].result # "room"
    /\ c \notin Bare => client[c].result \notin {"mismatch", "base"}

WireInv == WireTyped /\ GateHeld /\ Awaited /\ Numbered /\ Works /\ Told
WireKept == crashed \in Nat /\ (crashed = 0 => WireInv)

LEMMA WireStarts ==
    ASSUME WireAssumption, Wire!Init
    PROVE  WireKept
<1>1. IsImage(image)
  BY DEF WireAssumption, Wire!Init, IsImage
<1>2. IsClient(Wire!Idle)
  <2>1. Wire!Idle.base = <<>> /\ Wire!Idle.late = {} /\ Wire!Idle.at = "idle"
        /\ Wire!Idle.k = 0 /\ Wire!Idle.seq = 0 /\ Wire!Idle.jobs = 0
    BY DEF Wire!Idle
  <2>2. Wire!Idle = [slot \in {"at", "op", "k", "base", "seq", "late", "last", "result", "jobs"}
                       |-> Wire!Idle[slot]]
    BY DEF Wire!Idle
  <2> QED
    BY <2>1, <2>2 DEF IsClient
<1>3. WireTyped
  BY <1>1, <1>2 DEF Wire!Init, WireTyped, WireAssumption
<1>4. GateHeld /\ Awaited /\ Numbered /\ Works
  BY DEF Wire!Init, Wire!Idle, GateHeld, Awaited, Numbered, Works, WireAssumption, Wire!First
<1>5. Told
  BY DEF Wire!Init, Wire!Idle, Told, WireAssumption
<1> QED
  BY <1>3, <1>4, <1>5 DEF WireKept, WireInv, Wire!Init

\* What one frame does to the image, and what the image says to it.
LEMMA Serving ==
    ASSUME WireAssumption, NEW i, IsImage(i), NEW f \in Frames
    PROVE  /\ IsImage(Wire!Does(i, f)) /\ Wire!Says(i, f) \in Replies
           /\ Wire!Says(i, f).seq = f.seq
           /\ Wire!Does(i, f).world \in {i.world, Append(i.world, f.from)}
<1>1. Wire!Verdict(i, f) \in {"ok", "mismatch", "base", "room"}
  BY DEF Wire!Verdict
<1>2. Wire!Says(i, f) \in Replies /\ Wire!Says(i, f).seq = f.seq
  BY <1>1 DEF Wire!Says, Wire!Answer, Replies, Frames, IsImage
<1>3. CASE f.op = "EMIT"
  BY <1>2, <1>3 DEF Wire!Does, IsImage
<1>4. CASE f.op = "STAGE_RESET"
  BY <1>2, <1>4 DEF Wire!Does, IsImage
<1>5. CASE f.op = "STAGE_WRITE"
  <2> DEFINE stage == [i.stage EXCEPT ![f.k] = f.from]
             staged == IF f.k > i.staged THEN f.k ELSE i.staged
  <2>1. Wire!Does(i, f) = [i EXCEPT !.stage = stage, !.staged = staged]
    BY <1>5 DEF Wire!Does
  <2>2. stage \in [1..Pages -> Clients \cup {None}] /\ staged \in Nat
    BY DEF IsImage, Frames
  <2> HIDE DEF stage, staged
  <2> QED
    BY <1>2, <2>1, <2>2 DEF IsImage
<1>6. CASE f.op = "STAGE_COMMIT"
  <2> DEFINE world == IF Wire!Verdict(i, f) = "ok" THEN Append(i.world, f.from) ELSE i.world
             ask == IF Wire!Verdict(i, f) = "room" THEN Wire!Needs(i) ELSE i.ask
             dump == IF Wire!Verdict(i, f) = "mismatch" THEN i.dump ELSE world
  <2>1. Wire!Does(i, f) = [i EXCEPT !.world = world, !.dump = dump, !.ask = ask]
    BY <1>6 DEF Wire!Does
  <2>2. world \in Seq(Clients) /\ world \in {i.world, Append(i.world, f.from)} /\ ask \in Nat
        /\ dump \in Seq(Clients)
    BY DEF IsImage, Frames, Wire!Needs, WireAssumption
  <2> HIDE DEF world, ask, dump
  <2>3. Wire!Does(i, f).world = world
    BY <2>1 DEF IsImage
  <2>4. IsImage(Wire!Does(i, f))
    BY <2>1, <2>2 DEF IsImage
  <2> QED
    BY <1>2, <2>2, <2>3, <2>4
<1>7. CASE f.op = "GROW"
  <2> DEFINE grown == f.k
             none == 0
  <2>1. Wire!Does(i, f) = [i EXCEPT !.committed = grown, !.ask = none]
    BY <1>7 DEF Wire!Does
  <2>2. grown \in Nat /\ none \in Nat
    BY DEF Frames
  <2> HIDE DEF grown, none
  <2> QED
    BY <1>2, <2>1, <2>2 DEF IsImage
<1>8. CASE f.op = "EMIT_READ"
  BY <1>2, <1>8 DEF Wire!Does, IsImage
<1> QED
  BY <1>3, <1>4, <1>5, <1>6, <1>7, <1>8 DEF Frames, Ops

\* Who waits is alone: nobody else waits, and nobody else is inside a whole job.
LEMMA Alone ==
    ASSUME WireAssumption, WireTyped, GateHeld, NEW c \in Clients, NEW d \in Clients, d # c,
           \/ client[c].at = "wait" \/ gate = c
           \/ mode = "line" /\ c = Wire!First
    PROVE  /\ client[d].at # "wait" /\ (d \notin Bare => client[d].at = "idle")
           /\ mode = "line" => client[d].at = "idle"
           /\ mode = "rings" => gate = c
<1>1. client[d].at \in {"idle", "call", "wait"}
  BY DEF WireTyped, IsClient
<1> QED
  BY <1>1 DEF WireTyped, GateHeld, WireAssumption

LEMMA RequestIs ==
    ASSUME WireTyped, NEW c \in Clients, client[c].at = "wait"
    PROVE  /\ Request(c) \in Frames /\ Request(c).from = c /\ Request(c).job = client[c].jobs
           /\ Request(c).op = client[c].op /\ Request(c).k = client[c].k
           /\ Request(c).seq = client[c].seq
           /\ Request(c).op = "STAGE_COMMIT" => Request(c).body = client[c].base
  BY DEF WireTyped, IsClient, Request, Wire!Frame, Wire!Body, Frames

\* The request that is awaited is served: its answer, and what is so after it.
LEMMA ServesRequest ==
    ASSUME WireAssumption, WireInv, NEW c \in Clients, client[c].at = "wait",
           rx = <<Request(c)>>, rx' = <<>>, image' = Wire!Does(image, Request(c)),
           NEW a, a = Wire!Says(image, Request(c)), UNCHANGED <<mode, gate, client>>
    PROVE  Answers(c, a)' /\ Works'
<1> DEFINE f == Request(c)
           m == client[c]
<1>1. /\ f \in Frames /\ f.from = c /\ f.job = m.jobs /\ f.op = m.op /\ f.k = m.k
      /\ f.op = "STAGE_COMMIT" => f.body = m.base
  BY RequestIs DEF WireInv
<1>2. IsImage(image) /\ IsClient(m) /\ rx # <<>>
  BY DEF WireInv, WireTyped
<1>3. /\ a.from = c /\ a.job = m.jobs /\ a.op = m.op
      /\ a.body = CASE f.op = "EMIT" -> image.world [] f.op = "EMIT_READ" -> image.dump [] OTHER -> <<>>
      /\ a.status = IF f.op = "STAGE_COMMIT" THEN Wire!Verdict(image, f) ELSE "ok"
  BY <1>1 DEF Wire!Says, Wire!Answer
<1>4. ASSUME c \notin Bare, m.op # "EMIT"
      PROVE  /\ image.dump = m.base /\ image.world = m.base
             /\ m.op = "STAGE_WRITE" => /\ m.k \in 1..Pages /\ image.staged \in {m.k - 1, m.k}
                                        /\ \A j \in 1..m.k - 1 : image.stage[j] = c
             /\ m.op = "STAGE_COMMIT" => image.staged = Pages /\ \A j \in 1..Pages : image.stage[j] = c
  BY <1>2, <1>4 DEF WireInv, Works
<1>5. /\ m.op # "STAGE_COMMIT" => /\ image'.world = image.world
                                  /\ image'.dump = IF m.op = "EMIT" THEN image.world ELSE image.dump
      /\ m.op = "STAGE_WRITE" => /\ image'.stage = [image.stage EXCEPT ![m.k] = c]
                                /\ image'.staged = IF m.k > image.staged THEN m.k ELSE image.staged
      /\ m.op = "STAGE_RESET" => image'.staged = 0
      /\ m.op \notin {"STAGE_WRITE", "STAGE_RESET"} =>
           image'.stage = image.stage /\ image'.staged = image.staged
      /\ m.op = "STAGE_COMMIT" =>
           /\ image'.committed = image.committed
           /\ Wire!Verdict(image, f) = "ok" => image'.world = Append(image.world, c)
           /\ Wire!Verdict(image, f) # "ok" => image'.world = image.world
           /\ Wire!Verdict(image, f) = "room" =>
                image'.ask = Wire!Needs(image) /\ image'.dump = image.world
  BY <1>1, <1>2 DEF Wire!Does, IsImage
<1>6. CASE m.op = "STAGE_COMMIT"
  <2>1. a.status = Wire!Verdict(image, f) /\ a.op = "STAGE_COMMIT"
    BY <1>1, <1>3, <1>6
  <2>2. a.status = "ok" => \E k \in 1..Len(image'.world) : image'.world[k] = c
    <3> SUFFICES ASSUME a.status = "ok"
                 PROVE  image'.world[Len(image.world) + 1] = c /\ Len(image.world) + 1 \in 1..Len(image'.world)
      OBVIOUS
    <3> QED
      BY <1>2, <1>5, <1>6, <2>1 DEF IsImage
  <2>3. a.status = "room" => image'.ask > image'.committed
    <3>1. Wire!Verdict(image, f) = "room" => Wire!Needs(image) > image.committed
      BY DEF Wire!Verdict
    <3>2. /\ image'.committed = image.committed
          /\ Wire!Verdict(image, f) = "room" => image'.ask = Wire!Needs(image)
      BY <1>5, <1>6
    <3> HIDE DEF f
    <3> QED
      BY <2>1, <3>1, <3>2
  <2>4. c \notin Bare => a.status \in {"ok", "room"}
    <3>1. ASSUME c \notin Bare
          PROVE  /\ ~(image.staged < Pages \/ \E k \in 1..Pages : image.stage[k] # f.from)
                 /\ f.body = image.world
      BY <1>1, <1>4, <1>6, <3>1 DEF WireAssumption
    <3> HIDE DEF f
    <3> QED
      BY <2>1, <3>1 DEF Wire!Verdict
  <2>5. c \notin Bare /\ a.status = "room" => image'.world = m.base /\ image'.dump = m.base
    <3>1. a.status = "room" => image'.world = image.world /\ image'.dump = image.world
      BY <1>5, <1>6, <2>1
    <3> QED
      BY <1>4, <1>6, <3>1
  <2>6. Answers(c, a)'
    BY <1>3, <2>1, <2>2, <2>3, <2>4, <2>5 DEF Answers
  <2>7. Works'
    <3> SUFFICES ASSUME NEW d \in Clients \ Bare, client[d].at \in {"call", "wait"}, client[d].op # "EMIT"
                 PROVE  d = c /\ image'.staged = Pages /\ \A j \in 1..Pages : image'.stage[j] = c
      BY <1>6, Alone DEF Works, WireInv
    <3>1. d = c
      BY Alone DEF WireInv
    <3> QED
      BY <1>4, <1>5, <1>6, <3>1
  <2> QED
    BY <2>6, <2>7
<1>7. CASE m.op # "STAGE_COMMIT"
  <2>1. c \notin Bare /\ m.op = "EMIT" => a.body = image'.world /\ image'.dump = image'.world
    BY <1>1, <1>3, <1>5
  <2>2. c \notin Bare /\ m.op = "EMIT_READ" => a.body = m.base
    BY <1>1, <1>3, <1>4
  <2>3. c \notin Bare /\ m.op = "STAGE_WRITE" => image'.staged = m.k /\ \A j \in 1..m.k : image'.stage[j] = c
    <3> SUFFICES ASSUME c \notin Bare, m.op = "STAGE_WRITE"
                 PROVE  image'.staged = m.k /\ \A j \in 1..m.k : image'.stage[j] = c
      OBVIOUS
    <3>1. m.k \in 1..Pages /\ image.staged \in {m.k - 1, m.k} /\ image.stage \in [1..Pages -> Clients \cup {None}]
      BY <1>2, <1>4 DEF IsImage
    <3>2. \A j \in 1..m.k : j \in 1..Pages /\ (j = m.k \/ j \in 1..m.k - 1)
      BY <3>1, WireAssumption DEF WireAssumption
    <3>3. image'.staged = m.k
      BY <1>5, <3>1, WireAssumption DEF WireAssumption
    <3> QED
      BY <1>4, <1>5, <3>1, <3>2, <3>3
  <2>4. Answers(c, a)'
    <3>1. c \notin Bare /\ m.op = "STAGE_WRITE" => image'.staged = m.k /\ image'.stage[m.k] = c
      BY <1>4, <2>3
    <3> QED
      BY <1>3, <1>5, <1>7, <2>1, <2>2, <3>1 DEF Answers
  <2>5. Works'
    <3> SUFFICES ASSUME NEW d \in Clients \ Bare, client[d].at \in {"call", "wait"}, client[d].op # "EMIT"
                 PROVE  /\ image'.dump = client[d].base /\ image'.world = client[d].base /\ d = c
                        /\ client[d].op = "STAGE_WRITE" =>
                             /\ client[d].k \in 1..Pages /\ image'.staged \in {client[d].k - 1, client[d].k}
                             /\ \A j \in 1..client[d].k - 1 : image'.stage[j] = d
      BY <1>7 DEF Works
    <3>1. d = c
      BY Alone DEF WireInv
    <3> QED
      BY <1>2, <1>4, <1>5, <1>7, <2>3, <3>1 DEF IsClient
  <2> QED
    BY <2>4, <2>5
<1> QED
  BY <1>6, <1>7

\* What is so of every client stays so while the image only grows and nobody takes an answer.
LEMMA ToldStays ==
    ASSUME WireInv, image'.world = image.world
                    \/ \E x : image'.world = Append(image.world, x),
           \A c \in Clients : /\ client'[c].last = client[c].last /\ client'[c].jobs = client[c].jobs
                              /\ client'[c].result = client[c].result,
           mode' = mode
    PROVE  Told'
<1>1. \A c \in Clients : (\E k \in 1..Len(image.world) : image.world[k] = c)
                      => \E k \in 1..Len(image'.world) : image'.world[k] = c
  <2> SUFFICES ASSUME NEW c \in Clients, NEW k \in 1..Len(image.world), image.world[k] = c
               PROVE  k \in 1..Len(image'.world) /\ image'.world[k] = c
    OBVIOUS
  <2> QED
    BY DEF WireInv, WireTyped, IsImage
<1> QED
  BY <1>1 DEF WireInv, Told

LEMMA BeginKeeps ==
    ASSUME WireAssumption, WireInv, NEW c \in Clients, Wire!Begin(c), mode = "line" => c = Wire!First
    PROVE  WireInv'
<1> DEFINE m == client[c]
           now == [m EXCEPT !.at = "call", !.op = "EMIT", !.result = None, !.last = None, !.jobs = @ + 1]
<1>1. IsClient(m) /\ m.at = "idle"
  BY DEF WireInv, WireTyped, Wire!Begin
<1>2. /\ IsClient(now) /\ now.at = "call" /\ now.op = "EMIT" /\ now.result = None /\ now.last = None
      /\ now.seq = m.seq /\ now.late = m.late
  <2>1. /\ now.at = "call" /\ now.op = "EMIT" /\ now.result = None /\ now.last = None
        /\ now.jobs = m.jobs + 1 /\ now.seq = m.seq /\ now.late = m.late
        /\ now.k = m.k /\ now.base = m.base
        /\ now = [slot \in {"at", "op", "k", "base", "seq", "late", "last", "result", "jobs"} |-> now[slot]]
    BY <1>1 DEF IsClient
  <2> HIDE DEF now
  <2> QED
    BY <1>1, <2>1 DEF IsClient, Ops
<1>3. /\ client' = [d \in Clients |-> client'[d]] /\ client'[c] = now
      /\ \A d \in Clients : d # c => client'[d] = client[d]
      /\ UNCHANGED <<mode, rx, tx, image>>
  BY DEF WireInv, WireTyped, Wire!Begin
<1> HIDE DEF now
<1>4. gate' \in Clients \cup {None}
  BY DEF Wire!Begin, WireInv, WireTyped
<1>5. WireTyped'
  BY <1>2, <1>3, <1>4 DEF WireInv, WireTyped
<1>6. GateHeld'
  <2>1. CASE mode = "line"
    BY <1>3, <2>1 DEF WireInv, GateHeld, Wire!Begin, Wire!First
  <2>2. CASE mode = "rings" /\ c \in Bare
    <3>1. gate' = gate /\ gate # c
      BY <1>1, <2>2 DEF WireInv, GateHeld, Wire!Begin
    <3>2. \A d \in Clients : d # c =>
            (gate' = d <=> client'[d].at = "wait" \/ (d \notin Bare /\ client'[d].at = "call"))
      BY <1>3, <2>2, <3>1 DEF WireInv, GateHeld
    <3>3. client'[c].at = "call" /\ gate' # c
      BY <1>2, <1>3, <3>1
    <3> QED
      BY <1>3, <2>2, <3>2, <3>3 DEF GateHeld
  <2>3. CASE mode = "rings" /\ c \notin Bare
    <3>1. gate \in {None, c} /\ gate' = c
      BY <2>3 DEF Wire!Begin, Wire!Inside
    <3>2. \A d \in Clients : d # c => gate # d /\ gate' # d
      BY <3>1, WireAssumption DEF WireAssumption
    <3> QED
      BY <1>2, <1>3, <2>3, <3>1, <3>2 DEF WireInv, GateHeld
  <2> QED
    BY <2>1, <2>2, <2>3 DEF WireInv, WireTyped
<1>7. Awaited'
  BY <1>2, <1>3 DEF WireInv, Awaited, Request, Wire!Frame, Wire!Body, Answers, Wire!Wanted
<1>8. Numbered'
  <2>1. \A d \in Clients : client'[d].late = client[d].late /\ client'[d].seq = client[d].seq
    BY <1>2, <1>3
  <2>2. \A d \in Clients : client'[d].at = "wait" <=> client[d].at = "wait"
    BY <1>1, <1>2, <1>3
  <2>3. client'[Wire!First].at = "call" /\ client'[Wire!First].op # "EMIT"
        => client[Wire!First].at = "call" /\ client[Wire!First].op # "EMIT"
    BY <1>2, <1>3 DEF Wire!First, WireAssumption
  <2>4. Wire!First \in Clients
    BY DEF Wire!First, WireAssumption
  <2> QED
    BY <1>3, <2>1, <2>2, <2>3, <2>4 DEF WireInv, Numbered, Wire!First
<1>9. Works'
  BY <1>2, <1>3 DEF WireInv, Works
<1>10. Told'
  BY <1>2, <1>3 DEF WireInv, Told, WireAssumption
<1> QED
  BY <1>5, <1>6, <1>7, <1>8, <1>9, <1>10 DEF WireInv

LEMMA CallKeeps ==
    ASSUME WireAssumption, WireInv, NEW c \in Clients, Wire!Send(c), mode = "line" => c = Wire!First
    PROVE  WireInv'
<1> DEFINE m == client[c]
           now == [m EXCEPT !.at = "wait", !.seq = @ + 1]
           f == Wire!Frame(c, m, m.seq + 1, Wire!Body(c))
<1>1. IsClient(m) /\ m.at = "call"
  BY DEF WireInv, WireTyped, Wire!Send
<1>2. /\ IsClient(now) /\ now.at = "wait" /\ now.seq = m.seq + 1 /\ now.op = m.op /\ now.k = m.k
      /\ now.jobs = m.jobs /\ now.base = m.base /\ now.late = m.late /\ now.last = m.last
      /\ now.result = m.result
  <2>1. /\ now.at = "wait" /\ now.seq = m.seq + 1 /\ now.op = m.op /\ now.k = m.k
        /\ now.jobs = m.jobs /\ now.base = m.base /\ now.late = m.late /\ now.last = m.last
        /\ now.result = m.result
        /\ now = [slot \in {"at", "op", "k", "base", "seq", "late", "last", "result", "jobs"} |-> now[slot]]
    BY <1>1 DEF IsClient
  <2> HIDE DEF now
  <2> QED
    BY <1>1, <2>1 DEF IsClient
<1>3. /\ client' = [d \in Clients |-> client'[d]] /\ client'[c] = now
      /\ \A d \in Clients : d # c => client'[d] = client[d]
      /\ UNCHANGED <<mode, tx, image>> /\ rx' = Append(rx, f)
  BY DEF WireInv, WireTyped, Wire!Send
<1> HIDE DEF now
<1>4. f \in Frames /\ f = Request(c)' /\ f.seq = m.seq + 1
  BY <1>1, <1>2, <1>3 DEF IsClient, Wire!Frame, Wire!Body, Request, Frames
<1> HIDE DEF f
<1>5. gate' \in Clients \cup {None}
  BY DEF Wire!Send, WireInv, WireTyped
<1>6. WireTyped'
  BY <1>2, <1>3, <1>4, <1>5 DEF WireInv, WireTyped
<1>7. GateHeld' /\ \A d \in Clients : d # c => client[d].at # "wait" /\ (d \notin Bare => client[d].at = "idle")
  <2>1. mode = "rings" => gate \in {None, c} /\ gate' = c
    BY DEF Wire!Send, Wire!Inside
  <2>2. \A d \in Clients : client[d].at \in {"idle", "call", "wait"}
    BY DEF WireInv, WireTyped, IsClient
  <2>3. \A d \in Clients : d # c => client[d].at # "wait" /\ (d \notin Bare => client[d].at = "idle")
    BY <2>1, <2>2 DEF WireInv, WireTyped, GateHeld, WireAssumption
  <2>4. mode = "line" => gate' = gate
    BY DEF Wire!Send
  <2> QED
    BY <1>2, <1>3, <2>1, <2>3, <2>4 DEF WireInv, WireTyped, GateHeld, Wire!First
<1>8. mode = "rings" => rx = <<>> /\ tx = <<>>
  BY <1>1, <1>7 DEF WireInv, Numbered
<1>9. /\ mode = "line" /\ m.op # "EMIT" => rx = <<>>
      /\ mode = "line" => /\ \A i \in 1..Len(rx) : rx[i].seq <= m.seq
                          /\ \A i \in 1..Len(tx) : tx[i].seq <= m.seq
      /\ \A a \in m.late : a.seq <= m.seq
  BY <1>1 DEF WireInv, Numbered
<1>10. /\ rx' # <<>> /\ Len(rx') = Len(rx) + 1 /\ rx'[Len(rx')] = f
       /\ \A i \in 1..Len(rx') - 1 : i \in 1..Len(rx) /\ rx'[i] = rx[i] /\ rx[i] \in Frames
  BY <1>3, <1>4 DEF WireInv, WireTyped
<1>11. /\ \A i \in 1..Len(tx) : tx[i] \in Replies /\ tx[i].seq \in Nat
       /\ \A a \in m.late : a.seq \in Nat
       /\ \A i \in 1..Len(rx) : rx[i].seq \in Nat
  <2>1. /\ \A i \in 1..Len(tx) : tx[i] \in Replies
        /\ \A a \in m.late : a \in Replies
        /\ \A i \in 1..Len(rx) : rx[i] \in Frames
    BY <1>1 DEF WireInv, WireTyped, IsClient
  <2>2. (\A a \in Replies : a.seq \in Nat) /\ \A g \in Frames : g.seq \in Nat
    BY DEF Replies, Frames
  <2> QED
    BY <2>1, <2>2
<1>12. Awaited'
  <2>1. SUFFICES ASSUME NEW d \in Clients, client'[d].at = "wait"
                 PROVE  /\ d = c
                        /\ \A i \in 1..Len(rx') - 1 : rx'[i].seq < now.seq
                        /\ mode = "rings" \/ now.op # "EMIT" => Len(rx') = 1
                        /\ \A i \in 1..Len(tx) : tx[i].seq # now.seq
                        /\ \A a \in now.late : a.seq # now.seq
                        /\ mode = "rings" => tx = <<>>
    BY <1>3, <1>4, <1>10 DEF Awaited
  <2>2. d = c
    BY <1>3, <1>7, <2>1
  <2>3. m.seq \in Nat /\ mode \in {"rings", "line"}
    BY <1>1 DEF IsClient, WireInv, WireTyped
  <2>4. \A i \in 1..Len(rx) : rx[i].seq < m.seq + 1
    BY <1>8, <1>9, <1>11, <2>3
  <2>5. \A i \in 1..Len(tx) : tx[i].seq # m.seq + 1
    BY <1>8, <1>9, <1>11, <2>3
  <2>6. \A a \in m.late : a.seq # m.seq + 1
    BY <1>9, <1>11, <2>3
  <2>7. mode = "rings" \/ m.op # "EMIT" => Len(rx') = 1
    BY <1>8, <1>9, <1>10, <2>3
  <2> QED
    BY <1>2, <1>8, <1>10, <2>2, <2>4, <2>5, <2>6, <2>7
<1>13. Numbered'
  <2>1. \A d \in Clients : \A a \in client'[d].late : a.seq <= client'[d].seq
    BY <1>1, <1>2, <1>3, <1>9, <1>11 DEF WireInv, Numbered, IsClient
  <2>2. ASSUME mode = "line"
        PROVE  /\ c = Wire!First /\ Wire!First' = Wire!First
               /\ \A i \in 1..Len(rx') : rx'[i].seq <= now.seq
               /\ \A i \in 1..Len(tx) : tx[i].seq <= now.seq
    <3>1. \A i \in 1..Len(rx') : i = Len(rx') \/ i \in 1..Len(rx') - 1
      BY <1>6 DEF WireTyped
    <3>2. c = Wire!First /\ Wire!First' = Wire!First
      BY <2>2 DEF Wire!First
    <3>3. now.seq = m.seq + 1 /\ m.seq \in Nat
      BY <1>1, <1>2 DEF IsClient
    <3>4. \A i \in 1..Len(tx) : tx[i].seq <= now.seq
      BY <1>9, <1>11, <2>2, <3>3
    <3>5. \A i \in 1..Len(rx') - 1 : rx'[i].seq <= now.seq
      BY <1>9, <1>10, <1>11, <2>2, <3>3
    <3>6. rx'[Len(rx')].seq <= now.seq
      BY <1>4, <1>10, <3>3
    <3> QED
      BY <3>1, <3>2, <3>4, <3>5, <3>6
  <2>3. mode = "rings" => tx = <<>> /\ client'[c].at = "wait"
    BY <1>2, <1>3, <1>8
  <2> QED
    BY <1>2, <1>3, <2>1, <2>2, <2>3 DEF Numbered
<1>14. Works'
  <2>1. SUFFICES ASSUME NEW d \in Clients \ Bare, client'[d].at \in {"call", "wait"}, client'[d].op # "EMIT"
                 PROVE  /\ d = c /\ image.dump = m.base /\ image.world = m.base
                        /\ m.op = "STAGE_WRITE" => /\ m.k \in 1..Pages /\ image.staged \in {m.k - 1, m.k}
                                                   /\ \A j \in 1..m.k - 1 : image.stage[j] = c
                        /\ m.op = "STAGE_COMMIT" => image.staged = Pages /\ \A j \in 1..Pages : image.stage[j] = c
    BY <1>2, <1>3 DEF Works
  <2>2. d = c
    BY <1>3, <1>7, <2>1
  <2> QED
    BY <1>1, <1>2, <1>3, <2>1, <2>2 DEF WireInv, Works
<1>15. Told'
  BY <1>2, <1>3, ToldStays
<1> QED
  BY <1>6, <1>7, <1>12, <1>13, <1>14, <1>15 DEF WireInv

LEMMA TimeoutKeeps ==
    ASSUME WireAssumption, WireInv, NEW c \in Clients, Wire!Timeout(c), c = Wire!First
    PROVE  WireInv'
<1> DEFINE m == client[c]
           now == [m EXCEPT !.at = "idle", !.result = "timeout"]
<1>1. IsClient(m) /\ m.at = "wait" /\ mode = "line"
  BY DEF WireInv, WireTyped, Wire!Timeout
<1>2. /\ IsClient(now) /\ now.at = "idle" /\ now.seq = m.seq /\ now.jobs = m.jobs
      /\ now.late = m.late /\ now.last = m.last /\ now.result = "timeout"
  BY <1>1 DEF IsClient
<1>3. /\ client' = [d \in Clients |-> client'[d]] /\ client'[c] = now
      /\ \A d \in Clients : d # c => client'[d] = client[d]
      /\ UNCHANGED <<mode, gate, rx, tx, image>>
  BY DEF WireInv, WireTyped, Wire!Timeout, Wire!Ends
<1> HIDE DEF now
<1>4. WireTyped' /\ GateHeld'
  <2>1. WireTyped'
    BY <1>2, <1>3 DEF WireInv, WireTyped
  <2>2. GateHeld'
    BY <1>1, <1>2, <1>3 DEF WireInv, GateHeld, Wire!First
  <2> QED
    BY <2>1, <2>2
<1>5. Awaited' /\ Works'
  BY <1>1, <1>2, <1>3 DEF WireInv, GateHeld, Awaited, Works
<1>6. Numbered'
  BY <1>1, <1>2, <1>3 DEF WireInv, Numbered, Wire!First
<1>7. Told'
  BY <1>2, <1>3 DEF WireInv, Told
<1> QED
  BY <1>4, <1>5, <1>6, <1>7 DEF WireInv

\* The pump over a ring with one frame.
LEMMA PumpedOne ==
    ASSUME NEW f, rx = <<f>>
    PROVE  Wire!Pumped = [image |-> Wire!Does(image, f), tx |-> Append(tx, Wire!Says(image, f))]
<1> DEFINE start == [image |-> image, tx |-> tx]
           IsAfter(g) == g = [n \in 0..Len(rx) |-> IF n = 0 THEN [image |-> image, tx |-> tx]
                                                   ELSE Wire!Serves(g[n - 1], rx[n])]
           h == [n \in 0..1 |-> IF n = 0 THEN start ELSE Wire!Serves(start, f)]
<1>1. Len(rx) = 1 /\ rx[1] = f
  OBVIOUS
<1>2. \A n \in 0..1 : h[n] = IF n = 0 THEN start ELSE Wire!Serves(h[n - 1], rx[n])
  <2>1. h[0] = start /\ h[1] = Wire!Serves(start, f)
    OBVIOUS
  <2>2. \A n \in 0..1 : n # 0 => n = 1 /\ n - 1 = 0
    OBVIOUS
  <2> HIDE DEF h, start
  <2> QED
    BY <1>1, <2>1, <2>2
<1>3. IsAfter(h)
  BY <1>1, <1>2, Zenon
<1>4. IsAfter(CHOOSE g : IsAfter(g))
  BY <1>3, Zenon
<1>5. Wire!Pumped = (CHOOSE g : IsAfter(g))[Len(rx)]
  BY Zenon DEF Wire!Pumped
<1>6. ASSUME NEW g, IsAfter(g)
      PROVE  g[Len(rx)] = Wire!Serves(start, f)
  <2>1. \A n \in 0..1 : g[n] = IF n = 0 THEN start ELSE Wire!Serves(g[n - 1], rx[n])
    BY <1>1, <1>6
  <2>2. 0 \in 0..1 /\ 1 \in 0..1 /\ 1 - 1 = 0 /\ 1 # 0
    OBVIOUS
  <2> HIDE DEF start
  <2>3. g[0] = start
    BY <2>1, <2>2
  <2>4. g[1] = Wire!Serves(g[1 - 1], rx[1])
    BY <2>1, <2>2
  <2> QED
    BY <1>1, <2>2, <2>3, <2>4
<1>7. Wire!Pumped = Wire!Serves(start, f)
  BY <1>4, <1>5, <1>6, Zenon
<1>8. start.image = image /\ start.tx = tx
  OBVIOUS
<1> QED
  BY <1>7, <1>8 DEF Wire!Serves

LEMMA PumpKeeps ==
    ASSUME WireAssumption, WireInv, NEW c \in Clients, Wire!Pump(c)
    PROVE  WireInv'
<1> DEFINE f == Request(c)
           a == Wire!Says(image, f)
<1>1. /\ client[c].at = "wait" /\ mode = "rings" /\ Wire!Wanted(c) = {} /\ rx' = <<>>
      /\ UNCHANGED <<mode, gate, client>> /\ rx # <<>> /\ Len(rx) = 1 /\ rx[Len(rx)] = f
  BY DEF WireInv, Awaited, Wire!Pump
<1>2. f \in Frames /\ f.seq = client[c].seq
  BY <1>1, RequestIs DEF WireInv
<1>3. rx = <<f>>
  BY <1>1 DEF WireInv, WireTyped
<1>4. image' = Wire!Does(image, f) /\ tx' = Append(tx, a)
  BY <1>3, PumpedOne DEF Wire!Pump
<1>5. /\ IsImage(image') /\ a \in Replies /\ a.seq = client[c].seq
      /\ image'.world \in {image.world, Append(image.world, f.from)}
  BY <1>2, <1>4, Serving DEF WireInv, WireTyped
<1>6. tx = <<>>
  <2>1. \A i \in 1..Len(tx) : FALSE
    BY <1>1 DEF WireInv, Awaited, Numbered
  <2> QED
    <3>1. tx \in Seq(Replies)
      BY DEF WireInv, WireTyped
    <3>2. tx # <<>> => 1 \in 1..Len(tx)
      BY <3>1
    <3> QED
      BY <2>1, <3>2
<1>7. tx' = <<a>>
  BY <1>4, <1>6
<1>8. \E b : b = a
  OBVIOUS
<1>9. PICK b : b = a
  BY <1>8
<1>10. Answers(c, b)' /\ Works'
  BY <1>1, <1>3, <1>4, <1>9, ServesRequest
<1> HIDE DEF a
<1>11. WireTyped'
  BY <1>1, <1>5, <1>7 DEF WireInv, WireTyped
<1>12. Awaited'
  <2>1. SUFFICES ASSUME NEW d \in Clients, client[d].at = "wait"
                 PROVE  /\ d = c /\ Answers(c, b)' /\ tx' = <<b>> /\ Wire!Wanted(c)' = {}
                        /\ \A e \in client[c].late : e.seq # client[c].seq
    BY <1>1, <1>7, <1>9 DEF Awaited
  <2>2. d = c
    BY <1>1, <2>1, Alone DEF WireInv
  <2> QED
    BY <1>1, <1>7, <1>9, <1>10, <2>2 DEF Wire!Wanted
<1>13. Numbered'
  <2>1. \A d \in Clients : client[d].at = "wait" => d = c
    BY <1>1, Alone DEF WireInv
  <2>2. \A i \in 1..Len(tx') : tx'[i].seq = client[c].seq
    BY <1>5, <1>7
  <2> QED
    BY <1>1, <2>1, <2>2 DEF WireInv, Numbered
<1>14. GateHeld'
  BY <1>1 DEF WireInv, GateHeld
<1>15. Told'
  BY <1>1, <1>5, ToldStays
<1> QED
  BY <1>10, <1>11, <1>12, <1>13, <1>14, <1>15 DEF WireInv

LEMMA ReadKeeps ==
    ASSUME WireAssumption, WireInv, NEW c \in Clients, Wire!Read(c)
    PROVE  WireInv'
<1> DEFINE m == client[c]
           late == Wire!Kept(m.late, tx)
           now == [m EXCEPT !.late = late]
<1>1. IsClient(m) /\ m.at = "wait" /\ Wire!Wanted(c) = {} /\ tx' = <<>>
      /\ UNCHANGED <<mode, gate, rx, image>>
  BY DEF WireInv, WireTyped, Wire!Read
<1>2. \A a \in late : a \in m.late \/ \E i \in 1..Len(tx) : a = tx[i]
  BY DEF Wire!Kept, Wire!ToSet, WireInv, WireTyped
<1>3. late \subseteq Replies
  <2>1. tx \in Seq(Replies) /\ m.late \subseteq Replies
    BY <1>1 DEF WireInv, WireTyped, IsClient
  <2>2. \A i \in 1..Len(tx) : tx[i] \in Replies
    BY <2>1
  <2> HIDE DEF late
  <2> QED
    BY <1>2, <2>1, <2>2
<1> HIDE DEF late
<1>4. /\ IsClient(now) /\ now.at = m.at /\ now.op = m.op /\ now.k = m.k /\ now.jobs = m.jobs
      /\ now.base = m.base /\ now.seq = m.seq /\ now.late = late /\ now.last = m.last
      /\ now.result = m.result
  <2>1. /\ now.at = m.at /\ now.op = m.op /\ now.k = m.k /\ now.jobs = m.jobs
        /\ now.base = m.base /\ now.seq = m.seq /\ now.late = late /\ now.last = m.last
        /\ now.result = m.result
        /\ now = [slot \in {"at", "op", "k", "base", "seq", "late", "last", "result", "jobs"} |-> now[slot]]
    BY <1>1 DEF IsClient
  <2> HIDE DEF now
  <2> QED
    BY <1>1, <1>3, <2>1 DEF IsClient
<1>5. /\ client' = [d \in Clients |-> client'[d]] /\ client'[c] = now
      /\ \A d \in Clients : d # c => client'[d] = client[d]
  BY DEF WireInv, WireTyped, Wire!Read, late
<1> HIDE DEF now
<1>6. WireTyped'
  BY <1>1, <1>4, <1>5 DEF WireInv, WireTyped
<1>7. GateHeld'
  BY <1>1, <1>4, <1>5 DEF WireInv, GateHeld
<1>8. \A d \in Clients : client'[d].at = "wait" => d = c
  BY <1>1, <1>5, Alone DEF WireInv
<1>9. \A d \in Clients : /\ client'[d].jobs = client[d].jobs /\ client'[d].op = client[d].op
                         /\ client'[d].base = client[d].base /\ client'[d].k = client[d].k
                         /\ client'[d].seq = client[d].seq /\ client'[d].at = client[d].at
                         /\ client'[d].last = client[d].last /\ client'[d].result = client[d].result
  BY <1>4, <1>5
<1>10. \A a : Answers(c, a) => Answers(c, a)'
  BY <1>1, <1>9 DEF Answers
<1>11. Request(c)' = Request(c)
  BY <1>9 DEF Request, Wire!Frame, Wire!Body
<1>12. Awaited'
  <2>1. \A a \in late : a.seq = m.seq => rx = <<>> /\ Answers(c, a)
    BY <1>1, <1>2 DEF WireInv, Awaited
  <2>2. SUFFICES ASSUME NEW d \in Clients, client'[d].at = "wait"
                 PROVE  /\ d = c
                        /\ rx # <<>> => /\ rx[Len(rx)] = Request(c)
                                        /\ \A i \in 1..Len(rx) - 1 : rx[i].seq < m.seq
                                        /\ mode = "rings" \/ m.op # "EMIT" => Len(rx) = 1
                        /\ \A a \in late : a.seq = m.seq => rx = <<>> /\ Answers(c, a)'
    BY <1>1, <1>4, <1>5, <1>11 DEF Awaited
  <2> QED
    BY <1>1, <1>8, <1>10, <2>1, <2>2 DEF WireInv, Awaited
<1>13. Numbered'
  <2>1. \A a \in late : a.seq <= m.seq
    <3>1. mode = "line" => c = Wire!First
      BY <1>1 DEF WireInv, GateHeld
    <3>2. \A i \in 1..Len(tx) : tx[i].seq <= m.seq
      BY <1>1, <3>1 DEF WireInv, WireTyped, Numbered, IsClient
    <3> QED
      BY <1>2, <3>2 DEF WireInv, Numbered
  <2>2. \A d \in Clients : \A a \in client'[d].late : a.seq <= client'[d].seq
    BY <1>4, <1>5, <2>1 DEF WireInv, Numbered
  <2>3. Wire!First \in Clients
    BY DEF Wire!First, WireAssumption
  <2> QED
    BY <1>1, <1>9, <2>2, <2>3 DEF WireInv, Numbered, Wire!First
<1>14. Works'
  BY <1>1, <1>9 DEF WireInv, Works
<1>15. Told'
  BY <1>1, <1>9, ToldStays
<1> QED
  BY <1>6, <1>7, <1>12, <1>13, <1>14, <1>15 DEF WireInv

\* Where an answer takes a job: to its next call, or to its end.
LEMMA AfterIs ==
    ASSUME WireAssumption, WireTyped, NEW m, IsClient(m), m.op \in Ops, NEW a \in Replies
    PROVE  /\ IsClient(Wire!After(m, a)) /\ Wire!After(m, a).at \in {"call", "idle"}
           /\ Wire!After(m, a).seq = m.seq /\ Wire!After(m, a).late = m.late
           /\ Wire!After(m, a).jobs = m.jobs /\ Wire!After(m, a).last = m.last
           /\ Wire!After(m, a).at = "call" => Wire!After(m, a).result = m.result
                                              /\ Wire!After(m, a).op # "EMIT"
<1> DEFINE Kept(now) == /\ IsClient(now) /\ now.seq = m.seq /\ now.late = m.late
                        /\ now.jobs = m.jobs /\ now.last = m.last /\ now.at \in {"call", "idle"}
                        /\ now.at = "call" => now.result = m.result /\ now.op # "EMIT"
<1>1. ASSUME NEW outcome
      PROVE  Kept(Wire!Ends(m, outcome))
  <2> DEFINE now == [m EXCEPT !.at = "idle", !.result = outcome]
  <2>1. /\ now.at = "idle" /\ now.seq = m.seq /\ now.op = m.op /\ now.k = m.k
        /\ now.jobs = m.jobs /\ now.base = m.base /\ now.late = m.late /\ now.last = m.last
        /\ now = [slot \in {"at", "op", "k", "base", "seq", "late", "last", "result", "jobs"} |-> now[slot]]
    BY DEF IsClient
  <2>2. Wire!Ends(m, outcome) = now
    BY DEF Wire!Ends
  <2> HIDE DEF now
  <2> QED
    BY <2>1, <2>2 DEF IsClient
<1>2. ASSUME NEW op \in Ops \ {"EMIT"}, NEW k \in Nat, NEW root \in Seq(Clients), NEW b,
             b = m \/ b = [m EXCEPT !.base = root]
      PROVE  Kept(Wire!Next1(b, op, k))
  <2>1. /\ b.seq = m.seq /\ b.jobs = m.jobs /\ b.base \in {m.base, root} /\ b.late = m.late
        /\ b.last = m.last /\ b.result = m.result
        /\ b = [slot \in {"at", "op", "k", "base", "seq", "late", "last", "result", "jobs"} |-> b[slot]]
    BY <1>2 DEF IsClient
  <2> DEFINE now == [b EXCEPT !.at = "call", !.op = op, !.k = k]
  <2>2. /\ now.at = "call" /\ now.seq = b.seq /\ now.op = op /\ now.k = k
        /\ now.jobs = b.jobs /\ now.base = b.base /\ now.late = b.late /\ now.last = b.last
        /\ now.result = b.result
        /\ now = [slot \in {"at", "op", "k", "base", "seq", "late", "last", "result", "jobs"} |-> now[slot]]
    BY <2>1
  <2>3. Wire!Next1(b, op, k) = now
    BY DEF Wire!Next1
  <2>4. m.seq \in Nat /\ m.jobs \in Nat /\ m.late \subseteq Replies /\ b.base \in Seq(Clients)
    BY <2>1 DEF IsClient
  <2> HIDE DEF now
  <2>5. IsClient(now)
    BY <2>1, <2>2, <2>4 DEF IsClient
  <2> QED
    BY <2>1, <2>2, <2>3, <2>5
<1>3. m.base \in Seq(Clients) /\ m.k \in Nat /\ m.k + 1 \in Nat /\ image.ask \in Nat
      /\ a.body \in Seq(Clients)
  <2>1. m.base \in Seq(Clients) /\ m.k \in Nat /\ a \in Replies
    BY DEF IsClient
  <2>2. image.ask \in Nat
    BY DEF WireTyped, IsImage
  <2>3. a.body \in Seq(Clients)
    BY <2>1 DEF Replies
  <2> QED
    BY <2>1, <2>2, <2>3
<1> HIDE DEF Kept
<1>4. ASSUME NEW op \in Ops \ {"EMIT"}, NEW k \in Nat
      PROVE  Kept(Wire!Next1(m, op, k))
  <2>1. m.base \in Seq(Clients)
    BY <1>3
  <2> QED
    BY <1>2, <2>1
<1>5. Kept(Wire!Next1([m EXCEPT !.base = a.body], "EMIT_READ", 1))
  BY <1>2, <1>3 DEF Ops
<1>6. /\ Kept(Wire!Next1(m, "EMIT_READ", m.k + 1)) /\ Kept(Wire!Next1(m, "STAGE_RESET", 0))
      /\ Kept(Wire!Next1(m, "STAGE_WRITE", m.k + 1)) /\ Kept(Wire!Next1(m, "STAGE_WRITE", 0 + 1))
      /\ Kept(Wire!Next1(m, "STAGE_COMMIT", 0)) /\ Kept(Wire!Next1(m, "GROW", image.ask))
  BY <1>3, <1>4 DEF Ops
<1>7. Kept(Wire!After(m, a))
  BY <1>1, <1>5, <1>6 DEF Wire!After, Wire!Refused
<1> QED
  BY <1>7 DEF Kept

LEMMA Next1Is ==
    ASSUME NEW m, IsClient(m), NEW op, NEW k
    PROVE  /\ Wire!Next1(m, op, k).op = op /\ Wire!Next1(m, op, k).k = k
           /\ Wire!Next1(m, op, k).base = m.base
           /\ Wire!Next1(m, op, k).at = "call"
           /\ \A outcome : Wire!Ends(m, outcome).at = "idle" /\ Wire!Ends(m, outcome).result = outcome
<1>1. \A slot \in {"at", "op", "k", "base", "seq", "late", "last", "result", "jobs"} : slot \in DOMAIN m
  BY DEF IsClient
<1> QED
  BY <1>1 DEF Wire!Next1, Wire!Ends, IsClient

\* What a job inside its transaction finds when it goes on, and how it can end.
LEMMA AfterWorks ==
    ASSUME WireAssumption, WireInv, NEW c \in Clients, client[c].at = "wait",
           NEW a \in client[c].late, a.seq = client[c].seq,
           NEW m, IsClient(m), m.op = client[c].op, m.k = client[c].k, m.base = client[c].base,
           m.result = client[c].result, NEW now, now = Wire!After(m, a)
    PROVE  /\ now.at = "call" /\ c \notin Bare =>
                /\ image.dump = now.base /\ image.world = now.base
                /\ now.op = "STAGE_WRITE" =>
                     /\ now.k \in 1..Pages /\ image.staged \in {now.k - 1, now.k}
                     /\ \A j \in 1..now.k - 1 : image.stage[j] = c
                /\ now.op = "STAGE_COMMIT" => image.staged = Pages /\ \A j \in 1..Pages : image.stage[j] = c
           /\ now.at = "idle" =>
                /\ now.result = "ok" => \E k \in 1..Len(image.world) : image.world[k] = c
                /\ mode = "rings" => now.result # "room"
                /\ c \notin Bare => now.result \notin {"mismatch", "base"}
<1>1. rx = <<>> /\ Answers(c, a) /\ a.op = m.op /\ m.op \in Ops /\ a \in Replies
  BY DEF WireInv, WireTyped, IsClient, Awaited, Answers
<1>3. ASSUME c \notin Bare, m.op # "EMIT"
      PROVE  /\ m.op # "STAGE_COMMIT" => image.world = m.base /\ image.dump = m.base
             /\ m.op = "STAGE_WRITE" => /\ m.k \in 1..Pages /\ image.staged \in {m.k - 1, m.k}
                                        /\ \A j \in 1..m.k - 1 : image.stage[j] = c
             /\ m.op = "STAGE_COMMIT" => image.staged = Pages /\ \A j \in 1..Pages : image.stage[j] = c
  BY <1>3 DEF WireInv, Works
<1>4. CASE m.op = "EMIT"
  <2> DEFINE b == [m EXCEPT !.base = a.body]
  <2>1. IsClient(b) /\ b.base = a.body
    <3>1. a.body \in Seq(Clients)
      BY <1>1 DEF Replies
    <3>2. /\ b.base = a.body /\ b.at = m.at /\ b.op = m.op /\ b.k = m.k /\ b.seq = m.seq
          /\ b.jobs = m.jobs /\ b.late = m.late
          /\ b = [slot \in {"at", "op", "k", "base", "seq", "late", "last", "result", "jobs"} |-> b[slot]]
      BY DEF IsClient
    <3> HIDE DEF b
    <3> QED
      BY <3>1, <3>2 DEF IsClient
  <2>2. now = Wire!Next1(b, "EMIT_READ", 1)
    BY <1>1, <1>4 DEF Wire!After
  <2> HIDE DEF b
  <2>3. now.at = "call" /\ now.op = "EMIT_READ" /\ now.base = a.body
    BY <2>1, <2>2, Next1Is
  <2> QED
    BY <1>1, <1>4, <2>3 DEF Answers
<1>5. CASE m.op = "EMIT_READ"
  <2>1. \/ a.body # m.base /\ now = Wire!Ends(m, "mismatch")
        \/ now = Wire!Next1(m, "EMIT_READ", m.k + 1)
        \/ now = Wire!Next1(m, "STAGE_RESET", 0)
    BY <1>1, <1>5 DEF Wire!After
  <2>2. c \notin Bare => a.body = m.base
    BY <1>1, <1>5 DEF Answers
  <2>3. \/ a.body # m.base /\ now.at = "idle" /\ now.result = "mismatch"
        \/ now.at = "call" /\ now.op \in {"EMIT_READ", "STAGE_RESET"} /\ now.base = m.base
    BY <2>1, Next1Is
  <2> QED
    BY <1>3, <1>5, <2>2, <2>3
<1>6. CASE m.op \in {"STAGE_RESET", "STAGE_WRITE"}
  <2> DEFINE k == IF m.op = "STAGE_RESET" THEN 0 ELSE m.k
  <2>1. \/ k < Pages /\ now = Wire!Next1(m, "STAGE_WRITE", k + 1)
        \/ ~(k < Pages) /\ now = Wire!Next1(m, "STAGE_COMMIT", 0)
    BY <1>1, <1>6 DEF Wire!After
  <2>2. k \in Nat /\ Pages \in Nat
    BY DEF IsClient, WireAssumption
  <2>3. ASSUME c \notin Bare
        PROVE  k \in 0..Pages /\ image.staged = k /\ \A j \in 1..k : image.stage[j] = c
    <3>1. CASE m.op = "STAGE_RESET"
      BY <1>1, <2>2, <2>3, <3>1 DEF Answers
    <3>2. CASE m.op = "STAGE_WRITE"
      <4>1. m.k \in 1..Pages /\ k = m.k /\ image.staged = k /\ image.stage[m.k] = c
        BY <1>1, <1>3, <2>3, <3>2 DEF Answers
      <4>2. \A j \in 1..m.k : j = m.k \/ j \in 1..m.k - 1
        BY <4>1
      <4>3. \A j \in 1..m.k - 1 : image.stage[j] = c
        BY <1>3, <2>3, <3>2
      <4> QED
        BY <2>2, <4>1, <4>2, <4>3
    <3> QED
      BY <1>6, <3>1, <3>2
  <2> HIDE DEF k
  <2>4. CASE k < Pages /\ now = Wire!Next1(m, "STAGE_WRITE", k + 1)
    <3>1. now.at = "call" /\ now.op = "STAGE_WRITE" /\ now.k = k + 1 /\ now.base = m.base
      BY <2>4, Next1Is
    <3>2. k + 1 \in 1..Pages /\ k + 1 - 1 = k
      BY <2>2, <2>4
    <3> QED
      BY <1>3, <1>6, <2>3, <3>1, <3>2
  <2>5. CASE ~(k < Pages) /\ now = Wire!Next1(m, "STAGE_COMMIT", 0)
    <3>1. now.at = "call" /\ now.op = "STAGE_COMMIT" /\ now.base = m.base
      BY <2>5, Next1Is
    <3>2. c \notin Bare => k = Pages
      BY <2>2, <2>3, <2>5
    <3> QED
      BY <1>3, <1>6, <2>3, <3>1, <3>2
  <2> QED
    BY <2>1, <2>4, <2>5
<1>7. CASE m.op = "GROW"
  <2>1. now = Wire!Next1(m, "STAGE_RESET", 0)
    BY <1>1, <1>7 DEF Wire!After
  <2>2. now.at = "call" /\ now.op = "STAGE_RESET" /\ now.base = m.base
    BY <2>1, Next1Is
  <2> QED
    BY <1>3, <1>7, <2>2
<1>8. CASE m.op = "STAGE_COMMIT"
  <2>1. \/ a.status \in {"room", "base"} /\ now = Wire!Next1(m, "GROW", image.ask)
        \/ (mode = "rings" => a.status # "room") /\ now = Wire!Ends(m, a.status)
    <3>1. a.status = "room" => image.ask > image.committed
      BY <1>1, <1>8 DEF Answers
    <3> QED
      BY <1>1, <1>8, <3>1 DEF Wire!After, Wire!Refused
  <2>2. /\ c \notin Bare => a.status \in {"ok", "room"}
        /\ c \notin Bare /\ a.status = "room" => image.world = m.base /\ image.dump = m.base
        /\ a.status = "ok" => \E k \in 1..Len(image.world) : image.world[k] = c
    BY <1>1, <1>8 DEF Answers
  <2>3. \/ /\ a.status \in {"room", "base"}
           /\ now.at = "call" /\ now.op = "GROW" /\ now.base = m.base
        \/ (mode = "rings" => a.status # "room") /\ now.at = "idle" /\ now.result = a.status
    BY <2>1, Next1Is
  <2> QED
    BY <1>3, <1>8, <2>2, <2>3
<1> QED
  BY <1>1, <1>4, <1>5, <1>6, <1>7, <1>8 DEF Ops

LEMMA TakeKeeps ==
    ASSUME WireAssumption, WireInv, NEW c \in Clients, Wire!Take(c)
    PROVE  WireInv'
<1> DEFINE m == client[c]
<1>1. IsClient(m) /\ m.at = "wait" /\ m.op \in Ops /\ UNCHANGED <<mode, rx, tx, image>>
  BY DEF WireInv, WireTyped, IsClient, Wire!Take
<1>2. \E a \in Wire!Wanted(c) :
        \E n \in {Wire!After([client[c] EXCEPT !.late = @ \ {a}, !.last = a], a)} :
          client' = [client EXCEPT ![c] = n] /\ gate' = Wire!Leaves(c, n)
  BY Zenon DEF Wire!Take
<1>19. PICK a \in Wire!Wanted(c) :
        \E n \in {Wire!After([client[c] EXCEPT !.late = @ \ {a}, !.last = a], a)} :
          client' = [client EXCEPT ![c] = n] /\ gate' = Wire!Leaves(c, n)
  BY <1>2, Zenon
<1>20. a \in m.late /\ a.seq = m.seq
  BY DEF Wire!Wanted
<1> DEFINE took == [m EXCEPT !.late = @ \ {a}, !.last = a]
           now == Wire!After(took, a)
<1>3. /\ IsClient(took) /\ took.seq = m.seq /\ took.jobs = m.jobs /\ took.op = m.op
      /\ took.k = m.k /\ took.base = m.base /\ took.late = m.late \ {a} /\ took.last = a
      /\ took.result = m.result
  <2>1. /\ took.at = m.at /\ took.seq = m.seq /\ took.jobs = m.jobs /\ took.op = m.op
        /\ took.k = m.k /\ took.base = m.base /\ took.late = m.late \ {a} /\ took.last = a
        /\ took.result = m.result
        /\ took = [slot \in {"at", "op", "k", "base", "seq", "late", "last", "result", "jobs"} |-> took[slot]]
    BY <1>1 DEF IsClient
  <2> HIDE DEF took
  <2> QED
    BY <1>1, <2>1 DEF IsClient
<1>4. rx = <<>> /\ Answers(c, a) /\ a \in Replies
  BY <1>1, <1>20 DEF WireInv, Awaited, IsClient
<1>5. client' = [client EXCEPT ![c] = now] /\ gate' = Wire!Leaves(c, now)
  BY <1>19, Zenon
<1> HIDE DEF took
<1>6. /\ IsClient(now) /\ now.at \in {"call", "idle"} /\ now.seq = m.seq /\ now.late = m.late \ {a}
      /\ now.jobs = m.jobs /\ now.last = a
      /\ now.at = "call" => now.result = m.result /\ now.op # "EMIT"
  BY <1>1, <1>3, <1>4, AfterIs DEF WireInv
<1>7. \E n : n = now
  OBVIOUS
<1>8. PICK n : n = now
  BY <1>7
<1>9. /\ n.at = "call" /\ c \notin Bare =>
           /\ image.dump = n.base /\ image.world = n.base
           /\ n.op = "STAGE_WRITE" => /\ n.k \in 1..Pages /\ image.staged \in {n.k - 1, n.k}
                                     /\ \A j \in 1..n.k - 1 : image.stage[j] = c
           /\ n.op = "STAGE_COMMIT" => image.staged = Pages /\ \A j \in 1..Pages : image.stage[j] = c
      /\ n.at = "idle" =>
           /\ n.result = "ok" => \E k \in 1..Len(image.world) : image.world[k] = c
           /\ mode = "rings" => n.result # "room"
           /\ c \notin Bare => n.result \notin {"mismatch", "base"}
  BY <1>1, <1>20, <1>3, <1>8, AfterWorks
<1> HIDE DEF now
<1>10. /\ client' = [d \in Clients |-> client'[d]] /\ client'[c] = n
       /\ \A d \in Clients : d # c => client'[d] = client[d]
  BY <1>5, <1>8 DEF WireInv, WireTyped
<1>11. \A d \in Clients : d # c => /\ client[d].at # "wait" /\ (d \notin Bare => client[d].at = "idle")
                                   /\ mode = "line" => client[d].at = "idle"
  BY <1>1, Alone DEF WireInv
<1>12. gate' = IF gate = c /\ (c \in Bare \/ n.at = "idle") THEN None ELSE gate
  BY <1>5, <1>8 DEF Wire!Leaves, Wire!Holds
<1>13. WireTyped'
  <2>1. gate' \in Clients \cup {None}
    BY <1>12 DEF WireInv, WireTyped
  <2> QED
    BY <1>1, <1>6, <1>8, <1>10, <2>1 DEF WireInv, WireTyped
<1>14. GateHeld'
  <2>1. CASE mode = "line"
    <3>1. c = Wire!First /\ gate = None
      BY <1>1, <2>1 DEF WireInv, GateHeld
    <3> QED
      BY <1>1, <1>10, <1>12, <2>1, <3>1 DEF WireInv, GateHeld, Wire!First
  <2>2. CASE mode = "rings"
    <3>1. gate = c
      BY <1>1, <2>2 DEF WireInv, GateHeld
    <3>2. n.at \in {"call", "idle"}
      BY <1>6, <1>8
    <3>3. gate' = c <=> n.at = "wait" \/ (c \notin Bare /\ n.at = "call")
      BY <1>12, <3>1, <3>2, WireAssumption DEF WireAssumption
    <3>4. \A d \in Clients : d # c => gate' # d
      BY <1>12, <3>1, WireAssumption DEF WireAssumption
    <3>5. \A d \in Clients : d # c =>
            ~(client'[d].at = "wait" \/ (d \notin Bare /\ client'[d].at = "call"))
      BY <1>10, <1>11
    <3> QED
      BY <1>1, <1>10, <2>2, <3>3, <3>4, <3>5 DEF GateHeld
  <2> QED
    BY <2>1, <2>2 DEF WireInv, WireTyped
<1>15. Awaited'
  BY <1>6, <1>8, <1>10, <1>11 DEF Awaited
<1>16. Numbered'
  <2>1. \A d \in Clients : \A e \in client'[d].late : e.seq <= client'[d].seq
    BY <1>6, <1>8, <1>10 DEF WireInv, Numbered
  <2>2. mode = "rings" => tx = <<>>
    BY <1>1, <1>20 DEF WireInv, Awaited, Wire!Wanted
  <2>3. client'[Wire!First].seq = client[Wire!First].seq
    BY <1>6, <1>8, <1>10 DEF Wire!First, WireAssumption
  <2>4. \A d \in Clients : client'[d].at # "wait"
    BY <1>6, <1>8, <1>10, <1>11
  <2>5. Wire!First' = Wire!First
    BY DEF Wire!First
  <2> QED
    BY <1>1, <1>4, <2>1, <2>2, <2>3, <2>4, <2>5 DEF WireInv, Numbered
<1>17. Works'
  <2>1. SUFFICES ASSUME NEW d \in Clients \ Bare, client'[d].at \in {"call", "wait"}, client'[d].op # "EMIT"
                 PROVE  d = c /\ n.at = "call"
    BY <1>1, <1>9, <1>10 DEF Works
  <2> QED
    BY <1>6, <1>8, <1>10, <1>11, <2>1
<1>18. Told'
  <2>1. a.from = c /\ a.job = m.jobs
    BY <1>4 DEF Answers
  <2>2. n.last = a /\ n.jobs = m.jobs /\ (n.at = "call" => n.result = m.result) /\ n.at \in {"call", "idle"}
    BY <1>6, <1>8
  <2>3. ASSUME NEW d \in Clients
        PROVE  /\ client'[d].last # None => client'[d].last.from = d /\ client'[d].last.job = client'[d].jobs
               /\ client'[d].result = "ok" => \E k \in 1..Len(image'.world) : image'.world[k] = d
               /\ mode' = "rings" => client'[d].result # "room"
               /\ d \notin Bare => client'[d].result \notin {"mismatch", "base"}
    <3>1. CASE d # c
      BY <1>1, <1>10, <3>1 DEF WireInv, Told
    <3>2. CASE d = c /\ n.at = "call"
      BY <1>1, <1>10, <2>1, <2>2, <3>2 DEF WireInv, Told
    <3>3. CASE d = c /\ n.at = "idle"
      BY <1>1, <1>9, <1>10, <2>1, <2>2, <3>3
    <3> QED
      BY <2>2, <3>1, <3>2, <3>3
  <2> QED
    BY <2>3 DEF Told
<1> QED
  BY <1>13, <1>14, <1>15, <1>16, <1>17, <1>18 DEF WireInv

LEMMA ServeKeeps ==
    ASSUME WireAssumption, WireInv, Wire!Serve
    PROVE  WireInv'
<1> DEFINE c == Wire!First
           f == Head(rx)
<1>1. /\ mode = "line" /\ rx # <<>> /\ rx \in Seq(Frames) /\ f \in Frames /\ f = rx[1]
      /\ rx' = Tail(rx) /\ image' = Wire!Does(image, f) /\ tx' = Append(tx, Wire!Says(image, f))
      /\ UNCHANGED <<mode, gate, client>> /\ c \in Clients /\ Wire!First' = Wire!First
  BY DEF Wire!Serve, WireInv, WireTyped, Wire!First, WireAssumption
<1>2. \E b : b = Wire!Says(image, f)
  OBVIOUS
<1>3. PICK b : b = Wire!Says(image, f)
  BY <1>2
<1>4. /\ IsImage(image') /\ b \in Replies /\ b.seq = f.seq
      /\ image'.world \in {image.world, Append(image.world, f.from)}
  BY <1>1, <1>3, Serving DEF WireInv, WireTyped
<1>5. /\ rx' \in Seq(Frames) /\ tx' = Append(tx, b) /\ tx' \in Seq(Replies)
      /\ Len(rx') = Len(rx) - 1 /\ Len(rx) \in Nat \ {0}
      /\ \A i \in 1..Len(rx') : i + 1 \in 1..Len(rx) /\ rx'[i] = rx[i + 1]
      /\ Len(tx') = Len(tx) + 1 /\ tx'[Len(tx')] = b
      /\ \A i \in 1..Len(tx') : i = Len(tx') \/ (i \in 1..Len(tx) /\ tx'[i] = tx[i])
  BY <1>1, <1>3, <1>4 DEF WireInv, WireTyped
<1>6. WireTyped' /\ GateHeld'
  BY <1>1, <1>4, <1>5 DEF WireInv, WireTyped, GateHeld
<1>7. Told'
  BY <1>1, <1>4, ToldStays
<1>8. Numbered'
  <2>1. f.seq <= client[c].seq
    BY <1>1, <1>5 DEF WireInv, Numbered
  <2>2. \A i \in 1..Len(rx') : rx'[i].seq <= client[c].seq
    BY <1>1, <1>5 DEF WireInv, Numbered
  <2>3. \A i \in 1..Len(tx') : tx'[i].seq <= client[c].seq
    BY <1>1, <1>4, <1>5, <2>1 DEF WireInv, Numbered
  <2>4. client[c].at = "call" => client[c].op = "EMIT"
    BY <1>1 DEF WireInv, Numbered
  <2> QED
    BY <1>1, <2>2, <2>3, <2>4 DEF WireInv, Numbered
<1>9. CASE client[c].at = "wait" /\ Len(rx) = 1
  <2>1. f = Request(c) /\ rx = <<f>> /\ rx' = <<>>
    BY <1>1, <1>9 DEF WireInv, Awaited
  <2>2. Answers(c, b)' /\ Works'
    BY <1>1, <1>3, <1>9, <2>1, ServesRequest
  <2>3. b.seq = client[c].seq
    <3>1. Request(c).seq = client[c].seq
      BY <1>1, <1>9, RequestIs DEF WireInv
    <3> QED
      BY <1>4, <2>1, <3>1
  <2>4. Awaited'
    <3>1. SUFFICES ASSUME NEW d \in Clients, client[d].at = "wait"
                   PROVE  /\ d = c /\ Answers(c, b)'
                          /\ \A i \in 1..Len(tx) : tx[i].seq # client[c].seq
                          /\ \A e \in client[c].late : e.seq # client[c].seq
      BY <1>1, <1>5, <2>1 DEF Awaited
    <3>2. d = c
      BY <1>1, <3>1 DEF WireInv, GateHeld
    <3> QED
      BY <1>1, <1>9, <2>2, <3>2 DEF WireInv, Awaited
  <2> QED
    BY <1>6, <1>7, <1>8, <2>2, <2>4 DEF WireInv
<1>10. CASE ~(client[c].at = "wait" /\ Len(rx) = 1)
  <2>1. \A d \in Clients : client[d].at # "idle" => d = c
    BY <1>1 DEF WireInv, GateHeld
  <2>2. client[c].at # "idle" => client[c].op = "EMIT"
    BY <1>1, <1>10 DEF WireInv, WireTyped, IsClient, Awaited, Numbered
  <2>3. Works'
    BY <1>1, <2>1, <2>2 DEF Works
  <2>4. Awaited'
    <3>1. SUFFICES ASSUME client[c].at = "wait"
                   PROVE  /\ Len(rx) # 1 /\ f.seq # client[c].seq
                          /\ rx'[Len(rx')] = Request(c)
                          /\ \A i \in 1..Len(rx') - 1 : rx'[i].seq < client[c].seq
                          /\ \A i \in 1..Len(tx) : tx[i].seq # client[c].seq
                          /\ \A e \in client[c].late : e.seq # client[c].seq
      BY <1>1, <1>4, <1>5, <2>1, <2>2 DEF Awaited, Request, Wire!Frame, Wire!Body
    <3>2. /\ rx[Len(rx)] = Request(c) /\ \A i \in 1..Len(rx) - 1 : rx[i].seq < client[c].seq
          /\ \A i \in 1..Len(tx) : tx[i].seq # client[c].seq
          /\ \A e \in client[c].late : e.seq # client[c].seq
      BY <1>1, <3>1 DEF WireInv, Awaited
    <3>3. Len(rx) \in Nat /\ Len(rx) > 1
      BY <1>5, <1>10, <3>1
    <3>4. f.seq # client[c].seq
      <4>1. f.seq \in Nat
        BY <1>1 DEF Frames
      <4>2. client[c].seq \in Nat
        BY <1>1 DEF WireInv, WireTyped, IsClient
      <4>3. 1 \in 1..Len(rx) - 1
        BY <3>3
      <4>4. f.seq < client[c].seq
        BY <1>1, <3>2, <4>3
      <4>5. \A i, j \in Nat : i < j => i # j
        OBVIOUS
      <4> HIDE DEF f, c
      <4> QED
        BY <4>1, <4>2, <4>4, <4>5
    <3>7. Len(rx) # 1
      BY <1>10, <3>1
    <3>5. rx'[Len(rx')] = rx[Len(rx)]
      BY <1>5, <3>3
    <3>6. \A i \in 1..Len(rx') - 1 : rx'[i].seq < client[c].seq
      BY <1>5, <3>2, <3>3
    <3> QED
      BY <3>2, <3>4, <3>5, <3>6, <3>7
  <2> QED
    BY <1>6, <1>7, <1>8, <2>3, <2>4 DEF WireInv
<1> QED
  BY <1>9, <1>10

LEMMA LoseKeeps ==
    ASSUME WireAssumption, WireInv, Wire!Lose
    PROVE  WireInv'
<1> DEFINE c == Wire!First
<1>1. /\ mode = "line" /\ UNCHANGED <<mode, gate, image, client>> /\ Wire!First' = Wire!First
      /\ c \in Clients /\ rx \in Seq(Frames) /\ tx \in Seq(Replies)
  BY DEF Wire!Lose, WireInv, WireTyped, Wire!First, WireAssumption
<1>2. \A d \in Clients : client[d].at = "wait" => d = c
  BY <1>1 DEF WireInv, GateHeld
<1>3. GateHeld' /\ Told'
  BY <1>1 DEF WireInv, GateHeld, Told
<1>4. CASE tx # <<>> /\ tx' = Tail(tx) /\ UNCHANGED rx
  <2>1. tx' \in Seq(Replies) /\ \A i \in 1..Len(tx') : i + 1 \in 1..Len(tx) /\ tx'[i] = tx[i + 1]
    <3>1. tx' \in Seq(Replies) /\ Len(tx') = Len(tx) - 1 /\ Len(tx) \in Nat
      BY <1>1, <1>4
    <3>2. \A i \in 1..Len(tx') : tx'[i] = tx[i + 1]
      BY <1>1, <1>4
    <3>3. \A i \in 1..Len(tx') : i + 1 \in 1..Len(tx)
      BY <3>1
    <3> QED
      BY <3>1, <3>2, <3>3
  <2>2. WireTyped' /\ Works'
    BY <1>1, <1>4, <2>1 DEF WireInv, WireTyped, Works
  <2>3. Awaited'
    <3>1. \A d \in Clients : /\ Request(d)' = Request(d) /\ Wire!Wanted(d)' = Wire!Wanted(d)
                             /\ \A e : Answers(d, e)' <=> Answers(d, e)
      BY <1>1 DEF Request, Wire!Frame, Wire!Body, Wire!Wanted, Answers
    <3>2. \A i \in 1..Len(tx') : \E j \in 1..Len(tx) : tx'[i] = tx[j]
      BY <2>1
    <3>3. mode # "rings"
      BY <1>1
    <3> QED
      BY <1>1, <1>4, <3>1, <3>2, <3>3 DEF WireInv, Awaited
  <2>4. Numbered'
    BY <1>1, <1>4, <2>1 DEF WireInv, Numbered
  <2> QED
    BY <1>3, <2>2, <2>3, <2>4 DEF WireInv
<1>5. CASE rx # <<>> /\ rx' = Tail(rx) /\ UNCHANGED tx
  <2>1. /\ rx' \in Seq(Frames) /\ Len(rx') = Len(rx) - 1 /\ Len(rx) \in Nat
        /\ \A i \in 1..Len(rx') : i + 1 \in 1..Len(rx) /\ rx'[i] = rx[i + 1]
        /\ rx' # <<>> => Len(rx') # 0
    BY <1>1, <1>5
  <2>2. WireTyped' /\ Works'
    BY <1>1, <1>5, <2>1 DEF WireInv, WireTyped, Works
  <2>3. Awaited'
    <3>1. SUFFICES ASSUME client[c].at = "wait"
                   PROVE  /\ rx' # <<>> => /\ rx'[Len(rx')] = Request(c)
                                           /\ \A i \in 1..Len(rx') - 1 : rx'[i].seq < client[c].seq
                                           /\ client[c].op # "EMIT" => Len(rx') = 1
                          /\ \A i \in 1..Len(tx) : tx[i].seq # client[c].seq
                          /\ \A e \in client[c].late : e.seq # client[c].seq
      BY <1>1, <1>2, <1>5 DEF Awaited, Request, Wire!Frame, Wire!Body
    <3>2. /\ rx[Len(rx)] = Request(c) /\ \A i \in 1..Len(rx) - 1 : rx[i].seq < client[c].seq
          /\ client[c].op # "EMIT" => Len(rx) = 1
          /\ \A i \in 1..Len(tx) : tx[i].seq # client[c].seq
          /\ \A e \in client[c].late : e.seq # client[c].seq
      BY <1>1, <1>5, <3>1 DEF WireInv, Awaited
    <3>3. rx' # <<>> => Len(rx') \in 1..Len(rx') /\ Len(rx') + 1 = Len(rx)
      BY <2>1
    <3>4. rx' # <<>> => \A i \in 1..Len(rx') - 1 : i \in 1..Len(rx') /\ i + 1 \in 1..Len(rx) - 1
      BY <2>1
    <3>5. rx' # <<>> => rx'[Len(rx')] = Request(c)
      BY <2>1, <3>2, <3>3
    <3>6. rx' # <<>> => \A i \in 1..Len(rx') - 1 : rx'[i].seq < client[c].seq
      BY <2>1, <3>2, <3>4
    <3>7. rx' # <<>> /\ client[c].op # "EMIT" => Len(rx') = 1
      BY <3>2, <3>3
    <3> QED
      BY <2>1, <3>2, <3>5, <3>6, <3>7
  <2>4. Numbered'
    <3>1. \A i \in 1..Len(rx') : rx'[i].seq <= client[c].seq
      BY <1>1, <2>1 DEF WireInv, Numbered
    <3>2. client[c].at = "call" => client[c].op = "EMIT"
      BY <1>1, <1>5 DEF WireInv, Numbered
    <3> QED
      BY <1>1, <1>5, <3>1, <3>2 DEF WireInv, Numbered
  <2> QED
    BY <1>3, <2>2, <2>3, <2>4 DEF WireInv
<1> QED
  BY <1>4, <1>5 DEF Wire!Lose

LEMMA WireStep ==
    ASSUME WireAssumption, WireKept, [Wire!Next]_(Wire!vars)
    PROVE  WireKept'
<1>0. ASSUME NEW c \in Clients, Wire!Begin(c) \/ Wire!Step(c)
      PROVE  crashed' = crashed
  <2>1. Wire!Begin(c) => crashed' = crashed
    BY DEF Wire!Begin
  <2>2. Wire!Send(c) \/ Wire!Pump(c) => crashed' = crashed
    BY DEF Wire!Send, Wire!Pump
  <2>3. Wire!Read(c) \/ Wire!Timeout(c) => crashed' = crashed
    BY DEF Wire!Read, Wire!Timeout
  <2>4. Wire!Take(c) => crashed' = crashed
    BY DEF Wire!Take
  <2> QED
    BY <1>0, <2>1, <2>2, <2>3, <2>4 DEF Wire!Step
<1>1. CASE UNCHANGED Wire!vars
  <2>1. WireInv => WireInv'
    <3> SUFFICES ASSUME WireInv PROVE WireInv'
      OBVIOUS
    <3>1. UNCHANGED <<mode, gate, rx, tx, image, client>>
      BY <1>1 DEF Wire!vars
    <3>2. WireTyped' /\ GateHeld'
      BY <3>1 DEF WireInv, WireTyped, GateHeld, Wire!First
    <3>3. Awaited'
      BY <3>1 DEF WireInv, Awaited, Request, Wire!Frame, Wire!Body, Wire!Wanted, Answers
    <3>4. Numbered'
      BY <3>1 DEF WireInv, Numbered, Wire!First
    <3>5. Works' /\ Told'
      BY <3>1 DEF WireInv, Works, Told
    <3> QED
      BY <3>2, <3>3, <3>4, <3>5 DEF WireInv
  <2> QED
    BY <1>1, <2>1 DEF WireKept, Wire!vars
<1>2. ASSUME NEW c \in Clients, Wire!Crash(c)
      PROVE  WireKept'
  BY <1>2 DEF WireKept, Wire!Crash
<1>3. ASSUME crashed = 0, NEW c \in Clients, mode = "line" => c = Wire!First, Wire!Begin(c) \/ Wire!Step(c)
      PROVE  WireKept'
  <2>1. WireInv /\ crashed' = crashed
    BY <1>0, <1>3 DEF WireKept
  <2>2. CASE Wire!Begin(c)
    BY <1>3, <2>1, <2>2, BeginKeeps DEF WireKept
  <2>3. CASE Wire!Send(c)
    BY <1>3, <2>1, <2>3, CallKeeps DEF WireKept
  <2>4. CASE Wire!Pump(c)
    BY <1>3, <2>1, <2>4, PumpKeeps DEF WireKept
  <2>5. CASE Wire!Read(c)
    BY <1>3, <2>1, <2>5, ReadKeeps DEF WireKept
  <2>6. CASE Wire!Take(c)
    BY <1>3, <2>1, <2>6, TakeKeeps DEF WireKept
  <2>7. CASE Wire!Timeout(c)
    BY <1>3, <2>1, <2>7, TimeoutKeeps DEF WireKept, Wire!Timeout
  <2> QED
    BY <1>3, <2>2, <2>3, <2>4, <2>5, <2>6, <2>7 DEF Wire!Step
<1>4. ASSUME crashed # 0, NEW c \in Clients, Wire!Begin(c) \/ Wire!Step(c)
      PROVE  WireKept'
  BY <1>0, <1>4 DEF WireKept
<1>5. CASE Wire!Serve
  BY <1>5, ServeKeeps DEF WireKept, Wire!Serve
<1>6. CASE Wire!Lose
  BY <1>6, LoseKeeps DEF WireKept, Wire!Lose
<1>7. \A c \in IF mode = "line" THEN {Wire!First} ELSE Clients :
        c \in Clients /\ (mode = "line" => c = Wire!First)
  BY DEF Wire!First, WireAssumption
<1> QED
  BY <1>1, <1>2, <1>3, <1>4, <1>5, <1>6, <1>7 DEF Wire!Next

LEMMA WireFollows ==
    ASSUME WireKept
    PROVE  Wire!OwnAnswer /\ Wire!TransactionsHold /\ Wire!ToldIsDone
  BY DEF WireKept, WireInv, Told, Wire!OwnAnswer, Wire!TransactionsHold, Wire!ToldIsDone, Wire!Contains

\* While no process dies, an answer a client takes answers its own request of this
\* very job, a job inside one transaction is never refused for another's request
\* landing inside it, and what is told "ok" was applied, on the rings and on the
\* line, whatever is late or lost (client.py, link.py).
THEOREM WireAnswersItsOwn ==
    ASSUME WireAssumption
    PROVE  Wire!Spec => [](Wire!OwnAnswer /\ Wire!TransactionsHold /\ Wire!ToldIsDone)
<1>1. WireKept => Wire!OwnAnswer /\ Wire!TransactionsHold /\ Wire!ToldIsDone
  BY WireFollows
<1>2. Wire!Init /\ [][Wire!Next]_(Wire!vars) => []WireKept
  BY WireStarts, WireStep, PTL
<1> QED
  BY <1>1, <1>2, PTL DEF Wire!Spec

-----------------------------------------------------------------------------
(* The frames of the channel, over a line that damages some                  *)

\* A payload is of bytes, of which some look like a header, and no check is among them.
PlainBytes == {Wire!Byte(x) : x \in Nat} \cup {Wire!Magic(n) : n \in Nat}
PayloadsPlain == MaxPayload \in Nat /\ Payloads \subseteq Seq(PlainBytes)

Body(p) == <<Wire!Magic(Len(p))>> \o p
Letters == PlainBytes \cup {Wire!Check(Body(p)) : p \in Payloads}

\* How far the decoder is done with the bytes sent, what comes next, and where a frame ends.
Passed == fed - Len(buffer)
Coming(x) == IF x <= fed THEN buffer[x - Passed] ELSE line[x - fed]
At(i) == sent[i].from
Pay(i) == sent[i].payload
Bytes(i) == sent[i].bytes
End(i) == At(i) + Len(Pay(i)) + 2
Over(i, k) == At(i) < k /\ k <= End(i)

SentFrames ==
  {s \in [payload : Payloads, from : Nat, bytes : Seq(Letters)] :
     /\ Len(s.payload) <= MaxPayload
     /\ Len(s.bytes) = Len(s.payload) + 2
     /\ \A k \in 1..Len(s.bytes) :
          s.bytes[k] = Wire!Encode(s.payload)[k] \/ s.bytes[k] \in PlainBytes}
FramesTyped ==
  /\ line \in Seq(Letters) /\ buffer \in Seq(Letters)
  /\ sent \in Seq(SentFrames) /\ got \in Seq(Payloads)
  /\ fed \in Nat /\ Len(buffer) <= fed

\* The frames lie in a row behind each other, and the bytes to come are theirs.
FramesLie ==
  /\ \A i, j \in 1..Len(sent) : i < j => End(i) <= At(j)
  /\ \A i \in 1..Len(sent) : End(i) <= fed + Len(line)
  /\ \A x \in Passed + 1..fed + Len(line) : \E i \in 1..Len(sent) : Over(i, x)
  /\ \A x \in Passed + 1..fed + Len(line), i \in 1..Len(sent) :
       Over(i, x) => Coming(x) = Bytes(i)[x - At(i)]

\* The decoder leaves a frame inside for a byte of it, fed by then, that is not what was sent.
Broken(i) == \E k \in 1..Len(Pay(i)) + 2 : At(i) + k <= fed /\ Bytes(i)[k] # Wire!Encode(Pay(i))[k]
FramesLeft ==
  \A i \in 1..Len(sent) : At(i) < Passed /\ Passed < End(i) => Broken(i)

\* What it has yielded are the whole frames behind it.
Come == {i \in Wire!Whole : End(i) <= Passed}
FramesTaken ==
  /\ Len(got) = Cardinality(Come)
  /\ \A i \in Come : got[Cardinality({j \in Come : j <= i})] = Pay(i)

FramesInv == FramesTyped /\ FramesLie /\ FramesLeft /\ FramesTaken

\* Cardinality means in LiveWire what it means here.
LEMMA Counts == \A S : Wire!Cardinality(S) = Cardinality(S)
BY DEF Wire!Cardinality, Cardinality

\* Where the parts of two sequences lie in their concatenation.
LEMMA Joined ==
    ASSUME NEW S, NEW a \in Seq(S), NEW b \in Seq(S)
    PROVE  /\ a \o b \in Seq(S) /\ Len(a \o b) = Len(a) + Len(b)
           /\ \A k \in 1..Len(a) : (a \o b)[k] = a[k]
           /\ \A k \in 1..Len(b) : (a \o b)[Len(a) + k] = b[k]
<1>1. /\ a \o b \in Seq(S) /\ Len(a \o b) = Len(a) + Len(b)
      /\ \A k \in 1..Len(a) + Len(b) : (a \o b)[k] = IF k <= Len(a) THEN a[k] ELSE b[k - Len(a)]
  BY ConcatProperties
<1>2. Len(a) \in Nat /\ Len(b) \in Nat
  OBVIOUS
<1>3. ASSUME NEW k \in 1..Len(a)
      PROVE  (a \o b)[k] = a[k]
  BY <1>1, <1>2
<1>4. ASSUME NEW k \in 1..Len(b)
      PROVE  (a \o b)[Len(a) + k] = b[k]
  <2>1. Len(a) + k \in 1..Len(a) + Len(b) /\ ~(Len(a) + k <= Len(a)) /\ Len(a) + k - Len(a) = k
    BY <1>2
  <2> QED
    BY <1>1, <2>1
<1> QED
  BY <1>1, <1>3, <1>4

\* What SubSeq yields.
LEMMA Parts ==
    ASSUME NEW S, NEW s \in Seq(S), NEW m \in 1..Len(s) + 1, NEW n \in m - 1..Len(s)
    PROVE  /\ SubSeq(s, m, n) \in Seq(S) /\ Len(SubSeq(s, m, n)) = n - m + 1
           /\ \A k \in 1..n - m + 1 : SubSeq(s, m, n)[k] = s[k + m - 1]
<1>1. m \in Int /\ n \in Int /\ Len(s) \in Nat /\ \A k \in m..n : s[k] \in S
  OBVIOUS
<1>2. /\ SubSeq(s, m, n) \in Seq(S) /\ Len(SubSeq(s, m, n)) = IF m <= n THEN n - m + 1 ELSE 0
      /\ \A k \in 1..n - m + 1 : SubSeq(s, m, n)[k] = s[m + k - 1]
  BY <1>1, SubSeqProperties
<1>3. \A k \in 1..n - m + 1 : m + k - 1 = k + m - 1
  BY <1>1
<1> QED
  BY <1>1, <1>2, <1>3

\* The front of a sequence.
LEMMA Prefix ==
    ASSUME NEW S, NEW s \in Seq(S), NEW n \in 0..Len(s), NEW c, c = SubSeq(s, 1, n)
    PROVE  c \in Seq(S) /\ Len(c) = n /\ \A k \in 1..n : c[k] = s[k]
<1>1. 1 \in 1..Len(s) + 1 /\ n \in 1 - 1..Len(s) /\ n - 1 + 1 = n /\ n \in Nat
  OBVIOUS
<1>2. /\ SubSeq(s, 1, n) \in Seq(S) /\ Len(SubSeq(s, 1, n)) = n - 1 + 1
      /\ \A k \in 1..n - 1 + 1 : SubSeq(s, 1, n)[k] = s[k + 1 - 1]
  BY <1>1, Parts
<1>3. \A k \in 1..n : k + 1 - 1 = k
  BY <1>1
<1> QED
  BY <1>1, <1>2, <1>3

\* The rest of a sequence.
LEMMA Suffix ==
    ASSUME NEW S, NEW s \in Seq(S), NEW n \in 0..Len(s), NEW c, c = SubSeq(s, n + 1, Len(s))
    PROVE  c \in Seq(S) /\ Len(c) = Len(s) - n /\ \A k \in 1..Len(s) - n : c[k] = s[n + k]
<1>1. PICK m \in 1..Len(s) + 1 : m = n + 1
  OBVIOUS
<1>2. Len(s) \in Nat /\ n \in Nat /\ Len(s) \in m - 1..Len(s)
  BY <1>1
<1>3. /\ SubSeq(s, m, Len(s)) \in Seq(S) /\ Len(SubSeq(s, m, Len(s))) = Len(s) - m + 1
      /\ \A k \in 1..Len(s) - m + 1 : SubSeq(s, m, Len(s))[k] = s[k + m - 1]
  BY <1>2, Parts
<1>4. Len(s) - m + 1 = Len(s) - n /\ \A k \in 1..Len(s) - n : k + m - 1 = n + k
  BY <1>1, <1>2
<1>5. c = SubSeq(s, m, Len(s))
  BY <1>1
<1> QED
  BY <1>3, <1>4, <1>5

\* Where a frame's bytes lie, by their place in it and by their place on the line.
LEMMA Between ==
    ASSUME NEW a \in Int, NEW x \in Int, NEW l \in Nat
    PROVE  x - a \in 1..l + 2 <=> a < x /\ x <= a + l + 2
OBVIOUS

\* A frame as it is written.
LEMMA EncodedIs ==
    ASSUME PayloadsPlain, NEW p \in Payloads
    PROVE  /\ p \in Seq(PlainBytes) /\ Len(p) \in Nat
           /\ Body(p) \in Seq(Letters) /\ Len(Body(p)) = Len(p) + 1
           /\ Wire!Encode(p) \in Seq(Letters) /\ Len(Wire!Encode(p)) = Len(p) + 2
           /\ Wire!Encode(p)[1] = Wire!Magic(Len(p))
           /\ \A k \in 1..Len(p) + 1 : Wire!Encode(p)[k] = Body(p)[k] /\ Body(p)[k] \in PlainBytes
           /\ \A k \in 1..Len(p) : Wire!Encode(p)[k + 1] = p[k]
           /\ Wire!Encode(p)[Len(p) + 2] = Wire!Check(Body(p))
<1> DEFINE m == <<Wire!Magic(Len(p))>>
           c == <<Wire!Check(Body(p))>>
<1>1. p \in Seq(PlainBytes) /\ Len(p) \in Nat
  BY DEF PayloadsPlain
<1>2. Wire!Magic(Len(p)) \in PlainBytes /\ Wire!Check(Body(p)) \in Letters /\ PlainBytes \subseteq Letters
  BY <1>1 DEF PlainBytes, Letters
<1> HIDE DEF PlainBytes, Letters
<1>3. m \in Seq(PlainBytes) /\ Len(m) = 1 /\ m[1] = Wire!Magic(Len(p))
  BY <1>2
<1>4. c \in Seq(Letters) /\ Len(c) = 1 /\ c[1] = Wire!Check(Body(p))
  BY <1>2
<1>5. /\ Body(p) \in Seq(PlainBytes) /\ Len(Body(p)) = Len(p) + 1
      /\ Body(p)[1] = Wire!Magic(Len(p)) /\ \A k \in 1..Len(p) : Body(p)[k + 1] = p[k]
  <2> HIDE DEF m
  <2>1. Body(p) = m \o p
    BY DEF Body, m
  <2>2. m \in Seq(PlainBytes) /\ p \in Seq(PlainBytes)
    BY <1>1, <1>3
  <2>3. /\ m \o p \in Seq(PlainBytes) /\ Len(m \o p) = Len(m) + Len(p)
        /\ \A k \in 1..Len(m) : (m \o p)[k] = m[k]
        /\ \A k \in 1..Len(p) : (m \o p)[Len(m) + k] = p[k]
    BY <2>2, Joined
  <2>4. 1 \in 1..Len(m) /\ Len(m) + Len(p) = Len(p) + 1 /\ \A k \in 1..Len(p) : Len(m) + k = k + 1
    BY <1>1, <1>3
  <2> QED
    BY <1>3, <2>1, <2>3, <2>4
<1>6. Body(p) \in Seq(Letters) /\ \A k \in 1..Len(p) + 1 : Body(p)[k] \in PlainBytes
  BY <1>1, <1>2, <1>5
<1>7. Wire!Encode(p) = Body(p) \o c
  BY DEF Wire!Encode, Body
<1> HIDE DEF c
<1>8. /\ Wire!Encode(p) \in Seq(Letters) /\ Len(Wire!Encode(p)) = Len(p) + 2
      /\ \A k \in 1..Len(p) + 1 : Wire!Encode(p)[k] = Body(p)[k]
      /\ Wire!Encode(p)[Len(p) + 2] = c[1]
  <2>1. /\ Wire!Encode(p) \in Seq(Letters) /\ Len(Wire!Encode(p)) = Len(Body(p)) + Len(c)
        /\ \A k \in 1..Len(Body(p)) : Wire!Encode(p)[k] = Body(p)[k]
        /\ \A k \in 1..Len(c) : Wire!Encode(p)[Len(Body(p)) + k] = c[k]
    <3>1. Body(p) \in Seq(Letters) /\ c \in Seq(Letters)
      BY <1>4, <1>6
    <3>2. /\ Body(p) \o c \in Seq(Letters) /\ Len(Body(p) \o c) = Len(Body(p)) + Len(c)
          /\ \A k \in 1..Len(Body(p)) : (Body(p) \o c)[k] = Body(p)[k]
          /\ \A k \in 1..Len(c) : (Body(p) \o c)[Len(Body(p)) + k] = c[k]
      BY <3>1, Joined
    <3> QED
      BY <1>7, <3>2
  <2>2. 1 \in 1..Len(c) /\ Len(Body(p)) + 1 = Len(p) + 2 /\ Len(Body(p)) + Len(c) = Len(p) + 2
    BY <1>1, <1>4, <1>5
  <2> QED
    BY <1>5, <2>1, <2>2
<1>9. \A k \in 1..Len(p) : k + 1 \in 1..Len(p) + 1
  BY <1>1
<1> QED
  BY <1>1, <1>4, <1>5, <1>6, <1>8, <1>9

\* Nothing is sent at first.
LEMMA FramesStart == ASSUME PayloadsPlain, Wire!FramesInit PROVE FramesInv
<1> USE DEF Wire!FramesInit
<1>1. FramesTyped
  BY DEF FramesTyped
<1>2. FramesLie /\ FramesLeft
  <2>0. Len(sent) = 0 /\ Len(line) = 0 /\ Len(buffer) = 0 /\ fed = 0
    OBVIOUS
  <2>1. Len(sent) = 0 /\ Len(line) = 0 /\ fed = 0 /\ Passed = 0
    <3> HIDE DEF Wire!FramesInit
    <3> QED
      BY <2>0 DEF Passed
  <2>2. 1..Len(sent) = {} /\ Passed + 1..fed + Len(line) = {}
    BY <2>1
  <2> QED
    BY <2>2 DEF FramesLie, FramesLeft
<1>3. Come = {}
  BY DEF Come, Wire!Whole
<1> QED
  BY <1>1, <1>2, <1>3, FS_EmptySet DEF FramesInv, FramesTaken

\* What a frame is: where it lies, and that its bytes are those written, or damage.
LEMMA FrameIs ==
    ASSUME PayloadsPlain, FramesTyped, NEW i \in 1..Len(sent)
    PROVE  /\ Pay(i) \in Payloads /\ Len(Pay(i)) \in Nat /\ Len(Pay(i)) <= MaxPayload
           /\ At(i) \in Nat /\ End(i) \in Nat /\ End(i) = At(i) + Len(Pay(i)) + 2
           /\ Bytes(i) \in Seq(Letters) /\ Len(Bytes(i)) = Len(Pay(i)) + 2
           /\ \A k \in 1..Len(Pay(i)) + 2 :
                Bytes(i)[k] = Wire!Encode(Pay(i))[k] \/ Bytes(i)[k] \in PlainBytes
<1>1. PICK s \in SentFrames : s = sent[i]
  BY DEF FramesTyped
<1>2. /\ s.payload \in Payloads /\ s.from \in Nat /\ s.bytes \in Seq(Letters)
      /\ Len(s.payload) <= MaxPayload /\ Len(s.bytes) = Len(s.payload) + 2
      /\ \A k \in 1..Len(s.bytes) : s.bytes[k] = Wire!Encode(s.payload)[k] \/ s.bytes[k] \in PlainBytes
  BY DEF SentFrames
<1>3. Pay(i) = s.payload /\ At(i) = s.from /\ Bytes(i) = s.bytes
  BY <1>1 DEF Pay, At, Bytes
<1>4. Len(s.payload) \in Nat
  BY <1>2 DEF PayloadsPlain
<1>5. End(i) = At(i) + Len(Pay(i)) + 2
  BY DEF End
<1> QED
  BY <1>2, <1>3, <1>4, <1>5

\* The whole frames are those whose bytes are the ones written.
LEMMA WholeIs ==
    ASSUME FramesTyped
    PROVE  Wire!Whole = {i \in 1..Len(sent) : Bytes(i) = Wire!Encode(Pay(i))}
BY DEF FramesTyped, Wire!Whole, Bytes, Pay

\* A whole frame is not broken, so the decoder is not inside it.
LEMMA LeftIsBroken ==
    ASSUME PayloadsPlain, FramesInv, NEW i \in Wire!Whole
    PROVE  i \in 1..Len(sent) /\ (End(i) <= Passed \/ Passed <= At(i))
<1>1. i \in 1..Len(sent) /\ Bytes(i) = Wire!Encode(Pay(i))
  BY WholeIs DEF FramesInv
<1>2. ~Broken(i)
  BY <1>1 DEF Broken
<1>3. Passed \in Int
  BY DEF FramesInv, FramesTyped, Passed
<1>4. At(i) \in Nat /\ End(i) \in Nat
  BY <1>1, FrameIs DEF FramesInv
<1>5. ~(At(i) < Passed /\ Passed < End(i))
  BY <1>1, <1>2 DEF FramesInv, FramesLeft
<1> QED
  BY <1>1, <1>3, <1>4, <1>5

\* There are finitely many frames.
LEMMA WholeIsFinite ==
    ASSUME FramesInv
    PROVE  IsFiniteSet(Wire!Whole) /\ IsFiniteSet(Come)
<1>1. IsFiniteSet(1..Len(sent))
  BY FS_Interval DEF FramesInv, FramesTyped
<1>2. Wire!Whole \subseteq 1..Len(sent) /\ Come \subseteq 1..Len(sent)
  BY DEF Come, Wire!Whole, FramesInv, FramesTyped
<1> QED
  BY <1>1, <1>2, FS_Subset

\* What the run checks follows: the payloads yielded are those of the whole frames, in order.
LEMMA FramesFollow ==
    ASSUME PayloadsPlain, FramesInv
    PROVE  Wire!WholeFramesCome
<1> DEFINE W == Wire!Whole
<1>1. IsFiniteSet(W) /\ IsFiniteSet(Come) /\ Come \subseteq W
  BY WholeIsFinite DEF Come
<1>2. Cardinality(W) \in Nat /\ Cardinality(Come) \in Nat /\ Cardinality(Come) <= Cardinality(W)
  BY <1>1, FS_Subset, FS_CardinalityType
<1>3. Passed \in Nat
  BY DEF FramesInv, FramesTyped, Passed
<1>4. ASSUME NEW i \in W, Wire!Rank(i) <= Len(got)
      PROVE  got[Wire!Rank(i)] = Pay(i)
  <2>1. i \in 1..Len(sent) /\ \A j \in W : j \in 1..Len(sent)
    BY <1>4, LeftIsBroken
  <2>2. CASE i \in Come
    <3>1. \A j \in W : j <= i => j \in Come
      <4> SUFFICES ASSUME NEW j \in W, j < i
                   PROVE  End(j) <= Passed
        BY <2>1, <2>2 DEF Come
      <4>1. End(j) <= At(i)
        BY <2>1 DEF FramesInv, FramesLie
      <4>2. End(i) <= Passed
        BY <2>2 DEF Come
      <4>3. /\ End(j) \in Nat /\ At(i) \in Nat /\ Len(Pay(i)) \in Nat
            /\ End(i) = At(i) + Len(Pay(i)) + 2
        BY <2>1, FrameIs DEF FramesInv
      <4> QED
        BY <1>3, <4>1, <4>2, <4>3
    <3>2. {j \in W : j <= i} = {j \in Come : j <= i}
      BY <1>1, <3>1
    <3> QED
      BY <2>2, <3>2, Counts DEF Wire!Rank, FramesInv, FramesTaken
  <2>3. CASE i \notin Come
    <3> DEFINE R == {j \in W : j <= i}
    <3>1. Passed <= At(i)
      BY <1>4, <2>3, LeftIsBroken DEF Come
    <3>2. \A j \in Come : j < i
      <4> SUFFICES ASSUME NEW j \in Come, i < j
                   PROVE  FALSE
        BY <1>1, <2>1, <2>3
      <4>1. End(i) <= At(j) /\ End(j) <= Passed
        BY <1>1, <2>1 DEF FramesInv, FramesLie, Come
      <4>2. /\ Len(Pay(i)) \in Nat /\ At(i) \in Nat
            /\ Len(Pay(j)) \in Nat /\ At(j) \in Nat
            /\ End(i) = At(i) + Len(Pay(i)) + 2
            /\ End(j) = At(j) + Len(Pay(j)) + 2
        BY <1>1, <2>1, FrameIs DEF FramesInv
      <4> QED
        BY <1>3, <3>1, <4>1, <4>2
    <3>3. Come \cup {i} \subseteq R
      BY <1>1, <1>4, <2>1, <3>2
    <3>4. IsFiniteSet(R)
      BY <1>1, FS_Subset, R \subseteq W
    <3>5. Cardinality(Come \cup {i}) = Cardinality(Come) + 1
      BY <1>1, <2>3, FS_AddElement
    <3>6. Cardinality(Come \cup {i}) <= Cardinality(R) /\ Cardinality(R) \in Nat
      BY <3>3, <3>4, FS_Subset, FS_CardinalityType
    <3>7. Wire!Rank(i) = Cardinality(R) /\ Len(got) = Cardinality(Come)
      BY Counts DEF Wire!Rank, FramesInv, FramesTaken
    <3> HIDE DEF R
    <3> QED
      BY <1>2, <1>4, <3>5, <3>6, <3>7
  <2> QED
    BY <2>2, <2>3
<1>5. ASSUME line = <<>>, Len(buffer) < 2
      PROVE  Come = W
  <2> SUFFICES ASSUME NEW i \in W, Passed <= At(i)
               PROVE  FALSE
    BY <1>1, LeftIsBroken DEF Come
  <2>1. i \in 1..Len(sent)
    BY LeftIsBroken
  <2>2. End(i) > At(i) /\ End(i) \in Nat /\ At(i) \in Nat
    BY <2>1, FrameIs DEF FramesInv
  <2>3. Len(line) = 0
    BY <1>5
  <2>4. End(i) <= fed + Len(line)
    BY <2>1 DEF FramesInv, FramesLie
  <2>5. fed \in Nat /\ Len(buffer) \in Nat /\ fed < Passed + 2
    BY <1>5 DEF FramesInv, FramesTyped, Passed
  <2>6. End(i) >= At(i) + 2
    BY <2>1, FrameIs DEF FramesInv
  <2> QED
    BY <1>3, <2>2, <2>3, <2>4, <2>5, <2>6
<1>6. Len(got) = Cardinality(Come)
  BY DEF FramesInv, FramesTaken
<1> HIDE DEF W
<1>7. Len(got) <= Cardinality(W)
  BY <1>2, <1>6
<1> QED
  BY <1>4, <1>5, <1>6, <1>7, Counts DEF Wire!WholeFramesCome, W, Pay

\* A step of the framing that moves neither the decoder's place, nor what is taken, keeps FramesTaken
\* where the whole frames behind it stay the ones they are.
LEMMA TakenStays ==
    ASSUME FramesInv, got' = got, Come' = Come,
           \A i \in Come : Pay(i)' = Pay(i)
    PROVE  FramesTaken'
BY DEF FramesInv, FramesTaken

\* A frame is sent behind the others.
LEMMA SendFrameKeeps ==
    ASSUME PayloadsPlain, FramesInv, NEW p \in Payloads, Wire!SendFrame(p), NEW n, n = Len(sent)
    PROVE  FramesInv'
<1> DEFINE e == Wire!Encode(p)
           s == [payload |-> p, from |-> fed + Len(line), bytes |-> e]
<1>1. /\ FramesTyped /\ FramesLie /\ FramesLeft
      /\ line \in Seq(Letters) /\ buffer \in Seq(Letters) /\ sent \in Seq(SentFrames) /\ fed \in Nat
      /\ Len(line) \in Nat /\ Len(buffer) \in Nat /\ Len(buffer) <= fed /\ n \in Nat
  BY DEF FramesInv, FramesTyped
<1>2. /\ line' = line \o e /\ sent' = Append(sent, s) /\ buffer' = buffer /\ got' = got /\ fed' = fed
      /\ Len(p) <= MaxPayload
  BY DEF Wire!SendFrame
<1>3. e \in Seq(Letters) /\ Len(e) = Len(p) + 2 /\ Len(p) \in Nat
  BY EncodedIs
<1> HIDE DEF e
<1>4. s \in SentFrames
  BY <1>1, <1>2, <1>3 DEF SentFrames, e
<1>5. /\ line' \in Seq(Letters) /\ Len(line') = Len(line) + Len(p) + 2
      /\ \A k \in 1..Len(line) : line'[k] = line[k]
      /\ \A k \in 1..Len(p) + 2 : line'[Len(line) + k] = e[k]
  <2>1. /\ line' \in Seq(Letters) /\ Len(line') = Len(line) + Len(e)
        /\ \A k \in 1..Len(line) : line'[k] = line[k]
        /\ \A k \in 1..Len(e) : line'[Len(line) + k] = e[k]
    <3>1. line \in Seq(Letters) /\ e \in Seq(Letters) /\ line' = line \o e
      BY <1>1, <1>2, <1>3
    <3>2. /\ line \o e \in Seq(Letters) /\ Len(line \o e) = Len(line) + Len(e)
          /\ \A k \in 1..Len(line) : (line \o e)[k] = line[k]
          /\ \A k \in 1..Len(e) : (line \o e)[Len(line) + k] = e[k]
      BY <3>1, Joined
    <3> QED
      BY <3>1, <3>2
  <2>2. Len(e) = Len(p) + 2 /\ Len(line) + (Len(p) + 2) = Len(line) + Len(p) + 2
    BY <1>1, <1>3
  <2> QED
    BY <2>1, <2>2
<1>6. /\ sent' \in Seq(SentFrames) /\ Len(sent') = n + 1 /\ sent'[n + 1] = s
      /\ \A i \in 1..n : sent'[i] = sent[i]
  <2> HIDE DEF s
  <2> QED
    BY <1>1, <1>2, <1>4, AppendProperties
<1>7. FramesTyped'
  BY <1>2, <1>5, <1>6 DEF FramesInv, FramesTyped
<1>8. Passed' = Passed /\ Passed \in Nat /\ Passed = fed - Len(buffer)
  BY <1>1, <1>2 DEF Passed
<1>9. \A i \in 1..n : /\ At(i)' = At(i) /\ Pay(i)' = Pay(i) /\ Bytes(i)' = Bytes(i)
                      /\ End(i)' = End(i) /\ (Broken(i)' <=> Broken(i))
  <2>1. \A i \in 1..n : At(i)' = At(i) /\ Pay(i)' = Pay(i) /\ Bytes(i)' = Bytes(i)
    BY <1>6 DEF At, Pay, Bytes
  <2> QED
    BY <1>2, <2>1 DEF End, Broken
<1>10. \A i \in 1..n : End(i) \in Nat /\ At(i) \in Nat /\ At(i) < End(i)
  BY <1>1, FrameIs
<1>11. /\ At(n + 1)' = fed + Len(line) /\ Bytes(n + 1)' = e /\ End(n + 1)' = fed + Len(line')
       /\ Len(line') = Len(line) + Len(p) + 2
  <2>1. At(n + 1)' = fed + Len(line) /\ Pay(n + 1)' = p /\ Bytes(n + 1)' = e
    BY <1>6 DEF At, Pay, Bytes
  <2> QED
    BY <1>1, <1>3, <1>5, <2>1 DEF End
<1> HIDE DEF s
<1>12. FramesLie'
  <2>1. ASSUME NEW i \in 1..n + 1, NEW j \in 1..n + 1, i < j
        PROVE  End(i)' <= At(j)'
    <3>1. i \in 1..n /\ (j \in 1..n \/ j = n + 1)
      BY <1>1, <2>1
    <3>2. CASE j \in 1..n
      BY <1>1, <1>9, <2>1, <3>1, <3>2 DEF FramesLie
    <3>3. CASE j = n + 1
      BY <1>1, <1>9, <1>11, <3>1, <3>3 DEF FramesLie
    <3> QED
      BY <3>1, <3>2, <3>3
  <2>2. ASSUME NEW i \in 1..n + 1
        PROVE  End(i)' <= fed + Len(line')
    <3>1. i \in 1..n \/ i = n + 1
      BY <1>1
    <3>2. CASE i \in 1..n
      <4>1. End(i)' = End(i) /\ End(i) \in Nat /\ End(i) <= fed + Len(line)
        BY <1>1, <1>9, <1>10, <3>2 DEF FramesLie
      <4> QED
        BY <1>1, <1>3, <1>11, <4>1
    <3>3. CASE i = n + 1
      BY <1>1, <1>3, <1>11, <3>3
    <3> QED
      BY <3>1, <3>2, <3>3
  <2>3. ASSUME NEW x \in Passed + 1..fed + Len(line')
        PROVE  /\ \E i \in 1..n + 1 : At(i)' < x /\ x <= End(i)'
               /\ \A i \in 1..n + 1 : At(i)' < x /\ x <= End(i)' => Coming(x)' = Bytes(i)'[x - At(i)']
    <3>1. CASE x <= fed + Len(line)
      <4>1. x \in Passed + 1..fed + Len(line)
        BY <1>1, <1>8, <3>1
      <4>2. PICK i \in 1..n : At(i) < x /\ x <= End(i)
        BY <1>1, <4>1 DEF FramesLie, Over
      <4>3. ~(At(n + 1)' < x)
        BY <1>1, <1>8, <1>11, <4>1
      <4>4. Coming(x)' = Coming(x)
        <5>1. CASE x <= fed
          BY <1>2, <1>8, <5>1 DEF Coming
        <5>2. CASE x > fed
          <6>1. x - fed \in 1..Len(line) /\ ~(x <= fed)
            BY <1>1, <1>8, <4>1, <5>2
          <6> QED
            BY <1>2, <1>5, <6>1 DEF Coming
        <5> QED
          BY <1>1, <1>8, <5>1, <5>2
      <4>5. \A j \in 1..n : At(j) < x /\ x <= End(j) => Coming(x) = Bytes(j)[x - At(j)]
        BY <1>1, <4>1 DEF FramesLie, Over
      <4>6. \A j \in 1..n + 1 : j \in 1..n \/ j = n + 1
        BY <1>1
      <4>7. i \in 1..n + 1
        BY <1>1
      <4> QED
        BY <1>9, <4>2, <4>3, <4>4, <4>5, <4>6, <4>7
    <3>2. CASE x > fed + Len(line)
      <4> DEFINE k == x - fed - Len(line)
      <4>1. k \in 1..Len(p) + 2 /\ x - At(n + 1)' = k
        BY <1>1, <1>3, <1>8, <1>11, <3>2
      <4>2. Coming(x)' = e[k]
        <5>1. x - fed = Len(line) + k /\ ~(x <= fed)
          BY <1>1, <1>8, <3>2
        <5>2. Coming(x)' = line'[x - fed]
          BY <1>2, <5>1 DEF Coming
        <5> QED
          BY <1>5, <4>1, <5>1, <5>2
      <4>3. At(n + 1)' < x /\ x <= End(n + 1)' /\ n + 1 \in 1..n + 1
        BY <1>1, <1>3, <1>8, <1>11, <3>2
      <4>4. \A i \in 1..n : ~(x <= End(i))
        <5>1. \A i \in 1..n : End(i) <= fed + Len(line)
          BY <1>1 DEF FramesLie
        <5> QED
          BY <1>1, <1>8, <1>10, <3>2, <5>1
      <4>5. \A j \in 1..n + 1 : j \in 1..n \/ j = n + 1
        BY <1>1
      <4> HIDE DEF k
      <4> QED
        BY <1>9, <1>11, <4>1, <4>2, <4>3, <4>4, <4>5
    <3> QED
      BY <1>1, <1>3, <1>8, <1>11, <3>1, <3>2
  <2> QED
    BY <1>2, <1>6, <1>8, <2>1, <2>2, <2>3 DEF FramesLie, Over
<1>13. FramesLeft'
  <2> SUFFICES ASSUME NEW i \in 1..n + 1, At(i)' < Passed, Passed < End(i)'
               PROVE  Broken(i)'
    BY <1>6, <1>8 DEF FramesLeft
  <2>1. i \in 1..n
    <3>1. i # n + 1
      BY <1>1, <1>8, <1>11
    <3> QED
      BY <1>1, <3>1
  <2> QED
    BY <1>1, <1>9, <2>1 DEF FramesLeft
<1>14. Come' = Come
  <2>1. Come = {i \in 1..n : Bytes(i) = Wire!Encode(Pay(i)) /\ End(i) <= Passed}
    BY <1>1, WholeIs DEF Come
  <2>2. Come' = {i \in 1..n + 1 : Bytes(i)' = Wire!Encode(Pay(i)') /\ End(i)' <= Passed}
    <3>1. Wire!Whole' = {i \in 1..n + 1 : Bytes(i)' = Wire!Encode(Pay(i)')}
      BY <1>6 DEF Wire!Whole, Bytes, Pay
    <3> QED
      BY <1>8, <3>1 DEF Come
  <2>3. ~(End(n + 1)' <= Passed)
    BY <1>1, <1>3, <1>8, <1>11
  <2>4. \A i \in 1..n + 1 : i \in 1..n \/ i = n + 1
    BY <1>1
  <2>5. \A i \in 1..n : i \in 1..n + 1
    BY <1>1
  <2> QED
    BY <1>9, <2>1, <2>2, <2>3, <2>4, <2>5
<1>15. \A i \in Come : Pay(i)' = Pay(i)
  BY <1>1, <1>9, WholeIs DEF Come
<1> QED
  BY <1>2, <1>7, <1>12, <1>13, <1>14, <1>15, TakenStays DEF FramesInv

\* A byte on the line becomes another one: the frame it belongs to is no longer whole.
LEMMA DamageKeeps ==
    ASSUME PayloadsPlain, FramesInv, NEW k \in DOMAIN line, NEW into \in PlainBytes, Wire!Damage(k, into)
    PROVE  FramesInv'
<1> DEFINE n == Len(sent)
           hit(i) == Over(i, fed + k)
<1>1. /\ FramesTyped /\ FramesLie /\ FramesLeft
      /\ line \in Seq(Letters) /\ buffer \in Seq(Letters) /\ sent \in Seq(SentFrames) /\ fed \in Nat
      /\ Len(line) \in Nat /\ Len(buffer) \in Nat /\ Len(buffer) <= fed /\ n \in Nat
      /\ k \in 1..Len(line)
  BY DEF FramesInv, FramesTyped
<1>2. /\ line' = [line EXCEPT ![k] = into] /\ buffer' = buffer /\ got' = got /\ fed' = fed
      /\ sent' = [i \in 1..n |-> IF Wire!Covers(sent[i], fed + k)
                                 THEN [sent[i] EXCEPT !.bytes[fed + k - sent[i].from] = into] ELSE sent[i]]
  BY <1>1 DEF Wire!Damage
<1>3. PlainBytes \subseteq Letters
  BY DEF Letters
<1> HIDE DEF PlainBytes, Letters
<1>4. /\ line' \in Seq(Letters) /\ Len(line') = Len(line) /\ line'[k] = into
      /\ \A j \in 1..Len(line) : j # k => line'[j] = line[j]
  BY <1>1, <1>2, <1>3
<1>5. ASSUME NEW i \in 1..n
      PROVE  /\ sent'[i] \in SentFrames
             /\ Pay(i)' = Pay(i) /\ At(i)' = At(i)
             /\ \A m \in 1..Len(Pay(i)) + 2 : fed + k # At(i) + m => Bytes(i)'[m] = Bytes(i)[m]
             /\ hit(i) => Bytes(i)'[fed + k - At(i)] = into
             /\ ~hit(i) => Bytes(i)' = Bytes(i)
  <2>1. PICK f \in SentFrames : f = sent[i]
    BY <1>1
  <2> DEFINE m == fed + k - f.from
             b == [f.bytes EXCEPT ![m] = into]
  <2>2. /\ f \in [payload : Payloads, from : Nat, bytes : Seq(Letters)] /\ Len(f.payload) <= MaxPayload
        /\ Len(f.bytes) = Len(f.payload) + 2
        /\ \A x \in 1..Len(f.bytes) : f.bytes[x] = Wire!Encode(f.payload)[x] \/ f.bytes[x] \in PlainBytes
    BY <2>1 DEF SentFrames
  <2>3. /\ Len(f.payload) \in Nat /\ f.from \in Nat /\ f.bytes \in Seq(Letters) /\ f.payload \in Payloads
        /\ m \in Int
    BY <1>1, <2>2 DEF PayloadsPlain
  <2>4. At(i) = f.from /\ Pay(i) = f.payload /\ Bytes(i) = f.bytes
    BY <2>1 DEF At, Pay, Bytes
  <2>5. hit(i) <=> m \in 1..Len(f.payload) + 2
    <3>1. f.from \in Int /\ fed \in Int /\ k \in Int /\ fed + k \in Int /\ Len(f.payload) \in Nat
      BY <1>1, <2>3
    <3>2. PICK a \in Int, z \in Int, l \in Nat : a = f.from /\ z = fed + k /\ l = Len(f.payload)
      BY <3>1
    <3>3. z - a \in 1..l + 2 <=> a < z /\ z <= a + l + 2
      BY Between
    <3>4. hit(i) <=> a < z /\ z <= a + l + 2
      BY <2>4, <3>2 DEF Over, End
    <3>5. m = z - a
      BY <3>1, <3>2
    <3> HIDE DEF m, hit
    <3> QED
      BY <3>2, <3>3, <3>4, <3>5
  <2>6. Wire!Covers(f, fed + k) <=> hit(i)
    <3>1. fed + k > f.from <=> f.from < fed + k
      BY <1>1, <2>3
    <3> QED
      BY <2>4, <3>1 DEF Wire!Covers, Over, End
  <2>7. sent'[i] = IF m \in 1..Len(f.payload) + 2 THEN [f EXCEPT !.bytes[m] = into] ELSE f
    <3>1. sent'[i] = IF Wire!Covers(f, fed + k) THEN [f EXCEPT !.bytes[m] = into] ELSE f
      BY <1>2, <2>1
    <3> QED
      BY <2>5, <2>6, <3>1
  <2> HIDE DEF m, hit
  <2>8. CASE ~hit(i)
    <3>1. sent'[i] = f
      BY <2>5, <2>7, <2>8
    <3>2. At(i)' = f.from /\ Pay(i)' = f.payload /\ Bytes(i)' = f.bytes
      BY <3>1 DEF At, Pay, Bytes
    <3> QED
      BY <2>4, <2>8, <3>1, <3>2
  <2>9. CASE hit(i)
    <3>1. m \in 1..Len(f.bytes)
      BY <2>2, <2>5, <2>9
    <3>2. sent'[i] = [payload |-> f.payload, from |-> f.from, bytes |-> b]
      BY <2>2, <2>5, <2>7, <2>9
    <3>3. /\ b \in Seq(Letters) /\ Len(b) = Len(f.bytes) /\ b[m] = into
          /\ \A x \in 1..Len(f.bytes) : x # m => b[x] = f.bytes[x]
      BY <1>3, <2>3, <3>1
    <3> HIDE DEF b
    <3>4. \A x \in 1..Len(b) : b[x] = Wire!Encode(f.payload)[x] \/ b[x] \in PlainBytes
      <4> SUFFICES ASSUME NEW x \in 1..Len(b)
                   PROVE  b[x] = Wire!Encode(f.payload)[x] \/ b[x] \in PlainBytes
        OBVIOUS
      <4>1. CASE x = m
        BY <3>3, <4>1
      <4>2. CASE x # m
        BY <2>2, <3>3, <4>2
      <4> QED
        BY <4>1, <4>2
    <3>5. \A x \in 1..Len(f.payload) + 2 : fed + k # f.from + x => x # m
      BY <1>1, <2>3 DEF m
    <3>6. At(i)' = f.from /\ Pay(i)' = f.payload /\ Bytes(i)' = b
      BY <3>2 DEF At, Pay, Bytes
    <3>7. sent'[i] \in SentFrames
      BY <2>2, <2>3, <3>2, <3>3, <3>4 DEF SentFrames
    <3>8. fed + k - At(i) = m
      BY <2>4 DEF m
    <3> QED
      BY <2>2, <2>4, <2>9, <3>3, <3>5, <3>6, <3>7, <3>8
  <2> QED
    BY <2>8, <2>9
<1>6. sent' \in Seq(SentFrames) /\ Len(sent') = n
  <2>1. sent' = [i \in 1..n |-> sent'[i]]
    BY <1>2
  <2>2. [i \in 1..n |-> sent'[i]] \in [1..n -> SentFrames]
    BY <1>5
  <2> HIDE DEF n
  <2> QED
    BY <1>1, <2>1, <2>2
<1>7. FramesTyped'
  BY <1>2, <1>4, <1>6 DEF FramesInv, FramesTyped
<1>8. Passed' = Passed /\ Passed \in Nat /\ Passed = fed - Len(buffer)
  BY <1>1, <1>2 DEF Passed
<1>9. \A i \in 1..n : /\ End(i) \in Nat /\ At(i) \in Nat /\ Len(Pay(i)) \in Nat
                      /\ End(i) = At(i) + Len(Pay(i)) + 2
                      /\ End(i)' = End(i) /\ At(i)' = At(i) /\ Pay(i)' = Pay(i)
  <2>1. \A i \in 1..n : End(i)' = End(i)
    BY <1>5 DEF End
  <2> QED
    BY <1>1, <1>5, <2>1, FrameIs
<1>10. FramesLie'
  <2>1. \A i, j \in 1..n : i < j => End(i)' <= At(j)'
    BY <1>1, <1>9 DEF FramesLie
  <2>2. \A i \in 1..n : End(i)' <= fed + Len(line)
    BY <1>1, <1>9 DEF FramesLie
  <2>3. ASSUME NEW x \in Passed + 1..fed + Len(line)
        PROVE  \E i \in 1..n : At(i) < x /\ x <= End(i)
    BY <1>1 DEF FramesLie, Over
  <2>4. ASSUME NEW x \in Passed + 1..fed + Len(line), NEW i \in 1..n, At(i) < x, x <= End(i)
        PROVE  Coming(x)' = Bytes(i)'[x - At(i)]
    <3> DEFINE m == x - At(i)
    <3>1. Coming(x) = Bytes(i)[m]
      BY <1>1, <2>4 DEF FramesLie, Over
    <3>2. m \in 1..Len(Pay(i)) + 2 /\ x = At(i) + m /\ x \in Int
      <4>1. x \in Int /\ At(i) \in Nat /\ Len(Pay(i)) \in Nat /\ x <= At(i) + Len(Pay(i)) + 2
        BY <1>1, <1>8, <1>9, <2>4
      <4>2. x - At(i) \in 1..Len(Pay(i)) + 2
        BY <2>4, <4>1, Between
      <4> QED
        BY <4>1, <4>2
    <3>3. CASE x = fed + k
      <4>1. Bytes(i)'[fed + k - At(i)] = into
        BY <1>5, <2>4, <3>3 DEF Over
      <4>2. ~(x <= fed) /\ x - fed = k
        BY <1>1, <3>3
      <4>3. Coming(x)' = into
        BY <1>2, <1>4, <4>2 DEF Coming
      <4>4. At(i) \in Nat
        BY <1>9
      <4>5. x - At(i) = fed + k - At(i)
        <5>1. x \in Int /\ fed \in Nat /\ k \in Nat
          BY <1>1, <3>2
        <5> QED
          BY <3>3, <4>4, <5>1
      <4> QED
        BY <4>1, <4>3, <4>5
    <3>4. CASE x # fed + k
      <4>1. Coming(x)' = Coming(x)
        <5>1. CASE x <= fed
          BY <1>2, <1>8, <5>1 DEF Coming
        <5>2. CASE x > fed
          <6>1. ~(x <= fed) /\ x - fed \in 1..Len(line)
            BY <1>1, <1>8, <5>2
          <6>2. x - fed # k
            BY <1>1, <3>2, <3>4
          <6> QED
            BY <1>2, <1>4, <6>1, <6>2 DEF Coming
        <5> QED
          BY <1>1, <3>2, <5>1, <5>2
      <4>2. fed + k # At(i) + m
        BY <3>2, <3>4
      <4>3. Bytes(i)'[m] = Bytes(i)[m]
        <5> HIDE DEF m, hit
        <5> QED
          BY <1>5, <3>2, <4>2
      <4> QED
        BY <3>1, <4>1, <4>3
    <3> QED
      BY <3>3, <3>4
  <2>5. \A i \in 1..n : At(i)' = At(i) /\ End(i)' = End(i)
    BY <1>9
  <2> HIDE DEF n
  <2>6. Len(sent) = n
    BY DEF n
  <2> QED
    BY <1>2, <1>4, <1>6, <1>8, <2>1, <2>2, <2>3, <2>4, <2>5, <2>6 DEF FramesLie, Over
<1>11. FramesLeft'
  <2> SUFFICES ASSUME NEW i \in 1..n, Broken(i)
               PROVE  Broken(i)'
    BY <1>1, <1>6, <1>8, <1>9 DEF FramesLeft
  <2>1. PICK m \in 1..Len(Pay(i)) + 2 : At(i) + m <= fed /\ Bytes(i)[m] # Wire!Encode(Pay(i))[m]
    BY DEF Broken
  <2>2. fed + k # At(i) + m
    BY <1>1, <1>9, <2>1
  <2>3. Bytes(i)'[m] = Bytes(i)[m]
    BY <1>5, <2>2
  <2> QED
    BY <1>2, <1>9, <2>1, <2>3 DEF Broken
<1>12. ASSUME NEW i \in 1..n, End(i) <= Passed
       PROVE  Bytes(i)' = Bytes(i)
  <2>1. ~hit(i)
    BY <1>1, <1>8, <1>9, <1>12 DEF Over
  <2> QED
    BY <1>5, <2>1
<1>13. Come' = Come
  <2>1. Come = {i \in 1..n : Bytes(i) = Wire!Encode(Pay(i)) /\ End(i) <= Passed}
    BY <1>1, WholeIs DEF Come
  <2>2. Come' = {i \in 1..n : Bytes(i)' = Wire!Encode(Pay(i)') /\ End(i)' <= Passed}
    <3>1. Wire!Whole' = {i \in 1..n : Bytes(i)' = Wire!Encode(Pay(i)')}
      BY <1>6 DEF Wire!Whole, Bytes, Pay
    <3> QED
      BY <1>8, <3>1 DEF Come
  <2> QED
    BY <1>9, <1>12, <2>1, <2>2
<1>14. \A i \in Come : Pay(i)' = Pay(i)
  BY <1>1, <1>9, WholeIs DEF Come
<1> QED
  BY <1>2, <1>7, <1>10, <1>11, <1>13, <1>14, TakenStays DEF FramesInv

\* Bytes move from the line to the decoder, and are the ones they were.
LEMMA FeedKeeps ==
    ASSUME PayloadsPlain, FramesInv, NEW n \in Nat, Wire!Feed(n)
    PROVE  FramesInv'
<1> DEFINE chunk == SubSeq(line, 1, n)
<1>1. /\ FramesTyped /\ FramesLie /\ FramesLeft
      /\ line \in Seq(Letters) /\ buffer \in Seq(Letters) /\ fed \in Nat
      /\ Len(line) \in Nat /\ Len(buffer) \in Nat /\ Len(buffer) <= fed
  BY DEF FramesInv, FramesTyped
<1>2. /\ n \in 1..Len(line) /\ buffer' = buffer \o chunk /\ line' = SubSeq(line, n + 1, Len(line))
      /\ fed' = fed + n /\ sent' = sent /\ got' = got
  BY DEF Wire!Feed
<1>3. chunk \in Seq(Letters) /\ Len(chunk) = n /\ \A k \in 1..n : chunk[k] = line[k]
  <2>1. line \in Seq(Letters) /\ n \in 0..Len(line) /\ chunk = SubSeq(line, 1, n)
    BY <1>1, <1>2
  <2> HIDE DEF chunk
  <2> QED
    BY <2>1, Prefix
<1>4. line' \in Seq(Letters) /\ Len(line') = Len(line) - n /\ \A k \in 1..Len(line) - n : line'[k] = line[n + k]
  <2>1. line \in Seq(Letters) /\ n \in 0..Len(line) /\ line' = SubSeq(line, n + 1, Len(line))
    BY <1>1, <1>2
  <2> QED
    BY <2>1, Suffix
<1> HIDE DEF chunk
<1>5. /\ buffer' \in Seq(Letters) /\ Len(buffer') = Len(buffer) + n
      /\ \A k \in 1..Len(buffer) : buffer'[k] = buffer[k]
      /\ \A k \in 1..n : buffer'[Len(buffer) + k] = line[k]
  <2>1. /\ buffer' \in Seq(Letters) /\ Len(buffer') = Len(buffer) + Len(chunk)
        /\ \A k \in 1..Len(buffer) : buffer'[k] = buffer[k]
        /\ \A k \in 1..Len(chunk) : buffer'[Len(buffer) + k] = chunk[k]
    <3>1. buffer \in Seq(Letters) /\ chunk \in Seq(Letters) /\ buffer' = buffer \o chunk
      BY <1>1, <1>2, <1>3
    <3>2. /\ buffer \o chunk \in Seq(Letters) /\ Len(buffer \o chunk) = Len(buffer) + Len(chunk)
          /\ \A k \in 1..Len(buffer) : (buffer \o chunk)[k] = buffer[k]
          /\ \A k \in 1..Len(chunk) : (buffer \o chunk)[Len(buffer) + k] = chunk[k]
      BY <3>1, Joined
    <3> QED
      BY <3>1, <3>2
  <2> QED
    BY <1>3, <2>1
<1>6. FramesTyped'
  BY <1>1, <1>2, <1>4, <1>5 DEF FramesTyped
<1>7. /\ Passed' = Passed /\ Passed \in Nat /\ Passed = fed - Len(buffer)
      /\ fed' + Len(line') = fed + Len(line) /\ n \in Nat /\ n <= Len(line)
  <2>1. Len(buffer') = Len(buffer) + n /\ Len(line') = Len(line) - n /\ fed' = fed + n
    BY <1>2, <1>4, <1>5
  <2>2. n \in Nat /\ n <= Len(line)
    BY <1>2
  <2>3. Passed = fed - Len(buffer) /\ Passed' = fed' - Len(buffer')
    BY DEF Passed
  <2> QED
    BY <1>1, <2>1, <2>2, <2>3
<1>8. ASSUME NEW x \in Passed + 1..fed + Len(line)
      PROVE  Coming(x)' = Coming(x)
  <2>1. CASE x <= fed
    <3>1. x - Passed \in 1..Len(buffer) /\ x <= fed + n
      BY <1>1, <1>7, <2>1
    <3>2. buffer'[x - Passed] = buffer[x - Passed]
      BY <1>5, <3>1
    <3> QED
      BY <1>2, <1>7, <2>1, <3>1, <3>2 DEF Coming
  <2>2. CASE x > fed /\ x <= fed + n
    <3>1. x - fed \in 1..n /\ Len(buffer) + (x - fed) = x - Passed /\ ~(x <= fed)
      BY <1>1, <1>7, <2>2
    <3>2. buffer'[Len(buffer) + (x - fed)] = line[x - fed]
      BY <1>5, <3>1
    <3> QED
      BY <1>2, <1>7, <2>2, <3>1, <3>2 DEF Coming
  <2>3. CASE x > fed + n
    <3>1. /\ x - (fed + n) \in 1..Len(line) - n /\ n + (x - (fed + n)) = x - fed
          /\ ~(x <= fed) /\ ~(x <= fed + n)
      BY <1>1, <1>7, <2>3
    <3>2. line'[x - (fed + n)] = line[n + (x - (fed + n))]
      BY <1>4, <3>1
    <3> QED
      BY <1>2, <3>1, <3>2 DEF Coming
  <2> QED
    BY <1>1, <1>7, <2>1, <2>2, <2>3
<1>9. FramesLie'
  <2>1. \A i \in 1..Len(sent) : At(i)' = At(i) /\ End(i)' = End(i) /\ Bytes(i)' = Bytes(i)
    BY <1>2 DEF At, End, Pay, Bytes
  <2>2. sent' = sent
    BY <1>2
  <2> QED
    BY <1>1, <1>7, <1>8, <2>1, <2>2 DEF FramesLie, Over
<1>10. \A i \in 1..Len(sent) : /\ At(i)' = At(i) /\ End(i)' = End(i) /\ Pay(i)' = Pay(i) /\ Bytes(i)' = Bytes(i)
                                /\ At(i) \in Nat /\ End(i) \in Nat
  BY <1>1, <1>2, FrameIs DEF At, End, Pay, Bytes
<1>11. FramesLeft'
  <2> SUFFICES ASSUME NEW i \in 1..Len(sent), Broken(i)
               PROVE  Broken(i)'
    BY <1>1, <1>2, <1>7, <1>10 DEF FramesLeft
  <2>1. PICK m \in 1..Len(Pay(i)) + 2 : At(i) + m <= fed /\ Bytes(i)[m] # Wire!Encode(Pay(i))[m]
    BY DEF Broken
  <2>2. At(i) + m <= fed'
    <3>1. At(i) + m \in Int /\ At(i) + m <= fed
      BY <1>10, <2>1
    <3>2. fed' = fed + n
      BY <1>2
    <3> QED
      BY <1>1, <1>7, <3>1, <3>2
  <2> QED
    BY <1>10, <2>1, <2>2 DEF Broken
<1>12. Come' = Come
  BY <1>2, <1>7 DEF Come, Wire!Whole, End, At, Pay
<1>13. \A i \in Come : Pay(i)' = Pay(i)
  BY <1>2 DEF Pay
<1> QED
  BY <1>2, <1>6, <1>9, <1>11, <1>12, <1>13, TakenStays DEF FramesInv

\* What the decoder has before it: the next frame's bytes, as they came.
LEMMA ComingIs ==
    ASSUME PayloadsPlain, FramesInv, NEW i \in 1..Len(sent), NEW m \in 1..Len(Pay(i)) + 2,
           Passed < At(i) + m, At(i) + m <= fed
    PROVE  At(i) + m - Passed \in 1..Len(buffer) /\ buffer[At(i) + m - Passed] = Bytes(i)[m]
<1> DEFINE x == At(i) + m
<1>1. /\ FramesTyped /\ FramesLie /\ Len(buffer) \in Nat /\ Len(line) \in Nat /\ fed \in Nat
      /\ Passed \in Nat /\ Passed = fed - Len(buffer)
  BY DEF FramesInv, FramesTyped, Passed
<1>2. At(i) \in Nat /\ End(i) = At(i) + Len(Pay(i)) + 2 /\ Len(Pay(i)) \in Nat
  BY <1>1, FrameIs
<1>3. x \in Passed + 1..fed /\ x - At(i) = m /\ At(i) < x /\ x <= End(i)
  BY <1>1, <1>2
<1> HIDE DEF x
<1>4. x \in Passed + 1..fed + Len(line) /\ x - Passed \in 1..Len(buffer) /\ x <= fed
  BY <1>1, <1>3
<1>5. Coming(x) = Bytes(i)[x - At(i)]
  BY <1>1, <1>3, <1>4 DEF FramesLie, Over
<1>6. Coming(x) = buffer[x - Passed]
  BY <1>4 DEF Coming
<1>7. x - Passed \in 1..Len(buffer) /\ buffer[x - Passed] = Bytes(i)[m]
  BY <1>3, <1>4, <1>5, <1>6
<1> QED
  BY <1>1, <1>2, <1>7 DEF x

\* A byte is skipped: at the start of a frame that is broken, or inside it.
LEMMA SkipKeeps ==
    ASSUME PayloadsPlain, FramesInv, ~Wire!Waits(buffer),
           ~(Wire!IsHeader(buffer[1]) /\ Wire!Valid(buffer)),
           buffer' = Tail(buffer), UNCHANGED <<line, sent, fed, got>>
    PROVE  FramesInv'
<1>1. /\ FramesTyped /\ FramesLie /\ FramesLeft
      /\ line \in Seq(Letters) /\ buffer \in Seq(Letters) /\ fed \in Nat
      /\ Len(line) \in Nat /\ Len(buffer) \in Nat /\ Len(buffer) <= fed /\ Passed \in Nat
  BY DEF FramesInv, FramesTyped, Passed
<1>2. Len(buffer) >= 2 /\ (Wire!IsHeader(buffer[1]) => Len(buffer) >= Wire!Total(buffer))
  <2>1. Len(buffer) >= 2
    BY <1>1 DEF Wire!Waits
  <2>2. Wire!IsHeader(buffer[1]) => ~(Len(buffer) < Wire!Total(buffer))
    BY <1>1, <2>1 DEF Wire!Waits
  <2>3. Wire!IsHeader(buffer[1]) => Wire!Total(buffer) \in Int
    <3>1. buffer[1] \in Letters
      BY <1>1, <2>1
    <3>2. buffer[1][1] = "magic" => buffer[1][2] \in Nat
      BY <3>1 DEF Letters, PlainBytes, Wire!Magic, Wire!Byte, Wire!Check
    <3> QED
      BY <3>2 DEF Wire!IsHeader, Wire!Total
  <2> QED
    BY <1>1, <2>1, <2>2, <2>3
<1>3. /\ buffer' \in Seq(Letters) /\ Len(buffer') = Len(buffer) - 1
      /\ \A k \in 1..Len(buffer) - 1 : buffer'[k] = buffer[k + 1]
  BY <1>1, <1>2
<1>4. FramesTyped'
  BY <1>1, <1>3 DEF FramesTyped
<1>5. Passed' = Passed + 1
  BY <1>1, <1>3 DEF Passed
<1>6. ASSUME NEW x \in Passed + 2..fed + Len(line)
      PROVE  Coming(x)' = Coming(x)
  <2>1. CASE x <= fed
    <3>1. x - (Passed + 1) \in 1..Len(buffer) - 1 /\ x - (Passed + 1) + 1 = x - Passed
      BY <1>1, <2>1 DEF Passed
    <3> QED
      BY <1>3, <1>5, <2>1, <3>1 DEF Coming
  <2>2. CASE ~(x <= fed)
    BY <2>2 DEF Coming
  <2> QED
    BY <2>1, <2>2
<1>7. FramesLie'
  <2>1. Passed' + 1 = Passed + 2
    BY <1>1, <1>5
  <2>2. \A x \in Passed + 2..fed + Len(line) : x \in Passed + 1..fed + Len(line)
    BY <1>1
  <2>3. \A i \in 1..Len(sent) : At(i)' = At(i) /\ End(i)' = End(i) /\ Bytes(i)' = Bytes(i)
    BY DEF At, End, Pay, Bytes
  <2>4. sent' = sent /\ fed' = fed /\ line' = line
    OBVIOUS
  <2> QED
    BY <1>1, <1>6, <2>1, <2>2, <2>3, <2>4 DEF FramesLie, Over
<1>8. ASSUME NEW i \in 1..Len(sent), At(i) <= Passed, Passed < End(i)
      PROVE  Broken(i)
  <2> DEFINE p == Pay(i)
  <2>1. At(i) \in Nat /\ Len(p) \in Nat /\ Len(p) <= MaxPayload /\ p \in Payloads
    BY <1>1, FrameIs
  <2>2. CASE At(i) < Passed
    BY <1>1, <1>8, <2>2 DEF FramesLeft
  <2>3. CASE At(i) = Passed
    <3> SUFFICES ASSUME ~Broken(i)
                 PROVE  FALSE
      OBVIOUS
    <3>1. \A m \in 1..Len(p) + 2 : Passed + m <= fed =>
            /\ m \in 1..Len(buffer) /\ buffer[m] = Bytes(i)[m]
            /\ Bytes(i)[m] = Wire!Encode(p)[m]
      <4> SUFFICES ASSUME NEW m \in 1..Len(p) + 2, Passed + m <= fed
                   PROVE  /\ m \in 1..Len(buffer) /\ buffer[m] = Bytes(i)[m]
                          /\ Bytes(i)[m] = Wire!Encode(p)[m]
        OBVIOUS
      <4>1. Passed < At(i) + m /\ At(i) + m <= fed
            /\ At(i) + m - Passed = m
        BY <1>1, <2>1, <2>3
      <4>2. m \in 1..Len(buffer) /\ buffer[m] = Bytes(i)[m]
        BY <4>1, ComingIs
      <4> QED
        BY <4>1, <4>2 DEF Broken
    <3>2. buffer[1] = Wire!Magic(Len(p))
      <4>1. 1 \in 1..Len(p) + 2 /\ Passed + 1 <= fed
        BY <1>1, <1>2, <2>1 DEF Passed
      <4> QED
        BY <2>1, <3>1, <4>1, EncodedIs
    <3>4. Wire!IsHeader(buffer[1]) /\ Wire!Total(buffer) = Len(p) + 2
      BY <2>1, <3>2 DEF Wire!IsHeader, Wire!Total, Wire!Magic
    <3>5. Len(buffer) >= Len(p) + 2
      BY <1>2, <3>4
    <3>6. \A m \in 1..Len(p) + 2 : buffer[m] = Wire!Encode(p)[m]
      <4> SUFFICES ASSUME NEW m \in 1..Len(p) + 2
                   PROVE  Passed + m <= fed
        BY <3>1
      <4> QED
        BY <1>1, <2>1, <3>5 DEF Passed
    <3>7. /\ SubSeq(buffer, 1, Len(p) + 1) \in Seq(Letters) /\ Len(SubSeq(buffer, 1, Len(p) + 1)) = Len(p) + 1
          /\ \A m \in 1..Len(p) + 1 : SubSeq(buffer, 1, Len(p) + 1)[m] = buffer[m]
      BY <1>1, <2>1, <3>5, Parts
    <3>8. /\ Body(p) \in Seq(Letters) /\ Len(Body(p)) = Len(p) + 1
          /\ \A m \in 1..Len(p) + 1 : Wire!Encode(p)[m] = Body(p)[m]
          /\ Wire!Encode(p)[Len(p) + 2] = Wire!Check(Body(p))
      BY <2>1, EncodedIs
    <3>9. SubSeq(buffer, 1, Len(p) + 1) = Body(p)
      <4> DEFINE t == SubSeq(buffer, 1, Len(p) + 1)
      <4>1. t \in Seq(Letters) /\ Len(t) = Len(p) + 1 /\ \A m \in 1..Len(p) + 1 : t[m] = Body(p)[m]
        BY <2>1, <3>6, <3>7, <3>8
      <4> HIDE DEF t
      <4>2. t = Body(p)
        BY <2>1, <3>8, <4>1, SeqEqual
      <4> QED
        BY <4>2 DEF t
    <3>10. Wire!Valid(buffer)
      <4>1. Len(p) + 2 \in 1..Len(p) + 2 /\ Len(p) + 2 - 1 = Len(p) + 1
        BY <2>1
      <4>2. buffer[Len(p) + 2] = Wire!Check(Body(p))
        BY <3>6, <3>8, <4>1
      <4>3. Wire!Total(buffer) = Len(p) + 2 /\ Wire!Total(buffer) - 1 = Len(p) + 1
        BY <3>4, <4>1
      <4> QED
        BY <3>9, <4>2, <4>3 DEF Wire!Valid
    <3> QED
      BY <3>4, <3>10
  <2> QED
    BY <1>1, <1>8, <2>1, <2>2, <2>3
<1>9. FramesLeft'
  <2> SUFFICES ASSUME NEW i \in 1..Len(sent), At(i) < Passed + 1, Passed + 1 < End(i)
               PROVE  Broken(i)
    BY <1>5 DEF FramesLeft, Broken, At, End, Pay, Bytes
  <2>1. At(i) \in Nat /\ End(i) \in Nat
    BY <1>1, FrameIs
  <2> QED
    BY <1>1, <1>8, <2>1
<1>10. Come' = Come
  <2>1. ASSUME NEW i \in Wire!Whole
        PROVE  End(i) <= Passed + 1 <=> End(i) <= Passed
    <3>1. i \in 1..Len(sent) /\ ~Broken(i)
      BY <1>1, WholeIs DEF Broken
    <3>2. At(i) \in Nat /\ End(i) \in Nat /\ At(i) + 1 < End(i)
      BY <1>1, <3>1, FrameIs
    <3>3. ~(At(i) <= Passed /\ Passed < End(i))
      BY <1>8, <3>1
    <3> QED
      BY <1>1, <3>2, <3>3
  <2>2. Wire!Whole' = Wire!Whole
    BY DEF Wire!Whole
  <2> QED
    BY <1>5, <2>1, <2>2 DEF Come, End, At, Pay
<1>11. \A i \in Come : Pay(i)' = Pay(i)
  BY DEF Pay
<1> QED
  BY <1>4, <1>7, <1>9, <1>10, <1>11, TakenStays DEF FramesInv

\* What passes for a frame is the next one, whole: its check is over its own bytes.
LEMMA ValidIsWhole ==
    ASSUME PayloadsPlain, FramesInv, ~Wire!Waits(buffer),
           Wire!IsHeader(buffer[1]), Wire!Valid(buffer)
    PROVE  \E i \in Wire!Whole :
              /\ i \in 1..Len(sent) /\ At(i) = Passed
              /\ Wire!Total(buffer) = Len(Pay(i)) + 2
              /\ Len(buffer) >= Len(Pay(i)) + 2
              /\ SubSeq(buffer, 2, Len(Pay(i)) + 1) = Pay(i)
<1> DEFINE t == Wire!Total(buffer)
           a == SubSeq(buffer, 1, t - 1)
<1>1. /\ FramesTyped /\ FramesLie /\ buffer \in Seq(Letters) /\ fed \in Nat
      /\ Len(line) \in Nat /\ Len(buffer) \in Nat /\ Len(buffer) <= fed /\ Passed \in Nat
  BY DEF FramesInv, FramesTyped, Passed
<1>2. Len(buffer) >= 2 /\ ~(Len(buffer) < t)
  BY <1>1 DEF Wire!Waits
<1>3. buffer[1][2] \in Nat /\ t = buffer[1][2] + 2
  <2>1. buffer[1] \in Letters /\ buffer[1][1] = "magic"
    BY <1>1, <1>2 DEF Wire!IsHeader
  <2> QED
    BY <2>1 DEF Letters, PlainBytes, Wire!Magic, Wire!Byte, Wire!Check, Wire!Total
<1> HIDE DEF t
<1>4. /\ t \in 1..Len(buffer) /\ t >= 2 /\ Passed = fed - Len(buffer)
      /\ Passed + t \in Passed + 1..fed + Len(line) /\ Passed + t <= fed /\ Passed + t - Passed = t
  <2>1. t \in 1..Len(buffer) /\ t >= 2
    BY <1>1, <1>2, <1>3
  <2>2. Passed = fed - Len(buffer)
    BY DEF Passed
  <2> QED
    BY <1>1, <2>1, <2>2
<1>5. buffer[t] = Wire!Check(a)
  BY DEF Wire!Valid, t
<1>6. a \in Seq(Letters) /\ Len(a) = t - 1 /\ \A k \in 1..t - 1 : a[k] = buffer[k]
  <2>1. buffer \in Seq(Letters) /\ t - 1 \in 0..Len(buffer) /\ a = SubSeq(buffer, 1, t - 1)
    BY <1>1, <1>4
  <2> HIDE DEF a
  <2> QED
    BY <2>1, Prefix
<1> HIDE DEF a
<1>7. PICK i \in 1..Len(sent) : Over(i, Passed + t)
  BY <1>1, <1>4 DEF FramesLie
<1> DEFINE p == Pay(i)
           b == Bytes(i)
           m == Passed + t - At(i)
<1>8. /\ p \in Payloads /\ Len(p) \in Nat /\ At(i) \in Nat /\ End(i) = At(i) + Len(p) + 2
      /\ b \in Seq(Letters) /\ Len(b) = Len(p) + 2
      /\ \A k \in 1..Len(p) + 2 : b[k] = Wire!Encode(p)[k] \/ b[k] \in PlainBytes
  BY <1>1, FrameIs
<1>9. m \in 1..Len(p) + 2 /\ b[m] = Wire!Check(a)
  <2> DEFINE x == Passed + t
  <2>1. x \in Passed + 1..fed + Len(line) /\ Over(i, x) /\ x <= fed /\ x - Passed = t /\ x - At(i) = m
    BY <1>1, <1>4, <1>7, <1>8
  <2> HIDE DEF x, m
  <2>2. Coming(x) = b[m]
    <3>1. Coming(x) = Bytes(i)[x - At(i)]
      BY <1>1, <2>1 DEF FramesLie
    <3> QED
      BY <2>1, <3>1
  <2>4. Coming(x) = buffer[t]
    BY <2>1 DEF Coming
  <2> USE DEF m
  <2>3. m \in 1..Len(p) + 2
    <3>1. Passed \in Nat /\ t \in Nat /\ At(i) \in Nat /\ Len(p) \in Nat
      BY <1>1, <1>4, <1>8
    <3>2. At(i) < Passed + t /\ Passed + t <= At(i) + Len(p) + 2
      BY <1>7, <1>8 DEF Over
    <3> QED
      BY <3>1, <3>2
  <2> HIDE DEF m
  <2> QED
    BY <1>5, <2>2, <2>3, <2>4
<1>10. /\ p \in Seq(PlainBytes) /\ Body(p) \in Seq(Letters) /\ Len(Body(p)) = Len(p) + 1
       /\ Wire!Encode(p) \in Seq(Letters) /\ Len(Wire!Encode(p)) = Len(p) + 2
       /\ \A k \in 1..Len(p) + 1 : Wire!Encode(p)[k] = Body(p)[k] /\ Body(p)[k] \in PlainBytes
       /\ \A k \in 1..Len(p) : Wire!Encode(p)[k + 1] = p[k]
       /\ Wire!Encode(p)[Len(p) + 2] = Wire!Check(Body(p))
  BY <1>8, EncodedIs
<1>11. Wire!Check(a) \notin PlainBytes
  BY DEF PlainBytes, Wire!Check, Wire!Byte, Wire!Magic
<1>12. m = Len(p) + 2 /\ a = Body(p)
  <2>1. b[m] = Wire!Encode(p)[m]
    BY <1>8, <1>9, <1>11
  <2>2. ~(m \in 1..Len(p) + 1)
    <3> HIDE DEF m
    <3> QED
      BY <1>9, <1>10, <1>11, <2>1
  <2>3. m = Len(p) + 2
    <3> HIDE DEF m
    <3> QED
      BY <1>8, <1>9, <2>2
  <2>4. Wire!Check(a) = Wire!Check(Body(p))
    BY <1>9, <1>10, <2>1, <2>3
  <2> QED
    BY <2>3, <2>4 DEF Wire!Check
<1>13. At(i) = Passed /\ t = Len(p) + 2
  <2>1. t - 1 = Len(p) + 1
    BY <1>6, <1>10, <1>12
  <2>2. Passed \in Nat /\ t \in Nat /\ At(i) \in Nat /\ Len(p) \in Nat
    BY <1>1, <1>4, <1>8
  <2>3. Passed + t - At(i) = Len(p) + 2
    BY <1>12
  <2> QED
    BY <2>1, <2>2, <2>3
<1>14. \A k \in 1..Len(p) + 1 : b[k] = Wire!Encode(p)[k] /\ buffer[k] = Wire!Encode(p)[k]
  <2> SUFFICES ASSUME NEW k \in 1..Len(p) + 1
               PROVE  b[k] = Wire!Encode(p)[k] /\ buffer[k] = Wire!Encode(p)[k]
    OBVIOUS
  <2>1. k \in 1..Len(p) + 2 /\ Passed < At(i) + k /\ At(i) + k <= fed /\ At(i) + k - Passed = k
    BY <1>1, <1>4, <1>8, <1>13 DEF Passed
  <2>2. buffer[k] = b[k]
    BY <2>1, ComingIs
  <2>3. k \in 1..t - 1 /\ a[k] = buffer[k]
    BY <1>6, <1>8, <1>13
  <2> QED
    BY <1>10, <1>12, <2>2, <2>3
<1>15. b = Wire!Encode(p)
  <2> DEFINE e == Wire!Encode(p)
  <2>1. b \in Seq(Letters) /\ e \in Seq(Letters) /\ Len(b) = Len(e)
    BY <1>8, <1>10
  <2>2. b[Len(p) + 2] = e[Len(p) + 2]
    BY <1>9, <1>10, <1>12
  <2>3. \A k \in 1..Len(b) : b[k] = e[k]
    <3> SUFFICES ASSUME NEW k \in 1..Len(b)
                 PROVE  b[k] = e[k]
      OBVIOUS
    <3>1. k \in 1..Len(p) + 1 \/ k = Len(p) + 2
      BY <1>8
    <3> QED
      BY <1>14, <2>2, <3>1
  <2> HIDE DEF b, e
  <2>4. b = e
    BY <2>1, <2>3, SeqEqual
  <2> QED
    BY <2>4 DEF e
<1>16. SubSeq(buffer, 2, Len(p) + 1) = p
  <2> DEFINE s == SubSeq(buffer, 2, Len(p) + 1)
  <2>2. s \in Seq(Letters) /\ Len(s) = Len(p) /\ \A k \in 1..Len(p) : s[k] = buffer[k + 1]
    BY <1>1, <1>4, <1>8, <1>13, Parts
  <2>3. \A k \in 1..Len(p) : s[k] = p[k]
    <3> SUFFICES ASSUME NEW k \in 1..Len(p)
                 PROVE  s[k] = p[k]
      OBVIOUS
    <3>1. k + 1 \in 1..Len(p) + 1
      BY <1>8
    <3> HIDE DEF s
    <3> QED
      BY <1>10, <1>14, <2>2, <3>1
  <2>4. p \in Seq(Letters)
    BY <1>10, PlainBytes \subseteq Letters DEF Letters
  <2> HIDE DEF s
  <2>5. s = p
    BY <2>2, <2>3, <2>4, SeqEqual
  <2> QED
    BY <2>5 DEF s
<1>17. i \in Wire!Whole
  BY <1>1, <1>15, WholeIs
<1> QED
  BY <1>1, <1>4, <1>13, <1>16, <1>17 DEF t

\* A frame is taken.
LEMMA TakeFrameKeeps ==
    ASSUME PayloadsPlain, FramesInv, ~Wire!Waits(buffer),
           Wire!IsHeader(buffer[1]), Wire!Valid(buffer),
           got' = Append(got, SubSeq(buffer, 2, Wire!Total(buffer) - 1)),
           buffer' = SubSeq(buffer, Wire!Total(buffer) + 1, Len(buffer)),
           UNCHANGED <<line, sent, fed>>
    PROVE  FramesInv'
<1>1. /\ FramesTyped /\ FramesLie /\ FramesLeft /\ FramesTaken /\ buffer \in Seq(Letters) /\ fed \in Nat
      /\ Len(line) \in Nat /\ Len(buffer) \in Nat /\ Len(buffer) <= fed /\ Passed \in Nat
      /\ fed' = fed /\ line' = line /\ sent' = sent
      /\ got \in Seq(Payloads)
  BY DEF FramesInv, FramesTyped, Passed
<1>2. PICK i \in Wire!Whole :
         /\ i \in 1..Len(sent) /\ At(i) = Passed
         /\ Wire!Total(buffer) = Len(Pay(i)) + 2
         /\ Len(buffer) >= Len(Pay(i)) + 2
         /\ SubSeq(buffer, 2, Len(Pay(i)) + 1) = Pay(i)
  BY ValidIsWhole
<1> DEFINE p == Pay(i)
           t == Len(p) + 2
<1>3. p \in Payloads /\ Len(p) \in Nat /\ End(i) = Passed + t
  BY <1>1, <1>2, FrameIs
<1> HIDE DEF p
<1>4. got' = Append(got, p) /\ buffer' = SubSeq(buffer, t + 1, Len(buffer))
  <2>1. Wire!Total(buffer) = Len(p) + 2 /\ SubSeq(buffer, 2, Len(p) + 1) = p
    BY <1>2 DEF p
  <2>2. Wire!Total(buffer) - 1 = Len(p) + 1
    BY <1>3, <2>1
  <2> QED
    BY <2>1, <2>2
<1>5. /\ buffer' \in Seq(Letters) /\ Len(buffer') = Len(buffer) - t
      /\ \A k \in 1..Len(buffer) - t : buffer'[k] = buffer[t + k]
  <2>1. Len(p) + 2 <= Len(buffer)
    BY <1>2 DEF p
  <2> HIDE DEF t
  <2>2. t \in Nat /\ t <= Len(buffer)
    BY <1>3, <2>1 DEF t
  <2>3. buffer \in Seq(Letters) /\ t \in 0..Len(buffer)
    BY <1>1, <2>2
  <2>4. ASSUME NEW c, c = SubSeq(buffer, t + 1, Len(buffer))
        PROVE  c \in Seq(Letters) /\ Len(c) = Len(buffer) - t /\ \A k \in 1..Len(buffer) - t : c[k] = buffer[t + k]
    BY <2>3, <2>4, Suffix
  <2>5. buffer' = SubSeq(buffer, t + 1, Len(buffer))
    BY <1>4
  <2> QED
    BY <2>4, <2>5
<1>6. /\ got' \in Seq(Payloads) /\ Len(got') = Len(got) + 1 /\ got'[Len(got) + 1] = p
      /\ \A k \in 1..Len(got) : got'[k] = got[k]
  <2>1. got \in Seq(Payloads) /\ p \in Payloads
    BY <1>1, <1>3
  <2>2. /\ Append(got, p) \in Seq(Payloads) /\ Len(Append(got, p)) = Len(got) + 1
        /\ Append(got, p)[Len(got) + 1] = p /\ \A k \in 1..Len(got) : Append(got, p)[k] = got[k]
    BY <2>1, AppendProperties
  <2>3. got' = Append(got, p)
    BY <1>4
  <2> QED
    BY <2>2, <2>3
<1>7. t \in Nat /\ t >= 2 /\ t <= Len(buffer) /\ Len(buffer') = Len(buffer) - t
  <2>1. Len(p) + 2 <= Len(buffer)
    BY <1>2 DEF p
  <2>2. Len(p) \in Nat
    BY <1>3
  <2>3. Len(buffer') = Len(buffer) - t
    BY <1>5
  <2> HIDE DEF t
  <2>4. t \in Nat /\ t >= 2 /\ t <= Len(buffer)
    BY <2>1, <2>2 DEF t
  <2> QED
    BY <2>3, <2>4
<1>18. FramesTyped'
  <2>1. buffer' \in Seq(Letters) /\ got' \in Seq(Payloads) /\ Len(buffer') <= fed
    BY <1>1, <1>5, <1>6, <1>7
  <2> QED
    BY <1>1, <2>1 DEF FramesTyped
<1>8. Passed' = Passed + t /\ t \in Nat /\ t >= 2 /\ Passed = fed - Len(buffer)
  <2>1. Passed = fed - Len(buffer) /\ Passed' = fed - Len(buffer')
    BY <1>1 DEF Passed
  <2> QED
    BY <1>1, <1>7, <2>1
<1> HIDE DEF t
<1>9. FramesLie'
  <2>1. ASSUME NEW x \in Passed + t + 1..fed + Len(line)
        PROVE  Coming(x)' = Coming(x)
    <3>1. CASE x <= fed
      <4>1. x - (Passed + t) \in 1..Len(buffer) - t /\ t + (x - (Passed + t)) = x - Passed
        BY <1>1, <1>7, <1>8, <3>1
      <4>2. buffer'[x - (Passed + t)] = buffer[t + (x - (Passed + t))]
        BY <1>5, <4>1
      <4> QED
        BY <1>1, <1>8, <3>1, <4>1, <4>2 DEF Coming
    <3>2. CASE ~(x <= fed)
      BY <1>1, <3>2 DEF Coming
    <3> QED
      BY <3>1, <3>2
  <2>2. \A x \in Passed + t + 1..fed + Len(line) : x \in Passed + 1..fed + Len(line)
    BY <1>1, <1>8
  <2>3. \A j \in 1..Len(sent) : At(j)' = At(j) /\ End(j)' = End(j) /\ Bytes(j)' = Bytes(j)
    BY <1>1 DEF At, End, Pay, Bytes
  <2>4. Passed' + 1 = Passed + t + 1
    BY <1>8
  <2>5. sent' = sent /\ fed' = fed /\ line' = line
    BY <1>1
  <2> QED
    BY <1>1, <2>1, <2>2, <2>3, <2>4, <2>5 DEF FramesLie, Over
<1>10. ASSUME NEW j \in 1..Len(sent), j # i
       PROVE  End(j) <= Passed \/ Passed + t <= At(j)
  <2>1. (j < i => End(j) <= At(i)) /\ (i < j => End(i) <= At(j))
    BY <1>1, <1>2 DEF FramesLie
  <2>2. i \in Int /\ j \in Int
    BY <1>2
  <2> QED
    BY <1>2, <1>3, <1>10, <2>1, <2>2
<1>11. ASSUME NEW j \in 1..Len(sent)
       PROVE  End(j) \in Nat /\ At(j) \in Nat /\ End(j) > At(j)
  <2>1. PayloadsPlain /\ FramesTyped
    BY <1>1
  <2>2. /\ Len(Pay(j)) \in Nat /\ At(j) \in Nat /\ End(j) \in Nat
        /\ End(j) = At(j) + Len(Pay(j)) + 2
    BY <2>1, FrameIs
  <2> QED
    BY <2>2
<1>12. FramesLeft'
  <2> SUFFICES ASSUME NEW j \in 1..Len(sent), At(j) < Passed + t, Passed + t < End(j)
               PROVE  FALSE
    BY <1>8 DEF FramesLeft, At, End, Pay
  <2>1. j # i
    BY <1>1, <1>3, <1>8
  <2>2. End(j) <= Passed \/ Passed + t <= At(j)
    BY <1>10, <2>1
  <2>3. End(j) \in Nat /\ At(j) \in Nat
    BY <1>11
  <2> QED
    BY <1>1, <1>8, <2>2, <2>3
<1>13. Come' = Come \cup {i} /\ i \notin Come
  <2>1. Wire!Whole' = Wire!Whole /\ \A j \in Wire!Whole : j \in 1..Len(sent)
    BY <1>1, WholeIs DEF Wire!Whole
  <2>2. \A j \in 1..Len(sent) : End(j) <= Passed + t <=> End(j) <= Passed \/ j = i
    BY <1>1, <1>3, <1>8, <1>10, <1>11
  <2>3. Come' = {j \in Wire!Whole : End(j) <= Passed + t}
    BY <1>8, <2>1 DEF Come, End, At, Pay
  <2>4. i \notin Come
    BY <1>1, <1>3, <1>8 DEF Come
  <2> QED
    BY <1>2, <2>1, <2>2, <2>3, <2>4 DEF Come
<1>14. \A j \in Come : j \in 1..Len(sent) /\ j < i
  <2> SUFFICES ASSUME NEW j \in Come
               PROVE  j \in 1..Len(sent) /\ j < i
    OBVIOUS
  <2>1. j \in 1..Len(sent) /\ End(j) <= Passed /\ j # i
    BY <1>1, <1>13, WholeIs DEF Come
  <2>2. ~(i < j)
    <3>1. i < j => End(i) <= At(j)
      BY <1>1, <1>2, <2>1 DEF FramesLie
    <3> QED
      BY <1>1, <1>3, <1>8, <1>11, <2>1, <3>1
  <2> QED
    BY <1>2, <2>1, <2>2
<1>15. IsFiniteSet(Come) /\ Cardinality(Come) \in Nat /\ Cardinality(Come') = Cardinality(Come) + 1
  <2>1. IsFiniteSet(Come)
    BY WholeIsFinite
  <2> QED
    BY <1>13, <2>1, FS_AddElement, FS_CardinalityType
<1>16. ASSUME NEW j \in Come'
       PROVE  got'[Cardinality({k \in Come' : k <= j})] = Pay(j)
  <2>1. CASE j = i
    <3>1. {k \in Come' : k <= j} = Come'
      <4>1. i \in Int /\ i <= i
        BY <1>2
      <4>2. \A k \in Come : k <= i
        BY <1>2, <1>14
      <4> QED
        BY <1>13, <2>1, <4>1, <4>2
    <3>2. Cardinality(Come') = Len(got) + 1
      BY <1>1, <1>15 DEF FramesTaken
    <3>3. got'[Cardinality(Come')] = p
      BY <1>1, <1>6, <3>2
    <3> QED
      BY <2>1, <3>1, <3>3 DEF p
  <2>2. CASE j # i
    <3> DEFINE R == {k \in Come : k <= j}
    <3>1. j \in Come
      BY <1>13, <2>2
    <3>2. {k \in Come' : k <= j} = R
      BY <1>2, <1>13, <1>14, <3>1
    <3>3. IsFiniteSet(R) /\ Cardinality(R) <= Cardinality(Come) /\ Cardinality(R) \in Nat
      BY <1>15, FS_Subset, FS_CardinalityType, R \subseteq Come
    <3>4. Cardinality(R) # 0
      <4>1. R # {}
        BY <1>14, <3>1
      <4> QED
        BY <3>3, <4>1, FS_EmptySet
    <3>5. Cardinality(R) \in 1..Len(got) /\ got[Cardinality(R)] = Pay(j)
      BY <1>1, <1>15, <3>1, <3>3, <3>4 DEF FramesTaken
    <3> HIDE DEF R
    <3> QED
      BY <1>6, <3>2, <3>5
  <2> QED
    BY <2>1, <2>2
<1>17. FramesTaken'
  <2>1. Len(got') = Cardinality(Come')
    BY <1>1, <1>6, <1>15 DEF FramesTaken
  <2> QED
    BY <1>16, <2>1 DEF FramesTaken, Pay
<1> QED
  BY <1>18, <1>9, <1>12, <1>17 DEF FramesInv

\* Every step of the framing keeps the invariant.
LEMMA FramesStep ==
    ASSUME PayloadsPlain, FramesInv, [Wire!FramesNext]_frameVars
    PROVE  FramesInv'
<1>1. CASE UNCHANGED frameVars
  <2>1. line' = line /\ sent' = sent /\ buffer' = buffer /\ got' = got /\ fed' = fed
    BY <1>1 DEF frameVars
  <2>2. FramesTyped' /\ Passed' = Passed
    BY <2>1 DEF FramesInv, FramesTyped, Passed
  <2>3. \A i : At(i)' = At(i) /\ End(i)' = End(i) /\ Pay(i)' = Pay(i) /\ Bytes(i)' = Bytes(i)
    BY <2>1 DEF At, End, Pay, Bytes
  <2>4. \A x : Coming(x)' = Coming(x)
    BY <2>1, <2>2 DEF Coming
  <2>5. FramesLie'
    BY <2>1, <2>2, <2>3, <2>4 DEF FramesInv, FramesLie, Over
  <2>6. FramesLeft'
    BY <2>1, <2>2, <2>3 DEF FramesInv, FramesLeft, Broken
  <2>7. Come' = Come
    BY <2>1, <2>2, <2>3 DEF Come, Wire!Whole
  <2> QED
    BY <2>1, <2>2, <2>3, <2>5, <2>6, <2>7, TakenStays DEF FramesInv
<1>2. ASSUME NEW p \in Payloads, Wire!SendFrame(p)
      PROVE  FramesInv'
  <2>1. \E n : n = Len(sent)
    OBVIOUS
  <2> QED
    BY <1>2, <2>1, SendFrameKeeps
<1>3. ASSUME NEW k \in DOMAIN line, NEW into \in {Wire!Noise, Wire!Magic(1), Wire!Magic(MaxPayload + 1)},
             Wire!Damage(k, into)
      PROVE  FramesInv'
  <2>1. into \in PlainBytes
    BY DEF PlainBytes, PayloadsPlain, Wire!Noise, Wire!Byte, Wire!Magic
  <2> QED
    BY <1>3, <2>1, DamageKeeps
<1>4. ASSUME Wire!Turn
      PROVE  FramesInv'
  <2>1. CASE Wire!IsHeader(buffer[1]) /\ Wire!Valid(buffer)
    BY <1>4, <2>1, TakeFrameKeeps DEF Wire!Turn
  <2>2. CASE ~(Wire!IsHeader(buffer[1]) /\ Wire!Valid(buffer))
    <3>1. buffer' = Tail(buffer) /\ UNCHANGED <<line, sent, fed, got>> /\ ~Wire!Waits(buffer)
      BY <1>4, <2>2 DEF Wire!Turn, Wire!Skipped
    <3> QED
      BY <2>2, <3>1, SkipKeeps
  <2> QED
    BY <2>1, <2>2
<1>5. ASSUME NEW n \in 1..MaxFed, Wire!Feed(n)
      PROVE  FramesInv'
  <2>1. n \in Nat
    BY <1>5 DEF Wire!Feed, FramesInv, FramesTyped
  <2> QED
    BY <1>5, <2>1, FeedKeeps
<1> QED
  BY <1>1, <1>2, <1>3, <1>4, <1>5 DEF Wire!FramesNext

-----------------------------------------------------------------------------
(* The ledger of honors                                                      *)

\* The seat is no command.
SeatApart == "seat" \notin Commands

\* A ledger whose entries are all final and refer to what is there.
LandsInGenesis(mark) ==
  mark.final /\ \A r \in mark.refs : r.target \in Members /\ r.role \in HonorsRoles
SoundLedger(ledger) == ledger = [k \in 1..Len(ledger) |-> ledger[k]] /\ Len(ledger) \in Nat
                 /\ \A k \in 1..Len(ledger) : LandsInGenesis(ledger[k])

\* The file is sound, and so is what a command has read of it; the copy of the seat need not be.
LedgerInv ==
  /\ DOMAIN copy = Commands \cup {"seat"} /\ SoundLedger(file)
  /\ \A c \in Commands : copy[c] # None => SoundLedger(copy[c])

\* An append that answers leaves a sound ledger sound.
LEMMA AppendedSound ==
    ASSUME NEW ledger, SoundLedger(ledger), NEW about, NEW role, NEW given,
           Ledger!Appended(ledger, about, role, given).ok
    PROVE  SoundLedger(Ledger!Appended(ledger, about, role, given).ledger)
<1> DEFINE n == Len(ledger)
           name == IF given = None THEN Ledger!Ordinal(ledger) ELSE given
           mark == Ledger!Entry(name, about, role, given = None)
           made == Append(ledger, mark)
           done == [made EXCEPT ![Len(made)] = Ledger!Sealed(@)]
<1>1. Ledger!Appended(ledger, about, role, given).ledger = done /\ about \in Members /\ role \in HonorsRoles
  BY DEF Ledger!Appended
<1>2. LandsInGenesis(Ledger!Sealed(mark))
  BY <1>1 DEF LandsInGenesis, Ledger!Sealed, Ledger!Entry
<1> HIDE DEF mark
<1>3. n \in Nat /\ ledger = [k \in 1..n |-> ledger[k]] /\ \A k \in 1..n : LandsInGenesis(ledger[k])
  BY DEF SoundLedger
<1>4. made = [k \in 1..(n + 1) |-> IF k = n + 1 THEN mark ELSE ledger[k]] /\ Len(made) = n + 1
  <2> DEFINE S == {ledger[k] : k \in 1..n} \cup {mark}
  <2>1. \A k \in 1..n : ledger[k] \in S
    OBVIOUS
  <2>2. mark \in S
    OBVIOUS
  <2> HIDE DEF S
  <2>3. ledger \in Seq(S)
    BY <1>3, <2>1, [k \in 1..n |-> ledger[k]] \in Seq(S)
  <2>4. made \in Seq(S) /\ Len(made) = n + 1 /\ \A k \in 1..(n + 1) : made[k] = IF k = n + 1 THEN mark ELSE ledger[k]
    BY <1>3, <2>2, <2>3
  <2>5. made = [k \in 1..(n + 1) |-> made[k]]
    <3> HIDE DEF made
    <3> QED
      BY <1>3, <2>4
  <2> QED
    BY <1>3, <2>4, <2>5
<1> HIDE DEF made
<1>5. done = [k \in 1..(n + 1) |-> IF k = n + 1 THEN Ledger!Sealed(mark) ELSE ledger[k]]
  BY <1>3, <1>4
<1> HIDE DEF done
<1>6. Len(done) = n + 1
  BY <1>3, <1>5
<1> QED
  BY <1>1, <1>2, <1>3, <1>5, <1>6 DEF SoundLedger

LEMMA LedgerSteps ==
    ASSUME SeatApart, LedgerInv, [Ledger!Next]_(Ledger!vars)
    PROVE  LedgerInv'
<1>1. CASE UNCHANGED Ledger!vars
  BY <1>1 DEF Ledger!vars, LedgerInv
<1>2. ASSUME NEW c \in DOMAIN copy, Ledger!Open(c)
      PROVE  LedgerInv'
  BY <1>2 DEF SeatApart, LedgerInv, Ledger!Open
<1>3. ASSUME NEW about, NEW role, NEW given, Ledger!SeatAppend(about, role, given)
      PROVE  LedgerInv'
  BY <1>3 DEF SeatApart, LedgerInv, Ledger!SeatAppend
<1>4. ASSUME NEW c \in Commands, NEW about, NEW role, NEW given, Ledger!CommandAppend(c, about, role, given)
      PROVE  LedgerInv'
  <2>1. SoundLedger(copy[c]) /\ copy' = [copy EXCEPT ![c] = None]
    BY <1>4 DEF LedgerInv, Ledger!CommandAppend
  <2>2. SoundLedger(file)'
    BY <1>4, <2>1, AppendedSound DEF LedgerInv, Ledger!CommandAppend
  <2> QED
    BY <2>1, <2>2 DEF LedgerInv
<1> QED
  BY <1>1, <1>2, <1>3, <1>4 DEF Ledger!Next, Ledger!Call

LEMMA LedgerStarts == Ledger!Init => LedgerInv
  BY DEF Ledger!Init, LedgerInv, SoundLedger

LEMMA LedgerFollows == LedgerInv => Ledger!FileVerifies
<1> SUFFICES ASSUME LedgerInv, NEW p \in Ledger!Problems(file)
             PROVE  p[2] = "NoCode"
  BY DEF Ledger!FileVerifies
<1>1. \A k \in DOMAIN file : LandsInGenesis(file[k])
  BY DEF LedgerInv, SoundLedger
<1> QED
  BY <1>1 DEF Ledger!Problems, LandsInGenesis

-----------------------------------------------------------------------------
(* The parts side by side: what the runs check of each                       *)

\* A step of the whole is a step of its part, and leaves the others alone.
LEMMA PartsStep ==
    ASSUME [Next]_partVars
    PROVE  /\ part' = part
           /\ [World!MachineNext]_(World!machineVars)
           /\ [part = "world" /\ World!Next]_(World!vars)
           /\ [part = "front" /\ Front!Next]_(Front!vars)
           /\ [part = "wire" /\ Wire!Next]_(Wire!vars) /\ [Wire!FramesNext]_frameVars
           /\ [Mounted!Next]_(Mounted!vars) /\ [Ledger!Next]_(Ledger!vars)
<1> USE DEF frameVars, machineVars, worldVars, frontVars, wireVars, mountVars, honorsVars,
       World!machineVars, World!vars, Front!vars, Wire!vars, Mounted!vars, Ledger!vars
<1>1. CASE UNCHANGED partVars
  BY <1>1 DEF partVars, liveVars, fileVars
<1>2. CASE UNCHANGED part /\ UNCHANGED <<liveVars, fileVars>>
  BY <1>2 DEF liveVars, fileVars
<1>3. CASE UNCHANGED part /\ LiveNext /\ UNCHANGED fileVars
  BY <1>3 DEF LiveNext, fileVars, ChannelStays, HostStays, ImageStays
<1>4. CASE UNCHANGED part /\ FileNext /\ UNCHANGED liveVars
  BY <1>4 DEF FileNext, liveVars
<1> QED
  BY <1>1, <1>2, <1>3, <1>4 DEF Next

\* One link has one image and its leaves run alone in it, in any behaviour of runners, sessions
\* and threads (live/seat.py, server/live/runner.py, live/machine.py).
THEOREM LinkIsOwned ==
    ASSUME HostsApart, ThreadsApart
    PROVE  Spec => []LinkOwned
<1> DEFINE Held == (part = "world" => LinkInv) /\ MachineInv
<1>1. Init => Held
  BY LinkStarts, MachineStarts DEF Init, LiveInit
<1>2. Held /\ [Next]_partVars => Held'
  BY PartsStep, LinkSteps, MachineSteps
<1>3. Held => LinkOwned
  BY LinkFollows, LeafFollows DEF LinkOwned
<1> QED
  BY <1>1, <1>2, <1>3, PTL DEF Spec

\* An image has what its users submitted and their mirrors have the image, whatever the users of
\* one front end type, end, run and compile beside each other (live/front.py, server/editor.py).
THEOREM FrontAlwaysFollows ==
    ASSUME FrontsApart
    PROVE  Spec => []FrontFollows
<1> DEFINE Held == part = "front" => FrontInv
<1>1. Init => Held
  BY FrontStarts DEF Init, LiveInit
<1>2. Held /\ [Next]_partVars => Held'
  BY PartsStep, FrontStep
<1>3. Held => FrontFollows
  BY FrontHolds DEF FrontFollows
<1> QED
  BY <1>1, <1>2, <1>3, PTL DEF Spec

\* An answer is to the request of its client, a transaction is not refused for another's, and
\* what is told "ok" was applied, while no client dies inside a call (client.py, link.py).
THEOREM WireAlwaysAnswers ==
    ASSUME WireAssumption
    PROVE  Spec => []WireAnswers
<1> DEFINE Held == part = "wire" => WireKept
<1>1. Init => Held
  BY WireStarts DEF Init, LiveInit
<1>2. Held /\ [Next]_partVars => Held'
  BY PartsStep, WireStep
<1>3. Held => WireAnswers
  BY WireFollows DEF WireAnswers
<1> QED
  BY <1>1, <1>2, <1>3, PTL DEF Spec

\* What the decoder yields are the frames that came whole, each once and in their order, whatever
\* the line damages and however its bytes are fed (live/frames.py).
THEOREM FramesAlwaysCome ==
    ASSUME PayloadsPlain
    PROVE  Spec => []FramesCome
<1>1. Init => FramesInv
  BY FramesStart DEF Init, LiveInit
<1>2. FramesInv /\ [Next]_partVars => FramesInv'
  BY PartsStep, FramesStep
<1>3. FramesInv => FramesCome
  BY FramesFollow DEF FramesCome
<1> QED
  BY <1>1, <1>2, <1>3, PTL DEF Spec

\* However the modules of two images and of the host are imported, mounted and taken down, what a
\* program reaches is the host's or the one mounted image's (mount/__init__.py).
THEOREM ModulesAreOneImages ==
    ASSUME Mounted!MountAssumption
    PROVE  Spec => []OneImageReached
<1>1. Init => Mounted!MountInv
  BY Mounted!MountStarts DEF Init, FileInit
<1>2. Mounted!MountInv /\ [Next]_partVars => Mounted!MountInv'
  BY PartsStep, Mounted!MountSteps
<1>3. Mounted!MountInv => OneImageReached
  BY Mounted!MountFollows DEF OneImageReached
<1> QED
  BY <1>1, <1>2, <1>3, PTL DEF Spec

\* Whatever commands and the seat do to the ledger between a read and a write back, and whatever
\* refuses an append half way, the file verifies (honors/__init__.py, honors/cli.py).
THEOREM LedgerFileVerifies ==
    ASSUME SeatApart
    PROVE  Spec => []FileVerifies
<1>1. Init => LedgerInv
  BY LedgerStarts DEF Init, FileInit
<1>2. LedgerInv /\ [Next]_partVars => LedgerInv'
  BY PartsStep, LedgerSteps
<1>3. LedgerInv => FileVerifies
  BY LedgerFollows DEF FileVerifies
<1> QED
  BY <1>1, <1>2, <1>3, PTL DEF Spec
=============================================================================
