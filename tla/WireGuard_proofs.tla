---------------------------- MODULE WireGuard_proofs ----------------------------
(***************************************************************************)
(* What a tunnel promises (WireGuard) for any number of devices and peers, *)
(* any size of the window, any prefixes, and a network that loses, repeats *)
(* and reorders: a packet is queued once, a nonce seals one message, an    *)
(* initiation begins one session of its responder, and two ends that hold  *)
(* sessions of one handshake hold them crosswise.                          *)
(***************************************************************************)
EXTENDS WireGuard, TLAPS

\* The window holds a counter, None is no counter and no time, and no device is its own peer.
Configured ==
    /\ WindowSize \in Nat \ {0} /\ MaxPacket \in Nat
    /\ None \notin Nat
    /\ \A d \in Devices : d \notin Peers(d)

-----------------------------------------------------------------------------
(* The replay window: a counter it has refused or recorded stays refused *)

IsWindow(w) == /\ w = [highest |-> w.highest, bits |-> w.bits]
               /\ w.highest \in Nat \cup {None}

\* What was recorded is not fresh.
LEMMA RecordedIsSpent ==
    ASSUME Configured, NEW w, IsWindow(w), NEW c \in Nat
    PROVE  IsWindow(Recorded(w, c)) /\ ~Fresh(Recorded(w, c), c)
<1>1. CASE w.highest = None
  BY <1>1 DEF Configured, IsWindow, Recorded, Fresh
<1>2. CASE w.highest # None /\ c > w.highest
  BY <1>2 DEF Configured, IsWindow, Recorded, Fresh
<1>3. CASE w.highest # None /\ ~(c > w.highest)
  BY <1>3 DEF Configured, IsWindow, Recorded, Fresh
<1> QED
  BY <1>1, <1>2, <1>3

\* What was not fresh is not fresh after another counter.
LEMMA SpentStays ==
    ASSUME Configured, NEW w, IsWindow(w), NEW c \in Nat, NEW e \in Nat, ~Fresh(w, c)
    PROVE  ~Fresh(Recorded(w, e), c)
<1>1. w.highest \in Nat /\ c <= w.highest
  BY DEF Configured, IsWindow, Fresh
<1>2. CASE e > w.highest
  <2>1. Recorded(w, e).highest = e
    BY <1>1, <1>2 DEF Configured, IsWindow, Recorded
  <2>2. CASE e - c < WindowSize
    <3>1. w.highest - c \in w.bits
      BY <1>1, <1>2, <2>2 DEF Configured, Fresh
    <3>2. e - c \in 0..WindowSize - 1 /\ (e - c) - (e - w.highest) = w.highest - c
      BY <1>1, <1>2, <2>2 DEF Configured
    <3>3. e - c \in Recorded(w, e).bits
      BY <1>1, <1>2, <3>1, <3>2 DEF Configured, Recorded
    <3> QED
      BY <1>1, <1>2, <2>1, <3>3 DEF Configured, Fresh
  <2> QED
    BY <1>1, <1>2, <2>1, <2>2 DEF Configured, Fresh
<1>3. CASE ~(e > w.highest)
  BY <1>1, <1>3 DEF Configured, IsWindow, Recorded, Fresh
<1> QED
  BY <1>2, <1>3

-----------------------------------------------------------------------------
(* The invariant *)

S(d, p) == peer[d][p].session
H(d, p) == peer[d][p].handshake

Ways == {"i2r", "r2i"}
KeyNames == (Nat \X Nat) \X Ways

IsSession(s) ==
    /\ s = [send |-> s.send, recv |-> s.recv, local |-> s.local, remote |-> s.remote,
            counter |-> s.counter, window |-> s.window]
    /\ s.send \in KeyNames /\ s.recv \in KeyNames
    /\ s.local \in Nat /\ s.remote \in Nat /\ s.counter \in Nat
    /\ IsWindow(s.window)

IsPeer(s) ==
    /\ s = [endpoint |-> s.endpoint, session |-> s.session, handshake |-> s.handshake,
            stamp |-> s.stamp, handshakes |-> s.handshakes]
    /\ s.session # None => IsSession(s.session)
    /\ s.handshake # None => s.handshake.index \in Nat
    /\ s.stamp \in Nat \cup {None}

\* The ends of the tunnels, and the tables of one device.
PeersTyped ==
    /\ DOMAIN peer = Devices
    /\ \A d \in Devices : DOMAIN peer[d] = Peers(d) /\ \A p \in Peers(d) : IsPeer(peer[d][p])
    /\ DOMAIN sessions = Devices
    /\ \A d \in Devices : \A i \in DOMAIN sessions[d] : sessions[d][i] \in Peers(d)

Typed ==
    /\ lifecycle \in [Devices -> {"open", "closed"}]
    /\ clock \in Nat /\ nextIndex \in Nat \ {0} /\ nextPacket \in Nat \ {0} /\ closes \in Nat
    /\ queued \in [1..MaxPacket -> Nat]

\* What can be in the network: an index and an id were drawn before they were sent.
NetTyped ==
    \A m \in net :
        /\ m.kind = "initiation" =>
               m.sender \in Nat /\ m.sender < nextIndex /\ m.stamp \in Nat
        /\ m.kind = "response" =>
               /\ m.pair = <<m.receiver, m.sender>>
               /\ m.receiver \in Nat /\ m.receiver < nextIndex
               /\ m.sender \in Nat /\ m.sender < nextIndex
        /\ m.kind = "transport" =>
               /\ m.key \in KeyNames /\ m.counter \in Nat
               /\ m.content.id \in 1..MaxPacket /\ m.content.id < nextPacket

\* An index starts one handshake, an id is of one message.
SentOnce ==
    /\ \A m, n \in net : m.kind = "initiation" /\ n.kind = "initiation" =>
           (m.sender = n.sender => m = n)
    /\ \A m, n \in net : m.kind = "transport" /\ n.kind = "transport" =>
           (m.content.id = n.content.id => m = n)

\* The index is of a handshake that one of the two started with the other.
Invited(index, from, to) ==
    \E m \in net : m.kind = "initiation" /\ m.sender = index /\ m.from = from /\ m.to = to

InFlightInvited ==
    \A d \in Devices : \A p \in Peers(d) :
        H(d, p) # None => H(d, p).index < nextIndex /\ Invited(H(d, p).index, d, p)

\* No handshake in flight has the index, and none will have it.
Past(i) ==
    /\ i < nextIndex
    /\ \A d \in Devices : \A p \in Peers(d) : H(d, p) # None => H(d, p).index # i

\* The index of the end that seals under a key, and of the end that opens.
SealEnd(key) == IF key[2] = "i2r" THEN key[1][1] ELSE key[1][2]
OpenEnd(key) == IF key[2] = "i2r" THEN key[1][2] ELSE key[1][1]

\* A session is of a handshake that took place: its keys are of that pair of indices, by the
\* role of the end.
Matched(d, p, s) ==
    /\ s.recv = <<s.send[1], Other(s.send[2])>>
    /\ s.send[2] = "i2r" => s.send[1] = <<s.local, s.remote>> /\ Invited(s.local, d, p)
    /\ s.send[2] = "r2i" => s.send[1] = <<s.remote, s.local>> /\ Invited(s.remote, p, d)

SessionsMatched ==
    \A d \in Devices : \A p \in Peers(d) :
        S(d, p) # None => Past(S(d, p).local) /\ Matched(d, p, S(d, p))

\* A local index is of one session, on whatever device.
LocalsApart ==
    \A d, e \in Devices : \A p \in Peers(d), q \in Peers(e) :
        S(d, p) # None /\ S(e, q) # None /\ S(d, p).local = S(e, q).local => d = e /\ p = q

\* A session that can still seal under a key is ahead of all that was sealed under it.
SealedBehind ==
    \A m \in net : m.kind = "transport" =>
        /\ Past(SealEnd(m.key))
        /\ \A d \in Devices : \A p \in Peers(d) :
               S(d, p) # None /\ S(d, p).send = m.key => m.counter < S(d, p).counter

\* A session that can still open a message that was queued will find its counter spent.
QueuedSpent ==
    /\ \A n \in 1..MaxPacket : queued[n] # 0 => n < nextPacket
    /\ \A m \in net : m.kind = "transport" /\ queued[m.content.id] # 0 =>
           /\ Past(OpenEnd(m.key))
           /\ \A d \in Devices : \A p \in Peers(d) :
                  S(d, p) # None /\ S(d, p).recv = m.key => ~Fresh(S(d, p).window, m.counter)

\* The device that answered the initiation keeps its timestamp for as long as it lives.
Kept(x) ==
    \E m \in net : /\ m.kind = "initiation" /\ m.sender = x[3]
                   /\ m.to = x[1] /\ m.from \in Peers(x[1])
                   /\ x[2] = closes => /\ lifecycle[x[1]] = "open"
                                       /\ peer[x[1]][m.from].stamp # None
                                       /\ m.stamp <= peer[x[1]][m.from].stamp

BegunKept ==
    \A x \in begun :
        /\ x \in Devices \X Nat \X Nat \X Nat /\ x[2] <= closes
        /\ IF x[4] = x[3] THEN \E p \in Peers(x[1]) : Invited(x[3], x[1], p) ELSE Kept(x)

TunnelInv ==
    /\ Typed /\ PeersTyped /\ NetTyped /\ SentOnce
    /\ InFlightInvited /\ SessionsMatched /\ LocalsApart
    /\ SealedBehind /\ NonceOnce /\ QueuedSpent /\ QueuedOnce
    /\ BegunKept /\ OneSessionPerInitiation

-----------------------------------------------------------------------------
(* What a step does to one end of a tunnel *)

LEMMA Updated ==
    ASSUME PeersTyped, NEW d \in Devices, NEW p \in Peers(d), NEW t, IsPeer(t),
           peer' = [peer EXCEPT ![d][p] = t]
    PROVE  /\ DOMAIN peer' = Devices
           /\ \A e \in Devices : DOMAIN peer'[e] = Peers(e)
           /\ peer'[d][p] = t
           /\ \A e \in Devices : \A q \in Peers(e) : e # d \/ q # p => peer'[e][q] = peer[e][q]
           /\ \A e \in Devices : \A q \in Peers(e) : IsPeer(peer'[e][q])
<1>1. DOMAIN peer' = Devices /\ \A e \in Devices : DOMAIN peer'[e] = Peers(e)
  BY DEF PeersTyped
<1>2. peer'[d][p] = t
  BY DEF PeersTyped
<1>3. \A e \in Devices : \A q \in Peers(e) : e # d \/ q # p => peer'[e][q] = peer[e][q]
  BY DEF PeersTyped
<1> QED
  BY <1>1, <1>2, <1>3 DEF PeersTyped

\* A session begins: it is of the pair, by the role of the end; the rest of the end stays.
LEMMA BeginIs ==
    ASSUME Typed, NEW s, IsPeer(s), NEW local \in Nat, NEW remote \in Nat, NEW pair \in Nat \X Nat
    PROVE  LET t == Begin(s, local, remote, pair)
               way == IF IsInitiator(s, local) THEN "i2r" ELSE "r2i" IN
           /\ IsPeer(t) /\ IsSession(t.session)
           /\ t.session = [send |-> <<pair, way>>, recv |-> <<pair, Other(way)>>,
                           local |-> local, remote |-> remote,
                           counter |-> 0, window |-> NewWindow]
           /\ t.handshake = s.handshake /\ t.stamp = s.stamp
<1> DEFINE way == IF IsInitiator(s, local) THEN "i2r" ELSE "r2i"
           new == [send |-> <<pair, way>>, recv |-> <<pair, Other(way)>>,
                   local |-> local, remote |-> remote, counter |-> 0, window |-> NewWindow]
           list == Append(ClosedBy(s.handshakes, clock), [from |-> clock, to |-> None])
           t == Begin(s, local, remote, pair)
<1>1. t = [s EXCEPT !.session = new, !.handshakes = list]
  BY DEF Begin
<1>2. IsSession(new)
  <2>1. way \in Ways /\ Other(way) \in Ways
    BY DEF Ways, Other
  <2>2. IsWindow(NewWindow)
    BY DEF IsWindow, NewWindow
  <2> HIDE DEF way
  <2> QED
    BY <2>1, <2>2 DEF IsSession, KeyNames
<1> HIDE DEF way, new, list, t
<1>3. t = [endpoint |-> s.endpoint, session |-> new, handshake |-> s.handshake,
           stamp |-> s.stamp, handshakes |-> list]
  BY <1>1 DEF IsPeer
<1>4. IsPeer(t)
  BY <1>2, <1>3 DEF IsPeer
<1>5. t.session = new /\ IsSession(new) /\ t.handshake = s.handshake /\ t.stamp = s.stamp
  BY <1>2, <1>3
<1> QED
  BY <1>4, <1>5 DEF t, new, way

\* An index that was past stays past, whatever handshakes are given up or started.
LEMMA PastStays ==
    ASSUME TunnelInv, nextIndex' \in Nat, nextIndex <= nextIndex',
           \A d \in Devices : \A p \in Peers(d) :
               H(d, p)' = None \/ H(d, p)' = H(d, p) \/ H(d, p)'.index = nextIndex,
           NEW i \in Nat, Past(i)
    PROVE  Past(i)'
  BY DEF TunnelInv, Typed, Past

\* The initiation that was sent stays sent.
LEMMA InvitedStays ==
    ASSUME net \subseteq net', NEW i, NEW d, NEW p, Invited(i, d, p)
    PROVE  Invited(i, d, p)'
  BY DEF Invited

\* Both ends of a key are indices.
LEMMA EndsTyped ==
    ASSUME NEW key \in KeyNames
    PROVE  SealEnd(key) \in Nat /\ OpenEnd(key) \in Nat
  BY DEF KeyNames, SealEnd, OpenEnd

\* A session seals from its own index and opens at it.
LEMMA EndIsLocal ==
    ASSUME NEW d, NEW p, NEW s, IsSession(s), Matched(d, p, s)
    PROVE  SealEnd(s.send) = s.local /\ OpenEnd(s.recv) = s.local
<1>1. PICK pair \in Nat \X Nat, way \in Ways : s.send = <<pair, way>>
  BY DEF IsSession, KeyNames
<1>2. CASE way = "i2r"
  BY <1>1, <1>2 DEF Matched, SealEnd, OpenEnd, Other
<1>3. CASE way = "r2i"
  BY <1>1, <1>3 DEF Matched, SealEnd, OpenEnd, Other
<1> QED
  BY <1>1, <1>2, <1>3 DEF Ways

\* Two sessions of one key are one session.
LEMMA KeysApart ==
    ASSUME TunnelInv, NEW d \in Devices, NEW e \in Devices, NEW p \in Peers(d), NEW q \in Peers(e),
           S(d, p) # None, S(e, q) # None,
           S(d, p).send = S(e, q).send \/ S(d, p).recv = S(e, q).recv
    PROVE  d = e /\ p = q
<1>1. IsSession(S(d, p)) /\ IsSession(S(e, q))
  BY DEF TunnelInv, PeersTyped, IsPeer, S
<1>2. Matched(d, p, S(d, p)) /\ Matched(e, q, S(e, q))
  BY DEF TunnelInv, SessionsMatched
<1>3. S(d, p).local = S(e, q).local
  BY <1>1, <1>2, EndIsLocal
<1> QED
  BY <1>3 DEF TunnelInv, LocalsApart

\* Two handshakes in flight have different indices.
LEMMA HandshakesApart ==
    ASSUME TunnelInv, NEW d \in Devices, NEW e \in Devices, NEW p \in Peers(d), NEW q \in Peers(e),
           H(d, p) # None, H(e, q) # None, H(d, p).index = H(e, q).index
    PROVE  d = e /\ p = q
<1>1. Invited(H(d, p).index, d, p) /\ Invited(H(d, p).index, e, q)
  BY DEF TunnelInv, InFlightInvited
<1> QED
  BY <1>1 DEF TunnelInv, SentOnce, Invited

-----------------------------------------------------------------------------
(* Parts of the invariant that a step leaves alone *)

\* The timestamp an end keeps only grows.
StampsGrow ==
    \A d \in Devices : \A p \in Peers(d) : peer[d][p].stamp # None =>
        peer'[d][p].stamp \in Nat /\ peer[d][p].stamp <= peer'[d][p].stamp

\* What is known of a session that was begun stays known.
LEMMA EntryStays ==
    ASSUME Configured, TunnelInv, UNCHANGED <<closes, lifecycle>>, net \subseteq net', StampsGrow,
           NEW x \in begun
    PROVE  /\ Kept(x) => Kept(x)'
           /\ \A p : Invited(x[3], x[1], p) => Invited(x[3], x[1], p)'
<1>1. ASSUME Kept(x)
      PROVE  Kept(x)'
  <2>1. PICK m \in net : /\ m.kind = "initiation" /\ m.sender = x[3]
                         /\ m.to = x[1] /\ m.from \in Peers(x[1])
                         /\ x[2] = closes => /\ lifecycle[x[1]] = "open"
                                             /\ peer[x[1]][m.from].stamp # None
                                             /\ m.stamp <= peer[x[1]][m.from].stamp
    BY <1>1 DEF Kept
  <2>2. x[1] \in Devices /\ m.stamp \in Nat
    BY <2>1 DEF TunnelInv, BegunKept, NetTyped
  <2>3. CASE x[2] = closes
    <3>1. peer[x[1]][m.from].stamp \in Nat
      BY <2>1, <2>2, <2>3 DEF TunnelInv, PeersTyped, IsPeer
    <3>2. peer'[x[1]][m.from].stamp \in Nat /\ m.stamp <= peer'[x[1]][m.from].stamp
      BY <2>1, <2>2, <2>3, <3>1 DEF StampsGrow
    <3> QED
      BY <2>1, <2>3, <3>2 DEF Kept, Configured
  <2>4. CASE x[2] # closes
    BY <2>1, <2>4 DEF Kept
  <2> QED
    BY <2>3, <2>4
<1>2. \A p : Invited(x[3], x[1], p) => Invited(x[3], x[1], p)'
  BY InvitedStays
<1> QED
  BY <1>1, <1>2

LEMMA BegunStays ==
    ASSUME Configured, TunnelInv, UNCHANGED <<begun, closes, lifecycle>>,
           net \subseteq net', StampsGrow
    PROVE  BegunKept' /\ OneSessionPerInitiation'
<1>1. BegunKept'
  BY EntryStays DEF TunnelInv, BegunKept
<1> QED
  BY <1>1 DEF TunnelInv, OneSessionPerInitiation

\* Sessions and handshakes that stay or are dropped, and nothing sent or queued.
LEMMA QuietKeeps ==
    ASSUME TunnelInv, UNCHANGED <<net, nextIndex, nextPacket, queued>>,
           \A d \in Devices : \A p \in Peers(d) :
               /\ S(d, p)' = S(d, p) \/ S(d, p)' = None
               /\ H(d, p)' = H(d, p) \/ H(d, p)' = None
    PROVE  /\ NetTyped' /\ SentOnce' /\ InFlightInvited' /\ SessionsMatched' /\ LocalsApart'
           /\ SealedBehind' /\ NonceOnce' /\ QueuedSpent' /\ QueuedOnce'
<1>1. \A i : Past(i) => Past(i)'
  BY DEF Past
<1>2. NetTyped' /\ SentOnce' /\ NonceOnce' /\ QueuedOnce'
  BY DEF TunnelInv, NetTyped, SentOnce, NonceOnce, QueuedOnce
<1>3. InFlightInvited'
  BY DEF TunnelInv, InFlightInvited, Invited
<1>4. SessionsMatched'
  BY <1>1 DEF TunnelInv, SessionsMatched, Matched, Invited
<1>5. LocalsApart'
  BY DEF TunnelInv, LocalsApart
<1>6. SealedBehind'
  BY <1>1 DEF TunnelInv, SealedBehind
<1>7. QueuedSpent'
  BY <1>1 DEF TunnelInv, QueuedSpent
<1> QED
  BY <1>2, <1>3, <1>4, <1>5, <1>6, <1>7

\* A session begins at an index no session had, for no key anything was sealed or queued under.
LEMMA BeginKeeps ==
    ASSUME TunnelInv, NEW d \in Devices, NEW p \in Peers(d),
           IsSession(S(d, p)'), Matched(d, p, S(d, p))',
           ~Past(S(d, p)'.local), Past(S(d, p).local)',
           \A e \in Devices : \A q \in Peers(e) :
               /\ e # d \/ q # p => S(e, q)' = S(e, q)
               /\ H(e, q)' = H(e, q) \/ H(e, q)' = None,
           nextIndex' \in Nat, nextIndex <= nextIndex', UNCHANGED <<nextPacket, queued>>,
           net \subseteq net', \A m \in net' \ net : m.kind = "response"
    PROVE  /\ InFlightInvited' /\ SessionsMatched' /\ LocalsApart'
           /\ SealedBehind' /\ NonceOnce' /\ QueuedSpent' /\ QueuedOnce'
<1> DEFINE t == S(d, p)'
<1>1. IsSession(t)
  OBVIOUS
<1>2. SealEnd(t.send) = t.local /\ OpenEnd(t.recv) = t.local
  <2>2. t.recv = <<t.send[1], Other(t.send[2])>> 
        /\ (t.send[2] = "i2r" => t.send[1] = <<t.local, t.remote>>)
        /\ (t.send[2] = "r2i" => t.send[1] = <<t.remote, t.local>>)
    BY DEF Matched
  <2>3. PICK pair \in Nat \X Nat, way \in Ways : t.send = <<pair, way>>
    BY <1>1 DEF IsSession, KeyNames
  <2> HIDE DEF t
  <2>4. CASE way = "i2r"
    BY <2>2, <2>3, <2>4 DEF SealEnd, OpenEnd, Other
  <2>5. CASE way = "r2i"
    BY <2>2, <2>3, <2>5 DEF SealEnd, OpenEnd, Other
  <2> QED
    BY <2>3, <2>4, <2>5 DEF Ways
<1>3. \A i \in Nat : Past(i) => Past(i)'
  BY PastStays
<1>4. \A i, a, b : Invited(i, a, b) => Invited(i, a, b)'
  BY InvitedStays
<1>5. \A e \in Devices : \A q \in Peers(e) : S(e, q) # None =>
          IsSession(S(e, q)) /\ Past(S(e, q).local) /\ S(e, q).local # t.local
  BY DEF TunnelInv, PeersTyped, IsPeer, S, SessionsMatched
<1>6. InFlightInvited'
  <2>1. ASSUME NEW e \in Devices, NEW q \in Peers(e), H(e, q)' # None
        PROVE  H(e, q)'.index < nextIndex' /\ Invited(H(e, q).index, e, q)'
    <3>1. H(e, q)' = H(e, q)
      BY <2>1
    <3>2. H(e, q).index \in Nat
      BY <2>1, <3>1 DEF TunnelInv, PeersTyped, IsPeer, H
    <3>3. H(e, q).index < nextIndex /\ Invited(H(e, q).index, e, q)
      BY <2>1, <3>1 DEF TunnelInv, InFlightInvited
    <3>4. Invited(H(e, q).index, e, q)'
      BY <1>4, <3>1, <3>3
    <3> QED
      BY <3>1, <3>2, <3>3, <3>4 DEF TunnelInv, Typed
  <2> QED
    BY <2>1 DEF InFlightInvited
<1>7. SessionsMatched'
  <2>1. ASSUME NEW e \in Devices, NEW q \in Peers(e), S(e, q)' # None, e # d \/ q # p
        PROVE  Past(S(e, q).local)' /\ Matched(e, q, S(e, q))'
    <3>1. S(e, q)' = S(e, q) /\ S(e, q) # None
      BY <2>1
    <3>2. Past(S(e, q).local)'
      BY <1>3, <1>5, <3>1 DEF IsSession
    <3>3. Matched(e, q, S(e, q))
      BY <3>1 DEF TunnelInv, SessionsMatched
    <3> QED
      BY <1>4, <3>1, <3>2, <3>3 DEF Matched
  <2> QED
    BY <2>1 DEF SessionsMatched
<1>8. LocalsApart'
  BY <1>5 DEF TunnelInv, LocalsApart
<1>9. SealedBehind'
  <2>1. ASSUME NEW m \in net, m.kind = "transport"
        PROVE  /\ Past(SealEnd(m.key))' /\ m.key # t.send
    <3>1. SealEnd(m.key) \in Nat /\ Past(SealEnd(m.key))
      BY <2>1, EndsTyped DEF TunnelInv, NetTyped, SealedBehind
    <3> QED
      BY <1>2, <1>3, <3>1
  <2> QED
    BY <2>1 DEF TunnelInv, SealedBehind
<1>10. QueuedSpent'
  <2>1. ASSUME NEW m \in net, m.kind = "transport", queued[m.content.id] # 0
        PROVE  /\ Past(OpenEnd(m.key))' /\ m.key # t.recv
    <3>1. OpenEnd(m.key) \in Nat /\ Past(OpenEnd(m.key))
      BY <2>1, EndsTyped DEF TunnelInv, NetTyped, QueuedSpent
    <3> QED
      BY <1>2, <1>3, <3>1
  <2> QED
    BY <2>1 DEF TunnelInv, QueuedSpent
<1>11. NonceOnce' /\ QueuedOnce'
  BY DEF TunnelInv, NonceOnce, QueuedOnce
<1> QED
  BY <1>6, <1>7, <1>8, <1>9, <1>10, <1>11

-----------------------------------------------------------------------------
(* Every step keeps it *)

\* Steps that leave the ends and the network alone.
LEMMA AsideKeeps ==
    ASSUME TunnelInv, clock' \in Nat, sessions' = sessions,
           UNCHANGED <<lifecycle, peer, net, nextIndex, nextPacket, closes, queued, begun>>
    PROVE  TunnelInv'
<1>1. Typed' /\ PeersTyped'
  BY DEF TunnelInv, Typed, PeersTyped
<1>2. \A d \in Devices : \A p \in Peers(d) : S(d, p)' = S(d, p) /\ H(d, p)' = H(d, p)
  BY DEF S, H
<1>3. /\ NetTyped' /\ SentOnce' /\ InFlightInvited' /\ SessionsMatched' /\ LocalsApart'
      /\ SealedBehind' /\ NonceOnce' /\ QueuedSpent' /\ QueuedOnce'
  BY <1>2, QuietKeeps
<1>4. BegunKept' /\ OneSessionPerInitiation'
  BY DEF TunnelInv, BegunKept, Kept, Invited, OneSessionPerInitiation
<1> QED
  BY <1>1, <1>3, <1>4 DEF TunnelInv

LEMMA OpenKeeps ==
    ASSUME Configured, TunnelInv, NEW d \in Devices, Open(d)
    PROVE  TunnelInv'
<1>1. \A e \in Devices : peer'[e] = IF e = d THEN NewDevice(d) ELSE peer[e]
  BY DEF Open, TunnelInv, PeersTyped
<1>2. \A p \in Peers(d) : peer'[d][p] = NewPeer(d, p)
  BY <1>1 DEF NewDevice
<1>3. Typed' /\ PeersTyped'
  <2>1. \A p \in Peers(d) : IsPeer(NewPeer(d, p))
    BY DEF NewPeer, IsPeer
  <2>2. DOMAIN peer' = Devices /\ DOMAIN NewDevice(d) = Peers(d)
    BY DEF Open, TunnelInv, PeersTyped, NewDevice
  <2>3. DOMAIN sessions' = Devices
        /\ \A e \in Devices : sessions'[e] = IF e = d THEN <<>> ELSE sessions[e]
    BY DEF Open, TunnelInv, PeersTyped
  <2>4. \A e \in Devices : \A i \in DOMAIN sessions'[e] : sessions'[e][i] \in Peers(e)
    BY <2>3 DEF TunnelInv, PeersTyped
  <2>5. Typed'
    BY DEF Open, TunnelInv, Typed
  <2> QED
    BY <1>1, <1>2, <2>1, <2>2, <2>3, <2>4, <2>5 DEF TunnelInv, PeersTyped
<1>4. \A e \in Devices : \A p \in Peers(e) :
          /\ S(e, p)' = S(e, p) \/ S(e, p)' = None
          /\ H(e, p)' = H(e, p) \/ H(e, p)' = None
  <2>1. \A p \in Peers(d) : S(d, p)' = None /\ H(d, p)' = None
    <3>1. \A p : NewPeer(d, p).session = None /\ NewPeer(d, p).handshake = None
      BY DEF NewPeer
    <3> QED
      BY <1>2, <3>1 DEF S, H
  <2>2. ASSUME NEW e \in Devices, e # d
        PROVE  \A p \in Peers(e) : S(e, p)' = S(e, p) /\ H(e, p)' = H(e, p)
    BY <1>1, <2>2 DEF S, H
  <2> QED
    BY <2>1, <2>2
<1>5. /\ NetTyped' /\ SentOnce' /\ InFlightInvited' /\ SessionsMatched' /\ LocalsApart'
      /\ SealedBehind' /\ NonceOnce' /\ QueuedSpent' /\ QueuedOnce'
  BY <1>4, QuietKeeps DEF Open
<1>6. BegunKept'
  <2>1. ASSUME NEW x \in begun, Kept(x)
        PROVE  Kept(x)'
    <3>1. x[1] \in Devices
      BY DEF TunnelInv, BegunKept
    <3>2. x[2] = closes => x[1] # d
      BY <2>1 DEF Open, Kept
    <3>3. x[2] = closes => lifecycle'[x[1]] = lifecycle[x[1]] /\ peer'[x[1]] = peer[x[1]]
      BY <1>1, <3>1, <3>2 DEF Open, TunnelInv, Typed
    <3> QED
      BY <2>1, <3>3 DEF Open, Kept
  <2> QED
    BY <2>1 DEF Open, TunnelInv, BegunKept, Invited
<1>7. OneSessionPerInitiation'
  BY DEF Open, TunnelInv, OneSessionPerInitiation
<1> QED
  BY <1>3, <1>5, <1>6, <1>7 DEF TunnelInv

LEMMA CloseKeeps ==
    ASSUME TunnelInv, NEW d \in Devices, Close(d)
    PROVE  TunnelInv'
<1>1. Typed' /\ PeersTyped'
  BY DEF Close, TunnelInv, Typed, PeersTyped
<1>2. \A e \in Devices : \A p \in Peers(e) : S(e, p)' = S(e, p) /\ H(e, p)' = H(e, p)
  BY DEF Close, S, H
<1>3. /\ NetTyped' /\ SentOnce' /\ InFlightInvited' /\ SessionsMatched' /\ LocalsApart'
      /\ SealedBehind' /\ NonceOnce' /\ QueuedSpent' /\ QueuedOnce'
  BY <1>2, QuietKeeps DEF Close
<1>4. BegunKept'
  <2>1. ASSUME NEW x \in begun
        PROVE  x[2] \in Nat /\ x[2] < closes'
    BY DEF Close, TunnelInv, Typed, BegunKept
  <2>2. \A x \in begun : Kept(x) => Kept(x)'
    BY <2>1 DEF Close, TunnelInv, Typed, Kept
  <2> QED
    BY <2>1, <2>2 DEF Close, TunnelInv, Typed, BegunKept, Invited
<1>5. OneSessionPerInitiation'
  BY DEF Close, TunnelInv, OneSessionPerInitiation
<1> QED
  BY <1>1, <1>3, <1>4, <1>5 DEF TunnelInv

\* A handshake starts: its index and its initiation are the first of their kind.
LEMMA InitiateKeeps ==
    ASSUME Configured, TunnelInv, NEW d \in Devices, NEW p \in Peers(d), Initiate(d, p)
    PROVE  TunnelInv'
<1> DEFINE new == CreateInitiation(d, p)
           end == [peer[d][p] EXCEPT !.handshake = [index |-> nextIndex]]
<1>1. nextIndex \in Nat /\ nextIndex' = nextIndex + 1 /\ net' = net \cup {new}
      /\ UNCHANGED <<lifecycle, sessions, clock, nextPacket, closes, queued, begun>>
  BY DEF Initiate, TunnelInv, Typed
<1>2. /\ new.kind = "initiation" /\ new.sender = nextIndex /\ new.from = d /\ new.to = p
      /\ new.stamp = clock /\ clock \in Nat
  BY DEF CreateInitiation, TunnelInv, Typed
<1> HIDE DEF new
<1>3. IsPeer(peer[d][p])
  BY DEF TunnelInv, PeersTyped
<1>4. /\ IsPeer(end) /\ end.session = peer[d][p].session /\ end.stamp = peer[d][p].stamp
      /\ end.handshake = [index |-> nextIndex]
  BY <1>1, <1>3 DEF IsPeer
<1>5. peer' = [peer EXCEPT ![d][p] = end]
  BY DEF Initiate
<1> HIDE DEF end
<1>6. /\ DOMAIN peer' = Devices
      /\ \A e \in Devices : DOMAIN peer'[e] = Peers(e)
      /\ peer'[d][p] = end
      /\ \A e \in Devices : \A q \in Peers(e) : e # d \/ q # p => peer'[e][q] = peer[e][q]
      /\ \A e \in Devices : \A q \in Peers(e) : IsPeer(peer'[e][q])
  BY <1>4, <1>5, Updated DEF TunnelInv
<1>7. /\ \A e \in Devices : \A q \in Peers(e) : S(e, q)' = S(e, q)
      /\ \A e \in Devices : \A q \in Peers(e) : e # d \/ q # p => H(e, q)' = H(e, q)
      /\ H(d, p)'.index = nextIndex
  BY <1>4, <1>6 DEF S, H
<1>8. Typed' /\ PeersTyped'
  BY <1>1, <1>6 DEF TunnelInv, Typed, PeersTyped
<1>9. \A i \in Nat : Past(i) => Past(i)'
  BY <1>1, <1>7, PastStays
<1>10. \A i, a, b : Invited(i, a, b) => Invited(i, a, b)'
  BY <1>1, InvitedStays
<1>11. NetTyped' /\ SentOnce'
  BY <1>1, <1>2 DEF TunnelInv, NetTyped, SentOnce
<1>12. InFlightInvited'
  <2>1. \A i : i = nextIndex => Invited(i, d, p)'
    BY <1>1, <1>2 DEF Invited
  <2>2. ASSUME NEW e \in Devices, NEW q \in Peers(e), H(e, q)' # None
        PROVE  H(e, q)'.index < nextIndex' /\ Invited(H(e, q).index, e, q)'
    <3>1. CASE e = d /\ q = p
      BY <1>1, <1>7, <2>1, <3>1
    <3>2. CASE e # d \/ q # p
      <4>1. H(e, q)' = H(e, q)
        BY <1>7, <3>2
      <4>2. H(e, q).index \in Nat
        BY <2>2, <4>1 DEF TunnelInv, PeersTyped, IsPeer, H
      <4>3. H(e, q).index < nextIndex /\ Invited(H(e, q).index, e, q)
        BY <2>2, <4>1 DEF TunnelInv, InFlightInvited
      <4> QED
        BY <1>1, <1>10, <4>1, <4>2, <4>3
    <3> QED
      BY <3>1, <3>2
  <2> QED
    BY <2>2 DEF InFlightInvited
<1>13. SessionsMatched'
  <2>1. \A e \in Devices : \A q \in Peers(e) : S(e, q) # None => S(e, q).local \in Nat
    BY DEF TunnelInv, PeersTyped, IsPeer, IsSession, S
  <2> QED
    BY <1>7, <1>9, <1>10, <2>1 DEF TunnelInv, SessionsMatched, Matched
<1>14. LocalsApart'
  BY <1>7 DEF TunnelInv, LocalsApart
<1>15. SealedBehind'
  <2>1. \A m \in net : m.kind = "transport" => SealEnd(m.key) \in Nat
    BY EndsTyped DEF TunnelInv, NetTyped
  <2> QED
    BY <1>1, <1>2, <1>7, <1>9, <2>1 DEF TunnelInv, SealedBehind
<1>16. QueuedSpent'
  <2>1. \A m \in net : m.kind = "transport" => OpenEnd(m.key) \in Nat
    BY EndsTyped DEF TunnelInv, NetTyped
  <2> QED
    BY <1>1, <1>2, <1>7, <1>9, <2>1 DEF TunnelInv, QueuedSpent
<1>17. NonceOnce' /\ QueuedOnce'
  BY <1>1, <1>2 DEF TunnelInv, NonceOnce, QueuedOnce
<1>18. BegunKept' /\ OneSessionPerInitiation'
  <2>1. StampsGrow
    <3>1. ASSUME NEW e \in Devices, NEW q \in Peers(e), peer[e][q].stamp # None
          PROVE  peer[e][q].stamp \in Nat /\ peer'[e][q].stamp = peer[e][q].stamp
      BY <1>4, <1>6, <3>1 DEF TunnelInv, PeersTyped, IsPeer
    <3> QED
      BY <3>1 DEF StampsGrow
  <2> QED
    BY <1>1, <2>1, BegunStays
<1> QED
  BY <1>8, <1>11, <1>12, <1>13, <1>14, <1>15, <1>16, <1>17, <1>18 DEF TunnelInv

\* A packet is sealed: with the first counter of its key that is free.
LEMMA SendKeeps ==
    ASSUME Configured, TunnelInv, NEW d \in Devices, NEW packet, Send(d, packet),
           Routes(d, packet.dst) \subseteq Peers(d)
    PROVE  TunnelInv'
<1>1. PICK p \in Peers(d) :
          /\ S(d, p) # None
          /\ net' = net \cup {Seal(d, peer[d][p], [id |-> nextPacket, inner |-> packet])}
          /\ peer' = [peer EXCEPT ![d][p].session.counter = @ + 1]
  BY DEF Send, S
<1> DEFINE new == Seal(d, peer[d][p], [id |-> nextPacket, inner |-> packet])
           s == S(d, p)
           t == [s EXCEPT !.counter = s.counter + 1]
           end == [peer[d][p] EXCEPT !.session = t]
<1>2. /\ nextPacket \in Nat /\ nextPacket' = nextPacket + 1 /\ net' = net \cup {new}
      /\ nextPacket \in 1..MaxPacket
      /\ UNCHANGED <<lifecycle, sessions, clock, nextIndex, closes, queued, begun>>
  BY <1>1 DEF Send, TunnelInv, Typed, Configured
<1>3. new.kind = "transport" /\ new.key = s.send /\ new.counter = s.counter
      /\ new.content.id = nextPacket
  BY DEF Seal, S
<1>4. IsPeer(peer[d][p]) /\ IsSession(s)
  BY <1>1 DEF TunnelInv, PeersTyped, IsPeer, S
<1> HIDE DEF new
<1>5. /\ IsSession(t) /\ t.send = s.send /\ t.recv = s.recv /\ t.local = s.local
      /\ t.remote = s.remote /\ t.window = s.window /\ t.counter = s.counter + 1
  BY <1>4 DEF IsSession
<1>6. peer' = [peer EXCEPT ![d][p] = end]
  BY <1>1 DEF S
<1> HIDE DEF t
<1>7. /\ IsPeer(end) /\ end.session = t /\ end.stamp = peer[d][p].stamp
      /\ end.handshake = peer[d][p].handshake
  BY <1>4, <1>5 DEF IsPeer
<1> HIDE DEF end
<1>8. /\ DOMAIN peer' = Devices
      /\ \A e \in Devices : DOMAIN peer'[e] = Peers(e)
      /\ peer'[d][p] = end
      /\ \A e \in Devices : \A q \in Peers(e) : e # d \/ q # p => peer'[e][q] = peer[e][q]
      /\ \A e \in Devices : \A q \in Peers(e) : IsPeer(peer'[e][q])
  BY <1>6, <1>7, Updated DEF TunnelInv
<1>9. /\ \A e \in Devices : \A q \in Peers(e) : H(e, q)' = H(e, q)
      /\ \A e \in Devices : \A q \in Peers(e) : e # d \/ q # p => S(e, q)' = S(e, q)
      /\ S(d, p)' = t
  BY <1>7, <1>8 DEF S, H
<1>10. Typed' /\ PeersTyped'
  BY <1>2, <1>8 DEF TunnelInv, Typed, PeersTyped
<1>11. \A i : Past(i) => Past(i)'
  BY <1>2, <1>9 DEF Past
<1>12. \A i, a, b : Invited(i, a, b) => Invited(i, a, b)'
  BY <1>2, InvitedStays
<1>13. NetTyped' /\ SentOnce'
  <2>1. NetTyped'
    BY <1>2, <1>3, <1>4 DEF TunnelInv, NetTyped, IsSession
  <2>2. \A m \in net : m.kind = "transport" => m.content.id \in Nat /\ m.content.id < nextPacket
    BY DEF TunnelInv, NetTyped
  <2> QED
    BY <1>2, <1>3, <2>1, <2>2 DEF TunnelInv, SentOnce
<1>14. InFlightInvited'
  BY <1>2, <1>9, <1>12 DEF TunnelInv, InFlightInvited
<1>15. SessionsMatched'
  <2>1. \A e \in Devices : \A q \in Peers(e) : S(e, q)' # None =>
            /\ S(e, q) # None /\ S(e, q)'.send = S(e, q).send /\ S(e, q)'.recv = S(e, q).recv
            /\ S(e, q)'.local = S(e, q).local /\ S(e, q)'.remote = S(e, q).remote
    BY <1>1, <1>5, <1>9
  <2> QED
    BY <1>11, <1>12, <2>1 DEF TunnelInv, SessionsMatched, Matched
<1>16. LocalsApart'
  BY <1>1, <1>5, <1>9 DEF TunnelInv, LocalsApart
<1>17. Matched(d, p, s) /\ Past(s.local)
  BY <1>1 DEF TunnelInv, SessionsMatched
<1>18. SealEnd(s.send) = s.local /\ OpenEnd(s.recv) = s.local
  BY <1>4, <1>17, EndIsLocal
<1>19. SealedBehind'
  <2>1. ASSUME NEW m \in net', m.kind = "transport"
        PROVE  Past(SealEnd(m.key))'
    BY <1>2, <1>3, <1>11, <1>17, <1>18, <2>1 DEF TunnelInv, SealedBehind
  <2>2. ASSUME NEW m \in net', m.kind = "transport", NEW e \in Devices, NEW q \in Peers(e),
               S(e, q)' # None, S(e, q)'.send = m.key
        PROVE  m.counter < S(e, q)'.counter
    <3>1. CASE e = d /\ q = p
      <4>1. S(e, q)'.counter = s.counter + 1 /\ s.counter \in Nat /\ m.key = s.send
        BY <1>4, <1>5, <1>9, <2>2, <3>1 DEF IsSession
      <4>2. CASE m = new
        BY <1>3, <4>1, <4>2
      <4>3. CASE m \in net
        <5>1. m.counter < s.counter /\ m.counter \in Nat
          BY <1>1, <2>2, <4>1, <4>3 DEF TunnelInv, SealedBehind, NetTyped
        <5> QED
          BY <4>1, <5>1
      <4> QED
        BY <1>2, <4>2, <4>3
    <3>2. CASE e # d \/ q # p
      <4>1. S(e, q)' = S(e, q)
        BY <1>9, <3>2
      <4>2. CASE m \in net
        BY <2>2, <4>1, <4>2 DEF TunnelInv, SealedBehind
      <4>3. CASE m = new
        BY <1>1, <1>3, <2>2, <3>2, <4>1, <4>3, KeysApart
      <4> QED
        BY <1>2, <4>2, <4>3
    <3> QED
      BY <3>1, <3>2
  <2> QED
    BY <2>1, <2>2 DEF SealedBehind
<1>20. NonceOnce'
  <2>1. \A m \in net : m.kind = "transport" /\ m.key = s.send =>
            m.counter \in Nat /\ m.counter < s.counter
    BY <1>1 DEF TunnelInv, SealedBehind, NetTyped
  <2>2. s.counter \in Nat
    BY <1>4 DEF IsSession
  <2> QED
    BY <1>2, <1>3, <2>1, <2>2 DEF TunnelInv, NonceOnce
<1>21. QueuedSpent' /\ QueuedOnce'
  <2>1. queued[nextPacket] = 0
    BY <1>2 DEF TunnelInv, QueuedSpent
  <2>2. \A n \in 1..MaxPacket : queued[n] # 0 => n < nextPacket'
    BY <1>2 DEF TunnelInv, QueuedSpent
  <2>3. ASSUME NEW m \in net', m.kind = "transport", queued[m.content.id] # 0
        PROVE  /\ m \in net /\ Past(OpenEnd(m.key))'
               /\ \A e \in Devices : \A q \in Peers(e) : S(e, q)' # None /\ S(e, q)'.recv = m.key =>
                      ~Fresh(S(e, q)'.window, m.counter)
    <3>1. m \in net
      BY <1>2, <1>3, <2>1, <2>3
    <3>2. \A e \in Devices : \A q \in Peers(e) : S(e, q)' # None =>
              /\ S(e, q) # None /\ S(e, q)'.recv = S(e, q).recv /\ S(e, q)'.window = S(e, q).window
      BY <1>1, <1>5, <1>9
    <3> QED
      BY <1>11, <2>3, <3>1, <3>2 DEF TunnelInv, QueuedSpent
  <2> QED
    BY <1>2, <2>2, <2>3 DEF TunnelInv, QueuedSpent, QueuedOnce
<1>22. BegunKept' /\ OneSessionPerInitiation'
  <2>1. StampsGrow
    <3>1. ASSUME NEW e \in Devices, NEW q \in Peers(e), peer[e][q].stamp # None
          PROVE  peer[e][q].stamp \in Nat /\ peer'[e][q].stamp = peer[e][q].stamp
      BY <1>7, <1>8, <3>1 DEF TunnelInv, PeersTyped, IsPeer
    <3> QED
      BY <3>1 DEF StampsGrow
  <2> QED
    BY <1>2, <2>1, BegunStays
<1> QED
  BY <1>10, <1>13, <1>14, <1>15, <1>16, <1>19, <1>20, <1>21, <1>22 DEF TunnelInv

LEMMA RoamIs ==
    ASSUME NEW s, IsPeer(s), NEW a
    PROVE  /\ IsPeer(Roam(s, a)) /\ Roam(s, a).session = s.session
           /\ Roam(s, a).handshake = s.handshake /\ Roam(s, a).stamp = s.stamp
  BY DEF IsPeer, Roam

LEMMA IndexedTyped ==
    ASSUME PeersTyped, NEW d \in Devices, NEW p \in Peers(d), NEW i,
           sessions' = [sessions EXCEPT ![d] = Indexed(@, i, p)]
    PROVE  /\ DOMAIN sessions' = Devices
           /\ \A e \in Devices : \A k \in DOMAIN sessions'[e] : sessions'[e][k] \in Peers(e)
<1>1. \A e \in Devices : sessions'[e] = IF e = d THEN Indexed(sessions[d], i, p) ELSE sessions[e]
  BY DEF PeersTyped
<1>2. \A k \in DOMAIN Indexed(sessions[d], i, p) : Indexed(sessions[d], i, p)[k] \in Peers(d)
  BY DEF PeersTyped, Indexed
<1> QED
  BY <1>1, <1>2 DEF PeersTyped

\* An initiation is answered: the session is the responder's, at an index drawn for it, and the
\* timestamp it leaves refuses the initiation from now on.
LEMMA ConsumeInitiationKeeps ==
    ASSUME Configured, TunnelInv, NEW d \in Devices, NEW m \in net, lifecycle[d] = "open",
           ConsumeInitiation(d, m)
    PROVE  TunnelInv'
<1>0. PICK p : p = m.from
  OBVIOUS
<1> DEFINE pair == <<m.sender, nextIndex>>
           roamed == Roam(peer[d][p], m.src)
           base == Begin(roamed, nextIndex, m.sender, pair)
           end == [base EXCEPT !.stamp = m.stamp]
           response == [kind |-> "response", src |-> addr[d], dst |-> m.src,
                        to |-> p, sender |-> nextIndex, receiver |-> m.sender, pair |-> pair]
           new == <<d, closes, m.sender, nextIndex>>
<1>1. /\ p \in Peers(d) /\ m.kind = "initiation" /\ m.to = d /\ NewerStamp(peer[d][p], m)
      /\ m.sender \in Nat /\ m.sender < nextIndex /\ m.stamp \in Nat
      /\ nextIndex \in Nat /\ closes \in Nat
  BY <1>0 DEF ConsumeInitiation, TunnelInv, NetTyped, Typed
<1>2. /\ peer' = [peer EXCEPT ![d][p] = end] /\ net' = net \cup {response}
      /\ nextIndex' = nextIndex + 1 /\ begun' = begun \cup {new}
      /\ sessions' = [sessions EXCEPT ![d] = Indexed(@, nextIndex, p)]
      /\ UNCHANGED <<lifecycle, clock, nextPacket, closes, queued>>
  BY <1>0 DEF ConsumeInitiation, Keys
<1>3. /\ response.kind = "response" /\ response.receiver = m.sender
      /\ response.sender = nextIndex /\ response.pair = <<response.receiver, response.sender>>
  OBVIOUS
<1> HIDE DEF response
<1>4. IsPeer(peer[d][p])
  BY <1>1 DEF TunnelInv, PeersTyped
<1>5. IsPeer(roamed) /\ roamed.handshake = peer[d][p].handshake
  BY <1>4, RoamIs
<1>6. ~IsInitiator(roamed, nextIndex)
  <2>1. H(d, p) # None => H(d, p).index \in Nat /\ H(d, p).index < nextIndex
    BY <1>1 DEF TunnelInv, InFlightInvited, PeersTyped, IsPeer, H
  <2> QED
    BY <1>1, <1>5, <2>1 DEF IsInitiator, H
<1> HIDE DEF roamed
<1>7. /\ IsPeer(base) /\ IsSession(base.session) /\ base.handshake = peer[d][p].handshake
      /\ base.session = [send |-> <<pair, "r2i">>, recv |-> <<pair, Other("r2i")>>,
                         local |-> nextIndex, remote |-> m.sender,
                         counter |-> 0, window |-> NewWindow]
  BY <1>1, <1>5, <1>6, BeginIs DEF TunnelInv
<1> HIDE DEF base
<1>8. /\ IsPeer(end) /\ end.session = base.session /\ end.handshake = base.handshake
      /\ end.stamp = m.stamp
  BY <1>1, <1>7 DEF IsPeer
<1> HIDE DEF end
<1>9. /\ DOMAIN peer' = Devices
      /\ \A e \in Devices : DOMAIN peer'[e] = Peers(e)
      /\ peer'[d][p] = end
      /\ \A e \in Devices : \A q \in Peers(e) : e # d \/ q # p => peer'[e][q] = peer[e][q]
      /\ \A e \in Devices : \A q \in Peers(e) : IsPeer(peer'[e][q])
  <2>1. PeersTyped /\ IsPeer(end) /\ p \in Peers(d) /\ peer' = [peer EXCEPT ![d][p] = end]
    BY <1>1, <1>2, <1>8 DEF TunnelInv
  <2> QED
    BY ONLY <2>1, d \in Devices, Updated
<1>10. Typed' /\ PeersTyped'
  <2>1. Typed'
    BY <1>1, <1>2 DEF TunnelInv, Typed
  <2>2. /\ PeersTyped /\ p \in Peers(d)
        /\ sessions' = [sessions EXCEPT ![d] = Indexed(@, nextIndex, p)]
    BY <1>1, <1>2 DEF TunnelInv
  <2>3. /\ DOMAIN sessions' = Devices
        /\ \A e \in Devices : \A k \in DOMAIN sessions'[e] : sessions'[e][k] \in Peers(e)
    BY ONLY <2>2, d \in Devices, IndexedTyped
  <2> QED
    BY <1>9, <2>1, <2>3 DEF PeersTyped
<1>11. NetTyped' /\ SentOnce'
  BY <1>1, <1>2, <1>3 DEF TunnelInv, NetTyped, SentOnce
<1>12. /\ InFlightInvited' /\ SessionsMatched' /\ LocalsApart'
       /\ SealedBehind' /\ NonceOnce' /\ QueuedSpent' /\ QueuedOnce'
  <2>2. S(d, p)' = base.session /\ S(d, p)'.local = nextIndex
    BY <1>7, <1>8, <1>9 DEF S
  <2>3. Matched(d, p, S(d, p))'
    <3>1. Invited(m.sender, p, d)'
      BY <1>0, <1>1, <1>2 DEF Invited
    <3> QED
      BY <1>7, <2>2, <3>1 DEF Matched
  <2>4. /\ \A e \in Devices : \A q \in Peers(e) : e # d \/ q # p => S(e, q)' = S(e, q)
        /\ \A e \in Devices : \A q \in Peers(e) : H(e, q)' = H(e, q)
    BY <1>7, <1>8, <1>9 DEF S, H
  <2>5. ~Past(S(d, p)'.local)
    BY <1>1, <2>2 DEF Past
  <2>6. Past(S(d, p).local)'
    <3>1. \A e \in Devices : \A q \in Peers(e) : H(e, q) # None =>
              H(e, q).index \in Nat /\ H(e, q).index < nextIndex
      BY DEF TunnelInv, InFlightInvited, PeersTyped, IsPeer, H
    <3> QED
      BY <1>1, <1>2, <2>2, <2>4, <3>1 DEF Past
  <2> QED
    <3>1. /\ nextIndex' \in Nat /\ nextIndex <= nextIndex' /\ UNCHANGED <<nextPacket, queued>>
          /\ net \subseteq net' /\ \A n \in net' \ net : n.kind = "response"
      BY <1>1, <1>2, <1>3
    <3>2. IsSession(S(d, p)')
      BY <1>7, <2>2
    <3> QED
      BY <1>1, <2>3, <2>4, <2>5, <2>6, <3>1, <3>2, BeginKeeps
<1>13. StampsGrow
  <2>1. ASSUME NEW e \in Devices, NEW q \in Peers(e), peer[e][q].stamp # None
        PROVE  peer'[e][q].stamp \in Nat /\ peer[e][q].stamp <= peer'[e][q].stamp
    <3>1. peer[e][q].stamp \in Nat
      BY <2>1 DEF TunnelInv, PeersTyped, IsPeer
    <3>2. CASE e = d /\ q = p
      BY <1>1, <1>8, <1>9, <2>1, <3>1, <3>2 DEF NewerStamp
    <3>3. CASE e # d \/ q # p
      BY <1>9, <3>1, <3>3
    <3> QED
      BY <3>2, <3>3
  <2> QED
    BY <2>1 DEF StampsGrow
<1>14. BegunKept'
  <2>1. \A x : x = new => Kept(x)'
    <3>1. m \in net' /\ lifecycle'[d] = "open" /\ peer'[d][p].stamp = m.stamp
      BY <1>2, <1>8, <1>9
    <3> QED
      BY <1>0, <1>1, <3>1 DEF Kept, Configured
  <2>2. new \in Devices \X Nat \X Nat \X Nat /\ new[2] <= closes' /\ new[4] # new[3]
    BY <1>1, <1>2
  <2>3. ASSUME NEW x \in begun
        PROVE  /\ x \in Devices \X Nat \X Nat \X Nat /\ x[2] <= closes'
               /\ IF x[4] = x[3] THEN \E q \in Peers(x[1]) : Invited(x[3], x[1], q)' ELSE Kept(x)'
    BY <1>2, <1>13, EntryStays DEF TunnelInv, BegunKept
  <2> HIDE DEF new
  <2> QED
    BY <1>2, <2>1, <2>2, <2>3 DEF BegunKept
<1>15. OneSessionPerInitiation'
  <2>1. ASSUME NEW x \in begun, x[1] = d, x[2] = closes, x[3] = m.sender
        PROVE  FALSE
    <3>1. CASE x[4] = x[3]
      <4>1. PICK n \in net : n.kind = "initiation" /\ n.sender = m.sender /\ n.from = d
        BY <2>1, <3>1 DEF TunnelInv, BegunKept, Invited
      <4>2. n = m
        BY <1>1, <4>1 DEF TunnelInv, SentOnce
      <4> QED
        BY <1>0, <1>1, <4>1, <4>2 DEF Configured
    <3>2. CASE x[4] # x[3]
      <4>1. PICK n \in net : /\ n.kind = "initiation" /\ n.sender = m.sender
                             /\ peer[d][n.from].stamp # None
                             /\ n.stamp <= peer[d][n.from].stamp
        BY <2>1, <3>2 DEF TunnelInv, BegunKept, Kept
      <4>2. n = m
        BY <1>1, <4>1 DEF TunnelInv, SentOnce
      <4>3. peer[d][p].stamp \in Nat
        BY <1>0, <1>4, <4>1, <4>2 DEF IsPeer
      <4> QED
        BY <1>0, <1>1, <4>1, <4>2, <4>3 DEF NewerStamp, Configured
    <3> QED
      BY <3>1, <3>2
  <2>2. new[1] = d /\ new[2] = closes /\ new[3] = m.sender
    OBVIOUS
  <2> HIDE DEF new
  <2> QED
    BY <1>2, <2>1, <2>2 DEF TunnelInv, OneSessionPerInitiation
<1> QED
  BY <1>10, <1>11, <1>12, <1>14, <1>15 DEF TunnelInv

\* An initiation is answered to us: the session is the initiator's, at the handshake's index.
LEMMA ConsumeResponseKeeps ==
    ASSUME Configured, TunnelInv, NEW d \in Devices, NEW m \in net, ConsumeResponse(d, m)
    PROVE  TunnelInv'
<1>1. PICK p \in InFlight(d, m.receiver) :
          LET s == peer[d][p] IN
          /\ m.pair[1] = s.handshake.index
          /\ peer' = [peer EXCEPT ![d][p] =
                        Roam([Begin(s, s.handshake.index, m.sender, m.pair)
                                EXCEPT !.handshake = None], m.src)]
          /\ sessions' = [sessions EXCEPT ![d] = Indexed(@, s.handshake.index, p)]
          /\ begun' = begun \cup {<<d, closes, m.receiver, m.receiver>>}
  BY DEF ConsumeResponse
<1> DEFINE i == m.receiver
           base == Begin(peer[d][p], i, m.sender, m.pair)
           bare == [base EXCEPT !.handshake = None]
           end == Roam(bare, m.src)
           new == <<d, closes, i, i>>
<1>2. /\ p \in Peers(d) /\ H(d, p) # None /\ H(d, p).index = i
      /\ m.pair = <<i, m.sender>> /\ i \in Nat /\ m.sender \in Nat /\ nextIndex \in Nat
      /\ closes \in Nat
  BY <1>1 DEF ConsumeResponse, InFlight, H, TunnelInv, NetTyped, Typed
<1>3. /\ peer' = [peer EXCEPT ![d][p] = end] /\ begun' = begun \cup {new}
      /\ sessions' = [sessions EXCEPT ![d] = Indexed(@, i, p)]
      /\ UNCHANGED <<lifecycle, clock, net, nextIndex, nextPacket, closes, queued>>
  BY <1>1, <1>2 DEF ConsumeResponse, H
<1>4. IsPeer(peer[d][p]) /\ IsInitiator(peer[d][p], i)
  BY <1>2 DEF TunnelInv, PeersTyped, IsInitiator, H
<1>5. /\ IsPeer(base) /\ IsSession(base.session) /\ base.stamp = peer[d][p].stamp
      /\ base.session = [send |-> <<m.pair, "i2r">>, recv |-> <<m.pair, Other("i2r")>>,
                         local |-> i, remote |-> m.sender,
                         counter |-> 0, window |-> NewWindow]
  BY <1>2, <1>4, BeginIs DEF TunnelInv
<1> HIDE DEF base
<1>6. /\ IsPeer(bare) /\ bare.session = base.session
      /\ bare.handshake = None /\ bare.stamp = base.stamp
  BY <1>5 DEF IsPeer
<1> HIDE DEF bare
<1>7. IsPeer(end) /\ end.session = base.session /\ end.handshake = None /\ end.stamp = base.stamp
  BY <1>6, RoamIs
<1> HIDE DEF end
<1>8. /\ DOMAIN peer' = Devices
      /\ \A e \in Devices : DOMAIN peer'[e] = Peers(e)
      /\ peer'[d][p] = end
      /\ \A e \in Devices : \A q \in Peers(e) : e # d \/ q # p => peer'[e][q] = peer[e][q]
      /\ \A e \in Devices : \A q \in Peers(e) : IsPeer(peer'[e][q])
  BY <1>2, <1>3, <1>7, Updated DEF TunnelInv
<1>9. Typed' /\ PeersTyped'
  BY <1>2, <1>3, <1>8, IndexedTyped DEF TunnelInv, Typed, PeersTyped
<1>10. NetTyped' /\ SentOnce'
  BY <1>3 DEF TunnelInv, NetTyped, SentOnce
<1>11. Invited(i, d, p)
  BY <1>2 DEF TunnelInv, InFlightInvited
<1>12. /\ InFlightInvited' /\ SessionsMatched' /\ LocalsApart'
       /\ SealedBehind' /\ NonceOnce' /\ QueuedSpent' /\ QueuedOnce'
  <2>2. S(d, p)' = base.session /\ S(d, p)'.local = i
    BY <1>5, <1>7, <1>8 DEF S
  <2>3. Matched(d, p, S(d, p))'
    <3>1. Invited(i, d, p)'
      BY <1>3, <1>11 DEF Invited
    <3> QED
      BY <1>2, <1>5, <2>2, <3>1 DEF Matched
  <2>4. /\ \A e \in Devices : \A q \in Peers(e) : e # d \/ q # p =>
               S(e, q)' = S(e, q) /\ H(e, q)' = H(e, q)
        /\ H(d, p)' = None
    BY <1>7, <1>8 DEF S, H
  <2>5. ~Past(S(d, p)'.local)
    BY <1>2, <2>2 DEF Past
  <2>6. Past(S(d, p).local)'
    <3>1. i < nextIndex
      BY <1>2 DEF TunnelInv, InFlightInvited
    <3>2. \A e \in Devices : \A q \in Peers(e) :
              (e # d \/ q # p) /\ H(e, q) # None => H(e, q).index # i
      BY <1>2, HandshakesApart
    <3> QED
      BY <1>3, <2>2, <2>4, <3>1, <3>2 DEF Past
  <2> QED
    <3>1. /\ nextIndex' \in Nat /\ nextIndex <= nextIndex' /\ UNCHANGED <<nextPacket, queued>>
          /\ net \subseteq net' /\ \A n \in net' \ net : n.kind = "response"
      BY <1>2, <1>3
    <3>2. IsSession(S(d, p)')
      BY <1>5, <2>2
    <3>3. \A e \in Devices : \A q \in Peers(e) :
              /\ e # d \/ q # p => S(e, q)' = S(e, q)
              /\ H(e, q)' = H(e, q) \/ H(e, q)' = None
      BY <2>4
    <3> QED
      BY <1>2, <2>3, <2>5, <2>6, <3>1, <3>2, <3>3, BeginKeeps
<1>13. StampsGrow
  <2>1. ASSUME NEW e \in Devices, NEW q \in Peers(e), peer[e][q].stamp # None
        PROVE  peer[e][q].stamp \in Nat /\ peer'[e][q].stamp = peer[e][q].stamp
    <3>1. peer[e][q].stamp \in Nat
      BY <2>1 DEF TunnelInv, PeersTyped, IsPeer
    <3>2. CASE e = d /\ q = p
      BY <1>5, <1>6, <1>7, <1>8, <3>1, <3>2
    <3>3. CASE e # d \/ q # p
      BY <1>8, <3>1, <3>3
    <3> QED
      BY <3>2, <3>3
  <2> QED
    BY <2>1 DEF StampsGrow
<1>14. BegunKept'
  <2>1. new \in Devices \X Nat \X Nat \X Nat /\ new[1] = d /\ new[2] <= closes'
        /\ new[3] = i /\ new[4] = i
    BY <1>2, <1>3
  <2>3. Invited(i, d, p)'
    BY <1>3, <1>11 DEF Invited
  <2>2. ASSUME NEW x \in begun
        PROVE  /\ x \in Devices \X Nat \X Nat \X Nat /\ x[2] <= closes'
               /\ IF x[4] = x[3] THEN \E q \in Peers(x[1]) : Invited(x[3], x[1], q)' ELSE Kept(x)'
    BY <1>3, <1>13, EntryStays DEF TunnelInv, BegunKept
  <2> HIDE DEF new
  <2> QED
    BY <1>2, <1>3, <2>1, <2>2, <2>3 DEF BegunKept
<1>15. OneSessionPerInitiation'
  <2>1. ASSUME NEW x \in begun, x[1] = d, x[2] = closes, x[3] = i
        PROVE  x = new
    <3>1. CASE x[4] = x[3]
      BY <2>1, <3>1 DEF TunnelInv, BegunKept
    <3>2. CASE x[4] # x[3]
      <4>1. PICK n \in net : n.kind = "initiation" /\ n.sender = i /\ n.from \in Peers(d)
        BY <2>1, <3>2 DEF TunnelInv, BegunKept, Kept
      <4>2. n.from = d
        BY <1>11, <4>1 DEF TunnelInv, SentOnce, Invited
      <4> QED
        BY <4>1, <4>2 DEF Configured
    <3> QED
      BY <3>1, <3>2
  <2>2. new[1] = d /\ new[2] = closes /\ new[3] = i
    OBVIOUS
  <2> HIDE DEF new
  <2> QED
    BY <1>3, <2>1, <2>2 DEF TunnelInv, OneSessionPerInitiation
<1> QED
  BY <1>9, <1>10, <1>12, <1>14, <1>15 DEF TunnelInv

\* A message is opened: its counter was fresh and is spent, whether it is queued or refused.
LEMMA ConsumeTransportKeeps ==
    ASSUME Configured, TunnelInv, NEW d \in Devices, NEW m \in net, ConsumeTransport(d, m)
    PROVE  TunnelInv'
<1>0. PICK p : p = sessions[d][m.receiver]
  OBVIOUS
<1> DEFINE s == S(d, p)
           id == m.content.id
           t == [s EXCEPT !.window = Recorded(s.window, m.counter)]
           opened == [peer[d][p] EXCEPT !.session = t]
           end == Roam(opened, m.src)
<1>1. /\ m.kind = "transport" /\ p \in Peers(d) /\ s # None /\ s.recv = m.key
      /\ Fresh(s.window, m.counter)
      /\ m.key \in KeyNames /\ m.counter \in Nat /\ id \in 1..MaxPacket /\ id < nextPacket
  BY <1>0 DEF ConsumeTransport, Opens, TransportOpens, S, TunnelInv, PeersTyped, NetTyped
<1>2. /\ peer' = [peer EXCEPT ![d][p] = end]
      /\ UNCHANGED <<lifecycle, sessions, clock, net, nextIndex, nextPacket, closes, begun>>
  BY <1>0 DEF ConsumeTransport, S
<1>3. queued' = [queued EXCEPT ![id] = @ + 1] \/ queued' = queued
  BY DEF ConsumeTransport
<1>4. IsPeer(peer[d][p]) /\ IsSession(s)
  BY <1>1 DEF TunnelInv, PeersTyped, IsPeer, S
<1>5. IsWindow(Recorded(s.window, m.counter)) /\ ~Fresh(Recorded(s.window, m.counter), m.counter)
  BY <1>1, <1>4, RecordedIsSpent DEF IsSession
<1>6. /\ IsSession(t) /\ t.send = s.send /\ t.recv = s.recv /\ t.local = s.local
      /\ t.remote = s.remote /\ t.counter = s.counter /\ t.window = Recorded(s.window, m.counter)
  BY <1>4, <1>5 DEF IsSession
<1> HIDE DEF t
<1>7. /\ IsPeer(opened) /\ opened.session = t /\ opened.stamp = peer[d][p].stamp
      /\ opened.handshake = peer[d][p].handshake
  BY <1>4, <1>6 DEF IsPeer
<1> HIDE DEF opened
<1>8. /\ IsPeer(end) /\ end.session = t /\ end.stamp = peer[d][p].stamp
      /\ end.handshake = peer[d][p].handshake
  BY <1>7, RoamIs
<1> HIDE DEF end
<1>9. /\ DOMAIN peer' = Devices
      /\ \A e \in Devices : DOMAIN peer'[e] = Peers(e)
      /\ peer'[d][p] = end
      /\ \A e \in Devices : \A q \in Peers(e) : e # d \/ q # p => peer'[e][q] = peer[e][q]
      /\ \A e \in Devices : \A q \in Peers(e) : IsPeer(peer'[e][q])
  BY <1>1, <1>2, <1>8, Updated DEF TunnelInv
<1>10. /\ \A e \in Devices : \A q \in Peers(e) : H(e, q)' = H(e, q)
       /\ \A e \in Devices : \A q \in Peers(e) : e # d \/ q # p => S(e, q)' = S(e, q)
       /\ S(d, p)' = t
  BY <1>8, <1>9 DEF S, H
<1>11. /\ queued' \in [1..MaxPacket -> Nat]
       /\ \A n \in 1..MaxPacket : n # id => queued'[n] = queued[n]
       /\ queued'[id] = queued[id] \/ queued'[id] = queued[id] + 1
  <2>1. queued \in [1..MaxPacket -> Nat] /\ id \in 1..MaxPacket
    BY <1>1 DEF TunnelInv, Typed
  <2>2. CASE queued' = [queued EXCEPT ![id] = @ + 1]
    BY ONLY <2>1, <2>2
  <2>3. CASE queued' = queued
    BY ONLY <2>1, <2>3
  <2> QED
    BY <1>3, <2>2, <2>3
<1>12. Typed' /\ PeersTyped'
  BY <1>2, <1>9, <1>11 DEF TunnelInv, Typed, PeersTyped
<1>13. NetTyped' /\ SentOnce' /\ NonceOnce'
  BY <1>2 DEF TunnelInv, NetTyped, SentOnce, NonceOnce
<1>14. \A i : Past(i) => Past(i)'
  BY <1>2, <1>10 DEF Past
<1>15. \A e \in Devices : \A q \in Peers(e) : S(e, q)' # None =>
           /\ S(e, q) # None /\ S(e, q)'.send = S(e, q).send /\ S(e, q)'.recv = S(e, q).recv
           /\ S(e, q)'.local = S(e, q).local /\ S(e, q)'.remote = S(e, q).remote
           /\ S(e, q)'.counter = S(e, q).counter
  BY <1>1, <1>6, <1>10
<1>16. InFlightInvited'
  BY <1>2, <1>10 DEF TunnelInv, InFlightInvited, Invited
<1>17. SessionsMatched'
  BY <1>2, <1>14, <1>15 DEF TunnelInv, SessionsMatched, Matched, Invited
<1>18. LocalsApart'
  BY <1>15 DEF TunnelInv, LocalsApart
<1>19. SealedBehind'
  BY <1>2, <1>14, <1>15 DEF TunnelInv, SealedBehind
<1>20. Past(OpenEnd(m.key))
  <2>1. Matched(d, p, s) /\ Past(s.local)
    BY <1>1 DEF TunnelInv, SessionsMatched
  <2> QED
    BY <1>1, <1>4, <2>1, EndIsLocal
<1>21. QueuedSpent'
  <2>1. \A n \in 1..MaxPacket : queued'[n] # 0 => n < nextPacket'
    BY <1>1, <1>2, <1>11 DEF TunnelInv, QueuedSpent
  <2>2. ASSUME NEW n \in net, n.kind = "transport", queued'[n.content.id] # 0
        PROVE  /\ Past(OpenEnd(n.key))'
               /\ \A e \in Devices : \A q \in Peers(e) : S(e, q)' # None /\ S(e, q)'.recv = n.key =>
                      ~Fresh(S(e, q)'.window, n.counter)
    <3>1. CASE n = m
      <4>1. Past(OpenEnd(m.key))'
        BY <1>14, <1>20
      <4>2. ASSUME NEW e \in Devices, NEW q \in Peers(e), S(e, q)' # None, S(e, q)'.recv = m.key
            PROVE  e = d /\ q = p
        BY <1>1, <1>15, <4>2, KeysApart
      <4> QED
        BY <1>5, <1>6, <1>10, <3>1, <4>1, <4>2
    <3>2. CASE n # m
      <4>1. n.content.id # id /\ n.content.id \in 1..MaxPacket /\ n.counter \in Nat
        BY <1>1, <2>2, <3>2 DEF TunnelInv, SentOnce, NetTyped
      <4>2. queued[n.content.id] # 0
        BY <1>11, <2>2, <4>1
      <4>3. Past(OpenEnd(n.key))'
        BY <1>14, <2>2, <4>2 DEF TunnelInv, QueuedSpent
      <4>4. ASSUME NEW e \in Devices, NEW q \in Peers(e), S(e, q)' # None, S(e, q)'.recv = n.key
            PROVE  ~Fresh(S(e, q)'.window, n.counter)
        <5>1. ~Fresh(S(e, q).window, n.counter)
          BY <1>15, <2>2, <4>2, <4>4 DEF TunnelInv, QueuedSpent
        <5>2. CASE e = d /\ q = p
          <6>1. IsWindow(s.window)
            BY <1>4 DEF IsSession
          <6>2. ~Fresh(Recorded(s.window, m.counter), n.counter)
            BY <1>1, <4>1, <5>1, <5>2, <6>1, SpentStays
          <6> QED
            BY <1>6, <1>10, <5>2, <6>2
        <5>3. CASE e # d \/ q # p
          BY <1>10, <5>1, <5>3
        <5> QED
          BY <5>2, <5>3
      <4> QED
        BY <4>3, <4>4
    <3> QED
      BY <3>1, <3>2
  <2> QED
    BY <1>2, <2>1, <2>2 DEF QueuedSpent
<1>22. QueuedOnce'
  <2>1. queued[id] = 0
    BY <1>1 DEF TunnelInv, QueuedSpent
  <2> QED
    <3>1. queued'[id] \in {0, 1}
      BY <1>11, <2>1
    <3>2. \A n \in 1..MaxPacket : queued[n] <= 1
      BY DEF TunnelInv, QueuedOnce, Typed
    <3> QED
      BY <1>11, <3>1, <3>2 DEF QueuedOnce
<1>23. BegunKept' /\ OneSessionPerInitiation'
  <2>1. StampsGrow
    <3>1. ASSUME NEW e \in Devices, NEW q \in Peers(e), peer[e][q].stamp # None
          PROVE  peer[e][q].stamp \in Nat /\ peer'[e][q].stamp = peer[e][q].stamp
      BY <1>8, <1>9, <3>1 DEF TunnelInv, PeersTyped, IsPeer
    <3> QED
      BY <3>1 DEF StampsGrow
  <2> QED
    BY <1>2, <2>1, BegunStays
<1> QED
  BY <1>12, <1>13, <1>16, <1>17, <1>18, <1>19, <1>21, <1>22, <1>23 DEF TunnelInv

LEMMA InitHolds == Configured /\ Init => TunnelInv
<1> SUFFICES ASSUME Configured, Init
             PROVE  TunnelInv
  OBVIOUS
<1>1. \A d \in Devices : DOMAIN peer[d] = Peers(d) /\ \A p \in Peers(d) : peer[d][p] = NewPeer(d, p)
  <2>1. ASSUME NEW d \in Devices
        PROVE  DOMAIN peer[d] = Peers(d) /\ \A p \in Peers(d) : peer[d][p] = NewPeer(d, p)
    <3>1. peer[d] = NewDevice(d)
      BY Zenon DEF Init
    <3> QED
      BY <3>1 DEF NewDevice
  <2> QED
    BY Zenon, <2>1
<1>2. \A d \in Devices : \A p \in Peers(d) :
          IsPeer(peer[d][p]) /\ S(d, p) = None /\ H(d, p) = None
  <2>1. \A d, p : /\ IsPeer(NewPeer(d, p))
                  /\ NewPeer(d, p).session = None /\ NewPeer(d, p).handshake = None
    BY DEF NewPeer, IsPeer
  <2> QED
    BY <1>1, <2>1 DEF S, H
<1>3. Typed /\ PeersTyped
  BY <1>1, <1>2 DEF Init, Configured, Typed, PeersTyped
<1>4. NetTyped /\ SentOnce /\ SealedBehind /\ NonceOnce /\ QueuedOnce /\ QueuedSpent
      /\ BegunKept /\ OneSessionPerInitiation
  BY DEF Init, NetTyped, SentOnce, SealedBehind, NonceOnce, QueuedOnce, QueuedSpent, BegunKept,
         OneSessionPerInitiation
<1>5. InFlightInvited /\ SessionsMatched /\ LocalsApart
  BY <1>2 DEF InFlightInvited, SessionsMatched, LocalsApart
<1> QED
  BY <1>3, <1>4, <1>5 DEF TunnelInv

LEMMA NextHolds == Configured /\ TunnelInv /\ [Next]_vars => TunnelInv'
<1> SUFFICES ASSUME Configured, TunnelInv, [Next]_vars
             PROVE  TunnelInv'
  OBVIOUS
<1>1. ASSUME NEW d \in Devices, Open(d)
      PROVE  TunnelInv'
  BY <1>1, OpenKeeps
<1>2. ASSUME NEW d \in Devices, Close(d)
      PROVE  TunnelInv'
  BY <1>2, CloseKeeps
<1>3. ASSUME NEW d \in Devices, Receive(d) \/ \E a \in Addrs : Move(d, a)
      PROVE  TunnelInv'
  BY <1>3, AsideKeeps DEF Receive, Move, TunnelInv, Typed
<1>4. CASE Tick
  BY <1>4, AsideKeeps DEF Tick, TunnelInv, Typed
<1>5. ASSUME NEW d \in Devices, NEW p \in Peers(d), Initiate(d, p)
      PROVE  TunnelInv'
  BY <1>5, InitiateKeeps
<1>6. ASSUME NEW d \in Devices, NEW packet \in Inner, Send(d, packet)
      PROVE  TunnelInv'
  <2>1. Routes(d, packet.dst) \subseteq Peers(d)
    BY DEF Routes, Covering
  <2> QED
    BY <1>6, <2>1, SendKeeps
<1>7. ASSUME NEW d \in Devices, NEW m \in net, Process(d, m)
      PROVE  TunnelInv'
  BY <1>7, ConsumeInitiationKeeps, ConsumeResponseKeeps, ConsumeTransportKeeps DEF Process
<1>8. CASE UNCHANGED vars
  BY <1>8, AsideKeeps DEF vars, TunnelInv, Typed
<1> QED
  BY <1>1, <1>2, <1>3, <1>4, <1>5, <1>6, <1>7, <1>8 DEF Next

\* What the invariant says of two ends of one handshake: they hold it crosswise.
LEMMA MatchedCross == TunnelInv => SessionsCross
<1> SUFFICES ASSUME TunnelInv,
                    NEW d \in Devices, NEW e \in Devices, NEW p \in Peers(d), NEW q \in Peers(e),
                    d # e, S(d, p) # None, S(e, q) # None, S(d, p).send[1] = S(e, q).send[1]
             PROVE  /\ p = e /\ q = d
                    /\ S(d, p).send = S(e, q).recv /\ S(d, p).recv = S(e, q).send
                    /\ S(d, p).local = S(e, q).remote /\ S(d, p).remote = S(e, q).local
  BY DEF SessionsCross, S
<1> DEFINE s == S(d, p)
           t == S(e, q)
<1>1. IsSession(s) /\ IsSession(t) /\ Matched(d, p, s) /\ Matched(e, q, t)
  BY DEF TunnelInv, PeersTyped, IsPeer, SessionsMatched, S
<1> HIDE DEF s, t
<1>2. PICK pair \in Nat \X Nat, way \in Ways, back \in Ways :
          s.send = <<pair, way>> /\ t.send = <<pair, back>>
  BY <1>1 DEF IsSession, KeyNames, s, t
<1>3. ASSUME NEW i, NEW a, NEW b, NEW c, NEW f, Invited(i, a, b), Invited(i, c, f)
      PROVE  a = c /\ b = f
  BY <1>3 DEF TunnelInv, SentOnce, Invited
<1>4. CASE way = back
  BY <1>1, <1>2, <1>3, <1>4 DEF Matched, Ways
<1>5. CASE way = "i2r" /\ back = "r2i"
  BY <1>1, <1>2, <1>3, <1>5 DEF Matched, Other, s, t
<1>6. CASE way = "r2i" /\ back = "i2r"
  BY <1>1, <1>2, <1>3, <1>6 DEF Matched, Other, s, t
<1> QED
  BY <1>4, <1>5, <1>6 DEF Ways

\* The tunnel of wireguard.py holds: a packet is queued once, a key and a counter seal one message,
\* an initiation begins one session while its responder lives, and sessions of one handshake are
\* crosswise, however the network loses, repeats and reorders and whoever restarts or roams.
THEOREM TunnelAlwaysHolds ==
    ASSUME Configured
    PROVE  Spec => []TunnelHolds
<1>1. Init => TunnelInv
  BY InitHolds
<1>2. TunnelInv /\ [Next]_vars => TunnelInv'
  BY NextHolds
<1>3. TunnelInv => TunnelHolds
  BY MatchedCross DEF TunnelInv, TunnelHolds
<1> QED
  BY <1>1, <1>2, <1>3, PTL DEF Spec
=============================================================================
