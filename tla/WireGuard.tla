------------------------------ MODULE WireGuard ------------------------------
(* The WireGuard device card (net/link/wireguard.py): devices that are server *)
(* and client at once, over a datagram network that loses, duplicates and     *)
(* reorders. Cryptography is symbolic: a transport key is named by the pair   *)
(* of sender indices its handshake mixed and by its direction, and a seal     *)
(* opens under that key only. Sender indices are random 32-bit words; they    *)
(* are drawn fresh here. Inner addresses are bit strings, as prefixes need.   *)
EXTENDS Integers, Sequences

CONSTANTS
  Devices,      \* the devices that run
  Allowed,      \* Allowed[d][p]: the allowed_ips of peer p in d's config
  Endpoint0,    \* Endpoint0[d][p]: the configured endpoint of the peer, or None
  Home,         \* Home[d]: the address d starts at
  Addrs,        \* outer addresses
  Inner,        \* inner packets: [src, dst]
  WindowSize,   \* the size of the replay window, at least 1 (64 in the code)
  MaxIndex, MaxPacket, MaxClock, MaxClose, MaxMove,   \* bounds
  None

Peers(d) == DOMAIN Allowed[d]

VARIABLES
  lifecycle,    \* lifecycle[d]: "open" or "closed"
  peer,         \* peer[d][p]: the runtime state of a peer
  sessions,     \* sessions[d]: local index -> peer
  packets,      \* packets[d]: inner packets waiting for receive
  addr,         \* addr[d]: the address d sends from
  clock,        \* whole seconds, one clock for all
  net,          \* every datagram ever sent
  nextIndex, nextPacket, closes, moves,
  queued,       \* history: packet -> how often a device queued it
  begun         \* history: the sessions begun, <<device, incarnation, initiation, local index>>

vars == <<lifecycle, peer, sessions, packets, addr, clock, net, nextIndex,
          nextPacket, closes, moves, queued, begun>>

NewWindow == [highest |-> None, bits |-> {}]
NewPeer(d, p) == [endpoint |-> Endpoint0[d][p], session |-> None, handshake |-> None,
                  stamp |-> None, handshakes |-> <<>>]
NewDevice(d) == [p \in Peers(d) |-> NewPeer(d, p)]

Init ==
  /\ lifecycle = [d \in Devices |-> "closed"]
  /\ peer = [d \in Devices |-> NewDevice(d)]
  /\ sessions = [d \in Devices |-> <<>>]
  /\ packets = [d \in Devices |-> <<>>]
  /\ addr = Home
  /\ clock = 0 /\ net = {} /\ nextIndex = 1 /\ nextPacket = 1
  /\ closes = 0 /\ moves = 0
  /\ queued = [n \in 1..MaxPacket |-> 0]
  /\ begun = {}

----------------------------------------------------------------------------
(* The replay window and the prefix match *)

Fresh(w, c) ==
  IF w.highest = None \/ c > w.highest THEN TRUE
  ELSE w.highest - c < WindowSize /\ (w.highest - c) \notin w.bits

\* Bit i stands for the counter highest - i; a new highest shifts the bitmap
\* and masks it to the size.
Recorded(w, c) ==
  IF w.highest = None THEN [highest |-> c, bits |-> {0}]
  ELSE IF c > w.highest
  THEN [highest |-> c,
        bits |-> {0} \cup {b \in 0..WindowSize - 1 : b - (c - w.highest) \in w.bits}]
  ELSE [w EXCEPT !.bits = @ \cup {w.highest - c}]

PrefixMatch(ip, prefix) ==
  /\ Len(ip) = Len(prefix.network) /\ prefix.length \in 0..Len(ip)
  /\ SubSeq(ip, 1, prefix.length) = SubSeq(prefix.network, 1, prefix.length)

Covering(d, ip) ==
  {c \in Peers(d) \X (0..Len(ip)) :
     \E x \in Allowed[d][c[1]] : x.length = c[2] /\ PrefixMatch(ip, x)}

\* The longest match over every peer's allowed_ips; among equals the first
\* peer of the configuration, so any. No match is NoRoute.
Routes(d, ip) ==
  {c[1] : c \in {c \in Covering(d, ip) : \A o \in Covering(d, ip) : o[2] <= c[2]}}

----------------------------------------------------------------------------
(* Sessions *)

\* What both ends derive from a finished handshake: a key per direction, named
\* by the two indices, for both ephemerals are mixed into the chain.
Keys(initiation, response) == <<initiation, response>>

\* The AEAD of a transport packet: what was sealed is read back under its key.
TransportOpens(key, m) == m.key = key

Other(way) == IF way = "i2r" THEN "r2i" ELSE "i2r"

\* A role read from the handshake in flight, whatever its index.
IsInitiatorAny(s, local) == s.handshake # None

IsInitiator(s, local) == s.handshake # None /\ s.handshake.index = local

ClosedBy(intervals, now) ==
  [i \in 1..Len(intervals) |->
     IF i = Len(intervals) THEN [intervals[i] EXCEPT !.to = now] ELSE intervals[i]]

\* The session that replaces the peer's one, and the interval it opens.
Begin(s, local, remote, pair) ==
  LET way == IF IsInitiator(s, local) THEN "i2r" ELSE "r2i" IN
  [s EXCEPT !.session = [send |-> <<pair, way>>, recv |-> <<pair, Other(way)>>,
                         local |-> local, remote |-> remote,
                         counter |-> 0, window |-> NewWindow],
            !.handshakes = Append(ClosedBy(@, clock), [from |-> clock, to |-> None])]

Roam(s, source) == [s EXCEPT !.endpoint = source]

\* The table of local indices with one more: an index keeps its peer.
Indexed(table, index, p) ==
  [i \in DOMAIN table \cup {index} |-> IF i = index THEN p ELSE table[i]]

----------------------------------------------------------------------------
(* The faces of the device *)

\* A device made from its configuration, and opened. A closed device stays
\* closed, so what opens again is a new one with none of the old state: the
\* process was restarted, in order or not.
Open(d) ==
  /\ lifecycle[d] = "closed"
  /\ lifecycle' = [lifecycle EXCEPT ![d] = "open"]
  /\ peer' = [peer EXCEPT ![d] = NewDevice(d)]
  /\ sessions' = [sessions EXCEPT ![d] = <<>>]
  /\ packets' = [packets EXCEPT ![d] = <<>>]
  /\ UNCHANGED <<addr, clock, net, nextIndex, nextPacket, closes, moves, queued, begun>>

Close(d) ==
  /\ lifecycle[d] = "open" /\ closes < MaxClose
  /\ lifecycle' = [lifecycle EXCEPT ![d] = "closed"]
  /\ closes' = closes + 1
  /\ UNCHANGED <<peer, sessions, packets, addr, clock, net, nextIndex, nextPacket,
                 moves, queued, begun>>

\* The host of the device gets another outer address.
Move(d, a) ==
  /\ moves < MaxMove /\ \A e \in Devices : a # addr[e]
  /\ moves' = moves + 1
  /\ addr' = [addr EXCEPT ![d] = a]
  /\ UNCHANGED <<lifecycle, peer, sessions, packets, clock, net, nextIndex,
                 nextPacket, closes, queued, begun>>

Tick ==
  /\ clock < MaxClock
  /\ clock' = clock + 1
  /\ UNCHANGED <<lifecycle, peer, sessions, packets, addr, net, nextIndex,
                 nextPacket, closes, moves, queued, begun>>

CreateInitiation(d, p) ==
  [kind |-> "initiation", src |-> addr[d], dst |-> peer[d][p].endpoint,
   from |-> d, to |-> p, sender |-> nextIndex, stamp |-> clock]

\* A new initiation supersedes the one in flight.
Initiate(d, p) ==
  /\ lifecycle[d] = "open" /\ nextIndex <= MaxIndex
  /\ peer[d][p].endpoint # None
  /\ net' = net \cup {CreateInitiation(d, p)}
  /\ peer' = [peer EXCEPT ![d][p].handshake = [index |-> nextIndex]]
  /\ nextIndex' = nextIndex + 1
  /\ UNCHANGED <<lifecycle, sessions, packets, addr, clock, nextPacket, closes,
                 moves, queued, begun>>

\* One transport message; the counter is the nonce and advances once.
Seal(d, s, content) ==
  [kind |-> "transport", src |-> addr[d], dst |-> s.endpoint, receiver |-> s.session.remote,
   key |-> s.session.send, counter |-> s.session.counter, content |-> content]

Send(d, packet) ==
  /\ lifecycle[d] = "open" /\ nextPacket <= MaxPacket
  /\ \E p \in Routes(d, packet.dst) :
       LET s == peer[d][p] IN
       /\ s.session # None /\ s.endpoint # None
       /\ net' = net \cup {Seal(d, s, [id |-> nextPacket, inner |-> packet])}
       /\ peer' = [peer EXCEPT ![d][p].session.counter = @ + 1]
  /\ nextPacket' = nextPacket + 1
  /\ UNCHANGED <<lifecycle, sessions, packets, addr, clock, nextIndex, closes,
                 moves, queued, begun>>

Receive(d) ==
  /\ lifecycle[d] = "open" /\ packets[d] # <<>>
  /\ packets' = [packets EXCEPT ![d] = Tail(@)]
  /\ UNCHANGED <<lifecycle, peer, sessions, addr, clock, net, nextIndex,
                 nextPacket, closes, moves, queued, begun>>

----------------------------------------------------------------------------
(* The drain of the socket. A datagram that is refused changes nothing, so    *)
(* only what passes its checks is a step.                                     *)

NewerStamp(s, m) == IF s.stamp = None THEN TRUE ELSE m.stamp > s.stamp

\* The responder answers and begins the session in one call: the endpoint
\* moves first, the timestamp is kept last.
ConsumeInitiation(d, m) ==
  /\ m.kind = "initiation" /\ m.to = d          \* mac1
  /\ m.from \in Peers(d)
  /\ NewerStamp(peer[d][m.from], m)
  /\ nextIndex <= MaxIndex
  /\ LET roamed == Roam(peer[d][m.from], m.src)
         pair == Keys(m.sender, nextIndex) IN
     /\ peer' = [peer EXCEPT ![d][m.from] =
                   [Begin(roamed, nextIndex, m.sender, pair) EXCEPT !.stamp = m.stamp]]
     /\ net' = net \cup {[kind |-> "response", src |-> addr[d], dst |-> m.src,
                          to |-> m.from, sender |-> nextIndex, receiver |-> m.sender,
                          pair |-> pair]}
  /\ sessions' = [sessions EXCEPT ![d] = Indexed(@, nextIndex, m.from)]
  /\ nextIndex' = nextIndex + 1
  /\ begun' = begun \cup {<<d, closes, m.sender, nextIndex>>}
  /\ UNCHANGED <<lifecycle, packets, addr, clock, nextPacket, closes, moves, queued>>

InFlight(d, index) ==
  {p \in Peers(d) : peer[d][p].handshake # None /\ peer[d][p].handshake.index = index}

\* The AEAD of the response verifies under the handshake its index names: the
\* hash it mixed starts from that initiation.
ConsumeResponse(d, m) ==
  /\ m.kind = "response" /\ m.to = d
  /\ \E p \in InFlight(d, m.receiver) :
       LET s == peer[d][p] IN
       /\ m.pair[1] = s.handshake.index
       /\ peer' = [peer EXCEPT ![d][p] =
                     Roam([Begin(s, s.handshake.index, m.sender, m.pair)
                             EXCEPT !.handshake = None], m.src)]
       /\ sessions' = [sessions EXCEPT ![d] = Indexed(@, s.handshake.index, p)]
       /\ begun' = begun \cup {<<d, closes, m.receiver, m.receiver>>}
  /\ UNCHANGED <<lifecycle, packets, addr, clock, net, nextIndex, nextPacket,
                 closes, moves, queued>>

\* What Session.open asks, in its order: the index, the tag, the window.
Opens(s, m) ==
  s # None /\ m.receiver = s.local /\ TransportOpens(s.recv, m) /\ Fresh(s.window, m.counter)

\* The window moves and the endpoint roams before the inner source is checked:
\* a packet that is refused there has used its counter.
ConsumeTransport(d, m) ==
  /\ m.kind = "transport" /\ m.receiver \in DOMAIN sessions[d]
  /\ LET p == sessions[d][m.receiver]
         s == peer[d][p].session IN
     /\ Opens(s, m)
     /\ peer' = [peer EXCEPT ![d][p] =
                   Roam([@ EXCEPT !.session.window = Recorded(s.window, m.counter)], m.src)]
     /\ IF \E x \in Allowed[d][p] : PrefixMatch(m.content.inner.src, x)
        THEN /\ packets' = [packets EXCEPT ![d] = Append(@, m.content)]
             /\ queued' = [queued EXCEPT ![m.content.id] = @ + 1]
        ELSE UNCHANGED <<packets, queued>>
  /\ UNCHANGED <<lifecycle, sessions, addr, clock, net, nextIndex, nextPacket,
                 closes, moves, begun>>

\* One datagram the network delivers, once more or for the first time. pump
\* runs the drain, and a refusal ends it with the rest still in the socket. A
\* cookie reply is always refused, and no device sends one.
Process(d, m) ==
  /\ lifecycle[d] = "open" /\ m.dst = addr[d]
  /\ ConsumeInitiation(d, m) \/ ConsumeResponse(d, m) \/ ConsumeTransport(d, m)

Next ==
  \/ \E d \in Devices :
       \/ Open(d) \/ Close(d) \/ Receive(d)
       \/ \E a \in Addrs : Move(d, a)
       \/ \E p \in Peers(d) : Initiate(d, p)
       \/ \E packet \in Inner : Send(d, packet)
       \/ \E m \in net : Process(d, m)
  \/ Tick

Spec == Init /\ [][Next]_vars

----------------------------------------------------------------------------
(* Properties *)

\* However the network repeats and reorders, a sealed inner packet is queued
\* for the user at most once, across rekeying, restarts and roaming.
QueuedOnce == \A n \in DOMAIN queued : queued[n] <= 1

\* A key and a counter seal one message: the AEAD never sees a nonce twice,
\* whichever ends came to hold the key and in whichever role.
NonceOnce ==
  \A m, n \in {m \in net : m.kind = "transport"} :
    m.key = n.key /\ m.counter = n.counter => m.content = n.content

\* A responder begins at most one session per initiation as long as it runs:
\* a repeated initiation is refused by its timestamp.
OneSessionPerInitiation ==
  \A x, y \in begun : x[1] = y[1] /\ x[2] = y[2] /\ x[3] = y[3] => x = y

\* Two ends that hold sessions of the same handshake hold them crosswise: the
\* one's send key is the other's receive key, and each names the other's index.
SessionsCross ==
  \A d, e \in Devices : \A p \in Peers(d), q \in Peers(e) :
    LET s == peer[d][p].session
        t == peer[e][q].session IN
    (d # e /\ s # None /\ t # None /\ s.send[1] = t.send[1]) =>
      /\ p = e /\ q = d /\ s.send = t.recv /\ s.recv = t.send
      /\ s.local = t.remote /\ s.remote = t.local

\* What a tunnel promises over a network that loses, repeats and reorders.
TunnelHolds == QueuedOnce /\ NonceOnce /\ OneSessionPerInitiation /\ SessionsCross
=============================================================================
