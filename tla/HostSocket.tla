------------------------------ MODULE HostSocket -----------------------------
(* One host socket of net/transport/hostsocket.py shared by two threads: one  *)
(* that connects, reads, accepts and waits, one that closes.  A tick is the   *)
(* cap of one park.  The kernel and the peer are the environment.             *)
(* Beside it the datagram fabric of net/transport/datagram.py: sockets bound  *)
(* to names, ports assigned on the first send, the one delivery rule.  The    *)
(* two share no state.                                                        *)
EXTENDS Integers, Sequences, FiniteSets

CONSTANTS
  Deadline,   \* the deadline, an absolute tick, or None
  Timeouts,   \* what a wait is given: ticks, or None
  MaxClock, MaxCalls,
  Sockets, Hosts, Ports,  \* sockets; addresses, Any the wildcard; ports to bind
  Any, FirstPort,
  MaxSends, MaxPort,
  None

VARIABLES
  closed, sock,  \* the fields: _closed, _sock (an fd, or None)
  open,          \* the fds the kernel has open
  user,          \* [at, op, sock, limit, caught]: the thread that uses the socket;
                 \* caught: the close came while it was parked
  answer,        \* what its last call answered
  closer,        \* [at, sock]
  ready,         \* the peer has made the socket ready
  clock, calls,
  local,    \* socket -> its bound name, or None
  state,    \* socket -> "new", "open", "closed"
  inbox,    \* socket -> datagrams waiting
  table,    \* the names taken: name -> socket
  nextPort,
  got,      \* socket -> the datagrams it received
  delivered \* every datagram that crossed

vars == <<closed, sock, open, user, answer, closer, ready, clock, calls>>

Past == Deadline # None /\ clock >= Deadline
Return(a) == answer' = a /\ user' = [user EXCEPT !.at = "idle", !.sock = None, !.caught = FALSE]
At(step) == user' = [user EXCEPT !.at = step] /\ UNCHANGED answer
Fixed == UNCHANGED <<closed, sock, open, closer, ready, clock, calls>>

\* _guard: closed first, then unconnected, then the deadline.
Call(op, timeout) ==
  /\ user.at = "idle" /\ calls < MaxCalls /\ calls' = calls + 1
  /\ IF closed THEN Return("StaleHandle")
     ELSE IF op # "connect" /\ sock = None THEN Return("NotConnected")
     ELSE IF Past THEN Return("Timeout")
     ELSE IF op = "connect" /\ sock # None THEN Return("NotSupported")
     ELSE /\ user' = [at |-> op, op |-> op, sock |-> None, caught |-> FALSE,
                      limit |-> IF timeout = None THEN None ELSE clock + timeout]
          /\ answer' = None
  /\ UNCHANGED <<closed, sock, open, closer, ready, clock>>

\* _live reads the field after its guard: a close may have come between.
Live(op, step) ==
  /\ user.at = op /\ Fixed
  /\ IF sock = None THEN Return("NotConnected")
     ELSE user' = [user EXCEPT !.at = step, !.sock = sock] /\ UNCHANGED answer

\* read and accept: one system call, EAGAIN and EBADF through the errno table.
Operate ==
  /\ user.at = "operate"
  /\ IF user.sock \notin open THEN Return("StaleHandle") /\ UNCHANGED ready
     ELSE IF ready THEN Return("done") /\ ready' \in BOOLEAN
     ELSE Return("WouldBlock") /\ UNCHANGED ready
  /\ UNCHANGED <<closed, sock, open, closer, clock, calls>>

\* connect: a new fd, parked until it completes, stored in the field last.
MakeSocket ==
  /\ user.at = "connect"
  /\ LET fd == Cardinality(open) + 1 IN
     open' = open \cup {fd} /\ user' = [user EXCEPT !.at = "connecting", !.sock = fd]
  /\ UNCHANGED <<closed, sock, closer, ready, clock, calls, answer>>

Connecting ==
  /\ user.at = "connecting"
  /\ \/ ~Past /\ At("store") /\ UNCHANGED open
     \/ /\ Return(IF Past THEN "Timeout" ELSE "ConnectionRefused")
        /\ open' = open \ {user.sock}
  /\ UNCHANGED <<closed, sock, closer, ready, clock, calls>>

Store ==
  /\ user.at = "store" /\ sock' = user.sock /\ Return("done")
  /\ UNCHANGED <<closed, open, closer, ready, clock, calls>>

\* wait: the head of its loop, the select, and what the wake is made of.
WaitHead ==
  /\ user.at = "head" /\ Fixed
  /\ IF closed THEN Return("StaleHandle")
     ELSE IF Past THEN Return("Timeout") ELSE At("select")

Select ==
  /\ user.at = "select" /\ Fixed
  /\ IF user.sock \notin open THEN Return("ValueError")  \* the fd is -1 by now
     ELSE At("parked")

\* The select answers: ready, or its cap has passed.
ParkEnds ==
  /\ user.at = "parked" /\ Fixed
  /\ At(IF ready /\ user.sock \in open THEN "awake" ELSE "capped")

\* A wake that hands out the readiness its park saw.
WakeUnchecked ==
  /\ user.at \in {"awake", "capped"} /\ Fixed
  /\ IF user.at = "awake" THEN Return("ready")
     ELSE IF user.limit # None /\ clock >= user.limit THEN Return("empty")
     ELSE IF Past THEN Return("Timeout") ELSE At("head")

Wake ==
  /\ user.at \in {"awake", "capped"} /\ Fixed
  /\ IF closed THEN Return("StaleHandle")
     ELSE IF user.at = "awake" THEN Return("ready")
     ELSE IF user.limit # None /\ clock >= user.limit THEN Return("empty")
     ELSE IF Past THEN Return("Timeout") ELSE At("head")

\* close: the flag, the field, the fd, in that order.
CloseFlag ==
  /\ closer.at = "open" /\ closed' = TRUE /\ closer' = [at |-> "flagged", sock |-> None]
  /\ user' = [user EXCEPT !.caught = user.at = "parked"]
  /\ UNCHANGED <<sock, open, answer, ready, clock, calls>>

CloseField ==
  /\ closer.at = "flagged" /\ closer' = [at |-> "taken", sock |-> sock] /\ sock' = None
  /\ UNCHANGED <<closed, open, user, answer, ready, clock, calls>>
CloseFd ==
  /\ closer.at = "taken" /\ closer' = [closer EXCEPT !.at = "closed"]
  /\ open' = open \ {closer.sock}
  /\ UNCHANGED <<closed, sock, user, answer, ready, clock, calls>>

Peer ==
  /\ ~ready /\ ready' = TRUE
  /\ UNCHANGED <<closed, sock, open, user, answer, closer, clock, calls>>
Tick ==
  /\ clock < MaxClock /\ clock' = clock + 1
  /\ UNCHANGED <<closed, sock, open, user, answer, closer, ready, calls>>

Init ==
  /\ closed = FALSE /\ sock = None /\ open = {}
  /\ user = [at |-> "idle", op |-> None, sock |-> None, limit |-> None, caught |-> FALSE]
  /\ answer = None /\ closer = [at |-> "open", sock |-> None]
  /\ ready = FALSE /\ clock = 0 /\ calls = 0

UserStep ==
  \/ Live("operation", "operate") \/ Live("wait", "head")
  \/ Operate \/ MakeSocket \/ Connecting \/ Store
  \/ WaitHead \/ Select \/ ParkEnds \/ Wake
CloseStep == CloseField \/ CloseFd
Next ==
  \/ \E op \in {"connect", "operation", "wait"}, t \in Timeouts : Call(op, t)
  \/ UserStep \/ CloseFlag \/ CloseStep \/ Peer \/ Tick

Fairness == WF_vars(UserStep) /\ WF_vars(CloseStep)
Spec == Init /\ [][Next]_vars /\ Fairness

----------------------------------------------------------------------------
(* Properties *)

\* A wait that was parked when its socket was closed answers StaleHandle, never
\* the readiness its park saw.
ParkedCloseIsStale == [][user.caught /\ user'.at = "idle" => answer' = "StaleHandle"]_vars

\* A close ends every call in progress, a parked wait without a timeout too.
CloseEndsCalls == closed ~> user.at = "idle"

\* Nothing of the kernel outlives the close, but the socket of a connect that
\* was still in progress.
ClosedReleases == closer.at = "closed" /\ user.at = "idle" /\ user.op # "connect" => open = {}

\* Protocol code sees refusals by name, whatever races a close.
OnlyRefusals == answer # "ValueError"

----------------------------------------------------------------------------
(* The datagram fabric *)

fabricVars == <<local, state, inbox, table, nextPort, got, delivered>>

IsOpen(s) == state[s] = "open"

\* A wildcard that takes every port of its host.
WildAnyPort(t, dst) == {name \in DOMAIN t : name.ip = Any /\ IsOpen(t[name])}

\* _lookup: the exact name while its socket is open, else the wildcard bound at the port.
Wild(t, dst) == {name \in DOMAIN t : name = [ip |-> Any, port |-> dst.port] /\ IsOpen(t[name])}
Lookup(t, dst) ==
  IF dst \in DOMAIN t /\ IsOpen(t[dst]) THEN t[dst]
  ELSE IF Wild(t, dst) # {} THEN t[CHOOSE name \in Wild(t, dst) : TRUE]
  ELSE None

\* _cross: the wire remembers it, and whoever holds the destination gets it.
Cross(t, src, dst) ==
  LET message == [src |-> src, dst |-> dst, n |-> Len(delivered)]
      to == Lookup(t, dst)
  IN /\ delivered' = Append(delivered, message)
     /\ inbox' = IF to = None THEN inbox ELSE [inbox EXCEPT ![to] = Append(@, message)]

\* _register replaces whoever held the name; a bind has refused a taken one.
Register(name, s) == [n \in DOMAIN table \cup {name} |-> IF n = name THEN s ELSE table[n]]

Open(s) ==
  /\ state[s] = "new" /\ state' = [state EXCEPT ![s] = "open"]
  /\ UNCHANGED <<local, inbox, table, nextPort, got, delivered>>

\* A port of 0 is assigned before the name is tried, and spent when it is refused.
Bind(s, ip, port) ==
  /\ state[s] = "new" /\ (port = 0 => nextPort < MaxPort)
  /\ LET name == [ip |-> ip, port |-> IF port = 0 THEN nextPort ELSE port] IN
     IF name \in DOMAIN table THEN UNCHANGED <<table, local, state>>
     ELSE /\ table' = Register(name, s) /\ local' = [local EXCEPT ![s] = name]
          /\ state' = [state EXCEPT ![s] = "open"]
  /\ nextPort' = IF port = 0 THEN nextPort + 1 ELSE nextPort
  /\ UNCHANGED <<inbox, got, delivered>>

\* The first send of an unbound socket takes the next port.
SendTo(s, dst) ==
  /\ IsOpen(s) /\ Len(delivered) < MaxSends
  /\ IF local[s] # None
     THEN Cross(table, local[s], dst) /\ UNCHANGED <<local, table, nextPort>>
     ELSE /\ nextPort < MaxPort /\ nextPort' = nextPort + 1
          /\ local' = [local EXCEPT ![s] = [ip |-> Any, port |-> nextPort]]
          /\ table' = Register(local'[s], s) /\ Cross(table', local'[s], dst)
  /\ UNCHANGED <<state, got>>

RecvFrom(s) ==
  /\ IsOpen(s) /\ inbox[s] # <<>>
  /\ inbox' = [inbox EXCEPT ![s] = Tail(@)] /\ got' = [got EXCEPT ![s] = Append(@, Head(inbox[s]))]
  /\ UNCHANGED <<local, state, table, nextPort, delivered>>

\* close: the name goes, if it is still this socket's.
Close(s) ==
  /\ IsOpen(s) /\ state' = [state EXCEPT ![s] = "closed"]
  /\ table' = [n \in {n \in DOMAIN table : n # local[s] \/ table[n] # s} |-> table[n]]
  /\ UNCHANGED <<local, inbox, nextPort, got, delivered>>

FabricInit ==
  /\ local = [s \in Sockets |-> None] /\ state = [s \in Sockets |-> "new"]
  /\ inbox = [s \in Sockets |-> <<>>] /\ table = <<>> /\ nextPort = FirstPort
  /\ got = [s \in Sockets |-> <<>>] /\ delivered = <<>>

FabricNext == \E s \in Sockets :
  \/ Open(s) \/ Close(s) \/ RecvFrom(s)
  \/ \E ip \in Hosts, port \in Ports \cup {0} : Bind(s, ip, port)
  \/ \E ip \in Hosts, port \in Ports \cup {FirstPort} : SendTo(s, [ip |-> ip, port |-> port])

FabricSpec == FabricInit /\ [][FabricNext]_fabricVars

----------------------------------------------------------------------------
(* Properties *)

Received(s) == got[s] \o inbox[s]
Holds(s, name) == local[s] # None /\ local[s].port = name.port /\ local[s].ip \in {name.ip, Any}

\* A datagram reaches one socket at most, one whose name its destination is,
\* and each socket receives in the order of the wire; one that crossed while
\* no assigned port had taken an explicit bind's name finds an open holder.
Reaches ==
  /\ \A s \in Sockets : \A i \in DOMAIN Received(s) :
       /\ Holds(s, Received(s)[i].dst)
       /\ \A j \in DOMAIN Received(s) : i < j => Received(s)[i].n < Received(s)[j].n
       /\ \A r \in Sockets \ {s} : \A j \in DOMAIN Received(r) : Received(r)[j].n # Received(s)[i].n
  /\ \A s \in Sockets : IsOpen(s) /\ local[s] # None /\ local[s].port < FirstPort =>
       local[s] \in DOMAIN table /\ table[local[s]] = s

\* A close cuts short what it races, and says so.
CloseCuts == ParkedCloseIsStale /\ CloseEndsCalls

\* Sockets release what they held and reach who holds the name.
SocketsHold == ClosedReleases /\ Reaches
=============================================================================
