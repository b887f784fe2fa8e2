---------------------------- MODULE Transport_proofs ---------------------------
(***************************************************************************)
(* The transport side of a host, proved.  The sockets of net/transport:    *)
(* what a close releases and says of the call it cuts short, and whom a    *)
(* datagram reaches.  A dialogue of FTP and the file it carries.  An       *)
(* exchange of HTTP: a message is read as it was written, or not at all.   *)
(***************************************************************************)
EXTENDS HostParts, FiniteSetTheorems, SequenceTheorems, WellFoundedInduction, TLAPS

-----------------------------------------------------------------------------
(* One host socket under two threads                                         *)

\* A timeout is a number of ticks or None.
TicksOrNone == None \notin Nat /\ Timeouts \subseteq Nat \cup {None}

\* The user is in a connect, from its guard to the store of the field.
Connects == {"connect", "connecting", "store"}

Places == {"idle", "connect", "connecting", "store", "operation", "operate", "wait", "head",
           "select", "parked", "awake", "capped"}
SocketUsers == [at : Places, op : {"connect", "operation", "wait", None}, sock : Nat \cup {None},
          limit : Nat \cup {None}, caught : BOOLEAN]
SocketClosers == [at : {"open", "flagged", "taken", "closed"}, sock : Nat \cup {None}]

UserTyped ==
  /\ caller \in SocketUsers /\ closer \in SocketClosers
  /\ sock \in Nat \cup {None} /\ open \subseteq Nat /\ clock \in Nat
  /\ shut \in BOOLEAN /\ (shut <=> closer.at # "open")

\* A parked wait that a close has met cannot leave but through the check of the flag.
CaughtParked == caller.caught => shut /\ caller.at \in {"parked", "awake", "capped"}

\* Who has a descriptor the kernel has open: the field, a connect before its store, or the close.
Connected ==
  /\ caller.at \in Connects => caller.op = "connect" /\ sock = None
  /\ caller.at = "connect" => open = {}
Owned ==
  \A d \in open : \/ d = sock
                  \/ caller.at \in {"connecting", "store"} /\ d = caller.sock
                  \/ closer.at = "taken" /\ d = closer.sock

\* Nothing but a connect in progress puts a descriptor behind the field the close has emptied.
FieldEmptied == closer.at \in {"taken", "closed"} /\ caller.op # "connect" => sock = None

SocketInv == UserTyped /\ CaughtParked /\ Connected /\ Owned /\ FieldEmptied

LEMMA SocketInit == Socket!Init => SocketInv
<1> SUFFICES ASSUME Socket!Init
             PROVE  SocketInv
  OBVIOUS
<1>1. UserTyped
  BY DEF Socket!Init, UserTyped, SocketUsers, Places, SocketClosers
<1>2. CaughtParked /\ Connected /\ Owned /\ FieldEmptied
  BY DEF Socket!Init, CaughtParked, Connects, Connected, Owned, FieldEmptied
<1> QED
  BY <1>1, <1>2 DEF SocketInv

LEMMA Returned ==
    ASSUME UserTyped, NEW a, Socket!Return(a)
    PROVE  caller' \in SocketUsers /\ caller'.at = "idle" /\ caller'.op = caller.op /\ ~caller'.caught
  BY DEF UserTyped, SocketUsers, Places, Socket!Return

LEMMA Moved ==
    ASSUME UserTyped, NEW step \in Places, Socket!At(step)
    PROVE  /\ caller' \in SocketUsers /\ caller'.at = step
           /\ caller'.op = caller.op /\ caller'.sock = caller.sock /\ caller'.caught = caller.caught
  BY DEF UserTyped, SocketUsers, Socket!At

\* A step of the user that is in no connect and leaves what is open.
LEMMA AsideKeeps ==
    ASSUME SocketInv, caller' \in SocketUsers, caller.at \notin Connects, caller'.at \notin Connects,
           caller'.op = caller.op, UNCHANGED <<shut, sock, open, closer, clock>>, CaughtParked'
    PROVE  SocketInv'
  BY DEF SocketInv, UserTyped, Connects, Connected, Owned, FieldEmptied

\* A call begins: a connect only where nothing is open.
LEMMA SocketCallKeeps ==
    ASSUME TicksOrNone, SocketInv,
           NEW op \in {"connect", "operation", "wait"}, NEW t \in Timeouts, Socket!Call(op, t)
    PROVE  SocketInv'
<1>1. UNCHANGED <<shut, sock, open, closer, clock>> /\ caller.at = "idle" /\ UserTyped
  BY DEF Socket!Call, SocketInv
<1>2. CASE \E a : Socket!Return(a)
  BY <1>1, <1>2, Returned, AsideKeeps DEF CaughtParked, Connects
<1>3. CASE ~\E a : Socket!Return(a)
  <2>1. /\ ~shut /\ (op = "connect" => sock = None)
        /\ caller' = [at |-> op, op |-> op, sock |-> None, caught |-> FALSE,
                    limit |-> IF t = None THEN None ELSE clock + t]
    BY <1>3 DEF Socket!Call
  <2>2. caller' \in SocketUsers /\ caller'.at = op /\ caller'.op = op /\ ~caller'.caught
    BY <1>1, <2>1 DEF TicksOrNone, UserTyped, SocketUsers, Places
  <2>3. closer.at = "open"
    BY <1>1, <2>1 DEF UserTyped, SocketClosers
  <2>4. UserTyped' /\ CaughtParked'
    BY <1>1, <2>2 DEF UserTyped, CaughtParked
  <2>5. \A d \in open : d = sock
    BY <1>1, <2>3 DEF SocketInv, Owned
  <2>6. op = "connect" => open = {}
    BY <1>1, <2>1, <2>5 DEF UserTyped, TicksOrNone
  <2>7. Connected'
    BY <1>1, <2>1, <2>2, <2>6 DEF Connected, Connects
  <2>8. Owned' /\ FieldEmptied'
    BY <1>1, <2>3, <2>5 DEF Owned, FieldEmptied
  <2> QED
    BY <2>4, <2>7, <2>8 DEF SocketInv
<1> QED
  BY <1>2, <1>3

\* The steps of the thread that uses the socket.
LEMMA UserKeeps ==
    ASSUME TicksOrNone, SocketInv, Socket!UserStep
    PROVE  SocketInv'
<1> USE DEF Connects
<1>1. UserTyped
  BY DEF SocketInv
<1>2. ASSUME NEW op \in {"operation", "wait"}, NEW step \in {"operate", "head"}, Socket!Live(op, step)
      PROVE  SocketInv'
  <2>1. CASE \E a : Socket!Return(a)
    BY <1>1, <1>2, <2>1, Returned, AsideKeeps DEF Socket!Live, Socket!Fixed, CaughtParked
  <2>2. CASE ~\E a : Socket!Return(a)
    <3>1. caller' = [caller EXCEPT !.at = step, !.sock = sock]
      BY <1>2, <2>2 DEF Socket!Live
    <3>2. caller' \in SocketUsers /\ caller'.at = step /\ caller'.op = caller.op /\ caller'.caught = caller.caught
      BY <1>1, <3>1 DEF UserTyped, SocketUsers, Places
    <3>3. ~caller.caught
      BY <1>2 DEF Socket!Live, SocketInv, CaughtParked
    <3> QED
      BY <1>2, <3>2, <3>3, AsideKeeps DEF Socket!Live, Socket!Fixed, CaughtParked
  <2> QED
    BY <2>1, <2>2
<1>3. CASE Socket!Operate
  <2>1. \E a : Socket!Return(a)
    BY <1>3 DEF Socket!Operate
  <2> QED
    BY <1>1, <1>3, <2>1, Returned, AsideKeeps DEF Socket!Operate, CaughtParked
<1>4. CASE Socket!MakeSocket
  <2>1. open = {} /\ sock = None /\ caller.op = "connect" /\ ~caller.caught
    BY <1>4 DEF Socket!MakeSocket, SocketInv, Connected, CaughtParked
  <2>2. Cardinality(open) + 1 = 1
    BY <2>1, FS_EmptySet
  <2>3. open' = {1} /\ caller' = [caller EXCEPT !.at = "connecting", !.sock = 1]
    BY <1>4, <2>1, <2>2 DEF Socket!MakeSocket, Socket!Cardinality, Cardinality
  <2>4. /\ caller' \in SocketUsers /\ caller'.at = "connecting" /\ caller'.sock = 1
        /\ caller'.op = caller.op /\ caller'.caught = caller.caught
    BY <1>1, <2>3 DEF UserTyped, SocketUsers, Places
  <2>5. UNCHANGED <<shut, sock, closer, clock>>
    BY <1>4 DEF Socket!MakeSocket
  <2>6. UserTyped' /\ CaughtParked'
    BY <1>1, <2>1, <2>3, <2>4, <2>5 DEF UserTyped, CaughtParked
  <2>7. Connected' /\ Owned' /\ FieldEmptied'
    BY <2>1, <2>3, <2>4, <2>5 DEF Connected, Owned, FieldEmptied
  <2> QED
    BY <2>6, <2>7 DEF SocketInv
<1>5. CASE Socket!Connecting
  <2>1. UNCHANGED <<shut, sock, closer, clock>> /\ caller.at = "connecting"
    BY <1>5 DEF Socket!Connecting
  <2>2. sock = None /\ caller.op = "connect" /\ ~caller.caught
    BY <2>1 DEF SocketInv, Connected, CaughtParked
  <2>3. CASE Socket!At("store") /\ UNCHANGED open
    <3>1. /\ caller' \in SocketUsers /\ caller'.at = "store"
          /\ caller'.op = caller.op /\ caller'.sock = caller.sock /\ caller'.caught = caller.caught
      BY <1>1, <2>3, Moved DEF Places
    <3>2. UserTyped' /\ CaughtParked'
      BY <1>1, <2>1, <2>2, <2>3, <3>1 DEF UserTyped, CaughtParked
    <3>3. Connected' /\ Owned' /\ FieldEmptied'
      BY <2>1, <2>2, <2>3, <3>1 DEF SocketInv, Connected, Owned, FieldEmptied
    <3> QED
      BY <3>2, <3>3 DEF SocketInv
  <2>4. CASE (\E a : Socket!Return(a)) /\ open' = open \ {caller.sock}
    <3>1. caller' \in SocketUsers /\ caller'.at = "idle" /\ caller'.op = caller.op /\ ~caller'.caught
      BY <1>1, <2>4, Returned
    <3>2. UserTyped' /\ CaughtParked'
      BY <1>1, <2>1, <2>2, <2>4, <3>1 DEF UserTyped, CaughtParked
    <3>3. Connected' /\ Owned' /\ FieldEmptied'
      BY <2>1, <2>2, <2>4, <3>1 DEF SocketInv, Connected, Owned, FieldEmptied
    <3> QED
      BY <3>2, <3>3 DEF SocketInv
  <2> QED
    BY <1>5, <2>3, <2>4 DEF Socket!Connecting
<1>6. CASE Socket!Store
  <2>1. UNCHANGED <<shut, open, closer, clock>> /\ caller.at = "store" /\ sock' = caller.sock /\ Socket!Return("done")
    BY <1>6 DEF Socket!Store
  <2>2. caller' \in SocketUsers /\ caller'.at = "idle" /\ caller'.op = caller.op /\ ~caller'.caught
    BY <1>1, <2>1, Returned
  <2>3. sock = None /\ caller.op = "connect" /\ caller.sock \in Nat \cup {None}
    BY <1>1, <2>1 DEF SocketInv, Connected, UserTyped, SocketUsers
  <2>4. UserTyped' /\ CaughtParked'
    BY <1>1, <2>1, <2>2, <2>3 DEF UserTyped, CaughtParked
  <2>5. \A d \in open : d \in Nat
    BY <1>1 DEF UserTyped
  <2>6. Connected' /\ FieldEmptied'
    BY <2>1, <2>2, <2>3 DEF Connected, FieldEmptied
  <2>7. Owned'
    BY <2>1, <2>2, <2>3, <2>5 DEF SocketInv, Owned, TicksOrNone
  <2> QED
    BY <2>4, <2>6, <2>7 DEF SocketInv
<1>7. CASE Socket!WaitHead \/ Socket!Select
  <2>1. /\ UNCHANGED <<shut, sock, open, closer, clock>> /\ caller.at \in {"head", "select"}
        /\ (\E a : Socket!Return(a)) \/ Socket!At("select") \/ Socket!At("parked")
    BY <1>7 DEF Socket!WaitHead, Socket!Select, Socket!Fixed
  <2>2. ~caller.caught
    BY <2>1 DEF SocketInv, CaughtParked
  <2>3. /\ caller' \in SocketUsers /\ caller'.op = caller.op /\ ~caller'.caught
        /\ caller'.at \in {"idle", "select", "parked"}
    BY <1>1, <2>1, <2>2, Returned, Moved DEF Places
  <2> QED
    BY <2>1, <2>3, AsideKeeps DEF CaughtParked
<1>8. CASE Socket!ParkEnds
  <2>1. /\ UNCHANGED <<shut, sock, open, closer, clock>> /\ caller.at = "parked"
        /\ Socket!At("awake") \/ Socket!At("capped")
    BY <1>8 DEF Socket!ParkEnds, Socket!Fixed
  <2>2. /\ caller' \in SocketUsers /\ caller'.op = caller.op /\ caller'.caught = caller.caught
        /\ caller'.at \in {"awake", "capped"}
    BY <1>1, <2>1, Moved DEF Places
  <2> QED
    BY <2>1, <2>2, AsideKeeps DEF SocketInv, CaughtParked
<1>9. CASE Socket!Wake
  <2>1. /\ UNCHANGED <<shut, sock, open, closer, clock>> /\ caller.at \in {"awake", "capped"}
        /\ (\E a : Socket!Return(a)) \/ (~shut /\ Socket!At("head"))
    BY <1>9 DEF Socket!Wake, Socket!Fixed
  <2>2. ~shut => ~caller.caught
    BY DEF SocketInv, CaughtParked
  <2>3. /\ caller' \in SocketUsers /\ caller'.op = caller.op /\ ~caller'.caught
        /\ caller'.at \in {"idle", "head"}
    BY <1>1, <2>1, <2>2, Returned, Moved DEF Places
  <2> QED
    BY <2>1, <2>3, AsideKeeps DEF CaughtParked
<1> QED
  BY <1>2, <1>3, <1>4, <1>5, <1>6, <1>7, <1>8, <1>9 DEF Socket!UserStep

\* The three steps of the close, and what the environment does.
LEMMA CloserKeeps ==
    ASSUME SocketInv, Socket!CloseFlag \/ Socket!CloseStep \/ Socket!Peer \/ Socket!Tick \/ UNCHANGED Socket!vars
    PROVE  SocketInv'
<1>1. CASE Socket!CloseFlag
  <2>1. /\ caller' \in SocketUsers /\ caller'.at = caller.at /\ caller'.op = caller.op /\ caller'.sock = caller.sock
        /\ caller'.caught = (caller.at = "parked")
    BY <1>1 DEF Socket!CloseFlag, SocketInv, UserTyped, SocketUsers
  <2>2. UserTyped' /\ CaughtParked'
    BY <1>1, <2>1 DEF Socket!CloseFlag, SocketInv, UserTyped, SocketClosers, CaughtParked
  <2>3. Connected' /\ Owned' /\ FieldEmptied'
    BY <1>1, <2>1 DEF Socket!CloseFlag, SocketInv, Connects, Connected, Owned, FieldEmptied
  <2> QED
    BY <2>2, <2>3 DEF SocketInv
<1>2. CASE Socket!CloseField
  <2>1. /\ closer.at = "flagged" /\ closer'.at = "taken" /\ closer'.sock = sock /\ sock' = None
        /\ UNCHANGED <<shut, open, caller, clock>>
    BY <1>2 DEF Socket!CloseField
  <2>2. UserTyped' /\ CaughtParked'
    BY <1>2, <2>1 DEF Socket!CloseField, SocketInv, UserTyped, SocketClosers, CaughtParked
  <2>3. Connected' /\ Owned' /\ FieldEmptied'
    BY <2>1 DEF SocketInv, Connects, Connected, Owned, FieldEmptied
  <2> QED
    BY <2>2, <2>3 DEF SocketInv
<1>3. CASE Socket!CloseFd
  <2>1. /\ closer.at = "taken" /\ closer'.at = "closed" /\ closer' \in SocketClosers
        /\ open' = open \ {closer.sock} /\ UNCHANGED <<shut, sock, caller, clock>>
    BY <1>3 DEF Socket!CloseFd, SocketInv, UserTyped, SocketClosers
  <2>2. UserTyped' /\ CaughtParked'
    BY <2>1 DEF SocketInv, UserTyped, CaughtParked
  <2>3. Connected' /\ Owned' /\ FieldEmptied'
    BY <2>1 DEF SocketInv, Connects, Connected, Owned, FieldEmptied
  <2> QED
    BY <2>2, <2>3 DEF SocketInv
<1>4. CASE Socket!Peer \/ Socket!Tick \/ UNCHANGED Socket!vars
  <2>1. UNCHANGED <<shut, sock, open, caller, closer>> /\ (clock' = clock \/ clock' = clock + 1)
    BY <1>4 DEF Socket!Peer, Socket!Tick, Socket!vars
  <2> QED
    BY <2>1 DEF SocketInv, UserTyped, CaughtParked, Connects, Connected, Owned, FieldEmptied
<1> QED
  BY <1>1, <1>2, <1>3, <1>4 DEF Socket!CloseStep

LEMMA SocketKeeps ==
    ASSUME TicksOrNone, SocketInv, [Socket!Next]_(Socket!vars)
    PROVE  SocketInv'
  BY SocketCallKeeps, UserKeeps, CloserKeeps DEF Socket!Next

LEMMA SocketSafe ==
    ASSUME TicksOrNone
    PROVE  Socket!Spec => []SocketInv
  BY SocketInit, SocketKeeps, PTL DEF Socket!Spec

LEMMA SocketReleases ==
    ASSUME TicksOrNone, SocketInv
    PROVE  Socket!ClosedReleases
<1>1. ASSUME closer.at = "closed", caller.at = "idle", caller.op # "connect"
      PROVE  open = {}
  <2>1. sock = None
    BY <1>1 DEF SocketInv, FieldEmptied
  <2>2. \A d \in open : d = None
    BY <1>1, <2>1 DEF SocketInv, Owned
  <2> QED
    BY <1>1, <2>2 DEF SocketInv, UserTyped, TicksOrNone
<1> QED
  BY <1>1 DEF Socket!ClosedReleases

\* The close of hostsocket.py lets go of what the socket held: when it has ended and no connect
\* was under way, the kernel has no descriptor of it open.
THEOREM CloseReleasesAll ==
    ASSUME TicksOrNone
    PROVE  Socket!Spec => []Socket!ClosedReleases
  BY SocketReleases, SocketSafe, PTL

LEMMA ParkedStep ==
    ASSUME TicksOrNone, SocketInv, [Socket!Next]_(Socket!vars)
    PROVE  [caller.caught /\ caller'.at = "idle" => answer' = "StaleHandle"]_(Socket!vars)
<1>1. SUFFICES ASSUME caller.caught, caller'.at = "idle", Socket!Next
               PROVE  answer' = "StaleHandle"
  OBVIOUS
<1>2. shut /\ caller.at \in {"parked", "awake", "capped"}
  BY <1>1 DEF SocketInv, CaughtParked
<1>3. \/ Socket!Wake
      \/ caller'.at # "idle"
  BY <1>1, <1>2 DEF SocketInv, UserTyped, SocketUsers, Socket!Next, Socket!UserStep, Socket!CloseStep, Socket!Call, Socket!Live, Socket!Operate,
     Socket!MakeSocket, Socket!Connecting, Socket!Store, Socket!WaitHead, Socket!Select, Socket!ParkEnds, Socket!CloseFlag, Socket!CloseField, Socket!CloseFd,
     Socket!Peer, Socket!Tick, Socket!Fixed, Socket!At
<1> QED
  BY <1>1, <1>2, <1>3 DEF Socket!Wake, Socket!Return

\* A wait that was parked when its socket was closed answers StaleHandle, never the readiness its
\* park saw: the check of the flag after the select is the only way out.
THEOREM ParkedIsToldStale ==
    ASSUME TicksOrNone
    PROVE  Socket!Spec => Socket!ParkedCloseIsStale
  BY ParkedStep, SocketSafe, PTL DEF Socket!Spec, Socket!ParkedCloseIsStale

----------------------------------------------------------------------------
(* The datagram fabric *)

BoundNames == [ip : Addresses \cup {Any}, port : Nat]
Datagrams == [src : BoundNames, dst : BoundNames, n : Nat]

\* Ports are numbers; None is no socket and no name.
NamesApart == None \notin Sockets /\ None \notin BoundNames /\ Ports \subseteq Nat /\ FirstPort \in Nat

FabricTyped ==
  /\ local \in [Sockets -> BoundNames \cup {None}]
  /\ state \in [Sockets -> {"new", "open", "closed"}]
  /\ inbox \in [Sockets -> Seq(Datagrams)] /\ taken \in [Sockets -> Seq(Datagrams)]
  /\ delivered \in Seq(Datagrams)
  /\ nextPort \in Nat /\ nextPort >= FirstPort
  /\ table \in [DOMAIN table -> Sockets] /\ DOMAIN table \subseteq BoundNames

\* A name in the table is its socket's own, and a socket without a face yet has none.
NamesOwn ==
  /\ \A name \in DOMAIN table : local[table[name]] = name
  /\ \A s \in Sockets : state[s] = "new" => local[s] = None

\* What every received datagram keeps to: it was on the wire, for a name of the one that has it,
\* after what that one had before, and nobody else has it.
Delivered ==
  \A s \in Sockets : \A i \in DOMAIN Socket!Received(s) :
    /\ Socket!Holds(s, Socket!Received(s)[i].dst)
    /\ Socket!Received(s)[i].n < Len(delivered)
    /\ \A j \in DOMAIN Socket!Received(s) : i < j => Socket!Received(s)[i].n < Socket!Received(s)[j].n
    /\ \A r \in Sockets \ {s} : \A j \in DOMAIN Socket!Received(r) : Socket!Received(r)[j].n # Socket!Received(s)[i].n

\* An explicit bind below the assigned ports holds its name until it is closed.
BoundHolds ==
  \A s \in Sockets : Socket!IsOpen(s) /\ local[s] # None /\ local[s].port < FirstPort =>
    local[s] \in DOMAIN table /\ table[local[s]] = s

FabricInv == FabricTyped /\ NamesOwn /\ Delivered /\ BoundHolds

LEMMA FabricInitHolds ==
    ASSUME NamesApart, Socket!FabricInit
    PROVE  FabricInv
<1>1. FabricTyped /\ NamesOwn
  BY DEF NamesApart, Socket!FabricInit, FabricTyped, NamesOwn
<1>2. \A s \in Sockets : DOMAIN Socket!Received(s) = {}
  BY DEF Socket!FabricInit, Socket!Received
<1>3. Delivered
  BY <1>2 DEF Delivered
<1>4. BoundHolds
  BY DEF Socket!FabricInit, BoundHolds
<1> QED
  BY <1>1, <1>3, <1>4 DEF FabricInv

LEMMA ReceivedTyped ==
    ASSUME FabricTyped, NEW s \in Sockets
    PROVE  Socket!Received(s) \in Seq(Datagrams)
  BY DEF FabricTyped, Socket!Received

\* Who has nothing received has no name to be held to.
LEMMA NamelessHasNothing ==
    ASSUME FabricTyped, Delivered, NEW s \in Sockets, local[s] = None
    PROVE  DOMAIN Socket!Received(s) = {}
  BY DEF Delivered, Socket!Holds

\* A step that delivers nothing, and renames nobody that has a name.
LEMMA QuietDelivers ==
    ASSUME FabricTyped, Delivered, Len(delivered') \in Nat, Len(delivered) <= Len(delivered'),
           \A s \in Sockets : UNCHANGED Socket!Received(s),
           \A s \in Sockets : local[s] # None => UNCHANGED local[s]
    PROVE  Delivered'
<1> SUFFICES ASSUME NEW s \in Sockets, NEW i \in DOMAIN Socket!Received(s)
             PROVE  /\ Socket!Holds(s, Socket!Received(s)[i].dst)'
                    /\ Socket!Received(s)[i].n < Len(delivered')
                    /\ \A j \in DOMAIN Socket!Received(s) : i < j => Socket!Received(s)[i].n < Socket!Received(s)[j].n
                    /\ \A r \in Sockets \ {s} : \A j \in DOMAIN Socket!Received(r) :
                         Socket!Received(r)[j].n # Socket!Received(s)[i].n
  BY DEF Delivered
<1>1. Socket!Holds(s, Socket!Received(s)[i].dst)
  BY DEF Delivered
<1>2. UNCHANGED local[s] /\ UNCHANGED Socket!Received(s)
  BY <1>1 DEF Socket!Holds
<1>3. Socket!Holds(s, Socket!Received(s)[i].dst)'
  BY <1>1, <1>2 DEF Socket!Holds
<1>4. Socket!Received(s)[i].n \in Nat /\ Len(delivered) \in Nat
  <2>1. Socket!Received(s) \in Seq(Datagrams) /\ Len(delivered) \in Nat
    BY ReceivedTyped DEF FabricTyped
  <2>2. Socket!Received(s)[i] \in Datagrams
    BY <2>1
  <2> QED
    BY <2>1, <2>2 DEF Datagrams
<1> QED
  BY <1>3, <1>4 DEF Delivered

LEMMA ConcatAppend ==
    ASSUME NEW g \in Seq(Datagrams), NEW w \in Seq(Datagrams), NEW m \in Datagrams
    PROVE  g \o Append(w, m) = Append(g \o w, m)
  OBVIOUS

\* What is taken off the front of what waits goes to the end of what was got.
LEMMA ConcatMoves ==
    ASSUME NEW g \in Seq(Datagrams), NEW w \in Seq(Datagrams), w # <<>>
    PROVE  Append(g, Head(w)) \o Tail(w) = g \o w
  OBVIOUS

\* One datagram of the wire comes to one socket, for a name it has.
LEMMA OneDelivers ==
    ASSUME FabricTyped, Delivered, NEW to \in Sockets, NEW m \in Datagrams,
           m.n = Len(delivered), Len(delivered') = Len(delivered) + 1,
           Socket!Received(to)' = Append(Socket!Received(to), m),
           \A s \in Sockets \ {to} : UNCHANGED Socket!Received(s),
           \A s \in Sockets : local[s] # None => UNCHANGED local[s],
           Socket!Holds(to, m.dst)'
    PROVE  Delivered'
<1>1. \A s \in Sockets : Socket!Received(s) \in Seq(Datagrams)
  BY ReceivedTyped
<1>2. Len(delivered) \in Nat
  BY DEF FabricTyped
<1>3. \A s \in Sockets : \A i \in DOMAIN Socket!Received(s) : Socket!Received(s)[i] \in Datagrams
  BY <1>1
<1>4. \A s \in Sockets : \A i \in DOMAIN Socket!Received(s) : Socket!Holds(s, Socket!Received(s)[i].dst)'
  <2> SUFFICES ASSUME NEW s \in Sockets, NEW i \in DOMAIN Socket!Received(s)
               PROVE  Socket!Holds(s, Socket!Received(s)[i].dst)'
    OBVIOUS
  <2>1. Socket!Holds(s, Socket!Received(s)[i].dst) /\ UNCHANGED local[s]
    BY DEF Delivered, Socket!Holds
  <2>2. CASE s = to
    BY <1>1, <2>1, <2>2 DEF Socket!Holds
  <2>3. CASE s # to
    BY <2>1, <2>3 DEF Socket!Holds
  <2> QED
    BY <2>2, <2>3
<1>5. ASSUME NEW s \in Sockets, NEW i \in DOMAIN Socket!Received(s)'
      PROVE  \/ i \in DOMAIN Socket!Received(s) /\ Socket!Received(s)'[i] = Socket!Received(s)[i]
             \/ s = to /\ i = Len(Socket!Received(s)) + 1 /\ Socket!Received(s)'[i] = m
  BY <1>1
<1> QED
  BY <1>2, <1>3, <1>4, <1>5 DEF Delivered, Datagrams

\* Who a name is looked up to is open and has the name, or the wildcard at its port.
LEMMA LookupFinds ==
    ASSUME NamesApart, NEW t, NEW dst \in BoundNames, Socket!Lookup(t, dst) # None
    PROVE  \E name \in DOMAIN t :
             /\ Socket!Lookup(t, dst) = t[name]
             /\ name = dst \/ name = [ip |-> Any, port |-> dst.port]
<1>1. CASE dst \in DOMAIN t /\ Socket!IsOpen(t[dst])
  BY <1>1 DEF Socket!Lookup
<1>2. CASE ~(dst \in DOMAIN t /\ Socket!IsOpen(t[dst])) /\ Socket!Wild(t, dst) # {}
  <2>1. (CHOOSE name \in Socket!Wild(t, dst) : TRUE) \in Socket!Wild(t, dst)
    BY <1>2
  <2>2. Socket!Lookup(t, dst) = t[CHOOSE name \in Socket!Wild(t, dst) : TRUE]
    BY <1>2 DEF Socket!Lookup
  <2> QED
    BY <2>1, <2>2 DEF Socket!Wild
<1> QED
  BY <1>1, <1>2 DEF Socket!Lookup

\* What crosses with a table of names that are its sockets' own reaches a holder of its name.
LEMMA CrossDelivers ==
    ASSUME NamesApart, FabricTyped, Delivered, NEW t, NEW src \in BoundNames, NEW dst \in BoundNames,
           Socket!Cross(t, src, dst), UNCHANGED taken,
           \A name \in DOMAIN t : t[name] \in Sockets /\ local'[t[name]] = name,
           \A s \in Sockets : local[s] # None => UNCHANGED local[s]
    PROVE  /\ Delivered'
           /\ delivered' \in Seq(Datagrams) /\ inbox' \in [Sockets -> Seq(Datagrams)]
<1>0. Len(delivered) \in Nat
  BY DEF FabricTyped
<1>1. PICK m \in Datagrams : m = [src |-> src, dst |-> dst, n |-> Len(delivered)]
  BY <1>0 DEF Datagrams
<1>2. /\ delivered' = Append(delivered, m)
      /\ inbox' = IF Socket!Lookup(t, dst) = None THEN inbox
                  ELSE [inbox EXCEPT ![Socket!Lookup(t, dst)] = Append(@, m)]
  BY <1>1 DEF Socket!Cross
<1>3. /\ delivered' \in Seq(Datagrams) /\ Len(delivered') = Len(delivered) + 1
      /\ Len(delivered) \in Nat /\ Len(delivered') \in Nat
  BY <1>1, <1>2 DEF FabricTyped
<1>4. CASE Socket!Lookup(t, dst) = None
  <2>1. inbox' = inbox
    BY <1>2, <1>4
  <2>2. \A s \in Sockets : UNCHANGED Socket!Received(s)
    BY <2>1 DEF Socket!Received
  <2>3. Len(delivered) <= Len(delivered')
    BY <1>3
  <2>4. Delivered'
    BY <1>3, <2>2, <2>3, QuietDelivers
  <2> QED
    BY <1>3, <2>1, <2>4 DEF FabricTyped
<1>5. CASE Socket!Lookup(t, dst) # None
  <2>1. PICK name \in DOMAIN t :
          /\ Socket!Lookup(t, dst) = t[name]
          /\ name = dst \/ name = [ip |-> Any, port |-> dst.port]
    BY <1>5, LookupFinds
  <2>2. PICK to \in Sockets : to = t[name]
    OBVIOUS
  <2>3. inbox' = [inbox EXCEPT ![to] = Append(@, m)]
    BY <1>2, <1>5, <2>1, <2>2
  <2>4. inbox' \in [Sockets -> Seq(Datagrams)]
    BY <2>3 DEF FabricTyped
  <2>5. name \in BoundNames /\ name.port = dst.port /\ name.ip \in {dst.ip, Any}
    BY <2>1 DEF BoundNames
  <2>6. m.n = Len(delivered) /\ m.dst = dst
    BY <1>1
  <2>7. Socket!Holds(to, m.dst)'
    BY <2>2, <2>5, <2>6 DEF Socket!Holds, NamesApart
  <2>8. /\ Socket!Received(to)' = taken[to] \o Append(inbox[to], m)
        /\ taken[to] \in Seq(Datagrams) /\ inbox[to] \in Seq(Datagrams)
    BY <2>3 DEF Socket!Received, FabricTyped
  <2>9. Socket!Received(to)' = Append(Socket!Received(to), m)
    <3>1. taken[to] \o Append(inbox[to], m) = Append(taken[to] \o inbox[to], m)
      BY <2>8, ConcatAppend
    <3>2. Socket!Received(to) = taken[to] \o inbox[to]
      BY DEF Socket!Received
    <3> QED
      BY <2>8, <3>1, <3>2
  <2>10. \A s \in Sockets \ {to} : UNCHANGED Socket!Received(s)
    BY <2>3 DEF Socket!Received, FabricTyped
  <2>11. Delivered'
    BY <1>3, <2>6, <2>7, <2>9, <2>10, OneDelivers
  <2> QED
    BY <1>3, <2>4, <2>11
<1> QED
  BY <1>4, <1>5

\* A socket without a name takes one, and the table has it.
TakesName(s, name) ==
  local[s] = None /\ local' = [local EXCEPT ![s] = name] /\ table' = Socket!Register(name, s)

\* The table is of its sockets' own names again, with one name more or one replaced.
NameTaken(s, name) ==
  /\ table' \in [DOMAIN table' -> Sockets] /\ DOMAIN table' \subseteq BoundNames
  /\ local' \in [Sockets -> BoundNames \cup {None}]
  /\ \A n \in DOMAIN table' : table'[n] \in Sockets /\ local'[table'[n]] = n
  /\ \A r \in Sockets : local[r] # None => UNCHANGED local[r]
  /\ local'[s] = name /\ name \in DOMAIN table' /\ table'[name] = s
  /\ \A n \in DOMAIN table : n # name => n \in DOMAIN table' /\ table'[n] = table[n]

LEMMA RegisterKeeps ==
    ASSUME NamesApart, FabricTyped, NamesOwn, NEW s \in Sockets, NEW name \in BoundNames,
           TakesName(s, name)
    PROVE  NameTaken(s, name)
<1> USE DEF TakesName
<1>1. \A n \in DOMAIN table : n \in BoundNames /\ table[n] \in Sockets /\ local[table[n]] = n
  BY DEF FabricTyped, NamesOwn
<1>2. /\ DOMAIN table' = DOMAIN table \cup {name}
      /\ \A n \in DOMAIN table' : table'[n] = IF n = name THEN s ELSE table[n]
      /\ table' = [n \in DOMAIN table' |-> table'[n]]
  BY DEF Socket!Register
<1>3. /\ local' \in [Sockets -> BoundNames \cup {None}] /\ local'[s] = name
      /\ \A r \in Sockets : r # s => local'[r] = local[r]
  BY DEF FabricTyped
<1>4. \A n \in DOMAIN table' : table'[n] \in Sockets /\ local'[table'[n]] = n
  <2> SUFFICES ASSUME NEW n \in DOMAIN table'
               PROVE  table'[n] \in Sockets /\ local'[table'[n]] = n
    OBVIOUS
  <2>1. CASE n = name
    BY <1>2, <1>3, <2>1
  <2>2. CASE n # name
    <3>1. n \in DOMAIN table /\ table'[n] = table[n] /\ local[table[n]] = n /\ table[n] \in Sockets
      BY <1>1, <1>2, <2>2
    <3>2. CASE table[n] = s
      BY <2>2, <3>1, <3>2 DEF NamesApart, FabricTyped
    <3>3. CASE table[n] # s
      BY <1>3, <3>1, <3>3
    <3> QED
      BY <3>2, <3>3
  <2> QED
    BY <2>1, <2>2
<1> QED
  BY <1>1, <1>2, <1>3, <1>4 DEF NameTaken

LEMMA SocketOpenKeeps ==
    ASSUME FabricInv, NEW s \in Sockets, Socket!Open(s)
    PROVE  FabricInv'
<1>1. local[s] = None
  BY DEF Socket!Open, FabricInv, NamesOwn
<1>2. FabricTyped' /\ NamesOwn'
  BY DEF Socket!Open, FabricInv, FabricTyped, NamesOwn
<1>3. Delivered'
  <2>1. UNCHANGED <<local, delivered>> /\ \A r \in Sockets : UNCHANGED Socket!Received(r)
    BY DEF Socket!Open, Socket!Received
  <2>2. Len(delivered') \in Nat /\ Len(delivered) <= Len(delivered')
    BY <2>1 DEF FabricInv, FabricTyped
  <2> QED
    BY <2>1, <2>2, QuietDelivers DEF FabricInv
<1>4. BoundHolds'
  BY <1>1 DEF Socket!Open, FabricInv, FabricTyped, BoundHolds, Socket!IsOpen
<1> QED
  BY <1>2, <1>3, <1>4 DEF FabricInv

LEMMA RecvFromKeeps ==
    ASSUME FabricInv, NEW s \in Sockets, Socket!RecvFrom(s)
    PROVE  FabricInv'
<1>1. /\ inbox' = [inbox EXCEPT ![s] = Tail(@)] /\ taken' = [taken EXCEPT ![s] = Append(@, Head(inbox[s]))]
      /\ inbox[s] # <<>> /\ inbox[s] \in Seq(Datagrams) /\ taken[s] \in Seq(Datagrams)
  BY DEF Socket!RecvFrom, FabricInv, FabricTyped
<1>2. Head(inbox[s]) \in Datagrams /\ Tail(inbox[s]) \in Seq(Datagrams)
  BY <1>1
<1>3. FabricTyped'
  BY <1>1, <1>2 DEF Socket!RecvFrom, FabricInv, FabricTyped
<1>4. \A r \in Sockets : UNCHANGED Socket!Received(r)
  <2> SUFFICES ASSUME NEW r \in Sockets
               PROVE  UNCHANGED Socket!Received(r)
    OBVIOUS
  <2>1. CASE r = s
    <3>1. inbox'[s] = Tail(inbox[s]) /\ taken'[s] = Append(taken[s], Head(inbox[s]))
      BY <1>1 DEF FabricInv, FabricTyped
    <3>2. taken'[s] \o inbox'[s] = taken[s] \o inbox[s]
      BY <1>1, <3>1, ConcatMoves
    <3> QED
      BY <2>1, <3>2 DEF Socket!Received
  <2>2. CASE r # s
    BY <1>1, <2>2 DEF Socket!Received, FabricInv, FabricTyped
  <2> QED
    BY <2>1, <2>2
<1>5. UNCHANGED <<local, state, table, delivered>>
  BY DEF Socket!RecvFrom
<1>6. Len(delivered') \in Nat /\ Len(delivered) <= Len(delivered')
  BY <1>5 DEF FabricInv, FabricTyped
<1>7. Delivered'
  BY <1>4, <1>5, <1>6, QuietDelivers DEF FabricInv
<1>8. NamesOwn' /\ BoundHolds'
  BY <1>5 DEF FabricInv, NamesOwn, BoundHolds, Socket!IsOpen
<1> QED
  BY <1>3, <1>7, <1>8 DEF FabricInv

LEMMA CloseKeeps ==
    ASSUME FabricInv, NEW s \in Sockets, Socket!Close(s)
    PROVE  FabricInv'
<1>1. /\ state' = [state EXCEPT ![s] = "closed"]
      /\ DOMAIN table' = {n \in DOMAIN table : n # local[s] \/ table[n] # s}
      /\ \A n \in DOMAIN table' : table'[n] = table[n]
      /\ table' = [n \in DOMAIN table' |-> table'[n]]
      /\ UNCHANGED <<local, inbox, nextPort, taken, delivered>>
  BY DEF Socket!Close
<1>2. \A n \in DOMAIN table' : n \in DOMAIN table /\ n \in BoundNames /\ table'[n] \in Sockets
  BY <1>1 DEF FabricInv, FabricTyped
<1>3. FabricTyped'
  BY <1>1, <1>2 DEF FabricInv, FabricTyped
<1>4. NamesOwn'
  BY <1>1, <1>2 DEF FabricInv, FabricTyped, NamesOwn
<1>5. Delivered'
  <2>1. \A r \in Sockets : UNCHANGED Socket!Received(r)
    BY <1>1 DEF Socket!Received
  <2>2. Len(delivered') \in Nat /\ Len(delivered) <= Len(delivered')
    BY <1>1 DEF FabricInv, FabricTyped
  <2> QED
    BY <1>1, <2>1, <2>2, QuietDelivers DEF FabricInv
<1>6. BoundHolds'
  <2> SUFFICES ASSUME NEW r \in Sockets, state'[r] = "open", local[r] # None, local[r].port < FirstPort
               PROVE  local[r] \in DOMAIN table' /\ table'[local[r]] = r
    BY <1>1 DEF BoundHolds, Socket!IsOpen
  <2>1. r # s /\ state[r] = "open"
    BY <1>1 DEF FabricInv, FabricTyped
  <2>2. local[r] \in DOMAIN table /\ table[local[r]] = r
    BY <2>1 DEF FabricInv, BoundHolds, Socket!IsOpen
  <2> QED
    BY <1>1, <2>1, <2>2
<1> QED
  BY <1>3, <1>4, <1>5, <1>6 DEF FabricInv

LEMMA BindKeeps ==
    ASSUME NamesApart, FabricInv, NEW s \in Sockets, NEW ip \in Addresses, NEW port \in Ports \cup {0},
           Socket!Bind(s, ip, port)
    PROVE  FabricInv'
<1>1. FabricTyped /\ NamesOwn /\ Delivered /\ BoundHolds /\ local[s] = None
  BY DEF Socket!Bind, FabricInv, NamesOwn
<1>2. nextPort \in Nat /\ nextPort' \in Nat /\ nextPort' >= FirstPort
  BY <1>1 DEF FabricTyped, Socket!Bind, NamesApart
<1>3. PICK name \in BoundNames : name = [ip |-> ip, port |-> IF port = 0 THEN nextPort ELSE port]
  <2>1. PICK number \in Nat : number = IF port = 0 THEN nextPort ELSE port
    BY <1>2 DEF NamesApart
  <2> QED
    BY <2>1 DEF BoundNames
<1>4. UNCHANGED <<inbox, taken, delivered>> /\ \A r \in Sockets : UNCHANGED Socket!Received(r)
  BY DEF Socket!Bind, Socket!Received
<1>5. Len(delivered') \in Nat /\ Len(delivered) <= Len(delivered')
  BY <1>1, <1>4 DEF FabricTyped
<1>6. CASE name \in DOMAIN table
  <2>1. UNCHANGED <<table, local, state>>
    BY <1>3, <1>6 DEF Socket!Bind
  <2>2. Delivered'
    BY <1>1, <1>4, <1>5, <2>1, QuietDelivers
  <2>3. FabricTyped' /\ NamesOwn' /\ BoundHolds'
    BY <1>1, <1>2, <1>4, <2>1 DEF FabricTyped, NamesOwn, BoundHolds, Socket!IsOpen
  <2> QED
    BY <2>2, <2>3 DEF FabricInv
<1>7. CASE name \notin DOMAIN table
  <2>1. /\ table' = Socket!Register(name, s) /\ local' = [local EXCEPT ![s] = name]
        /\ state' = [state EXCEPT ![s] = "open"]
    BY <1>3, <1>7 DEF Socket!Bind
  <2>2. NameTaken(s, name)
    BY <1>1, <2>1, RegisterKeeps DEF TakesName
  <2>3. Delivered'
    BY <1>1, <1>4, <1>5, <2>2, QuietDelivers DEF NameTaken
  <2>4. FabricTyped'
    BY <1>1, <1>2, <1>4, <2>1, <2>2 DEF FabricTyped, NameTaken
  <2>5. \A r \in Sockets : r # s => local'[r] = local[r] /\ state'[r] = state[r]
    BY <1>1, <2>1 DEF FabricTyped
  <2>6. NamesOwn'
    BY <1>1, <2>1, <2>2, <2>5 DEF NamesOwn, FabricTyped, NameTaken
  <2>7. BoundHolds'
    <3> SUFFICES ASSUME NEW r \in Sockets, state'[r] = "open", local'[r] # None,
                        local'[r].port < FirstPort
                 PROVE  local'[r] \in DOMAIN table' /\ table'[local'[r]] = r
      BY DEF BoundHolds, Socket!IsOpen
    <3>1. CASE r = s
      BY <2>2, <3>1 DEF NameTaken
    <3>2. CASE r # s
      BY <1>1, <1>7, <2>2, <2>5, <3>2 DEF BoundHolds, Socket!IsOpen, NameTaken
    <3> QED
      BY <3>1, <3>2
  <2> QED
    BY <2>3, <2>4, <2>6, <2>7 DEF FabricInv
<1> QED
  BY <1>6, <1>7

LEMMA SendToKeeps ==
    ASSUME NamesApart, FabricInv, NEW s \in Sockets, NEW dst \in BoundNames, Socket!SendTo(s, dst)
    PROVE  FabricInv'
<1>1. /\ FabricTyped /\ NamesOwn /\ Delivered /\ BoundHolds /\ nextPort \in Nat
      /\ UNCHANGED <<state, taken>> /\ state[s] = "open"
  BY DEF Socket!SendTo, FabricInv, FabricTyped, Socket!IsOpen
<1>2. CASE local[s] # None
  <2>1. Socket!Cross(table, local[s], dst) /\ UNCHANGED <<local, table, nextPort>>
    BY <1>2 DEF Socket!SendTo
  <2>2. \A name \in DOMAIN table : table[name] \in Sockets /\ local'[table[name]] = name
    BY <1>1, <2>1 DEF FabricTyped, NamesOwn
  <2>3. local[s] \in BoundNames
    BY <1>1, <1>2 DEF FabricTyped
  <2>4. Delivered' /\ delivered' \in Seq(Datagrams) /\ inbox' \in [Sockets -> Seq(Datagrams)]
    BY <1>1, <2>1, <2>2, <2>3, CrossDelivers
  <2>5. FabricTyped' /\ NamesOwn' /\ BoundHolds'
    BY <1>1, <2>1, <2>4 DEF FabricTyped, NamesOwn, BoundHolds, Socket!IsOpen
  <2> QED
    BY <2>4, <2>5 DEF FabricInv
<1>3. CASE local[s] = None
  <2>1. PICK name \in BoundNames : name = [ip |-> Any, port |-> nextPort]
    BY <1>1 DEF BoundNames
  <2>2. /\ local' = [local EXCEPT ![s] = name] /\ nextPort' = nextPort + 1
        /\ table' = Socket!Register(local'[s], s) /\ Socket!Cross(table', local'[s], dst)
    BY <1>3, <2>1 DEF Socket!SendTo
  <2>3. local'[s] = name
    BY <1>1, <2>2 DEF FabricTyped
  <2>4. NameTaken(s, name)
    BY <1>1, <1>3, <2>2, <2>3, RegisterKeeps DEF TakesName
  <2>5. Delivered' /\ delivered' \in Seq(Datagrams) /\ inbox' \in [Sockets -> Seq(Datagrams)]
    <3>1. Socket!Cross(table', name, dst)
      BY <2>2, <2>3
    <3> QED
      BY <1>1, <2>4, <3>1, CrossDelivers DEF NameTaken
  <2>6. nextPort' \in Nat /\ nextPort' >= FirstPort
    BY <1>1, <2>2 DEF FabricTyped, NamesApart
  <2>7. FabricTyped'
    BY <1>1, <2>4, <2>5, <2>6 DEF FabricTyped, NameTaken
  <2>8. \A r \in Sockets : r # s => local'[r] = local[r]
    BY <1>1, <2>2 DEF FabricTyped
  <2>9. NamesOwn'
    BY <1>1, <2>4, <2>8 DEF NamesOwn, FabricTyped, NameTaken
  <2>10. BoundHolds'
    <3> SUFFICES ASSUME NEW r \in Sockets, state[r] = "open", local'[r] # None,
                        local'[r].port < FirstPort
                 PROVE  local'[r] \in DOMAIN table' /\ table'[local'[r]] = r
      BY <1>1 DEF BoundHolds, Socket!IsOpen
    <3>1. name.port >= FirstPort /\ name.port \in Nat
      BY <1>1, <2>1 DEF FabricTyped
    <3>2. r # s
      BY <2>3, <3>1 DEF NamesApart
    <3>3. local[r] \in DOMAIN table /\ table[local[r]] = r /\ local[r] # name
      BY <1>1, <2>8, <3>1, <3>2 DEF BoundHolds, Socket!IsOpen, NamesApart
    <3> QED
      BY <2>4, <2>8, <3>2, <3>3 DEF NameTaken
  <2> QED
    BY <2>5, <2>7, <2>9, <2>10 DEF FabricInv
<1> QED
  BY <1>2, <1>3

LEMMA FabricKeeps ==
    ASSUME NamesApart, FabricInv, [Socket!FabricNext]_(Socket!fabricVars)
    PROVE  FabricInv'
<1>1. ASSUME Socket!FabricNext
      PROVE  FabricInv'
  <2>1. PICK s \in Sockets :
          \/ Socket!Open(s) \/ Socket!Close(s) \/ Socket!RecvFrom(s)
          \/ \E ip \in Addresses, port \in Ports \cup {0} : Socket!Bind(s, ip, port)
          \/ \E ip \in Addresses, port \in Ports \cup {FirstPort} : Socket!SendTo(s, [ip |-> ip, port |-> port])
    BY <1>1 DEF Socket!FabricNext
  <2>2. \A ip \in Addresses, port \in Ports \cup {FirstPort} : [ip |-> ip, port |-> port] \in BoundNames
    BY DEF BoundNames, NamesApart
  <2> QED
    BY <1>1, <2>1, <2>2, SocketOpenKeeps, CloseKeeps, RecvFromKeeps, BindKeeps, SendToKeeps
<1>2. ASSUME UNCHANGED Socket!fabricVars
      PROVE  FabricInv'
  <2>1. FabricTyped' /\ NamesOwn'
    BY <1>2 DEF Socket!fabricVars, FabricInv, FabricTyped, NamesOwn
  <2>2. Delivered'
    <3>1. /\ \A r \in Sockets : Socket!Received(r)' = Socket!Received(r)
          /\ \A r \in Sockets : \A name : Socket!Holds(r, name)' = Socket!Holds(r, name)
          /\ delivered' = delivered
      BY <1>2 DEF Socket!fabricVars, Socket!Received, Socket!Holds
    <3> QED
      BY <1>2, <3>1 DEF FabricInv, Delivered
  <2>3. BoundHolds'
    BY <1>2 DEF Socket!fabricVars, FabricInv, BoundHolds, Socket!IsOpen
  <2> QED
    BY <2>1, <2>2, <2>3 DEF FabricInv
<1> QED
  BY <1>1, <1>2

LEMMA FabricSafe ==
    ASSUME NamesApart
    PROVE  Socket!FabricSpec => []FabricInv
  BY FabricInitHolds, FabricKeeps, PTL DEF Socket!FabricSpec

LEMMA FabricReaches ==
    ASSUME FabricInv
    PROVE  Socket!Reaches
  BY DEF FabricInv, Delivered, BoundHolds, Socket!Reaches

\* The fabric of datagram.py gives a datagram to one socket at most, whose name its destination is,
\* in the order of the wire; and a bind below the assigned ports is found until it is closed,
\* whatever sockets are opened, bound, sent from and closed around it.
THEOREM DatagramsReach ==
    ASSUME NamesApart
    PROVE  Socket!FabricSpec => []Socket!Reaches
  BY FabricSafe, FabricReaches, PTL

-----------------------------------------------------------------------------
(* A dialogue of FTP, and the file on its data stream                        *)

\* A file is a sequence.
FileIsSeq == \E S : File \in Seq(S)

\* The chunks of the file behind the first a, up to the b-th.
Piece(a, b) == [i \in 1..(b - a) |-> File[a + i]]
Upto == 0..Len(File)

IsDialer(m) == m = [slot \in {"at", "verb", "name", "active", "end", "got", "result"} |-> m[slot]]
IsHost21(m) == m = [slot \in {"at", "verb", "name", "listener", "target", "end", "got"} |-> m[slot]]
IsEnd(e) == e = [slot \in {"state", "wire", "closed", "hands"} |-> e[slot]]
AreEnds(e) == e = [k \in 1..Len(e) |-> e[k]] /\ Len(e) \in Nat /\ \A k \in 1..Len(e) : IsEnd(e[k])

MovingPlaces == {"begin", "accept", "read", "write", "final"}
FtpTyped ==
  /\ IsDialer(dialer) /\ IsHost21(host21) /\ AreEnds(ends)
  /\ dialer.verb \in {"CONNECT", "NOOP", "SITE", "USER", "PASS", "QUIT", "RETR", "STOR"}
  /\ dialer.active \in BOOLEAN
  /\ host21.listener \in 1..Len(ends) \cup {None}
  /\ host21.at = "idle" => host21.got = <<>>
  /\ dialer.at \in {"endpoint", "wrap", "begin", "accept"} => dialer.got = <<>>
  /\ dialer.at \in {"endpoint", "wrap"} \cup MovingPlaces => dialer.verb \in {"RETR", "STOR"}
  /\ dialer.at \in {"wrap"} \cup MovingPlaces => dialer.end \in 1..Len(ends)

FilesWhole ==
  /\ \A n \in DOMAIN files : files[n] = File
  /\ dialer.result \in {None, File}

Code(code) == [code |-> code, end |-> None]
Silent == up = <<>> /\ down = <<>> /\ host21.at = "idle"
Asked(verb, arg) == up = <<[verb |-> verb, arg |-> arg]>> /\ down = <<>> /\ host21.at = "idle"
Says(r) == up = <<>> /\ down = <<r>> /\ host21.at = "idle"

InReply ==
  /\ dialer.verb \in {"CONNECT", "NOOP", "SITE", "USER", "PASS", "QUIT"}
  /\ \/ Asked(dialer.verb, None) /\ dialer.verb # "CONNECT"
     \/ /\ up = <<>> /\ \E r : down = <<r>>
        /\ host21.at = IF dialer.verb = "QUIT" THEN "over" ELSE "idle"

InGone ==
  \/ Asked("EOF", None)
  \/ up = <<>> /\ host21.at = "over"

InEndpoint ==
  IF dialer.active
  THEN /\ dialer.end \in 1..Len(ends) /\ ends[dialer.end] = Transfer!Listening
       /\ \/ Asked("PORT", dialer.end) /\ host21.listener # dialer.end
          \/ Says(Code(200)) /\ host21.listener = None /\ host21.target = dialer.end
  ELSE /\ dialer.end = None
       /\ \/ Asked("PASV", None)
          \/ \E k \in 1..Len(ends) : /\ Says([code |-> 227, end |-> k])
                                     /\ host21.listener = k /\ ends[k] = Transfer!Listening

\* The client waits for a handshake the server has not begun.
InWrap == Secure /\ ~dialer.active /\ Silent /\ "server" \notin ends[dialer.end].hands

\* Nothing was moved over the endpoint.
Untouched(k) == ends[k].wire = <<>> /\ ends[k].closed = {}

\* Both faces know the endpoint the transfer will use.
Agreed ==
  /\ IF dialer.active
     THEN /\ host21.listener = None /\ host21.target = dialer.end
          /\ ends[dialer.end].state = "listening"
     ELSE host21.listener = dialer.end /\ ends[dialer.end].state = "dialled"
  /\ Untouched(dialer.end)

\* The server is at the transfer the client asked for.
AtIt ==
  /\ host21.end = dialer.end /\ host21.verb = dialer.verb /\ host21.name = dialer.name
  /\ host21.listener = IF dialer.active THEN None ELSE dialer.end
  /\ dialer.verb = "RETR" => host21.name \in DOMAIN files

Stands(k) == ends[k].state = "accepted" \/ (dialer.active /\ ends[k].state = "dialled")

\* What was written and not yet read is on the wire.
Carries ==
  \E a, b \in Upto :
    /\ a <= b /\ ends[dialer.end].wire = Piece(a, b)
    /\ IF dialer.verb = "RETR" THEN dialer.got = Piece(0, a) /\ host21.got = Piece(0, b)
       ELSE host21.got = Piece(0, a) /\ dialer.got = Piece(0, b)
Ended ==
  /\ "client" \in ends[dialer.end].closed => dialer.at = "final" /\ dialer.verb = "STOR" /\ dialer.got = File
  /\ "server" \notin ends[dialer.end].closed

Heard == IF dialer.at = "begin" THEN <<Code(150)>> ELSE <<>>
HeardAll(code) == IF dialer.at = "begin" THEN <<Code(150), Code(code)>> ELSE <<Code(code)>>

Busy ==
  /\ up = <<>> /\ down = Heard /\ host21.at = dialer.verb
  /\ AtIt /\ Stands(dialer.end) /\ Carries /\ Ended

\* What a server that answered has left the client to read, or the client to write.
Remains(code) ==
  IF dialer.verb = "STOR" THEN \E b \in Upto : dialer.got = Piece(0, b)
  ELSE IF dialer.at = "final" THEN code = 226 => dialer.got = File
  ELSE \E a, b \in Upto : /\ a <= b /\ dialer.got = Piece(0, a) /\ ends[dialer.end].wire = Piece(a, b)
                          /\ code = 226 => b = Len(File)
Over(code) ==
  /\ up = <<>> /\ down = HeardAll(code) /\ host21.at = "idle"
  /\ Stands(dialer.end) /\ Remains(code)

InTransfer == ~Secure /\ (Busy \/ Over(226) \/ Over(426))

InBegin ==
  /\ Secure => dialer.active
  /\ \/ Asked(dialer.verb, dialer.name) /\ Agreed
     \/ /\ up = <<>> /\ down = <<>> /\ host21.at = "accept" /\ ~dialer.active /\ AtIt
        /\ ends[dialer.end].state = "dialled" /\ Untouched(dialer.end) /\ host21.got = <<>>
     \/ /\ Secure /\ up = <<>> /\ down = <<>> /\ host21.at = "wrap" /\ AtIt
        /\ "client" \notin ends[dialer.end].hands
     \/ \E r : Says(r) /\ r.code # 150
     \/ InTransfer

InStep ==
  /\ dialer.at \in {"idle", "reply", "gone", "endpoint", "wrap"} \cup MovingPlaces
  /\ dialer.at = "idle" => Silent
  /\ dialer.at = "reply" => InReply
  /\ dialer.at = "gone" => InGone
  /\ dialer.at = "endpoint" => InEndpoint
  /\ dialer.at = "wrap" => InWrap
  /\ dialer.at = "begin" => InBegin
  /\ dialer.at \in MovingPlaces \ {"begin"} => InTransfer
  /\ dialer.at = "accept" => dialer.active
  /\ dialer.at = "read" => dialer.verb = "RETR"
  /\ dialer.at = "write" => dialer.verb = "STOR"
  /\ dialer.at = "final" /\ dialer.verb = "RETR" => host21.at = "idle"

Dialogue == FtpTyped /\ FilesWhole /\ InStep

\* A second element.
LEMMA Appended ==
    ASSUME NEW S, NEW s \in Seq(S), NEW y \in S, Len(s) = 1
    PROVE  Append(s, y) = <<s[1], y>>
<1> DEFINE t == Append(s, y)
<1>1. /\ t \in Seq(S) /\ Len(t) = Len(s) + 1 /\ t[Len(s) + 1] = y
      /\ \A k \in 1..Len(s) : t[k] = s[k]
  BY ONLY s \in Seq(S), y \in S
<1> HIDE DEF t
<1>2. t = <<s[1], y>>
  BY <1>1
<1> QED
  BY <1>2 DEF t

\* An endpoint that changes.
Replaced(e, k, m) == [e EXCEPT ![k] = m]
Stood(e, k, s, h) == [e EXCEPT ![k].state = s, ![k].hands = h]
Wired(e, k, w) == [e EXCEPT ![k].wire = w]

LEMMA Pieces ==
    ASSUME FileIsSeq
    PROVE  /\ Len(File) \in Nat /\ File = Piece(0, Len(File))
           /\ \A a, b \in Upto : a <= b =>
                /\ Len(Piece(a, b)) = b - a
                /\ Piece(a, b) = <<>> => a = b
                /\ b < Len(File) => Append(Piece(a, b), File[b + 1]) = Piece(a, b + 1)
                /\ a < b => /\ Piece(a, b) # <<>> /\ Head(Piece(a, b)) = File[a + 1]
                            /\ Tail(Piece(a, b)) = Piece(a + 1, b)
           /\ \A a \in Upto : Piece(a, a) = <<>> /\ (Piece(0, a) = File => a = Len(File))
<1>1. PICK S : File \in Seq(S)
  BY DEF FileIsSeq
<1>2. Len(File) \in Nat /\ File = [i \in 1..Len(File) |-> File[i]] /\ \A i \in 1..Len(File) : File[i] \in S
  BY <1>1
<1>3. File = Piece(0, Len(File))
  BY <1>2 DEF Piece
<1>4. ASSUME NEW a \in Upto, NEW b \in Upto, a <= b
      PROVE  Piece(a, b) \in Seq(S) /\ Len(Piece(a, b)) = b - a /\ \A i \in 1..(b - a) : Piece(a,
      b)[i] = File[a + i]
  <2>1. a \in Nat /\ b \in Nat /\ b - a \in Nat /\ \A i \in 1..(b - a) : a + i \in 1..Len(File)
    BY <1>2, <1>4 DEF Upto
  <2> QED
    BY <1>2, <2>1 DEF Piece
<1>5. ASSUME NEW a \in Upto
      PROVE  Piece(a, a) = <<>>
  <2>1. Piece(a, a) \in Seq(S) /\ Len(Piece(a, a)) = 0
    BY <1>2, <1>4 DEF Upto
  <2> QED
    BY <2>1
<1>6. ASSUME NEW a \in Upto, NEW b \in Upto, a <= b, b < Len(File)
      PROVE  Append(Piece(a, b), File[b + 1]) = Piece(a, b + 1)
  <2>1. b + 1 \in Upto /\ a <= b + 1 /\ a \in Nat /\ b \in Nat /\ File[b + 1] \in S /\ (b + 1) - a = (b - a) + 1
    BY <1>2, <1>6 DEF Upto
  <2>2. /\ Piece(a, b + 1) \in Seq(S) /\ Len(Piece(a, b + 1)) = (b + 1) - a
        /\ \A i \in 1..((b + 1) - a) : Piece(a, b + 1)[i] = File[a + i]
    <3> DEFINE c == b + 1
    <3>1. c \in Upto /\ a <= c
      BY <2>1
    <3> HIDE DEF c
    <3>2. Piece(a, c) \in Seq(S) /\ Len(Piece(a, c)) = c - a /\ \A i \in 1..(c - a) : Piece(a, c)[i] = File[a + i]
      BY <1>4, <3>1
    <3> QED
      BY <3>2 DEF c
  <2>3. /\ Append(Piece(a, b), File[b + 1]) \in Seq(S) /\ Len(Append(Piece(a, b), File[b + 1])) = (b + 1) - a
        /\ \A i \in 1..((b + 1) - a) : Append(Piece(a, b), File[b + 1])[i] = File[a + i]
    <3> DEFINE s == Piece(a, b)
    <3>1. s \in Seq(S) /\ Len(s) = b - a /\ \A i \in 1..(b - a) : s[i] = File[a + i]
      BY <1>4, <1>6
    <3> HIDE DEF s
    <3>2. /\ Append(s, File[b + 1]) \in Seq(S) /\ Len(Append(s, File[b + 1])) = b - a + 1
          /\ Append(s, File[b + 1])[b - a + 1] = File[b + 1]
          /\ \A i \in 1..(b - a) : Append(s, File[b + 1])[i] = s[i]
      BY <2>1, <3>1
    <3>3. b + 1 = a + (b - a + 1)
      BY <2>1
    <3>4. ASSUME NEW i \in 1..((b + 1) - a)
          PROVE  Append(s, File[b + 1])[i] = File[a + i]
      <4>1. i \in 1..(b - a) \/ i = b - a + 1
        BY <2>1
      <4>2. CASE i \in 1..(b - a)
        BY <3>1, <3>2, <4>2
      <4>3. CASE i = b - a + 1
        BY <3>2, <3>3, <4>3
      <4> QED
        BY <4>1, <4>2, <4>3
    <3> QED
      BY <2>1, <3>2, <3>4 DEF s
  <2> QED
    BY <2>2, <2>3
<1>7. ASSUME NEW a \in Upto, NEW b \in Upto, a < b
      PROVE  /\ Piece(a, b) # <<>> /\ Head(Piece(a, b)) = File[a + 1] /\ Tail(Piece(a, b)) = Piece(a + 1, b)
  <2>1. a + 1 \in Upto /\ a + 1 <= b /\ a \in Nat /\ b \in Nat /\ a <= b
    BY <1>2, <1>7 DEF Upto
  <2>2. /\ Piece(a + 1, b) \in Seq(S) /\ Len(Piece(a + 1, b)) = b - (a + 1)
        /\ \A i \in 1..(b - (a + 1)) : Piece(a + 1, b)[i] = File[a + 1 + i]
    BY <1>4, <2>1
  <2>3. Piece(a, b) \in Seq(S) /\ Len(Piece(a, b)) = b - a /\ \A i \in 1..(b - a) : Piece(a, b)[i] = File[a + i]
    BY <1>4, <2>1
  <2>4. Piece(a, b) # <<>> /\ Head(Piece(a, b)) = File[a + 1]
    BY <1>7, <2>1, <2>3
  <2>5. /\ Tail(Piece(a, b)) \in Seq(S) /\ Len(Tail(Piece(a, b))) = b - (a + 1)
        /\ \A i \in 1..(b - (a + 1)) : Tail(Piece(a, b))[i] = File[a + 1 + i]
    BY <1>7, <2>1, <2>3, <2>4
  <2> QED
    BY <2>2, <2>4, <2>5
<1>8. \A a \in Upto : Piece(0, a) = File => a = Len(File)
  BY <1>2, <1>4 DEF Upto
<1>9. \A a, b \in Upto : a <= b /\ Piece(a, b) = <<>> => a = b
  BY <1>2, <1>4 DEF Upto
<1> QED
  BY <1>2, <1>3, <1>4, <1>5, <1>6, <1>7, <1>8, <1>9

\* Queues of one and of two.
LEMMA Queues ==
    /\ \A x : /\ Append(<<>>, x) = <<x>> /\ Head(<<x>>) = x /\ Tail(<<x>>) = <<>> /\ <<x>> # <<>>
    /\ \A x, y : /\ Append(<<x>>, y) = <<x, y>> /\ Head(<<x, y>>) = x /\ Tail(<<x, y>>) = <<y>> /\ <<x, y>> # <<>>
    /\ \A x, y : <<x>> = <<y>> => x = y
<1>1. ASSUME NEW x
      PROVE  Append(<<>>, x) = <<x>> /\ Head(<<x>>) = x /\ Tail(<<x>>) = <<>> /\ <<x>> # <<>>
  OBVIOUS
<1>2. ASSUME NEW x, NEW y
      PROVE  Append(<<x>>, y) = <<x, y>>
  <2> DEFINE S == {x, y}
             s == <<x>>
  <2>1. s \in Seq(S) /\ Len(s) = 1 /\ s[1] = x /\ y \in S
    OBVIOUS
  <2> HIDE DEF s, S
  <2>2. Append(s, y) = <<s[1], y>>
    BY <2>1, Appended
  <2> QED
    BY <2>1, <2>2 DEF s
<1>3. \A x, y : Head(<<x, y>>) = x /\ <<x, y>> # <<>>
  OBVIOUS
<1>4. ASSUME NEW x, NEW y
      PROVE  Tail(<<x, y>>) = <<y>>
  <2> DEFINE S == {x, y}
             s == <<x, y>>
             t == Tail(s)
  <2>1. s \in Seq(S) /\ Len(s) = 2 /\ s[2] = y /\ s # <<>>
    OBVIOUS
  <2> HIDE DEF s
  <2>2. t \in Seq(S) /\ Len(t) = 1 /\ t[1] = y
    BY <2>1
  <2> HIDE DEF S, t
  <2>3. t = <<y>>
    BY <2>2
  <2> QED
    BY <2>3 DEF s, t
<1>5. \A x, y : <<x>> = <<y>> => x = y
  OBVIOUS
<1> QED
  BY <1>1, <1>2, <1>3, <1>4, <1>5

LEMMA EndsGrow ==
    ASSUME NEW e, AreEnds(e), NEW x, IsEnd(x)
    PROVE  /\ AreEnds(Append(e, x)) /\ Len(Append(e, x)) = Len(e) + 1
           /\ Append(e, x)[Len(e) + 1] = x
           /\ \A k \in 1..Len(e) : Append(e, x)[k] = e[k]
<1> DEFINE n == Len(e)
           S == {e[k] : k \in 1..n} \cup {x}
<1>1. n \in Nat /\ e = [k \in 1..n |-> e[k]] /\ (\A k \in 1..n : e[k] \in S /\ IsEnd(e[k])) /\ x \in S
  BY DEF AreEnds
<1> HIDE DEF S
<1>2. e \in Seq(S)
  BY <1>1, [k \in 1..n |-> e[k]] \in Seq(S)
<1>3. Append(e, x) \in Seq(S) /\ Len(Append(e, x)) = n + 1 /\ \A k \in 1..(n + 1) : Append(e, x)[k] = IF k = n + 1 THEN x ELSE e[k]
  BY <1>1, <1>2
<1>4. Append(e, x) = [k \in 1..(n + 1) |-> Append(e, x)[k]]
  <2> DEFINE f == Append(e, x)
  <2>1. f \in Seq(S) /\ Len(f) = n + 1
    BY <1>3
  <2>2. ASSUME NEW g \in Seq(S)
        PROVE  g = [k \in 1..Len(g) |-> g[k]]
    BY ONLY <2>2
  <2> QED
    BY <2>1, <2>2
<1>5. \A k \in 1..(n + 1) : IsEnd(Append(e, x)[k])
  BY <1>1, <1>3
<1> QED
  BY <1>1, <1>3, <1>4, <1>5 DEF AreEnds

LEMMA ShutKeeps ==
    ASSUME NEW e, AreEnds(e), NEW k \in 1..Len(e) \cup {None}
    PROVE  /\ AreEnds(Transfer!Shut(e, k)) /\ Len(Transfer!Shut(e, k)) = Len(e)
           /\ \A j \in 1..Len(e) : j # k => Transfer!Shut(e, k)[j] = e[j]
<1>1. CASE k = None \/ e[k].state = "accepted"
  BY <1>1 DEF Transfer!Shut
<1>2. CASE ~(k = None \/ e[k].state = "accepted")
  <2>1. k \in 1..Len(e) /\ IsEnd(e[k])
    BY <1>2 DEF AreEnds
  <2> DEFINE s == IF e[k].state = "dialled" THEN "reset" ELSE "closed"
             f == [e EXCEPT ![k].state = s]
  <2>2. Transfer!Shut(e, k) = f
    BY <1>2 DEF Transfer!Shut
  <2>3. f = [j \in 1..Len(e) |-> f[j]] /\ \A j \in 1..Len(e) : j # k => f[j] = e[j]
    BY <2>1 DEF AreEnds
  <2>4. IsEnd(f[k])
    BY <2>1 DEF AreEnds, IsEnd
  <2>5. Len(f) = Len(e)
    BY <2>1, <2>3 DEF AreEnds
  <2> HIDE DEF f
  <2>6. AreEnds(f)
    BY <2>3, <2>4, <2>5 DEF AreEnds
  <2> QED
    BY <2>2, <2>3, <2>5, <2>6
<1> QED
  BY <1>1, <1>2

LEMMA EndChanges ==
    ASSUME NEW e, AreEnds(e), NEW k \in 1..Len(e), NEW m, IsEnd(m)
    PROVE  /\ AreEnds(Replaced(e, k, m)) /\ Len(Replaced(e, k, m)) = Len(e)
           /\ Replaced(e, k, m)[k] = m
           /\ \A j \in 1..Len(e) : j # k => Replaced(e, k, m)[j] = e[j]
<1> DEFINE f == Replaced(e, k, m)
<1>1. f = [j \in 1..Len(e) |-> f[j]] /\ f[k] = m /\ \A j \in 1..Len(e) : j # k => f[j] = e[j]
  BY DEF AreEnds, Replaced
<1>2. Len(f) = Len(e)
  BY <1>1 DEF AreEnds
<1> HIDE DEF f
<1>3. AreEnds(f)
  BY <1>1, <1>2 DEF AreEnds
<1> QED
  BY <1>1, <1>2, <1>3 DEF f

\* What the constants are.
FtpConstants == FileIsSeq /\ None \notin Nat

LEMMA AnsweredKeeps ==
    ASSUME Dialogue, Transfer!Answered
    PROVE  Dialogue'
<1>1. InReply /\ Transfer!Hear /\ UNCHANGED <<files, host21, ends>> /\ IsDialer(dialer)
  BY DEF Dialogue, Transfer!Answered, InStep, FtpTyped
<1>2. up = <<>> /\ down' = <<>> /\ host21.at = IF dialer.verb = "QUIT" THEN "over" ELSE "idle"
  BY <1>1, Queues DEF InReply, Transfer!Hear, Asked
<1>3. CASE dialer.verb = "USER" /\ Head(down).code = 331
  <2>1. dialer' = [dialer EXCEPT !.verb = "PASS"] /\ up' = <<[verb |-> "PASS", arg |-> None]>>
    BY <1>2, <1>3, Queues DEF Transfer!Answered, Transfer!Say
  <2>2. /\ IsDialer(dialer') /\ dialer'.at = "reply" /\ dialer'.verb = "PASS" /\ dialer'.result = dialer.result
        /\ dialer'.active = dialer.active
    BY <1>1, <2>1 DEF IsDialer, Transfer!Answered
  <2>3. FtpTyped' /\ FilesWhole'
    BY <1>1, <2>2 DEF Dialogue, FtpTyped, FilesWhole, MovingPlaces
  <2>4. InReply'
    BY <1>1, <1>2, <1>3, <2>1, <2>2 DEF InReply, Asked
  <2> QED
    BY <2>2, <2>3, <2>4 DEF Dialogue, InStep, MovingPlaces
<1>4. CASE ~(dialer.verb = "USER" /\ Head(down).code = 331)
  <2>1. dialer' = [dialer EXCEPT !.at = IF dialer.verb = "QUIT" THEN "gone" ELSE "idle"] /\ up' = <<>>
    BY <1>2, <1>4 DEF Transfer!Answered
  <2>2. /\ IsDialer(dialer') /\ dialer'.at = IF dialer.verb = "QUIT" THEN "gone" ELSE "idle"
        /\ dialer'.verb = dialer.verb /\ dialer'.result = dialer.result /\ dialer'.active = dialer.active
    BY <1>1, <2>1 DEF IsDialer
  <2>3. FtpTyped' /\ FilesWhole'
    BY <1>1, <2>2 DEF Dialogue, FtpTyped, FilesWhole, MovingPlaces
  <2>4. dialer'.at = "gone" => InGone'
    BY <1>1, <1>2, <2>1, <2>2 DEF InGone
  <2>5. dialer'.at = "idle" => Silent'
    BY <1>1, <1>2, <2>1, <2>2 DEF Silent
  <2> QED
    BY <2>2, <2>3, <2>4, <2>5 DEF Dialogue, InStep, MovingPlaces
<1> QED
  BY <1>3, <1>4

LEMMA CommandKeeps ==
    ASSUME Dialogue, NEW verb \in {"NOOP", "SITE", "USER", "QUIT"}, Transfer!Command(verb)
    PROVE  Dialogue'
<1>1. Silent /\ UNCHANGED <<files, host21, down, ends>> /\ IsDialer(dialer) /\ dialer.at = "idle"
  BY DEF Dialogue, Transfer!Command, InStep, FtpTyped
<1>2. dialer' = [dialer EXCEPT !.at = "reply", !.verb = verb, !.result = None] /\ up' = <<[verb |-> verb, arg |-> None]>>
  BY <1>1, Queues DEF Transfer!Command, Transfer!Say, Silent
<1>3. /\ IsDialer(dialer') /\ dialer'.at = "reply" /\ dialer'.verb = verb /\ dialer'.result = None
      /\ dialer'.active = dialer.active
  BY <1>1, <1>2 DEF IsDialer
<1>4. FtpTyped' /\ FilesWhole'
  BY <1>1, <1>3 DEF Dialogue, FtpTyped, FilesWhole, MovingPlaces
<1>5. InReply'
  BY <1>1, <1>2, <1>3 DEF InReply, Asked, Silent
<1> QED
  BY <1>3, <1>4, <1>5 DEF Dialogue, InStep, MovingPlaces

LEMMA HangUpKeeps ==
    ASSUME Dialogue, Transfer!Close
    PROVE  Dialogue'
<1>1. Silent /\ UNCHANGED <<files, host21, down, ends>> /\ IsDialer(dialer) /\ dialer.at = "idle"
  BY DEF Dialogue, Transfer!Close, InStep, FtpTyped
<1>2. dialer' = [dialer EXCEPT !.at = "gone"] /\ up' = <<[verb |-> "EOF", arg |-> None]>>
  BY <1>1, Queues DEF Transfer!Close, Transfer!Say, Silent
<1>3. /\ IsDialer(dialer') /\ dialer'.at = "gone" /\ dialer'.verb = dialer.verb /\ dialer'.result = dialer.result
      /\ dialer'.active = dialer.active
  BY <1>1, <1>2 DEF IsDialer
<1>4. FtpTyped' /\ FilesWhole'
  BY <1>1, <1>3 DEF Dialogue, FtpTyped, FilesWhole, MovingPlaces
<1>5. InGone'
  BY <1>1, <1>2, <1>3 DEF InGone, Asked, Silent
<1> QED
  BY <1>3, <1>4, <1>5 DEF Dialogue, InStep, MovingPlaces

LEMMA TransferKeeps ==
    ASSUME FtpConstants, Dialogue, NEW verb \in {"RETR", "STOR"}, NEW name, NEW active \in BOOLEAN,
           Transfer!Transfer(verb, name, active)
    PROVE  Dialogue'
<1>1. Silent /\ UNCHANGED <<files, host21, down>> /\ IsDialer(dialer) /\ dialer.at = "idle" /\ AreEnds(ends)
  BY DEF Dialogue, Transfer!Transfer, InStep, FtpTyped
<1> DEFINE k == IF active THEN Len(ends) + 1 ELSE None
<1>2. /\ dialer' = [at |-> "endpoint", verb |-> verb, name |-> name, active |-> active,
                    end |-> k, got |-> <<>>, result |-> None]
      /\ up' = <<IF active THEN [verb |-> "PORT", arg |-> k] ELSE [verb |-> "PASV", arg |-> None]>>
      /\ ends' = IF active THEN Append(ends, Transfer!Listening) ELSE ends
  BY <1>1, Queues DEF Transfer!Transfer, Transfer!Say, Silent
<1>3. /\ IsDialer(dialer') /\ dialer'.at = "endpoint" /\ dialer'.verb = verb /\ dialer'.result = None
      /\ dialer'.active = active /\ dialer'.got = <<>> /\ dialer'.end = k
  BY <1>2 DEF IsDialer
<1>4. /\ AreEnds(ends') /\ Len(ends') = Len(ends) + (IF active THEN 1 ELSE 0) /\ Len(ends) \in Nat
      /\ active => ends'[k] = Transfer!Listening
  <2>1. IsEnd(Transfer!Listening)
    BY DEF IsEnd, Transfer!Listening
  <2>2. /\ AreEnds(Append(ends, Transfer!Listening)) /\ Len(Append(ends, Transfer!Listening)) = Len(ends) + 1
        /\ Append(ends, Transfer!Listening)[Len(ends) + 1] = Transfer!Listening
    BY <1>1, <2>1, EndsGrow
  <2>3. Len(ends) \in Nat
    BY <1>1 DEF AreEnds
  <2>4. CASE active
    BY <1>2, <2>2, <2>3, <2>4
  <2>5. CASE ~active
    BY <1>1, <1>2, <2>3, <2>5
  <2> QED
    BY <2>4, <2>5
<1>5. host21.listener \in 1..Len(ends) \cup {None}
  BY DEF Dialogue, FtpTyped
<1> HIDE DEF k
<1>6. FtpTyped' /\ FilesWhole'
  BY <1>1, <1>3, <1>4, <1>5 DEF Dialogue, FtpTyped, FilesWhole, MovingPlaces
<1>7. InEndpoint'
  BY <1>1, <1>2, <1>3, <1>4, <1>5 DEF InEndpoint, Asked, Silent, k, FtpConstants
<1> QED
  BY <1>3, <1>6, <1>7 DEF Dialogue, InStep, MovingPlaces

\* A change of how an endpoint stands.
LEMMA EndStands ==
    ASSUME NEW e, AreEnds(e), NEW k \in 1..Len(e), NEW s, NEW h
    PROVE  /\ AreEnds(Stood(e, k, s, h)) /\ Len(Stood(e, k, s, h)) = Len(e)
           /\ Stood(e, k, s, h)[k].state = s /\ Stood(e, k, s, h)[k].hands = h
           /\ Stood(e, k, s, h)[k].wire = e[k].wire /\ Stood(e, k, s, h)[k].closed = e[k].closed
           /\ \A j \in 1..Len(e) : j # k => Stood(e, k, s, h)[j] = e[j]
<1> DEFINE m == [[e[k] EXCEPT !.state = s] EXCEPT !.hands = h]
<1>1. IsEnd(e[k]) /\ e = [j \in 1..Len(e) |-> e[j]]
  BY DEF AreEnds
<1>2. Stood(e, k, s, h) = Replaced(e, k, m)
  BY <1>1 DEF Stood, Replaced
<1>3. IsEnd(m) /\ m.state = s /\ m.hands = h /\ m.wire = e[k].wire /\ m.closed = e[k].closed
  BY <1>1 DEF IsEnd
<1> HIDE DEF m
<1>4. /\ AreEnds(Replaced(e, k, m)) /\ Len(Replaced(e, k, m)) = Len(e)
      /\ Replaced(e, k, m)[k] = m
      /\ \A j \in 1..Len(e) : j # k => Replaced(e, k, m)[j] = e[j]
  BY <1>3, EndChanges
<1> QED
  BY <1>2, <1>3, <1>4

\* A change of what is on its wire, and an end of it that is closed.
LEMMA EndWired ==
    ASSUME NEW e, AreEnds(e), NEW k \in 1..Len(e), NEW w
    PROVE  /\ AreEnds(Wired(e, k, w)) /\ Len(Wired(e, k, w)) = Len(e)
           /\ Wired(e, k, w)[k].state = e[k].state /\ Wired(e, k, w)[k].hands = e[k].hands
           /\ Wired(e, k, w)[k].wire = w /\ Wired(e, k, w)[k].closed = e[k].closed
<1> DEFINE m == [e[k] EXCEPT !.wire = w]
<1>1. IsEnd(e[k]) /\ e = [j \in 1..Len(e) |-> e[j]]
  BY DEF AreEnds
<1>2. Wired(e, k, w) = Replaced(e, k, m)
  BY <1>1 DEF Wired, Replaced
<1>3. IsEnd(m) /\ m.state = e[k].state /\ m.hands = e[k].hands /\ m.wire = w /\ m.closed = e[k].closed
  BY <1>1 DEF IsEnd
<1> HIDE DEF m
<1>4. /\ AreEnds(Replaced(e, k, m)) /\ Len(Replaced(e, k, m)) = Len(e)
      /\ Replaced(e, k, m)[k] = m
  BY <1>3, EndChanges
<1> QED
  BY <1>2, <1>3, <1>4

LEMMA EndCloses ==
    ASSUME NEW e, AreEnds(e), NEW k \in 1..Len(e), NEW face
    PROVE  /\ AreEnds(Transfer!CloseEnd(e, k, face)) /\ Len(Transfer!CloseEnd(e, k, face)) = Len(e)
           /\ Transfer!CloseEnd(e, k, face)[k].state = e[k].state /\ Transfer!CloseEnd(e, k, face)[k].wire = e[k].wire
           /\ Transfer!CloseEnd(e, k, face)[k].closed = e[k].closed \cup {face}
<1> DEFINE m == [e[k] EXCEPT !.closed = @ \cup {face}]
<1>1. IsEnd(e[k]) /\ e = [j \in 1..Len(e) |-> e[j]]
  BY DEF AreEnds
<1>2. Transfer!CloseEnd(e, k, face) = Replaced(e, k, m)
  BY <1>1 DEF Transfer!CloseEnd, Replaced
<1>3. IsEnd(m) /\ m.state = e[k].state /\ m.wire = e[k].wire /\ m.closed = e[k].closed \cup {face}
  BY <1>1 DEF IsEnd
<1> HIDE DEF m
<1>4. /\ AreEnds(Replaced(e, k, m)) /\ Len(Replaced(e, k, m)) = Len(e)
      /\ Replaced(e, k, m)[k] = m
  BY <1>3, EndChanges
<1> QED
  BY <1>2, <1>3, <1>4

LEMMA EndpointKeeps ==
    ASSUME FtpConstants, Dialogue, Transfer!Endpoint
    PROVE  Dialogue'
<1>1. /\ InEndpoint /\ Transfer!Hear /\ UNCHANGED <<files, host21>> /\ IsDialer(dialer) /\ dialer.at = "endpoint" /\ AreEnds(ends)
      /\ dialer.got = <<>> /\ dialer.verb \in {"RETR", "STOR"} /\ dialer.active \in BOOLEAN
      /\ host21.listener \in 1..Len(ends) \cup {None}
  BY DEF Dialogue, Transfer!Endpoint, InStep, FtpTyped
<1> DEFINE r == Head(down)
           k == IF dialer.active THEN dialer.end ELSE r.end
           agrees == IF dialer.active THEN r.code = 200 ELSE r.code = 227 /\ Transfer!Dial(k)
<1>2. /\ up = <<>> /\ down' = <<>> /\ host21.at = "idle" /\ k \in 1..Len(ends) /\ ends[k] = Transfer!Listening /\ agrees
      /\ dialer.active => host21.listener = None /\ host21.target = k
      /\ ~dialer.active => host21.listener = k
  <2>1. down # <<>> /\ down' = Tail(down)
    BY <1>1 DEF Transfer!Hear
  <2>2. CASE dialer.active
    <3>1. Says(Code(200)) /\ host21.listener = None /\ host21.target = dialer.end
          /\ dialer.end \in 1..Len(ends) /\ ends[dialer.end] = Transfer!Listening
      BY <1>1, <2>1, <2>2 DEF InEndpoint, Asked
    <3>2. up = <<>> /\ down' = <<>> /\ host21.at = "idle" /\ r = Code(200)
      BY <2>1, <3>1, Queues DEF Says
    <3> QED
      BY <2>2, <3>1, <3>2 DEF Code
  <2>3. CASE ~dialer.active
    <3>1. PICK j \in 1..Len(ends) : Says([code |-> 227, end |-> j]) /\ host21.listener = j /\ ends[j] = Transfer!Listening
      BY <1>1, <2>1, <2>3 DEF InEndpoint, Asked
    <3>2. up = <<>> /\ down' = <<>> /\ host21.at = "idle" /\ r = [code |-> 227, end |-> j]
      BY <2>1, <3>1, Queues DEF Says
    <3> QED
      BY <2>3, <3>1, <3>2 DEF Transfer!Dial, Transfer!Listening
  <2> QED
    BY <2>2, <2>3
<1>3. /\ dialer' = [dialer EXCEPT !.at = IF ~dialer.active /\ Secure THEN "wrap" ELSE "begin", !.end = k]
      /\ ends' = IF dialer.active THEN ends
                 ELSE [ends EXCEPT ![k].state = "dialled", ![k].hands = IF Secure THEN {"client"} ELSE {}]
      /\ IF ~dialer.active /\ Secure THEN up' = up ELSE up' = <<[verb |-> dialer.verb, arg |-> dialer.name]>>
  BY <1>2, Queues DEF Transfer!Endpoint, Transfer!Say
<1> HIDE DEF k, agrees
<1>4. /\ IsDialer(dialer') /\ dialer'.at = (IF ~dialer.active /\ Secure THEN "wrap" ELSE "begin")
      /\ dialer'.verb = dialer.verb /\ dialer'.result = dialer.result /\ dialer'.name = dialer.name
      /\ dialer'.active = dialer.active /\ dialer'.got = <<>> /\ dialer'.end = k
  BY <1>1, <1>3 DEF IsDialer
<1>5. /\ AreEnds(ends') /\ Len(ends') = Len(ends)
      /\ ends'[k].state = (IF dialer.active THEN "listening" ELSE "dialled")
      /\ ends'[k].wire = <<>> /\ ends'[k].closed = {}
      /\ "server" \notin ends'[k].hands
  <2>1. CASE dialer.active
    BY <1>1, <1>2, <1>3, <2>1 DEF Transfer!Listening
  <2>2. CASE ~dialer.active
    <3> DEFINE h == IF Secure THEN {"client"} ELSE {}
    <3>1. ends' = Stood(ends, k, "dialled", h)
      BY <1>3, <2>2 DEF Stood
    <3>2. "server" \notin h
      OBVIOUS
    <3> HIDE DEF h
    <3>3. /\ AreEnds(ends') /\ Len(ends') = Len(ends)
          /\ ends'[k].state = "dialled" /\ ends'[k].hands = h
          /\ ends'[k].wire = ends[k].wire /\ ends'[k].closed = ends[k].closed
      BY <1>1, <1>2, <3>1, EndStands
    <3> QED
      BY <1>2, <2>2, <3>2, <3>3 DEF Transfer!Listening
  <2> QED
    BY <2>1, <2>2
<1>6. FtpTyped' /\ FilesWhole'
  BY <1>1, <1>2, <1>4, <1>5 DEF Dialogue, FtpTyped, FilesWhole, MovingPlaces
<1>7. CASE dialer.active \/ ~Secure
  <2>1. Asked(dialer.verb, dialer.name)' /\ Agreed'
    BY <1>1, <1>2, <1>3, <1>4, <1>5, <1>7 DEF Asked, Agreed, Untouched
  <2>2. InBegin'
    BY <1>4, <1>7, <2>1 DEF InBegin
  <2> QED
    BY <1>4, <1>6, <1>7, <2>2 DEF Dialogue, InStep, MovingPlaces
<1>8. CASE ~dialer.active /\ Secure
  <2>1. InWrap'
    BY <1>1, <1>2, <1>3, <1>4, <1>5, <1>8 DEF InWrap, Silent
  <2> QED
    BY <1>4, <1>6, <1>8, <2>1 DEF Dialogue, InStep, MovingPlaces
<1> QED
  BY <1>7, <1>8

\* Nobody is in a handshake the other has begun.
LEMMA ClientWrappedKeeps ==
    ASSUME Dialogue, Transfer!ClientWrapped
    PROVE  FALSE
<1>1. InWrap
  BY DEF Dialogue, Transfer!ClientWrapped, InStep
<1> QED
  BY <1>1 DEF Transfer!ClientWrapped, InWrap, Transfer!Wrapped

\* What the client of a transfer under way is.
LEMMA InMoving ==
    ASSUME Dialogue, dialer.at \in MovingPlaces
    PROVE  /\ IsDialer(dialer) /\ IsHost21(host21) /\ AreEnds(ends) /\ dialer.active \in BOOLEAN
           /\ dialer.end \in 1..Len(ends) /\ dialer.verb \in {"RETR", "STOR"}
           /\ dialer.at = "accept" => dialer.active
           /\ host21.listener \in 1..Len(ends) \cup {None}
           /\ dialer.at = "begin" => InBegin
           /\ dialer.at # "begin" => InTransfer
           /\ dialer.result \in {None, File}
           /\ \A n \in DOMAIN files : files[n] = File
  BY DEF Dialogue, FtpTyped, InStep, MovingPlaces, FilesWhole

\* The client that a step of its own moves on within its transfer.
MovesOn(place) ==
  /\ UNCHANGED <<files, host21>> /\ up' = up
  /\ IsDialer(dialer') /\ dialer'.at = place /\ dialer'.verb = dialer.verb /\ dialer'.name = dialer.name
  /\ dialer'.result = dialer.result
  /\ dialer'.active = dialer.active /\ dialer'.end = dialer.end
  /\ AreEnds(ends') /\ Len(ends') = Len(ends)

LEMMA MovesOnKeeps ==
    ASSUME Dialogue, dialer.at \in MovingPlaces, NEW place \in MovingPlaces \ {"begin"}, MovesOn(place),
    InTransfer',
           place = "accept" => dialer.active, place = "read" => dialer.verb = "RETR",
           place = "write" => dialer.verb = "STOR",
           place = "accept" => dialer'.got = <<>>,
           place = "final" /\ dialer.verb = "RETR" => host21.at = "idle"
    PROVE  Dialogue'
<1>1. FtpTyped' /\ FilesWhole'
  BY DEF Dialogue, FtpTyped, FilesWhole, MovesOn, MovingPlaces
<1>2. InStep'
  BY DEF InStep, MovesOn, MovingPlaces
<1> QED
  BY <1>1, <1>2 DEF Dialogue

\* The client that gives its transfer up, or is done with it.
LEMMA BackKeeps ==
    ASSUME Dialogue, dialer.at \in MovingPlaces, UNCHANGED <<files, host21>>, up' = <<>>, down' = <<>>,
    host21.at = "idle",
           AreEnds(ends'), Len(ends') = Len(ends), IsDialer(dialer'), dialer'.at = "idle",
           dialer'.verb = dialer.verb, dialer'.active = dialer.active, dialer'.result \in {None, File}
    PROVE  Dialogue'
<1>1. FtpTyped' /\ FilesWhole'
  BY DEF Dialogue, FtpTyped, FilesWhole, MovingPlaces
<1>2. InStep'
  BY DEF InStep, Silent, MovingPlaces
<1> QED
  BY <1>1, <1>2 DEF Dialogue

LEMMA VerbKeeps ==
    ASSUME FtpConstants, Dialogue, Transfer!Begin
    PROVE  Dialogue'
<1>1. /\ InBegin /\ Transfer!Hear /\ UNCHANGED <<files, host21, up>> /\ dialer.at = "begin" /\ dialer.at \in MovingPlaces
      /\ dialer.got = <<>>
  BY InMoving DEF Transfer!Begin, MovingPlaces, Dialogue, FtpTyped
<1>2. /\ IsDialer(dialer) /\ AreEnds(ends) /\ dialer.end \in 1..Len(ends) /\ dialer.verb \in {"RETR", "STOR"}
      /\ dialer.active \in BOOLEAN /\ dialer.result \in {None, File} /\ Len(ends) \in Nat
  BY <1>1, InMoving DEF AreEnds
<1>3. down # <<>> /\ down' = Tail(down)
  BY <1>1 DEF Transfer!Hear
<1>4. ASSUME NEW r, Says(r), r.code # 150
      PROVE  Dialogue'
  <2>1. down = <<r>> /\ up = <<>> /\ host21.at = "idle" /\ down' = <<>> /\ Head(down) = r
    BY <1>3, <1>4, Queues DEF Says
  <2>2. dialer' = Transfer!Back(dialer) /\ ends' = IF dialer.active THEN Transfer!Shut(ends, dialer.end) ELSE ends
    BY <1>4, <2>1 DEF Transfer!Begin
  <2>3. /\ IsDialer(dialer') /\ dialer'.at = "idle" /\ dialer'.verb = dialer.verb
        /\ dialer'.active = dialer.active /\ dialer'.result = dialer.result
    BY <1>2, <2>2 DEF Transfer!Back, IsDialer
  <2>4. AreEnds(ends') /\ Len(ends') = Len(ends)
    BY <1>2, <2>2, ShutKeeps
  <2> QED
    BY <1>1, <1>2, <2>1, <2>3, <2>4, BackKeeps
<1>5. ASSUME InTransfer
      PROVE  Dialogue'
  <2> DEFINE place == IF dialer.active THEN "accept" ELSE IF dialer.verb = "RETR" THEN "read" ELSE "write"
  <2>8. ~Secure
    BY <1>5 DEF InTransfer
  <2>1. \/ Busy /\ down = <<Code(150)>>
        \/ \E code \in {226, 426} : Over(code) /\ down = <<Code(150), Code(code)>>
    BY <1>1, <1>5 DEF InTransfer, Busy, Over, Heard, HeardAll
  <2>2. Head(down) = Code(150)
    BY <2>1, Queues
  <2>3. dialer' = [dialer EXCEPT !.at = place] /\ ends' = ends
    BY <1>2, <2>2 DEF Transfer!Begin, Transfer!Moving, Code
  <2> HIDE DEF place
  <2>4. MovesOn(place) /\ dialer'.got = dialer.got /\ place \in {"accept", "read", "write"}
    BY <1>1, <1>2, <2>3 DEF MovesOn, IsDialer, place
  <2>5. ASSUME Busy, down = <<Code(150)>>
        PROVE  Busy'
    <3>1. down' = <<>>
      BY <1>3, <2>5, Queues
    <3> QED
      BY <1>1, <2>3, <2>4, <2>5, <3>1 DEF Busy, Heard, AtIt, Stands, Carries, Ended, MovesOn
  <2>6. ASSUME NEW code \in {226, 426}, Over(code), down = <<Code(150), Code(code)>>
        PROVE  Over(code)'
    <3>1. down' = <<Code(code)>>
      BY <1>3, <2>6, Queues
    <3> QED
      BY <1>1, <2>3, <2>4, <2>6, <3>1 DEF Over, HeardAll, Stands, Remains, MovesOn
  <2>7. InTransfer'
    BY <2>8, <2>1, <2>5, <2>6 DEF InTransfer
  <2> QED
    BY <1>1, <1>2, <2>4, <2>7, MovesOnKeeps DEF MovingPlaces, place
<1> QED
  BY <1>1, <1>3, <1>4, <1>5 DEF InBegin, Asked

LEMMA ClientAcceptKeeps ==
    ASSUME FtpConstants, Dialogue, Transfer!ClientAccept
    PROVE  Dialogue'
<1>1. /\ InTransfer /\ UNCHANGED <<files, host21, up, down>> /\ dialer.at = "accept" /\ dialer.at \in MovingPlaces
      /\ dialer.got = <<>> /\ ~Secure
  BY InMoving DEF Transfer!ClientAccept, MovingPlaces, Dialogue, FtpTyped, InTransfer
<1>2. /\ IsDialer(dialer) /\ AreEnds(ends) /\ dialer.end \in 1..Len(ends) /\ dialer.verb \in {"RETR", "STOR"}
      /\ dialer.active
  BY <1>1, InMoving
<1> DEFINE place == IF dialer.verb = "RETR" THEN "read" ELSE "write"
           h == ends[dialer.end].hands
<1>3. dialer' = [dialer EXCEPT !.at = place] /\ ends' = Stood(ends, dialer.end, "accepted", h)
  BY <1>1 DEF Transfer!ClientAccept, Transfer!Moving, Stood
<1> HIDE DEF place, h
<1>4. /\ AreEnds(ends') /\ Len(ends') = Len(ends) /\ ends'[dialer.end].state = "accepted"
      /\ ends'[dialer.end].wire = ends[dialer.end].wire /\ ends'[dialer.end].closed = ends[dialer.end].closed
  BY <1>2, <1>3, EndStands
<1>5. MovesOn(place) /\ dialer'.got = dialer.got /\ place \in {"read", "write"}
  BY <1>1, <1>2, <1>3, <1>4 DEF MovesOn, IsDialer, place
<1>6. Busy => Busy'
  BY <1>1, <1>4, <1>5 DEF Busy, Heard, AtIt, Stands, Carries, Ended, MovesOn
<1>7. ASSUME NEW code \in {226, 426}, Over(code)
      PROVE  Over(code)'
  BY <1>1, <1>4, <1>5, <1>7 DEF Over, HeardAll, Stands, Remains, MovesOn
<1>8. InTransfer'
  BY <1>1, <1>6, <1>7 DEF InTransfer
<1> QED
  BY <1>1, <1>2, <1>5, <1>8, MovesOnKeeps DEF MovingPlaces, place

\* Nothing refuses the client's data streams as long as its count of refusals is 0.
Unrefused == refusals["client"] = 0 /\ refusals'["client"] = 0
             /\ refusals = [face \in {"client", "server"} |-> refusals[face]]

LEMMA ClientUnrefused ==
    ASSUME Unrefused, NEW k, ends[k].state # "reset"
    PROVE  ~Transfer!Refusal(k, "client")
<1> SUFFICES ASSUME Transfer!Refusal(k, "client")
             PROVE  FALSE
  OBVIOUS
<1>1. refusals' = [refusals EXCEPT !["client"] = @ + 1]
  BY DEF Transfer!Refusal
<1>2. refusals'["client"] = 1
  BY <1>1 DEF Unrefused
<1> QED
  BY <1>2 DEF Unrefused

LEMMA StandsUp == \A k : Stands(k) => ends[k].state # "reset"
  BY DEF Stands

LEMMA ChunkKeeps ==
    ASSUME FtpConstants, Dialogue, Unrefused, Transfer!Read
    PROVE  Dialogue'
<1>1. /\ InTransfer /\ UNCHANGED <<files, host21, up, down>> /\ dialer.at = "read" /\ dialer.at \in MovingPlaces
      /\ dialer.verb = "RETR" /\ ~Secure
  BY InMoving DEF Transfer!Read, MovingPlaces, Dialogue, InStep, InTransfer
<1>2. /\ IsDialer(dialer) /\ AreEnds(ends) /\ dialer.end \in 1..Len(ends)
  BY <1>1, InMoving
<1> DEFINE k == dialer.end
<1>3. Stands(k)
  BY <1>1 DEF InTransfer, Busy, Over
<1>4. CASE /\ Transfer!Chunk(k) /\ dialer' = [dialer EXCEPT !.got = Append(@, Head(ends[k].wire))]
           /\ ends' = [ends EXCEPT ![k].wire = Tail(@)]
  <2> DEFINE more == Append(dialer.got, Head(ends[k].wire))
             wire == Tail(ends[k].wire)
  <2>1. dialer' = [dialer EXCEPT !.got = more] /\ ends' = Wired(ends, k, wire)
    BY <1>4 DEF Wired
  <2>2. /\ AreEnds(ends') /\ Len(ends') = Len(ends) /\ ends'[k].state = ends[k].state
        /\ ends'[k].wire = wire /\ ends'[k].closed = ends[k].closed
    BY <1>2, <2>1, EndWired
  <2>3. MovesOn("read") /\ dialer'.got = more
    BY <1>1, <1>2, <2>1, <2>2 DEF MovesOn, IsDialer
  <2>4. ends[k].wire # <<>>
    BY <1>4 DEF Transfer!Chunk
  <2>5. ASSUME NEW a \in Upto, NEW b \in Upto, a <= b, dialer.got = Piece(0, a), ends[k].wire = Piece(a, b)
        PROVE  /\ a + 1 \in Upto /\ a + 1 <= b /\ more = Piece(0, a + 1) /\ wire = Piece(a + 1, b)
    <3>1. a < b /\ Len(File) \in Nat /\ a \in Nat /\ b \in Nat /\ a < Len(File) /\ 0 \in Upto /\ a + 1 \in Upto
      <4>1. Len(File) \in Nat /\ a # b
        BY <2>4, <2>5, Pieces DEF FtpConstants
      <4> QED
        BY <2>5, <4>1 DEF Upto
    <3>2. /\ Append(Piece(0, a), File[a + 1]) = Piece(0, a + 1)
          /\ Head(Piece(a, b)) = File[a + 1] /\ Tail(Piece(a, b)) = Piece(a + 1, b)
      <4>1. 0 <= a
        BY <3>1
      <4>2. Append(Piece(0, a), File[a + 1]) = Piece(0, a + 1)
        BY <2>5, <3>1, <4>1, Pieces DEF FtpConstants
      <4>3. Head(Piece(a, b)) = File[a + 1] /\ Tail(Piece(a, b)) = Piece(a + 1, b)
        BY <2>5, <3>1, Pieces DEF FtpConstants
      <4> QED
        BY <4>2, <4>3
    <3> QED
      BY <2>5, <3>1, <3>2
  <2> HIDE DEF more, wire
  <2>6. ASSUME Busy
        PROVE  Busy'
    <3>1. Carries'
      BY <1>1, <2>2, <2>3, <2>5, <2>6 DEF Busy, Carries, MovesOn
    <3> QED
      BY <1>1, <2>2, <2>3, <2>6, <3>1 DEF Busy, Heard, AtIt, Stands, Ended, MovesOn
  <2>7. ASSUME NEW code \in {226, 426}, Over(code)
        PROVE  Over(code)'
    <3>1. Remains(code)'
      BY <1>1, <2>2, <2>3, <2>5, <2>7 DEF Over, Remains, MovesOn
    <3> QED
      BY <1>1, <2>2, <2>3, <2>7, <3>1 DEF Over, HeardAll, Stands, MovesOn
  <2>8. InTransfer'
    BY <1>1, <2>6, <2>7 DEF InTransfer
  <2> QED
    BY <1>1, <2>3, <2>8, MovesOnKeeps DEF MovingPlaces
<1>5. CASE Transfer!AtEnd(k, "client") /\ Transfer!ClientEnds([dialer EXCEPT !.at = "final"])
  <2>1. ends[k].wire = <<>> /\ "server" \in ends[k].closed
    BY <1>5 DEF Transfer!AtEnd, Transfer!Other
  <2>2. dialer' = [dialer EXCEPT !.at = "final"] /\ ends' = Transfer!CloseEnd(ends, k, "client")
    BY <1>5 DEF Transfer!ClientEnds
  <2>3. AreEnds(ends') /\ Len(ends') = Len(ends) /\ ends'[k].state = ends[k].state
    BY <1>2, <2>2, EndCloses
  <2>4. MovesOn("final") /\ dialer'.got = dialer.got
    BY <1>1, <1>2, <2>2, <2>3 DEF MovesOn, IsDialer
  <2>5. ~Busy
    BY <2>1 DEF Busy, Ended
  <2>6. ASSUME NEW code \in {226, 426}, Over(code)
        PROVE  Over(code)' /\ host21.at = "idle"
    <3>1. PICK a \in Upto, b \in Upto : /\ a <= b /\ dialer.got = Piece(0, a) /\ ends[k].wire = Piece(a, b)
                                        /\ code = 226 => b = Len(File)
      BY <1>1, <2>6 DEF Over, Remains
    <3>2. code = 226 => dialer.got = File
      BY <2>1, <3>1, Pieces DEF FtpConstants
    <3>3. Remains(code)'
      BY <1>1, <2>4, <3>2 DEF Remains, MovesOn
    <3> QED
      BY <1>1, <2>3, <2>4, <2>6, <3>3 DEF Over, HeardAll, Stands, MovesOn
  <2>7. InTransfer' /\ host21.at = "idle"
    BY <1>1, <2>5, <2>6 DEF InTransfer
  <2> QED
    BY <1>1, <2>4, <2>7, MovesOnKeeps DEF MovingPlaces
<1> QED
  BY <1>3, <1>4, <1>5, StandsUp, ClientUnrefused DEF Transfer!Read

LEMMA WriteKeeps ==
    ASSUME FtpConstants, Dialogue, Unrefused, Transfer!Write
    PROVE  Dialogue'
<1>1. /\ InTransfer /\ UNCHANGED <<files, host21, up, down>> /\ dialer.at = "write" /\ dialer.at \in MovingPlaces
      /\ dialer.verb = "STOR" /\ ~Secure
  BY InMoving DEF Transfer!Write, MovingPlaces, Dialogue, InStep, InTransfer
<1>2. /\ IsDialer(dialer) /\ AreEnds(ends) /\ dialer.end \in 1..Len(ends)
  BY <1>1, InMoving
<1> DEFINE k == dialer.end
<1>3. Stands(k)
  BY <1>1 DEF InTransfer, Busy, Over
<1>4. CASE /\ dialer.got # File
           /\ dialer' = [dialer EXCEPT !.got = Append(@, File[Len(@) + 1])]
           /\ ends' = [ends EXCEPT ![k].wire = Append(@, File[Len(dialer.got) + 1])]
  <2> DEFINE more == Append(dialer.got, File[Len(dialer.got) + 1])
             wire == Append(ends[k].wire, File[Len(dialer.got) + 1])
  <2>1. dialer' = [dialer EXCEPT !.got = more] /\ ends' = Wired(ends, k, wire)
    BY <1>4 DEF Wired
  <2> HIDE DEF wire
  <2>2. /\ AreEnds(ends') /\ Len(ends') = Len(ends) /\ ends'[k].state = ends[k].state
        /\ ends'[k].wire = wire /\ ends'[k].closed = ends[k].closed
    BY <1>2, <2>1, EndWired
  <2>3. MovesOn("write") /\ dialer'.got = more
    BY <1>1, <1>2, <2>1, <2>2 DEF MovesOn, IsDialer
  <2>5. ASSUME NEW b \in Upto, dialer.got = Piece(0, b)
        PROVE  /\ b + 1 \in Upto /\ more = Piece(0, b + 1)
               /\ \A a \in Upto : a <= b /\ ends[k].wire = Piece(a, b) => a <= b + 1 /\ wire = Piece(a, b + 1)
    <3>1. Len(File) \in Nat /\ b \in Nat /\ b < Len(File) /\ 0 \in Upto /\ b + 1 \in Upto /\ 0 <= b
      BY <1>4, <2>5, Pieces DEF FtpConstants, Upto
    <3>2. Len(dialer.got) = b
      BY <2>5, <3>1, Pieces DEF FtpConstants
    <3>3. \A a \in Upto : a <= b => Append(Piece(a, b), File[b + 1]) = Piece(a, b + 1) /\ a <= b + 1
      BY <2>5, <3>1, Pieces DEF FtpConstants, Upto
    <3> QED
      BY <2>5, <3>1, <3>2, <3>3 DEF wire
  <2> HIDE DEF more
  <2>6. ASSUME Busy
        PROVE  Busy'
    <3>1. Carries'
      BY <1>1, <2>2, <2>3, <2>5, <2>6 DEF Busy, Carries, MovesOn
    <3> QED
      BY <1>1, <2>2, <2>3, <2>6, <3>1 DEF Busy, Heard, AtIt, Stands, Ended, MovesOn
  <2>7. ASSUME NEW code \in {226, 426}, Over(code)
        PROVE  Over(code)'
    <3>1. Remains(code)'
      BY <1>1, <2>2, <2>3, <2>5, <2>7 DEF Over, Remains, MovesOn
    <3> QED
      BY <1>1, <2>2, <2>3, <2>7, <3>1 DEF Over, HeardAll, Stands, MovesOn
  <2>8. InTransfer'
    BY <1>1, <2>6, <2>7 DEF InTransfer
  <2> QED
    BY <1>1, <2>3, <2>8, MovesOnKeeps DEF MovingPlaces
<1>5. CASE dialer.got = File /\ Transfer!ClientEnds([dialer EXCEPT !.at = "final"])
  <2>2. dialer' = [dialer EXCEPT !.at = "final"] /\ ends' = Transfer!CloseEnd(ends, k, "client")
    BY <1>5 DEF Transfer!ClientEnds
  <2>3. /\ AreEnds(ends') /\ Len(ends') = Len(ends) /\ ends'[k].state = ends[k].state
        /\ ends'[k].wire = ends[k].wire /\ ends'[k].closed = ends[k].closed \cup {"client"}
    BY <1>2, <2>2, EndCloses
  <2>4. MovesOn("final") /\ dialer'.got = dialer.got
    BY <1>1, <1>2, <2>2, <2>3 DEF MovesOn, IsDialer
  <2>5. Busy => Busy'
    BY <1>1, <1>5, <2>3, <2>4 DEF Busy, Heard, AtIt, Stands, Carries, Ended, MovesOn
  <2>6. ASSUME NEW code \in {226, 426}, Over(code)
        PROVE  Over(code)'
    BY <1>1, <2>3, <2>4, <2>6 DEF Over, HeardAll, Stands, Remains, MovesOn
  <2>7. InTransfer'
    BY <1>1, <2>5, <2>6 DEF InTransfer
  <2> QED
    BY <1>1, <2>4, <2>7, MovesOnKeeps DEF MovingPlaces
<1> QED
  BY <1>3, <1>4, <1>5, StandsUp, ClientUnrefused DEF Transfer!Write

LEMMA FinalKeeps ==
    ASSUME FtpConstants, Dialogue, Transfer!Final
    PROVE  Dialogue'
<1>1. /\ InTransfer /\ Transfer!Hear /\ UNCHANGED <<files, host21, up, ends>> /\ dialer.at = "final" /\ dialer.at \in MovingPlaces
  BY InMoving DEF Transfer!Final, MovingPlaces
<1>2. /\ IsDialer(dialer) /\ AreEnds(ends) /\ dialer.verb \in {"RETR", "STOR"} /\ dialer.result \in {None, File}
  BY <1>1, InMoving
<1>3. down # <<>> /\ down' = Tail(down)
  BY <1>1 DEF Transfer!Hear
<1>4. PICK code \in {226, 426} : Over(code)
  BY <1>1, <1>3 DEF InTransfer, Busy, Heard
<1>5. up = <<>> /\ down = <<Code(code)>> /\ host21.at = "idle" /\ Remains(code)
  BY <1>1, <1>4 DEF Over, HeardAll
<1>6. down' = <<>> /\ Head(down).code = code
  BY <1>3, <1>5, Queues DEF Code
<1>7. dialer' = IF code = 226 /\ dialer.verb = "RETR" THEN [Transfer!Back(dialer) EXCEPT !.result = File] ELSE Transfer!Back(dialer)
  BY <1>1, <1>5, <1>6 DEF Transfer!Final, Remains
<1>8. /\ IsDialer(dialer') /\ dialer'.at = "idle" /\ dialer'.verb = dialer.verb
      /\ dialer'.active = dialer.active /\ dialer'.result \in {None, File}
  <2>1. CASE code = 226 /\ dialer.verb = "RETR"
    <3>1. dialer' = [Transfer!Back(dialer) EXCEPT !.result = File]
      BY <1>7, <2>1
    <3> QED
      BY <1>2, <2>1, <3>1 DEF Transfer!Back, IsDialer
  <2>2. CASE ~(code = 226 /\ dialer.verb = "RETR")
    <3>1. dialer' = Transfer!Back(dialer)
      BY <1>7, <2>2
    <3> QED
      BY <1>2, <3>1 DEF Transfer!Back, IsDialer
  <2> QED
    BY <2>1, <2>2
<1> QED
  BY <1>1, <1>2, <1>5, <1>6, <1>8, BackKeeps

\* A server that answers and stays where it is.
ReadsOn == /\ UNCHANGED <<files, dialer>> /\ IsHost21(host21') /\ AreEnds(ends') /\ Len(ends) <= Len(ends')
           /\ host21'.listener \in 1..Len(ends') \cup {None}
           /\ host21'.at = "idle" => host21'.got = <<>>

LEMMA ReadsOnKeeps ==
    ASSUME FtpConstants, Dialogue, ReadsOn
    PROVE  /\ FtpTyped' /\ FilesWhole'
           /\ dialer.at = "reply" /\ InReply' => Dialogue'
           /\ dialer.at = "gone" /\ InGone' => Dialogue'
           /\ dialer.at = "endpoint" /\ InEndpoint' => Dialogue'
           /\ dialer.at = "begin" /\ InBegin' => Dialogue'
<1>1. FtpTyped' /\ FilesWhole'
  <2>1. Len(ends) \in Nat /\ Len(ends') \in Nat
    BY DEF Dialogue, FtpTyped, AreEnds, ReadsOn
  <2>2. 1..Len(ends) \subseteq 1..Len(ends')
    BY <2>1 DEF ReadsOn
  <2> QED
    BY <2>2 DEF Dialogue, FtpTyped, FilesWhole, ReadsOn, MovingPlaces
<1>2. dialer' = dialer /\ dialer.at \in {"idle", "reply", "gone", "endpoint", "wrap"} \cup MovingPlaces
  BY DEF ReadsOn, Dialogue, InStep
<1> QED
  BY <1>1, <1>2 DEF Dialogue, InStep, MovingPlaces

\* Where a command can find the server.
LEMMA CommandAt ==
    ASSUME FtpConstants, Dialogue, host21.at = "idle", up # <<>>
    PROVE  /\ IsHost21(host21) /\ AreEnds(ends) /\ Len(ends) \in Nat /\ host21.got = <<>>
           /\ host21.listener \in 1..Len(ends) \cup {None}
           /\ down = <<>>
           /\ \/ dialer.at = "reply" /\ InReply /\ dialer.verb # "CONNECT" /\ Asked(dialer.verb, None)
              \/ dialer.at = "gone" /\ Asked("EOF", None)
              \/ dialer.at = "endpoint" /\ dialer.active /\ InEndpoint /\ Asked("PORT", dialer.end) /\ host21.listener # dialer.end
              \/ dialer.at = "endpoint" /\ ~dialer.active /\ InEndpoint /\ Asked("PASV", None)
              \/ dialer.at = "begin" /\ (Secure => dialer.active) /\ Asked(dialer.verb, dialer.name) /\ Agreed
<1>1. /\ IsHost21(host21) /\ AreEnds(ends) /\ Len(ends) \in Nat /\ host21.got = <<>>
      /\ host21.listener \in 1..Len(ends) \cup {None}
  BY DEF Dialogue, FtpTyped, AreEnds
<1>2. ~InTransfer /\ ~InWrap /\ ~Silent
  BY DEF InTransfer, Busy, Over, InWrap, Silent
<1>3. dialer.at \in {"reply", "gone", "endpoint", "begin"}
  BY <1>2 DEF Dialogue, InStep, MovingPlaces
<1>4. CASE dialer.at = "reply"
  <2>1. InReply
    BY <1>4 DEF Dialogue, InStep
  <2> QED
    BY <1>1, <1>4, <2>1 DEF InReply, Asked
<1>5. CASE dialer.at = "gone"
  <2>1. InGone
    BY <1>5 DEF Dialogue, InStep
  <2> QED
    BY <1>1, <1>5, <2>1 DEF InGone, Asked
<1>6. CASE dialer.at = "endpoint"
  <2>1. InEndpoint /\ dialer.active \in BOOLEAN
    BY <1>6 DEF Dialogue, InStep, FtpTyped
  <2>2. CASE dialer.active
    BY <1>1, <1>6, <2>1, <2>2 DEF InEndpoint, Asked, Says
  <2>3. CASE ~dialer.active
    BY <1>1, <1>6, <2>1, <2>3 DEF InEndpoint, Asked, Says
  <2> QED
    BY <2>1, <2>2, <2>3
<1>7. CASE dialer.at = "begin"
  <2>1. InBegin
    BY <1>7 DEF Dialogue, InStep
  <2> QED
    BY <1>1, <1>2, <1>7, <2>1 DEF InBegin, Asked, Says
<1> QED
  BY <1>3, <1>4, <1>5, <1>6, <1>7

LEMMA ReadReplyKeeps ==
    ASSUME FtpConstants, Dialogue, Transfer!ReadCommand, dialer.at = "reply"
    PROVE  Dialogue'
<1>1. /\ host21.at = "idle" /\ up # <<>> /\ up' = Tail(up) /\ UNCHANGED <<files, dialer>>
      /\ dialer.verb \in {"NOOP", "SITE", "USER", "PASS", "QUIT"}
      /\ up = <<[verb |-> dialer.verb, arg |-> None]>> /\ down = <<>>
      /\ IsHost21(host21) /\ AreEnds(ends) /\ Len(ends) \in Nat /\ host21.listener \in 1..Len(ends) \cup {None}
      /\ InReply /\ host21.got = <<>>
  BY CommandAt DEF Transfer!ReadCommand, InReply, Asked
<1>2. up' = <<>> /\ Head(up) = [verb |-> dialer.verb, arg |-> None]
  BY <1>1, Queues
<1>3. CASE dialer.verb # "QUIT"
  <2>1. Head(up).verb \in DOMAIN Transfer!Simple /\ Head(up).verb \notin {"QUIT", "EOF", "PASV", "PORT", "RETR"}
    BY <1>1, <1>2, <1>3 DEF Transfer!Simple
  <2>2. /\ down' = Append(down, [code |-> Transfer!Simple[Head(up).verb], end |-> None])
        /\ host21' = host21 /\ ends' = ends
    BY <2>1 DEF Transfer!ReadCommand, Transfer!Answer
  <2>3. \E r : down' = <<r>>
    BY <1>1, <2>2, Queues
  <2>4. ReadsOn
    BY <1>1, <2>2 DEF ReadsOn
  <2>5. InReply'
    BY <1>1, <1>2, <1>3, <2>2, <2>3 DEF InReply
  <2> QED
    BY <1>1, <2>4, <2>5, ReadsOnKeeps
<1>4. CASE dialer.verb = "QUIT"
  <2>1. Head(up).verb \notin DOMAIN Transfer!Simple /\ Head(up).verb = "QUIT"
    BY <1>1, <1>2, <1>4 DEF Transfer!Simple
  <2>2. /\ host21' = [Transfer!Cleared(host21) EXCEPT !.at = "over"] /\ ends' = Transfer!Shut(ends, host21.listener)
    BY <2>1 DEF Transfer!ReadCommand
  <2>3. \E r : down' = <<r>>
    <3>1. Transfer!Answer(221)
      BY <2>1 DEF Transfer!ReadCommand
    <3> QED
      BY <1>1, <3>1, Queues DEF Transfer!Answer
  <2>4. IsHost21(host21') /\ host21'.at = "over" /\ host21'.listener = None
    BY <1>1, <2>2 DEF Transfer!Cleared, IsHost21
  <2>5. ReadsOn
    BY <1>1, <2>2, <2>4, ShutKeeps DEF ReadsOn
  <2>6. InReply'
    BY <1>1, <1>2, <1>4, <2>3, <2>4 DEF InReply
  <2> QED
    BY <1>1, <2>5, <2>6, ReadsOnKeeps
<1> QED
  BY <1>3, <1>4

LEMMA ReadGoneKeeps ==
    ASSUME FtpConstants, Dialogue, Transfer!ReadCommand, dialer.at = "gone"
    PROVE  Dialogue'
<1>1. /\ host21.at = "idle" /\ up # <<>> /\ up' = Tail(up) /\ UNCHANGED <<files, dialer>>
      /\ up = <<[verb |-> "EOF", arg |-> None]>> /\ down = <<>>
      /\ IsHost21(host21) /\ AreEnds(ends) /\ Len(ends) \in Nat /\ host21.listener \in 1..Len(ends) \cup {None}
  BY CommandAt DEF Transfer!ReadCommand, Asked
<1>2. up' = <<>> /\ Head(up) = [verb |-> "EOF", arg |-> None]
  BY <1>1, Queues
<1>3. Head(up).verb \notin DOMAIN Transfer!Simple /\ Head(up).verb = "EOF"
  BY <1>1, <1>2 DEF Transfer!Simple
<1>4. /\ host21' = [Transfer!Cleared(host21) EXCEPT !.at = "over"] /\ ends' = Transfer!Shut(ends, host21.listener)
  BY <1>3 DEF Transfer!ReadCommand
<1>5. IsHost21(host21') /\ host21'.at = "over" /\ host21'.listener = None
  BY <1>1, <1>4 DEF Transfer!Cleared, IsHost21
<1>6. ReadsOn
  BY <1>1, <1>4, <1>5, ShutKeeps DEF ReadsOn
<1>7. InGone'
  BY <1>2, <1>5 DEF InGone
<1> QED
  BY <1>1, <1>6, <1>7, ReadsOnKeeps

LEMMA ReadEndpointKeeps ==
    ASSUME FtpConstants, Dialogue, Transfer!ReadCommand, dialer.at = "endpoint"
    PROVE  Dialogue'
<1>1. /\ host21.at = "idle" /\ up # <<>> /\ up' = Tail(up) /\ UNCHANGED <<files, dialer>> /\ down = <<>>
      /\ IsHost21(host21) /\ AreEnds(ends) /\ Len(ends) \in Nat /\ host21.listener \in 1..Len(ends) \cup {None}
      /\ host21.got = <<>> /\ InEndpoint
      /\ \/ dialer.active /\ Asked("PORT", dialer.end) /\ host21.listener # dialer.end
         \/ ~dialer.active /\ Asked("PASV", None)
  BY CommandAt DEF Transfer!ReadCommand
<1>2. /\ AreEnds(Transfer!Shut(ends, host21.listener)) /\ Len(Transfer!Shut(ends, host21.listener)) = Len(ends)
      /\ \A j \in 1..Len(ends) : j # host21.listener => Transfer!Shut(ends, host21.listener)[j] = ends[j]
  BY <1>1, ShutKeeps
<1>3. CASE dialer.active /\ Asked("PORT", dialer.end) /\ host21.listener # dialer.end
  <2>1. Head(up) = [verb |-> "PORT", arg |-> dialer.end] /\ up' = <<>>
    BY <1>1, <1>3, Queues DEF Asked
  <2>2. /\ ends' = Transfer!Shut(ends, host21.listener)
        /\ host21' = [Transfer!Cleared(host21) EXCEPT !.target = dialer.end] /\ Transfer!Answer(200)
    BY <2>1 DEF Transfer!ReadCommand, Transfer!Simple
  <2>3. down' = <<Code(200)>>
    BY <1>1, <2>2, Queues DEF Transfer!Answer, Code
  <2>4. /\ IsHost21(host21') /\ host21'.at = "idle" /\ host21'.got = <<>> /\ host21'.listener = None
        /\ host21'.target = dialer.end
    BY <1>1, <2>2 DEF Transfer!Cleared, IsHost21
  <2>5. ReadsOn
    BY <1>1, <1>2, <2>2, <2>4 DEF ReadsOn
  <2>6. dialer.end \in 1..Len(ends) /\ ends[dialer.end] = Transfer!Listening
    BY <1>1, <1>3 DEF InEndpoint
  <2>7. InEndpoint'
    BY <1>1, <1>2, <1>3, <2>1, <2>2, <2>3, <2>4, <2>6 DEF InEndpoint, Says
  <2> QED
    BY <2>5, <2>7, ReadsOnKeeps
<1>4. CASE ~dialer.active /\ Asked("PASV", None)
  <2> DEFINE k == Len(ends) + 1
             rest == Transfer!Shut(ends, host21.listener)
  <2>1. Head(up) = [verb |-> "PASV", arg |-> None] /\ up' = <<>>
    BY <1>1, <1>4, Queues DEF Asked
  <2>2. /\ ends' = Append(rest, Transfer!Listening)
        /\ host21' = [Transfer!Cleared(host21) EXCEPT !.listener = k] /\ down' = Append(down, [code |-> 227, end |-> k])
    BY <2>1 DEF Transfer!ReadCommand, Transfer!Simple
  <2>3. down' = <<[code |-> 227, end |-> k]>>
    BY <1>1, <2>2, Queues
  <2>4. IsHost21(host21') /\ host21'.at = "idle" /\ host21'.got = <<>> /\ host21'.listener = k
    BY <1>1, <2>2 DEF Transfer!Cleared, IsHost21
  <2>5. IsEnd(Transfer!Listening)
    BY DEF IsEnd, Transfer!Listening
  <2> HIDE DEF rest
  <2>6. AreEnds(rest) /\ Len(rest) = Len(ends)
    BY <1>2 DEF rest
  <2>7. AreEnds(ends') /\ Len(ends') = k /\ ends'[k] = Transfer!Listening
    BY <2>2, <2>5, <2>6, EndsGrow
  <2>8. k \in 1..Len(ends') /\ Len(ends) <= Len(ends')
    BY <1>1, <2>7
  <2> HIDE DEF k
  <2>9. ReadsOn
    BY <1>1, <2>4, <2>7, <2>8 DEF ReadsOn
  <2>10. InEndpoint'
    BY <1>1, <1>4, <2>1, <2>3, <2>4, <2>7, <2>8 DEF InEndpoint, Says
  <2> QED
    BY <2>9, <2>10, ReadsOnKeeps
<1> QED
  BY <1>1, <1>3, <1>4

LEMMA ReadBeginKeeps ==
    ASSUME FtpConstants, Dialogue, Transfer!ReadCommand, dialer.at = "begin"
    PROVE  Dialogue'
<1> DEFINE k == dialer.end
<1>1. /\ host21.at = "idle" /\ up # <<>> /\ up' = Tail(up) /\ UNCHANGED <<files, dialer>> /\ down = <<>>
      /\ IsHost21(host21) /\ AreEnds(ends) /\ Len(ends) \in Nat /\ host21.listener \in 1..Len(ends) \cup {None}
      /\ host21.got = <<>> /\ (Secure => dialer.active)
      /\ up = <<[verb |-> dialer.verb, arg |-> dialer.name]>> /\ Agreed
  BY CommandAt DEF Transfer!ReadCommand, Asked
<1>2. /\ dialer.verb \in {"RETR", "STOR"} /\ dialer.active \in BOOLEAN /\ k \in 1..Len(ends) /\ k # None
      /\ dialer.got = <<>> /\ IsDialer(dialer)
  BY <1>1 DEF Dialogue, FtpTyped, MovingPlaces, FtpConstants
<1>3. Head(up) = [verb |-> dialer.verb, arg |-> dialer.name] /\ up' = <<>>
  BY <1>1, Queues
<1>4. CASE dialer.verb = "RETR" /\ dialer.name \notin DOMAIN files
  <2>1. Transfer!Answer(550) /\ UNCHANGED <<host21, ends>>
    BY <1>3, <1>4 DEF Transfer!ReadCommand, Transfer!Simple
  <2>2. down' = <<Code(550)>>
    BY <1>1, <2>1, Queues DEF Transfer!Answer, Code
  <2>3. ReadsOn
    BY <1>1, <2>1 DEF ReadsOn
  <2>4. Says(Code(550))' /\ Code(550).code # 150
    BY <1>1, <1>3, <2>1, <2>2 DEF Says, Code
  <2>5. InBegin'
    BY <1>1, <2>4 DEF InBegin
  <2> QED
    BY <2>3, <2>5, ReadsOnKeeps
<1>5. CASE ~(dialer.verb = "RETR" /\ dialer.name \notin DOMAIN files)
  <2> DEFINE s == [host21 EXCEPT !.verb = dialer.verb, !.name = dialer.name]
  <2>1. Transfer!OpenData(s)
    <3>1. Transfer!OpenData([host21 EXCEPT !.verb = Head(up).verb, !.name = Head(up).arg])
      BY <1>2, <1>3, <1>5 DEF Transfer!ReadCommand, Transfer!Simple
    <3>2. Head(up).verb = dialer.verb /\ Head(up).arg = dialer.name
      BY <1>3
    <3> QED
      BY <3>1, <3>2
  <2>2. /\ IsHost21(s) /\ s.listener = host21.listener /\ s.target = host21.target /\ s.got = <<>>
        /\ s.verb = dialer.verb /\ s.name = dialer.name
    BY <1>1 DEF IsHost21
  <2> HIDE DEF s
  <2>3. CASE ~dialer.active
    <3>1. host21' = [s EXCEPT !.at = "accept", !.end = s.listener] /\ UNCHANGED <<down, ends>> /\ s.listener = k
      BY <1>1, <1>2, <2>1, <2>2, <2>3 DEF Transfer!OpenData, Agreed
    <3>2. /\ IsHost21(host21') /\ host21'.at = "accept" /\ host21'.end = k /\ host21'.listener = k
          /\ host21'.got = <<>> /\ host21'.verb = dialer.verb /\ host21'.name = dialer.name
      BY <2>2, <3>1 DEF IsHost21
    <3>3. ReadsOn
      BY <1>1, <1>2, <3>1, <3>2 DEF ReadsOn
    <3>4. AtIt' /\ ends'[k].state = "dialled" /\ Untouched(k)'
      BY <1>1, <1>5, <2>3, <3>1, <3>2 DEF AtIt, Agreed, Untouched
    <3>5. InBegin'
      BY <1>1, <1>3, <2>3, <3>1, <3>2, <3>4 DEF InBegin
    <3> QED
      BY <3>3, <3>5, ReadsOnKeeps
  <2>4. CASE dialer.active
    <3> DEFINE h == IF Secure THEN {"server"} ELSE {}
    <3>1. /\ host21' = [s EXCEPT !.at = IF Secure THEN "wrap" ELSE s.verb, !.end = k]
          /\ ends' = Stood(ends, k, "dialled", h)
          /\ IF Secure THEN UNCHANGED down ELSE Transfer!Answer(150)
      <4>1. s.listener = None /\ s.target = k /\ k # None /\ ends[k].state = "listening"
        BY <1>1, <1>2, <2>2, <2>4 DEF Agreed
      <4>2. /\ host21' = [s EXCEPT !.at = IF Secure THEN "wrap" ELSE s.verb, !.end = s.target]
            /\ ends' = Stood(ends, s.target, "dialled", h)
            /\ IF Secure THEN UNCHANGED down ELSE Transfer!Answer(150)
        BY <2>1, <4>1 DEF Transfer!OpenData, Transfer!Dial, Stood
      <4> QED
        BY <4>1, <4>2
    <3>2. /\ IsHost21(host21') /\ host21'.at = (IF Secure THEN "wrap" ELSE dialer.verb) /\ host21'.end = k
          /\ host21'.listener = None
          /\ host21'.got = <<>> /\ host21'.verb = dialer.verb /\ host21'.name = dialer.name
      BY <1>1, <2>2, <2>4, <3>1 DEF IsHost21, Agreed
    <3>3. "client" \notin h
      OBVIOUS
    <3> HIDE DEF h
    <3>4. /\ AreEnds(ends') /\ Len(ends') = Len(ends) /\ ends'[k].state = "dialled" /\ ends'[k].hands = h
          /\ ends'[k].wire = <<>> /\ ends'[k].closed = {}
      <4>1. /\ AreEnds(ends') /\ Len(ends') = Len(ends) /\ ends'[k].state = "dialled" /\ ends'[k].hands = h
            /\ ends'[k].wire = ends[k].wire /\ ends'[k].closed = ends[k].closed
        BY <1>1, <1>2, <3>1, EndStands
      <4> QED
        BY <1>1, <4>1 DEF Agreed, Untouched
    <3>5. ReadsOn
      BY <1>1, <1>2, <3>2, <3>4 DEF ReadsOn
    <3>6. AtIt' /\ Stands(k)'
      BY <1>1, <1>5, <2>4, <3>2, <3>4 DEF AtIt, Stands
    <3>7. CASE Secure
      <4>1. InBegin'
        BY <1>1, <1>3, <2>4, <3>1, <3>2, <3>3, <3>4, <3>6, <3>7 DEF InBegin
      <4> QED
        BY <3>5, <4>1, ReadsOnKeeps
    <3>8. CASE ~Secure
      <4>1. down' = <<Code(150)>>
        BY <1>1, <3>1, <3>8, Queues DEF Transfer!Answer, Code
      <4>2. Carries'
        <5>1. 0 \in Upto /\ Piece(0, 0) = <<>> /\ 0 <= 0
          BY Pieces DEF FtpConstants, Upto
        <5> QED
          BY <1>1, <1>2, <3>2, <3>4, <5>1 DEF Carries
      <4>3. Ended'
        BY <1>1, <3>4 DEF Ended
      <4>4. Busy'
        BY <1>1, <1>3, <3>2, <3>6, <3>8, <4>1, <4>2, <4>3 DEF Busy, Heard
      <4>5. InBegin'
        BY <3>8, <4>4 DEF InBegin, InTransfer
      <4> QED
        BY <3>5, <4>5, ReadsOnKeeps
    <3> QED
      BY <3>7, <3>8
  <2> QED
    BY <1>2, <2>3, <2>4
<1> QED
  BY <1>4, <1>5

LEMMA ReadCommandKeeps ==
    ASSUME FtpConstants, Dialogue, Transfer!ReadCommand
    PROVE  Dialogue'
<1>1. dialer.at \in {"reply", "gone", "endpoint", "begin"}
  BY CommandAt DEF Transfer!ReadCommand
<1> QED
  BY <1>1, ReadReplyKeeps, ReadGoneKeeps, ReadEndpointKeeps, ReadBeginKeeps

LEMMA ServerAcceptKeeps ==
    ASSUME FtpConstants, Dialogue, Transfer!ServerAccept
    PROVE  Dialogue'
<1> DEFINE k == dialer.end
           h == ends[k].hands
<1>1. host21.at = "accept" /\ UNCHANGED <<files, dialer, up>> /\ host21.at # dialer.verb
  BY DEF Transfer!ServerAccept, Dialogue, FtpTyped
<1>2. ~InTransfer /\ ~InWrap /\ ~Silent /\ ~InReply /\ ~InGone /\ ~InEndpoint
  BY <1>1 DEF InTransfer, Busy, Over, InWrap, Silent, InReply, InGone, InEndpoint, Asked, Says
<1>3. dialer.at = "begin" /\ InBegin
  BY <1>2 DEF Dialogue, InStep, MovingPlaces
<1>4. /\ up = <<>> /\ down = <<>> /\ ~dialer.active /\ AtIt /\ ~Secure
      /\ ends[k].state = "dialled" /\ Untouched(k) /\ host21.got = <<>>
  BY <1>1, <1>2, <1>3 DEF InBegin, Asked, Says
<1>5. /\ IsHost21(host21) /\ AreEnds(ends) /\ k \in 1..Len(ends) /\ dialer.got = <<>>
      /\ dialer.verb \in {"RETR", "STOR"} /\ host21.listener = k /\ host21.end = k /\ host21.verb = dialer.verb
      /\ Len(ends) \in Nat
  BY <1>3, <1>4 DEF Dialogue, FtpTyped, AreEnds, MovingPlaces, AtIt
<1>6. host21' = [host21 EXCEPT !.at = host21.verb] /\ ends' = Stood(ends, k, "accepted", h) /\ Transfer!Answer(150)
  BY <1>4, <1>5 DEF Transfer!ServerAccept, Stood
<1> HIDE DEF h
<1>7. /\ IsHost21(host21') /\ host21'.at = dialer.verb /\ host21'.end = k /\ host21'.listener = k
      /\ host21'.got = <<>> /\ host21'.verb = dialer.verb /\ host21'.name = host21.name
  BY <1>4, <1>5, <1>6 DEF IsHost21
<1>8. /\ AreEnds(ends') /\ Len(ends') = Len(ends) /\ ends'[k].state = "accepted"
      /\ ends'[k].wire = ends[k].wire /\ ends'[k].closed = ends[k].closed
  BY <1>5, <1>6, EndStands
<1>9. ends'[k].wire = <<>> /\ ends'[k].closed = {}
  BY <1>4, <1>8 DEF Untouched
<1>10. ReadsOn
  BY <1>1, <1>5, <1>7, <1>8 DEF ReadsOn
<1>11. down' = <<Code(150)>>
  BY <1>4, <1>6, Queues DEF Transfer!Answer, Code
<1>12. Carries'
  <2>1. 0 \in Upto /\ Piece(0, 0) = <<>> /\ 0 <= 0
    BY Pieces DEF FtpConstants, Upto
  <2> QED
    BY <1>1, <1>5, <1>7, <1>9, <2>1 DEF Carries
<1>13. AtIt' /\ Stands(k)' /\ Ended'
  BY <1>1, <1>4, <1>5, <1>7, <1>8, <1>9 DEF AtIt, Stands, Ended
<1>14. Busy'
  BY <1>1, <1>3, <1>4, <1>7, <1>11, <1>12, <1>13 DEF Busy, Heard
<1>15. InBegin'
  BY <1>4, <1>14 DEF InBegin, InTransfer
<1> QED
  BY <1>3, <1>10, <1>15, ReadsOnKeeps

\* Nor does the server leave a handshake.
LEMMA ServerWrappedKeeps ==
    ASSUME Dialogue, Transfer!ServerWrapped
    PROVE  FALSE
<1>1. host21.at = "wrap" /\ host21.at # dialer.verb
  BY DEF Transfer!ServerWrapped, Dialogue, FtpTyped
<1>2. ~InTransfer /\ ~InWrap /\ ~Silent /\ ~InReply /\ ~InGone /\ ~InEndpoint
  BY <1>1 DEF InTransfer, Busy, Over, InWrap, Silent, InReply, InGone, InEndpoint, Asked, Says
<1>3. InBegin
  BY <1>2 DEF Dialogue, InStep, MovingPlaces
<1>4. Secure /\ AtIt /\ "client" \notin ends[dialer.end].hands
  BY <1>1, <1>2, <1>3 DEF InBegin, Asked, Says
<1> QED
  BY <1>4 DEF Transfer!ServerWrapped, Transfer!Wrapped, AtIt

\* A server that moves a file is the one the client asked.
LEMMA BusyServer ==
    ASSUME FtpConstants, Dialogue, host21.at \in {"RETR", "STOR"}
    PROVE  /\ dialer.at \in MovingPlaces /\ dialer.verb = host21.at /\ Busy /\ ~Secure
           /\ host21.end = dialer.end /\ host21.listener = (IF dialer.active THEN None ELSE dialer.end)
           /\ ~dialer.active => ends[dialer.end].state = "accepted"
           /\ ends[dialer.end].state \in {"accepted", "dialled"}
           /\ dialer.at # "final" \/ dialer.verb = "STOR"
<1>1. ~InWrap /\ ~Silent /\ ~InReply /\ ~InGone /\ ~InEndpoint
  BY DEF InWrap, Silent, InReply, InGone, InEndpoint, Asked, Says
<1>2. dialer.at \in MovingPlaces
  BY <1>1 DEF Dialogue, InStep, MovingPlaces
<1>3. InTransfer
  <2>1. dialer.at = "begin" => InBegin
    BY <1>2, InMoving
  <2>2. InBegin => InTransfer
    BY DEF InBegin, Asked, Says
  <2> QED
    BY <1>2, <2>1, <2>2, InMoving
<1>4. Busy /\ ~Secure
  BY <1>3 DEF InTransfer, Over
<1>5. dialer.at # "final" \/ dialer.verb = "STOR"
  BY <1>2, InMoving DEF Dialogue, InStep
<1> QED
  BY <1>2, <1>4, <1>5 DEF Busy, AtIt, Stands

\* The server that reads or writes once more.
GoesOnServing == /\ UNCHANGED <<files, dialer, up, down>> /\ IsHost21(host21')
                 /\ host21'.at = host21.at /\ host21'.verb = host21.verb /\ host21'.name = host21.name
                 /\ host21'.listener = host21.listener /\ host21'.end = host21.end
                 /\ AreEnds(ends') /\ Len(ends') = Len(ends)
                 /\ ends'[dialer.end].state = ends[dialer.end].state
                 /\ ends'[dialer.end].closed = ends[dialer.end].closed

LEMMA GoesOnKeeps ==
    ASSUME FtpConstants, Dialogue, host21.at \in {"RETR", "STOR"}, GoesOnServing, Carries'
    PROVE  Dialogue'
<1>1. dialer.at \in MovingPlaces /\ dialer.verb = host21.at /\ Busy /\ ~Secure
  BY BusyServer
<1>2. Busy'
  BY <1>1 DEF Busy, Heard, AtIt, Stands, Ended, GoesOnServing
<1>3. InTransfer' /\ InBegin'
  BY <1>1, <1>2, InMoving DEF InTransfer, InBegin
<1>4. FtpTyped' /\ FilesWhole'
  BY DEF Dialogue, FtpTyped, FilesWhole, GoesOnServing
<1>5. InStep'
  <2>1. dialer.at # "final" \/ dialer.verb = "STOR"
    BY BusyServer
  <2> QED
    BY <1>1, <1>3, <2>1 DEF Dialogue, InStep, MovingPlaces, GoesOnServing
<1> QED
  BY <1>4, <1>5 DEF Dialogue

\* The server that is done with a transfer.
LEMMA FinishKeeps ==
    ASSUME FtpConstants, Dialogue, host21.at \in {"RETR", "STOR"}, NEW code \in {226, 426},
    Transfer!Finish(code),
           UNCHANGED <<dialer, up>>, \A n \in DOMAIN files' : files'[n] = File, Remains(code)
    PROVE  Dialogue'
<1> DEFINE k == dialer.end
           e == Transfer!CloseEnd(ends, k, "server")
<1>1. /\ dialer.at \in MovingPlaces /\ dialer.verb = host21.at /\ Busy /\ ~Secure
      /\ host21.end = k /\ host21.listener = (IF dialer.active THEN None ELSE k)
      /\ ~dialer.active => ends[k].state = "accepted"
      /\ dialer.at # "final" \/ dialer.verb = "STOR"
  BY BusyServer
<1>2. IsHost21(host21) /\ AreEnds(ends) /\ k \in 1..Len(ends) /\ dialer.active \in BOOLEAN
  BY <1>1, InMoving
<1>3. AreEnds(e) /\ Len(e) = Len(ends) /\ e[k].state = ends[k].state /\ e[k].wire = ends[k].wire
  BY <1>2, EndCloses
<1>4. ends' = Transfer!Shut(e, host21.listener) /\ host21' = Transfer!Cleared(host21) /\ Transfer!Answer(code)
  BY <1>1 DEF Transfer!Finish
<1> HIDE DEF e
<1>5. ends' = e
  BY <1>1, <1>2, <1>3, <1>4 DEF Transfer!Shut
<1>6. IsHost21(host21') /\ host21'.at = "idle" /\ host21'.listener = None /\ host21'.got = <<>>
  BY <1>2, <1>4 DEF Transfer!Cleared, IsHost21
<1>7. down' = HeardAll(code)
  BY <1>1, <1>4, Queues DEF Transfer!Answer, Code, Busy, Heard, HeardAll
<1>8. Over(code)'
  <2>1. Stands(k)'
    BY <1>1, <1>3, <1>5 DEF Busy, Stands
  <2>2. Remains(code)'
    BY <1>3, <1>5 DEF Remains
  <2> QED
    BY <1>1, <1>6, <1>7, <2>1, <2>2 DEF Over, Busy, HeardAll
<1>9. InTransfer' /\ InBegin'
  BY <1>1, <1>8, InMoving DEF InTransfer, InBegin
<1>10. FtpTyped' /\ FilesWhole'
  BY <1>3, <1>5, <1>6 DEF Dialogue, FtpTyped, FilesWhole
<1>11. InStep'
  BY <1>1, <1>6, <1>9 DEF Dialogue, InStep, MovingPlaces
<1> QED
  BY <1>10, <1>11 DEF Dialogue

LEMMA FileSendKeeps ==
    ASSUME FtpConstants, Dialogue, Transfer!Send
    PROVE  Dialogue'
<1> DEFINE k == dialer.end
<1>1. /\ dialer.at \in MovingPlaces /\ dialer.verb = "RETR" /\ Busy /\ host21.at = "RETR" /\ host21.end = k
      /\ UNCHANGED <<files, dialer, up>> /\ dialer.at # "final"
  BY BusyServer DEF Transfer!Send
<1>2. /\ IsHost21(host21) /\ AreEnds(ends) /\ k \in 1..Len(ends) /\ files[host21.name] = File
      /\ \A n \in DOMAIN files : files[n] = File
  BY <1>1, InMoving DEF Busy, AtIt
<1>3. PICK a \in Upto, b \in Upto : /\ a <= b /\ ends[k].wire = Piece(a, b)
                                    /\ dialer.got = Piece(0, a) /\ host21.got = Piece(0, b)
  BY <1>1 DEF Busy, Carries
<1>4. Len(File) \in Nat /\ 0 \in Upto /\ 0 <= b /\ Len(host21.got) = b
  BY <1>3, Pieces DEF FtpConstants, Upto
<1>5. CASE /\ host21.got # File
           /\ host21' = [host21 EXCEPT !.got = Append(@, File[Len(@) + 1])]
           /\ ends' = [ends EXCEPT ![k].wire = Append(@, File[Len(host21.got) + 1])]
           /\ UNCHANGED <<down, refusals>>
  <2> DEFINE more == Append(host21.got, File[b + 1])
             wire == Append(ends[k].wire, File[b + 1])
  <2>1. host21' = [host21 EXCEPT !.got = more] /\ ends' = Wired(ends, k, wire)
    BY <1>4, <1>5 DEF Wired
  <2>2. b < Len(File) /\ b + 1 \in Upto /\ a <= b + 1
    <3>1. b # Len(File)
      BY <1>3, <1>5, Pieces DEF FtpConstants
    <3> QED
      BY <1>3, <1>4, <3>1 DEF Upto
  <2>3. more = Piece(0, b + 1) /\ wire = Piece(a, b + 1)
    BY <1>3, <1>4, <2>2, Pieces DEF FtpConstants
  <2> HIDE DEF more, wire
  <2>4. /\ AreEnds(ends') /\ Len(ends') = Len(ends) /\ ends'[k].state = ends[k].state
        /\ ends'[k].wire = wire /\ ends'[k].closed = ends[k].closed
    BY <1>2, <2>1, EndWired
  <2>5. GoesOnServing /\ host21'.got = more
    BY <1>1, <1>2, <1>5, <2>1, <2>4 DEF GoesOnServing, IsHost21
  <2>6. Carries'
    BY <1>1, <1>3, <2>2, <2>3, <2>4, <2>5 DEF Carries
  <2> QED
    BY <1>1, <2>5, <2>6, GoesOnKeeps
<1>6. CASE host21.got = File /\ Transfer!Finish(226)
  <2>1. b = Len(File)
    BY <1>3, <1>6, Pieces DEF FtpConstants
  <2>2. Remains(226)
    BY <1>1, <1>3, <2>1 DEF Remains
  <2> QED
    BY <1>1, <1>2, <1>6, <2>2, FinishKeeps
<1>7. CASE Transfer!Finish(426)
  <2>1. Remains(426)
    BY <1>1, <1>3 DEF Remains
  <2> QED
    BY <1>1, <1>2, <1>7, <2>1, FinishKeeps
<1> QED
  BY <1>1, <1>2, <1>5, <1>6, <1>7 DEF Transfer!Send

LEMMA ReceiveKeeps ==
    ASSUME FtpConstants, Dialogue, Transfer!Receive
    PROVE  Dialogue'
<1> DEFINE k == dialer.end
<1>1. /\ dialer.at \in MovingPlaces /\ dialer.verb = "STOR" /\ Busy /\ host21.at = "STOR" /\ host21.end = k
      /\ UNCHANGED <<dialer, up>>
  BY BusyServer DEF Transfer!Receive
<1>2. /\ IsHost21(host21) /\ AreEnds(ends) /\ k \in 1..Len(ends)
      /\ \A n \in DOMAIN files : files[n] = File
  BY <1>1, InMoving
<1>3. PICK a \in Upto, b \in Upto : /\ a <= b /\ ends[k].wire = Piece(a, b)
                                    /\ host21.got = Piece(0, a) /\ dialer.got = Piece(0, b)
  BY <1>1 DEF Busy, Carries
<1>4. Len(File) \in Nat /\ 0 \in Upto
  BY Pieces DEF FtpConstants, Upto
<1>5. CASE /\ Transfer!Chunk(k)
           /\ host21' = [host21 EXCEPT !.got = Append(@, Head(ends[k].wire))]
           /\ ends' = [ends EXCEPT ![k].wire = Tail(@)] /\ UNCHANGED <<files, down, refusals>>
  <2> DEFINE more == Append(host21.got, Head(ends[k].wire))
             wire == Tail(ends[k].wire)
  <2>1. host21' = [host21 EXCEPT !.got = more] /\ ends' = Wired(ends, k, wire)
    BY <1>5 DEF Wired
  <2>2. a + 1 \in Upto /\ a + 1 <= b /\ a < b /\ a < Len(File) /\ 0 <= a
    <3>1. a # b
      BY <1>3, <1>5, Pieces DEF FtpConstants, Transfer!Chunk
    <3> QED
      BY <1>3, <1>4, <3>1 DEF Upto
  <2>3. more = Piece(0, a + 1) /\ wire = Piece(a + 1, b)
    <3>1. Append(Piece(0, a), File[a + 1]) = Piece(0, a + 1)
      BY <1>3, <1>4, <2>2, Pieces DEF FtpConstants
    <3>2. Head(Piece(a, b)) = File[a + 1] /\ Tail(Piece(a, b)) = Piece(a + 1, b)
      BY <1>3, <2>2, Pieces DEF FtpConstants
    <3> QED
      BY <1>3, <3>1, <3>2
  <2> HIDE DEF more, wire
  <2>4. /\ AreEnds(ends') /\ Len(ends') = Len(ends) /\ ends'[k].state = ends[k].state
        /\ ends'[k].wire = wire /\ ends'[k].closed = ends[k].closed
    BY <1>2, <2>1, EndWired
  <2>5. GoesOnServing /\ host21'.got = more
    BY <1>1, <1>2, <1>5, <2>1, <2>4 DEF GoesOnServing, IsHost21
  <2>6. Carries'
    BY <1>1, <1>3, <2>2, <2>3, <2>4, <2>5 DEF Carries
  <2> QED
    BY <1>1, <2>5, <2>6, GoesOnKeeps
<1>6. Remains(226) /\ Remains(426)
  BY <1>1, <1>3 DEF Remains
<1>7. CASE /\ Transfer!AtEnd(k, "server")
           /\ files' = [n \in DOMAIN files \cup {host21.name} |->
                          IF n = host21.name THEN host21.got ELSE files[n]]
           /\ Transfer!Finish(226)
  <2>1. ends[k].wire = <<>> /\ "client" \in ends[k].closed
    BY <1>7 DEF Transfer!AtEnd, Transfer!Other
  <2>2. dialer.got = File
    BY <1>1, <2>1 DEF Busy, Ended
  <2>3. host21.got = File
    <3>1. a = b
      <4>1. Piece(a, b) = <<>> /\ a <= b
        BY <1>3, <2>1
      <4>2. \A c, d \in Upto : c <= d /\ Piece(c, d) = <<>> => c = d
        BY Pieces DEF FtpConstants
      <4> QED
        BY <4>1, <4>2
    <3> QED
      BY <1>3, <2>2, <3>1
  <2>4. \A n \in DOMAIN files' : files'[n] = File
    BY <1>2, <1>7, <2>3
  <2> QED
    BY <1>1, <1>6, <1>7, <2>4, FinishKeeps
<1>8. CASE Transfer!Finish(426) /\ UNCHANGED files
  BY <1>1, <1>2, <1>6, <1>8, FinishKeeps
<1> QED
  BY <1>1, <1>5, <1>7, <1>8 DEF Transfer!Receive

\* What is inductive: the dialogue, for as long as no data stream has refused the client.
FtpInv ==
  /\ refusals = [face \in {"client", "server"} |-> refusals[face]]
  /\ refusals["client"] \in Nat
  /\ refusals["client"] = 0 => Dialogue

LEMMA FtpStarts ==
    ASSUME FtpConstants, Transfer!Init
    PROVE  FtpInv
<1>1. Dialogue
  <2>1. FtpTyped
    BY DEF Transfer!Init, FtpTyped, IsDialer, IsHost21, AreEnds, MovingPlaces
  <2>2. FilesWhole
    <3> DEFINE first == {CHOOSE n \in FtpNames : TRUE}
    <3>1. files = [n \in first |-> File] /\ dialer.result = None
      BY DEF Transfer!Init
    <3> HIDE DEF first
    <3> QED
      BY <3>1 DEF FilesWhole
  <2>3. InReply
    BY DEF Transfer!Init, InReply
  <2> QED
    BY <2>1, <2>2, <2>3 DEF Transfer!Init, Dialogue, InStep, MovingPlaces
<1> QED
  BY <1>1 DEF FtpInv, Transfer!Init

LEMMA FtpSteps ==
    ASSUME FtpConstants, FtpInv, [Transfer!Next]_(Transfer!vars)
    PROVE  FtpInv'
<1>0. CASE UNCHANGED Transfer!vars
  <2>1. UNCHANGED <<dialer, host21, up, down, ends, files, refusals>>
    BY <1>0 DEF Transfer!vars
  <2>2. (FtpTyped <=> FtpTyped') /\ (FilesWhole <=> FilesWhole')
    BY <2>1 DEF FtpTyped, FilesWhole
  <2>3. (InReply <=> InReply') /\ (InGone <=> InGone') /\ (InEndpoint <=> InEndpoint') /\ (InWrap <=> InWrap')
    BY <2>1 DEF InReply, InGone, InEndpoint, InWrap, Silent, Asked, Says
  <2>4. /\ Agreed <=> Agreed'
        /\ AtIt <=> AtIt'
        /\ \A k : Untouched(k) <=> Untouched(k)'
    BY <2>1 DEF Agreed, AtIt, Untouched
  <2>5. (Busy <=> Busy') /\ \A code : Over(code) <=> Over(code)'
    BY <2>1, <2>4 DEF Busy, Over, Stands, Carries, Ended, Heard, HeardAll, Remains
  <2>6. InTransfer <=> InTransfer'
    BY <2>5 DEF InTransfer
  <2>7. InBegin <=> InBegin'
    BY <2>1, <2>4, <2>6 DEF InBegin, Asked, Says, Untouched
  <2>8. InStep <=> InStep'
    BY <2>1, <2>3, <2>6, <2>7 DEF InStep, Silent
  <2> QED
    BY <2>1, <2>2, <2>8 DEF FtpInv, Dialogue
<1> SUFFICES ASSUME Transfer!Next
             PROVE  FtpInv'
  BY <1>0
<1>1. /\ refusals' = [face \in {"client", "server"} |-> refusals'[face]]
      /\ refusals'["client"] \in Nat /\ refusals["client"] <= refusals'["client"]
  <2>1. refusals' = refusals \/ \E face \in {"client", "server"} : refusals' = [refusals EXCEPT ![face] = @ + 1]
    <3>1. CASE Transfer!ClientStep
      <4>1. CASE Transfer!Answered \/ Transfer!Endpoint \/ Transfer!ClientWrapped \/ Transfer!Begin \/ Transfer!ClientAccept \/ Transfer!Final
        BY <4>1 DEF Transfer!Answered, Transfer!Endpoint, Transfer!ClientWrapped, Transfer!Begin,
           Transfer!ClientAccept, Transfer!Final
      <4>2. CASE Transfer!Read \/ Transfer!Write
        BY <4>2 DEF Transfer!Read, Transfer!Write, Transfer!Refusal
      <4> QED
        BY <3>1, <4>1, <4>2 DEF Transfer!ClientStep
    <3>2. CASE Transfer!ServerStep
      <4>1. CASE Transfer!ReadCommand \/ Transfer!ServerAccept \/ Transfer!ServerWrapped
        BY <4>1 DEF Transfer!ReadCommand, Transfer!ServerAccept, Transfer!ServerWrapped
      <4>2. CASE Transfer!Send \/ Transfer!Receive
        BY <4>2 DEF Transfer!Send, Transfer!Receive, Transfer!Refusal
      <4> QED
        BY <3>2, <4>1, <4>2 DEF Transfer!ServerStep
    <3>3. CASE Transfer!Call
      BY <3>3 DEF Transfer!Call, Transfer!Command, Transfer!Transfer, Transfer!Close
    <3> QED
      BY <3>1, <3>2, <3>3 DEF Transfer!Next
  <2>2. CASE refusals' = refusals
    BY <2>2 DEF FtpInv
  <2>3. ASSUME NEW face \in {"client", "server"}, refusals' = [refusals EXCEPT ![face] = @ + 1]
        PROVE  /\ refusals' = [it \in {"client", "server"} |-> refusals'[it]]
               /\ refusals'["client"] \in Nat /\ refusals["client"] <= refusals'["client"]
    <3>1. refusals = [it \in {"client", "server"} |-> refusals[it]] /\ refusals["client"] \in Nat
      BY DEF FtpInv
    <3>2. refusals'["client"] = refusals["client"] \/ refusals'["client"] = refusals["client"] + 1
      BY <2>3, <3>1
    <3>3. refusals' = [it \in {"client", "server"} |-> refusals'[it]]
      BY <2>3, <3>1
    <3> QED
      BY <3>1, <3>2, <3>3
  <2> QED
    BY <2>1, <2>2, <2>3
<1>2. ASSUME refusals'["client"] = 0
      PROVE  Dialogue'
  <2>1. refusals["client"] = 0 /\ Dialogue /\ Unrefused
    BY <1>1, <1>2 DEF FtpInv, Unrefused
  <2>2. CASE Transfer!ClientStep
    BY <2>1, <2>2, AnsweredKeeps, EndpointKeeps, ClientWrappedKeeps, VerbKeeps, ClientAcceptKeeps,
       ChunkKeeps,
       WriteKeeps, FinalKeeps DEF Transfer!ClientStep
  <2>3. CASE Transfer!ServerStep
    BY <2>1, <2>3, ReadCommandKeeps, ServerAcceptKeeps, ServerWrappedKeeps, FileSendKeeps,
       ReceiveKeeps DEF Transfer!ServerStep
  <2>4. CASE Transfer!Call
    BY <2>1, <2>4, CommandKeeps, TransferKeeps, HangUpKeeps DEF Transfer!Call
  <2> QED
    BY <2>2, <2>3, <2>4 DEF Transfer!Next
<1> QED
  BY <1>1, <1>2 DEF FtpInv

LEMMA FtpFollows ==
    ASSUME FtpInv
    PROVE  Transfer!DialogueHolds
  BY DEF FtpInv, Dialogue, InStep, Silent, FilesWhole, Transfer!DialogueHolds, Transfer!RepliesInStep,
     Transfer!WholeFiles

-----------------------------------------------------------------------------
(* The exchanges of HTTP                                                     *)

\* The least of some numbers.
LEMMA LeastNat ==
    ASSUME NEW T \in SUBSET Nat, T # {}
    PROVE  \E x \in T : \A y \in T : x <= y
<1>1. PICK R : IsWellFoundedOn(R, Nat) /\ R = {p \in Nat \X Nat : p[1] < p[2]}
  BY NatLessThanWellFounded, Zenon DEF OpToRel
<1>2. PICK x \in T : \A y \in T : <<y, x>> \notin R
  BY <1>1, WFMin
<1>3. \A y \in T : ~(y < x)
  BY <1>1, <1>2
<1> QED
  BY <1>3

\* A header is a name with a count or a word, and a body is a sequence.
IsHeader(h) ==
  /\ h = [name |-> h.name, value |-> h.value]
  /\ (\E n : h.value = Exchange!Count(n)) \/ (\E w : h.value = Exchange!Word(w))
IsMessage(m) ==
  /\ \E H : m.headers \in Seq(H) /\ \A h \in H : IsHeader(h)
  /\ \E B : m.body \in Seq(B)

\* What the constants are: messages, and None is no sequence.
HttpConstants ==
  /\ \A S : None \notin Seq(S)
  /\ \A m \in Requests \cup Responses : IsMessage(m)

\* Sequences in a row.
Glued(w, a, b) ==
  /\ Len(w) = Len(a) + Len(b)
  /\ \A i \in 1..Len(a) : w[i] = a[i]
  /\ \A i \in 1..Len(b) : w[Len(a) + i] = b[i]

LEMMA Joined ==
    ASSUME NEW S, NEW a \in Seq(S), NEW b \in Seq(S)
    PROVE  a \o b \in Seq(S) /\ Glued(a \o b, a, b)
<1> DEFINE x == a \o b
<1>1. /\ x \in Seq(S) /\ Len(x) = Len(a) + Len(b)
      /\ \A i \in 1..Len(a) + Len(b) : x[i] = IF i <= Len(a) THEN a[i] ELSE b[i - Len(a)]
  BY ONLY a \in Seq(S), b \in Seq(S), ConcatProperties, Zenon
<1>2. Len(a) \in Nat /\ Len(b) \in Nat
  OBVIOUS
<1> HIDE DEF x
<1>3. \A i \in 1..Len(a) : x[i] = a[i]
  BY <1>1, <1>2
<1>4. ASSUME NEW i \in 1..Len(b)
      PROVE  x[Len(a) + i] = b[i]
  <2>1. Len(a) + i \in 1..Len(a) + Len(b) /\ ~(Len(a) + i <= Len(a)) /\ (Len(a) + i) - Len(a) = i
    BY <1>2
  <2> QED
    BY <1>1, <2>1
<1> QED
  BY <1>1, <1>3, <1>4 DEF x, Glued

FourGlued(w, a, b, c, d) ==
  /\ Len(w) = Len(b) + 2 + Len(d)
  /\ w[1] = a[1] /\ w[Len(b) + 2] = c[1]
  /\ \A i \in 1..Len(b) : w[i + 1] = b[i]
  /\ \A i \in 1..Len(d) : w[Len(b) + 2 + i] = d[i]

LEMMA FourInARow ==
    ASSUME NEW S, NEW a \in Seq(S), NEW b \in Seq(S), NEW c \in Seq(S), NEW d \in Seq(S), Len(a) = 1, Len(c) = 1
    PROVE  a \o b \o c \o d \in Seq(S) /\ FourGlued(a \o b \o c \o d, a, b, c, d)
<1> DEFINE x == a \o b
           y == x \o c
           w == y \o d
<1>1. x \in Seq(S) /\ Glued(x, a, b)
  BY Joined
<1> HIDE DEF x
<1>2. y \in Seq(S) /\ Glued(y, x, c)
  BY <1>1, Joined
<1> HIDE DEF y
<1>3. w \in Seq(S) /\ Glued(w, y, d)
  BY <1>2, Joined
<1> HIDE DEF w
<1>4. Len(b) \in Nat /\ Len(x) = Len(b) + 1 /\ Len(y) = Len(b) + 2
  BY <1>1, <1>2 DEF Glued
<1>5. w[1] = a[1] /\ w[Len(b) + 2] = c[1]
  <2>1. 1 \in 1..Len(y) /\ 1 \in 1..Len(x) /\ 1 \in 1..Len(a) /\ 1 \in 1..Len(c)
        /\ Len(b) + 2 \in 1..Len(y) /\ Len(x) + 1 = Len(b) + 2
    BY <1>4
  <2> QED
    BY <1>1, <1>2, <1>3, <2>1 DEF Glued
<1>6. ASSUME NEW i \in 1..Len(b)
      PROVE  w[i + 1] = b[i]
  <2>1. i + 1 \in 1..Len(y) /\ i + 1 \in 1..Len(x) /\ Len(a) + i = i + 1
    BY <1>4
  <2>2. w[i + 1] = y[i + 1] /\ y[i + 1] = x[i + 1]
    BY <1>2, <1>3, <2>1 DEF Glued
  <2>3. x[Len(a) + i] = b[i]
    BY <1>1 DEF Glued
  <2> QED
    BY <2>1, <2>2, <2>3
<1> QED
  BY <1>3, <1>4, <1>5, <1>6 DEF w, y, x, Glued, FourGlued

Headed(m) == Exchange!Rendered(m)
StartItem(start) == <<"start", start>>
HeaderItem(h) == <<"header", h>>
BlankItem == <<"blank">>
ByteItem(b) == <<"byte", b>>

\* The headers that are written: every count is the body's, and a body has one.
LEMMA RenderedIs ==
    ASSUME HttpConstants, NEW m, IsMessage(m), Exchange!Renders(m)
    PROVE  /\ Headed(m) = [i \in 1..Len(Headed(m)) |-> Headed(m)[i]] /\ Len(Headed(m)) \in Nat
           /\ \A i \in 1..Len(Headed(m)) :
                /\ IsHeader(Headed(m)[i])
                /\ Headed(m)[i].name = "content-length" => Headed(m)[i].value = Exchange!Count(Len(m.body))
           /\ m.body = <<>> \/ \E i \in 1..Len(Headed(m)) : Headed(m)[i].name = "content-length"
           /\ Len(m.body) \in Nat /\ m.body = [i \in 1..Len(m.body) |-> m.body[i]]
<1> DEFINE n == Len(m.headers)
           h == [name |-> "content-length", value |-> Exchange!Count(Len(m.body))]
<1>1. PICK H : m.headers \in Seq(H) /\ \A x \in H : IsHeader(x)
  BY DEF IsMessage
<1>2. Len(m.body) \in Nat /\ m.body = [i \in 1..Len(m.body) |-> m.body[i]]
  BY DEF IsMessage
<1>3. n \in Nat /\ m.headers = [i \in 1..n |-> m.headers[i]] /\ DOMAIN m.headers = 1..n
      /\ \A i \in 1..n : IsHeader(m.headers[i])
  BY <1>1
<1>4. \A i \in 1..n : m.headers[i].name = "content-length" => m.headers[i].value = Exchange!Count(Len(m.body))
  BY <1>3 DEF Exchange!Renders
<1>5. CASE Headed(m) = m.headers /\ (m.body = <<>> \/ Exchange!Header(m.headers, "content-length") # None)
  <2>1. m.body = <<>> \/ \E i \in 1..n : m.headers[i].name = "content-length"
    BY <1>3, <1>5 DEF Exchange!Header, Exchange!Named
  <2> QED
    BY <1>2, <1>3, <1>4, <1>5, <2>1
<1>6. CASE Headed(m) = Append(m.headers, h)
  <2>1. IsHeader(h) /\ h.name = "content-length" /\ h.value = Exchange!Count(Len(m.body))
    BY DEF IsHeader
  <2> DEFINE G == H \cup {h}
             s == Append(m.headers, h)
  <2> HIDE DEF h
  <2>2. m.headers \in Seq(G) /\ h \in G
    BY <1>1
  <2> HIDE DEF G
  <2>3. s \in Seq(G) /\ Len(s) = n + 1 /\ s[n + 1] = h /\ \A i \in 1..n : s[i] = m.headers[i]
    BY <2>2
  <2>4. s = [i \in 1..(n + 1) |-> s[i]]
    BY <2>3
  <2>5. \A i \in 1..(n + 1) : i \in 1..n \/ i = n + 1
    BY <1>3
  <2> HIDE DEF s
  <2>6. \A i \in 1..(n + 1) :
          /\ IsHeader(s[i])
          /\ s[i].name = "content-length" => s[i].value = Exchange!Count(Len(m.body))
    BY <1>3, <1>4, <2>1, <2>3, <2>5
  <2>7. n + 1 \in Nat /\ n + 1 \in 1..(n + 1)
    BY <1>3
  <2>8. Headed(m) = s
    BY <1>6 DEF s, h
  <2> QED
    BY <1>2, <2>1, <2>3, <2>4, <2>6, <2>7, <2>8
<1> QED
  BY <1>5, <1>6 DEF Exchange!Rendered, Headed

\* What is written: the start, the headers, a blank line, the body.
IsWritten(w, m, start) ==
  LET k == Len(Headed(m)) IN
  /\ Len(w) = k + 2 + Len(m.body)
  /\ w[1] = StartItem(start) /\ w[k + 2] = BlankItem
  /\ \A i \in 1..k : w[i + 1] = HeaderItem(Headed(m)[i])
  /\ \A i \in 1..Len(m.body) : w[k + 2 + i] = ByteItem(m.body[i])

LEMMA WritesIs ==
    ASSUME HttpConstants, NEW m, IsMessage(m), Exchange!Renders(m), NEW start
    PROVE  /\ \E S : Exchange!Writes(m, start) \in Seq(S)
           /\ IsWritten(Exchange!Writes(m, start), m, start)
<1> DEFINE k == Len(Headed(m))
           L == Len(m.body)
           a == <<StartItem(start)>>
           b == [i \in 1..k |-> HeaderItem(Headed(m)[i])]
           c == <<BlankItem>>
           d == [i \in 1..L |-> ByteItem(m.body[i])]
           S == {StartItem(start), BlankItem} \cup {HeaderItem(Headed(m)[i]) : i \in 1..k}
                  \cup {ByteItem(m.body[i]) : i \in 1..L}
<1>1. k \in Nat /\ L \in Nat /\ DOMAIN Headed(m) = 1..k /\ DOMAIN m.body = 1..L
  BY RenderedIs
<1>2. Exchange!Writes(m, start) = a \o b \o c \o d
  <2>1. b = [i \in DOMAIN Exchange!Rendered(m) |-> <<"header", Exchange!Rendered(m)[i]>>]
    BY <1>1 DEF Headed, HeaderItem
  <2>2. d = [i \in DOMAIN m.body |-> <<"byte", m.body[i]>>]
    BY <1>1 DEF ByteItem
  <2>3. a = <<<<"start", start>>>> /\ c = <<<<"blank">>>>
    BY DEF StartItem, BlankItem
  <2> HIDE DEF a, b, c, d
  <2> QED
    BY <2>1, <2>2, <2>3, Zenon DEF Exchange!Writes
<1>3. a \in Seq(S) /\ Len(a) = 1 /\ a[1] = StartItem(start) /\ c \in Seq(S) /\ Len(c) = 1 /\ c[1] = BlankItem
  <2> DEFINE x == StartItem(start)
             y == BlankItem
  <2>1. x \in S /\ y \in S
    OBVIOUS
  <2> HIDE DEF x, y, S
  <2>2. <<x>> \in Seq(S) /\ <<y>> \in Seq(S) /\ Len(<<x>>) = 1 /\ Len(<<y>>) = 1 /\ <<x>>[1] = x /\ <<y>>[1] = y
    BY <2>1
  <2> QED
    BY <2>2 DEF x, y
<1>4. b \in Seq(S) /\ Len(b) = k /\ \A i \in 1..k : b[i] = HeaderItem(Headed(m)[i])
  <2>1. \A i \in 1..k : HeaderItem(Headed(m)[i]) \in S
    OBVIOUS
  <2> HIDE DEF S, k
  <2> QED
    BY <1>1, <2>1
<1>5. d \in Seq(S) /\ Len(d) = L /\ \A i \in 1..L : d[i] = ByteItem(m.body[i])
  <2>1. \A i \in 1..L : ByteItem(m.body[i]) \in S
    OBVIOUS
  <2> HIDE DEF S, L
  <2> QED
    BY <1>1, <2>1
<1> HIDE DEF a, b, c, d, S
<1>6. a \o b \o c \o d \in Seq(S) /\ IsWritten(a \o b \o c \o d, m, start)
  <2> DEFINE w == a \o b \o c \o d
  <2>1. w \in Seq(S) /\ FourGlued(w, a, b, c, d)
    BY <1>3, <1>4, <1>5, FourInARow, Zenon
  <2> HIDE DEF w
  <2>2. IsWritten(w, m, start)
    BY <1>3, <1>4, <1>5, <2>1 DEF IsWritten, FourGlued
  <2> QED
    BY <2>1, <2>2 DEF w
<1> QED
  BY <1>2, <1>6

\* What is left of it when the stream ends early.
IsPart(items, w) == \E n \in 0..Len(w) : items = SubSeq(w, 1, n)

LEMMA PartIs ==
    ASSUME NEW S, NEW w \in Seq(S), NEW n \in 0..Len(w)
    PROVE  /\ SubSeq(w, 1, n) \in Seq(S) /\ Len(SubSeq(w, 1, n)) = n
           /\ SubSeq(w, 1, n) = [i \in 1..n |-> w[i]]
  OBVIOUS

LEMMA PartOfPart ==
    ASSUME NEW S, NEW w \in Seq(S), NEW items, IsPart(items, w), NEW n \in 0..Len(items)
    PROVE  IsPart(SubSeq(items, 1, n), w)
<1>1. PICK j \in 0..Len(w) : items = SubSeq(w, 1, j)
  BY DEF IsPart
<1>2. items \in Seq(S) /\ Len(items) = j /\ \A i \in 1..j : items[i] = w[i]
  BY <1>1, PartIs
<1>3. n \in 0..Len(w) /\ n \in 0..j /\ n \in Nat
  BY <1>1, <1>2
<1>4. SubSeq(items, 1, n) = [i \in 1..n |-> items[i]] /\ SubSeq(w, 1, n) = [i \in 1..n |-> w[i]]
  BY <1>2, <1>3, PartIs
<1>5. \A i \in 1..n : items[i] = w[i]
  BY <1>2, <1>3
<1> QED
  BY <1>3, <1>4, <1>5 DEF IsPart

LEMMA WholeIsPart ==
    ASSUME NEW S, NEW w \in Seq(S)
    PROVE  IsPart(w, w) /\ IsPart(<<>>, w)
<1>1. Len(w) \in 0..Len(w) /\ w = SubSeq(w, 1, Len(w))
  OBVIOUS
<1>2. 0 \in 0..Len(w) /\ <<>> = SubSeq(w, 1, 0)
  OBVIOUS
<1>3. IsPart(w, w)
  BY <1>1, Zenon DEF IsPart
<1>4. IsPart(<<>>, w)
  BY <1>2, Zenon DEF IsPart
<1> QED
  BY <1>3, <1>4

\* A head that was read was whole, and its counts are those that were written.
LEMMA HeadIs ==
    ASSUME HttpConstants, NEW m, IsMessage(m), Exchange!Renders(m), NEW w, NEW start, IsWritten(w, m, start),
           NEW S, w \in Seq(S), NEW items, IsPart(items, w), Exchange!Blank(items) # {}
    PROVE  /\ Exchange!HeadEnd(items) = Len(Headed(m)) + 2
           /\ items \in Seq(S) /\ Len(items) \in Len(Headed(m)) + 2..Len(w)
           /\ \A i \in 1..Len(items) : items[i] = w[i]
           /\ Exchange!HeadersOf(items) = [i \in 1..Len(Headed(m)) |-> Exchange!Split(Headed(m)[i])]
<1> DEFINE k == Len(Headed(m))
<1>1. PICK n \in 0..Len(w) : items = SubSeq(w, 1, n)
  BY DEF IsPart
<1>2. items \in Seq(S) /\ Len(items) = n /\ DOMAIN items = 1..n /\ \A i \in 1..n : items[i] = w[i]
  BY <1>1, PartIs
<1>3. k \in Nat /\ Len(m.body) \in Nat
  BY RenderedIs
<1>4. \A x, y : <<x, y>> # BlankItem
  BY DEF BlankItem
<1>5. ASSUME NEW i \in 1..n, items[i] = BlankItem
      PROVE  i = k + 2
  <2>1. Len(w) = k + 2 + Len(m.body)
    BY DEF IsWritten
  <2>2. i # 1
    <3>1. w[1] # BlankItem
      BY <1>4 DEF IsWritten, StartItem
    <3> QED
      BY <1>2, <1>5, <3>1
  <2>3. ASSUME NEW j \in 1..k
        PROVE  i # j + 1
    <3>1. w[j + 1] = HeaderItem(Headed(m)[j])
      BY DEF IsWritten
    <3> QED
      BY <1>2, <1>4, <1>5, <3>1 DEF HeaderItem
  <2>4. ASSUME NEW j \in 1..Len(m.body)
        PROVE  i # k + 2 + j
    <3>1. w[k + 2 + j] = ByteItem(m.body[j])
      BY DEF IsWritten
    <3> QED
      BY <1>2, <1>4, <1>5, <3>1 DEF ByteItem
  <2> DEFINE L == Len(m.body)
  <2>5. i \in Nat /\ 1 <= i /\ i <= k + 2 + L
    <3>1. i \in Nat /\ 1 <= i /\ i <= n /\ n \in Nat /\ n <= Len(w) /\ Len(w) \in Nat
      OBVIOUS
    <3> HIDE DEF k, L
    <3> QED
      BY <2>1, <3>1 DEF L
  <2> HIDE DEF k
  <2>6. CASE i < k + 2
    <3>1. i - 1 \in 1..k /\ (i - 1) + 1 = i
      BY <1>3, <2>2, <2>5, <2>6
    <3> QED
      BY <2>3, <3>1
  <2>7. CASE i > k + 2
    <3> HIDE DEF L
    <3>1. i - (k + 2) \in 1..L /\ k + 2 + (i - (k + 2)) = i
      <4>1. L \in Nat /\ k \in Nat
        BY <1>3 DEF L
      <4> QED
        BY <2>5, <2>7, <4>1
    <3> QED
      BY <2>4, <3>1 DEF L
  <2> QED
    BY <1>3, <2>5, <2>6, <2>7
<1>6. Exchange!Blank(items) = {i \in 1..n : items[i] = BlankItem}
  BY <1>2 DEF Exchange!Blank, BlankItem
<1>7. Exchange!Blank(items) = {k + 2} /\ k + 2 \in 1..n
  BY <1>5, <1>6
<1>8. Exchange!HeadEnd(items) = k + 2
  BY <1>7 DEF Exchange!HeadEnd
<1>9. \A i \in 1..k : items[i + 1][2] = Headed(m)[i]
  <2>1. \A i \in 1..k : i + 1 \in 1..n
    BY <1>3, <1>7
  <2>2. \A h : HeaderItem(h)[2] = h
    BY DEF HeaderItem
  <2> QED
    BY <1>2, <2>1, <2>2 DEF IsWritten
<1>10. Exchange!HeadersOf(items) = [i \in 1..k |-> Exchange!Split(items[i + 1][2])]
  <2>1. (k + 2) - 2 = k
    BY <1>3
  <2> QED
    BY <1>8, <2>1 DEF Exchange!HeadersOf
<1>11. Exchange!HeadersOf(items) = [i \in 1..k |-> Exchange!Split(Headed(m)[i])]
  BY <1>9, <1>10
<1>12. n \in k + 2..Len(w)
  BY <1>3, <1>7
<1> QED
  BY <1>2, <1>8, <1>11, <1>12

\* What is counted among the headers that were read.
LEMMA LengthIs ==
    ASSUME HttpConstants, NEW m, IsMessage(m), Exchange!Renders(m),
           NEW headers, headers = [i \in 1..Len(Headed(m)) |-> Exchange!Split(Headed(m)[i])]
    PROVE  \/ Exchange!Header(headers, "content-length") = None /\ m.body = <<>>
           \/ Exchange!Header(headers, "content-length") = Exchange!Count(Len(m.body))
              /\ Exchange!Count(Len(m.body)) # None
<1> DEFINE k == Len(Headed(m))
           found == Exchange!Named(headers, "content-length")
<1>1. k \in Nat /\ Len(m.body) \in Nat
  BY RenderedIs
<1>2. found = {i \in 1..k : headers[i].name = "content-length"}
  BY DEF Exchange!Named
<1>3. ASSUME NEW i \in 1..k
      PROVE  /\ headers[i].name = "content-length" <=> Headed(m)[i].name = "content-length"
             /\ headers[i].name = "content-length" => headers[i].value = Exchange!Count(Len(m.body))
  <2> DEFINE h == Headed(m)[i]
  <2>1. IsHeader(h) /\ (h.name = "content-length" => h.value = Exchange!Count(Len(m.body)))
    BY RenderedIs
  <2>2. headers[i] = Exchange!Split(h)
    OBVIOUS
  <2> HIDE DEF h
  <2>3. h.name = "split" => Exchange!Split(h).name = "x"
    BY DEF Exchange!Split
  <2>4. h.name # "split" => Exchange!Split(h).name = h.name
    BY <2>1 DEF Exchange!Split, IsHeader
  <2>5. h.name = "content-length" => Exchange!Split(h).value = h.value
    <3>1. Exchange!Count(Len(m.body)) # Exchange!Word("padded")
      BY DEF Exchange!Count, Exchange!Word
    <3> QED
      BY <2>1, <3>1 DEF Exchange!Split
  <2> QED
    BY <2>1, <2>2, <2>3, <2>4, <2>5 DEF h
<1>4. Exchange!Count(Len(m.body)) # None
  <2> DEFINE T == {"count", Len(m.body)}
  <2>1. <<"count", Len(m.body)>> \in Seq(T)
    OBVIOUS
  <2> QED
    BY <2>1 DEF HttpConstants, Exchange!Count
<1>5. CASE found = {}
  <2>1. m.body = <<>>
    BY <1>2, <1>3, <1>5, RenderedIs
  <2> QED
    BY <1>5, <2>1 DEF Exchange!Header
<1>6. CASE found # {}
  <2>1. found \in SUBSET Nat
    BY <1>1, <1>2
  <2>2. \E i \in found : \A j \in found : i <= j
    BY <1>6, <2>1, LeastNat
  <2> HIDE DEF found
  <2>3. PICK i \in found : i = CHOOSE q \in found : \A j \in found : q <= j
    BY <2>2
  <2>4. Exchange!Header(headers, "content-length") = headers[i].value
    BY <1>6, <2>3 DEF Exchange!Header, found
  <2>5. headers[i].value = Exchange!Count(Len(m.body))
    BY <1>2, <1>3, <2>3
  <2> QED
    BY <1>4, <2>4, <2>5
<1> QED
  BY <1>5, <1>6

\* Whatever is left of a message, it is read as what was written or not as a message.
LEMMA Decodes ==
    ASSUME HttpConstants, NEW m, IsMessage(m), Exchange!Renders(m), NEW w, NEW start, IsWritten(w, m, start),
           NEW S, w \in Seq(S), NEW items, IsPart(items, w), NEW legal,
           Exchange!Reads(items, legal)[1] = "message"
    PROVE  /\ Exchange!Reads(items, legal)[2].start = start
           /\ Exchange!Reads(items, legal)[2].body = m.body
<1> DEFINE k == Len(Headed(m))
           L == Len(m.body)
           headers == Exchange!HeadersOf(items)
           length == Exchange!Header(headers, "content-length")
           bodyRead == Exchange!ReadBody(items)
<1>1. items # <<>> /\ Exchange!Blank(items) # {}
  BY DEF Exchange!Reads
<1>2. bodyRead[1] = "unsupported" \/ bodyRead[1] = "malformed" \/ bodyRead[1] = "long" \/ bodyRead[1] = "body"
  BY DEF Exchange!ReadBody
<1>3. /\ bodyRead[1] = "body"
      /\ Exchange!Reads(items, legal) = <<"message", [start |-> items[1][2], headers |-> headers, body |-> bodyRead[2]]>>
  <2> HIDE DEF bodyRead, headers
  <2>1. bodyRead[1] # "body" => bodyRead[1] # "message"
    BY <1>2
  <2> QED
    BY <1>1, <2>1 DEF Exchange!Reads, bodyRead, headers
<1>4. /\ items \in Seq(S) /\ Len(items) \in k + 2..Len(w)
      /\ \A i \in 1..Len(items) : items[i] = w[i]
      /\ Exchange!HeadEnd(items) = k + 2
      /\ headers = [i \in 1..k |-> Exchange!Split(Headed(m)[i])]
  BY <1>1, HeadIs
<1>5. k \in Nat /\ L \in Nat /\ m.body = [i \in 1..L |-> m.body[i]] /\ Len(w) = k + 2 + L
  BY RenderedIs DEF IsWritten
<1>6. \/ length = None /\ m.body = <<>>
      \/ length = Exchange!Count(L) /\ Exchange!Count(L) # None
  BY <1>4, LengthIs
<1> HIDE DEF headers
<1>7. items[1][2] = start
  <2>1. 1 \in 1..Len(items)
    BY <1>4, <1>5
  <2>2. items[1] = StartItem(start)
    BY <1>4, <2>1 DEF IsWritten
  <2> QED
    BY <2>2 DEF StartItem
<1>8. bodyRead[2] = m.body
  <2>1. CASE length = None /\ m.body = <<>>
    BY <1>3, <2>1 DEF Exchange!ReadBody, headers
  <2>2. CASE length = Exchange!Count(L) /\ Exchange!Count(L) # None
    <3>1. length[1] = "count" /\ length[2] = L
      BY <2>2 DEF Exchange!Count
    <3> HIDE DEF L
    <3>2. /\ ~(Exchange!Available(items) < L)
          /\ bodyRead[2] = [i \in 1..L |-> Exchange!ReadExact(items, L)[i][2]]
      BY <1>3, <2>2, <3>1 DEF Exchange!ReadBody, headers
    <3>3. Len(items) = k + 2 + L
      BY <1>4, <1>5, <3>2 DEF Exchange!Available
    <3>4. Exchange!ReadExact(items, L) = [i \in 1..L |-> items[k + 2 + i]]
      <4> DEFINE h == k + 2
      <4>1. h \in Nat /\ Len(items) = h + L /\ Exchange!ReadExact(items, L) = SubSeq(items, h + 1, h + L)
        BY <1>4, <1>5, <3>3 DEF Exchange!ReadExact
      <4> HIDE DEF h, k
      <4>2. SubSeq(items, h + 1, h + L) = [i \in 1..L |-> items[h + i]]
        BY <1>4, <1>5, <4>1
      <4> QED
        BY <4>1, <4>2 DEF h
    <3>5. ASSUME NEW i \in 1..L
          PROVE  items[k + 2 + i] = ByteItem(m.body[i])
      <4>1. k + 2 + i \in 1..Len(items)
        BY <1>5, <3>3
      <4> QED
        BY <1>4, <4>1 DEF IsWritten, L
    <3>6. \A b : ByteItem(b)[2] = b
      BY DEF ByteItem
    <3> QED
      BY <1>5, <3>2, <3>4, <3>5, <3>6
  <2> QED
    BY <1>6, <2>1, <2>2
<1> QED
  BY <1>3, <1>7, <1>8

\* A request on the stream is its client's, what is handled is that request, and what is
\* answered is on the stream as it was written, but for where the stream was cut.
IsCaller(c) == c = [slot \in {"at", "sent", "result"} |-> c[slot]]
IsAnswerer(s) == s = [slot \in {"at", "handled", "answered"} |-> s[slot]]

Legible(m) == IsMessage(m) /\ Exchange!Renders(m)
IsSent(m, start) ==
  /\ httpClient.at = "asked" /\ Legible(m) /\ IsPart(request, Exchange!Writes(m, start))
  /\ httpClient.sent.start = start /\ httpClient.sent.body = m.body
IsHandled(h) == h.start = httpClient.sent.start /\ h.body = httpClient.sent.body
StatusOf(m) == [version |-> m.version, status |-> m.status]
IsAnswered(m) == Legible(m) /\ IsPart(response, Exchange!Writes(m, StatusOf(m)))

\* The stream of a request that was refused before anything was written on it.
Unwritten == request = <<>> /\ response = <<>> /\ link = "eof" /\ httpServer.handled = None

HttpInv ==
  /\ IsCaller(httpClient) /\ IsAnswerer(httpServer)
  /\ httpServer.handled # None => request # None /\ IsHandled(httpServer.handled)
  /\ httpServer.at \in {"accepting", "serving", "closing"} => request # None
  /\ httpClient.at = "asked" => request # None
  /\ request # None =>
       \/ /\ \E m, start : IsSent(m, start)
          /\ response = <<>> \/ IsAnswered(httpServer.answered)
       \/ Unwritten

LEMMA HttpStarts == Exchange!Init => HttpInv
  BY DEF Exchange!Init, HttpInv, IsCaller, IsAnswerer

LEMMA HttpFollows == HttpInv =>
    (httpServer.handled # None /\ httpClient.sent # None =>
       httpServer.handled.start = httpClient.sent.start /\ httpServer.handled.body = httpClient.sent.body)
  BY DEF HttpInv, IsHandled

\* A message, nothing, or one of three refusals.
LEMMA ReadsAs ==
    ASSUME NEW items, NEW legal
    PROVE  LET what == Exchange!Reads(items, legal)[1] IN
           what = "nothing" \/ what = "malformed" \/ what = "long" \/ what = "unsupported" \/ what = "message"
<1> DEFINE bodyRead == Exchange!ReadBody(items)
<1>1. bodyRead[1] = "unsupported" \/ bodyRead[1] = "malformed" \/ bodyRead[1] = "long" \/ bodyRead[1] = "body"
  BY DEF Exchange!ReadBody
<1> HIDE DEF bodyRead
<1>2. \/ Exchange!Reads(items, legal)[1] = "nothing" \/ Exchange!Reads(items, legal)[1] = "malformed"
      \/ bodyRead[1] # "body" /\ Exchange!Reads(items, legal) = bodyRead
      \/ Exchange!Reads(items, legal)[1] = "message"
  BY DEF Exchange!Reads, bodyRead
<1> QED
  BY <1>1, <1>2

\* What a face reads of a legible message.
LEMMA ReadsIs ==
    ASSUME HttpConstants, NEW m, Legible(m), NEW start, NEW items, IsPart(items, Exchange!Writes(m, start)),
           NEW legal, Exchange!Reads(items, legal)[1] = "message"
    PROVE  /\ Exchange!Reads(items, legal)[2].start = start
           /\ Exchange!Reads(items, legal)[2].body = m.body
<1> DEFINE w == Exchange!Writes(m, start)
<1>1. (\E S : w \in Seq(S)) /\ IsWritten(w, m, start)
  BY WritesIs DEF Legible
<1>2. PICK S : w \in Seq(S)
  BY <1>1
<1> HIDE DEF w
<1>3. IsPart(items, w)
  BY DEF w
<1> QED
  BY <1>1, <1>2, <1>3, Decodes DEF Legible

LEMMA WritesPart ==
    ASSUME HttpConstants, NEW m, Legible(m), NEW start
    PROVE  /\ Exchange!Writes(m, start) # None
           /\ IsPart(Exchange!Writes(m, start), Exchange!Writes(m, start))
           /\ \A items, n : IsPart(items, Exchange!Writes(m, start)) /\ n \in 0..Len(items) =>
                IsPart(SubSeq(items, 1, n), Exchange!Writes(m, start)) /\ SubSeq(items, 1, n) # None
<1> DEFINE w == Exchange!Writes(m, start)
<1>1. PICK S : w \in Seq(S)
  BY WritesIs DEF Legible
<1> HIDE DEF w
<1>2. IsPart(w, w) /\ w # None
  BY <1>1, WholeIsPart DEF HttpConstants
<1>3. ASSUME NEW items, NEW n, IsPart(items, w), n \in 0..Len(items)
      PROVE  IsPart(SubSeq(items, 1, n), w) /\ SubSeq(items, 1, n) # None
  <2>1. IsPart(SubSeq(items, 1, n), w)
    BY <1>1, <1>3, PartOfPart
  <2>2. PICK j \in 0..Len(w) : SubSeq(items, 1, n) = SubSeq(w, 1, j)
    BY <2>1 DEF IsPart
  <2>3. SubSeq(w, 1, j) \in Seq(S)
    BY <1>1, PartIs
  <2> QED
    BY <2>1, <2>2, <2>3 DEF HttpConstants
<1> QED
  BY <1>2, <1>3 DEF w

LEMMA EmptyIsSome == HttpConstants => <<>> # None
<1>1. <<>> \in Seq({})
  OBVIOUS
<1> QED
  BY <1>1 DEF HttpConstants

LEMMA HttpSteps ==
    ASSUME HttpConstants, HttpInv, [Exchange!Next]_(Exchange!vars)
    PROVE  HttpInv'
<1>0. CASE UNCHANGED Exchange!vars
  BY <1>0 DEF Exchange!vars, HttpInv, IsCaller, IsAnswerer, IsHandled, IsSent, IsAnswered, Unwritten
<1>1. ASSUME NEW url \in Urls, NEW r \in Requests, Exchange!Ask(url, r)
      PROVE  HttpInv'
  <2> DEFINE start == [method |-> r.method, target |-> Exchange!Target(url)]
             w == Exchange!Writes(r, start)
  <2>1. httpClient.at = "idle" /\ request = None /\ httpServer.handled = None
    BY <1>1 DEF Exchange!Ask, HttpInv
  <2>2. CASE UNCHANGED <<httpServer, request, response>> /\ httpClient' = [at |-> "idle", sent |-> None, result |-> <<"refused">>]
    BY <2>1, <2>2 DEF HttpInv, IsCaller, IsAnswerer
  <2>3. CASE /\ Exchange!RequestStands(r) /\ request' = w /\ response' = <<>>
             /\ httpClient' = [at |-> "asked", sent |-> [start |-> start, body |-> r.body], result |-> None]
             /\ httpServer' = IF httpServer.at = "waiting" THEN [httpServer EXCEPT !.at = "accepting"] ELSE httpServer
    <3>1. Legible(r)
      <4>1. Exchange!Renders(r)
        BY <2>3, Zenon DEF Exchange!RequestStands
      <4> QED
        BY <4>1 DEF Legible, HttpConstants
    <3>2. w # None /\ IsPart(w, w)
      BY <3>1, WritesPart
    <3>3. IsSent(r, start)'
      BY <2>3, <3>1, <3>2 DEF IsSent, Legible, IsMessage, Exchange!Renders
    <3>4. IsAnswerer(httpServer') /\ httpServer'.handled = None
      BY <2>1, <2>3 DEF HttpInv, IsAnswerer
    <3>5. IsCaller(httpClient')
      BY <2>3 DEF IsCaller
    <3> HIDE DEF w
    <3> QED
      BY <2>3, <3>2, <3>3, <3>4, <3>5 DEF HttpInv
  <2>4. CASE /\ request' = <<>> /\ response' = <<>> /\ link' = "eof"
             /\ httpClient' = [at |-> "idle", sent |-> None, result |-> <<"refused">>]
             /\ httpServer' = IF httpServer.at = "waiting" THEN [httpServer EXCEPT !.at = "accepting"] ELSE httpServer
    <3>1. IsAnswerer(httpServer') /\ httpServer'.handled = None
      BY <2>1, <2>4 DEF HttpInv, IsAnswerer
    <3>2. <<>> # None
      BY EmptyIsSome
    <3>3. IsCaller(httpClient') /\ httpClient'.at = "idle"
      BY <2>4 DEF IsCaller
    <3> QED
      BY <2>4, <3>1, <3>2, <3>3 DEF HttpInv, Unwritten
  <2> QED
    BY <1>1, <2>2, <2>3, <2>4 DEF Exchange!Ask
<1>2. ASSUME NEW how, Exchange!Cut(how)
      PROVE  HttpInv'
  <2>1. PICK n \in 0..Len(request), j \in 0..Len(response) :
          request' = SubSeq(request, 1, n) /\ response' = SubSeq(response, 1, j)
    BY <1>2 DEF Exchange!Cut
  <2>2. request # None /\ link = "up" /\ UNCHANGED <<httpClient, httpServer>>
    BY <1>2 DEF Exchange!Cut
  <2>7. (\E m, start : IsSent(m, start)) /\ (response = <<>> \/ IsAnswered(httpServer.answered))
    BY <2>2 DEF HttpInv, Unwritten
  <2>3. PICK m, start : IsSent(m, start)
    BY <2>7
  <2>4. request' # None /\ IsSent(m, start)'
    BY <2>1, <2>2, <2>3, WritesPart DEF IsSent
  <2>5. CASE IsAnswered(httpServer.answered)
    <3>1. IsAnswered(httpServer.answered)'
      BY <2>1, <2>2, <2>5, WritesPart DEF IsAnswered
    <3> QED
      BY <2>2, <2>4, <3>1 DEF HttpInv, IsHandled
  <2>6. CASE response = <<>>
    <3>1. response' = <<>>
      BY <2>1, <2>6
    <3> QED
      BY <2>2, <2>4, <3>1 DEF HttpInv, IsHandled
  <2> QED
    BY <2>5, <2>6, <2>7
<1>3. CASE Exchange!Accept \/ Exchange!Round \/ Exchange!CloseListener
  <2>1. /\ UNCHANGED <<httpClient, request, response, link>> /\ IsAnswerer(httpServer')
        /\ httpServer'.handled = httpServer.handled /\ httpServer'.answered = httpServer.answered
        /\ httpServer'.at \in {"accepting", "serving", "closing"} =>
             httpServer.at \in {"accepting", "serving", "closing"}
    BY <1>3 DEF Exchange!Accept, Exchange!Round, Exchange!CloseListener, HttpInv, IsAnswerer
  <2> QED
    BY <2>1 DEF HttpInv, IsHandled, IsSent, IsAnswered, Unwritten
<1>4. CASE Exchange!Hear
  BY <1>4 DEF Exchange!Hear, HttpInv, IsCaller, IsAnswerer
<1>6. CASE Exchange!Abandon
  <2>1. httpServer.at \in {"waiting", "ended"} /\ httpClient.at = "idle" /\ request' = None
        /\ UNCHANGED <<httpClient, httpServer>>
    BY <1>6 DEF Exchange!Abandon
  <2>2. Unwritten
    BY <1>6, <2>1 DEF Exchange!Abandon, HttpInv, IsSent
  <2> QED
    BY <2>1, <2>2 DEF HttpInv, Unwritten
<1>7. CASE Exchange!Handle /\ Unwritten
  <2> DEFINE reads == Exchange!Reads(request, Exchange!RequestLine(request[1][2]))
  <2>1. reads[1] = "nothing" /\ link # "reset" /\ request # None
    BY <1>7, EmptyIsSome DEF Exchange!Reads, Unwritten
  <2>4. /\ httpServer.at = "serving" /\ UNCHANGED <<httpClient, request, link>>
        /\ \E outcome \in {reads} : httpServer' = [httpServer EXCEPT !.at = "closing"] /\ UNCHANGED response
    <3> HIDE DEF reads
    <3>1. Exchange!Handle /\ reads = Exchange!Reads(request, Exchange!RequestLine(request[1][2]))
      BY <1>7 DEF reads
    <3> QED
      BY <2>1, <3>1 DEF Exchange!Handle
  <2>2. httpServer' = [httpServer EXCEPT !.at = "closing"] /\ request # None
        /\ UNCHANGED <<httpClient, request, response, link>>
    BY <2>1, <2>4
  <2>3. IsAnswerer(httpServer') /\ httpServer'.handled = httpServer.handled
    BY <2>2 DEF HttpInv, IsAnswerer
  <2> QED
    BY <1>7, <2>2, <2>3 DEF HttpInv, Unwritten
<1>5. CASE Exchange!Handle /\ ~Unwritten
  <2> DEFINE reads == Exchange!Reads(request, Exchange!RequestLine(request[1][2]))
  <2>1. request # None /\ UNCHANGED <<httpClient, request>>
    BY <1>5 DEF Exchange!Handle, HttpInv
  <2>2. PICK m, start : IsSent(m, start)
    BY <1>5, <2>1 DEF HttpInv
  <2>3. IsSent(m, start)'
    BY <2>1, <2>2 DEF IsSent
  <2>4. reads[1] = "message" => IsHandled(reads[2])
    BY <2>2, ReadsIs DEF IsSent, IsHandled
  <2>5. ASSUME NEW r, NEW handled, Legible(r), Exchange!Answer(r, handled), handled # None => IsHandled(handled)
        PROVE  HttpInv'
    <3>1. /\ IsAnswerer(httpServer') /\ httpServer'.at = "closing"
          /\ httpServer'.handled = handled /\ httpServer'.answered = r
      BY <2>5 DEF Exchange!Answer, HttpInv, IsAnswerer
    <3>2. IsAnswered(r)'
      BY <2>5, WritesPart DEF Exchange!Answer, IsAnswered, StatusOf
    <3> QED
      BY <2>1, <2>3, <2>5, <3>1, <3>2 DEF HttpInv, IsHandled
  <2>6. ASSUME NEW place, httpServer' = [httpServer EXCEPT !.at = place], response' = response
        PROVE  HttpInv'
    <3>1. IsAnswerer(httpServer') /\ httpServer'.handled = httpServer.handled
          /\ httpServer'.answered = httpServer.answered
      BY <2>6 DEF HttpInv, IsAnswerer
    <3> QED
      BY <1>5, <2>1, <2>3, <2>6, <3>1 DEF HttpInv, IsHandled, IsAnswered
  <2>7. ASSUME NEW status
        PROVE  Legible(Exchange!Refused(status))
    <3> DEFINE r == Exchange!Refused(status)
    <3>1. r.headers = <<>> /\ r.body = <<>>
      BY DEF Exchange!Refused
    <3> HIDE DEF r
    <3>2. <<>> \in Seq({}) /\ DOMAIN <<>> = {}
      OBVIOUS
    <3>3. IsMessage(r)
      BY <3>1, <3>2 DEF IsMessage
    <3>4. Exchange!Renders(r)
      BY <3>1, <3>2 DEF Exchange!Renders
    <3> QED
      BY <3>3, <3>4 DEF Legible, r
  <2>8. \A r \in Responses : Exchange!ResponseStands(r) => Legible(r)
    BY DEF Legible, HttpConstants, Exchange!ResponseStands
  <2>10. \/ reads[1] = "nothing" \/ reads[1] = "malformed" \/ reads[1] = "long" \/ reads[1] = "unsupported"
         \/ reads[1] = "message"
    BY ReadsAs
  <2> HIDE DEF reads
  <2>9. \/ Exchange!Falls
        \/ httpServer' = [httpServer EXCEPT !.at = "closing"] /\ UNCHANGED response
        \/ \E status : Exchange!Answer(Exchange!Refused(status), None)
        \/ /\ reads[1] = "message"
           /\ \E r \in Responses : Exchange!ResponseStands(r) /\ Exchange!Answer(r, reads[2])
    <3>1. Exchange!Handle
      BY <1>5
    <3>2. httpServer.at = "serving" /\ reads = Exchange!Reads(request, Exchange!RequestLine(request[1][2]))
      BY <3>1 DEF Exchange!Handle, reads
    <3>3. CASE link = "reset"
      BY <3>1, <3>2, <3>3 DEF Exchange!Handle
    <3>4. CASE link # "reset" /\ reads[1] = "nothing"
      BY <3>1, <3>2, <3>4 DEF Exchange!Handle
    <3>5. CASE link # "reset" /\ reads[1] = "malformed"
      BY <3>1, <3>2, <3>5 DEF Exchange!Handle
    <3>7. CASE link # "reset" /\ reads[1] = "long"
      BY <3>1, <3>2, <3>7 DEF Exchange!Handle
    <3>8. CASE link # "reset" /\ reads[1] = "unsupported"
      BY <3>1, <3>2, <3>8 DEF Exchange!Handle
    <3>6. CASE link # "reset" /\ reads[1] = "message"
      BY <3>1, <3>2, <3>6 DEF Exchange!Handle
    <3> QED
      BY <2>10, <3>3, <3>4, <3>5, <3>6, <3>7, <3>8
  <2> QED
    BY <2>4, <2>5, <2>6, <2>7, <2>8, <2>9 DEF Exchange!Falls
<1> QED
  BY <1>0, <1>1, <1>2, <1>3, <1>4, <1>5, <1>6, <1>7 DEF Exchange!Next

LEMMA HttpHears ==
    ASSUME HttpConstants, HttpInv, [Exchange!Next]_(Exchange!vars)
    PROVE  [httpClient.at = "asked" /\ httpClient'.at = "idle" /\ httpClient'.result[1] = "message" =>
              /\ httpClient'.result[2].start.status = httpServer.answered.status
              /\ httpClient'.result[2].body = httpServer.answered.body]_(Exchange!vars)
<1> SUFFICES ASSUME Exchange!Next, httpClient.at = "asked", httpClient'.at = "idle", httpClient'.result[1] = "message"
             PROVE  /\ httpClient'.result[2].start.status = httpServer.answered.status
                    /\ httpClient'.result[2].body = httpServer.answered.body
  OBVIOUS
<1> DEFINE m == httpServer.answered
           reads == Exchange!Reads(response, Exchange!StatusLine(response[1][2]))
<1>1. Exchange!Hear
  BY DEF Exchange!Next, Exchange!Ask, Exchange!Cut, Exchange!Handle, Exchange!Accept, Exchange!Round,
         Exchange!CloseListener, Exchange!Abandon
<1>2. httpClient'.result = reads
  BY <1>1 DEF Exchange!Hear, HttpInv, IsCaller
<1>3. response # <<>>
  BY <1>2 DEF Exchange!Reads
<1>4. IsAnswered(m)
  BY <1>1, <1>3 DEF HttpInv, Unwritten, Exchange!Hear
<1>5. reads[2].start = StatusOf(m) /\ reads[2].body = m.body
  BY <1>2, <1>4, ReadsIs DEF IsAnswered
<1> HIDE DEF reads, m
<1> QED
  BY <1>2, <1>5 DEF StatusOf, m

-----------------------------------------------------------------------------
(* The parts side by side: what the runs check of each                       *)

\* A step of the whole is a step of its part, and leaves the others alone.
LEMMA TransportStep ==
    ASSUME [Next]_partVars
    PROVE  /\ [Transfer!Next]_(Transfer!vars) /\ [Exchange!Next]_(Exchange!vars)
           /\ [Socket!Next]_(Socket!vars) /\ [Socket!FabricNext]_(Socket!fabricVars)
<1> USE DEF ftpVars, Transfer!vars, httpVars, Exchange!vars, socketVars, fabricVars,
       Socket!vars, Socket!fabricVars
<1>1. CASE UNCHANGED partVars
  BY <1>1 DEF partVars, transportVars
<1>2. CASE TransportNext
  BY <1>2 DEF TransportNext
<1>3. CASE UNCHANGED transportVars
  BY <1>3 DEF transportVars
<1> QED
  BY <1>1, <1>2, <1>3 DEF Next

\* While no data stream has refused the client, the next reply it reads is its next command's, and a
\* file comes whole to either side, whatever commands it sends, in which mode and wherever the
\* server's streams are refused (ftp/client.py, ftp/server.py).
THEOREM DialoguesHold ==
    ASSUME FtpConstants
    PROVE  Spec => []DialogueHolds
<1>1. Init => FtpInv
  BY FtpStarts DEF Init, TransportInit
<1>2. FtpInv /\ [Next]_partVars => FtpInv'
  BY TransportStep, FtpSteps
<1>3. FtpInv => DialogueHolds
  BY FtpFollows DEF DialogueHolds
<1> QED
  BY <1>1, <1>2, <1>3, PTL DEF Spec

\* What a handler runs on is the request its client sent and what a caller is given is the response
\* written for it, status and body whole, for any messages and wherever the stream is cut
\* (http/codec.py, http/client.py, http/server.py).
THEOREM ExchangesAreWhole ==
    ASSUME HttpConstants
    PROVE  Spec => ExchangesWhole
<1>1. Init => HttpInv
  BY HttpStarts DEF Init, TransportInit
<1>2. HttpInv /\ [Next]_partVars => HttpInv'
  BY TransportStep, HttpSteps
<1>3. HttpInv => (httpServer.handled # None /\ httpClient.sent # None =>
        /\ httpServer.handled.start = httpClient.sent.start
        /\ httpServer.handled.body = httpClient.sent.body)
  BY HttpFollows
<1>4. HttpInv /\ [Next]_partVars =>
        [httpClient.at = "asked" /\ httpClient'.at = "idle" /\ httpClient'.result[1] = "message" =>
           /\ httpClient'.result[2].start.status = httpServer.answered.status
           /\ httpClient'.result[2].body = httpServer.answered.body]_(Exchange!vars)
  BY TransportStep, HttpHears
<1> QED
  BY <1>1, <1>2, <1>3, <1>4, PTL DEF Spec, ExchangesWhole, Exchange!ExchangesWhole

\* A socket that was closed keeps no descriptor, and a datagram reaches the one socket whose name
\* its destination is (hostsocket.py, datagram.py).
THEOREM SocketsAlwaysHold ==
    ASSUME TicksOrNone, NamesApart
    PROVE  Spec => []SocketsHold
<1>1. Init => SocketInv /\ FabricInv
  BY SocketInit, FabricInitHolds DEF Init, TransportInit
<1>2. SocketInv /\ FabricInv /\ [Next]_partVars => (SocketInv /\ FabricInv)'
  BY TransportStep, SocketKeeps, FabricKeeps
<1>3. SocketInv /\ FabricInv => SocketsHold
  BY SocketReleases, FabricReaches DEF SocketsHold, Socket!SocketsHold
<1> QED
  BY <1>1, <1>2, <1>3, PTL DEF Spec

\* Of what a close promises the calls it races, what they say is proved, and only that they end
\* is left to the runs (hostsocket.py).
THEOREM CloseCutsAll ==
    ASSUME TicksOrNone
    PROVE  Spec => (CloseCuts <=> Socket!CloseEndsCalls)
<1>1. Init => SocketInv
  BY SocketInit DEF Init, TransportInit
<1>2. SocketInv /\ [Next]_partVars => SocketInv'
  BY TransportStep, SocketKeeps
<1>3. SocketInv /\ [Next]_partVars =>
        [caller.caught /\ caller'.at = "idle" => answer' = "StaleHandle"]_(Socket!vars)
  BY TransportStep, ParkedStep
<1> QED
  BY <1>1, <1>2, <1>3, PTL DEF Spec, CloseCuts, Socket!CloseCuts, Socket!ParkedCloseIsStale
=============================================================================
