------------------------------ MODULE HostParts -------------------------------
(* The parts of a host side by side, each with its own state: of net/transport *)
(* an FTP dialogue (ftp), HTTP exchanges (http), a socket under two threads    *)
(* (socket), the datagram fabric (fabric), a TLS client and server (tls); of   *)
(* the live side the clients of one image on a channel (wire), the frames of   *)
(* that channel (frames), the machine under its threads (machine), the users   *)
(* of one front end (front), the runners of a link (world), the physical delta *)
(* (physical) and an image loaded (load); of image files, the modules Python   *)
(* imports (mount) and the ledger of honors (honors). A behaviour is of one    *)
(* part.                                                                       *)
EXTENDS Integers, Sequences

CONSTANTS  \* ftp, http, socket and fabric, tls
  FtpNames, File, Secure,
  Urls, Requests, Responses, Routes, HttpHosts, MaxBody, MaxAsks,
  Deadline, Timeouts, Sockets, Addresses, Ports, Any, FirstPort, MaxClock, MaxSends, MaxPort,
  MaxPending, MaxItem, MaxSeal, Cases, Trusted

CONSTANTS  \* wire and frames, front, world and machine, physical and load
  Clients, Bare, Pages, Room, MaxJobs, MaxCrashes, MaxLost,
  Payloads, MaxPayload, MaxFrames, MaxDamage, MaxFed,
  Users, Consoles, Fronts, Lines, MaxTyped, MaxPokes,
  Runners, Sessions, Viewers, Procs, Threads, Closers, Outsider, MaxRuns,
  Paths, Datas, Gone, Worlds, ObjectRoom

CONSTANTS  \* mount, honors
  Dotted, DottedParent, HostHas, Mountable, Stat, MaxMade,
  Members, HonorsRoles, NamesGiven, HonorsRoom, Commands, MaxHonors

CONSTANTS MaxCalls, Faults, None

VARIABLES part,
  files, dialer, host21, up, down, ends, calls, refusals,
  httpClient, httpServer, request, response, link, listening, asks,
  shut, sock, open, caller, answer, closer, ready, clock, uses,
  local, state, inbox, table, nextPort, taken, delivered,
  ep, chan, fin, offer, tlsServer, tlsClient, item, read,
  mode, gate, rx, tx, image, client, crashed, lost,
  line, sent, buffer, got, skipped, damaged, fed,
  stands, begun, held, flock, fd, mapped, closed, peers,
  front, running, mirror, inside, user, typing, typed, pokes, faults,
  shared, proc, pc, runs, segment, laid, reserved, builder, booted, seat,
  base, result, entry, ops, applied, at, verdict,
  shown, like, loaded,
  finder, modules, sys, bound, imported,
  file, copy, kept, honored, honors

----------------------------------------------------------------------------

Transfer == INSTANCE Ftp WITH Names <- FtpNames, client <- dialer, server <- host21, faults <- refusals
Exchange == INSTANCE Http WITH
  Hosts <- HttpHosts, Secured <- Secure,
  client <- httpClient, server <- httpServer, up <- request, down <- response
Socket == INSTANCE HostSocket WITH
  Hosts <- Addresses, calls <- uses, closed <- shut, user <- caller, got <- taken
Handshake == INSTANCE Tls WITH Store <- Trusted, server <- tlsServer, client <- tlsClient, got <- read
Wire == INSTANCE LiveWire
Front == INSTANCE LiveFront WITH image <- running, gate <- inside, buffer <- typing
World == INSTANCE LiveWorld WITH Consoles <- Viewers, Peer <- Outsider
Physical == INSTANCE LivePhysical WITH Room <- ObjectRoom, image <- applied, world <- shown
Mounted == INSTANCE Mount WITH
  Names <- Dotted, Parent <- DottedParent, Images <- Mountable, made <- modules, outcome <- imported
Ledger == INSTANCE Honors WITH
  Roles <- HonorsRoles, Given <- NamesGiven, Room <- HonorsRoom, MaxCalls <- MaxHonors,
  outcome <- honored, calls <- honors

ftpVars == <<files, dialer, host21, up, down, ends, calls, refusals>>
httpVars == <<httpClient, httpServer, request, response, link, listening, asks>>
socketVars == <<shut, sock, open, caller, answer, closer, ready, clock, uses>>
fabricVars == <<local, state, inbox, table, nextPort, taken, delivered>>
tlsVars == <<ep, chan, fin, offer, tlsServer, tlsClient, item, read>>
wireVars == <<mode, gate, rx, tx, image, client, crashed, lost>>
frameVars == <<line, sent, buffer, got, skipped, damaged, fed>>
machineVars == <<stands, begun, held, flock, fd, mapped, closed, peers>>
frontVars == <<front, running, mirror, inside, user, typing, typed, pokes, faults>>
worldVars == <<shared, proc, pc, runs, segment, laid, reserved, builder, booted, seat>>
physicalVars == <<base, result, entry, ops, applied, at, verdict>>
loadVars == <<shown, like, loaded>>
mountVars == <<finder, modules, sys, bound, imported>>
honorsVars == <<file, copy, kept, honored, honors>>
transportVars == <<ftpVars, httpVars, socketVars, fabricVars, tlsVars>>
liveVars == <<wireVars, frameVars, machineVars, frontVars, worldVars, physicalVars, loadVars>>
fileVars == <<mountVars, honorsVars>>
partVars == <<part, transportVars, liveVars, fileVars>>

----------------------------------------------------------------------------
(* A part that begins in one state is there whatever the part, and so are the *)
(* streams of tls; the others are None where they have no part.               *)

TransportInit ==
  /\ Transfer!Init /\ Exchange!Init /\ Socket!Init /\ Socket!FabricInit
  /\ IF part = "tls" THEN Handshake!Init
     ELSE /\ ep = [r \in Handshake!Roles |-> Handshake!NewStream(r, 1)] /\ chan = None
          /\ fin = None /\ offer = None /\ tlsServer = None /\ tlsClient = None /\ item = None /\ read = None

LiveInit ==
  /\ Wire!FramesInit /\ World!MachineInit
  /\ IF part = "wire" THEN Wire!Init
     ELSE /\ mode = None /\ gate = None /\ rx = None /\ tx = None
          /\ image = None /\ client = None /\ crashed = None /\ lost = None
  /\ IF part = "front" THEN Front!Init
     ELSE /\ front = None /\ running = None /\ mirror = None /\ inside = None /\ user = None
          /\ typing = None /\ typed = None /\ pokes = None /\ faults = None
  /\ IF part = "world" THEN World!Init
     ELSE /\ shared = None /\ proc = None /\ pc = None /\ runs = None /\ segment = None
          /\ laid = None /\ reserved = None /\ builder = None /\ booted = None /\ seat = None
  /\ IF part = "physical" THEN Physical!Init
     ELSE /\ base = None /\ result = None /\ entry = None /\ ops = None /\ applied = None
          /\ at = None /\ verdict = None
  /\ IF part = "load" THEN Physical!LoadInit
     ELSE shown = None /\ like = None /\ loaded = None

FileInit == Mounted!Init /\ Ledger!Init

Init ==
  /\ part \in {"ftp", "http", "socket", "fabric", "tls",
               "wire", "frames", "machine", "front", "world", "physical", "load",
               "mount", "honors"}
  /\ TransportInit /\ LiveInit /\ FileInit

TransportNext ==
  \/ part = "ftp" /\ Transfer!Next /\ UNCHANGED <<httpVars, socketVars, fabricVars, tlsVars>>
  \/ part = "http" /\ Exchange!Next /\ UNCHANGED <<ftpVars, socketVars, fabricVars, tlsVars>>
  \/ part = "socket" /\ Socket!Next /\ UNCHANGED <<ftpVars, httpVars, fabricVars, tlsVars>>
  \/ part = "fabric" /\ Socket!FabricNext /\ UNCHANGED <<ftpVars, httpVars, socketVars, tlsVars>>
  \/ part = "tls" /\ Handshake!Next /\ UNCHANGED <<ftpVars, httpVars, socketVars, fabricVars>>

\* What stays of the live side when one part of it moves.
ChannelStays == UNCHANGED <<frontVars, worldVars, physicalVars, loadVars>>
HostStays == UNCHANGED <<wireVars, frameVars, physicalVars, loadVars>>
ImageStays == UNCHANGED <<wireVars, frameVars, machineVars, frontVars, worldVars>>

LiveNext ==
  \/ part = "wire" /\ Wire!Next /\ ChannelStays /\ UNCHANGED <<frameVars, machineVars>>
  \/ part = "frames" /\ Wire!FramesNext /\ ChannelStays /\ UNCHANGED <<wireVars, machineVars>>
  \/ part = "machine" /\ World!MachineNext /\ ChannelStays /\ UNCHANGED <<wireVars, frameVars>>
  \/ part = "front" /\ Front!Next /\ HostStays /\ UNCHANGED <<machineVars, worldVars>>
  \/ part = "world" /\ World!Next /\ HostStays /\ UNCHANGED <<machineVars, frontVars>>
  \/ part = "physical" /\ Physical!Next /\ ImageStays /\ UNCHANGED loadVars
  \/ part = "load" /\ Physical!LoadNext /\ ImageStays /\ UNCHANGED physicalVars

FileNext ==
  \/ part = "mount" /\ Mounted!Next /\ UNCHANGED honorsVars
  \/ part = "honors" /\ Ledger!Next /\ UNCHANGED mountVars

Next ==
  /\ UNCHANGED part
  /\ \/ TransportNext /\ UNCHANGED <<liveVars, fileVars>>
     \/ LiveNext /\ UNCHANGED <<transportVars, fileVars>>
     \/ FileNext /\ UNCHANGED <<transportVars, liveVars>>

\* The fairness of each part, in the behaviours of that part.
Fairness ==
  /\ WF_ftpVars(part = "ftp" /\ Transfer!ClientStep /\ UNCHANGED refusals)
  /\ WF_ftpVars(part = "ftp" /\ Transfer!ServerStep /\ UNCHANGED refusals)
  /\ WF_socketVars(part = "socket" /\ Socket!UserStep)
  /\ WF_socketVars(part = "socket" /\ Socket!CloseStep)
  /\ \A r \in Handshake!Roles :
       /\ WF_tlsVars(part = "tls" /\ Handshake!Step(r))
       /\ WF_tlsVars(part = "tls" /\ Handshake!Close(r) /\ ep[r].why # None)

Spec == Init /\ [][Next]_partVars /\ Fairness

----------------------------------------------------------------------------
(* Properties *)

\* A dialogue never slips by a reply, and what it transfers is whole (Ftp).
DialogueHolds == Transfer!DialogueHolds

\* While no data stream refuses, every call of the FTP client comes back (Ftp).
CallsReturn == part = "ftp" => Transfer!CallsReturn

\* A handler runs on the request sent, and a response returned is its own (Http).
ExchangesWhole == Exchange!ExchangesWhole

\* A close of a stream cuts short what it races, and says so (HostSocket).
CloseCuts == Socket!CloseCuts

\* Sockets release what they held and reach who holds the name (HostSocket).
SocketsHold == Socket!SocketsHold

\* Whatever the two ends of a handshake agreed on, they agreed on it alike (Tls).
HandshakeAgrees == part = "tls" => Handshake!HandshakeAgrees

\* No handshake hangs, and no refusal stays with the end that made it (Tls).
HandshakeEnds == part = "tls" => Handshake!HandshakeEnds

\* Answers are their requests' own, a job is not refused for another's, and what is told
\* "ok" was applied, while no client dies inside a call (LiveWire).
WireAnswers == part = "wire" => Wire!OwnAnswer /\ Wire!TransactionsHold /\ Wire!ToldIsDone

\* Frames come whole from a line that damages some (LiveWire).
FramesCome == Wire!WholeFramesCome

\* An image has what its users submitted, and their mirrors have the image (LiveFront).
FrontFollows == part = "front" => Front!FrontFollows

\* A link has one owner, and its image one thread in it (LiveWorld).
LinkOwned == (part = "world" => World!LinkOwned) /\ World!NeverUnderLeaf

\* A physical delta carries one image exactly to the other, and a world loaded from its
\* entries has the objects, types, rows and text of the one they were made of (LivePhysical).
FormsAgree ==
  /\ part = "physical" => Physical!DeltaIsDifference
  /\ part = "load" => Physical!LoadInverts

\* What a program reaches through its modules is one image's at a time (Mount).
OneImageReached == Mounted!OneImageReached

\* verify answers for the file of the ledger, whatever was refused half way (Honors).
FileVerifies == Ledger!FileVerifies
=============================================================================
