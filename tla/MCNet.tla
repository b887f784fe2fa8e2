-------------------------------- MODULE MCNet --------------------------------
(* Parts of the network side by side, each with its own state: the control    *)
(* and link planes, the text of a document, a filter table, the connection    *)
(* tracking plane, a SLIP line and two WireGuard devices, that restart        *)
(* (tunnel, this module's own constants) or also roam (roam, fewer packets    *)
(* and more addresses). A behaviour is of one part.                           *)
EXTENDS WireGuard, TLC

CONSTANTS d1, d2, dx

VARIABLES part,
  view, flight, busy, waiting, planClock, events, ops, staged, applied, intent,
  doc, text, edits, ip,
  chains, rules, bases, sets, counters, deltas, writes,
  entries, age,
  opened, closed, hardware, decoder, frames, lineOps, carried, seen

----------------------------------------------------------------------------
(* Documents *)

Plain == [name |-> "a", kind |-> "nic", mac |-> None, mtu |-> None, mode |-> None,
          members |-> <<>>, peer |-> None, vid |-> None, on |-> None,
          addresses |-> <<>>, routes |-> <<>>]
Doc(devices) == [devices |-> devices, includes |-> <<>>]

Four == <<4, 1>>
Six == <<6, 1>>
Addressed == [Plain EXCEPT !.addresses = <<[ip |-> Four, prefix |-> 24]>>,
                           !.routes = <<[to |-> [ip |-> Four, length |-> 0], via |-> Four,
                                         metric |-> 100]>>]
Tagged == [Plain EXCEPT !.name = "b", !.kind = "vlan", !.vid = 7, !.on = "a"]
Bridged == [Plain EXCEPT !.name = "b", !.kind = "bridge", !.members = <<"a">>]
Pair == <<[Plain EXCEPT !.kind = "veth", !.peer = "b"],
          [Plain EXCEPT !.name = "b", !.kind = "veth"]>>

Office == Doc(<<Tagged, Addressed>>)
Bridge == [Doc(<<Bridged>>) EXCEPT !.includes = <<Doc(<<Addressed>>)>>]
Refused == {
  Doc(<<Plain, Plain>>), Doc(<<Tagged>>), Doc(<<Bridged>>), Doc(<<Pair[1]>>),
  Doc(<<Pair[1], [Pair[2] EXCEPT !.peer = "a"]>>),
  Doc(<<Plain, Bridged, [Bridged EXCEPT !.name = "c"]>>),
  Doc(<<[Addressed EXCEPT !.addresses[1].prefix = 33]>>),
  Doc(<<[Addressed EXCEPT !.routes[1].via = Six]>>)}

PlanIps == {Four}
PlanDocs == {Office, Bridge, Doc(Pair)} \cup Refused
PlanRules == <<[matches |-> {[key |-> "action", op |-> "!=", value |-> "remove"],
                           [key |-> "name", op |-> "==", value |-> "a"]},
              tags |-> {"uplink"}]>>

Bare(name, kind) ==
  [name |-> name, kind |-> kind, mac |-> None, mtu |-> None, mode |-> None, members |-> <<>>,
   peer |-> None, vid |-> None, on |-> None, addresses |-> <<>>, routes |-> <<>>]
To(address, length, via, metric) ==
  [to |-> [ip |-> address, length |-> length], via |-> via, metric |-> metric]

TextDocs == {
  Doc(<<[Bare("b", "vlan") EXCEPT !.vid = 7, !.on = "a"],
       [Bare("a", "nic") EXCEPT !.mac = "mac", !.mtu = 1400,
          !.addresses = <<[ip |-> Four, prefix |-> 24], [ip |-> Six, prefix |-> 64]>>,
          !.routes = <<To(Four, 0, Four, 100), To(Six, 48, None, 5)>>]>>),
  Doc(<<[Bare("c", "bond") EXCEPT !.mode = "active-backup", !.members = <<"a", "b">>],
       Bare("a", "dummy"), [Bare("b", "veth") EXCEPT !.peer = "d"], Bare("d", "veth")>>),
  Doc(<<[Bare("b", "bridge") EXCEPT !.members = <<"7">>], Bare("7", "nic")>>)}

----------------------------------------------------------------------------
(* Rules and packets *)

Near == [width |-> 4, value |-> 1]
Far == [width |-> 4, value |-> 2]
Request == [hook |-> "input", proto |-> "tcp", src |-> Near, dst |-> Far, sport |-> 3,
            dport |-> 5, iif |-> "a", oif |-> None, ct |-> None]
Reply == [Request EXCEPT !.src = Far, !.dst = Near, !.sport = 5, !.dport = 3,
                         !.ct = "established"]
Ping == [Request EXCEPT !.proto = "icmp", !.sport = None, !.dport = None,
                        !.src = [width |-> 6, value |-> 1]]
MCPackets == {Request, Reply, Ping}

Template(matches, verdict, jump) ==
  [matches |-> matches, verdict |-> verdict, jump |-> jump, counter |-> None]
Match(field, op, value) == [field |-> field, op |-> op, value |-> value]
MCTemplates == {
  Template(<<>>, "jump", <<"sub">>), Template(<<>>, "jump", <<"base">>),
  Template(<<>>, "jump", <<"low">>),
  Template(<<Match("dport", "in", <<"set", <<"ports">>>>)>>, "return", None),
  Template(<<Match("ct", "state", <<"states", {"established"}>>), Match("proto", "==", <<"word", "tcp">>)>>, "accept", None),
  Template(<<Match("ip", "prefix", <<"prefix", [width |-> 4, value |-> 1, length |-> 1]>>)>>, "continue", None),
  [Template(<<Match("dport", "!=", <<"port", 5>>)>>, "reject", None) EXCEPT !.counter = <<"shared">>]}
MCBases == <<"base">> :> [hook |-> "input", priority |-> 0, policy |-> "accept"]
             @@ <<"low">> :> [hook |-> "input", priority |-> -1, policy |-> "drop"]
MCRegulars == {<<"sub">>}
MCMembers == {<<4, 6>>, <<5, 5>>, <<6, None>>}
MCSetNames == {<<"ports">>}
MCBits == [w \in {4, 6} |-> IF w = 4 THEN 2 ELSE 3]

\* The parts of a packet that make a flow, both directions and without a port.
Conversation == [proto |-> "tcp", src |-> "near", dst |-> "far", sport |-> 3, dport |-> 5]
Conversations ==
  {Conversation, [Conversation EXCEPT !.src = "far", !.dst = "near", !.sport = 5, !.dport = 3],
   [Conversation EXCEPT !.sport = None]}

\* Two devices that are each other's peer, one roaming and one configured with
\* a fixed endpoint for the other, and a peer of d1 that never runs. The inner
\* network has two-bit addresses: d1 is 00, d2 is 10 and covers 1*, dx is 11.
Prefix(network, length) == [network |-> network, length |-> length]
MCAllowed == (d1 :> ((d2 :> {Prefix(<<1, 0>>, 1)}) @@ (dx :> {Prefix(<<1, 1>>, 2)})))
               @@ (d2 :> (d1 :> {Prefix(<<0, 0>>, 2)}))
MCEndpoint0 == (d1 :> ((d2 :> "b1") @@ (dx :> None))) @@ (d2 :> (d1 :> None))
MCHome == (d1 :> "a1") @@ (d2 :> "b1")
\* A packet of d1's for d2, and one whose source is not in what d1 allows d2.
MCInner == {[src |-> <<0, 0>>, dst |-> <<1, 0>>], [src |-> <<0, 1>>, dst |-> <<0, 0>>]}

LinePackets == {<<"x">>, <<"END", "ESC">>, <<"ESC_END">>}

----------------------------------------------------------------------------

Plan == INSTANCE NetPlan WITH
  Names <- {"a", "b"}, Docs <- PlanDocs, Ips <- PlanIps, Rules <- PlanRules,
  MaxClock <- 1, MaxEvents <- 1, MaxOps <- 1, clock <- planClock, queued <- waiting
Text == INSTANCE NetText WITH
  Docs <- TextDocs, DigitNames <- {"7"}, Groups <- {0, 1}, MaxEdits <- 2
Filter == INSTANCE Firewall WITH
  Bases <- MCBases, Regulars <- MCRegulars, Templates <- MCTemplates, SetNames <- MCSetNames,
  Members <- MCMembers, Packets <- MCPackets, Bits <- MCBits, Hooks <- {"input"},
  States <- {"new", "established", "related", "invalid"}, Ttl <- 1, MaxAge <- 2,
  MaxRules <- 3, MaxGrowth <- 2, MaxWrites <- 1
Line == INSTANCE SlipLine WITH
  Payloads <- LinePackets, Noise <- {"END", "ESC", "x"}, Mtu <- 2, Mtus <- {1, 2}, MaxOps <- 4,
  ops <- lineOps
Roaming == INSTANCE WireGuard WITH
  Addrs <- {"a1", "a2", "b1"}, MaxPacket <- 2, MaxMove <- 1

planVars == <<view, flight, busy, waiting, planClock, events, ops, staged, applied, intent>>
textVars == <<doc, text, edits, ip>>
filterVars == <<chains, rules, bases, sets, counters, deltas, writes>>
trackVars == <<entries, age>>
lineVars == <<opened, closed, hardware, decoder, frames, lineOps, carried, seen>>

NetInit ==
  /\ part \in {"plan", "text", "filter", "track", "line", "tunnel", "roam"}
  /\ Plan!Init /\ Filter!FilterInit /\ Filter!TrackInit /\ Line!Init
  /\ IF part = "roam" THEN Roaming!Init ELSE Init
  /\ IF part = "text" THEN Text!Init ELSE doc = None /\ text = <<>> /\ edits = 0 /\ ip = None

NetNext ==
  \/ part = "plan" /\ Plan!Next
     /\ UNCHANGED <<part, textVars, filterVars, trackVars, lineVars, vars>>
  \/ part = "text" /\ Text!Next
     /\ UNCHANGED <<part, planVars, filterVars, trackVars, lineVars, vars>>
  \/ part = "filter" /\ Filter!FilterNext
     /\ UNCHANGED <<part, planVars, textVars, trackVars, lineVars, vars>>
  \/ part = "track" /\ Filter!TrackNext
     /\ UNCHANGED <<part, planVars, textVars, filterVars, lineVars, vars>>
  \/ part = "line" /\ Line!Next
     /\ UNCHANGED <<part, planVars, textVars, filterVars, trackVars, vars>>
  \/ part = "tunnel" /\ Next
     /\ UNCHANGED <<part, planVars, textVars, filterVars, trackVars, lineVars>>
  \/ part = "roam" /\ Roaming!Next
     /\ UNCHANGED <<part, planVars, textVars, filterVars, trackVars, lineVars>>

NetSpec == NetInit /\ [][NetNext]_<<part, planVars, textVars, filterVars, trackVars, lineVars, vars>>

\* An applied plan is in force and a commit is one successor of its graph (NetPlan).
PlanKept == Plan!PlanKept

\* Text and document of a network are two writings of one thing (NetText, NetDoc).
TextKept == Text!TextKept

\* A table decides as a walk over its rules would and tracks a flow once (Firewall).
TableHolds == Filter!TableHolds

\* A packet that fits comes out of the line whole and in order (SlipLine).
PacketsArrive == Line!PacketsArrive
=============================================================================
