------------------------------- MODULE NetDoc -------------------------------
(* Network documents (net/control/netplan.py): what a document is composed    *)
(* of, which documents check refuses, and the cells a document wants. A       *)
(* document is [devices, includes], a device a record of the words of         *)
(* DeviceSpec, an address of the network <<family, word>>.                    *)
EXTENDS Integers, Sequences, FiniteSets, SequencesExt

CONSTANT None

----------------------------------------------------------------------------
(* Paths and cells *)

DevicePath(n) == <<"dev", n>>
PortPath(n) == <<"port", n>>
SegmentPath(n) == <<"seg", n>>
VlanPath(n) == <<"vlan", n>>
IfacePath(n) == <<"if", n>>
AddressPath(n, i) == <<"addr", n, i>>
RoutePath(i) == <<"route", i>>
EventPath(i) == <<"event", i>>

Device(kind, mac, mtu, link, mode) ==
  [type |-> "Device", kind |-> kind, mac |-> mac, mtu |-> mtu, link |-> link, mode |-> mode]
Port(device, segment) == [type |-> "Port", device |-> device, segment |-> segment]
Segment(ports) == [type |-> "Segment", ports |-> ports]
Vlan(vid, on) == [type |-> "Vlan", vid |-> vid, on |-> on]
Address(iface, ip, prefix, at) ==
  [type |-> "Address", iface |-> iface, ip |-> ip, prefix |-> prefix, at |-> at]
Route(to, via, iface, metric) ==
  [type |-> "Route", to |-> to, via |-> via, iface |-> iface, metric |-> metric]
LinkEvent(action, device, tags) ==
  [type |-> "LinkEvent", action |-> action, device |-> device, tags |-> tags]

Open(path, cell) == [path |-> path, cell |-> cell, closed |-> FALSE]
----------------------------------------------------------------------------
(* Documents *)

Sections == <<"nic", "veth", "bridge", "bond", "vlan", "dummy">>
Masters == {"bridge", "bond"}

\* One name keeps its place and its last value.
Merged(specs, spec) ==
  IF \E i \in DOMAIN specs : specs[i].name = spec.name
  THEN [i \in DOMAIN specs |-> IF specs[i].name = spec.name THEN spec ELSE specs[i]]
  ELSE Append(specs, spec)

RECURSIVE Composed(_)
Composed(doc) ==
  LET parts == FlattenSeq([i \in DOMAIN doc.includes |-> Composed(doc.includes[i])])
      merged == FoldLeft(Merged, <<>>, parts \o doc.devices) IN
  FlattenSeq([k \in DOMAIN Sections |->
                SelectSeq(merged, LAMBDA spec : spec.kind = Sections[k])])

RECURSIVE UniqueNames(_)
UniqueNames(doc) ==
  /\ \A i, j \in DOMAIN doc.devices :
       doc.devices[i].name = doc.devices[j].name => i = j
  /\ \A i \in DOMAIN doc.includes : UniqueNames(doc.includes[i])

NamesOf(specs) == {specs[i].name : i \in DOMAIN specs}
Width(ip) == IF ip[1] = 4 THEN 32 ELSE 128

VlanStands(spec, names) == spec.kind = "vlan" => spec.vid \in 1..4094 /\ spec.on \in names

\* <<source, target>> for every veth that names its peer.
Claims(specs) ==
  {<<s.name, s.peer>> : s \in {s \in ToSet(specs) : s.kind = "veth" /\ s.peer # None}}

\* Every veth stands in one pair, which one of its ends names.
PairsStand(specs) ==
  LET claims == Claims(specs) IN
  /\ \A c \in claims : <<c[2], c[1]>> \notin claims
  /\ \A s \in ToSet(specs) :
       s.kind = "veth" => Cardinality({c \in claims : s.name \in {c[1], c[2]}}) = 1
  /\ \A c \in claims : \E s \in ToSet(specs) : s.name = c[2] /\ s.kind = "veth"

\* The members of every master, one entry for each time one is named.
Memberships(specs) ==
  FlattenSeq([i \in DOMAIN specs |->
                IF specs[i].kind \in Masters THEN specs[i].members ELSE <<>>])
MembersStand(specs) ==
  /\ ToSet(Memberships(specs)) \subseteq NamesOf(specs)
  /\ IsInjective(Memberships(specs))

AddressesStand(spec) ==
  \A i \in DOMAIN spec.addresses :
    spec.addresses[i].prefix \in 0..Width(spec.addresses[i].ip)
RoutesStand(spec) ==
  \A i \in DOMAIN spec.routes :
    /\ spec.routes[i].metric >= 0
    /\ spec.routes[i].via # None => spec.routes[i].via[1] = spec.routes[i].to.ip[1]

\* check: the document names one coherent desired state.
Checked(doc) ==
  LET specs == Composed(doc) IN
  /\ UniqueNames(doc)
  /\ \A spec \in ToSet(specs) :
       /\ spec.mtu # None => spec.mtu >= 1
       /\ VlanStands(spec, NamesOf(specs)) /\ AddressesStand(spec) /\ RoutesStand(spec)
  /\ MembersStand(specs) /\ PairsStand(specs)

MasterOf(specs, n) ==
  LET masters == {s \in ToSet(specs) : s.kind \in Masters /\ Contains(s.members, n)} IN
  IF masters = {} THEN None ELSE (CHOOSE s \in masters : TRUE).name

LinkCells(specs, spec) ==
  LET master == MasterOf(specs, spec.name) IN
  <<Open(DevicePath(spec.name),
         Device(spec.kind, spec.mac, IF spec.mtu # None THEN spec.mtu ELSE 1500, "up", spec.mode)),
    Open(PortPath(spec.name),
         Port(DevicePath(spec.name), IF master = None THEN None ELSE SegmentPath(master)))>>
  \o IF spec.kind = "vlan"
     THEN <<Open(VlanPath(spec.name), Vlan(spec.vid, DevicePath(spec.on)))>> ELSE <<>>
SegmentCells(spec) ==
  IF spec.kind \notin Masters \/ spec.members = <<>> THEN <<>>
  ELSE <<Open(SegmentPath(spec.name),
              Segment([i \in DOMAIN spec.members |-> PortPath(spec.members[i])]))>>
AddressCells(spec, at) ==
  [i \in DOMAIN spec.addresses |->
     Open(AddressPath(spec.name, i - 1),
          Address(IfacePath(spec.name), spec.addresses[i].ip, spec.addresses[i].prefix, at))]
RouteCells(specs) ==
  LET routes == FlattenSeq([i \in DOMAIN specs |->
        [j \in DOMAIN specs[i].routes |-> <<specs[i].name, specs[i].routes[j]>>]]) IN
  [k \in DOMAIN routes |->
     Open(RoutePath(k - 1), Route(routes[k][2].to, routes[k][2].via,
                                  IfacePath(routes[k][1]), routes[k][2].metric))]

\* The cells a document wants, in bring-up order.
CompileDesired(doc, at) ==
  LET specs == Composed(doc)
      All(Cells(_)) == FlattenSeq([i \in DOMAIN specs |-> Cells(specs[i])]) IN
  All(LAMBDA s : LinkCells(specs, s)) \o All(SegmentCells)
    \o All(LAMBDA s : AddressCells(s, at)) \o RouteCells(specs)

=============================================================================
