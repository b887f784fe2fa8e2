------------------------------- MODULE NetPlan -------------------------------
(* The network's control plane (net/control/netplan.py) and link plane        *)
(* (net/link/link.py): documents compiled against the graph into staged       *)
(* plans and applied, ip-shaped commands, device events, and the graph's      *)
(* commits. A commit lands one write after the other and may be interrupted   *)
(* after each by a device event (MemoryGraph.on_write), whose own commit is   *)
(* queued. A cell is a record, the graph a function from the open paths to    *)
(* their cells; a digest is the graph itself. The history of closed cells and *)
(* the log of writes are read by nobody here and left out.                    *)
EXTENDS NetDoc

CONSTANTS
  Names,      \* link names
  Docs,       \* documents [devices, includes], those check refuses among them
  Ips,        \* addresses <<family, word>>
  Rules,      \* the rulebook: a sequence of [matches, tags]
  MaxClock,   \* bound on the clock
  MaxEvents,  \* bound on the device events
  MaxOps      \* bound on the ip-shaped commands

VARIABLES view,    \* the open cells
          flight,  \* the writes of the commit in flight that have not landed
          busy,    \* a commit is in flight
          queued,  \* commits raised during it
          clock, events, ops,
          staged,  \* the plan computed last: [doc, base, creates, sets, deletes]
          applied, \* the document whose apply was the last thing committed
          intent   \* what the commit in flight is to leave

vars == <<view, flight, busy, queued, clock, events, ops, staged, applied, intent>>

----------------------------------------------------------------------------

Closed(path) == [path |-> path, cell |-> view[path], closed |-> TRUE]

\* The words a document authors: every one but the interval of an address.
Config(cell) == IF cell.type = "Address" THEN [cell EXCEPT !.at = 0] ELSE cell

----------------------------------------------------------------------------
(* The graph *)

Landed(g, w) ==
  IF w.closed THEN [p \in DOMAIN g \ {w.path} |-> g[p]]
  ELSE [p \in DOMAIN g \cup {w.path} |-> IF p = w.path THEN w.cell ELSE g[p]]
AfterAll(g, writes) == FoldLeft(Landed, g, writes)

\* A commit raised during another lands after it, never inside.
Commit(writes) ==
  IF busy THEN queued' = Append(queued, writes) /\ UNCHANGED <<busy, flight, intent>>
  ELSE /\ busy' = TRUE /\ flight' = writes /\ UNCHANGED queued
       /\ intent' = AfterAll(view, writes)

Land ==
  /\ busy /\ flight # <<>>
  /\ view' = Landed(view, Head(flight)) /\ flight' = Tail(flight)
  /\ UNCHANGED <<busy, queued, clock, events, ops, staged, applied, intent>>

EndCommit ==
  /\ busy /\ flight = <<>>
  /\ IF queued = <<>> THEN busy' = FALSE /\ UNCHANGED <<flight, queued, intent>>
     ELSE /\ flight' = Head(queued) /\ queued' = Tail(queued)
          /\ intent' = AfterAll(view, Head(queued)) /\ UNCHANGED busy
  /\ UNCHANGED <<view, clock, events, ops, staged, applied>>

Advance ==
  /\ ~busy /\ clock < MaxClock /\ clock' = clock + 1
  /\ UNCHANGED <<view, flight, busy, queued, events, ops, staged, applied, intent>>

----------------------------------------------------------------------------
(* Plan, drift and apply *)

Reconciled == {p \in DOMAIN view : view[p].type # "LinkEvent"}
PathsOf(cells) == {cells[i].path : i \in DOMAIN cells}

\* [creates, sets, deletes]: what the view misses, has otherwise and has beyond.
Diff(doc) ==
  LET wanted == CompileDesired(doc, 0) IN
  [creates |-> PathsOf(wanted) \ Reconciled,
   sets |-> {w.path : w \in {w \in ToSet(wanted) :
               w.path \in Reconciled /\ Config(w.cell) # Config(view[w.path])}},
   deletes |-> Reconciled \ PathsOf(wanted)]

StagePlan(doc) ==
  /\ ~busy /\ Checked(doc)
  /\ LET diff == Diff(doc) IN
     staged' = [doc |-> doc, base |-> view, creates |-> diff.creates,
                sets |-> diff.sets, deletes |-> diff.deletes]
  /\ UNCHANGED <<view, flight, busy, queued, clock, events, ops, applied, intent>>

\* An apply that does not look at its base.
BaseUnread == TRUE

BaseStands == staged.base = view

\* One successor for the whole bring-up: the writes in compile order, then the
\* closures in path order.
Apply ==
  /\ ~busy /\ staged # None /\ BaseStands
  /\ LET touched == staged.creates \cup staged.sets
         wanted == CompileDesired(staged.doc, clock)
         gone == SetToSeq(staged.deletes \cap DOMAIN view) IN
     Commit(SelectSeq(wanted, LAMBDA w : w.path \in touched)
              \o [i \in DOMAIN gone |-> Closed(gone[i])])
  /\ applied' = staged.doc /\ staged' = None
  /\ UNCHANGED <<view, clock, events, ops>>

----------------------------------------------------------------------------
(* The ip-shaped commands *)

Free(paths) == paths \cap DOMAIN view = {}
Names2(n) == {DevicePath(n), PortPath(n)}
FreshLink(n, kind, mode) ==
  <<Open(DevicePath(n), Device(kind, None, 1500, "down", mode)),
    Open(PortPath(n), Port(DevicePath(n), None))>>

Command(writes) ==
  /\ ~busy /\ ops < MaxOps /\ ops' = ops + 1
  /\ Commit(writes) /\ applied' = None
  /\ UNCHANGED <<view, clock, events, staged>>

CreateLink(n, kind) == Free(Names2(n)) /\ Command(FreshLink(n, kind, None))

CreateVeth(n, peer) ==
  /\ n # peer /\ Free(Names2(n) \cup Names2(peer))
  /\ Command(FreshLink(n, "veth", None) \o FreshLink(peer, "veth", None))

CreateMaster(n, kind, members, mode) ==
  /\ Free(Names2(n) \cup {SegmentPath(n)})
  /\ \A i \in DOMAIN members : PortPath(members[i]) \in DOMAIN view
  /\ Command(FreshLink(n, kind, mode)
       \o <<Open(SegmentPath(n), Segment([i \in DOMAIN members |-> PortPath(members[i])]))>>
       \o [i \in DOMAIN members |->
             Open(PortPath(members[i]),
                  [view[PortPath(members[i])] EXCEPT !.segment = SegmentPath(n)])])

CreateVlan(n, vid, on) ==
  /\ DevicePath(on) \in DOMAIN view /\ Free(Names2(n) \cup {VlanPath(n)})
  /\ Command(FreshLink(n, "vlan", None) \o <<Open(VlanPath(n), Vlan(vid, DevicePath(on)))>>)

SetFields(n, link, mtu) ==
  /\ DevicePath(n) \in DOMAIN view
  /\ Command(<<Open(DevicePath(n), [view[DevicePath(n)] EXCEPT !.link = link, !.mtu = mtu])>>)

FreeIndex(path) == CHOOSE i \in DOMAIN path :
  path[i] \notin DOMAIN view /\ \A j \in 0..i - 1 : path[j] \in DOMAIN view
Indices == 0..Cardinality(DOMAIN view)

\* The face an address or a route hangs on need not exist.
AddAddress(n, ip) ==
  Command(<<Open(AddressPath(n, FreeIndex([i \in Indices |-> AddressPath(n, i)])),
                 Address(IfacePath(n), ip, Width(ip), clock))>>)
AddRoute(n, ip) ==
  Command(<<Open(RoutePath(FreeIndex([i \in Indices |-> RoutePath(i)])),
                 Route([ip |-> ip, length |-> 0], ip, IfacePath(n), 100))>>)

\* remove_address and remove_route: a closure.
Retract(path) == path \in DOMAIN view /\ Command(<<Closed(path)>>)

OnFace(cell, n) == cell.type \in {"Address", "Route"} /\ cell.iface = IfacePath(n)

\* The link, its port, its segment, its tag, the tags on it and what hangs on
\* its face close; the ports of its segment let go of it.
DeleteDevice(n) ==
  /\ DevicePath(n) \in DOMAIN view
  /\ LET closing == {p \in DOMAIN view :
           \/ p \in {PortPath(n), SegmentPath(n), VlanPath(n)}
           \/ view[p].type = "Vlan" /\ view[p].on = DevicePath(n)
           \/ OnFace(view[p], n)}
         freed == {p \in DOMAIN view \ closing :
                     view[p].type = "Port" /\ view[p].segment = SegmentPath(n)}
         rest == SetToSeq(closing \cup freed) IN
     Command(<<Closed(DevicePath(n))>>
       \o [i \in DOMAIN rest |->
             IF rest[i] \in closing THEN Closed(rest[i])
             ELSE Open(rest[i], [view[rest[i]] EXCEPT !.segment = None])])

----------------------------------------------------------------------------
(* Device events, also between the writes of a commit *)

Holds(match, props) == (props[match.key] = match.value) = (match.op = "==")
Tags(props) ==
  UNION {Rules[i].tags : i \in {i \in DOMAIN Rules :
           \A match \in Rules[i].matches : Holds(match, props)}}
EventCell(action, n) ==
  Open(EventPath(events),
       LinkEvent(action, DevicePath(n), Tags([action |-> action, name |-> n])))

Hotplug(writes) ==
  /\ events < MaxEvents /\ events' = events + 1
  /\ Commit(writes) /\ applied' = None
  /\ UNCHANGED <<view, clock, ops, staged>>

Appear(n) ==
  /\ Free(Names2(n))
  /\ Hotplug(<<Open(DevicePath(n), Device("nic", None, 1500, "down", None)),
               Open(PortPath(n), Port(DevicePath(n), None)), EventCell("add", n)>>)

Change(n, link) ==
  /\ DevicePath(n) \in DOMAIN view
  /\ Hotplug(<<Open(DevicePath(n), [view[DevicePath(n)] EXCEPT !.link = link]),
               EventCell("change", n)>>)

Disappear(n) ==
  /\ DevicePath(n) \in DOMAIN view
  /\ LET closing == SetToSeq({p \in DOMAIN view :
           \/ view[p].type = "Port" /\ view[p].device = DevicePath(n)
           \/ OnFace(view[p], n)}) IN
     Hotplug([i \in DOMAIN closing |-> Closed(closing[i])]
               \o <<Closed(DevicePath(n)), EventCell("remove", n)>>)

----------------------------------------------------------------------------

Init ==
  /\ view = <<>> /\ flight = <<>> /\ busy = FALSE /\ queued = <<>>
  /\ clock = 0 /\ events = 0 /\ ops = 0
  /\ staged = None /\ applied = None /\ intent = <<>>

Commands ==
  \E n, m \in Names :
    \/ \E kind \in {"nic", "dummy"} : CreateLink(n, kind)
    \/ CreateVeth(n, m)
    \/ CreateMaster(n, "bridge", <<m>>, None)
    \/ CreateMaster(n, "bond", <<m>>, "active-backup")
    \/ CreateVlan(n, 7, m)
    \/ SetFields(n, "up", 9000)
    \/ \E ip \in Ips : AddAddress(n, ip) \/ AddRoute(n, ip)
    \/ DeleteDevice(n)

Next ==
  \/ Land \/ EndCommit \/ Advance
  \/ \E doc \in Docs : StagePlan(doc)
  \/ Apply
  \/ Commands
  \/ \E path \in {p \in DOMAIN view : view[p].type \in {"Address", "Route"}} : Retract(path)
  \/ \E n \in Names : Appear(n) \/ Disappear(n) \/ Change(n, "down")

Spec == Init /\ [][Next]_vars

----------------------------------------------------------------------------
(* Properties *)

\* Every word of a cell that names another cell names one that stands, and a
\* port and its segment name each other.
Coherent ==
  \A p \in Reconciled : LET cell == view[p] IN
    CASE cell.type = "Device" -> PortPath(p[2]) \in Reconciled
      [] cell.type = "Port" ->
           /\ cell.device \in Reconciled
           /\ cell.segment # None =>
                cell.segment \in Reconciled /\ Contains(view[cell.segment].ports, p)
      [] cell.type = "Segment" ->
           \A i \in DOMAIN cell.ports :
             cell.ports[i] \in Reconciled /\ view[cell.ports[i]].segment = p
      [] cell.type = "Vlan" -> {cell.on, DevicePath(p[2])} \subseteq Reconciled
      [] OTHER -> DevicePath(cell.iface[2]) \in Reconciled

\* Whatever commands and events left behind, the apply of a plan brings the
\* graph to its document: another plan is empty at any later time, and no cell
\* of the graph names one that does not stand.
Converged ==
  ~busy /\ applied # None =>
    /\ Diff(applied) = [creates |-> {}, sets |-> {}, deletes |-> {}]
    /\ Coherent

\* A commit is one successor: at its end the graph is what its writes make of
\* the graph it started from, whatever events interrupted it.
OneSuccessor == busy /\ flight = <<>> => view = intent

\* A plan that was applied is in force, and a commit is atomic under events.
PlanKept == Converged /\ OneSuccessor
=============================================================================
