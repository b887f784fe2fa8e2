------------------------------- MODULE NetText -------------------------------
(* The netplan-shaped text of a document (net/control/netplan.py): render,    *)
(* and parse as the code does it, over lines that are told apart by their     *)
(* indentation. A text is edited line by line between the two, the way a file *)
(* is. A line is [indent, dash, key, scalar]: its list mark, its key, and     *)
(* what follows the key; a scalar is tagged with what its characters make it: *)
(* the name "7" reads as digits. An inet6 literal is the sequence of its      *)
(* parts between colons, an empty part None.                                  *)
EXTENDS NetDoc

CONSTANTS
  Docs,        \* documents that check accepts
  DigitNames,  \* the link names that are written in digits
  Groups,      \* the values an inet6 group takes
  MaxEdits     \* bound on the edits of a text

VARIABLES doc, text, edits, ip

vars == <<doc, text, edits, ip>>

----------------------------------------------------------------------------
(* Scalars *)

Refused == None
NameText(n) == IF n \in DigitNames THEN <<"digits", n>> ELSE <<"word", n>>
Digits(i) == <<"digits", i>>
IsWord(x) == x[1] \in {"word", "mac", "prefix", "ip"}
IsDigits(x) == x[1] = "digits"
PrefixText(address, length) == <<"prefix", address, length>>
ParsePrefix(x) == x[1] = "prefix" /\ x[3] \in 0..Width(x[2])

----------------------------------------------------------------------------
(* render *)

Line(indent, key, scalar) == [indent |-> indent, dash |-> FALSE, key |-> key, scalar |-> scalar]
Item(indent, key, scalar) == [Line(indent, key, scalar) EXCEPT !.dash = TRUE]

SectionName == [nic |-> "ethernets", veth |-> "veths", bridge |-> "bridges",
                bond |-> "bonds", vlan |-> "vlans", dummy |-> "dummies"]
When(condition, lines) == IF condition THEN lines ELSE <<>>

RouteLines(r) ==
  <<Item(8, "to", IF r.to.length = 0 /\ r.via # None THEN <<"word", "default">>
                  ELSE PrefixText(r.to.ip, r.to.length))>>
  \o When(r.via # None, <<Line(10, "via", <<"ip", r.via>>)>>)
  \o <<Line(10, "metric", Digits(r.metric))>>

MembersWritten(s) == s.kind \in Masters /\ s.members # <<>>

DeviceLines(s) ==
  <<Line(4, s.name, None)>>
  \o When(s.mac # None, <<Line(6, "macaddress", <<"mac", s.mac>>)>>)
  \o When(s.mtu # None, <<Line(6, "mtu", Digits(s.mtu))>>)
  \o When(s.mode # None, <<Line(6, "mode", <<"word", s.mode>>)>>)
  \o When(MembersWritten(s),
          <<Line(6, "interfaces", None)>>
          \o [i \in DOMAIN s.members |-> Item(8, None, NameText(s.members[i]))])
  \o When(s.peer # None, <<Line(6, "peer", NameText(s.peer))>>)
  \o When(s.kind = "vlan", <<Line(6, "id", Digits(s.vid)), Line(6, "link", NameText(s.on))>>)
  \o When(s.addresses # <<>>,
          <<Line(6, "addresses", None)>>
          \o [i \in DOMAIN s.addresses |->
                Item(8, None, PrefixText(s.addresses[i].ip, s.addresses[i].prefix))])
  \o When(s.routes # <<>>,
          <<Line(6, "routes", None)>>
          \o FlattenSeq([i \in DOMAIN s.routes |-> RouteLines(s.routes[i])]))

\* Devices in the order of their sections.
Lines(devices) ==
  LET Of(kind) == SelectSeq(devices, LAMBDA s : s.kind = kind) IN
  <<Line(0, "network", None), Line(2, "version", Digits(2))>>
  \o FlattenSeq([k \in DOMAIN Sections |->
       When(Of(Sections[k]) # <<>>,
            <<Line(2, SectionName[Sections[k]], None)>>
            \o FlattenSeq([i \in DOMAIN Of(Sections[k]) |-> DeviceLines(Of(Sections[k])[i])]))])

Render(d) == Lines(Composed(d))

----------------------------------------------------------------------------
(* parse: blocks. A block is <<"map", entries>>, entries a sequence of        *)
(* <<key, value>>, or <<"list", values>>, or a scalar.                        *)

Keys(map) == {map[2][i][1] : i \in DOMAIN map[2]}
Get(map, key) ==
  LET found == {i \in DOMAIN map[2] : map[2][i][1] = key} IN
  IF found = {} THEN None ELSE map[2][CHOOSE i \in found : TRUE][2]

\* A mapping that lets a key stand twice and keeps the first.
TwiceAllowed(entries, key) == FALSE

Twice(entries, key) == key \in Keys(<<"map", entries>>)

Deeper(lines, pos, indent) == pos < Len(lines) /\ lines[pos + 1].indent > indent

RECURSIVE ParseBlock(_, _, _), ParseMapping(_, _, _, _), ParseSequence(_, _, _, _)
ParseBlock(lines, pos, indent) ==
  IF lines[pos].dash THEN ParseSequence(lines, pos, indent, <<>>)
  ELSE ParseMapping(lines, pos, indent, <<>>)

Nested(lines, pos) == ParseBlock(lines, pos + 1, lines[pos + 1].indent)

\* <<block, position of the line after it>>, or Refused.
ParseMapping(lines, pos, indent, entries) ==
  IF pos > Len(lines) \/ lines[pos].indent # indent \/ lines[pos].dash
  THEN <<<<"map", entries>>, pos>>
  ELSE LET line == lines[pos]
           With(value, next) ==
             ParseMapping(lines, next, indent, Append(entries, <<line.key, value>>)) IN
       CASE line.key = None \/ Twice(entries, line.key) -> Refused
         [] line.scalar # None -> With(line.scalar, pos + 1)
         [] Deeper(lines, pos, indent) ->
              LET inner == Nested(lines, pos) IN
              IF inner = Refused THEN Refused ELSE With(inner[1], inner[2])
         [] OTHER -> With(<<"map", <<>>>>, pos + 1)

\* The line of an item that is a mapping is read again as the mapping's first.
ParseSequence(lines, pos, indent, values) ==
  IF pos > Len(lines) \/ lines[pos].indent # indent \/ ~lines[pos].dash
  THEN <<<<"list", values>>, pos>>
  ELSE LET line == lines[pos]
           After(inner) ==
             IF inner = Refused THEN Refused
             ELSE ParseSequence(lines, inner[2], indent, Append(values, inner[1])) IN
       CASE line.key # None ->
              LET opened == [lines EXCEPT ![pos] = Line(indent + 2, line.key, line.scalar)] IN
              After(ParseMapping(opened, pos, indent + 2, <<>>))
         [] line.scalar # None ->
              ParseSequence(lines, pos + 1, indent, Append(values, line.scalar))
         [] OTHER -> IF Deeper(lines, pos, indent) THEN After(Nested(lines, pos)) ELSE Refused

ParseYaml(lines) ==
  IF lines = <<>> THEN Refused
  ELSE LET top == ParseBlock(lines, 1, lines[1].indent) IN
       IF top = Refused \/ top[2] # Len(lines) + 1 \/ top[1][1] # "map" THEN Refused
       ELSE top[1]

----------------------------------------------------------------------------
(* parse: the loader. What does not load is refused as a whole.               *)

IsMap(x, keys) == x[1] = "map" /\ Keys(x) \subseteq keys
IsList(x, OK(_)) == x[1] = "list" /\ \A i \in DOMAIN x[2] : OK(x[2][i])
Absent(map, key, OK(_)) == key \in Keys(map) => OK(Get(map, key))

RouteLoads(r) ==
  /\ IsMap(r, {"to", "via", "metric"}) /\ "to" \in Keys(r)
  /\ Absent(r, "via", LAMBDA x : x[1] = "ip") /\ Absent(r, "metric", IsDigits)
  /\ IF Get(r, "to") = <<"word", "default">> THEN "via" \in Keys(r) ELSE ParsePrefix(Get(r, "to"))

DeviceLoads(kind, raw) ==
  /\ IsMap(raw, {"macaddress", "mtu", "mode", "interfaces", "peer", "id", "link",
                 "addresses", "routes"})
  /\ "interfaces" \in Keys(raw) => kind \in Masters
  /\ "peer" \in Keys(raw) => kind = "veth"
  /\ {"id", "link"} \cap Keys(raw) # {} => kind = "vlan"
  /\ "mode" \in Keys(raw) => kind = "bond"
  /\ Absent(raw, "macaddress", LAMBDA x : x[1] = "mac")
  /\ Absent(raw, "mtu", IsDigits) /\ Absent(raw, "id", IsDigits)
  /\ Absent(raw, "mode", LAMBDA x : x = <<"word", "active-backup">>)
  /\ Absent(raw, "peer", IsWord) /\ Absent(raw, "link", IsWord)
  /\ Absent(raw, "interfaces", LAMBDA x : IsList(x, IsWord))
  /\ Absent(raw, "addresses", LAMBDA x : IsList(x, LAMBDA a : a[1] = "prefix"))
  /\ Absent(raw, "routes", LAMBDA x : IsList(x, RouteLoads))

Value(map, key) == LET x == Get(map, key) IN IF x = None THEN None ELSE x[2]
Values(map, key) == LET x == Get(map, key) IN IF x = None THEN <<>> ELSE x[2]

\* A default route names its family through its gateway.
LoadRoute(r) ==
  [via |-> Value(r, "via"),
   metric |-> IF "metric" \in Keys(r) THEN Value(r, "metric") ELSE 100,
   to |-> IF Get(r, "to") = <<"word", "default">> THEN [ip |-> Value(r, "via"), length |-> 0]
          ELSE [ip |-> Get(r, "to")[2], length |-> Get(r, "to")[3]]]

LoadDevice(name, kind, raw) ==
  [name |-> name, kind |-> kind, mac |-> Value(raw, "macaddress"), mtu |-> Value(raw, "mtu"),
   mode |-> Value(raw, "mode"),
   members |-> [i \in DOMAIN Values(raw, "interfaces") |-> Values(raw, "interfaces")[i][2]],
   peer |-> Value(raw, "peer"), vid |-> Value(raw, "id"), on |-> Value(raw, "link"),
   addresses |-> [i \in DOMAIN Values(raw, "addresses") |->
                    LET a == Values(raw, "addresses")[i] IN [ip |-> a[2], prefix |-> a[3]]],
   routes |-> [i \in DOMAIN Values(raw, "routes") |-> LoadRoute(Values(raw, "routes")[i])]]

SectionNames == {SectionName[k] : k \in DOMAIN SectionName}
NetworkLoads(network) ==
  /\ IsMap(network, {"version"} \cup SectionNames) /\ Get(network, "version") = Digits(2)
  /\ \A kind \in DOMAIN SectionName :
       Absent(network, SectionName[kind], LAMBDA block :
         block[1] = "map" /\ \A i \in DOMAIN block[2] : DeviceLoads(kind, block[2][i][2]))

\* The devices of a text, in the order of the sections.
Parse(lines) ==
  LET root == ParseYaml(lines) IN
  IF root = Refused THEN Refused
  ELSE IF Keys(root) # {"network"} \/ ~NetworkLoads(Get(root, "network")) THEN Refused
  ELSE FlattenSeq([k \in DOMAIN Sections |->
         LET block == Values(Get(root, "network"), SectionName[Sections[k]]) IN
         [i \in DOMAIN block |-> LoadDevice(block[i][1], Sections[k], block[i][2])]])

----------------------------------------------------------------------------
(* inet6 literals *)

\* The runs of zero groups: <<start, length>>.
Runs(words) ==
  {r \in (1..8) \X (1..8) :
     /\ r[1] + r[2] <= 9 /\ \A i \in r[1]..r[1] + r[2] - 1 : words[i] = 0
     /\ (r[1] > 1 => words[r[1] - 1] # 0) /\ (r[1] + r[2] <= 8 => words[r[1] + r[2]] # 0)}
BestRun(words) ==
  CHOOSE r \in Runs(words) : \A s \in Runs(words) :
    s[2] < r[2] \/ (s[2] = r[2] /\ r[1] <= s[1])

\* RFC 5952: the longest run of zeros is a gap, the leftmost on a tie; one zero
\* is no gap. A gap at an end is two empty parts.
FormatV6(words) ==
  LET r == BestRun(words) IN
  IF \A s \in Runs(words) : s[2] < 2 THEN words
  ELSE When(r[1] = 1, <<None>>) \o SubSeq(words, 1, r[1] - 1) \o <<None>>
         \o SubSeq(words, r[1] + r[2], 8) \o When(r[1] + r[2] = 9, <<None>>)

ParseV6(parts) ==
  LET n == Len(parts)
      gaps == {i \in 2..n - 1 : parts[i] = None}
      Side(side) == IF side = <<None>> THEN <<>> ELSE side
      Hex(side) == \A i \in DOMAIN side : side[i] # None IN
  IF gaps = {} THEN IF Hex(parts) /\ n = 8 THEN parts ELSE Refused
  ELSE LET g == CHOOSE g \in gaps : \A h \in gaps : g <= h
           head == Side(SubSeq(parts, 1, g - 1))
           tail == Side(SubSeq(parts, g + 1, n))
           zeros == 8 - Len(head) - Len(tail) IN
       IF ~Hex(head) \/ ~Hex(tail) \/ zeros < 1 THEN Refused
       ELSE head \o [i \in 1..zeros |-> 0] \o tail

----------------------------------------------------------------------------

\* A document and its text, or an inet6 address.
Init ==
  /\ edits = 0
  /\ \/ doc \in Docs /\ text = Render(doc) /\ ip = None
     \/ doc = None /\ text = <<>> /\ ip \in [1..8 -> Groups]

\* A text is edited: a line dropped, written twice, indented otherwise, moved
\* past the next, or its list mark put on a line of its own.
Edit(edited) == edits < MaxEdits /\ edits' = edits + 1 /\ text' = edited /\ UNCHANGED <<doc, ip>>

Drop(i) == Edit(RemoveAt(text, i))
Double(i) == Edit(InsertAt(text, i, text[i]))
Indent(i, by) ==
  text[i].indent + by >= 0 /\ Edit([text EXCEPT ![i].indent = @ + by])
Swap(i) == i < Len(text) /\ Edit([text EXCEPT ![i] = text[i + 1], ![i + 1] = text[i]])
SplitMark(i) ==
  /\ text[i].dash /\ ~(text[i].key = None /\ text[i].scalar = None)
  /\ Edit(InsertAt([text EXCEPT ![i] = Line(@.indent + 2, @.key, @.scalar)], i,
                   Item(text[i].indent, None, None)))

Next ==
  \E i \in DOMAIN text :
    Drop(i) \/ Double(i) \/ Indent(i, 2) \/ Indent(i, -2) \/ Swap(i) \/ SplitMark(i)

Spec == Init /\ [][Next]_vars

----------------------------------------------------------------------------
(* Properties *)

\* A document whose names are read as names and whose every word its kind has.
Plain(d) ==
  \A s \in ToSet(Composed(d)) :
    /\ (ToSet(s.members) \cup {s.peer, s.on}) \cap DigitNames = {}
    /\ s.peer # None => s.kind = "veth"

\* The text of a document reads as the document (and so renders the same).
Canonical ==
  IF edits > 0 \/ doc = None THEN TRUE
  ELSE Plain(doc) => Parse(text) = Composed(doc)

\* Every word of a text that is accepted, edited or not, stands in the document
\* read from it, as often as in the text.
Words(lines) == SelectSeq(lines, LAMBDA l : l.scalar # None)
Count(lines, l) ==
  Cardinality({i \in DOMAIN lines : lines[i].key = l.key /\ lines[i].scalar = l.scalar})
NothingDropped ==
  LET devices == Parse(text) IN
  devices # Refused =>
    \A l \in ToSet(Words(text)) : Count(text, l) <= Count(Lines(devices), l)

\* The literal of an inet6 address reads as that address, and no other literal
\* with a gap for its zeros is shorter.
AddressReads ==
  ip # None =>
  /\ ParseV6(FormatV6(ip)) = ip
  /\ \A r \in Runs(ip) : r[2] > 1 => Len(SelectSeq(FormatV6(ip), LAMBDA p : p # None)) <= 8 - r[2]

\* Text and document are two writings of one thing.
TextKept == Canonical /\ NothingDropped /\ AddressReads
=============================================================================
