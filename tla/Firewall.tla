------------------------------ MODULE Firewall -------------------------------
(* One filter table (net/fw): chains, rules, sets and counters authored as    *)
(* cells, and packets evaluated against them. A path is a sequence of words.  *)
(* An address is [width, value] with values of Bits[width] bits, a port or a  *)
(* length a number; the rules and packets come from small sets. Logging and   *)
(* the table's own cell are left out. Beside the table the connection         *)
(* tracking plane: one transient entry per flow, found from either direction, *)
(* moved along its states and aged out.                                       *)
EXTENDS Integers, Sequences, FiniteSets, SequencesExt

CONSTANTS
  Bases,       \* base chains: path -> [hook, priority, policy]
  Regulars,    \* paths of regular chains
  Templates,   \* rules that are authored: [matches, verdict, jump, counter]
  SetNames,    \* paths of sets
  Members,     \* members of sets: <<low, high>>, high None when it has no end
  Packets,     \* packets a hook may see
  Bits,        \* the bits of an address of each width
  Hooks, States,
  Conversations,  \* packets that make flows: [proto, src, dst, sport, dport]
  Ttl,
  MaxAge,      \* bound on the clock of the tracking plane
  MaxRules,    \* bound on the rules
  MaxGrowth,   \* bound on the members of a set
  MaxWrites,   \* bound on the counter writes
  None

VARIABLES chains,    \* path -> [hook, priority, policy, rules]
          rules,     \* path -> [matches, verdict, jump, counter]
          bases,     \* hook -> chains in authoring order
          sets,      \* path -> [members, counter]
          counters,  \* path -> packets counted
          deltas,    \* counter writes an evaluation asked for
          writes,    \* counter writes made
          entries,   \* flow -> [state, expires]
          age        \* the clock of the tracking plane

vars == <<chains, rules, bases, sets, counters, deltas, writes>>
table == <<chains, rules, bases, sets, counters>>

Extend(f, k, v) == [x \in DOMAIN f \cup {k} |-> IF x = k THEN v ELSE f[x]]

----------------------------------------------------------------------------
(* Interval lists: members sorted and merged, found by binary search *)

Touches(previous, low) == previous[2] = None \/ low <= previous[2] + 1

Merged(list, range) ==
  IF list = <<>> \/ ~Touches(Last(list), range[1]) THEN Append(list, range)
  ELSE LET last == Last(list) IN
       IF range[2] = None \/ (last[2] # None /\ range[2] > last[2])
       THEN [list EXCEPT ![Len(list)] = <<last[1], range[2]>>] ELSE list

Precedes(a, b) ==
  \/ a[1] < b[1]
  \/ a[1] = b[1] /\ IF b[2] = None THEN TRUE ELSE IF a[2] = None THEN FALSE ELSE a[2] <= b[2]
IntervalList(members) == FoldLeft(Merged, <<>>, SortSeq(SetToSeq(members), Precedes))

\* The last range that starts at or before the probe holds it or none does.
InList(list, probe) ==
  LET at == Cardinality({i \in DOMAIN list : list[i][1] <= probe}) IN
  at > 0 /\ (list[at][2] # None => probe <= list[at][2])

InRange(range, probe) == range[1] <= probe /\ (range[2] # None => probe <= range[2])

----------------------------------------------------------------------------
(* Matches *)

Side == [ip |-> "src", daddr |-> "dst", ip6 |-> "src", daddr6 |-> "dst",
         dport |-> "dport", sport |-> "sport", iif |-> "iif", oif |-> "oif", proto |-> "proto"]
AddressWidth == [ip |-> 4, daddr |-> 4, ip6 |-> 6, daddr6 |-> 6]
Ports == {"dport", "sport"}

\* check_match and check_matches: the operator and its value, <<kind, word>>,
\* fit the field.
Literal(field) ==
  IF field \in DOMAIN AddressWidth THEN "address" ELSE IF field \in Ports THEN "port" ELSE "word"
MatchStands(m) ==
  CASE m.field = "ct" -> m.op = "state" /\ m.value[2] \subseteq States
    [] m.op = "in" -> Literal(m.field) # "word" /\ m.value[1] = "set" /\ m.value[2] \in DOMAIN sets
    [] m.op = "prefix" -> /\ m.field \in DOMAIN AddressWidth /\ m.value[1] = "prefix"
                          /\ m.value[2].width = AddressWidth[m.field]
    [] OTHER -> m.op \in {"==", "!="} /\ m.value[1] = Literal(m.field)

PrefixInterval(p) ==
  LET size == 2 ^ (Bits[p.width] - p.length)
      low == p.value - (p.value % size) IN <<low, low + size - 1>>

Holds(m, packet) ==
  IF m.field = "ct" THEN packet.ct # None /\ packet.ct \in m.value[2]
  ELSE LET probe == packet[Side[m.field]]
           address == m.field \in DOMAIN AddressWidth
           number == IF address THEN probe.value ELSE probe IN
    IF probe = None THEN FALSE
    ELSE IF address /\ probe.width # AddressWidth[m.field] THEN FALSE
    ELSE CASE m.op = "in" -> InList(IntervalList(sets[m.value[2]].members), number)
           [] m.op = "prefix" -> InRange(PrefixInterval(m.value[2]), number)
           [] m.op = "==" -> probe = m.value[2]
           [] m.op = "!=" -> probe # m.value[2]

----------------------------------------------------------------------------
(* Authoring *)

Taken(path) == 
  path \in DOMAIN chains \cup DOMAIN rules \cup DOMAIN sets \cup DOMAIN counters

AuthorChain(path, chain) ==
  /\ ~Taken(path) /\ chains' = Extend(chains, path, chain)
  /\ UNCHANGED <<rules, sets, counters, deltas, writes>>

AddBaseChain(path, base) ==
  /\ AuthorChain(path, [hook |-> base.hook, priority |-> base.priority,
                        policy |-> base.policy, rules |-> <<>>])
  /\ bases' = [bases EXCEPT ![base.hook] = Append(@, path)]

AddRegularChain(path) ==
  /\ AuthorChain(path, [hook |-> None, priority |-> 0, policy |-> "return", rules |-> <<>>])
  /\ UNCHANGED bases

\* The chains each chain's rules jump to.
Jumps(path) ==
  {rules[r].jump : r \in {r \in ToSet(chains[path].rules) : rules[r].verdict = "jump"}}

\* What the jumps lead to, from a frontier of chains.
RECURSIVE ReachedFrom(_)
ReachedFrom(seen) ==
  LET wider == seen \cup UNION {Jumps(c) : c \in seen} IN
  IF wider = seen THEN seen ELSE ReachedFrom(wider)
Reaches(start, goal) == goal \in ReachedFrom(Jumps(start))

JumpStands(source, target) ==
  target \in DOMAIN chains /\ target # source /\ ~Reaches(target, source)

VerdictStands(t, source) ==
  IF t.verdict = "jump" THEN t.jump # None /\ JumpStands(source, t.jump) ELSE t.jump = None

AddRule(chain, t) ==
  /\ Cardinality(DOMAIN rules) < MaxRules
  /\ \A m \in ToSet(t.matches) : MatchStands(m)
  /\ VerdictStands(t, chain)
  /\ LET path == Append(chain, Len(chains[chain].rules))
         counter == IF t.counter = None THEN Append(path, "counter") ELSE t.counter IN
     /\ rules' = Extend(rules, path, [t EXCEPT !.counter = counter])
     /\ chains' = [chains EXCEPT ![chain].rules = Append(@, path)]
     /\ counters' = IF counter \in DOMAIN counters THEN counters ELSE Extend(counters, counter, 0)
  /\ UNCHANGED <<bases, sets, deltas, writes>>

AddSet(path) ==
  LET counter == Append(path, "counter") IN
  /\ ~Taken(path) /\ sets' = Extend(sets, path, [members |-> {}, counter |-> counter])
  /\ counters' = IF counter \in DOMAIN counters THEN counters ELSE Extend(counters, counter, 0)
  /\ UNCHANGED <<chains, rules, bases, deltas, writes>>

AddMember(path, member) ==
  /\ path \in DOMAIN sets /\ Cardinality(sets[path].members) < MaxGrowth
  /\ sets' = [sets EXCEPT ![path].members = @ \cup {member}]
  /\ UNCHANGED <<chains, rules, bases, counters, deltas, writes>>

----------------------------------------------------------------------------
(* Evaluation *)

BaseChains(hook) ==
  SortSeq(bases[hook], LAMBDA a, b : chains[a].priority < chains[b].priority)

\* Every atom is read: a set that holds the packet counts it whatever the rest
\* of the rule says.
SetHits(rule, packet) ==
  LET hits == SelectSeq(rule.matches, LAMBDA m : m.op = "in" /\ Holds(m, packet)) IN
  [i \in DOMAIN hits |-> sets[hits[i].value[2]].counter]
RuleHolds(rule, packet) == \A m \in ToSet(rule.matches) : Holds(m, packet)

Then(first, next) ==
  [outcome |-> next.outcome, trace |-> first.trace \o next.trace,
   deltas |-> first.deltas \o next.deltas]

\* A return that leaves every chain above it too.
PopsThrough(outcome) == FALSE

\* Back at the caller a jump goes on with the caller's next rule.
Returns(outcome) == outcome = "return"

RECURSIVE Run(_, _, _, _)
Run(path, i, packet, depth) ==
  IF i > Len(chains[path].rules)
  THEN [outcome |-> IF depth > 1 THEN "return" ELSE chains[path].policy,
        trace |-> <<>>, deltas |-> <<>>]
  ELSE LET name == chains[path].rules[i]
           rule == rules[name]
           matched == RuleHolds(rule, packet)
           here == [outcome |-> rule.verdict, trace |-> <<name>>,
                    deltas |-> SetHits(rule, packet)
                                 \o IF matched THEN <<rule.counter>> ELSE <<>>] IN
    CASE ~matched \/ rule.verdict = "continue" \/ (rule.verdict = "return" /\ depth = 1) ->
           Then(here, Run(path, i + 1, packet, depth))
      [] matched /\ rule.verdict = "jump" ->
           LET inner == Run(rule.jump, 1, packet, depth + 1) IN
           IF Returns(inner.outcome) THEN Then(Then(here, inner), Run(path, i + 1, packet, depth))
           ELSE Then(here, inner)
      [] OTHER -> here

RECURSIVE Evaluated(_, _)
Evaluated(bases_, packet) ==
  IF bases_ = <<>> THEN [outcome |-> "accept", trace |-> <<>>, deltas |-> <<>>]
  ELSE LET first == Run(Head(bases_), 1, packet, 1) IN
       IF first.outcome # "accept" THEN first
       ELSE Then(first, Evaluated(Tail(bases_), packet))

Decision(packet) == Evaluated(BaseChains(packet.hook), packet)

Evaluate(packet) ==
  /\ deltas = <<>> /\ writes < MaxWrites /\ deltas' = Decision(packet).deltas
  /\ UNCHANGED <<table, writes>>

WriteCounter ==
  /\ deltas # <<>> /\ writes < MaxWrites /\ writes' = writes + 1
  /\ Head(deltas) \in DOMAIN counters
  /\ counters' = [counters EXCEPT ![Head(deltas)] = @ + 1] /\ deltas' = Tail(deltas)
  /\ UNCHANGED <<chains, rules, bases, sets>>

----------------------------------------------------------------------------

FilterInit ==
  /\ chains = <<>> /\ rules = <<>> /\ sets = <<>> /\ counters = <<>> /\ deltas = <<>>
  /\ bases = [h \in Hooks |-> <<>>] /\ writes = 0

FilterNext ==
  \/ \E path \in DOMAIN Bases : AddBaseChain(path, Bases[path])
  \/ \E path \in Regulars : AddRegularChain(path)
  \/ \E path \in DOMAIN chains, t \in Templates : AddRule(path, t)
  \/ \E path \in SetNames : AddSet(path) \/ \E member \in Members : AddMember(path, member)
  \/ \E packet \in Packets : Evaluate(packet)
  \/ WriteCounter

----------------------------------------------------------------------------
(* The connection tracking plane *)

Port(p) == IF p = None THEN 0 ELSE p
ConnTuple(packet) ==
  [proto |-> packet.proto, src |-> <<packet.src, Port(packet.sport)>>,
   dst |-> <<packet.dst, Port(packet.dport)>>]
Reversed(flow) == [flow EXCEPT !.src = flow.dst, !.dst = flow.src]

Find(flow) ==
  IF flow \in DOMAIN entries THEN flow
  ELSE IF Reversed(flow) \in DOMAIN entries THEN Reversed(flow) ELSE None

Observe(packet) ==
  /\ Find(ConnTuple(packet)) = None
  /\ entries' = Extend(entries, ConnTuple(packet), [state |-> "new", expires |-> age + Ttl])
  /\ UNCHANGED age

AllowedTransitions ==
  [new |-> {"new", "established", "related", "invalid"},
   established |-> {"established", "invalid"},
   related |-> {"related", "established", "invalid"}, invalid |-> {"invalid"}]

Transition(packet, state) ==
  LET flow == Find(ConnTuple(packet)) IN
  /\ flow # None /\ state \in AllowedTransitions[entries[flow].state]
  /\ entries' = [entries EXCEPT ![flow] = [state |-> state, expires |-> age + Ttl]]
  /\ UNCHANGED age

Expire ==
  /\ \E flow \in DOMAIN entries : entries[flow].expires <= age
  /\ entries' = [flow \in {f \in DOMAIN entries : entries[f].expires > age} |-> entries[flow]]
  /\ UNCHANGED age

Tick == age < MaxAge /\ age' = age + 1 /\ UNCHANGED entries

TrackInit == entries = <<>> /\ age = 0

TrackNext ==
  \/ \E packet \in Conversations :
       Observe(packet) \/ \E state \in States : Transition(packet, state)
  \/ Expire \/ Tick

----------------------------------------------------------------------------
(* Properties *)

\* No chain is reached again from itself, so every evaluation ends.
JumpsEnd == \A c \in DOMAIN chains : ~Reaches(c, c)

\* The reference: one walk with a stack of the rules to go on with.
RECURSIVE Walk(_, _, _)
Walk(stack, packet, trace) ==
  LET top == Last(stack)
      chain == chains[top[1]]
      rest == Front(stack)
      onward == Append(rest, <<top[1], top[2] + 1>>) IN
  IF top[2] > Len(chain.rules)
  THEN IF rest = <<>> THEN <<chain.policy, trace>> ELSE Walk(rest, packet, trace)
  ELSE LET rule == rules[chain.rules[top[2]]]
           seen == Append(trace, chain.rules[top[2]]) IN
    CASE ~RuleHolds(rule, packet) \/ rule.verdict = "continue" -> Walk(onward, packet, seen)
      [] OTHER ->
           CASE rule.verdict = "jump" -> Walk(Append(onward, <<rule.jump, 1>>), packet, seen)
             [] rule.verdict = "return" ->
                  Walk(IF rest = <<>> THEN onward ELSE rest, packet, seen)
             [] OTHER -> <<rule.verdict, seen>>

\* Run as one walk over the rules, a packet takes the same verdict along the
\* same rules, whatever jumps, returns and sets the table has.
WalksAgree ==
  \A packet \in Packets : \A c \in ToSet(bases[packet.hook]) :
    LET run == Run(c, 1, packet, 1) IN
    Walk(<<<<c, 1>>>>, packet, <<>>) = <<run.outcome, run.trace>>

\* A set holds exactly the numbers some member of it holds, in whatever order
\* its members came.
SetsExact ==
  \A path \in DOMAIN sets : \A probe \in 0..8 :
    InList(IntervalList(sets[path].members), probe)
      = (\E member \in sets[path].members : InRange(member, probe))

\* The two directions of a conversation are one entry.
OneEntryPerFlow == \A f, g \in DOMAIN entries : g = Reversed(f) => f = g

\* A table decides as one walk over its rules would, and tracks a flow once.
TableHolds == JumpsEnd /\ WalksAgree /\ SetsExact /\ OneEntryPerFlow
=============================================================================
