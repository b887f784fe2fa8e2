------------------------------ MODULE MemoryGraph ------------------------------
(* The memory programs over one cell table (memory/store.py): remember, link,  *)
(* identity, rename, supersede, recall, consolidate, decay.  A cell has the    *)
(* number it was made under; the table is the sequence of the cells.           *)
EXTENDS Integers, Sequences, FiniteSets, SequencesExt, FiniteSetsExt

CONSTANTS
  Contents,
  Width,      \* a score is a word of this many bits
  MaxCells, MaxClock, MaxCalls,
  None

VARIABLES
  cells, clock,
  decayed,    \* the last trace decay has taken
  system,     \* the machinery's own identity, None before its first write
  counted,    \* how often the score of each cell, a trace, came into a salience
  outcome,    \* of the last call: "ok" or "refused"
  calls

vars == <<cells, clock, decayed, system, counted, outcome, calls>>

----------------------------------------------------------------------------
(* Words: scores and intervals *)

ScoreMax == 2^Width - 1
ScoreAdd(a, b) == IF a + b > ScoreMax THEN ScoreMax ELSE a + b
ScoreMul(a, b) == (a * b + 2^(Width - 1)) \div 2^Width
HalfWeight == 2^(Width - 1)

From(t) == [from |-> t, to |-> None]
Closed(v) == v.to # None
NotAfter(t, u) == IF u = None THEN TRUE ELSE IF t = None THEN FALSE ELSE t <= u
HoldsAt(v, t) == v.from <= t /\ NotAfter(t, v.to)
Overlap(v, w) == NotAfter(v.from, w.to) /\ NotAfter(w.from, v.to)

----------------------------------------------------------------------------
(* Cells *)

Memory(kind, content, valid, salience, by, at) ==
  [is |-> "memory", kind |-> kind, content |-> content, valid |-> valid,
   salience |-> salience, by |-> by, at |-> at]
Line(kind, src, dst, valid, by) ==
  [is |-> "link", kind |-> kind, src |-> src, dst |-> dst, valid |-> valid, by |-> by]
Who(kind, names) == [is |-> "identity", kind |-> kind, names |-> names]
Trace(memory, score, at) == [is |-> "trace", memory |-> memory, score |-> score, at |-> at]

Ids(t) == DOMAIN t
Of(t, what) == {i \in Ids(t) : t[i].is = what}
Links(t, kind) == {i \in Of(t, "link") : t[i].kind = kind}
Memories(t, kind) == {i \in Of(t, "memory") : t[i].kind = kind}
InOrder(t, S) == SelectSeq([i \in Ids(t) |-> i], LAMBDA i : i \in S)

IsPersonal(t, i) == t[i].is = "identity" /\ t[i].kind \in {"person", "agent"}
IsGroup(t, i) == t[i].is = "identity" /\ t[i].kind = "team"

MayWrite(t, i) == IsPersonal(t, i) \/ (t[i].is = "identity" /\ t[i].kind = "system")

\* gate_relation; a line of any other kind has no gate.
Gate(t, kind, src, dst) ==
  CASE kind = "authored_by" -> IsPersonal(t, dst)
    [] kind = "member_of" -> IsPersonal(t, src) /\ IsGroup(t, dst)
    [] kind = "operated_by" -> t[src].is = "identity" /\ t[dst].is = "identity"
    [] kind = "supersedes" -> FALSE  \* supersede() alone writes it
    [] OTHER -> TRUE

\* The machinery's identity is made when it first writes.
Store == [cells |-> cells, system |-> system]
Put(st, cell) == [st EXCEPT !.cells = Append(@, cell)]
WithSystem(st) ==
  IF st.system # None THEN st
  ELSE [Put(st, Who("system", <<clock>>)) EXCEPT !.system = Len(st.cells) + 1]

Remembered(st, kind, content, valid, session, by) ==
  LET ready == IF by = None THEN WithSystem(st) ELSE st
      made == Put(ready, Memory(kind, content, valid, ScoreMax,
                                IF by = None THEN ready.system ELSE by, clock))
  IN IF session = None THEN made
     ELSE Put(made, Line("part_of", Len(made.cells), session, From(clock), None))

----------------------------------------------------------------------------
(* The write faces *)

Becomes(st, said) ==
  /\ Len(st.cells) <= MaxCells
  /\ cells' = st.cells /\ system' = st.system /\ outcome' = said
  /\ counted' = counted \o [k \in 1..Len(st.cells) - Len(cells) |-> 0]
Refuse == outcome' = "refused" /\ UNCHANGED <<cells, system, counted>>

Remember(kind, content, valid, session, by) ==
  /\ IF by = None THEN Becomes(Remembered(Store, kind, content, valid, session, by), "ok")
     ELSE IF MayWrite(cells, by)
       THEN Becomes(Remembered(Store, kind, content, valid, session, by), "ok") ELSE Refuse
  /\ UNCHANGED <<clock, decayed>>

LinkCells(kind, src, dst) ==
  /\ IF Gate(cells, kind, src, dst)
     THEN Becomes(Put(Store, Line(kind, src, dst, From(clock), None)), "ok") ELSE Refuse
  /\ UNCHANGED <<clock, decayed>>

\* An agent's cell is written first, the gate of its operated_by line comes after.
MakeIdentity(kind, operator) ==
  /\ LET made == Put(Store, Who(kind, <<clock>>))
     IN IF kind # "agent" THEN Becomes(made, "ok")
        ELSE IF Gate(made.cells, "operated_by", Len(made.cells), operator)
          THEN Becomes(Put(made, Line("operated_by", Len(made.cells), operator, From(clock), None)),
                       "ok")
          ELSE Becomes(made, "refused")
  /\ UNCHANGED <<clock, decayed>>

Rename(who) ==
  /\ cells[who].is = "identity" /\ Len(cells[who].names) < 2
  /\ Becomes([Store EXCEPT !.cells[who].names = Append(@, clock)], "ok")
  /\ UNCHANGED <<clock, decayed>>

\* The writer is found - the machinery made - before the interval closes or not.
Superseded(st, old, new, by) ==
  LET step == Line("supersedes", new, old, From(clock), IF by = None THEN st.system ELSE by)
  IN Put([st EXCEPT !.cells[old].valid.to = clock], step)
SupersedeAgain(old, new, by) ==
  /\ cells[old].is = "memory" /\ cells[new].is = "memory"
  /\ by # None => MayWrite(cells, by)
  /\ Becomes(Superseded(IF by = None THEN WithSystem(Store) ELSE Store, old, new, by), "ok")
  /\ UNCHANGED <<clock, decayed>>
Supersede(old, new, by) ==
  /\ cells[old].is = "memory" /\ cells[new].is = "memory"
  /\ LET ready == IF by = None THEN WithSystem(Store) ELSE Store
     IN IF Closed(cells[old].valid) THEN Refuse
        ELSE IF (IF by = None THEN FALSE ELSE ~MayWrite(cells, by)) THEN Refuse
        ELSE IF clock < cells[old].valid.from THEN Becomes(ready, "refused")
        ELSE Becomes(Superseded(ready, old, new, by), "ok")
  /\ UNCHANGED <<clock, decayed>>

----------------------------------------------------------------------------
(* Recall: exact hits score full, open lines carry their scores on by weight.   *)

Selected(v, shape) ==
  CASE shape.is = "around" -> HoldsAt(v, shape.at)
    [] shape.is = "temporal" -> Overlap(v, shape.during)
    [] OTHER -> HoldsAt(v, clock)
Candidates(shape) == {i \in Of(cells, "memory") : Selected(cells[i].valid, shape)}
Edges(shape) ==
  {l \in Of(cells, "link") : Selected(cells[l].valid, shape)
                             /\ {cells[l].src, cells[l].dst} \subseteq Candidates(shape)}
Beside(l, i) == IF cells[l].src = i THEN cells[l].dst ELSE cells[l].src

Scores(query, shape) ==
  LET C == Candidates(shape)
      E == Edges(shape)
      Round[k \in 0..Cardinality(C)] ==
        IF k = 0 THEN [i \in C |-> IF cells[i].content = query THEN ScoreMax ELSE 0]
        ELSE [i \in C |-> Max({Round[k - 1][i]} \cup
               {ScoreMul(Round[k - 1][Beside(l, i)], HalfWeight)
                 : l \in {m \in E : i \in {cells[m].src, cells[m].dst}}})]
  IN Round[Cardinality(C)]

\* A trace per hit, the highest score first.
RecallMemories(query, shape) ==
  /\ \E scores \in {Scores(query, shape)} :
       LET hits == SortSeq(InOrder(cells, {i \in DOMAIN scores : scores[i] > 0}),
                     LAMBDA i, j : scores[i] > scores[j] \/ (scores[i] = scores[j] /\ i < j))
       IN Becomes([Store EXCEPT !.cells = @ \o [k \in DOMAIN hits |->
                     Trace(hits[k], scores[hits[k]], clock)]], "ok")
  /\ UNCHANGED <<clock, decayed>>

----------------------------------------------------------------------------
(* Consolidate: a session's working memories become episodic, an episodic       *)
(* content that came twice becomes semantic; what was derived from is left.     *)

InSession(t, m, session) ==
  \E l \in Links(t, "part_of") : t[l].src = m /\ t[l].dst = session /\ HoldsAt(t[l].valid, clock)
DerivedFrom(t, m) == \E l \in Links(t, "derived_from") : t[l].dst = m

Derive(st, kind, content, sources) ==
  LET made == Remembered(WithSystem(st), kind, content, From(clock), None, None)
      new == Len(made.cells)
  IN FoldLeft(LAMBDA s, m : Put(s, Line("derived_from", new, m, From(clock), None)), made, sources)

Promote(st, m, session) ==
  IF InSession(st.cells, m, session) /\ ~DerivedFrom(st.cells, m)
  THEN Derive(st, "episodic", st.cells[m].content, <<m>>) ELSE st

Members(t, content) == {m \in Memories(t, "episodic") : t[m].content = content}
Generalize(st, content) ==
  LET found == Members(st.cells, content)
  IN IF Cardinality(found) < 2 \/ \E m \in found : DerivedFrom(st.cells, m) THEN st
     ELSE Derive(st, "semantic", content, InOrder(st.cells, found))

Consolidate(session) ==
  /\ LET episodes == FoldLeft(LAMBDA st, m : Promote(st, m, session), Store,
                              InOrder(cells, Memories(cells, "working")))
     IN Becomes(FoldLeft(Generalize, episodes, SetToSeq(Contents)), "ok")
  /\ UNCHANGED <<clock, decayed>>

----------------------------------------------------------------------------
(* Decay: halved, raised by the traces since the last decay, closed at zero.    *)

Fresh == {i \in Of(cells, "trace") : i > decayed}
Boost(m) == FoldFunctionOnSet(ScoreAdd, 0, [i \in Fresh |-> cells[i].score],
                              {i \in Fresh : cells[i].memory = m})
Salience(m) == ScoreAdd(cells[m].salience \div 2, Boost(m))
Opens(m) == cells[m].is = "memory" /\ ~Closed(cells[m].valid)
\* An interval that opens later than now cannot close now: decay stops there.
Stuck == {m \in Ids(cells) : IF Opens(m) THEN Salience(m) = 0 /\ clock < cells[m].valid.from ELSE FALSE}
Faded(m) == [cells[m] EXCEPT !.salience = Salience(m),
                             !.valid.to = IF Salience(m) = 0 THEN clock ELSE None]

Taken == IF Fresh = {} THEN decayed ELSE Max(Fresh)
Decay ==
  /\ \E before \in {IF Stuck = {} THEN Len(cells) + 1 ELSE Min(Stuck)} :
       cells' = [i \in Ids(cells) |-> IF i < before THEN IF Opens(i) THEN Faded(i) ELSE cells[i]
                                      ELSE cells[i]]
  /\ decayed' = Taken
  /\ counted' = [i \in Ids(cells) |-> IF i \in Fresh THEN counted[i] + 1 ELSE counted[i]]
  /\ outcome' = IF Stuck = {} THEN "ok" ELSE "refused"
  /\ UNCHANGED <<clock, system>>

Advance ==
  /\ clock < MaxClock /\ clock' = clock + 1 /\ outcome' = "ok"
  /\ UNCHANGED <<cells, decayed, system, counted>>

----------------------------------------------------------------------------

\* Nothing yet, or a person and a team, and a session of two working memories.
Scene ==
  LET people == Put(Put([cells |-> <<>>, system |-> None], Who("person", <<0>>)), Who("team", <<0>>))
      session == Remembered(people, "episodic", CHOOSE c \in Contents : TRUE, From(0), None, None)
      AddWorking(st) == Remembered(st, "working", CHOOSE c \in Contents : TRUE, From(0), 4, 1)
  IN AddWorking(AddWorking(session))
Init ==
  /\ clock = 0 /\ decayed = 0 /\ outcome = "ok" /\ calls = 0
  /\ \/ cells = <<>> /\ system = None
     \/ cells = Scene.cells /\ system = Scene.system
  /\ counted = [i \in Ids(cells) |-> 0]

Shapes == {[is |-> "now"]} \cup {[is |-> "around", at |-> 0]}
          \cup {[is |-> "temporal", during |-> [from |-> 0, to |-> 0]]}
Sessions == Of(cells, "memory") \cap {1, 4}
Call ==
  \/ \E kind \in {"working", "episodic"}, content \in Contents, session \in {None} \cup Sessions,
        by \in {None} \cup Of(cells, "identity") : Remember(kind, content, From(clock), session, by)
  \/ \E content \in Contents : Remember("working", content, From(clock + 1), None, None)
  \/ \E kind \in {"about", "authored_by", "member_of", "supersedes"},
        src \in Ids(cells) \cap {1, 4, 5}, dst \in Ids(cells) \cap {1, 2, 5} :
       LinkCells(kind, src, dst)
  \/ \E kind \in {"person", "team"} : MakeIdentity(kind, None)
  \/ \E operator \in Ids(cells) \cap {1, 4} : MakeIdentity("agent", operator)
  \/ \E who \in Ids(cells) : Rename(who)
  \/ \E old, new \in Ids(cells), by \in {None} \cup Of(cells, "identity") : Supersede(old, new, by)
  \/ \E query \in Contents, shape \in Shapes : RecallMemories(query, shape)
  \/ \E session \in Sessions : Consolidate(session)
  \/ Decay \/ Advance
Next == calls < MaxCalls /\ calls' = calls + 1 /\ Call
Spec == Init /\ [][Next]_vars

----------------------------------------------------------------------------

\* "Nothing is destroyed": a cell stays, what it says stays, and an interval
\* that closed keeps both its words, whatever program runs over it.
Keeps(c, d) ==
  /\ c.is = d.is
  /\ CASE c.is = "memory" -> c.content = d.content /\ c.kind = d.kind /\ c.by = d.by
                             /\ c.valid.from = d.valid.from /\ (Closed(c.valid) => d.valid = c.valid)
       [] c.is = "identity" -> c.kind = d.kind /\ IsPrefix(c.names, d.names)
       [] OTHER -> c = d
NothingDestroyed ==
  [][ /\ Len(cells') >= Len(cells)
      /\ \A i \in Ids(cells) : Keeps(cells[i], cells'[i])]_vars

\* A memory is promoted once: however often sessions are consolidated, no
\* working memory has two episodes, no content two generalizations.
PromotedOnce ==
  /\ \A m \in Memories(cells, "working") :
       Cardinality({l \in Links(cells, "derived_from") : cells[l].dst = m}) <= 1
  /\ \A m, n \in Memories(cells, "semantic") : cells[m].content = cells[n].content => m = n

\* A trace raises a salience once, also when a decay was refused half way.
CountedOnce == \A i \in Ids(cells) : counted[i] <= 1 /\ (i \in Fresh => counted[i] = 0)

\* "Writes that are refused before a cell exists" (the store's own words).
RefusedWritesNothing ==
  [][outcome' = "refused" => cells' = cells]_vars

\* A change history ends: no memory comes again among its own successors.
Successors(t, m) == {t[l].src : l \in {k \in Links(t, "supersedes") : t[k].dst = m}}
ChangesEnd ==
  LET After[k \in 0..Len(cells)] ==
        [m \in Ids(cells) |-> IF k = 0 THEN Successors(cells, m)
                              ELSE After[k - 1][m] \cup UNION {Successors(cells, n) : n \in After[k - 1][m]}]
  IN \A m \in Ids(cells) : m \notin After[Len(cells)][m]

\* Memories accrete: no write destroys one, and nothing is done to one twice.
MemoriesAccrete == [](CountedOnce /\ PromotedOnce) /\ NothingDestroyed
=============================================================================
