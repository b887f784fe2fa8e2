----------------------------- MODULE RxfSource -----------------------------
(***************************************************************************)
(* tools/native/rxfc.py: a .rxfs program as the words of the interpreter.  *)
(* The Maker reads the source once and writes instructions as it goes: a   *)
(* variable and a temporary is a slot of the frame, a temporary that has   *)
(* been read is free for the next result, a label is a place in the words, *)
(* a proc is entered with the tag of the call on a stack in memory and     *)
(* left through a switch over the tags.                                    *)
(*                                                                         *)
(* A source is given as its statements (the tokens and the grammar are     *)
(* left out): [params, body, procs, fns, macros].  The maker m is a record *)
(* of what it has made so far.  Meaning says what a source computes;       *)
(* AnswersAsSaid compares it with a run of the words.                      *)
(*                                                                         *)
(* tools/native/rxfgraph.py then cuts the words into a semantic graph:     *)
(* blocks, and a value of the entry for every slot of the frame; what has  *)
(* no such shape is refused by name.  The composer must make the same      *)
(* words of the graph (WordsMatch).                                        *)
(***************************************************************************)
EXTENDS Composer

CONSTANTS
    Byte,           \* how many values a byte has
    LeafOf(_, _),   \* what a leaf answers: [status, out]
    Base,           \* where the frame of a run lies in memory
    FRAME,          \* the bytes a frame may have
    BIG,            \* a length no pointer is checked against
    Sources,        \* the sources a run may be of
    ArgsOf(_)       \* the arguments to start one with

Modulus == Byte ^ Word
\* The operators that are leaves; the others are made of them.
BINARY == [plus |-> "add", minus |-> "subtract", shl |-> "shift_left", shr |-> "shift_right",
           eq |-> "equal", lt |-> "less"]
Lit(n) == <<"lit", n>>
InSlot(at) == <<"slot", at>>

(***************************************************************************)
(* Slots, labels, instructions.                                            *)
(***************************************************************************)
Nothing == [out |-> <<>>, labels |-> <<>>, end |-> 0, free |-> <<>>, live |-> <<>>,
            wide |-> None, back |-> None, vars |-> <<>>, next |-> 0, loops |-> <<>>,
            procs |-> <<>>, log |-> <<>>, params |-> <<>>, inproc |-> None]

Slot(m, width) == [m EXCEPT !.end = RoundUp(@) + RoundUp(width),
                            !.log = Append(@, <<RoundUp(m.end), width>>)]
\* Each of these answers [m, v].
Temp(m) ==
    LET at == IF m.free = <<>> THEN RoundUp(m.end) ELSE Last(m.free)
        made == IF m.free = <<>> THEN Slot(m, Word) ELSE [m EXCEPT !.free = Front(@)]
    IN [m |-> [made EXCEPT !.live = Append(@, at)], v |-> InSlot(at)]
WideSlot(m) == IF m.wide # None THEN m ELSE [Slot(m, 2 * Word) EXCEPT !.wide = RoundUp(m.end)]
BackSlot(m) == IF m.back # None THEN m ELSE [Slot(m, Word) EXCEPT !.back = RoundUp(m.end)]

Free(m, v) == IF v[1] = "slot" /\ v[2] \in ToSet(m.live)
              THEN [m EXCEPT !.live = Remove(@, v[2]), !.free = Append(@, v[2])]
              ELSE m
Release(m) == [m EXCEPT !.free = @ \o m.live, !.live = <<>>]

Declare(m, name) == [Slot(m, Word) EXCEPT !.vars = (name :> RoundUp(m.end)) @@ @]
NewLabel(m, k) == <<"L", m.next + k>>
Labels(m, n) == [m EXCEPT !.next = @ + n]
Place(m, label) == [m EXCEPT !.labels = (label :> Len(m.out) + 1) @@ @]

\* An instruction: its words, and which of them are to be the place of a label.
Say(m, words) == [m EXCEPT !.out = Append(@, [w |-> words, to |-> <<>>])]
SayTo(m, words, to) == [m EXCEPT !.out = Append(@, [w |-> words, to |-> to])]
Of(v) == CASE v[1] = "lit" -> Operand(LITERAL, v[2] % Modulus, Word)
           [] v[1] = "slot" -> Operand(SLOT, v[2], Word)
           [] v[1] = "wide" -> Operand(SLOT, v[2], 2 * Word)
MoveTo(m, at, v) == Say(m, <<MOVE, at, Word>> \o Of(v))
CallLeaf(m, leaf, vs, out) ==
    Say(m, <<CALL, Leaves[leaf].id, Len(vs), out, Word, NONE>>
           \o FlattenSeq([i \in DOMAIN vs |-> Of(vs[i])]))
Goto(m, label) == SayTo(m, <<GOTO, 0, 0>>, 2 :> label)
BranchTo(m, v, taken, other) ==
    SayTo(m, <<BRANCH>> \o Of(v) \o <<MODE_NONZERO, 0, 0, 0, 0>>, (6 :> taken) @@ (8 :> other))
SwitchTo(m, v, tags, labels) ==
    LET at == 5 + Len(tags)
    IN SayTo(m, <<SWITCH>> \o Of(v) \o <<Len(tags)>> \o tags
                \o FlattenSeq([i \in DOMAIN labels |-> <<0, 0>>]),
             [i \in {at + 2 * j - 1 : j \in DOMAIN labels} |-> labels[(i - at + 1) \div 2]])

(***************************************************************************)
(* Expressions: a literal, or the slot that holds the value.               *)
(***************************************************************************)
Bit(b) == IF b THEN 1 ELSE 0
Folded(op, a, b) ==
    CASE op = "plus" -> (a + b) % Modulus
      [] op = "minus" -> (a - b) % Modulus
      [] op = "shl" -> (a * 2 ^ b) % Modulus
      [] op = "shr" -> a \div 2 ^ b
      [] op = "times" -> (a * b) % Modulus
      [] op = "eq" -> Bit(a = b)
      [] op = "ne" -> Bit(a # b)
      [] op = "lt" -> Bit(a < b)
      [] op = "le" -> Bit(a <= b)
      [] op = "gt" -> Bit(a > b)
      [] op = "ge" -> Bit(a >= b)

Shift(n) == CHOOSE k \in 0..10 : 2 ^ k = n

RECURSIVE Binary(_, _, _, _)
Binary(m, op, a, b) ==
    LET Not(r) == Binary(r.m, "eq", r.v, Lit(0))
    IN CASE a[1] = "lit" /\ b[1] = "lit" -> [m |-> m, v |-> Lit(Folded(op, a[2], b[2]))]
         [] op = "times" -> IF b[1] = "lit" THEN Binary(m, "shl", a, Lit(Shift(b[2])))
                            ELSE Binary(m, "shl", b, Lit(Shift(a[2])))
         [] op = "ne" -> Not(Binary(m, "eq", a, b))
         [] op = "gt" -> Binary(m, "lt", b, a)
         [] op = "le" -> Not(Binary(m, "lt", b, a))
         [] op = "ge" -> Not(Binary(m, "lt", a, b))
         [] OTHER -> LET t == Temp(Free(Free(m, a), b))
                     IN [t EXCEPT !.m = CallLeaf(@, BINARY[op], <<a, b>>, t.v[2])]

LoadFrom(m, size, address) ==
    LET w == WideSlot(m)
        wide == <<"wide", w.wide>>
        zeroed == IF size < Word THEN MoveTo(w, w.wide, Lit(0)) ELSE w
        copied == CallLeaf(zeroed, "memory_copy",
                           <<wide, Lit(BIG), address, Lit(BIG), Lit(size)>>, NONE)
        t == Temp(Free(copied, address))
    IN [t EXCEPT !.m = MoveTo(@, t.v[2], InSlot(w.wide))]

\* The use of a fn or a macro with its arguments put in for the parameters.
RECURSIVE PutIn(_, _), PutInto(_, _)
PutIn(e, given) ==
    CASE e.k = "var" -> IF e.name \in DOMAIN given THEN given[e.name] ELSE e
      [] e.k = "bin" -> [e EXCEPT !.a = PutIn(@, given), !.b = PutIn(@, given)]
      [] e.k = "load" -> [e EXCEPT !.a = PutIn(@, given)]
      [] e.k = "fn" -> [e EXCEPT !.args = [i \in DOMAIN @ |-> PutIn(@[i], given)]]
      [] OTHER -> e
PutInto(s, given) ==
    IF s.k = "assign"
    THEN [s EXCEPT !.e = PutIn(@, given),
                   !.name = IF @ \in DOMAIN given THEN given[@].name ELSE @]
    ELSE s
GivenTo(params, args) == [p \in ToSet(params) |-> args[CHOOSE i \in DOMAIN params : params[i] = p]]
Applied(src, e) == LET f == src.fns[e.name] IN PutIn(f.body, GivenTo(f.params, e.args))

RECURSIVE Expr(_, _, _)
Expr(src, m, e) ==
    CASE e.k = "num" -> [m |-> m, v |-> Lit(e.n)]
      [] e.k = "var" -> [m |-> m, v |-> InSlot(m.vars[e.name])]
      [] e.k = "fn" -> Expr(src, m, Applied(src, e))
      [] e.k = "load" -> LET a == Expr(src, m, e.a) IN LoadFrom(a.m, e.size, a.v)
      [] e.k = "bin" -> LET a == Expr(src, m, e.a)
                            b == Expr(src, a.m, e.b)
                        IN Binary(b.m, e.op, a.v, b.v)

(***************************************************************************)
(* Statements.                                                             *)
(***************************************************************************)
\* target = expression: when the value is the output of the last call, that
\* call writes into the target and nothing is moved.
Retargets(before, r) ==
    /\ r.v[1] = "slot" /\ r.v[2] \in ToSet(r.m.live)
    /\ Len(r.m.out) > Len(before.out)
    /\ Last(r.m.out).w[1] = CALL /\ Last(r.m.out).w[4] = r.v[2]
Assign(src, m, target, e) ==
    LET r == Expr(src, m, e)
    IN IF Retargets(m, r) THEN [r.m EXCEPT !.out[Len(r.m.out)].w[4] = target]
       ELSE MoveTo(r.m, target, r.v)

Store(m, size, address, v) ==
    LET w == WideSlot(m)
    IN CallLeaf(MoveTo(w, w.wide, v), "memory_copy",
                <<address, Lit(BIG), <<"wide", w.wide>>, Lit(BIG), Lit(size)>>, NONE)

SitesOf(m, name) ==
    LET at == {i \in DOMAIN m.procs : m.procs[i].name = name}
    IN IF at = {} THEN <<>> ELSE m.procs[CHOOSE i \in at : TRUE].sites
WithSites(m, name, sites) ==
    IF \E i \in DOMAIN m.procs : m.procs[i].name = name
    THEN [m EXCEPT !.procs = [i \in DOMAIN @ |->
            IF @[i].name = name THEN [name |-> name, sites |-> sites] ELSE @[i]]]
    ELSE [m EXCEPT !.procs = Append(@, [name |-> name, sites |-> sites])]

\* The tag of this call goes on the stack at sp; the code after it is its label.
CallProc(m, name) ==
    LET sites == Append(SitesOf(m, name), NewLabel(m, 1))
        noted == WithSites(Labels(m, 1), name, sites)
        sp == InSlot(m.vars["sp"])
        pushed == CallLeaf(Store(noted, Word, sp, Lit(Len(sites))), "add", <<sp, Lit(Word)>>, sp[2])
    IN Place(Goto(pushed, <<"proc", name>>), Last(sites))

RECURSIVE Statement(_, _, _), Block(_, _, _), If(_, _, _), Bodies(_, _, _, _, _)
Block(src, m, body) == FoldLeft(LAMBDA n, s : Release(Statement(src, n, s)), m, body)

If(src, m, s) ==
    LET Then(c) ==
          Block(src, Place(Release(BranchTo(Labels(c.m, 3), c.v, NewLabel(c.m, 1), NewLabel(c.m, 2))),
                           NewLabel(c.m, 1)), s.then)
        Else(taken, other, end) ==
          IF s.else = None THEN Place(taken, other)
          ELSE Place(Block(src, Place(Goto(taken, end), other), s.else), end)
    IN Only(UNION {{Else(taken, NewLabel(c.m, 2), NewLabel(c.m, 3)) : taken \in {Then(c)}}
                   : c \in {Expr(src, m, s.e)}})

While(src, m, s) ==
    LET top == NewLabel(m, 1)  body == NewLabel(m, 2)  end == NewLabel(m, 3)
        In(c) == [Place(Release(BranchTo(c.m, c.v, body, end)), body) EXCEPT
                    !.loops = Append(@, <<top, end>>)]
        Around(in) == [Block(src, in, s.body) EXCEPT !.loops = m.loops]
    IN Only(UNION {{Place(Goto(done, top), end) : done \in {Around(In(c))}}
                   : c \in {Expr(src, Place(Labels(m, 3), top), s.e)}})

Bodies(src, m, cases, labels, end) ==
    FoldLeft(LAMBDA n, i : Goto(Block(src, Place(n, labels[i]), cases[i].body), end),
             m, [i \in DOMAIN cases |-> i])
SwitchOn(src, r, s) ==
    LET default == NewLabel(r.m, 1)  end == NewLabel(r.m, 2)
        isDefault(i) == s.cases[i].tags = <<>>
        before(i) == Cardinality({j \in 1..(i - 1) : ~isDefault(j)})
        labels == [i \in DOMAIN s.cases |->
                     IF isDefault(i) THEN default ELSE NewLabel(r.m, 3 + before(i))]
        Flat(lab) == FlattenSeq([i \in DOMAIN s.cases |->
                     [j \in DOMAIN s.cases[i].tags |-> <<s.cases[i].tags[j], lab[i]>>]])
        Said(flat) == SwitchTo(Labels(r.m, 2 + before(Len(s.cases) + 1)), r.v,
                               [i \in DOMAIN flat |-> flat[i][1]],
                               [i \in DOMAIN flat |-> flat[i][2]] \o <<default>>)
        hasDefault == \E i \in DOMAIN s.cases : isDefault(i)
        Over(made) == Place(IF hasDefault THEN made ELSE Place(made, default), end)
    IN Only(UNION {{Over(Bodies(src, Release(Said(flat)), s.cases, lab, end)) : flat \in {Flat(lab)}}
                   : lab \in {labels}})
Switch(src, m, s) == Only({SwitchOn(src, r, s) : r \in {Expr(src, m, s.e)}})

Statement(src, m, s) ==
    CASE s.k = "var" -> Declare(m, s.name)
      [] s.k = "assign" -> Assign(src, m, m.vars[s.name], s.e)
      [] s.k = "if" -> If(src, m, s)
      [] s.k = "while" -> While(src, m, s)
      [] s.k = "switch" -> Switch(src, m, s)
      [] s.k = "break" -> Goto(m, Last(m.loops)[2])
      [] s.k = "continue" -> Goto(m, Last(m.loops)[1])
      [] s.k = "call" -> CallProc(m, s.name)
      [] s.k = "ret" -> Goto(m, <<"end", m.inproc>>)
      [] s.k = "return" -> LET r == Expr(src, m, s.e) IN Say(r.m, <<RETURN>> \o Of(r.v) \o <<Word>>)
      [] s.k = "refuse" -> LET r == Expr(src, m, s.e) IN Say(r.m, <<REFUSE>> \o Of(r.v))
      [] s.k = "store" -> LET a == Expr(src, m, s.a)
                              r == Expr(src, a.m, s.e)
                          IN Store(r.m, s.size, a.v, r.v)
      [] s.k = "put" -> LET p == InSlot(m.vars[s.name])
                            r == Expr(src, m, s.e)
                        IN CallLeaf(Store(r.m, s.size, p, r.v), "add", <<p, Lit(s.size)>>, p[2])
      [] s.k = "macro" -> LET d == src.macros[s.name] IN
            Block(src, m, [i \in DOMAIN d.body |-> PutInto(d.body[i], GivenTo(d.params, s.args))])

Main(src) ==
    LET declared == FoldLeft(Declare, Nothing, src.params)
        with == [declared EXCEPT
                    !.params = [i \in DOMAIN src.params |-> <<declared.vars[src.params[i]], Word>>]]
    IN Say(Block(src, with, src.body), <<RETURN>> \o Operand(LITERAL, 0, Word) \o <<Word>>)

\* The end of a proc takes the tag from the stack and goes where it says.
Proc(src, m, p) ==
    LET known == WithSites(m, p.name, SitesOf(m, p.name))
        in == [Place(known, <<"proc", p.name>>) EXCEPT !.inproc = p.name]
        sp == InSlot(m.vars["sp"])
        Popped(body) == LoadFrom(CallLeaf(body, "subtract", <<sp, Lit(Word)>>, sp[2]), Word, sp)
        Ending(body) ==
          UNION {{Goto(Release(MoveTo(back, back.back, popped.v)), <<"back", p.name>>)
                  : back \in {BackSlot(popped.m)}} : popped \in {Popped(body)}}
    IN Only(UNION {Ending([Place(body, <<"end", p.name>>) EXCEPT !.inproc = None])
                   : body \in {Block(src, in, p.body)}})

WaysBack(m) ==
    LET Way(n, p) == SwitchTo(Place(n, <<"back", p.name>>), InSlot(m.back),
                              [i \in DOMAIN p.sites |-> i], p.sites \o <<<<"trap", 0>>>>)
        all == FoldLeft(Way, m, m.procs)
    IN IF m.procs = <<>> THEN m
       ELSE Say(Place(all, <<"trap", 0>>), <<REFUSE>> \o Operand(LITERAL, 255, Word))

Made(src) == WaysBack(FoldLeft(LAMBDA m, p : Proc(src, m, p), Main(src), src.procs))

(***************************************************************************)
(* The words.                                                              *)
(***************************************************************************)
StartOf(m, i) == FoldLeft(LAMBDA n, x : n + Len(x.w), 5 + 2 * Len(m.params), SubSeq(m.out, 1, i - 1))
WordsOf(m) ==
    <<GRAPH_MAGIC, RoundUp(m.end), Len(m.params), Len(m.params), 5 + 2 * Len(m.params)>>
    \o FlattenSeq(m.params)
    \o FlattenSeq([i \in DOMAIN m.out |->
         [j \in DOMAIN m.out[i].w |-> IF j \in DOMAIN m.out[i].to
                                      THEN StartOf(m, m.labels[m.out[i].to[j]])
                                      ELSE m.out[i].w[j]]])
Compiles(m) == m.end <= FRAME

(***************************************************************************)
(* A run of the words: the frame is a stretch of the memory the program    *)
(* loads from and stores to.                                               *)
(***************************************************************************)
VARIABLES source, given, words, mem, pc, ended

source_vars == <<source, given, words, mem, pc, ended>>

CONSTANT Memory     \* the bytes the memory starts with

BytesOf(n) == [i \in 1..Word |-> (n \div (Byte ^ (i - 1))) % Byte]
NumberOf(bytes) == FoldRight(LAMBDA b, n : b + Byte * n, bytes, 0)
Put(memory, at, bytes) == [i \in DOMAIN memory |->
    IF i > at /\ i <= at + Len(bytes) THEN bytes[i - at] ELSE memory[i]]
Get(memory, at, n) == SubSeq(memory, at + 1, at + n)

W(i) == words[pc + i + 1]
ValueIn(memory, i) ==
    IF W(i) = LITERAL THEN W(i + 1) ELSE NumberOf(Get(memory, Base + W(i + 1), Word))
Value(i) == ValueIn(mem, i)
\* A slot wider than a word is given as its place.
Argument(i) == IF W(i) = SLOT /\ W(i + 2) > Word THEN Base + W(i + 1) ELSE Value(i)

RunAt(op) == ended = None /\ W(0) = op
StepTo(next) == pc' = next /\ UNCHANGED <<source, given, words, ended>>
EndWith(status, out) == /\ ended' = [status |-> status, out |-> out]
                        /\ UNCHANGED <<source, given, words, mem, pc>>

\* The destination is cleared before the source is read: a slot moved to itself
\* is empty.
RunMove ==
    /\ RunAt(MOVE)
    /\ \E cleared \in {Put(mem, Base + W(1), BytesOf(0))} :
          mem' = Put(cleared, Base + W(1), BytesOf(ValueIn(cleared, 3)))
    /\ StepTo(pc + 6)

\* A leaf's refusal is dropped where the call names no status; its out is zero.
RunCall ==
    /\ RunAt(CALL)
    /\ LET leaf == CHOOSE l \in DOMAIN Leaves : Leaves[l].id = W(1)
           n == W(2)
           args == [i \in 1..n |-> Argument(6 + 3 * (i - 1))]
       IN /\ mem' = IF leaf = "memory_copy"
                    THEN Put(mem, args[1], Get(mem, args[3], args[5]))
                    ELSE Put(mem, Base + W(3),
                             LET a == LeafOf(leaf, args)
                             IN BytesOf(IF a.out = None THEN 0 ELSE a.out))
          /\ StepTo(pc + 6 + 3 * n)

RunJump ==
    \/ RunAt(GOTO) /\ StepTo(W(1)) /\ UNCHANGED mem
    \/ RunAt(BRANCH) /\ StepTo(IF Value(1) # 0 THEN W(5) ELSE W(7)) /\ UNCHANGED mem
    \/ /\ RunAt(SWITCH)
       /\ LET cases == {i \in 1..W(4) : W(4 + i) = Value(1)}
              chosen == IF cases = {} THEN W(4) + 1 ELSE CHOOSE i \in cases : \A j \in cases : i <= j
          IN StepTo(W(5 + W(4) + 2 * (chosen - 1)))
       /\ UNCHANGED mem

RunEnd == \/ RunAt(RETURN) /\ EndWith(0, Value(1))
          \/ RunAt(REFUSE) /\ EndWith(Value(1), 0)

Start(src, args, code) ==
    /\ source = src /\ given = args /\ words = code /\ pc = code[5] /\ ended = None
    /\ mem = FoldLeft(LAMBDA memory, i : Put(memory, Base + code[4 + 2 * i], BytesOf(args[i])),
                      Memory, [i \in DOMAIN args |-> i])

\* A frame that is too large has no program: there is nothing to run.
RunInit ==
    \E src \in Sources : \E made \in {Made(src)} :
       /\ Compiles(made)
       /\ \E code \in {WordsOf(made)} : \E args \in ArgsOf(src) : Start(src, args, code)

RunNext == RunMove \/ RunCall \/ RunJump \/ RunEnd

(***************************************************************************)
(* What a source says: variables that hold words, statements in order, a   *)
(* switch that takes one case, a loop left by break and begun again by     *)
(* continue, a proc that comes back to where it was called.  One statement *)
(* says what it does not look like: x = x leaves nothing in x.             *)
(***************************************************************************)
RECURSIVE Spelt(_, _)
Spelt(src, e) == IF e.k = "fn" THEN Spelt(src, Applied(src, e)) ELSE e
OfItself(src, x) == Spelt(src, x.e) = [k |-> "var", name |-> x.name]

RECURSIVE Ev(_, _, _)
Ev(src, s, e) ==
    CASE e.k = "num" -> e.n
      [] e.k = "var" -> s.env[e.name]
      [] e.k = "fn" -> Ev(src, s, Applied(src, e))
      [] e.k = "load" -> NumberOf(Get(s.mem, Ev(src, s, e.a), e.size))
      [] e.k = "bin" -> Folded(e.op, Ev(src, s, e.a), Ev(src, s, e.b))

RECURSIVE Does(_, _, _), All(_, _, _)
All(src, s, body) == FoldLeft(LAMBDA t, x : IF t.how = "on" THEN Does(src, t, x) ELSE t, s, body)
Does(src, s, x) ==
    LET v == Ev(src, s, x.e)
        Stored(at, n, size) == Put(s.mem, at, SubSeq(BytesOf(n), 1, size))
        Proc1(name) == src.procs[CHOOSE i \in DOMAIN src.procs : src.procs[i].name = name]
    IN CASE x.k = "var" -> s
         [] x.k = "assign" -> [s EXCEPT !.env[x.name] = IF OfItself(src, x) THEN 0 ELSE v]
         [] x.k = "if" -> All(src, s, IF v # 0 THEN x.then ELSE IF x.else = None THEN <<>> ELSE x.else)
         [] x.k = "while" ->
              IF v = 0 THEN s
              ELSE LET t == All(src, s, x.body)
                   IN CASE t.how = "break" -> [t EXCEPT !.how = "on"]
                        [] t.how \in {"on", "continue"} -> Does(src, [t EXCEPT !.how = "on"], x)
                        [] OTHER -> t
         [] x.k = "switch" ->
              LET hits == {i \in DOMAIN x.cases : v \in ToSet(x.cases[i].tags)}
                  others == {i \in DOMAIN x.cases : x.cases[i].tags = <<>>}
                  Least(at) == CHOOSE i \in at : \A j \in at : i <= j
              IN CASE hits # {} -> All(src, s, x.cases[Least(hits)].body)
                   [] hits = {} /\ others # {} -> All(src, s, x.cases[Least(others)].body)
                   [] OTHER -> s
         [] x.k \in {"break", "continue", "ret"} -> [s EXCEPT !.how = x.k]
         [] x.k = "call" ->
              LET t == All(src, s, Proc1(x.name).body)
              IN IF t.how = "ret" THEN [t EXCEPT !.how = "on"] ELSE t
         [] x.k = "return" -> [s EXCEPT !.how = "end", !.ended = [status |-> 0, out |-> v]]
         [] x.k = "refuse" -> [s EXCEPT !.how = "end", !.ended = [status |-> v, out |-> 0]]
         [] x.k = "store" -> [s EXCEPT !.mem = Stored(Ev(src, s, x.a), v, x.size)]
         [] x.k = "put" -> [s EXCEPT !.mem = Stored(s.env[x.name], v, x.size),
                                     !.env[x.name] = (@ + x.size) % Modulus]
         [] x.k = "macro" -> LET d == src.macros[x.name] IN
              All(src, s, [i \in DOMAIN d.body |-> PutInto(d.body[i], GivenTo(d.params, x.args))])

Said(src, args) ==
    LET env == [n \in src.names |->
                  IF \E i \in DOMAIN args : src.params[i] = n
                  THEN args[CHOOSE i \in DOMAIN args : src.params[i] = n] ELSE 0]
        end == All(src, [env |-> env, mem |-> Memory, how |-> "on", ended |-> None], src.body)
    IN IF end.ended = None THEN [status |-> 0, out |-> 0] ELSE end.ended

\* The words answer what the source says: no result is written over while a
\* later instruction still reads it, every jump lands where its statement is,
\* and every proc comes back to its own call.  x = x is said to empty x: the
\* interpreter clears the slot it is about to copy from (OfItself).
AnswersAsSaid == ended # None => ended = Said(source, given)

(***************************************************************************)
(* The words as a graph.                                                   *)
(***************************************************************************)
ENDS == {GOTO, BRANCH, RETURN, REFUSE, SWITCH}
Ended(m, i) == m.out[i].w[1] \in ENDS

\* The instructions a block starts at: the first, each with a label and each
\* after a terminator.
LabelsAt(m, i) == {l \in DOMAIN m.labels : m.labels[l] = i}
Begins(m) == {i \in DOMAIN m.out : i = 1 \/ LabelsAt(m, i) # {} \/ Ended(m, i - 1)}

\* The places an edge of instruction i goes to.
GoesTo(m, i) == {m.labels[m.out[i].to[j]] : j \in DOMAIN m.out[i].to}

HasSlots(m) == Len(m.log) > Len(m.params)

(***************************************************************************)
(* The refusals.                                                           *)
(***************************************************************************)
MemoryMove(m) == m.wide # None
ProcWord(src, m) == m.procs # <<>> \/ src.procs # <<>>
FallsIn(m) == \E i \in Begins(m) : i > 1 /\ ~Ended(m, i - 1)
EntryJump(m) == HasSlots(m) /\ \E i \in DOMAIN m.out : 1 \in GoesTo(m, i)
NoFrame(m) == m.log = <<>>
Refused(src, m) == \/ MemoryMove(m) \/ ProcWord(src, m) \/ FallsIn(m)
                   \/ EntryJump(m) \/ NoFrame(m)

(***************************************************************************)
(* The graph.                                                              *)
(***************************************************************************)
\* The frame: the parameters, then every other slot in the order it was made.
ParamValues(m) == [i \in DOMAIN m.params |-> <<"slot", m.params[i][1]>>]
SlotsBackwards(m) == Reverse(SelectSeq([i \in DOMAIN m.log |-> <<"slot", m.log[i][1]>>],
                                    LAMBDA v : v \notin ToSet(ParamValues(m))))
SlotValues(m) == SelectSeq([i \in DOMAIN m.log |-> <<"slot", m.log[i][1]>>],
                           LAMBDA v : v \notin ToSet(ParamValues(m)))

\* The operand at a place of the words, as a value of the graph.
OperandAt(w, at) == IF w[at] = LITERAL THEN <<"lit", w[at + 1]>> ELSE <<"slot", w[at + 1]>>

GraphOp(w) ==
    [opcode |-> IF w[1] = CALL THEN "Call" ELSE "ReturnValue",
     callee |-> IF w[1] = CALL THEN CHOOSE l \in DOMAIN Leaves : Leaves[l].id = w[2] ELSE None,
     ins |-> IF w[1] = CALL THEN [i \in 1..w[3] |-> OperandAt(w, 7 + 3 * (i - 1))]
             ELSE <<OperandAt(w, 4)>>,
     types |-> IF w[1] = CALL THEN w[3] ELSE 1,
     result |-> <<"slot", IF w[1] = CALL THEN w[4] ELSE w[2]>>,
     status |-> None]

Edge(m, label) == [to |-> m.labels[label], args |-> <<>>, count |-> 0]
EdgesOf(m, x) ==
    LET at == SetToSortSeq(DOMAIN x.to, <) IN [i \in DOMAIN at |-> Edge(m, x.to[at[i]])]

GraphBlock(m, i) ==
    LET end == CHOOSE e \in i..Len(m.out) : Ended(m, e) /\ \A j \in i..(e - 1) : ~Ended(m, j)
        w == m.out[end].w
        kind == CASE w[1] = RETURN -> "Return" [] w[1] = REFUSE -> "Refuse"
                  [] w[1] = GOTO -> "Goto" [] w[1] = BRANCH -> "Branch"
                  [] w[1] = SWITCH -> "SwitchTag"
    IN [index |-> i,
        params |-> IF i = 1 THEN SlotValues(m) ELSE <<>>,
        ops |-> [k \in 1..(end - i) |-> GraphOp(m.out[i + k - 1].w)],
        term |-> kind,
        cond |-> IF kind \in {"Branch", "SwitchTag"} THEN OperandAt(w, 2) ELSE None,
        value |-> IF kind \in {"Return", "Refuse"} THEN OperandAt(w, 2) ELSE None,
        tags |-> IF kind = "SwitchTag" THEN SubSeq(w, 6, 5 + w[5]) ELSE <<>>,
        edges |-> EdgesOf(m, m.out[end])]

GraphVals(blocks, m) ==
    LET read == UNION {ToSet(<<blocks[b].cond, blocks[b].value>>)
                       \cup UNION {ToSet(blocks[b].ops[k].ins) : k \in DOMAIN blocks[b].ops}
                       : b \in DOMAIN blocks}
        frame == ToSet(ParamValues(m)) \cup ToSet(SlotValues(m))
    IN [v \in frame \cup {r \in read : r # None /\ r[1] = "lit"} |->
          [kind |-> IF v[1] = "lit" THEN "Literal"
                    ELSE IF v \in ToSet(ParamValues(m)) THEN "Parameter" ELSE "Bound",
           width |-> Word, literal |-> IF v[1] = "lit" THEN v[2] ELSE 0, status |-> FALSE]]

GraphOf(m) ==
    LET blocks == [i \in Begins(m) |-> GraphBlock(m, i)]
    IN [entry |-> 1, order |-> SetToSortSeq(Begins(m), <), blocks |-> blocks,
        params |-> ParamValues(m), vals |-> GraphVals(blocks, m)]

\* A program the graph target takes has the same words either way: the
\* compiler's, and the composer's over its graph.
WordsMatch ==
    (pc = words[5] /\ ended = None) =>
       \E m \in {Made(source)} :
          ~Refused(source, m) => \E g \in {GraphOf(m)} : Composes(g) /\ Encode(g) = words

\* Compiled or composed, the words are the source's.
SourceStands == AnswersAsSaid /\ WordsMatch
=============================================================================
