------------------------------ MODULE MCStore ------------------------------
(***************************************************************************)
(* The parts of the toolchain, of the stores and of the world that is      *)
(* shown, for TLC, each with its own state: semantic graphs and            *)
(* expressions run as composed words, the pass over every small graph, rxf *)
(* sources compiled and run, the tools that keep the starter; memories,    *)
(* packages, the binary check, the sessions and the streams of one scene   *)
(* server, the floors, the city and the leaves of a value.  A word is two  *)
(* bytes of 32 values, a status one byte.  A behaviour is of one part.     *)
(***************************************************************************)
EXTENDS Integers, Sequences, FiniteSets, TLC

CONSTANT None

Leaves == [add |-> [id |-> 1, out |-> 2], divide |-> [id |-> 2, out |-> 2],
           even |-> [id |-> 3, out |-> 0]]
Objects == [main |-> 1, half |-> 2, down |-> 3, inc |-> 4, twice |-> 5, seven |-> 6]
Data == 6 :> <<7, 0>>

\* A division by zero refuses 2; even answers with its status alone.
LeafOf(l, a) ==
    CASE l = "add" -> [status |-> 0, out |-> (a[1] + a[2]) % 1024]
      [] l = "divide" -> IF a[2] = 0 THEN [status |-> 2, out |-> None]
                         ELSE [status |-> 0, out |-> a[1] \div a[2]]
      [] l = "even" -> [status |-> (a[1] % 2) * 3, out |-> None]
CardOf(f, a) == IF a[1] = 3 THEN [status |-> 4, out |-> None]
                ELSE [status |-> 0, out |-> a[1] + 1]

(***************************************************************************)
(* Graphs.                                                                 *)
(***************************************************************************)
V(kind, width, lit) == [kind |-> kind, width |-> width, literal |-> lit, status |-> FALSE]
S == [kind |-> "OperationResult", width |-> 1, literal |-> 0, status |-> TRUE]
P == V("Parameter", 2, 0)
R == V("OperationResult", 2, 0)
B == V("Bound", 2, 0)
F == V("OperationResult", 1, 0)
L(n) == V("Literal", 2, n)

Op(code, ins, result) == [opcode |-> code, callee |-> None, ins |-> ins,
    types |-> Len(ins), result |-> result, status |-> None, at |-> 0, tagat |-> 0, tag |-> 0, size |-> 0,
    pairs |-> <<>>]
Call(callee, ins, result, status) ==
    [Op("Call", ins, result) EXCEPT !.callee = callee, !.status = status]
Block(index, params, ops, term, cond, value, edges) ==
    [index |-> index, params |-> params, ops |-> ops, term |-> term, cond |-> cond,
     value |-> value, tags |-> <<>>, edges |-> edges]
To(b, args) == [to |-> b, args |-> args, count |-> Len(args)]
With(b) == [to |-> b, args |-> <<>>, count |-> 1]
Graph(params, vals, order, blocks) ==
    [entry |-> order[1], order |-> order, blocks |-> blocks, params |-> params, vals |-> vals]

\* A division, its refusal mapped; block 9 is reached by nothing.
Diamond ==
    Graph(<<"a", "b">>,
      [a |-> P, b |-> P, q |-> R, s |-> S, x |-> B, y |-> R, t |-> [S EXCEPT !.kind = "Bound"],
       u |-> S, dead |-> R, one |-> L(1)],
      <<1, 2, 3, 9>>,
      (1 :> Block(0, <<>>, <<Call("divide", <<"a", "b">>, "q", "s")>>, "Branch", "s", None,
                  <<To(2, <<"q">>), With(3)>>))
      @@ (2 :> Block(1, <<"x">>, <<Op("IterAdvance", <<"x">>, "y")>>, "Return", None, "y", <<>>))
      @@ (3 :> Block(2, <<"t">>,
                     <<[Op("MapRefusal", <<"t">>, "u") EXCEPT !.pairs = <<<<1, 6>>, <<2, 5>>>>]>>,
                     "Refuse", None, "u", <<>>))
      @@ (9 :> Block(3, <<>>, <<Op("ReturnValue", <<"one">>, "dead")>>, "Return", None, "dead",
                     <<>>)))

\* A loop whose back edge passes any two of its values.
Swap(p, q) ==
    Graph(<<"a", "b">>,
      [a |-> P, b |-> P, i |-> B, x |-> B, y |-> B, c |-> F, n |-> R, zero |-> L(0),
       two |-> L(2), z |-> R],
      <<1, 2, 3, 4>>,
      (1 :> Block(0, <<>>, <<>>, "Goto", None, None, <<To(2, <<"zero", "a", "b">>)>>))
      @@ (2 :> Block(5, <<"i", "x", "y">>, <<Op("IterCondition", <<"i", "two">>, "c")>>,
                     "Branch", "c", None, <<To(3, <<>>), To(4, <<>>)>>))
      @@ (3 :> Block(2, <<>>, <<Op("IterAdvance", <<"i">>, "n")>>, "Goto", None, None,
                     <<To(2, <<"n", p, q>>)>>))
      @@ (4 :> Block(3, <<>>, <<Call("add", <<"x", "y">>, "z", None)>>, "Return", None, "z",
                     <<>>)))

\* A tag chooses; a case that names no argument passes the tag.
Chooser ==
    Graph(<<"a", "b">>,
      [a |-> P, b |-> P, k |-> B, o |-> V("OperationResult", 4, 0), r |-> R, w |-> F],
      <<1, 2, 3>>,
      (1 :> [Block(0, <<>>, <<>>, "SwitchTag", "a", None,
                   <<With(2), To(2, <<"b">>), To(3, <<>>)>>) EXCEPT !.tags = <<1, 2>>])
      @@ (2 :> Block(1, <<"k">>,
            <<[Op("ConstructResult", <<"k">>, "o") EXCEPT !.tag = 9, !.at = 2, !.size = 2],
              [Op("ProjectPayload", <<"o">>, "r") EXCEPT !.at = 2]>>,
            "Return", None, "r", <<>>))
      @@ (3 :> Block(2, <<>>, <<Op("IterCondition", <<"a">>, "w")>>, "Refuse", None, "w", <<>>)))

\* A callee that answers a + 1, refuses 4 for three.
Inc == Graph(<<"a">>, [a |-> P, t |-> L(3), four |-> V("Literal", 1, 4), y |-> R],
      <<1, 2, 3>>,
      (1 :> [Block(0, <<>>, <<>>, "SwitchTag", "a", None, <<To(3, <<>>), To(2, <<>>)>>)
               EXCEPT !.tags = <<3>>])
      @@ (2 :> Block(1, <<>>, <<Op("IterAdvance", <<"a">>, "y")>>, "Return", None, "y", <<>>))
      @@ (3 :> Block(2, <<>>, <<>>, "Refuse", None, "four", <<>>)))

\* A caller that catches its callee's refusal, or does not.
Caller(status) ==
    Graph(<<"a", "b">>,
      [a |-> P, b |-> P, r |-> R, s |-> S, q |-> R, z |-> R, n |-> R],
      <<1, 2>>,
      (1 :> Block(0, <<>>, <<Call("inc", <<"a">>, "r", status),
                             Call("inc", <<"b">>, "q", "s"),
                             Call("divide", <<"a", "q">>, "n", None),
                             Call("add", <<"n", "r">>, "z", None)>>,
                  "Goto", None, None, <<To(2, <<>>)>>))
      @@ (2 :> Block(1, <<>>, <<>>, "Return", None, "z", <<>>)))

\* Counts down by calling itself: the depth or the cell runs out.
Down(wide) ==
    Graph(<<"a", "b">>,
      [a |-> P, b |-> P, r |-> R, z |-> L(0), s |-> S, m |-> R, w |-> V("OperationResult", wide, 0)],
      <<1, 2, 3>>,
      (1 :> [Block(0, <<>>, <<>>, "SwitchTag", "a", None, <<To(2, <<>>), To(3, <<>>)>>)
               EXCEPT !.tags = <<0>>])
      @@ (2 :> Block(1, <<>>, <<>>, "Return", None, "b", <<>>))
      @@ (3 :> Block(2, <<>>, <<Call("divide", <<"a", "b">>, "m", "s"),
                                Op("ReturnValue", <<"b">>, "w"),
                                Call("main", <<"m", "b">>, "r", None)>>,
                     "Return", None, "r", <<>>)))

(***************************************************************************)
(* Expressions.                                                            *)
(***************************************************************************)
Par(i) == [kind |-> "Parameter", index |-> i]
Res(c) == [kind |-> "OperationResult", call |-> c]
Seven == [kind |-> "Bound", name |-> "seven", width |-> 2]
NoExprs == [bodies |-> [f \in {} |-> None], calls |-> [c \in {} |-> None]]

\* divide(add(a, 7), twice(b)), twice inlined; a shared call; a card.
Exprs(inner) ==
    [bodies |-> [main |-> [params |-> <<2, 2>>, body |-> "top"],
                 twice |-> [params |-> <<2>>, body |-> "sum"]],
     calls |-> [top |-> [callee |-> "divide", refs |-> <<Res("left"), Res("right")>>],
                left |-> [callee |-> "add", refs |-> <<inner, Seven>>],
                right |-> [callee |-> "twice", refs |-> <<inner>>],
                sum |-> [callee |-> "add", refs |-> <<Par(1), Par(1)>>],
                one |-> [callee |-> "divide", refs |-> <<Par(1), Par(2)>>],
                two |-> [callee |-> "inc", refs |-> <<Par(1)>>],
                odd |-> [callee |-> "even", refs |-> <<Par(2)>>]]]

Only(g) == [graphs |-> [main |-> g], exprs |-> NoExprs]
Worlds ==
    {Only(Diamond), Only(Chooser), Only(Down(2)), Only(Down(8))}
    \cup {Only(Swap(p, q)) : p \in {"x", "y"}, q \in {"x", "y", "i"}}
    \cup {[graphs |-> [main |-> Caller(s), inc |-> Inc], exprs |-> NoExprs] : s \in {"s", None}}
    \cup {[graphs |-> [inc |-> Inc], exprs |-> Exprs(r)] :
            r \in {Par(2), Res("one"), Res("two"), Res("odd")}}

ArgumentsOf(w) == {<<<<a, 0>>, <<b, c>>>> : a \in 0..5, b \in 0..3, c \in {0, 1}}

(***************************************************************************)
(* Every small graph for the pass: three blocks, their edges any.          *)
(***************************************************************************)
PassVals == [a |-> P, x |-> B, q |-> R, c |-> S, one |-> L(1), p |-> R]
Blocks == {1, 2, 3}
Sent == {<<>>, <<"a">>, <<"q">>, <<"one">>}
Gotos == {[term |-> "Goto", cond |-> None, value |-> None, edges |-> <<To(t, s)>>] :
            t \in Blocks, s \in Sent}
Branches == {[term |-> "Branch", cond |-> "c", value |-> None,
              edges |-> <<To(t, <<>>), To(u, <<"p">>)>>] : t \in Blocks, u \in Blocks}
Returns == {[term |-> "Return", cond |-> None, value |-> v, edges |-> <<>>] : v \in {"x", "q"}}
Shaped(index, params, ops, e) == Block(index, params, ops, e.term, e.cond, e.value, e.edges)
PassGraphs ==
    {[Graph(<<"a">>, vals, <<1, 2, 3>>,
            <<Shaped(0, <<>>, <<Call("even", <<"a">>, None, "c")>>, e1),
              Shaped(1, params, <<Op("ReturnValue", <<"a">>, "q")>>, e2),
              Shaped(2, <<>>, <<Op("ReturnValue", <<"a">>, "p")>>, e3)>>) EXCEPT !.entry = 1] :
        e1 \in Gotos \cup Branches, e2 \in Gotos \cup Branches \cup Returns,
        e3 \in Gotos \cup Returns, params \in {<<>>, <<"x">>},
        vals \in {PassVals, [v \in DOMAIN PassVals \ {"q"} |-> PassVals[v]]}}

(***************************************************************************)
(* Sources in rxf: expressions, branches and loops, procs.                 *)
(***************************************************************************)
RxfLeaves == [add |-> [id |-> 1], subtract |-> [id |-> 2], shift_left |-> [id |-> 3],
              shift_right |-> [id |-> 4], equal |-> [id |-> 5], less |-> [id |-> 6],
              memory_copy |-> [id |-> 7]]
RxfLeaf(l, a) ==
    LET Ok(n) == [status |-> 0, out |-> n]
        Bad == [status |-> 2, out |-> None]
    IN CASE l = "add" -> Ok((a[1] + a[2]) % 1024)
         [] l = "subtract" -> Ok((a[1] - a[2]) % 1024)
         [] l = "shift_left" -> IF a[2] > 9 THEN Bad ELSE Ok((a[1] * 2 ^ a[2]) % 1024)
         [] l = "shift_right" -> IF a[2] > 9 THEN Bad ELSE Ok(a[1] \div 2 ^ a[2])
         [] l = "equal" -> Ok(IF a[1] = a[2] THEN 1 ELSE 0)
         [] l = "less" -> Ok(IF a[1] < a[2] THEN 1 ELSE 0)

Num(n) == [k |-> "num", n |-> n]
Var(x) == [k |-> "var", name |-> x]
Bin(op, a, b) == [k |-> "bin", op |-> op, a |-> a, b |-> b]
LoadOf(size, a) == [k |-> "load", size |-> size, a |-> a]
Twice(e) == [k |-> "fn", name |-> "twice", args |-> <<e>>]
Set(x, e) == [k |-> "assign", name |-> x, e |-> e]
If(e, then, else) == [k |-> "if", e |-> e, then |-> then, else |-> else]
While(e, body) == [k |-> "while", e |-> e, body |-> body]
Switch(e, cases) == [k |-> "switch", e |-> e, cases |-> cases]
Case(tags, body) == [tags |-> tags, body |-> body]
Word1(k) == [k |-> k]
Return(e) == [k |-> "return", e |-> e]
Refuse(e) == [k |-> "refuse", e |-> e]
CallOf(p) == [k |-> "call", name |-> p]
StoreAt(size, a, e) == [k |-> "store", size |-> size, a |-> a, e |-> e]
PutAt(x, e, size) == [k |-> "put", name |-> x, e |-> e, size |-> size]
Bump(x, e) == [k |-> "macro", name |-> "bump", args |-> <<x, e>>]
Declared(x) == [k |-> "var", name |-> x]
Va == Var("a")
Vb == Var("b")
Vx == Var("x")
Vy == Var("y")

Source(vars, body, procs) ==
    [params |-> <<"a", "b">>, names |-> {"a", "b", "x", "y", "sp"}, procs |-> procs,
     body |-> [i \in DOMAIN vars |-> Declared(vars[i])] \o body,
     fns |-> [twice |-> [params |-> <<"v">>, body |-> Bin("plus", Var("v"), Var("v"))]],
     macros |-> [bump |-> [params |-> <<"v", "by">>,
                           body |-> <<Set("v", Bin("plus", Var("v"), Var("by")))>>]]]

\* Expressions whose temporaries are reused, folded, made of others.
Sum == Bin("plus", Va, Vb)
RxfExprs == {Num(3), Va, Vx, Bin("minus", Va, Vb), Bin("plus", Num(2), Num(3)),
          Bin("minus", Sum, Bin("minus", Vb, Vx)), Bin("ne", Va, Vb), Bin("le", Va, Vx),
          Bin("ge", Sum, Bin("times", Vb, Num(4))), Twice(Sum), LoadOf(1, Num(2)),
          Bin("minus", LoadOf(2, Va), LoadOf(2, Sum)), Bin("shl", Sum, Bin("times", Num(4), Vb))}
Straight == {Source(<<"x", "y">>, <<Set("x", e), Set(t, f), Return(Bin("minus", Vx, Vy))>>, <<>>) :
               e \in RxfExprs, t \in {"x", "y"}, f \in RxfExprs}

Conds == {Va, Bin("lt", Va, Vb), Bin("ne", Vx, Vb)}
Ways == {<<>>, <<Set("x", Sum)>>, <<Return(Twice(Va))>>, <<Refuse(Vb)>>, <<Bump(Vx, Num(2))>>}
Ins == Ways \cup {<<Word1("break")>>, <<Bump(Vx, Num(1)), Word1("continue")>>}
Conditionals ==
    {Source(<<"x">>, <<If(c, w, v), Bump(Vx, Num(1)), Return(Vx)>>, <<>>) :
        c \in Conds, w \in Ways, v \in Ways \cup {None}}
    \cup {Source(<<"x", "y">>, <<While(Bin("lt", Vy, Num(3)),
                    <<Bump(Vy, Num(1)), If(c, w, None), Switch(Vx, <<Case(<<1>>, w), Case(<<>>, v)>>)>>),
                  Return(Bin("plus", Vx, Vy))>>, <<>>) : c \in Conds, w \in Ins, v \in Ins}
    \cup {Source(<<"x">>, <<Switch(Va, cases), Return(Vx)>>, <<>>) :
        cases \in {<<Case(<<0>>, w), Case(<<1, 3>>, v)>> : w \in Ways, v \in Ways}
             \cup {<<Case(<<>>, w), Case(<<3>>, v)>> : w \in Ways, v \in Ways}}

ProcP(mid) == [name |-> "p", body |-> <<Set("x", Bin("plus", Vx, Va)), mid, Bump(Vx, Num(1))>>]
ProcQ == [name |-> "q", body |-> <<CallOf("p"), StoreAt(2, Num(4), Vx), CallOf("p")>>]
Mids == {If(Va, <<Word1("ret")>>, None), CallOf("r"), PutAt("y", Sum, 1),
         If(Bin("lt", Vx, Num(6)), <<Bump(Vx, Num(2)), CallOf("p")>>, None)}
ProcR == [name |-> "r", body |-> <<Set("y", Bin("plus", Vy, Vx))>>]
Calls == {Source(<<"x", "y", "sp">>,
             <<Set("sp", Num(10)), Set("y", Num(2)), CallOf(n), CallOf(n2), Bump(Vx, LoadOf(2, Num(4))),
               Return(Bin("plus", Vx, Vy))>>, <<ProcP(mid), ProcQ, ProcR>>) :
             n \in {"p", "q", "r"}, n2 \in {"p", "q"}, mid \in Mids}

(***************************************************************************)
(* A starter somebody wrote, the sources of native/ it is built from.      *)
(***************************************************************************)
Code(data) == [data |-> data, source |-> None, body |-> None, recipe |-> None]
Func(g, cs) == [graph |-> g, leaves |-> {}, blobs |-> <<>>, codes |-> [c \in cs |-> Code(None)]]
Mod(fs) == [kind |-> "module", funcs |-> fs]
MyWritten ==
    [runtime |-> Mod([append |-> Func(None, {"linux", "uefi"}), cleanup |-> Func(None, {"linux"})]),
     graph |-> Mod("run" :> Func(None, {"linux", "uefi"})),
     memory |-> Mod(<<>>), app |-> Mod("main" :> Func(0, {})),
     targets |-> [kind |-> "targets", recipes |-> <<>>],
     capabilities |-> [kind |-> "capabilities", required |-> {"clock"}],
     boot |-> [kind |-> "boot", recipe |-> 0, meaning |-> 0, pins |-> <<"artifact", 0>>],
     sources |-> [kind |-> "source", text |-> 0]]
MyHome == [runtime_append |-> "runtime", runtime_cleanup |-> "runtime", graph_run |-> "graph",
          live_pump |-> "live", memory_copy |-> "memory"]
MyMoves == {<<"memory_copy", "runtime">>}
MyAuthored == {[file |-> "memory", name |-> "copy", fn |-> Func(None, {"linux"})],
              [file |-> "app", name |-> "lost", fn |-> Func(None, {"linux"})]}
MyKeyOf == (<<"runtime", "append">> :> "runtime_append") @@ (<<"runtime", "cleanup">> :> "runtime_cleanup")
   @@ (<<"graph", "run">> :> "graph_run") @@ (<<"live", "pump">> :> "live_pump") @@ (<<"memory", "copy">> :> "memory_copy")
MyMachineOf == [linux |-> "x86_64", uefi |-> "x86_64", bios |-> "x86_64", wasm |-> "wasm32"]
MyGenerated == {"bios", "wasm"}
MyDerived == [live |-> [from |-> "cleanup", name |-> "pump"], graph |-> [from |-> "append", name |-> "run"]]
MyLeafKeys == {"memory_copy", "live_pump"}
MyCopying == <<"app", "boot", "capabilities", "graph", "hosts", "live", "memory", "runtime",
   "source_boot", "source_graph", "source_live", "source_memory", "source_runtime", "sources", "targets", "tiny">>

----------------------------------------------------------------------------

VARIABLES part,
    world, given, programs, places, cell, frames, pc, ended,
    graph,
    source, asked, words, mem, place, answer,
    repo, tree, work, unlinks, copies, goal, made, changes

Run == INSTANCE ComposedRun WITH
    Word <- 2, StatusBytes <- 1, Byte <- 32, CellBytes <- 48, Depth <- 4, CopyBytes <- 6, Stride <- 3,
    NONE <- 999, Given <- ArgumentsOf
Rxf == INSTANCE RxfSource WITH
    Word <- 2, StatusBytes <- 1, CellBytes <- 80, NONE <- 999, Stride <- 3, Leaves <- RxfLeaves,
    Objects <- <<>>, Byte <- 32, LeafOf <- RxfLeaf, Base <- 36, FRAME <- 40, BIG <- 1000,
    Sources <- Straight \cup Conditionals \cup Calls,
    ArgsOf <- LAMBDA s : {<<a, b>> : a \in {0, 3}, b \in {1, 2}},
    Memory <- [i \in 1..80 |-> IF i < 10 THEN i ELSE 0],
    given <- asked, pc <- place, ended <- answer
Sync == INSTANCE StarterSync WITH
    Written <- MyWritten, Home <- MyHome, Moves <- MyMoves, Authored <- MyAuthored,
    KeyOf <- MyKeyOf, MachineOf <- MyMachineOf, Generated <- MyGenerated, Derived <- MyDerived,
    LeafKeys <- MyLeafKeys, Copying <- MyCopying, MaxEdits <- 2, edits <- changes

runVars == <<world, given, programs, places, cell, frames, pc, ended>>
rxfVars == <<source, asked, words, mem, place, answer>>
syncVars == <<repo, tree, work, unlinks, copies, goal, made, changes>>
toolsVars == <<runVars, graph, rxfVars, syncVars>>

ToolsParts == {"run", "pass", "rxf", "sync"}

ToolsInit ==
    /\ IF part = "run" THEN Run!Init
       ELSE /\ world = [graphs |-> <<>>] /\ given = <<>> /\ programs = <<>> /\ places = <<>>
            /\ cell = Run!Zeros(48) /\ frames = <<[name |-> 0, base |-> 0, size |-> 0, ret |-> 0]>>
            /\ pc = 0 /\ ended = None
    /\ IF part = "pass" THEN graph \in PassGraphs ELSE graph = None
    /\ IF part = "rxf" THEN Rxf!RunInit
       ELSE source = None /\ asked = None /\ words = None /\ mem = None /\ place = None
            /\ answer = None
    /\ Sync!Init

ToolsNext ==
    \/ part = "run" /\ Run!Next /\ UNCHANGED <<graph, rxfVars, syncVars>>
    \/ part = "pass" /\ graph' = Run!EliminateUnreachable(graph)
       /\ UNCHANGED <<runVars, rxfVars, syncVars>>
    \/ part = "rxf" /\ Rxf!RunNext /\ UNCHANGED <<runVars, graph, syncVars>>
    \/ part = "sync" /\ Sync!Next /\ UNCHANGED <<runVars, graph, rxfVars>>

\* A composed function answers what its graph or its expression means (ComposedRun).
ComposedAnswers == Run!ComposedAnswers

\* The pass keeps a graph what a function means: see SuccessorValid (Composer).
SuccessorStands == part = "pass" => Run!SuccessorValid(graph)

\* Compiled or composed, the words are the source's (RxfSource).
SourceStands == part = "rxf" => Rxf!SourceStands

\* The tree is settled, its pins name its bytes, and builds are of those pins (StarterSync).
TreeStands == Sync!TreeStands

-----------------------------------------------------------------------------
(* The stores and the world *)

\* Sources whose words differ in the image, or only in what the host derives.
Sources == {[image |-> 1, text |-> 1, block |-> 1], [image |-> 2, text |-> 1, block |-> 1],
            [image |-> 3, text |-> 2, block |-> 2]}

\* Arenas behind their frame: modules in modules, an alias, a free record.
Rec(size, held, parent, type, rows, kind) ==
  [size |-> size, held |-> held, parent |-> parent, type |-> type, rows |-> rows, kind |-> kind]
Frame == <<Rec(2, TRUE, 0, 0, {}, "data"), Rec(1, TRUE, 0, 0, {}, "module"),
           Rec(1, TRUE, 2, 0, {}, "module"), Rec(1, TRUE, 3, 0, {}, "data"),
           Rec(1, TRUE, 3, 0, {}, "data")>>
Streamed == {Frame \o <<Rec(1, TRUE, p1, 0, {8}, "module"), Rec(2, held, 6, t, rows, kind),
                        Rec(1, TRUE, p3, 6, {}, "data")>> :
               p1 \in {2, 5}, held \in BOOLEAN, t \in {0, 8}, rows \in {{}, {8}},
               kind \in {"alias", "data"}, p3 \in {6, 7}}
StreamEdits == {Frame, Frame \o <<Rec(1, TRUE, 2, 0, {5}, "module")>>}

\* Cells by what they show: data, runs in each state, spans that hold nothing.
Shown(kind, payload, refs, cut, run, good) ==
  [kind |-> kind, payload |-> payload, refs |-> refs, cut |-> cut, run |-> run, good |-> good]
FloorCells == {Shown("data", 5, 1, 0, 0, TRUE), Shown("data", 0, 2, 0, 0, TRUE),
               Shown("run", 280, 0, 0, 2, TRUE), Shown("run", 280, 1, 0, 4, FALSE),
               Shown("run", 280, 0, 0, 6, TRUE), Shown("run", 41, 0, 0, 1, TRUE)}
FloorFrees == {Shown("dead", 200, 1, 0, 0, TRUE), Shown("dead", 200, 2, 48, 0, TRUE),
               Shown("dead", 40, 1, 72, 0, TRUE)}

\* Three districts, narrow and wide, with buildings or none; eleven in a narrow one are
\* more than its raster holds.
District(w, n) == [w |-> w, n |-> n]
Planned == [1..3 -> [w : {120, 360}, n : {0, 3}]]
           \cup {<<District(120, 11), District(120, n), District(360, 0)>> : n \in {0, 3}}
Cable(from, to, how) == [from |-> from, to |-> to, how |-> how, fresh |-> to # 0]
Cabled == {<<Cable(1, 2, "ref"), Cable(2, 3, "role")>>, <<Cable(1, 3, "ref"), Cable(2, 3, "ref")>>,
           <<Cable(1, 0, "ref"), Cable(3, 1, "alias")>>, <<Cable(1, 2, "ref"), Cable(2, 1, "role")>>}

\* Types: a number, another scalar, a struct of both, a struct of that one.
Field(type, offset, count, ref) ==
  [type |-> type, offset |-> offset, count |-> count, ref |-> ref, derived |-> FALSE]
Type(form, size, variable, fields) ==
  [form |-> form, size |-> size, variable |-> variable, fields |-> fields]
Described ==
  {<<Type("uint", 8, FALSE, <<>>), Type(form, size, FALSE, <<>>),
     Type("struct", whole, variable, <<Field(1, 0, 1, ref), Field(2, at, count, FALSE)>>),
     Type("struct", 32, FALSE, <<Field(3, 0, twice, FALSE),
                                 [Field(1, after, 1, TRUE) EXCEPT !.derived = known]>>)>> :
       form \in {"enum", "hex", "bool", "none"}, size \in {1, 3}, whole \in {0, 12, 16},
       variable \in BOOLEAN, ref \in BOOLEAN, at \in {4, 8}, count \in 0..2, twice \in {1, 2},
       after \in {16}, known \in BOOLEAN}
Named(name, target) == [name |-> name, target |-> target]
Aliased == {<<Named("a", <<"m">>), Named("b", <<"m", "y">>)>>,
            <<Named("c", <<"m", "x">>), Named("d", <<"m", "y">>)>>}

----------------------------------------------------------------------------

VARIABLES
  cells, clock, decayed, system, counted, recalled, recalls,
  sources, keyFile, outs, storeFile, artifact, packed, packs,
  binary, report,
  image, layers, payload, mutex, working, stage, runs,
  current, arenaEdits, cache, request,
  magic, stream, poison, buildings, city,
  plan, placed, blocks, streets, edges, straights, bundles, stubs,
  types, built, value, aliases, uses

Memory == INSTANCE MemoryGraph WITH
  Contents <- {"a"}, Width <- 2, MaxCells <- 32, MaxClock <- 1, MaxCalls <- 3,
  outcome <- recalled, calls <- recalls
Package == INSTANCE Packaging WITH
  WordMax <- 2, Worlds <- Sources, KeyPaths <- {"p", "q"}, Ids <- {"a", "l"}, LongIds <- {"l"},
  Seeds <- {1, 2}, MaxOuts <- 2, MaxAge <- 1, Skew <- 1, Quorum <- 1, MaxCalls <- 4,
  source <- sources, outcome <- packed, calls <- packs
Binary == INSTANCE BinaryCheck WITH
  Functions <- 1..4, Architecture <- [x |-> "X8664", w |-> "Wasm32"],
  image <- binary
Scene == INSTANCE SceneServer WITH
  Requests <- {1, 2}, MaxEdits <- 1, Arenas <- Streamed, Edited <- StreamEdits, Span <- 2,
  edits <- arenaEdits
Stream == INSTANCE SceneServer WITH
  Requests <- {1}, MaxEdits <- 1, Arenas <- Streamed, Edited <- StreamEdits, Span <- 2,
  edits <- arenaEdits
Floors == INSTANCE CellFloors WITH
  Cells <- FloorCells, Frees <- FloorFrees, Width <- 3, PoisonRun <- 64, VoidTile <- 128,
  DistrictSpan <- 512, Types <- Described, Aliases <- Aliased, MaxDepth <- 2, MaxHeld <- 2
Streets == INSTANCE City WITH
  Plans <- Planned, Cols <- 2, Cables <- Cabled, Graves <- {<<-48, 48>>},
  cells <- placed

memoryVars == <<cells, clock, decayed, system, counted, recalled, recalls>>
packageVars == <<sources, keyFile, outs, storeFile, artifact, packed, packs>>
checkVars == <<binary, report>>
sessionVars == <<image, layers, payload, mutex, working, stage, runs>>
streamVars == <<current, arenaEdits, cache, request>>
floorsVars == <<magic, stream, poison, buildings, city>>
cityVars == <<plan, placed, blocks, streets, edges, straights, bundles, stubs>>
leavesVars == <<types, built, value, aliases, uses>>
storeVars == <<memoryVars, packageVars, checkVars>>
shownVars == <<sessionVars, streamVars, floorsVars, cityVars, leavesVars>>

Init ==
  /\ part \in ToolsParts \cup {"memory", "package", "check", "session", "stream", "floors", "city", "leaves"}
  /\ ToolsInit
  /\ IF part = "memory" THEN Memory!Init
     ELSE cells = <<>> /\ clock = None /\ decayed = None /\ system = None
       /\ counted = <<>> /\ recalled = None /\ recalls = None
  /\ IF part = "package" THEN Package!Init
     ELSE sources = None /\ keyFile = None /\ outs = None /\ storeFile = None
       /\ artifact = None /\ packed = None /\ packs = None
  /\ IF part = "check" THEN Binary!Init
     ELSE binary = None /\ report = None
  /\ IF part = "session" THEN Scene!Init
     ELSE image = None /\ layers = None /\ payload = None /\ mutex = None
       /\ working = None /\ stage = None /\ runs = None
  /\ IF part = "stream" THEN Stream!StreamInit
     ELSE current = None /\ arenaEdits = None /\ cache = None /\ request = None
  /\ IF part = "floors" THEN Floors!Init
     ELSE magic = None /\ stream = None /\ poison = None /\ buildings = None
       /\ city = None
  /\ IF part = "city" THEN Streets!Init
     ELSE plan = None /\ placed = None /\ blocks = None /\ streets = None
       /\ edges = None /\ straights = None /\ bundles = None /\ stubs = None
  /\ IF part = "leaves" THEN Floors!LeafInit
     ELSE types = None /\ built = None /\ value = None /\ aliases = None /\ uses = None

Next ==
  \/ ToolsNext /\ UNCHANGED <<part, storeVars, shownVars>>
  \/ part = "memory" /\ Memory!Next
     /\ UNCHANGED <<part, toolsVars, shownVars, packageVars, checkVars>>
  \/ part = "package" /\ Package!Next
     /\ UNCHANGED <<part, toolsVars, shownVars, memoryVars, checkVars>>
  \/ part = "check" /\ Binary!Next
     /\ UNCHANGED <<part, toolsVars, shownVars, memoryVars, packageVars>>
  \/ part = "session" /\ Scene!Next
     /\ UNCHANGED <<part, toolsVars, storeVars, streamVars, floorsVars, cityVars, leavesVars>>
  \/ part = "stream" /\ Stream!StreamNext
     /\ UNCHANGED <<part, toolsVars, storeVars, sessionVars, floorsVars, cityVars, leavesVars>>
  \/ part = "floors" /\ Floors!Next
     /\ UNCHANGED <<part, toolsVars, storeVars, sessionVars, streamVars, cityVars, leavesVars>>
  \/ part = "city" /\ Streets!Next
     /\ UNCHANGED <<part, toolsVars, storeVars, sessionVars, streamVars, floorsVars, leavesVars>>
  \/ part = "leaves" /\ Floors!LeafNext
     /\ UNCHANGED <<part, toolsVars, storeVars, sessionVars, streamVars, floorsVars, cityVars>>

Spec == Init /\ [][Next]_<<part, toolsVars, storeVars, shownVars>>

-----------------------------------------------------------------------------
(* Each part's property, in the behaviours of that part *)

\* Memories accrete: no write of the store destroys one, and nothing is counted or
\* promoted twice (MemoryGraph).
MemoriesAccrete == Memory!MemoriesAccrete

\* What a package carries is what was certified and boots in its own world (Packaging),
\* and a binary is found whole just when everything it can run is there (BinaryCheck).
PackagesHold ==
  /\ part = "package" => Package!PackageStands
  /\ part = "check" => Binary!VerdictRight

\* A pass runs once over an image, however many requests need it, and the parts a
\* district streams reassemble to the image (SceneServer).
SceneServed ==
  /\ part = "session" => Scene!ComputedOnce
  /\ part = "stream" => Stream!PartsReassemble

\* The floors of a cell's building are the cell's bytes, and the leaves a value is read
\* by lie inside it and apart (CellFloors).
FloorsFit ==
  /\ part = "floors" => Floors!FloorsAreBytes
  /\ part = "leaves" => Floors!LeavesFit

\* The streets and cables of the city find their way between its buildings (City).
CityStands == part = "city" => Streets!CityStands
=============================================================================
