------------------------------ MODULE Composer ------------------------------
(***************************************************************************)
(* The checks of a semantic graph and its one rewrite: the invariants a    *)
(* graph must hold before it is composed, each failure a named refusal,    *)
(* and the elimination of the blocks no edge reaches with the values only  *)
(* those blocks held.                                                      *)
(*                                                                         *)
(* The composer: a semantic graph as the words the interpreter runs.       *)
(* A value of the frame gets a slot of its own, the blocks are laid out    *)
(* with the entry first, a jump becomes a word index and an edge the list  *)
(* of its copies.  A function whose body is an expression of calls becomes *)
(* a straight line of instructions, every call's status checked.           *)
(*                                                                         *)
(* A graph is a record: order (its blocks as they are listed), blocks,     *)
(* params and vals.  Of an operation's input types only their number is    *)
(* kept (types).  NONE is the word of no slot.                             *)
(***************************************************************************)
EXTENDS Naturals, SequencesExt

CONSTANTS Word, StatusBytes, CellBytes, None, NONE,
          Stride      \* how many arguments the image numbers for one edge

CONSTANTS Leaves,     \* the leaves of the interpreter: name -> id, out, words
          Objects     \* durable id of a function or data object: name -> id

\* native/graph.h: the numbers of the words.
SLOT == 0
LITERAL == 1
OBJECT == 2
CALL == 1
MOVE == 2
MAP == 3
FIELD == 4
CONSTRUCT == 5
LESS == 6
INCREMENT == 7
GOTO == 8
BRANCH == 9
SWITCH == 10
RETURN == 11
REFUSE == 12
MODE_ZERO == 0
MODE_NONZERO == 1
GRAPH_MAGIC == 826
GRAPH_CALL == 0

FRAME_VALUES == {"Parameter", "OperationResult", "Bound"}

RoundUp(n) == ((n + Word - 1) \div Word) * Word
AtLeast(n, least) == IF n < least THEN least ELSE n

\* The words of one function: a graph's plan or an expression's line.
Operand(kind, a, b) == <<kind, a, b>>

Some(v) == IF v = None THEN {} ELSE {v}

\* Every value a block reads or writes, its parameters among them.
Reads(block) == Some(block.cond) \cup Some(block.value)
                \cup UNION {ToSet(block.edges[e].args) : e \in DOMAIN block.edges}
                \cup UNION {ToSet(block.ops[i].ins) : i \in DOMAIN block.ops}
Writes(block) == UNION {Some(block.ops[i].result) \cup Some(block.ops[i].status)
                          : i \in DOMAIN block.ops}
Uses(block) == Reads(block) \cup Writes(block) \cup ToSet(block.params)

(***************************************************************************)
(* The checks.                                                             *)
(***************************************************************************)
TERMINATORS == {"Goto", "Branch", "SwitchTag", "Return", "Refuse"}

\* The blocks are laid out from index 0 in order, the entry first.
BadEntry(g) ==
    \/ g.order = <<>>
    \/ /\ g.order # <<>>
       /\ \/ g.blocks[g.order[1]].index # 0
          \/ \E i \in 2..Len(g.order) :
                g.blocks[g.order[i - 1]].index >= g.blocks[g.order[i]].index

DanglingValue(g, block) == Uses(block) \ DOMAIN g.vals # {}

DanglingBlock(g, block) ==
    \E e \in DOMAIN block.edges : block.edges[e].to \notin ToSet(g.order)

\* What a terminator of this kind has: a condition, a value, its successors.
BadTerminator(block) ==
    LET conditional == block.term \in {"Branch", "SwitchTag"}
        valued == block.term \in {"Return", "Refuse"}
        wanted == CASE block.term = "Goto" -> 1
                    [] block.term = "Branch" -> 2
                    [] block.term = "SwitchTag" -> Len(block.tags) + 1
                    [] OTHER -> 0
    IN \/ block.term \notin TERMINATORS
       \/ conditional # (block.cond # None)
       \/ valued # (block.value # None)
       \/ Len(block.edges) # wanted

\* An edge passes exactly the values its target takes.
BadEdge(g, edge) ==
    edge.to \in ToSet(g.order) /\ Len(edge.args) # Len(g.blocks[edge.to].params)

\* A value lands in a parameter of its width and type; a literal in any.
EdgeType(g, edge) ==
    /\ edge.to \in ToSet(g.order)
    /\ ~BadEdge(g, edge)
    /\ \E i \in DOMAIN edge.args :
         LET params == g.blocks[edge.to].params IN
         /\ {edge.args[i], params[i]} \subseteq DOMAIN g.vals
         /\ g.vals[edge.args[i]].kind # "Literal"
         /\ \/ g.vals[edge.args[i]].width # g.vals[params[i]].width
            \/ g.vals[edge.args[i]].status # g.vals[params[i]].status

\* The operations a program of the graph target has.
OPCODES == {"Call", "ReturnValue"}

BadOperation(g, op) ==
    \/ op.opcode \notin OPCODES
    \/ op.opcode = "ReturnValue" /\ Len(op.ins) # 1
    \/ op.opcode = "Call" /\ op.callee = None
    \/ op.types # Len(op.ins)
    \/ op.status # None /\ ~g.vals[op.status].status

Problems(g) ==
    (IF BadEntry(g) THEN {<<"BadEntry", "graph">>} ELSE {})
    \cup UNION {
       LET block == g.blocks[b] IN
       {<<k, b>> : k \in
          (IF DanglingValue(g, block) THEN {"DanglingValue"} ELSE {})
          \cup (IF DanglingBlock(g, block) THEN {"DanglingBlock"} ELSE {})
          \cup (IF BadTerminator(block) THEN {"BadTerminator"} ELSE {})
          \cup (IF \E e \in DOMAIN block.edges : BadEdge(g, block.edges[e])
                THEN {"BadEdge"} ELSE {})
          \cup (IF ~DanglingValue(g, block)
                   /\ \E e \in DOMAIN block.edges : EdgeType(g, block.edges[e])
                THEN {"EdgeType"} ELSE {})
          \cup (IF ~DanglingValue(g, block)
                   /\ \E i \in DOMAIN block.ops : BadOperation(g, block.ops[i])
                THEN {"BadOperation"} ELSE {})}
       : b \in ToSet(g.order)}

Sound(g) == Problems(g) = {}

(***************************************************************************)
(* The pass.                                                               *)
(***************************************************************************)
\* The blocks the entry reaches by its edges: a fixpoint in as many rounds
\* as there are blocks.
Reachable(g) ==
    LET Grow(seen) == seen \cup
            {g.blocks[b].edges[e].to : <<b, e>> \in
                {p \in seen \X (1..9) : p[2] \in DOMAIN g.blocks[p[1]].edges}}
        R[n \in 0..Len(g.order)] ==
            IF n = 0 THEN {g.order[1]} ELSE Grow(R[n - 1] \cap ToSet(g.order))
    IN R[Len(g.order)] \cap ToSet(g.order)

\* The values of the blocks left, their parameters forgotten.
UsedByOperations(g, keep) ==
    {v \in DOMAIN g.vals : g.vals[v].kind = "Parameter"}
    \cup UNION {Reads(g.blocks[b]) \cup Writes(g.blocks[b]) : b \in keep}

\* A parameter of the function is its signature, used or not.
UsedValues(g, keep) ==
    {v \in DOMAIN g.vals : g.vals[v].kind = "Parameter"}
    \cup UNION {Uses(g.blocks[b]) : b \in keep}

EliminateUnreachable(g) ==
    LET keep == Reachable(g)
        used == UsedValues(g, keep)
    IN [g EXCEPT !.order = SelectSeq(@, LAMBDA b : b \in keep),
                 !.blocks = [b \in keep |-> @[b]],
                 !.vals = [v \in DOMAIN @ \cap used |-> @[v]]]

\* docs/05: the successor of a sound graph is sound, and reaches every block.
SuccessorValid(g) ==
    Sound(g) => LET next == EliminateUnreachable(g)
                IN /\ Sound(next)
                   /\ Reachable(next) = DOMAIN next.blocks
                   /\ EliminateUnreachable(next) = next

(***************************************************************************)
(* A plan: its blocks in order, its values placed, its words.              *)
(***************************************************************************)
OrderedBlocks(g) ==
    LET entry == g.entry
        rest == {b \in DOMAIN g.blocks : b # entry}
    IN <<entry>> \o SetToSortSeq(rest, LAMBDA a, b : g.blocks[a].index < g.blocks[b].index)

Present(v) == IF v = None THEN <<>> ELSE <<v>>

FrameHandles(g) ==
    LET OfOp(op) == Present(op.result) \o Present(op.status)
        OfBlock(b) == g.blocks[b].params
                      \o FlattenSeq([i \in DOMAIN g.blocks[b].ops |->
                                        OfOp(g.blocks[b].ops[i])])
        blocks == OrderedBlocks(g)
    IN g.params \o FlattenSeq([i \in DOMAIN blocks |-> OfBlock(blocks[i])])

\* A slot of its own for every value, a whole number of words apart.
PlaceValues(g) ==
    LET Place(acc, v) ==
          IF v \in DOMAIN acc.slot THEN acc
          ELSE [slot |-> [w \in DOMAIN acc.slot \cup {v} |->
                            IF w = v THEN acc.at ELSE acc.slot[w]],
                at |-> acc.at + RoundUp(AtLeast(g.vals[v].width, 1))]
    IN FoldLeft(Place, [slot |-> [v \in {} |-> 0], at |-> 0], FrameHandles(g))

FrameOf(g) == AtLeast(PlaceValues(g).at, Word)

ValueOperand(g, slot, v) ==
    IF g.vals[v].kind = "Literal"
    THEN Operand(LITERAL, g.vals[v].literal, g.vals[v].width)
    ELSE Operand(SLOT, slot[v], g.vals[v].width)

SlotOrNone(slot, v) == IF v = None THEN NONE ELSE slot[v]

Instruction(g, slot, op) ==
    LET ins == [i \in DOMAIN op.ins |-> ValueOperand(g, slot, op.ins[i])]
        dst == SlotOrNone(slot, op.result)
        width == IF op.result = None THEN 0 ELSE g.vals[op.result].width
    IN CASE op.opcode = "Call" ->
              IF op.callee \in DOMAIN Leaves
              THEN <<CALL, Leaves[op.callee].id, Len(ins), dst, width,
                     SlotOrNone(slot, op.status)>> \o FlattenSeq(ins)
              ELSE <<CALL, GRAPH_CALL, Len(ins), dst, width,
                     SlotOrNone(slot, op.status)>>
                   \o Operand(OBJECT, Objects[op.callee], 0) \o FlattenSeq(ins)
         [] op.opcode = "ReturnValue" -> <<MOVE, dst, width>> \o ins[1]
         [] op.opcode = "IterCondition" ->
              IF Len(ins) = 1 THEN <<MOVE, dst, width>> \o ins[1]
              ELSE <<LESS, dst>> \o ins[1] \o ins[2]
         [] op.opcode = "IterAdvance" -> <<INCREMENT, dst, width>> \o ins[1]
         [] op.opcode = "ProjectPayload" ->
              <<FIELD, dst, width>> \o ins[1] \o <<op.at, width>>
         [] op.opcode = "ConstructResult" ->
              <<CONSTRUCT, dst, width, op.tagat, op.tag>> \o ins[1]
              \o <<op.at, op.size>>
         [] op.opcode = "MapRefusal" ->
              <<MAP, dst, width>> \o ins[1] \o <<op.at, Len(op.pairs)>>
              \o FlattenSeq(op.pairs)

\* The member of a set of one: names a value that is used many times.
Only(S) == CHOOSE x \in S : TRUE

(***************************************************************************)
(* Edges.  The emitter numbers the arguments of a block's edges through,   *)
(* Stride to an edge, and writes how many each edge has; a missing last    *)
(* one is the condition of the block.  The numbers and the widths must be  *)
(* those of the target's parameters.                                       *)
(***************************************************************************)
BlockImage(block) ==
    LET at == UNION {{<<e, i>> : i \in DOMAIN block.edges[e].args} : e \in DOMAIN block.edges}
    IN [counts |-> [e \in DOMAIN block.edges |-> block.edges[e].count],
        arguments |-> [x \in {(p[1] - 1) * Stride + p[2] - 1 : p \in at} |->
            LET last == CHOOSE p \in at : /\ (p[1] - 1) * Stride + p[2] - 1 = x
                                          /\ \A q \in at : (q[1] - 1) * Stride + q[2] - 1 = x
                                                         => q[1] <= p[1]
            IN block.edges[last[1]].args[last[2]]]]

EdgeArgs(g, b, e) ==
    LET block == g.blocks[b]
        Of(image) == LET mine == {x \in DOMAIN image.arguments : x \div Stride = e - 1}
                     IN [i \in 1..Cardinality(mine) |->
                           image.arguments[SetToSortSeq(mine, <)[i]]]
        Whole(args, image) == IF Len(args) < image.counts[e] /\ block.cond # None
                              THEN Append(args, block.cond) ELSE args
    IN Only({Whole(Of(image), image) : image \in {BlockImage(block)}})

EdgeWhole(g, b, e) ==
    LET params == g.blocks[g.blocks[b].edges[e].to].params
        args == EdgeArgs(g, b, e)
    IN /\ Len(args) = Len(params)
       /\ \A i \in DOMAIN args : \/ g.vals[args[i]].kind = "Literal"
                                 \/ g.vals[args[i]].width = g.vals[params[i]].width

EncodeEdge(g, slot, pcs, b, e) ==
    LET to == g.blocks[b].edges[e].to
        params == g.blocks[to].params
        Copy(arg, param) == ValueOperand(g, slot, arg) \o <<slot[param], g.vals[param].width>>
    IN Only({<<pcs[to], Len(args)>>
             \o FlattenSeq([i \in DOMAIN args |-> Copy(args[i], params[i])])
             : args \in {EdgeArgs(g, b, e)}})

Terminator(g, slot, pcs, b) ==
    LET block == g.blocks[b]
        edges == FlattenSeq([e \in DOMAIN block.edges |->
                                EncodeEdge(g, slot, pcs, b, e)])
        Of(v) == ValueOperand(g, slot, v)
    IN CASE block.term = "Return" ->
              <<RETURN>> \o Of(block.value) \o <<g.vals[block.value].width>>
         [] block.term = "Refuse" -> <<REFUSE>> \o Of(block.value)
         [] block.term = "Goto" -> <<GOTO>> \o edges
         [] block.term = "Branch" ->
              <<BRANCH>> \o Of(block.cond)
              \o <<IF g.vals[block.cond].status THEN MODE_ZERO ELSE MODE_NONZERO>>
              \o edges
         [] block.term = "SwitchTag" ->
              <<SWITCH>> \o Of(block.cond) \o <<Len(block.tags)>> \o block.tags
              \o edges

\* The pieces of a block: its instructions, then its terminator.
Pieces(g, slot, pcs, b) ==
    Append([i \in DOMAIN g.blocks[b].ops |-> Instruction(g, slot, g.blocks[b].ops[i])],
           Terminator(g, slot, pcs, b))

\* The word index of every piece of every block, from `header` on: the
\* lengths do not depend on the addresses, so the first pass uses zeros.
Starts(g, slot, header) ==
    LET blocks == OrderedBlocks(g)
        blank == [b \in DOMAIN g.blocks |-> 0]
        Lay(acc, b) ==
          LET Add(a, piece) == [at |-> a.at + Len(piece),
                                seq |-> Append(a.seq, a.at)]
          IN Only({[at |-> laid.at,
                    of |-> [c \in DOMAIN acc.of \cup {b} |->
                              IF c = b THEN laid.seq ELSE acc.of[c]]]
                   : laid \in {FoldLeft(Add, [at |-> acc.at, seq |-> <<>>],
                                        Pieces(g, slot, blank, b))}})
    IN FoldLeft(Lay, [at |-> header, of |-> [b \in {} |-> <<>>]], blocks).of

Header(frame, params, entry) ==
    <<GRAPH_MAGIC, frame, Len(params),
      FoldLeft(LAMBDA n, p : n + RoundUp(p[2]) \div Word, 0, params), entry>>
    \o FlattenSeq(params)

Places(g) ==
    Only({[slot |-> slot, starts |-> Starts(g, slot, 5 + 2 * Len(g.params))]
          : slot \in {PlaceValues(g).slot}})

WordsAt(g, slot, pcs) ==
    LET blocks == OrderedBlocks(g)
        table == [i \in DOMAIN g.params |->
                    <<slot[g.params[i]], g.vals[g.params[i]].width>>]
    IN Header(FrameOf(g), table, pcs[blocks[1]])
       \o FlattenSeq([i \in DOMAIN blocks |-> FlattenSeq(Pieces(g, slot, pcs, blocks[i]))])

Encode(g) ==
    Only(UNION {{WordsAt(g, at.slot, pcs) : pcs \in {[b \in DOMAIN g.blocks |-> at.starts[b][1]]}}
                : at \in {Places(g)}})

\* A graph the composer refuses has no program.
Composes(g) ==
    /\ g.entry \in DOMAIN g.blocks
    /\ \A b \in DOMAIN g.blocks : \A e \in DOMAIN g.blocks[b].edges :
         /\ g.blocks[b].edges[e].to \in DOMAIN g.blocks
         /\ EdgeWhole(g, b, e)
    /\ FrameOf(g) <= CellBytes
(***************************************************************************)
(* An expression: a function whose body is a call.  The calls a body       *)
(* reaches become instructions in the order of their arguments; a callee   *)
(* that is an expression too is inlined, one with a graph of its own is    *)
(* called by the id of its words.  A call met again is not made again.     *)
(*                                                                         *)
(* x.params are the widths of the parameters, x.body the call it is,       *)
(* calls[c] the callee and the references of a call.  `line` is what was   *)
(* emitted so far: its words, its frame, the result of every call.         *)
(***************************************************************************)
Allocate(line, width) == [line EXCEPT !.frame = @ + RoundUp(width)]

\* FOLLOWING and REFUSAL are patched when the line is laid out.
FOLLOWING == 900
REFUSAL == 901
StatusUnread == <<BRANCH>> \o Operand(SLOT, 0, StatusBytes)
                \o <<MODE_NONZERO, FOLLOWING, 0, FOLLOWING, 0>>

StatusCheck == <<BRANCH>> \o Operand(SLOT, 0, StatusBytes)
               \o <<MODE_ZERO, FOLLOWING, 0, REFUSAL, 0>>

Emit(line, words) == [line EXCEPT !.words = @ \o words]

RECURSIVE CallOf(_, _, _, _, _), ReferenceOf(_, _, _, _, _)

\* Each answers [line, operand].
ReferenceOf(exprs, ref, line, inner, stack) ==
    CASE ref.kind = "Parameter" -> [line |-> line, operand |-> inner[ref.index]]
      [] ref.kind = "Bound" ->
           [line |-> Emit(Allocate(line, ref.width),
                <<<<MOVE, line.frame, ref.width>>
                  \o Operand(OBJECT, Objects[ref.name], ref.width)>>),
            operand |-> Operand(SLOT, line.frame, ref.width)]
      [] ref.kind = "OperationResult" -> CallOf(exprs, ref.call, line, inner, stack)

CallOf(exprs, c, line, inner, stack) ==
    LET key == Append(stack, c)
        call == exprs.calls[c]
        Given(acc, ref) ==
          LET r == ReferenceOf(exprs, ref, acc.line, inner, stack)
          IN [line |-> r.line, given |-> Append(acc.given, r.operand)]
        args == FoldLeft(Given, [line |-> line, given |-> <<>>], call.refs)
        leaf == Leaves[call.callee]
        Made(callee, width) ==
          LET out == IF width = 0 THEN NONE ELSE args.line.frame
          IN [line |-> Emit(Allocate(args.line, width),
                 <<<<CALL>> \o callee[1] \o <<Len(args.given), out, width, 0>>
                   \o callee[2] \o FlattenSeq(args.given),
                   StatusCheck>>),
              operand |-> IF width = 0 THEN Operand(SLOT, 0, StatusBytes)
                          ELSE Operand(SLOT, out, width)]
        Kept(r) == [r EXCEPT !.line.results =
                       [k \in DOMAIN @ \cup {key} |->
                          IF k = key THEN r.operand ELSE @[k]]]
    IN IF key \in DOMAIN line.results
       THEN [line |-> line, operand |-> line.results[key]]
       ELSE IF call.callee \in DOMAIN exprs.bodies
       THEN Kept(CallOf(exprs, exprs.bodies[call.callee].body, args.line,
                        args.given, key))
       ELSE IF call.callee \in DOMAIN Leaves
       THEN Kept(Made(<<<<leaf.id>>, <<>>>>, leaf.out))
       ELSE Made(<<<<GRAPH_CALL>>, Operand(OBJECT, Objects[call.callee], 0)>>, Word)

\* The line with its patches, as a program: RETURN of the operand at its end,
\* one REFUSE after it.
Program(widths, frame, line, offsets) ==
    LET header == 5 + 2 * Len(widths)
        start == [i \in 1..(Len(line) + 1) |->
                    header + FoldLeft(LAMBDA n, w : n + Len(w), 0, SubSeq(line, 1, i - 1))]
        Patched(i) ==
          IF line[i][1] # BRANCH THEN line[i]
          ELSE [k \in DOMAIN line[i] |->
                 CASE line[i][k] = FOLLOWING -> start[i + 1]
                   [] line[i][k] = REFUSAL -> start[Len(line) + 1]
                   [] OTHER -> line[i][k]]
    IN Header(frame, [i \in DOMAIN widths |-> <<offsets[i], widths[i]>>], header)
       \o FlattenSeq([i \in DOMAIN line |-> Patched(i)])
       \o <<REFUSE>> \o Operand(SLOT, 0, StatusBytes)

Returning(made) ==
    Append(made.line.words, <<RETURN>> \o made.operand \o <<made.operand[3]>>)

ExpressionAt(exprs, x, at) ==
    LET empty == [frame |-> at[Len(x.params) + 1], words |-> <<>>,
                  results |-> [k \in {} |-> <<>>]]
        given == [i \in DOMAIN x.params |-> Operand(SLOT, at[i], x.params[i])]
    IN Only(UNION {{Program(x.params, made.line.frame, line, at) : line \in {Returning(made)}}
                   : made \in {CallOf(exprs, x.body, empty, given, <<>>)}})

\* The parameters lie behind the status, a whole number of words apart.
Expression(exprs, f) ==
    Only(UNION {{ExpressionAt(exprs, x, at) : at \in
                   {[i \in 1..(Len(x.params) + 1) |->
                      FoldLeft(LAMBDA n, w : n + RoundUp(w), RoundUp(StatusBytes),
                               SubSeq(x.params, 1, i - 1))]}}
                : x \in {exprs.bodies[f]}})
=============================================================================
