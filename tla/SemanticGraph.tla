--------------------------- MODULE SemanticGraph ---------------------------
(***************************************************************************)
(* What a semantic function promises, with nothing of how it is run: a     *)
(* graph of blocks over named values.  A block performs its operations in  *)
(* order and ends in a terminator; an edge gives the parameters of its     *)
(* target their values all at once; a call runs the callee's graph or a    *)
(* leaf and hands its answer to a value, its status to another.  There are *)
(* no frames, slots, words or program counters.  ComposedRun implements    *)
(* this for what the composer makes of a graph.                            *)
(*                                                                         *)
(* A value is a sequence of bytes, least significant first; a word has     *)
(* Word of them, a status StatusBytes.                                     *)
(***************************************************************************)
EXTENDS Naturals, Sequences

CONSTANTS Byte,         \* how many values a byte has
          Word,         \* bytes of a word
          StatusBytes,  \* bytes of a status
          Depth,        \* how many activations stand at once
          None

CONSTANT LeafOf(_, _)   \* a leaf's [status, out] on its argument words

VARIABLES world,    \* the graph of every function
          given,    \* the arguments of the run, each a sequence of bytes
          chain,    \* the activations, the running one last
          ended     \* None, or what the run answered: [status, out]

semantic == <<world, given, chain, ended>>

(***************************************************************************)
(* Values.                                                                 *)
(***************************************************************************)
Zeros(n) == [i \in 1..n |-> 0]
Fit(bytes, n) == [i \in 1..n |-> IF i <= Len(bytes) THEN bytes[i] ELSE 0]

Number(bytes) == LET N[i \in 0..Len(bytes)] ==
                       IF i = 0 THEN 0
                       ELSE bytes[Len(bytes) - i + 1] + Byte * N[i - 1]
                 IN N[Len(bytes)]

Bytes(n, width) == [i \in 1..width |-> (n \div (Byte ^ (i - 1))) % Byte]

Overlay(bytes, at, part) ==
    [i \in DOMAIN bytes |->
        IF i > at /\ i <= at + Len(part) THEN part[i - at] ELSE bytes[i]]

\* What a value is in an activation: a literal is itself.
Read(g, env, v) == IF g.vals[v].kind = "Literal"
                   THEN Bytes(g.vals[v].literal, g.vals[v].width)
                   ELSE env[v]

IsStatus(g, v) == g.vals[v].status

(***************************************************************************)
(* Operations.  Each but a call gives its result a value.                  *)
(***************************************************************************)
Computed(g, env, op) ==
    LET width == g.vals[op.result].width
        in(i) == Read(g, env, op.ins[i])
    IN CASE op.opcode = "ReturnValue" -> Fit(in(1), width)
         [] op.opcode = "IterCondition" ->
              IF Len(op.ins) = 1 THEN Fit(in(1), width)
              ELSE Fit(<<IF Number(in(1)) < Number(in(2)) THEN 1 ELSE 0>>, width)
         [] op.opcode = "IterAdvance" -> Bytes(Number(in(1)) + 1, width)
         [] op.opcode = "ProjectPayload" ->
              SubSeq(in(1), op.at + 1, op.at + width)
         [] op.opcode = "ConstructResult" ->
              Overlay(Overlay(Zeros(width), op.tagat, Bytes(op.tag, StatusBytes)),
                      op.at, Fit(in(1), op.size))
         [] op.opcode = "MapRefusal" ->
              LET moved == Fit(in(1), width)
                  code == Number(SubSeq(moved, op.at + 1, op.at + StatusBytes))
                  hits == {i \in DOMAIN op.pairs : op.pairs[i][1] = code}
              IN IF hits = {} THEN moved
                 ELSE Overlay(moved, op.at,
                        Bytes(op.pairs[CHOOSE i \in hits : \A j \in hits : i <= j][2],
                              StatusBytes))

Assigned(g, env, v, bytes) ==
    IF v = None THEN env ELSE [env EXCEPT ![v] = Fit(bytes, g.vals[v].width)]

\* The callee's answer lands in the two values the call names.
Landed(g, env, op, a) ==
    Assigned(g, Assigned(g, env, op.result, a.out), op.status,
             Bytes(a.status, StatusBytes))

Top == chain[Len(chain)]
Fresh(g, args) ==
    [v \in DOMAIN g.vals |->
        LET at == {i \in DOMAIN g.params : g.params[i] = v} IN
        IF at = {} THEN Zeros(g.vals[v].width)
        ELSE Fit(args[CHOOSE i \in at : TRUE], g.vals[v].width)]

Activation(f, args) == [fn |-> f, block |-> world[f].entry, op |-> 1,
                        env |-> Fresh(world[f], args)]

(***************************************************************************)
(* Steps.                                                                  *)
(***************************************************************************)
Here == world[Top.fn]
Block == Here.blocks[Top.block]
Op == Block.ops[Top.op]
Replaced(a) == [chain EXCEPT ![Len(chain)] = a]

End(status, out) == /\ ended' = [status |-> status, out |-> out]
                    /\ UNCHANGED <<world, given, chain>>

Busy == ended = None /\ Top.op <= Len(Block.ops)

Compute == /\ Busy
           /\ Op.opcode # "Call"
           /\ chain' = Replaced([Top EXCEPT !.op = @ + 1,
                         !.env[Op.result] = Computed(Here, Top.env, Op)])
           /\ UNCHANGED <<world, given, ended>>

Inputs == [i \in DOMAIN Op.ins |-> Read(Here, Top.env, Op.ins[i])]

\* A leaf answers at once; a refusal no status catches is dropped, for the
\* graph guards the leaf's domain itself.
CallLeaf == /\ Busy
            /\ Op.opcode = "Call"
            /\ Op.callee \notin DOMAIN world
            /\ LET a == LeafOf(Op.callee, [i \in DOMAIN Inputs |-> Number(Inputs[i])])
                   sent == [status |-> a.status,
                            out |-> IF a.out = None THEN <<>> ELSE Bytes(a.out, Word)]
               IN chain' = Replaced([Top EXCEPT !.op = @ + 1,
                                     !.env = Landed(Here, @, Op, sent)])
            /\ UNCHANGED <<world, given, ended>>

\* A call past a budget ends the run: the depth's always, the memory's when
\* the frames that stand no longer fit.
CallGraph == /\ Busy
             /\ Op.opcode = "Call"
             /\ Op.callee \in DOMAIN world
             /\ IF Len(chain) = Depth
                THEN End(17, Zeros(Word))
                ELSE \/ End(18, Zeros(Word))
                     \/ /\ chain' = Append(Replaced([Top EXCEPT !.op = @ + 1,
                                           !.env = Assigned(Here, @, Op.result, <<>>)]),
                                        Activation(Op.callee, Inputs))
                        /\ UNCHANGED <<world, given, ended>>

Done == ended = None /\ Top.op > Len(Block.ops)

\* The call that opened the activation on top, in the one below it.
Caller == chain[Len(chain) - 1]
CallSite == world[Caller.fn].blocks[Caller.block].ops[Caller.op - 1]

Answer(status, out) ==
    IF Len(chain) = 1 THEN End(status, out)
    ELSE IF status # 0 /\ CallSite.status = None THEN End(status, Zeros(Word))
    ELSE /\ chain' = Append(SubSeq(chain, 1, Len(chain) - 2),
               [Caller EXCEPT !.env = Landed(world[Caller.fn], @, CallSite,
                                             [status |-> status, out |-> out])])
         /\ UNCHANGED <<world, given, ended>>

Return == /\ Done
          /\ Block.term = "Return"
          /\ Answer(0, Fit(Read(Here, Top.env, Block.value),
                           LET w == Here.vals[Block.value].width
                           IN IF w > Word THEN w ELSE Word))

Refuse == /\ Done
          /\ Block.term = "Refuse"
          /\ Answer(Number(Read(Here, Top.env, Block.value)), Zeros(Word))

\* Which edge a condition takes: a status the first one when it is zero, a
\* flag the first one when it is not, a tag the edge of its case.
Chosen == LET n == Number(Read(Here, Top.env, Block.cond))
              cases == {i \in DOMAIN Block.tags : Block.tags[i] = n}
          IN CASE Block.term = "Goto" -> 1
               [] Block.term = "Branch" ->
                    IF (n = 0) = IsStatus(Here, Block.cond) THEN 1 ELSE 2
               [] Block.term = "SwitchTag" ->
                    IF cases = {} THEN Len(Block.tags) + 1
                    ELSE CHOOSE i \in cases : \A j \in cases : i <= j

\* The parameters of the target take their values all at once.
Jump == /\ Done
        /\ Block.term \in {"Goto", "Branch", "SwitchTag"}
        /\ LET edge == Block.edges[Chosen]
               params == Here.blocks[edge.to].params
               sent == IF Len(edge.args) < edge.count
                       THEN Append(edge.args, Block.cond) ELSE edge.args
           IN chain' = Replaced([Top EXCEPT
                 !.block = edge.to, !.op = 1,
                 !.env = [v \in DOMAIN @ |->
                    LET at == {i \in DOMAIN params : params[i] = v} IN
                    IF at = {} THEN @[v]
                    ELSE Fit(Read(Here, @, sent[CHOOSE i \in at : TRUE]),
                             Here.vals[v].width)]])
        /\ UNCHANGED <<world, given, ended>>

Next == \/ Compute \/ CallLeaf \/ CallGraph
        \/ Return \/ Refuse \/ Jump

Init == chain = <<Activation("main", given)>> /\ ended = None

Spec == Init /\ [][Next]_semantic
=============================================================================
