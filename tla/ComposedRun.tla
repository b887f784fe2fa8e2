---------------------------- MODULE ComposedRun ----------------------------
(***************************************************************************)
(* A run of composed words: the interpreter graph.run over the programs    *)
(* the composer makes of a world of graphs.  A frame is a stretch of the   *)
(* run cell, a value the bytes at its slot; the links of the active calls  *)
(* say where each frame lies, where its caller goes on and where the       *)
(* answer lands.  A jump copies its arguments through the staging bytes.   *)
(*                                                                         *)
(* The run implements SemanticGraph for the graphs as they were before the *)
(* unreachable blocks were taken out.                                      *)
(***************************************************************************)
EXTENDS Composer

CONSTANTS Byte, Depth, CopyBytes,
          Worlds,       \* the worlds a run may start in
          Given(_),     \* the arguments to start one with
          Data,         \* the bytes of the data objects: id -> bytes
          LeafOf(_, _), \* a leaf's [status, out]
          CardOf(_, _)  \* what a function with a graph answers an expression

VARIABLES world, given, programs, places, cell, frames, pc, ended

vars == <<world, given, programs, places, cell, frames, pc, ended>>

(***************************************************************************)
(* Bytes.                                                                  *)
(***************************************************************************)
Zeros(n) == [i \in 1..n |-> 0]
Padded(bytes, n) == [i \in 1..n |-> IF i <= Len(bytes) THEN bytes[i] ELSE 0]
ToBytes(n, width) == [i \in 1..width |-> (n \div (Byte ^ (i - 1))) % Byte]
ToNumber(bytes) == FoldRight(LAMBDA b, n : b + Byte * n, bytes, 0)
Written(mem, at, bytes) ==
    [i \in DOMAIN mem |-> IF i > at /\ i <= at + Len(bytes) THEN bytes[i - at] ELSE mem[i]]

(***************************************************************************)
(* The frame on top, the words at a place, an operand.                     *)
(***************************************************************************)
Fr == frames[Len(frames)]
W(i) == programs[Fr.name][i + 1]
InFrame(f, at, n) == at + n <= f.size

\* locate(): the bytes of an operand in a memory, or why it has none.
LocateIn(memory, ow, need) ==
    LET kind == W(ow)  a == W(ow + 1)
        Good(bytes) == [status |-> 0, bytes |-> bytes]
        Bad(s) == [status |-> s, bytes |-> <<>>]
    IN IF kind = SLOT
       THEN IF InFrame(Fr, a, need)
            THEN Good(SubSeq(memory, Fr.base + a + 1, Fr.base + a + need)) ELSE Bad(6)
       ELSE IF kind = LITERAL
       THEN IF need <= Word THEN Good(ToBytes(a, need)) ELSE Bad(6)
       ELSE IF a \notin DOMAIN Data THEN Bad(13)
       ELSE IF need <= Len(Data[a]) THEN Good(SubSeq(Data[a], 1, need)) ELSE Bad(6)

Locate(ow, need) == LocateIn(cell, ow, need)

Less2(a, b) == IF a < b THEN a ELSE b

\* load(): a literal or at most a word of a slot, as a number.
Load(ow) ==
    IF W(ow) = LITERAL THEN [status |-> IF W(ow + 2) <= Word THEN 0 ELSE 6,
                             n |-> W(ow + 1)]
    ELSE LET l == Locate(ow, Less2(W(ow + 2), Word))
         IN [status |-> l.status, n |-> ToNumber(l.bytes)]

\* The frame with a destination zeroed: what a source is then copied from.
Cleared(slot, width) == Written(cell, Fr.base + slot, Zeros(width))

\* move(): the slot zeroed, then the bytes the source has.
Moved(slot, width, ow) ==
    LET l == LocateIn(Cleared(slot, width), ow, Less2(width, W(ow + 2)))
    IN [status |-> l.status, bytes |-> Padded(l.bytes, width)]

(***************************************************************************)
(* Ends and steps.                                                         *)
(***************************************************************************)
Halt(status, out) == /\ ended' = [status |-> status, out |-> out]
                     /\ UNCHANGED <<world, given, programs, places, cell, frames, pc>>

Stop(status) == Halt(status, Zeros(Word))

\* The bytes go to a slot of the frame that holds them and the run goes on at
\* `next`.
Put(slot, width, l, next) ==
    IF ~InFrame(Fr, slot, width) THEN Stop(6)
    ELSE IF l.status # 0 THEN Stop(l.status)
    ELSE /\ cell' = Written(cell, Fr.base + slot, l.bytes)
         /\ pc' = next
         /\ UNCHANGED <<world, given, programs, places, frames, ended>>

At(op) == ended = None /\ W(pc) = op

Move == /\ At(MOVE)
        /\ Put(W(pc + 1), W(pc + 2), Moved(W(pc + 1), W(pc + 2), pc + 3), pc + 6)

\* A move, then the first pair that names the status at the offset.
MapStatus ==
    /\ At(MAP)
    /\ LET m == Moved(W(pc + 1), W(pc + 2), pc + 3)
           at == W(pc + 6)
           n == W(pc + 7)
           code == ToNumber(SubSeq(m.bytes, at + 1, at + StatusBytes))
           hits == {i \in 0..(n - 1) : W(pc + 8 + 2 * i) = code}
           to == W(pc + 9 + 2 * (CHOOSE i \in hits : \A j \in hits : i <= j))
       IN Put(W(pc + 1), W(pc + 2),
              IF m.status # 0 \/ hits = {} THEN m
              ELSE [m EXCEPT !.bytes = Written(@, at, ToBytes(to, StatusBytes))],
              pc + 8 + 2 * n)

\* The source's bytes at an offset into the zeroed slot.
Field ==
    /\ At(FIELD)
    /\ LET slot == W(pc + 1)
           width == W(pc + 2)
           l == LocateIn(Cleared(slot, width), pc + 3, W(pc + 6) + W(pc + 7))
       IN IF W(pc + 7) > width THEN Stop(6)
          ELSE Put(slot, width,
                   [status |-> l.status,
                    bytes |-> Padded(SubSeq(l.bytes, W(pc + 6) + 1, Len(l.bytes)), width)],
                   pc + 8)

\* A zeroed slot, its tag, then the payload.
Construct ==
    /\ At(CONSTRUCT)
    /\ LET slot == W(pc + 1)
           width == W(pc + 2)
           size == W(pc + 9)
           tag == ToBytes(W(pc + 4), StatusBytes)
           tagged == Written(Cleared(slot, width), Fr.base + slot + W(pc + 3), tag)
           l == LocateIn(tagged, pc + 5, Less2(size, W(pc + 7)))
       IN IF ~InFrame(Fr, slot, width) \/ size > width \/ W(pc + 8) > width - size THEN Stop(6)
          ELSE Put(slot, width,
                   [status |-> l.status,
                    bytes |-> Written(Written(Zeros(width), W(pc + 3), tag), W(pc + 8), l.bytes)],
                   pc + 10)

\* The compare writes one byte of its slot.
Compare ==
    /\ At(LESS)
    /\ LET a == Load(pc + 2)  b == Load(pc + 5)
       IN Put(W(pc + 1), 1,
              [status |-> IF a.status # 0 THEN a.status ELSE b.status,
               bytes |-> <<IF a.n < b.n THEN 1 ELSE 0>>],
              pc + 8)

Increment ==
    /\ At(INCREMENT)
    /\ LET a == Load(pc + 3)
       IN Put(W(pc + 1), W(pc + 2),
              [status |-> a.status, bytes |-> ToBytes(a.n + 1, W(pc + 2))], pc + 6)

(***************************************************************************)
(* Calls.                                                                  *)
(***************************************************************************)
\* A leaf writes its out slot, zeroed first, and its status to the call's.
CallLeaf ==
    /\ At(CALL) /\ W(pc + 1) # GRAPH_CALL
    /\ LET n == W(pc + 2)
           loads == [i \in 1..n |-> Load(pc + 6 + 3 * (i - 1))]
           bad == {i \in 1..n : loads[i].status # 0}
           leaf == CHOOSE l \in DOMAIN Leaves : Leaves[l].id = W(pc + 1)
           a == LeafOf(leaf, [i \in 1..n |-> loads[i].n])
           out == IF W(pc + 3) = NONE THEN cell
                  ELSE Written(cell, Fr.base + W(pc + 3),
                         IF a.out = None THEN Zeros(W(pc + 4))
                         ELSE Padded(ToBytes(a.out, Word), W(pc + 4)))
       IN IF bad # {} THEN Stop(loads[CHOOSE i \in bad : \A j \in bad : i <= j].status)
          ELSE IF (Leaves[leaf].out # 0) # (W(pc + 3) # NONE) THEN Stop(6)
          ELSE /\ cell' = IF W(pc + 5) = NONE THEN out
                          ELSE Written(out, Fr.base + W(pc + 5),
                                       ToBytes(a.status, StatusBytes))
               /\ pc' = pc + 6 + 3 * n
               /\ UNCHANGED <<world, given, programs, places, frames, ended>>

\* The callee's frame is the next stretch of the cell, its parameters the
\* arguments; its caller's out slot is zeroed.
CallProgram ==
    /\ At(CALL) /\ W(pc + 1) = GRAPH_CALL
    /\ LET n == W(pc + 2)
           name == W(pc + 7)
           code == programs[name]
           base == Fr.base + Fr.size
           slot(i) == code[4 + 2 * i]
           width(i) == code[5 + 2 * i]
           arg(i) == Locate(pc + 9 + 3 * (i - 1),
                            Less2(width(i), W(pc + 9 + 3 * (i - 1) + 2)))
           bad == {i \in 1..n : arg(i).status # 0}
           blank == Written(cell, base, Zeros(code[2]))
           bound == FoldLeft(LAMBDA mem, i : Written(mem, base + slot(i), arg(i).bytes),
                             blank, [i \in 1..n |-> i])
           link == [name |-> name, base |-> base, size |-> code[2],
                    ret |-> pc + 9 + 3 * n, out |-> W(pc + 3),
                    outw |-> W(pc + 4), status |-> W(pc + 5)]
       IN IF Len(frames) >= Depth THEN Stop(17)
          ELSE IF name \notin DOMAIN programs THEN Stop(13)
          ELSE IF code[3] # n THEN Stop(6)
          ELSE IF base + code[2] > CellBytes THEN Stop(18)
          ELSE IF bad # {} THEN Stop(arg(CHOOSE i \in bad : \A j \in bad : i <= j).status)
          ELSE /\ cell' = IF W(pc + 3) = NONE THEN bound
                          ELSE Written(bound, Fr.base + W(pc + 3), Zeros(W(pc + 4)))
               /\ frames' = Append(frames, link)
               /\ pc' = code[5]
               /\ UNCHANGED <<world, given, programs, places, ended>>

\* answer(): the end of a callee; `bytes` is None when it refused.
AnswerCaller(status, bytes) ==
    LET caller == frames[Len(frames) - 1]
        out == IF bytes = None \/ Fr.out = NONE THEN cell
               ELSE Written(cell, caller.base + Fr.out, bytes)
    IN IF bytes # None /\ Fr.out # NONE /\ Len(bytes) > Fr.outw THEN Stop(6)
       ELSE IF status # 0 /\ Fr.status = NONE THEN Stop(status)
       ELSE /\ cell' = IF Fr.status = NONE THEN out
                       ELSE Written(out, caller.base + Fr.status,
                                    ToBytes(status, StatusBytes))
            /\ frames' = Front(frames)
            /\ pc' = Fr.ret
            /\ UNCHANGED <<world, given, programs, places, ended>>

\* A value of at most a word answers a whole word.
Return ==
    /\ At(RETURN)
    /\ LET wide == W(pc + 4) > Word
           l == IF wide THEN Locate(pc + 1, W(pc + 4))
                ELSE [status |-> Load(pc + 1).status,
                      bytes |-> ToBytes(Load(pc + 1).n, Word)]
       IN IF l.status # 0 THEN Stop(l.status)
          ELSE IF Len(frames) = 1 THEN Halt(0, l.bytes)
          ELSE AnswerCaller(0, l.bytes)

Refuse ==
    /\ At(REFUSE)
    /\ LET l == Load(pc + 1)
       IN IF l.status # 0 THEN Stop(l.status)
          ELSE IF Len(frames) = 1 THEN Stop(l.n)
          ELSE AnswerCaller(l.n, None)

(***************************************************************************)
(* Jumps.                                                                  *)
(***************************************************************************)
\* A jump that writes each destination before it reads the next source.
TakenInTurn(at) ==
    LET n == W(at + 1)
        copy(i) == at + 2 + 5 * (i - 1)
        Width(i) == Less2(W(copy(i) + 4), W(copy(i) + 2))
        From(mem, i) == IF W(copy(i)) = SLOT
                        THEN SubSeq(mem, Fr.base + W(copy(i) + 1) + 1,
                                    Fr.base + W(copy(i) + 1) + Width(i))
                        ELSE Locate(copy(i), Width(i)).bytes
    IN [status |-> 0,
        cell |-> FoldLeft(LAMBDA mem, i : Written(mem, Fr.base + W(copy(i) + 3),
                                                  Padded(From(mem, i), W(copy(i) + 4))),
                          cell, [i \in 1..n |-> i]),
        next |-> W(at)]

\* take(): every source is staged before any destination is written.
Taken(at) ==
    LET n == W(at + 1)
        copy(i) == at + 2 + 5 * (i - 1)
        src(i) == Locate(copy(i), Less2(W(copy(i) + 4), W(copy(i) + 2)))
        staged == [i \in 1..n |-> Padded(src(i).bytes, W(copy(i) + 4))]
        bad == {i \in 1..n : src(i).status # 0}
    IN [status |-> IF bad # {} THEN src(CHOOSE i \in bad : \A j \in bad : i <= j).status
                   ELSE IF FoldLeft(LAMBDA s, b : s + Len(b), 0, staged) > CopyBytes
                   THEN 6 ELSE 0,
        cell |-> FoldLeft(LAMBDA mem, i : Written(mem, Fr.base + W(copy(i) + 3), staged[i]),
                          cell, [i \in 1..n |-> i]),
        next |-> W(at)]

EdgeWords(at) == 2 + 5 * W(at + 1)

Take(at) == LET t == Taken(at)
            IN IF t.status # 0 THEN Stop(t.status)
               ELSE /\ cell' = t.cell
                    /\ pc' = t.next
                    /\ UNCHANGED <<world, given, programs, places, frames, ended>>

Goto == At(GOTO) /\ Take(pc + 1)

Branch ==
    /\ At(BRANCH)
    /\ LET l == Load(pc + 1)
           first == (W(pc + 4) = MODE_ZERO) = (l.n = 0)
       IN IF l.status # 0 THEN Stop(l.status)
          ELSE Take(IF first THEN pc + 5 ELSE pc + 5 + EdgeWords(pc + 5))

Switch ==
    /\ At(SWITCH)
    /\ LET l == Load(pc + 1)
           n == W(pc + 4)
           hits == {i \in 0..(n - 1) : W(pc + 5 + i) = l.n}
           chosen == IF hits = {} THEN n ELSE CHOOSE i \in hits : \A j \in hits : i <= j
           edge[i \in 0..n] == IF i = 0 THEN pc + 5 + n
                               ELSE edge[i - 1] + EdgeWords(edge[i - 1])
       IN IF l.status # 0 THEN Stop(l.status) ELSE Take(edge[chosen])

(***************************************************************************)
(* A run: the programs of the world, the entry's parameters bound.         *)
(***************************************************************************)
MainIsGraph == "main" \in DOMAIN world.graphs
IdOf(f) == Objects[f]
NameOf(id) == CHOOSE f \in DOMAIN Objects : Objects[f] = id

Functions == DOMAIN world.graphs \cup DOMAIN world.exprs.bodies

ProgramOf(f) == IF f \in DOMAIN world.graphs
                THEN Only({Encode(g) : g \in {EliminateUnreachable(world.graphs[f])}})
                ELSE Expression(world.exprs, f)

Init ==
    /\ world \in Worlds
    /\ programs = [id \in {IdOf(f) : f \in Functions} |-> ProgramOf(NameOf(id))]
    /\ places = [f \in DOMAIN world.graphs |->
                   Only({Places(g) : g \in {EliminateUnreachable(world.graphs[f])}})]
    /\ given \in Given(world)
    /\ \E code \in {programs[IdOf("main")]} :
          /\ frames = <<[name |-> IdOf("main"), base |-> 0, size |-> code[2], ret |-> 0,
                         out |-> NONE, outw |-> 0, status |-> NONE]>>
          /\ pc = code[5]
          /\ cell = FoldLeft(LAMBDA mem, i : Written(mem, code[4 + 2 * i],
                                                     Padded(given[i], code[5 + 2 * i])),
                             Zeros(CellBytes), [i \in 1..code[3] |-> i])
    /\ ended = None

Next == \/ Move \/ MapStatus \/ Field \/ Construct \/ Compare \/ Increment
        \/ CallLeaf \/ CallProgram \/ Return \/ Refuse
        \/ Goto \/ Branch \/ Switch

Spec == Init /\ [][Next]_vars

(***************************************************************************)
(* What it implements: a frame is an activation, the bytes at a slot the   *)
(* value that was placed there, a word index a block and an operation.     *)
(***************************************************************************)
PlaceOf(f, at) ==
    LET starts == places[f].starts
    IN CHOOSE p \in UNION {{<<b, k>> : k \in DOMAIN starts[b]} : b \in DOMAIN starts} :
         starts[p[1]][p[2]] = at

EnvOf(f, base) ==
    LET g == world.graphs[f]  slot == places[f].slot
    IN [v \in DOMAIN g.vals |->
          IF v \in DOMAIN slot
          THEN SubSeq(cell, base + slot[v] + 1, base + slot[v] + g.vals[v].width)
          ELSE Zeros(g.vals[v].width)]

Activations ==
    <<>> \o [i \in DOMAIN frames |->
       LET f == NameOf(frames[i].name)
           at == PlaceOf(f, IF i = Len(frames) THEN pc ELSE frames[i + 1].ret)
       IN [fn |-> f, block |-> at[1], op |-> at[2], env |-> EnvOf(f, frames[i].base)]]

Meaning == INSTANCE SemanticGraph WITH world <- world.graphs, chain <- Activations

\* The run of the composed words does, step for step, what the graph says:
\* slots, copies, word indexes, frames of the cell and the blocks the pass
\* took out are not seen in any value, branch, call or answer.
Implements == /\ MainIsGraph => Meaning!Init
              /\ [][MainIsGraph => Meaning!Next]_vars

(***************************************************************************)
(* What an expression answers: its calls evaluated inside out, arguments   *)
(* in order, the first refusal instead of a value.                         *)
(***************************************************************************)
RECURSIVE ValueOf(_, _, _)
ValueOf(exprs, c, args) ==
    LET call == exprs.calls[c]
        Of(ref) == CASE ref.kind = "Parameter" -> [status |-> 0, out |-> args[ref.index]]
                     [] ref.kind = "Bound" -> [status |-> 0,
                                               out |-> ToNumber(Data[Objects[ref.name]])]
                     [] OTHER -> ValueOf(exprs, ref.call, args)
        ins == [i \in DOMAIN call.refs |-> Of(call.refs[i])]
        bad == {i \in DOMAIN ins : ins[i].status # 0}
        values == [i \in DOMAIN ins |-> ins[i].out]
        a == IF call.callee \in DOMAIN Leaves THEN LeafOf(call.callee, values)
             ELSE CardOf(call.callee, values)
    IN IF bad # {} THEN ins[CHOOSE i \in bad : \A j \in bad : i <= j]
       ELSE IF call.callee \in DOMAIN exprs.bodies
       THEN ValueOf(exprs, exprs.bodies[call.callee].body, values)
       ELSE IF a.out = None THEN [a EXCEPT !.out = 0] ELSE a

\* A composed expression answers what its calls answer, inside out: word,
\* status and the zeros of a refusal.
ExpressionAnswers ==
    (ended # None /\ ~MainIsGraph) =>
       LET a == ValueOf(world.exprs, world.exprs.bodies["main"].body,
                        [i \in DOMAIN given |-> ToNumber(given[i])])
       IN ended = [status |-> a.status,
                   out |-> IF a.status = 0 THEN ToBytes(a.out, Word) ELSE Zeros(Word)]

\* The types of a run: its frames lie in the cell.
TypeOK == /\ pc \in Nat
          /\ Len(frames) \in 1..Depth
          /\ Fr.base + Fr.size <= CellBytes
          /\ cell \in [1..CellBytes -> 0..(Byte - 1)]

\* A composed function answers what it means: a graph step for step, an
\* expression by its value.
ComposedAnswers == [](TypeOK /\ ExpressionAnswers) /\ Implements
=============================================================================
