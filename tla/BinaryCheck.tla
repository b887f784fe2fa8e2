----------------------------- MODULE BinaryCheck -----------------------------
(* `rxf binary check` (binary/__init__.py): is every native function there for  *)
(* every target, does every program say what it is, and does all that is called *)
(* exist for every target.  The walk decides a function while it is deciding    *)
(* those it calls, and keeps what it found.                                     *)
EXTENDS Integers, Sequences, FiniteSets, SequencesExt

CONSTANTS
  Functions,   \* handles: numbers, in the order the image has them
  Architecture,\* of each target
  None

VARIABLES
  image,   \* of a function: how it is implemented, its codes, what it passes, what it calls
  report   \* the issues the check lists, None before it ran

vars == <<image, report>>

Targets == DOMAIN Architecture
FormatOf(architecture) == IF architecture = "Wasm32" THEN "Wasm" ELSE "Machine"

----------------------------------------------------------------------------
(* Codes.  A blob's data is there and agrees with its digest and count, or not; *)
(* or it is built, and says to what pin.                                        *)

Code(target, format) ==
  [target |-> target, format |-> format, blob |-> "data", count |-> TRUE, digest |-> TRUE,
   signature |-> TRUE, recipe |-> TRUE, interpreter |-> None]
NativeCode(target) == Code(target, FormatOf(Architecture[target]))
Program(interpreter) == [Code(None, "Bytecode") EXCEPT !.interpreter = interpreter]

\* code_data: what is wrong with the bytes of a code, and whether it says any.
BlobIssues(code) ==
  CASE code.blob = "none" -> {"it says no blob for its bytes"}
    [] code.blob = "unsaid" -> {"it is built but does not say what to build"}
    [] code.blob = "forged" -> {"the blob is not what its digest says"}
    [] ~code.count -> {"byte_count is not the length of the data"}
    [] OTHER -> {}
Agreement(code) ==
  (IF code.digest THEN {} ELSE {"the semantic digest is not the function's"})
  \cup (IF code.signature THEN {} ELSE {"the signature is not the function's"})

\* derived_class: whether the boundary of an architecture can pass a type.
Passable(type, architecture) == type \in {"void", "scalar", "reference"}

Issues(f, messages) == {<<f, m, None>> : m \in messages}

----------------------------------------------------------------------------
(* check_native: the last code of a target is the one that counts *)

CodeOf(f, t) ==
  LET for == {k \in DOMAIN image[f].codes : image[f].codes[k].target = t}
  IN IF for = {} THEN None ELSE image[f].codes[CHOOSE k \in for : \A j \in for : j <= k]
Unpassable(f, t) == {v \in image[f].passes : ~Passable(v, Architecture[t])}

Complete(f) == \A t \in Targets : CodeOf(f, t) # None /\ Unpassable(f, t) = {}

NativeIssues(f) ==
  LET Target(k) == image[f].codes[k].target
      Messages(t, code) ==
        BlobIssues(code) \cup Agreement(code)
        \cup (IF code.format = FormatOf(Architecture[t]) THEN {} ELSE {"the format"})
        \cup (IF code.recipe THEN {} ELSE {"no recipe"})
        \cup (IF Unpassable(f, t) = {} THEN {} ELSE {"cannot pass"})
  IN {<<f, "a second code", Target(k)>> :
        k \in {j \in DOMAIN image[f].codes : \E i \in 1..j - 1 : Target(i) = Target(j)}}
     \cup {<<f, "no code", t>> : t \in {u \in Targets : CodeOf(f, u) = None}}
     \cup UNION {{<<f, m, t>> : m \in Messages(t, CodeOf(f, t))} :
                   t \in {u \in Targets : CodeOf(f, u) # None}}
     \cup {<<f, "not a target", Target(k)>> :
             k \in {j \in DOMAIN image[f].codes : Target(j) \notin Targets}}

(* check_bytecode: one program, and a complete interpreter *)
BytecodeIssues(f, native_ok) ==
  IF Len(image[f].codes) # 1 THEN Issues(f, {"not one code"})
  ELSE LET code == image[f].codes[1]
       IN Issues(f,
            (IF code.format = "Bytecode" THEN {} ELSE {"not Bytecode"})
            \cup (IF code.target = None THEN {} ELSE {"names a target"})
            \cup (IF code.count THEN {} ELSE {"byte_count"})
            \cup Agreement(code)
            \cup (IF code.interpreter = None THEN {"no interpreter"}
                  ELSE IF code.interpreter \in native_ok THEN {} ELSE {"interpreter incomplete"}))

----------------------------------------------------------------------------
(* available: one answer kept per function; one that is being decided does not  *)
(* fail what asks for it.                                                       *)

InOrder(S) == SelectSeq([k \in 1..Cardinality(Functions) |-> k], LAMBDA k : k \in S)

HeldOnlyYes(memo, f) == memo[f] = "yes"
Held(memo, f) == memo[f] \in {"yes", "deciding"}

RECURSIVE Available(_, _, _)
Available(memo, f, native_ok) ==
  IF memo[f] # "unasked" THEN [memo |-> memo, ok |-> Held(memo, f)]
  ELSE LET deciding == [memo EXCEPT ![f] = "deciding"]
           found == CASE image[f].kind = "Native" -> [memo |-> deciding, ok |-> f \in native_ok]
                      [] image[f].kind \in {"Capability", "Control"} -> [memo |-> deciding, ok |-> TRUE]
                      [] image[f].kind = "Semantic" ->
                           FoldLeft(LAMBDA sofar, c : IF sofar.ok THEN Available(sofar.memo, c, native_ok)
                                                      ELSE sofar,
                                    [memo |-> deciding, ok |-> TRUE], InOrder(image[f].calls))
                      [] OTHER -> [memo |-> deciding, ok |-> FALSE]
       IN [found EXCEPT !.memo[f] = IF found.ok THEN "yes" ELSE "no"]

\* The calls of one function, in order; the memory goes from one to the next.
CallIssues(sofar, f, native_ok) ==
  FoldLeft(LAMBDA st, c :
             IF c = f THEN st
             ELSE LET asked == Available(st.memo, c, native_ok)
                  IN [memo |-> asked.memo,
                      issues |-> st.issues \cup (IF asked.ok THEN {} ELSE {<<f, "it calls", c>>})],
           sofar, InOrder(image[f].calls))

Of(kind) == {f \in Functions : image[f].kind = kind}
CheckReport ==
  LET native_ok == {f \in Of("Native") : Complete(f)}
      local == UNION {NativeIssues(f) : f \in Of("Native")}
               \cup UNION {BytecodeIssues(f, native_ok) : f \in Of("Semantic")}
  IN FoldLeft(LAMBDA st, f : CallIssues(st, f, native_ok),
              [memo |-> [f \in Functions |-> "unasked"], issues |-> local],
              InOrder(Of("Semantic"))).issues

----------------------------------------------------------------------------

\* Function 1 is the interpreter; the others are of any kind and call any; one
\* code of one of them may be off in one of the ways a code can be.
Kinds == {"Native", "Semantic", "Capability", "Abstract"}
AsMade(f, kind, calls) ==
  [kind |-> kind, calls |-> calls, passes |-> {"scalar"},
   codes |-> CASE kind = "Native" -> SetToSeq({NativeCode(t) : t \in Targets})
               [] kind = "Semantic" -> <<Program(1)>> [] OTHER -> <<>>]
Defective(made) ==
  {[made EXCEPT !.codes = Tail(@)], [made EXCEPT !.codes = Append(@, Head(@))],
   [made EXCEPT !.codes = Append(@, NativeCode(CHOOSE t \in Targets : TRUE))],
   [made EXCEPT !.codes = Append(@, Code("elsewhere", "Machine"))],
   [made EXCEPT !.passes = {"struct"}]}
  \cup {[made EXCEPT !.codes[1].blob = b] : b \in {"none", "unsaid", "forged"}}
  \cup {[made EXCEPT !.codes[1].count = FALSE], [made EXCEPT !.codes[1].digest = FALSE],
        [made EXCEPT !.codes[1].signature = FALSE], [made EXCEPT !.codes[1].recipe = FALSE],
        [made EXCEPT !.codes[1].format = "Elf"], [made EXCEPT !.codes[1].interpreter = None]}

Init ==
  /\ report = None
  /\ \E kinds \in [Functions -> Kinds] :
       /\ kinds[1] = "Native"
       /\ \E calls \in {c \in [Functions -> SUBSET Functions] :
                          \A f \in Functions : kinds[f] # "Semantic" => c[f] = {}} :
            LET made == [f \in Functions |-> AsMade(f, kinds[f], calls[f])]
            IN \/ image = made
               \/ \E f \in {g \in Functions : made[g].codes # <<>>} :
                    /\ \A g \in Functions : g # f /\ g # 1 => kinds[g] = "Semantic"
                    /\ \A g \in Functions : calls[g] \subseteq {1}
                    /\ \E d \in Defective(made[f]) : image = [made EXCEPT ![f] = d]
Check == report = None /\ report' = CheckReport /\ UNCHANGED image
Next == Check
Spec == Init /\ [][Next]_vars

----------------------------------------------------------------------------

\* What can run: the largest set of functions each of which is complete, self
\* contained, or composed of the set's own.
Runnable ==
  LET Stands(f, S) == CASE image[f].kind = "Native" -> Complete(f)
                        [] image[f].kind = "Semantic" -> image[f].calls \subseteq S
                        [] OTHER -> image[f].kind \in {"Capability", "Control"}
  IN UNION {S \in SUBSET Functions : \A f \in S : Stands(f, S)}

Whole(f) ==
  LET Good(code) == code.blob = "data" /\ code.count /\ code.digest /\ code.signature
  IN CASE image[f].kind = "Native" ->
            /\ Len(image[f].codes) = Cardinality(Targets) /\ image[f].passes = {"scalar"}
            /\ \A t \in Targets : \E k \in DOMAIN image[f].codes :
                 LET code == image[f].codes[k]
                 IN code.target = t /\ Good(code) /\ code.recipe /\ code.format = FormatOf(Architecture[t])
       [] image[f].kind = "Semantic" ->
            /\ Len(image[f].codes) = 1
            /\ LET code == image[f].codes[1]
               IN /\ code.target = None /\ code.format = "Bytecode" /\ code.interpreter \in Of("Native")
                  /\ Complete(code.interpreter) /\ code.count /\ code.digest /\ code.signature
       [] OTHER -> TRUE

\* The verdict is right: no issue, just when every code is whole and everything
\* a composed function calls can run - cycles, shared callees and the order of
\* the walk notwithstanding.
VerdictRight ==
  report # None =>
    (report = {} <=> /\ \A f \in Functions : Whole(f)
                     /\ \A f \in Of("Semantic") : image[f].calls \ {f} \subseteq Runnable)

\* "it calls X, which is not complete": said of every call of what cannot run.
EveryCallListed ==
  report # None =>
    \A f \in Of("Semantic") : \A c \in image[f].calls \ Runnable :
      c # f => <<f, "it calls", c>> \in report
=============================================================================
