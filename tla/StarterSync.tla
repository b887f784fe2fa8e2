---------------------------- MODULE StarterSync ----------------------------
(***************************************************************************)
(* tools/native/sync.py: the derived objects of the starter, rewritten on  *)
(* every run from the Seed sources of native/, the glue of boot/ and the   *)
(* graphs the starter carries.  A tree is a function from file names to    *)
(* what the file defines; the run works on a copy of it, compares the      *)
(* result with the tree and copies it back file by file, so a crash leaves *)
(* files of two trees.                                                     *)
(*                                                                         *)
(* repo is what the run reads besides the tree: the version of the text of *)
(* every file of native/ and of boot/, and the file each snippet key is    *)
(* compiled from (seed_build.SOURCES).  A digest stands for what it is     *)
(* taken of.                                                               *)
(***************************************************************************)
EXTENDS Naturals, Sequences, FiniteSets, TLC

CONSTANTS
    Written,    \* the starter somebody authored: file name -> contents
    Home,       \* snippet key -> the file of native/ it is first compiled from
    Moves,      \* pairs <<key, file>>: where a key may move to
    Authored,   \* Functions somebody may write into a module: [file, name, fn]
    KeyOf,      \* <<file, function>> -> snippet key (graph_sync.snippet_key)
    MachineOf,  \* name of a machine code -> machine (blob_sync.MACHINE_OF)
    Generated,  \* the codes every run makes anew from the linux one
    Derived,    \* file -> the runtime function its Function is a copy of, and its name
    LeafKeys,   \* the keys graph.h numbers as leaves
    Copying,    \* every file name, in the order of sorted()
    MaxEdits,   \* bound: edits of the sources or the tree
    None

VARIABLES
    repo,    \* [text, home, boot]
    tree,    \* the starter: file name -> contents
    work,    \* the canonical tree a run is writing back, or None
    unlinks, \* stale files still to remove
    copies,  \* files still to copy
    goal,    \* what the last run made, until an edit (bookkeeping)
    made,    \* the boot sources the pins were last built from (bookkeeping)
    edits

vars == <<repo, tree, work, unlinks, copies, goal, made, edits>>

Machines == {MachineOf[c] : c \in DOMAIN MachineOf}
Keys == DOMAIN Home
SourceFile(n) == "source_" \o n
IsModule(f, t) == t[f].kind = "module"
Modules(t) == {f \in DOMAIN t : IsModule(f, t)}
Native(fn) == "linux" \in DOMAIN fn.codes
NativePaths(t) ==
    UNION {{<<f, n>> : n \in {m \in DOMAIN t[f].funcs : Native(t[f].funcs[m])}} : f \in Modules(t)}
MapFuncs(t, Change(_, _)) ==
    [f \in DOMAIN t |-> IF ~IsModule(f, t) THEN t[f]
                        ELSE [t[f] EXCEPT !.funcs = [n \in DOMAIN @ |-> Change(<<f, n>>, @[n])]]]

\* What the seed makes of a key for a machine; one text, one body.
Build(r, machine, key) == <<machine, key, r.text[r.home[key]]>>
Recipe(r, machine) == <<machine, r.text, r.home>>
Program(fn) == <<"program", fn.graph>>

(***************************************************************************)
(* The steps of sync, in its order.                                        *)
(***************************************************************************)
\* The modules that are a copy of one runtime function under a new name: the
\* codes keep the source they had, the references follow the name.
CopyOf(t, file) ==
    LET d == Derived[file]
        fn == t["runtime"].funcs[d.from]
        path == <<file, d.name>>
    IN [kind |-> "module",
        funcs |-> d.name :> [fn EXCEPT
            !.codes = [c \in DOMAIN @ |-> [@[c] EXCEPT !.body = IF @ = None THEN None ELSE path]]]]
\* The compiler that is a program is made beside them.
Tiny(r) == [kind |-> "module", funcs |-> "compile" :>
    [graph |-> None, leaves |-> {}, blobs |-> <<>>,
     codes |-> "bytecode" :> [data |-> <<"program", r.text["tiny"]>>, source |-> None,
                              body |-> None, recipe |-> None]]]
WriteLive(t, r) == ("live" :> CopyOf(t, "live")) @@ ("tiny" :> Tiny(r)) @@ t

LeafPaths(t) == [k \in {KeyOf[p] : p \in NativePaths(t)} |->
                    CHOOSE p \in NativePaths(t) : KeyOf[p] = k]

\* graph.run names the leaves the starter has, and holds its own bytes.
WriteInterpreter(t, r, paths) ==
    LET file == CopyOf(t, "graph")
        fresh(fn) == [fn EXCEPT
            !.leaves = {paths[k] : k \in LeafKeys \cap DOMAIN paths},
            !.codes = [c \in DOMAIN @ |->
                IF c \in Generated THEN @[c]
                ELSE [@[c] EXCEPT !.data = Build(r, MachineOf[c], "graph_run")]]]
    IN ("graph" :> [file EXCEPT !.funcs = [n \in DOMAIN @ |-> fresh(@[n])]]) @@ t

\* Every machine code holds what native/ compiles to; the generated ones are
\* copies of the linux code, under the recipe of their own machine.
Refreshed(r, path, fn) ==
    IF ~Native(fn) THEN fn
    ELSE LET key == KeyOf[path]
             kept == {c \in DOMAIN fn.codes : c \notin Generated}
             of(c) == fn.codes[IF c \in kept THEN c ELSE "linux"]
         IN [fn EXCEPT !.codes = [c \in kept \union Generated |->
                IF c \in DOMAIN MachineOf
                THEN [of(c) EXCEPT !.data = Build(r, MachineOf[c], key), !.recipe = MachineOf[c]]
                ELSE of(c)]]
SyncFiles(t, r) == LET Of(p, fn) == Refreshed(r, p, fn) IN MapFuncs(t, Of)

WriteProvenance(t, r) ==
    [t EXCEPT !["targets"] = [kind |-> "targets", recipes |-> [m \in Machines |-> Recipe(r, m)]]]

\* Every machine code of a built function names its file; one module per
\* named source, and the aggregate file of older trees goes.
SetSources(t, r, paths) ==
    LET Of(p, fn) ==
        IF p \notin {paths[k] : k \in DOMAIN paths} THEN fn
        ELSE [fn EXCEPT !.codes = [c \in DOMAIN @ |->
                IF c = "bytecode" THEN @[c] ELSE [@[c] EXCEPT !.source = r.home[KeyOf[p]]]]]
    IN MapFuncs(t, Of)
WriteSources(t, r, paths) ==
    LET named == {r.home[k] : k \in DOMAIN paths}
        rows == [f \in {SourceFile(n) : n \in named} |->
                    LET n == CHOOSE m \in named : SourceFile(m) = f
                    IN [kind |-> "source", text |-> r.text[n]]]
        boot == "source_boot" :> [kind |-> "source", text |-> r.boot]
        kept == [f \in DOMAIN t \ {"sources"} |-> t[f]]
    IN rows @@ boot @@ SetSources(kept, r, paths)

\* The glue of boot/: what it means and the recipe are computed, the pins are
\* carried from the tree unless a build gives new ones.
WriteCodes(t, r, pins) ==
    "boot" :> [kind |-> "boot", recipe |-> r.boot, meaning |-> r.boot, pins |-> pins] @@ t

WriteHosts(t) ==
    "hosts" :> [kind |-> "hosts", asked |-> t["capabilities"].required] @@ t

\* One blob per function and machine instead of the bytes in every code.
Holding(fn) == {c \in DOMAIN fn.codes : c \in DOMAIN MachineOf /\ fn.codes[c].data # None}
BlobsOf(fn) ==
    [m \in {MachineOf[c] : c \in Holding(fn)} |->
        fn.codes[CHOOSE c \in Holding(fn) : MachineOf[c] = m].data]
Pinned(fn) == BlobsOf(fn) @@ fn.blobs
Blobbed(path, fn) ==
    [fn EXCEPT !.codes = [c \in DOMAIN @ |-> IF c \in Holding(fn)
                                             THEN [@[c] EXCEPT !.body = path, !.data = None]
                                             ELSE @[c]],
               !.blobs = Pinned(fn)]
WriteBlobs(t) == MapFuncs(t, Blobbed)
SeatsAgree(t) ==
    \A p \in NativePaths(t) : LET fn == t[p[1]].funcs[p[2]] IN
        \A c, d \in DOMAIN fn.codes \cap DOMAIN MachineOf :
            (MachineOf[c] = MachineOf[d] /\ None \notin {fn.codes[c].data, fn.codes[d].data})
                => fn.codes[c].data = fn.codes[d].data

\* The program of every semantic function, from its graph.
Composed(path, fn) ==
    IF fn.graph = None THEN fn
    ELSE [fn EXCEPT !.codes = ("bytecode" :>
            [data |-> Program(fn), source |-> None, body |-> None, recipe |-> None]) @@ @]
SyncBytecode(t) == MapFuncs(t, Composed)

\* The words of a semantic function stay; what a recipe builds never does.
Stripped(path, fn) ==
    [fn EXCEPT !.codes = [c \in DOMAIN @ |-> IF c = "bytecode" /\ path[1] # "tiny" THEN @[c]
                                             ELSE [@[c] EXCEPT !.data = None]]]
Strip(t) == MapFuncs(t, Stripped)

Pins(t) == IF "boot" \in DOMAIN t THEN t["boot"].pins ELSE None

\* What sync refuses before it writes anything: a native code whose key has
\* no source in native/, boot pins the tree does not carry.
Unkeyed(t) == {p \in NativePaths(t) : p \notin DOMAIN KeyOf}
Refuses(t) == Unkeyed(t) # {} \/ Pins(t) = None

Sourced(t, r) ==
    LET live == WriteLive(t, r)
        paths == LeafPaths(live)
        graphed == WriteInterpreter(live, r, paths)
    IN WriteSources(WriteProvenance(SyncFiles(graphed, r), r), r, paths)
Canonical(t, r) ==
    Strip(SyncBytecode(WriteBlobs(WriteHosts(WriteCodes(Sourced(t, r), r, Pins(t))))))

(***************************************************************************)
(* The tool and the people who edit what it reads.                         *)
(***************************************************************************)
StaleAll(t, canonical) == DOMAIN t   \* mutant: the tree is emptied first
Stale(t, canonical) == DOMAIN t \ DOMAIN canonical

\* make -C boot: the artifacts that carry no part of the starter.
Artifact(r, t) == <<"artifact", r.boot>>

Idle == work = None

SyncStart ==
    /\ Idle /\ ~Refuses(tree)
    /\ \E canonical \in {Canonical(tree, repo)} :
        /\ SeatsAgree(Sourced(tree, repo))
        /\ goal' = canonical
        /\ IF canonical = tree THEN UNCHANGED <<work, unlinks, copies>>
           ELSE /\ work' = canonical
                /\ unlinks' = Stale(tree, canonical)
                /\ copies' = DOMAIN canonical
    /\ UNCHANGED <<repo, tree, made, edits>>

Unlink ==
    /\ unlinks # {}
    /\ \E f \in unlinks :
        /\ unlinks' = unlinks \ {f}
        /\ tree' = [g \in DOMAIN tree \ {f} |-> tree[g]]
    /\ UNCHANGED <<repo, work, copies, goal, made, edits>>

\* The files are copied in the order of their names.
CopyFile ==
    /\ unlinks = {} /\ copies # {}
    /\ LET i == CHOOSE j \in DOMAIN Copying :
                  Copying[j] \in copies /\ \A k \in 1..(j - 1) : Copying[k] \notin copies
           f == Copying[i]
       IN /\ tree' = (f :> work[f]) @@ tree
          /\ copies' = copies \ {f}
          /\ work' = IF copies = {f} THEN None ELSE work
    /\ UNCHANGED <<repo, unlinks, goal, made, edits>>

\* The process ends between two files.
Crash ==
    /\ ~Idle
    /\ work' = None /\ unlinks' = {} /\ copies' = {}
    /\ UNCHANGED <<repo, tree, goal, made, edits>>

Edit == Idle /\ edits < MaxEdits /\ edits' = edits + 1 /\ goal' = None
        /\ UNCHANGED <<work, unlinks, copies>>

EditText == \E n \in DOMAIN repo.text :
    Edit /\ repo' = [repo EXCEPT !.text[n] = @ + 1] /\ UNCHANGED <<tree, made>>
MoveKey == \E m \in Moves :
    /\ repo.home[m[1]] # m[2]
    /\ Edit /\ repo' = [repo EXCEPT !.home[m[1]] = m[2]] /\ UNCHANGED <<tree, made>>
EditBoot == Edit /\ repo' = [repo EXCEPT !.boot = @ + 1] /\ made' = None /\ UNCHANGED tree

\* Somebody writes a function into a module, with codes that hold no bytes.
Author == \E a \in Authored :
    /\ a.name \notin DOMAIN tree[a.file].funcs
    /\ Edit
    /\ tree' = [tree EXCEPT ![a.file].funcs = (a.name :> a.fn) @@ @]
    /\ UNCHANGED <<repo, made>>
EditGraph == \E f \in Modules(tree) : \E n \in DOMAIN tree[f].funcs :
    /\ tree[f].funcs[n].graph # None
    /\ Edit
    /\ tree' = [tree EXCEPT ![f].funcs[n].graph = @ + 1]
    /\ UNCHANGED <<repo, made>>

\* boot_sync.py build: the glue with the pins of a fresh make, in place.
BootBuild ==
    /\ made = None
    /\ Edit
    /\ tree' = WriteCodes(tree, repo, Artifact(repo, tree))
    /\ made' = repo.boot
    /\ UNCHANGED repo

Init ==
    /\ repo = [text |-> [n \in {Home[k] : k \in Keys} \union {m[2] : m \in Moves}
                                \union {"tiny"} |-> 0],
               home |-> Home, boot |-> 0]
    /\ tree = Written
    /\ work = None /\ unlinks = {} /\ copies = {}
    /\ goal = None /\ made = None /\ edits = 0

Next == \/ SyncStart \/ Unlink \/ CopyFile \/ Crash
        \/ EditText \/ MoveKey \/ EditBoot \/ Author \/ EditGraph \/ BootBuild

(***************************************************************************)
(* Properties.                                                             *)
(***************************************************************************)
\* Running the tool again writes the tree the first run made -- after it, half
\* way through the copy and after a crash there (source_sync.py:19, blob_sync
\* .py:26: "running it twice writes the same tree").
Settles == goal # None => ~Refuses(tree) /\ Canonical(tree, repo) = goal

\* In a tree the tool calls up to date, filling the image from the recipes
\* gives every body the bytes its pin names, every machine code names the file
\* those bytes come from, and no body stores them (programs.filled).
Finished == goal # None /\ tree = goal
FilledMatchesPins ==
    Finished => \A p \in NativePaths(tree) : LET fn == tree[p[1]].funcs[p[2]] IN
        /\ \A m \in DOMAIN fn.blobs : fn.blobs[m] = Build(repo, m, KeyOf[p])
        /\ \A c \in DOMAIN fn.codes \cap DOMAIN MachineOf :
            /\ fn.codes[c].data = None /\ fn.codes[c].body = p
            /\ MachineOf[c] \in DOMAIN fn.blobs
            /\ tree[SourceFile(fn.codes[c].source)].text = fn.blobs[MachineOf[c]][3]

\* The pins of the glue are what make builds, from a build until the sources of
\* boot/ change, whatever runs and crashes come between.
PinIsWhatMakeBuilds == made # None => Pins(tree) = Artifact(repo, tree)

\* sources/ has one module per file the seed builds code from, and no other.
SourcesAreTheFiles ==
    Finished => {f \in DOMAIN tree : tree[f].kind = "source"} =
        {SourceFile(repo.home[KeyOf[p]]) : p \in NativePaths(tree)} \union {"source_boot"}

\* The tree is settled, its pins name its bytes, and builds are of those pins.
TreeStands == Settles /\ FilledMatchesPins /\ PinIsWhatMakeBuilds
=============================================================================
