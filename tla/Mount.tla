-------------------------------- MODULE Mount --------------------------------
(* The host mount (mount/__init__.py): an image's modules through `import`, the  *)
(* finder last in sys.meta_path.  A module of Python is an object: `made` has    *)
(* them in the order they were made, sys and bound hold their numbers.           *)
EXTENDS Integers, Sequences, FiniteSets, TLAPS

CONSTANTS
  Names, Parent,  \* the dotted names and the name before the last dot, or None
  HostHas,        \* [name -> "none", "module" or "package"], what the host finds first
  Images, Stat,   \* [image -> [name -> "none", "module", "package" or "unspelled"]]
  MaxMade, None

VARIABLES
  finder,   \* the mounted image, None when none is
  made,     \* [name, by: "host" or the image that served it, package]
  sys,      \* sys.modules
  bound,    \* the attributes of a module that are its submodules
  outcome

vars == <<finder, made, sys, bound, outcome>>

Served(m) == made[m].by # "host"

----------------------------------------------------------------------------
(* One name, its parent imported: the host first, then the image *)

\* find_spec: no root of the image is spelled so, the image refuses what a
\* package of its own does not have, or it serves.
FindSpec(name) ==
  IF finder = None THEN "none"
  ELSE IF Stat[finder][name] = "unspelled" THEN "none"
  ELSE IF Stat[finder][name] # "none" THEN Stat[finder][name]
  ELSE IF Parent[name] = None THEN "none"
  ELSE IF sys[Parent[name]] = None THEN "none"
  ELSE IF Served(sys[Parent[name]]) THEN "refused" ELSE "none"

Load(name, by, stat) ==
  /\ Len(made) < MaxMade
  /\ made' = Append(made, [name |-> name, by |-> by, package |-> stat = "package"])
  /\ sys' = [sys EXCEPT ![name] = Len(made) + 1]
  /\ bound' = [p \in 1..Len(made) + 1 |->
                 IF p = Len(made) + 1 THEN [n \in Names |-> None]
                 ELSE IF Parent[name] = None THEN bound[p]
                 ELSE IF sys[Parent[name]] = p THEN [bound[p] EXCEPT ![name] = Len(made) + 1]
                 ELSE bound[p]]
  /\ outcome' = "ok"
Missing(word) == outcome' = word /\ UNCHANGED <<made, sys, bound>>

Import(name) ==
  /\ sys[name] = None
  /\ IF Parent[name] = None THEN TRUE ELSE sys[Parent[name]] # None
  /\ IF IF Parent[name] = None THEN FALSE ELSE ~made[sys[Parent[name]]].package
     THEN Missing("NotPackage")
     ELSE IF HostHas[name] # "none"
             /\ IF Parent[name] = None THEN TRUE ELSE ~Served(sys[Parent[name]])
     THEN Load(name, "host", HostHas[name])
     ELSE CASE FindSpec(name) = "none" -> Missing("NotFound")
            [] FindSpec(name) = "refused" -> Missing("ImageHasNo")
            [] OTHER -> Load(name, finder, FindSpec(name))
  /\ UNCHANGED finder

----------------------------------------------------------------------------

Install(image) ==
  /\ IF finder # None THEN outcome' = "refused" /\ UNCHANGED finder
     ELSE finder' = image /\ outcome' = "ok"
  /\ UNCHANGED <<made, sys, bound>>

\* Every module it served, out of sys.modules and out of its parent.
KeptBound(p, n) == bound[p][n]  \* the parent's attribute is left
Unbound(p, n) ==
  LET m == sys[n]
  IN IF m = None THEN bound[p][n]
     ELSE IF ~Served(m) \/ bound[p][n] # m THEN bound[p][n]
     ELSE IF p \in {sys[q] : q \in Names} THEN None ELSE bound[p][n]
Uninstall ==
  /\ finder' = None
  /\ sys' = [n \in Names |-> IF sys[n] = None THEN None ELSE IF Served(sys[n]) THEN None ELSE sys[n]]
  /\ bound' = [p \in DOMAIN bound |-> [n \in Names |-> Unbound(p, n)]]
  /\ outcome' = "ok" /\ UNCHANGED made

Init ==
  /\ finder = None /\ made = <<>> /\ sys = [n \in Names |-> None] /\ bound = <<>> /\ outcome = "ok"
Next ==
  \/ \E name \in Names : Import(name)
  \/ \E image \in Images : Install(image)
  \/ Uninstall
Spec == Init /\ [][Next]_vars

----------------------------------------------------------------------------

\* What a program reaches through sys.modules and the attributes of what is
\* there is the host's or the mounted image's: one image at a time, none after
\* an uninstall, also below packages of the host.
Reached == LET tops == {sys[n] : n \in Names} \ {None}
           IN (tops \cup UNION {{bound[p][n] : n \in Names} : p \in tops}) \ {None}
OneImageReached == \A m \in Reached : made[m].by \in {"host", finder}
----------------------------------------------------------------------------
(* Proofs: OneImageReached, for any names, hosts, images and sequence of calls *)

\* None is no image, no name and no number, and the host is no image.
MountAssumption ==
  /\ None \notin Images \cup {"host"} /\ None \notin Names /\ None \notin Nat
  /\ "host" \notin Images /\ Parent \in [Names -> Names \cup {None}]

Modules == [name : Names, by : Images \cup {"host"}, package : BOOLEAN]
MountTyped ==
  /\ finder \in Images \cup {None} /\ made \in Seq(Modules)
  /\ sys \in [Names -> 1..Len(made) \cup {None}]
  /\ bound \in [1..Len(made) -> [Names -> 1..Len(made) \cup {None}]]

\* What sys.modules has under a name is the host's or the mounted image's, and a
\* module that is there has no other submodule than the one that is there too.
InSys == \A n \in Names : sys[n] # None => made[sys[n]].by \in {"host", finder}
BoundInSys ==
  \A q, n \in Names : sys[q] # None => bound[sys[q]][n] \in {None, sys[n]}
MountInv == MountTyped /\ InSys /\ BoundInSys

LEMMA LoadKeeps ==
    ASSUME MountAssumption, MountInv, NEW name \in Names, sys[name] = None,
           NEW by \in {"host", finder} \ {None}, NEW stat, Load(name, by, stat), UNCHANGED finder
    PROVE  MountInv'
<1> DEFINE module == [name |-> name, by |-> by, package |-> stat = "package"]
           new == Len(made) + 1
<1>1. module \in Modules
  BY DEF MountInv, MountTyped, Modules
<1>2. /\ made' = Append(made, module) /\ sys' = [sys EXCEPT ![name] = new]
      /\ bound' = [p \in 1..new |->
                     IF p = new THEN [n \in Names |-> None]
                     ELSE IF Parent[name] = None THEN bound[p]
                     ELSE IF sys[Parent[name]] = p THEN [bound[p] EXCEPT ![name] = new]
                     ELSE bound[p]]
  BY DEF Load
<1>3. /\ made' \in Seq(Modules) /\ Len(made') = new /\ made'[new] = module
      /\ \A p \in 1..Len(made) : made'[p] = made[p]
  BY <1>1, <1>2 DEF MountInv, MountTyped
<1> HIDE DEF module
<1>4. /\ sys' \in [Names -> 1..Len(made') \cup {None}] /\ sys'[name] = new
      /\ \A n \in Names \ {name} : sys'[n] = sys[n]
  BY <1>2, <1>3 DEF MountInv, MountTyped
<1>5. bound' \in [1..Len(made') -> [Names -> 1..Len(made') \cup {None}]]
  <2>1. bound' = [p \in 1..new |-> bound'[p]]
    BY <1>2
  <2>2. ASSUME NEW p \in 1..new PROVE bound'[p] \in [Names -> 1..new \cup {None}]
    <3>1. CASE p = new
      BY <1>2, <3>1
    <3>2. CASE p # new
      <4>1. bound[p] \in [Names -> 1..new \cup {None}]
        BY <3>2 DEF MountInv, MountTyped
      <4>2. [bound[p] EXCEPT ![name] = new] \in [Names -> 1..new \cup {None}]
        BY <4>1 DEF MountInv, MountTyped
      <4> QED
        BY <1>2, <3>2, <4>1, <4>2
    <3> QED
      BY <3>1, <3>2
  <2> QED
    BY <1>3, <2>1, <2>2
<1>6. InSys'
  <2> SUFFICES ASSUME NEW n \in Names, sys'[n] # None
               PROVE  made'[sys'[n]].by \in {"host", finder}
    BY DEF InSys
  <2>1. CASE n = name
    BY <1>3, <1>4, <2>1 DEF module
  <2>2. CASE n # name
    BY <1>3, <1>4, <2>2 DEF MountInv, MountTyped, InSys
  <2> QED
    BY <2>1, <2>2
<1>7. BoundInSys'
  <2> SUFFICES ASSUME NEW q \in Names, NEW n \in Names, sys'[q] # None
               PROVE  bound'[sys'[q]][n] \in {None, sys'[n]}
    BY DEF BoundInSys
  <2>1. CASE q = name
    BY <1>2, <1>4, <2>1 DEF MountInv, MountTyped
  <2>2. CASE q # name
    <3>1. sys'[q] = sys[q] /\ sys[q] \in 1..Len(made) /\ bound[sys[q]] \in [Names -> 1..Len(made) \cup {None}]
      BY <1>4, <2>2 DEF MountInv, MountTyped
    <3>2. bound[sys[q]][n] \in {None, sys'[n]}
      BY <1>4, <3>1 DEF MountInv, BoundInSys
    <3>3. bound'[sys[q]][n] \in {bound[sys[q]][n], IF n = name THEN new ELSE bound[sys[q]][n]}
      BY <1>2, <3>1 DEF MountInv, MountTyped
    <3> QED
      BY <1>4, <3>1, <3>2, <3>3
  <2> QED
    BY <2>1, <2>2
<1> QED
  BY <1>3, <1>4, <1>5, <1>6, <1>7 DEF MountInv, MountTyped

LEMMA ImportKeeps ==
    ASSUME MountAssumption, MountInv, NEW name \in Names, Import(name)
    PROVE  MountInv'
<1>1. CASE UNCHANGED <<made, sys, bound>>
  BY <1>1 DEF Import, MountInv, MountTyped, InSys, BoundInSys
<1>2. CASE Load(name, "host", HostHas[name])
  <2>1. "host" \in {"host", finder} \ {None}
    BY DEF MountAssumption
  <2> QED
    BY <1>2, <2>1, LoadKeeps DEF Import
<1>3. CASE FindSpec(name) \notin {"none", "refused"} /\ Load(name, finder, FindSpec(name))
  <2>1. finder \in {"host", finder} \ {None}
    BY <1>3 DEF FindSpec
  <2> QED
    BY <1>3, <2>1, LoadKeeps DEF Import
<1> QED
  BY <1>1, <1>2, <1>3 DEF Import, Missing

LEMMA UninstallKeeps ==
    ASSUME MountAssumption, MountInv, Uninstall
    PROVE  MountInv'
<1>1. MountTyped'
  <2>1. \A n \in Names : sys'[n] \in {None, sys[n]}
    BY DEF Uninstall
  <2>2. \A p \in 1..Len(made), n \in Names : Unbound(p, n) \in {None, bound[p][n]}
    BY DEF Unbound
  <2>3. DOMAIN bound = 1..Len(made) /\ made' = made /\ finder' = None
    BY DEF Uninstall, MountInv, MountTyped
  <2>4. sys' \in [Names -> 1..Len(made) \cup {None}]
    BY <2>1 DEF Uninstall, MountInv, MountTyped
  <2>5. \A p \in 1..Len(made) : [n \in Names |-> Unbound(p, n)] \in [Names -> 1..Len(made) \cup {None}]
    BY <2>2 DEF MountInv, MountTyped
  <2>6. bound' \in [1..Len(made) -> [Names -> 1..Len(made) \cup {None}]]
    BY <2>3, <2>5 DEF Uninstall
  <2> QED
    BY <2>3, <2>4, <2>6 DEF MountInv, MountTyped
<1>2. \A n \in Names : sys'[n] # None => sys'[n] = sys[n] /\ ~Served(sys[n])
  BY DEF Uninstall
<1>3. InSys'
  BY <1>2 DEF InSys, Uninstall, Served
<1>4. BoundInSys'
  <2> SUFFICES ASSUME NEW q \in Names, NEW n \in Names, sys'[q] # None
               PROVE  bound'[sys'[q]][n] \in {None, sys'[n]}
    BY DEF BoundInSys
  <2>1. sys'[q] = sys[q] /\ sys[q] \in DOMAIN bound
    BY <1>2 DEF MountInv, MountTyped
  <2>2. bound'[sys'[q]][n] = Unbound(sys[q], n)
    BY <2>1 DEF Uninstall
  <2>3. bound[sys[q]][n] \in {None, sys[n]}
    BY <1>2 DEF MountInv, BoundInSys
  <2>4. sys[q] \in {sys[r] : r \in Names}
    OBVIOUS
  <2> QED
    BY <2>2, <2>3, <2>4 DEF Unbound, Uninstall
<1> QED
  BY <1>1, <1>3, <1>4 DEF MountInv

LEMMA MountStarts ==
    ASSUME MountAssumption
    PROVE  Init => MountInv
  BY DEF MountAssumption, Init, MountInv, MountTyped, InSys, BoundInSys

LEMMA MountSteps ==
    ASSUME MountAssumption, MountInv, [Next]_vars
    PROVE  MountInv'
<1>1. ASSUME NEW image \in Images, Install(image)
      PROVE  MountInv'
  <2>1. \A n \in Names : sys[n] # None => sys[n] \in 1..Len(made) /\ made[sys[n]] \in Modules
    BY DEF MountInv, MountTyped
  <2>2. MountTyped' /\ BoundInSys'
    BY <1>1 DEF Install, MountInv, MountTyped, BoundInSys
  <2>3. finder = None \/ finder' = finder
    BY <1>1 DEF Install
  <2>4. InSys'
    BY <1>1, <2>1, <2>3 DEF Install, MountInv, InSys, Modules, MountAssumption
  <2> QED
    BY <2>2, <2>4 DEF MountInv
<1>2. CASE UNCHANGED vars
  BY <1>2 DEF vars, MountInv, MountTyped, InSys, BoundInSys
<1> QED
  BY <1>1, <1>2, ImportKeeps, UninstallKeeps DEF Next

LEMMA MountFollows == MountInv => OneImageReached
<1> SUFFICES ASSUME MountInv, NEW m \in Reached
             PROVE  made[m].by \in {"host", finder}
  BY DEF OneImageReached
<1>1. CASE \E n \in Names : m = sys[n] /\ m # None
  BY <1>1 DEF MountInv, InSys
<1>2. CASE \E q, n \in Names : sys[q] # None /\ m = bound[sys[q]][n] /\ m # None
  BY <1>2 DEF MountInv, InSys, BoundInSys
<1>3. CASE m \in {sys[n] : n \in Names} \ {None}
  BY <1>1, <1>3
<1>4. CASE m \in UNION {{bound[p][n] : n \in Names} : p \in {sys[n] : n \in Names} \ {None}} /\ m # None
  <2>1. PICK p \in {sys[n] : n \in Names} \ {None} : m \in {bound[p][n] : n \in Names} /\ m # None
    BY <1>4
  <2> QED
    BY <1>2, <2>1
<1> QED
  BY <1>3, <1>4 DEF Reached

\* Whatever is imported, mounted and taken down in whatever order, what a program
\* reaches through sys.modules is the host's or the one mounted image's.
THEOREM OneImageAtATime ==
    ASSUME MountAssumption
    PROVE  Spec => []OneImageReached
  BY MountStarts, MountSteps, MountFollows, PTL DEF Spec
=============================================================================
