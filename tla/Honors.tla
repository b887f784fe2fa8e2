-------------------------------- MODULE Honors --------------------------------
(* The honors of one image (honors/__init__.py) and the commands on its file    *)
(* (honors/cli.py): a command attaches the file, appends to its own copy, and   *)
(* writes the copy back; a seat holds a copy and appends to it.  Copies are of  *)
(* the ledger; the roles, people and works are the Genesis.                     *)
EXTENDS Integers, Sequences, FiniteSets

CONSTANTS
  Members, Roles,  \* the people and works, the roles
  Given,           \* names a caller may give: ordinals, or others
  Room,            \* objects the arena has place for
  Commands, MaxCalls, None

VARIABLES
  file,    \* the ledger in the image file
  copy,    \* of a command that has read the file and not ended, or the seat's
  kept,    \* the entries a command said are on the ledger
  outcome, calls

vars == <<file, copy, kept, outcome, calls>>

\* An entry is a blob and its table of refs, read-only once both are made.
Entry(name, about, role, unnamed) ==
  [name |-> name, refs |-> {}, about |-> about, role |-> role, final |-> FALSE, unnamed |-> unnamed]
Sealed(entry) == [entry EXCEPT !.refs = {[target |-> entry.about, role |-> entry.role]}, !.final = TRUE]

Objects(ledger) == Len(ledger) + Cardinality({k \in DOMAIN ledger : ledger[k].refs # {}})
Taken(ledger, name) == \E k \in DOMAIN ledger : ledger[k].name = name
Ordinal(ledger) == Len(ledger) + 1

\* append: the role, the member, the name; then the entry, its table, the flags.
Appended(ledger, about, role, given) ==
  LET name == IF given = None THEN Ordinal(ledger) ELSE given
      made == Append(ledger, Entry(name, about, role, given = None))
  IN IF role \notin Roles \/ about \notin Members THEN [ledger |-> ledger, ok |-> FALSE]
     ELSE IF Taken(ledger, name) \/ Objects(ledger) >= Room THEN [ledger |-> ledger, ok |-> FALSE]
     ELSE IF Objects(made) >= Room THEN [ledger |-> made, ok |-> FALSE]
     ELSE [ledger |-> [made EXCEPT ![Len(made)] = Sealed(@)], ok |-> TRUE]

\* verify: what the laws say of every entry.  An `embodies` has to land on code,
\* under pymergetic/, where no member is; append does not ask.
Problems(ledger) ==
  {<<k, "NotFinal">> : k \in {j \in DOMAIN ledger : ~ledger[j].final}}
  \cup {<<k, "DeadRef">> : k \in
         {j \in DOMAIN ledger : \E r \in ledger[j].refs : r.target \notin Members \/ r.role \notin Roles}}
  \cup {<<k, "NoCode">> : k \in
         {j \in DOMAIN ledger : \E r \in ledger[j].refs : r.role = "embodies"}}

\* about: the entries that vouch for a member.
Vouched(ledger, member) ==
  {ledger[k].name : k \in {j \in DOMAIN ledger : \E r \in ledger[j].refs : r.target = member}}

----------------------------------------------------------------------------

Open(c) ==
  /\ copy[c] = None /\ copy' = [copy EXCEPT ![c] = file]
  /\ outcome' = "ok" /\ UNCHANGED <<file, kept>>

\* The seat appends to what it holds, and keeps what a refusal left.
SeatAppend(about, role, given) ==
  /\ copy["seat"] # None
  /\ LET done == Appended(copy["seat"], about, role, given)
     IN /\ copy' = [copy EXCEPT !["seat"] = done.ledger]
        /\ outcome' = IF done.ok THEN "ok" ELSE "refused"
  /\ UNCHANGED <<file, kept>>

CommandAppendAnyway(c, about, role, given) ==  \* the copy is written either way
  /\ c # "seat" /\ copy[c] # None
  /\ LET done == Appended(copy[c], about, role, given)
     IN file' = done.ledger /\ outcome' = (IF done.ok THEN "ok" ELSE "refused") /\ UNCHANGED kept
  /\ copy' = [copy EXCEPT ![c] = None]

\* A command writes the file back only when the append answered.
CommandAppend(c, about, role, given) ==
  /\ c # "seat" /\ copy[c] # None
  /\ LET done == Appended(copy[c], about, role, given)
     IN IF done.ok
        THEN /\ file' = done.ledger /\ kept' = kept \cup {done.ledger[Len(done.ledger)]}
             /\ outcome' = "ok"
        ELSE outcome' = "refused" /\ UNCHANGED <<file, kept>>
  /\ copy' = [copy EXCEPT ![c] = None]
Init ==
  /\ file = <<>> /\ kept = {} /\ outcome = "ok" /\ calls = 0
  /\ copy = [c \in Commands \cup {"seat"} |-> None]
Call ==
  \/ \E c \in DOMAIN copy : Open(c)
  \/ \E about \in Members \cup {"nobody"}, role \in Roles \cup {"norole"}, given \in {None} \cup Given :
       \/ SeatAppend(about, role, given)
       \/ \E c \in Commands : CommandAppend(c, about, role, given)
Next == calls < MaxCalls /\ calls' = calls + 1 /\ Call
Spec == Init /\ [][Next]_vars

----------------------------------------------------------------------------

\* verify answers for the file, whatever was refused half way: every entry is
\* final and its refs land - but for the law of `embodies`, left to the caller.
FileVerifies == \A p \in Problems(file) : p[2] = "NoCode"

\* "The ledger never rewrites": what a command said is on the ledger stays there.
LedgerKeeps == \A e \in kept : \E k \in DOMAIN file : file[k] = e

\* The ledger stays open: who gives no name is refused for want of room alone.
StaysOpen ==
  \A member \in Members, role \in Roles :
    Objects(file) + 1 < Room => Appended(file, member, role, None).ok
=============================================================================
