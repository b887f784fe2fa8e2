------------------------------ MODULE LiveFront -------------------------------
(* The front end of a running image (live/front.py) under its users: consoles  *)
(* (console/session.py) and the editor (server/editor.py, server/app.py).  The *)
(* users of one process share its Front, and with it the mirror every delta is *)
(* compiled against; each operation holds the transaction of the channel.      *)
EXTENDS Integers, Sequences, SequencesExt

CONSTANTS
  Users, Consoles, Fronts,  \* who works on the image, through which mirrors
  Lines,      \* what a console's user may type
  MaxTyped, MaxPokes, Faults,
  None

VARIABLES
  front,   \* user -> the Front of its process
  image,   \* [source, out, fns, cells]: what the running image holds
  mirror,  \* front -> the state its deltas are staged against, None: not read
  gate,    \* the user inside the transaction
  user,    \* user -> [at, words, text, name, twice]
  buffer,  \* console -> the lines of the program being typed
  typed,   \* console -> [keys, lines, sent, submitted, installed, refused, result, over]
  pokes, faults

vars == <<front, image, mirror, gate, user, buffer, typed, pokes, faults>>

Of(u) == mirror[front[u]]

----------------------------------------------------------------------------
(* Programs: a line is a name to define, or a line the image refuses.         *)

NameOf(text) ==  \* the first name the source gives, as the image reads none
  IF \E k \in DOMAIN text : text[k] # "bad"
    THEN text[CHOOSE k \in DOMAIN text :
                text[k] # "bad" /\ \A j \in 1..k - 1 : text[j] = "bad"]
    ELSE None
Compiles(text) == ~Contains(text, "bad")
Words(text) == IF Compiles(text) THEN <<"words", text>> ELSE <<"half", text>>

May == faults < Faults
Fault == May /\ faults' = faults + 1

----------------------------------------------------------------------------
(* One delta: Front._send.  The mirror takes it first; the image refuses a     *)
(* base that is not itself, or for its own reasons (no room, a lost answer).   *)

Takes(s, delta) ==
  CASE delta.set = "source" -> [s EXCEPT !.source = delta.value]
    [] delta.set = "fns" -> [s EXCEPT !.fns = @ \cup {delta.value}]
    [] OTHER -> [s EXCEPT !.cells = delta.value]

\* A delta that does not hold on the mirror is refused before anything is sent.
Holds(s, delta) == delta.set = "fns" => \A f \in s.fns : f.name # delta.value.name

Lands(u, delta) == image = Of(u)

\* next: where an accepted delta takes the user; a refused one ends in refused.
SendDelta(u, delta, next, refused) ==
  IF ~Holds(Of(u), delta)
  THEN refused /\ UNCHANGED <<image, mirror, faults>>
  ELSE /\ mirror' = [mirror EXCEPT ![front[u]] = Takes(@, delta)]
       /\ \/ /\ Lands(u, delta) /\ image' = Takes(image, delta) /\ UNCHANGED faults
             /\ IF image' = mirror'[front[u]] THEN next ELSE refused
          \/ /\ IF Lands(u, delta) THEN Fault ELSE UNCHANGED faults
             /\ refused /\ UNCHANGED image

----------------------------------------------------------------------------
(* What a user does inside the transaction *)

Goes(u, at) == user' = [user EXCEPT ![u].at = at]
Free == gate = None

\* Console.submit, the editor's install: the mirror is read when there is none.
Enters(u, text, wanted) ==
  /\ Free /\ gate' = u
  /\ user' = [user EXCEPT ![u] = [@ EXCEPT !.at = "send", !.text = text, !.name = wanted,
                                           !.words = None, !.twice = u \notin Consoles]]
  /\ mirror' = IF Of(u) = None THEN [mirror EXCEPT ![front[u]] = image] ELSE mirror

Told(u, result) ==
  IF u \in Consoles
  THEN typed' = [typed EXCEPT ![u].submitted = @ + 1, ![u].result = result,
                              ![u].installed = IF result = "installed" THEN @ + 1 ELSE @,
                              ![u].refused = IF result = "installed" THEN @ ELSE @ + 1]
  ELSE typed' = typed

Leaves(u, result) == gate' = None /\ Goes(u, "idle") /\ Told(u, result)

SendSource(u) ==
  /\ user[u].at = "send"
  /\ SendDelta(u, [set |-> "source", value |-> user[u].text],
               Goes(u, "run") /\ UNCHANGED <<gate, typed>>, Leaves(u, "refused"))
  /\ UNCHANGED <<buffer, pokes>>

\* The run of the front end: the image writes its words, or as far as it came.
Run(u) ==
  /\ user[u].at = "run" /\ Goes(u, "read")
  /\ image' = [image EXCEPT !.out = Words(image.source)]
  /\ UNCHANGED <<mirror, gate, buffer, typed, pokes, faults>>

\* The words are read back and mirrored; the reading may be refused.
ReadOut(u) ==
  /\ user[u].at = "read"
  /\ \/ /\ user' = [user EXCEPT ![u].words = image.out, ![u].at = "verdict"]
        /\ mirror' = [mirror EXCEPT ![front[u]].out = image.out]
        /\ UNCHANGED <<gate, typed, faults>>
     \/ Fault /\ Leaves(u, "refused") /\ UNCHANGED mirror
  /\ UNCHANGED <<image, buffer, pokes>>

\* A line the front end stopped at ends it; the editor compiles what it
\* installs a second time.
VerdictOf(u) ==
  /\ user[u].at = "verdict"
  /\ IF ~Compiles(user[u].text) THEN Leaves(u, "refused")
     ELSE /\ user' = [user EXCEPT ![u].at = IF user[u].twice THEN "send" ELSE "install",
                                  ![u].twice = FALSE]
          /\ UNCHANGED <<gate, typed>>
  /\ UNCHANGED <<image, mirror, buffer, pokes, faults>>

InstallWords(u) ==
  /\ user[u].at = "install"
  /\ SendDelta(u, [set |-> "fns", value |-> [name |-> user[u].name, words |-> user[u].words,
                                             text |-> user[u].text]],
               Leaves(u, "installed"), Leaves(u, "refused"))
  /\ UNCHANGED <<buffer, pokes>>

\* The editor's poke: dumped, compiled, applied, and the mirror rebased on it.
PokeUnrebased(u) ==
  /\ Free /\ u \notin Consoles /\ user[u].at = "idle" /\ pokes < MaxPokes
  /\ pokes' = pokes + 1 /\ image' = [image EXCEPT !.cells = pokes + 1]
  /\ UNCHANGED <<mirror, gate, user, buffer, typed, faults>>
Poke(u) ==
  /\ Free /\ u \notin Consoles /\ user[u].at = "idle" /\ pokes < MaxPokes
  /\ pokes' = pokes + 1
  /\ image' = [image EXCEPT !.cells = pokes + 1]
  /\ mirror' = [mirror EXCEPT ![front[u]] = image']
  /\ UNCHANGED <<gate, user, buffer, typed, faults>>

----------------------------------------------------------------------------
(* The terminal: a program is read until a blank line or a line of one dot     *)

Sent(u) == [typed EXCEPT ![u].sent = @ + Len(buffer[u])]
Enter(u) ==
  IF NameOf(buffer[u]) = None  \* answered without the image
  THEN /\ typed' = [Sent(u) EXCEPT ![u].submitted = @ + 1, ![u].refused = @ + 1]
       /\ UNCHANGED <<mirror, gate, user>>
  ELSE Enters(u, buffer[u], NameOf(buffer[u])) /\ typed' = Sent(u)

Typing(u) == user[u].at = "idle" /\ ~typed[u].over
Type(u, line) ==
  /\ Typing(u) /\ typed[u].keys < MaxTyped
  /\ IF line \in {"blank", "dot"} /\ buffer[u] # <<>>
     THEN Enter(u) /\ buffer' = [buffer EXCEPT ![u] = <<>>]
     ELSE /\ UNCHANGED <<mirror, gate, user>>
          /\ buffer' = IF line \in {"blank", "dot"} THEN buffer
                       ELSE [buffer EXCEPT ![u] = Append(@, line)]
          /\ typed' = [typed EXCEPT ![u].keys = @ + 1,
               ![u].lines = IF line \in {"blank", "dot"} THEN @ ELSE @ + 1]
  /\ UNCHANGED <<image, pokes, faults>>

\* A word of the terminal, with nothing typed: quit leaves, list only reads.
Quit(u) ==
  /\ Typing(u) /\ buffer[u] = <<>> /\ typed' = [typed EXCEPT ![u].over = TRUE]
  /\ UNCHANGED <<image, mirror, gate, user, buffer, pokes, faults>>

\* The end of the input submits what was typed.
EndOfInput(u) ==
  /\ Typing(u)
  /\ IF buffer[u] # <<>> THEN Enter(u) /\ buffer' = [buffer EXCEPT ![u] = <<>>]
     ELSE typed' = [typed EXCEPT ![u].over = TRUE] /\ UNCHANGED <<mirror, gate, user, buffer>>
  /\ UNCHANGED <<image, pokes, faults>>

\* The editor's page sends a whole program.
Edit(u, text) ==
  /\ u \notin Consoles /\ user[u].at = "idle" /\ pokes < MaxPokes /\ pokes' = pokes + 1
  /\ NameOf(text) # None /\ Enters(u, text, NameOf(text))
  /\ UNCHANGED <<image, buffer, typed, faults>>

----------------------------------------------------------------------------

Init ==
  /\ front \in {[u \in Users |-> CHOOSE f \in Fronts : TRUE]} \cup
                {f \in [Users -> Fronts] : \A u, v \in Users : u # v => f[u] # f[v]}
  /\ image = [source |-> <<>>, out |-> <<"half", <<>>>>, fns |-> {}, cells |-> 0]
  /\ mirror = [f \in Fronts |-> None] /\ gate = None
  /\ user = [u \in Users |-> [at |-> "idle", words |-> None, text |-> <<>>, name |-> None,
                              twice |-> FALSE]]
  /\ buffer = [u \in Consoles |-> <<>>]
  /\ typed = [u \in Consoles |-> [keys |-> 0, lines |-> 0, sent |-> 0, submitted |-> 0, installed |-> 0, refused |-> 0,
                                  result |-> None, over |-> FALSE]]
  /\ pokes = 0 /\ faults = 0

Work(u) == SendSource(u) \/ Run(u) \/ ReadOut(u) \/ VerdictOf(u) \/ InstallWords(u)
Step ==
  \/ \E u \in Users : Work(u) \/ Poke(u) \/ \E line \in Lines : Edit(u, <<line>>)
  \/ \E u \in Consoles : Quit(u) \/ EndOfInput(u) \/ \E line \in Lines \cup {"blank", "dot"} : Type(u, line)
Next == Step /\ UNCHANGED front
Spec == Init /\ [][Next]_vars

----------------------------------------------------------------------------

\* What is installed under a name are the words of the very source its user
\* submitted, whoever else compiles through the same source and out objects.
InstalledIsSubmitted ==
  \A f \in image.fns : f.words = <<"words", f.text>> /\ f.name = NameOf(f.text)

\* "The image and its mirror disagree" is never raised: a delta that lands
\* leaves the image as the mirror of its sender; and the one mirror of a process
\* follows what the image wrote itself and what the editor poked.
MirrorFollows ==
  Free /\ faults = 0 /\ (\A u, v \in Users : front[u] = front[v]) =>
    \A u \in Users : Of(u) \in {None, image}

\* "A program is read until a blank line": every line typed into a program is
\* part of exactly one submission, also when the input ends inside one.
TypedIsSubmitted == \A u \in Consoles :
  /\ typed[u].lines = typed[u].sent + Len(buffer[u])
  /\ typed[u].over => buffer[u] = <<>>
  /\ user[u].at = "idle" => typed[u].submitted = typed[u].installed + typed[u].refused

\* An image has what its users submitted, and their mirrors have the image.
FrontFollows == InstalledIsSubmitted /\ MirrorFollows
=============================================================================
