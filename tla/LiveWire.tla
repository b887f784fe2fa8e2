------------------------------- MODULE LiveWire -------------------------------
(* Clients of one live image (live/client.py) over its two rings or a serial  *)
(* line (live/link.py).  A job dumps the image and applies one delta compiled *)
(* against the dump.  On the rings a call pumps the image itself, behind the  *)
(* gate of the segment; a Bare client takes it per call, any other around its *)
(* whole job.  On the line the image serves when it likes, bytes may be lost. *)
(* Beside it the framing below the line (live/frames.py) over bytes that may   *)
(* be damaged: a header with a magic and a length, a payload, a check over     *)
(* both.  Header and trailer are one token each, a check is the tokens it was  *)
(* made over.  The two share no state.                                         *)
EXTENDS Integers, Sequences, SequencesExt, FiniteSets

CONSTANTS
  Clients, Bare,
  Pages,     \* the frames a dump and a staged delta take
  Room,      \* the arena units one more delta needs
  MaxJobs, MaxCrashes, MaxLost,
  Payloads, MaxPayload, MaxFrames, MaxDamage, MaxFed,
  None

VARIABLES
  mode,    \* "rings" or "line"
  gate,    \* who holds the lock of the segment
  rx, tx,  \* the frames on their way to the image and back
  image,   \* [world, stage, staged, dump, committed, ask]
  client,  \* client -> [at, op, k, base, seq, late, last, result, jobs]
  crashed, lost,
  line, sent, buffer, got, skipped, damaged, fed  \* of the framing

vars == <<mode, gate, rx, tx, image, client, crashed, lost>>

----------------------------------------------------------------------------
(* The image: what it does with one frame.  Its world is the sequence of the  *)
(* deltas it took, a delta is named by the client that compiled it.           *)

\* from and job say who asked: the program has the number of the frame alone.
Frame(c, m, seq, body) ==
  [from |-> c, job |-> m.jobs, op |-> m.op, k |-> m.k, seq |-> seq, body |-> body]
Answer(f, status, body) ==
  [from |-> f.from, job |-> f.job, op |-> f.op, seq |-> f.seq, status |-> status, body |-> body]

Needs(i) == Room * (Len(i.world) + 1)
Verdict(i, f) ==
  CASE i.staged < Pages \/ \E k \in 1..Pages : i.stage[k] # f.from -> "mismatch"
    [] f.body # i.world -> "base"
    [] Needs(i) > i.committed -> "room"
    [] OTHER -> "ok"

Does(i, f) ==
  CASE f.op = "EMIT" -> [i EXCEPT !.dump = i.world]
    [] f.op = "STAGE_RESET" -> [i EXCEPT !.staged = 0]  \* the bytes stay
    [] f.op = "STAGE_WRITE" -> [i EXCEPT !.stage[f.k] = f.from, !.staged = IF f.k > @ THEN f.k ELSE @]
    [] f.op = "STAGE_COMMIT" ->
         LET world == IF Verdict(i, f) = "ok" THEN Append(i.world, f.from) ELSE i.world IN
         [i EXCEPT !.world = world, !.dump = IF Verdict(i, f) = "mismatch" THEN @ ELSE world,
                   !.ask = IF Verdict(i, f) = "room" THEN Needs(i) ELSE @]
    [] f.op = "GROW" -> [i EXCEPT !.committed = f.k, !.ask = 0]
    [] OTHER -> i

Says(i, f) ==
  Answer(f, IF f.op = "STAGE_COMMIT" THEN Verdict(i, f) ELSE "ok",
         CASE f.op = "EMIT" -> i.world [] f.op = "EMIT_READ" -> i.dump [] OTHER -> <<>>)

Serves(s, f) == [image |-> Does(s.image, f), tx |-> Append(s.tx, Says(s.image, f))]
Pumped ==  \* every frame in the ring, in order
  LET after[n \in 0..Len(rx)] ==
        IF n = 0 THEN [image |-> image, tx |-> tx] ELSE Serves(after[n - 1], rx[n])
  IN after[Len(rx)]

----------------------------------------------------------------------------
(* A client: one call after the other *)

Holds(c) == gate = c
Inside(c) == mode = "line" \/ gate \in {None, c}

Begin(c) ==
  /\ client[c].at = "idle" /\ client[c].jobs < MaxJobs
  /\ c \in Bare \/ Inside(c)
  /\ gate' = IF c \in Bare \/ mode = "line" THEN gate ELSE c
  /\ client' = [client EXCEPT ![c].at = "call", ![c].op = "EMIT", ![c].result = None,
                              ![c].last = None, ![c].jobs = @ + 1]
  /\ UNCHANGED <<mode, rx, tx, image, crashed, lost>>

Body(c) == IF client[c].op = "STAGE_COMMIT" THEN client[c].base ELSE <<>>

Send(c) ==
  /\ client[c].at = "call" /\ Inside(c)
  /\ gate' = IF mode = "line" THEN gate ELSE c
  /\ rx' = Append(rx, Frame(c, client[c], client[c].seq + 1, Body(c)))
  /\ client' = [client EXCEPT ![c].at = "wait", ![c].seq = @ + 1]
  /\ UNCHANGED <<mode, tx, image, crashed, lost>>

Wanted(c) == {a \in client[c].late : a.seq = client[c].seq}

Pump(c) ==
  /\ client[c].at = "wait" /\ Wanted(c) = {} /\ mode = "rings" /\ rx # <<>>
  /\ \E done \in {Pumped} : image' = done.image /\ tx' = done.tx
  /\ rx' = <<>>
  /\ UNCHANGED <<mode, gate, client, crashed, lost>>

\* Everything in the ring comes, whoever asked for it; a number is kept once.
Kept(late, answers) ==
  ToSet(answers) \cup {a \in late : \A b \in ToSet(answers) : b.seq # a.seq}
Read(c) ==
  /\ client[c].at = "wait" /\ Wanted(c) = {} /\ tx # <<>>
  /\ client' = [client EXCEPT ![c].late = Kept(@, tx)]
  /\ tx' = <<>>
  /\ UNCHANGED <<mode, gate, rx, image, crashed, lost>>

\* The job ends, with its gate; what is late stays.
Ends(m, result) == [m EXCEPT !.at = "idle", !.result = result]
Next1(m, op, k) == [m EXCEPT !.at = "call", !.op = op, !.k = k]

\* A line does not show what the image asked for.
Refused(m, status) ==
  IF mode = "rings" /\ image.ask > image.committed THEN Next1(m, "GROW", image.ask) ELSE Ends(m, status)

\* Where an answer takes the job.
After(m, a) ==
  CASE a.op # m.op -> Ends(m, "BadFrame")
    [] m.op = "EMIT" -> Next1([m EXCEPT !.base = a.body], "EMIT_READ", 1)
    [] m.op = "EMIT_READ" ->
         IF a.body # m.base THEN Ends(m, "mismatch")
         ELSE IF m.k < Pages THEN Next1(m, "EMIT_READ", m.k + 1) ELSE Next1(m, "STAGE_RESET", 0)
    [] m.op \in {"STAGE_RESET", "STAGE_WRITE"} ->
         LET k == IF m.op = "STAGE_RESET" THEN 0 ELSE m.k
         IN IF k < Pages THEN Next1(m, "STAGE_WRITE", k + 1) ELSE Next1(m, "STAGE_COMMIT", 0)
    [] m.op = "GROW" -> Next1(m, "STAGE_RESET", 0)
    [] OTHER -> IF a.status \in {"room", "base"} THEN Refused(m, a.status) ELSE Ends(m, a.status)

LeavesPerCall(c, m) == IF Holds(c) THEN None ELSE gate  \* no transaction
Leaves(c, m) == IF Holds(c) /\ (c \in Bare \/ m.at = "idle") THEN None ELSE gate
Take(c) ==
  /\ client[c].at = "wait"
  /\ \E a \in Wanted(c) :
       \E m \in {After([client[c] EXCEPT !.late = @ \ {a}, !.last = a], a)} :
         client' = [client EXCEPT ![c] = m] /\ gate' = Leaves(c, m)
  /\ UNCHANGED <<mode, rx, tx, image, crashed, lost>>

\* No answer before the deadline: on the line alone, the pump always answers.
Timeout(c) ==
  /\ client[c].at = "wait" /\ mode = "line" /\ Wanted(c) = {}
  /\ client' = [client EXCEPT ![c] = Ends(@, "timeout")]
  /\ UNCHANGED <<mode, gate, rx, tx, image, crashed, lost>>

Serve ==
  /\ mode = "line" /\ rx # <<>>
  /\ image' = Does(image, Head(rx)) /\ tx' = Append(tx, Says(image, Head(rx)))
  /\ rx' = Tail(rx)
  /\ UNCHANGED <<mode, gate, client, crashed, lost>>

\* A damaged frame: its reader skips it, a byte at a time.
Lose ==
  /\ mode = "line" /\ lost < MaxLost /\ lost' = lost + 1
  /\ \/ rx # <<>> /\ rx' = Tail(rx) /\ UNCHANGED tx
     \/ tx # <<>> /\ tx' = Tail(tx) /\ UNCHANGED rx
  /\ UNCHANGED <<mode, gate, image, client, crashed>>

\* The process dies: its lock goes with it, its frames stay in the rings.
Crash(c) ==
  /\ mode = "rings" /\ crashed < MaxCrashes /\ client[c].at \in {"call", "wait"}
  /\ crashed' = crashed + 1
  /\ client' = [client EXCEPT ![c].at = "dead"]
  /\ gate' = IF Holds(c) THEN None ELSE gate
  /\ UNCHANGED <<mode, rx, tx, image, lost>>

----------------------------------------------------------------------------

Idle == [at |-> "idle", op |-> None, k |-> 0, base |-> <<>>, seq |-> 0, late |-> {},
         last |-> None, result |-> None, jobs |-> 0]
Init ==
  /\ mode \in {"rings", "line"}
  /\ gate = None /\ rx = <<>> /\ tx = <<>> /\ crashed = 0 /\ lost = 0
  /\ image = [world |-> <<>>, stage |-> [k \in 1..Pages |-> None], staged |-> 0,
              dump |-> <<>>, committed |-> Room, ask |-> 0]
  /\ client = [c \in Clients |-> Idle]

\* The line has one client: the descriptor is its own.
First == CHOOSE c \in Clients : TRUE
Step(c) == Send(c) \/ Pump(c) \/ Read(c) \/ Take(c) \/ Timeout(c)
Next ==
  \/ \E c \in IF mode = "line" THEN {First} ELSE Clients : Begin(c) \/ Step(c) \/ Crash(c)
  \/ Serve \/ Lose

Fairness == \A c \in Clients : WF_vars(Step(c))
Spec == Init /\ [][Next]_vars /\ Fairness

----------------------------------------------------------------------------

\* An answer a client takes answers its own request, of this call: whatever
\* was late, lost or asked by another client of the same rings.
OwnAnswer == crashed = 0 =>
  \A c \in Clients : client[c].last # None =>
    client[c].last.from = c /\ client[c].last.job = client[c].jobs

\* "Requests are answered one at a time; the answer carries the sequence number
\* of the request" (client.py) - also when another process died inside a call.
AnswersOwnRequests == \A c \in Clients : client[c].last # None => client[c].last.from = c

\* A job inside one transaction finds its stage whole and its base unmoved: it
\* is never refused for another's request landing inside it.
TransactionsHold == crashed = 0 => \A c \in Clients \ Bare : client[c].result \notin {"mismatch", "base"}

\* A job told "ok" was applied, and one on the rings, where room can be had, is
\* not refused for it.
ToldIsDone == crashed = 0 => \A c \in Clients :
  /\ client[c].result = "ok" => Contains(image.world, c)
  /\ mode = "rings" => client[c].result # "room"

\* Every job that begins ends, or its process died.
JobsEnd == \A c \in Clients : client[c].at = "call" ~> client[c].at \in {"idle", "dead"}

----------------------------------------------------------------------------
(* The framing *)

Magic(n) == <<"magic", n>>
Byte(x) == <<"byte", x>>
Noise == <<"byte", 0>>
Check(body) == <<"check", body>>

\* A payload may hold what looks like a header.
Encode(payload) ==
  LET body == <<Magic(Len(payload))>> \o payload IN body \o <<Check(body)>>

SendFrame(payload) ==
  /\ Len(sent) < MaxFrames /\ Len(payload) <= MaxPayload
  /\ line' = line \o Encode(payload)
  /\ sent' = Append(sent, [payload |-> payload, from |-> fed + Len(line),
                          bytes |-> Encode(payload)])
  /\ UNCHANGED <<buffer, got, skipped, damaged, fed>>

Covers(s, k) == k > s.from /\ k <= s.from + Len(s.payload) + 2
Damage(k, into) ==
  /\ damaged < MaxDamage /\ damaged' = damaged + 1
  /\ k \in DOMAIN line /\ line[k] # into /\ line' = [line EXCEPT ![k] = into]
  /\ sent' = [i \in DOMAIN sent |->
                IF Covers(sent[i], fed + k)
                THEN [sent[i] EXCEPT !.bytes[fed + k - sent[i].from] = into] ELSE sent[i]]
  /\ UNCHANGED <<buffer, got, skipped, fed>>

----------------------------------------------------------------------------
(* Decoder.feed *)

IsHeader(t) == t[1] = "magic" /\ t[2] <= MaxPayload
Total(b) == b[1][2] + 2
Waits(b) == IF Len(b) < 2 THEN TRUE ELSE IF IsHeader(b[1]) THEN Len(b) < Total(b) ELSE FALSE

\* One turn of the loop: a byte is skipped, or a frame is taken.
Valid(b) == b[Total(b)] = Check(SubSeq(b, 1, Total(b) - 1))
SkippedFrame(b) == SubSeq(b, IF IsHeader(b[1]) THEN Total(b) + 1 ELSE 2, Len(b))
Skipped(b) == Tail(b)  \* one byte, also of what only looked like a frame

Turn ==
  /\ ~Waits(buffer)
  /\ IF IsHeader(buffer[1]) /\ Valid(buffer)
     THEN /\ got' = Append(got, SubSeq(buffer, 2, Total(buffer) - 1))
          /\ buffer' = SubSeq(buffer, Total(buffer) + 1, Len(buffer))
          /\ UNCHANGED skipped
     ELSE buffer' = Skipped(buffer) /\ skipped' = skipped + 1 /\ UNCHANGED got
  /\ UNCHANGED <<line, sent, damaged, fed>>

Feed(n) ==
  /\ Waits(buffer) /\ n \in 1..Len(line)
  /\ buffer' = buffer \o SubSeq(line, 1, n) /\ line' = SubSeq(line, n + 1, Len(line))
  /\ fed' = fed + n
  /\ UNCHANGED <<sent, got, skipped, damaged>>

FramesInit ==
  /\ line = <<>> /\ sent = <<>> /\ buffer = <<>> /\ got = <<>>
  /\ skipped = 0 /\ damaged = 0 /\ fed = 0

FramesNext ==
  \/ \E p \in Payloads : SendFrame(p)
  \/ \E k \in DOMAIN line, into \in {Noise, Magic(1), Magic(MaxPayload + 1)} : Damage(k, into)
  \/ Turn \/ \E n \in 1..MaxFed : Feed(n)

\* What the decoder yields are the frames that came whole, in order, none made
\* up; once it waits for nothing, no whole frame was lost to damage beside it.
Whole == {i \in DOMAIN sent : sent[i].bytes = Encode(sent[i].payload)}
Rank(i) == Cardinality({j \in Whole : j <= i})
WholeFramesCome ==
  /\ Len(got) <= Cardinality(Whole)
  /\ \A i \in Whole : Rank(i) <= Len(got) => got[Rank(i)] = sent[i].payload
  /\ line = <<>> /\ Len(buffer) < 2 => Len(got) = Cardinality(Whole)
=============================================================================
