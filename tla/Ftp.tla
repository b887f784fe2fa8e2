--------------------------------- MODULE Ftp ---------------------------------
(* The two FTP faces of net/transport/ftp: the dialogue on the control stream *)
(* and the data stream each transfer opens, by PASV or by PORT.  A file is a  *)
(* sequence of chunks; a control line is one message, a reply its code.  Any  *)
(* operation of a data stream may refuse, Faults times (a deadline, a reset). *)
EXTENDS Integers, Sequences

CONSTANTS
  Names, File,  \* the names of the store, the content every file is given
  Secure,       \* both faces hold a TLS config: a data stream is wrapped
  MaxCalls, Faults,
  None

VARIABLES
  files,   \* name -> chunks, what the server's store holds
  client,  \* [at, verb, name, active, end, got, result]
  server,  \* [at, verb, name, listener, target, end, got]
  up, down,  \* the commands and the replies on the control stream
  ends,    \* data endpoint -> [state, wire, closed, hands]
  calls,
  faults   \* face -> how often a data stream has refused it

vars == <<files, client, server, up, down, ends, calls, faults>>

\* A data endpoint: a listener, and the one stream made to it. closed: the
\* faces that closed their end; hands: the faces inside their TLS handshake.
Listening == [state |-> "listening", wire |-> <<>>, closed |-> {}, hands |-> {}]

Shut(e, k) ==  \* closing a listener drops a stream still waiting in its backlog
  IF k = None \/ e[k].state = "accepted" THEN e
  ELSE [e EXCEPT ![k].state = IF @ = "dialled" THEN "reset" ELSE "closed"]

CloseEnd(e, k, face) == [e EXCEPT ![k].closed = @ \cup {face}]

Dial(k) == ends[k].state = "listening"
Wrapped(k) == Secure => ends[k].hands = {"client", "server"}
May == faults["client"] + faults["server"] < Faults
Other(face) == IF face = "client" THEN "server" ELSE "client"

\* What reading and writing a data stream can give a face.
Chunk(k) == ends[k].wire # <<>> /\ ends[k].state # "reset"
AtEnd(k, face) == ends[k].wire = <<>> /\ Other(face) \in ends[k].closed
Refusal(k, face) ==
  IF ends[k].state = "reset" THEN UNCHANGED faults
  ELSE May /\ faults' = [faults EXCEPT ![face] = @ + 1]

----------------------------------------------------------------------------
(* The client *)

Say(verb, arg) == up' = Append(up, [verb |-> verb, arg |-> arg])
Hear == down # <<>> /\ down' = Tail(down)
Back(c) == [c EXCEPT !.at = "idle", !.end = None, !.got = <<>>]

Command(verb) ==  \* NOOP, an unknown verb, USER, QUIT
  /\ client.at = "idle" /\ calls < MaxCalls
  /\ Say(verb, None) /\ calls' = calls + 1
  /\ client' = [client EXCEPT !.at = "reply", !.verb = verb, !.result = None]
  /\ UNCHANGED <<files, server, down, ends, faults>>

\* A login that does not wait for the answer to its password.
AnsweredEarly ==
  /\ client.at = "reply" /\ Hear
  /\ IF client.verb = "USER" /\ Head(down).code = 331
       THEN Say("PASS", None) /\ client' = [client EXCEPT !.at = "idle"]
       ELSE /\ client' = [client EXCEPT !.at = IF client.verb = "QUIT" THEN "gone" ELSE "idle"]
            /\ UNCHANGED up
  /\ UNCHANGED <<files, server, ends, calls, faults>>

Answered ==
  /\ client.at = "reply" /\ Hear
  /\ IF client.verb = "USER" /\ Head(down).code = 331
       THEN Say("PASS", None) /\ client' = [client EXCEPT !.verb = "PASS"]
       ELSE /\ client' = [client EXCEPT !.at = IF client.verb = "QUIT" THEN "gone" ELSE "idle"]
            /\ UNCHANGED up
  /\ UNCHANGED <<files, server, ends, calls, faults>>

Close ==
  /\ client.at = "idle" /\ client' = [client EXCEPT !.at = "gone"]
  /\ Say("EOF", None)
  /\ UNCHANGED <<files, server, down, ends, calls, faults>>

Transfer(verb, name, active) ==
  /\ client.at = "idle" /\ calls < MaxCalls /\ calls' = calls + 1
  /\ ends' = IF active THEN Append(ends, Listening) ELSE ends
  /\ LET k == IF active THEN Len(ends) + 1 ELSE None IN
     /\ client' = [at |-> "endpoint", verb |-> verb, name |-> name, active |-> active,
                   end |-> k, got |-> <<>>, result |-> None]
     /\ IF active THEN Say("PORT", k) ELSE Say("PASV", None)
  /\ UNCHANGED <<files, server, down, faults>>

Endpoint ==
  /\ client.at = "endpoint" /\ Hear
  /\ LET r == Head(down)
         k == IF client.active THEN client.end ELSE r.end
         stands == IF client.active THEN r.code = 200 ELSE r.code = 227 /\ Dial(k)
     IN IF stands
        THEN /\ client' = [client EXCEPT !.at = IF ~client.active /\ Secure THEN "wrap" ELSE "begin",
                                         !.end = k]
             /\ ends' = IF client.active THEN ends
                        ELSE [ends EXCEPT ![k].state = "dialled",
                                          ![k].hands = IF Secure THEN {"client"} ELSE {}]
             /\ IF ~client.active /\ Secure THEN UNCHANGED up ELSE Say(client.verb, client.name)
        ELSE client' = Back(client) /\ ends' = Shut(ends, client.end) /\ UNCHANGED up
  /\ UNCHANGED <<files, server, calls, faults>>

Moving(c) == [c EXCEPT !.at = IF c.verb = "RETR" THEN "read" ELSE "write"]

\* The client waits inside its handshake: before the verb when passive, after
\* accepting when active.
ClientWrapped ==
  /\ client.at = "wrap" /\ Wrapped(client.end)
  /\ IF client.active THEN client' = Moving(client) /\ UNCHANGED up
     ELSE client' = [client EXCEPT !.at = "begin"] /\ Say(client.verb, client.name)
  /\ UNCHANGED <<files, server, down, ends, calls, faults>>

Begin ==
  /\ client.at = "begin" /\ Hear
  /\ IF Head(down).code = 150
     THEN /\ client' = IF client.active THEN [client EXCEPT !.at = "accept"] ELSE Moving(client)
          /\ UNCHANGED ends
     ELSE /\ client' = Back(client)  \* a passive stream is left open behind the refusal
          /\ ends' = IF client.active THEN Shut(ends, client.end) ELSE ends
  /\ UNCHANGED <<files, server, up, calls, faults>>

ClientAccept ==
  /\ client.at = "accept" /\ ends[client.end].state = "dialled"
  /\ ends' = [ends EXCEPT ![client.end].state = "accepted",
                          ![client.end].hands = IF Secure THEN @ \cup {"client"} ELSE @]
  /\ client' = IF Secure THEN [client EXCEPT !.at = "wrap"] ELSE Moving(client)
  /\ UNCHANGED <<files, server, up, down, calls, faults>>

ClientEnds(c) ==  \* the stream closed, and the listener of an active transfer
  /\ ends' = CloseEnd(ends, client.end, "client") /\ client' = c

Read ==
  /\ client.at = "read"
  /\ \/ /\ Chunk(client.end)
        /\ client' = [client EXCEPT !.got = Append(@, Head(ends[client.end].wire))]
        /\ ends' = [ends EXCEPT ![client.end].wire = Tail(@)] /\ UNCHANGED faults
     \/ /\ AtEnd(client.end, "client") /\ ends[client.end].state # "reset"
        /\ ClientEnds([client EXCEPT !.at = "final"]) /\ UNCHANGED faults
     \/ Refusal(client.end, "client") /\ ClientEnds(Back(client))
  /\ UNCHANGED <<files, server, up, down, calls>>

Write ==
  /\ client.at = "write"
  /\ \/ /\ client.got # File /\ ends[client.end].state # "reset"
        /\ client' = [client EXCEPT !.got = Append(@, File[Len(@) + 1])]
        /\ ends' = [ends EXCEPT ![client.end].wire = Append(@, File[Len(client.got) + 1])]
        /\ UNCHANGED faults
     \/ client.got = File /\ ClientEnds([client EXCEPT !.at = "final"]) /\ UNCHANGED faults
     \/ client.got # File /\ Refusal(client.end, "client") /\ ClientEnds(Back(client))
  /\ UNCHANGED <<files, server, up, down, calls>>

Final ==
  /\ client.at = "final" /\ Hear
  /\ client' = IF Head(down).code = 226 /\ client.verb = "RETR"
               THEN [Back(client) EXCEPT !.result = client.got] ELSE Back(client)
  /\ UNCHANGED <<files, server, up, ends, calls, faults>>

----------------------------------------------------------------------------
(* The server *)

Answer(code) == down' = Append(down, [code |-> code, end |-> None])
Cleared(s) == [s EXCEPT !.at = "idle", !.listener = None, !.target = None,
                        !.end = None, !.got = <<>>]

\* _data: where the stream of the transfer comes from.
OpenData(s) ==
  IF s.listener # None
    THEN server' = [s EXCEPT !.at = "accept", !.end = s.listener] /\ UNCHANGED <<down, ends>>
  ELSE IF s.target # None /\ Dial(s.target)
    THEN /\ server' = [s EXCEPT !.at = IF Secure THEN "wrap" ELSE s.verb, !.end = s.target]
         /\ ends' = [ends EXCEPT ![s.target].state = "dialled",
                                 ![s.target].hands = IF Secure THEN {"server"} ELSE {}]
         /\ IF Secure THEN UNCHANGED down ELSE Answer(150)
  ELSE /\ server' = s /\ Answer(IF s.target # None THEN 425 ELSE 503) /\ UNCHANGED ends

Simple == [USER |-> 331, PASS |-> 230, NOOP |-> 200, SITE |-> 502]

ReadCommand ==
  /\ server.at = "idle" /\ up # <<>> /\ up' = Tail(up)
  /\ LET c == Head(up) IN
     CASE c.verb \in DOMAIN Simple ->
            Answer(Simple[c.verb]) /\ UNCHANGED <<server, ends>>
       [] c.verb \in {"QUIT", "EOF"} ->
            /\ server' = [Cleared(server) EXCEPT !.at = "over"]
            /\ ends' = Shut(ends, server.listener)
            /\ IF c.verb = "QUIT" THEN Answer(221) ELSE UNCHANGED down
       [] c.verb = "PASV" ->
            /\ ends' = Append(Shut(ends, server.listener), Listening)
            /\ server' = [Cleared(server) EXCEPT !.listener = Len(ends) + 1]
            /\ down' = Append(down, [code |-> 227, end |-> Len(ends) + 1])
       [] c.verb = "PORT" ->
            /\ ends' = Shut(ends, server.listener)
            /\ server' = [Cleared(server) EXCEPT !.target = c.arg] /\ Answer(200)
       [] c.verb = "RETR" /\ c.arg \notin DOMAIN files ->
            Answer(550) /\ UNCHANGED <<server, ends>>
       [] OTHER -> OpenData([server EXCEPT !.verb = c.verb, !.name = c.arg])
  /\ UNCHANGED <<files, client, calls, faults>>

ServerAccept ==
  /\ server.at = "accept" /\ ends[server.end].state = "dialled"
  /\ ends' = [ends EXCEPT ![server.end].state = "accepted",
                          ![server.end].hands = IF Secure THEN @ \cup {"server"} ELSE @]
  /\ server' = [server EXCEPT !.at = IF Secure THEN "wrap" ELSE server.verb]
  /\ IF Secure THEN UNCHANGED down ELSE Answer(150)
  /\ UNCHANGED <<files, client, up, calls, faults>>

ServerWrapped ==
  /\ server.at = "wrap" /\ Wrapped(server.end)
  /\ server' = [server EXCEPT !.at = server.verb] /\ Answer(150)
  /\ UNCHANGED <<files, client, up, ends, calls, faults>>

\* A transfer that leaves its data stream open.
FinishOpen(code) ==
  ends' = Shut(ends, server.listener) /\ server' = Cleared(server) /\ Answer(code)

Finish(code) ==  \* the stream closed, the channel state cleared, the last reply
  /\ ends' = Shut(CloseEnd(ends, server.end, "server"), server.listener)
  /\ server' = Cleared(server) /\ Answer(code)

Send ==
  /\ server.at = "RETR"
  /\ LET whole == files[server.name] IN
     \/ /\ server.got # whole /\ ends[server.end].state # "reset"
        /\ server' = [server EXCEPT !.got = Append(@, whole[Len(@) + 1])]
        /\ ends' = [ends EXCEPT ![server.end].wire = Append(@, whole[Len(server.got) + 1])]
        /\ UNCHANGED <<down, faults>>
     \/ server.got = whole /\ Finish(226) /\ UNCHANGED faults
     \/ server.got # whole /\ Refusal(server.end, "server") /\ Finish(426)
  /\ UNCHANGED <<files, client, up, calls>>

Receive ==
  /\ server.at = "STOR"
  /\ \/ /\ Chunk(server.end)
        /\ server' = [server EXCEPT !.got = Append(@, Head(ends[server.end].wire))]
        /\ ends' = [ends EXCEPT ![server.end].wire = Tail(@)] /\ UNCHANGED <<files, down, faults>>
     \/ /\ AtEnd(server.end, "server") /\ ends[server.end].state # "reset"
        /\ files' = [n \in DOMAIN files \cup {server.name} |->
                       IF n = server.name THEN server.got ELSE files[n]]
        /\ Finish(226) /\ UNCHANGED faults
     \/ Refusal(server.end, "server") /\ Finish(426) /\ UNCHANGED files
  /\ UNCHANGED <<client, up, calls>>

----------------------------------------------------------------------------

Init ==
  /\ files = [n \in {CHOOSE n \in Names : TRUE} |-> File]
  /\ client = [at |-> "reply", verb |-> "CONNECT", name |-> None, active |-> FALSE,
               end |-> None, got |-> <<>>, result |-> None]
  /\ server = [at |-> "idle", verb |-> None, name |-> None, listener |-> None,
               target |-> None, end |-> None, got |-> <<>>]
  /\ up = <<>> /\ down = <<[code |-> 220, end |-> None]>>
  /\ ends = <<>> /\ calls = 0 /\ faults = [client |-> 0, server |-> 0]

ClientStep ==
  Answered \/ Endpoint \/ ClientWrapped \/ Begin \/ ClientAccept \/ Read \/ Write \/ Final
ServerStep == ReadCommand \/ ServerAccept \/ ServerWrapped \/ Send \/ Receive
Call ==
  \/ \E verb \in {"NOOP", "SITE", "USER", "QUIT"} : Command(verb)
  \/ \E verb \in {"RETR", "STOR"}, n \in Names, active \in BOOLEAN : Transfer(verb, n, active)
  \/ Close

Next == ClientStep \/ ServerStep \/ Call

\* A face keeps going; no refusal is owed.
Fairness ==
  WF_vars(ClientStep /\ UNCHANGED faults) /\ WF_vars(ServerStep /\ UNCHANGED faults)
Spec == Init /\ [][Next]_vars /\ Fairness

----------------------------------------------------------------------------
(* Properties *)

\* Unless a data stream refused it, a client between two calls has heard the reply
\* to everything it said, whatever the server's ends did: the next reply it reads
\* is the next command's.
RepliesInStep == faults["client"] = 0 /\ client.at = "idle" => up = <<>> /\ down = <<>>

\* And what moves is moved whole: a file RETR returns, every file the server has.
WholeFiles ==
  faults["client"] = 0 =>
    client.result \in {None, File} /\ \A n \in DOMAIN files : files[n] = File

\* While no data stream refuses it, every call of the client comes back.
CallsReturn == client.at \notin {"idle", "gone"} ~> client.at \in {"idle", "gone"} \/ faults["client"] > 0

\* A dialogue never slips by a reply, and what it transfers is whole.
DialogueHolds == RepliesInStep /\ WholeFiles
=============================================================================
