-------------------------------- MODULE Http ---------------------------------
(* One exchange after another between the two HTTP faces of                   *)
(* net/transport/http over the accept loop of stream.py: what each writes,    *)
(* what the other reads of it when the stream ends early, and which refusals  *)
(* end the server.  A line is one item of the stream; a header value is       *)
(* <<"count", n>> or <<"word", w>>, a name "split" holds a colon.             *)
EXTENDS Integers, Sequences

CONSTANTS
  Urls,       \* [scheme, host, port, tail]
  Requests,   \* [method, headers, body]
  Responses,  \* what a handler may answer: [status, version, headers, body]
  Routes,     \* the targets with a handler
  Hosts,      \* the hosts that answer a connect
  Secured,    \* the client holds a TLS config
  MaxBody, MaxAsks,
  None

VARIABLES
  client,   \* [at, sent, result]
  server,   \* [at, handled, answered]
  up, down, \* the items on the stream, None when no stream is open
  link,     \* "up", "eof" (an end closed early) or "reset"
  listening,
  asks

vars == <<client, server, up, down, link, listening, asks>>

----------------------------------------------------------------------------
(* The codec *)

Word(w) == <<"word", w>>
Count(n) == <<"count", n>>
Named(headers, name) == {i \in DOMAIN headers : headers[i].name = name}
Header(headers, name) ==
  IF Named(headers, name) = {} THEN None
  ELSE headers[CHOOSE i \in Named(headers, name) : \A j \in Named(headers, name) : i <= j].value

\* _render: every count the caller wrote agrees with the body, and a body
\* without one gets its own.
Renders(m) ==
  \A i \in DOMAIN m.headers :
    /\ m.headers[i].name = "content-length" => m.headers[i].value = Count(Len(m.body))
    /\ m.headers[i].name # "newline"
Rendered(m) ==
  IF m.body # <<>> /\ Header(m.headers, "content-length") = None
  THEN Append(m.headers, [name |-> "content-length", value |-> Count(Len(m.body))])
  ELSE m.headers

Writes(m, start) ==
  <<<<"start", start>>>> \o [i \in DOMAIN Rendered(m) |-> <<"header", Rendered(m)[i]>>]
    \o <<<<"blank">>>> \o [i \in DOMAIN m.body |-> <<"byte", m.body[i]>>]

RequestStands(r) == r.method # "" /\ r.method # "two words" /\ Renders(r)
ResponseStands(r) == r.status \in 100..599 /\ Renders(r)

\* A line is split at its first colon, and its value stripped.
Split(h) ==
  IF h.name = "split" THEN [name |-> "x", value |-> Word("rest")]
  ELSE IF h.value = Word("padded") THEN [h EXCEPT !.value = Word("plain")] ELSE h

Blank(items) == {i \in DOMAIN items : items[i] = <<"blank">>}
HeadEnd(items) == CHOOSE i \in Blank(items) : TRUE
HeadersOf(items) == [i \in 1..HeadEnd(items) - 2 |-> Split(items[i + 1][2])]
HeadStands(items) == \A i \in 2..HeadEnd(items) - 1 : items[i][2].name \notin {"", " padded"}

ReadExact(items, size) == SubSeq(items, HeadEnd(items) + 1, HeadEnd(items) + size)
Available(items) == Len(items) - HeadEnd(items)

\* A body that is what had arrived when the stream ended.
ReadBodyShort(items) ==
  LET length == Header(HeadersOf(items), "content-length") IN
  IF length = None THEN <<"body", <<>>>>
  ELSE <<"body", [i \in 1..Available(items) |-> ReadExact(items, Available(items))[i][2]]>>

\* _read_body, on the headers as they were read.
ReadBody(items) ==
  LET headers == HeadersOf(items)
      coding == Header(headers, "transfer-encoding")
      length == Header(headers, "content-length")
  IN IF coding # None /\ coding # Word("identity") THEN <<"unsupported">>
     ELSE IF length = None THEN <<"body", <<>>>>
     ELSE IF length[1] # "count" THEN <<"malformed">>
     ELSE IF length[2] < 0 THEN <<"malformed">>
     ELSE IF length[2] > MaxBody THEN <<"long">>
     ELSE IF Available(items) < length[2] THEN <<"malformed">>
     ELSE <<"body", [i \in 1..length[2] |-> ReadExact(items, length[2])[i][2]]>>

\* read_request and read_response: nothing, a refusal, or the message.
Reads(items, startStands) ==
  IF items = <<>> THEN <<"nothing">>
  ELSE IF Blank(items) = {} THEN <<"malformed">>
  ELSE IF ~HeadStands(items) \/ ~startStands THEN <<"malformed">>
  ELSE IF ReadBody(items)[1] # "body" THEN ReadBody(items)
  ELSE <<"message", [start |-> items[1][2], headers |-> HeadersOf(items),
                     body |-> ReadBody(items)[2]]>>

RequestLine(start) == TRUE  \* the writer refused every line of another shape
StatusLine(start) == start.version = "HTTP/1.1"

----------------------------------------------------------------------------
(* parse_url *)

Port(url) ==
  IF url.port # None THEN url.port ELSE IF url.scheme = "https" THEN 443 ELSE 80
Target(url) == IF url.tail = None THEN "/" ELSE url.tail
UrlStands(url) ==
  /\ url.scheme \in {"http", "https"}
  /\ url.host \notin {"", "bare v6", "unclosed"} /\ Port(url) \in 0..65535

----------------------------------------------------------------------------
(* The exchange *)

\* Client.request up to the wait for the answer: a refusal opens nothing, or
\* closes the stream before anything is written on it.
Ask(url, r) ==
  /\ client.at = "idle" /\ up = None /\ asks < MaxAsks /\ asks' = asks + 1
  /\ LET start == [method |-> r.method, target |-> Target(url)]
         opens == /\ UrlStands(url) /\ (url.scheme = "https" => Secured)
                  /\ url.host \in Hosts /\ listening
     IN /\ client' = IF opens /\ RequestStands(r)
                     THEN [at |-> "asked", sent |-> [start |-> start, body |-> r.body], result |-> None]
                     ELSE [at |-> "idle", sent |-> None, result |-> <<"refused">>]
        /\ IF opens
           THEN /\ up' = (IF RequestStands(r) THEN Writes(r, start) ELSE <<>>) /\ down' = <<>>
                /\ link' = IF RequestStands(r) THEN "up" ELSE "eof"
                /\ server' = IF server.at = "waiting" THEN [server EXCEPT !.at = "accepting"] ELSE server
           ELSE UNCHANGED <<server, up, down, link>>
  /\ UNCHANGED listening

\* The stream ends early: what was not yet read of either direction is cut.
Cut(how) ==
  /\ up # None /\ link = "up" /\ link' = how
  /\ \E n \in 0..Len(up), m \in 0..Len(down) :
       up' = SubSeq(up, 1, n) /\ down' = SubSeq(down, 1, m)
  /\ UNCHANGED <<client, server, listening, asks>>

Answer(r, handled) ==
  /\ server' = [server EXCEPT !.at = "closing", !.handled = handled, !.answered = r]
  /\ down' = Writes(r, [version |-> r.version, status |-> r.status])
Refused(status) == [status |-> status, version |-> "HTTP/1.1", headers |-> <<>>, body |-> <<>>]

\* A refusal that `handle` does not name leaves the accept loop with it.
Falls == server' = [server EXCEPT !.at = "ended"] /\ UNCHANGED down

\* accept_loop: the wait ends on a stream, which is accepted and handled.
Accept ==
  /\ server.at = "accepting" /\ server' = [server EXCEPT !.at = "serving"]
  /\ UNCHANGED <<client, up, down, link, listening, asks>>

Handle ==
  /\ server.at = "serving"
  /\ \E request \in {Reads(up, RequestLine(up[1][2]))} :
       IF link = "reset" THEN Falls
       ELSE CASE request[1] = "nothing" -> server' = [server EXCEPT !.at = "closing"] /\ UNCHANGED down
              [] request[1] = "malformed" -> Answer(Refused(400), None)
              [] request[1] = "long" -> Answer(Refused(413), None)
              [] request[1] = "unsupported" -> Answer(Refused(501), None)
              [] request[1] = "message" ->
                   IF request[2].start.target \notin Routes
                   THEN Answer(Refused(404), None)
                   ELSE \E r \in Responses :
                          IF ResponseStands(r) THEN Answer(r, request[2]) ELSE Falls
  /\ UNCHANGED <<client, up, link, listening, asks>>

\* accept_loop: the stream is closed and the loop goes round.
Round ==
  /\ server.at = "closing"
  /\ server' = [server EXCEPT !.at = IF listening THEN "waiting" ELSE "ended"]
  /\ UNCHANGED <<client, up, down, link, listening, asks>>

\* The wait of the loop is refused; a stream it has not accepted goes with it.
CloseListener ==
  /\ listening /\ listening' = FALSE
  /\ server' = IF server.at \in {"waiting", "accepting"} THEN [server EXCEPT !.at = "ended"] ELSE server
  /\ UNCHANGED <<client, up, down, link, asks>>

\* Client.request from the read to the close: the server is done with the stream.
Hear ==
  /\ client.at = "asked" /\ server.at \in {"waiting", "ended"}
  /\ client' = [client EXCEPT !.at = "idle",
                  !.result = IF link = "reset" THEN <<"refused">>
                             ELSE Reads(down, StatusLine(down[1][2]))]
  /\ up' = None /\ down' = None /\ link' = "none"
  /\ server' = [server EXCEPT !.handled = None, !.answered = None]
  /\ UNCHANGED <<listening, asks>>

\* The stream of a request that was refused, once the server is done with it.
Abandon ==
  /\ client.at = "idle" /\ up # None /\ server.at \in {"waiting", "ended"}
  /\ up' = None /\ down' = None /\ link' = "none"
  /\ UNCHANGED <<client, server, listening, asks>>

Init ==
  /\ client = [at |-> "idle", sent |-> None, result |-> None]
  /\ server = [at |-> "waiting", handled |-> None, answered |-> None]
  /\ up = None /\ down = None /\ link = "none" /\ listening = TRUE /\ asks = 0

Next ==
  \/ \E url \in Urls, r \in Requests : Ask(url, r)
  \/ \E how \in {"eof", "reset"} : Cut(how)
  \/ Accept \/ Handle \/ Round \/ CloseListener \/ Hear \/ Abandon

Spec == Init /\ [][Next]_vars

----------------------------------------------------------------------------
(* Properties *)

\* A handler runs on the request its client sent, whole, and a response the
\* client returns is the one written for it, status and body whole, wherever
\* the stream was cut.
ExchangesWhole ==
  /\ [](server.handled # None /\ client.sent # None =>
           server.handled.start = client.sent.start /\ server.handled.body = client.sent.body)
  /\ [][client.at = "asked" /\ client'.at = "idle" /\ client'.result[1] = "message" =>
          /\ client'.result[2].start.status = server.answered.status
          /\ client'.result[2].body = server.answered.body]_vars

\* The accept loop ends only once its listener is closed.
OnlyCloseStops == server.at = "ended" => ~listening
=============================================================================
