-------------------------------- MODULE MCLive --------------------------------
(* The parts of a host for TLC: the urls, messages and configurations that     *)
(* HostParts is given, with one thing unusual at a time, and images to load.   *)
EXTENDS HostParts

----------------------------------------------------------------------------
(* Messages *)

Url(s, h, p, t) == [scheme |-> s, host |-> h, port |-> p, tail |-> t]
MCUrls == {
  Url("http", "near", None, "/a"), Url("http", "near", 8080, None),
  Url("https", "near", None, "/a"), Url("ftp", "near", None, None),
  Url("http", "bare v6", None, None), Url("http", "near", 70000, None)}

Header(name, value) == [name |-> name, value |-> value]
Word(w) == <<"word", w>>
Count(n) == <<"count", n>>
Asked(method, headers, body) == [method |-> method, headers |-> headers, body |-> body]
MCRequests == {
  Asked("GET", <<>>, <<>>), Asked("two words", <<>>, <<>>),
  Asked("PUT", <<Header("x", Word("padded"))>>, <<"p", "q">>),
  Asked("PUT", <<Header("content-length", Count(1))>>, <<"p">>),
  Asked("PUT", <<Header("content-length", Count(2))>>, <<"p">>),
  Asked("PUT", <<>>, <<"p", "q", "r">>),
  Asked("GET", <<Header("", Word("plain"))>>, <<>>),
  Asked("GET", <<Header("transfer-encoding", Word("chunked"))>>, <<>>)}

Given(status, version, headers, body) ==
  [status |-> status, version |-> version, headers |-> headers, body |-> body]
MCResponses == {
  Given(200, "HTTP/1.1", <<>>, <<"p", "q">>), Given(204, "HTTP/1.1", <<>>, <<>>),
  Given(200, "HTTP/1.1", <<Header("split", Word("plain")), Header("content-length", Count(2))>>,
        <<"q", "q">>),
  Given(99, "HTTP/1.1", <<>>, <<>>), Given(200, "odd", <<>>, <<>>),
  Given(200, "HTTP/1.1", <<Header("newline", Word("plain"))>>, <<>>)}

----------------------------------------------------------------------------
(* The hello of this code and hellos that lack one thing each, servers with   *)
(* one thing wrong each.                                                      *)

Ours == [legacy |-> TRUE, tls13 |-> TRUE, refused |-> FALSE, suites |-> {"chacha20"},
         schemes |-> {"ed25519"}, groups |-> {"x25519"}, shares |-> "always"]

Offers == {
  [Ours EXCEPT !.legacy = FALSE], [Ours EXCEPT !.tls13 = FALSE],
  [Ours EXCEPT !.refused = TRUE], [Ours EXCEPT !.suites = {"aes128"}],
  [Ours EXCEPT !.schemes = {"rsa"}], [Ours EXCEPT !.shares = "retry"],
  [Ours EXCEPT !.shares = "never"],
  [Ours EXCEPT !.shares = "never", !.groups = {"p256"}]}

Certificate == [id |-> "voice", public |-> "k", signedBy |-> "k", subject |-> "host", issued |-> 2]
Good == [retries |-> 0, alpn |-> <<"h2", "ftp">>, name |-> "host",
         certificate |-> Certificate, key |-> "k"]

TlsServers == {
  [Good EXCEPT !.retries = 1], [Good EXCEPT !.retries = 2],
  [Good EXCEPT !.name = None, !.alpn = <<>>], [Good EXCEPT !.key = "other"],
  [Good EXCEPT !.certificate.id = "nobody"], [Good EXCEPT !.certificate.id = "revoked"],
  [Good EXCEPT !.certificate.public = "other", !.certificate.signedBy = "other"],
  [Good EXCEPT !.certificate.issued = 0], [Good EXCEPT !.certificate.issued = 4],
  [Good EXCEPT !.certificate.signedBy = "other"],
  [Good EXCEPT !.certificate.subject = "elsewhere"]}

Plainly == [alpn |-> <<>>, name |-> "host"]
TlsClients == {[alpn |-> <<"ftp", "h2">>, name |-> "host"], [alpn |-> <<"gopher">>, name |-> "host"],
              [alpn |-> <<>>, name |-> None], [alpn |-> <<>>, name |-> "elsewhere"]}

\* Three records hold the longest flight; two hold the client's, one holds none.
Wide == [client |-> 4, server |-> 4]
Narrow == {[client |-> c, server |-> s] : c \in 1..2, s \in 1..3}

\* One thing at a time is unusual, and the retries meet every hello and every room.
TlsCases == {
  [offers |-> Offers, servers |-> {Good, [Good EXCEPT !.retries = 1]}, clients |-> {Plainly},
   rooms |-> {Wide}],
  [offers |-> {Ours}, servers |-> TlsServers, clients |-> {Plainly}, rooms |-> {Wide}],
  [offers |-> {Ours}, servers |-> {Good, [Good EXCEPT !.name = None, !.alpn = <<>>]},
   clients |-> TlsClients, rooms |-> {Wide}],
  [offers |-> {Ours, [Ours EXCEPT !.shares = "retry"]},
   servers |-> {Good, [Good EXCEPT !.retries = 1, !.certificate.id = "revoked"]},
   clients |-> {Plainly}, rooms |-> Narrow]}

Roots == [voices |-> [v \in {"voice", "revoked"} |-> "k"], revoked |-> {"revoked"},
            now |-> 2, skew |-> 1, maxAge |-> 1]

----------------------------------------------------------------------------
(* The channel and the delta *)

MCTimeouts == {1, None}
MCFile == <<"x", "y">>
MCPayloads == {<<>>, << <<"byte", 1>> >>, << <<"magic", 1>>, <<"byte", 1>> >>}
MCPaths == {<<1>>, <<1, 1>>, <<2>>}

----------------------------------------------------------------------------
(* Images to load *)

\* Images with a type, its field, an object of it and a child, in any order of
\* their handles that keeps a type before its field.
Object(name, parent, type, payload, refs, built) ==
  [name |-> name, parent |-> parent, type |-> type, payload |-> payload, refs |-> refs, built |-> built]
Grounded == <<Object("", None, None, <<>>, {}, <<>>), Object("Type", 1, 2, <<>>, {}, <<>>),
              Object("Field", 1, 2, <<>>, {}, <<>>)>>
Numeral(n) == <<"word", n>>
Laid(order, kind, x, built, refers) ==
  LET of(i) ==
        CASE i = 1 -> Object("T", 1, 2, <<>>, {}, <<>>)
          [] i = 2 -> Object("f", order[1], 3, <<Numeral(kind)>>, {}, <<>>)
          [] i = 3 -> Object("x", 1, order[1],
                             CASE kind = 0 -> <<Numeral(1)>> [] kind = 1 -> << <<"ref", order[4]>> >> [] OTHER -> x,
                             {order[4]}, IF kind = 2 THEN built ELSE <<>>)
          [] i = 4 -> Object("y", order[3], None, x, IF refers THEN {order[1]} ELSE {}, <<>>)
  IN Grounded \o [k \in 1..4 |-> of(CHOOSE i \in 1..4 : order[i] = k + 3)]
Orders == {p \in [1..4 -> 4..7] :
             p[2] > p[1] /\ p[4] > p[3] /\ \A i, j \in 1..4 : i # j => p[i] # p[j]}
Loads == {Laid(order, kind, x, built, refers) :
            order \in Orders, kind \in 0..2, built \in {<<>>, <<Numeral(3)>>}, refers \in BOOLEAN,
            x \in {<<>>, <<Numeral(1)>>, <<Numeral(1), Numeral(0)>>, <<Numeral(1), Numeral(2)>>}}

----------------------------------------------------------------------------
(* Modules the image and the host have between them *)

MCDotted == {"p", "p.c", "p.d", "q", "q.c"}
Enclosing == [n \in Dotted |-> IF n \in {"p.c", "p.d"} THEN "p" ELSE IF n = "q.c" THEN "q" ELSE None]
OnHost == [n \in Dotted |-> IF n = "p" THEN "package" ELSE IF n = "p.d" THEN "module" ELSE "none"]
InImage == [i \in {"i", "j"} |-> [n \in Dotted |->
  CASE n \in {"p", "q"} -> "package" [] n = "p.c" -> "module"
    [] n = "q.c" -> (IF i = "i" THEN "module" ELSE "none") [] OTHER -> "unspelled"]]
=============================================================================
