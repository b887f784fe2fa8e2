--------------------------------- MODULE Tls ---------------------------------
(* The TLS 1.3 card (net/transport/tls): a client and a server, each a        *)
(* TlsStream over an inner stream whose socket buffer holds a few records. The *)
(* handshake with its HelloRetryRequest, the record protection, the alerts    *)
(* and the application data. Cryptography is symbolic: a key is named by its  *)
(* label, its shares and its transcript, and a seal opens under the same key  *)
(* and sequence number only. A call that raises half way keeps what it had    *)
(* changed: a call is a context [e, out, why] that stops moving once why is   *)
(* set. Hellos and servers other than this code's own are in Cases: a foreign     *)
(* client or server is a choice of the initial state.                         *)
EXTENDS Integers, Sequences, FiniteSets, SequencesExt

CONSTANTS
  MaxPending,   \* records pending at which write refuses
  MaxItem,      \* items each user writes
  MaxSeal,      \* bound on the records one protection seals
  Cases,        \* sets [offers, servers, clients, rooms] of hellos [legacy, tls13, refused,
                \* suites, schemes, groups, shares], of servers [retries, alpn, name,
                \* certificate, key], of clients [alpn, name], and of the records the
                \* socket buffer of each role holds
  Store,        \* the roots cell: [voices, revoked, now, skew, maxAge]
  None

Roles == {"client", "server"}
Peer(r) == IF r = "client" THEN "server" ELSE "client"

VARIABLES ep,    \* ep[r]: the state of a TlsStream
          chan,  \* chan[r]: the records on the wire to r
          fin,   \* fin[r]: the peer of r closed its end
          offer, server, client,   \* the configurations, chosen at the start
          item,  \* item[r]: the next item the user writes
          got    \* got[r]: what the user read

vars == <<ep, chan, fin, offer, server, client, item, got>>

NewStream(r, room) ==
  [room |-> room, state |-> IF r = "client" THEN "wait_hello" ELSE "wait_ch", stage |-> 0,
   send |-> None, recv |-> None, transcript |-> <<>>, pending |-> <<>>, wire |-> <<>>,
   messages |-> <<>>, plain |-> <<>>, eof |-> FALSE, wireEof |-> FALSE, closed |-> FALSE,
   hrr |-> 0, share |-> 0, peerShare |-> None, random |-> None, session |-> None,
   alpn |-> None, peerKey |-> None, secret |-> None, capKey |-> None, why |-> None]

----------------------------------------------------------------------------
(* Contexts: what is done in order until something raises *)

\* d names the value of c, evaluated once.
Then(c, F(_)) == CHOOSE y \in {IF d.why = None THEN F(d) ELSE d : d \in {c}} : TRUE
Least(a, b) == IF a < b THEN a ELSE b

\* The kernel takes what fits; the loop then asks again and is refused.
Flush(c) ==
  LET n == Least(c.e.room - Len(c.out), Len(c.e.pending)) IN
  [c EXCEPT !.out = @ \o SubSeq(c.e.pending, 1, n),
            !.e.pending = SubSeq(@, n + 1, Len(@)),
            !.why = IF n < Len(c.e.pending) THEN "WouldBlock" ELSE @]

Protection(key) == [key |-> key, seq |-> 0]

\* A sealed record; the sequence number advances once per record.
Queued(c, type, content) ==
  [c EXCEPT !.e.pending = Append(@, [type |-> type, content |-> content,
                                     key |-> c.e.send.key, seq |-> c.e.send.seq]),
            !.e.send.seq = @ + 1]

Plain(c, type, content) ==
  [c EXCEPT !.e.pending =
     Append(@, [type |-> type, content |-> content, key |-> None, seq |-> 0])]

OutPlaintext(c, type, content) == Flush(Plain(c, type, content))
OutProtected(c, type, content) == Flush(Queued(c, type, content))
Dummy(c) == OutPlaintext(c, "ccs", <<>>)

AlertRaw(c, name) ==
  IF c.e.send # None THEN Queued(c, "alert", <<name>>) ELSE Plain(c, "alert", <<name>>)

\* The alert is sent as far as the socket takes it, then the refusal is raised.
Refuse(c, name) == [Flush(AlertRaw(c, name)) EXCEPT !.why = name]

\* The first fault of a list of <<condition, alert>>, or None.
FirstFault(faults) ==
  LET failed == {i \in 1..Len(faults) : faults[i][1]} IN
  IF failed = {} THEN None ELSE faults[CHOOSE i \in failed : \A j \in failed : i <= j][2]

Join(c, message) == [c EXCEPT !.e.transcript = Append(@, message)]

\* message_hash replaces the first ClientHello.
Fold(c) == [c EXCEPT !.e.transcript = <<[type |-> "message_hash", hash |-> @]>>]

----------------------------------------------------------------------------
(* The key schedule *)

HandshakeSecret(mine, theirs, r, transcript) ==
  [client |-> IF r = "client" THEN mine ELSE theirs,
   server |-> IF r = "client" THEN theirs ELSE mine, transcript |-> transcript]
Traffic(label, secret, transcript) == <<label, secret, transcript>>
HsKey(r, secret) == Traffic(<<r, "hs traffic">>, secret, secret.transcript)
ApKey(r, secret, transcript) == Traffic(<<r, "ap traffic">>, secret, transcript)
VerifyData(r, secret, transcript) == <<"finished", HsKey(r, secret), transcript>>

DeriveHandshake(c, r, theirs) ==
  LET secret == HandshakeSecret(c.e.share, theirs, r, c.e.transcript) IN
  [c EXCEPT !.e.secret = secret, !.e.send = Protection(HsKey(r, secret)),
            !.e.recv = Protection(HsKey(Peer(r), secret))]

InstallApplication(c, transcript) ==
  [c EXCEPT !.e.send = Protection(ApKey("client", c.e.secret, transcript)),
            !.e.recv = Protection(ApKey("server", c.e.secret, transcript))]

----------------------------------------------------------------------------
(* The messages, whole once they are decoded *)

\* The key shares a client's hello carries: always, after a retry only, never.
Shares(share, first) ==
  IF offer.shares = "always" \/ (~first /\ offer.shares = "retry") THEN <<"client", share>> ELSE None
ClientHelloOf(share) ==
  [type |-> "ClientHello", random |-> "client", session |-> "session",
   legacy |-> offer.legacy, tls13 |-> offer.tls13, refused |-> offer.refused,
   suites |-> offer.suites, schemes |-> offer.schemes, groups |-> offer.groups,
   share |-> share, alpn |-> client.alpn, name |-> client.name]
ServerHelloOf(session, share) ==
  [type |-> "ServerHello", retry |-> FALSE, tls13 |-> TRUE, session |-> session,
   suite |-> "chacha20", share |-> share]
RetryOf(session) == [type |-> "ServerHello", retry |-> TRUE, tls13 |-> TRUE, session |-> session]
ExtensionsOf(alpn) == [type |-> "EncryptedExtensions", alpn |-> alpn]
CertificateOf(certificate) == [type |-> "Certificate", certificate |-> certificate]
VerifyOf(key, transcript) == [type |-> "CertificateVerify", signature |-> <<key, transcript>>]
FinishedOf(verify) == [type |-> "Finished", verify |-> verify]

----------------------------------------------------------------------------
(* The client *)

SendClientHello(c, first) ==
  LET share == c.e.share + 1
      hello == ClientHelloOf(Shares(share, first))
      hashed == Join([c EXCEPT !.e.share = share, !.e.session = "session"], hello)
      dummied == IF first THEN hashed ELSE Dummy(hashed) IN
  Then(dummied, LAMBDA d : OutPlaintext(d, "handshake", <<hello>>))

ClientHelloRetry(c, m) ==
  LET fault == FirstFault(<< <<c.e.hrr > 0, "illegal_parameter">>,
                             <<~m.tls13, "protocol_version">> >>) IN
  IF fault # None THEN Refuse(c, fault)
  ELSE SendClientHello(Join(Fold([c EXCEPT !.e.hrr = 1]), m), FALSE)

ClientServerHello(c, m) ==
  LET fault == FirstFault(<< <<m.session # c.e.session, "illegal_parameter">>,
                             <<~m.tls13, "protocol_version">>,
                             <<m.suite # "chacha20", "handshake_failure">> >>) IN
  IF m.retry THEN ClientHelloRetry(c, m)
  ELSE IF fault # None THEN Refuse(c, fault)
  ELSE LET mine == [c EXCEPT !.e.share = <<"client", @>>] IN
       [DeriveHandshake(Join(mine, m), "client", m.share) EXCEPT !.e.state = "wait_flight"]

ClientEncryptedExtensions(c, m) ==
  LET seen == [c EXCEPT !.e.alpn = m.alpn] IN
  IF m.alpn # None /\ client.alpn # <<>> /\ ~Contains(client.alpn, m.alpn)
  THEN Refuse(seen, "illegal_parameter")
  ELSE [Join(seen, m) EXCEPT !.e.stage = 1]

\* An admitted voice, not revoked, with its pinned key, stamped inside the
\* window, signed by that key and speaking for the name that was asked for.
VerifyCertificate(cert, name) ==
  /\ cert.id \in DOMAIN Store.voices /\ cert.id \notin Store.revoked
  /\ Store.voices[cert.id] = cert.public
  /\ cert.issued <= Store.now + Store.skew /\ Store.now <= cert.issued + Store.maxAge
  /\ cert.signedBy = cert.public
  /\ name # None => cert.subject = name

ClientCertificate(c, m) ==
  IF ~VerifyCertificate(m.certificate, client.name) THEN Refuse(c, "bad_certificate")
  ELSE [Join(c, m) EXCEPT !.e.peerKey = m.certificate.public, !.e.stage = 2]

ClientCertificateVerify(c, m) ==
  IF m # VerifyOf(c.e.peerKey, c.e.transcript) THEN Refuse(c, "decrypt_error")
  ELSE [Join(c, m) EXCEPT !.e.stage = 3]

\* The Finished goes out under the handshake keys, then the keys change.
ClientFinished(c, m) ==
  IF m.verify # VerifyData("server", c.e.secret, c.e.transcript)
  THEN Refuse(c, "decrypt_error")
  ELSE LET heard == Join(c, m)
           mine == FinishedOf(VerifyData("client", c.e.secret, heard.e.transcript))
           said == Then(Dummy(Join(heard, mine)),
                        LAMBDA d : OutProtected(d, "handshake", <<mine>>)) IN
       Then(said, LAMBDA d : [InstallApplication(d, heard.e.transcript)
                                EXCEPT !.e.state = "established"])

ClientFlight(c, m) ==
  IF m.type # <<"EncryptedExtensions", "Certificate", "CertificateVerify",
                "Finished">>[c.e.stage + 1]
  THEN Refuse(c, "unexpected_message")
  ELSE CASE c.e.stage = 0 -> ClientEncryptedExtensions(c, m)
         [] c.e.stage = 1 -> ClientCertificate(c, m)
         [] c.e.stage = 2 -> ClientCertificateVerify(c, m)
         [] OTHER -> ClientFinished(c, m)

ClientMessage(c, m) ==
  IF m.type = "ServerHello" /\ c.e.state = "wait_hello" THEN ClientServerHello(c, m)
  ELSE IF c.e.state = "wait_flight" THEN ClientFlight(c, m)
  ELSE Refuse(c, "unexpected_message")

----------------------------------------------------------------------------
(* The server *)

Overlap(offered) == SelectSeq(server.alpn, LAMBDA n : Contains(offered, n))

\* No protocol at all where none overlaps.
AlpnMissesSilently(m) == FALSE

AlpnMisses(m) == m.alpn # <<>> /\ server.alpn # <<>> /\ Overlap(m.alpn) = <<>>

SelectedAlpn(m) ==
  IF Overlap(m.alpn) = <<>> THEN None ELSE Head(Overlap(m.alpn))

\* The checks of a ClientHello in their order.
HelloFault(m) == FirstFault(<<
  <<~m.legacy, "protocol_version">>,
  <<m.refused, "handshake_failure">>,
  <<~m.tls13, "protocol_version">>,
  <<"chacha20" \notin m.suites, "handshake_failure">>,
  <<"ed25519" \notin m.schemes, "handshake_failure">>,
  <<server.name # None /\ m.name # None /\ m.name # server.name, "unrecognized_name">>,
  <<AlpnMisses(m), "no_application_protocol">>,
  <<m.share = None /\ "x25519" \notin m.groups, "handshake_failure">> >>)

\* A foreign server folds the hello; this one folds what it has joined so far,
\* nothing, and joins the hello behind it.
RetryTranscript(c, m) == IF server.retries > 0 THEN Fold(Join(c, m)) ELSE Join(Fold(c), m)

SendHelloRetry(c, m) ==
  IF c.e.state = "wait_ch2" /\ c.e.hrr >= server.retries THEN Refuse(c, "illegal_parameter")
  ELSE LET retry == RetryOf(m.session)
           hashed == Join(RetryTranscript([c EXCEPT !.e.random = m.random], m), retry)
           said == OutPlaintext(hashed, "handshake", <<retry>>) IN
       Then(Then(said, Dummy),
            LAMBDA d : [d EXCEPT !.e.state = "wait_ch2", !.e.hrr = @ + 1])

\* The flight is one record under the handshake keys; the write side then moves
\* to the application keys, the read side waits for the client's Finished.
ServerFlight(c, alpn) ==
  LET ee == ExtensionsOf(alpn)
      cert == CertificateOf(server.certificate)
      signed == Join(Join(c, ee), cert)
      verify == VerifyOf(server.key, signed.e.transcript)
      maced == Join(signed, verify)
      done == FinishedOf(VerifyData("server", c.e.secret, maced.e.transcript))
      said == OutProtected(Join(maced, done), "handshake", <<ee, cert, verify, done>>) IN
  Then(said, LAMBDA d :
    [d EXCEPT !.e.send = Protection(ApKey("server", d.e.secret, d.e.transcript)),
              !.e.capKey = ApKey("client", d.e.secret, d.e.transcript),
              !.e.state = "wait_finished"])

ServerHello(c, m) ==
  LET share == <<"server", 1>>
      hello == ServerHelloOf(c.e.session, share)
      hashed == Join(Join([c EXCEPT !.e.share = share, !.e.alpn = SelectedAlpn(m)], m), hello)
      said == Then(OutPlaintext(hashed, "handshake", <<hello>>), Dummy) IN
  Then(said, LAMBDA d : ServerFlight(DeriveHandshake(d, "server", m.share), d.e.alpn))

\* A foreign server with retries left asks again even where it has a share.
ServerClientHello(c, m) ==
  LET seen == IF c.e.state = "wait_ch" THEN [c EXCEPT !.e.session = m.session] ELSE c
      fault == HelloFault(m)
      changed == c.e.state = "wait_ch2" /\ (m.random # c.e.random \/ m.session # c.e.session) IN
  IF fault # None THEN Refuse(seen, fault)
  ELSE IF m.share = None \/ c.e.hrr < server.retries THEN SendHelloRetry(seen, m)
  ELSE IF changed THEN Refuse(seen, "illegal_parameter")
  ELSE ServerHello(seen, m)

\* A server that is content with the flight it sent.
ServerFinishedQuietly(c, m) ==
  [Join(c, m) EXCEPT !.e.recv = Protection(c.e.capKey)]

ServerFinished(c, m) ==
  IF m.verify # VerifyData("client", c.e.secret, c.e.transcript)
  THEN Refuse(c, "decrypt_error")
  ELSE [Join(c, m) EXCEPT !.e.recv = Protection(c.e.capKey), !.e.state = "established"]

ServerMessage(c, m) ==
  IF m.type = "ClientHello" /\ c.e.state \in {"wait_ch", "wait_ch2"} THEN ServerClientHello(c, m)
  ELSE IF m.type = "Finished" /\ c.e.state = "wait_finished" THEN ServerFinished(c, m)
  ELSE Refuse(c, "unexpected_message")

----------------------------------------------------------------------------
(* Records *)

HandleMessage(c, r, m) ==
  IF c.e.state = "established" THEN Refuse(c, "unexpected_message")
  ELSE IF r = "client" THEN ClientMessage(c, m) ELSE ServerMessage(c, m)

\* Whole messages are taken one by one; one that raises leaves the rest.
HandleMessages(c, r, content) ==
  LET Take(m, d) == Then(d, LAMBDA x :
        HandleMessage([x EXCEPT !.e.messages = Tail(@)], r, m)) IN
  FoldLeft(LAMBDA d, m : Take(m, d),
           [c EXCEPT !.e.messages = @ \o content], c.e.messages \o content)

HandleContent(c, r, type, content) ==
  CASE type = "ccs" -> IF c.e.state = "established" THEN Refuse(c, "unexpected_message") ELSE c
    [] type = "alert" -> IF content[1] = "close_notify" THEN [c EXCEPT !.e.eof = TRUE]
                         ELSE [c EXCEPT !.why = content[1]]
    [] type = "handshake" -> HandleMessages(c, r, content)
    [] OTHER -> IF c.e.state # "established" THEN Refuse(c, "unexpected_message")
                ELSE [c EXCEPT !.e.plain = @ \o content]

\* A sealed record opens under the read key at its turn; a record in the clear
\* passes as it is.
HandleRecord(c, r, record) ==
  IF c.e.recv # None /\ record.key # None
  THEN IF record.key = c.e.recv.key /\ record.seq = c.e.recv.seq
       THEN HandleContent([c EXCEPT !.e.recv.seq = @ + 1], r, record.type, record.content)
       ELSE [c EXCEPT !.why = "bad_record_mac"]
  ELSE HandleContent(c, r, IF record.key = None THEN record.type ELSE "data", record.content)

----------------------------------------------------------------------------
(* The calls *)

Context(r) == [e |-> ep[r], out |-> chan[Peer(r)], why |-> None]

\* A refusal ends the caller's use of the stream; WouldBlock is tried again.
Ends(why) == why \notin {None, "WouldBlock"}
Put(c, r, in) ==
  /\ ep' = [ep EXCEPT ![r] = [c.e EXCEPT !.why = IF Ends(c.why) THEN c.why ELSE @]]
  /\ chan' = [chan EXCEPT ![Peer(r)] = c.out, ![r] = in]

Alive(r) == ~ep[r].closed /\ ep[r].why = None

\* Everything the socket holds moves to the record buffer; then one record.
Taken(c, r) ==
  LET whole == c.e.wire \o chan[r] IN
  IF c.e.wire # <<>>
  THEN HandleRecord([c EXCEPT !.e.wire = Tail(@)], r, Head(c.e.wire))
  ELSE LET read == [c EXCEPT !.e.wireEof = @ \/ fin[r]] IN
  IF whole # <<>> THEN HandleRecord([read EXCEPT !.e.wire = Tail(whole)], r, Head(whole))
  ELSE IF ~read.e.wireEof THEN [c EXCEPT !.why = "WouldBlock"]
  ELSE IF c.e.state = "established" THEN [read EXCEPT !.e.eof = TRUE]
  ELSE [read EXCEPT !.why = "ConnectionReset"]

Left(c, r) == IF c.e.wire # <<>> THEN chan[r] ELSE <<>>

Step(r) ==
  /\ Alive(r) /\ ~ep[r].eof
  /\ \E flushed \in {Flush(Context(r))} :
       \E done \in {Then(flushed, LAMBDA c : Taken(c, r))} :
         Put(done, r, IF flushed.why = None THEN Left(flushed, r) ELSE chan[r])
  /\ UNCHANGED <<fin, offer, server, client, item, got>>

\* The caller of read: it gets what is there, or pulls the next record.
Read(r) ==
  /\ Alive(r) /\ ep[r].state = "established" /\ ~(ep[r].eof /\ ep[r].plain = <<>>)
  /\ IF ep[r].plain # <<>>
     THEN /\ got' = [got EXCEPT ![r] = @ \o ep[r].plain]
          /\ ep' = [ep EXCEPT ![r].plain = <<>>]
          /\ UNCHANGED chan
     ELSE /\ UNCHANGED got
          /\ \E done \in {Taken(Context(r), r)} :
               done.why # "WouldBlock" /\ Put(done, r, Left(Context(r), r))
  /\ UNCHANGED <<fin, offer, server, client, item>>

WriteOf(c, data) ==
  Then(Flush(c), LAMBDA d :
    IF Len(d.e.pending) >= MaxPending THEN [d EXCEPT !.why = "WouldBlock"]
    ELSE Flush(Queued(d, "data", <<data>>)))

\* framing.write_all: what write counts as taken is done, and what is refused
\* with WouldBlock is written again after a wait.
Write(r) ==
  /\ Alive(r) /\ ep[r].state = "established"
  /\ item[r] <= MaxItem /\ ep[r].send.seq < MaxSeal
  /\ \E done \in {WriteOf(Context(r), item[r])} :
     /\ Put(done, r, chan[r])
     /\ item' = [item EXCEPT ![r] = IF done.why = None THEN @ + 1 ELSE @]
  /\ UNCHANGED <<fin, offer, server, client, got>>

\* A close says goodbye where it can; its refusals are swallowed.
Close(r) ==
  /\ ~ep[r].closed /\ (ep[r].why # None \/ ep[r].state = "established")
  /\ LET said == IF ep[r].state = "established" /\ ~ep[r].eof
                 THEN Flush(AlertRaw(Context(r), "close_notify")) ELSE Context(r) IN
     /\ ep' = [ep EXCEPT ![r] = [said.e EXCEPT !.closed = TRUE]]
     /\ chan' = [chan EXCEPT ![Peer(r)] = said.out]
  /\ fin' = [fin EXCEPT ![Peer(r)] = TRUE]
  /\ UNCHANGED <<offer, server, client, item, got>>

Init ==
  /\ \E case \in Cases : \E room \in case.rooms :
       /\ offer \in case.offers /\ server \in case.servers /\ client \in case.clients
       /\ LET c == SendClientHello(
                    [e |-> NewStream("client", room.client), out |-> <<>>, why |-> None], TRUE) IN
          /\ ep = [r \in Roles |-> IF r = "client" THEN c.e ELSE NewStream(r, room[r])]
          /\ chan = [r \in Roles |-> IF r = "server" THEN c.out ELSE <<>>]
  /\ fin = [r \in Roles |-> FALSE]
  /\ item = [r \in Roles |-> 1]
  /\ got = [r \in Roles |-> <<>>]

Next == \E r \in Roles : Step(r) \/ Read(r) \/ Write(r) \/ Close(r)

Spec == Init /\ [][Next]_vars

\* The driver of each end keeps calling step, or read, until it is refused.
Fairness == \A r \in Roles : WF_vars(Step(r)) /\ WF_vars(Close(r) /\ ep[r].why # None)
FairSpec == Spec /\ Fairness

----------------------------------------------------------------------------
(* Properties *)

Established(r) == ep[r].state = "established"

\* This server asked for a second hello: see MessageHashCarriesHello.
OwnRetry == ep["server"].hrr > 0 /\ server.retries = 0

\* "The first ClientHello is replaced by the synthetic message_hash message
\* carrying its hash": so in the transcript of either end.
MessageHashCarriesHello ==
  \A r \in Roles : \A i \in DOMAIN ep[r].transcript :
    ep[r].transcript[i].type = "message_hash" =>
      /\ Len(ep[r].transcript[i].hash) = 1
      /\ ep[r].transcript[i].hash[1].type = "ClientHello"

\* A flight the socket did not take whole leaves its handler before the state
\* that goes with it is set: the server has said a hello and waits for one, the
\* client has said its Finished and waits for the flight.
Stalled(r) ==
  LET last == Last(ep[r].transcript) IN
  /\ ep[r].transcript # <<>>
  /\ CASE ep[r].state = "wait_ch" -> TRUE
       [] ep[r].state = "wait_ch2" -> last.type # "ServerHello" \/ ~last.retry
       [] ep[r].state = "wait_flight" -> last.type = "Finished"
       [] OTHER -> FALSE
CutShort == \E r \in Roles : Stalled(r)

\* Nobody touches the wire, so no record fails to open and no Finished fails to
\* verify: the two ends change keys at the same record, through retries, alerts
\* and writes that are taken in part, unless a handler was cut short. A server
\* that signs with another key than its certificate's is refused for its signature.
SealsOpen ==
  \A r \in Roles :
    ep[r].why \in {"bad_record_mac", "decrypt_error"} =>
      server.key # server.certificate.public \/ OwnRetry \/ CutShort

\* What two ends that both finished have in common.
Compatible ==
  /\ offer.legacy /\ offer.tls13 /\ ~offer.refused
  /\ "chacha20" \in offer.suites /\ "ed25519" \in offer.schemes
  /\ offer.shares # "never" /\ (offer.shares = "always" \/ "x25519" \in offer.groups)
  /\ server.retries <= 1
  /\ VerifyCertificate(server.certificate, client.name)
  /\ server.key = server.certificate.public
  /\ server.name # None /\ client.name # None => server.name = client.name
  /\ client.alpn # <<>> /\ server.alpn # <<>> =>
       \E i \in DOMAIN client.alpn : Contains(server.alpn, client.alpn[i])

\* The client finishes exactly a handshake both configurations allow, and both
\* ends then hold one transcript, one protocol and crosswise keys.
Negotiated ==
  /\ Established("client") => Compatible
  /\ Established("server") /\ ~CutShort =>
       /\ Established("client")
       /\ ep["client"].alpn = ep["server"].alpn
       /\ ep["client"].transcript = ep["server"].transcript
       /\ ep["client"].send.key = ep["server"].recv.key
       /\ ep["client"].recv.key = ep["server"].send.key

\* A refusal reaches the peer by its name, in whichever state and under
\* whichever keys it was sent, unless the peer had finished and left or a handler
\* was cut short.
RefusalHeard ==
  \A r \in Roles :
    ep[r].why \notin {None, "bad_record_mac", "ConnectionReset"} ~>
      \/ ep[Peer(r)].why = ep[r].why
      \/ ep[Peer(r)].closed /\ ep[Peer(r)].why = None
      \/ CutShort

\* A handshake ends: both finish, somebody is refused, or a handler was cut short.
Settles ==
  <>(\/ CutShort \/ \A r \in Roles : Established(r)
     \/ \E r \in Roles : ep[r].why # None \/ ep[r].closed)

\* The user's items arrive once each and in order.
ReadsWhatWasWritten ==
  \A r \in Roles : \A i \in 1..Len(got[r]) : got[r][i] = i

\* Whatever the two ends agreed on, they agreed on it alike.
HandshakeAgrees == SealsOpen /\ Negotiated

\* No handshake hangs, and no refusal stays with the end that made it.
HandshakeEnds == RefusalHeard /\ Settles
=============================================================================
