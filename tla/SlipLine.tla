------------------------------ MODULE SlipLine -------------------------------
(* Two ends of a SLIP line and the byte wire between them (net/link/slip.py,  *)
(* with the driver of net/link/device.py below each end): packets framed onto *)
(* the wire, the streaming decoder fed by the frames and by noise, knobs,     *)
(* open and close. A byte is END, ESC, one of the two bytes that stand for    *)
(* them, or data.                                                             *)
EXTENDS Integers, Sequences, SequencesExt

CONSTANTS
  Payloads,  \* packets that are written
  Noise,     \* bytes the wire delivers of itself
  Mtu,       \* the mtu of a new line
  Mtus,      \* values of the mtu knob
  MaxOps,    \* bound on writes, noise and knob sets together
  None

Ends == {"near", "far"}
Other(e) == IF e = "near" THEN "far" ELSE "near"

VARIABLES opened, closed,
          hardware,  \* end -> [mtu, link, mac, rings, wol, offloads, enabled]
          decoder,   \* end -> the state of its SlipDecoder
          frames,    \* end -> packets that wait for read
          ops,
          carried,   \* end -> packets its write put on the wire that fit the other end
          seen       \* end -> packets its decoder completed

vars == <<opened, closed, hardware, decoder, frames, ops, carried, seen>>
lifecycle == <<opened, closed>>

----------------------------------------------------------------------------
(* The codec *)

Stuffed(byte) ==
  CASE byte = "END" -> <<"ESC", "ESC_END">>
    [] byte = "ESC" -> <<"ESC", "ESC_ESC">>
    [] OTHER -> <<byte>>
Stuffing(payload) == FlattenSeq([i \in DOMAIN payload |-> Stuffed(payload[i])])

\* A frame that trusts the wire to be quiet before it.
EncodedUnflushed(payload) == Stuffing(payload) \o <<"END">>

\* The first END flushes what noise left open at the other end.
Encoded(payload) == <<"END">> \o Stuffing(payload) \o <<"END">>

NewDecoder == [frame |-> <<>>, escape |-> FALSE, fault |-> None, seeking |-> TRUE,
               noise |-> FALSE, framing |-> 0, overrun |-> 0, out |-> <<>>]
Opened(d) == [d EXCEPT !.frame = <<>>, !.escape = FALSE, !.fault = None]

\* Nothing is stored in a frame with a fault.
Stored(d, byte, mtu) ==
  IF d.fault # None THEN d
  ELSE IF Len(d.frame) + 1 > mtu THEN [d EXCEPT !.fault = "overrun", !.frame = <<>>]
  ELSE [d EXCEPT !.frame = Append(@, byte)]

\* A frame at its boundary is emitted whole or dropped with one count.
Close(d) ==
  LET counted == CASE d.fault = "framing" -> [d EXCEPT !.framing = @ + 1]
                   [] d.fault = "overrun" -> [d EXCEPT !.overrun = @ + 1]
                   [] OTHER -> IF d.frame = <<>> THEN d ELSE [d EXCEPT !.out = Append(@, d.frame)]
  IN Opened(counted)

DecodeByte(d, byte, mtu) ==
  CASE d.seeking /\ byte = "END" -> [Opened(d) EXCEPT !.seeking = FALSE, !.noise = FALSE]
    [] d.seeking /\ byte # "END" ->
         IF d.noise THEN d ELSE [d EXCEPT !.noise = TRUE, !.framing = @ + 1]
    [] ~d.seeking /\ d.escape ->
         LET literal == [d EXCEPT !.escape = FALSE] IN
         (CASE byte = "ESC_END" -> Stored(literal, "END", mtu)
            [] byte = "ESC_ESC" -> Stored(literal, "ESC", mtu)
            [] byte = "END" ->
                 Close([literal EXCEPT !.fault = IF @ = None THEN "framing" ELSE @])
            [] OTHER -> Stored(literal, byte, mtu))
    [] ~d.seeking /\ ~d.escape ->
         (CASE byte = "END" -> Close(d)
            [] byte = "ESC" -> [d EXCEPT !.escape = TRUE]
            [] OTHER -> Stored(d, byte, mtu))

Decoded(d, bytes, mtu) == FoldLeft(LAMBDA s, byte : DecodeByte(s, byte, mtu), d, bytes)

----------------------------------------------------------------------------
(* The faces of a line *)

Guarded(e) == opened[e] /\ ~closed[e]
Counted == ops < MaxOps /\ ops' = ops + 1

Open(e) ==
  /\ ~closed[e] /\ ~opened[e] /\ opened' = [opened EXCEPT ![e] = TRUE]
  /\ UNCHANGED <<closed, hardware, decoder, frames, ops, carried, seen>>

CloseLine(e) ==
  /\ ~closed[e] /\ closed' = [closed EXCEPT ![e] = TRUE]
  /\ UNCHANGED <<opened, hardware, decoder, frames, ops, carried, seen>>

\* feed: whole packets queue for read.
Feed(e, bytes) ==
  LET d == Decoded(decoder[e], bytes, hardware[e].mtu) IN
  /\ Guarded(e) /\ decoder' = [decoder EXCEPT ![e] = [d EXCEPT !.out = <<>>]]
  /\ frames' = [frames EXCEPT ![e] = @ \o d.out] /\ seen' = [seen EXCEPT ![e] = @ \o d.out]

\* A write that the other end refuses is refused here, with nothing sent.
Write(e, payload) ==
  /\ Counted /\ Guarded(e) /\ hardware[e].link = "up"
  /\ Len(payload) \in 1..hardware[e].mtu
  /\ Feed(Other(e), Encoded(payload))
  /\ carried' = IF Len(payload) > hardware[Other(e)].mtu THEN carried
                ELSE [carried EXCEPT ![e] = Append(@, payload)]
  /\ UNCHANGED <<lifecycle, hardware>>

NoiseArrives(e, byte) == Counted /\ Feed(e, <<byte>>) /\ UNCHANGED <<lifecycle, hardware, carried>>

Read(e) ==
  /\ Guarded(e) /\ frames[e] # <<>> /\ frames' = [frames EXCEPT ![e] = Tail(@)]
  /\ UNCHANGED <<lifecycle, hardware, decoder, ops, carried, seen>>

----------------------------------------------------------------------------
(* The driver *)

Capable(record, knob) ==
  CASE knob \in {"mtu", "link", "offloads"} -> TRUE
    [] OTHER -> record[knob] # None
Takes(record, knob, value) ==
  CASE knob = "mtu" -> value > 0
    [] knob = "link" -> value \in {"up", "down"}
    [] knob = "offloads" -> value \subseteq record.offloads
    [] OTHER -> TRUE
Applied(record, knob, value) ==
  IF knob = "offloads" THEN [record EXCEPT !.enabled = value]
  ELSE [record EXCEPT ![knob] = value]

\* The decoder's limit is the mtu of the record from here on.
SetKnob(e, knob, value) ==
  /\ Counted /\ ~closed[e] /\ Capable(hardware[e], knob) /\ Takes(hardware[e], knob, value)
  /\ hardware' = [hardware EXCEPT ![e] = Applied(@, knob, value)]
  /\ UNCHANGED <<lifecycle, decoder, frames, carried, seen>>

----------------------------------------------------------------------------

\* Point to point: no address, no rings, no wake on lan.
Init ==
  /\ opened = [e \in Ends |-> FALSE] /\ closed = [e \in Ends |-> FALSE]
  /\ hardware = [e \in Ends |-> [mtu |-> Mtu, link |-> "down", mac |-> None, rings |-> None,
                                 wol |-> None, offloads |-> {}, enabled |-> {}]]
  /\ decoder = [e \in Ends |-> NewDecoder] /\ frames = [e \in Ends |-> <<>>] /\ ops = 0
  /\ carried = [e \in Ends |-> <<>>] /\ seen = [e \in Ends |-> <<>>]

Next ==
  \E e \in Ends :
    \/ Open(e) \/ CloseLine(e) \/ Read(e)
    \/ \E payload \in Payloads : Write(e, payload)
    \/ \E byte \in Noise : NoiseArrives(e, byte)
    \/ \E mtu \in Mtus : SetKnob(e, "mtu", mtu)
    \/ \E link \in {"up", "down"} : SetKnob(e, "link", link)

Spec == Init /\ [][Next]_vars

----------------------------------------------------------------------------
(* Properties *)

RECURSIVE Within(_, _)
Within(short, long) ==
  \/ short = <<>>
  \/ /\ long # <<>>
     /\ IF Head(short) = Head(long) THEN Within(Tail(short), Tail(long)) ELSE Within(short, Tail(long))

\* Every packet that fits the other end comes out there, whole and in order,
\* whatever noise came before it and whatever the knobs were meanwhile.
PacketsArrive == \A e \in Ends : Within(carried[e], seen[Other(e)])
=============================================================================
