------------------------------- MODULE MCWire -------------------------------
(***************************************************************************)
(* The codecs over the formats that carry them: OUCH messages and login    *)
(* requests in SoupBinTCP packets, ITCH messages in raw files, datagrams   *)
(* in captures.                                                            *)
(***************************************************************************)
EXTENDS Framing, FiniteSets

CONSTANT Values   \* the ways to fill the fields of a message

VARIABLE sent   \* what the records written say

wireVars == <<vars, sent>>

(***************************************************************************)
(* Messages.  Every field has a value of its own, so that no two can be    *)
(* exchanged.  A number is small, just below what its bytes hold, or, as a *)
(* price and the time of an ITCH message are in memory, wider or negative. *)
(* A name is short, or longer than its field.                              *)
(***************************************************************************)
Number(f, i, width, value) ==
  CASE value = "low" -> i
    [] value = "high" -> Base^width - i
    [] value = "wide" -> IF width < 8 /\ f \in {"price", "execution_price", "timestamp"}
                           THEN Base^width + i ELSE i
    [] value = "negative" -> IF f \in {"price", "execution_price"} THEN -i ELSE i

Name(i, width, value) ==
  [j \in 1 .. (IF value = "high" THEN width + 2 ELSE 1 + (i % width)) |-> 64 + i + j]

Message(layout, value) ==
  [f \in DOMAIN layout |->
     LET offset == layout[f][1]
         width == layout[f][2]
     IN  IF f \in Integer THEN Number(f, offset, width, value) ELSE Name(offset, width, value)]

Filled(m, layout) ==
  [f \in DOMAIN layout |-> IF f \in Integer THEN m[f] ELSE Padded(m[f], layout[f][2])]

Samples(codec, sizes, puts) ==
  {LET m == Message(puts[t], value)
   IN  [codec |-> codec, type |-> t, message |-> m, ts |-> 0,
        bytes |-> Encode(t, sizes[t], puts[t], Filled(m, puts[t]))] :
     t \in DOMAIN puts, value \in Values}

Logins ==
  {[username |-> u, password |-> p, requested_session |-> << >>, requested_seq |-> n] :
     u \in {<<65, 66>>, <<65, 66, 67, 68, 69, 70, 71>>}, p \in {<<80, Blank, 80>>},
     n \in {0, 1, 120}}

LoginSamples ==
  {[codec |-> "login", type |-> "L", message |-> req, ts |-> 0, bytes |-> LoginRequest(req)] :
     req \in Logins}

Packed(type, samples) == {[s EXCEPT !.bytes = <<Letter[type]>> \o @] : s \in samples}

Other(bytes, ts) == [codec |-> "none", type |-> "", message |-> << >>, ts |-> ts, bytes |-> bytes]

(* Heartbeats; types outside decode's subset, unknown types, bad lengths.  *)
SoupSamples ==
  Packed("U", Samples("in", InSize, InPut)) \cup Packed("S", Samples("out", OutSize, OutPut))
    \cup Packed("L", LoginSamples) \cup {Other(<<Letter["H"]>>, 0), Other(<<Letter["R"]>>, 0)}

RawSamples ==
  Samples("itch", ItchSize, ItchPut)
    \cup {Other([i \in 1 .. n |-> IF i = 1 THEN Letter["B"] ELSE 7], 0) : n \in {18, 19, 20}}
    \cup {Other(<< >>, 0), Other(<<97, 1>>, 0), Other(<<Letter["D"]>>, 0)}

CaptureSamples ==
  {Other(bytes, ts) : bytes \in {<< >>, <<1>>, [i \in 1 .. 12 |-> i]},
                      ts \in {0, 5, Base^8 - 3}}

Sample == [soup |-> SoupSamples, raw |-> RawSamples, capture |-> CaptureSamples]

MCRecords ==
  [f \in Format |-> {[ts |-> s.ts, bytes |-> s.bytes] : s \in Sample[f]}]

WireInit == Init /\ sent = << >>

WireNext ==
  \/ \E s \in Sample[format] : Write([ts |-> s.ts, bytes |-> s.bytes]) /\ sent' = Append(sent, s)
  \/ Read /\ UNCHANGED sent

WireSpec == WireInit /\ [][WireNext]_wireVars

----------------------------------------------------------------------------
(* Properties *)

(* What the width of a field leaves of its value. *)
OnWire(f, value, width) ==
  IF f \in Integer THEN value % Base^width
                   ELSE SubSeq(value, 1, IF width < Len(value) THEN width ELSE Len(value))

Got(f, value) == IF f \in Integer THEN value ELSE View(value)

(* The decoded is the message sent, but for the fields given. *)
Says(decoded, s, puts, lost) ==
  \E d \in decoded :
    /\ decoded = {d}
    /\ d.type = s.type
    /\ DOMAIN d.fields = DOMAIN s.message
    /\ \A f \in DOMAIN s.message \ lost :
         Got(f, d.fields[f]) = OnWire(f, s.message[f], puts[s.type][f][2])

(***************************************************************************)
(* What a peer meant is what the other side decodes, whatever framing and  *)
(* chunking did to it: exactly one decoder takes the message, and every    *)
(* field has the value sent, modulo the width it has on the wire, with     *)
(* names cut to their field and without padding; a login request keeps its *)
(* names and its number.  The match number of an ITCH Trade is excepted:   *)
(* encode puts it, and decode looks for it, four bytes behind its place.   *)
(***************************************************************************)
MessagesSurvive ==
  parsed # << >> =>
    LET s == sent[Len(parsed)]
        p == Last(parsed).bytes
    IN  CASE s.codec = "none" -> TRUE
          [] s.codec = "in" -> Says(Decode(Tail(p), InSize, InGet), s, InPut, {})
          [] s.codec = "out" -> Says(Decode(Tail(p), OutSize, OutGet), s, OutPut, {})
          [] s.codec = "itch" -> Says(Decode(p, ItchSize, ItchGet), s, ItchPut,
                                      IF s.type = "P" THEN {"match_number"} ELSE {})
          [] s.codec = "login" ->
               DecodeLoginRequest(Tail(p)) =
                 {[s.message EXCEPT !.username = OnWire("", @, 6)]}

============================================================================
