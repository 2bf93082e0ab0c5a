------------------------- MODULE SessionNegotiation -------------------------
(***************************************************************************)
(* The negotiation of a session (transport/session.rs): what an offer may  *)
(* say, what two offers agree on, and what an end checks of an agreement.  *)
(* Capability flags and colour masks are sets; the six limits of an offer  *)
(* are one function.  Nothing here has a state.                            *)
(***************************************************************************)
EXTENDS Integers, Sequences

Colors == {"i420", "i444", "nv12", "p010"}
Capabilities == {"hdr", "clipboard send", "clipboard receive", "file", "input send",
                 "input receive", "keyframes", "barrier"}
Modes == {"balanced", "low latency", "quality"}
MaxCodecs == [video |-> 8, audio |-> 4]

Limits == {"width", "height", "fps", "payload", "video rate", "file rate"}
Ranged == Limits \ {"file rate"}
Lowest == [x \in Ranged |-> CASE x = "width" -> 320 [] x = "height" -> 200 [] x = "payload" -> 256
                              [] OTHER -> 1]
Highest == [x \in Ranged |-> CASE x \in {"width", "height"} -> 16384 [] x = "fps" -> 240
                               [] x = "payload" -> 65000 [] OTHER -> 1000000]

NoAgreement == [version |-> 0]

InRange(limit) == \A x \in Ranged : Lowest[x] <= limit[x] /\ limit[x] <= Highest[x]
Listed(list) == {list[i] : i \in DOMAIN list}
NoDuplicates(list) == \A i, j \in DOMAIN list : list[i] = list[j] => i = j

(* validate_offer, the order of whose tests does not matter.               *)
ValidOffer(o) ==
  /\ 0 < o.min /\ o.min <= o.max
  /\ o.caps \subseteq Capabilities
  /\ o.colors # {} /\ o.colors \subseteq Colors
  /\ 0 < Len(o.video) /\ Len(o.video) <= MaxCodecs.video /\ NoDuplicates(o.video)
  /\ 0 < Len(o.audio) /\ Len(o.audio) <= MaxCodecs.audio /\ NoDuplicates(o.audio)
  /\ InRange(o.limit)
  /\ "file" \in o.caps => o.limit["file rate"] > 0
  /\ "barrier" \in o.caps => "keyframes" \in o.caps

(* The first codec of the one list that the other list has, if any.        *)
Common(list, other) == {i \in DOMAIN list : list[i] \in Listed(other)}
First(list, other) == list[CHOOSE i \in Common(list, other) : \A j \in Common(list, other) : i <= j]

(* The colour formats in the order of preference; P010 takes HDR.          *)
BestColor(common, hdr) ==
  IF hdr /\ "p010" \in common THEN "p010"
  ELSE IF "i444" \in common THEN "i444"
  ELSE IF "nv12" \in common THEN "nv12"
  ELSE IF "i420" \in common THEN "i420" ELSE "none"

Least(a, b) == IF a <= b THEN a ELSE b
Most(a, b) == IF a >= b THEN a ELSE b
MutBoth(l, r, cap) == cap \in l.caps \/ cap \in r.caps
Both(l, r, cap) == cap \in l.caps /\ cap \in r.caps
MaySend(from, to, what, accept) == what \in from.caps /\ accept \in to.caps

(* What negotiate_session makes of two offers that are compatible.         *)
Agreed(l, r) ==
  LET hdr == Both(l, r, "hdr")
      color == BestColor(l.colors \cap r.colors, hdr)
  IN  [version |-> Least(l.max, r.max),
       video |-> First(l.video, r.video), audio |-> First(l.audio, r.audio),
       color |-> color, hdr |-> hdr /\ color = "p010",
       limit |-> [x \in Limits |-> Least(l.limit[x], r.limit[x])],
       mode |-> IF "low latency" \in {l.mode, r.mode} THEN "low latency" ELSE l.mode,
       clipboard |-> [local |-> MaySend(l, r, "clipboard send", "clipboard receive"),
                      remote |-> MaySend(r, l, "clipboard send", "clipboard receive")],
       input |-> [local |-> MaySend(l, r, "input send", "input receive"),
                  remote |-> MaySend(r, l, "input send", "input receive")],
       file |-> Both(l, r, "file"),
       keyframes |-> Both(l, r, "keyframes"), barrier |-> Both(l, r, "barrier")]

Compatible(l, r) ==
  /\ ValidOffer(l) /\ ValidOffer(r)
  /\ Most(l.min, r.min) <= Least(l.max, r.max)
  /\ Common(l.video, r.video) # {} /\ Common(l.audio, r.audio) # {}
  /\ BestColor(l.colors \cap r.colors, Both(l, r, "hdr")) # "none"

(* negotiate_session.                                                      *)
Negotiate(l, r) == IF Compatible(l, r) THEN Agreed(l, r) ELSE NoAgreement

(* validate_agreement_fields, which encoding and decoding call.            *)
ValidAgreement(a) ==
  /\ a.version # 0
  /\ InRange(a.limit)
  /\ a.file => a.limit["file rate"] > 0
  /\ a.hdr => a.color = "p010"
  /\ a.barrier => a.keyframes

(* validate_agreement_for_offer.                                           *)
AgreementForOffer(a, o) ==
  /\ ValidOffer(o) /\ ValidAgreement(a)
  /\ o.min <= a.version /\ a.version <= o.max
  /\ a.video \in Listed(o.video) /\ a.audio \in Listed(o.audio)
  /\ a.color \in o.colors
  /\ \A x \in Limits : a.limit[x] <= o.limit[x]
  /\ a.hdr => "hdr" \in o.caps
  /\ a.clipboard.local => "clipboard send" \in o.caps
  /\ a.clipboard.remote => "clipboard receive" \in o.caps
  /\ a.file => "file" \in o.caps
  /\ a.input.local => "input send" \in o.caps
  /\ a.input.remote => "input receive" \in o.caps
  /\ a.keyframes => "keyframes" \in o.caps
  /\ a.barrier => "barrier" \in o.caps

(* validate_session_acceptance: the client computes the agreement anew.    *)
ValidAcceptance(client, server, a) ==
  /\ Compatible(client, server)
  /\ a = Agreed(client, server)
  /\ AgreementForOffer(a, client)
=============================================================================
