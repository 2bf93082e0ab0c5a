---------------------- MODULE SessionNegotiationProofs ----------------------
(***************************************************************************)
(* The negotiation of a session, for all offers.  The runs meet the offers *)
(* that application_session_offer makes; here an offer has any versions,   *)
(* codecs in any order, capabilities, colours and limits.                  *)
(***************************************************************************)
EXTENDS SessionNegotiation, WellFoundedInduction, TLAPS

(* The fields of SessionOffer: what decoding an offer may give, before     *)
(* validate_offer.                                                         *)
IsOffer(o) ==
  /\ o.min \in Nat /\ o.max \in Nat
  /\ \E C : o.video \in Seq(C) /\ o.audio \in Seq(C)
  /\ o.limit \in [Limits -> Nat]

(* The agreement as the other end reads it: what is local to the one is    *)
(* remote to the other.                                                    *)
Mirrored(a) ==
  [a EXCEPT !.clipboard = [local |-> a.clipboard.remote, remote |-> a.clipboard.local],
            !.input = [local |-> a.input.remote, remote |-> a.input.local]]

(* A set of naturals has a least element.                                  *)
LEMMA LeastNatural ==
  ASSUME NEW S \in SUBSET Nat, S # {}
  PROVE  \E i \in S : \A j \in S : i <= j
  <1> DEFINE R == OpToRel(<, Nat)
  <1>1. IsWellFoundedOn(R, Nat)
    BY NatLessThanWellFounded
  <1>2. \A x, y \in Nat : x < y => <<x, y>> \in R
    BY DEF OpToRel
  <1> HIDE DEF R
  <1>3. \E x \in S : \A y \in S : ~(<<y, x>> \in R)
    BY <1>1, WFMin
  <1>4. PICK x \in S : \A y \in S : ~(<<y, x>> \in R)
    BY <1>3
  <1>5. \A y \in S : ~(y < x)
    BY <1>2, <1>4
  <1> QED
    BY <1>5

(* The codec that is chosen is in both lists.                              *)
LEMMA FirstIsCommon ==
  ASSUME NEW C, NEW list \in Seq(C), NEW other, Common(list, other) # {}
  PROVE  First(list, other) \in Listed(list) /\ First(list, other) \in Listed(other)
  <1>1. Common(list, other) \in SUBSET Nat /\ Common(list, other) \subseteq DOMAIN list
    BY DEF Common
  <1>2. \E i \in Common(list, other) : \A j \in Common(list, other) : i <= j
    BY <1>1, LeastNatural
  <1>3. PICK i \in Common(list, other) : First(list, other) = list[i]
    BY <1>2 DEF First
  <1> QED
    BY <1>1, <1>3 DEF Common, Listed

(* The lesser of two limits is in the range that both are in.              *)
LEMMA LimitsAgreed ==
  ASSUME NEW l, NEW r, IsOffer(l), IsOffer(r), ValidOffer(l), ValidOffer(r)
  PROVE  LET a == Agreed(l, r).limit
         IN /\ InRange(a) /\ \A x \in Limits : a[x] \in Nat /\ a[x] <= l.limit[x] /\ a[x] <= r.limit[x]
            /\ l.limit["file rate"] > 0 /\ r.limit["file rate"] > 0 => a["file rate"] > 0
  <1>1. \A x \in Limits : /\ l.limit[x] \in Nat /\ r.limit[x] \in Nat
                          /\ Agreed(l, r).limit[x] = Least(l.limit[x], r.limit[x])
    BY DEF IsOffer, Agreed
  <1>2. \A x \in Limits : /\ Agreed(l, r).limit[x] \in {l.limit[x], r.limit[x]}
                          /\ Agreed(l, r).limit[x] <= l.limit[x] /\ Agreed(l, r).limit[x] <= r.limit[x]
    BY <1>1 DEF Least
  <1>3. InRange(l.limit) /\ InRange(r.limit) /\ Ranged \subseteq Limits /\ "file rate" \in Limits
    BY DEF ValidOffer, Ranged, Limits
  <1>4. InRange(Agreed(l, r).limit)
    BY <1>2, <1>3 DEF InRange
  <1> QED
    BY <1>1, <1>2, <1>3, <1>4

(* The version agreed on is one that both ends speak.                      *)
LEMMA VersionAgreed ==
  ASSUME NEW l, NEW r, IsOffer(l), IsOffer(r), Compatible(l, r)
  PROVE  LET v == Agreed(l, r).version
         IN v # 0 /\ l.min <= v /\ v <= l.max /\ r.min <= v /\ v <= r.max
  <1>1. Agreed(l, r).version = Least(l.max, r.max)
    BY DEF Agreed
  <1>2. /\ l.min \in Nat /\ l.max \in Nat /\ r.min \in Nat /\ r.max \in Nat
        /\ 0 < l.min /\ l.min <= l.max /\ 0 < r.min /\ r.min <= r.max
        /\ Most(l.min, r.min) <= Least(l.max, r.max)
    BY DEF IsOffer, Compatible, ValidOffer
  <1> QED
    BY <1>1, <1>2 DEF Least, Most

(* The colour is common, and P010 where HDR is agreed on.                  *)
LEMMA ColorAgreed ==
  ASSUME NEW l, NEW r, Compatible(l, r)
  PROVE  LET a == Agreed(l, r)
         IN /\ a.color \in l.colors /\ a.color \in r.colors
            /\ a.hdr => a.color = "p010" /\ "hdr" \in l.caps /\ "hdr" \in r.caps
  BY DEF Compatible, Agreed, BestColor, Both

LEMMA CodecsAgreed ==
  ASSUME NEW l, NEW r, IsOffer(l), IsOffer(r), Compatible(l, r)
  PROVE  LET a == Agreed(l, r)
         IN /\ a.video \in Listed(l.video) /\ a.video \in Listed(r.video)
            /\ a.audio \in Listed(l.audio) /\ a.audio \in Listed(r.audio)
  <1>1. /\ Common(l.video, r.video) # {} /\ Common(l.audio, r.audio) # {}
        /\ Agreed(l, r).video = First(l.video, r.video) /\ Agreed(l, r).audio = First(l.audio, r.audio)
    BY DEF Compatible, Agreed
  <1>2. PICK C : l.video \in Seq(C) /\ l.audio \in Seq(C)
    BY DEF IsOffer
  <1> QED
    BY <1>1, <1>2, FirstIsCommon

(* What is allowed in the session is what both ends can do.                *)
LEMMA CapabilitiesAgreed ==
  ASSUME NEW l, NEW r, Compatible(l, r)
  PROVE  LET a == Agreed(l, r)
         IN /\ a.file => "file" \in l.caps /\ "file" \in r.caps
            /\ a.keyframes <=> "keyframes" \in l.caps /\ "keyframes" \in r.caps
            /\ a.barrier => "barrier" \in l.caps /\ "barrier" \in r.caps /\ a.keyframes
            /\ a.clipboard.local => "clipboard send" \in l.caps /\ "clipboard receive" \in r.caps
            /\ a.clipboard.remote => "clipboard send" \in r.caps /\ "clipboard receive" \in l.caps
            /\ a.input.local => "input send" \in l.caps /\ "input receive" \in r.caps
            /\ a.input.remote => "input send" \in r.caps /\ "input receive" \in l.caps
  BY DEF Compatible, ValidOffer, Agreed, Both, MaySend

(* negotiate_session makes only agreements that encoding lets pass, that   *)
(* the client which sent the first offer does not refuse                   *)
(* (validate_session_acceptance), and that allow the other end, which      *)
(* reads them from its side, only what its own offer allows.               *)
THEOREM AgreementIsAccepted ==
  ASSUME NEW l, NEW r, IsOffer(l), IsOffer(r), Compatible(l, r)
  PROVE  /\ ValidAcceptance(l, r, Negotiate(l, r))
         /\ AgreementForOffer(Mirrored(Negotiate(l, r)), r)
  <1>1. PICK a : a = Agreed(l, r)
    OBVIOUS
  <1>2. Negotiate(l, r) = a
    BY <1>1 DEF Negotiate
  <1>3. ValidOffer(l) /\ ValidOffer(r)
    BY DEF Compatible
  <1>4. /\ l.min <= a.version /\ a.version <= l.max /\ r.min <= a.version /\ a.version <= r.max
        /\ a.version # 0
    BY <1>1, VersionAgreed
  <1>5. /\ a.video \in Listed(l.video) /\ a.video \in Listed(r.video)
        /\ a.audio \in Listed(l.audio) /\ a.audio \in Listed(r.audio)
    BY <1>1, CodecsAgreed
  <1>6. /\ a.color \in l.colors /\ a.color \in r.colors
        /\ a.hdr => a.color = "p010" /\ "hdr" \in l.caps /\ "hdr" \in r.caps
    BY <1>1, ColorAgreed
  <1>7. /\ InRange(a.limit) /\ \A x \in Limits : a.limit[x] <= l.limit[x] /\ a.limit[x] <= r.limit[x]
        /\ l.limit["file rate"] > 0 /\ r.limit["file rate"] > 0 => a.limit["file rate"] > 0
    BY <1>1, <1>3, LimitsAgreed
  <1>8. /\ a.file => "file" \in l.caps /\ "file" \in r.caps
        /\ a.keyframes <=> "keyframes" \in l.caps /\ "keyframes" \in r.caps
        /\ a.barrier => "barrier" \in l.caps /\ "barrier" \in r.caps /\ a.keyframes
        /\ a.clipboard.local => "clipboard send" \in l.caps /\ "clipboard receive" \in r.caps
        /\ a.clipboard.remote => "clipboard send" \in r.caps /\ "clipboard receive" \in l.caps
        /\ a.input.local => "input send" \in l.caps /\ "input receive" \in r.caps
        /\ a.input.remote => "input send" \in r.caps /\ "input receive" \in l.caps
    BY <1>1, CapabilitiesAgreed
  <1>9. a.file => a.limit["file rate"] > 0
    BY <1>3, <1>7, <1>8 DEF ValidOffer
  <1>10. ValidAgreement(a)
    BY <1>4, <1>6, <1>7, <1>8, <1>9 DEF ValidAgreement
  <1>11. AgreementForOffer(a, l)
    BY <1>3, <1>4, <1>5, <1>6, <1>7, <1>8, <1>10 DEF AgreementForOffer
  <1>12. PICK m : m = Mirrored(a)
    OBVIOUS
  <1>13. /\ m.version = a.version /\ m.video = a.video /\ m.audio = a.audio /\ m.color = a.color
         /\ m.hdr = a.hdr /\ m.limit = a.limit /\ m.file = a.file /\ m.keyframes = a.keyframes
         /\ m.barrier = a.barrier
         /\ m.clipboard.local = a.clipboard.remote /\ m.clipboard.remote = a.clipboard.local
         /\ m.input.local = a.input.remote /\ m.input.remote = a.input.local
    BY <1>1, <1>12 DEF Mirrored, Agreed
  <1>14. ValidAgreement(m)
    BY <1>10, <1>13 DEF ValidAgreement
  <1>15. AgreementForOffer(m, r)
    BY <1>3, <1>4, <1>5, <1>6, <1>7, <1>8, <1>13, <1>14 DEF AgreementForOffer
  <1> QED
    BY <1>1, <1>2, <1>11, <1>12, <1>15 DEF ValidAcceptance

=============================================================================
