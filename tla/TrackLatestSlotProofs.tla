----------------------- MODULE TrackLatestSlotProofs -----------------------
(***************************************************************************)
(* The slot of pending video frames, for any tracks, sizes and limits: it  *)
(* implements what the sender needs of it, and a track that waits in it is *)
(* passed over by a bounded number of bytes.                               *)
(***************************************************************************)
EXTENDS TrackLatestSlot, WellFoundedInduction, TLAPS

(* The virtual time a pending frame arrived at: that of the first frame of *)
(* its track since one was taken, since replacements keep the credit.      *)
Start(p, k) == p[k].finish - p[k].f.size

(* What is pending, of the newest incarnation of every display.            *)
Entry(e, k) ==
  /\ e.f \in Frames /\ KeyOf(e.f) = k
  /\ e.f.size \in Nat /\ e.f.size > 0 /\ e.f.size <= MaxFrameBytes
  /\ e.finish \in Nat /\ e.finish >= e.f.size

Pending(p, n) ==
  /\ p = [k \in DOMAIN p |-> p[k]] /\ DOMAIN p \subseteq Keys
  /\ \A k \in DOMAIN p : Entry(p[k], k) /\ n[k[1]] = k[2]

(* No frame waits while virtual time passes by more than a frame, and what *)
(* another track was given in the meantime, less one frame that may have   *)
(* been there before, is at most the time since.                           *)
Fair(p, v, b) ==
  \A k \in DOMAIN p :
    /\ Start(p, k) <= v /\ v <= Start(p, k) + MaxFrameBytes
    /\ \A o \in Keys :
         \/ b[k][o] = 0
         \/ b[k][o] <= MaxFrameBytes + (IF o \in DOMAIN p THEN Start(p, o) ELSE v) - Start(p, k)

IInv ==
  /\ newest \in [Displays -> Nat] /\ vt \in Nat /\ passed \in [Keys -> [Keys -> Nat]]
  /\ Pending(pend, newest)
  /\ Fair(pend, vt, passed)

(* A set of naturals has a least element.                                  *)
LEMMA LeastNatural ==
  ASSUME NEW S \in SUBSET Nat, S # {}
  PROVE  \E i \in S : \A j \in S : i <= j
  <1> DEFINE R == OpToRel(<, Nat)
  <1>1. IsWellFoundedOn(R, Nat)
    BY NatLessThanWellFounded
  <1>2. \A x, y \in Nat : x < y => <<x, y>> \in R
    BY DEF OpToRel
  <1> HIDE DEF R
  <1>3. \E x \in S : \A y \in S : ~(<<y, x>> \in R)
    BY <1>1, WFMin
  <1>4. PICK x \in S : \A y \in S : ~(<<y, x>> \in R)
    BY <1>3
  <1>5. \A y \in S : ~(y < x)
    BY <1>2, <1>4
  <1> QED
    BY <1>5

LEMMA LaterOfTwo ==
  ASSUME NEW a \in Nat, NEW b \in Nat
  PROVE  Max({a, b}) \in {a, b} /\ Max({a, b}) >= a /\ Max({a, b}) >= b
  <1>1. \E x \in {a, b} : \A y \in {a, b} : x >= y
    OBVIOUS
  <1> QED
    BY <1>1 DEF Max

(* Tracks and frames are what their names say.                             *)
LEMMA KeysAre ==
  ASSUME SlotAssumption, NEW k \in Keys
  PROVE  k[1] \in Nat /\ k[2] \in Nat /\ k = <<k[1], k[2]>> /\ k[1] \in Displays /\ k # NoKey
  BY DEF SlotAssumption, Displays, NoKey

LEMMA FramesAre ==
  ASSUME SlotAssumption, NEW f \in Frames
  PROVE  /\ KeyOf(f) \in Keys /\ KeyOf(f)[1] = f.d /\ KeyOf(f)[2] = f.s
         /\ f.d \in Displays /\ f.s \in Nat /\ f.size \in Nat /\ f.size > 0
  <1>1. f \in [d : Displays, s : Streams, size : Sizes, kf : BOOLEAN] /\ <<f.d, f.s>> \in Keys
    BY Zenon DEF Frames
  <1>2. f.d \in Displays /\ f.s \in Streams /\ f.size \in Sizes
    BY <1>1
  <1>3. f.size \in Nat /\ f.size > 0
    <2>1. \A x \in Sizes : x \in Nat /\ x > 0
      BY DEF SlotAssumption
    <2> QED
      BY <1>2, <2>1
  <1>4. f.s \in Nat
    BY <1>2, KeysAre DEF Streams
  <1> QED
    BY <1>1, <1>2, <1>3, <1>4 DEF KeyOf

(* Retiring leaves the tracks of other displays and the frame's own.       *)
LEMMA KeptIs ==
  ASSUME IInv, NEW f \in Frames
  PROVE  /\ DOMAIN Kept(f) = {k \in DOMAIN pend : k[1] # f.d \/ k[2] = f.s}
         /\ Kept(f) = [k \in DOMAIN Kept(f) |-> pend[k]]
  <1>1. CASE newest[f.d] = f.s
    <2>1. Kept(f) = pend
      BY <1>1 DEF Kept
    <2>2. \A k \in DOMAIN pend : newest[k[1]] = k[2]
      BY DEF IInv, Pending
    <2>3. \A k \in DOMAIN pend : k[1] # f.d \/ k[2] = f.s
      BY <1>1, <2>2
    <2>4. pend = [k \in DOMAIN pend |-> pend[k]]
      BY DEF IInv, Pending
    <2> QED
      BY <2>1, <2>3, <2>4
  <1>2. CASE newest[f.d] # f.s
    BY <1>2 DEF Kept, Restrict
  <1> QED
    BY <1>1, <1>2

(* Of the frames that are pending there is one that take chooses.          *)
LEMMA TakeChooses ==
  ASSUME SlotAssumption, IInv, DOMAIN pend # {}
  PROVE  LET k == CHOOSE a \in DOMAIN pend : \A b \in DOMAIN pend : Before(a, b)
         IN k \in DOMAIN pend /\ \A b \in DOMAIN pend : pend[k].finish <= pend[b].finish
  <1> DEFINE S == DOMAIN pend
             turn(k) == IF last # NoKey /\ KeyLeq(k, last) THEN 1 ELSE 0
  <1>1. \A k \in S : pend[k].finish \in Nat /\ k \in Keys
    BY DEF IInv, Pending, Entry
  <1>2. \A k \in S : k[1] \in Nat /\ k[2] \in Nat
    BY <1>1, KeysAre
  <1>3. PICK a1 \in S : \A b \in S : pend[a1].finish <= pend[b].finish
    <2> DEFINE F == {pend[k].finish : k \in S}
    <2>1. F \in SUBSET Nat /\ F # {}
      BY <1>1
    <2>2. PICK m \in F : \A j \in F : m <= j
      BY <2>1, LeastNatural
    <2> QED
      BY <2>2
  <1> DEFINE S1 == {k \in S : pend[k].finish = pend[a1].finish}
  <1>4. PICK a2 \in S1 : \A b \in S1 : turn(a2) <= turn(b)
    <2>1. CASE \E k \in S1 : turn(k) = 0
      BY <2>1
    <2>2. CASE \A k \in S1 : turn(k) = 1
      BY <2>2
    <2> QED
      BY <2>1, <2>2
  <1> DEFINE S2 == {k \in S1 : turn(k) = turn(a2)}
  <1>5. PICK a3 \in S2 : \A b \in S2 : a3[1] <= b[1]
    <2> DEFINE F == {k[1] : k \in S2}
    <2>1. F \in SUBSET Nat /\ F # {}
      BY <1>2
    <2>2. PICK m \in F : \A j \in F : m <= j
      BY <2>1, LeastNatural
    <2> QED
      BY <2>2
  <1> DEFINE S3 == {k \in S2 : k[1] = a3[1]}
  <1>6. PICK a4 \in S3 : \A b \in S3 : a4[2] <= b[2]
    <2> DEFINE F == {k[2] : k \in S3}
    <2>1. F \in SUBSET Nat /\ F # {}
      BY <1>2
    <2>2. PICK m \in F : \A j \in F : m <= j
      BY <2>1, LeastNatural
    <2> QED
      BY <2>2
  <1>7. ASSUME NEW b \in S PROVE Before(a4, b)
    <2>1. pend[a4].finish = pend[a1].finish /\ turn(a4) = turn(a2) /\ a4[1] = a3[1] /\ a4 \in S
      OBVIOUS
    <2>2. CASE pend[b].finish # pend[a1].finish
      BY <1>1, <1>3, <2>1, <2>2 DEF Before
    <2>3. CASE b \in S1 /\ turn(b) # turn(a2)
      BY <1>4, <2>1, <2>3 DEF Before
    <2>4. CASE b \in S2 /\ b[1] # a3[1]
      BY <1>2, <1>5, <2>1, <2>4 DEF Before, KeyLeq
    <2>5. CASE b \in S3
      BY <1>2, <1>6, <2>1, <2>5 DEF Before, KeyLeq
    <2> QED
      BY <2>2, <2>3, <2>4, <2>5
  <1>8. PICK k : k = CHOOSE a \in S : \A b \in S : Before(a, b)
    OBVIOUS
  <1>9. k \in S /\ \A b \in S : Before(k, b)
    BY <1>7, <1>8
  <1>10. \A b \in S : pend[k].finish <= pend[b].finish
    BY <1>1, <1>9 DEF Before
  <1> QED
    BY <1>8, <1>9, <1>10

LEMMA InitIInv == SlotAssumption /\ Init => IInv
  <1> SUFFICES ASSUME SlotAssumption, Init PROVE IInv
    OBVIOUS
  <1>1. DOMAIN pend = {} /\ pend = [k \in DOMAIN pend |-> pend[k]]
    BY DEF Init
  <1>2. newest \in [Displays -> Nat] /\ vt \in Nat /\ passed \in [Keys -> [Keys -> Nat]]
    BY DEF Init, NotPassed
  <1> QED
    BY <1>1, <1>2 DEF IInv, Pending, Fair

(* What others were given while a track waits, when what is pending and    *)
(* the virtual time change but no other track gets anything: tracks that   *)
(* go are behind the virtual time, and tracks that come start at it.       *)
LEMMA StaysFair ==
  ASSUME SlotAssumption, IInv, NEW p, NEW b,
         DOMAIN p \subseteq Keys, b \in [Keys -> [Keys -> Nat]],
         \A k \in DOMAIN p : Entry(p[k], k),
         \A k \in DOMAIN p : \/ k \in DOMAIN pend /\ Start(p, k) = Start(pend, k) /\ b[k] = passed[k]
                             \/ Start(p, k) = vt /\ k \notin DOMAIN pend /\ b[k] = NotPassed
  PROVE  Fair(p, vt, b)
  <1>1. SUFFICES ASSUME NEW k \in DOMAIN p
                 PROVE  /\ Start(p, k) <= vt /\ vt <= Start(p, k) + MaxFrameBytes
                        /\ \A o \in Keys :
                             \/ b[k][o] = 0
                             \/ b[k][o] <= MaxFrameBytes + (IF o \in DOMAIN p THEN Start(p, o) ELSE vt) - Start(p, k)
    BY DEF Fair
  <1>2. \A o \in DOMAIN p : Start(p, o) \in Nat
    BY DEF Entry, Start
  <1>3. \A o \in DOMAIN pend : Start(pend, o) \in Nat /\ Start(pend, o) <= vt
    BY DEF IInv, Pending, Entry, Start, Fair
  <1>4. vt \in Nat /\ MaxFrameBytes \in Nat /\ k \in Keys /\ \A o \in Keys : b[k][o] \in Nat
    BY DEF IInv, SlotAssumption
  <1>5. CASE k \in DOMAIN pend /\ Start(p, k) = Start(pend, k) /\ b[k] = passed[k]
    <2>1. Start(p, k) <= vt /\ vt <= Start(p, k) + MaxFrameBytes
      BY <1>5 DEF IInv, Fair
    <2>2. ASSUME NEW o \in Keys
          PROVE  \/ b[k][o] = 0
                 \/ b[k][o] <= MaxFrameBytes + (IF o \in DOMAIN p THEN Start(p, o) ELSE vt) - Start(p, k)
      <3>1. \/ b[k][o] = 0
            \/ b[k][o] <= MaxFrameBytes + (IF o \in DOMAIN pend THEN Start(pend, o) ELSE vt) - Start(p, k)
        BY <1>5 DEF IInv, Fair
      <3>2. /\ o \in DOMAIN p /\ o \in DOMAIN pend => Start(p, o) = Start(pend, o)
            /\ o \in DOMAIN p /\ o \notin DOMAIN pend => Start(p, o) = vt
        OBVIOUS
      <3> QED
        BY <1>2, <1>3, <1>4, <3>1, <3>2
    <2> QED
      BY <2>1, <2>2
  <1>6. CASE Start(p, k) = vt /\ k \notin DOMAIN pend /\ b[k] = NotPassed
    BY <1>4, <1>6 DEF NotPassed, Entry
  <1> QED
    BY <1>5, <1>6

(* A frame that is not stale, whether it is accepted or not: what stays    *)
(* pending, and the incarnation that counts from now on.                   *)
LEMMA RetireKeeps ==
  ASSUME SlotAssumption, IInv, NEW f \in Frames, newest' = [newest EXCEPT ![f.d] = f.s]
  PROVE  /\ newest' \in [Displays -> Nat]
         /\ Pending(Kept(f), newest')
         /\ \A k \in DOMAIN Kept(f) : k \in DOMAIN pend /\ Kept(f)[k] = pend[k]
         /\ Waiting(Kept(f)) \in [Keys -> [Keys -> Nat]]
         /\ \A k \in DOMAIN Kept(f) : Waiting(Kept(f))[k] = passed[k]
         /\ \A k \in Keys \ DOMAIN Kept(f) : Waiting(Kept(f))[k] = NotPassed
  <1>1. f.d \in Displays /\ f.s \in Nat /\ newest \in [Displays -> Nat]
    BY FramesAre DEF IInv
  <1>2. newest' \in [Displays -> Nat] /\ newest'[f.d] = f.s /\ \A d \in Displays \ {f.d} : newest'[d] = newest[d]
    BY <1>1
  <1>3. /\ DOMAIN Kept(f) = {k \in DOMAIN pend : k[1] # f.d \/ k[2] = f.s}
        /\ Kept(f) = [k \in DOMAIN Kept(f) |-> pend[k]]
    BY KeptIs
  <1>4. /\ DOMAIN pend \subseteq Keys
        /\ \A k \in DOMAIN pend : Entry(pend[k], k) /\ newest[k[1]] = k[2] /\ k[1] \in Displays
    BY KeysAre DEF IInv, Pending
  <1>5. \A k \in DOMAIN Kept(f) : k \in DOMAIN pend /\ Kept(f)[k] = pend[k]
    BY <1>3
  <1>6. \A k \in DOMAIN Kept(f) : Entry(Kept(f)[k], k) /\ newest'[k[1]] = k[2]
    BY <1>2, <1>3, <1>4, <1>5
  <1>7. Kept(f) = [k \in DOMAIN Kept(f) |-> Kept(f)[k]]
    BY <1>3, <1>5
  <1>8. Pending(Kept(f), newest')
    BY <1>4, <1>5, <1>6, <1>7 DEF Pending
  <1>9. NotPassed \in [Keys -> Nat] /\ passed \in [Keys -> [Keys -> Nat]]
    BY DEF NotPassed, IInv
  <1>10. Waiting(Kept(f)) = [k \in Keys |-> IF k \in DOMAIN Kept(f) THEN passed[k] ELSE NotPassed]
    BY DEF Waiting
  <1> QED
    BY <1>2, <1>4, <1>5, <1>8, <1>9, <1>10

LEMMA RefuseStep ==
  ASSUME SlotAssumption, IInv, NEW f \in Frames, Refuse(f)
  PROVE  IInv'
  <1>1. /\ newest' = [newest EXCEPT ![f.d] = f.s] /\ pend' = Kept(f) /\ passed' = Waiting(Kept(f))
        /\ vt' = vt
    BY DEF Refuse
  <1>2. /\ newest' \in [Displays -> Nat] /\ Pending(pend', newest')
        /\ \A k \in DOMAIN pend' : k \in DOMAIN pend /\ pend'[k] = pend[k] /\ passed'[k] = passed[k]
        /\ passed' \in [Keys -> [Keys -> Nat]]
    BY <1>1, RetireKeeps
  <1>3. DOMAIN pend' \subseteq Keys /\ \A k \in DOMAIN pend' : Entry(pend'[k], k)
    BY <1>2 DEF Pending
  <1>4. \A k \in DOMAIN pend' : Start(pend', k) = Start(pend, k)
    BY <1>2 DEF Start
  <1>5. Fair(pend', vt, passed')
    BY <1>2, <1>3, <1>4, StaysFair
  <1> QED
    BY <1>1, <1>2, <1>5 DEF IInv

LEMMA ReplaceStep ==
  ASSUME SlotAssumption, IInv, NEW f \in Frames, Replace(f)
  PROVE  IInv'
  <1>1. PICK k : k = KeyOf(f)
    OBVIOUS
  <1>2. PICK q : q = Kept(f)
    OBVIOUS
  <1>3. PICK e : e = [f |-> f, finish |-> Finish(f)]
    OBVIOUS
  <1>4. /\ newest' = [newest EXCEPT ![f.d] = f.s] /\ passed' = Waiting(q) /\ vt' = vt
        /\ pend' = [i \in DOMAIN q \cup {k} |-> IF i = k THEN e ELSE q[i]]
        /\ f.size <= MaxFrameBytes
    BY <1>1, <1>2, <1>3 DEF Replace, InBudget
  <1>5. /\ newest' \in [Displays -> Nat] /\ Pending(q, newest')
        /\ \A i \in DOMAIN q : i \in DOMAIN pend /\ q[i] = pend[i] /\ passed'[i] = passed[i]
        /\ \A i \in Keys \ DOMAIN q : passed'[i] = NotPassed
        /\ passed' \in [Keys -> [Keys -> Nat]]
    BY <1>2, <1>4, RetireKeeps
  <1>6. /\ k \in Keys /\ k[1] = f.d /\ k[2] = f.s /\ f.d \in Displays
        /\ f.size \in Nat /\ f.size > 0 /\ vt \in Nat
    BY <1>1, FramesAre DEF IInv
  <1>7. /\ DOMAIN pend' = DOMAIN q \cup {k} /\ pend'[k] = e
        /\ \A i \in DOMAIN q \ {k} : pend'[i] = pend[i]
        /\ pend' = [i \in DOMAIN pend' |-> pend'[i]]
    BY <1>4, <1>5
  <1>8. k \in DOMAIN pend <=> k \in DOMAIN q
    BY <1>1, <1>2, <1>6, KeptIs
  <1>9. /\ Entry(e, k)
        /\ k \in DOMAIN q => e.finish - e.f.size = Start(pend, k)
        /\ k \notin DOMAIN q => e.finish - e.f.size = vt
    <2>1. e.f = f /\ e.finish = Finish(f)
      BY <1>3
    <2>2. CASE k \in DOMAIN q
      <3>1. Entry(pend[k], k) /\ q[k] = pend[k]
        BY <1>5, <2>2 DEF IInv, Pending
      <3>2. Finish(f) = pend[k].finish - pend[k].f.size + f.size
        BY <1>1, <1>2, <2>2, <3>1 DEF Finish
      <3>3. /\ Finish(f) \in Nat /\ Finish(f) >= f.size
            /\ Finish(f) - f.size = pend[k].finish - pend[k].f.size
        BY <1>6, <3>1, <3>2 DEF Entry
      <3> QED
        BY <1>1, <1>4, <1>6, <2>1, <2>2, <3>3 DEF Entry, Start
    <2>3. CASE k \notin DOMAIN q
      <3>1. Finish(f) = vt + f.size
        BY <1>1, <1>2, <2>3 DEF Finish
      <3> QED
        BY <1>1, <1>4, <1>6, <2>1, <2>3, <3>1 DEF Entry
    <2> QED
      BY <2>2, <2>3
  <1>10. DOMAIN pend' \subseteq Keys /\ \A i \in DOMAIN pend' : Entry(pend'[i], i)
    BY <1>5, <1>6, <1>7, <1>9 DEF Pending
  <1>11. newest'[f.d] = f.s
    BY <1>4, <1>6 DEF IInv
  <1>12. Pending(pend', newest')
    BY <1>5, <1>6, <1>7, <1>10, <1>11 DEF Pending
  <1>13. ASSUME NEW i \in DOMAIN pend'
         PROVE  \/ i \in DOMAIN pend /\ Start(pend', i) = Start(pend, i) /\ passed'[i] = passed[i]
                \/ Start(pend', i) = vt /\ i \notin DOMAIN pend /\ passed'[i] = NotPassed
    <2>1. CASE i \in DOMAIN q /\ i # k
      BY <1>5, <1>7, <2>1 DEF Start
    <2>2. CASE i = k /\ k \in DOMAIN q
      BY <1>5, <1>7, <1>9, <2>2 DEF Start
    <2>3. CASE i = k /\ k \notin DOMAIN q
      BY <1>5, <1>6, <1>7, <1>8, <1>9, <2>3 DEF Start
    <2> QED
      BY <1>7, <2>1, <2>2, <2>3
  <1>14. Fair(pend', vt, passed')
    BY <1>5, <1>10, <1>13, StaysFair
  <1> QED
    BY <1>4, <1>5, <1>12, <1>14 DEF IInv

(* Removing a track leaves the others as they are.                         *)
LEMMA RestIs ==
  ASSUME IInv, NEW k, NEW rest, rest = Restrict(pend, DOMAIN pend \ {k})
  PROVE  /\ DOMAIN rest = DOMAIN pend \ {k} /\ \A i \in DOMAIN rest : rest[i] = pend[i]
         /\ Pending(rest, newest)
         /\ \A i \in DOMAIN rest : Start(rest, i) = Start(pend, i)
  <1>1. DOMAIN rest = DOMAIN pend \ {k} /\ \A i \in DOMAIN rest : rest[i] = pend[i]
    BY DEF Restrict
  <1>2. rest = [i \in DOMAIN rest |-> rest[i]]
    BY <1>1 DEF Restrict
  <1> QED
    BY <1>1, <1>2 DEF IInv, Pending, Start

LEMMA TakeTrackStep ==
  ASSUME SlotAssumption, IInv, NEW k \in Keys, TakeTrack(k)
  PROVE  IInv'
  <1>1. /\ pend' = Restrict(pend, DOMAIN pend \ {k}) /\ passed' = [passed EXCEPT ![k] = NotPassed]
        /\ UNCHANGED <<newest, vt>>
    BY DEF TakeTrack
  <1>2. /\ DOMAIN pend' = DOMAIN pend \ {k} /\ Pending(pend', newest)
        /\ \A i \in DOMAIN pend' : Start(pend', i) = Start(pend, i)
    BY <1>1, RestIs
  <1>3. passed' \in [Keys -> [Keys -> Nat]] /\ \A i \in Keys \ {k} : passed'[i] = passed[i]
    BY <1>1 DEF IInv, NotPassed
  <1>4. DOMAIN pend' \subseteq Keys /\ \A i \in DOMAIN pend' : Entry(pend'[i], i)
    BY <1>2 DEF Pending
  <1>5. \A i \in DOMAIN pend' : i \in DOMAIN pend /\ passed'[i] = passed[i]
    BY <1>2, <1>3, <1>4
  <1>6. Fair(pend', vt, passed')
    BY <1>2, <1>3, <1>4, <1>5, StaysFair
  <1> QED
    BY <1>1, <1>2, <1>3, <1>6 DEF IInv

(* The step that the bound is about: the frame that is taken is the first  *)
(* that finishes, so virtual time moves past no frame that waits, and it   *)
(* moves at least by what the other track is given.                        *)
LEMMA TakeStep ==
  ASSUME SlotAssumption, IInv, Take
  PROVE  IInv'
  <1>1. PICK k : k = CHOOSE a \in DOMAIN pend : \A b \in DOMAIN pend : Before(a, b)
    OBVIOUS
  <1>2. k \in DOMAIN pend /\ \A b \in DOMAIN pend : pend[k].finish <= pend[b].finish
    BY <1>1, TakeChooses DEF Take
  <1>3. PICK rest : rest = Restrict(pend, DOMAIN pend \ {k})
    OBVIOUS
  <1>4. /\ pend' = rest /\ vt' = Max({vt, pend[k].finish}) /\ newest' = newest
        /\ passed' = [i \in Keys |-> IF i \in DOMAIN rest
                        THEN [passed[i] EXCEPT ![k] = passed[i][k] + pend[k].f.size] ELSE NotPassed]
    BY <1>1, <1>3 DEF Take
  <1>5. /\ DOMAIN pend' = DOMAIN pend \ {k} /\ Pending(pend', newest')
        /\ \A i \in DOMAIN pend' : Start(pend', i) = Start(pend, i)
    BY <1>3, <1>4, RestIs
  <1>6. /\ DOMAIN pend \subseteq Keys /\ passed \in [Keys -> [Keys -> Nat]] /\ vt \in Nat
        /\ MaxFrameBytes \in Nat
    BY DEF IInv, Pending, SlotAssumption
  <1>7. ASSUME NEW i \in DOMAIN pend
        PROVE  /\ pend[i].finish \in Nat /\ pend[i].f.size \in Nat /\ pend[i].f.size <= MaxFrameBytes
               /\ Start(pend, i) \in Nat /\ Start(pend, i) + pend[i].f.size = pend[i].finish
               /\ Start(pend, i) <= vt /\ vt <= Start(pend, i) + MaxFrameBytes
    <2>1. /\ pend[i].finish \in Nat /\ pend[i].f.size \in Nat /\ pend[i].f.size <= MaxFrameBytes
          /\ pend[i].finish >= pend[i].f.size
      BY DEF IInv, Pending, Entry
    <2>2. Start(pend, i) <= vt /\ vt <= Start(pend, i) + MaxFrameBytes
      BY DEF IInv, Fair
    <2> QED
      BY <2>1, <2>2 DEF Start
  <1>8. vt' \in {vt, pend[k].finish} /\ vt' \in Nat /\ vt <= vt' /\ pend[k].finish <= vt'
    BY <1>2, <1>4, <1>6, <1>7, LaterOfTwo
  <1>9. passed' \in [Keys -> [Keys -> Nat]]
    <2>1. k \in Keys /\ pend[k].f.size \in Nat /\ NotPassed \in [Keys -> Nat]
      BY <1>2, <1>6, <1>7 DEF NotPassed
    <2>2. \A i \in Keys : passed[i] \in [Keys -> Nat] /\ passed[i][k] + pend[k].f.size \in Nat
      BY <1>6, <2>1
    <2>3. \A i \in Keys : [passed[i] EXCEPT ![k] = passed[i][k] + pend[k].f.size] \in [Keys -> Nat]
      BY <2>1, <2>2
    <2> QED
      BY <1>4, <2>1, <2>3
  <1>10. ASSUME NEW i \in DOMAIN pend'
         PROVE  /\ Start(pend', i) <= vt' /\ vt' <= Start(pend', i) + MaxFrameBytes
                /\ \A o \in Keys :
                     \/ passed'[i][o] = 0
                     \/ passed'[i][o] <= MaxFrameBytes +
                          (IF o \in DOMAIN pend' THEN Start(pend', o) ELSE vt') - Start(pend', i)
    <2>1. i \in DOMAIN pend /\ i # k /\ i \in Keys /\ Start(pend', i) = Start(pend, i)
      BY <1>5, <1>6
    <2>2. pend[k].finish <= Start(pend, i) + MaxFrameBytes
      <3>1. pend[k].finish <= pend[i].finish
        BY <1>2, <2>1
      <3> QED
        BY <1>2, <1>6, <1>7, <2>1, <3>1
    <2>3. Start(pend', i) <= vt' /\ vt' <= Start(pend', i) + MaxFrameBytes
      BY <1>6, <1>7, <1>8, <2>1, <2>2
    <2>4. passed'[i] = [passed[i] EXCEPT ![k] = passed[i][k] + pend[k].f.size]
      BY <1>4, <2>1
    <2>5. ASSUME NEW o \in Keys
          PROVE  \/ passed'[i][o] = 0
                 \/ passed'[i][o] <= MaxFrameBytes +
                      (IF o \in DOMAIN pend' THEN Start(pend', o) ELSE vt') - Start(pend', i)
      <3>1. /\ passed[i][o] \in Nat
            /\ \/ passed[i][o] = 0
               \/ passed[i][o] <= MaxFrameBytes +
                    (IF o \in DOMAIN pend THEN Start(pend, o) ELSE vt) - Start(pend, i)
        BY <1>6, <2>1 DEF IInv, Fair
      <3>2. CASE o = k
        <4>1. passed'[i][o] = passed[i][o] + pend[k].f.size /\ o \notin DOMAIN pend'
          BY <1>5, <1>6, <2>1, <2>4, <3>2
        <4>2. passed[i][o] = 0 \/ passed[i][o] <= MaxFrameBytes + Start(pend, k) - Start(pend, i)
          BY <1>2, <3>1, <3>2
        <4>3. /\ pend[k].f.size \in Nat /\ pend[k].f.size <= MaxFrameBytes /\ Start(pend, k) \in Nat
              /\ Start(pend, k) + pend[k].f.size <= vt'
          BY <1>2, <1>7, <1>8
        <4>4. Start(pend, i) \in Nat /\ Start(pend, i) <= vt'
          BY <1>6, <1>7, <1>8, <2>1
        <4>5. passed[i][o] + pend[k].f.size <= MaxFrameBytes + vt' - Start(pend, i)
          BY <1>6, <1>8, <3>1, <4>2, <4>3, <4>4
        <4> QED
          BY <2>1, <4>1, <4>5
      <3>3. CASE o # k
        <4>1. passed'[i][o] = passed[i][o] /\ (o \in DOMAIN pend' <=> o \in DOMAIN pend)
          BY <1>5, <1>6, <2>1, <2>4, <3>3
        <4>2. CASE o \in DOMAIN pend
          BY <1>5, <2>1, <3>1, <4>1, <4>2
        <4>3. CASE o \notin DOMAIN pend
          <5>1. passed[i][o] = 0 \/ passed[i][o] <= MaxFrameBytes + vt - Start(pend, i)
            BY <3>1, <4>3
          <5>2. passed[i][o] = 0 \/ passed[i][o] <= MaxFrameBytes + vt' - Start(pend, i)
            BY <1>6, <1>7, <1>8, <2>1, <3>1, <5>1
          <5> QED
            BY <2>1, <4>1, <4>3, <5>2
        <4> QED
          BY <4>2, <4>3
      <3> QED
        BY <3>2, <3>3
    <2> QED
      BY <2>3, <2>5
  <1>11. Fair(pend', vt', passed')
    BY <1>10 DEF Fair
  <1> QED
    BY <1>4, <1>5, <1>8, <1>9, <1>11 DEF IInv

LEMMA NextIInv == SlotAssumption /\ IInv /\ [Next]_vars => IInv'
  <1> SUFFICES ASSUME SlotAssumption, IInv, [Next]_vars PROVE IInv'
    OBVIOUS
  <1>1. CASE UNCHANGED vars
    BY <1>1 DEF vars, IInv
  <1>2. ASSUME NEW f \in Frames, Replace(f) PROVE IInv'
    BY <1>2, ReplaceStep
  <1>3. ASSUME NEW f \in Frames, Refuse(f) PROVE IInv'
    BY <1>3, RefuseStep
  <1>4. CASE Take
    BY <1>4, TakeStep
  <1>5. ASSUME NEW k \in Keys, TakeTrack(k) PROVE IInv'
    BY <1>5, TakeTrackStep
  <1> QED
    BY <1>1, <1>2, <1>3, <1>4, <1>5 DEF Next

(* No track starves in the slot: however many tracks there are, and        *)
(* however their frames are replaced, a track that waits is passed over by *)
(* at most two frames' worth of bytes of any other track.                  *)
THEOREM BypassIsBounded == SlotAssumption => (Spec => []BoundedBypass)
  <1> SUFFICES ASSUME SlotAssumption PROVE Spec => []BoundedBypass
    OBVIOUS
  <1>1. Init => IInv
    BY InitIInv
  <1>2. IInv /\ [Next]_vars => IInv'
    BY NextIInv
  <1>3. IInv => BoundedBypass
    <2> SUFFICES ASSUME IInv, NEW k \in DOMAIN pend, NEW o \in Keys
                 PROVE  passed[k][o] <= 2 * MaxFrameBytes
      BY DEF BoundedBypass
    <2>1. /\ k \in Keys /\ passed[k][o] \in Nat /\ vt \in Nat /\ MaxFrameBytes \in Nat
          /\ \A i \in DOMAIN pend : Start(pend, i) \in Nat
      BY DEF IInv, Pending, Entry, Start, SlotAssumption
    <2>2. /\ \A i \in DOMAIN pend : Start(pend, i) <= vt
          /\ vt <= Start(pend, k) + MaxFrameBytes
          /\ \/ passed[k][o] = 0
             \/ passed[k][o] <= MaxFrameBytes +
                  (IF o \in DOMAIN pend THEN Start(pend, o) ELSE vt) - Start(pend, k)
      BY DEF IInv, Fair
    <2> QED
      BY <2>1, <2>2
  <1> QED
    BY <1>1, <1>2, <1>3, PTL DEF Spec

-----------------------------------------------------------------------------
(* The refinement.  Every track has the pending frame, or none.            *)
Shown(p) == [k \in Keys |-> IF k \in DOMAIN p THEN p[k].f ELSE [size |-> 0]]

LEMMA NoFrameIsNone ==
  ASSUME IInv, NEW k \in DOMAIN pend
  PROVE  Shown(pend)[k] = pend[k].f /\ Shown(pend)[k] # [size |-> 0]
  <1>1. k \in Keys /\ pend[k].f.size > 0 /\ pend[k].f.size \in Nat
    BY DEF IInv, Pending, Entry
  <1>2. [size |-> 0].size = 0
    OBVIOUS
  <1> QED
    BY <1>1, <1>2 DEF Shown

(* What retiring shows.                                                    *)
LEMMA RetiredIs ==
  ASSUME SlotAssumption, IInv, NEW f \in Frames
  PROVE  Shown(Kept(f)) = [k \in Keys |-> IF k[1] = f.d /\ k[2] # f.s THEN [size |-> 0] ELSE Shown(pend)[k]]
  <1>1. \A k \in Keys : Shown(Kept(f))[k] =
          IF k[1] = f.d /\ k[2] # f.s THEN [size |-> 0] ELSE Shown(pend)[k]
    BY KeptIs DEF Shown
  <1> QED
    BY <1>1 DEF Shown

(* A frame that is not stale is of the newest incarnation, or a newer one. *)
LEMMA NotStale ==
  ASSUME SlotAssumption, IInv, NEW f \in Frames, ~Stale(f)
  PROVE  newest[f.d] <= f.s
  BY FramesAre DEF IInv, Stale

LEMMA RefuseRefines ==
  ASSUME SlotAssumption, IInv, NEW f \in Frames, Refuse(f)
  PROVE  Slot!Refuse(f)
  <1>1. newest[f.d] <= f.s /\ newest' = [newest EXCEPT ![f.d] = f.s] /\ pend' = Kept(f)
    BY NotStale DEF Refuse
  <1>2. Shown(pend') = [k \in Keys |-> IF k[1] = f.d /\ k[2] # f.s THEN [size |-> 0] ELSE Shown(pend)[k]]
    BY <1>1, RetiredIs
  <1> QED
    BY <1>1, <1>2 DEF Slot!Refuse, Slot!Retired, Slot!NoFrame, Shown

LEMMA ReplaceRefines ==
  ASSUME SlotAssumption, IInv, NEW f \in Frames, Replace(f)
  PROVE  Slot!Accept(f)
  <1>1. PICK k : k = KeyOf(f)
    OBVIOUS
  <1>2. PICK q : q = Kept(f)
    OBVIOUS
  <1>3. k \in Keys /\ k[1] = f.d /\ k[2] = f.s
    BY <1>1, FramesAre
  <1>4. /\ newest[f.d] <= f.s /\ newest' = [newest EXCEPT ![f.d] = f.s]
        /\ pend' = [i \in DOMAIN q \cup {k} |-> IF i = k THEN [f |-> f, finish |-> Finish(f)] ELSE q[i]]
    BY <1>1, <1>2, NotStale DEF Replace
  <1>5. k \in DOMAIN pend => ~pend[k].f.kf \/ f.kf
    <2>1. ASSUME k \in DOMAIN pend PROVE k \in DOMAIN q /\ q[k] = pend[k]
      BY <1>2, <1>3, <2>1, KeptIs
    <2> QED
      BY <1>1, <1>2, <2>1 DEF Replace, CanEnter, ShouldReplace
  <1>6. Shown(pend)[k] = [size |-> 0] \/ ~Shown(pend)[k].kf \/ f.kf
    BY <1>3, <1>5 DEF Shown
  <1>7. /\ DOMAIN pend' = DOMAIN q \cup {k} /\ pend'[k].f = f
        /\ \A i \in DOMAIN q \ {k} : pend'[i] = q[i]
    BY <1>4
  <1>8. \A i \in Keys : Shown(pend')[i] = IF i = k THEN f ELSE Shown(q)[i]
    BY <1>7 DEF Shown
  <1>9. Shown(pend') = [Shown(q) EXCEPT ![k] = f]
    BY <1>3, <1>8 DEF Shown
  <1>10. Shown(q) = [i \in Keys |-> IF i[1] = f.d /\ i[2] # f.s THEN [size |-> 0] ELSE Shown(pend)[i]]
    BY <1>2, RetiredIs
  <1> QED
    BY <1>1, <1>4, <1>6, <1>9, <1>10 DEF Slot!Accept, Slot!Retired, Slot!NoFrame, Slot!KeyOf, KeyOf, Shown

(* Taking a track's frame, whichever way it was chosen.                    *)
LEMMA TakeRefines ==
  ASSUME IInv, NEW k \in DOMAIN pend, pend' = Restrict(pend, DOMAIN pend \ {k}), newest' = newest
  PROVE  k \in Keys /\ Slot!Take(k)
  <1>1. k \in Keys /\ Shown(pend)[k] # [size |-> 0]
    BY NoFrameIsNone DEF IInv, Pending
  <1>2. DOMAIN pend' = DOMAIN pend \ {k} /\ \A i \in DOMAIN pend' : pend'[i] = pend[i]
    BY DEF Restrict
  <1>3. \A i \in Keys : Shown(pend')[i] = IF i = k THEN [size |-> 0] ELSE Shown(pend)[i]
    BY <1>2 DEF Shown
  <1>4. Shown(pend') = [Shown(pend) EXCEPT ![k] = [size |-> 0]]
    BY <1>1, <1>3 DEF Shown
  <1> QED
    BY <1>1, <1>4 DEF Slot!Take, Slot!NoFrame, Shown

(* TrackLatestSlot is what the sender needs of a slot.                     *)
THEOREM SlotIsImplemented == SlotAssumption => (Spec => ImplementsSlot)
  <1> SUFFICES ASSUME SlotAssumption PROVE Spec => ImplementsSlot
    OBVIOUS
  <1>1. Init => IInv
    BY InitIInv
  <1>2. IInv /\ [Next]_vars => IInv'
    BY NextIInv
  <1>3. Init => Slot!Init
    <2> SUFFICES ASSUME Init PROVE Slot!Init
      OBVIOUS
    <2>1. DOMAIN pend = {} /\ newest = [d \in Displays |-> 0]
      BY DEF Init
    <2>2. Slot!Displays = Displays
      BY DEF Slot!Displays, Displays
    <2> QED
      BY <2>1, <2>2 DEF Slot!Init, Slot!NoFrame
  <1>4. IInv /\ [Next]_vars => [Slot!Next]_(Slot!vars)
    <2> SUFFICES ASSUME IInv, [Next]_vars PROVE [Slot!Next]_(Slot!vars)
      OBVIOUS
    <2>1. Slot!Frames = Frames
      BY DEF Slot!Frames, Frames, Slot!Displays, Displays, Slot!Streams, Streams
    <2>2. CASE UNCHANGED vars
      BY <2>2 DEF vars, Slot!vars
    <2>3. ASSUME NEW f \in Frames, Replace(f) PROVE Slot!Next
      BY <2>1, <2>3, ReplaceRefines DEF Slot!Next
    <2>4. ASSUME NEW f \in Frames, Refuse(f) PROVE Slot!Next
      BY <2>1, <2>4, RefuseRefines DEF Slot!Next
    <2>5. CASE Take
      <3>1. PICK k : k = CHOOSE a \in DOMAIN pend : \A b \in DOMAIN pend : Before(a, b)
        OBVIOUS
      <3>2. k \in DOMAIN pend
        BY <2>5, <3>1, TakeChooses DEF Take
      <3>3. pend' = Restrict(pend, DOMAIN pend \ {k}) /\ newest' = newest
        BY <2>5, <3>1 DEF Take
      <3> QED
        BY <3>2, <3>3, TakeRefines DEF Slot!Next
    <2>6. ASSUME NEW k \in Keys, TakeTrack(k) PROVE Slot!Next
      <3>1. k \in DOMAIN pend /\ pend' = Restrict(pend, DOMAIN pend \ {k}) /\ newest' = newest
        BY <2>6 DEF TakeTrack
      <3> QED
        BY <3>1, TakeRefines DEF Slot!Next
    <2> QED
      BY <2>2, <2>3, <2>4, <2>5, <2>6 DEF Next
  <1> QED
    BY <1>1, <1>2, <1>3, <1>4, PTL DEF Spec, ImplementsSlot, Slot!Spec

=============================================================================
