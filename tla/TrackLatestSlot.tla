-------------------------- MODULE TrackLatestSlot --------------------------
(***************************************************************************)
(* TrackLatestSlot (transport/application.rs): the latest pending frame of *)
(* every video track, within a byte budget, taken in order of virtual      *)
(* finish so that a large frame is not passed over for ever.               *)
(*                                                                         *)
(* Every operation runs under the slot's mutex, so one is one step.  A     *)
(* track key is Source(display, stream); frames carry the same ordering    *)
(* epoch (VideoSender has both kinds of keys and the epochs).              *)
(***************************************************************************)
EXTENDS Integers, FiniteSets, FiniteSetsExt, Functions

CONSTANTS
  Keys,            \* the tracks: <<display, stream>>, both positive
  Sizes,           \* payload sizes of the frames
  MaxFrameBytes,   \* MAX_VIDEO_FRAME_BYTES
  MaxBytes,        \* MAX_PENDING_VIDEO_BYTES
  MaxTracks,       \* max_tracks
  MaxTakes         \* bound: frames taken in a behaviour

(* What TrackLatestSlot::new is given.                                     *)
SlotAssumption ==
  /\ Keys \subseteq (Nat \ {0}) \X (Nat \ {0}) /\ Sizes \subseteq Nat \ {0}
  /\ MaxFrameBytes \in Nat /\ MaxBytes \in Nat /\ MaxTracks \in Nat \ {0}

VARIABLES
  pend,      \* pending: track key -> frame and virtual finish
  newest,    \* newest_stream of each display, 0 for None
  last,      \* last_taken
  vt,        \* virtual_time
  bytes,     \* bytes
  passed,    \* history: bytes of each other track taken while a track waits
  takes      \* history: frames taken

vars == <<pend, newest, last, vt, bytes, passed, takes>>

Displays == {k[1] : k \in Keys}
Streams == {k[2] : k \in Keys}
Frames == {f \in [d : Displays, s : Streams, size : Sizes, kf : BOOLEAN] : <<f.d, f.s>> \in Keys}
NoKey == <<0, 0>>
KeyOf(f) == <<f.d, f.s>>
NotPassed == [k \in Keys |-> 0]

Init ==
  /\ pend = <<>> /\ newest = [d \in Displays |-> 0]
  /\ last = NoKey /\ vt = 0 /\ bytes = 0
  /\ passed = [k \in Keys |-> NotPassed] /\ takes = 0

-----------------------------------------------------------------------------
SizeOf(p, k) == IF k \in DOMAIN p THEN p[k].f.size ELSE 0
TotalSize(p) == MapThenSumSet(LAMBDA k : p[k].f.size, DOMAIN p)

(* Retiring the display's other incarnations.                              *)
MutNotRetired(f) == pend
Kept(f) ==
  IF newest[f.d] = f.s THEN pend
  ELSE Restrict(pend, {k \in DOMAIN pend : k[1] # f.d \/ k[2] = f.s})
KeptBytes(f) == bytes - (TotalSize(pend) - TotalSize(Kept(f)))

(* The byte budget.                                                        *)
InBudget(f) ==
  /\ f.size <= MaxFrameBytes
  /\ KeptBytes(f) - SizeOf(Kept(f), KeyOf(f)) + f.size <= MaxBytes

(* should_replace_pending_video, within one epoch.                         *)
ShouldReplace(old, new) == ~old.kf \/ new.kf

(* bytes after an accepted frame.                                          *)
BytesAfter(f) == KeptBytes(f) - SizeOf(Kept(f), KeyOf(f)) + f.size

(* The virtual finish of an accepted frame keeps the credit of the frame   *)
(* it replaces.                                                            *)
MutFinishReset(f) == vt + f.size
Finish(f) ==
  IF KeyOf(f) \in DOMAIN Kept(f)
  THEN Kept(f)[KeyOf(f)].finish - Kept(f)[KeyOf(f)].f.size + f.size
  ELSE vt + f.size

Waiting(p) == [k \in Keys |-> IF k \in DOMAIN p THEN passed[k] ELSE NotPassed]

(* replace_when_with                                                       *)
Stale(f) == newest[f.d] > f.s
CanEnter(f) ==
  IF KeyOf(f) \in DOMAIN Kept(f) THEN ShouldReplace(Kept(f)[KeyOf(f)].f, f)
  ELSE Cardinality(DOMAIN Kept(f)) < MaxTracks

Replace(f) ==
  /\ ~Stale(f) /\ InBudget(f) /\ CanEnter(f)
  /\ newest' = [newest EXCEPT ![f.d] = f.s]
  /\ pend' = [k \in DOMAIN Kept(f) \union {KeyOf(f)} |->
                IF k = KeyOf(f) THEN [f |-> f, finish |-> Finish(f)] ELSE Kept(f)[k]]
  /\ bytes' = BytesAfter(f)
  /\ passed' = Waiting(Kept(f))
  /\ UNCHANGED <<last, vt, takes>>

(* A refused frame still retires the older incarnation.                    *)
Refuse(f) ==
  /\ ~Stale(f) /\ ~(InBudget(f) /\ CanEnter(f))
  /\ newest' = [newest EXCEPT ![f.d] = f.s]
  /\ pend' = Kept(f) /\ bytes' = KeptBytes(f)
  /\ passed' = Waiting(Kept(f))
  /\ UNCHANGED <<last, vt, takes>>

(* take: the smallest virtual finish, ties after the track taken last.     *)
KeyLeq(a, b) == a[1] < b[1] \/ (a[1] = b[1] /\ a[2] <= b[2])
Before(a, b) ==
  LET turn(k) == IF last # NoKey /\ KeyLeq(k, last) THEN 1 ELSE 0
  IN \/ pend[a].finish < pend[b].finish
     \/ pend[a].finish = pend[b].finish
        /\ (turn(a) < turn(b) \/ (turn(a) = turn(b) /\ KeyLeq(a, b)))

Take ==
  /\ DOMAIN pend # {} /\ takes < MaxTakes
  /\ LET k == CHOOSE a \in DOMAIN pend : \A b \in DOMAIN pend : Before(a, b)
         rest == Restrict(pend, DOMAIN pend \ {k})
     IN /\ pend' = rest
        /\ last' = k
        /\ bytes' = bytes - pend[k].f.size
        /\ vt' = Max({vt, pend[k].finish})
        /\ passed' = [i \in Keys |-> IF i \in DOMAIN rest
                        THEN [passed[i] EXCEPT ![k] = @ + pend[k].f.size] ELSE NotPassed]
  /\ takes' = takes + 1
  /\ UNCHANGED newest

(* take_track: the writer, waiting at the gate with a frame of track k,    *)
(* takes the newer one.                                                    *)
TakeTrack(k) ==
  /\ k \in DOMAIN pend /\ last = k
  /\ pend' = Restrict(pend, DOMAIN pend \ {k})
  /\ bytes' = bytes - pend[k].f.size
  /\ passed' = [passed EXCEPT ![k] = NotPassed]
  /\ UNCHANGED <<newest, last, vt, takes>>

Next ==
  \/ \E f \in Frames : Replace(f) \/ Refuse(f)
  \/ Take
  \/ \E k \in Keys : TakeTrack(k)

Spec == Init /\ [][Next]_vars

-----------------------------------------------------------------------------
(* Properties.                                                             *)

(* The incremental byte count is what is pending, and the budget and the   *)
(* track limit hold after every replacement, retirement and take.          *)
BytesWithinBudget ==
  /\ bytes = TotalSize(pend) /\ bytes <= MaxBytes
  /\ Cardinality(DOMAIN pend) <= MaxTracks

(* A waiting track, however often its frame is replaced, is not passed     *)
(* over by more than two frames' worth of bytes of any one other track.    *)
BoundedBypass ==
  \A k \in DOMAIN pend, other \in Keys : passed[k][other] <= 2 * MaxFrameBytes

(* The slot bounds what it holds and how long a track waits in it.         *)
SlotIsBounded == BytesWithinBudget /\ BoundedBypass

(* The slot is what the sender needs.                                      *)
Slot == INSTANCE VideoSlot WITH
  pending <- [k \in Keys |-> IF k \in DOMAIN pend THEN pend[k].f ELSE [size |-> 0]]
ImplementsSlot == Slot!Spec
=============================================================================
