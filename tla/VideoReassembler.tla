-------------------------- MODULE VideoReassembler --------------------------
(***************************************************************************)
(* VideoReassembler (transport/video_datagram.rs): fragments of encoded    *)
(* frames arrive in datagrams that may be lost, duplicated and reordered;  *)
(* complete frames leave in order, incomplete ones expire or are evicted.  *)
(*                                                                         *)
(* A frame is its transport id; every fragment weighs one unit of memory.  *)
(* The sender is honest: the fragments of a frame agree on its header.     *)
(***************************************************************************)
EXTENDS Integers, Sequences, FiniteSets, FiniteSetsExt

CONSTANTS
  MaxFrames,         \* bound: frames in a behaviour
  Parts,             \* fragments of each frame
  Keyframes,         \* the frames that carry FLAG_KEYFRAME
  MaxPending,        \* config.max_pending_frames
  MaxMemory,         \* config.max_memory_bytes
  IdleDeadline,      \* config.fragment_deadline
  KeyIdleDeadline,   \* config.keyframe_fragment_deadline
  Lifetime,          \* config.frame_lifetime
  KeyLifetime,       \* config.keyframe_lifetime
  RequireKeyframe,   \* config.require_initial_keyframe
  RequestAfter,      \* config.keyframe_request_after_drops
  RequestInterval,   \* config.keyframe_request_interval
  MaxTime            \* bound: clock ticks in a behaviour

FrameIds == 1..MaxFrames
NoTime == -1

(* What VideoFrameReassembler::new is given.                               *)
ReassemblerAssumption ==
  /\ Parts \in [FrameIds -> Nat \ {0}] /\ Keyframes \subseteq FrameIds
  /\ MaxPending \in Nat \ {0} /\ MaxMemory \in Nat \ {0}
  /\ RequireKeyframe \in BOOLEAN

VARIABLES
  now,        \* the clock
  pending,    \* frame id -> fragments received, creation and last progress
  bytes,      \* pending_bytes
  lastDone,   \* last_completed_frame_id
  hasKey,     \* has_completed_keyframe
  drops,      \* consecutive_dropped_frames, as far as RequestAfter
  lastReq,    \* last_keyframe_request
  failed,     \* push returned an error, which ends the connection
  open,       \* history: frames begun, neither delivered nor in dropped_frames
  delivered   \* history: completed frames, in order

state == <<pending, bytes, lastDone, hasKey, drops, lastReq>>
vars == <<now, state, failed, open, delivered>>

Fragments == UNION {{<<f, i>> : i \in 1..Parts[f]} : f \in FrameIds}
IsKey(f) == f \in Keyframes

Init ==
  /\ now = 0
  /\ pending = <<>> /\ bytes = 0
  /\ lastDone = 0 /\ hasKey = ~RequireKeyframe
  /\ drops = 0 /\ lastReq = NoTime /\ failed = FALSE
  /\ open = 0 /\ delivered = <<>>

-----------------------------------------------------------------------------
(* drop_frame: the frames F leave the map p, with the bytes they hold.     *)
Without(p, F) == [f \in DOMAIN p \ F |-> p[f]]
Weight(p, F) == MapThenSumSet(LAMBDA f : Cardinality(p[f].got), F)

Expired ==
  {f \in DOMAIN pending :
     LET idle == IF IsKey(f) THEN KeyIdleDeadline ELSE IdleDeadline
         life == IF IsKey(f) THEN KeyLifetime ELSE Lifetime
     IN now - pending[f].progress >= idle \/ now - pending[f].created >= life}

(* record_drops and should_request_keyframe: only whether the count has    *)
(* reached RequestAfter is ever looked at, so it stops there.              *)
RecordDrops(n, k) == Min({n + k, RequestAfter})
RequestAt(n, last) ==
  IF n >= RequestAfter /\ (last = NoTime \/ now - last >= RequestInterval)
  THEN now ELSE last

(* evict_oldest: the oldest delta, or the oldest keyframe if there is none.*)
Victim(F) == IF F \ Keyframes # {} THEN Min(F \ Keyframes) ELSE Min(F)

(* What push drops before it looks at the fragment of frame f.             *)
TooMany(F) == Cardinality(F) >= MaxPending
Evicted(f) ==
  LET kept == DOMAIN pending \ Expired
  IN IF f \notin kept /\ TooMany(kept) THEN {Victim(kept)} ELSE {}
Dropped(f) == Expired \union Evicted(f)
IsNew(f) == f \notin DOMAIN pending \ Expired

(* The map with frame f in it, and with fragment i of f stored.            *)
Opened(f) ==
  [g \in (DOMAIN pending \ Dropped(f)) \union {f} |->
     IF g = f /\ IsNew(f) THEN [got |-> {}, created |-> now, progress |-> now]
     ELSE pending[g]]
Stored(f, i) ==
  [Opened(f) EXCEPT ![f] = [@ EXCEPT !.got = @ \union {i}, !.progress = now]]
(* pending_bytes at that point.                                            *)
MutBytesLeak(f) == bytes
OpenBytes(f) == bytes - Weight(pending, Dropped(f))

DropsAfterExpiry == RecordDrops(drops, Cardinality(Expired))
DropsAfterRoom(f) == RecordDrops(drops, Cardinality(Dropped(f)))
RequestAfterExpiry == RequestAt(DropsAfterExpiry, lastReq)

(* outcome.dropped_frames at that point.                                   *)
MutEvictionUnreported(f) == Cardinality(Expired)
ReportedFor(f) == Cardinality(Dropped(f))

(* frame_id <= last_completed_frame_id.                                    *)
IsObsolete(f) == f <= lastDone

(* drop_obsolete_pending.                                                  *)
Overtaken(f) == {g \in DOMAIN Opened(f) : g < f}

-----------------------------------------------------------------------------
(* The network loses, repeats and reorders datagrams: any fragment may     *)
(* arrive at any time, any number of times or never.                       *)
Tick ==
  /\ now < MaxTime
  /\ now' = now + 1
  /\ UNCHANGED <<state, failed, open, delivered>>

(* expire, on the poll timer.                                              *)
Expire ==
  /\ ~failed
  /\ pending' = Without(pending, Expired)
  /\ bytes' = bytes - Weight(pending, Expired)
  /\ drops' = DropsAfterExpiry
  /\ lastReq' = RequestAfterExpiry
  /\ open' = open - Cardinality(Expired)
  /\ UNCHANGED <<now, lastDone, hasKey, failed, delivered>>

(* A fragment of a frame at or below the last completed one.               *)
PushObsolete(x) ==
  /\ IsObsolete(x[1])
  /\ pending' = Without(pending, Expired)
  /\ bytes' = bytes - Weight(pending, Expired)
  /\ drops' = DropsAfterExpiry /\ lastReq' = RequestAfterExpiry
  /\ open' = open - Cardinality(Expired)
  /\ UNCHANGED <<lastDone, hasKey, failed, delivered>>

(* The account of open frames when frame f is opened and k are reported.   *)
OpenAfter(f, k) == open + (IF IsNew(f) THEN 1 ELSE 0) - k

PushDuplicate(x) ==
  LET f == x[1] IN
  /\ ~IsObsolete(f) /\ x[2] \in Opened(f)[f].got
  /\ pending' = Opened(f) /\ bytes' = OpenBytes(f)
  /\ drops' = DropsAfterRoom(f) /\ lastReq' = RequestAfterExpiry
  /\ open' = OpenAfter(f, ReportedFor(f))
  /\ UNCHANGED <<lastDone, hasKey, failed, delivered>>

(* MemoryLimit: the frame is dropped and the error ends the connection.    *)
PushOverMemory(x) ==
  LET f == x[1] IN
  /\ ~IsObsolete(f) /\ x[2] \notin Opened(f)[f].got /\ OpenBytes(f) + 1 > MaxMemory
  /\ pending' = Without(Opened(f), {f})
  /\ bytes' = OpenBytes(f) - Weight(Opened(f), {f})
  /\ drops' = DropsAfterRoom(f) /\ lastReq' = RequestAfterExpiry
  /\ failed' = TRUE /\ open' = OpenAfter(f, 0)
  /\ UNCHANGED <<lastDone, hasKey, delivered>>

Fits(x) ==
  ~IsObsolete(x[1]) /\ x[2] \notin Opened(x[1])[x[1]].got /\ OpenBytes(x[1]) + 1 <= MaxMemory
Whole(x) == Cardinality(Stored(x[1], x[2])[x[1]].got) = Parts[x[1]]

PushPart(x) ==
  LET f == x[1] IN
  /\ Fits(x) /\ ~Whole(x)
  /\ pending' = Stored(f, x[2]) /\ bytes' = OpenBytes(f) + 1
  /\ drops' = DropsAfterRoom(f)
  /\ lastReq' = RequestAt(DropsAfterRoom(f), RequestAfterExpiry)
  /\ open' = OpenAfter(f, ReportedFor(f))
  /\ UNCHANGED <<lastDone, hasKey, failed, delivered>>

(* A complete delta before the first keyframe is dropped.                  *)
PushEarly(x) ==
  LET f == x[1] IN
  /\ Fits(x) /\ Whole(x) /\ ~hasKey /\ ~IsKey(f)
  /\ pending' = Without(Opened(f), {f})
  /\ bytes' = OpenBytes(f) + 1 - Parts[f]
  /\ drops' = RecordDrops(DropsAfterRoom(f), 1)
  /\ lastReq' = RequestAt(drops', RequestAfterExpiry)
  /\ open' = OpenAfter(f, ReportedFor(f) + 1)
  /\ UNCHANGED <<lastDone, hasKey, failed, delivered>>

(* A complete frame leaves; the incomplete frames before it are obsolete.  *)
PushComplete(x) ==
  LET f == x[1]
      older == Overtaken(f)
      n == RecordDrops(DropsAfterRoom(f), Cardinality(older))
      lost == ReportedFor(f) + Cardinality(older)
  IN
  /\ Fits(x) /\ Whole(x) /\ (hasKey \/ IsKey(f))
  /\ pending' = Without(Opened(f), older \union {f})
  /\ bytes' = OpenBytes(f) + 1 - Parts[f] - Weight(Opened(f), older)
  /\ lastDone' = f /\ hasKey' = TRUE
  /\ lastReq' = IF older = {} THEN RequestAfterExpiry ELSE RequestAt(n, RequestAfterExpiry)
  /\ drops' = IF IsKey(f) \/ lost = 0 THEN 0 ELSE n
  /\ open' = OpenAfter(f, lost + 1)
  /\ delivered' = Append(delivered, f)
  /\ UNCHANGED failed

Push(x) ==
  /\ ~failed /\ UNCHANGED now
  /\ \/ PushObsolete(x) \/ PushDuplicate(x) \/ PushOverMemory(x)
     \/ PushPart(x) \/ PushEarly(x) \/ PushComplete(x)

Next ==
  \/ Tick \/ Expire
  \/ \E x \in Fragments : Push(x)

Spec == Init /\ [][Next]_vars

-----------------------------------------------------------------------------
(* Properties.                                                             *)

(* The incremental memory account is the memory held, through every way a  *)
(* frame leaves: completion, expiry, eviction, obsolescence, errors.       *)
MemoryAccountExact == bytes = Weight(pending, DOMAIN pending)

(* Complete frames leave in increasing order and, when a keyframe is       *)
(* required first, none precedes the first keyframe.                       *)
DeliveredInOrder ==
  /\ \A i, j \in 1..Len(delivered) : i < j => delivered[i] < delivered[j]
  /\ (RequireKeyframe /\ delivered # <<>>) => IsKey(delivered[1])

(* Every frame of which a fragment was stored is delivered, still pending, *)
(* or counted once in dropped_frames, which is what starts the recovery.   *)
NoSilentDrop ==
  failed \/ open = Cardinality(DOMAIN pending)

(* What is delivered is in order, and nothing is dropped unreported.       *)
DeliveryIsSound == DeliveredInOrder /\ NoSilentDrop

(* What is pending can still complete: it is newer than what was delivered *)
(* and lacks a fragment.                                                   *)
PendingIsLive ==
  \A f \in DOMAIN pending : f > lastDone /\ pending[f].got # 1..Parts[f] /\ pending[f].got # {}

(* What is pending is accounted for and can still complete.                *)
PendingIsSound == MemoryAccountExact /\ PendingIsLive
=============================================================================
