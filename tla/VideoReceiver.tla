--------------------------- MODULE VideoReceiver ---------------------------
(***************************************************************************)
(* The receiving half of the QUIC video path (transport/application.rs):   *)
(* the keyframe barrier (VideoEpochHoldback), the per-stream reference     *)
(* recovery (VideoReceiveRecovery), and the two reader tasks that deliver  *)
(* frames to the application and ask the peer for keyframes.               *)
(*                                                                         *)
(* Deltas come out of the reassembler in the order they were sent, with    *)
(* gaps (module VideoReassembler); keyframes come on a reliable stream     *)
(* that is not ordered with them.  The clock does not advance inside a     *)
(* handler.  Every held frame weighs one unit.  A request that finds the   *)
(* control queue full is dropped without any trace in this state, so the   *)
(* queue is left out.                                                      *)
(***************************************************************************)
EXTENDS Integers, Sequences, FiniteSets, FiniteSetsExt, SequencesExt, Functions

CONSTANTS
  Displays,         \* displays, a set of numbers
  MaxStream,        \* bound: codec incarnations per display
  MaxFrames,        \* bound: frames the peer sends in a behaviour
  MaxTime,          \* bound: clock ticks in a behaviour
  Sessions,         \* the session kinds a behaviour may have been negotiated to
  Sensitive,        \* the streams whose codec is_reference_sensitive
  Window,           \* video_epoch_reorder_window
  HoldTimeout,      \* VIDEO_EPOCH_HOLDBACK_TIMEOUT
  MaxHeld,          \* VIDEO_EPOCH_HOLDBACK_MAX_FRAMES
  MaxStreamStates,  \* MAX_VIDEO_STREAM_STATES
  InboundCapacity,  \* APPLICATION_INBOUND_CAPACITY
  MinInterval,      \* VIDEO_KEYFRAME_REQUEST_MIN_INTERVAL
  RetryDelay,       \* VIDEO_KEYFRAME_RETRY_INITIAL_DELAY
  RetryMax,         \* VIDEO_KEYFRAME_RETRY_MAX_ATTEMPTS
  Cooldown          \* VIDEO_KEYFRAME_RECOVERY_CYCLE_COOLDOWN

ASSUME ReceiverAssumption ==
  /\ Displays \subseteq Nat \ {0} /\ Window >= 1
  /\ Sessions \subseteq [mode : {"datagram", "stream", "barrier"}, scoped : BOOLEAN,
                          displays : SUBSET Displays, restarting : SUBSET Displays,
                          hold : Nat \ {0}]

VARIABLES
  session,  \* mode: how keyframes travel; scoped: requests name their stream;
            \* the displays captured, and those whose encoder restarts;
            \* hold: MAX_VIDEO_EPOCH_STREAM_STATES
  enc,      \* the peer's encoders: stream, last source frame id, last keyframe
  sent,     \* frames sent so far
  kchan,    \* keyframes on the reliable video stream
  dchan,    \* frames on their way through the datagram reassembler
  unseen,   \* a frame lost part of its fragments and is not reported yet
  behind,   \* the reassembler counts consecutive drops
  now,      \* the clock
  hb,       \* video_epoch_holdback: streams, and their order of last activity
  rc,       \* video_receive_recovery
  work,     \* the handler that holds video_delivery_lock
  reader,   \* the keyframe the stream reader has delivered but not observed
  queued,   \* frames in the inbound channel
  given,    \* history: frames put into the inbound channel, in order
  starved   \* history: streams with a reference-sensitive delta suppressed
            \* since their last keyframe was observed

netVars == <<session, enc, sent, kchan, dchan, unseen, behind>>
vars == <<netVars, now, hb, rc, work, reader, queued, given, starved>>

Streams == 1..MaxStream
Keys == Displays \X Streams
NoKey == <<>>            \* the key None of an unscoped request
NoTime == -1
NoFrame == [d |-> 0, s |-> 0, n |-> 0, kf |-> FALSE, re |-> 0]
Frames == [d : Displays, s : Streams, n : 1..MaxFrames, kf : BOOLEAN, re : 0..MaxFrames]
KeyOf(f) == <<f.d, f.s>>
NoStream == [ep |-> 0, next |-> 0, pend |-> <<>>, gap |-> NoTime]
Idle == [on |-> FALSE, ready |-> <<>>, put |-> "no", need |-> FALSE, strict |-> FALSE]

Init ==
  /\ session \in Sessions
  /\ enc = [d \in Displays |-> [s |-> 1, n |-> 0, key |-> 0]]
  /\ sent = 0 /\ kchan = <<>> /\ dchan = <<>> /\ unseen = FALSE /\ behind = FALSE
  /\ now = 0
  /\ hb = [streams |-> <<>>, lru |-> <<>>]
  /\ rc = [streams |-> <<>>, obs |-> NoFrame, reqs |-> <<>>, reqAt |-> <<>>]
  /\ work = Idle /\ reader = NoFrame /\ queued = 0 /\ given = <<>> /\ starved = {}

-----------------------------------------------------------------------------
(* VideoEpochHoldback.  An outcome h is a holdback together with the frames*)
(* that are ready and the recovery they call for.                          *)

With(f, k, v) == [x \in DOMAIN f \union {k} |-> IF x = k THEN v ELSE f[x]]
KeyLess(a, b) == a[1] < b[1] \/ (a[1] = b[1] /\ a[2] < b[2])
InKeyOrder(S) == SetToSortSeq(S, KeyLess)
Outcome(b) == [hb |-> b, ready |-> <<>>, need |-> FALSE, strict |-> FALSE]

(* drain_ready: the frames of the current epoch that follow each other     *)
(* from the next expected one, or from the first one held once the gap     *)
(* before it is older than the reorder window.                             *)
Held(st) == {n \in 1..MaxFrames : <<st.ep, n>> \in DOMAIN st.pend}
Above(st) == {n \in Held(st) : n >= st.next}
GapElapsed(st) == st.gap # NoTime /\ now - st.gap >= Window
DrainFrom(st) ==
  IF st.ep = 0 \/ Above(st) = {} THEN 0
  ELSE IF st.next \in Held(st) THEN st.next
  ELSE IF GapElapsed(st) THEN Min(Above(st)) ELSE 0
Drained(st) ==
  IF DrainFrom(st) = 0 THEN {}
  ELSE {n \in Above(st) : \A m \in DrainFrom(st)..n : m \in Held(st)}
Skips(st) == DrainFrom(st) > st.next

(* gap_started_at after a drain that released the frames run and left      *)
(* rest.                                                                   *)
MutGapStopped(st, run, rest) ==
  IF rest = {} \/ run # {} THEN NoTime ELSE IF st.gap # NoTime THEN st.gap ELSE now
GapAfter(st, run, rest) ==
  IF rest = {} THEN NoTime ELSE IF run = {} /\ st.gap # NoTime THEN st.gap ELSE now

AfterDrain(st) ==
  LET rest == Above(st) \ Drained(st)
      keys == {<<st.ep, n>> : n \in Drained(st)}
  IN IF st.ep = 0 THEN st
     ELSE [st EXCEPT
       !.pend = Restrict(@, DOMAIN @ \ keys),
       !.next = IF Drained(st) = {} THEN @ ELSE Max(Drained(st)) + 1,
       !.gap = GapAfter(st, Drained(st), rest)]

Ready(k, st) ==
  LET ns == SetToSortSeq(Drained(st), <)
  IN [i \in 1..Len(ns) |->
        [d |-> k[1], s |-> k[2], n |-> ns[i], kf |-> FALSE, re |-> st.ep]]

(* expire: drain every stream, then drop what was held too long.           *)
TimedOut(st) == {x \in DOMAIN st.pend : now - st.pend[x] >= HoldTimeout}
Expire(b) ==
  LET keys == InKeyOrder(DOMAIN b.streams)
      after == [k \in DOMAIN b.streams |-> AfterDrain(b.streams[k])]
      late == \E k \in DOMAIN after : TimedOut(after[k]) # {}
  IN [hb |-> [b EXCEPT !.streams =
                [k \in DOMAIN after |->
                   [after[k] EXCEPT !.pend = Restrict(@, DOMAIN @ \ TimedOut(after[k]))]]],
      ready |-> FlattenSeq([i \in 1..Len(keys) |-> Ready(keys[i], b.streams[keys[i]])]),
      need |-> late \/ \E k \in DOMAIN b.streams : Skips(b.streams[k]),
      strict |-> late]

(* prepare_stream: the stream becomes the most recently active one, in the *)
(* place of the least recently active if there are too many.               *)
Prepare(h, k) ==
  LET b == h.hb
      evict == k \notin DOMAIN b.streams /\ Cardinality(DOMAIN b.streams) >= session.hold
      victim == Head(b.lru)
      lost == evict /\ b.streams[victim].pend # <<>>
      kept == IF evict THEN Restrict(b.streams, DOMAIN b.streams \ {victim}) ELSE b.streams
      st == IF k \in DOMAIN kept THEN kept[k] ELSE NoStream
  IN [h EXCEPT !.hb = [streams |-> With(kept, k, st),
                       lru |-> Append(SelectSeq(b.lru, LAMBDA x : x # k /\ x \in DOMAIN kept), k)],
               !.need = @ \/ lost, !.strict = @ \/ lost]

(* The end of admit_delta and accept_keyframe: drain the stream.           *)
Release(h, k) ==
  LET st == h.hb.streams[k]
  IN [h EXCEPT !.hb.streams[k] = AfterDrain(st),
               !.ready = @ \o Ready(k, st), !.need = @ \/ Skips(st)]

HeldTotal(b) == MapThenSumSet(LAMBDA k : Cardinality(DOMAIN b.streams[k].pend), DOMAIN b.streams)
ClearPending(b) ==
  [b EXCEPT !.streams = [k \in DOMAIN @ |-> [@[k] EXCEPT !.pend = <<>>, !.gap = NoTime]]]

(* The limit on held frames.                                               *)
Overflows(b) == HeldTotal(b) > MaxHeld

AdmitDelta(f) ==
  LET k == KeyOf(f)
      h0 == Expire(hb)
      h1 == Prepare(h0, k)
      st == h1.hb.streams[k]
      old == f.re < st.ep \/ (f.re = st.ep /\ st.next # 0 /\ f.n < st.next)
      h2 == [h1 EXCEPT !.hb.streams[k].pend = With(@, <<f.re, f.n>>, now)]
  IN IF f.re = 0 THEN [h0 EXCEPT !.need = TRUE, !.strict = TRUE]
     ELSE IF old \/ <<f.re, f.n>> \in DOMAIN st.pend THEN h1
     ELSE IF Overflows(h2.hb)
     THEN [h2 EXCEPT !.hb = ClearPending(@), !.need = TRUE, !.strict = TRUE]
     ELSE Release(h2, k)

(* accept_keyframe and observe keep one incarnation of the display: the    *)
(* keyframe's; m is a map keyed by stream.                                 *)
MutOtherStreamsKept(m, f) == m
OtherStreamsGone(m, f) == Restrict(m, {k \in DOMAIN m : k = NoKey \/ k[1] # f.d \/ k[2] = f.s})

AcceptKeyframe(f) ==
  LET k == KeyOf(f)
      kept == OtherStreamsGone(hb.streams, f)
      h0 == Expire([streams |-> kept, lru |-> SelectSeq(hb.lru, LAMBDA x : x \in DOMAIN kept)])
      h1 == Prepare(h0, k)
      live == [x \in {y \in DOMAIN h1.hb.streams[k].pend : y[1] >= f.n /\ y[2] > f.n} |->
                 h1.hb.streams[k].pend[x]]
      h2 == [h1 EXCEPT !.hb.streams[k] =
               [ep |-> f.n, next |-> f.n + 1, pend |-> live, gap |-> NoTime],
               !.ready = Append(@, f)]
  IN Release(h2, k)

-----------------------------------------------------------------------------
(* VideoReceiveRecovery.                                                   *)

StateOf(r, k) == IF k \in DOMAIN r.streams THEN r.streams[k] ELSE [last |-> 0, await |-> FALSE]
SetState(r, k, st) == [r EXCEPT !.streams = With(@, k, st)]

(* prepare_stream evicts the stream with the smallest key.                 *)
PrepareRecovery(r, k) ==
  LET first == Head(InKeyOrder(DOMAIN r.streams))
  IN IF k \in DOMAIN r.streams \/ Cardinality(DOMAIN r.streams) < MaxStreamStates THEN r
     ELSE [r EXCEPT !.streams = Restrict(@, DOMAIN @ \ {first}),
                    !.reqs = Restrict(@, DOMAIN @ \ {first}),
                    !.reqAt = Restrict(@, DOMAIN @ \ {first})]

NoteSourceContext(r, f) ==
  LET q == PrepareRecovery(r, KeyOf(f))
  IN SetState([q EXCEPT !.obs = f], KeyOf(f), StateOf(q, KeyOf(f)))

(* observe for a keyframe: other incarnations of the display are forgotten,*)
(* and the requests this keyframe answers.                                 *)
ObserveKeyframe(r, f) ==
  LET replaced == \E k \in DOMAIN r.streams : k[1] = f.d /\ k[2] # f.s
      answered == {x \in DOMAIN r.reqs :
                     LET src == r.reqs[x].src IN
                     \/ src.d = f.d /\ src.s # f.s
                     \/ KeyOf(src) = KeyOf(f) /\ f.n > src.n}
      at == OtherStreamsGone(r.reqAt, f)
      q == PrepareRecovery(
             [r EXCEPT !.streams = OtherStreamsGone(@, f),
                       !.reqAt = IF replaced THEN Restrict(at, DOMAIN at \ {NoKey}) ELSE at],
             KeyOf(f))
  IN SetState([q EXCEPT !.obs = f, !.reqs = Restrict(@, DOMAIN @ \ answered)],
              KeyOf(f), [last |-> f.n, await |-> FALSE])

(* observe for a delta: what is decided, and the state after it.           *)
StrictGap(f) == session.mode # "barrier" \/ f.s \in Sensitive
Decision(r, f) ==
  LET st == StateOf(PrepareRecovery(r, KeyOf(f)), KeyOf(f))
  IN CASE f.kf -> "accept"
       [] ~f.kf /\ (st.await \/ st.last = 0) -> "await"
       [] ~f.kf /\ ~st.await /\ st.last # 0 /\ f.n <= st.last -> "old"
       [] ~f.kf /\ ~st.await /\ st.last # 0 /\ f.n = st.last + 1 -> "accept"
       [] OTHER -> IF StrictGap(f) THEN "suppress" ELSE "gap"

ObserveDelta(r, f) ==
  LET q == PrepareRecovery(r, KeyOf(f))
      st == StateOf(q, KeyOf(f))
      after == CASE Decision(r, f) \in {"await", "suppress"} -> [st EXCEPT !.await = TRUE]
                 [] Decision(r, f) \in {"accept", "gap"} -> [st EXCEPT !.last = f.n]
                 [] OTHER -> st
  IN SetState([q EXCEPT !.obs = f], KeyOf(f), after)

Observe(r, f) == IF f.kf THEN ObserveKeyframe(r, f) ELSE ObserveDelta(r, f)

MarkReferenceLoss(r) == [r EXCEPT !.streams = [k \in DOMAIN @ |-> [@[k] EXCEPT !.await = TRUE]]]
MutLossForgotten(r, k) == r
MarkStreamReferenceLoss(r, k) ==
  IF k \in DOMAIN r.streams THEN [r EXCEPT !.streams[k].await = TRUE] ELSE r

(* A strict loss is not held back by an earlier advisory request.          *)
Escalates(r, key, strict) ==
  session.scoped /\ strict /\ ~(key \in DOMAIN r.reqs /\ r.reqs[key].strict)

(* next_keyframe_request_with_recovery: the state after it.                *)
NextKeyframeRequest(r, strict) ==
  LET key == IF session.scoped THEN KeyOf(r.obs) ELSE NoKey
      has == key \in DOMAIN r.reqs
      old == r.reqs[key]
      newStream == has /\ old.src # NoFrame /\ r.obs # NoFrame /\ KeyOf(old.src) # KeyOf(r.obs)
      escalate == Escalates(r, key, strict)
      throttled == ~newStream /\ ~escalate /\ key \in DOMAIN r.reqAt
                   /\ now - r.reqAt[key] < MinInterval
      again == has /\ ~newStream /\ old.retries < RetryMax
      due == \/ ~has \/ newStream
             \/ again /\ now - old.at >= RetryDelay * 2^old.retries
             \/ ~again /\ now - old.at >= Cooldown
      retries == IF escalate THEN (IF has THEN old.retries ELSE 0)
                 ELSE IF again THEN old.retries + 1 ELSE 0
      keepStrict == ~newStream /\ has /\ old.strict
  IN IF (session.scoped /\ r.obs = NoFrame) \/ throttled \/ ~(due \/ escalate) THEN r
     ELSE [r EXCEPT !.reqs = With(@, key, [src |-> r.obs, at |-> now, retries |-> retries,
                                           strict |-> strict \/ keepStrict]),
                    !.reqAt = With(@, key, now)]

-----------------------------------------------------------------------------
(* The inbound channel has room.                                           *)
HasRoom == queued < InboundCapacity

(* The peer, the network and the clock (module VideoSender for the peer).  *)

Unchanged == UNCHANGED <<session, now, hb, rc, work, reader, queued, given, starved>>

RestartStream(d) ==
  /\ d \in session.restarting /\ enc[d].s < MaxStream /\ enc[d].n > 0
  /\ enc' = [enc EXCEPT ![d] = [s |-> @.s + 1, n |-> 0, key |-> 0]]
  /\ UNCHANGED <<sent, kchan, dchan, unseen, behind>> /\ Unchanged

(* A delta carries the last keyframe of its stream as reference epoch.     *)
PeerSends(d, kf) ==
  LET f == [d |-> d, s |-> enc[d].s, n |-> enc[d].n + 1, kf |-> kf,
            re |-> IF kf THEN 0 ELSE enc[d].key]
  IN /\ sent < MaxFrames /\ d \in session.displays
     /\ sent' = sent + 1
     /\ enc' = [enc EXCEPT ![d].n = @ + 1, ![d].key = IF kf THEN f.n ELSE @]
     /\ IF kf /\ session.mode # "datagram" THEN kchan' = Append(kchan, f) /\ UNCHANGED dchan
                                   ELSE dchan' = Append(dchan, f) /\ UNCHANGED kchan
     /\ UNCHANGED <<unseen, behind>> /\ Unchanged

LoseFrame(partly) ==
  /\ dchan # <<>>
  /\ dchan' = Tail(dchan)
  /\ unseen' = (unseen \/ partly)
  /\ UNCHANGED <<enc, sent, kchan, behind>> /\ Unchanged

Tick ==
  /\ now < MaxTime /\ ~work.on
  /\ now' = now + 1
  /\ UNCHANGED <<netVars, hb, rc, work, reader, queued, given, starved>>

AppReads ==
  /\ queued > 0
  /\ queued' = queued - 1
  /\ UNCHANGED <<netVars, now, hb, rc, work, reader, given, starved>>

-----------------------------------------------------------------------------
(* The reliable video reader.                                              *)

(* The history of suppressed streams when frame f is observed.             *)
Starving(f) ==
  IF f.kf THEN {k \in starved : k[1] # f.d}
  ELSE IF Decision(rc, f) \in {"await", "suppress"} /\ f.s \in Sensitive
  THEN starved \union {KeyOf(f)} ELSE starved

Starts(h, need, strict) ==
  work' = [on |-> TRUE, ready |-> h.ready, put |-> "no",
           need |-> need \/ h.need, strict |-> strict \/ h.strict]

KeyframeArrives ==
  LET h == AcceptKeyframe(Head(kchan)) IN
  /\ session.mode = "barrier" /\ kchan # <<>> /\ ~work.on
  /\ kchan' = Tail(kchan)
  /\ hb' = h.hb
  /\ rc' = IF h.strict THEN MarkReferenceLoss(rc) ELSE rc
  /\ Starts(h, FALSE, FALSE)
  /\ UNCHANGED <<session, enc, sent, dchan, unseen, behind, now, reader, queued, given, starved>>

(* Without the barrier the keyframe is delivered first and observed later, *)
(* outside the delivery lock.                                              *)
KeyframeArrivesUnordered ==
  /\ session.mode = "stream" /\ kchan # <<>> /\ reader = NoFrame /\ HasRoom
  /\ kchan' = Tail(kchan)
  /\ given' = Append(given, Head(kchan)) /\ queued' = queued + 1
  /\ reader' = Head(kchan)
  /\ UNCHANGED <<session, enc, sent, dchan, unseen, behind, now, hb, rc, work, starved>>

ObserveArrived ==
  /\ reader # NoFrame
  /\ rc' = Observe(rc, reader)
  /\ starved' = Starving(reader)
  /\ reader' = NoFrame
  /\ UNCHANGED <<netVars, now, hb, work, queued, given>>

(* The datagram reader: handle_video_outcome for an outcome with frame f   *)
(* (or none), dropped frames and a request of the reassembler.             *)
HandleOutcome(f, dropped, ask) ==
  LET strictLoss == dropped /\ rc.obs # NoFrame /\ rc.obs.s \in Sensitive
      r0 == IF dropped /\ (session.mode # "barrier" \/ strictLoss) THEN MarkReferenceLoss(rc) ELSE rc
      r1 == IF session.mode = "barrier" /\ f # NoFrame THEN NoteSourceContext(r0, f) ELSE r0
      h == IF session.mode # "barrier"
           THEN [Outcome(hb) EXCEPT !.ready = IF f = NoFrame THEN <<>> ELSE <<f>>]
           ELSE IF f = NoFrame THEN Expire(hb) ELSE AdmitDelta(f)
  IN /\ ~work.on
     /\ hb' = h.hb
     /\ rc' = IF h.strict THEN MarkReferenceLoss(r1) ELSE r1
     /\ Starts(h, dropped \/ ask, strictLoss)
     /\ UNCHANGED <<session, enc, sent, kchan, now, reader, queued, given, starved>>

FrameArrives(dropped, ask) ==
  /\ dchan # <<>>
  /\ dropped => unseen
  /\ ask => behind \/ dropped
  /\ dchan' = Tail(dchan)
  /\ unseen' = (unseen /\ ~dropped)
  /\ behind' = (dropped /\ ~Head(dchan).kf)
  /\ HandleOutcome(Head(dchan), dropped, ask)

(* The 25 ms poll.                                                         *)
Poll(dropped, ask) ==
  /\ session.mode = "barrier" \/ dropped \/ ask
  /\ dropped => unseen
  /\ ask => behind \/ dropped
  /\ unseen' = (unseen /\ ~dropped)
  /\ behind' = (behind \/ dropped)
  /\ UNCHANGED dchan
  /\ HandleOutcome(NoFrame, dropped, ask)

(* deliver_video_payload, first half: observe decides.                     *)
DeliverObserve ==
  LET f == Head(work.ready)
      dec == Decision(rc, f)
  IN /\ work.on /\ work.ready # <<>> /\ work.put = "no"
     /\ rc' = Observe(rc, f)
     /\ starved' = Starving(f)
     /\ work' = IF dec \in {"accept", "gap"} THEN [work EXCEPT !.put = dec]
                ELSE [work EXCEPT !.ready = Tail(@), !.need = TRUE,
                                  !.strict = @ \/ StrictGap(f)]
     /\ UNCHANGED <<netVars, now, hb, reader, queued, given>>

(* Second half: the frame goes into the inbound channel, if it has room.   *)
DeliverPut ==
  LET f == Head(work.ready) IN
  /\ work.put # "no"
  /\ IF HasRoom
     THEN /\ given' = Append(given, f) /\ queued' = queued + 1
          /\ work' = [work EXCEPT !.ready = Tail(@), !.put = "no",
                        !.need = @ \/ work.put = "gap"
                                   \/ (f.kf /\ StateOf(rc, KeyOf(f)).await)]
          /\ UNCHANGED rc
     ELSE /\ rc' = MarkStreamReferenceLoss(rc, KeyOf(f))
          /\ work' = [work EXCEPT !.ready = Tail(@), !.put = "no", !.need = TRUE, !.strict = TRUE]
          /\ UNCHANGED <<given, queued>>
  /\ UNCHANGED <<netVars, now, hb, reader, starved>>

(* The handler ends with request_video_keyframe if one is needed.          *)
FinishWork ==
  /\ work.on /\ work.ready = <<>>
  /\ rc' = IF work.need THEN NextKeyframeRequest(rc, work.strict) ELSE rc
  /\ work' = Idle
  /\ UNCHANGED <<netVars, now, hb, reader, queued, given, starved>>

-----------------------------------------------------------------------------
Next ==
  \/ \E d \in Displays : RestartStream(d)
  \/ \E d \in Displays, kf \in BOOLEAN : PeerSends(d, kf)
  \/ \E partly \in BOOLEAN : LoseFrame(partly)
  \/ Tick \/ AppReads
  \/ KeyframeArrives \/ KeyframeArrivesUnordered \/ ObserveArrived
  \/ \E dropped, ask \in BOOLEAN : FrameArrives(dropped, ask) \/ Poll(dropped, ask)
  \/ DeliverObserve \/ DeliverPut \/ FinishWork

Spec == Init /\ [][Next]_vars

-----------------------------------------------------------------------------
(* Properties.                                                             *)

GivenOf(k) == SelectSeq(given, LAMBDA f : KeyOf(f) = k)
LastOf(q) == IF q = <<>> THEN NoFrame ELSE q[Len(q)]
IsStrict(f) == ~f.kf /\ (session.mode # "barrier" \/ f.s \in Sensitive)
LastKeyframe(d) == LastOf(SelectSeq(given, LAMBDA f : f.d = d /\ f.kf))

(* Whatever is lost, late, refused or overflowing, a delta reaches the     *)
(* application only right after the frame it was encoded against, when the *)
(* codec is reference-sensitive or no barrier lets gaps through.  Keyframes*)
(* on a stream without the barrier may come in between.                    *)
DeltaFollowsItsReference ==
  [][given' # given =>
       LET f == LastOf(given') IN
       IsStrict(f) =>
         IF session.mode = "stream"
         THEN \E i \in 1..Len(given) : KeyOf(given[i]) = KeyOf(f) /\ given[i].n = f.n - 1
         ELSE LastOf(GivenOf(KeyOf(f))).n = f.n - 1]_vars

(* The barrier: a delta is given only while the keyframe it depends on is  *)
(* the last keyframe given on its display; none of an earlier epoch or of  *)
(* an earlier incarnation follows, for any codec, and none goes back.      *)
BarrierHolds ==
  [][(session.mode = "barrier" /\ given' # given) =>
       LET f == LastOf(given')
           key == LastKeyframe(f.d)
       IN f.kf \/ (key.s = f.s /\ key.n = f.re /\ LastOf(GivenOf(KeyOf(f))).n < f.n)]_vars

(* Nothing that could be released is still held, nothing obsolete is, and  *)
(* a frame that waits behind a gap has the reorder timer running.          *)
HoldbackIsTight ==
  \A k \in DOMAIN hb.streams :
    LET st == hb.streams[k] IN
    /\ \A x \in DOMAIN st.pend : x[1] > st.ep \/ (x[1] = st.ep /\ x[2] > st.next)
    /\ (st.ep # 0 /\ Above(st) # {}) => st.gap # NoTime

(* The holdback and the recovery stay within their limits, and requests    *)
(* are remembered only for streams that are.                               *)
ReceiverIsBounded ==
  /\ HeldTotal(hb) <= MaxHeld
  /\ Cardinality(DOMAIN hb.streams) <= session.hold
  /\ Cardinality(DOMAIN rc.streams) <= MaxStreamStates
  /\ DOMAIN rc.reqs \subseteq DOMAIN rc.streams \union {NoKey}
  /\ DOMAIN rc.reqAt \subseteq DOMAIN rc.streams \union {NoKey}

(* A reference-sensitive stream whose deltas are being suppressed has a    *)
(* strict request pending once the handler is done, where requests name    *)
(* their stream.                                                           *)
SuppressionIsAsked ==
  (session.scoped /\ ~work.on) => \A k \in starved \intersect DOMAIN rc.streams :
    k \in DOMAIN rc.reqs /\ rc.reqs[k].strict

(* That much holds while a single display is captured.                     *)
OneDisplayIsAsked == Cardinality(session.displays) = 1 => SuppressionIsAsked

(* The receiver holds back no more than it must, remembers no more than it *)
(* may, and asks for what it lacks.                                        *)
ReceiverIsSound == HoldbackIsTight /\ ReceiverIsBounded /\ OneDisplayIsAsked
=============================================================================
