---------------------------- MODULE VideoSender ----------------------------
(***************************************************************************)
(* The sending half of the QUIC video path (transport/application.rs):     *)
(* the task that enqueues encoded frames and SwitchDisplay messages, the   *)
(* latest-frame slot, the per-track reference recovery, the video ordering *)
(* gate with its acknowledgements, and the video writer task.              *)
(*                                                                         *)
(* One step is one critical section or one atomic operation of the code:   *)
(* an enqueue and the writer interleave between them.  The encoder and the *)
(* peer are outside the library and are modelled by how the code uses them.*)
(***************************************************************************)
EXTENDS Integers, Sequences, FiniteSets

CONSTANTS
  Displays,           \* displays captured by this side
  MaxStream,          \* bound: codec incarnations (stream ids) per display
  MaxFrames,          \* bound: frames the encoders produce in a behaviour
  MaxEpoch,           \* bound: SwitchDisplay messages in a behaviour
  ControlCapacity,    \* CONTROL_OUTBOUND_CAPACITY
  FlowWindow,         \* control messages the peer's flow control lets in flight
  RefreshCapacity,    \* capacity of the local refresh channel
  LatestKeys,         \* frames enqueued with enqueue_latest, else with enqueue
  ReliableKeyframes   \* agreement.reliable_keyframes: keyframes on a stream

ASSUME SenderAssumption ==
  /\ MaxStream \in Nat \ {0} /\ MaxFrames \in Nat /\ MaxEpoch \in Nat
  /\ ControlCapacity \in Nat /\ FlowWindow \in Nat /\ RefreshCapacity \in Nat
  /\ LatestKeys \in BOOLEAN /\ ReliableKeyframes \in BOOLEAN

VARIABLES
  enc,        \* per display: incarnation, last source frame id, refresh wanted
  nextId,     \* next_transport_frame_id
  enq,        \* the enqueue in progress
  pending,    \* latest_video: at most one pending frame per track
  newest,     \* latest_video: newest_stream of each display, 0 for None
  rec,        \* video_send_recovery: the tracks that await a keyframe
  refresh,    \* local refresh requests on their way to the encoder
  requested,  \* video_ordering.requested_epoch
  acked,      \* video_ordering.acknowledged_epoch
  cancelled,  \* history: epochs cancelled because the control queue was full
  ctl,        \* control channel: queue of the control writer
  net,        \* control stream to the peer, ordered and reliable
  acks,       \* VideoOrderingAck messages on their way back
  peerEpoch,  \* last SwitchDisplay the peer's application was given
  writer,     \* the video writer task
  refEpoch,   \* reference_epochs of the writer, one per display
  wire,       \* history: frames handed to the connection, in order
  closed      \* the connection is closed or closing

encVars   == <<enc, nextId>>
slotVars  == <<pending, newest>>
recVars   == <<rec, refresh>>
gateVars  == <<requested, acked, cancelled>>
ctlVars   == <<ctl, net, acks, peerEpoch>>
writeVars == <<writer, refEpoch, wire>>
vars == <<encVars, enq, slotVars, recVars, gateVars, ctlVars, writeVars, closed>>

Streams == 1..MaxStream
Epochs == 0..MaxEpoch

(* A track key: Latest(display) or Source(display, stream).                *)
Track(d, s) == IF LatestKeys THEN <<d, 0>> ELSE <<d, s>>
Tracks == {Track(d, s) : d \in Displays, s \in Streams}

(* A frame: transport id, display, stream, source frame id, keyframe flag, *)
(* ordering epoch and reference epoch (0 until the writer stamps it).      *)
Frames == [id : 1..MaxFrames, d : Displays, s : Streams, n : 1..MaxFrames,
           kf : BOOLEAN, ep : Epochs, re : 0..MaxFrames]
TrackOf(f) == Track(f.d, f.s)

NoFrame == [id |-> 0]
NoRec == [min |-> 0, s |-> 0]
OrdinaryControl == 0     \* any control message other than VideoOrdering

Larger(a, b) == IF a > b THEN a ELSE b

Init ==
  /\ enc = [d \in Displays |-> [s |-> 1, n |-> 0, want |-> FALSE]]
  /\ nextId = 1
  /\ enq = [at |-> "idle", f |-> NoFrame]
  /\ pending = [t \in Tracks |-> NoFrame]
  /\ newest = [d \in Displays |-> 0]
  /\ rec = [t \in Tracks |-> NoRec]
  /\ refresh = <<>>
  /\ requested = 0 /\ acked = 0 /\ cancelled = {}
  /\ ctl = <<>> /\ net = <<>> /\ acks = <<>> /\ peerEpoch = 0
  /\ writer = [at |-> "take", f |-> NoFrame]
  /\ refEpoch = [d \in Displays |-> [s |-> 0, ep |-> 0]]
  /\ wire = <<>>
  /\ closed = FALSE

-----------------------------------------------------------------------------
(* VideoSendRecovery.  A track has a state exactly while it awaits a       *)
(* keyframe, so the flag awaiting_keyframe is rec[t] # NoRec.  The session *)
(* has scoped refreshes and the keyframe barrier, the newest protocol.     *)

Awaiting(t) == rec[t] # NoRec

(* The source is an incarnation older than one already in recovery.        *)
EnterRefused(f) == \E t \in Tracks : t[1] = f.d /\ rec[t].s > f.s

EnterTracks(f) ==
  [t \in Tracks |->
     IF t = TrackOf(f) THEN [min |-> Larger(rec[t].min, f.id), s |-> f.s]
     ELSE IF t[1] = f.d THEN NoRec ELSE rec[t]]

Enter(f) ==
  IF EnterRefused(f) THEN UNCHANGED recVars
  ELSE /\ rec' = EnterTracks(f)
       /\ refresh' = IF ~Awaiting(TrackOf(f)) /\ Len(refresh) < RefreshCapacity
                     THEN Append(refresh, [d |-> f.d, s |-> f.s])
                     ELSE refresh

Suppressed(f) == ~f.kf /\ Awaiting(TrackOf(f))

SuppressDelta(f) ==
  /\ rec' = [rec EXCEPT ![TrackOf(f)].min = Larger(@, f.id)]
  /\ UNCHANGED refresh

(* keyframe_sent ends the recovery when the keyframe is newer than every   *)
(* frame lost or suppressed.                                               *)
MutAnyKeyframeEnds(f) ==
  /\ rec' = [rec EXCEPT ![TrackOf(f)] = NoRec]
  /\ UNCHANGED refresh
KeyframeSent(f) ==
  /\ rec' = IF Awaiting(TrackOf(f)) /\ f.id > rec[TrackOf(f)].min
            THEN [rec EXCEPT ![TrackOf(f)] = NoRec] ELSE rec
  /\ UNCHANGED refresh

(* VideoOrderingGate.                                                      *)
MutOpenEarly(ep) == acked + 1 >= ep
MutOpenLate(ep) == acked > ep
IsOpen(ep) == acked >= ep
Acknowledge(ep) == acked' = Larger(acked, ep)

(* should_replace_pending_video                                            *)
ShouldReplace(old, new) ==
  IF new.ep # old.ep THEN new.ep > old.ep ELSE ~old.kf \/ new.kf

-----------------------------------------------------------------------------
(* The enqueueing task.                                                    *)

(* The encoder of a display restarts with a new stream id.                 *)
RestartStream(d) ==
  /\ enq.at = "idle" /\ ~closed
  /\ enc[d].s < MaxStream /\ enc[d].n > 0
  /\ enc' = [enc EXCEPT ![d] = [s |-> @.s + 1, n |-> 0, want |-> FALSE]]
  /\ UNCHANGED <<nextId, enq, slotVars, recVars, gateVars, ctlVars, writeVars, closed>>

(* The encoder hands over its next frame, enqueue numbers it and stamps it *)
(* with the current epoch; a delta of a track that awaits a keyframe stops *)
(* here.                                                                   *)
EnqueueFrame(d, kf) ==
  LET f == [id |-> nextId, d |-> d, s |-> enc[d].s, n |-> enc[d].n + 1,
            kf |-> kf, ep |-> requested, re |-> 0]
  IN /\ enq.at = "idle" /\ ~closed /\ nextId <= MaxFrames
     /\ (enc[d].n = 0 \/ enc[d].want) => kf
     /\ enc' = [enc EXCEPT ![d].n = @ + 1, ![d].want = FALSE]
     /\ nextId' = nextId + 1
     /\ IF Suppressed(f)
        THEN SuppressDelta(f) /\ UNCHANGED enq
        ELSE enq' = [at |-> "offer", f |-> f] /\ UNCHANGED recVars
     /\ UNCHANGED <<slotVars, gateVars, ctlVars, writeVars, closed>>

(* TrackLatestSlot::replace_when_with. Which tracks are dropped for want   *)
(* of room depends on the byte budget, modelled in TrackLatestSlot: here   *)
(* any frame may be refused (room = FALSE). Retiring the older             *)
(* incarnation.                                                            *)
MutNotRetired(f) == pending
Retire(f) ==
  [t \in Tracks |-> IF pending[t] # NoFrame /\ pending[t].d = f.d /\ pending[t].s # f.s
                    THEN NoFrame ELSE pending[t]]

OfferFrame(room) ==
  LET f == enq.f
      t == TrackOf(f)
      stale == newest[f.d] > f.s
      kept == IF newest[f.d] = f.s THEN pending ELSE Retire(f)
      ok == room /\ (kept[t] = NoFrame \/ ShouldReplace(kept[t], f))
  IN /\ enq.at = "offer"
     /\ IF stale
        THEN enq' = [enq EXCEPT !.at = "lost"] /\ UNCHANGED <<slotVars, recVars>>
        ELSE /\ newest' = [newest EXCEPT ![f.d] = f.s]
             /\ pending' = IF ok THEN [kept EXCEPT ![t] = f] ELSE kept
             /\ enq' = IF ok THEN [at |-> "idle", f |-> NoFrame]
                             ELSE [enq EXCEPT !.at = "lost"]
             /\ IF ok /\ kept[t] # NoFrame /\ ~f.kf
                THEN Enter(f) ELSE UNCHANGED recVars
     /\ UNCHANGED <<encVars, gateVars, ctlVars, writeVars, closed>>

(* The frame did not enter the slot.                                       *)
LoseOffered ==
  /\ enq.at = "lost"
  /\ Enter(enq.f)
  /\ enq' = [at |-> "idle", f |-> NoFrame]
  /\ UNCHANGED <<encVars, slotVars, gateVars, ctlVars, writeVars, closed>>

(* A SwitchDisplay message takes the next epoch ...                        *)
SwitchDisplay ==
  /\ enq.at = "idle" /\ ~closed /\ requested < MaxEpoch
  /\ requested' = requested + 1
  /\ enq' = [enq EXCEPT !.at = "switch"]
  /\ UNCHANGED <<encVars, slotVars, recVars, acked, cancelled, ctlVars, writeVars, closed>>

(* ... and is queued, or its epoch is cancelled: the queue is full, or the *)
(* control writer is gone.                                                 *)
SendSwitch ==
  /\ enq.at = "switch"
  /\ enq' = [enq EXCEPT !.at = "idle"]
  /\ \/ /\ Len(ctl) < ControlCapacity
        /\ ctl' = Append(ctl, requested) /\ UNCHANGED <<acked, cancelled>>
     \/ /\ Len(ctl) >= ControlCapacity \/ closed
        /\ Acknowledge(requested) /\ cancelled' = cancelled \union {requested}
        /\ UNCHANGED ctl
  /\ UNCHANGED <<encVars, slotVars, recVars, requested, net, acks, peerEpoch, writeVars, closed>>

(* Any other control message; an error is returned when the queue is full. *)
EnqueueControl ==
  /\ enq.at = "idle" /\ ~closed /\ Len(ctl) < ControlCapacity
  /\ ctl' = Append(ctl, OrdinaryControl)
  /\ UNCHANGED <<encVars, enq, slotVars, recVars, gateVars, net, acks, peerEpoch, writeVars, closed>>

(* begin_teardown, or the connection is lost.                              *)
Close ==
  /\ ~closed
  /\ closed' = TRUE
  /\ UNCHANGED <<encVars, enq, slotVars, recVars, gateVars, ctlVars, writeVars>>

-----------------------------------------------------------------------------
(* The control writer, the peer and the control reader.                    *)

ControlWriter ==
  /\ ctl # <<>> /\ ~closed /\ Len(net) < FlowWindow
  /\ net' = Append(net, Head(ctl))
  /\ ctl' = Tail(ctl)
  /\ UNCHANGED <<encVars, enq, slotVars, recVars, gateVars, acks, peerEpoch, writeVars, closed>>

(* The peer's reader hands SwitchDisplay to its application, then          *)
(* acknowledges it.                                                        *)
PeerReads ==
  /\ net # <<>> /\ ~closed
  /\ net' = Tail(net)
  /\ IF Head(net) = OrdinaryControl
     THEN UNCHANGED <<peerEpoch, acks>>
     ELSE peerEpoch' = Head(net) /\ acks' = Append(acks, Head(net))
  /\ UNCHANGED <<encVars, enq, slotVars, recVars, gateVars, ctl, writeVars, closed>>

(* An acknowledgement of an epoch never requested ends the connection.     *)
ReadAck ==
  /\ acks # <<>> /\ ~closed
  /\ acks' = Tail(acks)
  /\ IF Head(acks) = 0 \/ Head(acks) > requested
     THEN closed' = TRUE /\ UNCHANGED acked
     ELSE Acknowledge(Head(acks)) /\ UNCHANGED closed
  /\ UNCHANGED <<encVars, enq, slotVars, recVars, requested, cancelled, ctl, net, peerEpoch, writeVars>>

(* run_local_video_refresh and the encoder it reaches.                     *)
RefreshEncoder ==
  /\ refresh # <<>>
  /\ LET r == Head(refresh) IN
     enc' = IF enc[r.d].s = r.s THEN [enc EXCEPT ![r.d].want = TRUE] ELSE enc
  /\ refresh' = Tail(refresh)
  /\ UNCHANGED <<nextId, enq, slotVars, rec, gateVars, ctlVars, writeVars, closed>>

-----------------------------------------------------------------------------
(* run_video_writer.                                                       *)

WriterAt(pc) == writer' = [writer EXCEPT !.at = pc]
WriterIdle == writer' = [at |-> "take", f |-> NoFrame]
WriterReturns == writer' = [at |-> "done", f |-> NoFrame]

(* take: any pending track may be next (the order is in TrackLatestSlot).  *)
TakeFrame(t) ==
  /\ writer.at = "take" /\ pending[t] # NoFrame
  /\ pending' = [pending EXCEPT ![t] = NoFrame]
  /\ IF closed THEN WriterReturns /\ Acknowledge(pending[t].ep)
               ELSE writer' = [at |-> "gate", f |-> pending[t]] /\ UNCHANGED acked
  /\ UNCHANGED <<encVars, enq, newest, recVars, requested, cancelled, ctlVars, refEpoch, wire, closed>>

(* The loop test of the gate.                                              *)
TestGate ==
  /\ writer.at = "gate"
  /\ WriterAt(IF IsOpen(writer.f.ep) THEN "check" ELSE "wait")
  /\ UNCHANGED <<encVars, enq, slotVars, recVars, gateVars, ctlVars, refEpoch, wire, closed>>

(* The three branches of the select while the gate is closed.              *)
GateOpens ==
  /\ writer.at = "wait" /\ IsOpen(writer.f.ep)
  /\ WriterAt("gate")
  /\ UNCHANGED <<encVars, enq, slotVars, recVars, gateVars, ctlVars, refEpoch, wire, closed>>

TakeNewer ==
  LET t == TrackOf(writer.f)
      newer == pending[t]
      replace == ShouldReplace(writer.f, newer)
  IN /\ writer.at = "wait" /\ newer # NoFrame
     /\ pending' = [pending EXCEPT ![t] = NoFrame]
     /\ writer' = [at |-> "gate", f |-> IF replace THEN newer ELSE writer.f]
     /\ IF replace /\ newer.kf THEN UNCHANGED recVars ELSE Enter(newer)
     /\ UNCHANGED <<encVars, enq, newest, gateVars, ctlVars, refEpoch, wire, closed>>

(* The connection closes while the writer is idle, waits or sends.  A send *)
(* that fails for want of space during teardown also cancels its epoch.    *)
WriterStops ==
  /\ closed /\ writer.at \in {"take", "wait", "send"}
  /\ WriterReturns
  /\ \/ writer.at # "wait" /\ UNCHANGED acked
     \/ writer.at # "take" /\ Acknowledge(writer.f.ep)
  /\ UNCHANGED <<encVars, enq, slotVars, recVars, requested, cancelled, ctlVars, refEpoch, wire, closed>>

(* apply_video_reference_epoch.                                            *)
ReferenceEpoch(f) == f.n
Stamped(f) ==
  IF f.kf \/ refEpoch[f.d].s # f.s THEN f ELSE [f EXCEPT !.re = refEpoch[f.d].ep]

(* suppress_delta once more, then the reference epoch is stamped.          *)
CheckFrame ==
  LET f == writer.f IN
  /\ writer.at = "check"
  /\ IF Suppressed(f)
     THEN SuppressDelta(f) /\ WriterIdle /\ UNCHANGED refEpoch
     ELSE /\ writer' = [at |-> "send", f |-> Stamped(f)]
          /\ refEpoch' = IF f.kf THEN [refEpoch EXCEPT ![f.d] = [s |-> f.s, ep |-> ReferenceEpoch(f)]]
                                 ELSE refEpoch
          /\ UNCHANGED recVars
  /\ UNCHANGED <<encVars, enq, slotVars, gateVars, ctlVars, wire, closed>>

(* The frame is written to the reliable stream or queued as datagrams.     *)
SendFrame ==
  /\ writer.at = "send" /\ ~closed
  /\ wire' = Append(wire, writer.f)
  /\ IF writer.f.kf THEN WriterAt("keySent") ELSE WriterIdle
  /\ UNCHANGED <<encVars, enq, slotVars, recVars, gateVars, ctlVars, refEpoch, closed>>

(* The datagram coordinator refuses the frame (RejectedNoSpace).           *)
RejectFrame ==
  /\ writer.at = "send" /\ ~closed
  /\ ~(writer.f.kf /\ ReliableKeyframes)
  /\ WriterAt("reject")
  /\ UNCHANGED <<encVars, enq, slotVars, recVars, gateVars, ctlVars, refEpoch, wire, closed>>

RecoverRejected ==
  /\ writer.at = "reject"
  /\ Enter(writer.f)
  /\ WriterIdle
  /\ UNCHANGED <<encVars, enq, slotVars, gateVars, ctlVars, refEpoch, wire, closed>>

NoteKeyframeSent ==
  /\ writer.at = "keySent"
  /\ KeyframeSent(writer.f)
  /\ WriterIdle
  /\ UNCHANGED <<encVars, enq, slotVars, gateVars, ctlVars, refEpoch, wire, closed>>

-----------------------------------------------------------------------------
Enqueuer ==
  \/ \E d \in Displays : RestartStream(d)
  \/ \E d \in Displays, kf \in BOOLEAN : EnqueueFrame(d, kf)
  \/ \E room \in BOOLEAN : OfferFrame(room)
  \/ LoseOffered \/ SwitchDisplay \/ SendSwitch \/ EnqueueControl

Writer ==
  \/ \E t \in Tracks : TakeFrame(t)
  \/ TestGate \/ GateOpens \/ TakeNewer \/ WriterStops \/ CheckFrame
  \/ SendFrame \/ RejectFrame \/ RecoverRejected \/ NoteKeyframeSent

Control == ControlWriter \/ PeerReads \/ ReadAck

(* Nothing is left to do once the tasks have returned.                     *)
Stopped ==
  /\ closed /\ writer.at = "done" /\ enq.at = "idle" /\ refresh = <<>>
  /\ UNCHANGED vars

Next == Enqueuer \/ Writer \/ Control \/ RefreshEncoder \/ Close \/ Stopped

Spec == Init /\ [][Next]_vars

(* The tasks are scheduled by the runtime, and a peer that stays connected *)
(* reads its control stream.                                               *)
FairSpec ==
  /\ Spec
  /\ WF_vars(Writer) /\ WF_vars(LoseOffered \/ SendSwitch \/ \E r \in BOOLEAN : OfferFrame(r))
  /\ WF_vars(ControlWriter) /\ WF_vars(PeerReads) /\ WF_vars(ReadAck)
  /\ WF_vars(RefreshEncoder)

-----------------------------------------------------------------------------
(* Properties.                                                             *)

EnqAt == {"idle", "offer", "lost", "switch"}
WriterPC == {"take", "gate", "wait", "check", "send", "reject", "keySent", "done"}

MaybeFrame == Frames \union {NoFrame}
EncStates == [s : Streams, n : 0..MaxFrames, want : BOOLEAN]
RecStates == [min : 0..MaxFrames, s : 0..MaxStream]
RefreshRequests == [d : Displays, s : Streams]
RefEpochs == [s : 0..MaxStream, ep : 0..MaxFrames]

EncTypeOK ==
  /\ enc \in [Displays -> EncStates] /\ nextId \in 1..(MaxFrames + 1)
  /\ \A d \in Displays : enc[d].n < nextId
EnqTypeOK ==
  /\ enq \in [at : EnqAt, f : MaybeFrame]
  /\ enq.at \in {"offer", "lost"} => enq.f \in Frames
SlotTypeOK == pending \in [Tracks -> MaybeFrame] /\ newest \in [Displays -> 0..MaxStream]
RecTypeOK == rec \in [Tracks -> RecStates] /\ refresh \in Seq(RefreshRequests)
GateTypeOK == requested \in Epochs /\ acked \in Epochs /\ cancelled \subseteq Epochs
CtlTypeOK ==
  ctl \in Seq(Epochs) /\ net \in Seq(Epochs) /\ acks \in Seq(Epochs) /\ peerEpoch \in Epochs
WriteTypeOK ==
  /\ writer \in [at : WriterPC, f : MaybeFrame]
  /\ writer.at \notin {"take", "done"} => writer.f \in Frames
  /\ refEpoch \in [Displays -> RefEpochs] /\ wire \in Seq(Frames)

(* Types of the state: the tasks hold a frame while they work on one, and  *)
(* source frame ids run behind the transport ids.                          *)
TypeOK ==
  /\ EncTypeOK /\ EnqTypeOK /\ SlotTypeOK /\ RecTypeOK /\ GateTypeOK /\ CtlTypeOK
  /\ WriteTypeOK /\ closed \in BOOLEAN

SentOf(d, s) == {i \in 1..Len(wire) : wire[i].d = d /\ wire[i].s = s}
LastSent(d, s) ==
  IF SentOf(d, s) = {} THEN 0
  ELSE wire[CHOOSE i \in SentOf(d, s) : \A j \in SentOf(d, s) : j <= i].n

(* A delta of the current incarnation leaves only right after the frame    *)
(* it was encoded against: whatever was replaced, refused, discarded or    *)
(* rejected before it, the chain restarts at a keyframe.                   *)
DeltaFollowsItsReference ==
  [][wire' # wire =>
       LET f == wire'[Len(wire')]
       IN f.kf \/ newest[f.d] # f.s \/ LastSent(f.d, f.s) = f.n - 1]_vars

(* A frame stamped with an epoch leaves after the peer's application has   *)
(* seen that SwitchDisplay, unless that or a later one was cancelled.      *)
FramesWaitForTheirSwitch ==
  \A i \in 1..Len(wire) :
    wire[i].ep <= peerEpoch \/ \E c \in cancelled : c >= wire[i].ep

(* Why it does, step by step: SwitchDisplay epochs rise along the control  *)
(* stream and its queue, beyond the one the peer has seen; an              *)
(* acknowledgement names an epoch the peer has seen; the gate is open for  *)
(* no epoch that was neither seen nor cancelled; and a frame past the gate *)
(* was let through by an acknowledgement.                                  *)
Rising(q) == \A i, j \in 1..Len(q) : (i < j /\ q[j] # OrdinaryControl) => q[i] < q[j]
Ahead(q, p) == \A i \in 1..Len(q), j \in 1..Len(p) : p[j] # OrdinaryControl => q[i] < p[j]
Requested(e) == e <= requested /\ (enq.at = "switch" => e < requested)
Released(e) == e <= peerEpoch \/ \E c \in cancelled : c >= e

SwitchesInOrder ==
  /\ Rising(net) /\ Rising(ctl) /\ Ahead(net, ctl) /\ Requested(peerEpoch)
  /\ \A i \in 1..Len(net) : Requested(net[i]) /\ (net[i] # OrdinaryControl => net[i] > peerEpoch)
  /\ \A i \in 1..Len(ctl) : Requested(ctl[i]) /\ (ctl[i] # OrdinaryControl => ctl[i] > peerEpoch)
  /\ \A i \in 1..Len(acks) : acks[i] <= peerEpoch
GateIsHonest ==
  /\ SwitchesInOrder
  /\ ~closed => Released(acked)
  /\ (~closed /\ writer.at \in {"check", "send"}) => writer.f.ep <= acked

(* The reference epoch stamped on a delta whose stream already has a frame *)
(* on the wire is the source id of the last keyframe that left before it,  *)
(* so the receiver's barrier holds it back for exactly that keyframe.      *)
ReferenceEpochIsTheSentKeyframe ==
  \A i \in 1..Len(wire) :
    LET before == {j \in 1..(i - 1) : wire[j].d = wire[i].d /\ wire[j].s = wire[i].s}
        keys == {j \in before : wire[j].kf}
    IN (~wire[i].kf /\ before # {}) =>
         \E j \in keys : wire[i].re = wire[j].n /\ \A k \in keys : k <= j

(* What the receiver decodes against is there: a delta follows its         *)
(* reference frame, and its epoch names its keyframe.                      *)
ReferencesAreSound == DeltaFollowsItsReference /\ []ReferenceEpochIsTheSentKeyframe

(* On a display, frames leave in the order they were encoded: no older     *)
(* frame and no older incarnation follows a newer one.                     *)
FramesLeaveInOrder ==
  \A i, j \in 1..Len(wire) :
    (i < j /\ wire[i].d = wire[j].d) => wire[i].id < wire[j].id /\ wire[i].s <= wire[j].s

(* A frame that waits for its SwitchDisplay does not wait for ever, and    *)
(* teardown ends the writer wherever it is.                                *)
GateReleases == writer.at = "wait" ~> writer.at # "wait"
TeardownStopsWriter == closed ~> writer.at = "done"
WriterIsReleased == GateReleases /\ TeardownStopsWriter

(* The barrier orders media in its own sending direction: no frame         *)
(* overtakes a SwitchDisplay that was queued before the frame was made.    *)
(* Cancelling a later SwitchDisplay acknowledges the earlier ones too.     *)
BarrierOrdersMedia ==
  \A i \in 1..Len(wire) : \A e \in 1..wire[i].ep : e <= peerEpoch \/ e \in cancelled

(* A track that awaits a keyframe has asked for one: a refresh is on its   *)
(* way to the encoder, or a keyframe recent enough to end the recovery is  *)
(* on its way to the writer.                                               *)
NewKeyframe(t, f) == f # NoFrame /\ f.kf /\ TrackOf(f) = t /\ f.id > rec[t].min
RecoveryHasAsked ==
  \A t \in Tracks : Awaiting(t) =>
    \/ closed \/ enc[t[1]].s # rec[t].s \/ enc[t[1]].want
    \/ \E i \in 1..Len(refresh) : refresh[i].d = t[1]
    \/ NewKeyframe(t, enq.f) \/ NewKeyframe(t, pending[t]) \/ NewKeyframe(t, writer.f)
=============================================================================
