-------------------------- MODULE VideoSenderProofs --------------------------
(***************************************************************************)
(* Theorems about VideoSender, for every number of displays, streams,      *)
(* frames and epochs and every queue capacity.                             *)
(***************************************************************************)
EXTENDS VideoSender, TLAPS

(* The neutral values are in their types.                                  *)
LEMMA NeutralTypes ==
  /\ NoFrame \in MaybeFrame
  /\ NoRec \in RecStates
  /\ 0 \in Epochs
  /\ [s |-> 1, n |-> 0, want |-> FALSE] \in EncStates
  /\ [s |-> 0, ep |-> 0] \in RefEpochs
  BY SenderAssumption DEF MaybeFrame, NoRec, RecStates, Epochs, EncStates, Streams, RefEpochs

(* The fields of a frame.                                                  *)
LEMMA FrameFields ==
  ASSUME NEW f \in Frames
  PROVE  /\ f.id \in 1..MaxFrames /\ f.n \in 1..MaxFrames /\ f.re \in 0..MaxFrames
         /\ f.d \in Displays /\ f.s \in Streams /\ f.s \in 0..MaxStream
         /\ f.kf \in BOOLEAN /\ f.ep \in Epochs
         /\ f \in MaybeFrame /\ TrackOf(f) \in Tracks
  BY SenderAssumption DEF Frames, Streams, MaybeFrame, TrackOf, Tracks

(* Initially the state is well typed.                                      *)
LEMMA InitTypeOK == Init => TypeOK
  <1> SUFFICES ASSUME Init PROVE TypeOK
    OBVIOUS
  <1>1. EnqTypeOK
    BY NeutralTypes DEF Init, EnqTypeOK, EnqAt
  <1>2. EncTypeOK
    BY NeutralTypes, SenderAssumption DEF Init, EncTypeOK
  <1>3. SlotTypeOK
    BY NeutralTypes, SenderAssumption DEF Init, SlotTypeOK
  <1>4. RecTypeOK
    BY NeutralTypes DEF Init, RecTypeOK
  <1>5. GateTypeOK /\ CtlTypeOK
    BY SenderAssumption DEF Init, GateTypeOK, CtlTypeOK, Epochs
  <1>6. WriteTypeOK
    BY NeutralTypes DEF Init, WriteTypeOK, WriterPC
  <1>7. closed \in BOOLEAN
    BY DEF Init
  <1> QED
    BY <1>1, <1>2, <1>3, <1>4, <1>5, <1>6, <1>7 DEF TypeOK

(* enter keeps the recovery well typed.                                    *)
LEMMA EnterTypes ==
  ASSUME RecTypeOK, NEW f \in Frames, Enter(f)
  PROVE  RecTypeOK'
  <1>1. CASE EnterRefused(f)
    BY <1>1 DEF Enter, RecTypeOK, recVars
  <1>2. CASE ~EnterRefused(f)
    <2>1. rec' = EnterTracks(f)
      BY <1>2 DEF Enter
    <2>2. ASSUME NEW t \in Tracks PROVE EnterTracks(f)[t] \in RecStates
      <3>1. rec[t] \in RecStates
        BY DEF RecTypeOK
      <3>2. Larger(rec[t].min, f.id) \in 0..MaxFrames
        BY <3>1, FrameFields, SenderAssumption DEF Larger, RecStates
      <3> QED
        BY <3>1, <3>2, FrameFields, NeutralTypes DEF EnterTracks, RecStates
    <2>3. rec' \in [Tracks -> RecStates]
      BY <2>1, <2>2 DEF EnterTracks
    <2>4. [d |-> f.d, s |-> f.s] \in RefreshRequests
      BY FrameFields DEF RefreshRequests
    <2>5. refresh' = Append(refresh, [d |-> f.d, s |-> f.s]) \/ refresh' = refresh
      BY <1>2 DEF Enter
    <2>6. refresh \in Seq(RefreshRequests)
      BY DEF RecTypeOK
    <2>7. refresh' \in Seq(RefreshRequests)
      BY <2>4, <2>5, <2>6
    <2> QED
      BY <2>3, <2>7 DEF RecTypeOK
  <1> QED
    BY <1>1, <1>2

(* suppress_delta and keyframe_sent keep the recovery well typed.          *)
LEMMA SuppressTypes ==
  ASSUME RecTypeOK, NEW f \in Frames, SuppressDelta(f) \/ KeyframeSent(f)
  PROVE  RecTypeOK'
  <1>1. rec[TrackOf(f)] \in RecStates /\ rec \in [Tracks -> RecStates]
    BY FrameFields DEF RecTypeOK
  <1>2. Larger(rec[TrackOf(f)].min, f.id) \in 0..MaxFrames
    BY <1>1, FrameFields, SenderAssumption DEF Larger, RecStates
  <1>3. CASE SuppressDelta(f)
    BY <1>1, <1>2, <1>3, FrameFields DEF SuppressDelta, RecStates, RecTypeOK
  <1>4. CASE KeyframeSent(f)
    BY <1>1, <1>4, NeutralTypes DEF KeyframeSent, RecTypeOK
  <1> QED
    BY <1>3, <1>4

(* The frame an enqueue numbers is a frame.                                *)
LEMMA NumberedFrame ==
  ASSUME TypeOK, NEW d \in Displays, NEW kf \in BOOLEAN, nextId <= MaxFrames
  PROVE  [id |-> nextId, d |-> d, s |-> enc[d].s, n |-> enc[d].n + 1,
          kf |-> kf, ep |-> requested, re |-> 0] \in Frames
  <1>1. enc[d] \in EncStates /\ enc[d].n < nextId /\ nextId \in 1..(MaxFrames + 1)
    BY DEF TypeOK, EncTypeOK
  <1>2. enc[d].s \in Streams /\ enc[d].n + 1 \in 1..MaxFrames /\ nextId \in 1..MaxFrames
    BY <1>1, SenderAssumption DEF EncStates
  <1>3. requested \in Epochs /\ 0 \in 0..MaxFrames
    BY SenderAssumption DEF TypeOK, GateTypeOK
  <1> QED
    BY <1>2, <1>3 DEF Frames

(* The gate's counters stay within the epochs.                             *)
LEMMA AcknowledgeTypes ==
  ASSUME GateTypeOK, NEW ep \in Epochs, Acknowledge(ep),
         requested' = requested, cancelled' \in {cancelled, cancelled \union {ep}}
  PROVE  GateTypeOK'
  BY DEF GateTypeOK, Acknowledge, Larger, Epochs

(* Every step of the enqueueing task keeps the types.                      *)
LEMMA EnqueuerTypeOK ==
  ASSUME TypeOK, Enqueuer
  PROVE  TypeOK'
  <1> USE DEF encVars, slotVars, recVars, gateVars, ctlVars, writeVars
  <1>1. ASSUME NEW d \in Displays, RestartStream(d) PROVE TypeOK'
    <2>1. enc[d].s + 1 \in Streams
      BY <1>1, SenderAssumption DEF RestartStream, TypeOK, EncTypeOK, EncStates, Streams
    <2>2. [s |-> enc[d].s + 1, n |-> 0, want |-> FALSE] \in EncStates
      BY <2>1, SenderAssumption DEF EncStates
    <2>3. EncTypeOK'
      BY <1>1, <2>2, SenderAssumption DEF RestartStream, TypeOK, EncTypeOK
    <2> QED
      BY <1>1, <2>3 DEF RestartStream, TypeOK, EnqTypeOK, SlotTypeOK, RecTypeOK,
                        GateTypeOK, CtlTypeOK, WriteTypeOK
  <1>2. ASSUME NEW d \in Displays, NEW kf \in BOOLEAN, EnqueueFrame(d, kf) PROVE TypeOK'
    <2> DEFINE f == [id |-> nextId, d |-> d, s |-> enc[d].s, n |-> enc[d].n + 1,
                     kf |-> kf, ep |-> requested, re |-> 0]
    <2>1. f \in Frames /\ nextId \in 1..MaxFrames /\ enc[d].n + 1 \in 0..MaxFrames
      BY <1>2, NumberedFrame, FrameFields, SenderAssumption DEF EnqueueFrame, TypeOK, EncTypeOK, EncStates
    <2> HIDE DEF f
    <2>2. enc' \in [Displays -> EncStates]
      BY <1>2, <2>1 DEF EnqueueFrame, TypeOK, EncTypeOK, EncStates
    <2>3. nextId' \in 1..(MaxFrames + 1) /\ \A e \in Displays : enc'[e].n < nextId'
      BY <1>2, <2>1, SenderAssumption DEF EnqueueFrame, TypeOK, EncTypeOK, EncStates
    <2>4. RecTypeOK'
      <3>1. SuppressDelta(f) \/ UNCHANGED recVars
        BY <1>2 DEF EnqueueFrame, f
      <3> QED
        BY <2>1, <3>1, SuppressTypes DEF TypeOK, RecTypeOK
    <2>5. EnqTypeOK'
      <3>1. enq' = [at |-> "offer", f |-> f] \/ enq' = enq
        BY <1>2 DEF EnqueueFrame, f
      <3> QED
        BY <2>1, <3>1, FrameFields DEF TypeOK, EnqTypeOK, EnqAt
    <2> QED
      BY <1>2, <2>2, <2>3, <2>4, <2>5
      DEF EnqueueFrame, TypeOK, EncTypeOK, SlotTypeOK, GateTypeOK, CtlTypeOK, WriteTypeOK
  <1>3. ASSUME NEW room \in BOOLEAN, OfferFrame(room) PROVE TypeOK'
    <2>1. enq.f \in Frames /\ enq.at \in EnqAt /\ enq = [at |-> enq.at, f |-> enq.f]
      BY <1>3 DEF OfferFrame, TypeOK, EnqTypeOK
    <2>2. Retire(enq.f) \in [Tracks -> MaybeFrame]
      BY NeutralTypes DEF Retire, TypeOK, SlotTypeOK
    <2>3. SlotTypeOK'
      BY <1>3, <2>1, <2>2, FrameFields DEF OfferFrame, TypeOK, SlotTypeOK
    <2>4. EnqTypeOK'
      <3>1. enq' = [enq EXCEPT !.at = "lost"] \/ enq' = [at |-> "idle", f |-> NoFrame]
        BY <1>3 DEF OfferFrame
      <3> QED
        BY <2>1, <3>1, FrameFields, NeutralTypes DEF EnqTypeOK, EnqAt
    <2>5. RecTypeOK'
      <3>1. Enter(enq.f) \/ UNCHANGED recVars
        BY <1>3 DEF OfferFrame
      <3> QED
        BY <2>1, <3>1, EnterTypes DEF TypeOK, RecTypeOK
    <2> QED
      BY <1>3, <2>3, <2>4, <2>5
      DEF OfferFrame, TypeOK, EncTypeOK, GateTypeOK, CtlTypeOK, WriteTypeOK
  <1>4. CASE LoseOffered
    <2>1. enq.f \in Frames
      BY <1>4 DEF LoseOffered, TypeOK, EnqTypeOK
    <2>2. RecTypeOK'
      BY <1>4, <2>1, EnterTypes DEF LoseOffered, TypeOK
    <2>3. EnqTypeOK'
      BY <1>4, NeutralTypes DEF LoseOffered, EnqTypeOK, EnqAt
    <2> QED
      BY <1>4, <2>2, <2>3
      DEF LoseOffered, TypeOK, EncTypeOK, SlotTypeOK, GateTypeOK, CtlTypeOK, WriteTypeOK
  <1>5. CASE SwitchDisplay
    <2>1. GateTypeOK'
      BY <1>5, SenderAssumption DEF SwitchDisplay, TypeOK, GateTypeOK, Epochs
    <2>2. EnqTypeOK'
      BY <1>5 DEF SwitchDisplay, TypeOK, EnqTypeOK, EnqAt
    <2> QED
      BY <1>5, <2>1, <2>2
      DEF SwitchDisplay, TypeOK, EncTypeOK, SlotTypeOK, RecTypeOK, CtlTypeOK, WriteTypeOK
  <1>6. CASE SendSwitch
    <2>1. GateTypeOK' /\ CtlTypeOK'
      <3>1. requested \in Epochs
        BY DEF TypeOK, GateTypeOK
      <3>2. CASE ctl' = Append(ctl, requested) /\ UNCHANGED <<acked, cancelled>>
        <4>1. GateTypeOK'
          BY <1>6, <3>2 DEF SendSwitch, TypeOK, GateTypeOK
        <4>2. ctl' = Append(ctl, requested) /\ UNCHANGED <<net, acks, peerEpoch>>
          BY <1>6, <3>2 DEF SendSwitch
        <4> QED
          BY <3>1, <4>1, <4>2 DEF TypeOK, CtlTypeOK
      <3>3. CASE Acknowledge(requested) /\ cancelled' = cancelled \union {requested} /\ ctl' = ctl
        <4>1. GateTypeOK'
          BY <1>6, <3>1, <3>3, AcknowledgeTypes DEF SendSwitch, TypeOK
        <4> QED
          BY <1>6, <3>3, <4>1 DEF SendSwitch, TypeOK, CtlTypeOK
      <3> QED
        BY <1>6, <3>2, <3>3 DEF SendSwitch
    <2>2. EnqTypeOK'
      BY <1>6 DEF SendSwitch, TypeOK, EnqTypeOK, EnqAt
    <2> QED
      BY <1>6, <2>1, <2>2
      DEF SendSwitch, TypeOK, EncTypeOK, SlotTypeOK, RecTypeOK, WriteTypeOK
  <1>7. CASE EnqueueControl
    <2>1. CtlTypeOK'
      BY <1>7, NeutralTypes DEF EnqueueControl, TypeOK, CtlTypeOK, OrdinaryControl
    <2> QED
      BY <1>7, <2>1
      DEF EnqueueControl, TypeOK, EncTypeOK, EnqTypeOK, SlotTypeOK, RecTypeOK, GateTypeOK, WriteTypeOK
  <1> QED
    BY <1>1, <1>2, <1>3, <1>4, <1>5, <1>6, <1>7 DEF Enqueuer

(* Every step of the video writer keeps the types.                         *)
LEMMA WriterTypeOK ==
  ASSUME TypeOK, Writer
  PROVE  TypeOK'
  <1> USE DEF encVars, slotVars, recVars, gateVars, ctlVars, writeVars
  <1> DEFINE Rest == EncTypeOK' /\ EnqTypeOK' /\ CtlTypeOK' /\ (closed \in BOOLEAN)'
  <1>0. ASSUME UNCHANGED <<encVars, enq, ctlVars, closed>> PROVE Rest
    BY <1>0 DEF TypeOK, EncTypeOK, EnqTypeOK, CtlTypeOK
  <1>a. ASSUME UNCHANGED gateVars PROVE GateTypeOK'
    BY <1>a DEF TypeOK, GateTypeOK
  <1>b. ASSUME UNCHANGED slotVars PROVE SlotTypeOK'
    BY <1>b DEF TypeOK, SlotTypeOK
  <1>c. ASSUME UNCHANGED recVars PROVE RecTypeOK'
    BY <1>c DEF TypeOK, RecTypeOK
  <1>d. ASSUME UNCHANGED <<refEpoch, wire>>, WriterIdle \/ WriterReturns PROVE WriteTypeOK'
    BY <1>d, NeutralTypes DEF TypeOK, WriteTypeOK, WriterPC, WriterIdle, WriterReturns
  <1>e. ASSUME UNCHANGED <<refEpoch, wire>>, writer.at \notin {"take", "done"},
               NEW pc \in WriterPC, WriterAt(pc)
        PROVE  WriteTypeOK'
    BY <1>e DEF TypeOK, WriteTypeOK, WriterAt, MaybeFrame
  <1>f. ASSUME NEW t \in Tracks, pending' = [pending EXCEPT ![t] = NoFrame], newest' = newest
        PROVE  SlotTypeOK'
    BY <1>f, NeutralTypes DEF TypeOK, SlotTypeOK
  <1>1. ASSUME NEW t \in Tracks, TakeFrame(t) PROVE TypeOK'
    <2>1. pending[t] \in Frames
      BY <1>1 DEF TakeFrame, TypeOK, SlotTypeOK, MaybeFrame
    <2>2. GateTypeOK'
      BY <1>1, <2>1, FrameFields, AcknowledgeTypes, <1>a DEF TakeFrame, TypeOK
    <2>3. WriteTypeOK'
      <3>1. CASE closed
        BY <1>1, <3>1, <1>d DEF TakeFrame
      <3>2. CASE ~closed
        BY <1>1, <2>1, <3>2, FrameFields DEF TakeFrame, TypeOK, WriteTypeOK, WriterPC
      <3> QED
        BY <3>1, <3>2
    <2> QED
      BY <1>1, <2>2, <2>3, <1>0, <1>c, <1>f DEF TakeFrame, TypeOK
  <1>2. CASE TestGate
    BY <1>2, <1>0, <1>a, <1>b, <1>c, <1>e DEF TestGate, TypeOK, WriterPC
  <1>3. CASE GateOpens
    BY <1>3, <1>0, <1>a, <1>b, <1>c, <1>e DEF GateOpens, TypeOK, WriterPC
  <1>4. CASE TakeNewer
    <2> DEFINE t == TrackOf(writer.f)
    <2>1. writer.f \in Frames /\ t \in Tracks
      BY <1>4, FrameFields DEF TakeNewer, TypeOK, WriteTypeOK
    <2>2. pending[t] \in Frames
      BY <1>4, <2>1 DEF TakeNewer, TypeOK, SlotTypeOK, MaybeFrame
    <2>3. SlotTypeOK'
      BY <1>4, <2>1, <1>f DEF TakeNewer
    <2>4. RecTypeOK'
      <3>1. Enter(pending[t]) \/ UNCHANGED recVars
        BY <1>4 DEF TakeNewer
      <3> QED
        BY <2>2, <3>1, <1>c, EnterTypes DEF TypeOK
    <2>5. WriteTypeOK'
      <3>1. \E f \in Frames : writer' = [at |-> "gate", f |-> f]
        BY <1>4, <2>1, <2>2 DEF TakeNewer
      <3> QED
        BY <1>4, <3>1, FrameFields DEF TakeNewer, TypeOK, WriteTypeOK, WriterPC
    <2> QED
      BY <1>4, <2>3, <2>4, <2>5, <1>0, <1>a DEF TakeNewer, TypeOK
  <1>5. CASE WriterStops
    <2>1. GateTypeOK'
      <3>1. CASE UNCHANGED acked
        BY <1>5, <3>1, <1>a DEF WriterStops
      <3>2. CASE writer.at # "take" /\ Acknowledge(writer.f.ep)
        <4>1. writer.f \in Frames
          BY <1>5, <3>2 DEF WriterStops, TypeOK, WriteTypeOK
        <4> QED
          BY <1>5, <3>2, <4>1, FrameFields, AcknowledgeTypes DEF WriterStops, TypeOK
      <3> QED
        BY <1>5, <3>1, <3>2 DEF WriterStops
    <2> QED
      BY <1>5, <2>1, <1>0, <1>b, <1>c, <1>d DEF WriterStops, TypeOK
  <1>6. CASE CheckFrame
    <2> DEFINE f == writer.f
    <2>1. f \in Frames
      BY <1>6 DEF CheckFrame, TypeOK, WriteTypeOK
    <2>2. refEpoch[f.d] \in RefEpochs
      BY <2>1, FrameFields DEF TypeOK, WriteTypeOK
    <2>3. Stamped(f) \in Frames
      BY <2>1, <2>2 DEF Stamped, Frames, RefEpochs
    <2>4. [s |-> f.s, ep |-> ReferenceEpoch(f)] \in RefEpochs
      BY <2>1, FrameFields DEF RefEpochs, ReferenceEpoch
    <2>5. RecTypeOK'
      <3>1. SuppressDelta(f) \/ UNCHANGED recVars
        BY <1>6 DEF CheckFrame
      <3> QED
        BY <2>1, <3>1, <1>c, SuppressTypes DEF TypeOK
    <2>6. WriteTypeOK'
      <3>1. CASE Suppressed(f)
        BY <1>6, <3>1, <1>d DEF CheckFrame
      <3>2. CASE ~Suppressed(f)
        <4>1. /\ writer' = [at |-> "send", f |-> Stamped(f)] /\ wire' = wire
              /\ refEpoch' = refEpoch \/ refEpoch' =
                   [refEpoch EXCEPT ![f.d] = [s |-> f.s, ep |-> ReferenceEpoch(f)]]
          BY <1>6, <3>2 DEF CheckFrame
        <4> QED
          BY <2>3, <2>4, <4>1, FrameFields DEF TypeOK, WriteTypeOK, WriterPC
      <3> QED
        BY <3>1, <3>2
    <2> QED
      BY <1>6, <2>5, <2>6, <1>0, <1>a, <1>b DEF CheckFrame, TypeOK
  <1>7. CASE SendFrame
    <2>1. writer.f \in Frames
      BY <1>7 DEF SendFrame, TypeOK, WriteTypeOK
    <2>2. wire' \in Seq(Frames)
      BY <1>7, <2>1 DEF SendFrame, TypeOK, WriteTypeOK
    <2>3. WriteTypeOK'
      BY <1>7, <2>1, <2>2, NeutralTypes
      DEF SendFrame, WriterAt, WriterIdle, TypeOK, WriteTypeOK, WriterPC
    <2> QED
      BY <1>7, <2>3, <1>0, <1>a, <1>b, <1>c DEF SendFrame, TypeOK
  <1>8. CASE RejectFrame
    BY <1>8, <1>0, <1>a, <1>b, <1>c, <1>e DEF RejectFrame, TypeOK, WriterPC
  <1>9. CASE RecoverRejected \/ NoteKeyframeSent
    <2>1. writer.f \in Frames
      BY <1>9 DEF RecoverRejected, NoteKeyframeSent, TypeOK, WriteTypeOK
    <2>2. RecTypeOK'
      BY <1>9, <2>1, EnterTypes, SuppressTypes DEF RecoverRejected, NoteKeyframeSent, TypeOK
    <2> QED
      BY <1>9, <2>2, <1>0, <1>a, <1>b, <1>d DEF RecoverRejected, NoteKeyframeSent, TypeOK
  <1> QED
    BY <1>1, <1>2, <1>3, <1>4, <1>5, <1>6, <1>7, <1>8, <1>9 DEF Writer

(* Every step of the control channel and the peer keeps the types.         *)
LEMMA ControlTypeOK ==
  ASSUME TypeOK, Control
  PROVE  TypeOK'
  <1> USE DEF encVars, slotVars, recVars, gateVars, ctlVars, writeVars
  <1>0. ASSUME UNCHANGED <<encVars, enq, slotVars, recVars, writeVars>>
        PROVE  EncTypeOK' /\ EnqTypeOK' /\ SlotTypeOK' /\ RecTypeOK' /\ WriteTypeOK'
    BY <1>0 DEF TypeOK, EncTypeOK, EnqTypeOK, SlotTypeOK, RecTypeOK, WriteTypeOK
  <1>a. ASSUME UNCHANGED gateVars PROVE GateTypeOK'
    BY <1>a DEF TypeOK, GateTypeOK
  <1>1. CASE ControlWriter
    <2>1. CtlTypeOK'
      BY <1>1 DEF ControlWriter, TypeOK, CtlTypeOK
    <2> QED
      BY <1>1, <2>1, <1>0, <1>a DEF ControlWriter, TypeOK
  <1>2. CASE PeerReads
    <2>1. CtlTypeOK'
      <3>1. Head(net) \in Epochs /\ Tail(net) \in Seq(Epochs)
        BY <1>2 DEF PeerReads, TypeOK, CtlTypeOK
      <3>2. CASE Head(net) = OrdinaryControl
        BY <1>2, <3>1, <3>2 DEF PeerReads, TypeOK, CtlTypeOK
      <3>3. CASE Head(net) # OrdinaryControl
        <4>1. /\ net' = Tail(net) /\ peerEpoch' = Head(net) /\ ctl' = ctl
              /\ acks' = Append(acks, Head(net))
          BY <1>2, <3>3 DEF PeerReads
        <4> QED
          BY <3>1, <4>1 DEF TypeOK, CtlTypeOK
      <3> QED
        BY <3>2, <3>3
    <2> QED
      BY <1>2, <2>1, <1>0, <1>a DEF PeerReads, TypeOK
  <1>3. CASE ReadAck
    <2>1. CtlTypeOK' /\ Head(acks) \in Epochs
      BY <1>3 DEF ReadAck, TypeOK, CtlTypeOK
    <2>2. GateTypeOK' /\ (closed \in BOOLEAN)'
      <3>1. CASE Head(acks) = 0 \/ Head(acks) > requested
        BY <1>3, <3>1, <1>a DEF ReadAck
      <3>2. CASE ~(Head(acks) = 0 \/ Head(acks) > requested)
        <4>1. Acknowledge(Head(acks)) /\ UNCHANGED <<requested, cancelled, closed>>
          BY <1>3, <3>2 DEF ReadAck
        <4> QED
          BY <2>1, <4>1, AcknowledgeTypes DEF TypeOK
      <3> QED
        BY <3>1, <3>2
    <2> QED
      BY <1>3, <2>1, <2>2, <1>0 DEF ReadAck, TypeOK
  <1> QED
    BY <1>1, <1>2, <1>3 DEF Control

(* Every step keeps the types.                                             *)
LEMMA NextTypeOK == TypeOK /\ [Next]_vars => TypeOK'
  <1> SUFFICES ASSUME TypeOK, [Next]_vars PROVE TypeOK'
    OBVIOUS
  <1> USE DEF encVars, slotVars, recVars, gateVars, ctlVars, writeVars
  <1>1. CASE RefreshEncoder
    <2>1. Head(refresh) \in RefreshRequests /\ RecTypeOK'
      BY <1>1 DEF RefreshEncoder, TypeOK, RecTypeOK
    <2>2. EncTypeOK'
      <3> DEFINE d == Head(refresh).d
      <3>1. d \in Displays
        BY <2>1 DEF RefreshRequests
      <3>2. nextId' = nextId /\ (enc' = [enc EXCEPT ![d].want = TRUE] \/ enc' = enc)
        BY <1>1 DEF RefreshEncoder
      <3>3. [enc[d] EXCEPT !.want = TRUE] \in EncStates /\ [enc[d] EXCEPT !.want = TRUE].n = enc[d].n
        BY <3>1 DEF TypeOK, EncTypeOK, EncStates
      <3> QED
        BY <3>1, <3>2, <3>3 DEF TypeOK, EncTypeOK
    <2> QED
      BY <1>1, <2>1, <2>2
      DEF RefreshEncoder, TypeOK, EnqTypeOK, SlotTypeOK, GateTypeOK, CtlTypeOK, WriteTypeOK
  <1>2. CASE Close
    BY <1>2 DEF Close, TypeOK, EncTypeOK, EnqTypeOK, SlotTypeOK, RecTypeOK, GateTypeOK,
                CtlTypeOK, WriteTypeOK
  <1>3. CASE UNCHANGED vars
    BY <1>3 DEF vars, TypeOK, EncTypeOK, EnqTypeOK, SlotTypeOK, RecTypeOK, GateTypeOK,
                CtlTypeOK, WriteTypeOK
  <1> QED
    BY <1>1, <1>2, <1>3, EnqueuerTypeOK, WriterTypeOK, ControlTypeOK DEF Next, Stopped

(* The state of the sender is well typed in every behaviour; in particular *)
(* a task that works on a frame holds one, the acknowledged epoch is an    *)
(* epoch, and the recovery's frame ids stay within the ids handed out.     *)
THEOREM TypeCorrect == Spec => []TypeOK
  BY InitTypeOK, NextTypeOK, PTL DEF Spec

-----------------------------------------------------------------------------
(* The entries of a queue of control messages after an append.             *)
LEMMA AppendEntries ==
  ASSUME NEW q \in Seq(Epochs), NEW e \in Epochs
  PROVE  /\ Append(q, e) \in Seq(Epochs) /\ Len(Append(q, e)) = Len(q) + 1 /\ Len(q) \in Nat
         /\ \A i \in 1..Len(Append(q, e)) :
              (i \in 1..Len(q) /\ Append(q, e)[i] = q[i]) \/ (i = Len(q) + 1 /\ Append(q, e)[i] = e)
         /\ \A i \in 1..Len(q) : q[i] \in Epochs
  OBVIOUS

(* The entries of a queue of control messages after its head is taken.     *)
LEMMA TailEntries ==
  ASSUME NEW q \in Seq(Epochs), q # <<>>
  PROVE  /\ Tail(q) \in Seq(Epochs) /\ Len(q) \in Nat
         /\ 1 \in 1..Len(q) /\ Head(q) = q[1]
         /\ \A i \in 1..Len(Tail(q)) : i + 1 \in 1..Len(q) /\ Tail(q)[i] = q[i + 1]
         /\ \A i \in 1..Len(q) : q[i] \in Epochs
  OBVIOUS

(* Taking the head of a rising queue leaves it rising.                     *)
LEMMA TailRises ==
  ASSUME NEW q \in Seq(Epochs), q # <<>>, Rising(q)
  PROVE  /\ Rising(Tail(q))
         /\ \A i \in 1..Len(Tail(q)) : Tail(q)[i] # OrdinaryControl => Head(q) < Tail(q)[i]
  BY TailEntries DEF Rising

(* A new SwitchDisplay epoch is ahead of every queued one; the control     *)
(* channel keeps them in order up to the peer.                             *)
LEMMA SwitchOrderStep ==
  ASSUME TypeOK, SwitchesInOrder, [Next]_vars
  PROVE  SwitchesInOrder'
  <1> USE DEF encVars, slotVars, recVars, gateVars, ctlVars, writeVars
  <1>a. /\ ctl \in Seq(Epochs) /\ net \in Seq(Epochs) /\ acks \in Seq(Epochs)
        /\ requested \in Epochs /\ peerEpoch \in Epochs /\ 0 \in Epochs /\ Epochs \subseteq Nat
    BY NeutralTypes DEF TypeOK, CtlTypeOK, GateTypeOK, Epochs
  <1>1. CASE UNCHANGED <<ctlVars, requested>> /\ (enq'.at # "switch" \/ enq' = enq)
    BY <1>1, <1>a DEF SwitchesInOrder, Rising, Ahead, Requested
  <1>2. CASE SwitchDisplay
    BY <1>2, <1>a DEF SwitchDisplay, SwitchesInOrder, Rising, Ahead, Requested
  <1>3. CASE SendSwitch
    <2>1. enq.at = "switch" /\ enq'.at # "switch" /\ UNCHANGED <<net, acks, peerEpoch, requested>>
      BY <1>3 DEF SendSwitch, TypeOK, EnqTypeOK
    <2>2. CASE ctl' = ctl
      BY <2>1, <2>2, <1>1
    <2>3. CASE ctl' = Append(ctl, requested)
      <3>1. requested > peerEpoch /\ \A i \in 1..Len(net) : net[i] < requested
        BY <2>1 DEF SwitchesInOrder, Requested
      <3>2. \A i \in 1..Len(ctl) : ctl[i] < requested
        BY <2>1 DEF SwitchesInOrder, Requested
      <3>3. Rising(ctl')
        BY <2>3, <3>2, <1>a, AppendEntries DEF SwitchesInOrder, Rising
      <3>4. Ahead(net', ctl')
        BY <2>1, <2>3, <3>1, <1>a, AppendEntries DEF SwitchesInOrder, Ahead
      <3>5. \A i \in 1..Len(ctl') : ctl'[i] <= requested /\ (ctl'[i] # OrdinaryControl => ctl'[i] > peerEpoch)
        <4> TAKE i \in 1..Len(ctl')
        <4>1. (i \in 1..Len(ctl) /\ ctl'[i] = ctl[i]) \/ ctl'[i] = requested
          BY <2>3, <1>a, AppendEntries
        <4>2. \A j \in 1..Len(ctl) : ctl[j] \in Nat
          BY <1>a, AppendEntries
        <4> QED
          BY <3>1, <3>2, <4>1, <4>2, <1>a DEF SwitchesInOrder
      <3> QED
        BY <2>1, <3>1, <3>3, <3>4, <3>5, <1>a DEF SwitchesInOrder, Rising, Requested
    <2> QED
      BY <1>3, <2>2, <2>3 DEF SendSwitch
  <1>4. CASE EnqueueControl
    <2>1. /\ ctl' = Append(ctl, 0) /\ UNCHANGED <<net, acks, peerEpoch, requested, enq>>
          /\ enq.at # "switch"
      BY <1>4 DEF EnqueueControl, OrdinaryControl
    <2>2. Rising(ctl') /\ Ahead(net', ctl')
      BY <2>1, <1>a, AppendEntries DEF SwitchesInOrder, Rising, Ahead, OrdinaryControl
    <2>3. \A i \in 1..Len(ctl') : ctl'[i] <= requested /\ (ctl'[i] # OrdinaryControl => ctl'[i] > peerEpoch)
      BY <2>1, <1>a, AppendEntries DEF SwitchesInOrder, Requested, OrdinaryControl
    <2> QED
      BY <2>1, <2>2, <2>3, <1>a DEF SwitchesInOrder, Rising, Requested
  <1>5. CASE ControlWriter
    <2>1. /\ ctl # <<>> /\ net' = Append(net, Head(ctl)) /\ ctl' = Tail(ctl)
          /\ UNCHANGED <<acks, peerEpoch, requested, enq>>
      BY <1>5 DEF ControlWriter
    <2>2. /\ Rising(Tail(ctl)) /\ Head(ctl) \in Epochs /\ Head(ctl) = ctl[1] /\ 1 \in 1..Len(ctl)
          /\ \A i \in 1..Len(Tail(ctl)) :
               (Tail(ctl)[i] # OrdinaryControl => Head(ctl) < Tail(ctl)[i])
      BY <2>1, <1>a, TailRises, TailEntries DEF SwitchesInOrder
    <2>3. Rising(net')
      BY <2>1, <2>2, <1>a, AppendEntries DEF SwitchesInOrder, Rising, Ahead
    <2>4. Ahead(net', ctl')
      BY <2>1, <2>2, <1>a, AppendEntries, TailEntries DEF SwitchesInOrder, Ahead
    <2>5. \A i \in 1..Len(net') : Requested(net'[i]) /\ (net'[i] # OrdinaryControl => net'[i] > peerEpoch)
      BY <2>1, <2>2, <1>a, AppendEntries DEF SwitchesInOrder
    <2>6. \A i \in 1..Len(ctl') : Requested(ctl'[i]) /\ (ctl'[i] # OrdinaryControl => ctl'[i] > peerEpoch)
      BY <2>1, <1>a, TailEntries DEF SwitchesInOrder
    <2> QED
      BY <2>1, <2>2, <2>3, <2>4, <2>5, <2>6 DEF SwitchesInOrder, Requested
  <1>6. CASE PeerReads
    <2>1. /\ net # <<>> /\ net' = Tail(net) /\ UNCHANGED <<ctl, requested, enq>>
      BY <1>6 DEF PeerReads
    <2>2. /\ Rising(Tail(net)) /\ Head(net) \in Epochs /\ Head(net) = net[1] /\ 1 \in 1..Len(net)
          /\ \A i \in 1..Len(Tail(net)) :
               (Tail(net)[i] # OrdinaryControl => Head(net) < Tail(net)[i])
      BY <2>1, <1>a, TailRises, TailEntries DEF SwitchesInOrder
    <2>3. Ahead(net', ctl')
      BY <2>1, <1>a, TailEntries DEF SwitchesInOrder, Ahead
    <2>4. \A i \in 1..Len(net') : Requested(net'[i]) /\ (net'[i] # OrdinaryControl => net'[i] > peerEpoch)
      BY <2>1, <1>a, TailEntries DEF SwitchesInOrder
    <2>5. CASE Head(net) = OrdinaryControl
      <3>1. UNCHANGED <<peerEpoch, acks>>
        BY <1>6, <2>5 DEF PeerReads
      <3> QED
        BY <2>1, <2>2, <2>3, <2>4, <3>1 DEF SwitchesInOrder, Requested, Rising
    <2>6. CASE Head(net) # OrdinaryControl
      <3>1. peerEpoch' = Head(net) /\ acks' = Append(acks, Head(net))
        BY <1>6, <2>6 DEF PeerReads
      <3>2. Head(net) > peerEpoch /\ Requested(Head(net))
        BY <2>2, <2>6 DEF SwitchesInOrder
      <3>3. \A i \in 1..Len(net') : net'[i] # OrdinaryControl => net'[i] > peerEpoch'
        BY <2>1, <2>2, <3>1, <1>a, TailEntries
      <3>4. \A i \in 1..Len(ctl') : ctl'[i] # OrdinaryControl => ctl'[i] > peerEpoch'
        BY <2>1, <2>2, <3>1, <1>a DEF SwitchesInOrder, Ahead
      <3>5. \A i \in 1..Len(acks') : acks'[i] <= peerEpoch'
        <4> TAKE i \in 1..Len(acks')
        <4>1. (i \in 1..Len(acks) /\ acks'[i] = acks[i]) \/ acks'[i] = Head(net)
          BY <2>2, <3>1, <1>a, AppendEntries
        <4>2. \A j \in 1..Len(acks) : acks[j] \in Nat
          BY <1>a, AppendEntries
        <4>3. \A j \in 1..Len(acks) : acks[j] <= peerEpoch
          BY DEF SwitchesInOrder
        <4>4. Head(net) \in Nat /\ peerEpoch \in Nat
          BY <2>2, <1>a
        <4> QED
          BY <3>1, <3>2, <4>1, <4>2, <4>3, <4>4
      <3> QED
        BY <2>1, <2>2, <2>3, <2>4, <3>1, <3>2, <3>3, <3>4, <3>5 DEF SwitchesInOrder, Requested, Rising
    <2> QED
      BY <2>5, <2>6
  <1>7. CASE ReadAck
    <2>1. acks # <<>> /\ acks' = Tail(acks) /\ UNCHANGED <<ctl, net, peerEpoch, requested, enq>>
      BY <1>7 DEF ReadAck
    <2>2. \A i \in 1..Len(acks') : acks'[i] <= peerEpoch
      BY <2>1, <1>a, TailEntries DEF SwitchesInOrder
    <2> QED
      BY <2>1, <2>2 DEF SwitchesInOrder, Rising, Ahead, Requested
  <1> QED
    <2>1. CASE Enqueuer
      <3>1. (\E d \in Displays, kf \in BOOLEAN : EnqueueFrame(d, kf)) => enq'.at # "switch" \/ enq' = enq
        BY DEF EnqueueFrame
      <3>2. (\E room \in BOOLEAN : OfferFrame(room)) \/ LoseOffered => enq'.at # "switch"
        BY DEF OfferFrame, LoseOffered, TypeOK, EnqTypeOK
      <3> QED
        BY <2>1, <3>1, <3>2, <1>1, <1>2, <1>3, <1>4
        DEF Enqueuer, RestartStream, EnqueueFrame, OfferFrame, LoseOffered
    <2>2. CASE Writer
      BY <2>2, <1>1 DEF Writer, TakeFrame, TestGate, GateOpens, TakeNewer, WriterStops,
                        CheckFrame, SendFrame, RejectFrame, RecoverRejected, NoteKeyframeSent
    <2>3. CASE RefreshEncoder \/ Close \/ Stopped \/ UNCHANGED vars
      BY <2>3, <1>1 DEF RefreshEncoder, Close, Stopped, vars
    <2> QED
      BY <2>1, <2>2, <2>3, <1>5, <1>6, <1>7 DEF Next, Control

(* No step takes back what the peer has seen, what was cancelled or the    *)
(* closing of the connection.                                              *)
LEMMA ReleaseIsStable ==
  ASSUME TypeOK, SwitchesInOrder, [Next]_vars, NEW e \in Epochs, Released(e)
  PROVE  Released(e)'
  <1> USE DEF encVars, slotVars, recVars, gateVars, ctlVars, writeVars
  <1>1. peerEpoch' \in Nat /\ peerEpoch' >= peerEpoch /\ peerEpoch \in Nat /\ e \in Nat
    <2>1. CASE PeerReads
      <3>1. net # <<>> /\ (peerEpoch' = peerEpoch \/ (peerEpoch' = Head(net) /\ Head(net) # OrdinaryControl))
        BY <2>1 DEF PeerReads
      <3>2. Head(net) = net[1] /\ 1 \in 1..Len(net) /\ net[1] \in Epochs
        BY <3>1, TailEntries DEF TypeOK, CtlTypeOK
      <3>3. Head(net) # OrdinaryControl => Head(net) > peerEpoch
        BY <3>2 DEF SwitchesInOrder
      <3> QED
        BY <3>1, <3>2, <3>3 DEF TypeOK, CtlTypeOK, Epochs
    <2>2. CASE ~PeerReads
      <3>1. peerEpoch' = peerEpoch
        BY <2>2 DEF Next, vars, Enqueuer, RestartStream, EnqueueFrame, OfferFrame, LoseOffered,
             SwitchDisplay, SendSwitch, EnqueueControl, Writer, TakeFrame, TestGate, GateOpens,
             TakeNewer, WriterStops, CheckFrame, SendFrame, RejectFrame, RecoverRejected,
             NoteKeyframeSent, Control, ControlWriter, ReadAck, RefreshEncoder, Close, Stopped
      <3> QED
        BY <3>1 DEF TypeOK, CtlTypeOK, Epochs
    <2> QED
      BY <2>1, <2>2
  <1>2. cancelled \subseteq cancelled'
    BY DEF Next, vars, Enqueuer, RestartStream, EnqueueFrame, OfferFrame, LoseOffered,
         SwitchDisplay, SendSwitch, EnqueueControl, Writer, TakeFrame, TestGate, GateOpens,
         TakeNewer, WriterStops, CheckFrame, SendFrame, RejectFrame, RecoverRejected,
         NoteKeyframeSent, Control, ControlWriter, PeerReads, ReadAck, RefreshEncoder, Close, Stopped
  <1> QED
    BY <1>1, <1>2 DEF Released

(* The gate stays honest: an acknowledgement opens it for epochs the peer  *)
(* has seen, a full control queue for the epoch it cancels, and every      *)
(* other release of the gate comes after the connection has closed.        *)
LEMMA GateStep ==
  ASSUME TypeOK, GateIsHonest, [Next]_vars
  PROVE  GateIsHonest'
  <1> USE DEF encVars, slotVars, recVars, gateVars, ctlVars, writeVars
  <1>a. /\ acks \in Seq(Epochs) /\ requested \in Epochs /\ acked \in Epochs
        /\ peerEpoch \in Epochs /\ Epochs \subseteq Nat
    BY DEF TypeOK, CtlTypeOK, GateTypeOK, Epochs
  <1>b. SwitchesInOrder /\ SwitchesInOrder'
    BY SwitchOrderStep DEF GateIsHonest
  <1>c. ASSUME UNCHANGED <<acked, closed>> PROVE (~closed => Released(acked))'
    BY <1>a, <1>b, <1>c, ReleaseIsStable DEF GateIsHonest, Released
  <1>d. (~closed /\ writer.at \in {"check", "send"}) => writer.f.ep \in Nat /\ writer.f.ep <= acked
    <2>1. writer.at \in {"check", "send"} => writer.f \in Frames
      BY DEF TypeOK, WriteTypeOK
    <2> QED
      BY <2>1, <1>a, FrameFields DEF GateIsHonest
  <1>1. CASE SendSwitch
    <2>1. closed' = closed /\ writer' = writer
      BY <1>1 DEF SendSwitch
    <2>2. CASE acked' = acked
      BY <2>1, <2>2, <1>b, <1>c DEF GateIsHonest
    <2>3. CASE Acknowledge(requested) /\ cancelled' = cancelled \union {requested}
      <3>1. acked' >= acked /\ acked' \in Nat
        BY <2>3, <1>a DEF Acknowledge, Larger
      <3>2. ~closed => Released(acked)'
        <4>1. CASE acked' = requested
          <5>1. requested \in cancelled' /\ requested >= acked'
            BY <2>3, <4>1, <1>a
          <5> QED
            BY <5>1 DEF Released
        <4>2. CASE acked' = acked
          BY <2>1, <4>2, <1>c
        <4> QED
          BY <2>3, <4>1, <4>2 DEF Acknowledge, Larger
      <3>3. (~closed /\ writer.at \in {"check", "send"}) => writer.f.ep <= acked'
        BY <3>1, <1>a, <1>d
      <3> QED
        BY <2>1, <3>2, <3>3, <1>b DEF GateIsHonest
    <2> QED
      BY <1>1, <2>2, <2>3 DEF SendSwitch
  <1>2. CASE ReadAck
    <2>1. writer' = writer /\ acks # <<>>
      BY <1>2 DEF ReadAck
    <2>2. CASE closed'
      BY <2>2, <1>b DEF GateIsHonest
    <2>3. CASE ~closed'
      <3>1. Acknowledge(Head(acks)) /\ closed' = closed /\ UNCHANGED <<cancelled, peerEpoch>>
        BY <1>2, <2>3 DEF ReadAck
      <3>2. Head(acks) \in Epochs /\ Head(acks) <= peerEpoch
        BY <2>1, <1>a, <1>b, TailEntries DEF SwitchesInOrder
      <3>3. Released(acked)'
        BY <2>3, <3>1, <3>2, <1>a DEF GateIsHonest, Acknowledge, Larger, Released
      <3>4. acked' >= acked /\ acked' \in Nat
        BY <3>1, <3>2, <1>a DEF Acknowledge, Larger
      <3>5. (~closed /\ writer.at \in {"check", "send"}) => writer.f.ep <= acked'
        BY <3>4, <1>a, <1>d
      <3> QED
        BY <2>1, <3>1, <3>3, <3>5, <1>b DEF GateIsHonest
    <2> QED
      BY <2>2, <2>3
  <1>3. CASE closed'
    BY <1>3, <1>b DEF GateIsHonest
  <1>4. CASE ~closed' /\ UNCHANGED <<acked, closed>> /\
             (writer' = writer \/ writer'.at \notin {"check", "send"})
    BY <1>4, <1>b, <1>c DEF GateIsHonest
  <1>5. CASE ~closed' /\ (TestGate \/ CheckFrame)
    <2>1. UNCHANGED <<acked, closed>>
      BY <1>5 DEF TestGate, CheckFrame
    <2>2. writer.f \in Frames
      BY <1>5 DEF TestGate, CheckFrame, TypeOK, WriteTypeOK
    <2>3. CASE TestGate
      <3>1. writer'.f = writer.f /\ (writer'.at = "check" => acked >= writer.f.ep) /\ writer'.at # "send"
        BY <2>3 DEF TestGate, WriterAt, IsOpen, TypeOK, WriteTypeOK
      <3> QED
        BY <2>1, <2>2, <3>1, <1>a, <1>b, <1>c, FrameFields DEF GateIsHonest, Epochs
    <2>4. CASE CheckFrame
      <3>1. Stamped(writer.f).ep = writer.f.ep
        BY <2>2 DEF Stamped, Frames
      <3>2. writer'.at = "take" \/ writer'.f.ep = writer.f.ep
        BY <2>4, <3>1 DEF CheckFrame, WriterIdle
      <3>3. writer.f.ep <= acked
        BY <1>5, <2>1, <2>4 DEF CheckFrame, GateIsHonest
      <3> QED
        BY <2>1, <3>2, <3>3, <1>b, <1>c DEF GateIsHonest
    <2> QED
      BY <1>5, <2>3, <2>4
  <1> QED
    <2>1. CASE Enqueuer \/ Control \/ RefreshEncoder \/ Close \/ Stopped \/ UNCHANGED vars
      BY <2>1, <1>1, <1>2, <1>3, <1>4
      DEF Enqueuer, RestartStream, EnqueueFrame, OfferFrame, LoseOffered, SwitchDisplay,
          EnqueueControl, Control, ControlWriter, PeerReads, RefreshEncoder, Close, Stopped, vars
    <2>2. CASE Writer
      <3>1. closed' = closed
        BY <2>2 DEF Writer, TakeFrame, TestGate, GateOpens, TakeNewer, WriterStops,
                    CheckFrame, SendFrame, RejectFrame, RecoverRejected, NoteKeyframeSent
      <3>2. (~closed /\ ~TestGate /\ ~CheckFrame) => acked' = acked /\ writer'.at \notin {"check", "send"}
        BY <2>2 DEF Writer, TakeFrame, GateOpens, TakeNewer, WriterStops, SendFrame, RejectFrame,
                    RecoverRejected, NoteKeyframeSent, WriterAt, WriterIdle, TypeOK, WriteTypeOK
      <3> QED
        BY <3>1, <3>2, <1>3, <1>4, <1>5
    <2> QED
      BY <2>1, <2>2 DEF Next

(* Only a send grows the wire, and it sends a frame the gate let through.  *)
LEMMA WaitStep ==
  ASSUME TypeOK, GateIsHonest, FramesWaitForTheirSwitch, [Next]_vars
  PROVE  FramesWaitForTheirSwitch'
  <1> USE DEF encVars, slotVars, recVars, gateVars, ctlVars, writeVars
  <1>1. wire \in Seq(Frames) /\ \A i \in 1..Len(wire) : wire[i] \in Frames /\ wire[i].ep \in Epochs
    BY FrameFields DEF TypeOK, WriteTypeOK
  <1> DEFINE ReleasedNext(e) == e <= peerEpoch' \/ \E c \in cancelled' : c >= e
  <1>2. ASSUME NEW e \in Epochs, Released(e) PROVE ReleasedNext(e)
    <2>1. Released(e)'
      BY <1>2, ReleaseIsStable DEF GateIsHonest
    <2> QED
      BY <2>1 DEF Released
  <1>3. \A i \in 1..Len(wire) : ReleasedNext(wire[i].ep)
    <2> TAKE i \in 1..Len(wire)
    <2>1. Released(wire[i].ep) /\ wire[i].ep \in Epochs
      BY <1>1 DEF FramesWaitForTheirSwitch, Released
    <2> QED
      BY <2>1, <1>2
  <1>4. CASE wire' = wire
    BY <1>3, <1>4 DEF FramesWaitForTheirSwitch
  <1>5. CASE SendFrame
    <2>1. /\ writer.f \in Frames /\ writer.f.ep <= acked /\ Released(acked)
          /\ wire' = Append(wire, writer.f)
      BY <1>5 DEF SendFrame, TypeOK, WriteTypeOK, GateIsHonest
    <2>2. writer.f.ep \in Epochs /\ Released(writer.f.ep)
      <3>1. writer.f.ep \in Nat /\ acked \in Nat /\ peerEpoch \in Nat /\ cancelled \subseteq Nat
        BY <2>1, FrameFields DEF TypeOK, GateTypeOK, CtlTypeOK, Epochs
      <3> QED
        BY <2>1, <3>1, FrameFields DEF Released
    <2>3. ReleasedNext(writer.f.ep)
      BY <2>2, <1>2
    <2> HIDE DEF ReleasedNext
    <2>4. ASSUME NEW i \in 1..Len(wire') PROVE ReleasedNext(wire'[i].ep)
      <3>1. (i \in 1..Len(wire) /\ wire'[i] = wire[i]) \/ wire'[i] = writer.f
        BY <2>1, <1>1
      <3> QED
        BY <3>1, <2>3, <1>3
    <2> QED
      BY <2>4 DEF FramesWaitForTheirSwitch, ReleasedNext
  <1> QED
    BY <1>4, <1>5 DEF Next, vars, Enqueuer, RestartStream, EnqueueFrame, OfferFrame, LoseOffered,
         SwitchDisplay, SendSwitch, EnqueueControl, Writer, TakeFrame, TestGate, GateOpens,
         TakeNewer, WriterStops, CheckFrame, RejectFrame, RecoverRejected,
         NoteKeyframeSent, Control, ControlWriter, PeerReads, ReadAck, RefreshEncoder, Close, Stopped

(* The gate is honest in every behaviour: SwitchDisplay epochs reach the   *)
(* peer in order, and the gate lets through no frame whose epoch was       *)
(* neither given to the peer's application nor cancelled while the         *)
(* connection is open.                                                     *)
THEOREM GateCorrect == Spec => []GateIsHonest
  <1>1. Init => GateIsHonest
    BY DEF Init, GateIsHonest, SwitchesInOrder, Rising, Ahead, Requested, Released
  <1>2. TypeOK /\ GateIsHonest /\ [Next]_vars => GateIsHonest'
    BY GateStep
  <1> QED
    BY <1>1, <1>2, TypeCorrect, PTL DEF Spec

(* A frame leaves after the peer's application has seen the SwitchDisplay  *)
(* it was stamped with, or that or a later one was cancelled: for every    *)
(* number of displays, frames and epochs and every queue capacity.         *)
THEOREM FramesWait == Spec => []FramesWaitForTheirSwitch
  <1>1. Init => FramesWaitForTheirSwitch
    BY DEF Init, FramesWaitForTheirSwitch
  <1>2. TypeOK /\ GateIsHonest /\ FramesWaitForTheirSwitch /\ [Next]_vars => FramesWaitForTheirSwitch'
    BY WaitStep
  <1> QED
    BY <1>1, <1>2, TypeCorrect, GateCorrect, PTL DEF Spec
=============================================================================
