------------------------ MODULE MCVideoSenderModes -------------------------
(***************************************************************************)
(* Small instances of VideoSender, for TLC, in the two modes its caller    *)
(* may use it: one display and a track per codec incarnation (enqueue),    *)
(* with reliable keyframes and a SwitchDisplay; or two displays and one    *)
(* track each (enqueue_latest), with keyframes in datagrams.               *)
(***************************************************************************)
EXTENDS Integers

VARIABLES
  lane,                          \* the mode
  enc, nextId, enq, pending, newest, rec, refresh, requested, acked, cancelled, ctl, net, acks,
  peerEpoch, writer, refEpoch, wire, closed

vars == <<lane, enc, nextId, enq, pending, newest, rec, refresh, requested, acked, cancelled, ctl, net, acks,
          peerEpoch, writer, refEpoch, wire, closed>>

Source == INSTANCE VideoSender WITH
  Displays <- {"d1"}, MaxStream <- 2, MaxFrames <- 4, MaxEpoch <- 1, ControlCapacity <- 1, FlowWindow <- 1,
  RefreshCapacity <- 1, LatestKeys <- FALSE, ReliableKeyframes <- TRUE

Latest == INSTANCE VideoSender WITH
  Displays <- {"d1", "d2"}, MaxStream <- 2, MaxFrames <- 4, MaxEpoch <- 0, ControlCapacity <- 1, FlowWindow <- 1,
  RefreshCapacity <- 1, LatestKeys <- TRUE, ReliableKeyframes <- FALSE

Init ==
  \/ lane = "source" /\ Source!Init
  \/ lane = "latest" /\ Latest!Init

Next ==
  /\ UNCHANGED lane
  /\ \/ lane = "source" /\ Source!Next
     \/ lane = "latest" /\ Latest!Next

Spec == Init /\ [][Next]_vars

(* No older frame and no older incarnation of a display follows a newer    *)
(* one.  (With one track for all incarnations of a display as well.)       *)
FramesLeaveInOrder == Source!FramesLeaveInOrder

(* What the receiver decodes a delta against is there, in both modes; the  *)
(* epoch that names its keyframe matters where these come on a stream.     *)
ReferencesAreSound ==
  /\ Source!DeltaFollowsItsReference
  /\ [](lane = "source" => Source!ReferenceEpochIsTheSentKeyframe)
=============================================================================
