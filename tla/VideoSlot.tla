----------------------------- MODULE VideoSlot -----------------------------
(***************************************************************************)
(* What the sender needs of its slot of pending frames: at most one frame  *)
(* per track, one incarnation per display, a keyframe never replaced by a  *)
(* delta.  VideoSender uses the slot this way; TrackLatestSlot implements  *)
(* it.  The slot may refuse any frame, and hand out any track's.           *)
(***************************************************************************)
EXTENDS Integers

CONSTANTS
  Keys,        \* the tracks: <<display, stream>>
  Sizes        \* payload sizes of the frames

VARIABLES
  pending,     \* the pending frame of each track, or NoFrame
  newest       \* the newest stream offered on each display, 0 for none

vars == <<pending, newest>>

Displays == {k[1] : k \in Keys}
Streams == {k[2] : k \in Keys}
Frames == {f \in [d : Displays, s : Streams, size : Sizes, kf : BOOLEAN] : <<f.d, f.s>> \in Keys}
NoFrame == [size |-> 0]
KeyOf(f) == <<f.d, f.s>>

Init == pending = [k \in Keys |-> NoFrame] /\ newest = [d \in Displays |-> 0]

(* The incarnations of f's display other than its own are retired.         *)
Retired(f) == [k \in Keys |-> IF k[1] = f.d /\ k[2] # f.s THEN NoFrame ELSE pending[k]]

Accept(f) ==
  /\ newest[f.d] <= f.s
  /\ pending[KeyOf(f)] = NoFrame \/ ~pending[KeyOf(f)].kf \/ f.kf
  /\ pending' = [Retired(f) EXCEPT ![KeyOf(f)] = f]
  /\ newest' = [newest EXCEPT ![f.d] = f.s]

Refuse(f) ==
  /\ newest[f.d] <= f.s
  /\ pending' = Retired(f)
  /\ newest' = [newest EXCEPT ![f.d] = f.s]

Take(k) ==
  /\ pending[k] # NoFrame
  /\ pending' = [pending EXCEPT ![k] = NoFrame]
  /\ UNCHANGED newest

Next == (\E f \in Frames : Accept(f) \/ Refuse(f)) \/ (\E k \in Keys : Take(k))
Spec == Init /\ [][Next]_vars
=============================================================================
