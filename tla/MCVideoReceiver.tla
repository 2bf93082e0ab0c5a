--------------------------- MODULE MCVideoReceiver ---------------------------
(* Small instances of VideoReceiver for TLC.                               *)
EXTENDS VideoReceiver

(* The barrier, keyframes on a stream without it, and the oldest session,  *)
(* with one display that restarts its encoder.                             *)
OneDisplay(m, s) ==
  [mode |-> m, scoped |-> s, displays |-> {1}, restarting |-> {1}, hold |-> 2]

(* Two displays that do not fit into the holdback together.                *)
TwoDisplays ==
  {[mode |-> "barrier", scoped |-> TRUE, displays |-> {1, 2}, restarting |-> {}, hold |-> 1]}

AllSessions ==
  {OneDisplay("barrier", TRUE), OneDisplay("stream", TRUE), OneDisplay("datagram", FALSE)}
    \union TwoDisplays
=============================================================================
