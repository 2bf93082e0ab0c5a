--------------------------- MODULE MCVideoSender ---------------------------
(* Small instances of VideoSender, for TLC, with one display.              *)
EXTENDS VideoSender

CONSTANT d1
=============================================================================
