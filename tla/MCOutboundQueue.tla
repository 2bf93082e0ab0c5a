-------------------------- MODULE MCOutboundQueue --------------------------
(* Small instances of OutboundQueue for TLC.                               *)
EXTENDS OutboundQueue

(* One display that restarts its encoder, and another one.                 *)
MCVideoKeys == {<<1, 1>>, <<1, 2>>, <<2, 1>>}
=============================================================================
