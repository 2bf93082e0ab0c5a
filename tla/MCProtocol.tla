----------------------------- MODULE MCProtocol -----------------------------
(***************************************************************************)
(* Small instances, for TLC, of the three parts of a QUIC session that     *)
(* come one after the other and share no state: its establishment, the     *)
(* exchange on its channels, and the adaptation to its path.  In a         *)
(* behaviour one of them moves, `lane` says which, and the others stay as  *)
(* they began.  The fairness of a lane is that of its module.              *)
(***************************************************************************)
EXTENDS Integers, FiniteSets

VARIABLES
  lane,                                                     \* the part that moves
  conf, path, conn, at, wire, streams, sid, out, last, peer, agreed, chans, hindered,
  use, open, closing, raw, queue, stream, writer, reader, inbox, call, requested, acked, accepted,
  taken, losses,
  metrics, target

(* Builds of two versions, a path with small datagrams and one with a      *)
(* bandwidth limit for files.                                              *)
Setup == INSTANCE SessionSetup WITH
  Sessions <- {"s1", "s2"}, Versions <- {1, 4},
  Paths <- {[payload |-> 1200, file |-> 0], [payload |-> 1400, file |-> 5]}

(* Two ends that order displays against each other; one that sends all     *)
(* kinds of messages to one that may close or lose its connection; two     *)
(* channels and one inbound queue; two ends that wait for confirmations.   *)
Does(what, limit, lost) == [does |-> what, limit |-> limit, losses |-> lost]
Orders ==
  [channels |-> {"control"}, inbound |-> 1, viewer |-> Does({"order"}, 3, 0), host |-> Does({"order"}, 3, 0)]
Uses == {
  Orders,
  [channels |-> {"control"}, inbound |-> 2, viewer |-> Does({"plain", "oversized", "confirm", "raw"}, 2, 0),
   host |-> Does({"order", "close"}, 1, 1)],
  [channels |-> {"control", "input"}, inbound |-> 1, viewer |-> Does({"plain"}, 2, 0),
   host |-> Does({"close"}, 0, 0)],
  [channels |-> {"control"}, inbound |-> 1, viewer |-> Does({"confirm"}, 2, 0), host |-> Does({"confirm"}, 3, 0)]}

Exchange == INSTANCE ApplicationChannels WITH
  Channels <- {"control", "input"}, Capacity <- 1, Window <- 1, Programs <- Uses

(* No estimate, one that rounds to nothing, one in between, one above the  *)
(* maximum.                                                                *)
Adapter == INSTANCE BandwidthAdapter WITH
  Minimum <- 10, Maximum <- 600, MaxFps <- 60, MaxAudio <- 96, MaxFile <- 200, Bandwidths <- {0, 1, 100, 750}

setupVars == <<conf, path, conn, at, wire, streams, sid, out, last, peer, agreed, chans, hindered>>
exchangeVars == <<use, open, closing, raw, queue, stream, writer, reader, inbox, call, requested, acked,
                  accepted, taken, losses>>
adapterVars == <<metrics, target>>
vars == <<lane, setupVars, exchangeVars, adapterVars>>

(* The choices of a part that does not move are fixed.                     *)
Init ==
  /\ lane \in {"setup", "exchange", "adapter"}
  /\ lane # "setup" =>
       /\ conf = [e \in {"client", "server"} |-> [version |-> 1, pin |-> "any", key |-> "any", session |-> "s1"]]
       /\ path = [e \in {"client", "server"} |-> [payload |-> 1200, file |-> 0]]
  /\ Setup!Init
  /\ lane # "exchange" => use = Orders
  /\ Exchange!Init
  /\ Adapter!Init

InSetup(A) == lane = "setup" /\ A /\ UNCHANGED <<lane, exchangeVars, adapterVars>>
InExchange(A) == lane = "exchange" /\ A /\ UNCHANGED <<lane, setupVars, adapterVars>>
InAdapter(A) == lane = "adapter" /\ A /\ UNCHANGED <<lane, setupVars, exchangeVars>>

Next == InSetup(Setup!Next) \/ InExchange(Exchange!Next) \/ InAdapter(Adapter!Next)

Fairness ==
  /\ WF_vars(InSetup(Setup!Step))
  /\ WF_vars(InExchange(Exchange!Tasks))
  /\ WF_vars(InAdapter(Adapter!Next))

Spec == Init /\ [][Next]_vars /\ Fairness

(* The two ends of an established session agree on it.                     *)
EndsAgree == lane = "setup" => Setup!EndsAgree

(* The establishment ends, with a session if nothing hinders it.           *)
SetupEnds == []<>(lane = "setup") => Setup!SetupEnds

(* Reliable channels keep order and lose nothing.                          *)
ChannelsAreExact == lane = "exchange" => Exchange!ChannelsAreExact

(* A confirmed write is answered.                                          *)
ConfirmedWritesEnd == []<>(lane = "exchange") => Exchange!ConfirmedWritesEnd

(* An accepted message is read by the peer.                                *)
AcceptedArrives == []<>(lane = "exchange") => Exchange!AcceptedArrives

(* The targets come back on a path that stays good.                        *)
AdapterRecovers == []<>(lane = "adapter") => Adapter!AdapterRecovers
=============================================================================
