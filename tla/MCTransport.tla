---------------------------- MODULE MCTransport ----------------------------
(***************************************************************************)
(* Small instances, for TLC, of the parts of the transport that are        *)
(* complete in themselves and share no state.  A behaviour is about one of *)
(* them, `lane` says which, and v1 to v15 are the variables of its module. *)
(***************************************************************************)
EXTENDS Integers, Sequences, FiniteSets

VARIABLES lane, v1, v2, v3, v4, v5, v6, v7, v8, v9, v10, v11, v12, v13, v14, v15

vars == <<lane, v1, v2, v3, v4, v5, v6, v7, v8, v9, v10, v11, v12, v13, v14, v15>>

Zeros(n) == [i \in 1..n |-> 0]

(* Three displays, the first of which restarts its encoder once.           *)
Latest == INSTANCE TrackLatestSlot WITH
  Keys <- {<<1, 1>>, <<1, 2>>, <<2, 1>>, <<3, 1>>}, Sizes <- {1, 2, 3}, MaxFrameBytes <- 2, MaxBytes <- 3,
  MaxTracks <- 2, MaxTakes <- 5,
  pend <- v1, newest <- v2, last <- v3, vt <- v4, bytes <- v5, passed <- v6, takes <- v7

(* The last frame and the first one have two fragments, the others three   *)
(* and one in turn.                                                        *)
Reassembler == INSTANCE VideoReassembler WITH
  MaxFrames <- 5, Parts <- [f \in 1..5 |-> IF f \in {1, 5} THEN 2 ELSE 1 + 2 * (f % 2)], Keyframes <- {2, 5},
  MaxPending <- 2, MaxMemory <- 3, IdleDeadline <- 1, KeyIdleDeadline <- 2, Lifetime <- 2, KeyLifetime <- 3,
  RequireKeyframe <- TRUE, RequestAfter <- 1, RequestInterval <- 2, MaxTime <- 4,
  now <- v1, pending <- v2, bytes <- v3, lastDone <- v4, hasKey <- v5, drops <- v6, lastReq <- v7,
  failed <- v8, open <- v9, delivered <- v10

(* Every third packet is twice as large.                                   *)
Audio == INSTANCE AudioJitterBuffer WITH
  MaxSeq <- 6, Size <- [q \in 1..6 |-> IF q % 3 = 0 THEN 2 ELSE 1], StartPackets <- 3, MaxPackets <- 3,
  MaxMemory <- 3, PlayoutDelay <- 1, MaxAge <- 3, MaxAhead <- 4, MaxTime <- 4,
  packets <- v1, next <- v2, started <- v3, bytes <- v4, now <- v5, draining <- v6, failed <- v7,
  out <- v8, evicted <- v9

(* Half of the buffer is reserved; a frame is as large as all of video's   *)
(* share.                                                                  *)
Shared == INSTANCE Datagrams WITH
  Capacity <- 4, Reserve <- 2, Frames <- {1, 2}, AudioSize <- 1, MouseSize <- 1, Mtus <- {1, 2},
  Budgets <- {0, 2}, MaxSends <- 2,
  gate <- v1, ready <- v2, next <- v3, sends <- v4, buffer <- v5, mtu <- v6, budget <- v7, slot <- v8,
  moved <- v9, wire <- v10, last <- v11, shown <- v12, closed <- v13, evicted <- v14, starved <- v15

(* A byte has four values: frames of 0, 1 to 3, 4 to 15 and more bytes     *)
(* have headers of one to four bytes, 64 bytes are too long to encode.     *)
Tcp == INSTANCE TcpFraming WITH
  Byte <- 4, Lengths <- {0, 14, 15, 64}, MaxPacket <- 16, MacBytes <- 2, ChunkLimit <- 2, Boundary <- 3,
  KeyAfter <- 1, MaxMessages <- 3,
  mode <- v1, sent <- v2, sealed <- v3, gap <- v4, calling <- v5, wbuf <- v6, direct <- v7, failed <- v8,
  halves <- v9, rbuf <- v10, need <- v11, opened <- v12, got <- v13, broken <- v14

(* A file of two chunks that changes once, sent at most twice.             *)
Files == INSTANCE FileChannel WITH
  Size <- 3, MaxFileBytes <- 3, ChunkBytes <- 2, Versions <- {1, 2}, Rate <- 1, Burst <- 2, MaxTime <- 3,
  MaxAttempts <- 2,
  version <- v1, sending <- v2, attempts <- v3, flight <- v4, rx <- v5, disk <- v6, resume <- v7,
  done <- v8, now <- v9, available <- v10, updatedAt <- v11, spent <- v12

(* A key and a button, a connection and its successor.                     *)
Input == INSTANCE InputRecovery WITH
  Keys <- {"a"}, Buttons <- {"left"}, InitialDelay <- 1, MaximumDelay <- 2, MaximumAttempts <- 2, Jitter <- 1,
  MaxEvents <- 4, MaxConnections <- 2,
  held <- v1, dialled <- v2, nextSeq <- v3, attempts <- v4, delay <- v5, made <- v6, serving <- v7,
  flight <- v8, cut <- v9, generation <- v10, lastSeq <- v11, pressed <- v12, os <- v13

(* Three peers, one of which only sends; a peer tracks one origin.         *)
Clip == INSTANCE Clipboard WITH
  Peers <- {"a", "b", "c"}, Permission <- [p \in {"a", "b", "c"} |-> IF p = "c" THEN "send" ELSE "both"],
  MaxOrigins <- 1, MaxTexts <- 2, MaxResets <- 1,
  nextSeq <- v1, remote <- v2, mail <- v3, shown <- v4, resets <- v5

(* Two tasks, two connections, one offer from another end.                 *)
WebRtc == INSTANCE WebRtcSessions WITH
  Tasks <- {1, 2}, Offers <- {1}, MaxConns <- 2, MaxCalls <- 3, MaxEnds <- 1,
  conn <- v1, sessions <- v2, task <- v3, calls <- v4

(* A WebSocket and an HTTPS proxy on one host, whose server can speak with *)
(* one library or both.                                                    *)
Tls == INSTANCE TlsFallback WITH
  Callers <- {1, 2}, Proxied <- {2}, MaxCalls <- 3, MaxChanges <- 2,
  Servers <- [types : {{"rustls"}, {"native"}, {"rustls", "native"}}, valid : BOOLEAN],
  tlsType <- v1, accept <- v2, allowed <- v3, server <- v4, at <- v5, call <- v6, resetting <- v7,
  calls <- v8, changes <- v9

(* Bytes of two bits; IPv6 addresses that are unspecified, loopback, stand *)
(* for an IPv4 address in either way, almost do, and do not.               *)
Address == INSTANCE AddrMangle WITH
  Bits <- 2, Times <- 0..255,
  Ips4 <- {<<0, 0, 0, 0>>, <<1, 0, 0, 0>>, <<3, 3, 3, 3>>, <<0, 0, 0, 2>>, <<2, 1, 0, 3>>},
  Ips6 <- {Zeros(16), Zeros(15) \o <<1>>, Zeros(12) \o <<1, 2, 0, 3>>, Zeros(10) \o <<3, 3, 3, 3, 3, 3>>,
           Zeros(10) \o <<0, 3, 1, 1, 1, 1>>, <<3>> \o Zeros(15)},
  addr <- v1, stage <- v2, bytes <- v3, back <- v4

ASSUME Latest!SlotAssumption /\ Reassembler!ReassemblerAssumption /\ Audio!JitterAssumption

(* Variables that the lane does not use.                                   *)
Off == 0
Unused15 == v15 = Off
Unused14 == v14 = Off /\ Unused15
Unused13 == v13 = Off /\ Unused14
Unused11 == v11 = Off /\ v12 = Off /\ Unused13
Unused10 == v10 = Off /\ Unused11
Unused8 == v8 = Off /\ v9 = Off /\ Unused10
Unused6 == v6 = Off /\ v7 = Off /\ Unused8
Unused5 == v5 = Off /\ Unused6
From15 == <<v15>>
From14 == <<v14, v15>>
From13 == <<v13, v14, v15>>
From11 == <<v11, v12, v13, v14, v15>>
From10 == <<v10, v11, v12, v13, v14, v15>>
From8 == <<v8, v9, v10, v11, v12, v13, v14, v15>>
From6 == <<v6, v7, v8, v9, v10, v11, v12, v13, v14, v15>>
From5 == <<v5, v6, v7, v8, v9, v10, v11, v12, v13, v14, v15>>

Init ==
  \/ lane = "slot" /\ Latest!Init /\ Unused8
  \/ lane = "frames" /\ Reassembler!Init /\ Unused11
  \/ lane = "audio" /\ Audio!Init /\ Unused10
  \/ lane = "datagrams" /\ Shared!Init
  \/ lane = "tcp" /\ Tcp!Init /\ Unused15
  \/ lane = "files" /\ Files!Init /\ Unused13
  \/ lane = "input" /\ Input!Init /\ Unused14
  \/ lane = "clipboard" /\ Clip!Init /\ Unused6
  \/ lane = "webrtc" /\ WebRtc!Init /\ Unused5
  \/ lane = "tls" /\ Tls!Init /\ Unused10
  \/ lane = "address" /\ Address!Init /\ Unused5

Next ==
  /\ UNCHANGED lane
  /\ \/ lane = "slot" /\ Latest!Next /\ UNCHANGED From8
     \/ lane = "frames" /\ Reassembler!Next /\ UNCHANGED From11
     \/ lane = "audio" /\ Audio!Next /\ UNCHANGED From10
     \/ lane = "datagrams" /\ Shared!Next
     \/ lane = "tcp" /\ Tcp!Next /\ UNCHANGED From15
     \/ lane = "files" /\ Files!Next /\ UNCHANGED From13
     \/ lane = "input" /\ Input!Next /\ UNCHANGED From14
     \/ lane = "clipboard" /\ Clip!Next /\ UNCHANGED From6
     \/ lane = "webrtc" /\ WebRtc!Next /\ UNCHANGED From5
     \/ lane = "tls" /\ Tls!Next /\ UNCHANGED From10
     \/ lane = "address" /\ Address!Next /\ UNCHANGED From5

Spec == Init /\ [][Next]_vars

(* No waiting track is passed over for long, and the budgets hold.         *)
SlotIsBounded == lane = "slot" => Latest!SlotIsBounded

(* TrackLatestSlot is what the sender needs of a slot.                     *)
ImplementsSlot ==
  /\ lane = "slot" => Latest!Slot!Init
  /\ [][lane = "slot" => [Latest!Slot!Next]_(Latest!Slot!vars)]_vars

(* pending_bytes is what the pending frames hold, which can complete.      *)
PendingIsSound == lane = "frames" => Reassembler!PendingIsSound

(* Completed frames come in order, the first of them a keyframe, and a     *)
(* frame that was begun is delivered, reported dropped or pending.         *)
DeliveryIsSound == lane = "frames" => Reassembler!DeliveryIsSound

(* Audio is played or declared lost, in order, from a tidy buffer.         *)
PlayoutIsSound == [][lane = "audio" => Audio!PlaysOn]_vars /\ [](lane = "audio" => Audio!BufferIsTidy)

(* Video leaves the reserve of the datagram buffer to audio and input.     *)
BufferIsShared == lane = "datagrams" => Shared!BufferIsShared

(* The pointer that the receiving end shows does not go back.              *)
PointerNeverGoesBack == [][lane = "datagrams" => v12' >= v12]_vars

(* Messages arrive as they were sent, across headers, sealing and splits.  *)
MessagesArriveWhole == lane = "tcp" => Tcp!MessagesArriveWhole

(* A file is accepted only with the contents that were announced.          *)
FinishedIsAnnounced == lane = "files" => Files!FinishedIsAnnounced

(* The limiter lets no more through than its rate and burst.               *)
RateIsKept == lane = "files" => Files!RateIsKept

(* A lost connection leaves no key or button pressed.                      *)
NothingStaysPressed == lane = "input" => Input!NothingStaysPressed

(* Texts of an origin are shown in order and once.                         *)
TextsComeInOrder == lane = "clipboard" => Clip!TextsComeInOrder

(* WebRTC sessions that are kept or waited on can be used.                 *)
SessionsAreUsable == lane = "webrtc" => WebRtc!SessionsAreUsable

(* The TLS fallback finds a way that there is, and only an allowed one.    *)
FallbackIsSound == lane = "tls" => Tls!FallbackIsSound

(* Mangled addresses arrive.                                               *)
AddressesArrive == lane = "address" => Address!AddressesArrive
=============================================================================
