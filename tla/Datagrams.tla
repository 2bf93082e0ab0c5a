----------------------------- MODULE Datagrams -----------------------------
(***************************************************************************)
(* The datagrams of a QUIC session at the sending end (transport/          *)
(* datagram.rs) and the mouse movements at the receiving end (input.rs).   *)
(* The video, audio and mouse writers of application.rs are three tasks,   *)
(* each with a QuicDatagramSender of its own; they share the connection's  *)
(* send buffer, and a QuicDatagramSendCoordinator whose mutex (gate) makes *)
(* the look at the free space and the use of it one step for the others.   *)
(*                                                                         *)
(* The send buffer belongs to quinn: a datagram that does not fit evicts   *)
(* the oldest ones.  The network loses, repeats and reorders datagrams.    *)
(***************************************************************************)
EXTENDS Integers, Sequences, SequencesExt, FiniteSetsExt

CONSTANTS
  Capacity,     \* bytes of the send buffer
  Reserve,      \* interactive_reserve_bytes
  Frames,       \* sizes of encoded video frames
  AudioSize,    \* bytes of an audio datagram
  MouseSize,    \* bytes of a mouse datagram
  Mtus,         \* what max_datagram_size may return, as the path changes
  Budgets,      \* what video_datagram_queue_budget may return, as the path changes
  MaxSends      \* datagrams or frames a writer sends (bound)

Tasks == {"video", "audio", "mouse"}
Free == "free"

VARIABLES
  gate,       \* the coordinator's mutex: Free, or the task that holds it
  ready,      \* ready[t]: datagrams the task has still to pass to the connection
  next,       \* next_video_sequence, next_audio_sequence, next_mouse_sequence
  sends,      \* what every writer has tried to send
  buffer,     \* the send buffer, oldest first
  mtu,        \* max_datagram_size now
  budget,     \* video_queue_budget now
  slot,       \* latest_mouse: the newest movement not yet taken, 0 if none
  moved,      \* movements made so far
  wire,       \* mouse datagrams in the network
  last,       \* last_sequence of the MouseMovementReceiver
  shown,      \* the movement the program of the receiving end saw last
  closed,     \* a send failed: report_terminal_error
  evicted,    \* history: the buffer evicted a datagram
  starved     \* history: an audio or mouse datagram was refused with the reserve unused

sending == <<gate, ready, next, sends, buffer, closed, evicted, starved>>
mouse == <<slot, moved, wire, last, shown>>
vars == <<sending, mouse, mtu, budget>>

Bytes(ds) == FoldLeft(LAMBDA n, d : n + d.bytes, 0, ds)
Space == Capacity - Bytes(buffer)      \* datagram_send_buffer_space

Init ==
  /\ gate = Free /\ ready = [t \in Tasks |-> <<>>]
  /\ next = [t \in Tasks |-> 1] /\ sends = [t \in Tasks |-> 0]
  /\ buffer = <<>> /\ mtu \in Mtus /\ budget \in Budgets
  /\ slot = 0 /\ moved = 0 /\ wire = {} /\ last = 0 /\ shown = 0
  /\ closed = FALSE /\ evicted = FALSE /\ starved = FALSE

-----------------------------------------------------------------------------
(* fragment_video_frame: the pieces of a frame of n bytes, none larger     *)
(* than a datagram may be.                                                 *)
Fragments(n, max) ==
  [i \in 1..((n + max - 1) \div max) |->
     [task |-> "video", seq |-> next["video"] + i - 1, move |-> 0,
      bytes |-> IF i * max <= n THEN max ELSE n % max]]

(* video_frame_admission_failure; record_space knows the capacity from the *)
(* empty buffer.                                                           *)
Admitted(ds) == Bytes(ds) + Reserve <= Space /\ Capacity - Space <= budget

Begin(t) == ready[t] = <<>> /\ sends[t] < MaxSends /\ ~closed /\ sends' = [sends EXCEPT ![t] = @ + 1]

MutTake(t) == gate' = gate

(* The mutex is taken; it is released when nothing is sent, or after the   *)
(* last datagram.                                                          *)
Take(t) == gate = Free /\ gate' = t

(* send_video_frame up to the admission, for a frame that was cut when     *)
(* datagrams could be max bytes long.  A frame that is not admitted        *)
(* consumes no sequence number.                                            *)
SendVideoFrame(n, max) ==
  LET ds == Fragments(n, max)
  IN /\ Begin("video")
     /\ IF Admitted(ds)
        THEN Take("video") /\ ready' = [ready EXCEPT !["video"] = ds]
        ELSE gate = Free /\ UNCHANGED <<gate, ready>>
     /\ UNCHANGED <<next, buffer, closed, evicted, starved, mouse, mtu, budget>>

(* send_audio_packet and send_application_mouse_movement: the sequence     *)
(* number is used even when the datagram finds no room.                    *)
SendInteractive(t, bytes, move) ==
  LET d == [task |-> t, seq |-> next[t], move |-> move, bytes |-> bytes]
      held == SelectSeq(buffer, LAMBDA b : b.task # "video")
  IN /\ Begin(t)
     /\ next' = [next EXCEPT ![t] = @ + 1]
     /\ IF bytes <= Space
        THEN Take(t) /\ ready' = [ready EXCEPT ![t] = <<d>>] /\ UNCHANGED starved
        ELSE /\ gate = Free /\ UNCHANGED <<gate, ready>>
             /\ starved' = (starved \/ Bytes(held) + bytes <= Reserve)
     /\ UNCHANGED <<buffer, closed, evicted, mtu, budget>>

SendAudioPacket == SendInteractive("audio", AudioSize, 0) /\ UNCHANGED mouse

(* run_mouse_writer takes the latest movement.                             *)
SendMouseMovement ==
  /\ slot # 0 /\ slot' = 0
  /\ SendInteractive("mouse", MouseSize, slot)
  /\ UNCHANGED <<moved, wire, last, shown>>

(* Connection::send_datagram: too large a datagram for the path is an      *)
(* error, the others enter the buffer, which makes room for them.          *)
Fitting(d) ==
  LET kept == {i \in 0..Len(buffer) : Bytes(SubSeq(buffer, i + 1, Len(buffer))) + d.bytes <= Capacity}
  IN IF kept = {} THEN Len(buffer) ELSE Min(kept)

SendDatagram(t) ==
  LET d == Head(ready[t])
      gone == Fitting(d)
  IN /\ ready[t] # <<>> /\ ~closed
     /\ IF d.bytes > mtu
        THEN /\ closed' = TRUE /\ ready' = [ready EXCEPT ![t] = <<>>] /\ gate' = Free
             /\ UNCHANGED <<buffer, evicted, next>>
        ELSE /\ buffer' = Append(SubSeq(buffer, gone + 1, Len(buffer)), d)
             /\ evicted' = (evicted \/ gone > 0)
             /\ ready' = [ready EXCEPT ![t] = Tail(@)]
             /\ gate' = IF Len(ready[t]) = 1 THEN Free ELSE gate
             /\ next' = IF t = "video" /\ Len(ready[t]) = 1 THEN [next EXCEPT ![t] = d.seq + 1] ELSE next
             /\ UNCHANGED closed
     /\ UNCHANGED <<sends, starved, mouse, mtu, budget>>

-----------------------------------------------------------------------------
(* The connection sends the oldest datagram.                               *)
Transmit ==
  /\ buffer # <<>>
  /\ buffer' = Tail(buffer)
  /\ wire' = IF Head(buffer).task = "mouse" THEN wire \cup {Head(buffer)} ELSE wire
  /\ UNCHANGED <<gate, ready, next, sends, closed, evicted, starved, slot, moved, last, shown, mtu, budget>>

PathChanges ==
  /\ mtu' \in Mtus /\ budget' \in Budgets
  /\ UNCHANGED <<sending, mouse>>

(* enqueue of a movement: LatestSlot::replace.                             *)
Move ==
  /\ moved < MaxSends
  /\ moved' = moved + 1 /\ slot' = moved + 1
  /\ UNCHANGED <<sending, wire, last, shown, mtu, budget>>

MutApply(d) == last' = d.seq

(* MouseMovementReceiver::apply_application.                               *)
Apply(d) == d.seq > last /\ last' = d.seq

(* A movement arrives, for the last time or not, and is handed over with   *)
(* try_send, which may find the inbound queue full.                        *)
Receive(d) ==
  /\ Apply(d)
  /\ shown' \in {shown, d.move}
  /\ wire' \in {wire, wire \ {d}}
  /\ UNCHANGED <<sending, slot, moved, mtu, budget>>

(* A datagram is lost, or is older than the last one that was applied.     *)
Lose(d) ==
  /\ wire' = wire \ {d}
  /\ UNCHANGED <<sending, slot, moved, last, shown, mtu, budget>>

Next ==
  \/ \E n \in Frames, max \in Mtus : SendVideoFrame(n, max)
  \/ SendAudioPacket \/ SendMouseMovement
  \/ \E t \in Tasks : SendDatagram(t)
  \/ Transmit \/ PathChanges \/ Move
  \/ \E d \in wire : Receive(d) \/ Lose(d)

Spec == Init /\ [][Next]_vars

-----------------------------------------------------------------------------
(* No datagram that was accepted is evicted by a later one, so a frame is  *)
(* never cut down by the local buffer; and an audio packet or a movement   *)
(* is refused only when audio and mouse datagrams themselves have filled   *)
(* the interactive reserve, never because of video.                        *)
BufferIsShared == ~evicted /\ ~starved

(* The program of the receiving end sees movements in the order in which   *)
(* they were made, whatever the network does to the datagrams.             *)
PointerNeverGoesBack == [][shown' >= shown]_shown
=============================================================================
