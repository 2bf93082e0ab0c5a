------------------------ MODULE ApplicationChannels ------------------------
(***************************************************************************)
(* The reliable path of a QUIC session (transport/application.rs and       *)
(* reliable.rs): at each end a task of the program that sends, reads and   *)
(* waits for confirmed writes, and one writer and one reader task for      *)
(* every channel.  A writer takes from a bounded queue and puts messages   *)
(* on a stream; a reader takes them off it and puts them into the bounded  *)
(* inbound queue of its end, or acknowledges an ordering on the control    *)
(* queue.                                                                  *)
(*                                                                         *)
(* QuicApplicationStream is used through &mut (stream.rs, Stream): the     *)
(* program reads nothing while it waits for a confirmed write.             *)
(***************************************************************************)
EXTENDS Integers, Sequences, FiniteSets

CONSTANTS
  Channels,      \* reliable channels, "control" among them
  Capacity,      \* messages in a channel's queue
  Window,        \* unread messages that QUIC flow control allows on a stream
  Programs       \* how the programs of the two ends may use their streams: a set of records
                 \* [channels, inbound, viewer, host], the channels they use, the capacity
                 \* of the inbound queues and, for each end, what its program does (it
                 \* sends "plain", "order" and "oversized" messages, waits to "confirm"
                 \* one, turns to "raw" mode, may "close"), how many messages it sends on a
                 \* channel and how often its connection is lost (bounds)

Ends == {"viewer", "host"}
Peer(e) == IF e = "viewer" THEN "host" ELSE "viewer"

VARIABLES
  use,       \* the member of Programs this behaviour is about
  open,      \* every end: the connection has no close_reason
  closing,   \* every end: begin_teardown was called
  raw,       \* every end: raw_mode
  queue,     \* queue[e][c]: what the writer of e has yet to take
  stream,    \* stream[e][c]: what the writer of e has sent and nobody has read
  writer,    \* writer[e][c]: "run", "report" or "dead"
  reader,    \* reader[e][c]: what the reader is at, and with which message
  inbox,     \* inbound queue of every end
  call,      \* enqueue_control_and_wait of every end: "none", "send", "wait"
  requested, \* requested_epoch of every end
  acked,     \* acknowledged_epoch of every end
  accepted,  \* accepted[e][c]: messages that enqueue has answered with Ok
  taken,     \* taken[e][c]: messages of e that its peer's program has read
  losses

vars == <<use, open, closing, raw, queue, stream, writer, reader, inbox, call, requested, acked, accepted, taken, losses>>
tasks == <<writer, reader>>
gate == <<requested, acked>>

Message(kind, c, id, epoch) == [kind |-> kind, channel |-> c, id |-> id, epoch |-> epoch]
Ready == [at |-> "receive", msg |-> Message("none", "none", 0, 0)]

Init ==
  /\ use \in Programs
  /\ open = [e \in Ends |-> TRUE] /\ closing = [e \in Ends |-> FALSE] /\ raw = [e \in Ends |-> FALSE]
  /\ queue = [e \in Ends |-> [c \in Channels |-> <<>>]]
  /\ stream = [e \in Ends |-> [c \in Channels |-> <<>>]]
  /\ writer = [e \in Ends |-> [c \in Channels |-> "run"]]
  /\ reader = [e \in Ends |-> [c \in Channels |-> Ready]]
  /\ inbox = [e \in Ends |-> <<>>]
  /\ call = [e \in Ends |-> "none"]
  /\ requested = [e \in Ends |-> 0] /\ acked = [e \in Ends |-> 0]
  /\ accepted = [e \in Ends |-> [c \in Channels |-> 0]]
  /\ taken = [e \in Ends |-> [c \in Channels |-> 0]]
  /\ losses = 0

Alive(e) == \E c \in use.channels : writer[e][c] # "dead" \/ reader[e][c].at # "dead"
Raise(n, m) == IF n > m THEN n ELSE m

-----------------------------------------------------------------------------
(* The program of an end.                                                  *)

Full(e, c) == Len(queue[e][c]) >= Capacity

(* What enqueue makes of a message: raw mode sends everything as           *)
(* ApplicationRaw on the control channel, a SwitchDisplay is an ordering   *)
(* on the control channel, any other message goes to the channel of its    *)
(* class (classify_message, reliable_sender).                              *)
Classified(e, k) == IF raw[e] THEN "raw" ELSE k

(* enqueue_with_latest_key, for the classes with a reliable channel.  A    *)
(* full queue (WouldBlock) or a stopped writer (BrokenPipe) is an error,   *)
(* and cancels the epoch of an ordering.  While the end is closing the     *)
(* message is dropped, on a closed connection it is an error; nothing      *)
(* changes in either case.                                                 *)
Enqueue(e, c, k) ==
  LET kind == Classified(e, k)
      room == ~Full(e, c) /\ writer[e][c] # "dead"
      epoch == requested[e] + 1
  IN /\ call[e] = "none" /\ ~closing[e] /\ open[e]
     /\ k = "order" \/ raw[e] => c = "control"
     /\ accepted[e][c] < use[e].limit
     /\ requested' = IF kind = "order" THEN [requested EXCEPT ![e] = epoch] ELSE requested
     /\ acked' = IF kind = "order" /\ ~room THEN [acked EXCEPT ![e] = Raise(@, epoch)] ELSE acked
     /\ IF room
        THEN /\ queue' = [queue EXCEPT ![e][c] = Append(@, Message(kind, c, accepted[e][c] + 1, epoch))]
             /\ accepted' = [accepted EXCEPT ![e][c] = @ + 1]
        ELSE kind = "order" /\ requested[e] < use[e].limit /\ UNCHANGED <<queue, accepted>>
     /\ UNCHANGED <<use, open, closing, raw, stream, tasks, inbox, call, taken, losses>>

(* enqueue_control_and_wait: the call waits for room, then for its         *)
(* completion.                                                             *)
Confirm(e) ==
  /\ call[e] = "none" /\ ~closing[e] /\ open[e] /\ ~raw[e] /\ "confirm" \in use[e].does
  /\ accepted[e]["control"] < use[e].limit
  /\ call' = [call EXCEPT ![e] = "send"]
  /\ UNCHANGED <<use, open, closing, raw, queue, stream, tasks, inbox, gate, accepted, taken, losses>>

SendConfirmed(e) ==
  /\ call[e] = "send"
  /\ \/ /\ writer[e]["control"] = "dead"
        /\ call' = [call EXCEPT ![e] = "none"]
        /\ UNCHANGED <<queue, accepted>>
     \/ /\ writer[e]["control"] # "dead" /\ ~Full(e, "control")
        /\ queue' = [queue EXCEPT ![e]["control"] =
             Append(@, Message("confirmed", "control", accepted[e]["control"] + 1, 0))]
        /\ accepted' = [accepted EXCEPT ![e]["control"] = @ + 1]
        /\ call' = [call EXCEPT ![e] = "wait"]
  /\ UNCHANGED <<use, open, closing, raw, stream, tasks, inbox, gate, taken, losses>>

(* next: the program reads its inbound queue.                              *)
Next_(e) ==
  /\ call[e] = "none" /\ inbox[e] # <<>>
  /\ inbox' = [inbox EXCEPT ![e] = Tail(@)]
  /\ taken' = LET m == Head(inbox[e])
              IN IF m.kind = "error" THEN taken ELSE [taken EXCEPT ![Peer(e)][m.channel] = @ + 1]
  /\ UNCHANGED <<use, open, closing, raw, queue, stream, tasks, call, gate, accepted, losses>>

SetRaw(e) ==
  /\ call[e] = "none" /\ ~raw[e] /\ "raw" \in use[e].does
  /\ raw' = [raw EXCEPT ![e] = TRUE]
  /\ UNCHANGED <<use, open, closing, queue, stream, tasks, inbox, call, gate, accepted, taken, losses>>

BeginTeardown(e) ==
  /\ call[e] = "none" /\ ~closing[e] /\ "close" \in use[e].does
  /\ closing' = [closing EXCEPT ![e] = TRUE]
  /\ open' = [open EXCEPT ![e] = FALSE]
  /\ UNCHANGED <<use, raw, queue, stream, tasks, inbox, call, gate, accepted, taken, losses>>

(* Drop: teardown, and every task is aborted.                              *)
Drop(e) ==
  /\ call[e] = "none" /\ Alive(e) /\ "close" \in use[e].does
  /\ closing' = [closing EXCEPT ![e] = TRUE]
  /\ open' = [open EXCEPT ![e] = FALSE]
  /\ writer' = [writer EXCEPT ![e] = [c \in Channels |-> "dead"]]
  /\ reader' = [reader EXCEPT ![e] = [c \in Channels |-> [Ready EXCEPT !.at = "dead"]]]
  /\ queue' = [queue EXCEPT ![e] = [c \in Channels |-> <<>>]]
  /\ inbox' = [inbox EXCEPT ![e] = <<>>]
  /\ UNCHANGED <<use, raw, stream, call, gate, accepted, taken, losses>>

-----------------------------------------------------------------------------
(* The writer of a channel (run_reliable_writer).  Sending fails when the  *)
(* message is larger than its type allows, or the connection is closed.    *)

Sent(e, c) ==
  /\ writer[e][c] = "run" /\ queue[e][c] # <<>> /\ open[e]
  /\ Head(queue[e][c]).kind # "oversized"
  /\ Len(stream[e][c]) < Window
  /\ stream' = [stream EXCEPT ![e][c] = Append(@, Head(queue[e][c]))]
  /\ queue' = [queue EXCEPT ![e][c] = Tail(@)]
  /\ call' = IF Head(queue[e][c]).kind = "confirmed" THEN [call EXCEPT ![e] = "none"] ELSE call
  /\ UNCHANGED <<use, open, closing, raw, tasks, inbox, gate, accepted, taken, losses>>

MutSendFails(e, c) ==
  /\ writer[e][c] = "run" /\ queue[e][c] # <<>>
  /\ ~open[e] \/ Head(queue[e][c]).kind = "oversized"
  /\ queue' = [queue EXCEPT ![e][c] = Tail(@)]
  /\ writer' = [writer EXCEPT ![e][c] = "report"]
  /\ open' = [open EXCEPT ![e] = FALSE]
  /\ UNCHANGED <<use, closing, raw, stream, reader, inbox, call, gate, accepted, taken, losses>>

(* The failure is answered to its caller; report_terminal_error closes the *)
(* connection and then waits for room in the inbound queue.                *)
SendFails(e, c) ==
  /\ writer[e][c] = "run" /\ queue[e][c] # <<>>
  /\ ~open[e] \/ Head(queue[e][c]).kind = "oversized"
  /\ call' = IF Head(queue[e][c]).kind = "confirmed" THEN [call EXCEPT ![e] = "none"] ELSE call
  /\ queue' = [queue EXCEPT ![e][c] = Tail(@)]
  /\ writer' = [writer EXCEPT ![e][c] = "report"]
  /\ open' = [open EXCEPT ![e] = FALSE]
  /\ UNCHANGED <<use, closing, raw, stream, reader, inbox, gate, accepted, taken, losses>>

Error == Message("error", "none", 0, 0)
Report(e) == Len(inbox[e]) < use.inbound /\ inbox' = [inbox EXCEPT ![e] = Append(@, Error)]

(* The writer returns: its queue and the completions in it are dropped.    *)
WriterEnds(e, c) ==
  /\ writer[e][c] = "report" /\ Report(e)
  /\ writer' = [writer EXCEPT ![e][c] = "dead"]
  /\ queue' = [queue EXCEPT ![e][c] = <<>>]
  /\ call' = IF \E i \in DOMAIN queue[e][c] : queue[e][c][i].kind = "confirmed"
             THEN [call EXCEPT ![e] = "none"] ELSE call
  /\ UNCHANGED <<use, open, closing, raw, stream, reader, gate, accepted, taken, losses>>

-----------------------------------------------------------------------------
(* The reader of a channel (run_reliable_reader).                          *)

(* A message is taken off the stream.  The acknowledgement of an epoch     *)
(* that was never requested ends the session.                              *)
Receive(e, c) ==
  LET m == Head(stream[Peer(e)][c])
      valid == m.epoch # 0 /\ m.epoch <= requested[e]
  IN /\ reader[e][c].at = "receive" /\ stream[Peer(e)][c] # <<>>
     /\ stream' = [stream EXCEPT ![Peer(e)][c] = Tail(@)]
     /\ IF m.kind # "ack"
        THEN reader' = [reader EXCEPT ![e][c] = [at |-> "inbox", msg |-> m]] /\ UNCHANGED <<acked, open>>
        ELSE IF valid THEN acked' = [acked EXCEPT ![e] = Raise(@, m.epoch)] /\ UNCHANGED <<reader, open>>
        ELSE /\ reader' = [reader EXCEPT ![e][c].at = "report"]
             /\ open' = [open EXCEPT ![e] = FALSE]
             /\ UNCHANGED acked
     /\ UNCHANGED <<use, closing, raw, queue, writer, inbox, call, requested, accepted, taken, losses>>

(* receive fails once the connection is closed; what had arrived may still *)
(* be read before.                                                         *)
ReceiveFails(e, c) ==
  /\ reader[e][c].at = "receive" /\ ~open[e]
  /\ reader' = [reader EXCEPT ![e][c].at = "report"]
  /\ UNCHANGED <<use, open, closing, raw, queue, stream, writer, inbox, call, gate, accepted, taken, losses>>

ReaderEnds(e, c) ==
  /\ reader[e][c].at = "report" /\ Report(e)
  /\ reader' = [reader EXCEPT ![e][c] = [Ready EXCEPT !.at = "dead"]]
  /\ UNCHANGED <<use, open, closing, raw, queue, stream, writer, call, gate, accepted, taken, losses>>

MutDeliver(e, c) ==
  /\ reader[e][c].at = "inbox"
  /\ inbox' = IF Len(inbox[e]) < use.inbound THEN [inbox EXCEPT ![e] = Append(@, reader[e][c].msg)] ELSE inbox
  /\ reader' = IF reader[e][c].msg.kind = "order" THEN [reader EXCEPT ![e][c].at = "ack"]
               ELSE [reader EXCEPT ![e][c] = Ready]
  /\ UNCHANGED <<use, open, closing, raw, queue, stream, writer, call, gate, accepted, taken, losses>>

(* The message is handed to the program, an ordering before it is          *)
(* acknowledged.                                                           *)
Deliver(e, c) ==
  /\ reader[e][c].at = "inbox" /\ Len(inbox[e]) < use.inbound
  /\ inbox' = [inbox EXCEPT ![e] = Append(@, reader[e][c].msg)]
  /\ reader' = IF reader[e][c].msg.kind = "order" THEN [reader EXCEPT ![e][c].at = "ack"]
               ELSE [reader EXCEPT ![e][c] = Ready]
  /\ UNCHANGED <<use, open, closing, raw, queue, stream, writer, call, gate, accepted, taken, losses>>

MutAcknowledge(e) ==
  /\ reader[e]["control"].at = "ack"
  /\ reader' = [reader EXCEPT ![e]["control"] = [Ready EXCEPT !.at = "dead"]]
  /\ UNCHANGED <<use, open, closing, raw, queue, stream, writer, inbox, call, gate, accepted, taken, losses>>

(* internal_control: the acknowledgement waits for room in the queue of    *)
(* the control channel.                                                    *)
Acknowledge(e) ==
  /\ reader[e]["control"].at = "ack"
  /\ \/ /\ writer[e]["control"] = "dead"
        /\ reader' = [reader EXCEPT ![e]["control"] = [Ready EXCEPT !.at = "dead"]]
        /\ UNCHANGED queue
     \/ /\ writer[e]["control"] # "dead" /\ ~Full(e, "control")
        /\ queue' = [queue EXCEPT ![e]["control"] =
             Append(@, Message("ack", "control", 0, reader[e]["control"].msg.epoch))]
        /\ reader' = [reader EXCEPT ![e]["control"] = Ready]
  /\ UNCHANGED <<use, open, closing, raw, stream, writer, inbox, call, gate, accepted, taken, losses>>

-----------------------------------------------------------------------------
(* The connection: lost at an end (idle timeout), or closed by its peer.   *)
Lose(e) ==
  /\ open[e] /\ losses < use[e].losses
  /\ losses' = losses + 1
  /\ open' = [open EXCEPT ![e] = FALSE]
  /\ UNCHANGED <<use, closing, raw, queue, stream, tasks, inbox, call, gate, accepted, taken>>

LearnClosed(e) ==
  /\ open[e] /\ ~open[Peer(e)]
  /\ open' = [open EXCEPT ![e] = FALSE]
  /\ UNCHANGED <<use, closing, raw, queue, stream, tasks, inbox, call, gate, accepted, taken, losses>>

Program(e) == SendConfirmed(e) \/ Next_(e)
Writer(e, c) == Sent(e, c) \/ SendFails(e, c) \/ WriterEnds(e, c)
Reader(e, c) ==
  \/ Receive(e, c) \/ ReceiveFails(e, c) \/ ReaderEnds(e, c) \/ Deliver(e, c)
  \/ c = "control" /\ Acknowledge(e)

(* A step of some task, of the runtime or of a program that reads or waits *)
(* for a confirmation.                                                     *)
Tasks ==
  \E e \in Ends :
    Program(e) \/ LearnClosed(e) \/ \E c \in use.channels : Writer(e, c) \/ Reader(e, c)

Next ==
  \/ Tasks
  \/ \E e \in Ends : Confirm(e) \/ SetRaw(e) \/ BeginTeardown(e) \/ Drop(e) \/ Lose(e)
  \/ \E e \in Ends, c \in use.channels : \E k \in use[e].does \cap {"plain", "order", "oversized"} : Enqueue(e, c, k)

(* The runtime does not stop while a task can make a step.  (Which one it  *)
(* runs does not matter: the programs send a bounded number of messages,   *)
(* and no task can run for ever on these.)                                 *)
Fairness == WF_vars(Tasks)

Spec == Init /\ [][Next]_vars /\ Fairness

-----------------------------------------------------------------------------
Counted(s, c) == SelectSeq(s, LAMBDA m : m.channel = c /\ m.kind # "ack")

(* What is on its way from the program of e to that of its peer.           *)
Pipe(e, c) ==
  LET r == reader[Peer(e)][c]
  IN Counted(inbox[Peer(e)], c) \o (IF r.at = "inbox" THEN <<r.msg>> ELSE <<>>)
     \o Counted(stream[e][c], c) \o (IF writer[e][c] = "run" THEN Counted(queue[e][c], c) ELSE <<>>)

(* What enqueue accepted arrives at the peer's program in order and        *)
(* without a gap, through queue, stream, reader and inbound queue, on      *)
(* every channel; nothing is lost while the writer runs.                   *)
ChannelsAreExact ==
  \A e \in Ends, c \in Channels :
    Alive(Peer(e)) =>
      /\ \A i \in DOMAIN Pipe(e, c) : Pipe(e, c)[i].id = taken[e][c] + i
      /\ writer[e][c] = "run" => taken[e][c] + Len(Pipe(e, c)) = accepted[e][c]

(* A task of e waits for room in its inbound queue.                        *)
InboundFull(e) ==
  /\ Len(inbox[e]) >= use.inbound
  /\ \E c \in use.channels : writer[e][c] = "report" \/ reader[e][c].at \in {"inbox", "report"}

AckStuck(e) == reader[e]["control"].at = "ack" /\ Full(e, "control")

(* What can stop a session for ever: a program that waits for a confirmed  *)
(* write while tasks wait for room in its inbound queue, or control        *)
(* readers of both ends that wait for room for their acknowledgements.     *)
Jammed == (\E e \in Ends : call[e] # "none" /\ InboundFull(e)) \/ (\A e \in Ends : AckStuck(e))

(* A confirmed write (enqueue_control_and_wait) is answered, whatever      *)
(* happens to the connection and to the messages before it, unless the     *)
(* session is jammed for ever.                                             *)
ConfirmedWritesEnd == \A e \in Ends : <>[](call[e] # "none") => <>[]Jammed

(* A message accepted on a connection that stays open is read by the       *)
(* peer's program, unless the session is jammed for ever.                  *)
AcceptedArrives ==
  \A e \in Ends, c \in Channels :
    <>[](open[e] /\ open[Peer(e)] /\ taken[e][c] < accepted[e][c]) => <>[]Jammed

=============================================================================
