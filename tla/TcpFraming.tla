---------------------------- MODULE TcpFraming ----------------------------
(***************************************************************************)
(* One direction of a TCP stream of messages (tcp.rs, bytes_codec.rs): the *)
(* sender frames and, once a key is set, encrypts messages; small frames   *)
(* go through the write buffer of tokio's Framed, large ones are written   *)
(* to the socket in chunks after the buffer was flushed; TCP delivers the  *)
(* bytes in pieces of any size (one at a time here, and the receiver looks *)
(* whenever it likes); the receiver decodes frames from its read buffer.   *)
(* Either end may split its stream (into_split), also with bytes in its    *)
(* buffers and in the middle of a frame.                                   *)
(*                                                                         *)
(* A header is 1 to 4 bytes: the length and, in its two lowest bits, the   *)
(* number of further bytes, least significant first.  Byte is 256 in the   *)
(* code; a smaller one gives the same formats to short frames.             *)
(***************************************************************************)
EXTENDS Integers, Sequences, SequencesExt

CONSTANTS
  Byte,         \* values of a byte of a header, a multiple of 4
  Lengths,      \* lengths of messages
  MaxPacket,    \* max_packet_length of the receiver's codec
  MacBytes,     \* secretbox::MACBYTES, what sealing adds to a message
  ChunkLimit,   \* TCP_FRAMED_WRITE_CHUNK_LIMIT
  Boundary,     \* bytes from which on Framed flushes its buffer before a send
  KeyAfter,     \* messages exchanged before both ends set the key
  MaxMessages   \* frames sent, and frames sealed (bound)

VARIABLES
  mode,      \* NonceMode of the key both ends set: "legacy" or "directional"
  sent,      \* the frames' bodies handed to send calls, but for lost ones
  sealed,    \* frames the sender has sealed (Encrypt.1)
  gap,       \* a sealed frame was lost as a whole: its nonce never arrives
  calling,   \* a send call is in progress
  wbuf,      \* write buffer of the Framed, or pending of the write half
  direct,    \* what a send call has yet to write past the buffer, or a
             \* small frame for which the buffer is not yet ready
  failed,    \* a send call lost part of a frame; its caller gives up
  halves,    \* ends that have split their stream
  rbuf,      \* bytes on their way and in the read buffer
  need,      \* DecodeState: -1 for Head, n for Data(n)
  opened,    \* frames the receiver has opened (Encrypt.2)
  got,       \* frames' bodies the receiver has read, in order
  broken     \* the receiver met a frame it refuses

sender == <<mode, sent, sealed, gap, calling, wbuf, direct, failed>>
receiver == <<rbuf, need, opened, got, broken>>
vars == <<sender, halves, receiver>>

Init ==
  /\ mode \in {"legacy", "directional"}
  /\ sent = <<>> /\ sealed = 0 /\ gap = FALSE /\ calling = FALSE /\ wbuf = <<>> /\ direct = <<>>
  /\ failed = FALSE /\ halves = {} /\ rbuf = <<>> /\ need = -1
  /\ opened = 0 /\ got = <<>> /\ broken = FALSE

-----------------------------------------------------------------------------
(* A byte: its value matters in a header, in a body only which byte of     *)
(* which message it is and the nonce that sealed it (0 for none).          *)
ByteOf(value, m, i, nonce) == [value |-> value, msg |-> m, at |-> i, nonce |-> nonce]

(* encode_frame: the header of a frame of n bytes, and the lengths that it *)
(* refuses.                                                                *)
Overflows(n) == n >= Byte^4 \div 4
HeadLength(n) == CHOOSE k \in 1..4 : /\ n < Byte^k \div 4
                                     /\ \A j \in 1..(k - 1) : n >= Byte^j \div 4

EncodeHead(n) ==
  LET k == HeadLength(n)
  IN [i \in 1..k |-> ByteOf(((4 * n + k - 1) \div Byte^(i - 1)) % Byte, 0, 0, 0)]

(* decode_head: the bytes of the header s starts with, and its length.     *)
HeadBytes(s) == (s[1].value % 4) + 1
DecodeHead(s) ==
  FoldLeft(LAMBDA n, i : n + s[i].value * Byte^(i - 1), 0,
                         [i \in 1..HeadBytes(s) |-> i]) \div 4

TooBig(n) == n > MaxPacket

Body(m, n, nonce) == [i \in 1..n |-> ByteOf(0, m, i, nonce)]
Frame(body) == EncodeHead(Len(body)) \o body
IsSealed(body) == body # <<>> /\ body[1].nonce # 0
Keyed(m) == m > KeyAfter

(* NonceMode::nonce: the counter, and in directional mode the direction.   *)
(* The sender is the viewer.                                               *)
Nonce(role, counter, sending) ==
  2 * counter + (IF mode = "directional" /\ ((role = "viewer") = sending) THEN 1 ELSE 0)

-----------------------------------------------------------------------------
(* The sender.                                                             *)

(* A send call with the bytes of a frame.  A small frame enters the buffer *)
(* of the Framed, which the call flushes, and when the buffer holds much   *)
(* already the call flushes it before (Framed's poll_ready); a large one   *)
(* is written past the buffer once that is flushed (send_bytes,            *)
(* send_bytes_bounded).  The write half writes what was pending and then   *)
(* the frame (send_bytes_inner).  A frame that cannot be encoded is an     *)
(* error after the flush.                                                  *)
SendBytes(body) ==
  LET f == IF Overflows(Len(body)) THEN <<>> ELSE Frame(body)
  IN /\ ~calling /\ ~failed /\ Len(sent) < MaxMessages
     /\ calling' = TRUE
     /\ IF Overflows(Len(body)) THEN gap' = (gap \/ IsSealed(body)) /\ UNCHANGED sent
                                ELSE sent' = Append(sent, body) /\ UNCHANGED gap
     /\ CASE "sender" \in halves -> direct' = wbuf \o f /\ wbuf' = <<>>
          [] "sender" \notin halves /\ Len(body) <= ChunkLimit /\ Len(wbuf) < Boundary
               -> wbuf' = wbuf \o f /\ UNCHANGED direct
          [] OTHER -> direct' = f /\ UNCHANGED wbuf
     /\ UNCHANGED <<mode, failed, halves, receiver>>

(* A small frame that waits for the buffer, and enters it.                 *)
Parked == "sender" \notin halves /\ direct # <<>> /\ Len(Last(sent)) <= ChunkLimit
StartSend ==
  /\ calling /\ Parked /\ wbuf = <<>>
  /\ wbuf' = direct /\ direct' = <<>>
  /\ UNCHANGED <<mode, sent, sealed, gap, calling, failed, halves, receiver>>

(* send_raw: a message is sealed once there is a key.                      *)
Send(n) ==
  LET m == Len(sent) + 1
  IN /\ sealed < MaxMessages
     /\ SendBytes(IF Keyed(m) THEN Body(m, n + MacBytes, Nonce("viewer", sealed + 1, TRUE))
                              ELSE Body(m, n, 0))
     /\ sealed' = IF Keyed(m) THEN sealed + 1 ELSE sealed

(* send_bytes called directly: frames of at most a byte are understood     *)
(* without a seal by a receiver in legacy mode.                            *)
SendUnsealed(n) ==
  /\ mode = "legacy"
  /\ Keyed(Len(sent) + 1)
  /\ SendBytes(Body(Len(sent) + 1, n, 0))
  /\ UNCHANGED sealed

(* Framed's flush and write_wire_bytes: the socket takes a byte, those of  *)
(* the buffer first.                                                       *)
Write ==
  LET from == IF wbuf # <<>> THEN wbuf ELSE direct
  IN /\ calling /\ from # <<>> /\ (wbuf = <<>> => ~Parked)
     /\ rbuf' = Append(rbuf, Head(from))
     /\ IF wbuf # <<>> THEN wbuf' = Tail(wbuf) /\ UNCHANGED direct
                       ELSE direct' = Tail(direct) /\ UNCHANGED wbuf
     /\ UNCHANGED <<mode, sent, sealed, gap, calling, failed, halves, need, opened, got, broken>>

Returns ==
  /\ calling /\ wbuf = <<>> /\ direct = <<>>
  /\ calling' = FALSE
  /\ UNCHANGED <<mode, sent, sealed, gap, wbuf, direct, failed, halves, receiver>>

(* The send timeout expires.  What the buffer holds stays there and the    *)
(* next call writes it.  A frame of which nothing was written is lost, and *)
(* the next call may follow; of one that was begun the rest is lost, and   *)
(* the writer of stream.rs stops at the error.                             *)
Timeout ==
  /\ calling /\ wbuf \o direct # <<>>
  /\ calling' = FALSE
  /\ direct' = <<>>
  /\ IF direct # <<>> /\ direct = Frame(Last(sent))
     THEN sent' = Front(sent) /\ gap' = (gap \/ IsSealed(Last(sent))) /\ UNCHANGED failed
     ELSE failed' = (direct # <<>>) /\ UNCHANGED <<sent, gap>>
  /\ UNCHANGED <<mode, sealed, wbuf, halves, receiver>>

-----------------------------------------------------------------------------
(* The receiver.                                                           *)

(* decode_head takes the header once all its bytes are there, and refuses  *)
(* a packet that is too big.                                               *)
ReadHead ==
  /\ ~broken /\ need = -1
  /\ rbuf # <<>> /\ Len(rbuf) >= HeadBytes(rbuf)
  /\ IF TooBig(DecodeHead(rbuf)) THEN broken' = TRUE /\ UNCHANGED <<need, rbuf>>
     ELSE /\ need' = DecodeHead(rbuf)
          /\ rbuf' = SubSeq(rbuf, HeadBytes(rbuf) + 1, Len(rbuf))
          /\ UNCHANGED broken
  /\ UNCHANGED <<sender, halves, opened, got>>

(* decode_data, then Encrypt::dec: in legacy mode frames of at most a byte *)
(* pass as they are; otherwise the counter is raised and the frame must be *)
(* one that was sealed with it.                                            *)
ReadData ==
  LET s == SubSeq(rbuf, 1, need)
      passes == ~Keyed(Len(got) + 1) \/ (mode = "legacy" /\ need <= 1)
      counter == IF passes \/ (mode = "directional" /\ need < MacBytes) THEN opened ELSE opened + 1
      opens == /\ need >= MacBytes
               /\ s = Body(s[1].msg, need, Nonce("host", counter, FALSE))
  IN /\ ~broken /\ need # -1 /\ Len(rbuf) >= need
     /\ rbuf' = SubSeq(rbuf, need + 1, Len(rbuf))
     /\ need' = -1
     /\ opened' = counter
     /\ IF passes \/ opens THEN got' = Append(got, s) /\ UNCHANGED broken
                           ELSE broken' = TRUE /\ UNCHANGED got
     /\ UNCHANGED <<sender, halves>>

MutIntoSplit(e) ==
  /\ e \notin halves
  /\ e = "sender" => ~calling
  /\ halves' = halves \cup {e}
  /\ need' = IF e = "receiver" THEN -1 ELSE need
  /\ UNCHANGED <<sender, rbuf, opened, got, broken>>

(* into_split: the codec with its state, the read buffer, the write buffer *)
(* (as pending) and the counters go with the halves.                       *)
IntoSplit(e) ==
  /\ e \notin halves
  /\ e = "sender" => ~calling
  /\ halves' = halves \cup {e}
  /\ UNCHANGED <<sender, receiver>>

Next ==
  \/ \E n \in Lengths : Send(n)
  \/ \E n \in 0..1 : SendUnsealed(n)
  \/ StartSend \/ Write \/ Returns \/ Timeout \/ ReadHead \/ ReadData
  \/ \E e \in {"sender", "receiver"} : IntoSplit(e)

Spec == Init /\ [][Next]_vars

-----------------------------------------------------------------------------
(* The receiver reads the frames that were sent, whole and in order:       *)
(* headers of one to four bytes, encryption counters, chunked writes, send *)
(* timeouts, arbitrary pieces and the splitting of either end never cut,   *)
(* merge or reorder a message.  And it refuses one only when that is       *)
(* longer than max_packet_length, or when a sealed frame was lost as a     *)
(* whole before it: enc has counted the lost frame, dec has not, and no    *)
(* frame sealed later opens.                                               *)
MessagesArriveWhole ==
  /\ IsPrefix(got, sent)
  /\ broken => gap \/ TooBig(Len(sent[Len(got) + 1]))
=============================================================================
