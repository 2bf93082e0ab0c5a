------------------------- MODULE AudioJitterBuffer -------------------------
(***************************************************************************)
(* AudioJitterBuffer (transport/audio_datagram.rs) as the datagram reader  *)
(* drives it: every audio datagram is pushed, then the buffer is popped    *)
(* until it has nothing ready.  Datagrams are lost, repeated and reordered:*)
(* any sequence number may arrive at any time, any number of times.        *)
(***************************************************************************)
EXTENDS Integers, FiniteSets, FiniteSetsExt, Functions

CONSTANTS
  MaxSeq,         \* bound: sequence numbers in a behaviour
  Size,           \* payload size of each packet
  StartPackets,   \* config.start_packets
  MaxPackets,     \* config.max_packets
  MaxMemory,      \* config.max_memory_bytes
  PlayoutDelay,   \* config.playout_delay
  MaxAge,         \* config.max_packet_age
  MaxAhead,       \* MAX_AUDIO_SEQUENCE_AHEAD
  MaxTime         \* bound: clock ticks in a behaviour

Seqs == 1..MaxSeq

(* AudioJitterBuffer::new                                                  *)
JitterAssumption ==
  /\ Size \in [Seqs -> Nat \ {0}] /\ MaxMemory \in Nat \ {0}
  /\ StartPackets \in 1..MaxPackets /\ PlayoutDelay <= MaxAge

VARIABLES
  packets,   \* sequence number -> time of arrival
  next,      \* next_sequence, 0 for None
  started,   \* playout_started
  bytes,     \* buffered_bytes
  now,       \* the clock
  draining,  \* the reader is popping after a push
  failed,    \* push returned an error, which ends the connection
  out,       \* history: the last number played or declared lost
  evicted    \* history: numbers evicted since then

buffer == <<packets, next, started, bytes>>
vars == <<buffer, now, draining, failed, out, evicted>>

Init ==
  /\ packets = <<>> /\ next = 0 /\ started = FALSE /\ bytes = 0
  /\ now = 0 /\ draining = FALSE /\ failed = FALSE
  /\ out = 0 /\ evicted = {}

Weight(S) == MapThenSumSet(LAMBDA q : Size[q], S)
Smaller(a, b) == IF a < b THEN a ELSE b

-----------------------------------------------------------------------------
(* A packet before the next one to play is late.                           *)
MutLateOffByOne(q) == started /\ next # 0 /\ q + 1 < next
IsLate(q) == started /\ next # 0 /\ q < next
Ignored(q) == IsLate(q) \/ q \in DOMAIN packets
LowestNext(q) == IF next = 0 THEN q ELSE Smaller(next, q)
TooFarAhead(q) == Max(DOMAIN packets \union {q}) - LowestNext(q) > MaxAhead

(* The packets evicted, oldest first, to make room for q.                  *)
Fits(q, S) == Cardinality(S) < MaxPackets /\ Weight(S) + Size[q] <= MaxMemory
EvictedFor(q) ==
  {p \in DOMAIN packets : ~Fits(q, {r \in DOMAIN packets : r >= p})}

(* evict_oldest moves next_sequence only off the number it evicts.         *)
NextAfter(E) ==
  IF next \in E THEN CHOOSE n \in next + 1 .. MaxSeq + 1 :
                       n \notin E /\ \A m \in next..(n - 1) : m \in E
  ELSE next

Push(q) ==
  LET E == EvictedFor(q) IN
  /\ ~draining /\ ~failed
  /\ IF Ignored(q)
     THEN draining' = TRUE /\ UNCHANGED <<buffer, failed, evicted>>
     ELSE IF TooFarAhead(q) \/ Size[q] > MaxMemory
     THEN failed' = TRUE /\ UNCHANGED <<buffer, draining, evicted>>
     ELSE /\ packets' = [p \in (DOMAIN packets \ E) \union {q} |->
                           IF p = q THEN now ELSE packets[p]]
          /\ next' = IF next = 0 THEN q ELSE Smaller(NextAfter(E), q)
          /\ bytes' = bytes - Weight(E) + Size[q]
          /\ evicted' = (evicted \union E) \ {q}
          /\ draining' = TRUE /\ UNCHANGED <<started, failed>>
  /\ UNCHANGED <<now, out>>

-----------------------------------------------------------------------------
(* pop_ready, after discard_expired.                                       *)
Fresh == {q \in DOMAIN packets : now - packets[q] < MaxAge}
IsReady(q) == Cardinality(Fresh) >= StartPackets \/ now - packets[q] >= PlayoutDelay

Playable == next # 0 /\ Fresh # {} /\ IsReady(IF next \in Fresh THEN next ELSE Min(Fresh))

Emit(n) ==
  /\ next' = n + 1 /\ started' = TRUE
  /\ out' = n /\ evicted' = {}
  /\ UNCHANGED <<now, draining, failed>>

PlayPacket ==
  /\ draining /\ Playable /\ next \in Fresh
  /\ packets' = Restrict(packets, Fresh \ {next})
  /\ bytes' = bytes - Weight(DOMAIN packets \ Fresh) - Size[next]
  /\ Emit(next)

DeclareLost ==
  /\ draining /\ Playable /\ next \notin Fresh
  /\ packets' = Restrict(packets, Fresh)
  /\ bytes' = bytes - Weight(DOMAIN packets \ Fresh)
  /\ Emit(next)

NothingReady ==
  /\ draining /\ ~Playable
  /\ packets' = Restrict(packets, Fresh)
  /\ bytes' = bytes - Weight(DOMAIN packets \ Fresh)
  /\ draining' = FALSE
  /\ UNCHANGED <<next, started, now, failed, out, evicted>>

Tick ==
  /\ now < MaxTime
  /\ now' = now + 1
  /\ UNCHANGED <<buffer, draining, failed, out, evicted>>

Next ==
  \/ \E q \in Seqs : Push(q)
  \/ PlayPacket \/ DeclareLost \/ NothingReady \/ Tick

Spec == Init /\ [][Next]_vars

-----------------------------------------------------------------------------
(* Properties.                                                             *)

(* The decoder sees every sequence number once and in order, played or     *)
(* declared lost; only evicted numbers are passed over in silence.         *)
PlaysOn == out' # out => (out' > out /\ (out # 0 => (out + 1)..(out' - 1) \subseteq evicted))
PlayoutIsContiguous == [][PlaysOn]_vars

(* The incremental byte count is what is buffered, within both limits.     *)
BufferWithinLimits ==
  /\ bytes = Weight(DOMAIN packets) /\ bytes <= MaxMemory
  /\ Cardinality(DOMAIN packets) <= MaxPackets

(* Between datagrams fewer packets are buffered than playout starts with,  *)
(* and none that could never be played.                                    *)
DrainedBetweenDatagrams ==
  /\ ~draining => Cardinality(DOMAIN packets) < StartPackets
  /\ started => \A q \in DOMAIN packets : q >= next
(* The decoder gets what it should, from a buffer that stays within its    *)
(* limits and is drained between datagrams.                                *)
BufferIsTidy == BufferWithinLimits /\ DrainedBetweenDatagrams
PlayoutIsSound == PlayoutIsContiguous /\ []BufferIsTidy
=============================================================================
