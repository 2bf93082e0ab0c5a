---------------------------- MODULE FileChannel ----------------------------
(***************************************************************************)
(* A file sent over the reliable file channel (transport/file_transfer.rs):*)
(* the sender announces it with its hash and the offset it resumes at, and *)
(* sends chunks as its rate limiter lets it; the receiver hashes what it   *)
(* accepts and compares at the end.  The connection may break, after which *)
(* the transfer resumes from the receiver's hash state or starts again;    *)
(* the file may change at the sender between attempts, the program may     *)
(* repeat a chunk it is not sure of, and either side may cancel.  The      *)
(* hash of data is the data itself: collisions are left out.               *)
(***************************************************************************)
EXTENDS Integers, Sequences, SequencesExt, Functions

CONSTANTS
  Size,          \* bytes of the file
  MaxFileBytes,  \* the receiver's policy
  ChunkBytes,    \* MAX_FILE_CHUNK_BYTES
  Versions,      \* contents the file has, one after the other
  Rate, Burst,   \* of the limiter: bytes per time unit, bytes saved up
  MaxTime,       \* bound on time
  MaxAttempts    \* bound on attempts

VARIABLES
  version,    \* version of the file at the sender
  sending,    \* metadata and next offset of the attempt under way, or <<>>
  attempts,
  flight,     \* messages on the file channel, in order
  rx,         \* FileTransferReceiver: metadata, expected_offset, hasher, cancelled; or <<>>
  disk,       \* what the receiver's program has written
  resume,     \* FileResumeState the program kept of a broken attempt, or <<>>
  done,       \* metadata of the attempts that finish accepted, or <<>>
  now, available, updatedAt,   \* the limiter
  spent       \* history: bytes it let through at each time

limiter == <<now, available, updatedAt, spent>>
vars == <<version, sending, attempts, flight, rx, disk, resume, done, limiter>>

Content(v) == [i \in 1..Size |-> <<v, i>>]
Lower(a, b) == IF a < b THEN a ELSE b

Init ==
  /\ version \in Versions
  /\ sending = <<>> /\ attempts = 0 /\ flight = <<>>
  /\ rx = <<>> /\ disk = <<>> /\ resume = <<>> /\ done = <<>>
  /\ now = 0 /\ available = Burst /\ updatedAt = 0 /\ spent = [t \in 0..MaxTime |-> 0]

-----------------------------------------------------------------------------
(* FileTransferRateLimiter::delay_for: the bytes saved up since the last   *)
(* call, at most the burst; enough of them let the chunk pass at once.     *)
MutRefilled == available + (now - updatedAt) * Rate
Refilled == Lower(available + (now - updatedAt) * Rate, Burst)

DelayFor(bytes, passes) ==
  /\ passes = (bytes <= Refilled)
  /\ available' = IF passes THEN Refilled - bytes ELSE Refilled
  /\ updatedAt' = now
  /\ spent' = IF passes THEN [spent EXCEPT ![now] = @ + bytes] ELSE spent
  /\ UNCHANGED now

Tick ==
  /\ now < MaxTime
  /\ now' = now + 1
  /\ UNCHANGED <<version, sending, attempts, flight, rx, disk, resume, done, available, updatedAt, spent>>

-----------------------------------------------------------------------------
(* The sender.                                                             *)

(* An attempt, at the offset the receiver asked to resume at: metadata are *)
(* encoded after validate_metadata.                                        *)
Announce ==
  /\ sending = <<>> /\ rx = <<>> /\ flight = <<>> /\ done = <<>>
  /\ attempts < MaxAttempts /\ Size <= MaxFileBytes
  /\ attempts' = attempts + 1
  /\ LET meta == [hash |-> Content(version), size |-> Size,
                  resume |-> IF resume = <<>> THEN 0 ELSE resume[1].offset]
     IN /\ sending' = <<[meta |-> meta, at |-> meta.resume, content |-> Content(version)]>>
        /\ flight' = <<[kind |-> "metadata", meta |-> meta]>>
  /\ UNCHANGED <<version, rx, disk, resume, done, limiter>>

ChunkAt(s, from, n) == [kind |-> "chunk", offset |-> from, data |-> SubSeq(s.content, from + 1, from + n)]

SendChunk(n) ==
  /\ sending # <<>>
  /\ LET s == sending[1]
     IN /\ n \in 1..Lower(ChunkBytes, Size - s.at)
        /\ \/ /\ DelayFor(n, TRUE)
              /\ flight' = Append(flight, ChunkAt(s, s.at, n))
              /\ sending' = <<[s EXCEPT !.at = @ + n]>>
           \/ DelayFor(n, FALSE) /\ UNCHANGED <<flight, sending>>
  /\ UNCHANGED <<version, attempts, rx, disk, resume, done>>

(* The program is not sure of its last chunk and sends it again.           *)
SendAgain ==
  /\ sending # <<>> /\ sending[1].at > sending[1].meta.resume
  /\ DelayFor(1, TRUE)
  /\ flight' = Append(flight, ChunkAt(sending[1], sending[1].at - 1, 1))
  /\ UNCHANGED <<version, sending, attempts, rx, disk, resume, done>>

SendCancel ==
  /\ sending # <<>>
  /\ flight' = Append(flight, [kind |-> "cancel"])
  /\ sending' = <<>>
  /\ UNCHANGED <<version, attempts, rx, disk, resume, done, limiter>>

(* The file is changed; an attempt under way reads the new bytes.          *)
FileChanges(v) ==
  /\ v \in Versions /\ v > version
  /\ version' = v
  /\ sending' = IF sending = <<>> THEN <<>> ELSE <<[sending[1] EXCEPT !.content = Content(v)]>>
  /\ UNCHANGED <<attempts, flight, rx, disk, resume, done, limiter>>

-----------------------------------------------------------------------------
(* The receiver.                                                           *)

(* FileTransferReceiver::start with what the program kept for the resume.  *)
(* A start at 0 writes a new file.                                         *)
Start ==
  /\ rx = <<>> /\ flight # <<>> /\ Head(flight).kind = "metadata"
  /\ flight' = Tail(flight)
  /\ LET meta == Head(flight).meta
         matches == resume # <<>> /\ resume[1].offset = meta.resume
     IN CASE meta.resume = 0 /\ resume = <<>> ->
               /\ rx' = <<[meta |-> meta, expected |-> 0, hasher |-> <<>>, cancelled |-> FALSE]>>
               /\ disk' = <<>>
          [] meta.resume > 0 /\ matches ->
               /\ rx' = <<[meta |-> meta, expected |-> meta.resume,
                           hasher |-> resume[1].hasher, cancelled |-> FALSE]>>
               /\ UNCHANGED disk
          [] OTHER -> UNCHANGED <<rx, disk>>
  /\ resume' = <<>>
  /\ UNCHANGED <<version, sending, attempts, done, limiter>>

(* accept_chunk: only the next bytes of a transfer that is not cancelled.  *)
Accepts(r, c) == /\ ~r.cancelled
                 /\ c.offset = r.expected
                 /\ r.expected + Len(c.data) <= r.meta.size

AcceptChunk ==
  /\ rx # <<>> /\ flight # <<>> /\ Head(flight).kind = "chunk"
  /\ flight' = Tail(flight)
  /\ LET r == rx[1]
         c == Head(flight)
     IN IF Accepts(r, c)
        THEN /\ rx' = <<[r EXCEPT !.expected = @ + Len(c.data), !.hasher = @ \o c.data]>>
             /\ disk' = disk \o c.data
        ELSE UNCHANGED <<rx, disk>>
  /\ UNCHANGED <<version, sending, attempts, resume, done, limiter>>

(* Messages that no receiver waits for.                                    *)
Ignore ==
  /\ flight # <<>>
  /\ \/ rx = <<>> /\ Head(flight).kind # "metadata"
     \/ rx # <<>> /\ Head(flight).kind = "metadata"
  /\ flight' = Tail(flight)
  /\ UNCHANGED <<version, sending, attempts, rx, disk, resume, done, limiter>>

Cancel ==
  /\ rx # <<>>
  /\ \/ flight # <<>> /\ Head(flight).kind = "cancel" /\ flight' = Tail(flight)
     \/ ~rx[1].cancelled /\ UNCHANGED flight       \* the receiving user
  /\ rx' = <<[rx[1] EXCEPT !.cancelled = TRUE]>>
  /\ UNCHANGED <<version, sending, attempts, disk, resume, done, limiter>>

MutComplete(r) == ~r.cancelled /\ r.expected = r.meta.size

Complete(r) == ~r.cancelled /\ r.expected = r.meta.size /\ r.hasher = r.meta.hash

(* finish, which the program may call at any time: a cancelled, incomplete *)
(* or wrong transfer is an error.                                          *)
Finish ==
  /\ rx # <<>>
  /\ done' = IF Complete(rx[1]) THEN <<rx[1].meta>> ELSE <<>>
  /\ rx' = <<>> /\ sending' = <<>> /\ flight' = <<>>
  /\ UNCHANGED <<version, attempts, disk, resume, limiter>>

(* The connection breaks: what was on it is gone; a running receiver       *)
(* leaves its hash state for a resume.                                     *)
Break ==
  /\ sending # <<>> \/ flight # <<>>
  /\ sending' = <<>> /\ flight' = <<>> /\ rx' = <<>>
  /\ resume' = IF rx # <<>> /\ ~rx[1].cancelled /\ rx[1].expected > 0
               THEN <<[offset |-> rx[1].expected, hasher |-> rx[1].hasher]>> ELSE <<>>
  /\ UNCHANGED <<version, attempts, disk, done, limiter>>

Next ==
  \/ Announce \/ SendAgain \/ SendCancel \/ Tick
  \/ \E n \in 1..ChunkBytes : SendChunk(n)
  \/ \E v \in Versions : FileChanges(v)
  \/ Start \/ AcceptChunk \/ Ignore \/ Cancel \/ Finish \/ Break

Spec == Init /\ [][Next]_vars

-----------------------------------------------------------------------------
(* A transfer that finish accepts is the file that was announced: what is  *)
(* on the receiver's disk has the announced hash, whatever was repeated,   *)
(* broken off and resumed, or changed at the sender meanwhile.             *)
FinishedIsAnnounced == done # <<>> => disk = done[1].hash

(* The limiter keeps to its rate: from any time on it lets through at most *)
(* the burst and the rate times the time that has passed, also after a     *)
(* long pause.                                                             *)
RateIsKept ==
  \A t \in 0..now : SumFunctionOnSet(spent, t..now) <= Burst + Rate * (now - t)
=============================================================================
