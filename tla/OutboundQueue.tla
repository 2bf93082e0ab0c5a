--------------------------- MODULE OutboundQueue ---------------------------
(***************************************************************************)
(* The split stream of stream.rs: the owner's side of DuplexStream, the    *)
(* bounded outbound queue with its Notify, and run_stream_writer.          *)
(*                                                                         *)
(* The owner has the stream by mutable reference, so one call is made at a *)
(* time; the writer is a task of its own.  A step is one section under the *)
(* queue's mutex, or one call of the Notify.  A call that is refused and   *)
(* changes nothing is no step.                                             *)
(***************************************************************************)
EXTENDS Integers, Sequences, FiniteSets, FiniteSetsExt, Functions

CONSTANTS
  LatestKeys,    \* keys of send_latest
  VideoKeys,     \* <<display, stream>> of send_video
  Sizes,         \* payload sizes of video frames
  Capacity,      \* capacity of the queue
  Generations,   \* values of latest_generation (2^64)
  MaxTracks,     \* MAX_PENDING_VIDEO_TRACKS
  MaxFrameBytes, \* MAX_VIDEO_FRAME_BYTES
  MaxBytes,      \* MAX_PENDING_VIDEO_BYTES
  MaxMessages    \* bound: messages accepted in a behaviour

(* Generations do not wrap around while a snapshot waits.                  *)
ASSUME QueueAssumption ==
  /\ Capacity \in Nat \ {0} /\ Generations \in Nat /\ Generations >= Capacity
  /\ VideoKeys \subseteq Nat \X Nat /\ Sizes \subseteq Nat /\ MaxMessages \in Nat

VARIABLES
  entries,    \* entries of the queue
  latest,     \* <<key, generation>> -> the snapshot that waits
  gen,        \* latest_generation
  closed,     \* closed
  permit,     \* the permit stored by notify_one
  signalled,  \* notify_waiters was called since the writer made its future
  writer,     \* the writer task: place and message
  owner,      \* the owner's call: place, message and answer
  errs,       \* the writer's error: none, sent, or taken by next
  nextId,     \* history: number of the next accepted message
  wire        \* history: messages written, whole or in part

queue == <<entries, latest, gen, closed>>
vars == <<queue, permit, signalled, writer, owner, errs, nextId, wire>>

NoMsg == [id |-> 0, kind |-> "none", key |-> <<0, 0>>, size |-> 0]
Msg(kind, key, size) == [id |-> nextId, kind |-> kind, key |-> key, size |-> size]
Idle == [at |-> "idle", m |-> NoMsg, got |-> "none"]

Init ==
  /\ entries = <<>> /\ latest = <<>> /\ gen = 0 /\ closed = FALSE
  /\ permit = FALSE /\ signalled = FALSE
  /\ writer = [at |-> "listen", m |-> NoMsg]
  /\ owner = Idle /\ errs = "none" /\ nextId = 1 /\ wire = <<>>

-----------------------------------------------------------------------------
(* The owner.                                                              *)

HasRoom == Len(entries) < Capacity
CanCall == owner.at = "idle" /\ ~closed /\ nextId <= MaxMessages

(* A message is in the queue; notify_one follows after the unlock.         *)
Accepted(m) ==
  /\ owner' = [Idle EXCEPT !.at = "notify", !.m = IF m.kind = "reliable" THEN m ELSE NoMsg]
  /\ nextId' = nextId + 1
  /\ UNCHANGED <<closed, permit, signalled, writer, errs, wire>>

(* enqueue and enqueue_barrier.                                            *)
MutSameGeneration(kind) == gen
GenerationAfter(kind) == IF kind = "barrier" THEN (gen + 1) % Generations ELSE gen

Enqueue(kind) ==
  LET m == Msg(kind, <<0, 0>>, 0) IN
  /\ CanCall /\ HasRoom
  /\ entries' = Append(entries, m)
  /\ gen' = GenerationAfter(kind)
  /\ Accepted(m) /\ UNCHANGED latest

(* enqueue_latest: the snapshot of this generation is replaced in place,   *)
(* without a wake-up; a new one takes an entry.                            *)
WithLatest(m) == [k \in DOMAIN latest \union {m.key} |-> IF k = m.key THEN m ELSE latest[k]]

ReplaceLatest(k) ==
  LET m == Msg("latest", <<k, gen>>, 0) IN
  /\ CanCall /\ m.key \in DOMAIN latest
  /\ latest' = WithLatest(m)
  /\ nextId' = nextId + 1
  /\ UNCHANGED <<entries, gen, closed, permit, signalled, writer, owner, errs, wire>>

MutInsertQuietly(k) ==
  LET m == Msg("latest", <<k, gen>>, 0) IN
  /\ CanCall /\ m.key \notin DOMAIN latest /\ HasRoom
  /\ latest' = WithLatest(m)
  /\ entries' = Append(entries, [NoMsg EXCEPT !.kind = "latest", !.key = m.key])
  /\ nextId' = nextId + 1
  /\ UNCHANGED <<gen, closed, permit, signalled, writer, owner, errs, wire>>
InsertLatest(k) ==
  LET m == Msg("latest", <<k, gen>>, 0) IN
  /\ CanCall /\ m.key \notin DOMAIN latest /\ HasRoom
  /\ latest' = WithLatest(m)
  /\ entries' = Append(entries, [NoMsg EXCEPT !.kind = "latest", !.key = m.key])
  /\ Accepted(m) /\ UNCHANGED gen

(* enqueue_video: a newer stream retires the older one even if the frame   *)
(* is then refused.                                                        *)
IsVideo(e) == e.kind = "video"
Videos(q) == {i \in DOMAIN q : IsVideo(q[i])}
VideoBytes(q) == MapThenSumSet(LAMBDA i : q[i].size, Videos(q))
Obsolete(key) == \E i \in Videos(entries) : entries[i].key[1] = key[1] /\ entries[i].key[2] > key[2]
Retained(key) ==
  SelectSeq(entries, LAMBDA e : ~(IsVideo(e) /\ e.key[1] = key[1] /\ e.key[2] < key[2]))

InBudget(q, size) == VideoBytes(q) + size <= MaxBytes
VideoFits(q, key, size) ==
  /\ \A i \in Videos(q) : q[i].key # key
  /\ Cardinality(Videos(q)) < MaxTracks
  /\ size <= MaxFrameBytes /\ InBudget(q, size)
  /\ Len(q) < Capacity - 1

EnqueueVideo(key, size) ==
  LET m == Msg("video", key, size) IN
  /\ CanCall /\ ~Obsolete(key) /\ VideoFits(Retained(key), key, size)
  /\ entries' = Append(Retained(key), m)
  /\ Accepted(m) /\ UNCHANGED <<latest, gen>>

RefuseVideo(key, size) ==
  /\ CanCall /\ ~Obsolete(key) /\ ~VideoFits(Retained(key), key, size)
  /\ entries' = Retained(key)
  /\ UNCHANGED <<latest, gen, closed, permit, signalled, writer, owner, errs, nextId, wire>>

(* notify_one; then enqueue returns and enqueue_and_wait awaits its answer.*)
NotifyOne ==
  /\ owner.at = "notify"
  /\ permit' = TRUE
  /\ \/ owner' = Idle
     \/ owner.m # NoMsg /\ owner' = [owner EXCEPT !.at = "waiting"]
  /\ UNCHANGED <<queue, signalled, writer, errs, nextId, wire>>

(* The answer arrives, or the owner gives up waiting.                      *)
WaitReturns ==
  /\ owner.at = "waiting" /\ owner.got # "none"
  /\ owner' = Idle
  /\ UNCHANGED <<queue, permit, signalled, writer, errs, nextId, wire>>

CancelWait ==
  /\ owner.at = "waiting"
  /\ owner' = Idle
  /\ UNCHANGED <<queue, permit, signalled, writer, errs, nextId, wire>>

(* next: the branch of the select that takes the writer's error.           *)
NextTakesError ==
  /\ owner.at = "idle" /\ errs = "sent"
  /\ errs' = "taken"
  /\ UNCHANGED <<queue, permit, signalled, writer, owner, nextId, wire>>

(* Drop: close, notify_waiters, abort.                                     *)
Close ==
  /\ owner.at = "idle"
  /\ closed' = TRUE
  /\ owner' = [owner EXCEPT !.at = "closing"]
  /\ UNCHANGED <<entries, latest, gen, permit, signalled, writer, errs, nextId, wire>>

(* notify_waiters reaches a future that exists.                            *)
MutReachesAwaited == writer.at = "await"
Reaches == writer.at \in {"check", "unlocked", "await"}

NotifyWaiters ==
  /\ owner.at = "closing"
  /\ signalled' = (signalled \/ Reaches)
  /\ owner' = [owner EXCEPT !.at = "aborting"]
  /\ UNCHANGED <<queue, permit, writer, errs, nextId, wire>>

Abort ==
  /\ owner.at = "aborting"
  /\ owner' = [owner EXCEPT !.at = "gone"]
  /\ UNCHANGED <<queue, permit, signalled, writer, errs, nextId, wire>>

-----------------------------------------------------------------------------
(* The writer task.                                                        *)

WriterAt(pc) == writer' = [at |-> pc, m |-> NoMsg]

(* dequeue: the future is made before the queue is looked at.              *)
Listen ==
  /\ writer.at = "listen"
  /\ WriterAt("check") /\ signalled' = FALSE
  /\ UNCHANGED <<queue, permit, owner, errs, nextId, wire>>

HasMessage(i) == entries[i].kind # "latest" \/ entries[i].key \in DOMAIN latest
Present == {i \in DOMAIN entries : HasMessage(i)}

Pop ==
  /\ writer.at = "check" /\ Present # {}
  /\ LET i == Min(Present)
         e == entries[i]
     IN /\ entries' = SubSeq(entries, i + 1, Len(entries))
        /\ IF e.kind = "latest"
           THEN /\ writer' = [at |-> "write", m |-> latest[e.key]]
                /\ latest' = Restrict(latest, DOMAIN latest \ {e.key})
           ELSE writer' = [at |-> "write", m |-> e] /\ UNCHANGED latest
  /\ UNCHANGED <<gen, closed, permit, signalled, owner, errs, nextId, wire>>

NothingToPop ==
  /\ writer.at = "check" /\ Present = {}
  /\ entries' = <<>>
  /\ WriterAt(IF closed THEN "done" ELSE "unlocked")
  /\ UNCHANGED <<latest, gen, closed, permit, signalled, owner, errs, nextId, wire>>

(* The unlock, then notified.await.                                        *)
Await ==
  /\ writer.at = "unlocked"
  /\ WriterAt("await")
  /\ UNCHANGED <<queue, permit, signalled, owner, errs, nextId, wire>>

Wake ==
  /\ writer.at = "await" /\ (permit \/ signalled)
  /\ permit' = (permit /\ signalled)
  /\ WriterAt("listen")
  /\ UNCHANGED <<queue, signalled, owner, errs, nextId, wire>>

(* The completion of m, if the owner still waits for it.                   *)
Answer(m, result) ==
  owner' = IF owner.m = m THEN [owner EXCEPT !.got = result] ELSE owner

WriteOk ==
  /\ writer.at = "write"
  /\ wire' = Append(wire, [m |-> writer.m, whole |-> TRUE])
  /\ Answer(writer.m, "ok") /\ WriterAt("listen")
  /\ UNCHANGED <<queue, permit, signalled, errs, nextId>>

(* An error or the time-out, part of the frame perhaps written: the writer *)
(* answers, reports and stops.                                             *)
GiveUp == WriterAt("failing") /\ errs' = "sent"

WriteFails ==
  /\ writer.at = "write"
  /\ wire' = Append(wire, [m |-> writer.m, whole |-> FALSE])
  /\ Answer(writer.m, "err") /\ GiveUp
  /\ UNCHANGED <<queue, permit, signalled, nextId>>

(* fail_pending answers all who wait.                                      *)
FailWaiting ==
  owner' = IF \E i \in DOMAIN entries : entries[i] = owner.m
           THEN [owner EXCEPT !.got = "err"] ELSE owner

FailPending ==
  /\ writer.at = "failing"
  /\ FailWaiting
  /\ closed' = TRUE /\ entries' = <<>> /\ latest' = <<>>
  /\ WriterAt("done")
  /\ UNCHANGED <<gen, permit, signalled, errs, nextId, wire>>

(* The aborted task ends where it awaits; a write may have begun.          *)
Aborted ==
  /\ owner.at = "gone" /\ writer.at \in {"await", "write"}
  /\ WriterAt("done")
  /\ wire' = IF writer.at = "write" THEN Append(wire, [m |-> writer.m, whole |-> FALSE]) ELSE wire
  /\ UNCHANGED <<queue, permit, signalled, owner, errs, nextId>>

-----------------------------------------------------------------------------
Owner ==
  \/ \E kind \in {"reliable", "barrier"} : Enqueue(kind)
  \/ \E k \in LatestKeys : ReplaceLatest(k) \/ InsertLatest(k)
  \/ \E key \in VideoKeys, size \in Sizes : EnqueueVideo(key, size) \/ RefuseVideo(key, size)
  \/ NotifyOne \/ WaitReturns \/ CancelWait \/ NextTakesError \/ Close \/ NotifyWaiters \/ Abort

Writer ==
  \/ Listen \/ Pop \/ NothingToPop \/ Await \/ Wake \/ WriteOk \/ WriteFails \/ FailPending \/ Aborted

(* Both sides have ended.                                                  *)
Stopped == owner.at = "gone" /\ writer.at = "done" /\ UNCHANGED vars

Next == Owner \/ Writer \/ Stopped

Spec == Init /\ [][Next]_vars

(* The runtime runs the writer and the owner finishes what it began.  That *)
(* a write ends is up to the peer: into_duplex_with_context sets no send   *)
(* time-out, and without one run_stream_writer awaits the write for ever.  *)
FairSpec ==
  /\ Spec
  /\ WF_vars(Listen \/ Pop \/ NothingToPop \/ Await \/ Wake \/ FailPending \/ Aborted)
  /\ WF_vars(NotifyOne \/ WaitReturns \/ NotifyWaiters \/ Abort)

-----------------------------------------------------------------------------
(* Properties.                                                             *)

(* Messages are written in the order they were accepted, but for snapshots *)
(* written in the place of an older one; no snapshot passes a barrier or   *)
(* a newer snapshot of its key.                                            *)
BarriersOrder ==
  \A i, j \in DOMAIN wire :
    LET a == wire[i].m
        b == wire[j].m
    IN (i < j /\ a.id > b.id) =>
         /\ a.kind = "latest" /\ b.kind # "barrier"
         /\ b.kind = "latest" => a.key[1] # b.key[1]

(* Pending video stays within the track and byte budgets, one frame a      *)
(* track and one stream a display, and never fills the queue.              *)
VideoWithinBudget ==
  /\ VideoBytes(entries) <= MaxBytes /\ Cardinality(Videos(entries)) <= MaxTracks
  /\ \A i, j \in Videos(entries) : i # j => entries[i].key[1] # entries[j].key[1]
  /\ Len(entries) = Capacity => ~IsVideo(entries[Capacity])

(* The answer of enqueue_and_wait tells whether the message was written.   *)
AnswersAreHonest ==
  owner.m # NoMsg =>
    (owner.got = "ok") = (\E i \in DOMAIN wire : wire[i].whole /\ wire[i].m = owner.m)

(* A write that failed is the last one on the byte stream: the peer never  *)
(* parses the rest of a frame as the start of another.                     *)
NothingFollowsAFailedWrite == \A i \in DOMAIN wire : i < Len(wire) => wire[i].whole

(* No wake-up is lost: a writer that awaits with work to do has a permit,  *)
(* a signal, or a notification on its way.                                 *)
WorkWakesTheWriter ==
  (writer.at = "await" /\ (entries # <<>> \/ closed)) =>
    permit \/ signalled \/ owner.at \in {"notify", "closing"}

(* Every entry for a snapshot has its snapshot, every snapshot one entry.  *)
SnapshotsMatch ==
  LET snapshots == {i \in DOMAIN entries : entries[i].kind = "latest"}
  IN /\ DOMAIN latest = {entries[i].key : i \in snapshots}
     /\ Cardinality(DOMAIN latest) = Cardinality(snapshots)

(* The queue is consistent and bounded, wakes its writer, answers honestly *)
(* and stops after a failure.                                              *)
QueueIsSound ==
  SnapshotsMatch /\ VideoWithinBudget /\ WorkWakesTheWriter /\ AnswersAreHonest /\ NothingFollowsAFailedWrite

(* Every accepted message is settled: written, replaced by a newer         *)
(* snapshot, retired by a newer stream, or the stream has ended.           *)
Queued(n) ==
  \/ \E i \in DOMAIN entries : entries[i].id = n
  \/ \E k \in DOMAIN latest : latest[k].id = n
AcceptedIsSettled ==
  \A n \in 1..MaxMessages : Queued(n) ~> (~Queued(n) \/ owner.at = "gone")

(* enqueue_and_wait returns.                                               *)
WaitIsAnswered == owner.at = "waiting" ~> owner.at # "waiting"

(* The peer stopped reading in the middle of a frame.                      *)
OneWriteNeverEnds == <>[](writer.at = "write")

(* Neither a message nor its sender is forgotten, unless one write never   *)
(* ends, which nothing in the queue bounds; and when the stream is dropped *)
(* its writer ends, even out of such a write.                              *)
NothingIsForgotten ==
  /\ OneWriteNeverEnds \/ (AcceptedIsSettled /\ WaitIsAnswered)
  /\ owner.at = "gone" ~> writer.at = "done"
=============================================================================
