---------------------------- MODULE FileTransfer ----------------------------
(***************************************************************************)
(* A file transfer job (fs.rs): the reading TransferJob driven by          *)
(* handle_read_jobs, the writing one, the digest and confirmation between  *)
(* them, and the files the writer leaves on disk (target, .download and    *)
(* .digest) when the session ends or the process dies between two calls of *)
(* the file system.  A later session resumes the job or starts it anew.    *)
(*                                                                         *)
(* Overwrite detection is on, as with every current peer.  The loop that   *)
(* passes messages to the jobs is outside the library: it checks a digest  *)
(* with is_write_need_confirmation, lets the user decide about an existing *)
(* file, confirms the answer to both jobs when it resumes and perhaps      *)
(* otherwise, calls modify_time when the job is done and drops the job on  *)
(* an error.  Source files change between sessions only.                   *)
(*                                                                         *)
(* The stream of the writing job is a tokio File: write_all hands a block  *)
(* to a thread of the runtime and returns, the next write waits for that   *)
(* thread and reports its error, sync_all waits for it and does not, and   *)
(* an empty write does neither.  What a session leaves in the runtime's    *)
(* hand has landed or is lost when the next session begins.                *)
(***************************************************************************)
EXTENDS Integers, Sequences, SequencesExt

CONSTANTS
  Blocks,        \* the size of every file, in blocks of BUF_SIZE
  Existing,      \* files the writer has before the first session
  MaxVersion,    \* bound: versions of a source file
  MaxSessions    \* bound: sessions in a behaviour

N == Len(Blocks)
Files == 1..N

ASSUME TransferAssumption == Blocks \in Seq(Nat) /\ N > 0 /\ MaxVersion \in Nat \ {0}

VARIABLES
  ver,       \* source: version of each file, its size and time of modification
  target,    \* disk of the writer: content of each file
  down,      \* disk of the writer: content of each .download file
  dig,       \* disk of the writer: version in each .digest file, 0 for none
  on,        \* a session carries the job
  resume,    \* is_resume
  sessions,  \* sessions so far
  saved,     \* file_num of the job's TransferJobMeta
  rj,        \* the reading job
  wj,        \* the writing job, where in write it is, and the block of its
             \* file that the runtime has in hand
  toW, toR,  \* messages in flight, ordered
  chosen,    \* history: version of each file both jobs agreed on in this session
  left,      \* history: files whose download is left over from earlier sessions
  stray      \* history: files of which only the reader took an offset

disk == <<target, down, dig>>
session == <<on, resume, sessions, saved>>
history == <<chosen, left, stray>>
vars == <<ver, disk, session, rj, wj, toW, toR, history>>

(* Content: a sequence of blocks <<version, index>>.                       *)
Absent == <<<<0, 0>>>>
Older == <<<<0, 1>>>>
Full(f, v) == [i \in 1..Blocks[f] |-> <<v, i>>]
Closed == -1

NoReader == [file |-> N + 1, pos |-> Closed, confirmed |-> FALSE, waiting |-> FALSE,
             skipped |-> FALSE, live |-> FALSE]
NoWriter == [at |-> "idle", file |-> 1, open |-> FALSE, digest |-> 0, f |-> 1, c |-> <<>>,
             ending |-> FALSE, late |-> <<>>, lost |-> {}]
Nobody == [f \in Files |-> 0]

Init ==
  /\ ver = [f \in Files |-> 1]
  /\ target = [f \in Files |-> IF f \in Existing THEN Older ELSE Absent]
  /\ down = [f \in Files |-> Absent] /\ dig = Nobody
  /\ on = FALSE /\ resume = FALSE /\ sessions = 0 /\ saved = N + 1
  /\ rj = NoReader /\ wj = NoWriter /\ toW = <<>> /\ toR = <<>>
  /\ chosen = Nobody /\ left = {} /\ stray = {}

-----------------------------------------------------------------------------
(* Sessions.                                                               *)

StartSession(r) ==
  /\ ~on /\ sessions < MaxSessions /\ (r => saved \in Files)
  /\ on' = TRUE /\ resume' = r /\ sessions' = sessions + 1
  /\ LET first == IF r THEN saved ELSE 1 IN
     /\ rj' = [NoReader EXCEPT !.file = first, !.live = TRUE]
     /\ wj' = [NoWriter EXCEPT !.file = first]
  /\ chosen' = Nobody /\ left' = {f \in Files : down[f] # Absent} /\ UNCHANGED stray
  /\ UNCHANGED <<ver, disk, saved, toW, toR>>

(* The block in hand reaches the file, under the name it has by then.      *)
Landed ==
  /\ IF wj.at \in {"sync", "over"}
     THEN target' = [target EXCEPT ![wj.file] = @ \o wj.late] /\ UNCHANGED down
     ELSE down' = [down EXCEPT ![wj.file] = @ \o wj.late] /\ UNCHANGED target
  /\ UNCHANGED dig

EndSession(next) ==
  /\ on' = FALSE /\ saved' = next
  /\ rj' = NoReader /\ wj' = NoWriter /\ toW' = <<>> /\ toR' = <<>>
  /\ UNCHANGED disk \/ (wj.late # <<>> /\ Landed)
  /\ UNCHANGED <<ver, resume, sessions, history>>

(* The connection is lost, a call of write fails or the process dies.      *)
Disconnect == on /\ EndSession(wj.file)

SourceChanges(f) ==
  /\ ~on /\ ver[f] < MaxVersion
  /\ ver' = [ver EXCEPT ![f] = @ + 1]
  /\ UNCHANGED <<disk, session, rj, wj, toW, toR, history>>

-----------------------------------------------------------------------------
(* The reading job: handle_read_jobs.                                      *)

Unconfirmed == [rj EXCEPT !.confirmed = FALSE, !.waiting = FALSE]
NextFile == [Unconfirmed EXCEPT !.file = @ + 1, !.pos = Closed]

(* Messages to the writer.                                                 *)
Digest(f) == [t |-> "digest", f |-> f, v |-> ver[f]]
Block(f, c) == [t |-> "block", f |-> f, c |-> c]
Done == [t |-> "done"]
Error == [t |-> "error"]

(* job_completed: new_done, or the error "skipped" for a single file.      *)
Completion(j) == IF j.skipped /\ N = 1 THEN Error ELSE Done

Reads == on /\ rj.live /\ UNCHANGED <<ver, disk, session, wj, toR, history>>

OpenFile ==
  /\ Reads /\ rj.file \in Files /\ rj.pos = Closed
  /\ rj' = [Unconfirmed EXCEPT !.pos = 0, !.waiting = TRUE]
  /\ toW' = Append(toW, Digest(rj.file))

(* An open that fails advances, and read then finds the job completed.     *)
OpenFails ==
  /\ Reads /\ rj.file \in Files /\ rj.pos = Closed
  /\ rj' = [NextFile EXCEPT !.live = FALSE]
  /\ toW' = toW \o <<Error, Completion(rj)>>

ReadBlock ==
  /\ Reads /\ rj.confirmed /\ rj.pos \in 0..(Blocks[rj.file] - 1)
  /\ rj' = [rj EXCEPT !.pos = @ + 1]
  /\ toW' = Append(toW, Block(rj.file, <<<<ver[rj.file], rj.pos + 1>>>>))

(* The end of a file is sent as an empty block.                            *)
ReadEnd ==
  /\ Reads /\ rj.confirmed /\ rj.pos >= Blocks[rj.file]
  /\ rj' = NextFile
  /\ toW' = Append(toW, Block(rj.file, <<>>))

ReadFails ==
  /\ Reads /\ rj.confirmed /\ rj.pos # Closed
  /\ rj' = NextFile
  /\ toW' = Append(toW, Error)

FinishJob ==
  /\ Reads /\ rj.file \notin Files
  /\ rj' = [rj EXCEPT !.live = FALSE]
  /\ toW' = Append(toW, Completion(rj))

(* confirm: a confirmation of another file is ignored.                     *)
MutOffsetOnly(r) ==
  IF r.offset > 0 THEN [rj EXCEPT !.confirmed = TRUE, !.skipped = FALSE, !.pos = r.offset] ELSE rj
Confirmed(r) ==
  [rj EXCEPT !.confirmed = TRUE, !.skipped = FALSE, !.pos = IF r.offset > 0 THEN r.offset ELSE @]

ReadConfirm ==
  /\ on /\ toR # <<>>
  /\ LET r == Head(toR) IN
     rj' = IF rj.file # r.f THEN rj
           ELSE IF r.skip THEN [NextFile EXCEPT !.skipped = TRUE] ELSE Confirmed(r)
  /\ toR' = Tail(toR)
  /\ UNCHANGED <<ver, disk, session, wj, toW, history>>

-----------------------------------------------------------------------------
(* The writing job and the loop around it.                                 *)

Writes == on /\ UNCHANGED <<ver, session, rj, chosen, toW, toR>>
Receives(t) ==
  /\ on /\ wj.at = "idle" /\ toW # <<>> /\ Head(toW).t = t
  /\ toW' = Tail(toW)

(* is_write_need_confirmation: the blocks already there, if the job        *)
(* resumes and they are of this version.                                   *)
MutAnyVersion(m) ==
  IF resume /\ dig[m.f] # 0 /\ down[m.f] # Absent THEN Len(down[m.f]) ELSE 0
Transferred(m) ==
  IF resume /\ dig[m.f] = m.v /\ down[m.f] # Absent THEN Len(down[m.f]) ELSE 0
NeedConfirm(m) == Transferred(m) > 0 \/ target[m.f] # Absent

(* confirm of the writing job.                                             *)
WriterConfirms(r) ==
  IF wj.file # r.f THEN wj
  ELSE IF r.skip THEN [wj EXCEPT !.file = @ + 1, !.open = FALSE]
  ELSE [wj EXCEPT !.open = @ \/ r.offset > 0]

(* The history of an answer: a resumed file continues its download, unless *)
(* the writing job is at another file and ignores the offset.              *)
Agreed(m, skip) ==
  LET resumes == Transferred(m) > 0
      astray == resumes /\ (wj.file # m.f \/ m.f \in stray)
  IN /\ stray' = IF ~skip /\ astray THEN stray \union {m.f} ELSE stray
     /\ chosen' = IF skip \/ astray THEN chosen ELSE [chosen EXCEPT ![m.f] = m.v]
     /\ left' = IF skip \/ astray \/ ~resumes THEN left ELSE left \ {m.f}

(* What the loop does with a digest.  Only a file that is there needs the  *)
(* user, who may skip it.                                                  *)
ReceiveDigest(skip, tell) ==
  LET m == Head(toW)
      r == [f |-> m.f, skip |-> skip, offset |-> Transferred(m)]
      w == IF tell \/ (~skip /\ r.offset > 0) THEN WriterConfirms(r) ELSE wj
  IN /\ Receives("digest") /\ (skip => NeedConfirm(m))
     /\ wj' = [w EXCEPT !.digest = m.v]
     /\ toR' = Append(toR, r)
     /\ Agreed(m, skip)
     /\ UNCHANGED <<ver, disk, session, rj>>

(* write: a block of another file, or the first one, opens a new file.     *)
Opens(m) == m.f # wj.file \/ ~wj.open
ReceiveBlock ==
  LET m == Head(toW) IN
  /\ Receives("block")
  /\ wj' = [wj EXCEPT !.f = m.f, !.c = m.c,
                      !.at = IF Opens(m) THEN "undigest" ELSE "data"]
  /\ UNCHANGED <<ver, disk, session, rj, toR, history>>

ReceiveDone ==
  /\ Receives("done")
  /\ wj' = [wj EXCEPT !.at = "undigest", !.ending = TRUE]
  /\ UNCHANGED <<ver, disk, session, rj, toR, history>>

ReceiveError ==
  /\ on /\ wj.at = "idle" /\ toW # <<>> /\ Head(toW) = Error
  /\ EndSession(wj.file)

(* modify_time of the job's current file: the digest goes, then the        *)
(* download takes the name of the target.                                  *)
RemoveDigest ==
  /\ Writes /\ wj.at = "undigest"
  /\ dig' = IF wj.file \in Files THEN [dig EXCEPT ![wj.file] = 0] ELSE dig
  /\ wj' = [wj EXCEPT !.at = "rename"]
  /\ UNCHANGED <<target, down, left, stray>>

Rename ==
  /\ Writes /\ wj.at = "rename"
  /\ IF wj.file \in Files /\ down[wj.file] # Absent
     THEN /\ target' = [target EXCEPT ![wj.file] = down[wj.file]]
          /\ down' = [down EXCEPT ![wj.file] = Absent]
     ELSE UNCHANGED <<target, down>>
  /\ wj' = [wj EXCEPT !.at = IF wj.ending THEN "over" ELSE "sync"]
  /\ UNCHANGED <<dig, left, stray>>

(* sync_all of the stream, after the rename.                               *)
MutNoSync ==
  /\ Writes /\ wj.at = "sync"
  /\ wj' = [wj EXCEPT !.at = "clear"]
  /\ UNCHANGED <<disk, left, stray>>

SyncAll ==
  /\ Writes /\ wj.at = "sync" /\ wj.late = <<>>
  /\ wj' = [wj EXCEPT !.at = "clear"]
  /\ UNCHANGED <<disk, left, stray>>

(* The block's file: its old digest goes, the download is created empty,   *)
(* the digest is saved.                                                    *)
ClearDigest ==
  /\ Writes /\ wj.at = "clear"
  /\ dig' = [dig EXCEPT ![wj.f] = 0]
  /\ wj' = [wj EXCEPT !.at = "create", !.file = wj.f]
  /\ UNCHANGED <<target, down, left, stray>>

MutOpened == [down EXCEPT ![wj.f] = IF @ = Absent THEN <<>> ELSE @]
Created == [down EXCEPT ![wj.f] = <<>>]
Create ==
  /\ Writes /\ wj.at = "create"
  /\ down' = Created
  /\ wj' = [wj EXCEPT !.at = "digest", !.open = TRUE, !.lost = @ \ {wj.f}]
  /\ LET fresh == {f \in {wj.f} : chosen[f] # 0} IN left' = left \ fresh /\ stray' = stray \ fresh
  /\ UNCHANGED <<target, dig>>

SaveDigest ==
  /\ Writes /\ wj.at = "digest"
  /\ dig' = [dig EXCEPT ![wj.f] = wj.digest]
  /\ wj' = [wj EXCEPT !.at = "data"]
  /\ UNCHANGED <<target, down, left, stray>>

(* write_all: an empty block is nothing to write.                          *)
WriteData ==
  /\ Writes /\ wj.at = "data"
  /\ wj.c # <<>> => wj.late = <<>> /\ wj.file \notin wj.lost
  /\ wj' = [wj EXCEPT !.at = "idle", !.c = <<>>, !.late = @ \o wj.c]
  /\ UNCHANGED <<disk, left, stray>>

(* The write before it failed, and the job is dropped.                     *)
WriteError ==
  /\ on /\ wj.at = "data" /\ wj.c # <<>> /\ wj.file \in wj.lost
  /\ EndSession(wj.file)

(* The thread of the runtime.                                              *)
DataLands ==
  /\ Writes /\ wj.late # <<>>
  /\ Landed
  /\ wj' = [wj EXCEPT !.late = <<>>]
  /\ UNCHANGED <<left, stray>>

DataFails ==
  /\ Writes /\ wj.late # <<>>
  /\ wj' = [wj EXCEPT !.late = <<>>, !.lost = @ \union {wj.file}]
  /\ UNCHANGED <<disk, left, stray>>

(* The job is removed.                                                     *)
JobOver == on /\ wj.at = "over" /\ EndSession(N + 1)

-----------------------------------------------------------------------------
Reader == OpenFile \/ OpenFails \/ ReadBlock \/ ReadEnd \/ ReadFails \/ FinishJob \/ ReadConfirm
Writer ==
  \/ \E skip, tell \in BOOLEAN : ReceiveDigest(skip, tell)
  \/ ReceiveBlock \/ ReceiveDone \/ ReceiveError \/ RemoveDigest \/ Rename
  \/ SyncAll \/ ClearDigest \/ Create \/ SaveDigest \/ WriteData \/ WriteError \/ JobOver
Runtime == DataLands \/ DataFails
Environment ==
  (\E r \in BOOLEAN : StartSession(r)) \/ Disconnect \/ \E f \in Files : SourceChanges(f)

Next == Reader \/ Writer \/ Runtime \/ Environment
Spec == Init /\ [][Next]_vars

(* The loops of both sides keep running, the user answers, and a write     *)
(* ends in one way or the other.                                           *)
FairSpec == Spec /\ WF_vars(Reader) /\ WF_vars(Writer) /\ WF_vars(Runtime)

-----------------------------------------------------------------------------
(* Properties.                                                             *)

(* Whatever ended the earlier sessions, a download with a digest beside it *)
(* is a prefix of the version the digest names, so a resumed job may       *)
(* append, as long as no offset of the file was ignored by the writer.     *)
PartialIsPrefix ==
  \A f \in Files \ stray : (dig[f] # 0 /\ down[f] # Absent) => IsPrefix(down[f], Full(f, dig[f]))

(* What file f holds once the block in the runtime's hand has landed, and  *)
(* whether it is the source's content: modify_time renames before sync_all *)
(* and the end of a job has no sync_all, so that a file may have its name  *)
(* before its last block, and never get the block if the write fails.      *)
IsWhole(f) ==
  \/ target[f] \o (IF f = wj.file THEN wj.late ELSE <<>>) = Full(f, chosen[f])
  \/ f \in wj.lost

(* When a job is over without an error, every file both jobs agreed on in  *)
(* its last session has exactly the content of its source, but for a block *)
(* of its last file that is in the runtime's hand or that was lost there.  *)
FinishedFilesAreComplete ==
  wj.at = "over" => \A f \in Files : chosen[f] # 0 => IsWhole(f)

(* A file gets its name only when all of it was written, that block apart, *)
(* and the user or the check let it be written, or when a left-over        *)
(* download of it is renamed.                                              *)
NamedWhenComplete ==
  \A f \in Files \ left : target'[f] # target[f] => (chosen[f] # 0 /\ IsWhole(f)')

(* A file under its own name is a whole file, when a job ends and when it  *)
(* is renamed, up to the one block in the runtime's hand.                  *)
NamedFilesAreWhole == [][NamedWhenComplete /\ FinishedFilesAreComplete']_vars

(* A connected job comes to an end.                                        *)
TransferEnds == on ~> ~on
=============================================================================
