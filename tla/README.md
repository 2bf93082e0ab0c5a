# TLA+ models of hbb_common

`hbb_common` is the library that both ends of a remote-desktop session share.
It carries video, audio, input, clipboard and files over QUIC (or over the older
TCP, WebSocket and WebRTC streams), keeps identities and configuration on disk,
and implements file-transfer jobs.  This directory holds TLA+ specifications of
its concurrent and stateful parts, TLC configurations that check them on small
instances, and TLAPS proofs of safety results for all values of the constants.

Paths below are relative to `src/src/`; `application.rs` is
`transport/application.rs`.

## The system and its parts

| Part | Source | Model | Proofs |
|---|---|---|---|
| Video sender: enqueue, `VideoSendRecovery`, `VideoOrderingGate`, `run_video_writer` | `application.rs` | `VideoSender` | `VideoSenderProofs` |
| Slot of pending frames, `TrackLatestSlot` | `application.rs` | `TrackLatestSlot`, refining `VideoSlot` | `TrackLatestSlotProofs` |
| Fragments, `VideoReassembler` | `transport/video_datagram.rs` | `VideoReassembler` | |
| Video receiver: holdback, receive recovery, delivery | `application.rs` | `VideoReceiver` | |
| Audio, `AudioJitterBuffer` | `transport/audio_datagram.rs` | `AudioJitterBuffer` | |
| Datagram admission, mouse movements | `transport/{datagram,input}.rs` | `Datagrams` | |
| Session negotiation | `transport/session.rs` | `SessionNegotiation` | `SessionNegotiationProofs` |
| Connection, authentication, establishment of a session | `transport/quic.rs`, `application.rs` | `SessionSetup`, extending `SessionNegotiation` | |
| Reliable channels, confirmed writes, teardown | `application.rs`, `transport/reliable.rs` | `ApplicationChannels` | |
| Bandwidth adaptation | `transport/adaptation.rs` | `BandwidthAdapter` | |
| Input, reconnect | `transport/{input,recovery}.rs` | `InputRecovery` | |
| Clipboard | `transport/clipboard.rs` | `Clipboard` | `ClipboardProofs` |
| File channel, rate limiter | `transport/file_transfer.rs` | `FileChannel` | |
| Split stream: outbound queue, owner, writer task | `stream.rs` | `OutboundQueue` | |
| TCP frames and their encryption | `tcp.rs`, `bytes_codec.rs` | `TcpFraming` | |
| WebRTC sessions | `webrtc.rs` | `WebRtcSessions` | `WebRtcSessionsProofs` |
| TLS fallback of WebSocket and HTTPS proxy connections | `tls.rs`, `websocket.rs`, `proxy.rs` | `TlsFallback` | |
| Mangled addresses | `lib.rs` (`AddrMangle`) | `AddrMangle` | |
| Transfer jobs, their files on disk, resume | `fs.rs` | `FileTransfer` | |
| Id, key pair, permanent password | `config.rs` (`Config`) | `ConfigIdentity` | `ConfigIdentityProofs` |
| Options, trusted devices, paired viewers | `config.rs` (`Config2`) | `ConfigLists` | |
| Peer configurations, address book | `config.rs` (`PeerConfig`, `Ab`) | `PeerConfigs` | `PeerConfigsProofs` |
| Local settings, user defaults | `config.rs` (`LocalConfig`, `UserDefaultConfig`) | `LocalSettings` | `LocalSettingsProofs` |
| TLS identity | `transport/identity.rs` | `TlsIdentity` | |
| Trusted peers | `transport/pairing.rs` | `PeerStore` | |

How they interact.  Two devices connect over QUIC, verify each other's
identities (`TlsIdentity`, `PeerStore`) and negotiate a session (`SessionSetup`);
the session then has reliable channels and datagrams.  The application enqueues
encoded frames and control messages.  A frame gets a transport id and the
current *ordering epoch* and enters the slot, at most one per track.  The writer
takes it, waits at the *gate* until the peer has acknowledged that epoch's
`SwitchDisplay`, stamps the *reference epoch* (the last keyframe it sent on that
stream) and sends it: keyframes on a reliable stream if both ends agreed on that,
everything else as datagrams, which compete with audio and mouse datagrams for one
buffer.  When a frame is lost before the wire, the track enters recovery: its
deltas are suppressed until a sufficiently new keyframe has left.  On the other
side fragments are reassembled; the *holdback* keeps a delta until the keyframe it
depends on has arrived on the stream; the receive recovery suppresses deltas whose
reference was lost and asks the peer for a keyframe.  On the older streams one
queue takes all outbound messages and one task writes them, over the frames of
`TcpFraming`.  File jobs use either kind of connection.

## Modules

One step of a model is one critical section, atomic operation or call of the
file system; tasks, threads and processes interleave between them, and anything
done under one lock is one step.

### Video, audio and datagrams

* **`VideoSender`**.  `enc` stands for the encoders (outside the library: they
  number frames per stream, restart with a new stream id, and make their next
  frame a keyframe when asked).  `enq` is the enqueue in progress: numbering and
  the first `suppress_delta` (`EnqueueFrame`), the slot (`OfferFrame`), the
  recovery of a refused frame (`LoseOffered`); for a `SwitchDisplay`, the new
  epoch (`SwitchDisplay`) and the queueing or cancellation (`SendSwitch`).
  `rec`/`refresh` is `VideoSendRecovery` with its bounded channel to the encoder;
  `requested`, `acked` are the atomics of the gate; `ctl`, `net`, `acks`,
  `peerEpoch` the control path to the peer and back.  The `writer` record is the
  program counter of `run_video_writer`, with every branch of its `select!`.
  `wire` and `cancelled` are history.  Any frame may be refused by the slot
  (`room`), which over-approximates the byte budget.  There is one enqueuing task,
  as in the application that owns the sender.
* **`TrackLatestSlot`** is the slot in full: retirement of older incarnations,
  byte budget, track limit, virtual-finish order with the credit a replaced frame
  keeps, `take` and `take_track`.  **`VideoSlot`** is what `VideoSender` assumes
  of it: one frame per track, one incarnation per display, no keyframe replaced
  by a delta.  `ImplementsSlot` is the refinement.
* **`VideoReassembler`**: `push` (expiry first, obsolete and repeated fragments,
  eviction at the limit of pending frames, memory limit, completion and the
  overtaking of older frames) and `expire`, with the drops each reports.
* **`VideoReceiver`**: both reader tasks under the delivery lock, the holdback with
  its reorder window, time-out, overflow and eviction of streams, the recovery per
  stream, the bounded inbound channel, the throttled and escalated requests.  The
  variable `session` is chosen initially: keyframes behind the barrier, on a
  stream without the barrier, or in datagrams; requests scoped to a stream or not.
* **`AudioJitterBuffer`**: `push` and `pop_ready` as the datagram reader calls them.
* **`Datagrams`**: three writers share quinn's send buffer through the mutex of
  `QuicDatagramSendCoordinator` (`gate`).  A writer looks at the free space, keeps
  the gate while it passes its datagrams on, and gives it up; the path's datagram
  size and the video budget change meanwhile.  A datagram that does not fit would
  evict the oldest (`evicted`).  The mouse slot and `MouseMovementReceiver` are at
  the two ends of a network that loses, repeats and reorders.

### Sessions

* **`SessionNegotiation`** has no state: `ValidOffer`, `Compatible`, `Negotiate`,
  `AgreementForOffer`, `ValidAcceptance` are the functions of `session.rs`, with
  capability flags and colours as sets and the six limits as one function.
* **`SessionSetup`** is both ends from `connect` to the last opened channel.  `conf`
  is what each end expects of the other, chosen initially with every mismatch;
  a signature is a record that names its signer and what it covers.  The
  connection may be lost and an end may give up at any point.
* **`ApplicationChannels`**: at each end a program and, for every channel, a writer
  and a reader task, with bounded queues and flow control between them.  An
  ordering is acknowledged by the control *reader* through its own control queue,
  and a program that waits for a confirmed write reads nothing: these two waits
  are what the module is about.
* **`BandwidthAdapter`**: `update` with its integer arithmetic.
* **`InputRecovery`**: the host's record of what is pressed (`ReliableInputReceiver`),
  its release when a connection ends, and the viewer's `ReconnectState`.
* **`Clipboard`**: the numbers of local texts, the last number seen of every origin
  up to a limit, permissions and `reset_remote_state`.
* **`FileChannel`**: announcement, chunks, resume from a kept hash state,
  cancellation, and `FileRateLimiter`; the hash of data is the data.
* **`WebRtcSessions`**: `WebRTCStream::new` in both roles, its three handlers as
  tasks of the library, `SESSIONS`, and callers that wait for the channel.
* **`TlsFallback`**: callers that connect to one host by WebSocket or to an HTTPS proxy.
  Each reads the two maps of `tls.rs` one after the other, tries one library after the
  other, with the certificate verified and, where the option allows it, not, and stores
  what worked, again in two steps; meanwhile `reset_tls_cache` clears the maps, and
  the option and the server change.
* **`AddrMangle`**: `try_into_v4`, `encode` and `decode`, computed as in the code.

### Streams and jobs

* **`OutboundQueue`**: the queue of `stream.rs` with reliable messages, barriers,
  latest snapshots per key and generation, and video within its budget; the owner
  (`DuplexStream`), which enqueues, waits for completions or abandons them, takes
  the error of a failed writer, closes or is dropped; and `run_stream_writer`, with
  the steps of `dequeue` around the `Notify` kept apart: registration (`Listen`),
  the look under the lock (`Pop`, `NothingToPop`), the await (`Await`, `Wake`).
* **`TcpFraming`**: one direction of a TCP stream.  Headers of one to four bytes are
  computed and parsed, a frame the header cannot express is refused by the sender and
  one beyond `MaxPacket` by the receiver; small frames pass a write buffer, which is
  flushed first once it holds `Boundary` bytes, and large ones go past it in chunks;
  sealing counts frames; a write passes its bytes on one by one, and a time-out drops
  the rest; either end may split its stream in the middle of a frame.  `gap` says that
  a time-out left the stream without part of a frame.  A byte has fewer values than
  256, which gives short frames all header formats.
* **`FileTransfer`**: the reading job (`handle_read_jobs`: open, digest, blocks, end of
  file as an empty block, errors, completion), the writing job and what it leaves on
  disk.  `write` and `modify_time` are split at every call of the file system
  (`RemoveDigest`, `Rename`, `SyncAll`, `ClearDigest`, `Create`, `SaveDigest`, `WriteData`),
  and a session may end between any two of them.  A tokio file takes a block and writes
  it in the background: the block is `late` until it lands (`DataLands`) or fails
  (`DataFails`), which the next call reports; a file may so have its name before its
  last block.  Content is a sequence of blocks tagged
  with the version of the source; a digest is that version.  The loop between jobs
  and connection belongs to the application.  It is modelled by what the library
  expects of it; whether it also tells the writing job of an answer that is not a
  resume is left open (`tell`), since the client and the connection manager differ.

### What a device keeps

* **`ConfigIdentity`**: threads of a process that may die.  Loading `CONFIG` with the
  migration of old password storages, `get_key_pair` with its cache, the file
  it reads outside the lock and its look at whether `CONFIG` is there (after which it
  stores through `CONFIG` or its own copy), `set_permanent_password`, the storage a service syncs
  (`SyncPassword`), `get_salt` and `set_salt`, `set_id`, `Config::set`.  A hash
  carries the salt it was made with.  `behind` says that the file does not know the
  last password: a store failed, or such a copy was stored after `CONFIG` had come.
* **`ConfigLists`**: `Config2`, whose two lists are sealed and have a decoded copy
  under a lock of its own; `set_option` and `set_options`, which clear the viewers.
* **`PeerConfigs`**: `PeerConfig` with sealed passwords, some of which look sealed
  already, under the id of the machine or the public key that stands in while the id
  cannot be had (`get_uuid`), and that `symmetric_crypt` falls back to; the address book,
  which is truncated and written in place, and which a load that cannot open it removes
  in a later step.
* **`LocalSettings`**: two layers around `LocalConfig` and `UserDefaultConfig`, and
  the copy that a process keeps of the latter for an interval.  A process stores its
  whole `LocalConfig`: `stale` and `lost` name the options of which a process, or the
  file, holds an earlier choice than the last one.  A change of `UserDefaultConfig`
  loads the file (`LoadDefault`) and stores it (`SetDefault`) without a lock, so that
  one of two changes may be lost.
* **`TlsIdentity`** and **`PeerStore`**: every operation on the file system is a step
  that may fail, and the process may die between two of them.  `Path::exists` takes a
  failure for a missing file; `blind` says that a call generated a pair for this reason.

Encoders, the peer's application, the network, quinn's buffer and the WebRTC
library are external: they are modelled by how the code uses them, and marked so
in the map of `PROJECT.json`.

## What the runs check

Some runs hold several components that share no state with each other.  Their
modules (`MCTransport`, `MCStores`, `MCProtocol`, `MCVideoSenderModes`) have a
variable `lane`, chosen initially and never changed, that says which component
moves; the others do nothing.  Such a run is the sum of the runs of its
components, not their composition: it says nothing of steps of two components in
one behaviour.  In `MCTransport` and `MCStores` the variables `v1`, `v2`, ... stand
for those of the component that moves.

| Run | What it shows |
|---|---|
| `sender` | Two modes: a track per codec incarnation with reliable keyframes and a `SwitchDisplay`; two displays on `Latest` keys with keyframes in datagrams that may be rejected.  `ReferencesAreSound`: a delta reaches the wire only directly after the frame it was encoded against, whatever was replaced, refused or rejected, and its epoch names its keyframe.  `FramesLeaveInOrder` |
| `sender_gate` | Three epochs, control queue of two, window of one.  `FramesWaitForTheirSwitch`; `WriterIsReleased`: no frame waits at the gate for ever, and teardown ends the writer |
| `receiver` | Three kinds of session with a restarting display, and the barrier with two displays that do not fit the holdback together.  `DeltaFollowsItsReference` at the decoder; `BarrierHolds`: no delta of an older keyframe after a newer one; `ReceiverIsSound`: it holds back no more than it must, stays in its bounds, and a suppressed stream has asked |
| `outbound` | Four messages of every kind, capacity three.  `BarriersOrder`: a snapshot stays on its side of a barrier; `QueueIsSound`: no lost wake-up, no answer of success for what was not written, video in its budget, nothing after a failed write; `NothingIsForgotten`: what was accepted is settled and a wait is answered, unless one write never ends; and the writer ends once its owner is gone |
| `files` | Files of one and two blocks, two versions, three sessions.  `PartialIsPrefix`: what a crash leaves may be appended to; `NamedFilesAreWhole`: a file gets its name, and a job ends, only when its blocks were written, all but one that the runtime still holds or has failed to write; `TransferEnds` |
| `protocol` | Establishment: `EndsAgree` on session, agreement, channels and identities; `SetupEnds`, with a session if the ends expect each other and nothing hinders them.  Channels: `ChannelsAreExact` (order, no gap, nothing lost), `ConfirmedWritesEnd` and `AcceptedArrives` (below).  Adaptation: `AdapterRecovers`, full targets on a path that stays good |
| `transport` | `SlotIsBounded` (exact byte account, bounded bypass), `ImplementsSlot`; `PendingIsSound`, `DeliveryIsSound` of fragments (frames come in order, and every one that is lost is reported); `PlayoutIsSound` of audio; `BufferIsShared` (video never starves audio or input, nothing accepted is evicted), `PointerNeverGoesBack`; `MessagesArriveWhole` over TCP (in order, unaltered, and the receiver fails only over a gap or a frame too long); `FinishedIsAnnounced`, `RateIsKept` of the file channel; `NothingStaysPressed` after a lost connection; `TextsComeInOrder` of the clipboard; `SessionsAreUsable` of WebRTC; `FallbackIsSound`: a call fails only if nothing it may use suits the server, and accepts an unverified certificate only where the option allowed it; `AddressesArrive` |
| `stores` | `PasswordVerifies`: the password set last, and no other, opens the device, also after a death unless the file was `behind`; `KeyPairIsStable`; `IdentityIsKept`: no silent replacement of the TLS identity; `UnpairedMeansGone`: an unpairing that succeeded leaves no alias; `FilesAreGenuine`: secrets are those given, sealed once, and no address book comes back that was stored before the last store began; `SettingsAreCurrent`: the last choice, in a process that is not `stale` and in a file that has not `lost` it, and defaults no older than the interval |
| `sender_cancel`, `sender_stall`, `receiver_wrong_display`, `config_lists` | *violations*, see Findings |

**Bounds.**  Queues and limits of one or two make every full-queue and eviction
branch reachable with few messages.  Four frames are enough for keyframe, lost
delta, suppressed delta and recovering keyframe, or for two incarnations with a
keyframe and a delta each.  Two incarnations exhibit every retirement; a third
would repeat it.  Three epochs let one be seen, one queued and one cancelled.
`MaxTime` is at least the longest deadline, so that every time-out both races and
precedes what it guards.  In `OutboundQueue` the generations are at least as many
as the capacity, as 2^64 are, and wrap around; two displays may wait, so `MaxTracks` is never exceeded.  In
`FileTransfer` three sessions are needed for two left-over downloads and a resume; one of
the two targets exists at the start (`Existing`).
In `ApplicationChannels` a behaviour chooses one of four uses of the streams (`Uses`
in `MCProtocol`), each small enough that queue, window and inbound queue all fill.
`ConfigIdentity` has two threads and four calls: a migration, a change and a race
for the salt fit into these.  `PeerStore` has three ids and two devices, starts from every
store that earlier pairings may have left, and has five calls; `PeerConfigs` two machines and the public key, and three calls, enough for two stores
that overlap around a load; `LocalSettings` two processes, three calls (two choices and
a restart) and times beyond the interval.  `TlsIdentity`
starts with no identity or with that of an earlier process, and has one caller, see Left
out.  `MCStores` treats its two threads or processes as interchangeable, and the keys of the
two machines too; it checks invariants only, and none of them tells these apart.  `TlsFallback` has a WebSocket and a proxy caller and one
host, since the maps keep hosts apart.  In `AddrMangle` a byte has two bits, so that
all ports and times are tried and the fields lie at the same multiples of a byte.

Deadlock is checked for `sender`, `sender_gate` and `outbound`.  In the other runs
calls, clock, frames or sessions run out, or a connection ends on an error, and the
system may then rest.

**Fairness.**
`VideoSender`: the writer, the rest of an enqueue that has begun, the control writer
and reader and the refresh task, each a task of the runtime whose awaited condition
stays true until it acts.  `PeerReads` is fair because a connected peer reads its
control stream; one that does not is detected by the idle time-out, which `Close`
covers.  Nothing is assumed of the encoder, of new enqueues or of `Close`.
`OutboundQueue`: the writer task runs and the owner finishes the calls it has begun.  A
write need not end: `into_duplex_with_context` sets no send time-out, and without one
the write is awaited without bound.  `FileTransfer`: both loops run, the runtime carries
out the writes it was handed, and the user answers; sessions need not start or end.  `SessionSetup`: an end that runs takes its
next step; loss and giving up need not happen.  `ApplicationChannels`: the runtime does
not stop while some task can move, and programs read unless they wait for a
confirmed write; sending and closing need not happen.  `BandwidthAdapter`: updates go
on, as the session makes one with every report of its statistics.

## Proofs

All hold for every value of the constants that satisfies the assumption named; the
bounds on calls, frames or time are among the constants.  The assumptions of
components that a run instantiates are operators (`SlotAssumption`,
`PeersAssumption`, `SettingsAssumption`, `IdentityAssumption`); they are hypotheses of
the theorems, and the `MC` modules assume them of the instances TLC checks.  Where
a run has lanes, its property is that of the component, restricted to the lane.

* **`VideoSenderProofs`** (`SenderAssumption`: numeric constants are naturals, at least
  one stream).  `TypeCorrect`; `TypeOK` is inductive because it includes that a task at
  work holds a real frame and that source ids run behind transport ids.
  `FramesWait`: `Spec => []FramesWaitForTheirSwitch`.  This is not inductive: that a frame
  leaves only after its switch was seen depends on how the epoch travels.
  `GateCorrect` proves the strengthening `GateIsHonest`: epochs rise along queue and
  stream and lie beyond the one the peer has seen, acknowledgements name seen epochs,
  the acknowledged epoch is seen or covered by a cancelled one, and a frame past the
  gate has an acknowledged epoch.
* **`TrackLatestSlotProofs`** (`SlotAssumption`).  `SlotIsImplemented`: `TrackLatestSlot`
  implements `VideoSlot`.  `BypassIsBounded`: a waiting track is passed over by at most
  two frames' worth of any other.  The invariant follows the virtual time at which a
  track began to wait, `Start(k)`, the finish of its frame less the size: virtual time
  lies between `Start(k)` and `Start(k) + MaxFrameBytes`, and what another track was given
  meanwhile is at most `MaxFrameBytes` more than what it has advanced since.
  That `take` has a smallest finish to choose is shown from well-foundedness.
* **`SessionNegotiationProofs`**.  `AgreementIsAccepted`: what `negotiate_session` makes of
  *any* two compatible offers passes the client's `validate_session_acceptance` and
  allows either end only what its own offer allows.  The run meets only the offers
  that `application_session_offer` makes.
* **`ClipboardProofs`**.  `ClipboardInOrder`: `TextsComeInOrder`.  The invariant adds that a
  text that was shown is covered by the number its origin is known by or, after a
  reset has forgotten that number, is older than every text that may still come.
* **`WebRtcSessionsProofs`**.  `UsableSessions`: `SessionsAreUsable`.  The invariant says what
  each connection (`ConnOK`), task (`TaskOK`) and entry of `SESSIONS` (`SessionOK`) may
  look like: an entry is of a described connection under that connection's own key,
  and a task goes on from a wait only when it was notified.
* **`ConfigIdentityProofs`** (`IdentityAssumption`: passwords and salts exist and differ
  from the markers).  `VerifiedPassword`: `PasswordVerifies`.  The invariant says that a hash
  goes with its salt in the file, in `CONFIG` and in every thread's copy; that the
  password set last is that of `CONFIG` once it is loaded, and before that of the file
  and of every copy that may still be written to it; that the file knows it unless it is
  `behind`; and that one thread loads.
* **`PeerConfigsProofs`** (`PeersAssumption`).  `GenuineFiles`: `FilesAreGenuine`.  The invariant:
  the passwords a peer was given are closed under what storing again may make of them,
  what a thread holds was in the files, and a store of the book that has not ended is not
  outdated, no two threads being at the same store, so that its write brings no old book
  back.
* **`LocalSettingsProofs`** (`SettingsAssumption`).  `CurrentSettings`: `SettingsAreCurrent`.
  The invariant is the property with, for the defaults: a copy is what the file was at
  the copy's time, and the file is what it is now.

Only model-checked: all liveness (outside what the prover supports); the byte accounts,
which are sums over sets or sequences and need induction (`BytesWithinBudget`,
`PendingIsSound`, `RateIsKept`); the reference chains of sender and receiver, `OutboundQueue`,
`FileTransfer`, `SessionSetup`, `ApplicationChannels`, `Datagrams`, `AudioJitterBuffer`,
`InputRecovery`, `FileChannel`, `TcpFraming`, `TlsIdentity`, `PeerStore`, `TlsFallback`,
`AddrMangle` (whose bitwise operators the prover does not know) and `KeyPairIsStable`.

## Findings

* `sender_cancel`: `cancel_epoch` raises the acknowledged epoch with `fetch_max`.
  When a later `SwitchDisplay` finds the control queue full, earlier ones still in
  that queue count as acknowledged, and frames overtake them.
* `sender_stall`: a delta suppressed after the refreshed keyframe was made raises
  `min_keyframe_id` past that keyframe; when the keyframe leaves, the track goes on
  waiting and no further refresh is requested.
* `receiver_wrong_display`: a keyframe request names the stream observed last, so
  with two displays the suppressed one can be left without a request.
* `config_lists`: `get_paired_viewers` publishes the list it decoded before the
  passphrase was changed, after that change has cleared it, and marks it valid.

Behaviours of the code that limit what passing runs state:

* `fs.rs`: a resumed job that meets the left-over download of a *second* file gets its
  size as the offset; the reader starts there, `confirm` of the writing job ignores the
  answer (it is still at the previous file) and `write` begins the file anew, without
  its first part.  Such files are in `stray`, which the properties leave out.
* `fs.rs`: `write` calls `modify_time` before it opens a job's first file, so an incomplete
  download left by an earlier session takes the target's name for a while, and for
  good if the user skips that file.  `NamedWhenComplete` leaves out the files in `left`.
* `application.rs`: a session can stop for ever in two ways, which `Jammed` names: a
  program that waits for a confirmed write while tasks wait for room in its own inbound
  queue, and two control readers that both wait for room for their acknowledgements.
  `ConfirmedWritesEnd` and `AcceptedArrives` say that there is no third.
* `webrtc.rs`: a connection that ends before `new` has stored it stays in `SESSIONS`, since
  its handler has already run.  `EndedSessionsLeave` leaves these out (`early`).
* `config.rs`: `Config::set` and a store that fails may leave callers with different key
  pairs; `KeyPairIsStable` ends there (`torn`).
* `config.rs`: a thread of `get_key_pair` that found `CONFIG` not yet loaded may store its
  copy of the file after `CONFIG` was loaded, changed and stored; the change is then in
  memory only (`behind`).
* `config.rs`: `Ab::load` removes the file it could not open, also one that another thread
  has stored since, and a book sealed under the machine's id when that id cannot be had.
* `config.rs`: a process that stores its `LocalConfig` undoes what another one chose since
  the first was started (`lost`).
* `identity.rs`: a key pair is generated when looks at both files fail (`blind`).
* `tls.rs`: two calls that store at once can leave the library of one beside the certificate
  decision of the other, and a cached library is the only one tried until a reset.  The
  HTTPS proxy tries native-tls without verification only if that was cached.  What a call
  may use is `Usable`; `ReachableIsReached` is about that.

## Left out

In the modelled parts: byte layouts other than the TCP header, statistics and logging,
malformed headers from a faulty peer, two concurrent calls of `enqueue`, source files
that change while they are read (`FileTransfer`), several jobs at once, printer and
memory jobs, the option tables of a peer and the replacement of the device's key pair
(`PeerConfigs`), plain fields that a setter assigns under the lock.  Two concurrent
*first* calls of `load_or_create`: nothing in `identity.rs` prevents them from
overwriting each other, and its callers are outside this repository.  The composition
of sender, network and receiver in one state space, and with it a keyframe request that
finds the control queue full: each of the two alone has over a million states.

Not modelled at all:

* transport configuration and statistics: values read from the environment, counters;
* UDP and socket clients, TLS verification, the messages of a WebSocket, the SOCKS and
  HTTP CONNECT exchanges of a proxy: calls of external libraries, or one exchange
  without state that outlives it;
* fingerprint, compression, memory, keyboard and library helpers: sequential calls of
  external code;
* platform code: calls of operating-system services and subprocesses;
* protocol buffer messages: generated code.
