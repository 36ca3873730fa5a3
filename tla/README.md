# RustDesk-Enhanced: a TLA+ model of the engine

This directory models RustDesk-Enhanced: `crates/rd-engine`, the Rust engine
(host, viewer, sessions, wire, producers and decoders), the OpenHarmony library
`native/ohos_har` that drives it, and the parts of `libs/hbb_common` it stands
on. TLC checks every model on small instances; TLAPS proves the central safety
results for every value of the constants.

`E/` below stands for `src/crates/rd-engine/src/`, `L/` for
`src/libs/hbb_common/src/`, `H/` for `src/native/ohos_har/src/`.

## 1. Inventory of the system

| Component | Source | State | Hard behaviour | What makes it correct |
|---|---|---|---|---|
| Host authentication machine | `E/authentication.rs` | state, latched request, grant, evidence | retries, pipelined requests, providers that answer as they like | authorized only on the factors the policy asks for; the grant is bounded; the identity approved is the identity served |
| Authentication sessions | `E/session.rs` | both peers' states, the wire, permissions, the approval notification | answers written in several records, broken wires, decisions made while a record is dispatched | the two ends agree when quiet; nothing is published before it is granted; no decision is lost |
| Host service | `E/host.rs` | serve task, epoch, grant slot, notification permit, two peer tasks, publisher, join handle | stale clicks, permits left over, cancellation at any await, panics, abandoned close | only approved peers are served; one at a time and reclaimed before the next; close tells the truth |
| Windows host program | `E/bin/rd-engine-windows-host.rs` | the turn's snapshot, requests shown, typed lines | snapshots and lines older than the host | a peer served was shown; the program ends with its host |
| Viewer service | `E/viewer.rs` | run task, login dialogue, receive/write/feed tasks, semaphores, channels, decoder ownership, geometry, result | display switches with records queued, a decoder failing while it opens or closes, three results for one answer, revocation with input queued | the surface is given back only when nothing native can use it; geometry catches up; revoked input stops; cancel finishes |
| OpenHarmony decoder | `E/platform/ohos_decoder.rs` | packets, events, buffers, credits, counters, worker, native object, callback context | four threads, callbacks inside SDK calls, Destroy that fails | units conserved; no callback on freed memory; no lost wake-up; close ends |
| OpenHarmony publisher | `E/platform/ohos_publisher.rs` | consent, refresh latch, queue, credits, native buffers, worker, encoder, capture | consent that ends with a frame in hand, a lagging consumer, teardown that fails | nothing leaves without consent; no picture skipped; credits exact; teardown in order |
| OpenHarmony bridge | `H/lib.rs`, `H/host_bridge.rs` | registry of viewers and hosts, surfaces, owner gates, quarantine latch | several owners, a close that cannot prove what it freed | a surface has one decoder; the gates count what lives |
| OpenHarmony sessions | `H/session_compat.rs` | registry, deferred lease, event cursors, settings, telemetry | session_start outside its lock, settings against starts, polls that miss a phase | no stray backend; a closed backend ends; settings reported are settings told |
| Flutter sessions | `E/flutter_session.rs`, `E/flutter_surface.rs`, `E/flutter_ffi.rs` | session, streams, pumps | several pumps for one session, streams replaced, removal while a pump runs | a stream hears of the close |
| Rendezvous | `E/rendezvous.rs` | dial task, three wires, one deadline | late and repeated answers, refresh, relay fallback | what is established is the peer that was asked for; the dial ends |
| Handshake, transport | `E/handshake.rs`, `E/transport.rs`, `L/tcp.rs`, `L/bytes_codec.rs` | keys, retained record, nonces, limits | a Hash in the place of the identity, cancelled writes, ends that split at different moments | no downgrade of a pinned host, no record misread or lost, a blocked writer released |
| VNC client | `E/vnc/{mod,live,protocol}.rs` | socket, reader thread, framebuffer, flags | reader in a blocking read, close from another thread | no silent downgrade, whole pictures, close ends |
| Windows producer | `E/platform/windows_*publisher.rs`, `windows_native.rs` | worker, queue, capture, encoder, leases, quarantine | every release may fail, keyframes against thinned frames | textures outlive their use; Ok means reclaimed; pace and keyframes |
| Bitrate | `E/bitrate.rs`, `E/platform/windows_bitrate.rs` | rate, two windows | raise and lower close together | no pulse |
| Colour | `E/media_color.rs`, Windows producer | format and meaning of desktop, encoder, unit | desktop changes between steps | a unit says what the desktop meant |
| Input | `E/input.rs`, `E/flutter_input.rs`, `E/platform/windows_input.rs` | queues, held keys | full queues, two orders | nothing stays pressed; modifiers before clicks |
| File transfers | `L/fs.rs` | read and write jobs, files and their .download and .digest | reconnect and resume, sources that change while they are read, disk calls that fail in silence | a digest vouches for what is on disk; what was sent whole is in its place |
| Configuration | `L/config.rs`, `L/password_security.rs`, `L/config/permanent_password.rs` | files, keys, salt, ID | crashes between making and writing, a missing key | a restart finds the same identity and password |
| TLS fallback, WebRTC | `L/{tls,websocket,proxy,verifier,webrtc}.rs` | caches, connections | entries that outlive an option, callbacks of a connection already replaced | strict stays strict; waiters wake |

How the parts interact. `Host` accepts a socket, `HostSession` drives the
handshake and `HostAuthentication` over it; the user interface decides through
`Host::approve`, which writes `LocalGrant` under a lock and then leaves one
notification permit. An authenticated peer is served by two tasks that share a
bounded channel and a child cancellation token; the sender owns the publisher.
On the other side `Viewer` runs one task that authenticates and then spawns a
receiver, a writer and a feeder; the feeder alone owns the native decoder and
hands access units to its worker thread under backpressure. The frontends keep
registries of viewers and see them only through snapshots, the send calls and
`close`; a surface reaches a decoder through a lease that may be bound late.

## 2. Modules

| Module | Models | Relation |
|---|---|---|
| `HostAuthentication` | `HostAuthentication` of `authentication.rs` | base |
| `AuthPeers` | `HostSession`, `ViewerSession`, the wire, the user | extends `HostAuthentication` |
| `Host` | `serve`, `authenticate`, `peer`, `read_peer`, `publish`, `approve`, `close` | sees the session through the events it returns |
| `HostConsole` | the Windows host program | extends `Host` |
| `ViewerMedia` | `run`, `receive`, `write`, `feed`, `close_decoder`, `finish`, `close` | sees the decoder through the results of open, submit and close |
| `ViewerInput` | the `send_*` calls, `write`, permissions, options, clipboard | stands alone |
| `ViewerLogin` | `authenticate` and the life of a viewer as a frontend sees it | extended by the two registries |
| `OhosSession`, `FlutterSession` | the session registries of the two frontends | extend `ViewerLogin` |
| `SessionSettings` | the settings calls of `session_compat.rs`, through backend, viewer and peer | stands alone |
| `OhosDecoder` | `engine::Shared`, worker, callbacks, a feeder | stands alone |
| `OhosPublisher` | `State`, worker, callbacks, consumer, holder | stands alone |
| `SurfaceOwnership` | what the bridge promises: a surface is held by one decoder | abstract |
| `OhosBridge` | the registry, the owner gates and the quarantine latch | implements `SurfaceOwnership` (`INSTANCE ... WITH`) |
| `Rendezvous` | `connect_viewer`, `discover_peer`, `AddrMangle` | stands alone |
| `SecureWire` | handshake, split, nonces of two ends | stands alone |
| `VncClient` | handshake, reader thread, calls | stands alone |
| `Framing` | `BytesCodec`, byte by byte | stands alone |
| `WindowsProducer`, `WindowsBitrate`, `MediaColor` | the Windows producer | stand alone |
| `InputPath` | a key or pointer event from the frontend call to its injection | stands alone |
| `FileTransfer`, `ConfigStore`, `LocalStore`, `TlsFallback`, `WebRtc` | the shared library; `LocalStore` also the identity of the Windows host | stand alone |
| `MCAuth`, `MCOhos`, `MCViewer`, `MCConnect`, `MCDevice`, `MCCommon`, `MCFrontends` | instances for TLC | extend what they run |
| `HostAuthentication_proofs` | who is authorized, to what, and what a retry may not change; that the two ends of a session agree, and that a session implements the machine's specification | extends `MCAuth`, and through it `HostAuthentication` and `AuthPeers` |
| `HostConsole_proofs` | who is served, and what the host says of itself | extends `HostConsole` and, through it, `Host` |
| `OhosBridge_proofs` | the owners and their gates, that they implement `SurfaceOwnership`, and the sessions of both bridges | extends `OhosBridge` and `MCFrontends`, whose `Spec` the theorem of the sessions is stated of |
| `OhosNative_proofs` | the decoder's accounting, and what its threads rely on; the publisher's teardown, consent, credits and stream | extends `OhosDecoder` and `OhosPublisher` |
| `Common_proofs` | the certificate policy of a connect; the identity and the password of a device over restarts; the files a transfer leaves; the frames and the WebRTC streams | extends `MCCommon`, and through it `TlsFallback`, `ConfigStore`, `FileTransfer`, `Framing` and `WebRtc` |
| `Viewer_proofs` | what a viewer still sends after a revocation or a close; its feeder, its decoder and the end of a session | extends `ViewerInput` and `ViewerMedia` |
| `Device_proofs` | the Windows producer, its bitrate and the telemetry; colours, settings, input and files | extends `MCDevice`, whose `Spec` all but the first of its theorems are stated of |
| `Connect_proofs` | the keyed wire, the dial and the VNC session | extends `MCConnect`, and through it `SecureWire`, `Rendezvous` and `VncClient` |

Conventions. A variable has the name of the field it models where there is one
and no other module of its run uses that name; a history variable is marked
where it is declared. A definition under `\* mutant` (or whose line ends so) is
a deliberately wrong variant of the definition that follows it and is used by
no specification: it shows that the property it is paired with notices that
mistake.

**Sums.** Components that share no state are checked together: the `MC` module
extends them, adds a variable `part`, and a behaviour moves one part and leaves
the others as they start. The states of the run are the disjoint union of the
parts' states, nothing of a part is cut off, and an invariant of a part is
checked on all of them. Fairness is the part's own, conjoined with
`part = ...` inside each action. `AuthPeers` on `HostAuthentication`,
`HostConsole` on `Host`, and the registries on `ViewerLogin` are compositions
proper: their steps move both.

**HostAuthentication, AuthPeers.** `answer` is the `AuthAction` returned and
`basis` a history of the evidence. A password is empty, wrong or right. Each
record written is a step: `outbox` holds the rest of the answer, so the wire can
break between two permission reports. The host looks at the notification and the
wire only with the outbox empty, as the `biased` select does.

**Host, HostConsole.** `serve`'s loop, the authentication events, the two tasks
and the user are separate processes. `approve` is two steps, the decision and
the notification. The publisher has every outcome its signatures allow and the
sender may panic. `close()` may be abandoned between taking the join handle and
awaiting it. The program reads the snapshot once per turn; lines may have waited.

**OhosDecoder, OhosPublisher.** Every critical section is a step; an SDK call
that can run callbacks is split around the call. Codec, encoder and capture are
external and announce what they own at any time. Access units are their sizes.

**ViewerMedia, ViewerInput, ViewerLogin.** A contract is a codec with a
geometry, a record a contract and a number of units. The decoder may fail at any
time, close with an older error, fail to be destroyed or unwind. A message is
its kind. The login dialogue has its queue of commands and the receives a
command drops half way.

**OhosBridge.** An entry is a viewer or a host with its native owner; gates and
latch are process wide. `SurfaceOwnership` has three actions (take, give back,
lose for good); the refinement mapping reads `held` and `lost` off the entries.

**Rendezvous.** hbbs, the peer and the relay answer when and with what they
like; honest ones are told apart. Time passes in ticks against one deadline.
`Encode` and `Decode` of addresses work on fields of a few bits with the code's
carries. **SecureWire.** A record carries the nonce it was sealed under; a send
consumes the nonce first and writes later, in part or not at all. **VncClient.**
The screen is a few cells with counters of their changes; the reader paints,
publishes and loses its buffer as `take_buffer` does.

**WindowsProducer.** Native objects are a record of capture, encoder, lease and
loan; releases return the set of outcomes they may have. **InputPath.** A
keyboard of a few classes of keys through every frontend call, both queues and
both kinds of peer. **SessionSettings.** One session, its backend, viewer,
channel and what the peer was told.

**FileTransfer.** One directory of files with versions, a reader and a writer,
and connections that break. Sources change at any time, also between the digest
and the last block. Every call on a file may fail, and the model goes on as
`fs.rs` does: `write` that fails while it turns to the next file leaves
`file_num` and `data_stream` apart (`WriteFails`), so that the next block lands
in the file before it; a rename, a reopening or the writing of a digest that
fails is passed over; the process may end after any call of `write`
(`StopsInWrite`). The history variable `trouble` records which files a failure
may have harmed. A digest (seconds and size) is taken for the version of its
file, a process that ends loses nothing that was written, and what the caller
does with an `Err` of `write` is external: the job goes on. **ConfigStore.** A stored secret is the list of
seals around it; processes start with or without the machine's UID and die at
any step. **LocalStore.** Two bridge calls of load, modify and store against
one peer file; the client's options in their layers; the identity file.
**TlsFallback**, **WebRtc**, **Framing**: connections against two caches written
under two locks; callbacks of an old connection against its successor; a stream
cut at any byte.


## 3. Runs

Every run has `CHECK_DEADLOCK FALSE`, because each of these parts really may
stop: a closed session, a finished dial, a program that ended and a user who
makes no more calls leave nothing to do. What must not stop is stated as a
liveness property instead.

| Run | Asks | Bounds and why they are enough |
|---|---|---|
| `auth` | who may be authorized, to what, and whether the two ends agree | every policy with and without a second factor, two features with a ceiling of one or both, two viewer identities, `MaxSends = 3` logins: the first, a wrong retry and one behind it in flight |
| `host` | whether the host, driven by a bridge or by the console program, serves only who was shown, reclaims before the next and tells the truth when closed | `MaxRequests = 2` peers (the decision for one can be stale for the next), one line typed early, `MaxEvents = 2` authentication events per attempt, a control channel of one |
| `ohos_safety` | whether the threads of a decoder or a publisher corrupt each other's queues, credits and buffers | quotas of 2 units and 2 (3) bytes, 1 buffer each way for the decoder and 1 output of the encoder, 2 callbacks posted at a time, 3 announcements by the encoder, 2 refresh requests (the second can come while the first is passed on), one signal: each of the queues can be empty, full and one short of it, and the one buffer comes back while its last use is under way |
| `ohos_liveness` | whether consent, teardown and close end as they must when any native call fails | quotas of one, so that full comes at once; both error kinds; 2 signals, no refresh request |
| `viewer` | whether a display switch, a failing decoder, a revocation or a close leave the viewer's tasks in order | 2 geometries, 2 switches (there and back) and 2 records, 3 messages of them in all, 2 slots but credit for a single unit, so that the credit runs out while a slot is free; 2 calls over a channel of 2, one clipboard slot and 2 texts, one permission report |
| `connect` | whether a dial, a keyed wire and a VNC session are what was asked for | addresses of 4+2 bits with the boundary stamps, deadlines of 0, 2 and 7 ticks, 2 answers in flight; 4 records, 3 in flight; 2 cells of a screen, one change each |
| `device` | the Windows producer, bitrate, colour, input, settings, native owners and files of one device | per part, see the cfg: 3 faults in a producer of 2 units, 9 frames with windows of 2 and 4, a keyboard of a few classes, 2 surfaces and owners of each kind with 3 entries, 3 boots |
| `common` | the shared library | frame lengths on both sides of every header size, 2 tasks for one key, 2 callers with a fallback each, files of 2 and 1 blocks in 2 versions, 2 attempts and one step in which a call on a file fails, 3 starts of a process and 3 keys |
| `frontends` | the two session registries | 2 viewers, 2 concurrent starts, 2 streams of one session |
| `viewer_input_revocation`, `ohos_publisher_refresh`, `vnc_picture` | one statement each that the code does not keep, see 5 | |

All parts are explored to exhaustion within these bounds. A bound always
limits the environment (how often a user calls, a peer sends, a call fails),
never the steps the program takes in answer.

## 4. Fairness

Weak fairness is stated of what a thread or task does by itself when it is
scheduled, never of the user, the peer, the network or a native library that
may stay silent.

- **AuthPeers**: the host's receive, poll and send steps and the user's
  notification after a decision: one tokio task and one call that runs on.
- **HostConsole**: the steps of `serve` and of the tasks it joins, and the
  turns of the console's loop. Strong fairness of `Sleeps`: no operator types
  faster than the loop reads, so the channel is found empty at last.
- **OhosDecoder, OhosPublisher**: the worker thread, a callback that has begun,
  the feeder or consumer while it waits, and the return of `open` and `close`.
  A callback that has not begun is up to the codec and has none.
- **ViewerMedia**: the main task, receiver, writer, feeder, the blocking worker
  of `close_decoder`. A read from the wire has none.
- **Rendezvous**: the clock, the deadline, and the task when it has something
  to do. Servers and peers have none, so the properties hold for silent ones.
- **SecureWire**: `SendReleased`, a blocked write observes the closing of its
  socket. **VncClient**: `ReaderSteps` once its read returns, and `CloseShuts`;
  `VncStreamSpec`, for the violation run only, adds a server that answers what
  it was asked and a frontend that takes pictures, so the counterexample is not
  one of a peer that stopped.
- **WindowsProducer**: the worker thread and the join of `close`.
- **Framing, WebRtc**: delivery and decoding, the end callback and the wake-up
  of each task.
- **FileTransfer**: the timer that calls `handle_read_jobs`, and each end taking
  what has arrived; a program answers a digest at once when there is nothing to
  ask. The user has no fairness: a job whose overwrite prompt is never answered
  waits for good (`fs.rs:1084`, `1370`), and `JobEnds` says that this is the one
  way in which it does not end. Files end because a read returns the end of the
  file at last.
- **ViewerLogin, OhosSession, FlutterSession**: the viewer's task once it is
  cancelled or answered, a start that has begun, and each pump's timer.

In a sum the fairness is of `part = ... /\ step`, which is the part's own
fairness on the behaviours that move that part.

## 5. Where code and comments differ

Three runs expect a violation.

- `viewer_input_revocation`: `viewer.rs:983` says of a control message that
  "input revocation is rechecked at write time, so a queued message can never
  outlive a permission change". `write` rechecks the mouse channel only; TLC
  shows keys that were queued before the revocation written after it.
- `ohos_publisher_refresh`: `ohos_publisher.rs:284` says that a refresh is
  latched until capture has started. The worker of a running capture can go to
  sleep with one latched, when it was asked for while the worker passed an
  earlier one to the encoder (`ohos_publisher.rs:1302`).
- `vnc_picture`: `session_compat.rs:1979` says that a VNC server pushes updates
  on its own and that the reader keeps a continuous stream. The engine asks for
  one update (`vnc/live.rs:145`) and the reader for none, so after the first
  answer the picture stands still.

Read off the sources, with no run of their own:

- `HostOptions::input_injection` says that every inbound input message is
  dropped when it is off; `read_peer` ends the session (`host.rs:693`).
- `flutter_session.rs:517` says that its load, modify and store keep the other
  settings of the peer intact; two overlapping calls lose one of two updates.
  `LocalStore` models both steps, and `SettingsAreKept` claims what holds.
- `fs.rs:858`: a file that cannot be opened while overwriting is being detected
  ends the whole job, where the other paths skip one file.
- `fs.rs:775`: `write` advances `file_num` before three calls that may return
  `Err` (780, 796, 799), and keeps the stream of the file before. A caller that
  goes on writes the next block of the new file into the file that has just
  been put in its place; nothing in `src/` says what a caller has to do.
- `fs.rs:718` and `fs.rs:1126`-`1148`: a rename or a reopening that fails is
  passed over, and the job reports Done all the same.
- `fs.rs:1470` offers an offset for any file of a resumed job; the writing job
  ignores it unless it is for its `file_num`, the reading job goes to it
  (`1157`), and the blocks before it are never sent.
- `webrtc.rs:306`: a connection that ends removes its key from `SESSIONS` also
  when the key has a successor by then, and `close()` is awaited with `SESSIONS`
  locked (`365`), which blocks for good if the crate runs the state handler
  inside it. `WebRtc` models both. The first costs the successor its place in
  the cache only, so that no promise is broken by it.
- `session_compat.rs:422`: a poll must meet the phase "authenticated" itself to
  report it; a session that passes through between two polls reports less.
- The module comment of `H/lib.rs` says that the registry excludes overlapping
  sessions on one surface; sessions of `session_compat.rs` are not excluded by
  it. `OhosBridge` models the registry's own entries.
- A VNC `DesktopSize` never updates the width and height that were negotiated,
  and the middle button is sent as a turn of the wheel
  (`session_backend.rs:139` against `:366`).

## 6. Mutants

Each property of a passing run is paired in `PROJECT.json` with a wrong variant
of a definition it depends on, of the kind a slip in the code would be, that
TLC finds with that run's own configuration. The conjuncts of the properties
have further variants, which the modules define as well:

| Run | Property | Definition | Wrong variant |
|---|---|---|---|
| `auth` | `PeersAgree` | `AuthPeers!HostSends` | `HostSendsKeepingPermissions` |
| `auth` | `PeersAgree` | `HostAuthentication!AfterPrimary` | `AfterPrimaryAnnouncingSuccess` |
| `host` | `HostIsTruthful` | `Host!CloseReturns` | `CloseReturnsUnchecked` |
| `host` | `ProgramEnds` | `Host!ServeStops` | `ServeStopsOnErrorOnly` |
| `ohos_safety` | `DecoderIsSound` | `OhosDecoder!WorkerPush` | `WorkerPushKeepingIndex` |
| `ohos_safety` | `DecoderIsSound` | `OhosDecoder!Submitted` | `SubmittedSilently` |
| `ohos_safety` | `PublisherIsSound` | `OhosPublisher!Clear` | `ClearZeroingCounters` |
| `ohos_safety` | `PublisherIsSound` | `OhosPublisher!PumpAdmit` | `AdmitThinning` |
| `ohos_safety` | `PublisherIsSound` | `OhosPublisher!PumpPublish` | `PublishKeepingPending` |
| `ohos_safety` | `PublisherIsSound` | `OhosPublisher!Free` | `FreeKeepingIndex` |
| `ohos_safety` | `PublisherIsSound` | `OhosPublisher!UnitDropped` | `UnitDroppedSilently` |
| `ohos_liveness` | `NativeWorkEnds` | `OhosPublisher!NotifyChanged` | `NotifyPolledOnly` |
| `ohos_liveness` | `NativeWorkEnds` | `OhosPublisher!RequestsClose` | `RequestsCloseSilently` |
| `viewer` | `DecoderIsHandled` | `ViewerMedia!MainJoins` | `MainJoinsFirstErrorOnly` |
| `viewer` | `DecoderIsHandled` | `ViewerMedia!DecoderSettles` | `DecoderSettlesKeepingObserver` |
| `viewer` | `DecoderIsHandled` | `ViewerMedia!FeederTakes` | `FeederTakesKeepingDecoder` |
| `viewer` | `InputStops` | `ViewerInput!WriterSends` | `WriterSendsAndContinues` |
| `viewer` | `CancelEnds` | `ViewerMedia!MainNotifies` | `MainNotifiesPolledOnly` |
| `connect` | `DialIsRobust` | `Rendezvous!PunchBudget` | `PunchBudgetWhole` |
| `connect` | `DialIsRobust` | `Rendezvous!Decodable` | `DecodableWideMask` |
| `connect` | `WireIsFaithful` | `SecureWire!Prefetched` | `PrefetchedDiscarded` |
| `connect` | `WireIsFaithful` | `SecureWire!Refuses` | `RefusesAtSignature` |
| `connect` | `WireIsFaithful` | `SecureWire!SendCancelled` | `SendCancelledKeepingWire` |
| `connect` | `VncIsSound` | `VncClient!FailureUnlessClosed` | `FailureAlways` |
| `connect` | `VncIsSound` | `VncClient!RefreshRequest` | `RefreshRequestIncremental` |
| `connect` | `WaitsAreBounded` | `SecureWire!SendReleased` | `SendReleasedByDeadlineOnly` |
| `connect` | `WaitsAreBounded` | `VncClient!CloseNeedsNoLock` | `CloseLocksSession` |
| `device` | `NativeIsReclaimed` | `WindowsProducer!AnswersOk` | `AnswersOkAlways` |
| `device` | `NativeIsReclaimed` | `WindowsProducer!NotifySpace` | `NotifySpaceNot` |
| `device` | `NativeIsReclaimed` | `WindowsProducer!PipelineClose` | `PipelineCloseCaptureFirst` |
| `device` | `InputIsFaithful` | `InputPath!MouseTurn` | `MouseTurnAny` |
| `device` | `InputIsFaithful` | `InputPath!VncKeystroke` | `VncKeystrokeHeld` |
| `device` | `SettingsAreTold` | `SessionSettings!SetViewOnly` | `SetViewOnlyAnyTime` |
| `device` | `OwnersAreExact` | `OhosBridge!ReleasedWhenProven` | `ReleasedWhenDone` |
| `device` | `StoreIsFaithful` | `LocalStore!Modified` | `ModifiedAnew` |
| `device` | `StoreIsFaithful` | `LocalStore!CreateIdentity` | `CreateIdentityAnnounced` |
| `device` | `StreamIsSteady` | `WindowsProducer!Forces` | `ForceAfterRequest` |
| `device` | `StreamIsSteady` | `WindowsProducer!NextDue` | `NextDueSameSlot` |
| `common` | `StreamsAreExact` | `WebRtc!Key` | `KeyOfLocalIsEmpty` |
| `common` | `StreamsAreExact` | `WebRtc!OnOpen` | `OnOpenAnyTime` |
| `common` | `StreamsAreExact` | `Framing!decode_head` | `decode_head_early` |
| `common` | `TransferIsFaithful` | `FileTransfer!Created` | `CreatedAppending` |
| `common` | `ConfigSurvives` | `ConfigStore!SetSalt` | `SetSaltUnguarded` |
| `common` | `WaitsEnd` | `Framing!Enough` | `EnoughAndMore` |
| `common` | `WaitsEnd` | `WebRtc!OnEnded` | `OnEndedSilently` |
| `frontends` | `SessionsAreKept` | `OhosSession!PasswordDue` | `PasswordDueOnChange` |


## 7. Proofs

TLC checks one instance, TLAPS proves the theorem for every value of the
constants, from the named assumptions of the module that declares them
(`ASSUME`, a few per module: bounds are natural numbers, quotas and
intervals are not zero, the values that stand for "none" lie outside the sets
they stand apart from) and from nothing else. `PROJECT.json` lists the theorems;
the lemmas they rest on are in the same modules.

| Theorem | States | Inductive invariant |
|---|---|---|
| `AuthTypeCorrect` | `AuthSpec => []AuthTypeOK` | `AuthInv` |
| `AuthorizationTheorem` | `AuthSpec => []AuthorizedIsEarned` | `AuthInv` |
| `GrantTheorem` | `AuthSpec => []GrantIsBounded` | `AuthInv` |
| `AgreementTheorem` | `Spec => []PeersAgree` of `MCAuth` | `PeersInv` |
| `ConversationTheorem` | `PeersSpec => []` the three parts of `PeersAgree` | `PeersInv` |
| `SessionRefines` | `PeersSpec => AuthSpec` (refinement) | none needed |
| `LatchTheorem` | `AuthSpec => IdentityIsLatched` (action property) | none needed, `LatchedStep` |
| `ServedTheorem` | `ConsoleSpec => []ServedWasShown` | `ConsoleInv` |
| `TruthfulTheorem` | `ConsoleSpec => []HostIsTruthful` | `ConsoleInv` |
| `OwnersTheorem` | `BridgeSpec => []OwnersAreExact` | `BridgeInv` |
| `OwnershipTheorem` | `BridgeSpec => OwnershipIsKept` (refinement) | `BridgeInv` |
| `SessionsTheorem` | `Spec => []SessionsAreKept` of `MCFrontends` | `FrontInv` |
| `ConservationTheorem` | `DecoderSpec => []UnitsAreConserved` | `UnitsInv` |
| `SoundTheorem` | `DecoderSpec => []DecoderIsSound` | `SoundInv` |
| `TeardownTheorem` | `PublisherSpec => []TeardownIsOrdered` | `StageInv` |
| `ConsentTheorem` | `PublisherSpec => ContentNeedsConsent` (action property) | `FlowInv` |
| `PublisherTheorem` | `PublisherSpec => []PublisherIsSound` | `PublisherInv` |
| `StrictTheorem` | `TlsSpec => []TlsIsStrict` | `TlsInv` |
| `SurvivalTheorem` | `Spec => []ConfigSurvives` of `MCCommon` | `ConfigInv` |
| `IdentityTheorem` | `ConfigSpec => []` the two parts of `ConfigSurvives` | `ConfigInv` |
| `TransferTheorem` | `Spec => []TransferIsFaithful` of `MCCommon` | `TransferInv` |
| `StreamsTheorem` | `Spec => []StreamsAreExact` of `MCCommon` | `FramingInv`, `RtcInv` |
| `InputStopsTheorem` | `InputSpec => []InputStops` | `InputInv` |
| `MediaTheorem` | `MediaSpec => []DecoderIsHandled` | `MediaInv` |
| `GeometryTheorem` | `MediaSpec => []GeometryCatchesUp` | `MediaInv` and itself |
| `ReclaimTheorem` | `WinSpec => []NativeIsReclaimed` | `WinInv` |
| `SteadyTheorem` | `Spec => StreamIsSteady` of `MCDevice` (four action properties) | `SteadyInv` |
| `ColourTheorem` | `Spec => []ColourIsTrue` of `MCDevice` | `ColourInv` |
| `SettingsTheorem` | `Spec => []SettingsAreTold` of `MCDevice` | `SettingsInv` |
| `InputTheorem` | `Spec => []InputIsFaithful` of `MCDevice` | `InputInv` |
| `StoreTheorem` | `Spec => []StoreIsFaithful` of `MCDevice` | `StoreInv` |
| `WireTheorem` | `SecureSpec => []WireIsFaithful` | `SecureInv` |
| `EstablishedTheorem` | `RendezvousSpec => []EstablishedIsAsked` | `DialInv` |
| `RelayTheorem` | `RendezvousSpec => []RelayKeepsHalf`, a conjunct of `DialIsRobust` | `RelayInv` |
| `RobustTheorem` | `Spec => []DialIsRobust` of `MCConnect` | `RobustInv` |
| `VncTheorem` | `VncSpec => []VncIsSound` | `VncInv` |

### Why each invariant is needed, and how the proof goes

**Authentication.** A verified second factor turns `Await2Fa` into `Authorized`
without looking at the primary factor again. `AuthInv` therefore carries the
primary evidence and the bound on the grant through `Await2Fa` (`PrimaryDone`),
keeps the grant under the ceiling in every state, and says that a request is
latched wherever one is used. `AfterPrimaryStep` and `ConsultStep` treat the
shared tails, `LoginStep`, `PollApprovalStep` and `SecondFactorStep` the calls.

**Authentication over the wire.** That the ends agree when nothing is in flight
says nothing of a state with messages in flight, so `PeersInv` speaks of the
stream to the viewer, what is on the wire and what the host has still to write
of its answer, as one sequence. `Told` says what that stream will make of the
viewer: its last record that decides leaves the viewer in the state that suits
the host (`LastWord`; with no such record, the viewer is there already), nothing
decides behind a success (`Final`), and every feature on which viewer and grant
differ is still to be reported (`Reported`). Lemmas say what appending an
answer, taking the first record and cutting the stream do to each of the three;
`HostSays` says which answers each call of the machine may leave, so that the
calls themselves are looked at once. `Identified` follows the identity through the
logins in flight to the request the host latches, `Published` orders the success
before the reports that `ready` waits for. The proof showed one assumption that
the runs satisfied silently: `VersionAssumption`, a viewer without the right
password claims a version from 1.2.0 on, as `login_request` of `viewer.rs` does. Without
it a viewer that was asked for a second factor and then logs in again is not told
that its approval is pending, and the two ends disagree for good.

**Host and console.** A peer is served on a decision that was made earlier, so
`GrantInv` says what a pending decision is about (its epoch is that of the
request now shown, an "allow" was approved), `ShownInv` that whatever waits
between the screen and the host (a line in the channel, the request of this
turn of the loop, an answer taken) was shown. `TasksInv` and `EndInv` tie the
progress of reader, sender and serving task to the publisher, so that
`unreclaimed` cannot get lost between the end of a sender and the snapshot.

**Native owners.** The gates are counters and the owners are entries, and the
proof is that the counters are cardinalities (`CountInv`). An owner leaves its
registry only when it is done and holds nothing (`OwnerInv`), which is why
registration can rely on what it sees (`RegistryInv`). The refinement of
`SurfaceOwnership` follows action by action from the same invariant.

**Sessions.** `OhosInv`: every backend a session or a running start names exists
(`OhosTypes`), and a question that was asked and not answered since is still on
the screen (`QuestionStays`); without it a poll that finds the phase unchanged
could be one that finds no question. Everything else a viewer may do is
`Continues`: it stays a viewer, and neither its cancellation nor its end is taken
back, which is all `NoStrayBackend` needs of it. Only three calls change who
answers for a backend (`DialsKeeps`, `InstallsKeeps`, `CloseKeeps`), each in a
lemma of its own. `FlutterInv` types the other registry, whose pumps may serve
a session other than the one they were spawned for.

**Decoder.** `UnitsInv` adds to the conservation law the types of its quantities
and one fact, that an ended worker has closed the decoder; without it a late
submission would enter a queue that nobody drains. `SoundInv` adds what the
threads rely on. `BytesInv` names the partial sums of the queue, which keeps the
reserved bytes from going below zero without an induction on the queue;
`LifeInv` says how the worker came to `wait_idle`; `WaitInv` extends the reason
for which a feeder sleeps to the moment before it sleeps, where a notification
would be lost; `IndexInv` says that every native buffer is at one place (with
the codec, in a callback that has not posted, or registered, and then at one
place of the worker's at most), from which it follows that no callback finds its
index taken.

**Publisher.** `StageInv` says what exists at each place of the worker, from which
the order of the teardown follows. `ConsentInv` says that content is on its way
(queued, or in the worker's hands) only while capture is allowed, or the
publisher has halted; with it `ConsentTheorem` is the case of `publish` and of
`recv`. `PublisherInv` joins the rest. A halt breaks some of it at once, because
a callback that runs after it drops its buffer, so two of its parts speak of a
publisher that has not halted: `BufferInv` (each native buffer is with the
encoder, in a callback that has not run, or registered, and then at one place
only, so no callback finds its index taken) and `StreamInv` (for some `h`, the
buffers `1..h` were taken, `h` is the one in hand, those behind it wait in order,
the pictures among the first are published, and the pending metadata is that of
the buffers since the last picture). A worker past the first step of its
shutdown has halted (`StoppedInv`), which leaves eight ways in which a worker that
runs on moves a buffer (`WorkerMoves`), and one lemma for each. What survives a
halt is inductive beside them: `CreditInv`, the order of what was published
(`StreamIsCut`: `clear` cuts its end off) and the metadata of every unit queued or
leased (`MetaInv`). The bytes of a queue are a recursive function of it; what
appending a unit and taking the first do to the sum (`BytesAppend`, `BytesTail`)
is proved by a least counterexample, from the well-foundedness of `<` in the
library. Why the worker sleeps (`SleepIsJustified`) needs to know which refresh it
has missed: one that is pending while it asks the encoder for another came after it
had looked (`MissedInv`), and every other is looked at before the next wait.

**TLS.** The policy of a connect survives its fallbacks, whatever other
connects put in the shared cache in between (`Strict`, of each caller alone).

**Configuration.** A stored password has one of five forms: none, plain, plain
under an old seal, today's sealed hash, and that hash under one more seal; a lemma
for each says what the code finds in it, and `StoreKeeps` and `LoadKeeps` what
`store` and `load` make of it. `ConfigSurvives` is not inductive: a process that started
without the UID holds a password it cannot open, and what it writes has to be
opened by a later one. `PromiseKept` therefore says where the password of the user
is, in the file and in memory, and under which key of the device, whether this
process has that key or not: a second seal is added only by a process that has
no UID, and then with the pair the file has. `KeysInv` says when a pair is in
memory alone, which is where a crash loses it; `WrittenOf` that memory and file hold
the same under the keys in hand; `Salted` that no hash is without its salt, so that no
store finds the password invalid and drops it. Keys in hand only grow within a process
(`KeyStep`), every call that writes is one `StoreStep`. `ConfigConstants` asks for at
least one key pair, the one an existing file has.

**File transfer.** That a file sent to its end is whole once `Done` is handled says
nothing of blocks still on their way. `TransferInv` speaks of the queue between the
jobs as one walk through the files (`Walk`) that begins where the writing job is
ready (`ReadyAt`: which file is open, which block comes next) and ends where the
reading job stands (`LeadsTo`). So the writer never meets a block it has no place
for, and the end of a file that was sent is either still in the queue or its file
is whole (`SentInv`). A digest on disk is that of the version the blocks beside it
were read from (`MarkInv`, `AllVouched`), which is what a resumed download relies
on; at most one answer to a digest is outstanding, and it is about the file the
reading job is at (`AnswerInv`).

Calls on files fail at every one of these steps, any number of times (`MaxFaults`
is a parameter), so each part says what it says of the files that `trouble` does
not name: a file a call has failed for in this attempt needs no place to be ready
(`ReadyAt`), a stream left open by a turn that failed is of a file that is named
(`WriterInv`), and what is read of a source that changed is of the version last
announced, or is not claimed at all (`Known`, `Truthful`). What has to be shown is
that a failure names every file it can reach: the file before it that the next
block spills into, the file whose rename did not happen, the one that only one end
resumed. A file leaves the list when an attempt begins it anew, and it has to be
good from then on although its neighbours are not. `PutLands` and `GoesOn` treat
the calls of the writing end, `FeedSends` those of the reading end; `TransferStep`
has one lemma for each action. The walk is stated of places, not of the number of
blocks, and needs no induction over them.

**Streams.** A place of the stream is a frame and a count of its bytes (`Place`). The
items in the two buffers, that of the receiver first, are one trail (`Spans`)
from the place where the decoder stands to the end of what was sent. Lemmas join two
trails, split one and cut an item in two, so that delivering and decoding are each
one such step (`CutSpans`). `HeaderBytes` and `HeaderSum` say that the bytes of a
header, read back, are the length they were made of. `PayloadIsWhole` says that the
first `n` bytes of a trail that stands before a payload of `n` are that payload and
nothing else; the sums of lengths it needs are a recursive function, and go by a
least counterexample. In the WebRTC half, `RtcInv` says that what a task, a session
or a call refers to is a connection that has been described, and types the rest. The
proof showed one assumption the runs satisfied silently: an offer that is answered is
not one that a task of this side made (`WebRtcConstants`); `SESSIONS` is keyed by
fingerprint, and a program that answers its own offer would find itself there.

**Viewer input.** `RevocationInv` and `ClosingInv` count: nothing is late while
the right is there, and the writer holds a message after the revocation only
while none went out, so one is the most there can be.

**Viewer media path.** `unconfirmed` is one flag, and `finish` reads it alone, so
`ProofInv` says in every state what it stands for: the lease is lost, a decoder
is live or quarantined, or one is being opened or its end is being looked at.
`FeederInv` says what the feeder holds at each of its places, and that a failed
Destroy is in the result of the feeder as soon as it is not in its hands;
`EndingInv` carries it on to the result of `run`, whatever else was joined first.
The permits of the two semaphores are `SlotsFit`, which counts the records
admitted, and `BytesFit`, which names the partial sums of the queue (`Weighs`)
as `BytesInv` does for the decoder: four lemmas say what appending, taking and
shifting do to them, and no induction on the queue is needed.

**Windows producer.** Each native call is a function from a state of the
libraries to the set of states it may leave, failures included; the `...Keeps`
lemmas say what all of them keep. `WinInv` joins the types, what holds in every
native state (`Kept`: a texture on loan belongs to a live encoder, an encoder to
an open capture), what the worker holds at each of its places (`PhaseKeeps`), the
charge as queue plus leases (`ChargeIsExact`), what a quarantine stands for
(`QuarantineIsTold`) and why the worker sleeps (`SleepMeansFull`). `SteadyInv`
adds that a frame is due no earlier than the pace allows (`DueIsKept`), that the
long window began after the rate last changed (`RateInv`: this is why a raise is
not taken back within one) and that a telemetry sample belongs to the session
it is read of (`SampleIsOfSession`).

**Colours.** A stream outlives the desktop it was opened for. `ColourInv` says
that it describes some desktop the encoder can take (`StreamIsOf`); that it says
the truth of the picture in hand (`UnitIsTrue`) follows from the three tests of
the next unit, `from_raw`, `validate_texture` and `validate_unit`, together.

**Settings and input.** Both travel in queues, and what the other end will hold
is decided by the last message about a thing: `EndsBad` and `Silent` speak of it,
and four lemmas (`AppendDecides`, `AppendIsSilent`, `TailKeeps`, `EmptyIsSilent`)
say what appending a message and taking the first do to it. `SettingsInv` says
that the last message about a setting, or the login if there is none, carries
what was asked of the viewer last, which is what the session reports. `InputInv` says that a key the remote desktop holds and
no message is about, or one whose last message presses it, is a key the user
holds (`KeysAgree`; `ButtonsAgree` is the same of the other queue), that a
character outside the BMP is never held, and that no mouse event waits for more
keys than were accepted (`NeverOvertakes`).

**Files.** `StoreInv`: while no two calls overlap, at most one is under way, and
the copy it loaded is the file (`OneCallKeeps`); what a read answers is what was
asked last (`OptionsAnswer`); a key is announced only once it is the one in a
whole file (`IdentityKeeps`).

**Keyed wire.** A record is understood only if both ends count alike and switch
to encryption at the same place of the stream, while each end switches by
itself. `SecureInv` describes each direction from what its two ends know:
at most one greeting of the handshake (`GreetingsFit`), then the session records
the receiver has not taken yet, numbered without a gap from its counter to the
sender's and sealed as the sender seals (`StreamsAreNumbered`), and at most one
record written in part, behind which the sender is gone (`PartsAreLast`). The
other conjuncts relate the stages of the two ends (`ViewerIsEarly`, `HostIsEarly`,
`AliveStages`, `ModesAgree`), the counters before and after the split
(`CountersAgree`, `SessionsAdvance`), the record that is read ahead of the
hand-over (`PrefetchedIsHash`) and the pinned identity (`StrictIsSealed`).

**Dial.** `DialInv` says of every answer under way that its certificate is one
hbbs signed or one nobody did (`AllKnown`), so that a key that verified is the
key of the host that was asked for at every later step (`KeyIsAsked`), however
late or repeated the answer. `RelayInv` bounds the punch: no relay is asked for
before it, and one with a relay in hand has half of what was left.
`RobustInv` adds what an honest server may have put on the wire: one hello that was
not skipped yet and, behind it, answers to the step the dial is in (`AnswersFit`);
none is left over from an earlier step, because a wire is dropped with what was not
read (`WireIsDropped`). That an address survives `AddrMangle` (`AddressSurvives`) is
arithmetic: the shifts and masks are products, quotients and remainders, and a
number has one quotient and one remainder (`QuotientIsUnique`). The model therefore
counts the values of a port (2^16 in the code) and the fields the port mask of
`decode` spans (2^7), in place of bits, and the theorem holds for any of either.

**VNC.** `VncInv`: until the handshake is over nothing else has begun
(`BeforeLive`), the security type is one that was offered and not weaker than
asked for (`Agreed`), behind a challenge only the right answer leads on
(`AnsweredRight`), and an error of the reader has a cause that is not the close
(`ErrorHasCause`).

### What is only model-checked

- *Liveness under fairness* is not within the prover's reach: `DecisionCounts`,
  `ProgramEnds`, `NativeWorkEnds`, `CancelEnds`, `WaitsAreBounded`,
  `ProducerEnds`, `WaitsEnd`, `ClosedBackendEnds`,
  `StreamIsTold`.
- Of the invariants and action properties the runs check none is left out: each
  has its theorem. Induction over data is not available as such (the theorems of
  the library that take an operator as a parameter cannot be used), so where a
  proof needs one (the bytes of a queue, the lengths in a stream) it goes by a
  least counterexample, for that function.
- The three expected violations are counterexamples of TLC, and have no theorem.

## 8. Not modelled, and why

Cryptography, message layout and codecs are data the properties do not tell
apart. Wall-clock time appears as deadlines that may fire whenever nothing is
ready. The memory model of the atomics is sequential consistency: each flag is
written with Release and read with Acquire, and no property combines two flags
that are not also ordered by a lock. `PROJECT.json` gives the reason for every
component that is left out.

Details that the models leave out because no property tells them apart:

- `WindowsProducer`: the byte quota of the queue beside its unit quota
  (`windows_host_publisher.rs:553`); that a failed release of a frame ends the
  closing of its pipeline there (`windows_native.rs:1157`), where the model goes
  on to the capture; and that a run which ended with `ReclamationUnconfirmed` is
  reported so after a clean close, too (`windows_host_publisher.rs:491`).
- `VncClient`: `CloseShuts` may also fire after the reader has marked the
  session closed, where `close` returns early (`vnc/live.rs:283`); it changes
  nothing then that is still read.
- `LocalStore`: the case of a language set to its default (`config.rs:2248`).
- `ConfigStore`: a file with a plain ID and no sealed one (`config.rs:624`),
  which `store` never writes.
