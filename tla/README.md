# Specifications of homekit-rtsp-proxy

The proxy pairs with HomeKit cameras, and for each of them serves an RTSP
stream that runs only while somebody watches, ONVIF motion events, and a health
sensor for Home Assistant. These TLA+ modules model the parts of it that are
concurrent or stateful, TLC checks them on small instances, and TLAPS proves
safety properties of nine of them for every instance.

## Inventory

| Part | State | Operations | Talks to |
|---|---|---|---|
| Session (`stream/session.go`) | state, client count, warm-stop timer, `stopDone` channel | `ClientConnected`, `ClientDisconnected`, `idleTimerFired`, `Restart`, `Shutdown` | calls `onStart`/`onStop` of `main.go` with its mutex released |
| Camera wiring (`cmd/homekit-rtsp-proxy/main.go`) | the closures' view of sockets and camera | `onStart`, `onStop`, stall and recovery callbacks, shutdown sequence | Session, SRTP proxy, HAP controller, RTSP server |
| SRTP proxy (`stream/proxy.go`) | sockets, stop channel, goroutines, stall timer, frame buffer, counters | `OpenPorts`, `Start`, `Close`, four goroutines | hands packets to the RTSP server, alarms to Session |
| RTSP server (`stream/rtsp_server.go`) | output counters, IDR cache, `idrReady`, `s.mu`, the transcoder | `OnSetup`, `OnPlay`, `OnSessionClose`, `WriteVideoPacket`, `CacheOnlyVideoPacket`, `WriteAudioPacket`, `ResetVideoRTP`, `Stop` | Session; gortsplib (external) |
| Audio transcoder (`stream/audio_transcoder.go`) | `pcmRing` | `Transcode`, `Close` | FDK-AAC (external) |
| HAP client (`hap/hap_client.go`) | request mutex, `respCh`, `eventCh`, `done` | `doRequest`, `readLoop`, `Close` | the camera, over one encrypted connection |
| Encrypted connection (`hap/encrypted_conn.go`) | keys, two counters, `readBuf` | `Read`, `Write` | the network |
| TLV8 and stream configuration (`hap/tlv8.go`, `hap/camera.go`) | none | encoding and decoding | HAP controller |
| HAP controller (`hap/controller.go`) | discovered and lost devices, verified connection, motion goroutines | `discoveryLoop`, `recoverDevice`, `reconnect`, `StartStream`, `StopStream`, `doSubscribeMotion`, `Stop` | mDNS, HAP client, the recovery callback |
| PullPoint (`onvif/pullpoint.go`, handlers in `onvif/server.go`) | subscription table, event queues, notify slots | `Create`, `Remove`, `CleanExpired`, `Renew`, `FanOut`, `PullMessages` | motion callbacks of the controller, HTTP clients |
| Health reporter (`health/health.go`) | event queue, two flags with their streaks | `Report*`, `handleEvent`, `handleTick`, `onConnect` | main and the video reader; an MQTT broker |
| Snapshotter, pair-verify, pairing store, configuration, SOAP templates, debugging tools | see `PROJECT.json` | not modelled | |

What is hard here: the session releases its mutex around callbacks that take
seconds; timers and RTSP session closes arrive at any moment; goroutines share
sockets and channels that the next start replaces; packets are lost and counters
wrap; a HAP response does not say which request it answers, and a start that
loses its connection half-way is done again over another; a rebooting camera may
come back under another name before it is reported lost; long polls, expiry and
fan-out share queues; a reporter that must not block the stream drops events.
`PROJECT.json` lists each hazard at its line with the property that covers it, or a
note that says what the code does instead.

What makes each part correct:

- Session: callbacks never overlap, waiting clients are woken, the warm stop
  belongs to an unwatched running stream, every transition ends.
- Camera: the count is the number of clients, the stream lives as long as it is
  wanted, every client is served or closed.
- SRTP proxy: sockets and goroutines follow the session, a stall is acted on,
  every stop and the shutdown end.
- Video reader: what is forwarded has no holes, what arrived intact is
  forwarded, losses are counted exactly.
- RTSP video: one gapless numbering, time that goes on over camera sessions, a
  cache of the current session only.
- Audio: every sample once and in order, a gapless numbering.
- HAP client: each caller gets its own response as long as none timed out, a
  dead connection is noticed.
- Stream setup: camera and proxy agree on keys, addresses and session.
- HAP controller: the connection in use is live after a recovery, and relays
  motion.
- PullPoint: each event once and in order, no lost wake-up.
- Health: flags follow sustained conditions, the broker agrees.

## Modules

- **Lifecycle** is the abstract promise of a session to its callbacks: one
  goroutine at a time drives a start or a stop, from its beginning to its end.
- **Session** is `session.go`. A critical section of `s.mu` is one step; a call
  is split where the mutex is released (around `onStart`, `onStop` and the wait
  for `stopDone`). Callers are unrestricted. Timers are goroutines: stopping one
  that has fired does not keep its callback from running. Lifecycle is
  instantiated with `phase <- state` and `driver <-` the goroutines inside a
  callback.
- **Camera** composes Session (as an `INSTANCE` over its own variables) with the
  RTSP sessions of clients, `OnPlay`'s goroutines, the warm-stop timer and a
  caller of `Restart`. Clients may leave at any time. Two history variables name
  what the code does not keep: `miscounted` (a client was counted out that had
  not been counted in, or came or left during a restart, or a start failed) and
  `unguarded` (a restart cancelled a warm stop).
- **SrtpProxy** is the life of the proxy: the steps of `onStart` and `onStop`,
  the sockets and the stop channel, the four goroutines, `Close` statement by
  statement, the stall watchdog, and the shutdown of `main.go` with
  `RTSPServer.Stop` holding `s.mu`. Of the session it uses Lifecycle only, which
  Session implements. One client and no warm window are enough to drive it; its
  count is a boolean, and the -1 that `session.go:136` can leave is in Session only.
- **FrameBuffer** is one turn of `readVideoLoop` per packet, over every stream of
  key, fragmented and single-packet frames, which the camera sends frame by frame
  (`Send`) and the network loses, delays or repeats packet by packet
  (`Deliverable`). A packet is its place in the stream, so that the properties can
  compare what was sent, received, forwarded and cached.
- **RtspVideo** is the video half of `rtsp_server.go`. The packets it is handed
  are those FrameBuffer shows the reader can hand over, and a reset finds no
  frame half handed over because of SrtpProxy's `ProxyFollowsSession`. The returns
  for want of a stream (`rtsp_server.go:377`, `:660`) are left out: the stream is
  there from `Start` to `Stop`, and `Stop` is in SrtpProxy.
- **Audio** is the audio half, with the sample ring of the transcoder. The
  fixed-width arithmetic of the gain and of the counters is kept.
- **HapClient** is one connection: callers, the reader and the camera. A response
  that does not parse ends the reader while the connection is up, an event that
  does not is skipped.
- **EncryptedConn** and **Tlv8** are the framing and the encoding, as operators.
- **StreamSetup** composes them with `StartStream`, its retry, `StopStream`, the
  motion poll and a camera, down to the bytes of each message. It has the request
  protocol of HapClient again, reduced to one outstanding caller, because what
  matters here is which bytes a call gets. A camera refuses a write with 400 or
  with a 207 whose characteristic has a non-zero status, and may answer anything
  it has done with a 207 too.
- **HapController** is the set of connections of one camera with discovery,
  recovery, reconnection and motion goroutines. How a request fails is
  HapClient's matter. `doSubscribeMotion` is one step: a connection that is replaced
  between its read of `c.verified` and its request was subscribed to or refused as
  the model has it, and the goroutine that replaced it subscribes to its own.
- **PullPoint** is the subscription table and its queues.
- **Health** is the reporter of one camera with a logical clock, and the queue of
  the MQTT client (external): what is published while the broker is away waits in
  it, is sent late, or twice if the connection breaks before the acknowledgement,
  or is discarded with the client's state. The messages of one topic are assumed to
  stay in order, those queued before a reconnection ahead of those of `onConnect`.

Each specification has an `MC` module for TLC; **MCStallOnce** adds a history
variable to SrtpProxy. **SessionProofs**,
**CameraProofs**, **FrameBufferProofs**, **RtspVideoProofs**, **AudioProofs**,
**PullPointProofs** and **HealthProofs** hold the theorems about the modules they
are named after, **HapProofs** those about HapClient and HapController. Operators described as mutated
forms change the operator that follows them the way a bug could; `PROJECT.json`
names, for each property, the mutation that violates it.

## Runs

Runs that pass:

| Run | Shows |
|---|---|
| `session` | three callers and two timers in warm mode: `SingleDriver`, `StopChannel`, `WarmStopPending`, `CountBounds`, the refinement of Lifecycle; waiting clients are woken and transitions end |
| `camera` | two clients who do as they like, failing starts, restarts and the warm window: the count is exact and the stream is stopped when and only when it is unused, up to the named exceptions; clients are served or closed |
| `proxy` | goroutines and sockets follow the session over failures, restarts and shutdown; stalls are noticed in their own session and acted on; stops end, and a shutdown that nobody interferes with does |
| `frames` | the frame buffer under every loss pattern, with a late or repeated packet, at its limit and over the wrap |
| `video_stream` | two clients over two camera sessions with wrapping counters |
| `audio` | the sample ring and the numbering with a codec that fails, decodes to nothing or holds back at any packet |
| `hap_client` | two callers with timeouts, events, messages that do not parse and the death of the connection |
| `setup` | two starts and a poll over connections that are cut at any time, with a camera that may refuse any of it: every frame opens, and a start that succeeds leaves both sides in agreement |
| `hap_recovery` | two recoveries and a stream start racing over a rebooting camera that may refuse requests |
| `pull` | two notifiers and two polls, a table at its limit: each event once, no lost wake-up, no need of the timeout |
| `health` | the two flags, the overflowing queue, the MQTT client's queue and the broker |

One run shows where the code does not do what its comment says: `audio_wrap`
finds `PerfectlyMonotonic` violated, because the timestamps start over when the
16-bit counter wraps, after 70 minutes at 16 kHz, while `rtsp_server.go:537` has
"perfectly monotonic".

`StallIsActedOn` (a stalled stream is restarted or stopped) passes, and documents say
otherwise: "No automatic stream recovery" (README.md 252), "the proxy does not
automatically re-negotiate" (DESIGN.md 866). The watchdog's own comment and log say
"triggering session restart", and that is what the code does; both findings are in
`PROJECT.json`.

### Further disagreements

Twelve more configurations each check one sentence of the repository as it stands, and
TLC finds each violated. They are not among the runs of `PROJECT.json`; they are kept
so that who corrects the code, or the sentence, can see it
(`tlc -config early_stop.cfg MCCamera`).

| Configuration | Module | The code | What is said |
|---|---|---|---|
| `early_stop.cfg` | `MCCamera` | stops the stream under a client, after another that was never counted has been counted out | `onStop` is "called when last RTSP client disconnects" (`main.go:254`, README.md 9) |
| `unused_stream.cfg` | `MCCamera` | does not stop a stream whose only client left while it was starting | the same |
| `no_recovery.cfg` | `MCSrtpProxy` | restarts a stalled stream while the client stays | README.md 252, DESIGN.md 866, as above |
| `stall_once.cfg` | `MCStallOnce` | calls the stall callback once in each session | "at most once per proxy lifetime" (`proxy.go:146`, `:653`; but `:643` has "per session") |
| `shutdown_order.cfg` | `MCSrtpProxy` | tears the proxy down under a start | "Stop the camera stream cleanly first" (`main.go:391`) |
| `shutdown_hang.cfg` | `MCSrtpProxy` | deadlocks in `RTSPServer.Stop` if a client's close or a restart stops the stream meanwhile | "Locks are released before calling potentially-blocking operations" (DESIGN.md 748) |
| `mixed_cache.cfg` | `MCRtspVideo` | goes on collecting an IDR into the next frame when its marker is lost | "complete cached IDR frame" (`rtsp_server.go:54`, `:221`) |
| `stale_channel.cfg` | `MCRtspVideo` | lets a client wait on a channel that a restart has replaced | "No IDR arrived in time" (`rtsp_server.go:645`) |
| `one_in_flight.cfg` | `MCHapClient` | writes a request while the response to one that timed out is owed, and hands the late response to it | "Only one request can be in-flight at a time" (`hap_client.go:257`) |
| `done_blocked.cfg` | `MCHapClient` | leaves `done` open when a late response blocks the reader | "closed when the underlying connection dies" (`hap_client.go:44`) |
| `renamed_camera.cfg` | `MCHapController` | begins no recovery when the camera is back as "Name (2)" before the loss is reported | "so auto-recovery fires" (`controller.go:216`) |
| `stream_end.cfg` | `MCStreamSetup` | names a session id of zeros in the end command, because nothing calls `SetSessionID` (`main.go:260`) | "for later use in stop commands" (`session.go:309`) |

### Conditions in the properties

Some properties say under which condition the code keeps them, because it does
not keep them otherwise. A reader who changes the code may want to remove some.

- `CountIsClients`, `StreamForClients`, `UnusedStreamStops`: `OnSessionClose`
  calls `ClientDisconnected` for every RTSP session (`rtsp_server.go:591`). A
  session that ends before PLAY, before `ClientConnected` has returned or after it
  has failed was never counted, and takes another client's count with it: the
  stream stops under a client that watches, where the repository's README says
  it "stops when the last disconnects". `Restart` writes back the count it read before its
  callbacks (`session.go:275`), cancels a pending warm stop without renewing it
  (`session.go:243`), and sets the count to 0 if it fails. A stream whose only
  client left during the start is stopped by nobody (`session.go:173`).
- `CountBounds` admits a count of -1 in an idle session (`session.go:136`).
- `ShutdownEnds` is about a shutdown during which nothing but `main` drives the
  session. If a client's close or a restart stops the stream while
  `RTSPServer.Stop` holds `s.mu`, `onStop` waits in `srtpProxy.Close` for a reader
  that waits for `s.mu`, and `Stop` waits for `onStop`: the process hangs
  (`shutdown_hang.cfg`).
- `ProxyFollowsSession` ends where `main` calls `Close` itself: if a start or a
  restart is under way then, two callers of `Close` may pass its check together,
  and the second close of the channel panics; and the transcoder may be freed
  while the audio reader is inside it (`rtsp_server.go:552`).
- `StallIsActedOn` is about video that stopped; a session that never had any is
  never declared stalled (`proxy.go:656`). The goroutine that the watchdog starts
  may run late and restart a session that is healthy again.
- `NoHoles` admits a key frame without its parameter sets. `DropCountExact`,
  `IntactForwarded` and part of `CacheOnlyKeyFrames` depend on no packet being
  late or repeated: such a one counts as almost 65536 lost. All four depend on
  fewer than 65535 packets being lost in a row or overtaking one, since 65536
  cannot be told from none.
- `RoomForNext` bounds the errors of the encoder: a ring that is full stays full,
  because its size is checked before the encoder is called
  (`audio_transcoder.go:473`), and the track is silent from then on.
- `Renumbered` says nothing of the timestamp at the wrap of the 16-bit counter; see
  `audio_wrap`. `AudioAssumption` bounds the gain, which the configuration does not.
  A gain of 0 passes the sound on, as README.md says, and does not mute it, as the
  comments at `config.go:83` and `audio_transcoder.go:128` say.
- `PlaySettles` excepts a stream that is started and stopped for ever, and the bound
  `MaxClients` on a count that is wrong already; two clients that are counted
  rightly are never near it.
- `BrokerInSync` is about a topic for which nothing is queued any more.
- `OthersAfterTimeout`, `DeathIsSignalled` and `KeysAgree` depend on timeouts: a
  late response stays in `respCh`, shifts every later response by one and can
  block the reader. Behind one timeout `StartStream` may return before the camera
  has heard the start command; behind two it may take the keys of an earlier
  setup, since the session id in the response is not compared with the one
  offered. See `one_in_flight.cfg` and `done_blocked.cfg`.
- `RecoveryWorks` is about a recovery that was begun. None is begun when the
  camera is back as "Name (2)" before the old record expires: it is discovered
  while the original is not lost yet, and when the original becomes lost nothing
  is discovered any more (`controller.go:215`), although lines 216-219 describe
  this very reboot (`renamed_camera.cfg`). An error "HAP connection closed" is not one that `isConnError`
  recognises, so `StartStream` may give up on a dead connection. The event loop
  of a dead connection waits on a channel that nobody closes (`controller.go:789`).
- `StartClearsProblem` depends on the queue not having overflowed.

### Bounds

- Session: `MaxClients` caps the count at the number of callers; a channel is
  reused only when nobody refers to it, so three are enough for three callers.
  The theorems cover every other size, and both modes.
- Camera: two clients, one timer, one caller of `Restart`. Two clients are enough
  for one to disturb the other. `MaxClients` is 3, one more than the clients: it is
  reached only when clients that left uncounted have raised the count, and
  `PlaySettles` excepts it only then. One client without a warm window is enough
  for `unused_stream.cfg`.
- SrtpProxy has no bound.
- FrameBuffer: three frames of one to four packets and one late or repeated
  packet; `SeqMod` 16 with a start at 13 wraps within the stream. `MaxBurst` 14,
  the most `SeqMod` admits, is longer than any stream of the run. `FrameCap` is 300
  in the code and 3 here, one less than the longest key frame.
- RtspVideo: `SeqMod` 8 wraps, and so do the camera's timestamps, which begin at 62
  of 64; `MinGap` exceeds `FrameTicks` as
  4500 exceeds 3000 at 30 frames per second. Two sessions, three frames.
- Audio: an encoder frame of 4 samples and camera frames of 2 to 4, so that they
  do and do not divide it, or of none (a decoder may return 0); 7 packets fill the ring of 12. Samples of 4 bits and a
  gain that saturates them; a packet counter of 2 bits wraps within the run.
- HapClient: 4 requests and 2 events, `EventCap` 1: a late response, the
  request after it and a full channel all happen.
- StreamSetup: fragments of 4 bytes and frames of 24, so that every message takes
  several of both and some values end at a fragment's end; reads of 16 and 32
  bytes end inside and at the end of frames. Two starts, each with a retry, and one
  poll.
- HapController: 4 camera and mDNS events cover off, boot, expiry,
  announcement in every order; `MaxAttempts` 2 stands for 5.
- PullPoint: 2 subscriptions for a table of 1, 2 polls, 2 notifiers, 2 events.
- Health: windows of 2 or 3 ticks, 6 ticks of time, 4 reports, an event queue of 1,
  and at most 2 messages of a topic in the MQTT client: one that is old and one
  that is new.

Runs that stop at a bound (frames, packets, requests, events, time) turn the
deadlock check off; Session, Camera and SrtpProxy have no such bound and keep it.

### Fairness

Weak fairness of what a runnable goroutine does next. Callbacks are assumed to
return because every network call below them has a timeout (30 s per HAP
request, three pair-verify attempts); in SrtpProxy, where the callbacks are
modelled, only that their steps are taken when they can be. Timers expire.
Nothing is assumed of clients, of the camera, of packets, of new calls or, in the
properties about wake-ups, of the timeouts that would hide a lost one.
StreamSetup states no fairness: that a start ends is a matter of the timeouts of
`doRequest`, which the model lets fire at any time.

## Proofs

Each proof module has the same shape: an inductive invariant `IInv`, `InitIInv`,
`StepIInv` with one step per action, `SpecIInv`, and the theorems that follow.
TLC has checked every `IInv` (and `TimeInv`) as an invariant of the run's instance before it
was proved. The theorems hold for every value of the constants that satisfies the
named assumption of the module; TLC evaluates each assumption for the values of
its run. The bounds (`MaxClients`, `MaxFrames`, `MaxPackets`, `MaxTime` and so on)
are arbitrary numbers there.

| Module | Theorems | Assumed |
|---|---|---|
| `SessionProofs` | `TypeOK`, `SingleDriver`, `StopChannel`, `WarmStopPending`, `CountBounds`, the refinement of Lifecycle | callers and timers are disjoint, nil is neither a timer nor a channel |
| `CameraProofs` | the camera implements Session; `CountIsClients`, the action property `StreamForClients` | as Session, and finitely many clients |
| `FrameBufferProofs` | `TypeOK`, `NoHoles`, `IntactForwarded`, `DropCountExact`, `CacheOnlyKeyFrames` | the buffer has room for a packet, a burst of loss is shorter than the range of the sequence numbers |
| `RtspVideoProofs` | `TypeOK`, `SeqContiguous`, `SessionsAdvance`, `ReadyMeansCached`, `CacheIsFresh` | the moduli are positive, camera timestamps are below theirs; `SessionsAdvance` for streams shorter than half the range of the timestamps |
| `AudioProofs` | `TypeOK`, `SamplesInOrder`, `RoomForNext`, `Renumbered` | a camera frame is no longer than an encoder frame, the widths are even, gain times level does not overflow an int32 |
| `HapProofs` | of HapClient `TypeOK`, `OthersAfterTimeout`, `ResponsesInOrder`; of HapController `TypeOK`, `MotionFollowsVerified` | nobody is not a caller; the goroutine that starts the stream is not a recovery, there is room for the first connection |
| `PullPointProofs` | `TypeOK`, `EachEventOnce`, `NoLostWakeup` | nil is not a subscription, the table has a size |
| `HealthProofs` | `TypeOK`, `BrokerInSync`, `StartClearsProblem`, the action property `FlagsAreSustained` | windows and queue are at least 1, there is at least one tick of time |

Why the invariants are not inductive as they stand, and what is added:

- **Session.** None of the four is inductive alone: that a start finds no other
  driver needs the state to tell who drives (`SingleDriver`), that the channel
  closed is the one waited on needs the single driver, that a warm stop finds the
  count at 0 needs the state, and the bound on the count needs both the single
  driver (a failed start is the only unguarded decrement, and there is one at a
  time) and the snapshot of `Restart` to be bounded. The refinement follows from
  `DriversByState`: under `IInv` the set of drivers is empty or the one goroutine
  whose program counter moves.
- **Camera.** `StepIsSession` shows that every step of the camera is one of
  Session or leaves it alone, so that SessionProofs, instantiated with the
  camera's goroutines, gives Session's invariant. On top of it: `Roles` (which
  goroutine may be in which call), `PlayNeedsSession` (as long as nothing was
  miscounted, a client that connects has its RTSP session open) and
  `RestartKeepsCount` (the copy `Restart` will write back is the count). A start
  that begins finds no restart under way because of `SingleDriver`.
  `StreamForClients` is the count at work: who stops the stream has found one
  client counted, itself, or none.
- **FrameBuffer.** `StreamShape` says what the properties take for granted of the
  camera: the packets of a frame are numbered from 1, share a timestamp and end with
  the marker, and timestamps grow from frame to frame. `BufferShape` ties the
  reader to the last packet: the buffer ends with it unless it had the marker, and
  without a gap the buffer is a run that begins well. The step rests on two facts
  about a turn. `GapIs`: the gap is 0 for the successor of the last packet and for
  no other, and counts what is missing before a later one, whether or not the number
  has wrapped. `BoundaryIsGap`: a frame that ends without its marker always ends
  with a gap, so that the flush at a change of timestamp never forwards, and only
  the marker does. `FlushedBefore` orders the frames that left the buffer before the
  one in it, which keeps what is offered to the cache apart from what was
  forwarded. `IntactForwarded` speaks of the end of a frame; `KeepsIntact` is what
  it means in the middle of one: the buffer holds all of the frame so far.
- **RtspVideo.** `NextSeq` ties the counter to the last packet written, and the
  numbering needs (a % n + b) % n = (a + b) % n, which is proved from the
  uniqueness of remainders. `TodoIsFresh` (no frame is half handed over when the
  session changes) carries `CacheIsFresh`; `OneChannel` says a channel that was
  closed in an earlier session is not the current one. `SessionsAdvance` compares
  packets however far apart, so that it holds only of streams shorter than half the
  range of the timestamps (6.6 hours of 90 kHz). `ShortStream` states this of the
  constants, the run's satisfy it, and it is a hypothesis of the theorem. Its
  invariant `TimeInv` is proved on top of `IInv`: no timestamp wraps (`Elapsed`
  bounds them all), a session never goes back, and what was written is at most one
  tick, that of an injected frame, after the last packet of the camera, while a
  reset adds at least two.
- **Audio.** `PcmBound` is the reason for `RoomForNext`: less than an encoder frame
  waits, plus a camera frame for each error of the encoder. `Numbers` ties each
  timestamp to its packet number and the counter to the last number, and
  `NextTimestamp` is the step from one to the next. `SamplesInOrder`
  needs that the int32 product does not wrap (`WrapIdentity`) and that the frame
  taken and what `Shift` leaves are all there was (`CutInTwo`).
- **HapClient.** `LateOnlyAfterTimeout` (whoever holds `reqMu` waits for the last
  request written, and any other response on its way is owed to a timeout, as
  long as there is a reader to return it) and `ErrorIsLast` (the reader's error is
  the last thing it sends, though responses may still be on their way to it). `ResponsesInOrder` is
  about the whole way of a response: `respCh`, the reader's hand, the line, and
  what the camera still owes.
- **HapController.** The type invariant numbers connections as they are made: one that
  has died never comes back, and a new one is not verified yet.
- **PullPoint.** The type invariant says that a client which pulls has a
  subscription and that a notifier under way has an event.
- **Health.** `FailureStreak` and `LossStreaks` say that the times the reporter
  keeps are the beginnings of streaks in the history, which is what makes
  `FlagsAreSustained` an action property of the invariant; `LastResult` follows the
  last report through the queue. `SaidIsState` is `BrokerInSync` with messages still
  queued: the last of them, or what the broker has if there is none, is the state.

Some definitions have the form they have so that these proofs go through: orders
and neighbours in a sequence are stated over its indices rather than with
`SelectSeq` (`ResponsesInOrder`, `Renumbered`), RtspVideo names the packets of a
frame one by one, and the camera of FrameBuffer adds a frame to its stream in a
step of its own, where a recursion over the frames would need an induction over
data. HapController prefixes `Init`, `Next` and the like with its name, so that
HapProofs can extend it together with HapClient. The lemmas about remainders of
`RtspVideoProofs` appear again in `AudioProofs` and `FrameBufferProofs`.

Only model-checked:

- the liveness properties: fairness and ENABLED are out of the prover's reach;
- StreamSetup, EncryptedConn and Tlv8, whose decoders are recursive;
- SrtpProxy: it has no constants and no bound, so that TLC's run is exhaustive.

## Not modelled

Cryptography itself (pair-verify, SRTP; a frame of the encrypted connection opens
or does not), media codecs (FDK-AAC, the snapshotter's FFmpeg), file and
configuration handling, SOAP texts and the debugging tools. In modelled parts:
logging, attribute topics, payload types, parameter sets, the contents of receiver
reports (they are sent from two goroutines over one SRTCP context, `proxy.go:692`,
the first of a session may carry the `highestVideoSeq` of the one before, and a wrap
of the numbers leaves it at the largest, `proxy.go:403`), the
silence sent to the camera, the detection of the audio format, which is turned
off.

## Plan

**Motion**: the event and poll goroutines feeding PullPoint, duplicates after a
reconnection.
