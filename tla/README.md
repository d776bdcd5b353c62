# A TLA+ verification of the P2P video phone

The repository is an Android peer-to-peer video phone.  `src/jni` is its native
engine (sockets, recorders, RTP, players), `src/src/com/p2p/app` its user
interface.  `USE_AWESOME_PLAYER` and `ENABLE_PROFILING` are not defined in the
build that is modelled.

    Java app -> NativeCodeCaller -> MediaController
        sending:   VideoRecorderCtrl / AudioRecorderCtrl -> ARTPStreamer -> UDP
        receiving: UDP -> DSPGARTPConnection -> DSPGARTPSource -> assembler
                       -> DSPGARTPSession -> DSPGAPacketSource
                       -> DSPGMediaPlayer / DSPGAudioPlayer <- MediaPlayerCtrl
        ARTPStreamer --SDP of the encoder--> MediaPlayerCtrl (releases play())

    The player can also open an RTSP URL, which the application never does:
        DSPGMediaPlayer -> DSPGARTSPController -> DSPGMyHandler
                        -> DSPGARTSPConnection (requests, interleaved data)
                        -> DSPGARTPConnection  (media)

## 1. Inventory

| component | state it keeps | operations | what makes it correct |
|---|---|---|---|
| Timed event queue (`DSPGTimedEventQueue`) | sorted list of (event, time), next id, `mRunning`, `mStopped`, a worker thread | `postEvent*`, `cancelEvent`, `cancelEvents`, `start`, `stop(flush)`, `threadEntry` | a posting ends once: fired, cancelled or dropped; in order; not before its time; the worker does not sleep past the head; `stop` returns |
| RTP source and assemblers (`DSPGARTPSource`, `DSPGA*Assembler`) | highest extended number, sorted packet queue, next expected number, NAL units of the current access unit, damage flag, time of the first failure | `processRTPPacket`, `addPacket`/`submitAccessUnit`, `packetLost` | 16-bit numbers are extended right; access units come in sending order, whole or marked damaged; nothing received in time is thrown away |
| RTP connection (`DSPGARTPConnection`) | streams with two sockets each, sources per SSRC, poll flag, time of the last report | `addStream`, `removeStream`, `onPollStreams`, `receive`, `injectPacket`, `fakeTimestamps`, RTCP parsers | whatever arrives is read as long as a stream has the socket; a BYE reaches the track; a removed stream is not read |
| RTSP connection (`DSPGARTSPConnection`) | state, connection id, pending requests by CSeq, credentials, poll flag | `connect`, `disconnect`, `sendRequest`, `receiveRTSPReponse`, handlers of its looper | each call gets one reply, and its own; no late connection; one poll message |
| RTSP session (`DSPGMyHandler.h`, `DSPGARTSPController`) | the dialogue's phase, tracks, seek state, generation of the check for the end, transport tried | the messages `conn` .. `tiou`; `connect`, `disconnect`, `seekAsync` | sockets are closed; checks of an earlier generation do nothing; a seek is reported once and leaves no stale media; the player's calls return |
| RTP session and packet source (`DSPGARTPSession`, `DSPGAPacketSource`) | tracks, "done" flags; access unit queue with EOS result, IDR scan | `setup`, `start`, `forceStop`, access unit and EOS messages; `read`, `queueAccessUnit`, `signalEOS`, `flushQueue` | a reader is woken by a frame or by the end; the end comes last |
| Media player (`DSPGMediaPlayer`, `DSPGAudioPlayer`) | `mFlags`, six pending flags for six events, end-of-stream status, audio sink, video looper | `prepareAsync`, `play`, `pause`, `reset`, `onVideoEvent`, `onStreamDone`, `onCheckAudioStatus`, `onPrepareAsyncEvent`, `onBufferingUpdate`, audio callbacks | one completion, after both tracks ended; no handler uses what reset deleted; video events go on; buffering ends; `reset` returns |
| Player control (`MediaPlayerCtrl`) | the player, `m_psdpInfo`, `mIsPrepareInProgress`, a queue with one start event | `play`, `stop`, `PlayerCb`, `encoderSdpHandler` | `play` starts when both the SDP and the player are ready; `stop` returns |
| RTP streamer (`ARTPStreamer`) | sequence number, timestamps, flags (started, EOS), frame counter, a looper | `start`, `stop`, `onRead`, `sendAVCData`, `sendH263Data`, `sendAMRData`, `sendBye`, `getFrameCounter` | packets number contiguously, reassemble into the frames read; `start` and `stop` return |
| Media controller, recorders, transport | sockets, the players and recorders of a call, CSS nodes | `Start*`, `Stop*` of playback, recording and CSS audio; `configureQuality`, `getEncoderInfo`, `getDecoderInfo` | what a failed step has allocated is released; nothing is used after its release |
| Camera and encoder control | the OMX node and its parameters, the camera | set up, `setBitrate`, `setAVCIntraPeriod`, `getEncoderInfo` | the encoder of the call has the settings that were chosen |
| JNI layer (`NativeCodeCaller.cpp`) | the media controller, the call's metadata, a lock | `startAVHosts`, `stopAVHosts`, `configQuality`, toggles | calls are serialised; a call that cannot start can be stopped |
| Java application | phase of the call, settings, the panel of the encoder | click handlers, message handler | controls match the phase of the call |

Where the behaviour is hard:

* *Threads.*  In a call at least seven run: the application's, the queue of
  `MediaPlayerCtrl`, the player's queue, its video looper, the audio
  callback, the looper of the RTP session, the looper of each streamer.  They
  share `mLock` of the player, some flags and counters outside of it, and
  messages that cannot be taken back once posted.
* *Messages.*  RTSP replies may come late, not at all, without saying to what,
  or for a request nobody made; requests cross a disconnect and a reconnect;
  an abort overtakes a seek.
* *The network.*  RTP packets are lost, repeated, reordered, and their 16-bit
  numbers wrap; RTCP may come without RTP, and the other way round.
* *Time.*  Events are due at times that are capped and re-examined; a missing
  packet is waited for 10 ms; a session that receives nothing for 10 s changes
  its transport or ends.
* *Shutdown.*  Everything above may be stopped at any moment.

`PROJECT.json` lists the hazards line by line with the properties that cover
them, or the reason why none does.

## 2. What the modules model

| module | models | composes |
|---|---|---|
| `TimedEventQueue`, `EventSchedule` | the event queue and what it promises | `EventSchedule` by refinement |
| `RTPReceiver` | one stream, from the network to access units | |
| `RTPConnection` | streams, polling, RTCP | |
| `PacketSource` | the queue of access units (operators on a record) | |
| `RTPSession` | the media session of a call | `RTPConnection`, `PacketSource` |
| `RTSPSession` | a player of an RTSP URL | `RTPConnection`, `PacketSource`, and the RTSP connection as `RTSPConnection` shows it to behave |
| `RTSPConnection` | the RTSP connection | |
| `CallPlayer` | player, player control and session of a call | the queue as `EventSchedule` promises it |
| `Streamer` | the sending side of one track | |
| `CallSetup` | a call, from the button to the last `close()` | the other parts reduced to what they hold |
| `CallControls` | quality and encoder panel during calls | `CallSetup` reduced to one step |

Each has an `MC` module with the constants of its runs, except `EventSchedule`,
`RTPConnection` and `PacketSource`, which run inside others.  `*Proofs` modules
hold theorems (section 4).

### TimedEventQueue, EventSchedule

`TimedEventQueue` models `DSPGTimedEventQueue.cpp` in full.  A section of code
under `mLock` is one action; the waits on `mQueueNotEmptyCondition` and
`mQueueHeadChangedCondition` are places of the worker (`wpc`), so a signal that
nobody waits for is lost, as it is in the code.  `PostEvent` covers
`postEvent`, `postEventToBack` and `postEventWithDelay` by the slot it posts to,
and holds the whole of `postTimedEvent()`, the second signal included.  The
owner starts and stops (with and without flush), clients read an event's id and
cancel by it later.  The users of the queue keep a pending flag for each event
object, so an object that is queued is not posted again; `cancelEvents` is only
reached through `cancelEvent` (first match).  The history variables `fired`,
`cancelled` and `dropped` say how each posting ended.

`EventSchedule` is what the queue promises its users: a set of postings, one of
the earliest of which is fired next, never early.  `ImplementsSchedule` is the
refinement: the specification of `EventSchedule` under the substitution at the
end of `TimedEventQueue`.

### RTPReceiver

One stream from the network to the access units.  A network of packets sent in
order loses, repeats and delays them; `processRTPPacket()` extends numbers
(`Extended`, arithmetic modulo `WideMod` as in `uint32_t`) and inserts into the
queue; the loop of `onPacketReceived()` then runs, one iteration of an
assembler per step, until it waits or the queue is empty.  The five formats
share the loop and differ in how packets become units: `H264` (single, FU-A
start/middle/end, STAP "torn" or "bad"), `H263`, `AMR`, `MPEG4` (generic and
MP4V-ES: units of a time are collected and submitted when the time changes) and
`LATM`.  The payload of a packet is its index in the stream: an access unit is
the list of packets it is made of.  As in the code, a hole before the first NAL
unit of a new access unit marks the *previous* unit damaged, fragments are
deleted together with the packet that breaks them, and the last unit is not
submitted at BYE.

The source does not always find a packet's place in the stream.  Before the first
wrap the candidate one cycle down is computed in `uint32_t`
(`DSPGARTPSource.cpp:173-181`), so a packet sent before the first one received, and
across a wrap of the wire number, gets a number a cycle too high; and a packet half
the wire numbers away from the newest is taken for one of another cycle.  The
model numbers them as the code does, and units then come out of order or twice.  The
history variable `astray` notes that such a packet (`Strays`) has come; the
properties claim nothing from then on.

A CHECK on the payload of a packet ends the process: of the header of H.263 and AMR
packets, of the lengths in a generic MPEG-4 packet, of the framing of a LATM unit.
Other malformed packets are dropped.  `submitAccessUnit()` of the LATM assembler
never advances `offset` (`DSPGAMPEG4AudioAssembler.cpp:492-501`), so the packets of a
unit overwrite one another: `Garbles` says when, and such a unit is lost or ends
the process.

### RTPConnection, PacketSource

`RTPConnection` has the variables and the looper's steps of
`DSPGARTPConnection.cpp`: streams added and removed by message, the polling
message that reads every stream's two sockets and posts itself again, RTCP with
sender reports and BYE, injected packets, fake timestamps, reports.  A stream's
source holds packets back until it has two times.  A session adds the notices'
handling and decides which sockets are open; `crashed` records a failed
assertion.  One datagram at most is waiting at a port; sending reports is whether
each stream that can send one did.  The contents of reports, `pokeAHole()`, and the
choice of a port pair are left out.  `select()` may fail and a report may not be
sent in full, and a CHECK ends the process (`PollFails`).  `PacketSource` is a queue of access units
with its IDR scan and end; a method that holds the queue's lock is an operator.

### RTPSession

The media session of a call: `DSPGARTPSession::setup()` over the sockets of the
application, `start()`, `forceStop()`, the destructor, and the access unit and
EOS messages, over `RTPConnection` and `PacketSource`.  Session and connection
share one looper; the model keeps a queue for each and lets either go first, so it
has every behaviour of the code and some more.  A track whose format no source
accepts ends the process, by the assertion at `DSPGMediaPlayer.cpp:1926`; the
audio format MP4A-LATM is given the sockets of the video (`SocketOf`), as in the
code.

### RTSPConnection

The looper of `DSPGARTSPConnection` with its mailbox; one action per message
(`connect`, `complete connection`, `disconnect`, `send request`, `receive
response`), each the whole handler.  Parsing is abstracted to its outcome: a
server message is a response to some CSeq (with or without 401), a response
without CSeq (with any status: a 401 makes the connection issue its first open
request again), a request of the server's own, binary data, or something that
cannot be read.  Of each only a part may have come (`partial`): `receive()` then
waits in `recv()`, on a socket made blocking, and keeps the looper until the rest
comes or the server closes, which cuts the message off (`ReceiveCut`).  After a read that failed the connection stays CONNECTED with
nobody polling it, as in the code.  A response without CSeq is given to the
request that has waited longest (`findPendingRequest()`, 783-810, returns index
0), although the comment at 818 calls it "not a problem"; with no request
waiting the process ends.

### RTSPSession

A player of an RTSP URL, from `connect()` to `disconnect()`: one action for each
message of `DSPGMyHandler` (`conn`, `disc`, `desc`, `setu`, `play`, `abor`,
`tear`, `quit`, `chek`, `accu`, `seek`, `see1`, `see2`, `biny`, `tiou`) and of the
controller, the RTSP connection reduced to one reply per call (which the run
`rtsp` shows of `RTSPConnection`), the server, the RTP connection, and the player
where it connects, buffers, plays, seeks and disconnects.  Handler, controller
and RTSP connection share a looper, so a mailbox; the RTP connection has its own.

What the model shows of the code, and does not smooth over:

* nobody calls `start()` of the RTP connection, so `receive()` drops every UDP
  datagram (`DSPGARTPConnection.cpp:403`): a session plays only after `tiou` has
  given up UDP after 10 s and set everything up again over TCP;
* a second seek while one is pending ends the process (`CHECK(mSeekDoneCb == NULL)`), and
  so does an abort during a seek: `abor` clears `mSeekPending` while the answer `see2`
  is on its way, and `CHECK(mSeekPending)` (`DSPGMyHandler.h:889`) fails;
* the player counts and reads `mTracks` in its own thread while `abor` clears
  them, and `abor` may close a pair of sockets while the poll loop still has its
  stream;
* after a read error the RTSP connection is deaf: a TEARDOWN is never answered and
  `disconnect()` never returns; `connect()` never returns if RTCP comes without
  media (the flag `mReceivedFirstRTCPPacket` ends the check of `tiou`);
* BYE does not end a track here (the code is under `#if 0`).

* a failed `connect()` drops the handler without disconnecting it
  (`DSPGARTSPController.cpp:72-74`): if a SETUP was accepted before, the UDP pairs of
  its tracks are never closed;
* `mFirstSeqNumInSegment` has 16 bits and is compared with extended numbers
  (`DSPGMyHandler.h:757`).  `told` says of a track whether the response to PLAY tells
  its new segment from the earlier ones by that comparison; it need not (the
  numbers have wrapped, the server numbers from below, or the response leaves the
  track out), and then units from before a seek pass;
* most CHECKs of the handlers look at what the server has sent or the system
  refuses (headers, ranges, URLs, `MakePortPair()`, `select()`, `sendto()`).
  `CheckFails` has them as steps that end the process, each where its handler runs.

Not in the model: texts and absolute URLs, the arithmetic of normal play time
(`getNormalPlayTimeUs()` has no caller), and a unit of a new segment that is dropped
because the wire numbers wrap between the first number of the segment and it while
the packets between are lost.  The server is taken to use only the interleaved
channels it was offered; data on another one meet a TRESPASS of the RTP connection
(`DSPGARTPConnection.cpp:703`).

### CallPlayer

The receiving side of one call: `MediaPlayerCtrl` over `DSPGMediaPlayer` in its
"sdp" mode, `DSPGAudioPlayer`, `DSPGARTPSession` and its packet sources.  Six
threads: the owner (`play()`, `stop()`), the control queue, the player's queue,
the video looper, the audio sink, the session's looper.  A thread's section
under `mLock` is one action unless it blocks there; `lock` says who holds
`mLock` meanwhile (reading the video source, calling back out of prepare,
joining the sink).  Both event queues are taken as what `TimedEventQueue` promises,
first posted first handled.  Fields nobody initialises start arbitrary
(`m_psdpInfo`, `mIsPrepareInProgress`).  `crashed` records a use of a deleted or
null object; one is real and reachable: `postAudioEOS()` sets its flag without
`mLock`, and if it does so after `reset_l()` has cancelled the events
(`DSPGMediaPlayer.cpp:491`) and before it has deleted the audio player (514),
`onCheckAudioStatus()` calls `reachedEOS()` on none.

Not in the model, because nothing in a call reaches it: PREPARE_CANCELLED and
the wait for it in `reset_l()`, seeking, looping, buffering, cache underruns,
suspend.  An early frame, which only postpones its event, is one disjunct of the
video event.

### Streamer

The sending side of one track, from the creation of an `ARTPStreamer` by a
recorder to the end of `stop()`.  The recorders create a new streamer for each
call, so it is started once.  The owner is the thread in `start()` and
`stop()`; the looper handles `kWhatStart` and `kWhatRead`.  Reading a buffer and
sending one packet are steps, so a `stop()` falls between any two packets.
Buffers are lengths, after the start code is stripped (0 is a buffer that was a
start code only: H.264 sends it as a packet that carries nothing); `Skipped`, `Accepted`, `Alone`, `LastFits` say how each
format cuts them.  The looper is Android's and modelled by what the code relies
on: a message to a handler that is not registered is dropped, and dropping the
last reference to the looper joins its thread.  An assertion (`CHECK`) ends the
process: `Abort`, also those of `dumpSessionDesc()` before `start()` is answered.  `kWhatSendSR` is posted and does nothing, as in the code,
and `kWhatStop` is never posted.  The M-bit is left out: the receiver does not
read it.

### CallSetup

A call from the user's button to the last `close()`: `startCall()` and
`endCall()` of the activity, `start()` and `stop()` of the JNI layer, and the
functions of `MediaController.cpp`, with the recorders, the player and the CSS
reduced to what they hold.  The application's thread is a place (`ui`) for each
step that can fail or wait: the four sockets, the camera, the encoder, the two
streamers, `play()`, the four steps of `StartCssAudio()`, and the steps of
stopping.  `sLock` needs no variable: only this thread takes it.  What else
happens meanwhile is a looper that gets its streamer started (and delivers the
SDP first), the rest of the process that opens and closes descriptors, and the
death of the process, by an assertion of the code (`Dies` in `SetupEncoder`,
`StartAudio`, `Play`) or at any other moment (`Die`).

As in the code, a failed recorder does not stop the call from starting, the
result of `play()` replaces the recorder's, socket ids and the node are never
reset, a node is leaked by a failed `StartCssAudio()`, and `m_psdpInfo` starts
uninitialised and is never cleared.  Owners of descriptors, the number of the
call the parameter sets are from, and the number of calls and deaths are history.
`finalize()` of the Java object, which would stop once more, is left out: the
object belongs to the application and lives as long as the process.

`StopCssAudio()` returns early when the CSS does not release its node, and the phone
stays in the call (`MediaController.cpp:376-384`); `StartCssAudio()` goes on to
allocate another (323-335); whether the RTP session could be stopped is not looked
at.  The CSS may refuse each of these (`Refuses`).  The descriptor 255 is what
`closeSockets()` takes for unset: a socket that gets it is never closed.

Taken from the outside: a socket gets the lowest free descriptor (POSIX); the CSS
gives the lowest free node and refuses to release one that is not allocated; the
CSS's nodes, its session and the phone state survive the process;
the kernel closes the sockets of a dead one.

### CallControls

What the user does to the video of a call: the list of qualities
(`configQuality()` through the JNI layer and `MediaController` to `setBitrate()` and
`setAVCIntraPeriod()` of the encoder), and the panel that reads the counters of
encoder and decoder every three seconds.  Both run in the application's thread,
so an action is a whole click, except for a reading, whose steps are places of
`pc`: the streamer's looper and the player's thread increment the counters
meanwhile, and neither side locks.  The player's `mFrameRate++` is a read and a
write (`adding`), so a count may be lost or may come back after the reading
cleared it.  Starting and ending a call are one step each; the recorder may
fail before its encoder has an `mIOMX`, or after.  What the constructor leaves
uninitialised is any value of `Garbage`.

As in the code: a quality the encoder refused cannot be chosen again in the call
(the metadata are set first, and "Ignore if its same value" compares with them);
a failed `setBitrate()` is hidden by the result of `setAVCIntraPeriod()`;
`mShowingEncoderInfo` outlives the call, so the panel of the next one may need a
second tap; the first reading of a call may be garbage; and `getEncoderInfo()`
alone does not test `mIOMX`, so the panel ends the process in a video call whose
recorder failed before any encoder was set up.

An encoder's settings are named by the quality they were made of.  Those of
`setupEncoder()` and of `configureQuality()` are not the same numbers: the interval
between I frames is a whole number of seconds in the one, a number of frames in the
other (`VideoEncoderController.cpp:244-258`, 298-320).  The model takes them for the
same quality.

Left out: the frame rate (no menu opens its dialog), I frames on request, the
display toggle, `setSurface()`, and the reset of the streamer's counter, which happens
only when it is read at exactly 2^31 - 1.

## 3. Runs

| run | asks | bounds, and why they are enough |
|---|---|---|
| `queue` | safety and refinement of the queue; `stop()` returns, every posting ends | 2 events, 1 client, 3 postings, times 0..2, cap 1: an event in front of another, both waits, a capped wait, two runs of the queue with a stop between them |
| `rtp` | order, wholeness, damage, waste | 6 streams of up to 6 packets in 5 formats, numbers 5.. modulo 8 (so they wrap after three packets, and the first packets may be reordered across the wrap), reordering by up to 3 places, 1 tick of patience |
| `media` | every datagram is read, reports are sent, the end reaches the track | 2 tracks, 1 unit in a source, 1 datagram or notice on its way besides what is being handled: RTP, RTCP, BYE and malformed packets in any order on four sockets, stop and release at any time |
| `rtsp` | replies; polling; requests settle after a disconnect | 2 connects, 1 disconnect, 2 requests, 1 server message under way: reconnect during a connect, two requests with an authentication retry, a response without CSeq before the answer to the request it is given to, each of which may come in two parts or be cut off |
| `session` | sockets are closed; the end is noticed; buffering and the player's calls end | 1 track (or none that is accepted), 1 redirect, no seek, 1 packet on its way, sources of 2 units whose duration just passes the high water mark: both transports, aborts in every phase, late packets for a track that is gone |
| `session_seeks` | assertions, the check for the end, fresh media and one report for a seek | the same with 1 seek, packets of a track that is gone left out: a seek crossed by an abort, a broken connection, the end, a refused PAUSE or PLAY, media of two segments |
| `call` | player safety, `stop()` returns, playback completes | audio and video, up to 1 frame queued per track; SDP that the encoder provides |
| `streamer` | what is sent can be put together again; BYE comes last; `start()` and `stop()` return | three formats, 3 buffers of 0 to 6 or 8 bytes and then only empty reads and the end; datagrams of 17 bytes hold 5 bytes alone, 3 as one of several and 4 of AMR, so every format has a buffer that just fits, one that just does not and one of three packets; numbers modulo 4 wrap |
| `setup` | a call is all there or all gone; sockets, nodes and the SDP are this call's; starting ends | 4 descriptors, one of them 255, for 4 sockets and 1 foreign file (so they can run out), 2 nodes, 2 calls, 1 refusal of the CSS, 1 death besides those by assertion, 6 settings: a second call with other settings meets what the first, ended, failed or killed, has left |
| `controls` | the panel is of this call, the encoder has the quality chosen, counts add up | 2 calls, 3 qualities, 2 frames each way and 3 readings per call, 3 values of uninitialised memory: a third reading is the first that can report a frame again |
| `call_stop_waits` | the comment in `stop()` | violated |
| `setup_stale_sdp` | the comment in `play()` on waiting for the encoder | as `setup`; violated |

No run uses symmetry, since most check liveness.  Deadlock checking is off
where the program may stop: no more postings, calls or messages.

`session` has one track because with two the claim of `BufferingEnds` is not the
code's: `getQueueDurationUs()` takes the least of all tracks, so a track that has
stopped while another goes on keeps the player waiting for its cache.

### Fairness

* Queue: weak fairness of the worker's steps and of the clock, and of the
  owner's join; clients and posters need not act.
* RTSP connection: weak fairness of the looper only; the server may fall silent.
  A looper that waits in `recv()` has no step, so nothing is assumed of the rest of
  a message; `DisconnectSettles` has that as its premise (`[]<>~Stuck`).
* RTP session: weak fairness of its looper (both queues); the network and the
  player need not act.
* RTSP session: weak fairness of both loopers, of delayed messages (`timers`), of
  the player where it waits (`Waits`: a condition variable, or an update that posts
  itself every second), and of the server's answers to requests.  It need not
  send media, connections may break, and nobody has to play or seek.
* Streamer: weak fairness of the looper, of the owner once it is in `start()` or
  `stop()`, and of a started source, which answers a read (camera and
  microphone run until `mSource->stop()`).  Nobody has to call `start()` or
  `stop()`, and the process may abort.
* Call set-up: weak fairness of the application's thread, except where it is in
  the player's `stop()` (run `call_stop_waits` shows that it need not return),
  and of a streamer that is being started.  Nobody has to start or end a call.
* Player: weak fairness of every thread, strong fairness of the steps that take
  `mLock` (it is free for 10 ms between two video events, `postVideoEvent_l()`),
  and of the filling of the audio buffer.  The peer need not send or say BYE,
  and nobody has to call `play()` or `stop()`.

### What the violations show

* `call_stop_waits`: `stop()` may wait for a prepare that has failed or is over.
* `setup_stale_sdp`: `play()` waits for the encoder only in the first call of a
  process; later a video call whose camera or encoder fails is played with the
  parameter sets of an earlier call or with empty ones.

### What the passing runs except

Some properties name what the code does fail to do:

* `StartEnds` (`setup`) excepts `WaitsInVain`: in the first call of a process, when
  the encoder cannot be set up, `play()` waits for an SDP that cannot come, in
  the application's thread and with `sLock` held.
* `AssertionsHold` (`session_seeks`) is about what the code asserts of its own state.
  It excepts four such assertions and says when each fails (section 2,
  RTSPSession); of those on what comes from outside (`Outside`) it claims nothing.
* `SocketsClosed` (`session`) excepts a `connect()` that fails after an accepted
  SETUP: the pairs leak.
* `FreshAfterSeek` (`session_seeks`) keeps units from before a seek away only if
  the numbers of the response to PLAY tell them (`told`).
* The properties of `rtp` end at a packet the source numbers wrong (`astray`);
  `HolesMarked` leaves out AMR and LATM, `NothingWasted` the units of LATM that are
  garbled.
* `DisconnectSettles` (`rtsp`) excepts a server that stops in the middle of a message
  and leaves the connection open.
* `MediaGoesOn` (`media`) ends where `select()` or `sendto()` of a report has failed.
* `CallIsWhole` (`setup`) names what may be left: a phone in a call, or a session, when
  the CSS has refused to release a node or to stop, or a process has died; a
  socket whose descriptor is 255.  `OneNode` allows a node for each refusal.
* `QualityIsChosen` (`controls`) excepts a quality that the encoder refused.
* `CallsReturn` (`session`) excepts a deaf connection, and RTCP without media.
* `ResponseMatches` (`rtsp`) speaks of responses that have a CSeq.
* `PanelBelongsToCall` (`controls`) lets the process die only in a call whose
  encoder was not set up.
* The liveness properties of the player end at a crash; `StopReturns` begins where
  `stop()` has come through its wait for prepare (run `call_stop_waits`).

## 4. Proofs

### The queue

`TimedEventQueueProofs` proves, for any events, clients and bounds,

* `TypeCorrect`: `Spec => []TypeOK`;
* `EventsEndOnce`: `Spec => []PostedOnce`: every id ever given out is in exactly
  one of: the queue, the worker's hand, `fired`, `cancelled`, `dropped`;
* `NeverOversleeps`: `Spec => []NoOversleep`;
* `FlushDropsNothingOlder`: `Spec => FlushHandlesAll`;
* `QueueImplementsSchedule`: `Spec => ImplementsSchedule`, the refinement.

`PostedOnce` alone is not inductive: taking an item from the list by the id of
its event object removes the right posting only if no two items in the list
share an object.  The inductive invariant is

    IInv == TypeOK /\ UniqueEvents /\ PostedOnce /\ Ordered /\ Waiting

`UniqueEvents` (each object once in the list), `Ordered` (the list is sorted by
time, which `InsertionPoint` needs to be where it looks) and `Waiting` (what
the worker knows of the head in each of its places).  The lemmas
`InsertAtProps`/`RemoveAtProps` describe insertion into and removal from a
sequence; `PostInserts`, `EraseRemoves` apply them to the queue; then one lemma
per action.  `NoOversleep` is inductive on top of it: of the actions that change
the head, a post wakes the worker (`PostWakes`) and a cancel leaves a later head
(`CancelWakes`).

`FlushHandlesAll` compares the ids in the list with that of the StopEvent when
the worker is joined, so its invariant follows the StopEvent from the post to
the join: `HeldIDs` (no client can cancel it, for no other event object ever had
its id) and `Stopping` (it is in the list until it is fired, and once it is out,
with a flush, only younger postings are in).

The refinement maps the list to the set of its postings and what is in the
worker's hand to handled ones.  `StepFollowsSchedule` shows step by step that a
post is `Post`, a cancel or the dropping at the end `Withdraw`, a taking of the
head `Handle` of an earliest posting that is due, time `Tick`, the rest a stutter.

Assumed: `ConstantsAssumption` of `TimedEventQueue` only, which TLC evaluates in
the run `queue`.

### The RTSP connection

`RTSPConnectionProofs` proves, for any sets of calls and any bound on what the
server has under way,

* `EveryCallRepliedOnce`: `Spec => []RepliedOnce`;
* `ResponsesReachTheirCall`: `Spec => []ResponseMatches`;
* `ConnectionIsPolled`: `Spec => []PolledOnce`;
* `ConnectionTypes`: types, and `Idle`.

The inductive invariant is their conjunction with two more parts.  `Idle`: a
connection that is not connected has no open request, and nothing comes from a
server.  `Matched` is what `ResponseMatches` needs and does not say: every CSeq in
the table of open requests, at the server, or on the way back is one already
used, and two of these with the same CSeq are of the same call.  So a new
request's CSeq is new, whatever is still under way.  `RepliedOnce` and
`PolledOnce` count messages in the mailbox; the lemmas `CountAppend`, `CountTail`
and their like say how counts follow appending, taking the head, and removing
an entry of the table, and a lemma per handler (with one per kind of server
message) adds them up (`Owed`).  Assumed: `ConnectionAssumption` only.

### The player of a call

`CallPlayerProofs` proves, for each set of tracks, whether or not the encoder
provides the SDP,

* `NobodyReadsAfterReset`: `Spec => []NoUseAfterReset`;
* `VideoKeepsGoing`: `Spec => []VideoGoesOn`;
* `CompleteIsReportedOnce`: `Spec => []CompletesOnceAtEnd`.

All three depend on the order in which six threads pass the start and the end
of a player on.  The inductive invariant adds to them `Locks` (who holds `mLock`
in which place), `Starts` (the start is in one hand at a time, owner, player's
queue or control queue, and until it arrives the player has not started
anything), `Over` (a start that arrives after `reset_l()` finds no flag set) and
`Ends` (what has ended, or was cancelled, has nothing left that could go on or
end again).  One lemma has the owner's steps, one the two queues', one those of
the media threads.  Assumed:
`CallAssumption` only.

### The streamer

`SenderProofs`, which holds the proofs of the streamer and of the controls of a
call, proves of `Streamer`, for any capacity of a datagram beyond its headers, any
lengths of buffers and any width of the sequence number,

* `FramesAreWhole`: `Spec => []WholeFrames`: the packets sent are numbered without
  a gap, none is larger than a datagram, each continues the one before it, and
  of every buffer read before the current one the last packet was sent;
* `ByeIsLast`: `Spec => NothingAfterBye`;
* `TypeCorrect`: `Spec => []TypeOK`.

The inductive invariant adds to `TypeOK` and `WholeFrames`: `Announced` (where
H.264 may be before its parameter sets are known), `Progress` (the buffer being
sent is one its format accepts, and the last packet sent ends where the next
begins; without it `Follows` cannot be carried over to the next packet),
`Numbered` (the next number is the last one's successor) and `Stopping` (after
the join the looper is idle with no messages, which is what BYE relies on).
`QuietKeeps`, `ReceiveKeeps` and `SendKeeps` are the three kinds of steps; every
action is one of them.  Assumed: `StreamerAssumption` only.

### Call set-up

`CallSetupProofs` proves, for any settings, descriptors, nodes and any number of
calls and deaths,

* `CallsAreWhole`: `Spec => []CallIsWhole`;
* `UsedSocketsStayOpen`: `Spec => []SocketsOpenWhileUsed`;
* `OthersKeepTheirs`: `Spec => ClosesOwn`;
* `OneNodeAtMost`: `Spec => []OneNode`;
* `SdpIsThisCalls`: `Spec => []SdpIsOurs`;
* `TypeCorrect`: `Spec => []TypeOK`.

These speak of what holds between two calls or at a `close()`, and each depends
on every step since the call began, including the refusals of the CSS.  The
inductive invariant `IInv` therefore
says for each resource at which places of the thread it is there: `Flags`
(`m_IsinCall`), `SocketsAre` (the ids opened so far are exactly the descriptors
of the application), `VideoIs`, `AudioIs`, `PlayerIs`, `CssIs`, and `NodesAre` (besides the node that is used, and besides node 0,
no more are allocated than the CSS refused to release, because one is released
before another is asked for; both are needed, since a new process takes node 0
for its own).  One lemma
per part, with one step per action, shows that it is kept; `SocketsOpenWhileUsed`
follows from the others while the process lives (`UsedAreOpened`), and dying
changes nothing it speaks of (`DyingKeepsSockets`).  `SdpIsOurs` needs on top of
`IInv` that a streamer that has started did so after this call's parameter sets
came (`SdpIs`).  Assumed:
`SetupAssumption` only: the descriptors and the nodes are any natural numbers, and 0
is a node.

### The controls of a call

`SenderProofs` proves of `CallControls`, for any qualities, any uninitialised values and any
number of calls, frames and readings, the three properties of the run
`controls`, each by an inductive invariant of its own:

* `PanelsBelong`: `Spec => []PanelBelongsToCall`, with `PanelInv`: a reading is
  posted only while none is running, and a call with an encoder has its `mIOMX`;
* `QualitiesAreChosen`: `Spec => []QualityIsChosen`, with `QualityInv`;
* `ReadingsAreSound`: `Spec => []ReadingsAddUp`, with `CountInv`: what was
  reported so far ends at the count last noted (`EncoderCounts`, by the place the
  reading is at), and the player's count, also the one read and not yet written
  back, is never above the frames decoded (`DecoderCounts`).

Assumed: `ControlsAssumption` only.

### The receiver

`RTPReceiverProofs` proves, for any set of streams of the five formats, any widths
of the two sequence numbers and any patience,

* `UnitsComeInOrder`: `Spec => []InOrder`;
* `NALUnitsAreWhole`: `Spec => []WholeUnits`;
* `HolesHaveTheirMark`: `Spec => []HolesMarked`;
* `NothingIsWasted`: `WellSent => (Spec => NothingWasted)`;
* `ReceiverTypes`: `Spec => [](astray \/ TypeOK)`.

Nothing is asked of the network.  Each property holds until a packet comes that
`Strays` (half the wire numbers or more away from the newest, or from before the
first one received and across a wrap); the invariant is proved as
`astray \/ IInv`.  `WellSent` says that nothing that stands for itself is sent between
the fragments of a NAL unit: it would be deleted with them (`DropFragments`).

The heart of it is `ExtendedIsNumber`: of the three candidates for a packet's
number, computed modulo `WideMod`, the closest to the highest is its `Number`, its
place in the stream plus a `Shift` that the first packet fixes, unless it strays.  From there the
queue is `Sorted` and `Numbered`.  `Fresh` is a tail of it (`FreshIsRest`), and what
an assembler takes is a run of neighbours whose last number precedes the next
expected (`ConsumedAre`, `TakenIs`).  `Behind`, that all that was used is in front of
what is expected, makes every new unit later than all before it; `Expecting`, that
this never runs ahead of the stream, keeps `packetLost()` from wrapping.
`HolesMarked` speaks of posted units, so `Marking` carries it through the unit being
collected: without a mark it has no hole, follows the last one posted, and ends
just before what is expected.  `NothingWasted` needs `Settled`: what waits in the
queue though its turn is over came too late.

Assumed: `ReceiverAssumption`.  It includes that a stream is at least two rounds of
wire numbers shorter than `WideMod`: some 2^32 packets, which no call sends.

### The RTSP session

`RTSPSessionProofs` proves, for any number of tracks, any formats, media units and
bounds,

* `TypesOfSession`: `Spec => []TypeOK`;
* `SeeksAreReportedOnce`: `Spec => []SeekDoneOnce`;
* `ChecksAreArmed`: `Spec => []CheckArmed`.

The handler keeps hardly any state of its dialogue: where a session stands is
in the messages on their way.  So the proofs count them.  `Total` is how many
messages of a set are in the mailbox or, as requests, at the server.  A request,
its reply and the message that asks for it are counted alike, so that neither the
connection nor the server changes a count (`ConnectionFlow`, `ServerFlow`), whatever
breaks; a handler takes one message out and puts at most two in (`TakesFlow`).

`SeekDoneOnce` follows with the messages of a seek: their number is 1 while
`seekDone` is set, else 0 (`SeekInv`).  It speaks of a process that lives, so it
needs nothing of the other invariants.

The first part of `SocketsClosed` is inductive (`OpenInv`).  The others are not: a
track set up after `disconnect()` or `connect()` has returned would keep its sockets,
so it has to be shown that nothing is left that could set one up.  Every message gets a `Kind` by
what it leads to (`setup`, `play`, `retry`, `tiou`, `exit`, ...; `Flying` counts
each), and a session is in one of two phases:

* `Fed`: it is the attempt over TCP, nothing sets up or retries, and it cannot be
  both left and have tracks.  Once true this stays (`FedStays`);
* before, `UnfedInv`: at most one message may still lead to a session that plays
  (`Attempts`), no medium has come or can come (`Quiet`, `NoInjected`), and the
  player has not been told of a connection (`Untold`).

A server can send media only over a stream that is interleaved and set up, which
the first attempt has none of and the second gets just before it becomes `Fed`;
`UnfedHandler`, `UnfedConnection`, `UnfedServer`, `UnfedOthers`, `UnfedWaits` and
`UnfedExpires` show that each step keeps this or makes the session fed.
`PlayerInv` joins it to what the player waits for: `cdon` comes once, `ddon` after
the last track is gone.  Both phases make `FeedInv`, which is inductive with
`TypeOK` and `SeekInv` (`FeedIsInvariant`).  Assumed: `SessionAssumption` only.

`CheckArmed` counts too: `Armed[g]` is how many checks of generation `g` are
posted or delayed.  `CheckInv` says that no check is newer than `checkGen`, that a
seek has outdated all of them, and that a session with tracks that has posted one
has exactly one of the current generation, or the abort that it led to.  It says nothing of a session
without tracks; that one which gets its first track has no check left over comes
from `FeedInv`: tracks are only set up before any medium has come.

`RTSPStreamsProofs` rests on these and proves

* `DecodersGetFreshUnits`: `Spec => []FreshAfterSeek`;
* `SocketsAreClosed`: `Spec => []SocketsClosed`;
* `AssertionsAreKept`: `Spec => []AssertionsHold`.

The invariant of the first is `FreshInv`.  `SourceInv` is what the property needs of the
sources: each track has one of its own (the indices increase, so no two tracks
share one), none holds a unit older than its track's segment if that was told from
the earlier ones, and a source that
was flushed begins with an IDR frame or scans for one (`Clean`).  It is not
inductive.  A SETUP must add a track with a new index and remove the track it
added, so `SetupInv` says that every message of a set-up fits the tracks
(`Fits`), and that a session still to be described has none.  The
response to a PLAY raises `firstSeg` although the sources are not emptied: for the
PLAY of a set-up `PlayInv` says that it is alone and the segment still 0; for the
PLAY of a seek `SeeInv` says that the sources are empty (`Emptied`) from the
response to PAUSE until it is handled.  `SeeInv` in turn needs `Wanted`, which drops
what comes while `seekPending` is set, and that a seek is not ended by anything
but its own response or an abort.  `HandlerTidies`, `HandlerPlaysOnce`,
`HandlerSeesRight` and `HandlerSources` carry the parts over a handler's step;
`OthersTidy`, `OthersPlayOnce` and `OthersSeek` over the other ones, where a message
comes from what was around before (`Comes`, `Follows`).  Assumed: `SessionAssumption`
only.

`SocketsAreClosed` joins `OpenInv` to how the player's calls end (`GoneInv`, `RefusedInv`): a
`connect()` that fails while a track is there has had a SETUP accepted (`LeakInv`),
and that is the one way to leak its pair.  `EndInv` says in what state of the
controller each call returns.

An assertion of the handler holds because of what it has of its tracks and of the
attempt, which the invariants above already say (`HandlerAsserts`,
`FirstUnitTold`); one of the RTP connection because of what it has been told, in
the order it was told.  So `NetInv` relates the tracks, the messages
in the connection's mailbox and the streams it has registered, as long as the
process lives:

* `StreamInv`: a stream is injected if and only if its socket is a pair of
  channels; only UDP pairs are removed; an injected packet finds its stream,
  which is registered by then and never removed;
* `LineInv`: a UDP pair is registered at most once and removed at most as often as
  it is registered, where a registration counts in the mailbox (`add`) as well as
  in the list (`Regs`, `Removals`); no UDP pair is added behind a removal; once
  something is to be removed the session interleaves, with no UDP pair left.
  A UDP pair that is registered and not to be removed is still open, which
  is why `select()` meets a closed socket only in the state that `AssertionsHold`
  excepts (`NetworkAsserts`, `PolledClosed`);
* `JoinInv`: a track's pair is added exactly when its SETUP succeeded, at most
  one SETUP is on its way, and after `tiou` has turned to TCP there are UDP pairs
  only as long as the abort that closes them is on its way.

None of the three is inductive alone: that `abor` removes only what was added
needs `JoinInv`, and that a removal finds its stream needs the order of `LineInv`.  One lemma
for each step that touches them carries all three (`SetuKeepsNet`,
`AborKeepsNet`, `TiouKeepsNet`, `BinyKeepsNet`, `DescKeepsNet`, `NetworkKeepsNet`;
`CalmKeepsNet` and `AwayKeepsNet` for the rest), on top of `TypeOK`, `SeekInv`, `FeedInv`,
`FreshInv` and `OpenInv`.  Assumed: `SessionAssumption` only.

### Not proved

Every safety property that a passing run checks is a theorem.  Only model-checked
is all liveness, since fairness and `ENABLED` are beyond the proof system:
`StopTerminates` and `EveryPostHandled` (`queue`), `DisconnectSettles` (`rtsp`),
`StopReturns` and `PlaybackCompletes` (`call`), `StartStopReturn` (`streamer`),
`StartEnds` (`setup`), `EndNoticed`, `BufferingEnds` and `CallsReturn` (`session`)
and `MediaGoesOn` (`media`).  No module uses a `RECURSIVE` operator.

## 5. Plan

Left: the media path, from the packets of `Streamer` through the network of
`RTPReceiver` to access units (a round trip in one module).

### Not modelled

The RTSP transmitter, RTP writer and UDP pusher (no caller in the application);
the SDP parser (pure text); the wrappers of AudioRecord and AudioTrack
(`DSPGAudioSource`, `DSPGAudioOutput`: arithmetic on what the device reports);
widgets; of the camera and the encoder, the calls that set other parameters than
bit rate and intra period; of the player, files, HTTP, looping, suspend and resume,
which neither a call nor an RTSP URL uses; of the JNI layer and the application,
surfaces, I frames on request and run-time frame rate; in every component, the
texts that are built or parsed, whose outcome is what the models branch on.
Data races on the memory of a list (`DSPGTimedEventQueue.cpp:85`) are below the grain
of the models.
