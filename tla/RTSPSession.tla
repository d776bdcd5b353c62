------------------------------ MODULE RTSPSession ------------------------------
(***************************************************************************)
(* A player of an RTSP URL: the session handler DSPGMyHandler              *)
(* (src/jni/player/rtsp/DSPGMyHandler.h), which describes, sets up, plays, *)
(* seeks in and tears down the streams of a server; DSPGARTSPController,   *)
(* through which the player connects, seeks and disconnects; and the       *)
(* player itself as far as it buffers (src/jni/player/DSPGMediaPlayer.cpp).*)
(* Handler, controller and RTSP connection share one looper: its queue is  *)
(* RTPConnection's mailbox.  The RTP connection has its own looper.        *)
(*                                                                         *)
(* Nobody calls start() of the RTP connection here (only DSPGARTPSession   *)
(* does), so whatever comes to its UDP sockets is dropped, and every       *)
(* session that plays has first failed for 10 s and then tried again with  *)
(* the streams interleaved in the RTSP connection.                         *)
(***************************************************************************)
EXTENDS RTPConnection, PacketSource

CONSTANTS NumTracks,   \* tracks of the session description, from 1
          MaxSeeks,    \* bound on the seeks, and so on the segments played
          MaxMoves,    \* bound on how often the server moves a session
          MaxMedia,    \* bound on the packets on their way through the loopers
          Late,        \* do packets still come for a track that is gone?
          MaxBuffers,  \* bound on the units a source holds
          LowWater,    \* kLowWaterMarkUs
          HighWater    \* kHighWaterMarkUs

ASSUME SessionAssumption ==
    /\ NumTracks \in Nat \ {0}
    /\ MaxSeeks \in Nat
    /\ MaxMoves \in Nat
    /\ MaxMedia \in Nat \ {0}
    /\ Late \in BOOLEAN
    /\ Spacing \in Nat
    /\ LowWater \in Nat
    /\ HighWater \in LowWater .. Spacing * (MaxBuffers - 1) - 1
    /\ Sockets = {"udp", "tcp"} \X (1 .. NumTracks)
    /\ Units \subseteq [seg : 0 .. MaxSeeks, idr : BOOLEAN, damaged : {FALSE}]

VARIABLES handler,   \* the fields of DSPGMyHandler
          tracks,    \* mTracks
          source,    \* the packet source of each track of the description
          timers,    \* delayed messages
          conn,      \* the RTSP connection: closed, open, or deaf after an error
          pending,   \* the replies to the requests the server has to answer
          serving,   \* does the server play, over this connection?
          segment,   \* which part of the stream it plays
          state,     \* mState of the controller
          seekDone,  \* mSeekDoneCb is set
          player,    \* what the player is doing
          playing,   \* PLAYING
          underrun,  \* CACHE_UNDERRUN
          seeks      \* how often it has sought

sessionVars == <<handler, tracks, source, timers>>
serverVars == <<conn, pending, serving, segment>>
playerVars == <<state, seekDone, player, playing, underrun, seeks>>
vars == <<netVars, open, mailbox, crashed, sessionVars, serverVars, playerVars>>

NoTrack == 0
None == "none"

Current == Head(mailbox)
Handled == Tail(mailbox)

-----------------------------------------------------------------------------
(* Messages.                                                               *)

Ask(reply) == [what |-> "send", reply |-> reply]        \* sendRequest()
Connect == [what |-> "connect"]                         \* connect()
Disconnect(reply) == [what |-> "disconnect", reply |-> reply]

Disc(again) == [what |-> "disc", again |-> again]
Abor(again) == [what |-> "abor", again |-> again]
Chek(generation) == [what |-> "chek", generation |-> generation]
Tiou == [what |-> "tiou"]

With(reply, result) == [reply EXCEPT !.result = result]
Reply(what) == [what |-> what, result |-> None]
DescReply(moved) == [what |-> "desc", moved |-> moved, result |-> None]
SetuReply(index, track) ==
    [what |-> "setu", index |-> index, track |-> track, result |-> None]
TearReply(again) == [what |-> "tear", again |-> again, result |-> None]

Failed(msg) == msg.result \notin {"ok", "live"}

SourceOf(track) == source[tracks[track].index]

-----------------------------------------------------------------------------
(* Mutated forms of definitions below.                                     *)

KeepsQueue(s) == [s EXCEPT !.scanForIDR = TRUE, !.fresh = TRUE]

OnlyAborts(failed) == IF failed THEN <<Abor(FALSE)>> ELSE <<[what |-> "sdon"]>>

LeavesCheckPending(hd) == hd

ForgetsToClose == open

ForgetsToRemove == <<>>

ChecksOnce(check) == {}

RetriesForEver(hd) == hd

-----------------------------------------------------------------------------
(* The RTSP connection, in the looper: it promises a reply to every call   *)
(* (module RTSPConnection), and to those still waiting when it is closed.  *)

Flushed == [i \in DOMAIN pending |-> With(pending[i], "error")]

ConnConnect ==
    /\ Current.what = "connect"
    /\ pending' = <<>>
    /\ \E ok \in BOOLEAN :
          /\ conn' = IF ok THEN "open" ELSE "closed"
          /\ mailbox' = Handled \o Flushed
                \o <<With(Reply("conn"), IF ok THEN "ok" ELSE "error")>>
    /\ serving' = FALSE
    /\ UNCHANGED segment

ConnDisconnect ==
    /\ Current.what = "disconnect"
    /\ conn' = "closed"
    /\ pending' = <<>>
    /\ mailbox' = Handled \o Flushed \o <<Current.reply>>
    /\ serving' = FALSE
    /\ UNCHANGED segment

\* After an error nobody reads the socket, but one may still write to it.
ConnSendRequest ==
    /\ Current.what = "send"
    /\ \/ /\ conn # "closed"
          /\ pending' = Append(pending, Current.reply)
          /\ mailbox' = Handled
       \/ /\ pending' = pending
          /\ mailbox' = Append(Handled, With(Current.reply, "error"))
    /\ UNCHANGED <<conn, serving, segment>>

Connection ==
    /\ ConnConnect \/ ConnDisconnect \/ ConnSendRequest
    /\ UNCHANGED <<netVars, open, crashed, sessionVars, playerVars>>

-----------------------------------------------------------------------------
(* The server.                                                             *)

\* It plays, with or without a range to seek in, pauses, refuses, moves.
Answers(reply) ==
    {"ok", "refused"} \cup (CASE reply.what = "desc" ->
                                {"moved" : n \in {reply.moved} \ {MaxMoves}}
                              [] reply.what \in {"play", "see2"} -> {"live"}
                              [] OTHER -> {})

ServerAnswers ==
    /\ conn = "open"
    /\ pending # <<>>
    /\ pending' = Tail(pending)
    /\ \E result \in Answers(Head(pending)) :
          LET reply == With(Head(pending), result)
              what == reply.what
          IN  /\ mailbox' = Append(mailbox, reply)
              /\ serving' = CASE what \in {"play", "see2"} -> ~Failed(reply)
                              [] what \in {"see1", "tear"} -> FALSE
                              [] OTHER -> serving
              /\ segment' = IF what = "see2" /\ ~Failed(reply)
                            THEN segment + 1 ELSE segment
    /\ UNCHANGED <<conn, netVars, open, crashed>>

\* The connection breaks, or a response on it cannot be read.
ConnectionLost ==
    /\ conn = "open"
    /\ conn' = "deaf"
    /\ pending' = <<>>
    /\ mailbox' = mailbox \o Flushed
    /\ serving' = FALSE
    /\ UNCHANGED <<segment, netVars, open, crashed>>

IsMedia(m) == m.what \in {"biny", "inject"} \/ (m.what = "accu" /\ m.kind = "unit")

OnTheirWay == Cardinality({i \in DOMAIN mailbox : IsMedia(mailbox[i])})
              + Cardinality({i \in DOMAIN netbox : IsMedia(netbox[i])})

\* What it may send of the segment it plays, each packet a unit of its own.
Sendable == {RTP(<<u>>) : u \in {v \in Units : v.seg = segment}}
            \cup {RTCP(TRUE, FALSE)}

\* The streams whose source has room left, or is gone.
Playable == {i \in DOMAIN streams :
                IF streams[i].track \in DOMAIN tracks
                THEN Len(SourceOf(streams[i].track).buffers) < MaxBuffers
                ELSE Late}

\* Interleaved data is handed on by the RTSP connection as 'biny'.
ServerSendsInterleaved ==
    /\ serving
    /\ conn = "open"
    /\ OnTheirWay < MaxMedia
    /\ \E i \in Playable, p \in Sendable :
          /\ streams[i].injected
          /\ mailbox' = Append(mailbox, [what |-> "biny",
                                         socket |-> streams[i].socket,
                                         packet |-> p])
    /\ UNCHANGED <<serverVars, netVars, open, crashed>>

Server ==
    /\ \/ ServerAnswers \/ ConnectionLost \/ ServerSendsInterleaved
    /\ UNCHANGED <<sessionVars, playerVars>>

-----------------------------------------------------------------------------
(* The handler: what every message leaves behind.                          *)

\* A handler that posts these messages and keeps its packet sources.
Posts(msgs) ==
    /\ mailbox' = Handled \o msgs
    /\ crashed' = crashed

PostsToRTP(msgs) == netbox' = netbox \o msgs

Dies(where) ==
    /\ crashed' = where
    /\ UNCHANGED <<mailbox, sessionVars, netbox, open, state, seekDone>>

Calm == UNCHANGED <<netbox, open, state, seekDone>>

\* setupTrack(): a format without a source is skipped by a reply of its own;
\* another takes a pair of sockets, or of channels.
SocketOf(index, list) ==
    IF handler.tryTCP THEN <<"tcp", Len(list) + 1>> ELSE <<"udp", index>>

SetupTrack(index, list, sources) ==
    \E f \in Formats :
        \/ /\ ~Accepts(f)
           /\ Posts(<<With(SetuReply(index, NoTrack), "error")>>)
           /\ tracks' = list
           /\ source' = sources
        \/ /\ Accepts(f)
           /\ source' = [i \in {index} \cup DOMAIN sources |->
                            IF i = index THEN NewSource(f) ELSE sources[i]]
           /\ tracks' = Append(list, [index |-> index, firstSeg |-> 0,
                                      told |-> TRUE,
                                      socket |-> SocketOf(index, list)])
           /\ Posts(<<Ask(SetuReply(index, Len(list) + 1))>>)

PairsOf(list) == {list[i].socket : i \in DOMAIN list} \ ({"tcp"} \X (1 .. NumTracks))

OnConn ==
    /\ Current.what = "conn"
    /\ Posts(<<IF Failed(Current) THEN Disc(FALSE) ELSE Ask(DescReply(0))>>)
    /\ UNCHANGED sessionVars
    /\ Calm

OnDisc ==
    /\ Current.what = "disc"
    /\ Posts(<<IF Current.again THEN Connect ELSE [what |-> "quit"]>>)
    /\ UNCHANGED sessionVars
    /\ Calm

OnDesc ==
    /\ Current.what = "desc"
    /\ \/ /\ Current.result = "moved"
          /\ Posts(<<Ask(DescReply(Current.moved + 1))>>)
          /\ UNCHANGED <<tracks, source, open>>
       \/ /\ Current.result \in {"refused", "error"}
          /\ Posts(<<Disconnect(Disc(FALSE))>>)
          /\ UNCHANGED <<tracks, source, open>>
       \/ /\ Current.result = "ok"
          /\ SetupTrack(1, tracks, source)
          /\ open' = open \cup PairsOf(tracks')
    /\ UNCHANGED <<handler, timers, netbox, state, seekDone>>

\* A track that was refused is forgotten; then comes the next one, or PLAY.
OnSetu ==
    LET msg == Current
        set == ~Failed(msg)
        gone == msg.track # NoTrack /\ msg.track \notin DOMAIN tracks
        kept == IF set \/ msg.track = NoTrack THEN tracks
                ELSE RemoveAt(tracks, msg.track)
        sources == IF set \/ msg.track = NoTrack THEN source
                   ELSE Restrict(source, DOMAIN source \ {msg.index})
        ready == set \/ handler.setupOK
    IN  /\ msg.what = "setu"
        /\ IF gone THEN Dies("setting up a track that is gone")
           ELSE
              /\ handler' = [handler EXCEPT !.setupOK = ready]
              /\ PostsToRTP(IF set THEN <<AddStream(tracks[msg.track].socket,
                                                   msg.track, handler.tryTCP)>>
                                   ELSE <<>>)
              /\ IF msg.index < NumTracks
                 THEN SetupTrack(msg.index + 1, kept, sources)
                 ELSE /\ tracks' = kept
                      /\ Posts(<<IF ready THEN Ask(Reply("play"))
                                          ELSE Disconnect(Disc(FALSE))>>)
                      /\ source' = sources
              /\ open' = (open \ PairsOf(tracks)) \cup PairsOf(tracks')
              /\ UNCHANGED <<timers, state, seekDone>>

\* parsePlayResponse(): the response of a server that has a range to seek in
\* gives the first sequence number of each track's new segment.  It tells the
\* segment from those before if it is above the numbers of their units.  It
\* need not be: it has 16 bits, and the units' numbers go on beyond them when
\* they wrap; the server may number again from below; and a track that the
\* response leaves out keeps an earlier number.
ParsePlayResponse(result, list, told) ==
    [i \in DOMAIN list |->
        IF result = "ok"
        THEN [list[i] EXCEPT !.firstSeg = segment, !.told = i \in told]
        ELSE [list[i] EXCEPT !.told = FALSE]]

OnPlay ==
    /\ Current.what = "play"
    /\ \/ /\ ~Failed(Current)
          /\ Posts(<<>>)
          /\ tracks' = ParsePlayResponse(Current.result, tracks, DOMAIN tracks)
          /\ handler' = [handler EXCEPT !.seekable = Current.result = "ok"]
          /\ timers' = timers \cup {Tiou}
       \/ /\ Failed(Current)
          /\ Posts(<<Disconnect(Disc(FALSE))>>)
          /\ UNCHANGED <<tracks, handler, timers>>
    /\ UNCHANGED source
    /\ Calm

HandlerAfterAbort ==
    [handler EXCEPT !.setupOK = FALSE, !.seekPending = FALSE,
                    !.firstUnit = TRUE, !.units = FALSE, !.gotRTCP = FALSE,
                    !.gotRTP = FALSE, !.seekable = FALSE]

\* A source lives as long as the handler or a decoder refers to it.
Kept(sources) == IF player = "disconnecting" THEN <<>> ELSE sources

OpenAfterAbort == open \ PairsOf(tracks)

StreamsRemoved ==
    LET sockets == SetToSeq(PairsOf(tracks))
    IN  [i \in DOMAIN sockets |-> RemoveStream(sockets[i])]

\* The player reads mTracks in its own threads, without a lock: it may be
\* between countTracks() and getPacketSource().
TracksRead ==
    /\ tracks # <<>>
    /\ \/ player = "connecting" /\ state = "connected"
       \/ player \in {"preparing", "prepared"}

\* The decoders get the end; streams that come by UDP are removed by message
\* and their sockets closed at once.
OnAbor ==
    /\ Current.what = "abor"
    /\ \/ TracksRead /\ Dies("reading a track that is gone")
       \/ /\ source' = Kept([i \in DOMAIN source |->
                 IF \E t \in DOMAIN tracks : tracks[t].index = i
                 THEN SignalEOS(source[i]) ELSE source[i]])
          /\ PostsToRTP(StreamsRemoved)
          /\ open' = OpenAfterAbort
          /\ tracks' = <<>>
          /\ handler' = HandlerAfterAbort
          /\ Posts(<<Ask(TearReply(Current.again))>>)
          /\ UNCHANGED <<timers, state, seekDone>>

OnTear ==
    /\ Current.what = "tear"
    /\ Posts(<<Disconnect(Disc(Current.again))>>)
    /\ UNCHANGED sessionVars
    /\ Calm

OnQuit ==
    /\ Current.what = "quit"
    /\ Posts(IF handler.doneMsg = None THEN <<>>
             ELSE <<[what |-> handler.doneMsg, result |-> "error"]>>)
    /\ handler' = [handler EXCEPT !.doneMsg = None]
    /\ UNCHANGED <<tracks, source, timers>>
    /\ Calm

-----------------------------------------------------------------------------
(* Units, timeouts and seeks.                                              *)

\* postAccessUnitTimeoutCheck()
CheckPosted(hd) == [hd EXCEPT !.checkPending = TRUE]

TimersWithCheck(hd) ==
    IF hd.checkPending THEN timers ELSE timers \cup {Chek(hd.checkGen)}

CheckedAgain(check) == {check}

UpToDate(generation) == generation = handler.checkGen

OnChek ==
    /\ Current.what = "chek"
    /\ \/ /\ ~UpToDate(Current.generation)
          /\ Posts(<<>>)
          /\ UNCHANGED <<handler, timers>>
       \/ /\ UpToDate(Current.generation)
          /\ ~handler.units
          /\ Posts(<<Abor(FALSE)>>)
          /\ UNCHANGED <<handler, timers>>
       \/ /\ UpToDate(Current.generation)
          /\ handler.units
          /\ Posts(<<>>)
          /\ handler' = [handler EXCEPT !.units = FALSE]
          /\ timers' = timers \cup CheckedAgain(Current)
    /\ UNCHANGED <<tracks, source>>
    /\ Calm

OnFirstPacket ==
    /\ Current.what = "accu"
    /\ Current.kind \in {"first-rtcp", "first-rtp"}
    /\ Posts(<<>>)
    /\ handler' = IF Current.kind = "first-rtcp"
                  THEN [handler EXCEPT !.gotRTCP = TRUE]
                  ELSE [handler EXCEPT !.gotRTP = TRUE]
    /\ UNCHANGED <<tracks, source, timers>>
    /\ Calm

\* Not late, not a BYE, and not of what was played before the seek, as far as
\* its sequence number tells: that of a unit of the new segment is never below
\* the first one.
Wanted(msg) ==
    /\ msg.track \in DOMAIN tracks
    /\ msg.kind = "unit"
    /\ ~handler.seekPending
    /\ tracks[msg.track].told => msg.unit[1].seg >= tracks[msg.track].firstSeg

Queue(msg) ==
    LET hd == CheckPosted([handler EXCEPT !.units = TRUE])
        i == tracks[msg.track].index
    IN  /\ Posts(IF handler.firstUnit
                 THEN <<[what |-> handler.doneMsg, result |-> "ok"]>> ELSE <<>>)
        /\ handler' = IF handler.firstUnit
                      THEN [hd EXCEPT !.firstUnit = FALSE, !.doneMsg = None]
                      ELSE hd
        /\ timers' = TimersWithCheck(handler)
        /\ source' = [source EXCEPT ![i] = QueueAccessUnit(@, msg.unit[1])]
        /\ UNCHANGED tracks

OnAccessUnit ==
    LET hd == CheckPosted([handler EXCEPT !.units = TRUE])
    IN  /\ Current.what = "accu"
        /\ Current.kind \in {"unit", "eos"}
        /\ \/ /\ ~Wanted(Current)
              /\ Posts(<<>>)
              /\ handler' = hd
              /\ timers' = TimersWithCheck(handler)
              /\ UNCHANGED <<tracks, source>>
           \/ /\ Wanted(Current)
              /\ IF handler.firstUnit /\ handler.doneMsg = None
                 THEN Dies("first unit")
                 ELSE Queue(Current)
        /\ Calm

\* Seeking disables the check until the server plays again.
OnSeek ==
    /\ Current.what = "seek"
    /\ \/ /\ handler.seekPending \/ ~handler.seekable
          /\ Posts(<<[what |-> "sdon"]>>)
          /\ UNCHANGED handler
       \/ /\ ~handler.seekPending /\ handler.seekable
          /\ Posts(<<Ask(Reply("see1"))>>)
          /\ handler' = [handler EXCEPT !.seekPending = TRUE,
                                        !.checkPending = TRUE,
                                        !.checkGen = @ + 1]
    /\ UNCHANGED <<tracks, source, timers>>
    /\ Calm

FlushedBySeek(s) == FlushQueue(s)

\* Whatever the server answered to PAUSE.
OnSee1 ==
    /\ Current.what = "see1"
    /\ source' = [i \in DOMAIN source |->
          IF \E n \in DOMAIN tracks : tracks[n].index = i
          THEN FlushedBySeek(source[i]) ELSE source[i]]
    /\ Posts(<<Ask(Reply("see2"))>>)
    /\ UNCHANGED <<handler, tracks, timers>>
    /\ Calm

\* The check is enabled again, and posted.
CheckEnabled(hd) == [hd EXCEPT !.checkPending = FALSE]

HandlerAfterSeek ==
    CheckPosted([handler EXCEPT !.seekPending = FALSE,
                                !.seekable = IF Failed(Current) THEN @
                                             ELSE Current.result = "ok"])

DoneOfSeek(failed) ==
    (IF failed THEN <<Abor(FALSE)>> ELSE <<>>) \o <<[what |-> "sdon"]>>

OnSee2 ==
    /\ Current.what = "see2"
    /\ \/ ~handler.seekPending /\ Dies("seek not pending")
       \/ /\ handler.seekPending
          /\ timers' = TimersWithCheck(CheckEnabled(handler))
          /\ handler' = HandlerAfterSeek
          /\ \/ Failed(Current) /\ UNCHANGED tracks
             \/ /\ ~Failed(Current)
                /\ \E told \in SUBSET DOMAIN tracks :
                      tracks' = ParsePlayResponse(Current.result, tracks, told)
          /\ Posts(DoneOfSeek(Failed(Current)))
          /\ UNCHANGED source
    /\ Calm

OnBiny ==
    /\ Current.what = "biny"
    /\ Posts(<<>>)
    /\ PostsToRTP(<<InjectPacket(Current.socket, Current.packet)>>)
    /\ UNCHANGED <<sessionVars, open, state, seekDone>>

Interleaving(hd) == [hd EXCEPT !.tryTCP = TRUE]

\* 10 s after PLAY: did anything come?
OnTiou ==
    /\ Current.what = "tiou"
    /\ \/ /\ handler.gotRTCP
          /\ Posts(<<>>)
          /\ UNCHANGED <<handler, netbox>>
       \/ /\ ~handler.gotRTCP /\ handler.gotRTP /\ ~handler.tryFake
          /\ Posts(<<>>)
          /\ PostsToRTP(<<FakeTimestamps>>)
          /\ handler' = [handler EXCEPT !.tryFake = TRUE, !.gotRTCP = TRUE]
       \/ /\ ~handler.gotRTCP /\ ~handler.gotRTP /\ ~handler.tryTCP
          /\ Posts(<<Abor(TRUE)>>)
          /\ handler' = Interleaving(handler)
          /\ UNCHANGED netbox
       \/ /\ ~handler.gotRTCP
          /\ IF handler.gotRTP THEN handler.tryFake ELSE handler.tryTCP
          /\ Posts(<<Abor(FALSE)>>)
          /\ UNCHANGED <<handler, netbox>>
    /\ UNCHANGED <<tracks, source, timers, open, state, seekDone>>

-----------------------------------------------------------------------------
(* CHECKs of the handlers that fail at what the server sent or the system  *)
(* refused.                                                                *)

\* setupTrack() of a format that is accepted: what the description says of the
\* track makes no source or no URL, or there is no pair of UDP sockets.
TrackFails == crashed' \in {"malformed description"} \cup
                  (IF handler.tryTCP THEN {} ELSE {"no sockets"})

\* No location, no content, a base that makes no URL, no track.
DescFails ==
    /\ Current.what = "desc"
    /\ ~Failed(Current)
    /\ crashed' = "malformed response" \/ (Current.result = "ok" /\ TrackFails)

\* No session or transport; then the next track is set up.
SetuFails ==
    /\ Current.what = "setu"
    /\ \/ ~Failed(Current) /\ crashed' = "malformed response"
       \/ ~Failed(Current) /\ Current.track = NoTrack /\ crashed' = "no track"
       \/ Current.index < NumTracks /\ TrackFails

\* parsePlayResponse() finds no range in it, or no URL, number or time.
PlayFails ==
    /\ Current.what = "play" \/ (Current.what = "see2" /\ handler.seekPending)
    /\ ~Failed(Current)
    /\ crashed' = "malformed response"

UnitMissing ==
    /\ Current.what = "accu"
    /\ Current.kind = "unit"
    /\ Current.unit = Nothing
    /\ crashed' = "no access unit"

\* The constructor of the handler cannot parse the URL.
URLFails ==
    /\ player = "new"
    /\ crashed' = "malformed URL"

CheckFails ==
    \/ PollFails /\ UNCHANGED <<sessionVars, serverVars, playerVars>>
    \/ /\ \/ URLFails
          \/ /\ mailbox # <<>>
             /\ DescFails \/ SetuFails \/ PlayFails \/ UnitMissing
       /\ UNCHANGED <<netVars, open, mailbox, sessionVars, serverVars, playerVars>>

-----------------------------------------------------------------------------
(* The controller's messages, and the looper.                              *)

OnConnectDone ==
    /\ Current.what = "cdon"
    /\ state' = IF Failed(Current) THEN "disconnected" ELSE "connected"
    /\ UNCHANGED seekDone

OnDisconnectDone ==
    /\ Current.what = "ddon"
    /\ state' = "disconnected"
    /\ UNCHANGED seekDone

OnSeekDone ==
    /\ Current.what = "sdon"
    /\ seekDone' = FALSE
    /\ UNCHANGED state

Controller ==
    /\ OnConnectDone \/ OnDisconnectDone \/ OnSeekDone
    /\ Posts(<<>>)
    /\ UNCHANGED <<sessionVars, netbox, open>>

Handler ==
    \/ OnConn \/ OnDisc \/ OnDesc \/ OnSetu \/ OnPlay \/ OnAbor \/ OnTear
    \/ OnQuit \/ OnChek \/ OnFirstPacket \/ OnAccessUnit \/ OnSeek \/ OnSee1
    \/ OnSee2 \/ OnBiny \/ OnTiou

Looper ==
    /\ mailbox # <<>>
    /\ \/ Connection
       \/ /\ Handler \/ Controller
          /\ UNCHANGED <<serverVars, streams, pollPending, flags, reportDue,
                         reported, rx, player, playing, underrun, seeks>>

\* The checks expire in the order they were posted, that of the generations.
Expires(m) ==
    /\ m \in timers
    /\ \A n \in timers \ {Tiou} : m # Tiou => m.generation <= n.generation
    /\ timers' = timers \ {m}
    /\ mailbox' = Append(mailbox, m)
    /\ UNCHANGED <<netVars, open, crashed, handler, tracks, source, serverVars,
                   playerVars>>

-----------------------------------------------------------------------------
(* The player.                                                             *)

\* onPrepareAsyncEvent() connects and waits.
Prepare ==
    /\ player = "new"
    /\ player' = "connecting"
    /\ state' = "connecting"
    /\ handler' = [handler EXCEPT !.doneMsg = "cdon"]
    /\ mailbox' = Append(mailbox, Connect)
    /\ UNCHANGED <<tracks, source, timers, playing, underrun, seekDone, seeks>>

\* A stream that was aborted at once has no tracks to play.
ConnectReturns ==
    /\ player = "connecting"
    /\ state # "connecting"
    /\ player' = CASE state = "disconnected" -> "refused"
                   [] state = "connected" /\ tracks = <<>> -> "failed"
                   [] OTHER -> "preparing"
    /\ UNCHANGED <<sessionVars, mailbox, state, seekDone, playing, underrun,
                   seeks>>

TracksEnded == \A t \in DOMAIN tracks : SourceOf(t).eos
Durations == {QueueDuration(SourceOf(t)) : t \in DOMAIN tracks}
Cached == IF Durations = {} THEN 0 ELSE Min(Durations)

RunningLow == playing /\ ~TracksEnded /\ Cached < LowWater
\* Mutated form.
IgnoresEnd == Cached > HighWater

Enough == TracksEnded \/ Cached > HighWater
FilledUp == ~RunningLow /\ Enough

\* onBufferingUpdate(), which posts itself.
BufferingUpdate ==
    /\ player \in {"preparing", "prepared"}
    /\ \/ RunningLow /\ playing' = FALSE /\ underrun' = TRUE /\ UNCHANGED player
       \/ /\ FilledUp /\ underrun
          /\ playing' = TRUE
          /\ underrun' = FALSE
          /\ UNCHANGED player
       \/ /\ FilledUp /\ ~underrun /\ player = "preparing"
          /\ player' = "prepared"
          /\ UNCHANGED <<playing, underrun>>
    /\ UNCHANGED <<sessionVars, mailbox, state, seekDone, seeks>>

Play ==
    /\ player = "prepared"
    /\ \E on \in BOOLEAN : playing' = on   \* play() and pause()
    /\ underrun' = FALSE
    /\ UNCHANGED <<sessionVars, mailbox, state, seekDone, player, seeks>>

\* A decoder reads a unit of a source.
Decode ==
    /\ player = "prepared" /\ playing
    /\ \E i \in DOMAIN source :
          /\ HasUnit(source[i])
          /\ source' = [source EXCEPT ![i] = AfterRead(@)]
    /\ UNCHANGED <<handler, tracks, timers, mailbox, playerVars>>

\* Each source was read to its end: onStreamDone() pauses.
StreamDone ==
    /\ player = "prepared" /\ playing
    /\ \A i \in DOMAIN source : AtEnd(source[i])
    /\ playing' = FALSE
    /\ UNCHANGED <<sessionVars, mailbox, state, seekDone, player, underrun,
                   seeks>>

\* seekAsync(); it may also find that it is too early for another seek.
Seek ==
    /\ player = "prepared"
    /\ \/ seekDone /\ Dies("seeking twice") /\ UNCHANGED seeks
       \/ /\ ~seekDone
          /\ seeks < MaxSeeks
          /\ seeks' = seeks + 1
          /\ seekDone' = TRUE
          /\ mailbox' = Append(mailbox, [what |-> "seek"])
          /\ UNCHANGED <<crashed, sessionVars, netbox, open, state>>
    /\ UNCHANGED <<player, playing, underrun>>

\* reset_l(), which waits while the player is preparing, disconnects.
Reset ==
    /\ player \in {"prepared", "failed"}
    /\ player' = "disconnecting"
    /\ playing' = FALSE
    /\ underrun' = FALSE
    /\ handler' = [handler EXCEPT !.doneMsg = "ddon"]
    /\ mailbox' = Append(mailbox, Abor(FALSE))
    /\ source' = IF tracks = <<>> THEN <<>> ELSE source
    /\ UNCHANGED <<tracks, timers, state, seekDone, seeks>>

DisconnectReturns ==
    /\ player = "disconnecting"
    /\ state # "connected"
    /\ player' = "gone"
    /\ UNCHANGED <<sessionVars, mailbox, state, seekDone, playing, underrun,
                   seeks>>

Waits == ConnectReturns \/ BufferingUpdate \/ DisconnectReturns

Player ==
    /\ \/ /\ Prepare \/ Waits \/ Play \/ Decode \/ StreamDone \/ Reset
          /\ UNCHANGED <<netbox, open, crashed>>
       \/ Seek
    /\ UNCHANGED <<streams, pollPending, flags, reportDue, reported, rx,
                   serverVars>>

-----------------------------------------------------------------------------

Init ==
    /\ NetInit({})
    /\ open = {}
    /\ mailbox = <<>>
    /\ crashed = Alive
    /\ handler = [setupOK |-> FALSE, seekPending |-> FALSE, firstUnit |-> TRUE,
                  units |-> FALSE, checkPending |-> FALSE, checkGen |-> 0,
                  tryTCP |-> FALSE, tryFake |-> FALSE, gotRTCP |-> FALSE,
                  gotRTP |-> FALSE, seekable |-> FALSE, doneMsg |-> None]
    /\ tracks = <<>>
    /\ source = <<>>
    /\ timers = {}
    /\ conn = "closed"
    /\ pending = <<>>
    /\ serving = FALSE
    /\ segment = 0
    /\ state = "disconnected"
    /\ seekDone = FALSE
    /\ player = "new"
    /\ playing = FALSE
    /\ underrun = FALSE
    /\ seeks = 0

Running == crashed = Alive /\ player \notin {"refused", "gone"}

NetStep == NetLooper /\ UNCHANGED <<sessionVars, serverVars, playerVars>>

Next ==
    Running /\ (Looper \/ NetStep \/ Server \/ Player
                \/ CheckFails \/ \E m \in timers : Expires(m))

Spec == Init /\ [][Next]_vars

\* The loopers go on, delayed messages are delivered, the player comes back to
\* what it waits for, and the server answers every request.  Nobody has to
\* play, to seek or to send anything, and connections may break.
FairSpec ==
    /\ Spec
    /\ WF_vars(Running /\ Looper)
    /\ WF_vars(Running /\ NetStep)
    /\ WF_vars(Running /\ ServerAnswers /\ UNCHANGED <<sessionVars, playerVars>>)
    /\ WF_vars(Running /\ Waits /\ UNCHANGED <<netVars, open, crashed, serverVars>>)
    /\ WF_vars(Running /\ \E m \in timers : Expires(m))

-----------------------------------------------------------------------------
(* Properties.                                                             *)

\* What DSPGMyHandler.h, DSPGARTSPController.cpp and DSPGARTPConnection.cpp
\* assert about their own state holds, but for four: CHECK(mSeekDoneCb == NULL)
\* fails if the player seeks while it seeks, CHECK(mSeekPending) of 'see2' if
\* the session was aborted during a seek, by disconnect() or at the end of the
\* stream, CHECK_GE(res, 0) of select() if 'abor' closed a socket while its
\* stream is still to be removed, and CHECK_LT(index, mTracks.size()) if the
\* player counts tracks that 'abor' removes.  ~DSPGARTSPController() finds the
\* session disconnected.  Nothing is claimed of the CHECKs that look at what
\* came from outside: each of those in CheckFails may fail at any time.
Outside == {"malformed URL", "malformed response", "malformed description",
            "no sockets", "select failed", "report not sent"}

AssertionsHold ==
    /\ crashed \in {Alive, "seeking twice", "seek not pending",
                    "polling a closed socket", "reading a track that is gone"}
                   \cup Outside
    /\ crashed = "seeking twice" => seekDone
    /\ crashed = "seek not pending" => tracks = <<>>
    /\ crashed = "polling a closed socket" =>
          \E i \in DOMAIN netbox : netbox[i].what = "remove"
    /\ player \in {"refused", "gone"} => state = "disconnected"

\* A pair of UDP sockets is open while a track has it and no longer, through
\* failed SETUPs, aborts and another attempt.  Once disconnect() has returned
\* none is left, and none once connect() has failed, with one exception: if a
\* SETUP of the last attempt was accepted and nothing was played after it,
\* connect() forgets the handler with its tracks, and their pairs are never
\* closed (DSPGARTSPController.cpp:72-74).
SocketsClosed ==
    /\ open = PairsOf(tracks)
    /\ player = "gone" => open = {}
    /\ player = "refused" /\ ~handler.setupOK => open = {}

\* DSPGMyHandler.h:55-58: as long as the player has a session that is not
\* seeking there is one check of the current generation on its way, or an
\* abort; during a seek there is none, for the server sends nothing.
Checks(box) == {i \in DOMAIN box : box[i] = Chek(handler.checkGen)}

CheckArmed ==
    crashed = Alive /\ tracks # <<>> /\ ~handler.firstUnit =>
        LET armed == Cardinality(Checks(mailbox))
                     + Cardinality(timers \cap {Chek(handler.checkGen)})
        IN  IF handler.seekPending THEN armed = 0
            ELSE \/ armed = 1
                 \/ \E i \in DOMAIN mailbox : mailbox[i] = Abor(FALSE)

\* After a seek the decoder gets nothing of what was played before, if the
\* server's response to PLAY tells the new segment from that by its sequence
\* number (see ParsePlayResponse: it does not once the numbers have wrapped),
\* and what it gets first of an H.264 track is an IDR frame in any case.
FreshAfterSeek ==
    \A t \in DOMAIN tracks :
        LET s == SourceOf(t)
        IN  /\ tracks[t].told =>
                  \A i \in DOMAIN s.buffers : s.buffers[i].seg >= tracks[t].firstSeg
            /\ s.fresh /\ s.avc /\ HasUnit(s) => Head(s.buffers).idr

\* Every seek is reported done once: while the controller waits for it, one
\* message or request will say so, and otherwise none.
IsOfSeek(m) ==
    \/ m.what \in {"seek", "see1", "see2", "sdon"}
    \/ m.what = "send" /\ m.reply.what \in {"see1", "see2"}

SeekDoneOnce ==
    crashed = Alive =>
        Cardinality({i \in DOMAIN mailbox : IsOfSeek(mailbox[i])})
        + Cardinality({i \in DOMAIN pending : IsOfSeek(pending[i])})
            = IF seekDone THEN 1 ELSE 0

\* A player that plays, or prepares to, while no access unit comes is told of
\* the end.
EndNoticed ==
    player \in {"preparing", "prepared"} /\ ~handler.units
        ~> \/ handler.units
           \/ \A i \in DOMAIN source : source[i].eos
           \/ player \notin {"preparing", "prepared"}
           \/ crashed # Alive

\* With a single track a player does not wait for its cache for ever: it fills
\* or the track ends.
BufferingEnds ==
    player = "preparing" \/ underrun
        ~> ~(player = "preparing" \/ underrun) \/ crashed # Alive

\* connect() returns within two attempts, unless RTCP comes without media, and
\* disconnect() returns, unless the connection broke and nobody was told.
CallsReturn ==
    /\ player = "connecting"
          ~> \/ player # "connecting"
             \/ handler.gotRTCP \/ conn = "deaf" \/ crashed # Alive
    /\ player = "disconnecting"
          ~> player = "gone" \/ conn = "deaf" \/ crashed # Alive
=============================================================================
