------------------------------- MODULE CallSetup -------------------------------
(***************************************************************************)
(* Starting and ending a call: the activity (P2PConferenceApp.java), the   *)
(* JNI layer (NativeCodeCaller.cpp), MediaController.cpp and what it       *)
(* drives, the recorders, the player and the audio of the CSS, each        *)
(* reduced to what it holds.  All of it runs in the application's thread;  *)
(* sLock and m_IsinCall admit one call of these at a time.  Beside it run  *)
(* the loopers of the streamers (module Streamer) and whatever else in the *)
(* process opens files.  The process may die and is started again; the CSS *)
(* and the phone's mode outlive it.                                        *)
(***************************************************************************)
EXTENDS Integers, FiniteSets

CONSTANTS Settings,  \* what the user may configure between two calls
          FDs,       \* descriptors the process can have
          Nodes,     \* nodes of the CSS
          MaxOthers, \* bound on descriptors the rest of the process has at a time
          MaxCalls,  \* bound on calls started
          MaxDeaths, \* bound on deaths that no assertion of the code causes
          MaxRefusals \* bound on what the CSS refuses to release or to stop

Sockets == {"vRTP", "vRTCP", "aRTP", "aRTCP"}
Tracks == {"video", "audio"}
SettingsType == [audio : BOOLEAN, css : BOOLEAN, video : BOOLEAN,
                 codec : {"amr", "voip"}]

ASSUME SetupAssumption == /\ Settings \subseteq SettingsType
                          /\ FDs \subseteq Nat
                          /\ Nodes \subseteq Nat
                          /\ 0 \in Nodes
                          /\ MaxOthers \in Nat
                          /\ MaxCalls \in Nat
                          /\ MaxDeaths \in Nat
                          /\ MaxRefusals \in Nat

VARIABLES ui,        \* where the application's thread is
          inCall,    \* m_IsinCall
          calls,     \* history: calls started
          conf,      \* m_confMetaData
          ids,       \* mvRTPSocketId, mvRTCPSocketId, maRTPSocketId, maRTCPSocketId
          owner,     \* history: who opened a descriptor; "lost" if nobody knows it
          camera,    \* the camera is connected
          writer,    \* the streamer of each recorder
          sdp,       \* m_psdpInfo
          params,    \* history: the call the parameter sets in MediaPlayerCtrl are from
          player,    \* m_mediaPlayer exists
          playerSdp, \* history: params when its SDP was made
          node,      \* mChAudioNode
          nodes,     \* CSS: nodes allocated
          session,   \* CSS: RTP session 0; "orphan" if its process has died
                     \* or it could not be stopped
          phone,     \* AudioSystem's phone state
          refusals,  \* history: times the CSS has refused to release or to stop
          deaths     \* history: times the process has died

recorderVars == <<camera, writer>>
playerVars == <<player, playerSdp>>
cssVars == <<node, nodes, session, phone, refusals>>
vars == <<ui, inCall, calls, conf, ids, owner, recorderVars, sdp, params,
          playerVars, cssVars, deaths>>

Unset == 255
NoSettings == [audio |-> FALSE, css |-> FALSE, video |-> FALSE, codec |-> "amr"]

\* A process that has started nothing yet; m_psdpInfo is not initialised.
Init == /\ ui = "idle"
        /\ inCall = FALSE
        /\ calls = 0
        /\ conf = NoSettings
        /\ ids = [s \in Sockets |-> Unset]
        /\ owner = [d \in FDs |-> "free"]
        /\ camera = FALSE
        /\ writer = [t \in Tracks |-> "none"]
        /\ sdp \in {"null", "garbage"}
        /\ params = 0
        /\ player = FALSE
        /\ playerSdp = 0
        /\ node = 0
        /\ nodes = {}
        /\ session = "none"
        /\ phone = "normal"
        /\ refusals = 0
        /\ deaths = 0

\* The system gives the lowest free descriptor, the CSS the lowest free node.
Lowest(S) == {m \in S : \A n \in S : m <= n}
FreeFDs == {d \in FDs : owner[d] = "free"}
FreeNodes == Nodes \ nodes

\* Audio goes through the CSS, or through a recorder and the player.
CssAudio == conf.audio /\ conf.css
RtpAudio == conf.audio /\ ~conf.css

-----------------------------------------------------------------------------
(* Mutated forms of definitions below.                                     *)

AlwaysInCall == TRUE

DoesNotWait(t) == TRUE

KeepsCamera == camera

KeepsNodes == nodes

ClosesFirst == "close"

NeverCompletes == sdp

-----------------------------------------------------------------------------
(* P2PConferenceApp.startCall(), NativeCodeCaller.startCall().             *)

\* Java refuses audio over RTP in any codec but AMR.
Accepted(s) == s.audio /\ ~s.css => s.codec = "amr"

StartCall(s) == /\ ui = "idle"
                /\ ~inCall
                /\ calls < MaxCalls
                /\ Accepted(s)
                /\ calls' = calls + 1
                /\ conf' = s
                /\ ui' = IF s.audio \/ s.video THEN "vRTP" ELSE "idle"
                /\ UNCHANGED <<inCall, ids, owner, recorderVars, sdp, params,
                               playerVars, cssVars, deaths>>

\* createSockets(): CreateUDPSocket() for one of the four.  A socket that
\* cannot be bound is not closed.
AfterSocket == [vRTP |-> "vRTCP", vRTCP |-> "aRTP", aRTP |-> "aRTCP",
                aRTCP |-> "camera"]

OpenSocket ==
    /\ ui \in Sockets
    /\ ui' = AfterSocket[ui]
    /\ \/ /\ FreeFDs = {}
          /\ ids' = [ids EXCEPT ![ui] = -1]
          /\ UNCHANGED owner
       \/ \E d \in Lowest(FreeFDs) :
            \/ /\ ids' = [ids EXCEPT ![ui] = d]
               /\ owner' = [owner EXCEPT ![d] = "app"]
            \/ /\ ids' = [ids EXCEPT ![ui] = -1]
               /\ owner' = [owner EXCEPT ![d] = "lost"]
    /\ UNCHANGED <<inCall, calls, conf, recorderVars, sdp, params, playerVars,
                   cssVars, deaths>>

-----------------------------------------------------------------------------
(* MediaController::StartRecording().  A failure of the video recorder is  *)
(* undone there and then forgotten.                                        *)

SetupCamera ==
    /\ ui = "camera"
    /\ \/ /\ conf.video
          /\ camera' = TRUE
          /\ ui' = "encoder"
       \/ /\ ui' = "audio"
          /\ UNCHANGED camera
    /\ UNCHANGED <<inCall, calls, conf, ids, owner, writer, sdp, params,
                   playerVars, cssVars, deaths>>

\* The constructor of ARTPStreamer asserts that its sockets exist.
Streamable(s, t) == ids[s] >= 0 /\ ids[t] >= 0

StartWriter(t, next) ==
    /\ writer' = [writer EXCEPT ![t] = "starting"]
    /\ ui' = next

Dies == ui' = "dead" /\ deaths' = deaths + 1

\* prepare() calls stop() when the encoder cannot be set up.
AfterFailedPrepare == FALSE

SetupEncoder ==
    /\ ui = "encoder"
    /\ \/ /\ camera' = AfterFailedPrepare
          /\ ui' = "audio"
          /\ UNCHANGED <<writer, deaths>>
       \/ /\ Streamable("vRTP", "vRTCP")
          /\ StartWriter("video", "videoStarting")
          /\ UNCHANGED <<camera, deaths>>
       \/ /\ ~Streamable("vRTP", "vRTCP")
          /\ Dies
          /\ UNCHANGED recorderVars
    /\ UNCHANGED <<inCall, calls, conf, ids, owner, sdp, params, playerVars,
                   cssVars>>

\* The looper of the video streamer: encoderSdpHandler() is called before
\* ARTPStreamer::start() may return.
Completed == "set"
VideoStarts ==
    /\ ui # "dead"
    /\ writer["video"] = "starting"
    /\ writer' = [writer EXCEPT !["video"] = "started"]
    /\ sdp' = Completed
    /\ params' = calls
    /\ UNCHANGED <<ui, inCall, calls, conf, ids, owner, camera, playerVars,
                   cssVars, deaths>>

AudioStarts ==
    /\ ui # "dead"
    /\ writer["audio"] = "starting"
    /\ writer' = [writer EXCEPT !["audio"] = "started"]
    /\ UNCHANGED <<ui, inCall, calls, conf, ids, owner, camera, sdp, params,
                   playerVars, cssVars, deaths>>

\* ARTPStreamer::start() waits for its looper.
HasStarted(t) == writer[t] = "started"

WriterStarted ==
    /\ \/ ui = "videoStarting" /\ HasStarted("video") /\ ui' = "audio"
       \/ ui = "audioStarting" /\ HasStarted("audio") /\ ui' = "play"
    /\ UNCHANGED <<inCall, calls, conf, ids, owner, recorderVars, sdp, params,
                   playerVars, cssVars, deaths>>

StartAudio ==
    /\ ui = "audio"
    /\ \/ /\ ~RtpAudio
          /\ ui' = "play"
          /\ UNCHANGED <<writer, deaths>>
       \/ /\ RtpAudio
          /\ Streamable("aRTP", "aRTCP")
          /\ StartWriter("audio", "audioStarting")
          /\ UNCHANGED deaths
       \/ /\ RtpAudio
          /\ ~Streamable("aRTP", "aRTCP")
          /\ Dies
          /\ UNCHANGED writer
    /\ UNCHANGED <<inCall, calls, conf, ids, owner, camera, sdp, params,
                   playerVars, cssVars>>

-----------------------------------------------------------------------------
(* MediaPlayerCtrl::play(): its result is always OK, so that of the        *)
(* recording is overwritten.  An uninitialised m_psdpInfo is written       *)
(* through, which may or may not end the process.                          *)

Play ==
    /\ ui = "play"
    /\ \/ /\ ~conf.video \/ sdp # "null"
          /\ sdp' = IF conf.video THEN sdp ELSE "set"
          /\ player' = TRUE
          /\ playerSdp' = params
          /\ ui' = IF CssAudio THEN "css" ELSE "idle"
          /\ inCall' = ~CssAudio
          /\ UNCHANGED deaths
       \/ /\ conf.video /\ sdp = "garbage"
          /\ Dies
          /\ UNCHANGED <<sdp, playerVars, inCall>>
    /\ UNCHANGED <<calls, conf, ids, owner, recorderVars, params, cssVars>>

-----------------------------------------------------------------------------
(* MediaController::StartCssAudio().  A step that fails leads to           *)
(* StopRecording(), StopPlayback() and closeSockets().                     *)

Undo == ui' = "stopVideo"

\* The CSS may refuse to release a node or to stop a session.
Refuses == refusals < MaxRefusals /\ refusals' = refusals + 1

\* "Just for safety, release the node 0, if the app had crashed earlier".  If
\* it is refused, another is allocated and this one forgotten.
Released == nodes \ {node}

CheckCodec ==
    /\ ui = "css"
    /\ \/ /\ conf.codec = "amr"
          /\ Undo
          /\ UNCHANGED <<nodes, refusals>>
       \/ /\ conf.codec # "amr"
          /\ \/ nodes' = Released /\ UNCHANGED refusals
             \/ Refuses /\ UNCHANGED nodes
          /\ ui' = "getNode"
    /\ UNCHANGED <<inCall, calls, conf, ids, owner, recorderVars, sdp, params,
                   playerVars, node, session, phone, deaths>>

GetNode ==
    /\ ui = "getNode"
    /\ \/ /\ Undo
          /\ UNCHANGED <<node, nodes>>
       \/ \E n \in Lowest(FreeNodes) : /\ node' = n
                                      /\ nodes' = nodes \cup {n}
                                      /\ ui' = "connect"
    /\ UNCHANGED <<inCall, calls, conf, ids, owner, recorderVars, sdp, params,
                   playerVars, session, phone, refusals, deaths>>

\* Two ch_ConnectEPReq() and ch_NodeEnable().
ConnectNode ==
    /\ ui = "connect"
    /\ Undo \/ ui' = "session"
    /\ UNCHANGED <<inCall, calls, conf, ids, owner, recorderVars, sdp, params,
                   playerVars, cssVars, deaths>>

StartSession ==
    /\ ui = "session"
    /\ \/ /\ \/ nodes' = nodes \ {node} /\ UNCHANGED refusals
             \/ Refuses /\ UNCHANGED nodes
          /\ Undo
          /\ UNCHANGED <<inCall, session, phone>>
       \/ /\ ids["aRTP"] >= 0
          /\ session' = "running"
          /\ phone' = "inCall"
          /\ inCall' = TRUE
          /\ ui' = "idle"
          /\ UNCHANGED <<nodes, refusals>>
    /\ UNCHANGED <<calls, conf, ids, owner, recorderVars, sdp, params,
                   playerVars, node, deaths>>

-----------------------------------------------------------------------------
(* P2PConferenceApp.endCall(), called by a button, by onBackPressed() and  *)
(* again by onStop(); stop() of the JNI layer.                             *)

EndCall == /\ ui = "idle"
           /\ inCall
           /\ ui' = IF conf.css THEN "stopCss" ELSE "stopVideo"
           /\ UNCHANGED <<inCall, calls, conf, ids, owner, recorderVars, sdp,
                          params, playerVars, cssVars, deaths>>

\* StopCssAudio() does not look at whether the session could be stopped, and
\* returns early if the node cannot be released, because it is not allocated or
\* the CSS refuses: the phone stays in the call then.
ReleaseNode ==
    /\ nodes' = nodes \ {node}
    /\ phone' = IF node \in nodes THEN "normal" ELSE phone

StopCss ==
    /\ ui = "stopCss"
    /\ \/ session' = "none" /\ ReleaseNode /\ UNCHANGED refusals
       \/ /\ Refuses
          /\ session' \in {"none", IF session = "none" THEN "none" ELSE "orphan"}
          /\ ReleaseNode \/ UNCHANGED <<nodes, phone>>
    /\ ui' = "stopVideo"
    /\ UNCHANGED <<inCall, calls, conf, ids, owner, recorderVars, sdp, params,
                   playerVars, node, deaths>>

\* StopRecording().  ARTPStreamer::stop() waits for its looper.
StopVideo ==
    /\ ui = "stopVideo"
    /\ writer' = [writer EXCEPT !["video"] = "none"]
    /\ camera' = FALSE
    /\ ui' = "stopAudio"
    /\ UNCHANGED <<inCall, calls, conf, ids, owner, sdp, params, playerVars,
                   cssVars, deaths>>

AfterStopRecording == "stopPlayer"
StopAudio ==
    /\ ui = "stopAudio"
    /\ writer' = [writer EXCEPT !["audio"] = "none"]
    /\ ui' = AfterStopRecording
    /\ UNCHANGED <<inCall, calls, conf, ids, owner, camera, sdp, params,
                   playerVars, cssVars, deaths>>

\* MediaPlayerCtrl::stop(), which need not return (module CallPlayer).
StopPlayer ==
    /\ ui = "stopPlayer"
    /\ player' = FALSE
    /\ playerSdp' = 0
    /\ ui' = "close"
    /\ UNCHANGED <<inCall, calls, conf, ids, owner, recorderVars, sdp, params,
                   cssVars, deaths>>

\* closeSockets(), which takes the descriptor 255 for unset and keeps the ids;
\* then m_IsinCall is false.
InCallAfterStop == FALSE
CloseSockets ==
    /\ ui = "close"
    /\ owner' = [d \in FDs |-> IF d # Unset /\ \E s \in Sockets : ids[s] = d
                               THEN "free" ELSE owner[d]]
    /\ inCall' = InCallAfterStop
    /\ ui' = "idle"
    /\ UNCHANGED <<calls, conf, ids, recorderVars, sdp, params, playerVars,
                   cssVars, deaths>>

-----------------------------------------------------------------------------
(* The rest of the process, its death and its next start.                  *)

OtherOpens ==
    /\ ui # "dead"
    /\ Cardinality({d \in FDs : owner[d] = "other"}) < MaxOthers
    /\ \E d \in Lowest(FreeFDs) : owner' = [owner EXCEPT ![d] = "other"]
    /\ UNCHANGED <<ui, inCall, calls, conf, ids, recorderVars, sdp, params,
                   playerVars, cssVars, deaths>>

OtherCloses ==
    /\ ui # "dead"
    /\ \E d \in FDs : /\ owner[d] = "other"
                      /\ owner' = [owner EXCEPT ![d] = "free"]
    /\ UNCHANGED <<ui, inCall, calls, conf, ids, recorderVars, sdp, params,
                   playerVars, cssVars, deaths>>

Die == /\ ui # "dead"
       /\ deaths < MaxDeaths
       /\ Dies
       /\ UNCHANGED <<inCall, calls, conf, ids, owner, recorderVars, sdp, params,
                      playerVars, cssVars>>

\* Android closes what the process had; the CSS does not know that it died.
Restart == /\ ui = "dead"
           /\ ui' = "idle"
           /\ inCall' = FALSE
           /\ ids' = [s \in Sockets |-> Unset]
           /\ owner' = [d \in FDs |-> "free"]
           /\ camera' = FALSE
           /\ writer' = [t \in Tracks |-> "none"]
           /\ sdp' \in {"null", "garbage"}
           /\ params' = 0
           /\ player' = FALSE
           /\ playerSdp' = 0
           /\ node' = 0
           /\ conf' = NoSettings
           /\ session' = IF session = "running" THEN "orphan" ELSE session
           /\ UNCHANGED <<calls, nodes, phone, refusals, deaths>>

Application == \/ OpenSocket \/ SetupCamera \/ SetupEncoder \/ WriterStarted
               \/ StartAudio \/ Play \/ CheckCodec \/ GetNode \/ ConnectNode
               \/ StartSession \/ StopCss \/ StopVideo \/ StopAudio
               \/ CloseSockets

Next == \/ \E s \in Settings : StartCall(s)
        \/ EndCall
        \/ Application \/ StopPlayer
        \/ VideoStarts \/ AudioStarts
        \/ OtherOpens \/ OtherCloses
        \/ Die \/ Restart

Spec == Init /\ [][Next]_vars

\* The application's thread runs, and a streamer that is being started starts:
\* camera, encoder and microphone deliver.  Nobody has to start or end a call.
FairSpec == /\ Spec
            /\ WF_vars(Application)
            /\ WF_vars(VideoStarts)
            /\ WF_vars(AudioStarts)

-----------------------------------------------------------------------------
(* Properties.                                                             *)

Starting == ui \in Sockets \cup {"camera", "encoder", "videoStarting", "audio",
                                 "audioStarting", "play", "css", "getNode",
                                 "connect", "session"}
Stopping == ui \in {"stopCss", "stopVideo", "stopAudio", "stopPlayer", "close"}

\* Every variable has its type; a streamer is starting only while the
\* application's thread waits for it.
TypeOK == /\ Starting \/ Stopping \/ ui \in {"idle", "dead"}
          /\ inCall \in BOOLEAN
          /\ calls \in 0 .. MaxCalls
          /\ conf \in Settings \cup {NoSettings}
          /\ ids \in [Sockets -> FDs \cup {-1, Unset}]
          /\ owner \in [FDs -> {"free", "app", "other", "lost"}]
          /\ camera \in BOOLEAN
          /\ writer \in [Tracks -> {"none", "starting", "started"}]
          /\ writer["video"] = "starting" => ui \in {"videoStarting", "dead"}
          /\ writer["audio"] = "starting" => ui \in {"audioStarting", "dead"}
          /\ sdp \in {"null", "garbage", "set"}
          /\ params \in 0 .. MaxCalls
          /\ player \in BOOLEAN
          /\ playerSdp \in 0 .. MaxCalls
          /\ node \in Nodes
          /\ nodes \subseteq Nodes
          /\ session \in {"none", "running", "orphan"}
          /\ phone \in {"normal", "inCall"}
          /\ refusals \in Nat
          /\ deaths \in Nat

\* All that a call needs is there while it lasts; only the video recorder may
\* have failed, and then the camera is closed.
Up == /\ player
      /\ RtpAudio => writer["audio"] = "started"
      /\ camera <=> writer["video"] = "started"
      /\ CssAudio => session = "running" /\ node \in nodes /\ phone = "inCall"

\* Nothing is left of a call that has ended or could not be started, whichever
\* step failed, but what no step undoes: if the CSS has refused to release a
\* node or to stop the session, or a process has died, the phone may still be in
\* a call (the early return of StopCssAudio()) and a session left; a socket that
\* could not be bound is lost, and one with the descriptor 255 is taken for
\* unset.  (For the nodes of the CSS, see OneNode.)
LeftBehind == deaths > 0 \/ refusals > 0
Down == /\ ~player
        /\ ~camera
        /\ writer = [t \in Tracks |-> "none"]
        /\ session # "running"
        /\ session = "orphan" => LeftBehind
        /\ phone = "inCall" => LeftBehind
        /\ \A d \in FDs \ {Unset} : owner[d] # "app"

\* Between two calls of the JNI layer the engine is all up or all down, and
\* m_IsinCall tells which (NativeCodeCaller.cpp, start() and stop()).
CallIsWhole == ui = "idle" => IF inCall THEN Up ELSE Down

\* The sockets of a track are given to its streamer and to the player, the
\* audio socket to the CSS.
Uses(s) == \/ /\ s \in {"vRTP", "vRTCP"}
              /\ writer["video"] # "none" \/ (player /\ conf.video)
           \/ /\ s \in {"aRTP", "aRTCP"}
              /\ writer["audio"] # "none" \/ (player /\ RtpAudio)
           \/ s = "aRTP" /\ session = "running"

\* A socket in use is not closed under its user, and its descriptor is not
\* somebody else's by now: select() and sendto() assert success.  (A socket
\* that could not be opened is -1.)
SocketsOpenWhileUsed ==
    \A s \in Sockets : Uses(s) => ids[s] = -1 \/ (ids[s] \in FDs /\ owner[ids[s]] = "app")

\* closeSockets() keeps the ids, yet no step of the application's thread closes
\* a descriptor another part of the process has opened since.
ClosesOwn == [][ui' # ui /\ ui # "dead" =>
                   \A d \in FDs : owner[d] = "other" => owner'[d] = "other"]_vars

\* Nodes of the CSS pile up only as far as it refuses to release them, although
\* a failed StartCssAudio() keeps its node, a process that dies never releases
\* its own and the next one takes it for node 0.
OneNode == Cardinality(nodes) <= 1 + refusals

\* If the camera is being sent, the player's SDP was made with the parameter
\* sets of this call's encoder: start() of the streamer returns after they came.
SdpIsOurs == player /\ conf.video /\ writer["video"] = "started" => playerSdp = calls

\* Starting a call comes to an end, unless it waits for an encoder that it
\* could not set up.
WaitsInVain == ui = "play" /\ sdp = "null" /\ writer["video"] = "none"
StartEnds == Starting ~> ~Starting \/ WaitsInVain

\* "For H264, need to wait till we get SDP info from encoder"
\* (MediaPlayerCtrl.cpp:205): a player of video is made with this call's.
SdpIsFresh == player /\ conf.video /\ sdp = "set" => playerSdp = calls

=============================================================================
