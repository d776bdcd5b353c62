--------------------------- MODULE CallSetupProofs ---------------------------
(***************************************************************************)
(* Proofs about CallSetup for any settings, any descriptors, any nodes and *)
(* any number of calls and deaths.  Nearly every step of the application's *)
(* thread relies on what the steps before it have left: the inductive      *)
(* invariant says for each resource at which points of the thread it is    *)
(* there.                                                                  *)
(***************************************************************************)
EXTENDS CallSetup, FiniteSetTheorems, TLAPS

-----------------------------------------------------------------------------
(* Where the application's thread is: a call lasts, its audio over the CSS *)
(* is being started, and the points from the start of the video recorder,  *)
(* the audio recorder and the player until they are stopped.               *)

InCall == ui = "idle" /\ inCall
StartingCss == ui \in {"css", "getNode", "connect", "session"}
BehindVideo == \/ ui \in {"audio", "audioStarting", "play"}
               \/ ui \in {"stopCss", "stopVideo"}
               \/ StartingCss \/ InCall
BehindAudio == \/ ui \in {"play", "stopCss", "stopVideo", "stopAudio"}
               \/ StartingCss \/ InCall
BehindPlay == \/ ui \in {"stopCss", "stopVideo", "stopAudio", "stopPlayer"}
              \/ StartingCss \/ InCall

\* The socket has been opened, or the opening has failed, for this call.
Before == [vRTP |-> {}, vRTCP |-> {"vRTP"}, aRTP |-> {"vRTP", "vRTCP"},
           aRTCP |-> {"vRTP", "vRTCP", "aRTP"}]
Opened(s) == IF ui \in Sockets THEN s \in Before[ui]
             ELSE ui # "dead" /\ (ui = "idle" => inCall)

-----------------------------------------------------------------------------
(* The inductive invariant.                                                *)

Flags == /\ inCall => ui \in {"idle", "dead"} \/ Stopping
         /\ ui = "stopCss" => inCall

Open(s) == ids[s] = -1 \/ (ids[s] \in FDs /\ owner[ids[s]] = "app")

SocketsAre == /\ ui # "dead" => \A s \in Sockets : Opened(s) => Open(s)
              /\ ui # "dead" => \A d \in FDs \ {Unset} : owner[d] = "app" =>
                                   \E s \in Sockets : Opened(s) /\ ids[s] = d

VideoIs == ui # "dead" =>
    /\ writer["video"] = "starting" => ui = "videoStarting"
    /\ writer["video"] = "started" => ui = "videoStarting" \/ BehindVideo
    /\ ui = "videoStarting" => writer["video"] # "none"
    /\ camera <=> \/ ui \in {"encoder", "videoStarting"}
                  \/ BehindVideo /\ writer["video"] = "started"

AudioIs == ui # "dead" =>
    /\ writer["audio"] = "starting" => ui = "audioStarting"
    /\ writer["audio"] = "started" => ui = "audioStarting" \/ BehindAudio
    /\ ui = "audioStarting" => writer["audio"] # "none" /\ RtpAudio
    /\ BehindAudio /\ RtpAudio => writer["audio"] = "started"

PlayerIs == ui # "dead" => (player <=> BehindPlay)

CssIs ==
    /\ StartingCss => CssAudio
    /\ session = "running" =>
          ui = "dead" \/ ((ui = "stopCss" \/ InCall) /\ CssAudio)
    /\ InCall /\ CssAudio =>
          session = "running" /\ node \in nodes /\ phone = "inCall"
    /\ phone = "inCall" => \/ LeftBehind
                           \/ session = "running" /\ node \in nodes
    /\ session = "orphan" => LeftBehind
    /\ ui = "dead" => deaths > 0

NodesAre == /\ IsFiniteSet(nodes)
            /\ Cardinality(nodes \ {node}) <= refusals
            /\ Cardinality(nodes \ {0}) <= refusals
            /\ ui = "getNode" => Cardinality(nodes) <= refusals
            /\ ui \in {"connect", "session"} => node \in nodes

IInv == /\ TypeOK /\ Flags /\ SocketsAre /\ VideoIs /\ AudioIs /\ PlayerIs
        /\ CssIs /\ NodesAre /\ SocketsOpenWhileUsed

-----------------------------------------------------------------------------
(* Every step keeps every part of it.                                      *)

\* Types.
LEMMA TypesKept == IInv /\ [Next]_vars => TypeOK'
<1> SUFFICES ASSUME IInv, [Next]_vars PROVE TypeOK'
  OBVIOUS
<1> USE SetupAssumption DEF IInv, TypeOK, Starting, Stopping, Sockets, Tracks,
        Unset, NoSettings, SettingsType, recorderVars, playerVars, cssVars
<1>1. ASSUME NEW s \in Settings, StartCall(s) PROVE TypeOK'
  BY <1>1 DEF StartCall
<1>2. CASE OpenSocket
  BY <1>2 DEF OpenSocket, AfterSocket, Lowest, FreeFDs
<1>3. CASE SetupCamera
  BY <1>3 DEF SetupCamera
<1>4. CASE SetupEncoder
  <2> USE <1>4 DEF SetupEncoder, Dies, StartWriter, AfterFailedPrepare, Streamable
  <2>1. camera' \in BOOLEAN
    BY Zenon
  <2>2. deaths' \in Nat
    OBVIOUS
  <2>3. writer' \in [Tracks -> {"none", "starting", "started"}]
    OBVIOUS
  <2>4. /\ writer'["video"] = "starting" => ui' \in {"videoStarting", "dead"}
        /\ writer'["audio"] = "starting" => ui' \in {"audioStarting", "dead"}
    OBVIOUS
  <2> QED
    BY <2>1, <2>2, <2>3, <2>4
<1>5. CASE WriterStarted
  BY <1>5 DEF WriterStarted, HasStarted
<1>6. CASE StartAudio
  BY <1>6 DEF StartAudio, Dies, StartWriter, Streamable
<1>7. CASE Play
  <2> USE <1>7 DEF Play, Dies
  <2>1. inCall' \in BOOLEAN /\ player' \in BOOLEAN
    OBVIOUS
  <2>2. /\ playerSdp' \in 0 .. MaxCalls /\ deaths' \in Nat
        /\ sdp' \in {"null", "garbage", "set"}
    OBVIOUS
  <2> QED
    BY <2>1, <2>2
<1>8. CASE CheckCodec
  <2> USE <1>8 DEF CheckCodec, Undo, Released, Refuses
  <2>1. nodes' \subseteq Nodes
    BY Zenon
  <2>3. refusals' \in Nat
    OBVIOUS
  <2>2. ui' \in {"stopVideo", "getNode"}
    OBVIOUS
  <2> QED
    BY <2>1, <2>2, <2>3
<1>9. CASE GetNode
  <2> USE <1>9 DEF GetNode
  <2>1. node' \in Nodes /\ nodes' \subseteq Nodes
    BY DEF Lowest, FreeNodes
  <2>2. ui' \in {"stopVideo", "connect"}
    BY DEF Undo
  <2> QED
    BY <2>1, <2>2
<1>10. CASE ConnectNode
  BY <1>10 DEF ConnectNode, Undo
<1>11. CASE StartSession
  <2> USE <1>11 DEF StartSession, Undo, Refuses
  <2>1. nodes' \subseteq Nodes /\ node' = node
    OBVIOUS
  <2>2. inCall' \in BOOLEAN
    BY Zenon
  <2>3. /\ session' \in {"none", "running", "orphan"}
        /\ phone' \in {"normal", "inCall"} /\ ui' \in {"stopVideo", "idle"}
    OBVIOUS
  <2> QED
    BY <2>1, <2>2, <2>3
<1>12. CASE StopCss
  <2> USE <1>12 DEF StopCss, ReleaseNode, Refuses
  <2>1. nodes' \subseteq Nodes
    BY Zenon
  <2>3. refusals' \in Nat
    OBVIOUS
  <2>2. session' \in {"none", "orphan"} /\ phone' \in {"normal", "inCall"}
    OBVIOUS
  <2> QED
    BY <2>1, <2>2, <2>3
<1>13. CASE StopVideo
  BY <1>13 DEF StopVideo
<1>14. CASE StopAudio
  BY <1>14 DEF StopAudio, AfterStopRecording
<1>15. CASE CloseSockets
  BY <1>15 DEF CloseSockets, InCallAfterStop
<1>16. CASE EndCall
  BY <1>16 DEF EndCall
<1>17. CASE StopPlayer
  <2> USE <1>17 DEF StopPlayer
  <2>1. player' \in BOOLEAN
    BY Zenon
  <2>2. playerSdp' \in 0 .. MaxCalls
    OBVIOUS
  <2> QED
    BY <2>1, <2>2
<1>18. CASE VideoStarts
  BY <1>18 DEF VideoStarts, Completed
<1>19. CASE AudioStarts
  BY <1>19 DEF AudioStarts
<1>20. CASE OtherOpens
  BY <1>20 DEF OtherOpens, Lowest, FreeFDs
<1>21. CASE OtherCloses
  BY <1>21 DEF OtherCloses
<1>22. CASE Die
  BY <1>22 DEF Die, Dies
<1>23. CASE Restart
  <2> USE <1>23 DEF Restart
  <2>1. inCall' \in BOOLEAN /\ camera' \in BOOLEAN /\ player' \in BOOLEAN
    OBVIOUS
  <2>2. /\ ids' \in [Sockets -> FDs \cup {-1, Unset}]
       /\ owner' \in [FDs -> {"free", "app", "other", "lost"}]
       /\ writer' \in [Tracks -> {"none", "starting", "started"}]
    OBVIOUS
  <2>3. writer'["video"] = "none" /\ writer'["audio"] = "none"
    OBVIOUS
  <2>4. params' \in 0 .. MaxCalls /\ playerSdp' \in 0 .. MaxCalls
    OBVIOUS
  <2>5. /\ node' \in Nodes
       /\ conf' \in Settings \cup {NoSettings}
       /\ session' \in {"none", "running", "orphan"}
       /\ sdp' \in {"null", "garbage", "set"}
    OBVIOUS
  <2> QED
    BY <2>1, <2>2, <2>3, <2>4, <2>5
<1>24. CASE UNCHANGED vars
  BY <1>24 DEF vars, recorderVars, playerVars, cssVars
<1>25. QED
  BY <1>1, <1>2, <1>3, <1>4, <1>5, <1>6, <1>7, <1>8, <1>9, <1>10, <1>11, <1>12,
     <1>13, <1>14, <1>15, <1>16, <1>17, <1>18, <1>19, <1>20, <1>21,
     <1>22, <1>23, <1>24 DEF Next, Application

\* m_IsinCall is set while a call lasts and while it is ended by the user.
LEMMA FlagsKept == IInv /\ [Next]_vars => Flags'
<1> SUFFICES ASSUME IInv, [Next]_vars PROVE Flags'
  OBVIOUS
<1> USE DEF IInv, Flags, TypeOK, Starting, Stopping, Sockets, CssIs, InCall,
        StartingCss, BehindVideo, BehindAudio, BehindPlay, recorderVars,
        playerVars, cssVars
<1>1. ASSUME NEW s \in Settings, StartCall(s) PROVE Flags'
  BY <1>1 DEF StartCall
<1>2. CASE OpenSocket
  BY <1>2 DEF OpenSocket, AfterSocket, Lowest, FreeFDs
<1>3. CASE SetupCamera
  BY <1>3 DEF SetupCamera
<1>4. CASE SetupEncoder
  BY <1>4 DEF SetupEncoder, Dies, StartWriter, AfterFailedPrepare, Streamable
<1>5. CASE WriterStarted
  BY <1>5 DEF WriterStarted, HasStarted
<1>6. CASE StartAudio
  BY <1>6 DEF StartAudio, Dies, StartWriter, Streamable
<1>7. CASE Play
  BY <1>7 DEF Play, Dies
<1>8. CASE CheckCodec
  BY <1>8 DEF CheckCodec, Undo, Released, Refuses
<1>9. CASE GetNode
  BY <1>9 DEF GetNode, Undo, Lowest, FreeNodes
<1>10. CASE ConnectNode
  BY <1>10 DEF ConnectNode, Undo
<1>11. CASE StartSession
  BY <1>11 DEF StartSession, Undo, Refuses
<1>12. CASE StopCss
  BY <1>12 DEF StopCss, ReleaseNode, Refuses
<1>13. CASE StopVideo
  BY <1>13 DEF StopVideo
<1>14. CASE StopAudio
  BY <1>14 DEF StopAudio, AfterStopRecording
<1>15. CASE CloseSockets
  BY <1>15 DEF CloseSockets, InCallAfterStop
<1>16. CASE EndCall
  BY <1>16 DEF EndCall
<1>17. CASE StopPlayer
  BY <1>17 DEF StopPlayer
<1>18. CASE VideoStarts
  BY <1>18 DEF VideoStarts, Completed
<1>19. CASE AudioStarts
  BY <1>19 DEF AudioStarts
<1>20. CASE OtherOpens
  BY <1>20 DEF OtherOpens, Lowest, FreeFDs
<1>21. CASE OtherCloses
  BY <1>21 DEF OtherCloses
<1>22. CASE Die
  BY <1>22 DEF Die, Dies
<1>23. CASE Restart
  BY <1>23 DEF Restart
<1>24. CASE UNCHANGED vars
  BY <1>24 DEF vars, recorderVars, playerVars, cssVars
<1>25. QED
  BY <1>1, <1>2, <1>3, <1>4, <1>5, <1>6, <1>7, <1>8, <1>9, <1>10, <1>11, <1>12,
     <1>13, <1>14, <1>15, <1>16, <1>17, <1>18, <1>19, <1>20, <1>21,
     <1>22, <1>23, <1>24 DEF Next, Application

\* The camera and the video streamer: prepare() and start(), StopRecording().
LEMMA VideoKept == IInv /\ [Next]_vars => VideoIs'
<1> SUFFICES ASSUME IInv, [Next]_vars PROVE VideoIs'
  OBVIOUS
<1> USE DEF IInv, VideoIs, Flags, TypeOK, Starting, Stopping, Sockets, Tracks,
        InCall, StartingCss, BehindVideo, BehindAudio, BehindPlay,
        recorderVars, playerVars, cssVars
<1>1. ASSUME NEW s \in Settings, StartCall(s) PROVE VideoIs'
  BY <1>1 DEF StartCall
<1>2. CASE OpenSocket
  BY <1>2 DEF OpenSocket, AfterSocket, Lowest, FreeFDs
<1>3. CASE SetupCamera
  BY <1>3 DEF SetupCamera
<1>4. CASE SetupEncoder
  BY <1>4 DEF SetupEncoder, Dies, StartWriter, AfterFailedPrepare, Streamable
<1>5. CASE WriterStarted
  BY <1>5 DEF WriterStarted, HasStarted
<1>6. CASE StartAudio
  BY <1>6 DEF StartAudio, Dies, StartWriter, Streamable
<1>7. CASE Play
  BY <1>7 DEF Play, Dies
<1>8. CASE CheckCodec
  BY <1>8 DEF CheckCodec, Undo, Released, Refuses
<1>9. CASE GetNode
  BY <1>9 DEF GetNode, Undo, Lowest, FreeNodes
<1>10. CASE ConnectNode
  BY <1>10 DEF ConnectNode, Undo
<1>11. CASE StartSession
  BY <1>11 DEF StartSession, Undo, Refuses
<1>12. CASE StopCss
  BY <1>12 DEF StopCss, ReleaseNode, Refuses
<1>13. CASE StopVideo
  BY <1>13 DEF StopVideo
<1>14. CASE StopAudio
  BY <1>14 DEF StopAudio, AfterStopRecording
<1>15. CASE CloseSockets
  BY <1>15 DEF CloseSockets, InCallAfterStop
<1>16. CASE EndCall
  BY <1>16 DEF EndCall
<1>17. CASE StopPlayer
  BY <1>17 DEF StopPlayer
<1>18. CASE VideoStarts
  BY <1>18 DEF VideoStarts, Completed
<1>19. CASE AudioStarts
  BY <1>19 DEF AudioStarts
<1>20. CASE OtherOpens
  BY <1>20 DEF OtherOpens, Lowest, FreeFDs
<1>21. CASE OtherCloses
  BY <1>21 DEF OtherCloses
<1>22. CASE Die
  BY <1>22 DEF Die, Dies
<1>23. CASE Restart
  BY <1>23 DEF Restart
<1>24. CASE UNCHANGED vars
  BY <1>24 DEF vars, recorderVars, playerVars, cssVars
<1>25. QED
  BY <1>1, <1>2, <1>3, <1>4, <1>5, <1>6, <1>7, <1>8, <1>9, <1>10, <1>11, <1>12,
     <1>13, <1>14, <1>15, <1>16, <1>17, <1>18, <1>19, <1>20, <1>21,
     <1>22, <1>23, <1>24 DEF Next, Application

\* The audio streamer.
LEMMA AudioKept == IInv /\ [Next]_vars => AudioIs'
<1> SUFFICES ASSUME IInv, [Next]_vars PROVE AudioIs'
  OBVIOUS
<1> USE DEF IInv, AudioIs, Flags, TypeOK, Starting, Stopping, Sockets, Tracks,
        InCall, StartingCss, BehindVideo, BehindAudio, BehindPlay, RtpAudio,
        recorderVars, playerVars, cssVars
<1>1. ASSUME NEW s \in Settings, StartCall(s) PROVE AudioIs'
  BY <1>1 DEF StartCall
<1>2. CASE OpenSocket
  BY <1>2 DEF OpenSocket, AfterSocket, Lowest, FreeFDs
<1>3. CASE SetupCamera
  BY <1>3 DEF SetupCamera
<1>4. CASE SetupEncoder
  BY <1>4 DEF SetupEncoder, Dies, StartWriter, AfterFailedPrepare, Streamable
<1>5. CASE WriterStarted
  BY <1>5 DEF WriterStarted, HasStarted
<1>6. CASE StartAudio
  BY <1>6 DEF StartAudio, Dies, StartWriter, Streamable
<1>7. CASE Play
  BY <1>7 DEF Play, Dies
<1>8. CASE CheckCodec
  BY <1>8 DEF CheckCodec, Undo, Released, Refuses
<1>9. CASE GetNode
  BY <1>9 DEF GetNode, Undo, Lowest, FreeNodes
<1>10. CASE ConnectNode
  BY <1>10 DEF ConnectNode, Undo
<1>11. CASE StartSession
  BY <1>11 DEF StartSession, Undo, Refuses
<1>12. CASE StopCss
  BY <1>12 DEF StopCss, ReleaseNode, Refuses
<1>13. CASE StopVideo
  BY <1>13 DEF StopVideo
<1>14. CASE StopAudio
  BY <1>14 DEF StopAudio, AfterStopRecording
<1>15. CASE CloseSockets
  BY <1>15 DEF CloseSockets, InCallAfterStop
<1>16. CASE EndCall
  BY <1>16 DEF EndCall
<1>17. CASE StopPlayer
  BY <1>17 DEF StopPlayer
<1>18. CASE VideoStarts
  BY <1>18 DEF VideoStarts, Completed
<1>19. CASE AudioStarts
  BY <1>19 DEF AudioStarts
<1>20. CASE OtherOpens
  BY <1>20 DEF OtherOpens, Lowest, FreeFDs
<1>21. CASE OtherCloses
  BY <1>21 DEF OtherCloses
<1>22. CASE Die
  BY <1>22 DEF Die, Dies
<1>23. CASE Restart
  BY <1>23 DEF Restart
<1>24. CASE UNCHANGED vars
  BY <1>24 DEF vars, recorderVars, playerVars, cssVars
<1>25. QED
  BY <1>1, <1>2, <1>3, <1>4, <1>5, <1>6, <1>7, <1>8, <1>9, <1>10, <1>11, <1>12,
     <1>13, <1>14, <1>15, <1>16, <1>17, <1>18, <1>19, <1>20, <1>21,
     <1>22, <1>23, <1>24 DEF Next, Application

\* The player exists from play() to MediaPlayerCtrl::stop().
LEMMA PlayerKept == IInv /\ [Next]_vars => PlayerIs'
<1> SUFFICES ASSUME IInv, [Next]_vars PROVE PlayerIs'
  OBVIOUS
<1> USE DEF IInv, PlayerIs, Flags, TypeOK, Starting, Stopping, Sockets,
        CssAudio, InCall, StartingCss, BehindVideo, BehindAudio, BehindPlay,
        recorderVars, playerVars, cssVars
<1>1. ASSUME NEW s \in Settings, StartCall(s) PROVE PlayerIs'
  BY <1>1 DEF StartCall
<1>2. CASE OpenSocket
  BY <1>2 DEF OpenSocket, AfterSocket, Lowest, FreeFDs
<1>3. CASE SetupCamera
  BY <1>3 DEF SetupCamera
<1>4. CASE SetupEncoder
  BY <1>4 DEF SetupEncoder, Dies, StartWriter, AfterFailedPrepare, Streamable
<1>5. CASE WriterStarted
  BY <1>5 DEF WriterStarted, HasStarted
<1>6. CASE StartAudio
  BY <1>6 DEF StartAudio, Dies, StartWriter, Streamable
<1>7. CASE Play
  BY <1>7 DEF Play, Dies
<1>8. CASE CheckCodec
  BY <1>8 DEF CheckCodec, Undo, Released, Refuses
<1>9. CASE GetNode
  BY <1>9 DEF GetNode, Undo, Lowest, FreeNodes
<1>10. CASE ConnectNode
  BY <1>10 DEF ConnectNode, Undo
<1>11. CASE StartSession
  BY <1>11 DEF StartSession, Undo, Refuses
<1>12. CASE StopCss
  BY <1>12 DEF StopCss, ReleaseNode, Refuses
<1>13. CASE StopVideo
  BY <1>13 DEF StopVideo
<1>14. CASE StopAudio
  BY <1>14 DEF StopAudio, AfterStopRecording
<1>15. CASE CloseSockets
  BY <1>15 DEF CloseSockets, InCallAfterStop
<1>16. CASE EndCall
  BY <1>16 DEF EndCall
<1>17. CASE StopPlayer
  BY <1>17 DEF StopPlayer
<1>18. CASE VideoStarts
  BY <1>18 DEF VideoStarts, Completed
<1>19. CASE AudioStarts
  BY <1>19 DEF AudioStarts
<1>20. CASE OtherOpens
  BY <1>20 DEF OtherOpens, Lowest, FreeFDs
<1>21. CASE OtherCloses
  BY <1>21 DEF OtherCloses
<1>22. CASE Die
  BY <1>22 DEF Die, Dies
<1>23. CASE Restart
  BY <1>23 DEF Restart
<1>24. CASE UNCHANGED vars
  BY <1>24 DEF vars, recorderVars, playerVars, cssVars
<1>25. QED
  BY <1>1, <1>2, <1>3, <1>4, <1>5, <1>6, <1>7, <1>8, <1>9, <1>10, <1>11, <1>12,
     <1>13, <1>14, <1>15, <1>16, <1>17, <1>18, <1>19, <1>20, <1>21,
     <1>22, <1>23, <1>24 DEF Next, Application

\* The RTP session of the CSS and the phone state.
LEMMA CssKept == IInv /\ [Next]_vars => CssIs'
<1> SUFFICES ASSUME IInv, [Next]_vars PROVE CssIs'
  OBVIOUS
<1> USE DEF IInv, CssIs, LeftBehind, NodesAre, Flags, TypeOK, Starting, Stopping, Sockets,
        CssAudio, InCall, StartingCss, BehindVideo, BehindAudio, BehindPlay,
        recorderVars, playerVars, cssVars
<1>1. ASSUME NEW s \in Settings, StartCall(s) PROVE CssIs'
  BY <1>1 DEF StartCall
<1>2. CASE OpenSocket
  BY <1>2 DEF OpenSocket, AfterSocket, Lowest, FreeFDs
<1>3. CASE SetupCamera
  BY <1>3 DEF SetupCamera
<1>4. CASE SetupEncoder
  BY <1>4 DEF SetupEncoder, Dies, StartWriter, AfterFailedPrepare, Streamable
<1>5. CASE WriterStarted
  BY <1>5 DEF WriterStarted, HasStarted
<1>6. CASE StartAudio
  BY <1>6 DEF StartAudio, Dies, StartWriter, Streamable
<1>7. CASE Play
  BY <1>7 DEF Play, Dies
<1>8. CASE CheckCodec
  BY <1>8 DEF CheckCodec, Undo, Released, Refuses
<1>9. CASE GetNode
  <2> USE <1>9 DEF GetNode, Undo, Lowest, FreeNodes
  <2>1. ui' \in {"connect", "stopVideo"} /\ ~(session' = "running")
    OBVIOUS
  <2>2. phone' = "inCall" => deaths' > 0 \/ refusals' > 0
    OBVIOUS
  <2>3. StartingCss' => CssAudio'
    OBVIOUS
  <2> QED
    BY <2>1, <2>2, <2>3
<1>10. CASE ConnectNode
  BY <1>10 DEF ConnectNode, Undo
<1>11. CASE StartSession
  BY <1>11 DEF StartSession, Undo, Refuses
<1>12. CASE StopCss
  BY <1>12 DEF StopCss, ReleaseNode, Refuses
<1>13. CASE StopVideo
  BY <1>13 DEF StopVideo
<1>14. CASE StopAudio
  BY <1>14 DEF StopAudio, AfterStopRecording
<1>15. CASE CloseSockets
  BY <1>15 DEF CloseSockets, InCallAfterStop
<1>16. CASE EndCall
  BY <1>16 DEF EndCall
<1>17. CASE StopPlayer
  BY <1>17 DEF StopPlayer
<1>18. CASE VideoStarts
  BY <1>18 DEF VideoStarts, Completed
<1>19. CASE AudioStarts
  BY <1>19 DEF AudioStarts
<1>20. CASE OtherOpens
  BY <1>20 DEF OtherOpens, Lowest, FreeFDs
<1>21. CASE OtherCloses
  BY <1>21 DEF OtherCloses
<1>22. CASE Die
  BY <1>22 DEF Die, Dies
<1>23. CASE Restart
  BY <1>23 DEF Restart
<1>24. CASE UNCHANGED vars
  BY <1>24 DEF vars, recorderVars, playerVars, cssVars
<1>25. QED
  BY <1>1, <1>2, <1>3, <1>4, <1>5, <1>6, <1>7, <1>8, <1>9, <1>10, <1>11, <1>12,
     <1>13, <1>14, <1>15, <1>16, <1>17, <1>18, <1>19, <1>20, <1>21,
     <1>22, <1>23, <1>24 DEF Next, Application

\* Taking a node away or adding one changes the counts by as much.
LEMMA NodesTaken ==
  ASSUME NEW S, IsFiniteSet(S), NEW n
  PROVE  /\ IsFiniteSet(S \ {n})
         /\ Cardinality(S) \in Nat /\ Cardinality(S \ {n}) \in Nat
         /\ Cardinality(S \ {n}) <= Cardinality(S)
         /\ Cardinality(S) <= Cardinality(S \ {n}) + 1
         /\ (n \notin S) => Cardinality(S \ {n}) = Cardinality(S)
         /\ (n \in S) => Cardinality(S \ {n}) = Cardinality(S) - 1
BY FS_CardinalityType, FS_RemoveElement

\* The nodes that are not the call's, and those that would not be the next
\* process's, are those the CSS has refused to release: one is released before
\* one is allocated.
LEMMA NodesKept == IInv /\ [Next]_vars => NodesAre'
<1> SUFFICES ASSUME IInv, [Next]_vars PROVE NodesAre'
  OBVIOUS
<1>1. /\ IsFiniteSet(nodes) /\ refusals \in Nat
      /\ Cardinality(nodes) \in Nat
      /\ Cardinality(nodes \ {node}) \in Nat
      /\ Cardinality(nodes \ {node}) <= refusals
      /\ Cardinality(nodes) <= refusals + 1
      /\ Cardinality(nodes \ {0}) <= refusals
      /\ ui = "getNode" => Cardinality(nodes) <= refusals
      /\ ui \in {"connect", "session"} => node \in nodes
  <2>1. /\ IsFiniteSet(nodes) /\ refusals \in Nat
        /\ Cardinality(nodes \ {node}) <= refusals
    BY DEF IInv, TypeOK, NodesAre
  <2>2. /\ Cardinality(nodes) \in Nat /\ Cardinality(nodes \ {node}) \in Nat
        /\ Cardinality(nodes) <= Cardinality(nodes \ {node}) + 1
    BY <2>1, NodesTaken
  <2>3. Cardinality(nodes) <= refusals + 1
    BY <2>1, <2>2
  <2> QED
    BY <2>1, <2>2, <2>3 DEF IInv, NodesAre
\* The node of the call is released, or it is not.
<1>2. ASSUME nodes' = nodes \ {node}, node' = node,
             refusals' \in Nat, refusals' >= refusals,
             ui' \notin {"connect", "session"}
      PROVE  NodesAre'
  <2>1. IsFiniteSet(nodes')
    BY <1>1, <1>2, NodesTaken
  <2>2. /\ Cardinality(nodes') \in Nat
        /\ Cardinality(nodes' \ {node'}) \in Nat
        /\ Cardinality(nodes' \ {0}) \in Nat
        /\ Cardinality(nodes' \ {node'}) <= Cardinality(nodes')
        /\ Cardinality(nodes' \ {0}) <= Cardinality(nodes')
    BY <2>1, NodesTaken
  <2>3. Cardinality(nodes') = Cardinality(nodes \ {node})
    BY <1>2
  <2>4. /\ Cardinality(nodes') <= refusals'
        /\ Cardinality(nodes' \ {node'}) <= refusals'
        /\ Cardinality(nodes' \ {0}) <= refusals'
    BY <1>1, <1>2, <2>2, <2>3
  <2> QED
    BY <1>2, <2>1, <2>4 DEF NodesAre
<1>3. ASSUME UNCHANGED <<nodes, node>>, refusals' \in Nat, refusals' >= refusals,
             ui' = "getNode" => Cardinality(nodes) <= refusals',
             ui' \in {"connect", "session"} => node \in nodes
      PROVE  NodesAre'
  <2>1. Cardinality(nodes \ {0}) \in Nat
    BY <1>1, NodesTaken
  <2>2. /\ Cardinality(nodes \ {node}) <= refusals'
        /\ Cardinality(nodes \ {0}) <= refusals'
    BY <1>1, <1>3, <2>1
  <2> QED
    BY <1>1, <1>3, <2>2 DEF NodesAre
<1>4. CASE CheckCodec
  <2>1. CASE Undo /\ UNCHANGED <<nodes, refusals>>
    BY <1>1, <1>3, <1>4, <2>1 DEF CheckCodec, Undo
  <2>2. CASE nodes' = Released /\ UNCHANGED refusals /\ ui' = "getNode"
    BY <1>1, <1>2, <1>4, <2>2 DEF CheckCodec, Released
  <2>3. CASE Refuses /\ UNCHANGED nodes /\ ui' = "getNode"
    <3>1. /\ UNCHANGED <<nodes, node>> /\ refusals' = refusals + 1
          /\ ui' = "getNode"
      BY <1>4, <2>3 DEF CheckCodec, Refuses
    <3>2. refusals' \in Nat /\ refusals' >= refusals
      BY <1>1, <3>1
    <3>3. Cardinality(nodes) <= refusals'
      BY <1>1, <3>1
    <3> QED
      BY <1>3, <3>1, <3>2, <3>3
  <2> QED
    BY <1>4, <2>1, <2>2, <2>3 DEF CheckCodec
<1>5. CASE GetNode
  <2>1. CASE Undo /\ UNCHANGED <<node, nodes>>
    BY <1>1, <1>3, <1>5, <2>1 DEF GetNode, Undo
  <2>2. ASSUME NEW n \in Lowest(FreeNodes), node' = n, nodes' = nodes \cup {n},
               ui' = "connect"
        PROVE  NodesAre'
    <3>1. /\ n \notin nodes /\ UNCHANGED refusals
          /\ Cardinality(nodes) <= refusals
      BY <1>1, <1>5, <2>2 DEF GetNode, Lowest, FreeNodes
    <3>2. n # 0 => 0 \in nodes
      BY <2>2, SetupAssumption DEF Lowest, FreeNodes
    <3>3. IsFiniteSet(nodes') /\ Cardinality(nodes') = Cardinality(nodes) + 1
      BY <1>1, <2>2, <3>1, FS_AddElement
    <3>4. /\ Cardinality(nodes' \ {n}) = Cardinality(nodes') - 1
          /\ 0 \in nodes' /\ Cardinality(nodes' \ {0}) = Cardinality(nodes') - 1
      BY <2>2, <3>2, <3>3, NodesTaken
    <3> QED
      BY <1>1, <2>2, <3>1, <3>3, <3>4 DEF NodesAre
  <2> QED
    BY <1>5, <2>1, <2>2 DEF GetNode
<1>6. CASE StartSession
  <2>1. UNCHANGED node /\ ui' \notin {"connect", "session", "getNode"}
        /\ (nodes' = nodes \ {node} \/ UNCHANGED nodes)
        /\ refusals' \in Nat /\ refusals' >= refusals
    BY <1>1, <1>6 DEF StartSession, Undo, Refuses
  <2> QED
    BY <1>2, <1>3, <2>1
<1>7. CASE StopCss
  <2>1. UNCHANGED node /\ ui' \notin {"connect", "session", "getNode"}
        /\ (nodes' = nodes \ {node} \/ UNCHANGED nodes)
        /\ refusals' \in Nat /\ refusals' >= refusals
    BY <1>1, <1>7 DEF StopCss, ReleaseNode, Refuses
  <2> QED
    BY <1>2, <1>3, <2>1
<1>8. CASE ConnectNode
  BY <1>1, <1>3, <1>8 DEF ConnectNode, Undo, NodesAre, cssVars
<1>9. CASE Restart
  <2>1. /\ nodes' = nodes /\ node' = 0 /\ refusals' = refusals
        /\ ui' = "idle"
    BY <1>9 DEF Restart
  <2> QED
    BY <1>1, <2>1 DEF NodesAre
<1>10. CASE /\ UNCHANGED <<node, nodes, refusals>>
            /\ ui' \in {"getNode", "connect", "session"} => ui' = ui
  BY <1>1, <1>10 DEF NodesAre
<1>11. QED
  BY <1>4, <1>5, <1>6, <1>7, <1>8, <1>9, <1>10
  DEF Next, Application, StartCall, OpenSocket, SetupCamera, SetupEncoder,
      WriterStarted, StartAudio, Play, EndCall, StopVideo, StopAudio,
      StopPlayer, CloseSockets, VideoStarts, AudioStarts, OtherOpens,
      OtherCloses, Die, Dies, StartWriter, Sockets, AfterSocket,
      AfterStopRecording, vars, cssVars

\* The ids are those of this call's sockets, and no other descriptor is a socket
\* of the application, from createSockets() to closeSockets().
LEMMA SocketsKept == IInv /\ [Next]_vars => SocketsAre'
<1> SUFFICES ASSUME IInv, [Next]_vars PROVE SocketsAre'
  OBVIOUS
<1> USE DEF IInv, SocketsAre, Flags, TypeOK, Starting, Stopping, Sockets,
        Opened, Open, Before, recorderVars, playerVars, cssVars
<1>1. ASSUME NEW s \in Settings, StartCall(s) PROVE SocketsAre'
  BY <1>1 DEF StartCall
<1>2. CASE OpenSocket
  <2> USE <1>2 DEF OpenSocket, AfterSocket, Lowest, FreeFDs
  <2>1. /\ \A s \in Sockets : Opened(s)' <=> Opened(s) \/ s = ui
       /\ ~Opened(ui) /\ ui' # "dead"
    OBVIOUS
  <2>2. ASSUME ids' = [ids EXCEPT ![ui] = -1], UNCHANGED owner PROVE SocketsAre'
    BY <2>1, <2>2
  <2>3. ASSUME NEW d \in FDs, owner[d] = "free", ids' = [ids EXCEPT ![ui] = d],
              owner' = [owner EXCEPT ![d] = "app"] PROVE SocketsAre'
    BY <2>1, <2>3
  <2>4. ASSUME NEW d \in FDs, owner[d] = "free", ids' = [ids EXCEPT ![ui] = -1],
              owner' = [owner EXCEPT ![d] = "lost"] PROVE SocketsAre'
    BY <2>1, <2>4
  <2> QED
    BY <2>1, <2>2, <2>3, <2>4
<1>3. CASE SetupCamera
  BY <1>3 DEF SetupCamera
<1>4. CASE SetupEncoder
  BY <1>4 DEF SetupEncoder, Dies, StartWriter, AfterFailedPrepare, Streamable
<1>5. CASE WriterStarted
  BY <1>5 DEF WriterStarted, HasStarted
<1>6. CASE StartAudio
  BY <1>6 DEF StartAudio, Dies, StartWriter, Streamable
<1>7. CASE Play
  <2> USE <1>7 DEF Play, Dies
  <2>1. CASE ui' = "dead"
    BY <2>1
  <2>2. CASE ui' = "css"
    BY <2>2
  <2>3. CASE ui' = "idle" /\ inCall'
    BY <2>3
  <2>4. ui' = "dead" \/ ui' = "css" \/ (ui' = "idle" /\ inCall')
    OBVIOUS
  <2> QED
    BY <2>1, <2>2, <2>3, <2>4
<1>8. CASE CheckCodec
  BY <1>8 DEF CheckCodec, Undo, Released, Refuses
<1>9. CASE GetNode
  BY <1>9 DEF GetNode, Undo, Lowest, FreeNodes
<1>10. CASE ConnectNode
  BY <1>10 DEF ConnectNode, Undo
<1>11. CASE StartSession
  BY <1>11 DEF StartSession, Undo, Refuses
<1>12. CASE StopCss
  BY <1>12 DEF StopCss, ReleaseNode, Refuses
<1>13. CASE StopVideo
  BY <1>13 DEF StopVideo
<1>14. CASE StopAudio
  BY <1>14 DEF StopAudio, AfterStopRecording
<1>15. CASE CloseSockets
  BY <1>15 DEF CloseSockets, InCallAfterStop
<1>16. CASE EndCall
  BY <1>16 DEF EndCall
<1>17. CASE StopPlayer
  BY <1>17 DEF StopPlayer
<1>18. CASE VideoStarts
  BY <1>18 DEF VideoStarts, Completed
<1>19. CASE AudioStarts
  BY <1>19 DEF AudioStarts
<1>20. CASE OtherOpens
  BY <1>20 DEF OtherOpens, Lowest, FreeFDs
<1>21. CASE OtherCloses
  BY <1>21 DEF OtherCloses
<1>22. CASE Die
  BY <1>22 DEF Die, Dies
<1>23. CASE Restart
  BY <1>23 DEF Restart
<1>24. CASE UNCHANGED vars
  BY <1>24 DEF vars, recorderVars, playerVars, cssVars
<1>25. QED
  BY <1>1, <1>2, <1>3, <1>4, <1>5, <1>6, <1>7, <1>8, <1>9, <1>10, <1>11, <1>12,
     <1>13, <1>14, <1>15, <1>16, <1>17, <1>18, <1>19, <1>20, <1>21,
     <1>22, <1>23, <1>24 DEF Next, Application

-----------------------------------------------------------------------------
(* Sockets in use.                                                         *)

Parts == TypeOK /\ Flags /\ SocketsAre /\ VideoIs /\ AudioIs /\ PlayerIs /\ CssIs

\* While the process lives, what uses a socket has been started after the
\* sockets were opened, and is stopped before they are closed.
LEMMA UsedAreOpened == Parts /\ ui # "dead" => SocketsOpenWhileUsed
<1> SUFFICES ASSUME Parts, ui # "dead", NEW s \in Sockets, Uses(s)
             PROVE  Open(s)
  BY DEF SocketsOpenWhileUsed, Open
<1>1. Open(s) \/ ~Opened(s)
  BY DEF Parts, SocketsAre
<1>2. Opened(s)
  BY DEF Parts, VideoIs, AudioIs, PlayerIs, CssIs, Uses, Opened, Flags, TypeOK,
         Starting, Stopping, Sockets, Tracks, InCall, StartingCss, BehindVideo,
         BehindAudio, BehindPlay
<1>3. QED
  BY <1>1, <1>2

\* A process that dies takes nothing from anybody.
LEMMA DyingKeepsSockets ==
    ASSUME SocketsOpenWhileUsed, [Next]_vars, ui' = "dead"
    PROVE  SocketsOpenWhileUsed'
<1>1. UNCHANGED <<ids, owner, player, conf, session>> /\ UNCHANGED writer
  BY DEF Next, Application, StartCall, OpenSocket, SetupCamera, SetupEncoder,
         WriterStarted, StartAudio, Play, CheckCodec, GetNode, ConnectNode,
         StartSession, StopCss, StopVideo, StopAudio, CloseSockets, EndCall,
         StopPlayer, VideoStarts, AudioStarts, OtherOpens, OtherCloses, Die,
         Restart, Dies, StartWriter, Undo, AfterSocket, AfterStopRecording,
         Sockets, vars, recorderVars, playerVars, cssVars
<1>2. QED
  BY <1>1 DEF SocketsOpenWhileUsed, Uses, RtpAudio

-----------------------------------------------------------------------------
(* The invariant.                                                          *)

LEMMA Initially == Init => IInv
<1> SUFFICES ASSUME Init PROVE IInv
  OBVIOUS
<1> USE SetupAssumption DEF Init
<1>1. TypeOK
  <2>1. inCall \in BOOLEAN /\ camera \in BOOLEAN /\ player \in BOOLEAN
    BY Zenon
  <2>2. /\ ids \in [Sockets -> FDs \cup {-1, Unset}]
        /\ owner \in [FDs -> {"free", "app", "other", "lost"}]
        /\ writer \in [Tracks -> {"none", "starting", "started"}]
        /\ writer["video"] = "none" /\ writer["audio"] = "none"
    BY DEF Sockets, Tracks
  <2>3. /\ calls \in 0 .. MaxCalls /\ params \in 0 .. MaxCalls
        /\ playerSdp \in 0 .. MaxCalls /\ deaths \in Nat
        /\ node \in Nodes /\ nodes \subseteq Nodes /\ refusals \in Nat
    OBVIOUS
  <2> QED
    BY <2>1, <2>2, <2>3 DEF TypeOK
<1>2. Flags /\ VideoIs /\ AudioIs /\ PlayerIs /\ CssIs
  BY DEF Flags, VideoIs, AudioIs, PlayerIs, CssIs, InCall,
         StartingCss, BehindVideo, BehindAudio, BehindPlay, Tracks
<1>5. NodesAre
  <2>1. \A n : nodes \ {n} = {}
    OBVIOUS
  <2> QED
    BY <2>1, FS_EmptySet DEF NodesAre
<1>3. SocketsAre /\ SocketsOpenWhileUsed
  BY DEF SocketsAre, Opened, SocketsOpenWhileUsed, Uses, Tracks, Sockets
<1>4. QED
  BY <1>1, <1>2, <1>3, <1>5 DEF IInv

LEMMA Inductive == IInv /\ [Next]_vars => IInv'
<1> SUFFICES ASSUME IInv, [Next]_vars PROVE IInv'
  OBVIOUS
<1>1. /\ (TypeOK /\ Flags /\ SocketsAre /\ VideoIs /\ AudioIs /\ PlayerIs)'
      /\ (CssIs /\ NodesAre)'
  BY TypesKept, FlagsKept, SocketsKept, VideoKept, AudioKept, PlayerKept,
     CssKept, NodesKept
<1>2. CASE ui' = "dead"
  <2>1. SocketsOpenWhileUsed'
    BY <1>2, DyingKeepsSockets DEF IInv
  <2> QED
    BY <1>1, <2>1 DEF IInv
<1>3. CASE ui' # "dead"
  <2>1. (Parts /\ ui # "dead" => SocketsOpenWhileUsed)'
    BY UsedAreOpened, PTL
  <2> QED
    BY <1>1, <1>3, <2>1 DEF IInv, Parts
<1>4. QED
  BY <1>2, <1>3

LEMMA Invariant == Spec => []IInv
BY Initially, Inductive, PTL DEF Spec

\* Every variable has its type, and a streamer is only starting while the
\* application's thread waits for it.
THEOREM TypeCorrect == Spec => []TypeOK
<1>1. IInv => TypeOK
  BY DEF IInv
<1>2. QED
  BY <1>1, Invariant, PTL

\* Between two calls of the JNI layer the engine is all up or all down, whatever
\* failed on the way: the undoing in start() and stop() leaves no player, no
\* streamer, no open camera and no socket that it still knows; the phone is out
\* of the call and the session gone unless a process has died or the CSS has
\* refused, which StopCssAudio() takes as it comes.
THEOREM CallsAreWhole == Spec => []CallIsWhole
<1>1. ASSUME IInv, ui = "idle", inCall PROVE Up
  BY <1>1 DEF IInv, TypeOK, VideoIs, AudioIs, PlayerIs, CssIs, Up, InCall,
              StartingCss, BehindVideo, BehindAudio, BehindPlay
<1>2. ASSUME IInv, ui = "idle", ~inCall PROVE Down
  <2>1. writer["video"] = "none" /\ writer["audio"] = "none" /\ ~camera /\ ~player
    BY <1>2 DEF IInv, TypeOK, VideoIs, AudioIs, PlayerIs, InCall, StartingCss,
                BehindVideo, BehindAudio, BehindPlay, Tracks
  <2>2. writer = [t \in Tracks |-> "none"]
    BY <1>2, <2>1 DEF IInv, TypeOK, Tracks
  <2>3. /\ session # "running"
        /\ session = "orphan" \/ phone = "inCall" => LeftBehind
    BY <1>2 DEF IInv, CssIs, InCall, StartingCss
  <2>4. \A d \in FDs \ {Unset} : owner[d] # "app"
    BY <1>2 DEF IInv, SocketsAre, Opened, Sockets
  <2> QED
    BY <2>1, <2>2, <2>3, <2>4 DEF Down
<1>3. IInv => CallIsWhole
  BY <1>1, <1>2 DEF CallIsWhole
<1>4. QED
  BY <1>3, Invariant, PTL

\* No socket is closed while a streamer, the player or the CSS has it.
THEOREM UsedSocketsStayOpen == Spec => []SocketsOpenWhileUsed
<1>1. IInv => SocketsOpenWhileUsed
  BY DEF IInv
<1>2. QED
  BY <1>1, Invariant, PTL

\* closeSockets(), which keeps the ids, closes nobody else's descriptor: stop()
\* is only called for a call whose sockets are still open.
THEOREM OthersKeepTheirs == Spec => ClosesOwn
<1>1. ASSUME IInv, [Next]_vars, ui' # ui, ui # "dead",
             NEW d \in FDs, owner[d] = "other"
      PROVE  owner'[d] = "other"
  <2>1. CASE CloseSockets
    <3>1. \A s \in Sockets : ids[s] # d
      <4>1. \A s \in Sockets : Opened(s)
        BY <2>1 DEF CloseSockets, Opened, Sockets
      <4> QED
        BY <1>1, <4>1, SetupAssumption DEF IInv, SocketsAre, Open
    <3> QED
      BY <1>1, <2>1, <3>1 DEF CloseSockets
  <2>2. CASE OpenSocket
    BY <1>1, <2>2 DEF OpenSocket, Lowest, FreeFDs, IInv, TypeOK
  <2>3. CASE ~CloseSockets /\ ~OpenSocket
    BY <1>1, <2>3
    DEF Next, Application, StartCall, SetupCamera, SetupEncoder, WriterStarted,
        StartAudio, Play, CheckCodec, GetNode, ConnectNode, StartSession,
        StopCss, StopVideo, StopAudio, EndCall, StopPlayer, VideoStarts,
        AudioStarts, OtherOpens, OtherCloses, Die, Restart, vars
  <2> QED
    BY <2>1, <2>2, <2>3
<1>2. IInv /\ [Next]_vars =>
        [ui' # ui /\ ui # "dead" =>
            \A d \in FDs : owner[d] = "other" => owner'[d] = "other"]_vars
  BY <1>1
<1>3. QED
  BY <1>2, Invariant, PTL DEF Spec, ClosesOwn

\* Over any number of failed calls and deaths there is at most one node of the
\* CSS for each time it has refused to release one, and one more.
THEOREM OneNodeAtMost == Spec => []OneNode
<1>1. ASSUME IInv PROVE OneNode
  <2>1. Cardinality(nodes \ {0}) <= refusals /\ refusals \in Nat
    BY <1>1 DEF IInv, NodesAre, TypeOK
  <2>2. /\ Cardinality(nodes) <= Cardinality(nodes \ {0}) + 1
        /\ Cardinality(nodes) \in Nat /\ Cardinality(nodes \ {0}) \in Nat
    BY <1>1, NodesTaken DEF IInv, NodesAre
  <2> QED
    BY <2>1, <2>2 DEF OneNode
<1>2. QED
  BY <1>1, Invariant, PTL

-----------------------------------------------------------------------------
(* Whose parameter sets the player has.                                    *)

\* The streamer has started only after encoderSdpHandler() was called, in the
\* call that is going on: no earlier call has left a streamer.
SdpIs == writer["video"] = "started" => params = calls

LEMMA SdpKept ==
    IInv /\ SdpIs /\ SdpIsOurs /\ [Next]_vars => SdpIs' /\ SdpIsOurs'
<1> SUFFICES ASSUME IInv, SdpIs, SdpIsOurs, [Next]_vars
             PROVE  SdpIs' /\ SdpIsOurs'
  OBVIOUS
<1> USE DEF IInv, SdpIs, SdpIsOurs, VideoIs, PlayerIs, Flags, TypeOK, Starting,
        Stopping, Sockets, Tracks, InCall, StartingCss, BehindVideo,
        BehindPlay, recorderVars, playerVars, cssVars
<1>1. ASSUME NEW s \in Settings, StartCall(s) PROVE SdpIs' /\ SdpIsOurs'
  BY <1>1 DEF StartCall
<1>2. CASE OpenSocket
  BY <1>2 DEF OpenSocket, AfterSocket, Lowest, FreeFDs
<1>3. CASE SetupCamera
  BY <1>3 DEF SetupCamera
<1>4. CASE SetupEncoder
  BY <1>4 DEF SetupEncoder, Dies, StartWriter, AfterFailedPrepare, Streamable
<1>5. CASE WriterStarted
  BY <1>5 DEF WriterStarted, HasStarted
<1>6. CASE StartAudio
  BY <1>6 DEF StartAudio, Dies, StartWriter, Streamable
<1>7. CASE Play
  BY <1>7 DEF Play, Dies
<1>8. CASE CheckCodec
  BY <1>8 DEF CheckCodec, Undo, Released, Refuses
<1>9. CASE GetNode
  BY <1>9 DEF GetNode, Undo, Lowest, FreeNodes
<1>10. CASE ConnectNode
  BY <1>10 DEF ConnectNode, Undo
<1>11. CASE StartSession
  BY <1>11 DEF StartSession, Undo, Refuses
<1>12. CASE StopCss
  BY <1>12 DEF StopCss, ReleaseNode, Refuses
<1>13. CASE StopVideo
  BY <1>13 DEF StopVideo
<1>14. CASE StopAudio
  BY <1>14 DEF StopAudio, AfterStopRecording
<1>15. CASE CloseSockets
  BY <1>15 DEF CloseSockets, InCallAfterStop
<1>16. CASE EndCall
  BY <1>16 DEF EndCall
<1>17. CASE StopPlayer
  BY <1>17 DEF StopPlayer
<1>18. CASE VideoStarts
  BY <1>18 DEF VideoStarts, Completed
<1>19. CASE AudioStarts
  BY <1>19 DEF AudioStarts
<1>20. CASE OtherOpens
  BY <1>20 DEF OtherOpens, Lowest, FreeFDs
<1>21. CASE OtherCloses
  BY <1>21 DEF OtherCloses
<1>22. CASE Die
  BY <1>22 DEF Die, Dies
<1>23. CASE Restart
  BY <1>23 DEF Restart
<1>24. CASE UNCHANGED vars
  BY <1>24 DEF vars
<1>25. QED
  BY <1>1, <1>2, <1>3, <1>4, <1>5, <1>6, <1>7, <1>8, <1>9, <1>10, <1>11, <1>12,
     <1>13, <1>14, <1>15, <1>16, <1>17, <1>18, <1>19, <1>20, <1>21,
     <1>22, <1>23, <1>24 DEF Next, Application

\* A player of video that is made while the camera is being sent has the
\* parameter sets of this call's encoder, for any number of calls and deaths:
\* ARTPStreamer::start() does not return before they have come.
THEOREM SdpIsThisCalls == Spec => []SdpIsOurs
<1>1. Init => SdpIs /\ SdpIsOurs
  BY DEF Init, SdpIs, SdpIsOurs, Tracks
<1>2. Spec => [](SdpIs /\ SdpIsOurs)
  BY <1>1, Invariant, SdpKept, PTL DEF Spec
<1>3. QED
  BY <1>2, PTL

=============================================================================
