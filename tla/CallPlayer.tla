------------------------------ MODULE CallPlayer ------------------------------
(***************************************************************************)
(* The playing side of a call: MediaPlayerCtrl (src/jni/MediaPlayerCtrl.cpp)*)
(* over DSPGMediaPlayer (src/jni/player/DSPGMediaPlayer.cpp) in its "sdp"  *)
(* mode, for one call, the first or a later one.  The owner's thread calls *)
(* play() and stop(); five more take part:                                 *)
(* the control queue, the player's queue, the video looper, the audio sink *)
(* and the looper of the RTP session.  What a thread does under mLock is   *)
(* one step, unless it blocks there: only the read of the video source,    *)
(* the callbacks of prepare and the end of the audio sink do.  Both queues *)
(* are taken as TimedEventQueue promises: first posted, first handled.     *)
(***************************************************************************)
EXTENDS Integers, Sequences, SequencesExt, FiniteSets

CONSTANTS Tracks,     \* the tracks of the call's SDP
          WaitsForSdp \* is it H.264 video, whose SDP the encoder completes?

ASSUME CallAssumption == /\ Tracks \subseteq {"audio", "video"}
                         /\ Tracks # {}
                         /\ WaitsForSdp \in BOOLEAN

VARIABLES
    \* MediaPlayerCtrl
    called,      \* play() has been called
    opc,         \* where the owner is in play() or stop()
    sdp,         \* m_psdpInfo: null, set, or never initialised
    inProgress,  \* mIsPrepareInProgress
    stopReq,     \* mIsStopReqPending
    playerSet,   \* m_mediaPlayer is not NULL
    startQueued, \* mPrepareEvent is in mQueue
    cpc,         \* where the thread of mQueue is with it
    \* DSPGMediaPlayer
    lock,        \* who holds mLock for more than a step
    flags,       \* mFlags
    listener,    \* m_appCb is not NULL
    pqueue,      \* the events in its mQueue
    qpc, qev,    \* where that queue's thread is, and the event it has taken
    pending,     \* the mXxxEventPending that are set
    doneStatus,  \* mStreamDoneStatus
    watchEOS,    \* mWatchForAudioEOS
    vmsgs,       \* kWhatVideoEvent messages in mLocalLooper
    vpc,         \* where the looper's thread is in onVideoEvent()
    \* DSPGAudioPlayer; its sink
    apc,         \* where the audio callback is; none without mAudioPlayer
    sink,        \* the sink is started
    \* DSPGARTPSession; its packet sources
    started,     \* the RTP connection is being polled
    eosMsgs,     \* tracks an "eos" message is under way for
    eos,         \* tracks whose source has ended
    frames,      \* access units queued per track
    completions, \* history: MEDIA_PLAYBACK_COMPLETE callbacks of this player
    crashed      \* what ended the process, or None

ctrlVars == <<called, opc, sdp, inProgress, stopReq, playerSet, startQueued, cpc>>
queueVars == <<pqueue, qpc, qev>>
playerVars == <<lock, flags, listener, pending, doneStatus, watchEOS>>
videoVars == <<vmsgs, vpc>>
audioVars == <<apc, sink>>
sessionVars == <<started, eosMsgs, eos, frames>>
vars == <<ctrlVars, queueVars, playerVars, videoVars, audioVars, sessionVars,
          completions, crashed>>

None == "none"
Free == lock = None

\* The player object exists, if only in the hands of stop().
Alive == playerSet \/ opc \in {"reset", "resetAudio", "destroy", "join"}

-----------------------------------------------------------------------------
(* Mutated forms of definitions below.                                     *)

TrustsStaleVideo == TRUE

AnyDone == "VIDEO_AT_EOS" \in flags \/ "AUDIO_AT_EOS" \in flags

EndsFirstTrackOnly == eosMsgs \cup (Tracks \ {"video"})

ForgetsNextEvent == pending

KeepsDonePending == pending

-----------------------------------------------------------------------------
(* Posting and cancelling.  An event that is pending is not posted again.  *)

Event == {"prepare", "done", "check"}

\* postStreamDoneEvent_l(status), onto the given list and pending flags.
PostDone(status, box, flagged) ==
    IF "done" \in flagged
    THEN pqueue' = box /\ pending' = flagged /\ UNCHANGED doneStatus
    ELSE /\ pqueue' = Append(box, "done")
         /\ pending' = flagged \cup {"done"}
         /\ doneStatus' = status

\* cancelPlayerEvents() leaves the prepare event, of which there is one; and
\* the video looper's message cannot be taken back.
AfterCancel(box) == IF "prepare" \in Range(box) THEN <<"prepare">> ELSE <<>>

-----------------------------------------------------------------------------
(* The owner: play().                                                      *)

playFrame == <<queueVars, playerVars, videoVars, audioVars, sessionVars,
               completions>>

Play ==
    /\ opc = "idle"
    /\ ~playerSet
    /\ ~called
    /\ called' = TRUE
    /\ opc' = IF WaitsForSdp THEN "sdpCheck" ELSE "prepare"
    /\ sdp' = IF WaitsForSdp THEN sdp ELSE "set"
    /\ UNCHANGED <<inProgress, stopReq, playerSet, startQueued, cpc, playFrame,
                   crashed>>

\* while (m_psdpInfo == NULL), and what follows uses it.
CheckSdp ==
    /\ opc = "sdpCheck"
    /\ \/ /\ sdp = "null"
          /\ opc' = "sdpGoingToWait"
          /\ UNCHANGED crashed
       \/ /\ sdp = "set"
          /\ opc' = "prepare"
          /\ UNCHANGED crashed
       \/ /\ sdp = "garbage"
          /\ crashed' = "sdp"
          /\ UNCHANGED opc
    /\ UNCHANGED <<called, sdp, inProgress, stopReq, playerSet, startQueued, cpc,
                   playFrame>>

\* mCondition.wait(mLock) and mPrepareCheck.wait(mLock): nobody who signals
\* holds that lock.
GoToWait ==
    /\ \/ opc = "sdpGoingToWait" /\ opc' = "sdpWait"
       \/ opc = "stopGoingToWait" /\ opc' = "stopWait"
    /\ UNCHANGED <<called, sdp, inProgress, stopReq, playerSet, startQueued, cpc,
                   playFrame, crashed>>

SpuriousWakeup ==
    /\ \/ opc = "sdpWait" /\ opc' = "sdpCheck"
       \/ opc = "stopWait" /\ opc' = "stopCheck"
    /\ UNCHANGED <<called, sdp, inProgress, stopReq, playerSet, startQueued, cpc,
                   playFrame, crashed>>

\* encoderSdpHandler(), in a thread of the recorder.  The application has the
\* SDP before it calls play() (module CallSetup); nothing in MediaPlayerCtrl
\* asks for that order.
EncoderSdp ==
    /\ called
    /\ WaitsForSdp
    /\ sdp' = "set"
    /\ opc' = IF opc = "sdpWait" THEN "sdpCheck" ELSE opc
    /\ UNCHANGED <<called, inProgress, stopReq, playerSet, startQueued, cpc,
                   playFrame, crashed>>

\* prepare() up to the return of prepareAsync(): a new player, its prepare
\* event posted.
Prepare ==
    /\ opc = "prepare"
    /\ playerSet' = TRUE
    /\ listener' = TRUE
    /\ flags' = {"PREPARING"}
    /\ pqueue' = <<"prepare">>
    /\ completions' = 0
    /\ opc' = "mark"
    /\ UNCHANGED <<called, sdp, inProgress, stopReq, startQueued, cpc, qpc, qev,
                   lock, pending, doneStatus, watchEOS, videoVars, audioVars,
                   sessionVars, crashed>>

\* Its last part: the mark that a prepare is in progress.
MarkInProgress ==
    /\ opc = "mark"
    /\ inProgress' = TRUE
    /\ opc' = "idle"
    /\ UNCHANGED <<called, sdp, stopReq, playerSet, startQueued, cpc, playFrame,
                   crashed>>

-----------------------------------------------------------------------------
(* The owner: stop().                                                      *)

Stop ==
    /\ opc = "idle"
    /\ playerSet
    /\ opc' = "stopCheck"
    /\ UNCHANGED <<called, sdp, inProgress, stopReq, playerSet, startQueued, cpc,
                   playFrame, crashed>>

CheckInProgress ==
    /\ opc = "stopCheck"
    /\ opc' = IF inProgress THEN "stopRequest" ELSE "cancel"
    /\ UNCHANGED <<called, sdp, inProgress, stopReq, playerSet, startQueued, cpc,
                   playFrame, crashed>>

RequestStop ==
    /\ opc = "stopRequest"
    /\ stopReq' = TRUE
    /\ opc' = "stopGoingToWait"
    /\ UNCHANGED <<called, sdp, inProgress, playerSet, startQueued, cpc,
                   playFrame, crashed>>

CancelStart ==
    /\ opc = "cancel"
    /\ startQueued' = FALSE
    /\ opc' = "forceStop"
    /\ UNCHANGED <<called, sdp, inProgress, stopReq, playerSet, cpc, playFrame,
                   crashed>>

\* The tracks forceStop() sends an "eos" message for.
EndedByForce == eosMsgs \cup Tracks

ForceStop ==
    /\ opc = "forceStop"
    /\ eosMsgs' = EndedByForce
    /\ opc' = "setListener"
    /\ UNCHANGED <<called, sdp, inProgress, stopReq, playerSet, startQueued, cpc,
                   queueVars, playerVars, videoVars, audioVars, started, eos,
                   frames, completions, crashed>>

SetListener ==
    /\ opc = "setListener"
    /\ Free
    /\ listener' = FALSE
    /\ opc' = "pause"
    /\ UNCHANGED <<called, sdp, inProgress, stopReq, playerSet, startQueued, cpc,
                   queueVars, lock, flags, pending, doneStatus, watchEOS,
                   videoVars, audioVars, sessionVars, completions, crashed>>

\* pause_l(), with the given events pending: only a playing player pauses.
PauseLocked(flagged, extra) ==
    /\ flags' = (flags \ {"PLAYING"}) \cup extra
    /\ \/ /\ "PLAYING" \in flags
          /\ pqueue' = AfterCancel(pqueue)
          /\ pending' = {}
          /\ sink' = FALSE
       \/ /\ "PLAYING" \notin flags
          /\ pending' = flagged
          /\ UNCHANGED <<pqueue, sink>>

\* pause(), and m_mediaPlayer.clear().
Pause ==
    /\ opc = "pause"
    /\ Free
    /\ PauseLocked(pending, {})
    /\ opc' = "clear"
    /\ UNCHANGED <<called, sdp, inProgress, stopReq, playerSet, startQueued, cpc,
                   qpc, qev, lock, listener, doneStatus, watchEOS, videoVars,
                   apc, sessionVars, completions, crashed>>

ClearPlayer ==
    /\ opc = "clear"
    /\ playerSet' = FALSE
    /\ opc' = "reset"
    /\ UNCHANGED <<called, sdp, inProgress, stopReq, startQueued, cpc, playFrame,
                   crashed>>

\* reset_l() up to the deletion of mAudioPlayer, which stops the sink and
\* waits for the callback.
Reset ==
    /\ opc = "reset"
    /\ Free
    /\ lock' = "owner"
    /\ pqueue' = AfterCancel(pqueue)
    /\ pending' = {}
    /\ sink' = FALSE
    /\ opc' = "resetAudio"
    /\ UNCHANGED <<called, sdp, inProgress, stopReq, playerSet, startQueued, cpc,
                   qpc, qev, flags, listener, doneStatus, watchEOS, videoVars,
                   apc, sessionVars, completions, crashed>>

\* The rest of it: the session and the video source are gone.
ResetRest ==
    /\ opc = "resetAudio"
    /\ apc \in {None, "idle", "ended", "failed"}
    /\ apc' = None
    /\ flags' = {}
    /\ started' = FALSE
    /\ eosMsgs' = {}
    /\ eos' = {}
    /\ frames' = [t \in Tracks |-> 0]
    /\ lock' = None
    /\ opc' = "destroy"
    /\ UNCHANGED <<called, sdp, inProgress, stopReq, playerSet, startQueued, cpc,
                   queueVars, listener, pending, doneStatus, watchEOS,
                   videoVars, sink, completions, crashed>>

\* ~DSPGMediaPlayer(): mQueue.stop() overtakes what is queued, then waits for
\* the event being handled.
Destroy ==
    /\ opc = "destroy"
    /\ pqueue' = <<>>
    /\ opc' = "join"
    /\ UNCHANGED <<called, sdp, inProgress, stopReq, playerSet, startQueued, cpc,
                   qpc, qev, playerVars, videoVars, audioVars, sessionVars,
                   completions, crashed>>

Join ==
    /\ opc = "join"
    /\ qpc = "idle"
    /\ vpc = "idle"
    /\ vmsgs' = 0
    /\ pqueue' = <<>>
    /\ pending' = {}
    /\ watchEOS' = FALSE
    /\ stopReq' = FALSE
    /\ opc' = "idle"
    /\ UNCHANGED <<called, sdp, inProgress, playerSet, startQueued, cpc, qpc,
                   qev, lock, flags, listener, doneStatus, vpc, audioVars,
                   sessionVars, completions, crashed>>

Owner ==
    \/ CheckSdp \/ GoToWait \/ Prepare \/ MarkInProgress \/ CheckInProgress
    \/ RequestStop \/ CancelStart \/ ForceStop \/ ClearPlayer \/ ResetRest
    \/ Destroy \/ Join

\* Its steps that compete for mLock.
OwnerLocks == SetListener \/ Pause \/ Reset

-----------------------------------------------------------------------------
(* The control queue: onPrepareEvent(), which starts the player.           *)

TakeStart ==
    /\ cpc = "idle"
    /\ startQueued
    /\ startQueued' = FALSE
    /\ cpc' = "fired"
    /\ UNCHANGED <<called, opc, sdp, inProgress, stopReq, playerSet, playFrame,
                   crashed>>

\* m_mediaPlayer->play(), without a reference of its own.
CallPlay ==
    /\ cpc = "fired"
    /\ \/ playerSet /\ cpc' = "play" /\ UNCHANGED crashed
       \/ ~playerSet /\ crashed' = "start" /\ UNCHANGED cpc
    /\ UNCHANGED <<called, opc, sdp, inProgress, stopReq, playerSet, startQueued,
                   playFrame>>

\* play_l() of a prepared player: audio player, first video event, session.
StartPlaying ==
    /\ "PREPARED" \in flags
    /\ \/ /\ flags' = flags \cup {"PLAYING"}
          /\ IF "audio" \in Tracks
             THEN apc' = "idle" /\ sink' = TRUE /\ watchEOS' = TRUE
             ELSE UNCHANGED <<apc, sink, watchEOS>>
          /\ IF "video" \in Tracks /\ "video" \notin pending
             THEN vmsgs' = vmsgs + 1 /\ pending' = pending \cup {"video"}
             ELSE UNCHANGED <<vmsgs, pending>>
          /\ started' = TRUE
       \/ \* the audio sink cannot be opened
          /\ "audio" \in Tracks
          /\ UNCHANGED <<flags, apc, sink, watchEOS, vmsgs, pending, started>>
    /\ UNCHANGED crashed

\* After reset() it makes an empty player play, or uses the object while or
\* after it is destroyed.
StartLate ==
    /\ "PREPARED" \notin flags
    /\ crashed' \in {None, "start"}
    /\ ~Alive => crashed' = "start"
    /\ UNCHANGED <<flags, apc, sink, watchEOS, vmsgs, pending, started>>

PlayerPlay ==
    /\ cpc = "play"
    /\ Free
    /\ StartPlaying \/ StartLate
    /\ cpc' = "idle"
    /\ UNCHANGED <<called, opc, sdp, inProgress, stopReq, playerSet, startQueued,
                   queueVars, lock, listener, doneStatus, vpc, eosMsgs, eos,
                   frames, completions>>

Control == TakeStart \/ CallPlay

-----------------------------------------------------------------------------
(* The player's queue.                                                     *)

TakeEvent ==
    /\ qpc = "idle"
    /\ opc # "join"
    /\ pqueue # <<>>
    /\ qev' = Head(pqueue)
    /\ pqueue' = Tail(pqueue)
    /\ qpc' = "fired"
    /\ UNCHANGED <<ctrlVars, playerVars, videoVars, audioVars, sessionVars,
                   completions, crashed>>

\* onPrepareAsyncEvent() up to the MEDIA_PREPARED callback; or abortPrepare(),
\* whose MEDIA_ERROR PlayerCb() does nothing about.
OnPrepareAsync ==
    /\ qpc = "fired"
    /\ qev = "prepare"
    /\ Free
    /\ \/ lock' = "queue" /\ qpc' = "callback" /\ UNCHANGED flags
       \/ flags' = flags \ {"PREPARING"} /\ qpc' = "idle" /\ UNCHANGED lock
    /\ UNCHANGED <<ctrlVars, pqueue, qev, listener, pending, doneStatus,
                   watchEOS, videoVars, audioVars, sessionVars, completions,
                   crashed>>

\* PlayerCb(MEDIA_PREPARED), in the two steps stop() can come between.
CallbackPrepared ==
    /\ qpc = "callback"
    /\ inProgress' = FALSE
    /\ qpc' = "callbackStart"
    /\ UNCHANGED <<called, opc, sdp, stopReq, playerSet, startQueued, cpc, pqueue,
                   qev, playerVars, videoVars, audioVars, sessionVars,
                   completions, crashed>>

\* The rest of finishAsyncPrepare_l().
FlagsPrepared == (flags \ {"PREPARING"}) \cup {"PREPARED"}
CallbackStart ==
    /\ qpc = "callbackStart"
    /\ \/ /\ stopReq
          /\ stopReq' = FALSE
          /\ opc' = IF opc = "stopWait" THEN "stopCheck" ELSE opc
          /\ UNCHANGED startQueued
       \/ /\ ~stopReq
          /\ startQueued' = TRUE
          /\ UNCHANGED <<stopReq, opc>>
    /\ flags' = FlagsPrepared
    /\ lock' = None
    /\ qpc' = "idle"
    /\ UNCHANGED <<called, sdp, inProgress, playerSet, cpc, pqueue, qev, listener,
                   pending, doneStatus, watchEOS, videoVars, audioVars,
                   sessionVars, completions, crashed>>

\* Has every track that is played come to its end?
AllDone == /\ "video" \in Tracks => "VIDEO_AT_EOS" \in flags
           /\ "audio" \in Tracks => "AUDIO_AT_EOS" \in flags

PendingAfterDone == pending \ {"done"}

\* onStreamDone(): MEDIA_ERROR or MEDIA_PLAYBACK_COMPLETE, and pause_l().
OnStreamDone ==
    /\ qpc = "fired"
    /\ qev = "done"
    /\ Free
    /\ qpc' = "idle"
    /\ \/ /\ "done" \notin pending
          /\ UNCHANGED <<pqueue, flags, pending, sink, completions>>
       \/ /\ "done" \in pending
          /\ doneStatus = "end"
          /\ ~AllDone
          /\ pending' = PendingAfterDone
          /\ UNCHANGED <<pqueue, flags, sink, completions>>
       \/ /\ "done" \in pending
          /\ doneStatus = "error" \/ AllDone
          /\ PauseLocked(PendingAfterDone, {"AT_EOS"})
          /\ completions' = IF doneStatus = "end" /\ listener
                            THEN completions + 1 ELSE completions
    /\ UNCHANGED <<ctrlVars, qev, lock, listener, doneStatus, watchEOS,
                   videoVars, apc, sessionVars, crashed>>

\* onCheckAudioStatus(); reachedEOS() waits while the callback is posting.
OnCheckAudioStatus ==
    /\ qpc = "fired"
    /\ qev = "check"
    /\ Free
    /\ qpc' = "idle"
    /\ \/ /\ "check" \notin pending
          /\ UNCHANGED <<pqueue, flags, pending, doneStatus, watchEOS, crashed>>
       \/ /\ "check" \in pending
          /\ ~watchEOS
          /\ pending' = pending \ {"check"}
          /\ UNCHANGED <<pqueue, flags, doneStatus, watchEOS, crashed>>
       \/ /\ "check" \in pending
          /\ watchEOS
          /\ apc \in {"ended", "failed"}
          /\ watchEOS' = FALSE
          /\ flags' = flags \cup {"AUDIO_AT_EOS"}
          /\ PostDone(IF apc = "ended" THEN "end" ELSE "error", pqueue,
                      pending \ {"check"})
          /\ UNCHANGED crashed
       \/ \* mAudioPlayer->reachedEOS() with no mAudioPlayer
          /\ "check" \in pending
          /\ watchEOS
          /\ apc = None
          /\ crashed' = "audio"
          /\ UNCHANGED <<pqueue, flags, pending, doneStatus, watchEOS>>
    /\ UNCHANGED <<ctrlVars, qev, lock, listener, videoVars, audioVars,
                   sessionVars, completions>>

PlayerQueueLocks == OnPrepareAsync \/ OnStreamDone \/ OnCheckAudioStatus

PlayerQueue == TakeEvent \/ CallbackPrepared \/ CallbackStart

-----------------------------------------------------------------------------
(* The video looper.                                                       *)

TakeVideoEvent ==
    /\ vpc = "idle"
    /\ vmsgs > 0
    /\ opc # "join"
    /\ vmsgs' = vmsgs - 1
    /\ vpc' = "fired"
    /\ UNCHANGED <<ctrlVars, queueVars, playerVars, audioVars, sessionVars,
                   completions, crashed>>

\* The message could not be cancelled, but the event it stands for was not.
VideoEventWanted == "video" \in pending

\* onVideoEvent() up to the read.
OnVideoEvent ==
    /\ vpc = "fired"
    /\ Free
    /\ \/ /\ ~VideoEventWanted
          /\ vpc' = "idle"
          /\ UNCHANGED <<lock, pending>>
       \/ /\ VideoEventWanted
          /\ vpc' = "reading"
          /\ lock' = "video"
          /\ pending' = pending \ {"video"}
    /\ UNCHANGED <<ctrlVars, queueVars, flags, listener, doneStatus, watchEOS,
                   vmsgs, audioVars, sessionVars, completions, crashed>>

PendingAfterFrame == pending \cup {"video"}

\* A frame: dropped when late, kept when early, else shown; and the next
\* event posted.
VideoFrame ==
    /\ vpc = "reading"
    /\ frames["video"] > 0
    /\ frames' = [frames EXCEPT !["video"] = @ - 1]
    /\ pending' = PendingAfterFrame
    /\ vmsgs' = IF "video" \in pending' THEN vmsgs + 1 ELSE vmsgs
    /\ lock' = None
    /\ vpc' = "idle"
    /\ UNCHANGED <<ctrlVars, queueVars, flags, listener, doneStatus, watchEOS,
                   audioVars, started, eosMsgs, eos, completions, crashed>>

\* The source has ended, or the decoder or the renderer fails.
VideoEnds ==
    /\ vpc = "reading"
    /\ flags' = flags \cup {"VIDEO_AT_EOS"}
    /\ \/ /\ frames["video"] = 0
          /\ "video" \in eos
          /\ PostDone("end", pqueue, pending)
          /\ UNCHANGED frames
       \/ /\ frames["video"] > 0
          /\ frames' = [frames EXCEPT !["video"] = @ - 1]
          /\ PostDone("error", pqueue, pending)
    /\ lock' = None
    /\ vpc' = "idle"
    /\ UNCHANGED <<ctrlVars, qpc, qev, listener, watchEOS, vmsgs, audioVars,
                   started, eosMsgs, eos, completions, crashed>>

VideoLooper == TakeVideoEvent \/ OnVideoEvent \/ VideoFrame \/ VideoEnds

-----------------------------------------------------------------------------
(* The audio callback: fillBuffer().                                       *)

audioFrame == <<ctrlVars, qpc, qev, lock, flags, listener, doneStatus, watchEOS,
                videoVars, sink, started, eosMsgs, eos, completions, crashed>>

AudioCallback ==
    /\ apc = "idle"
    /\ sink
    /\ apc' = "reading"
    /\ UNCHANGED <<audioFrame, pqueue, pending, frames>>

\* It may need more than one access unit to fill the buffer.
AudioFrame(rest) ==
    /\ apc = "reading"
    /\ frames["audio"] > 0
    /\ frames' = [frames EXCEPT !["audio"] = @ - 1]
    /\ apc' = rest
    /\ UNCHANGED <<audioFrame, pqueue, pending>>

BufferFilled == AudioFrame("idle")

\* The read ends or fails: postAudioEOS(), with no mLock of the player ...
AudioEnds ==
    /\ apc = "reading"
    /\ \/ /\ frames["audio"] = 0
          /\ "audio" \in eos
          /\ apc' = IF "check" \in pending THEN "ended" ELSE "postingEnd"
          /\ UNCHANGED frames
       \/ /\ frames["audio"] > 0
          /\ frames' = [frames EXCEPT !["audio"] = @ - 1]
          /\ apc' = IF "check" \in pending THEN "failed" ELSE "postingError"
    /\ pending' = pending \cup {"check"}
    /\ UNCHANGED <<audioFrame, pqueue>>

\* ... so the list may have been cleared since the flag was set.
AudioPosts ==
    /\ \/ apc = "postingEnd" /\ apc' = "ended"
       \/ apc = "postingError" /\ apc' = "failed"
    /\ pqueue' = Append(pqueue, "check")
    /\ UNCHANGED <<audioFrame, pending, frames>>

Audio == \/ AudioCallback \/ AudioFrame("reading") \/ BufferFilled
         \/ AudioEnds \/ AudioPosts

-----------------------------------------------------------------------------
(* The RTP session and the peer behind it.                                 *)

sessionFrame == <<ctrlVars, queueVars, playerVars, videoVars, audioVars,
                  started, completions, crashed>>

Forced == opc \in {"setListener", "pause", "clear", "reset", "resetAudio"}

\* queueAccessUnit(): one at a time is enough to keep a reader going.  The
\* peer sends nothing after its BYE.
AccessUnit(t) ==
    /\ started
    /\ t \in eosMsgs \cup eos => Forced
    /\ frames[t] = 0
    /\ frames' = [frames EXCEPT ![t] = 1]
    /\ UNCHANGED <<sessionFrame, eosMsgs, eos>>

Bye(t) ==
    /\ started
    /\ t \notin eosMsgs \cup eos
    /\ eosMsgs' = eosMsgs \cup {t}
    /\ UNCHANGED <<sessionFrame, eos, frames>>

SignalEOS(t) ==
    /\ t \in eosMsgs
    /\ eosMsgs' = eosMsgs \ {t}
    /\ eos' = eos \cup {t}
    /\ UNCHANGED <<sessionFrame, frames>>

-----------------------------------------------------------------------------

Init ==
    /\ called = FALSE
    /\ opc = "idle"
    /\ sdp \in {"null", "garbage", "set"}
    /\ inProgress \in BOOLEAN
    /\ stopReq = FALSE
    /\ playerSet = FALSE
    /\ startQueued = FALSE
    /\ cpc = "idle"
    /\ lock = None
    /\ flags = {}
    /\ listener = FALSE
    /\ pqueue = <<>>
    /\ qpc = "idle"
    /\ qev = "prepare"
    /\ pending = {}
    /\ doneStatus = "end"
    /\ watchEOS = FALSE
    /\ vmsgs = 0
    /\ vpc = "idle"
    /\ apc = None
    /\ sink = FALSE
    /\ started = FALSE
    /\ eosMsgs = {}
    /\ eos = {}
    /\ frames = [t \in Tracks |-> 0]
    /\ completions = 0
    /\ crashed = None

Next ==
    /\ crashed = None
    /\ \/ Play \/ Stop \/ SpuriousWakeup \/ EncoderSdp
       \/ Owner \/ OwnerLocks
       \/ Control \/ PlayerPlay
       \/ PlayerQueue \/ PlayerQueueLocks
       \/ VideoLooper
       \/ Audio
       \/ \E t \in Tracks : AccessUnit(t) \/ Bye(t) \/ SignalEOS(t)

Spec == Init /\ [][Next]_vars

\* Every thread runs.  Who waits for mLock gets it: between two video events
\* it is free for 10 ms or more (postVideoEvent_l(), lines 1582-1590).  A few
\* access units fill the audio sink's buffer.  Nobody has to call play() or
\* stop(), to send, or to say BYE.
FairSpec ==
    /\ Spec
    /\ WF_vars(crashed = None /\ Owner) /\ SF_vars(crashed = None /\ OwnerLocks)
    /\ WF_vars(crashed = None /\ Control) /\ SF_vars(crashed = None /\ PlayerPlay)
    /\ WF_vars(crashed = None /\ PlayerQueue)
    /\ SF_vars(crashed = None /\ PlayerQueueLocks)
    /\ WF_vars(crashed = None /\ VideoLooper)
    /\ WF_vars(crashed = None /\ Audio) /\ SF_vars(crashed = None /\ BufferFilled)
    /\ \A t \in Tracks : WF_vars(crashed = None /\ SignalEOS(t))

-----------------------------------------------------------------------------
(* Properties.                                                             *)

\* MEDIA_PLAYBACK_COMPLETE is reported once at most, and only when every track
\* has been played to its end; both ends are reported to the same event, by
\* two threads.
CompletesOnceAtEnd ==
    /\ completions <= 1
    /\ completions = 1 /\ "PREPARED" \in flags =>
          /\ "video" \in Tracks => "VIDEO_AT_EOS" \in flags
          /\ "audio" \in Tracks => "AUDIO_AT_EOS" \in flags

\* Nobody reads a source that reset_l() has stopped, or before it is there:
\* a video event that was under way when it was cancelled does nothing
\* (comment at DSPGMediaPlayer.cpp:1331-1332), and the audio callback is over.
NoUseAfterReset ==
    /\ vpc = "reading" => "PREPARED" \in flags
    /\ apc # None => "PREPARED" \in flags

\* While a call is playing its video does not stop: until its end, or until
\* reset_l() has cancelled it, one video event, and no second, is under way or
\* being handled.
VideoGoesOn ==
    /\ vmsgs + (IF vpc = "idle" THEN 0 ELSE 1) <= 1
    /\ /\ "PLAYING" \in flags
       /\ "video" \in Tracks
       /\ "VIDEO_AT_EOS" \notin flags
       /\ opc # "resetAudio"
       => \/ vpc = "reading"
          \/ "video" \in pending /\ (vmsgs > 0 \/ vpc = "fired")

\* DSPGMediaPlayer.cpp:1070-1075: forceStop() lets stop() return also when
\* no media comes in and the readers are blocked, one of them with mLock.
StopReturns ==
    opc \in {"cancel", "forceStop", "setListener", "pause", "clear", "reset",
             "resetAudio", "destroy", "join"}
        ~> opc = "idle" \/ crashed # None

\* When the peer has ended every track the player notices and pauses.
PlaybackCompletes ==
    "PLAYING" \in flags /\ eos = Tracks
        ~> "AT_EOS" \in flags \/ opc # "idle" \/ crashed # None

\* MediaPlayerCtrl.cpp:231: "If player is in between prepare process, wait
\* till prepare is complete", and no longer.
StopWaitsForPrepare ==
    opc = "stopWait" /\ "PREPARING" \notin flags
        ~> opc # "stopWait" \/ crashed # None

=============================================================================
