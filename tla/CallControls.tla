------------------------------ MODULE CallControls ------------------------------
(***************************************************************************)
(* The controls of a call: choosing the quality of the video that is sent, *)
(* and the panel that shows every three seconds what the encoder and the   *)
(* decoder do (P2PConferenceApp.java, NativeCodeCaller.java and .cpp,      *)
(* MediaController.cpp, VideoRecorderCtrl.cpp, VideoEncoderController.cpp).*)
(* They run in the application's thread, each without interruption, save   *)
(* reading the counters, which the looper of the streamer and the thread   *)
(* of the player increment meanwhile, without a lock.  Starting and ending *)
(* a call is module CallSetup; here a call starts or ends in one step.     *)
(***************************************************************************)
EXTENDS Integers

CONSTANTS Qualities, \* the entries of the list: E_HIGH, E_MEDIUM, E_LOW
          Garbage,   \* values an integer nobody has initialised may have
          MaxCalls,  \* bound on calls started
          MaxCount,  \* bound on frames of each direction of a call
          MaxReads   \* bound on readings of a call

ASSUME ControlsAssumption == /\ Garbage \subseteq Int
                             /\ Garbage # {}
                             /\ MaxCalls \in Nat
                             /\ MaxCount \in Nat
                             /\ MaxReads \in Nat

None == "none"  \* a node of the encoder that was never configured

VARIABLES inCall,   \* m_IsinCall
          calls,    \* history: calls started
          video,    \* KEY_ENABLE_VIDEO: m_enableVideo of the call, mEnableVideo
          chosen,   \* m_videoQuality of NativeCodeCaller.java
          meta,     \* kKeyP2PVideoQuality of m_confMetaData
          iomx,     \* mIOMX is set
          node,     \* mNode: the call whose encoder it is
          encoder,  \* the bitrate and the intra period that encoder has
          refused,  \* history: a setConfig() of this call has failed
          showing,  \* mShowingEncoderInfo
          visible,  \* mEncoderInfoLayout is visible
          timer,    \* mUpdateEndoerConfiguration is posted
          pc,       \* where the application's thread is
          up,       \* m_pRTPWriter exists: the encoder of this call was set up
          counter,  \* mCounter of the streamer: frames encoded
          latest,   \* mLastCounter
          rate,     \* the frame rate read last
          reported, \* history: frames reported by all readings but the first
          base,     \* history: mCounter when the first reading was taken
          decoded,  \* mFrameRate of the player
          adding,   \* what the player's thread has read of it, to increment it
          pictures, \* history: frames decoded in this call
          shown,    \* the decoder's frames read last
          reads     \* history: readings of this call

panelVars == <<showing, visible, timer>>
qualityVars == <<chosen, meta, encoder, refused>>
setupVars == <<inCall, calls, video, iomx, node, up>>
senderVars == <<counter, latest, rate, reported, base>>
playerVars == <<decoded, adding, pictures, shown>>
controlsVars ==
    <<panelVars, qualityVars, setupVars, senderVars, playerVars, pc, reads>>

INVALID_VALUE == -1
NotReading == -1
NotConfigured == [bitrate |-> None, period |-> None]

ControlsInit ==
    /\ inCall = FALSE
    /\ calls = 0
    /\ video \in BOOLEAN
    /\ chosen \in Qualities
    /\ meta = None
    /\ iomx = FALSE
    /\ node = 0
    /\ encoder = NotConfigured
    /\ refused = FALSE
    /\ showing = FALSE
    /\ visible = FALSE
    /\ timer = FALSE
    /\ pc = "idle"
    /\ up = FALSE
    /\ counter = 0
    /\ latest = INVALID_VALUE
    /\ rate = INVALID_VALUE
    /\ reported = 0
    /\ base = 0
    /\ decoded = 0
    /\ adding = NotReading
    /\ pictures = 0
    /\ shown = 0
    /\ reads = 0

-----------------------------------------------------------------------------
(* Mutated forms of definitions below.                                     *)

TimerGoesOn == timer

KeepsMeta == IF meta = None THEN chosen ELSE meta

ReportsAgain(r) == latest

-----------------------------------------------------------------------------
(* Starting and ending a call.                                             *)

\* setupEncoder(): bitrate and intra period follow from the quality they are
\* named by here, although the period is another than setAVCIntraPeriod() makes
\* of it: it is rounded to whole seconds.
Configured(q) == [bitrate |-> q, period |-> q]

\* The constructor of ARTPStreamer a call uses leaves mLastCounter alone;
\* kWhatStart resets mCounter.
ResetCounters == /\ counter' = 0
                 /\ latest' \in Garbage
                 /\ rate' = INVALID_VALUE
                 /\ reported' = 0
                 /\ base' = 0
                 /\ decoded' = 0
                 /\ adding' = NotReading
                 /\ pictures' = 0
                 /\ shown' = 0
                 /\ reads' = 0

\* The recorder of a video call may fail before its encoder gets mIOMX, or
\* after, and the call goes on without it; an audio call has none.
Recorder == \/ /\ video
               /\ iomx' = TRUE
               /\ \/ /\ up' = TRUE
                     /\ node' = calls'
                     /\ encoder' = Configured(meta')
                  \/ /\ up' = FALSE
                     /\ UNCHANGED <<node, encoder>>
            \/ /\ up' = FALSE
               /\ UNCHANGED <<iomx, node, encoder>>

\* initMetadata() copies the fields of the Java object, every call anew.
MetaOfCall == chosen

StartCall == /\ pc = "idle"
             /\ ~inCall
             /\ calls < MaxCalls
             /\ inCall' = TRUE
             /\ calls' = calls + 1
             /\ meta' = MetaOfCall
             /\ Recorder
             /\ refused' = FALSE
             /\ ResetCounters
             /\ UNCHANGED <<panelVars, video, chosen, pc>>

\* endCall() hides the panel but does not reset mShowingEncoderInfo.
TimerAfterCall == FALSE
EndCall == /\ pc = "idle"
           /\ inCall
           /\ timer' = TimerAfterCall
           /\ inCall' = FALSE
           /\ visible' = FALSE
           /\ up' = FALSE
           /\ adding' = NotReading
           /\ UNCHANGED <<showing, qualityVars, calls, video, iomx, node,
                          senderVars, decoded, pictures, shown, pc, reads>>

\* Settings, between two calls only (onPrepareOptionsMenu()): onStart() and
\* updateStaticSettings() read the preference when the activity is back.
ChangeVideo == /\ pc = "idle"
               /\ ~inCall
               /\ video' = ~video
               /\ UNCHANGED <<panelVars, qualityVars, inCall, calls, iomx, node,
                              up, senderVars, playerVars, pc, reads>>

-----------------------------------------------------------------------------
(* The list of settings, which setEnabled(mEnableVideo) disables for calls *)
(* without video.                                                          *)

ListEnabled == video

\* configureQuality(): setBitrate() and setAVCIntraPeriod(), both in any case,
\* of the OMX node mNode names.  That of an earlier call still exists, as
\* mEncoder keeps it, but need not accept anything.
Reconfigure(q) ==
    \/ /\ ~iomx
       /\ UNCHANGED <<encoder, refused>>
    \/ /\ iomx
       /\ \E done \in SUBSET {"bitrate", "period"} :
            /\ encoder' = [bitrate |-> IF "bitrate" \in done THEN q
                                      ELSE encoder.bitrate,
                           period |-> IF "period" \in done THEN q
                                      ELSE encoder.period]
            /\ refused' = (refused \/ done # {"bitrate", "period"})

\* configQuality(): "Ignore if its same value".  The metadata are set first, so
\* that choosing a quality again which the encoder refused does nothing.
ConfigQuality(q) ==
    /\ pc = "idle"
    /\ ListEnabled
    /\ chosen' = q
    /\ IF inCall /\ meta # q
         THEN meta' = q /\ Reconfigure(q)
         ELSE UNCHANGED <<meta, encoder, refused>>
    /\ UNCHANGED <<panelVars, setupVars, senderVars, playerVars, pc, reads>>

\* showEncoderInformation().  mShowingEncoderInfo may be left over from an
\* earlier call; the panel then needs a second tap.
ShowEncoderInformation ==
    /\ pc = "idle"
    /\ ListEnabled
    /\ \/ /\ inCall /\ ~showing
          /\ timer' = TRUE
          /\ showing' = TRUE
          /\ visible' = TRUE
       \/ /\ showing
          /\ timer' = FALSE
          /\ showing' = FALSE
          /\ visible' = FALSE
    /\ UNCHANGED <<qualityVars, setupVars, senderVars, playerVars, pc, reads>>

-----------------------------------------------------------------------------
(* mUpdateEndoerConfiguration.run(), in steps: the counters move meanwhile.*)

UpdateEncoderConfiguration ==
    /\ pc = "idle"
    /\ timer
    /\ reads < MaxReads
    /\ timer' = FALSE
    /\ reads' = reads + 1
    /\ pc' = IF up THEN "difference" ELSE "node"
    /\ UNCHANGED <<showing, visible, qualityVars, setupVars, senderVars,
                   playerVars>>

\* getFrameCounter(), in two steps.  The count is read again for mLastCounter.
\* (It would have to reach 2^31 - 1, and be read just then, to be reset.)
Difference ==
    /\ pc = "difference"
    /\ rate' = IF latest = INVALID_VALUE THEN INVALID_VALUE
               ELSE counter - latest
    /\ pc' = "last"
    /\ UNCHANGED <<panelVars, qualityVars, setupVars, counter, latest, reported,
                   base, playerVars, reads>>

LastAfter(c) == c
SetLast ==
    /\ pc = "last"
    /\ latest' = LastAfter(counter)
    /\ IF reads = 1
         THEN base' = counter /\ UNCHANGED reported
         ELSE reported' = reported + rate /\ UNCHANGED base
    /\ pc' = "node"
    /\ UNCHANGED <<panelVars, qualityVars, setupVars, counter, rate, playerVars,
                   reads>>

\* getEncoderInfo() of VideoEncoderController: alone of its methods it does
\* not look whether there is an mIOMX.
ReadNode ==
    /\ pc = "node"
    /\ pc' = IF iomx THEN "decoder" ELSE "dead"
    /\ UNCHANGED <<panelVars, qualityVars, setupVars, senderVars, playerVars,
                   reads>>

\* getDecoderInfo() of DSPGMediaPlayer reads its counter, then clears it.
ReadDecoder ==
    /\ pc = "decoder"
    /\ shown' = decoded
    /\ pc' = "clear"
    /\ UNCHANGED <<panelVars, qualityVars, setupVars, senderVars, decoded,
                   adding, pictures, reads>>

ClearDecoder ==
    /\ pc = "clear"
    /\ decoded' = 0
    /\ timer' = TRUE
    /\ pc' = "idle"
    /\ UNCHANGED <<showing, visible, qualityVars, setupVars, senderVars, adding,
                   pictures, shown, reads>>

Reading == \/ UpdateEncoderConfiguration \/ Difference \/ SetLast \/ ReadNode
           \/ ReadDecoder \/ ClearDecoder

-----------------------------------------------------------------------------
(* The other threads.                                                      *)

\* ARTPStreamer::onRead().
FrameEncoded ==
    /\ up
    /\ pc # "dead"
    /\ counter < MaxCount
    /\ counter' = counter + 1
    /\ UNCHANGED <<panelVars, qualityVars, setupVars, latest, rate, reported,
                   base, playerVars, pc, reads>>

\* onVideoEvent(): mFrameRate++ reads and writes; whatever the application's
\* thread does in between is overwritten.
ReadsCount ==
    /\ inCall /\ video
    /\ pc # "dead"
    /\ adding = NotReading
    /\ pictures < MaxCount
    /\ adding' = decoded
    /\ pictures' = pictures + 1
    /\ UNCHANGED <<panelVars, qualityVars, setupVars, senderVars, decoded,
                   shown, pc, reads>>

WritesCount ==
    /\ adding # NotReading
    /\ pc # "dead"
    /\ decoded' = adding + 1
    /\ adding' = NotReading
    /\ UNCHANGED <<panelVars, qualityVars, setupVars, senderVars, pictures,
                   shown, pc, reads>>

ControlsNext ==
    \/ StartCall \/ EndCall \/ ChangeVideo
    \/ \E q \in Qualities : ConfigQuality(q)
    \/ ShowEncoderInformation
    \/ Reading
    \/ FrameEncoded \/ ReadsCount \/ WritesCount

ControlsSpec == ControlsInit /\ [][ControlsNext]_controlsVars

-----------------------------------------------------------------------------
(* Properties.                                                             *)

\* The panel is brought up to date as long as it is seen, and only in the video
\* call it was opened in: no reading is left over for the time after endCall(),
\* which would end the process, as one does in a call whose recorder has failed.
PanelBelongsToCall == /\ visible <=> timer \/ pc # "idle"
                      /\ visible => inCall /\ video
                      /\ pc = "dead" => ~up

\* The encoder of the call has the quality that was chosen last, before the
\* call or in it, unless it has refused a change.
QualityIsChosen ==
    inCall /\ up => /\ node = calls
                    /\ chosen = meta
                    /\ refused \/ encoder = Configured(chosen)

\* However the readings and the frames interleave, no frame sent is reported
\* twice, and the decoder's count is never more than it has decoded.
ReadingsAddUp == /\ reads > 1 => base + reported <= counter
                 /\ shown <= pictures
=============================================================================
