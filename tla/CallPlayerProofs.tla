--------------------------- MODULE CallPlayerProofs ---------------------------
(***************************************************************************)
(* Proofs about CallPlayer for every set of tracks, whether or not the     *)
(* encoder completes the SDP.                                              *)
(***************************************************************************)
EXTENDS CallPlayer, SequenceTheorems, TLAPS

-----------------------------------------------------------------------------
(* The inductive invariant.                                                *)

\* The values of the variables the argument is about.
TypeOK ==
    /\ opc \in {"idle", "sdpCheck", "sdpGoingToWait", "sdpWait", "prepare",
                "mark", "stopCheck", "stopRequest", "stopGoingToWait",
                "stopWait", "cancel", "forceStop", "setListener", "pause",
                "clear", "reset", "resetAudio", "destroy", "join"}
    /\ cpc \in {"idle", "fired", "play"}
    /\ lock \in {None, "owner", "queue", "video"}
    /\ pqueue \in Seq(Event)
    /\ qpc \in {"idle", "fired", "callback", "callbackStart"}
    /\ qev \in Event
    /\ vmsgs \in Nat
    /\ vpc \in {"idle", "fired", "reading"}
    /\ completions \in Nat

\* Who holds mLock where it is held for more than a step.
Locks ==
    /\ lock = "owner" <=> opc = "resetAudio"
    /\ lock = "queue" <=> qpc \in {"callback", "callbackStart"}
    /\ lock = "video" <=> vpc = "reading"

\* A player that has not been started.
Unstarted ==
    /\ flags \subseteq {"PREPARING", "PREPARED"}
    /\ pqueue \in {<<>>, <<"prepare">>}
    /\ pending = {} /\ ~watchEOS
    /\ vmsgs = 0 /\ vpc = "idle" /\ apc = None
    /\ completions = 0

Before == ~called \/ opc \in {"sdpCheck", "sdpGoingToWait", "sdpWait", "prepare"}
Preparing == pqueue = <<"prepare">>
Firing == qpc # "idle" /\ qev = "prepare"

\* The start of the player goes from hand to hand, from the owner over the
\* player's queue to the control queue, and is only in one; until it has
\* arrived the player is unstarted.
Starts ==
    /\ Before => /\ Unstarted /\ flags = {} /\ pqueue = <<>> /\ qpc = "idle"
                 /\ ~startQueued /\ cpc = "idle" /\ ~playerSet
    /\ ~called => opc = "idle"
    /\ Preparing => Unstarted /\ qpc = "idle" /\ ~startQueued /\ cpc = "idle"
    /\ Firing => Unstarted /\ pqueue = <<>> /\ ~startQueued /\ cpc = "idle"
    /\ qpc \in {"callback", "callbackStart"} => qev = "prepare"
    /\ startQueued => Unstarted /\ pqueue = <<>> /\ qpc = "idle" /\ cpc = "idle"
    /\ cpc # "idle" => Unstarted /\ pqueue = <<>> /\ qpc = "idle"
    /\ Preparing \/ "prepare" \notin Range(pqueue)

\* Once it is reset nothing plays: a start that comes late finds no flag set.
Over ==
    /\ playerSet => opc \notin {"reset", "resetAudio", "destroy", "join"}
    /\ opc \in {"destroy", "join"} =>
         "PLAYING" \notin flags /\ (cpc = "play" => flags = {})

\* Where video and audio end they are not taken up again: what is cancelled or
\* done leaves nothing that could end, or report the end, a second time.
Ends ==
    /\ "video" \in pending => "PREPARED" \in flags /\ opc # "resetAudio"
    /\ vpc = "reading" => "video" \notin pending
    /\ vmsgs > 0 \/ vpc # "idle" \/ "video" \in pending => "video" \in Tracks
    /\ watchEOS => "audio" \in Tracks
    /\ "VIDEO_AT_EOS" \in flags => vpc # "reading" /\ "video" \notin pending
    /\ "AUDIO_AT_EOS" \in flags => ~watchEOS
    /\ completions = 1 => /\ "done" \notin pending /\ vpc # "reading"
                          /\ "video" \notin pending /\ ~watchEOS

IInv == /\ TypeOK /\ Locks /\ Starts /\ Over /\ Ends
        /\ NoUseAfterReset /\ VideoGoesOn /\ CompletesOnceAtEnd

-----------------------------------------------------------------------------
(* The list of events.                                                     *)

LEMMA Boxes ==
  /\ "prepare" \notin Range(<<>>) /\ <<>> \in Seq(Event)
  /\ <<"prepare">> \in Seq(Event) /\ <<"prepare">> # <<>>
  /\ Head(<<"prepare">>) = "prepare" /\ Tail(<<"prepare">>) = <<>>
  /\ "prepare" \in Range(<<"prepare">>)
  /\ \A box \in Seq(Event) :
       /\ AfterCancel(box) \in {<<>>, <<"prepare">>}
       /\ AfterCancel(box) \in Seq(Event)
       /\ "prepare" \notin Range(box) => AfterCancel(box) = <<>>
       /\ AfterCancel(<<"prepare">>) = <<"prepare">>
       /\ \A ev \in {"done", "check"} :
            /\ Append(box, ev) \in Seq(Event)
            /\ Append(box, ev) # <<"prepare">>
            /\ "prepare" \notin Range(box) =>
                 "prepare" \notin Range(Append(box, ev))
       /\ box # <<>> =>
            /\ Head(box) \in Event /\ Tail(box) \in Seq(Event)
            /\ "prepare" \notin Range(box) =>
                 Head(box) # "prepare" /\ "prepare" \notin Range(Tail(box))
<1> USE DEF Event
<1>1. /\ "prepare" \notin Range(<<>>) /\ <<>> \in Seq(Event)
      /\ <<"prepare">> \in Seq(Event) /\ <<"prepare">> # <<>>
      /\ Head(<<"prepare">>) = "prepare" /\ Tail(<<"prepare">>) = <<>>
      /\ "prepare" \in Range(<<"prepare">>)
  BY DEF Range
<1>2. \A box \in Seq(Event) :
       /\ AfterCancel(box) \in {<<>>, <<"prepare">>}
       /\ AfterCancel(box) \in Seq(Event)
       /\ "prepare" \notin Range(box) => AfterCancel(box) = <<>>
       /\ AfterCancel(<<"prepare">>) = <<"prepare">>
  BY <1>1 DEF AfterCancel
<1>3. ASSUME NEW box \in Seq(Event), NEW ev \in {"done", "check"}
      PROVE  /\ Append(box, ev) \in Seq(Event)
             /\ Append(box, ev) # <<"prepare">>
             /\ "prepare" \notin Range(box) =>
                  "prepare" \notin Range(Append(box, ev))
  <2>1. /\ Append(box, ev) \in Seq(Event)
        /\ DOMAIN Append(box, ev) = 1 .. Len(box) + 1
        /\ \A i \in 1 .. Len(box) : Append(box, ev)[i] = box[i]
        /\ Append(box, ev)[Len(box) + 1] = ev
        /\ DOMAIN box = 1 .. Len(box)
        /\ Len(box) \in Nat
    BY AppendProperties, LenProperties
  <2>2. Append(box, ev) # <<"prepare">>
    <3>1. SUFFICES ASSUME Append(box, ev) = <<"prepare">>
                   PROVE  FALSE
      OBVIOUS
    <3>2. Len(Append(box, ev)) = Len(box) + 1
      BY AppendProperties
    <3>3. Len(<<"prepare">>) = 1 /\ <<"prepare">>[1] = "prepare"
      OBVIOUS
    <3> QED
      BY <3>1, <3>2, <3>3, <2>1
  <2>3. ASSUME "prepare" \notin Range(box)
        PROVE  "prepare" \notin Range(Append(box, ev))
    BY <2>1, <2>3 DEF Range
  <2> QED
    BY <2>1, <2>2, <2>3
<1>4. ASSUME NEW box \in Seq(Event), box # <<>>
      PROVE  /\ Head(box) \in Event /\ Tail(box) \in Seq(Event)
             /\ "prepare" \notin Range(box) =>
                  Head(box) # "prepare" /\ "prepare" \notin Range(Tail(box))
  <2>1. /\ Len(box) \in Nat \ {0}
        /\ DOMAIN box = 1 .. Len(box)
        /\ Tail(box) \in Seq(Event)
        /\ DOMAIN Tail(box) = 1 .. Len(box) - 1
        /\ \A i \in 1 .. Len(box) - 1 : Tail(box)[i] = box[i + 1]
        /\ Head(box) = box[1] /\ Head(box) \in Event
    BY <1>4, EmptySeq, HeadTailProperties, LenProperties
  <2>2. 1 \in DOMAIN box
    BY <2>1
  <2>3. \A i \in DOMAIN Tail(box) : i + 1 \in DOMAIN box
    BY <2>1
  <2> QED
    BY <2>1, <2>2, <2>3 DEF Range
<1> QED
  BY <1>1, <1>2, <1>3, <1>4

-----------------------------------------------------------------------------
(* The owner: play() and stop().                                           *)

LEMMA OwnerKeepsIInv ==
  ASSUME IInv, crashed = None,
         Play \/ CheckSdp \/ GoToWait \/ SpuriousWakeup \/ EncoderSdp \/
            Prepare \/ MarkInProgress \/ Stop \/ CheckInProgress \/
            RequestStop \/ CancelStart \/ ForceStop \/ SetListener \/ Pause
            \/ ClearPlayer \/ Reset \/ ResetRest \/ Destroy \/ Join
  PROVE  IInv'
<1> USE DEF None, Event, Free, ctrlVars, queueVars, playerVars, videoVars,
   audioVars, sessionVars, playFrame
<1>1. CASE Play
  <2>1. TypeOK'
    BY <1>1 DEF IInv, TypeOK, Play
  <2>2. Locks' /\ Starts' /\ Over'
    BY <1>1 DEF IInv, TypeOK, Locks, Starts, Unstarted, Before, Preparing,
       Firing, Over, Play
  <2>3. Ends' /\ NoUseAfterReset' /\ VideoGoesOn' /\ CompletesOnceAtEnd'
    BY <1>1 DEF IInv, TypeOK, Locks, Starts, Unstarted, Before, Preparing,
       Firing, Over, Ends, NoUseAfterReset, VideoGoesOn,
       CompletesOnceAtEnd, Play
  <2> QED
    BY <2>1, <2>2, <2>3 DEF IInv
<1>2. CASE CheckSdp
  <2>1. TypeOK'
    BY <1>2 DEF IInv, TypeOK, CheckSdp
  <2>2. Locks' /\ Starts' /\ Over'
    BY <1>2 DEF IInv, TypeOK, Locks, Starts, Unstarted, Before, Preparing,
       Firing, Over, CheckSdp
  <2>3. Ends' /\ NoUseAfterReset' /\ VideoGoesOn' /\ CompletesOnceAtEnd'
    BY <1>2 DEF IInv, TypeOK, Locks, Starts, Unstarted, Before, Preparing,
       Firing, Over, Ends, NoUseAfterReset, VideoGoesOn,
       CompletesOnceAtEnd, CheckSdp
  <2> QED
    BY <2>1, <2>2, <2>3 DEF IInv
<1>3. CASE GoToWait
  <2>1. TypeOK'
    BY <1>3 DEF IInv, TypeOK, GoToWait
  <2>2. Locks' /\ Starts' /\ Over'
    BY <1>3 DEF IInv, TypeOK, Locks, Starts, Unstarted, Before, Preparing,
       Firing, Over, GoToWait
  <2>3. Ends' /\ NoUseAfterReset' /\ VideoGoesOn' /\ CompletesOnceAtEnd'
    BY <1>3 DEF IInv, TypeOK, Locks, Starts, Unstarted, Before, Preparing,
       Firing, Over, Ends, NoUseAfterReset, VideoGoesOn,
       CompletesOnceAtEnd, GoToWait
  <2> QED
    BY <2>1, <2>2, <2>3 DEF IInv
<1>4. CASE SpuriousWakeup
  <2>1. TypeOK'
    BY <1>4 DEF IInv, TypeOK, SpuriousWakeup
  <2>2. Locks' /\ Starts' /\ Over'
    BY <1>4 DEF IInv, TypeOK, Locks, Starts, Unstarted, Before, Preparing,
       Firing, Over, SpuriousWakeup
  <2>3. Ends' /\ NoUseAfterReset' /\ VideoGoesOn' /\ CompletesOnceAtEnd'
    BY <1>4 DEF IInv, TypeOK, Locks, Starts, Unstarted, Before, Preparing,
       Firing, Over, Ends, NoUseAfterReset, VideoGoesOn,
       CompletesOnceAtEnd, SpuriousWakeup
  <2> QED
    BY <2>1, <2>2, <2>3 DEF IInv
<1>5. CASE EncoderSdp
  <2>1. TypeOK'
    BY <1>5 DEF IInv, TypeOK, EncoderSdp
  <2>2. Locks' /\ Starts' /\ Over'
    BY <1>5 DEF IInv, TypeOK, Locks, Starts, Unstarted, Before, Preparing,
       Firing, Over, EncoderSdp
  <2>3. Ends' /\ NoUseAfterReset' /\ VideoGoesOn' /\ CompletesOnceAtEnd'
    BY <1>5 DEF IInv, TypeOK, Locks, Starts, Unstarted, Before, Preparing,
       Firing, Over, Ends, NoUseAfterReset, VideoGoesOn,
       CompletesOnceAtEnd, EncoderSdp
  <2> QED
    BY <2>1, <2>2, <2>3 DEF IInv
<1>6. CASE Prepare
  <2>1. TypeOK'
    BY <1>6, Boxes DEF IInv, TypeOK, Prepare
  <2>2. Locks' /\ Starts' /\ Over'
    BY <1>6, Boxes DEF IInv, TypeOK, Locks, Starts, Unstarted, Before,
       Preparing, Firing, Over, Prepare
  <2>3. Ends' /\ NoUseAfterReset' /\ VideoGoesOn' /\ CompletesOnceAtEnd'
    BY <1>6, Boxes DEF IInv, TypeOK, Locks, Starts, Unstarted, Before,
       Preparing, Firing, Over, Ends, NoUseAfterReset, VideoGoesOn,
       CompletesOnceAtEnd, Prepare
  <2> QED
    BY <2>1, <2>2, <2>3 DEF IInv
<1>7. CASE MarkInProgress
  <2>1. TypeOK'
    BY <1>7 DEF IInv, TypeOK, MarkInProgress
  <2>2. Locks' /\ Starts' /\ Over'
    BY <1>7 DEF IInv, TypeOK, Locks, Starts, Unstarted, Before, Preparing,
       Firing, Over, MarkInProgress
  <2>3. Ends' /\ NoUseAfterReset' /\ VideoGoesOn' /\ CompletesOnceAtEnd'
    BY <1>7 DEF IInv, TypeOK, Locks, Starts, Unstarted, Before, Preparing,
       Firing, Over, Ends, NoUseAfterReset, VideoGoesOn,
       CompletesOnceAtEnd, MarkInProgress
  <2> QED
    BY <2>1, <2>2, <2>3 DEF IInv
<1>8. CASE Stop
  <2>1. TypeOK'
    BY <1>8 DEF IInv, TypeOK, Stop
  <2>2. Locks' /\ Starts' /\ Over'
    BY <1>8 DEF IInv, TypeOK, Locks, Starts, Unstarted, Before, Preparing,
       Firing, Over, Stop
  <2>3. Ends' /\ NoUseAfterReset' /\ VideoGoesOn' /\ CompletesOnceAtEnd'
    BY <1>8 DEF IInv, TypeOK, Locks, Starts, Unstarted, Before, Preparing,
       Firing, Over, Ends, NoUseAfterReset, VideoGoesOn,
       CompletesOnceAtEnd, Stop
  <2> QED
    BY <2>1, <2>2, <2>3 DEF IInv
<1>9. CASE CheckInProgress
  <2>1. TypeOK'
    BY <1>9 DEF IInv, TypeOK, CheckInProgress
  <2>2. Locks' /\ Starts' /\ Over'
    BY <1>9 DEF IInv, TypeOK, Locks, Starts, Unstarted, Before, Preparing,
       Firing, Over, CheckInProgress
  <2>3. Ends' /\ NoUseAfterReset' /\ VideoGoesOn' /\ CompletesOnceAtEnd'
    BY <1>9 DEF IInv, TypeOK, Locks, Starts, Unstarted, Before, Preparing,
       Firing, Over, Ends, NoUseAfterReset, VideoGoesOn,
       CompletesOnceAtEnd, CheckInProgress
  <2> QED
    BY <2>1, <2>2, <2>3 DEF IInv
<1>10. CASE RequestStop
  <2>1. TypeOK'
    BY <1>10 DEF IInv, TypeOK, RequestStop
  <2>2. Locks' /\ Starts' /\ Over'
    BY <1>10 DEF IInv, TypeOK, Locks, Starts, Unstarted, Before, Preparing,
       Firing, Over, RequestStop
  <2>3. Ends' /\ NoUseAfterReset' /\ VideoGoesOn' /\ CompletesOnceAtEnd'
    BY <1>10 DEF IInv, TypeOK, Locks, Starts, Unstarted, Before, Preparing,
       Firing, Over, Ends, NoUseAfterReset, VideoGoesOn,
       CompletesOnceAtEnd, RequestStop
  <2> QED
    BY <2>1, <2>2, <2>3 DEF IInv
<1>11. CASE CancelStart
  <2>1. TypeOK'
    BY <1>11 DEF IInv, TypeOK, CancelStart
  <2>2. Locks' /\ Starts' /\ Over'
    BY <1>11 DEF IInv, TypeOK, Locks, Starts, Unstarted, Before, Preparing,
       Firing, Over, CancelStart
  <2>3. Ends' /\ NoUseAfterReset' /\ VideoGoesOn' /\ CompletesOnceAtEnd'
    BY <1>11 DEF IInv, TypeOK, Locks, Starts, Unstarted, Before, Preparing,
       Firing, Over, Ends, NoUseAfterReset, VideoGoesOn,
       CompletesOnceAtEnd, CancelStart
  <2> QED
    BY <2>1, <2>2, <2>3 DEF IInv
<1>12. CASE ForceStop
  <2>1. TypeOK'
    BY <1>12 DEF IInv, TypeOK, ForceStop, EndedByForce
  <2>2. Locks' /\ Starts' /\ Over'
    BY <1>12 DEF IInv, TypeOK, Locks, Starts, Unstarted, Before, Preparing,
       Firing, Over, ForceStop, EndedByForce
  <2>3. Ends' /\ NoUseAfterReset' /\ VideoGoesOn' /\ CompletesOnceAtEnd'
    BY <1>12 DEF IInv, TypeOK, Locks, Starts, Unstarted, Before, Preparing,
       Firing, Over, Ends, NoUseAfterReset, VideoGoesOn,
       CompletesOnceAtEnd, ForceStop, EndedByForce
  <2> QED
    BY <2>1, <2>2, <2>3 DEF IInv
<1>13. CASE SetListener
  <2>1. TypeOK'
    BY <1>13 DEF IInv, TypeOK, SetListener
  <2>2. Locks' /\ Starts' /\ Over'
    BY <1>13 DEF IInv, TypeOK, Locks, Starts, Unstarted, Before, Preparing,
       Firing, Over, SetListener
  <2>3. Ends' /\ NoUseAfterReset' /\ VideoGoesOn' /\ CompletesOnceAtEnd'
    BY <1>13 DEF IInv, TypeOK, Locks, Starts, Unstarted, Before, Preparing,
       Firing, Over, Ends, NoUseAfterReset, VideoGoesOn,
       CompletesOnceAtEnd, SetListener
  <2> QED
    BY <2>1, <2>2, <2>3 DEF IInv
<1>14. CASE Pause
  <2>1. TypeOK'
    <3>1. pqueue' \in Seq(Event)
      <4>1. /\ pqueue \in Seq(Event) /\ AfterCancel(pqueue) \in Seq(Event)
            /\ Append(pqueue, "done") \in Seq(Event)
        BY Boxes DEF IInv, TypeOK
      <4> QED
        BY <1>14, <4>1 DEF Pause, PauseLocked
    <3> QED
      BY <1>14, <3>1 DEF IInv, TypeOK, Pause, PauseLocked
  <2>2. Locks' /\ Starts' /\ Over'
    BY <1>14, Boxes DEF IInv, TypeOK, Locks, Starts, Unstarted, Before,
       Preparing, Firing, Over, Pause, PauseLocked
  <2>3. Ends' /\ NoUseAfterReset' /\ VideoGoesOn' /\ CompletesOnceAtEnd'
    BY <1>14, Boxes DEF IInv, TypeOK, Locks, Starts, Unstarted, Before,
       Preparing, Firing, Over, Ends, NoUseAfterReset, VideoGoesOn,
       CompletesOnceAtEnd, Pause, PauseLocked
  <2> QED
    BY <2>1, <2>2, <2>3 DEF IInv
<1>15. CASE ClearPlayer
  <2>1. TypeOK'
    BY <1>15 DEF IInv, TypeOK, ClearPlayer
  <2>2. Locks' /\ Starts' /\ Over'
    BY <1>15 DEF IInv, TypeOK, Locks, Starts, Unstarted, Before, Preparing,
       Firing, Over, ClearPlayer
  <2>3. Ends' /\ NoUseAfterReset' /\ VideoGoesOn' /\ CompletesOnceAtEnd'
    BY <1>15 DEF IInv, TypeOK, Locks, Starts, Unstarted, Before, Preparing,
       Firing, Over, Ends, NoUseAfterReset, VideoGoesOn,
       CompletesOnceAtEnd, ClearPlayer
  <2> QED
    BY <2>1, <2>2, <2>3 DEF IInv
<1>16. CASE Reset
  <2>1. TypeOK'
    <3>1. pqueue' \in Seq(Event)
      <4>1. /\ pqueue \in Seq(Event) /\ AfterCancel(pqueue) \in Seq(Event)
            /\ Append(pqueue, "done") \in Seq(Event)
        BY Boxes DEF IInv, TypeOK
      <4> QED
        BY <1>16, <4>1 DEF Reset
    <3> QED
      BY <1>16, <3>1 DEF IInv, TypeOK, Reset
  <2>2. Locks' /\ Starts' /\ Over'
    BY <1>16, Boxes DEF IInv, TypeOK, Locks, Starts, Unstarted, Before,
       Preparing, Firing, Over, Reset
  <2>3. Ends' /\ NoUseAfterReset' /\ VideoGoesOn' /\ CompletesOnceAtEnd'
    BY <1>16, Boxes DEF IInv, TypeOK, Locks, Starts, Unstarted, Before,
       Preparing, Firing, Over, Ends, NoUseAfterReset, VideoGoesOn,
       CompletesOnceAtEnd, Reset
  <2> QED
    BY <2>1, <2>2, <2>3 DEF IInv
<1>17. CASE ResetRest
  <2>1. TypeOK'
    BY <1>17 DEF IInv, TypeOK, ResetRest
  <2>2. Locks' /\ Starts' /\ Over'
    BY <1>17 DEF IInv, TypeOK, Locks, Starts, Unstarted, Before, Preparing,
       Firing, Over, ResetRest
  <2>3. Ends' /\ NoUseAfterReset' /\ VideoGoesOn' /\ CompletesOnceAtEnd'
    BY <1>17 DEF IInv, TypeOK, Locks, Starts, Unstarted, Before, Preparing,
       Firing, Over, Ends, NoUseAfterReset, VideoGoesOn,
       CompletesOnceAtEnd, ResetRest
  <2> QED
    BY <2>1, <2>2, <2>3 DEF IInv
<1>18. CASE Destroy
  <2>1. TypeOK'
    BY <1>18, Boxes DEF IInv, TypeOK, Destroy
  <2>2. Locks' /\ Starts' /\ Over'
    BY <1>18, Boxes DEF IInv, TypeOK, Locks, Starts, Unstarted, Before,
       Preparing, Firing, Over, Destroy
  <2>3. Ends' /\ NoUseAfterReset' /\ VideoGoesOn' /\ CompletesOnceAtEnd'
    BY <1>18, Boxes DEF IInv, TypeOK, Locks, Starts, Unstarted, Before,
       Preparing, Firing, Over, Ends, NoUseAfterReset, VideoGoesOn,
       CompletesOnceAtEnd, Destroy
  <2> QED
    BY <2>1, <2>2, <2>3 DEF IInv
<1>19. CASE Join
  <2>1. TypeOK'
    BY <1>19, Boxes DEF IInv, TypeOK, Join
  <2>2. Locks' /\ Starts' /\ Over'
    BY <1>19, Boxes DEF IInv, TypeOK, Locks, Starts, Unstarted, Before,
       Preparing, Firing, Over, Join
  <2>3. Ends' /\ NoUseAfterReset' /\ VideoGoesOn' /\ CompletesOnceAtEnd'
    BY <1>19, Boxes DEF IInv, TypeOK, Locks, Starts, Unstarted, Before,
       Preparing, Firing, Over, Ends, NoUseAfterReset, VideoGoesOn,
       CompletesOnceAtEnd, Join
  <2> QED
    BY <2>1, <2>2, <2>3 DEF IInv
<1> QED
  BY <1>1, <1>2, <1>3, <1>4, <1>5, <1>6, <1>7, <1>8, <1>9, <1>10, <1>11,
     <1>12, <1>13, <1>14, <1>15, <1>16, <1>17, <1>18, <1>19

-----------------------------------------------------------------------------
(* The two queues.                                                         *)

LEMMA QueuesKeepIInv ==
  ASSUME IInv, crashed = None,
         TakeStart \/ CallPlay \/ PlayerPlay \/ TakeEvent \/ OnPrepareAsync
            \/ CallbackPrepared \/ CallbackStart \/ OnStreamDone \/
            OnCheckAudioStatus
  PROVE  IInv'
<1> USE DEF None, Event, Free, ctrlVars, queueVars, playerVars, videoVars,
   audioVars, sessionVars, playFrame
<1>1. CASE TakeStart
  <2>1. TypeOK'
    BY <1>1 DEF IInv, TypeOK, TakeStart
  <2>2. Locks' /\ Starts' /\ Over'
    BY <1>1 DEF IInv, TypeOK, Locks, Starts, Unstarted, Before, Preparing,
       Firing, Over, TakeStart
  <2>3. Ends' /\ NoUseAfterReset' /\ VideoGoesOn' /\ CompletesOnceAtEnd'
    BY <1>1 DEF IInv, TypeOK, Locks, Starts, Unstarted, Before, Preparing,
       Firing, Over, Ends, NoUseAfterReset, VideoGoesOn,
       CompletesOnceAtEnd, TakeStart
  <2> QED
    BY <2>1, <2>2, <2>3 DEF IInv
<1>2. CASE CallPlay
  <2>1. TypeOK'
    BY <1>2 DEF IInv, TypeOK, CallPlay
  <2>2. Locks' /\ Starts' /\ Over'
    BY <1>2 DEF IInv, TypeOK, Locks, Starts, Unstarted, Before, Preparing,
       Firing, Over, CallPlay
  <2>3. Ends' /\ NoUseAfterReset' /\ VideoGoesOn' /\ CompletesOnceAtEnd'
    BY <1>2 DEF IInv, TypeOK, Locks, Starts, Unstarted, Before, Preparing,
       Firing, Over, Ends, NoUseAfterReset, VideoGoesOn,
       CompletesOnceAtEnd, CallPlay
  <2> QED
    BY <2>1, <2>2, <2>3 DEF IInv
<1>3. CASE PlayerPlay
  <2>1. TypeOK'
    BY <1>3 DEF IInv, TypeOK, PlayerPlay, StartPlaying, StartLate, Alive
  <2>2. Locks' /\ Starts' /\ Over'
    BY <1>3 DEF IInv, TypeOK, Locks, Starts, Unstarted, Before, Preparing,
       Firing, Over, PlayerPlay, StartPlaying, StartLate, Alive
  <2>3. Ends' /\ NoUseAfterReset' /\ VideoGoesOn' /\ CompletesOnceAtEnd'
    BY <1>3 DEF IInv, TypeOK, Locks, Starts, Unstarted, Before, Preparing,
       Firing, Over, Ends, NoUseAfterReset, VideoGoesOn,
       CompletesOnceAtEnd, PlayerPlay, StartPlaying, StartLate, Alive
  <2> QED
    BY <2>1, <2>2, <2>3 DEF IInv
<1>4. CASE TakeEvent
  <2>1. TypeOK'
    BY <1>4, Boxes DEF IInv, TypeOK, TakeEvent
  <2>2. Starts'
    <3>1. CASE pqueue = <<"prepare">>
      BY <1>4, <3>1, Boxes DEF IInv, TypeOK, Locks, Starts, Unstarted, Before, Preparing, Firing, TakeEvent
    <3>2. CASE "prepare" \notin Range(pqueue)
      BY <1>4, <3>2, Boxes DEF IInv, TypeOK, Locks, Starts, Unstarted, Before, Preparing, Firing, TakeEvent
    <3> QED
      BY <3>1, <3>2 DEF IInv, Starts, Preparing
  <2>3. Locks' /\ Over'
    BY <1>4, Boxes DEF IInv, TypeOK, Locks, Starts, Unstarted, Before,
       Preparing, Firing, Over, TakeEvent
  <2>4. Ends' /\ NoUseAfterReset' /\ VideoGoesOn' /\ CompletesOnceAtEnd'
    BY <1>4, Boxes DEF IInv, TypeOK, Locks, Starts, Unstarted, Before,
       Preparing, Firing, Over, Ends, NoUseAfterReset, VideoGoesOn,
       CompletesOnceAtEnd, TakeEvent
  <2> QED
    BY <2>1, <2>2, <2>3, <2>4 DEF IInv
<1>5. CASE OnPrepareAsync
  <2>1. TypeOK'
    BY <1>5 DEF IInv, TypeOK, OnPrepareAsync
  <2>2. Locks' /\ Starts' /\ Over'
    BY <1>5 DEF IInv, TypeOK, Locks, Starts, Unstarted, Before, Preparing,
       Firing, Over, OnPrepareAsync
  <2>3. Ends' /\ NoUseAfterReset' /\ VideoGoesOn' /\ CompletesOnceAtEnd'
    BY <1>5 DEF IInv, TypeOK, Locks, Starts, Unstarted, Before, Preparing,
       Firing, Over, Ends, NoUseAfterReset, VideoGoesOn,
       CompletesOnceAtEnd, OnPrepareAsync
  <2> QED
    BY <2>1, <2>2, <2>3 DEF IInv
<1>6. CASE CallbackPrepared
  <2>1. TypeOK'
    BY <1>6 DEF IInv, TypeOK, CallbackPrepared
  <2>2. Locks' /\ Starts' /\ Over'
    BY <1>6 DEF IInv, TypeOK, Locks, Starts, Unstarted, Before, Preparing,
       Firing, Over, CallbackPrepared
  <2>3. Ends' /\ NoUseAfterReset' /\ VideoGoesOn' /\ CompletesOnceAtEnd'
    BY <1>6 DEF IInv, TypeOK, Locks, Starts, Unstarted, Before, Preparing,
       Firing, Over, Ends, NoUseAfterReset, VideoGoesOn,
       CompletesOnceAtEnd, CallbackPrepared
  <2> QED
    BY <2>1, <2>2, <2>3 DEF IInv
<1>7. CASE CallbackStart
  <2>1. TypeOK'
    BY <1>7 DEF IInv, TypeOK, CallbackStart, FlagsPrepared
  <2>2. Locks' /\ Starts' /\ Over'
    BY <1>7 DEF IInv, TypeOK, Locks, Starts, Unstarted, Before, Preparing,
       Firing, Over, CallbackStart, FlagsPrepared
  <2>3. Ends' /\ NoUseAfterReset' /\ VideoGoesOn' /\ CompletesOnceAtEnd'
    BY <1>7 DEF IInv, TypeOK, Locks, Starts, Unstarted, Before, Preparing,
       Firing, Over, Ends, NoUseAfterReset, VideoGoesOn,
       CompletesOnceAtEnd, CallbackStart, FlagsPrepared
  <2> QED
    BY <2>1, <2>2, <2>3 DEF IInv
<1>8. CASE OnStreamDone
  <2>1. TypeOK'
    <3>1. pqueue' \in Seq(Event)
      <4>1. /\ pqueue \in Seq(Event) /\ AfterCancel(pqueue) \in Seq(Event)
            /\ Append(pqueue, "done") \in Seq(Event)
        BY Boxes DEF IInv, TypeOK
      <4> QED
        BY <1>8, <4>1 DEF OnStreamDone, PauseLocked
    <3> QED
      BY <1>8, <3>1 DEF IInv, TypeOK, OnStreamDone, PauseLocked
  <2>2. Locks' /\ Starts' /\ Over'
    BY <1>8, Boxes DEF IInv, TypeOK, Locks, Starts, Unstarted, Before,
       Preparing, Firing, Over, OnStreamDone, PauseLocked,
       PendingAfterDone, AllDone
  <2>3. Ends' /\ NoUseAfterReset' /\ VideoGoesOn' /\ CompletesOnceAtEnd'
    BY <1>8, Boxes DEF IInv, TypeOK, Locks, Starts, Unstarted, Before,
       Preparing, Firing, Over, Ends, NoUseAfterReset, VideoGoesOn,
       CompletesOnceAtEnd, OnStreamDone, PauseLocked, PendingAfterDone,
       AllDone
  <2> QED
    BY <2>1, <2>2, <2>3 DEF IInv
<1>9. CASE OnCheckAudioStatus
  <2>1. TypeOK'
    <3>1. pqueue' \in Seq(Event)
      <4>1. /\ pqueue \in Seq(Event) /\ AfterCancel(pqueue) \in Seq(Event)
            /\ Append(pqueue, "done") \in Seq(Event)
        BY Boxes DEF IInv, TypeOK
      <4> QED
        BY <1>9, <4>1 DEF OnCheckAudioStatus, PostDone
    <3> QED
      BY <1>9, <3>1 DEF IInv, TypeOK, OnCheckAudioStatus, PostDone
  <2>2. Locks' /\ Starts' /\ Over'
    BY <1>9, Boxes DEF IInv, TypeOK, Locks, Starts, Unstarted, Before,
       Preparing, Firing, Over, OnCheckAudioStatus, PostDone
  <2>3. Ends' /\ NoUseAfterReset' /\ VideoGoesOn' /\ CompletesOnceAtEnd'
    BY <1>9, Boxes DEF IInv, TypeOK, Locks, Starts, Unstarted, Before,
       Preparing, Firing, Over, Ends, NoUseAfterReset, VideoGoesOn,
       CompletesOnceAtEnd, OnCheckAudioStatus, PostDone
  <2> QED
    BY <2>1, <2>2, <2>3 DEF IInv
<1> QED
  BY <1>1, <1>2, <1>3, <1>4, <1>5, <1>6, <1>7, <1>8, <1>9

-----------------------------------------------------------------------------
(* The video looper, the audio callback, and the session.                  *)

LEMMA MediaKeepsIInv ==
  ASSUME IInv, crashed = None,
         TakeVideoEvent \/ OnVideoEvent \/ VideoFrame \/ VideoEnds \/
            AudioCallback \/ (\E rest \in {"idle", "reading"} :
            AudioFrame(rest)) \/ AudioEnds \/ AudioPosts \/ (\E t \in Tracks
            : AccessUnit(t)) \/ (\E t \in Tracks : Bye(t)) \/ (\E t \in
            Tracks : SignalEOS(t))
  PROVE  IInv'
<1> USE DEF None, Event, Free, ctrlVars, queueVars, playerVars, videoVars,
   audioVars, sessionVars, audioFrame, sessionFrame
<1>1. CASE TakeVideoEvent
  <2>1. TypeOK'
    BY <1>1 DEF IInv, TypeOK, TakeVideoEvent
  <2>2. Locks' /\ Starts' /\ Over'
    BY <1>1 DEF IInv, TypeOK, Locks, Starts, Unstarted, Before, Preparing,
       Firing, Over, TakeVideoEvent
  <2>3. Ends' /\ NoUseAfterReset' /\ VideoGoesOn' /\ CompletesOnceAtEnd'
    BY <1>1 DEF IInv, TypeOK, Locks, Starts, Unstarted, Before, Preparing,
       Firing, Over, Ends, NoUseAfterReset, VideoGoesOn,
       CompletesOnceAtEnd, TakeVideoEvent
  <2> QED
    BY <2>1, <2>2, <2>3 DEF IInv
<1>2. CASE OnVideoEvent
  <2>1. TypeOK'
    BY <1>2 DEF IInv, TypeOK, OnVideoEvent, VideoEventWanted
  <2>2. Locks' /\ Starts' /\ Over'
    BY <1>2 DEF IInv, TypeOK, Locks, Starts, Unstarted, Before, Preparing,
       Firing, Over, OnVideoEvent, VideoEventWanted
  <2>3. Ends' /\ NoUseAfterReset' /\ VideoGoesOn' /\ CompletesOnceAtEnd'
    BY <1>2 DEF IInv, TypeOK, Locks, Starts, Unstarted, Before, Preparing,
       Firing, Over, Ends, NoUseAfterReset, VideoGoesOn,
       CompletesOnceAtEnd, OnVideoEvent, VideoEventWanted
  <2> QED
    BY <2>1, <2>2, <2>3 DEF IInv
<1>3. CASE VideoFrame
  <2>1. TypeOK'
    BY <1>3 DEF IInv, TypeOK, VideoFrame, PendingAfterFrame
  <2>2. Locks' /\ Starts' /\ Over'
    BY <1>3 DEF IInv, TypeOK, Locks, Starts, Unstarted, Before, Preparing,
       Firing, Over, VideoFrame, PendingAfterFrame
  <2>3. Ends' /\ NoUseAfterReset' /\ VideoGoesOn' /\ CompletesOnceAtEnd'
    BY <1>3 DEF IInv, TypeOK, Locks, Starts, Unstarted, Before, Preparing,
       Firing, Over, Ends, NoUseAfterReset, VideoGoesOn,
       CompletesOnceAtEnd, VideoFrame, PendingAfterFrame
  <2> QED
    BY <2>1, <2>2, <2>3 DEF IInv
<1>4. CASE VideoEnds
  <2>1. TypeOK'
    <3>1. pqueue' \in Seq(Event)
      <4>1. /\ pqueue \in Seq(Event) /\ AfterCancel(pqueue) \in Seq(Event)
            /\ Append(pqueue, "done") \in Seq(Event)
        BY Boxes DEF IInv, TypeOK
      <4> QED
        BY <1>4, <4>1 DEF VideoEnds, PostDone
    <3> QED
      BY <1>4, <3>1 DEF IInv, TypeOK, VideoEnds, PostDone
  <2>2. Locks' /\ Starts' /\ Over'
    BY <1>4, Boxes DEF IInv, TypeOK, Locks, Starts, Unstarted, Before,
       Preparing, Firing, Over, VideoEnds, PostDone
  <2>3. Ends' /\ NoUseAfterReset' /\ VideoGoesOn' /\ CompletesOnceAtEnd'
    BY <1>4, Boxes DEF IInv, TypeOK, Locks, Starts, Unstarted, Before,
       Preparing, Firing, Over, Ends, NoUseAfterReset, VideoGoesOn,
       CompletesOnceAtEnd, VideoEnds, PostDone
  <2> QED
    BY <2>1, <2>2, <2>3 DEF IInv
<1>5. CASE AudioCallback
  <2>1. TypeOK'
    BY <1>5 DEF IInv, TypeOK, AudioCallback
  <2>2. Locks' /\ Starts' /\ Over'
    BY <1>5 DEF IInv, TypeOK, Locks, Starts, Unstarted, Before, Preparing,
       Firing, Over, AudioCallback
  <2>3. Ends' /\ NoUseAfterReset' /\ VideoGoesOn' /\ CompletesOnceAtEnd'
    BY <1>5 DEF IInv, TypeOK, Locks, Starts, Unstarted, Before, Preparing,
       Firing, Over, Ends, NoUseAfterReset, VideoGoesOn,
       CompletesOnceAtEnd, AudioCallback
  <2> QED
    BY <2>1, <2>2, <2>3 DEF IInv
<1>6. CASE \E rest \in {"idle", "reading"} : AudioFrame(rest)
  <2>1. TypeOK'
    BY <1>6 DEF IInv, TypeOK, AudioFrame
  <2>2. Locks' /\ Starts' /\ Over'
    BY <1>6 DEF IInv, TypeOK, Locks, Starts, Unstarted, Before, Preparing,
       Firing, Over, AudioFrame
  <2>3. Ends' /\ NoUseAfterReset' /\ VideoGoesOn' /\ CompletesOnceAtEnd'
    BY <1>6 DEF IInv, TypeOK, Locks, Starts, Unstarted, Before, Preparing,
       Firing, Over, Ends, NoUseAfterReset, VideoGoesOn,
       CompletesOnceAtEnd, AudioFrame
  <2> QED
    BY <2>1, <2>2, <2>3 DEF IInv
<1>7. CASE AudioEnds
  <2>1. TypeOK'
    BY <1>7 DEF IInv, TypeOK, AudioEnds
  <2>2. Locks' /\ Starts' /\ Over'
    BY <1>7 DEF IInv, TypeOK, Locks, Starts, Unstarted, Before, Preparing,
       Firing, Over, AudioEnds
  <2>3. Ends' /\ NoUseAfterReset' /\ VideoGoesOn' /\ CompletesOnceAtEnd'
    BY <1>7 DEF IInv, TypeOK, Locks, Starts, Unstarted, Before, Preparing,
       Firing, Over, Ends, NoUseAfterReset, VideoGoesOn,
       CompletesOnceAtEnd, AudioEnds
  <2> QED
    BY <2>1, <2>2, <2>3 DEF IInv
<1>8. CASE AudioPosts
  <2>1. TypeOK'
    BY <1>8, Boxes DEF IInv, TypeOK, AudioPosts
  <2>2. Locks' /\ Starts' /\ Over'
    BY <1>8, Boxes DEF IInv, TypeOK, Locks, Starts, Unstarted, Before,
       Preparing, Firing, Over, AudioPosts
  <2>3. Ends' /\ NoUseAfterReset' /\ VideoGoesOn' /\ CompletesOnceAtEnd'
    BY <1>8, Boxes DEF IInv, TypeOK, Locks, Starts, Unstarted, Before,
       Preparing, Firing, Over, Ends, NoUseAfterReset, VideoGoesOn,
       CompletesOnceAtEnd, AudioPosts
  <2> QED
    BY <2>1, <2>2, <2>3 DEF IInv
<1>9. CASE \E t \in Tracks : AccessUnit(t)
  <2>1. TypeOK'
    BY <1>9 DEF IInv, TypeOK, AccessUnit
  <2>2. Locks' /\ Starts' /\ Over'
    BY <1>9 DEF IInv, TypeOK, Locks, Starts, Unstarted, Before, Preparing,
       Firing, Over, AccessUnit
  <2>3. Ends' /\ NoUseAfterReset' /\ VideoGoesOn' /\ CompletesOnceAtEnd'
    BY <1>9 DEF IInv, TypeOK, Locks, Starts, Unstarted, Before, Preparing,
       Firing, Over, Ends, NoUseAfterReset, VideoGoesOn,
       CompletesOnceAtEnd, AccessUnit
  <2> QED
    BY <2>1, <2>2, <2>3 DEF IInv
<1>10. CASE \E t \in Tracks : Bye(t)
  <2>1. TypeOK'
    BY <1>10 DEF IInv, TypeOK, Bye
  <2>2. Locks' /\ Starts' /\ Over'
    BY <1>10 DEF IInv, TypeOK, Locks, Starts, Unstarted, Before, Preparing,
       Firing, Over, Bye
  <2>3. Ends' /\ NoUseAfterReset' /\ VideoGoesOn' /\ CompletesOnceAtEnd'
    BY <1>10 DEF IInv, TypeOK, Locks, Starts, Unstarted, Before, Preparing,
       Firing, Over, Ends, NoUseAfterReset, VideoGoesOn,
       CompletesOnceAtEnd, Bye
  <2> QED
    BY <2>1, <2>2, <2>3 DEF IInv
<1>11. CASE \E t \in Tracks : SignalEOS(t)
  <2>1. TypeOK'
    BY <1>11 DEF IInv, TypeOK, SignalEOS
  <2>2. Locks' /\ Starts' /\ Over'
    BY <1>11 DEF IInv, TypeOK, Locks, Starts, Unstarted, Before, Preparing,
       Firing, Over, SignalEOS
  <2>3. Ends' /\ NoUseAfterReset' /\ VideoGoesOn' /\ CompletesOnceAtEnd'
    BY <1>11 DEF IInv, TypeOK, Locks, Starts, Unstarted, Before, Preparing,
       Firing, Over, Ends, NoUseAfterReset, VideoGoesOn,
       CompletesOnceAtEnd, SignalEOS
  <2> QED
    BY <2>1, <2>2, <2>3 DEF IInv
<1> QED
  BY <1>1, <1>2, <1>3, <1>4, <1>5, <1>6, <1>7, <1>8, <1>9, <1>10, <1>11

-----------------------------------------------------------------------------

LEMMA InitIInv == Init => IInv
<1> SUFFICES ASSUME Init
             PROVE  IInv
  OBVIOUS
<1> USE DEF Init, None, Event
<1>1. TypeOK
  BY DEF TypeOK
<1>2. Locks /\ Over /\ Ends
  BY DEF Locks, Over, Ends
<1>3. Starts
  BY Boxes DEF Starts, Unstarted, Before, Preparing, Firing
<1>4. NoUseAfterReset /\ VideoGoesOn /\ CompletesOnceAtEnd
  BY DEF NoUseAfterReset, VideoGoesOn, CompletesOnceAtEnd
<1> QED
  BY <1>1, <1>2, <1>3, <1>4 DEF IInv

LEMMA NextKeepsIInv == IInv /\ [Next]_vars => IInv'
<1> SUFFICES ASSUME IInv, [Next]_vars
             PROVE  IInv'
  OBVIOUS
<1>1. CASE Next
  <2>1. crashed = None
    BY <1>1 DEF Next
  <2>2. \/ Play \/ Stop \/ SpuriousWakeup \/ EncoderSdp \/ Owner \/ OwnerLocks
        \/ Control \/ PlayerPlay \/ PlayerQueue \/ PlayerQueueLocks
        \/ VideoLooper \/ Audio
        \/ \E t \in Tracks : AccessUnit(t) \/ Bye(t) \/ SignalEOS(t)
    BY <1>1 DEF Next
  <2>3. CASE Play \/ Stop \/ SpuriousWakeup \/ EncoderSdp \/ Owner \/ OwnerLocks
    BY <2>1, <2>3, OwnerKeepsIInv DEF Owner, OwnerLocks
  <2>4. CASE Control \/ PlayerPlay \/ PlayerQueue \/ PlayerQueueLocks
    BY <2>1, <2>4, QueuesKeepIInv DEF Control, PlayerQueue, PlayerQueueLocks
  <2>5. CASE \/ VideoLooper \/ Audio
             \/ \E t \in Tracks : AccessUnit(t) \/ Bye(t) \/ SignalEOS(t)
    BY <2>1, <2>5, MediaKeepsIInv DEF VideoLooper, Audio, BufferFilled
  <2> QED
    BY <2>2, <2>3, <2>4, <2>5
<1>2. CASE UNCHANGED vars
  <2> USE <1>2 DEF vars, ctrlVars, queueVars, playerVars, videoVars, audioVars,
                   sessionVars
  <2>1. TypeOK' /\ Locks' /\ Over' /\ Ends'
    BY DEF IInv, TypeOK, Locks, Over, Ends
  <2>2. Starts'
    BY DEF IInv, Starts, Unstarted, Before, Preparing, Firing
  <2>3. NoUseAfterReset' /\ VideoGoesOn' /\ CompletesOnceAtEnd'
    BY DEF IInv, NoUseAfterReset, VideoGoesOn, CompletesOnceAtEnd
  <2> QED
    BY <2>1, <2>2, <2>3 DEF IInv
<1> QED
  BY <1>1, <1>2

LEMMA AlwaysIInv == Spec => []IInv
<1>1. Init => IInv
  BY InitIInv
<1>2. IInv /\ [Next]_vars => IInv'
  BY NextKeepsIInv
<1> QED
  BY <1>1, <1>2, PTL DEF Spec

\* Nobody reads a source that is not prepared or that reset_l() has stopped,
\* whatever stop() overtakes: a start on its way, a video event that was
\* cancelled, an audio callback (onVideoEvent(), reset_l(), play_l()).
THEOREM NobodyReadsAfterReset == Spec => []NoUseAfterReset
<1>1. IInv => NoUseAfterReset
  BY DEF IInv
<1> QED
  BY <1>1, AlwaysIInv, PTL

\* A playing call has one video event under way until its video ends
\* (postVideoEvent_l(), onVideoEvent(), cancelPlayerEvents()).
THEOREM VideoKeepsGoing == Spec => []VideoGoesOn
<1>1. IInv => VideoGoesOn
  BY DEF IInv
<1> QED
  BY <1>1, AlwaysIInv, PTL

\* The end is reported once at most, and only of all tracks, though two threads
\* report the end of one to one event (onStreamDone(), onCheckAudioStatus()).
THEOREM CompleteIsReportedOnce == Spec => []CompletesOnceAtEnd
<1>1. IInv => CompletesOnceAtEnd
  BY DEF IInv
<1> QED
  BY <1>1, AlwaysIInv, PTL

=============================================================================
