------------------------------- MODULE RTPSession -------------------------------
(***************************************************************************)
(* The media a call receives: DSPGARTPSession (src/jni/player/rtsp/        *)
(* DSPGARTPSession.cpp) between the RTP connection, which polls the call's *)
(* sockets, and the decoders, which wait for the access units of their     *)
(* track.  Session and connection share a looper; it is kept as one queue  *)
(* for each of them here, read in any order, so that everything the looper *)
(* does is among what this module does.                                    *)
(***************************************************************************)
EXTENDS RTPConnection, PacketSource

CONSTANTS NumTracks,   \* tracks of the session description, from 1
          MaxBuffers,  \* bound on the units a source holds
          MaxMedia     \* bound on the datagrams and notices on their way

ASSUME SessionAssumption ==
    /\ NumTracks \in Nat
    /\ MaxBuffers \in Nat \ {0}
    /\ MaxMedia \in Nat \ {0}
    /\ Sockets = {"audio", "video"}

VARIABLES phase,    \* of the session: new, ready, started, stopping, gone
          sources   \* the packet source of each track

sessionVars == <<phase, sources>>
vars == <<netVars, open, mailbox, crashed, sessionVars>>

\* The sockets a BYE waits at.
Ending == {s \in Sockets : rx[<<s, "rtcp">>] \in {<<RTCP(sr, TRUE)>> : sr \in BOOLEAN}}

-----------------------------------------------------------------------------
(* The player's calls.                                                     *)

VideoFormats == {"H264", "MP4A-LATM", "H263-1998", "H263-2000"}

SocketOf(f) == IF f.type \in VideoFormats THEN "video" ELSE "audio"

\* setup() with sockets of the application: DSPGMediaPlayer.cpp:1926 asserts
\* that each track has a format a source can be made for.
Setup ==
    /\ phase = "new"
    /\ \E formats \in [1 .. NumTracks -> Formats] :
          IF \A t \in 1 .. NumTracks : Accepts(formats[t])
          THEN /\ phase' = "ready"
               /\ sources' = [t \in 1 .. NumTracks |-> NewSource(formats[t])]
               /\ netbox' = [t \in 1 .. NumTracks |->
                                AddStream(SocketOf(formats[t]), t, FALSE)]
               /\ UNCHANGED crashed
          ELSE /\ crashed' = "setting up the session"
               /\ UNCHANGED <<phase, sources, netbox>>
    /\ UNCHANGED <<streams, pollPending, flags, reportDue, reported, rx, open,
                   mailbox>>

\* start(), by the player's first play(): until then what is received is lost.
Start ==
    /\ phase = "ready"
    /\ phase' = "started"
    /\ flags' = flags \cup {"started"}
    /\ UNCHANGED <<netbox, streams, pollPending, reportDue, reported, rx, open,
                   mailbox, crashed, sources>>

EndOfTrack(t) == Notice([track |-> t], "eos", Nothing)

Forced == [t \in DOMAIN sources |-> EndOfTrack(t)]

\* forceStop() ends every track by message, as a BYE would.
ForceStop ==
    /\ phase \in {"ready", "started"}
    /\ phase' = "stopping"
    /\ mailbox' = mailbox \o Forced
    /\ UNCHANGED <<netVars, open, crashed, sources>>

\* The player is reset: ~DSPGARTPSession(), and the looper's messages for the
\* session and for its connection have no handler any more.  The sockets are
\* the application's: it closes them next.
Release ==
    /\ phase \in {"ready", "started", "stopping"}
    /\ phase' = "gone"
    /\ sources' = [t \in DOMAIN sources |-> SignalEOS(sources[t])]
    /\ mailbox' = <<>>
    /\ netbox' = <<>>
    /\ streams' = <<>>
    /\ pollPending' = FALSE
    /\ open' = {}
    /\ UNCHANGED <<flags, reportDue, reported, rx, crashed>>

Player == Setup \/ Start \/ ForceStop \/ Release

-----------------------------------------------------------------------------
(* onMessageReceived(): the first packets say nothing here.                *)

OnAccessUnitComplete ==
    /\ mailbox # <<>>
    /\ mailbox' = Tail(mailbox)
    /\ LET msg == Head(mailbox)
       IN  sources' = CASE msg.kind = "eos" ->
                             [sources EXCEPT ![msg.track] = SignalEOS(@)]
                        [] msg.kind = "unit" ->
                             [sources EXCEPT ![msg.track] =
                                 QueueAccessUnit(@, msg.unit[1])]
                        [] OTHER -> sources
    /\ UNCHANGED <<netVars, open, crashed, phase>>

-----------------------------------------------------------------------------
(* The decoders, and the network.                                          *)

\* read() of a track returns a unit; what it returns of the end is its own.
Reads(t) ==
    /\ t \in DOMAIN sources
    /\ HasUnit(sources[t])
    /\ sources' = [sources EXCEPT ![t] = AfterRead(@)]
    /\ UNCHANGED <<netVars, open, mailbox, crashed, phase>>

OnTheirWay ==
    Len(mailbox) + Cardinality({p \in Ports : rx[p] # Nothing})

\* What comes to a socket no stream has is never looked at.
Network ==
    /\ OnTheirWay < MaxMedia
    /\ \A t \in DOMAIN sources : Len(sources[t].buffers) < MaxBuffers
    /\ \E s \in Polled :
          \/ \E p \in RTPPackets : Arrives(<<s, "rtp">>, p)
          \/ \E p \in RTCPPackets : Arrives(<<s, "rtcp">>, p)
    /\ UNCHANGED <<open, mailbox, crashed, sessionVars>>

NetStep == NetLooper /\ UNCHANGED sessionVars

-----------------------------------------------------------------------------

\* kFakeTimestamps and kRegularlyRequestFIR
Init ==
    /\ NetInit({"fake", "fir"})
    /\ open = Sockets
    /\ mailbox = <<>>
    /\ crashed = Alive
    /\ phase = "new"
    /\ sources = <<>>

Next ==
    \/ crashed = Alive /\ (Player \/ OnAccessUnitComplete \/ Network)
    \/ \E t \in 1 .. NumTracks : Reads(t)
    \/ NetStep
    \/ (ReportTimer \/ PollFails) /\ UNCHANGED sessionVars

Spec == Init /\ [][Next]_vars

\* The looper runs.
FairSpec ==
    /\ Spec
    /\ WF_vars(crashed = Alive /\ OnAccessUnitComplete)
    /\ WF_vars(NetStep)

-----------------------------------------------------------------------------
(* Properties.                                                             *)

Ends(t) == /\ t \in DOMAIN streams
           /\ streams[t].socket \in Ending
           /\ "started" \in flags

CanReport(s) == \E i \in DOMAIN streams :
                    /\ streams[i].socket = s
                    /\ streams[i].rtcp /\ streams[i].source

Told(t) == t \in DOMAIN sources /\ sources[t].eos

\* While the call goes on, every datagram is read, every stream that can send
\* a report does so when it is time, and the source of a track whose peer has
\* said BYE, and every source of a stopped call, is told of the end, so that
\* no decoder waits for more.  The call does not go on once select() or
\* sendto() has failed: a CHECK makes that the end of the process.
Stops == phase = "gone" \/ crashed \in {"select failed", "report not sent"}

MediaGoesOn ==
    /\ \A p \in Ports :
          p[1] \in Polled /\ rx[p] # Nothing ~> rx[p] = Nothing \/ Stops
    /\ \A s \in Sockets :
          reportDue /\ CanReport(s) ~> s \in reported \/ Stops
    /\ \A t \in 1 .. NumTracks :
          (phase = "stopping" \/ Ends(t)) ~> Told(t) \/ Stops
=============================================================================
