----------------------------- MODULE RTPConnection -----------------------------
(***************************************************************************)
(* DSPGARTPConnection (src/jni/player/rtsp/DSPGARTPConnection.cpp): the    *)
(* streams of one session and the looper that receives them.  Streams are  *)
(* added and removed by message.  The sockets of those that come by UDP    *)
(* are polled with a message the looper sends to itself; the others are    *)
(* injected, packet by packet, by the RTSP connection.  What is received   *)
(* goes to whoever added the stream, as messages of his looper.            *)
(*                                                                         *)
(* This module has the variables and the looper's steps; a session adds    *)
(* the streams, opens and closes the sockets and handles the notices:      *)
(* RTPSession for a call, RTSPSession for an RTSP URL.                     *)
(***************************************************************************)
EXTENDS Integers, Sequences, SequencesExt, FiniteSetsExt

CONSTANTS Sockets,  \* pairs of sockets, or of interleaved channels
          Units     \* what an access unit may be

VARIABLES netbox,       \* messages posted to the RTP connection
          streams,      \* mStreams
          pollPending,  \* mPollEventPending
          flags,        \* mFlags
          reportDue,    \* have 5 s passed since mLastReceiverReportTimeUs?
          reported,     \* history: pairs that sent a report since it was due
          rx,           \* one datagram per port at most, not yet received
          open,         \* the pairs of UDP sockets that are open
          mailbox,      \* messages posted to the session's looper
          crashed       \* where a CHECK or TRESPASS ended the process, or Alive

netVars == <<netbox, streams, pollPending, flags, reportDue, reported, rx>>

Alive == "alive"

\* A value there may be or not.
Nothing == <<>>
OneOf(S) == {Nothing} \cup {<<x>> : x \in S}

\* A datagram: an RTP packet that completes a unit or none, an RTCP packet
\* with a sender report or a BYE in it, or one that is not well-formed.
RTP(unit) == [kind |-> "rtp", unit |-> unit]
RTCP(sr, bye) == [kind |-> "rtcp", sr |-> sr, bye |-> bye]
Malformed == [kind |-> "malformed"]

RTPPackets == {RTP(u) : u \in OneOf(Units)} \cup {Malformed}
RTCPPackets == {RTCP(sr, bye) : sr, bye \in BOOLEAN}

Ports == Sockets \X {"rtp", "rtcp"}

-----------------------------------------------------------------------------
(* Mutated forms of definitions below.                                     *)

NoUnitForBye(s, p) == <<>>

-----------------------------------------------------------------------------
(* What the session calls: each posts a message.                           *)

Stream(socket, track, injected) ==
    [socket |-> socket, track |-> track, injected |-> injected,
     rtp |-> FALSE, rtcp |-> FALSE, source |-> FALSE, times |-> 0]

AddStream(socket, track, injected) ==
    [what |-> "add", stream |-> Stream(socket, track, injected)]

RemoveStream(socket) == [what |-> "remove", socket |-> socket]

InjectPacket(socket, packet) ==
    [what |-> "inject", socket |-> socket, packet |-> packet]

FakeTimestamps == [what |-> "fake"]

PollStreams == [what |-> "poll"]

-----------------------------------------------------------------------------
(* parseRTP() and parseRTCP(), for the stream a packet came with.  A       *)
(* source holds a stream's packets back until it has two times to          *)
(* interpolate between: their units are not kept here (in the code they    *)
(* come with the first packet after that).                                 *)

Notice(s, kind, unit) ==
    [what |-> "accu", track |-> s.track, kind |-> kind, unit |-> unit]

First(known, s, kind) ==
    IF known THEN <<>> ELSE <<Notice(s, kind, Nothing)>>

TimesUpdated(times) == IF times = 2 THEN 2 ELSE times + 1

AfterRTP(s, p) ==
    IF p = Malformed THEN [s EXCEPT !.rtp = TRUE]
    ELSE [s EXCEPT !.rtp = TRUE,
                   !.source = TRUE,
                   !.times = IF "fake" \in flags THEN 2 ELSE @]

NoticesOfRTP(s, p) ==
    First(s.rtp, s, "first-rtp")
    \o IF p # Malformed /\ p.unit # Nothing /\ AfterRTP(s, p).times = 2
       THEN <<Notice(s, "unit", p.unit)>> ELSE <<>>

AfterRTCP(s, p) ==
    [s EXCEPT !.rtcp = TRUE,
              !.source = @ \/ p.sr \/ p.bye,
              !.times = IF p.sr /\ "fake" \notin flags THEN TimesUpdated(@)
                                                       ELSE @]

\* parseBYE()
NoticeOfBye(s, p) == IF p.bye THEN <<Notice(s, "eos", Nothing)>> ELSE <<>>

NoticesOfRTCP(s, p) == First(s.rtcp, s, "first-rtcp") \o NoticeOfBye(s, p)

-----------------------------------------------------------------------------
(* The looper.                                                             *)

Message == Head(netbox)

\* postPollEvent(), into the given queue.
WithPollEvent(box, pending) ==
    IF pending THEN box ELSE Append(box, PollStreams)

OnAddStream ==
    /\ Message.what = "add"
    /\ streams' = Append(streams, Message.stream)
    /\ netbox' = IF Message.stream.injected THEN Tail(netbox)
                 ELSE WithPollEvent(Tail(netbox), pollPending)
    /\ pollPending' = (pollPending \/ ~Message.stream.injected)
    /\ UNCHANGED <<flags, reportDue, reported, rx, mailbox, crashed>>

Registered(socket) == {i \in DOMAIN streams : streams[i].socket = socket}

OnRemoveStream ==
    /\ Message.what = "remove"
    /\ netbox' = Tail(netbox)
    /\ IF Registered(Message.socket) = {}
       THEN /\ crashed' = "removing a stream"
            /\ UNCHANGED streams
       ELSE /\ streams' = RemoveAt(streams, Min(Registered(Message.socket)))
            /\ UNCHANGED crashed
    /\ UNCHANGED <<pollPending, flags, reportDue, reported, rx, mailbox>>

Received(s, port) ==
    IF "started" \in flags /\ ~s.injected THEN rx[<<s.socket, port>>]
                                          ELSE Nothing

\* receive(), for the RTP and then the RTCP socket of a stream.
Read(s) ==
    LET rtp == Received(s, "rtp")
        rtcp == Received(s, "rtcp")
        s1 == IF rtp = Nothing THEN s ELSE AfterRTP(s, rtp[1])
        n1 == IF rtp = Nothing THEN <<>> ELSE NoticesOfRTP(s, rtp[1])
    IN  IF rtcp = Nothing THEN [stream |-> s1, notices |-> n1]
        ELSE [stream |-> AfterRTCP(s1, rtcp[1]),
              notices |-> n1 \o NoticesOfRTCP(s1, rtcp[1])]

Polled == {streams[i].socket : i \in {j \in DOMAIN streams : ~streams[j].injected}}

\* A report goes to the address the stream's first RTCP packet came from.
Reporting(list) ==
    {list[i].socket : i \in {j \in DOMAIN list :
        list[j].rtcp /\ list[j].source /\ ~list[j].injected}}

OnPollStreams ==
    /\ Message.what = "poll"
    /\ \/ /\ Polled = {}
          /\ netbox' = Tail(netbox)
          /\ pollPending' = FALSE
          /\ UNCHANGED <<streams, reportDue, reported, rx, mailbox, crashed>>
       \/ \* select() of a closed socket
          /\ ~(Polled \subseteq open)
          /\ crashed' = "polling a closed socket"
          /\ UNCHANGED <<netbox, streams, pollPending, reportDue, reported, rx,
                         mailbox>>
       \/ /\ Polled # {}
          /\ Polled \subseteq open
          /\ streams' = [i \in DOMAIN streams |-> Read(streams[i]).stream]
          /\ mailbox' = mailbox \o
                FlattenSeq([i \in DOMAIN streams |-> Read(streams[i]).notices])
          /\ rx' = [p \in Ports |-> IF p[1] \in Polled THEN Nothing ELSE rx[p]]
          /\ netbox' = WithPollEvent(Tail(netbox), FALSE)
          /\ pollPending' = TRUE
          /\ LET sent == IF reportDue THEN Reporting(streams') ELSE {}
             IN  /\ reportDue' = (reportDue /\ sent = {})
                 /\ reported' = reported \cup sent
          /\ UNCHANGED crashed
    /\ UNCHANGED flags

\* A CHECK of onPollStreams() fails: select() has an error, or sendto() does
\* not send all of a report.
PollFails ==
    /\ crashed = Alive
    /\ netbox # <<>>
    /\ Message.what = "poll"
    /\ Polled # {}
    /\ \/ crashed' = "select failed"
       \/ /\ reportDue
          /\ Reporting([i \in DOMAIN streams |-> Read(streams[i]).stream]) # {}
          /\ crashed' = "report not sent"
    /\ UNCHANGED <<netVars, open, mailbox>>

OnInjectPacket ==
    /\ Message.what = "inject"
    /\ netbox' = Tail(netbox)
    /\ IF Registered(Message.socket) = {}
       THEN /\ crashed' = "injecting a packet"
            /\ UNCHANGED <<streams, mailbox>>
       ELSE LET i == Min(Registered(Message.socket))
                p == Message.packet
                rtcp == p.kind = "rtcp"
            IN  /\ streams' = [streams EXCEPT ![i] =
                       IF rtcp THEN AfterRTCP(@, p) ELSE AfterRTP(@, p)]
                /\ mailbox' = mailbox \o
                       IF rtcp THEN NoticesOfRTCP(streams[i], p)
                               ELSE NoticesOfRTP(streams[i], p)
                /\ UNCHANGED crashed
    /\ UNCHANGED <<pollPending, flags, reportDue, reported, rx>>

\* onFakeTimestamps(): the sources there are get two times, later ones too if
\* there was one that needed them.
OnFakeTimestamps ==
    LET untimed == {i \in DOMAIN streams :
                        streams[i].source /\ streams[i].times < 2}
    IN  /\ Message.what = "fake"
        /\ netbox' = Tail(netbox)
        /\ streams' = [i \in DOMAIN streams |->
               IF i \in untimed THEN [streams[i] EXCEPT !.times = 2]
                                ELSE streams[i]]
        /\ flags' = IF untimed = {} THEN flags ELSE flags \cup {"fake"}
        /\ UNCHANGED <<pollPending, reportDue, reported, rx, mailbox, crashed>>

NetLooper ==
    /\ crashed = Alive
    /\ netbox # <<>>
    /\ \/ OnAddStream \/ OnRemoveStream \/ OnPollStreams \/ OnInjectPacket
       \/ OnFakeTimestamps
    /\ UNCHANGED open

\* The 5 s between two reports pass.
ReportTimer ==
    /\ crashed = Alive
    /\ ~reportDue
    /\ reportDue' = TRUE
    /\ reported' = {}
    /\ UNCHANGED <<netbox, streams, pollPending, flags, rx, open, mailbox,
                   crashed>>

\* A datagram arrives at a socket that is open.
Arrives(port, p) ==
    /\ port[1] \in open
    /\ rx[port] = Nothing
    /\ rx' = [rx EXCEPT ![port] = <<p>>]
    /\ UNCHANGED <<netbox, streams, pollPending, flags, reportDue, reported>>

NetInit(initialFlags) ==
    /\ netbox = <<>>
    /\ streams = <<>>
    /\ pollPending = FALSE
    /\ flags = initialFlags
    /\ reportDue = TRUE
    /\ reported = {}
    /\ rx = [p \in Ports |-> Nothing]

=============================================================================
