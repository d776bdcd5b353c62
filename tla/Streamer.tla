------------------------------- MODULE Streamer -------------------------------
(***************************************************************************)
(* ARTPStreamer (src/jni/ARTPStreamer.cpp): the sending side of one track, *)
(* from its creation by a recorder to the end of stop().  Two threads: the *)
(* owner, that calls start() and stop(), and the looper, that reads the    *)
(* encoder, cuts what it gets into packets and posts itself the message to *)
(* read again.  Every packet sent is a step; mLock is held only within     *)
(* steps.  The looper and its roster are Android's: a message to a handler *)
(* that is not registered is dropped, and releasing the looper waits for   *)
(* the handler that runs.                                                  *)
(***************************************************************************)
EXTENDS Integers, Sequences

CONSTANTS Mode,      \* what the source may encode
          Sizes,     \* the lengths of the buffers it returns, start codes stripped:
                     \* 0 is a start code and nothing else
          Capacity,  \* kMaxPacketSize
          WireMod,   \* 2^16: sequence numbers on the wire
          MaxFrames  \* bound on the buffers read

ASSUME StreamerAssumption ==
    /\ Mode \subseteq {"H264", "H263", "AMR"}
    /\ Sizes \subseteq Nat
    /\ Capacity \in Nat
    /\ Capacity > 14
    /\ WireMod \in Nat \ {0}
    /\ MaxFrames \in Nat

VARIABLES mode,       \* mMode
          opc,        \* where the owner is
          started,    \* kFlagStarted
          eos,        \* kFlagEOS
          registered, \* is mReflector registered with the looper?
          msgs,       \* messages posted to the looper
          lpc,        \* where the looper is; "aborted" if the process is
          sourceOn,   \* mSource is started
          announced,  \* m_sdpcb was called
          frames,     \* history: the lengths of the buffers read
          offset,     \* of what is still to be sent of the last of them
          seqNo,      \* mSeqNo, as it goes on the wire
          sent,       \* history: the RTP packets sent
          bye         \* BYE was sent

ownerVars == <<opc, registered, bye>>
readVars == <<sourceOn, announced, frames>>
sendVars == <<offset, seqNo, sent>>
vars == <<mode, ownerVars, started, eos, msgs, lpc, readVars, sendVars>>

Init == /\ mode \in Mode
        /\ opc = "created"
        /\ started = FALSE
        /\ eos = FALSE
        /\ registered = TRUE
        /\ msgs = <<>>
        /\ lpc = "idle"
        /\ sourceOn = FALSE
        /\ announced = FALSE
        /\ frames = <<>>
        /\ offset = 0
        /\ seqNo \in 0 .. WireMod - 1
        /\ sent = <<>>
        /\ bye = FALSE

\* The length of the buffer being sent, and the messages after msg->post().
Size == frames[Len(frames)]
Posted(m) == IF registered THEN Append(msgs, m) ELSE msgs

-----------------------------------------------------------------------------
(* Mutated forms of definitions below.                                     *)

StaysRegistered == TRUE

DoesNotWait == TRUE

ForgetsFUHeader == Size - offset + 12 <= Capacity

-----------------------------------------------------------------------------
(* The owner: the application's thread in VideoRecorderCtrl or             *)
(* AudioRecorderCtrl.                                                      *)

\* start() up to its wait.  What it resets has not been used before: the
\* recorders start a streamer once.
Start == /\ opc = "created"
         /\ ~started
         /\ opc' = "starting"
         /\ eos' = FALSE
         /\ msgs' = Posted("start")
         /\ UNCHANGED <<mode, registered, bye, started, lpc, readVars, sendVars>>

StartReturns == /\ opc = "starting"
                /\ started
                /\ opc' = "running"
                /\ UNCHANGED <<mode, registered, bye, started, eos, msgs, lpc,
                               readVars, sendVars>>

\* stop() of a streamer that was not started does nothing.
StopUnstarted == /\ opc = "created"
                 /\ ~started
                 /\ opc' = "stopped"
                 /\ UNCHANGED <<mode, registered, bye, started, eos, msgs, lpc,
                                readVars, sendVars>>

\* mLooper->unregisterHandler(); stop() has seen kFlagStarted.
StillRegistered == FALSE
Unregister == /\ opc = "running"
              /\ started
              /\ registered' = StillRegistered
              /\ opc' = "joining"
              /\ UNCHANGED <<mode, bye, started, eos, msgs, lpc, readVars, sendVars>>

\* mLooper.clear() returns when no handler runs.
HandlerReturned == lpc = "idle"

Join == /\ opc = "joining"
        /\ HandlerReturned
        /\ msgs' = <<>>
        /\ opc' = "joined"
        /\ UNCHANGED <<mode, registered, bye, started, eos, lpc, readVars, sendVars>>

StopSource == /\ opc = "joined"
              /\ sourceOn' = FALSE
              /\ opc' = "sourceStopped"
              /\ UNCHANGED <<mode, registered, bye, started, eos, msgs, lpc,
                             announced, frames, sendVars>>

SendBye == /\ opc = "sourceStopped"
           /\ bye' = TRUE
           /\ opc' = "byeSent"
           /\ UNCHANGED <<mode, registered, started, eos, msgs, lpc, readVars,
                          sendVars>>

StopReturns == /\ opc = "byeSent"
               /\ started' = FALSE
               /\ opc' = "stopped"
               /\ UNCHANGED <<mode, registered, bye, eos, msgs, lpc, readVars,
                              sendVars>>

Owner == \/ Start \/ StartReturns \/ StopUnstarted
         \/ Unregister \/ Join \/ StopSource \/ SendBye \/ StopReturns

-----------------------------------------------------------------------------
(* The looper: onMessageReceived().                                        *)

Delivered(m) == /\ lpc = "idle"
                /\ msgs # <<>>
                /\ Head(msgs) = m
                /\ msgs' = Tail(msgs)

\* The roster finds no handler; kWhatRead after stop(); kWhatSendSR, whose
\* call of onSendSR() is commented out.
Ignore(m) == /\ Delivered(m)
             /\ \/ ~registered
                \/ m = "read" /\ ~started
                \/ m = "sendSR"
             /\ UNCHANGED <<mode, ownerVars, started, eos, lpc, readVars, sendVars>>

\* Only H.264 has parameter sets to announce before anything is sent.
AfterSourceStart == IF mode = "H264" THEN "firstRead" ELSE "setStarted"

\* kWhatStart: mSource->start().
HandleStart == /\ Delivered("start")
               /\ registered
               /\ sourceOn' = TRUE
               /\ lpc' = AfterSourceStart
               /\ UNCHANGED <<mode, ownerVars, started, eos, announced, frames,
                              sendVars>>

HandleRead == /\ Delivered("read")
              /\ registered /\ started
              /\ lpc' = "read"
              /\ UNCHANGED <<mode, ownerVars, started, eos, readVars, sendVars>>

\* The bytes of a buffer that are not sent as payload: the NAL header that
\* goes into the FU header, the two zeros every H.263 picture starts with.
Skipped(size) == CASE mode = "H264" -> IF size + 12 <= Capacity THEN 0 ELSE 1
                   [] mode = "H263" -> 2
                   [] mode = "AMR" -> 0

\* An H.263 picture of two bytes has no packet.
HasPackets(size) == mode = "H263" => size > 2

Received(size) == /\ Len(frames) < MaxFrames
                  /\ frames' = Append(frames, size)
                  /\ offset' = Skipped(size)

\* makeH264SPropParamSets() asserts that there are two of them: a header byte, and
\* a start code of four bytes before the second.
HoldsParameterSets(size) == size >= 5

\* The first buffer of H.264: its parameter sets are handed to m_sdpcb, then it is
\* sent like any other.
FirstRead(size) == /\ lpc = "firstRead"
                   /\ HoldsParameterSets(size)
                   /\ Received(size)
                   /\ announced' = TRUE
                   /\ lpc' = "sendFirst"
                   /\ UNCHANGED <<mode, ownerVars, started, eos, msgs, sourceOn,
                                  seqNo, sent>>

\* The buffers that are sent: any of H.264, for the start code is looked for
\* after the test for an empty buffer; an H.263 picture with its two zeros;
\* AMR frames that fit into a packet.
Accepted(size) == CASE mode = "H264" -> TRUE
                    [] mode = "H263" -> size >= 2
                    [] mode = "AMR" -> size > 0 /\ size + 13 <= Capacity

Read(size) == /\ lpc = "read"
              /\ Accepted(size)
              /\ Received(size)
              /\ lpc' = IF HasPackets(size) THEN "send" ELSE "post"
              /\ UNCHANGED <<mode, ownerVars, started, eos, msgs, sourceOn,
                             announced, seqNo, sent>>

\* An empty buffer is released and not sent.
ReadNothing == /\ lpc = "read"
               /\ lpc' = "post"
               /\ UNCHANGED <<mode, ownerVars, started, eos, msgs, readVars,
                              sendVars>>

\* onRead(): the source has ended or failed; nothing is read any more.
ReadEOS == /\ lpc = "read"
           /\ eos' = TRUE
           /\ lpc' = "idle"
           /\ UNCHANGED <<mode, ownerVars, started, msgs, readVars, sendVars>>

-----------------------------------------------------------------------------
(* sendAVCData(), sendH263Data(), sendAMRData(): one packet.               *)

Alone(size) == mode = "AMR" \/ (mode = "H264" /\ size + 12 <= Capacity)

\* What a packet that is one of several carries at most.
Rest == Size - offset
LastFits == Rest + 12 + 2 <= Capacity
Length == IF LastFits THEN Rest ELSE Capacity - 12 - 2

Packet(first, last, from, to) ==
    [seq |-> seqNo, frame |-> Len(frames), first |-> first, last |-> last,
     from |-> from, to |-> to]

AfterPacket(lastOne) ==
    IF ~lastOne THEN lpc
                ELSE IF lpc = "sendFirst" THEN "setStarted" ELSE "post"

SendAlone == /\ lpc \in {"sendFirst", "send"}
             /\ Alone(Size)
             /\ sent' = Append(sent, Packet(TRUE, TRUE, 0, Size))
             /\ offset' = Size
             /\ seqNo' = (seqNo + 1) % WireMod
             /\ lpc' = AfterPacket(TRUE)
             /\ UNCHANGED <<mode, ownerVars, started, eos, msgs, readVars>>

SendFragment == /\ lpc \in {"sendFirst", "send"}
                /\ ~Alone(Size)
                /\ sent' = Append(sent, Packet(offset = Skipped(Size), LastFits,
                                               offset, offset + Length))
                /\ offset' = offset + Length
                /\ seqNo' = (seqNo + 1) % WireMod
                /\ lpc' = AfterPacket(offset + Length >= Size)
                /\ UNCHANGED <<mode, ownerVars, started, eos, msgs, readVars>>

-----------------------------------------------------------------------------

\* kWhatStart: the flag start() waits for is set under mLock, and signalled.
SetStarted == /\ lpc = "setStarted"
              /\ started' = TRUE
              /\ lpc' = "postFirst"
              /\ UNCHANGED <<mode, ownerVars, eos, msgs, readVars, sendVars>>

PostFirst == /\ lpc = "postFirst"
             /\ msgs' = IF registered THEN msgs \o <<"read", "sendSR">> ELSE msgs
             /\ lpc' = "idle"
             /\ UNCHANGED <<mode, ownerVars, started, eos, readVars, sendVars>>

\* onRead(): msg->post().
PostRead == /\ lpc = "post"
            /\ msgs' = Posted("read")
            /\ lpc' = "idle"
            /\ UNCHANGED <<mode, ownerVars, started, eos, readVars, sendVars>>

\* The assertions that end the process: the source does not start, has no
\* parameter sets or does not stop; a buffer is not accepted; a datagram
\* cannot be sent; dumpSessionDesc(), that runs before kFlagStarted is set,
\* does not find in the source's format what it describes.
Abort == /\ \/ lpc = "idle" /\ msgs # <<>> /\ Head(msgs) = "start"
            \/ lpc \in {"firstRead", "read", "sendFirst", "send", "setStarted"}
            \/ opc \in {"joined", "sourceStopped"}
         /\ lpc' = "aborted"
         /\ UNCHANGED <<mode, ownerVars, started, eos, msgs, readVars, sendVars>>

Looper == \/ \E m \in {"start", "read", "sendSR"} : Ignore(m)
          \/ HandleStart \/ HandleRead
          \/ SendAlone \/ SendFragment
          \/ SetStarted \/ PostFirst \/ PostRead

Source == \/ \E size \in Sizes : FirstRead(size) \/ Read(size)
          \/ ReadNothing \/ ReadEOS

Next == lpc # "aborted" /\ (Owner \/ Looper \/ Source \/ Abort)

Spec == Init /\ [][Next]_vars

\* Both threads run, and a source that is started answers a read.  Nobody has
\* to call start() or stop().
FairSpec == /\ Spec
            /\ WF_vars(StartReturns)
            /\ WF_vars(Join \/ StopSource \/ SendBye \/ StopReturns)
            /\ WF_vars(Looper)
            /\ WF_vars(Source)

-----------------------------------------------------------------------------
(* Properties.                                                             *)

PacketType == [seq : 0 .. WireMod - 1, frame : Nat, first : BOOLEAN,
               last : BOOLEAN, from : Nat, to : Nat]

Sending == lpc \in {"sendFirst", "send"}

\* Every variable has its type, a buffer is read before it is sent, and the
\* parameter sets of H.264 are announced before.
TypeOK == /\ mode \in Mode
          /\ opc \in {"created", "starting", "running", "joining", "joined",
                      "sourceStopped", "byeSent", "stopped"}
          /\ lpc \in {"idle", "firstRead", "sendFirst", "setStarted",
                      "postFirst", "read", "send", "post", "aborted"}
          /\ started \in BOOLEAN
          /\ eos \in BOOLEAN
          /\ registered \in BOOLEAN
          /\ sourceOn \in BOOLEAN
          /\ announced \in BOOLEAN
          /\ bye \in BOOLEAN
          /\ msgs \in Seq({"start", "read", "sendSR"})
          /\ frames \in Seq(Sizes)
          /\ offset \in Nat
          /\ seqNo \in 0 .. WireMod - 1
          /\ sent \in Seq(PacketType)
          /\ Sending => frames # <<>>
          /\ mode = "H264" /\ Sending => announced

\* The bytes in front of the payload.
HeaderSize(size) == IF mode = "AMR" THEN 13 ELSE IF Alone(size) THEN 12 ELSE 14

\* What a packet carries is a part of one buffer that fits into a datagram,
\* and its flags say whether it is the first or the last part.  A buffer that
\* was a start code only is sent as a packet that carries nothing.
Cut(p) == LET size == frames[p.frame] IN
          /\ p.frame \in DOMAIN frames
          /\ p.from < p.to \/ size = 0
          /\ p.to <= size
          /\ p.first <=> p.from = Skipped(size)
          /\ p.last <=> p.to = size
          /\ p.to - p.from + HeaderSize(size) <= Capacity
          /\ mode = "H264" /\ ~Alone(size) => ~(p.first /\ p.last)

\* q is the packet a receiver must expect after p.
Follows(q, p) == /\ q.seq = (p.seq + 1) % WireMod
                 /\ IF p.last THEN q.first /\ q.frame > p.frame
                              ELSE q.frame = p.frame /\ q.from = p.to

\* A receiver that loses nothing can put every buffer together again: the
\* packets are numbered without a gap, each continues the one before it where
\* that ended, and of every buffer read but the one being sent the last
\* packet was sent (sendAVCData(), sendH263Data(), sendAMRData()).
WholeFrames ==
    /\ \A i \in DOMAIN sent : Cut(sent[i])
    /\ \A i \in 2 .. Len(sent) : Follows(sent[i], sent[i - 1])
    /\ \A f \in DOMAIN frames :
          \/ ~HasPackets(frames[f])
          \/ f = Len(frames) /\ lpc \in {"sendFirst", "send", "aborted"}
          \/ \E i \in DOMAIN sent : sent[i].frame = f /\ sent[i].last

\* BYE ends the stream: no packet is sent after it, and the source is not read
\* once it was stopped (stop() releases the looper before it does either).
NothingAfterBye == [][/\ bye => sent' = sent
                      /\ frames' # frames => sourceOn]_vars

\* start() and stop() return, unless an assertion ends the process: the looper
\* sets kFlagStarted for the owner that waits, and its handler ends.
StartStopReturn ==
    /\ opc = "starting" ~> opc # "starting" \/ lpc = "aborted"
    /\ opc = "joining" ~> opc = "stopped" \/ lpc = "aborted"

=============================================================================
