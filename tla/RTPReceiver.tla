----------------------------- MODULE RTPReceiver -----------------------------
(***************************************************************************)
(* One received RTP stream: the UDP path that loses, reorders and repeats  *)
(* packets, DSPGARTPSource, which restores 32-bit sequence numbers and     *)
(* keeps a sorted queue, and the assemblers for H.264, H.263, AMR, MPEG-4  *)
(* and MP4A-LATM that make access units of it, giving up on a missing      *)
(* packet after 10 ms (src/jni/player/rtsp).  Everything runs on one       *)
(* looper: a packet that was queued is followed by the assembler's loop,   *)
(* one iteration per step.                                                 *)
(***************************************************************************)
EXTENDS Integers, Sequences, SequencesExt

CONSTANTS Streams,   \* what a sender may send: [format, packets]
          WireMod,   \* 2^16: sequence numbers on the wire
          WideMod,   \* 2^32: sequence numbers in the source
          FirstSeq,  \* the wire number of the first packet
          MaxLag,    \* bound on the reordering: how far a packet may fall behind
          Patience   \* 10 ms, in ticks

\* What a packet may be to its assembler.
Kinds == {"single", "torn", "bad", "start", "middle", "end"}
StreamType == [format : {"H264", "H263", "AMR", "MPEG4", "LATM"},
               packets : Seq([kind : Kinds, time : Int])]

\* H.264 alone has fragments, and the MP4A-LATM assembler does not look into
\* a packet.
Suits(kind, format) == \/ kind = "single"
                       \/ kind = "bad" /\ format # "LATM"
                       \/ format = "H264"

\* No stream is long enough to use up the numbers of the source.
ASSUME ReceiverAssumption ==
    /\ WireMod \in Nat \ {0}
    /\ WideMod \in Nat \ {0}
    /\ FirstSeq \in 0 .. WireMod - 1
    /\ Patience \in Nat
    /\ MaxLag \in Nat
    /\ Streams \subseteq StreamType
    /\ \A s \in Streams :
          /\ FirstSeq + Len(s.packets) + 2 * WireMod <= WideMod
          /\ \A k \in DOMAIN s.packets : Suits(s.packets[k].kind, s.format)

VARIABLES stream,    \* the stream this source receives
          sent,      \* how many of its packets were sent
          net,       \* packets in flight
          firstIn,   \* the first packet received; None if mNumBuffersReceived
                     \* is 0
          highest,   \* mHighestSeqNumber
          queue,     \* mQueue: sequence of [seq, n], n the packet
          numTimes,  \* mNumTimes
          pc,        \* "assembling" while in onPacketReceived(), "over"
                     \* once a CHECK has ended the process
          valid,     \* mNextExpectedSeqNoValid
          expected,  \* mNextExpectedSeqNo
          age,       \* since mFirstFailureTimeUs; NoFailure if that is -1
          nals,      \* mNALUnits or mPackets: the packets of each unit
          auTime,    \* mAccessUnitRTPTime
          damaged,   \* mAccessUnitDamaged
          units,     \* the access units posted: [nals, damaged]
          late,      \* history: packets that came after their turn
          astray     \* history: a packet came whose number on the wire does
                     \* not tell its place, see Strays

netVars == <<sent, net>>
sourceVars == <<firstIn, highest, numTimes>>
assemblyVars == <<valid, expected, nals, auTime, damaged, units>>
vars == <<stream, netVars, sourceVars, queue, pc, age, assemblyVars, late,
          astray>>

\* Packets are named by their place in the stream, from 0.
Length == Len(stream.packets)
Kind(n) == stream.packets[n + 1].kind
Time(n) == stream.packets[n + 1].time
WireSeq(n) == (FirstSeq + n) % WireMod

NoFailure == -1
None == -1

Received == firstIn # None

-----------------------------------------------------------------------------
(* Mutated forms of definitions below.                                     *)

AppendsPacket(seq, i) == i = Len(queue) + 1

AnyNumberContinues(q, i) == TRUE

ForgetsDamageAtOnce(n) == FALSE

StaysAtLastFragment(count) == expected + count - 1

-----------------------------------------------------------------------------
(* The network: UDP.                                                       *)

Send ==
    /\ pc = "idle"
    /\ sent < Length
    /\ \A n \in net : sent - n < MaxLag
    /\ sent' = sent + 1
    /\ net' = net \cup {sent}
    /\ UNCHANGED <<stream, sourceVars, queue, pc, age, assemblyVars, late,
                   astray>>

Lose(n) ==
    /\ pc = "idle"
    /\ net' = net \ {n}
    /\ UNCHANGED <<stream, sent, sourceVars, queue, pc, age, assemblyVars, late,
                   astray>>

-----------------------------------------------------------------------------
(* DSPGARTPSource.                                                         *)

AbsDiff(a, b) == IF a > b THEN a - b ELSE b - a

\* The 32-bit number for a wire number: of the three candidates the closest
\* to the highest received, in unsigned arithmetic.
Extended(seq) ==
    LET cycle == highest - (highest % WireMod)
        Candidate(k) == (cycle + k * WireMod + seq) % WideMod
        Diff(k) == AbsDiff(Candidate(k), highest)
    IN  CASE Diff(-1) <= Diff(0) /\ Diff(-1) <= Diff(1) -> Candidate(-1)
          [] Diff(1) <= Diff(0) /\ Diff(1) < Diff(-1) -> Candidate(1)
          [] OTHER -> Candidate(0)

Duplicate(seq) == \E i \in DOMAIN queue : queue[i].seq = seq

\* The queue is sorted by sequence number.
QueuedAt(seq, i) ==
    /\ \A j \in 1 .. i - 1 : queue[j].seq < seq
    /\ i <= Len(queue) => queue[i].seq > seq

\* queuePacket(): queued or, if it is there already, discarded.
QueuePacket(n, seq) ==
    /\ firstIn' = IF Received THEN firstIn ELSE n
    /\ highest' = IF ~Received \/ seq > highest THEN seq ELSE highest
    /\ late' = IF valid /\ seq < expected THEN late \cup {n} ELSE late
    /\ \/ /\ Duplicate(seq)
          /\ UNCHANGED <<queue, pc>>
       \/ /\ ~Duplicate(seq)
          /\ \E i \in 1 .. Len(queue) + 1 :
                /\ QueuedAt(seq, i)
                /\ queue' = InsertAt(queue, i, [seq |-> seq, n |-> n])
          /\ pc' = IF numTimes = 2 THEN "assembling" ELSE "idle"

\* From the place of a packet in the stream to its number in the source.
Shift == WireSeq(firstIn) - firstIn
Number(n) == n + Shift

\* A packet sent before the first one received, with a higher wire number: no
\* cycle is in front of that of the first one.
CrossesStart(n) == n < firstIn /\ WireSeq(n) > WireSeq(firstIn)

\* Half the numbers on the wire away from the newest, or more.
HalfAway(n) == 2 * AbsDiff(Number(n), highest) >= WireMod

\* The closest candidate need not be the packet's number.
Strays(n) == Received /\ (CrossesStart(n) \/ HalfAway(n))

\* processRTPPacket().  A packet may stay in flight: UDP can deliver it twice.
Deliver(n) ==
    /\ pc = "idle"
    /\ net' \in {net, net \ {n}}
    /\ QueuePacket(n, IF Received THEN Extended(WireSeq(n)) ELSE WireSeq(n))
    /\ astray' = (astray \/ Strays(n))
    /\ UNCHANGED <<stream, sent, numTimes, age, assemblyVars>>

\* The older of two times makes room.
TimesAfterUpdate == IF numTimes = 2 THEN 2 ELSE numTimes + 1

\* timeUpdate(): a sender report, or the faked ones.  Two establish the time.
TimeUpdate ==
    /\ pc = "idle"
    /\ numTimes' = TimesAfterUpdate
    /\ UNCHANGED <<stream, netVars, firstIn, highest, queue, pc, age,
                   assemblyVars, late, astray>>

-----------------------------------------------------------------------------
(* The assemblers: one call of assembleMore() and what onPacketReceived()  *)
(* does about its result.                                                  *)

\* The packets at the head of mQueue whose turn is over; they are erased.
Over(k) == /\ \A j \in 1 .. k : queue[j].seq < expected
           /\ k < Len(queue) => queue[k + 1].seq >= expected

Fresh == IF valid
         THEN SubSeq(queue, (CHOOSE k \in 0 .. Len(queue) : Over(k)) + 1, Len(queue))
         ELSE queue

\* The packet at the head of Fresh is the one that is expected.
HeadIsNext == Fresh # <<>> /\ (valid => Fresh[1].seq = expected)

\* All but AMR collect the packets of one time stamp.
Collects == stream.format # "AMR"

\* submitAccessUnit() once a packet of another time stamp comes.
Submits(n) == nals # <<>> /\ Time(n) # auTime

DamagedAfterSubmit(n) == damaged /\ ~Submits(n)

\* The MP4A-LATM assembler copies each packet of a unit over the one before,
\* and then takes the framing off: nothing is left of a unit of several
\* packets, or of one with a packet missing.
Garbles ==
    /\ stream.format = "LATM"
    /\ \/ Len(nals) > 1
       \/ \E n \in 0 .. Length - 1 : Time(n) = auTime /\ nals # << <<n>> >>

Collected == [nals |-> IF Garbles THEN <<>> ELSE nals, damaged |-> damaged]

\* addSingleNALUnit(): the NAL unit made of the first count packets.
AddUnit(count) ==
    /\ auTime' = Time(Fresh[1].n)
    /\ LET unit == [i \in 1 .. count |-> Fresh[i].n]
       IN  nals' = IF Submits(Fresh[1].n) THEN <<unit>> ELSE Append(nals, unit)
    /\ units' = IF Submits(Fresh[1].n)
                THEN Append(units, Collected)
                ELSE units

NumberAfter(count) == (Fresh[1].seq + count) % WideMod

\* The first count packets leave the queue.
Consume(count) ==
    /\ queue' = SubSeq(Fresh, count + 1, Len(Fresh))
    /\ valid' = TRUE
    /\ expected' = NumberAfter(count)

Continues == /\ age' = NoFailure
             /\ UNCHANGED pc

assemblyFrame == <<stream, netVars, sourceVars, late, astray>>

\* OK: a packet that stands for itself.
AddSingle ==
    /\ HeadIsNext
    /\ Kind(Fresh[1].n) = "single"
    /\ AddUnit(1)
    /\ damaged' = DamagedAfterSubmit(Fresh[1].n)
    /\ Consume(1)
    /\ Continues

\* A whole NAL unit, or an H.263 packet.
AddPacket == stream.format \in {"H264", "H263"} /\ AddSingle

\* A packet of an elementary stream, or the access units in a generic one.
AddMPEG4Packet == stream.format = "MPEG4" /\ AddSingle

AddLATMPacket == stream.format = "LATM" /\ AddSingle

\* OK: every AMR packet makes an access unit.
AddAMRPacket ==
    /\ HeadIsNext
    /\ stream.format = "AMR"
    /\ Kind(Fresh[1].n) = "single"
    /\ units' = Append(units, [nals |-> << <<Fresh[1].n>> >>,
                               damaged |-> FALSE])
    /\ Consume(1)
    /\ Continues
    /\ UNCHANGED <<nals, auTime, damaged>>

\* MALFORMED_PACKET: a packet of no use, or in H.264 a fragment of a NAL unit
\* whose start is missing.
DropMalformed ==
    /\ HeadIsNext
    /\ stream.format \in {"H264", "AMR"}
    /\ Kind(Fresh[1].n) \in {"bad", "middle", "end"}
    /\ damaged' = Collects
    /\ Consume(1)
    /\ Continues
    /\ UNCHANGED <<nals, auTime, units>>

\* H.263 looks at the time stamp before it finds the packet too short.
DropMalformedH263 ==
    /\ HeadIsNext
    /\ stream.format = "H263"
    /\ Kind(Fresh[1].n) = "bad"
    /\ LET n == Fresh[1].n
       IN  /\ auTime' = Time(n)
           /\ nals' = IF Submits(n) THEN <<>> ELSE nals
           /\ units' = IF Submits(n)
                       THEN Append(units, Collected)
                       ELSE units
    /\ damaged' = TRUE
    /\ Consume(1)
    /\ Continues

\* STAP-A with a truncated unit: those in front of it are kept.
AddTorn ==
    /\ HeadIsNext
    /\ Kind(Fresh[1].n) = "torn"
    /\ AddUnit(1)
    /\ damaged' = TRUE
    /\ Consume(1)
    /\ Continues

\* FU-A: q[1] starts a NAL unit; q[i] is next in line.
Continuous(q, i) == q[i].seq = q[1].seq + i - 1

\* It neither ends nor breaks the unit.
Fragment(q, i) == Continuous(q, i) /\ Kind(q[i].n) = "middle"

StartsFragments == HeadIsNext /\ Kind(Fresh[1].n) = "start"

\* The place where the run of fragments stops.
RunStops(i) == /\ i \in 2 .. Len(Fresh) + 1
               /\ \A j \in 2 .. i - 1 : Fragment(Fresh, j)
               /\ i <= Len(Fresh) => ~Fragment(Fresh, i)

\* OK: all the fragments of a NAL unit are here.
AddFragmented ==
    /\ StartsFragments
    /\ \E i \in 2 .. Len(Fresh) :
          /\ RunStops(i)
          /\ Continuous(Fresh, i)
          /\ Kind(Fresh[i].n) = "end"
          /\ AddUnit(i)
          /\ Consume(i)
    /\ damaged' = DamagedAfterSubmit(Fresh[1].n)
    /\ Continues

\* A packet that does not continue the NAL unit: all of them are deleted.
DropFragments ==
    /\ StartsFragments
    /\ \E i \in 2 .. Len(Fresh) :
          /\ RunStops(i)
          /\ Continuous(Fresh, i)
          /\ Kind(Fresh[i].n) \notin {"middle", "end"}
          /\ Consume(i)
    /\ damaged' = TRUE
    /\ Continues
    /\ UNCHANGED <<nals, auTime, units>>

\* NOT_ENOUGH_DATA: the loop ends.
NotEnoughData ==
    /\ \/ /\ Fresh = <<>>
          /\ UNCHANGED <<valid, expected>>
       \/ /\ StartsFragments
          /\ RunStops(Len(Fresh) + 1)
          /\ valid' = TRUE
          /\ expected' = Fresh[1].seq
    /\ queue' = Fresh
    /\ age' = NoFailure
    /\ pc' = "idle"
    /\ UNCHANGED <<nals, auTime, damaged, units>>

\* WRONG_SEQUENCE_NUMBER: a packet is missing, before the head of the queue
\* or among its fragments.
WrongSequence ==
    \/ Fresh # <<>> /\ ~HeadIsNext
    \/ /\ StartsFragments
       /\ \E i \in 2 .. Len(Fresh) :
             RunStops(i) /\ ~Continuous(Fresh, i)

WaitForMissing ==
    /\ WrongSequence
    /\ age <= Patience
    /\ age' = IF age = NoFailure THEN 0 ELSE age
    /\ queue' = Fresh
    /\ valid' = TRUE
    /\ expected' = IF valid THEN expected ELSE Fresh[1].seq
    /\ pc' = "idle"
    /\ UNCHANGED <<nals, auTime, damaged, units>>

\* packetLost()
GiveUpMissing ==
    /\ WrongSequence
    /\ age > Patience
    /\ queue' = Fresh
    /\ expected' = (expected + 1) % WideMod
    /\ damaged' = Collects
    /\ Continues
    /\ UNCHANGED <<valid, nals, auTime, units>>

\* CHECKs of the assemblers that end the process.
AssertionFails ==
    /\ pc' = "over"
    /\ UNCHANGED <<queue, age, assemblyVars>>

MalformedFails(format) ==
    /\ HeadIsNext
    /\ stream.format = format
    /\ Kind(Fresh[1].n) = "bad"
    /\ AssertionFails

\* The lengths in a generic packet do not add up.
MPEG4AssertionFails == MalformedFails("MPEG4")

\* Some malformed packets are found by a CHECK of the payload header, not
\* by their length.
H263AssertionFails == MalformedFails("H263")

AMRAssertionFails == MalformedFails("AMR")

\* The lengths in the framing of an access unit do not add up: its packets
\* were copied over each other, one is missing, or the sender was wrong.
LATMAssertionFails ==
    /\ HeadIsNext
    /\ stream.format = "LATM"
    /\ Submits(Fresh[1].n)
    /\ AssertionFails

Assemble ==
    /\ pc = "assembling"
    /\ UNCHANGED assemblyFrame
    /\ \/ AddPacket \/ AddMPEG4Packet \/ AddLATMPacket \/ AddAMRPacket
       \/ MPEG4AssertionFails \/ H263AssertionFails \/ AMRAssertionFails
       \/ LATMAssertionFails
       \/ DropMalformed \/ DropMalformedH263 \/ AddTorn \/ AddFragmented
       \/ DropFragments \/ NotEnoughData \/ WaitForMissing \/ GiveUpMissing

\* Time since the first failure, as far as the 10 ms can tell.
Tick ==
    /\ pc # "over"
    /\ age \in 0 .. Patience
    /\ age' = age + 1
    /\ UNCHANGED <<stream, netVars, sourceVars, queue, pc, assemblyVars, late,
                   astray>>

-----------------------------------------------------------------------------

Init ==
    /\ stream \in Streams
    /\ sent = 0
    /\ net = {}
    /\ firstIn = None
    /\ highest = 0
    /\ queue = <<>>
    /\ numTimes = 0
    /\ pc = "idle"
    /\ valid = FALSE
    /\ expected = 0
    /\ age = NoFailure
    /\ nals = <<>>
    /\ auTime = 0
    /\ damaged = FALSE
    /\ units = <<>>
    /\ late = {}
    /\ astray = FALSE

Next ==
    \/ Send
    \/ \E n \in net : Lose(n) \/ Deliver(n)
    \/ TimeUpdate
    \/ Assemble
    \/ Tick

Spec == Init /\ [][Next]_vars

-----------------------------------------------------------------------------
(* Properties.                                                             *)

\* The NAL units in the access units posted and in the one being collected.
NALUnits == ToSet(nals) \cup UNION {ToSet(units[k].nals) : k \in DOMAIN units}

\* Packets of NAL unit u come before those of v, of list us before those of vs.
AllBefore(u, v) == \A p \in ToSet(u), q \in ToSet(v) : p < q
Precede(us, vs) == \A u \in ToSet(us), v \in ToSet(vs) : AllBefore(u, v)
InSequence(us) == \A i, j \in DOMAIN us : i < j => AllBefore(us[i], us[j])

\* Access units carry what was sent in the order it was sent, and nothing
\* twice: within NAL units, between those of an access unit, and between
\* access units.
Ordered ==
    /\ \A u \in NALUnits : \A i, j \in DOMAIN u : i < j => u[i] < u[j]
    /\ InSequence(nals)
    /\ \A k \in DOMAIN units :
          /\ InSequence(units[k].nals)
          /\ Precede(units[k].nals, nals)
          /\ \A l \in DOMAIN units : k < l => Precede(units[k].nals, units[l].nals)

\* They do so until a packet comes that is half the numbers on the wire away
\* from the newest, or that was sent before the first one received and across
\* a wrap.  queuePacket() gives such a packet the number of another place (of
\* the latter, a cycle too high), and nothing after it finds that out: units
\* out of order, or one twice, are then what the code makes.  The same is
\* excepted in the properties that follow.
InOrder == astray \/ Ordered

\* A NAL unit is put together from all of its fragments and nothing else: a
\* lost fragment never splices two of them, nor leaves a gap in one.
IsWhole(u) ==
    \/ Len(u) = 1 /\ Kind(u[1]) \in {"single", "torn"}
    \/ /\ Len(u) > 1
       /\ \A i \in DOMAIN u :
             /\ u[i] = u[1] + i - 1
             /\ Kind(u[i]) = CASE i = 1 -> "start"
                               [] i = Len(u) -> "end"
                               [] OTHER -> "middle"

AllWhole == \A u \in NALUnits : IsWhole(u)

WholeUnits == astray \/ AllWhole

\* What is missing is never passed over in silence: a hole inside a video
\* access unit marks it damaged, a hole between two marks one of them (the
\* one that was being collected when the hole was noticed).  LATM units are
\* garbled without a mark, and AMR has none.
Joined(u, v) == u[Len(u)] + 1 = v[1]
Contiguous(us) == \A i \in 1 .. Len(us) - 1 : Joined(us[i], us[i + 1])

Marked ==
    stream.format \notin {"AMR", "LATM"} =>
        /\ \A k \in DOMAIN units : Contiguous(units[k].nals) \/ units[k].damaged
        /\ \A k \in 1 .. Len(units) - 1 :
             \/ Joined(Last(units[k].nals), Head(units[k + 1].nals))
             \/ units[k].damaged
             \/ units[k + 1].damaged

HolesMarked == astray \/ Marked

\* A packet that came in time and stands for itself gets into an access unit,
\* however many around it are lost, late, repeated or malformed, and what is
\* in one stays in it until it is posted.  Excepted are the MP4A-LATM units
\* that submitAccessUnit() garbles: what was collected for those is lost.
Used == UNION {ToSet(u) : u \in NALUnits}

KeepsPackets ==
    /\ \A p \in ToSet(queue) \ ToSet(queue') :
          Kind(p.n) = "single" => p.n \in Used' \/ p.n \in late
    /\ Used \subseteq Used' \/ Garbles

NothingWasted == [][astray' \/ KeepsPackets]_vars

=============================================================================
