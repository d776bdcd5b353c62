---------------------------- MODULE SenderProofs ----------------------------
(***************************************************************************)
(* Proofs about the sending side of a call.  What Streamer promises holds  *)
(* for any capacity of a packet, any lengths of the buffers and any width  *)
(* of the sequence numbers; what CallControls promises, whose names all    *)
(* differ, for any qualities, any values of uninitialised memory and any   *)
(* number of calls, frames and readings.                                   *)
(***************************************************************************)
EXTENDS Streamer, CallControls, TLAPS

-----------------------------------------------------------------------------
(* The streamer: its inductive invariant.                                  *)

\* H.264 gets beyond its first read only by announcing the parameter sets.
Announced ==
    mode = "H264" =>
        \/ announced
        \/ ~started /\ lpc \in {"idle", "firstRead", "aborted"}

\* How far the buffer being sent has got: nothing of it is sent yet, or the
\* last packet sent ends where the next one begins.
Reached ==
    /\ Accepted(Size)
    /\ HasPackets(Size)
    /\ offset \in Skipped(Size) .. Size - 1 \/ (Size = 0 /\ Alone(0) /\ offset = 0)
    /\ Alone(Size) => offset = Skipped(Size)
    /\ IF offset = Skipped(Size)
         THEN sent # <<>> => (/\ sent[Len(sent)].last
                              /\ sent[Len(sent)].frame < Len(frames))
         ELSE /\ sent # <<>>
              /\ sent[Len(sent)].frame = Len(frames)
              /\ ~sent[Len(sent)].last
              /\ sent[Len(sent)].to = offset

Progress ==
    /\ lpc = "firstRead" => mode = "H264"
    /\ Sending => Reached
    /\ ~Sending /\ lpc # "aborted" /\ sent # <<>> => sent[Len(sent)].last

\* The next packet gets the number after the last one's.
Numbered == sent # <<>> => seqNo = (sent[Len(sent)].seq + 1) % WireMod

\* After the join nothing is left to handle; the looper only works on a source
\* that is started.
Joined == {"joined", "sourceStopped", "byeSent", "stopped"}

Stopping ==
    /\ opc \in Joined \cup {"created"} =>
          msgs = <<>> /\ lpc \in {"idle", "aborted"}
    /\ bye => opc \in {"byeSent", "stopped"}
    /\ lpc \notin {"idle", "aborted"} => sourceOn
    /\ started => sourceOn \/ opc \in Joined

IInv == TypeOK /\ Announced /\ WholeFrames /\ Progress /\ Numbered
        /\ Stopping
-----------------------------------------------------------------------------
(* Types.                                                                  *)

LEMMA InitTypes == Init => TypeOK
<1> SUFFICES ASSUME Init PROVE TypeOK
  OBVIOUS
<1>1. /\ msgs \in Seq({"start", "read", "sendSR"})
      /\ frames \in Seq(Sizes)
      /\ sent \in Seq(PacketType)
  BY DEF Init
<1> QED
  BY <1>1 DEF Init, TypeOK, Sending

\* What the looper and start() post are messages.
LEMMA PostedTypes ==
  ASSUME TypeOK
  PROVE  /\ \A m \in {"start", "read", "sendSR"} :
              Posted(m) \in Seq({"start", "read", "sendSR"})
         /\ msgs \o <<"read", "sendSR">> \in Seq({"start", "read", "sendSR"})
<1> DEFINE M == {"start", "read", "sendSR"}
<1>1. msgs \in Seq(M)
  BY DEF TypeOK
<1>2. <<"read", "sendSR">> \in Seq(M)
  OBVIOUS
<1>3. \A m \in M : Append(msgs, m) \in Seq(M)
  BY <1>1
<1>4. msgs \o <<"read", "sendSR">> \in Seq(M)
  <2> HIDE DEF M
  <2> QED
    BY <1>1, <1>2
<1> QED
  BY <1>1, <1>3, <1>4 DEF Posted

\* The sequence number stays on the wire's scale.
LEMMA NextNumber ==
  ASSUME seqNo \in 0 .. WireMod - 1
  PROVE  (seqNo + 1) % WireMod \in 0 .. WireMod - 1
BY StreamerAssumption

\* What goes before the payload of a buffer is no more than two bytes of it.
LEMMA SkippedType ==
  ASSUME TypeOK, NEW size
  PROVE  Skipped(size) \in {0, 1, 2}
<1>1. mode \in {"H264", "H263", "AMR"}
  BY StreamerAssumption DEF TypeOK
<1> QED
  BY <1>1 DEF Skipped

\* The buffers read are a sequence of lengths, and the last one is one.
LEMMA FramesTypes ==
  ASSUME TypeOK
  PROVE  /\ Len(frames) \in Nat
         /\ frames # <<>> => Len(frames) > 0 /\ Size \in Nat
         /\ \A size \in Sizes : Append(frames, size) \in Seq(Sizes)
<1>1. frames \in Seq(Sizes)
  BY DEF TypeOK
<1>2. ASSUME frames # <<>>
      PROVE  Len(frames) > 0 /\ frames[Len(frames)] \in Sizes
  BY <1>1, <1>2
<1>3. frames # <<>> => Len(frames) > 0 /\ Size \in Nat
  BY <1>2, StreamerAssumption DEF Size
<1>4. Len(frames) \in Nat /\ \A size \in Sizes : Append(frames, size) \in Seq(Sizes)
  BY <1>1
<1> QED
  BY <1>3, <1>4

\* The packets sent stay packets.
LEMMA PacketTypes ==
  ASSUME TypeOK, NEW first \in BOOLEAN, NEW last \in BOOLEAN,
         NEW from \in Nat, NEW to \in Nat
  PROVE  Append(sent, Packet(first, last, from, to)) \in Seq(PacketType)
<1>1. Packet(first, last, from, to) \in PacketType
  BY FramesTypes DEF TypeOK, Packet, PacketType
<1> QED
  BY <1>1 DEF TypeOK

\* The parts of TypeOK that are types in the narrow sense are preserved; what
\* it says of the sender follows from Announced and the guards.
LEMMA TypesKept ==
  ASSUME TypeOK, Announced, Next
  PROVE  TypeOK'
<1> USE StreamerAssumption
<1> USE PostedTypes DEF TypeOK, Sending
<1>1. CASE Start
  BY <1>1 DEF Start, ownerVars, readVars, sendVars
<1>2. CASE StartReturns
  BY <1>2 DEF StartReturns, ownerVars, readVars, sendVars
<1>3. CASE StopUnstarted
  BY <1>3 DEF StopUnstarted, ownerVars, readVars, sendVars
<1>4. CASE Unregister
  BY <1>4 DEF Unregister, StillRegistered, ownerVars, readVars, sendVars
<1>5. CASE Join
  BY <1>5 DEF Join, ownerVars, readVars, sendVars
<1>6. CASE StopSource
  BY <1>6 DEF StopSource, ownerVars, readVars, sendVars
<1>7. CASE SendBye
  BY <1>7 DEF SendBye, ownerVars, readVars, sendVars
<1>8. CASE StopReturns
  BY <1>8 DEF StopReturns, ownerVars, readVars, sendVars
<1>9. ASSUME NEW m \in {"start", "read", "sendSR"}, Ignore(m)
      PROVE  TypeOK'
  BY <1>9 DEF Ignore, Delivered, ownerVars, readVars, sendVars
<1>10. CASE HandleStart
  BY <1>10 DEF HandleStart, Delivered, AfterSourceStart, ownerVars, sendVars
<1>11. CASE HandleRead
  BY <1>11 DEF HandleRead, Delivered, ownerVars, readVars, sendVars
<1>12. ASSUME NEW size \in Sizes, FirstRead(size)
       PROVE  TypeOK'
  <2>1. frames' \in Seq(Sizes) /\ frames' # <<>> /\ offset' \in Nat
    BY <1>12, FramesTypes, SkippedType DEF FirstRead, Received
  <2> QED
    BY <1>12, <2>1 DEF FirstRead, ownerVars
<1>13. ASSUME NEW size \in Sizes, Read(size)
       PROVE  TypeOK'
  <2>1. frames' \in Seq(Sizes) /\ frames' # <<>> /\ offset' \in Nat
    BY <1>13, FramesTypes, SkippedType DEF Read, Received
  <2> QED
    BY <1>13, <2>1 DEF Read, Announced, ownerVars
<1>14. CASE ReadNothing
  BY <1>14 DEF ReadNothing, ownerVars, readVars, sendVars
<1>15. CASE ReadEOS
  BY <1>15 DEF ReadEOS, ownerVars, readVars, sendVars
<1>16. CASE SendAlone
  <2>1. sent' \in Seq(PacketType) /\ offset' \in Nat
    BY <1>16, PacketTypes, FramesTypes DEF SendAlone
  <2>2. seqNo' \in 0 .. WireMod - 1
    BY <1>16, NextNumber DEF SendAlone
  <2> QED
    BY <1>16, <2>1, <2>2 DEF SendAlone, AfterPacket, ownerVars, readVars
<1>17. CASE SendFragment
  <2>1. offset + Length \in Nat
    BY <1>17, FramesTypes DEF SendFragment, Length, LastFits, Rest
  <2>2. LastFits \in BOOLEAN /\ (offset = Skipped(Size)) \in BOOLEAN
    BY DEF LastFits
  <2>3. sent' \in Seq(PacketType) /\ offset' \in Nat
    BY <1>17, <2>1, <2>2, PacketTypes DEF SendFragment
  <2>4. seqNo' \in 0 .. WireMod - 1
    BY <1>17, NextNumber DEF SendFragment
  <2> QED
    BY <1>17, <2>3, <2>4 DEF SendFragment, AfterPacket, ownerVars, readVars
<1>18. CASE SetStarted
  BY <1>18 DEF SetStarted, ownerVars, readVars, sendVars
<1>19. CASE PostFirst
  BY <1>19 DEF PostFirst, ownerVars, readVars, sendVars
<1>20. CASE PostRead
  BY <1>20 DEF PostRead, ownerVars, readVars, sendVars
<1>21. CASE Abort
  BY <1>21 DEF Abort, ownerVars, readVars, sendVars
<1> QED
  BY <1>1, <1>2, <1>3, <1>4, <1>5, <1>6, <1>7, <1>8, <1>9, <1>10, <1>11, <1>12,
     <1>13, <1>14, <1>15, <1>16, <1>17, <1>18, <1>19, <1>20, <1>21
  DEF Next, Owner, Looper, Source

-----------------------------------------------------------------------------
(* What the packets say.                                                   *)

\* A step that neither reads nor sends keeps them, if it leaves the sender
\* where it is or finds it out of work.
LEMMA QuietKeeps ==
  ASSUME IInv,
         UNCHANGED <<mode, frames, offset, seqNo, sent>>,
         lpc' = "firstRead" => mode = "H264",
         \/ lpc' \in {lpc, "aborted"}
         \/ ~Sending /\ lpc # "aborted" /\ ~Sending'
  PROVE  WholeFrames' /\ Progress' /\ Numbered'
<1> USE DEF IInv
<1>1. ASSUME NEW size
      PROVE  /\ Skipped(size)' = Skipped(size) /\ Alone(size)' = Alone(size)
             /\ HeaderSize(size)' = HeaderSize(size)
             /\ HasPackets(size)' = HasPackets(size)
             /\ Accepted(size)' = Accepted(size)
  BY DEF Skipped, Alone, HeaderSize, HasPackets, Accepted
<1>2. \A i \in DOMAIN sent : Cut(sent[i])'
  BY <1>1 DEF WholeFrames, Cut
<1>3. \A i \in 2 .. Len(sent) : Follows(sent[i], sent[i - 1])'
  BY DEF WholeFrames, Follows
<1>4. WholeFrames'
  BY <1>1, <1>2, <1>3 DEF WholeFrames, Sending
<1>5. Size' = Size
  BY DEF Size
<1>6. Reached => Reached'
  BY <1>1, <1>5 DEF Reached
<1>7. Progress'
  BY <1>6 DEF Progress, Sending
<1>8. Numbered'
  BY DEF Numbered
<1> QED
  BY <1>4, <1>7, <1>8

\* A buffer is read when the one before it was sent.
LEMMA ReceiveKeeps ==
  ASSUME IInv, TypeOK', NEW size \in Sizes,
         Received(size), Accepted(size),
         UNCHANGED <<mode, seqNo, sent>>,
         ~Sending, lpc # "aborted",
         lpc' \in IF HasPackets(size) THEN {"sendFirst", "send"} ELSE {"post"}
  PROVE  WholeFrames' /\ Progress' /\ Numbered'
<1> USE DEF IInv
<1>1. ASSUME NEW n
      PROVE  /\ Skipped(n)' = Skipped(n) /\ Alone(n)' = Alone(n)
             /\ HeaderSize(n)' = HeaderSize(n)
             /\ HasPackets(n)' = HasPackets(n)
             /\ Accepted(n)' = Accepted(n)
  BY DEF Skipped, Alone, HeaderSize, HasPackets, Accepted
<1>2. /\ frames \in Seq(Sizes)
      /\ frames' = Append(frames, size)
      /\ sent \in Seq(PacketType)
      /\ offset' = Skipped(size)
  BY DEF TypeOK, Received
<1>3. /\ Len(frames) \in Nat /\ Len(frames') = Len(frames) + 1
      /\ DOMAIN frames' = 1 .. Len(frames) + 1
      /\ \A f \in DOMAIN frames : frames'[f] = frames[f]
      /\ Size' = size
  BY <1>2 DEF Size
<1>4. \A i \in DOMAIN sent : Cut(sent[i])'
  BY <1>1, <1>2, <1>3 DEF WholeFrames, Cut
<1>5. \A i \in 2 .. Len(sent) : Follows(sent[i], sent[i - 1])'
  BY DEF WholeFrames, Follows
<1>6. ASSUME NEW f \in DOMAIN frames'
      PROVE  (\/ ~HasPackets(frames[f])
              \/ f = Len(frames) /\ lpc \in {"sendFirst", "send", "aborted"}
              \/ \E i \in DOMAIN sent : sent[i].frame = f /\ sent[i].last)'
  <2>1. CASE f \in DOMAIN frames
    BY <2>1, <1>1, <1>3 DEF WholeFrames, Sending
  <2>2. CASE f = Len(frames) + 1
    BY <2>2, <1>1, <1>3, <1>2
  <2> QED
    BY <2>1, <2>2, <1>3, <1>2
<1>7. WholeFrames'
  BY <1>4, <1>5, <1>6 DEF WholeFrames
<1>8. sent # <<>> => /\ Len(sent) \in DOMAIN sent
                     /\ sent[Len(sent)].last
                     /\ sent[Len(sent)].frame \in DOMAIN frames
  BY <1>2 DEF Progress, WholeFrames, Cut
<1>9. ASSUME HasPackets(size)
      PROVE  \/ Skipped(size) \in Skipped(size) .. size - 1
             \/ size = 0 /\ Alone(0) /\ Skipped(size) = 0
  <2>1. size \in Nat /\ mode \in {"H264", "H263", "AMR"}
    BY StreamerAssumption DEF TypeOK
  <2>2. CASE size > 0
    BY <1>9, <2>1, <2>2, StreamerAssumption DEF Skipped, HasPackets
  <2>3. CASE size = 0
    BY <1>9, <2>1, <2>3, StreamerAssumption
    DEF Skipped, HasPackets, Accepted, Alone
  <2> QED
    BY <2>1, <2>2, <2>3
<1>10. HasPackets(size) => Reached'
  BY <1>1, <1>2, <1>3, <1>8, <1>9 DEF Reached
<1>11. Progress'
  BY <1>10, <1>8 DEF Progress, Sending
<1>12. Numbered'
  BY DEF Numbered
<1> QED
  BY <1>7, <1>11, <1>12

\* A packet that continues where the last one ended, and is the last one of
\* its buffer if it reaches the end of it.
LEMMA SendKeeps ==
  ASSUME IInv, TypeOK', Sending,
         NEW to \in Nat, offset < to \/ Size = 0, to <= Size,
         to - offset + HeaderSize(Size) <= Capacity,
         Alone(Size) => to = Size,
         mode = "H264" /\ ~Alone(Size) => ~(offset = Skipped(Size) /\ to = Size),
         sent' = Append(sent, Packet(offset = Skipped(Size), to = Size, offset, to)),
         offset' = to,
         seqNo' = (seqNo + 1) % WireMod,
         UNCHANGED <<mode, frames>>,
         lpc' = AfterPacket(to = Size)
  PROVE  WholeFrames' /\ Progress' /\ Numbered'
<1> USE DEF IInv
<1>p. PICK p : p = Packet(offset = Skipped(Size), to = Size, offset, to)
  OBVIOUS
<1>n. PICK n : n = Len(sent)
  OBVIOUS
<1>1. ASSUME NEW size
      PROVE  /\ Skipped(size)' = Skipped(size) /\ Alone(size)' = Alone(size)
             /\ HeaderSize(size)' = HeaderSize(size)
             /\ HasPackets(size)' = HasPackets(size)
             /\ Accepted(size)' = Accepted(size)
  BY DEF Skipped, Alone, HeaderSize, HasPackets, Accepted
<1>2. /\ frames \in Seq(Sizes) /\ frames # <<>>
      /\ sent \in Seq(PacketType)
      /\ Len(frames) \in Nat /\ Len(frames) \in DOMAIN frames
      /\ Size \in Nat /\ offset \in Nat
      /\ Skipped(Size) \in {0, 1, 2}
  BY FramesTypes, SkippedType DEF TypeOK
<1>3. /\ p.seq = seqNo /\ p.frame = Len(frames)
      /\ p.first = (offset = Skipped(Size)) /\ p.last = (to = Size)
      /\ p.from = offset /\ p.to = to
  BY <1>p DEF Packet
<1>4. /\ n \in Nat /\ DOMAIN sent = 1 .. n
      /\ Len(sent') = n + 1 /\ DOMAIN sent' = 1 .. n + 1
      /\ sent'[n + 1] = p
      /\ \A i \in 1 .. n : sent'[i] = sent[i]
  <2>1. sent' = Append(sent, p)
    BY <1>p
  <2> QED
    BY <2>1, <1>2, <1>n
<1>5. Reached
  BY DEF Progress
<1>6. Size' = Size
  BY DEF Size
<1>7. Cut(p)'
  <2>1. p.frame \in DOMAIN frames /\ frames[p.frame] = Size
    BY <1>2, <1>3 DEF Size
  <2> QED
    BY <2>1, <1>1, <1>2, <1>3 DEF Cut
<1>8. \A i \in DOMAIN sent' : Cut(sent[i])'
  <2>1. \A i \in 1 .. n : Cut(sent[i])'
    BY <1>1, <1>4, <1>n DEF WholeFrames, Cut
  <2> QED
    BY <2>1, <1>4, <1>7
<1>9. n > 0 => Follows(p, sent[n])
  <2> SUFFICES ASSUME n > 0
               PROVE  Follows(p, sent[n])
    OBVIOUS
  <2>1. sent # <<>>
    BY <1>2, <1>n
  <2>2. p.seq = (sent[n].seq + 1) % WireMod
    BY <2>1, <1>3, <1>n DEF Numbered
  <2> QED
    BY <2>1, <2>2, <1>3, <1>5, <1>2, <1>n DEF Follows, Reached
<1>10. \A i \in 2 .. Len(sent') : Follows(sent[i], sent[i - 1])'
  <2>1. \A i \in 2 .. n : Follows(sent[i], sent[i - 1])'
    BY <1>4, <1>n DEF WholeFrames, Follows
  <2>2. n > 0 => Follows(sent[n + 1], sent[n])'
    BY <1>4, <1>9 DEF Follows
  <2>3. ASSUME NEW i \in 2 .. Len(sent')
        PROVE  Follows(sent[i], sent[i - 1])'
    <3>1. CASE i \in 2 .. n
      BY <3>1, <2>1
    <3>2. CASE i = n + 1
      <4>1. n > 0 /\ i - 1 = n
        BY <3>2, <1>4
      <4> QED
        BY <4>1, <3>2, <2>2
    <3> QED
      BY <3>1, <3>2, <1>4
  <2> QED
    BY <2>3
<1>11. lpc' = IF to # Size THEN lpc
                ELSE IF lpc = "sendFirst" THEN "setStarted" ELSE "post"
  BY DEF AfterPacket
<1>12. ASSUME NEW f \in DOMAIN frames'
       PROVE  (\/ ~HasPackets(frames[f])
               \/ f = Len(frames) /\ lpc \in {"sendFirst", "send", "aborted"}
               \/ \E i \in DOMAIN sent : sent[i].frame = f /\ sent[i].last)'
  <2>1. CASE f = Len(frames) /\ to = Size
    <3>1. p.frame = f /\ p.last
      BY <2>1, <1>3
    <3>2. n + 1 \in DOMAIN sent' /\ sent'[n + 1].frame = f /\ sent'[n + 1].last
      BY <3>1, <1>4
    <3> QED
      BY <3>2
  <2>2. CASE f = Len(frames) /\ to # Size
    BY <2>2, <1>11 DEF Sending
  <2>3. CASE f # Len(frames)
    <3>1. \/ ~HasPackets(frames[f])
          \/ \E i \in DOMAIN sent : sent[i].frame = f /\ sent[i].last
      BY <2>3 DEF WholeFrames
    <3> QED
      BY <3>1, <1>1, <1>4
  <2> QED
    BY <2>1, <2>2, <2>3
<1>13. WholeFrames'
  BY <1>8, <1>10, <1>12 DEF WholeFrames
<1>14. /\ sent' # <<>>
       /\ sent'[Len(sent')] = p
  BY <1>2, <1>4, <1>n
<1>15. ASSUME to # Size
       PROVE  Reached'
  <2>1. PICK size : size = Size
    OBVIOUS
  <2>2. /\ Size' = size /\ Skipped(size)' = Skipped(size)
        /\ Accepted(size)' = Accepted(size)
        /\ HasPackets(size)' = HasPackets(size)
        /\ Alone(size)' = Alone(size)
    BY <1>1, <1>6, <2>1
  <2>3. ~p.last /\ p.frame = Len(frames) /\ p.to = to
    BY <1>3, <1>15
  <2>4. to \in Skipped(size) .. size - 1 /\ to # Skipped(size)
    BY <1>2, <1>5, <1>15, <2>1 DEF Reached
  <2>5. Accepted(size) /\ HasPackets(size) /\ ~Alone(size)
    BY <1>5, <1>15, <2>1 DEF Reached
  <2> QED
    BY <1>14, <2>2, <2>3, <2>4, <2>5 DEF Reached
<1>16. Progress'
  BY <1>3, <1>11, <1>14, <1>15 DEF Progress, Sending
<1>17. Numbered'
  BY <1>3, <1>14 DEF Numbered
<1> QED
  BY <1>13, <1>16, <1>17

\* A buffer that fits is sent whole.
LEMMA SendAloneKeeps ==
  ASSUME IInv, TypeOK', SendAlone
  PROVE  WholeFrames' /\ Progress' /\ Numbered'
<1>1. Sending /\ Alone(Size) /\ Reached
  BY DEF IInv, SendAlone, Sending, Progress
<1>2. mode \in {"H264", "H263", "AMR"} /\ Size \in Nat
  BY <1>1, FramesTypes, StreamerAssumption DEF IInv, TypeOK
<1>3. Skipped(Size) = 0 /\ Size + HeaderSize(Size) <= Capacity
  BY <1>1, <1>2, StreamerAssumption
  DEF Alone, Skipped, HeaderSize, Reached, Accepted
<1>4. offset = 0 /\ offset = Skipped(Size)
  BY <1>1, <1>3 DEF Reached
<1>5. sent' = Append(sent, Packet(offset = Skipped(Size), Size = Size, offset, Size))
  <2>1. (offset = Skipped(Size)) = TRUE /\ (Size = Size) = TRUE
    BY <1>4
  <2> QED
    BY <1>4, <2>1 DEF SendAlone
<1>6. lpc' = AfterPacket(Size = Size)
  <2>1. (Size = Size) = TRUE
    OBVIOUS
  <2> QED
    BY <2>1 DEF SendAlone
<1>7. /\ offset' = Size
      /\ seqNo' = (seqNo + 1) % WireMod
      /\ UNCHANGED <<mode, frames>>
  BY DEF SendAlone, readVars
<1> QED
  BY <1>1, <1>2, <1>3, <1>4, <1>5, <1>6, <1>7, SendKeeps

\* A fragment is not longer than what is left, and the last one takes it all.
LEMMA SendFragmentKeeps ==
  ASSUME IInv, TypeOK', SendFragment
  PROVE  WholeFrames' /\ Progress' /\ Numbered'
<1>1. Sending /\ ~Alone(Size) /\ Reached
  BY DEF IInv, SendFragment, Sending, Progress
<1>2. mode \in {"H264", "H263", "AMR"} /\ Size \in Nat /\ offset \in Nat
  BY <1>1, FramesTypes, StreamerAssumption DEF IInv, TypeOK
<1>3. offset < Size
  BY <1>1, <1>2, SkippedType DEF Reached, IInv
<1> DEFINE to == offset + Length
<1>4. /\ to \in Nat /\ offset < to /\ to <= Size /\ to - offset + 14 <= Capacity
      /\ LastFits <=> to = Size
  BY <1>2, <1>3, StreamerAssumption DEF Length, LastFits, Rest
<1>5. HeaderSize(Size) <= 14 /\ HeaderSize(Size) \in Nat
  BY DEF HeaderSize
<1>6. mode = "H264" => ~(offset = Skipped(Size) /\ to = Size)
  <2> SUFFICES ASSUME mode = "H264", offset = Skipped(Size)
               PROVE  to # Size
    OBVIOUS
  <2>1. offset = 1 /\ Size + 12 > Capacity
    BY <1>1, <1>2, StreamerAssumption DEF Alone, Skipped
  <2>2. ~LastFits
    BY <2>1, <1>2, StreamerAssumption DEF LastFits, Rest
  <2> QED
    BY <1>4, <2>2
<1>7. sent' = Append(sent, Packet(offset = Skipped(Size), to = Size, offset, to))
  <2>1. LastFits = (to = Size)
    BY <1>4 DEF LastFits
  <2> QED
    BY <2>1 DEF SendFragment
<1>8. lpc' = AfterPacket(to = Size)
  <2>1. (to >= Size) = (to = Size)
    BY <1>2, <1>4
  <2> QED
    BY <2>1 DEF SendFragment
<1>9. /\ offset' = to
      /\ seqNo' = (seqNo + 1) % WireMod
      /\ UNCHANGED <<mode, frames>>
  BY DEF SendFragment, readVars
<1>10. to - offset + HeaderSize(Size) <= Capacity
  BY <1>2, <1>4, <1>5, StreamerAssumption
<1> HIDE DEF to
<1> QED
  BY <1>1, <1>4, <1>6, <1>7, <1>8, <1>9, <1>10, SendKeeps

-----------------------------------------------------------------------------
(* What start() and stop() rely on.                                        *)

\* Nothing but the first read of H.264 leads the looper past kWhatStart.
LEMMA AnnouncedKept ==
  ASSUME IInv, Next
  PROVE  Announced'
<1> USE DEF IInv, TypeOK, Announced, Sending, ownerVars, readVars, sendVars
<1>1. CASE Owner
  BY <1>1 DEF Owner, Start, StartReturns, StopUnstarted, Unregister, Join,
              StopSource, SendBye, StopReturns
<1>2. CASE Looper
  BY <1>2 DEF Looper, Ignore, Delivered, HandleStart, HandleRead, SendAlone,
              SendFragment, SetStarted, PostFirst, PostRead, AfterSourceStart,
              AfterPacket
<1>3. CASE Source
  BY <1>3 DEF Source, FirstRead, Read, ReadNothing, ReadEOS
<1>4. CASE Abort
  BY <1>4 DEF Abort, Progress, Stopping
<1> QED
  BY <1>1, <1>2, <1>3, <1>4 DEF Next

\* The source is only stopped, and BYE only sent, when the looper has ended.
LEMMA StoppingKept ==
  ASSUME IInv, Next
  PROVE  Stopping'
<1> USE DEF IInv, TypeOK, Stopping, Joined, ownerVars, readVars, sendVars
<1>1. CASE Owner
  BY <1>1 DEF Owner, Start, StartReturns, StopUnstarted, Unregister, Join,
              StopSource, SendBye, StopReturns, HandlerReturned
<1>2. CASE Looper
  <2>1. ASSUME NEW m \in {"start", "read", "sendSR"}, Ignore(m)
        PROVE  Stopping'
    BY <2>1 DEF Ignore, Delivered
  <2>2. CASE HandleStart
    BY <2>2 DEF HandleStart, Delivered
  <2>3. CASE HandleRead
    BY <2>3 DEF HandleRead, Delivered
  <2>4. CASE SendAlone \/ SendFragment
    <3>1. /\ lpc \in {"sendFirst", "send"}
          /\ UNCHANGED <<opc, bye, started, msgs, sourceOn>>
      BY <2>4 DEF SendAlone, SendFragment
    <3> QED
      BY <3>1
  <2>5. CASE SetStarted \/ PostFirst \/ PostRead
    BY <2>5 DEF SetStarted, PostFirst, PostRead
  <2> QED
    BY <1>2, <2>1, <2>2, <2>3, <2>4, <2>5 DEF Looper
<1>3. CASE Source
  BY <1>3 DEF Source, FirstRead, Read, ReadNothing, ReadEOS
<1>4. CASE Abort
  BY <1>4 DEF Abort
<1> QED
  BY <1>1, <1>2, <1>3, <1>4 DEF Next

-----------------------------------------------------------------------------
(* The invariant is inductive.                                             *)

LEMMA InitIInv == Init => IInv
<1> SUFFICES ASSUME Init PROVE IInv
  OBVIOUS
<1>1. TypeOK
  BY InitTypes
<1>2. sent = <<>> /\ frames = <<>> /\ lpc = "idle" /\ opc = "created"
  BY DEF Init
<1>3. Announced /\ Progress /\ Numbered
  BY <1>2 DEF Init, Announced, Progress, Numbered, Sending
<1>4. WholeFrames
  <2>1. Len(sent) = 0 /\ DOMAIN sent = {} /\ DOMAIN frames = {}
    BY <1>2
  <2> QED
    BY <2>1 DEF WholeFrames
<1>5. Stopping
  BY <1>2 DEF Init, Stopping, Joined
<1> QED
  BY <1>1, <1>3, <1>4, <1>5 DEF IInv

\* What the sender has done stays true under every step: only four actions
\* read or send.
LEMMA PacketsKept ==
  ASSUME IInv, Next
  PROVE  WholeFrames' /\ Progress' /\ Numbered'
<1> DEFINE Goal == WholeFrames' /\ Progress' /\ Numbered'
<1> USE DEF ownerVars, readVars, sendVars
<1>1. TypeOK' /\ lpc # "aborted"
  BY TypesKept DEF IInv, Next
<1>2. CASE Owner
  <2>1. UNCHANGED <<mode, frames, offset, seqNo, sent>> /\ lpc' = lpc
    BY <1>2 DEF Owner, Start, StartReturns, StopUnstarted, Unregister, Join,
                StopSource, SendBye, StopReturns
  <2> QED
    BY <2>1, QuietKeeps DEF IInv, Progress
<1>3. ASSUME NEW m \in {"start", "read", "sendSR"}, Ignore(m)
      PROVE  Goal
  <2>1. UNCHANGED <<mode, frames, offset, seqNo, sent>> /\ lpc' = lpc
    BY <1>3 DEF Ignore
  <2> QED
    BY <2>1, QuietKeeps DEF IInv, Progress
<1>4. CASE \/ HandleStart \/ HandleRead \/ ReadNothing \/ ReadEOS
          \/ SetStarted \/ PostFirst \/ PostRead
  <2>1. /\ UNCHANGED <<mode, frames, offset, seqNo, sent>>
        /\ lpc \notin {"sendFirst", "send"} /\ lpc' \notin {"sendFirst", "send"}
        /\ lpc' = "firstRead" => mode = "H264"
    BY <1>4 DEF HandleStart, HandleRead, Delivered, AfterSourceStart, ReadNothing,
                ReadEOS, SetStarted, PostFirst, PostRead
  <2> QED
    BY <2>1, <1>1, QuietKeeps DEF Sending
<1>5. ASSUME NEW size \in Sizes, FirstRead(size)
      PROVE  Goal
  <2>1. /\ lpc = "firstRead" /\ lpc' = "sendFirst" /\ Received(size)
        /\ UNCHANGED <<mode, seqNo, sent>>
    BY <1>5 DEF FirstRead
  <2>2. Accepted(size) /\ HasPackets(size)
    BY <2>1 DEF IInv, Progress, Accepted, HasPackets
  <2> QED
    BY <2>1, <2>2, <1>1, ReceiveKeeps DEF Sending
<1>6. ASSUME NEW size \in Sizes, Read(size)
      PROVE  Goal
  <2>1. /\ lpc = "read" /\ Received(size) /\ Accepted(size)
        /\ lpc' \in IF HasPackets(size) THEN {"sendFirst", "send"} ELSE {"post"}
        /\ UNCHANGED <<mode, seqNo, sent>>
    BY <1>6 DEF Read
  <2> QED
    BY <2>1, <1>1, ReceiveKeeps DEF Sending
<1>7. CASE SendAlone
  BY <1>7, <1>1, SendAloneKeeps
<1>8. CASE SendFragment
  BY <1>8, <1>1, SendFragmentKeeps
<1>9. CASE Abort
  <2>1. UNCHANGED <<mode, frames, offset, seqNo, sent>> /\ lpc' = "aborted"
    BY <1>9 DEF Abort
  <2> QED
    BY <2>1, QuietKeeps
<1> QED
  BY <1>2, <1>3, <1>4, <1>5, <1>6, <1>7, <1>8, <1>9 DEF Next, Looper, Source

LEMMA NextIInv == IInv /\ [Next]_vars => IInv'
<1> SUFFICES ASSUME IInv, [Next]_vars PROVE IInv'
  OBVIOUS
<1>1. CASE Next
  BY <1>1, TypesKept, AnnouncedKept, PacketsKept, StoppingKept DEF IInv
<1>2. CASE UNCHANGED vars
  <2> USE <1>2 DEF vars, ownerVars, readVars, sendVars
  <2>1. TypeOK'
    BY DEF IInv, TypeOK, Sending
  <2>2. WholeFrames' /\ Progress' /\ Numbered'
    BY QuietKeeps DEF IInv, Progress
  <2>3. Announced' /\ Stopping'
    BY DEF IInv, Announced, Stopping
  <2> QED
    BY <2>1, <2>2, <2>3 DEF IInv
<1> QED
  BY <1>1, <1>2

LEMMA AlwaysIInv == Spec => []IInv
<1> QED
  BY InitIInv, NextIInv, PTL DEF Spec

-----------------------------------------------------------------------------
(* The theorems.                                                           *)

\* Every variable keeps its type; whatever is sent was read before, and H.264
\* is not sent before its parameter sets are announced (ARTPStreamer's
\* kWhatStart).
THEOREM TypeCorrect == Spec => []TypeOK
<1>1. IInv => TypeOK
  BY DEF IInv
<1> QED
  BY <1>1, AlwaysIInv, PTL

\* For every capacity of a datagram above the headers and every length of a
\* buffer, the packets of a track can be put together again: they are numbered
\* without a gap modulo 2^16, each continues the one before it, none is larger
\* than a datagram, and the last packet of every buffer is sent before the
\* next buffer is read (sendAVCData, sendH263Data, sendAMRData).
THEOREM FramesAreWhole == Spec => []WholeFrames
<1>1. IInv => WholeFrames
  BY DEF IInv
<1> QED
  BY <1>1, AlwaysIInv, PTL

\* stop() sends BYE when the looper has ended: no packet follows it, and a
\* source that was stopped is not read.
THEOREM ByeIsLast == Spec => NothingAfterBye
<1>1. IInv /\ [Next]_vars => [(bye => sent' = sent)
                             /\ (frames' # frames => sourceOn)]_vars
  <2> SUFFICES ASSUME IInv, Next
               PROVE  (bye => sent' = sent) /\ (frames' # frames => sourceOn)
    OBVIOUS
  <2> USE DEF IInv, Stopping, Joined, ownerVars, readVars, sendVars
  <2>1. CASE Owner
    BY <2>1 DEF Owner, Start, StartReturns, StopUnstarted, Unregister, Join,
                StopSource, SendBye, StopReturns
  <2>2. CASE SendAlone \/ SendFragment
    <3>1. lpc \in {"sendFirst", "send"} /\ frames' = frames
      BY <2>2 DEF SendAlone, SendFragment
    <3>2. ~bye
      BY <3>1
    <3> QED
      BY <3>1, <3>2
  <2>3. CASE Looper /\ ~SendAlone /\ ~SendFragment
    BY <2>3 DEF Looper, Ignore, HandleStart, HandleRead, SetStarted, PostFirst,
                PostRead
  <2>4. CASE Source
    BY <2>4 DEF Source, FirstRead, Read, ReadNothing, ReadEOS
  <2>5. CASE Abort
    BY <2>5 DEF Abort
  <2> QED
    BY <2>1, <2>2, <2>3, <2>4, <2>5 DEF Next
<1> QED
  BY <1>1, AlwaysIInv, PTL DEF Spec, NothingAfterBye

-----------------------------------------------------------------------------
(* The controls: each property has an inductive invariant of its own.      *)
(* The panel.  While it is read its call goes on, and a call with an       *)
(* encoder has an mIOMX.                                                   *)

PanelInv == /\ PanelBelongsToCall
            /\ timer => pc = "idle"
            /\ up => iomx /\ video /\ inCall

LEMMA PanelInit == ControlsInit => PanelInv
  BY DEF ControlsInit, PanelInv, PanelBelongsToCall

LEMMA PanelStep == PanelInv /\ [ControlsNext]_controlsVars => PanelInv'
<1> SUFFICES ASSUME PanelInv, [ControlsNext]_controlsVars PROVE PanelInv'
  OBVIOUS
<1> USE DEF PanelInv, PanelBelongsToCall
<1>1. CASE StartCall
  BY <1>1 DEF StartCall, Recorder, panelVars
<1>2. CASE EndCall
  BY <1>2 DEF EndCall, TimerAfterCall
<1>3. CASE ChangeVideo
  BY <1>3 DEF ChangeVideo, panelVars
<1>4. ASSUME NEW q \in Qualities, ConfigQuality(q) PROVE PanelInv'
  BY <1>4 DEF ConfigQuality, panelVars, setupVars
<1>5. CASE ShowEncoderInformation
  BY <1>5 DEF ShowEncoderInformation, ListEnabled, setupVars
<1>6. CASE UpdateEncoderConfiguration
  BY <1>6 DEF UpdateEncoderConfiguration, setupVars
<1>7. CASE Difference \/ SetLast \/ ReadDecoder
  BY <1>7 DEF Difference, SetLast, ReadDecoder, panelVars, setupVars
<1>8. CASE ReadNode
  BY <1>8 DEF ReadNode, panelVars, setupVars
<1>9. CASE ClearDecoder
  BY <1>9 DEF ClearDecoder, setupVars
<1>10. CASE FrameEncoded \/ ReadsCount \/ WritesCount
  BY <1>10 DEF FrameEncoded, ReadsCount, WritesCount, panelVars, setupVars
<1>11. CASE UNCHANGED controlsVars
  BY <1>11 DEF controlsVars, panelVars, setupVars
<1> QED
  BY <1>1, <1>2, <1>3, <1>4, <1>5, <1>6, <1>7, <1>8, <1>9, <1>10, <1>11
     DEF ControlsNext, Reading

\* The panel is seen, kept up to date and read only in its call, and reading
\* it kills no call whose encoder was set up.
THEOREM PanelsBelong == ControlsSpec => []PanelBelongsToCall
<1>1. PanelInv => PanelBelongsToCall
  BY DEF PanelInv
<1> QED
  BY <1>1, PanelInit, PanelStep, PTL DEF ControlsSpec

-----------------------------------------------------------------------------
(* The quality.  Only configQuality() and the start of a call set it, and  *)
(* the encoder that mNode names is the one of the call.                    *)

QualityInv == QualityIsChosen /\ (up => iomx)

LEMMA QualityInit == ControlsInit => QualityInv
  BY DEF ControlsInit, QualityInv, QualityIsChosen

LEMMA QualityConfigured ==
    ASSUME NEW q \in Qualities, QualityInv, ConfigQuality(q)
    PROVE  QualityInv'
<1> USE DEF QualityInv, QualityIsChosen
<1>1. UNCHANGED <<inCall, calls, up, iomx, node>> /\ chosen' = q
  BY DEF ConfigQuality, setupVars
<1>2. SUFFICES ASSUME inCall, up
               PROVE  meta' = q /\ (refused' \/ encoder' = Configured(q))
  BY <1>1
<1>3. CASE meta = q
  BY <1>2, <1>3 DEF ConfigQuality
<1>4. CASE meta # q
  <2>1. meta' = q /\ Reconfigure(q)
    BY <1>2, <1>4 DEF ConfigQuality
  <2>2. PICK done \in SUBSET {"bitrate", "period"} :
          /\ encoder' = [bitrate |-> IF "bitrate" \in done THEN q
                                     ELSE encoder.bitrate,
                         period |-> IF "period" \in done THEN q
                                    ELSE encoder.period]
          /\ refused' = (refused \/ done # {"bitrate", "period"})
    BY <1>2, <2>1 DEF Reconfigure
  <2>3. CASE done = {"bitrate", "period"}
    BY <2>1, <2>2, <2>3 DEF Configured
  <2>4. CASE done # {"bitrate", "period"}
    BY <2>1, <2>2, <2>4
  <2> QED
    BY <2>3, <2>4
<1> QED
  BY <1>3, <1>4

LEMMA QualityStep == QualityInv /\ [ControlsNext]_controlsVars => QualityInv'
<1> SUFFICES ASSUME QualityInv, [ControlsNext]_controlsVars PROVE QualityInv'
  OBVIOUS
<1> USE DEF QualityInv, QualityIsChosen
<1>1. CASE StartCall
  BY <1>1 DEF StartCall, Recorder, MetaOfCall, Configured
<1>2. CASE EndCall
  BY <1>2 DEF EndCall
<1>3. CASE ChangeVideo
  BY <1>3 DEF ChangeVideo, qualityVars
<1>4. ASSUME NEW q \in Qualities, ConfigQuality(q) PROVE QualityInv'
  BY <1>4, QualityConfigured
<1>5. CASE ShowEncoderInformation \/ Reading
  BY <1>5 DEF ShowEncoderInformation, Reading, UpdateEncoderConfiguration,
              Difference, SetLast, ReadNode, ReadDecoder, ClearDecoder,
              qualityVars, setupVars
<1>6. CASE FrameEncoded \/ ReadsCount \/ WritesCount
  BY <1>6 DEF FrameEncoded, ReadsCount, WritesCount, qualityVars, setupVars
<1>7. CASE UNCHANGED controlsVars
  BY <1>7 DEF controlsVars, qualityVars, setupVars
<1> QED
  BY <1>1, <1>2, <1>3, <1>4, <1>5, <1>6, <1>7 DEF ControlsNext

\* The encoder of a call has the quality chosen last, before the call or in it.
THEOREM QualitiesAreChosen == ControlsSpec => []QualityIsChosen
<1>1. QualityInv => QualityIsChosen
  BY DEF QualityInv
<1> QED
  BY <1>1, QualityInit, QualityStep, PTL DEF ControlsSpec

-----------------------------------------------------------------------------
(* The counters.  Once the first reading is over mLastCounter is at least  *)
(* what has been accounted for and at most mCounter, and the difference    *)
(* just read fits between the two; the player's thread never writes more   *)
(* than it has decoded.                                                    *)

CountsType == /\ counter \in Int
              /\ latest \in Int
              /\ rate \in Int
              /\ reported \in Int
              /\ base \in Int
              /\ decoded \in Int
              /\ adding \in Int
              /\ pictures \in Int
              /\ shown \in Int
              /\ reads \in Nat

FirstIsOver == reads > 1 \/ (reads = 1 /\ pc \notin {"difference", "last"})

EncoderCounts == /\ counter >= 0
                 /\ reads = 0 => pc \notin {"difference", "last"}
                 /\ reads <= 1 => reported = 0
                 /\ base + reported <= counter
                 /\ ~up => pc \notin {"difference", "last"}
                 /\ up /\ FirstIsOver =>
                       /\ 0 <= latest /\ latest <= counter
                       /\ base + reported <= latest
                       /\ pc = "last" => rate <= counter - latest

DecoderCounts == /\ 0 <= decoded /\ decoded <= pictures
                 /\ adding < pictures
                 /\ -1 <= adding
                 /\ shown <= pictures

CountInv == CountsType /\ EncoderCounts /\ DecoderCounts

LEMMA CountInit == ControlsInit => CountInv
  BY DEF ControlsInit, CountInv, CountsType, EncoderCounts, DecoderCounts,
         FirstIsOver, INVALID_VALUE, NotReading

LEMMA EncoderStep ==
    ASSUME CountInv, Reading \/ FrameEncoded PROVE EncoderCounts'
<1> USE DEF CountInv, CountsType, EncoderCounts, FirstIsOver
<1>1. CASE UpdateEncoderConfiguration
  BY <1>1 DEF UpdateEncoderConfiguration, setupVars, senderVars
<1>2. CASE Difference
  BY <1>2 DEF Difference, setupVars, INVALID_VALUE
<1>3. CASE SetLast
  BY <1>3 DEF SetLast, setupVars, LastAfter
<1>4. CASE ReadNode \/ ReadDecoder \/ ClearDecoder
  BY <1>4 DEF ReadNode, ReadDecoder, ClearDecoder, setupVars, senderVars
<1>5. CASE FrameEncoded
  BY <1>5 DEF FrameEncoded, setupVars
<1> QED
  BY <1>1, <1>2, <1>3, <1>4, <1>5 DEF Reading

LEMMA DecoderStep ==
    ASSUME CountInv, ReadsCount \/ WritesCount \/ ReadDecoder \/ ClearDecoder
    PROVE  DecoderCounts'
  BY DEF CountInv, CountsType, DecoderCounts, ReadsCount, WritesCount,
         ReadDecoder, ClearDecoder, NotReading

LEMMA CountStep == CountInv /\ [ControlsNext]_controlsVars => CountInv'
<1> SUFFICES ASSUME CountInv, [ControlsNext]_controlsVars PROVE CountInv'
  OBVIOUS
<1> USE DEF CountInv
<1>1. CASE StartCall
  <2>1. ResetCounters /\ pc' = "idle"
    BY <1>1 DEF StartCall
  <2>2. PICK g \in Garbage : latest' = g
    BY <2>1 DEF ResetCounters
  <2>3. latest' \in Int
    BY <2>2, ControlsAssumption
  <2> QED
    BY <2>1, <2>3 DEF ResetCounters, CountsType, EncoderCounts, DecoderCounts,
                      FirstIsOver, INVALID_VALUE, NotReading
<1>2. CASE EndCall
  <2>1. /\ up' = FALSE /\ pc' = "idle" /\ adding' = -1
        /\ UNCHANGED <<counter, latest, rate, reported, base, decoded, pictures,
                       shown, reads>>
    BY <1>2 DEF EndCall, senderVars, NotReading
  <2> QED
    BY <2>1 DEF CountsType, EncoderCounts, DecoderCounts, FirstIsOver
<1>3. CASE ChangeVideo \/ ShowEncoderInformation
                       \/ \E q \in Qualities : ConfigQuality(q)
  BY <1>3 DEF ChangeVideo, ShowEncoderInformation, ConfigQuality, CountsType,
              EncoderCounts, DecoderCounts, FirstIsOver, setupVars, senderVars,
              playerVars
<1>4. CASE Reading
  <2>1. CountsType'
    BY <1>4 DEF Reading, UpdateEncoderConfiguration, Difference, SetLast,
                ReadNode, ReadDecoder, ClearDecoder, CountsType, LastAfter,
                INVALID_VALUE, senderVars, playerVars
  <2>2. DecoderCounts'
    <3>1. CASE ReadDecoder \/ ClearDecoder
      BY <3>1, DecoderStep
    <3>2. CASE UNCHANGED playerVars
      BY <3>2 DEF DecoderCounts, playerVars
    <3> QED
      BY <1>4, <3>1, <3>2 DEF Reading, UpdateEncoderConfiguration, Difference,
                              SetLast, ReadNode
  <2> QED
    BY <1>4, <2>1, <2>2, EncoderStep
<1>5. CASE FrameEncoded
  BY <1>5, EncoderStep DEF FrameEncoded, CountsType, DecoderCounts, playerVars
<1>6. CASE ReadsCount \/ WritesCount
  <2>1. CountsType' /\ EncoderCounts'
    BY <1>6 DEF ReadsCount, WritesCount, NotReading, CountsType, EncoderCounts,
                FirstIsOver, setupVars, senderVars
  <2> QED
    BY <1>6, <2>1, DecoderStep
<1>7. CASE UNCHANGED controlsVars
  BY <1>7 DEF controlsVars, setupVars, senderVars, playerVars, CountsType,
              EncoderCounts, DecoderCounts, FirstIsOver
<1> QED
  BY <1>1, <1>2, <1>3, <1>4, <1>5, <1>6, <1>7 DEF ControlsNext

\* No frame is reported twice, however frames and readings interleave.
THEOREM ReadingsAreSound == ControlsSpec => []ReadingsAddUp
<1>1. CountInv => ReadingsAddUp
  BY DEF CountInv, CountsType, EncoderCounts, DecoderCounts, FirstIsOver,
         ReadingsAddUp
<1> QED
  BY <1>1, CountInit, CountStep, PTL DEF ControlsSpec


=============================================================================
