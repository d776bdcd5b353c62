--------------------------- MODULE RTSPSessionProofs ---------------------------
(***************************************************************************)
(* Proofs about RTSPSession for any number of tracks, seeks, moves and     *)
(* packets under way, any formats and any units.                           *)
(***************************************************************************)
EXTENDS RTSPSession, SequenceTheorems, FunctionTheorems, FiniteSetTheorems,
        WellFoundedInduction, TLAPS

-----------------------------------------------------------------------------
(* Counting messages.                                                      *)

\* The places of sequence s that hold a member of M.
Occurs(s, M) == {i \in DOMAIN s : s[i] \in M}
Count(s, M) == Cardinality(Occurs(s, M))

LEMMA OccursFinite ==
  ASSUME NEW S, NEW s \in Seq(S), NEW M
  PROVE  IsFiniteSet(Occurs(s, M)) /\ Count(s, M) \in Nat
<1>1. IsFiniteSet(1 .. Len(s))
  BY FS_Interval
<1>2. Occurs(s, M) \in SUBSET (1 .. Len(s))
  BY DEF Occurs
<1> QED
  BY <1>1, <1>2, FS_Subset, FS_CardinalityType DEF Count

LEMMA CountEmpty ==
  ASSUME NEW M
  PROVE  Count(<<>>, M) = 0
BY FS_EmptySet DEF Count, Occurs

\* A message that is there counts.
LEMMA CountPositive ==
  ASSUME NEW S, NEW s \in Seq(S), NEW M, NEW i \in DOMAIN s, s[i] \in M
  PROVE  Count(s, M) >= 1
<1>1. IsFiniteSet(Occurs(s, M)) /\ Count(s, M) \in Nat
  BY OccursFinite
<1>2. Occurs(s, M) # {}
  BY DEF Occurs
<1>3. Count(s, M) # 0
  BY <1>1, <1>2, FS_EmptySet DEF Count
<1> QED
  BY <1>1, <1>3

LEMMA CountTail ==
  ASSUME NEW S, NEW s \in Seq(S), s # <<>>, NEW M
  PROVE  Count(s, M) = Count(Tail(s), M) + (IF Head(s) \in M THEN 1 ELSE 0)
<1> DEFINE T == Occurs(Tail(s), M)
           U == Occurs(s, M) \ {1}
           f == [i \in T |-> i + 1]
<1>1. /\ Len(s) \in Nat \ {0}
      /\ DOMAIN s = 1 .. Len(s)
      /\ Tail(s) \in Seq(S)
      /\ DOMAIN Tail(s) = 1 .. Len(s) - 1
      /\ \A i \in 1 .. Len(s) - 1 : Tail(s)[i] = s[i + 1]
      /\ Head(s) = s[1]
  BY EmptySeq, HeadTailProperties, LenProperties
<1>2. IsFiniteSet(Occurs(s, M)) /\ Count(s, M) \in Nat
  BY OccursFinite
<1>3. IsFiniteSet(T) /\ Count(Tail(s), M) \in Nat
  BY <1>1, OccursFinite
<1>4. T \in SUBSET Nat /\ \A i \in T : i \in 1 .. Len(s) - 1 /\ s[i + 1] \in M
  BY <1>1 DEF Occurs
<1>5. \A j \in U : j - 1 \in T /\ j = (j - 1) + 1
  BY <1>1 DEF Occurs
<1>6. \A i \in T : i + 1 \in U
  BY <1>1, <1>4 DEF Occurs
<1> HIDE DEF T, U
<1>7. f \in Bijection(T, U)
  <2>1. f \in [T -> U]
    BY <1>6
  <2>2. \A a, b \in T : f[a] = f[b] => a = b
    BY <1>4
  <2>3. \A u \in U : \E t \in T : f[t] = u
    BY <1>5
  <2> QED
    BY <2>1, <2>2, <2>3, Fun_IsBij
<1>8. Cardinality(U) = Cardinality(T)
  <2>1. ExistsBijection(T, U)
    BY <1>7 DEF ExistsBijection
  <2> QED
    BY <2>1, <1>3, FS_Bijection
<1>9. Cardinality(U) = IF 1 \in Occurs(s, M) THEN Count(s, M) - 1
                                              ELSE Count(s, M)
  BY <1>2, FS_RemoveElement DEF Count, U
<1>10. 1 \in Occurs(s, M) <=> Head(s) \in M
  BY <1>1 DEF Occurs
<1>11. Cardinality(T) = Count(Tail(s), M)
  BY DEF T, Count
<1>12. CASE Head(s) \in M
  <2>1. Count(Tail(s), M) = Count(s, M) - 1
    BY <1>8, <1>9, <1>10, <1>11, <1>12
  <2> QED
    BY <2>1, <1>2, <1>12
<1>13. CASE Head(s) \notin M
  <2>1. Count(Tail(s), M) = Count(s, M)
    BY <1>8, <1>9, <1>10, <1>11, <1>13
  <2> QED
    BY <2>1, <1>2, <1>13
<1> QED
  BY <1>12, <1>13

\* A sequence and its continuation.
LEMMA CountConcat ==
  ASSUME NEW S, NEW s \in Seq(S), NEW t \in Seq(S), NEW M
  PROVE  Count(s \o t, M) = Count(s, M) + Count(t, M)
<1> DEFINE A == Occurs(s, M)
           T == Occurs(t, M)
           n == Len(s)
           B == {i \in n + 1 .. n + Len(t) : t[i - n] \in M}
           f == [i \in T |-> i + n]
<1>1. /\ n \in Nat /\ Len(t) \in Nat
      /\ DOMAIN s = 1 .. n /\ DOMAIN t = 1 .. Len(t)
      /\ DOMAIN (s \o t) = 1 .. n + Len(t)
      /\ \A i \in 1 .. n + Len(t) :
            (s \o t)[i] = IF i <= n THEN s[i] ELSE t[i - n]
  BY ConcatProperties, LenProperties
<1>2. /\ IsFiniteSet(A) /\ Count(s, M) \in Nat
      /\ IsFiniteSet(T) /\ Count(t, M) \in Nat
  BY OccursFinite
<1>3. Occurs(s \o t, M) = A \cup B
  BY <1>1 DEF Occurs
<1>4. A \cap B = {}
  BY <1>1 DEF Occurs
<1>5. /\ \A i \in T : i \in Int /\ i + n \in B
      /\ \A j \in B : j \in Int /\ j - n \in T /\ j = (j - n) + n
  BY <1>1 DEF Occurs
<1>6. Cardinality(A) = Count(s, M) /\ Cardinality(T) = Count(t, M)
  BY DEF Count
<1>7. n \in Int
  BY <1>1
<1> HIDE DEF A, T, n, B
<1>8. f \in Bijection(T, B)
  <2>1. f \in [T -> B]
    BY <1>5
  <2>2. \A a, b \in T : f[a] = f[b] => a = b
    BY <1>5, <1>7
  <2>3. \A u \in B : \E a \in T : f[a] = u
    BY <1>5
  <2> QED
    BY <2>1, <2>2, <2>3, Fun_IsBij
<1>9. IsFiniteSet(B) /\ Cardinality(B) = Cardinality(T)
  <2>1. ExistsBijection(T, B)
    BY <1>8 DEF ExistsBijection
  <2> QED
    BY <2>1, <1>2, FS_Bijection
<1>10. Cardinality(A \cup B) = Cardinality(A) + Cardinality(B) - Cardinality(A \cap B)
  BY <1>2, <1>9, FS_Union
<1>11. Cardinality(A \cap B) = 0
  BY <1>4, FS_EmptySet
<1> QED
  BY <1>2, <1>3, <1>6, <1>9, <1>10, <1>11 DEF Count

One(m, M) == IF m \in M THEN 1 ELSE 0

LEMMA CountOne ==
  ASSUME NEW x, NEW M
  PROVE  Count(<<x>>, M) = One(x, M)
<1>1. Occurs(<<x>>, M) = IF x \in M THEN {1} ELSE {}
  BY DEF Occurs
<1>2. Cardinality({1}) = 1 /\ Cardinality({}) = 0
  BY FS_Singleton, FS_EmptySet
<1> QED
  BY <1>1, <1>2 DEF Count, One

\* What there is none of.
LEMMA CountNone ==
  ASSUME NEW S, NEW s \in Seq(S), NEW M
  PROVE  Count(s, M) = 0 <=> \A i \in DOMAIN s : s[i] \notin M
<1>1. IsFiniteSet(Occurs(s, M))
  BY OccursFinite
<1>2. Count(s, M) = 0 <=> Occurs(s, M) = {}
  BY <1>1, FS_EmptySet DEF Count
<1> QED
  BY <1>2 DEF Occurs

\* What is in a sequence.
LEMMA SetOf ==
  ASSUME NEW s
  PROVE  /\ \A i \in DOMAIN s : s[i] \in ToSet(s)
         /\ \A x \in ToSet(s) : \E i \in DOMAIN s : x = s[i]
BY DEF ToSet

\* Nothing is handled, others are posted.
LEMMA Posting ==
  ASSUME NEW S, NEW s \in Seq(S), NEW t \in Seq(S)
  PROVE  /\ s \o t \in Seq(S)
         /\ \A M : Count(s \o t, M) = Count(s, M) + Count(t, M)
         /\ ToSet(s \o t) = ToSet(s) \cup ToSet(t)
<1>1. s \o t \in Seq(S)
  BY ConcatProperties
<1>2. \A M : Count(s \o t, M) = Count(s, M) + Count(t, M)
  BY CountConcat
<1>3. /\ Len(s) \in Nat /\ Len(t) \in Nat
      /\ DOMAIN s = 1 .. Len(s) /\ DOMAIN t = 1 .. Len(t)
      /\ DOMAIN (s \o t) = 1 .. Len(s) + Len(t)
      /\ \A i \in 1 .. Len(s) + Len(t) :
            (s \o t)[i] = IF i <= Len(s) THEN s[i] ELSE t[i - Len(s)]
  BY ConcatProperties, LenProperties
<1>4. ASSUME NEW x \in ToSet(s) PROVE x \in ToSet(s \o t)
  <2>1. PICK i \in DOMAIN s : x = s[i]
    BY SetOf
  <2>2. i \in DOMAIN (s \o t) /\ (s \o t)[i] = s[i]
    BY <1>3
  <2> QED
    BY <2>1, <2>2, SetOf
<1>5. ASSUME NEW x \in ToSet(t) PROVE x \in ToSet(s \o t)
  <2>1. PICK i \in DOMAIN t : x = t[i]
    BY SetOf
  <2>2. i + Len(s) \in DOMAIN (s \o t) /\ (s \o t)[i + Len(s)] = t[i]
    BY <1>3
  <2> QED
    BY <2>1, <2>2, SetOf
<1>6. ASSUME NEW x \in ToSet(s \o t) PROVE x \in ToSet(s) \cup ToSet(t)
  <2>1. PICK i \in DOMAIN (s \o t) : x = (s \o t)[i]
    BY SetOf
  <2>2. \/ i \in DOMAIN s /\ (s \o t)[i] = s[i]
        \/ i - Len(s) \in DOMAIN t /\ (s \o t)[i] = t[i - Len(s)]
    BY <1>3
  <2> QED
    BY <2>1, <2>2, SetOf
<1>7. ToSet(s \o t) = ToSet(s) \cup ToSet(t)
  BY <1>4, <1>5, <1>6
<1> QED
  BY <1>1, <1>2, <1>7

\* The first message is handled, others are posted.
LEMMA Handling ==
  ASSUME NEW S, NEW s \in Seq(S), s # <<>>, NEW t \in Seq(S)
  PROVE  /\ Head(s) \in S /\ Tail(s) \in Seq(S)
         /\ Tail(s) \o t \in Seq(S)
         /\ \A M : Count(Tail(s) \o t, M) = Count(s, M) - One(Head(s), M) + Count(t, M)
         /\ ToSet(s) = {Head(s)} \cup ToSet(Tail(s))
         /\ ToSet(Tail(s) \o t) = ToSet(Tail(s)) \cup ToSet(t)
<1>1. Head(s) \in S /\ Tail(s) \in Seq(S) /\ Tail(s) \o t \in Seq(S)
  BY HeadTailProperties, ConcatProperties
<1>2. ASSUME NEW M
      PROVE  Count(Tail(s) \o t, M) = Count(s, M) - One(Head(s), M) + Count(t, M)
  <2>1. Count(Tail(s) \o t, M) = Count(Tail(s), M) + Count(t, M)
    BY <1>1, CountConcat
  <2>2. Count(s, M) = Count(Tail(s), M) + (IF Head(s) \in M THEN 1 ELSE 0)
    BY CountTail
  <2>3. Count(s, M) \in Nat /\ Count(Tail(s), M) \in Nat /\ Count(t, M) \in Nat
    BY <1>1, OccursFinite
  <2> QED
    BY <2>1, <2>2, <2>3 DEF One
<1>3. /\ Len(s) \in Nat \ {0} /\ DOMAIN s = 1 .. Len(s)
      /\ DOMAIN Tail(s) = 1 .. Len(s) - 1 /\ Head(s) = s[1]
      /\ \A i \in 1 .. Len(s) - 1 : Tail(s)[i] = s[i + 1]
  BY EmptySeq, HeadTailProperties, LenProperties
<1>4. Head(s) \in ToSet(s)
  BY <1>3, SetOf
<1>5. ASSUME NEW x \in ToSet(Tail(s)) PROVE x \in ToSet(s)
  <2>1. PICK i \in DOMAIN Tail(s) : x = Tail(s)[i]
    BY SetOf
  <2>2. i + 1 \in DOMAIN s /\ Tail(s)[i] = s[i + 1]
    BY <1>3
  <2> QED
    BY <2>1, <2>2, SetOf
<1>6. ASSUME NEW x \in ToSet(s) PROVE x \in {Head(s)} \cup ToSet(Tail(s))
  <2>1. PICK i \in DOMAIN s : x = s[i]
    BY SetOf
  <2>2. i = 1 \/ (i - 1 \in DOMAIN Tail(s) /\ s[i] = Tail(s)[i - 1])
    BY <1>3
  <2> QED
    BY <1>3, <2>1, <2>2, SetOf
<1>7. ToSet(s) = {Head(s)} \cup ToSet(Tail(s))
  BY <1>4, <1>5, <1>6
<1>8. ToSet(Tail(s) \o t) = ToSet(Tail(s)) \cup ToSet(t)
  BY <1>1, Posting
<1> QED
  BY <1>1, <1>2, <1>7, <1>8

LEMMA SetOfFew ==
  /\ ToSet(<<>>) = {}
  /\ \A x : ToSet(<<x>>) = {x}
  /\ \A x, y : ToSet(<<x, y>>) = {x, y}
BY DEF ToSet

-----------------------------------------------------------------------------
(* Types.                                                                  *)

Result == {None, "ok", "live", "refused", "error", "moved"}
Socket == {"udp", "tcp"} \X Nat

\* What the server sends: a unit in a packet of its own, or a sender report.
Packet == [kind : {"rtp"}, unit : {<<u>> : u \in Units}]
            \cup [kind : {"rtcp"}, sr : BOOLEAN, bye : {FALSE}]

\* The replies to requests, and what is posted for a track that is skipped.
Awaited == [what : {"play", "see1", "see2"}, result : Result]
             \cup [what : {"desc"}, moved : Nat, result : Result]
             \cup [what : {"setu"}, index : 1 .. NumTracks, track : Nat \ {NoTrack},
                   result : Result]
             \cup [what : {"tear"}, again : BOOLEAN, result : Result]

Skips == [what : {"setu"}, index : 1 .. NumTracks, track : {NoTrack},
          result : {"error"}]

Requests == [what : {"send"}, reply : Awaited]
Closings == [what : {"disconnect"}, reply : [what : {"disc"}, again : BOOLEAN]]
Plain == [what : {"connect", "tiou", "quit", "seek", "sdon"}]
Dones == [what : {"conn", "cdon", "ddon"}, result : Result]
Again == [what : {"disc", "abor"}, again : BOOLEAN]
CheckMsgs == [what : {"chek"}, generation : Nat]
Notices == [what : {"accu"}, track : Nat, kind : {"first-rtp", "first-rtcp"},
            unit : {Nothing}]
             \cup [what : {"accu"}, track : Nat, kind : {"unit"},
                   unit : {<<u>> : u \in Units}]
Binaries == [what : {"biny"}, socket : Socket, packet : Packet]

Msg == Awaited \cup Skips \cup Requests \cup Closings \cup Plain \cup Dones \cup Again
         \cup CheckMsgs \cup Notices \cup Binaries

StreamType == [socket : Socket, track : Nat, injected : BOOLEAN, rtp : BOOLEAN,
               rtcp : BOOLEAN, source : BOOLEAN, times : 0 .. 2]

NetMsg == [what : {"fake", "poll"}]
            \cup [what : {"add"}, stream : StreamType]
            \cup [what : {"remove"}, socket : Socket]
            \cup [what : {"inject"}, socket : Socket, packet : Packet]

TrackType == [index : 1 .. NumTracks, firstSeg : Nat, told : BOOLEAN,
              socket : Socket]
SourceType == [avc : BOOLEAN, buffers : Seq(Units), eos : BOOLEAN,
               scanForIDR : BOOLEAN, fresh : BOOLEAN]
HandlerType ==
    [setupOK : BOOLEAN, seekPending : BOOLEAN, firstUnit : BOOLEAN,
     units : BOOLEAN, checkPending : BOOLEAN, checkGen : Nat, tryTCP : BOOLEAN,
     tryFake : BOOLEAN, gotRTCP : BOOLEAN, gotRTP : BOOLEAN,
     seekable : BOOLEAN, doneMsg : {None, "cdon", "ddon"}]

BoxTypes == /\ mailbox \in Seq(Msg)
            /\ pending \in Seq(Awaited)
            /\ timers \subseteq {Tiou} \cup CheckMsgs

\* The RTP connection of a session is never started, and so receives nothing.
NetTypes == /\ netbox \in Seq(NetMsg)
            /\ streams \in Seq(StreamType)
            /\ "started" \notin flags

SessionTypes == /\ handler \in HandlerType
                /\ tracks \in Seq(TrackType)
                /\ DOMAIN source \subseteq 1 .. NumTracks
                /\ source \in [DOMAIN source -> SourceType]

PlayerTypes == /\ conn \in {"closed", "open", "deaf"}
               /\ serving \in BOOLEAN
               /\ segment \in Nat
               /\ state \in {"disconnected", "connecting", "connected"}
               /\ seekDone \in BOOLEAN
               /\ player \in {"new", "connecting", "refused", "failed",
                              "preparing", "prepared", "disconnecting", "gone"}
               /\ playing \in BOOLEAN
               /\ underrun \in BOOLEAN
               /\ seeks \in Nat

TypeOK == BoxTypes /\ NetTypes /\ SessionTypes /\ PlayerTypes

\* Messages that are posted.
LEMMA Posted ==
  /\ Awaited \subseteq Msg /\ Skips \subseteq Msg
  /\ \A r \in Awaited : Ask(r) \in Msg
  /\ \A b \in BOOLEAN : /\ Disconnect(Disc(b)) \in Msg
                        /\ Disc(b) \in Msg /\ Abor(b) \in Msg
  /\ Connect \in Msg /\ Tiou \in Msg
  /\ \A w \in {"quit", "seek", "sdon"} : [what |-> w] \in Msg
  /\ \A w \in {"conn", "cdon", "ddon"}, x \in Result : [what |-> w, result |-> x] \in Msg
  /\ \A n \in Nat : Chek(n) \in Msg /\ Chek(n) \in CheckMsgs
  /\ Notices \subseteq Msg /\ Binaries \subseteq Msg /\ CheckMsgs \subseteq Msg
<1>1. /\ Awaited \subseteq Msg /\ Skips \subseteq Msg
      /\ Notices \subseteq Msg /\ Binaries \subseteq Msg /\ CheckMsgs \subseteq Msg
      /\ Requests \subseteq Msg /\ Closings \subseteq Msg /\ Plain \subseteq Msg
      /\ Dones \subseteq Msg /\ Again \subseteq Msg
  BY DEF Msg
<1>2. \A r \in Awaited : Ask(r) \in Requests
  BY DEF Ask, Requests
<1>3. \A b \in BOOLEAN : /\ Disconnect(Disc(b)) \in Closings
                         /\ Disc(b) \in Again /\ Abor(b) \in Again
  BY DEF Disconnect, Disc, Abor, Closings, Again
<1>4. /\ Connect \in Plain /\ Tiou \in Plain
      /\ \A w \in {"quit", "seek", "sdon"} : [what |-> w] \in Plain
  BY DEF Connect, Tiou, Plain
<1>5. \A w \in {"conn", "cdon", "ddon"}, x \in Result :
         [what |-> w, result |-> x] \in Dones
  BY DEF Dones
<1>6. \A n \in Nat : Chek(n) \in CheckMsgs
  BY DEF Chek, CheckMsgs
<1> QED
  BY <1>1, <1>2, <1>3, <1>4, <1>5, <1>6

\* The replies posted by name.
LEMMA AwaitedAre ==
  /\ \A w \in {"play", "see1", "see2"} : Reply(w) \in Awaited
  /\ \A n \in Nat : DescReply(n) \in Awaited
  /\ \A i \in 1 .. NumTracks, t \in Nat \ {NoTrack} : SetuReply(i, t) \in Awaited
  /\ \A i \in 1 .. NumTracks : With(SetuReply(i, NoTrack), "error") \in Skips
  /\ \A b \in BOOLEAN : TearReply(b) \in Awaited
  /\ \A r \in Awaited, x \in Result : With(r, x) \in Awaited
<1> USE DEF Awaited, Result, None
<1>1. \A w \in {"play", "see1", "see2"} : Reply(w) \in Awaited
  BY DEF Reply
<1>2. \A n \in Nat : DescReply(n) \in Awaited
  BY DEF DescReply
<1>3. /\ \A i \in 1 .. NumTracks, t \in Nat \ {NoTrack} : SetuReply(i, t) \in Awaited
      /\ \A i \in 1 .. NumTracks : With(SetuReply(i, NoTrack), "error") \in Skips
  BY DEF SetuReply, Skips, With
<1>4. \A b \in BOOLEAN : TearReply(b) \in Awaited
  BY DEF TearReply
<1>5. \A r \in Awaited, x \in Result : With(r, x) \in Awaited
  BY DEF With
<1> QED
  BY <1>1, <1>2, <1>3, <1>4, <1>5

LEMMA AwaitedFields ==
  ASSUME NEW r \in Awaited
  PROVE  /\ r.what \in {"play", "see1", "see2", "desc", "setu", "tear"}
         /\ r.result \in Result
         /\ r.what = "desc" => r.moved \in Nat
         /\ r.what = "setu" => /\ r.index \in 1 .. NumTracks
                               /\ r.track \in Nat \ {NoTrack}
         /\ r.what = "tear" => r.again \in BOOLEAN
         /\ \A x \in Result :
              /\ With(r, x).what = r.what /\ With(r, x).result = x
              /\ r.what = "desc" => With(r, x).moved = r.moved
              /\ r.what = "setu" => /\ With(r, x).index = r.index
                                    /\ With(r, x).track = r.track
              /\ r.what = "tear" => With(r, x).again = r.again
<1>1. CASE r \in [what : {"play", "see1", "see2"}, result : Result]
  BY <1>1 DEF With
<1>2. CASE r \in [what : {"desc"}, moved : Nat, result : Result]
  BY <1>2 DEF With
<1>3. CASE r \in [what : {"setu"}, index : 1 .. NumTracks, track : Nat \ {NoTrack},
                  result : Result]
  BY <1>3 DEF With
<1>4. CASE r \in [what : {"tear"}, again : BOOLEAN, result : Result]
  BY <1>4 DEF With
<1> QED
  BY <1>1, <1>2, <1>3, <1>4 DEF Awaited

LEMMA MsgFields ==
  ASSUME NEW m \in Msg
  PROVE  /\ m.what \in {"play", "see1", "see2", "desc", "tear"} => m \in Awaited
         /\ m.what = "setu" => m \in Awaited \cup Skips
         /\ m.what = "setu" => m.index \in 1 .. NumTracks /\ m.track \in Nat
         /\ m.what = "setu" /\ m.track = NoTrack => m.result = "error"
         /\ m.what = "send" => m.reply \in Awaited
         /\ m.what = "disconnect" => /\ m.reply.again \in BOOLEAN
                                     /\ m.reply = Disc(m.reply.again)
                                     /\ m = Disconnect(Disc(m.reply.again))
         /\ m.what = "disc" => m.again \in BOOLEAN /\ m = Disc(m.again)
         /\ m.what = "abor" => m.again \in BOOLEAN /\ m = Abor(m.again)
         /\ m.what \in {"conn", "cdon", "ddon"} => m.result \in Result
         /\ m.what = "chek" => m.generation \in Nat /\ m = Chek(m.generation)
         /\ m.what = "accu" <=> m \in Notices
         /\ m.what = "biny" <=> m \in Binaries
         /\ m.what = "tiou" <=> m = Tiou
         /\ m.what = "connect" <=> m = Connect
<1>1. CASE m \in Awaited
  <2>1. m.what \in {"play", "see1", "see2", "desc", "setu", "tear"}
    BY <1>1, AwaitedFields
  <2>2. m \notin Notices /\ m \notin Binaries /\ m # Tiou /\ m # Connect
    BY <2>1 DEF Notices, Binaries, Tiou, Connect
  <2>3. m.what = "setu" => m.index \in 1 .. NumTracks /\ m.track \in Nat \ {NoTrack}
    BY <1>1, AwaitedFields
  <2> QED
    BY <1>1, <2>1, <2>2, <2>3
<1>10. CASE m \in Skips
  BY <1>10 DEF Skips, Notices, Binaries, Tiou, Connect, NoTrack
<1>2. CASE m \in Requests
  BY <1>2, AwaitedFields DEF Requests, Notices, Binaries, Tiou, Connect
<1>3. CASE m \in Closings
  BY <1>3, AwaitedFields DEF Closings, Disconnect, Disc, Notices, Binaries,
                             Tiou, Connect
<1>4. CASE m \in Plain
  BY <1>4, AwaitedFields DEF Plain, Notices, Binaries, Tiou, Connect
<1>5. CASE m \in Dones
  BY <1>5, AwaitedFields DEF Dones, Notices, Binaries, Tiou, Connect
<1>6. CASE m \in Again
  BY <1>6, AwaitedFields DEF Again, Disc, Abor, Notices, Binaries, Tiou, Connect
<1>7. CASE m \in CheckMsgs
  BY <1>7, AwaitedFields DEF CheckMsgs, Chek, Notices, Binaries, Tiou, Connect
<1>8. CASE m \in Notices
  BY <1>8, AwaitedFields DEF Notices, Binaries, Tiou, Connect
<1>9. CASE m \in Binaries
  BY <1>9, AwaitedFields DEF Notices, Binaries, Tiou, Connect
<1> QED
  BY <1>1, <1>2, <1>3, <1>4, <1>5, <1>6, <1>7, <1>8, <1>9, <1>10 DEF Msg

LEMMA NoticeFields ==
  ASSUME NEW m \in Notices
  PROVE  /\ m.what = "accu" /\ m.track \in Nat
         /\ m.kind \in {"first-rtp", "first-rtcp", "unit"}
         /\ m.kind = "unit" => m.unit[1] \in Units
BY DEF Notices

-----------------------------------------------------------------------------
(* What is received by UDP: nothing.                                       *)

LEMMA LeastNatural ==
  ASSUME NEW T, T \subseteq Nat, T # {}
  PROVE  \E m \in T : \A n \in Nat : n < m => n \notin T
<1>1. IsWellFoundedOn(OpToRel(<, Nat), Nat)
  BY NatLessThanWellFounded
<1>2. \E m \in T : \A n \in Nat : <<n, m>> \in OpToRel(<, Nat) => n \notin T
  BY <1>1, WFMin
<1>3. \A n, m \in Nat : n < m => <<n, m>> \in OpToRel(<, Nat)
  BY DEF OpToRel
<1> QED
  BY <1>2, <1>3

LEMMA FlattenEmpties ==
  ASSUME NEW n \in Nat
  PROVE  FlattenSeq([i \in 1 .. n |-> <<>>]) = <<>>
<1> DEFINE f == [i \in 1 .. n |-> <<>>]
           flat == CHOOSE g : g = [i \in 1 .. n |->
                                     IF i = 1 THEN f[i] ELSE g[i - 1] \o f[i]]
<1>1. Len(f) = n
  OBVIOUS
<1>2. <<>> \o <<>> = <<>>
  OBVIOUS
<1>3. f = [i \in 1 .. n |-> IF i = 1 THEN f[i] ELSE f[i - 1] \o f[i]]
  BY <1>2
<1>4. flat = [i \in 1 .. n |-> IF i = 1 THEN f[i] ELSE flat[i - 1] \o f[i]]
  <2> HIDE DEF f
  <2> QED
    BY <1>3
<1>5. FlattenSeq(f) = IF n = 0 THEN f ELSE flat[n]
  <2> HIDE DEF f
  <2> QED
    BY <1>1 DEF FlattenSeq
<1>6. ASSUME n # 0, flat[n] # <<>> PROVE FALSE
  <2> DEFINE T == {i \in 1 .. n : flat[i] # <<>>}
  <2>1. T \subseteq Nat /\ T # {}
    <3> HIDE DEF flat
    <3>1. n \in T
      BY <1>6
    <3> QED
      BY <3>1
  <2>2. PICK m \in T : \A k \in Nat : k < m => k \notin T
    BY <2>1, LeastNatural
  <2>3. m = 1 => flat[m] = <<>>
    BY <1>4
  <2>4. m # 1 => m - 1 \in 1 .. n /\ flat[m - 1] = <<>>
    BY <2>2
  <2>5. m # 1 => flat[m] = <<>>
    BY <1>2, <1>4, <2>4
  <2> QED
    BY <2>3, <2>5
<1>7. n = 0 => f = <<>>
  OBVIOUS
<1> QED
  BY <1>5, <1>6, <1>7

-----------------------------------------------------------------------------
(* What a step does to the mailbox of the session.                         *)

Mail == ToSet(mailbox)
Due == ToSet(pending)
Rest == ToSet(Handled)

LEMMA MailTypes ==
  ASSUME BoxTypes
  PROVE  /\ Mail \subseteq Msg /\ Due \subseteq Awaited
         /\ \A M : Count(mailbox, M) \in Nat /\ Count(pending, M) \in Nat
         /\ \A M : Count(mailbox, M) = 0 <=> Mail \cap M = {}
         /\ \A M : Count(pending, M) = 0 <=> Due \cap M = {}
<1> USE DEF BoxTypes
<1>1. /\ \A i \in DOMAIN mailbox : mailbox[i] \in Msg
      /\ \A i \in DOMAIN pending : pending[i] \in Awaited
  BY LenProperties, ElementOfSeq
<1>2. Mail \subseteq Msg /\ Due \subseteq Awaited
  BY <1>1, SetOf DEF Mail, Due
<1>3. \A M : Count(mailbox, M) \in Nat /\ Count(pending, M) \in Nat
  BY OccursFinite
<1>4. \A M : Count(mailbox, M) = 0 <=> \A i \in DOMAIN mailbox : mailbox[i] \notin M
  BY CountNone
<1>5. \A M : Count(pending, M) = 0 <=> \A i \in DOMAIN pending : pending[i] \notin M
  BY CountNone
<1>6. \A M : Count(mailbox, M) = 0 <=> Mail \cap M = {}
  BY <1>4, SetOf DEF Mail
<1>7. \A M : Count(pending, M) = 0 <=> Due \cap M = {}
  BY <1>5, SetOf DEF Due
<1> QED
  BY <1>2, <1>3, <1>6, <1>7

\* Current is handled; s is posted.
Handles(s) ==
    /\ Current \in Msg
    /\ mailbox' \in Seq(Msg)
    /\ Mail = {Current} \cup Rest
    /\ Mail' = Rest \cup ToSet(s)
    /\ \A M : /\ Count(mailbox, M) \in Nat
              /\ Count(mailbox', M) \in Nat
              /\ Count(mailbox', M) = Count(mailbox, M) - One(Current, M) + Count(s, M)

LEMMA HandlesAll ==
  ASSUME BoxTypes, mailbox # <<>>, NEW s \in Seq(Msg), mailbox' = Handled \o s
  PROVE  Handles(s)
<1>1. mailbox \in Seq(Msg)
  BY DEF BoxTypes
<1>2. /\ Current \in Msg /\ mailbox' \in Seq(Msg)
      /\ \A M : Count(mailbox', M) = Count(mailbox, M) - One(Current, M) + Count(s, M)
      /\ ToSet(mailbox) = {Current} \cup Rest
      /\ ToSet(mailbox') = Rest \cup ToSet(s)
  BY <1>1, Handling DEF Current, Handled, Rest
<1>3. \A M : Count(mailbox, M) \in Nat /\ Count(mailbox', M) \in Nat
  BY <1>1, <1>2, OccursFinite
<1> QED
  BY <1>2, <1>3 DEF Handles, Mail

LEMMA HandlesNone ==
  ASSUME BoxTypes, mailbox # <<>>, mailbox' = Handled \o <<>>
  PROVE  /\ Handles(<<>>)
         /\ Mail' = Rest
         /\ \A M : Count(mailbox', M) = Count(mailbox, M) - One(Current, M)
<1>1. Handles(<<>>)
  BY HandlesAll, EmptySeq
<1>2. \A M : Count(<<>>, M) = 0
  BY CountEmpty
<1>3. \A M : One(Current, M) \in Nat
  BY DEF One
<1> QED
  BY <1>1, <1>2, <1>3, SetOfFew DEF Handles

LEMMA HandlesOne ==
  ASSUME BoxTypes, mailbox # <<>>, NEW x \in Msg, mailbox' = Handled \o <<x>>
  PROVE  /\ Handles(<<x>>)
         /\ Mail' = Rest \cup {x}
         /\ \A M : Count(mailbox', M) = Count(mailbox, M) - One(Current, M) + One(x, M)
<1>1. <<x>> \in Seq(Msg)
  OBVIOUS
<1>2. Handles(<<x>>)
  BY <1>1, HandlesAll
<1>3. \A M : Count(<<x>>, M) = One(x, M)
  BY CountOne
<1> QED
  BY <1>2, <1>3, SetOfFew DEF Handles

LEMMA ConcatFew ==
  ASSUME NEW S, NEW x \in S, NEW y \in S
  PROVE  <<x>> \o <<y>> = <<x, y>> /\ <<>> \o <<y>> = <<y>>
<1>1. <<x>> \in Seq(S) /\ <<y>> \in Seq(S) /\ <<x, y>> = Append(<<x>>, y)
  OBVIOUS
<1> QED
  BY <1>1, AppendIsConcat, ConcatEmptySeq

LEMMA HandlesTwo ==
  ASSUME BoxTypes, mailbox # <<>>, NEW x \in Msg, NEW y \in Msg,
         mailbox' = Handled \o <<x, y>>
  PROVE  /\ Handles(<<x, y>>)
         /\ Mail' = Rest \cup {x, y}
         /\ \A M : Count(mailbox', M) = Count(mailbox, M) - One(Current, M)
                                          + One(x, M) + One(y, M)
<1>1. <<x, y>> \in Seq(Msg) /\ <<x>> \in Seq(Msg) /\ <<y>> \in Seq(Msg)
  OBVIOUS
<1>2. Handles(<<x, y>>)
  BY <1>1, HandlesAll
<1>3. <<x, y>> = <<x>> \o <<y>>
  BY ConcatFew
<1>4. \A M : Count(<<x, y>>, M) = Count(<<x>>, M) + Count(<<y>>, M)
  <2>1. \A M : Count(<<x>> \o <<y>>, M) = Count(<<x>>, M) + Count(<<y>>, M)
    BY <1>1, CountConcat
  <2> QED
    BY <1>3, <2>1
<1>5. \A M : Count(<<x, y>>, M) = One(x, M) + One(y, M)
  BY <1>4, CountOne
<1>6. ASSUME NEW M
      PROVE  Count(mailbox', M) = Count(mailbox, M) - One(Current, M)
                                    + One(x, M) + One(y, M)
  <2>1. One(x, M) \in Nat /\ One(y, M) \in Nat /\ One(Current, M) \in Nat
    BY DEF One
  <2>2. /\ Count(mailbox', M) = Count(mailbox, M) - One(Current, M)
                                  + Count(<<x, y>>, M)
        /\ Count(mailbox, M) \in Nat
    BY <1>2 DEF Handles
  <2>3. Count(<<x, y>>, M) = One(x, M) + One(y, M)
    BY <1>5
  <2>4. \A a, b, c, d \in Int : a - b + (c + d) = a - b + c + d
    OBVIOUS
  <2> QED
    BY <2>1, <2>2, <2>3, <2>4
<1>7. Mail' = Rest \cup {x, y}
  BY <1>2, SetOfFew DEF Handles
<1> QED
  BY <1>2, <1>6, <1>7

\* A message is posted by somebody else.
LEMMA PostsOne ==
  ASSUME BoxTypes, NEW x \in Msg, mailbox' = Append(mailbox, x)
  PROVE  /\ mailbox' \in Seq(Msg)
         /\ Mail' = Mail \cup {x}
         /\ \A M : /\ Count(mailbox, M) \in Nat
                   /\ Count(mailbox', M) \in Nat
                   /\ Count(mailbox', M) = Count(mailbox, M) + One(x, M)
<1>1. mailbox \in Seq(Msg) /\ <<x>> \in Seq(Msg)
  BY DEF BoxTypes
<1>2. mailbox' = mailbox \o <<x>>
  BY <1>1, AppendIsConcat
<1>3. /\ mailbox' \in Seq(Msg)
      /\ \A M : Count(mailbox', M) = Count(mailbox, M) + Count(<<x>>, M)
      /\ ToSet(mailbox') = ToSet(mailbox) \cup ToSet(<<x>>)
  <2>1. /\ mailbox \o <<x>> \in Seq(Msg)
        /\ \A M : Count(mailbox \o <<x>>, M) = Count(mailbox, M) + Count(<<x>>, M)
        /\ ToSet(mailbox \o <<x>>) = ToSet(mailbox) \cup ToSet(<<x>>)
    BY <1>1, Posting
  <2> QED
    BY <1>2, <2>1
<1>4. \A M : Count(mailbox, M) \in Nat /\ Count(mailbox', M) \in Nat
  BY <1>1, <1>3, OccursFinite
<1>5. \A M : Count(<<x>>, M) = One(x, M)
  BY CountOne
<1> QED
  BY <1>3, <1>4, <1>5, SetOfFew DEF Mail

\* Several are, by the RTP connection or when the RTSP connection is closed.
LEMMA PostsAll ==
  ASSUME BoxTypes, NEW s \in Seq(Msg), mailbox' = mailbox \o s
  PROVE  /\ mailbox' \in Seq(Msg)
         /\ Mail' = Mail \cup ToSet(s)
         /\ \A M : /\ Count(mailbox, M) \in Nat
                   /\ Count(mailbox', M) \in Nat
                   /\ Count(mailbox', M) = Count(mailbox, M) + Count(s, M)
<1>1. mailbox \in Seq(Msg)
  BY DEF BoxTypes
<1>2. /\ mailbox' \in Seq(Msg)
      /\ \A M : Count(mailbox', M) = Count(mailbox, M) + Count(s, M)
      /\ ToSet(mailbox') = ToSet(mailbox) \cup ToSet(s)
  BY <1>1, Posting
<1>3. \A M : Count(mailbox, M) \in Nat /\ Count(mailbox', M) \in Nat
  BY <1>1, <1>2, OccursFinite
<1> QED
  BY <1>2, <1>3 DEF Mail

\* The replies to requests that will not be answered, and another message.
LEMMA FlushedAre ==
  ASSUME BoxTypes
  PROVE  /\ Flushed \in Seq(Awaited) /\ Flushed \in Seq(Msg)
         /\ DOMAIN Flushed = DOMAIN pending
         /\ \A i \in DOMAIN pending : /\ pending[i] \in Awaited
                                      /\ Flushed[i] = With(pending[i], "error")
         /\ ToSet(Flushed) = {With(r, "error") : r \in Due}
         /\ \A M : (\A r \in Awaited : r \in M <=> With(r, "error") \in M)
                     => Count(Flushed, M) = Count(pending, M)
<1>1. /\ pending \in Seq(Awaited) /\ Len(pending) \in Nat
      /\ DOMAIN pending = 1 .. Len(pending)
  BY LenProperties DEF BoxTypes
<1>2. \A i \in DOMAIN pending : pending[i] \in Awaited
  BY <1>1, ElementOfSeq
<1>3. "error" \in Result
  BY DEF Result
<1>4. \A i \in DOMAIN pending : With(pending[i], "error") \in Awaited
  BY <1>2, <1>3, AwaitedAre
<1>5. /\ DOMAIN Flushed = DOMAIN pending
      /\ \A i \in DOMAIN pending : Flushed[i] = With(pending[i], "error")
  BY DEF Flushed
<1>6. Flushed \in [1 .. Len(pending) -> Awaited]
  BY <1>1, <1>4 DEF Flushed
<1>7. Flushed \in Seq(Awaited)
  BY <1>1, <1>6, SeqDef
<1>8. Flushed \in Seq(Msg)
  BY <1>7, Posted, SeqMonotonic
<1>9. ToSet(Flushed) = {With(r, "error") : r \in Due}
  <2>1. ASSUME NEW x \in ToSet(Flushed) PROVE \E r \in Due : x = With(r, "error")
    <3>1. PICK i \in DOMAIN Flushed : x = Flushed[i]
      BY SetOf
    <3>2. pending[i] \in Due
      BY <1>5, SetOf DEF Due
    <3> QED
      BY <1>5, <3>1, <3>2
  <2>2. ASSUME NEW r \in Due PROVE With(r, "error") \in ToSet(Flushed)
    <3>1. PICK i \in DOMAIN pending : r = pending[i]
      BY SetOf DEF Due
    <3>2. Flushed[i] \in ToSet(Flushed)
      BY <1>5, SetOf
    <3> QED
      BY <1>5, <3>1, <3>2
  <2> QED
    BY <2>1, <2>2
<1>10. ASSUME NEW M, \A r \in Awaited : r \in M <=> With(r, "error") \in M
       PROVE  Count(Flushed, M) = Count(pending, M)
  <2>1. Occurs(Flushed, M) = Occurs(pending, M)
    BY <1>2, <1>5, <1>10 DEF Occurs
  <2> QED
    BY <2>1 DEF Count
<1> QED
  BY <1>2, <1>5, <1>7, <1>8, <1>9, <1>10

LEMMA HandlesFlushed ==
  ASSUME BoxTypes, mailbox # <<>>, NEW x \in Msg,
         mailbox' = Handled \o Flushed \o <<x>>
  PROVE  /\ Handles(Flushed \o <<x>>)
         /\ Mail' = Rest \cup {With(r, "error") : r \in Due} \cup {x}
         /\ \A M : (\A r \in Awaited : r \in M <=> With(r, "error") \in M)
                     => Count(mailbox', M) = Count(mailbox, M) - One(Current, M)
                          + Count(pending, M) + One(x, M)
<1>1. mailbox \in Seq(Msg) /\ Flushed \in Seq(Msg) /\ <<x>> \in Seq(Msg)
  BY FlushedAre DEF BoxTypes
<1>2. Handled \in Seq(Msg)
  BY <1>1, HeadTailProperties DEF Handled
<1>3. mailbox' = Handled \o (Flushed \o <<x>>)
  BY <1>1, <1>2, ConcatAssociative
<1>4. /\ Flushed \o <<x>> \in Seq(Msg)
      /\ \A M : Count(Flushed \o <<x>>, M) = Count(Flushed, M) + Count(<<x>>, M)
      /\ ToSet(Flushed \o <<x>>) = ToSet(Flushed) \cup ToSet(<<x>>)
  BY <1>1, Posting
<1>5. Handles(Flushed \o <<x>>)
  BY <1>3, <1>4, HandlesAll
<1>6. Mail' = Rest \cup {With(r, "error") : r \in Due} \cup {x}
  BY <1>4, <1>5, FlushedAre, SetOfFew DEF Handles
<1>7. ASSUME NEW M, \A r \in Awaited : r \in M <=> With(r, "error") \in M
      PROVE  Count(mailbox', M) = Count(mailbox, M) - One(Current, M)
                                    + Count(pending, M) + One(x, M)
  <2>1. Count(Flushed, M) = Count(pending, M)
    BY <1>7, FlushedAre
  <2>2. Count(<<x>>, M) = One(x, M)
    BY CountOne
  <2>3. /\ Count(mailbox', M) = Count(mailbox, M) - One(Current, M)
                                  + Count(Flushed \o <<x>>, M)
        /\ Count(mailbox, M) \in Nat
    BY <1>5 DEF Handles
  <2>4. /\ Count(pending, M) \in Nat /\ One(x, M) \in Nat
        /\ One(Current, M) \in Nat
    BY MailTypes DEF One
  <2> QED
    BY <1>4, <2>1, <2>2, <2>3, <2>4
<1> QED
  BY <1>5, <1>6, <1>7

-----------------------------------------------------------------------------
(* The steps, and what all of a kind leave alone.                          *)

ConnectionFrame == UNCHANGED <<netVars, open, crashed, sessionVars, playerVars>>
LooperFrame == UNCHANGED <<serverVars, streams, pollPending, flags, reportDue,
                           reported, rx, player, playing, underrun, seeks>>
ControllerFrame == /\ Posts(<<>>)
                   /\ UNCHANGED <<sessionVars, netbox, open>>
NetFrame == UNCHANGED <<open, sessionVars, serverVars, playerVars>>
ServerFrame == UNCHANGED <<sessionVars, playerVars>>
PlayerFrame == UNCHANGED <<streams, pollPending, flags, reportDue, reported, rx,
                           serverVars>>
WaitFrame == UNCHANGED <<netbox, open, crashed>>

ConnectionStep == /\ mailbox # <<>> /\ ConnectionFrame
                  /\ ConnConnect \/ ConnDisconnect \/ ConnSendRequest
HandlerStep == mailbox # <<>> /\ LooperFrame /\ Handler
ControllerStep == /\ mailbox # <<>> /\ LooperFrame /\ ControllerFrame
                  /\ OnConnectDone \/ OnDisconnectDone \/ OnSeekDone
NetworkStep == /\ netbox # <<>> /\ NetFrame
               /\ \/ OnAddStream \/ OnRemoveStream \/ OnPollStreams
                  \/ OnInjectPacket \/ OnFakeTimestamps
ServerStep == /\ ServerFrame
              /\ ServerAnswers \/ ConnectionLost \/ ServerSendsInterleaved
WaitStep == /\ PlayerFrame /\ WaitFrame
            /\ \/ Prepare \/ ConnectReturns \/ BufferingUpdate
               \/ DisconnectReturns \/ Play \/ Decode \/ StreamDone \/ Reset
SeekStep == PlayerFrame /\ Seek
FailStep == /\ CheckFails
            /\ crashed' # Alive
            /\ UNCHANGED <<netVars, open, mailbox, sessionVars, serverVars,
                           playerVars>>

LEMMA Steps ==
  ASSUME Next
  PROVE  /\ crashed = Alive /\ player \notin {"refused", "gone"}
         /\ \/ ConnectionStep \/ HandlerStep \/ ControllerStep \/ NetworkStep
            \/ ServerStep \/ WaitStep \/ SeekStep \/ FailStep
            \/ \E m \in timers : Expires(m)
<1>1. crashed = Alive /\ player \notin {"refused", "gone"}
  BY DEF Next, Running
<1>2. CASE Looper
  BY <1>1, <1>2 DEF Looper, Connection, Controller, ConnectionStep, ConnectionFrame,
              HandlerStep, LooperFrame, ControllerStep, ControllerFrame
<1>3. CASE NetStep
  BY <1>1, <1>3 DEF NetStep, NetLooper, NetworkStep, NetFrame
<1>4. CASE Server
  BY <1>1, <1>4 DEF Server, ServerStep, ServerFrame
<1>5. CASE Player
  BY <1>1, <1>5 DEF Player, Waits, WaitStep, SeekStep, PlayerFrame, WaitFrame
<1>6. CASE CheckFails
  <2>1. UNCHANGED <<netVars, open, mailbox, sessionVars, serverVars, playerVars>>
    BY <1>6 DEF CheckFails, PollFails
  <2>2. crashed' # Alive
    BY <1>6 DEF CheckFails, PollFails, DescFails, SetuFails, PlayFails, TrackFails,
                UnitMissing, URLFails, Alive
  <2> QED
    BY <1>1, <1>6, <2>1, <2>2 DEF FailStep
<1> QED
  BY <1>1, <1>2, <1>3, <1>4, <1>5, <1>6 DEF Next

-----------------------------------------------------------------------------
(* Types are kept.                                                         *)

\* What a track's SETUP posts.
SetupMsg(index, list, sources, x) ==
    /\ Posts(<<x>>)
    /\ \/ x = With(SetuReply(index, NoTrack), "error")
       \/ x = Ask(SetuReply(index, Len(list) + 1))

LEMMA SetupPosts ==
  ASSUME NEW index \in 1 .. NumTracks, NEW list \in Seq(TrackType), NEW sources,
         SetupTrack(index, list, sources)
  PROVE  \E x \in Msg : SetupMsg(index, list, sources, x)
<1>1. Len(list) + 1 \in Nat \ {NoTrack}
  BY LenProperties DEF NoTrack
<1>2. /\ With(SetuReply(index, NoTrack), "error") \in Skips
      /\ SetuReply(index, Len(list) + 1) \in Awaited
  BY <1>1, AwaitedAre
<1>3. /\ With(SetuReply(index, NoTrack), "error") \in Msg
      /\ Ask(SetuReply(index, Len(list) + 1)) \in Msg
  BY <1>2, Posted
<1> QED
  BY <1>3 DEF SetupTrack, SetupMsg

LEMMA ConnectionBoxTypes == TypeOK /\ ConnectionStep => BoxTypes'
<1> SUFFICES ASSUME TypeOK, ConnectionStep PROVE BoxTypes'
  OBVIOUS
<1> USE DEF ConnectionStep, TypeOK
<1>1. timers' = timers
  BY DEF ConnectionFrame, sessionVars
<1>2. CASE ConnConnect
  <2>1. PICK ok \in BOOLEAN :
            mailbox' = Handled \o Flushed
                         \o <<With(Reply("conn"), IF ok THEN "ok" ELSE "error")>>
    BY <1>2 DEF ConnConnect
  <2>2. With(Reply("conn"), IF ok THEN "ok" ELSE "error")
          = [what |-> "conn", result |-> IF ok THEN "ok" ELSE "error"]
    BY DEF With, Reply
  <2>3. With(Reply("conn"), IF ok THEN "ok" ELSE "error") \in Msg
    BY <2>2, Posted DEF Result
  <2>4. mailbox' \in Seq(Msg)
    BY <2>1, <2>3, HandlesFlushed DEF Handles
  <2>5. pending' \in Seq(Awaited)
    BY <1>2 DEF ConnConnect
  <2> QED
    BY <1>1, <2>4, <2>5 DEF BoxTypes
<1>3. CASE ConnDisconnect
  <2>1. Current \in Msg /\ Current.what = "disconnect"
    BY <1>3, HeadTailProperties DEF BoxTypes, Current, ConnDisconnect
  <2>2. Current.reply \in Msg
    BY <2>1, MsgFields, Posted
  <2>3. mailbox' \in Seq(Msg)
    BY <1>3, <2>2, HandlesFlushed DEF Handles, ConnDisconnect
  <2>4. pending' \in Seq(Awaited)
    BY <1>3 DEF ConnDisconnect
  <2> QED
    BY <1>1, <2>3, <2>4 DEF BoxTypes
<1>4. CASE ConnSendRequest
  <2>1. Current \in Msg /\ Current.what = "send" /\ Handled \in Seq(Msg)
    BY <1>4, HeadTailProperties DEF BoxTypes, Current, Handled, ConnSendRequest
  <2>2. Current.reply \in Awaited /\ "error" \in Result
    BY <2>1, MsgFields DEF Result
  <2>3. With(Current.reply, "error") \in Msg
    BY <2>2, AwaitedAre, Posted
  <2>4. /\ Handled \in Seq(Msg) /\ pending \in Seq(Awaited)
        /\ Append(Handled, With(Current.reply, "error")) \in Seq(Msg)
        /\ Append(pending, Current.reply) \in Seq(Awaited)
    BY <2>1, <2>2, <2>3, AppendProperties DEF BoxTypes
  <2>5. mailbox' \in Seq(Msg) /\ pending' \in Seq(Awaited)
    BY <1>4, <2>4 DEF ConnSendRequest
  <2> QED
    BY <1>1, <2>5 DEF BoxTypes
<1> QED
  BY <1>2, <1>3, <1>4

\* What is posted when Current is handled.
TakesNone == mailbox' = Handled \o <<>>
Takes(x) == x \in Msg /\ mailbox' = Handled \o <<x>>
TakesTwo(x, y) == x \in Msg /\ y \in Msg /\ mailbox' = Handled \o <<x, y>>

LEMMA CurrentIs ==
  ASSUME TypeOK, mailbox # <<>>
  PROVE  /\ Current \in Msg /\ Handled \in Seq(Msg)
         /\ Current \in Mail /\ Mail = {Current} \cup Rest
BY Handling DEF TypeOK, BoxTypes, Current, Handled, Mail, Rest

\* The messages of each handler.
LEMMA OnConnPosts ==
  ASSUME TypeOK, HandlerStep, OnConn
  PROVE  IF Failed(Current) THEN Takes(Disc(FALSE)) ELSE Takes(Ask(DescReply(0)))
<1>1. Disc(FALSE) \in Msg /\ Ask(DescReply(0)) \in Msg
  BY AwaitedAre, Posted
<1> QED
  BY <1>1 DEF OnConn, Posts, Takes

LEMMA OnDiscPosts ==
  ASSUME TypeOK, HandlerStep, OnDisc
  PROVE  IF Current.again THEN Takes(Connect) ELSE Takes([what |-> "quit"])
<1>1. Connect \in Msg /\ [what |-> "quit"] \in Msg
  BY Posted
<1> QED
  BY <1>1 DEF OnDisc, Posts, Takes

LEMMA OnDescPosts ==
  ASSUME TypeOK, HandlerStep, OnDesc, SessionAssumption
  PROVE  \/ /\ Current.result = "moved"
            /\ Takes(Ask(DescReply(Current.moved + 1)))
            /\ UNCHANGED <<tracks, source, open>>
         \/ /\ Current.result \in {"refused", "error"}
            /\ Takes(Disconnect(Disc(FALSE)))
            /\ UNCHANGED <<tracks, source, open>>
         \/ /\ Current.result = "ok"
            /\ \E x : Takes(x) /\ SetupMsg(1, tracks, source, x)
<1>1. Current \in Msg /\ Current.what = "desc"
  BY CurrentIs DEF HandlerStep, OnDesc
<1>2. Current.moved + 1 \in Nat
  BY <1>1, MsgFields, AwaitedFields
<1>3. Ask(DescReply(Current.moved + 1)) \in Msg /\ Disconnect(Disc(FALSE)) \in Msg
  BY <1>2, AwaitedAre, Posted
<1>4. ASSUME SetupTrack(1, tracks, source)
      PROVE  \E x : Takes(x) /\ SetupMsg(1, tracks, source, x)
  <2>1. 1 \in 1 .. NumTracks /\ tracks \in Seq(TrackType)
    BY SessionAssumption DEF TypeOK, SessionTypes
  <2> QED
    BY <1>4, <2>1, SetupPosts DEF SetupMsg, Takes, Posts
<1> QED
  BY <1>3, <1>4 DEF OnDesc, Takes, Posts

\* What SETUP's response leaves of the tracks and the sources.
IsSet == ~Failed(Current)
KeptTracks == IF IsSet \/ Current.track = NoTrack THEN tracks
              ELSE RemoveAt(tracks, Current.track)
KeptSources == IF IsSet \/ Current.track = NoTrack THEN source
               ELSE Restrict(source, DOMAIN source \ {Current.index})
SetupReady == IsSet \/ handler.setupOK
TrackGone == Current.track # NoTrack /\ Current.track \notin DOMAIN tracks

LEMMA KeptTypes ==
  ASSUME TypeOK, mailbox # <<>>, Current.what = "setu", ~TrackGone
  PROVE  /\ Current.index \in 1 .. NumTracks /\ Current.track \in Nat
         /\ KeptTracks \in Seq(TrackType)
         /\ DOMAIN KeptSources \subseteq DOMAIN source
         /\ \A i \in DOMAIN KeptSources : KeptSources[i] = source[i]
         /\ KeptSources \in [DOMAIN KeptSources -> SourceType]
<1>1. Current.index \in 1 .. NumTracks /\ Current.track \in Nat
  BY CurrentIs, MsgFields
<1>2. tracks \in Seq(TrackType) /\ DOMAIN tracks = 1 .. Len(tracks)
  BY LenProperties DEF TypeOK, SessionTypes
<1>3. KeptTracks \in Seq(TrackType)
  <2>1. CASE IsSet \/ Current.track = NoTrack
    BY <1>2, <2>1 DEF KeptTracks
  <2>2. CASE ~(IsSet \/ Current.track = NoTrack)
    <3>1. Current.track \in 1 .. Len(tracks) /\ Len(tracks) \in Nat
      BY <1>2, <2>2, LenProperties DEF TrackGone
    <3>2. /\ \A i \in 1 .. Current.track - 1 : tracks[i] \in TrackType
          /\ \A i \in Current.track + 1 .. Len(tracks) : tracks[i] \in TrackType
      BY <1>2, <3>1, ElementOfSeq
    <3>3. /\ SubSeq(tracks, 1, Current.track - 1) \in Seq(TrackType)
          /\ SubSeq(tracks, Current.track + 1, Len(tracks)) \in Seq(TrackType)
      BY <1>2, <3>1, <3>2, SubSeqProperties
    <3>4. RemoveAt(tracks, Current.track) \in Seq(TrackType)
      BY <3>3, ConcatProperties DEF RemoveAt
    <3> QED
      BY <2>2, <3>4 DEF KeptTracks
  <2> QED
    BY <2>1, <2>2
<1>4. source \in [DOMAIN source -> SourceType]
  BY DEF TypeOK, SessionTypes
<1>5. /\ DOMAIN KeptSources \subseteq DOMAIN source
      /\ \A i \in DOMAIN KeptSources : KeptSources[i] = source[i]
      /\ KeptSources \in [DOMAIN KeptSources -> SourceType]
  BY <1>4 DEF KeptSources, Restrict
<1> QED
  BY <1>1, <1>3, <1>5

LEMMA OnSetuPosts ==
  ASSUME TypeOK, HandlerStep, OnSetu, SessionAssumption
  PROVE  IF TrackGone
         THEN /\ crashed' = "setting up a track that is gone"
              /\ UNCHANGED <<mailbox, sessionVars, netbox, open, state, seekDone>>
         ELSE /\ crashed' = crashed
              /\ handler' = [handler EXCEPT !.setupOK = SetupReady]
              /\ UNCHANGED <<timers, state, seekDone>>
              /\ open' = (open \ PairsOf(tracks)) \cup PairsOf(tracks')
              /\ IF IsSet
                 THEN /\ Current.track \in DOMAIN tracks
                      /\ netbox' = netbox \o <<AddStream(
                             tracks[Current.track].socket, Current.track,
                             handler.tryTCP)>>
                 ELSE netbox' = netbox \o <<>>
              /\ \/ /\ Current.index < NumTracks
                    /\ SetupTrack(Current.index + 1, KeptTracks, KeptSources)
                    /\ \E x : /\ Takes(x)
                              /\ SetupMsg(Current.index + 1, KeptTracks,
                                          KeptSources, x)
                 \/ /\ Current.index = NumTracks
                    /\ tracks' = KeptTracks
                    /\ source' = KeptSources
                    /\ IF SetupReady THEN Takes(Ask(Reply("play")))
                       ELSE Takes(Disconnect(Disc(FALSE)))
<1>1. Current.what = "setu" /\ mailbox # <<>>
  BY DEF HandlerStep, OnSetu
<1>2. CASE TrackGone
  BY <1>2 DEF OnSetu, TrackGone, Dies
<1>3. CASE ~TrackGone
  <2>1. /\ crashed' = crashed
        /\ handler' = [handler EXCEPT !.setupOK = SetupReady]
        /\ UNCHANGED <<timers, state, seekDone>>
        /\ open' = (open \ PairsOf(tracks)) \cup PairsOf(tracks')
        /\ netbox' = netbox \o (IF IsSet
                                 THEN <<AddStream(tracks[Current.track].socket,
                                         Current.track, handler.tryTCP)>>
                                 ELSE <<>>)
        /\ IF Current.index < NumTracks
           THEN SetupTrack(Current.index + 1, KeptTracks, KeptSources)
           ELSE /\ tracks' = KeptTracks
                /\ source' = KeptSources
                /\ Posts(<<IF SetupReady THEN Ask(Reply("play"))
                           ELSE Disconnect(Disc(FALSE))>>)
    BY <1>3 DEF OnSetu, TrackGone, SetupReady, IsSet, KeptTracks, KeptSources,
                Posts, PostsToRTP, SetupTrack
  <2>5. IsSet => Current.track \in DOMAIN tracks
    <3>1. IsSet => Current.track # NoTrack
      BY <1>1, CurrentIs, MsgFields DEF IsSet, Failed
    <3> QED
      BY <1>3, <3>1 DEF TrackGone
  <2>2. Current.index \in 1 .. NumTracks /\ NumTracks \in Nat
    BY <1>1, <1>3, KeptTypes, SessionAssumption
  <2>3. CASE Current.index < NumTracks
    <3>1. SetupTrack(Current.index + 1, KeptTracks, KeptSources)
      BY <2>1, <2>3
    <3>2. Current.index + 1 \in 1 .. NumTracks /\ KeptTracks \in Seq(TrackType)
      BY <1>1, <1>3, <2>2, <2>3, KeptTypes
    <3>3. \E x \in Msg : SetupMsg(Current.index + 1, KeptTracks, KeptSources, x)
      BY <3>1, <3>2, SetupPosts
    <3>4. \E x : Takes(x) /\ SetupMsg(Current.index + 1, KeptTracks, KeptSources, x)
      BY <3>3 DEF SetupMsg, Takes, Posts
    <3> QED
      BY <1>3, <2>1, <2>3, <2>5, <3>1, <3>4
  <2>4. CASE ~(Current.index < NumTracks)
    <3>1. Current.index = NumTracks
      BY <2>2, <2>4
    <3>2. Ask(Reply("play")) \in Msg /\ Disconnect(Disc(FALSE)) \in Msg
      BY AwaitedAre, Posted
    <3>3. IF SetupReady THEN Takes(Ask(Reply("play")))
          ELSE Takes(Disconnect(Disc(FALSE)))
      BY <2>1, <2>4, <3>2 DEF Posts, Takes
    <3> QED
      BY <1>3, <2>1, <2>4, <2>5, <3>1, <3>3
  <2> QED
    BY <2>3, <2>4
<1> QED
  BY <1>2, <1>3

LEMMA OnPlayPosts ==
  ASSUME TypeOK, HandlerStep, OnPlay
  PROVE  IF Failed(Current) THEN Takes(Disconnect(Disc(FALSE))) ELSE TakesNone
<1>1. Disconnect(Disc(FALSE)) \in Msg
  BY Posted
<1> QED
  BY <1>1 DEF OnPlay, Posts, Takes, TakesNone

LEMMA OnAborPosts ==
  ASSUME TypeOK, HandlerStep, OnAbor
  PROVE  /\ Current \in {Abor(TRUE), Abor(FALSE)}
         /\ \/ /\ TracksRead
               /\ crashed' = "reading a track that is gone"
               /\ UNCHANGED <<mailbox, sessionVars, netbox, open, state, seekDone>>
            \/ /\ crashed' = crashed
               /\ Takes(Ask(TearReply(Current.again)))
               /\ tracks' = <<>>
               /\ handler' = HandlerAfterAbort
               /\ open' = OpenAfterAbort
               /\ netbox' = netbox \o StreamsRemoved
               /\ source' = Kept([i \in DOMAIN source |->
                      IF \E t \in DOMAIN tracks : tracks[t].index = i
                      THEN SignalEOS(source[i]) ELSE source[i]])
               /\ UNCHANGED <<timers, state, seekDone>>
<1>1. Current \in Msg /\ Current.what = "abor"
  BY CurrentIs DEF HandlerStep, OnAbor
<1>2. Current.again \in BOOLEAN /\ Current = Abor(Current.again)
  BY <1>1, MsgFields
<1>3. Ask(TearReply(Current.again)) \in Msg
  BY <1>2, AwaitedAre, Posted
<1>4. Current \in {Abor(TRUE), Abor(FALSE)}
  BY <1>2
<1> QED
  BY <1>3, <1>4 DEF OnAbor, Calm, Posts, PostsToRTP, Takes, Dies

LEMMA OnTearPosts ==
  ASSUME TypeOK, HandlerStep, OnTear
  PROVE  Current.again \in BOOLEAN /\ Takes(Disconnect(Disc(Current.again)))
<1>1. Current \in Msg /\ Current.what = "tear"
  BY CurrentIs DEF HandlerStep, OnTear
<1>2. Current.again \in BOOLEAN
  BY <1>1, MsgFields, AwaitedFields
<1> QED
  BY <1>2, Posted DEF OnTear, Posts, Takes

LEMMA OnQuitPosts ==
  ASSUME TypeOK, HandlerStep, OnQuit
  PROVE  IF handler.doneMsg = None THEN TakesNone
         ELSE Takes([what |-> handler.doneMsg, result |-> "error"])
<1>1. handler.doneMsg \in {None, "cdon", "ddon"}
  BY DEF TypeOK, SessionTypes, HandlerType
<1>2. handler.doneMsg # None =>
         [what |-> handler.doneMsg, result |-> "error"] \in Msg
  BY <1>1, Posted DEF Result
<1> QED
  BY <1>2 DEF OnQuit, Posts, Takes, TakesNone

LEMMA OnChekPosts ==
  ASSUME TypeOK, HandlerStep, OnChek
  PROVE  /\ Current \in CheckMsgs /\ Current = Chek(Current.generation)
         /\ Current.generation \in Nat
         /\ \/ /\ Current.generation # handler.checkGen
               /\ TakesNone
               /\ UNCHANGED <<handler, timers>>
            \/ /\ Current.generation = handler.checkGen
               /\ ~handler.units
               /\ Takes(Abor(FALSE))
               /\ UNCHANGED <<handler, timers>>
            \/ /\ Current.generation = handler.checkGen
               /\ handler.units
               /\ TakesNone
               /\ handler' = [handler EXCEPT !.units = FALSE]
               /\ timers' = timers \cup {Current}
<1>1. Current \in Msg /\ Current.what = "chek"
  BY CurrentIs DEF HandlerStep, OnChek
<1>2. Current.generation \in Nat /\ Current = Chek(Current.generation)
  BY <1>1, MsgFields
<1>3. Current \in CheckMsgs
  BY <1>2, Posted
<1>4. Abor(FALSE) \in Msg
  BY Posted
<1> QED
  BY <1>2, <1>3, <1>4 DEF OnChek, UpToDate, CheckedAgain, Posts, Takes, TakesNone

\* The check is posted with an access unit, whatever comes of the unit.
LEMMA OnAccessUnitPosts ==
  ASSUME TypeOK, HandlerStep, OnAccessUnit
  PROVE  /\ Current \in Notices
         /\ \/ /\ ~Wanted(Current) \/ ~handler.firstUnit
               /\ TakesNone
               /\ crashed' = crashed
               /\ handler' = CheckPosted([handler EXCEPT !.units = TRUE])
               /\ timers' = TimersWithCheck(handler)
            \/ /\ Wanted(Current) /\ handler.firstUnit /\ handler.doneMsg = None
               /\ crashed' = "first unit"
               /\ UNCHANGED <<mailbox, sessionVars>>
            \/ /\ Wanted(Current) /\ handler.firstUnit
               /\ handler.doneMsg \in {"cdon", "ddon"}
               /\ Takes([what |-> handler.doneMsg, result |-> "ok"])
               /\ crashed' = crashed
               /\ handler' = [CheckPosted([handler EXCEPT !.units = TRUE])
                                EXCEPT !.firstUnit = FALSE, !.doneMsg = None]
               /\ timers' = TimersWithCheck(handler)
         /\ crashed' # "first unit" =>
              /\ tracks' = tracks
              /\ source' = IF Wanted(Current)
                           THEN [source EXCEPT ![tracks[Current.track].index] =
                                    QueueAccessUnit(@, Current.unit[1])]
                           ELSE source
         /\ UNCHANGED <<netbox, open, state, seekDone>>
<1>1. Current \in Msg /\ Current.what = "accu" /\ Alive # "first unit"
  BY CurrentIs DEF HandlerStep, OnAccessUnit, Alive
<1>2. Current \in Notices
  BY <1>1, MsgFields
<1>3. handler.doneMsg \in {None, "cdon", "ddon"}
  BY DEF TypeOK, SessionTypes, HandlerType
<1>4. handler.doneMsg # None =>
         [what |-> handler.doneMsg, result |-> "ok"] \in Msg
  BY <1>3, Posted DEF Result
<1>5. UNCHANGED <<netbox, open, state, seekDone>>
  BY DEF OnAccessUnit, Calm
<1>6. CASE ~Wanted(Current)
  BY <1>2, <1>5, <1>6 DEF OnAccessUnit, Posts, TakesNone
<1>7. CASE Wanted(Current) /\ ~handler.firstUnit
  BY <1>2, <1>5, <1>7 DEF OnAccessUnit, Queue, Posts, TakesNone
<1>8. CASE Wanted(Current) /\ handler.firstUnit /\ handler.doneMsg = None
  BY <1>2, <1>5, <1>8 DEF OnAccessUnit, Dies
<1>9. CASE Wanted(Current) /\ handler.firstUnit /\ handler.doneMsg # None
  BY <1>2, <1>3, <1>4, <1>5, <1>9 DEF OnAccessUnit, Queue, Posts, Takes
<1> QED
  BY <1>6, <1>7, <1>8, <1>9

LEMMA OnSeekPosts ==
  ASSUME TypeOK, HandlerStep, OnSeek
  PROVE  \/ /\ handler.seekPending \/ ~handler.seekable
            /\ Takes([what |-> "sdon"])
            /\ UNCHANGED handler
         \/ /\ ~handler.seekPending /\ handler.seekable
            /\ Takes(Ask(Reply("see1")))
            /\ handler' = [handler EXCEPT !.seekPending = TRUE,
                                          !.checkPending = TRUE,
                                          !.checkGen = @ + 1]
<1>1. [what |-> "sdon"] \in Msg /\ Ask(Reply("see1")) \in Msg
  BY AwaitedAre, Posted
<1> QED
  BY <1>1 DEF OnSeek, Posts, Takes

LEMMA OnSee1Posts ==
  ASSUME TypeOK, HandlerStep, OnSee1
  PROVE  Takes(Ask(Reply("see2")))
<1>1. Ask(Reply("see2")) \in Msg
  BY AwaitedAre, Posted
<1> QED
  BY <1>1 DEF OnSee1, Posts, Takes

LEMMA OnSee2Posts ==
  ASSUME TypeOK, HandlerStep, OnSee2
  PROVE  \/ /\ ~handler.seekPending
            /\ crashed' = "seek not pending"
            /\ UNCHANGED <<mailbox, sessionVars>>
         \/ /\ handler.seekPending
            /\ crashed' = crashed
            /\ IF Failed(Current) THEN TakesTwo(Abor(FALSE), [what |-> "sdon"])
               ELSE Takes([what |-> "sdon"])
<1>1. Abor(FALSE) \in Msg /\ [what |-> "sdon"] \in Msg
  BY Posted
<1>2. CASE ~handler.seekPending
  BY <1>2 DEF OnSee2, Dies
<1>3. CASE handler.seekPending
  <2>1. crashed' = crashed /\ mailbox' = Handled \o DoneOfSeek(Failed(Current))
    BY <1>3 DEF OnSee2, Posts
  <2>2. CASE Failed(Current)
    <3>1. DoneOfSeek(Failed(Current)) = <<Abor(FALSE), [what |-> "sdon"]>>
      BY <1>1, <2>2, ConcatFew DEF DoneOfSeek
    <3> QED
      BY <1>1, <1>3, <2>1, <2>2, <3>1 DEF TakesTwo
  <2>3. CASE ~Failed(Current)
    <3>1. DoneOfSeek(Failed(Current)) = <<[what |-> "sdon"]>>
      BY <1>1, <2>3, ConcatFew DEF DoneOfSeek
    <3> QED
      BY <1>1, <1>3, <2>1, <2>3, <3>1 DEF Takes
  <2> QED
    BY <2>2, <2>3
<1> QED
  BY <1>2, <1>3

LEMMA OnTiouPosts ==
  ASSUME TypeOK, HandlerStep, OnTiou
  PROVE  /\ Current = Tiou
         /\ \/ TakesNone
            \/ /\ Takes(Abor(TRUE))
               /\ ~handler.gotRTCP /\ ~handler.gotRTP /\ ~handler.tryTCP
               /\ handler' = [handler EXCEPT !.tryTCP = TRUE]
               /\ UNCHANGED netbox
            \/ /\ Takes(Abor(FALSE))
               /\ IF handler.gotRTP THEN handler.tryFake ELSE handler.tryTCP
               /\ UNCHANGED <<handler, netbox>>
<1>1. Current \in Msg /\ Current.what = "tiou"
  BY CurrentIs DEF HandlerStep, OnTiou
<1>2. Current = Tiou
  BY <1>1, MsgFields
<1>3. Abor(TRUE) \in Msg /\ Abor(FALSE) \in Msg
  BY Posted
<1> QED
  BY <1>2, <1>3 DEF OnTiou, Posts, Takes, TakesNone, Interleaving

LEMMA TakesTypes ==
  ASSUME TypeOK, mailbox # <<>>
  PROVE  /\ TakesNone => mailbox' \in Seq(Msg)
         /\ \A x : Takes(x) => mailbox' \in Seq(Msg)
         /\ \A x, y : TakesTwo(x, y) => mailbox' \in Seq(Msg)
<1>1. BoxTypes
  BY DEF TypeOK
<1>2. TakesNone => mailbox' \in Seq(Msg)
  BY <1>1, HandlesNone DEF TakesNone, Handles
<1>3. ASSUME NEW x, Takes(x) PROVE mailbox' \in Seq(Msg)
  BY <1>1, <1>3, HandlesOne DEF Takes, Handles
<1>4. ASSUME NEW x, NEW y, TakesTwo(x, y) PROVE mailbox' \in Seq(Msg)
  BY <1>1, <1>4, HandlesTwo DEF TakesTwo, Handles
<1> QED
  BY <1>2, <1>3, <1>4

LEMMA CheckTypes ==
  ASSUME TypeOK, NEW hd \in HandlerType
  PROVE  /\ TimersWithCheck(hd) \subseteq {Tiou} \cup CheckMsgs
         /\ timers \subseteq TimersWithCheck(hd)
<1>1. Chek(hd.checkGen) \in CheckMsgs
  BY Posted DEF HandlerType
<1> QED
  BY <1>1 DEF TimersWithCheck, TypeOK, BoxTypes

LEMMA HandlerBoxTypes == TypeOK /\ HandlerStep /\ SessionAssumption => BoxTypes'
<1> SUFFICES ASSUME TypeOK, HandlerStep, SessionAssumption PROVE BoxTypes'
  OBVIOUS
<1>1. /\ mailbox # <<>> /\ mailbox \in Seq(Msg) /\ pending \in Seq(Awaited)
      /\ timers \subseteq {Tiou} \cup CheckMsgs
  BY DEF HandlerStep, TypeOK, BoxTypes
<1>2. pending' = pending
  BY DEF HandlerStep, LooperFrame, serverVars
<1>3. ASSUME timers' \subseteq {Tiou} \cup CheckMsgs,
             \/ mailbox' = mailbox \/ TakesNone
             \/ \E x : Takes(x)
             \/ \E x, y : TakesTwo(x, y)
      PROVE  BoxTypes'
  <2>1. mailbox' \in Seq(Msg)
    BY <1>1, <1>3, TakesTypes
  <2> QED
    BY <1>1, <1>2, <1>3, <2>1 DEF BoxTypes
<1>4. CASE OnConn
  BY <1>1, <1>3, <1>4, OnConnPosts DEF OnConn, sessionVars
<1>5. CASE OnDisc
  BY <1>1, <1>3, <1>5, OnDiscPosts DEF OnDisc, sessionVars
<1>6. CASE OnDesc
  BY <1>1, <1>3, <1>6, OnDescPosts DEF OnDesc
<1>7. CASE OnSetu
  BY <1>1, <1>3, <1>7, OnSetuPosts DEF sessionVars
<1>8. CASE OnPlay
  <2>1. timers' \subseteq {Tiou} \cup CheckMsgs
    BY <1>1, <1>8 DEF OnPlay
  <2> QED
    BY <1>3, <1>8, <2>1, OnPlayPosts
<1>9. CASE OnAbor
  BY <1>1, <1>3, <1>9, OnAborPosts DEF sessionVars
<1>10. CASE OnTear
  BY <1>1, <1>3, <1>10, OnTearPosts DEF OnTear, sessionVars
<1>11. CASE OnQuit
  BY <1>1, <1>3, <1>11, OnQuitPosts DEF OnQuit
<1>12. CASE OnChek
  BY <1>1, <1>3, <1>12, OnChekPosts
<1>13. CASE OnFirstPacket
  BY <1>1, <1>3, <1>13 DEF OnFirstPacket, Posts, TakesNone
<1>14. CASE OnAccessUnit
  <2>1. handler \in HandlerType
    BY DEF TypeOK, SessionTypes
  <2>2. TimersWithCheck(handler) \subseteq {Tiou} \cup CheckMsgs
    BY <2>1, CheckTypes
  <2> QED
    BY <1>1, <1>3, <1>14, <2>2, OnAccessUnitPosts DEF sessionVars
<1>15. CASE OnSeek
  BY <1>1, <1>3, <1>15, OnSeekPosts DEF OnSeek
<1>16. CASE OnSee1
  BY <1>1, <1>3, <1>16, OnSee1Posts DEF OnSee1
<1>17. CASE OnSee2
  <2>1. CASE handler.seekPending
    <3>1. handler \in HandlerType
      BY DEF TypeOK, SessionTypes
    <3>2. CheckEnabled(handler) \in HandlerType
      BY <3>1 DEF CheckEnabled, HandlerType
    <3>3. timers' \subseteq {Tiou} \cup CheckMsgs
      BY <1>17, <2>1, <3>2, CheckTypes DEF OnSee2
    <3> QED
      BY <1>3, <1>17, <2>1, <3>3, OnSee2Posts
  <2>2. CASE ~handler.seekPending
    BY <1>1, <1>3, <1>17, <2>2, OnSee2Posts DEF sessionVars
  <2> QED
    BY <2>1, <2>2
<1>18. CASE OnBiny
  BY <1>1, <1>3, <1>18 DEF OnBiny, Posts, TakesNone, sessionVars
<1>19. CASE OnTiou
  BY <1>1, <1>3, <1>19, OnTiouPosts DEF OnTiou
<1> QED
  BY <1>4, <1>5, <1>6, <1>7, <1>8, <1>9, <1>10, <1>11, <1>12, <1>13, <1>14,
     <1>15, <1>16, <1>17, <1>18, <1>19 DEF HandlerStep, Handler

\* The RTP connection.
LEMMA NetFields ==
  ASSUME NEW m \in NetMsg
  PROVE  /\ m.what \in {"fake", "poll", "add", "remove", "inject"}
         /\ m.what = "add" => m.stream \in StreamType
         /\ m.what = "remove" => m.socket \in Socket
         /\ m.what = "inject" => m.socket \in Socket /\ m.packet \in Packet
BY DEF NetMsg

LEMMA MessageIs ==
  ASSUME TypeOK, netbox # <<>>
  PROVE  Message \in NetMsg /\ Tail(netbox) \in Seq(NetMsg)
BY HeadTailProperties DEF TypeOK, NetTypes, Message

LEMMA StreamsAre ==
  ASSUME TypeOK
  PROVE  /\ streams \in Seq(StreamType) /\ DOMAIN streams = 1 .. Len(streams)
         /\ streams \in [DOMAIN streams -> StreamType]
         /\ Len(streams) \in Nat
         /\ \A i \in DOMAIN streams : streams[i] \in StreamType
<1>1. /\ streams \in Seq(StreamType) /\ DOMAIN streams = 1 .. Len(streams)
      /\ Len(streams) \in Nat
  BY LenProperties DEF TypeOK, NetTypes
<1>2. \A i \in DOMAIN streams : streams[i] \in StreamType
  BY <1>1, ElementOfSeq
<1>3. streams \in [DOMAIN streams -> StreamType]
  BY <1>1, LenProperties
<1> QED
  BY <1>1, <1>2, <1>3

LEMMA PollReads ==
  ASSUME TypeOK, NetworkStep, OnPollStreams
  PROVE  /\ UNCHANGED <<streams, mailbox>>
         /\ \/ crashed' = crashed /\ netbox' \in {Tail(netbox), Append(Tail(netbox), PollStreams)}
            \/ /\ ~(Polled \subseteq open)
               /\ crashed' = "polling a closed socket"
               /\ netbox' = netbox
<1>1. \A i \in DOMAIN streams : Read(streams[i]) = [stream |-> streams[i], notices |-> <<>>]
  BY DEF TypeOK, NetTypes, Read, Received, Nothing
<1>2. CASE Polled = {} \/ ~(Polled \subseteq open)
  BY <1>2 DEF OnPollStreams
<1>3. CASE Polled # {} /\ Polled \subseteq open
  <2>2. /\ streams' = [i \in DOMAIN streams |-> Read(streams[i]).stream]
        /\ mailbox' = mailbox \o
              FlattenSeq([i \in DOMAIN streams |-> Read(streams[i]).notices])
        /\ netbox' = WithPollEvent(Tail(netbox), FALSE)
        /\ crashed' = crashed
    BY <1>3 DEF OnPollStreams
  <2>3. streams' = streams
    BY <1>1, <2>2, StreamsAre
  <2>4. [i \in DOMAIN streams |-> Read(streams[i]).notices]
          = [i \in 1 .. Len(streams) |-> <<>>]
    BY <1>1, StreamsAre
  <2>5. FlattenSeq([i \in DOMAIN streams |-> Read(streams[i]).notices]) = <<>>
    BY <2>4, StreamsAre, FlattenEmpties
  <2>6. mailbox' = mailbox
    BY <2>2, <2>5, ConcatEmptySeq DEF TypeOK, BoxTypes
  <2> QED
    BY <2>2, <2>3, <2>6 DEF WithPollEvent
<1> QED
  BY <1>2, <1>3

LEMMA FirstRegistered ==
  ASSUME TypeOK, NEW socket, Registered(socket) # {}
  PROVE  /\ Min(Registered(socket)) \in DOMAIN streams
         /\ streams[Min(Registered(socket))].socket = socket
<1> DEFINE R == Registered(socket)
<1>1. /\ R \subseteq Nat /\ R # {}
      /\ \A i \in R : i \in DOMAIN streams /\ streams[i].socket = socket
  BY StreamsAre DEF Registered
<1> HIDE DEF R
<1>2. PICK m \in R : \A n \in Nat : n < m => n \notin R
  BY <1>1, LeastNatural
<1>3. \A n \in R : m <= n
  BY <1>1, <1>2
<1>4. Min(R) \in R
  BY <1>2, <1>3 DEF Min
<1> QED
  BY <1>1, <1>4 DEF R

\* What becomes of the stream of a packet, and of the session's messages.
Receives(i, p, s, notices) ==
    /\ s \in StreamType /\ notices \in Seq(Notices)
    /\ s.socket = streams[i].socket /\ s.track = streams[i].track
    /\ s.injected = streams[i].injected
    /\ \A m \in ToSet(notices) : m.track = streams[i].track
    /\ streams' = [streams EXCEPT ![i] = s]
    /\ mailbox' = mailbox \o notices

LEMMA FewNotices ==
  ASSUME NEW s \in StreamType, NEW p \in Packet, s.injected \in BOOLEAN
  PROVE  /\ p.kind = "rtcp" =>
              /\ NoticesOfRTCP(s, p) \in Seq(Notices)
              /\ \A m \in ToSet(NoticesOfRTCP(s, p)) : m.track = s.track
         /\ p.kind # "rtcp" =>
              /\ NoticesOfRTP(s, p) \in Seq(Notices)
              /\ \A m \in ToSet(NoticesOfRTP(s, p)) : m.track = s.track
<1>1. s.track \in Nat
  BY DEF StreamType
<1>2. \A kind \in {"first-rtp", "first-rtcp"} :
        /\ Notice(s, kind, Nothing) \in Notices
        /\ Notice(s, kind, Nothing).track = s.track
  BY <1>1 DEF Notice, Notices, Nothing
<1>3. ASSUME NEW known, NEW kind \in {"first-rtp", "first-rtcp"}
      PROVE  /\ First(known, s, kind) \in Seq(Notices)
             /\ \A m \in ToSet(First(known, s, kind)) : m.track = s.track
  BY <1>2, SetOfFew DEF First
<1>4. p.kind = "rtcp" => NoticeOfBye(s, p) = <<>>
  BY DEF NoticeOfBye, Packet
<1>5. ASSUME p.kind = "rtcp"
      PROVE  NoticesOfRTCP(s, p) = First(s.rtcp, s, "first-rtcp")
  BY <1>3, <1>4, <1>5, ConcatEmptySeq DEF NoticesOfRTCP
<1>6. ASSUME p.kind # "rtcp"
      PROVE  /\ NoticesOfRTP(s, p) \in Seq(Notices)
             /\ \A m \in ToSet(NoticesOfRTP(s, p)) : m.track = s.track
  <2>1. \E u \in Units : p.unit = <<u>>
    BY <1>6 DEF Packet
  <2>2. Notice(s, "unit", p.unit) \in Notices /\ Notice(s, "unit", p.unit).track = s.track
    BY <1>1, <2>1 DEF Notice, Notices
  <2> DEFINE t == IF p # Malformed /\ p.unit # Nothing /\ AfterRTP(s, p).times = 2
                  THEN <<Notice(s, "unit", p.unit)>> ELSE <<>>
  <2>3. t \in Seq(Notices) /\ \A m \in ToSet(t) : m.track = s.track
    BY <2>2, SetOfFew
  <2>4. NoticesOfRTP(s, p) = First(s.rtp, s, "first-rtp") \o t
    BY DEF NoticesOfRTP
  <2> HIDE DEF t
  <2>5. /\ First(s.rtp, s, "first-rtp") \in Seq(Notices)
        /\ \A m \in ToSet(First(s.rtp, s, "first-rtp")) : m.track = s.track
    BY <1>3
  <2>6. /\ First(s.rtp, s, "first-rtp") \o t \in Seq(Notices)
        /\ ToSet(First(s.rtp, s, "first-rtp") \o t)
             = ToSet(First(s.rtp, s, "first-rtp")) \cup ToSet(t)
    BY <2>3, <2>5, Posting
  <2> QED
    BY <2>3, <2>4, <2>5, <2>6
<1> QED
  BY <1>3, <1>5, <1>6

LEMMA AfterTypes ==
  ASSUME NEW s \in StreamType, NEW p
  PROVE  /\ AfterRTP(s, p) \in StreamType
         /\ AfterRTP(s, p).socket = s.socket /\ AfterRTP(s, p).track = s.track
         /\ AfterRTP(s, p).injected = s.injected
         /\ p \in Packet /\ p.kind = "rtcp" =>
              /\ AfterRTCP(s, p) \in StreamType
              /\ AfterRTCP(s, p).socket = s.socket
              /\ AfterRTCP(s, p).track = s.track
              /\ AfterRTCP(s, p).injected = s.injected
<1>1. 2 \in 0 .. 2 /\ \A n \in 0 .. 2 : TimesUpdated(n) \in 0 .. 2
  BY DEF TimesUpdated
<1>2. CASE p = Malformed
  BY <1>2 DEF AfterRTP, StreamType, Malformed, Packet
<1>3. CASE p # Malformed
  <2>1. /\ AfterRTP(s, p) \in StreamType
        /\ AfterRTP(s, p).socket = s.socket /\ AfterRTP(s, p).track = s.track
        /\ AfterRTP(s, p).injected = s.injected
    BY <1>1, <1>3 DEF AfterRTP, StreamType
  <2>2. ASSUME p \in Packet, p.kind = "rtcp"
        PROVE  /\ AfterRTCP(s, p) \in StreamType
               /\ AfterRTCP(s, p).socket = s.socket
               /\ AfterRTCP(s, p).track = s.track
               /\ AfterRTCP(s, p).injected = s.injected
    <3>1. p.sr \in BOOLEAN /\ p.bye \in BOOLEAN
      BY <2>2 DEF Packet
    <3>2. (IF p.sr /\ "fake" \notin flags THEN TimesUpdated(s.times) ELSE s.times)
             \in 0 .. 2
      BY <1>1 DEF StreamType
    <3>3. (s.source \/ p.sr \/ p.bye) \in BOOLEAN
      BY Zenon
    <3> QED
      BY <3>2, <3>3 DEF AfterRTCP, StreamType
  <2> QED
    BY <2>1, <2>2
<1> QED
  BY <1>2, <1>3

LEMMA InjectReads ==
  ASSUME TypeOK, NetworkStep, OnInjectPacket
  PROVE  /\ Message.what = "inject" /\ Message \in NetMsg
         /\ netbox' = Tail(netbox)
         /\ \/ /\ Registered(Message.socket) = {}
               /\ crashed' = "injecting a packet"
               /\ UNCHANGED <<streams, mailbox>>
            \/ /\ crashed' = crashed
               /\ \E i \in Registered(Message.socket) :
                     \E s, notices : Receives(i, Message.packet, s, notices)
<1>1. Message.what = "inject" /\ netbox' = Tail(netbox) /\ Message \in NetMsg
  BY MessageIs DEF OnInjectPacket, NetworkStep
<1>2. Message.packet \in Packet
  BY <1>1, NetFields
<1>3. CASE Registered(Message.socket) = {}
  BY <1>1, <1>3 DEF OnInjectPacket
<1>4. CASE Registered(Message.socket) # {}
  <2> DEFINE i == Min(Registered(Message.socket))
             p == Message.packet
             s == IF p.kind = "rtcp" THEN AfterRTCP(streams[i], p)
                                     ELSE AfterRTP(streams[i], p)
             n == IF p.kind = "rtcp" THEN NoticesOfRTCP(streams[i], p)
                                     ELSE NoticesOfRTP(streams[i], p)
  <2>1. i \in DOMAIN streams /\ i \in Registered(Message.socket)
    BY <1>4, FirstRegistered DEF Registered
  <2>2. streams[i] \in StreamType
    BY <2>1, StreamsAre
  <2>3. /\ streams' = [streams EXCEPT ![i] = s]
        /\ mailbox' = mailbox \o n
        /\ crashed' = crashed
    BY <1>4 DEF OnInjectPacket
  <2>4. p \in Packet
    BY <1>2
  <2> HIDE DEF i, p
  <2>5. /\ s \in StreamType
        /\ s.socket = streams[i].socket /\ s.track = streams[i].track
        /\ s.injected = streams[i].injected
    <3>1. /\ AfterRTP(streams[i], p) \in StreamType
          /\ AfterRTP(streams[i], p).socket = streams[i].socket
          /\ AfterRTP(streams[i], p).track = streams[i].track
          /\ AfterRTP(streams[i], p).injected = streams[i].injected
      BY <2>2, AfterTypes
    <3>2. p.kind = "rtcp" =>
             /\ AfterRTCP(streams[i], p) \in StreamType
             /\ AfterRTCP(streams[i], p).socket = streams[i].socket
             /\ AfterRTCP(streams[i], p).track = streams[i].track
             /\ AfterRTCP(streams[i], p).injected = streams[i].injected
      BY <2>2, <2>4, AfterTypes
    <3> QED
      BY <3>1, <3>2
  <2>6. n \in Seq(Notices) /\ \A m \in ToSet(n) : m.track = streams[i].track
    <3>1. streams[i].injected \in BOOLEAN
      BY <2>2 DEF StreamType
    <3> QED
      BY <2>2, <2>4, <3>1, FewNotices
  <2> HIDE DEF s, n
  <2>7. Receives(i, p, s, n)
    BY <2>3, <2>5, <2>6 DEF Receives
  <2> QED
    BY <1>1, <2>1, <2>3, <2>7 DEF p
<1> QED
  BY <1>3, <1>4

\* The server.
Answered == Head(pending)

LEMMA AnswersAre ==
  ASSUME TypeOK, ServerStep, ServerAnswers
  PROVE  /\ conn = "open" /\ pending # <<>> /\ UNCHANGED <<conn, netVars, open, crashed>>
         /\ Answered \in Awaited /\ Due = {Answered} \cup ToSet(Tail(pending))
         /\ pending' = Tail(pending) /\ pending' \in Seq(Awaited)
         /\ Due' = ToSet(Tail(pending))
         /\ \A M : Count(pending', M) = Count(pending, M) - One(Answered, M)
         /\ \E result \in Answers(Answered) :
              LET reply == With(Answered, result)
                  what == Answered.what
              IN  /\ reply \in Msg /\ reply \in Awaited
                  /\ result \in {"ok", "refused", "moved", "live"}
                  /\ mailbox' = Append(mailbox, reply)
                  /\ serving' = CASE what \in {"play", "see2"} -> ~Failed(reply)
                                  [] what \in {"see1", "tear"} -> FALSE
                                  [] OTHER -> serving
                  /\ segment' = IF what = "see2" /\ ~Failed(reply)
                                THEN segment + 1 ELSE segment
<1>1. pending \in Seq(Awaited) /\ pending # <<>>
  BY DEF TypeOK, BoxTypes, ServerAnswers
<1>2. /\ Answered \in Awaited /\ Tail(pending) \in Seq(Awaited)
      /\ Due = {Answered} \cup ToSet(Tail(pending))
  BY <1>1, Handling DEF Answered, Due
<1>3. \A M : Count(Tail(pending), M) = Count(pending, M) - One(Answered, M)
  <2>1. \A M : Count(pending, M) = Count(Tail(pending), M)
                                     + (IF Head(pending) \in M THEN 1 ELSE 0)
    BY <1>1, CountTail
  <2>2. \A M : Count(pending, M) \in Nat /\ Count(Tail(pending), M) \in Nat
    BY <1>1, <1>2, OccursFinite
  <2> QED
    BY <2>1, <2>2 DEF One, Answered
<1>4. pending' = Tail(pending)
  BY DEF ServerAnswers
<1>5. PICK result \in Answers(Answered) :
         LET reply == With(Answered, result)
             what == Answered.what
         IN  /\ mailbox' = Append(mailbox, reply)
             /\ serving' = CASE reply.what \in {"play", "see2"} -> ~Failed(reply)
                             [] reply.what \in {"see1", "tear"} -> FALSE
                             [] OTHER -> serving
             /\ segment' = IF reply.what = "see2" /\ ~Failed(reply)
                           THEN segment + 1 ELSE segment
  BY DEF ServerAnswers, Answered
<1>6. result \in {"ok", "refused", "moved", "live"}
  BY DEF Answers
<1>7. result \in Result
  BY <1>6 DEF Result
<1>8. With(Answered, result) \in Awaited /\ With(Answered, result).what = Answered.what
  BY <1>2, <1>7, AwaitedAre, AwaitedFields
<1>9. With(Answered, result) \in Msg
  BY <1>8, Posted
<1>10. conn = "open" /\ UNCHANGED <<conn, netVars, open, crashed>>
  BY DEF ServerAnswers
<1> QED
  BY <1>1, <1>2, <1>3, <1>4, <1>5, <1>6, <1>8, <1>9, <1>10 DEF Due

LEMMA InterleavedIs ==
  ASSUME TypeOK, ServerStep, ServerSendsInterleaved
  PROVE  /\ serving /\ conn = "open"
         /\ UNCHANGED <<serverVars, netVars, open, crashed>>
         /\ \E i \in DOMAIN streams, p \in Packet :
              LET m == [what |-> "biny", socket |-> streams[i].socket, packet |-> p]
              IN  /\ streams[i].injected
                  /\ p.kind = "rtp" => p.unit[1].seg = segment
                  /\ m \in Binaries /\ m \in Msg
                  /\ mailbox' = Append(mailbox, m)
<1>1. PICK i \in Playable, p \in Sendable :
         /\ streams[i].injected
         /\ mailbox' = Append(mailbox, [what |-> "biny",
                                        socket |-> streams[i].socket,
                                        packet |-> p])
  BY DEF ServerSendsInterleaved
<1>2. i \in DOMAIN streams /\ streams[i] \in StreamType
  BY StreamsAre DEF Playable
<1>3. p \in Packet /\ (p.kind = "rtp" => p.unit[1].seg = segment)
  <2>1. CASE \E u \in Units : u.seg = segment /\ p = RTP(<<u>>)
    <3>1. PICK u \in Units : u.seg = segment /\ p = RTP(<<u>>)
      BY <2>1
    <3>2. p = [kind |-> "rtp", unit |-> <<u>>]
      BY <3>1 DEF RTP
    <3>3. p.unit[1] = u
      BY <3>2
    <3>4. p \in [kind : {"rtp"}, unit : {<<v>> : v \in Units}]
      BY <3>2
    <3> QED
      BY <3>1, <3>3, <3>4 DEF Packet
  <2>2. CASE p = RTCP(TRUE, FALSE)
    <3>1. p = [kind |-> "rtcp", sr |-> TRUE, bye |-> FALSE]
      BY <2>2 DEF RTCP
    <3> QED
      BY <3>1 DEF Packet
  <2>3. \/ \E u \in Units : u.seg = segment /\ p = RTP(<<u>>)
        \/ p = RTCP(TRUE, FALSE)
    BY DEF Sendable
  <2> QED
    BY <2>1, <2>2, <2>3
<1>4. [what |-> "biny", socket |-> streams[i].socket, packet |-> p] \in Binaries
  BY <1>2, <1>3 DEF Binaries, StreamType
<1>5. serving /\ conn = "open" /\ UNCHANGED <<serverVars, netVars, open, crashed>>
  BY DEF ServerSendsInterleaved
<1> QED
  BY <1>1, <1>2, <1>3, <1>4, <1>5, Posted

LEMMA OtherBoxTypes ==
  ASSUME TypeOK,
         ControllerStep \/ NetworkStep \/ ServerStep \/ WaitStep \/ SeekStep
           \/ FailStep \/ \E m \in timers : Expires(m)
  PROVE  BoxTypes'
<1>1. /\ mailbox \in Seq(Msg) /\ pending \in Seq(Awaited)
      /\ timers \subseteq {Tiou} \cup CheckMsgs /\ BoxTypes
  BY DEF TypeOK, BoxTypes
<1>2. CASE ControllerStep
  <2>1. mailbox # <<>> /\ TakesNone
    BY <1>2 DEF ControllerStep, ControllerFrame, Posts, TakesNone
  <2>2. mailbox' \in Seq(Msg)
    BY <2>1, TakesTypes
  <2> QED
    BY <1>1, <1>2, <2>2 DEF BoxTypes, ControllerStep, ControllerFrame, LooperFrame,
                            sessionVars, serverVars
<1>3. CASE NetworkStep
  <2>1. UNCHANGED <<pending, timers>>
    BY <1>3 DEF NetworkStep, NetFrame, serverVars, sessionVars
  <2>2. mailbox' \in Seq(Msg)
    <3>1. CASE OnPollStreams
      BY <1>1, <1>3, <3>1, PollReads
    <3>2. CASE OnInjectPacket
      <4>1. mailbox' = mailbox \/ \E n \in Seq(Notices) : mailbox' = mailbox \o n
        BY <1>3, <3>2, InjectReads DEF Receives
      <4>2. CASE mailbox' = mailbox
        BY <1>1, <4>2
      <4>3. ASSUME NEW n \in Seq(Notices), mailbox' = mailbox \o n
            PROVE  mailbox' \in Seq(Msg)
        <5>1. n \in Seq(Msg)
          BY Posted, SeqMonotonic
        <5> QED
          BY <1>1, <4>3, <5>1, PostsAll
      <4> QED
        BY <4>1, <4>2, <4>3
    <3>3. CASE OnAddStream \/ OnRemoveStream \/ OnFakeTimestamps
      BY <1>1, <3>3 DEF OnAddStream, OnRemoveStream, OnFakeTimestamps
    <3> QED
      BY <1>3, <3>1, <3>2, <3>3 DEF NetworkStep
  <2> QED
    BY <1>1, <2>1, <2>2 DEF BoxTypes
<1>4. CASE ServerStep
  <2>1. timers' = timers
    BY <1>4 DEF ServerStep, ServerFrame, sessionVars
  <2>2. CASE ServerAnswers
    BY <1>1, <1>4, <2>1, <2>2, AnswersAre, PostsOne DEF BoxTypes
  <2>3. CASE ConnectionLost
    <3>1. mailbox' = mailbox \o Flushed /\ pending' = <<>>
      BY <2>3 DEF ConnectionLost
    <3>2. mailbox' \in Seq(Msg)
      BY <1>1, <3>1, FlushedAre, PostsAll
    <3> QED
      BY <1>1, <2>1, <3>1, <3>2 DEF BoxTypes
  <2>4. CASE ServerSendsInterleaved
    <3>1. pending' = pending
      BY <2>4 DEF ServerSendsInterleaved, serverVars
    <3> QED
      BY <1>1, <1>4, <2>1, <2>4, <3>1, InterleavedIs, PostsOne DEF BoxTypes
  <2> QED
    BY <1>4, <2>2, <2>3, <2>4 DEF ServerStep
<1>5. CASE WaitStep
  <2>1. pending' = pending
    BY <1>5 DEF WaitStep, PlayerFrame, serverVars
  <2>2. Connect \in Msg /\ Abor(FALSE) \in Msg
    BY Posted
  <2>3. /\ timers' = timers
        /\ \/ mailbox' = mailbox \/ mailbox' = Append(mailbox, Connect)
           \/ mailbox' = Append(mailbox, Abor(FALSE))
    BY <1>5 DEF WaitStep, Prepare, ConnectReturns, BufferingUpdate,
                DisconnectReturns, Play, Decode, StreamDone, Reset, sessionVars
  <2>4. mailbox' \in Seq(Msg)
    BY <1>1, <2>2, <2>3, PostsOne
  <2> QED
    BY <1>1, <2>1, <2>3, <2>4 DEF BoxTypes
<1>6. CASE SeekStep
  <2>1. [what |-> "seek"] \in Msg
    BY Posted
  <2>2. /\ UNCHANGED <<pending, timers>>
        /\ mailbox' = mailbox \/ mailbox' = Append(mailbox, [what |-> "seek"])
    BY <1>6 DEF SeekStep, PlayerFrame, serverVars, Seek, Dies, sessionVars
  <2>3. mailbox' \in Seq(Msg)
    BY <1>1, <2>1, <2>2, PostsOne
  <2> QED
    BY <1>1, <2>2, <2>3 DEF BoxTypes
<1>7. ASSUME NEW m \in timers, Expires(m) PROVE BoxTypes'
  <2>1. m \in Msg
    BY <1>1, Posted
  <2>2. /\ timers' = timers \ {m} /\ mailbox' = Append(mailbox, m)
        /\ pending' = pending
    BY <1>7 DEF Expires, serverVars
  <2>3. mailbox' \in Seq(Msg)
    BY <1>1, <2>1, <2>2, PostsOne
  <2> QED
    BY <1>1, <2>2, <2>3 DEF BoxTypes
<1>8. CASE FailStep
  BY <1>1, <1>8 DEF FailStep, sessionVars, serverVars, BoxTypes
<1> QED
  BY <1>2, <1>3, <1>4, <1>5, <1>6, <1>7, <1>8

LEMMA BoxTypesKept ==
  ASSUME TypeOK, SessionAssumption, [Next]_vars
  PROVE  BoxTypes'
<1>1. CASE UNCHANGED vars
  BY <1>1 DEF vars, sessionVars, serverVars, TypeOK, BoxTypes
<1>2. CASE Next
  BY <1>2, Steps, ConnectionBoxTypes, HandlerBoxTypes, OtherBoxTypes
<1> QED
  BY <1>1, <1>2

-----------------------------------------------------------------------------
(* The RTP connection's types.                                             *)

LEMMA RemoveAtTypes ==
  ASSUME NEW S, NEW s \in Seq(S), NEW k \in DOMAIN s
  PROVE  RemoveAt(s, k) \in Seq(S)
<1>1. k \in 1 .. Len(s) /\ Len(s) \in Nat
  BY LenProperties
<1>2. /\ \A i \in 1 .. k - 1 : s[i] \in S
      /\ \A i \in k + 1 .. Len(s) : s[i] \in S
  BY <1>1, ElementOfSeq
<1>3. SubSeq(s, 1, k - 1) \in Seq(S) /\ SubSeq(s, k + 1, Len(s)) \in Seq(S)
  BY <1>1, <1>2, SubSeqProperties
<1> QED
  BY <1>3, ConcatProperties DEF RemoveAt

\* The pairs of sockets an abort closes, in some order, each once.
LEMMA PairsInOrder ==
  ASSUME TypeOK
  PROVE  /\ IsFiniteSet(PairsOf(tracks))
         /\ PairsOf(tracks) \subseteq Socket
         /\ SetToSeq(PairsOf(tracks)) \in Seq(PairsOf(tracks))
         /\ ToSet(SetToSeq(PairsOf(tracks))) = PairsOf(tracks)
         /\ IsInjective(SetToSeq(PairsOf(tracks)))
<1> DEFINE S == PairsOf(tracks)
           D == DOMAIN tracks
           T == {tracks[i].socket : i \in D}
           f == [i \in D |-> tracks[i].socket]
           N == Cardinality(S)
<1>1. /\ tracks \in Seq(TrackType) /\ Len(tracks) \in Nat
      /\ D = 1 .. Len(tracks) /\ \A i \in D : tracks[i] \in TrackType
  <2>1. tracks \in Seq(TrackType)
    BY DEF TypeOK, SessionTypes
  <2> QED
    BY <2>1, LenProperties, ElementOfSeq
<1>2. IsFiniteSet(D)
  BY <1>1, FS_Interval
<1>3. f \in Surjection(D, T)
  <2>1. f \in [D -> T]
    OBVIOUS
  <2>2. \A t \in T : \E i \in D : f[i] = t
    OBVIOUS
  <2> QED
    BY <2>1, <2>2, Fun_IsSurj
<1>4. IsFiniteSet(T)
  BY <1>2, <1>3, FS_Surjection
<1>5. S \in SUBSET T
  BY DEF PairsOf
<1>6. IsFiniteSet(S)
  BY <1>4, <1>5, FS_Subset
<1>7. S \subseteq Socket
  BY <1>1, <1>5 DEF TrackType
<1>8. N \in Nat /\ IsFiniteSet(1 .. N) /\ Cardinality(1 .. N) = N
  BY <1>6, FS_CardinalityType, FS_Interval
<1> HIDE DEF S, T, f, D
<1>9. ExistsBijection(1 .. N, S)
  BY <1>6, FS_CountingElements, FS_CardinalityType
<1>10. PICK g \in [1 .. N -> S] : IsInjective(g)
  BY <1>9 DEF ExistsBijection, Bijection, Injection, IsInjective
<1>11. SetToSeq(S) \in [1 .. N -> S] /\ IsInjective(SetToSeq(S))
  BY <1>10 DEF SetToSeq
<1>12. SetToSeq(S) \in Seq(S) /\ DOMAIN SetToSeq(S) = 1 .. N
  BY <1>8, <1>11, SeqDef
<1>13. SetToSeq(S) \in Injection(1 .. N, S)
  BY <1>11 DEF Injection, IsInjective
<1>14. SetToSeq(S) \in Surjection(1 .. N, S)
  BY <1>6, <1>8, <1>13, FS_Injection
<1>15. \A x \in S : \E i \in 1 .. N : SetToSeq(S)[i] = x
  BY <1>14 DEF Surjection
<1>16. ToSet(SetToSeq(S)) = S
  <2> DEFINE q == SetToSeq(S)
  <2>1. /\ DOMAIN q = 1 .. N /\ \A i \in 1 .. N : q[i] \in S
        /\ \A x \in S : \E i \in 1 .. N : q[i] = x
    BY <1>11, <1>12, <1>15
  <2> HIDE DEF q
  <2>2. ToSet(q) = {q[i] : i \in DOMAIN q}
    BY DEF ToSet
  <2>3. ToSet(q) = S
    BY <2>1, <2>2
  <2> QED
    BY <2>3 DEF q
<1> QED
  BY <1>6, <1>7, <1>11, <1>12, <1>16 DEF S

LEMMA RemovedAre ==
  ASSUME TypeOK
  PROVE  /\ StreamsRemoved \in Seq(NetMsg)
         /\ ToSet(StreamsRemoved) = {RemoveStream(x) : x \in PairsOf(tracks)}
<1> DEFINE q == SetToSeq(PairsOf(tracks))
<1>1. /\ q \in Seq(PairsOf(tracks)) /\ ToSet(q) = PairsOf(tracks)
      /\ PairsOf(tracks) \subseteq Socket
  BY PairsInOrder
<1>2. StreamsRemoved = [i \in DOMAIN q |-> RemoveStream(q[i])]
  BY DEF StreamsRemoved
<1> HIDE DEF q
<1>3. DOMAIN q = 1 .. Len(q) /\ Len(q) \in Nat
  BY <1>1, LenProperties
<1>4. \A i \in DOMAIN q : q[i] \in PairsOf(tracks) /\ RemoveStream(q[i]) \in NetMsg
  <2>1. \A i \in DOMAIN q : q[i] \in PairsOf(tracks)
    BY <1>1, SetOf
  <2> QED
    BY <1>1, <2>1 DEF RemoveStream, NetMsg
<1>5. StreamsRemoved \in [1 .. Len(q) -> NetMsg]
  BY <1>2, <1>3, <1>4
<1>6. StreamsRemoved \in Seq(NetMsg)
  BY <1>3, <1>5, SeqDef
<1>7. DOMAIN StreamsRemoved = DOMAIN q
  BY <1>2
<1>8. ASSUME NEW m \in ToSet(StreamsRemoved)
      PROVE  \E x \in PairsOf(tracks) : m = RemoveStream(x)
  <2>1. PICK i \in DOMAIN q : m = StreamsRemoved[i]
    BY <1>7, SetOf
  <2> QED
    BY <1>2, <1>4, <2>1
<1>9. ASSUME NEW x \in PairsOf(tracks)
      PROVE  RemoveStream(x) \in ToSet(StreamsRemoved)
  <2>1. PICK i \in DOMAIN q : x = q[i]
    BY <1>1, SetOf
  <2>2. StreamsRemoved[i] \in ToSet(StreamsRemoved)
    BY <1>7, SetOf
  <2> QED
    BY <1>2, <2>1, <2>2
<1> QED
  BY <1>6, <1>8, <1>9

LEMMA NetPosted ==
  /\ \A x \in Socket, t \in Nat, b \in BOOLEAN : AddStream(x, t, b) \in NetMsg
  /\ \A x \in Socket, p \in Packet : InjectPacket(x, p) \in NetMsg
  /\ FakeTimestamps \in NetMsg /\ PollStreams \in NetMsg
<1>1. \A x \in Socket, t \in Nat, b \in BOOLEAN : Stream(x, t, b) \in StreamType
  BY DEF Stream, StreamType
<1>2. \A x \in Socket, t \in Nat, b \in BOOLEAN : AddStream(x, t, b) \in NetMsg
  BY <1>1 DEF AddStream, NetMsg
<1> QED
  BY <1>2 DEF InjectPacket, FakeTimestamps, PollStreams, NetMsg

\* What the handler of a message posts to the RTP connection.
LEMMA HandlerNetTypes ==
  ASSUME TypeOK, HandlerStep, SessionAssumption
  PROVE  NetTypes'
<1>1. /\ netbox \in Seq(NetMsg) /\ streams \in Seq(StreamType)
      /\ "started" \notin flags
  BY DEF TypeOK, NetTypes
<1>2. UNCHANGED <<streams, flags>> /\ mailbox # <<>>
  BY DEF HandlerStep, LooperFrame
<1>3. ASSUME NEW s \in Seq(NetMsg), netbox' = netbox \o s
      PROVE  netbox' \in Seq(NetMsg)
  BY <1>1, <1>3, ConcatProperties
<1>4. <<>> \in Seq(NetMsg)
  BY EmptySeq
<1>5. CASE netbox' = netbox
  BY <1>1, <1>2, <1>5 DEF NetTypes
<1>6. CASE OnSetu
  <2>1. netbox' \in Seq(NetMsg)
    <3>1. CASE TrackGone
      BY <1>1, <1>6, <3>1, OnSetuPosts
    <3>2. CASE ~TrackGone /\ ~IsSet
      BY <1>3, <1>4, <1>6, <3>2, OnSetuPosts
    <3>3. CASE ~TrackGone /\ IsSet
      <4>1. /\ Current.track \in DOMAIN tracks
            /\ netbox' = netbox \o <<AddStream(tracks[Current.track].socket,
                                               Current.track, handler.tryTCP)>>
        BY <1>6, <3>3, OnSetuPosts
      <4>2. tracks[Current.track] \in TrackType
        BY <4>1, ElementOfSeq, LenProperties DEF TypeOK, SessionTypes
      <4>3. /\ tracks[Current.track].socket \in Socket /\ Current.track \in Nat
            /\ handler.tryTCP \in BOOLEAN
        <5>1. handler \in HandlerType
          BY DEF TypeOK, SessionTypes
        <5>2. Current.what = "setu"
          BY <1>6 DEF OnSetu
        <5> QED
          BY <1>2, <4>2, <5>1, <5>2, CurrentIs, MsgFields DEF TrackType, HandlerType
      <4>4. <<AddStream(tracks[Current.track].socket, Current.track,
                        handler.tryTCP)>> \in Seq(NetMsg)
        BY <4>3, NetPosted
      <4> QED
        BY <1>3, <4>1, <4>4
    <3> QED
      BY <3>1, <3>2, <3>3
  <2> QED
    BY <1>1, <1>2, <2>1 DEF NetTypes
<1>7. CASE OnAbor
  <2>1. netbox' \in Seq(NetMsg)
    BY <1>1, <1>3, <1>7, OnAborPosts, RemovedAre
  <2> QED
    BY <1>1, <1>2, <2>1 DEF NetTypes
<1>8. CASE OnBiny
  <2>1. Current \in Msg /\ Current.what = "biny"
    BY <1>2, <1>8, CurrentIs DEF OnBiny
  <2>2. Current \in Binaries
    BY <2>1, MsgFields
  <2>3. Current.socket \in Socket /\ Current.packet \in Packet
    BY <2>2 DEF Binaries
  <2>4. <<InjectPacket(Current.socket, Current.packet)>> \in Seq(NetMsg)
    BY <2>3, NetPosted
  <2>5. netbox' = netbox \o <<InjectPacket(Current.socket, Current.packet)>>
    BY <1>8 DEF OnBiny, PostsToRTP
  <2>6. netbox' \in Seq(NetMsg)
    BY <1>3, <2>4, <2>5
  <2> QED
    BY <1>1, <1>2, <2>6 DEF NetTypes
<1>9. CASE OnTiou
  <2>1. <<FakeTimestamps>> \in Seq(NetMsg)
    BY NetPosted
  <2>2. netbox' = netbox \/ netbox' = netbox \o <<FakeTimestamps>>
    BY <1>9 DEF OnTiou, PostsToRTP
  <2>3. netbox' \in Seq(NetMsg)
    BY <1>1, <1>3, <2>1, <2>2
  <2> QED
    BY <1>1, <1>2, <2>3 DEF NetTypes
<1>10. CASE OnAccessUnit
  BY <1>5, <1>10, OnAccessUnitPosts
<1>11. CASE OnSee2
  BY <1>5, <1>11 DEF OnSee2, Calm
<1>12. CASE \/ OnConn \/ OnDisc \/ OnDesc \/ OnPlay \/ OnTear \/ OnQuit \/ OnChek
            \/ OnFirstPacket \/ OnSeek \/ OnSee1
  BY <1>5, <1>12 DEF OnConn, OnDisc, OnDesc, OnPlay, OnTear, OnQuit, OnChek,
                     OnFirstPacket, OnSeek, OnSee1, Calm
<1> QED
  BY <1>6, <1>7, <1>8, <1>9, <1>10, <1>11, <1>12 DEF HandlerStep, Handler

LEMMA NetworkNetTypes ==
  ASSUME TypeOK, NetworkStep
  PROVE  NetTypes'
<1>1. /\ netbox \in Seq(NetMsg) /\ streams \in Seq(StreamType)
      /\ "started" \notin flags /\ netbox # <<>>
      /\ Message \in NetMsg /\ Tail(netbox) \in Seq(NetMsg)
      /\ Append(Tail(netbox), PollStreams) \in Seq(NetMsg)
  BY MessageIs, NetPosted, AppendProperties DEF TypeOK, NetTypes, NetworkStep
<1>2. CASE OnAddStream
  <2>1. Message.stream \in StreamType
    BY <1>1, <1>2, NetFields DEF OnAddStream
  <2>2. streams' \in Seq(StreamType)
    BY <1>1, <1>2, <2>1, AppendProperties DEF OnAddStream
  <2>3. netbox' \in Seq(NetMsg) /\ flags' = flags
    BY <1>1, <1>2 DEF OnAddStream, WithPollEvent
  <2> QED
    BY <1>1, <2>2, <2>3 DEF NetTypes
<1>3. CASE OnRemoveStream
  <2>1. netbox' = Tail(netbox) /\ flags' = flags
    BY <1>3 DEF OnRemoveStream
  <2>2. streams' \in Seq(StreamType)
    <3>1. CASE Registered(Message.socket) = {}
      BY <1>1, <1>3, <3>1 DEF OnRemoveStream
    <3>2. CASE Registered(Message.socket) # {}
      <4>1. Min(Registered(Message.socket)) \in DOMAIN streams
        BY <3>2, FirstRegistered
      <4>2. streams' = RemoveAt(streams, Min(Registered(Message.socket)))
        BY <1>3, <3>2 DEF OnRemoveStream
      <4> QED
        BY <1>1, <4>1, <4>2, RemoveAtTypes
    <3> QED
      BY <3>1, <3>2
  <2> QED
    BY <1>1, <2>1, <2>2 DEF NetTypes
<1>4. CASE OnPollStreams
  <2>1. flags' = flags
    BY <1>4 DEF OnPollStreams
  <2> QED
    BY <1>1, <1>4, <2>1, PollReads DEF NetTypes
<1>5. CASE OnInjectPacket
  <2>1. flags' = flags
    BY <1>5 DEF OnInjectPacket
  <2>2. netbox' = Tail(netbox)
    BY <1>5, InjectReads
  <2>3. \/ streams' = streams
        \/ \E i \in DOMAIN streams, s \in StreamType :
              streams' = [streams EXCEPT ![i] = s]
    BY <1>5, InjectReads DEF Receives, Registered
  <2>4. streams' \in Seq(StreamType)
    BY <1>1, <2>3, ExceptSeq
  <2> QED
    BY <1>1, <2>1, <2>2, <2>4 DEF NetTypes
<1>6. CASE OnFakeTimestamps
  <2>1. "started" \notin flags' /\ netbox' = Tail(netbox)
    BY <1>1, <1>6 DEF OnFakeTimestamps
  <2>2. streams' \in [DOMAIN streams -> StreamType]
    <3>1. \A s \in StreamType : [s EXCEPT !.times = 2] \in StreamType
      BY DEF StreamType
    <3> QED
      BY <1>6, <3>1, StreamsAre DEF OnFakeTimestamps
  <2>3. streams' \in Seq(StreamType)
    BY <2>2, StreamsAre, SeqDef
  <2> QED
    BY <1>1, <2>1, <2>3 DEF NetTypes
<1> QED
  BY <1>2, <1>3, <1>4, <1>5, <1>6 DEF NetworkStep

LEMMA NetTypesKept ==
  ASSUME TypeOK, SessionAssumption, [Next]_vars
  PROVE  NetTypes'
<1>1. CASE UNCHANGED netVars
  BY <1>1 DEF netVars, TypeOK, NetTypes
<1>2. CASE UNCHANGED vars
  BY <1>1, <1>2 DEF vars
<1>3. CASE ConnectionStep
  BY <1>1, <1>3 DEF ConnectionStep, ConnectionFrame
<1>4. CASE ControllerStep
  BY <1>4 DEF ControllerStep, LooperFrame, ControllerFrame, TypeOK, NetTypes
<1>5. CASE ServerStep
  BY <1>1, <1>5 DEF ServerStep, ServerAnswers, ConnectionLost, ServerSendsInterleaved
<1>6. CASE WaitStep
  BY <1>6 DEF WaitStep, PlayerFrame, WaitFrame, TypeOK, NetTypes
<1>7. CASE SeekStep
  BY <1>7 DEF SeekStep, Seek, Dies, PlayerFrame, TypeOK, NetTypes
<1>8. ASSUME NEW m \in timers, Expires(m) PROVE NetTypes'
  BY <1>1, <1>8 DEF Expires
<1>9. CASE FailStep
  BY <1>1, <1>9 DEF FailStep
<1> QED
  BY <1>2, <1>3, <1>4, <1>5, <1>6, <1>7, <1>8, <1>9, Steps, HandlerNetTypes,
     NetworkNetTypes

-----------------------------------------------------------------------------
(* The types of the handler's fields, tracks and sources.                  *)

LEMMA HandlerForms ==
  ASSUME NEW hd \in HandlerType
  PROVE  /\ CheckPosted(hd) \in HandlerType /\ CheckEnabled(hd) \in HandlerType
         /\ [hd EXCEPT !.units = TRUE] \in HandlerType
         /\ [hd EXCEPT !.units = FALSE] \in HandlerType
         /\ [hd EXCEPT !.gotRTCP = TRUE] \in HandlerType
         /\ [hd EXCEPT !.gotRTP = TRUE] \in HandlerType
         /\ [hd EXCEPT !.tryTCP = TRUE] \in HandlerType
         /\ [hd EXCEPT !.tryFake = TRUE, !.gotRTCP = TRUE] \in HandlerType
         /\ [hd EXCEPT !.firstUnit = FALSE, !.doneMsg = None] \in HandlerType
         /\ \A d \in {None, "cdon", "ddon"} : [hd EXCEPT !.doneMsg = d] \in HandlerType
         /\ \A b \in BOOLEAN : /\ [hd EXCEPT !.setupOK = b] \in HandlerType
                               /\ [hd EXCEPT !.seekable = b] \in HandlerType
                               /\ [hd EXCEPT !.seekPending = FALSE,
                                             !.seekable = b] \in HandlerType
         /\ [hd EXCEPT !.seekPending = TRUE, !.checkPending = TRUE,
                       !.checkGen = @ + 1] \in HandlerType
<1>1. CheckPosted(hd) \in HandlerType /\ CheckEnabled(hd) \in HandlerType
  BY DEF CheckPosted, CheckEnabled, HandlerType
<1>2. /\ [hd EXCEPT !.units = TRUE] \in HandlerType
      /\ [hd EXCEPT !.units = FALSE] \in HandlerType
      /\ [hd EXCEPT !.gotRTCP = TRUE] \in HandlerType
      /\ [hd EXCEPT !.gotRTP = TRUE] \in HandlerType
      /\ [hd EXCEPT !.tryTCP = TRUE] \in HandlerType
      /\ [hd EXCEPT !.tryFake = TRUE, !.gotRTCP = TRUE] \in HandlerType
      /\ [hd EXCEPT !.firstUnit = FALSE, !.doneMsg = None] \in HandlerType
  BY DEF HandlerType, None
<1>3. \A d \in {None, "cdon", "ddon"} : [hd EXCEPT !.doneMsg = d] \in HandlerType
  BY DEF HandlerType
<1>4. \A b \in BOOLEAN : /\ [hd EXCEPT !.setupOK = b] \in HandlerType
                         /\ [hd EXCEPT !.seekable = b] \in HandlerType
                         /\ [hd EXCEPT !.seekPending = FALSE,
                                       !.seekable = b] \in HandlerType
  <2> TAKE b \in BOOLEAN
  <2>1. [hd EXCEPT !.setupOK = b] \in HandlerType
    BY DEF HandlerType
  <2>2. [hd EXCEPT !.seekable = b] \in HandlerType
    BY DEF HandlerType
  <2>3. [hd EXCEPT !.seekPending = FALSE, !.seekable = b] \in HandlerType
    BY DEF HandlerType
  <2> QED
    BY <2>1, <2>2, <2>3
<1>5. [hd EXCEPT !.seekPending = TRUE, !.checkPending = TRUE,
                 !.checkGen = @ + 1] \in HandlerType
  <2>1. hd.checkGen + 1 \in Nat
    BY DEF HandlerType
  <2>2. \A n \in Nat : [hd EXCEPT !.seekPending = TRUE, !.checkPending = TRUE,
                                  !.checkGen = n] \in HandlerType
    BY DEF HandlerType
  <2> QED
    BY <2>1, <2>2, Zenon
<1> QED
  BY <1>1, <1>2, <1>3, <1>4, <1>5

LEMMA SourceForms ==
  ASSUME NEW s \in SourceType
  PROVE  /\ \A u \in Units : QueueAccessUnit(s, u) \in SourceType
         /\ SignalEOS(s) \in SourceType /\ FlushedBySeek(s) \in SourceType
         /\ HasUnit(s) => AfterRead(s) \in SourceType
<1>1. s.avc \in BOOLEAN /\ s.scanForIDR \in BOOLEAN /\ s.buffers \in Seq(Units)
  BY DEF SourceType
<1>2. ASSUME NEW u \in Units PROVE QueueAccessUnit(s, u) \in SourceType
  <2>1. Append(s.buffers, u) \in Seq(Units)
    BY <1>1, AppendProperties
  <2>2. (s.scanForIDR /\ ~s.avc) \in BOOLEAN
    BY Zenon
  <2>3. [s EXCEPT !.buffers = Append(@, u),
                  !.scanForIDR = @ /\ ~s.avc] \in SourceType
    BY <2>1, <2>2 DEF SourceType
  <2> QED
    BY <2>3 DEF QueueAccessUnit
<1>3. SignalEOS(s) \in SourceType /\ FlushedBySeek(s) \in SourceType
  BY EmptySeq DEF SignalEOS, FlushedBySeek, FlushQueue, SourceType
<1>4. ASSUME HasUnit(s) PROVE AfterRead(s) \in SourceType
  <2>1. Tail(s.buffers) \in Seq(Units)
    BY <1>1, <1>4, HeadTailProperties DEF HasUnit
  <2> QED
    BY <2>1 DEF AfterRead, SourceType
<1> QED
  BY <1>2, <1>3, <1>4

LEMMA SetupTypes ==
  ASSUME NEW index \in 1 .. NumTracks, NEW list \in Seq(TrackType), NEW sources,
         DOMAIN sources \subseteq 1 .. NumTracks,
         sources \in [DOMAIN sources -> SourceType],
         handler \in HandlerType, SetupTrack(index, list, sources)
  PROVE  /\ \/ tracks' = list
            \/ tracks' = Append(list, [index |-> index, firstSeg |-> 0, told |-> TRUE,
                                       socket |-> SocketOf(index, list)])
         /\ tracks' \in Seq(TrackType)
         /\ DOMAIN source' \subseteq 1 .. NumTracks
         /\ source' \in [DOMAIN source' -> SourceType]
<1>1. CASE tracks' = list /\ source' = sources
  BY <1>1
<1>2. ASSUME NEW f,
             source' = [i \in {index} \cup DOMAIN sources |->
                           IF i = index THEN NewSource(f) ELSE sources[i]],
             tracks' = Append(list, [index |-> index, firstSeg |-> 0, told |-> TRUE,
                                     socket |-> SocketOf(index, list)])
      PROVE  /\ tracks' \in Seq(TrackType)
             /\ DOMAIN source' \subseteq 1 .. NumTracks
             /\ source' \in [DOMAIN source' -> SourceType]
  <2>1. SocketOf(index, list) \in Socket
    <3>1. Len(list) + 1 \in Nat /\ index \in Nat
      BY LenProperties
    <3> QED
      BY <3>1 DEF SocketOf, Socket
  <2>2. [index |-> index, firstSeg |-> 0, told |-> TRUE, socket |-> SocketOf(index, list)] \in TrackType
    BY <2>1 DEF TrackType
  <2>3. tracks' \in Seq(TrackType)
    BY <1>2, <2>2, AppendProperties
  <2>4. NewSource(f) \in SourceType
    <3>1. (f.type = "H264") \in BOOLEAN
      BY Zenon
    <3> QED
      BY <3>1, EmptySeq DEF NewSource, SourceType
  <2>6. /\ DOMAIN source' = {index} \cup DOMAIN sources
        /\ source' \in [{index} \cup DOMAIN sources -> SourceType]
    BY <1>2, <2>4
  <2> QED
    BY <2>3, <2>6
<1> QED
  BY <1>1, <1>2 DEF SetupTrack

LEMMA ParseTypes ==
  ASSUME NEW list \in Seq(TrackType), segment \in Nat, NEW result, NEW told
  PROVE  /\ ParsePlayResponse(result, list, told) \in Seq(TrackType)
         /\ DOMAIN ParsePlayResponse(result, list, told) = DOMAIN list
         /\ Len(ParsePlayResponse(result, list, told)) = Len(list)
         /\ \A i \in DOMAIN list :
              LET t == ParsePlayResponse(result, list, told)[i]
              IN  /\ t.index = list[i].index
                  /\ t.socket = list[i].socket
                  /\ t.told => t.firstSeg = segment
<1> DEFINE q == ParsePlayResponse(result, list, told)
<1>1. /\ DOMAIN list = 1 .. Len(list) /\ Len(list) \in Nat
      /\ \A i \in DOMAIN list : list[i] \in TrackType
  BY LenProperties, ElementOfSeq
<1>2. ASSUME NEW i \in DOMAIN list, result = "ok"
      PROVE  /\ q[i] \in TrackType
             /\ q[i].index = list[i].index /\ q[i].socket = list[i].socket
             /\ q[i].firstSeg = segment
  <2>1. q[i] = [list[i] EXCEPT !.firstSeg = segment, !.told = i \in told]
    BY <1>2 DEF ParsePlayResponse
  <2>2. (i \in told) \in BOOLEAN
    BY SMT
  <2>3. PICK b \in BOOLEAN : q[i] = [list[i] EXCEPT !.firstSeg = segment, !.told = b]
    BY <2>1, <2>2, Zenon
  <2> QED
    BY <1>1, <2>3 DEF TrackType
<1>3. ASSUME NEW i \in DOMAIN list, result # "ok"
      PROVE  /\ q[i] \in TrackType
             /\ q[i].index = list[i].index /\ q[i].socket = list[i].socket
             /\ ~q[i].told
  <2>1. q[i] = [list[i] EXCEPT !.told = FALSE]
    BY <1>3 DEF ParsePlayResponse
  <2> QED
    BY <1>1, <2>1 DEF TrackType
<1>4. DOMAIN q = DOMAIN list
  BY DEF ParsePlayResponse
<1>5. /\ q = [i \in 1 .. Len(list) |-> q[i]]
      /\ \A i \in 1 .. Len(list) : q[i] \in TrackType
  BY <1>1, <1>2, <1>3 DEF ParsePlayResponse
<1> HIDE DEF q
<1>6. q \in [1 .. Len(list) -> TrackType]
  BY <1>5
<1>7. q \in Seq(TrackType)
  BY <1>1, <1>6, SeqDef
<1>8. Len(q) = Len(list)
  BY <1>1, <1>4, <1>7, LenProperties
<1> QED
  BY <1>2, <1>3, <1>4, <1>7, <1>8 DEF q

LEMMA HandlerSessionTypes ==
  ASSUME TypeOK, HandlerStep, SessionAssumption, crashed = Alive
  PROVE  SessionTypes'
<1>1. /\ handler \in HandlerType /\ tracks \in Seq(TrackType) /\ mailbox # <<>>
      /\ DOMAIN source \subseteq 1 .. NumTracks /\ segment \in Nat
      /\ source \in [DOMAIN source -> SourceType]
  BY DEF TypeOK, SessionTypes, PlayerTypes, HandlerStep
<1>2. CASE UNCHANGED <<handler, tracks, source>>
  BY <1>1, <1>2 DEF SessionTypes
<1>3. CASE handler' \in HandlerType /\ UNCHANGED <<tracks, source>>
  BY <1>1, <1>3 DEF SessionTypes
<1>4. CASE OnConn \/ OnDisc \/ OnTear \/ OnBiny
  BY <1>2, <1>4 DEF OnConn, OnDisc, OnTear, OnBiny, sessionVars
<1>5. CASE OnDesc
  <2>1. CASE SetupTrack(1, tracks, source) /\ handler' = handler
    <3>1. 1 \in 1 .. NumTracks
      BY SessionAssumption
    <3> QED
      BY <1>1, <2>1, <3>1, SetupTypes DEF SessionTypes
  <2> QED
    BY <1>2, <1>5, <2>1 DEF OnDesc
<1>6. CASE OnSetu
  <2>1. CASE TrackGone
    BY <1>2, <1>6, <2>1, OnSetuPosts DEF sessionVars
  <2>2. CASE ~TrackGone
    <3>1. /\ Current.index \in 1 .. NumTracks
          /\ KeptTracks \in Seq(TrackType)
          /\ DOMAIN KeptSources \subseteq 1 .. NumTracks
          /\ KeptSources \in [DOMAIN KeptSources -> SourceType]
      BY <1>1, <1>6, <2>2, KeptTypes DEF OnSetu
    <3>2. handler' \in HandlerType
      <4>1. SetupReady \in BOOLEAN
        BY Zenon DEF SetupReady
      <4>2. handler' = [handler EXCEPT !.setupOK = SetupReady]
        BY <1>6, <2>2, OnSetuPosts
      <4> QED
        BY <1>1, <4>1, <4>2, HandlerForms
    <3>3. CASE tracks' = KeptTracks /\ source' = KeptSources
      BY <3>1, <3>2, <3>3 DEF SessionTypes
    <3>4. CASE /\ Current.index < NumTracks
               /\ SetupTrack(Current.index + 1, KeptTracks, KeptSources)
      <4>1. Current.index + 1 \in 1 .. NumTracks
        BY <3>1, <3>4, SessionAssumption
      <4>2. /\ tracks' \in Seq(TrackType)
            /\ DOMAIN source' \subseteq 1 .. NumTracks
            /\ source' \in [DOMAIN source' -> SourceType]
        BY <1>1, <3>1, <3>4, <4>1, SetupTypes
      <4> QED
        BY <3>2, <4>2 DEF SessionTypes
    <3> QED
      BY <1>6, <2>2, <3>3, <3>4, OnSetuPosts
  <2> QED
    BY <2>1, <2>2
<1>7. CASE OnPlay
  <2>1. CASE ~Failed(Current)
    <3>1. /\ tracks' \in Seq(TrackType) /\ source' = source
      BY <1>1, <1>7, <2>1, ParseTypes DEF OnPlay
    <3>2. handler' \in HandlerType
      <4>1. (Current.result = "ok") \in BOOLEAN
        BY Zenon
      <4> QED
        BY <1>1, <1>7, <2>1, <4>1, HandlerForms DEF OnPlay
    <3> QED
      BY <1>1, <3>1, <3>2 DEF SessionTypes
  <2>2. CASE Failed(Current)
    BY <1>2, <1>7, <2>2 DEF OnPlay
  <2> QED
    BY <2>1, <2>2
<1>8. CASE OnAbor
  <2>1. CASE UNCHANGED sessionVars
    BY <1>2, <2>1 DEF sessionVars
  <2>2. CASE ~UNCHANGED sessionVars
    <3> DEFINE f == [i \in DOMAIN source |->
                       IF \E t \in DOMAIN tracks : tracks[t].index = i
                       THEN SignalEOS(source[i]) ELSE source[i]]
    <3>1. tracks' = <<>> /\ handler' = HandlerAfterAbort /\ source' = Kept(f)
      BY <1>8, <2>2, OnAborPosts
    <3>2. HandlerAfterAbort \in HandlerType
      BY <1>1 DEF HandlerAfterAbort, HandlerType
    <3>3. DOMAIN f = DOMAIN source /\ f \in [DOMAIN f -> SourceType]
      BY <1>1, SourceForms
    <3> HIDE DEF f
    <3>4. /\ DOMAIN source' \subseteq 1 .. NumTracks
          /\ source' \in [DOMAIN source' -> SourceType]
      BY <1>1, <3>1, <3>3 DEF Kept
    <3> QED
      BY <3>1, <3>2, <3>4, EmptySeq DEF SessionTypes
  <2> QED
    BY <2>1, <2>2
<1>9. CASE OnQuit
  <2>1. handler' \in HandlerType
    BY <1>1, <1>9, HandlerForms DEF OnQuit
  <2> QED
    BY <1>3, <1>9, <2>1 DEF OnQuit
<1>10. CASE OnChek
  <2>1. handler' \in HandlerType
    BY <1>1, <1>10, HandlerForms DEF OnChek
  <2> QED
    BY <1>3, <1>10, <2>1 DEF OnChek
<1>11. CASE OnFirstPacket
  <2>1. handler' \in HandlerType
    BY <1>1, <1>11, HandlerForms DEF OnFirstPacket
  <2> QED
    BY <1>3, <1>11, <2>1 DEF OnFirstPacket
<1>12. CASE OnAccessUnit
  <2>1. CASE crashed' = "first unit"
    <3>1. crashed # "first unit"
      BY DEF Alive
    <3>2. UNCHANGED sessionVars
      BY <1>12, <2>1, <3>1, OnAccessUnitPosts
    <3> QED
      BY <1>2, <3>2 DEF sessionVars
  <2>2. CASE crashed' # "first unit"
    <3>1. /\ tracks' = tracks /\ Current \in Notices
          /\ source' = IF Wanted(Current)
                       THEN [source EXCEPT ![tracks[Current.track].index] =
                                QueueAccessUnit(@, Current.unit[1])]
                       ELSE source
      BY <1>12, <2>2, OnAccessUnitPosts
    <3>2. handler' \in HandlerType
      <4>1. /\ [handler EXCEPT !.units = TRUE] \in HandlerType
            /\ CheckPosted([handler EXCEPT !.units = TRUE]) \in HandlerType
        BY <1>1, HandlerForms
      <4>2. [CheckPosted([handler EXCEPT !.units = TRUE])
               EXCEPT !.firstUnit = FALSE, !.doneMsg = None] \in HandlerType
        BY <4>1, HandlerForms
      <4> QED
        BY <1>12, <2>2, <4>1, <4>2, OnAccessUnitPosts
    <3>3. Wanted(Current) => Current.unit[1] \in Units
      BY <3>1, NoticeFields DEF Wanted
    <3>4. CASE ~Wanted(Current)
      BY <1>3, <3>1, <3>2, <3>4
    <3>5. CASE Wanted(Current)
      <4> DEFINE k == tracks[Current.track].index
                 v == QueueAccessUnit(source[k], Current.unit[1])
      <4>1. k \in DOMAIN source => v \in SourceType
        BY <1>1, <3>3, <3>5, SourceForms
      <4>2. source' = [source EXCEPT ![k] = v]
        BY <3>1, <3>5
      <4> HIDE DEF k, v
      <4>3. source' \in [DOMAIN source -> SourceType] /\ DOMAIN source' = DOMAIN source
        BY <1>1, <4>1, <4>2
      <4> QED
        BY <1>1, <3>1, <3>2, <4>3 DEF SessionTypes
    <3> QED
      BY <3>4, <3>5
  <2> QED
    BY <2>1, <2>2
<1>13. CASE OnSeek
  <2>1. handler' \in HandlerType
    BY <1>1, <1>13, HandlerForms DEF OnSeek
  <2> QED
    BY <1>3, <1>13, <2>1 DEF OnSeek
<1>14. CASE OnSee1
  <2>1. /\ DOMAIN source' = DOMAIN source
        /\ source' \in [DOMAIN source -> SourceType]
    BY <1>1, <1>14, SourceForms DEF OnSee1
  <2> QED
    BY <1>1, <1>14, <2>1 DEF OnSee1, SessionTypes
<1>15. CASE OnSee2
  <2>1. CASE ~handler.seekPending
    BY <1>2, <1>15, <2>1, OnSee2Posts DEF sessionVars
  <2>2. CASE handler.seekPending
    <3>1. source' = source /\ tracks' \in Seq(TrackType)
      BY <1>1, <1>15, <2>2, ParseTypes DEF OnSee2
    <3>2. HandlerAfterSeek \in HandlerType
      <4>1. (IF Failed(Current) THEN handler.seekable ELSE Current.result = "ok")
               \in BOOLEAN
        <5>1. (Current.result = "ok") \in BOOLEAN
          BY Zenon
        <5> QED
          BY <1>1, <5>1 DEF HandlerType
      <4>2. \A b \in BOOLEAN :
               [handler EXCEPT !.seekPending = FALSE, !.seekable = b] \in HandlerType
        BY <1>1, HandlerForms
      <4>3. \A hd \in HandlerType : CheckPosted(hd) \in HandlerType
        BY HandlerForms
      <4>4. [handler EXCEPT !.seekPending = FALSE,
                            !.seekable = IF Failed(Current) THEN handler.seekable
                                         ELSE Current.result = "ok"] \in HandlerType
        BY <4>1, <4>2
      <4> QED
        BY <1>1, <4>3, <4>4 DEF HandlerAfterSeek
    <3>3. handler' = HandlerAfterSeek
      BY <1>15, <2>2 DEF OnSee2
    <3> QED
      BY <1>1, <3>1, <3>2, <3>3 DEF SessionTypes
  <2> QED
    BY <2>1, <2>2
<1>16. CASE OnTiou
  <2>1. handler' \in HandlerType
    BY <1>1, <1>16, HandlerForms DEF OnTiou, Interleaving
  <2> QED
    BY <1>3, <1>16, <2>1 DEF OnTiou
<1> QED
  BY <1>4, <1>5, <1>6, <1>7, <1>8, <1>9, <1>10, <1>11, <1>12, <1>13, <1>14,
     <1>15, <1>16 DEF HandlerStep, Handler

LEMMA SessionTypesKept ==
  ASSUME TypeOK, SessionAssumption, [Next]_vars
  PROVE  SessionTypes'
<1>1. /\ handler \in HandlerType /\ tracks \in Seq(TrackType)
      /\ DOMAIN source \subseteq 1 .. NumTracks
      /\ source \in [DOMAIN source -> SourceType]
  BY DEF TypeOK, SessionTypes
<1>2. CASE UNCHANGED <<handler, tracks, source>>
  BY <1>1, <1>2 DEF SessionTypes
<1>3. CASE UNCHANGED vars
  BY <1>2, <1>3 DEF vars, sessionVars
<1>4. CASE ConnectionStep \/ ControllerStep \/ NetworkStep \/ ServerStep
  BY <1>2, <1>4 DEF ConnectionStep, ConnectionFrame, ControllerStep,
                    ControllerFrame, NetworkStep, NetFrame, ServerStep,
                    ServerFrame, sessionVars
<1>5. CASE SeekStep
  BY <1>2, <1>5 DEF SeekStep, Seek, Dies, sessionVars
<1>6. ASSUME NEW m \in timers, Expires(m) PROVE SessionTypes'
  BY <1>2, <1>6 DEF Expires
<1>8. CASE FailStep
  BY <1>2, <1>8 DEF FailStep, sessionVars
<1>7. CASE WaitStep
  <2>1. CASE Prepare \/ Reset
    <3>1. handler' \in HandlerType
      BY <1>1, <2>1, HandlerForms DEF Prepare, Reset
    <3>2. source' = source \/ source' = <<>>
      BY <2>1 DEF Prepare, Reset
    <3>5. /\ DOMAIN <<>> \subseteq 1 .. NumTracks
          /\ <<>> \in [DOMAIN <<>> -> SourceType]
      OBVIOUS
    <3>3. DOMAIN source' \subseteq 1 .. NumTracks /\ source' \in [DOMAIN source' -> SourceType]
      BY <1>1, <3>2, <3>5
    <3>4. tracks' = tracks
      BY <2>1 DEF Prepare, Reset
    <3> QED
      BY <1>1, <3>1, <3>3, <3>4 DEF SessionTypes
  <2>2. CASE Decode
    <3>1. PICK i \in DOMAIN source : /\ HasUnit(source[i])
                                     /\ source' = [source EXCEPT ![i] = AfterRead(@)]
      BY <2>2 DEF Decode
    <3>2. AfterRead(source[i]) \in SourceType
      BY <1>1, <3>1, SourceForms
    <3>3. source' \in [DOMAIN source -> SourceType] /\ DOMAIN source' = DOMAIN source
      BY <1>1, <3>1, <3>2
    <3> QED
      BY <1>1, <2>2, <3>3 DEF Decode, SessionTypes
  <2>3. CASE ConnectReturns \/ BufferingUpdate \/ DisconnectReturns \/ Play \/ StreamDone
    BY <1>2, <2>3 DEF ConnectReturns, BufferingUpdate, DisconnectReturns, Play,
                      StreamDone, sessionVars
  <2> QED
    BY <1>7, <2>1, <2>2, <2>3 DEF WaitStep
<1> QED
  BY <1>3, <1>4, <1>5, <1>6, <1>7, <1>8, Steps, HandlerSessionTypes

-----------------------------------------------------------------------------
(* The types of the rest.                                                  *)

LEMMA PlayerTypesKept ==
  ASSUME TypeOK, [Next]_vars
  PROVE  PlayerTypes'
<1>1. PlayerTypes
  BY DEF TypeOK
<1>2. CASE UNCHANGED <<serverVars, playerVars>>
  BY <1>1, <1>2 DEF PlayerTypes, serverVars, playerVars
<1>3. CASE UNCHANGED vars
  BY <1>2, <1>3 DEF vars
<1>4. CASE NetworkStep \/ FailStep \/ \E m \in timers : Expires(m)
  BY <1>2, <1>4 DEF NetworkStep, NetFrame, FailStep, Expires
<1>5. CASE ConnectionStep
  <2>1. UNCHANGED <<playerVars, segment>> /\ serving' \in BOOLEAN
    BY <1>1, <1>5 DEF ConnectionStep, ConnectionFrame, ConnConnect,
                      ConnDisconnect, ConnSendRequest, PlayerTypes
  <2>2. conn' \in {"closed", "open", "deaf"}
    BY <1>1, <1>5 DEF ConnectionStep, ConnConnect, ConnDisconnect,
                      ConnSendRequest, PlayerTypes
  <2> QED
    BY <1>1, <2>1, <2>2 DEF PlayerTypes, playerVars
<1>6. CASE HandlerStep
  <2>1. UNCHANGED <<serverVars, player, playing, underrun, seeks>>
    BY <1>6 DEF HandlerStep, LooperFrame
  <2>2. UNCHANGED <<state, seekDone>>
    BY <1>6 DEF HandlerStep, Handler, OnConn, OnDisc, OnDesc, OnSetu, OnPlay,
                OnAbor, OnTear, OnQuit, OnChek, OnFirstPacket, OnAccessUnit,
                OnSeek, OnSee1, OnSee2, OnBiny, OnTiou, Calm, Dies
  <2> QED
    BY <1>2, <2>1, <2>2 DEF playerVars
<1>7. CASE ControllerStep
  <2>1. UNCHANGED <<serverVars, player, playing, underrun, seeks>>
    BY <1>7 DEF ControllerStep, LooperFrame
  <2>2. /\ state' \in {"disconnected", "connecting", "connected"}
        /\ seekDone' \in BOOLEAN
    BY <1>1, <1>7 DEF ControllerStep, OnConnectDone, OnDisconnectDone,
                      OnSeekDone, PlayerTypes
  <2> QED
    BY <1>1, <2>1, <2>2 DEF PlayerTypes, serverVars
<1>8. CASE ServerStep
  <2>1. UNCHANGED playerVars
    BY <1>8 DEF ServerStep, ServerFrame
  <2>2. conn' \in {"closed", "open", "deaf"} /\ segment' \in Nat /\ serving' \in BOOLEAN
    <3>1. CASE ServerAnswers
      <4>1. PICK result \in Answers(Answered) :
              LET reply == With(Answered, result)
                  what == Answered.what
              IN  /\ serving' = CASE what \in {"play", "see2"} -> ~Failed(reply)
                                  [] what \in {"see1", "tear"} -> FALSE
                                  [] OTHER -> serving
                  /\ segment' = IF what = "see2" /\ ~Failed(reply)
                                THEN segment + 1 ELSE segment
        BY <1>8, <3>1, AnswersAre
      <4>2. segment' \in Nat /\ conn' = conn
        BY <1>1, <1>8, <3>1, <4>1, AnswersAre DEF PlayerTypes
      <4>3. serving' \in BOOLEAN
        <5>1. (~Failed(With(Answered, result))) \in BOOLEAN
          BY Zenon DEF Failed
        <5> QED
          BY <1>1, <4>1, <5>1 DEF PlayerTypes
      <4> QED
        BY <1>1, <4>2, <4>3 DEF PlayerTypes
    <3>2. CASE ConnectionLost
      BY <1>1, <3>2 DEF ConnectionLost, PlayerTypes
    <3>3. CASE ServerSendsInterleaved
      BY <1>1, <3>3 DEF ServerSendsInterleaved, PlayerTypes, serverVars
    <3> QED
      BY <1>8, <3>1, <3>2, <3>3 DEF ServerStep
  <2> QED
    BY <1>1, <2>1, <2>2 DEF PlayerTypes, playerVars
<1>9. CASE WaitStep
  <2>1. UNCHANGED <<serverVars, seekDone, seeks>>
    BY <1>9 DEF WaitStep, PlayerFrame, Prepare, ConnectReturns, BufferingUpdate,
                DisconnectReturns, Play, Decode, StreamDone, Reset, playerVars
  <2>2. /\ state' \in {state, "connecting"}
        /\ player' \in {player, "connecting", "refused", "failed", "preparing",
                        "prepared", "disconnecting", "gone"}
    BY <1>9 DEF WaitStep, Prepare, ConnectReturns, BufferingUpdate,
                DisconnectReturns, Play, Decode, StreamDone, Reset, playerVars
  <2>3. playing' \in BOOLEAN /\ underrun' \in BOOLEAN
    BY <1>1, <1>9 DEF WaitStep, Prepare, ConnectReturns, BufferingUpdate,
                      DisconnectReturns, Play, Decode, StreamDone, Reset,
                      playerVars, PlayerTypes
  <2> QED
    BY <1>1, <2>1, <2>2, <2>3 DEF PlayerTypes, serverVars
<1>10. CASE SeekStep
  <2>1. UNCHANGED <<serverVars, state, player, playing, underrun>>
    BY <1>10 DEF SeekStep, PlayerFrame, Seek, Dies
  <2>2. CASE UNCHANGED <<seekDone, seeks>>
    BY <1>1, <2>1, <2>2 DEF PlayerTypes, serverVars
  <2>3. CASE seekDone' = TRUE /\ seeks' = seeks + 1
    BY <1>1, <2>1, <2>3 DEF PlayerTypes, serverVars
  <2> QED
    BY <1>10, <2>2, <2>3 DEF SeekStep, Seek, Dies
<1> QED
  BY <1>3, <1>4, <1>5, <1>6, <1>7, <1>8, <1>9, <1>10, Steps

LEMMA InitTypes == Init => TypeOK
<1> SUFFICES ASSUME Init PROVE TypeOK
  OBVIOUS
<1>1. BoxTypes
  BY EmptySeq DEF Init, BoxTypes
<1>2. NetTypes
  BY EmptySeq DEF Init, NetInit, NetTypes
<1>3. SessionTypes
  BY EmptySeq DEF Init, SessionTypes, HandlerType, None
<1>4. PlayerTypes
  BY DEF Init, PlayerTypes
<1> QED
  BY <1>1, <1>2, <1>3, <1>4 DEF TypeOK

LEMMA TypesKept ==
  ASSUME TypeOK, SessionAssumption, [Next]_vars
  PROVE  TypeOK'
BY BoxTypesKept, NetTypesKept, SessionTypesKept, PlayerTypesKept DEF TypeOK

\* DSPGMyHandler.h, its looper and those it talks to: every message that is
\* posted is one that is handled, and what it carries is what its handler
\* expects, a track number or a socket where there is one.
THEOREM TypesOfSession == Spec => []TypeOK
<1>1. Init => TypeOK
  BY InitTypes
<1>2. TypeOK /\ [Next]_vars => TypeOK'
  BY SessionAssumption, TypesKept
<1> QED
  BY <1>1, <1>2, PTL DEF Spec

-----------------------------------------------------------------------------
(* Messages on their way: posted to the looper, or requests that wait for  *)
(* the server.  A kind of message that does not depend on a result is      *)
(* neither won nor lost between the two.                                   *)

Total(box, due, M) == Count(box, M) + Count(due, M)

ResultBlind(M) == \A r \in Awaited, x \in Result : r \in M <=> With(r, x) \in M

\* Current is handled, and x posted or asked instead; x and y; or nothing.
Swaps(x, M) == /\ One(Current, M) \in Nat /\ One(x, M) \in Nat
               /\ One(Current, M) <= Total(mailbox, pending, M)
               /\ Total(mailbox', pending', M)
                    = Total(mailbox, pending, M) - One(Current, M) + One(x, M)
SwapsTwo(x, y, M) == /\ One(Current, M) \in Nat /\ One(x, M) \in Nat
                     /\ One(y, M) \in Nat
                     /\ One(Current, M) <= Total(mailbox, pending, M)
                     /\ Total(mailbox', pending', M)
                          = Total(mailbox, pending, M) - One(Current, M)
                              + One(x, M) + One(y, M)
Drops(M) == /\ One(Current, M) \in Nat
            /\ One(Current, M) <= Total(mailbox, pending, M)
            /\ Total(mailbox', pending', M)
                 = Total(mailbox, pending, M) - One(Current, M)
Adds(x, M) == /\ One(x, M) \in Nat
              /\ Total(mailbox', pending', M)
                   = Total(mailbox, pending, M) + One(x, M)

LEMMA TotalTypes ==
  ASSUME BoxTypes, NEW M
  PROVE  /\ Count(mailbox, M) \in Nat /\ Count(pending, M) \in Nat
         /\ Total(mailbox, pending, M) \in Nat
         /\ \A x : One(x, M) \in {0, 1}
BY MailTypes DEF Total, One

\* What is handled counts.
LEMMA CurrentCounts ==
  ASSUME TypeOK, mailbox # <<>>, NEW M
  PROVE  /\ One(Current, M) \in Nat
         /\ One(Current, M) <= Count(mailbox, M)
         /\ One(Current, M) <= Total(mailbox, pending, M)
<1>1. /\ Count(mailbox, M) \in Nat /\ Count(pending, M) \in Nat
  BY TotalTypes DEF TypeOK
<1>2. /\ mailbox \in Seq(Msg) /\ 1 \in DOMAIN mailbox /\ Current = mailbox[1]
  BY HeadTailProperties, EmptySeq, LenProperties DEF TypeOK, BoxTypes, Current
<1>3. Current \in M => Count(mailbox, M) >= 1
  BY <1>2, CountPositive
<1> QED
  BY <1>1, <1>3 DEF One, Total

LEMMA TakesFlow ==
  ASSUME TypeOK, mailbox # <<>>, pending' = pending, NEW M
  PROVE  /\ TakesNone => Drops(M)
         /\ \A x : Takes(x) => Swaps(x, M)
         /\ \A x, y : TakesTwo(x, y) => SwapsTwo(x, y, M)
<1> DEFINE a == Count(mailbox, M)
           b == Count(pending, M)
           c == One(Current, M)
           a1 == Count(mailbox', M)
<1>1. /\ a \in Nat /\ b \in Nat /\ c \in Nat /\ c <= a + b
      /\ \A x : One(x, M) \in {0, 1}
      /\ BoxTypes
  BY TotalTypes, CurrentCounts DEF TypeOK, Total
<1>2. TakesNone => a1 = a - c
  BY <1>1, HandlesNone DEF TakesNone
<1>3. \A x : Takes(x) => a1 = a - c + One(x, M)
  BY <1>1, HandlesOne DEF Takes
<1>4. \A x, y : TakesTwo(x, y) => a1 = a - c + One(x, M) + One(y, M)
  BY <1>1, HandlesTwo DEF TakesTwo
<1>5. /\ Total(mailbox, pending, M) = a + b /\ Total(mailbox', pending', M) = a1 + b
  BY DEF Total
<1> HIDE DEF a, b, a1
<1>7. TakesNone => Drops(M)
  BY <1>1, <1>2, <1>5 DEF Drops
<1>8. ASSUME NEW x, Takes(x) PROVE Swaps(x, M)
  <2>1. One(x, M) \in Nat
    BY <1>1
  <2>2. a1 + b = a + b - c + One(x, M)
    BY <1>1, <1>3, <1>8, <2>1
  <2> QED
    BY <1>1, <1>5, <2>1, <2>2 DEF Swaps
<1>9. ASSUME NEW x, NEW y, TakesTwo(x, y) PROVE SwapsTwo(x, y, M)
  <2>1. One(x, M) \in Nat /\ One(y, M) \in Nat
    BY <1>1
  <2>2. a1 + b = a + b - c + One(x, M) + One(y, M)
    BY <1>1, <1>4, <1>9, <2>1
  <2> QED
    BY <1>1, <1>5, <2>1, <2>2 DEF SwapsTwo
<1> QED
  BY <1>7, <1>8, <1>9

LEMMA PostsFlow ==
  ASSUME TypeOK, pending' = pending, NEW x \in Msg, mailbox' = Append(mailbox, x),
         NEW M
  PROVE  Adds(x, M)
<1>1. /\ Count(mailbox, M) \in Nat /\ Count(pending, M) \in Nat /\ One(x, M) \in Nat
  BY TotalTypes DEF TypeOK, One
<1>2. Count(mailbox', M) = Count(mailbox, M) + One(x, M)
  BY PostsOne DEF TypeOK
<1> QED
  BY <1>1, <1>2 DEF Adds, Total

\* The RTSP connection: what it posts for what it handles.
ConnectionSwap(x) ==
    \/ /\ Current = Connect
       /\ \E r \in {"ok", "error"} : x = [what |-> "conn", result |-> r]
    \/ \E b \in BOOLEAN : Current = Disconnect(Disc(b)) /\ x = Disc(b)
    \/ \E r \in Awaited : Current = Ask(r) /\ x = r

LEMMA SendIs ==
  ASSUME NEW m \in Msg, m.what = "send"
  PROVE  m.reply \in Awaited /\ m = Ask(m.reply)
<1>1. m \in Requests
  <2>1. m \notin Awaited
    BY AwaitedFields
  <2> QED
    BY <2>1 DEF Msg, Skips, Closings, Plain, Dones, Again, CheckMsgs, Notices, Binaries
<1> QED
  BY <1>1 DEF Requests, Ask

LEMMA ConnectionFlow ==
  ASSUME TypeOK, ConnectionStep
  PROVE  \E x \in Msg : /\ ConnectionSwap(x)
                        /\ \A M : ResultBlind(M) => Swaps(x, M)
<1>1. mailbox # <<>> /\ Current \in Msg /\ BoxTypes /\ pending \in Seq(Awaited)
  BY CurrentIs DEF ConnectionStep, TypeOK, BoxTypes
<1>2. "error" \in Result /\ "ok" \in Result
  BY DEF Result
<1>3. ASSUME NEW x \in Msg, mailbox' = Handled \o Flushed \o <<x>>,
             pending' = <<>>, NEW M, ResultBlind(M)
      PROVE  Swaps(x, M)
  <2>1. /\ Count(mailbox, M) \in Nat /\ Count(pending, M) \in Nat
        /\ One(x, M) \in Nat /\ One(Current, M) \in Nat
        /\ One(Current, M) <= Total(mailbox, pending, M)
    BY <1>1, TotalTypes, CurrentCounts DEF One
  <2>2. \A r \in Awaited : r \in M <=> With(r, "error") \in M
    BY <1>2, <1>3 DEF ResultBlind
  <2>3. Count(mailbox', M) = Count(mailbox, M) - One(Current, M)
                               + Count(pending, M) + One(x, M)
    BY <1>1, <1>3, <2>2, HandlesFlushed
  <2>4. Count(pending', M) = 0
    BY <1>3, CountEmpty
  <2>5. Total(mailbox', pending', M)
          = Total(mailbox, pending, M) - One(Current, M) + One(x, M)
    <3>1. \A a, b, c, d \in Int : a - c + b + d + 0 = a + b - c + d
      OBVIOUS
    <3> QED
      BY <2>1, <2>3, <2>4, <3>1 DEF Total
  <2> QED
    BY <2>1, <2>5 DEF Swaps
<1>4. CASE ConnConnect
  <2>1. PICK ok \in BOOLEAN :
            mailbox' = Handled \o Flushed
                         \o <<With(Reply("conn"), IF ok THEN "ok" ELSE "error")>>
    BY <1>4 DEF ConnConnect
  <2> DEFINE x == [what |-> "conn", result |-> IF ok THEN "ok" ELSE "error"]
  <2>2. With(Reply("conn"), IF ok THEN "ok" ELSE "error") = x
    BY DEF With, Reply
  <2>3. x \in Msg
    BY <1>2, Posted
  <2>4. Current = Connect
    <3>1. Current.what = "connect"
      BY <1>4 DEF ConnConnect
    <3> QED
      BY <1>1, <3>1 DEF Msg, Awaited, Skips, Requests, Closings, Plain, Dones,
                        Again, CheckMsgs, Notices, Binaries, Connect
  <2>5. pending' = <<>> /\ \E r \in {"ok", "error"} : x = [what |-> "conn", result |-> r]
    BY <1>4 DEF ConnConnect
  <2> HIDE DEF x
  <2> QED
    BY <1>3, <2>1, <2>2, <2>3, <2>4, <2>5 DEF ConnectionSwap
<1>5. CASE ConnDisconnect
  <2>1. /\ Current.what = "disconnect" /\ pending' = <<>>
        /\ mailbox' = Handled \o Flushed \o <<Current.reply>>
    BY <1>5 DEF ConnDisconnect
  <2>2. /\ Current.reply.again \in BOOLEAN
        /\ Current.reply = Disc(Current.reply.again)
        /\ Current = Disconnect(Disc(Current.reply.again))
    BY <1>1, <2>1, MsgFields
  <2>3. Current.reply \in Msg
    BY <2>2, Posted
  <2> QED
    BY <1>3, <2>1, <2>2, <2>3 DEF ConnectionSwap
<1>6. CASE ConnSendRequest
  <2> DEFINE r == Current.reply
             e == With(r, "error")
  <2>1. Current.what = "send"
    BY <1>6 DEF ConnSendRequest
  <2>2. r \in Awaited /\ Current = Ask(r) /\ r \in Msg
    BY <1>1, <2>1, SendIs, Posted
  <2>3. e \in Msg
    BY <1>2, <2>2, AwaitedAre, Posted
  <2>4. ASSUME NEW M, ResultBlind(M) PROVE Swaps(r, M)
    <3>1. One(e, M) = One(r, M)
      BY <1>2, <2>2, <2>4 DEF ResultBlind, One
    <3>2. CASE pending' = pending /\ mailbox' = Append(Handled, e)
      <4>1. Handled \in Seq(Msg)
        BY <1>1, CurrentIs
      <4>2. mailbox' = Handled \o <<e>>
        BY <2>3, <3>2, <4>1, AppendIsConcat
      <4>3. Swaps(e, M)
        BY <1>1, <2>3, <3>2, <4>2, TakesFlow DEF Takes
      <4> QED
        BY <3>1, <4>3 DEF Swaps
    <3>3. CASE pending' = Append(pending, r) /\ mailbox' = Handled
      <4>1. Handled \in Seq(Msg)
        BY <1>1, CurrentIs
      <4>2. mailbox' = Handled \o <<>>
        BY <3>3, <4>1, ConcatEmptySeq
      <4>3. Count(mailbox', M) = Count(mailbox, M) - One(Current, M)
        BY <1>1, <4>2, HandlesNone
      <4>4. Count(pending', M) = Count(pending, M) + One(r, M)
        <5>1. pending' = pending \o <<r>>
          BY <1>1, <2>2, <3>3, AppendIsConcat
        <5>2. Count(pending \o <<r>>, M) = Count(pending, M) + Count(<<r>>, M)
          <6>1. <<r>> \in Seq(Awaited)
            BY <2>2
          <6> QED
            BY <1>1, <6>1, CountConcat
        <5> QED
          BY <5>1, <5>2, CountOne
      <4>5. /\ Count(mailbox, M) \in Nat /\ Count(pending, M) \in Nat
            /\ One(r, M) \in Nat /\ One(Current, M) \in Nat
            /\ One(Current, M) <= Total(mailbox, pending, M)
        BY <1>1, TotalTypes, CurrentCounts DEF One
      <4>6. Total(mailbox', pending', M)
              = Total(mailbox, pending, M) - One(Current, M) + One(r, M)
        <5>1. \A a, b, c, d \in Int : (a - c) + (b + d) = a + b - c + d
          OBVIOUS
        <5> QED
          BY <4>3, <4>4, <4>5, <5>1 DEF Total
      <4> QED
        BY <4>5, <4>6 DEF Swaps
    <3> QED
      BY <1>6, <3>2, <3>3 DEF ConnSendRequest
  <2> QED
    BY <2>2, <2>4 DEF ConnectionSwap
<1> QED
  BY <1>4, <1>5, <1>6 DEF ConnectionStep

\* The server's answers and what a broken connection leaves add nothing.
LEMMA AnswersFlow ==
  ASSUME TypeOK, ServerStep, ServerAnswers \/ ConnectionLost, NEW M, ResultBlind(M)
  PROVE  Total(mailbox', pending', M) = Total(mailbox, pending, M)
<1>1. /\ BoxTypes /\ pending \in Seq(Awaited) /\ mailbox \in Seq(Msg)
      /\ Count(mailbox, M) \in Nat /\ Count(pending, M) \in Nat
  BY TotalTypes DEF TypeOK, BoxTypes
<1>2. CASE ServerAnswers
  <2>1. PICK result \in Answers(Answered) :
          /\ With(Answered, result) \in Msg
          /\ result \in {"ok", "refused", "moved", "live"}
          /\ mailbox' = Append(mailbox, With(Answered, result))
    BY <1>2, AnswersAre
  <2>2. /\ Count(pending', M) = Count(pending, M) - One(Answered, M)
        /\ Answered \in Awaited
    BY <1>2, AnswersAre
  <2>3. Count(mailbox', M) = Count(mailbox, M) + One(With(Answered, result), M)
    BY <1>1, <2>1, PostsOne
  <2>4. One(With(Answered, result), M) = One(Answered, M)
    <3>1. result \in Result
      BY <2>1 DEF Result
    <3> QED
      BY <2>2, <3>1 DEF ResultBlind, One
  <2>5. One(Answered, M) \in Int
    BY DEF One
  <2> QED
    BY <1>1, <2>2, <2>3, <2>4, <2>5 DEF Total
<1>3. CASE ConnectionLost
  <2>1. mailbox' = mailbox \o Flushed /\ pending' = <<>>
    BY <1>3 DEF ConnectionLost
  <2>2. Flushed \in Seq(Msg)
    BY <1>1, FlushedAre
  <2>3. Count(mailbox', M) = Count(mailbox, M) + Count(Flushed, M)
    BY <1>1, <2>1, <2>2, PostsAll
  <2>4. Count(Flushed, M) = Count(pending, M)
    <3>1. \A r \in Awaited : r \in M <=> With(r, "error") \in M
      BY DEF ResultBlind, Result
    <3> QED
      BY <1>1, <3>1, FlushedAre
  <2>5. Count(pending', M) = 0
    BY <2>1, CountEmpty
  <2> QED
    BY <1>1, <2>3, <2>4, <2>5 DEF Total
<1> QED
  BY <1>2, <1>3

LEMMA ServerFlow ==
  ASSUME TypeOK, ServerStep, NEW M, ResultBlind(M), M \cap Binaries = {}
  PROVE  Total(mailbox', pending', M) = Total(mailbox, pending, M)
<1>1. Count(mailbox, M) \in Nat /\ Count(pending, M) \in Nat
  BY TotalTypes DEF TypeOK
<1>2. CASE ServerAnswers \/ ConnectionLost
  BY <1>2, AnswersFlow
<1>3. CASE ServerSendsInterleaved
  <2>1. PICK m \in Binaries : m \in Msg /\ mailbox' = Append(mailbox, m)
    BY <1>3, InterleavedIs
  <2>2. pending' = pending
    BY <1>3 DEF ServerSendsInterleaved, serverVars
  <2>3. One(m, M) = 0
    BY DEF One
  <2>4. Adds(m, M)
    BY <2>1, <2>2, PostsFlow
  <2> QED
    BY <1>1, <2>3, <2>4 DEF Adds, Total
<1> QED
  BY <1>2, <1>3 DEF ServerStep

\* The RTP connection only posts notices.
LEMMA NetworkFlow ==
  ASSUME TypeOK, NetworkStep, NEW M, M \cap Notices = {}
  PROVE  Total(mailbox', pending', M) = Total(mailbox, pending, M)
<1>1. /\ BoxTypes /\ pending' = pending
      /\ Count(mailbox, M) \in Nat /\ Count(pending, M) \in Nat
  BY TotalTypes DEF TypeOK, NetworkStep, NetFrame, serverVars
<1>2. ASSUME mailbox' = mailbox
      PROVE  Total(mailbox', pending', M) = Total(mailbox, pending, M)
  BY <1>1, <1>2
<1>3. CASE OnPollStreams
  BY <1>2, <1>3, PollReads
<1>4. CASE OnInjectPacket
  <2>1. ASSUME NEW n \in Seq(Notices), mailbox' = mailbox \o n
        PROVE  Total(mailbox', pending', M) = Total(mailbox, pending, M)
    <3>1. n \in Seq(Msg)
      BY Posted, SeqMonotonic
    <3>2. Count(mailbox', M) = Count(mailbox, M) + Count(n, M)
      BY <1>1, <2>1, <3>1, PostsAll
    <3>3. \A i \in DOMAIN n : n[i] \in Notices
      BY LenProperties, ElementOfSeq
    <3>4. Count(n, M) = 0
      BY <3>3, CountNone
    <3> QED
      BY <1>1, <3>2, <3>4 DEF Total
  <2> QED
    BY <1>2, <1>4, <2>1, InjectReads DEF Receives
<1>5. CASE OnAddStream \/ OnRemoveStream \/ OnFakeTimestamps
  BY <1>2, <1>5 DEF OnAddStream, OnRemoveStream, OnFakeTimestamps
<1> QED
  BY <1>3, <1>4, <1>5 DEF NetworkStep

-----------------------------------------------------------------------------
(* Every seek is reported done once.                                       *)

SeekMsgs == {m \in Msg : IsOfSeek(m)}

SeekInv == crashed = Alive =>
             Total(mailbox, pending, SeekMsgs) = IF seekDone THEN 1 ELSE 0

LEMMA SeekKinds ==
  /\ ResultBlind(SeekMsgs)
  /\ SeekMsgs \cap Binaries = {} /\ SeekMsgs \cap Notices = {}
  /\ \A m \in Msg : m.what \in {"seek", "see1", "see2", "sdon"} => One(m, SeekMsgs) = 1
  /\ \A m \in Msg : m.what \notin {"seek", "see1", "see2", "sdon", "send"}
                      => One(m, SeekMsgs) = 0
  /\ \A r \in Awaited : One(Ask(r), SeekMsgs) = One(r, SeekMsgs)
<1>1. ResultBlind(SeekMsgs)
  <2> SUFFICES ASSUME NEW r \in Awaited, NEW x \in Result
               PROVE  r \in SeekMsgs <=> With(r, x) \in SeekMsgs
    BY DEF ResultBlind
  <2>1. With(r, x) \in Msg /\ r \in Msg /\ With(r, x).what = r.what
    BY AwaitedAre, AwaitedFields, Posted
  <2>2. r.what # "send"
    BY AwaitedFields
  <2> QED
    BY <2>1, <2>2 DEF SeekMsgs, IsOfSeek
<1>2. SeekMsgs \cap Binaries = {} /\ SeekMsgs \cap Notices = {}
  BY DEF SeekMsgs, IsOfSeek, Binaries, Notices
<1>3. /\ \A m \in Msg : m.what \in {"seek", "see1", "see2", "sdon"}
                          => One(m, SeekMsgs) = 1
      /\ \A m \in Msg : m.what \notin {"seek", "see1", "see2", "sdon", "send"}
                          => One(m, SeekMsgs) = 0
  BY DEF SeekMsgs, IsOfSeek, One
<1>4. ASSUME NEW r \in Awaited
      PROVE  One(Ask(r), SeekMsgs) = One(r, SeekMsgs)
  <2>1. Ask(r) \in Msg /\ r \in Msg /\ Ask(r).what = "send" /\ Ask(r).reply = r
    BY Posted DEF Ask
  <2>2. r.what \notin {"seek", "sdon", "send"}
    BY AwaitedFields
  <2>3. Ask(r) \in SeekMsgs <=> r \in SeekMsgs
    BY <2>1, <2>2 DEF SeekMsgs, IsOfSeek
  <2> QED
    BY <2>3 DEF One
<1> QED
  BY <1>1, <1>2, <1>3, <1>4

\* What is no message of a seek, and leaves the total as it is.
LEMMA SeekWeights ==
  /\ \A w \in {"play", "tear", "desc", "setu"}, r \in Awaited :
        r.what = w => One(Ask(r), SeekMsgs) = 0
  /\ One(Ask(Reply("see1")), SeekMsgs) = 1 /\ One(Ask(Reply("see2")), SeekMsgs) = 1
  /\ One(Ask(Reply("play")), SeekMsgs) = 0
  /\ \A b \in BOOLEAN : /\ One(Ask(TearReply(b)), SeekMsgs) = 0
                        /\ One(Abor(b), SeekMsgs) = 0 /\ One(Disc(b), SeekMsgs) = 0
                        /\ One(Disconnect(Disc(b)), SeekMsgs) = 0
  /\ One(Connect, SeekMsgs) = 0 /\ One(Tiou, SeekMsgs) = 0
  /\ One([what |-> "quit"], SeekMsgs) = 0
  /\ One([what |-> "sdon"], SeekMsgs) = 1 /\ One([what |-> "seek"], SeekMsgs) = 1
  /\ \A w \in {"conn", "cdon", "ddon"}, x \in Result :
        One([what |-> w, result |-> x], SeekMsgs) = 0
  /\ \A m \in CheckMsgs : One(m, SeekMsgs) = 0
<1>1. ASSUME NEW r \in Awaited
      PROVE  One(Ask(r), SeekMsgs) = IF r.what \in {"see1", "see2"} THEN 1 ELSE 0
  <2>1. r \in Msg /\ r.what \notin {"seek", "sdon", "send"}
    BY Posted, AwaitedFields
  <2> QED
    BY <2>1, SeekKinds
<1>2. /\ Reply("see1") \in Awaited /\ Reply("see2") \in Awaited
      /\ Reply("play") \in Awaited /\ \A b \in BOOLEAN : TearReply(b) \in Awaited
  BY AwaitedAre
<1>3. /\ One(Ask(Reply("see1")), SeekMsgs) = 1
      /\ One(Ask(Reply("see2")), SeekMsgs) = 1
      /\ One(Ask(Reply("play")), SeekMsgs) = 0
      /\ \A b \in BOOLEAN : One(Ask(TearReply(b)), SeekMsgs) = 0
  BY <1>1, <1>2 DEF Reply, TearReply
<1>4. \A b \in BOOLEAN : /\ One(Abor(b), SeekMsgs) = 0 /\ One(Disc(b), SeekMsgs) = 0
                         /\ One(Disconnect(Disc(b)), SeekMsgs) = 0
  <2> TAKE b \in BOOLEAN
  <2>1. Abor(b) \in Msg /\ Disc(b) \in Msg /\ Disconnect(Disc(b)) \in Msg
    BY Posted
  <2>2. /\ Abor(b).what = "abor" /\ Disc(b).what = "disc"
        /\ Disconnect(Disc(b)).what = "disconnect"
    BY DEF Abor, Disc, Disconnect
  <2> QED
    BY <2>1, <2>2, SeekKinds
<1>5. One(Connect, SeekMsgs) = 0 /\ One(Tiou, SeekMsgs) = 0
  BY Posted, SeekKinds DEF Connect, Tiou
<1>6. /\ One([what |-> "quit"], SeekMsgs) = 0
      /\ One([what |-> "sdon"], SeekMsgs) = 1 /\ One([what |-> "seek"], SeekMsgs) = 1
  BY Posted, SeekKinds
<1>7. \A w \in {"conn", "cdon", "ddon"}, x \in Result :
        One([what |-> w, result |-> x], SeekMsgs) = 0
  BY Posted, SeekKinds
<1>8. \A m \in CheckMsgs : One(m, SeekMsgs) = 0
  BY Posted, SeekKinds DEF CheckMsgs
<1> QED
  BY <1>1, <1>3, <1>4, <1>5, <1>6, <1>7, <1>8

LEMMA HandlerSeeks ==
  ASSUME TypeOK, HandlerStep, SessionAssumption, crashed' = Alive
  PROVE  /\ Total(mailbox', pending', SeekMsgs) = Total(mailbox, pending, SeekMsgs)
         /\ seekDone' = seekDone
<1> DEFINE M == SeekMsgs
<1>1. /\ mailbox # <<>> /\ pending' = pending /\ Current \in Msg
      /\ Total(mailbox, pending, M) \in Nat /\ One(Current, M) \in Nat
  BY CurrentIs, TotalTypes, CurrentCounts DEF HandlerStep, LooperFrame,
                                              serverVars, TypeOK
<1>2. seekDone' = seekDone
  BY DEF HandlerStep, Handler, OnConn, OnDisc, OnDesc, OnSetu, OnPlay, OnAbor,
         OnTear, OnQuit, OnChek, OnFirstPacket, OnAccessUnit, OnSeek, OnSee1,
         OnSee2, OnBiny, OnTiou, Calm, Dies
<1> SUFFICES Total(mailbox', pending', M) = Total(mailbox, pending, M)
  BY <1>2
<1>3. ASSUME TakesNone, One(Current, M) = 0
      PROVE  Total(mailbox', pending', M) = Total(mailbox, pending, M)
  BY <1>1, <1>3, TakesFlow DEF Drops
<1>4. ASSUME NEW x, Takes(x), One(Current, M) = One(x, M)
      PROVE  Total(mailbox', pending', M) = Total(mailbox, pending, M)
  BY <1>1, <1>4, TakesFlow DEF Swaps
<1>5. \A w : Current.what = w /\ w \notin {"seek", "see1", "see2", "sdon", "send"}
                 => One(Current, M) = 0
  BY <1>1, SeekKinds
<1>6. Current.what \in {"seek", "see1", "see2", "sdon"} => One(Current, M) = 1
  BY <1>1, SeekKinds
<1> HIDE DEF M
<1>7. CASE OnConn
  <2>1. One(Ask(DescReply(0)), M) = 0
    BY AwaitedAre, SeekWeights DEF DescReply, M
  <2> QED
    BY <1>4, <1>5, <1>7, <2>1, OnConnPosts, SeekWeights DEF OnConn, M
<1>8. CASE OnDisc
  BY <1>4, <1>5, <1>8, OnDiscPosts, SeekWeights DEF OnDisc, M
<1>9. CASE OnDesc
  <2>1. One(Current, M) = 0
    BY <1>5, <1>9 DEF OnDesc
  <2>2. Current.what = "desc"
    BY <1>9 DEF OnDesc
  <2>3. Current.moved \in Nat
    BY <1>1, <2>2, MsgFields, AwaitedFields
  <2>4. One(Ask(DescReply(Current.moved + 1)), M) = 0
    <3>1. DescReply(Current.moved + 1) \in Awaited
      BY <2>3, AwaitedAre
    <3> QED
      BY <3>1, SeekWeights DEF DescReply, M
  <2>5. ASSUME NEW x, SetupMsg(1, tracks, source, x), x \in Msg
        PROVE  One(x, M) = 0
    <3>1. CASE x = With(SetuReply(1, NoTrack), "error")
      <4>1. x.what = "setu"
        BY <3>1 DEF With, SetuReply
      <4> QED
        BY <2>5, <4>1, SeekKinds DEF M
    <3>2. CASE x = Ask(SetuReply(1, Len(tracks) + 1))
      <4>1. SetuReply(1, Len(tracks) + 1) \in Awaited
        <5>1. Len(tracks) \in Nat /\ 1 \in 1 .. NumTracks
          BY SessionAssumption, LenProperties DEF TypeOK, SessionTypes
        <5> QED
          BY <5>1, AwaitedAre DEF NoTrack
      <4> QED
        BY <3>2, <4>1, SeekWeights DEF SetuReply, M
    <3> QED
      BY <2>5, <3>1, <3>2 DEF SetupMsg
  <2>6. One(Disconnect(Disc(FALSE)), M) = 0
    BY SeekWeights DEF M
  <2>7. \E x : Takes(x) /\ One(x, M) = 0
    BY <1>9, <2>4, <2>5, <2>6, OnDescPosts DEF Takes
  <2> QED
    BY <1>4, <2>1, <2>7
<1>10. CASE OnSetu
  <2>1. One(Current, M) = 0 /\ Current.what = "setu"
    BY <1>5, <1>10 DEF OnSetu
  <2>2. ~TrackGone
    BY <1>10, OnSetuPosts DEF Alive
  <2>3. /\ Current.index \in 1 .. NumTracks /\ KeptTracks \in Seq(TrackType)
    BY <1>1, <2>1, <2>2, KeptTypes
  <2>4. ASSUME NEW x, SetupMsg(Current.index + 1, KeptTracks, KeptSources, x),
               x \in Msg, Current.index < NumTracks
        PROVE  One(x, M) = 0
    <3>1. CASE x = With(SetuReply(Current.index + 1, NoTrack), "error")
      <4>1. x.what = "setu"
        BY <3>1 DEF With, SetuReply
      <4> QED
        BY <2>4, <4>1, SeekKinds DEF M
    <3>2. CASE x = Ask(SetuReply(Current.index + 1, Len(KeptTracks) + 1))
      <4>1. SetuReply(Current.index + 1, Len(KeptTracks) + 1) \in Awaited
        <5>1. Len(KeptTracks) \in Nat /\ Current.index + 1 \in 1 .. NumTracks
          BY <2>3, <2>4, SessionAssumption, LenProperties
        <5> QED
          BY <5>1, AwaitedAre DEF NoTrack
      <4> QED
        BY <3>2, <4>1, SeekWeights DEF SetuReply, M
    <3> QED
      BY <2>4, <3>1, <3>2 DEF SetupMsg
  <2>5. One(Disconnect(Disc(FALSE)), M) = 0 /\ One(Ask(Reply("play")), M) = 0
    BY SeekWeights DEF M
  <2>6. \E x : Takes(x) /\ One(x, M) = 0
    BY <1>10, <2>2, <2>4, <2>5, OnSetuPosts DEF Takes
  <2> QED
    BY <1>4, <2>1, <2>6
<1>11. CASE OnPlay
  BY <1>3, <1>4, <1>5, <1>11, OnPlayPosts, SeekWeights DEF OnPlay, M
<1>12. CASE OnAbor
  <2>1. One(Current, M) = 0
    BY <1>5, <1>12 DEF OnAbor
  <2>2. Takes(Ask(TearReply(Current.again))) /\ Current.again \in BOOLEAN
    <3>1. Current.what = "abor"
      BY <1>12 DEF OnAbor
    <3> QED
      BY <1>1, <1>12, <3>1, OnAborPosts, MsgFields DEF Alive
  <2> QED
    BY <1>4, <2>1, <2>2, SeekWeights DEF M
<1>13. CASE OnTear
  BY <1>4, <1>5, <1>13, OnTearPosts, SeekWeights DEF OnTear, M
<1>14. CASE OnQuit
  <2>1. One(Current, M) = 0
    BY <1>5, <1>14 DEF OnQuit
  <2>2. handler.doneMsg # None => One([what |-> handler.doneMsg, result |-> "error"], M) = 0
    <3>1. handler.doneMsg \in {None, "cdon", "ddon"} /\ "error" \in Result
      BY DEF TypeOK, SessionTypes, HandlerType, Result
    <3> QED
      BY <3>1, SeekWeights DEF M
  <2> QED
    BY <1>3, <1>4, <1>14, <2>1, <2>2, OnQuitPosts
<1>15. CASE OnChek
  <2>1. One(Current, M) = 0
    BY <1>5, <1>15 DEF OnChek
  <2> QED
    BY <1>3, <1>4, <1>15, <2>1, OnChekPosts, SeekWeights DEF M
<1>16. CASE OnFirstPacket
  <2>1. One(Current, M) = 0
    BY <1>5, <1>16 DEF OnFirstPacket
  <2> QED
    BY <1>3, <1>16, <2>1 DEF OnFirstPacket, Posts, TakesNone
<1>17. CASE OnAccessUnit
  <2>1. One(Current, M) = 0
    BY <1>5, <1>17 DEF OnAccessUnit
  <2>2. \A d \in {"cdon", "ddon"} : One([what |-> d, result |-> "ok"], M) = 0
    BY SeekWeights DEF Result, M
  <2>3. crashed' # "first unit"
    BY DEF Alive
  <2>4. TakesNone \/ \E d \in {"cdon", "ddon"} : Takes([what |-> d, result |-> "ok"])
    BY <1>17, <2>3, OnAccessUnitPosts
  <2> QED
    BY <1>3, <1>4, <2>1, <2>2, <2>4
<1>18. CASE OnSeek
  BY <1>4, <1>6, <1>18, OnSeekPosts, SeekWeights DEF OnSeek, M
<1>19. CASE OnSee1
  BY <1>4, <1>6, <1>19, OnSee1Posts, SeekWeights DEF OnSee1, M
<1>20. CASE OnSee2
  <2>1. One(Current, M) = 1
    BY <1>6, <1>20 DEF OnSee2
  <2>2. /\ One(Abor(FALSE), M) = 0 /\ One([what |-> "sdon"], M) = 1
    BY SeekWeights DEF M
  <2>3. ASSUME TakesTwo(Abor(FALSE), [what |-> "sdon"])
        PROVE  Total(mailbox', pending', M) = Total(mailbox, pending, M)
    <3>1. SwapsTwo(Abor(FALSE), [what |-> "sdon"], M)
      BY <1>1, <2>3, TakesFlow
    <3>2. Total(mailbox', pending', M) = Total(mailbox, pending, M) - 1 + 0 + 1
      BY <2>1, <2>2, <3>1 DEF SwapsTwo
    <3>3. \A t \in Int : t - 1 + 0 + 1 = t
      OBVIOUS
    <3> QED
      BY <1>1, <3>2, <3>3
  <2> QED
    BY <1>4, <1>20, <2>1, <2>2, <2>3, OnSee2Posts DEF Alive
<1>21. CASE OnBiny
  <2>1. One(Current, M) = 0
    BY <1>5, <1>21 DEF OnBiny
  <2> QED
    BY <1>3, <1>21, <2>1 DEF OnBiny, Posts, TakesNone
<1>22. CASE OnTiou
  <2>1. One(Current, M) = 0
    BY <1>5, <1>22 DEF OnTiou
  <2> QED
    BY <1>3, <1>4, <1>22, <2>1, OnTiouPosts, SeekWeights DEF M
<1> QED
  BY <1>7, <1>8, <1>9, <1>10, <1>11, <1>12, <1>13, <1>14, <1>15, <1>16, <1>17,
     <1>18, <1>19, <1>20, <1>21, <1>22 DEF HandlerStep, Handler

LEMMA SeekKept ==
  ASSUME TypeOK, SessionAssumption, SeekInv, [Next]_vars
  PROVE  SeekInv'
<1> DEFINE M == SeekMsgs
           T == Total(mailbox, pending, M)
           T1 == Total(mailbox', pending', M)
<1> SUFFICES ASSUME crashed' = Alive PROVE T1 = IF seekDone' THEN 1 ELSE 0
  BY DEF SeekInv
<1>1. CASE UNCHANGED vars
  BY <1>1 DEF vars, serverVars, playerVars, SeekInv
<1>2. CASE Next
  <2>1. crashed = Alive /\ player \notin {"refused", "gone"}
    BY <1>2, Steps
  <2>2. /\ T = (IF seekDone THEN 1 ELSE 0) /\ seekDone \in BOOLEAN /\ T \in Nat
        /\ BoxTypes
    BY <2>1, TotalTypes DEF SeekInv, TypeOK, PlayerTypes
  <2>3. ASSUME T1 = T, seekDone' = seekDone
        PROVE  T1 = IF seekDone' THEN 1 ELSE 0
    BY <2>2, <2>3
  <2> HIDE DEF T, T1
  <2>4. CASE ConnectionStep
    <3>1. PICK x \in Msg : ConnectionSwap(x) /\ Swaps(x, M)
      BY <2>4, ConnectionFlow, SeekKinds
    <3>2. One(Current, M) = One(x, M)
      <4>1. CASE /\ Current = Connect
                 /\ \E r \in {"ok", "error"} : x = [what |-> "conn", result |-> r]
        BY <4>1, SeekWeights DEF Result
      <4>2. CASE \E b \in BOOLEAN : Current = Disconnect(Disc(b)) /\ x = Disc(b)
        BY <4>2, SeekWeights
      <4>3. CASE \E r \in Awaited : Current = Ask(r) /\ x = r
        BY <4>3, SeekKinds
      <4> QED
        BY <3>1, <4>1, <4>2, <4>3 DEF ConnectionSwap
    <3>3. T1 = T
      BY <2>2, <3>1, <3>2 DEF Swaps, T, T1
    <3>4. seekDone' = seekDone
      BY <2>4 DEF ConnectionStep, ConnectionFrame, playerVars
    <3> QED
      BY <2>3, <3>3, <3>4
  <2>5. CASE HandlerStep
    BY <2>3, <2>5, HandlerSeeks DEF T, T1
  <2>6. CASE ControllerStep
    <3>1. /\ mailbox # <<>> /\ pending' = pending /\ TakesNone /\ Current \in Msg
      BY <2>6, CurrentIs DEF ControllerStep, ControllerFrame, Posts, TakesNone,
                             LooperFrame, serverVars
    <3>2. Drops(M)
      BY <3>1, TakesFlow
    <3>3. CASE OnSeekDone
      <4>1. One(Current, M) = 1
        BY <3>1, <3>3, SeekKinds DEF OnSeekDone
      <4>2. seekDone' = FALSE
        BY <3>3 DEF OnSeekDone
      <4> QED
        BY <2>2, <3>2, <4>1, <4>2 DEF Drops, T, T1
    <3>4. CASE OnConnectDone \/ OnDisconnectDone
      <4>1. One(Current, M) = 0 /\ seekDone' = seekDone
        BY <3>1, <3>4, SeekKinds DEF OnConnectDone, OnDisconnectDone
      <4> QED
        BY <2>2, <2>3, <3>2, <4>1 DEF Drops, T, T1
    <3> QED
      BY <2>6, <3>3, <3>4 DEF ControllerStep
  <2>7. CASE NetworkStep
    BY <2>3, <2>7, NetworkFlow, SeekKinds DEF NetworkStep, NetFrame, playerVars, T, T1
  <2>8. CASE ServerStep
    BY <2>3, <2>8, ServerFlow, SeekKinds DEF ServerStep, ServerFrame, playerVars, T, T1
  <2>9. CASE WaitStep
    <3>1. /\ pending' = pending /\ seekDone' = seekDone
      BY <2>9 DEF WaitStep, PlayerFrame, serverVars, Prepare, ConnectReturns,
                  BufferingUpdate, DisconnectReturns, Play, Decode, StreamDone,
                  Reset, playerVars
    <3>2. /\ \/ mailbox' = mailbox \/ mailbox' = Append(mailbox, Connect)
             \/ mailbox' = Append(mailbox, Abor(FALSE))
      BY <2>9 DEF WaitStep, Prepare, ConnectReturns, BufferingUpdate,
                  DisconnectReturns, Play, Decode, StreamDone, Reset
    <3>3. Connect \in Msg /\ Abor(FALSE) \in Msg
      BY Posted
    <3>4. One(Connect, M) = 0 /\ One(Abor(FALSE), M) = 0
      BY SeekWeights
    <3>5. T1 = T
      <4>1. CASE mailbox' = mailbox
        BY <3>1, <4>1 DEF T, T1
      <4>2. ASSUME NEW x \in Msg, mailbox' = Append(mailbox, x), One(x, M) = 0
            PROVE  T1 = T
        BY <2>2, <3>1, <4>2, PostsFlow DEF Adds, T, T1
      <4> QED
        BY <3>2, <3>3, <3>4, <4>1, <4>2
    <3> QED
      BY <2>3, <3>1, <3>5
  <2>10. CASE SeekStep
    <3>1. /\ ~seekDone /\ seekDone' = TRUE
          /\ mailbox' = Append(mailbox, [what |-> "seek"])
      BY <2>10 DEF SeekStep, Seek, Dies, Alive
    <3>2. pending' = pending /\ [what |-> "seek"] \in Msg
      BY <2>10, Posted DEF SeekStep, PlayerFrame, serverVars
    <3>3. Adds([what |-> "seek"], M) /\ One([what |-> "seek"], M) = 1
      BY <3>1, <3>2, PostsFlow, SeekWeights
    <3> QED
      BY <2>2, <3>1, <3>3 DEF Adds, T, T1
  <2>11. ASSUME NEW m \in timers, Expires(m) PROVE T1 = IF seekDone' THEN 1 ELSE 0
    <3>1. /\ m \in {Tiou} \cup CheckMsgs /\ m \in Msg
      BY <2>11, Posted DEF TypeOK, BoxTypes
    <3>2. /\ mailbox' = Append(mailbox, m) /\ pending' = pending /\ seekDone' = seekDone
      BY <2>11 DEF Expires, serverVars, playerVars
    <3>3. One(m, M) = 0
      BY <3>1, SeekWeights
    <3>4. T1 = T
      BY <2>2, <3>1, <3>2, <3>3, PostsFlow DEF Adds, T, T1
    <3> QED
      BY <2>3, <3>2, <3>4
  <2> QED
    BY <1>2, <2>4, <2>5, <2>6, <2>7, <2>8, <2>9, <2>10, <2>11, Steps DEF FailStep
<1> QED
  BY <1>1, <1>2

\* DSPGARTSPController.cpp:96-179, DSPGMyHandler.h:811-925: seekAsync() sets
\* mSeekDoneCb, and whatever becomes of the seek, refused, too early, failed
\* or cut off by an abort, the controller is told once that it is done.
THEOREM SeeksAreReportedOnce == Spec => []SeekDoneOnce
<1>1. Init => SeekInv
  <2> SUFFICES ASSUME Init PROVE SeekInv
    OBVIOUS
  <2>1. mailbox = <<>> /\ pending = <<>> /\ seekDone = FALSE
    BY DEF Init
  <2> QED
    BY <2>1, CountEmpty DEF SeekInv, Total
<1>2. TypeOK /\ SeekInv /\ [Next]_vars => SeekInv'
  BY SessionAssumption, SeekKept
<1>3. TypeOK /\ SeekInv => SeekDoneOnce
  <2> SUFFICES ASSUME TypeOK, SeekInv PROVE SeekDoneOnce
    OBVIOUS
  <2>1. /\ \A i \in DOMAIN mailbox : mailbox[i] \in Msg
        /\ \A i \in DOMAIN pending : pending[i] \in Msg
    <3>1. Awaited \subseteq Msg
      BY Posted
    <3> QED
      BY <3>1, LenProperties, ElementOfSeq DEF TypeOK, BoxTypes
  <2>2. /\ Occurs(mailbox, SeekMsgs) = {i \in DOMAIN mailbox : IsOfSeek(mailbox[i])}
        /\ Occurs(pending, SeekMsgs) = {i \in DOMAIN pending : IsOfSeek(pending[i])}
    BY <2>1 DEF Occurs, SeekMsgs
  <2> QED
    BY <2>2 DEF SeekInv, SeekDoneOnce, Total, Count
<1>4. Spec => []TypeOK
  BY TypesOfSession
<1> QED
  BY <1>1, <1>2, <1>3, <1>4, PTL DEF Spec

-----------------------------------------------------------------------------
(* What a message is about.                                                *)

Kinds == {"setup", "play", "retry", "exit", "tiou", "abort", "check", "media",
          "told", "refusal", "ended", "seek"}

RequestKind(r) == CASE r.what \in {"desc", "setu", "play"} -> "setup"
                    [] r.what = "tear" -> IF r.again THEN "retry" ELSE "exit"
                    [] r.what \in {"see1", "see2"} -> "seek"

\* A session is set up, and retried, by one message at a time; exits end it.
Kind(m) == CASE m.what \in {"connect", "conn"} -> "setup"
             [] m.what = "send" -> RequestKind(m.reply)
             [] m.what \in {"desc", "setu", "tear", "see1", "see2"} -> RequestKind(m)
             [] m.what = "play" -> "play"
             [] m.what = "abor" -> IF m.again THEN "retry" ELSE "abort"
             [] m.what = "disconnect" -> IF m.reply.again THEN "retry" ELSE "exit"
             [] m.what = "disc" -> IF m.again THEN "setup" ELSE "exit"
             [] m.what = "quit" -> "exit"
             [] m.what = "tiou" -> "tiou"
             [] m.what = "chek" -> "check"
             [] m.what \in {"accu", "biny"} -> "media"
             [] m.what = "cdon" -> IF Failed(m) THEN "refusal" ELSE "told"
             [] m.what = "ddon" -> "ended"
             [] m.what \in {"seek", "sdon"} -> "seek"

LEMMA RequestKinds ==
  ASSUME NEW r \in Awaited
  PROVE  /\ r.what \in {"desc", "setu"} => Kind(r) = "setup" /\ Kind(Ask(r)) = "setup"
         /\ r.what = "play" => Kind(r) = "play" /\ Kind(Ask(r)) = "setup"
         /\ r.what = "tear" /\ r.again => Kind(r) = "retry" /\ Kind(Ask(r)) = "retry"
         /\ r.what = "tear" /\ ~r.again => Kind(r) = "exit" /\ Kind(Ask(r)) = "exit"
         /\ r.what \in {"see1", "see2"} => Kind(r) = "seek" /\ Kind(Ask(r)) = "seek"
         /\ Kind(r) \in Kinds /\ Kind(Ask(r)) \in Kinds
         /\ \A x \in Result : Kind(With(r, x)) = Kind(r)
<1>1. /\ r.what \in {"play", "see1", "see2", "desc", "setu", "tear"}
      /\ r.what = "tear" => r.again \in BOOLEAN
      /\ \A x \in Result : /\ With(r, x).what = r.what
                           /\ r.what = "tear" => With(r, x).again = r.again
  BY AwaitedFields
<1>2. Ask(r).what = "send" /\ Ask(r).reply = r
  BY DEF Ask
<1>3. r.what \in {"desc", "setu"} => Kind(r) = "setup" /\ Kind(Ask(r)) = "setup"
  BY <1>1, <1>2 DEF Kind, RequestKind
<1>4. r.what = "play" => Kind(r) = "play" /\ Kind(Ask(r)) = "setup"
  BY <1>1, <1>2 DEF Kind, RequestKind
<1>5. r.what = "tear" /\ r.again => Kind(r) = "retry" /\ Kind(Ask(r)) = "retry"
  BY <1>1, <1>2 DEF Kind, RequestKind
<1>6. r.what = "tear" /\ ~r.again => Kind(r) = "exit" /\ Kind(Ask(r)) = "exit"
  BY <1>1, <1>2 DEF Kind, RequestKind
<1>7. r.what \in {"see1", "see2"} => Kind(r) = "seek" /\ Kind(Ask(r)) = "seek"
  BY <1>1, <1>2 DEF Kind, RequestKind
<1>8. Kind(r) \in Kinds /\ Kind(Ask(r)) \in Kinds
  BY <1>1, <1>3, <1>4, <1>5, <1>6, <1>7 DEF Kinds
<1>9. ASSUME NEW x \in Result PROVE Kind(With(r, x)) = Kind(r)
  BY <1>1 DEF Kind, RequestKind
<1> QED
  BY <1>3, <1>4, <1>5, <1>6, <1>7, <1>8, <1>9

LEMMA OtherKinds ==
  ASSUME NEW m \in Msg
  PROVE  /\ m.what \in {"connect", "conn", "desc", "setu"} => Kind(m) = "setup"
         /\ m.what = "send" => Kind(m) = Kind(Ask(m.reply))
         /\ m.what = "play" => Kind(m) = "play"
         /\ m.what = "abor" => Kind(m) = IF m.again THEN "retry" ELSE "abort"
         /\ m.what = "tear" => Kind(m) = IF m.again THEN "retry" ELSE "exit"
         /\ m.what = "disconnect" => Kind(m) = IF m.reply.again THEN "retry" ELSE "exit"
         /\ m.what = "disc" => Kind(m) = IF m.again THEN "setup" ELSE "exit"
         /\ m.what = "quit" => Kind(m) = "exit"
         /\ m.what = "tiou" => Kind(m) = "tiou"
         /\ m.what = "chek" => Kind(m) = "check"
         /\ m.what \in {"accu", "biny"} => Kind(m) = "media"
         /\ m.what = "cdon" => Kind(m) = IF Failed(m) THEN "refusal" ELSE "told"
         /\ m.what = "ddon" => Kind(m) = "ended"
         /\ m.what \in {"seek", "sdon", "see1", "see2"} => Kind(m) = "seek"
<1>1. m.what = "send" => m = Ask(m.reply)
  BY SendIs
<1> QED
  BY <1>1 DEF Kind, RequestKind

LEMMA KindTypes ==
  ASSUME NEW m \in Msg
  PROVE  Kind(m) \in Kinds
<1>1. m \in Awaited \/ m.what = "send" \/ m \notin Awaited \cup Requests
  BY DEF Requests
<1>2. CASE m \in Awaited
  BY <1>2, RequestKinds
<1>3. CASE m.what = "send"
  BY <1>3, SendIs, RequestKinds
<1>4. CASE m \in Skips \cup Closings \cup Plain \cup Dones \cup Again \cup CheckMsgs
                   \cup Notices \cup Binaries
  <2>1. m.what \in {"setu", "disconnect", "connect", "tiou", "quit", "seek", "sdon",
                    "conn", "cdon", "ddon", "disc", "abor", "chek", "accu", "biny"}
    BY <1>4 DEF Skips, Closings, Plain, Dones, Again, CheckMsgs, Notices, Binaries
  <2> QED
    BY <2>1, OtherKinds DEF Kinds
<1> QED
  BY <1>2, <1>3, <1>4 DEF Msg, Requests

LEMMA FormKinds ==
  /\ Kind(Connect) = "setup" /\ Kind(Tiou) = "tiou"
  /\ Kind([what |-> "quit"]) = "exit"
  /\ Kind([what |-> "sdon"]) = "seek" /\ Kind([what |-> "seek"]) = "seek"
  /\ \A x \in Result : /\ Kind([what |-> "conn", result |-> x]) = "setup"
                       /\ Kind([what |-> "ddon", result |-> x]) = "ended"
  /\ Kind([what |-> "cdon", result |-> "ok"]) = "told"
  /\ Kind([what |-> "cdon", result |-> "error"]) = "refusal"
  /\ Kind(Abor(TRUE)) = "retry" /\ Kind(Abor(FALSE)) = "abort"
  /\ Kind(Disc(TRUE)) = "setup" /\ Kind(Disc(FALSE)) = "exit"
  /\ Kind(Disconnect(Disc(TRUE))) = "retry" /\ Kind(Disconnect(Disc(FALSE))) = "exit"
  /\ Kind(Ask(TearReply(TRUE))) = "retry" /\ Kind(Ask(TearReply(FALSE))) = "exit"
  /\ Kind(Ask(Reply("play"))) = "setup"
  /\ Kind(Ask(Reply("see1"))) = "seek" /\ Kind(Ask(Reply("see2"))) = "seek"
  /\ \A n : Kind(Ask(DescReply(n))) = "setup"
  /\ \A i, t : /\ Kind(Ask(SetuReply(i, t))) = "setup"
               /\ Kind(With(SetuReply(i, t), "error")) = "setup"
  /\ \A n : Kind(Chek(n)) = "check"
  /\ \A m \in Notices \cup Binaries : Kind(m) = "media"
<1>1. /\ Kind(Connect) = "setup" /\ Kind(Tiou) = "tiou"
      /\ Kind([what |-> "quit"]) = "exit"
      /\ Kind([what |-> "sdon"]) = "seek" /\ Kind([what |-> "seek"]) = "seek"
  BY DEF Kind, Connect, Tiou
<1>2. /\ \A x \in Result : /\ Kind([what |-> "conn", result |-> x]) = "setup"
                           /\ Kind([what |-> "ddon", result |-> x]) = "ended"
      /\ Kind([what |-> "cdon", result |-> "ok"]) = "told"
      /\ Kind([what |-> "cdon", result |-> "error"]) = "refusal"
  BY DEF Kind, Failed
<1>3. /\ Kind(Abor(TRUE)) = "retry" /\ Kind(Abor(FALSE)) = "abort"
      /\ Kind(Disc(TRUE)) = "setup" /\ Kind(Disc(FALSE)) = "exit"
      /\ Kind(Disconnect(Disc(TRUE))) = "retry"
      /\ Kind(Disconnect(Disc(FALSE))) = "exit"
  BY DEF Kind, Abor, Disc, Disconnect
<1>4. /\ Kind(Ask(TearReply(TRUE))) = "retry" /\ Kind(Ask(TearReply(FALSE))) = "exit"
      /\ Kind(Ask(Reply("play"))) = "setup"
      /\ Kind(Ask(Reply("see1"))) = "seek" /\ Kind(Ask(Reply("see2"))) = "seek"
      /\ \A n : Kind(Ask(DescReply(n))) = "setup"
      /\ \A i, t : Kind(Ask(SetuReply(i, t))) = "setup"
  BY DEF Kind, RequestKind, Ask, TearReply, Reply, DescReply, SetuReply
<1>5. \A i, t : Kind(With(SetuReply(i, t), "error")) = "setup"
  <2> TAKE i, t
  <2>1. With(SetuReply(i, t), "error").what = "setu"
    BY DEF With, SetuReply
  <2> QED
    BY <2>1 DEF Kind, RequestKind
<1>6. \A n : Kind(Chek(n)) = "check"
  BY DEF Kind, Chek
<1>7. \A m \in Notices \cup Binaries : Kind(m) = "media"
  BY DEF Kind, Notices, Binaries
<1> QED
  BY <1>1, <1>2, <1>3, <1>4, <1>5, <1>6, <1>7

\* How many messages of each kind are on their way.
Of(k) == {m \in Msg : Kind(m) = k}
Flying == [k \in Kinds |-> Total(mailbox, pending, Of(k))]

\* A message of kind j is handled, and one of kind l posted for it; or nothing.
Turns(j, l) == /\ j \in Kinds /\ l \in Kinds /\ Flying[j] >= 1
               /\ \A k \in Kinds : Flying'[k] = Flying[k] - (IF k = j THEN 1 ELSE 0)
                                                 + (IF k = l THEN 1 ELSE 0)
Spends(j) == /\ j \in Kinds /\ Flying[j] >= 1
             /\ \A k \in Kinds : Flying'[k] = Flying[k] - (IF k = j THEN 1 ELSE 0)
Gains(l) == /\ l \in Kinds
            /\ \A k \in Kinds : Flying'[k] = Flying[k] + (IF k = l THEN 1 ELSE 0)

LEMMA FlyingTypes ==
  ASSUME TypeOK
  PROVE  /\ Flying \in [Kinds -> Nat]
         /\ \A k \in Kinds : /\ Flying[k] = Total(mailbox, pending, Of(k))
                             /\ Flying'[k] = Total(mailbox', pending', Of(k))
         /\ \A k : ResultBlind(Of(k))
         /\ \A m \in Msg, k \in Kinds : One(m, Of(k)) = IF Kind(m) = k THEN 1 ELSE 0
<1>1. \A k \in Kinds : Total(mailbox, pending, Of(k)) \in Nat
  BY TotalTypes DEF TypeOK
<1>2. /\ \A k \in Kinds : Flying[k] = Total(mailbox, pending, Of(k))
      /\ Flying \in [Kinds -> Nat]
  BY <1>1 DEF Flying
<1>3. \A k \in Kinds : Flying'[k] = Total(mailbox', pending', Of(k))
  BY DEF Flying
<1>4. \A k : ResultBlind(Of(k))
  <2> SUFFICES ASSUME NEW k, NEW r \in Awaited, NEW x \in Result
               PROVE  r \in Of(k) <=> With(r, x) \in Of(k)
    BY DEF ResultBlind
  <2>1. With(r, x) \in Msg /\ r \in Msg
    BY AwaitedAre, Posted
  <2> QED
    BY <2>1, RequestKinds DEF Of
<1>5. \A m \in Msg, k \in Kinds : One(m, Of(k)) = IF Kind(m) = k THEN 1 ELSE 0
  BY DEF One, Of
<1> QED
  BY <1>2, <1>3, <1>4, <1>5

LEMMA KindFlow ==
  ASSUME TypeOK, mailbox # <<>>, pending' = pending
  PROVE  /\ Current \in Msg /\ Kind(Current) \in Kinds /\ Flying[Kind(Current)] >= 1
         /\ TakesNone => Spends(Kind(Current))
         /\ \A x : Takes(x) => Turns(Kind(Current), Kind(x))
         /\ TakesTwo(Abor(FALSE), [what |-> "sdon"]) =>
              \A k \in Kinds : Flying'[k] = Flying[k]
                                 - (IF k = Kind(Current) THEN 1 ELSE 0)
                                 + (IF k \in {"abort", "seek"} THEN 1 ELSE 0)
<1>1. Current \in Msg /\ Kind(Current) \in Kinds
  BY CurrentIs, KindTypes
<1>2. Flying[Kind(Current)] >= 1
  BY <1>1, FlyingTypes, CurrentCounts
<1>3. ASSUME TakesNone PROVE Spends(Kind(Current))
  <2>1. \A k \in Kinds : Drops(Of(k))
    BY <1>3, TakesFlow
  <2> QED
    BY <1>1, <1>2, <2>1, FlyingTypes DEF Drops, Spends
<1>4. ASSUME NEW x, Takes(x) PROVE Turns(Kind(Current), Kind(x))
  <2>1. \A k \in Kinds : Swaps(x, Of(k))
    BY <1>4, TakesFlow
  <2>2. x \in Msg /\ Kind(x) \in Kinds
    BY <1>4, KindTypes DEF Takes
  <2> QED
    BY <1>1, <1>2, <2>1, <2>2, FlyingTypes DEF Swaps, Turns
<1>5. ASSUME TakesTwo(Abor(FALSE), [what |-> "sdon"]), NEW k \in Kinds
      PROVE  Flying'[k] = Flying[k] - (IF k = Kind(Current) THEN 1 ELSE 0)
                            + (IF k \in {"abort", "seek"} THEN 1 ELSE 0)
  <2>1. SwapsTwo(Abor(FALSE), [what |-> "sdon"], Of(k))
    BY <1>5, TakesFlow
  <2> DEFINE a == One(Abor(FALSE), Of(k))
             b == One([what |-> "sdon"], Of(k))
             c == One(Current, Of(k))
  <2>2. /\ c = (IF Kind(Current) = k THEN 1 ELSE 0)
        /\ a = (IF Kind(Abor(FALSE)) = k THEN 1 ELSE 0)
        /\ b = (IF Kind([what |-> "sdon"]) = k THEN 1 ELSE 0)
    <3>1. Abor(FALSE) \in Msg /\ [what |-> "sdon"] \in Msg
      BY Posted
    <3> QED
      BY <1>1, <1>5, <3>1, FlyingTypes
  <2>3. Kind(Abor(FALSE)) = "abort" /\ Kind([what |-> "sdon"]) = "seek"
    BY FormKinds
  <2>4. Flying'[k] = Flying[k] - c + a + b /\ Flying[k] \in Nat
    BY <2>1, FlyingTypes DEF SwapsTwo
  <2>5. /\ a = (IF k = "abort" THEN 1 ELSE 0)
        /\ b = (IF k = "seek" THEN 1 ELSE 0)
        /\ c = (IF k = Kind(Current) THEN 1 ELSE 0)
    BY <2>2, <2>3
  <2> HIDE DEF a, b, c
  <2>6. a + b = IF k \in {"abort", "seek"} THEN 1 ELSE 0
    BY <2>5
  <2>7. a \in Int /\ b \in Int /\ c \in Int
    BY <2>5
  <2>8. Flying[k] - c + a + b = Flying[k] - c + (a + b)
    BY <2>4, <2>7
  <2> QED
    BY <2>4, <2>5, <2>6, <2>8
<1> QED
  BY <1>1, <1>2, <1>3, <1>4, <1>5

LEMMA KindPosts ==
  ASSUME TypeOK, pending' = pending, NEW x \in Msg, mailbox' = Append(mailbox, x)
  PROVE  Gains(Kind(x))
<1>1. \A k \in Kinds : Adds(x, Of(k))
  BY PostsFlow
<1>2. Kind(x) \in Kinds
  BY KindTypes
<1> QED
  BY <1>1, <1>2, FlyingTypes DEF Adds, Gains

AsksToPlay == Current.what = "send" /\ Current.reply.what = "play"

LEMMA ConnectionKinds ==
  ASSUME TypeOK, ConnectionStep
  PROVE  \/ /\ ~AsksToPlay
            /\ \E k \in {"setup", "exit", "retry", "seek"} : Turns(k, k)
         \/ Turns("retry", "setup") /\ Current = Disconnect(Disc(TRUE))
         \/ Turns("setup", "play")
<1>1. mailbox # <<>> /\ Current \in Msg
  BY CurrentIs DEF ConnectionStep
<1>2. PICK x \in Msg : ConnectionSwap(x) /\ \A k \in Kinds : Swaps(x, Of(k))
  <2>1. PICK x \in Msg : ConnectionSwap(x) /\ \A M : ResultBlind(M) => Swaps(x, M)
    BY ConnectionFlow
  <2> QED
    BY <2>1, FlyingTypes
<1>3. Turns(Kind(Current), Kind(x))
  <2>1. Kind(Current) \in Kinds /\ Kind(x) \in Kinds /\ Flying[Kind(Current)] >= 1
    BY <1>1, <1>2, KindTypes, FlyingTypes, CurrentCounts
  <2> QED
    BY <1>1, <1>2, <2>1, FlyingTypes DEF Swaps, Turns
<1>4. CASE /\ Current = Connect
           /\ \E r \in {"ok", "error"} : x = [what |-> "conn", result |-> r]
  <2>1. ~AsksToPlay
    BY <1>4 DEF AsksToPlay, Connect
  <2> QED
    BY <1>3, <1>4, <2>1, FormKinds DEF Result
<1>5. CASE \E b \in BOOLEAN : Current = Disconnect(Disc(b)) /\ x = Disc(b)
  <2>3. ~AsksToPlay
    BY <1>5 DEF AsksToPlay, Disconnect
  <2>1. CASE Current = Disconnect(Disc(TRUE)) /\ x = Disc(TRUE)
    BY <1>3, <2>1, FormKinds
  <2>2. CASE Current = Disconnect(Disc(FALSE)) /\ x = Disc(FALSE)
    BY <1>3, <2>2, <2>3, FormKinds
  <2> QED
    BY <1>5, <2>1, <2>2
<1>6. CASE \E r \in Awaited : Current = Ask(r) /\ x = r
  <2>1. PICK r \in Awaited : Current = Ask(r) /\ x = r
    BY <1>6
  <2>2. r.what \in {"play", "see1", "see2", "desc", "setu", "tear"}
    BY AwaitedFields
  <2>3. AsksToPlay <=> r.what = "play"
    BY <2>1 DEF AsksToPlay, Ask
  <2> QED
    BY <1>3, <2>1, <2>2, <2>3, RequestKinds
<1> QED
  BY <1>2, <1>4, <1>5, <1>6 DEF ConnectionSwap

LEMMA MediaKinds ==
  ASSUME TypeOK, ServerStep \/ NetworkStep
  PROVE  \A k \in Kinds \ {"media"} : Flying'[k] = Flying[k]
<1> TAKE k \in Kinds \ {"media"}
<1>1. Of(k) \cap Binaries = {} /\ Of(k) \cap Notices = {}
  BY FormKinds DEF Of
<1>2. Total(mailbox', pending', Of(k)) = Total(mailbox, pending, Of(k))
  BY <1>1, ServerFlow, NetworkFlow, FlyingTypes
<1> QED
  BY <1>2, FlyingTypes

\* PLAY is under way: not yet answered, or refused and not yet handled.
Starting == \/ \E r \in Due : r.what = "play"
            \/ \E m \in Mail : m.what = "play" /\ Failed(m)

\* Like Turns and Spends, of a step that starts nothing.
Deals(j, l) == Turns(j, l) /\ (Starting' => Starting)
Drains(j) == Spends(j) /\ (Starting' => Starting)

LEMMA StartingFlies ==
  ASSUME TypeOK, Starting
  PROVE  Flying["play"] >= 1
<1> DEFINE M == Of("play")
<1>1. /\ Mail \subseteq Msg /\ Due \subseteq Awaited
      /\ Count(mailbox, M) \in Nat /\ Count(pending, M) \in Nat
      /\ Count(mailbox, M) = 0 <=> Mail \cap M = {}
      /\ Count(pending, M) = 0 <=> Due \cap M = {}
  BY MailTypes DEF TypeOK
<1>2. \A m \in Msg : m.what = "play" => m \in M
  BY OtherKinds DEF Of
<1>3. Awaited \subseteq Msg
  BY Posted
<1>4. Due \cap M # {} \/ Mail \cap M # {}
  BY <1>1, <1>2, <1>3 DEF Starting
<1>5. Flying["play"] = Count(mailbox, M) + Count(pending, M)
  BY FlyingTypes DEF Total, Kinds
<1> QED
  BY <1>1, <1>4, <1>5

LEMMA PostedStartsNothing ==
  ASSUME TypeOK, pending' = pending,
         \A m \in Mail' : m \in Mail \/ m.what # "play"
  PROVE  Starting' => Starting
<1>1. Due' = Due
  BY DEF Due
<1> QED
  BY <1>1 DEF Starting

LEMMA HandledMoves ==
  ASSUME TypeOK, mailbox # <<>>, pending' = pending
  PROVE  /\ Current \in Msg /\ Kind(Current) \in Kinds /\ Flying[Kind(Current)] >= 1
         /\ TakesNone => Drains(Kind(Current))
         /\ \A x : Takes(x) /\ x.what # "play" => Deals(Kind(Current), Kind(x))
         /\ TakesTwo(Abor(FALSE), [what |-> "sdon"]) =>
              /\ Starting' => Starting
              /\ \A k \in Kinds : Flying'[k] = Flying[k]
                                 - (IF k = Kind(Current) THEN 1 ELSE 0)
                                 + (IF k \in {"abort", "seek"} THEN 1 ELSE 0)
<1>1. /\ Current \in Msg /\ Kind(Current) \in Kinds /\ Flying[Kind(Current)] >= 1
      /\ Rest \subseteq Mail /\ BoxTypes
  BY KindFlow, CurrentIs DEF TypeOK
<1>2. ASSUME TakesNone PROVE Drains(Kind(Current))
  <2>1. \A m \in Mail' : m \in Mail \/ m.what # "play"
    BY <1>1, <1>2, HandlesNone DEF TakesNone
  <2>2. Starting' => Starting
    BY <2>1, PostedStartsNothing
  <2> QED
    BY <1>2, <2>2, KindFlow DEF Drains
<1>3. ASSUME NEW x, Takes(x), x.what # "play" PROVE Deals(Kind(Current), Kind(x))
  <2>1. \A m \in Mail' : m \in Mail \/ m.what # "play"
    BY <1>1, <1>3, HandlesOne DEF Takes
  <2>2. Starting' => Starting
    BY <1>3, <2>1, PostedStartsNothing
  <2> QED
    BY <1>3, <2>2, KindFlow DEF Deals
<1>4. ASSUME TakesTwo(Abor(FALSE), [what |-> "sdon"]) PROVE Starting' => Starting
  <2>1. Mail' \subseteq Mail \cup {Abor(FALSE), [what |-> "sdon"]}
    BY <1>1, <1>4, HandlesTwo DEF TakesTwo
  <2>2. Abor(FALSE).what # "play" /\ [what |-> "sdon"].what # "play"
    BY DEF Abor
  <2>3. \A m \in Mail' : m \in Mail \/ m.what # "play"
    BY <2>1, <2>2
  <2> QED
    BY <2>3, PostedStartsNothing
<1> QED
  BY <1>1, <1>2, <1>3, <1>4, KindFlow

\* What each handler makes of its message.
LEMMA SetupMoves ==
  ASSUME TypeOK, HandlerStep, SessionAssumption, crashed' = Alive
  PROVE  /\ OnConn => Deals("setup", "setup") \/ Deals("setup", "exit")
         /\ OnDisc => Deals("setup", "setup") \/ Deals("exit", "exit")
         /\ OnDesc => \/ Deals("setup", "setup")
                      \/ Deals("setup", "exit") /\ UNCHANGED <<tracks, source, open>>
         /\ OnSetu => Deals("setup", "setup") \/ Deals("setup", "exit")
<1>1. /\ mailbox # <<>> /\ pending' = pending /\ Current \in Msg
      /\ \A x : Takes(x) /\ x.what # "play" => Deals(Kind(Current), Kind(x))
  BY HandledMoves, CurrentIs DEF HandlerStep, LooperFrame, serverVars
<1>2. ASSUME OnConn PROVE Deals("setup", "setup") \/ Deals("setup", "exit")
  <2>1. Kind(Current) = "setup"
    BY <1>1, <1>2, OtherKinds DEF OnConn
  <2>2. /\ Kind(Disc(FALSE)) = "exit" /\ Kind(Ask(DescReply(0))) = "setup"
        /\ Disc(FALSE).what = "disc" /\ Ask(DescReply(0)).what = "send"
    BY FormKinds DEF Disc, Ask
  <2> QED
    BY <1>1, <1>2, <2>1, <2>2, OnConnPosts
<1>3. ASSUME OnDisc PROVE Deals("setup", "setup") \/ Deals("exit", "exit")
  <2>1. Kind(Current) = IF Current.again THEN "setup" ELSE "exit"
    BY <1>1, <1>3, OtherKinds DEF OnDisc
  <2>2. /\ Kind(Connect) = "setup" /\ Kind([what |-> "quit"]) = "exit"
        /\ Connect.what = "connect" /\ [what |-> "quit"].what = "quit"
    BY FormKinds DEF Connect
  <2> QED
    BY <1>1, <1>3, <2>1, <2>2, OnDiscPosts
<1>4. ASSUME NEW i, NEW list, NEW sources, NEW x, SetupMsg(i, list, sources, x)
      PROVE  Kind(x) = "setup" /\ x.what \in {"setu", "send"}
  <2>1. /\ With(SetuReply(i, NoTrack), "error").what = "setu"
        /\ Ask(SetuReply(i, Len(list) + 1)).what = "send"
    BY DEF With, SetuReply, Ask
  <2> QED
    BY <1>4, <2>1, FormKinds DEF SetupMsg
<1>5. ASSUME OnDesc
      PROVE  \/ Deals("setup", "setup")
             \/ Deals("setup", "exit") /\ UNCHANGED <<tracks, source, open>>
  <2>1. Kind(Current) = "setup"
    BY <1>1, <1>5, OtherKinds DEF OnDesc
  <2>2. /\ Kind(Disconnect(Disc(FALSE))) = "exit"
        /\ Kind(Ask(DescReply(Current.moved + 1))) = "setup"
        /\ Disconnect(Disc(FALSE)).what = "disconnect"
        /\ Ask(DescReply(Current.moved + 1)).what = "send"
    BY FormKinds DEF Disconnect, Ask
  <2>3. ASSUME NEW x, Takes(x), SetupMsg(1, tracks, source, x)
        PROVE  Deals("setup", "setup")
    BY <1>1, <1>4, <2>1, <2>3
  <2>4. \/ Takes(Ask(DescReply(Current.moved + 1)))
        \/ Takes(Disconnect(Disc(FALSE))) /\ UNCHANGED <<tracks, source, open>>
        \/ \E x : Takes(x) /\ SetupMsg(1, tracks, source, x)
    BY <1>5, OnDescPosts
  <2> QED
    BY <1>1, <2>1, <2>2, <2>3, <2>4
<1>6. ASSUME OnSetu PROVE Deals("setup", "setup") \/ Deals("setup", "exit")
  <2>1. Kind(Current) = "setup"
    BY <1>1, <1>6, OtherKinds DEF OnSetu
  <2>2. /\ Kind(Disconnect(Disc(FALSE))) = "exit"
        /\ Kind(Ask(Reply("play"))) = "setup"
        /\ Disconnect(Disc(FALSE)).what = "disconnect"
        /\ Ask(Reply("play")).what = "send"
    BY FormKinds DEF Disconnect, Ask
  <2>3. ~TrackGone
    BY <1>6, OnSetuPosts DEF Alive
  <2>4. \/ \E x : /\ Takes(x)
                  /\ SetupMsg(Current.index + 1, KeptTracks, KeptSources, x)
        \/ Takes(Ask(Reply("play"))) \/ Takes(Disconnect(Disc(FALSE)))
    BY <1>6, <2>3, OnSetuPosts
  <2> QED
    BY <1>1, <1>4, <2>1, <2>2, <2>4
<1> QED
  BY <1>2, <1>3, <1>5, <1>6

LEMMA PlayMoves ==
  ASSUME TypeOK, HandlerStep, crashed' = Alive
  PROVE  /\ OnPlay => IF Failed(Current) THEN Deals("play", "exit") /\ Starting
                      ELSE Drains("play")
         /\ OnAbor => IF Current.again THEN Deals("retry", "retry")
                      ELSE Deals("abort", "exit")
         /\ OnTear => Deals("retry", "retry") \/ Deals("exit", "exit")
         /\ OnQuit => CASE handler.doneMsg = "cdon" -> Deals("exit", "refusal")
                        [] handler.doneMsg = "ddon" -> Deals("exit", "ended")
                        [] OTHER -> Drains("exit")
<1>1. /\ mailbox # <<>> /\ pending' = pending /\ Current \in Msg /\ Current \in Mail
      /\ TakesNone => Drains(Kind(Current))
      /\ \A x : Takes(x) /\ x.what # "play" => Deals(Kind(Current), Kind(x))
  BY HandledMoves, CurrentIs DEF HandlerStep, LooperFrame, serverVars
<1>2. ASSUME OnPlay
      PROVE  IF Failed(Current) THEN Deals("play", "exit") /\ Starting
             ELSE Drains("play")
  <2>1. Kind(Current) = "play" /\ Current.what = "play"
    BY <1>1, <1>2, OtherKinds DEF OnPlay
  <2>2. /\ Kind(Disconnect(Disc(FALSE))) = "exit"
        /\ Disconnect(Disc(FALSE)).what = "disconnect"
    BY FormKinds DEF Disconnect
  <2>3. Failed(Current) => Starting
    BY <1>1, <2>1 DEF Starting
  <2> QED
    BY <1>1, <1>2, <2>1, <2>2, <2>3, OnPlayPosts
<1>3. ASSUME OnAbor
      PROVE  IF Current.again THEN Deals("retry", "retry") ELSE Deals("abort", "exit")
  <2>1. /\ Kind(Current) = IF Current.again THEN "retry" ELSE "abort"
        /\ Current.again \in BOOLEAN
    BY <1>1, <1>3, OtherKinds, MsgFields DEF OnAbor
  <2>2. /\ Kind(Ask(TearReply(TRUE))) = "retry" /\ Kind(Ask(TearReply(FALSE))) = "exit"
        /\ Ask(TearReply(TRUE)).what = "send" /\ Ask(TearReply(FALSE)).what = "send"
    BY FormKinds DEF Ask
  <2>3. Takes(Ask(TearReply(Current.again)))
    BY <1>3, OnAborPosts DEF Alive
  <2>4. CASE Current.again = TRUE
    BY <1>1, <2>1, <2>2, <2>3, <2>4
  <2>5. CASE Current.again = FALSE
    BY <1>1, <2>1, <2>2, <2>3, <2>5
  <2> QED
    BY <2>1, <2>4, <2>5
<1>4. ASSUME OnTear PROVE Deals("retry", "retry") \/ Deals("exit", "exit")
  <2>1. Kind(Current) = IF Current.again THEN "retry" ELSE "exit"
    BY <1>1, <1>4, OtherKinds DEF OnTear
  <2>2. /\ Kind(Disconnect(Disc(TRUE))) = "retry"
        /\ Kind(Disconnect(Disc(FALSE))) = "exit"
        /\ Disconnect(Disc(TRUE)).what = "disconnect"
        /\ Disconnect(Disc(FALSE)).what = "disconnect"
    BY FormKinds DEF Disconnect
  <2>3. Current.again \in BOOLEAN /\ Takes(Disconnect(Disc(Current.again)))
    BY <1>4, OnTearPosts
  <2>4. CASE Current.again = TRUE
    BY <1>1, <2>1, <2>2, <2>3, <2>4
  <2>5. CASE Current.again = FALSE
    BY <1>1, <2>1, <2>2, <2>3, <2>5
  <2> QED
    BY <2>3, <2>4, <2>5
<1>5. ASSUME OnQuit
      PROVE  CASE handler.doneMsg = "cdon" -> Deals("exit", "refusal")
               [] handler.doneMsg = "ddon" -> Deals("exit", "ended")
               [] OTHER -> Drains("exit")
  <2>1. Kind(Current) = "exit"
    BY <1>1, <1>5, OtherKinds DEF OnQuit
  <2>2. /\ Kind([what |-> "cdon", result |-> "error"]) = "refusal"
        /\ Kind([what |-> "ddon", result |-> "error"]) = "ended"
        /\ [what |-> "cdon", result |-> "error"].what = "cdon"
        /\ [what |-> "ddon", result |-> "error"].what = "ddon"
    BY FormKinds DEF Result
  <2>3. handler.doneMsg \in {None, "cdon", "ddon"} /\ None \notin {"cdon", "ddon"}
    BY DEF TypeOK, SessionTypes, HandlerType, None
  <2> QED
    BY <1>1, <1>5, <2>1, <2>2, <2>3, OnQuitPosts
<1> QED
  BY <1>2, <1>3, <1>4, <1>5

LEMMA MediaMoves ==
  ASSUME TypeOK, HandlerStep, crashed' = Alive
  PROVE  /\ OnChek => Drains("check") \/ (Deals("check", "abort") /\ UNCHANGED timers)
         /\ OnFirstPacket => Drains("media")
         /\ OnBiny => Drains("media")
         /\ OnAccessUnit =>
              \/ (~Wanted(Current) \/ ~handler.firstUnit) /\ Drains("media")
              \/ /\ Wanted(Current) /\ handler.firstUnit
                 /\ \/ handler.doneMsg = "cdon" /\ Deals("media", "told")
                    \/ handler.doneMsg = "ddon" /\ Deals("media", "ended")
         /\ OnSeek => Deals("seek", "seek")
         /\ OnSee1 => Deals("seek", "seek")
         /\ OnSee2 =>
              /\ handler.seekPending
              /\ \/ ~Failed(Current) /\ Deals("seek", "seek")
                 \/ /\ Failed(Current) /\ (Starting' => Starting)
                    /\ Flying["seek"] >= 1
                    /\ \A k \in Kinds : Flying'[k] = Flying[k]
                                          + (IF k = "abort" THEN 1 ELSE 0)
         /\ OnTiou =>
              /\ Flying["tiou"] >= 1
              /\ \/ Drains("tiou")
                 \/ /\ Deals("tiou", "retry")
                    /\ ~handler.gotRTCP /\ ~handler.gotRTP /\ ~handler.tryTCP
                    /\ handler' = [handler EXCEPT !.tryTCP = TRUE]
                    /\ UNCHANGED netbox
                 \/ /\ Deals("tiou", "abort")
                    /\ IF handler.gotRTP THEN handler.tryFake ELSE handler.tryTCP
                    /\ UNCHANGED <<handler, netbox>>
<1>1. /\ mailbox # <<>> /\ pending' = pending /\ Current \in Msg
      /\ Flying[Kind(Current)] >= 1
      /\ TakesNone => Drains(Kind(Current))
      /\ \A x : Takes(x) /\ x.what # "play" => Deals(Kind(Current), Kind(x))
  BY HandledMoves, CurrentIs DEF HandlerStep, LooperFrame, serverVars
<1>2. ASSUME OnChek
      PROVE  Drains("check") \/ (Deals("check", "abort") /\ UNCHANGED timers)
  <2>1. Kind(Current) = "check"
    BY <1>1, <1>2, OtherKinds DEF OnChek
  <2>2. Kind(Abor(FALSE)) = "abort" /\ Abor(FALSE).what = "abor"
    BY FormKinds DEF Abor
  <2> QED
    BY <1>1, <1>2, <2>1, <2>2, OnChekPosts
<1>3. ASSUME OnFirstPacket \/ OnBiny PROVE Drains("media")
  <2>1. Kind(Current) = "media"
    BY <1>1, <1>3, OtherKinds DEF OnFirstPacket, OnBiny
  <2>2. TakesNone
    BY <1>3 DEF OnFirstPacket, OnBiny, Posts, TakesNone
  <2> QED
    BY <1>1, <2>1, <2>2
<1>4. ASSUME OnAccessUnit
      PROVE  \/ (~Wanted(Current) \/ ~handler.firstUnit) /\ Drains("media")
             \/ /\ Wanted(Current) /\ handler.firstUnit
                /\ \/ handler.doneMsg = "cdon" /\ Deals("media", "told")
                   \/ handler.doneMsg = "ddon" /\ Deals("media", "ended")
  <2>1. Kind(Current) = "media"
    BY <1>1, <1>4, OtherKinds DEF OnAccessUnit
  <2>2. /\ Kind([what |-> "cdon", result |-> "ok"]) = "told"
        /\ Kind([what |-> "ddon", result |-> "ok"]) = "ended"
        /\ [what |-> "cdon", result |-> "ok"].what = "cdon"
        /\ [what |-> "ddon", result |-> "ok"].what = "ddon"
    BY FormKinds DEF Result
  <2>3. \/ (~Wanted(Current) \/ ~handler.firstUnit) /\ TakesNone
        \/ /\ Wanted(Current) /\ handler.firstUnit
           /\ handler.doneMsg \in {"cdon", "ddon"}
           /\ Takes([what |-> handler.doneMsg, result |-> "ok"])
    <3>1. crashed' # "first unit"
      BY DEF Alive
    <3> QED
      BY <1>4, <3>1, OnAccessUnitPosts
  <2> QED
    BY <1>1, <2>1, <2>2, <2>3
<1>5. ASSUME OnSeek \/ OnSee1 PROVE Deals("seek", "seek")
  <2>1. Kind(Current) = "seek"
    BY <1>1, <1>5, OtherKinds DEF OnSeek, OnSee1
  <2>2. /\ Kind([what |-> "sdon"]) = "seek" /\ [what |-> "sdon"].what = "sdon"
        /\ \A w \in {"see1", "see2"} : /\ Kind(Ask(Reply(w))) = "seek"
                                       /\ Ask(Reply(w)).what = "send"
    BY FormKinds DEF Ask
  <2> QED
    BY <1>1, <1>5, <2>1, <2>2, OnSeekPosts, OnSee1Posts
<1>6. ASSUME OnSee2
      PROVE  /\ handler.seekPending
             /\ \/ ~Failed(Current) /\ Deals("seek", "seek")
                \/ /\ Failed(Current) /\ (Starting' => Starting)
                   /\ Flying["seek"] >= 1
                   /\ \A k \in Kinds : Flying'[k] = Flying[k]
                                         + (IF k = "abort" THEN 1 ELSE 0)
  <2>1. Kind(Current) = "seek"
    BY <1>1, <1>6, OtherKinds DEF OnSee2
  <2>2. Kind([what |-> "sdon"]) = "seek" /\ [what |-> "sdon"].what = "sdon"
    BY FormKinds
  <2>3. /\ handler.seekPending
        /\ IF Failed(Current) THEN TakesTwo(Abor(FALSE), [what |-> "sdon"])
           ELSE Takes([what |-> "sdon"])
    BY <1>6, OnSee2Posts DEF Alive
  <2>4. CASE ~Failed(Current)
    BY <1>1, <2>1, <2>2, <2>3, <2>4
  <2>5. CASE Failed(Current)
    <3>1. /\ Starting' => Starting
          /\ \A k \in Kinds : Flying'[k] = Flying[k]
                                 - (IF k = "seek" THEN 1 ELSE 0)
                                 + (IF k \in {"abort", "seek"} THEN 1 ELSE 0)
      BY <1>1, <2>1, <2>3, <2>5, HandledMoves
    <3>2. ASSUME NEW k \in Kinds
          PROVE  Flying'[k] = Flying[k] + (IF k = "abort" THEN 1 ELSE 0)
      <4>1. Flying[k] \in Nat
        BY FlyingTypes
      <4>2. CASE k = "seek"
        BY <3>1, <4>1, <4>2
      <4>3. CASE k = "abort"
        BY <3>1, <4>1, <4>3
      <4>4. CASE k \notin {"seek", "abort"}
        BY <3>1, <4>1, <4>4
      <4> QED
        BY <4>2, <4>3, <4>4
    <3> QED
      BY <1>1, <2>1, <2>3, <2>5, <3>1, <3>2
  <2> QED
    BY <2>3, <2>4, <2>5
<1>7. ASSUME OnTiou
      PROVE  /\ Flying["tiou"] >= 1
             /\ \/ Drains("tiou")
                \/ /\ Deals("tiou", "retry")
                   /\ ~handler.gotRTCP /\ ~handler.gotRTP /\ ~handler.tryTCP
                   /\ handler' = [handler EXCEPT !.tryTCP = TRUE]
                   /\ UNCHANGED netbox
                \/ /\ Deals("tiou", "abort")
                   /\ IF handler.gotRTP THEN handler.tryFake ELSE handler.tryTCP
                   /\ UNCHANGED <<handler, netbox>>
  <2>1. Kind(Current) = "tiou"
    BY <1>1, <1>7, OtherKinds DEF OnTiou
  <2>2. /\ Kind(Abor(TRUE)) = "retry" /\ Kind(Abor(FALSE)) = "abort"
        /\ Abor(TRUE).what = "abor" /\ Abor(FALSE).what = "abor"
    BY FormKinds DEF Abor
  <2> QED
    BY <1>1, <1>7, <2>1, <2>2, OnTiouPosts
<1>8. /\ OnFirstPacket => Drains("media")
      /\ OnBiny => Drains("media")
      /\ OnSeek => Deals("seek", "seek")
      /\ OnSee1 => Deals("seek", "seek")
  BY <1>3, <1>5
<1> QED
  BY <1>2, <1>4, <1>6, <1>7, <1>8

-----------------------------------------------------------------------------
(* Before and after a session is fed.  A session that plays was set up with *)
(* interleaved streams, and nothing comes before it plays.                 *)

Waiting == IF Tiou \in timers THEN 1 ELSE 0

\* What can still lead to a session that plays.
Attempts == Flying["setup"] + Flying["play"] + Flying["retry"] + Flying["tiou"]
              + Waiting

SettingUp == Flying["setup"] > 0 \/ Starting
\* connect() was told, but there was no access unit.
Over == tracks # <<>> /\ handler.firstUnit /\ handler.doneMsg # "cdon"
Lost == (Flying["exit"] > 0 /\ tracks # <<>>) \/ Over

\* Once true this stays so: see FedStays.
Fed == handler.tryTCP /\ Flying["retry"] = 0 /\ ~SettingUp /\ ~Lost

Untold == /\ player \in {"new", "connecting", "refused"}
          /\ state # "connected"
          /\ Flying["told"] = 0 /\ Flying["ended"] = 0

EmptySources == \A i \in DOMAIN source : source[i].buffers = <<>>

NoFeed == \A m \in ToSet(netbox) : m.what # "inject"

NoInjected == /\ \A i \in DOMAIN streams : ~streams[i].injected
              /\ \A m \in ToSet(netbox) : m.what = "add" => ~m.stream.injected

Quiet == /\ handler.firstUnit /\ ~handler.checkPending /\ ~handler.seekPending
         /\ ~handler.gotRTP /\ ~seekDone /\ segment = 0
         /\ timers \subseteq {Tiou}
         /\ Flying["check"] = 0 /\ Flying["abort"] = 0 /\ Flying["media"] = 0
         /\ NoFeed /\ EmptySources

UnfedInv == /\ Attempts <= 1
            /\ Attempts > 0 => handler.doneMsg = "cdon"
            /\ Flying["exit"] > 0 \/ Over => Attempts = 0
            /\ Quiet /\ Untold
            /\ Flying["retry"] > 0 \/ ~handler.tryTCP => NoInjected
            /\ SettingUp \/ Lost => ~serving

\* What the player knows of connect() and disconnect().
Unused == /\ mailbox = <<>> /\ pending = <<>> /\ netbox = <<>> /\ streams = <<>>
          /\ timers = {} /\ conn = "closed" /\ ~serving /\ tracks = <<>>
          /\ source = <<>> /\ ~handler.tryTCP /\ handler.doneMsg = None

Bit(b) == IF b THEN 1 ELSE 0

Connecting == /\ Flying["told"] + Flying["refusal"] + Bit(handler.doneMsg = "cdon")
                   + Bit(state # "connecting") = 1
              /\ Flying["ended"] = 0 /\ handler.doneMsg # "ddon"

Prepared == /\ state = "connected" /\ handler.doneMsg = None
            /\ Flying["told"] = 0 /\ Flying["refusal"] = 0 /\ Flying["ended"] = 0

Disconnecting == /\ Flying["told"] = 0 /\ Flying["refusal"] = 0
                 /\ handler.doneMsg # "cdon"
                 /\ state = "connected" \/ tracks = <<>>
                 /\ Flying["ended"] > 0 => tracks = <<>>

PlayerInv == /\ player = "new" => Unused
             /\ player = "connecting" => Connecting
             /\ player \in {"failed", "preparing", "prepared"} => Prepared
             /\ player = "disconnecting" => Disconnecting
             /\ tracks # <<>> /\ handler.firstUnit => Untold

FeedInv == crashed = Alive => (Fed \/ UnfedInv) /\ PlayerInv

LEMMA SeekFlies ==
  ASSUME TypeOK, SeekInv, crashed = Alive
  PROVE  Flying["seek"] = IF seekDone THEN 1 ELSE 0
<1>1. \A m \in Msg : IsOfSeek(m) <=> Kind(m) = "seek"
  <2> SUFFICES ASSUME NEW m \in Msg PROVE IsOfSeek(m) <=> Kind(m) = "seek"
    OBVIOUS
  <2>1. CASE m.what = "send"
    <3>1. m.reply \in Awaited /\ m = Ask(m.reply)
      BY <2>1, SendIs
    <3>2. m.reply.what \in {"play", "see1", "see2", "desc", "setu", "tear"}
      BY <3>1, AwaitedFields
    <3>3. Kind(m) = "seek" <=> m.reply.what \in {"see1", "see2"}
      <4>1. /\ m.reply.what \in {"desc", "setu"} => Kind(m) = "setup"
            /\ m.reply.what = "play" => Kind(m) = "setup"
            /\ m.reply.what = "tear" /\ m.reply.again => Kind(m) = "retry"
            /\ m.reply.what = "tear" /\ ~m.reply.again => Kind(m) = "exit"
            /\ m.reply.what \in {"see1", "see2"} => Kind(m) = "seek"
        BY <3>1, RequestKinds
      <4> QED
        BY <3>2, <4>1
    <3> QED
      BY <2>1, <3>3 DEF IsOfSeek
  <2>2. CASE m.what # "send"
    <3>1. m.what \in {"play", "see1", "see2", "desc", "setu", "tear", "disconnect",
                      "connect", "tiou", "quit", "seek", "sdon", "conn", "cdon",
                      "ddon", "disc", "abor", "chek", "accu", "biny"}
      BY <2>2 DEF Msg, Awaited, Skips, Requests, Closings, Plain, Dones, Again,
                  CheckMsgs, Notices, Binaries
    <3>2. m.what \notin {"seek", "sdon", "see1", "see2"} => Kind(m) # "seek"
      BY <2>2, <3>1, OtherKinds
    <3> QED
      BY <2>2, <3>2, OtherKinds DEF IsOfSeek
  <2> QED
    BY <2>1, <2>2
<1>2. SeekMsgs = Of("seek")
  BY <1>1 DEF SeekMsgs, Of
<1>3. Flying["seek"] = Total(mailbox, pending, Of("seek"))
  BY FlyingTypes DEF Kinds
<1> QED
  BY <1>2, <1>3 DEF SeekInv

LEMMA Numbers ==
  ASSUME TypeOK
  PROVE  /\ \A k \in Kinds : Flying[k] \in Nat
         /\ Waiting \in {0, 1}
         /\ Starting => Flying["play"] >= 1
         /\ handler \in HandlerType
<1>1. Starting => Flying["play"] >= 1
  BY StartingFlies
<1> QED
  BY <1>1, FlyingTypes DEF Waiting, TypeOK, SessionTypes

\* In a session that is not fed, a message that leads to one that plays is the
\* only one.
LEMMA OnlyAttempt ==
  ASSUME TypeOK, UnfedInv, SeekInv, crashed = Alive
  PROVE  /\ Flying["seek"] = 0
         /\ \A k \in {"setup", "play", "retry", "tiou"} : Flying[k] >= 1 =>
              /\ Attempts = 1 /\ Flying[k] = 1
              /\ \A l \in {"setup", "play", "retry", "tiou"} \ {k} : Flying[l] = 0
              /\ Waiting = 0
              /\ Flying["exit"] = 0 /\ ~Over /\ ~Lost /\ handler.doneMsg = "cdon"
         /\ Waiting = 1 => \A l \in {"setup", "play", "retry", "tiou"} : Flying[l] = 0
<1>1. Flying["seek"] = 0
  BY SeekFlies DEF UnfedInv, Quiet
<1>2. /\ Flying["setup"] \in Nat /\ Flying["play"] \in Nat /\ Flying["retry"] \in Nat
      /\ Flying["tiou"] \in Nat /\ Waiting \in {0, 1} /\ Flying["exit"] \in Nat
  BY Numbers DEF Kinds
<1>3. Flying["setup"] + Flying["play"] + Flying["retry"] + Flying["tiou"] + Waiting <= 1
  BY DEF UnfedInv, Attempts
<1>4. ASSUME NEW k \in {"setup", "play", "retry", "tiou"}, Flying[k] >= 1
      PROVE  /\ Attempts = 1 /\ Flying[k] = 1
             /\ \A l \in {"setup", "play", "retry", "tiou"} \ {k} : Flying[l] = 0
             /\ Waiting = 0
             /\ Flying["exit"] = 0 /\ ~Over /\ ~Lost /\ handler.doneMsg = "cdon"
  <2>1. /\ Attempts = 1 /\ Flying[k] = 1
        /\ \A l \in {"setup", "play", "retry", "tiou"} \ {k} : Flying[l] = 0
        /\ Waiting = 0
    BY <1>2, <1>3, <1>4 DEF Attempts
  <2>2. Flying["exit"] = 0 /\ ~Over /\ handler.doneMsg = "cdon"
    BY <1>2, <2>1 DEF UnfedInv
  <2> QED
    BY <2>1, <2>2 DEF Lost
<1>5. Waiting = 1 => \A l \in {"setup", "play", "retry", "tiou"} : Flying[l] = 0
  <2> DEFINE a == Flying["setup"]
             b == Flying["play"]
             c == Flying["retry"]
             d == Flying["tiou"]
             w == Waiting
  <2>1. a \in Nat /\ b \in Nat /\ c \in Nat /\ d \in Nat /\ w \in {0, 1}
    BY <1>2
  <2>2. a + b + c + d + w <= 1
    BY <1>3
  <2> HIDE DEF a, b, c, d, w
  <2>3. w = 1 => a = 0 /\ b = 0 /\ c = 0 /\ d = 0
    BY <2>1, <2>2
  <2> USE DEF a, b, c, d, w
  <2> QED
    BY <2>3
<1> QED
  BY <1>1, <1>4, <1>5

\* Which handlers run before the session is fed.
LEMMA UnfedHandlers ==
  ASSUME TypeOK, UnfedInv, SeekInv, crashed = Alive, HandlerStep, crashed' = Alive,
         SessionAssumption
  PROVE  \/ OnConn \/ OnDisc \/ OnDesc \/ OnSetu \/ OnPlay \/ OnTear \/ OnQuit
         \/ OnTiou
         \/ OnAbor /\ Current.again
<1>1. Flying["seek"] = 0 /\ Flying["check"] = 0 /\ Flying["abort"] = 0
      /\ Flying["media"] = 0
  BY OnlyAttempt DEF UnfedInv, Quiet
<1>2. /\ OnChek => Flying["check"] >= 1
      /\ OnFirstPacket \/ OnBiny \/ OnAccessUnit => Flying["media"] >= 1
      /\ OnSeek \/ OnSee1 \/ OnSee2 => Flying["seek"] >= 1
      /\ OnAbor => Current.again \/ Flying["abort"] >= 1
  BY MediaMoves, PlayMoves DEF Deals, Drains, Turns, Spends
<1> QED
  BY <1>1, <1>2 DEF HandlerStep, Handler

\* What handlers leave alone: all but the mailbox, crashed, and what is named.
LEMMA HandlerLeaves ==
  ASSUME HandlerStep
  PROVE  /\ UNCHANGED <<pending, serving, segment, player, streams, seekDone, state, conn>>
         /\ OnConn \/ OnDisc \/ OnTear => UNCHANGED <<handler, tracks, source, timers,
                                                      netbox>>
BY DEF HandlerStep, Handler, LooperFrame, serverVars, OnConn, OnDisc, OnDesc, OnSetu,
       OnPlay, OnAbor, OnTear, OnQuit, OnChek, OnFirstPacket, OnAccessUnit, OnSeek,
       OnSee1, OnSee2, OnBiny, OnTiou, Calm, Dies, sessionVars

\* SETUP and DESCRIBE only add empty sources.
LEMMA SetupSources ==
  ASSUME NEW index, NEW list, NEW sources, SetupTrack(index, list, sources),
         \A i \in DOMAIN sources : sources[i].buffers = <<>>
  PROVE  EmptySources'
<1>1. CASE source' = sources
  BY <1>1 DEF EmptySources
<1>2. CASE \E f \in Formats :
             source' = [i \in {index} \cup DOMAIN sources |->
                          IF i = index THEN NewSource(f) ELSE sources[i]]
  BY <1>2 DEF EmptySources, NewSource
<1> QED
  BY <1>1, <1>2 DEF SetupTrack

LEMMA NetboxGrows ==
  ASSUME TypeOK, NEW s \in Seq(NetMsg), netbox' = netbox \o s
  PROVE  ToSet(netbox)' = ToSet(netbox) \cup ToSet(s)
<1>1. netbox \in Seq(NetMsg)
  BY DEF TypeOK, NetTypes
<1>2. ToSet(netbox \o s) = ToSet(netbox) \cup ToSet(s)
  BY <1>1, Posting
<1> QED
  BY <1>2

\* The handlers that run before the session is fed keep it quiet, and add no
\* injected stream, but for a SETUP of an attempt that interleaves.
LEMMA QuietHandlers ==
  ASSUME TypeOK, UnfedInv, SeekInv, crashed = Alive, HandlerStep, crashed' = Alive,
         SessionAssumption
  PROVE  /\ EmptySources'
         /\ NoFeed'
         /\ NoInjected /\ (~handler.tryTCP \/ ~OnSetu) => NoInjected'
<1>1. /\ EmptySources /\ NoFeed /\ streams' = streams
      /\ \/ OnConn \/ OnDisc \/ OnDesc \/ OnSetu \/ OnPlay \/ OnTear \/ OnQuit
         \/ OnTiou
         \/ OnAbor /\ Current.again
      /\ mailbox # <<>>
  BY UnfedHandlers, HandlerLeaves DEF UnfedInv, Quiet, HandlerStep
<1>2. ASSUME netbox' = netbox PROVE NoFeed' /\ (NoInjected => NoInjected')
  BY <1>1, <1>2 DEF NoFeed, NoInjected
<1>3. ASSUME NEW s \in Seq(NetMsg), netbox' = netbox \o s,
             \A m \in ToSet(s) : m.what # "inject"
      PROVE  /\ NoFeed'
             /\ (\A m \in ToSet(s) : m.what = "add" => ~m.stream.injected)
                   => (NoInjected => NoInjected')
  <2>1. ToSet(netbox)' = ToSet(netbox) \cup ToSet(s)
    BY <1>3, NetboxGrows
  <2> QED
    BY <1>1, <1>3, <2>1 DEF NoFeed, NoInjected
<1>4. CASE OnConn \/ OnDisc \/ OnTear
  BY <1>1, <1>2, <1>4, HandlerLeaves DEF EmptySources
<1>5. CASE OnDesc
  <2>1. EmptySources'
    BY <1>1, <1>5, SetupSources DEF OnDesc, EmptySources
  <2>2. netbox' = netbox
    BY <1>5 DEF OnDesc
  <2> QED
    BY <1>2, <2>1, <2>2
<1>6. CASE OnSetu
  <2>1. ~TrackGone /\ Current.what = "setu"
    BY <1>6, OnSetuPosts DEF Alive, OnSetu
  <2>2. \A i \in DOMAIN KeptSources : KeptSources[i].buffers = <<>>
    BY <1>1, <2>1, KeptTypes DEF EmptySources
  <2>3. EmptySources'
    <3>1. \/ SetupTrack(Current.index + 1, KeptTracks, KeptSources)
          \/ source' = KeptSources
      BY <1>6, <2>1, OnSetuPosts
    <3> QED
      BY <2>2, <3>1, SetupSources DEF EmptySources
  <2>4. CASE IsSet
    <3> DEFINE a == AddStream(tracks[Current.track].socket, Current.track,
                              handler.tryTCP)
    <3>1. /\ Current.track \in DOMAIN tracks /\ netbox' = netbox \o <<a>>
      BY <1>6, <2>1, <2>4, OnSetuPosts
    <3>2. a \in NetMsg
      <4>1. tracks[Current.track] \in TrackType
        BY <3>1, LenProperties, ElementOfSeq DEF TypeOK, SessionTypes
      <4>2. Current.track \in Nat /\ handler.tryTCP \in BOOLEAN
        BY <1>1, <2>1, KeptTypes DEF TypeOK, SessionTypes, HandlerType
      <4> QED
        BY <4>1, <4>2, NetPosted DEF TrackType
    <3>3. <<a>> \in Seq(NetMsg) /\ ToSet(<<a>>) = {a}
      BY <3>2, SetOfFew
    <3>4. a.what = "add" /\ a.stream.injected = handler.tryTCP
      BY DEF AddStream, Stream
    <3> HIDE DEF a
    <3>5. \A m \in ToSet(<<a>>) : m.what # "inject"
      BY <3>3, <3>4
    <3>6. /\ NoFeed'
          /\ (\A m \in ToSet(<<a>>) : m.what = "add" => ~m.stream.injected)
                => (NoInjected => NoInjected')
      BY <1>3, <3>1, <3>3, <3>5
    <3>7. ~handler.tryTCP
             => \A m \in ToSet(<<a>>) : m.what = "add" => ~m.stream.injected
      BY <3>3, <3>4
    <3> QED
      BY <1>6, <2>3, <3>6, <3>7
  <2>5. CASE ~IsSet
    <3>1. netbox' = netbox
      <4>1. netbox' = netbox \o <<>>
        BY <1>6, <2>1, <2>5, OnSetuPosts
      <4> QED
        BY <4>1, ConcatProperties, EmptySeq DEF TypeOK, NetTypes
    <3> QED
      BY <1>2, <2>3, <3>1
  <2> QED
    BY <2>4, <2>5
<1>7. CASE OnPlay \/ OnQuit
  <2>1. source' = source /\ netbox' = netbox
    BY <1>7 DEF OnPlay, OnQuit, Calm
  <2> QED
    BY <1>1, <1>2, <2>1 DEF EmptySources
<1>8. CASE OnAbor
  <2>1. /\ netbox' = netbox \o StreamsRemoved
        /\ source' = Kept([i \in DOMAIN source |->
                      IF \E t \in DOMAIN tracks : tracks[t].index = i
                      THEN SignalEOS(source[i]) ELSE source[i]])
    BY <1>8, OnAborPosts DEF Alive
  <2>2. EmptySources'
    <3>1. \A i \in DOMAIN source : SignalEOS(source[i]).buffers = source[i].buffers
      <4>1. \A i \in DOMAIN source : source[i] \in SourceType
        BY DEF TypeOK, SessionTypes
      <4> QED
        BY <4>1 DEF SignalEOS, SourceType
    <3>2. source' = <<>> \/ source' = [i \in DOMAIN source |->
                      IF \E t \in DOMAIN tracks : tracks[t].index = i
                      THEN SignalEOS(source[i]) ELSE source[i]]
      BY <2>1 DEF Kept
    <3>3. DOMAIN <<>> = {}
      BY EmptySeq
    <3> QED
      BY <1>1, <3>1, <3>2, <3>3 DEF EmptySources
  <2>3. /\ StreamsRemoved \in Seq(NetMsg)
        /\ ToSet(StreamsRemoved) = {RemoveStream(x) : x \in PairsOf(tracks)}
    BY RemovedAre
  <2>4. \A m \in ToSet(StreamsRemoved) : m.what = "remove"
    BY <2>3 DEF RemoveStream
  <2>5. /\ NoFeed'
        /\ (\A m \in ToSet(StreamsRemoved) : m.what = "add" => ~m.stream.injected)
              => (NoInjected => NoInjected')
    BY <1>3, <2>1, <2>3, <2>4
  <2> QED
    BY <2>2, <2>4, <2>5
<1>9. CASE OnTiou
  <2>1. source' = source
    BY <1>9 DEF OnTiou
  <2>2. netbox' = netbox \/ netbox' = netbox \o <<FakeTimestamps>>
    BY <1>9 DEF OnTiou, PostsToRTP
  <2>3. CASE netbox' = netbox \o <<FakeTimestamps>>
    <3>1. /\ <<FakeTimestamps>> \in Seq(NetMsg)
          /\ ToSet(<<FakeTimestamps>>) = {FakeTimestamps}
      BY NetPosted, SetOfFew
    <3>2. FakeTimestamps.what = "fake"
      BY DEF FakeTimestamps
    <3>3. \A m \in ToSet(<<FakeTimestamps>>) : m.what # "inject" /\ m.what # "add"
      BY <3>1, <3>2
    <3>4. /\ NoFeed'
          /\ (\A m \in ToSet(<<FakeTimestamps>>) :
                 m.what = "add" => ~m.stream.injected)
                => (NoInjected => NoInjected')
      BY <1>3, <2>3, <3>1, <3>3
    <3> QED
      BY <1>1, <2>1, <3>3, <3>4 DEF EmptySources
  <2> QED
    BY <1>1, <1>2, <2>1, <2>2, <2>3 DEF EmptySources
<1> QED
  BY <1>1, <1>4, <1>5, <1>6, <1>7, <1>8, <1>9

LEMMA DealsAt ==
  ASSUME TypeOK
  PROVE  /\ \A j, l : Deals(j, l) =>
              /\ j \in Kinds /\ l \in Kinds /\ Flying[j] >= 1
              /\ Starting' => Starting
              /\ \A k \in Kinds \ {j, l} : Flying'[k] = Flying[k]
              /\ j = l => \A k \in Kinds : Flying'[k] = Flying[k]
              /\ j # l => Flying'[j] = Flying[j] - 1 /\ Flying'[l] = Flying[l] + 1
         /\ \A j : Drains(j) =>
              /\ j \in Kinds /\ Flying[j] >= 1
              /\ Starting' => Starting
              /\ \A k \in Kinds \ {j} : Flying'[k] = Flying[k]
              /\ Flying'[j] = Flying[j] - 1
<1>1. \A k \in Kinds : Flying[k] \in Nat
  BY FlyingTypes
<1>2. ASSUME NEW j, NEW l, Deals(j, l)
      PROVE  /\ j \in Kinds /\ l \in Kinds /\ Flying[j] >= 1
             /\ Starting' => Starting
             /\ \A k \in Kinds \ {j, l} : Flying'[k] = Flying[k]
             /\ j = l => \A k \in Kinds : Flying'[k] = Flying[k]
             /\ j # l => Flying'[j] = Flying[j] - 1 /\ Flying'[l] = Flying[l] + 1
  <2>1. /\ j \in Kinds /\ l \in Kinds /\ Flying[j] >= 1
        /\ Starting' => Starting
        /\ \A k \in Kinds : Flying'[k] = Flying[k] - (IF k = j THEN 1 ELSE 0)
                                                 + (IF k = l THEN 1 ELSE 0)
    BY <1>2 DEF Deals, Turns
  <2>2. ASSUME NEW k \in Kinds \ {j, l} PROVE Flying'[k] = Flying[k]
    BY <1>1, <2>1
  <2>3. ASSUME NEW k \in Kinds, j = l PROVE Flying'[k] = Flying[k]
    <3>1. Flying'[k] = Flying[k] - (IF k = j THEN 1 ELSE 0) + (IF k = j THEN 1 ELSE 0)
      BY <2>1, <2>3
    <3>2. CASE k = j
      BY <1>1, <3>1, <3>2
    <3>3. CASE k # j
      BY <1>1, <3>1, <3>3
    <3> QED
      BY <3>2, <3>3
  <2>4. ASSUME j # l PROVE Flying'[j] = Flying[j] - 1 /\ Flying'[l] = Flying[l] + 1
    BY <1>1, <2>1, <2>4
  <2> QED
    BY <2>1, <2>2, <2>3, <2>4
<1>3. ASSUME NEW j, Drains(j)
      PROVE  /\ j \in Kinds /\ Flying[j] >= 1
             /\ Starting' => Starting
             /\ \A k \in Kinds \ {j} : Flying'[k] = Flying[k]
             /\ Flying'[j] = Flying[j] - 1
  <2>1. /\ j \in Kinds /\ Flying[j] >= 1
        /\ Starting' => Starting
        /\ \A k \in Kinds : Flying'[k] = Flying[k] - (IF k = j THEN 1 ELSE 0)
    BY <1>3 DEF Drains, Spends
  <2> QED
    BY <1>1, <2>1
<1> QED
  BY <1>2, <1>3

\* What handlers do to the fields that tell where a session stands.
LEMMA HandlerFields ==
  ASSUME TypeOK, HandlerStep, crashed' = Alive, SessionAssumption
  PROVE  /\ handler.tryTCP => handler'.tryTCP
         /\ ~OnTiou => handler'.tryTCP = handler.tryTCP
         /\ \/ OnConn \/ OnDisc \/ OnTear \/ OnPlay \/ OnChek \/ OnFirstPacket
            \/ OnSeek \/ OnSee1 \/ OnSee2 \/ OnBiny \/ OnTiou
            => /\ handler'.firstUnit = handler.firstUnit
               /\ handler'.doneMsg = handler.doneMsg
               /\ tracks' = <<>> <=> tracks = <<>>
         /\ OnDesc \/ OnSetu => /\ handler'.firstUnit = handler.firstUnit
                                /\ handler'.doneMsg = handler.doneMsg
         /\ OnQuit => /\ handler' = [handler EXCEPT !.doneMsg = None]
                      /\ tracks' = tracks
         /\ OnAbor => /\ tracks' = <<>> /\ handler'.firstUnit = TRUE
                      /\ handler'.doneMsg = handler.doneMsg
         /\ OnAccessUnit =>
              /\ tracks' = tracks
              /\ \/ /\ handler'.firstUnit = handler.firstUnit
                    /\ handler'.doneMsg = handler.doneMsg
                    /\ ~Wanted(Current) \/ ~handler.firstUnit
                 \/ /\ handler'.firstUnit = FALSE /\ handler'.doneMsg = None
                    /\ Wanted(Current) /\ handler.firstUnit
<1>1. handler \in HandlerType /\ tracks \in Seq(TrackType) /\ segment \in Nat
  BY DEF TypeOK, SessionTypes, PlayerTypes
<1>2. ASSUME NEW result, NEW told
      PROVE  ParsePlayResponse(result, tracks, told) = <<>> <=> tracks = <<>>
  <2>1. /\ ParsePlayResponse(result, tracks, told) \in Seq(TrackType)
        /\ Len(ParsePlayResponse(result, tracks, told)) = Len(tracks)
    BY <1>1, ParseTypes
  <2> QED
    BY <1>1, <2>1, EmptySeq, LenProperties
<1>3. OnConn \/ OnDisc \/ OnTear =>
        /\ handler' = handler /\ tracks' = tracks
  BY HandlerLeaves
<1>4. OnPlay \/ OnChek \/ OnFirstPacket \/ OnSeek \/ OnSee1 \/ OnBiny =>
        /\ handler'.firstUnit = handler.firstUnit
        /\ handler'.doneMsg = handler.doneMsg
        /\ handler'.tryTCP = handler.tryTCP
        /\ tracks' = <<>> <=> tracks = <<>>
  <2>1. CASE OnPlay
    <3>1. \/ handler' = handler
          \/ handler' = [handler EXCEPT !.seekable = Current.result = "ok"]
      BY <2>1 DEF OnPlay
    <3>2. \/ tracks' = tracks
          \/ \E told : tracks' = ParsePlayResponse(Current.result, tracks, told)
      BY <2>1 DEF OnPlay
    <3> QED
      BY <1>1, <1>2, <3>1, <3>2 DEF HandlerType
  <2>2. CASE OnChek
    BY <1>1, <2>2 DEF OnChek, HandlerType
  <2>3. CASE OnFirstPacket
    BY <1>1, <2>3 DEF OnFirstPacket, HandlerType
  <2>4. CASE OnSeek \/ OnSee1 \/ OnBiny
    BY <1>1, <2>4 DEF OnSeek, OnSee1, OnBiny, HandlerType, sessionVars
  <2> QED
    BY <2>1, <2>2, <2>3, <2>4
<1>5. OnSee2 => /\ handler'.firstUnit = handler.firstUnit
                /\ handler'.doneMsg = handler.doneMsg
                /\ handler'.tryTCP = handler.tryTCP
                /\ tracks' = <<>> <=> tracks = <<>>
  <2> SUFFICES ASSUME OnSee2
               PROVE  /\ handler'.firstUnit = handler.firstUnit
                      /\ handler'.doneMsg = handler.doneMsg
                      /\ handler'.tryTCP = handler.tryTCP
                      /\ tracks' = <<>> <=> tracks = <<>>
    OBVIOUS
  <2>1. /\ handler' = HandlerAfterSeek
        /\ \/ tracks' = tracks
           \/ \E told : tracks' = ParsePlayResponse(Current.result, tracks, told)
    BY DEF OnSee2, Dies, Alive
  <2> QED
    BY <1>1, <1>2, <2>1 DEF HandlerAfterSeek, CheckPosted, HandlerType
<1>6. OnTiou => /\ handler'.firstUnit = handler.firstUnit
                /\ handler'.doneMsg = handler.doneMsg
                /\ handler.tryTCP => handler'.tryTCP
                /\ tracks' = tracks
  BY <1>1 DEF OnTiou, Interleaving, HandlerType
<1>7. OnDesc \/ OnSetu => /\ handler'.firstUnit = handler.firstUnit
                          /\ handler'.doneMsg = handler.doneMsg
                          /\ handler'.tryTCP = handler.tryTCP
  <2>1. CASE OnDesc
    BY <2>1 DEF OnDesc
  <2>2. CASE OnSetu
    <3>1. handler' = [handler EXCEPT !.setupOK = SetupReady]
      BY <2>2, OnSetuPosts DEF Alive
    <3> QED
      BY <1>1, <3>1 DEF HandlerType
  <2> QED
    BY <2>1, <2>2
<1>8. OnQuit => /\ handler' = [handler EXCEPT !.doneMsg = None]
                /\ tracks' = tracks /\ handler'.tryTCP = handler.tryTCP
  BY <1>1 DEF OnQuit, HandlerType
<1>9. OnAbor => /\ tracks' = <<>> /\ handler'.firstUnit = TRUE
                /\ handler'.doneMsg = handler.doneMsg
                /\ handler'.tryTCP = handler.tryTCP
  <2> SUFFICES ASSUME OnAbor
               PROVE  /\ tracks' = <<>> /\ handler'.firstUnit = TRUE
                      /\ handler'.doneMsg = handler.doneMsg
                      /\ handler'.tryTCP = handler.tryTCP
    OBVIOUS
  <2>1. tracks' = <<>> /\ handler' = HandlerAfterAbort
    BY OnAborPosts DEF Alive
  <2> QED
    BY <1>1, <2>1 DEF HandlerAfterAbort, HandlerType
<1>10. OnAccessUnit =>
              /\ tracks' = tracks /\ handler'.tryTCP = handler.tryTCP
              /\ \/ /\ handler'.firstUnit = handler.firstUnit
                    /\ handler'.doneMsg = handler.doneMsg
                    /\ ~Wanted(Current) \/ ~handler.firstUnit
                 \/ /\ handler'.firstUnit = FALSE /\ handler'.doneMsg = None
                    /\ Wanted(Current) /\ handler.firstUnit
  <2> SUFFICES ASSUME OnAccessUnit
               PROVE  /\ tracks' = tracks /\ handler'.tryTCP = handler.tryTCP
                      /\ \/ /\ handler'.firstUnit = handler.firstUnit
                            /\ handler'.doneMsg = handler.doneMsg
                            /\ ~Wanted(Current) \/ ~handler.firstUnit
                         \/ /\ handler'.firstUnit = FALSE /\ handler'.doneMsg = None
                            /\ Wanted(Current) /\ handler.firstUnit
    OBVIOUS
  <2> DEFINE hd == CheckPosted([handler EXCEPT !.units = TRUE])
  <2>1. /\ tracks' = tracks
        /\ \/ handler' = hd /\ (~Wanted(Current) \/ ~handler.firstUnit)
           \/ /\ handler' = [hd EXCEPT !.firstUnit = FALSE, !.doneMsg = None]
              /\ Wanted(Current) /\ handler.firstUnit
    BY DEF OnAccessUnit, Queue, Dies, Alive
  <2>2. /\ hd.firstUnit = handler.firstUnit /\ hd.doneMsg = handler.doneMsg
        /\ hd.tryTCP = handler.tryTCP
        /\ [hd EXCEPT !.firstUnit = FALSE, !.doneMsg = None].firstUnit = FALSE
        /\ [hd EXCEPT !.firstUnit = FALSE, !.doneMsg = None].doneMsg = None
        /\ [hd EXCEPT !.firstUnit = FALSE, !.doneMsg = None].tryTCP = handler.tryTCP
    BY <1>1 DEF CheckPosted, HandlerType
  <2> HIDE DEF hd
  <2> QED
    BY <2>1, <2>2
<1>11. OnConn \/ OnDisc \/ OnDesc \/ OnSetu \/ OnPlay \/ OnAbor \/ OnTear
       \/ OnQuit \/ OnChek \/ OnFirstPacket \/ OnAccessUnit \/ OnSeek \/ OnSee1
       \/ OnSee2 \/ OnBiny \/ OnTiou
  BY DEF HandlerStep, Handler
<1> QED
  BY <1>3, <1>4, <1>5, <1>6, <1>7, <1>8, <1>9, <1>10, <1>11

\* What keeps a session fed.
LEMMA StaysFed ==
  ASSUME TypeOK, Fed, handler'.tryTCP, Flying'["retry"] = 0, Flying'["setup"] = 0,
         Starting' => Starting,
         Flying'["exit"] = 0 \/ tracks' = <<>>,
         tracks' = <<>> \/ ~handler'.firstUnit \/ handler'.doneMsg = "cdon"
  PROVE  Fed'
BY DEF Fed, SettingUp, Lost, Over

LEMMA FedHandler ==
  ASSUME TypeOK, Fed, crashed = Alive, HandlerStep, crashed' = Alive,
         SessionAssumption
  PROVE  Fed'
<1>1. Flying["setup"] = 0 /\ Flying["retry"] = 0 /\ ~Starting
  <2>1. Flying["setup"] \in Nat
    BY Numbers DEF Kinds
  <2> QED
    BY <2>1 DEF Fed, SettingUp
<1>0. /\ handler.tryTCP /\ handler'.tryTCP
      /\ tracks = <<>> \/ ~handler.firstUnit \/ handler.doneMsg = "cdon"
  BY HandlerFields DEF Fed, Lost, Over
<1>14. Flying["exit"] \in Nat /\ (Flying["exit"] = 0 \/ tracks = <<>>)
  <2>1. Flying["exit"] \in Nat
    BY Numbers DEF Kinds
  <2> QED
    BY <2>1 DEF Fed, Lost
<1>15. \A l \in {"setup", "exit"} : ~Deals("setup", l)
  BY <1>1, DealsAt
<1>2. CASE OnConn \/ OnDesc \/ OnSetu
  BY <1>2, <1>15, SetupMoves
<1>3. CASE OnDisc
  <2>1. Deals("exit", "exit")
    BY <1>3, <1>15, SetupMoves
  <2>2. /\ Flying'["retry"] = 0 /\ Flying'["setup"] = 0
        /\ Flying'["exit"] = Flying["exit"] /\ (Starting' => Starting)
    BY <1>1, <2>1, DealsAt DEF Kinds
  <2> QED
    BY <1>1, <1>3, <2>2, <1>0, <1>14, StaysFed, HandlerFields
<1>4. CASE OnPlay
  <2>1. Drains("play")
    BY <1>1, <1>4, PlayMoves
  <2>2. /\ Flying'["retry"] = 0 /\ Flying'["setup"] = 0
        /\ Flying'["exit"] = Flying["exit"] /\ (Starting' => Starting)
    BY <1>1, <2>1, DealsAt DEF Kinds
  <2> QED
    BY <1>1, <1>4, <2>2, <1>0, <1>14, StaysFed, HandlerFields
<1>5. CASE OnAbor
  <2>1. Deals("abort", "exit")
    <3>1. ~Current.again
      BY <1>1, <1>5, PlayMoves, DealsAt
    <3> QED
      BY <1>5, <3>1, PlayMoves
  <2>2. /\ Flying'["retry"] = 0 /\ Flying'["setup"] = 0 /\ (Starting' => Starting)
    BY <1>1, <2>1, DealsAt DEF Kinds
  <2> QED
    BY <1>1, <1>5, <2>2, <1>0, <1>14, StaysFed, HandlerFields
<1>6. CASE OnTear
  <2>1. Deals("exit", "exit")
    BY <1>1, <1>6, PlayMoves, DealsAt
  <2>2. /\ Flying'["retry"] = 0 /\ Flying'["setup"] = 0
        /\ Flying'["exit"] = Flying["exit"] /\ (Starting' => Starting)
    BY <1>1, <2>1, DealsAt DEF Kinds
  <2> QED
    BY <1>1, <1>6, <2>2, <1>0, <1>14, StaysFed, HandlerFields
<1>7. CASE OnQuit
  <2>1. /\ Flying["exit"] >= 1
        /\ Flying'["retry"] = 0 /\ Flying'["setup"] = 0 /\ (Starting' => Starting)
    <3>1. Deals("exit", "refusal") \/ Deals("exit", "ended") \/ Drains("exit")
      <4>1. /\ handler.doneMsg \in {None, "cdon", "ddon"}
            /\ None \notin {"cdon", "ddon"}
        BY DEF TypeOK, SessionTypes, HandlerType, None
      <4> QED
        BY <1>7, <4>1, PlayMoves
    <3> QED
      BY <1>1, <3>1, DealsAt DEF Kinds
  <2>2. tracks' = <<>>
    <3>1. tracks' = tracks
      BY <1>7, HandlerFields
    <3> QED
      BY <1>14, <2>1, <3>1
  <2> QED
    BY <1>0, <2>1, <2>2, StaysFed
<1>8. CASE OnChek
  <2>1. Drains("check") \/ Deals("check", "abort")
    BY <1>8, MediaMoves
  <2>2. /\ Flying'["retry"] = 0 /\ Flying'["setup"] = 0
        /\ Flying'["exit"] = Flying["exit"] /\ (Starting' => Starting)
    BY <1>1, <2>1, DealsAt DEF Kinds
  <2> QED
    BY <1>1, <1>8, <2>2, <1>0, <1>14, StaysFed, HandlerFields
<1>9. CASE OnFirstPacket \/ OnBiny
  <2>1. Drains("media")
    BY <1>9, MediaMoves
  <2>2. /\ Flying'["retry"] = 0 /\ Flying'["setup"] = 0
        /\ Flying'["exit"] = Flying["exit"] /\ (Starting' => Starting)
    BY <1>1, <2>1, DealsAt DEF Kinds
  <2> QED
    BY <1>1, <1>9, <2>2, <1>0, <1>14, StaysFed, HandlerFields
<1>10. CASE OnAccessUnit
  <2>1. Drains("media") \/ Deals("media", "told") \/ Deals("media", "ended")
    BY <1>10, MediaMoves
  <2>2. /\ Flying'["retry"] = 0 /\ Flying'["setup"] = 0
        /\ Flying'["exit"] = Flying["exit"] /\ (Starting' => Starting)
    BY <1>1, <2>1, DealsAt DEF Kinds
  <2>3. tracks' = <<>> \/ ~handler'.firstUnit \/ handler'.doneMsg = "cdon"
    BY <1>0, <1>10, HandlerFields
  <2>4. tracks' = tracks
    BY <1>10, HandlerFields
  <2> QED
    BY <1>0, <1>14, <2>2, <2>3, <2>4, StaysFed
<1>11. CASE OnSeek \/ OnSee1
  <2>1. Deals("seek", "seek")
    BY <1>11, MediaMoves
  <2>2. /\ Flying'["retry"] = 0 /\ Flying'["setup"] = 0
        /\ Flying'["exit"] = Flying["exit"] /\ (Starting' => Starting)
    BY <1>1, <2>1, DealsAt DEF Kinds
  <2> QED
    BY <1>1, <1>11, <2>2, <1>0, <1>14, StaysFed, HandlerFields
<1>12. CASE OnSee2
  <2>1. \/ Deals("seek", "seek")
        \/ /\ Starting' => Starting
           /\ \A k \in Kinds : Flying'[k] = Flying[k]
                                 + (IF k = "abort" THEN 1 ELSE 0)
    BY <1>12, MediaMoves
  <2>2. /\ Flying'["retry"] = 0 /\ Flying'["setup"] = 0
        /\ Flying'["exit"] = Flying["exit"] /\ (Starting' => Starting)
    <3>1. CASE Deals("seek", "seek")
      BY <1>1, <3>1, DealsAt DEF Kinds
    <3>2. CASE /\ Starting' => Starting
               /\ \A k \in Kinds : Flying'[k] = Flying[k]
                                       + (IF k = "abort" THEN 1 ELSE 0)
      BY <1>1, <1>14, <3>2 DEF Kinds
    <3> QED
      BY <2>1, <3>1, <3>2
  <2> QED
    BY <1>1, <1>12, <2>2, <1>0, <1>14, StaysFed, HandlerFields
<1>13. CASE OnTiou
  <2>1. Drains("tiou") \/ Deals("tiou", "abort")
    BY <1>0, <1>13, MediaMoves
  <2>2. /\ Flying'["retry"] = 0 /\ Flying'["setup"] = 0
        /\ Flying'["exit"] = Flying["exit"] /\ (Starting' => Starting)
    BY <1>1, <2>1, DealsAt DEF Kinds
  <2> QED
    BY <1>1, <1>13, <2>2, <1>0, <1>14, StaysFed, HandlerFields
<1> QED
  BY <1>2, <1>3, <1>4, <1>5, <1>6, <1>7, <1>8, <1>9, <1>10, <1>11, <1>12, <1>13
     DEF HandlerStep, Handler

\* A request to play starts when it is sent, and in no other step.
LEMMA ConnectionMoves ==
  ASSUME TypeOK, ConnectionStep
  PROVE  \/ \E k \in {"setup", "exit", "retry", "seek"} : Deals(k, k)
         \/ Deals("retry", "setup") /\ Current = Disconnect(Disc(TRUE))
         \/ Turns("setup", "play")
<1>1. BoxTypes /\ mailbox # <<>> /\ Current \in Msg /\ Mail = {Current} \cup Rest
  BY CurrentIs DEF ConnectionStep, TypeOK
<1>2. Due \subseteq Awaited
  BY <1>1, MailTypes
<1>3. ASSUME NEW x \in Msg, mailbox' = Handled \o Flushed \o <<x>>, x.what # "play",
             pending' = <<>>
      PROVE  Starting' => Starting
  <2>1. Mail' = Rest \cup {With(r, "error") : r \in Due} \cup {x}
    BY <1>1, <1>3, HandlesFlushed
  <2>2. Due' = {}
    BY <1>3, SetOfFew DEF Due
  <2>3. \A r \in Due : With(r, "error").what = r.what
    BY <1>2, AwaitedFields DEF Result
  <2> QED
    BY <1>1, <1>3, <2>1, <2>2, <2>3 DEF Starting
<1>7. Disconnect(Disc(TRUE)).what = "disconnect"
  BY DEF Disconnect
<1>4. CASE ConnConnect
  <2>1. PICK ok \in BOOLEAN : mailbox' = Handled \o Flushed
                 \o <<With(Reply("conn"), IF ok THEN "ok" ELSE "error")>>
    BY <1>4 DEF ConnConnect
  <2> DEFINE x == [what |-> "conn", result |-> IF ok THEN "ok" ELSE "error"]
  <2>2. With(Reply("conn"), IF ok THEN "ok" ELSE "error") = x
    BY DEF With, Reply
  <2>3. x \in Msg
    BY Posted DEF Result
  <2>4. x.what # "play"
    OBVIOUS
  <2> HIDE DEF x
  <2>5. Starting' => Starting
    BY <1>3, <1>4, <2>1, <2>2, <2>3, <2>4 DEF ConnConnect
  <2>6. ~AsksToPlay /\ Current # Disconnect(Disc(TRUE))
    BY <1>4, <1>7 DEF ConnConnect, AsksToPlay
  <2> QED
    BY <2>5, <2>6, ConnectionKinds DEF Deals
<1>5. CASE ConnDisconnect
  <2>1. Current.reply \in Msg /\ Current.reply.what # "play"
    <3>1. Current.reply = Disc(Current.reply.again) /\ Current.reply.again \in BOOLEAN
      BY <1>1, <1>5, MsgFields DEF ConnDisconnect
    <3>2. Disc(Current.reply.again) \in Msg
      BY <3>1, Posted
    <3>3. Disc(Current.reply.again).what = "disc"
      BY DEF Disc
    <3> QED
      BY <3>1, <3>2, <3>3
  <2>2. Starting' => Starting
    BY <1>3, <1>5, <2>1 DEF ConnDisconnect
  <2>3. ~AsksToPlay
    BY <1>5 DEF ConnDisconnect, AsksToPlay
  <2> QED
    BY <2>2, ConnectionKinds DEF Deals
<1>6. CASE ConnSendRequest
  <2>1. CASE AsksToPlay
    <3>1. Current # Disconnect(Disc(TRUE))
      BY <2>1, <1>7 DEF AsksToPlay
    <3> QED
      BY <2>1, <3>1, ConnectionKinds
  <2>2. CASE ~AsksToPlay
    <3>1. /\ Current.what = "send" /\ Current.reply \in Awaited
          /\ Current.reply.what # "play"
      BY <1>1, <1>6, <2>2, MsgFields DEF ConnSendRequest, AsksToPlay
    <3>2. With(Current.reply, "error") \in Msg
      BY <3>1, AwaitedAre, Posted DEF Result
    <3>3. With(Current.reply, "error").what # "play"
      BY <3>1, AwaitedFields DEF Result
    <3>4. CASE pending' = Append(pending, Current.reply) /\ mailbox' = Handled
      <4>1. Due' = Due \cup {Current.reply}
        <5>1. pending \in Seq(Awaited)
          BY <1>1 DEF BoxTypes
        <5>2. /\ pending' = pending \o <<Current.reply>>
              /\ <<Current.reply>> \in Seq(Awaited)
          BY <3>1, <3>4, <5>1, AppendIsConcat, SetOfFew
        <5>3. /\ ToSet(pending \o <<Current.reply>>)
                   = ToSet(pending) \cup ToSet(<<Current.reply>>)
              /\ ToSet(<<Current.reply>>) = {Current.reply}
          <6>1. <<Current.reply>> \in Seq(Awaited)
            BY <5>2
          <6>2. ToSet(pending \o <<Current.reply>>)
                   = ToSet(pending) \cup ToSet(<<Current.reply>>)
            BY <5>1, <6>1, Posting
          <6> QED
            BY <6>2, SetOfFew
        <5> QED
          BY <5>2, <5>3 DEF Due
      <4>2. Mail' = Rest
        BY <3>4 DEF Mail, Rest
      <4> QED
        BY <1>1, <2>2, <3>1, <4>1, <4>2, ConnectionKinds DEF Starting, Deals
    <3>5. CASE pending' = pending /\ mailbox' = Append(Handled, With(Current.reply, "error"))
      <4>1. mailbox' = Handled \o <<With(Current.reply, "error")>>
        BY <3>2, <3>5, CurrentIs, <1>1, AppendIsConcat
      <4>2. Mail' = Rest \cup {With(Current.reply, "error")}
        BY <1>1, <3>2, <4>1, HandlesOne
      <4>3. \A m \in Mail' : m \in Mail \/ m.what # "play"
        BY <1>1, <3>3, <4>2
      <4> QED
        BY <2>2, <3>5, <4>3, PostedStartsNothing, ConnectionKinds DEF Deals
    <3> QED
      BY <1>6, <3>4, <3>5 DEF ConnSendRequest
  <2> QED
    BY <2>1, <2>2
<1> QED
  BY <1>4, <1>5, <1>6 DEF ConnectionStep

LEMMA PostingMoves ==
  ASSUME TypeOK, pending' = pending, NEW x \in Msg, mailbox' = Append(mailbox, x),
         x.what # "play"
  PROVE  Gains(Kind(x)) /\ (Starting' => Starting)
<1>1. Mail' = Mail \cup {x}
  BY PostsOne DEF TypeOK
<1>2. \A m \in Mail' : m \in Mail \/ m.what # "play"
  BY <1>1
<1> QED
  BY <1>2, KindPosts, PostedStartsNothing

\* What the server and the network do starts nothing: a refusal comes instead
\* of the request.
LEMMA MediaStarts ==
  ASSUME TypeOK, ServerStep \/ NetworkStep
  PROVE  Starting' => Starting
<1>1. BoxTypes /\ Due \subseteq Awaited /\ Mail \subseteq Msg
  BY MailTypes DEF TypeOK
<1>2. CASE NetworkStep
  <2>1. pending' = pending
    BY <1>2 DEF NetworkStep, NetFrame, serverVars
  <2>2. CASE mailbox' = mailbox
    BY <2>1, <2>2 DEF Starting, Mail, Due
  <2>3. ASSUME NEW n \in Seq(Notices), mailbox' = mailbox \o n
        PROVE  Starting' => Starting
    <3>1. n \in Seq(Msg)
      BY Posted, SeqMonotonic
    <3>2. Mail' = Mail \cup ToSet(n)
      BY <1>1, <2>3, <3>1, PostsAll
    <3>3. \A i \in DOMAIN n : n[i] \in Notices
      BY LenProperties, ElementOfSeq
    <3>4. \A m \in ToSet(n) : m.what # "play"
      <4> SUFFICES ASSUME NEW m \in ToSet(n) PROVE m.what # "play"
        OBVIOUS
      <4>1. PICK i \in DOMAIN n : m = n[i]
        BY SetOf
      <4> QED
        BY <3>3, <4>1 DEF Notices
    <3>5. \A m \in Mail' : m \in Mail \/ m.what # "play"
      BY <3>2, <3>4
    <3> QED
      BY <2>1, <3>5, PostedStartsNothing
  <2>4. CASE OnInjectPacket
    BY <1>2, <2>2, <2>3, <2>4, InjectReads DEF Receives
  <2>5. CASE OnPollStreams
    BY <1>2, <2>2, <2>5, PollReads
  <2>6. CASE OnAddStream \/ OnRemoveStream \/ OnFakeTimestamps
    BY <2>2, <2>6 DEF OnAddStream, OnRemoveStream, OnFakeTimestamps
  <2> QED
    BY <1>2, <2>4, <2>5, <2>6 DEF NetworkStep
<1>3. CASE ServerStep /\ ServerAnswers
  <2>1. PICK result \in Answers(Answered) :
              /\ mailbox' = Append(mailbox, With(Answered, result))
              /\ With(Answered, result) \in Msg
              /\ result \in {"ok", "refused", "moved", "live"}
    BY <1>3, AnswersAre
  <2>2. /\ Answered \in Awaited /\ Due = {Answered} \cup ToSet(Tail(pending))
        /\ Due' = ToSet(Tail(pending))
    BY <1>3, AnswersAre
  <2>3. Mail' = Mail \cup {With(Answered, result)}
    BY <1>1, <2>1, PostsOne
  <2>4. With(Answered, result).what = Answered.what
    BY <2>1, <2>2, AwaitedFields DEF Result
  <2> QED
    BY <2>2, <2>3, <2>4 DEF Starting
<1>4. CASE ServerStep /\ ConnectionLost
  <2>1. mailbox' = mailbox \o Flushed /\ pending' = <<>>
    BY <1>4 DEF ConnectionLost
  <2>2. Flushed \in Seq(Msg) /\ ToSet(Flushed) = {With(r, "error") : r \in Due}
    BY <1>1, FlushedAre
  <2>3. Mail' = Mail \cup ToSet(Flushed)
    BY <1>1, <2>1, <2>2, PostsAll
  <2>4. Due' = {}
    BY <2>1, SetOfFew DEF Due
  <2>5. \A r \in Due : With(r, "error").what = r.what
    BY <1>1, AwaitedFields DEF Result
  <2> QED
    BY <2>2, <2>3, <2>4, <2>5 DEF Starting
<1>5. CASE ServerStep /\ ServerSendsInterleaved
  <2>1. PICK m \in Binaries : m \in Msg /\ mailbox' = Append(mailbox, m)
    BY <1>5, InterleavedIs
  <2>2. pending' = pending /\ m.what # "play"
    BY <1>5, InterleavedIs DEF serverVars, Binaries
  <2> QED
    BY <2>1, <2>2, PostingMoves
<1> QED
  BY <1>2, <1>3, <1>4, <1>5 DEF ServerStep

\* Once fed, a session stays so.
LEMMA FedStays ==
  ASSUME TypeOK, SeekInv, PlayerInv, Fed, crashed = Alive, Next, crashed' = Alive,
         SessionAssumption
  PROVE  Fed'
<1>1. Flying["setup"] = 0 /\ Flying["retry"] = 0 /\ ~Starting
  <2>1. Flying["setup"] \in Nat
    BY Numbers DEF Kinds
  <2> QED
    BY <2>1 DEF Fed, SettingUp
<1>2. /\ handler.tryTCP
      /\ tracks = <<>> \/ ~handler.firstUnit \/ handler.doneMsg = "cdon"
  BY DEF Fed, Lost, Over
<1>3. Flying["exit"] \in Nat /\ (Flying["exit"] = 0 \/ tracks = <<>>)
  <2>1. Flying["exit"] \in Nat
    BY Numbers DEF Kinds
  <2> QED
    BY <2>1 DEF Fed, Lost
<1>4. ASSUME Flying'["retry"] = Flying["retry"], Flying'["setup"] = Flying["setup"],
             Flying'["exit"] = Flying["exit"], UNCHANGED <<handler, tracks>>,
             Starting' => Starting
      PROVE  Fed'
  BY <1>1, <1>2, <1>3, <1>4, StaysFed
<1>5. CASE ConnectionStep
  <2>1. UNCHANGED <<handler, tracks>>
    BY <1>5 DEF ConnectionStep, ConnectionFrame, sessionVars
  <2>2. ~Deals("retry", "setup")
    BY <1>1, DealsAt
  <2>3. ~Turns("setup", "play")
    BY <1>1 DEF Turns
  <2>4. PICK k \in {"setup", "exit", "retry", "seek"} : Deals(k, k)
    BY <1>5, <2>2, <2>3, ConnectionMoves
  <2>5. /\ Starting' => Starting
        /\ \A l \in Kinds : Flying'[l] = Flying[l]
    BY <2>4, DealsAt
  <2> QED
    BY <1>4, <2>1, <2>5 DEF Kinds
<1>6. CASE HandlerStep
  BY <1>6, FedHandler
<1>7. CASE ControllerStep
  <2>1. UNCHANGED <<handler, tracks, pending>> /\ mailbox # <<>>
    BY <1>7 DEF ControllerStep, ControllerFrame, LooperFrame, sessionVars, serverVars
  <2>2. TakesNone
    BY <1>7 DEF ControllerStep, ControllerFrame, Posts, TakesNone
  <2>3. Drains(Kind(Current))
    BY <2>1, <2>2, HandledMoves
  <2>4. Kind(Current) \in {"told", "refusal", "ended", "seek"}
    <3>1. Current \in Msg /\ Current.what \in {"cdon", "ddon", "sdon"}
      BY <1>7, <2>1, CurrentIs DEF ControllerStep, OnConnectDone,
                                   OnDisconnectDone, OnSeekDone
    <3> QED
      BY <3>1, OtherKinds
  <2>5. /\ Starting' => Starting
        /\ \A l \in Kinds \ {Kind(Current)} : Flying'[l] = Flying[l]
    BY <2>3, DealsAt
  <2> QED
    BY <1>4, <2>1, <2>4, <2>5 DEF Kinds
<1>8. CASE ServerStep \/ NetworkStep
  <2>1. UNCHANGED <<handler, tracks>>
    BY <1>8 DEF ServerStep, ServerFrame, NetworkStep, NetFrame, sessionVars
  <2>2. /\ \A k \in Kinds \ {"media"} : Flying'[k] = Flying[k]
        /\ Starting' => Starting
    BY <1>8, MediaKinds, MediaStarts
  <2> QED
    BY <1>4, <2>1, <2>2 DEF Kinds
<1>9. ASSUME NEW x \in Msg, mailbox' = Append(mailbox, x), pending' = pending,
             x.what # "play", Kind(x) \notin {"retry", "setup", "exit"}
      PROVE  /\ Flying'["retry"] = Flying["retry"] /\ Flying'["setup"] = Flying["setup"]
             /\ Flying'["exit"] = Flying["exit"] /\ (Starting' => Starting)
  <2>1. Gains(Kind(x)) /\ (Starting' => Starting)
    BY <1>9, PostingMoves
  <2>2. \A k \in Kinds : Flying[k] \in Nat
    BY Numbers
  <2>3. \A k \in Kinds \ {Kind(x)} : Flying'[k] = Flying[k]
    BY <2>1, <2>2 DEF Gains
  <2> QED
    BY <1>9, <2>1, <2>3 DEF Kinds
<1>10. CASE WaitStep
  <2>1. ~Prepare
    BY <1>2 DEF Prepare, PlayerInv, Unused
  <2>2. pending' = pending
    BY <1>10 DEF WaitStep, PlayerFrame, serverVars
  <2>3. CASE Reset
    <3>1. Abor(FALSE) \in Msg /\ Kind(Abor(FALSE)) = "abort"
      BY Posted, FormKinds
    <3>2. mailbox' = Append(mailbox, Abor(FALSE)) /\ tracks' = tracks
      BY <2>3 DEF Reset
    <3>3. Abor(FALSE).what # "play"
      BY DEF Abor
    <3>4. /\ Flying'["retry"] = Flying["retry"] /\ Flying'["setup"] = Flying["setup"]
          /\ Flying'["exit"] = Flying["exit"] /\ (Starting' => Starting)
      BY <1>9, <2>2, <3>1, <3>2, <3>3
    <3>5. tracks = <<>> \/ ~handler.firstUnit
      BY <2>3 DEF Reset, PlayerInv, Untold
    <3>6. handler'.tryTCP /\ handler'.firstUnit = handler.firstUnit
      BY <1>2, <2>3 DEF Reset, TypeOK, SessionTypes, HandlerType
    <3> QED
      BY <1>1, <1>3, <3>2, <3>4, <3>5, <3>6, StaysFed
  <2>4. CASE ~Reset
    <3>1. UNCHANGED <<handler, tracks, mailbox>>
      BY <1>10, <2>1, <2>4 DEF WaitStep, ConnectReturns, BufferingUpdate, Play,
              DisconnectReturns, Decode, StreamDone, sessionVars
    <3>2. Starting' = Starting /\ Flying' = Flying
      BY <2>2, <3>1 DEF Starting, Mail, Due, Flying, Total, Count, Occurs
    <3> QED
      BY <1>4, <3>1, <3>2
  <2> QED
    BY <2>3, <2>4
<1>11. CASE SeekStep
  <2>1. /\ mailbox' = Append(mailbox, [what |-> "seek"])
        /\ UNCHANGED <<handler, tracks, pending>>
    BY <1>11 DEF SeekStep, Seek, Dies, Alive, PlayerFrame, serverVars, sessionVars
  <2>2. /\ [what |-> "seek"] \in Msg /\ Kind([what |-> "seek"]) = "seek"
        /\ [what |-> "seek"].what # "play"
    BY Posted, FormKinds
  <2> QED
    BY <1>4, <1>9, <2>1, <2>2
<1>12. ASSUME NEW m \in timers, Expires(m) PROVE Fed'
  <2>1. /\ mailbox' = Append(mailbox, m)
        /\ UNCHANGED <<handler, tracks, pending>>
    BY <1>12 DEF Expires, serverVars
  <2>2. m \in {Tiou} \cup CheckMsgs /\ m \in Msg
    BY Posted DEF TypeOK, BoxTypes
  <2>3. m.what \in {"tiou", "chek"}
    BY <2>2 DEF Tiou, CheckMsgs
  <2>4. Kind(m) \in {"tiou", "check"}
    BY <2>2, <2>3, OtherKinds
  <2> QED
    BY <1>4, <1>9, <2>1, <2>2, <2>3, <2>4
<1> QED
  BY <1>5, <1>6, <1>7, <1>8, <1>10, <1>11, <1>12, Steps DEF FailStep

\* A step of a handler before the session is fed.
UnfedStep == /\ TypeOK /\ SeekInv /\ PlayerInv /\ UnfedInv /\ ~Fed
             /\ crashed = Alive /\ crashed' = Alive /\ player \notin {"refused", "gone"}
             /\ HandlerStep

LEMMA NotTold ==
  ASSUME TypeOK, PlayerInv, UnfedInv, player \notin {"refused", "gone"}
  PROVE  handler.doneMsg # "ddon"
BY DEF PlayerInv, UnfedInv, Untold, Connecting, Unused, None

\* The last timeout of a session that is not fed is of the first attempt.
LEMMA FirstTimeout ==
  ASSUME TypeOK, SeekInv, UnfedInv, ~Fed, crashed = Alive,
         Flying["tiou"] >= 1 \/ Waiting = 1
  PROVE  /\ ~handler.tryTCP /\ NoInjected
         /\ Flying["setup"] = 0 /\ Flying["retry"] = 0 /\ Flying["play"] = 0
         /\ ~Starting /\ ~Lost
<1>1. /\ Flying["setup"] = 0 /\ Flying["retry"] = 0 /\ Flying["play"] = 0
      /\ Attempts > 0
  <2>1. /\ Flying["setup"] \in Nat /\ Flying["play"] \in Nat /\ Flying["retry"] \in Nat
        /\ Flying["tiou"] \in Nat /\ Waiting \in {0, 1}
    BY Numbers DEF Kinds
  <2>2. CASE Flying["tiou"] >= 1
    <3>1. Attempts = 1 /\ \A l \in {"setup", "play", "retry"} : Flying[l] = 0
      BY <2>2, OnlyAttempt
    <3> QED
      BY <3>1
  <2>3. CASE Waiting = 1
    <3>1. \A l \in {"setup", "play", "retry", "tiou"} : Flying[l] = 0
      BY <2>3, OnlyAttempt
    <3> QED
      BY <2>3, <3>1 DEF Attempts
  <2> QED
    BY <2>2, <2>3
<1>2. ~Starting
  BY <1>1, StartingFlies
<1>3. ~Lost
  BY <1>1 DEF UnfedInv, Lost
<1>4. ~handler.tryTCP
  BY <1>1, <1>2, <1>3 DEF Fed, SettingUp
<1> QED
  BY <1>1, <1>2, <1>3, <1>4 DEF UnfedInv

LEMMA UnfedFields ==
  ASSUME UnfedStep, SessionAssumption
  PROVE  /\ handler'.firstUnit /\ ~handler'.checkPending /\ ~handler'.seekPending
         /\ ~handler'.gotRTP
         /\ ~OnQuit => handler'.doneMsg = handler.doneMsg
         /\ OnQuit => handler'.doneMsg = None
         /\ ~OnTiou => handler'.tryTCP = handler.tryTCP
         /\ ~OnPlay => timers' = timers
         /\ OnPlay => timers' = IF Failed(Current) THEN timers ELSE timers \cup {Tiou}
         /\ ~OnDesc /\ ~OnSetu /\ ~OnAbor => (tracks' = <<>> <=> tracks = <<>>)
         /\ OnAbor => tracks' = <<>>
<1>1. /\ handler \in HandlerType /\ handler.firstUnit /\ ~handler.checkPending
      /\ ~handler.seekPending /\ ~handler.gotRTP
  BY DEF UnfedStep, UnfedInv, Quiet, TypeOK, SessionTypes
<1>2. TypeOK /\ HandlerStep /\ crashed' = Alive
  BY DEF UnfedStep
<1>3. \/ OnConn \/ OnDisc \/ OnDesc \/ OnSetu \/ OnPlay \/ OnTear \/ OnQuit
      \/ OnTiou
      \/ OnAbor /\ Current.again
  BY UnfedHandlers DEF UnfedStep
<1>4. CASE OnConn \/ OnDisc \/ OnTear
  <2>1. UNCHANGED <<handler, tracks, timers>>
    BY <1>2, <1>4, HandlerLeaves
  <2>2. ~OnQuit /\ ~OnTiou /\ ~OnPlay /\ ~OnAbor
    BY <1>4 DEF OnConn, OnDisc, OnTear, OnQuit, OnTiou, OnPlay, OnAbor
  <2> QED
    BY <1>1, <2>1, <2>2
<1>5. CASE OnDesc \/ OnSetu
  <2>1. /\ timers' = timers
        /\ \/ handler' = handler
           \/ handler' = [handler EXCEPT !.setupOK = SetupReady]
    BY <1>2, <1>5, OnSetuPosts DEF OnDesc, Alive
  <2>2. ~OnQuit /\ ~OnTiou /\ ~OnPlay /\ ~OnAbor
    BY <1>5 DEF OnDesc, OnSetu, OnQuit, OnTiou, OnPlay, OnAbor
  <2> QED
    BY <1>1, <1>5, <2>1, <2>2 DEF HandlerType
<1>6. CASE OnPlay
  <2>1. /\ timers' = IF Failed(Current) THEN timers ELSE timers \cup {Tiou}
        /\ \/ handler' = handler
           \/ handler' = [handler EXCEPT !.seekable = Current.result = "ok"]
    BY <1>6 DEF OnPlay
  <2>2. ~OnQuit /\ ~OnTiou /\ ~OnAbor
    BY <1>6 DEF OnQuit, OnTiou, OnPlay, OnAbor
  <2>3. tracks' = <<>> <=> tracks = <<>>
    BY <1>2, <1>6, HandlerFields
  <2> QED
    BY <1>1, <1>6, <2>1, <2>2, <2>3 DEF HandlerType
<1>7. CASE OnQuit
  <2>1. timers' = timers /\ tracks' = tracks /\ handler' = [handler EXCEPT !.doneMsg = None]
    BY <1>7 DEF OnQuit
  <2>2. ~OnPlay /\ ~OnTiou /\ ~OnAbor
    BY <1>7 DEF OnQuit, OnTiou, OnPlay, OnAbor
  <2> QED
    BY <1>1, <1>7, <2>1, <2>2 DEF HandlerType
<1>8. CASE OnTiou
  <2>1. /\ timers' = timers /\ tracks' = tracks
        /\ \/ handler' = handler
           \/ handler' = [handler EXCEPT !.tryTCP = TRUE]
    BY <1>1, <1>8 DEF OnTiou, Interleaving
  <2>2. ~OnPlay /\ ~OnQuit /\ ~OnAbor
    BY <1>8 DEF OnQuit, OnTiou, OnPlay, OnAbor
  <2> QED
    BY <1>1, <1>8, <2>1, <2>2 DEF HandlerType
<1>9. CASE OnAbor
  <2>1. timers' = timers /\ handler' = HandlerAfterAbort /\ tracks' = <<>>
    BY <1>2, <1>9, OnAborPosts DEF Alive, OnAbor, Dies
  <2>2. ~OnPlay /\ ~OnQuit /\ ~OnTiou
    BY <1>9 DEF OnQuit, OnTiou, OnPlay, OnAbor
  <2> QED
    BY <1>1, <1>9, <2>1, <2>2 DEF HandlerType, HandlerAfterAbort
<1> QED
  BY <1>3, <1>4, <1>5, <1>6, <1>7, <1>8, <1>9

LEMMA UnfedMoves ==
  ASSUME UnfedStep, SessionAssumption
  PROVE  \/ (\E k \in {"setup", "retry", "exit"} : Deals(k, k)) /\ ~OnPlay /\ ~OnQuit /\ ~OnTiou
            /\ (OnDesc \/ OnSetu => Flying["setup"] >= 1)
            /\ (OnAbor => Flying["retry"] >= 1)
         \/ Deals("setup", "exit") /\ ~OnPlay /\ ~OnQuit /\ ~OnTiou /\ ~OnAbor
         \/ Deals("play", "exit") /\ Starting /\ OnPlay /\ Failed(Current)
         \/ Drains("play") /\ OnPlay /\ ~Failed(Current)
         \/ Deals("exit", "refusal") /\ OnQuit
         \/ Drains("exit") /\ OnQuit
         \/ Drains("tiou") /\ OnTiou
         \/ Deals("tiou", "retry") /\ OnTiou
<1>1. /\ TypeOK /\ HandlerStep /\ crashed' = Alive
      /\ \/ OnConn \/ OnDisc \/ OnDesc \/ OnSetu \/ OnPlay \/ OnTear \/ OnQuit
         \/ OnTiou
         \/ OnAbor /\ Current.again
  BY UnfedHandlers DEF UnfedStep
<1>2. CASE OnConn \/ OnDisc \/ OnDesc \/ OnSetu
  <2>1. ~OnPlay /\ ~OnQuit /\ ~OnTiou /\ ~OnAbor
    BY <1>2 DEF OnConn, OnDisc, OnDesc, OnSetu, OnPlay, OnQuit, OnTiou, OnAbor
  <2>2. OnDesc \/ OnSetu => Flying["setup"] >= 1
    BY <1>1, SetupMoves DEF Deals, Turns
  <2> QED
    BY <1>1, <1>2, <2>1, <2>2, SetupMoves
<1>3. CASE OnTear
  <2>1. ~OnPlay /\ ~OnQuit /\ ~OnTiou /\ ~OnDesc /\ ~OnSetu /\ ~OnAbor
    BY <1>3 DEF OnTear, OnDesc, OnSetu, OnPlay, OnQuit, OnTiou, OnAbor
  <2> QED
    BY <1>1, <1>3, <2>1, PlayMoves
<1>4. CASE OnAbor /\ Current.again
  <2>1. ~OnPlay /\ ~OnQuit /\ ~OnTiou /\ ~OnDesc /\ ~OnSetu
    BY <1>4 DEF OnAbor, OnDesc, OnSetu, OnPlay, OnQuit, OnTiou
  <2>2. Deals("retry", "retry")
    BY <1>1, <1>4, PlayMoves
  <2> QED
    BY <2>1, <2>2 DEF Deals, Turns
<1>5. CASE OnPlay
  <2>1. IF Failed(Current) THEN Deals("play", "exit") /\ Starting ELSE Drains("play")
    BY <1>1, <1>5, PlayMoves
  <2> QED
    BY <1>5, <2>1
<1>6. CASE OnQuit
  <2>1. handler.doneMsg \in {"cdon", None} /\ None \notin {"cdon", "ddon"}
    BY NotTold DEF UnfedStep, TypeOK, SessionTypes, HandlerType, None
  <2> QED
    BY <1>1, <1>6, <2>1, PlayMoves
<1>7. CASE OnTiou
  <2>1. \/ Drains("tiou")
        \/ Deals("tiou", "retry")
        \/ Flying["tiou"] >= 1 /\ (IF handler.gotRTP THEN handler.tryFake
                                                    ELSE handler.tryTCP)
    BY <1>1, <1>7, MediaMoves
  <2>2. ~handler.gotRTP /\ (Flying["tiou"] >= 1 => ~handler.tryTCP)
    BY FirstTimeout DEF UnfedStep, UnfedInv, Quiet
  <2> QED
    BY <1>7, <2>1, <2>2
<1> QED
  BY <1>1, <1>2, <1>3, <1>4, <1>5, <1>6, <1>7

LEMMA UnfedQuiet ==
  ASSUME UnfedStep, SessionAssumption
  PROVE  /\ Quiet' /\ Untold'
         /\ NoInjected /\ (~handler.tryTCP \/ ~OnSetu) => NoInjected'
         /\ Starting' => Starting
         /\ serving' = serving
<1>1. /\ \A k \in {"check", "abort", "media", "told", "ended"} : Flying'[k] = Flying[k]
      /\ Starting' => Starting
  <2>1. TypeOK
    BY DEF UnfedStep
  <2>2. ASSUME NEW j, NEW l, Deals(j, l), j \in {"setup", "play", "retry", "exit", "tiou"},
               l \in {"setup", "exit", "retry", "refusal"}
        PROVE  /\ \A k \in {"check", "abort", "media", "told", "ended"} :
                      Flying'[k] = Flying[k]
               /\ Starting' => Starting
    <3>1. /\ \A k \in Kinds \ {j, l} : Flying'[k] = Flying[k]
          /\ Starting' => Starting
      BY <2>1, <2>2, DealsAt
    <3> QED
      BY <2>2, <3>1 DEF Kinds
  <2>3. ASSUME NEW j, Drains(j), j \in {"setup", "play", "retry", "exit", "tiou"}
        PROVE  /\ \A k \in {"check", "abort", "media", "told", "ended"} :
                      Flying'[k] = Flying[k]
               /\ Starting' => Starting
    <3>1. /\ \A k \in Kinds \ {j} : Flying'[k] = Flying[k]
          /\ Starting' => Starting
      BY <2>1, <2>3, DealsAt
    <3> QED
      BY <2>3, <3>1 DEF Kinds
  <2>4. \/ \E k \in {"setup", "retry", "exit"} : Deals(k, k)
        \/ Deals("setup", "exit") \/ Deals("play", "exit") \/ Drains("play")
        \/ Deals("exit", "refusal") \/ Drains("exit") \/ Drains("tiou")
        \/ Deals("tiou", "retry")
    BY UnfedMoves
  <2> QED
    BY <2>2, <2>3, <2>4
<1>2. Quiet /\ Untold
  BY DEF UnfedStep, UnfedInv
<1>3. /\ UNCHANGED <<serving, segment, player, seekDone, state>>
      /\ EmptySources' /\ NoFeed'
      /\ NoInjected /\ (~handler.tryTCP \/ ~OnSetu) => NoInjected'
  BY HandlerLeaves, QuietHandlers DEF UnfedStep
<1>4. timers' \subseteq {Tiou}
  BY <1>2, UnfedFields DEF Quiet
<1>5. /\ handler'.firstUnit /\ ~handler'.checkPending /\ ~handler'.seekPending
      /\ ~handler'.gotRTP
  BY UnfedFields
<1>6. Quiet'
  BY <1>1, <1>2, <1>3, <1>4, <1>5 DEF Quiet
<1>7. Untold'
  BY <1>1, <1>2, <1>3 DEF Untold
<1> QED
  BY <1>1, <1>3, <1>6, <1>7

LEMMA UnfedHandler ==
  ASSUME UnfedStep, SessionAssumption
  PROVE  UnfedInv'
<1>1. TypeOK /\ UnfedInv /\ \A k \in Kinds : Flying[k] \in Nat
  BY Numbers DEF UnfedStep
<1>2. /\ Flying["setup"] \in Nat /\ Flying["play"] \in Nat /\ Flying["retry"] \in Nat
      /\ Flying["tiou"] \in Nat /\ Flying["exit"] \in Nat /\ Waiting \in {0, 1}
      /\ Attempts = Flying["setup"] + Flying["play"] + Flying["retry"] + Flying["tiou"]
                      + Waiting
      /\ Attempts' = Flying'["setup"] + Flying'["play"] + Flying'["retry"]
                       + Flying'["tiou"] + Waiting'
  BY <1>1, Numbers DEF Kinds, Attempts
<1>3. /\ Quiet' /\ Untold'
      /\ NoInjected /\ (~handler.tryTCP \/ ~OnSetu) => NoInjected'
      /\ Starting' => Starting
      /\ serving' = serving
  BY UnfedQuiet
<1>4. ASSUME Attempts' <= 1, Attempts' > 0 => handler'.doneMsg = "cdon",
             Flying'["exit"] > 0 \/ Over' => Attempts' = 0,
             Flying'["retry"] > 0 \/ ~handler'.tryTCP => NoInjected',
             SettingUp' \/ Lost' => ~serving
      PROVE  UnfedInv'
  BY <1>3, <1>4 DEF UnfedInv
<1>5. \A k \in {"setup", "play", "retry", "tiou"} : Flying[k] >= 1 =>
              /\ Attempts = 1 /\ Flying[k] = 1
              /\ \A l \in {"setup", "play", "retry", "tiou"} \ {k} : Flying[l] = 0
              /\ Waiting = 0
              /\ Flying["exit"] = 0 /\ ~Over /\ ~Lost /\ handler.doneMsg = "cdon"
  BY OnlyAttempt DEF UnfedStep
<1>6. ~OnPlay => Waiting' = Waiting
  BY UnfedFields DEF Waiting
<1>7. ASSUME NEW k \in {"setup", "retry", "exit"}, Deals(k, k), ~OnPlay, ~OnQuit, ~OnTiou,
             OnDesc \/ OnSetu => Flying["setup"] >= 1,
             OnAbor => Flying["retry"] >= 1
      PROVE  UnfedInv'
  <2>1. \A l \in Kinds : Flying'[l] = Flying[l]
    BY <1>1, <1>7, DealsAt
  <2>2. /\ Flying'["setup"] = Flying["setup"] /\ Flying'["play"] = Flying["play"]
        /\ Flying'["retry"] = Flying["retry"] /\ Flying'["tiou"] = Flying["tiou"]
        /\ Flying'["exit"] = Flying["exit"]
    BY <2>1 DEF Kinds
  <2>3. Attempts' = Attempts
    BY <1>2, <1>6, <1>7, <2>2
  <2>4. /\ handler'.doneMsg = handler.doneMsg /\ handler'.tryTCP = handler.tryTCP
        /\ handler'.firstUnit /\ handler.firstUnit
    BY <1>1, <1>7, UnfedFields DEF UnfedInv, Quiet
  <2>5. tracks' # <<>> => \/ tracks # <<>>
                           \/ (handler.doneMsg = "cdon" /\ Flying["exit"] = 0)
    <3>1. OnDesc \/ OnSetu => handler.doneMsg = "cdon" /\ Flying["exit"] = 0
      BY <1>5, <1>7
    <3>2. ~OnDesc /\ ~OnSetu => (tracks' # <<>> => tracks # <<>>)
      BY UnfedFields
    <3>3. CASE OnDesc \/ OnSetu
      BY <3>1, <3>3
    <3>4. CASE ~OnDesc /\ ~OnSetu
      BY <3>2, <3>4
    <3> QED
      BY <3>3, <3>4
  <2>6. (Over' => Over) /\ (Lost' => Lost)
    BY <1>2, <2>2, <2>4, <2>5 DEF Over, Lost
  <2>7. SettingUp' => SettingUp
    BY <1>3, <2>2 DEF SettingUp
  <2>8. Flying'["retry"] > 0 \/ ~handler'.tryTCP => NoInjected'
    <3>1. CASE OnSetu
      <4>1. Flying["setup"] >= 1
        BY <1>7, <3>1
      <4>2. Flying["retry"] = 0
        BY <1>5, <4>1
      <4> QED
        BY <1>1, <1>3, <2>2, <2>4, <4>2 DEF UnfedInv
    <3>2. CASE ~OnSetu
      BY <1>1, <1>3, <2>2, <2>4, <3>2 DEF UnfedInv
    <3> QED
      BY <3>1, <3>2
  <2>9. /\ Attempts' <= 1
        /\ Attempts' > 0 => handler'.doneMsg = "cdon"
        /\ Flying'["exit"] > 0 \/ Over' => Attempts' = 0
        /\ SettingUp' \/ Lost' => ~serving
    BY <1>1, <2>2, <2>3, <2>4, <2>6, <2>7 DEF UnfedInv
  <2> QED
    BY <1>4, <2>8, <2>9
\* The only attempt ends.
<1>8. ASSUME NEW k \in {"setup", "play"}, Deals(k, "exit"), ~OnQuit, ~OnTiou,
             timers' = timers, ~serving
      PROVE  UnfedInv'
  <2>1. Flying[k] >= 1 /\ k \in Kinds
    BY <1>1, <1>8, DealsAt
  <2>2. /\ Flying[k] = 1 /\ Waiting = 0 /\ ~Lost
        /\ \A l \in {"setup", "play", "retry", "tiou"} \ {k} : Flying[l] = 0
    BY <1>5, <2>1
  <2>3. /\ Flying'[k] = Flying[k] - 1
        /\ \A l \in Kinds \ {k, "exit"} : Flying'[l] = Flying[l]
    BY <1>1, <1>8, DealsAt
  <2>4. /\ Flying'["setup"] = 0 /\ Flying'["play"] = 0
        /\ Flying'["retry"] = 0 /\ Flying'["tiou"] = 0
    BY <2>2, <2>3 DEF Kinds
  <2>5. Attempts' = 0
    <3>1. Waiting' = 0
      BY <1>8, <2>2 DEF Waiting
    <3> QED
      BY <1>2, <2>4, <3>1
  <2>7. ~handler'.tryTCP => NoInjected'
    <3>1. handler'.tryTCP = handler.tryTCP
      BY <1>8, UnfedFields
    <3> QED
      BY <1>1, <1>3, <3>1 DEF UnfedInv
  <2> QED
    BY <1>4, <1>8, <2>4, <2>5, <2>7
\* The server plays: the session is fed, or waits for what comes.
<1>9. ASSUME Drains("play"), OnPlay, ~Failed(Current)
      PROVE  UnfedInv'
  <2>1. /\ Flying["play"] >= 1 /\ Flying'["play"] = Flying["play"] - 1
        /\ \A l \in Kinds \ {"play"} : Flying'[l] = Flying[l]
    BY <1>1, <1>9, DealsAt
  <2>2. /\ Flying["play"] = 1 /\ Flying["exit"] = 0 /\ ~Over
        /\ handler.doneMsg = "cdon"
        /\ \A l \in {"setup", "retry", "tiou"} : Flying[l] = 0
    BY <1>5, <2>1
  <2>3. /\ Flying'["setup"] = 0 /\ Flying'["play"] = 0 /\ Flying'["exit"] = 0
        /\ Flying'["retry"] = 0 /\ Flying'["tiou"] = 0
    BY <2>1, <2>2 DEF Kinds
  <2>4. Attempts' = 1
    <3>1. Waiting' = 1
      BY <1>9, UnfedFields DEF Waiting
    <3> QED
      BY <1>2, <2>3, <3>1
  <2>5. ~OnQuit /\ ~OnTiou /\ ~OnSetu
    BY <1>9 DEF OnPlay, OnQuit, OnTiou, OnSetu
  <2>6. handler'.doneMsg = "cdon" /\ handler'.tryTCP = handler.tryTCP
    BY <2>2, <2>5, UnfedFields
  <2>7. ~Over' /\ ~Lost'
    BY <2>3, <2>6 DEF Over, Lost
  <2>8. ~handler'.tryTCP => NoInjected'
    BY <1>1, <1>3, <2>5, <2>6 DEF UnfedInv
  <2>9. SettingUp' => ~serving
    <3>1. SettingUp' => Starting
      BY <1>3, <2>3 DEF SettingUp
    <3> QED
      BY <1>1, <3>1 DEF UnfedInv, SettingUp
  <2> QED
    BY <1>4, <2>3, <2>4, <2>6, <2>7, <2>8, <2>9
<1>10. ASSUME Deals("exit", "refusal") \/ Drains("exit"), OnQuit
       PROVE  UnfedInv'
  <2>1. /\ Flying["exit"] >= 1 /\ Flying'["exit"] = Flying["exit"] - 1
        /\ \A l \in Kinds \ {"exit", "refusal"} : Flying'[l] = Flying[l]
    BY <1>1, <1>10, DealsAt
  <2>2. Attempts = 0
    BY <1>1, <1>2, <2>1 DEF UnfedInv
  <2>3. ~OnPlay /\ ~OnTiou /\ ~OnDesc /\ ~OnSetu /\ ~OnAbor
    BY <1>10 DEF OnPlay, OnQuit, OnTiou, OnDesc, OnSetu, OnAbor
  <2>4. /\ Flying'["setup"] = Flying["setup"] /\ Flying'["play"] = Flying["play"]
        /\ Flying'["retry"] = Flying["retry"] /\ Flying'["tiou"] = Flying["tiou"]
    BY <2>1 DEF Kinds
  <2>5. Attempts' = 0
    BY <1>2, <1>6, <2>2, <2>3, <2>4
  <2>6. SettingUp' \/ Lost' => ~serving
    <3>1. SettingUp' => SettingUp
      BY <1>3, <2>4 DEF SettingUp
    <3>2. Lost' => tracks' # <<>>
      BY DEF Lost, Over
    <3>3. Lost' => Lost
      <4>1. tracks' # <<>> => tracks # <<>>
        BY <2>3, UnfedFields
      <4>2. tracks # <<>> => Lost
        BY <1>2, <2>1 DEF Lost
      <4> QED
        BY <3>2, <4>1, <4>2
    <3> QED
      BY <1>1, <3>1, <3>3 DEF UnfedInv
  <2>7. Flying'["retry"] > 0 \/ ~handler'.tryTCP => NoInjected'
    <3>1. handler'.tryTCP = handler.tryTCP
      BY <2>3, UnfedFields
    <3> QED
      BY <1>1, <1>3, <2>3, <2>4, <3>1 DEF UnfedInv
  <2> QED
    BY <1>4, <2>5, <2>6, <2>7
<1>11. ASSUME Drains("tiou") \/ Deals("tiou", "retry"), OnTiou
       PROVE  UnfedInv'
  <2>1. /\ Flying["tiou"] >= 1 /\ Flying'["tiou"] = Flying["tiou"] - 1
        /\ Flying'["retry"] \in {Flying["retry"], Flying["retry"] + 1}
        /\ \A l \in Kinds \ {"tiou", "retry"} : Flying'[l] = Flying[l]
    <3>1. CASE Drains("tiou")
      BY <1>1, <3>1, DealsAt DEF Kinds
    <3>2. CASE Deals("tiou", "retry")
      BY <1>1, <3>2, DealsAt
    <3> QED
      BY <1>11, <3>1, <3>2
  <2>2. /\ Flying["tiou"] = 1 /\ Flying["exit"] = 0 /\ ~Over /\ Waiting = 0
        /\ handler.doneMsg = "cdon"
        /\ \A l \in {"setup", "retry", "play"} : Flying[l] = 0
    BY <1>5, <2>1
  <2>3. /\ Flying'["setup"] = 0 /\ Flying'["play"] = 0 /\ Flying'["exit"] = 0
        /\ Flying'["retry"] \in {0, 1} /\ Flying'["tiou"] = 0
    BY <2>1, <2>2 DEF Kinds
  <2>4. ~OnQuit /\ ~OnPlay /\ ~OnSetu
    BY <1>11 DEF OnPlay, OnQuit, OnTiou, OnSetu
  <2>5. Attempts' <= 1
    BY <1>2, <1>6, <2>2, <2>3, <2>4
  <2>6. handler'.doneMsg = "cdon"
    BY <2>2, <2>4, UnfedFields
  <2>7. ~Over' /\ ~Lost'
    BY <2>3, <2>6 DEF Over, Lost
  <2>8. NoInjected'
    BY <1>3, <2>1, <2>4, FirstTimeout DEF UnfedStep
  <2>9. SettingUp' => ~serving
    <3>1. SettingUp' => Starting
      BY <1>3, <2>3 DEF SettingUp
    <3> QED
      BY <1>1, <3>1 DEF UnfedInv, SettingUp
  <2> QED
    BY <1>4, <2>3, <2>5, <2>6, <2>7, <2>8, <2>9
<1>12. CASE \/ Deals("setup", "exit") /\ ~OnPlay /\ ~OnQuit /\ ~OnTiou /\ ~OnAbor
            \/ Deals("play", "exit") /\ Starting /\ OnPlay /\ Failed(Current)
  <2>1. CASE Deals("setup", "exit") /\ ~OnPlay /\ ~OnQuit /\ ~OnTiou /\ ~OnAbor
    <3>1. timers' = timers
      BY <2>1, UnfedFields
    <3>2. Flying["setup"] >= 1
      BY <1>1, <2>1, DealsAt
    <3>3. ~serving
      BY <1>1, <1>2, <3>2 DEF UnfedInv, SettingUp
    <3> QED
      BY <1>8, <2>1, <3>1, <3>3
  <2>2. CASE Deals("play", "exit") /\ Starting /\ OnPlay /\ Failed(Current)
    <3>1. timers' = timers
      BY <2>2, UnfedFields
    <3>2. ~serving
      BY <1>1, <2>2 DEF UnfedInv, SettingUp
    <3>3. ~OnQuit /\ ~OnTiou
      BY <2>2 DEF OnPlay, OnQuit, OnTiou
    <3> QED
      BY <1>8, <2>2, <3>1, <3>2, <3>3
  <2> QED
    BY <1>12, <2>1, <2>2
<1> QED
  BY <1>7, <1>9, <1>10, <1>11, <1>12, UnfedMoves

LEMMA NetboxTakes ==
  ASSUME TypeOK, netbox # <<>>
  PROVE  /\ Message \in ToSet(netbox) /\ ToSet(Tail(netbox)) \subseteq ToSet(netbox)
         /\ ToSet(Append(Tail(netbox), PollStreams)) \subseteq ToSet(netbox) \cup {PollStreams}
<1>1. /\ netbox \in Seq(NetMsg) /\ Tail(netbox) \in Seq(NetMsg)
      /\ PollStreams \in NetMsg
  BY MessageIs, NetPosted DEF TypeOK, NetTypes
<1>2. /\ <<PollStreams>> \in Seq(NetMsg) /\ ToSet(<<PollStreams>>) = {PollStreams}
  BY <1>1, SetOfFew
<1>3. ToSet(netbox) = {Head(netbox)} \cup ToSet(Tail(netbox))
  BY <1>1, <1>2, Handling
<1>4. /\ Append(Tail(netbox), PollStreams) = Tail(netbox) \o <<PollStreams>>
      /\ ToSet(Tail(netbox) \o <<PollStreams>>)
           = ToSet(Tail(netbox)) \cup ToSet(<<PollStreams>>)
  <2>1. Append(Tail(netbox), PollStreams) = Tail(netbox) \o <<PollStreams>>
    BY <1>1, AppendIsConcat
  <2>2. ToSet(Tail(netbox) \o <<PollStreams>>)
           = ToSet(Tail(netbox)) \cup ToSet(<<PollStreams>>)
    <3>1. Tail(netbox) \in Seq(NetMsg) /\ <<PollStreams>> \in Seq(NetMsg)
      BY <1>1, <1>2
    <3> QED
      BY <3>1, Posting
  <2> QED
    BY <2>1, <2>2
<1> QED
  BY <1>2, <1>3, <1>4 DEF Message

\* Without packets to inject, the network tells the session nothing, and no
\* stream becomes an injected one.
LEMMA NetworkQuiet ==
  ASSUME TypeOK, NetworkStep, NoFeed
  PROVE  /\ NoFeed' /\ (NoInjected => NoInjected')
         /\ UNCHANGED <<mailbox, pending>>
<1> DEFINE P == {s \in StreamType : ~s.injected}
<1>1. /\ netbox # <<>> /\ Message \in ToSet(netbox)
      /\ ToSet(Tail(netbox)) \subseteq ToSet(netbox)
      /\ ToSet(Append(Tail(netbox), PollStreams)) \subseteq ToSet(netbox) \cup {PollStreams}
      /\ PollStreams.what = "poll"
  BY NetboxTakes DEF NetworkStep, PollStreams
<1>2. ~OnInjectPacket
  BY <1>1 DEF OnInjectPacket, NoFeed
<1>3. UNCHANGED <<mailbox, pending>>
  <2>1. pending' = pending
    BY DEF NetworkStep, NetFrame, serverVars
  <2>2. OnPollStreams => mailbox' = mailbox
    BY PollReads
  <2>3. OnAddStream \/ OnRemoveStream \/ OnFakeTimestamps => mailbox' = mailbox
    BY DEF OnAddStream, OnRemoveStream, OnFakeTimestamps
  <2> QED
    BY <1>2, <2>1, <2>2, <2>3 DEF NetworkStep
<1>4. ToSet(netbox)' \subseteq ToSet(netbox) \cup {PollStreams}
  <2>1. \/ netbox' = netbox \/ netbox' = Tail(netbox)
        \/ netbox' = Append(Tail(netbox), PollStreams)
    <3>1. OnPollStreams => \/ netbox' = netbox \/ netbox' = Tail(netbox)
                           \/ netbox' = Append(Tail(netbox), PollStreams)
      BY PollReads
    <3>2. OnAddStream \/ OnRemoveStream \/ OnFakeTimestamps =>
              \/ netbox' = Tail(netbox)
              \/ netbox' = Append(Tail(netbox), PollStreams)
      BY DEF OnAddStream, OnRemoveStream, OnFakeTimestamps, WithPollEvent
    <3> QED
      BY <1>2, <3>1, <3>2 DEF NetworkStep
  <2> QED
    BY <1>1, <2>1
<1>5. ASSUME NoInjected
      PROVE  \A i \in DOMAIN streams' : ~streams'[i].injected
  <2>1. /\ streams \in Seq(StreamType) /\ DOMAIN streams = 1 .. Len(streams)
        /\ Len(streams) \in Nat
        /\ \A i \in DOMAIN streams : streams[i] \in StreamType
    BY StreamsAre
  <2>2. \A i \in DOMAIN streams : streams[i] \in P
    BY <1>5, <2>1 DEF NoInjected
  <2>3. streams \in Seq(P)
    BY <2>1, <2>2, SeqDef
  <2>4. ASSUME streams' \in Seq(P) PROVE \A i \in DOMAIN streams' : ~streams'[i].injected
    <3>1. \A i \in DOMAIN streams' : streams'[i] \in P
      BY <2>4, LenProperties, ElementOfSeq
    <3> QED
      BY <3>1
  <2> HIDE DEF P
  <2>5. CASE OnAddStream
    <3>1. Message.stream \in P
      <4>1. Message \in NetMsg /\ Message.what = "add"
        BY <1>1, <2>5, MessageIs DEF OnAddStream
      <4>2. Message.stream \in StreamType
        BY <4>1, NetFields
      <4> QED
        BY <1>1, <1>5, <4>1, <4>2 DEF P, NoInjected
    <3>2. streams' \in Seq(P)
      BY <2>3, <2>5, <3>1, AppendProperties DEF OnAddStream
    <3> QED
      BY <2>4, <3>2
  <2>6. CASE OnRemoveStream
    <3>1. CASE Registered(Message.socket) = {}
      BY <2>3, <2>4, <2>6, <3>1 DEF OnRemoveStream
    <3>2. CASE Registered(Message.socket) # {}
      <4>1. Min(Registered(Message.socket)) \in DOMAIN streams
        BY <3>2, FirstRegistered
      <4>2. streams' = RemoveAt(streams, Min(Registered(Message.socket)))
        BY <2>6, <3>2 DEF OnRemoveStream
      <4>3. streams' \in Seq(P)
        BY <2>3, <4>1, <4>2, RemoveAtTypes
      <4> QED
        BY <2>4, <4>3
    <3> QED
      BY <3>1, <3>2
  <2>7. CASE OnPollStreams
    <3>1. streams' = streams
      BY <2>7, PollReads
    <3> QED
      BY <2>3, <2>4, <3>1
  <2>8. CASE OnFakeTimestamps
    <3>1. \A i \in DOMAIN streams : [streams[i] EXCEPT !.times = 2].injected
                                      = streams[i].injected
      BY <2>1 DEF StreamType
    <3>2. streams' = [i \in DOMAIN streams |->
               IF streams[i].source /\ streams[i].times < 2
               THEN [streams[i] EXCEPT !.times = 2] ELSE streams[i]]
      BY <2>8 DEF OnFakeTimestamps
    <3> QED
      BY <1>5, <3>1, <3>2 DEF NoInjected
  <2> QED
    BY <1>2, <2>5, <2>6, <2>7, <2>8 DEF NetworkStep
<1>6. NoFeed'
  BY <1>1, <1>4 DEF NoFeed
<1>7. NoInjected => NoInjected'
  BY <1>1, <1>4, <1>5 DEF NoInjected
<1> QED
  BY <1>3, <1>6, <1>7

LEMMA AnswersKinds ==
  ASSUME TypeOK, ServerStep, ServerAnswers \/ ConnectionLost
  PROVE  \A k \in Kinds : Flying'[k] = Flying[k]
<1> TAKE k \in Kinds
<1>1. Total(mailbox', pending', Of(k)) = Total(mailbox, pending, Of(k))
  BY AnswersFlow, FlyingTypes
<1> QED
  BY <1>1, FlyingTypes

\* The only request to play that is answered leaves none.
LEMMA OnlyPlay ==
  ASSUME TypeOK, ServerStep, ServerAnswers, Answered.what = "play", serving',
         Flying["play"] <= 1
  PROVE  Flying["play"] = 1 /\ ~Starting'
<1> DEFINE M == Of("play")
<1>1. BoxTypes /\ Mail \subseteq Msg /\ Due \subseteq Awaited
  BY MailTypes DEF TypeOK
<1>2. /\ Answered \in Awaited /\ Due = {Answered} \cup ToSet(Tail(pending))
      /\ Due' = ToSet(Tail(pending)) /\ pending' \in Seq(Awaited)
      /\ Count(pending', M) = Count(pending, M) - One(Answered, M)
  BY AnswersAre
<1>3. \A m \in Msg : m.what = "play" => m \in M
  BY OtherKinds DEF Of
<1>4. Awaited \subseteq Msg
  BY Posted
<1>5. One(Answered, M) = 1
  BY <1>2, <1>3, <1>4 DEF One
<1>6. /\ Count(mailbox, M) \in Nat /\ Count(pending, M) \in Nat
      /\ Count(mailbox, M) = 0 <=> Mail \cap M = {}
      /\ Count(pending, M) = 0 <=> Due \cap M = {}
  BY <1>1, MailTypes
<1>7. Flying["play"] = Count(mailbox, M) + Count(pending, M)
  BY FlyingTypes DEF Total, Kinds
<1>8. Count(pending, M) # 0
  BY <1>2, <1>3, <1>4, <1>6
<1>9. Count(mailbox, M) = 0 /\ Count(pending, M) = 1 /\ Flying["play"] = 1
  BY <1>6, <1>7, <1>8
<1>10. Count(pending', M) = 0
  BY <1>2, <1>5, <1>9
<1>11. \A r \in Due' : r.what # "play"
  <2>1. \A i \in DOMAIN pending' : pending'[i] \notin M
    BY <1>2, <1>10, CountNone
  <2>2. ASSUME NEW r \in ToSet(pending') PROVE r.what # "play"
    <3>1. PICK i \in DOMAIN pending' : r = pending'[i]
      BY <2>2, SetOf
    <3>2. r \in Awaited
      BY <1>2, <3>1, LenProperties, ElementOfSeq
    <3> QED
      BY <1>3, <1>4, <2>1, <3>1, <3>2
  <2> QED
    BY <2>2 DEF Due
<1>12. PICK result \in Answers(Answered) :
              /\ mailbox' = Append(mailbox, With(Answered, result))
              /\ With(Answered, result) \in Msg
              /\ serving' = CASE Answered.what \in {"play", "see2"} ->
                                    ~Failed(With(Answered, result))
                              [] Answered.what \in {"see1", "tear"} -> FALSE
                              [] OTHER -> serving
  BY AnswersAre
<1>13. ~Failed(With(Answered, result))
  BY <1>12
<1>14. Mail' = Mail \cup {With(Answered, result)}
  BY <1>1, <1>12, PostsOne
<1>15. \A m \in Mail : m.what # "play"
  BY <1>1, <1>3, <1>6, <1>9
<1> QED
  BY <1>9, <1>11, <1>13, <1>14, <1>15 DEF Starting

\* What every step of the others leaves of a session that is not fed.
LEMMA StaysUnfed ==
  ASSUME UnfedInv, Quiet', Untold',
         Attempts' = Attempts, handler' = handler, tracks' = tracks,
         Flying'["exit"] = Flying["exit"], Flying'["retry"] = Flying["retry"],
         SettingUp' => SettingUp, NoInjected => NoInjected',
         serving' => serving
  PROVE  UnfedInv'
<1>1. (Over' => Over) /\ (Lost' => Lost)
  BY DEF Over, Lost
<1> QED
  BY <1>1 DEF UnfedInv

LEMMA UnfedConnection ==
  ASSUME TypeOK, SeekInv, UnfedInv, crashed = Alive, ConnectionStep
  PROVE  UnfedInv'
<1>1. /\ UNCHANGED <<netbox, streams, handler, tracks, source, timers, segment, state,
                     player, seekDone>>
      /\ serving' => serving
  BY DEF ConnectionStep, ConnectionFrame, sessionVars, playerVars, netVars,
         ConnConnect, ConnDisconnect, ConnSendRequest
<1>2. Quiet /\ Untold /\ Attempts <= 1
  BY DEF UnfedInv
<1>3. ASSUME \A k \in {"check", "abort", "media", "told", "ended"} : Flying'[k] = Flying[k]
      PROVE  Quiet' /\ Untold'
  BY <1>1, <1>2, <1>3 DEF Quiet, Untold, NoFeed, EmptySources
<1>4. /\ Attempts' = Flying'["setup"] + Flying'["play"] + Flying'["retry"]
                       + Flying'["tiou"] + Waiting'
      /\ Attempts = Flying["setup"] + Flying["play"] + Flying["retry"]
                       + Flying["tiou"] + Waiting
      /\ Waiting' = Waiting
  BY <1>1 DEF Attempts, Waiting
<1>5. ASSUME NEW k \in {"setup", "exit", "retry", "seek"}, Deals(k, k)
      PROVE  UnfedInv'
  <2>1. /\ \A l \in Kinds : Flying'[l] = Flying[l]
        /\ Starting' => Starting
    BY <1>5, DealsAt
  <2>2. Quiet' /\ Untold'
    BY <1>3, <2>1 DEF Kinds
  <2>3. Attempts' = Attempts
    BY <1>4, <2>1 DEF Kinds
  <2>4. Flying'["exit"] = Flying["exit"] /\ Flying'["retry"] = Flying["retry"]
        /\ (SettingUp' => SettingUp)
    BY <2>1 DEF Kinds, SettingUp
  <2>5. NoInjected => NoInjected'
    BY <1>1 DEF NoInjected
  <2> QED
    BY <1>1, <2>2, <2>3, <2>4, <2>5, StaysUnfed
<1>6. \A k \in {"setup", "play", "retry", "tiou"} : Flying[k] >= 1 =>
              /\ Attempts = 1 /\ Flying[k] = 1
              /\ \A l \in {"setup", "play", "retry", "tiou"} \ {k} : Flying[l] = 0
              /\ Waiting = 0
              /\ Flying["exit"] = 0 /\ ~Over /\ ~Lost /\ handler.doneMsg = "cdon"
  BY OnlyAttempt
\* The next attempt connects anew.
<1>7. ASSUME Deals("retry", "setup"), Current = Disconnect(Disc(TRUE))
      PROVE  UnfedInv'
  <2>1. /\ Flying["retry"] >= 1 /\ Flying'["retry"] = Flying["retry"] - 1
        /\ Flying'["setup"] = Flying["setup"] + 1
        /\ \A l \in Kinds \ {"retry", "setup"} : Flying'[l] = Flying[l]
    BY <1>7, DealsAt
  <2>2. /\ Flying["retry"] = 1 /\ Flying["exit"] = 0 /\ handler.doneMsg = "cdon"
        /\ Waiting = 0 /\ \A l \in {"setup", "play", "tiou"} : Flying[l] = 0
    BY <1>6, <2>1
  <2>3. /\ Flying'["setup"] = 1 /\ Flying'["play"] = 0 /\ Flying'["retry"] = 0
        /\ Flying'["tiou"] = 0 /\ Flying'["exit"] = 0
    BY <2>1, <2>2 DEF Kinds
  <2>4. Attempts' = 1
    BY <1>4, <2>2, <2>3
  <2>5. ~serving'
    <3>1. Current.what = "disconnect"
      BY <1>7 DEF Disconnect
    <3> QED
      BY <3>1 DEF ConnectionStep, ConnConnect, ConnDisconnect, ConnSendRequest
  <2>6. NoInjected'
    <3>1. NoInjected
      BY <2>2 DEF UnfedInv
    <3> QED
      BY <1>1, <3>1 DEF NoInjected
  <2>7. Quiet' /\ Untold'
    <3>1. \A k \in {"check", "abort", "media", "told", "ended"} : Flying'[k] = Flying[k]
      BY <2>1 DEF Kinds
    <3> QED
      BY <1>3, <3>1
  <2>8. ~Over'
    BY <1>1, <2>2 DEF Over
  <2>9. handler'.doneMsg = "cdon"
    BY <1>1, <2>2
  <2> QED
    BY <2>3, <2>4, <2>5, <2>6, <2>7, <2>8, <2>9 DEF UnfedInv
\* PLAY is sent.
<1>8. ASSUME Turns("setup", "play") PROVE UnfedInv'
  <2>1. /\ Flying["setup"] >= 1 /\ Flying'["setup"] = Flying["setup"] - 1
        /\ Flying'["play"] = Flying["play"] + 1
        /\ \A l \in Kinds \ {"play", "setup"} : Flying'[l] = Flying[l]
    <3>1. \A k \in Kinds : Flying[k] \in Nat
      BY FlyingTypes
    <3>2. /\ Flying["setup"] >= 1
          /\ \A k \in Kinds : Flying'[k] = Flying[k] - (IF k = "setup" THEN 1 ELSE 0)
                                             + (IF k = "play" THEN 1 ELSE 0)
      BY <1>8 DEF Turns
    <3>3. \A k \in Kinds \ {"play", "setup"} : Flying'[k] = Flying[k]
      BY <3>1, <3>2
    <3>4. Flying'["setup"] = Flying["setup"] - 1
      BY <3>1, <3>2 DEF Kinds
    <3>5. Flying'["play"] = Flying["play"] + 1
      BY <3>1, <3>2 DEF Kinds
    <3> QED
      BY <3>2, <3>3, <3>4, <3>5
  <2>2. /\ Flying["setup"] = 1 /\ Flying["exit"] = 0 /\ handler.doneMsg = "cdon"
        /\ Waiting = 0 /\ \A l \in {"retry", "play", "tiou"} : Flying[l] = 0
    BY <1>6, <2>1
  <2>3. /\ Flying'["setup"] = 0 /\ Flying'["play"] = 1 /\ Flying'["retry"] = 0
        /\ Flying'["tiou"] = 0 /\ Flying'["exit"] = 0
    BY <2>1, <2>2 DEF Kinds
  <2>4. Attempts' = 1
    BY <1>4, <2>2, <2>3
  <2>5. ~serving'
    BY <1>1, <2>2 DEF UnfedInv, SettingUp
  <2>6. ~handler'.tryTCP => NoInjected'
    BY <1>1 DEF NoInjected, UnfedInv
  <2>7. Quiet' /\ Untold'
    <3>1. \A k \in {"check", "abort", "media", "told", "ended"} : Flying'[k] = Flying[k]
      BY <2>1 DEF Kinds
    <3> QED
      BY <1>3, <3>1
  <2>8. ~Over'
    BY <1>1, <2>2 DEF Over
  <2>9. handler'.doneMsg = "cdon"
    BY <1>1, <2>2
  <2> QED
    BY <2>3, <2>4, <2>5, <2>6, <2>7, <2>8, <2>9 DEF UnfedInv
<1> QED
  BY <1>5, <1>7, <1>8, ConnectionMoves

LEMMA UnfedServer ==
  ASSUME TypeOK, SeekInv, UnfedInv, ~Fed, crashed = Alive, ServerStep
  PROVE  UnfedInv'
<1>1. UNCHANGED <<netbox, streams, handler, tracks, source, timers, state, player,
                  seekDone>>
  BY DEF ServerStep, ServerFrame, ServerAnswers, ConnectionLost,
         ServerSendsInterleaved, sessionVars, playerVars, netVars
<1>2. ~ServerSendsInterleaved
  <2> SUFFICES ASSUME ServerSendsInterleaved PROVE FALSE
    OBVIOUS
  <2>1. serving /\ \E i \in DOMAIN streams : streams[i].injected
    BY InterleavedIs
  <2>2. ~SettingUp /\ ~Lost
    BY <2>1 DEF UnfedInv
  <2>3. Flying["retry"] \in Nat
    BY Numbers DEF Kinds
  <2>4. Flying["retry"] > 0 \/ ~handler.tryTCP
    BY <2>2, <2>3 DEF Fed
  <2> QED
    BY <2>1, <2>4 DEF UnfedInv, NoInjected
<1>3. ServerAnswers \/ ConnectionLost
  BY <1>2 DEF ServerStep
<1>4. \A k \in Kinds : Flying'[k] = Flying[k]
  BY <1>3, AnswersKinds
<1>5. /\ Flying'["setup"] = Flying["setup"] /\ Flying'["play"] = Flying["play"]
      /\ Flying'["retry"] = Flying["retry"] /\ Flying'["tiou"] = Flying["tiou"]
      /\ Flying'["exit"] = Flying["exit"]
      /\ \A k \in {"check", "abort", "media", "told", "ended"} : Flying'[k] = Flying[k]
  BY <1>4 DEF Kinds
<1>6. Starting' => Starting
  BY MediaStarts
<1>7. Attempts' = Attempts /\ (SettingUp' => SettingUp)
  BY <1>1, <1>5, <1>6 DEF Attempts, Waiting, SettingUp
<1>8. Untold' /\ (NoInjected => NoInjected')
  BY <1>1, <1>5 DEF UnfedInv, Untold, NoInjected
<1>9. CASE ConnectionLost
  <2>1. serving' = FALSE /\ segment' = segment
    BY <1>9 DEF ConnectionLost
  <2>2. Quiet'
    BY <1>1, <1>5, <2>1 DEF UnfedInv, Quiet, NoFeed, EmptySources
  <2> QED
    BY <1>1, <1>5, <1>7, <1>8, <2>1, <2>2, StaysUnfed
<1>10. CASE ServerAnswers
  <2>1. PICK result \in Answers(Answered) :
              /\ serving' = CASE Answered.what \in {"play", "see2"} ->
                                    ~Failed(With(Answered, result))
                              [] Answered.what \in {"see1", "tear"} -> FALSE
                              [] OTHER -> serving
              /\ segment' = IF Answered.what = "see2" /\ ~Failed(With(Answered, result))
                            THEN segment + 1 ELSE segment
    BY <1>10, AnswersAre
  <2>2. Answered.what # "see2"
    <3>1. Answered \in Awaited /\ Answered \in Due
      BY <1>10, AnswersAre
    <3>2. Answered \in Msg
      BY <3>1, Posted
    <3>3. ASSUME Answered.what = "see2" PROVE FALSE
      <4>1. Answered \in Of("seek")
        BY <3>2, <3>3, OtherKinds DEF Of
      <4>2. Count(pending, Of("seek")) # 0
        <5>1. BoxTypes
          BY DEF TypeOK
        <5>2. Count(pending, Of("seek")) = 0 <=> Due \cap Of("seek") = {}
          BY <5>1, MailTypes
        <5> QED
          BY <3>1, <4>1, <5>2
      <4>3. /\ Count(pending, Of("seek")) \in Nat /\ Count(mailbox, Of("seek")) \in Nat
            /\ Flying["seek"] = Count(mailbox, Of("seek")) + Count(pending, Of("seek"))
        BY FlyingTypes, MailTypes DEF Kinds, Total, TypeOK
      <4>4. Flying["seek"] = 0
        BY OnlyAttempt
      <4> QED
        BY <4>2, <4>3, <4>4
    <3> QED
      BY <3>3
  <2>3. Quiet'
    <3>1. segment' = segment
      BY <2>1, <2>2
    <3> QED
      BY <1>1, <1>5, <3>1 DEF UnfedInv, Quiet, NoFeed, EmptySources
  <2>4. CASE Answered.what = "play" /\ serving'
    <3>1. Flying["play"] \in Nat /\ Flying["setup"] \in Nat /\ Flying["retry"] \in Nat
          /\ Flying["tiou"] \in Nat /\ Waiting \in {0, 1}
      BY Numbers DEF Kinds
    <3>2. Flying["play"] <= 1
      BY <3>1, OnlyAttempt
    <3>3. Flying["play"] = 1 /\ ~Starting'
      BY <1>10, <2>4, <3>2, OnlyPlay
    <3>4. /\ Attempts = 1 /\ Flying["setup"] = 0 /\ Flying["exit"] = 0
          /\ handler.doneMsg = "cdon"
      BY <3>3, OnlyAttempt
    <3>5. ~SettingUp' /\ ~Over' /\ ~Lost'
      BY <1>1, <1>5, <3>3, <3>4 DEF SettingUp, Over, Lost
    <3>6. Flying'["retry"] > 0 \/ ~handler'.tryTCP => NoInjected'
      BY <1>1, <1>5, <1>8 DEF UnfedInv
    <3> QED
      BY <1>1, <1>5, <1>7, <1>8, <2>3, <3>4, <3>5, <3>6 DEF UnfedInv
  <2>5. CASE ~(Answered.what = "play" /\ serving')
    <3>1. serving' => serving
      BY <2>1, <2>2, <2>5
    <3> QED
      BY <1>1, <1>5, <1>7, <1>8, <2>3, <3>1, StaysUnfed
  <2> QED
    BY <2>4, <2>5
<1> QED
  BY <1>3, <1>9, <1>10

LEMMA UnfedOthers ==
  ASSUME TypeOK, SeekInv, UnfedInv, ~Fed, crashed = Alive, crashed' = Alive,
         NetworkStep \/ ControllerStep
  PROVE  UnfedInv'
<1>1. UNCHANGED <<handler, tracks, source, timers, player, segment, serving>>
  BY DEF NetworkStep, NetFrame, ControllerStep, LooperFrame, ControllerFrame,
         serverVars, sessionVars, playerVars
<1>2. Quiet /\ Untold
  BY DEF UnfedInv
<1>3. ASSUME \A k \in Kinds \ {"refusal"} : Flying'[k] = Flying[k],
             Starting' => Starting, state' # "connected", seekDone' = seekDone,
             NoFeed', NoInjected => NoInjected'
      PROVE  UnfedInv'
  <2>1. /\ Flying'["setup"] = Flying["setup"] /\ Flying'["play"] = Flying["play"]
        /\ Flying'["retry"] = Flying["retry"] /\ Flying'["tiou"] = Flying["tiou"]
        /\ Flying'["exit"] = Flying["exit"]
        /\ \A k \in {"check", "abort", "media", "told", "ended"} : Flying'[k] = Flying[k]
    BY <1>3 DEF Kinds
  <2>2. Attempts' = Attempts /\ (SettingUp' => SettingUp)
    BY <1>1, <1>3, <2>1 DEF Attempts, Waiting, SettingUp
  <2>3. Untold'
    BY <1>1, <1>2, <1>3, <2>1 DEF Untold
  <2>4. Quiet'
    BY <1>1, <1>2, <1>3, <2>1 DEF Quiet, EmptySources
  <2> QED
    BY <1>1, <1>3, <2>1, <2>2, <2>3, <2>4, StaysUnfed
<1>4. CASE NetworkStep
  <2>1. UNCHANGED <<state, seekDone>>
    BY <1>4 DEF NetworkStep, NetFrame, playerVars
  <2>2. NoFeed' /\ (NoInjected => NoInjected') /\ UNCHANGED <<mailbox, pending>>
    BY <1>2, <1>4, NetworkQuiet DEF Quiet
  <2>3. Flying' = Flying /\ Starting' = Starting
    BY <2>2 DEF Starting, Mail, Due, Flying, Total, Count, Occurs
  <2> QED
    BY <1>2, <1>3, <2>1, <2>2, <2>3 DEF Untold
<1>5. CASE ControllerStep
  <2>1. UNCHANGED <<netbox, streams, pending>> /\ mailbox # <<>> /\ TakesNone
    BY <1>5 DEF ControllerStep, LooperFrame, ControllerFrame, serverVars, Posts,
                TakesNone
  <2>2. Drains(Kind(Current)) /\ Current \in Msg
    BY <2>1, HandledMoves
  <2>3. /\ Starting' => Starting
        /\ Flying[Kind(Current)] >= 1
        /\ \A k \in Kinds \ {Kind(Current)} : Flying'[k] = Flying[k]
    BY <2>2, DealsAt
  <2>4. Flying["told"] = 0 /\ Flying["ended"] = 0 /\ Flying["seek"] = 0
    BY <1>2, OnlyAttempt DEF Untold
  <2>5. Kind(Current) \notin {"told", "ended", "seek"}
    BY <2>3, <2>4
  <2>6. OnConnectDone /\ Failed(Current)
    BY <1>5, <2>2, <2>5, OtherKinds DEF ControllerStep, OnConnectDone,
                                        OnDisconnectDone, OnSeekDone
  <2>7. Kind(Current) = "refusal" /\ state' = "disconnected" /\ seekDone' = seekDone
    BY <2>2, <2>6, OtherKinds DEF OnConnectDone
  <2>8. NoFeed' /\ (NoInjected => NoInjected')
    BY <1>2, <2>1 DEF Quiet, NoFeed, NoInjected
  <2> QED
    BY <1>3, <2>3, <2>7, <2>8
<1> QED
  BY <1>4, <1>5

LEMMA UnfedWaits ==
  ASSUME TypeOK, SeekInv, PlayerInv, UnfedInv, crashed = Alive, crashed' = Alive,
         WaitStep \/ SeekStep
  PROVE  UnfedInv'
<1>1. /\ UNCHANGED <<pending, serving, segment, streams, conn>>
      /\ player \in {"new", "connecting", "refused"} /\ state # "connected"
      /\ Quiet /\ Untold
  BY DEF WaitStep, SeekStep, PlayerFrame, serverVars, UnfedInv, Untold
<1>2. CASE SeekStep
  BY <1>1, <1>2 DEF SeekStep, Seek
<1>3. CASE WaitStep /\ Prepare
  <2>1. /\ Unused /\ player' = "connecting" /\ state' = "connecting"
        /\ handler' = [handler EXCEPT !.doneMsg = "cdon"]
        /\ mailbox' = Append(mailbox, Connect)
        /\ UNCHANGED <<tracks, source, timers, seekDone, netbox>>
    BY <1>3 DEF Prepare, PlayerInv, WaitStep, WaitFrame
  <2>2. ASSUME NEW k \in Kinds PROVE Flying[k] = 0
    <3>1. Count(<<>>, Of(k)) = 0
      BY CountEmpty
    <3>2. Flying[k] = Count(mailbox, Of(k)) + Count(pending, Of(k))
      BY FlyingTypes DEF Total
    <3>3. mailbox = <<>> /\ pending = <<>>
      BY <2>1 DEF Unused
    <3> QED
      BY <3>1, <3>2, <3>3
  <2>3. Gains("setup") /\ (Starting' => Starting)
    <3>1. Connect \in Msg /\ Connect.what # "play" /\ Kind(Connect) = "setup"
      BY Posted, FormKinds DEF Connect
    <3>2. Gains(Kind(Connect)) /\ (Starting' => Starting)
      BY <1>1, <2>1, <3>1, PostingMoves
    <3> QED
      BY <3>1, <3>2
  <2>4. /\ Flying'["setup"] = 1 /\ Flying'["play"] = 0 /\ Flying'["retry"] = 0
        /\ Flying'["tiou"] = 0 /\ Flying'["exit"] = 0
        /\ \A k \in {"check", "abort", "media", "told", "ended"} : Flying'[k] = 0
    BY <2>2, <2>3 DEF Gains, Kinds
  <2>5. Waiting' = 0
    BY <2>1 DEF Waiting, Unused
  <2>6. Attempts' = 1
    BY <2>4, <2>5 DEF Attempts
  <2>7. /\ handler'.doneMsg = "cdon" /\ handler'.tryTCP = handler.tryTCP
        /\ handler'.firstUnit = handler.firstUnit
        /\ handler'.checkPending = handler.checkPending
        /\ handler'.seekPending = handler.seekPending
        /\ handler'.gotRTP = handler.gotRTP
    BY <2>1 DEF TypeOK, SessionTypes, HandlerType
  <2>8. Quiet'
    BY <1>1, <2>1, <2>4, <2>7 DEF Quiet, NoFeed, EmptySources
  <2>9. Untold'
    BY <2>1, <2>4 DEF Untold
  <2>10. NoInjected'
    <3>1. NoInjected
      BY <2>1 DEF UnfedInv, Unused
    <3> QED
      BY <1>1, <2>1, <3>1 DEF NoInjected
  <2>11. ~serving' /\ ~Over'
    BY <1>1, <2>1 DEF Unused, Over
  <2> QED
    BY <2>4, <2>6, <2>7, <2>8, <2>9, <2>10, <2>11 DEF UnfedInv
<1>4. CASE WaitStep /\ ConnectReturns
  <2>1. /\ player' = "refused"
        /\ UNCHANGED <<handler, tracks, source, timers, mailbox, state, seekDone,
                       netbox>>
    <3>1. state = "disconnected"
      BY <1>1, <1>4 DEF ConnectReturns, TypeOK, PlayerTypes
    <3>2. player' = CASE state = "disconnected" -> "refused"
                      [] state = "connected" /\ tracks = <<>> -> "failed"
                      [] OTHER -> "preparing"
      BY <1>4 DEF ConnectReturns
    <3>3. player' = "refused"
      BY <3>1, <3>2
    <3> QED
      BY <1>4, <3>3 DEF ConnectReturns, WaitStep, WaitFrame, sessionVars
  <2>2. Flying' = Flying /\ Starting' = Starting
    BY <1>1, <2>1 DEF Starting, Mail, Due, Flying, Total, Count, Occurs
  <2>3. Attempts' = Attempts /\ SettingUp' = SettingUp
    BY <2>1, <2>2 DEF Attempts, Waiting, SettingUp
  <2>4. Quiet' /\ Untold' /\ (NoInjected => NoInjected')
    BY <1>1, <2>1, <2>2 DEF Quiet, Untold, NoFeed, EmptySources, NoInjected
  <2> QED
    BY <1>1, <2>1, <2>2, <2>3, <2>4, StaysUnfed
<1> QED
  BY <1>1, <1>2, <1>3, <1>4 DEF WaitStep, BufferingUpdate, DisconnectReturns, Play,
                               Decode, StreamDone, Reset

\* The timeout of the first attempt comes.
LEMMA UnfedExpires ==
  ASSUME TypeOK, SeekInv, UnfedInv, ~Fed, crashed = Alive, NEW m \in timers, Expires(m)
  PROVE  UnfedInv'
<1>1. /\ m = Tiou /\ timers \subseteq {Tiou} /\ Quiet /\ Untold
  BY DEF UnfedInv, Quiet
<1>2. /\ mailbox' = Append(mailbox, Tiou) /\ timers' = timers \ {Tiou}
      /\ UNCHANGED <<pending, handler, tracks, source, netbox, streams, serving,
                     segment, player, state, seekDone>>
  BY <1>1 DEF Expires, serverVars, playerVars, netVars
<1>3. Waiting = 1 /\ Waiting' = 0
  BY <1>1, <1>2 DEF Waiting
<1>4. Gains("tiou") /\ (Starting' => Starting)
  <2>1. Tiou \in Msg /\ Tiou.what # "play" /\ Kind(Tiou) = "tiou"
    BY Posted, FormKinds DEF Tiou
  <2>2. Gains(Kind(Tiou)) /\ (Starting' => Starting)
    BY <1>2, <2>1, PostingMoves
  <2> QED
    BY <2>1, <2>2
<1>5. \A k \in Kinds \ {"tiou"} : Flying'[k] = Flying[k]
  <2>1. \A k \in Kinds : Flying[k] \in Nat
    BY Numbers
  <2> QED
    BY <1>4, <2>1 DEF Gains
<1>6. Flying'["tiou"] = 1 /\ \A k \in {"setup", "play", "retry", "tiou"} : Flying[k] = 0
  <2>1. \A k \in {"setup", "play", "retry", "tiou"} : Flying[k] = 0
    BY <1>3, OnlyAttempt
  <2>2. Flying'["tiou"] = Flying["tiou"] + 1
    BY <1>4 DEF Gains, Kinds
  <2> QED
    BY <2>1, <2>2
<1>7. /\ Flying'["setup"] = 0 /\ Flying'["play"] = 0 /\ Flying'["retry"] = 0
      /\ Flying["setup"] = 0 /\ Flying["play"] = 0 /\ Flying["retry"] = 0
      /\ Flying["tiou"] = 0
      /\ Flying'["exit"] = Flying["exit"]
      /\ \A k \in {"check", "abort", "media", "told", "ended"} : Flying'[k] = Flying[k]
  BY <1>5, <1>6 DEF Kinds
<1>8. Attempts' = Attempts
  BY <1>3, <1>6, <1>7 DEF Attempts
<1>9. SettingUp' => SettingUp
  BY <1>4, <1>7 DEF SettingUp
<1>10. Quiet' /\ Untold' /\ (NoInjected => NoInjected')
  BY <1>1, <1>2, <1>7 DEF Quiet, Untold, NoFeed, EmptySources, NoInjected
<1> QED
  BY <1>2, <1>7, <1>8, <1>9, <1>10, StaysUnfed

LEMMA UnfedStays ==
  ASSUME TypeOK, SeekInv, PlayerInv, UnfedInv, ~Fed, crashed = Alive, Next,
         crashed' = Alive, SessionAssumption
  PROVE  UnfedInv'
<1>1. player \notin {"refused", "gone"}
  BY Steps
<1>2. CASE HandlerStep
  BY <1>1, <1>2, UnfedHandler DEF UnfedStep
<1> QED
  BY <1>2, UnfedConnection, UnfedServer, UnfedOthers, UnfedWaits, UnfedExpires, Steps
     DEF FailStep

-----------------------------------------------------------------------------
(* What the player is told.                                                *)

Tellings == {"told", "refusal", "ended"}
SameTellings == \A k \in Tellings : Flying'[k] = Flying[k]

LEMMA MovesTellNothing ==
  ASSUME TypeOK
  PROVE  /\ \A j, l : Deals(j, l) /\ j \notin Tellings /\ l \notin Tellings => SameTellings
         /\ \A j : Drains(j) /\ j \notin Tellings => SameTellings
<1>1. Tellings \subseteq Kinds
  BY DEF Tellings, Kinds
<1> QED
  BY <1>1, DealsAt DEF SameTellings

\* A handler tells the player what doneMsg says, and forgets it.
LEMMA HandlerTells ==
  ASSUME TypeOK, HandlerStep, crashed' = Alive, SessionAssumption
  PROVE  /\ state' = state /\ player' = player
         /\ \/ SameTellings /\ handler'.doneMsg = handler.doneMsg
               /\ (OnAccessUnit => handler'.firstUnit = handler.firstUnit)
            \/ /\ OnQuit /\ Flying["exit"] >= 1
               /\ handler'.doneMsg = None /\ tracks' = tracks
               /\ \/ handler.doneMsg = "cdon" /\ Deals("exit", "refusal")
                  \/ handler.doneMsg = "ddon" /\ Deals("exit", "ended")
            \/ /\ OnAccessUnit /\ tracks # <<>> /\ handler.firstUnit /\ ~handler'.firstUnit
               /\ handler'.doneMsg = None
               /\ \/ handler.doneMsg = "cdon" /\ Deals("media", "told")
                  \/ handler.doneMsg = "ddon" /\ Deals("media", "ended")
<1> DEFINE Plainly == SameTellings /\ handler'.doneMsg = handler.doneMsg
           Goal == \/ Plainly /\ (OnAccessUnit => handler'.firstUnit = handler.firstUnit)
                   \/ /\ OnQuit /\ Flying["exit"] >= 1
                      /\ handler'.doneMsg = None /\ tracks' = tracks
                      /\ \/ handler.doneMsg = "cdon" /\ Deals("exit", "refusal")
                         \/ handler.doneMsg = "ddon" /\ Deals("exit", "ended")
                   \/ /\ OnAccessUnit /\ tracks # <<>> /\ handler.firstUnit
                      /\ ~handler'.firstUnit /\ handler'.doneMsg = None
                      /\ \/ handler.doneMsg = "cdon" /\ Deals("media", "told")
                         \/ handler.doneMsg = "ddon" /\ Deals("media", "ended")
<1>1. state' = state /\ player' = player
  BY HandlerLeaves
<1>2. /\ \A j, l : Deals(j, l) /\ j \notin Tellings /\ l \notin Tellings => SameTellings
      /\ \A j : Drains(j) /\ j \notin Tellings => SameTellings
  BY MovesTellNothing
<1> SUFFICES Goal
  BY <1>1
<1>3. CASE OnConn \/ OnDisc \/ OnDesc \/ OnSetu
  <2>1. \E j, l \in {"setup", "exit"} : Deals(j, l)
    BY <1>3, SetupMoves
  <2>2. handler'.doneMsg = handler.doneMsg
    BY <1>3, HandlerFields
  <2>3. ~OnAccessUnit
    BY <1>3 DEF OnConn, OnDisc, OnDesc, OnSetu, OnAccessUnit
  <2> QED
    BY <1>2, <2>1, <2>2, <2>3 DEF Tellings
<1>4. CASE OnPlay \/ OnAbor \/ OnTear
  <2>1. \/ \E j, l \in {"play", "retry", "exit", "abort"} : Deals(j, l)
        \/ Drains("play")
    BY <1>4, PlayMoves
  <2>2. handler'.doneMsg = handler.doneMsg
    BY <1>4, HandlerFields
  <2>3. ~OnAccessUnit
    BY <1>4 DEF OnPlay, OnAbor, OnTear, OnAccessUnit
  <2> QED
    BY <1>2, <2>1, <2>2, <2>3 DEF Tellings
<1>5. CASE OnQuit
  <2>1. /\ handler.doneMsg \in {None, "cdon", "ddon"}
        /\ None \notin {"cdon", "ddon"} /\ handler \in HandlerType
    BY DEF TypeOK, SessionTypes, HandlerType, None
  <2>2. handler'.doneMsg = None /\ tracks' = tracks
    <3>1. handler' = [handler EXCEPT !.doneMsg = None] /\ tracks' = tracks
      BY <1>5, HandlerFields
    <3> QED
      BY <2>1, <3>1 DEF HandlerType
  <2>3. ~OnAccessUnit
    BY <1>5 DEF OnQuit, OnAccessUnit
  <2>4. CASE handler.doneMsg = None
    <3>1. Drains("exit")
      BY <1>5, <2>1, <2>4, PlayMoves
    <3> QED
      BY <1>2, <2>2, <2>3, <2>4, <3>1 DEF Tellings
  <2>5. CASE handler.doneMsg = "cdon"
    <3>1. Deals("exit", "refusal")
      BY <1>5, <2>5, PlayMoves
    <3>2. Flying["exit"] >= 1
      BY <3>1, DealsAt
    <3> QED
      BY <1>5, <2>2, <2>5, <3>1, <3>2
  <2>6. CASE handler.doneMsg = "ddon"
    <3>1. Deals("exit", "ended")
      BY <1>5, <2>6, PlayMoves
    <3>2. Flying["exit"] >= 1
      BY <3>1, DealsAt
    <3> QED
      BY <1>5, <2>2, <2>6, <3>1, <3>2
  <2> QED
    BY <2>1, <2>4, <2>5, <2>6
<1>6. CASE OnAccessUnit
  <2>1. \/ (~Wanted(Current) \/ ~handler.firstUnit) /\ Drains("media")
        \/ /\ Wanted(Current) /\ handler.firstUnit
           /\ \/ handler.doneMsg = "cdon" /\ Deals("media", "told")
              \/ handler.doneMsg = "ddon" /\ Deals("media", "ended")
    BY <1>6, MediaMoves
  <2>2. \/ /\ handler'.firstUnit = handler.firstUnit
           /\ handler'.doneMsg = handler.doneMsg
           /\ ~Wanted(Current) \/ ~handler.firstUnit
        \/ /\ handler'.firstUnit = FALSE /\ handler'.doneMsg = None
           /\ Wanted(Current) /\ handler.firstUnit
    BY <1>6, HandlerFields
  <2>3. Wanted(Current) => tracks # <<>>
    BY EmptySeq DEF Wanted
  <2>4. CASE ~Wanted(Current) \/ ~handler.firstUnit
    <3>1. SameTellings
      BY <1>2, <2>1, <2>4 DEF Tellings
    <3> QED
      BY <2>2, <2>4, <3>1
  <2>5. CASE Wanted(Current) /\ handler.firstUnit
    BY <1>6, <2>1, <2>2, <2>3, <2>5
  <2> QED
    BY <2>4, <2>5
<1>7. CASE OnChek \/ OnFirstPacket \/ OnSeek \/ OnSee1 \/ OnBiny \/ OnTiou
  <2>1. \/ \E j, l \in {"check", "abort", "seek", "tiou", "retry"} : Deals(j, l)
        \/ \E j \in {"check", "media", "tiou"} : Drains(j)
    BY <1>7, MediaMoves
  <2>2. handler'.doneMsg = handler.doneMsg
    BY <1>7, HandlerFields
  <2>3. ~OnAccessUnit
    BY <1>7 DEF OnChek, OnFirstPacket, OnSeek, OnSee1, OnBiny, OnTiou, OnAccessUnit
  <2> QED
    BY <1>2, <2>1, <2>2, <2>3 DEF Tellings
<1>8. CASE OnSee2
  <2>1. \/ Deals("seek", "seek")
        \/ \A k \in Kinds : Flying'[k] = Flying[k] + (IF k = "abort" THEN 1 ELSE 0)
    BY <1>8, MediaMoves
  <2>2. handler'.doneMsg = handler.doneMsg
    BY <1>8, HandlerFields
  <2>3. ~OnAccessUnit
    BY <1>8 DEF OnSee2, OnAccessUnit
  <2>4. SameTellings
    <3>1. \A k \in Kinds : Flying[k] \in Nat
      BY Numbers
    <3> QED
      BY <1>2, <2>1, <3>1 DEF Tellings, SameTellings, Kinds
  <2> QED
    BY <2>2, <2>3, <2>4
<1> QED
  BY <1>3, <1>4, <1>5, <1>6, <1>7, <1>8 DEF HandlerStep, Handler

\* The other steps tell nothing, but for the controller's.
LEMMA OthersTell ==
  ASSUME TypeOK, ConnectionStep \/ NetworkStep \/ ServerStep \/ SeekStep
                 \/ (\E m \in timers : Expires(m)),
         crashed' = Alive
  PROVE  SameTellings /\ UNCHANGED <<handler, tracks, state, player>>
<1>1. \A k \in Kinds : Flying[k] \in Nat
  BY Numbers
<1>2. CASE ConnectionStep
  <2>1. UNCHANGED <<handler, tracks, state, player>>
    BY <1>2 DEF ConnectionStep, ConnectionFrame, sessionVars, playerVars
  <2>2. CASE \E k \in {"setup", "exit", "retry", "seek"} : Deals(k, k)
    BY <2>1, <2>2, MovesTellNothing DEF Tellings
  <2>3. CASE Deals("retry", "setup")
    BY <2>1, <2>3, MovesTellNothing DEF Tellings
  <2>4. CASE Turns("setup", "play")
    BY <1>1, <2>1, <2>4 DEF Tellings, SameTellings, Turns, Kinds
  <2> QED
    BY <1>2, <2>2, <2>3, <2>4, ConnectionMoves
<1>3. CASE NetworkStep \/ ServerStep
  <2>1. UNCHANGED <<handler, tracks, state, player>>
    BY <1>3 DEF NetworkStep, NetFrame, ServerStep, ServerFrame, sessionVars, playerVars
  <2>2. \A k \in Kinds \ {"media"} : Flying'[k] = Flying[k]
    BY <1>3, MediaKinds
  <2> QED
    BY <2>1, <2>2 DEF Tellings, SameTellings, Kinds
<1>4. ASSUME NEW x \in Msg, mailbox' = Append(mailbox, x), pending' = pending,
             Kind(x) \notin Tellings
      PROVE  SameTellings
  <2>1. Gains(Kind(x))
    BY <1>4, KindPosts
  <2> QED
    BY <1>1, <1>4, <2>1 DEF Gains, SameTellings, Tellings, Kinds
<1>5. CASE SeekStep
  <2>1. /\ mailbox' = Append(mailbox, [what |-> "seek"])
        /\ UNCHANGED <<handler, tracks, state, player, pending>>
    BY <1>5 DEF SeekStep, Seek, Dies, Alive, PlayerFrame, serverVars, sessionVars
  <2>2. [what |-> "seek"] \in Msg /\ Kind([what |-> "seek"]) = "seek"
    BY Posted, FormKinds
  <2> QED
    BY <1>4, <2>1, <2>2 DEF Tellings
<1>6. ASSUME NEW m \in timers, Expires(m)
      PROVE  SameTellings /\ UNCHANGED <<handler, tracks, state, player>>
  <2>1. /\ mailbox' = Append(mailbox, m)
        /\ UNCHANGED <<handler, tracks, state, player, pending>>
    BY <1>6 DEF Expires, serverVars, playerVars
  <2>2. m \in {Tiou} \cup CheckMsgs /\ m \in Msg
    BY Posted DEF TypeOK, BoxTypes
  <2>3. Kind(m) \in {"tiou", "check"}
    BY <2>2, OtherKinds DEF Tiou, CheckMsgs
  <2> QED
    BY <1>4, <2>1, <2>2, <2>3 DEF Tellings
<1> QED
  BY <1>2, <1>3, <1>5, <1>6

\* A new player has nothing to do but to connect.
LEMMA NewPlayer ==
  ASSUME TypeOK, PlayerInv, player = "new", Next, crashed' = Alive
  PROVE  WaitStep /\ Prepare
<1>1. Unused
  BY DEF PlayerInv
<1>2. ~ConnectionStep /\ ~HandlerStep /\ ~ControllerStep /\ ~NetworkStep
  BY <1>1 DEF Unused, ConnectionStep, HandlerStep, ControllerStep, NetworkStep
<1>3. ~ServerStep
  BY <1>1 DEF Unused, ServerStep, ServerAnswers, ConnectionLost, ServerSendsInterleaved
<1>4. WaitStep
  BY <1>1, <1>2, <1>3, Steps DEF SeekStep, Seek, Unused, FailStep
<1> QED
  BY <1>4 DEF WaitStep, ConnectReturns, BufferingUpdate, DisconnectReturns, Play, Decode,
              StreamDone, Reset

LEMMA FedIs ==
  ASSUME TypeOK, Fed
  PROVE  /\ Flying["setup"] = 0
         /\ Flying["exit"] >= 1 => tracks = <<>>
         /\ tracks # <<>> /\ handler.firstUnit => handler.doneMsg = "cdon"
<1>1. Flying["setup"] \in Nat /\ Flying["exit"] \in Nat
  BY Numbers DEF Kinds
<1> QED
  BY <1>1 DEF Fed, SettingUp, Lost, Over

\* A fed session gets no more tracks, and waits for no other first unit.
LEMMA FedTracks ==
  ASSUME TypeOK, Fed, HandlerStep, crashed' = Alive, SessionAssumption
  PROVE  /\ tracks = <<>> => tracks' = <<>>
         /\ tracks' # <<>> /\ handler'.firstUnit => tracks # <<>> /\ handler.firstUnit
<1>1. ~OnDesc /\ ~OnSetu
  <2>1. Flying["setup"] = 0
    BY FedIs
  <2>2. \A l \in {"setup", "exit"} : ~Deals("setup", l)
    BY <2>1, DealsAt
  <2> QED
    BY <2>2, SetupMoves
<1>2. OnQuit => handler'.firstUnit = handler.firstUnit /\ tracks' = tracks
  <2>1. handler \in HandlerType
    BY Numbers
  <2> QED
    BY <2>1, HandlerFields DEF HandlerType
<1> QED
  BY <1>1, <1>2, HandlerFields DEF HandlerStep, Handler

\* While a session that plays waits for its first unit connect() has not
\* returned.
LEMMA UntoldKept ==
  ASSUME TypeOK, PlayerInv, Fed, crashed = Alive, Next, crashed' = Alive,
         SessionAssumption, tracks' # <<>>, handler'.firstUnit
  PROVE  Untold'
<1>1. /\ player \notin {"refused", "gone"}
      /\ Flying["told"] \in Nat /\ Flying["refusal"] \in Nat /\ Flying["ended"] \in Nat
      /\ Flying["exit"] \in Nat
  BY Steps, Numbers DEF Kinds
<1>2. CASE tracks = <<>> \/ ~handler.firstUnit
  <2>1. ~HandlerStep
    BY <1>2, FedTracks
  <2>2. tracks' = tracks /\ handler'.firstUnit = handler.firstUnit
    <3>1. CASE ControllerStep
      BY <3>1 DEF ControllerStep, ControllerFrame, sessionVars
    <3>2. CASE WaitStep
      <4>1. tracks' = tracks /\ (handler' = handler
                                 \/ \E d : handler' = [handler EXCEPT !.doneMsg = d])
        BY <3>2 DEF WaitStep, Prepare, ConnectReturns, BufferingUpdate,
                DisconnectReturns, Play, Decode, StreamDone, Reset, sessionVars
      <4> QED
        BY <4>1 DEF TypeOK, SessionTypes, HandlerType
    <3> QED
      BY <2>1, <3>1, <3>2, OthersTell, Steps DEF FailStep
  <2> QED
    BY <1>2, <2>2
<1>3. CASE tracks # <<>> /\ handler.firstUnit
  <2>1. player = "connecting" /\ Connecting /\ handler.doneMsg = "cdon"
    BY <1>1, <1>3, FedIs DEF PlayerInv, Untold, Unused
  <2>2. /\ Flying["told"] = 0 /\ Flying["refusal"] = 0 /\ Flying["ended"] = 0
        /\ state = "connecting"
    BY <1>1, <2>1 DEF Connecting, Bit
  <2>3. ASSUME SameTellings, state' = state, player' = player PROVE Untold'
    BY <2>1, <2>2, <2>3 DEF Untold, SameTellings, Tellings
  <2>4. CASE HandlerStep
    <3>1. SameTellings /\ state' = state /\ player' = player
      <4>1. ~(Flying["exit"] >= 1)
        BY <1>3, FedIs
      <4> QED
        BY <2>4, <4>1, HandlerTells
    <3> QED
      BY <2>3, <3>1
  <2>5. CASE ControllerStep
    <3>1. /\ TakesNone /\ mailbox # <<>> /\ UNCHANGED <<pending, player>>
      BY <2>5 DEF ControllerStep, LooperFrame, ControllerFrame, serverVars, Posts,
                  TakesNone
    <3>2. Drains(Kind(Current)) /\ Current \in Msg
      BY <3>1, HandledMoves
    <3>3. Flying[Kind(Current)] >= 1
      BY <3>2, DealsAt
    <3>4. Kind(Current) \notin Tellings
      BY <2>2, <3>3 DEF Tellings
    <3>5. OnSeekDone
      BY <2>5, <3>2, <3>4, OtherKinds DEF ControllerStep, OnConnectDone,
                                   OnDisconnectDone, Tellings
    <3>6. SameTellings
      BY <3>2, <3>4, MovesTellNothing
    <3> QED
      BY <2>3, <3>1, <3>5, <3>6 DEF OnSeekDone
  <2>6. CASE WaitStep
    BY <2>1, <2>2, <2>6 DEF WaitStep, Prepare, ConnectReturns, BufferingUpdate,
              DisconnectReturns, Play, Decode, StreamDone, Reset
  <2> QED
    BY <2>3, <2>4, <2>5, <2>6, OthersTell, Steps DEF FailStep
<1> QED
  BY <1>2, <1>3

\* All but the last part of PlayerInv, of a player that is not new.
Knows == /\ player # "new"
         /\ player = "connecting" => Connecting
         /\ player \in {"failed", "preparing", "prepared"} => Prepared
         /\ player = "disconnecting" => Disconnecting

LEMMA KnowsAll ==
  ASSUME Knows, tracks # <<>> /\ handler.firstUnit => Untold
  PROVE  PlayerInv
BY DEF Knows, PlayerInv

\* A step that tells nothing.
LEMMA NothingTold ==
  ASSUME PlayerInv, player # "new", SameTellings, handler'.doneMsg = handler.doneMsg,
         state' = state, player' = player,
         player = "disconnecting" /\ tracks = <<>> => tracks' = <<>>
  PROVE  Knows'
<1>1. /\ Flying'["told"] = Flying["told"] /\ Flying'["refusal"] = Flying["refusal"]
      /\ Flying'["ended"] = Flying["ended"]
  BY DEF SameTellings, Tellings
<1>2. player = "connecting" => Connecting'
  BY <1>1 DEF PlayerInv, Connecting
<1>3. player \in {"failed", "preparing", "prepared"} => Prepared'
  BY <1>1 DEF PlayerInv, Prepared
<1>4. player = "disconnecting" => Disconnecting'
  BY <1>1 DEF PlayerInv, Disconnecting
<1> QED
  BY <1>2, <1>3, <1>4 DEF Knows

LEMMA HandlerKnows ==
  ASSUME TypeOK, PlayerInv, Fed \/ UnfedInv, player # "new", HandlerStep,
         crashed' = Alive, SessionAssumption
  PROVE  Knows'
<1>1. /\ Flying["told"] \in Nat /\ Flying["refusal"] \in Nat /\ Flying["ended"] \in Nat
      /\ None \notin {"cdon", "ddon"}
  BY Numbers DEF Kinds, None
<1>2. state' = state /\ player' = player
  BY HandlerTells
<1>3. player = "disconnecting" => Fed /\ ~(tracks # <<>> /\ handler.firstUnit)
  BY DEF UnfedInv, Untold, PlayerInv
<1>4. player = "disconnecting" /\ tracks = <<>> => tracks' = <<>>
  BY <1>3, FedTracks
<1>5. CASE SameTellings /\ handler'.doneMsg = handler.doneMsg
  BY <1>2, <1>4, <1>5, NothingTold
<1>6. CASE /\ OnQuit /\ Flying["exit"] >= 1
           /\ handler'.doneMsg = None /\ tracks' = tracks
           /\ \/ handler.doneMsg = "cdon" /\ Deals("exit", "refusal")
              \/ handler.doneMsg = "ddon" /\ Deals("exit", "ended")
  <2>1. CASE handler.doneMsg = "cdon" /\ Deals("exit", "refusal")
    <3>1. /\ Flying'["told"] = Flying["told"] /\ Flying'["ended"] = Flying["ended"]
          /\ Flying'["refusal"] = Flying["refusal"] + 1
      BY <2>1, DealsAt DEF Kinds
    <3>2. player \notin {"failed", "preparing", "prepared", "disconnecting"}
      BY <1>1, <2>1 DEF PlayerInv, Prepared, Disconnecting
    <3>3. player = "connecting" => Connecting'
      BY <1>1, <1>2, <1>6, <2>1, <3>1 DEF PlayerInv, Connecting, Bit
    <3> QED
      BY <1>2, <3>2, <3>3 DEF Knows
  <2>2. CASE handler.doneMsg = "ddon" /\ Deals("exit", "ended")
    <3>1. /\ Flying'["told"] = Flying["told"]
          /\ Flying'["refusal"] = Flying["refusal"]
      BY <2>2, DealsAt DEF Kinds
    <3>2. player \notin {"failed", "preparing", "prepared", "connecting"}
      BY <1>1, <2>2 DEF PlayerInv, Prepared, Connecting
    <3>3. player = "disconnecting" => tracks' = <<>>
      BY <1>3, <1>6, FedIs
    <3>4. player = "disconnecting" => Disconnecting'
      BY <1>1, <1>2, <1>6, <3>1, <3>3 DEF PlayerInv, Disconnecting
    <3> QED
      BY <1>2, <3>2, <3>4 DEF Knows
  <2> QED
    BY <1>6, <2>1, <2>2
<1>7. CASE /\ OnAccessUnit /\ tracks # <<>> /\ handler.firstUnit /\ ~handler'.firstUnit
           /\ handler'.doneMsg = None
           /\ \/ handler.doneMsg = "cdon" /\ Deals("media", "told")
              \/ handler.doneMsg = "ddon" /\ Deals("media", "ended")
  <2>1. player \in {"connecting", "refused"}
    BY <1>7 DEF PlayerInv, Untold
  <2>2. CASE player = "refused"
    BY <1>2, <2>2 DEF Knows
  <2>3. CASE player = "connecting"
    <3>1. handler.doneMsg = "cdon" /\ Deals("media", "told")
      BY <1>7, <2>3 DEF PlayerInv, Connecting
    <3>2. /\ Flying'["refusal"] = Flying["refusal"] /\ Flying'["ended"] = Flying["ended"]
          /\ Flying'["told"] = Flying["told"] + 1
      BY <3>1, DealsAt DEF Kinds
    <3>3. Connecting'
      BY <1>1, <1>2, <1>7, <2>3, <3>1, <3>2 DEF PlayerInv, Connecting, Bit
    <3> QED
      BY <1>2, <2>3, <3>3 DEF Knows
  <2> QED
    BY <2>1, <2>2, <2>3
<1> QED
  BY <1>5, <1>6, <1>7, HandlerTells

LEMMA ControllerKnows ==
  ASSUME TypeOK, PlayerInv, player # "new", ControllerStep
  PROVE  Knows'
<1>1. /\ Flying["told"] \in Nat /\ Flying["refusal"] \in Nat /\ Flying["ended"] \in Nat
      /\ state \in {"disconnected", "connecting", "connected"}
  BY Numbers DEF Kinds, TypeOK, PlayerTypes
<1>2. /\ TakesNone /\ mailbox # <<>>
      /\ UNCHANGED <<pending, player, handler, tracks>>
  BY DEF ControllerStep, LooperFrame, ControllerFrame, serverVars, sessionVars, Posts,
         TakesNone
<1>3. Drains(Kind(Current)) /\ Current \in Msg
  BY <1>2, HandledMoves
<1>4. CASE OnSeekDone
  <2>1. SameTellings
    <3>1. Kind(Current) = "seek"
      BY <1>3, <1>4, OtherKinds DEF OnSeekDone
    <3> QED
      BY <1>3, <3>1, MovesTellNothing DEF Tellings
  <2> QED
    BY <1>2, <1>4, <2>1, NothingTold DEF OnSeekDone
<1>5. CASE OnConnectDone
  <2>1. Kind(Current) \in {"told", "refusal"}
    BY <1>3, <1>5, OtherKinds DEF OnConnectDone
  <2>2. state' \in {"disconnected", "connected"}
    BY <1>5 DEF OnConnectDone
  <2>3. /\ Flying["told"] + Flying["refusal"] >= 1
        /\ Flying'["told"] + Flying'["refusal"] = Flying["told"] + Flying["refusal"] - 1
        /\ Flying'["ended"] = Flying["ended"]
        /\ Flying'["told"] \in Int /\ Flying'["refusal"] \in Int
    <3>1. CASE Kind(Current) = "told"
      <4>1. /\ Flying["told"] >= 1 /\ Flying'["told"] = Flying["told"] - 1
            /\ Flying'["refusal"] = Flying["refusal"] /\ Flying'["ended"] = Flying["ended"]
        BY <1>3, <3>1, DealsAt DEF Kinds
      <4> QED
        BY <1>1, <4>1
    <3>2. CASE Kind(Current) = "refusal"
      <4>1. /\ Flying["refusal"] >= 1 /\ Flying'["refusal"] = Flying["refusal"] - 1
            /\ Flying'["told"] = Flying["told"] /\ Flying'["ended"] = Flying["ended"]
        BY <1>3, <3>2, DealsAt DEF Kinds
      <4> QED
        BY <1>1, <4>1
    <3> QED
      BY <2>1, <3>1, <3>2
  <2>4. player \notin {"failed", "preparing", "prepared", "disconnecting"}
    BY <1>1, <2>3 DEF PlayerInv, Prepared, Disconnecting
  <2>5. player = "connecting" => Connecting'
    <3> SUFFICES ASSUME player = "connecting" PROVE Connecting'
      OBVIOUS
    <3>1. Connecting
      BY DEF PlayerInv
    <3>2. Bit(handler.doneMsg = "cdon") \in {0, 1} /\ Bit(state # "connecting") \in {0, 1}
      BY DEF Bit
    <3>3. /\ Flying["told"] + Flying["refusal"] = 1
          /\ Bit(handler.doneMsg = "cdon") = 0 /\ Bit(state # "connecting") = 0
      BY <1>1, <2>3, <3>1, <3>2 DEF Connecting
    <3>4. Bit(handler'.doneMsg = "cdon") = 0 /\ Bit(state' # "connecting") = 1
      BY <1>2, <2>2, <3>3 DEF Bit
    <3>5. Flying'["ended"] = 0 /\ handler'.doneMsg # "ddon"
      BY <1>2, <2>3, <3>1 DEF Connecting
    <3> DEFINE t == Flying'["told"]
               r == Flying'["refusal"]
               b == Bit(handler'.doneMsg = "cdon")
               c == Bit(state' # "connecting")
    <3>6. t \in Int /\ r \in Int /\ t + r = 0 /\ b = 0 /\ c = 1
      BY <1>1, <2>3, <3>3, <3>4
    <3>7. t + r + b + c = 1
      <4> HIDE DEF t, r, b, c
      <4> QED
        BY <3>6
    <3> QED
      BY <3>5, <3>7 DEF Connecting
  <2> QED
    BY <1>2, <2>4, <2>5 DEF Knows
<1>6. CASE OnDisconnectDone
  <2>1. Kind(Current) = "ended"
    BY <1>3, <1>6, OtherKinds DEF OnDisconnectDone
  <2>2. /\ Flying["ended"] >= 1
        /\ Flying'["told"] = Flying["told"] /\ Flying'["refusal"] = Flying["refusal"]
    BY <1>3, <2>1, DealsAt DEF Kinds
  <2>3. player \notin {"failed", "preparing", "prepared", "connecting"}
    BY <1>1, <2>2 DEF PlayerInv, Prepared, Connecting
  <2>4. player = "disconnecting" => Disconnecting'
    BY <1>1, <1>2, <2>2 DEF PlayerInv, Disconnecting
  <2> QED
    BY <1>2, <2>3, <2>4 DEF Knows
<1> QED
  BY <1>4, <1>5, <1>6 DEF ControllerStep

LEMMA WaitKnows ==
  ASSUME TypeOK, PlayerInv, WaitStep
  PROVE  Knows'
<1>1. /\ Flying["told"] \in Nat /\ Flying["refusal"] \in Nat /\ Flying["ended"] \in Nat
      /\ handler.doneMsg \in {None, "cdon", "ddon"} /\ None \notin {"cdon", "ddon"}
      /\ state \in {"disconnected", "connecting", "connected"}
      /\ handler \in HandlerType
  BY Numbers DEF Kinds, None, TypeOK, PlayerTypes, SessionTypes, HandlerType
<1>2. pending' = pending
  BY DEF WaitStep, PlayerFrame, serverVars
<1>3. ASSUME NEW x \in Msg, mailbox' = Append(mailbox, x), Kind(x) \notin Tellings
      PROVE  SameTellings
  <2>1. Gains(Kind(x))
    BY <1>2, <1>3, KindPosts
  <2>2. \A k \in Kinds : Flying[k] \in Nat
    BY Numbers
  <2> QED
    BY <1>3, <2>1, <2>2 DEF Gains, SameTellings, Tellings, Kinds
<1>4. ASSUME mailbox' = mailbox PROVE SameTellings
  <2>1. Flying' = Flying
    BY <1>2, <1>4 DEF Flying, Total, Count, Occurs
  <2> QED
    BY <2>1 DEF SameTellings
<1>5. ASSUME SameTellings
      PROVE  /\ Flying'["told"] = Flying["told"] /\ Flying'["ended"] = Flying["ended"]
             /\ Flying'["refusal"] = Flying["refusal"]
  BY <1>5 DEF SameTellings, Tellings
<1>6. CASE Prepare
  <2>1. /\ Unused /\ player' = "connecting" /\ state' = "connecting"
        /\ handler' = [handler EXCEPT !.doneMsg = "cdon"]
        /\ mailbox' = Append(mailbox, Connect)
    BY <1>6 DEF Prepare, PlayerInv
  <2>2. SameTellings
    <3>1. Connect \in Msg /\ Kind(Connect) = "setup"
      BY Posted, FormKinds
    <3> QED
      BY <1>3, <2>1, <3>1 DEF Tellings
  <2>3. ASSUME NEW k \in Kinds PROVE Flying[k] = 0
    <3>1. Count(<<>>, Of(k)) = 0
      BY CountEmpty
    <3>2. Flying[k] = Count(mailbox, Of(k)) + Count(pending, Of(k))
      BY FlyingTypes DEF Total
    <3>3. mailbox = <<>> /\ pending = <<>>
      BY <2>1 DEF Unused
    <3> QED
      BY <3>1, <3>2, <3>3
  <2>4. Flying'["told"] = 0 /\ Flying'["refusal"] = 0 /\ Flying'["ended"] = 0
    BY <1>5, <2>2, <2>3 DEF Kinds
  <2>5. handler'.doneMsg = "cdon"
    BY <1>1, <2>1 DEF HandlerType
  <2>6. Connecting'
    BY <2>1, <2>4, <2>5 DEF Connecting, Bit
  <2> QED
    BY <2>1, <2>6 DEF Knows
<1>7. CASE ConnectReturns
  <2>1. /\ Connecting /\ state # "connecting"
        /\ player' = CASE state = "disconnected" -> "refused"
                       [] state = "connected" /\ tracks = <<>> -> "failed"
                       [] OTHER -> "preparing"
        /\ UNCHANGED <<mailbox, handler, state>>
    BY <1>7 DEF ConnectReturns, PlayerInv, sessionVars
  <2>2. /\ Flying["told"] = 0 /\ Flying["refusal"] = 0 /\ Flying["ended"] = 0
        /\ handler.doneMsg = None
    BY <1>1, <2>1 DEF Connecting, Bit
  <2>3. Flying'["told"] = 0 /\ Flying'["refusal"] = 0 /\ Flying'["ended"] = 0
    BY <1>4, <1>5, <2>1, <2>2
  <2>4. state = "connected" => Prepared'
    BY <2>1, <2>2, <2>3 DEF Prepared
  <2>5. \/ player' = "refused"
        \/ state = "connected" /\ player' \in {"failed", "preparing"}
    <3>1. CASE state = "disconnected"
      BY <2>1, <3>1
    <3>2. CASE state = "connected" /\ tracks = <<>>
      BY <2>1, <3>2
    <3>3. CASE state = "connected" /\ tracks # <<>>
      BY <2>1, <3>3
    <3> QED
      BY <1>1, <2>1, <3>1, <3>2, <3>3
  <2> QED
    BY <2>4, <2>5 DEF Knows
<1>8. CASE BufferingUpdate \/ Play \/ Decode \/ StreamDone
  <2>1. /\ Prepared /\ player' \in {"preparing", "prepared"}
        /\ UNCHANGED <<mailbox, handler, state>>
    BY <1>8 DEF BufferingUpdate, Play, Decode, StreamDone, PlayerInv, sessionVars,
                playerVars
  <2>2. /\ Flying'["told"] = Flying["told"] /\ Flying'["ended"] = Flying["ended"]
        /\ Flying'["refusal"] = Flying["refusal"]
    BY <1>4, <1>5, <2>1
  <2>3. Prepared'
    BY <2>1, <2>2 DEF Prepared
  <2> QED
    BY <2>1, <2>3 DEF Knows
<1>9. CASE Reset
  <2>1. /\ Prepared /\ player' = "disconnecting" /\ state' = state
        /\ handler' = [handler EXCEPT !.doneMsg = "ddon"]
        /\ mailbox' = Append(mailbox, Abor(FALSE))
    BY <1>9 DEF Reset, PlayerInv
  <2>2. /\ Flying'["told"] = Flying["told"] /\ Flying'["ended"] = Flying["ended"]
        /\ Flying'["refusal"] = Flying["refusal"]
    <3>1. Abor(FALSE) \in Msg /\ Kind(Abor(FALSE)) = "abort"
      BY Posted, FormKinds
    <3>2. SameTellings
      BY <1>3, <2>1, <3>1 DEF Tellings
    <3> QED
      BY <1>5, <3>2
  <2>3. handler'.doneMsg = "ddon"
    BY <1>1, <2>1 DEF HandlerType
  <2>4. Disconnecting'
    BY <2>1, <2>2, <2>3 DEF Prepared, Disconnecting
  <2> QED
    BY <2>1, <2>4 DEF Knows
<1>10. CASE DisconnectReturns
  BY <1>10 DEF DisconnectReturns, Knows
<1> QED
  BY <1>6, <1>7, <1>8, <1>9, <1>10 DEF WaitStep

LEMMA FeedKept ==
  ASSUME TypeOK, SeekInv, FeedInv, Next, SessionAssumption
  PROVE  FeedInv'
<1> SUFFICES ASSUME crashed' = Alive PROVE (Fed \/ UnfedInv)' /\ PlayerInv'
  BY DEF FeedInv
<1>1. crashed = Alive /\ (Fed \/ UnfedInv) /\ PlayerInv
  BY Steps DEF FeedInv
<1>2. Fed => Fed'
  BY <1>1, FedStays
<1>3. ~Fed => UnfedInv'
  BY <1>1, UnfedStays
<1>4. Knows'
  <2>1. CASE player = "new"
    BY <1>1, <2>1, NewPlayer, WaitKnows
  <2>2. CASE player # "new"
    <3>1. CASE ConnectionStep \/ NetworkStep \/ ServerStep \/ SeekStep
                 \/ (\E m \in timers : Expires(m))
      <4>1. SameTellings /\ UNCHANGED <<handler, tracks, state, player>>
        BY <3>1, OthersTell
      <4> QED
        BY <1>1, <2>2, <4>1, NothingTold
    <3>2. CASE HandlerStep
      BY <1>1, <2>2, <3>2, HandlerKnows
    <3>3. CASE ControllerStep
      BY <1>1, <2>2, <3>3, ControllerKnows
    <3>4. CASE WaitStep
      BY <1>1, <3>4, WaitKnows
    <3> QED
      BY <3>1, <3>2, <3>3, <3>4, Steps DEF FailStep
  <2> QED
    BY <2>1, <2>2
<1>5. tracks' # <<>> /\ handler'.firstUnit => Untold'
  <2>1. CASE Fed
    BY <1>1, <2>1, UntoldKept
  <2>2. CASE ~Fed
    BY <1>3, <2>2 DEF UnfedInv
  <2> QED
    BY <2>1, <2>2
<1> QED
  BY <1>2, <1>3, <1>4, <1>5, KnowsAll DEF Knows, PlayerInv

LEMMA InitFeed ==
  ASSUME Init, SessionAssumption
  PROVE  FeedInv
<1>1. /\ mailbox = <<>> /\ pending = <<>> /\ netbox = <<>> /\ streams = <<>>
      /\ timers = {} /\ conn = "closed" /\ ~serving /\ tracks = <<>> /\ source = <<>>
      /\ ~handler.tryTCP /\ handler.doneMsg = None /\ handler.firstUnit
      /\ ~handler.checkPending /\ ~handler.seekPending /\ ~handler.gotRTP
      /\ ~seekDone /\ segment = 0 /\ player = "new" /\ state = "disconnected"
  BY DEF Init, NetInit
<1>2. \A k \in Kinds : Flying[k] = 0
  <2> SUFFICES ASSUME NEW k \in Kinds PROVE Flying[k] = 0
    OBVIOUS
  <2>1. Count(<<>>, Of(k)) = 0
    BY CountEmpty
  <2>2. Flying[k] = Count(mailbox, Of(k)) + Count(pending, Of(k))
    BY FlyingTypes, InitTypes DEF Total
  <2> QED
    BY <1>1, <2>1, <2>2
<1>3. /\ Flying["setup"] = 0 /\ Flying["play"] = 0 /\ Flying["retry"] = 0
      /\ Flying["tiou"] = 0 /\ Flying["exit"] = 0 /\ Flying["check"] = 0
      /\ Flying["abort"] = 0 /\ Flying["media"] = 0 /\ Flying["told"] = 0
      /\ Flying["ended"] = 0 /\ Waiting = 0
  BY <1>1, <1>2 DEF Kinds, Waiting
<1>4. Attempts = 0
  BY <1>3 DEF Attempts
<1>5. ToSet(netbox) = {} /\ DOMAIN streams = {} /\ DOMAIN source = {}
  BY <1>1, SetOfFew
<1>6. Quiet /\ Untold /\ NoInjected
  BY <1>1, <1>3, <1>5 DEF Quiet, Untold, NoInjected, NoFeed, EmptySources
<1>7. UnfedInv
  BY <1>1, <1>3, <1>4, <1>6 DEF UnfedInv
<1>8. PlayerInv
  BY <1>1 DEF PlayerInv, Unused
<1> QED
  BY <1>7, <1>8 DEF FeedInv

LEMMA FeedIsInvariant == Spec => [](TypeOK /\ SeekInv /\ FeedInv)
<1>1. Init => TypeOK /\ SeekInv /\ FeedInv
  <2> SUFFICES ASSUME Init PROVE TypeOK /\ SeekInv /\ FeedInv
    OBVIOUS
  <2>1. TypeOK /\ FeedInv
    BY SessionAssumption, InitTypes, InitFeed
  <2>2. SeekInv
    <3>1. mailbox = <<>> /\ pending = <<>> /\ seekDone = FALSE
      BY DEF Init
    <3> QED
      BY <3>1, CountEmpty DEF SeekInv, Total
  <2> QED
    BY <2>1, <2>2
<1>2. TypeOK /\ SeekInv /\ FeedInv /\ [Next]_vars => (TypeOK /\ SeekInv /\ FeedInv)'
  <2> SUFFICES ASSUME TypeOK, SeekInv, FeedInv, [Next]_vars
               PROVE  TypeOK' /\ SeekInv' /\ FeedInv'
    OBVIOUS
  <2>1. TypeOK' /\ SeekInv'
    BY SessionAssumption, TypesKept, SeekKept
  <2>2. CASE Next
    BY <2>1, <2>2, SessionAssumption, FeedKept
  <2>3. CASE UNCHANGED vars
    <3>1. UNCHANGED <<mailbox, pending, handler, tracks, source, timers, netbox,
                      streams, conn, serving, segment, state, seekDone, player,
                      crashed>>
      BY <2>3 DEF vars, netVars, sessionVars, serverVars, playerVars
    <3>2. Flying' = Flying /\ Starting' = Starting
      BY <3>1 DEF Starting, Mail, Due, Flying, Total, Count, Occurs
    <3>3. /\ Waiting' = Waiting /\ Over' = Over /\ Untold' = Untold
          /\ EmptySources' = EmptySources /\ NoFeed' = NoFeed
          /\ NoInjected' = NoInjected /\ Unused' = Unused
      BY <3>1, <3>2 DEF Waiting, Over, Untold, EmptySources, NoFeed, NoInjected, Unused
    <3>4. /\ Attempts' = Attempts /\ SettingUp' = SettingUp /\ Lost' = Lost
          /\ Quiet' = Quiet
      BY <3>1, <3>2, <3>3 DEF Attempts, SettingUp, Lost, Quiet
    <3>5. Connecting' = Connecting /\ Prepared' = Prepared
          /\ Disconnecting' = Disconnecting
      BY <3>1, <3>2 DEF Connecting, Prepared, Disconnecting, Bit
    <3>6. Fed' = Fed /\ UnfedInv' = UnfedInv /\ PlayerInv' = PlayerInv
      BY <3>1, <3>2, <3>3, <3>4, <3>5 DEF Fed, UnfedInv, PlayerInv
    <3> QED
      BY <2>1, <3>1, <3>6 DEF FeedInv
  <2> QED
    BY <2>2, <2>3
<1> QED
  BY <1>1, <1>2, PTL DEF Spec

-----------------------------------------------------------------------------
(* Sockets.                                                                *)

LEMMA PairsOfFew ==
  /\ PairsOf(<<>>) = {}
  /\ \A list \in Seq(TrackType), t \in TrackType :
        PairsOf(list) \subseteq PairsOf(Append(list, t))
<1>1. PairsOf(<<>>) = {}
  BY DEF PairsOf
<1>2. ASSUME NEW list \in Seq(TrackType), NEW t \in TrackType
      PROVE  PairsOf(list) \subseteq PairsOf(Append(list, t))
  <2>1. /\ DOMAIN list = 1 .. Len(list) /\ Len(list) \in Nat
        /\ DOMAIN Append(list, t) = 1 .. Len(list) + 1
        /\ \A i \in 1 .. Len(list) : Append(list, t)[i] = list[i]
    BY AppendProperties, LenProperties
  <2>2. \A i \in DOMAIN list : i \in DOMAIN Append(list, t) /\ Append(list, t)[i] = list[i]
    BY <2>1
  <2> QED
    BY <2>2 DEF PairsOf
<1> QED
  BY <1>1, <1>2

LEMMA SamePairs ==
  ASSUME TypeOK, NEW result, NEW told
  PROVE  PairsOf(ParsePlayResponse(result, tracks, told)) = PairsOf(tracks)
<1>1. /\ DOMAIN ParsePlayResponse(result, tracks, told) = DOMAIN tracks
      /\ \A i \in DOMAIN tracks :
           ParsePlayResponse(result, tracks, told)[i].socket = tracks[i].socket
  BY ParseTypes DEF TypeOK, SessionTypes, PlayerTypes
<1> QED
  BY <1>1 DEF PairsOf

OpenInv == open = PairsOf(tracks)

LEMMA OpenKept ==
  ASSUME TypeOK, OpenInv, Next, SessionAssumption
  PROVE  OpenInv'
<1>1. ASSUME open' = open, tracks' = tracks PROVE OpenInv'
  BY <1>1 DEF OpenInv, PairsOf
<1>2. CASE ConnectionStep \/ NetworkStep \/ ServerStep \/ ControllerStep \/ WaitStep
           \/ SeekStep \/ FailStep \/ (\E m \in timers : Expires(m))
  <2>1. open' = open /\ tracks' = tracks
    BY <1>2 DEF ConnectionStep, ConnectionFrame, NetworkStep, NetFrame, ServerStep,
            ServerFrame, ServerAnswers, ConnectionLost, ServerSendsInterleaved,
            ControllerStep, ControllerFrame, WaitStep, WaitFrame, Prepare,
            ConnectReturns, BufferingUpdate, DisconnectReturns, Play, Decode,
            StreamDone, Reset, SeekStep, Seek, Dies, FailStep, Expires, sessionVars
  <2> QED
    BY <1>1, <2>1
<1>3. CASE HandlerStep
  <2>1. CASE OnConn \/ OnDisc \/ OnTear \/ OnQuit \/ OnChek \/ OnFirstPacket
             \/ OnAccessUnit \/ OnSeek \/ OnSee1 \/ OnBiny \/ OnTiou
    <3>1. open' = open /\ tracks' = tracks
      BY <2>1 DEF OnConn, OnDisc, OnTear, OnQuit, OnChek, OnFirstPacket,
              OnAccessUnit, Queue, OnSeek, OnSee1, OnBiny, OnTiou, Calm, Dies,
              sessionVars
    <3> QED
      BY <1>1, <3>1
  <2>2. CASE OnPlay \/ OnSee2
    <3>1. /\ open' = open
          /\ \/ tracks' = tracks
             \/ \E told : tracks' = ParsePlayResponse(Current.result, tracks, told)
      BY <2>2 DEF OnPlay, OnSee2, Calm, Dies, sessionVars
    <3>2. PairsOf(tracks') = PairsOf(tracks)
      BY <3>1, SamePairs
    <3> QED
      BY <3>1, <3>2 DEF OpenInv
  <2>3. CASE OnDesc
    <3>1. CASE UNCHANGED <<tracks, open>>
      BY <1>1, <3>1
    <3>2. CASE /\ SetupTrack(1, tracks, source)
               /\ open' = open \cup PairsOf(tracks')
      <4>1. PairsOf(tracks) \subseteq PairsOf(tracks')
        <5>1. /\ \/ tracks' = tracks
                 \/ tracks' = Append(tracks, [index |-> 1, firstSeg |-> 0, told |-> TRUE,
                                       socket |-> SocketOf(1, tracks)])
              /\ tracks \in Seq(TrackType)
          <6>1. 1 \in 1 .. NumTracks
            BY SessionAssumption
          <6> QED
            BY <3>2, <6>1, SetupTypes DEF TypeOK, SessionTypes
        <5>2. [index |-> 1, firstSeg |-> 0, told |-> TRUE, socket |-> SocketOf(1, tracks)] \in TrackType
          <6>1. SocketOf(1, tracks) \in Socket
            BY <5>1, LenProperties DEF SocketOf, Socket
          <6> QED
            BY <6>1 DEF TrackType, SessionAssumption
        <5> QED
          BY <5>1, <5>2, PairsOfFew
      <4> QED
        BY <3>2, <4>1 DEF OpenInv
    <3> QED
      BY <2>3, <3>1, <3>2 DEF OnDesc
  <2>4. CASE OnSetu
    <3>1. CASE TrackGone
      BY <1>1, <1>3, <2>4, <3>1, OnSetuPosts DEF sessionVars
    <3>2. CASE ~TrackGone
      <4>1. open' = (open \ PairsOf(tracks)) \cup PairsOf(tracks')
        BY <1>3, <2>4, <3>2, OnSetuPosts
      <4> QED
        BY <4>1 DEF OpenInv
    <3> QED
      BY <3>1, <3>2
  <2>5. CASE OnAbor
    <3>1. \/ UNCHANGED <<tracks, open>>
          \/ tracks' = <<>> /\ open' = OpenAfterAbort
      BY <1>3, <2>5, OnAborPosts DEF sessionVars
    <3>2. CASE tracks' = <<>> /\ open' = OpenAfterAbort
      BY <3>2, PairsOfFew DEF OpenInv, OpenAfterAbort
    <3> QED
      BY <1>1, <3>1, <3>2
  <2> QED
    BY <1>3, <2>1, <2>2, <2>3, <2>4, <2>5 DEF HandlerStep, Handler
<1> QED
  BY <1>2, <1>3, Steps

GoneInv == player = "gone" => tracks = <<>>

LEMMA GoneKept ==
  ASSUME TypeOK, FeedInv, Next
  PROVE  GoneInv'
<1> SUFFICES ASSUME player' = "gone" PROVE tracks' = <<>>
  BY DEF GoneInv
<1>1. crashed = Alive /\ PlayerInv /\ player # "gone"
  BY Steps DEF FeedInv
<1>2. WaitStep
  <2>1. ConnectionStep \/ HandlerStep \/ ControllerStep \/ NetworkStep \/ ServerStep
        \/ SeekStep \/ FailStep \/ (\E m \in timers : Expires(m)) => player' = player
    BY DEF ConnectionStep, ConnectionFrame, NetworkStep, NetFrame, ServerStep,
           ServerFrame, HandlerStep, LooperFrame, ControllerStep, SeekStep, Seek,
           FailStep, Expires, playerVars
  <2> QED
    BY <1>1, <2>1, Steps
<1>3. DisconnectReturns
  <2>1. ConnectReturns => player' # "gone"
    <3> SUFFICES ASSUME ConnectReturns PROVE player' # "gone"
      OBVIOUS
    <3>1. /\ state \in {"disconnected", "connecting", "connected"}
          /\ state # "connecting"
          /\ player' = CASE state = "disconnected" -> "refused"
                         [] state = "connected" /\ tracks = <<>> -> "failed"
                         [] OTHER -> "preparing"
      BY DEF ConnectReturns, TypeOK, PlayerTypes
    <3>2. CASE state = "disconnected"
      BY <3>1, <3>2
    <3>3. CASE state = "connected" /\ tracks = <<>>
      BY <3>1, <3>3
    <3>4. CASE state = "connected" /\ tracks # <<>>
      BY <3>1, <3>4
    <3> QED
      BY <3>1, <3>2, <3>3, <3>4
  <2> QED
    BY <1>1, <1>2, <2>1 DEF WaitStep, Prepare, BufferingUpdate, Play, Decode, StreamDone,
                            Reset, playerVars
<1>4. tracks = <<>> /\ tracks' = tracks
  BY <1>1, <1>3 DEF DisconnectReturns, PlayerInv, Disconnecting, sessionVars
<1> QED
  BY <1>4

-----------------------------------------------------------------------------
(* Checks for access units.                                                *)

Checking(g) == Total(mailbox, pending, {Chek(g)})
Aborting == Total(mailbox, pending, {Abor(FALSE)})

\* The checks of each generation, posted or still delayed.
Armed == [g \in Nat |-> Checking(g) + (IF Chek(g) \in timers THEN 1 ELSE 0)]

CheckInv ==
    crashed = Alive =>
      /\ \A g \in Nat : Armed[g] > 0 => handler.checkPending /\ g <= handler.checkGen
      /\ ~handler.firstUnit \/ handler.seekPending => handler.checkPending
      /\ handler.checkPending /\ tracks # <<>> =>
            IF handler.seekPending THEN Armed[handler.checkGen] = 0
            ELSE Armed[handler.checkGen] = 1 \/ Aborting > 0

LEMMA ArmedTypes ==
  ASSUME TypeOK
  PROVE  /\ \A g \in Nat : Checking(g) \in Nat /\ Armed[g] \in Nat
         /\ Aborting \in Nat
         /\ handler.checkGen \in Nat /\ handler \in HandlerType
         /\ handler.checkPending \in BOOLEAN /\ handler.seekPending \in BOOLEAN
         /\ handler.firstUnit \in BOOLEAN
<1>1. BoxTypes /\ handler \in HandlerType
  BY DEF TypeOK, SessionTypes
<1>2. \A M : Total(mailbox, pending, M) \in Nat
  BY <1>1, TotalTypes
<1> QED
  BY <1>1, <1>2 DEF Checking, Armed, Aborting, HandlerType

LEMMA CheckBlind ==
  ASSUME NEW m, m.what \in {"chek", "abor"}
  PROVE  ResultBlind({m}) /\ {m} \cap Binaries = {} /\ {m} \cap Notices = {}
<1>1. \A r \in Awaited : r # m
  BY AwaitedFields
<1>2. \A r \in Awaited, x \in Result : With(r, x) # m
  BY <1>1, AwaitedAre
<1>3. {m} \cap Binaries = {} /\ {m} \cap Notices = {}
  BY DEF Binaries, Notices
<1> QED
  BY <1>1, <1>2, <1>3 DEF ResultBlind

LEMMA CheckForms ==
  /\ \A g : Chek(g).what = "chek"
  /\ Abor(FALSE).what = "abor"
  /\ \A g, h : Chek(g) = Chek(h) => g = h
<1>1. \A g : Chek(g).what = "chek" /\ Chek(g).generation = g
  BY DEF Chek
<1> QED
  BY <1>1 DEF Abor

\* Steps that neither post nor take a check, and lose no abort.
SameChecks == /\ \A g \in Nat : Checking(g)' = Checking(g)
              /\ Aborting > 0 => Aborting' > 0

LEMMA CheckStays ==
  ASSUME TypeOK, CheckInv, crashed = Alive,
         SameChecks, \A g \in Nat : Chek(g) \in timers' <=> Chek(g) \in timers,
         handler'.checkPending = handler.checkPending,
         handler'.checkGen = handler.checkGen,
         handler'.seekPending = handler.seekPending,
         handler'.firstUnit = handler.firstUnit,
         tracks' # <<>> /\ handler.checkPending => tracks # <<>>
  PROVE  CheckInv'
<1>1. Armed' = Armed
  BY DEF Armed, SameChecks
<1> QED
  BY <1>1 DEF CheckInv, SameChecks

\* The connection, the server, the RTP connection, the controller.
LEMMA OthersCheckNothing ==
  ASSUME TypeOK, ConnectionStep \/ ServerStep \/ NetworkStep \/ ControllerStep
  PROVE  SameChecks
<1> SUFFICES ASSUME NEW m, m.what \in {"chek", "abor"}
             PROVE  Total(mailbox', pending', {m}) = Total(mailbox, pending, {m})
  <2>1. \A g \in Nat : Checking(g)' = Checking(g)
    BY CheckForms DEF Checking
  <2> DEFINE a == Abor(FALSE)
  <2>2. a.what \in {"chek", "abor"}
    BY CheckForms
  <2>3. Aborting = Total(mailbox, pending, {a})
    BY DEF Aborting
  <2>4. Aborting' = Total(mailbox', pending', {a})
    BY DEF Aborting
  <2> HIDE DEF a
  <2>5. Aborting' = Aborting
    BY <2>2, <2>3, <2>4
  <2> QED
    BY <2>1, <2>5 DEF SameChecks
<1>1. /\ ResultBlind({m}) /\ {m} \cap Binaries = {} /\ {m} \cap Notices = {}
      /\ Total(mailbox, pending, {m}) \in Nat
  BY CheckBlind, TotalTypes DEF TypeOK
<1>2. CASE ConnectionStep
  <2>1. PICK x \in Msg : ConnectionSwap(x) /\ Swaps(x, {m})
    BY <1>1, <1>2, ConnectionFlow
  <2>2. x # m /\ Current # m
    BY <1>1, <2>1, AwaitedFields DEF ConnectionSwap, Connect, Disconnect, Disc, Ask
  <2>3. One(x, {m}) = 0 /\ One(Current, {m}) = 0
    BY <2>2 DEF One
  <2> QED
    BY <1>1, <2>1, <2>3 DEF Swaps
<1>3. CASE ServerStep
  BY <1>1, <1>3, ServerFlow
<1>4. CASE NetworkStep
  BY <1>1, <1>4, NetworkFlow
<1>5. CASE ControllerStep
  <2>1. /\ mailbox # <<>> /\ pending' = pending /\ TakesNone
        /\ Current.what \in {"cdon", "ddon", "sdon"}
    BY <1>5 DEF ControllerStep, LooperFrame, serverVars, ControllerFrame, Posts,
                TakesNone, OnConnectDone, OnDisconnectDone, OnSeekDone
  <2>2. Drops({m})
    BY <2>1, TakesFlow
  <2>3. One(Current, {m}) = 0
    BY <2>1 DEF One
  <2> QED
    BY <1>1, <2>2, <2>3 DEF Drops
<1> QED
  BY <1>2, <1>3, <1>4, <1>5

\* What a handler posts is no check, and no interleaved data.
LEMMA HandlerPosts ==
  ASSUME TypeOK, HandlerStep, crashed' = Alive, SessionAssumption
  PROVE  \/ TakesNone
         \/ \E x : Takes(x) /\ x.what \notin {"chek", "biny"}
         \/ \E x, y : /\ TakesTwo(x, y)
                       /\ x.what \notin {"chek", "biny"} /\ y.what \notin {"chek", "biny"}
<1>1. /\ \A r : Ask(r).what = "send" /\ Disconnect(r).what = "disconnect"
      /\ \A b : Disc(b).what = "disc" /\ Abor(b).what = "abor"
      /\ Connect.what = "connect"
  BY DEF Ask, Disconnect, Disc, Abor, Connect
<1>2. ASSUME NEW i, NEW list, NEW sources, NEW x, SetupMsg(i, list, sources, x)
      PROVE  x.what \notin {"chek", "biny"}
  <2>1. With(SetuReply(i, NoTrack), "error").what = "setu"
    BY DEF With, SetuReply
  <2> QED
    BY <1>1, <1>2, <2>1 DEF SetupMsg
<1>3. CASE OnConn \/ OnDisc \/ OnTear
  <2>1. OnConn => Takes(Disc(FALSE)) \/ Takes(Ask(DescReply(0)))
    BY OnConnPosts
  <2>2. OnDisc => Takes(Connect) \/ Takes([what |-> "quit"])
    BY OnDiscPosts
  <2>3. OnTear => Takes(Disconnect(Disc(Current.again)))
    BY OnTearPosts
  <2>4. [what |-> "quit"].what \notin {"chek", "biny"}
    OBVIOUS
  <2>5. CASE OnConn
    BY <1>1, <2>1, <2>5
  <2>6. CASE OnDisc
    BY <1>1, <2>2, <2>4, <2>6
  <2>7. CASE OnTear
    BY <1>1, <2>3, <2>7
  <2> QED
    BY <1>3, <2>5, <2>6, <2>7
<1>4. CASE OnDesc
  BY <1>1, <1>2, <1>4, OnDescPosts
<1>5. CASE OnSetu
  <2>1. ~TrackGone
    BY <1>5, OnSetuPosts DEF Alive
  <2>2. \/ \E x : /\ Takes(x)
                  /\ SetupMsg(Current.index + 1, KeptTracks, KeptSources, x)
        \/ Takes(Ask(Reply("play"))) \/ Takes(Disconnect(Disc(FALSE)))
    BY <1>5, <2>1, OnSetuPosts
  <2> QED
    BY <1>1, <1>2, <2>2
<1>6. CASE OnPlay
  BY <1>1, <1>6, OnPlayPosts
<1>7. CASE OnAbor
  BY <1>1, <1>7, OnAborPosts DEF Alive
<1>8. CASE OnQuit
  <2>1. handler.doneMsg \in {None, "cdon", "ddon"}
    BY DEF TypeOK, SessionTypes, HandlerType
  <2> QED
    BY <1>8, <2>1, OnQuitPosts
<1>9. CASE OnChek
  BY <1>1, <1>9, OnChekPosts
<1>10. CASE OnFirstPacket \/ OnBiny
  BY <1>10 DEF OnFirstPacket, OnBiny, Posts, TakesNone
<1>11. CASE OnAccessUnit
  <2>1. crashed' # "first unit"
    BY DEF Alive
  <2>2. TakesNone \/ \E d \in {"cdon", "ddon"} : Takes([what |-> d, result |-> "ok"])
    BY <1>11, <2>1, OnAccessUnitPosts
  <2> QED
    BY <2>2
<1>12. CASE OnSeek \/ OnSee1
  BY <1>1, <1>12, OnSeekPosts, OnSee1Posts
<1>13. CASE OnSee2
  <2>1. \/ TakesTwo(Abor(FALSE), [what |-> "sdon"])
        \/ Takes([what |-> "sdon"])
    BY <1>13, OnSee2Posts DEF Alive
  <2>2. /\ Abor(FALSE).what \notin {"chek", "biny"}
        /\ [what |-> "sdon"].what \notin {"chek", "biny"}
    BY <1>1
  <2> QED
    BY <2>1, <2>2
<1>14. CASE OnTiou
  BY <1>1, <1>14, OnTiouPosts
<1> QED
  BY <1>3, <1>4, <1>5, <1>6, <1>7, <1>8, <1>9, <1>10, <1>11, <1>12, <1>13, <1>14
     DEF HandlerStep, Handler

LEMMA CheckFlow ==
  ASSUME TypeOK, HandlerStep, crashed' = Alive, SessionAssumption
  PROVE  /\ \A g \in Nat : /\ One(Current, {Chek(g)}) <= Checking(g)
                           /\ Checking(g)' = Checking(g) - One(Current, {Chek(g)})
         /\ Current.what # "abor" /\ Aborting > 0 => Aborting' > 0
<1>1. mailbox # <<>> /\ pending' = pending
  BY DEF HandlerStep, LooperFrame, serverVars
<1>2. \A M : /\ One(Current, M) <= Total(mailbox, pending, M)
             /\ Total(mailbox, pending, M) \in Nat /\ One(Current, M) \in Nat
  BY <1>1, CurrentCounts, TotalTypes DEF TypeOK
<1>3. ASSUME NEW g \in Nat
      PROVE  Checking(g)' = Checking(g) - One(Current, {Chek(g)})
  <2> DEFINE M == {Chek(g)}
  <2>0. \A x : x.what # "chek" => One(x, M) = 0
    BY CheckForms DEF One
  <2>1. CASE TakesNone
    BY <1>1, <2>1, TakesFlow DEF Drops, Checking
  <2>2. ASSUME NEW x, Takes(x), x.what # "chek"
        PROVE  Checking(g)' = Checking(g) - One(Current, M)
    <3>1. Swaps(x, M)
      BY <1>1, <2>2, TakesFlow
    <3>2. One(x, M) = 0
      BY <2>0, <2>2
    <3> HIDE DEF M
    <3>3. Total(mailbox', pending', M) = Total(mailbox, pending, M) - One(Current, M)
      BY <1>2, <3>1, <3>2 DEF Swaps
    <3> QED
      BY <3>3 DEF Checking, M
  <2>3. ASSUME NEW x, NEW y, TakesTwo(x, y), x.what # "chek", y.what # "chek"
        PROVE  Checking(g)' = Checking(g) - One(Current, M)
    <3>1. SwapsTwo(x, y, M)
      BY <1>1, <2>3, TakesFlow
    <3>2. One(x, M) = 0 /\ One(y, M) = 0
      BY <2>0, <2>3
    <3> HIDE DEF M
    <3>3. Total(mailbox', pending', M) = Total(mailbox, pending, M) - One(Current, M)
      BY <1>2, <3>1, <3>2 DEF SwapsTwo
    <3> QED
      BY <3>3 DEF Checking, M
  <2> QED
    BY <2>1, <2>2, <2>3, HandlerPosts
<1>4. ASSUME Current.what # "abor", Aborting > 0
      PROVE  Aborting' > 0
  <2> DEFINE M == {Abor(FALSE)}
  <2>1. One(Current, M) = 0
    BY <1>4, CheckForms DEF One
  <2> HIDE DEF M
  <2>2. Total(mailbox, pending, M) > 0
    BY <1>4 DEF Aborting, M
  <2>3. CASE TakesNone
    <3>1. Drops(M)
      BY <1>1, <2>3, TakesFlow
    <3>2. Total(mailbox', pending', M) > 0
      BY <1>2, <2>1, <2>2, <3>1 DEF Drops
    <3> QED
      BY <3>2 DEF Aborting, M
  <2>4. ASSUME NEW x, Takes(x) PROVE Aborting' > 0
    <3>1. Swaps(x, M)
      BY <1>1, <2>4, TakesFlow
    <3>2. Total(mailbox', pending', M) > 0
      BY <1>2, <2>1, <2>2, <3>1 DEF Swaps
    <3> QED
      BY <3>2 DEF Aborting, M
  <2>5. ASSUME NEW x, NEW y, TakesTwo(x, y) PROVE Aborting' > 0
    <3>1. SwapsTwo(x, y, M)
      BY <1>1, <2>5, TakesFlow
    <3>2. Total(mailbox', pending', M) > 0
      BY <1>2, <2>1, <2>2, <3>1 DEF SwapsTwo
    <3> QED
      BY <3>2 DEF Aborting, M
  <2> QED
    BY <2>3, <2>4, <2>5, HandlerPosts
<1> QED
  BY <1>2, <1>3, <1>4 DEF Checking

LEMMA HandlerChecks ==
  ASSUME TypeOK, CheckInv, SeekInv, FeedInv, crashed = Alive, HandlerStep,
         crashed' = Alive, SessionAssumption
  PROVE  CheckInv'
<1>1. /\ \A g \in Nat : Checking(g) \in Nat /\ Armed[g] \in Nat /\ Chek(g).what = "chek"
      /\ Aborting \in Nat /\ handler.checkGen \in Nat /\ handler \in HandlerType
      /\ handler.checkPending \in BOOLEAN /\ handler.seekPending \in BOOLEAN
      /\ handler.firstUnit \in BOOLEAN
  BY ArmedTypes, CheckForms
<1>2. /\ \A g \in Nat : /\ One(Current, {Chek(g)}) <= Checking(g)
                        /\ Checking(g)' = Checking(g) - One(Current, {Chek(g)})
      /\ Current.what # "abor" /\ Aborting > 0 => Aborting' > 0
  BY CheckFlow
<1>3. ASSUME Current.what # "chek"
      PROVE  \A g \in Nat : Checking(g)' = Checking(g)
  <2> SUFFICES ASSUME NEW g \in Nat PROVE Checking(g)' = Checking(g)
    OBVIOUS
  <2>1. One(Current, {Chek(g)}) = 0
    BY <1>3, CheckForms DEF One
  <2>2. Checking(g)' = Checking(g) - 0 /\ Checking(g) \in Nat
    BY <1>1, <1>2, <2>1
  <2> QED
    BY <2>2
<1>4. /\ \A g \in Nat : Armed[g] > 0 => handler.checkPending /\ g <= handler.checkGen
      /\ ~handler.firstUnit \/ handler.seekPending => handler.checkPending
      /\ handler.checkPending /\ tracks # <<>> =>
            IF handler.seekPending THEN Armed[handler.checkGen] = 0
            ELSE Armed[handler.checkGen] = 1 \/ Aborting > 0
  BY DEF CheckInv
<1>5. \A g \in Nat : /\ Armed[g] = Checking(g) + (IF Chek(g) \in timers THEN 1 ELSE 0)
                     /\ Armed'[g] = Checking(g)' + (IF Chek(g) \in timers' THEN 1 ELSE 0)
  BY DEF Armed
<1>13. \A g \in Nat : ~handler.checkPending \/ ~(g <= handler.checkGen) => Armed[g] = 0
  <2> SUFFICES ASSUME NEW g \in Nat, ~handler.checkPending \/ ~(g <= handler.checkGen)
               PROVE  Armed[g] = 0
    OBVIOUS
  <2>1. Armed[g] \in Nat
    BY <1>1
  <2>2. ~(Armed[g] > 0)
    BY <1>4
  <2> QED
    BY <2>1, <2>2
<1>6. CASE OnConn \/ OnDisc \/ OnTear \/ OnFirstPacket \/ OnSee1 \/ OnBiny \/ OnQuit
           \/ OnTiou \/ OnPlay
  <2>1. Current.what \notin {"chek", "abor"}
    BY <1>6 DEF OnConn, OnDisc, OnTear, OnFirstPacket, OnSee1, OnBiny, OnQuit, OnTiou,
                OnPlay
  <2>2. SameChecks
    BY <1>2, <1>3, <2>1 DEF SameChecks
  <2>3. /\ handler'.checkPending = handler.checkPending
        /\ handler'.checkGen = handler.checkGen
        /\ handler'.seekPending = handler.seekPending
        /\ handler'.firstUnit = handler.firstUnit
    BY <1>1, <1>6 DEF OnConn, OnDisc, OnTear, OnFirstPacket, OnSee1, OnBiny, OnQuit,
                      OnTiou, OnPlay, sessionVars, FakeTimestamps, Interleaving,
                      HandlerType
  <2>4. \A g : Chek(g) \in timers' <=> Chek(g) \in timers
    <3>1. timers' = timers \/ timers' = timers \cup {Tiou}
      BY <1>6 DEF OnConn, OnDisc, OnTear, OnFirstPacket, OnSee1, OnBiny, OnQuit,
                  OnTiou, OnPlay, sessionVars
    <3>2. \A g : Chek(g) # Tiou
      BY CheckForms DEF Tiou
    <3> QED
      BY <3>1, <3>2
  <2>5. tracks' # <<>> => tracks # <<>>
    <3>1. OnQuit => tracks' = tracks
      BY DEF OnQuit
    <3> QED
      BY <1>6, <3>1, HandlerFields
  <2> QED
    BY <2>2, <2>3, <2>4, <2>5, CheckStays
<1>7. CASE OnDesc \/ OnSetu
  <2>1. Current.what \in {"desc", "setu"}
    BY <1>7 DEF OnDesc, OnSetu
  <2>2. SameChecks
    BY <1>2, <1>3, <2>1 DEF SameChecks
  <2>3. ~handler.checkPending
    <3>1. ~Fed
      <4>1. Flying["setup"] >= 1
        <5>1. mailbox # <<>> /\ pending' = pending /\ Current \in Msg
          BY CurrentIs DEF HandlerStep, LooperFrame, serverVars
        <5>2. Kind(Current) = "setup"
          BY <2>1, <5>1, OtherKinds
        <5> QED
          BY <5>1, <5>2, KindFlow
      <4> QED
        BY <1>7, <4>1, Numbers DEF Fed, SettingUp, Kinds
    <3> QED
      BY <3>1 DEF FeedInv, UnfedInv, Quiet
  <2>4. /\ handler'.checkPending = handler.checkPending
        /\ handler'.checkGen = handler.checkGen
        /\ handler'.seekPending = handler.seekPending
        /\ handler'.firstUnit = handler.firstUnit
        /\ timers' = timers
    <3>1. CASE OnDesc
      BY <3>1 DEF OnDesc
    <3>2. CASE OnSetu
      BY <1>1, <3>2, OnSetuPosts DEF HandlerType, sessionVars
    <3> QED
      BY <1>7, <3>1, <3>2
  <2> QED
    BY <2>2, <2>3, <2>4, CheckStays
<1>8. CASE OnAbor
  <2>1. tracks' = <<>> /\ timers' = timers /\ handler' = HandlerAfterAbort
    BY <1>8, OnAborPosts DEF Alive
  <2>2. /\ handler'.checkPending = handler.checkPending
        /\ handler'.checkGen = handler.checkGen
        /\ handler'.seekPending = FALSE /\ handler'.firstUnit = TRUE
    BY <1>1, <2>1 DEF HandlerAfterAbort, HandlerType
  <2>3. Current.what = "abor"
    BY <1>8 DEF OnAbor
  <2>4. \A g \in Nat : Armed'[g] = Armed[g]
    BY <1>3, <1>5, <2>1, <2>3
  <2> QED
    BY <1>4, <2>1, <2>2, <2>4 DEF CheckInv
<1>9. CASE OnChek
  <2>0. /\ Current = Chek(Current.generation) /\ Current.generation \in Nat
        /\ Current.what = "chek"
    BY <1>9, OnChekPosts DEF OnChek
  <2>1. PICK c \in Nat : Current = Chek(c) /\ Current.what = "chek" /\ Current.generation = c
    BY <2>0
  <2>2. \A g \in Nat : /\ g = c => Checking(g) >= 1 /\ Checking(g)' = Checking(g) - 1
                       /\ g # c => Checking(g)' = Checking(g)
    <3> SUFFICES ASSUME NEW g \in Nat
                 PROVE  /\ g = c => Checking(g) >= 1 /\ Checking(g)' = Checking(g) - 1
                        /\ g # c => Checking(g)' = Checking(g)
      OBVIOUS
    <3>1. One(Current, {Chek(g)}) = IF g = c THEN 1 ELSE 0
      BY <2>1, CheckForms DEF One
    <3>2. /\ One(Current, {Chek(g)}) <= Checking(g)
          /\ Checking(g)' = Checking(g) - One(Current, {Chek(g)})
          /\ Checking(g) \in Nat
      BY <1>1, <1>2
    <3> QED
      BY <3>1, <3>2
  <2>3. tracks' = tracks
    BY <1>9 DEF OnChek
  <2>4. c \in Nat /\ Armed[c] >= 1 /\ handler.checkPending
    <3>1. Checking(c) \in Nat /\ Checking(c) >= 1 /\ Armed[c] \in Nat
      BY <1>1, <2>2
    <3>2. Armed[c] >= 1
      BY <1>5, <3>1
    <3>3. Armed[c] > 0
      BY <3>1, <3>2
    <3> QED
      BY <1>4, <3>2, <3>3
  <2>5. Aborting > 0 => Aborting' > 0
    BY <1>2, <2>1
  <2>6. CASE c # handler.checkGen
    <3>1. UNCHANGED <<handler, timers>>
      BY <1>9, <2>1, <2>6, OnChekPosts
    <3>2. ASSUME NEW g \in Nat
          PROVE  Armed'[g] <= Armed[g] /\ (g # c => Armed'[g] = Armed[g])
      <4>1. /\ Checking(g) \in Nat
            /\ Checking(g)' = Checking(g) - 1 \/ Checking(g)' = Checking(g)
            /\ g # c => Checking(g)' = Checking(g)
        BY <1>1, <2>2
      <4>2. /\ Armed[g] = Checking(g) + (IF Chek(g) \in timers THEN 1 ELSE 0)
            /\ Armed'[g] = Checking(g)' + (IF Chek(g) \in timers THEN 1 ELSE 0)
        BY <1>5, <3>1
      <4> QED
        BY <4>1, <4>2
    <3>3. \A g \in Nat : Armed'[g] > 0 => Armed[g] > 0
      <4>1. \A g \in Nat : Armed'[g] \in Int
        BY <1>1, <1>2, <1>5 DEF One
      <4> QED
        BY <1>1, <3>2, <4>1
    <3> QED
      BY <1>1, <1>4, <2>3, <2>5, <2>6, <3>1, <3>2, <3>3 DEF CheckInv
  <2>7. CASE c = handler.checkGen /\ ~handler.units
    <3>1. UNCHANGED <<handler, timers>> /\ Takes(Abor(FALSE))
      BY <1>9, <2>1, <2>7, OnChekPosts
    <3>2. \A g \in Nat : Armed'[g] > 0 => Armed[g] > 0
      BY <1>1, <1>5, <2>2, <3>1
    <3>3. Aborting' > 0
      <4> DEFINE a == Abor(FALSE)
                 M == {a}
      <4>1. mailbox # <<>> /\ pending' = pending
        BY DEF HandlerStep, LooperFrame, serverVars
      <4>2. Swaps(a, M)
        BY <3>1, <4>1, TakesFlow
      <4>3. One(a, M) = 1 /\ Total(mailbox, pending, M) \in Nat
        BY TotalTypes DEF One, TypeOK
      <4>4. Aborting' = Total(mailbox', pending', M)
        BY DEF Aborting
      <4> HIDE DEF a, M
      <4>5. Total(mailbox', pending', M) > 0
        BY <4>2, <4>3 DEF Swaps
      <4> QED
        BY <4>4, <4>5
    <3>4. ~(tracks # <<>> /\ handler.seekPending)
      BY <1>1, <1>4, <2>4, <2>7
    <3> QED
      BY <1>4, <2>3, <3>1, <3>2, <3>3, <3>4 DEF CheckInv
  <2>8. CASE c = handler.checkGen /\ handler.units
    <3>1. /\ handler' = [handler EXCEPT !.units = FALSE]
          /\ timers' = timers \cup {Chek(c)}
      BY <1>9, <2>1, <2>8, OnChekPosts
    <3>2. /\ handler'.checkPending = handler.checkPending
          /\ handler'.checkGen = handler.checkGen
          /\ handler'.seekPending = handler.seekPending
          /\ handler'.firstUnit = handler.firstUnit
      BY <1>1, <3>1 DEF HandlerType
    <3>3. \A g \in Nat : g # c => Armed'[g] = Armed[g]
      BY <1>5, <2>2, <3>1, CheckForms
    <3>4. Armed[c] = 1 => Armed'[c] = 1
      BY <1>1, <1>5, <2>2, <2>4, <3>1
    <3>5. ~(tracks # <<>> /\ handler.seekPending)
      <4>1. Armed[handler.checkGen] \in Nat /\ Armed[handler.checkGen] >= 1
        BY <1>1, <2>4, <2>8
      <4>2. Armed[handler.checkGen] # 0
        BY <4>1
      <4> QED
        BY <1>4, <2>4, <4>2
    <3> QED
      BY <1>4, <2>3, <2>4, <2>5, <2>8, <3>2, <3>3, <3>4, <3>5 DEF CheckInv
  <2> QED
    BY <2>6, <2>7, <2>8
<1>10. CASE OnAccessUnit
  <2>1. /\ tracks' = tracks /\ timers' = TimersWithCheck(handler)
        /\ handler'.checkPending = TRUE /\ handler'.checkGen = handler.checkGen
        /\ handler'.seekPending = handler.seekPending
    BY <1>1, <1>10, OnAccessUnitPosts DEF Alive, CheckPosted, HandlerType
  <2>2. Current.what = "accu"
    BY <1>10 DEF OnAccessUnit
  <2>3. /\ \A g \in Nat : Checking(g)' = Checking(g)
        /\ Aborting > 0 => Aborting' > 0
    BY <1>2, <1>3, <2>2
  <2>4. CASE handler.checkPending
    <3>1. \A g \in Nat : Armed'[g] = Armed[g]
      BY <1>5, <2>1, <2>3, <2>4 DEF TimersWithCheck
    <3> QED
      BY <1>1, <1>4, <2>1, <2>3, <2>4, <3>1 DEF CheckInv
  <2>5. CASE ~handler.checkPending
    <3>1. timers' = timers \cup {Chek(handler.checkGen)}
      BY <2>1, <2>5 DEF TimersWithCheck
    <3>2. \A g \in Nat : g # handler.checkGen => Armed'[g] = Armed[g]
      BY <1>5, <2>3, <3>1, CheckForms
    <3>3. Armed[handler.checkGen] = 0
      BY <1>1, <1>13, <2>5
    <3>4. Armed'[handler.checkGen] = 1
      BY <1>1, <1>5, <2>3, <3>1, <3>3
    <3>5. ~handler.seekPending
      BY <1>4, <2>5
    <3>6. \A g \in Nat : Armed'[g] > 0 => g = handler.checkGen
      BY <1>4, <2>5, <3>2
    <3>7. \A g \in Nat : Armed'[g] > 0 => g <= handler.checkGen
      BY <1>1, <3>6
    <3> QED
      BY <1>1, <2>1, <3>4, <3>5, <3>7 DEF CheckInv
  <2> QED
    BY <1>1, <2>4, <2>5
<1>11. CASE OnSeek
  <2>1. /\ tracks' = tracks /\ timers' = timers /\ Current.what = "seek"
    BY <1>11 DEF OnSeek
  <2>2. SameChecks /\ \A g \in Nat : Armed'[g] = Armed[g]
    BY <1>2, <1>3, <1>5, <2>1 DEF SameChecks
  <2>3. CASE UNCHANGED handler
    BY <2>1, <2>2, <2>3, CheckStays
  <2>4. CASE handler' = [handler EXCEPT !.seekPending = TRUE, !.checkPending = TRUE,
                                        !.checkGen = @ + 1]
    <3>1. /\ handler'.seekPending = TRUE /\ handler'.checkPending = TRUE
          /\ handler'.checkGen = handler.checkGen + 1
      BY <1>1, <2>4 DEF HandlerType
    <3>2. Armed'[handler'.checkGen] = 0
      <4>1. handler.checkGen + 1 \in Nat /\ ~(handler.checkGen + 1 <= handler.checkGen)
        BY <1>1
      <4> QED
        BY <1>13, <2>2, <3>1, <4>1
    <3>3. ASSUME NEW g \in Nat, Armed'[g] > 0 PROVE g <= handler'.checkGen
      <4>1. g <= handler.checkGen
        BY <1>4, <2>2, <3>3
      <4> QED
        BY <1>1, <3>1, <4>1
    <3> QED
      BY <3>1, <3>2, <3>3 DEF CheckInv
  <2> QED
    BY <1>11, <2>3, <2>4, OnSeekPosts
<1>12. CASE OnSee2
  <2>1. /\ handler.seekPending /\ Current.what = "see2"
        /\ timers' = TimersWithCheck(CheckEnabled(handler))
        /\ handler' = HandlerAfterSeek
    BY <1>12 DEF OnSee2, Dies, Alive
  <2>2. timers' = timers \cup {Chek(handler.checkGen)}
    BY <1>1, <2>1 DEF TimersWithCheck, CheckEnabled, HandlerType
  <2>3. /\ handler'.seekPending = FALSE /\ handler'.checkPending = TRUE
        /\ handler'.checkGen = handler.checkGen
        /\ handler'.firstUnit = handler.firstUnit
    BY <1>1, <2>1 DEF HandlerAfterSeek, CheckPosted, HandlerType
  <2>4. tracks' # <<>> => tracks # <<>>
    BY <1>12, HandlerFields
  <2>5. \A g \in Nat : Checking(g)' = Checking(g)
    BY <1>3, <2>1
  <2>6. \A g \in Nat : g # handler.checkGen => Armed'[g] = Armed[g]
    BY <1>5, <2>2, <2>5, CheckForms
  <2>7. Armed[handler.checkGen] = 0 => Armed'[handler.checkGen] = 1
    <3>1. /\ Armed[handler.checkGen] = Checking(handler.checkGen)
               + (IF Chek(handler.checkGen) \in timers THEN 1 ELSE 0)
          /\ Armed'[handler.checkGen] = Checking(handler.checkGen) + 1
          /\ Checking(handler.checkGen) \in Nat
      BY <1>1, <1>5, <2>2, <2>5
    <3> QED
      BY <3>1
  <2>8. ASSUME NEW g \in Nat, Armed'[g] > 0 PROVE g <= handler.checkGen
    <3>1. g # handler.checkGen => Armed[g] > 0
      BY <2>6, <2>8
    <3> QED
      BY <1>1, <1>4, <3>1
  <2> QED
    BY <1>1, <1>4, <2>1, <2>3, <2>4, <2>7, <2>8 DEF CheckInv
<1> QED
  BY <1>6, <1>7, <1>8, <1>9, <1>10, <1>11, <1>12 DEF HandlerStep, Handler

LEMMA ExpiryChecks ==
  ASSUME TypeOK, CheckInv, crashed = Alive, NEW m \in timers, Expires(m)
  PROVE  CheckInv'
<1>1. /\ timers' = timers \ {m} /\ mailbox' = Append(mailbox, m) /\ pending' = pending
      /\ handler' = handler /\ tracks' = tracks
  BY DEF Expires, serverVars
<1>2. m = Tiou \/ \E h \in Nat : m = Chek(h)
  BY DEF TypeOK, BoxTypes, Chek, CheckMsgs, Tiou
<1>3. m \in Msg
  BY <1>2, Posted
<1>4. \A M : /\ Total(mailbox', pending', M) = Total(mailbox, pending, M) + One(m, M)
             /\ Total(mailbox, pending, M) \in Nat /\ One(m, M) \in {0, 1}
  BY <1>1, <1>3, PostsFlow, TotalTypes DEF Adds, TypeOK
<1>5. Aborting' = Aborting
  <2> DEFINE M == {Abor(FALSE)}
  <2>1. m # Abor(FALSE)
    BY <1>2 DEF Tiou, Chek, Abor
  <2>2. One(m, M) = 0
    BY <2>1 DEF One
  <2> HIDE DEF M
  <2>3. Total(mailbox', pending', M) = Total(mailbox, pending, M)
    BY <1>4, <2>2
  <2> QED
    BY <2>3 DEF Aborting, M
<1>6. ASSUME NEW g \in Nat PROVE Armed'[g] = Armed[g]
  <2> DEFINE M == {Chek(g)}
  <2>1. /\ Armed[g] = Total(mailbox, pending, M) + (IF Chek(g) \in timers THEN 1 ELSE 0)
        /\ Armed'[g] = Total(mailbox', pending', M)
                         + (IF Chek(g) \in timers \ {m} THEN 1 ELSE 0)
    BY <1>1 DEF Armed, Checking
  <2>2. One(m, M) = IF m = Chek(g) THEN 1 ELSE 0
    BY DEF One
  <2> HIDE DEF M
  <2>3. CASE m = Chek(g)
    BY <1>4, <2>1, <2>2, <2>3
  <2>4. CASE m # Chek(g)
    BY <1>4, <2>1, <2>2, <2>4
  <2> QED
    BY <2>3, <2>4
<1> QED
  BY <1>1, <1>5, <1>6, ArmedTypes DEF CheckInv

LEMMA CheckKept ==
  ASSUME TypeOK, SeekInv, FeedInv, CheckInv, Next, SessionAssumption
  PROVE  CheckInv'
<1> SUFFICES ASSUME crashed' = Alive PROVE CheckInv'
  BY DEF CheckInv
<1>1. crashed = Alive /\ handler \in HandlerType
  BY Steps, ArmedTypes
<1>2. CASE ConnectionStep \/ ServerStep \/ NetworkStep \/ ControllerStep
  <2>1. UNCHANGED <<handler, tracks, timers>>
    BY <1>2 DEF ConnectionStep, ConnectionFrame, NetworkStep, NetFrame, ServerStep,
                ServerFrame, ControllerStep, ControllerFrame, sessionVars
  <2> QED
    BY <1>1, <1>2, <2>1, OthersCheckNothing, CheckStays
<1>3. CASE HandlerStep
  BY <1>1, <1>3, HandlerChecks
<1>4. CASE WaitStep \/ SeekStep
  <2>1. /\ pending' = pending /\ tracks' = tracks /\ timers' = timers
        /\ handler'.checkPending = handler.checkPending
        /\ handler'.checkGen = handler.checkGen
        /\ handler'.seekPending = handler.seekPending
        /\ handler'.firstUnit = handler.firstUnit
    BY <1>1, <1>4 DEF WaitStep, SeekStep, PlayerFrame, serverVars, Prepare, ConnectReturns,
       BufferingUpdate, DisconnectReturns, Play, Decode, StreamDone, Reset, Seek, Dies,
       sessionVars, HandlerType
  <2>2. \/ mailbox' = mailbox
        \/ mailbox' = Append(mailbox, Connect)
        \/ mailbox' = Append(mailbox, Abor(FALSE))
        \/ mailbox' = Append(mailbox, [what |-> "seek"])
    BY <1>4 DEF WaitStep, SeekStep, Prepare, ConnectReturns, BufferingUpdate,
                DisconnectReturns, Play, Decode, StreamDone, Reset, Seek, Dies,
                playerVars
  <2>3. ASSUME NEW x \in Msg, mailbox' = Append(mailbox, x), x.what # "chek"
        PROVE  SameChecks
    <3>1. \A M : /\ Total(mailbox', pending', M) = Total(mailbox, pending, M) + One(x, M)
                 /\ Total(mailbox, pending, M) \in Nat /\ One(x, M) \in {0, 1}
      BY <2>1, <2>3, PostsFlow, TotalTypes DEF Adds, TypeOK
    <3>2. ASSUME NEW g \in Nat PROVE Checking(g)' = Checking(g)
      <4> DEFINE M == {Chek(g)}
      <4>1. One(x, M) = 0
        BY <2>3, CheckForms DEF One
      <4> HIDE DEF M
      <4>2. Total(mailbox', pending', M) = Total(mailbox, pending, M)
        BY <3>1, <4>1
      <4> QED
        BY <4>2 DEF Checking, M
    <3>3. Aborting > 0 => Aborting' > 0
      <4> DEFINE M == {Abor(FALSE)}
      <4> HIDE DEF M
      <4>1. Total(mailbox, pending, M) > 0 => Total(mailbox', pending', M) > 0
        BY <3>1
      <4> QED
        BY <4>1 DEF Aborting, M
    <3> QED
      BY <3>2, <3>3 DEF SameChecks
  <2>4. SameChecks
    <3>1. CASE mailbox' = mailbox
      BY <2>1, <3>1 DEF SameChecks, Checking, Aborting
    <3>2. /\ Connect \in Msg /\ Abor(FALSE) \in Msg /\ [what |-> "seek"] \in Msg
          /\ Connect.what # "chek" /\ Abor(FALSE).what # "chek"
          /\ [what |-> "seek"].what # "chek"
      BY Posted, CheckForms DEF Connect
    <3> QED
      BY <2>2, <2>3, <3>1, <3>2
  <2> QED
    BY <1>1, <2>1, <2>4, CheckStays
<1>5. CASE \E m \in timers : Expires(m)
  BY <1>1, <1>5, ExpiryChecks
<1> QED
  BY <1>2, <1>3, <1>4, <1>5, Steps DEF FailStep

\* What is counted of the invariant is what CheckArmed speaks of.
LEMMA CheckCounts ==
  ASSUME TypeOK, CheckInv
  PROVE  CheckArmed
<1> SUFFICES ASSUME crashed = Alive, tracks # <<>>, ~handler.firstUnit,
                    NEW armed, armed = Cardinality(Checks(mailbox))
                             + Cardinality(timers \cap {Chek(handler.checkGen)})
             PROVE  IF handler.seekPending THEN armed = 0
                    ELSE \/ armed = 1
                         \/ \E i \in DOMAIN mailbox : mailbox[i] = Abor(FALSE)
  BY DEF CheckArmed
<1> DEFINE g == handler.checkGen
<1>1. g \in Nat /\ BoxTypes /\ Checking(g) \in Nat
  BY ArmedTypes DEF TypeOK
<1>2. Cardinality(Checks(mailbox)) = Checking(g)
  <2>1. Cardinality(Checks(mailbox)) = Count(mailbox, {Chek(g)})
    BY DEF Checks, Count, Occurs
  <2>2. Count(pending, {Chek(g)}) = 0
    <3>1. Due \cap {Chek(g)} = {}
      BY <1>1, MailTypes, AwaitedFields, CheckForms
    <3> QED
      BY <1>1, <3>1, MailTypes
  <2>3. Count(mailbox, {Chek(g)}) \in Nat
    BY <1>1, MailTypes
  <2> QED
    BY <2>1, <2>2, <2>3 DEF Checking, Total
<1>3. Cardinality(timers \cap {Chek(g)}) = IF Chek(g) \in timers THEN 1 ELSE 0
  <2>1. Chek(g) \in timers => timers \cap {Chek(g)} = {Chek(g)}
    OBVIOUS
  <2>2. Chek(g) \notin timers => timers \cap {Chek(g)} = {}
    OBVIOUS
  <2> QED
    BY <2>1, <2>2, FS_EmptySet, FS_Singleton
<1>4. armed = Armed[g]
  BY <1>1, <1>2, <1>3 DEF Armed
<1>5. Aborting > 0 => \E i \in DOMAIN mailbox : mailbox[i] = Abor(FALSE)
  <2> DEFINE a == Abor(FALSE)
             M == {a}
  <2>1. Count(pending, M) = 0
    <3>1. a.what = "abor"
      BY CheckForms
    <3>2. Due \cap M = {}
      BY <1>1, <3>1, MailTypes, AwaitedFields
    <3> QED
      BY <1>1, <3>2, MailTypes
  <2>2. Aborting = Count(mailbox, M) + Count(pending, M) /\ Count(mailbox, M) \in Nat
    BY <1>1, MailTypes DEF Aborting, Total
  <2>3. Aborting > 0 => Count(mailbox, M) # 0
    BY <2>1, <2>2
  <2>4. Count(mailbox, M) # 0 => Mail \cap M # {}
    BY <1>1, MailTypes
  <2>5. a \in Mail => \E i \in DOMAIN mailbox : mailbox[i] = a
    BY SetOf DEF Mail
  <2> QED
    BY <2>3, <2>4, <2>5
<1> QED
  BY <1>4, <1>5 DEF CheckInv

\* DSPGMyHandler.h:55-58, 893-926: from its first access unit on a session that
\* has tracks always has one check of the current generation on its way, posted
\* or delayed, or the abort that it led to; none while it seeks.  Two checks would
\* take a pause between units for the end, none would leave the player waiting.
THEOREM ChecksAreArmed == Spec => []CheckArmed
<1>1. Init => CheckInv
  <2> SUFFICES ASSUME Init PROVE CheckInv
    OBVIOUS
  <2>1. /\ mailbox = <<>> /\ pending = <<>> /\ timers = {} /\ tracks = <<>>
        /\ handler.firstUnit /\ ~handler.seekPending
    BY DEF Init
  <2>2. \A g \in Nat : Armed[g] = 0
    BY <2>1, CountEmpty DEF Armed, Checking, Total
  <2> QED
    BY <2>1, <2>2 DEF CheckInv
<1>2. TypeOK /\ SeekInv /\ FeedInv /\ CheckInv /\ [Next]_vars => CheckInv'
  <2> SUFFICES ASSUME TypeOK, SeekInv, FeedInv, CheckInv, [Next]_vars PROVE CheckInv'
    OBVIOUS
  <2>1. CASE Next
    BY <2>1, SessionAssumption, CheckKept
  <2>2. CASE UNCHANGED vars
    <3>1. UNCHANGED <<mailbox, pending, handler, tracks, timers, crashed>>
      BY <2>2 DEF vars, sessionVars, serverVars
    <3>2. Armed' = Armed /\ Aborting' = Aborting
      BY <3>1 DEF Armed, Checking, Aborting
    <3> QED
      BY <3>1, <3>2 DEF CheckInv
  <2> QED
    BY <2>1, <2>2
<1>3. TypeOK /\ CheckInv => CheckArmed
  BY CheckCounts
<1> QED
  BY <1>1, <1>2, <1>3, FeedIsInvariant, PTL DEF Spec
=============================================================================
