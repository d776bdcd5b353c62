-------------------------- MODULE RTSPStreamsProofs --------------------------
(***************************************************************************)
(* More proofs about RTSPSession, which rest on those of                   *)
(* RTSPSessionProofs: what the sources of a session hold, and so what the  *)
(* decoders get; what the RTP connection is told of the tracks, and so why *)
(* the assertions of both hold.                                            *)
(***************************************************************************)
EXTENDS RTSPSessionProofs

-----------------------------------------------------------------------------
(* The sources.  Each track has one of its own, which holds nothing from   *)
(* before its segment.                                                     *)

\* A source that was flushed holds nothing in front of an IDR frame.
Clean(s) == s.fresh /\ s.avc =>
               IF s.buffers = <<>> THEN s.scanForIDR ELSE Head(s.buffers).idr

Since(s, first) == \A k \in DOMAIN s.buffers : s.buffers[k].seg >= first

\* Each track has a source of its own, and no unit from before its segment, if
\* the server told that from what was played before.
Served(list, sources) ==
    /\ \A i, j \in DOMAIN list : i < j => list[i].index < list[j].index
    /\ \A i \in DOMAIN list : list[i].index \in DOMAIN sources
    /\ \A i \in DOMAIN list :
          list[i].told => Since(sources[list[i].index], list[i].firstSeg)

CleanSources(sources) == \A i \in DOMAIN sources : Clean(sources[i])

SourceInv == Served(tracks, source) /\ CleanSources(source)

LEMMA CleanForms ==
  ASSUME NEW s \in SourceType, Clean(s)
  PROVE  /\ \A u \in Units : Clean(QueueAccessUnit(s, u))
         /\ Clean(SignalEOS(s)) /\ Clean(FlushedBySeek(s))
         /\ HasUnit(s) => Clean(AfterRead(s))
<1>1. s.avc \in BOOLEAN /\ s.scanForIDR \in BOOLEAN /\ s.buffers \in Seq(Units)
  BY DEF SourceType
<1>2. ASSUME NEW u \in Units PROVE Clean(QueueAccessUnit(s, u))
  <2> DEFINE q == Append(s.buffers, u)
  <2>1. q # <<>> /\ Head(q) = IF s.buffers = <<>> THEN u ELSE Head(s.buffers)
    BY <1>1, AppendProperties
  <2>2. CASE u.damaged \/ Skipped(s, u)
    BY <2>2 DEF QueueAccessUnit
  <2>3. CASE ~(u.damaged \/ Skipped(s, u))
    <3> HIDE DEF q
    <3> DEFINE t == [s EXCEPT !.buffers = q, !.scanForIDR = @ /\ ~s.avc]
    <3>1. QueueAccessUnit(s, u) = t
      BY <2>3 DEF QueueAccessUnit, q
    <3>2. t.buffers = q /\ t.fresh = s.fresh /\ t.avc = s.avc
      BY DEF SourceType
    <3> HIDE DEF t
    <3> QED
      BY <2>1, <2>3, <3>1, <3>2 DEF Clean, Skipped
  <2> QED
    BY <2>2, <2>3
<1>3. Clean(SignalEOS(s))
  BY DEF SignalEOS, SourceType, Clean
<1>4. Clean(FlushedBySeek(s))
  BY DEF FlushedBySeek, FlushQueue, SourceType, Clean
<1>5. Clean(AfterRead(s))
  BY DEF AfterRead, SourceType, Clean
<1> QED
  BY <1>2, <1>3, <1>4, <1>5

LEMMA SinceForms ==
  ASSUME NEW s \in SourceType, NEW first \in Nat, Since(s, first)
  PROVE  /\ \A u \in Units : u.seg >= first => Since(QueueAccessUnit(s, u), first)
         /\ Since(SignalEOS(s), first) /\ Since(FlushedBySeek(s), first)
         /\ HasUnit(s) => Since(AfterRead(s), first)
<1>1. /\ s.buffers \in Seq(Units) /\ Len(s.buffers) \in Nat
      /\ DOMAIN s.buffers = 1 .. Len(s.buffers)
  BY LenProperties DEF SourceType
<1>2. ASSUME NEW u \in Units, u.seg >= first
      PROVE  Since(QueueAccessUnit(s, u), first)
  <2> DEFINE q == Append(s.buffers, u)
  <2>1. \A k \in DOMAIN q : q[k] = u \/ \E j \in DOMAIN s.buffers : q[k] = s.buffers[j]
    BY <1>1, AppendProperties
  <2>2. \A k \in DOMAIN q : q[k].seg >= first
    BY <1>2, <2>1 DEF Since
  <2> HIDE DEF q
  <2>3. [s EXCEPT !.buffers = q, !.scanForIDR = @ /\ ~s.avc].buffers = q
    BY DEF SourceType
  <2> QED
    BY <2>2, <2>3 DEF QueueAccessUnit, Since, q
<1>3. Since(SignalEOS(s), first)
  BY DEF SignalEOS, SourceType, Since
<1>4. Since(FlushedBySeek(s), first)
  <2>1. FlushedBySeek(s).buffers = <<>>
    BY DEF FlushedBySeek, FlushQueue, SourceType
  <2> QED
    BY <2>1 DEF Since
<1>5. ASSUME HasUnit(s) PROVE Since(AfterRead(s), first)
  <2> DEFINE q == Tail(s.buffers)
  <2>1. \A k \in DOMAIN q : \E j \in DOMAIN s.buffers : q[k] = s.buffers[j]
    BY <1>1, <1>5, HeadTailProperties DEF HasUnit
  <2> HIDE DEF q
  <2>2. AfterRead(s).buffers = q
    BY DEF AfterRead, SourceType, q
  <2> QED
    BY <2>1, <2>2 DEF Since
<1> QED
  BY <1>2, <1>3, <1>4, <1>5

\* Units are of a segment.
LEMMA UnitsHaveSegments ==
  ASSUME SessionAssumption, NEW s \in SourceType
  PROVE  Since(s, 0)
<1>1. \A u \in Units : u.seg >= 0
  <2>1. /\ Units \subseteq [seg : 0 .. MaxSeeks, idr : BOOLEAN, damaged : {FALSE}]
        /\ MaxSeeks \in Nat
    BY DEF SessionAssumption
  <2>2. \A u \in Units : u.seg \in 0 .. MaxSeeks
    BY <2>1
  <2> QED
    BY <2>1, <2>2
<1>2. \A k \in DOMAIN s.buffers : s.buffers[k] \in Units
  BY LenProperties, ElementOfSeq DEF SourceType
<1> QED
  BY <1>1, <1>2 DEF Since

\* Sources that change without getting older units.
LEMMA ServedStill ==
  ASSUME NEW list \in Seq(TrackType), NEW sources, NEW news,
         Served(list, sources), DOMAIN news = DOMAIN sources,
         \A i \in DOMAIN list :
            list[i].told => Since(news[list[i].index], list[i].firstSeg)
  PROVE  Served(list, news)
BY DEF Served

\* A track that is set up: its source is new, its index the highest.
LEMMA SetupServes ==
  ASSUME NEW index \in 1 .. NumTracks, NEW list \in Seq(TrackType), NEW sources,
         SessionAssumption, handler \in HandlerType,
         SetupTrack(index, list, sources),
         Served(list, sources), CleanSources(sources),
         \A i \in DOMAIN list : list[i].index < index
  PROVE  SourceInv'
<1>1. CASE tracks' = list /\ source' = sources
  BY <1>1 DEF SourceInv
<1>2. ASSUME NEW f,
             source' = [i \in {index} \cup DOMAIN sources |->
                           IF i = index THEN NewSource(f) ELSE sources[i]],
             tracks' = Append(list, [index |-> index, firstSeg |-> 0, told |-> TRUE,
                                     socket |-> SocketOf(index, list)])
      PROVE  SourceInv'
  <2> DEFINE t == [index |-> index, firstSeg |-> 0, told |-> TRUE, socket |-> SocketOf(index, list)]
             q == Append(list, t)
  <2>1. /\ Len(list) \in Nat /\ DOMAIN list = 1 .. Len(list)
        /\ \A i \in DOMAIN list : list[i] \in TrackType
    BY LenProperties, ElementOfSeq
  <2>2. /\ DOMAIN q = 1 .. Len(list) + 1
        /\ q[Len(list) + 1].index = index /\ q[Len(list) + 1].firstSeg = 0
        /\ \A i \in DOMAIN list : q[i] = list[i]
    BY <2>1
  <2> HIDE DEF t, q
  <2>3. tracks' = q
    BY <1>2 DEF q, t
  <2>4. \A i \in DOMAIN q : i \in DOMAIN list \/ i = Len(list) + 1
    BY <2>1, <2>2
  <2>5. \A i, j \in DOMAIN q : i < j => q[i].index < q[j].index
    BY <2>1, <2>2 DEF Served
  <2>6. DOMAIN source' = {index} \cup DOMAIN sources
    BY <1>2
  <2>7. \A i \in DOMAIN q : q[i].index \in DOMAIN source'
    BY <2>2, <2>4, <2>6 DEF Served
  <2>8. NewSource(f).buffers = <<>> /\ ~NewSource(f).fresh
    BY DEF NewSource
  <2>9. source'[index] = NewSource(f)
        /\ \A i \in DOMAIN sources : i # index => source'[i] = sources[i]
    BY <1>2
  <2>10. \A i \in DOMAIN list : list[i].index # index
    BY <2>1 DEF TrackType
  <2>11. Since(source'[index], 0)
    BY <2>8, <2>9 DEF Since
  <2>12. \A i \in DOMAIN q : q[i].told => Since(source'[q[i].index], q[i].firstSeg)
    BY <2>2, <2>4, <2>9, <2>10, <2>11 DEF Served
  <2>13. CleanSources(source')
    BY <2>6, <2>8, <2>9 DEF CleanSources, Clean
  <2> QED
    BY <2>3, <2>5, <2>7, <2>12, <2>13 DEF SourceInv, Served, CleanSources
<1> QED
  BY <1>1, <1>2 DEF SetupTrack

\* The request or reply a message holds.
Content(m) == IF m.what = "send" THEN m.reply ELSE m

\* A SETUP is about the track that was added last, or skips a format.
Fits(r, list) ==
    IF r.track = NoTrack THEN \A i \in DOMAIN list : list[i].index < r.index
    ELSE /\ list # <<>> /\ r.track = Len(list)
         /\ list[Len(list)].index = r.index

Emptied == \A t \in DOMAIN tracks : SourceOf(t).buffers = <<>>

LEMMA RemoveLast ==
  ASSUME NEW S, NEW s \in Seq(S), s # <<>>, NEW r, r = RemoveAt(s, Len(s))
  PROVE  /\ DOMAIN r = 1 .. Len(s) - 1
         /\ \A i \in DOMAIN r : i \in DOMAIN s /\ i < Len(s) /\ r[i] = s[i]
<1> DEFINE n == Len(s)
<1>1. n \in Nat /\ n >= 1 /\ DOMAIN s = 1 .. n
  BY LenProperties, EmptySeq
<1>2. /\ Len(SubSeq(s, 1, n - 1)) = n - 1 /\ Len(SubSeq(s, n + 1, n)) = 0
      /\ \A i \in 1 .. n - 1 : SubSeq(s, 1, n - 1)[i] = s[i]
      /\ SubSeq(s, 1, n - 1) \in Seq(S) /\ SubSeq(s, n + 1, n) \in Seq(S)
  <2>1. \A i \in 1 .. n - 1 : s[i] \in S
    BY <1>1, ElementOfSeq
  <2>2. \A i \in n + 1 .. n : s[i] \in S
    BY <1>1
  <2>3. /\ Len(SubSeq(s, 1, n - 1)) = n - 1
        /\ \A i \in 1 .. n - 1 : SubSeq(s, 1, n - 1)[i] = s[i]
        /\ SubSeq(s, 1, n - 1) \in Seq(S)
    BY <1>1, <2>1, SubSeqProperties
  <2>4. Len(SubSeq(s, n + 1, n)) = 0 /\ SubSeq(s, n + 1, n) \in Seq(S)
    BY <1>1, <2>2, SubSeqProperties
  <2> QED
    BY <2>3, <2>4
<1>3. r = SubSeq(s, 1, n - 1) \o SubSeq(s, n + 1, n)
  BY DEF RemoveAt
<1>4. SubSeq(s, n + 1, n) = <<>>
  BY <1>2, EmptySeq
<1>5. r = SubSeq(s, 1, n - 1)
  BY <1>2, <1>3, <1>4, ConcatEmptySeq
<1>6. DOMAIN SubSeq(s, 1, n - 1) = 1 .. n - 1
  BY <1>2, LenProperties
<1> QED
  BY <1>1, <1>2, <1>5, <1>6

\* What is left after a SETUP that was answered.
LEMMA KeptServes ==
  ASSUME TypeOK, mailbox # <<>>, Current.what = "setu", Fits(Current, tracks),
         SourceInv
  PROVE  /\ ~TrackGone
         /\ Served(KeptTracks, KeptSources) /\ CleanSources(KeptSources)
         /\ \A i \in DOMAIN KeptTracks : KeptTracks[i].index < Current.index + 1
<1> DEFINE n == Len(tracks)
<1>1. /\ tracks \in Seq(TrackType) /\ DOMAIN tracks = 1 .. n /\ n \in Nat
      /\ \A i \in DOMAIN tracks : tracks[i].index \in Nat
  <2>1. tracks \in Seq(TrackType)
    BY DEF TypeOK, SessionTypes
  <2>2. \A i \in DOMAIN tracks : tracks[i] \in TrackType
    BY <2>1, LenProperties, ElementOfSeq
  <2> QED
    BY <2>1, <2>2, LenProperties DEF TrackType
<1>2. Current.index \in 1 .. NumTracks /\ Current.index \in Nat
  BY CurrentIs, MsgFields
<1>3. \A i, j \in DOMAIN tracks : i < j => tracks[i].index < tracks[j].index
  BY DEF SourceInv, Served
<1>4. CASE Current.track = NoTrack
  <2>1. KeptTracks = tracks /\ KeptSources = source /\ ~TrackGone
    BY <1>4 DEF KeptTracks, KeptSources, TrackGone
  <2>2. \A i \in DOMAIN tracks : tracks[i].index < Current.index
    BY <1>4 DEF Fits
  <2>3. \A i \in DOMAIN tracks : tracks[i].index < Current.index + 1
    BY <1>1, <1>2, <2>2
  <2> QED
    BY <2>1, <2>3 DEF SourceInv
<1>5. CASE Current.track # NoTrack
  <2>1. tracks # <<>> /\ Current.track = n /\ tracks[n].index = Current.index
    BY <1>5 DEF Fits
  <2>2. n \in DOMAIN tracks
    BY <1>1, <2>1, EmptySeq
  <2>3. ~TrackGone
    BY <2>1, <2>2 DEF TrackGone
  <2>4. \A i \in DOMAIN tracks : i < n => tracks[i].index < Current.index
    BY <1>3, <2>1, <2>2
  <2>5. CASE IsSet
    <3>1. KeptTracks = tracks /\ KeptSources = source
      BY <2>5 DEF KeptTracks, KeptSources
    <3>2. \A i \in DOMAIN tracks : i < n \/ i = n
      BY <1>1
    <3>3. \A i \in DOMAIN tracks : tracks[i].index < Current.index + 1
      BY <1>1, <1>2, <2>1, <2>4, <3>2
    <3> QED
      BY <2>3, <3>1, <3>3 DEF SourceInv
  <2>6. CASE ~IsSet
    <3> DEFINE list == KeptTracks
               sources == KeptSources
    <3>1. list = RemoveAt(tracks, n)
      BY <1>5, <2>1, <2>6 DEF KeptTracks
    <3>2. sources = Restrict(source, DOMAIN source \ {Current.index})
      BY <1>5, <2>6 DEF KeptSources
    <3>3. /\ DOMAIN list = 1 .. n - 1
          /\ \A i \in DOMAIN list : i \in DOMAIN tracks /\ i < n /\ list[i] = tracks[i]
      <4> HIDE DEF list
      <4> QED
        BY <1>1, <2>1, <3>1, RemoveLast
    <3>4. /\ DOMAIN sources = DOMAIN source \ {Current.index}
          /\ \A i \in DOMAIN sources : sources[i] = source[i]
      BY <3>2 DEF Restrict
    <3> HIDE DEF list, sources
    <3>5. \A i \in DOMAIN list : list[i].index < Current.index
      BY <2>4, <3>3
    <3>6. \A i \in DOMAIN list : list[i].index \in DOMAIN sources
      BY <1>1, <1>2, <3>3, <3>4, <3>5 DEF SourceInv, Served
    <3>7. Served(list, sources)
      BY <3>3, <3>4, <3>6 DEF SourceInv, Served
    <3>8. CleanSources(sources)
      BY <3>4 DEF SourceInv, CleanSources
    <3>9. \A i \in DOMAIN list : list[i].index < Current.index + 1
      BY <1>1, <1>2, <3>3, <3>5
    <3> QED
      BY <2>3, <3>7, <3>8, <3>9 DEF list, sources
  <2> QED
    BY <2>5, <2>6
<1> QED
  BY <1>4, <1>5

-----------------------------------------------------------------------------
(* What every step does to the sources.                                    *)

LEMMA HandlerSources ==
  ASSUME TypeOK, SourceInv, HandlerStep, crashed = Alive, SessionAssumption,
         OnDesc => tracks = <<>>, OnSetu => Fits(Current, tracks),
         OnPlay => segment = 0, OnSee2 => Emptied
  PROVE  SourceInv'
<1>1. /\ handler \in HandlerType /\ tracks \in Seq(TrackType) /\ mailbox # <<>>
      /\ DOMAIN source \subseteq 1 .. NumTracks /\ segment \in Nat
      /\ source \in [DOMAIN source -> SourceType]
      /\ \A i \in DOMAIN source : source[i] \in SourceType
      /\ \A i \in DOMAIN tracks : /\ tracks[i].firstSeg \in Nat
                                  /\ tracks[i].index \in DOMAIN source
  <2>1. /\ handler \in HandlerType /\ tracks \in Seq(TrackType) /\ mailbox # <<>>
        /\ DOMAIN source \subseteq 1 .. NumTracks /\ segment \in Nat
        /\ source \in [DOMAIN source -> SourceType]
    BY DEF TypeOK, SessionTypes, PlayerTypes, HandlerStep
  <2>2. \A i \in DOMAIN tracks : tracks[i] \in TrackType
    BY <2>1, LenProperties, ElementOfSeq
  <2> QED
    BY <2>1, <2>2 DEF TrackType, SourceInv, Served
<1>2. CASE UNCHANGED <<tracks, source>>
  BY <1>2 DEF SourceInv, Served, CleanSources, Clean
<1>3. CASE OnConn \/ OnDisc \/ OnTear \/ OnBiny
  BY <1>2, <1>3 DEF OnConn, OnDisc, OnTear, OnBiny, sessionVars
<1>4. CASE OnQuit \/ OnChek \/ OnFirstPacket \/ OnSeek \/ OnTiou
  BY <1>2, <1>4 DEF OnQuit, OnChek, OnFirstPacket, OnSeek, OnTiou
<1>5. CASE OnDesc
  <2>1. CASE SetupTrack(1, tracks, source)
    <3>1. 1 \in 1 .. NumTracks
      BY SessionAssumption
    <3>2. \A i \in DOMAIN tracks : tracks[i].index < 1
      BY <1>5
    <3> QED
      BY <1>1, <2>1, <3>1, <3>2, SetupServes DEF SourceInv
  <2> QED
    BY <1>2, <1>5, <2>1 DEF OnDesc
<1>6. CASE OnSetu
  <2>1. Current.what = "setu" /\ Fits(Current, tracks)
    BY <1>6 DEF OnSetu
  <2>2. /\ ~TrackGone
        /\ Served(KeptTracks, KeptSources) /\ CleanSources(KeptSources)
        /\ \A i \in DOMAIN KeptTracks : KeptTracks[i].index < Current.index + 1
    BY <1>1, <2>1, KeptServes
  <2>3. KeptTracks \in Seq(TrackType) /\ Current.index \in 1 .. NumTracks
    BY <1>1, <2>1, <2>2, KeptTypes
  <2>4. CASE tracks' = KeptTracks /\ source' = KeptSources
    BY <2>2, <2>4 DEF SourceInv
  <2>5. CASE /\ Current.index < NumTracks
             /\ SetupTrack(Current.index + 1, KeptTracks, KeptSources)
    <3>1. Current.index + 1 \in 1 .. NumTracks
      BY <2>3, <2>5, SessionAssumption
    <3> QED
      BY <1>1, <2>2, <2>3, <2>5, <3>1, SetupServes
  <2> QED
    BY <1>6, <2>2, <2>4, <2>5, OnSetuPosts
<1>7. CASE OnPlay
  <2>1. CASE ~Failed(Current)
    <3> DEFINE list == ParsePlayResponse(Current.result, tracks, DOMAIN tracks)
    <3>1. tracks' = list /\ source' = source /\ segment = 0
      BY <1>7, <2>1 DEF OnPlay
    <3>2. /\ DOMAIN list = DOMAIN tracks
          /\ \A i \in DOMAIN tracks :
                /\ list[i].index = tracks[i].index
                /\ list[i].told => list[i].firstSeg = 0
      BY <1>1, <3>1, ParseTypes
    <3> HIDE DEF list
    <3>3. \A i \in DOMAIN tracks : Since(source[tracks[i].index], 0)
      BY <1>1, UnitsHaveSegments
    <3>4. Served(list, source)
      BY <3>2, <3>3 DEF SourceInv, Served
    <3> QED
      BY <3>1, <3>4 DEF SourceInv
  <2>2. CASE Failed(Current)
    BY <1>2, <1>7, <2>2 DEF OnPlay
  <2> QED
    BY <2>1, <2>2
<1>8. CASE OnAbor
  <2>1. CASE UNCHANGED sessionVars
    BY <1>2, <2>1 DEF sessionVars
  <2>2. CASE ~UNCHANGED sessionVars
    <3> DEFINE f == [i \in DOMAIN source |->
                       IF \E t \in DOMAIN tracks : tracks[t].index = i
                       THEN SignalEOS(source[i]) ELSE source[i]]
    <3>1. tracks' = <<>> /\ source' = Kept(f)
      BY <1>8, <2>2, OnAborPosts
    <3>2. CleanSources(f)
      BY <1>1, CleanForms DEF SourceInv, CleanSources
    <3>3. CleanSources(<<>>)
      BY DEF CleanSources
    <3> HIDE DEF f
    <3>4. CleanSources(source')
      BY <3>1, <3>2, <3>3 DEF Kept
    <3> QED
      BY <3>1, <3>4 DEF SourceInv, Served
  <2> QED
    BY <2>1, <2>2
<1>9. CASE OnAccessUnit
  <2>1. CASE crashed' = "first unit"
    <3>1. crashed # "first unit"
      BY DEF Alive
    <3>2. UNCHANGED sessionVars
      BY <1>9, <2>1, <3>1, OnAccessUnitPosts
    <3> QED
      BY <1>2, <3>2 DEF sessionVars
  <2>2. CASE crashed' # "first unit"
    <3>1. /\ tracks' = tracks /\ Current \in Notices
          /\ source' = IF Wanted(Current)
                       THEN [source EXCEPT ![tracks[Current.track].index] =
                                QueueAccessUnit(@, Current.unit[1])]
                       ELSE source
      BY <1>9, <2>2, OnAccessUnitPosts
    <3>2. CASE ~Wanted(Current)
      BY <1>2, <3>1, <3>2
    <3>3. CASE Wanted(Current)
      <4> DEFINE t == Current.track
                 u == Current.unit[1]
                 k == tracks[t].index
                 v == QueueAccessUnit(source[k], u)
      <4>1. u \in Units
        BY <3>1, <3>3, NoticeFields DEF Wanted
      <4>2. /\ t \in DOMAIN tracks
            /\ tracks[t].told => u.seg >= tracks[t].firstSeg
        BY <3>3 DEF Wanted
      <4>3. k \in DOMAIN source /\ source[k] \in SourceType /\ tracks[t].firstSeg \in Nat
        BY <1>1, <4>2
      <4>4. /\ Clean(source[k])
            /\ tracks[t].told => Since(source[k], tracks[t].firstSeg)
        BY <4>2, <4>3 DEF SourceInv, CleanSources, Served
      <4>5. Clean(v) /\ (tracks[t].told => Since(v, tracks[t].firstSeg))
        <5>1. Clean(v)
          BY <4>1, <4>3, <4>4, CleanForms
        <5>2. tracks[t].told => Since(v, tracks[t].firstSeg)
          BY <4>1, <4>2, <4>3, <4>4, SinceForms
        <5> QED
          BY <5>1, <5>2
      <4>6. source' = [source EXCEPT ![k] = v]
        BY <3>1, <3>3
      <4> HIDE DEF v
      <4>7. /\ DOMAIN source' = DOMAIN source /\ source'[k] = v
            /\ \A i \in DOMAIN source : i # k => source'[i] = source[i]
        BY <4>3, <4>6
      <4>8. \A i \in DOMAIN tracks : tracks[i].index = k => i = t
        <5>1. \A i, j \in DOMAIN tracks : i < j => tracks[i].index < tracks[j].index
          BY DEF SourceInv, Served
        <5>2. /\ \A i \in DOMAIN tracks : i \in Nat /\ tracks[i].index \in Nat
          BY <1>1, LenProperties
        <5> QED
          BY <4>2, <5>1, <5>2
      <4> HIDE DEF k, t, u
      <4>9. \A i \in DOMAIN tracks :
               tracks[i].told => Since(source'[tracks[i].index], tracks[i].firstSeg)
        BY <1>1, <4>5, <4>7, <4>8 DEF SourceInv, Served
      <4>10. Served(tracks, source')
        BY <1>1, <4>7, <4>9, ServedStill DEF SourceInv
      <4>11. CleanSources(source')
        BY <4>5, <4>7 DEF SourceInv, CleanSources
      <4> QED
        BY <3>1, <4>10, <4>11 DEF SourceInv
    <3> QED
      BY <3>2, <3>3
  <2> QED
    BY <2>1, <2>2
<1>10. CASE OnSee1
  <2>1. /\ tracks' = tracks
        /\ source' = [i \in DOMAIN source |->
              IF \E n \in DOMAIN tracks : tracks[n].index = i
              THEN FlushedBySeek(source[i]) ELSE source[i]]
    BY <1>10 DEF OnSee1
  <2>2. /\ DOMAIN source' = DOMAIN source
        /\ \A i \in DOMAIN source : source'[i] \in {source[i], FlushedBySeek(source[i])}
    BY <2>1
  <2>3. CleanSources(source')
    BY <1>1, <2>2, CleanForms DEF SourceInv, CleanSources
  <2>4. \A i \in DOMAIN tracks :
           tracks[i].told => Since(source'[tracks[i].index], tracks[i].firstSeg)
    BY <1>1, <2>2, SinceForms DEF SourceInv, Served
  <2>5. Served(tracks, source')
    BY <1>1, <2>2, <2>4, ServedStill DEF SourceInv
  <2> QED
    BY <2>1, <2>3, <2>5 DEF SourceInv
<1>11. CASE OnSee2
  <2>1. CASE UNCHANGED sessionVars
    BY <1>2, <2>1 DEF sessionVars
  <2>2. CASE handler.seekPending /\ ~Failed(Current)
    <3>0. PICK told \in SUBSET DOMAIN tracks :
                tracks' = ParsePlayResponse(Current.result, tracks, told)
      BY <1>11, <2>2 DEF OnSee2
    <3> DEFINE list == ParsePlayResponse(Current.result, tracks, told)
    <3>1. tracks' = list /\ source' = source
      BY <1>11, <2>2, <3>0 DEF OnSee2
    <3>2. /\ DOMAIN list = DOMAIN tracks
          /\ \A i \in DOMAIN tracks : list[i].index = tracks[i].index
      BY <1>1, <3>1, ParseTypes
    <3> HIDE DEF list
    <3>3. \A i \in DOMAIN tracks : source[list[i].index].buffers = <<>>
      BY <1>11, <3>2 DEF Emptied, SourceOf
    <3>4. \A i \in DOMAIN tracks : Since(source[list[i].index], list[i].firstSeg)
      BY <3>3 DEF Since
    <3>5. Served(list, source)
      BY <3>2, <3>4 DEF SourceInv, Served
    <3> QED
      BY <3>1, <3>5 DEF SourceInv
  <2>3. CASE handler.seekPending /\ Failed(Current)
    BY <1>2, <1>11, <2>3 DEF OnSee2
  <2> QED
    BY <1>11, <2>1, <2>2, <2>3, OnSee2Posts
<1> QED
  BY <1>3, <1>4, <1>5, <1>6, <1>7, <1>8, <1>9, <1>10, <1>11 DEF HandlerStep, Handler

\* Nobody else gives a source a unit, or touches the tracks.
LEMMA OtherSources ==
  ASSUME TypeOK, SourceInv,
         ConnectionStep \/ ControllerStep \/ NetworkStep \/ ServerStep \/ SeekStep
           \/ WaitStep \/ FailStep \/ \E m \in timers : Expires(m)
  PROVE  SourceInv' /\ tracks' = tracks
<1>1. CASE UNCHANGED <<tracks, source>>
  BY <1>1 DEF SourceInv, Served, CleanSources, Clean
<1>2. CASE ConnectionStep \/ ControllerStep \/ NetworkStep \/ ServerStep
  BY <1>1, <1>2 DEF ConnectionStep, ConnectionFrame, ControllerStep,
                    ControllerFrame, NetworkStep, NetFrame, ServerStep,
                    ServerFrame, sessionVars
<1>3. CASE SeekStep
  BY <1>1, <1>3 DEF SeekStep, Seek, Dies, sessionVars
<1>4. ASSUME NEW m \in timers, Expires(m) PROVE SourceInv' /\ tracks' = tracks
  BY <1>1, <1>4 DEF Expires
<1>5. CASE WaitStep
  <2>1. CASE Reset
    <3>1. tracks' = tracks /\ source' = IF tracks = <<>> THEN <<>> ELSE source
      BY <2>1 DEF Reset
    <3>2. CASE tracks = <<>>
      <4>1. tracks' = <<>> /\ source' = <<>>
        BY <3>1, <3>2
      <4> QED
        BY <3>1, <4>1 DEF SourceInv, Served, CleanSources
    <3> QED
      BY <1>1, <3>1, <3>2
  <2>2. CASE Decode
    <3>1. PICK k \in DOMAIN source : /\ HasUnit(source[k])
                                     /\ source' = [source EXCEPT ![k] = AfterRead(@)]
      BY <2>2 DEF Decode
    <3> DEFINE v == AfterRead(source[k])
    <3>2. /\ \A i \in DOMAIN source : source[i] \in SourceType
          /\ tracks \in Seq(TrackType)
          /\ \A i \in DOMAIN tracks : tracks[i].firstSeg \in Nat
      <4>1. tracks \in Seq(TrackType) /\ source \in [DOMAIN source -> SourceType]
        BY DEF TypeOK, SessionTypes
      <4>2. \A i \in DOMAIN tracks : tracks[i] \in TrackType
        BY <4>1, LenProperties, ElementOfSeq
      <4> QED
        BY <4>1, <4>2 DEF TrackType
    <3>3. source' = [source EXCEPT ![k] = v] /\ tracks' = tracks
      BY <2>2, <3>1 DEF Decode
    <3>4. /\ Clean(v)
          /\ \A first \in Nat : Since(source[k], first) => Since(v, first)
      <4>1. Clean(source[k])
        BY DEF SourceInv, CleanSources
      <4>2. Clean(v)
        BY <3>1, <3>2, <4>1, CleanForms
      <4>3. \A first \in Nat : Since(source[k], first) => Since(v, first)
        BY <3>1, <3>2, SinceForms
      <4> QED
        BY <4>2, <4>3
    <3> HIDE DEF v
    <3>5. /\ DOMAIN source' = DOMAIN source
          /\ \A i \in DOMAIN source : source'[i] = IF i = k THEN v ELSE source[i]
      BY <3>3
    <3>6. CleanSources(source')
      BY <3>4, <3>5 DEF SourceInv, CleanSources
    <3>7. \A i \in DOMAIN tracks :
             tracks[i].told => Since(source'[tracks[i].index], tracks[i].firstSeg)
      BY <3>2, <3>4, <3>5 DEF SourceInv, Served
    <3>8. Served(tracks, source')
      BY <3>2, <3>5, <3>7, ServedStill DEF SourceInv
    <3> QED
      BY <3>3, <3>6, <3>8 DEF SourceInv
  <2>3. CASE Prepare \/ ConnectReturns \/ BufferingUpdate \/ DisconnectReturns
             \/ Play \/ StreamDone
    BY <1>1, <2>3 DEF Prepare, ConnectReturns, BufferingUpdate, DisconnectReturns,
                      Play, StreamDone, sessionVars
  <2> QED
    BY <1>5, <2>1, <2>2, <2>3 DEF WaitStep
<1>6. CASE FailStep
  BY <1>1, <1>6 DEF FailStep, sessionVars
<1> QED
  BY <1>2, <1>3, <1>4, <1>5, <1>6

-----------------------------------------------------------------------------
(* Who posts what: a message comes from a handler, or from what is around. *)

Around == Mail \cup Due

\* What the connection and the server make of a message.
Follows(m, o) ==
    \/ o \in Awaited /\ \E x \in Result : m = With(o, x)
    \/ \E r \in Awaited : o = Ask(r) /\ (m = r \/ \E x \in Result : m = With(r, x))
    \/ o = Connect /\ \E x \in Result : m = [what |-> "conn", result |-> x]
    \/ \E b \in BOOLEAN : o = Disconnect(Disc(b)) /\ m = Disc(b)

Comes(m) == \/ m \in Around \/ m \in Binaries \cup Notices
            \/ \E o \in Around : Follows(m, o)

LEMMA AroundIs ==
  ASSUME TypeOK
  PROVE  /\ Around \subseteq Msg /\ Due \subseteq Awaited
         /\ mailbox # <<>> => /\ Current \in Around /\ Rest \subseteq Around
                              /\ Around = {Current} \cup Rest \cup Due
<1>1. BoxTypes /\ Mail \subseteq Msg /\ Due \subseteq Awaited
  BY MailTypes DEF TypeOK
<1>2. Awaited \subseteq Msg
  BY Posted
<1> QED
  BY <1>1, <1>2, CurrentIs DEF Around

LEMMA ConnectionFollows ==
  ASSUME TypeOK, ConnectionStep, NEW m \in Around'
  PROVE  Comes(m)
<1>1. /\ mailbox # <<>> /\ Current \in Msg /\ BoxTypes /\ pending \in Seq(Awaited)
      /\ Handled \in Seq(Msg)
  BY CurrentIs DEF ConnectionStep, TypeOK, BoxTypes
<1>2. "error" \in Result /\ "ok" \in Result
  BY DEF Result
<1>3. /\ Current \in Around /\ Rest \subseteq Around /\ Due \subseteq Around
      /\ Due \subseteq Awaited
  BY <1>1, AroundIs DEF Around
<1>4. ASSUME NEW x \in Msg, mailbox' = Handled \o Flushed \o <<x>>,
             pending' = <<>>, Follows(x, Current)
      PROVE  Comes(m)
  <2>1. Mail' = Rest \cup {With(r, "error") : r \in Due} \cup {x}
    BY <1>1, <1>4, HandlesFlushed
  <2>2. Due' = {}
    BY <1>4, SetOfFew DEF Due
  <2>3. \/ m \in Rest \/ m = x
        \/ \E r \in Due : m = With(r, "error")
    BY <2>1, <2>2 DEF Around
  <2> QED
    BY <1>2, <1>3, <1>4, <2>3 DEF Comes, Follows
<1>5. CASE ConnConnect \/ ConnDisconnect
  <2>1. PICK x \in Msg : /\ ConnectionSwap(x)
                         /\ mailbox' = Handled \o Flushed \o <<x>>
                         /\ pending' = <<>>
    <3>1. CASE ConnConnect
      <4>1. PICK ok \in BOOLEAN :
                mailbox' = Handled \o Flushed
                             \o <<With(Reply("conn"), IF ok THEN "ok" ELSE "error")>>
        BY <3>1 DEF ConnConnect
      <4> DEFINE x == [what |-> "conn", result |-> IF ok THEN "ok" ELSE "error"]
      <4>2. With(Reply("conn"), IF ok THEN "ok" ELSE "error") = x
        BY DEF With, Reply
      <4>3. x \in Msg
        BY <1>2, Posted
      <4>4. Current = Connect
        BY <1>1, <3>1, MsgFields DEF ConnConnect
      <4>5. pending' = <<>> /\ \E r \in {"ok", "error"} : x = [what |-> "conn", result |-> r]
        BY <3>1 DEF ConnConnect
      <4> HIDE DEF x
      <4> QED
        BY <4>1, <4>2, <4>3, <4>4, <4>5 DEF ConnectionSwap
    <3>2. CASE ConnDisconnect
      <4>1. /\ Current.what = "disconnect" /\ pending' = <<>>
            /\ mailbox' = Handled \o Flushed \o <<Current.reply>>
        BY <3>2 DEF ConnDisconnect
      <4>2. /\ Current.reply.again \in BOOLEAN
            /\ Current.reply = Disc(Current.reply.again)
            /\ Current = Disconnect(Disc(Current.reply.again))
        BY <1>1, <4>1, MsgFields
      <4>3. Current.reply \in Msg
        BY <4>2, Posted
      <4> QED
        BY <4>1, <4>2, <4>3 DEF ConnectionSwap
    <3> QED
      BY <1>5, <3>1, <3>2
  <2>2. Follows(x, Current)
    BY <1>2, <2>1 DEF ConnectionSwap, Follows
  <2> QED
    BY <1>4, <2>1, <2>2
<1>6. CASE ConnSendRequest
  <2> DEFINE r == Current.reply
             e == With(r, "error")
  <2>1. Current.what = "send"
    BY <1>6 DEF ConnSendRequest
  <2>2. r \in Awaited /\ Current = Ask(r) /\ r \in Msg
    BY <1>1, <2>1, SendIs, Posted
  <2>3. e \in Msg
    BY <1>2, <2>2, AwaitedAre, Posted
  <2>4. Follows(r, Current) /\ Follows(e, Current)
    BY <1>2, <2>2 DEF Follows
  <2>5. CASE pending' = pending /\ mailbox' = Append(Handled, e)
    <3>1. mailbox' = Handled \o <<e>>
      BY <1>1, <2>3, <2>5, AppendIsConcat
    <3>2. Mail' = Rest \cup {e} /\ Due' = Due
      BY <1>1, <2>3, <2>5, <3>1, HandlesOne DEF Due
    <3> HIDE DEF r, e
    <3> QED
      BY <1>3, <2>4, <3>2 DEF Around, Comes
  <2>6. CASE pending' = Append(pending, r) /\ mailbox' = Handled
    <3>1. mailbox' = Handled \o <<>>
      BY <1>1, <2>6, ConcatEmptySeq
    <3>2. Mail' = Rest
      BY <1>1, <3>1, HandlesNone
    <3>3. pending' = pending \o <<r>> /\ <<r>> \in Seq(Awaited)
      BY <1>1, <2>2, <2>6, AppendIsConcat
    <3> HIDE DEF r, e
    <3>5. ToSet(pending \o <<r>>) = ToSet(pending) \cup ToSet(<<r>>)
      BY <1>1, <3>3, Posting
    <3>4. Due' = Due \cup {r}
      BY <3>3, <3>5, SetOfFew DEF Due
    <3> QED
      BY <1>3, <2>4, <3>2, <3>4 DEF Around, Comes
  <2> QED
    BY <1>6, <2>5, <2>6 DEF ConnSendRequest
<1> QED
  BY <1>5, <1>6 DEF ConnectionStep

LEMMA OthersFollow ==
  ASSUME TypeOK, ServerStep \/ NetworkStep \/ ControllerStep, NEW m \in Around'
  PROVE  Comes(m)
<1>1. /\ BoxTypes /\ mailbox \in Seq(Msg) /\ Due \subseteq Awaited
      /\ Mail \subseteq Around /\ Due \subseteq Around
  BY MailTypes DEF TypeOK, BoxTypes, Around
<1>2. "error" \in Result
  BY DEF Result
<1>3. CASE ControllerStep
  <2>1. mailbox # <<>> /\ TakesNone /\ pending' = pending
    BY <1>3 DEF ControllerStep, ControllerFrame, LooperFrame, serverVars, Posts,
                TakesNone
  <2>2. Mail' = Rest /\ Due' = Due
    BY <1>1, <2>1, HandlesNone DEF TakesNone, Due
  <2> QED
    BY <2>1, <2>2, AroundIs DEF Around, Comes
<1>4. CASE ServerAnswers /\ ServerStep
  <2>1. /\ Answered \in Awaited /\ Due = {Answered} \cup ToSet(Tail(pending))
        /\ Due' = ToSet(Tail(pending))
    BY <1>4, AnswersAre
  <2>2. PICK result \in Answers(Answered) :
              /\ mailbox' = Append(mailbox, With(Answered, result))
              /\ With(Answered, result) \in Msg
              /\ result \in {"ok", "refused", "moved", "live"}
    BY <1>4, AnswersAre
  <2>3. Mail' = Mail \cup {With(Answered, result)}
    BY <1>1, <2>2, PostsOne
  <2>4. result \in Result
    BY <2>2 DEF Result
  <2>5. Follows(With(Answered, result), Answered) /\ Answered \in Around
    BY <1>1, <2>1, <2>4 DEF Follows
  <2> QED
    BY <1>1, <2>1, <2>3, <2>5 DEF Around, Comes
<1>5. CASE ConnectionLost
  <2>1. mailbox' = mailbox \o Flushed /\ pending' = <<>>
    BY <1>5 DEF ConnectionLost
  <2>2. Mail' = Mail \cup {With(r, "error") : r \in Due} /\ Due' = {}
    BY <1>1, <2>1, FlushedAre, PostsAll, SetOfFew DEF Due
  <2>3. m \in Mail \/ \E r \in Due : m = With(r, "error")
    BY <2>2 DEF Around
  <2> QED
    BY <1>1, <1>2, <2>3 DEF Comes, Follows
<1>6. CASE ServerSendsInterleaved /\ ServerStep
  <2>1. PICK b \in Binaries : b \in Msg /\ mailbox' = Append(mailbox, b)
    BY <1>6, InterleavedIs
  <2>2. pending' = pending
    BY <1>6 DEF ServerSendsInterleaved, serverVars
  <2>3. Mail' = Mail \cup {b} /\ Due' = Due
    BY <1>1, <2>1, <2>2, PostsOne DEF Due
  <2> QED
    BY <1>1, <2>1, <2>3 DEF Around, Comes
<1>7. CASE NetworkStep
  <2>1. pending' = pending
    BY <1>7 DEF NetworkStep, NetFrame, serverVars
  <2>2. CASE mailbox' = mailbox
    BY <1>1, <2>1, <2>2 DEF Around, Comes, Mail, Due
  <2>3. ASSUME NEW n \in Seq(Notices), mailbox' = mailbox \o n
        PROVE  Comes(m)
    <3>1. n \in Seq(Msg)
      BY Posted, SeqMonotonic
    <3>2. Mail' = Mail \cup ToSet(n) /\ Due' = Due
      BY <1>1, <2>1, <2>3, <3>1, PostsAll DEF Due
    <3>3. ToSet(n) \subseteq Notices
      <4>1. \A i \in DOMAIN n : n[i] \in Notices
        BY LenProperties, ElementOfSeq
      <4> QED
        BY <4>1, SetOf
    <3> QED
      BY <1>1, <3>2, <3>3 DEF Around, Comes
  <2>4. CASE OnPollStreams
    BY <1>7, <2>2, <2>4, PollReads
  <2>5. CASE OnInjectPacket
    BY <1>7, <2>2, <2>3, <2>5, InjectReads DEF Receives
  <2>6. CASE OnAddStream \/ OnRemoveStream \/ OnFakeTimestamps
    BY <2>2, <2>6 DEF OnAddStream, OnRemoveStream, OnFakeTimestamps
  <2> QED
    BY <1>7, <2>4, <2>5, <2>6 DEF NetworkStep
<1> QED
  BY <1>3, <1>4, <1>5, <1>6, <1>7 DEF ServerStep

-----------------------------------------------------------------------------
(* Where a session stands is in the messages around: set up, playing, or   *)
(* seeking, and what each excludes.                                        *)

\* What the session is about to set up, or to be set up again.
Renewal(m) == Kind(m) \in {"setup", "retry"} /\ m.what # "abor"

Tidy(m, list, seekable) ==
    /\ Content(m).what = "setu" => Fits(Content(m), list)
    /\ Renewal(m) /\ Content(m).what \notin {"setu", "play"} => list = <<>>
    /\ Renewal(m) => ~seekable

IsSee(m) == Content(m).what \in {"see1", "see2"}
IsSee2(m) == Content(m).what = "see2"

LEMMA ContentIs ==
  /\ \A r \in Awaited : Content(r) = r /\ Content(Ask(r)) = r
  /\ \A m : m.what # "send" => Content(m) = m
<1>1. \A r \in Awaited : r.what # "send"
  BY AwaitedFields
<1>2. \A r : Ask(r).what = "send" /\ Ask(r).reply = r
  BY DEF Ask
<1> QED
  BY <1>1, <1>2 DEF Content

\* Media are none of these.
LEMMA MediaAreTidy ==
  ASSUME NEW m \in Binaries \cup Notices
  PROVE  /\ ~IsSee(m) /\ ~IsSee2(m) /\ ~Renewal(m)
         /\ \A list, seekable : Tidy(m, list, seekable)
<1>1. m \in Msg /\ m.what \in {"accu", "biny"}
  BY Posted DEF Notices, Binaries
<1>2. Kind(m) = "media" /\ Content(m) = m
  BY <1>1, OtherKinds, ContentIs
<1> QED
  BY <1>1, <1>2 DEF IsSee, IsSee2, Tidy, Renewal

LEMMA FollowersAreAlike ==
  ASSUME NEW m, NEW o, Follows(m, o)
  PROVE  /\ IsSee(m) => IsSee(o)
         /\ IsSee2(m) => IsSee2(o)
         /\ Renewal(m) => Renewal(o)
         /\ \A list, seekable : Tidy(o, list, seekable) => Tidy(m, list, seekable)
<1>1. ASSUME NEW r \in Awaited, NEW x \in Result, NEW p, p = With(r, x)
      PROVE  /\ Content(p) = p /\ p.what = r.what
             /\ Renewal(p) <=> Renewal(r)
             /\ r.what = "setu" => p.index = r.index /\ p.track = r.track
  <2>1. p \in Awaited /\ p.what = r.what
        /\ (r.what = "setu" => p.index = r.index /\ p.track = r.track)
    BY <1>1, AwaitedAre, AwaitedFields
  <2>2. Kind(p) = Kind(r)
    BY <1>1, RequestKinds
  <2> QED
    BY <2>1, <2>2, ContentIs DEF Renewal
<1>2. ASSUME NEW r \in Awaited
      PROVE  Renewal(r) => Renewal(Ask(r))
  <2>1. r.what \in {"play", "see1", "see2", "desc", "setu", "tear"}
    BY AwaitedFields
  <2>2. Ask(r).what = "send"
    BY DEF Ask
  <2>3. Kind(r) \in {"setup", "retry"} => Kind(Ask(r)) \in {"setup", "retry"}
    <3>1. r.what = "tear" => r.again \in BOOLEAN
      BY AwaitedFields
    <3> QED
      BY <2>1, <3>1, RequestKinds
  <2> QED
    BY <2>2, <2>3 DEF Renewal
<1>3. CASE o \in Awaited /\ \E x \in Result : m = With(o, x)
  <2>1. Content(o) = o /\ Content(m) = m /\ m.what = o.what
        /\ (Renewal(m) <=> Renewal(o))
        /\ (o.what = "setu" => m.index = o.index /\ m.track = o.track)
    BY <1>1, <1>3, ContentIs
  <2> QED
    BY <2>1 DEF IsSee, IsSee2, Tidy, Fits
<1>4. ASSUME NEW r \in Awaited, o = Ask(r),
             m = r \/ \E x \in Result : m = With(r, x)
      PROVE  /\ IsSee(m) => IsSee(o)
             /\ IsSee2(m) => IsSee2(o)
             /\ Renewal(m) => Renewal(o)
             /\ \A list, seekable : Tidy(o, list, seekable) => Tidy(m, list, seekable)
  <2>1. Content(o) = r /\ Content(m) = m /\ m.what = r.what
        /\ (Renewal(m) => Renewal(o))
        /\ (r.what = "setu" => m.index = r.index /\ m.track = r.track)
    BY <1>1, <1>2, <1>4, ContentIs
  <2> QED
    BY <2>1 DEF IsSee, IsSee2, Tidy, Fits
<1>5. CASE o = Connect /\ \E x \in Result : m = [what |-> "conn", result |-> x]
  <2>1. Content(o) = o /\ o.what = "connect" /\ Content(m) = m /\ m.what = "conn"
    BY <1>5, ContentIs DEF Connect
  <2>2. Kind(o) = "setup"
    BY <1>5, FormKinds
  <2> QED
    BY <2>1, <2>2 DEF IsSee, IsSee2, Tidy, Renewal
<1>6. ASSUME NEW b \in BOOLEAN, o = Disconnect(Disc(b)), m = Disc(b)
      PROVE  /\ IsSee(m) => IsSee(o)
             /\ IsSee2(m) => IsSee2(o)
             /\ Renewal(m) => Renewal(o)
             /\ \A list, seekable : Tidy(o, list, seekable) => Tidy(m, list, seekable)
  <2>1. o.what = "disconnect" /\ m.what = "disc"
    BY <1>6 DEF Disconnect, Disc
  <2>2. Content(o) = o /\ Content(m) = m
    BY <2>1, ContentIs
  <2>3. \/ Kind(o) = "retry"
        \/ Kind(m) = "exit"
    BY <1>6, FormKinds
  <2> QED
    BY <2>1, <2>2, <2>3 DEF IsSee, IsSee2, Tidy, Renewal
<1> QED
  BY <1>3, <1>4, <1>5, <1>6 DEF Follows

NoSee == \A m \in Around : ~IsSee(m)
NoSee2 == \A m \in Around : ~IsSee2(m)

\* What is around while a session is set up, plays and seeks.
SetupInv == \A m \in Around : Tidy(m, tracks, handler.seekable)
PlayInv == Flying["play"] > 0 =>
              Flying["play"] = 1 /\ segment = 0 /\ ~handler.seekable /\ NoSee
SeeInv == /\ NoSee \/ handler.seekPending \/ tracks = <<>>
          /\ NoSee2 \/ Emptied

FreshInv == /\ SourceInv
            /\ crashed = Alive => /\ SetupInv /\ PlayInv /\ SeeInv
                                  /\ player = "new" => ~handler.seekable

\* Kinds that are around, and what they exclude.
LEMMA KindsAround ==
  ASSUME TypeOK
  PROVE  /\ \A m \in Around : Kind(m) \in Kinds /\ Flying[Kind(m)] >= 1
         /\ \A k \in Kinds : Flying[k] >= 1 => \E m \in Around : Kind(m) = k
<1>1. /\ BoxTypes /\ Around \subseteq Msg
      /\ \A M : Count(mailbox, M) \in Nat /\ Count(pending, M) \in Nat
      /\ \A M : Count(mailbox, M) = 0 <=> Mail \cap M = {}
      /\ \A M : Count(pending, M) = 0 <=> Due \cap M = {}
  BY MailTypes, AroundIs DEF TypeOK
<1>2. \A k \in Kinds : Flying[k] = Count(mailbox, Of(k)) + Count(pending, Of(k))
  BY FlyingTypes DEF Total
<1>3. \A k \in Kinds : Flying[k] >= 1 <=> Around \cap Of(k) # {}
  BY <1>1, <1>2 DEF Around
<1>4. ASSUME NEW m \in Around PROVE Kind(m) \in Kinds /\ Flying[Kind(m)] >= 1
  <2>1. m \in Msg /\ Kind(m) \in Kinds
    BY <1>1, <1>4, KindTypes
  <2>2. m \in Of(Kind(m))
    BY <2>1 DEF Of
  <2> QED
    BY <1>3, <1>4, <2>1, <2>2
<1>5. ASSUME NEW k \in Kinds, Flying[k] >= 1 PROVE \E m \in Around : Kind(m) = k
  BY <1>3, <1>5 DEF Of
<1> QED
  BY <1>4, <1>5

LEMMA Alone ==
  ASSUME TypeOK, mailbox # <<>>, Flying[Kind(Current)] <= 1, NEW m \in Rest \cup Due
  PROVE  Kind(m) # Kind(Current)
<1> DEFINE M == Of(Kind(Current))
<1>1. /\ mailbox \in Seq(Msg) /\ pending \in Seq(Awaited) /\ Awaited \subseteq Msg
      /\ Current \in Msg /\ Kind(Current) \in Kinds
  BY CurrentIs, KindTypes, Posted DEF TypeOK, BoxTypes
<1>2. Flying[Kind(Current)] = Count(mailbox, M) + Count(pending, M)
  BY <1>1, FlyingTypes DEF Total
<1>3. Current \in M
  BY <1>1 DEF Of
<1>4. /\ Handled \in Seq(Msg)
      /\ Count(mailbox, M) = Count(Handled, M) + 1
  BY <1>1, <1>3, CountTail, HeadTailProperties DEF Current, Handled
<1>5. Count(Handled, M) \in Nat /\ Count(pending, M) \in Nat
  BY <1>1, <1>4, OccursFinite
<1>6. Count(Handled, M) = 0 /\ Count(pending, M) = 0
  BY <1>2, <1>4, <1>5
<1> HIDE DEF M
<1>7. /\ \A i \in DOMAIN Handled : Handled[i] \notin M
      /\ \A i \in DOMAIN pending : pending[i] \notin M
  <2>1. \A i \in DOMAIN Handled : Handled[i] \notin M
    BY <1>4, <1>6, CountNone
  <2>2. \A i \in DOMAIN pending : pending[i] \notin M
    BY <1>1, <1>6, CountNone
  <2> QED
    BY <2>1, <2>2
<1>8. m \notin M
  BY <1>7, SetOf DEF Rest, Due
<1>9. m \in Msg
  BY AroundIs DEF Around
<1> QED
  BY <1>8, <1>9 DEF Of, M

-----------------------------------------------------------------------------
(* What the handlers leave around.                                         *)

\* What a handler leaves around.
LEMMA HandledAround ==
  ASSUME TypeOK, HandlerStep
  PROVE  /\ TakesNone => Around' = Rest \cup Due
         /\ \A x : Takes(x) => Around' = Rest \cup Due \cup {x}
         /\ \A x, y : TakesTwo(x, y) => Around' = Rest \cup Due \cup {x, y}
<1>1. mailbox # <<>> /\ BoxTypes /\ Due' = Due
  BY HandlerLeaves DEF HandlerStep, TypeOK, Due
<1>2. TakesNone => Mail' = Rest
  BY <1>1, HandlesNone DEF TakesNone
<1>3. ASSUME NEW x, Takes(x) PROVE Mail' = Rest \cup {x}
  BY <1>1, <1>3, HandlesOne DEF Takes
<1>4. ASSUME NEW x, NEW y, TakesTwo(x, y) PROVE Mail' = Rest \cup {x, y}
  BY <1>1, <1>4, HandlesTwo DEF TakesTwo
<1> QED
  BY <1>1, <1>2, <1>3, <1>4 DEF Around

LEMMA SeesAreSeeks ==
  /\ \A m \in Msg : IsSee(m) => Kind(m) = "seek"
  /\ \A m : IsSee2(m) => IsSee(m)
  /\ \A m \in Msg : \A list, seekable :
        Kind(m) \notin {"setup", "retry"} => Tidy(m, list, seekable)
<1>1. ASSUME NEW m \in Msg PROVE IsSee(m) => Kind(m) = "seek"
  <2>1. CASE m.what = "send"
    <3>1. m.reply \in Awaited /\ m = Ask(m.reply)
      BY <2>1, SendIs
    <3> QED
      BY <2>1, <3>1, RequestKinds DEF IsSee, Content
  <2>2. CASE m.what # "send"
    BY <2>2, OtherKinds DEF IsSee, Content
  <2> QED
    BY <2>1, <2>2
<1>2. ASSUME NEW m \in Msg, Content(m).what = "setu" PROVE Kind(m) = "setup"
  <2>1. CASE m.what = "send"
    <3>1. m.reply \in Awaited /\ m = Ask(m.reply)
      BY <2>1, SendIs
    <3> QED
      BY <1>2, <2>1, <3>1, RequestKinds DEF Content
  <2>2. CASE m.what # "send"
    BY <1>2, <2>2, OtherKinds DEF Content
  <2> QED
    BY <2>1, <2>2
<1> QED
  BY <1>1, <1>2 DEF IsSee, IsSee2, Tidy, Renewal

\* What the handlers do to the fields that seeks depend on.
LEMMA HandlerKeeps ==
  ASSUME TypeOK, HandlerStep, crashed' = Alive, SessionAssumption
  PROVE  /\ \/ OnConn \/ OnDisc \/ OnTear \/ OnQuit \/ OnChek \/ OnFirstPacket
            \/ OnBiny \/ OnTiou
            => /\ UNCHANGED <<tracks, source>>
               /\ handler'.seekable = handler.seekable
               /\ handler'.seekPending = handler.seekPending
         /\ OnDesc \/ OnSetu => /\ handler'.seekable = handler.seekable
                                /\ handler'.seekPending = handler.seekPending
         /\ OnAccessUnit => /\ tracks' = tracks
                            /\ handler'.seekable = handler.seekable
                            /\ handler'.seekPending = handler.seekPending
                            /\ ~Wanted(Current) => source' = source
         /\ OnSeek => /\ UNCHANGED <<tracks, source>>
                      /\ handler'.seekable = handler.seekable
         /\ OnSee1 => UNCHANGED <<handler, tracks>>
         /\ OnAbor => tracks' = <<>> /\ ~handler'.seekable
         /\ OnPlay => source' = source
         /\ OnSee2 => source' = source
<1>1. handler \in HandlerType
  BY DEF TypeOK, SessionTypes
<1>2. OnConn \/ OnDisc \/ OnTear => UNCHANGED <<handler, tracks, source>>
  BY HandlerLeaves
<1>3. OnQuit => /\ UNCHANGED <<tracks, source>>
                /\ handler'.seekable = handler.seekable
                /\ handler'.seekPending = handler.seekPending
  BY <1>1 DEF OnQuit, HandlerType
<1>4. OnChek => /\ UNCHANGED <<tracks, source>>
                /\ handler'.seekable = handler.seekable
                /\ handler'.seekPending = handler.seekPending
  BY <1>1 DEF OnChek, HandlerType
<1>5. OnFirstPacket => /\ UNCHANGED <<tracks, source>>
                       /\ handler'.seekable = handler.seekable
                       /\ handler'.seekPending = handler.seekPending
  BY <1>1 DEF OnFirstPacket, HandlerType
<1>6. OnBiny => /\ UNCHANGED <<tracks, source>>
                /\ handler'.seekable = handler.seekable
                /\ handler'.seekPending = handler.seekPending
  BY DEF OnBiny, sessionVars
<1>7. OnTiou => /\ UNCHANGED <<tracks, source>>
                /\ handler'.seekable = handler.seekable
                /\ handler'.seekPending = handler.seekPending
  BY <1>1 DEF OnTiou, Interleaving, HandlerType
<1>8. OnDesc => handler' = handler
  BY DEF OnDesc
<1>9. OnSetu => /\ handler'.seekable = handler.seekable
                /\ handler'.seekPending = handler.seekPending
  <2>1. OnSetu => handler' = [handler EXCEPT !.setupOK = SetupReady]
    BY OnSetuPosts DEF Alive
  <2> QED
    BY <1>1, <2>1 DEF HandlerType
<1>10. OnAccessUnit => /\ tracks' = tracks
                       /\ handler'.seekable = handler.seekable
                       /\ handler'.seekPending = handler.seekPending
                       /\ ~Wanted(Current) => source' = source
  <2> SUFFICES ASSUME OnAccessUnit
               PROVE  /\ tracks' = tracks
                      /\ handler'.seekable = handler.seekable
                      /\ handler'.seekPending = handler.seekPending
                      /\ ~Wanted(Current) => source' = source
    OBVIOUS
  <2>1. crashed' # "first unit"
    BY DEF Alive
  <2>2. tracks' = tracks /\ (~Wanted(Current) => source' = source)
    BY <2>1, OnAccessUnitPosts
  <2> DEFINE hd == CheckPosted([handler EXCEPT !.units = TRUE])
  <2>3. /\ hd \in HandlerType
        /\ hd.seekable = handler.seekable /\ hd.seekPending = handler.seekPending
    BY <1>1 DEF CheckPosted, HandlerType
  <2>4. handler' = hd \/ handler' = [hd EXCEPT !.firstUnit = FALSE, !.doneMsg = None]
    BY <2>1, OnAccessUnitPosts
  <2> HIDE DEF hd
  <2> QED
    BY <2>2, <2>3, <2>4 DEF HandlerType
<1>11. OnSeek => /\ UNCHANGED <<tracks, source>>
                 /\ handler'.seekable = handler.seekable
  BY <1>1 DEF OnSeek, HandlerType
<1>12. OnSee1 => UNCHANGED <<handler, tracks>>
  BY DEF OnSee1
<1>13. OnAbor => tracks' = <<>> /\ ~handler'.seekable
  <2>1. OnAbor => tracks' = <<>> /\ handler' = HandlerAfterAbort
    BY OnAborPosts DEF Alive
  <2> QED
    BY <1>1, <2>1 DEF HandlerAfterAbort, HandlerType
<1>14. OnPlay => source' = source
  BY DEF OnPlay
<1>15. OnSee2 => source' = source
  BY DEF OnSee2, Dies, sessionVars
<1> QED
  BY <1>2, <1>3, <1>4, <1>5, <1>6, <1>7, <1>8, <1>9, <1>10, <1>11, <1>12, <1>13, <1>14,
     <1>15

\* What is set up, played, aborted or sought is so alone.
LEMMA Undisturbed ==
  ASSUME TypeOK, SeekInv, Fed \/ UnfedInv, crashed = Alive, mailbox # <<>>,
         Kind(Current) \in {"setup", "play", "retry", "abort", "seek"},
         NEW m \in Rest \cup Due
  PROVE  Kind(m) \notin {"setup", "retry"}
<1>1. /\ m \in Around /\ Current \in Around
      /\ Flying[Kind(m)] >= 1 /\ Flying[Kind(Current)] >= 1
  BY AroundIs, KindsAround DEF Around
<1>2. CASE Fed
  BY <1>1, <1>2, FedIs DEF Fed
<1>3. CASE UnfedInv
  <2>1. Flying["seek"] = 0 /\ Flying["abort"] = 0
    BY <1>3, OnlyAttempt DEF UnfedInv, Quiet
  <2>2. Kind(Current) \in {"setup", "play", "retry"}
    BY <1>1, <2>1
  <2>3. /\ Flying[Kind(Current)] = 1
        /\ \A l \in {"setup", "play", "retry", "tiou"} \ {Kind(Current)} : Flying[l] = 0
    BY <1>1, <1>3, <2>2, OnlyAttempt
  <2>4. Kind(m) # Kind(Current)
    BY <2>3, Alone
  <2> QED
    BY <1>1, <2>3, <2>4
<1> QED
  BY <1>2, <1>3

\* A posted message is tidy if it has to do with no attempt.
LEMMA PostsAreTidy ==
  /\ \A b \in BOOLEAN : \A list, seekable : Tidy(Abor(b), list, seekable)
  /\ \A list, seekable :
        /\ Tidy(Abor(FALSE), list, seekable)
        /\ Tidy(Disc(FALSE), list, seekable)
        /\ Tidy(Disconnect(Disc(FALSE)), list, seekable)
        /\ Tidy([what |-> "quit"], list, seekable)
        /\ Tidy([what |-> "sdon"], list, seekable)
        /\ Tidy([what |-> "seek"], list, seekable)
        /\ Tidy(Tiou, list, seekable)
        /\ Tidy(Ask(Reply("see1")), list, seekable)
        /\ Tidy(Ask(Reply("see2")), list, seekable)
  /\ \A n \in Nat : \A list, seekable : Tidy(Chek(n), list, seekable)
  /\ \A w \in {"cdon", "ddon"}, x \in {"ok", "error"} : \A list, seekable :
        Tidy([what |-> w, result |-> x], list, seekable)
  /\ \A n \in Nat, b \in BOOLEAN :
        /\ Tidy(Ask(DescReply(n)), <<>>, FALSE) /\ Tidy(Connect, <<>>, FALSE)
        /\ Tidy(Ask(TearReply(b)), <<>>, FALSE)
        /\ Tidy(Disconnect(Disc(b)), <<>>, FALSE)
  /\ \A list : Tidy(Ask(Reply("play")), list, FALSE)
<1>1. /\ \A b \in BOOLEAN : Abor(b) \in Msg /\ Disconnect(Disc(b)) \in Msg
      /\ Disc(FALSE) \in Msg /\ [what |-> "quit"] \in Msg /\ [what |-> "sdon"] \in Msg
      /\ [what |-> "seek"] \in Msg /\ Tiou \in Msg /\ Connect \in Msg
      /\ Ask(Reply("see1")) \in Msg /\ Ask(Reply("see2")) \in Msg
      /\ Ask(Reply("play")) \in Msg
      /\ \A n \in Nat : Chek(n) \in Msg
      /\ \A w \in {"cdon", "ddon"}, x \in {"ok", "error"} :
            [what |-> w, result |-> x] \in Msg
  <2>1. {"ok", "error"} \subseteq Result
    BY DEF Result
  <2> QED
    BY <2>1, AwaitedAre, Posted
<1>2. /\ Kind(Disc(FALSE)) = "exit" /\ Kind(Disconnect(Disc(FALSE))) = "exit"
      /\ Kind([what |-> "quit"]) = "exit" /\ Kind([what |-> "sdon"]) = "seek"
      /\ Kind([what |-> "seek"]) = "seek" /\ Kind(Tiou) = "tiou"
      /\ Kind(Ask(Reply("see1"))) = "seek" /\ Kind(Ask(Reply("see2"))) = "seek"
      /\ \A n : Kind(Chek(n)) = "check"
  BY FormKinds
<1>3. \A w \in {"cdon", "ddon"}, x \in {"ok", "error"} :
         Kind([what |-> w, result |-> x]) \notin {"setup", "retry"}
  BY <1>1, OtherKinds
<1>4. /\ \A list, seekable :
            /\ Tidy(Disc(FALSE), list, seekable)
            /\ Tidy(Disconnect(Disc(FALSE)), list, seekable)
            /\ Tidy([what |-> "quit"], list, seekable)
            /\ Tidy([what |-> "sdon"], list, seekable)
            /\ Tidy([what |-> "seek"], list, seekable)
            /\ Tidy(Tiou, list, seekable)
            /\ Tidy(Ask(Reply("see1")), list, seekable)
            /\ Tidy(Ask(Reply("see2")), list, seekable)
      /\ \A n \in Nat : \A list, seekable : Tidy(Chek(n), list, seekable)
      /\ \A w \in {"cdon", "ddon"}, x \in {"ok", "error"} : \A list, seekable :
            Tidy([what |-> w, result |-> x], list, seekable)
  BY <1>1, <1>2, <1>3, SeesAreSeeks
<1>5. ASSUME NEW b \in BOOLEAN, NEW list, NEW seekable
      PROVE  Tidy(Abor(b), list, seekable)
  <2>1. Abor(b).what = "abor"
    BY DEF Abor
  <2> QED
    BY <2>1, ContentIs DEF Tidy, Renewal
<1>6. ASSUME NEW n \in Nat, NEW b \in BOOLEAN
      PROVE  /\ Tidy(Ask(DescReply(n)), <<>>, FALSE) /\ Tidy(Connect, <<>>, FALSE)
             /\ Tidy(Ask(TearReply(b)), <<>>, FALSE)
             /\ Tidy(Disconnect(Disc(b)), <<>>, FALSE)
  <2>1. /\ Content(Ask(DescReply(n))) = DescReply(n)
        /\ Content(Ask(TearReply(b))) = TearReply(b)
        /\ Content(Connect) = Connect
        /\ Content(Disconnect(Disc(b))) = Disconnect(Disc(b))
    <3>1. Connect.what # "send" /\ Disconnect(Disc(b)).what # "send"
      BY DEF Connect, Disconnect
    <3> QED
      BY <3>1, AwaitedAre, ContentIs
  <2>2. /\ DescReply(n).what # "setu" /\ TearReply(b).what # "setu"
        /\ Connect.what # "setu" /\ Disconnect(Disc(b)).what # "setu"
    BY DEF DescReply, TearReply, Connect, Disconnect
  <2> QED
    BY <2>1, <2>2 DEF Tidy
<1>7. ASSUME NEW list PROVE Tidy(Ask(Reply("play")), list, FALSE)
  <2>1. Content(Ask(Reply("play"))) = Reply("play") /\ Reply("play").what = "play"
    BY AwaitedAre, ContentIs DEF Reply
  <2> QED
    BY <2>1 DEF Tidy
<1>8. \A list, seekable : Tidy(Abor(FALSE), list, seekable)
  BY <1>5
<1> QED
  BY <1>4, <1>5, <1>6, <1>7, <1>8

\* SETUP is asked for the track that was added.
LEMMA SetupIsTidy ==
  ASSUME TypeOK, NEW index \in 1 .. NumTracks, NEW list \in Seq(TrackType), NEW sources,
         SetupTrack(index, list, sources),
         \A i \in DOMAIN list : list[i].index < index,
         HandlerStep
  PROVE  \E x : Takes(x) /\ Tidy(x, tracks', FALSE)
<1>1. Len(list) \in Nat /\ Len(list) + 1 \in Nat \ {NoTrack}
  BY LenProperties DEF NoTrack
<1> DEFINE s == With(SetuReply(index, NoTrack), "error")
           r == SetuReply(index, Len(list) + 1)
<1>2. /\ s \in Skips /\ s \in Msg /\ r \in Awaited /\ Ask(r) \in Msg
  BY <1>1, AwaitedAre, Posted
<1>3. /\ s.what = "setu" /\ s.index = index /\ s.track = NoTrack
      /\ r.what = "setu" /\ r.index = index /\ r.track = Len(list) + 1
  BY DEF With, SetuReply
<1>4. Content(s) = s /\ Content(Ask(r)) = r
  BY <1>2, <1>3, ContentIs
<1> HIDE DEF s, r
<1>5. CASE Posts(<<s>>) /\ tracks' = list
  <2>1. Fits(s, tracks')
    BY <1>3, <1>5 DEF Fits
  <2>2. Takes(s)
    BY <1>2, <1>5 DEF Posts, Takes
  <2> QED
    BY <1>3, <1>4, <2>1, <2>2 DEF Tidy
<1>6. ASSUME NEW k, Posts(<<Ask(r)>>), k.index = index, tracks' = Append(list, k)
      PROVE  \E x : Takes(x) /\ Tidy(x, tracks', FALSE)
  <2>1. /\ Len(tracks') = Len(list) + 1 /\ tracks'[Len(list) + 1] = k
        /\ tracks' # <<>>
    BY <1>1, <1>6
  <2>2. Fits(r, tracks')
    BY <1>1, <1>3, <1>6, <2>1 DEF Fits, NoTrack
  <2>3. Takes(Ask(r))
    BY <1>2, <1>6 DEF Posts, Takes
  <2> QED
    BY <1>3, <1>4, <2>2, <2>3 DEF Tidy
<1> QED
  BY <1>5, <1>6 DEF SetupTrack, s, r

LEMMA HandlerTidies ==
  ASSUME TypeOK, SeekInv, Fed \/ UnfedInv, crashed = Alive, HandlerStep,
         crashed' = Alive, SessionAssumption, SourceInv, SetupInv
  PROVE  SetupInv'
<1>1. /\ mailbox # <<>> /\ Current \in Msg /\ Around \subseteq Msg
      /\ Rest \cup Due \subseteq Around /\ Current \in Around
      /\ Tidy(Current, tracks, handler.seekable)
      /\ tracks \in Seq(TrackType) /\ handler \in HandlerType
  BY CurrentIs, AroundIs DEF HandlerStep, SetupInv, TypeOK, SessionTypes, Around
<1>2. handler.seekable \in BOOLEAN
  BY <1>1 DEF HandlerType
\* Current is alone: only what is posted counts.
<1>3. ASSUME Kind(Current) \in {"setup", "play", "retry", "abort", "seek"},
             NEW m \in Rest \cup Due, NEW list, NEW seekable
      PROVE  Tidy(m, list, seekable)
  <2>1. Kind(m) \notin {"setup", "retry"} /\ m \in Msg
    BY <1>1, <1>3, Undisturbed
  <2> QED
    BY <2>1, SeesAreSeeks
<1>4. ASSUME UNCHANGED tracks, handler'.seekable = handler.seekable,
             NEW m \in Rest \cup Due
      PROVE  Tidy(m, tracks', handler'.seekable)
  BY <1>1, <1>4 DEF SetupInv
<1>5. /\ TakesNone /\ (\A m \in Rest \cup Due : Tidy(m, tracks', handler'.seekable))
            => SetupInv'
      /\ \A x : /\ Takes(x) /\ Tidy(x, tracks', handler'.seekable)
                /\ \A m \in Rest \cup Due : Tidy(m, tracks', handler'.seekable)
                => SetupInv'
      /\ \A x, y : /\ TakesTwo(x, y) /\ Tidy(x, tracks', handler'.seekable)
                   /\ Tidy(y, tracks', handler'.seekable)
                   /\ \A m \in Rest \cup Due : Tidy(m, tracks', handler'.seekable)
                   => SetupInv'
  BY HandledAround DEF SetupInv
<1>6. CASE OnConn
  <2>1. Current.what = "conn" /\ Kind(Current) = "setup"
    BY <1>1, <1>6, OtherKinds DEF OnConn
  <2>2. tracks' = <<>> /\ handler'.seekable = FALSE /\ tracks' = tracks
    <3>1. UNCHANGED <<tracks, handler>>
      BY <1>6, HandlerLeaves
    <3>2. Content(Current) = Current
      BY <2>1, ContentIs
    <3> QED
      BY <1>1, <1>2, <2>1, <3>1, <3>2 DEF Tidy, Renewal
  <2>3. \/ Takes(Disc(FALSE)) \/ Takes(Ask(DescReply(0)))
    BY <1>6, OnConnPosts
  <2>4. Tidy(Disc(FALSE), tracks', handler'.seekable)
        /\ Tidy(Ask(DescReply(0)), tracks', handler'.seekable)
    BY <2>2, PostsAreTidy
  <2> QED
    BY <1>3, <1>5, <2>1, <2>3, <2>4
<1>7. CASE OnDisc
  <2>1. Current.what = "disc" /\ Content(Current) = Current
    BY <1>7, ContentIs DEF OnDisc
  <2>2. UNCHANGED <<tracks, handler>>
    BY <1>7, HandlerLeaves
  <2>3. CASE Current.again
    <3>1. Kind(Current) = "setup"
      BY <1>1, <2>1, <2>3, OtherKinds
    <3>2. tracks' = <<>> /\ handler'.seekable = FALSE
      BY <1>1, <1>2, <2>1, <2>2, <3>1 DEF Tidy, Renewal
    <3>3. Takes(Connect) /\ Tidy(Connect, tracks', handler'.seekable)
      BY <1>7, <2>3, <3>2, OnDiscPosts, PostsAreTidy
    <3> QED
      BY <1>3, <1>5, <3>1, <3>3
  <2>4. CASE ~Current.again
    <3>1. Takes([what |-> "quit"]) /\ Tidy([what |-> "quit"], tracks', handler'.seekable)
      BY <1>7, <2>4, OnDiscPosts, PostsAreTidy
    <3> QED
      BY <1>4, <1>5, <2>2, <3>1
  <2> QED
    BY <2>3, <2>4
<1>8. CASE OnDesc
  <2>1. Current.what = "desc" /\ Kind(Current) = "setup" /\ Content(Current) = Current
    BY <1>1, <1>8, OtherKinds, ContentIs DEF OnDesc
  <2>2. tracks = <<>> /\ handler'.seekable = FALSE
    BY <1>1, <1>2, <1>8, <2>1, HandlerKeeps DEF Tidy, Renewal
  <2>3. Current.moved + 1 \in Nat
    BY <1>1, <2>1, MsgFields, AwaitedFields
  <2>4. CASE Takes(Ask(DescReply(Current.moved + 1))) /\ tracks' = tracks
    <3>1. Tidy(Ask(DescReply(Current.moved + 1)), tracks', handler'.seekable)
      BY <2>2, <2>3, <2>4, PostsAreTidy
    <3> QED
      BY <1>3, <1>5, <2>1, <2>4, <3>1
  <2>5. CASE Takes(Disconnect(Disc(FALSE)))
    <3>1. Tidy(Disconnect(Disc(FALSE)), tracks', handler'.seekable)
      BY PostsAreTidy
    <3> QED
      BY <1>3, <1>5, <2>1, <2>5, <3>1
  <2>6. CASE SetupTrack(1, tracks, source)
    <3>1. 1 \in 1 .. NumTracks
      BY SessionAssumption
    <3>2. \A i \in DOMAIN tracks : tracks[i].index < 1
      BY <2>2
    <3>3. PICK x : Takes(x) /\ Tidy(x, tracks', FALSE)
      BY <1>1, <2>6, <3>1, <3>2, SetupIsTidy
    <3> QED
      BY <1>3, <1>5, <2>1, <2>2, <3>3
  <2> QED
    BY <1>8, <2>4, <2>5, <2>6, OnDescPosts DEF OnDesc
<1>9. CASE OnSetu
  <2>1. Current.what = "setu" /\ Kind(Current) = "setup" /\ Content(Current) = Current
    BY <1>1, <1>9, OtherKinds, ContentIs DEF OnSetu
  <2>2. handler'.seekable = FALSE /\ Fits(Current, tracks)
    BY <1>1, <1>2, <1>9, <2>1, HandlerKeeps DEF Tidy, Renewal
  <2>3. /\ ~TrackGone
        /\ \A i \in DOMAIN KeptTracks : KeptTracks[i].index < Current.index + 1
    BY <1>1, <2>1, <2>2, KeptServes
  <2>4. KeptTracks \in Seq(TrackType) /\ Current.index \in 1 .. NumTracks
    BY <1>1, <2>1, <2>3, KeptTypes
  <2>5. CASE Takes(Ask(Reply("play"))) \/ Takes(Disconnect(Disc(FALSE)))
    <3>1. /\ Tidy(Ask(Reply("play")), tracks', handler'.seekable)
          /\ Tidy(Disconnect(Disc(FALSE)), tracks', handler'.seekable)
      BY <2>2, PostsAreTidy
    <3> QED
      BY <1>3, <1>5, <2>1, <2>5, <3>1
  <2>6. CASE /\ Current.index < NumTracks
             /\ SetupTrack(Current.index + 1, KeptTracks, KeptSources)
    <3>1. Current.index + 1 \in 1 .. NumTracks
      BY <2>4, <2>6, SessionAssumption
    <3>2. PICK x : Takes(x) /\ Tidy(x, tracks', FALSE)
      BY <2>3, <2>4, <2>6, <3>1, SetupIsTidy
    <3> QED
      BY <1>3, <1>5, <2>1, <2>2, <3>2
  <2> QED
    BY <1>9, <2>3, <2>5, <2>6, OnSetuPosts
<1>10. CASE OnPlay
  <2>1. Kind(Current) = "play"
    BY <1>1, <1>10, OtherKinds DEF OnPlay
  <2>2. Takes(Disconnect(Disc(FALSE))) \/ TakesNone
    BY <1>10, OnPlayPosts
  <2>3. Tidy(Disconnect(Disc(FALSE)), tracks', handler'.seekable)
    BY PostsAreTidy
  <2> QED
    BY <1>3, <1>5, <2>1, <2>2, <2>3
<1>11. CASE OnAbor
  <2>1. Kind(Current) \in {"retry", "abort"} /\ Current.again \in BOOLEAN
    BY <1>1, <1>11, OtherKinds, MsgFields DEF OnAbor
  <2>2. tracks' = <<>> /\ handler'.seekable = FALSE
    <3>1. handler' = HandlerAfterAbort
      BY <1>11, OnAborPosts DEF Alive
    <3> QED
      BY <1>1, <1>11, <3>1, HandlerKeeps DEF HandlerAfterAbort, HandlerType
  <2>3. Takes(Ask(TearReply(Current.again)))
    BY <1>11, OnAborPosts DEF Alive
  <2>4. Tidy(Ask(TearReply(Current.again)), tracks', handler'.seekable)
    BY <2>1, <2>2, PostsAreTidy
  <2> QED
    BY <1>3, <1>5, <2>1, <2>3, <2>4
<1>12. CASE OnTear
  <2>1. Current.what = "tear" /\ Content(Current) = Current
    BY <1>12, ContentIs DEF OnTear
  <2>2. UNCHANGED <<tracks, handler>>
    BY <1>12, HandlerLeaves
  <2>3. Current.again \in BOOLEAN /\ Takes(Disconnect(Disc(Current.again)))
    BY <1>12, OnTearPosts
  <2>4. CASE Current.again
    <3>1. Kind(Current) = "retry"
      BY <1>1, <2>1, <2>4, OtherKinds
    <3>2. tracks' = <<>> /\ handler'.seekable = FALSE
      BY <1>1, <1>2, <2>1, <2>2, <3>1 DEF Tidy, Renewal
    <3>3. Tidy(Disconnect(Disc(Current.again)), tracks', handler'.seekable)
      BY <2>3, <3>2, PostsAreTidy
    <3> QED
      BY <1>3, <1>5, <2>3, <3>1, <3>3
  <2>5. CASE ~Current.again
    <3>1. Takes(Disconnect(Disc(FALSE)))
      BY <2>3, <2>5
    <3>2. Tidy(Disconnect(Disc(FALSE)), tracks', handler'.seekable)
      BY PostsAreTidy
    <3> QED
      BY <1>4, <1>5, <2>2, <3>1, <3>2
  <2> QED
    BY <2>4, <2>5
\* The rest leaves tracks and seekable alone.
<1>13. CASE OnQuit \/ OnChek \/ OnFirstPacket \/ OnBiny \/ OnTiou \/ OnAccessUnit
            \/ OnSeek \/ OnSee1
  <2>1. tracks' = tracks /\ handler'.seekable = handler.seekable
    BY <1>13, HandlerKeeps
  <2>2. \/ TakesNone
        \/ \E x : Takes(x) /\ Tidy(x, tracks', handler'.seekable)
    <3>1. CASE OnQuit
      <4>1. handler.doneMsg \in {None, "cdon", "ddon"}
        BY <1>1 DEF HandlerType
      <4> QED
        BY <3>1, <4>1, OnQuitPosts, PostsAreTidy
    <3>2. CASE OnChek
      BY <3>2, OnChekPosts, PostsAreTidy
    <3>3. CASE OnFirstPacket \/ OnBiny
      BY <3>3 DEF OnFirstPacket, OnBiny, Posts, TakesNone
    <3>4. CASE OnTiou
      BY <3>4, OnTiouPosts, PostsAreTidy
    <3>5. CASE OnAccessUnit
      <4>1. crashed' # "first unit"
        BY DEF Alive
      <4> QED
        BY <3>5, <4>1, OnAccessUnitPosts, PostsAreTidy
    <3>6. CASE OnSeek
      BY <3>6, OnSeekPosts, PostsAreTidy
    <3>7. CASE OnSee1
      BY <3>7, OnSee1Posts, PostsAreTidy
    <3> QED
      BY <1>13, <3>1, <3>2, <3>3, <3>4, <3>5, <3>6, <3>7
  <2> QED
    BY <1>4, <1>5, <2>1, <2>2
<1>14. CASE OnSee2
  <2>1. Kind(Current) = "seek"
    BY <1>1, <1>14, OtherKinds DEF OnSee2
  <2>2. TakesTwo(Abor(FALSE), [what |-> "sdon"]) \/ Takes([what |-> "sdon"])
    BY <1>14, OnSee2Posts DEF Alive
  <2>3. /\ Tidy(Abor(FALSE), tracks', handler'.seekable)
        /\ Tidy([what |-> "sdon"], tracks', handler'.seekable)
    BY PostsAreTidy
  <2> QED
    BY <1>3, <1>5, <2>1, <2>2, <2>3
<1> QED
  BY <1>6, <1>7, <1>8, <1>9, <1>10, <1>11, <1>12, <1>13, <1>14 DEF HandlerStep, Handler

-----------------------------------------------------------------------------
(* The other steps.                                                        *)

\* All but the handlers.
OtherStep == \/ ConnectionStep \/ ControllerStep \/ NetworkStep \/ ServerStep
             \/ SeekStep \/ WaitStep \/ \E m \in timers : Expires(m)

Errand(m) == m \in Msg /\ m.what \in {"abor", "chek", "tiou", "seek"}

LEMMA ErrandsAreTidy ==
  ASSUME NEW m, Errand(m) \/ m = Connect
  PROVE  /\ ~IsSee(m) /\ ~IsSee2(m) /\ Kind(m) # "play"
         /\ Errand(m) => \A list, seekable : Tidy(m, list, seekable)
<1>1. CASE Errand(m)
  <2>1. m.what \in {"abor", "chek", "tiou", "seek"} /\ Content(m) = m /\ m \in Msg
    BY <1>1, ContentIs DEF Errand
  <2>2. Kind(m) \in {"retry", "abort", "check", "tiou", "seek"}
    BY <2>1, OtherKinds
  <2>3. ~Renewal(m)
    BY <2>1, OtherKinds DEF Renewal
  <2> QED
    BY <2>1, <2>2, <2>3 DEF IsSee, IsSee2, Tidy
<1>2. CASE m = Connect
  <2>1. m.what = "connect" /\ Content(m) = m /\ Kind(m) = "setup"
    BY <1>2, ContentIs, FormKinds DEF Connect
  <2> QED
    BY <2>1 DEF IsSee, IsSee2, Errand
<1> QED
  BY <1>1, <1>2

\* What the player and the timers post.
LEMMA OthersPost ==
  ASSUME TypeOK, SeekStep \/ WaitStep \/ \E m \in timers : Expires(m)
  PROVE  /\ pending' = pending
         /\ \/ mailbox' = mailbox
            \/ Prepare /\ mailbox' = Append(mailbox, Connect)
            \/ \E m : Errand(m) /\ mailbox' = Append(mailbox, m)
<1> DEFINE a == Abor(FALSE)
           s == [what |-> "seek"]
<1>1. a \in Msg /\ a.what = "abor" /\ s \in Msg /\ s.what = "seek"
  BY Posted DEF Abor
<1> HIDE DEF a, s
<1>2. Errand(a) /\ Errand(s)
  BY <1>1 DEF Errand
<1>3. CASE SeekStep
  <2>1. mailbox' = mailbox \/ mailbox' = Append(mailbox, s)
    BY <1>3 DEF SeekStep, Seek, Dies, s
  <2> QED
    BY <1>2, <1>3, <2>1 DEF SeekStep, PlayerFrame, serverVars
<1>4. CASE WaitStep
  <2>1. \/ mailbox' = mailbox \/ mailbox' = Append(mailbox, a)
        \/ Prepare /\ mailbox' = Append(mailbox, Connect)
    BY <1>4 DEF WaitStep, Prepare, ConnectReturns, BufferingUpdate, DisconnectReturns,
                Play, Decode, StreamDone, Reset, a
  <2> QED
    BY <1>2, <1>4, <2>1 DEF WaitStep, PlayerFrame, serverVars
<1>5. ASSUME NEW m \in timers, Expires(m)
      PROVE  pending' = pending /\ Errand(m) /\ mailbox' = Append(mailbox, m)
  <2>1. m \in Msg /\ m.what \in {"chek", "tiou"}
    <3>1. m = Tiou \/ m \in CheckMsgs
      BY <1>5 DEF TypeOK, BoxTypes
    <3>2. Tiou \in Msg /\ Tiou.what = "tiou" /\ CheckMsgs \subseteq Msg
      BY Posted DEF Tiou, Msg
    <3> QED
      BY <3>1, <3>2 DEF CheckMsgs
  <2> QED
    BY <1>5, <2>1 DEF Expires, Errand, serverVars
<1> QED
  BY <1>3, <1>4, <1>5

LEMMA OthersBring ==
  ASSUME TypeOK, OtherStep, NEW m \in Around'
  PROVE  Comes(m) \/ Errand(m) \/ (m = Connect /\ Prepare)
<1>1. CASE ConnectionStep
  BY <1>1, ConnectionFollows
<1>2. CASE ServerStep \/ NetworkStep \/ ControllerStep
  BY <1>2, OthersFollow
<1>3. CASE SeekStep \/ WaitStep \/ \E n \in timers : Expires(n)
  <2>1. /\ BoxTypes /\ Due' = Due /\ Connect \in Msg
        /\ Mail \subseteq Around /\ Due \subseteq Around
    BY <1>3, OthersPost, Posted DEF TypeOK, BoxTypes, Due, Around
  <2>2. CASE mailbox' = mailbox
    BY <2>1, <2>2 DEF Comes, Around, Mail
  <2>3. ASSUME NEW x \in Msg, mailbox' = Append(mailbox, x) PROVE Comes(m) \/ m = x
    <3>1. Mail' = Mail \cup {x}
      BY <2>1, <2>3, PostsOne
    <3> QED
      BY <2>1, <3>1 DEF Comes, Around
  <2> QED
    BY <1>3, <2>1, <2>2, <2>3, OthersPost DEF Errand
<1> QED
  BY <1>1, <1>2, <1>3 DEF OtherStep

LEMMA OthersKeep ==
  ASSUME TypeOK, SourceInv, OtherStep
  PROVE  /\ tracks' = tracks /\ SourceInv'
         /\ handler'.seekable = handler.seekable
         /\ handler'.seekPending = handler.seekPending
<1>1. handler \in HandlerType
  BY DEF TypeOK, SessionTypes
<1>2. tracks' = tracks /\ SourceInv'
  BY OtherSources DEF OtherStep
<1>3. CASE ~WaitStep
  <2>1. handler' = handler
    BY <1>3 DEF OtherStep, ConnectionStep, ConnectionFrame, ControllerStep,
                ControllerFrame, NetworkStep, NetFrame, ServerStep, ServerFrame, SeekStep,
                Seek, Dies, Expires, sessionVars
  <2> QED
    BY <1>2, <2>1
<1>4. CASE WaitStep
  <2>1. handler' = handler \/ \E d : handler' = [handler EXCEPT !.doneMsg = d]
    BY <1>4 DEF WaitStep, Prepare, ConnectReturns, BufferingUpdate, DisconnectReturns,
                Play, Decode, StreamDone, Reset, sessionVars
  <2> QED
    BY <1>1, <1>2, <2>1 DEF HandlerType
<1> QED
  BY <1>3, <1>4

\* Nobody but the handlers seeks, or sets up what is not tidy.
LEMMA OthersSeekNothing ==
  ASSUME TypeOK, OtherStep
  PROVE  (NoSee => NoSee') /\ (NoSee2 => NoSee2')
<1> SUFFICES ASSUME NEW m \in Around'
             PROVE  /\ IsSee(m) => \E o \in Around : IsSee(o)
                    /\ IsSee2(m) => \E o \in Around : IsSee2(o)
  BY DEF NoSee, NoSee2
<1>1. CASE Errand(m) \/ m = Connect
  BY <1>1, ErrandsAreTidy
<1>2. CASE m \in Around
  BY <1>2
<1>3. CASE m \in Binaries \cup Notices
  BY <1>3, MediaAreTidy
<1>4. ASSUME NEW o \in Around, Follows(m, o)
      PROVE  (IsSee(m) => IsSee(o)) /\ (IsSee2(m) => IsSee2(o))
  BY <1>4, FollowersAreAlike
<1> QED
  BY <1>1, <1>2, <1>3, <1>4, OthersBring DEF Comes

LEMMA OthersTidy ==
  ASSUME TypeOK, PlayerInv, SourceInv, SetupInv, player = "new" => ~handler.seekable,
         OtherStep
  PROVE  SetupInv'
<1>1. tracks' = tracks /\ handler'.seekable = handler.seekable
  BY OthersKeep
<1> SUFFICES ASSUME NEW m \in Around'
             PROVE  Tidy(m, tracks, handler.seekable)
  BY <1>1 DEF SetupInv
<1>2. CASE Errand(m)
  BY <1>2, ErrandsAreTidy
<1>3. CASE m = Connect /\ Prepare
  <2>1. tracks = <<>> /\ handler.seekable = FALSE
    BY <1>3 DEF Prepare, PlayerInv, Unused, TypeOK, SessionTypes, HandlerType
  <2>2. Tidy(Connect, <<>>, FALSE)
    BY PostsAreTidy, 0 \in Nat, TRUE \in BOOLEAN
  <2> QED
    BY <1>3, <2>1, <2>2
<1>4. CASE m \in Around
  BY <1>4 DEF SetupInv
<1>5. CASE m \in Binaries \cup Notices
  BY <1>5, MediaAreTidy
<1>6. ASSUME NEW o \in Around, Follows(m, o)
      PROVE  Tidy(m, tracks, handler.seekable)
  BY <1>6, FollowersAreAlike DEF SetupInv
<1> QED
  BY <1>2, <1>3, <1>4, <1>5, <1>6, OthersBring DEF Comes

LEMMA FliesOn ==
  ASSUME TypeOK, TypeOK'
  PROVE  \A k \in Kinds : Flying'[k] \in Nat
<1>1. mailbox' \in Seq(Msg) /\ pending' \in Seq(Awaited)
  BY DEF TypeOK, BoxTypes
<1>2. \A M : Count(mailbox', M) \in Nat /\ Count(pending', M) \in Nat
  BY <1>1, OccursFinite
<1> QED
  BY <1>2, FlyingTypes DEF Total

\* PLAY is asked for by the connection only, once the tracks are set up.
LEMMA OthersPlay ==
  ASSUME TypeOK, OtherStep
  PROVE  \/ Flying'["play"] <= Flying["play"]
         \/ ConnectionStep /\ Turns("setup", "play")
<1>1. "play" \in Kinds /\ {"setup", "exit", "retry", "seek", "media"} \subseteq Kinds
      /\ Flying["play"] \in Nat /\ Flying \in [Kinds -> Nat]
  BY FlyingTypes DEF Kinds
<1>2. CASE ConnectionStep
  <2>1. ASSUME NEW k \in {"setup", "exit", "retry", "seek"}, Turns(k, k)
        PROVE  Flying'["play"] <= Flying["play"]
    BY <1>1, <2>1 DEF Turns
  <2>2. Turns("retry", "setup") => Flying'["play"] <= Flying["play"]
    BY <1>1 DEF Turns
  <2> QED
    BY <1>2, <2>1, <2>2, ConnectionKinds
<1>3. CASE ServerStep \/ NetworkStep
  BY <1>1, <1>3, MediaKinds
<1>4. CASE ControllerStep
  <2>1. mailbox # <<>> /\ TakesNone /\ pending' = pending
    BY <1>4 DEF ControllerStep, ControllerFrame, LooperFrame, serverVars, Posts,
                TakesNone
  <2>2. Spends(Kind(Current))
    BY <2>1, KindFlow
  <2> QED
    BY <1>1, <2>2 DEF Spends
<1>5. CASE SeekStep \/ WaitStep \/ \E m \in timers : Expires(m)
  <2>1. CASE mailbox' = mailbox
    BY <1>1, <1>5, <2>1, OthersPost DEF Flying, Total
  <2>2. ASSUME NEW x \in Msg, Kind(x) # "play", mailbox' = Append(mailbox, x)
        PROVE  Flying'["play"] <= Flying["play"]
    <3>1. Gains(Kind(x))
      BY <1>5, <2>2, OthersPost, KindPosts
    <3> QED
      BY <1>1, <2>2, <3>1 DEF Gains
  <2>3. Connect \in Msg
    BY Posted
  <2> QED
    BY <1>5, <2>1, <2>2, <2>3, OthersPost, ErrandsAreTidy DEF Errand
<1> QED
  BY <1>2, <1>3, <1>4, <1>5 DEF OtherStep

\* The segment of a session changes with the answer to a seek.
LEMMA OthersSegment ==
  ASSUME TypeOK, OtherStep, NoSee
  PROVE  segment' = segment
<1>1. CASE ~ServerStep
  BY <1>1 DEF OtherStep, ConnectionStep, ConnConnect, ConnDisconnect, ConnSendRequest,
              ControllerStep, LooperFrame, NetworkStep, NetFrame, SeekStep, WaitStep,
              PlayerFrame, Expires, serverVars
<1>2. CASE ServerStep /\ ServerAnswers
  <2>1. Answered \in Awaited /\ Answered \in Due
    BY <1>2, AnswersAre
  <2>2. ~IsSee(Answered) /\ Content(Answered) = Answered
    BY <2>1, ContentIs DEF NoSee, Around
  <2>3. Answered.what # "see2"
    BY <2>2 DEF IsSee
  <2> QED
    BY <1>2, <2>3, AnswersAre
<1>3. CASE ServerStep /\ ~ServerAnswers
  BY <1>3 DEF ServerStep, ConnectionLost, ServerSendsInterleaved, serverVars
<1> QED
  BY <1>1, <1>2, <1>3

LEMMA OthersPlayOnce ==
  ASSUME TypeOK, TypeOK', SeekInv, Fed \/ UnfedInv, crashed = Alive, SourceInv, SetupInv,
         PlayInv, OtherStep
  PROVE  PlayInv'
<1>1. /\ "play" \in Kinds /\ "setup" \in Kinds
      /\ Flying["play"] \in Nat /\ Flying'["play"] \in Nat /\ Flying["setup"] \in Nat
      /\ handler'.seekable = handler.seekable
  BY OthersKeep, FlyingTypes, FliesOn DEF Kinds
<1> SUFFICES ASSUME Flying'["play"] > 0
             PROVE  Flying'["play"] = 1 /\ segment' = 0 /\ ~handler.seekable /\ NoSee'
  BY <1>1 DEF PlayInv
<1>2. CASE Flying'["play"] <= Flying["play"]
  <2>2. Flying["play"] > 0
    BY <1>1, <1>2
  <2>3. Flying["play"] = 1 /\ segment = 0 /\ ~handler.seekable /\ NoSee
    BY <2>2 DEF PlayInv
  <2> QED
    BY <1>1, <1>2, <2>3, OthersSeekNothing, OthersSegment
<1>3. CASE ConnectionStep /\ Turns("setup", "play")
  <2>1. Flying["setup"] >= 1 /\ Flying'["play"] = Flying["play"] + 1
    BY <1>1, <1>3 DEF Turns
  <2>2. UnfedInv
    BY <1>1, <2>1, FedIs
  <2>3. Flying["seek"] = 0 /\ Flying["play"] = 0 /\ segment = 0
    BY <2>1, <2>2, OnlyAttempt DEF UnfedInv, Quiet
  <2>4. NoSee
    <3>1. \A m \in Around : m \in Msg /\ Flying[Kind(m)] >= 1
      BY KindsAround, AroundIs
    <3>2. ASSUME NEW m \in Around, IsSee(m) PROVE FALSE
      BY <2>3, <3>1, <3>2, SeesAreSeeks
    <3> QED
      BY <3>2 DEF NoSee
  <2>5. PICK m \in Around : Kind(m) = "setup"
    BY <2>1, KindsAround DEF Kinds
  <2>6. Renewal(m)
    <3>1. m \in Msg
      BY AroundIs
    <3>2. m.what = "abor" => Kind(m) # "setup"
      BY <3>1, OtherKinds
    <3> QED
      BY <2>5, <3>2 DEF Renewal
  <2>7. ~handler.seekable
    BY <2>6 DEF SetupInv, Tidy
  <2> QED
    BY <2>1, <2>3, <2>4, <2>7, OthersSeekNothing, OthersSegment
<1> QED
  BY <1>2, <1>3, OthersPlay

LEMMA OthersSeek ==
  ASSUME TypeOK, SourceInv, SeeInv, OtherStep
  PROVE  SeeInv'
<1>1. /\ tracks' = tracks /\ handler'.seekPending = handler.seekPending
      /\ NoSee => NoSee'
      /\ NoSee2 => NoSee2'
  BY OthersKeep, OthersSeekNothing
<1>2. ASSUME Emptied PROVE Emptied'
  <2>1. CASE source' = source
    BY <1>1, <1>2, <2>1 DEF Emptied, SourceOf
  <2>2. CASE WaitStep /\ Decode
    <3>1. PICK i \in DOMAIN source :
              HasUnit(source[i]) /\ source' = [source EXCEPT ![i] = AfterRead(@)]
      BY <2>2 DEF Decode
    <3>2. \A t \in DOMAIN tracks : tracks[t].index # i /\ tracks[t].index \in DOMAIN source
      BY <1>2, <3>1 DEF Emptied, SourceOf, HasUnit, SourceInv, Served
    <3> QED
      BY <1>1, <1>2, <3>1, <3>2 DEF Emptied, SourceOf
  <2>3. CASE WaitStep /\ Reset
    BY <1>1, <1>2, <2>3 DEF Reset, Emptied, SourceOf
  <2>4. source' = source \/ (WaitStep /\ (Decode \/ Reset))
    BY DEF OtherStep, ConnectionStep, ConnectionFrame, ControllerStep, ControllerFrame,
           NetworkStep, NetFrame, ServerStep, ServerFrame, SeekStep, Seek, Dies, Expires,
           sessionVars, WaitStep, Prepare, ConnectReturns, BufferingUpdate,
           DisconnectReturns, Play, StreamDone
  <2> QED
    BY <2>1, <2>2, <2>3, <2>4
<1> QED
  BY <1>1, <1>2 DEF SeeInv

\* What has to do with no seek.
LEMMA NotOfSeek ==
  /\ ~IsSee(Connect) /\ ~IsSee([what |-> "quit"]) /\ ~IsSee([what |-> "sdon"])
  /\ ~IsSee(Abor(TRUE)) /\ ~IsSee(Abor(FALSE))
  /\ ~IsSee(Ask(Reply("play")))
  /\ \A b : ~IsSee(Disc(b)) /\ ~IsSee(Disconnect(Disc(b))) /\ ~IsSee(Ask(TearReply(b)))
  /\ \A n : ~IsSee(Ask(DescReply(n)))
  /\ \A w, x : w \in {"cdon", "ddon"} => ~IsSee([what |-> w, result |-> x])
  /\ \A i, t : ~IsSee(Ask(SetuReply(i, t)))
  /\ \A i : ~IsSee(With(SetuReply(i, NoTrack), "error"))
<1>1. \A m : m.what \notin {"send", "see1", "see2"} => ~IsSee(m)
  BY ContentIs DEF IsSee
<1>2. \A r : r.what \notin {"see1", "see2"} => ~IsSee(Ask(r))
  <2>1. \A r : Ask(r).what = "send" /\ Ask(r).reply = r
    BY DEF Ask
  <2> QED
    BY <2>1 DEF IsSee, Content
<1>3. ~IsSee(Connect) /\ ~IsSee([what |-> "quit"]) /\ ~IsSee([what |-> "sdon"])
  BY <1>1 DEF Connect
<1>4. \A b : ~IsSee(Abor(b))
  <2>1. \A b : Abor(b).what = "abor"
    BY DEF Abor
  <2> QED
    BY <1>1, <2>1
<1>5. ~IsSee(Ask(Reply("play")))
  BY <1>2 DEF Reply
<1>6. \A b : ~IsSee(Disc(b)) /\ ~IsSee(Disconnect(Disc(b))) /\ ~IsSee(Ask(TearReply(b)))
  <2>1. \A b : /\ Disc(b).what = "disc" /\ Disconnect(Disc(b)).what = "disconnect"
               /\ TearReply(b).what = "tear"
    BY DEF Disc, Disconnect, TearReply
  <2> QED
    BY <1>1, <1>2, <2>1
<1>7. \A n : ~IsSee(Ask(DescReply(n)))
  <2>1. \A n : DescReply(n).what = "desc"
    BY DEF DescReply
  <2> QED
    BY <1>2, <2>1
<1>8. \A w, x : w \in {"cdon", "ddon"} => ~IsSee([what |-> w, result |-> x])
  <2>1. \A w, x : [what |-> w, result |-> x].what = w
    OBVIOUS
  <2> QED
    BY <1>1, <2>1
<1>9. /\ \A i, t : ~IsSee(Ask(SetuReply(i, t)))
      /\ \A i : ~IsSee(With(SetuReply(i, NoTrack), "error"))
  <2>1. /\ \A i, t : SetuReply(i, t).what = "setu"
        /\ \A i : With(SetuReply(i, NoTrack), "error").what = "setu"
    BY DEF SetuReply, With
  <2> QED
    BY <1>1, <1>2, <2>1
<1>10. ~IsSee(Abor(TRUE)) /\ ~IsSee(Abor(FALSE))
  BY <1>4
<1> QED
  BY <1>3, <1>5, <1>6, <1>7, <1>8, <1>9, <1>10

\* Only 'seek' and 'see1' lead to a request of the seek.
LEMMA SeeksArePosted ==
  ASSUME TypeOK, HandlerStep, crashed' = Alive, SessionAssumption
  PROVE  /\ ~OnSeek /\ ~OnSee1 => \A m \in Around' : m \in Rest \cup Due \/ ~IsSee(m)
         /\ OnSeek => \A m \in Around' :
              \/ m \in Rest \cup Due \/ ~IsSee(m)
              \/ ~handler.seekPending /\ handler.seekable /\ ~IsSee2(m)
                   /\ handler'.seekPending
<1>1. /\ TakesNone => \A m \in Around' : m \in Rest \cup Due
      /\ \A x : Takes(x) => \A m \in Around' : m \in Rest \cup Due \/ m = x
      /\ \A x, y : TakesTwo(x, y) =>
            \A m \in Around' : m \in Rest \cup Due \/ m = x \/ m = y
  BY HandledAround
<1>2. /\ TakesNone => \A m \in Around' : m \in Rest \cup Due \/ ~IsSee(m)
      /\ \A x : Takes(x) /\ ~IsSee(x) =>
            \A m \in Around' : m \in Rest \cup Due \/ ~IsSee(m)
      /\ \A x, y : TakesTwo(x, y) /\ ~IsSee(x) /\ ~IsSee(y) =>
            \A m \in Around' : m \in Rest \cup Due \/ ~IsSee(m)
  BY <1>1
<1>3. \A index, list, sources, x : SetupMsg(index, list, sources, x) => ~IsSee(x)
  BY NotOfSeek DEF SetupMsg
<1>4. handler \in HandlerType
  BY DEF TypeOK, SessionTypes
<1>5. CASE OnConn
  BY <1>2, <1>5, OnConnPosts, NotOfSeek
<1>6. CASE OnDisc
  BY <1>2, <1>6, OnDiscPosts, NotOfSeek
<1>7. CASE OnDesc
  BY <1>2, <1>3, <1>7, OnDescPosts, NotOfSeek
<1>8. CASE OnSetu
  <2>1. ~TrackGone
    BY <1>8, OnSetuPosts DEF Alive
  <2> QED
    BY <1>2, <1>3, <1>8, <2>1, OnSetuPosts, NotOfSeek
<1>9. CASE OnPlay
  BY <1>2, <1>9, OnPlayPosts, NotOfSeek
<1>10. CASE OnAbor
  <2>1. Takes(Ask(TearReply(Current.again)))
    BY <1>10, OnAborPosts DEF Alive
  <2> QED
    BY <1>2, <2>1, NotOfSeek
<1>11. CASE OnTear
  BY <1>2, <1>11, OnTearPosts, NotOfSeek
<1>12. CASE OnQuit
  <2>1. handler.doneMsg \in {None, "cdon", "ddon"}
    BY <1>4 DEF HandlerType
  <2> QED
    BY <1>2, <1>12, <2>1, OnQuitPosts, NotOfSeek
<1>13. CASE OnChek
  BY <1>2, <1>13, OnChekPosts, NotOfSeek
<1>14. CASE OnFirstPacket \/ OnBiny
  BY <1>2, <1>14 DEF OnFirstPacket, OnBiny, Posts, TakesNone
<1>15. CASE OnAccessUnit
  <2>1. crashed' # "first unit"
    BY DEF Alive
  <2>2. TakesNone \/ (/\ handler.doneMsg \in {"cdon", "ddon"}
                      /\ Takes([what |-> handler.doneMsg, result |-> "ok"]))
    BY <1>15, <2>1, OnAccessUnitPosts
  <2>3. handler.doneMsg \in {"cdon", "ddon"}
          => ~IsSee([what |-> handler.doneMsg, result |-> "ok"])
    BY NotOfSeek
  <2> QED
    BY <1>2, <2>2, <2>3
<1>16. CASE OnTiou
  BY <1>2, <1>16, OnTiouPosts, NotOfSeek
<1>17. CASE OnSee2
  <2>1. TakesTwo(Abor(FALSE), [what |-> "sdon"]) \/ Takes([what |-> "sdon"])
    BY <1>17, OnSee2Posts DEF Alive
  <2> QED
    BY <1>2, <2>1, NotOfSeek
<1>18. ASSUME OnSeek
       PROVE  \A m \in Around' :
              \/ m \in Rest \cup Due \/ ~IsSee(m)
              \/ ~handler.seekPending /\ handler.seekable /\ ~IsSee2(m)
                   /\ handler'.seekPending
  <2>1. CASE Takes([what |-> "sdon"])
    BY <1>2, <2>1, NotOfSeek
  <2>2. CASE /\ ~handler.seekPending /\ handler.seekable
             /\ Takes(Ask(Reply("see1")))
             /\ handler' = [handler EXCEPT !.seekPending = TRUE,
                                           !.checkPending = TRUE,
                                           !.checkGen = @ + 1]
    <3>1. handler'.seekPending
      BY <1>4, <2>2 DEF HandlerType
    <3>2. ~IsSee2(Ask(Reply("see1")))
      BY DEF IsSee2, Content, Ask, Reply
    <3> QED
      BY <1>1, <2>2, <3>1, <3>2
  <2> QED
    BY <1>18, <2>1, <2>2, OnSeekPosts
<1>19. \/ OnSeek \/ OnSee1 \/ OnConn \/ OnDisc \/ OnDesc \/ OnSetu \/ OnPlay \/ OnAbor
       \/ OnTear \/ OnQuit \/ OnChek \/ OnFirstPacket \/ OnBiny \/ OnAccessUnit
       \/ OnTiou \/ OnSee2
  BY DEF HandlerStep, Handler
<1> QED
  BY <1>5, <1>6, <1>7, <1>8, <1>9, <1>10, <1>11, <1>12, <1>13, <1>14, <1>15, <1>16,
     <1>17, <1>18, <1>19

LEMMA SeekAlone ==
  ASSUME TypeOK, SeekInv, crashed = Alive
  PROVE  /\ Flying["seek"] = 0 => NoSee
         /\ NoSee => NoSee2
         /\ mailbox # <<>> /\ Kind(Current) = "seek" =>
               \A m \in Rest \cup Due : ~IsSee(m)
<1>1. /\ \A m \in Around : m \in Msg /\ Flying[Kind(m)] >= 1
      /\ Flying["seek"] <= 1
  BY KindsAround, AroundIs, SeekFlies
<1>2. ASSUME Flying["seek"] = 0, NEW m \in Around PROVE ~IsSee(m)
  BY <1>1, <1>2, SeesAreSeeks
<1>3. ASSUME mailbox # <<>>, Kind(Current) = "seek", NEW m \in Rest \cup Due
      PROVE  ~IsSee(m)
  <2>1. Kind(m) # "seek" /\ m \in Around
    BY <1>1, <1>3, Alone, AroundIs DEF Around
  <2> QED
    BY <1>1, <2>1, SeesAreSeeks
<1> QED
  BY <1>2, <1>3, SeesAreSeeks DEF NoSee, NoSee2

\* While a session is set up nobody seeks.
LEMMA SetupIsCalm ==
  ASSUME TypeOK, SeekInv, Fed \/ UnfedInv, crashed = Alive, mailbox # <<>>,
         Kind(Current) = "setup"
  PROVE  NoSee
<1>1. Flying["setup"] >= 1
  BY AroundIs, KindsAround
<1>2. UnfedInv
  BY <1>1, FedIs
<1>3. Flying["seek"] = 0
  BY <1>2, OnlyAttempt
<1> QED
  BY <1>3, SeekAlone

\* What the handlers' messages say of the session.
LEMMA HandlersAreDue ==
  ASSUME TypeOK, SeekInv, crashed = Alive, HandlerStep, SetupInv, PlayInv, SeeInv
  PROVE  /\ Current \in Msg /\ Current \in Around /\ Rest \cup Due \subseteq Around
         /\ OnDesc => tracks = <<>> /\ Kind(Current) = "setup"
         /\ OnSetu => Fits(Current, tracks) /\ Kind(Current) = "setup"
         /\ OnPlay => /\ Flying["play"] = 1 /\ segment = 0 /\ NoSee
         /\ OnSee1 => IsSee(Current)
         /\ OnSee2 => IsSee(Current) /\ Emptied
         /\ OnSeek \/ OnSee1 \/ OnSee2 => Kind(Current) = "seek"
<1>1. /\ mailbox # <<>> /\ Current \in Msg /\ Current \in Around
      /\ Rest \cup Due \subseteq Around
      /\ Tidy(Current, tracks, handler.seekable) /\ Flying[Kind(Current)] >= 1
  BY CurrentIs, AroundIs, KindsAround DEF HandlerStep, SetupInv, Around
<1>2. OnDesc => tracks = <<>> /\ Kind(Current) = "setup"
  BY <1>1, OtherKinds, ContentIs DEF OnDesc, Tidy, Renewal
<1>3. OnSetu => Fits(Current, tracks) /\ Kind(Current) = "setup"
  BY <1>1, OtherKinds, ContentIs DEF OnSetu, Tidy
<1>4. OnPlay => /\ Flying["play"] = 1 /\ segment = 0 /\ NoSee
  <2> SUFFICES ASSUME OnPlay PROVE /\ Flying["play"] = 1 /\ segment = 0 /\ NoSee
    OBVIOUS
  <2>1. Kind(Current) = "play"
    BY <1>1, OtherKinds DEF OnPlay
  <2>2. Flying["play"] > 0
    BY <1>1, <2>1, Numbers DEF Kinds
  <2> QED
    BY <2>2 DEF PlayInv
<1>5. /\ OnSee1 => IsSee(Current)
      /\ OnSee2 => IsSee(Current) /\ IsSee2(Current)
  BY ContentIs DEF OnSee1, OnSee2, IsSee, IsSee2
<1>6. OnSee2 => Emptied
  BY <1>1, <1>5 DEF SeeInv, NoSee2
<1>7. OnSeek \/ OnSee1 \/ OnSee2 => Kind(Current) = "seek"
  BY <1>1, OtherKinds DEF OnSeek, OnSee1, OnSee2
<1> QED
  BY <1>1, <1>2, <1>3, <1>4, <1>5, <1>6, <1>7

\* A handler answers PLAY, but none asks for it.
LEMMA HandlersPlay ==
  ASSUME TypeOK, HandlerStep, crashed' = Alive, SessionAssumption
  PROVE  /\ Flying'["play"] <= Flying["play"]
         /\ OnPlay => Flying'["play"] = Flying["play"] - 1
<1>1. "play" \in Kinds /\ Flying["play"] \in Nat
  BY Numbers DEF Kinds
<1>2. \A j, l : Deals(j, l) /\ l # "play" =>
         /\ Flying'["play"] <= Flying["play"]
         /\ j = "play" => Flying'["play"] = Flying["play"] - 1
  BY <1>1, DealsAt
<1>3. \A j : Drains(j) =>
         /\ Flying'["play"] <= Flying["play"]
         /\ j = "play" => Flying'["play"] = Flying["play"] - 1
  BY <1>1, DealsAt
<1>4. CASE OnPlay
  BY <1>2, <1>3, <1>4, PlayMoves
<1>5. CASE OnConn \/ OnDisc \/ OnDesc \/ OnSetu
  <2>1. Flying'["play"] <= Flying["play"]
    BY <1>2, <1>5, SetupMoves
  <2>2. ~OnPlay
    BY <1>5 DEF OnConn, OnDisc, OnDesc, OnSetu, OnPlay
  <2> QED
    BY <2>1, <2>2
<1>6. CASE OnAbor \/ OnTear \/ OnQuit
  <2>1. Flying'["play"] <= Flying["play"]
    BY <1>2, <1>3, <1>6, PlayMoves
  <2>2. ~OnPlay
    BY <1>6 DEF OnAbor, OnTear, OnQuit, OnPlay
  <2> QED
    BY <2>1, <2>2
<1>7. CASE OnChek \/ OnFirstPacket \/ OnBiny \/ OnAccessUnit \/ OnSeek \/ OnSee1 \/ OnTiou
  <2>1. Flying'["play"] <= Flying["play"]
    BY <1>2, <1>3, <1>7, MediaMoves
  <2>2. ~OnPlay
    BY <1>7 DEF OnChek, OnFirstPacket, OnBiny, OnAccessUnit, OnSeek, OnSee1, OnTiou, OnPlay
  <2> QED
    BY <2>1, <2>2
<1>8. CASE OnSee2
  <2>1. Flying'["play"] <= Flying["play"]
    <3>1. \/ Deals("seek", "seek")
          \/ \A k \in Kinds : Flying'[k] = Flying[k] + (IF k = "abort" THEN 1 ELSE 0)
      BY <1>8, MediaMoves
    <3> QED
      BY <1>1, <1>2, <3>1
  <2>2. ~OnPlay
    BY <1>8 DEF OnSee2, OnPlay
  <2> QED
    BY <2>1, <2>2
<1> QED
  BY <1>4, <1>5, <1>6, <1>7, <1>8 DEF HandlerStep, Handler

LEMMA HandlerPlaysOnce ==
  ASSUME TypeOK, TypeOK', SeekInv, crashed = Alive, HandlerStep, crashed' = Alive,
         SessionAssumption, SetupInv, PlayInv, SeeInv
  PROVE  PlayInv'
<1>1. Flying["play"] \in Nat /\ Flying'["play"] \in Nat
  BY Numbers, FliesOn DEF Kinds
<1> SUFFICES ASSUME Flying'["play"] > 0
             PROVE  /\ Flying'["play"] = 1 /\ segment' = 0 /\ ~handler'.seekable
                    /\ NoSee'
  BY DEF PlayInv
<1>9. /\ Flying'["play"] <= Flying["play"]
      /\ OnPlay => Flying'["play"] = Flying["play"] - 1
  BY HandlersPlay
<1>2. Flying["play"] > 0
  BY <1>1, <1>9
<1>3. Flying["play"] = 1 /\ segment = 0 /\ ~handler.seekable /\ NoSee
  BY <1>2 DEF PlayInv
<1>4. Flying'["play"] = 1 /\ ~OnPlay
  BY <1>1, <1>3, <1>9
<1>5. segment' = 0
  BY <1>3, HandlerLeaves
<1>6. ~OnSee1 /\ ~OnSee2
  BY <1>3, HandlersAreDue DEF NoSee
<1>7. ~handler'.seekable
  BY <1>3, <1>4, <1>6, HandlerKeeps DEF HandlerStep, Handler
<1>8. NoSee'
  <2>1. \A m \in Rest \cup Due : ~IsSee(m)
    BY <1>3, HandlersAreDue DEF NoSee
  <2>2. \A m \in Around' : ~IsSee(m)
    BY <1>3, <1>6, <2>1, SeeksArePosted
  <2> QED
    BY <2>2 DEF NoSee
<1> QED
  BY <1>4, <1>5, <1>7, <1>8

LEMMA HandlerSeesRight ==
  ASSUME TypeOK, SeekInv, Fed \/ UnfedInv, crashed = Alive, HandlerStep,
         crashed' = Alive, SessionAssumption, SourceInv, SetupInv, PlayInv, SeeInv
  PROVE  SeeInv'
<1>1. /\ mailbox # <<>> /\ Rest \cup Due \subseteq Around /\ Current \in Around
  BY HandlersAreDue DEF HandlerStep
<1>2. /\ \A m : IsSee2(m) => IsSee(m)
      /\ NoSee' => NoSee2'
  BY SeesAreSeeks DEF NoSee, NoSee2
<1>3. ASSUME ~OnSeek, ~OnSee1
      PROVE  /\ (\A m \in Rest \cup Due : ~IsSee(m)) => NoSee'
             /\ (NoSee => NoSee') /\ (NoSee2 => NoSee2')
  <2>1. \A m \in Around' : m \in Rest \cup Due \/ ~IsSee(m)
    BY <1>3, SeeksArePosted
  <2> QED
    BY <1>1, <1>2, <2>1 DEF NoSee, NoSee2
<1>4. CASE \/ OnConn \/ OnDisc \/ OnTear \/ OnQuit \/ OnChek \/ OnFirstPacket
           \/ OnBiny \/ OnTiou
  <2>1. ~OnSeek /\ ~OnSee1
    BY <1>4 DEF OnConn, OnDisc, OnTear, OnQuit, OnChek, OnFirstPacket, OnBiny, OnTiou,
                OnSeek, OnSee1
  <2>2. UNCHANGED <<tracks, source>> /\ handler'.seekPending = handler.seekPending
    BY <1>4, HandlerKeeps
  <2> QED
    BY <1>3, <2>1, <2>2 DEF SeeInv, Emptied, SourceOf
<1>5. CASE OnDesc \/ OnSetu \/ OnPlay
  <2>1. ~OnSeek /\ ~OnSee1
    BY <1>5 DEF OnDesc, OnSetu, OnPlay, OnSeek, OnSee1
  <2>2. NoSee
    BY <1>1, <1>5, HandlersAreDue, SetupIsCalm
  <2> QED
    BY <1>2, <1>3, <2>1, <2>2 DEF SeeInv
<1>6. CASE OnAbor
  <2>1. tracks' = <<>>
    BY <1>6, HandlerKeeps
  <2> QED
    BY <2>1 DEF SeeInv, Emptied
<1>7. CASE OnAccessUnit
  <2>1. ~OnSeek /\ ~OnSee1
    BY <1>7 DEF OnAccessUnit, OnSeek, OnSee1
  <2>2. CASE NoSee
    BY <1>2, <1>3, <2>1, <2>2 DEF SeeInv
  <2>3. CASE ~NoSee
    <3>1. handler.seekPending \/ tracks = <<>>
      BY <2>3 DEF SeeInv
    <3>2. ~Wanted(Current)
      BY <3>1 DEF Wanted
    <3>3. UNCHANGED <<tracks, source>> /\ handler'.seekPending = handler.seekPending
      BY <1>7, <3>2, HandlerKeeps
    <3> QED
      BY <1>3, <2>1, <3>3 DEF SeeInv, Emptied, SourceOf
  <2> QED
    BY <2>2, <2>3
<1>8. CASE OnSeek
  <2>1. \A m \in Rest \cup Due : ~IsSee(m)
    BY <1>1, <1>8, HandlersAreDue, SeekAlone
  <2>2. \A m \in Around' : ~IsSee2(m) /\ (IsSee(m) => handler'.seekPending)
    BY <1>2, <1>8, <2>1, SeeksArePosted
  <2> QED
    BY <2>2 DEF SeeInv, NoSee, NoSee2
<1>9. CASE OnSee1
  <2>1. handler.seekPending \/ tracks = <<>>
    BY <1>9, HandlersAreDue DEF SeeInv, NoSee
  <2>2. UNCHANGED <<handler, tracks>>
    BY <1>9, HandlerKeeps
  <2>3. Emptied'
    <3>1. \A i \in DOMAIN source : FlushedBySeek(source[i]).buffers = <<>>
      <4>1. \A i \in DOMAIN source : source[i] \in SourceType
        BY DEF TypeOK, SessionTypes
      <4> QED
        BY <4>1 DEF FlushedBySeek, FlushQueue, SourceType
    <3>2. \A n \in DOMAIN tracks : tracks[n].index \in DOMAIN source
      BY DEF SourceInv, Served
    <3>3. source' = [i \in DOMAIN source |->
                        IF \E n \in DOMAIN tracks : tracks[n].index = i
                        THEN FlushedBySeek(source[i]) ELSE source[i]]
      BY <1>9 DEF OnSee1
    <3> QED
      BY <2>2, <3>1, <3>2, <3>3 DEF Emptied, SourceOf
  <2> QED
    BY <2>1, <2>2, <2>3 DEF SeeInv
<1>10. CASE OnSee2
  <2>1. ~OnSeek /\ ~OnSee1
    BY <1>10 DEF OnSee2, OnSeek, OnSee1
  <2>2. \A m \in Rest \cup Due : ~IsSee(m)
    BY <1>1, <1>10, HandlersAreDue, SeekAlone
  <2> QED
    BY <1>2, <1>3, <2>1, <2>2 DEF SeeInv
<1> QED
  BY <1>4, <1>5, <1>6, <1>7, <1>8, <1>9, <1>10 DEF HandlerStep, Handler

-----------------------------------------------------------------------------
(* The invariant.                                                          *)

LEMMA NeverNew ==
  ASSUME TypeOK, PlayerInv, Next, crashed' = Alive
  PROVE  player' # "new"
<1>1. CASE player = "new"
  BY <1>1, NewPlayer DEF Prepare
<1>2. CASE player # "new" /\ ~WaitStep
  <2>1. player' = player
    BY <1>2, Steps, HandlerLeaves DEF ConnectionStep, ConnectionFrame, playerVars,
       ControllerStep, LooperFrame, NetworkStep, NetFrame, ServerStep, ServerFrame,
       SeekStep, Seek, FailStep, Expires
  <2> QED
    BY <1>2, <2>1
<1>3. CASE player # "new" /\ WaitStep
  BY <1>3 DEF WaitStep, Prepare, ConnectReturns, BufferingUpdate, DisconnectReturns, Play,
              Decode, StreamDone, Reset, playerVars
<1> QED
  BY <1>1, <1>2, <1>3

LEMMA InitFresh ==
  ASSUME Init
  PROVE  FreshInv
<1>1. /\ mailbox = <<>> /\ pending = <<>> /\ tracks = <<>> /\ source = <<>>
      /\ handler.seekable = FALSE
  BY DEF Init
<1>2. Around = {}
  BY <1>1, SetOfFew DEF Around, Mail, Due
<1>3. Flying["play"] = 0
  BY <1>1, CountEmpty DEF Flying, Kinds, Total
<1> QED
  BY <1>1, <1>2, <1>3 DEF FreshInv, SourceInv, Served, CleanSources, SetupInv, PlayInv,
                          SeeInv, NoSee, NoSee2

LEMMA FreshKept ==
  ASSUME TypeOK, TypeOK', SeekInv, FeedInv, FreshInv, Next, SessionAssumption
  PROVE  FreshInv'
<1>1. /\ crashed = Alive /\ (Fed \/ UnfedInv) /\ PlayerInv
      /\ SourceInv /\ SetupInv /\ PlayInv /\ SeeInv
      /\ player = "new" => ~handler.seekable
  BY Steps DEF FeedInv, FreshInv
<1>2. crashed' = Alive => player' # "new"
  BY <1>1, NeverNew
<1>3. CASE HandlerStep
  <2>1. SourceInv'
    <3>1. /\ OnDesc => tracks = <<>>
          /\ OnSetu => Fits(Current, tracks)
          /\ OnPlay => segment = 0
          /\ OnSee2 => Emptied
      BY <1>1, <1>3, HandlersAreDue
    <3> QED
      BY <1>1, <1>3, <3>1, HandlerSources
  <2>2. crashed' = Alive => SetupInv'
    BY <1>1, <1>3, HandlerTidies
  <2>3. crashed' = Alive => PlayInv'
    BY <1>1, <1>3, HandlerPlaysOnce
  <2>4. crashed' = Alive => SeeInv'
    BY <1>1, <1>3, HandlerSeesRight
  <2> QED
    BY <1>2, <2>1, <2>2, <2>3, <2>4 DEF FreshInv
<1>4. CASE OtherStep
  <2>1. SourceInv'
    BY <1>1, <1>4, OthersKeep
  <2>2. SetupInv'
    BY <1>1, <1>4, OthersTidy
  <2>3. PlayInv'
    BY <1>1, <1>4, OthersPlayOnce
  <2>4. SeeInv'
    BY <1>1, <1>4, OthersSeek
  <2> QED
    BY <1>2, <2>1, <2>2, <2>3, <2>4 DEF FreshInv
<1>5. CASE FailStep
  BY <1>1, <1>5, OtherSources DEF FreshInv, FailStep
<1> QED
  BY <1>3, <1>4, <1>5, Steps DEF OtherStep

LEMMA FreshIs ==
  ASSUME TypeOK, FreshInv
  PROVE  FreshAfterSeek
<1> SUFFICES ASSUME NEW t \in DOMAIN tracks
             PROVE  /\ tracks[t].told =>
                          \A i \in DOMAIN SourceOf(t).buffers :
                             SourceOf(t).buffers[i].seg >= tracks[t].firstSeg
                    /\ SourceOf(t).fresh /\ SourceOf(t).avc /\ HasUnit(SourceOf(t)) =>
                          Head(SourceOf(t).buffers).idr
  BY DEF FreshAfterSeek
<1>1. /\ tracks[t].index \in DOMAIN source
      /\ tracks[t].told => Since(SourceOf(t), tracks[t].firstSeg)
      /\ Clean(SourceOf(t))
  BY DEF FreshInv, SourceInv, Served, CleanSources, SourceOf
<1> QED
  BY <1>1 DEF Since, Clean, HasUnit

\* DSPGMyHandler.h:748-775, 854-926, DSPGAPacketSource.cpp:756-799: once the response
\* to the PLAY of a seek is handled, no track's source holds a unit of what was
\* played before, whatever was still on its way through the loopers, if the
\* sequence number in that response tells the two apart; and, if it does or not,
\* the first unit a decoder of H.264 takes from a flushed source is an IDR frame.
THEOREM DecodersGetFreshUnits == Spec => []FreshAfterSeek
<1>1. Init => FreshInv
  BY InitFresh
<1>2. /\ TypeOK /\ TypeOK' /\ SeekInv /\ FeedInv /\ FreshInv /\ [Next]_vars
      => FreshInv'
  <2>1. CASE Next
    BY <2>1, FreshKept, SessionAssumption
  <2>2. CASE UNCHANGED vars
    BY <2>2 DEF vars, netVars, sessionVars, serverVars, playerVars, FreshInv, SourceInv,
       Served, CleanSources, SetupInv, PlayInv, SeeInv, NoSee, NoSee2, Around, Mail, Due,
       Emptied, SourceOf, Flying, Total
  <2> QED
    BY <2>1, <2>2
<1>3. TypeOK /\ FreshInv => FreshAfterSeek
  BY FreshIs
<1>4. Spec => [](TypeOK /\ SeekInv /\ FeedInv)
  BY FeedIsInvariant
<1> QED
  BY <1>1, <1>2, <1>3, <1>4, PTL DEF Spec

-----------------------------------------------------------------------------
(* The streams of the RTP connection.  A pair is added once and removed    *)
(* once, and what is injected finds its stream.                            *)

\* A pair of UDP sockets; the others are pairs of interleaved channels.
Udp(x) == x \notin {"tcp"} \X (1 .. NumTracks)

StreamsOf(x) == {s \in StreamType : s.socket = x}
AddsOf(x) == {m \in NetMsg : m.what = "add" /\ m.stream.socket = x}

\* How often a pair is added, or will be, and how often it will be removed.
Regs == [x \in Socket |-> Count(streams, StreamsOf(x)) + Count(netbox, AddsOf(x))]
Removals == [x \in Socket |-> Count(netbox, {RemoveStream(x)})]
Removing == \E m \in ToSet(netbox) : m.what = "remove"

\* A stream of channels, which is never removed.
Injectable(x) == ~Udp(x) /\ Registered(x) # {}

Own(s) == s.injected <=> ~Udp(s.socket)
Proper(m) == /\ m.what = "add" => Own(m.stream)
             /\ m.what = "remove" => Udp(m.socket)
             /\ m.what = "inject" => Injectable(m.socket)

StreamInv ==
    /\ \A i \in DOMAIN streams : Own(streams[i])
    /\ \A m \in ToSet(netbox) : Proper(m)
    /\ \A m \in Mail : m.what = "biny" => Injectable(m.socket)

\* A pair that is removed was added before, and is added no more.
RegInv(x) ==
    /\ Regs[x] <= 1 /\ Removals[x] <= Regs[x]
    /\ Regs[x] = 1 => Removals[x] = 1 \/ x \in PairsOf(tracks)
InLine(box) ==
    \A j, k \in DOMAIN box :
       j < k /\ box[j].what = "remove" /\ box[k].what = "add" => box[k].stream.injected
LineInv ==
    /\ \A x \in Socket : Udp(x) => RegInv(x)
    /\ InLine(netbox)
    /\ Removing => handler.tryTCP /\ PairsOf(tracks) = {}

\* The SETUPs of tracks that are on their way.
SetsUp(m) == Content(m).what = "setu" /\ Content(m).track # NoTrack
SetUps == {m \in Msg : SetsUp(m)}
Settings == Total(mailbox, pending, SetUps)

\* The pair of a track is added when its SETUP succeeded, and not before.
Joins(k) == Udp(tracks[k].socket) =>
               Regs[tracks[k].socket] = IF k = Len(tracks) /\ Settings > 0 THEN 0 ELSE 1
JoinInv ==
    /\ Settings <= 1
    /\ \A k \in DOMAIN tracks : /\ tracks[k].index >= k
                                /\ Joins(k)
                                /\ Udp(tracks[k].socket) =>
                                      tracks[k].socket = <<"udp", tracks[k].index>>
                                /\ handler.tryTCP \/ Udp(tracks[k].socket)
    /\ handler.tryTCP => Flying["retry"] > 0 \/ PairsOf(tracks) = {}
    /\ Flying["retry"] > 0 => handler.tryTCP

NetInv == crashed = Alive => StreamInv /\ LineInv /\ JoinInv

-----------------------------------------------------------------------------
(* Counting streams and what is posted to the RTP connection.              *)

\* Two sequences that have members of two sets at the same places.
LEMMA CountSame ==
  ASSUME NEW s, NEW t, NEW M, NEW N, DOMAIN s = DOMAIN t,
         \A i \in DOMAIN s : s[i] \in M <=> t[i] \in N
  PROVE  Count(s, M) = Count(t, N)
<1>1. Occurs(s, M) = Occurs(t, N)
  BY DEF Occurs
<1> QED
  BY <1>1 DEF Count

\* What is left when a place is removed.
LEMMA RemoveAtIs ==
  ASSUME NEW S, NEW s \in Seq(S), NEW k \in DOMAIN s
  PROVE  /\ DOMAIN RemoveAt(s, k) = 1 .. Len(s) - 1
         /\ \A i \in 1 .. Len(s) - 1 :
              RemoveAt(s, k)[i] = IF i < k THEN s[i] ELSE s[i + 1]
<1> DEFINE n == Len(s)
           u == SubSeq(s, 1, k - 1)
           v == SubSeq(s, k + 1, n)
<1>1. n \in Nat /\ k \in 1 .. n /\ DOMAIN s = 1 .. n
  BY LenProperties
<1>2. \A i \in 1 .. n : s[i] \in S
  BY <1>1, ElementOfSeq
<1>3. /\ u \in Seq(S) /\ Len(u) = k - 1
      /\ \A i \in 1 .. k - 1 : u[i] = s[i]
  <2>1. \A i \in 1 .. k - 1 : s[i] \in S
    BY <1>1, <1>2
  <2> QED
    BY <1>1, <2>1, SubSeqProperties
<1>4. /\ v \in Seq(S) /\ Len(v) = n - k
      /\ \A i \in 1 .. n - k : v[i] = s[k + i]
  <2>1. \A i \in k + 1 .. n : s[i] \in S
    BY <1>1, <1>2
  <2>2. v \in Seq(S) /\ Len(v) = n - k
    BY <1>1, <2>1, SubSeqProperties
  <2>3. \A i \in 1 .. n - k : v[i] = s[k + 1 + i - 1]
    BY <1>1, <2>1, <2>2, SubSeqProperties
  <2>4. ASSUME NEW i \in 1 .. n - k
        PROVE  k + 1 + i - 1 = k + i
    BY <1>1
  <2> QED
    BY <2>2, <2>3, <2>4
<1>5. RemoveAt(s, k) = u \o v
  BY DEF RemoveAt
<1> HIDE DEF n, u, v
<1>6. /\ Len(u \o v) = n - 1 /\ u \o v \in Seq(S)
      /\ \A i \in 1 .. n - 1 : (u \o v)[i] = IF i <= k - 1 THEN u[i] ELSE v[i - (k - 1)]
  <2>1. /\ u \o v \in Seq(S) /\ Len(u \o v) = Len(u) + Len(v)
        /\ \A i \in 1 .. Len(u) + Len(v) :
             (u \o v)[i] = IF i <= Len(u) THEN u[i] ELSE v[i - Len(u)]
    BY <1>3, <1>4, ConcatProperties
  <2>2. Len(u) + Len(v) = n - 1
    BY <1>1, <1>3, <1>4
  <2> QED
    BY <1>3, <2>1, <2>2
<1>7. DOMAIN (u \o v) = 1 .. n - 1
  BY <1>6, LenProperties
<1>8. ASSUME NEW i \in 1 .. n - 1
      PROVE  (u \o v)[i] = IF i < k THEN s[i] ELSE s[i + 1]
  <2>1. CASE i < k
    BY <1>1, <1>3, <1>6, <2>1
  <2>2. CASE ~(i < k)
    <3>1. i - (k - 1) \in 1 .. n - k /\ k + (i - (k - 1)) = i + 1 /\ ~(i <= k - 1)
      BY <1>1, <2>2
    <3>2. (u \o v)[i] = v[i - (k - 1)]
      BY <1>6, <3>1
    <3>3. v[i - (k - 1)] = s[k + (i - (k - 1))]
      BY <1>4, <3>1
    <3> QED
      BY <2>2, <3>1, <3>2, <3>3
  <2> QED
    BY <2>1, <2>2
<1> QED
  BY <1>5, <1>7, <1>8 DEF n

LEMMA CountRemoveAt ==
  ASSUME NEW S, NEW s \in Seq(S), NEW k \in DOMAIN s, NEW M
  PROVE  Count(s, M) = Count(RemoveAt(s, k), M) + One(s[k], M)
<1> DEFINE r == RemoveAt(s, k)
           T == Occurs(r, M)
           U == Occurs(s, M) \ {k}
           f == [i \in T |-> IF i < k THEN i ELSE i + 1]
<1>1. Len(s) \in Nat /\ k \in 1 .. Len(s) /\ DOMAIN s = 1 .. Len(s)
  BY LenProperties
<1>2. /\ DOMAIN r = 1 .. Len(s) - 1
      /\ \A i \in 1 .. Len(s) - 1 : r[i] = IF i < k THEN s[i] ELSE s[i + 1]
  BY RemoveAtIs
<1>3. IsFiniteSet(T) /\ IsFiniteSet(Occurs(s, M)) /\ Count(s, M) \in Nat
  BY OccursFinite, RemoveAtTypes
<1> HIDE DEF r
<1>4. /\ \A i \in T : i \in 1 .. Len(s) - 1 /\ r[i] \in M
      /\ \A i \in 1 .. Len(s) - 1 : r[i] \in M => i \in T
  BY <1>2 DEF Occurs
<1>5. \A j : j \in U <=> j \in 1 .. Len(s) /\ j # k /\ s[j] \in M
  BY <1>1 DEF Occurs
<1> HIDE DEF T, U
<1>6. f \in Bijection(T, U)
  <2>1. \A i \in T : f[i] \in U
    BY <1>1, <1>2, <1>4, <1>5
  <2>2. f \in [T -> U]
    BY <2>1
  <2>3. \A a, b \in T : f[a] = f[b] => a = b
    BY <1>1, <1>4
  <2>4. ASSUME NEW j \in U
        PROVE  \E i \in T : f[i] = j
    <3>1. j \in 1 .. Len(s) /\ j # k /\ s[j] \in M
      BY <1>5
    <3>2. CASE j < k
      <4>1. j \in 1 .. Len(s) - 1 /\ r[j] = s[j]
        BY <1>1, <1>2, <3>1, <3>2
      <4>2. j \in T
        BY <1>4, <3>1, <4>1
      <4> QED
        BY <3>2, <4>2
    <3>3. CASE j > k
      <4>1. j - 1 \in 1 .. Len(s) - 1 /\ ~(j - 1 < k) /\ (j - 1) + 1 = j
        BY <1>1, <3>1, <3>3
      <4>2. r[j - 1] = s[j]
        BY <1>2, <4>1
      <4>3. j - 1 \in T
        BY <1>4, <3>1, <4>1, <4>2
      <4> QED
        BY <4>1, <4>3
    <3> QED
      BY <1>1, <3>1, <3>2, <3>3
  <2> QED
    BY <2>2, <2>3, <2>4, Fun_IsBij
<1>7. Cardinality(U) = Cardinality(T)
  <2>1. ExistsBijection(T, U)
    BY <1>6 DEF ExistsBijection
  <2> QED
    BY <2>1, <1>3, FS_Bijection
<1>8. Cardinality(U) = IF k \in Occurs(s, M) THEN Count(s, M) - 1 ELSE Count(s, M)
  BY <1>3, FS_RemoveElement DEF Count, U
<1>9. k \in Occurs(s, M) <=> s[k] \in M
  BY DEF Occurs
<1>10. Cardinality(T) = Count(r, M)
  BY DEF T, Count
<1>11. Count(s, M) = Count(r, M) + One(s[k], M)
  <2>1. Count(s, M) \in Nat /\ Cardinality(U) = Count(r, M)
    BY <1>3, <1>7, <1>10
  <2>2. CASE s[k] \in M
    <3>1. One(s[k], M) = 1
      BY <2>2 DEF One
    <3>2. Cardinality(U) = Count(s, M) - 1
      BY <1>8, <1>9, <2>2
    <3> QED
      BY <2>1, <3>1, <3>2
  <2>3. CASE s[k] \notin M
    <3>1. One(s[k], M) = 0
      BY <2>3 DEF One
    <3>2. Cardinality(U) = Count(s, M)
      BY <1>8, <1>9, <2>3
    <3> QED
      BY <2>1, <3>1, <3>2
  <2> QED
    BY <2>2, <2>3
<1> QED
  BY <1>11 DEF r

LEMMA RegTypes ==
  ASSUME TypeOK, NEW x \in Socket
  PROVE  /\ Count(streams, StreamsOf(x)) \in Nat /\ Count(netbox, AddsOf(x)) \in Nat
         /\ Regs[x] = Count(streams, StreamsOf(x)) + Count(netbox, AddsOf(x))
         /\ Removals[x] = Count(netbox, {RemoveStream(x)})
         /\ Regs[x] \in Nat /\ Removals[x] \in Nat
<1>1. streams \in Seq(StreamType) /\ netbox \in Seq(NetMsg)
  BY DEF TypeOK, NetTypes
<1>2. /\ Count(streams, StreamsOf(x)) \in Nat /\ Count(netbox, AddsOf(x)) \in Nat
      /\ Removals[x] \in Nat
  BY <1>1, OccursFinite DEF Removals
<1> QED
  BY <1>2 DEF Regs, Removals

\* Who is registered, and what is to be removed, counts.
LEMMA RegCounts ==
  ASSUME TypeOK, NEW x \in Socket
  PROVE  /\ Registered(x) = {} <=> Count(streams, StreamsOf(x)) = 0
         /\ Removals[x] > 0 => Removing
         /\ RemoveStream(x) \in ToSet(netbox) => Removals[x] >= 1
         /\ (\E m \in ToSet(netbox) : m \in AddsOf(x)) => Count(netbox, AddsOf(x)) >= 1
         /\ (\A m \in ToSet(netbox) : m \notin AddsOf(x)) => Count(netbox, AddsOf(x)) = 0
<1>1. streams \in Seq(StreamType) /\ netbox \in Seq(NetMsg)
  BY DEF TypeOK, NetTypes
<1>2. \A i \in DOMAIN streams : streams[i] \in StreamsOf(x) <=> streams[i].socket = x
  BY StreamsAre DEF StreamsOf
<1>3. Count(streams, StreamsOf(x)) = 0 <=>
        \A i \in DOMAIN streams : streams[i] \notin StreamsOf(x)
  BY <1>1, CountNone
<1>4. Removals[x] = 0 <=> \A i \in DOMAIN netbox : netbox[i] \notin {RemoveStream(x)}
  BY <1>1, CountNone DEF Removals
<1>5. Count(netbox, AddsOf(x)) = 0 <=> \A i \in DOMAIN netbox : netbox[i] \notin AddsOf(x)
  BY <1>1, CountNone
<1>6. /\ Count(netbox, AddsOf(x)) \in Nat /\ Removals[x] \in Nat
  BY RegTypes
<1>7. /\ \A i \in DOMAIN netbox : netbox[i] \in ToSet(netbox)
      /\ \A m \in ToSet(netbox) : \E i \in DOMAIN netbox : m = netbox[i]
  BY SetOf
<1>8. Registered(x) = {} <=> Count(streams, StreamsOf(x)) = 0
  BY <1>2, <1>3 DEF Registered
<1>9. Removals[x] > 0 => Removing
  <2>1. RemoveStream(x).what = "remove"
    BY DEF RemoveStream
  <2> QED
    BY <1>4, <1>6, <1>7, <2>1 DEF Removing
<1>10. RemoveStream(x) \in ToSet(netbox) => Removals[x] >= 1
  BY <1>4, <1>6, <1>7
<1>11. (\E m \in ToSet(netbox) : m \in AddsOf(x)) => Count(netbox, AddsOf(x)) >= 1
  BY <1>5, <1>6, <1>7
<1>12. (\A m \in ToSet(netbox) : m \notin AddsOf(x)) => Count(netbox, AddsOf(x)) = 0
  BY <1>5, <1>7
<1> QED
  BY <1>8, <1>9, <1>10, <1>11, <1>12

-----------------------------------------------------------------------------
(* The line of the RTP connection, and its steps.                          *)

\* What the RTP connection takes from its line, and may post to itself.
LEMMA LineTaken ==
  ASSUME TypeOK, netbox # <<>>,
         netbox' = Tail(netbox) \/ netbox' = Append(Tail(netbox), PollStreams)
  PROVE  /\ \A x \in Socket :
              /\ Count(netbox', AddsOf(x)) = Count(netbox, AddsOf(x)) - One(Message, AddsOf(x))
              /\ Removals'[x] = Removals[x] - One(Message, {RemoveStream(x)})
         /\ Message \in NetMsg /\ Message \in ToSet(netbox)
         /\ \A m \in ToSet(netbox') : m \in ToSet(netbox) \/ m = PollStreams
         /\ Removing' => Removing
         /\ InLine(netbox) => InLine(netbox')
<1>1. netbox \in Seq(NetMsg) /\ PollStreams \in NetMsg
  BY NetPosted DEF TypeOK, NetTypes
<1>2. PICK t \in Seq(NetMsg) : t \in {<<>>, <<PollStreams>>} /\ netbox' = Tail(netbox) \o t
  <2>1. <<>> \in Seq(NetMsg) /\ <<PollStreams>> \in Seq(NetMsg)
    BY <1>1
  <2>2. Tail(netbox) \in Seq(NetMsg)
    BY <1>1
  <2>3. Tail(netbox) = Tail(netbox) \o <<>>
    BY <2>2, ConcatEmptySeq
  <2>4. Append(Tail(netbox), PollStreams) = Tail(netbox) \o <<PollStreams>>
    BY <1>1, <2>2, AppendIsConcat
  <2> QED
    BY <2>1, <2>3, <2>4
<1>3. /\ Message \in NetMsg /\ Tail(netbox) \in Seq(NetMsg)
      /\ \A M : Count(netbox', M) = Count(netbox, M) - One(Message, M) + Count(t, M)
      /\ ToSet(netbox) = {Message} \cup ToSet(Tail(netbox))
      /\ ToSet(netbox') = ToSet(Tail(netbox)) \cup ToSet(t)
  BY <1>1, <1>2, Handling DEF Message
<1>4. PollStreams.what = "poll"
  BY DEF PollStreams
<1>5. \A x : PollStreams \notin AddsOf(x) /\ PollStreams \notin {RemoveStream(x)}
  BY <1>4 DEF AddsOf, RemoveStream
<1>6. \A x : Count(t, AddsOf(x)) = 0 /\ Count(t, {RemoveStream(x)}) = 0
  BY <1>2, <1>5, CountEmpty, CountOne DEF One
<1>7. ToSet(t) \subseteq {PollStreams}
  BY <1>2, SetOfFew
<1>8. ASSUME NEW x \in Socket
      PROVE  /\ Count(netbox', AddsOf(x)) = Count(netbox, AddsOf(x)) - One(Message, AddsOf(x))
             /\ Removals'[x] = Removals[x] - One(Message, {RemoveStream(x)})
  <2>1. Count(netbox, AddsOf(x)) \in Nat /\ Removals[x] \in Nat
        /\ Removals[x] = Count(netbox, {RemoveStream(x)})
    BY RegTypes
  <2>2. Removals'[x] = Count(netbox', {RemoveStream(x)})
    BY DEF Removals
  <2>3. Count(netbox', AddsOf(x)) = Count(netbox, AddsOf(x)) - One(Message, AddsOf(x)) + 0
    BY <1>3, <1>6
  <2>4. Removals'[x] = Removals[x] - One(Message, {RemoveStream(x)}) + 0
    BY <1>3, <1>6, <2>1, <2>2
  <2> QED
    BY <2>1, <2>3, <2>4 DEF One
<1>9. \A m \in ToSet(netbox') : m \in ToSet(netbox) \/ m = PollStreams
  BY <1>3, <1>7
<1>10. Removing' => Removing
  BY <1>4, <1>9 DEF Removing
<1>11. ASSUME InLine(netbox)
       PROVE  InLine(netbox')
  <2> DEFINE u == Tail(netbox)
  <2>1. /\ Len(netbox) \in Nat \ {0} /\ u \in Seq(NetMsg)
        /\ DOMAIN netbox = 1 .. Len(netbox) /\ DOMAIN u = 1 .. Len(netbox) - 1
        /\ Len(u) = Len(netbox) - 1
        /\ \A i \in 1 .. Len(netbox) - 1 : u[i] = netbox[i + 1]
    BY <1>1, EmptySeq, HeadTailProperties, LenProperties
  <2> HIDE DEF u
  <2>2. ASSUME NEW j \in DOMAIN netbox', NEW k \in DOMAIN netbox', j < k,
               netbox'[j].what = "remove", netbox'[k].what = "add"
        PROVE  netbox'[k].stream.injected
    <3>1. Len(t) \in {0, 1} /\ DOMAIN t = 1 .. Len(t)
      BY <1>2
    <3>2. /\ DOMAIN netbox' = 1 .. Len(u) + Len(t)
          /\ \A i \in 1 .. Len(u) + Len(t) :
               netbox'[i] = IF i <= Len(u) THEN u[i] ELSE t[i - Len(u)]
      <4>1. netbox' = u \o t
        BY <1>2 DEF u
      <4> QED
        <5>1. /\ u \o t \in Seq(NetMsg) /\ Len(u \o t) = Len(u) + Len(t)
              /\ \A i \in 1 .. Len(u) + Len(t) :
                   (u \o t)[i] = IF i <= Len(u) THEN u[i] ELSE t[i - Len(u)]
          BY <2>1, ConcatProperties
        <5>2. DOMAIN (u \o t) = 1 .. Len(u \o t)
          BY <5>1, LenProperties
        <5> QED
          BY <4>1, <5>1, <5>2
    <3>3. k <= Len(u)
      <4>1. SUFFICES ASSUME ~(k <= Len(u)) PROVE FALSE
        OBVIOUS
      <4>2. k - Len(u) = 1 /\ Len(t) = 1 /\ netbox'[k] = t[k - Len(u)]
        <5>1. k \in 1 .. Len(u) + Len(t)
          BY <2>2, <3>2
        <5>2. k - Len(u) = 1 /\ Len(t) = 1
          BY <2>1, <3>1, <4>1, <5>1
        <5>3. netbox'[k] = IF k <= Len(u) THEN u[k] ELSE t[k - Len(u)]
          BY <3>2, <5>1
        <5> QED
          BY <4>1, <5>2, <5>3
      <4>3. t[1] = PollStreams
        <5>1. 1 \in DOMAIN t
          BY <3>1, <4>2
        <5>2. t[1] \in ToSet(t)
          BY <5>1, SetOf
        <5> QED
          BY <1>7, <5>2
      <4> QED
        BY <1>4, <2>2, <4>2, <4>3
    <3>4. /\ j \in 1 .. Len(u) /\ k \in 1 .. Len(u)
          /\ netbox'[j] = u[j] /\ netbox'[k] = u[k]
      <4>1. j \in 1 .. Len(u) + Len(t) /\ k \in 1 .. Len(u) + Len(t)
        BY <2>2, <3>2
      <4>2. j \in 1 .. Len(u) /\ k \in 1 .. Len(u)
        BY <2>1, <2>2, <3>1, <3>3, <4>1
      <4>3. \A i \in 1 .. Len(u) + Len(t) :
               netbox'[i] = IF i <= Len(u) THEN u[i] ELSE t[i - Len(u)]
        BY <3>2
      <4>4. j <= Len(u) /\ k <= Len(u)
        BY <2>1, <4>2
      <4>5. netbox'[j] = u[j]
        BY <4>1, <4>3, <4>4
      <4>6. netbox'[k] = u[k]
        BY <4>1, <4>3, <4>4
      <4> QED
        BY <4>2, <4>5, <4>6
    <3>5. /\ j + 1 \in DOMAIN netbox /\ k + 1 \in DOMAIN netbox /\ j + 1 < k + 1
          /\ netbox'[j] = netbox[j + 1] /\ netbox'[k] = netbox[k + 1]
      BY <2>1, <2>2, <3>4
    <3> QED
      BY <1>11, <2>2, <3>5 DEF InLine
  <2> QED
    BY <2>2 DEF InLine
<1> QED
  BY <1>3, <1>8, <1>9, <1>10, <1>11

\* Behind a message that removes a stream there is none that adds one by UDP.
LEMMA NothingAddedBehind ==
  ASSUME TypeOK, netbox # <<>>, InLine(netbox), Message.what = "remove",
         NEW m \in ToSet(netbox), m.what = "add"
  PROVE  m.stream.injected
<1>1. netbox \in Seq(NetMsg) /\ Len(netbox) \in Nat \ {0} /\ DOMAIN netbox = 1 .. Len(netbox)
      /\ Message = netbox[1]
  BY EmptySeq, HeadTailProperties, LenProperties DEF TypeOK, NetTypes, Message
<1>2. PICK k \in DOMAIN netbox : m = netbox[k]
  BY SetOf
<1>3. k # 1
  BY <1>1, <1>2
<1>4. 1 \in DOMAIN netbox /\ 1 < k
  BY <1>1, <1>3
<1> QED
  BY <1>1, <1>2, <1>4 DEF InLine

\* What the streams are registered for stays.
StillThere == \A x \in Socket : Injectable(x) => Injectable(x)'
OwnStreams == \A i \in DOMAIN streams : Own(streams[i])

\* Streams that stay where they are.
LEMMA StreamsStay ==
  ASSUME TypeOK, DOMAIN streams' = DOMAIN streams,
         \A i \in DOMAIN streams : /\ streams'[i] \in StreamType
                                   /\ streams'[i].socket = streams[i].socket
                                   /\ streams'[i].injected = streams[i].injected
  PROVE  /\ \A x : Count(streams', StreamsOf(x)) = Count(streams, StreamsOf(x))
         /\ StillThere /\ (OwnStreams => OwnStreams')
<1>1. \A i \in DOMAIN streams : streams[i] \in StreamType
  BY StreamsAre
<1>2. ASSUME NEW x
      PROVE  Count(streams', StreamsOf(x)) = Count(streams, StreamsOf(x))
  <2>1. \A i \in DOMAIN streams' : streams'[i] \in StreamsOf(x) <=> streams[i] \in StreamsOf(x)
    BY <1>1 DEF StreamsOf
  <2> QED
    BY <2>1, CountSame
<1>3. StillThere
  BY DEF StillThere, Injectable, Registered
<1>4. OwnStreams => OwnStreams'
  BY DEF OwnStreams, Own
<1> QED
  BY <1>2, <1>3, <1>4

\* A step of the RTP connection that is no error.
Moves(x) == Regs'[x] = Regs[x] /\ Removals'[x] = Removals[x]
Leaves(x) == Removing /\ Regs'[x] = 0 /\ Removals'[x] = 0
Runs == /\ crashed' = crashed
        /\ netbox' = Tail(netbox) \/ netbox' = Append(Tail(netbox), PollStreams)
        /\ \A x \in Socket : Udp(x) => Moves(x) \/ Leaves(x)
        /\ StillThere /\ OwnStreams'

LEMMA AddRuns ==
  ASSUME TypeOK, StreamInv, NetworkStep, OnAddStream
  PROVE  Runs
<1> DEFINE s == Message.stream
<1>1. netbox # <<>> /\ Message.what = "add" /\ streams' = Append(streams, s)
  BY DEF NetworkStep, OnAddStream
<1>2. netbox' = Tail(netbox) \/ netbox' = Append(Tail(netbox), PollStreams)
  BY DEF OnAddStream, WithPollEvent
<1>3. /\ Message \in NetMsg /\ Message \in ToSet(netbox)
      /\ \A x \in Socket :
           /\ Count(netbox', AddsOf(x)) = Count(netbox, AddsOf(x)) - One(Message, AddsOf(x))
           /\ Removals'[x] = Removals[x] - One(Message, {RemoveStream(x)})
  BY <1>1, <1>2, LineTaken
<1>4. s \in StreamType /\ Own(s)
  BY <1>1, <1>3, NetFields DEF StreamInv, Proper
<1> HIDE DEF s
<1>5. streams \in Seq(StreamType) /\ streams' = streams \o <<s>> /\ <<s>> \in Seq(StreamType)
  <2>1. streams \in Seq(StreamType)
    BY StreamsAre
  <2> QED
    BY <1>1, <1>4, <2>1, AppendIsConcat
<1>6. \A M : Count(streams', M) = Count(streams, M) + One(s, M)
  <2>1. \A M : Count(<<s>>, M) = One(s, M)
    BY CountOne
  <2>2. \A M : Count(streams \o <<s>>, M) = Count(streams, M) + Count(<<s>>, M)
    BY <1>5, Posting
  <2> QED
    BY <1>5, <2>1, <2>2
<1>7. ASSUME NEW x \in Socket
      PROVE  Moves(x)
  <2>1. One(s, StreamsOf(x)) = One(Message, AddsOf(x))
    BY <1>1, <1>3, <1>4 DEF One, StreamsOf, AddsOf, s
  <2>2. One(Message, {RemoveStream(x)}) = 0
    BY <1>1 DEF One, RemoveStream
  <2>3. /\ Count(streams, StreamsOf(x)) \in Nat /\ Count(netbox, AddsOf(x)) \in Nat
        /\ Regs[x] = Count(streams, StreamsOf(x)) + Count(netbox, AddsOf(x))
        /\ Removals[x] \in Nat
    BY RegTypes
  <2>4. Regs'[x] = Count(streams', StreamsOf(x)) + Count(netbox', AddsOf(x))
    BY DEF Regs
  <2>5. One(s, StreamsOf(x)) \in {0, 1}
    BY DEF One
  <2>6. Removals'[x] = Removals[x]
    BY <1>3, <2>2, <2>3
  <2>7. /\ Count(streams', StreamsOf(x)) = Count(streams, StreamsOf(x)) + One(s, StreamsOf(x))
        /\ Count(netbox', AddsOf(x)) = Count(netbox, AddsOf(x)) - One(s, StreamsOf(x))
    BY <1>3, <1>6, <2>1
  <2> QED
    BY <2>3, <2>4, <2>5, <2>6, <2>7 DEF Moves
<1>8. /\ DOMAIN streams \subseteq DOMAIN streams'
      /\ \A i \in DOMAIN streams : streams'[i] = streams[i]
      /\ \A i \in DOMAIN streams' : i \in DOMAIN streams \/ streams'[i] = s
  BY <1>1, <1>5, StreamsAre
<1>9. StillThere
  BY <1>8 DEF StillThere, Injectable, Registered
<1>10. OwnStreams'
  BY <1>4, <1>8 DEF StreamInv, OwnStreams
<1>11. crashed' = crashed
  BY DEF OnAddStream
<1> QED
  BY <1>2, <1>7, <1>9, <1>10, <1>11 DEF Runs

\* What is removed was added: it counts once, and no more.
LEMMA RemoveRuns ==
  ASSUME TypeOK, StreamInv, LineInv, NetworkStep, OnRemoveStream
  PROVE  Runs
<1> DEFINE y == Message.socket
           k == Min(Registered(y))
<1>1. netbox # <<>> /\ Message.what = "remove" /\ netbox' = Tail(netbox)
  BY DEF NetworkStep, OnRemoveStream
<1>2. /\ Message \in NetMsg /\ Message \in ToSet(netbox)
      /\ \A x \in Socket :
           /\ Count(netbox', AddsOf(x)) = Count(netbox, AddsOf(x)) - One(Message, AddsOf(x))
           /\ Removals'[x] = Removals[x] - One(Message, {RemoveStream(x)})
  BY <1>1, LineTaken
<1>3. y \in Socket /\ Message = RemoveStream(y) /\ Udp(y) /\ Removing
  <2>1. y \in Socket /\ Message = RemoveStream(y)
    BY <1>1, <1>2 DEF NetMsg, RemoveStream
  <2> QED
    BY <1>1, <1>2, <2>1 DEF StreamInv, Proper, Removing
<1>4. RegInv(y) /\ Removals[y] >= 1 /\ Regs[y] \in Nat /\ Removals[y] \in Nat
  BY <1>2, <1>3, RegCounts, RegTypes DEF LineInv
<1>5. \A m \in ToSet(netbox) : m \notin AddsOf(y)
  <2>1. SUFFICES ASSUME NEW m \in ToSet(netbox), m \in AddsOf(y) PROVE FALSE
    OBVIOUS
  <2>2. m.what = "add" /\ m.stream.socket = y
    BY <2>1 DEF AddsOf
  <2>3. m.stream.injected
    BY <1>1, <2>2, NothingAddedBehind DEF LineInv
  <2> QED
    BY <1>3, <2>2, <2>3 DEF StreamInv, Proper, Own
<1>6. Regs[y] = 1 /\ Removals[y] = 1 /\ Count(streams, StreamsOf(y)) = 1
      /\ Count(netbox, AddsOf(y)) = 0
  <2>1. Count(netbox, AddsOf(y)) = 0
    BY <1>3, <1>5, RegCounts
  <2>2. Regs[y] = Count(streams, StreamsOf(y)) + Count(netbox, AddsOf(y))
        /\ Count(streams, StreamsOf(y)) \in Nat
    BY <1>3, RegTypes
  <2> QED
    BY <1>4, <2>1, <2>2 DEF RegInv
<1>7. Registered(y) # {}
  BY <1>3, <1>6, RegCounts
<1>8. streams' = RemoveAt(streams, k) /\ crashed' = crashed
  BY <1>7 DEF OnRemoveStream
<1>9. k \in DOMAIN streams /\ streams[k].socket = y
  BY <1>7, FirstRegistered
<1> HIDE DEF k
<1>10. streams \in Seq(StreamType) /\ streams[k] \in StreamType
  BY <1>9, StreamsAre
<1>11. \A M : Count(streams, M) = Count(streams', M) + One(streams[k], M)
  BY <1>8, <1>9, <1>10, CountRemoveAt
<1>12. ASSUME NEW x \in Socket
       PROVE  Moves(x) \/ Leaves(x)
  <2>1. /\ Count(streams, StreamsOf(x)) \in Nat /\ Count(netbox, AddsOf(x)) \in Nat
        /\ Regs[x] = Count(streams, StreamsOf(x)) + Count(netbox, AddsOf(x))
        /\ Removals[x] \in Nat
    BY RegTypes
  <2>2. Regs'[x] = Count(streams', StreamsOf(x)) + Count(netbox', AddsOf(x))
    BY DEF Regs
  <2>3. One(Message, AddsOf(x)) = 0
    BY <1>1 DEF One, AddsOf
  <2>4. Count(netbox', AddsOf(x)) = Count(netbox, AddsOf(x))
    <3>1. Count(netbox', AddsOf(x)) = Count(netbox, AddsOf(x)) - One(Message, AddsOf(x))
      BY <1>2
    <3> QED
      BY <2>1, <2>3, <3>1
  <2>5. Count(streams, StreamsOf(x)) = Count(streams', StreamsOf(x)) + One(streams[k], StreamsOf(x))
    BY <1>11
  <2>6. Count(streams', StreamsOf(x)) \in Nat
    <3>1. streams' \in Seq(StreamType)
      BY <1>8, <1>9, <1>10, RemoveAtTypes
    <3> QED
      BY <3>1, OccursFinite
  <2>7. CASE x = y
    <3>1. One(streams[k], StreamsOf(x)) = 1
      BY <1>9, <1>10, <2>7 DEF One, StreamsOf
    <3>2. One(Message, {RemoveStream(x)}) = 1
      BY <1>3, <2>7 DEF One
    <3>3. Count(streams', StreamsOf(x)) = 0
      BY <1>6, <2>5, <2>6, <2>7, <3>1
    <3>4. Removals'[x] = 0
      BY <1>2, <1>6, <2>7, <3>2
    <3> QED
      BY <1>3, <1>6, <2>2, <2>4, <2>7, <3>3, <3>4 DEF Leaves
  <2>8. CASE x # y
    <3>1. One(streams[k], StreamsOf(x)) = 0
      BY <1>9, <2>8 DEF One, StreamsOf
    <3>2. One(Message, {RemoveStream(x)}) = 0
      BY <1>3, <2>8 DEF One, RemoveStream
    <3>3. Count(streams', StreamsOf(x)) = Count(streams, StreamsOf(x))
      BY <2>1, <2>5, <2>6, <3>1
    <3>4. Removals'[x] = Removals[x]
      BY <1>2, <2>1, <3>2
    <3> QED
      BY <2>1, <2>2, <2>4, <3>3, <3>4 DEF Moves
  <2> QED
    BY <2>7, <2>8
<1>13. /\ DOMAIN streams = 1 .. Len(streams) /\ Len(streams) \in Nat
       /\ DOMAIN streams' = 1 .. Len(streams) - 1
       /\ \A i \in 1 .. Len(streams) - 1 :
            streams'[i] = IF i < k THEN streams[i] ELSE streams[i + 1]
  BY <1>8, <1>9, <1>10, StreamsAre, RemoveAtIs
<1>14. OwnStreams'
  <2>1. ASSUME NEW i \in DOMAIN streams'
        PROVE  Own(streams'[i])
    <3>1. i \in DOMAIN streams /\ i + 1 \in DOMAIN streams
      BY <1>13
    <3>2. streams'[i] = streams[i] \/ streams'[i] = streams[i + 1]
      BY <1>13
    <3> QED
      BY <3>1, <3>2 DEF StreamInv
  <2> QED
    BY <2>1 DEF OwnStreams
<1>15. StillThere
  <2>1. SUFFICES ASSUME NEW x \in Socket, Injectable(x)
                 PROVE  \E i \in DOMAIN streams' : streams'[i].socket = x
    BY DEF StillThere, Injectable, Registered
  <2>2. PICK i \in DOMAIN streams : streams[i].socket = x
    BY <2>1 DEF Injectable, Registered
  <2>3. i # k
    BY <1>3, <1>9, <2>1, <2>2 DEF Injectable
  <2>4. CASE i < k
    <3>1. i \in DOMAIN streams'
      BY <1>9, <1>13, <2>2, <2>4
    <3>2. streams'[i] = streams[i]
      BY <1>13, <2>4, <3>1
    <3> QED
      BY <2>2, <3>1, <3>2
  <2>5. CASE ~(i < k)
    <3>1. i - 1 \in DOMAIN streams' /\ ~(i - 1 < k) /\ (i - 1) + 1 = i
      BY <1>9, <1>13, <2>2, <2>3, <2>5
    <3>2. streams'[i - 1] = streams[i]
      BY <1>13, <3>1
    <3> QED
      BY <2>2, <3>1, <3>2
  <2> QED
    BY <2>4, <2>5
<1> QED
  BY <1>1, <1>8, <1>12, <1>14, <1>15 DEF Runs

\* A message that neither adds nor removes a stream.
LEMMA OthersRun ==
  ASSUME TypeOK, netbox # <<>>, Message.what \notin {"add", "remove"},
         crashed' = crashed,
         netbox' = Tail(netbox) \/ netbox' = Append(Tail(netbox), PollStreams),
         \A x : Count(streams', StreamsOf(x)) = Count(streams, StreamsOf(x)),
         StillThere, OwnStreams'
  PROVE  Runs
<1>1. ASSUME NEW x \in Socket
      PROVE  Moves(x)
  <2>1. One(Message, AddsOf(x)) = 0 /\ One(Message, {RemoveStream(x)}) = 0
    BY DEF One, AddsOf, RemoveStream
  <2>2. /\ Count(netbox', AddsOf(x)) = Count(netbox, AddsOf(x)) - One(Message, AddsOf(x))
        /\ Removals'[x] = Removals[x] - One(Message, {RemoveStream(x)})
    BY LineTaken
  <2>3. /\ Count(streams, StreamsOf(x)) \in Nat /\ Count(netbox, AddsOf(x)) \in Nat
        /\ Regs[x] = Count(streams, StreamsOf(x)) + Count(netbox, AddsOf(x))
        /\ Removals[x] \in Nat
    BY RegTypes
  <2>4. Regs'[x] = Count(streams', StreamsOf(x)) + Count(netbox', AddsOf(x))
    BY DEF Regs
  <2>5. Count(netbox', AddsOf(x)) = Count(netbox, AddsOf(x)) /\ Removals'[x] = Removals[x]
    BY <2>1, <2>2, <2>3
  <2> QED
    BY <2>3, <2>4, <2>5 DEF Moves
<1> QED
  BY <1>1 DEF Runs

LEMMA NetworkRuns ==
  ASSUME TypeOK, StreamInv, LineInv, NetworkStep, crashed = Alive, crashed' = Alive
  PROVE  Runs
<1>1. netbox # <<>> /\ OwnStreams
  BY DEF NetworkStep, StreamInv, OwnStreams
<1>2. CASE OnAddStream
  BY <1>2, AddRuns
<1>3. CASE OnRemoveStream
  BY <1>3, RemoveRuns
<1>4. CASE OnPollStreams
  <2>1. Message.what = "poll"
    BY <1>4 DEF OnPollStreams
  <2>2. streams' = streams /\ netbox' \in {Tail(netbox), Append(Tail(netbox), PollStreams)}
    BY <1>4, PollReads DEF Alive
  <2>3. /\ \A x : Count(streams', StreamsOf(x)) = Count(streams, StreamsOf(x))
        /\ StillThere /\ OwnStreams'
    <3>1. /\ DOMAIN streams' = DOMAIN streams
          /\ \A i \in DOMAIN streams : /\ streams'[i] \in StreamType
                                       /\ streams'[i].socket = streams[i].socket
                                       /\ streams'[i].injected = streams[i].injected
      BY <2>2, StreamsAre
    <3> QED
      BY <1>1, <3>1, StreamsStay
  <2> QED
    BY <1>1, <2>1, <2>2, <2>3, OthersRun
<1>5. CASE OnInjectPacket
  <2>1. Message.what = "inject" /\ netbox' = Tail(netbox)
    BY <1>5, InjectReads
  <2>2. PICK i \in DOMAIN streams, s \in StreamType :
          /\ s.socket = streams[i].socket /\ s.injected = streams[i].injected
          /\ streams' = [streams EXCEPT ![i] = s]
    BY <1>5, InjectReads DEF Alive, Receives, Registered
  <2>3. /\ DOMAIN streams' = DOMAIN streams
        /\ \A n \in DOMAIN streams : streams'[n] = IF n = i THEN s ELSE streams[n]
    BY <2>2, StreamsAre
  <2>4. /\ \A x : Count(streams', StreamsOf(x)) = Count(streams, StreamsOf(x))
        /\ StillThere /\ OwnStreams'
    <3>1. \A n \in DOMAIN streams : /\ streams'[n] \in StreamType
                                    /\ streams'[n].socket = streams[n].socket
                                    /\ streams'[n].injected = streams[n].injected
      BY <2>2, <2>3, StreamsAre
    <3> QED
      BY <1>1, <2>3, <3>1, StreamsStay
  <2> QED
    BY <1>1, <2>1, <2>4, OthersRun
<1>6. CASE OnFakeTimestamps
  <2>1. Message.what = "fake" /\ netbox' = Tail(netbox) /\ crashed' = crashed
    BY <1>6 DEF OnFakeTimestamps
  <2>2. /\ DOMAIN streams' = DOMAIN streams
        /\ \A i \in DOMAIN streams :
             streams'[i] \in {streams[i], [streams[i] EXCEPT !.times = 2]}
    BY <1>6 DEF OnFakeTimestamps
  <2>3. /\ \A x : Count(streams', StreamsOf(x)) = Count(streams, StreamsOf(x))
        /\ StillThere /\ OwnStreams'
    <3>1. \A s \in StreamType : /\ [s EXCEPT !.times = 2] \in StreamType
                                /\ [s EXCEPT !.times = 2].socket = s.socket
                                /\ [s EXCEPT !.times = 2].injected = s.injected
      BY DEF StreamType
    <3>2. \A i \in DOMAIN streams : /\ streams'[i] \in StreamType
                                    /\ streams'[i].socket = streams[i].socket
                                    /\ streams'[i].injected = streams[i].injected
      BY <2>2, <3>1, StreamsAre
    <3> QED
      BY <1>1, <2>2, <3>2, StreamsStay
  <2> QED
    BY <1>1, <2>1, <2>3, OthersRun
<1> QED
  BY <1>2, <1>3, <1>4, <1>5, <1>6 DEF NetworkStep

\* Tracks whose numbers and sockets stay.
SameTracks == /\ Len(tracks') = Len(tracks) /\ DOMAIN tracks' = DOMAIN tracks
              /\ \A k \in DOMAIN tracks : /\ tracks'[k].index = tracks[k].index
                                          /\ tracks'[k].socket = tracks[k].socket
\* What is in the line afterwards is no news to the streams.
NoNews == /\ \A m \in ToSet(netbox') :
               \/ m \in ToSet(netbox) \/ m.what \in {"poll", "fake"}
               \/ m.what = "inject" /\ Injectable(m.socket)'
          /\ \A m \in Mail' : m \in Mail \/ m.what # "biny" \/ Injectable(m.socket)'

LEMMA NetStays ==
  ASSUME TypeOK, StreamInv, LineInv, JoinInv, SameTracks, NoNews,
         \A x \in Socket : Udp(x) => Moves(x) \/ Leaves(x),
         StillThere, OwnStreams', InLine(netbox'), Removing' => Removing,
         handler.tryTCP => handler'.tryTCP, Settings' = Settings,
         handler'.tryTCP => Flying'["retry"] > 0 \/ PairsOf(tracks) = {},
         Flying'["retry"] > 0 => handler'.tryTCP
  PROVE  StreamInv' /\ LineInv' /\ JoinInv'
<1>1. PairsOf(tracks') = PairsOf(tracks)
  BY DEF SameTracks, PairsOf
<1>2. \A k \in DOMAIN tracks : /\ tracks[k].socket \in Socket
                               /\ Udp(tracks[k].socket) => tracks[k].socket \in PairsOf(tracks)
  <2>1. \A k \in DOMAIN tracks : tracks[k] \in TrackType
    BY ElementOfSeq, LenProperties DEF TypeOK, SessionTypes
  <2> QED
    BY <2>1 DEF TrackType, PairsOf, Udp
<1>3. StreamInv'
  <2>1. \A m \in ToSet(netbox) : m.what = "inject" => m.socket \in Socket
    <3>1. \A m \in ToSet(netbox) : m \in NetMsg
      <4>1. netbox \in Seq(NetMsg)
        BY DEF TypeOK, NetTypes
      <4> QED
        BY <4>1, ElementOfSeq, LenProperties, SetOf
    <3> QED
      BY <3>1, NetFields
  <2>2. \A m \in Mail : m.what = "biny" => m.socket \in Socket
    <3>1. \A m \in Mail : m \in Msg
      BY MailTypes DEF TypeOK
    <3>2. \A m \in Mail : m.what = "biny" => m \in Binaries
      BY <3>1, MsgFields
    <3> QED
      BY <3>2 DEF Binaries
  <2>3. ASSUME NEW m \in ToSet(netbox')
        PROVE  Proper(m)'
    <3>1. CASE m \in ToSet(netbox)
      <4>1. Proper(m)
        BY <3>1 DEF StreamInv
      <4> QED
        BY <2>1, <3>1, <4>1 DEF Proper, StillThere, Udp, Own
    <3>2. CASE m.what \in {"poll", "fake"}
      BY <3>2 DEF Proper
    <3>3. CASE m.what = "inject" /\ Injectable(m.socket)'
      BY <3>3 DEF Proper
    <3> QED
      BY <2>3, <3>1, <3>2, <3>3 DEF NoNews
  <2>4. ASSUME NEW m \in Mail', m.what = "biny"
        PROVE  Injectable(m.socket)'
    BY <2>2, <2>4 DEF NoNews, StreamInv, StillThere
  <2> QED
    BY <2>3, <2>4 DEF StreamInv, OwnStreams
<1>4. LineInv'
  <2>1. ASSUME NEW x \in Socket, Udp(x)
        PROVE  RegInv(x)'
    <3>1. RegInv(x)
      BY <2>1 DEF LineInv
    <3>2. CASE Moves(x)
      BY <1>1, <3>1, <3>2 DEF Moves, RegInv
    <3>3. CASE Leaves(x)
      BY <3>3 DEF Leaves, RegInv
    <3> QED
      BY <2>1, <3>2, <3>3
  <2>2. Removing' => handler'.tryTCP /\ PairsOf(tracks') = {}
    BY <1>1 DEF LineInv
  <2> QED
    BY <2>1, <2>2 DEF LineInv, Udp
<1>5. JoinInv'
  <2>1. ASSUME NEW k \in DOMAIN tracks'
        PROVE  /\ tracks'[k].index >= k
               /\ Joins(k)'
               /\ Udp(tracks'[k].socket) => tracks'[k].socket = <<"udp", tracks'[k].index>>
               /\ handler'.tryTCP \/ Udp(tracks'[k].socket)
    <3>1. /\ k \in DOMAIN tracks /\ tracks'[k].index = tracks[k].index
          /\ tracks'[k].socket = tracks[k].socket /\ Len(tracks') = Len(tracks)
      BY <2>1 DEF SameTracks
    <3>2. /\ tracks[k].index >= k /\ Joins(k)
          /\ Udp(tracks[k].socket) => tracks[k].socket = <<"udp", tracks[k].index>>
          /\ handler.tryTCP \/ Udp(tracks[k].socket)
      BY <3>1 DEF JoinInv
    <3>3. Joins(k)'
      <4>1. SUFFICES ASSUME Udp(tracks[k].socket)
                     PROVE  Regs'[tracks[k].socket]
                              = IF k = Len(tracks) /\ Settings > 0 THEN 0 ELSE 1
        BY <3>1 DEF Joins, Udp
      <4>2. /\ tracks[k].socket \in Socket /\ PairsOf(tracks) # {}
        BY <1>2, <3>1, <4>1
      <4>3. ~Removing
        BY <4>2 DEF LineInv
      <4>4. Moves(tracks[k].socket)
        BY <4>1, <4>2, <4>3 DEF Leaves
      <4> QED
        BY <3>2, <4>1, <4>4 DEF Moves, Joins
    <3> QED
      BY <3>1, <3>2, <3>3
  <2>2. Settings' <= 1
    BY DEF JoinInv
  <2> QED
    BY <1>1, <2>1, <2>2 DEF JoinInv, Udp
<1> QED
  BY <1>3, <1>4, <1>5

-----------------------------------------------------------------------------
(* SETUPs on their way.                                                    *)

\* What is, and what is not, a SETUP of a track.
LEMMA SetUpKinds ==
  /\ \A m : m.what \notin {"send", "setu"} => ~SetsUp(m)
  /\ \A r \in Awaited : /\ SetsUp(Ask(r)) <=> SetsUp(r)
                        /\ r.what # "setu" => ~SetsUp(Ask(r)) /\ ~SetsUp(r)
                        /\ \A x \in Result : SetsUp(With(r, x)) <=> SetsUp(r)
  /\ \A m \in Msg : One(m, SetUps) = IF SetsUp(m) THEN 1 ELSE 0
  /\ \A m \in Msg : SetsUp(m) => Kind(m) = "setup"
<1>1. \A m : m.what \notin {"send", "setu"} => ~SetsUp(m)
  BY ContentIs DEF SetsUp
<1>2. ASSUME NEW r \in Awaited
      PROVE  /\ SetsUp(Ask(r)) <=> SetsUp(r)
             /\ r.what # "setu" => ~SetsUp(Ask(r)) /\ ~SetsUp(r)
             /\ \A x \in Result : SetsUp(With(r, x)) <=> SetsUp(r)
  <2>1. Content(r) = r /\ Content(Ask(r)) = r
    BY ContentIs
  <2>2. ASSUME NEW x \in Result
        PROVE  SetsUp(With(r, x)) <=> SetsUp(r)
    <3>1. With(r, x) \in Awaited
      BY AwaitedAre
    <3>2. Content(With(r, x)) = With(r, x)
      BY <3>1, ContentIs
    <3>3. /\ With(r, x).what = r.what
          /\ r.what = "setu" => With(r, x).track = r.track
      BY AwaitedFields
    <3> QED
      BY <2>1, <3>2, <3>3 DEF SetsUp
  <2> QED
    BY <2>1, <2>2 DEF SetsUp
<1>3. \A m \in Msg : One(m, SetUps) = IF SetsUp(m) THEN 1 ELSE 0
  BY DEF One, SetUps
<1>4. ASSUME NEW m \in Msg, SetsUp(m)
      PROVE  Kind(m) = "setup"
  <2>1. CASE m.what = "send"
    <3>1. m.reply \in Awaited /\ m = Ask(m.reply)
      BY <2>1, SendIs
    <3>2. m.reply.what = "setu"
      BY <1>2, <1>4, <3>1
    <3> QED
      BY <3>1, <3>2, RequestKinds
  <2>2. CASE m.what # "send"
    <3>1. m.what = "setu"
      BY <1>1, <1>4, <2>2
    <3> QED
      BY <3>1, OtherKinds
  <2> QED
    BY <2>1, <2>2
<1> QED
  BY <1>1, <1>2, <1>3, <1>4

LEMMA SetUpsAre ==
  /\ ResultBlind(SetUps) /\ SetUps \cap Binaries = {} /\ SetUps \cap Notices = {}
<1>1. ResultBlind(SetUps)
  <2> SUFFICES ASSUME NEW r \in Awaited, NEW x \in Result
               PROVE  r \in SetUps <=> With(r, x) \in SetUps
    BY DEF ResultBlind
  <2>1. With(r, x) \in Msg /\ r \in Msg
    BY AwaitedAre, Posted
  <2> QED
    BY <2>1, SetUpKinds DEF SetUps
<1>2. \A m \in Binaries \cup Notices : m.what \notin {"send", "setu"}
  BY DEF Binaries, Notices
<1> QED
  BY <1>1, <1>2, SetUpKinds DEF SetUps

\* What else is posted.
LEMMA SetsNothingUp ==
  /\ ~SetsUp(Connect) /\ ~SetsUp([what |-> "quit"]) /\ ~SetsUp([what |-> "sdon"])
  /\ ~SetsUp(Abor(TRUE)) /\ ~SetsUp(Abor(FALSE))
  /\ \A w \in {"play", "see1", "see2"} : ~SetsUp(Ask(Reply(w)))
  /\ \A b \in BOOLEAN : ~SetsUp(Disc(b)) /\ ~SetsUp(Disconnect(Disc(b)))
                          /\ ~SetsUp(Ask(TearReply(b)))
  /\ \A n \in Nat : ~SetsUp(Ask(DescReply(n)))
  /\ \A w \in {"conn", "cdon", "ddon"} : \A x : ~SetsUp([what |-> w, result |-> x])
  /\ \A i : ~SetsUp(With(SetuReply(i, NoTrack), "error"))
<1>1. ~SetsUp(Connect) /\ ~SetsUp([what |-> "quit"]) /\ ~SetsUp([what |-> "sdon"])
  BY SetUpKinds DEF Connect
<1>2. \A b : ~SetsUp(Abor(b))
  <2>1. \A b : Abor(b).what = "abor"
    BY DEF Abor
  <2> QED
    BY <2>1, SetUpKinds
<1>3. ~SetsUp(Abor(TRUE)) /\ ~SetsUp(Abor(FALSE))
  BY <1>2
<1>4. \A w \in {"play", "see1", "see2"} : ~SetsUp(Ask(Reply(w)))
  <2>1. \A w : Reply(w).what = w
    BY DEF Reply
  <2> QED
    BY <2>1, AwaitedAre, SetUpKinds
<1>5. \A b \in BOOLEAN : ~SetsUp(Disc(b)) /\ ~SetsUp(Disconnect(Disc(b)))
                           /\ ~SetsUp(Ask(TearReply(b)))
  <2>1. \A b : /\ Disc(b).what = "disc" /\ Disconnect(Disc(b)).what = "disconnect"
               /\ TearReply(b).what = "tear"
    BY DEF Disc, Disconnect, TearReply
  <2> QED
    BY <2>1, AwaitedAre, SetUpKinds
<1>6. \A n \in Nat : ~SetsUp(Ask(DescReply(n)))
  <2>1. \A n : DescReply(n).what = "desc"
    BY DEF DescReply
  <2> QED
    BY <2>1, AwaitedAre, SetUpKinds
<1>7. \A w \in {"conn", "cdon", "ddon"} : \A x : ~SetsUp([what |-> w, result |-> x])
  <2>1. \A w, x : [what |-> w, result |-> x].what = w
    OBVIOUS
  <2> QED
    BY <2>1, SetUpKinds
<1>8. ASSUME NEW i
      PROVE  ~SetsUp(With(SetuReply(i, NoTrack), "error"))
  <2> DEFINE m == With(SetuReply(i, NoTrack), "error")
  <2>1. m.what = "setu" /\ m.track = NoTrack
    BY DEF With, SetuReply
  <2> HIDE DEF m
  <2>2. ~SetsUp(m)
    BY <2>1, ContentIs DEF SetsUp
  <2> QED
    BY <2>2 DEF m
<1> QED
  BY <1>1, <1>3, <1>4, <1>5, <1>6, <1>7, <1>8

\* A track that is set up is the last one; a format that is skipped is not.
LEMMA SetupJoins ==
  ASSUME TypeOK, HandlerStep, NEW index \in 1 .. NumTracks, NEW list \in Seq(TrackType),
         NEW sources, SetupTrack(index, list, sources)
  PROVE  \E x : /\ Takes(x)
                /\ \/ ~SetsUp(x) /\ tracks' = list
                   \/ /\ SetsUp(x)
                      /\ tracks' = Append(list, [index |-> index, firstSeg |-> 0, told |-> TRUE,
                                                 socket |-> SocketOf(index, list)])
<1>1. Len(list) + 1 \in Nat \ {NoTrack}
  BY LenProperties DEF NoTrack
<1> DEFINE r == SetuReply(index, Len(list) + 1)
           e == With(SetuReply(index, NoTrack), "error")
<1>2. r \in Awaited /\ Ask(r) \in Msg /\ e \in Msg /\ ~SetsUp(e)
  BY <1>1, AwaitedAre, Posted, SetsNothingUp
<1>3. SetsUp(Ask(r))
  <2>1. r.what = "setu" /\ r.track # NoTrack
    BY <1>1 DEF SetuReply
  <2> HIDE DEF r
  <2>2. Content(Ask(r)) = r
    BY <1>2, ContentIs
  <2> QED
    BY <2>1, <2>2 DEF SetsUp
<1>4. \/ Posts(<<e>>) /\ tracks' = list
      \/ Posts(<<Ask(r)>>) /\ tracks' = Append(list, [index |-> index, firstSeg |-> 0, told |-> TRUE,
                                                      socket |-> SocketOf(index, list)])
  BY DEF SetupTrack
<1> HIDE DEF e, r
<1> QED
  BY <1>2, <1>3, <1>4 DEF Posts, Takes

LEMMA SettingsAre ==
  ASSUME TypeOK
  PROVE  /\ Settings \in Nat
         /\ mailbox # <<>> /\ (\A m \in Rest \cup Due : ~SetsUp(m)) =>
               Settings = IF SetsUp(Current) THEN 1 ELSE 0
         /\ (\A m \in Around : ~SetsUp(m)) => Settings = 0
<1>1. BoxTypes
  BY DEF TypeOK
<1>2. Settings \in Nat
  BY <1>1, TotalTypes DEF Settings
<1>3. (\A m \in Due : ~SetsUp(m)) => Count(pending, SetUps) = 0
  BY <1>1, MailTypes DEF SetUps
<1>4. ASSUME mailbox # <<>>, \A m \in Rest \cup Due : ~SetsUp(m)
      PROVE  Settings = IF SetsUp(Current) THEN 1 ELSE 0
  <2>1. mailbox \in Seq(Msg) /\ Handled \in Seq(Msg) /\ Current \in Msg
    BY <1>1, <1>4, CurrentIs DEF BoxTypes
  <2>2. Count(mailbox, SetUps) = Count(Handled, SetUps) + One(Current, SetUps)
    BY <1>4, <2>1, CountTail DEF Current, Handled, One
  <2>3. Count(Handled, SetUps) = 0
    <3>1. \A i \in DOMAIN Handled : Handled[i] \in Rest
      BY SetOf DEF Rest
    <3> QED
      BY <1>4, <2>1, <3>1, CountNone DEF SetUps
  <2>4. One(Current, SetUps) = IF SetsUp(Current) THEN 1 ELSE 0
    BY <2>1, SetUpKinds
  <2> QED
    BY <1>3, <1>4, <2>2, <2>3, <2>4 DEF Settings, Total
<1>5. (\A m \in Mail : ~SetsUp(m)) => Count(mailbox, SetUps) = 0
  BY <1>1, MailTypes DEF SetUps
<1> QED
  BY <1>2, <1>3, <1>4, <1>5 DEF Settings, Total, Around

\* Current is handled; a SETUP is posted, or none.
LEMMA SettingsTake ==
  ASSUME TypeOK, mailbox # <<>>, pending' = pending
  PROVE  /\ \A x : Takes(x) => Settings' = Settings - (IF SetsUp(Current) THEN 1 ELSE 0)
                                             + (IF SetsUp(x) THEN 1 ELSE 0)
         /\ TakesNone /\ ~SetsUp(Current) => Settings' = Settings
         /\ \A x, y : TakesTwo(x, y) /\ ~SetsUp(x) /\ ~SetsUp(y) /\ ~SetsUp(Current)
                        => Settings' = Settings
<1>1. Current \in Msg /\ Settings \in Nat
  BY CurrentIs, SettingsAre
<1>2. /\ \A x : Takes(x) => Swaps(x, SetUps)
      /\ TakesNone => Drops(SetUps)
      /\ \A x, y : TakesTwo(x, y) => SwapsTwo(x, y, SetUps)
  BY TakesFlow
<1>3. \A m \in Msg : One(m, SetUps) = IF SetsUp(m) THEN 1 ELSE 0
  BY SetUpKinds
<1>4. \A x : Takes(x) => x \in Msg
  BY DEF Takes
<1>5. \A x, y : TakesTwo(x, y) => x \in Msg /\ y \in Msg
  BY DEF TakesTwo
<1>6. ASSUME NEW x, Takes(x)
      PROVE  Settings' = Settings - (IF SetsUp(Current) THEN 1 ELSE 0)
                                  + (IF SetsUp(x) THEN 1 ELSE 0)
  BY <1>1, <1>2, <1>3, <1>4, <1>6 DEF Swaps, Settings
<1>7. TakesNone /\ ~SetsUp(Current) => Settings' = Settings
  BY <1>1, <1>2, <1>3 DEF Drops, Settings
<1>8. ASSUME NEW x, NEW y, TakesTwo(x, y), ~SetsUp(x), ~SetsUp(y), ~SetsUp(Current)
      PROVE  Settings' = Settings
  BY <1>1, <1>2, <1>3, <1>5, <1>8 DEF SwapsTwo, Settings
<1> QED
  BY <1>6, <1>7, <1>8

\* Nobody but the handlers asks for a SETUP, or answers one that was not asked.
LEMMA OthersSettle ==
  ASSUME TypeOK, OtherStep
  PROVE  Settings' = Settings
<1>1. Settings \in Nat
  BY SettingsAre
<1>2. CASE ConnectionStep
  <2>1. PICK x \in Msg : ConnectionSwap(x) /\ Swaps(x, SetUps)
    BY <1>2, ConnectionFlow, SetUpsAre
  <2>2. Current \in Msg
    BY <1>2, CurrentIs DEF ConnectionStep
  <2>3. SetsUp(Current) <=> SetsUp(x)
    <3>1. CASE /\ Current = Connect
               /\ \E r \in {"ok", "error"} : x = [what |-> "conn", result |-> r]
      BY <3>1, SetsNothingUp
    <3>2. CASE \E b \in BOOLEAN : Current = Disconnect(Disc(b)) /\ x = Disc(b)
      BY <3>2, SetsNothingUp
    <3>3. CASE \E r \in Awaited : Current = Ask(r) /\ x = r
      BY <3>3, SetUpKinds
    <3> QED
      BY <2>1, <3>1, <3>2, <3>3 DEF ConnectionSwap
  <2>4. One(Current, SetUps) = One(x, SetUps)
    BY <2>2, <2>3, SetUpKinds
  <2> QED
    BY <1>1, <2>1, <2>4 DEF Swaps, Settings
<1>3. CASE ServerStep
  BY <1>3, ServerFlow, SetUpsAre DEF Settings
<1>4. CASE NetworkStep
  BY <1>4, NetworkFlow, SetUpsAre DEF Settings
<1>5. CASE ControllerStep
  <2>1. mailbox # <<>> /\ pending' = pending /\ TakesNone
    BY <1>5 DEF ControllerStep, ControllerFrame, Posts, TakesNone, LooperFrame, serverVars
  <2>2. ~SetsUp(Current)
    BY <1>5, SetUpKinds DEF ControllerStep, OnConnectDone, OnDisconnectDone, OnSeekDone
  <2> QED
    BY <2>1, <2>2, SettingsTake
<1>6. CASE SeekStep \/ WaitStep \/ \E n \in timers : Expires(n)
  <2>1. pending' = pending
    BY <1>6, OthersPost
  <2>2. CASE mailbox' = mailbox
    BY <2>1, <2>2 DEF Settings
  <2>3. ASSUME NEW x \in Msg, ~SetsUp(x), mailbox' = Append(mailbox, x)
        PROVE  Settings' = Settings
    <3>1. Adds(x, SetUps)
      BY <2>1, <2>3, PostsFlow
    <3>2. One(x, SetUps) = 0
      BY <2>3, SetUpKinds
    <3> QED
      BY <1>1, <3>1, <3>2 DEF Adds, Settings
  <2>4. \A m : Errand(m) => m \in Msg /\ ~SetsUp(m)
    BY SetUpKinds DEF Errand
  <2>5. Connect \in Msg /\ ~SetsUp(Connect)
    BY Posted, SetsNothingUp
  <2> QED
    BY <1>6, <2>2, <2>3, <2>4, <2>5, OthersPost
<1> QED
  BY <1>2, <1>3, <1>4, <1>5, <1>6 DEF OtherStep

\* Nor do handlers other than those that set a track up.
LEMMA HandlerSettles ==
  ASSUME TypeOK, HandlerStep, crashed' = Alive, SessionAssumption,
         ~OnSetu, OnDesc => Current.result # "ok"
  PROVE  Settings' = Settings
<1>1. mailbox # <<>> /\ pending' = pending /\ Current \in Msg /\ Settings \in Nat
  BY HandlerLeaves, CurrentIs, SettingsAre DEF HandlerStep
<1>2. ~SetsUp(Current)
  <2>1. Current.what \notin {"send", "setu"}
    BY DEF HandlerStep, Handler, OnConn, OnDisc, OnDesc, OnPlay, OnAbor, OnTear, OnQuit,
           OnChek, OnFirstPacket, OnAccessUnit, OnSeek, OnSee1, OnSee2, OnBiny, OnTiou
  <2> QED
    BY <2>1, SetUpKinds
<1>3. /\ TakesNone => Settings' = Settings
      /\ \A x : Takes(x) /\ ~SetsUp(x) => Settings' = Settings
      /\ \A x, y : TakesTwo(x, y) /\ ~SetsUp(x) /\ ~SetsUp(y) => Settings' = Settings
  BY <1>1, <1>2, SettingsTake
<1>4. handler \in HandlerType
  BY DEF TypeOK, SessionTypes
<1>5. CASE OnConn
  <2>1. ~SetsUp(Disc(FALSE)) /\ ~SetsUp(Ask(DescReply(0)))
    BY SetsNothingUp
  <2> QED
    BY <1>3, <1>5, <2>1, OnConnPosts
<1>6. CASE OnDisc
  BY <1>3, <1>6, OnDiscPosts, SetsNothingUp
<1>7. CASE OnDesc
  <2>1. Current.moved + 1 \in Nat
    <3>1. Current.what = "desc"
      BY <1>7 DEF OnDesc
    <3> QED
      BY <1>1, <3>1, MsgFields, AwaitedFields
  <2>2. ~SetsUp(Ask(DescReply(Current.moved + 1))) /\ ~SetsUp(Disconnect(Disc(FALSE)))
    BY <2>1, SetsNothingUp
  <2> QED
    BY <1>3, <1>7, <2>2, OnDescPosts
<1>8. CASE OnPlay
  BY <1>3, <1>8, OnPlayPosts, SetsNothingUp
<1>9. CASE OnAbor
  <2>1. Takes(Ask(TearReply(Current.again))) /\ Current.again \in BOOLEAN
    <3>1. Current.what = "abor"
      BY <1>9 DEF OnAbor
    <3> QED
      BY <1>1, <1>9, <3>1, OnAborPosts, MsgFields DEF Alive
  <2> QED
    BY <1>3, <2>1, SetsNothingUp
<1>10. CASE OnTear
  BY <1>3, <1>10, OnTearPosts, SetsNothingUp
<1>11. CASE OnQuit
  <2>1. handler.doneMsg # None => ~SetsUp([what |-> handler.doneMsg, result |-> "error"])
    <3>1. handler.doneMsg \in {None, "cdon", "ddon"}
      BY <1>4 DEF HandlerType
    <3> QED
      BY <3>1, SetsNothingUp
  <2> QED
    BY <1>3, <1>11, <2>1, OnQuitPosts
<1>12. CASE OnChek
  BY <1>3, <1>12, OnChekPosts, SetsNothingUp
<1>13. CASE OnFirstPacket \/ OnBiny
  BY <1>3, <1>13 DEF OnFirstPacket, OnBiny, Posts, TakesNone
<1>14. CASE OnAccessUnit
  <2>1. crashed' # "first unit"
    BY DEF Alive
  <2>2. TakesNone \/ (/\ handler.doneMsg \in {"cdon", "ddon"}
                      /\ Takes([what |-> handler.doneMsg, result |-> "ok"]))
    BY <1>14, <2>1, OnAccessUnitPosts
  <2>3. handler.doneMsg \in {"cdon", "ddon"}
          => ~SetsUp([what |-> handler.doneMsg, result |-> "ok"])
    BY SetsNothingUp
  <2> QED
    BY <1>3, <2>2, <2>3
<1>15. CASE OnTiou
  BY <1>3, <1>15, OnTiouPosts, SetsNothingUp
<1>16. CASE OnSeek
  BY <1>3, <1>16, OnSeekPosts, SetsNothingUp
<1>17. CASE OnSee1
  BY <1>3, <1>17, OnSee1Posts, SetsNothingUp
<1>18. CASE OnSee2
  <2>1. TakesTwo(Abor(FALSE), [what |-> "sdon"]) \/ Takes([what |-> "sdon"])
    BY <1>18, OnSee2Posts DEF Alive
  <2> QED
    BY <1>3, <2>1, SetsNothingUp
<1> QED
  BY <1>5, <1>6, <1>7, <1>8, <1>9, <1>10, <1>11, <1>12, <1>13, <1>14, <1>15, <1>16,
     <1>17, <1>18 DEF HandlerStep, Handler

-----------------------------------------------------------------------------
(* Steps that leave the streams alone.                                     *)

\* All but the handlers and the RTP connection.
AwayStep == \/ ConnectionStep \/ ControllerStep \/ ServerStep \/ SeekStep \/ WaitStep
            \/ \E m \in timers : Expires(m)

LEMMA AwayLeaves ==
  ASSUME TypeOK, AwayStep
  PROVE  /\ UNCHANGED <<tracks, netbox, streams>>
         /\ handler'.tryTCP = handler.tryTCP
<1>1. handler \in HandlerType
  BY DEF TypeOK, SessionTypes
<1>2. CASE ConnectionStep
  BY <1>2 DEF ConnectionStep, ConnectionFrame, sessionVars, netVars
<1>3. CASE ControllerStep
  BY <1>3 DEF ControllerStep, ControllerFrame, LooperFrame, sessionVars
<1>4. CASE ServerStep
  BY <1>4 DEF ServerStep, ServerFrame, ServerAnswers, ConnectionLost,
              ServerSendsInterleaved, sessionVars, netVars
<1>5. CASE SeekStep
  BY <1>5 DEF SeekStep, Seek, Dies, PlayerFrame, sessionVars
<1>6. CASE WaitStep
  <2>1. \A d : [handler EXCEPT !.doneMsg = d].tryTCP = handler.tryTCP
    BY <1>1 DEF HandlerType
  <2>2. handler'.tryTCP = handler.tryTCP /\ tracks' = tracks
    BY <1>6, <2>1 DEF WaitStep, Prepare, ConnectReturns, BufferingUpdate, DisconnectReturns,
                      Play, Decode, StreamDone, Reset, sessionVars
  <2> QED
    BY <1>6, <2>2 DEF WaitStep, PlayerFrame, WaitFrame
<1>7. CASE \E m \in timers : Expires(m)
  BY <1>7 DEF Expires, netVars
<1> QED
  BY <1>2, <1>3, <1>4, <1>5, <1>6, <1>7 DEF AwayStep

\* A second attempt is asked for by a handler only, and connects when the
\* tracks are gone.
LEMMA OthersRetry ==
  ASSUME TypeOK, SetupInv, AwayStep \/ NetworkStep
  PROVE  \/ Flying'["retry"] = Flying["retry"]
         \/ tracks = <<>> /\ Flying'["retry"] = Flying["retry"] - 1
<1>1. Flying["retry"] \in Nat /\ "retry" \in Kinds
  BY Numbers DEF Kinds
<1>2. CASE ConnectionStep
  <2>1. CASE \E k \in {"setup", "exit", "retry", "seek"} : Turns(k, k)
    <3>1. PICK k \in {"setup", "exit", "retry", "seek"} : Turns(k, k)
      BY <2>1
    <3> QED
      BY <1>1, <3>1 DEF Turns
  <2>2. CASE Turns("retry", "setup") /\ Current = Disconnect(Disc(TRUE))
    <3>1. Flying'["retry"] = Flying["retry"] - 1
      BY <1>1, <2>2 DEF Turns
    <3>2. Current \in Around /\ Kind(Current) = "retry"
      BY <1>2, <2>2, AroundIs, FormKinds DEF ConnectionStep
    <3>3. Current.what = "disconnect"
      BY <2>2 DEF Disconnect
    <3>4. Content(Current) = Current /\ Renewal(Current)
      BY <3>2, <3>3, ContentIs DEF Renewal
    <3>5. tracks = <<>>
      BY <3>2, <3>3, <3>4 DEF SetupInv, Tidy
    <3> QED
      BY <3>1, <3>5
  <2>3. CASE Turns("setup", "play")
    BY <1>1, <2>3 DEF Turns
  <2> QED
    BY <1>2, <2>1, <2>2, <2>3, ConnectionKinds
<1>3. CASE ServerStep \/ NetworkStep
  BY <1>1, <1>3, MediaKinds
<1>4. CASE ControllerStep
  <2>1. mailbox # <<>> /\ pending' = pending /\ TakesNone
    BY <1>4 DEF ControllerStep, ControllerFrame, Posts, TakesNone, LooperFrame, serverVars
  <2>2. Current \in Msg /\ Spends(Kind(Current))
    BY <2>1, KindFlow
  <2>3. Kind(Current) # "retry"
    BY <1>4, <2>2, OtherKinds DEF ControllerStep, OnConnectDone, OnDisconnectDone, OnSeekDone
  <2> QED
    BY <1>1, <2>2, <2>3 DEF Spends
<1>5. CASE SeekStep \/ WaitStep \/ \E m \in timers : Expires(m)
  <2> DEFINE a == Abor(FALSE)
             s == [what |-> "seek"]
  <2>1. /\ a \in Msg /\ Kind(a) = "abort" /\ s \in Msg /\ Kind(s) = "seek"
        /\ Connect \in Msg /\ Kind(Connect) = "setup"
    BY Posted, FormKinds
  <2> HIDE DEF a, s
  <2>2. pending' = pending
    BY <1>5, OthersPost
  <2>3. CASE mailbox' = mailbox
    <3>1. Flying'["retry"] = Flying["retry"]
      BY <1>1, <2>2, <2>3, FlyingTypes
    <3> QED
      BY <3>1
  <2>4. ASSUME NEW x \in Msg, Kind(x) # "retry", mailbox' = Append(mailbox, x)
        PROVE  Flying'["retry"] = Flying["retry"]
    BY <1>1, <2>2, <2>4, KindPosts DEF Gains
  <2>5. CASE SeekStep
    <3>1. mailbox' = mailbox \/ mailbox' = Append(mailbox, s)
      BY <2>5 DEF SeekStep, Seek, Dies, s
    <3> QED
      BY <2>1, <2>3, <2>4, <3>1
  <2>6. CASE WaitStep
    <3>1. \/ mailbox' = mailbox \/ mailbox' = Append(mailbox, a)
          \/ mailbox' = Append(mailbox, Connect)
      BY <2>6 DEF WaitStep, Prepare, ConnectReturns, BufferingUpdate, DisconnectReturns,
                  Play, Decode, StreamDone, Reset, a
    <3> QED
      BY <2>1, <2>3, <2>4, <3>1
  <2>7. ASSUME NEW m \in timers, Expires(m)
        PROVE  Flying'["retry"] = Flying["retry"]
    <3>1. m \in Msg /\ Kind(m) # "retry"
      <4>1. m = Tiou \/ m \in CheckMsgs
        BY <2>7 DEF TypeOK, BoxTypes
      <4>2. Tiou \in Msg /\ Kind(Tiou) = "tiou" /\ CheckMsgs \subseteq Msg
        BY Posted, FormKinds
      <4>3. \A c \in CheckMsgs : c.what = "chek"
        BY DEF CheckMsgs
      <4> QED
        BY <4>1, <4>2, <4>3, OtherKinds
    <3>2. mailbox' = Append(mailbox, m)
      BY <2>7 DEF Expires
    <3> QED
      BY <2>4, <3>1, <3>2
  <2> QED
    BY <1>5, <2>5, <2>6, <2>7
<1> QED
  BY <1>2, <1>3, <1>4, <1>5 DEF AwayStep

\* What of the last attempt these steps leave.
LEMMA RetryStays ==
  ASSUME TypeOK, SetupInv, JoinInv, AwayStep \/ NetworkStep, handler'.tryTCP = handler.tryTCP
  PROVE  /\ handler'.tryTCP => Flying'["retry"] > 0 \/ PairsOf(tracks) = {}
         /\ Flying'["retry"] > 0 => handler'.tryTCP
<1>1. Flying["retry"] \in Nat
  BY Numbers DEF Kinds
<1>2. tracks = <<>> => PairsOf(tracks) = {}
  BY PairsOfFew
<1> QED
  BY <1>1, <1>2, OthersRetry DEF JoinInv

\* Nobody but the server brings interleaved data.
LEMMA BinariesStay ==
  ASSUME TypeOK, TypeOK', AwayStep \/ NetworkStep, NEW m \in Mail', m.what = "biny"
  PROVE  /\ NetworkStep => m \in Mail
         /\ \/ m \in Mail
            \/ \E i \in DOMAIN streams :
                  streams[i].injected /\ m.socket = streams[i].socket
<1> DEFINE M == {m}
<1>1. mailbox' \in Seq(Msg) /\ pending' \in Seq(Awaited) /\ BoxTypes
  BY DEF TypeOK, BoxTypes
<1>2. PICK k \in DOMAIN mailbox' : mailbox'[k] = m
  BY SetOf DEF Mail
<1>3. m \in Msg /\ m \in Binaries
  BY <1>1, <1>2, ElementOfSeq, LenProperties, MsgFields
<1>4. Total(mailbox', pending', M) >= 1
  <2>1. Count(mailbox', M) >= 1
    BY <1>1, <1>2, CountPositive
  <2>2. Count(pending', M) \in Nat /\ Count(mailbox', M) \in Nat
    BY <1>1, OccursFinite
  <2> QED
    BY <2>1, <2>2 DEF Total
<1>5. Total(mailbox, pending, M) >= 1 => m \in Mail
  <2>1. m \notin Due
    <3>1. Due \subseteq Awaited
      BY AroundIs
    <3> QED
      BY <1>3, <3>1, AwaitedFields
  <2>2. Count(pending, M) = 0 /\ Count(mailbox, M) \in Nat
    BY <1>1, <2>1, MailTypes
  <2>3. Count(mailbox, M) = 0 <=> Mail \cap M = {}
    BY <1>1, MailTypes
  <2> QED
    BY <2>2, <2>3 DEF Total
<1>6. ResultBlind(M)
  BY <1>3, AwaitedAre, AwaitedFields DEF ResultBlind
<1>7. M \cap Notices = {}
  BY <1>3 DEF Binaries, Notices
<1>8. Total(mailbox, pending, M) \in Nat
  BY <1>1, TotalTypes
<1>9. \A x : x.what # "biny" => One(x, M) = 0
  BY DEF One
<1> HIDE DEF M
<1>10. NetworkStep => m \in Mail
  BY <1>4, <1>5, <1>7, NetworkFlow
<1> SUFFICES ASSUME AwayStep
             PROVE  \/ m \in Mail
                    \/ \E i \in DOMAIN streams :
                          streams[i].injected /\ m.socket = streams[i].socket
  BY <1>10
<1>11. CASE ConnectionStep
  <2>1. PICK x \in Msg : ConnectionSwap(x) /\ Swaps(x, M)
    BY <1>6, <1>11, ConnectionFlow
  <2>2. x.what # "biny"
    <3>1. CASE /\ Current = Connect
               /\ \E r \in {"ok", "error"} : x = [what |-> "conn", result |-> r]
      BY <3>1
    <3>2. CASE \E b \in BOOLEAN : Current = Disconnect(Disc(b)) /\ x = Disc(b)
      BY <3>2 DEF Disc
    <3>3. CASE \E r \in Awaited : Current = Ask(r) /\ x = r
      BY <3>3, AwaitedFields
    <3> QED
      BY <2>1, <3>1, <3>2, <3>3 DEF ConnectionSwap
  <2> QED
    BY <1>4, <1>5, <1>8, <1>9, <2>1, <2>2 DEF Swaps
<1>12. CASE ControllerStep
  <2>1. mailbox # <<>> /\ pending' = pending /\ TakesNone
    BY <1>12 DEF ControllerStep, ControllerFrame, Posts, TakesNone, LooperFrame, serverVars
  <2>2. Drops(M)
    BY <2>1, TakesFlow
  <2> QED
    BY <1>4, <1>5, <1>8, <2>2 DEF Drops
<1>13. CASE ServerStep
  <2>1. CASE ServerAnswers \/ ConnectionLost
    BY <1>4, <1>5, <1>6, <1>13, <2>1, AnswersFlow
  <2>2. CASE ServerSendsInterleaved
    <3>1. PICK i \in DOMAIN streams, p \in Packet :
            LET b == [what |-> "biny", socket |-> streams[i].socket, packet |-> p]
            IN  /\ streams[i].injected
                /\ b \in Msg /\ mailbox' = Append(mailbox, b)
      BY <1>13, <2>2, InterleavedIs
    <3> DEFINE b == [what |-> "biny", socket |-> streams[i].socket, packet |-> p]
    <3>2. b \in Msg /\ mailbox' = Append(mailbox, b) /\ b.socket = streams[i].socket
      BY <3>1
    <3> HIDE DEF b
    <3>3. Mail' = Mail \cup {b}
      BY <1>1, <3>2, PostsOne
    <3> QED
      BY <1>13, <3>1, <3>2, <3>3
  <2> QED
    BY <1>13, <2>1, <2>2 DEF ServerStep
<1>14. CASE SeekStep \/ WaitStep \/ \E n \in timers : Expires(n)
  <2>1. pending' = pending
    BY <1>14, OthersPost
  <2>2. CASE mailbox' = mailbox
    BY <2>2 DEF Mail
  <2>3. ASSUME NEW x \in Msg, x.what # "biny", mailbox' = Append(mailbox, x)
        PROVE  m \in Mail
    <3>1. Mail' = Mail \cup {x}
      BY <1>1, <2>3, PostsOne
    <3> QED
      BY <2>3, <3>1
  <2>4. Connect \in Msg /\ Connect.what # "biny"
    BY Posted DEF Connect
  <2> QED
    BY <1>14, <2>2, <2>3, <2>4, OthersPost DEF Errand
<1> QED
  BY <1>11, <1>12, <1>13, <1>14 DEF AwayStep

\* Streams and line that stay.
LEMMA RestingStreams ==
  ASSUME TypeOK, OwnStreams, streams' = streams
  PROVE  /\ StillThere /\ OwnStreams'
         /\ netbox' = netbox =>
              /\ \A x \in Socket : Moves(x)
              /\ InLine(netbox) => InLine(netbox')
              /\ Removing' => Removing
<1>1. StillThere
  BY DEF StillThere, Injectable, Registered, Udp
<1>2. OwnStreams'
  BY DEF OwnStreams, Own, Udp
<1>3. netbox' = netbox => \A x \in Socket : Moves(x)
  BY DEF Moves, Regs, Removals
<1> QED
  BY <1>1, <1>2, <1>3 DEF Removing, InLine

LEMMA AwayKeepsNet ==
  ASSUME TypeOK, TypeOK', StreamInv, LineInv, JoinInv, SetupInv, AwayStep
  PROVE  StreamInv' /\ LineInv' /\ JoinInv'
<1>1. /\ UNCHANGED <<tracks, netbox, streams>>
      /\ handler'.tryTCP = handler.tryTCP
  BY AwayLeaves
<1>2. /\ StillThere /\ OwnStreams' /\ \A x \in Socket : Moves(x)
      /\ InLine(netbox') /\ (Removing' => Removing)
  <2>1. OwnStreams
    BY DEF StreamInv, OwnStreams
  <2> QED
    BY <1>1, <2>1, RestingStreams DEF LineInv
<1>3. SameTracks
  BY <1>1 DEF SameTracks
<1>4. NoNews
  <2>1. ASSUME NEW m \in Mail', m.what = "biny", m \notin Mail
        PROVE  Injectable(m.socket)'
    <3>1. PICK i \in DOMAIN streams : streams[i].injected /\ m.socket = streams[i].socket
      BY <2>1, BinariesStay
    <3>2. Own(streams[i]) /\ streams[i].socket \in Socket
      BY StreamsAre DEF StreamInv, StreamType
    <3>3. Injectable(m.socket)
      BY <3>1, <3>2 DEF Injectable, Own, Registered
    <3> QED
      BY <1>2, <3>1, <3>2, <3>3 DEF StillThere
  <2> QED
    BY <1>1, <2>1 DEF NoNews
<1>5. /\ handler'.tryTCP => Flying'["retry"] > 0 \/ PairsOf(tracks) = {}
      /\ Flying'["retry"] > 0 => handler'.tryTCP
  BY <1>1, RetryStays
<1>6. Settings' = Settings
  BY OthersSettle DEF AwayStep, OtherStep
<1> QED
  BY <1>1, <1>2, <1>3, <1>4, <1>5, <1>6, NetStays

LEMMA NetworkKeepsNet ==
  ASSUME TypeOK, TypeOK', StreamInv, LineInv, JoinInv, SetupInv, NetworkStep,
         crashed = Alive, crashed' = Alive
  PROVE  StreamInv' /\ LineInv' /\ JoinInv'
<1>1. UNCHANGED <<handler, tracks>> /\ netbox # <<>>
  BY DEF NetworkStep, NetFrame, sessionVars
<1>2. Runs
  BY NetworkRuns
<1>3. /\ \A m \in ToSet(netbox') : m \in ToSet(netbox) \/ m = PollStreams
      /\ Removing' => Removing
      /\ InLine(netbox')
  BY <1>1, <1>2, LineTaken DEF Runs, LineInv
<1>4. SameTracks
  BY <1>1 DEF SameTracks
<1>5. NoNews
  <2>1. \A m \in Mail' : m \in Mail \/ m.what # "biny"
    BY BinariesStay
  <2>2. PollStreams.what = "poll"
    BY DEF PollStreams
  <2> QED
    BY <1>3, <2>1, <2>2 DEF NoNews
<1>6. /\ handler'.tryTCP => Flying'["retry"] > 0 \/ PairsOf(tracks) = {}
      /\ Flying'["retry"] > 0 => handler'.tryTCP
  BY <1>1, RetryStays
<1>7. Settings' = Settings
  BY OthersSettle DEF OtherStep
<1> QED
  BY <1>1, <1>2, <1>3, <1>4, <1>5, <1>6, <1>7, NetStays DEF Runs

LEMMA HandlersBringNone ==
  ASSUME TypeOK, HandlerStep, crashed' = Alive, SessionAssumption, NEW m \in Mail',
         m.what = "biny"
  PROVE  m \in Mail
<1>1. mailbox # <<>> /\ BoxTypes
  BY DEF HandlerStep, TypeOK
<1>2. Mail = {Current} \cup Rest
  BY <1>1, CurrentIs
<1>3. CASE TakesNone
  BY <1>1, <1>2, <1>3, HandlesNone DEF TakesNone
<1>4. ASSUME NEW x, Takes(x), x.what # "biny"
      PROVE  m \in Mail
  <2>1. Mail' = Rest \cup {x}
    BY <1>1, <1>4, HandlesOne DEF Takes
  <2> QED
    BY <1>2, <1>4, <2>1
<1>5. ASSUME NEW x, NEW y, TakesTwo(x, y), x.what # "biny", y.what # "biny"
      PROVE  m \in Mail
  <2>1. Mail' = Rest \cup {x, y}
    BY <1>1, <1>5, HandlesTwo DEF TakesTwo
  <2> QED
    BY <1>2, <1>5, <2>1
<1> QED
  BY <1>3, <1>4, <1>5, HandlerPosts

\* Handlers that have nothing to do with streams.
CalmHandler == \/ OnConn \/ OnDisc \/ OnTear \/ OnQuit \/ OnChek \/ OnFirstPacket
               \/ OnAccessUnit \/ OnSeek \/ OnSee1 \/ OnSee2 \/ OnPlay
               \/ OnDesc /\ Current.result # "ok"

LEMMA CalmLeaves ==
  ASSUME TypeOK, HandlerStep, crashed' = Alive, CalmHandler, SessionAssumption
  PROVE  netbox' = netbox /\ SameTracks
<1>1. tracks \in Seq(TrackType) /\ segment \in Nat
  BY DEF TypeOK, SessionTypes, PlayerTypes
<1>2. tracks' = tracks => SameTracks
  BY DEF SameTracks
<1>3. ASSUME NEW result, NEW told, tracks' = ParsePlayResponse(result, tracks, told)
      PROVE  SameTracks
  BY <1>1, <1>3, ParseTypes DEF SameTracks
<1>4. CASE OnConn \/ OnDisc \/ OnTear \/ OnQuit \/ OnChek \/ OnFirstPacket \/ OnSeek
  BY <1>2, <1>4 DEF OnConn, OnDisc, OnTear, OnQuit, OnChek, OnFirstPacket, OnSeek,
                    Calm, sessionVars
<1>5. CASE OnAccessUnit \/ OnSee1
  <2>1. netbox' = netbox
    BY <1>5 DEF OnAccessUnit, OnSee1, Calm
  <2>2. tracks' = tracks
    BY <1>5, HandlerKeeps
  <2> QED
    BY <1>2, <2>1, <2>2
<1>6. CASE OnSee2
  <2>1. netbox' = netbox
    BY <1>6 DEF OnSee2, Calm
  <2>2. \/ tracks' = tracks
        \/ \E told \in SUBSET DOMAIN tracks :
              tracks' = ParsePlayResponse(Current.result, tracks, told)
    BY <1>6 DEF OnSee2, Dies, sessionVars
  <2> QED
    BY <1>2, <1>3, <2>1, <2>2
<1>7. CASE OnPlay
  <2>1. netbox' = netbox
    BY <1>7 DEF OnPlay, Calm
  <2>2. \/ tracks' = tracks
        \/ tracks' = ParsePlayResponse(Current.result, tracks, DOMAIN tracks)
    BY <1>7 DEF OnPlay
  <2> QED
    BY <1>2, <1>3, <2>1, <2>2
<1>8. CASE OnDesc /\ Current.result # "ok"
  <2>1. netbox' = netbox
    BY <1>8 DEF OnDesc
  <2>2. tracks' = tracks
    BY <1>8 DEF OnDesc
  <2> QED
    BY <1>2, <2>1, <2>2
<1> QED
  BY <1>4, <1>5, <1>6, <1>7, <1>8 DEF CalmHandler

LEMMA CalmRetry ==
  ASSUME TypeOK, HandlerStep, crashed' = Alive, SessionAssumption, CalmHandler \/ OnBiny
  PROVE  Flying'["retry"] = Flying["retry"]
<1>1. \A j, l : Deals(j, l) /\ (j = l \/ "retry" \notin {j, l})
                  => Flying'["retry"] = Flying["retry"]
  BY DealsAt DEF Kinds
<1>2. \A j : Drains(j) /\ j # "retry" => Flying'["retry"] = Flying["retry"]
  BY DealsAt DEF Kinds
<1>3. CASE OnConn \/ OnDisc \/ OnDesc
  BY <1>1, <1>3, SetupMoves
<1>4. CASE OnTear
  BY <1>1, <1>4, PlayMoves
<1>5. CASE OnQuit
  <2>1. Deals("exit", "refusal") \/ Deals("exit", "ended") \/ Drains("exit")
    BY <1>5, PlayMoves
  <2> QED
    BY <1>1, <1>2, <2>1
<1>6. CASE OnPlay
  <2>1. Deals("play", "exit") \/ Drains("play")
    BY <1>6, PlayMoves
  <2> QED
    BY <1>1, <1>2, <2>1
<1>7. CASE OnChek \/ OnFirstPacket \/ OnBiny
  BY <1>1, <1>2, <1>7, MediaMoves
<1>8. CASE OnAccessUnit
  <2>1. Deals("media", "told") \/ Deals("media", "ended") \/ Drains("media")
    BY <1>8, MediaMoves
  <2> QED
    BY <1>1, <1>2, <2>1
<1>9. CASE OnSeek \/ OnSee1
  <2>1. Deals("seek", "seek")
    BY <1>9, MediaMoves
  <2> QED
    BY <1>1, <2>1
<1>10. CASE OnSee2
  <2>1. \/ Deals("seek", "seek")
        \/ \A k \in Kinds : Flying'[k] = Flying[k] + (IF k = "abort" THEN 1 ELSE 0)
    BY <1>10, MediaMoves
  <2>2. Flying["retry"] \in Nat /\ "retry" \in Kinds
    BY Numbers DEF Kinds
  <2> QED
    BY <1>1, <2>1, <2>2
<1> QED
  BY <1>3, <1>4, <1>5, <1>6, <1>7, <1>8, <1>9, <1>10 DEF CalmHandler

LEMMA CalmKeepsNet ==
  ASSUME TypeOK, StreamInv, LineInv, JoinInv, HandlerStep, crashed' = Alive,
         SessionAssumption, CalmHandler
  PROVE  StreamInv' /\ LineInv' /\ JoinInv'
<1>1. netbox' = netbox /\ SameTracks /\ streams' = streams
  BY CalmLeaves, HandlerLeaves
<1>2. /\ StillThere /\ OwnStreams' /\ \A x \in Socket : Moves(x)
      /\ InLine(netbox') /\ (Removing' => Removing)
  <2>1. OwnStreams
    BY DEF StreamInv, OwnStreams
  <2> QED
    BY <1>1, <2>1, RestingStreams DEF LineInv
<1>3. NoNews
  BY <1>1, HandlersBringNone DEF NoNews
<1>4. ~OnTiou /\ ~OnSetu /\ (OnDesc => Current.result # "ok")
  BY DEF CalmHandler, OnTiou, OnSetu, OnConn, OnDisc, OnTear, OnQuit, OnChek,
         OnFirstPacket, OnAccessUnit, OnSeek, OnSee1, OnSee2, OnPlay, OnDesc
<1>5. handler'.tryTCP = handler.tryTCP /\ Flying'["retry"] = Flying["retry"]
  BY <1>4, HandlerFields, CalmRetry
<1>6. Settings' = Settings
  BY <1>4, HandlerSettles
<1> QED
  BY <1>1, <1>2, <1>3, <1>5, <1>6, NetStays DEF JoinInv

-----------------------------------------------------------------------------
(* Handlers that post to the RTP connection.                               *)

\* What a handler posts to the RTP connection.
LEMMA LineGrows ==
  ASSUME TypeOK, NEW m \in NetMsg, netbox' = netbox \o <<m>>
  PROVE  /\ \A x \in Socket :
              /\ Count(netbox', AddsOf(x)) = Count(netbox, AddsOf(x)) + One(m, AddsOf(x))
              /\ Removals'[x] = Removals[x] + One(m, {RemoveStream(x)})
         /\ ToSet(netbox') = ToSet(netbox) \cup {m}
         /\ Removing' <=> Removing \/ m.what = "remove"
         /\ InLine(netbox) /\ (m.what = "add" => m.stream.injected \/ ~Removing)
              => InLine(netbox')
<1> DEFINE t == <<m>>
<1>1. netbox \in Seq(NetMsg) /\ t \in Seq(NetMsg) /\ netbox' = netbox \o t
  BY DEF TypeOK, NetTypes
<1>2. (\A M : Count(t, M) = One(m, M)) /\ ToSet(t) = {m}
  BY CountOne, SetOfFew
<1> HIDE DEF t
<1>3. \A M : Count(netbox', M) = Count(netbox, M) + One(m, M)
  BY <1>1, <1>2, Posting
<1>4. ToSet(netbox') = ToSet(netbox) \cup {m}
  BY <1>1, <1>2, Posting
<1>5. ASSUME NEW x \in Socket
      PROVE  /\ Count(netbox', AddsOf(x)) = Count(netbox, AddsOf(x)) + One(m, AddsOf(x))
             /\ Removals'[x] = Removals[x] + One(m, {RemoveStream(x)})
  BY <1>3 DEF Removals
<1>6. Removing' <=> Removing \/ m.what = "remove"
  BY <1>4 DEF Removing
<1>7. ASSUME InLine(netbox), m.what = "add" => m.stream.injected \/ ~Removing
      PROVE  InLine(netbox')
  <2> DEFINE n == Len(netbox)
  <2>1. n \in Nat /\ DOMAIN netbox = 1 .. n
    BY <1>1, LenProperties
  <2>2. /\ DOMAIN netbox' = 1 .. n + 1
        /\ \A i \in 1 .. n : netbox'[i] = netbox[i]
        /\ netbox'[n + 1] = m
    BY <1>1
  <2> HIDE DEF n
  <2> SUFFICES ASSUME NEW j \in DOMAIN netbox', NEW k \in DOMAIN netbox', j < k,
                      netbox'[j].what = "remove", netbox'[k].what = "add"
               PROVE  netbox'[k].stream.injected
    BY DEF InLine
  <2>3. j \in 1 .. n /\ netbox'[j] = netbox[j]
    BY <2>1, <2>2
  <2>4. CASE k \in 1 .. n
    BY <1>7, <2>1, <2>2, <2>3, <2>4 DEF InLine
  <2>5. CASE k = n + 1
    <3>1. netbox[j] \in ToSet(netbox)
      BY <2>1, <2>3, SetOf
    <3>2. Removing
      BY <2>3, <3>1 DEF Removing
    <3> QED
      BY <1>7, <2>2, <2>5, <3>2
  <2> QED
    BY <2>1, <2>2, <2>4, <2>5
<1> QED
  BY <1>4, <1>5, <1>6, <1>7

\* A handler that posts neither 'add' nor 'remove'.
LEMMA LineMoves ==
  ASSUME TypeOK, LineInv, streams' = streams,
         \/ netbox' = netbox
         \/ \E m \in NetMsg : /\ m.what \notin {"add", "remove"}
                              /\ netbox' = netbox \o <<m>>
  PROVE  (\A x \in Socket : Moves(x)) /\ InLine(netbox') /\ (Removing' => Removing)
<1>1. CASE netbox' = netbox
  BY <1>1 DEF Moves, Regs, Removals, LineInv, Removing
<1>2. ASSUME NEW m \in NetMsg, m.what \notin {"add", "remove"}, netbox' = netbox \o <<m>>
      PROVE  (\A x \in Socket : Moves(x)) /\ InLine(netbox') /\ (Removing' => Removing)
  <2>1. \A x : One(m, AddsOf(x)) = 0 /\ One(m, {RemoveStream(x)}) = 0
    BY <1>2 DEF One, AddsOf, RemoveStream
  <2>2. ASSUME NEW x \in Socket
        PROVE  /\ Count(netbox', AddsOf(x)) = Count(netbox, AddsOf(x))
               /\ Removals'[x] = Removals[x]
    <3>1. Count(netbox, AddsOf(x)) \in Nat /\ Removals[x] \in Nat
      BY RegTypes
    <3>2. /\ Count(netbox', AddsOf(x)) = Count(netbox, AddsOf(x)) + One(m, AddsOf(x))
          /\ Removals'[x] = Removals[x] + One(m, {RemoveStream(x)})
      BY <1>2, LineGrows
    <3> QED
      BY <2>1, <3>1, <3>2
  <2>3. \A x \in Socket : Moves(x)
    BY <2>2 DEF Moves, Regs
  <2> QED
    BY <1>2, <2>3, LineGrows DEF LineInv
<1> QED
  BY <1>1, <1>2

LEMMA BinyKeepsNet ==
  ASSUME TypeOK, StreamInv, LineInv, JoinInv, HandlerStep, crashed' = Alive,
         SessionAssumption, OnBiny
  PROVE  StreamInv' /\ LineInv' /\ JoinInv'
<1>1. /\ tracks' = tracks /\ streams' = streams /\ handler' = handler
      /\ mailbox # <<>> /\ Current \in Msg /\ Current \in Mail /\ Current.what = "biny"
  BY HandlerLeaves, CurrentIs DEF OnBiny, HandlerStep, sessionVars
<1>2. PICK m \in NetMsg : /\ m.what = "inject" /\ m.socket = Current.socket
                          /\ m.socket \in Socket /\ netbox' = netbox \o <<m>>
  <2>1. Current \in Binaries
    BY <1>1, MsgFields
  <2>2. Current.socket \in Socket /\ Current.packet \in Packet
    BY <2>1 DEF Binaries
  <2> QED
    BY <2>2, NetPosted DEF OnBiny, PostsToRTP, InjectPacket
<1>3. OwnStreams /\ Injectable(m.socket)
  BY <1>1, <1>2 DEF StreamInv, OwnStreams
<1>4. StillThere /\ OwnStreams' /\ Injectable(m.socket)'
  BY <1>1, <1>2, <1>3, RestingStreams DEF StillThere
<1>5. (\A x \in Socket : Moves(x)) /\ InLine(netbox') /\ (Removing' => Removing)
  BY <1>1, <1>2, LineMoves
<1>6. SameTracks
  BY <1>1 DEF SameTracks
<1>7. NoNews
  <2>1. ToSet(netbox') = ToSet(netbox) \cup {m}
    BY <1>2, LineGrows
  <2> QED
    BY <1>2, <1>4, <2>1, HandlersBringNone DEF NoNews
<1>8. Flying'["retry"] = Flying["retry"]
  BY CalmRetry
<1>9. Settings' = Settings
  <2>1. ~OnSetu /\ ~OnDesc
    BY <1>1 DEF OnSetu, OnDesc
  <2> QED
    BY <2>1, HandlerSettles
<1> QED
  BY <1>1, <1>4, <1>5, <1>6, <1>7, <1>8, <1>9, NetStays DEF JoinInv

\* Nothing came for 10 s: the next attempt interleaves, unless this one did.
LEMMA TiouRetries ==
  ASSUME TypeOK, HandlerStep, crashed' = Alive, OnTiou
  PROVE  \/ handler'.tryTCP = handler.tryTCP /\ Flying'["retry"] = Flying["retry"]
         \/ handler'.tryTCP /\ Flying'["retry"] = Flying["retry"] + 1
<1> DEFINE a == Abor(FALSE)
           b == Abor(TRUE)
<1>1. /\ a \in Msg /\ a.what # "play" /\ Kind(a) = "abort"
      /\ b \in Msg /\ b.what # "play" /\ Kind(b) = "retry"
  BY Posted, FormKinds DEF Abor
<1>2. mailbox # <<>> /\ pending' = pending /\ handler \in HandlerType
  BY HandlerLeaves DEF HandlerStep, TypeOK, SessionTypes
<1>3. Kind(Current) = "tiou"
  <2>1. Current = Tiou
    BY OnTiouPosts
  <2> QED
    BY <2>1, FormKinds
<1> HIDE DEF a, b
<1>4. \/ TakesNone /\ handler'.tryTCP = handler.tryTCP
      \/ Takes(b) /\ handler'.tryTCP
      \/ Takes(a) /\ handler' = handler
  <2>1. \/ TakesNone /\ handler'.tryTCP = handler.tryTCP
        \/ mailbox' = Handled \o <<b>> /\ handler'.tryTCP
        \/ mailbox' = Handled \o <<a>> /\ handler' = handler
    <3>1. /\ [handler EXCEPT !.tryFake = TRUE, !.gotRTCP = TRUE].tryTCP = handler.tryTCP
          /\ Interleaving(handler).tryTCP
      BY <1>2 DEF HandlerType, Interleaving
    <3> QED
      BY <3>1 DEF OnTiou, Posts, TakesNone, a, b
  <2> QED
    BY <1>1, <2>1 DEF Takes
<1>5. CASE TakesNone /\ handler'.tryTCP = handler.tryTCP
  <2>1. Drains("tiou")
    BY <1>2, <1>3, <1>5, HandledMoves
  <2> QED
    BY <1>5, <2>1, DealsAt DEF Kinds
<1>6. CASE Takes(b) /\ handler'.tryTCP
  <2>1. Deals("tiou", "retry")
    BY <1>1, <1>2, <1>3, <1>6, HandledMoves
  <2> QED
    BY <1>6, <2>1, DealsAt DEF Kinds
<1>7. CASE Takes(a) /\ handler' = handler
  <2>1. Deals("tiou", "abort")
    BY <1>1, <1>2, <1>3, <1>7, HandledMoves
  <2> QED
    BY <1>7, <2>1, DealsAt DEF Kinds
<1> QED
  BY <1>4, <1>5, <1>6, <1>7

LEMMA TiouKeepsNet ==
  ASSUME TypeOK, StreamInv, LineInv, JoinInv, HandlerStep, crashed' = Alive,
         SessionAssumption, OnTiou
  PROVE  StreamInv' /\ LineInv' /\ JoinInv'
<1>1. tracks' = tracks /\ streams' = streams /\ Current.what = "tiou"
  BY HandlerLeaves DEF OnTiou
<1>2. netbox' = netbox \/ netbox' = netbox \o <<FakeTimestamps>>
  BY DEF OnTiou, PostsToRTP
<1>3. FakeTimestamps \in NetMsg /\ FakeTimestamps.what = "fake"
  BY NetPosted DEF FakeTimestamps
<1>4. (\A x \in Socket : Moves(x)) /\ InLine(netbox') /\ (Removing' => Removing)
  BY <1>1, <1>2, <1>3, LineMoves
<1>5. StillThere /\ OwnStreams'
  BY <1>1, RestingStreams DEF StreamInv, OwnStreams
<1>6. SameTracks
  BY <1>1 DEF SameTracks
<1>7. NoNews
  <2>1. ToSet(netbox') \subseteq ToSet(netbox) \cup {FakeTimestamps}
    BY <1>2, <1>3, LineGrows
  <2> QED
    BY <1>3, <2>1, HandlersBringNone DEF NoNews
<1>8. Settings' = Settings
  <2>1. ~OnSetu /\ ~OnDesc
    BY <1>1 DEF OnSetu, OnDesc
  <2> QED
    BY <2>1, HandlerSettles
<1>9. /\ handler.tryTCP => handler'.tryTCP
      /\ handler'.tryTCP => Flying'["retry"] > 0 \/ PairsOf(tracks) = {}
      /\ Flying'["retry"] > 0 => handler'.tryTCP
  <2>1. Flying["retry"] \in Nat
    BY Numbers DEF Kinds
  <2>2. handler.tryTCP => handler'.tryTCP
    BY HandlerFields
  <2> QED
    BY <2>1, <2>2, TiouRetries DEF JoinInv
<1> QED
  BY <1>4, <1>5, <1>6, <1>7, <1>8, <1>9, NetStays

-----------------------------------------------------------------------------
(* Tracks are set up.                                                      *)

\* Each track of the list was joined.
Joined(list) ==
    \A k \in DOMAIN list :
       /\ list[k].index >= k
       /\ Udp(list[k].socket) => /\ list[k].socket = <<"udp", list[k].index>>
                                 /\ Regs'[list[k].socket] = 1
       /\ handler.tryTCP \/ Udp(list[k].socket)
\* What is to be removed stays; what is added has a track in the list.
Lines(list) ==
    /\ \A x \in Socket : Udp(x) => /\ Regs'[x] \in {0, 1} /\ Removals'[x] <= Regs'[x]
                                   /\ Removals'[x] = Removals[x]
                                   /\ Regs'[x] = 1 => Removals'[x] = 1 \/ x \in PairsOf(list)
    /\ InLine(netbox') /\ (Removing' => Removing)
    /\ Removing => handler.tryTCP
    /\ handler.tryTCP => PairsOf(list) = {}
\* A track is set up, behind those of the list.
Another(index, list) ==
    /\ \A i \in DOMAIN list : list[i].index < index
    /\ tracks' = Append(list, [index |-> index, firstSeg |-> 0, told |-> TRUE,
                               socket |-> SocketOf(index, list)])

LEMMA SocketOfIs ==
  ASSUME SessionAssumption, NEW list \in Seq(TrackType), NEW index \in 1 .. NumTracks,
         Joined(list), \A i \in DOMAIN list : list[i].index < index
  PROVE  /\ Len(list) + 1 <= index
         /\ SocketOf(index, list) \in Socket
         /\ handler.tryTCP => ~Udp(SocketOf(index, list))
         /\ ~handler.tryTCP => /\ Udp(SocketOf(index, list))
                               /\ SocketOf(index, list) = <<"udp", index>>
                               /\ SocketOf(index, list) \notin PairsOf(list)
<1>1. Len(list) \in Nat /\ DOMAIN list = 1 .. Len(list) /\ index \in Nat /\ NumTracks \in Nat
  BY LenProperties DEF SessionAssumption
<1>2. \A i \in DOMAIN list : list[i].index \in 1 .. NumTracks
  <2>1. \A i \in DOMAIN list : list[i] \in TrackType
    BY ElementOfSeq, LenProperties
  <2> QED
    BY <2>1 DEF TrackType
<1>3. Len(list) + 1 <= index
  <2>1. CASE Len(list) = 0
    BY <1>1, <2>1
  <2>2. CASE Len(list) # 0
    <3>1. Len(list) \in DOMAIN list
      BY <1>1, <2>2
    <3>2. list[Len(list)].index >= Len(list) /\ list[Len(list)].index < index
      BY <3>1 DEF Joined
    <3> QED
      BY <1>1, <1>2, <3>1, <3>2
  <2> QED
    BY <2>1, <2>2
<1>4. ASSUME handler.tryTCP
      PROVE  /\ SocketOf(index, list) \in Socket
             /\ ~Udp(SocketOf(index, list))
  <2>1. SocketOf(index, list) = <<"tcp", Len(list) + 1>>
    BY <1>4 DEF SocketOf
  <2>2. Len(list) + 1 \in 1 .. NumTracks
    BY <1>1, <1>3
  <2> QED
    BY <2>1, <2>2 DEF Socket, Udp
<1>5. ASSUME ~handler.tryTCP
      PROVE  /\ SocketOf(index, list) \in Socket
             /\ Udp(SocketOf(index, list))
             /\ SocketOf(index, list) = <<"udp", index>>
             /\ SocketOf(index, list) \notin PairsOf(list)
  <2>1. SocketOf(index, list) = <<"udp", index>>
    BY <1>5 DEF SocketOf
  <2>2. SocketOf(index, list) \in Socket /\ Udp(SocketOf(index, list))
    BY <1>1, <2>1 DEF Socket, Udp
  <2>3. ASSUME NEW i \in DOMAIN list, list[i].socket = <<"udp", index>>
        PROVE  FALSE
    <3>1. Udp(list[i].socket)
      BY <2>1, <2>2, <2>3
    <3>2. <<"udp", index>> = <<"udp", list[i].index>>
      BY <2>3, <3>1 DEF Joined
    <3>3. index = list[i].index
      BY <3>2
    <3> QED
      BY <1>1, <1>2, <3>3
  <2> QED
    BY <2>1, <2>2, <2>3 DEF PairsOf
<1> QED
  BY <1>3, <1>4, <1>5

\* Tracks set up so far, and another or none.
LEMMA TracksJoin ==
  ASSUME TypeOK, SessionAssumption, NEW list \in Seq(TrackType), Joined(list), Lines(list),
         handler'.tryTCP = handler.tryTCP, Flying'["retry"] = 0,
         \/ tracks' = list /\ Settings' = 0
         \/ Settings' = 1 /\ \E index \in 1 .. NumTracks : Another(index, list)
  PROVE  LineInv' /\ JoinInv'
<1>1. Len(list) \in Nat /\ DOMAIN list = 1 .. Len(list)
  BY LenProperties
<1>2. CASE tracks' = list /\ Settings' = 0
  <2>1. LineInv'
    BY <1>2 DEF Lines, LineInv, RegInv, Udp
  <2>2. ASSUME NEW k \in DOMAIN tracks'
        PROVE  /\ tracks'[k].index >= k
               /\ Joins(k)'
               /\ Udp(tracks'[k].socket) => tracks'[k].socket = <<"udp", tracks'[k].index>>
               /\ handler'.tryTCP \/ Udp(tracks'[k].socket)
    <3>1. k \in DOMAIN list /\ tracks'[k] = list[k]
      BY <1>2, <2>2
    <3>2. ~(Settings' > 0)
      BY <1>2
    <3> QED
      BY <3>1, <3>2 DEF Joined, Joins, Udp
  <2>3. PairsOf(tracks') = PairsOf(list)
    BY <1>2
  <2>4. JoinInv'
    BY <1>2, <2>2, <2>3 DEF JoinInv, Lines, Udp
  <2> QED
    BY <2>1, <2>4
<1>3. ASSUME Settings' = 1, NEW index \in 1 .. NumTracks, Another(index, list)
      PROVE  LineInv' /\ JoinInv'
  <2> DEFINE x == SocketOf(index, list)
             n == Len(list) + 1
  <2>1. PICK t : /\ t = [index |-> index, firstSeg |-> 0, told |-> TRUE, socket |-> x]
                 /\ tracks' = Append(list, t)
    BY <1>3 DEF Another
  <2>2. PICK s : s = x
    OBVIOUS
  <2>3. /\ n <= index /\ s \in Socket
        /\ handler.tryTCP => ~Udp(s)
        /\ ~handler.tryTCP => Udp(s) /\ s = <<"udp", index>> /\ s \notin PairsOf(list)
    BY <1>3, <2>2, SocketOfIs DEF Another
  <2>4. t.index = index /\ t.socket = s
    BY <2>1, <2>2
  <2>5. /\ n \in Nat /\ DOMAIN tracks' = 1 .. n /\ Len(tracks') = n
        /\ tracks'[n] = t
        /\ \A k \in 1 .. Len(list) : tracks'[k] = list[k]
    <3>1. n \in Nat /\ n = Len(list) + 1
      BY <1>1
    <3>2. t \in TrackType
      BY <2>1, <2>2, <2>3 DEF TrackType
    <3> HIDE DEF n, x
    <3>3. ASSUME NEW e \in TrackType
          PROVE  /\ Append(list, e) \in Seq(TrackType)
                 /\ Len(Append(list, e)) = Len(list) + 1
                 /\ DOMAIN Append(list, e) = 1 .. Len(list) + 1
                 /\ Append(list, e)[Len(list) + 1] = e
                 /\ \A k \in 1 .. Len(list) : Append(list, e)[k] = list[k]
      BY AppendProperties
    <3> QED
      BY <2>1, <3>1, <3>2, <3>3
  <2> HIDE DEF n, x
  <2>6. n = Len(list) + 1
    BY DEF n
  <2>7. /\ PairsOf(list) \subseteq PairsOf(tracks')
        /\ handler.tryTCP => PairsOf(tracks') = {}
    <3>1. PairsOf(list) \subseteq PairsOf(tracks')
      <4>1. \A k \in DOMAIN list : k \in DOMAIN tracks' /\ tracks'[k] = list[k]
        BY <1>1, <2>5, <2>6
      <4> QED
        BY <4>1 DEF PairsOf
    <3>2. ASSUME handler.tryTCP, NEW k \in DOMAIN tracks', Udp(tracks'[k].socket)
          PROVE  FALSE
      <4>1. CASE k = n
        BY <2>3, <2>4, <2>5, <3>2, <4>1
      <4>2. CASE k # n
        <5>1. k \in DOMAIN list /\ tracks'[k] = list[k]
          BY <1>1, <2>5, <2>6, <3>2, <4>2
        <5>2. list[k].socket \in PairsOf(list)
          BY <3>2, <5>1 DEF PairsOf, Udp
        <5> QED
          BY <3>2, <5>2 DEF Lines
      <4> QED
        BY <4>1, <4>2
    <3> QED
      BY <3>1, <3>2 DEF PairsOf, Udp
  <2>8. ~handler.tryTCP => Regs'[s] = 0
    <3> SUFFICES ASSUME ~handler.tryTCP
                 PROVE  Regs'[s] = 0
      OBVIOUS
    <3>1. Udp(s) /\ s \in Socket /\ s \notin PairsOf(list)
      BY <2>3
    <3>2. Removals[s] \in Nat /\ ~(Removals[s] > 0)
      BY <3>1, RegTypes, RegCounts DEF Lines
    <3> QED
      BY <3>1, <3>2 DEF Lines
  <2>9. LineInv'
    <3>1. ASSUME NEW y \in Socket, Udp(y)
          PROVE  RegInv(y)'
      BY <2>7, <3>1 DEF Lines, RegInv
    <3> QED
      BY <2>7, <3>1 DEF Lines, LineInv, Udp
  <2>10. ASSUME NEW k \in DOMAIN tracks'
         PROVE  /\ tracks'[k].index >= k
                /\ Joins(k)'
                /\ Udp(tracks'[k].socket) => tracks'[k].socket = <<"udp", tracks'[k].index>>
                /\ handler'.tryTCP \/ Udp(tracks'[k].socket)
    <3>1. CASE k = n
      <4>1. tracks'[k].index = index /\ tracks'[k].socket = s /\ index >= k
        BY <2>3, <2>4, <2>5, <3>1
      <4>2. k = Len(tracks') /\ Settings' > 0
        BY <1>3, <2>5, <3>1
      <4>3. Udp(s) => ~handler.tryTCP
        BY <2>3
      <4>4. Joins(k)'
        BY <2>8, <4>1, <4>2, <4>3 DEF Joins, Udp
      <4> QED
        BY <2>3, <4>1, <4>4
    <3>2. CASE k # n
      <4>1. k \in DOMAIN list /\ tracks'[k] = list[k] /\ k # Len(tracks')
        BY <1>1, <2>5, <2>6, <2>10, <3>2
      <4>2. Joins(k)'
        BY <4>1 DEF Joined, Joins, Udp
      <4> QED
        BY <4>1, <4>2 DEF Joined
    <3> QED
      BY <3>1, <3>2
  <2>11. JoinInv'
    BY <1>3, <2>7, <2>10 DEF JoinInv, Udp
  <2> QED
    BY <2>9, <2>11
<1> QED
  BY <1>2, <1>3

\* While a session is set up there is one SETUP at most, and no retry.
LEMMA SetupIsAlone ==
  ASSUME TypeOK, SeekInv, Fed \/ UnfedInv, crashed = Alive, mailbox # <<>>,
         Kind(Current) = "setup"
  PROVE  /\ Flying["retry"] = 0
         /\ \A m \in Rest \cup Due : ~SetsUp(m)
         /\ Settings = IF SetsUp(Current) THEN 1 ELSE 0
<1>1. Flying["setup"] >= 1
  <2>1. Current \in Around /\ Kind(Current) \in Kinds
    BY AroundIs, KindsAround
  <2> QED
    BY <2>1, KindsAround
<1>2. Flying["retry"] = 0
  <2>1. ~Fed
    <3>1. Flying["setup"] \in Nat
      BY Numbers DEF Kinds
    <3> QED
      BY <1>1, <3>1 DEF Fed, SettingUp
  <2> QED
    BY <1>1, <2>1, OnlyAttempt
<1>3. \A m \in Rest \cup Due : ~SetsUp(m)
  <2>1. \A m \in Rest \cup Due : Kind(m) \notin {"setup", "retry"}
    BY Undisturbed
  <2>2. Rest \cup Due \subseteq Msg
    BY AroundIs
  <2> QED
    BY <2>1, <2>2, SetUpKinds
<1> QED
  BY <1>2, <1>3, SettingsAre

\* Handlers that post no packet.
LEMMA HandlerStreams ==
  ASSUME TypeOK, StreamInv, HandlerStep, crashed' = Alive, SessionAssumption,
         \A m \in ToSet(netbox') : \/ m \in ToSet(netbox)
                                   \/ m.what # "inject" /\ Proper(m)
  PROVE  StreamInv'
<1>1. StillThere /\ OwnStreams'
  BY HandlerLeaves, RestingStreams DEF StreamInv, OwnStreams
<1>2. ASSUME NEW m \in ToSet(netbox')
      PROVE  Proper(m)'
  <2>1. CASE m \in ToSet(netbox)
    <3>1. Proper(m)
      BY <2>1 DEF StreamInv
    <3>2. m.what = "inject" => m.socket \in Socket
      <4>1. netbox \in Seq(NetMsg)
        BY DEF TypeOK, NetTypes
      <4>2. m \in NetMsg
        BY <2>1, <4>1, ElementOfSeq, LenProperties, SetOf
      <4> QED
        BY <4>2, NetFields
    <3> QED
      BY <1>1, <3>1, <3>2 DEF Proper, StillThere, Udp, Own
  <2>2. CASE m.what # "inject" /\ Proper(m)
    BY <2>2 DEF Proper, Udp, Own
  <2> QED
    BY <1>2, <2>1, <2>2
<1>3. ASSUME NEW m \in Mail', m.what = "biny"
      PROVE  Injectable(m.socket)'
  <2>1. m \in Mail
    BY <1>3, HandlersBringNone
  <2>2. m.socket \in Socket
    <3>1. m \in Msg
      BY <2>1, MailTypes DEF TypeOK
    <3>2. m \in Binaries
      BY <1>3, <3>1, MsgFields
    <3> QED
      BY <3>2 DEF Binaries
  <2> QED
    BY <1>1, <1>3, <2>1, <2>2 DEF StreamInv, StillThere
<1> QED
  BY <1>1, <1>2, <1>3 DEF StreamInv, OwnStreams

\* The first track.
LEMMA DescKeepsNet ==
  ASSUME TypeOK, SeekInv, Fed \/ UnfedInv, SetupInv, PlayInv, SeeInv,
         StreamInv, LineInv, JoinInv, HandlerStep, crashed = Alive, crashed' = Alive,
         SessionAssumption, OnDesc, Current.result = "ok"
  PROVE  StreamInv' /\ LineInv' /\ JoinInv'
<1>1. tracks = <<>> /\ Kind(Current) = "setup" /\ mailbox # <<>>
  BY HandlersAreDue DEF HandlerStep
<1>2. /\ tracks \in Seq(TrackType) /\ DOMAIN tracks = {} /\ 1 \in 1 .. NumTracks
      /\ PairsOf(tracks) = {}
  BY <1>1, PairsOfFew DEF TypeOK, SessionTypes, SessionAssumption
<1>3. /\ SetupTrack(1, tracks, source) /\ netbox' = netbox /\ handler' = handler
      /\ streams' = streams /\ pending' = pending
  BY HandlerLeaves DEF OnDesc
<1>4. ~SetsUp(Current) /\ Settings = 0 /\ Flying["retry"] = 0
  <2>1. Current.what = "desc"
    BY DEF OnDesc
  <2> QED
    BY <1>1, <2>1, SetUpKinds, SetupIsAlone
<1>5. Flying'["retry"] = 0
  <2>1. Deals("setup", "setup") \/ Deals("setup", "exit")
    BY SetupMoves
  <2> QED
    BY <1>4, <2>1, DealsAt DEF Kinds
<1>6. Joined(tracks)
  BY <1>2 DEF Joined
<1>7. Lines(tracks)
  <2>1. ASSUME NEW x \in Socket, Udp(x)
        PROVE  /\ Regs'[x] = Regs[x] /\ Removals'[x] = Removals[x]
               /\ Regs[x] \in {0, 1} /\ Removals[x] <= Regs[x]
               /\ Regs[x] = 1 => Removals[x] = 1 \/ x \in PairsOf(tracks)
    <3>1. OwnStreams
      BY DEF StreamInv, OwnStreams
    <3>2. Moves(x)
      BY <1>3, <2>1, <3>1, RestingStreams
    <3>3. RegInv(x) /\ Regs[x] \in Nat
      BY <2>1, RegTypes DEF LineInv
    <3>4. Regs[x] \in {0, 1} /\ Removals[x] <= Regs[x]
      BY <3>3 DEF RegInv
    <3> QED
      BY <3>2, <3>3, <3>4 DEF RegInv, Moves
  <2> QED
    BY <1>2, <1>3, <2>1 DEF Lines, LineInv, Removing, InLine
<1>8. \E x : /\ Takes(x)
             /\ \/ ~SetsUp(x) /\ tracks' = tracks
                \/ SetsUp(x) /\ Another(1, tracks)
  BY <1>2, <1>3, SetupJoins DEF Another
<1>9. \/ tracks' = tracks /\ Settings' = 0
      \/ Settings' = 1 /\ \E index \in 1 .. NumTracks : Another(index, tracks)
  BY <1>1, <1>2, <1>3, <1>4, <1>8, SettingsTake
<1>10. StreamInv'
  BY <1>3, HandlerStreams
<1>11. handler'.tryTCP = handler.tryTCP
  BY <1>3
<1> QED
  BY <1>2, <1>5, <1>6, <1>7, <1>9, <1>10, <1>11, TracksJoin

\* What is registered for a track whose SETUP is answered, or skipped.
SetupDone ==
    \/ Current.track = NoTrack /\ KeptTracks = tracks /\ netbox' = netbox
    \/ /\ tracks # <<>> /\ Current.track # NoTrack /\ KeptTracks = tracks
       /\ netbox' = netbox \o <<AddStream(tracks[Len(tracks)].socket, Len(tracks),
                                          handler.tryTCP)>>
    \/ /\ tracks # <<>> /\ Current.track # NoTrack
       /\ KeptTracks = RemoveAt(tracks, Len(tracks)) /\ netbox' = netbox

\* A SETUP is answered in a session that is set up.
SetuStep == /\ TypeOK /\ SeekInv /\ (Fed \/ UnfedInv)
            /\ SetupInv /\ PlayInv /\ SeeInv /\ SourceInv
            /\ StreamInv /\ LineInv /\ JoinInv
            /\ HandlerStep /\ crashed = Alive /\ crashed' = Alive /\ OnSetu

LEMMA SetuIs ==
  ASSUME SetuStep
  PROVE  /\ mailbox # <<>> /\ Current.what = "setu" /\ Kind(Current) = "setup"
         /\ Fits(Current, tracks) /\ ~TrackGone
         /\ Current \in Msg /\ Current.index \in 1 .. NumTracks
         /\ KeptTracks \in Seq(TrackType)
         /\ \A i \in DOMAIN KeptTracks : KeptTracks[i].index < Current.index + 1
         /\ SetsUp(Current) <=> Current.track # NoTrack
<1>0. /\ TypeOK /\ SeekInv /\ (Fed \/ UnfedInv)
      /\ SetupInv /\ PlayInv /\ SeeInv /\ SourceInv
      /\ StreamInv /\ LineInv /\ JoinInv
      /\ HandlerStep /\ crashed = Alive /\ crashed' = Alive /\ OnSetu
  BY DEF SetuStep
<1>1. mailbox # <<>> /\ Current.what = "setu"
  BY <1>0 DEF HandlerStep, OnSetu
<1>2. Kind(Current) = "setup" /\ Fits(Current, tracks) /\ Current \in Msg
  BY <1>0, HandlersAreDue
<1>3. ~TrackGone /\ \A i \in DOMAIN KeptTracks : KeptTracks[i].index < Current.index + 1
  BY <1>0, <1>1, <1>2, KeptServes
<1>4. KeptTracks \in Seq(TrackType) /\ Current.index \in 1 .. NumTracks
  BY <1>0, <1>1, <1>3, KeptTypes
<1>5. SetsUp(Current) <=> Current.track # NoTrack
  BY <1>0, <1>1, ContentIs DEF SetsUp
<1> QED
  BY <1>0, <1>1, <1>2, <1>3, <1>4, <1>5

LEMMA SetuLeaves ==
  ASSUME SetuStep, SessionAssumption
  PROVE  /\ Flying["retry"] = 0 /\ Flying'["retry"] = 0
         /\ handler'.tryTCP = handler.tryTCP /\ streams' = streams
         /\ handler.tryTCP => PairsOf(tracks) = {}
         /\ Settings = IF Current.track # NoTrack THEN 1 ELSE 0
         /\ SetupDone
<1>0. /\ TypeOK /\ SeekInv /\ (Fed \/ UnfedInv)
      /\ SetupInv /\ PlayInv /\ SeeInv /\ SourceInv
      /\ StreamInv /\ LineInv /\ JoinInv
      /\ HandlerStep /\ crashed = Alive /\ crashed' = Alive /\ OnSetu
  BY DEF SetuStep
<1>1. Flying["retry"] = 0 /\ Settings = IF Current.track # NoTrack THEN 1 ELSE 0
  BY <1>0, SetuIs, SetupIsAlone
<1>2. Flying'["retry"] = 0
  <2>1. Deals("setup", "setup") \/ Deals("setup", "exit")
    BY <1>0, SetupMoves
  <2> QED
    BY <1>0, <1>1, <2>1, DealsAt DEF Kinds
<1>3. handler'.tryTCP = handler.tryTCP
  <2>1. Current.what # "tiou"
    BY <1>0, SetuIs
  <2> QED
    BY <1>0, <2>1, HandlerFields DEF OnTiou
<1>4. streams' = streams
  BY <1>0, HandlerLeaves
<1>5. handler.tryTCP => PairsOf(tracks) = {}
  BY <1>0, <1>1 DEF JoinInv
<1>6. /\ IsSet => netbox' = netbox \o <<AddStream(tracks[Current.track].socket,
                                                 Current.track, handler.tryTCP)>>
                  /\ Current.track \in DOMAIN tracks
      /\ ~IsSet => netbox' = netbox
  <2>1. netbox \o <<>> = netbox
    BY <1>0, ConcatEmptySeq DEF TypeOK, NetTypes
  <2> QED
    BY <1>0, <2>1, SetuIs, OnSetuPosts
<1>7. Current.track # NoTrack => tracks # <<>> /\ Current.track = Len(tracks)
  BY <1>0, SetuIs DEF Fits
<1>8. Current.track = NoTrack => ~IsSet
  <2>1. Current.track = NoTrack => Current.result = "error"
    BY <1>0, SetuIs, MsgFields
  <2> QED
    BY <1>0, <2>1 DEF IsSet, Failed
<1>9. SetupDone
  BY <1>0, <1>6, <1>7, <1>8 DEF SetupDone, KeptTracks
<1> QED
  BY <1>0, <1>1, <1>2, <1>3, <1>4, <1>5, <1>9

\* The next track, or none.
LEMMA SetuJoins ==
  ASSUME SetuStep, SessionAssumption
  PROVE  \/ tracks' = KeptTracks /\ Settings' = 0
         \/ Settings' = 1 /\ \E index \in 1 .. NumTracks : Another(index, KeptTracks)
<1>0. /\ TypeOK /\ SeekInv /\ (Fed \/ UnfedInv)
      /\ SetupInv /\ PlayInv /\ SeeInv /\ SourceInv
      /\ StreamInv /\ LineInv /\ JoinInv
      /\ HandlerStep /\ crashed = Alive /\ crashed' = Alive /\ OnSetu
  BY DEF SetuStep
<1>1. /\ Settings = IF SetsUp(Current) THEN 1 ELSE 0
      /\ pending' = pending
  BY <1>0, SetuIs, SetuLeaves, HandlerLeaves
<1>2. \A x : Takes(x) => Settings' = IF SetsUp(x) THEN 1 ELSE 0
  BY <1>0, <1>1, SetuIs, SettingsTake
<1>3. \/ /\ Current.index < NumTracks
         /\ SetupTrack(Current.index + 1, KeptTracks, KeptSources)
      \/ /\ tracks' = KeptTracks
         /\ Takes(Ask(Reply("play"))) \/ Takes(Disconnect(Disc(FALSE)))
  BY <1>0, SetuIs, OnSetuPosts
<1>4. CASE /\ Current.index < NumTracks
           /\ SetupTrack(Current.index + 1, KeptTracks, KeptSources)
  <2> DEFINE n == Current.index + 1
  <2>1. n \in 1 .. NumTracks /\ \A i \in DOMAIN KeptTracks : KeptTracks[i].index < n
    BY <1>0, <1>4, SetuIs DEF SessionAssumption
  <2>2. SetupTrack(n, KeptTracks, KeptSources)
    BY <1>0, <1>4
  <2> HIDE DEF n
  <2>3. PICK x : /\ Takes(x)
                 /\ \/ ~SetsUp(x) /\ tracks' = KeptTracks
                    \/ /\ SetsUp(x)
                       /\ tracks' = Append(KeptTracks, [index |-> n, firstSeg |-> 0, told |-> TRUE,
                                               socket |-> SocketOf(n, KeptTracks)])
    BY <1>0, <2>1, <2>2, SetuIs, SetupJoins
  <2>4. CASE ~SetsUp(x) /\ tracks' = KeptTracks
    BY <1>0, <1>2, <2>3, <2>4
  <2>5. CASE SetsUp(x) /\ Another(n, KeptTracks)
    BY <1>0, <1>2, <2>1, <2>3, <2>5
  <2> QED
    BY <1>0, <2>1, <2>3, <2>4, <2>5 DEF Another
<1>5. CASE /\ tracks' = KeptTracks
           /\ Takes(Ask(Reply("play"))) \/ Takes(Disconnect(Disc(FALSE)))
  <2>1. ~SetsUp(Ask(Reply("play"))) /\ ~SetsUp(Disconnect(Disc(FALSE)))
    BY <1>0, SetsNothingUp
  <2> QED
    BY <1>0, <1>2, <1>5, <2>1
<1> QED
  BY <1>0, <1>3, <1>4, <1>5

\* Each track but the one whose SETUP is under way was joined.
LEMMA TracksAre ==
  ASSUME TypeOK, LineInv, JoinInv, SourceInv, NEW k \in DOMAIN tracks
  PROVE  /\ k \in 1 .. Len(tracks) /\ Len(tracks) \in Nat
         /\ tracks[k] \in TrackType /\ tracks[k].socket \in Socket
         /\ tracks[k].index >= k /\ (handler.tryTCP \/ Udp(tracks[k].socket))
         /\ Udp(tracks[k].socket) =>
              /\ tracks[k].socket = <<"udp", tracks[k].index>>
              /\ tracks[k].socket \in PairsOf(tracks)
              /\ Regs[tracks[k].socket] = IF k = Len(tracks) /\ Settings > 0 THEN 0 ELSE 1
         /\ \A j \in DOMAIN tracks : Udp(tracks[k].socket) /\ tracks[j].socket = tracks[k].socket
              => j = k
<1>1. tracks \in Seq(TrackType)
  BY DEF TypeOK, SessionTypes
<1>2. k \in 1 .. Len(tracks) /\ Len(tracks) \in Nat /\ DOMAIN tracks = 1 .. Len(tracks)
  BY <1>1, LenProperties
<1>3. \A j \in DOMAIN tracks : tracks[j] \in TrackType
  BY <1>1, <1>2, ElementOfSeq
<1>4. tracks[k].socket \in Socket /\ \A j \in DOMAIN tracks : tracks[j].index \in 1 .. NumTracks
  BY <1>3 DEF TrackType
<1>5. Udp(tracks[k].socket) => tracks[k].socket \in PairsOf(tracks)
  BY DEF PairsOf, Udp
<1>6. ASSUME NEW j \in DOMAIN tracks, Udp(tracks[k].socket),
             tracks[j].socket = tracks[k].socket
      PROVE  j = k
  <2>1. <<"udp", tracks[j].index>> = <<"udp", tracks[k].index>>
    BY <1>6 DEF JoinInv
  <2>2. tracks[j].index = tracks[k].index
    BY <2>1
  <2>3. ~(j < k) /\ ~(k < j)
    BY <1>2, <1>4, <1>6, <2>2 DEF SourceInv, Served
  <2> QED
    BY <1>2, <1>6, <2>3
<1> QED
  BY <1>2, <1>3, <1>4, <1>5, <1>6 DEF JoinInv, Joins

\* What a SETUP that succeeded adds.
AddOfLast == AddStream(tracks[Len(tracks)].socket, Len(tracks), handler.tryTCP)

LEMMA AddOfLastIs ==
  ASSUME SetuStep, SessionAssumption, tracks # <<>>
  PROVE  /\ Len(tracks) \in DOMAIN tracks
         /\ AddOfLast \in NetMsg /\ AddOfLast.what = "add" /\ Proper(AddOfLast)
         /\ AddOfLast.stream.injected = handler.tryTCP
         /\ \A x : One(AddOfLast, AddsOf(x)) = IF x = tracks[Len(tracks)].socket THEN 1 ELSE 0
         /\ \A x : One(AddOfLast, {RemoveStream(x)}) = 0
<1> DEFINE s == tracks[Len(tracks)].socket
<1>0. TypeOK /\ LineInv /\ JoinInv /\ SourceInv /\ handler \in HandlerType
  BY DEF SetuStep, TypeOK, SessionTypes
<1>1. Len(tracks) \in DOMAIN tracks /\ Len(tracks) \in Nat
  BY <1>0, EmptySeq, LenProperties DEF TypeOK, SessionTypes
<1>2. s \in Socket /\ (handler.tryTCP \/ Udp(s)) /\ (Udp(s) => s \in PairsOf(tracks))
  BY <1>0, <1>1, TracksAre
<1>3. handler.tryTCP => ~Udp(s)
  BY <1>2, SetuLeaves
<1>4. handler.tryTCP \in BOOLEAN
  BY <1>0 DEF HandlerType
<1> HIDE DEF s
<1>5. PICK m : m = AddStream(s, Len(tracks), handler.tryTCP)
  OBVIOUS
<1>6. m \in NetMsg
  BY <1>1, <1>2, <1>4, <1>5, NetPosted
<1>7. m.what = "add" /\ m.stream.injected = handler.tryTCP /\ m.stream.socket = s
  BY <1>5 DEF AddStream, Stream
<1>8. Proper(m)
  BY <1>2, <1>3, <1>4, <1>7 DEF Proper, Own
<1>9. \A x : One(m, AddsOf(x)) = IF x = s THEN 1 ELSE 0
  BY <1>6, <1>7 DEF One, AddsOf
<1>10. \A x : One(m, {RemoveStream(x)}) = 0
  BY <1>7 DEF One, RemoveStream
<1>11. m = AddOfLast
  BY <1>5 DEF AddOfLast, s
<1> QED
  BY <1>1, <1>6, <1>7, <1>8, <1>9, <1>10, <1>11 DEF s

\* After the answer each track that is left was joined.
LEMMA SetuRegs ==
  ASSUME SetuStep, SessionAssumption
  PROVE  /\ \A x \in Socket : Regs'[x] = IF /\ Current.track # NoTrack /\ KeptTracks = tracks
                                             /\ x = tracks[Len(tracks)].socket
                                          THEN Regs[x] + 1 ELSE Regs[x]
         /\ \A x \in Socket : Removals'[x] = Removals[x]
         /\ InLine(netbox') /\ (Removing' => Removing)
<1>0. TypeOK /\ LineInv /\ JoinInv /\ SourceInv /\ OwnStreams
  BY DEF SetuStep, StreamInv, OwnStreams
<1>1. streams' = streams /\ SetupDone
  BY SetuLeaves
<1>2. CASE netbox' = netbox /\ (Current.track = NoTrack \/ KeptTracks # tracks)
  <2>1. (\A x \in Socket : Moves(x)) /\ InLine(netbox') /\ (Removing' => Removing)
    BY <1>0, <1>1, <1>2, LineMoves
  <2> QED
    BY <1>2, <2>1 DEF Moves
<1>3. CASE /\ tracks # <<>> /\ Current.track # NoTrack /\ KeptTracks = tracks
           /\ netbox' = netbox \o <<AddOfLast>>
  <2>1. /\ AddOfLast \in NetMsg /\ AddOfLast.what = "add"
        /\ AddOfLast.stream.injected = handler.tryTCP
        /\ \A x : One(AddOfLast, AddsOf(x)) = IF x = tracks[Len(tracks)].socket THEN 1 ELSE 0
        /\ \A x : One(AddOfLast, {RemoveStream(x)}) = 0
    BY <1>3, AddOfLastIs
  <2>2. /\ \A x \in Socket :
             /\ Count(netbox', AddsOf(x)) = Count(netbox, AddsOf(x)) + One(AddOfLast, AddsOf(x))
             /\ Removals'[x] = Removals[x] + One(AddOfLast, {RemoveStream(x)})
        /\ Removing' <=> Removing \/ AddOfLast.what = "remove"
        /\ InLine(netbox) /\ (AddOfLast.what = "add" => AddOfLast.stream.injected \/ ~Removing)
             => InLine(netbox')
    BY <1>0, <1>3, <2>1, LineGrows
  <2>3. ASSUME NEW x \in Socket
        PROVE  /\ Regs'[x] = IF x = tracks[Len(tracks)].socket THEN Regs[x] + 1 ELSE Regs[x]
               /\ Removals'[x] = Removals[x]
    <3>1. /\ Count(streams, StreamsOf(x)) \in Nat /\ Count(netbox, AddsOf(x)) \in Nat
          /\ Regs[x] = Count(streams, StreamsOf(x)) + Count(netbox, AddsOf(x))
          /\ Removals[x] \in Nat
      BY <1>0, RegTypes
    <3>2. Regs'[x] = Count(streams', StreamsOf(x)) + Count(netbox', AddsOf(x))
      BY DEF Regs
    <3>3. /\ Count(streams', StreamsOf(x)) = Count(streams, StreamsOf(x))
          /\ Count(netbox', AddsOf(x)) = Count(netbox, AddsOf(x)) + One(AddOfLast, AddsOf(x))
          /\ Removals'[x] = Removals[x] + One(AddOfLast, {RemoveStream(x)})
      BY <1>1, <2>2
    <3>4. /\ One(AddOfLast, AddsOf(x)) = IF x = tracks[Len(tracks)].socket THEN 1 ELSE 0
          /\ One(AddOfLast, {RemoveStream(x)}) = 0
      BY <2>1
    <3>5. Removals'[x] = Removals[x]
      BY <3>1, <3>3, <3>4
    <3>6. CASE x = tracks[Len(tracks)].socket
      BY <3>1, <3>2, <3>3, <3>4, <3>5, <3>6
    <3>7. CASE x # tracks[Len(tracks)].socket
      BY <3>1, <3>2, <3>3, <3>4, <3>5, <3>7
    <3> QED
      BY <3>5, <3>6, <3>7
  <2>4. InLine(netbox') /\ (Removing' => Removing)
    BY <1>0, <2>1, <2>2 DEF LineInv
  <2> QED
    BY <1>3, <2>3, <2>4
<1>4. tracks # <<>> => RemoveAt(tracks, Len(tracks)) # tracks
  <2> SUFFICES ASSUME tracks # <<>>
               PROVE  RemoveAt(tracks, Len(tracks)) # tracks
    OBVIOUS
  <2>1. tracks \in Seq(TrackType)
    BY <1>0 DEF TypeOK, SessionTypes
  <2>2. DOMAIN RemoveAt(tracks, Len(tracks)) = 1 .. Len(tracks) - 1
    BY <2>1, RemoveLast
  <2>3. Len(tracks) \in Nat /\ Len(tracks) \in DOMAIN tracks
    BY <2>1, EmptySeq, LenProperties
  <2> QED
    BY <2>2, <2>3
<1> QED
  BY <1>1, <1>2, <1>3, <1>4 DEF SetupDone, AddOfLast

LEMMA SetuJoined ==
  ASSUME SetuStep, SessionAssumption
  PROVE  Joined(KeptTracks) /\ Lines(KeptTracks)
<1> DEFINE n == Len(tracks)
           whole == Current.track # NoTrack /\ KeptTracks = tracks
<1>0. TypeOK /\ LineInv /\ JoinInv /\ SourceInv /\ tracks \in Seq(TrackType)
  BY DEF SetuStep, TypeOK, SessionTypes
<1>1. /\ \A x \in Socket : Regs'[x] = IF whole /\ x = tracks[n].socket THEN Regs[x] + 1 ELSE Regs[x]
      /\ \A x \in Socket : Removals'[x] = Removals[x]
      /\ InLine(netbox') /\ (Removing' => Removing)
  BY SetuRegs
<1>2. /\ Settings = IF Current.track # NoTrack THEN 1 ELSE 0
      /\ handler.tryTCP => PairsOf(tracks) = {}
  BY SetuLeaves
<1>3. \/ KeptTracks = tracks
      \/ /\ tracks # <<>> /\ Current.track # NoTrack /\ KeptTracks # tracks
         /\ DOMAIN KeptTracks = 1 .. n - 1
         /\ \A i \in DOMAIN KeptTracks : i \in DOMAIN tracks /\ i < n /\ KeptTracks[i] = tracks[i]
  BY <1>0, SetuLeaves, RemoveLast DEF SetupDone
<1>4. n \in Nat /\ DOMAIN tracks = 1 .. n
  BY <1>0, LenProperties
<1>5. \A k \in DOMAIN KeptTracks : k \in DOMAIN tracks /\ KeptTracks[k] = tracks[k]
                                  /\ (KeptTracks = tracks \/ k < n)
  BY <1>3
<1>6. ASSUME NEW k \in DOMAIN tracks
      PROVE  /\ k \in 1 .. n /\ tracks[k].socket \in Socket
             /\ tracks[k].index >= k /\ (handler.tryTCP \/ Udp(tracks[k].socket))
             /\ Udp(tracks[k].socket) =>
                  /\ tracks[k].socket = <<"udp", tracks[k].index>>
                  /\ tracks[k].socket \in PairsOf(tracks)
                  /\ Regs[tracks[k].socket] = IF k = n /\ Current.track # NoTrack THEN 0 ELSE 1
             /\ \A j \in DOMAIN tracks :
                  Udp(tracks[k].socket) /\ tracks[j].socket = tracks[k].socket => j = k
  BY <1>0, <1>2, <1>6, TracksAre
<1> HIDE DEF n
<1>7. ASSUME NEW k \in DOMAIN KeptTracks, Udp(tracks[k].socket)
      PROVE  Regs'[tracks[k].socket] = 1
  <2>1. k \in DOMAIN tracks /\ (KeptTracks = tracks \/ k < n)
    BY <1>5, <1>7
  <2>2. CASE whole /\ k = n
    BY <1>1, <1>6, <1>7, <2>1, <2>2
  <2>3. CASE whole /\ k # n
    <3>1. n \in DOMAIN tracks
      BY <1>4, <1>6, <2>1
    <3>2. tracks[n].socket # tracks[k].socket
      BY <1>6, <1>7, <2>1, <2>3, <3>1
    <3> QED
      BY <1>1, <1>6, <1>7, <2>1, <2>3, <3>2
  <2>4. CASE ~whole
    BY <1>1, <1>4, <1>6, <1>7, <2>1, <2>4
  <2> QED
    BY <2>2, <2>3, <2>4
<1>8. Joined(KeptTracks)
  BY <1>5, <1>6, <1>7 DEF Joined
<1>9. PairsOf(KeptTracks) \subseteq PairsOf(tracks)
  BY <1>5 DEF PairsOf
<1>10. ASSUME NEW x \in Socket, Udp(x)
       PROVE  /\ Regs'[x] \in {0, 1} /\ Removals'[x] <= Regs'[x]
              /\ Removals'[x] = Removals[x]
              /\ Regs'[x] = 1 => Removals'[x] = 1 \/ x \in PairsOf(KeptTracks)
  <2>1. RegInv(x) /\ Regs[x] \in Nat /\ Removals[x] \in Nat
    BY <1>0, <1>10, RegTypes DEF LineInv
  <2>2. CASE whole /\ x = tracks[n].socket
    <3>1. tracks # <<>>
      BY SetuIs, <2>2 DEF Fits
    <3>2. n \in DOMAIN tracks
      BY <1>0, <3>1, EmptySeq, LenProperties DEF n
    <3>3. Regs[x] = 0 /\ x \in PairsOf(tracks)
      BY <1>6, <1>10, <2>2, <3>2
    <3> QED
      BY <1>1, <2>1, <2>2, <3>3 DEF RegInv
  <2>3. CASE ~(whole /\ x = tracks[n].socket)
    <3>1. Regs'[x] = Regs[x] /\ Removals'[x] = Removals[x]
      BY <1>1, <2>3
    <3>2. ASSUME Regs[x] = 1, x \in PairsOf(tracks)
          PROVE  x \in PairsOf(KeptTracks)
      <4>1. CASE KeptTracks = tracks
        BY <3>2, <4>1
      <4>2. CASE KeptTracks # tracks
        <5>1. PICK k \in DOMAIN tracks : tracks[k].socket = x
          BY <3>2 DEF PairsOf
        <5>2. k \in 1 .. n /\ k # n
          BY <1>3, <1>6, <1>10, <3>2, <4>2, <5>1
        <5>3. k \in DOMAIN KeptTracks /\ KeptTracks[k].socket = x
          BY <1>3, <1>4, <4>2, <5>1, <5>2
        <5> QED
          BY <1>10, <5>3 DEF PairsOf, Udp
      <4> QED
        BY <4>1, <4>2
    <3> QED
      BY <2>1, <3>1, <3>2 DEF RegInv
  <2> QED
    BY <2>2, <2>3
<1>11. Lines(KeptTracks)
  <2>1. (Removing => handler.tryTCP) /\ (handler.tryTCP => PairsOf(KeptTracks) = {})
    BY <1>0, <1>2, <1>9 DEF LineInv
  <2> QED
    BY <1>1, <1>10, <2>1 DEF Lines
<1> QED
  BY <1>8, <1>11

LEMMA SetuKeepsNet ==
  ASSUME SetuStep, SessionAssumption
  PROVE  StreamInv' /\ LineInv' /\ JoinInv'
<1>0. TypeOK /\ StreamInv /\ HandlerStep /\ crashed' = Alive
  BY DEF SetuStep
<1>1. \A m \in ToSet(netbox') : m \in ToSet(netbox) \/ (m.what # "inject" /\ Proper(m))
  <2>1. CASE netbox' = netbox
    BY <2>1
  <2>2. CASE tracks # <<>> /\ netbox' = netbox \o <<AddOfLast>>
    <3>1. AddOfLast \in NetMsg /\ AddOfLast.what = "add" /\ Proper(AddOfLast)
      BY <2>2, AddOfLastIs
    <3>2. ToSet(netbox') = ToSet(netbox) \cup {AddOfLast}
      BY <1>0, <2>2, <3>1, LineGrows
    <3> QED
      BY <3>1, <3>2
  <2> QED
    BY <2>1, <2>2, SetuLeaves DEF SetupDone, AddOfLast
<1>2. StreamInv'
  BY <1>0, <1>1, HandlerStreams
<1>3. LineInv' /\ JoinInv'
  BY <1>0, SetuIs, SetuLeaves, SetuJoins, SetuJoined, TracksJoin
<1> QED
  BY <1>2, <1>3

-----------------------------------------------------------------------------
(* A session is aborted.                                                   *)

\* Each pair of sockets that is closed is removed once.
LEMMA RemovedCounts ==
  ASSUME TypeOK, NEW x
  PROVE  /\ Count(StreamsRemoved, AddsOf(x)) = 0
         /\ Count(StreamsRemoved, {RemoveStream(x)}) = IF x \in PairsOf(tracks) THEN 1 ELSE 0
<1> DEFINE q == SetToSeq(PairsOf(tracks))
           r == StreamsRemoved
<1>1. r \in Seq(NetMsg) /\ DOMAIN r = DOMAIN q /\ \A i \in DOMAIN q : r[i] = RemoveStream(q[i])
  BY RemovedAre DEF StreamsRemoved
<1>2. /\ \A i \in DOMAIN q : q[i] \in PairsOf(tracks)
      /\ \A y \in PairsOf(tracks) : \E i \in DOMAIN q : y = q[i]
      /\ \A i, j \in DOMAIN q : q[i] = q[j] => i = j
  <2>1. ToSet(q) = PairsOf(tracks) /\ IsInjective(q)
    BY PairsInOrder
  <2> HIDE DEF q
  <2>2. \A i, j \in DOMAIN q : q[i] = q[j] => i = j
    BY <2>1 DEF IsInjective
  <2> QED
    BY <2>1, <2>2, SetOf
<1> HIDE DEF q, r
<1>3. \A y, z : RemoveStream(y) = RemoveStream(z) => y = z
  BY DEF RemoveStream
<1>4. Count(r, AddsOf(x)) = 0
  <2>1. \A i \in DOMAIN r : r[i] \notin AddsOf(x)
    BY <1>1 DEF RemoveStream, AddsOf
  <2> QED
    BY <1>1, <2>1, CountNone
<1>5. CASE x \in PairsOf(tracks)
  <2>1. PICK i \in DOMAIN q : q[i] = x
    BY <1>2, <1>5
  <2>2. Occurs(r, {RemoveStream(x)}) = {i}
    BY <1>1, <1>2, <1>3, <2>1 DEF Occurs
  <2>3. Count(r, {RemoveStream(x)}) = 1
    BY <2>2, FS_Singleton DEF Count
  <2> QED
    BY <1>4, <1>5, <2>3 DEF r
<1>6. CASE x \notin PairsOf(tracks)
  <2>1. \A i \in DOMAIN r : r[i] \notin {RemoveStream(x)}
    BY <1>1, <1>2, <1>3, <1>6
  <2>2. Count(r, {RemoveStream(x)}) = 0
    BY <1>1, <2>1, CountNone
  <2> QED
    BY <1>4, <1>6, <2>2 DEF r
<1> QED
  BY <1>5, <1>6

\* Only 'remove' is appended: no 'add' comes behind another message.
LEMMA RemovedInLine ==
  ASSUME TypeOK, InLine(netbox), netbox' = netbox \o StreamsRemoved
  PROVE  InLine(netbox')
<1> DEFINE r == StreamsRemoved
           n == Len(netbox)
<1>1. netbox \in Seq(NetMsg) /\ r \in Seq(NetMsg) /\ netbox' = netbox \o r
      /\ \A m \in ToSet(r) : m.what = "remove"
  BY RemovedAre DEF TypeOK, NetTypes, RemoveStream
<1> HIDE DEF r
<1>2. n \in Nat /\ DOMAIN netbox = 1 .. n /\ Len(r) \in Nat /\ DOMAIN r = 1 .. Len(r)
  BY <1>1, LenProperties
<1>3. /\ DOMAIN netbox' = 1 .. n + Len(r)
      /\ \A i \in 1 .. n + Len(r) : netbox'[i] = IF i <= n THEN netbox[i] ELSE r[i - n]
  <2>1. /\ netbox \o r \in Seq(NetMsg) /\ Len(netbox \o r) = Len(netbox) + Len(r)
        /\ \A i \in 1 .. Len(netbox) + Len(r) :
             (netbox \o r)[i] = IF i <= Len(netbox) THEN netbox[i] ELSE r[i - Len(netbox)]
    BY <1>1, ConcatProperties
  <2>2. DOMAIN (netbox \o r) = 1 .. Len(netbox \o r)
    BY <2>1, LenProperties
  <2> QED
    BY <1>1, <2>1, <2>2
<1> HIDE DEF n
<1> SUFFICES ASSUME NEW j \in DOMAIN netbox', NEW k \in DOMAIN netbox', j < k,
                    netbox'[j].what = "remove", netbox'[k].what = "add"
             PROVE  netbox'[k].stream.injected
  BY DEF InLine
<1>4. k <= n
  <2> SUFFICES ASSUME ~(k <= n)
               PROVE  FALSE
    OBVIOUS
  <2>1. k \in 1 .. n + Len(r) /\ k - n \in 1 .. Len(r)
    BY <1>2, <1>3
  <2>2. netbox'[k] = r[k - n]
    BY <1>3, <2>1
  <2>3. r[k - n] \in ToSet(r)
    BY <1>2, <2>1, SetOf
  <2>4. netbox'[k].what = "remove"
    BY <1>1, <2>2, <2>3
  <2> QED
    BY <2>4
<1>5. j \in DOMAIN netbox /\ k \in DOMAIN netbox /\ netbox'[j] = netbox[j] /\ netbox'[k] = netbox[k]
  <2>1. j \in 1 .. n + Len(r) /\ k \in 1 .. n + Len(r) /\ j <= n
    BY <1>2, <1>3, <1>4
  <2>2. j \in 1 .. n /\ k \in 1 .. n
    BY <1>2, <1>4, <2>1
  <2> QED
    BY <1>2, <1>3, <1>4, <2>1, <2>2
<1> QED
  BY <1>5 DEF InLine

\* A session is aborted.
AborStep == /\ TypeOK /\ SeekInv /\ (Fed \/ UnfedInv) /\ SourceInv
            /\ StreamInv /\ LineInv /\ JoinInv
            /\ HandlerStep /\ crashed = Alive /\ crashed' = Alive /\ OnAbor

LEMMA AborIs ==
  ASSUME AborStep, SessionAssumption
  PROVE  /\ tracks' = <<>> /\ netbox' = netbox \o StreamsRemoved /\ streams' = streams
         /\ handler.tryTCP /\ handler'.tryTCP
         /\ Settings = 0 /\ Settings' = 0
<1>0. /\ TypeOK /\ SeekInv /\ (Fed \/ UnfedInv) /\ SourceInv
      /\ StreamInv /\ LineInv /\ JoinInv
      /\ HandlerStep /\ crashed = Alive /\ crashed' = Alive /\ OnAbor
  BY DEF AborStep
<1>1. tracks' = <<>> /\ netbox' = netbox \o StreamsRemoved /\ streams' = streams
  BY <1>0, OnAborPosts, HandlerLeaves DEF Alive
<1>2. /\ mailbox # <<>> /\ Current \in Msg /\ Current.what = "abor"
      /\ Kind(Current) \in {"retry", "abort"} /\ Flying[Kind(Current)] >= 1
  <2> DEFINE a == Abor(FALSE)
             b == Abor(TRUE)
  <2>1. Kind(a) = "abort" /\ Kind(b) = "retry" /\ Current \in {a, b}
    BY <1>0, OnAborPosts, FormKinds
  <2> HIDE DEF a, b
  <2>2. mailbox # <<>> /\ Current.what = "abor"
    BY <1>0 DEF HandlerStep, OnAbor
  <2>3. Current \in Around /\ Current \in Msg
    BY <1>0, <2>2, AroundIs, CurrentIs
  <2> QED
    BY <1>0, <2>1, <2>2, <2>3, KindsAround
<1>3. handler.tryTCP
  <2>1. Flying["retry"] \in Nat /\ Flying["abort"] \in Nat
    BY <1>0, Numbers DEF Kinds
  <2>2. CASE Kind(Current) = "retry"
    BY <1>0, <1>2, <2>1, <2>2 DEF JoinInv
  <2>3. CASE Kind(Current) = "abort"
    <3>1. ~UnfedInv
      BY <1>2, <2>1, <2>3 DEF UnfedInv, Quiet
    <3> QED
      BY <1>0, <3>1 DEF Fed
  <2> QED
    BY <1>2, <2>2, <2>3
<1>4. handler'.tryTCP
  BY <1>0, <1>3, HandlerFields
<1>5. Settings = 0
  <2>1. \A m \in Rest \cup Due : Kind(m) \notin {"setup", "retry"}
    BY <1>0, <1>2, Undisturbed
  <2>2. Rest \cup Due \subseteq Msg /\ Around \subseteq Msg
    BY <1>0, <1>2, AroundIs
  <2>3. \A m \in Rest \cup Due : ~SetsUp(m)
    BY <2>1, <2>2, SetUpKinds
  <2>4. ~SetsUp(Current)
    BY <1>2, SetUpKinds
  <2> QED
    BY <1>0, <1>2, <2>3, <2>4, SettingsAre
<1>6. Settings' = 0
  <2>1. ~OnSetu /\ ~OnDesc
    BY <1>2 DEF OnSetu, OnDesc
  <2> QED
    BY <1>0, <1>5, <2>1, HandlerSettles
<1> QED
  BY <1>1, <1>3, <1>4, <1>5, <1>6

LEMMA AborRegs ==
  ASSUME AborStep, SessionAssumption, NEW x \in Socket
  PROVE  /\ Regs'[x] = Regs[x]
         /\ Removals'[x] = IF x \in PairsOf(tracks) THEN Removals[x] + 1 ELSE Removals[x]
         /\ x \in PairsOf(tracks) => Regs[x] = 1 /\ Removals[x] = 0
<1>0. TypeOK /\ LineInv /\ JoinInv /\ SourceInv
  BY DEF AborStep
<1>1. streams' = streams /\ netbox' = netbox \o StreamsRemoved /\ Settings = 0
  BY AborIs
<1>2. netbox \in Seq(NetMsg) /\ StreamsRemoved \in Seq(NetMsg)
  BY <1>0, RemovedAre DEF TypeOK, NetTypes
<1>3. \A M : Count(netbox', M) = Count(netbox, M) + Count(StreamsRemoved, M)
  BY <1>1, <1>2, Posting
<1>4. /\ Count(streams, StreamsOf(x)) \in Nat /\ Count(netbox, AddsOf(x)) \in Nat
      /\ Regs[x] = Count(streams, StreamsOf(x)) + Count(netbox, AddsOf(x))
      /\ Removals[x] = Count(netbox, {RemoveStream(x)})
      /\ Removals[x] \in Nat
  BY <1>0, RegTypes
<1>5. /\ Regs'[x] = Count(streams', StreamsOf(x)) + Count(netbox', AddsOf(x))
      /\ Removals'[x] = Count(netbox', {RemoveStream(x)})
  BY DEF Regs, Removals
<1>6. /\ Count(StreamsRemoved, AddsOf(x)) = 0
      /\ Count(StreamsRemoved, {RemoveStream(x)}) = IF x \in PairsOf(tracks) THEN 1 ELSE 0
  BY <1>0, RemovedCounts
<1>7. /\ Count(netbox', AddsOf(x)) = Count(netbox, AddsOf(x)) + Count(StreamsRemoved, AddsOf(x))
      /\ Removals'[x] = Removals[x] + Count(StreamsRemoved, {RemoveStream(x)})
  BY <1>3, <1>4, <1>5
<1>8. Regs'[x] = Regs[x]
  BY <1>1, <1>4, <1>5, <1>6, <1>7
<1>9. Removals'[x] = IF x \in PairsOf(tracks) THEN Removals[x] + 1 ELSE Removals[x]
  BY <1>4, <1>6, <1>7
<1>10. ASSUME x \in PairsOf(tracks)
       PROVE  Regs[x] = 1 /\ Removals[x] = 0
  <2>1. PICK k \in DOMAIN tracks : tracks[k].socket = x
    BY <1>10 DEF PairsOf
  <2>2. Udp(x)
    BY <1>10 DEF PairsOf, Udp
  <2>3. Regs[x] = 1
    BY <1>0, <1>1, <2>1, <2>2, TracksAre
  <2>4. ~Removing
    BY <1>0, <1>10 DEF LineInv
  <2>5. ~(Removals[x] > 0)
    BY <1>0, <2>4, RegCounts
  <2> QED
    BY <1>4, <2>3, <2>5
<1> QED
  BY <1>8, <1>9, <1>10

LEMMA AborKeepsNet ==
  ASSUME AborStep, SessionAssumption
  PROVE  StreamInv' /\ LineInv' /\ JoinInv'
<1>0. TypeOK /\ StreamInv /\ LineInv /\ HandlerStep /\ crashed' = Alive
  BY DEF AborStep
<1>1. /\ tracks' = <<>> /\ netbox' = netbox \o StreamsRemoved
      /\ handler'.tryTCP /\ Settings' = 0 /\ PairsOf(tracks') = {}
  BY AborIs, PairsOfFew
<1>2. ToSet(netbox') = ToSet(netbox) \cup {RemoveStream(x) : x \in PairsOf(tracks)}
  <2>1. ToSet(netbox') = ToSet(netbox) \cup ToSet(StreamsRemoved)
    BY <1>0, <1>1, RemovedAre, NetboxGrows
  <2> QED
    BY <1>0, <2>1, RemovedAre
<1>3. \A x \in PairsOf(tracks) : RemoveStream(x).what = "remove" /\ Proper(RemoveStream(x))
  BY DEF RemoveStream, Proper, PairsOf, Udp
<1>4. StreamInv'
  BY <1>0, <1>2, <1>3, HandlerStreams
<1>5. ASSUME NEW x \in Socket, Udp(x)
      PROVE  RegInv(x)'
  <2>1. /\ Regs'[x] = Regs[x]
        /\ Removals'[x] = IF x \in PairsOf(tracks) THEN Removals[x] + 1 ELSE Removals[x]
        /\ x \in PairsOf(tracks) => Regs[x] = 1 /\ Removals[x] = 0
    BY AborRegs
  <2>2. RegInv(x) /\ Regs[x] \in Nat /\ Removals[x] \in Nat
    BY <1>0, <1>5, RegTypes DEF LineInv
  <2> QED
    BY <2>1, <2>2 DEF RegInv
<1>6. LineInv'
  <2>1. InLine(netbox')
    BY <1>0, <1>1, RemovedInLine DEF LineInv
  <2> QED
    BY <1>1, <1>5, <2>1 DEF LineInv, Udp
<1>7. JoinInv'
  <2>1. DOMAIN tracks' = {}
    BY <1>1
  <2> QED
    BY <1>1, <2>1 DEF JoinInv
<1> QED
  BY <1>4, <1>6, <1>7

-----------------------------------------------------------------------------
(* The invariant.                                                          *)

LEMMA InitNet ==
  ASSUME Init
  PROVE  NetInv
<1>1. /\ netbox = <<>> /\ streams = <<>> /\ mailbox = <<>> /\ pending = <<>>
      /\ tracks = <<>> /\ handler.tryTCP = FALSE
  BY DEF Init, NetInit
<1>2. ToSet(netbox) = {} /\ Mail = {} /\ PairsOf(tracks) = {}
  BY <1>1, SetOfFew, PairsOfFew DEF Mail
<1>3. StreamInv
  BY <1>1, <1>2 DEF StreamInv
<1>4. ~Removing /\ InLine(netbox)
  BY <1>1, <1>2 DEF Removing, InLine
<1>5. \A x \in Socket : Regs[x] = 0 /\ Removals[x] = 0
  BY <1>1, CountEmpty DEF Regs, Removals
<1>6. LineInv
  BY <1>4, <1>5 DEF LineInv, RegInv
<1>7. Settings = 0 /\ Flying["retry"] = 0
  BY <1>1, CountEmpty DEF Settings, Flying, Total, Kinds
<1>8. JoinInv
  BY <1>1, <1>2, <1>7 DEF JoinInv
<1> QED
  BY <1>3, <1>6, <1>8 DEF NetInv

\* Every step keeps streams, line and tracks together.
LEMMA NetKept ==
  ASSUME TypeOK, TypeOK', SeekInv, FeedInv, FreshInv, NetInv, Next, SessionAssumption
  PROVE  NetInv'
<1> SUFFICES ASSUME crashed' = Alive
             PROVE  StreamInv' /\ LineInv' /\ JoinInv'
  BY DEF NetInv
<1>1. /\ crashed = Alive /\ (Fed \/ UnfedInv) /\ SourceInv
      /\ SetupInv /\ PlayInv /\ SeeInv
      /\ StreamInv /\ LineInv /\ JoinInv
  BY Steps DEF FeedInv, FreshInv, NetInv
<1>2. CASE AwayStep
  BY <1>1, <1>2, AwayKeepsNet
<1>3. CASE NetworkStep
  BY <1>1, <1>3, NetworkKeepsNet
<1>4. CASE HandlerStep
  <2>1. CASE CalmHandler
    BY <1>1, <1>4, <2>1, CalmKeepsNet
  <2>2. CASE OnDesc /\ Current.result = "ok"
    BY <1>1, <1>4, <2>2, DescKeepsNet
  <2>3. CASE OnSetu
    <3>1. SetuStep
      BY <1>1, <1>4, <2>3 DEF SetuStep
    <3> QED
      BY <3>1, SetuKeepsNet
  <2>4. CASE OnAbor
    <3>1. AborStep
      BY <1>1, <1>4, <2>4 DEF AborStep
    <3> QED
      BY <3>1, AborKeepsNet
  <2>5. CASE OnBiny
    BY <1>1, <1>4, <2>5, BinyKeepsNet
  <2>6. CASE OnTiou
    BY <1>1, <1>4, <2>6, TiouKeepsNet
  <2> QED
    BY <1>4, <2>1, <2>2, <2>3, <2>4, <2>5, <2>6 DEF HandlerStep, Handler, CalmHandler
<1> QED
  BY <1>2, <1>3, <1>4, Steps DEF AwayStep, FailStep

-----------------------------------------------------------------------------
(* The assertions.                                                         *)

\* A stream whose sockets are closed is still to be removed.
LEMMA PolledClosed ==
  ASSUME TypeOK, OpenInv, StreamInv, LineInv, ~(Polled \subseteq open)
  PROVE  \E i \in DOMAIN netbox : netbox[i].what = "remove"
<1>1. PICK i \in DOMAIN streams : ~streams[i].injected /\ streams[i].socket \notin PairsOf(tracks)
  BY DEF Polled, OpenInv
<1>2. PICK x : x = streams[i].socket
  OBVIOUS
<1>3. x \in Socket /\ Udp(x) /\ x \notin PairsOf(tracks) /\ Registered(x) # {}
  <2>1. streams[i] \in StreamType
    BY StreamsAre
  <2>2. x \in Socket
    BY <1>2, <2>1 DEF StreamType
  <2> QED
    BY <1>1, <1>2, <2>2 DEF StreamInv, Own, Registered
<1>4. Regs[x] = 1
  <2>1. /\ Count(streams, StreamsOf(x)) \in Nat /\ Count(netbox, AddsOf(x)) \in Nat
        /\ Regs[x] = Count(streams, StreamsOf(x)) + Count(netbox, AddsOf(x))
    BY <1>3, RegTypes
  <2>2. Count(streams, StreamsOf(x)) # 0
    BY <1>3, RegCounts
  <2>3. Regs[x] <= 1
    BY <1>3 DEF LineInv, RegInv
  <2> QED
    BY <2>1, <2>2, <2>3
<1>5. Removals[x] = 1
  BY <1>3, <1>4 DEF LineInv, RegInv
<1>6. Removing
  BY <1>3, <1>5, RegCounts
<1> QED
  BY <1>6, SetOf DEF Removing

\* What AssertionsHold says of the end of a process.
Asserted ==
    /\ crashed \in {Alive, "seeking twice", "seek not pending",
                    "polling a closed socket", "reading a track that is gone"}
                   \cup Outside
    /\ crashed = "seeking twice" => seekDone
    /\ crashed = "seek not pending" => tracks = <<>>
    /\ crashed = "polling a closed socket" =>
          \E i \in DOMAIN netbox : netbox[i].what = "remove"

\* A SETUP that succeeded has a track, and an access unit is there.
LEMMA FailsOutside ==
  ASSUME TypeOK, FailStep
  PROVE  crashed' \in Outside
<1>1. CASE PollFails \/ URLFails \/ PlayFails
  BY <1>1 DEF PollFails, URLFails, PlayFails, Outside
<1>2. CASE DescFails
  BY <1>2 DEF DescFails, TrackFails, Outside
<1>3. CASE mailbox # <<>> /\ SetuFails
  <2>1. Current \in Msg /\ Current.what = "setu"
    BY <1>3, CurrentIs DEF SetuFails
  <2>2. Current.track = NoTrack => Failed(Current)
    BY <2>1, MsgFields DEF Failed
  <2> QED
    BY <1>3, <2>2 DEF SetuFails, TrackFails, Outside
<1>4. CASE mailbox # <<>> /\ UnitMissing
  <2>1. Current \in Notices /\ Current.kind = "unit"
    BY <1>4, CurrentIs, MsgFields DEF UnitMissing
  <2>2. \E u \in Units : Current.unit = <<u>>
    BY <2>1 DEF Notices
  <2>3. Current.unit # Nothing
    BY <2>2 DEF Nothing
  <2> QED
    BY <1>4, <2>3 DEF UnitMissing
<1> QED
  BY <1>1, <1>2, <1>3, <1>4 DEF FailStep, CheckFails

LEMMA NetworkAsserts ==
  ASSUME TypeOK, OpenInv, StreamInv, LineInv, NetworkStep, crashed = Alive
  PROVE  Asserted'
<1>1. crashed' = crashed => Asserted'
  BY DEF Asserted, Alive
<1>2. CASE OnAddStream
  BY <1>1, <1>2 DEF OnAddStream
<1>3. CASE OnRemoveStream
  BY <1>1, <1>3, RemoveRuns DEF Runs
<1>4. CASE OnPollStreams
  <2>1. \/ crashed' = crashed
        \/ /\ ~(Polled \subseteq open)
           /\ crashed' = "polling a closed socket"
           /\ netbox' = netbox
    BY <1>4, PollReads
  <2>2. CASE /\ ~(Polled \subseteq open)
             /\ crashed' = "polling a closed socket"
             /\ netbox' = netbox
    BY <2>2, PolledClosed DEF Asserted
  <2> QED
    BY <1>1, <2>1, <2>2
<1>5. CASE OnInjectPacket
  <2>1. /\ Message.what = "inject"
        /\ Registered(Message.socket) = {} \/ crashed' = crashed
    BY <1>5, InjectReads
  <2>2. Message \in ToSet(netbox)
    BY NetboxTakes DEF NetworkStep
  <2>3. Registered(Message.socket) # {}
    BY <2>1, <2>2 DEF StreamInv, Proper, Injectable
  <2> QED
    BY <1>1, <2>1, <2>3
<1>6. CASE OnFakeTimestamps
  BY <1>1, <1>6 DEF OnFakeTimestamps
<1> QED
  BY <1>2, <1>3, <1>4, <1>5, <1>6 DEF NetworkStep

\* An access unit that comes first finds somebody to tell.
LEMMA FirstUnitTold ==
  ASSUME TypeOK, Fed \/ UnfedInv, HandlerStep, OnAccessUnit, Wanted(Current),
         handler.firstUnit
  PROVE  handler.doneMsg = "cdon"
<1>1. Current \in Notices /\ mailbox # <<>>
  BY OnAccessUnitPosts DEF HandlerStep
<1>2. tracks # <<>>
  BY DEF Wanted
<1>3. Flying["media"] >= 1 /\ Flying["media"] \in Nat
  <2>1. Current \in Around /\ Kind(Current) = "media"
    BY <1>1, AroundIs, FormKinds
  <2> QED
    BY <2>1, KindsAround, Numbers
<1>4. ~UnfedInv
  BY <1>3 DEF UnfedInv, Quiet
<1> QED
  BY <1>2, <1>4 DEF Fed, Lost, Over

LEMMA HandlerAsserts ==
  ASSUME TypeOK, SeekInv, Fed \/ UnfedInv, SourceInv, SetupInv, PlayInv, SeeInv,
         HandlerStep, crashed = Alive, SessionAssumption
  PROVE  Asserted'
<1>1. crashed' = crashed => Asserted'
  BY DEF Asserted, Alive
<1>2. CASE \/ OnConn \/ OnDisc \/ OnDesc \/ OnPlay \/ OnTear \/ OnQuit \/ OnChek
           \/ OnFirstPacket \/ OnSeek \/ OnSee1 \/ OnBiny \/ OnTiou
  <2>1. crashed' = crashed
    BY <1>2 DEF OnConn, OnDisc, OnDesc, OnPlay, OnTear, OnQuit, OnChek, OnFirstPacket,
                OnSeek, OnSee1, OnBiny, OnTiou, Posts, SetupTrack
  <2> QED
    BY <1>1, <2>1
<1>3. CASE OnSetu
  <2>1. mailbox # <<>> /\ Current.what = "setu" /\ Fits(Current, tracks)
    BY <1>3, HandlersAreDue DEF HandlerStep, OnSetu
  <2>2. ~TrackGone
    BY <2>1, KeptServes
  <2>3. crashed' = crashed
    BY <1>3, <2>2, OnSetuPosts
  <2> QED
    BY <1>1, <2>3
<1>4. CASE OnAbor
  <2>1. crashed' = crashed \/ crashed' = "reading a track that is gone"
    BY <1>4, OnAborPosts
  <2> QED
    BY <1>1, <2>1 DEF Asserted
<1>5. CASE OnAccessUnit
  <2>1. crashed' = crashed
    <3>1. crashed' = crashed \/ (Wanted(Current) /\ handler.firstUnit /\ handler.doneMsg = None)
      BY <1>5, OnAccessUnitPosts DEF OnAccessUnit, Posts
    <3> QED
      BY <1>5, <3>1, FirstUnitTold DEF None
  <2> QED
    BY <1>1, <2>1
<1>6. CASE OnSee2
  <2>1. Current \in Around /\ IsSee(Current)
    BY <1>6, HandlersAreDue
  <2>2. handler.seekPending \/ tracks = <<>>
    BY <2>1 DEF SeeInv, NoSee
  <2>3. \/ crashed' = crashed
        \/ ~handler.seekPending /\ crashed' = "seek not pending" /\ tracks' = tracks
    BY <1>6, OnSee2Posts DEF sessionVars
  <2> QED
    BY <1>1, <2>2, <2>3 DEF Asserted
<1> QED
  BY <1>2, <1>3, <1>4, <1>5, <1>6 DEF HandlerStep, Handler

LEMMA AssertedKept ==
  ASSUME TypeOK, SeekInv, FeedInv, FreshInv, OpenInv, NetInv, Next, SessionAssumption
  PROVE  Asserted'
<1>1. /\ crashed = Alive /\ (Fed \/ UnfedInv) /\ SourceInv
      /\ SetupInv /\ PlayInv /\ SeeInv /\ StreamInv /\ LineInv
  BY Steps DEF FeedInv, FreshInv, NetInv
<1>2. crashed' = crashed => Asserted'
  BY <1>1 DEF Asserted, Alive
<1>3. CASE HandlerStep
  BY <1>1, <1>3, HandlerAsserts
<1>4. CASE NetworkStep
  BY <1>1, <1>4, NetworkAsserts
<1>5. CASE SeekStep
  <2>1. \/ crashed' = crashed
        \/ seekDone /\ crashed' = "seeking twice" /\ seekDone' = seekDone
    BY <1>5 DEF SeekStep, Seek, Dies
  <2>2. CASE seekDone /\ crashed' = "seeking twice" /\ seekDone' = seekDone
    <3>1. seekDone'
      BY <2>2
    <3> QED
      BY <2>2, <3>1 DEF Asserted
  <2> QED
    BY <1>2, <2>1, <2>2
<1>6. CASE ConnectionStep \/ ControllerStep \/ ServerStep \/ WaitStep
           \/ \E m \in timers : Expires(m)
  <2>1. crashed' = crashed
    BY <1>6 DEF ConnectionStep, ConnectionFrame, ControllerStep, ControllerFrame, Posts,
                ServerStep, ServerAnswers, ConnectionLost, ServerSendsInterleaved,
                WaitStep, WaitFrame, Expires
  <2> QED
    BY <1>2, <2>1
<1>7. CASE FailStep
  <2>1. crashed' \in Outside
    BY <1>7, FailsOutside
  <2> QED
    BY <2>1 DEF Asserted, Outside
<1> QED
  BY <1>3, <1>4, <1>5, <1>6, <1>7, Steps

-----------------------------------------------------------------------------
(* How connect() and disconnect() end.                                     *)

EndInv == /\ player \notin {"new", "connecting"} => state # "connecting"
          /\ player \in {"refused", "gone"} => state = "disconnected"

\* Only the controller's messages and prepare() change its state.
LEMMA PlayerMoves ==
  ASSUME TypeOK, Next
  PROVE  /\ \/ player' = player /\ state' \in {state, "connected", "disconnected"}
            \/ WaitStep
         /\ WaitStep => \/ Prepare /\ player' = "connecting"
                        \/ ConnectReturns /\ state' = state
                        \/ DisconnectReturns /\ state' = state
                        \/ /\ state' = state /\ player' \notin {"refused", "gone"}
                           /\ player \notin {"new", "connecting"}
<1> DEFINE moves == player' = player /\ state' \in {state, "connected", "disconnected"}
<1>1. ControllerStep => moves
  BY DEF ControllerStep, LooperFrame, OnConnectDone, OnDisconnectDone, OnSeekDone
<1>2. ConnectionStep \/ NetworkStep \/ ServerStep \/ FailStep
      \/ (\E m \in timers : Expires(m)) => moves
  BY DEF ConnectionStep, ConnectionFrame, NetworkStep, NetFrame, ServerStep,
         ServerFrame, FailStep, Expires, playerVars
<1>3. HandlerStep => moves
  BY HandlerLeaves
<1>4. SeekStep => moves
  BY DEF SeekStep, Seek, Dies
<1>5. WaitStep => \/ Prepare /\ player' = "connecting"
                  \/ ConnectReturns /\ state' = state
                  \/ DisconnectReturns /\ state' = state
                  \/ /\ state' = state /\ player' \notin {"refused", "gone"}
                     /\ player \notin {"new", "connecting"}
  BY DEF WaitStep, Prepare, ConnectReturns, DisconnectReturns, BufferingUpdate, Play,
         Decode, StreamDone, Reset, playerVars
<1> QED
  BY <1>1, <1>2, <1>3, <1>4, <1>5, Steps

\* What connect() returns.
LEMMA ConnectEnds ==
  ASSUME TypeOK, ConnectReturns
  PROVE  /\ player = "connecting" /\ state # "connecting" /\ player' # "gone"
         /\ player' = "refused" <=> state = "disconnected"
         /\ tracks' = tracks /\ handler' = handler /\ state' = state
<1>1. /\ state \in {"disconnected", "connecting", "connected"}
      /\ player = "connecting" /\ state # "connecting"
      /\ tracks' = tracks /\ handler' = handler /\ state' = state
      /\ player' = CASE state = "disconnected" -> "refused"
                     [] state = "connected" /\ tracks = <<>> -> "failed"
                     [] OTHER -> "preparing"
  BY DEF ConnectReturns, TypeOK, PlayerTypes, sessionVars
<1>2. CASE state = "disconnected"
  BY <1>1, <1>2
<1>3. CASE state = "connected" /\ tracks = <<>>
  BY <1>1, <1>3
<1>4. CASE state = "connected" /\ tracks # <<>>
  BY <1>1, <1>4
<1> QED
  BY <1>1, <1>2, <1>3, <1>4

LEMMA EndKept ==
  ASSUME TypeOK, EndInv, Next
  PROVE  EndInv'
<1>1. player \notin {"refused", "gone"}
  BY Steps
<1>2. state \in {"disconnected", "connecting", "connected"}
  BY DEF TypeOK, PlayerTypes
<1>3. CASE player' = player /\ state' \in {state, "connected", "disconnected"}
  BY <1>1, <1>3 DEF EndInv
<1>5. CASE Prepare /\ player' = "connecting"
  BY <1>5 DEF EndInv
<1>6. CASE ConnectReturns
  <2>1. /\ state # "connecting" /\ player' # "gone" /\ state' = state
        /\ player' = "refused" <=> state = "disconnected"
    BY <1>6, ConnectEnds
  <2> QED
    BY <2>1 DEF EndInv
<1>7. CASE DisconnectReturns /\ state' = state
  <2>1. player = "disconnecting" /\ state # "connected"
    BY <1>7 DEF DisconnectReturns
  <2> QED
    BY <1>2, <1>7, <2>1 DEF EndInv
<1>8. CASE /\ state' = state /\ player' \notin {"refused", "gone"}
           /\ player \notin {"new", "connecting"}
  BY <1>8 DEF EndInv
<1> QED
  BY <1>3, <1>5, <1>6, <1>7, <1>8, PlayerMoves

\* As long as no SETUP was accepted there is no track but the one whose SETUP is
\* under way.
LeakInv == crashed = Alive /\ tracks # <<>> /\ ~handler.setupOK =>
              Len(tracks) = 1 /\ Settings = 1

LEMMA FirstTrack ==
  ASSUME NEW index, NEW list, list = <<>>, Another(index, list)
  PROVE  Len(tracks') = 1
BY DEF Another

LEMMA SetuLeaks ==
  ASSUME SetuStep, SessionAssumption, LeakInv
  PROVE  LeakInv'
<1>0. /\ TypeOK /\ HandlerStep /\ crashed = Alive /\ OnSetu
      /\ handler \in HandlerType /\ tracks \in Seq(TrackType)
  BY DEF SetuStep, TypeOK, SessionTypes
<1> SUFFICES ASSUME tracks' # <<>>, ~handler'.setupOK
             PROVE  Len(tracks') = 1 /\ Settings' = 1
  BY DEF LeakInv
<1>1. handler' = [handler EXCEPT !.setupOK = SetupReady]
  BY <1>0, SetuIs, OnSetuPosts
<1>2. ~SetupReady
  BY <1>0, <1>1 DEF HandlerType
<1>3. tracks # <<>> => Len(tracks) = 1 /\ Current.track # NoTrack
  <2>1. Settings = IF Current.track # NoTrack THEN 1 ELSE 0
    BY SetuLeaves
  <2> QED
    BY <1>0, <1>2, <2>1 DEF LeakInv, SetupReady
<1>4. KeptTracks = <<>>
  <2>1. CASE tracks = <<>>
    BY <2>1, SetuLeaves DEF SetupDone
  <2>2. CASE tracks # <<>>
    <3>1. Len(tracks) = 1 /\ Current.track # NoTrack /\ ~IsSet
      BY <1>2, <1>3, <2>2 DEF SetupReady
    <3>2. Current.track = Len(tracks)
      BY <3>1, SetuIs DEF Fits
    <3>3. KeptTracks = RemoveAt(tracks, Len(tracks))
      BY <3>1, <3>2 DEF KeptTracks
    <3>4. DOMAIN KeptTracks = 1 .. Len(tracks) - 1
      BY <1>0, <2>2, <3>3, RemoveLast
    <3>5. DOMAIN KeptTracks = {}
      BY <3>1, <3>4
    <3>6. KeptTracks \in Seq(TrackType)
      BY SetuIs
    <3> QED
      BY <3>5, <3>6, EmptySeq
  <2> QED
    BY <2>1, <2>2
<1>5. Settings' = 1 /\ \E index \in 1 .. NumTracks : Another(index, KeptTracks)
  BY <1>4, SetuJoins
<1> QED
  BY <1>4, <1>5, FirstTrack

LEMMA DescLeaks ==
  ASSUME TypeOK, SeekInv, Fed \/ UnfedInv, SetupInv, PlayInv, SeeInv, HandlerStep,
         crashed = Alive, SessionAssumption, OnDesc, Current.result = "ok"
  PROVE  LeakInv'
<1>1. tracks = <<>> /\ Kind(Current) = "setup" /\ mailbox # <<>>
  BY HandlersAreDue DEF HandlerStep
<1>2. tracks \in Seq(TrackType) /\ DOMAIN tracks = {} /\ 1 \in 1 .. NumTracks
  BY <1>1 DEF TypeOK, SessionTypes, SessionAssumption
<1>3. SetupTrack(1, tracks, source) /\ pending' = pending
  BY HandlerLeaves DEF OnDesc
<1>4. ~SetsUp(Current) /\ Settings = 0
  <2>1. Current.what = "desc"
    BY DEF OnDesc
  <2> QED
    BY <1>1, <2>1, SetUpKinds, SetupIsAlone
<1>5. \E x : /\ Takes(x)
             /\ \/ ~SetsUp(x) /\ tracks' = tracks
                \/ SetsUp(x) /\ Another(1, tracks)
  BY <1>2, <1>3, SetupJoins DEF Another
<1>6. tracks' = <<>> \/ (Settings' = 1 /\ Another(1, tracks))
  BY <1>1, <1>3, <1>4, <1>5, SettingsTake
<1> QED
  BY <1>1, <1>6, FirstTrack DEF LeakInv

LEMMA HandlersLeak ==
  ASSUME TypeOK, TypeOK', LeakInv, HandlerStep, crashed = Alive, crashed' = Alive,
         SessionAssumption, ~OnSetu, ~OnAbor, OnDesc => Current.result # "ok"
  PROVE  LeakInv'
<1>1. handler \in HandlerType /\ tracks \in Seq(TrackType)
  BY DEF TypeOK, SessionTypes
<1>2. Settings' = Settings
  BY HandlerSettles
<1>3. SameTracks
  <2>1. CASE OnBiny \/ OnTiou
    BY <2>1 DEF OnBiny, OnTiou, sessionVars, SameTracks
  <2>2. CASE CalmHandler
    BY <2>2, CalmLeaves
  <2> QED
    BY <2>1, <2>2 DEF HandlerStep, Handler, CalmHandler
<1>4. handler'.setupOK = handler.setupOK
  <2>1. CASE OnConn \/ OnDisc \/ OnTear \/ OnBiny \/ OnSee1 \/ OnDesc
    BY <2>1 DEF OnConn, OnDisc, OnTear, OnBiny, OnSee1, OnDesc, sessionVars
  <2>2. CASE OnQuit \/ OnChek \/ OnFirstPacket
    BY <1>1, <2>2 DEF OnQuit, OnChek, OnFirstPacket, HandlerType
  <2>3. CASE OnSeek \/ OnTiou \/ OnPlay
    BY <1>1, <2>3 DEF OnSeek, OnTiou, OnPlay, Interleaving, HandlerType
  <2>4. CASE OnAccessUnit
    BY <1>1, <2>4 DEF OnAccessUnit, Queue, CheckPosted, Dies, sessionVars, HandlerType
  <2>5. CASE OnSee2
    BY <1>1, <2>5 DEF OnSee2, HandlerAfterSeek, CheckPosted, Dies, sessionVars, HandlerType
  <2> QED
    BY <2>1, <2>2, <2>3, <2>4, <2>5 DEF HandlerStep, Handler
<1>5. tracks' # <<>> => tracks # <<>>
  <2>1. tracks' # <<>> => DOMAIN tracks' # {}
    <3>1. tracks' \in Seq(TrackType)
      BY DEF TypeOK, SessionTypes
    <3> QED
      <4>1. /\ DOMAIN tracks' = 1 .. Len(tracks') /\ Len(tracks') \in Nat
            /\ tracks' # <<>> => Len(tracks') \in Nat \ {0}
        BY <3>1, LenProperties, EmptySeq
      <4>2. tracks' # <<>> => 1 \in DOMAIN tracks'
        BY <4>1
      <4> QED
        BY <4>2
  <2>2. tracks = <<>> => DOMAIN tracks = {}
    BY <1>1, LenProperties, EmptySeq
  <2> QED
    BY <1>3, <2>1, <2>2 DEF SameTracks
<1> QED
  BY <1>2, <1>3, <1>4, <1>5 DEF LeakInv, SameTracks

LEMMA LeakKept ==
  ASSUME TypeOK, TypeOK', SeekInv, FeedInv, FreshInv, NetInv, LeakInv, Next,
         SessionAssumption
  PROVE  LeakInv'
<1> SUFFICES ASSUME crashed' = Alive PROVE LeakInv'
  BY DEF LeakInv
<1>1. /\ crashed = Alive /\ (Fed \/ UnfedInv) /\ SourceInv
      /\ SetupInv /\ PlayInv /\ SeeInv
      /\ StreamInv /\ LineInv /\ JoinInv
  BY Steps DEF FeedInv, FreshInv, NetInv
<1>2. CASE OtherStep
  <2>1. Settings' = Settings
    BY <1>2, OthersSettle
  <2>2. tracks' = tracks
    BY <1>1, <1>2, OtherSources DEF OtherStep
  <2>3. handler'.setupOK = handler.setupOK
    <3>1. handler \in HandlerType
      BY DEF TypeOK, SessionTypes
    <3>2. handler' = handler \/ \E d : handler' = [handler EXCEPT !.doneMsg = d]
      BY <1>2 DEF OtherStep, ConnectionStep, ConnectionFrame, ControllerStep,
         ControllerFrame, NetworkStep, NetFrame, ServerStep, ServerFrame, SeekStep, Seek,
         Dies, WaitStep, Prepare, ConnectReturns, BufferingUpdate, DisconnectReturns,
         Play, Decode, StreamDone, Reset, Expires, sessionVars
    <3> QED
      BY <3>1, <3>2 DEF HandlerType
  <2> QED
    BY <1>1, <2>1, <2>2, <2>3 DEF LeakInv
<1>3. CASE HandlerStep
  <2>1. CASE OnSetu
    BY <1>1, <1>3, <2>1, SetuLeaks DEF SetuStep
  <2>2. CASE OnDesc /\ Current.result = "ok"
    BY <1>1, <1>3, <2>2, DescLeaks
  <2>3. CASE OnAbor
    <3>1. tracks' = <<>>
      BY <1>1, <1>3, <2>3, OnAborPosts DEF Alive
    <3> QED
      BY <3>1 DEF LeakInv
  <2>4. CASE ~OnSetu /\ ~OnAbor /\ (OnDesc => Current.result # "ok")
    BY <1>1, <1>3, <2>4, HandlersLeak
  <2> QED
    BY <2>1, <2>2, <2>3, <2>4
<1> QED
  BY <1>2, <1>3, Steps DEF OtherStep, FailStep

\* A connect() that fails while a SETUP is under way would be told of it twice.
RefusedInv == player = "refused" => tracks = <<>> \/ handler.setupOK

LEMMA RefusedKept ==
  ASSUME TypeOK, FeedInv, LeakInv, Next
  PROVE  RefusedInv'
<1> SUFFICES ASSUME player' = "refused" PROVE tracks' = <<>> \/ handler'.setupOK
  BY DEF RefusedInv
<1>1. /\ crashed = Alive /\ (Fed \/ UnfedInv) /\ PlayerInv
      /\ player \notin {"refused", "gone"}
  BY Steps DEF FeedInv
<1>2. ConnectReturns
  <2>1. DisconnectReturns => player' = "gone"
    BY DEF DisconnectReturns
  <2> QED
    BY <1>1, <2>1, PlayerMoves
<1>3. /\ player = "connecting" /\ state # "connecting"
      /\ tracks' = tracks /\ handler' = handler
  BY <1>2, ConnectEnds
<1> SUFFICES ASSUME tracks # <<>>, ~handler.setupOK PROVE FALSE
  BY <1>3
<1>4. Settings = 1
  BY <1>1 DEF LeakInv
<1>5. PICK m \in Around : SetsUp(m)
  BY <1>4, SettingsAre
<1>6. Flying["setup"] >= 1 /\ "setup" \in Kinds
  <2>1. m \in Msg /\ Kind(m) = "setup"
    BY <1>5, AroundIs, SetUpKinds
  <2> QED
    BY <2>1, KindsAround DEF Kinds
<1>7. \A k \in {"setup", "play", "retry", "tiou", "told", "refusal"} : Flying[k] \in Nat
  BY Numbers DEF Kinds
<1>8. ~Fed
  BY <1>6, <1>7 DEF Fed, SettingUp
<1>9. handler.doneMsg = "cdon"
  <2>1. Attempts > 0
    BY <1>6, <1>7, Numbers DEF Attempts
  <2> QED
    BY <1>1, <1>8, <2>1 DEF UnfedInv
<1>10. Flying["told"] + Flying["refusal"] + 1 + 1 = 1
  BY <1>1, <1>3, <1>9 DEF PlayerInv, Connecting, Bit
<1> QED
  BY <1>7, <1>10

-----------------------------------------------------------------------------
(* Everything together.                                                    *)

StreamsInv == /\ OpenInv /\ FreshInv /\ NetInv /\ Asserted
              /\ EndInv /\ LeakInv /\ GoneInv /\ RefusedInv

LEMMA InitStreams ==
  ASSUME Init
  PROVE  StreamsInv
<1>1. OpenInv
  BY PairsOfFew DEF Init, OpenInv
<1>2. Asserted
  BY DEF Init, Asserted, Alive
<1>3. EndInv /\ LeakInv /\ GoneInv /\ RefusedInv
  BY DEF Init, EndInv, LeakInv, GoneInv, RefusedInv
<1> QED
  BY <1>1, <1>2, <1>3, InitFresh, InitNet DEF StreamsInv

LEMMA StreamsRest ==
  ASSUME StreamsInv, UNCHANGED vars
  PROVE  StreamsInv'
<1>1. OpenInv' /\ FreshInv'
  BY DEF StreamsInv, vars, netVars, sessionVars, serverVars, playerVars, FreshInv,
     SourceInv, Served, CleanSources, SetupInv, PlayInv, SeeInv, NoSee, NoSee2, Around,
     Mail, Due, Emptied, SourceOf, Flying, Total, OpenInv, PairsOf
<1>2. /\ UNCHANGED <<netbox, streams, mailbox, pending, tracks, handler>>
      /\ UNCHANGED <<crashed, seekDone, player, state>>
  BY DEF vars, netVars, sessionVars, serverVars, playerVars
<1>3. Regs' = Regs /\ Removals' = Removals /\ Settings' = Settings /\ Flying' = Flying
  BY <1>2 DEF Regs, Removals, Settings, Flying, Total
<1>4. StreamInv => StreamInv'
  BY <1>2 DEF StreamInv, Proper, Own, Udp, Injectable, Registered, Mail
<1>5. LineInv => LineInv'
  BY <1>2, <1>3 DEF LineInv, RegInv, InLine, Removing, Udp
<1>6. JoinInv => JoinInv'
  BY <1>2, <1>3 DEF JoinInv, Joins, Udp
<1>7. NetInv' /\ Asserted' /\ EndInv' /\ GoneInv' /\ RefusedInv'
  BY <1>2, <1>4, <1>5, <1>6 DEF StreamsInv, NetInv, Asserted, EndInv, GoneInv, RefusedInv
<1>8. LeakInv'
  BY <1>2, <1>3 DEF StreamsInv, LeakInv
<1> QED
  BY <1>1, <1>7, <1>8 DEF StreamsInv

LEMMA StreamsInvariant == Spec => [](TypeOK /\ StreamsInv)
<1>1. Init => StreamsInv
  BY InitStreams
<1>2. TypeOK /\ TypeOK' /\ SeekInv /\ FeedInv /\ StreamsInv /\ [Next]_vars => StreamsInv'
  <2>1. ASSUME TypeOK, TypeOK', SeekInv, FeedInv, StreamsInv, Next
        PROVE  StreamsInv'
    <3>1. OpenInv' /\ FreshInv' /\ NetInv'
      BY <2>1, OpenKept, FreshKept, NetKept, SessionAssumption DEF StreamsInv
    <3>2. Asserted' /\ EndInv' /\ LeakInv'
      BY <2>1, AssertedKept, EndKept, LeakKept, SessionAssumption DEF StreamsInv
    <3>3. GoneInv' /\ RefusedInv'
      BY <2>1, GoneKept, RefusedKept DEF StreamsInv
    <3> QED
      BY <3>1, <3>2, <3>3 DEF StreamsInv
  <2> QED
    BY <2>1, StreamsRest
<1>3. Spec => [](TypeOK /\ SeekInv /\ FeedInv)
  BY FeedIsInvariant
<1> QED
  BY <1>1, <1>2, <1>3, PTL DEF Spec

\* DSPGMyHandler.h:382-391, 535-628, 669-688, 778-836, DSPGARTSPController.cpp:59-93:
\* the pairs of UDP sockets that are open are those of the tracks, so that none is
\* left when disconnect() has returned, and none when connect() has failed, if no
\* SETUP of the last attempt was accepted.  (If one was, the pairs are left open:
\* nobody aborts a session that could not be played.)
THEOREM SocketsAreClosed == Spec => []SocketsClosed
<1>1. StreamsInv => SocketsClosed
  <2>1. PairsOf(<<>>) = {}
    BY PairsOfFew
  <2> QED
    BY <2>1 DEF StreamsInv, OpenInv, GoneInv, RefusedInv, SocketsClosed
<1> QED
  BY <1>1, StreamsInvariant, PTL

\* DSPGARTPConnection.cpp:243, 315, 703, DSPGMyHandler.h:501, 512, 746, 889,
\* DSPGARTSPController.cpp:49, 102: a stream that is removed, or that data is injected
\* for, is one the RTP connection has; a response to SETUP finds the track it is about,
\* the first unit somebody to tell, and the end of the controller no session.  But for
\* the assertions about what the server sent or the system refused (Outside), a process
\* ends only if the player seeks twice, if a session was aborted while it sought, if
\* the player reads tracks that are being cleared, or if the pair of a stream that is
\* still to be removed is polled after it was closed.
THEOREM AssertionsAreKept == Spec => []AssertionsHold
<1>1. StreamsInv => AssertionsHold
  BY DEF StreamsInv, Asserted, EndInv, AssertionsHold
<1> QED
  BY <1>1, StreamsInvariant, PTL
=============================================================================
