-------------------------- MODULE RTPReceiverProofs --------------------------
(***************************************************************************)
(* Proofs about RTPReceiver for any streams, any widths of the sequence    *)
(* numbers and any patience, up to the first packet that goes astray.      *)
(***************************************************************************)
EXTENDS RTPReceiver, SequenceTheorems, NaturalsInduction, WellFoundedInduction,
        TLAPS

-----------------------------------------------------------------------------
(* The inductive invariant.                                                *)

Packet == 0 .. Length - 1
Item == [seq : Nat, n : Packet]
Unit == [nals : Seq(Seq(Packet)), damaged : BOOLEAN]

NetTypes ==
    /\ stream \in Streams
    /\ sent \in 0 .. Length
    /\ net \subseteq 0 .. sent - 1

SourceTypes ==
    /\ firstIn \in Packet \cup {None}
    /\ highest \in Nat
    /\ queue \in Seq(Item)
    /\ valid \in BOOLEAN
    /\ expected \in Nat
    /\ age \in Nat \cup {NoFailure}

OutputTypes ==
    /\ nals \in Seq(Seq(Packet))
    /\ damaged \in BOOLEAN
    /\ units \in Seq(Unit)

TypeOK == NetTypes /\ SourceTypes /\ OutputTypes

\* Before the first packet there is nothing.
Silent == ~Received => /\ queue = <<>> /\ ~valid
                       /\ nals = <<>> /\ units = <<>>

\* Every number in the queue is that of its packet, and so is the highest.
Numbered == Received =>
    /\ highest - Shift \in firstIn .. Length - 1
    /\ \A i \in DOMAIN queue : queue[i].seq = Number(queue[i].n)

Sorted == \A i, j \in DOMAIN queue : i < j => queue[i].seq < queue[j].seq

\* Only what was expected can be missing.
Expecting == /\ age # NoFailure => valid
             /\ valid => expected <= Number(Length)

\* Nothing to come is in front of what has been used.
Behind == \A p \in Used : valid /\ Number(p) < expected

\* AMR packets are posted one by one; of the others one was expected first.
Collecting == /\ ~Collects => nals = <<>>
              /\ nals # <<>> => valid

\* Units hold something, until LATM garbles them, and what they hold is
\* followed without a hole, or there is a mark.
Marking == stream.format \notin {"AMR", "LATM"} =>
    /\ \A k \in DOMAIN units : units[k].nals # <<>>
    /\ nals # <<>> =>
          \/ damaged
          \/ Contiguous(nals) /\ Number(Last(Last(nals))) + 1 = expected
    /\ units # <<>> /\ nals # <<>> =>
          \/ damaged
          \/ Last(units).damaged
          \/ Joined(Last(Last(units).nals), Head(nals))
    /\ units # <<>> /\ nals = <<>> => damaged

SourceInv == Silent /\ Numbered /\ Sorted /\ Expecting
OutputInv == /\ Behind /\ Collecting /\ AllWhole /\ Ordered
             /\ Marking /\ Marked

IInv == TypeOK /\ SourceInv /\ OutputInv

-----------------------------------------------------------------------------
(* Lists and remainders.                                                   *)

\* InsertAt moves the items from position i on one place back.
LEMMA InsertAtProps ==
  ASSUME NEW S, NEW s \in Seq(S), NEW i \in 1 .. Len(s) + 1, NEW x \in S
  PROVE  /\ InsertAt(s, i, x) \in Seq(S)
         /\ Len(InsertAt(s, i, x)) = Len(s) + 1
         /\ \A j \in 1 .. Len(s) + 1 :
              InsertAt(s, i, x)[j] = IF j < i THEN s[j]
                                     ELSE IF j = i THEN x ELSE s[j - 1]
<1> DEFINE L == SubSeq(s, 1, i - 1)
           R == SubSeq(s, i, Len(s))
<1>1. /\ L \in Seq(S) /\ Len(L) = i - 1
      /\ \A j \in 1 .. i - 1 : L[j] = s[j]
  OBVIOUS
<1>2. /\ R \in Seq(S) /\ Len(R) = Len(s) - i + 1
      /\ \A j \in 1 .. Len(s) - i + 1 : R[j] = s[i + j - 1]
  OBVIOUS
<1>3. InsertAt(s, i, x) = (L \o <<x>>) \o R
  BY DEF InsertAt
<1> HIDE DEF L, R
<1>4. /\ L \o <<x>> \in Seq(S) /\ Len(L \o <<x>>) = i
      /\ \A j \in 1 .. i : (L \o <<x>>)[j] = IF j < i THEN s[j] ELSE x
  BY <1>1, ConcatProperties
<1>5. /\ InsertAt(s, i, x) \in Seq(S)
      /\ Len(InsertAt(s, i, x)) = i + (Len(s) - i + 1)
      /\ \A j \in 1 .. i + (Len(s) - i + 1) :
           InsertAt(s, i, x)[j] = IF j <= i THEN (L \o <<x>>)[j] ELSE R[j - i]
  BY <1>2, <1>3, <1>4, ConcatProperties
<1>6. Len(s) \in Nat
  OBVIOUS
<1>7. ASSUME NEW j \in 1 .. Len(s) + 1
      PROVE  InsertAt(s, i, x)[j] = IF j < i THEN s[j]
                                    ELSE IF j = i THEN x ELSE s[j - 1]
  <2>1. CASE j <= i
    <3>1. j \in 1 .. i + (Len(s) - i + 1) /\ j \in 1 .. i /\ i \in Int /\ j \in Int
      BY <2>1, <1>6
    <3>2. InsertAt(s, i, x)[j] = (L \o <<x>>)[j]
      BY <2>1, <3>1, <1>5
    <3>3. (L \o <<x>>)[j] = IF j < i THEN s[j] ELSE x
      BY <3>1, <1>4
    <3>4. j < i \/ j = i
      BY <2>1, <3>1
    <3> QED
      BY <3>2, <3>3, <3>4, Zenon
  <2>2. CASE j > i
    <3>1. InsertAt(s, i, x)[j] = R[j - i]
      BY <2>2, <1>5, <1>6
    <3>2. /\ j - i \in 1 .. Len(s) - i + 1
          /\ i + (j - i) - 1 = j - 1
      BY <2>2, <1>6
    <3>3. R[j - i] = s[i + (j - i) - 1]
      BY <1>2, <3>2
    <3> QED
      BY <2>2, <3>1, <3>2, <3>3
  <2> QED
    BY <2>1, <2>2
<1> QED
  BY <1>5, <1>6, <1>7

LEMMA InsertedAre ==
  ASSUME NEW S, NEW s \in Seq(S), NEW i \in 1 .. Len(s) + 1, NEW x \in S
  PROVE  ToSet(InsertAt(s, i, x)) = ToSet(s) \cup {x}
<1> DEFINE t == InsertAt(s, i, x)
<1>1. /\ t \in Seq(S) /\ Len(t) = Len(s) + 1
      /\ \A j \in 1 .. Len(s) + 1 :
           t[j] = IF j < i THEN s[j] ELSE IF j = i THEN x ELSE s[j - 1]
  BY InsertAtProps
<1> HIDE DEF t
<1>2. /\ DOMAIN t = 1 .. Len(s) + 1 /\ DOMAIN s = 1 .. Len(s) /\ Len(s) \in Nat
  BY <1>1, LenProperties
<1>3. ASSUME NEW j \in DOMAIN t, t[j] # x PROVE \E m \in DOMAIN s : t[j] = s[m]
  <2>1. CASE j < i
    BY <1>1, <1>2, <2>1
  <2>2. CASE j > i
    <3>1. j - 1 \in DOMAIN s /\ t[j] = s[j - 1]
      BY <1>1, <1>2, <2>2
    <3> QED
      BY <3>1
  <2> QED
    BY <1>1, <1>2, <1>3, <2>1, <2>2
<1>4. ASSUME NEW m \in DOMAIN s PROVE \E j \in DOMAIN t : t[j] = s[m]
  <2>1. CASE m < i
    BY <1>1, <1>2, <2>1
  <2>2. CASE m >= i
    <3>1. m + 1 \in DOMAIN t /\ t[m + 1] = s[m]
      BY <1>1, <1>2, <2>2
    <3> QED
      BY <3>1
  <2> QED
    BY <1>2, <2>1, <2>2
<1>5. i \in DOMAIN t /\ t[i] = x
  BY <1>1, <1>2
<1> QED
  BY <1>3, <1>4, <1>5 DEF ToSet, t

\* A set of naturals has a least member.
LEMMA LeastNatural ==
  ASSUME NEW S \in SUBSET Nat, S # {}
  PROVE  \E k \in S : \A j \in S : k <= j
<1>1. \E k \in S : \A j \in S : ~(<<j, k>> \in OpToRel(<, Nat))
  BY NatLessThanWellFounded, WFMin
<1>2. PICK k \in S : \A j \in S : ~(<<j, k>> \in OpToRel(<, Nat))
  BY <1>1
<1>3. ASSUME NEW j \in S PROVE k <= j
  <2>1. ~(<<j, k>> \in {p \in Nat \X Nat : p[1] < p[2]})
    BY <1>2 DEF OpToRel
  <2>2. j \in Nat /\ k \in Nat
    OBVIOUS
  <2> QED
    BY <2>1, <2>2
<1> QED
  BY <1>3

\* A number is determined by quotient and remainder.
LEMMA Quotients ==
  ASSUME NEW m \in Nat \ {0}, NEW a \in Int
  PROVE  /\ a % m \in 0 .. m - 1
         /\ a = m * (a \div m) + (a % m)
         /\ a \div m \in Int
OBVIOUS

LEMMA Remainder ==
  ASSUME NEW m \in Nat \ {0}, NEW a \in Int, NEW q \in Int, NEW r \in 0 .. m - 1,
         a = m * q + r
  PROVE  a % m = r
OBVIOUS

\* Multiples of m that are less than m apart are the same.
LEMMA Multiples ==
  ASSUME NEW m \in Nat \ {0}, NEW p \in Int, NEW q \in Int
  PROVE  /\ p < q => m * p <= m * q - m
         /\ p <= q => m * p <= m * q
         /\ m * p \in Int
<1>1. m * p \in Int /\ m * (q - p) \in Int
  OBVIOUS
<1>2. m * q = m * p + m * (q - p)
  OBVIOUS
<1>3. q - p >= 1 => m * (q - p) >= m
  OBVIOUS
<1>4. q - p >= 0 => m * (q - p) >= 0
  OBVIOUS
<1> QED
  BY <1>1, <1>2, <1>3, <1>4

-----------------------------------------------------------------------------
(* Numbers.                                                                *)

LEMMA StreamIs ==
  ASSUME TypeOK
  PROVE  /\ stream.packets \in Seq([kind : Kinds, time : Int])
         /\ stream.format \in {"H264", "H263", "AMR", "MPEG4", "LATM"}
         /\ Length \in Nat
         /\ FirstSeq + Length + 2 * WireMod <= WideMod
         /\ \A n \in Packet : /\ Kind(n) \in Kinds
                              /\ Suits(Kind(n), stream.format)
                              /\ Time(n) \in Int
<1>1. stream \in StreamType /\ FirstSeq + Length + 2 * WireMod <= WideMod
  BY ReceiverAssumption DEF TypeOK, NetTypes, Length
<1>2. /\ stream.packets \in Seq([kind : Kinds, time : Int])
      /\ stream.format \in {"H264", "H263", "AMR", "MPEG4", "LATM"}
      /\ Length \in Nat
  BY <1>1, LenProperties DEF StreamType, Length
<1>3. ASSUME NEW n \in Packet
      PROVE  /\ Kind(n) \in Kinds
             /\ Suits(Kind(n), stream.format)
             /\ Time(n) \in Int
  <2>1. n + 1 \in 1 .. Len(stream.packets)
    BY <1>2, <1>3 DEF Packet, Length
  <2>2. stream.packets[n + 1] \in [kind : Kinds, time : Int]
    BY <1>2, <2>1, ElementOfSeq
  <2>3. Suits(stream.packets[n + 1].kind, stream.format)
    BY <1>2, <2>1, ReceiverAssumption, LenProperties DEF TypeOK, NetTypes
  <2> QED
    BY <2>2, <2>3 DEF Kind, Time
<1> QED
  BY <1>1, <1>2, <1>3

\* A packet's number and its number on the wire differ by a multiple of
\* WireMod.
LEMMA ShiftIs ==
  ASSUME TypeOK, Received
  PROVE  /\ Shift \in Int
         /\ Shift <= FirstSeq
         /\ firstIn \in Packet
         /\ WireSeq(firstIn) = Number(firstIn)
         /\ WireSeq(firstIn) \in 0 .. WireMod - 1
         /\ \E q \in Int : Shift = FirstSeq - WireMod * q
<1> DEFINE a == FirstSeq + firstIn
           q == a \div WireMod
<1>1. firstIn \in Packet /\ firstIn \in Nat
  BY DEF TypeOK, SourceTypes, Received, Packet
<1>2. a \in Nat /\ a \in Int /\ FirstSeq \in Nat /\ WireMod \in Nat \ {0}
  BY <1>1, ReceiverAssumption
<1>3. /\ a % WireMod \in 0 .. WireMod - 1
      /\ a = WireMod * q + (a % WireMod)
      /\ q \in Int
  BY <1>2, Quotients, Zenon
<1>4. WireSeq(firstIn) = a % WireMod
  BY DEF WireSeq
<1>5. WireMod * q \in Int
  BY <1>2, <1>3, Multiples
<1> HIDE DEF q
<1>6. Shift = FirstSeq - WireMod * q
  BY <1>1, <1>2, <1>3, <1>4, <1>5 DEF Shift
<1>7. q >= 0
  <2>1. q < 0 => WireMod * q <= WireMod * 0 - WireMod
    BY <1>2, <1>3, Multiples
  <2> QED
    BY <1>2, <1>3, <1>5, <2>1
<1>8. WireMod * q >= 0
  BY <1>2, <1>3, <1>7
<1>9. Shift \in Int /\ Shift <= FirstSeq
  BY <1>2, <1>5, <1>6, <1>8
<1>10. WireSeq(firstIn) \in 0 .. WireMod - 1
  BY <1>3, <1>4
<1>11. WireSeq(firstIn) = Number(firstIn)
  BY <1>1, <1>2, <1>10 DEF Number, Shift
<1>12. \E k \in Int : Shift = FirstSeq - WireMod * k
  BY <1>3, <1>6
<1> QED
  BY <1>1, <1>9, <1>10, <1>11, <1>12

LEMMA WireSeqIs ==
  ASSUME TypeOK, Received, NEW n \in Packet, Number(n) \in Nat
  PROVE  WireSeq(n) = Number(n) % WireMod
<1>1. PICK q \in Int : Shift = FirstSeq - WireMod * q
  BY ShiftIs
<1> DEFINE p == (FirstSeq + n) \div WireMod
           r == (FirstSeq + n) % WireMod
<1>2. n \in Nat /\ FirstSeq + n \in Int /\ WireMod \in Nat \ {0} /\ FirstSeq \in Nat
  BY ReceiverAssumption DEF Packet
<1>3. r \in 0 .. WireMod - 1 /\ FirstSeq + n = WireMod * p + r /\ p \in Int
  BY <1>2, Quotients, Zenon
<1> HIDE DEF p, r
<1>4. /\ WireMod * (p - q) = WireMod * p - WireMod * q
      /\ WireMod * p \in Int /\ WireMod * q \in Int
  BY <1>1, <1>2, <1>3
<1>5. Number(n) = WireMod * (p - q) + r
  BY <1>1, <1>2, <1>3, <1>4 DEF Number
<1>6. Number(n) % WireMod = r
  <2>1. p - q \in Int /\ Number(n) \in Int
    BY <1>1, <1>3
  <2> QED
    BY <1>2, <1>3, <1>5, <2>1, Remainder, Zenon
<1> QED
  BY <1>6 DEF WireSeq, r

\* A packet the network may deliver has a number from 0.
LEMMA NumberIsNat ==
  ASSUME TypeOK, Numbered, Received, NEW n \in Packet, ~CrossesStart(n),
         2 * AbsDiff(Number(n), highest) < WireMod
  PROVE  Number(n) \in Nat
<1>1. /\ Shift \in Int /\ firstIn \in Packet /\ firstIn \in Nat /\ n \in Nat
      /\ WireMod \in Nat \ {0} /\ FirstSeq \in Nat /\ highest \in Nat
      /\ WireSeq(firstIn) = firstIn + Shift
      /\ WireSeq(firstIn) \in 0 .. WireMod - 1
  BY ShiftIs, ReceiverAssumption DEF TypeOK, SourceTypes, Packet, Number
<1>2. CASE n >= firstIn
  BY <1>1, <1>2 DEF Number
<1>3. CASE n < firstIn
  <2>1. firstIn - n < WireMod
    <3>1. highest >= firstIn + Shift
      BY <1>1, StreamIs DEF Numbered
    <3> QED
      BY <1>1, <1>3, <3>1 DEF AbsDiff, Number
  <2>2. WireSeq(n) <= WireSeq(firstIn)
    BY <1>1, <1>3, ReceiverAssumption DEF CrossesStart, WireSeq
  <2> DEFINE p == (FirstSeq + n) \div WireMod
             r == (FirstSeq + n) % WireMod
             q == (FirstSeq + firstIn) \div WireMod
             t == (FirstSeq + firstIn) % WireMod
  <2>3. /\ r \in 0 .. WireMod - 1 /\ FirstSeq + n = WireMod * p + r /\ p \in Int
        /\ t \in 0 .. WireMod - 1 /\ FirstSeq + firstIn = WireMod * q + t /\ q \in Int
    <3>1. FirstSeq + n \in Int /\ FirstSeq + firstIn \in Int
      BY <1>1
    <3> QED
      BY <1>1, <3>1, Quotients, Zenon
  <2>4. WireSeq(n) = r /\ WireSeq(firstIn) = t
    BY DEF WireSeq
  <2> HIDE DEF p, q, r, t
  <2>5. /\ p < q => WireMod * p <= WireMod * q - WireMod
        /\ q < p => WireMod * q <= WireMod * p - WireMod
        /\ WireMod * p \in Int /\ WireMod * q \in Int
    BY <1>1, <2>3, Multiples
  <2>6. ~(p < q) /\ ~(q < p)
    BY <1>1, <1>3, <2>1, <2>2, <2>3, <2>4, <2>5
  <2>7. p = q
    BY <2>3, <2>6
  <2>8. Number(n) = r
    BY <1>1, <2>3, <2>4, <2>5, <2>7 DEF Number
  <2> QED
    BY <2>3, <2>8
<1> QED
  BY <1>1, <1>2, <1>3

\* Its 32-bit number is found.
LEMMA ExtendedIsNumber ==
  ASSUME TypeOK, Numbered, Received, NEW n \in Packet, Number(n) \in Nat,
         2 * AbsDiff(Number(n), highest) < WireMod
  PROVE  Extended(WireSeq(n)) = Number(n)
<1> DEFINE x == Number(n)
           s == x % WireMod
           p == x \div WireMod
           r == highest % WireMod
           q == highest \div WireMod
           Candidate(k) == (highest - r + k * WireMod + s) % WideMod
           Diff(k) == AbsDiff(Candidate(k), highest)
<1>1. /\ WireMod \in Nat \ {0} /\ WideMod \in Nat \ {0} /\ highest \in Nat
      /\ x \in Nat
      /\ x + 2 * WireMod < WideMod /\ highest + 2 * WireMod < WideMod
  <2>1. /\ Shift \in Int /\ Shift <= FirstSeq /\ n \in Nat /\ n < Length
        /\ FirstSeq \in Nat /\ Length \in Nat
        /\ FirstSeq + Length + 2 * WireMod <= WideMod
        /\ WireMod \in Nat \ {0} /\ WideMod \in Nat \ {0} /\ highest \in Nat
    <3>1. /\ Shift \in Int /\ Shift <= FirstSeq
          /\ FirstSeq + Length + 2 * WireMod <= WideMod /\ Length \in Nat
      BY ShiftIs, StreamIs
    <3>2. highest \in Nat
      BY DEF TypeOK, SourceTypes
    <3> QED
      BY <3>1, <3>2, ReceiverAssumption DEF Packet
  <2>2. highest - Shift < Length
    BY <2>1, ShiftIs DEF Numbered, Packet
  <2> QED
    BY <2>1, <2>2 DEF Number
<1>2. WireSeq(n) = s
  BY WireSeqIs
<1>3. /\ s \in 0 .. WireMod - 1 /\ x = WireMod * p + s /\ p \in Int
      /\ r \in 0 .. WireMod - 1 /\ highest = WireMod * q + r /\ q \in Int
  <2>1. x \in Int /\ highest \in Int
    BY <1>1
  <2> QED
    BY <1>1, <2>1, Quotients, Zenon
<1>4. Extended(WireSeq(n)) =
        CASE Diff(-1) <= Diff(0) /\ Diff(-1) <= Diff(1) -> Candidate(-1)
          [] Diff(1) <= Diff(0) /\ Diff(1) < Diff(-1) -> Candidate(1)
          [] OTHER -> Candidate(0)
  BY <1>2 DEF Extended
<1>5. 2 * AbsDiff(x, highest) < WireMod
  OBVIOUS
<1> DEFINE A == WireMod * q
           B == WireMod * p
<1> HIDE DEF x, s, p, r, q
<1>6. /\ p < q => B <= A - WireMod
      /\ p < q - 1 => B <= WireMod * (q - 1) - WireMod
      /\ q < p => A <= B - WireMod
      /\ q + 1 < p => WireMod * (q + 1) <= B - WireMod
      /\ A \in Int /\ B \in Int
  BY <1>1, <1>3, Multiples
<1>7. WireMod * (q - 1) = A - WireMod /\ WireMod * (q + 1) = A + WireMod
  BY <1>1, <1>3
<1> HIDE DEF A, B
<1>8. /\ x = B + s /\ highest = A + r
  BY <1>3 DEF A, B
<1>9. ~(p < q - 1) /\ ~(q + 1 < p)
  BY <1>1, <1>3, <1>5, <1>6, <1>7, <1>8 DEF AbsDiff
<1>10. /\ p = q - 1 => B = A - WireMod
       /\ p = q => B = A
       /\ p = q + 1 => B = A + WireMod
       /\ p = q - 1 \/ p = q \/ p = q + 1
  BY <1>3, <1>7, <1>9 DEF A, B
<1>11. \A c \in Nat : c < WideMod => c % WideMod = c
  BY <1>1
<1>12. Candidate(0) = A + s /\ Candidate(1) = A + WireMod + s /\ A >= 0
  <2>1. A >= 0
    <3>1. q < 0 => A <= WireMod * 0 - WireMod
      BY <1>1, <1>3, Multiples DEF A
    <3> QED
      BY <1>1, <1>3, <1>8, <3>1, <1>6
  <2>2. A + s \in Nat /\ A + s < WideMod /\ A + WireMod + s \in Nat /\ A + WireMod + s < WideMod
    BY <1>1, <1>3, <1>6, <1>8, <2>1
  <2> QED
    BY <1>1, <1>3, <1>6, <1>8, <1>11, <2>1, <2>2
<1>13. \/ A >= WireMod /\ Candidate(-1) = A - WireMod + s
       \/ A = 0 /\ Candidate(-1) = WideMod - WireMod + s
  <2>1. A >= WireMod \/ A = 0
    <3>1. 0 < q => WireMod * 0 <= A - WireMod
      BY <1>1, <1>3, Multiples DEF A
    <3>2. q = 0 => A = 0
      BY <1>1 DEF A
    <3>3. q < 0 => A <= WireMod * 0 - WireMod
      BY <1>1, <1>3, Multiples DEF A
    <3> QED
      BY <1>1, <1>3, <1>6, <1>12, <3>1, <3>2, <3>3
  <2>2. CASE A >= WireMod
    <3>1. A - WireMod + s \in Nat /\ A - WireMod + s < WideMod
      BY <1>1, <1>3, <1>6, <1>8, <2>2
    <3> QED
      BY <1>1, <1>3, <1>6, <1>8, <1>11, <2>2, <3>1
  <2>3. CASE A = 0
    <3>1. highest - r + (-1) * WireMod + s = WideMod * (-1) + (WideMod - WireMod + s)
      BY <1>1, <1>3, <1>8, <2>3
    <3>2. WideMod - WireMod + s \in 0 .. WideMod - 1
      BY <1>1, <1>3
    <3>3. Candidate(-1) = WideMod - WireMod + s
      BY <1>1, <3>1, <3>2, Remainder
    <3> QED
      BY <2>3, <3>3
  <2> QED
    BY <2>1, <2>2, <2>3
<1> HIDE DEF Candidate
<1>14. /\ Diff(-1) = AbsDiff(Candidate(-1), highest)
       /\ Diff(0) = AbsDiff(Candidate(0), highest)
       /\ Diff(1) = AbsDiff(Candidate(1), highest)
  OBVIOUS
<1> HIDE DEF Diff
<1>15. CASE p = q
  <2>1. x = Candidate(0)
    BY <1>8, <1>10, <1>12, <1>15
  <2>2. Diff(0) < Diff(1) /\ Diff(0) < Diff(-1)
    BY <1>1, <1>3, <1>5, <1>6, <1>8, <1>12, <1>13, <1>14, <2>1 DEF AbsDiff
  <2>3. Diff(0) \in Int /\ Diff(1) \in Int /\ Diff(-1) \in Int
    BY <1>1, <1>3, <1>6, <1>12, <1>13, <1>14 DEF AbsDiff
  <2> QED
    BY <1>4, <2>1, <2>2, <2>3 DEF x
<1>16. CASE p = q + 1
  <2>1. x = Candidate(1)
    BY <1>1, <1>3, <1>6, <1>8, <1>10, <1>12, <1>16
  <2>2. Diff(1) < Diff(0) /\ Diff(1) < Diff(-1)
    BY <1>1, <1>3, <1>5, <1>6, <1>8, <1>12, <1>13, <1>14, <2>1 DEF AbsDiff
  <2>3. Diff(0) \in Int /\ Diff(1) \in Int /\ Diff(-1) \in Int
    BY <1>1, <1>3, <1>6, <1>12, <1>13, <1>14 DEF AbsDiff
  <2> QED
    BY <1>4, <2>1, <2>2, <2>3 DEF x
<1>17. CASE p = q - 1
  <2>1. x = Candidate(-1)
    <3>1. B >= 0
      <4>1. p < 0 => B <= WireMod * 0 - WireMod
        BY <1>1, <1>3, Multiples DEF B
      <4> QED
        BY <1>1, <1>3, <1>6, <1>8, <4>1
    <3> QED
      BY <1>1, <1>3, <1>6, <1>8, <1>10, <1>13, <1>17, <3>1
  <2>2. Diff(-1) < Diff(0) /\ Diff(-1) < Diff(1)
    BY <1>1, <1>3, <1>5, <1>6, <1>8, <1>12, <1>13, <1>14, <2>1 DEF AbsDiff
  <2>3. Diff(0) \in Int /\ Diff(1) \in Int /\ Diff(-1) \in Int
    BY <1>1, <1>3, <1>6, <1>12, <1>13, <1>14 DEF AbsDiff
  <2> QED
    BY <1>4, <2>1, <2>2, <2>3 DEF x
<1> QED
  BY <1>10, <1>15, <1>16, <1>17

-----------------------------------------------------------------------------
(* The queue of the source.                                                *)

\* While the stream and its first packet stay, names mean the same.
LEMMA SameStream ==
  ASSUME stream' = stream, firstIn' = firstIn
  PROVE  /\ Packet' = Packet /\ Item' = Item /\ Unit' = Unit /\ Length' = Length
         /\ Received' = Received /\ Shift' = Shift
         /\ \A n : Number(n)' = Number(n) /\ Kind(n)' = Kind(n) /\ Time(n)' = Time(n)
         /\ Collects' = Collects
BY DEF Packet, Item, Unit, Length, Received, Shift, WireSeq, Number, Kind, Time,
       Collects

\* What depends on the units only.
LEMMA SameOutput ==
  ASSUME stream' = stream, UNCHANGED <<units, nals>>
  PROVE  /\ NALUnits' = NALUnits /\ Used' = Used
         /\ AllWhole' = AllWhole /\ Ordered' = Ordered
BY DEF NALUnits, Used, AllWhole, IsWhole, Kind, Ordered, InSequence, Precede,
       AllBefore

LEMMA ItemIs ==
  ASSUME TypeOK, NEW i \in DOMAIN queue
  PROVE  /\ queue[i] \in Item /\ queue[i].seq \in Nat /\ queue[i].n \in Packet
         /\ DOMAIN queue = 1 .. Len(queue) /\ Len(queue) \in Nat
<1>1. queue \in Seq(Item)
  BY DEF TypeOK, SourceTypes
<1>2. DOMAIN queue = 1 .. Len(queue) /\ Len(queue) \in Nat
  BY <1>1, LenProperties
<1>3. queue[i] \in Item
  BY <1>1, <1>2, ElementOfSeq
<1> QED
  BY <1>2, <1>3 DEF Item

\* Erasing the head leaves the items that are still to come.
LEMMA FreshIsRest ==
  ASSUME TypeOK, Sorted
  PROVE  \E k \in 0 .. Len(queue) :
           /\ Fresh \in Seq(Item) /\ Len(Fresh) = Len(queue) - k
           /\ \A i \in 1 .. Len(Fresh) : Fresh[i] = queue[k + i]
           /\ valid => Over(k)
           /\ ~valid => k = 0
<1>1. queue \in Seq(Item) /\ Len(queue) \in Nat
  BY LenProperties DEF TypeOK, SourceTypes
<1>2. CASE ~valid
  BY <1>1, <1>2 DEF Fresh
<1>3. CASE valid
  <2> DEFINE S == {k \in 0 .. Len(queue) : k < Len(queue) => queue[k + 1].seq >= expected}
  <2>1. S \in SUBSET Nat /\ Len(queue) \in S
    BY <1>1
  <2>2. PICK k \in S : \A j \in S : k <= j
    BY <2>1, LeastNatural
  <2>3. ASSUME NEW j \in 1 .. k PROVE queue[j].seq < expected
    <3>1. k \in 0 .. Len(queue)
      OBVIOUS
    <3>2. j - 1 \in 0 .. Len(queue) /\ j - 1 < Len(queue) /\ ~(k <= j - 1)
      BY <1>1, <3>1
    <3>3. ~(queue[(j - 1) + 1].seq >= expected)
      BY <2>2, <3>2
    <3>4. (j - 1) + 1 = j
      BY <3>1
    <3>5. queue[j].seq \in Nat /\ expected \in Nat
      BY <1>1, <2>2, ItemIs, LenProperties DEF TypeOK, SourceTypes
    <3> QED
      BY <3>5, <3>3, <3>4
  <2>4. k \in 0 .. Len(queue) /\ Over(k)
    BY <2>2, <2>3 DEF Over
  <2> DEFINE m == CHOOSE i \in 0 .. Len(queue) : Over(i)
  <2>5. m \in 0 .. Len(queue) /\ Over(m)
    BY <2>4
  <2>6. Fresh = SubSeq(queue, m + 1, Len(queue))
    BY <1>3 DEF Fresh
  <2> HIDE DEF m
  <2>7. \A i \in m + 1 .. Len(queue) : queue[i] \in Item
    BY <1>1, <2>5, ElementOfSeq
  <2>8. /\ Fresh \in Seq(Item)
        /\ Len(Fresh) = IF m + 1 <= Len(queue) THEN Len(queue) - (m + 1) + 1 ELSE 0
        /\ \A i \in 1 .. Len(queue) - (m + 1) + 1 : Fresh[i] = queue[(m + 1) + i - 1]
    BY <1>1, <2>5, <2>6, <2>7, SubSeqProperties
  <2>9. Len(Fresh) = Len(queue) - m
    BY <1>1, <2>5, <2>8
  <2>10. \A i \in 1 .. Len(Fresh) : Fresh[i] = queue[m + i]
    BY <1>1, <2>5, <2>8, <2>9
  <2> QED
    BY <1>3, <2>5, <2>8, <2>9, <2>10
<1> QED
  BY <1>2, <1>3

LEMMA FreshIs ==
  ASSUME TypeOK, SourceInv
  PROVE  /\ Fresh \in Seq(Item) /\ Len(Fresh) \in Nat
         /\ DOMAIN Fresh = 1 .. Len(Fresh)
         /\ Fresh # <<>> => Received /\ Len(Fresh) >= 1
         /\ \A i, j \in 1 .. Len(Fresh) : i < j => Fresh[i].seq < Fresh[j].seq
         /\ \A i \in 1 .. Len(Fresh) :
              /\ Fresh[i].seq \in Nat /\ Fresh[i].n \in Packet
              /\ Fresh[i].seq = Number(Fresh[i].n)
              /\ valid => Fresh[i].seq >= expected
<1>1. PICK k \in 0 .. Len(queue) :
           /\ Fresh \in Seq(Item) /\ Len(Fresh) = Len(queue) - k
           /\ \A i \in 1 .. Len(Fresh) : Fresh[i] = queue[k + i]
           /\ valid => Over(k)
           /\ ~valid => k = 0
  BY FreshIsRest DEF SourceInv
<1>2. queue \in Seq(Item) /\ Len(queue) \in Nat /\ DOMAIN queue = 1 .. Len(queue)
  BY LenProperties DEF TypeOK, SourceTypes
<1>3. /\ Len(Fresh) \in Nat /\ DOMAIN Fresh = 1 .. Len(Fresh)
      /\ Fresh # <<>> => Len(Fresh) >= 1
  BY <1>1, LenProperties, EmptySeq
<1>4. Fresh # <<>> => queue # <<>>
  BY <1>1, <1>2, <1>3
<1>5. Fresh # <<>> => Received
  BY <1>4 DEF SourceInv, Silent
<1>6. \A i \in 1 .. Len(Fresh) : k + i \in DOMAIN queue /\ k + i \in Nat
  BY <1>1, <1>2, <1>3
<1>7. ASSUME NEW i \in 1 .. Len(Fresh), NEW j \in 1 .. Len(Fresh), i < j
      PROVE  Fresh[i].seq < Fresh[j].seq
  <2>1. k + i < k + j
    BY <1>6, <1>7
  <2> QED
    BY <1>1, <1>6, <2>1 DEF SourceInv, Sorted
<1>8. ASSUME NEW i \in 1 .. Len(Fresh)
      PROVE  /\ Fresh[i].seq \in Nat /\ Fresh[i].n \in Packet
             /\ Fresh[i].seq = Number(Fresh[i].n)
  <2>1. Received
    BY <1>3, <1>5
  <2> QED
    BY <1>1, <1>6, <2>1, ItemIs DEF SourceInv, Numbered
<1>9. ASSUME valid, NEW i \in 1 .. Len(Fresh) PROVE Fresh[i].seq >= expected
  <2>1. expected \in Nat
    BY DEF TypeOK, SourceTypes
  <2>2. 1 \in 1 .. Len(Fresh) /\ k + 1 <= Len(queue) /\ k < Len(queue)
    BY <1>1, <1>2, <1>3
  <2>3. Fresh[1].seq >= expected
    BY <1>1, <1>9, <2>2 DEF Over
  <2>4. Fresh[1].seq \in Nat /\ Fresh[i].seq \in Nat
    BY <1>8, <2>2
  <2>5. i = 1 \/ Fresh[1].seq < Fresh[i].seq
    BY <1>7, <2>2
  <2> QED
    BY <2>1, <2>3, <2>4, <2>5
<1> QED
  BY <1>1, <1>3, <1>5, <1>7, <1>8, <1>9

-----------------------------------------------------------------------------
(* The network and the source.                                             *)

LEMMA InitIInv == Init => IInv
<1> SUFFICES ASSUME Init PROVE IInv
  OBVIOUS
<1>1. Length \in Nat
  <2>1. stream.packets \in Seq([kind : Kinds, time : Int])
    BY ReceiverAssumption DEF Init, StreamType
  <2> QED
    BY <2>1, LenProperties DEF Length
<1>2. TypeOK
  <2>1. NetTypes
    BY <1>1 DEF Init, NetTypes
  <2>2. SourceTypes /\ OutputTypes
    BY EmptySeq DEF Init, SourceTypes, OutputTypes, NoFailure, None
  <2> QED
    BY <2>1, <2>2 DEF TypeOK
<1>3. SourceInv
  BY DEF Init, SourceInv, Silent, Numbered, Sorted, Expecting, Received, None
<1>4. NALUnits = {} /\ Used = {}
  BY DEF Init, NALUnits, Used, ToSet
<1>5. OutputInv
  BY <1>4 DEF Init, OutputInv, Behind, Collecting, AllWhole, Ordered,
     InSequence, Precede, ToSet, Marking, Marked
<1> QED
  BY <1>2, <1>3, <1>5 DEF IInv

\* Sending, losing and waiting.
LEMMA QuietKeepsIInv ==
  ASSUME IInv, UNCHANGED <<stream, firstIn, highest, queue, assemblyVars>>,
         sent' \in 0 .. Length, net' \subseteq 0 .. sent' - 1,
         age' \in Nat \cup {NoFailure}, age' # NoFailure => valid
  PROVE  IInv'
<1> USE DEF assemblyVars
<1>1. TypeOK'
  BY SameStream DEF IInv, TypeOK, NetTypes, SourceTypes, OutputTypes
<1>2. SourceInv'
  BY SameStream DEF IInv, SourceInv, Silent, Numbered, Sorted, Expecting
<1>3. Behind' /\ Collecting' /\ AllWhole' /\ Ordered'
  BY SameStream, SameOutput DEF IInv, OutputInv, Behind, Collecting
<1>4. Marking' /\ Marked'
  BY SameStream DEF IInv, OutputInv, Marking, Marked, Contiguous, Joined
<1> QED
  BY <1>1, <1>2, <1>3, <1>4 DEF IInv, OutputInv

\* A packet that comes is given its number, and its place in the queue.
LEMMA QueuedNumber ==
  ASSUME IInv, ~astray', NEW n \in net, Deliver(n)
  PROVE  /\ n \in Packet /\ Received' /\ firstIn' \in Packet
         /\ Number(n)' \in Nat
         /\ QueuePacket(n, Number(n)')
         /\ highest' \in Nat /\ (highest - Shift \in firstIn .. Length - 1)'
         /\ Received => firstIn' = firstIn
         /\ ~Received => queue = <<>> /\ ~valid
<1>1. n \in Packet /\ Length \in Nat /\ stream' = stream
  BY StreamIs DEF IInv, TypeOK, NetTypes, Packet, Deliver
<1>2. CASE Received
  <2>1. firstIn' = firstIn /\ Received'
    BY <1>2, <1>1 DEF Deliver, QueuePacket, Received
  <2>2. ~CrossesStart(n) /\ 2 * AbsDiff(Number(n), highest) < WireMod
    <3>1. ~CrossesStart(n) /\ ~(2 * AbsDiff(Number(n), highest) >= WireMod)
      BY <1>2 DEF Deliver, Strays, HalfAway
    <3>2. Number(n) \in Int /\ highest \in Int /\ WireMod \in Int
      BY <1>1, <1>2, ShiftIs, ReceiverAssumption
      DEF IInv, TypeOK, SourceTypes, Number, Packet
    <3>3. AbsDiff(Number(n), highest) \in Int
      BY <3>2 DEF AbsDiff
    <3> QED
      BY <3>1, <3>2, <3>3
  <2>3. Number(n) \in Nat
    BY <1>1, <1>2, <2>2, NumberIsNat DEF IInv, SourceInv
  <2>4. Extended(WireSeq(n)) = Number(n)
    BY <1>1, <1>2, <2>2, <2>3, ExtendedIsNumber DEF IInv, SourceInv
  <2>5. Number(n)' = Number(n) /\ Shift' = Shift /\ Length' = Length
    BY <1>1, <2>1, SameStream
  <2>6. QueuePacket(n, Number(n)')
    BY <1>2, <2>4, <2>5 DEF Deliver
  <2>7. highest' = IF Number(n) > highest THEN Number(n) ELSE highest
    BY <1>2, <2>5, <2>6 DEF QueuePacket
  <2>8. Shift \in Int /\ firstIn \in Packet /\ firstIn \in Nat /\ highest \in Nat
    BY <1>2, ShiftIs DEF IInv, TypeOK, SourceTypes, Packet
  <2>9. highest - Shift \in firstIn .. Length - 1
    BY <1>2 DEF IInv, SourceInv, Numbered
  <2>10. highest' - Shift \in firstIn .. Length - 1 /\ highest' \in Nat
    <3>1. CASE Number(n) > highest
      BY <1>1, <2>3, <2>7, <2>8, <2>9, <3>1 DEF Number, Packet
    <3>2. CASE ~(Number(n) > highest)
      BY <2>7, <2>8, <2>9, <3>2
    <3> QED
      BY <3>1, <3>2
  <2> QED
    BY <1>1, <1>2, <2>1, <2>3, <2>5, <2>6, <2>8, <2>10
<1>3. CASE ~Received
  <2>1. firstIn' = n /\ highest' = WireSeq(n) /\ QueuePacket(n, WireSeq(n))
    BY <1>3 DEF Deliver, QueuePacket
  <2>2. FirstSeq + n \in Int /\ WireMod \in Nat \ {0} /\ n \in Nat
    BY <1>1, ReceiverAssumption DEF Packet
  <2>3. WireSeq(n) \in 0 .. WireMod - 1
    BY <2>2, Quotients, Zenon DEF WireSeq
  <2>4. Shift' = WireSeq(n) - n
    BY <2>1 DEF Shift, WireSeq
  <2>5. Number(n)' = WireSeq(n) /\ WireSeq(n) \in Nat
    BY <2>2, <2>3, <2>4 DEF Number
  <2>6. Received' /\ Length' = Length
    BY <1>1, <2>1, <2>2 DEF Received, None, Length
  <2>7. WireSeq(n) - Shift' = n
    BY <2>2, <2>3, <2>4
  <2>8. (highest - Shift \in firstIn .. Length - 1)'
    BY <1>1, <2>1, <2>6, <2>7 DEF Packet
  <2>9. queue = <<>> /\ ~valid
    BY <1>3 DEF IInv, SourceInv, Silent
  <2> QED
    BY <1>1, <1>3, <2>1, <2>5, <2>6, <2>8, <2>9
<1> QED
  BY <1>2, <1>3

LEMMA DeliverKeepsIInv ==
  ASSUME IInv, ~astray', NEW n \in net, Deliver(n)
  PROVE  IInv'
<1>1. /\ n \in Packet /\ Received' /\ firstIn' \in Packet
      /\ Number(n)' \in Nat
      /\ QueuePacket(n, Number(n)')
      /\ highest' \in Nat /\ (highest - Shift \in firstIn .. Length - 1)'
      /\ Received => firstIn' = firstIn
      /\ ~Received => queue = <<>> /\ ~valid
  BY QueuedNumber
<1>2. UNCHANGED <<stream, sent, age, valid, expected, nals, auTime, damaged, units>>
  BY DEF Deliver, assemblyVars
<1>3. Packet' = Packet /\ Item' = Item /\ Unit' = Unit /\ Length' = Length
  BY <1>2 DEF Packet, Item, Unit, Length
<1>4. queue \in Seq(Item) /\ Len(queue) \in Nat /\ DOMAIN queue = 1 .. Len(queue)
  BY LenProperties DEF IInv, TypeOK, SourceTypes
<1> DEFINE x == [seq |-> Number(n)', n |-> n]
<1>5. x \in Item
  BY <1>1 DEF Item
<1>6. \A i \in DOMAIN queue : queue[i].seq = queue[i].n + Shift'
  <2>1. CASE Received
    BY <1>1, <1>2, <2>1, SameStream DEF IInv, SourceInv, Numbered, Number
  <2>2. CASE ~Received
    BY <1>1, <2>2
  <2> QED
    BY <2>1, <2>2
<1>7. /\ queue' \in Seq(Item)
      /\ \A i \in DOMAIN queue' : queue'[i].seq = queue'[i].n + Shift'
      /\ Sorted'
  <2>1. CASE queue' = queue
    BY <1>4, <1>6, <2>1 DEF IInv, SourceInv, Sorted
  <2>2. CASE queue' # queue
    <3>1. PICK i \in 1 .. Len(queue) + 1 : /\ QueuedAt(x.seq, i)
                                          /\ queue' = InsertAt(queue, i, x)
      BY <1>1, <2>2 DEF QueuePacket
    <3>2. /\ queue' \in Seq(Item) /\ Len(queue') = Len(queue) + 1
          /\ \A j \in 1 .. Len(queue) + 1 :
               queue'[j] = IF j < i THEN queue[j]
                           ELSE IF j = i THEN x ELSE queue[j - 1]
      <4> HIDE DEF x
      <4>1. /\ InsertAt(queue, i, x) \in Seq(Item)
            /\ Len(InsertAt(queue, i, x)) = Len(queue) + 1
            /\ \A j \in 1 .. Len(queue) + 1 :
                 InsertAt(queue, i, x)[j] = IF j < i THEN queue[j]
                                            ELSE IF j = i THEN x ELSE queue[j - 1]
        BY <1>4, <1>5, InsertAtProps
      <4>2. queue' = InsertAt(queue, i, x)
        BY <3>1
      <4> QED
        BY <4>1, <4>2
    <3>3. DOMAIN queue' = 1 .. Len(queue) + 1
      BY <3>2, LenProperties
    <3>4. ASSUME NEW j \in DOMAIN queue'
          PROVE  queue'[j].seq = queue'[j].n + Shift'
      <4>1. CASE j < i
        BY <1>4, <1>6, <3>1, <3>2, <3>3, <4>1
      <4>2. CASE j = i
        BY <3>2, <3>3, <4>2 DEF Number
      <4>3. CASE j > i
        <5>1. j - 1 \in DOMAIN queue /\ queue'[j] = queue[j - 1]
          BY <1>4, <3>1, <3>2, <3>3, <4>3
        <5> QED
          BY <1>6, <5>1
      <4> QED
        BY <1>4, <3>1, <3>3, <4>1, <4>2, <4>3
    <3>5. \A j \in 1 .. Len(queue) : queue[j].seq \in Nat
      BY <1>4, ItemIs DEF IInv
    <3>6. \A j \in 1 .. i - 1 : queue[j].seq < x.seq
      BY <3>1 DEF QueuedAt
    <3>7. \A j \in i .. Len(queue) : queue[j].seq > x.seq
      <4> SUFFICES ASSUME NEW j \in i .. Len(queue) PROVE queue[j].seq > x.seq
        OBVIOUS
      <4>1. queue[i].seq > x.seq /\ i \in DOMAIN queue /\ j \in DOMAIN queue
        BY <1>4, <3>1 DEF QueuedAt
      <4>2. i = j \/ queue[i].seq < queue[j].seq
        BY <1>4, <3>1, <4>1 DEF IInv, SourceInv, Sorted
      <4>3. queue[i].seq \in Nat /\ queue[j].seq \in Nat /\ x.seq \in Nat
        BY <1>1, <1>4, <3>5, <4>1
      <4> QED
        BY <4>1, <4>2, <4>3
    <3>8. \A j, k \in 1 .. Len(queue) : j < k => queue[j].seq < queue[k].seq
      BY <1>4 DEF IInv, SourceInv, Sorted
    <3>9. x.seq \in Nat
      BY <1>1
    <3> HIDE DEF x
    <3>10. ASSUME NEW j \in DOMAIN queue', NEW k \in DOMAIN queue', j < k
           PROVE  queue'[j].seq < queue'[k].seq
      <4>1. j \in Nat /\ k \in Nat /\ i \in Nat
        BY <3>1, <3>3
      <4>2. CASE k < i
        BY <1>4, <3>1, <3>2, <3>3, <3>8, <3>10, <4>1, <4>2
      <4>3. CASE k = i
        BY <1>4, <3>1, <3>2, <3>3, <3>6, <3>10, <4>1, <4>3
      <4>4. CASE k > i
        <5>1. /\ k - 1 \in i .. Len(queue) /\ queue'[k] = queue[k - 1]
              /\ k - 1 \in 1 .. Len(queue)
          BY <1>4, <3>1, <3>2, <3>3, <4>1, <4>4
        <5>2. CASE j < i
          <6>1. j \in 1 .. Len(queue) /\ queue'[j] = queue[j] /\ j < k - 1
            BY <1>4, <3>1, <3>2, <3>3, <4>1, <4>4, <5>2
          <6> QED
            BY <3>8, <5>1, <6>1
        <5>3. CASE j = i
          BY <3>2, <3>3, <3>5, <3>7, <3>9, <5>1, <5>3
        <5>4. CASE j > i
          <6>1. /\ j - 1 \in 1 .. Len(queue) /\ queue'[j] = queue[j - 1]
                /\ j - 1 < k - 1
            BY <1>4, <3>1, <3>2, <3>3, <3>10, <4>1, <4>4, <5>4
          <6> QED
            BY <3>8, <5>1, <6>1
        <5> QED
          BY <4>1, <5>2, <5>3, <5>4
      <4> QED
        BY <4>1, <4>2, <4>3, <4>4
    <3> QED
      BY <3>2, <3>4, <3>10 DEF Sorted
  <2> QED
    BY <2>1, <2>2
<1>8. TypeOK'
  <2>1. NetTypes'
    BY <1>2, <1>3 DEF IInv, TypeOK, NetTypes, Deliver
  <2>2. SourceTypes' /\ OutputTypes'
    BY <1>1, <1>2, <1>3, <1>7 DEF IInv, TypeOK, SourceTypes, OutputTypes
  <2> QED
    BY <2>1, <2>2 DEF TypeOK
<1>9. SourceInv'
  <2>1. Silent' /\ Numbered'
    BY <1>1, <1>7 DEF Silent, Numbered, Number
  <2>2. Expecting'
    BY <1>1, <1>2, <1>3, SameStream DEF IInv, SourceInv, Expecting
  <2> QED
    BY <1>7, <2>1, <2>2 DEF SourceInv
<1>10. OutputInv'
  <2>1. Collecting' /\ AllWhole' /\ Ordered'
    BY <1>2, SameOutput DEF IInv, OutputInv, Collecting, Collects
  <2>2. CASE Received
    <3>1. Behind'
      BY <1>1, <1>2, <2>2, SameOutput, SameStream DEF IInv, OutputInv, Behind
    <3>2. Marking' /\ Marked'
      BY <1>1, <1>2, <2>2, SameStream
      DEF IInv, OutputInv, Marking, Marked, Contiguous, Joined
    <3> QED
      BY <2>1, <3>1, <3>2 DEF OutputInv
  <2>3. CASE ~Received
    <3>1. nals = <<>> /\ units = <<>>
      BY <2>3 DEF IInv, SourceInv, Silent
    <3>2. Used' = {}
      BY <1>2, <3>1 DEF Used, NALUnits, ToSet
    <3>3. Behind' /\ Marking' /\ Marked'
      BY <1>2, <3>1, <3>2 DEF Behind, Marking, Marked
    <3> QED
      BY <2>1, <3>3 DEF OutputInv
  <2> QED
    BY <2>2, <2>3
<1> QED
  BY <1>8, <1>9, <1>10 DEF IInv

-----------------------------------------------------------------------------
(* What an assembler leaves in the source.                                 *)

\* The rest of the queue is a tail of Fresh.
Leaves(c) == /\ queue' \in Seq(Item) /\ Len(queue') = Len(Fresh) - c
             /\ \A i \in 1 .. Len(Fresh) - c : queue'[i] = Fresh[c + i]

LEMMA SourceKept ==
  ASSUME IInv, UNCHANGED assemblyFrame, NEW c \in 0 .. Len(Fresh), Leaves(c),
         valid' \in BOOLEAN, expected' \in Nat, age' \in Nat \cup {NoFailure},
         valid' => Received /\ expected' <= Number(Length),
         age' # NoFailure => valid',
         ~Received => UNCHANGED <<nals, units>>
  PROVE  NetTypes' /\ SourceTypes' /\ SourceInv'
<1>1. UNCHANGED <<stream, sent, net, firstIn, highest>>
  BY DEF assemblyFrame, netVars, sourceVars
<1>2. /\ Packet' = Packet /\ Item' = Item /\ Length' = Length
      /\ Received' = Received /\ Shift' = Shift
      /\ Number(Length)' = Number(Length)
  BY <1>1, SameStream DEF Number
<1>3. /\ Fresh \in Seq(Item) /\ Len(Fresh) \in Nat
      /\ Fresh # <<>> => Received /\ Len(Fresh) >= 1
      /\ \A i, j \in 1 .. Len(Fresh) : i < j => Fresh[i].seq < Fresh[j].seq
      /\ \A i \in 1 .. Len(Fresh) : Fresh[i].seq = Number(Fresh[i].n)
  BY FreshIs DEF IInv
<1>4. DOMAIN queue' = 1 .. Len(Fresh) - c
  BY LenProperties DEF Leaves
<1>5. \A i \in DOMAIN queue' : c + i \in 1 .. Len(Fresh) /\ queue'[i] = Fresh[c + i]
  BY <1>3, <1>4 DEF Leaves
<1>6. NetTypes' /\ SourceTypes'
  BY <1>1, <1>2 DEF IInv, TypeOK, NetTypes, SourceTypes, Leaves
<1>7. Silent'
  <2>1. ~Received => Fresh = <<>> /\ ~valid' /\ nals' = <<>> /\ units' = <<>>
    BY <1>3 DEF IInv, SourceInv, Silent
  <2>2. Fresh = <<>> => queue' = <<>>
    <3>1. Len(<<>>) = 0
      OBVIOUS
    <3> QED
      BY <1>3, <3>1, EmptySeq DEF Leaves
  <2> QED
    BY <1>2, <2>1, <2>2 DEF Silent
<1>8. Numbered'
  BY <1>1, <1>2, <1>3, <1>5 DEF IInv, SourceInv, Numbered, Number
<1>9. Sorted'
  <2> SUFFICES ASSUME NEW i \in DOMAIN queue', NEW j \in DOMAIN queue', i < j
               PROVE  queue'[i].seq < queue'[j].seq
    BY DEF Sorted
  <2>1. c + i < c + j
    BY <1>3, <1>4
  <2> QED
    BY <1>3, <1>5, <2>1
<1>10. Expecting'
  BY <1>2 DEF Expecting
<1> QED
  BY <1>6, <1>7, <1>8, <1>9, <1>10 DEF SourceInv

\* The packets taken are in a row, and the next number is expected.
LEMMA ConsumedAre ==
  ASSUME IInv, NEW count \in 1 .. Len(Fresh), Consume(count),
         \A i \in 1 .. count : Continuous(Fresh, i)
  PROVE  /\ Leaves(count) /\ valid' /\ Received
         /\ expected' = Number(Fresh[count].n) + 1
         /\ expected' \in Nat /\ expected' <= Number(Length)
         /\ \A i \in 1 .. count :
              /\ Fresh[i].n \in Packet /\ Fresh[i].n = Fresh[1].n + i - 1
              /\ Number(Fresh[i].n) < expected'
              /\ valid => Number(Fresh[i].n) >= expected
<1>1. /\ Fresh \in Seq(Item) /\ Len(Fresh) \in Nat
      /\ Fresh # <<>> => Received /\ Len(Fresh) >= 1
      /\ \A i \in 1 .. Len(Fresh) :
              /\ Fresh[i].seq \in Nat /\ Fresh[i].n \in Packet
              /\ Fresh[i].seq = Number(Fresh[i].n)
              /\ valid => Fresh[i].seq >= expected
  BY FreshIs DEF IInv
<1>2. Leaves(count)
  <2>1. \A i \in count + 1 .. Len(Fresh) : Fresh[i] \in Item
    BY <1>1, ElementOfSeq
  <2>2. /\ queue' \in Seq(Item)
        /\ Len(queue') = IF count + 1 <= Len(Fresh)
                         THEN Len(Fresh) - (count + 1) + 1 ELSE 0
        /\ \A i \in 1 .. Len(Fresh) - (count + 1) + 1 :
             queue'[i] = Fresh[(count + 1) + i - 1]
    BY <1>1, <2>1, SubSeqProperties DEF Consume
  <2>3. Len(queue') = Len(Fresh) - count
    BY <1>1, <2>2
  <2>4. ASSUME NEW i \in 1 .. Len(Fresh) - count PROVE queue'[i] = Fresh[count + i]
    <3>1. (count + 1) + i - 1 = count + i /\ i \in 1 .. Len(Fresh) - (count + 1) + 1
      BY <1>1
    <3> QED
      BY <2>2, <3>1
  <2> QED
    BY <2>2, <2>3, <2>4 DEF Leaves
<1>3. Received /\ 1 \in 1 .. count /\ 1 \in 1 .. Len(Fresh) /\ count \in 1 .. count
  BY <1>1
<1>4. Shift \in Int /\ Shift <= FirstSeq /\ FirstSeq \in Nat /\ WireMod \in Nat \ {0}
  BY <1>3, ShiftIs, ReceiverAssumption DEF IInv
<1>5. Length \in Nat /\ FirstSeq + Length + 2 * WireMod <= WideMod /\ WideMod \in Nat
  BY StreamIs, ReceiverAssumption DEF IInv
<1>6. ASSUME NEW i \in 1 .. count
      PROVE  /\ Fresh[i].n \in Packet /\ Fresh[i].n = Fresh[1].n + i - 1
             /\ Fresh[i].seq = Fresh[1].seq + i - 1
             /\ Fresh[i].seq = Number(Fresh[i].n)
             /\ valid => Fresh[i].seq >= expected
  <2>1. i \in 1 .. Len(Fresh) /\ i \in Nat
    BY <1>1
  <2>2. Fresh[i].seq = Fresh[1].seq + i - 1
    BY DEF Continuous
  <2>3. Fresh[i].n \in Int /\ Fresh[1].n \in Int
    BY <1>1, <1>3, <2>1 DEF Packet
  <2>4. Fresh[i].n + Shift = Fresh[1].n + Shift + i - 1
    <3>1. Fresh[i].seq = Fresh[i].n + Shift /\ Fresh[1].seq = Fresh[1].n + Shift
      BY <1>1, <1>3, <2>1 DEF Number
    <3> QED
      BY <2>2, <3>1
  <2> QED
    <3>1. Fresh[i].n = Fresh[1].n + i - 1
      <4> DEFINE a == Fresh[i].n
                 b == Fresh[1].n
      <4>1. a \in Int /\ b \in Int /\ Shift \in Int /\ i \in Int
        BY <1>4, <2>1, <2>3
      <4>2. a + Shift = b + Shift + i - 1
        BY <2>4
      <4> HIDE DEF a, b
      <4>3. a = b + i - 1
        BY <4>1, <4>2
      <4> QED
        BY <4>3 DEF a, b
    <3>2. Fresh[i].n \in Packet /\ Fresh[i].seq = Number(Fresh[i].n)
      BY <1>1, <2>1
    <3>3. valid => Fresh[i].seq >= expected
      BY <1>1, <2>1
    <3> QED
      BY <2>2, <3>1, <3>2, <3>3
<1>7. /\ Fresh[count].seq = Fresh[1].seq + count - 1
      /\ Fresh[count].seq = Number(Fresh[count].n)
      /\ Fresh[count].n \in Packet /\ Fresh[1].seq \in Nat /\ count \in Nat
  BY <1>1, <1>3, <1>6
<1>8. Fresh[1].seq + count <= Number(Length)
  <2>1. Fresh[count].seq = Fresh[count].n + Shift /\ Number(Length) = Length + Shift
    BY <1>7 DEF Number
  <2>2. /\ Fresh[count].n \in Int /\ Fresh[count].n + 1 <= Length
        /\ Fresh[1].seq \in Int /\ count \in Int /\ Length \in Int
    BY <1>5, <1>7 DEF Packet
  <2>3. \A a, b, c, h, k : /\ a \in Int /\ b \in Int /\ c \in Int /\ h \in Int /\ k \in Int
                           /\ a + h = b + c - 1 /\ a + 1 <= k
                           => b + c <= k + h
    OBVIOUS
  <2>4. Fresh[count].n + Shift = Fresh[1].seq + count - 1
    BY <1>7, <2>1
  <2>5. Fresh[1].seq + count <= Length + Shift
    BY <1>4, <2>2, <2>3, <2>4
  <2> QED
    BY <2>1, <2>5
<1>9. Fresh[1].seq + count < WideMod
  BY <1>4, <1>5, <1>7, <1>8 DEF Number
<1>10. expected' = Fresh[1].seq + count
  <2>1. Fresh[1].seq + count \in Nat /\ WideMod \in Nat \ {0}
    BY <1>7, ReceiverAssumption
  <2>2. (Fresh[1].seq + count) % WideMod = Fresh[1].seq + count
    BY <1>9, <2>1
  <2> QED
    BY <2>2 DEF Consume, NumberAfter
<1>11. expected' = Number(Fresh[count].n) + 1
  BY <1>7, <1>10
<1>12. \A i \in 1 .. count : Number(Fresh[i].n) < expected'
  BY <1>6, <1>7, <1>10
<1>13. \A i \in 1 .. count : valid => Number(Fresh[i].n) >= expected
  BY <1>6
<1> QED
  BY <1>2, <1>3, <1>6, <1>7, <1>8, <1>10, <1>11, <1>12, <1>13 DEF Consume

-----------------------------------------------------------------------------
(* What an assembler puts together.                                        *)

LEMMA ToSetAppend ==
  ASSUME NEW S, NEW s \in Seq(S), NEW x \in S
  PROVE  ToSet(Append(s, x)) = ToSet(s) \cup {x}
<1>1. /\ Len(Append(s, x)) = Len(s) + 1 /\ Append(s, x) \in Seq(S)
      /\ \A i \in 1 .. Len(s) : Append(s, x)[i] = s[i]
      /\ Append(s, x)[Len(s) + 1] = x
  BY AppendProperties
<1>2. /\ DOMAIN s = 1 .. Len(s) /\ Len(s) \in Nat
      /\ DOMAIN Append(s, x) = 1 .. Len(s) + 1
  BY <1>1, LenProperties
<1> QED
  BY <1>1, <1>2 DEF ToSet

LEMMA OutputIs ==
  ASSUME TypeOK
  PROVE  /\ nals \in Seq(Seq(Packet)) /\ units \in Seq(Unit)
         /\ DOMAIN nals = 1 .. Len(nals) /\ Len(nals) \in Nat
         /\ DOMAIN units = 1 .. Len(units) /\ Len(units) \in Nat
         /\ ToSet(nals) \subseteq Seq(Packet)
         /\ ToSet(nals) \subseteq NALUnits
         /\ \A k \in DOMAIN units : /\ units[k].nals \in Seq(Seq(Packet))
                                    /\ units[k].damaged \in BOOLEAN
                                    /\ ToSet(units[k].nals) \subseteq NALUnits
<1>1. nals \in Seq(Seq(Packet)) /\ units \in Seq(Unit)
  BY DEF TypeOK, OutputTypes
<1>2. /\ DOMAIN nals = 1 .. Len(nals) /\ Len(nals) \in Nat
      /\ DOMAIN units = 1 .. Len(units) /\ Len(units) \in Nat
  BY <1>1, LenProperties
<1>3. \A i \in DOMAIN nals : nals[i] \in Seq(Packet)
  BY <1>1, <1>2, ElementOfSeq
<1>4. \A k \in DOMAIN units : units[k] \in Unit
  BY <1>1, <1>2, ElementOfSeq
<1>5. \A k \in DOMAIN units : units[k].nals \in Seq(Seq(Packet))
                              /\ units[k].damaged \in BOOLEAN
  BY <1>4 DEF Unit
<1>6. ToSet(nals) \subseteq Seq(Packet)
  BY <1>3 DEF ToSet
<1>7. /\ ToSet(nals) \subseteq NALUnits
      /\ \A k \in DOMAIN units : ToSet(units[k].nals) \subseteq NALUnits
  BY DEF NALUnits
<1> QED
  BY <1>1, <1>2, <1>5, <1>6, <1>7

\* A list in order that is continued by what comes later.
LEMMA SequenceExtends ==
  ASSUME NEW S, NEW us \in Seq(S), NEW u \in S, InSequence(us),
         \A v \in ToSet(us) : AllBefore(v, u)
  PROVE  InSequence(Append(us, u))
<1>1. /\ Len(Append(us, u)) = Len(us) + 1 /\ Append(us, u) \in Seq(S)
      /\ \A i \in 1 .. Len(us) : Append(us, u)[i] = us[i]
      /\ Append(us, u)[Len(us) + 1] = u
  BY AppendProperties
<1>2. /\ DOMAIN us = 1 .. Len(us) /\ Len(us) \in Nat
      /\ DOMAIN Append(us, u) = 1 .. Len(us) + 1
  BY <1>1, LenProperties
<1>3. ASSUME NEW i \in DOMAIN Append(us, u), NEW j \in DOMAIN Append(us, u), i < j
      PROVE  AllBefore(Append(us, u)[i], Append(us, u)[j])
  <2>1. i \in 1 .. Len(us)
    BY <1>2, <1>3
  <2>2. CASE j \in 1 .. Len(us)
    BY <1>1, <1>2, <1>3, <2>1, <2>2 DEF InSequence
  <2>3. CASE j = Len(us) + 1
    BY <1>1, <1>2, <2>1, <2>3 DEF ToSet
  <2> QED
    BY <1>2, <2>2, <2>3
<1> QED
  BY <1>3 DEF InSequence

\* All posted access units are in order.
PostedInOrder(us) ==
    \A k \in DOMAIN us :
        /\ InSequence(us[k].nals)
        /\ \A l \in DOMAIN us : k < l => Precede(us[k].nals, us[l].nals)

\* Posting what was collected, or what is left of it.
LEMMA PostingKeepsOrder ==
  ASSUME TypeOK, NEW c \in Unit, PostedInOrder(units), InSequence(c.nals),
         \A k \in DOMAIN units : Precede(units[k].nals, c.nals)
  PROVE  /\ PostedInOrder(Append(units, c))
         /\ UNION {ToSet(Append(units, c)[k].nals) : k \in DOMAIN Append(units, c)}
              = ToSet(c.nals) \cup UNION {ToSet(units[k].nals) : k \in DOMAIN units}
<1>1. /\ Len(Append(units, c)) = Len(units) + 1 /\ Append(units, c) \in Seq(Unit)
      /\ \A i \in 1 .. Len(units) : Append(units, c)[i] = units[i]
      /\ Append(units, c)[Len(units) + 1] = c
  BY OutputIs, AppendProperties
<1>2. /\ DOMAIN units = 1 .. Len(units) /\ Len(units) \in Nat
      /\ DOMAIN Append(units, c) = 1 .. Len(units) + 1
  BY <1>1, OutputIs, LenProperties
<1> DEFINE us == Append(units, c)
<1> HIDE DEF us
<1>3. /\ DOMAIN us = DOMAIN units \cup {Len(units) + 1}
      /\ Len(units) + 1 \notin DOMAIN units
      /\ us[Len(units) + 1] = c
      /\ \A k \in DOMAIN units : us[k] = units[k] /\ ~(Len(units) + 1 < k)
  BY <1>1, <1>2 DEF us
<1>4. ASSUME NEW k \in DOMAIN us
      PROVE  /\ InSequence(us[k].nals)
             /\ \A l \in DOMAIN us : k < l => Precede(us[k].nals, us[l].nals)
  <2>1. CASE k \in DOMAIN units
    BY <1>3, <2>1 DEF PostedInOrder
  <2>2. CASE k = Len(units) + 1
    BY <1>2, <1>3, <2>2
  <2> QED
    BY <1>3, <2>1, <2>2
<1>5. PostedInOrder(us)
  BY <1>4 DEF PostedInOrder
<1>6. UNION {ToSet(us[k].nals) : k \in DOMAIN us}
        = ToSet(c.nals) \cup UNION {ToSet(units[k].nals) : k \in DOMAIN units}
  BY <1>3
<1> QED
  BY <1>5, <1>6 DEF us

LEMMA OrderIs ==
  Ordered <=> /\ \A u \in NALUnits : \A i, j \in DOMAIN u : i < j => u[i] < u[j]
              /\ InSequence(nals) /\ PostedInOrder(units)
              /\ \A k \in DOMAIN units : Precede(units[k].nals, nals)
BY DEF Ordered, PostedInOrder

\* What the first count packets of the queue make.
FirstOf(count) == [i \in 1 .. count |-> Fresh[i].n]

LEMMA TakenIs ==
  ASSUME IInv, NEW count \in 1 .. Len(Fresh), Consume(count),
         \A i \in 1 .. count : Continuous(Fresh, i)
  PROVE  /\ FirstOf(count) \in Seq(Packet) /\ Len(FirstOf(count)) = count
         /\ DOMAIN FirstOf(count) = 1 .. count
         /\ FirstOf(count)[1] = Fresh[1].n
         /\ Number(FirstOf(count)[count]) + 1 = expected'
         /\ \A p \in ToSet(FirstOf(count)) :
              Number(p) < expected' /\ (valid => Number(p) >= expected)
         /\ \A i, j \in DOMAIN FirstOf(count) :
              i < j => FirstOf(count)[i] < FirstOf(count)[j]
         /\ \A v \in NALUnits : AllBefore(v, FirstOf(count))
<1>1. /\ valid' /\ Received
      /\ expected' = Number(Fresh[count].n) + 1
      /\ \A i \in 1 .. count :
           /\ Fresh[i].n \in Packet /\ Fresh[i].n = Fresh[1].n + i - 1
           /\ Number(Fresh[i].n) < expected'
           /\ valid => Number(Fresh[i].n) >= expected
  BY ConsumedAre
<1>2. Len(Fresh) \in Nat /\ count \in Nat /\ 1 \in 1 .. count
  BY FreshIs DEF IInv
<1> DEFINE u == FirstOf(count)
<1>3. /\ u \in [1 .. count -> Packet] /\ DOMAIN u = 1 .. count
      /\ \A i \in 1 .. count : u[i] = Fresh[i].n
  BY <1>1 DEF FirstOf
<1>4. u \in Seq(Packet) /\ Len(u) = count
  BY <1>2, <1>3
<1> HIDE DEF u
<1>5. \A p \in ToSet(u) :
        p \in Packet /\ Number(p) < expected' /\ (valid => Number(p) >= expected)
  BY <1>1, <1>3 DEF ToSet
<1>6. ASSUME NEW i \in DOMAIN u, NEW j \in DOMAIN u, i < j PROVE u[i] < u[j]
  <2>1. Fresh[1].n \in Int
    BY <1>1, <1>2 DEF Packet
  <2>2. u[i] = Fresh[1].n + i - 1 /\ u[j] = Fresh[1].n + j - 1 /\ i \in Int /\ j \in Int
    BY <1>1, <1>3
  <2> QED
    BY <1>6, <2>1, <2>2
<1>7. ASSUME NEW v \in NALUnits, NEW p \in ToSet(v), NEW q \in ToSet(u)
      PROVE  p < q
  <2>1. p \in Used
    BY <1>7 DEF Used
  <2>2. valid /\ Number(p) < expected
    BY <2>1 DEF IInv, OutputInv, Behind
  <2>3. q \in Packet /\ Number(q) >= expected
    BY <1>5, <2>2
  <2>4. v \in Seq(Packet)
    <3>1. CASE v \in ToSet(nals)
      BY <3>1, OutputIs DEF IInv
    <3>2. CASE v \notin ToSet(nals)
      <4>1. PICK k \in DOMAIN units : v \in ToSet(units[k].nals)
        BY <3>2 DEF NALUnits
      <4>2. units[k].nals \in Seq(Seq(Packet))
        BY OutputIs DEF IInv
      <4> QED
        BY <4>1, <4>2, ElementOfSeq, LenProperties DEF ToSet
    <3> QED
      BY <3>1, <3>2
  <2>5. p \in Packet
    BY <2>4, ElementOfSeq, LenProperties DEF ToSet
  <2>6. Shift \in Int /\ p \in Int /\ q \in Int /\ expected \in Int
    BY <1>1, <2>3, <2>5, ShiftIs DEF IInv, TypeOK, SourceTypes, Packet
  <2> QED
    BY <2>2, <2>3, <2>6 DEF Number
<1>8. \A v \in NALUnits : AllBefore(v, u)
  BY <1>7 DEF AllBefore
<1> QED
  BY <1>1, <1>2, <1>3, <1>4, <1>5, <1>6, <1>8 DEF u

LEMMA UsedIs ==
  ASSUME TypeOK
  PROVE  /\ \A v \in NALUnits : v \in Seq(Packet)
         /\ Used \subseteq Packet
<1>1. ASSUME NEW v \in NALUnits PROVE v \in Seq(Packet)
  <2>1. CASE v \in ToSet(nals)
    BY <2>1, OutputIs
  <2>2. CASE v \notin ToSet(nals)
    <3>1. PICK k \in DOMAIN units : v \in ToSet(units[k].nals)
      BY <2>2 DEF NALUnits
    <3>2. units[k].nals \in Seq(Seq(Packet))
      BY OutputIs
    <3> QED
      BY <3>1, <3>2, ElementOfSeq, LenProperties DEF ToSet
  <2> QED
    BY <2>1, <2>2
<1>2. ASSUME NEW p \in Used PROVE p \in Packet
  <2>1. PICK v \in NALUnits : p \in ToSet(v)
    BY DEF Used
  <2> QED
    BY <1>1, <2>1, ElementOfSeq, LenProperties DEF ToSet
<1> QED
  BY <1>1, <1>2

\* What was used stays behind what is expected.
LEMMA BehindIs ==
  ASSUME IInv, NEW p \in Used
  PROVE  valid /\ Received /\ Number(p) \in Int /\ expected \in Int /\ Number(p) < expected
<1>1. valid /\ Number(p) < expected
  BY DEF IInv, OutputInv, Behind
<1>2. Received
  BY <1>1 DEF IInv, SourceInv, Silent
<1>3. Shift \in Int /\ p \in Int /\ expected \in Int
  BY <1>2, ShiftIs, UsedIs DEF IInv, TypeOK, SourceTypes, Packet
<1> QED
  BY <1>1, <1>2, <1>3 DEF Number

\* Nothing is added to the units.
LEMMA SameUnitsKept ==
  ASSUME IInv, UNCHANGED <<stream, firstIn, nals, units>>,
         damaged' \in BOOLEAN, expected' \in Int,
         valid => valid' /\ expected' >= expected,
         stream.format \notin {"AMR", "LATM"} =>
           damaged' \/ (damaged' = damaged /\ (valid => expected' = expected))
  PROVE  OutputTypes' /\ OutputInv'
<1>1. OutputTypes'
  BY SameStream DEF IInv, TypeOK, OutputTypes
<1>2. AllWhole' /\ Ordered' /\ Used' = Used
  BY SameOutput DEF IInv, OutputInv
<1>3. Behind'
  <2> SUFFICES ASSUME NEW p \in Used PROVE valid' /\ Number(p)' < expected'
    BY <1>2 DEF Behind
  <2>1. Number(p)' = Number(p)
    BY SameStream
  <2> QED
    BY <2>1, BehindIs
<1>4. Collecting'
  BY SameStream DEF IInv, OutputInv, Collecting
<1>5. Marking' /\ Marked'
  BY SameStream DEF IInv, OutputInv, Collecting, Marking, Marked, Contiguous, Joined
<1> QED
  BY <1>1, <1>2, <1>3, <1>4, <1>5 DEF OutputInv

\* One unit more at most, of packets in front of what is expected next.
LEMMA UnitsGrow ==
  ASSUME IInv, UNCHANGED <<stream, firstIn>>, NEW u \in Seq(Packet), IsWhole(u),
         \A i, j \in DOMAIN u : i < j => u[i] < u[j],
         NALUnits' \subseteq NALUnits \cup {u},
         valid', expected' \in Int, valid => expected' >= expected,
         \A p \in ToSet(u) : Number(p) < expected'
  PROVE  /\ Behind' /\ AllWhole'
         /\ \A v \in NALUnits' : \A i, j \in DOMAIN v : i < j => v[i] < v[j]
<1>1. AllWhole'
  BY DEF IInv, OutputInv, AllWhole, IsWhole, Kind
<1>2. \A v \in NALUnits' : \A i, j \in DOMAIN v : i < j => v[i] < v[j]
  BY DEF IInv, OutputInv, Ordered
<1>3. Used' \subseteq Used \cup ToSet(u)
  BY DEF Used
<1>4. ASSUME NEW p \in Used' PROVE Number(p)' < expected'
  <2>1. Number(p)' = Number(p)
    BY SameStream
  <2>2. CASE p \in ToSet(u)
    BY <2>1, <2>2
  <2>3. CASE p \in Used
    BY <2>1, <2>3, BehindIs
  <2> QED
    BY <1>3, <2>2, <2>3
<1>5. Behind'
  BY <1>4 DEF Behind
<1> QED
  BY <1>1, <1>2, <1>5

LEMMA CollectedIs ==
  ASSUME IInv
  PROVE  /\ Collected \in Unit /\ Collected.damaged = damaged
         /\ stream.format # "LATM" => Collected.nals = nals
         /\ ToSet(Collected.nals) \subseteq ToSet(nals)
         /\ InSequence(Collected.nals)
         /\ \A k \in DOMAIN units : Precede(units[k].nals, Collected.nals)
<1>1. /\ nals \in Seq(Seq(Packet)) /\ <<>> \in Seq(Seq(Packet)) /\ damaged \in BOOLEAN
      /\ InSequence(nals) /\ \A k \in DOMAIN units : Precede(units[k].nals, nals)
  BY EmptySeq DEF IInv, TypeOK, OutputTypes, OutputInv, Ordered
<1>2. /\ ToSet(<<>>) = {} /\ InSequence(<<>>)
      /\ \A k \in DOMAIN units : Precede(units[k].nals, <<>>)
  BY DEF ToSet, InSequence, Precede
<1>3. CASE Garbles
  BY <1>1, <1>2, <1>3 DEF Collected, Unit, Garbles
<1>4. CASE ~Garbles
  BY <1>1, <1>4 DEF Collected, Unit
<1> QED
  BY <1>3, <1>4

\* submitAccessUnit() keeps the order.
LEMMA SubmitIs ==
  ASSUME IInv, UNCHANGED stream, units' = Append(units, Collected)
  PROVE  /\ units' \in Seq(Unit) /\ PostedInOrder(units')
         /\ UNION {ToSet(units'[k].nals) : k \in DOMAIN units'} \subseteq NALUnits
         /\ DOMAIN units' = 1 .. Len(units) + 1 /\ Len(units') = Len(units) + 1
         /\ \A k \in 1 .. Len(units) : units'[k] = units[k]
         /\ units'[Len(units) + 1] = Collected
<1>1. /\ Collected \in Unit /\ ToSet(Collected.nals) \subseteq ToSet(nals)
      /\ InSequence(Collected.nals)
      /\ \A k \in DOMAIN units : Precede(units[k].nals, Collected.nals)
  BY CollectedIs
<1>2. PostedInOrder(units) /\ TypeOK
  BY OrderIs DEF IInv, OutputInv
<1>3. /\ PostedInOrder(units')
      /\ UNION {ToSet(units'[k].nals) : k \in DOMAIN units'}
           = ToSet(Collected.nals) \cup UNION {ToSet(units[k].nals) : k \in DOMAIN units}
  BY <1>1, <1>2, PostingKeepsOrder
<1>4. /\ units' \in Seq(Unit) /\ Len(units') = Len(units) + 1
      /\ \A k \in 1 .. Len(units) : units'[k] = units[k]
      /\ units'[Len(units) + 1] = Collected
  BY <1>1, <1>2, OutputIs, AppendProperties
<1>5. DOMAIN units' = 1 .. Len(units) + 1
  BY <1>4, LenProperties
<1> QED
  BY <1>1, <1>3, <1>4, <1>5 DEF NALUnits

\* A new unit behind all of them, or after those of the access unit.
LEMMA AppendingKeepsOrder ==
  ASSUME IInv, NEW u \in Seq(Packet), \A v \in NALUnits : AllBefore(v, u)
  PROVE  /\ Append(nals, u) \in Seq(Seq(Packet))
         /\ InSequence(Append(nals, u)) /\ InSequence(<<u>>)
         /\ \A k \in DOMAIN units : Precede(units[k].nals, Append(nals, u))
         /\ Precede(nals, <<u>>)
         /\ \A k \in DOMAIN units : Precede(units[k].nals, <<u>>)
         /\ ToSet(Append(nals, u)) = ToSet(nals) \cup {u}
<1>1. /\ nals \in Seq(Seq(Packet)) /\ ToSet(nals) \subseteq NALUnits
      /\ \A k \in DOMAIN units : ToSet(units[k].nals) \subseteq NALUnits
  BY OutputIs DEF IInv
<1>2. /\ InSequence(nals) /\ \A k \in DOMAIN units : Precede(units[k].nals, nals)
  BY DEF IInv, OutputInv, Ordered
<1>3. ToSet(Append(nals, u)) = ToSet(nals) \cup {u} /\ ToSet(<<u>>) = {u}
  <2>1. ToSet(Append(nals, u)) = ToSet(nals) \cup {u}
    BY <1>1, ToSetAppend
  <2>2. ToSet(<<u>>) = {u}
    BY DEF ToSet
  <2> QED
    BY <2>1, <2>2
<1>4. InSequence(Append(nals, u))
  BY <1>1, <1>2, SequenceExtends
<1>5. InSequence(<<u>>)
  BY DEF InSequence
<1>6. \A k \in DOMAIN units : Precede(units[k].nals, Append(nals, u))
  BY <1>1, <1>2, <1>3 DEF Precede
<1>7. Precede(nals, <<u>>) /\ \A k \in DOMAIN units : Precede(units[k].nals, <<u>>)
  BY <1>1, <1>3 DEF Precede
<1> QED
  BY <1>1, <1>3, <1>4, <1>5, <1>6, <1>7, AppendProperties

\* Added to the access unit that is being collected.
LEMMA AppendedInOrder ==
  ASSUME IInv, UNCHANGED <<stream, firstIn, units>>, NEW u \in Seq(Packet), IsWhole(u),
         \A i, j \in DOMAIN u : i < j => u[i] < u[j],
         \A v \in NALUnits : AllBefore(v, u), nals' = Append(nals, u),
         valid', expected' \in Int, valid => expected' >= expected,
         \A p \in ToSet(u) : Number(p) < expected', damaged' \in BOOLEAN
  PROVE  OutputTypes' /\ Behind' /\ AllWhole' /\ Ordered'
<1>1. /\ nals' \in Seq(Seq(Packet)) /\ InSequence(nals')
      /\ \A k \in DOMAIN units' : Precede(units'[k].nals, nals')
      /\ ToSet(nals') = ToSet(nals) \cup {u}
  BY AppendingKeepsOrder
<1>2. NALUnits' \subseteq NALUnits \cup {u}
  BY <1>1 DEF NALUnits
<1>3. /\ Behind' /\ AllWhole'
      /\ \A v \in NALUnits' : \A i, j \in DOMAIN v : i < j => v[i] < v[j]
  BY <1>2, UnitsGrow
<1>4. PostedInOrder(units')
  BY OrderIs DEF IInv, OutputInv
<1>5. Ordered'
  BY <1>1, <1>3, <1>4 DEF Ordered, PostedInOrder
<1>6. OutputTypes'
  BY <1>1, SameStream DEF IInv, TypeOK, OutputTypes
<1> QED
  BY <1>3, <1>5, <1>6

\* The first of an access unit, the one before it being posted.
LEMMA SubmittedInOrder ==
  ASSUME IInv, UNCHANGED <<stream, firstIn>>, NEW u \in Seq(Packet), IsWhole(u),
         \A i, j \in DOMAIN u : i < j => u[i] < u[j],
         \A v \in NALUnits : AllBefore(v, u), nals' = <<u>>,
         units' = Append(units, Collected),
         valid', expected' \in Int, valid => expected' >= expected,
         \A p \in ToSet(u) : Number(p) < expected', damaged' \in BOOLEAN
  PROVE  OutputTypes' /\ Behind' /\ AllWhole' /\ Ordered'
<1>1. /\ units' \in Seq(Unit) /\ PostedInOrder(units')
      /\ UNION {ToSet(units'[k].nals) : k \in DOMAIN units'} \subseteq NALUnits
      /\ DOMAIN units' = 1 .. Len(units) + 1 /\ Len(units') = Len(units) + 1
      /\ \A k \in 1 .. Len(units) : units'[k] = units[k]
      /\ units'[Len(units) + 1] = Collected
  BY SubmitIs
<1>2. ToSet(nals') = {u} /\ InSequence(nals')
  BY AppendingKeepsOrder DEF ToSet
<1>3. NALUnits' \subseteq NALUnits \cup {u}
  BY <1>1, <1>2 DEF NALUnits
<1>4. /\ Behind' /\ AllWhole'
      /\ \A v \in NALUnits' : \A i, j \in DOMAIN v : i < j => v[i] < v[j]
  BY <1>3, UnitsGrow
<1>5. \A k \in DOMAIN units' : Precede(units'[k].nals, nals')
  <2>1. \A k \in DOMAIN units' : ToSet(units'[k].nals) \subseteq NALUnits
    BY <1>1
  <2> QED
    BY <1>2, <2>1 DEF Precede
<1>6. Ordered'
  BY <1>1, <1>2, <1>4, <1>5 DEF Ordered, PostedInOrder
<1>7. OutputTypes'
  <2>1. nals' \in Seq(Seq(Packet))
    OBVIOUS
  <2> QED
    BY <1>1, <2>1, SameStream DEF OutputTypes
<1> QED
  BY <1>4, <1>6, <1>7

\* The access unit posted follows the one before without a hole, or one of
\* them is marked.
LEMMA HolesAfterSubmit ==
  ASSUME IInv, UNCHANGED stream, stream.format \notin {"AMR", "LATM"},
         nals # <<>>, units' = Append(units, Collected)
  PROVE  Marked' /\ \A k \in DOMAIN units' : units'[k].nals # <<>>
<1>1. /\ DOMAIN units' = 1 .. Len(units) + 1 /\ Len(units') = Len(units) + 1
      /\ \A k \in 1 .. Len(units) : units'[k] = units[k]
      /\ units'[Len(units) + 1] = Collected
  BY SubmitIs
<1>2. DOMAIN units = 1 .. Len(units) /\ Len(units) \in Nat
  BY OutputIs DEF IInv
<1>3. Collected.nals = nals /\ Collected.damaged = damaged
  BY CollectedIs
<1>4. Marking /\ Marked
  BY DEF IInv, OutputInv
<1>5. ASSUME NEW k \in DOMAIN units'
      PROVE  Contiguous(units'[k].nals) \/ units'[k].damaged
  <2>1. CASE k \in DOMAIN units
    BY <1>1, <1>2, <1>4, <2>1 DEF Marked
  <2>2. CASE k = Len(units) + 1
    BY <1>1, <1>3, <1>4, <2>2 DEF Marking
  <2> QED
    BY <1>1, <1>2, <2>1, <2>2
<1>6. ASSUME NEW k \in 1 .. Len(units') - 1
      PROVE  \/ Joined(Last(units'[k].nals), Head(units'[k + 1].nals))
             \/ units'[k].damaged
             \/ units'[k + 1].damaged
  <2>1. CASE k <= Len(units) - 1
    <3>1. k \in 1 .. Len(units) - 1 /\ k \in 1 .. Len(units) /\ k + 1 \in 1 .. Len(units)
      BY <1>1, <1>2, <2>1
    <3> QED
      BY <1>1, <1>4, <3>1 DEF Marked
  <2>2. CASE k = Len(units)
    <3>1. units # <<>> /\ units'[k] = Last(units) /\ units'[k + 1] = Collected
      BY <1>1, <1>2, <2>2 DEF Last
    <3> QED
      BY <1>3, <1>4, <3>1 DEF Marking
  <2>3. k <= Len(units) - 1 \/ k = Len(units)
    <3>1. k \in 1 .. Len(units) + 1 - 1
      BY <1>1
    <3>2. \A m \in Nat : \A j \in 1 .. m + 1 - 1 : j <= m - 1 \/ j = m
      OBVIOUS
    <3> QED
      BY <1>2, <3>1, <3>2
  <2> QED
    BY <2>1, <2>2, <2>3
<1>7. \A k \in DOMAIN units' : units'[k].nals # <<>>
  BY <1>1, <1>2, <1>3, <1>4 DEF Marking
<1>8. Marked'
  BY <1>5, <1>6 DEF Marked, Contiguous, Joined
<1> QED
  BY <1>7, <1>8

\* The packet after which the next was expected.
LEMMA LastCollected ==
  ASSUME IInv, nals # <<>>
  PROVE  /\ Len(nals) >= 1 /\ Last(nals) = nals[Len(nals)]
         /\ Last(Last(nals)) = Last(nals)[Len(Last(nals))]
         /\ Last(Last(nals)) \in Packet
<1>1. nals \in Seq(Seq(Packet)) /\ DOMAIN nals = 1 .. Len(nals) /\ Len(nals) \in Nat
  BY OutputIs DEF IInv
<1>2. Len(nals) >= 1
  BY <1>1, EmptySeq
<1>3. Last(nals) = nals[Len(nals)] /\ Len(nals) \in DOMAIN nals
  BY <1>1, <1>2 DEF Last
<1>4. Last(nals) \in ToSet(nals)
  BY <1>3 DEF ToSet
<1>5. Last(nals) \in NALUnits /\ Last(nals) \in Seq(Packet)
  BY <1>4, OutputIs DEF IInv
<1>6. Len(Last(nals)) >= 1
  BY <1>5 DEF IInv, OutputInv, AllWhole, IsWhole
<1>7. Last(Last(nals)) = Last(nals)[Len(Last(nals))]
  BY DEF Last
<1>8. Last(nals)[Len(Last(nals))] \in Packet
  <2>1. Len(Last(nals)) \in 1 .. Len(Last(nals))
    BY <1>5, <1>6, LenProperties
  <2> QED
    BY <1>5, <2>1, ElementOfSeq
<1> QED
  BY <1>2, <1>3, <1>7, <1>8

LEMMA AddUnitKeepsOutput ==
  ASSUME IInv, UNCHANGED assemblyFrame, Collects, HeadIsNext,
         NEW count \in 1 .. Len(Fresh), \A i \in 1 .. count : Continuous(Fresh, i),
         AddUnit(count), Consume(count), IsWhole(FirstOf(count)),
         damaged' \in BOOLEAN, DamagedAfterSubmit(Fresh[1].n) => damaged'
  PROVE  OutputTypes' /\ OutputInv'
<1> DEFINE u == FirstOf(count)
<1>1. UNCHANGED <<stream, firstIn>>
  BY DEF assemblyFrame, sourceVars
<1>2. /\ u \in Seq(Packet) /\ Len(u) = count
      /\ DOMAIN u = 1 .. count
      /\ u[1] = Fresh[1].n
      /\ Number(u[count]) + 1 = expected'
      /\ \A p \in ToSet(u) : Number(p) < expected' /\ (valid => Number(p) >= expected)
      /\ \A i, j \in DOMAIN u : i < j => u[i] < u[j]
      /\ \A v \in NALUnits : AllBefore(v, u)
  BY TakenIs
<1>3. /\ valid' /\ Received /\ expected' \in Nat
      /\ \A i \in 1 .. count :
           /\ Fresh[i].n \in Packet
           /\ Number(Fresh[i].n) < expected'
           /\ valid => Number(Fresh[i].n) >= expected
  BY ConsumedAre
<1>4. Len(Fresh) \in Nat /\ 1 \in 1 .. count /\ 1 \in 1 .. Len(Fresh) /\ count \in 1 .. count
  BY FreshIs DEF IInv
<1>5. /\ Shift \in Int /\ expected \in Nat /\ Fresh[1].n \in Int
      /\ Fresh[1].seq = Number(Fresh[1].n)
      /\ valid => Number(u[1]) = expected
  <2>1. Shift \in Int /\ expected \in Nat
    BY <1>3, ShiftIs DEF IInv, TypeOK, SourceTypes
  <2>2. Fresh[1].seq = Number(Fresh[1].n) /\ Fresh[1].n \in Int
    BY <1>4, FreshIs DEF IInv, Packet
  <2> QED
    BY <1>2, <2>1, <2>2 DEF HeadIsNext
<1>6. expected' \in Int /\ (valid => expected' >= expected)
  <2>1. Number(Fresh[1].n) \in Int
    BY <1>5 DEF Number
  <2> QED
    BY <1>3, <1>4, <1>5, <2>1
<1>7. /\ \A n : Number(n)' = Number(n)
      /\ Collects' = Collects
  BY <1>1, SameStream
<1> HIDE DEF u
<1>8. nals' = IF Submits(Fresh[1].n) THEN <<u>> ELSE Append(nals, u)
  BY DEF AddUnit, FirstOf, u
<1>9. /\ Len(nals) \in Nat /\ DOMAIN nals = 1 .. Len(nals) /\ nals \in Seq(Seq(Packet))
      /\ Len(units) \in Nat /\ DOMAIN units = 1 .. Len(units) /\ units \in Seq(Unit)
  BY OutputIs DEF IInv
<1>10. /\ u[Len(u)] \in Packet /\ Number(u[Len(u)]) + 1 = expected'
       /\ Len(u) = count /\ count \in Nat
  BY <1>2, <1>4, ElementOfSeq
<1>11. CASE ~Submits(Fresh[1].n)
  <2>1. nals' = Append(nals, u) /\ units' = units
    BY <1>8, <1>11 DEF AddUnit
  <2>2. OutputTypes' /\ Behind' /\ AllWhole' /\ Ordered'
    BY <1>1, <1>2, <1>3, <1>6, <2>1, AppendedInOrder DEF u
  <2>3. /\ Len(nals') = Len(nals) + 1 /\ nals'[Len(nals) + 1] = u
        /\ \A i \in 1 .. Len(nals) : nals'[i] = nals[i]
        /\ nals' # <<>>
    <3>1. /\ Len(Append(nals, u)) = Len(nals) + 1 /\ Append(nals, u)[Len(nals) + 1] = u
          /\ \A i \in 1 .. Len(nals) : Append(nals, u)[i] = nals[i]
          /\ Append(nals, u) # <<>>
      BY <1>2, <1>9, AppendProperties
    <3> QED
      BY <2>1, <3>1
  <2>4. Collecting'
    BY <1>3, <1>7 DEF Collecting
  <2>5. ASSUME stream.format \notin {"AMR", "LATM"}
        PROVE  Marking' /\ Marked'
    <3>1. Marked'
      BY <1>1, <2>1 DEF IInv, OutputInv, Marked, Contiguous, Joined
    <3>2. damaged => damaged'
      BY <1>11 DEF DamagedAfterSubmit
    <3>3. ~damaged' => Contiguous(nals') /\ Number(Last(Last(nals'))) + 1 = expected'
      <4> SUFFICES ASSUME ~damaged'
                   PROVE Contiguous(nals') /\ Number(Last(Last(nals'))) + 1 = expected'
        OBVIOUS
      <4>1. Last(Last(nals')) = u[Len(u)]
        BY <2>3 DEF Last
      <4>2. Contiguous(nals')
        <5>1. CASE nals = <<>>
          BY <1>9, <2>3, <5>1 DEF Contiguous
        <5>2. CASE nals # <<>>
          <6>1. /\ valid /\ Contiguous(nals)
                /\ Number(Last(Last(nals))) + 1 = expected
            BY <2>5, <3>2, <5>2 DEF IInv, OutputInv, Collecting, Marking
          <6>2. Len(nals) >= 1 /\ Last(nals) = nals[Len(nals)]
            BY <1>9, <5>2, EmptySeq DEF Last
          <6>3. Joined(nals[Len(nals)], u)
            <7>1. /\ Last(Last(nals)) = Last(nals)[Len(Last(nals))]
                  /\ Last(Last(nals)) \in Int
              BY <5>2, LastCollected DEF Packet
            <7>2. Number(u[1]) = Number(Last(Last(nals))) + 1
              BY <1>5, <6>1
            <7>3. u[1] = Last(Last(nals)) + 1
              BY <1>2, <1>5, <7>1, <7>2 DEF Number
            <7> QED
              BY <6>2, <7>1, <7>3 DEF Joined
          <6>4. ASSUME NEW i \in 1 .. Len(nals') - 1 PROVE Joined(nals'[i], nals'[i + 1])
            <7>1. CASE i = Len(nals)
              BY <1>9, <2>3, <6>2, <6>3, <7>1
            <7>2. CASE i \in 1 .. Len(nals) - 1
              <8>1. Joined(nals[i], nals[i + 1])
                BY <6>1, <7>2 DEF Contiguous
              <8>2. i \in 1 .. Len(nals) /\ i + 1 \in 1 .. Len(nals)
                BY <1>9, <7>2
              <8> QED
                BY <2>3, <8>1, <8>2
            <7>3. i = Len(nals) \/ i \in 1 .. Len(nals) - 1
              <8>1. i \in 1 .. Len(nals) + 1 - 1
                BY <2>3
              <8>2. \A m \in Nat : \A j \in 1 .. m + 1 - 1 : j = m \/ j \in 1 .. m - 1
                OBVIOUS
              <8>3. Len(nals) \in Nat
                BY <1>9
              <8> QED
                BY <8>1, <8>2, <8>3
            <7> QED
              BY <7>1, <7>2, <7>3
          <6> QED
            BY <6>4 DEF Contiguous
        <5> QED
          BY <5>1, <5>2
      <4> QED
        BY <1>10, <4>1, <4>2
    <3>4. ASSUME units' # <<>>
          PROVE damaged' \/ Last(units').damaged
                         \/ Joined(Last(Last(units').nals), Head(nals'))
      <4>1. CASE nals = <<>>
        BY <2>1, <2>5, <3>2, <3>4, <4>1 DEF IInv, OutputInv, Marking
      <4>2. CASE nals # <<>>
        <5>1. Head(nals') = Head(nals)
          BY <1>2, <1>9, <2>1, <4>2, HeadTailAppend
        <5> QED
          BY <2>1, <2>5, <3>2, <3>4, <4>2, <5>1 DEF IInv, OutputInv, Marking
      <4> QED
        BY <4>1, <4>2
    <3>5. \A k \in DOMAIN units' : units'[k].nals # <<>>
      BY <2>1, <2>5 DEF IInv, OutputInv, Marking
    <3>6. Marking'
      BY <1>7, <2>3, <3>3, <3>4, <3>5 DEF Marking
    <3> QED
      BY <3>1, <3>6
  <2>6. Marking' /\ Marked'
    BY <1>1, <2>5 DEF Marking, Marked
  <2> QED
    BY <2>2, <2>4, <2>6 DEF OutputInv
<1>12. CASE Submits(Fresh[1].n)
  <2>1. nals' = <<u>> /\ units' = Append(units, Collected) /\ nals # <<>>
    BY <1>8, <1>12 DEF AddUnit, Submits
  <2>2. OutputTypes' /\ Behind' /\ AllWhole' /\ Ordered'
    BY <1>1, <1>2, <1>3, <1>6, <2>1, SubmittedInOrder DEF u
  <2>3. /\ DOMAIN units' = 1 .. Len(units) + 1 /\ Len(units') = Len(units) + 1
        /\ \A k \in 1 .. Len(units) : units'[k] = units[k]
        /\ units'[Len(units) + 1] = Collected
    BY <1>1, <2>1, SubmitIs
  <2>4. Collecting'
    BY <1>3, <1>7 DEF Collecting
  <2>5. ASSUME stream.format \notin {"AMR", "LATM"}
        PROVE  Marking' /\ Marked'
    <3>1. Collected.nals = nals /\ Collected.damaged = damaged
      BY <2>5, CollectedIs
    <3>2. valid /\ (damaged \/ (Contiguous(nals) /\ Number(Last(Last(nals))) + 1 = expected))
      <4>1. Marking /\ Collecting
        BY DEF IInv, OutputInv
      <4> QED
        BY <2>1, <2>5, <4>1 DEF Collecting, Marking
    <3>3. Len(nals) >= 1 /\ Last(nals) = nals[Len(nals)]
      BY <1>9, <2>1, EmptySeq DEF Last
    <3>4. ~damaged => Joined(Last(nals), u)
      <4>1. /\ Last(Last(nals)) = Last(nals)[Len(Last(nals))]
            /\ Last(Last(nals)) \in Int
        BY <2>1, LastCollected DEF Packet
      <4>2. ~damaged => Number(u[1]) = Number(Last(Last(nals))) + 1
        BY <1>5, <3>2
      <4>3. ~damaged => u[1] = Last(Last(nals)) + 1
        BY <1>2, <1>5, <4>1, <4>2 DEF Number
      <4> QED
        BY <4>1, <4>3 DEF Joined
    <3>5. Last(units') = Collected /\ Head(nals') = u /\ Last(Last(nals')) = u[Len(u)]
      <4>1. Last(units') = Collected
        BY <1>9, <2>3 DEF Last
      <4>2. Last(Last(nals')) = u[Len(u)]
        BY <2>1 DEF Last
      <4>3. Head(nals') = u
        BY <2>1
      <4> QED
        BY <4>1, <4>2, <4>3
    <3>6. \A k \in DOMAIN units' : units'[k].nals # <<>>
      BY <1>9, <2>1, <2>3, <2>5, <3>1 DEF IInv, OutputInv, Marking
    <3>7. Contiguous(nals')
      BY <2>1 DEF Contiguous
    <3>8. Number(Last(Last(nals'))) + 1 = expected'
      BY <1>10, <3>5
    <3>9. Marking'
      BY <1>7, <2>1, <3>1, <3>4, <3>5, <3>6, <3>7, <3>8 DEF Marking
    <3>10. Marked'
      BY <1>1, <2>1, <2>5, HolesAfterSubmit
    <3> QED
      BY <3>9, <3>10
  <2>6. Marking' /\ Marked'
    BY <1>1, <2>5 DEF Marking, Marked
  <2> QED
    BY <2>2, <2>4, <2>6 DEF OutputInv
<1> QED
  BY <1>11, <1>12

\* An AMR packet is posted at once.
LEMMA PostPacketKeepsOutput ==
  ASSUME IInv, UNCHANGED assemblyFrame, stream.format = "AMR", Fresh # <<>>,
         Kind(Fresh[1].n) = "single", Consume(1), UNCHANGED <<nals, damaged>>,
         units' = Append(units, [nals |-> << <<Fresh[1].n>> >>, damaged |-> FALSE])
  PROVE  OutputTypes' /\ OutputInv'
<1> DEFINE u == FirstOf(1)
           c == [nals |-> <<u>>, damaged |-> FALSE]
<1>1. UNCHANGED <<stream, firstIn>> /\ nals = <<>>
  BY DEF assemblyFrame, sourceVars, IInv, OutputInv, Collecting, Collects
<1>2. 1 \in 1 .. Len(Fresh) /\ \A i \in 1 .. 1 : Continuous(Fresh, i)
  <2>1. Len(Fresh) \in Nat /\ Len(Fresh) >= 1
    BY FreshIs DEF IInv
  <2>2. Fresh[1].seq \in Nat
    BY <2>1, FreshIs DEF IInv
  <2> QED
    BY <2>1, <2>2 DEF Continuous
<1>3. /\ u \in Seq(Packet) /\ Len(u) = 1 /\ DOMAIN u = 1 .. 1
      /\ u[1] = Fresh[1].n
      /\ \A p \in ToSet(u) : Number(p) < expected' /\ (valid => Number(p) >= expected)
      /\ \A i, j \in DOMAIN u : i < j => u[i] < u[j]
      /\ \A v \in NALUnits : AllBefore(v, u)
  BY <1>2, TakenIs
<1>4. /\ valid' /\ Received /\ expected' \in Nat
      /\ Fresh[1].n \in Packet
      /\ Number(Fresh[1].n) < expected'
      /\ valid => Number(Fresh[1].n) >= expected
  BY <1>2, ConsumedAre
<1>5. expected' \in Int /\ (valid => expected' >= expected)
  <2>1. Number(Fresh[1].n) \in Int /\ expected \in Nat
    BY <1>4, ShiftIs DEF Number, IInv, TypeOK, SourceTypes, Packet
  <2> QED
    BY <1>4, <2>1
<1>6. IsWhole(u)
  BY <1>3 DEF IsWhole
<1>7. u = <<Fresh[1].n>>
  BY DEF FirstOf
<1> HIDE DEF u
<1>8. /\ InSequence(<<u>>) /\ \A k \in DOMAIN units : Precede(units[k].nals, <<u>>)
  BY <1>3, AppendingKeepsOrder
<1>9. c \in Unit /\ c.nals = <<u>>
  BY <1>3 DEF Unit
<1>10. units' = Append(units, c)
  BY <1>7
<1>11. ToSet(<<u>>) = {u} /\ ToSet(<<>>) = {}
  BY DEF ToSet
<1>12. PostedInOrder(units) /\ TypeOK
  BY OrderIs DEF IInv, OutputInv
<1> HIDE DEF c
<1>13. /\ PostedInOrder(units')
       /\ UNION {ToSet(units'[k].nals) : k \in DOMAIN units'}
           = ToSet(c.nals) \cup UNION {ToSet(units[k].nals) : k \in DOMAIN units}
  BY <1>8, <1>9, <1>10, <1>12, PostingKeepsOrder
<1>14. NALUnits' \subseteq NALUnits \cup {u}
  BY <1>1, <1>9, <1>11, <1>13 DEF NALUnits
<1>15. /\ Behind' /\ AllWhole'
       /\ \A v \in NALUnits' : \A i, j \in DOMAIN v : i < j => v[i] < v[j]
  BY <1>1, <1>3, <1>4, <1>5, <1>6, <1>14, UnitsGrow
<1>16. Ordered'
  <2>1. InSequence(nals') /\ \A k \in DOMAIN units' : Precede(units'[k].nals, nals')
    BY <1>1, <1>11 DEF InSequence, Precede
  <2> QED
    BY <1>13, <1>15, <2>1 DEF Ordered, PostedInOrder
<1>17. OutputTypes'
  <2>1. units' \in Seq(Unit)
    BY <1>9, <1>10, <1>12, OutputIs, AppendProperties
  <2> QED
    BY <1>1, <2>1, SameStream DEF IInv, TypeOK, OutputTypes
<1>18. Collecting' /\ Marking' /\ Marked'
  BY <1>1 DEF Collecting, Marking, Marked
<1> QED
  BY <1>15, <1>16, <1>17, <1>18 DEF OutputInv

\* submitAccessUnit(), and the packet that made it come is dropped.
LEMMA SubmitKeepsOutput ==
  ASSUME IInv, UNCHANGED <<stream, firstIn>>, stream.format = "H263", nals # <<>>,
         units' = Append(units, Collected), nals' = <<>>, damaged' = TRUE,
         valid', expected' \in Int, valid => expected' >= expected
  PROVE  OutputTypes' /\ OutputInv'
<1>1. /\ units' \in Seq(Unit) /\ PostedInOrder(units')
      /\ UNION {ToSet(units'[k].nals) : k \in DOMAIN units'} \subseteq NALUnits
  BY SubmitIs
<1>2. ToSet(<<>>) = {}
  BY DEF ToSet
<1>3. NALUnits' \subseteq NALUnits
  BY <1>1, <1>2 DEF NALUnits
<1>4. AllWhole'
  BY <1>3 DEF IInv, OutputInv, AllWhole, IsWhole, Kind
<1>5. Behind'
  <2> SUFFICES ASSUME NEW p \in Used' PROVE Number(p)' < expected'
    BY DEF Behind
  <2>1. p \in Used /\ Number(p)' = Number(p)
    BY <1>3, SameStream DEF Used
  <2> QED
    BY <2>1, BehindIs
<1>6. Ordered'
  <2>1. InSequence(nals') /\ \A k \in DOMAIN units' : Precede(units'[k].nals, nals')
    BY <1>2 DEF InSequence, Precede
  <2>2. \A v \in NALUnits' : \A i, j \in DOMAIN v : i < j => v[i] < v[j]
    BY <1>3 DEF IInv, OutputInv, Ordered
  <2> QED
    BY <1>1, <2>1, <2>2 DEF Ordered, PostedInOrder
<1>7. OutputTypes'
  BY <1>1, SameStream, EmptySeq DEF OutputTypes
<1>8. Marked' /\ \A k \in DOMAIN units' : units'[k].nals # <<>>
  BY HolesAfterSubmit
<1>9. Collecting' /\ Marking'
  BY <1>8 DEF Collecting, Marking
<1> QED
  BY <1>4, <1>5, <1>6, <1>7, <1>8, <1>9 DEF OutputInv

-----------------------------------------------------------------------------
(* The steps of the assemblers.                                            *)

LEMMA HeadIs ==
  ASSUME IInv, Fresh # <<>>
  PROVE  /\ 1 \in 1 .. Len(Fresh) /\ Len(Fresh) \in Nat /\ Received
         /\ \A i \in 1 .. 1 : Continuous(Fresh, i)
         /\ Fresh[1].n \in Packet /\ Fresh[1].seq \in Nat
         /\ Fresh[1].seq + 1 <= Number(Length) /\ Number(Length) \in Int
         /\ Number(Length) + 1 < WideMod
         /\ valid => Fresh[1].seq >= expected
<1>1. 1 \in 1 .. Len(Fresh) /\ Len(Fresh) \in Nat /\ Received
  BY FreshIs DEF IInv
<1>2. /\ Fresh[1].n \in Packet /\ Fresh[1].seq \in Nat
      /\ Fresh[1].seq = Number(Fresh[1].n)
      /\ valid => Fresh[1].seq >= expected
  BY <1>1, FreshIs DEF IInv
<1>3. \A i \in 1 .. 1 : Continuous(Fresh, i)
  BY <1>2 DEF Continuous
<1>4. /\ Shift \in Int /\ Shift <= FirstSeq /\ FirstSeq \in Nat /\ WireMod \in Nat \ {0}
      /\ Length \in Nat /\ FirstSeq + Length + 2 * WireMod <= WideMod /\ WideMod \in Nat
  BY <1>1, ShiftIs, StreamIs, ReceiverAssumption DEF IInv
<1>5. /\ Fresh[1].seq + 1 <= Number(Length) /\ Number(Length) \in Int
      /\ Number(Length) + 1 < WideMod
  BY <1>2, <1>4 DEF Number, Packet
<1> QED
  BY <1>1, <1>2, <1>3, <1>5

\* What is expected has a number of the stream.
LEMMA ExpectedIs ==
  ASSUME IInv, valid
  PROVE  Received /\ expected \in Nat /\ expected <= Number(Length)
BY DEF IInv, TypeOK, SourceTypes, SourceInv, Silent, Expecting

\* The first packets of the queue are used up.
LEMMA ConsumeKeepsSource ==
  ASSUME IInv, UNCHANGED assemblyFrame, NEW count \in 1 .. Len(Fresh),
         \A i \in 1 .. count : Continuous(Fresh, i), Consume(count), Continues
  PROVE  /\ NetTypes' /\ SourceTypes' /\ SourceInv'
         /\ valid' /\ expected' \in Int /\ (valid => expected' >= expected)
<1>1. /\ Leaves(count) /\ valid' /\ Received
      /\ expected' \in Nat /\ expected' <= Number(Length)
      /\ \A i \in 1 .. count :
           /\ Fresh[i].n \in Packet
           /\ Number(Fresh[i].n) < expected'
           /\ valid => Number(Fresh[i].n) >= expected
  BY ConsumedAre
<1>2. age' = NoFailure /\ valid' = TRUE
  BY DEF Continues, Consume
<1>3. Len(Fresh) \in Nat /\ count \in 0 .. Len(Fresh) /\ 1 \in 1 .. count
  BY FreshIs DEF IInv
<1>4. NetTypes' /\ SourceTypes' /\ SourceInv'
  BY <1>1, <1>2, <1>3, SourceKept
<1>5. valid => expected' >= expected
  <2>1. Number(Fresh[1].n) \in Int /\ expected \in Nat
    BY <1>1, <1>3, ShiftIs DEF Number, IInv, TypeOK, SourceTypes, Packet
  <2> QED
    BY <1>1, <1>3, <2>1
<1> QED
  BY <1>1, <1>4, <1>5

\* Nothing is used up: only what is over is erased.
LEMMA WaitKeepsSource ==
  ASSUME IInv, UNCHANGED assemblyFrame, queue' = Fresh, UNCHANGED <<nals, units>>,
         valid' \in BOOLEAN, expected' \in Nat, age' \in Nat \cup {NoFailure},
         valid' => Received /\ expected' <= Number(Length),
         age' # NoFailure => valid'
  PROVE  NetTypes' /\ SourceTypes' /\ SourceInv'
<1>1. Fresh \in Seq(Item) /\ Len(Fresh) \in Nat
  BY FreshIs DEF IInv
<1>2. 0 \in 0 .. Len(Fresh) /\ Leaves(0)
  BY <1>1 DEF Leaves
<1> QED
  BY <1>2, SourceKept

LEMMA RunIs ==
  ASSUME IInv, StartsFragments, NEW i \in 2 .. Len(Fresh), RunStops(i),
         Continuous(Fresh, i)
  PROVE  i \in 1 .. Len(Fresh) /\ \A j \in 1 .. i : Continuous(Fresh, j)
<1>1. Len(Fresh) \in Nat /\ \A j \in 1 .. 1 : Continuous(Fresh, j)
  BY HeadIs DEF StartsFragments, HeadIsNext
<1>2. \A j \in 2 .. i - 1 : Continuous(Fresh, j)
  BY DEF RunStops, Fragment
<1>3. \A j \in 1 .. i : j \in 1 .. 1 \/ j \in 2 .. i - 1 \/ j = i
  BY <1>1
<1> QED
  BY <1>1, <1>2, <1>3

LEMMA AddSingleKeepsIInv ==
  ASSUME IInv, UNCHANGED assemblyFrame, HeadIsNext, Collects,
         Kind(Fresh[1].n) \in {"single", "torn"}, AddUnit(1), Consume(1), Continues,
         damaged' \in BOOLEAN, DamagedAfterSubmit(Fresh[1].n) => damaged'
  PROVE  IInv'
<1>1. 1 \in 1 .. Len(Fresh) /\ \A i \in 1 .. 1 : Continuous(Fresh, i)
  BY HeadIs DEF HeadIsNext
<1>2. NetTypes' /\ SourceTypes' /\ SourceInv'
  BY <1>1, ConsumeKeepsSource
<1>3. IsWhole(FirstOf(1))
  <2>1. Len(FirstOf(1)) = 1 /\ FirstOf(1)[1] = Fresh[1].n
    BY <1>1, TakenIs
  <2> QED
    BY <2>1 DEF IsWhole
<1>4. OutputTypes' /\ OutputInv'
  BY <1>1, <1>3, AddUnitKeepsOutput
<1> QED
  BY <1>2, <1>4 DEF IInv, TypeOK

LEMMA AddFragmentedKeepsIInv ==
  ASSUME IInv, UNCHANGED assemblyFrame, AddFragmented
  PROVE  IInv'
<1>1. PICK i \in 2 .. Len(Fresh) :
        /\ RunStops(i)
        /\ Continuous(Fresh, i)
        /\ Kind(Fresh[i].n) = "end"
        /\ AddUnit(i)
        /\ Consume(i)
  BY DEF AddFragmented
<1>2. StartsFragments /\ HeadIsNext /\ Kind(Fresh[1].n) = "start" /\ Fresh # <<>>
  BY DEF AddFragmented, StartsFragments, HeadIsNext
<1>3. i \in 1 .. Len(Fresh) /\ \A j \in 1 .. i : Continuous(Fresh, j)
  BY <1>1, <1>2, RunIs
<1>4. NetTypes' /\ SourceTypes' /\ SourceInv'
  BY <1>1, <1>3, ConsumeKeepsSource DEF AddFragmented
<1>5. Collects
  <2>1. Suits("start", stream.format)
    BY <1>2, HeadIs, StreamIs DEF IInv
  <2> QED
    BY <2>1 DEF Suits, Collects
<1>6. damaged' \in BOOLEAN /\ (DamagedAfterSubmit(Fresh[1].n) => damaged')
  BY DEF AddFragmented, DamagedAfterSubmit
<1>7. IsWhole(FirstOf(i))
  <2> DEFINE u == FirstOf(i)
  <2>1. Len(u) = i /\ DOMAIN u = 1 .. i /\ \A j \in 1 .. i : u[j] = Fresh[j].n
    BY <1>1, <1>3, TakenIs DEF FirstOf
  <2>2. \A j \in 1 .. i : Fresh[j].n = Fresh[1].n + j - 1
    BY <1>1, <1>3, ConsumedAre
  <2>3. \A j \in 2 .. i - 1 : Kind(Fresh[j].n) = "middle"
    BY <1>1 DEF RunStops, Fragment
  <2>4. i \in Nat /\ i >= 2 /\ 1 \in 1 .. i
    BY <1>2, HeadIs
  <2> HIDE DEF u
  <2>5. ASSUME NEW j \in DOMAIN u
        PROVE  /\ u[j] = u[1] + j - 1
               /\ Kind(u[j]) = CASE j = 1 -> "start"
                                 [] j = Len(u) -> "end"
                                 [] OTHER -> "middle"
    <3>1. u[j] = u[1] + j - 1
      BY <2>1, <2>2, <2>4
    <3>2. CASE j = 1
      BY <1>2, <2>1, <2>4, <3>1, <3>2
    <3>3. CASE j = i /\ j # 1
      BY <1>1, <2>1, <3>1, <3>3
    <3>4. CASE j # 1 /\ j # i
      <4>1. j \in 2 .. i - 1
        BY <2>1, <2>4, <3>4
      <4> QED
        BY <2>1, <2>3, <3>1, <3>4, <4>1
    <3> QED
      BY <3>1, <3>2, <3>3, <3>4
  <2>6. IsWhole(u)
    BY <2>1, <2>4, <2>5 DEF IsWhole
  <2> QED
    BY <2>6 DEF u
<1>8. OutputTypes' /\ OutputInv'
  BY <1>1, <1>2, <1>3, <1>5, <1>6, <1>7, AddUnitKeepsOutput
<1> QED
  BY <1>4, <1>8 DEF IInv, TypeOK

\* Packets that make nothing.
LEMMA DropKeepsIInv ==
  ASSUME IInv, UNCHANGED assemblyFrame, NEW count \in 1 .. Len(Fresh),
         \A i \in 1 .. count : Continuous(Fresh, i), Consume(count), Continues,
         UNCHANGED <<nals, units>>, damaged' = Collects
  PROVE  IInv'
<1>1. /\ NetTypes' /\ SourceTypes' /\ SourceInv'
      /\ valid' /\ expected' \in Int /\ (valid => expected' >= expected)
  BY ConsumeKeepsSource
<1>2. OutputTypes' /\ OutputInv'
  BY <1>1, SameUnitsKept DEF assemblyFrame, sourceVars, Collects
<1> QED
  BY <1>1, <1>2 DEF IInv, TypeOK

LEMMA DropFragmentsKeepsIInv ==
  ASSUME IInv, UNCHANGED assemblyFrame, DropFragments
  PROVE  IInv'
<1>1. PICK i \in 2 .. Len(Fresh) :
        RunStops(i) /\ Continuous(Fresh, i) /\ Consume(i)
  BY DEF DropFragments
<1>2. StartsFragments /\ Kind(Fresh[1].n) = "start" /\ Fresh # <<>>
  BY DEF DropFragments, StartsFragments, HeadIsNext
<1>3. i \in 1 .. Len(Fresh) /\ \A j \in 1 .. i : Continuous(Fresh, j)
  BY <1>1, <1>2, RunIs
<1>4. Collects
  <2>1. Suits("start", stream.format)
    BY <1>2, HeadIs, StreamIs DEF IInv
  <2> QED
    BY <2>1 DEF Suits, Collects
<1> QED
  BY <1>1, <1>3, <1>4, DropKeepsIInv DEF DropFragments

LEMMA DropMalformedH263KeepsIInv ==
  ASSUME IInv, UNCHANGED assemblyFrame, DropMalformedH263
  PROVE  IInv'
<1>1. HeadIsNext /\ Fresh # <<>> /\ stream.format = "H263" /\ Consume(1) /\ Continues
  BY DEF DropMalformedH263, HeadIsNext
<1>2. 1 \in 1 .. Len(Fresh) /\ \A i \in 1 .. 1 : Continuous(Fresh, i)
  BY <1>1, HeadIs
<1>3. /\ NetTypes' /\ SourceTypes' /\ SourceInv'
      /\ valid' /\ expected' \in Int /\ (valid => expected' >= expected)
  BY <1>1, <1>2, ConsumeKeepsSource
<1>4. UNCHANGED <<stream, firstIn>> /\ damaged' = TRUE
  BY DEF assemblyFrame, sourceVars, DropMalformedH263
<1>5. CASE Submits(Fresh[1].n)
  <2>1. nals # <<>> /\ nals' = <<>> /\ units' = Append(units, Collected)
    BY <1>5 DEF DropMalformedH263, Submits
  <2>2. OutputTypes' /\ OutputInv'
    BY <1>1, <1>3, <1>4, <2>1, SubmitKeepsOutput
  <2> QED
    BY <1>3, <2>2 DEF IInv, TypeOK
<1>6. CASE ~Submits(Fresh[1].n)
  <2>1. UNCHANGED <<nals, units>>
    BY <1>6 DEF DropMalformedH263
  <2>2. OutputTypes' /\ OutputInv'
    BY <1>3, <1>4, <2>1, SameUnitsKept
  <2> QED
    BY <1>3, <2>2 DEF IInv, TypeOK
<1> QED
  BY <1>5, <1>6

LEMMA AddAMRPacketKeepsIInv ==
  ASSUME IInv, UNCHANGED assemblyFrame, AddAMRPacket
  PROVE  IInv'
<1>1. Fresh # <<>> /\ Consume(1) /\ Continues
  BY DEF AddAMRPacket, HeadIsNext
<1>2. 1 \in 1 .. Len(Fresh) /\ \A i \in 1 .. 1 : Continuous(Fresh, i)
  BY <1>1, HeadIs
<1>3. NetTypes' /\ SourceTypes' /\ SourceInv'
  BY <1>1, <1>2, ConsumeKeepsSource
<1>4. OutputTypes' /\ OutputInv'
  BY <1>1, PostPacketKeepsOutput DEF AddAMRPacket
<1> QED
  BY <1>3, <1>4 DEF IInv, TypeOK

\* Waiting, and giving up on one packet.
LEMMA WaitKeepsIInv ==
  ASSUME IInv, UNCHANGED assemblyFrame,
         NotEnoughData \/ WaitForMissing \/ GiveUpMissing
  PROVE  IInv'
<1>1. /\ queue' = Fresh /\ UNCHANGED <<nals, units>>
      /\ UNCHANGED <<stream, firstIn>>
  BY DEF assemblyFrame, sourceVars, NotEnoughData, WaitForMissing, GiveUpMissing
<1>2. valid \in BOOLEAN /\ expected \in Nat /\ age \in Nat \cup {NoFailure} /\ damaged \in BOOLEAN
  BY DEF IInv, TypeOK, SourceTypes, OutputTypes
<1>3. CASE NotEnoughData
  <2>1. age' = NoFailure /\ damaged' = damaged
    BY <1>3 DEF NotEnoughData
  <2>2. CASE UNCHANGED <<valid, expected>>
    <3>1. NetTypes' /\ SourceTypes' /\ SourceInv'
      BY <1>1, <1>2, <2>1, <2>2, ExpectedIs, WaitKeepsSource
    <3>2. OutputTypes' /\ OutputInv'
      BY <1>1, <1>2, <2>1, <2>2, SameUnitsKept
    <3> QED
      BY <3>1, <3>2 DEF IInv, TypeOK
  <2>3. CASE StartsFragments /\ valid' = TRUE /\ expected' = Fresh[1].seq
    <3>1. Fresh # <<>> /\ (valid => expected' = expected)
      BY <2>3 DEF StartsFragments, HeadIsNext
    <3>2. expected' \in Nat /\ Received /\ expected' <= Number(Length)
      BY <2>3, <3>1, HeadIs
    <3>3. NetTypes' /\ SourceTypes' /\ SourceInv'
      BY <1>1, <1>2, <2>1, <2>3, <3>2, WaitKeepsSource
    <3>4. OutputTypes' /\ OutputInv'
      BY <1>1, <1>2, <2>1, <2>3, <3>1, <3>2, SameUnitsKept
    <3> QED
      BY <3>3, <3>4 DEF IInv, TypeOK
  <2> QED
    BY <1>3, <2>2, <2>3 DEF NotEnoughData
<1>4. ASSUME WrongSequence PROVE Fresh # <<>>
  BY <1>4 DEF WrongSequence, StartsFragments, HeadIsNext
<1>5. CASE WaitForMissing
  <2>1. /\ age' = (IF age = NoFailure THEN 0 ELSE age) /\ damaged' = damaged
        /\ valid' = TRUE
        /\ expected' = IF valid THEN expected ELSE Fresh[1].seq
        /\ Fresh # <<>>
    BY <1>4, <1>5 DEF WaitForMissing
  <2>2. age' \in Nat \cup {NoFailure}
    BY <1>2, <2>1
  <2>3. Fresh[1].seq \in Nat /\ Received /\ Fresh[1].seq <= Number(Length)
    BY <2>1, HeadIs
  <2>4. expected' \in Nat /\ Received /\ expected' <= Number(Length)
    BY <2>1, <2>3, ExpectedIs
  <2>5. NetTypes' /\ SourceTypes' /\ SourceInv'
    BY <1>1, <2>1, <2>2, <2>4, WaitKeepsSource
  <2>6. OutputTypes' /\ OutputInv'
    BY <1>1, <1>2, <2>1, <2>4, SameUnitsKept
  <2> QED
    BY <2>5, <2>6 DEF IInv, TypeOK
<1>6. CASE GiveUpMissing
  <2>1. /\ age > Patience /\ age' = NoFailure /\ valid' = valid
        /\ expected' = (expected + 1) % WideMod /\ damaged' = Collects
        /\ Fresh # <<>> /\ WrongSequence
    BY <1>4, <1>6 DEF GiveUpMissing, Continues
  <2>2. valid
    BY <1>2, <2>1, ReceiverAssumption DEF IInv, SourceInv, Expecting, NoFailure
  <2>3. /\ Received /\ Fresh[1].seq \in Nat /\ Fresh[1].seq >= expected
        /\ Fresh[1].seq + 1 <= Number(Length) /\ Number(Length) \in Int
        /\ Number(Length) + 1 < WideMod
    BY <2>1, <2>2, HeadIs
  <2>4. expected + 1 \in Nat /\ expected + 1 <= Number(Length) /\ expected + 1 < WideMod
    BY <1>2, <2>3, ReceiverAssumption
  <2>5. expected' = expected + 1
    BY <2>1, <2>4, ReceiverAssumption
  <2>6. NetTypes' /\ SourceTypes' /\ SourceInv'
    BY <1>1, <1>2, <2>1, <2>2, <2>3, <2>4, <2>5, WaitKeepsSource
  <2>7. OutputTypes' /\ OutputInv'
    <3>1. damaged' \in BOOLEAN /\ expected' \in Int /\ expected' >= expected
      BY <1>2, <2>1, <2>5 DEF Collects
    <3>2. stream.format \notin {"AMR", "LATM"} => damaged'
      BY <2>1 DEF Collects
    <3> QED
      BY <1>1, <2>1, <3>1, <3>2, SameUnitsKept
  <2> QED
    BY <2>6, <2>7 DEF IInv, TypeOK
<1> QED
  BY <1>3, <1>5, <1>6

\* A CHECK of an assembler fails.
EndsProcess == \/ MPEG4AssertionFails \/ H263AssertionFails
               \/ AMRAssertionFails \/ LATMAssertionFails

LEMMA AssembleKeepsIInv ==
  ASSUME IInv, Assemble
  PROVE  IInv'
<1>1. UNCHANGED assemblyFrame
  BY DEF Assemble
<1>2. CASE AddPacket \/ AddMPEG4Packet \/ AddLATMPacket \/ AddTorn
  <2>1. /\ HeadIsNext /\ Fresh # <<>> /\ AddUnit(1) /\ Consume(1) /\ Continues
        /\ Kind(Fresh[1].n) \in {"single", "torn"}
    BY <1>2 DEF AddPacket, AddMPEG4Packet, AddLATMPacket, AddTorn, AddSingle, HeadIsNext
  <2>2. damaged' \in BOOLEAN /\ (DamagedAfterSubmit(Fresh[1].n) => damaged')
    BY <1>2 DEF AddPacket, AddMPEG4Packet, AddLATMPacket, AddTorn, AddSingle,
       DamagedAfterSubmit
  <2>3. Collects
    <3>1. CASE AddPacket \/ AddMPEG4Packet \/ AddLATMPacket
      BY <3>1 DEF AddPacket, AddMPEG4Packet, AddLATMPacket, Collects
    <3>2. CASE AddTorn
      <4>1. Suits("torn", stream.format)
        BY <2>1, <3>2, HeadIs, StreamIs DEF IInv, AddTorn
      <4> QED
        BY <4>1 DEF Suits, Collects
    <3> QED
      BY <1>2, <3>1, <3>2
  <2> QED
    BY <1>1, <2>1, <2>2, <2>3, AddSingleKeepsIInv
<1>3. CASE AddAMRPacket
  BY <1>1, <1>3, AddAMRPacketKeepsIInv
<1>4. CASE EndsProcess
  <2>1. UNCHANGED <<stream, sent, net, firstIn, highest, queue, age, assemblyVars>>
    BY <1>1, <1>4 DEF EndsProcess, MPEG4AssertionFails, H263AssertionFails,
       AMRAssertionFails, LATMAssertionFails, MalformedFails, AssertionFails,
       assemblyFrame, sourceVars, netVars
  <2>2. /\ sent \in 0 .. Length /\ net \subseteq 0 .. sent - 1
        /\ age \in Nat \cup {NoFailure} /\ (age # NoFailure => valid)
    BY DEF IInv, TypeOK, NetTypes, SourceTypes, SourceInv, Expecting
  <2> QED
    BY <2>1, <2>2, QuietKeepsIInv
<1>5. CASE DropMalformed
  <2>1. 1 \in 1 .. Len(Fresh) /\ \A i \in 1 .. 1 : Continuous(Fresh, i)
    BY <1>5, HeadIs DEF DropMalformed, HeadIsNext
  <2> QED
    BY <1>1, <1>5, <2>1, DropKeepsIInv DEF DropMalformed
<1>6. CASE DropMalformedH263
  BY <1>1, <1>6, DropMalformedH263KeepsIInv
<1>7. CASE AddFragmented
  BY <1>1, <1>7, AddFragmentedKeepsIInv
<1>8. CASE DropFragments
  BY <1>1, <1>8, DropFragmentsKeepsIInv
<1>9. CASE NotEnoughData \/ WaitForMissing \/ GiveUpMissing
  BY <1>1, <1>9, WaitKeepsIInv
<1> QED
  BY <1>2, <1>3, <1>4, <1>5, <1>6, <1>7, <1>8, <1>9 DEF Assemble, EndsProcess

-----------------------------------------------------------------------------
(* Every step, and the theorems.                                           *)

LEMMA NextKeepsIInv ==
  ASSUME IInv, [Next]_vars, ~astray'
  PROVE  IInv'
<1>1. /\ sent \in 0 .. Length /\ net \subseteq 0 .. sent - 1 /\ Length \in Nat
      /\ age \in Nat \cup {NoFailure} /\ (age # NoFailure => valid)
  BY StreamIs DEF IInv, TypeOK, NetTypes, SourceTypes, SourceInv, Expecting
<1>2. CASE Send
  <2>1. /\ UNCHANGED <<stream, firstIn, highest, queue, assemblyVars, age>>
        /\ sent < Length /\ sent' = sent + 1 /\ net' = net \cup {sent}
    BY <1>2 DEF Send, sourceVars
  <2>2. sent' \in 0 .. Length /\ net' \subseteq 0 .. sent' - 1
    BY <1>1, <2>1
  <2> QED
    BY <1>1, <2>1, <2>2, QuietKeepsIInv
<1>3. ASSUME NEW n \in net, Lose(n) PROVE IInv'
  <2>1. /\ UNCHANGED <<stream, sent, firstIn, highest, queue, assemblyVars, age>>
        /\ net' \subseteq net
    BY <1>3 DEF Lose, sourceVars
  <2> QED
    BY <1>1, <2>1, QuietKeepsIInv
<1>4. ASSUME NEW n \in net, Deliver(n) PROVE IInv'
  BY <1>4, DeliverKeepsIInv
<1>5. CASE TimeUpdate
  <2>1. UNCHANGED <<stream, sent, net, firstIn, highest, queue, assemblyVars, age>>
    BY <1>5 DEF TimeUpdate, netVars
  <2> QED
    BY <1>1, <2>1, QuietKeepsIInv
<1>6. CASE Assemble
  BY <1>6, AssembleKeepsIInv
<1>7. CASE Tick
  <2>1. /\ UNCHANGED <<stream, sent, net, firstIn, highest, queue, assemblyVars>>
        /\ age \in 0 .. Patience /\ age' = age + 1
    BY <1>7 DEF Tick, netVars, sourceVars
  <2>2. age' \in Nat /\ valid
    BY <1>1, <2>1, ReceiverAssumption DEF NoFailure
  <2> QED
    BY <1>1, <2>1, <2>2, QuietKeepsIInv
<1>8. CASE UNCHANGED vars
  <2>1. UNCHANGED <<stream, sent, net, firstIn, highest, queue, assemblyVars, age>>
    BY <1>8 DEF vars, netVars, sourceVars
  <2> QED
    BY <1>1, <2>1, QuietKeepsIInv
<1> QED
  BY <1>2, <1>3, <1>4, <1>5, <1>6, <1>7, <1>8 DEF Next

\* What has gone astray is not found again.
LEMMA AstrayStays ==
  ASSUME astray, [Next]_vars
  PROVE  astray'
<1>1. CASE \E n \in net : Deliver(n)
  BY <1>1 DEF Deliver
<1>2. CASE ~\E n \in net : Deliver(n)
  BY <1>2 DEF Next, Send, Lose, TimeUpdate, Assemble, Tick, assemblyFrame, vars
<1> QED
  BY <1>1, <1>2

LEMMA IInvHolds == Spec => [](astray \/ IInv)
<1>1. Init => astray \/ IInv
  BY InitIInv
<1>2. (astray \/ IInv) /\ [Next]_vars => (astray \/ IInv)'
  BY NextKeepsIInv, AstrayStays
<1> QED
  BY <1>1, <1>2, PTL DEF Spec

\* The receiver's variables have their types.
THEOREM ReceiverTypes == Spec => [](astray \/ TypeOK)
<1>1. astray \/ IInv => astray \/ TypeOK
  BY DEF IInv
<1> QED
  BY <1>1, IInvHolds, PTL

\* What any stream's access units hold is in the order it was sent in, and
\* nothing twice, whatever is lost, reordered or repeated (queuePacket() and
\* the assemblers of src/jni/player/rtsp), until a packet comes that is half
\* the numbers on the wire away or was sent before the first one and across a
\* wrap.  The same is excepted by the theorems that follow.
THEOREM UnitsComeInOrder == Spec => []InOrder
<1>1. astray \/ IInv => InOrder
  BY DEF IInv, OutputInv, InOrder
<1> QED
  BY <1>1, IInvHolds, PTL

\* No NAL unit is spliced from two, or has a gap (addFragmentedNALUnit()).
THEOREM NALUnitsAreWhole == Spec => []WholeUnits
<1>1. astray \/ IInv => WholeUnits
  BY DEF IInv, OutputInv, WholeUnits
<1> QED
  BY <1>1, IInvHolds, PTL

\* Every hole in the video has its mark (mAccessUnitDamaged).
THEOREM HolesHaveTheirMark == Spec => []HolesMarked
<1>1. astray \/ IInv => HolesMarked
  BY DEF IInv, OutputInv, HolesMarked
<1> QED
  BY <1>1, IInvHolds, PTL

-----------------------------------------------------------------------------
(* Nothing that came in time is thrown away.                               *)

\* The sender puts nothing that stands for itself between the fragments of a
\* NAL unit.
WellSent ==
    \A s \in Streams : \A k \in 1 .. Len(s.packets) - 1 :
        s.packets[k].kind \in {"start", "middle"} => s.packets[k + 1].kind # "single"

\* What waits in the queue though its turn is over came too late.
Settled == valid =>
    \A i \in DOMAIN queue :
        Kind(queue[i].n) = "single" /\ queue[i].seq < expected => queue[i].n \in late

KeepsSingles ==
    \A p \in ToSet(queue) \ ToSet(queue') :
        Kind(p.n) = "single" => p.n \in Used' \/ p.n \in late

LEMMA FragmentsTogether ==
  ASSUME WellSent, TypeOK, NEW n \in Packet, n + 1 \in Packet,
         Kind(n) \in {"start", "middle"}
  PROVE  Kind(n + 1) # "single"
<1>1. Length \in Nat /\ n \in Nat /\ stream \in Streams
  BY StreamIs DEF Packet, TypeOK, NetTypes
<1>2. n + 1 \in 1 .. Len(stream.packets) - 1 /\ (n + 1) + 1 = (n + 1) + 1
  BY <1>1 DEF Packet, Length
<1>3. stream.packets[n + 1].kind \in {"start", "middle"} =>
        stream.packets[(n + 1) + 1].kind # "single"
  BY <1>1, <1>2 DEF WellSent
<1> QED
  BY <1>3 DEF Kind

\* What leaves the queue was over, or has been taken.
LEMMA RemovedAre ==
  ASSUME IInv, Settled, NEW c \in 0 .. Len(Fresh), Leaves(c),
         NEW p \in ToSet(queue) \ ToSet(queue'), Kind(p.n) = "single", p.n \notin late
  PROVE  \E j \in 1 .. c : p = Fresh[j]
<1>1. PICK k \in 0 .. Len(queue) :
           /\ Fresh \in Seq(Item) /\ Len(Fresh) = Len(queue) - k
           /\ \A i \in 1 .. Len(Fresh) : Fresh[i] = queue[k + i]
           /\ valid => Over(k)
           /\ ~valid => k = 0
  BY FreshIsRest DEF IInv, SourceInv
<1>2. PICK i \in DOMAIN queue : p = queue[i]
  BY DEF ToSet
<1>3. DOMAIN queue = 1 .. Len(queue) /\ Len(queue) \in Nat
  BY <1>2, ItemIs DEF IInv
<1>4. ~(i <= k)
  <2> SUFFICES ASSUME i <= k PROVE FALSE
    OBVIOUS
  <2>1. valid
    BY <1>1, <1>2, <1>3
  <2>2. queue[i].seq < expected
    BY <1>1, <1>2, <1>3, <2>1 DEF Over
  <2> QED
    BY <1>2, <2>1, <2>2 DEF Settled
<1>5. i - k \in 1 .. Len(Fresh) /\ k + (i - k) = i
  BY <1>1, <1>2, <1>3, <1>4
<1>6. p = Fresh[i - k]
  BY <1>1, <1>2, <1>5
<1>7. ~(i - k > c)
  <2> SUFFICES ASSUME i - k > c PROVE FALSE
    OBVIOUS
  <2> DEFINE m == i - k - c
  <2>1. m \in 1 .. Len(Fresh) - c /\ c + m = i - k
    BY <1>1, <1>3, <1>5
  <2>2. queue'[m] = p
    BY <1>6, <2>1 DEF Leaves
  <2>3. m \in DOMAIN queue'
    BY <2>1, LenProperties DEF Leaves
  <2> QED
    BY <2>2, <2>3 DEF ToSet
<1>8. i - k \in 1 .. c
  BY <1>1, <1>3, <1>5, <1>7
<1> QED
  BY <1>6, <1>8

\* After packets were taken, all of the queue is still to come.
LEMMA ConsumingSettles ==
  ASSUME IInv, Settled, UNCHANGED assemblyFrame, NEW count \in 1 .. Len(Fresh),
         \A i \in 1 .. count : Continuous(Fresh, i), Consume(count),
         \A j \in 1 .. count : Kind(Fresh[j].n) = "single" => Fresh[j].n \in Used'
  PROVE  Settled' /\ KeepsSingles
<1>1. /\ Leaves(count) /\ expected' = Number(Fresh[count].n) + 1 /\ expected' \in Nat
  BY ConsumedAre
<1>2. Len(Fresh) \in Nat /\ count \in 0 .. Len(Fresh) /\ count \in Nat
  BY FreshIs DEF IInv
<1>3. /\ \A i, j \in 1 .. Len(Fresh) : i < j => Fresh[i].seq < Fresh[j].seq
      /\ \A i \in 1 .. Len(Fresh) :
           Fresh[i].seq \in Nat /\ Fresh[i].seq = Number(Fresh[i].n)
  BY FreshIs DEF IInv
<1>4. ASSUME NEW i \in DOMAIN queue' PROVE ~(queue'[i].seq < expected')
  <2>1. i \in 1 .. Len(Fresh) - count /\ count + i \in 1 .. Len(Fresh) /\ count < count + i
    BY <1>1, <1>2, LenProperties DEF Leaves
  <2>2. queue'[i] = Fresh[count + i]
    BY <1>1, <2>1 DEF Leaves
  <2>3. Fresh[count].seq < Fresh[count + i].seq
    BY <1>3, <2>1
  <2>4. /\ Fresh[count].seq = Number(Fresh[count].n)
        /\ Fresh[count].seq \in Nat /\ Fresh[count + i].seq \in Nat
    BY <1>3, <2>1
  <2> QED
    BY <1>1, <2>2, <2>3, <2>4
<1>5. Settled'
  BY <1>4 DEF Settled
<1>6. KeepsSingles
  <2> SUFFICES ASSUME NEW p \in ToSet(queue) \ ToSet(queue'), Kind(p.n) = "single",
                      p.n \notin late
               PROVE  p.n \in Used'
    BY DEF KeepsSingles
  <2>1. PICK j \in 1 .. count : p = Fresh[j]
    BY <1>1, <1>2, RemovedAre
  <2> QED
    BY <2>1
<1> QED
  BY <1>5, <1>6

\* Nothing is taken, and what is expected goes on by one at most.
LEMMA WaitingSettles ==
  ASSUME IInv, Settled, UNCHANGED assemblyFrame, queue' = Fresh,
         \A i \in 1 .. Len(Fresh) :
           valid' => Fresh[i].seq >= expected' \/ Kind(Fresh[i].n) # "single",
         expected' \in Nat
  PROVE  Settled' /\ KeepsSingles
<1>1. /\ Fresh \in Seq(Item) /\ Len(Fresh) \in Nat /\ DOMAIN Fresh = 1 .. Len(Fresh)
      /\ \A i \in 1 .. Len(Fresh) : Fresh[i].seq \in Nat
  BY FreshIs DEF IInv
<1>2. 0 \in 0 .. Len(Fresh) /\ Leaves(0)
  BY <1>1 DEF Leaves
<1>3. \A n : Kind(n)' = Kind(n)
  BY SameStream DEF assemblyFrame, sourceVars
<1>4. Settled'
  BY <1>1, <1>3 DEF Settled
<1>5. KeepsSingles
  <2> SUFFICES ASSUME NEW p \in ToSet(queue) \ ToSet(queue'), Kind(p.n) = "single",
                      p.n \notin late
               PROVE  FALSE
    BY DEF KeepsSingles
  <2>1. \E j \in 1 .. 0 : p = Fresh[j]
    BY <1>2, RemovedAre
  <2> QED
    BY <2>1
<1> QED
  BY <1>4, <1>5

\* What AddUnit takes is used.
LEMMA UnitIsUsed ==
  ASSUME IInv, NEW count \in 1 .. Len(Fresh), AddUnit(count)
  PROVE  \A j \in 1 .. count : Fresh[j].n \in Used'
<1> DEFINE u == FirstOf(count)
<1>1. nals' = IF Submits(Fresh[1].n) THEN <<u>> ELSE Append(nals, u)
  BY DEF AddUnit, FirstOf
<1>2. u \in Seq(Packet)
  <2>1. Len(Fresh) \in Nat /\ \A i \in 1 .. Len(Fresh) : Fresh[i].n \in Packet
    BY FreshIs DEF IInv
  <2> QED
    BY <2>1 DEF FirstOf
<1>3. \A j \in 1 .. count : Fresh[j].n \in ToSet(u)
  BY DEF ToSet, FirstOf
<1> HIDE DEF u
<1>4. u \in ToSet(nals')
  <2>1. CASE Submits(Fresh[1].n)
    BY <1>1, <2>1 DEF ToSet
  <2>2. CASE ~Submits(Fresh[1].n)
    BY <1>1, <1>2, <2>2, ToSetAppend, OutputIs DEF IInv
  <2> QED
    BY <2>1, <2>2
<1>5. u \in NALUnits'
  BY <1>4 DEF NALUnits
<1> QED
  BY <1>3, <1>5 DEF Used

\* A step that leaves the queue alone.
LEMMA QuietWastesNothing ==
  ASSUME Settled, UNCHANGED <<stream, queue, valid, expected, late>>
  PROVE  Settled' /\ KeepsSingles
BY DEF Settled, KeepsSingles, Kind, ToSet

LEMMA DeliverWastesNothing ==
  ASSUME IInv, Settled, NEW n \in net, Deliver(n), ~astray'
  PROVE  Settled' /\ KeepsSingles
<1> DEFINE seq == Number(n)'
           x == [seq |-> seq, n |-> n]
<1>1. QueuePacket(n, seq) /\ n \in Packet /\ seq \in Nat
  BY QueuedNumber
<1>2. UNCHANGED <<stream, valid, expected>> /\ \A m : Kind(m)' = Kind(m)
  BY DEF Deliver, assemblyVars, Kind
<1>3. queue \in Seq(Item) /\ Len(queue) \in Nat /\ DOMAIN queue = 1 .. Len(queue)
  BY LenProperties DEF IInv, TypeOK, SourceTypes
<1>4. x \in Item /\ x.seq = seq /\ x.n = n
  BY <1>1 DEF Item
<1>5. late' = IF valid /\ seq < expected THEN late \cup {n} ELSE late
  BY <1>1 DEF QueuePacket
<1> HIDE DEF seq
<1>6. CASE queue' = queue
  BY <1>2, <1>5, <1>6 DEF Settled, KeepsSingles
<1>7. CASE queue' # queue
  <2>1. PICK i \in 1 .. Len(queue) + 1 : queue' = InsertAt(queue, i, x)
    BY <1>1, <1>7 DEF QueuePacket
  <2> HIDE DEF x
  <2>2. ToSet(InsertAt(queue, i, x)) = ToSet(queue) \cup {x}
    BY <1>3, <1>4, InsertedAre
  <2>3. ToSet(queue') = ToSet(queue) \cup {x}
    BY <2>1, <2>2
  <2>4. \A j \in DOMAIN queue' : queue'[j] = x \/ \E m \in DOMAIN queue : queue'[j] = queue[m]
    BY <2>3 DEF ToSet
  <2>5. Settled'
    <3> SUFFICES ASSUME valid, NEW j \in DOMAIN queue', Kind(queue'[j].n) = "single",
                        queue'[j].seq < expected
                 PROVE  queue'[j].n \in late'
      BY <1>2 DEF Settled
    <3>1. CASE queue'[j] = x
      BY <1>4, <1>5, <3>1
    <3>2. CASE queue'[j] # x
      <4>1. PICK m \in DOMAIN queue : queue'[j] = queue[m]
        BY <2>4, <3>2
      <4> QED
        BY <1>5, <4>1 DEF Settled
    <3> QED
      BY <3>1, <3>2
  <2>6. KeepsSingles
    BY <2>3 DEF KeepsSingles
  <2> QED
    BY <2>5, <2>6
<1> QED
  BY <1>6, <1>7

LEMMA AssembleWastesNothing ==
  ASSUME WellSent, IInv, Settled, Assemble
  PROVE  Settled' /\ KeepsSingles
<1>1. UNCHANGED assemblyFrame /\ UNCHANGED <<stream, late>>
  BY DEF Assemble, assemblyFrame
<1>2. CASE AddPacket \/ AddMPEG4Packet \/ AddLATMPacket \/ AddTorn
  <2>1. HeadIsNext /\ Fresh # <<>> /\ AddUnit(1) /\ Consume(1)
    BY <1>2 DEF AddPacket, AddMPEG4Packet, AddLATMPacket, AddTorn, AddSingle, HeadIsNext
  <2>2. 1 \in 1 .. Len(Fresh) /\ \A i \in 1 .. 1 : Continuous(Fresh, i)
    BY <2>1, HeadIs
  <2> QED
    BY <1>1, <2>1, <2>2, UnitIsUsed, ConsumingSettles
<1>3. CASE AddAMRPacket
  <2>1. /\ Fresh # <<>> /\ Consume(1)
        /\ units' = Append(units, [nals |-> << <<Fresh[1].n>> >>, damaged |-> FALSE])
    BY <1>3 DEF AddAMRPacket, HeadIsNext
  <2>2. /\ 1 \in 1 .. Len(Fresh) /\ (\A i \in 1 .. 1 : Continuous(Fresh, i))
        /\ Fresh[1].n \in Packet
    BY <2>1, HeadIs
  <2> DEFINE c == [nals |-> << <<Fresh[1].n>> >>, damaged |-> FALSE]
  <2>3. c \in Unit /\ c.nals = << <<Fresh[1].n>> >>
    BY <2>2 DEF Unit
  <2>4. units' = Append(units, c)
    BY <2>1
  <2> HIDE DEF c
  <2>5. units'[Len(units) + 1] = c /\ Len(units) + 1 \in DOMAIN units'
    <3>1. /\ Len(units') = Len(units) + 1 /\ units' \in Seq(Unit)
          /\ units'[Len(units) + 1] = c /\ Len(units) \in Nat
      BY <2>3, <2>4, OutputIs, AppendProperties DEF IInv
    <3> QED
      BY <3>1, LenProperties
  <2>6. <<Fresh[1].n>> \in ToSet(c.nals) /\ Fresh[1].n \in ToSet(<<Fresh[1].n>>)
    BY <2>3 DEF ToSet
  <2>7. Fresh[1].n \in Used'
    BY <2>5, <2>6 DEF Used, NALUnits
  <2> QED
    BY <1>1, <2>1, <2>2, <2>7, ConsumingSettles
<1>4. CASE EndsProcess
  BY <1>1, <1>4, QuietWastesNothing
  DEF EndsProcess, MPEG4AssertionFails, H263AssertionFails, AMRAssertionFails,
      LATMAssertionFails, MalformedFails, AssertionFails, assemblyVars
<1>5. CASE DropMalformed \/ DropMalformedH263
  <2>1. Fresh # <<>> /\ Consume(1) /\ Kind(Fresh[1].n) # "single"
    BY <1>5 DEF DropMalformed, DropMalformedH263, HeadIsNext
  <2>2. 1 \in 1 .. Len(Fresh) /\ \A i \in 1 .. 1 : Continuous(Fresh, i)
    BY <2>1, HeadIs
  <2> QED
    BY <1>1, <2>1, <2>2, ConsumingSettles
<1>6. CASE AddFragmented
  <2>1. PICK i \in 2 .. Len(Fresh) :
          RunStops(i) /\ Continuous(Fresh, i) /\ AddUnit(i) /\ Consume(i)
    BY <1>6 DEF AddFragmented
  <2>2. i \in 1 .. Len(Fresh) /\ \A j \in 1 .. i : Continuous(Fresh, j)
    BY <1>6, <2>1, RunIs DEF AddFragmented
  <2> QED
    BY <1>1, <2>1, <2>2, UnitIsUsed, ConsumingSettles
<1>7. CASE DropFragments
  <2>1. PICK i \in 2 .. Len(Fresh) :
          RunStops(i) /\ Continuous(Fresh, i) /\ Consume(i)
    BY <1>7 DEF DropFragments
  <2>2. StartsFragments /\ Kind(Fresh[1].n) = "start" /\ Fresh # <<>>
    BY <1>7 DEF DropFragments, StartsFragments, HeadIsNext
  <2>3. i \in 1 .. Len(Fresh) /\ \A j \in 1 .. i : Continuous(Fresh, j)
    BY <2>1, <2>2, RunIs
  <2>4. \A j \in 1 .. i : Fresh[j].n \in Packet /\ Fresh[j].n = Fresh[1].n + j - 1
    BY <2>1, <2>3, ConsumedAre
  <2>5. \A j \in 2 .. i - 1 : Kind(Fresh[j].n) = "middle"
    BY <2>1 DEF RunStops, Fragment
  <2>6. 1 \in 1 .. i /\ i \in Nat /\ i >= 2
    BY <2>2, HeadIs
  <2>7. Kind(Fresh[i].n) # "single"
    <3>1. i - 1 \in 1 .. i /\ i \in 1 .. i /\ (i - 1 = 1 \/ i - 1 \in 2 .. i - 1)
      BY <2>6
    <3>2. Kind(Fresh[i - 1].n) \in {"start", "middle"}
      BY <2>2, <2>5, <3>1
    <3>3. Fresh[i].n = Fresh[i - 1].n + 1
      <4>1. /\ Fresh[i].n = Fresh[1].n + i - 1
            /\ Fresh[i - 1].n = Fresh[1].n + (i - 1) - 1
            /\ Fresh[1].n \in Int
        BY <2>4, <2>6, <3>1 DEF Packet
      <4> QED
        BY <2>6, <4>1
    <3>4. Fresh[i - 1].n \in Packet /\ Fresh[i - 1].n + 1 \in Packet
      BY <2>4, <3>1, <3>3
    <3>5. Kind(Fresh[i - 1].n + 1) # "single"
      BY <3>2, <3>4, FragmentsTogether DEF IInv
    <3> QED
      BY <3>3, <3>5
  <2>8. ASSUME NEW j \in 1 .. i PROVE Kind(Fresh[j].n) # "single"
    <3>1. j = 1 \/ j \in 2 .. i - 1 \/ j = i
      BY <2>6
    <3> QED
      BY <2>2, <2>5, <2>7, <3>1
  <2> QED
    BY <1>1, <2>1, <2>3, <2>8, ConsumingSettles
<1>8. CASE NotEnoughData \/ WaitForMissing \/ GiveUpMissing
  <2>1. /\ Len(Fresh) \in Nat
        /\ \A i \in 1 .. Len(Fresh) :
             Fresh[i].seq \in Nat /\ (valid => Fresh[i].seq >= expected)
        /\ \A i, j \in 1 .. Len(Fresh) : i < j => Fresh[i].seq < Fresh[j].seq
    BY FreshIs DEF IInv
  <2>2. queue' = Fresh /\ expected \in Nat /\ age \in Nat \cup {NoFailure}
    BY <1>8 DEF NotEnoughData, WaitForMissing, GiveUpMissing, IInv, TypeOK, SourceTypes
  <2>3. ASSUME Fresh # <<>>
        PROVE  /\ 1 \in 1 .. Len(Fresh) /\ Fresh[1].seq \in Nat
               /\ \A i \in 1 .. Len(Fresh) : i = 1 \/ Fresh[i].seq > Fresh[1].seq
    <3>1. 1 \in 1 .. Len(Fresh)
      BY <2>3, HeadIs
    <3> QED
      BY <2>1, <3>1
  <2>4. CASE NotEnoughData
    <3>1. CASE Fresh = <<>> /\ UNCHANGED <<valid, expected>>
      BY <1>1, <2>1, <2>2, <3>1, WaitingSettles
    <3>2. CASE StartsFragments /\ expected' = Fresh[1].seq
      <4>1. Fresh # <<>>
        BY <3>2 DEF StartsFragments, HeadIsNext
      <4>2. \A i \in 1 .. Len(Fresh) : Fresh[i].seq >= expected'
        BY <2>1, <2>3, <3>2, <4>1
      <4> QED
        BY <1>1, <2>2, <2>3, <3>2, <4>1, <4>2, WaitingSettles
    <3> QED
      BY <2>4, <3>1, <3>2 DEF NotEnoughData
  <2>5. CASE WaitForMissing
    <3>1. Fresh # <<>> /\ expected' = IF valid THEN expected ELSE Fresh[1].seq
      BY <2>5 DEF WaitForMissing, WrongSequence, StartsFragments, HeadIsNext
    <3>2. expected' \in Nat /\ \A i \in 1 .. Len(Fresh) : Fresh[i].seq >= expected'
      BY <2>1, <2>2, <2>3, <3>1
    <3> QED
      BY <1>1, <2>2, <3>2, WaitingSettles
  <2>6. CASE GiveUpMissing
    <3>1. /\ Fresh # <<>> /\ expected' = (expected + 1) % WideMod
          /\ age > Patience /\ WrongSequence
      BY <2>6 DEF GiveUpMissing, WrongSequence, StartsFragments, HeadIsNext
    <3>2. valid
      BY <2>2, <3>1, ReceiverAssumption DEF IInv, SourceInv, Expecting, NoFailure
    <3>3. /\ Fresh[1].seq >= expected /\ Fresh[1].seq + 1 <= Number(Length)
          /\ Number(Length) \in Int /\ Number(Length) + 1 < WideMod
      BY <3>1, <3>2, HeadIs
    <3>4. expected' = expected + 1
      <4>1. \A a, b, c, d \in Int : b >= a /\ b + 1 <= c /\ c + 1 < d => a + 1 < d
        OBVIOUS
      <4>2. /\ expected \in Nat /\ Fresh[1].seq \in Int
            /\ Number(Length) \in Int /\ WideMod \in Int
        BY <2>2, <2>3, <3>1, <3>3, ReceiverAssumption
      <4>3. expected + 1 < WideMod
        BY <3>3, <4>1, <4>2
      <4>4. expected + 1 \in Nat /\ WideMod \in Nat \ {0}
        BY <4>2, ReceiverAssumption
      <4>5. \A x \in Nat, w \in Nat \ {0} : x < w => x % w = x
        OBVIOUS
      <4> QED
        BY <3>1, <4>3, <4>4, <4>5
    <3>5. Fresh[1].seq = expected => Kind(Fresh[1].n) = "start"
      BY <3>1, <3>2 DEF WrongSequence, StartsFragments, HeadIsNext
    <3>6. \A i \in 1 .. Len(Fresh) :
            Fresh[i].seq >= expected' \/ Kind(Fresh[i].n) # "single"
      <4> SUFFICES ASSUME NEW i \in 1 .. Len(Fresh), Kind(Fresh[i].n) = "single"
                   PROVE  Fresh[i].seq >= expected'
        OBVIOUS
      <4>1. /\ Fresh[i].seq \in Nat /\ Fresh[1].seq \in Nat
            /\ (i = 1 \/ Fresh[i].seq > Fresh[1].seq)
        BY <2>1, <2>3, <3>1
      <4> QED
        BY <2>2, <3>3, <3>4, <3>5, <4>1
    <3> QED
      BY <1>1, <2>2, <3>4, <3>6, WaitingSettles
  <2> QED
    BY <1>8, <2>4, <2>5, <2>6
<1> QED
  BY <1>2, <1>3, <1>4, <1>5, <1>6, <1>7, <1>8 DEF Assemble, EndsProcess

LEMMA NextWastesNothing ==
  ASSUME WellSent, IInv, Settled, [Next]_vars, ~astray'
  PROVE  Settled' /\ KeepsSingles
<1>1. CASE Send \/ (\E n \in net : Lose(n)) \/ TimeUpdate \/ Tick \/ UNCHANGED vars
  BY <1>1, QuietWastesNothing
  DEF Send, Lose, TimeUpdate, Tick, vars, assemblyVars, sourceVars, netVars
<1>2. ASSUME NEW n \in net, Deliver(n) PROVE Settled' /\ KeepsSingles
  BY <1>2, DeliverWastesNothing
<1>3. CASE Assemble
  BY <1>3, AssembleWastesNothing
<1> QED
  BY <1>1, <1>2, <1>3 DEF Next

\* Posting an access unit that takes over what was collected.
LEMMA PostingKeepsUsed ==
  ASSUME IInv, NEW c \in Unit, units' = Append(units, c),
         ToSet(nals) \subseteq ToSet(nals') \cup ToSet(c.nals)
  PROVE  Used \subseteq Used'
<1>1. /\ units \in Seq(Unit) /\ Len(units) \in Nat
      /\ DOMAIN units = 1 .. Len(units)
  BY OutputIs DEF IInv
<1>2. /\ DOMAIN units' = 1 .. Len(units) + 1 /\ units'[Len(units) + 1] = c
      /\ \A k \in 1 .. Len(units) : units'[k] = units[k]
  BY <1>1, AppendProperties, LenProperties
<1>3. ASSUME NEW u \in NALUnits PROVE u \in NALUnits'
  <2>1. CASE u \in ToSet(nals)
    <3>1. Len(units) + 1 \in DOMAIN units'
      BY <1>1, <1>2
    <3> QED
      BY <1>2, <2>1, <3>1 DEF NALUnits
  <2>2. CASE u \notin ToSet(nals)
    <3>1. PICK k \in DOMAIN units : u \in ToSet(units[k].nals)
      BY <2>2 DEF NALUnits
    <3>2. k \in DOMAIN units' /\ units'[k] = units[k]
      BY <1>1, <1>2
    <3> QED
      BY <3>1, <3>2 DEF NALUnits
  <2> QED
    BY <2>1, <2>2
<1> QED
  BY <1>3 DEF Used

LEMMA AddingKeepsUsed ==
  ASSUME IInv, NEW count \in 1 .. Len(Fresh), AddUnit(count)
  PROVE  Used \subseteq Used' \/ Garbles
<1>1. CASE Submits(Fresh[1].n)
  <2>1. units' = Append(units, Collected) /\ Collected \in Unit
    BY <1>1, CollectedIs DEF AddUnit
  <2>2. ~Garbles => ToSet(nals) \subseteq ToSet(Collected.nals)
    BY DEF Collected
  <2> QED
    BY <2>1, <2>2, PostingKeepsUsed
<1>2. CASE ~Submits(Fresh[1].n)
  <2> DEFINE u == FirstOf(count)
  <2>1. units' = units /\ nals' = Append(nals, u)
    BY <1>2 DEF AddUnit, FirstOf
  <2>2. u \in Seq(Packet)
    <3>1. Len(Fresh) \in Nat /\ \A i \in 1 .. Len(Fresh) : Fresh[i].n \in Packet
      BY FreshIs DEF IInv
    <3> QED
      BY <3>1 DEF FirstOf
  <2> HIDE DEF u
  <2>3. ToSet(nals') = ToSet(nals) \cup {u}
    BY <2>1, <2>2, ToSetAppend, OutputIs DEF IInv
  <2> QED
    BY <2>1, <2>3 DEF Used, NALUnits
<1> QED
  BY <1>1, <1>2

\* What is in a unit stays in it, until LATM garbles it.
LEMMA NextKeepsUsed ==
  ASSUME IInv, [Next]_vars
  PROVE  Used \subseteq Used' \/ Garbles
<1>1. CASE UNCHANGED <<nals, units>>
  BY <1>1 DEF Used, NALUnits
<1>2. CASE Assemble /\ ~UNCHANGED <<nals, units>>
  <2>1. CASE AddPacket \/ AddMPEG4Packet \/ AddLATMPacket \/ AddTorn
    <3>1. Fresh # <<>> /\ AddUnit(1)
      BY <2>1 DEF AddPacket, AddMPEG4Packet, AddLATMPacket, AddTorn, AddSingle,
         HeadIsNext
    <3>2. 1 \in 1 .. Len(Fresh)
      BY <3>1, HeadIs
    <3> QED
      BY <3>1, <3>2, AddingKeepsUsed
  <2>2. CASE AddFragmented
    <3>1. PICK i \in 2 .. Len(Fresh) : AddUnit(i)
      BY <2>2 DEF AddFragmented
    <3>2. i \in 1 .. Len(Fresh)
      BY <3>1
    <3> QED
      BY <3>1, <3>2, AddingKeepsUsed
  <2>3. CASE AddAMRPacket
    <3> DEFINE c == [nals |-> << <<Fresh[1].n>> >>, damaged |-> FALSE]
    <3>1. Fresh # <<>> /\ units' = Append(units, c) /\ nals' = nals
      BY <2>3 DEF AddAMRPacket, HeadIsNext
    <3>2. Fresh[1].n \in Packet
      BY <3>1, HeadIs
    <3>3. c \in Unit
      BY <3>2 DEF Unit
    <3> HIDE DEF c
    <3> QED
      BY <3>1, <3>3, PostingKeepsUsed
  <2>4. CASE DropMalformedH263
    <3>1. /\ units' = Append(units, Collected) /\ Collected \in Unit
      BY <1>2, <2>4, CollectedIs DEF DropMalformedH263
    <3>2. ~Garbles => ToSet(nals) \subseteq ToSet(Collected.nals)
      BY DEF Collected
    <3> QED
      BY <3>1, <3>2, PostingKeepsUsed
  <2>5. ~(\/ EndsProcess \/ DropMalformed \/ DropFragments \/ NotEnoughData
          \/ WaitForMissing \/ GiveUpMissing)
    BY <1>2 DEF EndsProcess, MPEG4AssertionFails, H263AssertionFails,
       AMRAssertionFails, LATMAssertionFails, MalformedFails, AssertionFails,
       assemblyVars, DropMalformed, DropFragments, NotEnoughData,
       WaitForMissing, GiveUpMissing
  <2> QED
    BY <1>2, <2>1, <2>2, <2>3, <2>4, <2>5 DEF Assemble, EndsProcess
<1>3. CASE ~Assemble
  <2>1. UNCHANGED assemblyVars
    BY <1>3 DEF Next, Send, Lose, Deliver, TimeUpdate, Tick, vars
  <2> QED
    BY <1>1, <2>1 DEF assemblyVars
<1> QED
  BY <1>1, <1>2, <1>3

\* A packet that came in time and stands for itself is used, whatever happens
\* to those around it, as long as the sender keeps fragments together and no
\* packet has gone astray; what is collected is posted, but for LATM units
\* that are garbled (queuePacket(), assembleMore() and submitAccessUnit()).
THEOREM NothingIsWasted == WellSent => (Spec => NothingWasted)
<1> SUFFICES ASSUME WellSent PROVE Spec => NothingWasted
  OBVIOUS
<1>1. Init => astray \/ Settled
  BY DEF Init, Settled
<1>2. (astray \/ IInv) /\ (astray \/ Settled) /\ [Next]_vars => (astray \/ Settled)'
  BY NextWastesNothing, AstrayStays
<1>3. (astray \/ IInv) /\ (astray \/ Settled) /\ [Next]_vars
        => [astray' \/ KeepsPackets]_vars
  <2> SUFFICES ASSUME astray \/ IInv, astray \/ Settled, [Next]_vars, ~astray'
               PROVE  KeepsPackets
    OBVIOUS
  <2>1. IInv /\ Settled
    BY AstrayStays
  <2> QED
    BY <2>1, NextWastesNothing, NextKeepsUsed DEF KeepsSingles, KeepsPackets
<1>4. Spec => [][astray' \/ KeepsPackets]_vars
  BY <1>1, <1>2, <1>3, IInvHolds, PTL DEF Spec
<1> QED
  BY <1>4 DEF NothingWasted

=============================================================================
