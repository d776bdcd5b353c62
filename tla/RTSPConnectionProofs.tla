------------------------- MODULE RTSPConnectionProofs -------------------------
(***************************************************************************)
(* Proofs about RTSPConnection for any calls and any bound on what the     *)
(* server has under way.                                                   *)
(***************************************************************************)
EXTENDS RTSPConnection, SequenceTheorems, FunctionTheorems, FiniteSetTheorems,
        TLAPS

-----------------------------------------------------------------------------
(* Counting messages.                                                      *)

\* The places of sequence s that hold a member of M.
Occurs(s, M) == {i \in DOMAIN s : s[i] \in M}
Count(s, M) == Cardinality(Occurs(s, M))

LEMMA OccursFinite ==
  ASSUME NEW S, NEW s \in Seq(S), NEW M
  PROVE  IsFiniteSet(Occurs(s, M)) /\ Count(s, M) \in Nat
<1>1. IsFiniteSet(1 .. Len(s))
  BY FS_Interval
<1>2. Occurs(s, M) \in SUBSET (1 .. Len(s))
  BY DEF Occurs
<1> QED
  BY <1>1, <1>2, FS_Subset, FS_CardinalityType DEF Count

LEMMA CountEmpty ==
  ASSUME NEW M
  PROVE  Count(<<>>, M) = 0
BY FS_EmptySet DEF Count, Occurs

\* A message that is there counts.
LEMMA CountPositive ==
  ASSUME NEW S, NEW s \in Seq(S), NEW M, NEW i \in DOMAIN s, s[i] \in M
  PROVE  Count(s, M) >= 1
<1>1. IsFiniteSet(Occurs(s, M)) /\ Count(s, M) \in Nat
  BY OccursFinite
<1>2. Occurs(s, M) # {}
  BY DEF Occurs
<1>3. Count(s, M) # 0
  BY <1>1, <1>2, FS_EmptySet DEF Count
<1> QED
  BY <1>1, <1>3

LEMMA CountAppend ==
  ASSUME NEW S, NEW s \in Seq(S), NEW x \in S, NEW M
  PROVE  Count(Append(s, x), M) = Count(s, M) + (IF x \in M THEN 1 ELSE 0)
<1> DEFINE n == Len(s) + 1
<1>1. /\ DOMAIN Append(s, x) = 1 .. n
      /\ \A i \in 1 .. Len(s) : Append(s, x)[i] = s[i]
      /\ Append(s, x)[n] = x
      /\ DOMAIN s = 1 .. Len(s)
      /\ Len(s) \in Nat
  BY AppendProperties, LenProperties
<1>2. IsFiniteSet(Occurs(s, M)) /\ Count(s, M) \in Nat
  BY OccursFinite
<1>3. n \notin Occurs(s, M)
  BY <1>1 DEF Occurs
<1>4. CASE x \in M
  <2>1. Occurs(Append(s, x), M) = Occurs(s, M) \cup {n}
    BY <1>1, <1>4 DEF Occurs
  <2> QED
    BY <2>1, <1>2, <1>3, <1>4, FS_AddElement DEF Count
<1>5. CASE x \notin M
  <2>1. Occurs(Append(s, x), M) = Occurs(s, M)
    BY <1>1, <1>5 DEF Occurs
  <2> QED
    BY <2>1, <1>2, <1>5 DEF Count
<1> QED
  BY <1>4, <1>5

LEMMA CountTail ==
  ASSUME NEW S, NEW s \in Seq(S), s # <<>>, NEW M
  PROVE  Count(s, M) = Count(Tail(s), M) + (IF Head(s) \in M THEN 1 ELSE 0)
<1> DEFINE T == Occurs(Tail(s), M)
           U == Occurs(s, M) \ {1}
           f == [i \in T |-> i + 1]
<1>1. /\ Len(s) \in Nat \ {0}
      /\ DOMAIN s = 1 .. Len(s)
      /\ Tail(s) \in Seq(S)
      /\ DOMAIN Tail(s) = 1 .. Len(s) - 1
      /\ \A i \in 1 .. Len(s) - 1 : Tail(s)[i] = s[i + 1]
      /\ Head(s) = s[1]
  BY EmptySeq, HeadTailProperties, LenProperties
<1>2. IsFiniteSet(Occurs(s, M)) /\ Count(s, M) \in Nat
  BY OccursFinite
<1>3. IsFiniteSet(T) /\ Count(Tail(s), M) \in Nat
  BY <1>1, OccursFinite
<1>4. T \in SUBSET Nat /\ \A i \in T : i \in 1 .. Len(s) - 1 /\ s[i + 1] \in M
  BY <1>1 DEF Occurs
<1>5. \A j \in U : j - 1 \in T /\ j = (j - 1) + 1
  BY <1>1 DEF Occurs
<1>6. \A i \in T : i + 1 \in U
  BY <1>1, <1>4 DEF Occurs
<1> HIDE DEF T, U
<1>7. f \in Bijection(T, U)
  <2>1. f \in [T -> U]
    BY <1>6
  <2>2. \A a, b \in T : f[a] = f[b] => a = b
    BY <1>4
  <2>3. \A u \in U : \E t \in T : f[t] = u
    BY <1>5
  <2> QED
    BY <2>1, <2>2, <2>3, Fun_IsBij
<1>8. Cardinality(U) = Cardinality(T)
  <2>1. ExistsBijection(T, U)
    BY <1>7 DEF ExistsBijection
  <2> QED
    BY <2>1, <1>3, FS_Bijection
<1>9. Cardinality(U) = IF 1 \in Occurs(s, M) THEN Count(s, M) - 1
                                              ELSE Count(s, M)
  BY <1>2, FS_RemoveElement DEF Count, U
<1>10. 1 \in Occurs(s, M) <=> Head(s) \in M
  BY <1>1 DEF Occurs
<1>11. Cardinality(T) = Count(Tail(s), M)
  BY DEF T, Count
<1>12. CASE Head(s) \in M
  <2>1. Count(Tail(s), M) = Count(s, M) - 1
    BY <1>8, <1>9, <1>10, <1>11, <1>12
  <2> QED
    BY <2>1, <1>2, <1>12
<1>13. CASE Head(s) \notin M
  <2>1. Count(Tail(s), M) = Count(s, M)
    BY <1>8, <1>9, <1>10, <1>11, <1>13
  <2> QED
    BY <2>1, <1>2, <1>13
<1> QED
  BY <1>12, <1>13

-----------------------------------------------------------------------------
(* The inductive invariant.                                                *)

Msg == {ReceiveEvent}
         \cup [what : {"connect"}, call : Connect]
         \cup [what : {"complete"}, call : Connect, id : Nat]
         \cup [what : {"disconnect"}, call : Disconnect]
         \cup [what : {"send"}, call : Request]

Answer == [kind : {"ok", "unauthorized"}, cseq : Nat, to : Request]
Talk == [kind : {"request", "binary", "stray", "unsolicited"}]

Reply == [result : {"ok", "error", "aborted"}]
           \cup [result : {"response"}, to : Request \cup {"nobody"}]

TypeOK ==
    /\ mailbox \in Seq(Msg)
    /\ posted \subseteq Call
    /\ state \in {"disconnected", "connecting", "connected"}
    /\ connectionID \in Nat
    /\ user \in BOOLEAN /\ authenticated \in BOOLEAN
    /\ nextCSeq \in Nat
    /\ pending \subseteq [cseq : Nat, call : Request] /\ IsFiniteSet(pending)
    /\ receivePending \in BOOLEAN
    /\ inbox \in Seq(Answer \cup Talk)
    /\ asked \subseteq [cseq : Nat, call : Request]
    /\ closed \in BOOLEAN /\ partial \in BOOLEAN
    /\ replies \in [Call -> Seq(Reply)]
    /\ crashed \in BOOLEAN /\ broken \in BOOLEAN

\* Nothing is under way unless there is a connection.
Idle ==
    state # "connected" => pending = {} /\ inbox = <<>> /\ asked = {}

\* No CSeq under way is one still to be used, and an entry of the table and
\* what the server has or says under the same CSeq belong to the same call.
Matched ==
    /\ \A p \in pending : p.cseq < nextCSeq
    /\ \A a \in asked : a.cseq < nextCSeq
    /\ \A i \in DOMAIN inbox : inbox[i] \in Answer => inbox[i].cseq < nextCSeq
    /\ \A p \in pending :
          /\ \A a \in asked : a.cseq = p.cseq => a.call = p.call
          /\ \A i \in DOMAIN inbox :
                inbox[i] \in Answer /\ inbox[i].cseq = p.cseq =>
                    inbox[i].to = p.call

IInv == TypeOK /\ Idle /\ Matched /\ RepliedOnce /\ ResponseMatches /\ PolledOnce

-----------------------------------------------------------------------------
(* Messages, open requests and replies, call by call.                      *)

CallMsgs(c) == {m \in Msg : m # ReceiveEvent /\ m.call = c}

OpenIn(P, c) == {p \in P : p.call = c}

\* The replies given to c.
Given(rs, c) == Len(rs[c])

Owed(box, P, rs, c) ==
    Count(box, CallMsgs(c)) + Cardinality(OpenIn(P, c)) + Given(rs, c)

Matches(rs) ==
    \A r \in Request : \A i \in DOMAIN rs[r] :
        rs[r][i].result = "response" => rs[r][i].to \in {r, "nobody"}

LEMMA MsgFacts ==
  /\ ReceiveEvent \in Msg
  /\ \A c : ReceiveEvent \notin CallMsgs(c)
  /\ \A c \in Connect :
       /\ [what |-> "connect", call |-> c] \in Msg
       /\ \A id \in Nat : [what |-> "complete", call |-> c, id |-> id] \in Msg
  /\ \A c \in Disconnect : [what |-> "disconnect", call |-> c] \in Msg
  /\ \A c \in Request : [what |-> "send", call |-> c] \in Msg
  /\ \A m \in Msg :
       /\ m.what = "receive" <=> m = ReceiveEvent
       /\ m.what \in {"connect", "complete"} => m.call \in Connect
       /\ m.what = "disconnect" => m.call \in Disconnect
       /\ m.what = "send" => m.call \in Request
       /\ m.what \in {"receive", "connect", "complete", "disconnect", "send"}
       /\ \A c : m \in CallMsgs(c) <=> m # ReceiveEvent /\ m.call = c
<1>1. ReceiveEvent \in Msg /\ \A c : ReceiveEvent \notin CallMsgs(c)
  BY DEF Msg, CallMsgs
<1>2. /\ \A c \in Connect :
           /\ [what |-> "connect", call |-> c] \in Msg
           /\ \A id \in Nat : [what |-> "complete", call |-> c, id |-> id] \in Msg
      /\ \A c \in Disconnect : [what |-> "disconnect", call |-> c] \in Msg
      /\ \A c \in Request : [what |-> "send", call |-> c] \in Msg
  BY DEF Msg
<1>3. ASSUME NEW m \in Msg
      PROVE  /\ m.what = "receive" <=> m = ReceiveEvent
             /\ m.what \in {"connect", "complete"} => m.call \in Connect
             /\ m.what = "disconnect" => m.call \in Disconnect
             /\ m.what = "send" => m.call \in Request
             /\ m.what \in {"receive", "connect", "complete", "disconnect",
                            "send"}
  BY DEF Msg, ReceiveEvent
<1>4. \A m \in Msg : \A c : m \in CallMsgs(c) <=> m # ReceiveEvent /\ m.call = c
  BY DEF CallMsgs
<1> QED
  BY <1>1, <1>2, <1>3, <1>4

\* Places(c), written with the counts.
LEMMA OwedIsPlaces ==
  ASSUME NEW box \in Seq(Msg), NEW c
  PROVE  Cardinality({i \in DOMAIN box : box[i] # ReceiveEvent /\ box[i].call = c})
           = Count(box, CallMsgs(c))
<1>1. \A i \in DOMAIN box : box[i] \in Msg
  BY LenProperties, ElementOfSeq
<1>2. {i \in DOMAIN box : box[i] # ReceiveEvent /\ box[i].call = c}
        = Occurs(box, CallMsgs(c))
  BY <1>1, MsgFacts DEF Occurs
<1> QED
  BY <1>2 DEF Count

LEMMA OwedTypes ==
  ASSUME NEW box \in Seq(Msg), NEW P, IsFiniteSet(P),
         NEW rs \in [Call -> Seq(Reply)], NEW c \in Call
  PROVE  /\ Count(box, CallMsgs(c)) \in Nat
         /\ Cardinality(OpenIn(P, c)) \in Nat
         /\ IsFiniteSet(OpenIn(P, c))
         /\ Given(rs, c) \in Nat
<1>1. Count(box, CallMsgs(c)) \in Nat
  BY OccursFinite
<1>2. OpenIn(P, c) \in SUBSET P
  BY DEF OpenIn
<1>3. IsFiniteSet(OpenIn(P, c)) /\ Cardinality(OpenIn(P, c)) \in Nat
  BY <1>2, FS_Subset, FS_CardinalityType
<1>4. Given(rs, c) \in Nat
  BY LenProperties DEF Given
<1> QED
  BY <1>1, <1>3, <1>4

LEMMA OwedNow ==
  ASSUME TypeOK, RepliedOnce, ~crashed, NEW c \in Call
  PROVE  Owed(mailbox, pending, replies, c) = IF c \in posted THEN 1 ELSE 0
BY OwedIsPlaces DEF TypeOK, RepliedOnce, Places, Waiting, Owed, OpenIn, Given

LEMMA OwedNext ==
  ASSUME TypeOK',
         \A c \in Call : Owed(mailbox', pending', replies', c)
                           = IF c \in posted' THEN 1 ELSE 0
  PROVE  RepliedOnce'
<1>1. mailbox' \in Seq(Msg)
  BY DEF TypeOK
<1>2. \A c : Cardinality({i \in DOMAIN mailbox' :
                            mailbox'[i] # ReceiveEvent /\ mailbox'[i].call = c})
               = Count(mailbox', CallMsgs(c))
  BY <1>1, OwedIsPlaces
<1> QED
  BY <1>2 DEF RepliedOnce, Places, Waiting, Owed, OpenIn, Given

LEMMA SameOwed ==
  ASSUME TypeOK, TypeOK', RepliedOnce, ~crashed, posted' = posted,
         \A d \in Call : Owed(mailbox', pending', replies', d)
                           = Owed(mailbox, pending, replies, d)
  PROVE  RepliedOnce'
BY OwedNow, OwedNext

\* An entry joins the table of pending requests, or leaves it.
LEMMA OpenAdded ==
  ASSUME NEW P, IsFiniteSet(P), NEW p, p \notin P
  PROVE  \A d : Cardinality(OpenIn(P \cup {p}, d))
                  = Cardinality(OpenIn(P, d)) + (IF p.call = d THEN 1 ELSE 0)
<1> SUFFICES ASSUME NEW d
             PROVE  Cardinality(OpenIn(P \cup {p}, d))
                      = Cardinality(OpenIn(P, d)) + (IF p.call = d THEN 1 ELSE 0)
  OBVIOUS
<1>1. IsFiniteSet(OpenIn(P, d)) /\ Cardinality(OpenIn(P, d)) \in Nat
  <2>1. OpenIn(P, d) \in SUBSET P
    BY DEF OpenIn
  <2> QED
    BY <2>1, FS_Subset, FS_CardinalityType
<1>2. CASE p.call = d
  <2>1. OpenIn(P \cup {p}, d) = OpenIn(P, d) \cup {p} /\ p \notin OpenIn(P, d)
    BY <1>2 DEF OpenIn
  <2> QED
    BY <2>1, <1>1, <1>2, FS_AddElement
<1>3. CASE p.call # d
  <2>1. OpenIn(P \cup {p}, d) = OpenIn(P, d)
    BY <1>3 DEF OpenIn
  <2> QED
    BY <2>1, <1>1, <1>3
<1> QED
  BY <1>2, <1>3

LEMMA OpenRemoved ==
  ASSUME NEW P, IsFiniteSet(P), NEW p \in P
  PROVE  \A d : Cardinality(OpenIn(P, d))
                  = Cardinality(OpenIn(P \ {p}, d)) + (IF p.call = d THEN 1 ELSE 0)
<1>1. IsFiniteSet(P \ {p}) /\ (P \ {p}) \cup {p} = P /\ p \notin P \ {p}
  BY FS_RemoveElement
<1> QED
  BY <1>1, OpenAdded

\* A reply is posted.
WithReply(rs, c, x) == [rs EXCEPT ![c] = Append(@, x)]

LEMMA ReplyAppended ==
  ASSUME NEW rs \in [Call -> Seq(Reply)], NEW c \in Call, NEW x \in Reply,
         x.result = "response" => x.to \in {c, "nobody"}, Matches(rs)
  PROVE  /\ WithReply(rs, c, x) \in [Call -> Seq(Reply)]
         /\ Matches(WithReply(rs, c, x))
         /\ \A d \in Call : Given(WithReply(rs, c, x), d)
                              = Given(rs, d) + (IF d = c THEN 1 ELSE 0)
<1> DEFINE t == WithReply(rs, c, x)
<1>1. /\ t \in [Call -> Seq(Reply)]
      /\ \A d \in Call : t[d] = IF d = c THEN Append(rs[c], x) ELSE rs[d]
  BY DEF WithReply
<1> HIDE DEF t
<1>2. /\ DOMAIN Append(rs[c], x) = 1 .. Len(rs[c]) + 1
      /\ Len(Append(rs[c], x)) = Len(rs[c]) + 1
      /\ \A i \in 1 .. Len(rs[c]) : Append(rs[c], x)[i] = rs[c][i]
      /\ Append(rs[c], x)[Len(rs[c]) + 1] = x
      /\ DOMAIN rs[c] = 1 .. Len(rs[c])
      /\ \A d \in Call : Len(rs[d]) \in Nat
  BY AppendProperties, LenProperties
<1>3. \A d \in Call : Given(t, d) = Given(rs, d) + (IF d = c THEN 1 ELSE 0)
  BY <1>1, <1>2 DEF Given
<1>4. ASSUME NEW r \in Request, NEW i \in DOMAIN t[r],
             t[r][i].result = "response"
      PROVE  t[r][i].to \in {r, "nobody"}
  <2>1. r \in Call
    BY DEF Call
  <2>2. CASE r # c
    BY <2>1, <2>2, <1>1, <1>4 DEF Matches
  <2>3. CASE r = c /\ i \in 1 .. Len(rs[c])
    BY <2>1, <2>3, <1>1, <1>2, <1>4 DEF Matches
  <2>4. CASE r = c /\ i = Len(rs[c]) + 1
    BY <2>1, <2>4, <1>1, <1>2, <1>4
  <2> QED
    BY <2>1, <2>2, <2>3, <2>4, <1>1, <1>2
<1>5. Matches(t)
  BY <1>4 DEF Matches
<1> QED
  BY <1>1, <1>3, <1>5 DEF t

\* flushPendingRequests(): every call with an entry gets one reply.
LEMMA RepliesFlushed ==
  ASSUME pending \subseteq [cseq : Nat, call : Request], IsFiniteSet(pending),
         NEW rs \in [Call -> Seq(Reply)], Matches(rs),
         \A d \in Call : Cardinality(OpenIn(pending, d)) \in 0 .. 1
  PROVE  /\ Flushed(rs) \in [Call -> Seq(Reply)]
         /\ Matches(Flushed(rs))
         /\ \A d \in Call : Given(Flushed(rs), d)
                              = Given(rs, d) + Cardinality(OpenIn(pending, d))
<1> DEFINE x == [result |-> "aborted"]
<1>1. x \in Reply /\ x.result # "response"
  BY DEF Reply
<1>2. \A d \in Call : Flushed(rs)[d] = IF \E p \in pending : p.call = d
                                       THEN Append(rs[d], x) ELSE rs[d]
  BY DEF Flushed
<1> HIDE DEF x
<1>3. \A d \in Call :
        /\ Append(rs[d], x) \in Seq(Reply)
        /\ Len(Append(rs[d], x)) = Len(rs[d]) + 1
        /\ DOMAIN Append(rs[d], x) = 1 .. Len(rs[d]) + 1
        /\ \A i \in 1 .. Len(rs[d]) : Append(rs[d], x)[i] = rs[d][i]
        /\ Append(rs[d], x)[Len(rs[d]) + 1] = x
        /\ DOMAIN rs[d] = 1 .. Len(rs[d])
        /\ Len(rs[d]) \in Nat
  BY <1>1, AppendProperties, LenProperties
<1>4. Flushed(rs) \in [Call -> Seq(Reply)]
  <2>1. Flushed(rs) = [d \in Call |-> Flushed(rs)[d]]
    BY DEF Flushed
  <2>2. \A d \in Call : Flushed(rs)[d] \in Seq(Reply)
    BY <1>2, <1>3
  <2> QED
    BY <2>1, <2>2
<1>5. \A d \in Call : Given(Flushed(rs), d)
                        = Given(rs, d) + Cardinality(OpenIn(pending, d))
  <2> SUFFICES ASSUME NEW d \in Call
               PROVE  Given(Flushed(rs), d)
                        = Given(rs, d) + Cardinality(OpenIn(pending, d))
    OBVIOUS
  <2>1. CASE \E p \in pending : p.call = d
    <3>1. OpenIn(pending, d) # {} /\ IsFiniteSet(OpenIn(pending, d))
      BY <2>1, FS_Subset DEF OpenIn
    <3>2. Cardinality(OpenIn(pending, d)) = 1
      BY <3>1, FS_EmptySet
    <3> QED
      BY <2>1, <3>2, <1>2, <1>3 DEF Given
  <2>2. CASE ~\E p \in pending : p.call = d
    <3>1. OpenIn(pending, d) = {}
      BY <2>2 DEF OpenIn
    <3>2. Cardinality(OpenIn(pending, d)) = 0
      BY <3>1, FS_EmptySet
    <3> QED
      BY <2>2, <3>2, <1>2, <1>3 DEF Given
  <2> QED
    BY <2>1, <2>2
<1>6. ASSUME NEW r \in Request, NEW i \in DOMAIN Flushed(rs)[r],
             Flushed(rs)[r][i].result = "response"
      PROVE  Flushed(rs)[r][i].to \in {r, "nobody"}
  <2>1. r \in Call
    BY DEF Call
  <2>2. CASE Flushed(rs)[r] = rs[r]
    <3>1. i \in DOMAIN rs[r] /\ rs[r][i].result = "response"
      BY <2>2, <1>6
    <3> QED
      BY <3>1, <2>2 DEF Matches
  <2>3. CASE Flushed(rs)[r] = Append(rs[r], x)
    <3>1. /\ i \in 1 .. Len(rs[r]) + 1
          /\ Append(rs[r], x)[i].result = "response"
          /\ Len(rs[r]) \in Nat
      BY <2>1, <2>3, <1>3, <1>6
    <3>2. i # Len(rs[r]) + 1
      BY <3>1, <2>1, <1>1, <1>3
    <3>3. i \in DOMAIN rs[r] /\ Append(rs[r], x)[i] = rs[r][i]
      BY <3>1, <3>2, <2>1, <1>3
    <3> QED
      BY <3>1, <3>3, <2>3 DEF Matches
  <2> QED
    BY <2>1, <2>2, <2>3, <1>2
<1> QED
  BY <1>4, <1>5, <1>6 DEF Matches

-----------------------------------------------------------------------------
(* What handling a message does to the counts.                             *)

\* What the looper's next state owes for IInv to hold in it.
LEMMA StepKeepsIInv ==
  ASSUME IInv, ~crashed, TypeOK', Idle', Matched', Matches(replies'),
         posted' = posted,
         \A d \in Call : Owed(mailbox', pending', replies', d)
                           = Owed(mailbox, pending, replies, d),
         Count(mailbox', {ReceiveEvent}) = IF receivePending' THEN 1 ELSE 0,
         state' = "connected" /\ ~broken' => receivePending'
  PROVE  IInv'
<1>1. RepliedOnce'
  BY SameOwed DEF IInv
<1>2. ResponseMatches'
  BY DEF Matches, ResponseMatches
<1>3. {i \in DOMAIN mailbox' : mailbox'[i] = ReceiveEvent}
        = Occurs(mailbox', {ReceiveEvent})
  BY DEF Occurs
<1>4. PolledOnce'
  BY <1>3 DEF PolledOnce, Count
<1> QED
  BY <1>1, <1>2, <1>4 DEF IInv

LEMMA PollCount ==
  ASSUME IInv, ~crashed
  PROVE  Count(mailbox, {ReceiveEvent}) = IF receivePending THEN 1 ELSE 0
<1>1. {i \in DOMAIN mailbox : mailbox[i] = ReceiveEvent}
        = Occurs(mailbox, {ReceiveEvent})
  BY DEF Occurs
<1> QED
  BY <1>1 DEF IInv, PolledOnce, Count

LEMMA MailHandled ==
  ASSUME TypeOK, mailbox # <<>>
  PROVE  /\ Current \in Msg
         /\ Handled \in Seq(Msg)
         /\ \A M : /\ Count(Handled, M) \in Nat
                   /\ Count(mailbox, M) = Count(Handled, M)
                                          + (IF Current \in M THEN 1 ELSE 0)
<1>1. mailbox \in Seq(Msg)
  BY DEF TypeOK
<1>2. Current \in Msg /\ Handled \in Seq(Msg)
  BY <1>1, HeadTailProperties DEF Current, Handled
<1>3. \A M : Count(Handled, M) \in Nat
  BY <1>2, OccursFinite
<1>4. \A M : Count(mailbox, M) = Count(Handled, M)
                                 + (IF Current \in M THEN 1 ELSE 0)
  BY <1>1, CountTail DEF Current, Handled
<1> QED
  BY <1>2, <1>3, <1>4

\* The message of a call is all there is of that call.
LEMMA CurrentCall ==
  ASSUME IInv, ~crashed, mailbox # <<>>, Current.what # "receive"
  PROVE  /\ Current \in Msg /\ Current.call \in Call
         /\ Handled \in Seq(Msg)
         /\ \A d \in Call : /\ Count(Handled, CallMsgs(d)) \in Nat
                            /\ Count(mailbox, CallMsgs(d))
                                 = Count(Handled, CallMsgs(d))
                                   + (IF d = Current.call THEN 1 ELSE 0)
         /\ Count(Handled, {ReceiveEvent}) = IF receivePending THEN 1 ELSE 0
<1>1. TypeOK
  BY DEF IInv
<1>2. Current \in Msg /\ Handled \in Seq(Msg)
  BY <1>1, MailHandled
<1>3. Current # ReceiveEvent /\ Current.call \in Call
  BY <1>2, MsgFacts DEF Call
<1>4. \A d : Current \in CallMsgs(d) <=> d = Current.call
  BY <1>2, <1>3, MsgFacts
<1>5. \A d \in Call : /\ Count(Handled, CallMsgs(d)) \in Nat
                      /\ Count(mailbox, CallMsgs(d))
                           = Count(Handled, CallMsgs(d))
                             + (IF d = Current.call THEN 1 ELSE 0)
  BY <1>1, <1>4, MailHandled
<1>6. Current \notin {ReceiveEvent}
  BY <1>3
<1>7. /\ Count(Handled, {ReceiveEvent}) \in Nat
      /\ Count(mailbox, {ReceiveEvent}) = Count(Handled, {ReceiveEvent}) + 0
  BY <1>1, <1>6, MailHandled
<1>8. Count(Handled, {ReceiveEvent}) = Count(mailbox, {ReceiveEvent})
  BY <1>7
<1> QED
  BY <1>2, <1>3, <1>5, <1>8, PollCount

\* A further message of the call the looper is handling.
LEMMA CallPosted ==
  ASSUME NEW box \in Seq(Msg), NEW m \in Msg, m # ReceiveEvent
  PROVE  /\ Append(box, m) \in Seq(Msg)
         /\ \A d : Count(Append(box, m), CallMsgs(d))
                     = Count(box, CallMsgs(d)) + (IF d = m.call THEN 1 ELSE 0)
         /\ Count(Append(box, m), {ReceiveEvent}) = Count(box, {ReceiveEvent})
<1>1. \A d : m \in CallMsgs(d) <=> d = m.call
  BY MsgFacts
<1>2. Append(box, m) \in Seq(Msg)
  OBVIOUS
<1>3. \A d : Count(Append(box, m), CallMsgs(d))
               = Count(box, CallMsgs(d)) + (IF d = m.call THEN 1 ELSE 0)
  BY <1>1, CountAppend
<1>4. m \notin {ReceiveEvent} /\ Count(box, {ReceiveEvent}) \in Nat
  BY OccursFinite
<1>5. Count(Append(box, m), {ReceiveEvent}) = Count(box, {ReceiveEvent})
  BY <1>4, CountAppend
<1> QED
  BY <1>2, <1>3, <1>5

LEMMA ReceivePosted ==
  ASSUME NEW box \in Seq(Msg)
  PROVE  /\ Append(box, ReceiveEvent) \in Seq(Msg)
         /\ \A d : Count(Append(box, ReceiveEvent), CallMsgs(d))
                     = Count(box, CallMsgs(d))
         /\ Count(Append(box, ReceiveEvent), {ReceiveEvent})
              = Count(box, {ReceiveEvent}) + 1
<1>1. ReceiveEvent \in Msg /\ \A d : ReceiveEvent \notin CallMsgs(d)
  BY MsgFacts
<1>2. Append(box, ReceiveEvent) \in Seq(Msg)
  BY <1>1
<1>3. \A M : Count(box, M) \in Nat
  BY OccursFinite
<1>4. ASSUME NEW d
      PROVE  Count(Append(box, ReceiveEvent), CallMsgs(d))
               = Count(box, CallMsgs(d))
  <2>1. Count(Append(box, ReceiveEvent), CallMsgs(d))
          = Count(box, CallMsgs(d)) + 0
    BY <1>1, CountAppend
  <2> QED
    BY <2>1, <1>3
<1>5. Count(Append(box, ReceiveEvent), {ReceiveEvent})
        = Count(box, {ReceiveEvent}) + 1
  BY <1>1, CountAppend
<1> QED
  BY <1>2, <1>4, <1>5

\* postReceiveReponseEvent() keeps the polling messages at one.
LEMMA PollingPosted ==
  ASSUME TypeOK, NEW box \in Seq(Msg),
         Count(box, {ReceiveEvent}) = IF receivePending THEN 1 ELSE 0
  PROVE  /\ WithReceiveEvent(box) \in Seq(Msg)
         /\ \A d : Count(WithReceiveEvent(box), CallMsgs(d))
                     = Count(box, CallMsgs(d))
         /\ Count(WithReceiveEvent(box), {ReceiveEvent}) = 1
<1>1. CASE receivePending
  BY <1>1 DEF WithReceiveEvent
<1>2. CASE ~receivePending
  <2>1. WithReceiveEvent(box) = Append(box, ReceiveEvent)
    BY <1>2 DEF WithReceiveEvent
  <2>2. Count(box, {ReceiveEvent}) = 0
    BY <1>2
  <2>3. /\ Append(box, ReceiveEvent) \in Seq(Msg)
        /\ \A d : Count(Append(box, ReceiveEvent), CallMsgs(d))
                    = Count(box, CallMsgs(d))
        /\ Count(Append(box, ReceiveEvent), {ReceiveEvent})
             = Count(box, {ReceiveEvent}) + 1
    BY ReceivePosted
  <2> QED
    BY <2>1, <2>2, <2>3
<1> QED
  BY <1>1, <1>2

\* The polling message is the only one of its kind.
LEMMA CurrentReceive ==
  ASSUME IInv, ~crashed, mailbox # <<>>, Current.what = "receive"
  PROVE  /\ receivePending
         /\ Handled \in Seq(Msg)
         /\ Append(Handled, ReceiveEvent) \in Seq(Msg)
         /\ \A d : /\ Count(Handled, CallMsgs(d)) = Count(mailbox, CallMsgs(d))
                   /\ Count(Append(Handled, ReceiveEvent), CallMsgs(d))
                        = Count(mailbox, CallMsgs(d))
         /\ Count(Handled, {ReceiveEvent}) = 0
         /\ Count(Append(Handled, ReceiveEvent), {ReceiveEvent}) = 1
<1>1. TypeOK
  BY DEF IInv
<1>2. Current \in Msg /\ Handled \in Seq(Msg)
  BY <1>1, MailHandled
<1>3. Current = ReceiveEvent
  BY <1>2, MsgFacts
<1>4. /\ Count(Handled, {ReceiveEvent}) \in Nat
      /\ Count(mailbox, {ReceiveEvent}) = Count(Handled, {ReceiveEvent}) + 1
  BY <1>1, <1>3, MailHandled
<1>5. receivePending /\ Count(Handled, {ReceiveEvent}) = 0
  BY <1>4, PollCount DEF TypeOK
<1>6. ASSUME NEW d
      PROVE  Count(Handled, CallMsgs(d)) = Count(mailbox, CallMsgs(d))
  <2>1. Current \notin CallMsgs(d)
    BY <1>3, MsgFacts
  <2>2. /\ Count(Handled, CallMsgs(d)) \in Nat
        /\ Count(mailbox, CallMsgs(d)) = Count(Handled, CallMsgs(d)) + 0
    BY <1>1, <2>1, MailHandled
  <2> QED
    BY <2>2
<1>7. /\ Append(Handled, ReceiveEvent) \in Seq(Msg)
      /\ \A d : Count(Append(Handled, ReceiveEvent), CallMsgs(d))
                  = Count(mailbox, CallMsgs(d))
      /\ Count(Append(Handled, ReceiveEvent), {ReceiveEvent}) = 1
  <2>1. /\ Append(Handled, ReceiveEvent) \in Seq(Msg)
        /\ \A d : Count(Append(Handled, ReceiveEvent), CallMsgs(d))
                    = Count(Handled, CallMsgs(d))
        /\ Count(Append(Handled, ReceiveEvent), {ReceiveEvent})
             = Count(Handled, {ReceiveEvent}) + 1
    BY <1>2, ReceivePosted
  <2> QED
    BY <2>1, <1>5, <1>6
<1> QED
  BY <1>2, <1>5, <1>6, <1>7

\* At most one entry of the table belongs to a call.
LEMMA OpenOnce ==
  ASSUME IInv, ~crashed
  PROVE  \A d \in Call : /\ Cardinality(OpenIn(pending, d)) \in 0 .. 1
                         /\ Count(mailbox, CallMsgs(d)) \in Nat
                         /\ Given(replies, d) \in Nat
<1> SUFFICES ASSUME NEW d \in Call
             PROVE  /\ Cardinality(OpenIn(pending, d)) \in 0 .. 1
                    /\ Count(mailbox, CallMsgs(d)) \in Nat
                    /\ Given(replies, d) \in Nat
  OBVIOUS
<1>1. Owed(mailbox, pending, replies, d) \in 0 .. 1
  BY OwedNow DEF IInv
<1>2. /\ Count(mailbox, CallMsgs(d)) \in Nat
      /\ Cardinality(OpenIn(pending, d)) \in Nat
      /\ Given(replies, d) \in Nat
  BY OwedTypes DEF IInv, TypeOK
<1> QED
  BY <1>1, <1>2 DEF Owed

\* Closing the socket replies to what was open on it.
LEMMA CloseSettles ==
  ASSUME IInv, ~crashed, CloseSocket
  PROVE  /\ pending' = {} /\ IsFiniteSet(pending')
         /\ \A d : Cardinality(OpenIn(pending', d)) = 0
         /\ inbox' = <<>> /\ asked' = {} /\ closed' = FALSE /\ broken' = FALSE
         /\ partial' = FALSE
         /\ RepliesAfterClose \in [Call -> Seq(Reply)]
         /\ Matches(RepliesAfterClose)
         /\ \A d \in Call : Given(RepliesAfterClose, d)
              = Given(replies, d) + Cardinality(OpenIn(pending, d))
<1>1. TypeOK /\ Matches(replies)
  BY DEF IInv, ResponseMatches, Matches
<1>2. pending' = {}
  BY DEF CloseSocket, PendingAfterClose, IInv, Idle
<1>3. IsFiniteSet(pending') /\ \A d : Cardinality(OpenIn(pending', d)) = 0
  <2>1. \A d : OpenIn(pending', d) = {}
    BY <1>2 DEF OpenIn
  <2> QED
    BY <2>1, <1>2, FS_EmptySet
<1>4. CASE state # "disconnected"
  <2>1. /\ pending \subseteq [cseq : Nat, call : Request]
        /\ IsFiniteSet(pending)
        /\ replies \in [Call -> Seq(Reply)]
    BY <1>1 DEF TypeOK
  <2>2. \A d \in Call : Cardinality(OpenIn(pending, d)) \in 0 .. 1
    BY OpenOnce
  <2>3. /\ Flushed(replies) \in [Call -> Seq(Reply)]
        /\ Matches(Flushed(replies))
        /\ \A d \in Call : Given(Flushed(replies), d)
             = Given(replies, d) + Cardinality(OpenIn(pending, d))
    BY <1>1, <2>1, <2>2, RepliesFlushed
  <2> QED
    BY <1>2, <1>3, <1>4, <2>3 DEF RepliesAfterClose, CloseSocket
<1>5. CASE state = "disconnected"
  <2>1. \A d : OpenIn(pending, d) = {}
    BY <1>5 DEF IInv, Idle, OpenIn
  <2>2. \A d : Cardinality(OpenIn(pending, d)) = 0
    BY <2>1, FS_EmptySet
  <2>3. \A d \in Call : Given(replies, d) \in Nat
    BY OpenOnce
  <2> QED
    BY <1>1, <1>5, <2>2, <2>3, <1>2, <1>3
       DEF RepliesAfterClose, TypeOK, CloseSocket
<1> QED
  BY <1>2, <1>3, <1>4, <1>5 DEF CloseSocket

\* A message of call c is off the mailbox, and a reply to it, or an entry of
\* its own, has taken its place.
LEMMA Passed ==
  ASSUME TypeOK, NEW c \in Call, NEW box, NEW P, NEW rs,
         \A d \in Call : /\ Count(box, CallMsgs(d)) \in Nat
                         /\ Count(mailbox, CallMsgs(d))
                              = Count(box, CallMsgs(d))
                                + (IF d = c THEN 1 ELSE 0),
         \A d \in Call : /\ Cardinality(OpenIn(P, d)) \in Nat
                         /\ Given(rs, d) \in Nat
                         /\ Cardinality(OpenIn(P, d)) + Given(rs, d)
                              = Cardinality(OpenIn(pending, d)) + Given(replies, d)
                                + (IF d = c THEN 1 ELSE 0)
  PROVE  \A d \in Call : Owed(box, P, rs, d) = Owed(mailbox, pending, replies, d)
<1> SUFFICES ASSUME NEW d \in Call
             PROVE  Owed(box, P, rs, d) = Owed(mailbox, pending, replies, d)
  OBVIOUS
<1>1. /\ Cardinality(OpenIn(pending, d)) \in Nat
      /\ Given(replies, d) \in Nat
  BY OwedTypes DEF TypeOK
<1>2. CASE d = c
  <2>1. /\ Count(box, CallMsgs(d)) \in Nat
        /\ Count(mailbox, CallMsgs(d)) = Count(box, CallMsgs(d)) + 1
        /\ Cardinality(OpenIn(P, d)) \in Nat /\ Given(rs, d) \in Nat
        /\ Cardinality(OpenIn(P, d)) + Given(rs, d)
             = Cardinality(OpenIn(pending, d)) + Given(replies, d) + 1
    BY <1>2
  <2> QED
    BY <1>1, <2>1 DEF Owed
<1>3. CASE d # c
  <2>1. /\ Count(box, CallMsgs(d)) \in Nat
        /\ Count(mailbox, CallMsgs(d)) = Count(box, CallMsgs(d)) + 0
        /\ Cardinality(OpenIn(P, d)) \in Nat /\ Given(rs, d) \in Nat
        /\ Cardinality(OpenIn(P, d)) + Given(rs, d)
             = Cardinality(OpenIn(pending, d)) + Given(replies, d) + 0
    BY <1>3
  <2> QED
    BY <1>1, <2>1 DEF Owed
<1> QED
  BY <1>2, <1>3

-----------------------------------------------------------------------------
(* The looper's handlers preserve the invariant.                           *)

LEMMA ConnectKeepsIInv ==
  ASSUME IInv, ~crashed, mailbox # <<>>, OnConnect
  PROVE  IInv'
<1> DEFINE c == Current.call
           rs == RepliesAfterClose
<1>1. TypeOK
  BY DEF IInv
<1>2. /\ Current \in Msg /\ c \in Call /\ c \in Connect
      /\ Handled \in Seq(Msg)
      /\ \A d \in Call : /\ Count(Handled, CallMsgs(d)) \in Nat
                         /\ Count(mailbox, CallMsgs(d))
                              = Count(Handled, CallMsgs(d))
                                + (IF d = c THEN 1 ELSE 0)
      /\ Count(Handled, {ReceiveEvent}) = IF receivePending THEN 1 ELSE 0
  BY CurrentCall, MsgFacts DEF OnConnect
<1>3. /\ pending' = {} /\ IsFiniteSet(pending')
      /\ \A d : Cardinality(OpenIn(pending', d)) = 0
      /\ inbox' = <<>> /\ asked' = {} /\ closed' = FALSE /\ broken' = FALSE
      /\ partial' = FALSE
      /\ rs \in [Call -> Seq(Reply)]
      /\ Matches(rs)
      /\ \A d \in Call : Given(rs, d)
           = Given(replies, d) + Cardinality(OpenIn(pending, d))
  BY CloseSettles DEF OnConnect
<1>4. \A d \in Call : /\ Cardinality(OpenIn(pending, d)) \in Nat
                      /\ Given(replies, d) \in Nat
  BY OwedTypes, <1>1 DEF TypeOK
<1>5. /\ connectionID' = connectionID + 1 /\ connectionID' \in Nat
      /\ user' \in BOOLEAN
      /\ UNCHANGED <<posted, authenticated, crashed>>
  BY <1>1 DEF OnConnect, TypeOK
<1>6. Idle' /\ Matched'
  BY <1>3 DEF Idle, Matched
<1>7. ASSUME NEW x \in Reply, x.result # "response",
             replies' = [rs EXCEPT ![c] = Append(@, x)]
      PROVE  /\ replies' \in [Call -> Seq(Reply)]
             /\ Matches(replies')
             /\ \A d \in Call : Given(replies', d)
                  = Given(rs, d) + (IF d = c THEN 1 ELSE 0)
  <2>1. replies' = WithReply(rs, c, x)
    BY <1>7 DEF WithReply
  <2> HIDE DEF rs, c
  <2>2. x \in Reply /\ (x.result = "response" => x.to \in {c, "nobody"})
    BY <1>7
  <2>3. /\ WithReply(rs, c, x) \in [Call -> Seq(Reply)]
        /\ Matches(WithReply(rs, c, x))
        /\ \A d \in Call : Given(WithReply(rs, c, x), d)
                             = Given(rs, d) + (IF d = c THEN 1 ELSE 0)
    BY <2>2, <1>2, <1>3, ReplyAppended
  <2> QED
    BY <2>1, <2>3
<1> HIDE DEF rs, c
<1>8. CASE /\ state' = "disconnected"
           /\ mailbox' = Handled
           /\ replies' = [rs EXCEPT ![c] = Append(@, [result |-> "error"])]
           /\ UNCHANGED <<nextCSeq, receivePending>>
  <2>1. [result |-> "error"] \in Reply /\ [result |-> "error"].result # "response"
    BY DEF Reply
  <2>2. /\ replies' \in [Call -> Seq(Reply)]
        /\ Matches(replies')
        /\ \A d \in Call : Given(replies', d)
             = Given(rs, d) + (IF d = c THEN 1 ELSE 0)
    BY <1>7, <1>8, <2>1
  <2>3. TypeOK'
    <3>1. mailbox' \in Seq(Msg) /\ replies' \in [Call -> Seq(Reply)]
      BY <1>2, <1>8, <2>2
    <3>2. pending' \subseteq [cseq : Nat, call : Request] /\ IsFiniteSet(pending')
      BY <1>3
    <3>3. asked' \subseteq [cseq : Nat, call : Request] /\ inbox' \in Seq(Answer \cup Talk)
      BY <1>3
    <3>4. closed' \in BOOLEAN /\ partial' \in BOOLEAN /\ broken' \in BOOLEAN
      BY <1>3
    <3> QED
      BY <3>1, <3>2, <3>3, <3>4, <1>1, <1>5, <1>8 DEF TypeOK
  <2>4. \A d \in Call : Owed(mailbox', pending', replies', d)
                          = Owed(mailbox, pending, replies, d)
    <3>1. \A d \in Call :
            /\ Cardinality(OpenIn(pending', d)) \in Nat
            /\ Given(replies', d) \in Nat
            /\ Cardinality(OpenIn(pending', d)) + Given(replies', d)
                 = Cardinality(OpenIn(pending, d)) + Given(replies, d)
                   + (IF d = c THEN 1 ELSE 0)
      BY <1>3, <1>4, <2>2
    <3>2. \A d \in Call : /\ Count(mailbox', CallMsgs(d)) \in Nat
                          /\ Count(mailbox, CallMsgs(d))
                               = Count(mailbox', CallMsgs(d))
                                 + (IF d = c THEN 1 ELSE 0)
      BY <1>2, <1>8
    <3> QED
      BY <3>1, <3>2, <1>1, <1>2, Passed
  <2> QED
    BY <2>2, <2>3, <2>4, <1>2, <1>5, <1>6, <1>8, StepKeepsIInv
<1>9. CASE /\ state' = "connecting"
           /\ mailbox' = Append(Handled, [what |-> "complete", call |-> c,
                                          id |-> connectionID'])
           /\ replies' = rs
           /\ UNCHANGED <<nextCSeq, receivePending>>
  <2> DEFINE m == [what |-> "complete", call |-> c, id |-> connectionID']
  <2>1. m \in Msg /\ m # ReceiveEvent /\ m.call = c
    BY <1>2, <1>5, MsgFacts
  <2> HIDE DEF m
  <2>2. /\ mailbox' \in Seq(Msg)
        /\ \A d : Count(mailbox', CallMsgs(d))
                    = Count(Handled, CallMsgs(d)) + (IF d = c THEN 1 ELSE 0)
        /\ Count(mailbox', {ReceiveEvent}) = Count(Handled, {ReceiveEvent})
    <3>1. mailbox' = Append(Handled, m)
      BY <1>9 DEF m
    <3> QED
      BY <3>1, <1>2, <2>1, CallPosted
  <2>3. TypeOK'
    <3>1. mailbox' \in Seq(Msg) /\ replies' \in [Call -> Seq(Reply)]
      BY <1>3, <1>9, <2>2
    <3>2. pending' \subseteq [cseq : Nat, call : Request] /\ IsFiniteSet(pending')
      BY <1>3
    <3>3. asked' \subseteq [cseq : Nat, call : Request] /\ inbox' \in Seq(Answer \cup Talk)
      BY <1>3
    <3>4. closed' \in BOOLEAN /\ partial' \in BOOLEAN /\ broken' \in BOOLEAN
      BY <1>3
    <3> QED
      BY <3>1, <3>2, <3>3, <3>4, <1>1, <1>5, <1>9 DEF TypeOK
  <2>4. \A d \in Call : Owed(mailbox', pending', replies', d)
                          = Owed(mailbox, pending, replies, d)
    <3>1. \A d \in Call :
            /\ Count(mailbox', CallMsgs(d)) = Count(mailbox, CallMsgs(d))
            /\ Cardinality(OpenIn(pending', d)) = 0
            /\ Given(replies', d)
                 = Given(replies, d) + Cardinality(OpenIn(pending, d))
      BY <1>2, <1>3, <1>9, <2>2
    <3>2. \A d \in Call : Count(mailbox, CallMsgs(d)) \in Nat
      BY OpenOnce
    <3> QED
      BY <3>1, <3>2, <1>4 DEF Owed
  <2> QED
    BY <2>2, <2>3, <2>4, <1>2, <1>3, <1>5, <1>6, <1>9, StepKeepsIInv
<1>10. CASE /\ Connected(Handled)
            /\ replies' = [rs EXCEPT ![c] = Append(@, [result |-> "ok"])]
  <2>1. [result |-> "ok"] \in Reply /\ [result |-> "ok"].result # "response"
    BY DEF Reply
  <2>2. /\ replies' \in [Call -> Seq(Reply)]
        /\ Matches(replies')
        /\ \A d \in Call : Given(replies', d)
             = Given(rs, d) + (IF d = c THEN 1 ELSE 0)
    BY <1>7, <1>10, <2>1
  <2>3. /\ mailbox' \in Seq(Msg)
        /\ \A d : Count(mailbox', CallMsgs(d)) = Count(Handled, CallMsgs(d))
        /\ Count(mailbox', {ReceiveEvent}) = 1
    BY <1>1, <1>2, <1>10, PollingPosted DEF Connected
  <2>4. TypeOK'
    <3>1. mailbox' \in Seq(Msg) /\ replies' \in [Call -> Seq(Reply)]
      BY <2>2, <2>3
    <3>2. pending' \subseteq [cseq : Nat, call : Request] /\ IsFiniteSet(pending')
      BY <1>3
    <3>3. asked' \subseteq [cseq : Nat, call : Request] /\ inbox' \in Seq(Answer \cup Talk)
      BY <1>3
    <3>4. closed' \in BOOLEAN /\ partial' \in BOOLEAN /\ broken' \in BOOLEAN
      BY <1>3
    <3>5. /\ state' = "connected" /\ nextCSeq' = 1 /\ receivePending' = TRUE
      BY <1>10 DEF Connected
    <3> QED
      BY <3>1, <3>2, <3>3, <3>4, <3>5, <1>1, <1>5 DEF TypeOK
  <2>5. \A d \in Call : Owed(mailbox', pending', replies', d)
                          = Owed(mailbox, pending, replies, d)
    <3>1. \A d \in Call :
            /\ Cardinality(OpenIn(pending', d)) \in Nat
            /\ Given(replies', d) \in Nat
            /\ Cardinality(OpenIn(pending', d)) + Given(replies', d)
                 = Cardinality(OpenIn(pending, d)) + Given(replies, d)
                   + (IF d = c THEN 1 ELSE 0)
      BY <1>3, <1>4, <2>2
    <3>2. \A d \in Call : /\ Count(mailbox', CallMsgs(d)) \in Nat
                          /\ Count(mailbox, CallMsgs(d))
                               = Count(mailbox', CallMsgs(d))
                                 + (IF d = c THEN 1 ELSE 0)
      BY <1>2, <2>3
    <3> QED
      BY <3>1, <3>2, <1>1, <1>2, Passed
  <2> QED
    BY <2>2, <2>3, <2>4, <2>5, <1>5, <1>6, <1>10, StepKeepsIInv DEF Connected
<1> QED
  BY <1>8, <1>9, <1>10 DEF OnConnect, rs, c

LEMMA CompleteKeepsIInv ==
  ASSUME IInv, ~crashed, mailbox # <<>>, OnCompleteConnection
  PROVE  IInv'
<1> DEFINE c == Current.call
<1>1. TypeOK /\ Idle /\ Matched /\ Matches(replies)
  BY DEF IInv, ResponseMatches, Matches
<1>2. /\ Current \in Msg /\ c \in Call /\ Current # ReceiveEvent
      /\ Handled \in Seq(Msg)
      /\ \A d \in Call : /\ Count(Handled, CallMsgs(d)) \in Nat
                         /\ Count(mailbox, CallMsgs(d))
                              = Count(Handled, CallMsgs(d))
                                + (IF d = c THEN 1 ELSE 0)
      /\ Count(Handled, {ReceiveEvent}) = IF receivePending THEN 1 ELSE 0
  BY CurrentCall, MsgFacts DEF OnCompleteConnection
<1>3. /\ UNCHANGED <<posted, connectionID, user, authenticated, pending,
                     inbox, asked, closed, partial, crashed, broken>>
      /\ pending' = pending /\ asked' = asked /\ inbox' = inbox
  BY DEF OnCompleteConnection, authVars, serverVars
<1>4. \A d \in Call : /\ Cardinality(OpenIn(pending, d)) \in Nat
                      /\ Given(replies, d) \in Nat
  BY OwedTypes, <1>1 DEF TypeOK
<1>5. ASSUME NEW x \in Reply, x.result # "response",
             replies' = Replied(c, x)
      PROVE  /\ replies' \in [Call -> Seq(Reply)]
             /\ Matches(replies')
             /\ \A d \in Call : Given(replies', d)
                  = Given(replies, d) + (IF d = c THEN 1 ELSE 0)
  <2>1. replies \in [Call -> Seq(Reply)]
    BY <1>1 DEF TypeOK
  <2>2. replies' = WithReply(replies, c, x)
    BY <1>5 DEF Replied, WithReply
  <2> HIDE DEF c
  <2>3. x \in Reply /\ (x.result = "response" => x.to \in {c, "nobody"})
    BY <1>5
  <2>4. /\ WithReply(replies, c, x) \in [Call -> Seq(Reply)]
        /\ Matches(WithReply(replies, c, x))
        /\ \A d \in Call : Given(WithReply(replies, c, x), d)
                             = Given(replies, d) + (IF d = c THEN 1 ELSE 0)
    BY <2>1, <2>3, <1>1, <1>2, ReplyAppended
  <2> QED
    BY <2>2, <2>4
<1>6. /\ [result |-> "aborted"] \in Reply
      /\ [result |-> "aborted"].result # "response"
      /\ [result |-> "error"] \in Reply
      /\ [result |-> "error"].result # "response"
      /\ [result |-> "ok"] \in Reply
      /\ [result |-> "ok"].result # "response"
  BY DEF Reply
<1> HIDE DEF c
<1>7. CASE /\ mailbox' = Handled
           /\ replies' = Replied(c, [result |-> "aborted"])
           /\ UNCHANGED <<state, nextCSeq, receivePending>>
  <2>1. /\ replies' \in [Call -> Seq(Reply)]
        /\ Matches(replies')
        /\ \A d \in Call : Given(replies', d)
             = Given(replies, d) + (IF d = c THEN 1 ELSE 0)
    BY <1>5, <1>6, <1>7
  <2>2. TypeOK'
    BY <1>1, <1>2, <1>3, <1>7, <2>1 DEF TypeOK
  <2>3. Idle' /\ Matched'
    BY <1>1, <1>3, <1>7 DEF Idle, Matched
  <2>4. \A d \in Call : Owed(mailbox', pending', replies', d)
                          = Owed(mailbox, pending, replies, d)
    <3>1. \A d \in Call :
            /\ Cardinality(OpenIn(pending', d)) \in Nat
            /\ Given(replies', d) \in Nat
            /\ Cardinality(OpenIn(pending', d)) + Given(replies', d)
                 = Cardinality(OpenIn(pending, d)) + Given(replies, d)
                   + (IF d = c THEN 1 ELSE 0)
      BY <1>3, <1>4, <2>1
    <3> QED
      BY <3>1, <1>1, <1>2, <1>7, Passed
  <2>5. state' = "connected" /\ ~broken' => receivePending'
    BY <1>3, <1>7 DEF IInv, PolledOnce
  <2> QED
    BY <2>1, <2>2, <2>3, <2>4, <2>5, <1>2, <1>3, <1>7, StepKeepsIInv
<1>8. CASE /\ mailbox' = Append(Handled, Current)
           /\ UNCHANGED <<state, nextCSeq, receivePending, replies>>
  <2>1. /\ mailbox' \in Seq(Msg)
        /\ \A d : Count(mailbox', CallMsgs(d))
                    = Count(Handled, CallMsgs(d)) + (IF d = c THEN 1 ELSE 0)
        /\ Count(mailbox', {ReceiveEvent}) = Count(Handled, {ReceiveEvent})
    BY <1>2, <1>8, CallPosted DEF c
  <2>2. TypeOK'
    BY <1>1, <1>3, <1>8, <2>1 DEF TypeOK
  <2>3. Idle' /\ Matched' /\ Matches(replies')
    BY <1>1, <1>3, <1>8 DEF Idle, Matched
  <2>4. \A d \in Call : Owed(mailbox', pending', replies', d)
                          = Owed(mailbox, pending, replies, d)
    BY <1>2, <1>3, <1>4, <1>8, <2>1 DEF Owed
  <2>5. state' = "connected" /\ ~broken' => receivePending'
    BY <1>3, <1>8 DEF IInv, PolledOnce
  <2> QED
    BY <2>1, <2>2, <2>3, <2>4, <2>5, <1>2, <1>3, <1>8, StepKeepsIInv
<1>9. CASE /\ state' = "disconnected" /\ state = "connecting"
           /\ mailbox' = Handled
           /\ replies' = Replied(c, [result |-> "error"])
           /\ UNCHANGED <<nextCSeq, receivePending>>
  <2>1. /\ replies' \in [Call -> Seq(Reply)]
        /\ Matches(replies')
        /\ \A d \in Call : Given(replies', d)
             = Given(replies, d) + (IF d = c THEN 1 ELSE 0)
    BY <1>5, <1>6, <1>9
  <2>2. TypeOK'
    BY <1>1, <1>2, <1>3, <1>9, <2>1 DEF TypeOK
  <2>3. Idle' /\ Matched'
    BY <1>1, <1>3, <1>9 DEF Idle, Matched
  <2>4. \A d \in Call : Owed(mailbox', pending', replies', d)
                          = Owed(mailbox, pending, replies, d)
    <3>1. \A d \in Call :
            /\ Cardinality(OpenIn(pending', d)) \in Nat
            /\ Given(replies', d) \in Nat
            /\ Cardinality(OpenIn(pending', d)) + Given(replies', d)
                 = Cardinality(OpenIn(pending, d)) + Given(replies, d)
                   + (IF d = c THEN 1 ELSE 0)
      BY <1>3, <1>4, <2>1
    <3> QED
      BY <3>1, <1>1, <1>2, <1>9, Passed
  <2> QED
    BY <2>1, <2>2, <2>3, <2>4, <1>2, <1>3, <1>9, StepKeepsIInv
<1>10. CASE /\ Connected(Handled) /\ state = "connecting"
            /\ replies' = Replied(c, [result |-> "ok"])
  <2>1. /\ replies' \in [Call -> Seq(Reply)]
        /\ Matches(replies')
        /\ \A d \in Call : Given(replies', d)
             = Given(replies, d) + (IF d = c THEN 1 ELSE 0)
    BY <1>5, <1>6, <1>10
  <2>2. /\ mailbox' \in Seq(Msg)
        /\ \A d : Count(mailbox', CallMsgs(d)) = Count(Handled, CallMsgs(d))
        /\ Count(mailbox', {ReceiveEvent}) = 1
    BY <1>1, <1>2, <1>10, PollingPosted DEF Connected
  <2>3. TypeOK'
    BY <1>1, <1>3, <1>10, <2>1, <2>2 DEF TypeOK, Connected
  <2>4. Idle' /\ Matched'
    BY <1>1, <1>3, <1>10 DEF Idle, Matched, Connected
  <2>5. \A d \in Call : Owed(mailbox', pending', replies', d)
                          = Owed(mailbox, pending, replies, d)
    <3>1. \A d \in Call :
            /\ Cardinality(OpenIn(pending', d)) \in Nat
            /\ Given(replies', d) \in Nat
            /\ Cardinality(OpenIn(pending', d)) + Given(replies', d)
                 = Cardinality(OpenIn(pending, d)) + Given(replies, d)
                   + (IF d = c THEN 1 ELSE 0)
      BY <1>3, <1>4, <2>1
    <3>2. \A d \in Call : /\ Count(mailbox', CallMsgs(d)) \in Nat
                          /\ Count(mailbox, CallMsgs(d))
                               = Count(mailbox', CallMsgs(d))
                                 + (IF d = c THEN 1 ELSE 0)
      BY <1>2, <2>2
    <3> QED
      BY <3>1, <3>2, <1>1, <1>2, Passed
  <2> QED
    BY <2>1, <2>2, <2>3, <2>4, <2>5, <1>3, <1>10, StepKeepsIInv DEF Connected
<1> QED
  BY <1>7, <1>8, <1>9, <1>10 DEF OnCompleteConnection, StillConnecting, c

LEMMA DisconnectKeepsIInv ==
  ASSUME IInv, ~crashed, mailbox # <<>>, OnDisconnect
  PROVE  IInv'
<1> DEFINE c == Current.call
           rs == RepliesAfterClose
           x == [result |-> "ok"]
<1>1. TypeOK
  BY DEF IInv
<1>2. /\ c \in Call
      /\ Handled \in Seq(Msg)
      /\ \A d \in Call : /\ Count(Handled, CallMsgs(d)) \in Nat
                         /\ Count(mailbox, CallMsgs(d))
                              = Count(Handled, CallMsgs(d))
                                + (IF d = c THEN 1 ELSE 0)
      /\ Count(Handled, {ReceiveEvent}) = IF receivePending THEN 1 ELSE 0
  BY CurrentCall DEF OnDisconnect
<1>3. /\ pending' = {} /\ IsFiniteSet(pending')
      /\ \A d : Cardinality(OpenIn(pending', d)) = 0
      /\ inbox' = <<>> /\ asked' = {} /\ closed' = FALSE /\ broken' = FALSE
      /\ partial' = FALSE
      /\ rs \in [Call -> Seq(Reply)]
      /\ Matches(rs)
      /\ \A d \in Call : Given(rs, d)
           = Given(replies, d) + Cardinality(OpenIn(pending, d))
  BY CloseSettles DEF OnDisconnect
<1>4. \A d \in Call : /\ Cardinality(OpenIn(pending, d)) \in Nat
                      /\ Given(replies, d) \in Nat
  BY OwedTypes, <1>1 DEF TypeOK
<1>5. /\ state' = "disconnected" /\ user' = FALSE /\ authenticated' = FALSE
      /\ mailbox' = Handled
      /\ replies' = [rs EXCEPT ![c] = Append(@, x)]
      /\ UNCHANGED <<posted, connectionID, nextCSeq, receivePending, crashed>>
  BY DEF OnDisconnect
<1>6. x \in Reply /\ x.result # "response"
  BY DEF Reply
<1> HIDE DEF c, rs, x
<1>7. /\ replies' \in [Call -> Seq(Reply)]
      /\ Matches(replies')
      /\ \A d \in Call : Given(replies', d)
           = Given(rs, d) + (IF d = c THEN 1 ELSE 0)
  <2>1. replies' = WithReply(rs, c, x)
    BY <1>5 DEF WithReply
  <2> QED
    BY <2>1, <1>2, <1>3, <1>6, ReplyAppended
<1>8. TypeOK'
  <2>1. mailbox' \in Seq(Msg) /\ replies' \in [Call -> Seq(Reply)]
    BY <1>2, <1>5, <1>7
  <2>2. pending' \subseteq [cseq : Nat, call : Request] /\ IsFiniteSet(pending')
    BY <1>3
  <2>3. asked' \subseteq [cseq : Nat, call : Request] /\ inbox' \in Seq(Answer \cup Talk)
    BY <1>3
  <2>4. closed' \in BOOLEAN /\ partial' \in BOOLEAN /\ broken' \in BOOLEAN
    BY <1>3
  <2> QED
    BY <2>1, <2>2, <2>3, <2>4, <1>1, <1>5 DEF TypeOK
<1>9. Idle' /\ Matched'
  BY <1>3 DEF Idle, Matched
<1>10. \A d \in Call : Owed(mailbox', pending', replies', d)
                         = Owed(mailbox, pending, replies, d)
  <2>1. \A d \in Call :
          /\ Cardinality(OpenIn(pending', d)) \in Nat
          /\ Given(replies', d) \in Nat
          /\ Cardinality(OpenIn(pending', d)) + Given(replies', d)
               = Cardinality(OpenIn(pending, d)) + Given(replies, d)
                 + (IF d = c THEN 1 ELSE 0)
    BY <1>3, <1>4, <1>7
  <2>2. \A d \in Call : /\ Count(mailbox', CallMsgs(d)) \in Nat
                        /\ Count(mailbox, CallMsgs(d))
                             = Count(mailbox', CallMsgs(d))
                               + (IF d = c THEN 1 ELSE 0)
    BY <1>2, <1>5
  <2> QED
    BY <2>1, <2>2, <1>1, <1>2, Passed
<1> QED
  BY <1>2, <1>5, <1>7, <1>8, <1>9, <1>10, StepKeepsIInv


-----------------------------------------------------------------------------
(* Requests and their responses.                                           *)

\* Everything in sequence b is in sequence a.
From(b, a) == \A j \in DOMAIN b : \E i \in DOMAIN a : b[j] = a[i]

LEMMA TailFrom ==
  ASSUME NEW S, NEW s \in Seq(S), s # <<>>
  PROVE  Tail(s) \in Seq(S) /\ From(Tail(s), s) /\ Head(s) = s[1]
         /\ 1 \in DOMAIN s
<1>1. /\ Len(s) \in Nat \ {0}
      /\ DOMAIN s = 1 .. Len(s)
      /\ Tail(s) \in Seq(S)
      /\ DOMAIN Tail(s) = 1 .. Len(s) - 1
      /\ \A i \in 1 .. Len(s) - 1 : Tail(s)[i] = s[i + 1]
      /\ Head(s) = s[1]
  BY EmptySeq, HeadTailProperties, LenProperties
<1>2. ASSUME NEW j \in DOMAIN Tail(s)
      PROVE  \E i \in DOMAIN s : Tail(s)[j] = s[i]
  <2>1. j + 1 \in DOMAIN s /\ Tail(s)[j] = s[j + 1]
    BY <1>1
  <2> QED
    BY <2>1
<1> QED
  BY <1>1, <1>2 DEF From

\* A request leaves the table, or nothing does.
LEMMA FewerMatched ==
  ASSUME Matched, pending' \subseteq pending, asked' \subseteq asked,
         From(inbox', inbox), nextCSeq' = nextCSeq
  PROVE  Matched'
BY DEF Matched, From

\* onSendRequest() while connected: the call has an entry or a reply more, and
\* its CSeq is new to everything under way.
LEMMA SendSettles ==
  ASSUME TypeOK, Matched, Matches(replies), NEW c \in Request,
         NEW W, W \subseteq pending, SendRequest(c, W), From(inbox', inbox)
  PROVE  /\ nextCSeq' \in Nat
         /\ pending' \subseteq [cseq : Nat, call : Request]
         /\ IsFiniteSet(pending')
         /\ asked' \subseteq [cseq : Nat, call : Request]
         /\ replies' \in [Call -> Seq(Reply)]
         /\ Matches(replies')
         /\ Matched'
         /\ \A d \in Call :
              /\ Cardinality(OpenIn(pending', d)) \in Nat
              /\ Given(replies', d) \in Nat
              /\ Cardinality(OpenIn(pending', d)) + Given(replies', d)
                   = Cardinality(OpenIn(W, d)) + Given(replies, d)
                     + (IF d = c THEN 1 ELSE 0)
<1> DEFINE p == [cseq |-> nextCSeq, call |-> c]
           x == [result |-> "error"]
<1>1. /\ c \in Call
      /\ nextCSeq \in Nat /\ nextCSeq' = nextCSeq + 1
      /\ W \subseteq [cseq : Nat, call : Request]
      /\ IsFiniteSet(W)
      /\ asked \subseteq [cseq : Nat, call : Request]
      /\ replies \in [Call -> Seq(Reply)]
  BY FS_Subset DEF TypeOK, SendRequest, Call
<1>2. \A d \in Call : /\ Cardinality(OpenIn(W, d)) \in Nat
                      /\ Given(replies, d) \in Nat
  <2>1. mailbox \in Seq(Msg)
    BY DEF TypeOK
  <2> QED
    BY <2>1, <1>1, OwedTypes
<1>3. /\ \A q \in pending : q.cseq < nextCSeq /\ q.cseq \in Nat
      /\ \A a \in asked : a.cseq < nextCSeq /\ a.cseq \in Nat
      /\ \A i \in DOMAIN inbox : inbox[i] \in Answer =>
           inbox[i].cseq < nextCSeq /\ inbox[i].cseq \in Nat
  BY DEF TypeOK, Matched, Answer
<1>4. p.cseq = nextCSeq /\ p.call = c /\ p \in [cseq : Nat, call : Request]
  BY <1>1
<1>5. p \notin pending
  BY <1>1, <1>3, <1>4
<1> HIDE DEF p
<1>6. CASE replies' = Replied(c, x) /\ pending' = W /\ asked' = asked
  <2>1. x \in Reply /\ (x.result = "response" => x.to \in {c, "nobody"})
    BY DEF Reply
  <2>2. replies' = WithReply(replies, c, x)
    BY <1>6 DEF Replied, WithReply
  <2> HIDE DEF x
  <2>3. /\ WithReply(replies, c, x) \in [Call -> Seq(Reply)]
        /\ Matches(WithReply(replies, c, x))
        /\ \A d \in Call : Given(WithReply(replies, c, x), d)
                             = Given(replies, d) + (IF d = c THEN 1 ELSE 0)
    BY <2>1, <1>1, ReplyAppended
  <2>4. \A d \in Call : Given(replies', d)
                          = Given(replies, d) + (IF d = c THEN 1 ELSE 0)
    BY <2>2, <2>3
  <2>5. Matched'
    BY <1>1, <1>3, <1>6 DEF Matched, From
  <2>6. \A d \in Call :
          /\ Cardinality(OpenIn(pending', d)) \in Nat
          /\ Given(replies', d) \in Nat
          /\ Cardinality(OpenIn(pending', d)) + Given(replies', d)
               = Cardinality(OpenIn(W, d)) + Given(replies, d)
                 + (IF d = c THEN 1 ELSE 0)
    BY <1>2, <1>6, <2>4
  <2> QED
    BY <2>2, <2>3, <2>5, <2>6, <1>1, <1>6
<1>7. CASE /\ pending' = W \cup {p}
           /\ asked' = IF closed THEN asked ELSE asked \cup {p}
           /\ replies' = replies
  <2>1. p \notin W
    BY <1>5
  <2>2. \A d : Cardinality(OpenIn(W \cup {p}, d))
                 = Cardinality(OpenIn(W, d)) + (IF p.call = d THEN 1 ELSE 0)
    BY <2>1, <1>1, OpenAdded
  <2>3. \A d \in Call : Cardinality(OpenIn(pending', d))
               = Cardinality(OpenIn(W, d)) + (IF d = c THEN 1 ELSE 0)
    BY <2>2, <1>4, <1>7
  <2>4. \A d \in Call :
          /\ Cardinality(OpenIn(pending', d)) \in Nat
          /\ Given(replies', d) \in Nat
          /\ Cardinality(OpenIn(pending', d)) + Given(replies', d)
               = Cardinality(OpenIn(W, d)) + Given(replies, d)
                 + (IF d = c THEN 1 ELSE 0)
    BY <2>3, <1>2, <1>7
  <2>5. IsFiniteSet(pending')
    BY <1>1, <1>7, FS_AddElement
  <2>6. /\ pending' \subseteq [cseq : Nat, call : Request]
        /\ asked' \subseteq [cseq : Nat, call : Request]
        /\ asked' \subseteq asked \cup {p}
    BY <1>1, <1>4, <1>7
  <2>7. Matched'
    <3>1. \A q \in pending' : q.cseq < nextCSeq'
      BY <1>1, <1>3, <1>4, <1>7
    <3>2. \A a \in asked' : a.cseq < nextCSeq'
      BY <1>1, <1>3, <1>4, <2>6
    <3>3. \A i \in DOMAIN inbox' :
            inbox'[i] \in Answer => inbox'[i].cseq < nextCSeq'
      BY <1>1, <1>3 DEF From
    <3>4. ASSUME NEW q \in pending', NEW a \in asked', a.cseq = q.cseq
          PROVE  a.call = q.call
      <4>1. CASE q \in W /\ a \in asked
        BY <4>1, <3>4 DEF Matched
      <4>2. CASE q = p /\ a = p
        BY <4>2
      <4>3. CASE q \in W /\ a = p
        BY <4>3, <3>4, <1>1, <1>3, <1>4
      <4>4. CASE q = p /\ a \in asked
        BY <4>4, <3>4, <1>1, <1>3, <1>4
      <4> QED
        BY <4>1, <4>2, <4>3, <4>4, <1>7, <2>6
    <3>5. ASSUME NEW q \in pending', NEW i \in DOMAIN inbox',
                 inbox'[i] \in Answer, inbox'[i].cseq = q.cseq
          PROVE  inbox'[i].to = q.call
      <4>1. PICK j \in DOMAIN inbox : inbox'[i] = inbox[j]
        BY DEF From
      <4>2. inbox[j] \in Answer /\ inbox[j].cseq < nextCSeq
            /\ inbox[j].cseq = q.cseq
        BY <4>1, <3>5, <1>3
      <4>3. q # p
        BY <4>2, <1>1, <1>4
      <4> QED
        BY <4>1, <4>2, <4>3, <1>7 DEF Matched
    <3> QED
      BY <3>1, <3>2, <3>3, <3>4, <3>5 DEF Matched
  <2>8. /\ nextCSeq' \in Nat
        /\ replies' \in [Call -> Seq(Reply)]
        /\ Matches(replies')
    BY <1>1, <1>7
  <2> QED
    BY <2>4, <2>5, <2>6, <2>7, <2>8
<1> QED
  BY <1>6, <1>7 DEF SendRequest, p, x

LEMMA SendKeepsIInv ==
  ASSUME IInv, ~crashed, mailbox # <<>>, OnSendRequest
  PROVE  IInv'
<1> DEFINE c == Current.call
           x == [result |-> "error"]
<1>1. TypeOK /\ Idle /\ Matched /\ Matches(replies)
  BY DEF IInv, ResponseMatches, Matches
<1>2. /\ Current \in Msg /\ c \in Call /\ c \in Request
      /\ Handled \in Seq(Msg)
      /\ \A d \in Call : /\ Count(Handled, CallMsgs(d)) \in Nat
                         /\ Count(mailbox, CallMsgs(d))
                              = Count(Handled, CallMsgs(d))
                                + (IF d = c THEN 1 ELSE 0)
      /\ Count(Handled, {ReceiveEvent}) = IF receivePending THEN 1 ELSE 0
  BY CurrentCall, MsgFacts DEF OnSendRequest
<1>3. /\ mailbox' = Handled
      /\ UNCHANGED <<posted, state, connectionID, user, authenticated,
                     receivePending, inbox, closed, partial, crashed, broken>>
  BY DEF OnSendRequest, authVars
<1>4. From(inbox', inbox)
  BY <1>3 DEF From
<1>5. state' = "connected" /\ ~broken' => receivePending'
  BY <1>3 DEF IInv, PolledOnce
<1>6. \A d \in Call : /\ Cardinality(OpenIn(pending, d)) \in Nat
                      /\ Given(replies, d) \in Nat
  BY OwedTypes, <1>1 DEF TypeOK
<1>7. CASE /\ state # "connected"
           /\ replies' = Replied(c, x)
           /\ UNCHANGED <<nextCSeq, pending, asked>>
  <2>1. x \in Reply /\ (x.result = "response" => x.to \in {c, "nobody"})
    BY DEF Reply
  <2>2. replies' = WithReply(replies, c, x)
    BY <1>7 DEF Replied, WithReply
  <2>3. replies \in [Call -> Seq(Reply)]
    BY <1>1 DEF TypeOK
  <2> HIDE DEF x, c
  <2>4. /\ WithReply(replies, c, x) \in [Call -> Seq(Reply)]
        /\ Matches(WithReply(replies, c, x))
        /\ \A d \in Call : Given(WithReply(replies, c, x), d)
                             = Given(replies, d) + (IF d = c THEN 1 ELSE 0)
    BY <2>1, <2>3, <1>1, <1>2, ReplyAppended
  <2>5. /\ replies' \in [Call -> Seq(Reply)]
        /\ Matches(replies')
        /\ \A d \in Call : Given(replies', d)
                             = Given(replies, d) + (IF d = c THEN 1 ELSE 0)
    BY <2>2, <2>4
  <2>6. TypeOK'
    BY <1>1, <1>2, <1>3, <1>7, <2>5 DEF TypeOK
  <2>7. Idle' /\ Matched'
    BY <1>1, <1>3, <1>7 DEF Idle, Matched
  <2>8. \A d \in Call :
          /\ Cardinality(OpenIn(pending', d)) \in Nat
          /\ Given(replies', d) \in Nat
          /\ Cardinality(OpenIn(pending', d)) + Given(replies', d)
               = Cardinality(OpenIn(pending, d)) + Given(replies, d)
                 + (IF d = c THEN 1 ELSE 0)
    BY <1>6, <1>7, <2>5
  <2>9. \A d \in Call : Owed(mailbox', pending', replies', d)
                          = Owed(mailbox, pending, replies, d)
    BY <2>8, <1>1, <1>2, <1>3, Passed
  <2> QED
    BY <2>5, <2>6, <2>7, <2>9, <1>2, <1>3, <1>5, StepKeepsIInv
<1>8. CASE state = "connected" /\ SendRequest(c, pending)
  <2> HIDE DEF c, x
  <2>1. /\ nextCSeq' \in Nat
        /\ pending' \subseteq [cseq : Nat, call : Request]
        /\ IsFiniteSet(pending')
        /\ asked' \subseteq [cseq : Nat, call : Request]
        /\ replies' \in [Call -> Seq(Reply)]
        /\ Matches(replies')
        /\ Matched'
        /\ \A d \in Call :
             /\ Cardinality(OpenIn(pending', d)) \in Nat
             /\ Given(replies', d) \in Nat
             /\ Cardinality(OpenIn(pending', d)) + Given(replies', d)
                  = Cardinality(OpenIn(pending, d)) + Given(replies, d)
                    + (IF d = c THEN 1 ELSE 0)
    BY <1>1, <1>2, <1>4, <1>8, SendSettles
  <2>2. TypeOK'
    BY <1>1, <1>2, <1>3, <2>1 DEF TypeOK
  <2>3. Idle'
    BY <1>3, <1>8 DEF Idle
  <2>4. \A d \in Call : Owed(mailbox', pending', replies', d)
                          = Owed(mailbox, pending, replies, d)
    BY <2>1, <1>1, <1>2, <1>3, Passed
  <2> QED
    BY <2>1, <2>2, <2>3, <2>4, <1>2, <1>3, <1>5, StepKeepsIInv
<1> QED
  BY <1>7, <1>8 DEF OnSendRequest, c, x

-----------------------------------------------------------------------------
(* What the polling message finds.                                         *)

\* Reading has failed: every open request is replied to.
LEMMA ReadFailsKeepsIInv ==
  ASSUME IInv, ~crashed, mailbox # <<>>, Current.what = "receive",
         UNCHANGED receiveFrame, state = "connected", ReadFails,
         inbox' \in Seq(Answer \cup Talk), From(inbox', inbox),
         partial' \in BOOLEAN
  PROVE  IInv'
<1>1. TypeOK /\ Idle /\ Matched /\ Matches(replies)
  BY DEF IInv, ResponseMatches, Matches
<1>2. /\ Handled \in Seq(Msg)
      /\ \A d : Count(Handled, CallMsgs(d)) = Count(mailbox, CallMsgs(d))
      /\ Count(Handled, {ReceiveEvent}) = 0
  BY CurrentReceive
<1>3. /\ UNCHANGED <<posted, state, connectionID, user, closed>>
      /\ UNCHANGED <<authenticated, nextCSeq, asked, crashed>>
      /\ replies' = Flushed(replies) /\ pending' = {} /\ mailbox' = Handled
      /\ receivePending' = FALSE /\ broken' = TRUE
  BY DEF receiveFrame, ReadFails
<1>4. \A d \in Call : Cardinality(OpenIn(pending, d)) \in 0 .. 1
  BY OpenOnce
<1>5. /\ Flushed(replies) \in [Call -> Seq(Reply)]
      /\ Matches(Flushed(replies))
      /\ \A d \in Call : Given(Flushed(replies), d)
           = Given(replies, d) + Cardinality(OpenIn(pending, d))
  BY <1>1, <1>4, RepliesFlushed DEF TypeOK
<1>6. \A d : Cardinality(OpenIn(pending', d)) = 0 /\ IsFiniteSet(pending')
  <2>1. \A d : OpenIn(pending', d) = {}
    BY <1>3 DEF OpenIn
  <2> QED
    BY <2>1, <1>3, FS_EmptySet
<1>7. TypeOK'
  BY <1>1, <1>2, <1>3, <1>5, <1>6 DEF TypeOK
<1>8. Idle' /\ Matched'
  <2>1. Idle'
    BY <1>3 DEF Idle
  <2>2. pending' \subseteq pending /\ asked' \subseteq asked
    BY <1>3
  <2> QED
    BY <2>1, <2>2, <1>1, <1>3, FewerMatched
<1>9. \A d \in Call : Owed(mailbox', pending', replies', d)
                         = Owed(mailbox, pending, replies, d)
  <2>1. \A d \in Call : /\ Count(mailbox, CallMsgs(d)) \in Nat
                        /\ Given(replies, d) \in Nat
    BY OpenOnce
  <2>2. \A d \in Call : Count(mailbox', CallMsgs(d)) = Count(mailbox, CallMsgs(d))
    BY <1>2, <1>3
  <2>3. \A d \in Call : Given(replies', d)
           = Given(replies, d) + Cardinality(OpenIn(pending, d))
    BY <1>3, <1>5
  <2> QED
    BY <2>1, <2>2, <2>3, <1>4, <1>6 DEF Owed
<1> QED
  BY <1>2, <1>3, <1>5, <1>7, <1>8, <1>9, StepKeepsIInv

\* The process has ended: nobody is owed anything any more.
LEMMA CrashKeepsIInv ==
  ASSUME IInv, UNCHANGED receiveFrame, Crash, partial' \in BOOLEAN
  PROVE  IInv'
<1>1. /\ UNCHANGED <<posted, state, connectionID, user, closed, authenticated,
                     nextCSeq, asked, replies, pending, mailbox, receivePending,
                     inbox, broken>>
      /\ crashed' = TRUE
  BY DEF receiveFrame, Crash
<1>2. TypeOK' /\ Idle' /\ Matched' /\ ResponseMatches'
  <2>1. TypeOK'
    BY <1>1 DEF IInv, TypeOK
  <2>2. Idle' /\ Matched'
    BY <1>1 DEF IInv, Idle, Matched
  <2>3. ResponseMatches'
    BY <1>1 DEF IInv, ResponseMatches
  <2> QED
    BY <2>1, <2>2, <2>3
<1>3. RepliedOnce' /\ PolledOnce'
  BY <1>1 DEF RepliedOnce, PolledOnce
<1> QED
  BY <1>2, <1>3 DEF IInv

\* The socket will be polled again: what is owed must add up without messages.
LEMMA PollingKeepsIInv ==
  ASSUME IInv, ~crashed, mailbox # <<>>, Current.what = "receive",
         UNCHANGED receiveFrame, state = "connected",
         mailbox' = Append(Handled, ReceiveEvent), receivePending' = TRUE,
         UNCHANGED <<crashed, broken>>,
         authenticated' \in BOOLEAN, nextCSeq' \in Nat,
         pending' \subseteq [cseq : Nat, call : Request], IsFiniteSet(pending'),
         asked' \subseteq [cseq : Nat, call : Request],
         inbox' \in Seq(Answer \cup Talk), partial' \in BOOLEAN,
         replies' \in [Call -> Seq(Reply)], Matches(replies'), Matched',
         \A d \in Call : Cardinality(OpenIn(pending', d)) + Given(replies', d)
                           = Cardinality(OpenIn(pending, d)) + Given(replies, d)
  PROVE  IInv'
<1>1. TypeOK
  BY DEF IInv
<1>2. /\ Append(Handled, ReceiveEvent) \in Seq(Msg)
      /\ \A d : Count(Append(Handled, ReceiveEvent), CallMsgs(d))
                  = Count(mailbox, CallMsgs(d))
      /\ Count(Append(Handled, ReceiveEvent), {ReceiveEvent}) = 1
  BY CurrentReceive
<1>3. /\ mailbox' \in Seq(Msg)
      /\ \A d : Count(mailbox', CallMsgs(d)) = Count(mailbox, CallMsgs(d))
      /\ Count(mailbox', {ReceiveEvent}) = 1
  BY <1>2
<1>4. UNCHANGED <<posted, state, connectionID, user, closed>>
  BY DEF receiveFrame
<1>5. TypeOK'
  BY <1>1, <1>3, <1>4 DEF TypeOK
<1>6. Idle'
  BY <1>4 DEF Idle
<1>7. \A d \in Call : Owed(mailbox', pending', replies', d)
                         = Owed(mailbox, pending, replies, d)
  <2> SUFFICES ASSUME NEW d \in Call
               PROVE  Owed(mailbox', pending', replies', d)
                        = Owed(mailbox, pending, replies, d)
    OBVIOUS
  <2>1. /\ Cardinality(OpenIn(pending', d)) \in Nat
        /\ Given(replies', d) \in Nat
    BY <1>3, OwedTypes
  <2>2. /\ Count(mailbox, CallMsgs(d)) \in Nat
        /\ Cardinality(OpenIn(pending, d)) \in Nat
        /\ Given(replies, d) \in Nat
    BY <1>1, OwedTypes DEF TypeOK
  <2>3. Count(mailbox', CallMsgs(d)) = Count(mailbox, CallMsgs(d))
    BY <1>3
  <2>4. Cardinality(OpenIn(pending', d)) + Given(replies', d)
          = Cardinality(OpenIn(pending, d)) + Given(replies, d)
    OBVIOUS
  <2>5. Owed(mailbox', pending', replies', d)
          = Count(mailbox', CallMsgs(d))
            + (Cardinality(OpenIn(pending', d)) + Given(replies', d))
    BY <2>1, <2>2, <2>3 DEF Owed
  <2>6. Owed(mailbox, pending, replies, d)
          = Count(mailbox, CallMsgs(d))
            + (Cardinality(OpenIn(pending, d)) + Given(replies, d))
    BY <2>2 DEF Owed
  <2> QED
    BY <2>3, <2>4, <2>5, <2>6
<1> QED
  BY <1>3, <1>4, <1>5, <1>6, <1>7, StepKeepsIInv

\* A response takes its entry off the table and replies to the entry's call.
LEMMA NotifyKeepsIInv ==
  ASSUME IInv, ~crashed, mailbox # <<>>, Current.what = "receive",
         UNCHANGED receiveFrame, state = "connected", inbox # <<>>,
         NEW p \in pending, NEW to \in Request \cup {"nobody"},
         to \in {p.call, "nobody"}, NotifyListener(p, to),
         partial' \in BOOLEAN
  PROVE  IInv'
<1> DEFINE c == p.call
           x == [result |-> "response", to |-> to]
<1>1. TypeOK /\ Matched /\ Matches(replies)
  BY DEF IInv, ResponseMatches, Matches
<1>2. /\ inbox \in Seq(Answer \cup Talk)
      /\ pending \subseteq [cseq : Nat, call : Request] /\ IsFiniteSet(pending)
      /\ asked \subseteq [cseq : Nat, call : Request]
      /\ replies \in [Call -> Seq(Reply)]
      /\ authenticated \in BOOLEAN /\ nextCSeq \in Nat
      /\ c \in Request /\ c \in Call
  BY <1>1 DEF TypeOK, Call
<1>3. /\ replies' = Replied(c, x) /\ pending' = pending \ {p}
      /\ inbox' = Tail(inbox)
      /\ mailbox' = Append(Handled, ReceiveEvent) /\ receivePending' = TRUE
      /\ UNCHANGED <<crashed, broken, authenticated, nextCSeq, asked>>
  BY DEF NotifyListener, ReadMore, Without
<1>4. x \in Reply /\ (x.result = "response" => x.to \in {c, "nobody"})
  BY DEF Reply
<1>5. replies' = WithReply(replies, c, x)
  BY <1>3 DEF Replied, WithReply
<1> HIDE DEF c, x
<1>6. /\ WithReply(replies, c, x) \in [Call -> Seq(Reply)]
      /\ Matches(WithReply(replies, c, x))
      /\ \A d \in Call : Given(WithReply(replies, c, x), d)
                           = Given(replies, d) + (IF d = c THEN 1 ELSE 0)
  BY <1>1, <1>2, <1>4, ReplyAppended
<1>7. /\ replies' \in [Call -> Seq(Reply)]
      /\ Matches(replies')
      /\ \A d \in Call : Given(replies', d)
                           = Given(replies, d) + (IF d = c THEN 1 ELSE 0)
  BY <1>5, <1>6
<1>8. inbox' \in Seq(Answer \cup Talk) /\ From(inbox', inbox)
  BY <1>2, <1>3, TailFrom
<1>9. /\ pending' \subseteq pending
      /\ pending' \subseteq [cseq : Nat, call : Request]
      /\ IsFiniteSet(pending')
  BY <1>2, <1>3, FS_RemoveElement
<1>10. Matched'
  BY <1>1, <1>3, <1>8, <1>9, FewerMatched
<1>11. \A d \in Call : Cardinality(OpenIn(pending', d)) + Given(replies', d)
                        = Cardinality(OpenIn(pending, d)) + Given(replies, d)
  <2> SUFFICES ASSUME NEW d \in Call
               PROVE  Cardinality(OpenIn(pending', d)) + Given(replies', d)
                        = Cardinality(OpenIn(pending, d)) + Given(replies, d)
    OBVIOUS
  <2>1. Cardinality(OpenIn(pending, d))
          = Cardinality(OpenIn(pending \ {p}, d)) + (IF p.call = d THEN 1 ELSE 0)
    BY <1>2, OpenRemoved
  <2>2. Cardinality(OpenIn(pending', d)) \in Nat /\ Given(replies, d) \in Nat
    BY <1>1, <1>2, <1>9, OwedTypes DEF TypeOK
  <2>3. CASE d = c
    <3>1. /\ Cardinality(OpenIn(pending, d)) = Cardinality(OpenIn(pending', d)) + 1
          /\ Given(replies', d) = Given(replies, d) + 1
      BY <2>1, <2>3, <1>3, <1>7 DEF c
    <3> QED
      BY <3>1, <2>2
  <2>4. CASE d # c
    <3>1. /\ Cardinality(OpenIn(pending, d)) = Cardinality(OpenIn(pending', d)) + 0
          /\ Given(replies', d) = Given(replies, d) + 0
      BY <2>1, <2>4, <1>3, <1>7 DEF c
    <3> QED
      BY <3>1, <2>2
  <2> QED
    BY <2>3, <2>4
<1> QED
  BY <1>2, <1>3, <1>7, <1>8, <1>9, <1>10, <1>11, PollingKeepsIInv

\* The request of a 401 is issued again: its call keeps its place.
LEMMA RepeatKeepsIInv ==
  ASSUME IInv, ~crashed, mailbox # <<>>, Current.what = "receive",
         UNCHANGED receiveFrame, state = "connected", inbox # <<>>,
         NEW p \in pending, authenticated' = TRUE,
         SendRequest(p.call, Without(p)), ReadMore, partial' \in BOOLEAN
  PROVE  IInv'
<1> DEFINE c == p.call
<1>1. TypeOK /\ Matched /\ Matches(replies)
  BY DEF IInv, ResponseMatches, Matches
<1>2. /\ inbox \in Seq(Answer \cup Talk)
      /\ pending \subseteq [cseq : Nat, call : Request] /\ IsFiniteSet(pending)
      /\ replies \in [Call -> Seq(Reply)]
      /\ c \in Request
  BY <1>1 DEF TypeOK
<1>3. /\ inbox' = Tail(inbox)
      /\ mailbox' = Append(Handled, ReceiveEvent) /\ receivePending' = TRUE
      /\ UNCHANGED <<crashed, broken>>
  BY DEF ReadMore
<1>4. inbox' \in Seq(Answer \cup Talk) /\ From(inbox', inbox)
  BY <1>2, <1>3, TailFrom
<1>5. SendRequest(c, pending \ {p}) /\ pending \ {p} \subseteq pending
  BY DEF Without
<1>6. \A d : Cardinality(OpenIn(pending, d))
               = Cardinality(OpenIn(pending \ {p}, d))
                 + (IF c = d THEN 1 ELSE 0)
  BY <1>2, OpenRemoved
<1>7. \A d \in Call : /\ Cardinality(OpenIn(pending \ {p}, d)) \in Nat
                       /\ Given(replies, d) \in Nat
  <2>1. IsFiniteSet(pending \ {p})
    BY <1>2, FS_RemoveElement
  <2>2. mailbox \in Seq(Msg)
    BY <1>1 DEF TypeOK
  <2> QED
    BY <2>1, <2>2, <1>2, OwedTypes
<1> HIDE DEF c
<1>8. /\ nextCSeq' \in Nat
      /\ pending' \subseteq [cseq : Nat, call : Request]
      /\ IsFiniteSet(pending')
      /\ asked' \subseteq [cseq : Nat, call : Request]
      /\ replies' \in [Call -> Seq(Reply)]
      /\ Matches(replies')
      /\ Matched'
      /\ \A d \in Call :
           /\ Cardinality(OpenIn(pending', d)) \in Nat
           /\ Given(replies', d) \in Nat
           /\ Cardinality(OpenIn(pending', d)) + Given(replies', d)
                = Cardinality(OpenIn(pending \ {p}, d)) + Given(replies, d)
                  + (IF d = c THEN 1 ELSE 0)
  BY <1>1, <1>2, <1>4, <1>5, SendSettles
<1>9. \A d \in Call : Cardinality(OpenIn(pending', d)) + Given(replies', d)
                       = Cardinality(OpenIn(pending, d)) + Given(replies, d)
  <2> SUFFICES ASSUME NEW d \in Call
               PROVE  Cardinality(OpenIn(pending', d)) + Given(replies', d)
                        = Cardinality(OpenIn(pending, d)) + Given(replies, d)
    OBVIOUS
  <2> DEFINE W == Cardinality(OpenIn(pending \ {p}, d))
             G == Given(replies, d)
  <2>3. W \in Nat /\ G \in Nat
    BY <1>7
  <2>1. CASE d = c
    <3>1. /\ Cardinality(OpenIn(pending, d)) = W + 1
          /\ Cardinality(OpenIn(pending', d)) + Given(replies', d) = W + G + 1
      BY <2>1, <1>6, <1>8
    <3> HIDE DEF W, G
    <3>2. Cardinality(OpenIn(pending, d)) + G = W + G + 1
      BY <3>1, <2>3
    <3> QED
      BY <3>1, <3>2 DEF G
  <2>2. CASE d # c
    <3>1. /\ Cardinality(OpenIn(pending, d)) = W + 0
          /\ Cardinality(OpenIn(pending', d)) + Given(replies', d) = W + G + 0
      BY <2>2, <1>6, <1>8
    <3> HIDE DEF W, G
    <3>2. Cardinality(OpenIn(pending, d)) + G = W + G + 0
      BY <3>1, <2>3
    <3> QED
      BY <3>1, <3>2 DEF G
  <2> QED
    BY <2>1, <2>2
<1>10. authenticated' \in BOOLEAN
  OBVIOUS
<1> QED
  BY <1>3, <1>4, <1>8, <1>9, <1>10, PollingKeepsIInv

\* The next thing on the socket, and the entry its CSeq finds.
LEMMA NextAnswer ==
  ASSUME TypeOK, Matched, inbox # <<>>
  PROVE  /\ Head(inbox) \in Answer \cup Talk
         /\ Tail(inbox) \in Seq(Answer \cup Talk)
         /\ From(Tail(inbox), inbox)
         /\ Head(inbox).kind \in {"ok", "unauthorized"} =>
              /\ Head(inbox).to \in Request
              /\ \A p \in FindPending(Head(inbox).cseq) :
                   p \in pending /\ p.call = Head(inbox).to
<1>1. inbox \in Seq(Answer \cup Talk)
  BY DEF TypeOK
<1>2. /\ Tail(inbox) \in Seq(Answer \cup Talk) /\ From(Tail(inbox), inbox)
      /\ Head(inbox) = inbox[1] /\ 1 \in DOMAIN inbox
  BY <1>1, TailFrom
<1>3. Head(inbox) \in Answer \cup Talk
  BY <1>1, <1>2, ElementOfSeq, LenProperties
<1>4. ASSUME Head(inbox).kind \in {"ok", "unauthorized"}
      PROVE  /\ Head(inbox).to \in Request
             /\ \A p \in FindPending(Head(inbox).cseq) :
                  p \in pending /\ p.call = Head(inbox).to
  <2>1. Head(inbox) \in Answer
    <3>1. \A m \in Talk : m.kind \notin {"ok", "unauthorized"}
      BY DEF Talk
    <3> QED
      BY <3>1, <1>3, <1>4
  <2>2. Head(inbox).to \in Request
    BY <2>1 DEF Answer
  <2>3. \A p \in pending :
          inbox[1] \in Answer /\ inbox[1].cseq = p.cseq => inbox[1].to = p.call
    BY <1>2 DEF Matched
  <2> QED
    BY <2>1, <2>2, <2>3, <1>2 DEF FindPending
<1> QED
  BY <1>2, <1>3, <1>4

\* A 401 about the entry p, or about none.
LEMMA AskingKeepsIInv ==
  ASSUME IInv, ~crashed, mailbox # <<>>, Current.what = "receive",
         UNCHANGED receiveFrame, state = "connected", inbox # <<>>,
         NEW m, NEW found, found \subseteq pending, AsksAgain(m, found),
         partial' \in BOOLEAN
  PROVE  IInv'
<1>1. ASSUME NEW p \in found, authenticated' = TRUE,
             SendRequest(p.call, Without(p)), ReadMore
      PROVE  IInv'
  BY <1>1, RepeatKeepsIInv
<1>2. CASE Crash
  BY <1>2, CrashKeepsIInv
<1> QED
  BY <1>1, <1>2 DEF AsksAgain

LEMMA AnswerKeepsIInv ==
  ASSUME IInv, ~crashed, mailbox # <<>>, Current.what = "receive",
         UNCHANGED receiveFrame, state = "connected", inbox # <<>>,
         ReceiveAnswer(Head(inbox)), partial' \in BOOLEAN
  PROVE  IInv'
<1> DEFINE m == Head(inbox)
<1>1. /\ Tail(inbox) \in Seq(Answer \cup Talk)
      /\ From(Tail(inbox), inbox)
      /\ m.to \in Request
      /\ \A p \in FindPending(m.cseq) : p \in pending /\ p.call = m.to
  BY NextAnswer DEF ReceiveAnswer, IInv
<1> HIDE DEF m
<1>2. ASSUME NEW p \in FindPending(m.cseq), NotifyListener(p, m.to)
      PROVE  IInv'
  BY <1>1, <1>2, NotifyKeepsIInv
<1>3. CASE inbox' = Tail(inbox) /\ ReadFails
  BY <1>1, <1>3, ReadFailsKeepsIInv
<1>4. CASE AsksAgain(m, FindPending(m.cseq))
  <2>1. FindPending(m.cseq) \subseteq pending
    BY DEF FindPending
  <2> QED
    BY <1>4, <2>1, AskingKeepsIInv
<1> QED
  BY <1>2, <1>3, <1>4 DEF ReceiveAnswer, m

LEMMA UnaskedKeepsIInv ==
  ASSUME IInv, ~crashed, mailbox # <<>>, Current.what = "receive",
         UNCHANGED receiveFrame, state = "connected", inbox # <<>>,
         NEW m, ReceiveUnasked(m), partial' \in BOOLEAN
  PROVE  IInv'
<1>1. FirstPending \subseteq pending
  BY DEF FirstPending
<1>2. ASSUME NEW p \in FirstPending, NotifyListener(p, "nobody")
      PROVE  IInv'
  BY <1>1, <1>2, NotifyKeepsIInv
<1>3. CASE Crash
  BY <1>3, CrashKeepsIInv
<1>4. CASE AsksAgain(m, FirstPending)
  BY <1>1, <1>4, AskingKeepsIInv
<1> QED
  BY <1>2, <1>3, <1>4 DEF ReceiveUnasked

LEMMA OtherKeepsIInv ==
  ASSUME IInv, ~crashed, mailbox # <<>>, Current.what = "receive",
         UNCHANGED receiveFrame, state = "connected", inbox # <<>>,
         ReceiveOther(Head(inbox)), partial' \in BOOLEAN
  PROVE  IInv'
<1>1. TypeOK /\ Matched /\ Matches(replies)
  BY DEF IInv, ResponseMatches, Matches
<1>2. Tail(inbox) \in Seq(Answer \cup Talk) /\ From(Tail(inbox), inbox)
  BY <1>1, NextAnswer
<1>3. CASE /\ ReadMore
           /\ UNCHANGED <<authenticated, nextCSeq, asked, replies, pending>>
  <2>1. /\ inbox' = Tail(inbox)
        /\ mailbox' = Append(Handled, ReceiveEvent) /\ receivePending' = TRUE
        /\ UNCHANGED <<crashed, broken>>
    BY <1>3 DEF ReadMore
  <2>2. /\ authenticated' \in BOOLEAN /\ nextCSeq' \in Nat
        /\ pending' \subseteq [cseq : Nat, call : Request]
        /\ IsFiniteSet(pending')
        /\ asked' \subseteq [cseq : Nat, call : Request]
        /\ replies' \in [Call -> Seq(Reply)]
    BY <1>1, <1>3 DEF TypeOK
  <2>3. Matched' /\ Matches(replies')
    BY <1>1, <1>2, <1>3, <2>1, FewerMatched
  <2>4. \A d \in Call : Cardinality(OpenIn(pending', d)) + Given(replies', d)
                         = Cardinality(OpenIn(pending, d)) + Given(replies, d)
    BY <1>3
  <2> QED
    BY <1>2, <2>1, <2>2, <2>3, <2>4, PollingKeepsIInv
<1>4. CASE inbox' = Tail(inbox) /\ ReadFails
  BY <1>2, <1>4, ReadFailsKeepsIInv
<1>5. CASE Crash
  BY <1>5, CrashKeepsIInv
<1>6. CASE ReceiveUnasked(Head(inbox))
  BY <1>6, UnaskedKeepsIInv
<1> QED
  BY <1>3, <1>4, <1>5, <1>6 DEF ReceiveOther

LEMMA ReceiveKeepsIInv ==
  ASSUME IInv, ~crashed, mailbox # <<>>, OnReceiveResponse
  PROVE  IInv'
<1>1. TypeOK /\ Idle /\ Matched /\ Matches(replies)
  BY DEF IInv, ResponseMatches, Matches
<1>2. /\ Current.what = "receive" /\ UNCHANGED receiveFrame
      /\ partial' \in BOOLEAN
  BY <1>1 DEF OnReceiveResponse, TypeOK
<1>3. CASE /\ state # "connected"
           /\ mailbox' = Handled
           /\ receivePending' = FALSE
           /\ UNCHANGED <<authenticated, nextCSeq, pending, inbox, asked,
                          replies, crashed, broken>>
  <2>1. /\ Handled \in Seq(Msg)
        /\ \A d : Count(Handled, CallMsgs(d)) = Count(mailbox, CallMsgs(d))
        /\ Count(Handled, {ReceiveEvent}) = 0
    BY <1>2, CurrentReceive
  <2>2. UNCHANGED <<posted, state, connectionID, user, closed>>
    BY <1>2 DEF receiveFrame
  <2>3. TypeOK'
    BY <1>1, <1>2, <1>3, <2>1, <2>2 DEF TypeOK
  <2>4. Idle' /\ Matched' /\ Matches(replies')
    BY <1>1, <1>3, <2>2 DEF Idle, Matched
  <2>5. \A d \in Call : Owed(mailbox', pending', replies', d)
                          = Owed(mailbox, pending, replies, d)
    BY <1>3, <2>1 DEF Owed
  <2> QED
    BY <1>3, <2>1, <2>2, <2>3, <2>4, <2>5, StepKeepsIInv
<1>4. CASE /\ state = "connected"
           /\ mailbox' = Append(Handled, ReceiveEvent)
           /\ receivePending' = TRUE
           /\ UNCHANGED <<authenticated, nextCSeq, pending, inbox, asked,
                          replies, crashed, broken>>
  <2>1. /\ authenticated' \in BOOLEAN /\ nextCSeq' \in Nat
        /\ pending' \subseteq [cseq : Nat, call : Request] /\ IsFiniteSet(pending')
        /\ asked' \subseteq [cseq : Nat, call : Request]
        /\ inbox' \in Seq(Answer \cup Talk)
        /\ replies' \in [Call -> Seq(Reply)]
    BY <1>1, <1>4 DEF TypeOK
  <2>2. Matched' /\ Matches(replies')
    BY <1>1, <1>4 DEF Matched
  <2>3. \A d \in Call : Cardinality(OpenIn(pending', d)) + Given(replies', d)
                         = Cardinality(OpenIn(pending, d)) + Given(replies, d)
    BY <1>4
  <2> QED
    BY <1>2, <1>4, <2>1, <2>2, <2>3, PollingKeepsIInv
<1>5. CASE state = "connected" /\ ReadFails /\ UNCHANGED inbox
  <2>1. inbox' \in Seq(Answer \cup Talk) /\ From(inbox', inbox)
    BY <1>1, <1>5 DEF TypeOK, From
  <2> QED
    BY <1>2, <1>5, <2>1, ReadFailsKeepsIInv
<1>6. CASE state = "connected" /\ inbox # <<>> /\ ReceiveAnswer(Head(inbox))
  BY <1>2, <1>6, AnswerKeepsIInv
<1>7. CASE state = "connected" /\ inbox # <<>> /\ ReceiveOther(Head(inbox))
  BY <1>2, <1>7, OtherKeepsIInv
<1>8. CASE /\ state = "connected" /\ inbox # <<>>
           /\ ReceiveCut(Head(inbox))
  <2>1. Tail(inbox) \in Seq(Answer \cup Talk) /\ From(Tail(inbox), inbox)
    BY <1>1, <1>8, NextAnswer
  <2>2. CASE inbox' = Tail(inbox) /\ ReadFails
    BY <1>2, <1>8, <2>1, <2>2, ReadFailsKeepsIInv
  <2>3. CASE Crash
    BY <1>2, <2>3, CrashKeepsIInv
  <2>4. CASE ReceiveUnasked(Head(inbox))
    BY <1>2, <1>8, <2>4, UnaskedKeepsIInv
  <2> QED
    BY <1>6, <1>7, <1>8, <2>2, <2>3, <2>4 DEF ReceiveCut
<1>9. Halfway => inbox # <<>>
  BY EmptySeq DEF Halfway
<1> QED
  BY <1>3, <1>4, <1>5, <1>6, <1>7, <1>8, <1>9 DEF OnReceiveResponse

-----------------------------------------------------------------------------
(* The users and the server preserve it.                                   *)

\* A new call is one message more in the mailbox.
LEMMA UserKeepsIInv ==
  ASSUME IInv, ~crashed, User
  PROVE  IInv'
<1>1. TypeOK /\ Idle /\ Matched /\ Matches(replies)
  BY DEF IInv, ResponseMatches, Matches
<1>2. UNCHANGED <<state, connectionID, user, authenticated, nextCSeq, pending,
                  receivePending, inbox, asked, closed, partial, replies,
                  crashed, broken>>
  BY DEF User, authVars, serverVars
<1>3. PICK c \in Call, m \in Msg :
        /\ c \notin posted /\ posted' = posted \cup {c}
        /\ m # ReceiveEvent /\ m.call = c
        /\ mailbox' = Append(mailbox, m)
  <2>1. PICK c \in Call :
          Call_connect(c) \/ Call_disconnect(c) \/ Call_sendRequest(c)
    BY DEF User
  <2>2. CASE Call_connect(c)
    <3> DEFINE m == [what |-> "connect", call |-> c]
    <3>1. m \in Msg /\ m # ReceiveEvent /\ m.call = c
      BY <2>2, MsgFacts DEF Call_connect, ReceiveEvent
    <3> QED
      BY <2>2, <3>1 DEF Call_connect, Post
  <2>3. CASE Call_disconnect(c)
    <3> DEFINE m == [what |-> "disconnect", call |-> c]
    <3>1. m \in Msg /\ m # ReceiveEvent /\ m.call = c
      BY <2>3, MsgFacts DEF Call_disconnect, ReceiveEvent
    <3> QED
      BY <2>3, <3>1 DEF Call_disconnect, Post
  <2>4. CASE Call_sendRequest(c)
    <3> DEFINE m == [what |-> "send", call |-> c]
    <3>1. m \in Msg /\ m # ReceiveEvent /\ m.call = c
      BY <2>4, MsgFacts DEF Call_sendRequest, ReceiveEvent
    <3> QED
      BY <2>4, <3>1 DEF Call_sendRequest, Post
  <2> QED
    BY <2>1, <2>2, <2>3, <2>4
<1>4. /\ mailbox' \in Seq(Msg)
      /\ \A d : Count(mailbox', CallMsgs(d))
                  = Count(mailbox, CallMsgs(d)) + (IF d = c THEN 1 ELSE 0)
      /\ Count(mailbox', {ReceiveEvent}) = Count(mailbox, {ReceiveEvent})
  BY <1>1, <1>3, CallPosted DEF TypeOK
<1>5. TypeOK'
  <2>1. posted' \subseteq Call
    BY <1>1, <1>3 DEF TypeOK
  <2> QED
    BY <1>1, <1>2, <1>4, <2>1 DEF TypeOK
<1>6. Idle' /\ Matched'
  BY <1>1, <1>2 DEF Idle, Matched
<1>7. RepliedOnce'
  <2>1. ASSUME NEW d \in Call
        PROVE  Owed(mailbox', pending', replies', d)
                 = IF d \in posted' THEN 1 ELSE 0
    <3>1. Owed(mailbox, pending, replies, d) = IF d \in posted THEN 1 ELSE 0
      BY OwedNow DEF IInv
    <3>2. /\ Count(mailbox, CallMsgs(d)) \in Nat
          /\ Cardinality(OpenIn(pending, d)) \in Nat
          /\ Given(replies, d) \in Nat
      BY <1>1, OwedTypes DEF TypeOK
    <3>3. CASE d = c
      <4>1. Count(mailbox', CallMsgs(d)) = Count(mailbox, CallMsgs(d)) + 1
        BY <1>4, <3>3
      <4>2. Owed(mailbox, pending, replies, d) = 0 /\ d \in posted'
        BY <1>3, <3>1, <3>3
      <4> QED
        BY <1>2, <3>2, <4>1, <4>2 DEF Owed
    <3>4. CASE d # c
      <4>1. Count(mailbox', CallMsgs(d)) = Count(mailbox, CallMsgs(d)) + 0
        BY <1>4, <3>4
      <4>2. d \in posted' <=> d \in posted
        BY <1>3, <3>4
      <4>3. Owed(mailbox', pending', replies', d)
              = Owed(mailbox, pending, replies, d)
        BY <1>2, <3>2, <4>1 DEF Owed
      <4> QED
        BY <3>1, <4>2, <4>3
    <3> QED
      BY <3>3, <3>4
  <2> QED
    BY <1>5, <2>1, OwedNext
<1>8. ResponseMatches'
  BY <1>2 DEF IInv, ResponseMatches
<1>9. PolledOnce'
  <2>1. Count(mailbox', {ReceiveEvent}) = IF receivePending' THEN 1 ELSE 0
    BY <1>2, <1>4, PollCount
  <2>2. {i \in DOMAIN mailbox' : mailbox'[i] = ReceiveEvent}
          = Occurs(mailbox', {ReceiveEvent})
    BY DEF Occurs
  <2>3. state' = "connected" /\ ~broken' => receivePending'
    BY <1>2 DEF IInv, PolledOnce
  <2> QED
    BY <2>1, <2>2, <2>3 DEF PolledOnce, Count
<1> QED
  BY <1>5, <1>6, <1>7, <1>8, <1>9 DEF IInv

\* What the server says to a request keeps to the request's call.
LEMMA ServerKeepsIInv ==
  ASSUME IInv, ~crashed, Server
  PROVE  IInv'
<1>1. TypeOK /\ Idle /\ Matched
  BY DEF IInv
<1>2. /\ state = "connected"
      /\ UNCHANGED <<mailbox, posted, state, connectionID, user, authenticated,
                     nextCSeq, pending, receivePending, replies, crashed, broken>>
  BY DEF Server, authVars
<1>3. /\ inbox \in Seq(Answer \cup Talk)
      /\ asked \subseteq [cseq : Nat, call : Request]
      /\ closed \in BOOLEAN /\ partial \in BOOLEAN
  BY <1>1 DEF TypeOK
<1>4. Idle' /\ RepliedOnce' /\ ResponseMatches' /\ PolledOnce'
  <2>1. Idle'
    BY <1>2 DEF Idle
  <2>2. RepliedOnce'
    BY <1>2 DEF IInv, RepliedOnce, Places, Waiting
  <2>3. ResponseMatches' /\ PolledOnce'
    BY <1>2 DEF IInv, ResponseMatches, PolledOnce
  <2> QED
    BY <2>1, <2>2, <2>3
<1>5. SUFFICES /\ inbox' \in Seq(Answer \cup Talk)
               /\ asked' \subseteq [cseq : Nat, call : Request]
               /\ closed' \in BOOLEAN /\ partial' \in BOOLEAN
               /\ Matched'
  <2>1. ASSUME /\ inbox' \in Seq(Answer \cup Talk)
               /\ asked' \subseteq [cseq : Nat, call : Request]
               /\ closed' \in BOOLEAN /\ partial' \in BOOLEAN
        PROVE  TypeOK'
    BY <1>1, <1>2, <2>1 DEF TypeOK
  <2> QED
    BY <1>4, <2>1 DEF IInv
<1>6. CASE closed' = TRUE /\ UNCHANGED <<inbox, asked, partial>>
  BY <1>1, <1>2, <1>3, <1>6 DEF Matched
<1>7. ASSUME NEW m \in Answer \cup Talk, inbox' = Append(inbox, m),
             asked' \subseteq asked, closed' = closed, partial' \in BOOLEAN,
             m \in Answer => \E a \in asked : a.cseq = m.cseq /\ a.call = m.to
      PROVE  /\ inbox' \in Seq(Answer \cup Talk)
             /\ asked' \subseteq [cseq : Nat, call : Request]
             /\ closed' \in BOOLEAN /\ partial' \in BOOLEAN
             /\ Matched'
  <2>1. /\ inbox' \in Seq(Answer \cup Talk)
        /\ DOMAIN inbox' = 1 .. Len(inbox) + 1
        /\ \A i \in 1 .. Len(inbox) : inbox'[i] = inbox[i]
        /\ inbox'[Len(inbox) + 1] = m
        /\ DOMAIN inbox = 1 .. Len(inbox)
    BY <1>3, <1>7, AppendProperties, LenProperties
  <2>2. \A i \in DOMAIN inbox' :
          (i \in DOMAIN inbox /\ inbox'[i] = inbox[i]) \/ inbox'[i] = m
    BY <2>1, <1>3, LenProperties
  <2>3. m \in Answer =>
          m.cseq < nextCSeq /\ \A p \in pending : p.cseq = m.cseq => p.call = m.to
    BY <1>1, <1>7 DEF Matched
  <2>4. Matched'
    <3>1. /\ \A p \in pending' : p.cseq < nextCSeq'
          /\ \A a \in asked' : a.cseq < nextCSeq'
          /\ \A p \in pending', a \in asked' : a.cseq = p.cseq => a.call = p.call
      BY <1>1, <1>2, <1>7 DEF Matched
    <3>2. \A i \in DOMAIN inbox' :
            inbox'[i] \in Answer => inbox'[i].cseq < nextCSeq'
      BY <1>1, <1>2, <2>2, <2>3 DEF Matched
    <3>3. \A p \in pending', i \in DOMAIN inbox' :
            inbox'[i] \in Answer /\ inbox'[i].cseq = p.cseq =>
              inbox'[i].to = p.call
      BY <1>1, <1>2, <2>2, <2>3 DEF Matched
    <3> QED
      BY <3>1, <3>2, <3>3 DEF Matched
  <2> QED
    BY <2>1, <2>4, <1>3, <1>7
<1>8. CASE ServerAnswers /\ closed' = closed
  <2>1. PICK a \in asked, kind \in {"ok", "unauthorized"} :
          /\ inbox' = Append(inbox, [kind |-> kind, cseq |-> a.cseq, to |-> a.call])
          /\ asked' = asked \ {a}
          /\ partial' \in BOOLEAN
    BY <1>8 DEF ServerAnswers, ServerSends
  <2> DEFINE m == [kind |-> kind, cseq |-> a.cseq, to |-> a.call]
  <2>2. m \in Answer /\ m.cseq = a.cseq /\ m.to = a.call
    BY <1>3 DEF Answer
  <2> QED
    BY <1>7, <1>8, <2>1, <2>2
<1>9. CASE ServerTalks /\ closed' = closed
  <2>1. PICK kind \in {"request", "binary", "stray", "unsolicited"} :
          /\ inbox' = Append(inbox, [kind |-> kind])
          /\ asked' = asked
          /\ partial' \in BOOLEAN
    BY <1>9 DEF ServerTalks, ServerSends
  <2> DEFINE m == [kind |-> kind]
  <2>2. m \in Talk /\ m \notin Answer
    BY DEF Talk, Answer
  <2> QED
    BY <1>7, <1>9, <2>1, <2>2
<1>10. CASE ServerGoesOn /\ closed' = closed
  BY <1>1, <1>2, <1>3, <1>10 DEF ServerGoesOn, Matched
<1> QED
  BY <1>6, <1>8, <1>9, <1>10 DEF Server

-----------------------------------------------------------------------------

LEMMA InitIInv == Init => IInv
<1> SUFFICES ASSUME Init
             PROVE  IInv
  OBVIOUS
<1>1. TypeOK
  <2>1. <<>> \in Seq(Msg) /\ <<>> \in Seq(Answer \cup Talk) /\ <<>> \in Seq(Reply)
    BY EmptySeq
  <2>2. IsFiniteSet({})
    BY FS_EmptySet
  <2> QED
    BY <2>1, <2>2 DEF Init, TypeOK
<1>2. Idle /\ Matched
  BY DEF Init, Idle, Matched
<1>3. RepliedOnce
  <2>1. ASSUME NEW c \in Call
        PROVE  Places(c) = 0
    <3>1. Waiting(c) = {} /\ {p \in pending : p.call = c} = {}
      BY DEF Init, Waiting
    <3>2. Len(replies[c]) = 0
      BY EmptySeq DEF Init
    <3>3. /\ Cardinality(Waiting(c)) = 0
          /\ Cardinality({p \in pending : p.call = c}) = 0
      BY <3>1, FS_EmptySet
    <3> QED
      BY <3>2, <3>3 DEF Places
  <2> QED
    BY <2>1 DEF Init, RepliedOnce
<1>4. ResponseMatches
  <2>1. \A r \in Request : replies[r] = <<>>
    BY DEF Init, Call
  <2> QED
    BY <2>1 DEF ResponseMatches
<1>5. PolledOnce
  <2>1. {i \in DOMAIN mailbox : mailbox[i] = ReceiveEvent} = {}
    BY DEF Init
  <2> QED
    BY <2>1, FS_EmptySet DEF Init, PolledOnce
<1> QED
  BY <1>1, <1>2, <1>3, <1>4, <1>5 DEF IInv

LEMMA NextKeepsIInv == IInv /\ [Next]_vars => IInv'
<1> SUFFICES ASSUME IInv, [Next]_vars
             PROVE  IInv'
  OBVIOUS
<1>1. CASE ~crashed /\ User
  BY <1>1, UserKeepsIInv
<1>2. CASE ~crashed /\ Server
  BY <1>2, ServerKeepsIInv
<1>3. CASE Looper /\ OnConnect
  BY <1>3, ConnectKeepsIInv DEF Looper
<1>4. CASE Looper /\ OnCompleteConnection
  BY <1>4, CompleteKeepsIInv DEF Looper
<1>5. CASE Looper /\ OnDisconnect
  BY <1>5, DisconnectKeepsIInv DEF Looper
<1>6. CASE Looper /\ OnSendRequest
  BY <1>6, SendKeepsIInv DEF Looper
<1>7. CASE Looper /\ OnReceiveResponse
  BY <1>7, ReceiveKeepsIInv DEF Looper
<1>8. CASE UNCHANGED vars
  <2>1. UNCHANGED <<mailbox, posted, state, connectionID, user, authenticated,
                    nextCSeq, pending, receivePending, inbox, asked, closed,
                    partial, replies, crashed, broken>>
    BY <1>8 DEF vars, authVars, serverVars
  <2>2. TypeOK' /\ Idle'
    BY <2>1 DEF IInv, TypeOK, Idle
  <2>3. Matched'
    BY <2>1 DEF IInv, Matched
  <2>4. RepliedOnce'
    BY <2>1 DEF IInv, RepliedOnce, Places, Waiting
  <2>5. ResponseMatches' /\ PolledOnce'
    BY <2>1 DEF IInv, ResponseMatches, PolledOnce
  <2> QED
    BY <2>2, <2>3, <2>4, <2>5 DEF IInv
<1> QED
  BY <1>1, <1>2, <1>3, <1>4, <1>5, <1>6, <1>7, <1>8 DEF Next, Looper

LEMMA AlwaysIInv == Spec => []IInv
<1>1. Init => IInv
  BY InitIInv
<1>2. IInv /\ [Next]_vars => IInv'
  BY NextKeepsIInv
<1> QED
  BY <1>1, <1>2, PTL DEF Spec

\* The connection's variables keep to their types, the table of pending
\* requests stays finite, and nothing is under way on a socket there is not.
THEOREM ConnectionTypes == Spec => [](TypeOK /\ Idle)
<1>1. IInv => TypeOK /\ Idle
  BY DEF IInv
<1> QED
  BY <1>1, AlwaysIInv, PTL

\* Every call that has been made is on its way to the looper, or waits for its
\* response, or has been replied to, and only one of these, once: no order of
\* connecting, disconnecting, flushing, repeating and answering loses a reply
\* or sends a second one (onConnect(), onCompleteConnection(), onDisconnect(),
\* onSendRequest(), onReceiveResponse(), flushPendingRequests()).
THEOREM EveryCallRepliedOnce == Spec => []RepliedOnce
<1>1. IInv => RepliedOnce
  BY DEF IInv
<1> QED
  BY <1>1, AlwaysIInv, PTL

\* A response is handed to the request it answers by its CSeq, though every
\* connection counts its requests from 1 again (notifyResponseListener(),
\* findPendingRequest()).
THEOREM ResponsesReachTheirCall == Spec => []ResponseMatches
<1>1. IInv => ResponseMatches
  BY DEF IInv
<1> QED
  BY <1>1, AlwaysIInv, PTL

\* There is never a second polling message, and a connection that can still be
\* read has one (postReceiveReponseEvent(), mReceiveResponseEventPending).
THEOREM ConnectionIsPolled == Spec => []PolledOnce
<1>1. IInv => PolledOnce
  BY DEF IInv
<1> QED
  BY <1>1, AlwaysIInv, PTL

=============================================================================
