---------------------------- MODULE RTSPConnection ----------------------------
(***************************************************************************)
(* DSPGARTSPConnection (src/jni/player/rtsp/DSPGARTSPConnection.cpp): the  *)
(* client's RTSP connection.  Its users post connect, disconnect and send  *)
(* messages to its looper at any time and expect each to be replied to;    *)
(* the looper handles one message at a time, in order, and keeps polling   *)
(* the socket with a message it posts to itself.  The server answers       *)
(* requests, asks for authorisation, and may do worse: stop in the middle  *)
(* of a message, for instance, which leaves the looper in recv().          *)
(***************************************************************************)
EXTENDS Integers, Sequences, SequencesExt, FiniteSetsExt

CONSTANTS Connect,      \* calls of connect()
          Disconnect,   \* calls of disconnect()
          Request,      \* calls of sendRequest()
          MaxInbox      \* bound on the messages the server has under way

ASSUME ConnectionAssumption ==
    /\ Connect \cap (Disconnect \cup Request) = {}
    /\ Disconnect \cap Request = {}
    /\ MaxInbox \in Nat

Call == Connect \cup Disconnect \cup Request

VARIABLES mailbox,        \* messages posted to the looper
          posted,         \* the calls made so far
          state,          \* mState
          connectionID,   \* mConnectionID
          user,           \* mUser is not empty
          authenticated,  \* mAuthType # NONE
          nextCSeq,       \* mNextCSeq
          pending,        \* mPendingRequests: set of [cseq, call]
          receivePending, \* mReceiveResponseEventPending
          inbox,          \* what the server has sent on the open socket
          asked,          \* the requests it has received on it and not answered
          closed,         \* it has closed its side
          partial,        \* the last message in inbox has not all come
          replies,        \* the replies posted, per call
          crashed,        \* a CHECK or TRESPASS ended the process
          broken,         \* history: reading the open socket has failed
          attempt         \* history: the connect() in force, or None

serverVars == <<inbox, asked, closed, partial>>
authVars == <<user, authenticated>>
vars == <<mailbox, posted, state, connectionID, authVars, nextCSeq, pending,
          receivePending, serverVars, replies, crashed, broken, attempt>>

None == "none"

Post(msg) == Append(mailbox, msg)
Handled == Tail(mailbox)
Current == Head(mailbox)

ReceiveEvent == [what |-> "receive"]

-----------------------------------------------------------------------------
(* Mutated forms of definitions below.                                     *)

SkipsFlush(rs) == rs

FindsFirst(cseq) == {p \in pending : \A q \in pending : p.cseq <= q.cseq}

AlwaysPosts(box) == Append(box, [what |-> "receive"])

KeepsPending(p) == pending

-----------------------------------------------------------------------------
(* The users.                                                              *)

Call_connect(c) ==
    /\ c \in Connect \ posted
    /\ posted' = posted \cup {c}
    /\ mailbox' = Post([what |-> "connect", call |-> c])

Call_disconnect(d) ==
    /\ d \in Disconnect \ posted
    /\ posted' = posted \cup {d}
    /\ mailbox' = Post([what |-> "disconnect", call |-> d])

Call_sendRequest(r) ==
    /\ r \in Request \ posted
    /\ posted' = posted \cup {r}
    /\ mailbox' = Post([what |-> "send", call |-> r])

User ==
    /\ \E c \in Call : Call_connect(c) \/ Call_disconnect(c) \/ Call_sendRequest(c)
    /\ UNCHANGED <<state, connectionID, authVars, nextCSeq, pending,
                   receivePending, serverVars, replies, crashed, broken, attempt>>

-----------------------------------------------------------------------------
(* The server, as far as the connection can see it.                        *)

\* All of a message comes, or only a part of it.
ServerSends(m) ==
    /\ ~partial
    /\ Len(inbox) < MaxInbox
    /\ inbox' = Append(inbox, m)
    /\ partial' \in BOOLEAN

ServerAnswers ==
    \E a \in asked, kind \in {"ok", "unauthorized"} :
        /\ ServerSends([kind |-> kind, cseq |-> a.cseq, to |-> a.call])
        /\ asked' = asked \ {a}

\* A request of its own, binary data, a response to a request nobody made or
\* one that is not well-formed ("stray"), or one without CSeq ("unsolicited"),
\* with whatever status.
ServerTalks ==
    /\ \E kind \in {"request", "binary", "stray", "unsolicited"} :
          ServerSends([kind |-> kind])
    /\ UNCHANGED asked

ServerGoesOn ==
    /\ partial
    /\ partial' = FALSE
    /\ UNCHANGED <<inbox, asked>>

Server ==
    /\ state = "connected"
    /\ ~closed
    /\ \/ (ServerAnswers \/ ServerTalks \/ ServerGoesOn) /\ UNCHANGED closed
       \/ closed' = TRUE /\ UNCHANGED <<inbox, asked, partial>>
    /\ UNCHANGED <<mailbox, posted, state, connectionID, authVars, nextCSeq,
                   pending, receivePending, replies, crashed, broken, attempt>>

-----------------------------------------------------------------------------
(* Handlers.                                                               *)

Replied(call, result) == [replies EXCEPT ![call] = Append(@, result)]

\* flushPendingRequests(): every request waiting for its response fails.
Flushed(rs) ==
    [c \in Call |-> IF \E p \in pending : p.call = c
                    THEN Append(rs[c], [result |-> "aborted"]) ELSE rs[c]]

\* postReceiveReponseEvent(), into the given mailbox.
WithReceiveEvent(box) ==
    IF receivePending THEN box ELSE Append(box, ReceiveEvent)

PendingAfterClose == IF state # "disconnected" THEN {} ELSE pending

\* Both close the socket if there is one, with what was under way on it, and
\* flush.
CloseSocket == /\ pending' = PendingAfterClose
               /\ inbox' = <<>>
               /\ asked' = {}
               /\ closed' = FALSE
               /\ partial' = FALSE
               /\ broken' = FALSE

RepliesAfterClose == IF state # "disconnected" THEN Flushed(replies)
                                               ELSE replies

Connected(box) ==
    /\ state' = "connected"
    /\ nextCSeq' = 1
    /\ mailbox' = WithReceiveEvent(box)
    /\ receivePending' = TRUE

OnConnect ==
    /\ Current.what = "connect"
    /\ connectionID' = connectionID + 1
    /\ attempt' = Current.call
    /\ CloseSocket
    /\ user' \in BOOLEAN
    /\ LET rs == RepliesAfterClose
           c == Current.call
       IN  \/ \* a malformed URL, an unknown host, a connect() that fails
              /\ state' = "disconnected"
              /\ mailbox' = Handled
              /\ replies' = [rs EXCEPT ![c] = Append(@, [result |-> "error"])]
              /\ UNCHANGED <<nextCSeq, receivePending>>
           \/ \* EINPROGRESS
              /\ state' = "connecting"
              /\ mailbox' = Append(Handled, [what |-> "complete", call |-> c,
                                             id |-> connectionID'])
              /\ replies' = rs
              /\ UNCHANGED <<nextCSeq, receivePending>>
           \/ /\ Connected(Handled)
              /\ replies' = [rs EXCEPT ![c] = Append(@, [result |-> "ok"])]
    /\ UNCHANGED <<posted, authenticated, crashed>>

\* Is the attempt this message is about still the one under way?
StillConnecting(msg) == msg.id = connectionID /\ state = "connecting"

OnCompleteConnection ==
    /\ Current.what = "complete"
    /\ \/ /\ ~StillConnecting(Current)
          /\ mailbox' = Handled
          /\ replies' = Replied(Current.call, [result |-> "aborted"])
          /\ UNCHANGED <<state, nextCSeq, receivePending>>
       \/ /\ StillConnecting(Current)
          /\ \/ \* select() timed out
                /\ mailbox' = Append(Handled, Current)
                /\ UNCHANGED <<state, nextCSeq, receivePending, replies>>
             \/ /\ state' = "disconnected"
                /\ mailbox' = Handled
                /\ replies' = Replied(Current.call, [result |-> "error"])
                /\ UNCHANGED <<nextCSeq, receivePending>>
             \/ /\ Connected(Handled)
                /\ replies' = Replied(Current.call, [result |-> "ok"])
    /\ UNCHANGED <<posted, connectionID, authVars, pending, serverVars,
                   crashed, broken, attempt>>

OnDisconnect ==
    /\ Current.what = "disconnect"
    /\ attempt' = None
    /\ CloseSocket
    /\ replies' = [RepliesAfterClose EXCEPT
                      ![Current.call] = Append(@, [result |-> "ok"])]
    /\ state' = "disconnected"
    /\ user' = FALSE
    /\ authenticated' = FALSE
    /\ mailbox' = Handled
    /\ UNCHANGED <<posted, connectionID, nextCSeq, receivePending, crashed>>

\* The body of onSendRequest() while connected: send() may fail (the socket
\* does not block), may reach the server, or fill a buffer nobody reads.
SendRequest(call, waiting) ==
    /\ nextCSeq' = nextCSeq + 1
    /\ LET p == [cseq |-> nextCSeq, call |-> call]
       IN  \/ /\ replies' = Replied(call, [result |-> "error"])
              /\ pending' = waiting
              /\ UNCHANGED asked
           \/ /\ pending' = waiting \cup {p}
              /\ asked' = IF closed THEN asked ELSE asked \cup {p}
              /\ UNCHANGED replies

OnSendRequest ==
    /\ Current.what = "send"
    /\ mailbox' = Handled
    /\ \/ /\ state # "connected"
          /\ replies' = Replied(Current.call, [result |-> "error"])
          /\ UNCHANGED <<nextCSeq, pending, asked>>
       \/ /\ state = "connected"
          /\ SendRequest(Current.call, pending)
    /\ UNCHANGED <<posted, state, connectionID, authVars, receivePending,
                   inbox, closed, partial, crashed, broken, attempt>>

-----------------------------------------------------------------------------
(* onReceiveResponse() and receiveRTSPReponse().                           *)

\* findPendingRequest() for a response with a CSeq.
FindPending(cseq) == {p \in pending : p.cseq = cseq}

\* For one without, index 0: the entry with the lowest CSeq.
FirstPending == {p \in pending : \A q \in pending : p.cseq <= q.cseq}

Without(p) == pending \ {p}

receiveFrame == <<posted, state, connectionID, user, closed, attempt>>

\* The read succeeds and the socket will be polled again.
ReadMore ==
    /\ inbox' = Tail(inbox)
    /\ mailbox' = Append(Handled, ReceiveEvent)
    /\ receivePending' = TRUE
    /\ UNCHANGED <<crashed, broken>>

\* "Something horrible, irreparable has happened": nobody polls any more.
ReadFails ==
    /\ replies' = Flushed(replies)
    /\ pending' = {}
    /\ mailbox' = Handled
    /\ receivePending' = FALSE
    /\ broken' = TRUE
    /\ UNCHANGED <<authenticated, nextCSeq, asked, crashed>>

Crash ==
    /\ crashed' = TRUE
    /\ UNCHANGED <<authenticated, nextCSeq, asked, replies, pending, mailbox,
                   receivePending, inbox, broken>>

\* notifyResponseListener(), to the entry found.
NotifyListener(p, to) ==
    /\ replies' = Replied(p.call, [result |-> "response", to |-> to])
    /\ pending' = Without(p)
    /\ ReadMore
    /\ UNCHANGED <<authenticated, nextCSeq, asked>>

\* A 401 makes the request found be issued again, with the credentials.
AsksAgain(m, found) ==
    /\ m.kind \in {"unauthorized", "unsolicited"} /\ ~authenticated /\ user
    /\ \/ \E p \in found :
             /\ authenticated' = TRUE
             /\ SendRequest(p.call, Without(p))
             /\ ReadMore
       \/ found = {} /\ Crash

\* A response with a CSeq; a 401 that names no way to authenticate is handed on
\* like any other.
ReceiveAnswer(m) ==
    /\ m.kind \in {"ok", "unauthorized"}
    /\ \/ \E p \in FindPending(m.cseq) : NotifyListener(p, m.to)
       \/ /\ FindPending(m.cseq) = {}
          /\ inbox' = Tail(inbox)
          /\ ReadFails
       \/ AsksAgain(m, FindPending(m.cseq))

\* One without: it goes to the first entry, if there is one.
ReceiveUnasked(m) ==
    \/ \E p \in FirstPending : NotifyListener(p, "nobody")
    \/ pending = {} /\ Crash
    \/ AsksAgain(m, FirstPending)

ReceiveOther(m) ==
    \/ \* interleaved binary data; a request, answered with 501
       /\ m.kind \in {"binary", "request"}
       /\ ReadMore
       /\ UNCHANGED <<authenticated, nextCSeq, asked, replies, pending>>
    \/ /\ m.kind \in {"stray", "request"}
       /\ inbox' = Tail(inbox)
       /\ ReadFails
    \/ m.kind = "stray" /\ Crash
    \/ m.kind = "unsolicited" /\ ReceiveUnasked(m)

\* The server closed in the middle of the message: reading its first line or
\* binary data fails, reading its body does not come back, and when the headers
\* end early it is taken for what has come of them, with a CSeq or without.
ReceiveCut(m) ==
    \/ inbox' = Tail(inbox) /\ ReadFails
    \/ /\ m.kind # "binary"
       /\ \/ Crash
          \/ ReceiveAnswer(m) \/ ReceiveOther(m)
          \/ m.kind \in {"ok", "unauthorized", "stray"} /\ ReceiveUnasked(m)

\* Only a part of the message to be read next is there.
Halfway == partial /\ Len(inbox) = 1

OnReceiveResponse ==
    /\ Current.what = "receive"
    /\ UNCHANGED receiveFrame
    /\ \/ /\ state # "connected"
          /\ mailbox' = Handled
          /\ receivePending' = FALSE
          /\ UNCHANGED <<authenticated, nextCSeq, pending, inbox, asked,
                         partial, replies, crashed, broken>>
       \/ \* nothing to read
          /\ state = "connected"
          /\ inbox = <<>>
          /\ ~closed
          /\ mailbox' = Append(Handled, ReceiveEvent)
          /\ receivePending' = TRUE
          /\ UNCHANGED <<authenticated, nextCSeq, pending, inbox, asked,
                         partial, replies, crashed, broken>>
       \/ /\ state = "connected"
          /\ inbox = <<>>
          /\ closed
          /\ ReadFails
          /\ UNCHANGED <<inbox, partial>>
       \/ /\ state = "connected"
          /\ inbox # <<>>
          /\ ~Halfway
          /\ ReceiveAnswer(Head(inbox)) \/ ReceiveOther(Head(inbox))
          /\ UNCHANGED partial
       \/ \* recv() blocks until the rest comes or the server closes
          /\ state = "connected"
          /\ Halfway
          /\ closed
          /\ ReceiveCut(Head(inbox))
          /\ partial' = FALSE

-----------------------------------------------------------------------------

Looper ==
    /\ ~crashed
    /\ mailbox # <<>>
    /\ \/ OnConnect \/ OnCompleteConnection \/ OnDisconnect \/ OnSendRequest
       \/ OnReceiveResponse

Init ==
    /\ mailbox = <<>>
    /\ posted = {}
    /\ state = "disconnected"
    /\ connectionID = 0
    /\ user = FALSE
    /\ authenticated = FALSE
    /\ nextCSeq = 0
    /\ pending = {}
    /\ receivePending = FALSE
    /\ inbox = <<>>
    /\ asked = {}
    /\ closed = FALSE
    /\ partial = FALSE
    /\ replies = [c \in Call |-> <<>>]
    /\ crashed = FALSE
    /\ broken = FALSE
    /\ attempt = None

Next ==
    \/ ~crashed /\ (User \/ Server)
    \/ Looper

Spec == Init /\ [][Next]_vars

\* The looper runs, unless it waits in recv() for the rest of a message, where
\* OnReceiveResponse has no step; nobody has to call, answer, connect, or send
\* that rest.
FairSpec == Spec /\ WF_vars(Looper)

-----------------------------------------------------------------------------
(* Properties.                                                             *)

\* Every call is replied to exactly once, or still on its way: however
\* connects, disconnects, requests, repeated requests, lost connections and
\* late answers follow one another, no reply is sent twice and none is lost.
Waiting(c) ==
    {i \in DOMAIN mailbox : mailbox[i] # ReceiveEvent /\ mailbox[i].call = c}

Places(c) == Cardinality(Waiting(c))
             + Cardinality({p \in pending : p.call = c})
             + Len(replies[c])

RepliedOnce ==
    ~crashed => \A c \in Call : Places(c) = IF c \in posted THEN 1 ELSE 0

\* A response that says by its CSeq what it answers is handed to the call whose
\* request that was, on whatever connection, in whatever order, after a repeat
\* for a 401, and after a response without CSeq has taken somebody's place.
ResponseMatches ==
    \A r \in Request : \A i \in DOMAIN replies[r] :
        replies[r][i].result = "response" => replies[r][i].to \in {r, "nobody"}

\* The socket is polled exactly once at a time, and never forgotten: the
\* polling message survives every order of disconnecting and connecting, and
\* stops only with the connection or once reading has failed.
PolledOnce ==
    ~crashed =>
        /\ Cardinality({i \in DOMAIN mailbox : mailbox[i] = ReceiveEvent})
             = IF receivePending THEN 1 ELSE 0
        /\ state = "connected" /\ ~broken => receivePending

\* Once a disconnect() is on its way, the requests in front of it are replied
\* to: polling and connecting, which post to themselves, do not starve it.  The
\* exception is a server that stops in the middle of a message and leaves the
\* connection open: receive() then keeps the looper in recv() for good, on a
\* socket made blocking, and no disconnect() gets through.
InFront(r, d) ==
    \E i \in DOMAIN mailbox :
        /\ mailbox[i] = [what |-> "disconnect", call |-> d]
        /\ \/ \E p \in pending : p.call = r
           \/ \E j \in 1 .. i - 1 : mailbox[j] = [what |-> "send", call |-> r]

Stuck ==
    /\ mailbox # <<>> /\ Current = ReceiveEvent
    /\ state = "connected" /\ Halfway /\ ~closed

DisconnectSettles ==
    \A r \in Request, d \in Disconnect :
        []<>~Stuck => (InFront(r, d) ~> replies[r] # <<>> \/ crashed)

=============================================================================
