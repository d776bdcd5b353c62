--------------------------- MODULE TimedEventQueue ---------------------------
(***************************************************************************)
(* DSPGTimedEventQueue (src/jni/player/utils/DSPGTimedEventQueue.cpp): the *)
(* list of timed events every player callback goes through, its worker     *)
(* thread, the threads that post and cancel, and the owner that starts and *)
(* stops it.  A section of the code that holds mLock is one step; the two  *)
(* conditions are modelled by the waits they wake, so a signal nobody is   *)
(* waiting for is lost.  The clock is monotonic.                           *)
(***************************************************************************)
EXTENDS Integers, Sequences, SequencesExt

CONSTANTS Event,       \* the event objects the users post
          StopEvent,   \* the object stop() posts
          Client,      \* threads that cancel events
          MaxTime,     \* bound on the real-time clock
          MaxTimeout,  \* kMaxTimeoutUs
          MaxPosts     \* bound on the number of postings (mNextEventID)

ASSUME ConstantsAssumption == /\ StopEvent \notin Event
                              /\ MaxTime \in Nat
                              /\ MaxTimeout \in Nat \ {0}
                              /\ MaxPosts \in Nat

VARIABLES queue,      \* mQueue: sequence of [event, when]
          eventID,    \* Event::mEventID of each event object
          nextID,     \* mNextEventID
          running,    \* mRunning
          stopped,    \* mStopped
          now,        \* what getRealTimeUs() returns
          wpc,        \* where the worker thread is in threadEntry()
          wid,        \* its local eventID
          deadline,   \* the time its waitRelative() ends
          capped,     \* its local timeoutCapped
          wevent,     \* the event it is about to fire ...
          wfid,       \* ... and the posting that was
          opc,        \* the owner: idle, or joining the thread in stop()
          flush,      \* the argument of the owner's stop()
          stopID,     \* the posting of its StopEvent
          held,       \* the id each client has read and will cancel
          fired, cancelled, dropped   \* history: how each posting ended

workerVars == <<wpc, wid, deadline, capped, wevent, wfid>>
ownerVars == <<opc, flush, stopID>>
history == <<fired, cancelled, dropped>>
vars == <<queue, eventID, nextID, running, stopped, now, workerVars,
          ownerVars, held, history>>

AnyEvent == Event \cup {StopEvent}

\* Realtime slots in the order of their int64_t values.
EarliestSlot == -2          \* INT64_MIN
FrontSlot == -1             \* INT64_MIN + 1
BackSlot == MaxTime + 1     \* INT64_MAX
Slot == EarliestSlot .. BackSlot

Item == [event : AnyEvent, when : Slot]

ID(i) == eventID[queue[i].event]
QueuedIDs == {ID(i) : i \in DOMAIN queue}
Queued(ev) == \E i \in DOMAIN queue : queue[i].event = ev

-----------------------------------------------------------------------------
(* Mutated forms of definitions below: the slips a change to this code could *)
(* make, each of which some property of the last section must notice.        *)

ForgetsHeadChanged(headChanged) ==
    IF wpc = "emptyWait" THEN "emptyWoken" ELSE wpc

ForgetsNotEmpty(headChanged) ==
    IF wpc = "headWait" /\ headChanged THEN "headWoken" ELSE wpc

StopsInFront(fl) == EarliestSlot

TrustsCappedTimeout == TRUE

LeavesItem(i) == queue

LeavesUnstopped(ev) == stopped

-----------------------------------------------------------------------------
(* The list.                                                               *)

\* The place postTimedEvent() inserts at: behind every item that is due no
\* later, in front of the first that is due later.
InsertionPoint(when, i) ==
    /\ \A j \in 1 .. i - 1 : queue[j].when <= when
    /\ i <= Len(queue) => queue[i].when > when

\* The item removeEventFromQueue_l() and cancelEvent() find.
FirstWithID(i, id) ==
    /\ ID(i) = id
    /\ \A j \in 1 .. i - 1 : ID(j) # id

Erased(i) == RemoveAt(queue, i)

\* Where the worker is after a signal of mQueueNotEmptyCondition and, if the
\* head has changed, of mQueueHeadChangedCondition.
Awakened(headChanged) ==
    CASE wpc = "emptyWait" -> "emptyWoken"
      [] wpc = "headWait" /\ headChanged -> "headWoken"
      [] OTHER -> wpc

\* Cancelling signals mQueueHeadChangedCondition only.
AwakenedByCancel(headChanged) ==
    IF wpc = "headWait" /\ headChanged THEN "headWoken" ELSE wpc

PostTimedEvent(ev, when) ==
    /\ nextID <= MaxPosts
    /\ eventID' = [eventID EXCEPT ![ev] = nextID]
    /\ nextID' = nextID + 1
    /\ \E i \in 1 .. Len(queue) + 1 :
          /\ InsertionPoint(when, i)
          /\ queue' = InsertAt(queue, i, [event |-> ev, when |-> when])
          /\ wpc' = Awakened(i = 1)
    /\ UNCHANGED <<running, stopped, now, wid, deadline, capped, wevent, wfid,
                   held, history>>

\* postEvent(), postEventToBack() and postEventWithDelay() / postTimedEvent()
\* by their slot.  The users keep a pending flag per event object and never
\* post one that is still queued.
PostEvent(ev, when) ==
    /\ ~Queued(ev)
    /\ PostTimedEvent(ev, when)
    /\ UNCHANGED ownerVars

-----------------------------------------------------------------------------
(* Cancelling, in two steps as the players do it: the id is read from the  *)
(* event object without mLock, then passed to cancelEvent().  Nothing      *)
(* calls cancelEvents() but cancelEvent(), for the first match only.       *)

ReadEventID(c, ev) ==
    /\ held' = [held EXCEPT ![c] = eventID[ev]]
    /\ UNCHANGED <<queue, eventID, nextID, running, stopped, now, workerVars,
                   ownerVars, history>>

CancelEvent(c) ==
    /\ held[c] # 0
    /\ held' = [held EXCEPT ![c] = 0]
    /\ \/ \E i \in DOMAIN queue :
             /\ FirstWithID(i, held[c])
             /\ queue' = Erased(i)
             /\ eventID' = [eventID EXCEPT ![queue[i].event] = 0]
             /\ wpc' = AwakenedByCancel(i = 1)
             /\ cancelled' = cancelled \cup {held[c]}
       \/ /\ held[c] \notin QueuedIDs
          /\ UNCHANGED <<queue, eventID, wpc, cancelled>>
    /\ UNCHANGED <<nextID, running, stopped, now, wid, deadline, capped,
                   wevent, wfid, ownerVars, fired, dropped>>

-----------------------------------------------------------------------------
(* The owner.                                                              *)

Start ==
    /\ opc = "idle"
    /\ ~running
    /\ stopped' = FALSE
    /\ wpc' = "top"
    /\ running' = TRUE
    /\ UNCHANGED <<queue, eventID, nextID, now, wid, deadline, capped, wevent,
                   wfid, ownerVars, held, history>>

StopSlot(fl) == IF fl THEN BackSlot ELSE EarliestSlot

Stop(fl) ==
    /\ opc = "idle"
    /\ running
    /\ PostTimedEvent(StopEvent, StopSlot(fl))
    /\ opc' = "joining"
    /\ flush' = fl
    /\ stopID' = nextID

\* pthread_join() returns once the thread has left threadEntry(); what the
\* StopEvent overtook is dropped.
StopReturns ==
    /\ opc = "joining"
    /\ wpc = "exited"
    /\ wpc' = "none"
    /\ queue' = <<>>
    /\ dropped' = dropped \cup QueuedIDs
    /\ running' = FALSE
    /\ opc' = "idle"
    /\ UNCHANGED <<eventID, nextID, stopped, now, wid, deadline, capped,
                   wevent, wfid, flush, stopID, held, fired, cancelled>>

-----------------------------------------------------------------------------
(* The worker thread.                                                      *)

Immediate(when) == when < 0 \/ when = BackSlot

\* removeEventFromQueue_l(id), still under mLock.
Take(id) ==
    \/ \E i \in DOMAIN queue :
          /\ FirstWithID(i, id)
          /\ queue' = Erased(i)
          /\ wevent' = queue[i].event
          /\ wfid' = id
          /\ eventID' = [eventID EXCEPT ![queue[i].event] = 0]
          /\ wpc' = "fire"
    \/ /\ id \notin QueuedIDs
       /\ wpc' = "top"
       /\ UNCHANGED <<queue, wevent, wfid, eventID>>

\* One pass through the inner loop: fire the head, or wait for it.
Scan ==
    \/ /\ queue = <<>>
       /\ wpc' = "top"
       /\ UNCHANGED <<queue, eventID, wid, deadline, capped, wevent, wfid>>
    \/ /\ queue # <<>>
       /\ wid' = ID(1)
       /\ Immediate(queue[1].when) \/ queue[1].when <= now
       /\ Take(ID(1))
       /\ UNCHANGED <<deadline, capped>>
    \/ /\ queue # <<>>
       /\ wid' = ID(1)
       /\ ~Immediate(queue[1].when)
       /\ queue[1].when > now
       /\ capped' = (queue[1].when - now > MaxTimeout)
       /\ deadline' = IF capped' THEN now + MaxTimeout ELSE queue[1].when
       /\ wpc' = "headWait"
       /\ UNCHANGED <<queue, eventID, wevent, wfid>>

workerFrame == <<nextID, running, stopped, now, ownerVars, held, history>>

Lock ==
    /\ wpc = "top"
    /\ UNCHANGED workerFrame
    /\ \/ /\ stopped
          /\ wpc' = "exited"
          /\ UNCHANGED <<queue, eventID, wid, deadline, capped, wevent, wfid>>
       \/ /\ ~stopped
          /\ queue = <<>>
          /\ wpc' = "emptyWait"
          /\ UNCHANGED <<queue, eventID, wid, deadline, capped, wevent, wfid>>
       \/ /\ ~stopped
          /\ queue # <<>>
          /\ Scan

\* while (mQueue.empty()) after mQueueNotEmptyCondition.wait() returned.
EmptyWoken ==
    /\ wpc = "emptyWoken"
    /\ UNCHANGED workerFrame
    /\ \/ /\ queue = <<>>
          /\ wpc' = "emptyWait"
          /\ UNCHANGED <<queue, eventID, wid, deadline, capped, wevent, wfid>>
       \/ /\ queue # <<>>
          /\ Scan

HeadWoken == /\ wpc = "headWoken"
             /\ UNCHANGED workerFrame
             /\ Scan

\* waitRelative() has timed out, but mLock is not yet ours again.
WaitTimesOut ==
    /\ wpc = "headWait"
    /\ now >= deadline
    /\ wpc' = "timedOut"
    /\ UNCHANGED <<queue, eventID, wid, deadline, capped, wevent, wfid,
                   workerFrame>>

\* !timeoutCapped: this event's time has come, whatever the head is by now.
TimeHasCome == ~capped

TimedOut ==
    /\ wpc = "timedOut"
    /\ UNCHANGED workerFrame
    /\ \/ /\ TimeHasCome
          /\ Take(wid)
          /\ UNCHANGED <<wid, deadline, capped>>
       \/ /\ ~TimeHasCome
          /\ Scan

\* pthread waits may return with no signal.
SpuriousWakeup ==
    /\ \/ wpc = "emptyWait" /\ wpc' = "emptyWoken"
       \/ wpc = "headWait" /\ wpc' = "headWoken"
    /\ UNCHANGED <<queue, eventID, wid, deadline, capped, wevent, wfid,
                   workerFrame>>

\* StopEvent::fire() sets mStopped; the users' events do not.
StoppedAfter(ev) == stopped \/ ev = StopEvent

\* event->fire(), with mLock released.
Fire ==
    /\ wpc = "fire"
    /\ fired' = fired \cup {wfid}
    /\ stopped' = StoppedAfter(wevent)
    /\ wpc' = "top"
    /\ UNCHANGED <<queue, eventID, nextID, running, now, wid, deadline, capped,
                   wevent, wfid, ownerVars, held, cancelled, dropped>>

Worker == Lock \/ EmptyWoken \/ HeadWoken \/ WaitTimesOut \/ TimedOut \/ Fire

-----------------------------------------------------------------------------

Tick ==
    /\ now < MaxTime
    /\ now' = now + 1
    /\ UNCHANGED <<queue, eventID, nextID, running, stopped, workerVars,
                   ownerVars, held, history>>

Init ==
    /\ queue = <<>>
    /\ eventID = [ev \in AnyEvent |-> 0]
    /\ nextID = 1
    /\ running = FALSE
    /\ stopped = FALSE
    /\ now = 0
    /\ wpc = "none"
    /\ wid = 0
    /\ deadline = 0
    /\ capped = FALSE
    /\ wevent = StopEvent
    /\ wfid = 0
    /\ opc = "idle"
    /\ flush = FALSE
    /\ stopID = 0
    /\ held = [c \in Client |-> 0]
    /\ fired = {}
    /\ cancelled = {}
    /\ dropped = {}

Next ==
    \/ \E ev \in Event, when \in Slot \ {EarliestSlot} : PostEvent(ev, when)
    \/ \E c \in Client, ev \in Event : ReadEventID(c, ev)
    \/ \E c \in Client : CancelEvent(c)
    \/ Start
    \/ \E fl \in BOOLEAN : Stop(fl)
    \/ StopReturns
    \/ Worker
    \/ SpuriousWakeup
    \/ Tick

Spec == Init /\ [][Next]_vars

\* The worker thread runs, time passes and a join returns; nobody has to
\* post, cancel, start or stop.
FairSpec == /\ Spec
            /\ WF_vars(Lock) /\ WF_vars(EmptyWoken) /\ WF_vars(HeadWoken)
            /\ WF_vars(WaitTimesOut) /\ WF_vars(TimedOut) /\ WF_vars(Fire)
            /\ WF_vars(StopReturns) /\ WF_vars(Tick)

-----------------------------------------------------------------------------
(* Properties.                                                             *)

\* Every variable has its type, and the thread exists exactly while the
\* queue is running.
TypeOK ==
    /\ queue \in Seq(Item)
    /\ eventID \in [AnyEvent -> 0 .. MaxPosts]
    /\ nextID \in 1 .. MaxPosts + 1
    /\ running \in BOOLEAN
    /\ stopped \in BOOLEAN
    /\ now \in 0 .. MaxTime
    /\ wpc \in {"none", "top", "emptyWait", "emptyWoken", "headWait",
                "headWoken", "timedOut", "fire", "exited"}
    /\ wid \in 0 .. MaxPosts
    /\ deadline \in 0 .. MaxTime
    /\ capped \in BOOLEAN
    /\ wevent \in AnyEvent
    /\ wfid \in 0 .. MaxPosts
    /\ opc \in {"idle", "joining"}
    /\ flush \in BOOLEAN
    /\ stopID \in 0 .. MaxPosts
    /\ held \in [Client -> 0 .. MaxPosts]
    /\ fired \subseteq 1 .. MaxPosts
    /\ cancelled \subseteq 1 .. MaxPosts
    /\ dropped \subseteq 1 .. MaxPosts
    /\ running <=> wpc # "none"

\* The postings in the hands of the worker: taken off the list, not yet
\* fired.
FiringIDs == IF wpc = "fire" THEN {wfid} ELSE {}

\* DSPGTimedEventQueue.h:84-86: a cancelled event is gone and will not fire.
\* More: whatever the interleaving of posting, cancelling, a wait that times
\* out and stop(), each posting is at any time in exactly one place (queued,
\* being fired, fired, cancelled, dropped by stop), so it fires at most once
\* and never after cancelEvent() returned true or stop() dropped it.
PostedOnce ==
    /\ \A i, j \in DOMAIN queue : ID(i) = ID(j) => i = j
    /\ QueuedIDs \cup FiringIDs \cup fired \cup cancelled \cup dropped
         = 1 .. nextID - 1
    /\ QueuedIDs \cap (FiringIDs \cup fired \cup cancelled \cup dropped) = {}
    /\ FiringIDs \cap (fired \cup cancelled \cup dropped) = {}
    /\ fired \cap (cancelled \cup dropped) = {}
    /\ cancelled \cap dropped = {}

\* The worker never sleeps while there is something to do: not past the time
\* the head of the list is due, and not waiting for a first event when there
\* is one.  A post or a cancel that changes the head while it waits wakes it.
NoOversleep ==
    /\ wpc = "emptyWait" => queue = <<>>
    /\ wpc = "headWait" /\ queue # <<>> =>
          /\ ~Immediate(queue[1].when)
          /\ deadline <= queue[1].when

\* DSPGTimedEventQueue.h:66-68: stop(true) returns once all pending events
\* have been handled: what it drops was posted after it was called.
FlushHandlesAll ==
    [][opc = "joining" /\ opc' = "idle" /\ flush =>
         \A i \in DOMAIN queue : ID(i) > stopID]_vars

\* The pending, handled and withdrawn postings follow EventSchedule.
Schedule == INSTANCE EventSchedule WITH
    clock <- now,
    next <- nextID,
    pending <- {[id |-> ID(i), when |-> queue[i].when] : i \in DOMAIN queue},
    handled <- fired \cup FiringIDs

ImplementsSchedule == Schedule!ScheduleSpec

\* stop() returns.
StopTerminates == opc = "joining" ~> opc = "idle"

\* While the queue runs, every posting is fired, cancelled or dropped.
EveryPostHandled ==
    \A id \in 1 .. MaxPosts :
        running /\ id \in QueuedIDs ~> id \notin QueuedIDs

=============================================================================
