---------------------------- MODULE EventSchedule ----------------------------
(***************************************************************************)
(* What DSPGTimedEventQueue promises its users, without threads, locks or  *)
(* condition variables: a set of postings, each with the time it is due.   *)
(* A posting leaves the set once: it is handled, never before it is due    *)
(* and never ahead of an older posting that is due no later, or it is      *)
(* withdrawn (cancelled, or dropped when the queue stops).                 *)
(***************************************************************************)
EXTENDS Integers

CONSTANTS MaxTime,   \* bound on the clock
          MaxPosts   \* bound on the number of postings

VARIABLES clock, next, pending, handled

svars == <<clock, next, pending, handled>>

\* Postings due before time 0 (the front of the queue) or after the end of
\* time (its back) do not wait for the clock.
DueAt(when, t) == when < 0 \/ when > MaxTime \/ when <= t

Slot == -2 .. MaxTime + 1

SInit == /\ clock = 0
         /\ next = 1
         /\ pending = {}
         /\ handled = {}

Post(when) == /\ next <= MaxPosts
              /\ next' = next + 1
              /\ pending' = pending \cup {[id |-> next, when |-> when]}
              /\ UNCHANGED <<clock, handled>>

Withdraw(P) == /\ pending' = pending \ P
               /\ UNCHANGED <<clock, next, handled>>

Handle(p) == /\ DueAt(p.when, clock)
             /\ \A q \in pending : q.id < p.id => q.when > p.when
             /\ pending' = pending \ {p}
             /\ handled' = handled \cup {p.id}
             /\ UNCHANGED <<clock, next>>

Tick == /\ clock < MaxTime
        /\ clock' = clock + 1
        /\ UNCHANGED <<next, pending, handled>>

SNext == \/ Tick
         \/ \E when \in Slot : Post(when)
         \/ \E P \in SUBSET pending : Withdraw(P)
         \/ \E p \in pending : Handle(p)

ScheduleSpec == SInit /\ [][SNext]_svars
=============================================================================
