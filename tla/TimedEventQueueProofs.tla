------------------------ MODULE TimedEventQueueProofs ------------------------
(***************************************************************************)
(* Proofs about TimedEventQueue for any events, clients and bounds.        *)
(***************************************************************************)
EXTENDS TimedEventQueue, SequenceTheorems, TLAPS

-----------------------------------------------------------------------------
(* Lists: what inserting and erasing an item leave.                        *)

\* InsertAt moves the items from position i on one place back.
LEMMA InsertAtProps ==
  ASSUME NEW S, NEW s \in Seq(S), NEW i \in 1 .. Len(s) + 1, NEW x \in S
  PROVE  /\ InsertAt(s, i, x) \in Seq(S)
         /\ Len(InsertAt(s, i, x)) = Len(s) + 1
         /\ \A j \in 1 .. Len(s) + 1 :
              InsertAt(s, i, x)[j] = IF j < i THEN s[j]
                                     ELSE IF j = i THEN x ELSE s[j - 1]
<1> DEFINE L == SubSeq(s, 1, i - 1)
           R == SubSeq(s, i, Len(s))
<1>1. /\ L \in Seq(S) /\ Len(L) = i - 1
      /\ \A j \in 1 .. i - 1 : L[j] = s[j]
  OBVIOUS
<1>2. /\ R \in Seq(S) /\ Len(R) = Len(s) - i + 1
      /\ \A j \in 1 .. Len(s) - i + 1 : R[j] = s[i + j - 1]
  OBVIOUS
<1>3. InsertAt(s, i, x) = (L \o <<x>>) \o R
  BY DEF InsertAt
<1> HIDE DEF L, R
<1>4. /\ L \o <<x>> \in Seq(S) /\ Len(L \o <<x>>) = i
      /\ \A j \in 1 .. i : (L \o <<x>>)[j] = IF j < i THEN s[j] ELSE x
  BY <1>1, ConcatProperties
<1>5. /\ InsertAt(s, i, x) \in Seq(S)
      /\ Len(InsertAt(s, i, x)) = i + (Len(s) - i + 1)
      /\ \A j \in 1 .. i + (Len(s) - i + 1) :
           InsertAt(s, i, x)[j] = IF j <= i THEN (L \o <<x>>)[j] ELSE R[j - i]
  BY <1>2, <1>3, <1>4, ConcatProperties
<1>6. Len(s) \in Nat
  OBVIOUS
<1>7. ASSUME NEW j \in 1 .. Len(s) + 1
      PROVE  InsertAt(s, i, x)[j] = IF j < i THEN s[j]
                                    ELSE IF j = i THEN x ELSE s[j - 1]
  <2>1. CASE j <= i
    BY <2>1, <1>4, <1>5, <1>6
  <2>2. CASE j > i
    <3>1. InsertAt(s, i, x)[j] = R[j - i]
      BY <2>2, <1>5, <1>6
    <3>2. /\ j - i \in 1 .. Len(s) - i + 1
          /\ i + (j - i) - 1 = j - 1
      BY <2>2, <1>6
    <3>3. R[j - i] = s[i + (j - i) - 1]
      BY <1>2, <3>2
    <3> QED
      BY <2>2, <3>1, <3>2, <3>3
  <2> QED
    BY <2>1, <2>2
<1> QED
  BY <1>5, <1>6, <1>7

\* RemoveAt moves the items behind position i one place forward.
LEMMA RemoveAtProps ==
  ASSUME NEW S, NEW s \in Seq(S), NEW i \in DOMAIN s
  PROVE  /\ RemoveAt(s, i) \in Seq(S)
         /\ Len(RemoveAt(s, i)) = Len(s) - 1
         /\ \A j \in 1 .. Len(s) - 1 :
              RemoveAt(s, i)[j] = IF j < i THEN s[j] ELSE s[j + 1]
<1> DEFINE L == SubSeq(s, 1, i - 1)
           R == SubSeq(s, i + 1, Len(s))
<1>1. /\ L \in Seq(S) /\ Len(L) = i - 1
      /\ \A j \in 1 .. i - 1 : L[j] = s[j]
  OBVIOUS
<1>2. /\ R \in Seq(S) /\ Len(R) = Len(s) - i
      /\ \A j \in 1 .. Len(s) - i : R[j] = s[i + j]
  OBVIOUS
<1>3. RemoveAt(s, i) = L \o R
  BY DEF RemoveAt
<1> HIDE DEF L, R
<1>4. /\ Len(s) \in Nat
      /\ i \in 1 .. Len(s)
  OBVIOUS
<1>5. /\ L \o R \in Seq(S)
      /\ Len(L \o R) = Len(s) - 1
      /\ \A j \in 1 .. Len(s) - 1 :
           (L \o R)[j] = IF j <= i - 1 THEN L[j] ELSE R[j - (i - 1)]
  <2>1. Len(L) + Len(R) = Len(s) - 1
    BY <1>1, <1>2, <1>4
  <2>2. /\ L \in Seq(S) /\ R \in Seq(S)
        /\ Len(L) = i - 1
    BY <1>1, <1>2
  <2>3. /\ L \o R \in Seq(S)
        /\ Len(L \o R) = Len(L) + Len(R)
        /\ \A j \in 1 .. Len(L) + Len(R) :
             (L \o R)[j] = IF j <= Len(L) THEN L[j] ELSE R[j - Len(L)]
    BY <2>2, ConcatProperties
  <2> QED
    BY <2>1, <2>2, <2>3
<1>6. ASSUME NEW j \in 1 .. Len(s) - 1
      PROVE  RemoveAt(s, i)[j] = IF j < i THEN s[j] ELSE s[j + 1]
  <2>1. CASE j < i
    BY <2>1, <1>1, <1>3, <1>4, <1>5
  <2>2. CASE j >= i
    <3>1. RemoveAt(s, i)[j] = R[j - (i - 1)]
      <4>1. ~(j <= i - 1)
        BY <2>2, <1>4
      <4> QED
        BY <4>1, <1>3, <1>5
    <3>2. /\ j - (i - 1) \in 1 .. Len(s) - i
          /\ i + (j - (i - 1)) = j + 1
      BY <2>2, <1>5
    <3>3. R[j - (i - 1)] = s[i + (j - (i - 1))]
      BY <1>2, <3>2
    <3> QED
      BY <2>2, <3>1, <3>2, <3>3
  <2> QED
    BY <2>1, <2>2, <1>5
<1> QED
  BY <1>3, <1>4, <1>5, <1>6

-----------------------------------------------------------------------------
(* The inductive invariant.                                                *)

\* No event object is queued twice, and the StopEvent only during a stop().
UniqueEvents ==
    /\ \A i, j \in DOMAIN queue : queue[i].event = queue[j].event => i = j
    /\ Queued(StopEvent) => opc = "joining"

\* The list is in the order of the due times, postings with the same time in
\* the order they were made.
Ordered ==
    \A i, j \in DOMAIN queue : i < j =>
        /\ queue[i].when <= queue[j].when
        /\ queue[i].when = queue[j].when => ID(i) < ID(j)

\* While the worker waits for a posting, or has just been woken, what stands
\* in front of that posting was posted later; and an uncapped wait lasts
\* until the posting is due.
Waiting ==
    wpc \in {"headWait", "headWoken", "timedOut"} =>
        /\ wid \in 1 .. nextID - 1
        /\ \A i \in DOMAIN queue : ID(i) = wid =>
              /\ \A j \in 1 .. i - 1 : ID(j) > wid
              /\ ~capped => queue[i].when = deadline
        /\ wpc = "timedOut" => now >= deadline

IInv == TypeOK /\ UniqueEvents /\ PostedOnce /\ Ordered /\ Waiting

-----------------------------------------------------------------------------
(* The two ways the list changes.                                          *)

\* Item by item, what PostTimedEvent leaves; k is the insertion point.
Inserted(k, ev, when) ==
    /\ k \in 1 .. Len(queue) + 1
    /\ InsertionPoint(when, k)
    /\ wpc' = Awakened(k = 1)
    /\ queue' \in Seq(Item)
    /\ Len(queue') = Len(queue) + 1
    /\ \A j \in 1 .. Len(queue) + 1 :
         /\ j < k => queue'[j] = queue[j] /\ ID(j)' = ID(j)
         /\ j = k => queue'[j] = [event |-> ev, when |-> when] /\ ID(j)' = nextID
         /\ j > k => queue'[j] = queue[j - 1] /\ ID(j)' = ID(j - 1)

LEMMA PostInserts ==
  ASSUME TypeOK, NEW ev \in AnyEvent, NEW when \in Slot, ~Queued(ev),
         PostTimedEvent(ev, when)
  PROVE  \E k \in 1 .. Len(queue) + 1 : Inserted(k, ev, when)
<1> DEFINE item == [event |-> ev, when |-> when]
<1>1. PICK k \in 1 .. Len(queue) + 1 :
        /\ InsertionPoint(when, k)
        /\ queue' = InsertAt(queue, k, item)
        /\ wpc' = Awakened(k = 1)
  BY DEF PostTimedEvent
<1>2. /\ queue \in Seq(Item)
      /\ item \in Item
      /\ Len(queue) \in Nat
      /\ DOMAIN queue = 1 .. Len(queue)
  BY DEF TypeOK, Item
<1> HIDE DEF item
<1>3. /\ queue' \in Seq(Item)
      /\ Len(queue') = Len(queue) + 1
      /\ \A j \in 1 .. Len(queue) + 1 :
           queue'[j] = IF j < k THEN queue[j]
                       ELSE IF j = k THEN item ELSE queue[j - 1]
  <2>1. /\ InsertAt(queue, k, item) \in Seq(Item)
        /\ Len(InsertAt(queue, k, item)) = Len(queue) + 1
        /\ \A j \in 1 .. Len(queue) + 1 :
             InsertAt(queue, k, item)[j] = IF j < k THEN queue[j]
                                           ELSE IF j = k THEN item
                                           ELSE queue[j - 1]
    BY <1>2, InsertAtProps
  <2> QED
    BY <1>1, <2>1
<1>4. \A j \in 1 .. Len(queue) : queue[j].event # ev /\ queue[j].event \in AnyEvent
  <2>1. \A j \in 1 .. Len(queue) : queue[j] \in Item
    BY <1>2
  <2> QED
    BY <2>1, <1>2 DEF Queued, Item
<1>5. /\ eventID' = [eventID EXCEPT ![ev] = nextID]
      /\ eventID \in [AnyEvent -> 0 .. MaxPosts]
  BY DEF PostTimedEvent, TypeOK
<1>6. ASSUME NEW j \in 1 .. Len(queue) + 1
      PROVE  /\ j < k => queue'[j] = queue[j] /\ ID(j)' = ID(j)
             /\ j = k => queue'[j] = item /\ ID(j)' = nextID
             /\ j > k => queue'[j] = queue[j - 1] /\ ID(j)' = ID(j - 1)
  <2>1. CASE j < k
    <3>1. j \in 1 .. Len(queue) /\ queue'[j] = queue[j]
      BY <2>1, <1>2, <1>3
    <3> QED
      BY <2>1, <3>1, <1>2, <1>4, <1>5 DEF ID
  <2>2. CASE j = k
    BY <2>2, <1>2, <1>3, <1>5 DEF ID, item
  <2>3. CASE j > k
    <3>1. j - 1 \in 1 .. Len(queue)
      BY <2>3, <1>2
    <3> QED
      BY <3>1, <2>3, <1>3, <1>4, <1>5 DEF ID
  <2> QED
    BY <2>1, <2>2, <2>3, <1>2
<1> QED
  BY <1>1, <1>3, <1>6 DEF Inserted, item

\* Item by item, what erasing the item at k leaves once its event's id is 0.
Removed(k) ==
    /\ k \in 1 .. Len(queue)
    /\ queue' \in Seq(Item)
    /\ Len(queue') = Len(queue) - 1
    /\ \A j \in 1 .. Len(queue) - 1 :
         /\ j < k => queue'[j] = queue[j] /\ ID(j)' = ID(j)
         /\ j >= k => queue'[j] = queue[j + 1] /\ ID(j)' = ID(j + 1)

LEMMA EraseRemoves ==
  ASSUME TypeOK, UniqueEvents, NEW k \in DOMAIN queue,
         queue' = Erased(k),
         eventID' = [eventID EXCEPT ![queue[k].event] = 0]
  PROVE  Removed(k)
<1>1. /\ queue \in Seq(Item)
      /\ Len(queue) \in Nat
      /\ DOMAIN queue = 1 .. Len(queue)
      /\ eventID \in [AnyEvent -> 0 .. MaxPosts]
  BY DEF TypeOK
<1>2. /\ queue' \in Seq(Item)
      /\ Len(queue') = Len(queue) - 1
      /\ \A j \in 1 .. Len(queue) - 1 :
           queue'[j] = IF j < k THEN queue[j] ELSE queue[j + 1]
  BY <1>1, RemoveAtProps DEF Erased
<1>3. \A j \in 1 .. Len(queue) :
        /\ queue[j].event \in AnyEvent
        /\ j # k => queue[j].event # queue[k].event
  <2>1. \A j \in 1 .. Len(queue) : queue[j] \in Item
    BY <1>1
  <2> QED
    BY <2>1, <1>1 DEF UniqueEvents, Item
<1>4. ASSUME NEW j \in 1 .. Len(queue) - 1
      PROVE  /\ j < k => queue'[j] = queue[j] /\ ID(j)' = ID(j)
             /\ j >= k => queue'[j] = queue[j + 1] /\ ID(j)' = ID(j + 1)
  <2>1. CASE j < k
    BY <2>1, <1>1, <1>2, <1>3 DEF ID
  <2>2. CASE j >= k
    <3>1. j + 1 \in 1 .. Len(queue) /\ j + 1 # k /\ ~(j < k)
      BY <2>2, <1>1
    <3> QED
      BY <3>1, <1>1, <1>2, <1>3 DEF ID
  <2> QED
    BY <2>1, <2>2, <1>1
<1> QED
  BY <1>1, <1>2, <1>4 DEF Removed

\* Queued postings have valid ids, smaller than the next one.
LEMMA QueuedIDBounds ==
  ASSUME TypeOK, PostedOnce
  PROVE  /\ \A i \in 1 .. Len(queue) : ID(i) \in 1 .. nextID - 1
         /\ DOMAIN queue = 1 .. Len(queue)
         /\ Len(queue) \in Nat
         /\ nextID \in 1 .. MaxPosts + 1
<1>1. DOMAIN queue = 1 .. Len(queue) /\ Len(queue) \in Nat
  BY DEF TypeOK
<1>2. \A i \in 1 .. Len(queue) : ID(i) \in QueuedIDs
  BY <1>1 DEF QueuedIDs
<1>3. QueuedIDs \subseteq 1 .. nextID - 1
  BY DEF PostedOnce
<1> QED
  BY <1>1, <1>2, <1>3 DEF TypeOK

\* An insertion keeps the list free of duplicates and in order, and adds the
\* new posting to it.
LEMMA InsertedList ==
  ASSUME TypeOK, UniqueEvents, PostedOnce, Ordered,
         NEW k, NEW ev \in AnyEvent, NEW when \in Slot, ~Queued(ev),
         Inserted(k, ev, when)
  PROVE  /\ \A i, j \in (DOMAIN queue)' :
              queue'[i].event = queue'[j].event => i = j
         /\ \A i, j \in (DOMAIN queue)' : ID(i)' = ID(j)' => i = j
         /\ Ordered'
         /\ QueuedIDs' = QueuedIDs \cup {nextID}
<1>1. /\ \A i \in 1 .. Len(queue) : ID(i) \in 1 .. nextID - 1
      /\ DOMAIN queue = 1 .. Len(queue)
      /\ Len(queue) \in Nat
      /\ nextID \in Nat
  BY QueuedIDBounds
<1>2. /\ k \in 1 .. Len(queue) + 1
      /\ DOMAIN queue' = 1 .. Len(queue) + 1
      /\ \A j \in 1 .. Len(queue) + 1 :
           /\ j < k => queue'[j] = queue[j] /\ ID(j)' = ID(j)
           /\ j = k => /\ queue'[j].event = ev /\ queue'[j].when = when
                       /\ ID(j)' = nextID
           /\ j > k => /\ j - 1 \in 1 .. Len(queue)
                       /\ queue'[j] = queue[j - 1] /\ ID(j)' = ID(j - 1)
  BY <1>1 DEF Inserted
<1>3. \A j \in 1 .. Len(queue) : queue[j].event # ev
  BY <1>1 DEF Queued
<1>4. \A i, j \in 1 .. Len(queue) :
        /\ queue[i].event = queue[j].event => i = j
        /\ ID(i) = ID(j) => i = j
  BY <1>1 DEF UniqueEvents, PostedOnce
<1>5. ASSUME NEW i \in 1 .. Len(queue) + 1, NEW j \in 1 .. Len(queue) + 1,
             i < j
      PROVE  /\ queue'[i].event # queue'[j].event
             /\ ID(i)' # ID(j)'
  <2>1. CASE j < k
    BY <2>1, <1>1, <1>2, <1>4, <1>5
  <2>2. CASE j = k
    BY <2>2, <1>1, <1>2, <1>3, <1>5
  <2>3. CASE j > k /\ i = k
    <3>1. /\ j - 1 \in 1 .. Len(queue)
          /\ queue'[j] = queue[j - 1] /\ ID(j)' = ID(j - 1)
      BY <2>3, <1>2
    <3>2. queue'[i].event = ev /\ ID(i)' = nextID
      BY <2>3, <1>2
    <3> QED
      BY <3>1, <3>2, <1>1, <1>3
  <2>4. CASE j > k /\ i > k
    <3>1. /\ i - 1 \in 1 .. Len(queue) /\ j - 1 \in 1 .. Len(queue)
          /\ queue'[i] = queue[i - 1] /\ ID(i)' = ID(i - 1)
          /\ queue'[j] = queue[j - 1] /\ ID(j)' = ID(j - 1)
      BY <2>4, <1>2
    <3>2. i - 1 # j - 1
      BY <1>5, <1>1
    <3> QED
      BY <3>1, <3>2, <1>4
  <2>5. CASE j > k /\ i < k
    <3>1. i # j - 1 /\ i \in 1 .. Len(queue)
      BY <2>5, <1>1, <1>2
    <3> QED
      BY <3>1, <2>5, <1>1, <1>2, <1>4
  <2> QED
    BY <2>1, <2>2, <2>3, <2>4, <2>5, <1>2
<1>6. /\ \A j \in 1 .. k - 1 : queue[j].when <= when
      /\ k <= Len(queue) => queue[k].when > when
      /\ \A j \in 1 .. Len(queue) : queue[j].when \in Int
      /\ when \in Int
  <2>1. \A j \in 1 .. Len(queue) : queue[j] \in Item
    BY <1>1 DEF TypeOK
  <2> QED
    BY <2>1, ConstantsAssumption DEF Inserted, InsertionPoint, Item, Slot,
       EarliestSlot, BackSlot
<1>7. \A i, j \in 1 .. Len(queue) : i < j =>
        /\ queue[i].when <= queue[j].when
        /\ queue[i].when = queue[j].when => ID(i) < ID(j)
  BY <1>1 DEF Ordered
<1>8. \A j \in 1 .. Len(queue) : j >= k => queue[j].when > when
  <2> SUFFICES ASSUME NEW j \in 1 .. Len(queue), j >= k
               PROVE  queue[j].when > when
    OBVIOUS
  <2>1. k \in 1 .. Len(queue)
    BY <1>1, <1>2
  <2>2. CASE j = k
    BY <2>1, <2>2, <1>6
  <2>3. CASE j > k
    BY <2>1, <2>3, <1>6, <1>7
  <2> QED
    BY <2>2, <2>3, <1>2
<1>9. ASSUME NEW i \in 1 .. Len(queue) + 1, NEW j \in 1 .. Len(queue) + 1,
             i < j
      PROVE  /\ queue'[i].when <= queue'[j].when
             /\ queue'[i].when = queue'[j].when => ID(i)' < ID(j)'
  <2>1. CASE j < k
    BY <2>1, <1>1, <1>2, <1>7, <1>9
  <2>2. CASE j = k
    BY <2>2, <1>1, <1>2, <1>6, <1>9
  <2>3. CASE j > k /\ i = k
    <3>1. j - 1 \in 1 .. Len(queue) /\ queue'[j] = queue[j - 1] /\ j - 1 >= k
      BY <2>3, <1>2
    <3>2. queue'[i].when = when
      BY <2>3, <1>2
    <3> QED
      BY <3>1, <3>2, <1>6, <1>8
  <2>4. CASE j > k /\ i > k
    <3>1. /\ i - 1 \in 1 .. Len(queue) /\ j - 1 \in 1 .. Len(queue)
          /\ queue'[i] = queue[i - 1] /\ ID(i)' = ID(i - 1)
          /\ queue'[j] = queue[j - 1] /\ ID(j)' = ID(j - 1)
      BY <2>4, <1>2
    <3>2. i - 1 < j - 1
      BY <1>9, <1>1
    <3> QED
      BY <3>1, <3>2, <1>7
  <2>5. CASE j > k /\ i < k
    <3>1. i \in 1 .. Len(queue) /\ i < j - 1
      BY <2>5, <1>1, <1>2
    <3> QED
      BY <3>1, <2>5, <1>1, <1>2, <1>7
  <2> QED
    BY <2>1, <2>2, <2>3, <2>4, <2>5, <1>2
<1>10. QueuedIDs' = QueuedIDs \cup {nextID}
  <2>1. ASSUME NEW x \in QueuedIDs'
        PROVE  x \in QueuedIDs \cup {nextID}
    <3>1. PICK j \in 1 .. Len(queue) + 1 : x = ID(j)'
      BY <1>2 DEF QueuedIDs
    <3> QED
      BY <3>1, <1>1, <1>2 DEF QueuedIDs
  <2>2. ASSUME NEW j \in 1 .. Len(queue)
        PROVE  ID(j) \in QueuedIDs'
    <3>1. CASE j < k
      <4>1. j \in 1 .. Len(queue) + 1 /\ ID(j)' = ID(j)
        BY <3>1, <1>1, <1>2
      <4> QED
        BY <4>1, <1>2 DEF QueuedIDs
    <3>2. CASE j >= k
      <4>1. j + 1 \in 1 .. Len(queue) + 1 /\ ID(j + 1)' = ID((j + 1) - 1)
        BY <3>2, <1>1, <1>2
      <4> QED
        BY <4>1, <1>1, <1>2 DEF QueuedIDs
    <3> QED
      BY <3>1, <3>2, <1>1, <1>2
  <2>3. nextID \in QueuedIDs'
    BY <1>2 DEF QueuedIDs
  <2> QED
    BY <2>1, <2>2, <2>3, <1>1 DEF QueuedIDs
<1> QED
  BY <1>1, <1>2, <1>5, <1>9, <1>10 DEF Ordered

\* Erasing an item keeps the list free of duplicates and in order, and takes
\* exactly that posting off it.
LEMMA RemovedList ==
  ASSUME TypeOK, UniqueEvents, PostedOnce, Ordered, NEW k, Removed(k)
  PROVE  /\ \A i, j \in (DOMAIN queue)' :
              queue'[i].event = queue'[j].event => i = j
         /\ \A i, j \in (DOMAIN queue)' : ID(i)' = ID(j)' => i = j
         /\ Ordered'
         /\ QueuedIDs' = QueuedIDs \ {ID(k)}
         /\ Queued(StopEvent)' => Queued(StopEvent)
<1>1. /\ DOMAIN queue = 1 .. Len(queue)
      /\ Len(queue) \in Nat
      /\ k \in 1 .. Len(queue)
      /\ DOMAIN queue' = 1 .. Len(queue) - 1
  BY QueuedIDBounds DEF Removed
<1> DEFINE old(j) == IF j < k THEN j ELSE j + 1
<1>2. \A j \in 1 .. Len(queue) - 1 :
        /\ old(j) \in 1 .. Len(queue) \ {k}
        /\ queue'[j] = queue[old(j)]
        /\ ID(j)' = ID(old(j))
  BY <1>1 DEF Removed
<1>3. \A i, j \in 1 .. Len(queue) - 1 : i < j => old(i) < old(j)
  BY <1>1
<1>4. \A m \in 1 .. Len(queue) \ {k} :
        \E j \in 1 .. Len(queue) - 1 : m = old(j)
  <2> SUFFICES ASSUME NEW m \in 1 .. Len(queue) \ {k}
               PROVE  \E j \in 1 .. Len(queue) - 1 : m = old(j)
    OBVIOUS
  <2>1. CASE m < k
    BY <2>1, <1>1
  <2>2. CASE m > k
    <3>1. m - 1 \in 1 .. Len(queue) - 1 /\ m = old(m - 1)
      BY <2>2, <1>1
    <3> QED
      BY <3>1
  <2> QED
    BY <2>1, <2>2, <1>1
<1> HIDE DEF old
<1>5. \A i, j \in 1 .. Len(queue) :
        /\ queue[i].event = queue[j].event => i = j
        /\ ID(i) = ID(j) => i = j
  BY <1>1 DEF UniqueEvents, PostedOnce
<1>6. ASSUME NEW i \in 1 .. Len(queue) - 1, NEW j \in 1 .. Len(queue) - 1,
             i < j
      PROVE  /\ queue'[i].event # queue'[j].event
             /\ ID(i)' # ID(j)'
  <2>1. old(i) # old(j) /\ old(i) \in 1 .. Len(queue) /\ old(j) \in 1 .. Len(queue)
    BY <1>1, <1>2, <1>3, <1>6
  <2> QED
    BY <2>1, <1>2, <1>5
<1>7. ASSUME NEW i \in 1 .. Len(queue) - 1, NEW j \in 1 .. Len(queue) - 1,
             i < j
      PROVE  /\ queue'[i].when <= queue'[j].when
             /\ queue'[i].when = queue'[j].when => ID(i)' < ID(j)'
  <2>1. old(i) < old(j) /\ old(i) \in 1 .. Len(queue) /\ old(j) \in 1 .. Len(queue)
    BY <1>2, <1>3, <1>7
  <2> QED
    BY <2>1, <1>1, <1>2 DEF Ordered
<1>8. QueuedIDs' = QueuedIDs \ {ID(k)}
  <2>1. QueuedIDs' = {ID(j)' : j \in 1 .. Len(queue) - 1}
    BY <1>1 DEF QueuedIDs
  <2>2. ASSUME NEW x \in QueuedIDs'
        PROVE  x \in QueuedIDs \ {ID(k)}
    <3>1. PICK j \in 1 .. Len(queue) - 1 : x = ID(j)'
      BY <2>1
    <3>2. x = ID(old(j)) /\ old(j) \in 1 .. Len(queue) \ {k}
      BY <3>1, <1>2
    <3> QED
      BY <3>2, <1>1, <1>5 DEF QueuedIDs
  <2>3. ASSUME NEW x \in QueuedIDs \ {ID(k)}
        PROVE  x \in QueuedIDs'
    <3>1. PICK m \in 1 .. Len(queue) \ {k} : x = ID(m)
      BY <1>1 DEF QueuedIDs
    <3>2. PICK j \in 1 .. Len(queue) - 1 : m = old(j)
      BY <1>4
    <3> QED
      BY <3>1, <3>2, <2>1, <1>2
  <2> QED
    BY <2>2, <2>3
<1>9. Queued(StopEvent)' => Queued(StopEvent)
  BY <1>1, <1>2 DEF Queued
<1> QED
  BY <1>1, <1>6, <1>7, <1>8, <1>9 DEF Ordered

-----------------------------------------------------------------------------
(* Posting, by a client or by stop(), preserves the invariant.             *)

LEMMA PostKeepsIInv ==
  ASSUME IInv, NEW ev \in AnyEvent, NEW when \in Slot, ~Queued(ev),
         PostTimedEvent(ev, when),
         opc' \in {"idle", "joining"}, flush' \in BOOLEAN,
         stopID' \in 0 .. MaxPosts,
         Queued(StopEvent) \/ ev = StopEvent => opc' = "joining"
  PROVE  IInv'
<1> USE DEF IInv
<1>1. PICK k \in 1 .. Len(queue) + 1 : Inserted(k, ev, when)
  BY PostInserts
<1>2. /\ eventID' = [eventID EXCEPT ![ev] = nextID]
      /\ nextID <= MaxPosts /\ nextID' = nextID + 1
      /\ UNCHANGED <<running, stopped, now, wid, deadline, capped, wevent,
                     wfid, held, fired, cancelled, dropped>>
  BY DEF PostTimedEvent, history
<1>3. /\ \A i, j \in (DOMAIN queue)' :
            queue'[i].event = queue'[j].event => i = j
      /\ \A i, j \in (DOMAIN queue)' : ID(i)' = ID(j)' => i = j
      /\ Ordered'
      /\ QueuedIDs' = QueuedIDs \cup {nextID}
  BY <1>1, InsertedList
<1>4. /\ \A i \in 1 .. Len(queue) : ID(i) \in 1 .. nextID - 1
      /\ DOMAIN queue = 1 .. Len(queue)
      /\ Len(queue) \in Nat
      /\ nextID \in 1 .. MaxPosts + 1
      /\ MaxPosts \in Nat
  BY QueuedIDBounds, ConstantsAssumption
<1>5. /\ wpc' = Awakened(k = 1)
      /\ queue' \in Seq(Item)
      /\ DOMAIN queue' = 1 .. Len(queue) + 1
      /\ \A j \in 1 .. Len(queue) + 1 :
           /\ j < k => queue'[j] = queue[j] /\ ID(j)' = ID(j)
           /\ j = k => /\ queue'[j].event = ev
                       /\ ID(j)' = nextID
           /\ j > k => queue'[j] = queue[j - 1] /\ ID(j)' = ID(j - 1)
  BY <1>1, <1>4 DEF Inserted
<1>6. TypeOK'
  <2>1. eventID' \in [AnyEvent -> 0 .. MaxPosts] /\ nextID' \in 1 .. MaxPosts + 1
    BY <1>2, <1>4 DEF TypeOK
  <2>2. /\ wpc' \in {"none", "top", "emptyWait", "emptyWoken", "headWait",
                     "headWoken", "timedOut", "fire", "exited"}
        /\ wpc' = "none" <=> wpc = "none"
    BY <1>5 DEF Awakened, TypeOK
  <2> QED
    BY <2>1, <2>2, <1>2, <1>5 DEF TypeOK
<1>7. UniqueEvents'
  <2>1. ASSUME Queued(StopEvent)'
        PROVE  Queued(StopEvent) \/ ev = StopEvent
    <3>1. PICK j \in 1 .. Len(queue) + 1 : queue'[j].event = StopEvent
      BY <2>1, <1>5 DEF Queued
    <3>2. CASE j > k
      <4>1. j - 1 \in 1 .. Len(queue) /\ queue[j - 1].event = StopEvent
        BY <3>1, <3>2, <1>4, <1>5
      <4> QED
        BY <4>1, <1>4 DEF Queued
    <3>3. CASE j < k
      <4>1. j \in 1 .. Len(queue) /\ queue[j].event = StopEvent
        BY <3>1, <3>3, <1>4, <1>5
      <4> QED
        BY <4>1, <1>4 DEF Queued
    <3> QED
      BY <3>1, <3>2, <3>3, <1>4, <1>5
  <2> QED
    BY <2>1, <1>3 DEF UniqueEvents
<1>8. PostedOnce'
  <2>1. FiringIDs' = FiringIDs
    BY <1>2, <1>5 DEF FiringIDs, Awakened
  <2>2. 1 .. nextID' - 1 = (1 .. nextID - 1) \cup {nextID}
    BY <1>2, <1>4
  <2>3. nextID \notin 1 .. nextID - 1
    BY <1>4
  <2>4. PostedOnce
    OBVIOUS
  <2> HIDE DEF IInv
  <2> QED
    BY <2>1, <2>2, <2>3, <2>4, <1>2, <1>3 DEF PostedOnce
<1>9. Waiting'
  <2> SUFFICES ASSUME wpc' \in {"headWait", "headWoken", "timedOut"}
               PROVE  /\ wid' \in 1 .. nextID' - 1
                      /\ \A i \in (DOMAIN queue)' : ID(i)' = wid' =>
                           /\ \A j \in 1 .. i - 1 : ID(j)' > wid'
                           /\ ~capped' => queue'[i].when = deadline'
                      /\ wpc' = "timedOut" => now' >= deadline'
    BY DEF Waiting
  <2>1. /\ wpc \in {"headWait", "headWoken", "timedOut"}
        /\ wpc' = "timedOut" => wpc = "timedOut"
    BY <1>5 DEF Awakened, TypeOK
  <2>2. /\ wid \in 1 .. nextID - 1
        /\ \A i \in 1 .. Len(queue) : ID(i) = wid =>
             /\ \A j \in 1 .. i - 1 : ID(j) > wid
             /\ ~capped => queue[i].when = deadline
        /\ wpc = "timedOut" => now >= deadline
    BY <2>1, <1>4 DEF Waiting
  <2>3. ASSUME NEW i \in 1 .. Len(queue) + 1, ID(i)' = wid
        PROVE  /\ \A j \in 1 .. i - 1 : ID(j)' > wid
               /\ ~capped => queue'[i].when = deadline
    <3>1. i # k
      BY <2>2, <2>3, <1>4, <1>5
    <3>2. CASE i < k
      <4>1. i \in 1 .. Len(queue) /\ ID(i) = wid /\ queue'[i] = queue[i]
        BY <3>2, <2>3, <1>4, <1>5
      <4>2. \A j \in 1 .. i - 1 : j < k /\ j \in 1 .. Len(queue) + 1
        BY <3>2, <1>4
      <4> QED
        BY <4>1, <4>2, <2>2, <1>5
    <3>3. CASE i > k
      <4>1. /\ i - 1 \in 1 .. Len(queue) /\ ID(i - 1) = wid
            /\ queue'[i] = queue[i - 1]
        BY <3>3, <2>3, <1>4, <1>5
      <4>2. ASSUME NEW j \in 1 .. i - 1
            PROVE  ID(j)' > wid
        <5>1. CASE j = k
          BY <5>1, <2>2, <1>4, <1>5
        <5>2. CASE j < k
          <6>1. j \in 1 .. (i - 1) - 1 /\ j \in 1 .. Len(queue) + 1
            BY <5>2, <3>3, <1>4
          <6> QED
            BY <6>1, <5>2, <4>1, <2>2, <1>5
        <5>3. CASE j > k
          <6>1. j - 1 \in 1 .. (i - 1) - 1 /\ j \in 1 .. Len(queue) + 1
            BY <5>3, <3>3, <1>4
          <6> QED
            BY <6>1, <5>3, <4>1, <2>2, <1>5
        <5> QED
          BY <5>1, <5>2, <5>3, <1>4
      <4> QED
        BY <4>1, <4>2, <2>2
    <3> QED
      BY <3>1, <3>2, <3>3, <1>4
  <2>4. now' = now /\ deadline' = deadline /\ capped' = capped /\ wid' = wid
    BY <1>2
  <2>5. wid \in 1 .. nextID' - 1
    BY <2>2, <1>2, <1>4
  <2> QED
    BY <2>1, <2>2, <2>3, <2>4, <2>5, <1>5
<1> QED
  BY <1>3, <1>6, <1>7, <1>8, <1>9

-----------------------------------------------------------------------------
\* An event taken off the list has the id 0, which no posting has.
LEMMA ClearedID ==
  ASSUME TypeOK, NEW ev, eventID' = [eventID EXCEPT ![ev] = 0]
  PROVE  eventID' \in [AnyEvent -> 0 .. MaxPosts]
<1>1. eventID \in [AnyEvent -> 0 .. MaxPosts] /\ 0 \in 0 .. MaxPosts
  BY ConstantsAssumption DEF TypeOK
<1> HIDE DEF TypeOK
<1> QED
  BY <1>1

-----------------------------------------------------------------------------
(* Cancelling preserves the invariant.                                     *)

LEMMA CancelKeepsIInv ==
  ASSUME IInv, NEW c \in Client, CancelEvent(c)
  PROVE  IInv'
<1> USE DEF IInv
<1>1. /\ held[c] # 0 /\ held[c] \in 0 .. MaxPosts
      /\ held' = [held EXCEPT ![c] = 0]
      /\ UNCHANGED <<nextID, running, stopped, now, wid, deadline, capped,
                     wevent, wfid, opc, flush, stopID, fired, dropped>>
  BY DEF CancelEvent, ownerVars, TypeOK
<1>2. CASE UNCHANGED <<queue, eventID, wpc, cancelled>>
  <2>1. /\ QueuedIDs' = QueuedIDs /\ FiringIDs' = FiringIDs
        /\ Queued(StopEvent)' = Queued(StopEvent)
        /\ \A i : ID(i)' = ID(i)
    BY <1>1, <1>2 DEF QueuedIDs, FiringIDs, Queued, ID
  <2>2. TypeOK'
    BY <1>1, <1>2, ConstantsAssumption DEF TypeOK
  <2>3. UniqueEvents' /\ Ordered' /\ Waiting'
    BY <1>1, <1>2, <2>1 DEF UniqueEvents, Ordered, Waiting
  <2>4. PostedOnce'
    BY <1>1, <1>2, <2>1 DEF PostedOnce
  <2> QED
    BY <2>2, <2>3, <2>4
<1>3. ASSUME NEW k \in DOMAIN queue,
             FirstWithID(k, held[c]),
             queue' = Erased(k),
             eventID' = [eventID EXCEPT ![queue[k].event] = 0],
             wpc' = AwakenedByCancel(k = 1),
             cancelled' = cancelled \cup {held[c]}
      PROVE  IInv'
  <2>1. ID(k) = held[c] /\ Removed(k)
    BY <1>3, EraseRemoves DEF FirstWithID
  <2>2. /\ \A i, j \in (DOMAIN queue)' :
              queue'[i].event = queue'[j].event => i = j
        /\ \A i, j \in (DOMAIN queue)' : ID(i)' = ID(j)' => i = j
        /\ Ordered'
        /\ QueuedIDs' = QueuedIDs \ {held[c]}
        /\ Queued(StopEvent)' => Queued(StopEvent)
    BY <2>1, RemovedList
  <2>3. /\ wpc' = "fire" <=> wpc = "fire"
        /\ wpc' = "none" <=> wpc = "none"
        /\ wpc' \in {"none", "top", "emptyWait", "emptyWoken", "headWait",
                     "headWoken", "timedOut", "fire", "exited"}
        /\ wpc' \in {"headWait", "headWoken", "timedOut"} =>
             /\ wpc \in {"headWait", "headWoken", "timedOut"}
             /\ wpc' = "timedOut" => wpc = "timedOut"
    BY <1>3 DEF AwakenedByCancel, TypeOK
  <2>4. TypeOK'
    <3>1. eventID' \in [AnyEvent -> 0 .. MaxPosts]
      BY <1>3, ClearedID
    <3>2. held[c] \in 1 .. MaxPosts
      BY <1>1
    <3>3. cancelled' \subseteq 1 .. MaxPosts
      BY <3>2, <1>3 DEF TypeOK
    <3>4. held' \in [Client -> 0 .. MaxPosts]
      BY <1>1, ConstantsAssumption DEF TypeOK
    <3>5. queue' \in Seq(Item)
      BY <2>1 DEF Removed
    <3> QED
      BY <3>1, <3>3, <3>4, <3>5, <1>1, <2>3 DEF TypeOK
  <2>5. UniqueEvents'
    BY <2>2, <1>1 DEF UniqueEvents
  <2>6. PostedOnce'
    <3>1. FiringIDs' = FiringIDs
      BY <1>1, <2>3 DEF FiringIDs
    <3>2. held[c] \in QueuedIDs
      BY <1>3, <2>1 DEF QueuedIDs
    <3>3. PostedOnce
      OBVIOUS
    <3> HIDE DEF IInv
    <3> QED
      BY <3>1, <3>2, <3>3, <1>1, <1>3, <2>2 DEF PostedOnce
  <2>7. Waiting'
    <3> SUFFICES ASSUME wpc \in {"headWait", "headWoken", "timedOut"},
                        wpc' = "timedOut" => wpc = "timedOut"
                 PROVE  /\ wid' \in 1 .. nextID' - 1
                        /\ \A i \in (DOMAIN queue)' : ID(i)' = wid' =>
                             /\ \A j \in 1 .. i - 1 : ID(j)' > wid'
                             /\ ~capped' => queue'[i].when = deadline'
                        /\ wpc' = "timedOut" => now' >= deadline'
      BY <2>3 DEF Waiting
    <3>1. /\ DOMAIN queue = 1 .. Len(queue)
          /\ Len(queue) \in Nat
          /\ k \in 1 .. Len(queue)
          /\ DOMAIN queue' = 1 .. Len(queue) - 1
          /\ \A j \in 1 .. Len(queue) - 1 :
               /\ j < k => queue'[j] = queue[j] /\ ID(j)' = ID(j)
               /\ j >= k => queue'[j] = queue[j + 1] /\ ID(j)' = ID(j + 1)
      BY <2>1, QueuedIDBounds DEF Removed
    <3>2. /\ wid \in 1 .. nextID - 1
          /\ \A i \in 1 .. Len(queue) : ID(i) = wid =>
               /\ \A j \in 1 .. i - 1 : ID(j) > wid
               /\ ~capped => queue[i].when = deadline
          /\ wpc = "timedOut" => now >= deadline
      BY <3>1 DEF Waiting
    <3>3. ASSUME NEW i \in 1 .. Len(queue) - 1, ID(i)' = wid
          PROVE  /\ \A j \in 1 .. i - 1 : ID(j)' > wid
                 /\ ~capped => queue'[i].when = deadline
      <4>1. CASE i < k
        <5>1. i \in 1 .. Len(queue) /\ ID(i) = wid /\ queue'[i] = queue[i]
          BY <4>1, <3>1, <3>3
        <5>2. \A j \in 1 .. i - 1 : j \in 1 .. Len(queue) - 1 /\ j < k
          BY <4>1, <3>1
        <5> QED
          BY <5>1, <5>2, <3>1, <3>2
      <4>2. CASE i >= k
        <5>1. /\ i + 1 \in 1 .. Len(queue) /\ ID(i + 1) = wid
              /\ queue'[i] = queue[i + 1]
          BY <4>2, <3>1, <3>3
        <5>2. ASSUME NEW j \in 1 .. i - 1
              PROVE  ID(j)' > wid
          <6>1. /\ j \in 1 .. Len(queue) - 1
                /\ j \in 1 .. (i + 1) - 1 /\ j + 1 \in 1 .. (i + 1) - 1
            BY <3>1
          <6> QED
            BY <6>1, <5>1, <3>1, <3>2
        <5> QED
          BY <5>1, <5>2, <3>2
      <4> QED
        BY <4>1, <4>2, <3>1
    <3> QED
      BY <3>1, <3>2, <3>3, <1>1
  <2> QED
    BY <2>2, <2>4, <2>5, <2>6, <2>7
<1> QED
  BY <1>2, <1>3 DEF CancelEvent

-----------------------------------------------------------------------------
(* The worker preserves the invariant.                                     *)

\* removeEventFromQueue_l(), from whichever place in threadEntry().
LEMMA TakeKeepsIInv ==
  ASSUME IInv, NEW id, Take(id), wpc \notin {"fire", "none"},
         UNCHANGED workerFrame, UNCHANGED <<deadline, capped>>,
         wid' \in 0 .. MaxPosts
  PROVE  IInv'
<1> USE DEF IInv
<1>1. UNCHANGED <<nextID, running, stopped, now, opc, flush, stopID, held,
                  fired, cancelled, dropped>>
  BY DEF workerFrame, ownerVars, history
<1>2. CASE wpc' = "top" /\ UNCHANGED <<queue, wevent, wfid, eventID>>
  <2>1. /\ QueuedIDs' = QueuedIDs
        /\ Queued(StopEvent)' = Queued(StopEvent)
        /\ \A i : ID(i)' = ID(i)
        /\ FiringIDs' = FiringIDs
    BY <1>1, <1>2 DEF QueuedIDs, Queued, ID, FiringIDs
  <2>2. TypeOK'
    BY <1>1, <1>2 DEF TypeOK
  <2>3. UniqueEvents' /\ Ordered' /\ Waiting'
    BY <1>1, <1>2, <2>1 DEF UniqueEvents, Ordered, Waiting
  <2>4. PostedOnce'
    BY <1>1, <1>2, <2>1 DEF PostedOnce
  <2> QED
    BY <2>2, <2>3, <2>4
<1>3. ASSUME NEW k \in DOMAIN queue,
             FirstWithID(k, id),
             queue' = Erased(k),
             wevent' = queue[k].event,
             wfid' = id,
             eventID' = [eventID EXCEPT ![queue[k].event] = 0],
             wpc' = "fire"
      PROVE  IInv'
  <2>1. ID(k) = id /\ Removed(k)
    BY <1>3, EraseRemoves DEF FirstWithID
  <2>2. /\ \A i, j \in (DOMAIN queue)' :
              queue'[i].event = queue'[j].event => i = j
        /\ \A i, j \in (DOMAIN queue)' : ID(i)' = ID(j)' => i = j
        /\ Ordered'
        /\ QueuedIDs' = QueuedIDs \ {id}
        /\ Queued(StopEvent)' => Queued(StopEvent)
    BY <2>1, RemovedList
  <2>3. id \in 1 .. MaxPosts
    <3>1. k \in 1 .. Len(queue) /\ nextID \in 1 .. MaxPosts + 1
      BY <1>3, QueuedIDBounds
    <3>2. ID(k) \in 1 .. nextID - 1
      BY <3>1, QueuedIDBounds
    <3> QED
      BY <2>1, <3>1, <3>2, ConstantsAssumption
  <2>4. queue[k] \in Item
    BY <1>3 DEF TypeOK
  <2>5. TypeOK'
    <3>1. eventID' \in [AnyEvent -> 0 .. MaxPosts]
      BY <1>3, ClearedID
    <3>2. wevent' \in AnyEvent
      BY <1>3, <2>4 DEF Item
    <3>3. queue' \in Seq(Item)
      BY <2>1 DEF Removed
    <3> QED
      BY <3>1, <3>2, <3>3, <1>1, <1>3, <2>3 DEF TypeOK
  <2>6. UniqueEvents'
    BY <2>2, <1>1 DEF UniqueEvents
  <2>7. PostedOnce'
    <3>1. FiringIDs = {} /\ FiringIDs' = {id}
      BY <1>3 DEF FiringIDs
    <3>2. id \in QueuedIDs
      BY <1>3, <2>1 DEF QueuedIDs
    <3>3. PostedOnce
      OBVIOUS
    <3> HIDE DEF IInv
    <3> QED
      BY <3>1, <3>2, <3>3, <1>1, <2>2 DEF PostedOnce
  <2>8. Waiting'
    BY <1>3 DEF Waiting
  <2> QED
    BY <2>2, <2>5, <2>6, <2>7, <2>8
<1> QED
  BY <1>2, <1>3 DEF Take

\* A step that leaves the list, the ids and the history alone.
LEMMA QuietStepKeepsIInv ==
  ASSUME IInv, TypeOK', Waiting', FiringIDs' = FiringIDs,
         UNCHANGED <<queue, eventID, nextID, opc, fired, cancelled, dropped>>
  PROVE  IInv'
<1>1. /\ QueuedIDs' = QueuedIDs
      /\ Queued(StopEvent)' = Queued(StopEvent)
      /\ \A i : ID(i)' = ID(i)
  BY DEF QueuedIDs, Queued, ID
<1>2. UniqueEvents' /\ Ordered'
  BY <1>1 DEF IInv, UniqueEvents, Ordered
<1>3. PostedOnce'
  BY <1>1 DEF IInv, PostedOnce
<1> QED
  BY <1>2, <1>3 DEF IInv

\* One pass of the inner loop: back to the top, an event taken, or a wait.
LEMMA ScanKeepsIInv ==
  ASSUME IInv, Scan, wpc \in {"top", "emptyWoken", "headWoken", "timedOut"},
         UNCHANGED workerFrame
  PROVE  IInv'
<1>1. UNCHANGED <<nextID, running, stopped, now, opc, flush, stopID, held,
                  fired, cancelled, dropped>>
  BY DEF workerFrame, ownerVars, history
<1>2. TypeOK /\ PostedOnce
  BY DEF IInv
<1>3. CASE /\ wpc' = "top"
           /\ UNCHANGED <<queue, eventID, wid, deadline, capped, wevent, wfid>>
  <2>1. TypeOK' /\ Waiting' /\ FiringIDs' = FiringIDs
    BY <1>1, <1>2, <1>3 DEF TypeOK, Waiting, FiringIDs
  <2> QED
    BY <2>1, <1>1, <1>3, QuietStepKeepsIInv
<1>4. CASE /\ queue # <<>>
           /\ wid' = ID(1)
           /\ Take(ID(1))
           /\ UNCHANGED <<deadline, capped>>
  <2>1. ID(1) \in 0 .. MaxPosts
    <3>1. 1 \in DOMAIN queue /\ queue[1] \in Item
      BY <1>2, <1>4 DEF TypeOK
    <3> QED
      BY <3>1, <1>2 DEF TypeOK, ID, Item
  <2> QED
    BY <2>1, <1>4, TakeKeepsIInv
<1>5. CASE /\ queue # <<>>
           /\ wid' = ID(1)
           /\ ~Immediate(queue[1].when)
           /\ queue[1].when > now
           /\ capped' = (queue[1].when - now > MaxTimeout)
           /\ deadline' = IF capped' THEN now + MaxTimeout ELSE queue[1].when
           /\ wpc' = "headWait"
           /\ UNCHANGED <<queue, eventID, wevent, wfid>>
  <2>1. /\ 1 \in 1 .. Len(queue) /\ DOMAIN queue = 1 .. Len(queue)
        /\ queue[1] \in Item
    BY <1>2, <1>5 DEF TypeOK
  <2>2. ID(1) \in 1 .. nextID - 1 /\ nextID \in 1 .. MaxPosts + 1
    BY <2>1, <1>2, QueuedIDBounds
  <2>3. deadline' \in 0 .. MaxTime
    <3>1. now \in 0 .. MaxTime
      BY <1>2 DEF TypeOK
    <3>2. queue[1].when \in 0 .. MaxTime
      BY <2>1, <1>5, ConstantsAssumption
         DEF Immediate, Item, Slot, EarliestSlot, BackSlot
    <3>3. CASE queue[1].when - now > MaxTimeout
      <4>1. deadline' = now + MaxTimeout
        BY <3>3, <1>5
      <4> QED
        BY <3>1, <3>2, <3>3, <4>1, ConstantsAssumption
    <3>4. CASE ~(queue[1].when - now > MaxTimeout)
      <4>1. deadline' = queue[1].when
        BY <3>4, <1>5
      <4> QED
        BY <3>2, <4>1
    <3> QED
      BY <3>3, <3>4
  <2>4. TypeOK'
    <3>1. wid' \in 0 .. MaxPosts
      BY <1>5, <2>2, ConstantsAssumption
    <3>2. capped' \in BOOLEAN
      BY <1>5
    <3> QED
      BY <3>1, <3>2, <2>3, <1>1, <1>2, <1>5 DEF TypeOK
  <2>5. Waiting'
    <3>1. \A i \in DOMAIN queue : ID(i) = ID(1) => i = 1
      BY <2>1, <1>2 DEF PostedOnce
    <3>2. /\ \A i : ID(i)' = ID(i)
          /\ ~capped' => deadline' = queue[1].when
      BY <1>5 DEF ID
    <3> QED
      BY <3>1, <3>2, <2>2, <1>1, <1>5 DEF Waiting
  <2>6. FiringIDs' = FiringIDs
    BY <1>5 DEF FiringIDs
  <2> QED
    BY <2>4, <2>5, <2>6, <1>1, <1>5, QuietStepKeepsIInv
<1> QED
  BY <1>3, <1>4, <1>5 DEF Scan

LEMMA WorkerKeepsIInv ==
  ASSUME IInv, Worker
  PROVE  IInv'
<1>1. TypeOK /\ PostedOnce /\ Waiting
  BY DEF IInv
<1>2. CASE Lock
  <2>1. CASE /\ wpc' \in {"exited", "emptyWait"}
             /\ UNCHANGED <<queue, eventID, wid, deadline, capped, wevent, wfid>>
    <3>1. TypeOK' /\ Waiting' /\ FiringIDs' = FiringIDs
      BY <1>1, <1>2, <2>1 DEF Lock, workerFrame, ownerVars, history, TypeOK,
         Waiting, FiringIDs
    <3> QED
      BY <3>1, <1>2, <2>1, QuietStepKeepsIInv
         DEF Lock, workerFrame, ownerVars, history
  <2>2. CASE Scan
    BY <1>2, <2>2, ScanKeepsIInv DEF Lock
  <2> QED
    BY <1>2, <2>1, <2>2 DEF Lock
<1>3. CASE EmptyWoken
  <2>1. CASE /\ wpc' = "emptyWait"
             /\ UNCHANGED <<queue, eventID, wid, deadline, capped, wevent, wfid>>
    <3>1. TypeOK' /\ Waiting' /\ FiringIDs' = FiringIDs
      BY <1>1, <1>3, <2>1 DEF EmptyWoken, workerFrame, ownerVars, history,
         TypeOK, Waiting, FiringIDs
    <3> QED
      BY <3>1, <1>3, <2>1, QuietStepKeepsIInv
         DEF EmptyWoken, workerFrame, ownerVars, history
  <2>2. CASE Scan
    BY <1>3, <2>2, ScanKeepsIInv DEF EmptyWoken
  <2> QED
    BY <1>3, <2>1, <2>2 DEF EmptyWoken
<1>4. CASE HeadWoken
  BY <1>4, ScanKeepsIInv DEF HeadWoken
<1>5. CASE WaitTimesOut
  <2>1. \A i : ID(i)' = ID(i)
    BY <1>5 DEF WaitTimesOut, ID
  <2>2. TypeOK' /\ FiringIDs' = FiringIDs
    BY <1>1, <1>5 DEF WaitTimesOut, workerFrame, ownerVars, history, TypeOK,
       FiringIDs
  <2>3. Waiting'
    BY <1>1, <1>5, <2>1 DEF WaitTimesOut, workerFrame, Waiting
  <2> QED
    BY <2>2, <2>3, <1>5, QuietStepKeepsIInv
       DEF WaitTimesOut, workerFrame, ownerVars, history
<1>6. CASE TimedOut
  <2>1. CASE Take(wid) /\ UNCHANGED <<wid, deadline, capped>>
    <3>1. wid' \in 0 .. MaxPosts
      BY <1>1, <2>1 DEF TypeOK
    <3> QED
      BY <3>1, <1>6, <2>1, TakeKeepsIInv DEF TimedOut
  <2>2. CASE Scan
    BY <1>6, <2>2, ScanKeepsIInv DEF TimedOut
  <2> QED
    BY <1>6, <2>1, <2>2 DEF TimedOut
<1>7. CASE Fire
  <2>1. /\ wpc = "fire" /\ wpc' = "top"
        /\ fired' = fired \cup {wfid}
        /\ UNCHANGED <<queue, eventID, nextID, running, now, wid, deadline,
                       capped, wevent, wfid, opc, flush, stopID, held,
                       cancelled, dropped>>
    BY <1>7 DEF Fire, ownerVars
  <2>2. /\ QueuedIDs' = QueuedIDs
        /\ Queued(StopEvent)' = Queued(StopEvent)
        /\ \A i : ID(i)' = ID(i)
        /\ FiringIDs = {wfid} /\ FiringIDs' = {}
    BY <2>1 DEF QueuedIDs, Queued, ID, FiringIDs
  <2>3. wfid \in 1 .. MaxPosts
    <3>1. wfid \in 1 .. nextID - 1
      BY <1>1, <2>2 DEF PostedOnce
    <3> QED
      BY <3>1, <1>1, ConstantsAssumption DEF TypeOK
  <2>4. TypeOK'
    <3>1. stopped' \in BOOLEAN
      BY <1>7, <1>1 DEF Fire, StoppedAfter, TypeOK
    <3>2. fired' \subseteq 1 .. MaxPosts
      BY <2>1, <2>3, <1>1 DEF TypeOK
    <3> QED
      BY <3>1, <3>2, <2>1, <1>1 DEF TypeOK
  <2>5. UniqueEvents' /\ Ordered' /\ Waiting'
    BY <2>1, <2>2 DEF IInv, UniqueEvents, Ordered, Waiting
  <2>6. PostedOnce'
    BY <1>1, <2>1, <2>2 DEF PostedOnce
  <2> QED
    BY <2>4, <2>5, <2>6 DEF IInv
<1> QED
  BY <1>2, <1>3, <1>4, <1>5, <1>6, <1>7 DEF Worker

-----------------------------------------------------------------------------
(* The invariance theorems.                                                *)

LEMMA InitIInv == Init => IInv
<1> SUFFICES ASSUME Init PROVE IInv
  OBVIOUS
<1>1. queue = <<>> /\ DOMAIN queue = {} /\ nextID = 1 /\ wpc = "none"
  BY DEF Init
<1>2. QueuedIDs = {} /\ FiringIDs = {} /\ ~Queued(StopEvent)
  BY <1>1 DEF QueuedIDs, FiringIDs, Queued
<1>3. TypeOK
  <2>1. 0 \in 0 .. MaxPosts /\ 0 \in 0 .. MaxTime /\ 1 \in 1 .. MaxPosts + 1
    BY ConstantsAssumption
  <2>2. queue \in Seq(Item)
    BY <1>1
  <2>3. eventID \in [AnyEvent -> 0 .. MaxPosts]
    BY <2>1 DEF Init
  <2>4. held \in [Client -> 0 .. MaxPosts]
    BY <2>1 DEF Init
  <2>5. wevent \in AnyEvent
    BY DEF Init, AnyEvent
  <2> QED
    BY <2>1, <2>2, <2>3, <2>4, <2>5 DEF Init, TypeOK
<1>4. PostedOnce
  BY <1>1, <1>2 DEF Init, PostedOnce
<1>5. UniqueEvents /\ Ordered /\ Waiting
  BY <1>1, <1>2 DEF UniqueEvents, Ordered, Waiting
<1> QED
  BY <1>3, <1>4, <1>5 DEF IInv

LEMMA NextKeepsIInv == IInv /\ [Next]_vars => IInv'
<1> SUFFICES ASSUME IInv, [Next]_vars PROVE IInv'
  OBVIOUS
<1>1. TypeOK /\ PostedOnce /\ UniqueEvents /\ Waiting
  BY DEF IInv
<1>2. ASSUME NEW ev \in Event, NEW when \in Slot, PostEvent(ev, when)
      PROVE  IInv'
  <2>1. ev # StopEvent /\ ev \in AnyEvent /\ ~Queued(ev)
    BY <1>2, ConstantsAssumption DEF PostEvent, AnyEvent
  <2>2. UNCHANGED <<opc, flush, stopID>>
    BY <1>2 DEF PostEvent, ownerVars
  <2>3. /\ opc' \in {"idle", "joining"}
        /\ flush' \in BOOLEAN
        /\ stopID' \in 0 .. MaxPosts
        /\ Queued(StopEvent) \/ ev = StopEvent => opc' = "joining"
    BY <2>1, <2>2, <1>1 DEF TypeOK, UniqueEvents
  <2>4. PostTimedEvent(ev, when)
    BY <1>2 DEF PostEvent
  <2> QED
    BY <2>1, <2>3, <2>4, PostKeepsIInv
<1>3. ASSUME NEW c \in Client, NEW ev \in Event, ReadEventID(c, ev)
      PROVE  IInv'
  <2>1. held' \in [Client -> 0 .. MaxPosts]
    BY <1>1, <1>3 DEF ReadEventID, TypeOK, AnyEvent
  <2>2. UNCHANGED <<queue, eventID, nextID, running, stopped, now, wpc, wid,
                    deadline, capped, wevent, wfid, opc, flush, stopID,
                    fired, cancelled, dropped>>
    BY <1>3 DEF ReadEventID, workerVars, ownerVars, history
  <2>3. \A i : ID(i)' = ID(i)
    BY <2>2 DEF ID
  <2>4. TypeOK' /\ Waiting' /\ FiringIDs' = FiringIDs
    BY <1>1, <2>1, <2>2, <2>3 DEF TypeOK, Waiting, FiringIDs
  <2> QED
    BY <2>2, <2>4, QuietStepKeepsIInv
<1>4. ASSUME NEW c \in Client, CancelEvent(c)
      PROVE  IInv'
  BY <1>4, CancelKeepsIInv
<1>5. CASE Start
  <2>1. TypeOK' /\ Waiting' /\ FiringIDs' = FiringIDs
    BY <1>1, <1>5 DEF Start, ownerVars, history, TypeOK, Waiting, FiringIDs
  <2> QED
    BY <2>1, <1>5, QuietStepKeepsIInv DEF Start, ownerVars, history
<1>6. ASSUME NEW fl \in BOOLEAN, Stop(fl)
      PROVE  IInv'
  <2>1. /\ StopEvent \in AnyEvent /\ StopSlot(fl) \in Slot
        /\ ~Queued(StopEvent)
    BY <1>1, <1>6, ConstantsAssumption
       DEF Stop, AnyEvent, StopSlot, Slot, EarliestSlot, BackSlot, UniqueEvents
  <2>2. /\ opc' = "joining" /\ flush' \in BOOLEAN
        /\ stopID' \in 0 .. MaxPosts
        /\ PostTimedEvent(StopEvent, StopSlot(fl))
    BY <1>1, <1>6 DEF Stop, PostTimedEvent, TypeOK
  <2> QED
    BY <2>1, <2>2, PostKeepsIInv
<1>7. CASE StopReturns
  <2>1. /\ queue' = <<>> /\ wpc = "exited" /\ wpc' = "none"
        /\ dropped' = dropped \cup QueuedIDs
        /\ running' = FALSE /\ opc' = "idle"
        /\ UNCHANGED <<eventID, nextID, stopped, now, wid, deadline, capped,
                       wevent, wfid, flush, stopID, held, fired, cancelled>>
    BY <1>7 DEF StopReturns
  <2>2. /\ QueuedIDs' = {} /\ FiringIDs = {} /\ FiringIDs' = {}
        /\ ~Queued(StopEvent)' /\ (DOMAIN queue)' = {}
    BY <2>1 DEF QueuedIDs, FiringIDs, Queued
  <2>3. QueuedIDs \subseteq 1 .. MaxPosts
    <3>1. QueuedIDs \subseteq 1 .. nextID - 1
      BY <1>1 DEF PostedOnce
    <3> QED
      BY <3>1, <1>1, ConstantsAssumption DEF TypeOK
  <2>4. TypeOK'
    <3>1. queue' \in Seq(Item)
      BY <2>1
    <3>2. dropped' \subseteq 1 .. MaxPosts
      BY <2>1, <2>3, <1>1 DEF TypeOK
    <3> QED
      BY <2>1, <3>1, <3>2, <1>1 DEF TypeOK
  <2>5. PostedOnce'
    BY <2>1, <2>2, <1>1 DEF PostedOnce
  <2>6. UniqueEvents' /\ Ordered' /\ Waiting'
    BY <2>1, <2>2 DEF UniqueEvents, Ordered, Waiting
  <2> QED
    BY <2>4, <2>5, <2>6 DEF IInv
<1>8. CASE Worker
  BY <1>8, WorkerKeepsIInv
<1>9. CASE SpuriousWakeup
  <2>1. \A i : ID(i)' = ID(i)
    BY <1>9 DEF SpuriousWakeup, ID
  <2>2. TypeOK' /\ FiringIDs' = FiringIDs
    BY <1>1, <1>9 DEF SpuriousWakeup, workerFrame, ownerVars, history, TypeOK,
       FiringIDs
  <2>3. Waiting'
    BY <1>1, <1>9, <2>1 DEF SpuriousWakeup, workerFrame, Waiting
  <2> QED
    BY <2>2, <2>3, <1>9, QuietStepKeepsIInv
       DEF SpuriousWakeup, workerFrame, ownerVars, history
<1>10. CASE Tick
  <2>1. /\ now' = now + 1 /\ now < MaxTime
        /\ UNCHANGED <<queue, eventID, nextID, running, stopped, wpc, wid,
                       deadline, capped, wevent, wfid, opc, flush, stopID,
                       held, fired, cancelled, dropped>>
    BY <1>10 DEF Tick, workerVars, ownerVars, history
  <2>2. \A i : ID(i)' = ID(i)
    BY <2>1 DEF ID
  <2>3. TypeOK' /\ FiringIDs' = FiringIDs
    BY <1>1, <2>1, ConstantsAssumption DEF TypeOK, FiringIDs
  <2>4. Waiting'
    <3>1. now >= deadline => now' >= deadline
      BY <1>1, <2>1, ConstantsAssumption DEF TypeOK
    <3> QED
      BY <1>1, <2>1, <2>2, <3>1 DEF Waiting
  <2> QED
    BY <2>1, <2>3, <2>4, QuietStepKeepsIInv
<1>11. CASE UNCHANGED vars
  <2>1. UNCHANGED <<queue, eventID, nextID, running, stopped, now, wpc, wid,
                    deadline, capped, wevent, wfid, opc, flush, stopID, held,
                    fired, cancelled, dropped>>
    BY <1>11 DEF vars, workerVars, ownerVars, history
  <2>2. \A i : ID(i)' = ID(i)
    BY <2>1 DEF ID
  <2>3. TypeOK' /\ Waiting' /\ FiringIDs' = FiringIDs
    BY <1>1, <2>1, <2>2 DEF TypeOK, Waiting, FiringIDs
  <2> QED
    BY <2>1, <2>3, QuietStepKeepsIInv
<1> QED
  BY <1>2, <1>3, <1>4, <1>5, <1>6, <1>7, <1>8, <1>9, <1>10, <1>11 DEF Next

LEMMA SpecIInv == Spec => []IInv
  BY InitIInv, NextKeepsIInv, PTL DEF Spec

\* Every variable keeps its type, whatever the events, clients and bounds:
\* the list of DSPGTimedEventQueue holds well-formed items, ids stay within
\* the postings made, and the worker thread exists exactly while mRunning.
THEOREM TypeCorrect == Spec => []TypeOK
<1>1. IInv => TypeOK
  BY DEF IInv
<1> QED
  BY <1>1, SpecIInv, PTL

\* Each posting to DSPGTimedEventQueue ends at most once and in one way: it
\* is fired, cancelled or dropped by stop(), and a cancelled one never fires.
THEOREM EventsEndOnce == Spec => []PostedOnce
<1>1. IInv => PostedOnce
  BY DEF IInv
<1> QED
  BY <1>1, SpecIInv, PTL

-----------------------------------------------------------------------------
(* The worker does not oversleep.                                          *)

\* A step that puts the worker to sleep, or leaves it asleep with the list
\* as it was.
LEMMA SleepStep ==
  ASSUME IInv, NoOversleep, queue' = queue, deadline' = deadline,
         wpc' = wpc \/ wpc' \notin {"emptyWait", "headWait"}
  PROVE  NoOversleep'
BY DEF NoOversleep, Immediate

LEMMA ScanSleeps ==
  ASSUME IInv, Scan, wpc \in {"top", "emptyWoken", "headWoken", "timedOut"}
  PROVE  NoOversleep'
<1>1. CASE wpc' # "headWait"
  BY <1>1 DEF Scan, Take, NoOversleep
<1>2. CASE wpc' = "headWait"
  <2>1. /\ queue # <<>>
        /\ ~Immediate(queue[1].when)
        /\ queue[1].when > now
        /\ capped' = (queue[1].when - now > MaxTimeout)
        /\ deadline' = IF capped' THEN now + MaxTimeout ELSE queue[1].when
        /\ queue' = queue
    BY <1>2 DEF Scan, Take
  <2>2. queue[1].when \in Int /\ now \in Int /\ MaxTimeout \in Int
    <3>1. queue[1] \in Item /\ now \in 0 .. MaxTime
      BY <2>1 DEF IInv, TypeOK
    <3> QED
      BY <3>1, ConstantsAssumption DEF Item, Slot, EarliestSlot, BackSlot
  <2>3. deadline' <= queue[1].when
    <3>1. CASE queue[1].when - now > MaxTimeout
      <4>1. deadline' = now + MaxTimeout
        BY <3>1, <2>1
      <4> QED
        BY <3>1, <4>1, <2>2
    <3>2. CASE ~(queue[1].when - now > MaxTimeout)
      <4>1. deadline' = queue[1].when
        BY <3>2, <2>1
      <4> QED
        BY <4>1, <2>2
    <3> QED
      BY <3>1, <3>2
  <2>4. ~Immediate(queue[1].when)'
    BY <2>1 DEF Immediate
  <2> QED
    BY <1>2, <2>1, <2>3, <2>4 DEF NoOversleep
<1> QED
  BY <1>1, <1>2

LEMMA PostWakes ==
  ASSUME IInv, NoOversleep, NEW ev \in AnyEvent, NEW when \in Slot,
         ~Queued(ev), PostTimedEvent(ev, when)
  PROVE  NoOversleep'
<1>1. PICK k \in 1 .. Len(queue) + 1 : Inserted(k, ev, when)
  BY PostInserts DEF IInv
<1>2. deadline' = deadline /\ Len(queue) \in Nat
  BY DEF PostTimedEvent, IInv, TypeOK
<1>3. wpc' # "emptyWait"
  BY <1>1 DEF Inserted, Awakened
<1>4. ASSUME wpc' = "headWait"
      PROVE  wpc = "headWait" /\ k # 1
  BY <1>1, <1>4 DEF Inserted, Awakened
<1>5. ASSUME k # 1
      PROVE  queue # <<>> /\ queue'[1] = queue[1]
  BY <1>1, <1>2, <1>5 DEF Inserted
<1> QED
  BY <1>2, <1>3, <1>4, <1>5 DEF NoOversleep, Immediate

LEMMA CancelWakes ==
  ASSUME IInv, NoOversleep, NEW c \in Client, CancelEvent(c)
  PROVE  NoOversleep'
<1>1. CASE UNCHANGED <<queue, eventID, wpc, cancelled>>
  BY <1>1, SleepStep DEF CancelEvent
<1>2. ASSUME NEW k \in DOMAIN queue,
             queue' = Erased(k),
             eventID' = [eventID EXCEPT ![queue[k].event] = 0],
             wpc' = AwakenedByCancel(k = 1)
      PROVE  NoOversleep'
  <2>1. Removed(k) /\ deadline' = deadline /\ Len(queue) \in Nat
    <3>1. TypeOK /\ UniqueEvents
      BY DEF IInv
    <3>2. Removed(k)
      BY <3>1, <1>2, EraseRemoves
    <3> QED
      BY <3>1, <3>2 DEF CancelEvent, TypeOK
  <2>2. queue # <<>>
    BY <1>2
  <2>3. wpc' # "emptyWait"
    BY <1>2, <2>2 DEF AwakenedByCancel, NoOversleep
  <2>4. ASSUME wpc' = "headWait", queue' # <<>>
        PROVE  wpc = "headWait" /\ queue'[1] = queue[1]
    <3>1. wpc = "headWait" /\ k # 1
      BY <2>4, <1>2 DEF AwakenedByCancel
    <3>2. Len(queue) - 1 >= 1
      BY <2>1, <2>4 DEF Removed
    <3> QED
      BY <3>1, <3>2, <2>1 DEF Removed
  <2> QED
    BY <2>1, <2>2, <2>3, <2>4 DEF NoOversleep, Immediate
<1> QED
  BY <1>1, <1>2 DEF CancelEvent

LEMMA NextWakes == IInv /\ NoOversleep /\ [Next]_vars => NoOversleep'
<1> SUFFICES ASSUME IInv, NoOversleep, [Next]_vars PROVE NoOversleep'
  OBVIOUS
<1>1. ASSUME NEW ev \in Event, NEW when \in Slot, PostEvent(ev, when)
      PROVE  NoOversleep'
  BY <1>1, PostWakes DEF PostEvent, AnyEvent
<1>2. ASSUME NEW c \in Client, NEW ev \in Event, ReadEventID(c, ev)
      PROVE  NoOversleep'
  BY <1>2, SleepStep DEF ReadEventID, workerVars
<1>3. ASSUME NEW c \in Client, CancelEvent(c)
      PROVE  NoOversleep'
  BY <1>3, CancelWakes
<1>4. CASE Start
  BY <1>4, SleepStep DEF Start
<1>5. ASSUME NEW fl \in BOOLEAN, Stop(fl)
      PROVE  NoOversleep'
  <2>1. /\ StopEvent \in AnyEvent /\ StopSlot(fl) \in Slot
        /\ ~Queued(StopEvent)
        /\ PostTimedEvent(StopEvent, StopSlot(fl))
    BY <1>5, ConstantsAssumption
       DEF IInv, Stop, AnyEvent, StopSlot, Slot, EarliestSlot, BackSlot,
           UniqueEvents
  <2> QED
    BY <2>1, PostWakes
<1>6. CASE StopReturns
  BY <1>6 DEF StopReturns, NoOversleep
<1>7. CASE Worker
  <2>1. CASE /\ wpc \in {"top", "emptyWoken", "headWoken", "timedOut"}
             /\ Scan
    BY <2>1, ScanSleeps
  <2>2. CASE queue = <<>> /\ wpc' = "emptyWait"
             /\ queue' = queue
    BY <2>2 DEF NoOversleep
  <2>3. CASE wpc' \notin {"emptyWait", "headWait"}
    BY <2>3 DEF NoOversleep
  <2> QED
    BY <1>7, <2>1, <2>2, <2>3
       DEF Worker, Lock, EmptyWoken, HeadWoken, WaitTimesOut, TimedOut, Fire,
           Take
<1>8. CASE SpuriousWakeup
  BY <1>8, SleepStep DEF SpuriousWakeup
<1>9. CASE Tick
  BY <1>9, SleepStep DEF Tick, workerVars
<1>10. CASE UNCHANGED vars
  BY <1>10, SleepStep DEF vars, workerVars
<1> QED
  BY <1>1, <1>2, <1>3, <1>4, <1>5, <1>6, <1>7, <1>8, <1>9, <1>10 DEF Next

\* The worker thread never waits for a first event while there is one, nor
\* past the time the head of the list is due: postTimedEvent() and
\* cancelEvent() signal the right condition whenever they change the head,
\* for any events, clients and bounds.
THEOREM NeverOversleeps == Spec => []NoOversleep
<1>1. Init => NoOversleep
  BY DEF Init, NoOversleep
<1> QED
  BY <1>1, NextWakes, SpecIInv, PTL DEF Spec

-----------------------------------------------------------------------------
(* Where the items of a changed list come from.                            *)

LEMMA InsertedItems ==
  ASSUME TypeOK, NEW k, NEW ev, NEW when, Inserted(k, ev, when)
  PROVE  /\ k \in DOMAIN queue'
         /\ queue'[k] = [event |-> ev, when |-> when] /\ ID(k)' = nextID
         /\ \A i \in DOMAIN queue' \ {k} : \E j \in DOMAIN queue :
              queue'[i] = queue[j] /\ ID(i)' = ID(j)
         /\ \A j \in DOMAIN queue : \E i \in DOMAIN queue' \ {k} :
              queue'[i] = queue[j] /\ ID(i)' = ID(j)
<1>1. /\ DOMAIN queue = 1 .. Len(queue) /\ Len(queue) \in Nat
      /\ k \in 1 .. Len(queue) + 1
      /\ DOMAIN queue' = 1 .. Len(queue) + 1
      /\ \A j \in 1 .. Len(queue) + 1 :
           /\ j < k => queue'[j] = queue[j] /\ ID(j)' = ID(j)
           /\ j = k => queue'[j] = [event |-> ev, when |-> when] /\ ID(j)' = nextID
           /\ j > k => queue'[j] = queue[j - 1] /\ ID(j)' = ID(j - 1)
  BY DEF TypeOK, Inserted
<1>2. ASSUME NEW i \in DOMAIN queue' \ {k}
      PROVE  \E j \in DOMAIN queue : queue'[i] = queue[j] /\ ID(i)' = ID(j)
  <2>1. CASE i < k
    <3>1. i \in DOMAIN queue /\ queue'[i] = queue[i] /\ ID(i)' = ID(i)
      BY <2>1, <1>1
    <3> QED
      BY <3>1
  <2>2. CASE i > k
    <3>1. i - 1 \in DOMAIN queue /\ queue'[i] = queue[i - 1] /\ ID(i)' = ID(i - 1)
      BY <2>2, <1>1
    <3> QED
      BY <3>1
  <2> QED
    BY <2>1, <2>2, <1>1
<1>3. ASSUME NEW j \in DOMAIN queue
      PROVE  \E i \in DOMAIN queue' \ {k} : queue'[i] = queue[j] /\ ID(i)' = ID(j)
  <2>1. CASE j < k
    <3>1. j \in DOMAIN queue' \ {k} /\ queue'[j] = queue[j] /\ ID(j)' = ID(j)
      BY <2>1, <1>1
    <3> QED
      BY <3>1
  <2>2. CASE j >= k
    <3>1. j + 1 \in DOMAIN queue' \ {k} /\ j + 1 > k /\ (j + 1) - 1 = j
      BY <2>2, <1>1
    <3>2. queue'[j + 1] = queue[j] /\ ID(j + 1)' = ID(j)
      BY <3>1, <1>1
    <3> QED
      BY <3>1, <3>2
  <2> QED
    BY <2>1, <2>2, <1>1
<1> QED
  BY <1>1, <1>2, <1>3

LEMMA RemovedItems ==
  ASSUME TypeOK, NEW k, Removed(k)
  PROVE  /\ k \in DOMAIN queue
         /\ \A i \in DOMAIN queue' : \E j \in DOMAIN queue \ {k} :
              queue'[i] = queue[j] /\ ID(i)' = ID(j)
         /\ \A j \in DOMAIN queue \ {k} : \E i \in DOMAIN queue' :
              queue'[i] = queue[j] /\ ID(i)' = ID(j)
<1>1. /\ DOMAIN queue = 1 .. Len(queue) /\ Len(queue) \in Nat
      /\ k \in 1 .. Len(queue)
      /\ DOMAIN queue' = 1 .. Len(queue) - 1
      /\ \A j \in 1 .. Len(queue) - 1 :
           /\ j < k => queue'[j] = queue[j] /\ ID(j)' = ID(j)
           /\ j >= k => queue'[j] = queue[j + 1] /\ ID(j)' = ID(j + 1)
  BY DEF TypeOK, Removed
<1>2. ASSUME NEW i \in DOMAIN queue'
      PROVE  \E j \in DOMAIN queue \ {k} : queue'[i] = queue[j] /\ ID(i)' = ID(j)
  <2>1. CASE i < k
    <3>1. i \in DOMAIN queue \ {k} /\ queue'[i] = queue[i] /\ ID(i)' = ID(i)
      BY <2>1, <1>1
    <3> QED
      BY <3>1
  <2>2. CASE i >= k
    <3>1. /\ i + 1 \in DOMAIN queue \ {k}
          /\ queue'[i] = queue[i + 1] /\ ID(i)' = ID(i + 1)
      BY <2>2, <1>1
    <3> QED
      BY <3>1
  <2> QED
    BY <2>1, <2>2, <1>1
<1>3. ASSUME NEW j \in DOMAIN queue \ {k}
      PROVE  \E i \in DOMAIN queue' : queue'[i] = queue[j] /\ ID(i)' = ID(j)
  <2>1. CASE j < k
    <3>1. j \in DOMAIN queue' /\ queue'[j] = queue[j] /\ ID(j)' = ID(j)
      BY <2>1, <1>1
    <3> QED
      BY <3>1
  <2>2. CASE j > k
    <3>1. j - 1 \in DOMAIN queue' /\ j - 1 >= k /\ (j - 1) + 1 = j
      BY <2>2, <1>1
    <3>2. queue'[j - 1] = queue[j] /\ ID(j - 1)' = ID(j)
      BY <3>1, <1>1
    <3> QED
      BY <3>1, <3>2
  <2> QED
    BY <2>1, <2>2, <1>1
<1> QED
  BY <1>1, <1>2, <1>3

-----------------------------------------------------------------------------
(* stop(true) handles everything posted before it.                         *)

\* Ids are handed out once, so an id a client read from one of its events is
\* not the id of the StopEvent.
HeldIDs ==
    /\ \A ev \in AnyEvent : eventID[ev] < nextID
    /\ \A c \in Client : held[c] < nextID
    /\ opc = "joining" =>
          /\ stopID \in 1 .. nextID - 1
          /\ \A ev \in Event : eventID[ev] # stopID
          /\ \A c \in Client : held[c] # stopID

\* The StopEvent stays on the list until the worker takes it, and when
\* flushing that is after everything posted before it.
Stopping ==
    /\ wpc = "exited" => stopped
    /\ running /\ (stopped \/ (wpc = "fire" /\ wevent = StopEvent)) =>
          opc = "joining" /\ ~Queued(StopEvent)
    /\ opc = "joining" =>
          /\ running
          /\ \A i \in DOMAIN queue : queue[i].event = StopEvent =>
                ID(i) = stopID /\ queue[i].when = StopSlot(flush)
          /\ flush /\ ~Queued(StopEvent) =>
                \A i \in DOMAIN queue : ID(i) > stopID

\* A step that leaves the list, the ids and the owner alone.
LEMMA QuietStepKeepsStopping ==
  ASSUME IInv, HeldIDs, Stopping, UNCHANGED <<queue, eventID, nextID, running,
             opc, flush, stopID, held>>,
         wpc' = "exited" => stopped',
         running /\ (stopped' \/ (wpc' = "fire" /\ wevent' = StopEvent)) =>
            stopped \/ (wpc = "fire" /\ wevent = StopEvent)
  PROVE  HeldIDs' /\ Stopping'
<1>1. /\ Queued(StopEvent)' = Queued(StopEvent)
      /\ \A i : ID(i)' = ID(i)
  BY DEF Queued, ID
<1>2. HeldIDs'
  BY DEF HeldIDs
<1>3. Stopping'
  BY <1>1 DEF Stopping
<1> QED
  BY <1>2, <1>3

LEMMA PostEventKeepsStopping ==
  ASSUME IInv, HeldIDs, Stopping, NEW ev \in Event, NEW when \in Slot,
         PostEvent(ev, when)
  PROVE  HeldIDs' /\ Stopping'
<1>1. /\ TypeOK /\ PostTimedEvent(ev, when) /\ ~Queued(ev)
      /\ ev \in AnyEvent /\ ev # StopEvent
      /\ nextID' = nextID + 1
      /\ eventID' = [eventID EXCEPT ![ev] = nextID]
      /\ UNCHANGED <<running, stopped, wevent, held, opc, flush, stopID>>
  BY ConstantsAssumption
     DEF IInv, PostEvent, PostTimedEvent, AnyEvent, ownerVars
<1>2. PICK k \in 1 .. Len(queue) + 1 : Inserted(k, ev, when)
  BY <1>1, PostInserts
<1>3. /\ queue'[k].event = ev /\ ID(k)' = nextID
      /\ \A i \in DOMAIN queue' \ {k} : \E j \in DOMAIN queue :
           queue'[i] = queue[j] /\ ID(i)' = ID(j)
      /\ \A j \in DOMAIN queue : \E i \in DOMAIN queue' \ {k} :
           queue'[i] = queue[j]
  <2>1. /\ queue'[k] = [event |-> ev, when |-> when] /\ ID(k)' = nextID
        /\ \A i \in DOMAIN queue' \ {k} : \E j \in DOMAIN queue :
             queue'[i] = queue[j] /\ ID(i)' = ID(j)
        /\ \A j \in DOMAIN queue : \E i \in DOMAIN queue' \ {k} :
             queue'[i] = queue[j] /\ ID(i)' = ID(j)
    BY <1>1, <1>2, InsertedItems
  <2> QED
    BY <2>1
<1>4. Queued(StopEvent)' <=> Queued(StopEvent)
  BY <1>1, <1>3 DEF Queued
<1>5. nextID \in Nat /\ eventID \in [AnyEvent -> Nat] /\ held \in [Client -> Nat]
  BY <1>1, ConstantsAssumption DEF TypeOK
<1>6. HeldIDs'
  <2>1. \A e \in AnyEvent : eventID'[e] = IF e = ev THEN nextID ELSE eventID[e]
    BY <1>1, <1>5
  <2>2. \A e \in Event : e \in AnyEvent
    BY DEF AnyEvent
  <2> QED
    BY <2>1, <2>2, <1>1, <1>5 DEF HeldIDs
<1>7. Stopping'
  <2>1. wpc' = "exited" <=> wpc = "exited"
    BY <1>2 DEF Inserted, Awakened
  <2>2. wpc' = "fire" <=> wpc = "fire"
    BY <1>2 DEF Inserted, Awakened
  <2>3. opc = "joining" => nextID > stopID
    BY <1>5 DEF HeldIDs
  <2> QED
    BY <2>1, <2>2, <2>3, <1>1, <1>3, <1>4 DEF Stopping
<1> QED
  BY <1>6, <1>7

LEMMA StopKeepsStopping ==
  ASSUME IInv, HeldIDs, Stopping, NEW fl \in BOOLEAN, Stop(fl)
  PROVE  HeldIDs' /\ Stopping'
<1>1. /\ TypeOK /\ UniqueEvents /\ PostTimedEvent(StopEvent, StopSlot(fl))
      /\ opc = "idle" /\ running
      /\ opc' = "joining" /\ flush' = fl /\ stopID' = nextID
      /\ nextID' = nextID + 1
      /\ eventID' = [eventID EXCEPT ![StopEvent] = nextID]
      /\ UNCHANGED <<running, stopped, wevent, held>>
  BY DEF IInv, Stop, PostTimedEvent
<1>2. /\ StopEvent \in AnyEvent /\ StopSlot(fl) \in Slot
      /\ ~Queued(StopEvent)
  BY <1>1, ConstantsAssumption
     DEF AnyEvent, StopSlot, Slot, EarliestSlot, BackSlot, UniqueEvents
<1>3. PICK k \in 1 .. Len(queue) + 1 : Inserted(k, StopEvent, StopSlot(fl))
  BY <1>1, <1>2, PostInserts
<1>4. /\ k \in DOMAIN queue'
      /\ queue'[k].event = StopEvent /\ queue'[k].when = StopSlot(fl)
      /\ ID(k)' = nextID
      /\ \A i \in DOMAIN queue' \ {k} : \E j \in DOMAIN queue :
           queue'[i] = queue[j]
  <2>1. /\ k \in DOMAIN queue'
        /\ queue'[k] = [event |-> StopEvent, when |-> StopSlot(fl)]
        /\ ID(k)' = nextID
        /\ \A i \in DOMAIN queue' \ {k} : \E j \in DOMAIN queue :
             queue'[i] = queue[j] /\ ID(i)' = ID(j)
    BY <1>1, <1>3, InsertedItems
  <2> QED
    BY <2>1
<1>5. nextID \in Nat \ {0} /\ eventID \in [AnyEvent -> Nat]
      /\ held \in [Client -> Nat]
  BY <1>1, ConstantsAssumption DEF TypeOK
<1>6. HeldIDs'
  <2>1. \A e \in Event : e \in AnyEvent /\ e # StopEvent
    BY ConstantsAssumption DEF AnyEvent
  <2>2. \A e \in AnyEvent :
          eventID'[e] = IF e = StopEvent THEN nextID ELSE eventID[e]
    BY <1>1, <1>5
  <2> QED
    BY <2>1, <2>2, <1>1, <1>5 DEF HeldIDs
<1>7. Stopping'
  <2>1. ~stopped /\ ~(wpc = "fire" /\ wevent = StopEvent) /\ wpc # "exited"
    BY <1>1 DEF Stopping
  <2>2. wpc' # "exited" /\ (wpc' = "fire" => wpc = "fire")
    BY <2>1, <1>3 DEF Inserted, Awakened
  <2>3. Queued(StopEvent)'
    BY <1>4 DEF Queued
  <2>4. \A i \in DOMAIN queue' : queue'[i].event = StopEvent => i = k
    BY <1>2, <1>4 DEF Queued
  <2>5. StopSlot(flush)' = StopSlot(fl)
    BY <1>1 DEF StopSlot
  <2> QED
    BY <2>1, <2>2, <2>3, <2>4, <2>5, <1>1, <1>4 DEF Stopping
<1> QED
  BY <1>6, <1>7

\* An item is erased: cancelled, or taken by the worker to fire it.  The
\* StopEvent is only taken when everything posted before it is gone.
LEMMA EraseKeepsStopping ==
  ASSUME IInv, HeldIDs, Stopping, NEW k \in DOMAIN queue,
         queue' = Erased(k),
         eventID' = [eventID EXCEPT ![queue[k].event] = 0],
         \A c \in Client : held'[c] \in {held[c], 0},
         UNCHANGED <<nextID, running, stopped, opc, flush, stopID>>,
         wpc' # "exited" \/ wpc = "exited",
         \/ wpc' = "fire" /\ wevent' = queue[k].event
         \/ /\ queue[k].event # StopEvent
            /\ wpc' = "fire" => wpc = "fire" /\ wevent' = wevent,
         opc = "joining" /\ flush /\ queue[k].event = StopEvent => k = 1
  PROVE  HeldIDs' /\ Stopping'
<1>1. TypeOK /\ UniqueEvents /\ Ordered /\ Removed(k)
  <2>1. TypeOK /\ UniqueEvents /\ Ordered
    BY DEF IInv
  <2> QED
    BY <2>1, EraseRemoves
<1>2. /\ \A i \in DOMAIN queue' : \E j \in DOMAIN queue \ {k} :
           queue'[i] = queue[j] /\ ID(i)' = ID(j)
      /\ \A j \in DOMAIN queue \ {k} : \E i \in DOMAIN queue' :
           queue'[i] = queue[j]
  BY <1>1, RemovedItems
<1>3. /\ Queued(StopEvent)' => Queued(StopEvent)
      /\ queue[k].event = StopEvent => Queued(StopEvent) /\ ~Queued(StopEvent)'
      /\ queue[k].event # StopEvent /\ Queued(StopEvent) => Queued(StopEvent)'
  BY <1>1, <1>2 DEF Queued, UniqueEvents
<1>4. nextID \in Nat \ {0} /\ eventID \in [AnyEvent -> Nat]
      /\ held \in [Client -> Nat]
  BY <1>1, ConstantsAssumption DEF TypeOK
<1>5. HeldIDs'
  <2>1. \A e \in AnyEvent : eventID'[e] \in {eventID[e], 0}
    BY <1>4
  <2>2. \A e \in Event : e \in AnyEvent
    BY DEF AnyEvent
  <2> QED
    BY <2>1, <2>2, <1>4 DEF HeldIDs
<1>6. ASSUME opc = "joining", flush, queue[k].event = StopEvent
      PROVE  \A i \in DOMAIN queue' : ID(i)' > stopID
  <2>1. k = 1 /\ ID(1) = stopID /\ queue[1].when = BackSlot
    BY <1>6 DEF Stopping, StopSlot
  <2>2. ASSUME NEW j \in DOMAIN queue \ {1}
        PROVE  ID(j) > stopID
    <3>1. queue[j] \in Item /\ DOMAIN queue = 1 .. Len(queue) /\ Len(queue) \in Nat
      BY <1>1 DEF TypeOK
    <3>2. queue[j].when <= BackSlot /\ queue[j].when \in Int /\ BackSlot \in Int
      BY <3>1, ConstantsAssumption DEF Item, Slot, EarliestSlot, BackSlot
    <3>3. 1 < j
      BY <3>1
    <3>4. queue[1].when <= queue[j].when
      BY <3>1, <3>3, <2>1, <1>1 DEF Ordered
    <3>5. queue[1].when = queue[j].when
      BY <2>1, <3>2, <3>4
    <3>6. ID(1) < ID(j)
      BY <3>1, <3>3, <3>5, <2>1, <1>1 DEF Ordered
    <3>7. ID(1) \in Nat /\ ID(j) \in Nat
      BY <3>1, <2>1, <1>1, <1>4 DEF TypeOK, ID, Item
    <3> QED
      BY <3>6, <3>7, <2>1
  <2> QED
    BY <2>1, <2>2, <1>2
<1>7. Stopping'
  <2>1. wpc' = "exited" => stopped'
    BY DEF Stopping
  <2>2. ASSUME running', stopped' \/ (wpc' = "fire" /\ wevent' = StopEvent)
        PROVE  opc' = "joining" /\ ~Queued(StopEvent)'
    <3>1. CASE stopped
      BY <3>1, <2>2, <1>3 DEF Stopping
    <3>2. CASE queue[k].event = StopEvent
      BY <3>2, <1>1, <1>3 DEF UniqueEvents
    <3>3. CASE ~stopped /\ queue[k].event # StopEvent
      BY <3>3, <2>2, <1>3 DEF Stopping
    <3> QED
      BY <3>1, <3>2, <3>3
  <2>3. ASSUME opc' = "joining"
        PROVE  /\ running'
               /\ \A i \in DOMAIN queue' : queue'[i].event = StopEvent =>
                    ID(i)' = stopID /\ queue'[i].when = StopSlot(flush)
               /\ flush /\ ~Queued(StopEvent)' =>
                    \A i \in DOMAIN queue' : ID(i)' > stopID
    <3>1. /\ opc = "joining" /\ running
          /\ \A j \in DOMAIN queue : queue[j].event = StopEvent =>
               ID(j) = stopID /\ queue[j].when = StopSlot(flush)
          /\ flush /\ ~Queued(StopEvent) =>
               \A j \in DOMAIN queue : ID(j) > stopID
      BY <2>3 DEF Stopping
    <3>2. ASSUME flush, ~Queued(StopEvent)'
          PROVE  \A i \in DOMAIN queue' : ID(i)' > stopID
      <4>1. CASE queue[k].event = StopEvent
        BY <4>1, <3>1, <3>2, <1>6
      <4>2. CASE queue[k].event # StopEvent
        <5>1. ~Queued(StopEvent)
          BY <4>2, <3>2, <1>3
        <5> QED
          BY <5>1, <3>1, <3>2, <1>2
      <4> QED
        BY <4>1, <4>2
    <3> QED
      BY <3>1, <3>2, <1>2
  <2>4. StopSlot(flush)' = StopSlot(flush)
    BY DEF StopSlot
  <2> QED
    BY <2>1, <2>2, <2>3, <2>4 DEF Stopping
<1> QED
  BY <1>5, <1>7

\* What the worker does when it takes an event off the list: it is the head,
\* or an uncapped wait for it is over.
LEMMA TakeRemoves ==
  ASSUME IInv, NEW id, Take(id)
  PROVE  \/ /\ id \notin QueuedIDs
            /\ wpc' = "top"
            /\ UNCHANGED <<queue, wevent, wfid, eventID>>
         \/ \E k \in DOMAIN queue :
              /\ ID(k) = id
              /\ Removed(k)
              /\ queue' = Erased(k)
              /\ wevent' = queue[k].event
              /\ wfid' = id
              /\ eventID' = [eventID EXCEPT ![queue[k].event] = 0]
              /\ wpc' = "fire"
<1>1. TypeOK /\ UniqueEvents
  BY DEF IInv
<1>2. CASE id \notin QueuedIDs /\ wpc' = "top"
           /\ UNCHANGED <<queue, wevent, wfid, eventID>>
  BY <1>2
<1>3. ASSUME NEW k \in DOMAIN queue,
             FirstWithID(k, id), queue' = Erased(k),
             wevent' = queue[k].event, wfid' = id,
             eventID' = [eventID EXCEPT ![queue[k].event] = 0],
             wpc' = "fire"
      PROVE  ID(k) = id /\ Removed(k)
  BY <1>1, <1>3, EraseRemoves DEF FirstWithID
<1> QED
  BY <1>2, <1>3 DEF Take

LEMMA TakeKeepsStopping ==
  ASSUME IInv, HeldIDs, Stopping, NEW id, Take(id), wpc # "fire",
         UNCHANGED workerFrame,
         \A k \in DOMAIN queue : ID(k) = id => k = 1 \/ queue[k].when # BackSlot
  PROVE  HeldIDs' /\ Stopping'
<1>1. UNCHANGED <<nextID, running, stopped, opc, flush, stopID, held>>
  BY DEF workerFrame, ownerVars
<1>2. CASE /\ wpc' = "top"
           /\ UNCHANGED <<queue, wevent, wfid, eventID>>
  BY <1>1, <1>2, QuietStepKeepsStopping
<1>3. ASSUME NEW k \in DOMAIN queue,
             ID(k) = id, queue' = Erased(k),
             wevent' = queue[k].event,
             eventID' = [eventID EXCEPT ![queue[k].event] = 0],
             wpc' = "fire"
      PROVE  HeldIDs' /\ Stopping'
  <2>1. opc = "joining" /\ flush /\ queue[k].event = StopEvent => k = 1
    BY <1>3 DEF Stopping, StopSlot
  <2> QED
    BY <2>1, <1>1, <1>3, EraseKeepsStopping
<1> QED
  BY <1>2, <1>3, TakeRemoves

\* The posting an uncapped wait is over for is due at a time of the clock.
LEMMA TimedOutDue ==
  ASSUME IInv, wpc = "timedOut", ~capped, NEW k \in DOMAIN queue, ID(k) = wid
  PROVE  queue[k].when \in 0 .. MaxTime /\ queue[k].when <= now
BY DEF IInv, Waiting, TypeOK

LEMMA WorkerKeepsStopping ==
  ASSUME IInv, HeldIDs, Stopping, Worker
  PROVE  HeldIDs' /\ Stopping'
<1>1. CASE Scan /\ wpc \in {"top", "emptyWoken", "headWoken", "timedOut"}
           /\ UNCHANGED workerFrame
  <2>1. CASE /\ wpc' \in {"top", "headWait"}
             /\ UNCHANGED <<queue, eventID, wevent, wfid>>
    BY <1>1, <2>1, QuietStepKeepsStopping DEF workerFrame, ownerVars
  <2>2. CASE queue # <<>> /\ Take(ID(1))
    <3>1. \A k \in DOMAIN queue : ID(k) = ID(1) => k = 1
      BY <2>2 DEF IInv, TypeOK, PostedOnce
    <3> QED
      BY <3>1, <1>1, <2>2, TakeKeepsStopping
  <2> QED
    BY <1>1, <2>1, <2>2 DEF Scan
<1>2. CASE /\ wpc = "timedOut" /\ ~capped /\ Take(wid)
           /\ UNCHANGED workerFrame
  <2>1. \A k \in DOMAIN queue : ID(k) = wid => queue[k].when # BackSlot
    BY <1>2, TimedOutDue, ConstantsAssumption DEF BackSlot
  <2> QED
    BY <2>1, <1>2, TakeKeepsStopping
<1>3. CASE /\ UNCHANGED <<queue, eventID, nextID, running, stopped, opc,
                          flush, stopID, held>>
           /\ wpc' = "exited" => stopped
           /\ wpc' # "fire"
  BY <1>3, QuietStepKeepsStopping
<1>4. CASE Fire
  BY <1>4, QuietStepKeepsStopping DEF Fire, StoppedAfter, ownerVars
<1> QED
  BY <1>1, <1>2, <1>3, <1>4
     DEF Worker, Lock, EmptyWoken, HeadWoken, WaitTimesOut, TimedOut,
         TimeHasCome, workerFrame, ownerVars

LEMMA InitStopping == Init => HeldIDs /\ Stopping
<1> SUFFICES ASSUME Init PROVE HeldIDs /\ Stopping
  OBVIOUS
<1> QED
  BY DEF Init, HeldIDs, Stopping

LEMMA NextKeepsStopping ==
  IInv /\ HeldIDs /\ Stopping /\ [Next]_vars => HeldIDs' /\ Stopping'
<1> SUFFICES ASSUME IInv, HeldIDs, Stopping, [Next]_vars
             PROVE  HeldIDs' /\ Stopping'
  OBVIOUS
<1>1. ASSUME NEW ev \in Event, NEW when \in Slot, PostEvent(ev, when)
      PROVE  HeldIDs' /\ Stopping'
  BY <1>1, PostEventKeepsStopping
<1>2. ASSUME NEW c \in Client, NEW ev \in Event, ReadEventID(c, ev)
      PROVE  HeldIDs' /\ Stopping'
  <2>1. /\ held' = [held EXCEPT ![c] = eventID[ev]]
        /\ held \in [Client -> Nat]
        /\ ev \in AnyEvent
        /\ UNCHANGED <<queue, eventID, nextID, running, stopped, wpc, wevent,
                       opc, flush, stopID>>
    BY <1>2, ConstantsAssumption
       DEF ReadEventID, IInv, TypeOK, AnyEvent, workerVars, ownerVars
  <2>2. HeldIDs'
    BY <2>1 DEF HeldIDs
  <2>3. /\ Queued(StopEvent)' = Queued(StopEvent)
        /\ \A i : ID(i)' = ID(i)
    BY <2>1 DEF Queued, ID
  <2>4. Stopping'
    BY <2>1, <2>3 DEF Stopping
  <2> QED
    BY <2>2, <2>4
<1>3. ASSUME NEW c \in Client, CancelEvent(c)
      PROVE  HeldIDs' /\ Stopping'
  <2>1. /\ held' = [held EXCEPT ![c] = 0]
        /\ UNCHANGED <<nextID, running, stopped, wevent, opc, flush, stopID>>
        /\ held \in [Client -> Nat]
        /\ \A d \in Client : held'[d] \in {held[d], 0}
    BY <1>3, ConstantsAssumption DEF CancelEvent, ownerVars, IInv, TypeOK
  <2>2. CASE UNCHANGED <<queue, eventID, wpc>>
    <3>1. HeldIDs'
      <4>1. nextID \in Nat \ {0}
        BY ConstantsAssumption DEF IInv, TypeOK
      <4> QED
        BY <4>1, <2>1, <2>2 DEF HeldIDs
    <3>2. /\ Queued(StopEvent)' = Queued(StopEvent)
          /\ \A i : ID(i)' = ID(i)
      BY <2>2 DEF Queued, ID
    <3>3. Stopping'
      BY <2>1, <2>2, <3>2 DEF Stopping
    <3> QED
      BY <3>1, <3>3
  <2>3. ASSUME NEW k \in DOMAIN queue,
               ID(k) = held[c],
               queue' = Erased(k),
               eventID' = [eventID EXCEPT ![queue[k].event] = 0],
               wpc' = AwakenedByCancel(k = 1)
        PROVE  HeldIDs' /\ Stopping'
    <3>1. queue[k].event # StopEvent
      <4> SUFFICES ASSUME queue[k].event = StopEvent PROVE FALSE
        OBVIOUS
      <4>1. opc = "joining"
        BY DEF IInv, UniqueEvents, Queued
      <4> QED
        BY <4>1, <2>3 DEF Stopping, HeldIDs
    <3>2. /\ wpc' # "exited" \/ wpc = "exited"
          /\ wpc' = "fire" => wpc = "fire"
      BY <2>3 DEF AwakenedByCancel
    <3> QED
      BY <3>1, <3>2, <2>1, <2>3, EraseKeepsStopping
  <2> QED
    BY <1>3, <2>2, <2>3 DEF CancelEvent, FirstWithID
<1>4. CASE Start
  <2>1. /\ opc' = "idle" /\ wpc' = "top" /\ stopped' = FALSE
        /\ UNCHANGED <<eventID, nextID, held>>
    BY <1>4 DEF Start, ownerVars
  <2> QED
    BY <2>1 DEF HeldIDs, Stopping
<1>5. ASSUME NEW fl \in BOOLEAN, Stop(fl)
      PROVE  HeldIDs' /\ Stopping'
  BY <1>5, StopKeepsStopping
<1>6. CASE StopReturns
  BY <1>6 DEF StopReturns, HeldIDs, Stopping
<1>7. CASE Worker
  BY <1>7, WorkerKeepsStopping
<1>8. CASE SpuriousWakeup
  BY <1>8, QuietStepKeepsStopping DEF SpuriousWakeup, workerFrame, ownerVars
<1>9. CASE Tick
  BY <1>9, QuietStepKeepsStopping DEF Tick, workerVars, ownerVars, Stopping
<1>10. CASE UNCHANGED vars
  BY <1>10, QuietStepKeepsStopping DEF vars, workerVars, ownerVars, Stopping
<1> QED
  BY <1>1, <1>2, <1>3, <1>4, <1>5, <1>6, <1>7, <1>8, <1>9, <1>10 DEF Next

\* stop(true) of DSPGTimedEventQueue returns once every event posted before
\* it has been handled: what it drops was posted after the StopEvent, for any
\* events, clients and bounds.
THEOREM FlushDropsNothingOlder == Spec => FlushHandlesAll
<1>1. ASSUME IInv, Stopping, [Next]_vars,
             opc = "joining" /\ opc' = "idle" /\ flush
      PROVE  \A i \in DOMAIN queue : ID(i) > stopID
  <2>1. StopReturns
    <3>1. opc' # opc
      BY <1>1
    <3> QED
      BY <3>1, <1>1
         DEF Next, PostEvent, ReadEventID, CancelEvent, Start, Stop, Worker,
             Lock, EmptyWoken, HeadWoken, WaitTimesOut, TimedOut, Fire,
             SpuriousWakeup, Tick, workerFrame, ownerVars, vars
  <2>2. wpc = "exited" /\ stopped /\ running
    BY <1>1, <2>1 DEF StopReturns, Stopping
  <2> QED
    BY <1>1, <2>2 DEF Stopping
<1>2. IInv /\ Stopping /\ [Next]_vars =>
        [opc = "joining" /\ opc' = "idle" /\ flush =>
           \A i \in DOMAIN queue : ID(i) > stopID]_vars
  BY <1>1
<1> QED
  BY <1>2, InitStopping, NextKeepsStopping, SpecIInv, PTL
     DEF Spec, FlushHandlesAll

-----------------------------------------------------------------------------
(* The queue implements EventSchedule.                                     *)

\* The abstract postings, as the refinement mapping names them.
Pending == {[id |-> ID(i), when |-> queue[i].when] : i \in DOMAIN queue}
Handled == fired \cup FiringIDs

LEMMA InsertPosts ==
  ASSUME IInv, NEW ev \in AnyEvent, NEW when \in Slot, ~Queued(ev),
         PostTimedEvent(ev, when)
  PROVE  Schedule!SNext
<1>1. TypeOK
  BY DEF IInv
<1>2. PICK k \in 1 .. Len(queue) + 1 : Inserted(k, ev, when)
  BY <1>1, PostInserts
<1>3. /\ k \in DOMAIN queue'
      /\ queue'[k] = [event |-> ev, when |-> when] /\ ID(k)' = nextID
      /\ \A i \in DOMAIN queue' \ {k} : \E j \in DOMAIN queue :
           queue'[i] = queue[j] /\ ID(i)' = ID(j)
      /\ \A j \in DOMAIN queue : \E i \in DOMAIN queue' \ {k} :
           queue'[i] = queue[j] /\ ID(i)' = ID(j)
  BY <1>1, <1>2, InsertedItems
<1>4. Pending' = {[id |-> ID(i)', when |-> queue'[i].when] : i \in DOMAIN queue'}
  BY DEF Pending
<1>5. Pending' = Pending \cup {[id |-> nextID, when |-> when]}
  <2>1. ASSUME NEW q \in Pending'
        PROVE  q \in Pending \cup {[id |-> nextID, when |-> when]}
    <3>1. PICK i \in DOMAIN queue' : q = [id |-> ID(i)', when |-> queue'[i].when]
      BY <1>4
    <3>2. CASE i = k
      BY <3>1, <3>2, <1>3
    <3>3. CASE i # k
      BY <3>1, <3>3, <1>3 DEF Pending
    <3> QED
      BY <3>2, <3>3
  <2>2. ASSUME NEW q \in Pending
        PROVE  q \in Pending'
    <3>1. PICK j \in DOMAIN queue : q = [id |-> ID(j), when |-> queue[j].when]
      BY DEF Pending
    <3>2. PICK i \in DOMAIN queue' : queue'[i] = queue[j] /\ ID(i)' = ID(j)
      BY <1>3
    <3> QED
      BY <3>1, <3>2, <1>4
  <2>3. [id |-> nextID, when |-> when] \in Pending'
    <3>1. [id |-> ID(k)', when |-> queue'[k].when] \in Pending'
      BY <1>3, <1>4
    <3> QED
      BY <3>1, <1>3
  <2> QED
    BY <2>1, <2>2, <2>3
<1>6. Handled' = Handled
  BY <1>2 DEF Handled, FiringIDs, PostTimedEvent, history, Inserted, Awakened
<1>7. Schedule!Post(when)
  BY <1>5, <1>6 DEF Schedule!Post, PostTimedEvent, Pending, Handled
<1>8. when \in Schedule!Slot
  BY DEF Schedule!Slot, Slot, EarliestSlot, BackSlot
<1> QED
  BY <1>7, <1>8 DEF Schedule!SNext

LEMMA RemovedPending ==
  ASSUME IInv, NEW k, Removed(k)
  PROVE  /\ [id |-> ID(k), when |-> queue[k].when] \in Pending
         /\ Pending' = Pending \ {[id |-> ID(k), when |-> queue[k].when]}
<1>1. TypeOK /\ \A i, j \in DOMAIN queue : ID(i) = ID(j) => i = j
  BY DEF IInv, PostedOnce
<1>2. /\ k \in DOMAIN queue
      /\ \A i \in DOMAIN queue' : \E j \in DOMAIN queue \ {k} :
           queue'[i] = queue[j] /\ ID(i)' = ID(j)
      /\ \A j \in DOMAIN queue \ {k} : \E i \in DOMAIN queue' :
           queue'[i] = queue[j] /\ ID(i)' = ID(j)
  BY <1>1, RemovedItems
<1>3. Pending' = {[id |-> ID(i)', when |-> queue'[i].when] : i \in DOMAIN queue'}
  BY DEF Pending
<1>4. ASSUME NEW q \in Pending'
      PROVE  q \in Pending \ {[id |-> ID(k), when |-> queue[k].when]}
  <2>1. PICK i \in DOMAIN queue' : q = [id |-> ID(i)', when |-> queue'[i].when]
    BY <1>3
  <2>2. PICK j \in DOMAIN queue \ {k} : queue'[i] = queue[j] /\ ID(i)' = ID(j)
    BY <1>2
  <2>3. q = [id |-> ID(j), when |-> queue[j].when] /\ ID(j) # ID(k)
    BY <2>1, <2>2, <1>1, <1>2
  <2>4. q \in Pending
    BY <2>3 DEF Pending
  <2>5. q.id = ID(j)
    BY <2>3
  <2> QED
    BY <2>3, <2>4, <2>5
<1>5. ASSUME NEW q \in Pending \ {[id |-> ID(k), when |-> queue[k].when]}
      PROVE  q \in Pending'
  <2>1. PICK j \in DOMAIN queue : q = [id |-> ID(j), when |-> queue[j].when]
    BY DEF Pending
  <2>2. j \in DOMAIN queue \ {k}
    BY <2>1
  <2>3. PICK i \in DOMAIN queue' : queue'[i] = queue[j] /\ ID(i)' = ID(j)
    BY <2>2, <1>2
  <2> QED
    BY <2>1, <2>3, <1>3
<1> QED
  BY <1>2, <1>4, <1>5 DEF Pending

\* Taking an event whose turn it is handles its posting.
LEMMA TakeHandles ==
  ASSUME IInv, NEW id, Take(id), wpc # "fire", UNCHANGED workerFrame,
         \A k \in DOMAIN queue : ID(k) = id =>
            /\ Schedule!DueAt(queue[k].when, now)
            /\ \A j \in 1 .. k - 1 : ID(j) > id
  PROVE  [Schedule!SNext]_(Schedule!svars)
<1>1. TypeOK /\ PostedOnce /\ Ordered
  BY DEF IInv
<1>2. UNCHANGED <<nextID, now, fired>>
  BY DEF workerFrame, history
<1>3. CASE wpc' = "top" /\ UNCHANGED <<queue, eventID>>
  <2>1. Pending' = Pending /\ Handled' = Handled
    BY <1>2, <1>3 DEF Pending, Handled, FiringIDs, ID
  <2> QED
    BY <2>1, <1>2 DEF Schedule!svars, Pending, Handled
<1>4. ASSUME NEW k \in DOMAIN queue,
             ID(k) = id, Removed(k), wfid' = id, wpc' = "fire"
      PROVE  Schedule!SNext
  <2> DEFINE p == [id |-> ID(k), when |-> queue[k].when]
  <2>1. p \in Pending /\ Pending' = Pending \ {p}
    BY <1>4, RemovedPending
  <2>2. Handled' = Handled \cup {p.id}
    BY <1>2, <1>4 DEF Handled, FiringIDs
  <2>3. Schedule!DueAt(p.when, now)
    BY <1>4
  <2>4. ASSUME NEW q \in Pending, q.id < p.id
        PROVE  q.when > p.when
    <3>1. PICK j \in DOMAIN queue : q = [id |-> ID(j), when |-> queue[j].when]
      BY DEF Pending
    <3>2. /\ DOMAIN queue = 1 .. Len(queue) /\ Len(queue) \in Nat
          /\ ID(j) \in Int /\ ID(k) \in Int /\ ID(j) < ID(k)
      BY <3>1, <2>4, <1>1, QueuedIDBounds
    <3>3. queue[j].when \in Int /\ queue[k].when \in Int
      <4>1. queue[j] \in Item /\ queue[k] \in Item
        BY <3>2, <1>1 DEF TypeOK
      <4> QED
        BY <4>1, ConstantsAssumption DEF Item, Slot, EarliestSlot, BackSlot
    <3>4. ~(j < k)
      BY <3>2, <1>4
    <3>5. k < j
      BY <3>2, <3>4
    <3>6. /\ queue[k].when <= queue[j].when
          /\ queue[k].when = queue[j].when => ID(k) < ID(j)
      BY <3>5, <1>1 DEF Ordered
    <3> QED
      BY <3>1, <3>2, <3>3, <3>6
  <2> HIDE DEF p
  <2>5. \E r \in Pending :
          /\ Schedule!DueAt(r.when, now)
          /\ \A q \in Pending : q.id < r.id => q.when > r.when
          /\ Pending' = Pending \ {r}
          /\ Handled' = Handled \cup {r.id}
          /\ UNCHANGED <<now, nextID>>
    BY <2>1, <2>2, <2>3, <2>4, <1>2
  <2> QED
    BY <2>5 DEF Schedule!SNext, Schedule!Handle, Pending, Handled
<1>5. CASE \E k \in DOMAIN queue :
             ID(k) = id /\ Removed(k) /\ wfid' = id /\ wpc' = "fire"
  BY <1>4, <1>5
<1> QED
  BY <1>3, <1>5, TakeRemoves

\* A step that leaves the list, the clock and what is handled alone.
LEMMA QuietStepStutters ==
  ASSUME UNCHANGED <<queue, eventID, nextID, now>>, Handled' = Handled
  PROVE  UNCHANGED Schedule!svars
<1>1. Pending' = Pending
  BY DEF Pending, ID
<1> QED
  BY <1>1 DEF Schedule!svars, Pending, Handled

LEMMA WorkerFollowsSchedule ==
  ASSUME IInv, Worker
  PROVE  [Schedule!SNext]_(Schedule!svars)
<1>1. TypeOK /\ PostedOnce /\ Waiting
  BY DEF IInv
<1>2. CASE Scan /\ wpc \in {"top", "emptyWoken", "headWoken", "timedOut"}
           /\ UNCHANGED workerFrame
  <2>1. CASE /\ wpc' \in {"top", "headWait"}
             /\ UNCHANGED <<queue, eventID>>
    BY <1>2, <2>1, QuietStepStutters DEF workerFrame, history, Handled, FiringIDs
  <2>2. CASE /\ queue # <<>>
             /\ Immediate(queue[1].when) \/ queue[1].when <= now
             /\ Take(ID(1))
    <3>1. \A k \in DOMAIN queue : ID(k) = ID(1) => k = 1
      BY <1>1, <2>2 DEF TypeOK, PostedOnce
    <3>2. Schedule!DueAt(queue[1].when, now)
      BY <2>2, ConstantsAssumption DEF Schedule!DueAt, Immediate, BackSlot
    <3>3. \A k \in DOMAIN queue : ID(k) = ID(1) =>
            /\ Schedule!DueAt(queue[k].when, now)
            /\ \A j \in 1 .. k - 1 : ID(j) > ID(1)
      BY <3>1, <3>2
    <3> QED
      BY <3>3, <1>2, <2>2, TakeHandles
  <2> QED
    BY <1>2, <2>1, <2>2 DEF Scan
<1>3. CASE /\ wpc = "timedOut" /\ ~capped /\ Take(wid)
           /\ UNCHANGED workerFrame
  <2>1. \A k \in DOMAIN queue : ID(k) = wid =>
          /\ Schedule!DueAt(queue[k].when, now)
          /\ \A j \in 1 .. k - 1 : ID(j) > wid
    BY <1>1, <1>3, TimedOutDue DEF Waiting, Schedule!DueAt
  <2> QED
    BY <2>1, <1>3, TakeHandles
<1>4. CASE /\ UNCHANGED <<queue, eventID, nextID, now, fired>>
           /\ wpc # "fire" /\ wpc' # "fire"
  BY <1>4, QuietStepStutters DEF Handled, FiringIDs
<1>5. CASE Fire
  BY <1>5, QuietStepStutters DEF Fire, Handled, FiringIDs
<1> QED
  BY <1>2, <1>3, <1>4, <1>5
     DEF Worker, Lock, EmptyWoken, HeadWoken, WaitTimesOut, TimedOut,
         TimeHasCome, workerFrame, history

LEMMA StepFollowsSchedule ==
  IInv /\ [Next]_vars => [Schedule!SNext]_(Schedule!svars)
<1> SUFFICES ASSUME IInv, [Next]_vars
             PROVE  [Schedule!SNext]_(Schedule!svars)
  OBVIOUS
<1>1. TypeOK /\ UniqueEvents /\ PostedOnce
  BY DEF IInv
<1>2. ASSUME NEW ev \in Event, NEW when \in Slot, PostEvent(ev, when)
      PROVE  Schedule!SNext
  BY <1>2, InsertPosts DEF PostEvent, AnyEvent
<1>3. ASSUME NEW c \in Client, NEW ev \in Event, ReadEventID(c, ev)
      PROVE  UNCHANGED Schedule!svars
  BY <1>3, QuietStepStutters
     DEF ReadEventID, workerVars, history, Handled, FiringIDs
<1>4. ASSUME NEW c \in Client, CancelEvent(c)
      PROVE  [Schedule!SNext]_(Schedule!svars)
  <2>1. UNCHANGED <<nextID, now, wfid, fired>>
    BY <1>4 DEF CancelEvent
  <2>2. CASE UNCHANGED <<queue, eventID, wpc>>
    BY <2>1, <2>2, QuietStepStutters DEF Handled, FiringIDs
  <2>3. ASSUME NEW k \in DOMAIN queue,
               queue' = Erased(k),
               eventID' = [eventID EXCEPT ![queue[k].event] = 0],
               wpc' = AwakenedByCancel(k = 1)
        PROVE  Schedule!SNext
    <3> DEFINE P == {[id |-> ID(k), when |-> queue[k].when]}
    <3>1. P \in SUBSET Pending /\ Pending' = Pending \ P
      BY <1>1, <2>3, EraseRemoves, RemovedPending
    <3>2. Handled' = Handled
      BY <2>1, <2>3 DEF Handled, FiringIDs, AwakenedByCancel
    <3> HIDE DEF P
    <3>3. \E Q \in SUBSET Pending :
            /\ Pending' = Pending \ Q
            /\ UNCHANGED <<now, nextID, Handled>>
      BY <3>1, <3>2, <2>1
    <3> QED
      BY <3>3 DEF Schedule!SNext, Schedule!Withdraw, Pending, Handled
  <2> QED
    BY <1>4, <2>2, <2>3 DEF CancelEvent
<1>5. CASE Start
  BY <1>5, <1>1, QuietStepStutters DEF Start, history, Handled, FiringIDs, TypeOK
<1>6. ASSUME NEW fl \in BOOLEAN, Stop(fl)
      PROVE  Schedule!SNext
  <2>1. /\ StopEvent \in AnyEvent /\ StopSlot(fl) \in Slot
        /\ ~Queued(StopEvent)
        /\ PostTimedEvent(StopEvent, StopSlot(fl))
    BY <1>1, <1>6, ConstantsAssumption
       DEF Stop, AnyEvent, StopSlot, Slot, EarliestSlot, BackSlot, UniqueEvents
  <2> QED
    BY <2>1, InsertPosts
<1>7. CASE StopReturns
  <2>1. /\ queue' = <<>> /\ wpc = "exited" /\ wpc' = "none"
        /\ UNCHANGED <<nextID, now, fired>>
    BY <1>7 DEF StopReturns
  <2>2. Pending' = Pending \ Pending
    BY <2>1 DEF Pending
  <2>3. Handled' = Handled
    BY <2>1 DEF Handled, FiringIDs
  <2>4. \E Q \in SUBSET Pending :
          /\ Pending' = Pending \ Q
          /\ UNCHANGED <<now, nextID, Handled>>
    BY <2>1, <2>2, <2>3
  <2> QED
    BY <2>4 DEF Schedule!SNext, Schedule!Withdraw, Pending, Handled
<1>8. CASE Worker
  BY <1>8, WorkerFollowsSchedule
<1>9. CASE SpuriousWakeup
  BY <1>9, QuietStepStutters
     DEF SpuriousWakeup, workerFrame, history, Handled, FiringIDs
<1>10. CASE Tick
  <2>1. /\ now < MaxTime /\ now' = now + 1
        /\ UNCHANGED <<queue, eventID, nextID, wpc, wfid, fired>>
    BY <1>10 DEF Tick, workerVars, history
  <2>2. Pending' = Pending /\ Handled' = Handled
    BY <2>1 DEF Pending, Handled, FiringIDs, ID
  <2>3. Schedule!Tick
    BY <2>1, <2>2 DEF Schedule!Tick, Pending, Handled
  <2> QED
    BY <2>3 DEF Schedule!SNext
<1>11. CASE UNCHANGED vars
  BY <1>11, QuietStepStutters DEF vars, workerVars, history, Handled, FiringIDs
<1> QED
  BY <1>2, <1>3, <1>4, <1>5, <1>6, <1>7, <1>8, <1>9, <1>10, <1>11 DEF Next

\* DSPGTimedEventQueue implements EventSchedule: every posting is handled at
\* most once, never before it is due and never ahead of an older posting due
\* no later, or it is withdrawn, whatever the thread interleaving and for any
\* events, clients and bounds.
THEOREM QueueImplementsSchedule == Spec => ImplementsSchedule
<1>1. Init => Schedule!SInit
  <2> SUFFICES ASSUME Init PROVE Schedule!SInit
    OBVIOUS
  <2>1. Pending = {} /\ Handled = {}
    BY DEF Init, Pending, Handled, FiringIDs
  <2> QED
    BY <2>1 DEF Init, Schedule!SInit, Pending, Handled
<1> QED
  BY <1>1, StepFollowsSchedule, SpecIInv, PTL
     DEF Spec, ImplementsSchedule, Schedule!ScheduleSpec

=============================================================================
