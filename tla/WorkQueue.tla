------------------------------ MODULE WorkQueue ------------------------------
(* moodycamel::ConcurrentQueue as the library uses it (external code).          *)
(*                                                                             *)
(* A queue holds one first-in first-out subqueue for each thread that ever      *)
(* enqueued something.  A dequeue takes the oldest item of some non-empty       *)
(* subqueue: the order between two threads is NOT the order of the calls.       *)
EXTENDS Naturals, Sequences, FiniteSets

\* A queue nobody has written to.
NoWork(Thread) == [t \in Thread |-> << >>]

\* The threads a consumer may be handed an item of.
Waiting(q) == {t \in DOMAIN q : q[t] # << >>}

IsEmpty(q) == Waiting(q) = {}

Oldest(q, t) == Head(q[t])

\* Defect: the newest item goes first.
EnqueueFirst(q, t, item) == [q EXCEPT ![t] = <<item>> \o @]

Enqueue(q, t, item) == [q EXCEPT ![t] = Append(@, item)]

Dequeue(q, t) == [q EXCEPT ![t] = Tail(@)]

\* try_enqueue never allocates: it fails once the preallocated slots are in use.
IsFull(q, Capacity) ==
  Cardinality({slot \in (DOMAIN q) \X (1..Capacity) : slot[2] <= Len(q[slot[1]])})
    >= Capacity
=============================================================================
