---------------------------- MODULE PktReqQueue ----------------------------
(***************************************************************************)
(* The request queue of the firmware (pktReqQueue, iperf.c:62-65) as its   *)
(* users see it: a bounded FIFO.  SimpleQueue.tla models the ring buffer   *)
(* behind it and is checked, and proved, to implement BoundedFifo.tla,     *)
(* which is built from these operators.                                    *)
(***************************************************************************)
EXTENDS Integers, Sequences, FiniteSets, Functions

CONSTANT QueueLen        \* PKT_REQ_QUEUE_LEN, iperf.c:63

ASSUME QueueLenAssumption == QueueLen \in Nat \ {0}

IsFull(q) == Len(q) = QueueLen

\* SimpleQueue_Push: a full queue refuses the element and says so.
Enqueue(q, d) == IF IsFull(q) THEN q ELSE Append(q, d)

\* Mutant: no push is refused.
EnqueueAllUnchecked(q, s) == q \o s

\* Pushing the elements of s one after the other; those that do not fit are
\* refused, and no caller looks at the result.
EnqueueAll(q, s) ==
  LET room == QueueLen - Len(q)
  IN  q \o SubSeq(s, 1, IF Len(s) <= room THEN Len(s) ELSE room)

\* SimpleQueue_IsEnqueued walks from head to tail, and the two are equal when
\* the queue is full: a full queue answers "no" for every element.
IsEnqueued(q, d) == ~IsFull(q) /\ d \in Range(q)

\* The ascending listing of a finite set of numbers, as the only element.
Listing(S) ==
  {s \in [1..Cardinality(S) -> S] : \A i, j \in DOMAIN s : i < j => s[i] < s[j]}

\* The elements of list at the places that order lists.
Picked(list, order) == [n \in DOMAIN order |-> list[order[n]]]
=============================================================================
