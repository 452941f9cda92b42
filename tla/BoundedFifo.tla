---------------------------- MODULE BoundedFifo ----------------------------
(***************************************************************************)
(* What simple_queue.c promises its callers: a FIFO of at most QueueLen    *)
(* numbers.  answer is the last call, with its argument, and what it       *)
(* returned: its return code and the number it handed out, if any.         *)
(***************************************************************************)
EXTENDS PktReqQueue

CONSTANTS Data, None

VARIABLES fifo, answer

fifoVars == <<fifo, answer>>

Answer(call, code, data) == [call |-> call, code |-> code, data |-> data]

FifoInit == fifo = <<>> /\ answer = Answer(<<"reset">>, 0, None)

\* A push is refused exactly when the queue is full, and changes nothing then.
FifoPush(d) ==
  /\ fifo' = Enqueue(fifo, d)
  /\ answer' = Answer(<<"push", d>>, IF IsFull(fifo) THEN 1 ELSE 0, None)

\* A pop hands out the oldest element, and is refused when there is none.
FifoPop ==
  \/ /\ fifo = <<>>
     /\ answer' = Answer(<<"pop">>, 1, None)
     /\ UNCHANGED fifo
  \/ /\ fifo # <<>>
     /\ answer' = Answer(<<"pop">>, 0, Head(fifo))
     /\ fifo' = Tail(fifo)

\* A look at position i (counted from 0) returns the element there; one past
\* the last element it may return anything, further out it is refused.
FifoSeek(i) ==
  /\ UNCHANGED fifo
  /\ \/ i < Len(fifo) /\ answer' = Answer(<<"seek", i>>, 0, fifo[i + 1])
     \/ i = Len(fifo) /\ \E d \in Data : answer' = Answer(<<"seek", i>>, 0, d)
     \/ i > Len(fifo) /\ answer' = Answer(<<"seek", i>>, 1, None)

\* "Is d queued" is answered exactly, except by a full queue, which says no.
FifoIsEnqueued(d) ==
  /\ UNCHANGED fifo
  /\ answer' = Answer(<<"isEnqueued", d>>, IF IsEnqueued(fifo, d) THEN 1 ELSE 0, None)

FifoReset == fifo' = <<>> /\ answer' = Answer(<<"reset">>, 0, None)

FifoNext ==
  \/ \E d \in Data : FifoPush(d) \/ FifoIsEnqueued(d)
  \/ \E i \in 0..QueueLen + 1 : FifoSeek(i)
  \/ FifoPop
  \/ FifoReset

FifoSpec == FifoInit /\ [][FifoNext]_fifoVars
=============================================================================
