---------------------------- MODULE SimpleQueue ----------------------------
(***************************************************************************)
(* submodules/caching_iperf/simple_queue.c: the ring buffer of u16 that    *)
(* every role uses for its pending requests.  One action per function; the *)
(* calls are atomic here (RelayerPreempt.tla takes Pop and Push apart).    *)
(***************************************************************************)
EXTENDS Integers, Sequences

CONSTANTS
  QueueLen,   \* maxLen, the size given to SimpleQueue_Init
  Data,       \* the numbers that are queued; 0 is what memset leaves
  None        \* no number is returned

ASSUME SizeAssumption == QueueLen \in Nat \ {0}
ASSUME DataAssumption == 0 \in Data /\ None \notin Data

VARIABLES
  headIdx, tailIdx, currLen, buf,   \* SimpleQueue_t
  answer                            \* the last call and its result

vars == <<headIdx, tailIdx, currLen, buf, answer>>

Idx == 0..QueueLen - 1

Answer(call, code, data) == [call |-> call, code |-> code, data |-> data]

Call ==
  ({"push", "isEnqueued"} \X Data) \union ({"seek"} \X (0..QueueLen + 1))
    \union {<<"pop">>, <<"reset">>}

\* The slot i places after slot h.
Slot(h, i) == (h + i) % QueueLen

Init ==
  /\ headIdx = 0 /\ tailIdx = 0 /\ currLen = 0
  /\ buf = [i \in Idx |-> 0]
  /\ answer = Answer(<<"reset">>, 0, None)

Reset ==
  /\ headIdx' = 0 /\ tailIdx' = 0 /\ currLen' = 0
  /\ buf' = [i \in Idx |-> 0]
  /\ answer' = Answer(<<"reset">>, 0, None)

Push(d) ==
  \/ /\ currLen = QueueLen
     /\ answer' = Answer(<<"push", d>>, 1, None)
     /\ UNCHANGED <<headIdx, tailIdx, currLen, buf>>
  \/ /\ currLen # QueueLen
     /\ buf' = [buf EXCEPT ![tailIdx] = d]
     /\ tailIdx' = Slot(tailIdx, 1)
     /\ currLen' = currLen + 1
     /\ answer' = Answer(<<"push", d>>, 0, None)
     /\ UNCHANGED headIdx

\* Mutant: currLen-- is forgotten.
PopKeepsLen ==
  \/ /\ currLen = 0
     /\ answer' = Answer(<<"pop">>, 1, None)
     /\ UNCHANGED <<headIdx, tailIdx, currLen, buf>>
  \/ /\ currLen # 0
     /\ answer' = Answer(<<"pop">>, 0, buf[headIdx])
     /\ headIdx' = Slot(headIdx, 1)
     /\ UNCHANGED <<tailIdx, currLen, buf>>

Pop ==
  \/ /\ currLen = 0
     /\ answer' = Answer(<<"pop">>, 1, None)
     /\ UNCHANGED <<headIdx, tailIdx, currLen, buf>>
  \/ /\ currLen # 0
     /\ answer' = Answer(<<"pop">>, 0, buf[headIdx])
     /\ currLen' = currLen - 1
     /\ headIdx' = Slot(headIdx, 1)
     /\ UNCHANGED <<tailIdx, buf>>

\* The bound check lets i = currLen through (idx > currLen, line 59).
Seek(i) ==
  /\ answer' = IF i > currLen THEN Answer(<<"seek", i>>, 1, None)
                              ELSE Answer(<<"seek", i>>, 0, buf[Slot(headIdx, i)])
  /\ UNCHANGED <<headIdx, tailIdx, currLen, buf>>

\* Mutant: the walk does not go round the end of the buffer.
WalkedStraight == headIdx..tailIdx - 1

\* The slots the loop of SimpleQueue_IsEnqueued visits: from head up to, and
\* not including, tail.
Walked == IF headIdx <= tailIdx THEN headIdx..tailIdx - 1
                                ELSE (headIdx..QueueLen - 1) \union (0..tailIdx - 1)

IsEnqueued(d) ==
  /\ answer' = Answer(<<"isEnqueued", d>>, IF \E s \in Walked : buf[s] = d THEN 1 ELSE 0, None)
  /\ UNCHANGED <<headIdx, tailIdx, currLen, buf>>

Next ==
  \/ \E d \in Data : Push(d) \/ IsEnqueued(d)
  \/ \E i \in 0..QueueLen + 1 : Seek(i)
  \/ Pop
  \/ Reset

Spec == Init /\ [][Next]_vars

-----------------------------------------------------------------------------
TypeOK ==
  /\ headIdx \in Idx /\ tailIdx \in Idx
  /\ currLen \in 0..QueueLen
  /\ buf \in [Idx -> Data]
  /\ answer \in [call : Call, code : {0, 1}, data : Data \union {None}]

\* The three fields that say where the elements are agree: tail is currLen
\* slots after head, around the ring (simple_queue.c keeps both currLen and
\* the two indices and updates them separately, lines 35-36 and 52-53).
RingInv == tailIdx = Slot(headIdx, currLen)

\* The elements, oldest first.
Contents == [i \in 1..currLen |-> buf[Slot(headIdx, i - 1)]]

Fifo == INSTANCE BoundedFifo WITH fifo <- Contents

\* The ring buffer implements the bounded FIFO its callers rely on: order,
\* refusals when full and when empty, and the answers of Seek and IsEnqueued.
ImplementsFifo == Fifo!FifoSpec
=============================================================================
