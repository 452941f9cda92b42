------------------------- MODULE SimpleQueueProofs -------------------------
(***************************************************************************)
(* Theorems about the ring buffer, for every size and every set of         *)
(* numbers.                                                                *)
(***************************************************************************)
EXTENDS SimpleQueue, SequenceTheorems, TLAPS

\* Slot is addition around the ring: one wrap at most, and it stays inside.
LEMMA SlotWraps ==
  ASSUME NEW h \in Idx, NEW i \in 0..QueueLen
  PROVE  /\ Slot(h, i) = IF h + i < QueueLen THEN h + i ELSE h + i - QueueLen
         /\ Slot(h, i) \in Idx
<1>1. QueueLen \in Nat /\ QueueLen > 0
  BY SizeAssumption
<1>2. Slot(h, i) = IF h + i < QueueLen THEN h + i ELSE h + i - QueueLen
  BY <1>1 DEF Slot, Idx
<1> QED
  BY <1>1, <1>2 DEF Idx

\* Going i slots and then j more is going i + j slots.
LEMMA SlotOfSlot ==
  ASSUME NEW h \in Idx, NEW i \in 0..QueueLen, NEW j \in 0..QueueLen,
         i + j \in 0..QueueLen
  PROVE  Slot(Slot(h, i), j) = Slot(h, i + j)
<1>1. QueueLen \in Nat /\ h \in Int /\ h >= 0 /\ h < QueueLen
  BY SizeAssumption DEF Idx
<1>2. Slot(h, i) \in Idx
      /\ Slot(h, i) = IF h + i < QueueLen THEN h + i ELSE h + i - QueueLen
  BY SlotWraps
<1>3. Slot(Slot(h, i), j) = IF Slot(h, i) + j < QueueLen THEN Slot(h, i) + j
                                                      ELSE Slot(h, i) + j - QueueLen
  BY <1>2, SlotWraps
<1>4. Slot(h, i + j) = IF h + (i + j) < QueueLen THEN h + (i + j)
                                                ELSE h + (i + j) - QueueLen
  BY SlotWraps
<1> QED
  BY <1>1, <1>2, <1>3, <1>4

\* Every call that Next makes has the type of a call.
LEMMA CallsTyped ==
  /\ \A d \in Data : <<"push", d>> \in Call /\ <<"isEnqueued", d>> \in Call
  /\ \A i \in 0..QueueLen + 1 : <<"seek", i>> \in Call
  /\ <<"pop">> \in Call /\ <<"reset">> \in Call
BY DEF Call

\* The inductive invariant: the types say that no index leaves the buffer.
IInv == TypeOK /\ RingInv

\* SimpleQueue_Init establishes it.
LEMMA InitIInv == Init => IInv
<1> SUFFICES ASSUME Init PROVE IInv
  OBVIOUS
<1>1. 0 \in Idx /\ Slot(0, 0) = 0
  BY SizeAssumption, SlotWraps DEF Idx
<1> QED
  BY <1>1, SizeAssumption, DataAssumption, CallsTyped DEF Init, IInv, TypeOK, RingInv, Answer

\* Every function preserves it.
LEMMA NextIInv == IInv /\ [Next]_vars => IInv'
<1> SUFFICES ASSUME IInv, [Next]_vars PROVE IInv'
  OBVIOUS
<1> USE SizeAssumption, DataAssumption, CallsTyped DEF IInv, TypeOK, Answer
<1>1. ASSUME NEW d \in Data, Push(d) PROVE IInv'
  <2>0. answer' \in [call : Call, code : {0, 1}, data : Data \union {None}]
    <3>1. \E code \in {0, 1} : answer' = Answer(<<"push", d>>, code, None)
      BY <1>1 DEF Push
    <3>2. <<"push", d>> \in Call
      BY CallsTyped
    <3> QED
      BY <3>1, <3>2
  <2>1. CASE currLen = QueueLen
    <3>1. UNCHANGED <<headIdx, tailIdx, currLen, buf>>
      BY <1>1, <2>1 DEF Push
    <3> QED
      BY <2>0, <3>1 DEF RingInv
  <2>2. CASE currLen # QueueLen
    <3>1. currLen' = currLen + 1 /\ tailIdx' = Slot(tailIdx, 1) /\ headIdx' = headIdx
      BY <1>1, <2>2 DEF Push
    <3>2. currLen + 1 \in 0..QueueLen /\ 1 \in 0..QueueLen
      BY <2>2
    <3>3. tailIdx' \in Idx
      BY <3>1, <3>2, SlotWraps
    <3>4. buf' = [buf EXCEPT ![tailIdx] = d]
      BY <1>1, <2>2 DEF Push
    <3>5. Slot(Slot(headIdx, currLen), 1) = Slot(headIdx, currLen + 1)
      BY <3>2, SlotOfSlot
    <3>6. RingInv'
      BY <3>1, <3>5 DEF RingInv, Slot
    <3> QED
      BY <2>0, <3>1, <3>2, <3>3, <3>4, <3>6
  <2> QED
    BY <2>1, <2>2
<1>2. ASSUME Pop PROVE IInv'
  <2>1. CASE currLen = 0
    BY <1>2, <2>1 DEF Pop, RingInv
  <2>2. CASE currLen # 0
    <3>1. currLen' = currLen - 1 /\ headIdx' = Slot(headIdx, 1) /\ tailIdx' = tailIdx
      BY <1>2, <2>2 DEF Pop
    <3>2. currLen - 1 \in 0..QueueLen /\ 1 \in 0..QueueLen
      BY <2>2
    <3>3. headIdx' \in Idx
      BY <3>1, <3>2, SlotWraps
    <3>4. buf' = buf /\ answer' \in [call : Call, code : {0, 1}, data : Data \union {None}]
      BY <1>2, <2>2 DEF Pop
    <3>5. Slot(Slot(headIdx, 1), currLen - 1) = Slot(headIdx, currLen)
      BY <3>2, SlotOfSlot
    <3>6. RingInv'
      BY <3>1, <3>5 DEF RingInv, Slot
    <3> QED
      BY <3>1, <3>2, <3>3, <3>4, <3>6
  <2> QED
    BY <2>1, <2>2
<1>3. ASSUME NEW i \in 0..QueueLen + 1, Seek(i) PROVE IInv'
  <2>1. ~(i > currLen) => buf[Slot(headIdx, i)] \in Data
    BY SlotWraps
  <2> QED
    BY <1>3, <2>1 DEF Seek, RingInv
<1>4. ASSUME NEW d \in Data, IsEnqueued(d) PROVE IInv'
  BY <1>4 DEF IsEnqueued, RingInv
<1>5. ASSUME Reset PROVE IInv'
  <2>1. 0 \in Idx /\ Slot(0, 0) = 0
    BY SlotWraps DEF Idx
  <2> QED
    BY <1>5, <2>1 DEF Reset, RingInv
<1>6. CASE UNCHANGED vars
  BY <1>6 DEF vars, RingInv
<1> QED
  BY <1>1, <1>2, <1>3, <1>4, <1>5, <1>6 DEF Next

\* The fields of the queue keep their types, and head, tail and length agree,
\* whatever sequence of calls the roles make (simple_queue.c:26-55).
THEOREM RingConsistent == Spec => [](TypeOK /\ RingInv)
<1>1. IInv => TypeOK /\ RingInv
  BY DEF IInv
<1> QED
  BY <1>1, InitIInv, NextIInv, PTL DEF Spec

-----------------------------------------------------------------------------
(* The refinement: Contents, read off the ring, moves as a FIFO does.        *)

\* Fewer than a full turn apart, two slots of the ring are different slots.
LEMMA SlotsDiffer ==
  ASSUME NEW h \in Idx, NEW i \in 0..QueueLen - 1, NEW j \in 0..QueueLen - 1, i # j
  PROVE  Slot(h, i) # Slot(h, j)
<1>1. QueueLen \in Nat /\ h \in Int /\ h >= 0 /\ h < QueueLen
  BY SizeAssumption DEF Idx
<1>2. Slot(h, i) = IF h + i < QueueLen THEN h + i ELSE h + i - QueueLen
  BY <1>1, SlotWraps
<1>3. Slot(h, j) = IF h + j < QueueLen THEN h + j ELSE h + j - QueueLen
  BY <1>1, SlotWraps
<1> QED
  BY <1>1, <1>2, <1>3

\* Contents is a sequence of numbers, currLen long.
LEMMA ContentsType ==
  ASSUME IInv
  PROVE  /\ Contents \in Seq(Data)
         /\ Len(Contents) = currLen
         /\ \A i \in 1..currLen : Contents[i] = buf[Slot(headIdx, i - 1)]
<1>1. \A i \in 1..currLen : Slot(headIdx, i - 1) \in Idx
  BY SizeAssumption, SlotWraps DEF IInv, TypeOK
<1>2. \A i \in 1..currLen : buf[Slot(headIdx, i - 1)] \in Data
  BY <1>1 DEF IInv, TypeOK
<1>3. currLen \in Nat
  BY SizeAssumption DEF IInv, TypeOK
<1> QED
  BY <1>2, <1>3 DEF Contents

\* SimpleQueue_Push appends to Contents, or is refused when it is full.
LEMMA PushAppends ==
  ASSUME IInv, IInv', NEW d \in Data, Push(d)
  PROVE  Fifo!FifoPush(d)
<1> USE SizeAssumption DEF Fifo!FifoPush, Fifo!Enqueue, Fifo!IsFull, Fifo!Answer, Answer
<1>0. Contents \in Seq(Data) /\ Len(Contents) = currLen
  BY ContentsType
<1>1. CASE currLen = QueueLen
  <2>1. Contents' = Contents
    BY <1>1 DEF Push, Contents
  <2> QED
    BY <1>0, <1>1, <2>1 DEF Push
<1>2. CASE currLen # QueueLen
  <2>1. /\ currLen' = currLen + 1 /\ headIdx' = headIdx /\ tailIdx = Slot(headIdx, currLen)
        /\ buf' = [buf EXCEPT ![tailIdx] = d] /\ currLen \in 0..QueueLen - 1
        /\ headIdx \in Idx /\ tailIdx \in Idx /\ buf \in [Idx -> Data]
        /\ answer' = Answer(<<"push", d>>, 0, None)
    BY <1>2 DEF Push, IInv, TypeOK, RingInv
  <2>2. Contents' \in Seq(Data) /\ Len(Contents') = currLen + 1
    BY <2>1 DEF Contents, IInv, TypeOK, Slot, Idx
  <2>3. \A i \in 1..currLen + 1 : Contents'[i] = buf'[Slot(headIdx, i - 1)]
    BY <2>1 DEF Contents, Slot
  <2>4. ASSUME NEW i \in 1..currLen PROVE Contents'[i] = Contents[i]
    <3>1. Slot(headIdx, i - 1) # tailIdx /\ Slot(headIdx, i - 1) \in Idx
      BY <2>1, SlotsDiffer, SlotWraps
    <3>2. Contents'[i] = buf[Slot(headIdx, i - 1)]
      BY <2>1, <2>3, <3>1
    <3> QED
      BY <3>2, ContentsType
  <2>5. Contents'[currLen + 1] = d
    BY <2>1, <2>3
  <2>6. Append(Contents, d) \in Seq(Data) /\ Len(Append(Contents, d)) = currLen + 1
        /\ \A i \in 1..currLen + 1 :
              Append(Contents, d)[i] = IF i = currLen + 1 THEN d ELSE Contents[i]
    BY <1>0
  <2>7. Contents' = Append(Contents, d)
    BY <2>1, <2>2, <2>4, <2>5, <2>6, SeqEqual
  <2> QED
    BY <1>0, <1>2, <2>1, <2>7
<1> QED
  BY <1>1, <1>2

\* SimpleQueue_Pop takes the first element of Contents.
LEMMA PopTakesHead ==
  ASSUME IInv, IInv', Pop
  PROVE  Fifo!FifoPop
<1> USE SizeAssumption DEF Fifo!FifoPop, Fifo!Answer, Answer
<1>0. Contents \in Seq(Data) /\ Len(Contents) = currLen
      /\ \A i \in 1..currLen : Contents[i] = buf[Slot(headIdx, i - 1)]
  BY ContentsType
<1>1. CASE currLen = 0
  <2>1. Contents' = Contents /\ Contents = <<>>
    BY <1>0, <1>1 DEF Pop, Contents
  <2> QED
    BY <1>1, <2>1 DEF Pop
<1>2. CASE currLen # 0
  <2>1. /\ currLen' = currLen - 1 /\ headIdx' = Slot(headIdx, 1) /\ buf' = buf
        /\ answer' = Answer(<<"pop">>, 0, buf[headIdx]) /\ currLen \in 1..QueueLen
        /\ headIdx \in Idx /\ buf \in [Idx -> Data]
    BY <1>2 DEF Pop, IInv, TypeOK
  <2>2. Contents # <<>> /\ Head(Contents) = buf[headIdx]
    <3>1. Slot(headIdx, 0) = headIdx
      BY <2>1, SlotWraps DEF Idx
    <3> QED
      BY <1>0, <2>1, <3>1
  <2>3. Contents' \in Seq(Data) /\ Len(Contents') = currLen - 1
    BY <2>1 DEF Contents, IInv, TypeOK, Slot, Idx
  <2>4. Tail(Contents) \in Seq(Data) /\ Len(Tail(Contents)) = currLen - 1
        /\ \A i \in 1..currLen - 1 : Tail(Contents)[i] = Contents[i + 1]
    BY <1>0, <2>2, HeadTailProperties
  <2>5. ASSUME NEW i \in 1..currLen - 1 PROVE Contents'[i] = Tail(Contents)[i]
    <3>1. Contents'[i] = buf[Slot(Slot(headIdx, 1), i - 1)]
      BY <2>1 DEF Contents, Slot
    <3>2. Slot(Slot(headIdx, 1), i - 1) = Slot(headIdx, i)
      <4>1. 1 + (i - 1) = i /\ i - 1 \in 0..QueueLen /\ 1 \in 0..QueueLen /\ i \in 0..QueueLen
        BY <2>1
      <4> QED
        BY <2>1, <4>1, SlotOfSlot
    <3>3. i + 1 \in 1..currLen /\ (i + 1) - 1 = i
      BY <2>1
    <3> QED
      BY <1>0, <2>4, <3>1, <3>2, <3>3
  <2>6. Contents' = Tail(Contents)
    BY <2>1, <2>3, <2>4, <2>5, SeqEqual
  <2> QED
    BY <2>1, <2>2, <2>6
<1> QED
  BY <1>1, <1>2

\* SimpleQueue_Seek returns the element of Contents at a position.
LEMMA SeekLooksUp ==
  ASSUME IInv, NEW i \in 0..QueueLen + 1, Seek(i)
  PROVE  Fifo!FifoSeek(i)
<1> USE SizeAssumption DEF Fifo!FifoSeek, Fifo!Answer, Answer
<1>0. /\ Len(Contents) = currLen /\ currLen \in 0..QueueLen
      /\ \A k \in 1..currLen : Contents[k] = buf[Slot(headIdx, k - 1)]
  BY ContentsType DEF IInv, TypeOK
<1>1. Contents' = Contents
  BY DEF Seek, Contents
<1>2. CASE i < currLen
  <2>1. i + 1 \in 1..currLen /\ (i + 1) - 1 = i
    BY <1>0, <1>2
  <2>2. answer' = Answer(<<"seek", i>>, 0, Contents[i + 1])
    BY <1>0, <1>2, <2>1 DEF Seek
  <2> QED
    BY <1>0, <1>1, <1>2, <2>2
<1>3. CASE i = currLen
  <2>1. buf[Slot(headIdx, i)] \in Data
    BY <1>0, <1>3, SlotWraps DEF IInv, TypeOK
  <2> QED
    BY <1>0, <1>1, <1>3, <2>1 DEF Seek
<1>4. CASE i > currLen
  BY <1>0, <1>1, <1>4 DEF Seek
<1> QED
  BY <1>0, <1>2, <1>3, <1>4

\* The slots the loop visits hold exactly the elements, unless the queue is
\* full: then head = tail and it visits none.
LEMMA WalkedSlots ==
  ASSUME IInv
  PROVE  Walked = IF currLen = QueueLen THEN {}
                  ELSE {Slot(headIdx, k - 1) : k \in 1..currLen}
<1> USE SizeAssumption DEF IInv, TypeOK, RingInv, Idx
<1>1. tailIdx = IF headIdx + currLen < QueueLen THEN headIdx + currLen
                                               ELSE headIdx + currLen - QueueLen
  BY SlotWraps
<1>2. \A k \in 1..currLen :
         Slot(headIdx, k - 1) = IF headIdx + (k - 1) < QueueLen THEN headIdx + (k - 1)
                                                  ELSE headIdx + (k - 1) - QueueLen
  <2>1. \A k \in 1..currLen : k - 1 \in 0..QueueLen
    OBVIOUS
  <2> QED
    BY <2>1, SlotWraps
<1>3. CASE currLen = QueueLen
  BY <1>1, <1>3 DEF Walked
<1>4. CASE currLen # QueueLen
  <2>1. ASSUME NEW s \in Walked PROVE \E k \in 1..currLen : s = Slot(headIdx, k - 1)
    <3>1. CASE s >= headIdx
      <4>1. s - headIdx + 1 \in 1..currLen /\ (s - headIdx + 1) - 1 = s - headIdx
        BY <1>1, <1>4, <2>1, <3>1 DEF Walked
      <4>2. s \in Int /\ headIdx + (s - headIdx) = s /\ s < QueueLen
        BY <2>1 DEF Walked
      <4>3. Slot(headIdx, (s - headIdx + 1) - 1) = s
        BY <1>2, <4>1, <4>2
      <4> QED
        BY <4>1, <4>3
    <3>2. CASE s < headIdx
      <4> DEFINE k == s + QueueLen - headIdx + 1
      <4>1. k \in 1..currLen /\ k - 1 = s + QueueLen - headIdx
        BY <1>1, <1>4, <2>1, <3>2 DEF Walked
      <4>2. s \in Int /\ s >= 0 /\ headIdx + (s + QueueLen - headIdx) = s + QueueLen
        BY <2>1 DEF Walked
      <4> HIDE DEF k
      <4>3. Slot(headIdx, k - 1) = s
        BY <1>2, <4>1, <4>2
      <4> QED
        BY <4>1, <4>3
    <3> QED
      BY <2>1, <3>1, <3>2 DEF Walked
  <2>2. ASSUME NEW k \in 1..currLen PROVE Slot(headIdx, k - 1) \in Walked
    BY <1>1, <1>2, <1>4 DEF Walked
  <2> QED
    BY <1>4, <2>1, <2>2
<1> QED
  BY <1>3, <1>4

\* SimpleQueue_IsEnqueued answers as the abstract queue does, full or not.
LEMMA WalkAnswers ==
  ASSUME IInv, NEW d \in Data, IsEnqueued(d)
  PROVE  Fifo!FifoIsEnqueued(d)
<1> USE DEF Fifo!FifoIsEnqueued, Fifo!IsEnqueued, Fifo!IsFull, Fifo!Answer, Answer
<1>1. /\ Contents \in Seq(Data) /\ Len(Contents) = currLen
      /\ \A k \in 1..currLen : Contents[k] = buf[Slot(headIdx, k - 1)]
  BY ContentsType
<1>2. Contents' = Contents
  BY DEF IsEnqueued, Contents
<1>3. (\E s \in Walked : buf[s] = d) <=> Fifo!IsEnqueued(Contents, d)
  <2>1. Fifo!Range(Contents) = {buf[Slot(headIdx, k - 1)] : k \in 1..currLen}
    BY <1>1 DEF Fifo!Range
  <2> QED
    BY <1>1, <2>1, WalkedSlots
<1> QED
  BY <1>2, <1>3 DEF IsEnqueued

\* Any sequence of calls on the ring buffer is one the bounded FIFO allows, so
\* the models of the roles may use the FIFO (simple_queue.c:26-81).
THEOREM RefinesFifo == Spec => ImplementsFifo
<1>1. Init => Fifo!FifoInit
  BY DEF Init, Fifo!FifoInit, Fifo!Answer, Answer, Contents
<1>2. IInv /\ IInv' /\ [Next]_vars => [Fifo!FifoNext]_Fifo!fifoVars
  <2> SUFFICES ASSUME IInv, IInv', [Next]_vars
               PROVE  Fifo!FifoNext \/ UNCHANGED Fifo!fifoVars
    OBVIOUS
  <2>1. CASE \E d \in Data : Push(d) \/ IsEnqueued(d)
    BY <2>1, PushAppends, WalkAnswers DEF Fifo!FifoNext
  <2>2. CASE \E i \in 0..QueueLen + 1 : Seek(i)
    BY <2>2, SeekLooksUp DEF Fifo!FifoNext
  <2>3. CASE Pop
    BY <2>3, PopTakesHead DEF Fifo!FifoNext
  <2>4. CASE Reset
    BY <2>4 DEF Reset, Contents, Answer, Fifo!FifoNext, Fifo!FifoReset, Fifo!Answer
  <2>5. CASE UNCHANGED vars
    BY <2>5 DEF vars, Contents, Fifo!fifoVars
  <2> QED
    BY <2>1, <2>2, <2>3, <2>4, <2>5 DEF Next
<1> QED
  BY <1>1, <1>2, InitIInv, NextIInv, PTL DEF Spec, ImplementsFifo, Fifo!FifoSpec
=============================================================================
