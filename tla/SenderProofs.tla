---------------------------- MODULE SenderProofs ----------------------------
(***************************************************************************)
(* Theorems about the sender, for files, queues and mailboxes of every     *)
(* size, every number of requests and every timing of its timer.           *)
(***************************************************************************)
EXTENDS Sender, MailboxProofs, FiniteSetTheorems

-----------------------------------------------------------------------------
(* The mailbox.                                                              *)

MailboxType == mailbox \in Seq(Message)

\* The messages that are posted are messages.
LEMMA MessagesTyped ==
  /\ \A k \in Chunk : Msg("PKT_REQ", <<k>>) \in Message
  /\ \A list \in Bulks : Msg("BULK_REQ", list) \in Message
  /\ \A t \in {"OTHER", "START", "SEND_FILE", "STOP"} : Msg(t, <<>>) \in Message
BY DEF Msg, Message

\* The environment without the bound on its inputs.
Input ==
  \/ \E k \in 0..NumPkts - 1 : Deliver(Msg("PKT_REQ", <<k>>))
  \/ \E list \in Bulks : Deliver(Msg("BULK_REQ", list))
  \/ Deliver(Msg("OTHER", <<>>))
  \/ ShellStart \/ ShellStop \/ ShellSender

FreeNext == Thread \/ IntervalTimerFires \/ Input

\* The bound only takes steps away.
LEMMA NextIsFree ==
  /\ Environment => Input
  /\ [Next]_vars => [FreeNext]_vars
<1>1. Environment => Input
  BY DEF Environment, PktReqArrives, BulkReqArrives, OtherArrives, Input
<1> QED
  BY <1>1 DEF Next, FreeNext

\* Every step outside the thread leaves the mailbox alone, appends a message
\* or starts a new thread with an empty one.
LEMMA PostsTyped ==
  ASSUME IntervalTimerFires \/ Input
  PROVE  \/ ShellSender
         \/ mailbox' = mailbox
         \/ \E m \in Message : mailbox' = Append(mailbox, m)
<1>1. \A k \in 0..NumPkts - 1 : k \in Chunk
  BY SenderAssumption DEF Chunk
<1> QED
  BY <1>1, MessagesTyped DEF IntervalTimerFires, Input, ShellStart, ShellStop, Deliver, Command

\* A step of the thread takes the head of the mailbox and posts nothing.
LEMMA ThreadTakes ==
  ASSUME Thread
  PROVE  /\ Alive /\ mailbox # <<>> /\ mailbox' = Tail(mailbox)
         /\ UNCHANGED <<mode, running, ipcLost>>
BY DEF Thread, HandlePktReq, HandleBulkReq, HandleOther, HandleStart, HandleSendFile,
       HandleStop, Take

\* The mailbox is a sequence of messages.
LEMMA NextMailbox ==
  ASSUME MailboxType, [FreeNext]_vars PROVE MailboxType'
<1>1. CASE Thread
  BY <1>1, ThreadTakes, HeadTailProperties DEF MailboxType
<1>2. CASE IntervalTimerFires \/ Input
  <2>1. CASE ShellSender
    BY <2>1, EmptySeq DEF ShellSender, MailboxType
  <2>2. CASE mailbox' = mailbox
    BY <2>2 DEF MailboxType
  <2>3. CASE \E m \in Message : mailbox' = Append(mailbox, m)
    BY <2>3, AppendProperties DEF MailboxType
  <2> QED
    BY <1>2, <2>1, <2>2, <2>3, PostsTyped
<1>3. CASE UNCHANGED vars
  BY <1>3 DEF vars, MailboxType
<1> QED
  BY <1>1, <1>2, <1>3 DEF FreeNext

LEMMA MailboxTyped == Spec => []MailboxType
<1>1. Init => MailboxType
  BY EmptySeq DEF Init, MailboxType
<1>2. MailboxType /\ [Next]_vars => MailboxType'
  BY NextIsFree, NextMailbox
<1> QED
  BY <1>1, <1>2, PTL DEF Spec

\* The shell and the network keep what waits, unless a new thread is started.
LEMMA EnvironmentKeeps ==
  ASSUME MailboxType, Input, ~ShellSender
  PROVE  /\ \A t : Holds(mailbox, t) => Holds(mailbox', t)
         /\ UNCHANGED <<iperfState, mode, lastPktSeqNo, numSent, reqQueue, intervalTimer, ipcLost>>
<1>1. ASSUME NEW t, Holds(mailbox, t) PROVE Holds(mailbox', t)
  BY <1>1, PostsTyped, HoldsAppend DEF MailboxType
<1>2. UNCHANGED <<iperfState, mode, lastPktSeqNo, numSent, reqQueue, intervalTimer, ipcLost>>
  BY DEF Input, ShellStart, ShellStop, Deliver, Command
<1> QED
  BY <1>1, <1>2

-----------------------------------------------------------------------------
(* The next step is always scheduled.                                        *)

TickingInv == intervalTimer # "off" \/ Holds(mailbox, "SEND_FILE")

\* A transfer to go on with, or a request to answer.
WorkLeft == iperfState = "SENDING" \/ (Alive /\ reqQueue # <<>>)

WorkInv == WorkLeft /\ ~ipcLost => TickingInv

\* A sending step that leaves work behind arms the timer.
LEMMA SendFileArms ==
  ASSUME HandleSendFile, WorkLeft' PROVE intervalTimer' # "off"
<1>1. CASE iperfState = "IDLE"
  BY <1>1 DEF HandleSendFile, IdleRearmed, WorkLeft
<1>2. CASE iperfState # "IDLE"
  <2>1. PICK done \in Done(lastPktSeqNo', numSent', reqQueue') :
           /\ iperfState' = IF ~done THEN iperfState
                            ELSE IF mode = "BIDIR" THEN "WAITING" ELSE "STOPPED"
           /\ intervalTimer' = IF done THEN intervalTimer ELSE "armed"
    BY <1>2 DEF HandleSendFile, Rearmed
  <2>2. CASE done
    <3>1. mode = "BIDIR"
      BY <2>1, <2>2 DEF WorkLeft, Alive
    <3>2. reqQueue' = <<>>
      BY <2>2, <3>1 DEF Done
    <3> QED
      BY <2>1, <2>2, <3>1, <3>2 DEF WorkLeft
  <2>3. CASE ~done
    BY <2>1, <2>3
  <2> QED
    BY <2>2, <2>3
<1> QED
  BY <1>1, <1>2

\* Every step keeps the next one scheduled as long as there is work.
LEMMA NextWork ==
  ASSUME MailboxType, WorkInv, [FreeNext]_vars PROVE WorkInv'
<1> SUFFICES ASSUME WorkLeft', ~ipcLost' PROVE TickingInv'
  BY DEF WorkInv
<1>1. CASE HandlePktReq
  BY <1>1 DEF HandlePktReq, TickingInv
<1>2. CASE HandleBulkReq
  BY <1>2 DEF HandleBulkReq, TimerSet, TickingInv
<1>3. CASE HandleOther
  <2>1. mailbox # <<>> /\ mailbox' = Tail(mailbox) /\ Head(mailbox).type # "SEND_FILE"
        /\ UNCHANGED <<iperfState, reqQueue, intervalTimer, ipcLost>>
    BY <1>3 DEF HandleOther, Take
  <2> QED
    BY <2>1, HoldsTail DEF MailboxType, WorkInv, WorkLeft, Alive, TickingInv
<1>4. CASE HandleStart
  BY <1>4 DEF HandleStart, TickingInv
<1>5. CASE HandleSendFile
  BY <1>5, SendFileArms DEF TickingInv
<1>6. CASE HandleStop
  BY <1>6 DEF HandleStop, WorkLeft, Alive
<1>7. CASE IntervalTimerFires
  <2>1. Alive /\ ~Overflow
    BY <1>7 DEF IntervalTimerFires, WorkLeft, Alive
  <2>2. mailbox' = Append(mailbox, Msg("SEND_FILE", <<>>))
    BY <1>7, <2>1 DEF IntervalTimerFires
  <2> QED
    BY <2>2, MessagesTyped, HoldsAppend DEF MailboxType, TickingInv, Msg
<1>8. CASE Input
  <2>1. CASE ShellSender
    BY <2>1 DEF ShellSender, WorkLeft
  <2>2. CASE ~ShellSender
    BY <1>8, <2>2, EnvironmentKeeps DEF WorkInv, WorkLeft, Alive, TickingInv
  <2> QED
    BY <2>1, <2>2
<1>9. CASE UNCHANGED vars
  BY <1>9 DEF vars, WorkInv, WorkLeft, Alive, TickingInv
<1> QED
  BY <1>1, <1>2, <1>3, <1>4, <1>5, <1>6, <1>7, <1>8, <1>9 DEF FreeNext, Thread

\* As long as there is work, its next step is scheduled.
LEMMA WorkScheduled == Spec => []WorkInv
<1>1. Init => WorkInv
  BY DEF Init, WorkInv, WorkLeft
<1>2. MailboxType /\ WorkInv /\ [Next]_vars => WorkInv'
  BY NextIsFree, NextWork
<1> QED
  BY <1>1, <1>2, MailboxTyped, PTL DEF Spec

\* An unfinished transfer, in every mode and whatever requests, starts and
\* stray packets come between, has the timer set or its message waiting
\* (sender.c:222-241, 282-290).
THEOREM TransferTicks == Spec => []SendingTicks
<1>1. WorkInv => SendingTicks
  BY DEF WorkInv, WorkLeft, SendingTicks, Ticking, TickingInv, Pending, Holds
<1> QED
  BY <1>1, WorkScheduled, PTL

\* A request that waits in the queue, in whatever state it found the sender,
\* has the timer set or its message waiting (sender.c:87-119, 212-219).
THEOREM RequestTicks == Spec => []RequestsTick
<1>1. WorkInv => RequestsTick
  BY DEF WorkInv, WorkLeft, RequestsTick, Ticking, TickingInv, Pending, Holds
<1> QED
  BY <1>1, WorkScheduled, PTL

-----------------------------------------------------------------------------
(* Mode SIZE.                                                                *)

\* A STOP waits only after the shell has stopped the role, and a thread that is
\* not in mode BIDIR never waits for interests.
SizeInv ==
  /\ mode \in Modes
  /\ lastPktSeqNo \in Int /\ numSent \in Nat
  /\ running \in BOOLEAN
  /\ Holds(mailbox, "STOP") => ~running
  /\ mode = "SIZE" => iperfState \in {"STOPPED", "IDLE", "SENDING"}
  /\ SizeIsExact

\* A sending step counts one packet and moves on by at most one chunk.
LEMMA SendFileSize ==
  ASSUME MailboxType, SizeInv, HandleSendFile PROVE SizeInv'
<1>1. /\ mailbox # <<>> /\ mailbox' = Tail(mailbox)
      /\ UNCHANGED <<mode, running>>
      /\ lastPktSeqNo' \in {lastPktSeqNo, lastPktSeqNo + 1}
  BY DEF HandleSendFile, Take
<1>2. Holds(mailbox', "STOP") => ~running'
  BY <1>1, TailHolds DEF MailboxType, SizeInv
<1>3. /\ lastPktSeqNo' \in Int /\ mode' \in Modes /\ running' \in BOOLEAN
  BY <1>1 DEF SizeInv
<1>4. CASE iperfState = "IDLE"
  <2>1. UNCHANGED <<iperfState, numSent>>
    BY <1>4 DEF HandleSendFile
  <2> QED
    BY <1>1, <1>2, <1>3, <1>4, <2>1 DEF SizeInv, SizeIsExact
<1>5. CASE iperfState # "IDLE" /\ mode # "SIZE"
  <2>1. numSent' = numSent
    BY <1>5 DEF HandleSendFile
  <2> QED
    BY <1>1, <1>2, <1>3, <1>5, <2>1 DEF SizeInv, SizeIsExact
<1>6. CASE iperfState # "IDLE" /\ mode = "SIZE"
  <2>1. iperfState = "SENDING" /\ lastPktSeqNo < numSent /\ numSent < SizePkts
    BY <1>6 DEF SizeInv, SizeIsExact, HandleSendFile, Take, Alive
  <2>2. numSent' = numSent + 1
    BY <1>6 DEF HandleSendFile
  <2>3. PICK done \in Done(lastPktSeqNo', numSent', reqQueue') :
          iperfState' = IF ~done THEN iperfState
                        ELSE IF mode = "BIDIR" THEN "WAITING" ELSE "STOPPED"
    BY <1>6 DEF HandleSendFile
  <2>4. done <=> numSent' >= SizePkts
    BY <1>6, <2>3 DEF Done
  <2>5. iperfState' = IF numSent' >= SizePkts THEN "STOPPED" ELSE "SENDING"
    BY <1>6, <2>1, <2>3, <2>4
  <2>6. SizePkts \in Nat
    BY SenderAssumption
  <2> QED
    BY <1>1, <1>2, <1>3, <1>6, <2>1, <2>2, <2>5, <2>6 DEF SizeInv, SizeIsExact
<1> QED
  BY <1>4, <1>5, <1>6

\* The other handlers of the thread.
LEMMA ThreadSize ==
  ASSUME MailboxType, SizeInv, Thread, ~HandleSendFile PROVE SizeInv'
<1>1. /\ mailbox # <<>> /\ mailbox' = Tail(mailbox) /\ UNCHANGED <<mode, running>>
  BY ThreadTakes
<1>2. Holds(mailbox', "STOP") => ~running'
  BY <1>1, TailHolds DEF MailboxType, SizeInv
<1>3. CASE HandlePktReq \/ HandleBulkReq \/ HandleOther
  <2>1. UNCHANGED <<iperfState, lastPktSeqNo, numSent>>
    BY <1>3 DEF HandlePktReq, HandleBulkReq, HandleOther
  <2> QED
    BY <1>1, <1>2, <2>1 DEF SizeInv, SizeIsExact
<1>4. CASE HandleStart
  <2>1. iperfState' = "SENDING" /\ lastPktSeqNo' = -1 /\ numSent' = 0
    BY <1>4 DEF HandleStart
  <2>2. SizePkts \in Nat /\ 0 < SizePkts
    BY SenderAssumption
  <2> QED
    BY <1>1, <1>2, <2>1, <2>2 DEF SizeInv, SizeIsExact
<1>5. CASE HandleStop
  <2>1. iperfState' = "STOPPED" /\ UNCHANGED <<lastPktSeqNo, numSent>>
    BY <1>5 DEF HandleStop
  <2>2. ~running
    BY <1>1, <1>5, TailHolds DEF HandleStop, Take, MailboxType, SizeInv
  <2> QED
    BY <1>1, <1>2, <2>1, <2>2 DEF SizeInv, SizeIsExact
<1> QED
  BY <1>3, <1>4, <1>5 DEF Thread

\* The timer, the network and the shell.
LEMMA EnvironmentSize ==
  ASSUME MailboxType, SizeInv, IntervalTimerFires \/ Input PROVE SizeInv'
<1>1. CASE ShellSender
  BY <1>1, EmptyHolds DEF ShellSender, SizeInv, SizeIsExact
<1>2. CASE ShellStop
  <2>1. running' = FALSE /\ UNCHANGED <<mode, iperfState, lastPktSeqNo, numSent>>
    BY <1>2 DEF ShellStop, Command
  <2> QED
    BY <2>1 DEF SizeInv, SizeIsExact
<1>3. CASE ~ShellSender /\ ~ShellStop
  <2>1. UNCHANGED <<mode, running, iperfState, lastPktSeqNo, numSent>>
    BY <1>3 DEF IntervalTimerFires, Input, ShellStart, Deliver, Command
  <2>2. \/ mailbox' = mailbox
        \/ \E m \in Message : m.type # "STOP" /\ mailbox' = Append(mailbox, m)
    <3>1. \A k \in 0..NumPkts - 1 : k \in Chunk
      BY SenderAssumption DEF Chunk
    <3>2. /\ \A k \in Chunk : Msg("PKT_REQ", <<k>>).type # "STOP"
          /\ \A list \in Bulks : Msg("BULK_REQ", list).type # "STOP"
          /\ \A t \in {"OTHER", "START", "SEND_FILE"} : Msg(t, <<>>).type # "STOP"
      BY DEF Msg
    <3> QED
      BY <1>3, <3>1, <3>2, MessagesTyped
      DEF IntervalTimerFires, Input, ShellStart, Deliver, Command
  <2>3. Holds(mailbox', "STOP") => Holds(mailbox, "STOP")
    BY <2>2, HoldsAppend DEF MailboxType
  <2> QED
    BY <2>1, <2>3 DEF SizeInv, SizeIsExact
<1> QED
  BY <1>1, <1>2, <1>3

\* In mode SIZE a transfer ends with the packet that reaches the size and with
\* no chunk beyond it, for every size and any number of requests in between
\* (sender.c:51-67, 221-229).
THEOREM SizeReached == Spec => []SizeIsExact
<1>1. Init => SizeInv
  BY EmptyHolds DEF Init, SizeInv, SizeIsExact
<1>2. MailboxType /\ SizeInv /\ [Next]_vars => SizeInv'
  <2> SUFFICES ASSUME MailboxType, SizeInv, [Next]_vars PROVE SizeInv'
    OBVIOUS
  <2>1. CASE UNCHANGED vars
    BY <2>1 DEF vars, SizeInv, SizeIsExact
  <2> QED
    BY <2>1, SendFileSize, ThreadSize, EnvironmentSize, NextIsFree DEF Next
<1>3. SizeInv => SizeIsExact
  BY DEF SizeInv
<1> QED
  BY <1>1, <1>2, <1>3, MailboxTyped, PTL DEF Spec

-----------------------------------------------------------------------------
(* Type correctness.                                                         *)

\* Pushing a sequence of chunks on the request queue.
LEMMA EnqueueAllTyped ==
  ASSUME NEW S, NEW q \in Seq(S), Len(q) <= QueueLen, NEW s \in Seq(S)
  PROVE  EnqueueAll(q, s) \in Seq(S) /\ Len(EnqueueAll(q, s)) <= QueueLen
<1> DEFINE n == IF Len(s) <= QueueLen - Len(q) THEN Len(s) ELSE QueueLen - Len(q)
<1>1. n \in 0..Len(s) /\ Len(q) + n <= QueueLen /\ Len(q) \in Nat /\ Len(s) \in Nat
  BY QueueLenAssumption
<1>2. EnqueueAll(q, s) = q \o SubSeq(s, 1, n)
  BY DEF EnqueueAll
<1> HIDE DEF n
<1>3. SubSeq(s, 1, n) \in Seq(S) /\ Len(SubSeq(s, 1, n)) = n
  <2>1. \A i \in 1..n : s[i] \in S
    BY <1>1
  <2> QED
    BY <1>1, <2>1, SubSeqProperties
<1> QED
  BY <1>1, <1>2, <1>3

\* The entries of a list that are not struck out, in order.
LEMMA PickedTyped ==
  ASSUME NEW A, NEW list \in Seq(A \union {Invalid}), NEW order \in Listing(Requests(list))
  PROVE  Picked(list, order) \in Seq(A)
<1> DEFINE n == Cardinality(Requests(list))
<1>1. DOMAIN list = 1..Len(list) /\ Len(list) \in Nat
  OBVIOUS
<1>2. n \in Nat
  <2>1. IsFiniteSet(1..Len(list))
    BY <1>1, FS_Interval
  <2>2. Requests(list) \in SUBSET (1..Len(list))
    BY <1>1 DEF Requests
  <2> QED
    BY <2>1, <2>2, FS_Subset, FS_CardinalityType
<1>3. order \in [1..n -> Requests(list)]
  BY DEF Listing
<1>4. \A i \in 1..n : list[order[i]] \in A
  BY <1>1, <1>3 DEF Requests
<1>5. Picked(list, order) = [i \in 1..n |-> list[order[i]]]
  BY <1>3 DEF Picked
<1> QED
  BY <1>2, <1>4, <1>5

\* What a bulk request asks for is a sequence of chunks.
LEMMA RequestsTyped ==
  ASSUME NEW list \in Bulks, NEW order \in Listing(Requests(list))
  PROVE  Picked(list, order) \in Seq(Chunk)
<1>1. list \in Seq(Chunk \union {Invalid})
  BY SenderAssumption
<1> QED
  BY <1>1, PickedTyped

\* A step of the thread.
LEMMA ThreadTyped ==
  ASSUME TypeOK, Thread PROVE TypeOK'
<1>1. /\ Alive /\ mailbox # <<>> /\ mailbox' = Tail(mailbox)
      /\ UNCHANGED <<mode, running, ipcLost, inputs>>
  BY ThreadTakes DEF Thread, HandlePktReq, HandleBulkReq, HandleOther, HandleStart,
                     HandleSendFile, HandleStop, Take
<1>2. mailbox' \in Seq(Message) /\ Len(mailbox') <= MailboxLen
  BY <1>1, HeadTailProperties, SenderAssumption DEF TypeOK
<1>3. Head(mailbox) \in Message
  BY <1>1, HeadTailProperties DEF TypeOK
<1>4. MaxChunk \in Nat /\ -1 \in -1..MaxChunk /\ 0 \in Nat
  BY SenderAssumption
<1>5. CASE HandlePktReq
  <2>1. Head(mailbox).list \in Seq(Chunk)
    <3>1. Head(mailbox).type = "PKT_REQ"
      BY <1>5 DEF HandlePktReq, Take
    <3>2. PICK k \in Chunk : Head(mailbox).list = <<k>>
      BY <1>3, <3>1 DEF Message
    <3>3. <<k>> \in Seq(Chunk)
      OBVIOUS
    <3> QED
      BY <3>2, <3>3
  <2>2. reqQueue' \in Seq(Chunk) /\ Len(reqQueue') <= QueueLen
    BY <1>5, <2>1, EnqueueAllTyped DEF HandlePktReq, TypeOK
  <2> QED
    BY <1>1, <1>2, <1>5, <2>2 DEF HandlePktReq, TypeOK
<1>6. CASE HandleBulkReq
  <2>1. Head(mailbox).list \in Bulks
    BY <1>3, <1>6 DEF Message, HandleBulkReq, Take
  <2>2. PICK order \in Listing(Requests(Head(mailbox).list)) :
          reqQueue' = EnqueueAll(reqQueue, Picked(Head(mailbox).list, order))
    BY <1>6 DEF HandleBulkReq
  <2>3. reqQueue' \in Seq(Chunk) /\ Len(reqQueue') <= QueueLen
    BY <2>1, <2>2, RequestsTyped, EnqueueAllTyped DEF TypeOK
  <2>4. intervalTimer' \in {"off", "armed", "now"}
    BY <1>6 DEF HandleBulkReq, TimerSet, TypeOK
  <2> QED
    BY <1>1, <1>2, <1>6, <2>3, <2>4 DEF HandleBulkReq, TypeOK
<1>7. CASE HandleOther
  BY <1>1, <1>2, <1>7 DEF HandleOther, TypeOK
<1>8. CASE HandleStart
  BY <1>1, <1>2, <1>4, <1>8 DEF HandleStart, TypeOK
<1>9. CASE HandleSendFile
  <2>1. /\ lastPktSeqNo' \in -1..MaxChunk
        /\ reqQueue' \in Seq(Chunk) /\ Len(reqQueue') <= QueueLen
        /\ sent' \in Packet
    <3>1. CASE reqQueue = <<>>
      <4>1. /\ lastPktSeqNo < MaxChunk /\ lastPktSeqNo' = lastPktSeqNo + 1
            /\ sent' = [type |-> "PAYLOAD", seq |-> lastPktSeqNo + 1]
            /\ reqQueue' = reqQueue
        BY <1>9, <3>1 DEF HandleSendFile
      <4>2. lastPktSeqNo + 1 \in Chunk /\ lastPktSeqNo + 1 \in -1..MaxChunk
        BY <4>1, <1>4 DEF TypeOK, Chunk
      <4> QED
        BY <4>1, <4>2 DEF TypeOK, Packet
    <3>2. CASE reqQueue # <<>>
      <4>1. /\ sent' = [type |-> "RESP", seq |-> Head(reqQueue)]
            /\ reqQueue' = Tail(reqQueue) /\ lastPktSeqNo' = lastPktSeqNo
        BY <1>9, <3>2 DEF HandleSendFile
      <4>2. /\ Head(reqQueue) \in Chunk /\ Tail(reqQueue) \in Seq(Chunk)
            /\ Len(Tail(reqQueue)) = Len(reqQueue) - 1
        BY <3>2, HeadTailProperties DEF TypeOK
      <4> QED
        BY <4>1, <4>2, QueueLenAssumption DEF TypeOK, Packet
    <3> QED
      BY <3>1, <3>2
  <2>2. /\ iperfState' \in {"STOPPED", "IDLE", "SENDING", "WAITING"}
        /\ numSent' \in Nat
        /\ intervalTimer' \in {"off", "armed", "now"}
    <3>1. CASE iperfState = "IDLE"
      BY <1>9, <3>1 DEF HandleSendFile, IdleRearmed, TypeOK
    <3>2. CASE iperfState # "IDLE"
      <4>1. PICK done \in Done(lastPktSeqNo', numSent', reqQueue') :
              /\ iperfState' = IF ~done THEN iperfState
                               ELSE IF mode = "BIDIR" THEN "WAITING" ELSE "STOPPED"
              /\ intervalTimer' = Rearmed(done)
        BY <1>9, <3>2 DEF HandleSendFile
      <4>2. numSent' \in Nat
        BY <1>9, <3>2 DEF HandleSendFile, TypeOK
      <4> QED
        BY <4>1, <4>2 DEF Rearmed, TypeOK
    <3> QED
      BY <3>1, <3>2
  <2> QED
    BY <1>1, <1>2, <2>1, <2>2 DEF TypeOK
<1>10. CASE HandleStop
  BY <1>1, <1>2, <1>10 DEF HandleStop, TypeOK
<1> QED
  BY <1>5, <1>6, <1>7, <1>8, <1>9, <1>10 DEF Thread

\* The timer, the network and the shell.
LEMMA EnvironmentTyped ==
  ASSUME TypeOK, IntervalTimerFires \/ Environment PROVE TypeOK'
<1>0. MailboxLen \in Nat /\ MaxInputs \in Nat /\ MaxChunk \in Nat
  BY SenderAssumption
<1>1. mailbox' \in Seq(Message) /\ Len(mailbox') <= MailboxLen
  <2>1. CASE ShellSender
    BY <1>0, <2>1, EmptySeq DEF ShellSender
  <2>2. CASE mailbox' = mailbox
    BY <2>2 DEF TypeOK
  <2>3. CASE mailbox' # mailbox /\ ~ShellSender
    <3>1. PICK m \in Message : mailbox' = Append(mailbox, m)
      BY <2>3, NextIsFree, PostsTyped
    <3>2. Len(mailbox) < MailboxLen
      <4>1. ~Overflow
        BY <2>3 DEF IntervalTimerFires, Environment, PktReqArrives, BulkReqArrives,
                    OtherArrives, ShellStart, ShellStop, Deliver, Command
      <4> QED
        BY <4>1, <1>0 DEF Overflow, TypeOK
    <3> QED
      BY <1>0, <3>1, <3>2, AppendProperties DEF TypeOK
  <2> QED
    BY <2>1, <2>2, <2>3
<1>2. inputs' \in 0..MaxInputs
  BY <1>0 DEF IntervalTimerFires, Environment, PktReqArrives, BulkReqArrives, OtherArrives,
              Counted, ShellStop, ShellSender, TypeOK
<1>3. CASE ShellSender
  BY <1>0, <1>1, <1>2, <1>3, EmptySeq, QueueLenAssumption DEF ShellSender, TypeOK
<1>4. CASE IntervalTimerFires
  <2>1. ipcLost' \in BOOLEAN
    BY <1>4 DEF IntervalTimerFires
  <2> QED
    BY <1>1, <1>2, <1>4, <2>1 DEF IntervalTimerFires, TypeOK
<1>5. CASE Environment /\ ~ShellSender
  <2>1. /\ UNCHANGED <<mode, iperfState, lastPktSeqNo, numSent, reqQueue, intervalTimer,
                       ipcLost>>
        /\ sent' = None /\ running' \in {running, FALSE}
    BY <1>5 DEF Environment, PktReqArrives, BulkReqArrives, OtherArrives, ShellStart,
                ShellStop, Deliver, Command
  <2> QED
    BY <1>1, <1>2, <2>1 DEF TypeOK
<1> QED
  BY <1>3, <1>4, <1>5

\* For every file, queue, mailbox and set of bulk requests, whatever entries a
\* relay struck out of them, only chunks are queued and sent, and neither the
\* request queue nor the mailbox grows beyond its size (sender.c:87-119,
\* 170-242).
THEOREM TypeCorrect == Spec => []TypeOK
<1>1. Init => TypeOK
  <2>1. /\ MaxChunk \in Nat /\ MaxInputs \in Nat /\ MailboxLen \in Nat /\ QueueLen \in Nat
        /\ <<>> \in Seq(Chunk) /\ <<>> \in Seq(Message) /\ Len(<<>>) = 0
    BY SenderAssumption, QueueLenAssumption, EmptySeq
  <2>2. -1 \in -1..MaxChunk /\ 0 \in 0..MaxInputs /\ 0 \in Nat
    BY <2>1
  <2>3. ASSUME Init PROVE /\ reqQueue \in Seq(Chunk) /\ Len(reqQueue) <= QueueLen
                          /\ mailbox \in Seq(Message) /\ Len(mailbox) <= MailboxLen
    BY <2>1, <2>3 DEF Init
  <2> QED
    BY <2>2, <2>3 DEF Init, TypeOK
<1>2. TypeOK /\ [Next]_vars => TypeOK'
  <2> SUFFICES ASSUME TypeOK, [Next]_vars PROVE TypeOK'
    OBVIOUS
  <2>1. CASE UNCHANGED vars
    BY <2>1 DEF vars, TypeOK
  <2> QED
    BY <2>1, ThreadTyped, EnvironmentTyped DEF Next
<1> QED
  BY <1>1, <1>2, PTL DEF Spec
-----------------------------------------------------------------------------
(* The mailbox is large enough.                                              *)

PacketTypes == {"BULK_REQ", "PKT_REQ", "OTHER"}

\* How many steps wait in the mailbox.
StepsWaiting == NumIn(mailbox, {"SEND_FILE"})

\* What may wait of each type.  A START finds at most MaxPending steps behind
\* it, the one that a timer of delay 0 is about to post included, for those
\* before it are handled first; so there are never more than MaxPending + 1.
RoomInv ==
  /\ NumIn(mailbox, PacketTypes) <= PktSlots
  /\ NumIn(mailbox, {"START"}) <= 1
  /\ NumIn(mailbox, {"STOP"}) <= One(~running)
  /\ StepsWaiting <= MaxPending + 1
  /\ intervalTimer = "now" => StepsWaiting <= MaxPending
  /\ \A j \in 1..Len(mailbox) :
       mailbox[j].type = "START" =>
         NumOf(mailbox, j + 1, Len(mailbox), {"SEND_FILE"}) + One(intervalTimer = "now")
           <= MaxPending

\* The model's counts are those of MailboxProofs.
LEMMA CountsAgree ==
  ASSUME MailboxType
  PROVE  /\ Cardinality(Packets) = NumIn(mailbox, PacketTypes)
         /\ \A t : Cardinality(Pending(t)) = NumIn(mailbox, {t})
         /\ \A t : Pending(t) = {} => NumIn(mailbox, {t}) = 0
<1>1. DOMAIN mailbox = 1..Len(mailbox)
  BY DEF MailboxType
<1>2. Packets = Places(mailbox, 1, Len(mailbox), PacketTypes)
  BY <1>1 DEF Packets, Places, PacketTypes
<1>3. \A t : Pending(t) = Places(mailbox, 1, Len(mailbox), {t})
  BY <1>1 DEF Pending, Places
<1>4. \A t : Pending(t) = {} => NumIn(mailbox, {t}) = 0
  BY <1>3, FS_EmptySet DEF NumIn, NumOf
<1> QED
  BY <1>2, <1>3, <1>4 DEF NumIn, NumOf

\* A mailbox is made up of its packets, commands and steps.
LEMMA LengthIsCounts ==
  ASSUME MailboxType
  PROVE  Len(mailbox) = NumIn(mailbox, PacketTypes) + NumIn(mailbox, {"START"})
                          + NumIn(mailbox, {"STOP"}) + StepsWaiting
<1> DEFINE n == Len(mailbox)
           T == PacketTypes \cup {"START"}
           U == T \cup {"STOP"}
           V == U \cup {"SEND_FILE"}
<1>1. n \in Nat /\ 1 \in Int /\ n \in Int /\ 1 <= n + 1
  BY DEF MailboxType
<1>2. \A i \in 1..n : mailbox[i].type \in V
  BY DEF MailboxType, Message, PacketTypes
<1>3. /\ PacketTypes \cap {"START"} = {} /\ T \cap {"STOP"} = {} /\ U \cap {"SEND_FILE"} = {}
  BY DEF PacketTypes
<1> HIDE DEF n, V, U, T
<1>4. NumOf(mailbox, 1, n, V) = n - 1 + 1
  BY <1>1, <1>2, NumAll
<1>5. NumOf(mailbox, 1, n, V) = NumOf(mailbox, 1, n, U) + NumOf(mailbox, 1, n, {"SEND_FILE"})
  BY <1>1, <1>3, NumSplit DEF V
<1>6. NumOf(mailbox, 1, n, U) = NumOf(mailbox, 1, n, T) + NumOf(mailbox, 1, n, {"STOP"})
  BY <1>1, <1>3, NumSplit DEF U
<1>7. NumOf(mailbox, 1, n, T) = NumOf(mailbox, 1, n, PacketTypes) + NumOf(mailbox, 1, n, {"START"})
  BY <1>1, <1>3, NumSplit DEF T
<1>8. /\ NumOf(mailbox, 1, n, PacketTypes) \in Nat /\ NumOf(mailbox, 1, n, {"START"}) \in Nat
      /\ NumOf(mailbox, 1, n, {"STOP"}) \in Nat /\ NumOf(mailbox, 1, n, {"SEND_FILE"}) \in Nat
  BY <1>1, NumType
<1> QED
  BY <1>1, <1>4, <1>5, <1>6, <1>7, <1>8 DEF NumIn, StepsWaiting, n

\* A handler that sets a timer of delay 0 has taken a START.
LEMMA RoomTaken ==
  ASSUME MailboxType, RoomInv, mailbox # <<>>, mailbox' = Tail(mailbox), UNCHANGED running,
         intervalTimer' = "now" => intervalTimer = "now" \/ Head(mailbox).type = "START"
  PROVE  RoomInv'
<1> DEFINE n == Len(mailbox)
<1>1. /\ n \in Nat /\ n >= 1 /\ Len(mailbox') = n - 1 /\ Head(mailbox) = mailbox[1]
      /\ \A j \in 1..n - 1 : mailbox'[j] = mailbox[j + 1]
  BY HeadTailProperties, EmptySeq DEF MailboxType
<1>2. ASSUME NEW types
      PROVE  /\ NumIn(mailbox', types) = NumIn(mailbox, types) - One(Head(mailbox).type \in types)
             /\ NumIn(mailbox', types) <= NumIn(mailbox, types)
             /\ NumIn(mailbox, types) \in Nat /\ NumIn(mailbox', types) \in Nat
  <2>1. NumIn(mailbox', types) = NumIn(mailbox, types) - One(Head(mailbox).type \in types)
    BY NumInTail DEF MailboxType
  <2>2. NumIn(mailbox, types) \in Nat /\ NumIn(mailbox', types) \in Nat
    BY HeadTailProperties, NumInType DEF MailboxType
  <2>3. One(Head(mailbox).type \in types) \in {0, 1}
    BY DEF One
  <2> QED
    BY <2>1, <2>2, <2>3
<1>3. ASSUME NEW a \in Int, NEW b \in Int, 1 <= a, b < n
      PROVE  NumOf(mailbox', a, b, {"SEND_FILE"}) = NumOf(mailbox, a + 1, b + 1, {"SEND_FILE"})
  BY <1>3, NumTail DEF MailboxType
<1> HIDE DEF n
<1>4. /\ NumIn(mailbox', PacketTypes) <= PktSlots
      /\ NumIn(mailbox', {"START"}) <= 1
      /\ NumIn(mailbox', {"STOP"}) <= One(~running')
      /\ StepsWaiting' <= MaxPending + 1
  BY <1>2, SenderAssumption DEF RoomInv, StepsWaiting, One
<1>5. CASE Head(mailbox).type = "START"
  <2>1. StepsWaiting' <= MaxPending
    <3>1. mailbox[1].type = "START" /\ 1 \in 1..n
      BY <1>1, <1>5
    <3>2. NumOf(mailbox, 2, n, {"SEND_FILE"}) + One(intervalTimer = "now") <= MaxPending
      BY <3>1, 1 + 1 = 2 DEF RoomInv, n
    <3>3. StepsWaiting' = NumOf(mailbox, 2, n, {"SEND_FILE"})
      <4>1. n - 1 \in Int /\ n - 1 < n /\ n - 1 + 1 = n /\ 1 + 1 = 2 /\ 1 <= 1 /\ 1 \in Int
        BY <1>1
      <4>2. NumOf(mailbox', 1, n - 1, {"SEND_FILE"}) = NumOf(mailbox, 2, n, {"SEND_FILE"})
        BY <1>3, <4>1
      <4> QED
        BY <1>1, <4>2 DEF StepsWaiting, NumIn
    <3>4. One(intervalTimer = "now") \in {0, 1} /\ StepsWaiting' \in Nat
      BY <1>2 DEF One, StepsWaiting
    <3> QED
      BY <3>2, <3>3, <3>4, SenderAssumption
  <2>2. NumIn(mailbox', {"START"}) = 0
    BY <1>2, <1>5 DEF RoomInv, One
  <2>3. ~Holds(mailbox', "START")
    BY <2>2, NumInHolds, HeadTailProperties DEF MailboxType
  <2>4. \A j \in 1..Len(mailbox') : mailbox'[j].type # "START"
    <3>1. mailbox' \in Seq(Message)
      BY HeadTailProperties DEF MailboxType
    <3>2. DOMAIN mailbox' = 1..Len(mailbox')
      BY <3>1
    <3> QED
      BY <2>3, <3>2 DEF Holds
  <2>5. \A j \in 1..Len(mailbox') :
          mailbox'[j].type = "START" =>
            NumOf(mailbox', j + 1, Len(mailbox'), {"SEND_FILE"}) + One(intervalTimer' = "now")
              <= MaxPending
    BY <2>4
  <2> QED
    BY <1>4, <2>1, <2>5 DEF RoomInv
<1>6. CASE Head(mailbox).type # "START"
  <2>1. intervalTimer' = "now" => intervalTimer = "now"
    BY <1>6
  <2>2. intervalTimer' = "now" => StepsWaiting' <= MaxPending
    BY <1>2, <2>1, SenderAssumption DEF RoomInv, StepsWaiting
  <2>3. One(intervalTimer' = "now") <= One(intervalTimer = "now")
    BY <2>1 DEF One
  <2>4. ASSUME NEW j \in 1..Len(mailbox'), mailbox'[j].type = "START"
        PROVE  NumOf(mailbox', j + 1, Len(mailbox'), {"SEND_FILE"}) + One(intervalTimer' = "now")
                 <= MaxPending
    <3>1. /\ j \in 1..n - 1 /\ j + 1 \in 1..n /\ mailbox[j + 1].type = "START"
      BY <1>1, <2>4
    <3>2. NumOf(mailbox, j + 1 + 1, n, {"SEND_FILE"}) + One(intervalTimer = "now") <= MaxPending
      BY <3>1 DEF RoomInv, n
    <3>3. /\ j + 1 \in Int /\ 1 <= j + 1 /\ n - 1 \in Int /\ n - 1 < n /\ n - 1 + 1 = n
      BY <1>1
    <3>4. NumOf(mailbox', j + 1, n - 1, {"SEND_FILE"}) = NumOf(mailbox, j + 1 + 1, n, {"SEND_FILE"})
      BY <1>3, <3>3
    <3>5. NumOf(mailbox, j + 1 + 1, n, {"SEND_FILE"}) \in Nat
      BY <1>1, <3>3, NumType
    <3>6. One(intervalTimer' = "now") \in {0, 1} /\ One(intervalTimer = "now") \in {0, 1}
      BY DEF One
    <3> QED
      BY <1>1, <2>3, <3>2, <3>4, <3>5, <3>6, SenderAssumption
  <2> QED
    BY <1>4, <2>2, <2>4 DEF RoomInv
<1> QED
  BY <1>5, <1>6

\* A message that is posted where there is room for its type.
LEMMA RoomPosted ==
  ASSUME MailboxType, RoomInv, NEW m \in Message, mailbox' = Append(mailbox, m),
         m.type \in PacketTypes => NumIn(mailbox, PacketTypes) < PktSlots,
         m.type = "START" => NumIn(mailbox, {"START"}) = 0,
         IF m.type = "STOP" THEN running /\ ~running' ELSE UNCHANGED running,
         IF m.type = "SEND_FILE"
           THEN /\ intervalTimer' = "off"
                /\ intervalTimer = "now" \/ StepsWaiting < MaxPending
           ELSE UNCHANGED intervalTimer
  PROVE  RoomInv'
<1> DEFINE n == Len(mailbox)
           SF == {"SEND_FILE"}
<1>1. /\ n \in Nat /\ Len(mailbox') = n + 1 /\ mailbox'[n + 1] = m
      /\ \A j \in 1..n : mailbox'[j] = mailbox[j]
  BY AppendProperties DEF MailboxType
<1>2. ASSUME NEW types
      PROVE  /\ NumIn(mailbox', types) = NumIn(mailbox, types) + One(m.type \in types)
             /\ NumIn(mailbox, types) \in Nat
  BY NumInAppend, NumInType DEF MailboxType
<1>3. \A a \in 1..n + 1 :
        NumOf(mailbox', a, n + 1, SF) = NumOf(mailbox, a, n, SF) + One(m.type \in SF)
  BY NumInAppend DEF MailboxType
<1>4. PktSlots \in Nat /\ MaxPending \in Nat /\ MaxPending >= 1
  BY SenderAssumption
<1> HIDE DEF n
<1>5. NumIn(mailbox', PacketTypes) <= PktSlots
  BY <1>2, <1>4 DEF RoomInv, One
<1>6. NumIn(mailbox', {"START"}) <= 1
  BY <1>2 DEF RoomInv, One
<1>7. NumIn(mailbox', {"STOP"}) <= One(~running')
  <2>1. NumIn(mailbox', {"STOP"}) = NumIn(mailbox, {"STOP"}) + One(m.type = "STOP")
    BY <1>2 DEF One
  <2> QED
    BY <1>2, <2>1 DEF RoomInv, One
<1>8. StepsWaiting' = StepsWaiting + One(m.type = "SEND_FILE") /\ StepsWaiting \in Nat
  BY <1>2 DEF StepsWaiting, One
<1>9. StepsWaiting' <= MaxPending + 1 /\ (intervalTimer' = "now" => StepsWaiting' <= MaxPending)
  BY <1>4, <1>8 DEF RoomInv, One
<1>10. ASSUME NEW j \in 1..Len(mailbox'), mailbox'[j].type = "START"
       PROVE  NumOf(mailbox', j + 1, Len(mailbox'), SF) + One(intervalTimer' = "now") <= MaxPending
  <2>1. CASE j = n + 1
    <3>1. NumOf(mailbox', j + 1, n + 1, SF) = 0
      <4>1. Places(mailbox', j + 1, n + 1, SF) = {}
        BY <1>1, <2>1 DEF Places
      <4> QED
        BY <4>1, FS_EmptySet DEF NumOf
    <3> QED
      BY <1>1, <1>4, <3>1 DEF One
  <2>2. CASE j # n + 1
    <3>1. j \in 1..n /\ mailbox[j].type = "START" /\ j + 1 \in 1..n + 1
      BY <1>1, <1>10, <2>2
    <3>2. NumOf(mailbox, j + 1, n, SF) + One(intervalTimer = "now") <= MaxPending
      BY <3>1 DEF RoomInv, n
    <3>3. NumOf(mailbox', j + 1, n + 1, SF) = NumOf(mailbox, j + 1, n, SF) + One(m.type \in SF)
      BY <1>3, <3>1
    <3>4. NumOf(mailbox, j + 1, n, SF) \in Nat /\ NumOf(mailbox, j + 1, n, SF) <= StepsWaiting
      <4>1. j + 1 \in Int /\ n \in Int /\ 1 \in Int /\ 1 <= j + 1 /\ n <= n
        BY <1>1, <3>1
      <4> QED
        BY <4>1, NumType, NumWithin DEF StepsWaiting, NumIn, n
    <3> QED
      BY <1>1, <1>4, <1>8, <3>2, <3>3, <3>4 DEF One
  <2> QED
    BY <2>1, <2>2
<1> QED
  BY <1>5, <1>6, <1>7, <1>9, <1>10 DEF RoomInv
\* A timer that fires posts a step, where its guard leaves room for one.
LEMMA TimerRoom ==
  ASSUME MailboxType, RoomInv, IntervalTimerFires PROVE RoomInv'
<1>1. /\ intervalTimer' = "off" /\ UNCHANGED running
      /\ intervalTimer = "now" \/ StepsWaiting < MaxPending
  BY CountsAgree DEF IntervalTimerFires, StepsWaiting
<1>2. CASE mailbox' = Append(mailbox, Msg("SEND_FILE", <<>>))
  <2>1. /\ Msg("SEND_FILE", <<>>) \in Message /\ Msg("SEND_FILE", <<>>).type = "SEND_FILE"
        /\ "SEND_FILE" \notin PacketTypes
    BY MessagesTyped DEF Msg, PacketTypes
  <2> QED
    BY <1>1, <1>2, <2>1, RoomPosted
<1>3. CASE mailbox' = mailbox
  <2>1. \A j \in 1..Len(mailbox) : NumOf(mailbox, j + 1, Len(mailbox), {"SEND_FILE"}) \in Nat
    BY NumType DEF MailboxType
  <2>2. One(FALSE) = 0 /\ One(intervalTimer = "now") \in {0, 1} /\ One(intervalTimer' = "now") = 0
    BY <1>1 DEF One
  <2>3. ASSUME NEW j \in 1..Len(mailbox), mailbox[j].type = "START"
        PROVE  NumOf(mailbox, j + 1, Len(mailbox), {"SEND_FILE"}) + One(intervalTimer' = "now")
                 <= MaxPending
    <3>1. NumOf(mailbox, j + 1, Len(mailbox), {"SEND_FILE"}) + One(intervalTimer = "now")
            <= MaxPending
      BY <2>3 DEF RoomInv
    <3> QED
      BY <2>1, <2>2, <3>1, SenderAssumption
  <2> QED
    BY <1>1, <1>3, <2>3 DEF RoomInv, StepsWaiting
<1> QED
  BY <1>2, <1>3 DEF IntervalTimerFires

\* The network and the shell find room for what they post.
LEMMA EnvironmentRoom ==
  ASSUME MailboxType, RoomInv, Input PROVE RoomInv'
<1>1. /\ \A k \in 0..NumPkts - 1 : Msg("PKT_REQ", <<k>>) \in Message
      /\ \A list \in Bulks : Msg("BULK_REQ", list) \in Message
      /\ \A t \in {"OTHER", "START", "SEND_FILE", "STOP"} : Msg(t, <<>>) \in Message
      /\ \A t, list : Msg(t, list).type = t
  <2>1. \A k \in 0..NumPkts - 1 : k \in Chunk
    BY SenderAssumption DEF Chunk
  <2> QED
    BY <2>1, MessagesTyped DEF Msg
<1>2. CASE ~ShellStart /\ ~ShellStop /\ ~ShellSender
  <2>1. PICK m \in Message : m.type \in PacketTypes /\ Deliver(m)
    BY <1>1, <1>2 DEF Input, PacketTypes
  <2>2. /\ mailbox' = Append(mailbox, m) /\ UNCHANGED <<running, intervalTimer>>
        /\ NumIn(mailbox, PacketTypes) < PktSlots
    BY <2>1, CountsAgree DEF Deliver
  <2>3. m.type \notin {"START", "STOP", "SEND_FILE"}
    BY <2>1 DEF PacketTypes
  <2> QED
    BY <2>1, <2>2, <2>3, RoomPosted
<1>3. CASE ShellStart
  <2>1. /\ NumIn(mailbox, {"START"}) = 0
        /\ UNCHANGED <<running, intervalTimer>>
        /\ mailbox' = mailbox \/ mailbox' = Append(mailbox, Msg("START", <<>>))
    BY <1>3, CountsAgree DEF ShellStart, Command
  <2>2. CASE mailbox' = mailbox
    BY <2>1, <2>2 DEF RoomInv, StepsWaiting
  <2>3. CASE mailbox' = Append(mailbox, Msg("START", <<>>))
    <3>1. Msg("START", <<>>) \in Message /\ Msg("START", <<>>).type = "START"
          /\ "START" \notin PacketTypes
      BY <1>1 DEF PacketTypes
    <3> QED
      BY <2>1, <2>3, <3>1, RoomPosted
  <2> QED
    BY <2>1, <2>2, <2>3
<1>4. CASE ShellStop
  <2>1. /\ running /\ ~running' /\ UNCHANGED intervalTimer
        /\ mailbox' = mailbox \/ mailbox' = Append(mailbox, Msg("STOP", <<>>))
    BY <1>4 DEF ShellStop, Command
  <2>2. CASE mailbox' = mailbox
    <3>1. NumIn(mailbox, {"STOP"}) <= One(~running')
      <4>1. NumIn(mailbox, {"STOP"}) \in Nat /\ NumIn(mailbox, {"STOP"}) <= 0
        BY <2>1, NumInType DEF RoomInv, One, MailboxType
      <4> QED
        BY <2>1, <4>1 DEF One
    <3> QED
      BY <2>1, <2>2, <3>1 DEF RoomInv, StepsWaiting
  <2>3. CASE mailbox' = Append(mailbox, Msg("STOP", <<>>))
    <3>1. Msg("STOP", <<>>) \in Message /\ Msg("STOP", <<>>).type = "STOP"
          /\ "STOP" \notin PacketTypes
      BY <1>1 DEF PacketTypes
    <3> QED
      BY <2>1, <2>3, <3>1, RoomPosted
  <2> QED
    BY <2>1, <2>2, <2>3
<1>5. CASE ShellSender
  <2>1. mailbox' = <<>> /\ \A types : NumIn(mailbox', types) = 0
    BY <1>5, NumInEmpty DEF ShellSender
  <2>2. Len(mailbox') = 0
    BY <2>1
  <2> QED
    BY <2>1, <2>2, SenderAssumption DEF RoomInv, StepsWaiting, One
<1> QED
  BY <1>2, <1>3, <1>4, <1>5

\* No type ever has more messages waiting than there is room for.
LEMMA NextRoom ==
  ASSUME MailboxType, RoomInv, [FreeNext]_vars PROVE RoomInv'
<1>1. CASE Thread
  <2>1. intervalTimer' = "now" => intervalTimer = "now" \/ Head(mailbox).type = "START"
    BY <1>1 DEF Thread, HandlePktReq, HandleBulkReq, HandleOther, HandleStart, HandleSendFile,
                HandleStop, Take, TimerSet, IdleRearmed, Rearmed
  <2> QED
    BY <1>1, <2>1, ThreadTakes, RoomTaken
<1>2. CASE UNCHANGED vars
  BY <1>2 DEF vars, RoomInv, StepsWaiting
<1> QED
  BY <1>1, <1>2, TimerRoom, EnvironmentRoom DEF FreeNext

LEMMA InitRoom == Init => RoomInv
<1> SUFFICES ASSUME Init PROVE RoomInv
  OBVIOUS
<1>1. mailbox = <<>> /\ intervalTimer = "off" /\ Len(mailbox) = 0
  BY DEF Init
<1> QED
  BY <1>1, NumInEmpty, SenderAssumption DEF RoomInv, StepsWaiting, One

LEMMA RoomKept == Spec => []RoomInv
<1>1. MailboxType /\ RoomInv /\ [Next]_vars => RoomInv'
  BY NextIsFree, NextRoom
<1> QED
  BY <1>1, InitRoom, MailboxTyped, PTL DEF Spec

\* In that room the timer never finds the mailbox full.
LEMMA NextSuffices ==
  ASSUME MailboxLen >= PktSlots + MaxPending + 3,
         MailboxType, RoomInv, MailboxSuffices, [FreeNext]_vars
  PROVE  MailboxSuffices'
<1> SUFFICES ASSUME ~ipcLost PROVE ~ipcLost'
  BY DEF MailboxSuffices
<1>1. CASE IntervalTimerFires
  <2>1. intervalTimer = "now" \/ StepsWaiting < MaxPending
    BY <1>1, CountsAgree DEF IntervalTimerFires, StepsWaiting
  <2>2. StepsWaiting <= MaxPending /\ StepsWaiting \in Nat
    BY <2>1, NumInType, SenderAssumption DEF RoomInv, MailboxType, StepsWaiting
  <2>3. /\ NumIn(mailbox, PacketTypes) \in Nat /\ NumIn(mailbox, {"START"}) \in Nat
        /\ NumIn(mailbox, {"STOP"}) \in Nat /\ NumIn(mailbox, {"STOP"}) <= 1
    BY NumInType DEF RoomInv, One, MailboxType
  <2>4. Len(mailbox) <= PktSlots + MaxPending + 2
    BY <2>2, <2>3, LengthIsCounts, SenderAssumption DEF RoomInv
  <2>5. ~Overflow
    BY <2>4, SenderAssumption DEF Overflow, MailboxType
  <2> QED
    BY <1>1, <2>5 DEF IntervalTimerFires
<1>2. CASE Thread
  BY <1>2, ThreadTakes
<1>3. CASE Input
  BY <1>3 DEF Input, ShellStart, ShellStop, ShellSender, Deliver, Command
<1>4. CASE UNCHANGED vars
  BY <1>4 DEF vars
<1> QED
  BY <1>1, <1>2, <1>3, <1>4 DEF FreeNext

\* With room for the packets that the packet buffer holds, for the steps that
\* the timer may post, for a START, a STOP and one message more, the timer
\* never finds the mailbox full: 32 places are enough for every number of
\* packets up to 28 (iperf.h:9, sender.c:282-290).
THEOREM MailboxIsEnough ==
  ASSUME MailboxLen >= PktSlots + MaxPending + 3
  PROVE  Spec => []MailboxSuffices
<1>1. Init => MailboxSuffices
  BY DEF Init, MailboxSuffices
<1>2. MailboxType /\ RoomInv /\ MailboxSuffices /\ [Next]_vars => MailboxSuffices'
  BY NextIsFree, NextSuffices
<1> QED
  BY <1>1, <1>2, MailboxTyped, RoomKept, PTL DEF Spec
-----------------------------------------------------------------------------
(* The sender does not run past the end of the file.                         *)

\* The steps that come without a further cause: the timer is set, or its
\* message waits.
Coming == intervalTimer # "off" \/ StepsWaiting > 0

\* How many of the steps to come there are beyond one.  A step that leaves work
\* behind arms the timer, so that a single step in the mailbox is followed by
\* one again; of several, with the timer set, each uses one up.
Excess ==
  IF intervalTimer = "off" THEN IF StepsWaiting <= 1 THEN 0 ELSE StepsWaiting
  ELSE IF intervalTimer = "now" THEN IF StepsWaiting = 0 THEN 0 ELSE StepsWaiting + 1
  ELSE StepsWaiting

\* How many payloads may still go out; an idle sender sends one at most, when
\* its predecessor's timer fires.
Budget == IF iperfState = "IDLE" THEN 0 - lastPktSeqNo ELSE NumPkts - 1 - lastPktSeqNo

\* The steps to come are used up by requests and payloads before the transfer
\* is done.
PaceInv ==
  mode = "BIDIR" =>
    /\ lastPktSeqNo < NumPkts
    /\ Alive => /\ Budget >= 0
                /\ Coming => Excess < Len(reqQueue) + Budget

\* What the theorem assumes of timing, sizes and requests.
Paced ==
  /\ MaxPending = 1 /\ NumPkts >= 3 /\ QueueLen >= 3
  /\ \A list \in Bulks : Requests(list) # {}

\* Pushing something makes the queue longer, or finds it full.
LEMMA EnqueueAllLonger ==
  ASSUME NEW S, NEW q \in Seq(S), Len(q) <= QueueLen, NEW s \in Seq(S), s # <<>>
  PROVE  Len(EnqueueAll(q, s)) > Len(q) \/ Len(EnqueueAll(q, s)) = QueueLen
<1> DEFINE n == IF Len(s) <= QueueLen - Len(q) THEN Len(s) ELSE QueueLen - Len(q)
<1>1. /\ n \in 0..Len(s) /\ Len(q) \in Nat /\ Len(s) \in Nat /\ Len(s) > 0
      /\ n > 0 \/ Len(q) = QueueLen
  BY QueueLenAssumption, EmptySeq
<1>2. EnqueueAll(q, s) = q \o SubSeq(s, 1, n)
  BY DEF EnqueueAll
<1> HIDE DEF n
<1>3. SubSeq(s, 1, n) \in Seq(S) /\ Len(SubSeq(s, 1, n)) = n
  <2>1. \A i \in 1..n : s[i] \in S
    BY <1>1
  <2> QED
    BY <1>1, <2>1, SubSeqProperties
<1>4. Len(EnqueueAll(q, s)) = Len(q) + n
  BY <1>2, <1>3, ConcatProperties
<1>5. Len(EnqueueAll(q, s)) <= QueueLen
  BY <1>1, <1>2, <1>3, EnqueueAllTyped
<1> QED
  BY <1>1, <1>4, <1>5, QueueLenAssumption

\* A bulk request that asks for something pushes something.
LEMMA RequestsSome ==
  ASSUME NEW list \in Bulks, Requests(list) # {}, NEW order \in Listing(Requests(list))
  PROVE  Picked(list, order) # <<>>
<1> DEFINE n == Cardinality(Requests(list))
<1>1. list \in Seq(Chunk \union {Invalid}) /\ DOMAIN list = 1..Len(list) /\ Len(list) \in Nat
  BY SenderAssumption
<1>2. n \in Nat /\ n # 0
  <2>1. IsFiniteSet(1..Len(list))
    BY <1>1, FS_Interval
  <2>2. Requests(list) \in SUBSET (1..Len(list))
    BY <1>1 DEF Requests
  <2>3. IsFiniteSet(Requests(list))
    BY <2>1, <2>2, FS_Subset
  <2> QED
    BY <2>3, FS_CardinalityType, FS_EmptySet
<1>3. DOMAIN Picked(list, order) = 1..n
  BY DEF Listing, Picked
<1> QED
  BY <1>2, <1>3

\* What the proofs below use of the counts.
LEMMA StepsFew ==
  ASSUME MailboxType, RoomInv, Paced
  PROVE  StepsWaiting \in Nat /\ StepsWaiting <= 2 /\ (intervalTimer = "now" => StepsWaiting <= 1)
BY NumInType DEF MailboxType, RoomInv, Paced, StepsWaiting

\* The head of the mailbox is a step or it is not.
LEMMA StepsTaken ==
  ASSUME MailboxType, mailbox # <<>>, mailbox' = Tail(mailbox)
  PROVE  StepsWaiting' = IF Head(mailbox).type = "SEND_FILE" THEN StepsWaiting - 1
                                                              ELSE StepsWaiting
<1>1. NumIn(Tail(mailbox), {"SEND_FILE"})
        = NumIn(mailbox, {"SEND_FILE"}) - One(Head(mailbox).type \in {"SEND_FILE"})
  BY NumInTail DEF MailboxType
<1>2. NumIn(mailbox, {"SEND_FILE"}) \in Nat
  BY NumInType DEF MailboxType
<1> QED
  BY <1>1, <1>2 DEF StepsWaiting, One

\* A request brings at most one step more, and an entry for it; a full queue
\* has entries enough.
LEMMA RequestPace ==
  ASSUME TypeOK, MailboxType, RoomInv, Paced, PaceInv, HandlePktReq \/ HandleBulkReq
  PROVE  PaceInv'
<1>1. /\ StepsWaiting' = StepsWaiting
      /\ UNCHANGED <<mode, iperfState, lastPktSeqNo>>
  <2>1. /\ mailbox # <<>> /\ mailbox' = Tail(mailbox) /\ Head(mailbox).type # "SEND_FILE"
        /\ UNCHANGED <<mode, iperfState, lastPktSeqNo>>
    BY DEF HandlePktReq, HandleBulkReq, Take
  <2> QED
    BY <2>1, StepsTaken
<1>2. intervalTimer' = "armed" \/ (intervalTimer # "off" /\ intervalTimer' = intervalTimer)
  BY DEF HandlePktReq, HandleBulkReq, TimerSet
<1>3. Head(mailbox) \in Message /\ mailbox # <<>>
  BY HeadTailProperties DEF HandlePktReq, HandleBulkReq, Take, MailboxType
<1>4. Len(reqQueue') > Len(reqQueue) \/ Len(reqQueue') = QueueLen
  <2>1. CASE HandlePktReq
    <3>1. PICK k \in Chunk : Head(mailbox).list = <<k>>
      BY <1>3, <2>1 DEF Message, HandlePktReq, Take
    <3>2. <<k>> \in Seq(Chunk) /\ <<k>> # <<>>
      OBVIOUS
    <3> QED
      BY <2>1, <3>1, <3>2, EnqueueAllLonger DEF HandlePktReq, TypeOK
  <2>2. CASE HandleBulkReq
    <3>1. Head(mailbox).list \in Bulks
      BY <1>3, <2>2 DEF Message, HandleBulkReq, Take
    <3>2. PICK order \in Listing(Requests(Head(mailbox).list)) :
            reqQueue' = EnqueueAll(reqQueue, Picked(Head(mailbox).list, order))
      BY <2>2 DEF HandleBulkReq
    <3>3. /\ Picked(Head(mailbox).list, order) \in Seq(Chunk)
          /\ Picked(Head(mailbox).list, order) # <<>>
      BY <3>1, RequestsTyped, RequestsSome DEF Paced
    <3> QED
      BY <3>2, <3>3, EnqueueAllLonger DEF TypeOK
  <2> QED
    BY <2>1, <2>2
<1>5. /\ Len(reqQueue) \in Nat /\ Len(reqQueue) <= QueueLen /\ QueueLen \in Nat
      /\ lastPktSeqNo \in Int /\ NumPkts \in Nat
      /\ intervalTimer \in {"off", "armed", "now"}
  BY QueueLenAssumption, SenderAssumption DEF TypeOK
<1>6. Len(reqQueue') \in Nat
  <2>1. TypeOK'
    BY ThreadTyped DEF Thread
  <2> QED
    BY <2>1 DEF TypeOK
<1>7. /\ Excess' \in Int /\ Excess \in Int /\ Excess' <= 2
      /\ Excess' <= 0 \/ (Coming /\ Excess' <= Excess + 1)
  BY <1>1, <1>2, <1>5, StepsFew DEF Excess, Coming
<1>8. Alive' = Alive /\ Budget' = Budget /\ Budget \in Int
  BY <1>1, <1>5 DEF Alive, Budget
<1>9. ASSUME mode = "BIDIR", Alive PROVE Excess' < Len(reqQueue') + Budget'
  <2>1. Budget >= 0 /\ (Coming => Excess < Len(reqQueue) + Budget)
    BY <1>9 DEF PaceInv
  <2>2. CASE Len(reqQueue') = QueueLen
    BY <1>5, <1>7, <1>8, <2>1, <2>2 DEF Paced
  <2>3. CASE Len(reqQueue') > Len(reqQueue)
    BY <1>5, <1>6, <1>7, <1>8, <2>1, <2>3
  <2> QED
    BY <1>4, <2>2, <2>3
<1> QED
  BY <1>1, <1>8, <1>9 DEF PaceInv

\* A sending step uses up a step, and a request or a payload.
LEMMA SendFilePace ==
  ASSUME TypeOK, MailboxType, RoomInv, Paced, PaceInv, HandleSendFile
  PROVE  PaceInv'
<1> SUFFICES ASSUME mode = "BIDIR"
             PROVE  /\ lastPktSeqNo' < NumPkts
                    /\ Alive' => /\ Budget' >= 0
                                 /\ Coming' => Excess' < Len(reqQueue') + Budget'
  <2>1. mode' = mode
    BY DEF HandleSendFile, Take
  <2> QED
    BY <2>1 DEF PaceInv
<1>1. /\ mailbox # <<>> /\ mailbox' = Tail(mailbox) /\ Head(mailbox).type = "SEND_FILE" /\ Alive
  BY DEF HandleSendFile, Take
<1>2. StepsWaiting' = StepsWaiting - 1 /\ StepsWaiting' \in Nat
  <2>1. Tail(mailbox) \in Seq(Message)
    BY <1>1, HeadTailProperties DEF MailboxType
  <2> QED
    BY <1>1, <2>1, StepsTaken, NumInType DEF StepsWaiting
<1>3. StepsWaiting \in Nat /\ StepsWaiting <= 2 /\ StepsWaiting >= 1
  BY <1>2, StepsFew
<1>4. /\ lastPktSeqNo \in Int /\ NumPkts \in Nat /\ NumPkts >= 3
      /\ intervalTimer \in {"off", "armed", "now"}
      /\ Len(reqQueue) \in Nat
  BY SenderAssumption DEF TypeOK, Paced
<1>5. Budget >= 0 /\ Excess < Len(reqQueue) + Budget /\ Excess \in Nat
  <2>1. Excess \in Nat /\ Coming
    BY <1>3, <1>4 DEF Excess, Coming
  <2> QED
    BY <1>1, <2>1 DEF PaceInv
<1>6. \/ /\ reqQueue = <<>> /\ reqQueue' = <<>> /\ Len(reqQueue) = 0 /\ Len(reqQueue') = 0
         /\ lastPktSeqNo' = lastPktSeqNo + 1
      \/ /\ Len(reqQueue) > 0 /\ Len(reqQueue') = Len(reqQueue) - 1
         /\ reqQueue' = <<>> <=> Len(reqQueue') = 0
         /\ lastPktSeqNo' = lastPktSeqNo
  <2>1. CASE reqQueue = <<>>
    BY <2>1 DEF HandleSendFile
  <2>2. CASE reqQueue # <<>>
    <3>1. reqQueue' = Tail(reqQueue) /\ lastPktSeqNo' = lastPktSeqNo
      BY <2>2 DEF HandleSendFile
    <3>2. /\ Tail(reqQueue) \in Seq(Chunk) /\ Len(Tail(reqQueue)) = Len(reqQueue) - 1
          /\ Len(reqQueue) > 0
      BY <1>4, <2>2, HeadTailProperties, EmptySeq DEF TypeOK
    <3>3. Tail(reqQueue) = <<>> <=> Len(Tail(reqQueue)) = 0
      BY <3>2, EmptySeq
    <3> QED
      BY <3>1, <3>2, <3>3
  <2> QED
    BY <2>1, <2>2
<1>7. reqQueue' = <<>> <=> Len(reqQueue') = 0
  BY <1>4, <1>6
<1>8. CASE iperfState = "IDLE"
  <2>1. iperfState' = "IDLE" /\ intervalTimer' = IF reqQueue' # <<>> THEN "armed" ELSE intervalTimer
    BY <1>8 DEF HandleSendFile, IdleRearmed
  <2>2. Budget = 0 - lastPktSeqNo /\ Budget' = 0 - lastPktSeqNo'
    BY <1>8, <2>1 DEF Budget
  <2>3. Len(reqQueue') + Budget' = Len(reqQueue) + Budget - 1 /\ Budget' >= 0
    BY <1>4, <1>5, <1>6, <2>2
  <2>4. lastPktSeqNo' < NumPkts
    BY <1>4, <1>6, <2>2, <2>3
  <2>5. Coming' => Excess' < Len(reqQueue') + Budget'
    BY <1>2, <1>3, <1>4, <1>5, <1>6, <1>7, <2>1, <2>2, <2>3, StepsFew DEF Excess, Coming
  <2> QED
    BY <2>3, <2>4, <2>5
<1>9. CASE iperfState # "IDLE"
  <2>1. PICK done \in Done(lastPktSeqNo', numSent', reqQueue') :
          /\ iperfState' = IF ~done THEN iperfState ELSE "WAITING"
          /\ intervalTimer' = IF done THEN intervalTimer ELSE "armed"
    BY <1>9 DEF HandleSendFile, Rearmed
  <2>2. done <=> (lastPktSeqNo' = NumPkts - 1 /\ reqQueue' = <<>>)
    BY <2>1 DEF Done
  <2>3. Budget = NumPkts - 1 - lastPktSeqNo /\ Budget' = NumPkts - 1 - lastPktSeqNo'
    BY <1>9, <2>1 DEF Budget
  <2>4. Len(reqQueue') + Budget' = Len(reqQueue) + Budget - 1 /\ Budget' >= 0
    BY <1>4, <1>5, <1>6, <2>3
  <2>5. lastPktSeqNo' < NumPkts
    BY <1>4, <1>6, <2>3, <2>4
  <2>6. Coming' => Excess' < Len(reqQueue') + Budget'
    <3>1. CASE done
      <4>1. Len(reqQueue) + Budget = 1
        BY <1>4, <1>6, <1>7, <2>2, <2>3, <2>4, <3>1
      <4>2. Excess = 0
        BY <1>5, <4>1
      <4>3. intervalTimer = "off" /\ StepsWaiting = 1
        BY <1>3, <1>4, <4>2 DEF Excess
      <4>4. intervalTimer' = "off" /\ StepsWaiting' = 0
        BY <1>2, <2>1, <3>1, <4>3
      <4> QED
        BY <4>4 DEF Coming
    <3>2. CASE ~done
      <4>1. intervalTimer' = "armed"
        BY <2>1, <3>2
      <4>2. Excess' = StepsWaiting - 1
        BY <1>2, <4>1 DEF Excess
      <4>3. Len(reqQueue') + Budget' > 0
        BY <1>4, <1>6, <1>7, <2>2, <2>3, <2>4, <3>2
      <4>4. (Excess = 0 /\ StepsWaiting = 1) \/ Excess >= StepsWaiting
        BY <1>3, <1>4 DEF Excess
      <4> QED
        BY <1>3, <1>4, <1>5, <1>6, <2>3, <2>4, <4>2, <4>3, <4>4
    <3> QED
      BY <3>1, <3>2
  <2> QED
    BY <2>4, <2>5, <2>6
<1> QED
  BY <1>8, <1>9
\* A START brings two steps at most, and the whole file to use them up.
LEMMA StartPace ==
  ASSUME TypeOK, MailboxType, RoomInv, RoomInv', Paced, PaceInv, HandleStart
  PROVE  PaceInv'
<1>1. /\ mode' = mode /\ iperfState' = "SENDING" /\ lastPktSeqNo' = -1 /\ intervalTimer' = "now"
      /\ reqQueue' = reqQueue
  BY DEF HandleStart, Take
<1>2. StepsWaiting' <= 1 /\ StepsWaiting' \in Nat
  <2>1. Tail(mailbox) \in Seq(Message) /\ mailbox' = Tail(mailbox)
    BY HeadTailProperties DEF MailboxType, HandleStart, Take
  <2>2. StepsWaiting' \in Nat
    BY <2>1, NumInType DEF StepsWaiting
  <2> QED
    BY <1>1, <2>2 DEF RoomInv, Paced
<1>3. Excess' <= 2 /\ Excess' \in Nat
  <2>1. CASE StepsWaiting' = 0
    BY <1>1, <2>1 DEF Excess
  <2>2. CASE StepsWaiting' = 1
    BY <1>1, <2>2 DEF Excess
  <2> QED
    BY <1>2, <2>1, <2>2
<1>4. NumPkts \in Nat /\ NumPkts >= 3 /\ Len(reqQueue) \in Nat
  BY SenderAssumption DEF Paced, TypeOK
<1>5. Budget' = NumPkts
  BY <1>1, <1>4 DEF Budget
<1> QED
  BY <1>1, <1>3, <1>4, <1>5 DEF PaceInv

\* The timer turns a step that is to come into one that waits.
LEMMA TimerPace ==
  ASSUME TypeOK, MailboxType, RoomInv, Paced, PaceInv, IntervalTimerFires
  PROVE  PaceInv'
<1>1. /\ UNCHANGED <<mode, iperfState, lastPktSeqNo, reqQueue>>
      /\ intervalTimer' = "off"
      /\ intervalTimer = "now" \/ (intervalTimer = "armed" /\ StepsWaiting < 1)
  BY CountsAgree DEF IntervalTimerFires, StepsWaiting, Paced
<1>2. StepsWaiting' \in {StepsWaiting, StepsWaiting + 1} /\ StepsWaiting \in Nat
  <2>1. CASE mailbox' = mailbox
    BY <2>1, NumInType DEF StepsWaiting, MailboxType
  <2>2. CASE mailbox' = Append(mailbox, Msg("SEND_FILE", <<>>))
    <3>1. Msg("SEND_FILE", <<>>) \in Message /\ Msg("SEND_FILE", <<>>).type \in {"SEND_FILE"}
      BY MessagesTyped DEF Msg
    <3> QED
      BY <2>2, <3>1, NumInAppend, NumInType DEF StepsWaiting, MailboxType, One
  <2> QED
    BY <2>1, <2>2 DEF IntervalTimerFires
<1>3. Coming /\ Excess' <= Excess /\ Excess \in Nat /\ Excess' \in Nat
  BY <1>1, <1>2, StepsFew DEF Excess, Coming
<1>4. Budget' = Budget /\ Alive' = Alive /\ Budget \in Int /\ Len(reqQueue) \in Nat
  BY <1>1, SenderAssumption DEF Budget, Alive, TypeOK
<1> QED
  BY <1>1, <1>3, <1>4 DEF PaceInv

\* Nothing that arrives is a step, and a new sender has what its predecessor's
\* timer brings and one payload for it.
LEMMA EnvironmentPace ==
  ASSUME TypeOK, MailboxType, Paced, PaceInv, Input
  PROVE  PaceInv'
<1>1. CASE ShellSender
  <2>1. /\ mode' = mode /\ iperfState' = "IDLE" /\ lastPktSeqNo' = -1 /\ reqQueue' = <<>>
        /\ StepsWaiting' = 0
    BY <1>1, NumInEmpty DEF ShellSender, StepsWaiting
  <2>2. Excess' = 0
    BY <2>1 DEF Excess
  <2>3. Budget' = 0 - (-1) /\ 0 - (-1) = 1
    BY <2>1 DEF Budget
  <2>4. Len(reqQueue') = 0 /\ NumPkts \in Nat \ {0}
    BY <2>1, EmptySeq, SenderAssumption
  <2> QED
    BY <2>1, <2>2, <2>3, <2>4 DEF PaceInv
<1>2. CASE ~ShellSender
  <2>1. UNCHANGED <<iperfState, mode, lastPktSeqNo, reqQueue, intervalTimer>>
    BY <1>2, EnvironmentKeeps
  <2>2. StepsWaiting' = StepsWaiting
    <3>1. \/ mailbox' = mailbox
          \/ \E m \in Message : m.type # "SEND_FILE" /\ mailbox' = Append(mailbox, m)
      <4>1. \A k \in 0..NumPkts - 1 : k \in Chunk
        BY SenderAssumption DEF Chunk
      <4>2. /\ \A k \in Chunk : Msg("PKT_REQ", <<k>>).type # "SEND_FILE"
            /\ \A list \in Bulks : Msg("BULK_REQ", list).type # "SEND_FILE"
            /\ \A t \in {"OTHER", "START", "STOP"} : Msg(t, <<>>).type # "SEND_FILE"
        BY DEF Msg
      <4> QED
        BY <1>2, <4>1, <4>2, MessagesTyped
        DEF Input, ShellStart, ShellStop, Deliver, Command
    <3>2. CASE mailbox' = mailbox
      BY <3>2 DEF StepsWaiting
    <3>3. CASE \E m \in Message : m.type # "SEND_FILE" /\ mailbox' = Append(mailbox, m)
      <4>1. PICK m \in Message : m.type # "SEND_FILE" /\ mailbox' = Append(mailbox, m)
        BY <3>3
      <4>2. StepsWaiting' = StepsWaiting + One(m.type \in {"SEND_FILE"}) /\ StepsWaiting \in Nat
        BY <4>1, NumInAppend, NumInType DEF MailboxType, StepsWaiting
      <4> QED
        BY <4>1, <4>2 DEF One
    <3> QED
      BY <3>1, <3>2, <3>3
  <2>3. Excess' = Excess /\ Budget' = Budget /\ Coming' = Coming /\ Alive' = Alive
    BY <2>1, <2>2 DEF Excess, Budget, Coming, Alive
  <2> QED
    BY <2>1, <2>3 DEF PaceInv
<1> QED
  BY <1>1, <1>2

LEMMA NextPace ==
  ASSUME Paced, TypeOK, MailboxType, RoomInv, RoomInv', PaceInv, [FreeNext]_vars
  PROVE  PaceInv'
<1>1. CASE HandleOther
  <2>1. /\ UNCHANGED <<mode, iperfState, lastPktSeqNo, reqQueue, intervalTimer>>
        /\ StepsWaiting' = StepsWaiting
    BY <1>1, StepsTaken DEF HandleOther, Take
  <2>2. Excess' = Excess /\ Budget' = Budget /\ Coming' = Coming /\ Alive' = Alive
    BY <2>1 DEF Excess, Budget, Coming, Alive
  <2> QED
    BY <2>1, <2>2 DEF PaceInv
<1>2. CASE HandleStop
  BY <1>2 DEF HandleStop, Take, PaceInv, Alive
<1>3. CASE UNCHANGED vars
  <2>1. Excess' = Excess /\ Budget' = Budget /\ Coming' = Coming /\ Alive' = Alive
    BY <1>3 DEF vars, Excess, Budget, Coming, Alive, StepsWaiting
  <2> QED
    BY <1>3, <2>1 DEF vars, PaceInv
<1> QED
  BY <1>1, <1>2, <1>3, RequestPace, SendFilePace, StartPace, TimerPace, EnvironmentPace
  DEF FreeNext, Thread

LEMMA InitPace == Init => PaceInv
<1> SUFFICES ASSUME Init PROVE PaceInv
  OBVIOUS
<1>1. StepsWaiting = 0 /\ intervalTimer = "off" /\ iperfState = "IDLE" /\ lastPktSeqNo = -1
  BY NumInEmpty DEF Init, StepsWaiting
<1>2. Budget = 0 - (-1) /\ 0 - (-1) = 1
  BY <1>1 DEF Budget
<1>3. ~Coming /\ NumPkts \in Nat \ {0}
  BY <1>1, SenderAssumption DEF Coming
<1> QED
  BY <1>1, <1>2, <1>3 DEF PaceInv

\* In mode BIDIR no payload goes out past the last chunk: with at most one
\* message of the timer waiting when it runs out, a file and a queue of three
\* or more, and bulk requests that ask for something, for every number and
\* order of requests, starts, stops and restarts (sender.c:51-67, 221-241).
THEOREM FileIsTheEnd ==
  ASSUME Paced PROVE Spec => []NeverPastEnd
<1>1. TypeOK /\ MailboxType /\ RoomInv /\ RoomInv' /\ PaceInv /\ [Next]_vars => PaceInv'
  BY NextIsFree, NextPace
<1>2. PaceInv => NeverPastEnd
  BY DEF PaceInv, NeverPastEnd
<1> QED
  BY <1>1, <1>2, InitPace, TypeCorrect, MailboxTyped, RoomKept, PTL DEF Spec
=============================================================================
