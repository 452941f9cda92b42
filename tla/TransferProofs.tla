--------------------------- MODULE TransferProofs ---------------------------
(***************************************************************************)
(* Theorems about the whole transfer, for files, queues, mailboxes, bulk   *)
(* requests, losses and relays of every number: what the receiver is       *)
(* assumed to meet in Receiver.tla is what the sender, the relays and the  *)
(* air make, and what the sender meets here is no more than Sender.tla     *)
(* allows, so that what is proved about each of them alone holds here.     *)
(* The second half is about the pace of a transfer: a receiver that stops  *)
(* has the whole file (WholeFile).                                         *)
(***************************************************************************)
EXTENDS Transfer, SequenceTheorems, FiniteSetTheorems, TLAPS

-----------------------------------------------------------------------------
(* The two ends with what is proved about each of them.                      *)

SP == INSTANCE SenderProofs WITH
        Modes <- {"BIDIR"}, SizePkts <- NumPkts, PktSlots <- 1, MaxPending <- 1,
        MaxInputs <- 0, MaxChunk <- NumPkts,
        Bulks <- Bulks,
        mode <- txMode, running <- txRunning, iperfState <- txState,
        lastPktSeqNo <- txLast, numSent <- txNumSent, reqQueue <- txQueue,
        intervalTimer <- txTimer, mailbox <- txMailbox, ipcLost <- txIpcLost,
        sent <- txSent, inputs <- txInputs

RP == INSTANCE ReceiverProofs WITH
        MaxChunk <- NumPkts, Configs <- {TheConfig}, SyncConfigs <- {},
        PktSlots <- 1, MaxPending <- 1, Disciplined <- TRUE,
        running <- rxRunning, iperfState <- rxState, config <- rxConfig,
        results <- rxResults, reqQueue <- rxQueue,
        expectationTimer <- rxExpectationTimer, interestTimer <- rxInterestTimer,
        expectationSeqNo <- rxExpectationSeqNo, mailbox <- rxMailbox,
        ipcLost <- rxIpcLost, sent <- rxSent, nextPayload <- rxNextPayload,
        asked <- rxAsked

Chunk == 0..NumPkts

\* The lists of up to BulkMax elements of A.
Lists(A) == UNION {[1..n -> A] : n \in 0..BulkMax}

LEMMA ListsAreSequences ==
  ASSUME NEW A, NEW list
  PROVE  list \in Lists(A) <=> list \in Seq(A) /\ Len(list) <= BulkMax
<1>1. ASSUME list \in Lists(A) PROVE list \in Seq(A) /\ Len(list) <= BulkMax
  <2>1. PICK n \in 0..BulkMax : list \in [1..n -> A]
    BY <1>1 DEF Lists
  <2>2. n \in Nat /\ n <= BulkMax
    BY <2>1, TransferAssumption
  <2> QED
    BY <2>1, <2>2
<1>2. ASSUME list \in Seq(A), Len(list) <= BulkMax PROVE list \in Lists(A)
  <2>1. Len(list) \in 0..BulkMax /\ list \in [1..Len(list) -> A]
    BY <1>2, TransferAssumption
  <2> QED
    BY <2>1 DEF Lists
<1> QED
  BY <1>1, <1>2

LEMMA BulksAreLists ==
  Bulks = {list \in Lists(Chunk \union {Invalid}) : \E i \in DOMAIN list : list[i] # Invalid}
BY DEF Bulks, Lists, Chunk

\* What Sender.tla and Receiver.tla assume of their constants.
LEMMA SenderConstants == SP!SenderAssumption
<1>1. SP!Chunk = Chunk
  BY DEF SP!Chunk, Chunk
<1>2. Bulks \subseteq Seq(SP!Chunk \union {Invalid})
  BY <1>1, BulksAreLists, ListsAreSequences
<1> QED
  BY <1>1, <1>2, TransferAssumption DEF SP!SenderAssumption, Chunk

LEMMA ReceiverConstants == RP!ReceiverAssumption
<1>1. TheConfig \in RP!ConfigType
  BY TransferAssumption DEF RP!ConfigType, TheConfig
<1> QED
  BY <1>1, TransferAssumption DEF RP!ReceiverAssumption

\* Each instance has its own copy of the operators it is built from.
LEMMA SameCardinality ==
  \A set : /\ S!Cardinality(set) = Cardinality(set)
           /\ SP!Cardinality(set) = Cardinality(set)
           /\ R!Cardinality(set) = Cardinality(set)
           /\ RP!Cardinality(set) = Cardinality(set)
BY DEF Cardinality, S!Cardinality, SP!Cardinality, R!Cardinality, RP!Cardinality

\* The proofs are about the modules that the transfer is composed of.
LEMMA SameSender ==
  /\ S!TypeOK <=> SP!TypeOK
  /\ (S!TypeOK)' <=> (SP!TypeOK)'
  /\ S!Thread <=> SP!Thread
  /\ S!IntervalTimerFires <=> SP!IntervalTimerFires
<1>1. S!Message = SP!Message /\ S!Packet = SP!Packet
  BY DEF S!Message, SP!Message, S!Packet, SP!Packet, S!Chunk, SP!Chunk
<1>2. S!TypeOK <=> SP!TypeOK
  BY <1>1 DEF S!TypeOK, SP!TypeOK, S!Chunk, SP!Chunk
<1>3. (S!TypeOK)' <=> (SP!TypeOK)'
  BY <1>1 DEF S!TypeOK, SP!TypeOK, S!Chunk, SP!Chunk
<1>4. S!HandlePktReq <=> SP!HandlePktReq
  BY DEF S!HandlePktReq, SP!HandlePktReq, S!Take, SP!Take, S!Alive, SP!Alive,
         S!EnqueueAll, SP!EnqueueAll
<1>5. S!HandleBulkReq <=> SP!HandleBulkReq
  <2>1. \A list : /\ S!Requests(list) = SP!Requests(list)
                  /\ \A order : S!Picked(list, order) = SP!Picked(list, order)
    BY DEF S!Requests, SP!Requests, S!Picked, SP!Picked
  <2>2. \A set : S!Listing(set) = SP!Listing(set)
    BY SameCardinality DEF S!Listing, SP!Listing
  <2>3. \A q, s : S!EnqueueAll(q, s) = SP!EnqueueAll(q, s)
    BY DEF S!EnqueueAll, SP!EnqueueAll
  <2>4. S!TimerSet = SP!TimerSet /\ (S!Take("BULK_REQ") <=> SP!Take("BULK_REQ"))
    BY DEF S!TimerSet, SP!TimerSet, S!Take, SP!Take, S!Alive, SP!Alive
  <2> QED
    BY <2>1, <2>2, <2>3, <2>4 DEF S!HandleBulkReq, SP!HandleBulkReq
<1>6. S!HandleOther <=> SP!HandleOther
  BY DEF S!HandleOther, SP!HandleOther, S!Take, SP!Take, S!Alive, SP!Alive
<1>7. S!HandleStart <=> SP!HandleStart
  BY DEF S!HandleStart, SP!HandleStart, S!Take, SP!Take, S!Alive, SP!Alive
<1>8. S!HandleSendFile <=> SP!HandleSendFile
  BY DEF S!HandleSendFile, SP!HandleSendFile, S!Take, SP!Take, S!Alive, SP!Alive,
         S!IdleRearmed, SP!IdleRearmed, S!Rearmed, SP!Rearmed, S!Done, SP!Done
<1>9. S!HandleStop <=> SP!HandleStop
  BY DEF S!HandleStop, SP!HandleStop, S!Take, SP!Take, S!Alive, SP!Alive
<1>10. S!IntervalTimerFires <=> SP!IntervalTimerFires
  <2>1. S!Pending("SEND_FILE") = SP!Pending("SEND_FILE")
    BY DEF S!Pending, SP!Pending
  <2>2. /\ S!Alive <=> SP!Alive
        /\ S!Overflow <=> SP!Overflow
        /\ S!Msg("SEND_FILE", <<>>) = SP!Msg("SEND_FILE", <<>>)
    BY DEF S!Alive, SP!Alive, S!Overflow, SP!Overflow, S!Msg, SP!Msg
  <2> QED
    BY <2>1, <2>2, SameCardinality DEF S!IntervalTimerFires, SP!IntervalTimerFires
<1> QED
  BY <1>2, <1>3, <1>4, <1>5, <1>6, <1>7, <1>8, <1>9, <1>10 DEF S!Thread, SP!Thread
\* The same of the receiver.
LEMMA SameReceiverParts ==
  /\ R!Chunk = Chunk /\ RP!Chunk = Chunk
  /\ \A t, v : R!Msg(t, v) = RP!Msg(t, v)
  /\ \A t : R!Took(t) <=> RP!Took(t)
  /\ \A r : R!FinishWith(r) <=> RP!FinishWith(r)
  /\ \A r : R!Done(r) <=> RP!Done(r)
  /\ \A q, s : R!EnqueueAll(q, s) = RP!EnqueueAll(q, s)
  /\ \A set : R!Listing(set) = RP!Listing(set)
  /\ \A q, k : R!IsEnqueued(q, k) <=> RP!IsEnqueued(q, k)
  /\ \A t : R!Pending(t) = RP!Pending(t)
  /\ R!Packets = RP!Packets
  /\ R!CleanResults = RP!CleanResults
  /\ \A r, k, last, status : R!Counted(r, k, last, status) = RP!Counted(r, k, last, status)
<1>1. R!Chunk = Chunk /\ RP!Chunk = Chunk
  BY DEF R!Chunk, RP!Chunk, Chunk
<1>2. \A t, v : R!Msg(t, v) = RP!Msg(t, v)
  BY DEF R!Msg, RP!Msg
<1>3. \A t : R!Took(t) <=> RP!Took(t)
  BY DEF R!Took, RP!Took, R!Alive, RP!Alive
<1>4. \A r : R!FinishWith(r) <=> RP!FinishWith(r)
  BY <1>2 DEF R!FinishWith, RP!FinishWith, R!Done, RP!Done, R!Post, RP!Post, R!Stop, RP!Stop,
              R!Overflow, RP!Overflow
<1>5. \A r : R!Done(r) <=> RP!Done(r)
  BY DEF R!Done, RP!Done
<1>6. \A q, s : R!EnqueueAll(q, s) = RP!EnqueueAll(q, s)
  BY DEF R!EnqueueAll, RP!EnqueueAll
<1>7. \A set : R!Listing(set) = RP!Listing(set)
  BY SameCardinality DEF R!Listing, RP!Listing
<1>8. \A q, k : R!IsEnqueued(q, k) <=> RP!IsEnqueued(q, k)
  BY DEF R!IsEnqueued, RP!IsEnqueued, R!IsFull, RP!IsFull, R!Range, RP!Range
<1>9. \A t : R!Pending(t) = RP!Pending(t)
  BY DEF R!Pending, RP!Pending
<1>10. R!Packets = RP!Packets
  BY DEF R!Packets, RP!Packets, R!PacketTypes, RP!PacketTypes
<1>11. R!CleanResults = RP!CleanResults
  BY <1>1 DEF R!CleanResults, RP!CleanResults
<1>12. \A r, k, last, status : R!Counted(r, k, last, status) = RP!Counted(r, k, last, status)
  BY DEF R!Counted, RP!Counted
<1> QED
  BY <1>1, <1>2, <1>3, <1>4, <1>5, <1>6, <1>7, <1>8, <1>9, <1>10, <1>11, <1>12

LEMMA SameThread == R!Thread <=> RP!Thread
<1>1. R!HandlePayload <=> RP!HandlePayload
  <2>1. \A r, k : /\ R!InOrder(r, k) = RP!InOrder(r, k)
                  /\ R!AfterGap(r, k) = RP!AfterGap(r, k)
                  /\ R!Tally(r, k) = RP!Tally(r, k)
    BY SameReceiverParts DEF R!InOrder, RP!InOrder, R!AfterGap, RP!AfterGap, R!Tally, RP!Tally,
                             R!GapMarked, RP!GapMarked
  <2> QED
    BY <2>1, SameReceiverParts
    DEF R!HandlePayload, RP!HandlePayload, R!Restarted, RP!Restarted, R!netVars, RP!netVars
<1>2. R!HandleResp <=> RP!HandleResp
  BY SameReceiverParts
  DEF R!HandleResp, RP!HandleResp, R!Restarted, RP!Restarted, R!netVars, RP!netVars
<1>3. /\ R!HandleConfigSync <=> RP!HandleConfigSync
      /\ R!HandleOther <=> RP!HandleOther
      /\ R!HandleStop <=> RP!HandleStop
  BY SameReceiverParts
  DEF R!HandleConfigSync, RP!HandleConfigSync, R!HandleOther, RP!HandleOther, R!HandleStop,
      RP!HandleStop, R!TimersStopped, RP!TimersStopped, R!netVars, RP!netVars
<1>4. R!HandleInterestTimeout <=> RP!HandleInterestTimeout
  BY SameReceiverParts
  DEF R!HandleInterestTimeout, RP!HandleInterestTimeout, R!Min2, RP!Min2, R!SomeLeft, RP!SomeLeft
<1>5. R!HandleExpectationTimeout <=> RP!HandleExpectationTimeout
  <2>1. R!NextExpectation = RP!NextExpectation
    BY DEF R!NextExpectation, RP!NextExpectation
  <2> QED
    BY <2>1, SameReceiverParts
    DEF R!HandleExpectationTimeout, RP!HandleExpectationTimeout, R!netVars, RP!netVars
<1> QED
  BY <1>1, <1>2, <1>3, <1>4, <1>5 DEF R!Thread, RP!Thread

LEMMA SameReceiver ==
  /\ R!TypeOK <=> RP!TypeOK
  /\ (R!TypeOK)' <=> (RP!TypeOK)'
  /\ R!Init <=> RP!Init
  /\ [R!Next]_R!vars <=> [RP!Next]_RP!vars
<1>1. R!Message = RP!Message /\ R!ConfigType = RP!ConfigType /\ R!Results = RP!Results
  BY SameReceiverParts DEF R!Message, RP!Message, R!ConfigType, RP!ConfigType, R!Results, RP!Results
<1>2. R!TypeOK <=> RP!TypeOK
  BY <1>1, SameReceiverParts DEF R!TypeOK, RP!TypeOK
<1>3. (R!TypeOK)' <=> (RP!TypeOK)'
  BY <1>1, SameReceiverParts DEF R!TypeOK, RP!TypeOK
<1>4. R!Init <=> RP!Init
  BY SameReceiverParts DEF R!Init, RP!Init
<1>5. UNCHANGED R!vars <=> UNCHANGED RP!vars
  BY DEF R!vars, RP!vars, R!threadVars, RP!threadVars, R!netVars, RP!netVars
<1>6. /\ R!Alive <=> RP!Alive
      /\ R!Overflow <=> RP!Overflow
      /\ R!Stop = RP!Stop
  BY SameReceiverParts DEF R!Alive, RP!Alive, R!Overflow, RP!Overflow, R!Stop, RP!Stop
<1>7. \A t : R!Fired(t) <=> RP!Fired(t)
  BY <1>6, SameReceiverParts DEF R!Fired, RP!Fired, R!Post, RP!Post, R!netVars, RP!netVars
<1>8. /\ R!ExpectationTimerFires <=> RP!ExpectationTimerFires
      /\ R!InterestTimerFires <=> RP!InterestTimerFires
  BY <1>7, SameReceiverParts, SameCardinality
  DEF R!ExpectationTimerFires, RP!ExpectationTimerFires, R!InterestTimerFires,
      RP!InterestTimerFires
<1>9. \A t, v : R!Deliver(t, v) <=> RP!Deliver(t, v)
  BY <1>6, SameReceiverParts, SameCardinality DEF R!Deliver, RP!Deliver
<1>10. R!Environment <=> RP!Environment
  <2>1. \A k : /\ R!PayloadArrives(k) <=> RP!PayloadArrives(k)
               /\ R!RespArrives(k) <=> RP!RespArrives(k)
    BY <1>9 DEF R!PayloadArrives, RP!PayloadArrives, R!RespArrives, RP!RespArrives, R!netVars,
                RP!netVars
  <2>2. /\ R!ConfigSyncArrives <=> RP!ConfigSyncArrives
        /\ R!OtherArrives <=> RP!OtherArrives
    BY <1>9 DEF R!ConfigSyncArrives, RP!ConfigSyncArrives, R!OtherArrives, RP!OtherArrives,
                R!netVars, RP!netVars
  <2>3. /\ R!ShellStop <=> RP!ShellStop
        /\ R!ShellReceiver <=> RP!ShellReceiver
    BY <1>6, SameReceiverParts
    DEF R!ShellStop, RP!ShellStop, R!ShellReceiver, RP!ShellReceiver, R!netVars, RP!netVars
  <2> QED
    BY <2>1, <2>2, <2>3, SameReceiverParts DEF R!Environment, RP!Environment
<1>11. R!Next <=> RP!Next
  BY <1>8, <1>10, SameThread DEF R!Next, RP!Next
<1> QED
  BY <1>2, <1>3, <1>4, <1>5, <1>11

-----------------------------------------------------------------------------
(* What is in the air and in the mailboxes.                                  *)

\* Packets that carry payloads, or answers to requests for chunks of A.
AirPacket(A) == [type : {"PAYLOAD"}, seq : Chunk] \union [type : {"RESP"}, seq : A]

\* Messages for the sender that ask for chunks of A at most.
TxMessage(A) ==
  [type : {"BULK_REQ"}, list : Lists(A \union {Invalid})]
    \union [type : {"START", "SEND_FILE"}, list : {<<>>}]

\* The chunks that an answer may carry: those that were asked for, until a
\* relay has sent another one for one of them.
Answerable == IF swapped /\ rxAsked # {} THEN Chunk ELSE rxAsked

\* Whatever asks for a chunk, or answers with one, goes back to a request of
\* the receiver.
RequestsInv ==
  /\ rxAsked \subseteq Chunk
  /\ up \in Seq(Lists(rxAsked))
  /\ relayQueue \in Seq(rxAsked)
  /\ txQueue \in Seq(rxAsked)
  /\ txMailbox \in Seq(TxMessage(rxAsked))
  /\ down \in Seq(AirPacket(Answerable))

\* The payloads in air ascend from lo to hi.
Ascending(air, lo, hi) ==
  \A i \in DOMAIN air : air[i].type = "PAYLOAD" =>
    /\ lo <= air[i].seq /\ air[i].seq <= hi
    /\ \A j \in DOMAIN air : i < j /\ air[j].type = "PAYLOAD" => air[i].seq < air[j].seq

PayloadsInv ==
  /\ txLast \in -1..NumPkts
  /\ rxNextPayload \in 0..txLast + 1
  /\ Ascending(down, rxNextPayload, txLast)

\* Before the sender is started, nothing has happened; it is started once.
FreshInv ==
  /\ txState = "IDLE" =>
       /\ txLast = -1 /\ txTimer = "off"
       /\ down = <<>> /\ up = <<>> /\ relayQueue = <<>>
       /\ rxMailbox = <<>> /\ ~rxExpectationTimer /\ ~rxInterestTimer
       /\ Len(txMailbox) <= 1
       /\ \A i \in DOMAIN txMailbox : txMailbox[i].type = "START"
  /\ txState # "IDLE" => \A i \in DOMAIN txMailbox : txMailbox[i].type # "START"

AirInv == RequestsInv /\ PayloadsInv /\ FreshInv

\* A sequence over a set is one over every larger set.
LEMMA SeqGrows ==
  ASSUME NEW A, NEW B, A \subseteq B, NEW s \in Seq(A) PROVE s \in Seq(B)
OBVIOUS

\* More chunks asked for allow more messages.
LEMMA AskedGrows ==
  ASSUME NEW A, NEW B, A \subseteq B
  PROVE  /\ Lists(A) \subseteq Lists(B)
         /\ AirPacket(A) \subseteq AirPacket(B)
         /\ TxMessage(A) \subseteq TxMessage(B)
<1>1. \A C, D : C \subseteq D => Lists(C) \subseteq Lists(D)
  BY ListsAreSequences, SeqGrows
<1>2. Lists(A \union {Invalid}) \subseteq Lists(B \union {Invalid})
  BY <1>1
<1> QED
  BY <1>1, <1>2 DEF AirPacket, TxMessage

LEMMA AskedIsAnswerable ==
  ASSUME rxAsked \subseteq Chunk
  PROVE  /\ rxAsked \subseteq Answerable /\ Answerable \in SUBSET Chunk
         /\ Answerable # {} => rxAsked # {}
         /\ ~swapped => Answerable = rxAsked
         /\ AirPacket(rxAsked) \subseteq AirPacket(Answerable)
<1>1. /\ rxAsked \subseteq Answerable /\ Answerable \in SUBSET Chunk
      /\ Answerable # {} => rxAsked # {}
      /\ ~swapped => Answerable = rxAsked
  BY DEF Answerable
<1> QED
  BY <1>1, AskedGrows

\* Taking the first and appending at the end.
LEMMA Taken ==
  ASSUME NEW A, NEW s \in Seq(A), s # <<>>
  PROVE  /\ Head(s) \in A /\ Head(s) = s[1] /\ 1 \in DOMAIN s /\ Tail(s) \in Seq(A)
         /\ \A i \in DOMAIN Tail(s) : /\ i \in Nat /\ i + 1 \in DOMAIN s
                                       /\ 1 < i + 1 /\ Tail(s)[i] = s[i + 1]
<1>1. Len(s) \in Nat /\ Len(s) # 0 /\ DOMAIN s = 1..Len(s)
  BY EmptySeq
<1>2. /\ Tail(s) \in Seq(A) /\ Len(Tail(s)) = Len(s) - 1 /\ Head(s) \in A
      /\ \A i \in 1..Len(s) - 1 : Tail(s)[i] = s[i + 1]
  BY <1>1, HeadTailProperties
<1>3. DOMAIN Tail(s) = 1..Len(s) - 1
  BY <1>2
<1> QED
  BY <1>1, <1>2, <1>3

LEMMA Appended ==
  ASSUME NEW A, NEW s \in Seq(A), NEW e \in A
  PROVE  /\ Append(s, e) \in Seq(A)
         /\ \A i \in DOMAIN Append(s, e) :
              /\ i \in Nat
              /\ \/ i \in DOMAIN s /\ i <= Len(s) /\ Append(s, e)[i] = s[i]
                 \/ i = Len(s) + 1 /\ i \notin DOMAIN s /\ Append(s, e)[i] = e
<1>1. /\ Append(s, e) \in Seq(A) /\ Len(Append(s, e)) = Len(s) + 1 /\ Len(s) \in Nat
      /\ \A i \in 1..Len(s) : Append(s, e)[i] = s[i]
      /\ Append(s, e)[Len(s) + 1] = e
  BY AppendProperties
<1>2. DOMAIN s = 1..Len(s) /\ DOMAIN Append(s, e) = 1..Len(s) + 1
  BY <1>1
<1> QED
  BY <1>1, <1>2

\* A bound that grows stays one.
LEMMA Between ==
  ASSUME NEW a \in Int, NEW b \in Int, NEW c \in Int, 0 <= a, a <= b + 1, b <= c
  PROVE  a \in 0..c + 1
OBVIOUS

\* Packets of the air have chunk numbers.
LEMMA AirTyped ==
  ASSUME NEW A \in SUBSET Chunk
  PROVE  AirPacket(A) \subseteq S!Packet
BY DEF AirPacket, S!Packet, S!Chunk, Chunk

\* The first packet leaves the air; behind a payload, the rest is above it.
LEMMA AscendingTail ==
  ASSUME NEW A \in SUBSET Chunk, NEW air \in Seq(AirPacket(A)), air # <<>>,
         NEW lo \in Int, NEW hi \in Int, Ascending(air, lo, hi)
  PROVE  /\ Ascending(Tail(air), lo, hi)
         /\ Head(air).type = "PAYLOAD" =>
              /\ lo <= Head(air).seq /\ Head(air).seq <= hi
              /\ Ascending(Tail(air), Head(air).seq + 1, hi)
<1>1. /\ 1 \in DOMAIN air /\ Head(air) = air[1]
      /\ \A i \in DOMAIN Tail(air) : /\ i \in Nat /\ i + 1 \in DOMAIN air
                                     /\ 1 < i + 1 /\ Tail(air)[i] = air[i + 1]
  BY Taken
<1>2. \A i \in DOMAIN air : air[i].seq \in Int
  BY AirTyped DEF S!Packet, S!Chunk
<1>3. ASSUME NEW i \in DOMAIN Tail(air), Tail(air)[i].type = "PAYLOAD"
      PROVE  /\ lo <= Tail(air)[i].seq /\ Tail(air)[i].seq <= hi
             /\ \A j \in DOMAIN Tail(air) :
                  i < j /\ Tail(air)[j].type = "PAYLOAD" => Tail(air)[i].seq < Tail(air)[j].seq
             /\ Head(air).type = "PAYLOAD" => Head(air).seq + 1 <= Tail(air)[i].seq
  <2>1. lo <= air[i + 1].seq /\ air[i + 1].seq <= hi /\ Tail(air)[i] = air[i + 1]
    BY <1>1, <1>3 DEF Ascending
  <2>2. ASSUME NEW j \in DOMAIN Tail(air), i < j, Tail(air)[j].type = "PAYLOAD"
        PROVE  Tail(air)[i].seq < Tail(air)[j].seq
    <3>1. i + 1 < j + 1
      BY <1>1, <2>2
    <3> QED
      BY <1>1, <1>3, <2>2, <3>1 DEF Ascending
  <2>3. ASSUME Head(air).type = "PAYLOAD" PROVE Head(air).seq + 1 <= Tail(air)[i].seq
    <3>1. Head(air).seq < Tail(air)[i].seq
      BY <1>1, <1>3, <2>3 DEF Ascending
    <3> QED
      BY <1>1, <1>2, <3>1
  <2> QED
    BY <2>1, <2>2, <2>3
<1>4. Head(air).type = "PAYLOAD" => lo <= Head(air).seq /\ Head(air).seq <= hi
  BY <1>1 DEF Ascending
<1> QED
  BY <1>3, <1>4 DEF Ascending

\* An answer goes into the air, or the payload after the last one.
LEMMA AscendingAppend ==
  ASSUME NEW A \in SUBSET Chunk, NEW air \in Seq(AirPacket(A)), NEW p \in AirPacket(A),
         NEW lo \in Int, NEW hi \in Int, NEW new \in Int, Ascending(air, lo, hi), hi <= new,
         lo <= hi + 1, p.type = "PAYLOAD" => p.seq = hi + 1 /\ new = hi + 1
  PROVE  Ascending(Append(air, p), lo, new)
<1>1. \A i \in DOMAIN Append(air, p) :
        /\ i \in Nat
        /\ \/ i \in DOMAIN air /\ i <= Len(air) /\ Append(air, p)[i] = air[i]
           \/ i = Len(air) + 1 /\ i \notin DOMAIN air /\ Append(air, p)[i] = p
  BY Appended
<1>2. Len(air) \in Nat /\ \A i \in DOMAIN air : air[i].seq \in Int
  BY AirTyped DEF S!Packet, S!Chunk
<1> DEFINE longer == Append(air, p)
<1> HIDE DEF longer
<1>3. ASSUME NEW i \in DOMAIN longer, longer[i].type = "PAYLOAD"
      PROVE  /\ lo <= longer[i].seq /\ longer[i].seq <= new
             /\ \A j \in DOMAIN longer :
                  i < j /\ longer[j].type = "PAYLOAD" => longer[i].seq < longer[j].seq
  <2>1. CASE i = Len(air) + 1 /\ longer[i] = p
    <3>1. p.seq = hi + 1 /\ new = hi + 1
      BY <1>3, <2>1
    <3>2. \A j \in DOMAIN longer : ~(i < j)
      BY <1>1, <1>2, <2>1 DEF longer
    <3> QED
      BY <2>1, <3>1, <3>2
  <2>2. CASE i \in DOMAIN air /\ longer[i] = air[i]
    <3>1. lo <= air[i].seq /\ air[i].seq <= hi /\ air[i].seq \in Int
      BY <1>2, <1>3, <2>2 DEF Ascending
    <3>2. ASSUME NEW j \in DOMAIN longer, i < j, longer[j].type = "PAYLOAD"
          PROVE  longer[i].seq < longer[j].seq
      <4>1. CASE j \in DOMAIN air /\ longer[j] = air[j]
        BY <1>3, <2>2, <3>2, <4>1 DEF Ascending
      <4>2. CASE longer[j] = p
        BY <2>2, <3>1, <3>2, <4>2
      <4> QED
        BY <1>1, <4>1, <4>2 DEF longer
    <3> QED
      BY <2>2, <3>1, <3>2
  <2> QED
    BY <1>1, <2>1, <2>2 DEF longer
<1> QED
  BY <1>3 DEF Ascending, longer
-----------------------------------------------------------------------------
(* No step puts anything else there.                                         *)

\* The sender takes its messages; what it sends was asked for, or comes next.
LEMMA SenderTakes ==
  ASSUME AirInv, S!Thread
  PROVE  /\ txMailbox # <<>> /\ txMailbox' = Tail(txMailbox)
         /\ \/ /\ Head(txMailbox).type = "BULK_REQ"
               /\ UNCHANGED <<txLast, txState>> /\ txSent' = None
               /\ \E order \in S!Listing(S!Requests(Head(txMailbox).list)) :
                    txQueue' = S!EnqueueAll(txQueue, S!Picked(Head(txMailbox).list, order))
            \/ /\ Head(txMailbox).type = "START" /\ txState' = "SENDING"
               /\ UNCHANGED txQueue /\ txLast' = -1 /\ txSent' = None
            \/ /\ Head(txMailbox).type = "SEND_FILE"
               /\ txState # "IDLE" => txState' # "IDLE"
               /\ \/ /\ UNCHANGED txQueue /\ txLast < NumPkts /\ txLast' = txLast + 1
                     /\ txSent' = [type |-> "PAYLOAD", seq |-> txLast + 1]
                  \/ /\ txQueue # <<>> /\ txQueue' = Tail(txQueue) /\ UNCHANGED txLast
                     /\ txSent' = [type |-> "RESP", seq |-> Head(txQueue)]
<1>1. txMailbox # <<>> /\ txMailbox' = Tail(txMailbox)
  BY DEF S!Thread, S!HandlePktReq, S!HandleBulkReq, S!HandleOther, S!HandleStart, S!HandleSendFile,
         S!HandleStop, S!Take
<1>2. Head(txMailbox).type \in {"BULK_REQ", "START", "SEND_FILE"}
  <2>1. Head(txMailbox) \in TxMessage(rxAsked)
    BY <1>1, Taken DEF AirInv, RequestsInv
  <2> QED
    BY <2>1 DEF TxMessage
<1>3. S!HandleBulkReq \/ S!HandleStart \/ S!HandleSendFile
  BY <1>2 DEF S!Thread, S!HandlePktReq, S!HandleOther, S!HandleStop, S!Take
<1>4. CASE S!HandleBulkReq
  BY <1>1, <1>4 DEF S!HandleBulkReq, S!Take
<1>5. CASE S!HandleStart
  BY <1>1, <1>5 DEF S!HandleStart, S!Take
<1>6. CASE S!HandleSendFile
  <2>1. Head(txMailbox).type = "SEND_FILE" /\ (txState # "IDLE" => txState' # "IDLE")
    BY <1>6 DEF S!HandleSendFile, S!Take
  <2>2. \/ /\ UNCHANGED txQueue /\ txLast < NumPkts /\ txLast' = txLast + 1
           /\ txSent' = [type |-> "PAYLOAD", seq |-> txLast + 1]
        \/ /\ txQueue # <<>> /\ txQueue' = Tail(txQueue) /\ UNCHANGED txLast
           /\ txSent' = [type |-> "RESP", seq |-> Head(txQueue)]
    BY <1>6 DEF S!HandleSendFile
  <2> QED
    BY <1>1, <2>1, <2>2
<1> QED
  BY <1>3, <1>4, <1>5, <1>6

\* What a bulk request leaves in the sender's queue was asked for.
LEMMA QueuedWasAsked ==
  ASSUME S!TypeOK, NEW A, txQueue \in Seq(A), NEW list \in Lists(A \union {Invalid}),
         NEW order \in S!Listing(S!Requests(list))
  PROVE  S!EnqueueAll(txQueue, S!Picked(list, order)) \in Seq(A)
<1>1. list \in Seq(A \union {Invalid})
  BY ListsAreSequences
<1>2. \A set : S!Listing(set) = SP!Listing(set)
  BY SameCardinality DEF S!Listing, SP!Listing
<1>3. /\ S!Requests(list) = SP!Requests(list)
      /\ S!Picked(list, order) = SP!Picked(list, order)
  BY DEF S!Requests, SP!Requests, S!Picked, SP!Picked
<1>4. SP!Picked(list, order) \in Seq(A)
  BY <1>1, <1>2, <1>3, SP!PickedTyped, SenderConstants, QueueLenAssumption
<1>5. Len(txQueue) <= QueueLen
  BY DEF S!TypeOK
<1>6. SP!EnqueueAll(txQueue, SP!Picked(list, order)) \in Seq(A)
  BY <1>4, <1>5, SP!EnqueueAllTyped, SenderConstants, QueueLenAssumption
<1> QED
  BY <1>3, <1>6 DEF S!EnqueueAll, SP!EnqueueAll

LEMMA SenderAir ==
  ASSUME S!TypeOK, AirInv, SenderStep PROVE AirInv'
<1>1. /\ S!Thread /\ UNCHANGED <<rxVars, up, relayQueue, swapped>>
      /\ down' \in {down, Append(down, txSent')}
      /\ txSent' = None => down' = down
  BY DEF SenderStep, Transmit, relayVars
<1>2. /\ UNCHANGED <<rxAsked, rxNextPayload, rxMailbox, rxExpectationTimer, rxInterestTimer>>
      /\ NumPkts \in Nat
      /\ Answerable' = Answerable
  BY <1>1, TransferAssumption DEF rxVars, Answerable
<1>3. /\ txMailbox # <<>> /\ txMailbox' = Tail(txMailbox)
      /\ txMailbox \in Seq(TxMessage(rxAsked))
      /\ Head(txMailbox) \in TxMessage(rxAsked)
      /\ Tail(txMailbox) \in Seq(TxMessage(rxAsked))
      /\ Head(txMailbox) = txMailbox[1] /\ 1 \in DOMAIN txMailbox
      /\ \A i \in DOMAIN txMailbox' : /\ i + 1 \in DOMAIN txMailbox
                                      /\ txMailbox'[i] = txMailbox[i + 1]
  BY <1>1, SenderTakes, Taken DEF AirInv, RequestsInv
<1>4. txState # "IDLE" => \A i \in DOMAIN txMailbox' : txMailbox'[i].type # "START"
  BY <1>3 DEF AirInv, FreshInv
<1>5. txState = "IDLE" => Head(txMailbox).type = "START" /\ txMailbox' = <<>>
  <2>1. ASSUME txState = "IDLE" PROVE Head(txMailbox).type = "START" /\ Len(txMailbox) <= 1
    BY <1>3, <2>1 DEF AirInv, FreshInv
  <2>2. Len(Tail(txMailbox)) = Len(txMailbox) - 1 /\ Len(txMailbox) \in Nat
    BY <1>3, HeadTailProperties
  <2>3. Len(Tail(txMailbox)) = 0 => Tail(txMailbox) = <<>>
    BY <1>3, EmptySeq
  <2>4. Len(Tail(txMailbox)) \in Nat
    BY <1>3
  <2> QED
    BY <1>3, <2>1, <2>2, <2>3, <2>4
<1>6. CASE Head(txMailbox).type = "BULK_REQ"
  <2>1. /\ UNCHANGED <<txLast, txState, down>>
        /\ \E order \in S!Listing(S!Requests(Head(txMailbox).list)) :
             txQueue' = S!EnqueueAll(txQueue, S!Picked(Head(txMailbox).list, order))
    BY <1>1, <1>6, SenderTakes
  <2>2. Head(txMailbox).list \in Lists(rxAsked \union {Invalid})
    BY <1>3, <1>6 DEF TxMessage
  <2>3. txQueue' \in Seq(rxAsked)
    BY <2>1, <2>2, QueuedWasAsked DEF AirInv, RequestsInv
  <2>4. txState # "IDLE"
    BY <1>5, <1>6
  <2>5. RequestsInv'
    BY <1>1, <1>2, <1>3, <2>1, <2>3 DEF AirInv, RequestsInv
  <2>6. PayloadsInv' /\ FreshInv'
    BY <1>2, <1>4, <2>1, <2>4 DEF AirInv, PayloadsInv, FreshInv
  <2> QED
    BY <2>5, <2>6 DEF AirInv
<1>7. CASE Head(txMailbox).type = "START"
  <2>1. /\ txState' = "SENDING" /\ txLast' = -1 /\ UNCHANGED <<txQueue, down>>
    BY <1>1, <1>7, SenderTakes
  <2>2. txState = "IDLE"
    BY <1>3, <1>7 DEF AirInv, FreshInv
  <2>3. /\ txMailbox' = <<>> /\ DOMAIN txMailbox' = {}
    BY <1>5, <2>2
  <2>4. RequestsInv'
    BY <1>1, <1>2, <1>3, <2>1 DEF AirInv, RequestsInv
  <2>5. PayloadsInv'
    BY <1>2, <2>1, <2>2 DEF AirInv, FreshInv, PayloadsInv
  <2>6. FreshInv'
    BY <2>1, <2>3 DEF FreshInv
  <2> QED
    BY <2>4, <2>5, <2>6 DEF AirInv
<1>8. CASE Head(txMailbox).type = "SEND_FILE"
  <2>1. txState # "IDLE" /\ txState' # "IDLE"
    BY <1>1, <1>5, <1>8, SenderTakes
  <2>2. FreshInv'
    BY <1>4, <2>1 DEF FreshInv
  <2>3. /\ Answerable \in SUBSET Chunk /\ down \in Seq(AirPacket(Answerable))
        /\ AirPacket(rxAsked) \subseteq AirPacket(Answerable)
        /\ Ascending(down, rxNextPayload, txLast)
        /\ txLast \in Int /\ rxNextPayload \in Int /\ rxNextPayload <= txLast + 1
    BY <1>2, AskedIsAnswerable DEF AirInv, RequestsInv, PayloadsInv
  <2>4. /\ txQueue' \in Seq(rxAsked) /\ txSent' \in AirPacket(Answerable)
        /\ txLast' \in -1..NumPkts /\ txLast <= txLast'
        /\ txSent'.type = "PAYLOAD" => txSent'.seq = txLast + 1 /\ txLast' = txLast + 1
    <3>1. CASE /\ UNCHANGED txQueue /\ txLast < NumPkts /\ txLast' = txLast + 1
               /\ txSent' = [type |-> "PAYLOAD", seq |-> txLast + 1]
      <4>1. txLast + 1 \in Chunk /\ txLast' \in -1..NumPkts
        BY <1>2, <3>1 DEF AirInv, PayloadsInv, Chunk
      <4> QED
        BY <2>3, <3>1, <4>1 DEF AirInv, RequestsInv, AirPacket
    <3>2. CASE /\ txQueue # <<>> /\ txQueue' = Tail(txQueue) /\ UNCHANGED txLast
               /\ txSent' = [type |-> "RESP", seq |-> Head(txQueue)]
      <4>1. Head(txQueue) \in rxAsked /\ Tail(txQueue) \in Seq(rxAsked)
        BY <3>2, Taken DEF AirInv, RequestsInv
      <4>2. txSent' \in AirPacket(rxAsked) /\ txSent'.type # "PAYLOAD"
        BY <3>2, <4>1 DEF AirPacket
      <4> QED
        BY <2>3, <3>2, <4>1, <4>2 DEF AirInv, PayloadsInv
    <3> QED
      BY <1>1, <1>8, <3>1, <3>2, SenderTakes
  <2>5. /\ Append(down, txSent') \in Seq(AirPacket(Answerable))
        /\ Ascending(Append(down, txSent'), rxNextPayload, txLast')
    <3>1. txLast' \in Int
      BY <1>2, <2>4
    <3> QED
      BY <2>3, <2>4, <3>1, Appended, AscendingAppend
  <2>6. Ascending(down, rxNextPayload, txLast')
    <3>1. \A i \in DOMAIN down : down[i].seq \in Int
      BY <2>3, AirTyped DEF S!Packet, S!Chunk
    <3> QED
      BY <1>2, <2>3, <2>4, <3>1 DEF Ascending
  <2>7. RequestsInv'
    BY <1>1, <1>2, <1>3, <2>4, <2>5 DEF AirInv, RequestsInv
  <2>8. PayloadsInv'
    <3>1. /\ txLast' \in Int /\ 0 <= rxNextPayload
          /\ txLast \in Int /\ rxNextPayload \in Int
          /\ rxNextPayload <= txLast + 1 /\ txLast <= txLast'
      BY <1>2, <2>3, <2>4 DEF AirInv, PayloadsInv
    <3>2. rxNextPayload \in 0..txLast' + 1
      BY <3>1, Between
    <3> QED
      BY <1>1, <1>2, <2>4, <2>5, <2>6, <3>2 DEF PayloadsInv
  <2> QED
    BY <2>2, <2>7, <2>8 DEF AirInv
<1> QED
  BY <1>1, <1>6, <1>7, <1>8, SenderTakes
\* What the receiver sends it has asked for; it asks only for chunks, and for
\* no more than fit in a packet.
LEMMA ReceiverAsks ==
  ASSUME R!TypeOK, R!Thread
  PROVE  /\ rxMailbox # <<>> /\ UNCHANGED rxNextPayload
         /\ rxAsked \subseteq rxAsked' /\ rxAsked' \subseteq Chunk
         /\ rxSent' = <<>> \/ rxSent' \in Lists(rxAsked')
<1>1. CASE R!HandleInterestTimeout
  <2> DEFINE n == R!Min2(BulkMax, Len(rxQueue))
  <2>1. /\ rxQueue \in Seq(Chunk) /\ rxAsked \subseteq Chunk
    BY DEF R!TypeOK, R!Chunk, Chunk
  <2>2. n \in Nat /\ Len(rxQueue) \in Nat /\ n <= Len(rxQueue) /\ n <= BulkMax
    BY <2>1, TransferAssumption DEF R!Min2
  <2>3. /\ rxMailbox # <<>> /\ UNCHANGED rxNextPayload
        /\ rxSent' = SubSeq(rxQueue, 1, n)
        /\ rxAsked' = rxAsked \union {rxQueue[i] : i \in 1..n}
    BY <1>1 DEF R!HandleInterestTimeout, R!Took
  <2> HIDE DEF n
  <2>4. \A i \in 1..n : rxQueue[i] \in Chunk /\ rxQueue[i] \in rxAsked'
    BY <2>1, <2>2, <2>3
  <2>5. SubSeq(rxQueue, 1, n) \in Seq(rxAsked') /\ Len(SubSeq(rxQueue, 1, n)) = n
    BY <2>1, <2>2, <2>4, SubSeqProperties
  <2>6. rxSent' \in Lists(rxAsked')
    BY <2>2, <2>3, <2>5, ListsAreSequences
  <2> QED
    BY <2>1, <2>3, <2>4, <2>6
<1>2. CASE R!Thread /\ ~R!HandleInterestTimeout
  <2>1. rxMailbox # <<>> /\ rxSent' = <<>> /\ UNCHANGED <<rxNextPayload, rxAsked>>
    BY <1>2 DEF R!Thread, R!HandlePayload, R!HandleResp, R!HandleConfigSync, R!HandleOther,
                R!HandleExpectationTimeout, R!HandleStop, R!Took, R!netVars
  <2> QED
    BY <2>1 DEF R!TypeOK, R!Chunk, Chunk
<1> QED
  BY <1>1, <1>2

LEMMA ReceiverAir ==
  ASSUME R!TypeOK, AirInv, ReceiverStep PROVE AirInv'
<1>1. /\ UNCHANGED <<txLast, txState, txQueue, txMailbox, down, relayQueue, swapped>>
      /\ up' \in {up, Append(up, rxSent')} /\ (rxSent' = <<>> => up' = up)
  BY DEF ReceiverStep, Transmit, txVars, relayVars
<1>2. /\ rxMailbox # <<>> /\ UNCHANGED rxNextPayload
      /\ rxAsked \subseteq rxAsked' /\ rxAsked' \subseteq Chunk
      /\ rxSent' = <<>> \/ rxSent' \in Lists(rxAsked')
  BY ReceiverAsks DEF ReceiverStep
<1>3. /\ up \in Seq(Lists(rxAsked')) /\ relayQueue \in Seq(rxAsked') /\ txQueue \in Seq(rxAsked')
      /\ txMailbox \in Seq(TxMessage(rxAsked')) /\ down \in Seq(AirPacket(Answerable'))
  <2>1. Answerable \subseteq Answerable'
    BY <1>1, <1>2 DEF Answerable
  <2> QED
    BY <1>2, <2>1, AskedGrows, SeqGrows DEF AirInv, RequestsInv
<1>4. up' \in Seq(Lists(rxAsked'))
  <2>1. CASE rxSent' = <<>>
    BY <1>1, <1>3, <2>1
  <2>2. CASE rxSent' \in Lists(rxAsked')
    <3>1. Append(up, rxSent') \in Seq(Lists(rxAsked'))
      BY <1>3, <2>2, Appended
    <3> QED
      BY <1>1, <1>3, <3>1
  <2> QED
    BY <1>2, <2>1, <2>2
<1>5. RequestsInv'
  BY <1>1, <1>2, <1>3, <1>4 DEF RequestsInv
<1>6. PayloadsInv' /\ FreshInv'
  BY <1>1, <1>2 DEF AirInv, PayloadsInv, FreshInv
<1> QED
  BY <1>5, <1>6 DEF AirInv

\* The timers, and the command.
LEMMA TimersAir ==
  ASSUME AirInv, IntervalTimerFires \/ InterestTimerFires \/ ExpectationTimerFires \/ Start
  PROVE  AirInv'
<1>1. /\ UNCHANGED <<txLast, txState, txQueue, rxAsked, rxNextPayload, down, up, relayQueue>>
      /\ Answerable' = Answerable
  BY DEF IntervalTimerFires, InterestTimerFires, ExpectationTimerFires, Start, airVars, relayVars, txVars,
         rxVars, S!IntervalTimerFires, S!ShellStart, S!Command, R!InterestTimerFires,
         R!ExpectationTimerFires, R!Fired, R!netVars, Answerable
<1>2. PayloadsInv'
  BY <1>1 DEF AirInv, PayloadsInv
<1>3. CASE InterestTimerFires \/ ExpectationTimerFires
  <2>1. (rxInterestTimer \/ rxExpectationTimer) /\ UNCHANGED txMailbox
    BY <1>3 DEF InterestTimerFires, ExpectationTimerFires, R!InterestTimerFires,
                R!ExpectationTimerFires, txVars
  <2> QED
    BY <1>1, <1>2, <2>1 DEF AirInv, RequestsInv, FreshInv
<1>4. ASSUME NEW t \in {"START", "SEND_FILE"}, txMailbox' = Append(txMailbox, S!Msg(t, <<>>))
      PROVE  RequestsInv'
  <2>1. S!Msg(t, <<>>) \in TxMessage(rxAsked)
    BY DEF S!Msg, TxMessage
  <2>2. txMailbox' \in Seq(TxMessage(rxAsked))
    BY <1>4, <2>1, Appended DEF AirInv, RequestsInv
  <2> QED
    BY <1>1, <2>2 DEF AirInv, RequestsInv
<1>5. CASE IntervalTimerFires
  <2>1. /\ txTimer # "off"
        /\ txMailbox' \in {txMailbox, Append(txMailbox, S!Msg("SEND_FILE", <<>>))}
    BY <1>5 DEF IntervalTimerFires, S!IntervalTimerFires
  <2>2. RequestsInv'
    BY <1>1, <1>4, <2>1 DEF AirInv, RequestsInv
  <2>3. txState # "IDLE" /\ \A i \in DOMAIN txMailbox : txMailbox[i].type # "START"
    BY <2>1 DEF AirInv, FreshInv
  <2>4. \A i \in DOMAIN txMailbox' : txMailbox'[i].type # "START"
    <3>1. /\ S!Msg("SEND_FILE", <<>>) \in TxMessage(rxAsked)
          /\ S!Msg("SEND_FILE", <<>>).type # "START"
      BY DEF S!Msg, TxMessage
    <3>2. \A i \in DOMAIN Append(txMailbox, S!Msg("SEND_FILE", <<>>)) :
            \/ i \in DOMAIN txMailbox
               /\ Append(txMailbox, S!Msg("SEND_FILE", <<>>))[i] = txMailbox[i]
            \/ Append(txMailbox, S!Msg("SEND_FILE", <<>>))[i] = S!Msg("SEND_FILE", <<>>)
      BY <3>1, Appended DEF AirInv, RequestsInv
    <3>3. CASE txMailbox' = txMailbox
      BY <2>3, <3>3
    <3>4. CASE txMailbox' = Append(txMailbox, S!Msg("SEND_FILE", <<>>))
      BY <2>3, <3>1, <3>2, <3>4
    <3> QED
      BY <2>1, <3>3, <3>4
  <2> QED
    BY <1>1, <1>2, <2>2, <2>3, <2>4 DEF AirInv, FreshInv
<1>6. CASE Start
  <2>1. /\ txState = "IDLE" /\ S!Pending("START") = {}
        /\ txMailbox' = Append(txMailbox, S!Msg("START", <<>>))
        /\ UNCHANGED <<txTimer, rxMailbox, rxExpectationTimer, rxInterestTimer>>
    BY <1>6 DEF Start, S!ShellStart, S!Command, S!Alive, rxVars
  <2>2. txMailbox = <<>>
    <3>1. DOMAIN txMailbox = {}
      BY <2>1 DEF S!Pending, AirInv, FreshInv
    <3> QED
      BY <3>1, EmptySeq DEF AirInv, RequestsInv
  <2>3. /\ Len(txMailbox') = 1 /\ DOMAIN txMailbox' = 1..1 /\ txMailbox'[1].type = "START"
    BY <2>1, <2>2 DEF S!Msg
  <2>4. FreshInv'
    BY <1>1, <2>1, <2>3 DEF AirInv, FreshInv
  <2> QED
    BY <1>2, <1>4, <2>1, <2>4 DEF AirInv
<1> QED
  BY <1>3, <1>5, <1>6
\* A packet reaches the receiver.
LEMMA PacketAir ==
  ASSUME AirInv, PacketArrives PROVE AirInv'
<1>1. /\ down # <<>> /\ down' = Tail(down)
      /\ UNCHANGED <<txLast, txState, txTimer, txQueue, txMailbox, up, relayQueue, rxAsked>>
      /\ Answerable' = Answerable
      /\ rxNextPayload' \in {rxNextPayload,
                            IF Head(down).type = "PAYLOAD" THEN Head(down).seq + 1 ELSE rxNextPayload}
  BY DEF PacketArrives, txVars, rxVars, relayVars, Answerable
<1>2. txState # "IDLE"
  BY <1>1 DEF AirInv, FreshInv
<1>3. /\ Answerable \in SUBSET Chunk /\ down \in Seq(AirPacket(Answerable))
      /\ rxNextPayload \in Int /\ 0 <= rxNextPayload /\ rxNextPayload <= txLast + 1
      /\ txLast \in Int /\ Ascending(down, rxNextPayload, txLast)
  BY AskedIsAnswerable, TransferAssumption DEF AirInv, RequestsInv, PayloadsInv
<1>4. Tail(down) \in Seq(AirPacket(Answerable)) /\ Head(down) \in AirPacket(Answerable)
  BY <1>1, <1>3, Taken
<1>5. /\ Ascending(Tail(down), rxNextPayload, txLast)
      /\ Head(down).type = "PAYLOAD" =>
           /\ rxNextPayload <= Head(down).seq /\ Head(down).seq <= txLast
           /\ Ascending(Tail(down), Head(down).seq + 1, txLast)
  BY <1>1, <1>3, AscendingTail
<1>6. RequestsInv' /\ FreshInv'
  BY <1>1, <1>2, <1>3, <1>4 DEF AirInv, RequestsInv, FreshInv
<1>7. PayloadsInv'
  <2>1. CASE rxNextPayload' = rxNextPayload
    BY <1>1, <1>5, <2>1 DEF AirInv, PayloadsInv
  <2>2. CASE Head(down).type = "PAYLOAD" /\ rxNextPayload' = Head(down).seq + 1
    <3>1. Head(down).seq \in Int
      BY <1>3, <1>4, AirTyped DEF S!Packet, S!Chunk
    <3>2. Head(down).seq + 1 \in 0..txLast + 1
      BY <1>3, <1>5, <2>2, <3>1
    <3> QED
      BY <1>1, <1>5, <2>2, <3>2 DEF AirInv, PayloadsInv
  <2> QED
    BY <1>1, <2>1, <2>2
<1> QED
  BY <1>6, <1>7 DEF AirInv

\* The elements of a sequence at some of its places, in order.
LEMMA HitsTyped ==
  ASSUME NEW A, NEW list \in Seq(A), NEW hits \in SUBSET (DOMAIN list), NEW order \in Listing(hits)
  PROVE  Picked(list, order) \in Seq(A) /\ Cardinality(hits) \in Nat
<1> DEFINE n == Cardinality(hits)
<1>1. DOMAIN list = 1..Len(list) /\ Len(list) \in Nat
  OBVIOUS
<1>2. n \in Nat
  <2>1. IsFiniteSet(1..Len(list)) /\ hits \in SUBSET (1..Len(list))
    BY <1>1, FS_Interval
  <2> QED
    BY <2>1, FS_Subset, FS_CardinalityType
<1>3. order \in [1..n -> hits]
  BY DEF Listing
<1>4. \A i \in 1..n : list[order[i]] \in A
  BY <1>1, <1>3
<1>5. Picked(list, order) = [i \in 1..n |-> list[order[i]]]
  BY <1>3 DEF Picked
<1> QED
  BY <1>2, <1>4, <1>5

\* A queue that takes more does not become shorter.
LEMMA EnqueueAllGrows ==
  ASSUME NEW A, NEW queue \in Seq(A), NEW seq \in Seq(A), Len(queue) <= QueueLen
  PROVE  Len(queue) <= Len(EnqueueAll(queue, seq))
<1>1. /\ Len(queue) \in Nat /\ Len(seq) \in Nat /\ queue \o seq \in Seq(A)
      /\ Len(queue \o seq) = Len(queue) + Len(seq)
  OBVIOUS
<1> DEFINE room == QueueLen - Len(queue)
           n == IF Len(seq) <= room THEN Len(seq) ELSE room
<1>2. n \in 0..Len(seq)
  BY <1>1, QueueLenAssumption
<1>3. EnqueueAll(queue, seq) = queue \o SubSeq(seq, 1, n)
  BY DEF EnqueueAll
<1> HIDE DEF n
<1>4. SubSeq(seq, 1, n) \in Seq(A) /\ Len(SubSeq(seq, 1, n)) \in Nat
  BY <1>2, SubSeqProperties
<1>5. Len(queue \o SubSeq(seq, 1, n)) = Len(queue) + Len(SubSeq(seq, 1, n))
  BY <1>4, ConcatProperties
<1> QED
  BY <1>1, <1>3, <1>4, <1>5

\* A request passes the relays.
LEMMA RequestPasses ==
  ASSUME TypeOK, AirInv, RequestArrives
  PROVE  /\ up # <<>> /\ up' = Tail(up) /\ UNCHANGED <<rxVars, down, swapped>>
         /\ relayQueue' \in Seq(rxAsked) /\ Len(relayQueue') <= QueueLen
         /\ Len(relayQueue) <= Len(relayQueue')
         /\ relayed' \in 0..MaxRelayed
         /\ \/ UNCHANGED txVars
            \/ /\ UNCHANGED txInputs
               /\ \E list \in Lists(rxAsked \union {Invalid}) \intersect Bulks :
                    S!Deliver(S!Msg("BULK_REQ", list))
<1>1. up # <<>> /\ up' = Tail(up) /\ UNCHANGED <<rxVars, down, swapped>>
  BY DEF RequestArrives
<1> DEFINE head == Head(up)
<1>2. head \in Seq(rxAsked) /\ Len(head) <= BulkMax /\ DOMAIN head = 1..Len(head)
  <2>1. head \in Lists(rxAsked)
    BY <1>1, Taken DEF AirInv, RequestsInv
  <2> QED
    BY <2>1, ListsAreSequences
<1>3. PICK hits \in SUBSET (DOMAIN head) :
        LET rest == [i \in DOMAIN head |-> IF i \in hits THEN Invalid ELSE head[i]]
        IN /\ relayed' = relayed + Cardinality(hits) /\ relayed' <= MaxRelayed
           /\ \E order \in Listing(hits) : relayQueue' = EnqueueAll(relayQueue, Picked(head, order))
           /\ IF hits = DOMAIN rest THEN UNCHANGED txVars
              ELSE S!Deliver(S!Msg("BULK_REQ", rest)) /\ UNCHANGED txInputs
  BY DEF RequestArrives
<1> HIDE DEF head
<1>4. PICK order \in Listing(hits) : relayQueue' = EnqueueAll(relayQueue, Picked(head, order))
  BY <1>3
<1>5. Picked(head, order) \in Seq(rxAsked) /\ Cardinality(hits) \in Nat
  BY <1>2, HitsTyped
<1>6. /\ relayQueue' \in Seq(rxAsked) /\ Len(relayQueue') <= QueueLen
      /\ Len(relayQueue) <= Len(relayQueue')
  <2>1. relayQueue \in Seq(rxAsked) /\ Len(relayQueue) <= QueueLen
    BY DEF TypeOK, AirInv, RequestsInv
  <2>2. /\ SP!EnqueueAll(relayQueue, Picked(head, order)) \in Seq(rxAsked)
        /\ Len(SP!EnqueueAll(relayQueue, Picked(head, order))) <= QueueLen
    BY <1>5, <2>1, SP!EnqueueAllTyped, SenderConstants, QueueLenAssumption
  <2>3. EnqueueAll(relayQueue, Picked(head, order)) = SP!EnqueueAll(relayQueue, Picked(head, order))
    BY DEF EnqueueAll, SP!EnqueueAll
  <2>4. Len(relayQueue) <= Len(EnqueueAll(relayQueue, Picked(head, order)))
    BY <1>5, <2>1, EnqueueAllGrows
  <2> QED
    BY <1>4, <2>2, <2>3, <2>4
<1>7. relayed' \in 0..MaxRelayed
  <2>1. relayed \in Nat
    BY TransferAssumption DEF TypeOK
  <2>2. relayed' \in Nat /\ relayed' <= MaxRelayed
    BY <1>3, <1>5, <2>1
  <2> QED
    BY <2>2, TransferAssumption
<1> DEFINE rest == [i \in DOMAIN head |-> IF i \in hits THEN Invalid ELSE head[i]]
<1>8. ASSUME hits # DOMAIN head PROVE rest \in Lists(rxAsked \union {Invalid}) \intersect Bulks
  <2>1. Len(head) \in 0..BulkMax
    BY <1>2, TransferAssumption
  <2>2. rest \in [1..Len(head) -> rxAsked \union {Invalid}]
    BY <1>2
  <2>3. rest \in Lists(rxAsked \union {Invalid})
    BY <2>1, <2>2 DEF Lists
  <2>4. rxAsked \subseteq Chunk /\ rest \in Lists(Chunk \union {Invalid})
    <3>1. rxAsked \union {Invalid} \subseteq Chunk \union {Invalid} /\ rxAsked \subseteq Chunk
      BY DEF AirInv, RequestsInv
    <3> QED
      BY <2>3, <3>1, AskedGrows
  <2>5. PICK i \in DOMAIN head : i \notin hits
    BY <1>8
  <2>6. i \in DOMAIN rest /\ rest[i] \in Chunk
    BY <1>2, <2>4, <2>5
  <2>7. rest[i] # Invalid
    BY <2>6, TransferAssumption DEF Chunk
  <2> QED
    BY <2>3, <2>4, <2>6, <2>7, BulksAreLists
<1>9. IF hits = DOMAIN head THEN UNCHANGED txVars
      ELSE S!Deliver(S!Msg("BULK_REQ", rest)) /\ UNCHANGED txInputs
  BY <1>3
<1> HIDE DEF rest
<1>10. \/ UNCHANGED txVars
       \/ /\ UNCHANGED txInputs
          /\ \E list \in Lists(rxAsked \union {Invalid}) \intersect Bulks :
               S!Deliver(S!Msg("BULK_REQ", list))
  BY <1>8, <1>9
<1> QED
  BY <1>1, <1>6, <1>7, <1>10

LEMMA RequestAir ==
  ASSUME TypeOK, AirInv, RequestArrives PROVE AirInv'
<1>1. /\ up # <<>> /\ up' = Tail(up) /\ UNCHANGED <<rxAsked, rxNextPayload, down>>
      /\ Answerable' = Answerable
      /\ relayQueue' \in Seq(rxAsked)
  BY RequestPasses DEF rxVars, Answerable
<1>2. txState # "IDLE"
  BY <1>1 DEF AirInv, FreshInv
<1>3. /\ UNCHANGED <<txLast, txState, txQueue>>
      /\ \/ UNCHANGED txMailbox
         \/ \E list \in Lists(rxAsked \union {Invalid}) :
              txMailbox' = Append(txMailbox, S!Msg("BULK_REQ", list))
  BY RequestPasses DEF txVars, S!Deliver
<1>4. /\ txMailbox' \in Seq(TxMessage(rxAsked))
      /\ \A i \in DOMAIN txMailbox' : txMailbox'[i].type # "START"
  <2>1. /\ txMailbox \in Seq(TxMessage(rxAsked))
        /\ \A i \in DOMAIN txMailbox : txMailbox[i].type # "START"
    BY <1>2 DEF AirInv, RequestsInv, FreshInv
  <2>2. CASE UNCHANGED txMailbox
    BY <2>1, <2>2
  <2>3. CASE ~UNCHANGED txMailbox
    <3>1. PICK list \in Lists(rxAsked \union {Invalid}) :
            txMailbox' = Append(txMailbox, S!Msg("BULK_REQ", list))
      BY <1>3, <2>3
    <3>2. /\ S!Msg("BULK_REQ", list) \in TxMessage(rxAsked)
          /\ S!Msg("BULK_REQ", list).type # "START"
      BY DEF S!Msg, TxMessage
    <3>3. /\ Append(txMailbox, S!Msg("BULK_REQ", list)) \in Seq(TxMessage(rxAsked))
          /\ \A i \in DOMAIN Append(txMailbox, S!Msg("BULK_REQ", list)) :
               \/ i \in DOMAIN txMailbox
                  /\ Append(txMailbox, S!Msg("BULK_REQ", list))[i] = txMailbox[i]
               \/ Append(txMailbox, S!Msg("BULK_REQ", list))[i] = S!Msg("BULK_REQ", list)
      BY <2>1, <3>2, Appended
    <3>4. \A i \in DOMAIN Append(txMailbox, S!Msg("BULK_REQ", list)) :
            Append(txMailbox, S!Msg("BULK_REQ", list))[i].type # "START"
      BY <2>1, <3>2, <3>3
    <3> QED
      BY <3>1, <3>3, <3>4
  <2> QED
    BY <2>2, <2>3
<1>5. up' \in Seq(Lists(rxAsked))
  BY <1>1, Taken DEF AirInv, RequestsInv
<1> QED
  BY <1>1, <1>2, <1>3, <1>4, <1>5 DEF AirInv, RequestsInv, PayloadsInv, FreshInv

\* A relay answers.
LEMMA RelayAir ==
  ASSUME AirInv, RelayAnswers \/ RelaySwaps PROVE AirInv'
<1> DEFINE Answer(k) == [type |-> "RESP", seq |-> k]
<1>1. \/ /\ down' \in {down, Append(down, Answer(Head(relayQueue)))} /\ UNCHANGED swapped
      \/ /\ \E k \in 0..txLast : down' \in {down, Append(down, Answer(k))}
         /\ swapped'
  BY DEF RelayAnswers, RelaySwaps, RelaySends, Transmit
<1> HIDE DEF Answer
<1>2. /\ relayQueue # <<>> /\ relayQueue' = Tail(relayQueue)
      /\ UNCHANGED <<txLast, txState, txQueue, txMailbox, up, rxAsked, rxNextPayload>>
  BY DEF RelayAnswers, RelaySwaps, RelaySends, txVars, rxVars
<1>3. txState # "IDLE"
  BY <1>2 DEF AirInv, FreshInv
<1>4. /\ rxAsked \subseteq Chunk /\ relayQueue \in Seq(rxAsked)
      /\ down \in Seq(AirPacket(Answerable))
      /\ txLast \in -1..NumPkts /\ NumPkts \in Nat
      /\ txLast \in Int /\ rxNextPayload \in Int /\ rxNextPayload <= txLast + 1
      /\ Ascending(down, rxNextPayload, txLast)
  BY TransferAssumption DEF AirInv, RequestsInv, PayloadsInv
<1>5. Head(relayQueue) \in rxAsked /\ relayQueue' \in Seq(rxAsked)
  BY <1>2, <1>4, Taken
<1>6. /\ Answerable \subseteq Answerable' /\ Answerable' \in SUBSET Chunk
      /\ \E k \in Answerable' : down' \in {down, Append(down, Answer(k))}
  <2>1. CASE down' \in {down, Append(down, Answer(Head(relayQueue)))} /\ UNCHANGED swapped
    <3>1. Answerable' = Answerable
      BY <1>2, <2>1 DEF Answerable
    <3>2. Head(relayQueue) \in Answerable'
      BY <1>4, <1>5, <3>1, AskedIsAnswerable
    <3> QED
      BY <1>4, <2>1, <3>1, <3>2, AskedIsAnswerable
  <2>2. CASE swapped' /\ \E k \in 0..txLast : down' \in {down, Append(down, Answer(k))}
    <3>1. PICK k \in 0..txLast : down' \in {down, Append(down, Answer(k))}
      BY <2>2
    <3>2. k \in Chunk
      BY <1>4 DEF Chunk
    <3>3. Answerable' = Chunk
      BY <1>2, <1>5, <2>2 DEF Answerable
    <3> QED
      BY <1>4, <3>1, <3>2, <3>3, AskedIsAnswerable
  <2> QED
    BY <1>1, <2>1, <2>2
<1>7. PICK k \in Answerable' : down' \in {down, Append(down, Answer(k))}
  BY <1>6
<1> DEFINE q == Answer(k)
<1>8. /\ down' \in {down, Append(down, q)} /\ down \in Seq(AirPacket(Answerable'))
      /\ q \in AirPacket(Answerable') /\ q.type # "PAYLOAD"
  BY <1>4, <1>6, <1>7, AskedGrows, SeqGrows DEF AirPacket, Answer
<1> HIDE DEF q
<1>9. PICK B \in SUBSET Chunk : B = Answerable'
  BY <1>6
<1>10. Append(down, q) \in Seq(AirPacket(B)) /\ Ascending(Append(down, q), rxNextPayload, txLast)
  <2>1. down \in Seq(AirPacket(B)) /\ q \in AirPacket(B) /\ q.type # "PAYLOAD"
    BY <1>8, <1>9
  <2>2. Append(down, q) \in Seq(AirPacket(B))
    BY <2>1, Appended
  <2> QED
    BY <1>4, <2>1, <2>2, AscendingAppend
<1>11. down' \in Seq(AirPacket(Answerable')) /\ Ascending(down', rxNextPayload, txLast)
  BY <1>4, <1>8, <1>9, <1>10
<1> QED
  BY <1>2, <1>3, <1>5, <1>11 DEF AirInv, RequestsInv, PayloadsInv, FreshInv

\* Nothing happens.
LEMMA StutterAir ==
  ASSUME AirInv, UNCHANGED vars PROVE AirInv'
BY DEF AirInv, RequestsInv, PayloadsInv, FreshInv, Answerable, vars, txVars, rxVars, airVars,
       relayVars

LEMMA NextAir == TypeOK /\ AirInv /\ [Next]_vars => AirInv'
<1> SUFFICES ASSUME TypeOK, AirInv, [Next]_vars PROVE AirInv'
  OBVIOUS
<1>1. S!TypeOK /\ R!TypeOK
  BY DEF TypeOK
<1>2. CASE SenderStep
  BY <1>1, <1>2, SenderAir
<1>3. CASE ReceiverStep
  BY <1>1, <1>3, ReceiverAir
<1>4. CASE IntervalTimerFires \/ InterestTimerFires \/ ExpectationTimerFires \/ Start
  BY <1>4, TimersAir
<1>5. CASE PacketArrives
  BY <1>5, PacketAir
<1>6. CASE RequestArrives
  BY <1>6, RequestAir
<1>7. CASE RelayAnswers \/ RelaySwaps
  BY <1>7, RelayAir
<1>8. CASE UNCHANGED vars
  BY <1>8, StutterAir
<1> QED
  BY <1>2, <1>3, <1>4, <1>5, <1>6, <1>7, <1>8 DEF Next, KeptNext

LEMMA InitAir == Init => AirInv
<1> SUFFICES ASSUME Init PROVE AirInv
  OBVIOUS
<1>1. /\ rxAsked = {} /\ up = <<>> /\ relayQueue = <<>> /\ txQueue = <<>> /\ txMailbox = <<>>
      /\ down = <<>> /\ txLast = -1 /\ rxNextPayload = 0 /\ txState = "IDLE" /\ txTimer = "off"
      /\ rxMailbox = <<>> /\ ~rxExpectationTimer /\ ~rxInterestTimer
  BY DEF Init, S!Init, R!Init
<1>2. \A A : <<>> \in Seq(A) /\ Len(<<>>) = 0 /\ DOMAIN <<>> = {}
  BY EmptySeq
<1>3. RequestsInv
  BY <1>1, <1>2 DEF RequestsInv
<1>4. PayloadsInv
  <2>1. -1 \in -1..NumPkts /\ 0 \in 0..(-1) + 1
    BY TransferAssumption
  <2> QED
    BY <1>1, <1>2, <2>1 DEF PayloadsInv, Ascending
<1>5. FreshInv
  BY <1>1, <1>2 DEF FreshInv
<1> QED
  BY <1>3, <1>4, <1>5 DEF AirInv

-----------------------------------------------------------------------------
(* Every step is one of the receiver's own specification.                    *)

LEMMA StepIsReceivers == AirInv /\ [Next]_vars => [R!Next]_R!vars
<1> SUFFICES ASSUME AirInv, [Next]_vars PROVE R!Next \/ UNCHANGED R!vars
  OBVIOUS
<1>1. UNCHANGED rxVars => UNCHANGED R!vars
  BY DEF rxVars, R!vars, R!threadVars, R!netVars
<1>2. CASE ReceiverStep
  BY <1>2 DEF ReceiverStep, R!Next
<1>3. CASE InterestTimerFires \/ ExpectationTimerFires
  BY <1>3 DEF InterestTimerFires, ExpectationTimerFires, R!Next
<1>4. CASE SenderStep \/ IntervalTimerFires \/ Start \/ RequestArrives \/ RelayAnswers
           \/ RelaySwaps \/ UNCHANGED vars
  BY <1>1, <1>4 DEF SenderStep, IntervalTimerFires, Start, RequestArrives, RelayAnswers,
                    RelaySwaps, RelaySends, vars
<1>5. CASE PacketArrives
  <2> DEFINE p == Head(down)
  <2>1. /\ down # <<>> /\ down \in Seq(AirPacket(Answerable)) /\ Answerable \in SUBSET Chunk
        /\ Answerable # {} => rxAsked # {}
    BY <1>5, AskedIsAnswerable DEF PacketArrives, AirInv, RequestsInv
  <2>2. p \in AirPacket(Answerable)
    BY <2>1, Taken
  <2>3. CASE ~R!Alive
    BY <1>1, <1>5, <2>3 DEF PacketArrives
  <2>4. CASE R!Alive
    <3>1. /\ R!Deliver(p.type, p.seq) /\ UNCHANGED rxAsked
          /\ rxNextPayload' = IF p.type = "PAYLOAD" THEN p.seq + 1 ELSE rxNextPayload
      BY <1>5, <2>4 DEF PacketArrives
    <3>2. p.seq \in R!Chunk
      BY <2>1, <2>2, AirTyped, SameReceiverParts DEF S!Packet, S!Chunk, Chunk
    <3>3. CASE p.type = "PAYLOAD"
      <4>1. p.seq >= rxNextPayload
        <5>1. rxNextPayload \in Int /\ txLast \in Int /\ Ascending(down, rxNextPayload, txLast)
          BY TransferAssumption DEF AirInv, PayloadsInv
        <5>2. rxNextPayload <= p.seq
          BY <2>1, <3>3, <5>1, AscendingTail
        <5> QED
          BY <3>2, <5>1, <5>2, SameReceiverParts DEF Chunk
      <4>2. R!PayloadArrives(p.seq)
        BY <3>1, <3>3, <4>1 DEF R!PayloadArrives
      <4> QED
        BY <3>2, <4>2 DEF R!Environment, R!Next
    <3>4. CASE p.type # "PAYLOAD"
      <4>1. p.type = "RESP" /\ rxAsked # {}
        BY <2>1, <2>2, <3>4 DEF AirPacket
      <4>2. R!RespArrives(p.seq)
        BY <3>1, <3>4, <4>1 DEF R!RespArrives, R!netVars
      <4> QED
        BY <3>2, <4>2 DEF R!Environment, R!Next
    <3> QED
      BY <3>3, <3>4
  <2> QED
    BY <2>3, <2>4
<1> QED
  BY <1>2, <1>3, <1>4, <1>5 DEF Next, KeptNext

-----------------------------------------------------------------------------
(* And one of the sender's, but for the bound on its inputs.                 *)

LEMMA SameInputs ==
  /\ S!Init <=> SP!Init
  /\ S!ShellStart <=> SP!ShellStart
  /\ \A list : S!Deliver(S!Msg("BULK_REQ", list)) <=> SP!Deliver(SP!Msg("BULK_REQ", list))
  /\ UNCHANGED txVars <=> UNCHANGED SP!vars
<1>1. S!Init <=> SP!Init
  BY DEF S!Init, SP!Init
<1>2. \A t, v : S!Msg(t, v) = SP!Msg(t, v)
  BY DEF S!Msg, SP!Msg
<1>3. /\ S!Alive <=> SP!Alive
      /\ S!Overflow <=> SP!Overflow
  BY DEF S!Alive, SP!Alive, S!Overflow, SP!Overflow
<1>4. S!ShellStart <=> SP!ShellStart
  <2>1. S!Pending("START") = SP!Pending("START")
    BY DEF S!Pending, SP!Pending
  <2> QED
    BY <1>2, <1>3, <2>1 DEF S!ShellStart, SP!ShellStart, S!Command, SP!Command
<1>5. \A m : S!Deliver(m) <=> SP!Deliver(m)
  <2>1. S!Packets = SP!Packets
    BY DEF S!Packets, SP!Packets
  <2> QED
    BY <1>3, <2>1, SameCardinality DEF S!Deliver, SP!Deliver
<1>6. UNCHANGED txVars <=> UNCHANGED SP!vars
  BY DEF txVars, SP!vars
<1> QED
  BY <1>1, <1>2, <1>4, <1>5, <1>6

LEMMA StepIsSenders == TypeOK /\ AirInv /\ [Next]_vars => [SP!FreeNext]_SP!vars
<1> SUFFICES ASSUME TypeOK, AirInv, [Next]_vars PROVE SP!FreeNext \/ UNCHANGED SP!vars
  OBVIOUS
<1>1. CASE SenderStep \/ IntervalTimerFires
  BY <1>1, SameSender DEF SenderStep, IntervalTimerFires, SP!FreeNext
<1>2. CASE Start
  BY <1>2, SameInputs DEF Start, SP!FreeNext, SP!Input
<1>3. CASE RequestArrives
  <2>1. CASE UNCHANGED txVars
    BY <2>1, SameInputs
  <2>2. CASE ~UNCHANGED txVars
    <3>1. PICK list \in Bulks : S!Deliver(S!Msg("BULK_REQ", list))
      BY <1>3, <2>2, RequestPasses
    <3>2. SP!Deliver(SP!Msg("BULK_REQ", list))
      BY <3>1, SameInputs
    <3> QED
      BY <3>2 DEF SP!FreeNext, SP!Input
  <2> QED
    BY <2>1, <2>2
<1>4. CASE ReceiverStep \/ InterestTimerFires \/ ExpectationTimerFires \/ PacketArrives
           \/ RelayAnswers \/ RelaySwaps \/ UNCHANGED vars
  <2>1. UNCHANGED txVars
    BY <1>4 DEF ReceiverStep, InterestTimerFires, ExpectationTimerFires, PacketArrives,
                RelayAnswers, RelaySwaps, RelaySends, vars
  <2> QED
    BY <2>1, SameInputs
<1> QED
  BY <1>1, <1>2, <1>3, <1>4 DEF Next, KeptNext

-----------------------------------------------------------------------------
(* Types.                                                                    *)

\* The sender's part, when a message for it is put in the mailbox.
LEMMA SenderGets ==
  ASSUME S!TypeOK, NEW m \in S!Message, ~S!Overflow, txMailbox' = Append(txMailbox, m),
         txSent' = None,
         UNCHANGED <<txMode, txRunning, txState, txLast, txNumSent, txQueue, txTimer, txIpcLost,
                     txInputs>>
  PROVE  (S!TypeOK)'
<1>1. txMailbox' \in Seq(S!Message) /\ Len(txMailbox') <= MailboxLen
  <2>1. /\ txMailbox \in Seq(S!Message) /\ Len(txMailbox) \in Nat
        /\ ~(Len(txMailbox) >= MailboxLen) /\ MailboxLen \in Nat
    BY TransferAssumption DEF S!TypeOK, S!Overflow
  <2>2. /\ Append(txMailbox, m) \in Seq(S!Message)
        /\ Len(Append(txMailbox, m)) = Len(txMailbox) + 1
    BY <2>1, AppendProperties
  <2>3. Len(Append(txMailbox, m)) <= MailboxLen
    BY <2>1, <2>2
  <2> QED
    BY <2>2, <2>3
<1> QED
  BY <1>1 DEF S!TypeOK

LEMMA SenderTyped ==
  ASSUME TypeOK, AirInv, [Next]_vars PROVE (S!TypeOK)'
<1>1. S!TypeOK /\ SP!TypeOK
  BY SameSender DEF TypeOK
<1>2. CASE SenderStep
  <2>1. SP!Thread
    BY <1>2, SameSender DEF SenderStep
  <2>2. (SP!TypeOK)'
    BY <1>1, <2>1, SP!ThreadTyped, SenderConstants, QueueLenAssumption
  <2> QED
    BY <2>2, SameSender
<1>3. CASE IntervalTimerFires
  <2>1. SP!IntervalTimerFires
    BY <1>3, SameSender DEF IntervalTimerFires
  <2>2. (SP!TypeOK)'
    BY <1>1, <2>1, SP!EnvironmentTyped, SenderConstants, QueueLenAssumption
  <2> QED
    BY <2>2, SameSender
<1>4. CASE Start
  <2>1. S!Msg("START", <<>>) \in S!Message
    BY DEF S!Msg, S!Message
  <2>2. /\ ~S!Overflow /\ txMailbox' = Append(txMailbox, S!Msg("START", <<>>)) /\ txSent' = None
        /\ UNCHANGED <<txMode, txRunning, txState, txLast, txNumSent, txQueue, txTimer, txIpcLost,
                       txInputs>>
    BY <1>4 DEF Start, S!ShellStart, S!Command, S!Alive
  <2> QED
    BY <1>1, <2>1, <2>2, SenderGets
<1>5. CASE UNCHANGED txVars
  BY <1>1, <1>5 DEF S!TypeOK, txVars
<1>6. CASE RequestArrives /\ ~UNCHANGED txVars
  <2>1. PICK list \in Bulks : S!Deliver(S!Msg("BULK_REQ", list))
    BY <1>6, RequestPasses
  <2>2. UNCHANGED txInputs
    BY <1>6, RequestPasses
  <2>3. S!Msg("BULK_REQ", list) \in S!Message
    BY DEF S!Msg, S!Message
  <2>4. /\ ~S!Overflow /\ txMailbox' = Append(txMailbox, S!Msg("BULK_REQ", list))
        /\ txSent' = None
        /\ UNCHANGED <<txMode, txRunning, txState, txLast, txNumSent, txQueue, txTimer, txIpcLost>>
    BY <2>1 DEF S!Deliver
  <2> QED
    BY <1>1, <2>2, <2>3, <2>4, SenderGets
<1>7. CASE ReceiverStep \/ InterestTimerFires \/ ExpectationTimerFires \/ PacketArrives
           \/ RelayAnswers \/ RelaySwaps \/ UNCHANGED vars
  BY <1>5, <1>7 DEF ReceiverStep, InterestTimerFires, ExpectationTimerFires, PacketArrives,
                    RelayAnswers, RelaySwaps, RelaySends, vars
<1> QED
  BY <1>2, <1>3, <1>4, <1>5, <1>6, <1>7 DEF Next, KeptNext

\* The receiver's part.
LEMMA ReceiverTyped ==
  ASSUME TypeOK, AirInv, [Next]_vars PROVE (R!TypeOK)'
<1>1. RP!TypeOK
  BY SameReceiver DEF TypeOK
<1>2. [RP!Next]_RP!vars
  BY StepIsReceivers, SameReceiver
<1>3. (RP!TypeOK)'
  BY <1>1, <1>2, RP!NextTypeOK, ReceiverConstants, QueueLenAssumption
<1> QED
  BY <1>3, SameReceiver

\* What goes back to chunks has a type.
LEMMA ChunksTyped ==
  ASSUME NEW A \in SUBSET Chunk
  PROVE  /\ Seq(AirPacket(A)) \subseteq Seq(S!Packet)
         /\ Seq(Lists(A)) \subseteq Seq(Seq(0..NumPkts))
         /\ Seq(A) \subseteq Seq(0..NumPkts)
<1>1. AirPacket(A) \subseteq S!Packet
  BY AirTyped
<1>2. Lists(A) \subseteq Seq(0..NumPkts)
  BY ListsAreSequences, SeqGrows DEF Chunk
<1> QED
  BY <1>1, <1>2, SeqGrows DEF Chunk

\* The counters and the relays' queue.
LEMMA CountersTyped ==
  ASSUME TypeOK, AirInv, [Next]_vars
  PROVE  /\ silence' \in 0..Steps /\ lost' \in 0..MaxLost /\ relayed' \in 0..MaxRelayed
         /\ Len(relayQueue') <= QueueLen
         /\ sole' \in 0..Len(relayQueue') /\ swapped' \in BOOLEAN
<1>1. /\ silence \in Nat /\ silence <= Steps /\ Steps \in Nat
      /\ lost \in Nat /\ lost <= MaxLost /\ MaxLost \in Nat
      /\ relayed \in 0..MaxRelayed
      /\ relayQueue \in Seq(0..NumPkts) /\ Len(relayQueue) <= QueueLen
      /\ sole \in 0..Len(relayQueue) /\ swapped \in BOOLEAN
  BY TransferAssumption DEF TypeOK
<1>2. silence' \in 0..Steps
  <2>1. silence' \in {0, silence, AtMostSteps(silence + 1)}
    BY DEF Next, KeptNext, SenderStep, ReceiverStep, IntervalTimerFires, InterestTimerFires,
           ExpectationTimerFires, Start, PacketArrives, RequestArrives, RelayAnswers, RelaySwaps,
           RelaySends, vars
  <2>2. AtMostSteps(silence + 1) \in 0..Steps
    BY <1>1 DEF AtMostSteps
  <2> QED
    BY <1>1, <2>1, <2>2
<1>3. lost' \in 0..MaxLost
  <2>1. lost' = lost \/ (lost' \in {0, lost + 1, lost} /\ lost' <= MaxLost)
    BY DEF Next, KeptNext, SenderStep, ReceiverStep, IntervalTimerFires, InterestTimerFires,
           ExpectationTimerFires, Start, PacketArrives, RequestArrives, RelayAnswers, RelaySwaps,
           RelaySends, vars, airVars, Lost
  <2> QED
    BY <1>1, <2>1
<1>4. /\ relayed' \in 0..MaxRelayed /\ Len(relayQueue') <= QueueLen
      /\ sole' \in 0..Len(relayQueue') /\ swapped' \in BOOLEAN
  <2>1. CASE RequestArrives
    <3>1. /\ relayQueue' \in Seq(rxAsked) /\ Len(relayQueue') <= QueueLen
          /\ relayed' \in 0..MaxRelayed /\ UNCHANGED swapped
      BY <2>1, RequestPasses
    <3>2. CASE sole < Len(relayQueue)
      <4>1. sole' = sole
        BY <2>1, <3>2 DEF RequestArrives
      <4>2. Len(relayQueue) <= Len(relayQueue')
        BY <2>1, RequestPasses
      <4> QED
        BY <1>1, <3>1, <4>1, <4>2
    <3>3. CASE ~(sole < Len(relayQueue))
      <4>1. sole' = Cardinality(Distinct(relayQueue'))
        BY <2>1, <3>3 DEF RequestArrives
      <4>2. Distinct(relayQueue') \in SUBSET (1..Len(relayQueue'))
        BY <3>1 DEF Distinct
      <4>3. IsFiniteSet(1..Len(relayQueue')) /\ Cardinality(1..Len(relayQueue')) = Len(relayQueue')
        <5>1. Len(relayQueue') \in Nat
          BY <3>1
        <5>2. /\ IsFiniteSet(1..Len(relayQueue'))
              /\ Cardinality(1..Len(relayQueue')) =
                   IF 1 > Len(relayQueue') THEN 0 ELSE Len(relayQueue') - 1 + 1
          BY <5>1, FS_Interval
        <5> QED
          BY <5>1, <5>2
      <4>4. /\ Cardinality(Distinct(relayQueue')) \in Nat
            /\ Cardinality(Distinct(relayQueue')) <= Len(relayQueue')
        BY <4>2, <4>3, FS_Subset, FS_CardinalityType
      <4> QED
        BY <1>1, <3>1, <4>1, <4>4
    <3> QED
      BY <3>2, <3>3
  <2>2. CASE RelayAnswers \/ RelaySwaps
    <3>1. /\ relayQueue # <<>> /\ relayQueue' = Tail(relayQueue) /\ UNCHANGED relayed
          /\ sole' = IF sole = 0 THEN 0 ELSE sole - 1
          /\ swapped' \in {swapped, TRUE}
      BY <2>2 DEF RelayAnswers, RelaySwaps, RelaySends
    <3>2. Len(Tail(relayQueue)) = Len(relayQueue) - 1 /\ Len(relayQueue) \in Nat
      BY <1>1, <3>1, HeadTailProperties
    <3>3. Len(Tail(relayQueue)) \in Nat
      BY <1>1, <3>1
    <3>4. Len(Tail(relayQueue)) <= QueueLen /\ sole' \in 0..Len(Tail(relayQueue))
      BY <1>1, <3>1, <3>2, <3>3, QueueLenAssumption
    <3> QED
      BY <1>1, <3>1, <3>4
  <2>3. CASE SenderStep \/ ReceiverStep \/ IntervalTimerFires \/ InterestTimerFires
             \/ ExpectationTimerFires \/ Start \/ PacketArrives \/ UNCHANGED vars
    <3>1. UNCHANGED <<relayed, relayQueue, sole, swapped>>
      BY <2>3 DEF SenderStep, ReceiverStep, IntervalTimerFires, InterestTimerFires,
                  ExpectationTimerFires, Start, PacketArrives, vars, airVars, relayVars
    <3> QED
      BY <1>1, <3>1
  <2> QED
    BY <2>1, <2>2, <2>3 DEF Next, KeptNext
<1> QED
  BY <1>2, <1>3, <1>4

LEMMA NextTyped == TypeOK /\ AirInv /\ [Next]_vars => TypeOK' /\ AirInv'
<1> SUFFICES ASSUME TypeOK, AirInv, [Next]_vars PROVE TypeOK' /\ AirInv'
  OBVIOUS
<1>1. (S!TypeOK)' /\ (R!TypeOK)'
  BY SenderTyped, ReceiverTyped
<1>2. AirInv'
  BY NextAir
<1>3. down' \in Seq(S!Packet) /\ up' \in Seq(Seq(0..NumPkts)) /\ relayQueue' \in Seq(0..NumPkts)
  <2>1. /\ rxAsked' \in SUBSET Chunk /\ Answerable' \in SUBSET Chunk
        /\ down' \in Seq(AirPacket(Answerable'))
        /\ up' \in Seq(Lists(rxAsked')) /\ relayQueue' \in Seq(rxAsked')
    BY <1>2 DEF AirInv, RequestsInv, Answerable
  <2> QED
    BY <2>1, ChunksTyped
<1>4. /\ silence' \in 0..Steps /\ lost' \in 0..MaxLost /\ relayed' \in 0..MaxRelayed
      /\ Len(relayQueue') <= QueueLen
      /\ sole' \in 0..Len(relayQueue') /\ swapped' \in BOOLEAN
  BY CountersTyped
<1>5. S!Packet' = S!Packet
  BY DEF S!Packet, S!Chunk
<1> QED
  BY <1>1, <1>2, <1>3, <1>4, <1>5 DEF TypeOK

LEMMA InitTyped == Init => TypeOK
<1> SUFFICES ASSUME Init PROVE TypeOK
  OBVIOUS
<1>1. R!TypeOK
  <2>1. RP!Init
    BY SameReceiver DEF Init
  <2>2. RP!TypeOK
    BY <2>1, RP!InitTypeOK, ReceiverConstants, QueueLenAssumption
  <2> QED
    BY <2>2, SameReceiver
<1>2. \A A : <<>> \in Seq(A) /\ Len(<<>>) = 0
  BY EmptySeq
<1>3. S!TypeOK
  <2>1. /\ -1 \in -1..NumPkts /\ 0 \in 0..0 /\ 0 \in Nat /\ 0 <= MailboxLen /\ 0 <= QueueLen
    BY TransferAssumption, QueueLenAssumption
  <2> QED
    BY <1>2, <2>1 DEF Init, S!Init, S!TypeOK
<1>4. 0 \in 0..Steps /\ 0 \in 0..MaxLost /\ 0 \in 0..MaxRelayed /\ 0 <= QueueLen
      /\ 0 \in 0..0 /\ FALSE \in BOOLEAN
  BY TransferAssumption, QueueLenAssumption
<1> QED
  BY <1>1, <1>2, <1>3, <1>4 DEF Init, TypeOK

-----------------------------------------------------------------------------
(* The theorems.                                                             *)

\* Every variable of the transfer keeps to its set: the packets in the air, the
\* requests and the promises of the relays carry chunk numbers of the file, and
\* each queue keeps to its length (Transfer.tla, sender.c, receiver.c).
THEOREM TypeCorrect == Spec => []TypeOK
BY InitTyped, InitAir, NextTyped, PTL DEF Spec

\* Payloads are in the air in the order in which the sender sent them; what is
\* asked for, or queued to be answered, was asked for by the receiver; and an
\* answer is in the air only when the receiver has asked for something, and for
\* that chunk unless a relay has sent one chunk for another (sender.c:170-209,
\* receiver.c:363-395, relayer.c:96-103, 301-309, iperf.c:356-404).
THEOREM AirIsOrdered == Spec => []AirInv
BY InitTyped, InitAir, NextTyped, PTL DEF Spec

\* The network that Receiver.tla assumes (payloads in order, no answer before
\* anything was asked for) is the one that the sender and the relays make,
\* relays that send one chunk for another included: every step of the transfer
\* is a step of the receiver's own specification, or leaves it alone
\* (sender.c:170-209, relayer.c:96-103, iperf.c:356-404).
THEOREM NetworkIsAsAssumed == Spec => EnvironmentCovered
<1>1. Init => R!Init
  BY DEF Init
<1>2. AirInv /\ [Next]_vars => [R!Next]_R!vars
  BY StepIsReceivers
<1> QED
  BY <1>1, <1>2, AirIsOrdered, PTL DEF Spec, EnvironmentCovered, R!Spec

LEMMA ReceiversSpec == Spec => RP!Spec
<1>1. R!Init => RP!Init
  BY SameReceiver
<1>2. [R!Next]_R!vars => [RP!Next]_RP!vars
  BY SameReceiver
<1> QED
  BY <1>1, <1>2, NetworkIsAsAssumed, PTL DEF EnvironmentCovered, R!Spec, RP!Spec

\* What is proved about the receiver in the network it assumes holds in the
\* transfer: its retry never dies, requests in its queue are on their way, all
\* chunks received make it stop, what is marked is in the file, and nothing is
\* left of it once it has stopped (receiver.c:64-149, 192-240, 363-456).
THEOREM ReceiverHolds ==
  Spec => [](/\ R!RetryAhead /\ R!RequestsScheduled /\ R!StoppedIsQuiet
             /\ R!AllReceivedStops /\ R!ReceivedIsCopied)
<1>1. RP!Spec => []RP!RetryAhead /\ []RP!AllReceivedStops /\ []RP!ReceivedIsCopied
  BY RP!RetryStaysAhead, RP!CompleteStops, RP!MarkedIsCopied, ReceiverConstants,
     QueueLenAssumption
<1>2. RP!Spec => []RP!RequestsScheduled /\ []RP!StoppedIsQuiet
  BY RP!QueuedIsScheduled, RP!StoppedStaysQuiet, ReceiverConstants, QueueLenAssumption
<1>3. RP!RetryAhead /\ RP!RequestsScheduled => R!RetryAhead /\ R!RequestsScheduled
  BY SameReceiverParts DEF R!RetryAhead, RP!RetryAhead, R!RequestsScheduled, RP!RequestsScheduled,
                           R!Alive, RP!Alive
<1>4. RP!AllReceivedStops => R!AllReceivedStops
  BY SameReceiverParts DEF R!AllReceivedStops, RP!AllReceivedStops, R!Received, RP!Received,
                           R!File, RP!File
<1>5. RP!ReceivedIsCopied /\ RP!StoppedIsQuiet => R!ReceivedIsCopied /\ R!StoppedIsQuiet
  BY SameReceiverParts DEF R!ReceivedIsCopied, RP!ReceivedIsCopied, R!Received, RP!Received,
                           R!StoppedIsQuiet, RP!StoppedIsQuiet, R!Alive, RP!Alive
<1> QED
  BY ReceiversSpec, <1>1, <1>2, <1>3, <1>4, <1>5, PTL

\* The receiver's timers find room in its mailbox for what they post: 6 places
\* are enough for one packet and one message of each timer (iperf.h:9).
THEOREM ReceiverHasRoom ==
  ASSUME MailboxLen >= 6 PROVE Spec => []R!MailboxSuffices
<1>1. RP!Spec => []RP!MailboxSuffices
  <2>1. MailboxLen >= 2 * 1 + 3 * 1 + 1
    BY TransferAssumption
  <2> QED
    BY <2>1, RP!MailboxIsEnough, ReceiverConstants, QueueLenAssumption
<1>2. RP!MailboxSuffices => R!MailboxSuffices
  BY DEF R!MailboxSuffices, RP!MailboxSuffices
<1> QED
  BY ReceiversSpec, <1>1, <1>2, PTL

\* What is proved about the sender holds in the transfer: an unfinished
\* transfer, and a request that waits, always have the next step coming
\* (sender.c:87-119, 212-241, 282-290).
THEOREM SenderHolds == Spec => [](S!SendingTicks /\ S!RequestsTick)
<1>1. Init => SP!MailboxType /\ SP!WorkInv
  BY EmptySeq DEF Init, S!Init, SP!MailboxType, SP!WorkInv, SP!WorkLeft
<1>2. TypeOK /\ AirInv /\ SP!MailboxType /\ SP!WorkInv /\ [Next]_vars
        => (SP!MailboxType)' /\ (SP!WorkInv)'
  BY StepIsSenders, SP!NextMailbox, SP!NextWork, SenderConstants, QueueLenAssumption
<1>3. SP!WorkInv => S!SendingTicks /\ S!RequestsTick
  BY DEF SP!WorkInv, SP!WorkLeft, SP!TickingInv, SP!Holds, SP!Alive, S!SendingTicks,
         S!RequestsTick, S!Ticking, S!Pending, S!Alive
<1> QED
  BY <1>1, <1>2, <1>3, TypeCorrect, AirIsOrdered, PTL DEF Spec

\* No payload goes out past the end of the file: a file and a queue of three or
\* more (sender.c:51-67, 221-241).
THEOREM FileIsTheEnd ==
  ASSUME NumPkts >= 3, QueueLen >= 3 PROVE Spec => []S!NeverPastEnd
<1>1. SP!Paced
  <2>1. \A list \in Bulks : SP!Requests(list) # {}
    BY DEF Bulks, SP!Requests
  <2> QED
    BY <2>1 DEF SP!Paced
<1>2. Init => SP!MailboxType /\ SP!RoomInv /\ SP!PaceInv
  <2>1. Init => SP!Init
    BY SameInputs DEF Init
  <2>2. SP!Init => SP!RoomInv /\ SP!PaceInv
    BY SP!InitRoom, SP!InitPace, SenderConstants, QueueLenAssumption
  <2>3. SP!Init => SP!MailboxType
    BY EmptySeq DEF SP!Init, SP!MailboxType
  <2> QED
    BY <2>1, <2>2, <2>3
<1>3. TypeOK /\ AirInv /\ SP!MailboxType /\ SP!RoomInv /\ SP!PaceInv /\ [Next]_vars
        => (SP!MailboxType)' /\ (SP!RoomInv)' /\ (SP!PaceInv)'
  <2> SUFFICES ASSUME TypeOK, AirInv, SP!MailboxType, SP!RoomInv, SP!PaceInv, [Next]_vars
               PROVE  (SP!MailboxType)' /\ (SP!RoomInv)' /\ (SP!PaceInv)'
    OBVIOUS
  <2>1. SP!TypeOK /\ [SP!FreeNext]_SP!vars
    BY StepIsSenders, SameSender DEF TypeOK
  <2>2. (SP!MailboxType)' /\ (SP!RoomInv)'
    BY <2>1, SP!NextMailbox, SP!NextRoom, SenderConstants, QueueLenAssumption
  <2>3. (SP!PaceInv)'
    BY <1>1, <2>1, <2>2, SP!NextPace, SenderConstants, QueueLenAssumption
  <2> QED
    BY <2>2, <2>3
<1>4. SP!PaceInv => S!NeverPastEnd
  BY DEF SP!PaceInv, S!NeverPastEnd
<1> QED
  BY <1>2, <1>3, <1>4, TypeCorrect, AirIsOrdered, PTL DEF Spec

\* The sender's timer finds room in its mailbox (iperf.h:9, sender.c:282-290).
THEOREM SenderHasRoom ==
  ASSUME MailboxLen >= 5 PROVE Spec => []S!MailboxSuffices
<1>1. Init => SP!MailboxType /\ SP!RoomInv /\ SP!MailboxSuffices
  <2>1. Init => SP!Init
    BY SameInputs DEF Init
  <2>2. SP!Init => SP!RoomInv
    BY SP!InitRoom, SenderConstants, QueueLenAssumption
  <2>3. SP!Init => SP!MailboxType /\ SP!MailboxSuffices
    BY EmptySeq DEF SP!Init, SP!MailboxType, SP!MailboxSuffices
  <2> QED
    BY <2>1, <2>2, <2>3
<1>2. TypeOK /\ AirInv /\ SP!MailboxType /\ SP!RoomInv /\ SP!MailboxSuffices /\ [Next]_vars
        => (SP!MailboxType)' /\ (SP!RoomInv)' /\ (SP!MailboxSuffices)'
  <2>1. MailboxLen >= 1 + 1 + 3
    BY TransferAssumption
  <2> QED
    BY <2>1, StepIsSenders, SP!NextMailbox, SP!NextRoom, SP!NextSuffices, SenderConstants,
       QueueLenAssumption
<1>3. SP!MailboxSuffices => S!MailboxSuffices
  BY DEF S!MailboxSuffices, SP!MailboxSuffices
<1> QED
  BY <1>1, <1>2, <1>3, TypeCorrect, AirIsOrdered, PTL DEF Spec

-----------------------------------------------------------------------------
(* What waits in a mailbox, and what is in the air.                          *)

Mail(mb, type, k) == \E i \in DOMAIN mb : mb[i].type = type /\ mb[i].val = k
Air(air, type, k) == \E i \in DOMAIN air : air[i].type = type /\ air[i].seq = k

\* The payload k waits, and the expectation timer's message behind it.
Before(mb, k) ==
  \E i, j \in DOMAIN mb : /\ i < j
                          /\ mb[i].type = "PAYLOAD" /\ mb[i].val = k
                          /\ mb[j].type = "EXPECTATION"

\* The payload k is on its way to the receiver's thread.
Coming(mb, air, k) == Mail(mb, "PAYLOAD", k) \/ Air(air, "PAYLOAD", k)

\* The packets that wait.
PacketsIn(mb) == RP!NumIn(mb, {"PAYLOAD", "RESP"})

\* The places of a sequence whose head is taken.
LEMMA TailPlaces ==
  ASSUME NEW A, NEW s \in Seq(A), s # <<>>
  PROVE  /\ 1 \in DOMAIN s /\ Head(s) = s[1]
         /\ \A i \in DOMAIN Tail(s) : i \in Nat /\ i + 1 \in DOMAIN s /\ Tail(s)[i] = s[i + 1]
         /\ \A i \in DOMAIN s : i = 1 \/ (i - 1 \in DOMAIN Tail(s) /\ Tail(s)[i - 1] = s[i])
         /\ \A i \in DOMAIN s : i \in Nat /\ 1 <= i
<1>1. Len(s) \in Nat /\ Len(s) # 0 /\ DOMAIN s = 1..Len(s)
  BY EmptySeq
<1>2. /\ Tail(s) \in Seq(A) /\ Len(Tail(s)) = Len(s) - 1 /\ Head(s) = s[1]
      /\ \A i \in 1..Len(s) - 1 : Tail(s)[i] = s[i + 1]
  BY <1>1, HeadTailProperties
<1>3. DOMAIN Tail(s) = 1..Len(s) - 1
  BY <1>2
<1>4. ASSUME NEW i \in DOMAIN s, i # 1
      PROVE  i - 1 \in DOMAIN Tail(s) /\ Tail(s)[i - 1] = s[i]
  <2>1. i - 1 \in 1..Len(s) - 1 /\ i - 1 + 1 = i
    BY <1>1, <1>4
  <2> QED
    BY <1>2, <1>3, <2>1
<1> QED
  BY <1>1, <1>2, <1>3, <1>4

\* The places of a sequence with an element appended.
LEMMA AppendPlaces ==
  ASSUME NEW A, NEW s \in Seq(A), NEW e \in A
  PROVE  /\ \A i \in DOMAIN s : /\ i \in DOMAIN Append(s, e) /\ Append(s, e)[i] = s[i]
                                /\ i \in Nat /\ i < Len(s) + 1
         /\ Len(s) + 1 \in DOMAIN Append(s, e) /\ Append(s, e)[Len(s) + 1] = e
         /\ \A i \in DOMAIN Append(s, e) : i \in DOMAIN s \/ i = Len(s) + 1
         /\ Len(s) \in Nat /\ Append(s, e) \in Seq(A)
<1>1. /\ Append(s, e) \in Seq(A) /\ Len(Append(s, e)) = Len(s) + 1 /\ Len(s) \in Nat
      /\ \A i \in 1..Len(s) : Append(s, e)[i] = s[i]
      /\ Append(s, e)[Len(s) + 1] = e
  BY AppendProperties
<1>2. DOMAIN s = 1..Len(s) /\ DOMAIN Append(s, e) = 1..Len(s) + 1
  BY <1>1
<1> QED
  BY <1>1, <1>2

\* The messages of a mailbox are its head and those behind it.
LEMMA MailTail ==
  ASSUME NEW A, NEW mb \in Seq(A), mb # <<>>
  PROVE  /\ \A t, k : Mail(mb, t, k) <=> \/ Mail(Tail(mb), t, k)
                                         \/ Head(mb).type = t /\ Head(mb).val = k
         /\ \A k : Before(mb, k) <=>
                     \/ Before(Tail(mb), k)
                     \/ /\ Head(mb).type = "PAYLOAD" /\ Head(mb).val = k
                        /\ RP!Holds(Tail(mb), "EXPECTATION")
<1>1. /\ 1 \in DOMAIN mb /\ Head(mb) = mb[1]
      /\ \A i \in DOMAIN Tail(mb) : i \in Nat /\ i + 1 \in DOMAIN mb /\ Tail(mb)[i] = mb[i + 1]
      /\ \A i \in DOMAIN mb : i = 1 \/ (i - 1 \in DOMAIN Tail(mb) /\ Tail(mb)[i - 1] = mb[i])
      /\ \A i \in DOMAIN mb : i \in Nat /\ 1 <= i
  BY TailPlaces
<1>2. ASSUME NEW t, NEW k
      PROVE  Mail(mb, t, k) <=> Mail(Tail(mb), t, k) \/ (Head(mb).type = t /\ Head(mb).val = k)
  BY <1>1 DEF Mail
<1>3. ASSUME NEW k, Before(mb, k)
      PROVE  \/ Before(Tail(mb), k)
             \/ /\ Head(mb).type = "PAYLOAD" /\ Head(mb).val = k
                /\ RP!Holds(Tail(mb), "EXPECTATION")
  <2>1. PICK i \in DOMAIN mb, j \in DOMAIN mb :
           /\ i < j /\ mb[i].type = "PAYLOAD" /\ mb[i].val = k /\ mb[j].type = "EXPECTATION"
    BY <1>3 DEF Before
  <2>2. j - 1 \in DOMAIN Tail(mb) /\ Tail(mb)[j - 1] = mb[j]
    BY <1>1, <2>1
  <2>3. CASE i = 1
    BY <1>1, <2>1, <2>2, <2>3 DEF RP!Holds
  <2>4. CASE i # 1
    <3>1. i - 1 \in DOMAIN Tail(mb) /\ Tail(mb)[i - 1] = mb[i] /\ i - 1 < j - 1
      BY <1>1, <2>1, <2>4
    <3> QED
      BY <2>1, <2>2, <3>1 DEF Before
  <2> QED
    BY <2>3, <2>4
<1>4. ASSUME NEW k, Before(Tail(mb), k) PROVE Before(mb, k)
  <2>1. PICK i \in DOMAIN Tail(mb), j \in DOMAIN Tail(mb) :
           /\ i < j /\ Tail(mb)[i].type = "PAYLOAD" /\ Tail(mb)[i].val = k
           /\ Tail(mb)[j].type = "EXPECTATION"
    BY <1>4 DEF Before
  <2>2. /\ i + 1 \in DOMAIN mb /\ j + 1 \in DOMAIN mb /\ i + 1 < j + 1
        /\ Tail(mb)[i] = mb[i + 1] /\ Tail(mb)[j] = mb[j + 1]
    BY <1>1, <2>1
  <2> QED
    BY <2>1, <2>2 DEF Before
<1>5. ASSUME Head(mb).type = "PAYLOAD", RP!Holds(Tail(mb), "EXPECTATION")
      PROVE  Before(mb, Head(mb).val)
  <2>1. PICK j \in DOMAIN Tail(mb) : Tail(mb)[j].type = "EXPECTATION"
    BY <1>5 DEF RP!Holds
  <2>2. j + 1 \in DOMAIN mb /\ mb[j + 1].type = "EXPECTATION" /\ 1 < j + 1
    <3>1. j \in Nat /\ 1 <= j + 1 - 1 /\ j + 1 \in DOMAIN mb /\ Tail(mb)[j] = mb[j + 1]
      <4>1. Tail(mb) \in Seq(A)
        BY HeadTailProperties, EmptySeq
      <4>2. j \in Nat /\ 1 <= j
        BY <2>1, <4>1
      <4> QED
        BY <1>1, <2>1, <4>2
    <3> QED
      BY <2>1, <3>1
  <2> QED
    BY <1>1, <1>5, <2>2 DEF Before
<1> QED
  BY <1>2, <1>3, <1>4, <1>5

\* And those of a longer one are the old ones and the one put at its end.
LEMMA MailAppend ==
  ASSUME NEW A, NEW mb \in Seq(A), NEW m \in A
  PROVE  /\ \A t, k : Mail(Append(mb, m), t, k) <=> Mail(mb, t, k) \/ (m.type = t /\ m.val = k)
         /\ \A k : Before(Append(mb, m), k) <=>
                     \/ Before(mb, k)
                     \/ m.type = "EXPECTATION" /\ Mail(mb, "PAYLOAD", k)
<1>1. /\ \A i \in DOMAIN mb : /\ i \in DOMAIN Append(mb, m) /\ Append(mb, m)[i] = mb[i]
                              /\ i \in Nat /\ i < Len(mb) + 1
      /\ Len(mb) + 1 \in DOMAIN Append(mb, m) /\ Append(mb, m)[Len(mb) + 1] = m
      /\ \A i \in DOMAIN Append(mb, m) : i \in DOMAIN mb \/ i = Len(mb) + 1
      /\ Len(mb) \in Nat
  BY AppendPlaces
<1> DEFINE longer == Append(mb, m)
<1> HIDE DEF longer
<1>2. ASSUME NEW t, NEW k
      PROVE  Mail(longer, t, k) <=> Mail(mb, t, k) \/ (m.type = t /\ m.val = k)
  BY <1>1 DEF Mail, longer
<1>3. ASSUME NEW k, Before(longer, k)
      PROVE  Before(mb, k) \/ (m.type = "EXPECTATION" /\ Mail(mb, "PAYLOAD", k))
  <2>1. PICK i \in DOMAIN longer, j \in DOMAIN longer :
           /\ i < j /\ longer[i].type = "PAYLOAD" /\ longer[i].val = k
           /\ longer[j].type = "EXPECTATION"
    BY <1>3 DEF Before
  <2>2. i \in DOMAIN mb /\ longer[i] = mb[i]
    BY <1>1, <2>1 DEF longer
  <2>3. CASE j \in DOMAIN mb
    BY <1>1, <2>1, <2>2, <2>3 DEF Before, longer
  <2>4. CASE j = Len(mb) + 1
    BY <1>1, <2>1, <2>2, <2>4 DEF Mail, longer
  <2> QED
    BY <1>1, <2>3, <2>4 DEF longer
<1>4. ASSUME NEW k, Before(mb, k) PROVE Before(longer, k)
  BY <1>1, <1>4 DEF Before, longer
<1>5. ASSUME NEW k, m.type = "EXPECTATION", Mail(mb, "PAYLOAD", k) PROVE Before(longer, k)
  BY <1>1, <1>5 DEF Before, Mail, longer
<1> QED
  BY <1>2, <1>3, <1>4, <1>5 DEF longer

\* The same of packets in the air.
LEMMA AirTail ==
  ASSUME NEW A, NEW air \in Seq(A), air # <<>>
  PROVE  \A t, k : Air(air, t, k) <=> \/ Air(Tail(air), t, k)
                                      \/ Head(air).type = t /\ Head(air).seq = k
<1>1. /\ 1 \in DOMAIN air /\ Head(air) = air[1]
      /\ \A i \in DOMAIN Tail(air) : i + 1 \in DOMAIN air /\ Tail(air)[i] = air[i + 1]
      /\ \A i \in DOMAIN air : i = 1 \/ (i - 1 \in DOMAIN Tail(air) /\ Tail(air)[i - 1] = air[i])
  BY TailPlaces
<1> DEFINE rest == Tail(air)
           head == Head(air)
<1> HIDE DEF rest, head
<1> QED
  BY <1>1 DEF Air, rest, head

\* The same for packets in the air.
LEMMA AirAppend ==
  ASSUME NEW A, NEW air \in Seq(A), NEW p \in A
  PROVE  \A t, k : Air(Append(air, p), t, k) <=> Air(air, t, k) \/ (p.type = t /\ p.seq = k)
<1>1. /\ \A i \in DOMAIN air : i \in DOMAIN Append(air, p) /\ Append(air, p)[i] = air[i]
      /\ Len(air) + 1 \in DOMAIN Append(air, p) /\ Append(air, p)[Len(air) + 1] = p
      /\ \A i \in DOMAIN Append(air, p) : i \in DOMAIN air \/ i = Len(air) + 1
  BY AppendPlaces
<1> DEFINE longer == Append(air, p)
<1> HIDE DEF longer
<1> QED
  BY <1>1 DEF Air, longer

-----------------------------------------------------------------------------
(* What is known of the two ends and of the air.                             *)

Known ==
  /\ TypeOK /\ AirInv
  /\ RP!NetInv /\ RP!RoomInv /\ RP!CountInv /\ rxConfig = TheConfig
  /\ SP!MailboxType /\ SP!RoomInv /\ SP!WorkInv /\ SP!PaceInv /\ SP!MailboxSuffices

\* The sizes for which the end of the file is the end.
Sizes == NumPkts >= 3 /\ QueueLen >= 3 /\ MailboxLen >= 5

\* No other configuration reaches the receiver.
LEMMA ConfigKept ==
  ASSUME TypeOK, rxConfig = TheConfig, [R!Next]_R!vars PROVE rxConfig' = TheConfig
<1>1. CASE R!HandleConfigSync
  <2>1. rxMailbox # <<>> /\ Head(rxMailbox).type = "CONFIG_SYNC" /\ rxMailbox \in Seq(R!Message)
    BY <1>1 DEF R!HandleConfigSync, R!Took, TypeOK, R!TypeOK
  <2>2. Head(rxMailbox) \in R!Message
    BY <2>1, Taken
  <2> QED
    BY <2>1, <2>2 DEF R!Message
<1>2. CASE R!Thread /\ ~R!HandleConfigSync
  BY <1>2 DEF R!Thread, R!HandlePayload, R!HandleResp, R!HandleOther, R!HandleInterestTimeout,
              R!HandleExpectationTimeout, R!HandleStop
<1>3. CASE R!ExpectationTimerFires \/ R!InterestTimerFires
  BY <1>3 DEF R!ExpectationTimerFires, R!InterestTimerFires, R!Fired
<1>4. CASE R!Environment
  BY <1>4 DEF R!Environment, R!PayloadArrives, R!RespArrives, R!ConfigSyncArrives, R!OtherArrives,
              R!Deliver, R!ShellStop, R!ShellReceiver
<1>5. CASE UNCHANGED R!vars
  BY <1>5 DEF R!vars, R!threadVars
<1> QED
  BY <1>1, <1>2, <1>3, <1>4, <1>5 DEF R!Next

LEMMA InitKnown == Init => Known
<1> SUFFICES ASSUME Init PROVE Known
  OBVIOUS
<1>1. TypeOK /\ AirInv
  BY InitTyped, InitAir
<1>2. RP!Init /\ SP!Init
  BY SameReceiver, SameInputs DEF Init
<1>3. RP!NetInv /\ RP!CountInv
  BY <1>2 DEF RP!Init, RP!NetInv, RP!CountInv, RP!Reached, RP!Ordered, RP!Synced
<1>4. RP!RoomInv
  BY <1>2, RP!InitRoom, ReceiverConstants, QueueLenAssumption
<1>5. rxConfig = TheConfig
  BY <1>2 DEF RP!Init
<1>6. SP!RoomInv /\ SP!PaceInv
  BY <1>2, SP!InitRoom, SP!InitPace, SenderConstants, QueueLenAssumption
<1>7. SP!MailboxType /\ SP!MailboxSuffices /\ SP!WorkInv
  BY <1>2, EmptySeq DEF SP!Init, SP!MailboxType, SP!MailboxSuffices, SP!WorkInv, SP!WorkLeft
<1> QED
  BY <1>1, <1>3, <1>4, <1>5, <1>6, <1>7 DEF Known

LEMMA NextKnown == ASSUME Sizes, Known, [Next]_vars PROVE Known'
<1>1. TypeOK' /\ AirInv'
  BY NextTyped DEF Known
<1>2. [R!Next]_R!vars /\ [RP!Next]_RP!vars /\ RP!TypeOK
  BY StepIsReceivers, SameReceiver DEF Known, TypeOK
<1>3. (RP!NetInv)' /\ (RP!CountInv)'
  BY <1>2, RP!NextNet, RP!NextCount, ReceiverConstants, QueueLenAssumption DEF Known
<1>4. (RP!RoomInv)'
  BY <1>2, RP!NextRoom, ReceiverConstants, QueueLenAssumption DEF Known
<1>5. rxConfig' = TheConfig' 
  BY <1>2, ConfigKept DEF Known, TheConfig
<1>6. SP!TypeOK /\ [SP!FreeNext]_SP!vars
  BY StepIsSenders, SameSender DEF TypeOK, Known
<1>7. (SP!MailboxType)' /\ (SP!RoomInv)' /\ (SP!WorkInv)'
  BY <1>6, SP!NextMailbox, SP!NextRoom, SP!NextWork, SenderConstants, QueueLenAssumption DEF Known
<1>8. (SP!PaceInv)'
  <2>1. \A list \in Bulks : SP!Requests(list) # {}
    BY DEF Bulks, SP!Requests
  <2>2. SP!Paced
    BY <2>1 DEF SP!Paced, Sizes
  <2> QED
    BY <1>6, <1>7, <2>2, SP!NextPace, SenderConstants, QueueLenAssumption DEF Known
<1>9. (SP!MailboxSuffices)'
  <2>1. MailboxLen >= 1 + 1 + 3
    BY TransferAssumption DEF Sizes
  <2> QED
    BY <1>6, <2>1, SP!NextSuffices, SenderConstants, QueueLenAssumption DEF Known
<1> QED
  BY <1>1, <1>3, <1>4, <1>5, <1>7, <1>8, <1>9 DEF Known

\* What the earlier theorems say of every reachable state.
LEMMA KnownHolds == ASSUME Sizes PROVE Spec => []Known
<1>1. Known /\ [Next]_vars => Known'
  BY NextKnown
<1> QED
  BY <1>1, InitKnown, PTL DEF Spec

-----------------------------------------------------------------------------
(* The same in plain terms.                                                  *)

\* The last chunk that came in order or after a gap.
Last == IF rxState = "RECEIVING" THEN rxResults.last ELSE -1

\* The numbers of the two ends.
LEMMA KnownNumbers ==
  ASSUME Known
  PROVE  /\ NumPkts \in Nat /\ NumPkts > 0
         /\ txLast \in Int /\ -1 <= txLast /\ txLast < NumPkts
         /\ Last \in Int /\ -1 <= Last /\ Last < rxNextPayload
         /\ rxNextPayload \in Int /\ rxNextPayload <= txLast + 1
         /\ rxExpectationSeqNo \in Nat
         /\ silence \in Nat /\ silence <= Steps /\ lost \in Nat /\ lost <= MaxLost
         /\ rxResults \in RP!Results /\ rxResults.last \in Int
<1>1. NumPkts \in Nat /\ NumPkts > 0 /\ Steps \in Nat /\ MaxLost \in Nat
  BY TransferAssumption
<1>2. txLast \in Int /\ -1 <= txLast /\ txLast < NumPkts
  <2>1. txLast \in -1..NumPkts /\ txMode = "BIDIR"
    BY DEF Known, TypeOK, S!TypeOK, AirInv, PayloadsInv
  <2> QED
    BY <1>1, <2>1 DEF Known, SP!PaceInv
<1>3. rxResults \in RP!Results /\ rxExpectationSeqNo \in 0..NumPkts + 1 /\ rxNextPayload \in 0..NumPkts + 1
  BY SameReceiver DEF Known, TypeOK, RP!TypeOK
<1>4. rxResults.last \in -1..NumPkts
  BY <1>3 DEF RP!Results
<1>5. rxNextPayload \in 0..txLast + 1
  BY DEF Known, AirInv, PayloadsInv
<1>6. Last = RP!Reached
  BY DEF Last, RP!Reached
<1>7. Last < rxNextPayload
  BY <1>6 DEF Known, RP!NetInv
<1>8. Last \in Int /\ -1 <= Last
  BY <1>1, <1>4 DEF Last
<1>9. silence \in 0..Steps /\ lost \in 0..MaxLost
  BY DEF Known, TypeOK
<1> QED
  BY <1>1, <1>2, <1>3, <1>4, <1>5, <1>7, <1>8, <1>9

\* Their queues, and what is in the air.
LEMMA KnownSequences ==
  ASSUME Known
  PROVE  /\ rxMailbox \in Seq(R!Message) /\ rxMailbox \in Seq(RP!Message)
         /\ rxAsked \in SUBSET Chunk
         /\ Answerable \in SUBSET Chunk /\ (Answerable # {} => rxAsked # {})
         /\ down \in Seq(AirPacket(Answerable)) /\ Len(down) \in Nat
         /\ AirPacket(rxAsked) \subseteq AirPacket(Answerable)
         /\ ~swapped => Answerable = rxAsked
         /\ txMailbox \in Seq(TxMessage(rxAsked)) /\ txQueue \in Seq(rxAsked)
         /\ rxQueue \in Seq(Chunk) /\ Len(rxQueue) <= QueueLen
<1>1. rxMailbox \in Seq(R!Message) /\ rxMailbox \in Seq(RP!Message)
  BY SameReceiver DEF Known, TypeOK, R!TypeOK, RP!TypeOK
<1>2. rxQueue \in Seq(Chunk) /\ Len(rxQueue) <= QueueLen
  BY DEF Known, TypeOK, R!TypeOK, R!Chunk, Chunk
<1> QED
  BY <1>1, <1>2, AskedIsAnswerable DEF Known, AirInv, RequestsInv

\* Payloads come in ascending order, answers to what was asked until a relay
\* swaps one.
LEMMA KnownPayloads ==
  ASSUME Known
  PROVE  /\ \A k : Mail(rxMailbox, "PAYLOAD", k) => k \in Int /\ Last < k /\ k < rxNextPayload
         /\ \A k : Air(down, "PAYLOAD", k) => k \in Int /\ rxNextPayload <= k /\ k <= txLast
         /\ \A k : Air(down, "RESP", k) => rxAsked # {} /\ (~swapped => k \in rxAsked)
<1>1. /\ rxMailbox \in Seq(RP!Message)
      /\ down \in Seq(AirPacket(Answerable)) /\ Answerable \in SUBSET Chunk
      /\ Answerable # {} => rxAsked # {}
      /\ ~swapped => Answerable = rxAsked
  BY KnownSequences
<1>2. RP!Ordered(rxMailbox, Last, rxNextPayload)
  <2>1. Last = RP!Reached
    BY DEF Last, RP!Reached
  <2> QED
    BY <2>1 DEF Known, RP!NetInv
<1>3. Ascending(down, rxNextPayload, txLast)
  BY DEF Known, AirInv, PayloadsInv
<1>4. \A i \in DOMAIN rxMailbox : rxMailbox[i].type = "PAYLOAD" => rxMailbox[i].val \in Int
  <2>1. \A i \in DOMAIN rxMailbox : rxMailbox[i] \in RP!Message
    BY <1>1
  <2>2. \A m \in RP!Message : m.type = "PAYLOAD" => m.val \in Int
    BY DEF RP!Message, RP!Chunk
  <2> QED
    BY <2>1, <2>2
<1>5. \A i \in DOMAIN down : down[i] \in AirPacket(Answerable)
  BY <1>1
<1>6. \A p \in AirPacket(Answerable) : p.seq \in Int /\ (p.type = "RESP" => p.seq \in Answerable)
  <2>1. \A p \in AirPacket(Answerable) : p.seq \in Int
    BY <1>1, AirTyped DEF S!Packet, S!Chunk
  <2>2. \A p \in AirPacket(Answerable) : p.type = "RESP" => p.seq \in Answerable
    BY DEF AirPacket
  <2> QED
    BY <2>1, <2>2
<1>7. ASSUME NEW k, Mail(rxMailbox, "PAYLOAD", k) PROVE k \in Int /\ Last < k /\ k < rxNextPayload
  BY <1>2, <1>4, <1>7 DEF Mail, RP!Ordered
<1>8. ASSUME NEW k, Air(down, "PAYLOAD", k) PROVE k \in Int /\ rxNextPayload <= k /\ k <= txLast
  BY <1>3, <1>5, <1>6, <1>8 DEF Air, Ascending
<1>9. ASSUME NEW k, Air(down, "RESP", k) PROVE rxAsked # {} /\ (~swapped => k \in rxAsked)
  <2>1. k \in Answerable
    BY <1>5, <1>6, <1>9 DEF Air
  <2> QED
    BY <1>1, <2>1
<1> QED
  BY <1>7, <1>8, <1>9

\* One packet at most waits, and one message of the expectation timer.
LEMMA PacketsCounted ==
  ASSUME NEW mb \in Seq(RP!Message)
  PROVE  /\ PacketsIn(mb) \in Nat
         /\ PacketsIn(mb) <= RP!NumIn(mb, RP!PacketTypes)
         /\ \A t \in {"PAYLOAD", "RESP"} : PacketsIn(mb) = 0 => ~RP!Holds(mb, t)
         /\ mb # <<>> => PacketsIn(Tail(mb))
                           = IF Head(mb).type \in {"PAYLOAD", "RESP"} THEN PacketsIn(mb) - 1
                                                                      ELSE PacketsIn(mb)
         /\ \A m \in RP!Message :
              PacketsIn(Append(mb, m))
                = IF m.type \in {"PAYLOAD", "RESP"} THEN PacketsIn(mb) + 1 ELSE PacketsIn(mb)
<1> DEFINE types == {"PAYLOAD", "RESP"}
<1>1. Len(mb) \in Nat /\ PacketsIn(mb) \in Nat
  BY RP!NumInType, ReceiverConstants, QueueLenAssumption DEF PacketsIn
<1>2. PacketsIn(mb) <= RP!NumIn(mb, RP!PacketTypes)
  BY <1>1, RP!NumWithin, ReceiverConstants, QueueLenAssumption DEF PacketsIn, RP!NumIn, RP!PacketTypes
<1>3. ASSUME NEW t \in types, PacketsIn(mb) = 0 PROVE ~RP!Holds(mb, t)
  <2>1. RP!NumIn(mb, {t}) <= PacketsIn(mb)
    BY <1>1, RP!NumWithin, ReceiverConstants, QueueLenAssumption DEF PacketsIn, RP!NumIn
  <2>2. RP!NumIn(mb, {t}) \in Nat
    BY RP!NumInType, ReceiverConstants, QueueLenAssumption
  <2>3. RP!NumIn(mb, {t}) = 0
    BY <1>3, <2>1, <2>2
  <2> QED
    BY <2>3, RP!NumInHolds, ReceiverConstants, QueueLenAssumption
<1>4. ASSUME mb # <<>>
      PROVE  PacketsIn(Tail(mb)) = IF Head(mb).type \in types THEN PacketsIn(mb) - 1 ELSE PacketsIn(mb)
  <2>1. PacketsIn(Tail(mb)) = PacketsIn(mb) - RP!One(Head(mb).type \in types)
    BY <1>4, RP!NumInTail, ReceiverConstants, QueueLenAssumption DEF PacketsIn
  <2> QED
    BY <1>1, <2>1 DEF RP!One
<1>5. ASSUME NEW m \in RP!Message
      PROVE  PacketsIn(Append(mb, m)) = IF m.type \in types THEN PacketsIn(mb) + 1 ELSE PacketsIn(mb)
  <2>1. PacketsIn(Append(mb, m)) = PacketsIn(mb) + RP!One(m.type \in types)
    BY RP!NumInAppend, ReceiverConstants, QueueLenAssumption DEF PacketsIn
  <2> QED
    BY <1>1, <2>1 DEF RP!One
<1> QED
  BY <1>1, <1>2, <1>3, <1>4, <1>5

\* Mail names the number that Holds leaves open.
LEMMA MailHolds ==
  \A mb, t : (\E k : Mail(mb, t, k)) <=> RP!Holds(mb, t)
BY DEF Mail, RP!Holds

\* Behind a packet there is none, behind the timer's message no other.
LEMMA KnownMail ==
  ASSUME Known
  PROVE  /\ PacketsIn(rxMailbox) \in {0, 1}
         /\ rxMailbox # <<>> /\ Head(rxMailbox).type \in {"PAYLOAD", "RESP"} =>
              /\ PacketsIn(Tail(rxMailbox)) = 0
              /\ \A k : /\ ~Mail(Tail(rxMailbox), "PAYLOAD", k)
                        /\ ~Mail(Tail(rxMailbox), "RESP", k)
         /\ rxMailbox # <<>> /\ Head(rxMailbox).type = "EXPECTATION" =>
              ~RP!Holds(Tail(rxMailbox), "EXPECTATION")
<1>1. rxMailbox \in Seq(RP!Message)
  BY KnownSequences
<1>2. PacketsIn(rxMailbox) \in {0, 1}
  <2>1. RP!NumIn(rxMailbox, RP!PacketTypes) <= 1
    BY DEF Known, RP!RoomInv
  <2>2. RP!NumIn(rxMailbox, RP!PacketTypes) \in Nat
    BY <1>1, RP!NumInType, ReceiverConstants, QueueLenAssumption
  <2> QED
    BY <1>1, <2>1, <2>2, PacketsCounted
<1>3. ASSUME rxMailbox # <<>>, Head(rxMailbox).type \in {"PAYLOAD", "RESP"}
      PROVE  /\ PacketsIn(Tail(rxMailbox)) = 0
             /\ \A k : ~Mail(Tail(rxMailbox), "PAYLOAD", k) /\ ~Mail(Tail(rxMailbox), "RESP", k)
  <2>1. Tail(rxMailbox) \in Seq(RP!Message)
    BY <1>1, <1>3, Taken
  <2>2. PacketsIn(Tail(rxMailbox)) = PacketsIn(rxMailbox) - 1
    BY <1>1, <1>3, PacketsCounted
  <2>3. PacketsIn(Tail(rxMailbox)) \in Nat
    BY <2>1, PacketsCounted
  <2>4. PacketsIn(Tail(rxMailbox)) = 0
    BY <1>2, <2>2, <2>3
  <2>5. ~RP!Holds(Tail(rxMailbox), "PAYLOAD") /\ ~RP!Holds(Tail(rxMailbox), "RESP")
    BY <2>1, <2>4, PacketsCounted
  <2> QED
    BY <2>4, <2>5, MailHolds
<1>4. ASSUME rxMailbox # <<>>, Head(rxMailbox).type = "EXPECTATION"
      PROVE  ~RP!Holds(Tail(rxMailbox), "EXPECTATION")
  <2>1. Tail(rxMailbox) \in Seq(RP!Message)
    BY <1>1, <1>4, Taken
  <2>2. RP!NumIn(rxMailbox, {"EXPECTATION"}) <= 1
    BY DEF Known, RP!RoomInv
  <2>3. /\ RP!NumIn(Tail(rxMailbox), {"EXPECTATION"}) = RP!NumIn(rxMailbox, {"EXPECTATION"}) - 1
        /\ RP!NumIn(Tail(rxMailbox), {"EXPECTATION"}) \in Nat
        /\ RP!NumIn(rxMailbox, {"EXPECTATION"}) \in Nat
    BY <1>1, <1>4, <2>1, RP!NumInTail, RP!NumInType, ReceiverConstants, QueueLenAssumption DEF RP!One
  <2>4. RP!NumIn(Tail(rxMailbox), {"EXPECTATION"}) = 0
    BY <2>2, <2>3
  <2> QED
    BY <2>1, <2>4, RP!NumInHolds, ReceiverConstants, QueueLenAssumption
<1> QED
  BY <1>2, <1>3, <1>4

-----------------------------------------------------------------------------
(* The sender while the receiver receives.                                   *)

\* What the sender's thread alone changes, and what the receiver's alone.
LEMMA OwnState ==
  ASSUME [Next]_vars
  PROVE  /\ SenderStep \/ UNCHANGED <<txState, txLast>>
         /\ ReceiverStep \/ UNCHANGED <<rxState, rxResults, rxQueue, rxExpectationSeqNo, rxAsked>>
<1>1. CASE SenderStep
  BY <1>1 DEF SenderStep, rxVars
<1>2. CASE ReceiverStep
  BY <1>2 DEF ReceiverStep, txVars
<1>3. CASE IntervalTimerFires
  BY <1>3 DEF IntervalTimerFires, S!IntervalTimerFires, rxVars
<1>4. CASE InterestTimerFires \/ ExpectationTimerFires
  BY <1>4 DEF InterestTimerFires, ExpectationTimerFires, R!InterestTimerFires,
              R!ExpectationTimerFires, R!Fired, R!netVars, txVars
<1>5. CASE Start
  BY <1>5 DEF Start, S!ShellStart, S!Command, rxVars
<1>6. CASE PacketArrives
  BY <1>6 DEF PacketArrives, R!Deliver, txVars, rxVars
<1>7. CASE RequestArrives
  BY <1>7 DEF RequestArrives, S!Deliver, txVars, rxVars
<1>8. CASE RelayAnswers \/ RelaySwaps
  BY <1>8 DEF RelayAnswers, RelaySwaps, RelaySends, txVars, rxVars
<1>9. CASE UNCHANGED vars
  BY <1>9 DEF vars, txVars, rxVars
<1> QED
  BY <1>1, <1>2, <1>3, <1>4, <1>5, <1>6, <1>7, <1>8, <1>9 DEF Next, KeptNext

SenderInv ==
  /\ txState # "STOPPED"
  /\ txState = "WAITING" => txLast >= NumPkts - 1
  /\ rxState = "RECEIVING" => txState # "IDLE"
  /\ SP!StepsWaiting \in {0, 1}
  /\ txTimer = "now" => SP!StepsWaiting = 0

\* What one step of the sender's thread does to the packets on their way.
LEMMA SenderMoves ==
  ASSUME Known, SenderStep
  PROVE  /\ UNCHANGED rxVars
         /\ \/ txState = "IDLE" /\ txState' = "SENDING" /\ Head(txMailbox).type = "START"
            \/ /\ UNCHANGED <<txState, txLast, down, lost, silence>>
               /\ SP!StepsWaiting' = SP!StepsWaiting
               /\ Head(txMailbox).type = "BULK_REQ" /\ txState # "IDLE"
            \/ /\ Head(txMailbox).type = "SEND_FILE" /\ txState # "IDLE" /\ txState' # "IDLE"
               /\ SP!StepsWaiting' = SP!StepsWaiting - 1
               /\ silence' = AtMostSteps(silence + 1)
               /\ \/ down' = down /\ lost' = IF AllSent' THEN 0 ELSE lost + 1
                  \/ /\ down' = Append(down, txSent')
                     /\ lost' = IF AllSent' \/ txSent'.type = "PAYLOAD" THEN 0 ELSE lost
               /\ txSent' \in AirPacket(rxAsked)
               /\ \/ /\ txSent' = [type |-> "PAYLOAD", seq |-> txLast + 1]
                     /\ txLast' = txLast + 1
                  \/ txSent'.type = "RESP" /\ txSent'.seq \in rxAsked /\ txLast' = txLast
<1>1. /\ S!Thread /\ UNCHANGED rxVars /\ AirInv
      /\ txMailbox \in Seq(TxMessage(rxAsked)) /\ txQueue \in Seq(rxAsked) /\ rxAsked \subseteq Chunk
  BY KnownSequences DEF SenderStep, Known
<1>2. txMailbox # <<>> /\ txMailbox' = Tail(txMailbox)
  BY <1>1, SenderTakes
<1>3. SP!StepsWaiting' = IF Head(txMailbox).type = "SEND_FILE" THEN SP!StepsWaiting - 1
                                                               ELSE SP!StepsWaiting
  BY <1>2, SP!StepsTaken, SenderConstants, QueueLenAssumption DEF Known
<1>4. \/ Head(txMailbox).type = "BULK_REQ" /\ UNCHANGED <<txLast, txState>> /\ txSent' = None
      \/ Head(txMailbox).type = "START" /\ txState' = "SENDING" /\ txSent' = None
      \/ /\ Head(txMailbox).type = "SEND_FILE"
         /\ \/ /\ UNCHANGED txQueue /\ txLast < NumPkts /\ txLast' = txLast + 1
               /\ txSent' = [type |-> "PAYLOAD", seq |-> txLast + 1]
            \/ /\ txQueue # <<>> /\ txQueue' = Tail(txQueue) /\ UNCHANGED txLast
               /\ txSent' = [type |-> "RESP", seq |-> Head(txQueue)]
  BY <1>1, SenderTakes
<1>5. 1 \in DOMAIN txMailbox /\ Head(txMailbox) = txMailbox[1]
  BY <1>1, <1>2, Taken
<1>6. CASE Head(txMailbox).type = "BULK_REQ"
  <2>1. UNCHANGED <<txLast, txState>> /\ txSent' = None
    BY <1>4, <1>6
  <2>2. UNCHANGED <<down, lost, silence>>
    BY <2>1 DEF SenderStep
  <2>3. txState # "IDLE"
    BY <1>1, <1>5, <1>6 DEF AirInv, FreshInv
  <2> QED
    BY <1>1, <1>3, <1>6, <2>1, <2>2, <2>3
<1>7. CASE Head(txMailbox).type = "START"
  <2>1. txState = "IDLE" /\ txState' = "SENDING"
    BY <1>1, <1>4, <1>5, <1>7 DEF AirInv, FreshInv
  <2> QED
    BY <1>1, <1>7, <2>1
<1>8. CASE Head(txMailbox).type = "SEND_FILE"
  <2>1. txState # "IDLE" /\ txState' # "IDLE"
    <3>1. txState # "IDLE"
      BY <1>1, <1>5, <1>8 DEF AirInv, FreshInv
    <3> QED
      BY <1>1, <1>8, <3>1, SenderTakes
  <2>2. /\ txSent' \in AirPacket(rxAsked)
        /\ \/ txSent' = [type |-> "PAYLOAD", seq |-> txLast + 1] /\ txLast' = txLast + 1
           \/ txSent'.type = "RESP" /\ txSent'.seq \in rxAsked /\ txLast' = txLast
    <3>1. CASE /\ UNCHANGED txQueue /\ txLast < NumPkts /\ txLast' = txLast + 1
               /\ txSent' = [type |-> "PAYLOAD", seq |-> txLast + 1]
      <4>1. txLast + 1 \in Chunk
        BY <3>1, KnownNumbers DEF Chunk
      <4> QED
        BY <3>1, <4>1 DEF AirPacket
    <3>2. CASE /\ txQueue # <<>> /\ txQueue' = Tail(txQueue) /\ UNCHANGED txLast
               /\ txSent' = [type |-> "RESP", seq |-> Head(txQueue)]
      <4>1. Head(txQueue) \in rxAsked
        BY <1>1, <3>2, Taken
      <4> QED
        BY <3>2, <4>1 DEF AirPacket
    <3> QED
      BY <1>4, <1>8, <3>1, <3>2
  <2>3. txSent' # None
    <3>1. txSent' \in S!Packet
      BY <1>1, <2>2, AirTyped
    <3> QED
      BY <3>1, NoneAssumption DEF S!Packet, S!Chunk
  <2>4. Transmit(down, txSent') /\ silence' = AtMostSteps(silence + 1)
    BY <2>3 DEF SenderStep
  <2>5. \/ down' = down /\ lost' = IF AllSent' THEN 0 ELSE lost + 1
        \/ /\ down' = Append(down, txSent')
           /\ lost' = IF AllSent' \/ txSent'.type = "PAYLOAD" THEN 0 ELSE lost
    <3>1. lost' = Lost
      BY <2>3 DEF SenderStep
    <3>2. Append(down, txSent') # down
      <4>1. down \in Seq(AirPacket(Answerable)) /\ txSent' \in AirPacket(Answerable)
        BY <2>2, KnownSequences
      <4>2. Len(Append(down, txSent')) = Len(down) + 1 /\ Len(down) \in Nat
        BY <4>1, AppendProperties
      <4> QED
        BY <4>2
    <3> QED
      BY <2>4, <3>1, <3>2 DEF Transmit, Lost
  <2> QED
    BY <1>1, <1>3, <1>8, <2>1, <2>2, <2>4, <2>5
<1> QED
  BY <1>4, <1>6, <1>7, <1>8

\* What is put in the sender's mailbox.
LEMMA StepsPosted ==
  ASSUME Known, NEW m \in SP!Message, txMailbox' = Append(txMailbox, m)
  PROVE  SP!StepsWaiting' = IF m.type = "SEND_FILE" THEN SP!StepsWaiting + 1 ELSE SP!StepsWaiting
<1>1. txMailbox \in Seq(SP!Message)
  BY DEF Known, SP!MailboxType
<1>2. /\ SP!NumIn(Append(txMailbox, m), {"SEND_FILE"})
           = SP!NumIn(txMailbox, {"SEND_FILE"}) + SP!One(m.type \in {"SEND_FILE"})
      /\ SP!NumIn(txMailbox, {"SEND_FILE"}) \in Nat
  BY <1>1, SP!NumInAppend, SP!NumInType, SenderConstants, QueueLenAssumption
<1> QED
  BY <1>2 DEF SP!StepsWaiting, SP!One

\* An interval timer that fires finds no step waiting, and leaves one at most.
LEMMA IntervalPosts ==
  ASSUME Known, SenderInv, IntervalTimerFires
  PROVE  /\ SP!StepsWaiting = 0 /\ SP!StepsWaiting' \in {0, 1} /\ txTimer' = "off"
         /\ Len(down) < MaxInFlight
         /\ UNCHANGED <<rxVars, airVars, silence, txState, txLast>>
<1>1. /\ Len(down) < MaxInFlight /\ txTimer' = "off" /\ UNCHANGED <<rxVars, airVars, silence>>
      /\ UNCHANGED <<txState, txLast>>
      /\ txTimer = "now" \/ Cardinality(SP!Pending("SEND_FILE")) < 1
      /\ txMailbox' \in {txMailbox, Append(txMailbox, SP!Msg("SEND_FILE", <<>>))}
  <2>1. IntervalTimerFires => SP!IntervalTimerFires
    BY SameSender DEF IntervalTimerFires
  <2> QED
    BY <2>1, SameCardinality DEF IntervalTimerFires, SP!IntervalTimerFires
<1>2. SP!StepsWaiting = 0
  <2>1. CASE txTimer = "now"
    BY <2>1 DEF SenderInv
  <2>2. CASE Cardinality(SP!Pending("SEND_FILE")) < 1
    <3>1. SP!StepsWaiting < 1
      BY <2>2, SameCardinality, SP!CountsAgree, SenderConstants, QueueLenAssumption
      DEF Known, SP!StepsWaiting
    <3> QED
      BY <3>1 DEF SenderInv
  <2> QED
    BY <1>1, <2>1, <2>2
<1>3. SP!StepsWaiting' \in {0, 1}
  <2>1. SP!Msg("SEND_FILE", <<>>) \in SP!Message /\ SP!Msg("SEND_FILE", <<>>).type = "SEND_FILE"
    BY DEF SP!Msg, SP!Message
  <2>2. CASE txMailbox' = txMailbox
    BY <1>2, <2>2 DEF SP!StepsWaiting
  <2>3. CASE txMailbox' = Append(txMailbox, SP!Msg("SEND_FILE", <<>>))
    BY <1>2, <2>1, <2>3, StepsPosted
  <2> QED
    BY <1>1, <2>2, <2>3
<1> QED
  BY <1>1, <1>2, <1>3

\* A request, or the command, changes nothing of the sender's but the mailbox.
LEMMA InputsMove ==
  ASSUME Known, Start \/ RequestArrives
  PROVE  SP!StepsWaiting' = SP!StepsWaiting /\ UNCHANGED <<txTimer, txState, txLast, rxVars>>
<1>1. CASE Start
  <2>1. txState = "IDLE" /\ txMailbox' = Append(txMailbox, S!Msg("START", <<>>))
        /\ UNCHANGED <<txTimer, txState, txLast, rxVars>>
    BY <1>1 DEF Start, S!ShellStart, S!Command, S!Alive
  <2>2. S!Msg("START", <<>>) \in SP!Message /\ S!Msg("START", <<>>).type = "START"
    BY DEF S!Msg, SP!Message
  <2> QED
    BY <2>1, <2>2, StepsPosted
<1>2. CASE RequestArrives
  <2>1. UNCHANGED rxVars
    BY <1>2 DEF RequestArrives
  <2>2. CASE UNCHANGED txVars
    BY <2>1, <2>2 DEF txVars, SP!StepsWaiting
  <2>3. CASE ~UNCHANGED txVars
    <3>1. PICK list \in Bulks : S!Deliver(S!Msg("BULK_REQ", list))
      BY <1>2, <2>3, RequestPasses DEF Known
    <3>2. /\ txMailbox' = Append(txMailbox, S!Msg("BULK_REQ", list))
          /\ UNCHANGED <<txTimer, txState, txLast>>
      BY <3>1 DEF S!Deliver
    <3>3. S!Msg("BULK_REQ", list) \in SP!Message /\ S!Msg("BULK_REQ", list).type = "BULK_REQ"
      BY DEF S!Msg, SP!Message
    <3> QED
      BY <2>1, <3>2, <3>3, StepsPosted
  <2> QED
    BY <2>2, <2>3
<1> QED
  BY <1>1, <1>2

\* SenderInv is kept by every step.
LEMMA SenderKept ==
  ASSUME Known, SenderInv, [Next]_vars PROVE SenderInv'
<1>1. rxState' = "RECEIVING" => txState' # "IDLE"
  <2>1. SenderStep => txState' # "IDLE"
    BY SenderMoves DEF SenderInv
  <2>2. ReceiverStep => txState' # "IDLE"
    <3> SUFFICES ASSUME ReceiverStep PROVE txState # "IDLE" /\ txState' = txState
      OBVIOUS
    <3>1. rxMailbox # <<>>
      BY ReceiverAsks DEF ReceiverStep, Known, TypeOK
    <3> QED
      BY <3>1 DEF ReceiverStep, txVars, Known, AirInv, FreshInv
  <2> QED
    BY <2>1, <2>2, OwnState DEF SenderInv
<1>2. CASE SenderStep
  <2> USE <1>2
  <2>1. /\ S!Thread /\ AirInv /\ txMailbox # <<>> /\ txMailbox' = Tail(txMailbox)
    BY SenderTakes DEF SenderStep, Known
  <2>2. SP!StepsWaiting' \in Nat
    <3>1. /\ txMailbox \in Seq(SP!Message)
      BY DEF Known, SP!MailboxType
    <3>2. Tail(txMailbox) \in Seq(SP!Message)
      BY <2>1, <3>1, Taken
    <3> QED
      BY <2>1, <3>2, SP!NumInType, SenderConstants, QueueLenAssumption DEF SP!StepsWaiting
  <2>3. CASE txState = "IDLE"
    <3>1. txState' = "SENDING"
      BY <2>3, SenderMoves DEF SenderInv
    <3>2. txMailbox' = <<>>
      <4>1. Len(txMailbox) <= 1 /\ txMailbox \in Seq(TxMessage(rxAsked))
        BY <2>3 DEF Known, AirInv, FreshInv, RequestsInv
      <4>2. Len(Tail(txMailbox)) = Len(txMailbox) - 1 /\ Len(txMailbox) \in Nat
            /\ Tail(txMailbox) \in Seq(TxMessage(rxAsked))
        BY <2>1, <4>1, HeadTailProperties
      <4>3. Len(Tail(txMailbox)) = 0
        <5>1. Len(Tail(txMailbox)) \in Nat
          BY <4>2
        <5> QED
          BY <4>1, <4>2, <5>1
      <4> QED
        BY <2>1, <4>2, <4>3, EmptySeq
    <3>3. SP!StepsWaiting' = 0
      BY <3>2, SP!NumInEmpty, SenderConstants, QueueLenAssumption DEF SP!StepsWaiting
    <3> QED
      BY <1>1, <3>1, <3>3 DEF SenderInv
  <2>4. CASE txState # "IDLE" /\ Head(txMailbox).type = "BULK_REQ"
    <3>1. UNCHANGED <<txState, txLast>> /\ SP!StepsWaiting' = SP!StepsWaiting
      BY <2>4, SenderMoves
    <3>2. S!HandleBulkReq
      BY <2>1, <2>4 DEF S!Thread, S!HandlePktReq, S!HandleOther, S!HandleStart, S!HandleSendFile,
                        S!HandleStop, S!Take
    <3>3. txTimer' = "now" => txTimer = "now"
      BY <3>2 DEF S!HandleBulkReq, S!TimerSet
    <3> QED
      BY <1>1, <3>1, <3>3 DEF SenderInv
  <2>5. CASE txState # "IDLE" /\ Head(txMailbox).type = "SEND_FILE"
    <3>1. SP!StepsWaiting' = SP!StepsWaiting - 1 /\ txLast' \in {txLast, txLast + 1}
      BY <2>5, SenderMoves
    <3>2. SP!StepsWaiting' = 0
      BY <2>2, <3>1 DEF SenderInv
    <3>3. S!HandleSendFile
      BY <2>1, <2>5 DEF S!Thread, S!HandlePktReq, S!HandleOther, S!HandleStart, S!HandleBulkReq,
                        S!HandleStop, S!Take
    <3>4. txMode = "BIDIR"
      BY DEF Known, TypeOK, S!TypeOK
    <3>5. txState' \in {txState, "WAITING"} /\ (txState' = txState \/ txLast' = NumPkts - 1)
      BY <2>5, <3>3, <3>4 DEF S!HandleSendFile, S!Done
    <3>6. txState' = "WAITING" => txLast' >= NumPkts - 1
      BY <3>1, <3>5, KnownNumbers DEF SenderInv
    <3> QED
      BY <1>1, <2>5, <3>2, <3>5, <3>6 DEF SenderInv
  <2> QED
    BY <2>3, <2>4, <2>5, SenderMoves
<1>3. CASE IntervalTimerFires
  BY <1>1, <1>3, IntervalPosts DEF SenderInv
<1>4. CASE Start \/ RequestArrives
  BY <1>1, <1>4, InputsMove DEF SenderInv
<1>5. CASE ReceiverStep \/ InterestTimerFires \/ ExpectationTimerFires \/ PacketArrives
           \/ RelayAnswers \/ RelaySwaps \/ UNCHANGED vars
  <2>1. UNCHANGED txVars
    BY <1>5 DEF ReceiverStep, InterestTimerFires, ExpectationTimerFires, PacketArrives,
                RelayAnswers, RelaySwaps, RelaySends, vars
  <2>2. UNCHANGED <<txState, txLast, txTimer>> /\ SP!StepsWaiting' = SP!StepsWaiting
    BY <2>1 DEF txVars, SP!StepsWaiting
  <2> QED
    BY <1>1, <2>2 DEF SenderInv
<1> QED
  BY <1>2, <1>3, <1>4, <1>5 DEF Next, KeptNext

\* At the start there is nothing to say of the sender.
LEMMA InitSender == Init => SenderInv
<1> SUFFICES ASSUME Init PROVE SenderInv
  OBVIOUS
<1>1. txState = "IDLE" /\ rxState = "IDLE" /\ txTimer = "off" /\ txMailbox = <<>>
  BY DEF Init, S!Init, R!Init
<1>2. SP!StepsWaiting = 0
  BY <1>1, SP!NumInEmpty, SenderConstants, QueueLenAssumption DEF SP!StepsWaiting
<1> QED
  BY <1>1, <1>2 DEF SenderInv

-----------------------------------------------------------------------------
(* What the receiver's steps do to its mailbox.                              *)

Pend(mb) == RP!Holds(mb, "EXPECTATION")

\* Nothing that is told apart here is added or taken.
SameMail(mb1, mb2) ==
  /\ \A t \in {"PAYLOAD", "RESP"} : \A k : Mail(mb2, t, k) <=> Mail(mb1, t, k)
  /\ \A k : Before(mb2, k) <=> Before(mb1, k)
  /\ Pend(mb2) <=> Pend(mb1)
  /\ PacketsIn(mb2) = PacketsIn(mb1)

\* A message of another kind, at the end.
LEMMA PlainAppend ==
  ASSUME NEW mb \in Seq(RP!Message), NEW m \in RP!Message,
         m.type \notin {"PAYLOAD", "RESP", "EXPECTATION"}
  PROVE  SameMail(mb, Append(mb, m))
<1>1. /\ \A t, k : Mail(Append(mb, m), t, k) <=> Mail(mb, t, k) \/ (m.type = t /\ m.val = k)
      /\ \A k : Before(Append(mb, m), k) <=>
                  Before(mb, k) \/ (m.type = "EXPECTATION" /\ Mail(mb, "PAYLOAD", k))
  BY MailAppend
<1>2. Pend(Append(mb, m)) <=> Pend(mb)
  BY RP!HoldsAppend, ReceiverConstants, QueueLenAssumption DEF Pend
<1>3. PacketsIn(Append(mb, m)) = PacketsIn(mb)
  BY PacketsCounted
<1> QED
  BY <1>1, <1>2, <1>3 DEF SameMail

\* A message of another kind, taken from the front.
LEMMA PlainTail ==
  ASSUME NEW mb \in Seq(RP!Message), mb # <<>>,
         Head(mb).type \notin {"PAYLOAD", "RESP", "EXPECTATION"}
  PROVE  SameMail(mb, Tail(mb))
<1>1. /\ \A t, k : Mail(mb, t, k) <=> Mail(Tail(mb), t, k) \/ (Head(mb).type = t /\ Head(mb).val = k)
      /\ \A k : Before(mb, k) <=> \/ Before(Tail(mb), k)
                                  \/ /\ Head(mb).type = "PAYLOAD" /\ Head(mb).val = k
                                     /\ RP!Holds(Tail(mb), "EXPECTATION")
  BY MailTail
<1>2. Pend(Tail(mb)) <=> Pend(mb)
  BY RP!TailHolds, RP!HoldsTail, ReceiverConstants, QueueLenAssumption DEF Pend
<1>3. PacketsIn(Tail(mb)) = PacketsIn(mb)
  BY PacketsCounted
<1> QED
  BY <1>1, <1>2, <1>3 DEF SameMail

\* Leaving all but the STOPs of a mailbox alone is transitive.
LEMMA SameMailTwice ==
  ASSUME NEW a, NEW b, NEW c, SameMail(a, b), SameMail(b, c) PROVE SameMail(a, c)
BY DEF SameMail

\* What a handler leaves that may tell the thread to stop.
LEMMA MailboxTaken ==
  ASSUME Known, rxMailbox # <<>>, NEW mb \in {Tail(rxMailbox), Append(Tail(rxMailbox), R!Stop)}
  PROVE  SameMail(Tail(rxMailbox), mb) /\ Tail(rxMailbox) \in Seq(RP!Message)
<1>1. Tail(rxMailbox) \in Seq(RP!Message)
  BY KnownSequences, Taken
<1>2. R!Stop \in RP!Message /\ R!Stop.type = "STOP"
  BY DEF R!Stop, R!Msg, RP!Message
<1>3. SameMail(Tail(rxMailbox), Append(Tail(rxMailbox), R!Stop))
  BY <1>1, <1>2, PlainAppend
<1>4. SameMail(Tail(rxMailbox), Tail(rxMailbox))
  BY DEF SameMail
<1> QED
  BY <1>1, <1>3, <1>4

\* The head is a payload.
LEMMA PayloadTaken ==
  ASSUME Known, rxMailbox # <<>>, Head(rxMailbox).type = "PAYLOAD",
         NEW mb \in {Tail(rxMailbox), Append(Tail(rxMailbox), R!Stop)}
  PROVE  /\ \A k : ~Mail(mb, "PAYLOAD", k) /\ ~Mail(mb, "RESP", k) /\ ~Before(mb, k)
         /\ PacketsIn(mb) = 0
         /\ Pend(mb) <=> Pend(rxMailbox)
         /\ \A k : Mail(rxMailbox, "PAYLOAD", k) <=> k = Head(rxMailbox).val
         /\ \A k : Before(rxMailbox, k) <=> Pend(rxMailbox) /\ k = Head(rxMailbox).val
<1>1. SameMail(Tail(rxMailbox), mb)
  BY MailboxTaken
<1>2. /\ PacketsIn(Tail(rxMailbox)) = 0
      /\ \A k : ~Mail(Tail(rxMailbox), "PAYLOAD", k) /\ ~Mail(Tail(rxMailbox), "RESP", k)
  BY KnownMail
<1>3. \A k : ~Before(Tail(rxMailbox), k)
  BY <1>2 DEF Before, Mail
<1>4. Pend(Tail(rxMailbox)) <=> Pend(rxMailbox)
  BY KnownSequences, RP!TailHolds, RP!HoldsTail, ReceiverConstants, QueueLenAssumption DEF Pend
<1>5. /\ \A k : Mail(rxMailbox, "PAYLOAD", k) <=>
                  Mail(Tail(rxMailbox), "PAYLOAD", k) \/ Head(rxMailbox).val = k
      /\ \A k : Before(rxMailbox, k) <=> \/ Before(Tail(rxMailbox), k)
                                         \/ Head(rxMailbox).val = k /\ Pend(Tail(rxMailbox))
  BY MailTail, KnownSequences DEF Pend
<1> QED
  BY <1>1, <1>2, <1>3, <1>4, <1>5 DEF SameMail

\* The head is an answer.
LEMMA RespTaken ==
  ASSUME Known, rxMailbox # <<>>, Head(rxMailbox).type = "RESP",
         NEW mb \in {Tail(rxMailbox), Append(Tail(rxMailbox), R!Stop)}
  PROVE  /\ \A k : ~Mail(mb, "PAYLOAD", k) /\ ~Mail(mb, "RESP", k) /\ ~Before(mb, k)
         /\ PacketsIn(mb) = 0
         /\ Pend(mb) <=> Pend(rxMailbox)
         /\ \A k : ~Mail(rxMailbox, "PAYLOAD", k) /\ ~Before(rxMailbox, k)
         /\ Mail(rxMailbox, "RESP", Head(rxMailbox).val)
<1>1. SameMail(Tail(rxMailbox), mb)
  BY MailboxTaken
<1>2. /\ PacketsIn(Tail(rxMailbox)) = 0
      /\ \A k : ~Mail(Tail(rxMailbox), "PAYLOAD", k) /\ ~Mail(Tail(rxMailbox), "RESP", k)
  BY KnownMail
<1>3. \A k : ~Before(Tail(rxMailbox), k)
  BY <1>2 DEF Before, Mail
<1>4. Pend(Tail(rxMailbox)) <=> Pend(rxMailbox)
  BY KnownSequences, RP!TailHolds, RP!HoldsTail, ReceiverConstants, QueueLenAssumption DEF Pend
<1>5. /\ \A k : Mail(rxMailbox, "PAYLOAD", k) <=> Mail(Tail(rxMailbox), "PAYLOAD", k)
      /\ Mail(rxMailbox, "RESP", Head(rxMailbox).val)
      /\ \A k : Before(rxMailbox, k) <=> Before(Tail(rxMailbox), k)
  BY MailTail, KnownSequences
<1> QED
  BY <1>1, <1>2, <1>3, <1>4, <1>5 DEF SameMail

\* The head is the expectation timer's.
LEMMA ExpectationTaken ==
  ASSUME Known, rxMailbox # <<>>, Head(rxMailbox).type = "EXPECTATION",
         NEW mb \in {Tail(rxMailbox), Append(Tail(rxMailbox), R!Stop)}
  PROVE  /\ \A t \in {"PAYLOAD", "RESP"} : \A k : Mail(mb, t, k) <=> Mail(rxMailbox, t, k)
         /\ PacketsIn(mb) = PacketsIn(rxMailbox)
         /\ Pend(rxMailbox) /\ ~Pend(mb)
         /\ \A k : ~Before(rxMailbox, k) /\ ~Before(mb, k)
<1>1. SameMail(Tail(rxMailbox), mb) /\ Tail(rxMailbox) \in Seq(RP!Message)
  BY MailboxTaken
<1>2. ~Pend(Tail(rxMailbox)) /\ Pend(rxMailbox)
  BY KnownMail, KnownSequences, RP!TailHolds, ReceiverConstants, QueueLenAssumption DEF Pend
<1>3. \A k : ~Before(Tail(rxMailbox), k)
  BY <1>2 DEF Before, Pend, RP!Holds
<1>4. /\ \A t \in {"PAYLOAD", "RESP"} : \A k : Mail(rxMailbox, t, k) <=> Mail(Tail(rxMailbox), t, k)
      /\ \A k : Before(rxMailbox, k) <=> Before(Tail(rxMailbox), k)
  BY MailTail, KnownSequences
<1>5. PacketsIn(Tail(rxMailbox)) = PacketsIn(rxMailbox)
  BY PacketsCounted, KnownSequences
<1> QED
  BY <1>1, <1>2, <1>3, <1>4, <1>5 DEF SameMail

\* The head is none of these.
LEMMA OtherTaken ==
  ASSUME Known, rxMailbox # <<>>, Head(rxMailbox).type \notin {"PAYLOAD", "RESP", "EXPECTATION"}
  PROVE  SameMail(rxMailbox, Tail(rxMailbox))
BY KnownSequences, PlainTail

\* A packet finds a mailbox without one.
LEMMA PacketPosted ==
  ASSUME Known, R!Cardinality(R!Packets) < 1, NEW t \in {"PAYLOAD", "RESP"}, NEW v \in Chunk
  PROVE  LET mb == Append(rxMailbox, R!Msg(t, v))
         IN  /\ PacketsIn(rxMailbox) = 0 /\ PacketsIn(mb) = 1
             /\ \A k : /\ ~Mail(rxMailbox, "PAYLOAD", k) /\ ~Mail(rxMailbox, "RESP", k)
                       /\ ~Before(rxMailbox, k) /\ ~Before(mb, k)
             /\ \A u \in {"PAYLOAD", "RESP"} : \A k : Mail(mb, u, k) <=> u = t /\ k = v
             /\ Pend(mb) <=> Pend(rxMailbox)
<1> DEFINE m == R!Msg(t, v)
           mb == Append(rxMailbox, m)
<1>1. rxMailbox \in Seq(RP!Message)
  BY KnownSequences
<1>2. m \in RP!Message /\ m.type = t /\ m.val = v
  BY DEF R!Msg, RP!Message, RP!Chunk, Chunk
<1>3. PacketsIn(rxMailbox) = 0
  <2>1. RP!Cardinality(RP!Packets) = RP!NumIn(rxMailbox, RP!PacketTypes)
    BY SameReceiver, RP!CountsAgree, ReceiverConstants, QueueLenAssumption DEF Known, TypeOK
  <2>2. RP!NumIn(rxMailbox, RP!PacketTypes) < 1
    BY <2>1, SameCardinality, SameReceiverParts
  <2>3. RP!NumIn(rxMailbox, RP!PacketTypes) \in Nat
    BY <1>1, RP!NumInType, ReceiverConstants, QueueLenAssumption
  <2> QED
    BY <1>1, <2>2, <2>3, PacketsCounted
<1>4. \A k : ~Mail(rxMailbox, "PAYLOAD", k) /\ ~Mail(rxMailbox, "RESP", k) /\ ~Before(rxMailbox, k)
  <2>1. ~RP!Holds(rxMailbox, "PAYLOAD") /\ ~RP!Holds(rxMailbox, "RESP")
    BY <1>1, <1>3, PacketsCounted
  <2>2. \A k : ~Before(rxMailbox, k)
    BY <2>1 DEF Before, RP!Holds
  <2> QED
    BY <2>1, <2>2, MailHolds
<1> HIDE DEF m
<1>5. /\ \A u, k : Mail(mb, u, k) <=> Mail(rxMailbox, u, k) \/ (m.type = u /\ m.val = k)
      /\ \A k : Before(mb, k) <=>
                  Before(rxMailbox, k) \/ (m.type = "EXPECTATION" /\ Mail(rxMailbox, "PAYLOAD", k))
  BY <1>1, <1>2, MailAppend
<1>6. Pend(mb) <=> Pend(rxMailbox)
  BY <1>1, <1>2, RP!HoldsAppend, ReceiverConstants, QueueLenAssumption DEF Pend
<1>7. PacketsIn(mb) = 1
  BY <1>1, <1>2, <1>3, PacketsCounted
<1>8. \A u \in {"PAYLOAD", "RESP"} : \A k : Mail(mb, u, k) <=> u = t /\ k = v
  BY <1>2, <1>4, <1>5
<1>9. \A k : ~Before(mb, k)
  BY <1>4, <1>5
<1> QED
  BY <1>3, <1>4, <1>6, <1>7, <1>8, <1>9 DEF m

\* A timer's message.
LEMMA TimerPosted ==
  ASSUME Known, NEW t \in {"EXPECTATION", "INTEREST"}
  PROVE  LET mb == Append(rxMailbox, R!Msg(t, 0))
         IN  /\ t = "INTEREST" => SameMail(rxMailbox, mb)
             /\ t = "EXPECTATION" =>
                  /\ \A u \in {"PAYLOAD", "RESP"} : \A k : Mail(mb, u, k) <=> Mail(rxMailbox, u, k)
                  /\ PacketsIn(mb) = PacketsIn(rxMailbox)
                  /\ Pend(mb)
                  /\ \A k : Before(mb, k) <=> Before(rxMailbox, k) \/ Mail(rxMailbox, "PAYLOAD", k)
<1> DEFINE m == R!Msg(t, 0)
           mb == Append(rxMailbox, m)
<1>1. rxMailbox \in Seq(RP!Message)
  BY KnownSequences
<1>2. m \in RP!Message /\ m.type = t
  BY DEF R!Msg, RP!Message
<1> HIDE DEF m
<1>3. t = "INTEREST" => SameMail(rxMailbox, mb)
  BY <1>1, <1>2, PlainAppend
<1>4. ASSUME t = "EXPECTATION"
      PROVE  /\ \A u \in {"PAYLOAD", "RESP"} : \A k : Mail(mb, u, k) <=> Mail(rxMailbox, u, k)
             /\ PacketsIn(mb) = PacketsIn(rxMailbox)
             /\ Pend(mb)
             /\ \A k : Before(mb, k) <=> Before(rxMailbox, k) \/ Mail(rxMailbox, "PAYLOAD", k)
  <2>1. /\ \A u, k : Mail(mb, u, k) <=> Mail(rxMailbox, u, k) \/ (m.type = u /\ m.val = k)
        /\ \A k : Before(mb, k) <=>
                    Before(rxMailbox, k) \/ (m.type = "EXPECTATION" /\ Mail(rxMailbox, "PAYLOAD", k))
    BY <1>1, <1>2, MailAppend
  <2>2. Pend(mb)
    BY <1>1, <1>2, <1>4, RP!HoldsAppend, ReceiverConstants, QueueLenAssumption DEF Pend
  <2>3. PacketsIn(mb) = PacketsIn(rxMailbox)
    BY <1>1, <1>2, <1>4, PacketsCounted
  <2> QED
    BY <1>2, <1>4, <2>1, <2>2, <2>3
<1> QED
  BY <1>3, <1>4 DEF m

-----------------------------------------------------------------------------
(* What else is true of a transfer: nothing of it before the first payload;  *)
(* what is asked for has been sent, or is behind the sender's last chunk.    *)

IdleInv ==
  rxState = "IDLE" =>
    /\ rxResults = RP!CleanResults /\ rxQueue = <<>> /\ rxAsked = {}
    /\ rxExpectationSeqNo = 0 /\ ~rxExpectationTimer /\ ~rxInterestTimer
    /\ \A i \in DOMAIN rxMailbox : rxMailbox[i].type = "PAYLOAD"

\* The chunks that may be asked for.
Due ==
  {k \in 0..NumPkts - 1 :
     k <= Last \/ AllSent \/ \E p \in Chunk : k <= p /\ Coming(rxMailbox, down, p)}

\* No payload as late as k will come any more.
Past(k) == AllSent /\ \A p \in Chunk : Coming(rxMailbox, down, p) => p < k

\* An answer k is on its way, with no payload before it that is as late.
Ahead(air, k) ==
  \E i \in DOMAIN air :
    /\ air[i].type = "RESP" /\ air[i].seq = k
    /\ \A j \in DOMAIN air : j < i /\ air[j].type = "PAYLOAD" => air[j].seq < k

\* What is answered is not sent again: no payload is a duplicate.
Ordered ==
  /\ rxExpectationSeqNo <= NumPkts
  /\ rxAsked \subseteq Due /\ rxQueue \in Seq(Due)
  /\ \A k \in RP!Marked(rxResults) : k <= Last \/ Past(k)
  /\ \A k \in Chunk : Mail(rxMailbox, "RESP", k) => k < NumPkts /\ (k <= Last \/ Past(k))
  /\ \A k \in Chunk : Ahead(down, k) =>
       \/ k <= Last
       \/ \E p \in Chunk : k <= p /\ Mail(rxMailbox, "PAYLOAD", p)
       \/ AllSent /\ \A p \in Chunk : Air(down, "PAYLOAD", p) => p < k

OrderInv == rxState = "RECEIVING" => Ordered

\* The counter stands at the number of chunks marked, and the thread stops
\* when that is all.
Tallied ==
  /\ RP!Marked(rxResults) \subseteq 0..NumPkts - 1
  /\ rxResults.unique = RP!Cardinality(RP!Marked(rxResults))
  /\ RP!Holds(rxMailbox, "STOP") => rxResults.unique = NumPkts

MarkInv == rxState = "RECEIVING" => Tallied

-----------------------------------------------------------------------------
(* The pace.  The expectation never runs more than one chunk ahead: for the  *)
(* next one, the timer would have to outlast more packets than may be lost   *)
(* and are in the air.  L is a chunk that came or comes; own, packets in the *)
(* air that the sender sent after the timer was set; front, where the        *)
(* receiver will be when the timer's message is handled.                     *)

\* How far the expectation runs ahead of L, when all messages are handled.
Early(L, front) ==
  IF ~Pend(rxMailbox) THEN rxExpectationSeqNo - L
  ELSE IF rxExpectationSeqNo < front THEN front + 1 - L
  ELSE rxExpectationSeqNo + 1 - L

\* Packets sent since the timer was set that neither came nor come.
Unheard(own) ==
  IF rxExpectationTimer /\ silence > own + PacketsIn(rxMailbox)
  THEN silence - own - PacketsIn(rxMailbox) ELSE 0

Paced(L, own, front) ==
  /\ L = Last \/ Coming(rxMailbox, down, L)
  /\ front = Last \/ Before(rxMailbox, front)
  /\ \A k \in Chunk : Before(rxMailbox, k) => front = k
  /\ own <= Len(down) /\ own + SP!StepsWaiting <= MaxInFlight
  /\ Early(L, front) <= 1
  /\ Early(L, front) = 1 => Unheard(own) <= lost

Open == rxState = "RECEIVING" /\ ~AllSent

PaceInv ==
  Open => \E L \in -1..NumPkts, own \in 0..MaxInFlight, front \in -1..NumPkts :
            Paced(L, own, front)

\* An answer at the end of the air has all payloads before it.
LEMMA AheadAppend ==
  ASSUME NEW A, NEW air \in Seq(A), NEW p \in A, NEW k, Ahead(Append(air, p), k)
  PROVE  \/ Ahead(air, k)
         \/ /\ p.type = "RESP" /\ p.seq = k
            /\ \A q : Air(air, "PAYLOAD", q) => q < k
<1>1. /\ \A i \in DOMAIN air : /\ i \in DOMAIN Append(air, p) /\ Append(air, p)[i] = air[i]
                               /\ i \in Nat /\ i < Len(air) + 1
      /\ \A i \in DOMAIN Append(air, p) : i \in DOMAIN air \/ i = Len(air) + 1
      /\ Append(air, p)[Len(air) + 1] = p
  BY AppendPlaces
<1> DEFINE longer == Append(air, p)
<1>2. PICK i \in DOMAIN longer :
         /\ longer[i].type = "RESP" /\ longer[i].seq = k
         /\ \A j \in DOMAIN longer : j < i /\ longer[j].type = "PAYLOAD" => longer[j].seq < k
  BY DEF Ahead
<1> HIDE DEF longer
<1>3. CASE i \in DOMAIN air
  BY <1>1, <1>2, <1>3 DEF Ahead, longer
<1>4. CASE i = Len(air) + 1
  BY <1>1, <1>2, <1>4 DEF Air, longer
<1> QED
  BY <1>1, <1>3, <1>4 DEF longer

\* An answer ahead of the rest was ahead of all, but for the packet taken.
LEMMA AheadTail ==
  ASSUME NEW A, NEW air \in Seq(A), air # <<>>
  PROVE  /\ \A k : Ahead(Tail(air), k) =>
               \/ Ahead(air, k)
               \/ Head(air).type = "PAYLOAD" /\ ~(Head(air).seq < k)
         /\ Head(air).type = "RESP" => Ahead(air, Head(air).seq)
<1>1. /\ 1 \in DOMAIN air /\ Head(air) = air[1]
      /\ \A i \in DOMAIN Tail(air) : i \in Nat /\ i + 1 \in DOMAIN air /\ Tail(air)[i] = air[i + 1]
      /\ \A i \in DOMAIN air : i = 1 \/ (i - 1 \in DOMAIN Tail(air) /\ Tail(air)[i - 1] = air[i])
      /\ \A i \in DOMAIN air : i \in Nat /\ 1 <= i
  BY TailPlaces
<1> DEFINE rest == Tail(air)
           head == Head(air)
<1> HIDE DEF rest, head
<1>2. ASSUME NEW k, Ahead(rest, k), head.type = "PAYLOAD" => head.seq < k
      PROVE  Ahead(air, k)
  <2>1. PICK i \in DOMAIN rest :
           /\ rest[i].type = "RESP" /\ rest[i].seq = k
           /\ \A j \in DOMAIN rest : j < i /\ rest[j].type = "PAYLOAD" => rest[j].seq < k
    BY <1>2 DEF Ahead
  <2>2. /\ i \in Nat /\ i + 1 \in DOMAIN air /\ air[i + 1] = rest[i]
    BY <1>1, <2>1 DEF rest
  <2>3. ASSUME NEW j \in DOMAIN air, j < i + 1, air[j].type = "PAYLOAD" PROVE air[j].seq < k
    <3>1. CASE j = 1
      BY <1>1, <1>2, <2>3, <3>1 DEF head
    <3>2. CASE j # 1
      <4>1. j - 1 \in DOMAIN rest /\ rest[j - 1] = air[j] /\ j \in Nat
        BY <1>1, <2>3, <3>2 DEF rest
      <4>2. j - 1 < i
        BY <2>2, <2>3, <4>1
      <4> QED
        BY <2>1, <2>3, <4>1, <4>2
    <3> QED
      BY <3>1, <3>2
  <2> QED
    BY <2>1, <2>2, <2>3 DEF Ahead
<1>3. ASSUME head.type = "RESP" PROVE Ahead(air, head.seq)
  <2>1. \A j \in DOMAIN air : ~(j < 1)
    BY <1>1
  <2> QED
    BY <1>1, <1>3, <2>1 DEF Ahead, head
<1> QED
  BY <1>2, <1>3 DEF rest, head

\* Steps that neither bring a packet nor handle one.
LEMMA PlainMoves ==
  ASSUME Known, SenderInv,
         IntervalTimerFires \/ InterestTimerFires \/ Start \/ RequestArrives \/ UNCHANGED vars
  PROVE  /\ UNCHANGED <<rxState, rxResults, rxQueue, rxAsked, rxExpectationSeqNo, rxExpectationTimer>>
         /\ UNCHANGED <<down, lost, silence, txLast>>
         /\ SameMail(rxMailbox, rxMailbox')
         /\ RP!Holds(rxMailbox', "STOP") => RP!Holds(rxMailbox, "STOP")
         /\ \/ SP!StepsWaiting' = SP!StepsWaiting
            \/ SP!StepsWaiting' \in {0, 1} /\ Len(down) < MaxInFlight
         /\ UNCHANGED rxVars \/ rxInterestTimer
<1>1. SameMail(rxMailbox, rxMailbox)
  BY DEF SameMail
<1>2. CASE IntervalTimerFires
  BY <1>1, <1>2, IntervalPosts DEF rxVars, airVars
<1>3. CASE Start \/ RequestArrives
  <2>1. SP!StepsWaiting' = SP!StepsWaiting /\ UNCHANGED <<txLast, rxVars>>
    BY <1>3, InputsMove
  <2>2. UNCHANGED <<down, lost, silence>>
    BY <1>3 DEF Start, RequestArrives, airVars
  <2> QED
    BY <1>1, <2>1, <2>2 DEF rxVars
<1>4. CASE InterestTimerFires
  <2>1. /\ UNCHANGED <<txVars, airVars, silence>> /\ R!Fired("INTEREST") /\ rxInterestTimer
        /\ UNCHANGED rxExpectationTimer
    BY <1>4 DEF InterestTimerFires, R!InterestTimerFires
  <2>2. /\ UNCHANGED <<rxState, rxResults, rxQueue, rxAsked, rxExpectationSeqNo>>
        /\ rxMailbox' \in {rxMailbox, Append(rxMailbox, R!Msg("INTEREST", 0))}
    BY <2>1 DEF R!Fired, R!Post, R!netVars
  <2>3. SP!StepsWaiting' = SP!StepsWaiting
    BY <2>1 DEF txVars, SP!StepsWaiting
  <2>4. SameMail(rxMailbox, rxMailbox')
    BY <1>1, <2>2, TimerPosted
  <2>5. RP!Holds(rxMailbox', "STOP") => RP!Holds(rxMailbox, "STOP")
    <3>1. rxMailbox \in Seq(RP!Message) /\ R!Msg("INTEREST", 0) \in RP!Message
          /\ R!Msg("INTEREST", 0).type = "INTEREST"
      BY KnownSequences DEF R!Msg, RP!Message
    <3> QED
      BY <2>2, <3>1, RP!HoldsAppend, ReceiverConstants, QueueLenAssumption
  <2> QED
    BY <2>1, <2>2, <2>3, <2>4, <2>5 DEF txVars, airVars
<1>5. CASE UNCHANGED vars
  BY <1>1, <1>5 DEF vars, txVars, rxVars, airVars, SP!StepsWaiting
<1> QED
  BY <1>2, <1>3, <1>4, <1>5

\* Steps of the sender's thread and of the relays.
LEMMA AirMoves ==
  ASSUME Known, SenderInv, SenderStep \/ RelayAnswers
  PROVE  /\ UNCHANGED rxVars
         /\ \/ /\ UNCHANGED <<txLast, down, lost, silence>>
               /\ SP!StepsWaiting' = SP!StepsWaiting \/ rxState # "RECEIVING"
            \/ \E p \in AirPacket(rxAsked) :
                 /\ down' \in {down, Append(down, p)}
                 /\ \/ p = [type |-> "PAYLOAD", seq |-> txLast + 1] /\ txLast' = txLast + 1
                    \/ p.type = "RESP" /\ p.seq \in rxAsked /\ txLast' = txLast
                 /\ \/ /\ SP!StepsWaiting' = SP!StepsWaiting - 1
                       /\ silence' = AtMostSteps(silence + 1)
                       /\ ~AllSent' => lost' = IF down' = down THEN lost + 1
                                               ELSE IF p.type = "PAYLOAD" THEN 0 ELSE lost
                    \/ /\ SP!StepsWaiting' = SP!StepsWaiting /\ UNCHANGED <<silence, lost>>
                       /\ p.type = "RESP"
<1>1. CASE SenderStep
  <2>1. CASE txState = "IDLE" /\ txState' = "SENDING" /\ Head(txMailbox).type = "START"
    <3>1. /\ txLast = -1 /\ rxState # "RECEIVING" /\ S!Thread /\ AirInv /\ UNCHANGED rxVars
      BY <1>1, <2>1 DEF Known, AirInv, FreshInv, SenderInv, SenderStep
    <3>2. txLast' = -1 /\ txSent' = None
      BY <2>1, <3>1, SenderTakes
    <3> QED
      BY <1>1, <3>1, <3>2 DEF SenderStep
  <2>2. CASE Head(txMailbox).type = "SEND_FILE" /\ txState # "IDLE"
    <3>1. /\ SP!StepsWaiting' = SP!StepsWaiting - 1 /\ silence' = AtMostSteps(silence + 1)
          /\ \/ down' = down /\ lost' = IF AllSent' THEN 0 ELSE lost + 1
             \/ /\ down' = Append(down, txSent')
                /\ lost' = IF AllSent' \/ txSent'.type = "PAYLOAD" THEN 0 ELSE lost
          /\ txSent' \in AirPacket(rxAsked)
          /\ \/ /\ txSent' = [type |-> "PAYLOAD", seq |-> txLast + 1]
                /\ txLast' = txLast + 1
             \/ txSent'.type = "RESP" /\ txSent'.seq \in rxAsked /\ txLast' = txLast
      BY <1>1, <2>2, SenderMoves
    <3>2. Append(down, txSent') # down
      <4>1. down \in Seq(AirPacket(Answerable)) /\ txSent' \in AirPacket(Answerable)
        BY <3>1, KnownSequences
      <4>2. Len(Append(down, txSent')) = Len(down) + 1 /\ Len(down) \in Nat
        BY <4>1, AppendProperties
      <4> QED
        BY <4>2
    <3> QED
      BY <1>1, <3>1, <3>2 DEF SenderStep
  <2>3. CASE Head(txMailbox).type = "BULK_REQ" /\ txState # "IDLE"
    BY <1>1, <2>3, SenderMoves
  <2> QED
    BY <1>1, <2>1, <2>2, <2>3, SenderMoves
<1>2. CASE RelayAnswers
  <2> DEFINE p == [type |-> "RESP", seq |-> Head(relayQueue)]
  <2>1. /\ relayQueue # <<>> /\ down' \in {down, Append(down, p)}
        /\ UNCHANGED <<txVars, rxVars, silence, lost>>
    BY <1>2 DEF RelayAnswers, RelaySends, Transmit
  <2>2. Head(relayQueue) \in rxAsked
    BY <2>1, Taken DEF Known, AirInv, RequestsInv
  <2>3. p \in AirPacket(rxAsked) /\ p.type = "RESP" /\ p.seq \in rxAsked
    BY <2>2 DEF AirPacket
  <2>4. SP!StepsWaiting' = SP!StepsWaiting /\ txLast' = txLast
    BY <2>1 DEF txVars, SP!StepsWaiting
  <2> QED
    BY <2>1, <2>3, <2>4
<1> QED
  BY <1>1, <1>2

\* A packet reaches a receiver that has not stopped.
LEMMA ArrivalMoves ==
  ASSUME Known, PacketArrives, rxState # "STOPPED"
  PROVE  /\ UNCHANGED <<rxState, rxResults, rxQueue, rxAsked, rxExpectationSeqNo, rxExpectationTimer,
                        rxInterestTimer>>
         /\ UNCHANGED <<lost, silence, txLast>> /\ SP!StepsWaiting' = SP!StepsWaiting
         /\ down # <<>> /\ down' = Tail(down)
         /\ Head(down).type \in {"PAYLOAD", "RESP"} /\ Head(down).seq \in Chunk
         /\ Head(down).type = "RESP" => rxAsked # {} /\ (~swapped => Head(down).seq \in rxAsked)
         /\ rxMailbox' = Append(rxMailbox, R!Msg(Head(down).type, Head(down).seq))
         /\ PacketsIn(rxMailbox) = 0 /\ PacketsIn(rxMailbox') = 1
         /\ \A k : /\ ~Mail(rxMailbox, "PAYLOAD", k) /\ ~Mail(rxMailbox, "RESP", k)
                   /\ ~Before(rxMailbox, k) /\ ~Before(rxMailbox', k)
         /\ \A u \in {"PAYLOAD", "RESP"} : \A k :
              Mail(rxMailbox', u, k) <=> u = Head(down).type /\ k = Head(down).seq
         /\ Pend(rxMailbox') <=> Pend(rxMailbox)
         /\ RP!Holds(rxMailbox', "STOP") => RP!Holds(rxMailbox, "STOP")
<1> DEFINE p == Head(down)
<1>1. /\ down # <<>> /\ down' = Tail(down) /\ R!Deliver(p.type, p.seq) /\ UNCHANGED rxAsked
      /\ UNCHANGED <<txVars, silence, lost>>
  BY DEF PacketArrives, R!Alive
<1>2. p \in AirPacket(Answerable) /\ Answerable \subseteq Chunk
  BY <1>1, KnownSequences, Taken
<1>3. /\ p.type \in {"PAYLOAD", "RESP"} /\ p.seq \in Chunk
      /\ p.type = "RESP" => rxAsked # {} /\ (~swapped => p.seq \in rxAsked)
  <2>1. /\ p.type \in {"PAYLOAD", "RESP"} /\ p.seq \in Chunk
        /\ p.type = "RESP" => p.seq \in Answerable
    BY <1>2 DEF AirPacket
  <2> QED
    BY <2>1, KnownSequences
<1>4. /\ R!Cardinality(R!Packets) < 1 /\ rxMailbox' = Append(rxMailbox, R!Msg(p.type, p.seq))
      /\ UNCHANGED <<rxState, rxResults, rxQueue, rxExpectationSeqNo, rxExpectationTimer,
                     rxInterestTimer>>
  BY <1>1 DEF R!Deliver
<1>5. SP!StepsWaiting' = SP!StepsWaiting /\ txLast' = txLast
  BY <1>1 DEF txVars, SP!StepsWaiting
<1>6. RP!Holds(rxMailbox', "STOP") => RP!Holds(rxMailbox, "STOP")
  <2>1. rxMailbox \in Seq(RP!Message) /\ R!Msg(p.type, p.seq) \in RP!Message
        /\ R!Msg(p.type, p.seq).type # "STOP"
    BY <1>3, KnownSequences DEF R!Msg, RP!Message, RP!Chunk, Chunk
  <2> QED
    BY <1>4, <2>1, RP!HoldsAppend, ReceiverConstants, QueueLenAssumption
<1> HIDE DEF p
<1>7. /\ PacketsIn(rxMailbox) = 0 /\ PacketsIn(rxMailbox') = 1
      /\ \A k : /\ ~Mail(rxMailbox, "PAYLOAD", k) /\ ~Mail(rxMailbox, "RESP", k)
                /\ ~Before(rxMailbox, k) /\ ~Before(rxMailbox', k)
      /\ \A u \in {"PAYLOAD", "RESP"} : \A k : Mail(rxMailbox', u, k) <=> u = p.type /\ k = p.seq
      /\ Pend(rxMailbox') <=> Pend(rxMailbox)
  BY <1>3, <1>4, PacketPosted
<1> QED
  BY <1>1, <1>3, <1>4, <1>5, <1>6, <1>7 DEF p

\* The expectation timer runs out: nothing but its message is new.
LEMMA ExpectationMoves ==
  ASSUME Known, SenderInv, ExpectationTimerFires
  PROVE  /\ UNCHANGED <<rxState, rxResults, rxQueue, rxAsked, rxExpectationSeqNo>>
         /\ UNCHANGED <<down, lost, silence, txLast>> /\ SP!StepsWaiting' = SP!StepsWaiting
         /\ rxExpectationTimer /\ ~rxExpectationTimer' /\ ~Pend(rxMailbox)
         /\ RP!Holds(rxMailbox', "STOP") => RP!Holds(rxMailbox, "STOP")
         /\ \/ rxMailbox' = rxMailbox
            \/ /\ \A u \in {"PAYLOAD", "RESP"} : \A k : Mail(rxMailbox', u, k) <=> Mail(rxMailbox, u, k)
               /\ PacketsIn(rxMailbox') = PacketsIn(rxMailbox) /\ Pend(rxMailbox')
               /\ \A k : Before(rxMailbox', k) <=> Before(rxMailbox, k) \/ Mail(rxMailbox, "PAYLOAD", k)
         /\ Open => silence >= Steps
<1>1. /\ silence >= Steps \/ (SenderRests /\ down = <<>>)
      /\ R!ExpectationTimerFires /\ UNCHANGED <<txVars, airVars, silence>>
  BY DEF ExpectationTimerFires
<1>2. /\ rxExpectationTimer /\ R!Cardinality(R!Pending("EXPECTATION")) < 1
      /\ rxExpectationTimer' = FALSE /\ R!Fired("EXPECTATION")
  BY <1>1 DEF R!ExpectationTimerFires
<1>3. /\ rxMailbox' \in {rxMailbox, Append(rxMailbox, R!Msg("EXPECTATION", 0))}
      /\ UNCHANGED <<rxState, rxResults, rxQueue, rxAsked, rxExpectationSeqNo>>
  BY <1>2 DEF R!Fired, R!Post, R!netVars
<1>4. ~Pend(rxMailbox)
  <2>1. rxMailbox \in Seq(RP!Message)
    BY KnownSequences
  <2>2. RP!Cardinality(RP!Pending("EXPECTATION")) = RP!NumIn(rxMailbox, {"EXPECTATION"})
    BY SameReceiver, RP!CountsAgree, ReceiverConstants, QueueLenAssumption DEF Known, TypeOK
  <2>3. RP!NumIn(rxMailbox, {"EXPECTATION"}) < 1
    BY <1>2, <2>2, SameCardinality, SameReceiverParts
  <2>4. RP!NumIn(rxMailbox, {"EXPECTATION"}) \in Nat
    BY <2>1, RP!NumInType, ReceiverConstants, QueueLenAssumption
  <2>5. RP!NumIn(rxMailbox, {"EXPECTATION"}) = 0
    BY <2>3, <2>4
  <2> QED
    BY <2>1, <2>5, RP!NumInHolds, ReceiverConstants, QueueLenAssumption DEF Pend
<1>5. \/ rxMailbox' = rxMailbox
      \/ /\ \A u \in {"PAYLOAD", "RESP"} : \A k : Mail(rxMailbox', u, k) <=> Mail(rxMailbox, u, k)
         /\ PacketsIn(rxMailbox') = PacketsIn(rxMailbox) /\ Pend(rxMailbox')
         /\ \A k : Before(rxMailbox', k) <=> Before(rxMailbox, k) \/ Mail(rxMailbox, "PAYLOAD", k)
  BY <1>3, TimerPosted
<1>6. RP!Holds(rxMailbox', "STOP") => RP!Holds(rxMailbox, "STOP")
  <2>1. rxMailbox \in Seq(RP!Message) /\ R!Msg("EXPECTATION", 0) \in RP!Message
        /\ R!Msg("EXPECTATION", 0).type = "EXPECTATION"
    BY KnownSequences DEF R!Msg, RP!Message
  <2> QED
    BY <1>3, <2>1, RP!HoldsAppend, ReceiverConstants, QueueLenAssumption
<1>7. ASSUME Open PROVE silence >= Steps
  <2>1. txState = "SENDING"
    <3>1. txState \in {"STOPPED", "IDLE", "SENDING", "WAITING"}
      BY DEF Known, TypeOK, S!TypeOK
    <3> QED
      BY <1>7, <3>1 DEF SenderInv, Open, AllSent
  <2>2. txTimer # "off" \/ SP!Holds(txMailbox, "SEND_FILE")
    BY <2>1 DEF Known, SP!WorkInv, SP!WorkLeft, SP!TickingInv, SP!MailboxSuffices
  <2>3. ~SenderRests
    BY <2>2 DEF SenderRests, S!Pending, SP!Holds
  <2> QED
    BY <1>1, <2>3
<1>8. UNCHANGED <<down, lost, silence, txLast>> /\ SP!StepsWaiting' = SP!StepsWaiting
  BY <1>1 DEF txVars, airVars, SP!StepsWaiting
<1> QED
  BY <1>2, <1>3, <1>4, <1>5, <1>6, <1>7, <1>8

-----------------------------------------------------------------------------
(* The receiver's handlers.                                                  *)

\* What a step of the receiver leaves alone, whichever handler it is.
LEMMA ReceiverMoves ==
  ASSUME Known, ReceiverStep
  PROVE  /\ UNCHANGED <<txLast, down>> /\ SP!StepsWaiting' = SP!StepsWaiting
         /\ rxMailbox # <<>> /\ Head(rxMailbox) \in R!Message
         /\ rxState \in {"IDLE", "RECEIVING"}
         /\ lost' = lost
         /\ rxConfig = [bidir |-> TRUE, numPkts |-> NumPkts]
         /\ \/ R!HandlePayload \/ R!HandleResp \/ R!HandleOther \/ R!HandleInterestTimeout
            \/ R!HandleExpectationTimeout \/ R!HandleStop
<1>1. R!Thread /\ UNCHANGED <<txVars, down>>
  BY DEF ReceiverStep
<1>2. UNCHANGED <<txLast, down>> /\ SP!StepsWaiting' = SP!StepsWaiting
  BY <1>1 DEF txVars, SP!StepsWaiting
<1>3. rxMailbox # <<>> /\ R!Alive
  BY <1>1 DEF R!Thread, R!HandlePayload, R!HandleResp, R!HandleConfigSync, R!HandleOther,
              R!HandleInterestTimeout, R!HandleExpectationTimeout, R!HandleStop, R!Took
<1>4. Head(rxMailbox) \in R!Message
  BY <1>3, KnownSequences, Taken
<1>5. rxState \in {"IDLE", "RECEIVING"}
  BY <1>3 DEF Known, TypeOK, R!TypeOK, R!Alive
<1>6. lost' = lost
  BY DEF ReceiverStep
<1>7. ~R!HandleConfigSync
  BY <1>4 DEF R!HandleConfigSync, R!Took, R!Message
<1> QED
  BY <1>1, <1>2, <1>3, <1>4, <1>5, <1>6, <1>7 DEF R!Thread, Known, TheConfig

\* A handler that may tell the thread to stop.
LEMMA FinishMoves ==
  ASSUME Known, rxMailbox # <<>>, NEW r, R!FinishWith(r)
  PROVE  /\ rxResults' = r
         /\ rxMailbox' \in {Tail(rxMailbox), Append(Tail(rxMailbox), R!Stop)}
         /\ RP!Holds(rxMailbox', "STOP") => RP!Holds(rxMailbox, "STOP") \/ r.unique = NumPkts
<1>1. /\ rxResults' = r
      /\ rxMailbox' \in {Tail(rxMailbox), Append(Tail(rxMailbox), R!Stop)}
      /\ rxMailbox' = Tail(rxMailbox) \/ R!Done(r)
  BY DEF R!FinishWith, R!Post
<1>2. R!Done(r) => r.unique = NumPkts
  BY DEF R!Done, Known, TheConfig
<1>3. RP!Holds(Tail(rxMailbox), "STOP") => RP!Holds(rxMailbox, "STOP")
  BY KnownSequences, RP!TailHolds, ReceiverConstants, QueueLenAssumption
<1> QED
  BY <1>1, <1>2, <1>3

\* The chunks that a payload left out.
LEMMA GapListed ==
  ASSUME NEW last \in Int, NEW k \in Int, last < k - 1
  PROVE  [i \in 1..k - last - 1 |-> last + i] \in Seq({i \in Int : last < i /\ i < k})
<1>1. k - last - 1 \in Nat
  OBVIOUS
<1>2. \A i \in 1..k - last - 1 : last + i \in {j \in Int : last < j /\ j < k}
  OBVIOUS
<1> QED
  BY <1>1, <1>2

\* Handling a payload: it is later than all that came, and new.
LEMMA PayloadMoves ==
  ASSUME Known, IdleInv, OrderInv, ReceiverStep, R!HandlePayload
  PROVE  LET k == Head(rxMailbox).val
         IN  /\ rxMailbox # <<>> /\ Head(rxMailbox).type = "PAYLOAD"
             /\ k \in Chunk /\ k < NumPkts /\ Mail(rxMailbox, "PAYLOAD", k)
             /\ Last = rxResults.last /\ Last < k
             /\ rxState' = "RECEIVING" /\ rxResults'.last = k
             /\ silence' = 0 /\ rxExpectationTimer' /\ lost' = lost
             /\ UNCHANGED <<rxAsked, rxExpectationSeqNo>>
             /\ \/ rxQueue' = rxQueue
                \/ /\ Last + 1 < k
                   /\ \E gap \in Seq({i \in Int : Last < i /\ i < k}) :
                        rxQueue' = RP!EnqueueAll(rxQueue, gap)
             /\ k \notin RP!Marked(rxResults)
             /\ RP!Marked(rxResults') = RP!Marked(rxResults) \union {k}
             /\ rxResults'.unique = rxResults.unique + 1
             /\ rxMailbox' \in {Tail(rxMailbox), Append(Tail(rxMailbox), R!Stop)}
             /\ RP!Holds(rxMailbox', "STOP") =>
                  RP!Holds(rxMailbox, "STOP") \/ rxResults'.unique = NumPkts
<1> DEFINE k == Head(rxMailbox).val
           r == rxResults
<1>1. /\ rxMailbox # <<>> /\ Head(rxMailbox).type = "PAYLOAD" /\ rxState \in {"IDLE", "RECEIVING"}
      /\ rxConfig = [bidir |-> TRUE, numPkts |-> NumPkts]
  BY ReceiverMoves DEF R!HandlePayload, R!Took
<1>2. r = (IF rxState = "IDLE" THEN R!CleanResults ELSE rxResults)
  BY SameReceiverParts DEF IdleInv
<1>3. Last = r.last
  BY <1>1, <1>2 DEF Last, R!CleanResults
<1>4. /\ Mail(rxMailbox, "PAYLOAD", k)
      /\ k \in Int /\ Last < k /\ k < NumPkts /\ k \in Chunk /\ Last \in Int /\ -1 <= Last
  <2>1. Mail(rxMailbox, "PAYLOAD", k)
    BY <1>1, KnownSequences, MailTail
  <2>2. k \in Int /\ Last < k /\ k < NumPkts /\ -1 <= Last /\ Last \in Int /\ NumPkts \in Nat
    BY <2>1, KnownPayloads, KnownNumbers
  <2>3. k \in Chunk
    BY <2>2 DEF Chunk
  <2> QED
    BY <2>1, <2>2, <2>3
<1>5. r \in RP!Results /\ r.status \in [Chunk -> {"NOT_RECEIVED", "REQUESTED", "RECEIVED"}]
  BY KnownNumbers, SameReceiverParts DEF RP!Results
<1>6. \A i \in RP!Marked(r) : i <= Last \/ (AllSent /\ k < i)
  <2>1. CASE rxState = "IDLE"
    BY <2>1 DEF RP!Marked, IdleInv, RP!CleanResults
  <2>2. CASE rxState = "RECEIVING"
    BY <1>4, <2>2 DEF OrderInv, Ordered, Past, Coming
  <2> QED
    BY <1>1, <2>1, <2>2
<1>7. k \notin RP!Marked(r)
  BY <1>4, <1>6
<1>8. \/ /\ r.last = k - 1 /\ R!FinishWith(R!InOrder(r, k)) /\ rxQueue' = rxQueue
      \/ /\ r.last < k - 1 /\ R!FinishWith(R!AfterGap(r, k))
         /\ rxQueue' = R!EnqueueAll(rxQueue, [i \in 1..k - r.last - 1 |-> r.last + i])
  <2>1. ~(r.status[k] = "RECEIVED") /\ ~(r.last >= k)
    BY <1>3, <1>4, <1>7, SameReceiverParts DEF RP!Marked
  <2> DEFINE r2 == IF rxState = "IDLE" THEN R!CleanResults ELSE rxResults
  <2>2. \/ /\ r2.last = k - 1 /\ R!FinishWith(R!InOrder(r2, k)) /\ rxQueue' = rxQueue
        \/ r2.status[k] = "RECEIVED" \/ r2.last >= k
        \/ /\ r2.last < k - 1 /\ R!FinishWith(R!AfterGap(r2, k))
           /\ rxQueue' = IF rxConfig.bidir
                         THEN R!EnqueueAll(rxQueue, [i \in 1..k - r2.last - 1 |-> r2.last + i])
                         ELSE rxQueue
    BY DEF R!HandlePayload
  <2>3. r2 = r
    BY <1>2
  <2>4. rxConfig.bidir
    BY <1>1
  <2> HIDE DEF r2
  <2> QED
    BY <2>1, <2>2, <2>3, <2>4
<1>9. /\ rxState' = "RECEIVING" /\ UNCHANGED <<rxAsked, rxExpectationSeqNo>> /\ lost' = lost
      /\ rxExpectationTimer'
  <2>1. rxExpectationTimer' = R!Restarted \/ (r.status[k] = "RECEIVED" \/ r.last >= k)
    BY <1>2 DEF R!HandlePayload
  <2>2. rxExpectationTimer' = R!Restarted
    BY <1>3, <1>4, <1>7, <2>1, SameReceiverParts DEF RP!Marked
  <2>3. R!Restarted
    BY <1>1 DEF R!Restarted
  <2>4. rxState' = "RECEIVING" /\ UNCHANGED <<rxAsked, rxExpectationSeqNo>> /\ rxSent' = <<>>
    BY DEF R!HandlePayload, R!netVars
  <2> QED
    BY <2>2, <2>3, <2>4 DEF ReceiverStep
<1> DEFINE marks == [i \in Chunk |-> IF r.last < i /\ i < k THEN "REQUESTED" ELSE r.status[i]]
<1>10. \/ /\ r.last = k - 1 /\ R!FinishWith(R!Counted(r, k, k, r.status)) /\ rxQueue' = rxQueue
       \/ /\ r.last < k - 1 /\ R!FinishWith(R!Counted(r, k, k, marks))
          /\ rxQueue' = R!EnqueueAll(rxQueue, [i \in 1..k - r.last - 1 |-> r.last + i])
  <2>1. R!GapMarked(r, k) = marks
    BY <1>1, SameReceiverParts DEF R!GapMarked
  <2> QED
    BY <1>8, <2>1 DEF R!InOrder, R!AfterGap
<1>11. {i \in Chunk : marks[i] = "RECEIVED"} = RP!Marked(r)
  <2>1. \A i \in Chunk : i \in Int
    BY KnownNumbers DEF Chunk
  <2>2. ASSUME NEW i \in Chunk, r.status[i] = "RECEIVED" PROVE ~(r.last < i /\ i < k)
    BY <1>3, <1>4, <1>6, <2>1, <2>2, SameReceiverParts DEF RP!Marked
  <2> QED
    BY <2>2, SameReceiverParts DEF RP!Marked
<1>12. ASSUME NEW st \in [Chunk -> {"NOT_RECEIVED", "REQUESTED", "RECEIVED"}],
              {i \in Chunk : st[i] = "RECEIVED"} = RP!Marked(r),
              rxResults' = R!Counted(r, k, k, st)
       PROVE  /\ RP!Marked(rxResults') = RP!Marked(r) \union {k}
              /\ rxResults'.unique = r.unique + 1 /\ rxResults'.last = k
  <2>1. /\ rxResults'.status = [st EXCEPT ![k] = "RECEIVED"]
        /\ rxResults'.unique = r.unique + 1 /\ rxResults'.last = k
    BY <1>12 DEF R!Counted
  <2>2. RP!Marked(rxResults') = {i \in Chunk : st[i] = "RECEIVED"} \union {k}
    BY <1>4, <2>1, SameReceiverParts DEF RP!Marked
  <2> QED
    BY <1>12, <2>1, <2>2
<1>13. /\ RP!Marked(rxResults') = RP!Marked(r) \union {k}
       /\ rxResults'.unique = r.unique + 1 /\ rxResults'.last = k
       /\ rxMailbox' \in {Tail(rxMailbox), Append(Tail(rxMailbox), R!Stop)}
       /\ RP!Holds(rxMailbox', "STOP") =>
            RP!Holds(rxMailbox, "STOP") \/ rxResults'.unique = NumPkts
  <2>1. CASE R!FinishWith(R!Counted(r, k, k, r.status))
    <3>1. rxResults' = R!Counted(r, k, k, r.status)
      BY <1>1, <2>1, FinishMoves
    <3>2. {i \in Chunk : r.status[i] = "RECEIVED"} = RP!Marked(r)
      BY SameReceiverParts DEF RP!Marked
    <3> QED
      BY <1>1, <1>5, <1>12, <2>1, <3>1, <3>2, FinishMoves
  <2>2. CASE R!FinishWith(R!Counted(r, k, k, marks))
    <3>1. rxResults' = R!Counted(r, k, k, marks)
      BY <1>1, <2>2, FinishMoves
    <3>2. marks \in [Chunk -> {"NOT_RECEIVED", "REQUESTED", "RECEIVED"}]
      BY <1>5
    <3> HIDE DEF marks
    <3> QED
      BY <1>1, <1>11, <1>12, <2>2, <3>1, <3>2, FinishMoves
  <2> QED
    BY <1>10, <2>1, <2>2
<1>14. silence' = 0
  <2>1. rxResults'.last # rxResults.last
    BY <1>3, <1>4, <1>13
  <2> QED
    BY <2>1 DEF ReceiverStep, ExpectationSet
<1>15. \/ rxQueue' = rxQueue
       \/ /\ Last + 1 < k
          /\ \E gap \in Seq({i \in Int : Last < i /\ i < k}) : rxQueue' = RP!EnqueueAll(rxQueue, gap)
  <2>1. CASE rxQueue' = rxQueue
    BY <2>1
  <2>2. CASE /\ r.last < k - 1
             /\ rxQueue' = R!EnqueueAll(rxQueue, [i \in 1..k - r.last - 1 |-> r.last + i])
    <3> DEFINE gap == [i \in 1..k - Last - 1 |-> Last + i]
    <3>1. Last < k - 1 /\ gap \in Seq({i \in Int : Last < i /\ i < k})
      BY <1>3, <1>4, <2>2, GapListed
    <3>2. rxQueue' = RP!EnqueueAll(rxQueue, gap)
      BY <1>3, <2>2, SameReceiverParts
    <3>3. Last + 1 < k
      BY <1>4, <3>1
    <3> HIDE DEF gap
    <3> QED
      BY <3>1, <3>2, <3>3
  <2> QED
    BY <1>10, <2>1, <2>2
<1> HIDE DEF marks
<1> QED
  BY <1>1, <1>3, <1>4, <1>7, <1>9, <1>13, <1>14, <1>15

\* Handling an answer: counted if it is new.
LEMMA RespMoves ==
  ASSUME Known, IdleInv, ReceiverStep, R!HandleResp
  PROVE  LET k == Head(rxMailbox).val
         IN  /\ rxMailbox # <<>> /\ Head(rxMailbox).type = "RESP" /\ k \in Chunk
             /\ Mail(rxMailbox, "RESP", k)
             /\ rxState = "RECEIVING" /\ rxState' = rxState
             /\ rxResults'.last = rxResults.last
             /\ silence' = 0 /\ lost' = lost
             /\ UNCHANGED <<rxAsked, rxExpectationSeqNo, rxQueue>>
             /\ \/ rxResults' = rxResults
                \/ /\ k \notin RP!Marked(rxResults)
                   /\ RP!Marked(rxResults') = RP!Marked(rxResults) \union {k}
                   /\ rxResults'.unique = rxResults.unique + 1
             /\ rxMailbox' \in {Tail(rxMailbox), Append(Tail(rxMailbox), R!Stop)}
             /\ RP!Holds(rxMailbox', "STOP") =>
                  RP!Holds(rxMailbox, "STOP") \/ rxResults'.unique = NumPkts
<1> DEFINE k == Head(rxMailbox).val
<1>1. /\ rxMailbox # <<>> /\ Head(rxMailbox).type = "RESP" /\ rxState \in {"IDLE", "RECEIVING"}
      /\ Head(rxMailbox) \in R!Message
  BY ReceiverMoves DEF R!HandleResp, R!Took
<1>2. k \in Chunk
  BY <1>1, SameReceiverParts DEF R!Message
<1>3. Mail(rxMailbox, "RESP", k)
  BY <1>1, KnownSequences, MailTail
<1>4. rxState = "RECEIVING"
  BY <1>1, <1>3 DEF IdleInv, Mail
<1>5. /\ R!FinishWith(IF rxResults.status[k] = "RECEIVED" THEN rxResults
                      ELSE R!Counted(rxResults, k, rxResults.last, rxResults.status))
      /\ UNCHANGED <<rxState, rxQueue, rxExpectationSeqNo, rxAsked>> /\ rxSent' = <<>>
  BY <1>4 DEF R!HandleResp, R!netVars
<1>6. silence' = 0 /\ lost' = lost
  BY <1>5 DEF ReceiverStep, ExpectationSet
<1>7. CASE rxResults.status[k] = "RECEIVED"
  <2>1. R!FinishWith(rxResults)
    BY <1>5, <1>7
  <2>2. rxResults' = rxResults
    BY <1>1, <2>1, FinishMoves
  <2> QED
    BY <1>1, <1>2, <1>3, <1>4, <1>5, <1>6, <2>1, <2>2, FinishMoves
<1>8. CASE rxResults.status[k] # "RECEIVED"
  <2> DEFINE c == R!Counted(rxResults, k, rxResults.last, rxResults.status)
  <2>1. R!FinishWith(c)
    BY <1>5, <1>8
  <2>2. /\ c.last = rxResults.last /\ c.unique = rxResults.unique + 1
        /\ c.status = [rxResults.status EXCEPT ![k] = "RECEIVED"]
    BY DEF R!Counted
  <2> HIDE DEF c
  <2>3. rxResults' = c
    BY <1>1, <2>1, FinishMoves
  <2>4. k \notin RP!Marked(rxResults)
    BY <1>8 DEF RP!Marked
  <2>5. rxResults.status \in [Chunk -> {"NOT_RECEIVED", "REQUESTED", "RECEIVED"}]
    BY KnownNumbers, SameReceiverParts DEF RP!Results
  <2>6. RP!Marked(c) = RP!Marked(rxResults) \union {k}
    BY <1>2, <2>2, <2>5, SameReceiverParts DEF RP!Marked
  <2> QED
    BY <1>1, <1>2, <1>3, <1>4, <1>5, <1>6, <2>1, <2>2, <2>3, <2>4, <2>6, FinishMoves
<1> QED
  BY <1>7, <1>8

\* Sending requests: what was wanted stays so.
LEMMA InterestMoves ==
  ASSUME Known, ReceiverStep, R!HandleInterestTimeout
  PROVE  /\ UNCHANGED <<rxState, rxResults, rxExpectationSeqNo, rxExpectationTimer, silence>>
         /\ SameMail(rxMailbox, rxMailbox')
         /\ Head(rxMailbox).type = "INTEREST" /\ rxMailbox # <<>>
         /\ RP!Holds(rxMailbox', "STOP") => RP!Holds(rxMailbox, "STOP")
         /\ \A A : rxAsked \subseteq A /\ rxQueue \in Seq(A) =>
                     rxAsked' \subseteq A /\ rxQueue' \in Seq(A)
         /\ rxAsked = {} /\ rxQueue = <<>> => rxAsked' = {} /\ rxQueue' = <<>>
<1>1. /\ rxMailbox # <<>> /\ Head(rxMailbox).type = "INTEREST" /\ rxMailbox' = Tail(rxMailbox)
      /\ UNCHANGED <<rxState, rxResults, rxExpectationSeqNo, rxExpectationTimer>>
  BY DEF R!HandleInterestTimeout, R!Took
<1>2. silence' = silence
  BY <1>1 DEF ReceiverStep, ExpectationSet, R!HandlePayload, R!HandleResp,
              R!HandleExpectationTimeout, R!Took
<1>3. SameMail(rxMailbox, rxMailbox')
  BY <1>1, OtherTaken
<1>4. RP!Holds(rxMailbox', "STOP") => RP!Holds(rxMailbox, "STOP")
  BY <1>1, KnownSequences, RP!TailHolds, ReceiverConstants, QueueLenAssumption
<1> DEFINE n == R!Min2(BulkMax, Len(rxQueue))
<1>5. /\ rxQueue' = SubSeq(rxQueue, n + 1, Len(rxQueue))
      /\ rxAsked' = rxAsked \union {rxQueue[i] : i \in 1..n}
  BY DEF R!HandleInterestTimeout
<1>6. n \in 0..Len(rxQueue) /\ Len(rxQueue) \in Nat
  BY KnownSequences, TransferAssumption DEF R!Min2
<1> HIDE DEF n
<1>7. ASSUME NEW A, rxAsked \subseteq A, rxQueue \in Seq(A)
      PROVE  rxAsked' \subseteq A /\ rxQueue' \in Seq(A)
  <2>1. \A i \in 1..Len(rxQueue) : rxQueue[i] \in A
    BY <1>7
  <2>2. \A i \in n + 1..Len(rxQueue) : rxQueue[i] \in A
    BY <1>6, <2>1
  <2>3. SubSeq(rxQueue, n + 1, Len(rxQueue)) \in Seq(A)
    BY <1>6, <2>2, SubSeqProperties
  <2>4. {rxQueue[i] : i \in 1..n} \subseteq A
    BY <1>6, <2>1
  <2> QED
    BY <1>5, <1>7, <2>3, <2>4
<1>8. ASSUME rxAsked = {}, rxQueue = <<>> PROVE rxAsked' = {} /\ rxQueue' = <<>>
  <2>1. Len(rxQueue) = 0
    BY <1>8
  <2>2. n = 0
    BY <1>6, <2>1
  <2>3. SubSeq(rxQueue, n + 1, Len(rxQueue)) = <<>>
    BY <2>1, <2>2, SubSeqEmpty
  <2> QED
    BY <1>5, <1>8, <2>2, <2>3
<1> QED
  BY <1>1, <1>2, <1>3, <1>4, <1>7, <1>8

\* A listing of a set lists its elements.
LEMMA ListingIn ==
  ASSUME NEW A \in SUBSET Chunk, NEW s \in RP!Listing(A) PROVE s \in Seq(A)
<1>1. IsFiniteSet(Chunk)
  BY FS_Interval, TransferAssumption DEF Chunk
<1>2. Cardinality(A) \in Nat /\ RP!Cardinality(A) = Cardinality(A)
  BY <1>1, FS_Subset, FS_CardinalityType, SameCardinality
<1> QED
  BY <1>2 DEF RP!Listing

\* Handling a time-out: the expectation is one further, and what is missing
\* below it is wanted.
LEMMA TimeoutMoves ==
  ASSUME Known, IdleInv, ReceiverStep, R!HandleExpectationTimeout
  PROVE  /\ rxMailbox # <<>> /\ Head(rxMailbox).type = "EXPECTATION"
         /\ rxState = "RECEIVING" /\ UNCHANGED <<rxState, rxResults, rxAsked, lost>>
         /\ rxExpectationSeqNo' = IF rxExpectationSeqNo < rxResults.last THEN rxResults.last + 1
                                  ELSE IF rxExpectationSeqNo < NumPkts THEN rxExpectationSeqNo + 1
                                  ELSE rxExpectationSeqNo
         /\ \E missing \in Seq({i \in Chunk : i < rxExpectationSeqNo'}) :
              rxQueue' = RP!EnqueueAll(rxQueue, missing)
         /\ silence' = (IF rxExpectationTimer THEN silence ELSE 0)
         /\ rxMailbox' \in {Tail(rxMailbox), Append(Tail(rxMailbox), R!Stop)}
         /\ RP!Holds(rxMailbox', "STOP") =>
              RP!Holds(rxMailbox, "STOP") \/ rxResults'.unique = NumPkts
<1>1. /\ rxMailbox # <<>> /\ Head(rxMailbox).type = "EXPECTATION" /\ rxState \in {"IDLE", "RECEIVING"}
      /\ rxConfig = [bidir |-> TRUE, numPkts |-> NumPkts]
  BY ReceiverMoves DEF R!HandleExpectationTimeout, R!Took
<1>2. rxState = "RECEIVING"
  <2>1. RP!Holds(rxMailbox, "EXPECTATION")
    BY <1>1, KnownSequences, RP!TailHolds, ReceiverConstants, QueueLenAssumption
  <2> QED
    BY <1>1, <2>1 DEF IdleInv, RP!Holds
<1>3. /\ R!FinishWith(rxResults) /\ UNCHANGED <<rxState, rxAsked>> /\ rxSent' = <<>>
      /\ rxExpectationSeqNo' = R!NextExpectation
  BY DEF R!HandleExpectationTimeout, R!netVars
<1>4. R!NextExpectation = IF rxExpectationSeqNo < rxResults.last THEN rxResults.last + 1
                          ELSE IF rxExpectationSeqNo < NumPkts THEN rxExpectationSeqNo + 1
                          ELSE rxExpectationSeqNo
  BY <1>1 DEF R!NextExpectation
<1> DEFINE below == {i \in R!Chunk : /\ i < R!NextExpectation
                                     /\ rxResults.status[i] # "RECEIVED"
                                     /\ ~R!IsEnqueued(rxQueue, i)}
           wide == {i \in Chunk : i < rxExpectationSeqNo'}
<1>5. \E missing \in R!Listing(below) : rxQueue' = R!EnqueueAll(rxQueue, missing)
  BY DEF R!HandleExpectationTimeout
<1>6. below \subseteq wide /\ below \in SUBSET Chunk
  BY <1>3, SameReceiverParts
<1> HIDE DEF below, wide
<1>7. PICK missing \in RP!Listing(below) : rxQueue' = RP!EnqueueAll(rxQueue, missing)
  BY <1>5, SameReceiverParts
<1>8. missing \in Seq(wide)
  BY <1>6, <1>7, ListingIn, SeqGrows
<1>9. silence' = (IF rxExpectationTimer THEN silence ELSE 0) /\ lost' = lost
  <2>1. ExpectationSet <=> ~rxExpectationTimer
    BY <1>1 DEF ExpectationSet, R!HandlePayload, R!HandleResp, R!Took
  <2> QED
    BY <1>3, <2>1 DEF ReceiverStep
<1>10. /\ rxResults' = rxResults
       /\ rxMailbox' \in {Tail(rxMailbox), Append(Tail(rxMailbox), R!Stop)}
       /\ RP!Holds(rxMailbox', "STOP") => RP!Holds(rxMailbox, "STOP") \/ rxResults.unique = NumPkts
  BY <1>1, <1>3, FinishMoves
<1> QED
  BY <1>1, <1>2, <1>3, <1>4, <1>7, <1>8, <1>9, <1>10 DEF wide

\* The other handlers: what nobody heeds, and the last message.
LEMMA RestMoves ==
  ASSUME Known, ReceiverStep, R!HandleOther \/ R!HandleStop
  PROVE  /\ UNCHANGED <<rxResults, rxQueue, rxAsked>>
         /\ \/ rxState' = "STOPPED" /\ RP!Holds(rxMailbox, "STOP")
            \/ /\ UNCHANGED <<rxState, rxExpectationSeqNo, rxExpectationTimer, rxInterestTimer>>
               /\ UNCHANGED <<silence, lost>>
               /\ SameMail(rxMailbox, rxMailbox')
               /\ rxMailbox # <<>> /\ Head(rxMailbox).type = "OTHER" /\ rxMailbox' = Tail(rxMailbox)
               /\ RP!Holds(rxMailbox', "STOP") => RP!Holds(rxMailbox, "STOP")
<1>1. CASE R!HandleOther
  <2>1. /\ rxMailbox # <<>> /\ Head(rxMailbox).type = "OTHER" /\ rxMailbox' = Tail(rxMailbox)
        /\ UNCHANGED <<rxState, rxResults, rxQueue, rxAsked, rxExpectationSeqNo, rxExpectationTimer,
                       rxInterestTimer>>
        /\ rxSent' = <<>>
    BY <1>1 DEF R!HandleOther, R!Took, R!netVars
  <2>2. silence' = silence /\ lost' = lost
    BY <2>1 DEF ReceiverStep, ExpectationSet, R!HandlePayload, R!HandleResp,
                R!HandleExpectationTimeout, R!Took
  <2>3. SameMail(rxMailbox, rxMailbox')
    BY <2>1, OtherTaken
  <2>4. RP!Holds(rxMailbox', "STOP") => RP!Holds(rxMailbox, "STOP")
    BY <2>1, KnownSequences, RP!TailHolds, ReceiverConstants, QueueLenAssumption
  <2> QED
    BY <2>1, <2>2, <2>3, <2>4
<1>2. CASE R!HandleStop
  <2>1. /\ rxMailbox # <<>> /\ Head(rxMailbox).type = "STOP" /\ rxState' = "STOPPED"
        /\ UNCHANGED <<rxResults, rxQueue, rxAsked>>
    BY <1>2 DEF R!HandleStop, R!Took, R!netVars
  <2> QED
    BY <2>1, KnownSequences, RP!TailHolds, ReceiverConstants, QueueLenAssumption
<1> QED
  BY <1>1, <1>2

-----------------------------------------------------------------------------
(* Each part is kept by every step.                                          *)

\* IdleInv is kept by every step.
LEMMA NextIdle ==
  ASSUME Known, SenderInv, IdleInv, [Next]_vars PROVE IdleInv'
<1> SUFFICES ASSUME rxState' = "IDLE"
             PROVE  /\ rxResults' = RP!CleanResults /\ rxQueue' = <<>> /\ rxAsked' = {}
                    /\ rxExpectationSeqNo' = 0 /\ ~rxExpectationTimer' /\ ~rxInterestTimer'
                    /\ \A i \in DOMAIN rxMailbox' : rxMailbox'[i].type = "PAYLOAD"
  BY DEF IdleInv, RP!CleanResults
<1>1. CASE ReceiverStep
  <2>1. CASE R!HandlePayload
    BY <2>1 DEF R!HandlePayload
  <2>2. CASE R!HandleResp
    BY <1>1, <2>2, RespMoves
  <2>3. CASE R!HandleInterestTimeout
    <3>1. rxState = "IDLE" /\ rxMailbox # <<>> /\ Head(rxMailbox).type = "INTEREST"
      BY <1>1, <2>3, InterestMoves
    <3> QED
      BY <3>1, KnownSequences, Taken DEF IdleInv
  <2>4. CASE R!HandleExpectationTimeout
    BY <1>1, <2>4, TimeoutMoves
  <2>5. CASE R!HandleOther \/ R!HandleStop
    <3>1. rxState = "IDLE" /\ rxMailbox # <<>> /\ Head(rxMailbox).type = "OTHER"
      BY <1>1, <2>5, RestMoves
    <3> QED
      BY <3>1, KnownSequences, Taken DEF IdleInv
  <2> QED
    BY <1>1, <2>1, <2>2, <2>3, <2>4, <2>5, ReceiverMoves
<1>2. CASE IntervalTimerFires \/ InterestTimerFires \/ Start \/ RequestArrives \/ UNCHANGED vars
  BY <1>2, PlainMoves DEF IdleInv, rxVars
<1>3. CASE SenderStep \/ RelayAnswers \/ RelaySwaps
  <2>1. UNCHANGED rxVars
    BY <1>3, AirMoves DEF RelaySwaps, RelaySends
  <2> QED
    BY <2>1 DEF IdleInv, rxVars
<1>4. CASE PacketArrives
  <2>1. rxState = "IDLE"
    BY <1>4 DEF PacketArrives, R!Deliver, rxVars
  <2>2. /\ UNCHANGED <<rxState, rxResults, rxQueue, rxAsked, rxExpectationSeqNo, rxExpectationTimer,
                       rxInterestTimer>>
        /\ Head(down).type \in {"PAYLOAD", "RESP"} /\ Head(down).seq \in Chunk
        /\ Head(down).type = "RESP" => rxAsked # {}
        /\ rxMailbox' = Append(rxMailbox, R!Msg(Head(down).type, Head(down).seq))
    BY <1>4, <2>1, ArrivalMoves
  <2>3. Head(down).type = "PAYLOAD" /\ Head(down).seq \in Chunk
    BY <2>1, <2>2 DEF IdleInv
  <2> DEFINE m == R!Msg(Head(down).type, Head(down).seq)
  <2>4. m \in RP!Message /\ m.type = "PAYLOAD" /\ rxMailbox \in Seq(RP!Message)
    BY <2>3, KnownSequences DEF R!Msg, RP!Message, RP!Chunk, Chunk
  <2> HIDE DEF m
  <2>5. \A i \in DOMAIN Append(rxMailbox, m) :
           (i \in DOMAIN rxMailbox /\ Append(rxMailbox, m)[i] = rxMailbox[i])
             \/ Append(rxMailbox, m)[i] = m
    BY <2>4, AppendPlaces
  <2>6. \A i \in DOMAIN rxMailbox' : rxMailbox'[i].type = "PAYLOAD"
    BY <2>1, <2>2, <2>4, <2>5 DEF IdleInv, m
  <2> QED
    BY <2>1, <2>2, <2>6 DEF IdleInv
<1>5. CASE ExpectationTimerFires
  BY <1>5, ExpectationMoves DEF IdleInv
<1> QED
  BY <1>1, <1>2, <1>3, <1>4, <1>5 DEF Next, KeptNext

\* It holds at the start.
LEMMA InitIdle == Init => IdleInv
  BY SameReceiverParts DEF Init, R!Init, IdleInv

\* A packet more in the air.
LEMMA DownAppend ==
  ASSUME Known, NEW p \in AirPacket(rxAsked)
  PROVE  \A t, k : Air(Append(down, p), t, k) <=> Air(down, t, k) \/ (p.type = t /\ p.seq = k)
<1>1. down \in Seq(AirPacket(Answerable)) /\ p \in AirPacket(Answerable)
  BY KnownSequences
<1> QED
  BY <1>1, AirAppend

\* A packet less.
LEMMA DownTail ==
  ASSUME Known, down # <<>>
  PROVE  \A t, k : Air(down, t, k) <=>
                     Air(Tail(down), t, k) \/ (Head(down).type = t /\ Head(down).seq = k)
<1>1. down \in Seq(AirPacket(Answerable))
  BY KnownSequences
<1> QED
  BY <1>1, AirTail

\* What is on its way stays so until it is handled.
LEMMA ComingKept ==
  ASSUME Known, SenderInv, rxState # "STOPPED", [KeptNext]_vars, ~ReceiverStep
  PROVE  \A k : Coming(rxMailbox, down, k) => Coming(rxMailbox', down', k)
<1>1. CASE IntervalTimerFires \/ InterestTimerFires \/ Start \/ RequestArrives \/ UNCHANGED vars
  BY <1>1, PlainMoves DEF Coming, SameMail
<1>2. CASE SenderStep \/ RelayAnswers
  <2>1. rxMailbox' = rxMailbox /\ (down' = down \/ \E p \in AirPacket(rxAsked) : down' = Append(down, p))
    BY <1>2, AirMoves DEF rxVars
  <2> QED
    BY <2>1, DownAppend DEF Coming
<1>3. CASE PacketArrives
  <2>1. /\ down # <<>> /\ down' = Tail(down)
        /\ \A k : ~Mail(rxMailbox, "PAYLOAD", k)
        /\ \A k : Mail(rxMailbox', "PAYLOAD", k) <=> Head(down).type = "PAYLOAD" /\ Head(down).seq = k
    BY <1>3, ArrivalMoves
  <2>2. \A k : Air(down, "PAYLOAD", k) <=>
                 Air(Tail(down), "PAYLOAD", k) \/ (Head(down).type = "PAYLOAD" /\ Head(down).seq = k)
    BY <2>1, DownTail
  <2> QED
    BY <2>1, <2>2 DEF Coming
<1>4. CASE ExpectationTimerFires
  <2>1. /\ down' = down
        /\ \A k : Mail(rxMailbox', "PAYLOAD", k) <=> Mail(rxMailbox, "PAYLOAD", k)
    BY <1>4, ExpectationMoves
  <2> QED
    BY <2>1 DEF Coming
<1> QED
  BY <1>1, <1>2, <1>3, <1>4 DEF KeptNext

\* A step of the receiver's thread takes a payload only if it handles it.
LEMMA ComingTaken ==
  ASSUME Known, IdleInv, OrderInv, ReceiverStep, rxState' # "STOPPED"
  PROVE  /\ Last <= Last' /\ Last' \in Int
         /\ \A k : Coming(rxMailbox, down, k) => Coming(rxMailbox', down', k) \/ k = Last'
         /\ \A k : Coming(rxMailbox', down', k) => Coming(rxMailbox, down, k)
<1>1. Last \in Int /\ down' = down
  BY KnownNumbers, ReceiverMoves
<1>2. CASE R!HandlePayload
  <2> DEFINE k == Head(rxMailbox).val
  <2>1. /\ k \in Chunk /\ Last < k /\ rxState' = "RECEIVING" /\ rxResults'.last = k
        /\ rxMailbox # <<>> /\ Head(rxMailbox).type = "PAYLOAD"
        /\ rxMailbox' \in {Tail(rxMailbox), Append(Tail(rxMailbox), R!Stop)}
    BY <1>2, PayloadMoves
  <2>2. Last' = k
    BY <2>1 DEF Last
  <2>3. k \in Int
    BY <2>1, TransferAssumption DEF Chunk
  <2>4. \A i : Mail(rxMailbox, "PAYLOAD", i) <=> i = k
    BY <2>1, PayloadTaken
  <2>5. \A i : ~Mail(rxMailbox', "PAYLOAD", i)
    BY <2>1, PayloadTaken
  <2> QED
    BY <1>1, <2>1, <2>2, <2>3, <2>4, <2>5 DEF Coming
<1>3. CASE R!HandleResp
  <2>1. /\ rxState' = rxState /\ rxResults'.last = rxResults.last
        /\ rxMailbox # <<>> /\ Head(rxMailbox).type = "RESP"
        /\ rxMailbox' \in {Tail(rxMailbox), Append(Tail(rxMailbox), R!Stop)}
    BY <1>3, RespMoves
  <2>2. Last' = Last
    BY <2>1 DEF Last
  <2>3. \A k : ~Mail(rxMailbox, "PAYLOAD", k)
    BY <2>1, RespTaken
  <2>4. \A k : ~Mail(rxMailbox', "PAYLOAD", k)
    BY <2>1, RespTaken
  <2> QED
    BY <1>1, <2>2, <2>3, <2>4 DEF Coming
<1>4. CASE R!HandleInterestTimeout
  <2>1. UNCHANGED <<rxState, rxResults>> /\ SameMail(rxMailbox, rxMailbox')
    BY <1>4, InterestMoves
  <2>2. Last' = Last
    BY <2>1 DEF Last
  <2> QED
    BY <1>1, <2>1, <2>2 DEF Coming, SameMail
<1>5. CASE R!HandleExpectationTimeout
  <2>1. /\ UNCHANGED <<rxState, rxResults>>
        /\ rxMailbox # <<>> /\ Head(rxMailbox).type = "EXPECTATION"
        /\ rxMailbox' \in {Tail(rxMailbox), Append(Tail(rxMailbox), R!Stop)}
    BY <1>5, TimeoutMoves
  <2>2. Last' = Last
    BY <2>1 DEF Last
  <2>3. \A k : Mail(rxMailbox', "PAYLOAD", k) <=> Mail(rxMailbox, "PAYLOAD", k)
    BY <2>1, ExpectationTaken
  <2> QED
    BY <1>1, <2>2, <2>3 DEF Coming
<1>6. CASE R!HandleOther \/ R!HandleStop
  <2>1. UNCHANGED <<rxState, rxResults>> /\ SameMail(rxMailbox, rxMailbox')
    BY <1>6, RestMoves
  <2>2. Last' = Last
    BY <2>1 DEF Last
  <2> QED
    BY <1>1, <2>1, <2>2 DEF Coming, SameMail
<1> QED
  BY <1>2, <1>3, <1>4, <1>5, <1>6, ReceiverMoves

\* Only the receiver's thread changes what came.
LEMMA LastKept ==
  ASSUME Known, SenderInv, [KeptNext]_vars, rxState' # "STOPPED"
  PROVE  rxState # "STOPPED" /\ (~ReceiverStep => Last' = Last /\ rxState' = rxState)
<1>1. [Next]_vars
  BY DEF Next
<1> QED
  BY <1>1, OwnState, ReceiverMoves DEF Last

-----------------------------------------------------------------------------
(* The pace is kept.                                                         *)

\* The expectation timer outlasts the packets that may be in the air and those
\* that may be lost between two payloads that are not.
Budget == MaxInFlight + MaxLost + 1 < Steps

\* The terms of the budget are numbers.
LEMMA BudgetNumbers ==
  ASSUME Budget
  PROVE  /\ MaxLost \in Nat /\ Steps \in Nat /\ MaxInFlight \in Nat /\ 1 <= MaxInFlight
         /\ MaxInFlight + MaxLost + 1 < Steps
BY TransferAssumption DEF Budget

\* The measures are numbers.
LEMMA PaceTyped ==
  ASSUME Known, NEW L \in Int, NEW own \in Nat, NEW front \in Int
  PROVE  /\ Early(L, front) \in Int
         /\ Unheard(own) \in Nat /\ PacketsIn(rxMailbox) \in {0, 1}
         /\ silence \in Nat /\ lost \in Nat /\ rxExpectationSeqNo \in Nat
         /\ Last \in Int /\ -1 <= Last /\ Len(down) \in Nat
<1>1. /\ Last \in Int /\ -1 <= Last /\ silence \in Nat /\ lost \in Nat /\ rxExpectationSeqNo \in Nat
  BY KnownNumbers
<1>2. PacketsIn(rxMailbox) \in {0, 1} /\ Len(down) \in Nat
  BY KnownMail, KnownSequences
<1>3. Early(L, front) \in Int
  BY <1>1 DEF Early
<1>4. Unheard(own) \in Nat
  BY <1>1, <1>2 DEF Unheard
<1> QED
  BY <1>1, <1>2, <1>3, <1>4

\* The chunk on its way, and where the receiver will be, are chunks.
LEMMA ComingTyped ==
  ASSUME Known
  PROVE  /\ \A k : Coming(rxMailbox, down, k) =>
               k \in Chunk /\ k \in Int /\ Last < k /\ k <= txLast /\ k \in -1..NumPkts
         /\ \A k : Before(rxMailbox, k) => Mail(rxMailbox, "PAYLOAD", k)
         /\ \A k, i : Mail(rxMailbox, "PAYLOAD", k) /\ Air(down, "PAYLOAD", i) => k < i
         /\ Last \in -1..NumPkts
<1>1. /\ NumPkts \in Nat /\ txLast \in Int /\ txLast < NumPkts
      /\ Last \in Int /\ -1 <= Last /\ Last < rxNextPayload
      /\ rxNextPayload \in Int /\ rxNextPayload <= txLast + 1
  BY KnownNumbers
<1>2. ASSUME NEW k, Coming(rxMailbox, down, k)
      PROVE  k \in Chunk /\ k \in Int /\ Last < k /\ k <= txLast /\ k \in -1..NumPkts
  <2>1. k \in Int /\ Last < k /\ k <= txLast
    BY <1>1, <1>2, KnownPayloads DEF Coming
  <2> QED
    BY <1>1, <2>1 DEF Chunk
<1>3. \A k : Before(rxMailbox, k) => Mail(rxMailbox, "PAYLOAD", k)
  BY DEF Before, Mail
<1>4. \A k, i : Mail(rxMailbox, "PAYLOAD", k) /\ Air(down, "PAYLOAD", i) => k < i
  BY <1>1, KnownPayloads
<1>5. Last \in -1..NumPkts
  BY <1>1
<1> QED
  BY <1>2, <1>3, <1>4, <1>5

\* Nothing that is measured changes.
LEMMA SamePace ==
  ASSUME UNCHANGED <<rxState, rxResults, rxExpectationSeqNo, rxExpectationTimer>>,
         Pend(rxMailbox') <=> Pend(rxMailbox),
         NEW L, NEW own, NEW front
  PROVE  /\ Last' = Last /\ Early(L, front)' = Early(L, front)
         /\ PacketsIn(rxMailbox') = PacketsIn(rxMailbox) /\ silence' = silence =>
              Unheard(own)' = Unheard(own)
<1>1. Last' = Last
  BY DEF Last
<1>2. Early(L, front)' = Early(L, front)
  BY DEF Early
<1>3. PacketsIn(rxMailbox') = PacketsIn(rxMailbox) /\ silence' = silence =>
        Unheard(own)' = Unheard(own)
  BY DEF Unheard
<1> QED
  BY <1>1, <1>2, <1>3

\* Steps that neither send, deliver nor time out keep the pace.
LEMMA PlainPace ==
  ASSUME Known, SenderInv, NEW L \in -1..NumPkts, NEW own \in 0..MaxInFlight, NEW front \in -1..NumPkts,
         Paced(L, own, front),
         IntervalTimerFires \/ InterestTimerFires \/ Start \/ RequestArrives \/ UNCHANGED vars
  PROVE  Paced(L, own, front)'
<1>1. /\ UNCHANGED <<rxState, rxResults, rxExpectationSeqNo, rxExpectationTimer>>
      /\ UNCHANGED <<down, lost, silence>> /\ SameMail(rxMailbox, rxMailbox')
      /\ \/ SP!StepsWaiting' = SP!StepsWaiting
         \/ SP!StepsWaiting' \in {0, 1} /\ Len(down) < MaxInFlight
  BY PlainMoves
<1>2. /\ Pend(rxMailbox') <=> Pend(rxMailbox)
      /\ PacketsIn(rxMailbox') = PacketsIn(rxMailbox)
      /\ \A k : Before(rxMailbox', k) <=> Before(rxMailbox, k)
      /\ Coming(rxMailbox, down, L) => Coming(rxMailbox', down', L)
  BY <1>1 DEF SameMail, Coming
<1>3. /\ Last' = Last /\ Early(L, front)' = Early(L, front) /\ Unheard(own)' = Unheard(own)
  BY <1>1, <1>2, SamePace
<1>4. own \in Nat /\ MaxInFlight \in Nat /\ Len(down) \in Nat
  BY KnownSequences, TransferAssumption
<1>5. own <= Len(down') /\ own + SP!StepsWaiting' <= MaxInFlight
  BY <1>1, <1>4 DEF Paced
<1> QED
  BY <1>1, <1>2, <1>3, <1>5 DEF Paced

\* Arithmetic of the packets under way, apart from the rest for the provers.
LEMMA SumLess ==
  ASSUME NEW own \in Nat, NEW w \in Nat, NEW w2 \in Nat, NEW m \in Nat, w2 <= w, own + w <= m
  PROVE  own + w2 <= m
  OBVIOUS

\* A packet sent is in the air, or lost.
LEMMA PaidFor ==
  ASSUME NEW s \in Nat, NEW o \in Nat, NEW p \in Nat, NEW s2 \in Nat, NEW o2 \in Nat, NEW p2 \in Nat,
         \/ o2 = o + 1 /\ p2 = p /\ s2 <= s + 1
         \/ o2 = o /\ p2 = p /\ s2 <= s
         \/ o2 = o /\ p2 = p + 1 /\ s2 <= s + 1
  PROVE  s2 + o + p <= s + o2 + p2
  OBVIOUS

\* One packet less that was not heard.
LEMMA UnheardLess ==
  ASSUME NEW i \in Nat, NEW u \in Nat, NEW v \in Nat,
         NEW s \in Nat, NEW o \in Nat, NEW p \in Nat, NEW s2 \in Nat, NEW o2 \in Nat, NEW p2 \in Nat,
         s2 + o + p <= s + o2 + p2, p <= p2,
         v = 0 \/ (v <= s2 - o2 - i /\ s - o - i <= u)
  PROVE  v + p <= u + p2
  OBVIOUS

\* A packet more in the air, or lost.
LEMMA AirPace ==
  ASSUME Known, SenderInv, Budget, NEW L \in -1..NumPkts, NEW own \in 0..MaxInFlight,
         NEW front \in -1..NumPkts, Paced(L, own, front), rxState = "RECEIVING", ~AllSent',
         SenderStep \/ RelayAnswers, SenderInv'
  PROVE  \E L2 \in -1..NumPkts, own2 \in 0..MaxInFlight : Paced(L2, own2, front)'
<1>1. UNCHANGED rxVars
  BY AirMoves
<1>2. /\ UNCHANGED <<rxState, rxResults, rxExpectationSeqNo, rxExpectationTimer>>
      /\ rxMailbox' = rxMailbox
  BY <1>1 DEF rxVars
<1>3. /\ Last' = Last
      /\ \A l, o, f : Early(l, f)' = Early(l, f)
  BY <1>2, SamePace
<1>4. /\ own \in Nat /\ L \in Int /\ front \in Int /\ MaxInFlight \in Nat /\ NumPkts \in Nat
      /\ Len(down) \in Nat /\ Steps \in Nat
  BY KnownSequences, TransferAssumption
<1>5. /\ Early(L, front) \in Int /\ Unheard(own) \in Nat
      /\ silence \in Nat /\ lost \in Nat /\ PacketsIn(rxMailbox) \in {0, 1}
      /\ rxExpectationSeqNo \in Nat /\ Last \in Int
  BY <1>4, PaceTyped
<1>6. SP!StepsWaiting \in {0, 1} /\ SP!StepsWaiting' \in {0, 1}
  BY DEF SenderInv
<1>7. CASE UNCHANGED <<down, lost, silence>> /\ SP!StepsWaiting' = SP!StepsWaiting
  <2>1. Unheard(own)' = Unheard(own)
    BY <1>2, <1>7 DEF Unheard
  <2>2. Paced(L, own, front)'
    BY <1>2, <1>3, <1>7, <2>1 DEF Paced
  <2> QED
    BY <2>2
<1>8. CASE \E p \in AirPacket(rxAsked) :
             /\ down' \in {down, Append(down, p)}
             /\ \/ p = [type |-> "PAYLOAD", seq |-> txLast + 1] /\ txLast' = txLast + 1
                \/ p.type = "RESP" /\ p.seq \in rxAsked /\ txLast' = txLast
             /\ \/ /\ SP!StepsWaiting' = SP!StepsWaiting - 1
                   /\ silence' = AtMostSteps(silence + 1)
                   /\ lost' = IF down' = down THEN lost + 1
                              ELSE IF p.type = "PAYLOAD" THEN 0 ELSE lost
                \/ /\ SP!StepsWaiting' = SP!StepsWaiting /\ UNCHANGED <<silence, lost>>
                   /\ p.type = "RESP"
  <2>1. PICK p \in AirPacket(rxAsked) :
             /\ down' \in {down, Append(down, p)}
             /\ \/ p = [type |-> "PAYLOAD", seq |-> txLast + 1] /\ txLast' = txLast + 1
                \/ p.type = "RESP" /\ p.seq \in rxAsked /\ txLast' = txLast
             /\ \/ /\ SP!StepsWaiting' = SP!StepsWaiting - 1
                   /\ silence' = AtMostSteps(silence + 1)
                   /\ lost' = IF down' = down THEN lost + 1
                              ELSE IF p.type = "PAYLOAD" THEN 0 ELSE lost
                \/ /\ SP!StepsWaiting' = SP!StepsWaiting /\ UNCHANGED <<silence, lost>>
                   /\ p.type = "RESP"
    BY <1>8
  <2> DEFINE kept == down' = Append(down, p)
             far == IF kept /\ p.type = "PAYLOAD" THEN txLast + 1 ELSE L
             mine == SP!StepsWaiting' = SP!StepsWaiting - 1
  <2>2. /\ txLast \in Int /\ -1 <= txLast /\ txLast < NumPkts /\ Last <= txLast
    BY KnownNumbers
  <2>3. L <= txLast
    BY <2>2, ComingTyped DEF Paced
  <2>4. far \in -1..NumPkts /\ L <= far /\ far \in Int
    BY <1>4, <2>2, <2>3
  <2>5. far = Last' \/ Coming(rxMailbox', down', far)
    <3>1. CASE kept /\ p.type = "PAYLOAD"
      <4>1. far = txLast + 1 /\ p.seq = txLast + 1
        BY <2>1, <3>1
      <4>2. Air(down', "PAYLOAD", far)
        BY <3>1, <4>1, DownAppend
      <4> QED
        BY <4>2 DEF Coming
    <3>2. CASE ~(kept /\ p.type = "PAYLOAD")
      <4>1. far = L
        BY <3>2
      <4>2. Coming(rxMailbox, down, L) => Coming(rxMailbox', down', L)
        BY <1>2, <2>1, DownAppend DEF Coming
      <4> QED
        BY <1>3, <4>1, <4>2 DEF Paced
    <3> QED
      BY <3>1, <3>2
  <2>6. Len(down') = IF kept THEN Len(down) + 1 ELSE Len(down)
    <3>1. CASE kept
      <4>1. Len(Append(down, p)) = Len(down) + 1
        BY KnownSequences, AppendProperties
      <4> QED
        BY <3>1, <4>1
    <3>2. CASE ~kept
      BY <2>1, <3>2
    <3> QED
      BY <3>1, <3>2
  <2>7. kept => down' # down
    <3>1. Len(Append(down, p)) = Len(down) + 1
      BY KnownSequences, AppendProperties
    <3>2. Append(down, p) # down
      BY <1>4, <3>1
    <3> QED
      BY <3>2
  <2> DEFINE fresh == kept /\ p.type = "PAYLOAD"
  <2>8. /\ mine => lost' = IF ~kept THEN lost + 1 ELSE IF fresh THEN 0 ELSE lost
        /\ ~mine => lost' = lost /\ ~fresh
        /\ far = IF fresh THEN txLast + 1 ELSE L
        /\ SP!StepsWaiting \in Int /\ (mine => SP!StepsWaiting' # SP!StepsWaiting)
    <3>1. SP!StepsWaiting \in Int /\ SP!StepsWaiting - 1 # SP!StepsWaiting
      BY <1>6
    <3> QED
      BY <2>1, <2>7, <3>1
  <2> HIDE DEF fresh
  <2> HIDE DEF kept, far
  <2>9. own <= Len(down) /\ own + SP!StepsWaiting <= MaxInFlight
    BY DEF Paced
  <2>10. mine => SP!StepsWaiting = 1 /\ SP!StepsWaiting' = 0
    BY <1>6
  <2>11. ~mine => SP!StepsWaiting' = SP!StepsWaiting
    BY <2>1
  <2>12. silence' <= silence + (IF mine THEN 1 ELSE 0) /\ silence' \in Nat
    <3>1. CASE mine
      <4>1. silence' = AtMostSteps(silence + 1)
        BY <1>6, <2>1, <3>1
      <4> QED
        BY <1>4, <1>5, <3>1, <4>1 DEF AtMostSteps
    <3>2. CASE ~mine
      BY <1>5, <2>1, <3>2
    <3> QED
      BY <3>1, <3>2
  <2> HIDE DEF mine
  <2>13. \E o \in 0..MaxInFlight : o = IF kept /\ mine THEN own + 1 ELSE own
    BY <1>4, <1>6, <2>9, <2>10
  <2>14. PICK own2 \in 0..MaxInFlight : own2 = IF kept /\ mine THEN own + 1 ELSE own
    BY <2>13
  <2>15. PICK L2 \in -1..NumPkts : L2 = far
    BY <2>4
  <2>16. own2 <= Len(down') /\ own2 + SP!StepsWaiting' <= MaxInFlight /\ own2 \in Nat
    <3>1. own2 \in Nat
      BY <1>4, <2>14
    <3>2. CASE kept /\ mine
      <4>1. own2 = own + 1 /\ Len(down') = Len(down) + 1 /\ SP!StepsWaiting = 1 /\ SP!StepsWaiting' = 0
        BY <2>6, <2>10, <2>14, <3>2
      <4> QED
        BY <1>4, <2>9, <3>1, <4>1
    <3>3. CASE ~(kept /\ mine)
      <4>1. own2 = own
        BY <2>14, <3>3
      <4>2. Len(down') \in Nat /\ Len(down) <= Len(down')
        BY <1>4, <2>6
      <4>3. SP!StepsWaiting' \in Nat /\ SP!StepsWaiting \in Nat /\ SP!StepsWaiting' <= SP!StepsWaiting
        BY <1>6, <2>10, <2>11
      <4>4. own + SP!StepsWaiting' <= MaxInFlight
        BY <1>4, <2>9, <4>3, SumLess
      <4>5. own2 <= Len(down')
        BY <1>4, <2>9, <4>1, <4>2
      <4> QED
        BY <3>1, <4>1, <4>4, <4>5
    <3> QED
      BY <3>2, <3>3
  <2> DEFINE u2 == IF rxExpectationTimer /\ silence' > own2 + PacketsIn(rxMailbox)
                   THEN silence' - own2 - PacketsIn(rxMailbox) ELSE 0
  <2>17. Unheard(own2)' = u2
    BY <1>2 DEF Unheard
  <2>18. u2 \in Nat /\ lost' \in Nat
    <3>1. lost' \in Nat
      BY <1>5, <2>8
    <3>2. u2 \in Nat
      BY <1>5, <2>12, <2>16
    <3> QED
      BY <3>1, <3>2
  <2>19. ASSUME ~fresh PROVE u2 + lost <= Unheard(own) + lost'
    <3>1. lost <= lost'
      BY <1>5, <2>8, <2>19
    <3>2. silence' + own + lost <= silence + own2 + lost'
      <4>1. CASE kept /\ mine
        <5>1. own2 = own + 1 /\ lost' = lost /\ silence' <= silence + 1
          BY <2>8, <2>12, <2>14, <2>19, <4>1
        <5> QED
          BY <1>4, <1>5, <2>12, <2>16, <2>18, <5>1, PaidFor
      <4>2. CASE ~mine
        <5>1. own2 = own /\ lost' = lost /\ silence' <= silence
          BY <1>5, <2>8, <2>12, <2>14, <4>2
        <5> QED
          BY <1>4, <1>5, <2>12, <2>16, <2>18, <5>1, PaidFor
      <4>3. CASE ~kept /\ mine
        <5>1. silence' <= silence + 1
          BY <1>5, <2>12
        <5>2. own2 = own /\ lost' = lost + 1
          BY <2>8, <2>14, <4>3
        <5> QED
          BY <1>4, <1>5, <2>12, <2>16, <2>18, <5>1, <5>2, PaidFor
      <4> QED
        BY <4>1, <4>2, <4>3
    <3>3. PacketsIn(rxMailbox) \in Nat
      BY <1>5
    <3>4. u2 = 0 \/ (rxExpectationTimer /\ u2 = silence' - own2 - PacketsIn(rxMailbox))
      OBVIOUS
    <3>5. rxExpectationTimer => silence - own - PacketsIn(rxMailbox) <= Unheard(own)
      BY <1>4, <1>5, <3>3 DEF Unheard
    <3> HIDE DEF u2
    <3>6. u2 = 0 \/ (u2 <= silence' - own2 - PacketsIn(rxMailbox)
                      /\ silence - own - PacketsIn(rxMailbox) <= Unheard(own))
      BY <2>12, <2>16, <2>18, <3>3, <3>4, <3>5
    <3> QED
      BY <1>4, <1>5, <2>12, <2>16, <2>18, <3>1, <3>2, <3>3, <3>6, UnheardLess
  <2> HIDE DEF u2
  <2>20. Early(L, front) <= 1 /\ (Early(L, front) = 1 => Unheard(own) <= lost)
    BY DEF Paced
  <2>21. Early(L2, front) <= 1 /\ (Early(L2, front) = 1 => u2 <= lost')
    <3>1. CASE fresh
      <4>1. L2 = txLast + 1
        BY <2>8, <2>15, <3>1
      <4>2. Early(L2, front) <= 0 /\ Early(L2, front) \in Int
        BY <1>4, <1>5, <2>2, <2>3, <2>20, <4>1 DEF Early
      <4> QED
        BY <4>2
    <3>2. CASE ~fresh
      <4>1. L2 = L
        BY <2>8, <2>15, <3>2
      <4> QED
        BY <1>5, <2>18, <2>19, <2>20, <3>2, <4>1
    <3> QED
      BY <3>1, <3>2
  <2>22. Early(L2, front)' <= 1 /\ (Early(L2, front)' = 1 => Unheard(own2)' <= lost')
    BY <1>3, <2>17, <2>21
  <2>23. Paced(L2, own2, front)'
    <3>1. front = Last \/ Before(rxMailbox, front)
      BY DEF Paced
    <3>2. \A k \in Chunk : Before(rxMailbox, k) => front = k
      BY DEF Paced
    <3> QED
      BY <1>2, <1>3, <2>5, <2>15, <2>16, <2>22, <3>1, <3>2 DEF Paced
  <2> QED
    BY <2>23
<1> QED
  BY <1>7, <1>8, AirMoves

\* One payload at most waits.
LEMMA OnePayload ==
  ASSUME Known
  PROVE  \A a, b : Mail(rxMailbox, "PAYLOAD", a) /\ Mail(rxMailbox, "PAYLOAD", b) => a = b
<1> DEFINE P == RP!Places(rxMailbox, 1, Len(rxMailbox), {"PAYLOAD", "RESP"})
<1>0. SUFFICES ASSUME NEW a, NEW b, Mail(rxMailbox, "PAYLOAD", a), Mail(rxMailbox, "PAYLOAD", b), a # b
               PROVE  FALSE
  OBVIOUS
<1> PICK i \in DOMAIN rxMailbox : rxMailbox[i].type = "PAYLOAD" /\ rxMailbox[i].val = a
  BY <1>0 DEF Mail
<1> PICK j \in DOMAIN rxMailbox : rxMailbox[j].type = "PAYLOAD" /\ rxMailbox[j].val = b
  BY <1>0 DEF Mail
<1>1. i # j /\ rxMailbox[i].type = "PAYLOAD" /\ rxMailbox[j].type = "PAYLOAD"
  BY <1>0
<1>2. Len(rxMailbox) \in Nat /\ i \in 1..Len(rxMailbox) /\ j \in 1..Len(rxMailbox)
  BY <1>1, KnownSequences
<1>3. {i, j} \in SUBSET P
  BY <1>1, <1>2 DEF RP!Places
<1>4. IsFiniteSet(P)
  <2>1. IsFiniteSet(1..Len(rxMailbox))
    BY <1>2, FS_Interval
  <2>2. P \in SUBSET (1..Len(rxMailbox))
    BY DEF RP!Places
  <2> QED
    BY <2>1, <2>2, FS_Subset
<1>5. Cardinality({i, j}) <= Cardinality(P) /\ Cardinality(P) \in Nat
  BY <1>3, <1>4, FS_Subset, FS_CardinalityType
<1>6. Cardinality({i, j}) = 2
  <2>1. IsFiniteSet({i}) /\ Cardinality({i}) = 1
    BY FS_Singleton
  <2>2. {i, j} = {i} \union {j} /\ j \notin {i}
    BY <1>1
  <2>3. Cardinality({i} \union {j}) = Cardinality({i}) + 1
    BY <2>1, <2>2, FS_AddElement
  <2> QED
    BY <2>1, <2>2, <2>3
<1>7. PacketsIn(rxMailbox) = Cardinality(P)
  BY SameCardinality DEF PacketsIn, RP!NumIn, RP!NumOf
<1> QED
  BY <1>5, <1>6, <1>7, KnownMail

\* The measures, before and after a step.
Measured ==
  /\ \A l \in Int, f \in Int : Early(l, f) \in Int
  /\ \A o \in Nat : Unheard(o) \in Nat
  /\ PacketsIn(rxMailbox) \in {0, 1}
  /\ silence \in Nat /\ lost \in Nat /\ lost <= MaxLost /\ rxExpectationSeqNo \in Nat
  /\ Last \in Int /\ -1 <= Last /\ Len(down) \in Nat
  /\ txLast \in Int /\ txLast < NumPkts

\* What the pace counts with is a number.
LEMMA KnownMeasured == Known => Measured
<1>1. SUFFICES ASSUME Known PROVE Measured
  OBVIOUS
<1>2. ASSUME NEW l \in Int, NEW f \in Int, NEW o \in Nat
      PROVE  Early(l, f) \in Int /\ Unheard(o) \in Nat
  BY <1>1, PaceTyped
<1>3. 0 \in Int /\ 0 \in Nat
  OBVIOUS
<1>4. /\ PacketsIn(rxMailbox) \in {0, 1}
      /\ silence \in Nat /\ lost \in Nat /\ rxExpectationSeqNo \in Nat
      /\ Last \in Int /\ -1 <= Last /\ Len(down) \in Nat
  BY <1>1, <1>3, PaceTyped
<1> QED
  BY <1>1, <1>2, <1>3, <1>4, KnownNumbers DEF Measured

\* The same after a step.
LEMMA NextMeasured == Known' => Measured'
BY KnownMeasured, PTL

\* No further ahead, and what was not heard is lost.
LEMMA PaceLess ==
  ASSUME Known, Known',
         NEW L \in -1..NumPkts, NEW own \in 0..MaxInFlight, NEW front \in -1..NumPkts,
         NEW L2 \in -1..NumPkts, NEW own2 \in 0..MaxInFlight, NEW front2 \in -1..NumPkts,
         Paced(L, own, front), lost' = lost,
         Early(L2, front2)' <= Early(L, front),
         Unheard(own2)' = 0 \/ Unheard(own2)' <= Unheard(own)
  PROVE  Early(L2, front2)' <= 1 /\ (Early(L2, front2)' = 1 => Unheard(own2)' <= lost')
<1>1. /\ L \in Int /\ front \in Int /\ own \in Nat /\ L2 \in Int /\ front2 \in Int /\ own2 \in Nat
  BY TransferAssumption
<1>2. Early(L, front) \in Int /\ Unheard(own) \in Nat /\ lost \in Nat
  BY <1>1, KnownMeasured DEF Measured
<1>3. Early(L2, front2)' \in Int /\ Unheard(own2)' \in Nat
  BY <1>1, NextMeasured DEF Measured
<1>4. Early(L, front) <= 1 /\ (Early(L, front) = 1 => Unheard(own) <= lost)
  BY DEF Paced
<1> QED
  BY <1>2, <1>3, <1>4

\* A packet arrives.
LEMMA ArrivalPace ==
  ASSUME Known, Known', SenderInv, NEW L \in -1..NumPkts, NEW own \in 0..MaxInFlight,
         NEW front \in -1..NumPkts, Paced(L, own, front), rxState = "RECEIVING",
         PacketArrives, ~ReceiverStep
  PROVE  \E own2 \in 0..MaxInFlight : Paced(L, own2, front)'
<1>1. rxState # "STOPPED"
  OBVIOUS
<1>2. /\ UNCHANGED <<rxState, rxResults, rxQueue, rxAsked, rxExpectationSeqNo, rxExpectationTimer>>
      /\ UNCHANGED <<lost, silence, txLast>> /\ SP!StepsWaiting' = SP!StepsWaiting
      /\ down # <<>> /\ down' = Tail(down)
      /\ PacketsIn(rxMailbox) = 0 /\ PacketsIn(rxMailbox') = 1
      /\ \A k : ~Before(rxMailbox, k) /\ ~Before(rxMailbox', k)
      /\ Pend(rxMailbox') <=> Pend(rxMailbox)
  BY <1>1, ArrivalMoves
<1>3. Last' = Last /\ Early(L, front)' = Early(L, front)
  BY <1>2, SamePace
<1>4. /\ own \in Nat /\ L \in Int /\ front \in Int /\ MaxInFlight \in Nat
      /\ Early(L, front) \in Int /\ Unheard(own) \in Nat
      /\ silence \in Nat /\ lost \in Nat
  BY TransferAssumption, PaceTyped
<1>5. Len(down) \in Nat /\ 1 <= Len(down) /\ Len(down') = Len(down) - 1
  BY <1>2, KnownSequences, EmptySeq, HeadTailProperties
<1>6. own <= Len(down) /\ own + SP!StepsWaiting <= MaxInFlight
  BY DEF Paced
<1>7. \E o \in 0..MaxInFlight : o = IF own = Len(down) THEN own - 1 ELSE own
  BY <1>4, <1>5
<1>8. PICK own2 \in 0..MaxInFlight : own2 = IF own = Len(down) THEN own - 1 ELSE own
  BY <1>7
<1>9. own2 \in Nat /\ own2 <= own /\ own <= own2 + 1 /\ own2 <= Len(down')
  BY <1>4, <1>5, <1>6, <1>8
<1>10. own2 + SP!StepsWaiting' <= MaxInFlight
  <2>1. SP!StepsWaiting \in Nat
    BY DEF SenderInv
  <2>2. own2 + SP!StepsWaiting <= MaxInFlight
    BY <1>4, <1>6, <1>9, <2>1
  <2> QED
    BY <1>2, <2>2
<1>11. Unheard(own2)' <= Unheard(own)
  <2>1. CASE rxExpectationTimer
    <3>1. Unheard(own2)' = IF silence > own2 + 1 THEN silence - own2 - 1 ELSE 0
      BY <1>2, <2>1 DEF Unheard
    <3>2. Unheard(own) = IF silence > own + 0 THEN silence - own - 0 ELSE 0
      BY <1>2, <2>1 DEF Unheard
    <3> QED
      BY <1>4, <1>9, <3>1, <3>2
  <2>2. CASE ~rxExpectationTimer
    BY <1>2, <1>4, <2>2 DEF Unheard
  <2> QED
    BY <2>1, <2>2
<1>12. Early(L, front)' <= 1 /\ (Early(L, front)' = 1 => Unheard(own2)' <= lost')
  BY <1>2, <1>3, <1>4, <1>11, PaceLess
<1>13. L = Last' \/ Coming(rxMailbox', down', L)
  <2>1. L = Last \/ Coming(rxMailbox, down, L)
    BY DEF Paced
  <2>2. Coming(rxMailbox, down, L) => Coming(rxMailbox', down', L)
    BY <1>1, ComingKept DEF KeptNext
  <2> QED
    BY <1>3, <2>1, <2>2
<1>14. front = Last'
  BY <1>2, <1>3 DEF Paced
<1> QED
  BY <1>2, <1>9, <1>10, <1>12, <1>13, <1>14 DEF Paced

\* The timer outlasts what may be in the air and lost: when it runs out before
\* all is sent, the expectation was not ahead.
LEMMA ExpectationPace ==
  ASSUME Known, Known', SenderInv, Budget, NEW L \in -1..NumPkts, NEW own \in 0..MaxInFlight,
         NEW front \in -1..NumPkts, Paced(L, own, front), Open, ExpectationTimerFires
  PROVE  \E L2 \in -1..NumPkts, front2 \in -1..NumPkts : Paced(L2, own, front2)'
<1>1. /\ UNCHANGED <<rxState, rxResults, rxQueue, rxAsked, rxExpectationSeqNo>>
      /\ UNCHANGED <<down, lost, silence, txLast>> /\ SP!StepsWaiting' = SP!StepsWaiting
      /\ rxExpectationTimer /\ ~rxExpectationTimer' /\ ~Pend(rxMailbox)
      /\ Steps <= silence
  BY ExpectationMoves
<1>2. /\ own \in Nat /\ L \in Int /\ front \in Int
      /\ Early(L, front) \in Int /\ Unheard(own) \in Nat
      /\ silence \in Nat /\ lost \in Nat /\ lost <= MaxLost
      /\ PacketsIn(rxMailbox) \in Nat /\ PacketsIn(rxMailbox) <= 1
      /\ rxExpectationSeqNo \in Nat /\ Last \in Int /\ -1 <= Last
  <2>1. Measured
    BY KnownMeasured
  <2>2. own \in Nat /\ L \in Int /\ front \in Int
    BY TransferAssumption
  <2>3. /\ PacketsIn(rxMailbox) \in {0, 1}
        /\ silence \in Nat /\ lost \in Nat /\ lost <= MaxLost /\ rxExpectationSeqNo \in Nat
        /\ Last \in Int /\ -1 <= Last
    BY <2>1 DEF Measured
  <2>4. Early(L, front) \in Int /\ Unheard(own) \in Nat
    BY <2>1, <2>2 DEF Measured
  <2>5. PacketsIn(rxMailbox) \in Nat /\ PacketsIn(rxMailbox) <= 1
    BY <2>3
  <2> QED
    BY <2>2, <2>3, <2>4, <2>5
<1>3. /\ MaxLost \in Nat /\ MaxInFlight \in Nat /\ own <= MaxInFlight
      /\ Steps \in Nat /\ MaxInFlight + MaxLost + 1 < Steps
  BY BudgetNumbers
<1>4. MaxLost < Unheard(own)
  BY <1>1, <1>2, <1>3 DEF Unheard
<1>5. /\ own <= Len(down) /\ own + SP!StepsWaiting <= MaxInFlight
      /\ L = Last \/ Coming(rxMailbox, down, L)
      /\ Early(L, front) <= 1 /\ (Early(L, front) = 1 => Unheard(own) <= lost)
  BY DEF Paced
<1>6. Early(L, front) <= 0
  BY <1>2, <1>3, <1>4, <1>5
<1>7. rxExpectationSeqNo <= L
  <2>1. Early(L, front) = rxExpectationSeqNo - L
    BY <1>1 DEF Early
  <2> QED
    BY <1>2, <1>6, <2>1
<1>8. Last' = Last /\ Unheard(own)' = 0
  BY <1>1 DEF Last, Unheard
<1>9. \A k : ~Before(rxMailbox, k)
  BY <1>1 DEF Before, Pend, RP!Holds
<1>10. CASE rxMailbox' = rxMailbox
  <2>1. Early(L, front)' = Early(L, front)
    BY <1>1, <1>8, <1>10 DEF Early
  <2>2. Early(L, front)' <= 1 /\ (Early(L, front)' = 1 => Unheard(own)' <= lost')
    BY <1>1, <1>2, <1>6, <1>8, <2>1
  <2>3. Paced(L, own, front)'
    BY <1>1, <1>8, <1>10, <2>2 DEF Paced
  <2> QED
    BY <2>3
<1>11. CASE rxMailbox' # rxMailbox
  <2>1. /\ \A k : Mail(rxMailbox', "PAYLOAD", k) <=> Mail(rxMailbox, "PAYLOAD", k)
        /\ Pend(rxMailbox')
        /\ \A k : Before(rxMailbox', k) <=> Mail(rxMailbox, "PAYLOAD", k)
    BY <1>9, <1>11, ExpectationMoves
  <2>2. \A k : Coming(rxMailbox', down', k) <=> Coming(rxMailbox, down, k)
    BY <1>1, <2>1 DEF Coming
  <2>3. \E f \in -1..NumPkts : /\ f = Last \/ Mail(rxMailbox, "PAYLOAD", f)
                               /\ \A k : Mail(rxMailbox, "PAYLOAD", k) => f = k
    <3>1. CASE \E f : Mail(rxMailbox, "PAYLOAD", f)
      <4>1. PICK f : Mail(rxMailbox, "PAYLOAD", f)
        BY <3>1
      <4>2. f \in -1..NumPkts
        BY <4>1, ComingTyped DEF Coming
      <4> QED
        BY <4>1, <4>2, OnePayload
    <3>2. CASE ~\E f : Mail(rxMailbox, "PAYLOAD", f)
      BY <3>2, ComingTyped
    <3> QED
      BY <3>1, <3>2
  <2>4. PICK front2 \in -1..NumPkts : /\ front2 = Last \/ Mail(rxMailbox, "PAYLOAD", front2)
                                      /\ \A k : Mail(rxMailbox, "PAYLOAD", k) => front2 = k
    BY <2>3
  <2>5. front2 \in Int
    BY <2>4, TransferAssumption
  <2>6. ASSUME NEW L2 \in -1..NumPkts, L2 = Last \/ Coming(rxMailbox, down, L2),
               Early(L2, front2)' <= 1
        PROVE  Paced(L2, own, front2)'
    <3>1. L2 = Last' \/ Coming(rxMailbox', down', L2)
      BY <1>8, <2>2, <2>6
    <3>2. /\ front2 = Last' \/ Before(rxMailbox', front2)
          /\ \A k \in Chunk : Before(rxMailbox', k) => front2 = k
      BY <1>8, <2>1, <2>4
    <3>3. Unheard(own)' <= lost'
      BY <1>1, <1>2, <1>8
    <3> QED
      BY <1>1, <1>5, <2>6, <3>1, <3>2, <3>3 DEF Paced
  <2>7. ASSUME NEW l \in Int
        PROVE  Early(l, front2)' = IF rxExpectationSeqNo < front2 THEN front2 + 1 - l
                                   ELSE rxExpectationSeqNo + 1 - l
    BY <1>1, <2>1 DEF Early
  <2>8. CASE \E j : Air(down, "PAYLOAD", j)
    <3>1. PICK j : Air(down, "PAYLOAD", j)
      BY <2>8
    <3>2. j \in Int /\ Last < j /\ j \in -1..NumPkts /\ Coming(rxMailbox, down, j)
      BY <3>1, ComingTyped DEF Coming
    <3>3. front2 < j
      BY <2>4, <3>1, <3>2, ComingTyped
    <3>4. PICK L2 \in -1..NumPkts : L2 = IF L < j THEN j ELSE L
      BY <3>2
    <3>5. L2 = Last \/ Coming(rxMailbox, down, L2)
      BY <1>5, <3>2, <3>4
    <3>6. L2 \in Int /\ L <= L2 /\ j <= L2
      BY <1>2, <3>2, <3>4
    <3>7. Early(L2, front2)' <= 1
      BY <1>2, <1>7, <2>5, <2>7, <3>2, <3>3, <3>6
    <3> QED
      BY <2>6, <3>5, <3>7
  <2>9. CASE ~\E j : Air(down, "PAYLOAD", j)
    <3>1. L <= front2
      <4>1. L = Last \/ Mail(rxMailbox, "PAYLOAD", L)
        BY <1>5, <2>9 DEF Coming
      <4>2. CASE Mail(rxMailbox, "PAYLOAD", L)
        BY <1>2, <2>4, <4>2
      <4>3. CASE L = Last
        <5>1. front2 = Last \/ Last < front2
          BY <2>4, ComingTyped DEF Coming
        <5> QED
          BY <1>2, <2>5, <4>3, <5>1
      <4> QED
        BY <4>1, <4>2, <4>3
    <3>2. Early(front2, front2)' <= 1
      BY <1>2, <1>7, <2>5, <2>7, <3>1
    <3>3. front2 = Last \/ Coming(rxMailbox, down, front2)
      BY <2>4 DEF Coming
    <3> QED
      BY <2>6, <3>2, <3>3
  <2> QED
    BY <2>8, <2>9
<1> QED
  BY <1>10, <1>11

\* The first payload opens the account.
LEMMA FirstPace ==
  ASSUME Known, SenderInv, IdleInv, OrderInv, rxState = "IDLE",
         ReceiverStep, R!HandlePayload
  PROVE  \E L \in -1..NumPkts : Paced(L, 0, L)'
<1> DEFINE k == Head(rxMailbox).val
<1>1. /\ rxMailbox # <<>> /\ Head(rxMailbox).type = "PAYLOAD" /\ k \in Chunk
      /\ rxState' = "RECEIVING" /\ rxResults'.last = k /\ silence' = 0
      /\ UNCHANGED rxExpectationSeqNo
      /\ rxMailbox' \in {Tail(rxMailbox), Append(Tail(rxMailbox), R!Stop)}
  BY PayloadMoves
<1>2. /\ \A i : ~Before(rxMailbox', i)
      /\ PacketsIn(rxMailbox') = 0
      /\ Pend(rxMailbox') <=> Pend(rxMailbox)
  BY <1>1, PayloadTaken
<1>3. ~Pend(rxMailbox) /\ rxExpectationSeqNo = 0
  BY DEF IdleInv, Pend, RP!Holds
<1>4. Last' = k /\ k \in Int /\ 0 <= k /\ k \in -1..NumPkts
  BY <1>1, TransferAssumption DEF Last, Chunk
<1> HIDE DEF k
<1>5. PICK L \in -1..NumPkts : L = k
  BY <1>4
<1>6. L \in Int /\ 0 <= L
  BY <1>4, <1>5
<1>7. Early(L, L)' <= 0 /\ Early(L, L)' \in Int
  BY <1>1, <1>2, <1>3, <1>5, <1>6 DEF Early
<1>8. 0 <= Len(down') /\ 0 + SP!StepsWaiting' <= MaxInFlight
  <2>1. down' = down /\ SP!StepsWaiting' = SP!StepsWaiting
    BY ReceiverMoves
  <2>2. Len(down) \in Nat /\ 1 <= MaxInFlight /\ MaxInFlight \in Nat
    BY KnownSequences, TransferAssumption
  <2>3. 0 + SP!StepsWaiting <= MaxInFlight
    BY <2>2 DEF SenderInv
  <2> QED
    BY <2>1, <2>2, <2>3
<1>9. /\ L = Last'
      /\ \A i \in Chunk : Before(rxMailbox', i) => L = i
  BY <1>2, <1>4, <1>5
<1>10. Early(L, L)' <= 1 /\ ~(Early(L, L)' = 1)
  BY <1>7
<1> QED
  BY <1>8, <1>9, <1>10 DEF Paced

\* A payload more.
LEMMA PayloadPace ==
  ASSUME Known, Known', SenderInv, IdleInv, OrderInv, rxState = "RECEIVING",
         NEW L \in -1..NumPkts, NEW own \in 0..MaxInFlight, NEW front \in -1..NumPkts,
         Paced(L, own, front), ReceiverStep, R!HandlePayload
  PROVE  \E L2 \in -1..NumPkts, front2 \in -1..NumPkts : Paced(L2, own, front2)'
<1> DEFINE k == Head(rxMailbox).val
<1>1. /\ rxMailbox # <<>> /\ Head(rxMailbox).type = "PAYLOAD" /\ k \in Chunk /\ Last < k
      /\ rxState' = "RECEIVING" /\ rxResults'.last = k /\ silence' = 0 /\ lost' = lost
      /\ UNCHANGED rxExpectationSeqNo
      /\ rxMailbox' \in {Tail(rxMailbox), Append(Tail(rxMailbox), R!Stop)}
  BY PayloadMoves
<1>2. /\ \A i : ~Before(rxMailbox', i)
      /\ PacketsIn(rxMailbox') = 0
      /\ Pend(rxMailbox') <=> Pend(rxMailbox)
      /\ \A i : Mail(rxMailbox, "PAYLOAD", i) <=> i = k
      /\ Pend(rxMailbox) => Before(rxMailbox, k)
  BY <1>1, PayloadTaken
<1>3. down' = down /\ SP!StepsWaiting' = SP!StepsWaiting
  BY ReceiverMoves
<1>4. Last' = k /\ k \in Int /\ k \in -1..NumPkts
  BY <1>1, TransferAssumption DEF Last, Chunk
<1>5. /\ L = Last \/ Coming(rxMailbox, down, L)
      /\ \A i \in Chunk : Before(rxMailbox, i) => front = i
      /\ own <= Len(down) /\ own + SP!StepsWaiting <= MaxInFlight
  BY DEF Paced
<1>6. Pend(rxMailbox) => front = k
  BY <1>1, <1>2, <1>5
<1> HIDE DEF k
<1>7. /\ L \in Int /\ front \in Int /\ own \in Nat
  BY TransferAssumption
<1>8. Last \in Int /\ rxExpectationSeqNo \in Nat
  BY KnownMeasured DEF Measured
<1>9. PICK L2 \in -1..NumPkts : L2 = IF L = Last \/ L = k THEN k ELSE L
  BY <1>4
<1>10. L2 = Last' \/ Coming(rxMailbox', down', L2)
  <2>1. CASE L = Last \/ L = k
    BY <1>4, <1>9, <2>1
  <2>2. CASE ~(L = Last \/ L = k)
    BY <1>2, <1>3, <1>5, <1>9, <2>2 DEF Coming
  <2> QED
    BY <2>1, <2>2
<1>11. L2 \in Int /\ L <= L2
  BY <1>1, <1>4, <1>7, <1>8, <1>9
<1>12. PICK front2 \in -1..NumPkts : front2 = k
  BY <1>4
<1>13. Early(L2, front2)' <= Early(L, front)
  <2>1. CASE Pend(rxMailbox)
    <3>1. Early(L, front) = IF rxExpectationSeqNo < k THEN k + 1 - L ELSE rxExpectationSeqNo + 1 - L
      BY <1>6, <2>1 DEF Early
    <3>2. Early(L2, front2)' = IF rxExpectationSeqNo < k THEN k + 1 - L2
                               ELSE rxExpectationSeqNo + 1 - L2
      BY <1>1, <1>2, <1>12, <2>1 DEF Early
    <3> QED
      BY <1>4, <1>7, <1>8, <1>11, <3>1, <3>2
  <2>2. CASE ~Pend(rxMailbox)
    <3>1. Early(L, front) = rxExpectationSeqNo - L
      BY <2>2 DEF Early
    <3>2. Early(L2, front2)' = rxExpectationSeqNo - L2
      BY <1>1, <1>2, <2>2 DEF Early
    <3> QED
      BY <1>7, <1>8, <1>11, <3>1, <3>2
  <2> QED
    BY <2>1, <2>2
<1>14. Unheard(own)' = 0
  BY <1>1, <1>2, <1>7 DEF Unheard
<1>15. Early(L2, front2)' <= 1 /\ (Early(L2, front2)' = 1 => Unheard(own)' <= lost')
  BY <1>1, <1>13, <1>14, PaceLess
<1>16. /\ front2 = Last'
       /\ \A i \in Chunk : Before(rxMailbox', i) => front2 = i
  BY <1>2, <1>4, <1>12
<1> QED
  BY <1>3, <1>5, <1>10, <1>15, <1>16 DEF Paced

\* An answer: the receiver has heard.
LEMMA RespPace ==
  ASSUME Known, Known', SenderInv, IdleInv, rxState = "RECEIVING",
         NEW L \in -1..NumPkts, NEW own \in 0..MaxInFlight, NEW front \in -1..NumPkts,
         Paced(L, own, front), ReceiverStep, R!HandleResp
  PROVE  Paced(L, own, front)'
<1>1. /\ rxMailbox # <<>> /\ Head(rxMailbox).type = "RESP"
      /\ rxState' = rxState /\ rxResults'.last = rxResults.last /\ silence' = 0
      /\ UNCHANGED rxExpectationSeqNo /\ lost' = lost
      /\ rxMailbox' \in {Tail(rxMailbox), Append(Tail(rxMailbox), R!Stop)}
  BY RespMoves
<1>2. /\ \A i : ~Mail(rxMailbox, "PAYLOAD", i) /\ ~Before(rxMailbox, i) /\ ~Before(rxMailbox', i)
      /\ PacketsIn(rxMailbox') = 0
      /\ Pend(rxMailbox') <=> Pend(rxMailbox)
  BY <1>1, RespTaken
<1>3. down' = down /\ SP!StepsWaiting' = SP!StepsWaiting
  BY ReceiverMoves
<1>4. Last' = Last
  BY <1>1 DEF Last
<1>5. Early(L, front)' = Early(L, front)
  BY <1>1, <1>2, <1>4 DEF Early
<1>6. /\ L \in Int /\ front \in Int /\ own \in Nat
  BY TransferAssumption
<1>7. Unheard(own)' = 0
  BY <1>1, <1>2, <1>6 DEF Unheard
<1>8. Early(L, front) \in Int
  BY <1>6, KnownMeasured DEF Measured
<1>9. Early(L, front)' <= 1 /\ (Early(L, front)' = 1 => Unheard(own)' <= lost')
  BY <1>1, <1>5, <1>7, <1>8, PaceLess
<1>10. L = Last' \/ Coming(rxMailbox', down', L)
  BY <1>2, <1>3, <1>4 DEF Paced, Coming
<1>11. front = Last'
  BY <1>2, <1>4 DEF Paced
<1> QED
  BY <1>2, <1>3, <1>9, <1>10, <1>11 DEF Paced

\* Steps of the receiver that change nothing that is measured.
LEMMA SamePaced ==
  ASSUME Known, NEW L \in -1..NumPkts, NEW own \in 0..MaxInFlight, NEW front \in -1..NumPkts,
         Paced(L, own, front), ReceiverStep, SameMail(rxMailbox, rxMailbox'),
         rxState' = rxState, rxResults' = rxResults, silence' = silence,
         rxExpectationSeqNo' = rxExpectationSeqNo, rxExpectationTimer' = rxExpectationTimer
  PROVE  Paced(L, own, front)'
<1>1. /\ Pend(rxMailbox') <=> Pend(rxMailbox)
      /\ PacketsIn(rxMailbox') = PacketsIn(rxMailbox)
      /\ \A k : Before(rxMailbox', k) <=> Before(rxMailbox, k)
      /\ \A k : Mail(rxMailbox', "PAYLOAD", k) <=> Mail(rxMailbox, "PAYLOAD", k)
  BY DEF SameMail
<1>2. down' = down /\ SP!StepsWaiting' = SP!StepsWaiting /\ lost' = lost
  BY ReceiverMoves
<1>3. Last' = Last /\ Early(L, front)' = Early(L, front) /\ Unheard(own)' = Unheard(own)
  BY <1>1, SamePace
<1>4. Coming(rxMailbox', down', L) <=> Coming(rxMailbox, down, L)
  BY <1>1, <1>2 DEF Coming
<1>5. L = Last' \/ Coming(rxMailbox', down', L)
  BY <1>3, <1>4 DEF Paced
<1>6. /\ front = Last' \/ Before(rxMailbox', front)
      /\ \A k \in Chunk : Before(rxMailbox', k) => front = k
  BY <1>1, <1>3 DEF Paced
<1>7. own <= Len(down') /\ own + SP!StepsWaiting' <= MaxInFlight
  BY <1>2 DEF Paced
<1>8. Early(L, front)' <= 1 /\ (Early(L, front)' = 1 => Unheard(own)' <= lost')
  BY <1>2, <1>3 DEF Paced
<1> QED
  BY <1>5, <1>6, <1>7, <1>8 DEF Paced

\* A time-out handled: the expectation is where it was going.
LEMMA TimeoutPace ==
  ASSUME Known, Known', SenderInv, IdleInv, rxState = "RECEIVING",
         NEW L \in -1..NumPkts, NEW own \in 0..MaxInFlight, NEW front \in -1..NumPkts,
         Paced(L, own, front), ReceiverStep, R!HandleExpectationTimeout
  PROVE  Paced(L, own, front)'
<1>1. /\ rxMailbox # <<>> /\ Head(rxMailbox).type = "EXPECTATION"
      /\ UNCHANGED <<rxState, rxResults, lost>>
      /\ silence' = (IF rxExpectationTimer THEN silence ELSE 0)
      /\ rxMailbox' \in {Tail(rxMailbox), Append(Tail(rxMailbox), R!Stop)}
  BY TimeoutMoves
<1>2. rxExpectationSeqNo' = IF rxExpectationSeqNo < rxResults.last THEN rxResults.last + 1
                            ELSE IF rxExpectationSeqNo < NumPkts THEN rxExpectationSeqNo + 1
                            ELSE rxExpectationSeqNo
  BY TimeoutMoves
<1>3. /\ \A k : Mail(rxMailbox', "PAYLOAD", k) <=> Mail(rxMailbox, "PAYLOAD", k)
      /\ PacketsIn(rxMailbox') = PacketsIn(rxMailbox)
      /\ Pend(rxMailbox) /\ ~Pend(rxMailbox')
      /\ \A k : ~Before(rxMailbox, k) /\ ~Before(rxMailbox', k)
  BY <1>1, ExpectationTaken
<1>4. /\ down' = down /\ SP!StepsWaiting' = SP!StepsWaiting
  BY ReceiverMoves
<1>5. Last' = Last /\ Last = rxResults.last
  BY <1>1 DEF Last
<1>6. /\ L \in Int /\ front \in Int /\ own \in Nat /\ NumPkts \in Nat
  BY TransferAssumption
<1>7. /\ Unheard(own) \in Nat /\ silence \in Nat /\ PacketsIn(rxMailbox) \in {0, 1}
      /\ Last \in Int /\ rxExpectationSeqNo \in Nat
  BY <1>6, KnownMeasured DEF Measured
<1>8. front = Last
  BY <1>3 DEF Paced
<1>9. PICK e \in Int : e = rxExpectationSeqNo'
  BY <1>2, <1>5, <1>7
<1>10. e = IF rxExpectationSeqNo < Last THEN Last + 1
           ELSE IF rxExpectationSeqNo < NumPkts THEN rxExpectationSeqNo + 1
           ELSE rxExpectationSeqNo
  BY <1>2, <1>5, <1>9
<1>11. Early(L, front)' <= Early(L, front)
  <2>1. Early(L, front)' = e - L
    BY <1>3, <1>9 DEF Early
  <2>2. Early(L, front) = IF rxExpectationSeqNo < Last THEN Last + 1 - L ELSE rxExpectationSeqNo + 1 - L
    BY <1>3, <1>8 DEF Early
  <2>3. e - L <= Early(L, front)
    BY <1>6, <1>7, <1>9, <1>10, <2>2
  <2> QED
    BY <2>1, <2>3
<1>12. Unheard(own)' = 0 \/ Unheard(own)' = Unheard(own)
  <2>1. CASE rxExpectationTimer
    BY <1>1, <1>3, <2>1 DEF Unheard
  <2>2. CASE ~rxExpectationTimer
    <3>1. PacketsIn(rxMailbox) \in Nat
      BY <1>7
    <3> QED
      BY <1>1, <1>3, <1>6, <2>2, <3>1 DEF Unheard
  <2> QED
    BY <2>1, <2>2
<1>13. Unheard(own)' = 0 \/ Unheard(own)' <= Unheard(own)
  BY <1>7, <1>12
<1>14. Early(L, front)' <= 1 /\ (Early(L, front)' = 1 => Unheard(own)' <= lost')
  BY <1>1, <1>11, <1>13, PaceLess
<1>15. L = Last' \/ Coming(rxMailbox', down', L)
  BY <1>3, <1>4, <1>5 DEF Paced, Coming
<1> QED
  BY <1>3, <1>4, <1>5, <1>8, <1>14, <1>15 DEF Paced

\* The sender only goes on.
LEMMA SentGrows ==
  ASSUME Known, SenderInv, [KeptNext]_vars PROVE txLast <= txLast' /\ txLast' \in Int
<1>1. txLast \in Int /\ [Next]_vars
  BY KnownNumbers DEF Next
<1>2. CASE SenderStep
  BY <1>1, <1>2, AirMoves
<1>3. CASE ~SenderStep
  BY <1>1, <1>3, OwnState
<1> QED
  BY <1>2, <1>3

\* Only a payload makes the receiver receive.
LEMMA FirstIsPayload ==
  ASSUME Known, SenderInv, IdleInv, OrderInv, [KeptNext]_vars,
         rxState = "IDLE", rxState' = "RECEIVING"
  PROVE  ReceiverStep /\ R!HandlePayload
<1>1. rxState' # "STOPPED" /\ rxState # rxState' /\ rxState # "RECEIVING"
  OBVIOUS
<1>2. ReceiverStep
  BY <1>1, LastKept
<1>3. ~R!HandleResp
  BY <1>1, <1>2, RespMoves
<1>4. ~R!HandleInterestTimeout
  BY <1>1, <1>2, InterestMoves
<1>5. ~R!HandleExpectationTimeout
  BY <1>1, <1>2, TimeoutMoves
<1>6. ~(R!HandleOther \/ R!HandleStop)
  BY <1>1, <1>2, RestMoves
<1> QED
  BY <1>2, <1>3, <1>4, <1>5, <1>6, ReceiverMoves

\* PaceInv is kept by every step.
LEMMA NextPace ==
  ASSUME Known, Known', SenderInv, SenderInv', IdleInv, OrderInv, PaceInv, Budget, [KeptNext]_vars
  PROVE  PaceInv'
<1>1. SUFFICES ASSUME rxState' = "RECEIVING", ~AllSent'
               PROVE  \E L \in -1..NumPkts, own \in 0..MaxInFlight, front \in -1..NumPkts :
                        Paced(L, own, front)'
  BY DEF PaceInv, Open
<1>2. rxState' # "STOPPED" /\ rxState # "STOPPED"
  BY <1>1, LastKept
<1>3. ~AllSent
  BY <1>1, SentGrows, KnownNumbers DEF AllSent
<1>4. CASE rxState # "RECEIVING"
  <2>1. rxState = "IDLE"
    BY <1>2, <1>4 DEF Known, TypeOK, R!TypeOK
  <2>2. ReceiverStep /\ R!HandlePayload
    BY <1>1, <2>1, FirstIsPayload
  <2>3. PICK L \in -1..NumPkts : Paced(L, 0, L)'
    BY <2>1, <2>2, FirstPace
  <2>4. 0 \in 0..MaxInFlight
    BY TransferAssumption
  <2> QED
    BY <2>3, <2>4
<1>5. CASE rxState = "RECEIVING"
  <2>1. Open
    BY <1>3, <1>5 DEF Open
  <2>2. PICK L \in -1..NumPkts, own \in 0..MaxInFlight, front \in -1..NumPkts : Paced(L, own, front)
    BY <2>1 DEF PaceInv
  <2>3. CASE ReceiverStep
    <3>1. CASE R!HandlePayload
      <4>1. PICK L2 \in -1..NumPkts, front2 \in -1..NumPkts : Paced(L2, own, front2)'
        BY <1>5, <2>2, <2>3, <3>1, PayloadPace
      <4> QED
        BY <4>1
    <3>2. CASE R!HandleResp
      <4>1. Paced(L, own, front)'
        BY <1>5, <2>2, <2>3, <3>2, RespPace
      <4> QED
        BY <4>1
    <3>3. CASE R!HandleInterestTimeout
      <4>1. Paced(L, own, front)'
        BY <2>2, <2>3, <3>3, InterestMoves, SamePaced
      <4> QED
        BY <4>1
    <3>4. CASE R!HandleExpectationTimeout
      <4>1. Paced(L, own, front)'
        BY <1>5, <2>2, <2>3, <3>4, TimeoutPace
      <4> QED
        BY <4>1
    <3>5. CASE R!HandleOther \/ R!HandleStop
      <4>1. Paced(L, own, front)'
        BY <1>2, <2>2, <2>3, <3>5, RestMoves, SamePaced
      <4> QED
        BY <4>1
    <3> QED
      BY <2>3, <3>1, <3>2, <3>3, <3>4, <3>5, ReceiverMoves
  <2>4. CASE SenderStep \/ RelayAnswers
    <3>1. PICK L2 \in -1..NumPkts, own2 \in 0..MaxInFlight : Paced(L2, own2, front)'
      BY <1>1, <1>5, <2>2, <2>4, AirPace
    <3> QED
      BY <3>1
  <2>5. CASE PacketArrives /\ ~ReceiverStep
    <3>1. PICK own2 \in 0..MaxInFlight : Paced(L, own2, front)'
      BY <1>5, <2>2, <2>5, ArrivalPace
    <3> QED
      BY <3>1
  <2>6. CASE ExpectationTimerFires
    <3>1. PICK L2 \in -1..NumPkts, front2 \in -1..NumPkts : Paced(L2, own, front2)'
      BY <2>1, <2>2, <2>6, ExpectationPace
    <3> QED
      BY <3>1
  <2>7. CASE IntervalTimerFires \/ InterestTimerFires \/ Start \/ RequestArrives \/ UNCHANGED vars
    <3>1. Paced(L, own, front)'
      BY <2>2, <2>7, PlainPace
    <3> QED
      BY <3>1
  <2> QED
    BY <2>3, <2>4, <2>5, <2>6, <2>7 DEF KeptNext
<1> QED
  BY <1>4, <1>5

\* It holds at the start.
LEMMA InitPace == Init => PaceInv
<1>1. Init => rxState = "IDLE"
  BY DEF Init, R!Init
<1> QED
  BY <1>1 DEF PaceInv, Open

-----------------------------------------------------------------------------
(* The order is kept.                                                        *)

\* The sender's last chunk after a step.
LEMMA NextNumbers == Known' => txLast' \in Int /\ txLast' < NumPkts
BY NextMeasured DEF Measured

\* Once all is sent no payload is new.
LEMMA ComingShrinks ==
  ASSUME Known, Known', SenderInv, IdleInv, OrderInv, [KeptNext]_vars, rxState' # "STOPPED", AllSent
  PROVE  /\ AllSent'
         /\ \A k : Coming(rxMailbox', down', k) => Coming(rxMailbox, down, k)
         /\ \A k : Air(down', "PAYLOAD", k) => Air(down, "PAYLOAD", k)
<1>1. rxState # "STOPPED"
  BY LastKept
<1>2. AllSent' /\ txLast' < txLast + 1
  BY SentGrows, NextNumbers, KnownNumbers DEF AllSent
<1>3. CASE ReceiverStep
  <2>1. down' = down
    BY <1>3, ReceiverMoves
  <2>2. \A k : Coming(rxMailbox', down', k) => Coming(rxMailbox, down, k)
    BY <1>3, ComingTaken
  <2> QED
    BY <1>2, <2>1, <2>2
<1>4. CASE IntervalTimerFires \/ InterestTimerFires \/ Start \/ RequestArrives \/ UNCHANGED vars
  <2>1. down' = down /\ SameMail(rxMailbox, rxMailbox')
    BY <1>4, PlainMoves
  <2> QED
    BY <1>2, <2>1 DEF Coming, SameMail
<1>5. CASE SenderStep \/ RelayAnswers
  <2>1. rxMailbox' = rxMailbox
    BY <1>5, AirMoves DEF rxVars
  <2>2. \/ down' = down
        \/ \E p \in AirPacket(rxAsked) : down' = Append(down, p) /\ p.type = "RESP"
    BY <1>2, <1>5, AirMoves, KnownNumbers
  <2>3. \A k : Air(down', "PAYLOAD", k) => Air(down, "PAYLOAD", k)
    BY <2>2, DownAppend
  <2> QED
    BY <1>2, <2>1, <2>3 DEF Coming
<1>6. CASE PacketArrives
  <2>1. /\ down # <<>> /\ down' = Tail(down)
        /\ \A k : Mail(rxMailbox', "PAYLOAD", k) <=> "PAYLOAD" = Head(down).type /\ k = Head(down).seq
    BY <1>1, <1>6, ArrivalMoves
  <2>2. \A k : Air(down, "PAYLOAD", k) <=>
                 Air(Tail(down), "PAYLOAD", k) \/ (Head(down).type = "PAYLOAD" /\ Head(down).seq = k)
    BY <2>1, DownTail
  <2> QED
    BY <1>2, <2>1, <2>2 DEF Coming
<1>7. CASE ExpectationTimerFires
  <2>1. /\ down' = down
        /\ \A k : Mail(rxMailbox', "PAYLOAD", k) <=> Mail(rxMailbox, "PAYLOAD", k)
    BY <1>7, ExpectationMoves
  <2> QED
    BY <1>2, <2>1 DEF Coming
<1> QED
  BY <1>3, <1>4, <1>5, <1>6, <1>7 DEF KeptNext

\* What may be asked for, and what is past, stays so.
LEMMA DueGrows ==
  ASSUME Known, Known', SenderInv, IdleInv, OrderInv, [KeptNext]_vars, rxState' # "STOPPED"
  PROVE  /\ Due \subseteq Due' /\ Last <= Last' /\ Last' \in Int
         /\ \A k \in Int : k <= Last \/ Past(k) => k <= Last' \/ Past(k)'
<1>1. rxState # "STOPPED" /\ Last \in Int
  BY LastKept, KnownNumbers
<1>2. /\ Last <= Last' /\ Last' \in Int
      /\ \A p : Coming(rxMailbox, down, p) => Coming(rxMailbox', down', p) \/ p = Last'
  <2>1. CASE ReceiverStep
    BY <2>1, ComingTaken
  <2>2. CASE ~ReceiverStep
    <3>1. Last' = Last
      BY <2>2, LastKept
    <3>2. \A p : Coming(rxMailbox, down, p) => Coming(rxMailbox', down', p)
      BY <1>1, <2>2, ComingKept
    <3> QED
      BY <1>1, <3>1, <3>2
  <2> QED
    BY <2>1, <2>2
<1>3. ASSUME NEW k \in Due PROVE k \in Due'
  <2>1. k \in 0..NumPkts - 1 /\ k \in Int
    BY <1>3, TransferAssumption DEF Due
  <2>2. CASE k <= Last
    <3>1. k <= Last'
      BY <1>1, <1>2, <2>1, <2>2
    <3> QED
      BY <2>1, <3>1 DEF Due
  <2>3. CASE AllSent
    BY <2>1, <2>3, ComingShrinks DEF Due
  <2>4. CASE \E p \in Chunk : k <= p /\ Coming(rxMailbox, down, p)
    <3>1. PICK p \in Chunk : k <= p /\ Coming(rxMailbox, down, p)
      BY <2>4
    <3>2. CASE Coming(rxMailbox', down', p)
      BY <2>1, <3>1, <3>2 DEF Due
    <3>3. CASE p = Last'
      BY <2>1, <3>1, <3>3 DEF Due
    <3> QED
      BY <1>2, <3>1, <3>2, <3>3
  <2> QED
    BY <1>3, <2>2, <2>3, <2>4 DEF Due
<1>4. ASSUME NEW k \in Int, k <= Last \/ Past(k) PROVE k <= Last' \/ Past(k)'
  <2>1. CASE k <= Last
    BY <1>1, <1>2, <2>1
  <2>2. CASE Past(k)
    BY <2>2, ComingShrinks DEF Past
  <2> QED
    BY <1>4, <2>1, <2>2
<1> QED
  BY <1>2, <1>3, <1>4

\* An answer on its way, when a packet is added at the end.
LEMMA AirAhead ==
  ASSUME Known, OrderInv, rxState = "RECEIVING", NEW p \in AirPacket(rxAsked), NEW k \in Chunk,
         Ahead(Append(down, p), k),
         AllSent => \A q : Air(Append(down, p), "PAYLOAD", q) => Air(down, "PAYLOAD", q)
  PROVE  \/ k <= Last
         \/ \E q \in Chunk : k <= q /\ Mail(rxMailbox, "PAYLOAD", q)
         \/ AllSent /\ \A q \in Chunk : Air(Append(down, p), "PAYLOAD", q) => q < k
<1>1. Ordered
  BY DEF OrderInv
<1>2. CASE Ahead(down, k)
  BY <1>1, <1>2 DEF Ordered
<1>3. CASE /\ p.type = "RESP" /\ p.seq = k
           /\ \A q : Air(down, "PAYLOAD", q) => q < k
  <2>1. k \in rxAsked
    BY <1>3 DEF AirPacket
  <2>2. k \in Due
    BY <1>1, <2>1 DEF Ordered
  <2>3. \A q \in Chunk : Air(down, "PAYLOAD", q) => ~(k <= q)
    <3>1. \A q \in Chunk : q \in Int
      BY TransferAssumption DEF Chunk
    <3>2. k \in Int
      BY <3>1
    <3> QED
      BY <1>3, <3>1, <3>2
  <2> QED
    BY <1>3, <2>2, <2>3 DEF Due, Coming
<1> QED
  BY <1>2, <1>3, AheadAppend, KnownSequences

\* Steps other than the receiver's own.
LEMMA AirOrder ==
  ASSUME Known, Known', SenderInv, IdleInv, OrderInv, ~swapped, [KeptNext]_vars,
         rxState = "RECEIVING", ~ReceiverStep
  PROVE  OrderInv'
<1>1. /\ UNCHANGED <<rxState, rxResults, rxQueue, rxAsked, rxExpectationSeqNo>>
      /\ Last' = Last /\ rxState' # "STOPPED"
  BY OwnState DEF Last, Next
<1>2. Ordered
  BY DEF OrderInv
<1>3. /\ Due \subseteq Due'
      /\ \A k \in Int : k <= Last \/ Past(k) => k <= Last' \/ Past(k)'
  BY <1>1, DueGrows
<1>4. Chunk \subseteq Int /\ NumPkts \in Nat
  BY TransferAssumption DEF Chunk
<1>5. rxAsked' \subseteq Due' /\ rxQueue' \in Seq(Due') /\ rxExpectationSeqNo' <= NumPkts
  <2>1. rxQueue \in Seq(Due')
    BY <1>2, <1>3, SeqGrows DEF Ordered
  <2> QED
    BY <1>1, <1>2, <1>3, <2>1 DEF Ordered
<1>6. \A k \in RP!Marked(rxResults)' : k <= Last' \/ Past(k)'
  <2>1. RP!Marked(rxResults)' = RP!Marked(rxResults)
    BY <1>1 DEF RP!Marked
  <2>2. RP!Marked(rxResults) \subseteq Chunk
    BY SameReceiverParts DEF RP!Marked
  <2> QED
    BY <1>2, <1>3, <1>4, <2>1, <2>2 DEF Ordered
<1>7. AllSent => /\ AllSent'
                 /\ \A k : Coming(rxMailbox', down', k) => Coming(rxMailbox, down, k)
                 /\ \A k : Air(down', "PAYLOAD", k) => Air(down, "PAYLOAD", k)
  BY <1>1, ComingShrinks
<1> DEFINE Answered(k) == k < NumPkts /\ (k <= Last' \/ Past(k)')
           Followed(k) == \/ k <= Last'
                          \/ \E p \in Chunk : k <= p /\ Mail(rxMailbox', "PAYLOAD", p)
                          \/ AllSent' /\ \A p \in Chunk : Air(down', "PAYLOAD", p) => p < k
<1>8. ASSUME \A k : Mail(rxMailbox', "RESP", k) => Mail(rxMailbox, "RESP", k)
      PROVE  \A k \in Chunk : Mail(rxMailbox', "RESP", k) => Answered(k)
  BY <1>2, <1>3, <1>4, <1>8 DEF Ordered
<1>9. ASSUME \A k : Mail(rxMailbox, "PAYLOAD", k) => Mail(rxMailbox', "PAYLOAD", k),
             \A k \in Chunk : Ahead(down', k) =>
               Ahead(down, k)
      PROVE  \A k \in Chunk : Ahead(down', k) => Followed(k)
  BY <1>1, <1>2, <1>7, <1>9 DEF Ordered
<1>10. ASSUME \A k \in Chunk : Mail(rxMailbox', "RESP", k) => Answered(k),
              \A k \in Chunk : Ahead(down', k) => Followed(k)
       PROVE  OrderInv'
  BY <1>5, <1>6, <1>10 DEF OrderInv, Ordered
<1>11. CASE IntervalTimerFires \/ InterestTimerFires \/ Start \/ RequestArrives \/ UNCHANGED vars
  <2>1. down' = down /\ SameMail(rxMailbox, rxMailbox')
    BY <1>11, PlainMoves
  <2>2. /\ \A k : Mail(rxMailbox', "RESP", k) => Mail(rxMailbox, "RESP", k)
        /\ \A k : Mail(rxMailbox, "PAYLOAD", k) => Mail(rxMailbox', "PAYLOAD", k)
        /\ \A k \in Chunk : Ahead(down', k) => Ahead(down, k)
    BY <2>1 DEF SameMail
  <2> QED
    BY <1>8, <1>9, <1>10, <2>2
<1>12. CASE ExpectationTimerFires
  <2>1. /\ down' = down
        /\ \A u \in {"PAYLOAD", "RESP"} : \A k : Mail(rxMailbox', u, k) <=> Mail(rxMailbox, u, k)
    BY <1>12, ExpectationMoves
  <2>2. /\ \A k : Mail(rxMailbox', "RESP", k) => Mail(rxMailbox, "RESP", k)
        /\ \A k : Mail(rxMailbox, "PAYLOAD", k) => Mail(rxMailbox', "PAYLOAD", k)
        /\ \A k \in Chunk : Ahead(down', k) => Ahead(down, k)
    BY <2>1
  <2> QED
    BY <1>8, <1>9, <1>10, <2>2
<1>13. CASE SenderStep \/ RelayAnswers
  <2>1. rxMailbox' = rxMailbox
    BY <1>13, AirMoves DEF rxVars
  <2>2. \A k \in Chunk : Mail(rxMailbox', "RESP", k) => Answered(k)
    BY <1>8, <2>1
  <2>3. \A k \in Chunk : Ahead(down', k) => Followed(k)
    <3>1. CASE down' = down
      BY <1>9, <2>1, <3>1
    <3>2. CASE \E p \in AirPacket(rxAsked) : down' = Append(down, p)
      <4>1. PICK p \in AirPacket(rxAsked) : down' = Append(down, p)
        BY <3>2
      <4>2. ASSUME NEW k \in Chunk, Ahead(down', k) PROVE Followed(k)
        <5>1. \/ k <= Last
              \/ \E q \in Chunk : k <= q /\ Mail(rxMailbox, "PAYLOAD", q)
              \/ AllSent /\ \A q \in Chunk : Air(down', "PAYLOAD", q) => q < k
          BY <1>7, <4>1, <4>2, AirAhead
        <5> QED
          BY <1>1, <1>7, <2>1, <5>1
      <4> QED
        BY <4>2
    <3> QED
      BY <1>13, <3>1, <3>2, AirMoves
  <2> QED
    BY <1>10, <2>2, <2>3
<1>14. CASE PacketArrives
  <2> DEFINE p == Head(down)
  <2>1. /\ down # <<>> /\ down' = Tail(down) /\ p.type \in {"PAYLOAD", "RESP"}
        /\ p.seq \in Chunk /\ (p.type = "RESP" => p.seq \in rxAsked)
        /\ \A k : ~Mail(rxMailbox, "PAYLOAD", k)
        /\ \A u \in {"PAYLOAD", "RESP"} : \A k : Mail(rxMailbox', u, k) <=> u = p.type /\ k = p.seq
    BY <1>1, <1>14, ArrivalMoves
  <2>2. /\ \A k : Ahead(Tail(down), k) =>
             Ahead(down, k) \/ (p.type = "PAYLOAD" /\ ~(p.seq < k))
        /\ p.type = "RESP" => Ahead(down, p.seq)
    BY <2>1, KnownSequences, AheadTail
  <2>3. /\ p.type = "RESP" => p.seq \in rxAsked
        /\ p.type = "PAYLOAD" => p.seq \in Chunk
    BY <2>1
  <2> HIDE DEF p
  <2>4. ASSUME NEW k \in Chunk, Ahead(down, k)
        PROVE  k <= Last \/ (AllSent /\ \A q \in Chunk : Air(down, "PAYLOAD", q) => q < k)
    BY <1>2, <2>1, <2>4 DEF Ordered
  <2>5. ASSUME NEW k \in Chunk, Mail(rxMailbox', "RESP", k) PROVE Answered(k)
    <3>1. p.type = "RESP" /\ k = p.seq
      BY <2>1, <2>5
    <3>2. k < NumPkts /\ k \in Int
      <4>1. k \in Due
        BY <1>2, <2>3, <3>1 DEF Ordered
      <4> QED
        BY <1>4, <4>1 DEF Due
    <3>3. k <= Last \/ (AllSent /\ \A q \in Chunk : Air(down, "PAYLOAD", q) => q < k)
      BY <2>2, <2>4, <3>1
    <3>4. k <= Last \/ Past(k)
      BY <2>1, <3>3 DEF Past, Coming
    <3> QED
      BY <1>3, <3>2, <3>4
  <2>6. ASSUME NEW k \in Chunk, Ahead(down', k) PROVE Followed(k)
    <3>1. CASE Ahead(down, k)
      BY <1>1, <1>7, <2>4, <3>1
    <3>2. CASE p.type = "PAYLOAD" /\ ~(p.seq < k)
      <4>1. p.seq \in Chunk /\ k <= p.seq
        <5>1. p.seq \in Chunk /\ p.seq \in Int /\ k \in Int
          BY <1>4, <2>3, <3>2
        <5> QED
          BY <3>2, <5>1
      <4>2. Mail(rxMailbox', "PAYLOAD", p.seq)
        BY <2>1, <3>2
      <4> QED
        BY <4>1, <4>2
    <3> QED
      BY <2>1, <2>2, <2>6, <3>1, <3>2
  <2> QED
    BY <1>10, <2>5, <2>6
<1> QED
  BY <1>11, <1>12, <1>13, <1>14 DEF KeptNext

\* Before the first payload there is nothing to order.
LEMMA IdleOrdered ==
  ASSUME Known, IdleInv, rxState = "IDLE" PROVE Ordered
<1>1. /\ RP!Marked(rxResults) = {} /\ rxQueue = <<>> /\ rxAsked = {} /\ rxExpectationSeqNo = 0
      /\ \A i \in DOMAIN rxMailbox : rxMailbox[i].type = "PAYLOAD"
  BY DEF IdleInv, RP!Marked, RP!CleanResults
<1>2. \A k : ~Mail(rxMailbox, "RESP", k)
  BY <1>1 DEF Mail
<1>3. \A k : ~Ahead(down, k)
  <2>1. \A k : ~Air(down, "RESP", k)
    BY <1>1, KnownPayloads
  <2> QED
    BY <2>1 DEF Ahead, Air
<1>4. 0 <= NumPkts /\ <<>> \in Seq(Due)
  BY TransferAssumption
<1> QED
  BY <1>1, <1>2, <1>3, <1>4 DEF Ordered

\* An expectation that is not too early is of chunks that were sent.
LEMMA ExpectedDue ==
  ASSUME PaceInv, Known, rxState = "RECEIVING", ~Pend(rxMailbox), rxExpectationSeqNo <= NumPkts,
         NEW i \in Chunk, i < rxExpectationSeqNo
  PROVE  i \in Due
<1>1. i \in Int /\ i \in 0..NumPkts - 1 /\ rxExpectationSeqNo \in Nat /\ Last \in Int
  <2>1. rxExpectationSeqNo \in Nat /\ Last \in Int /\ NumPkts \in Nat
    BY KnownNumbers
  <2>2. i \in Nat
    BY <2>1 DEF Chunk
  <2> QED
    BY <2>1, <2>2
<1>2. CASE AllSent
  BY <1>1, <1>2 DEF Due
<1>3. CASE ~AllSent
  <2>1. PICK L \in -1..NumPkts, own \in 0..MaxInFlight, front \in -1..NumPkts : Paced(L, own, front)
    BY <1>3 DEF PaceInv, Open
  <2>2. Early(L, front) = rxExpectationSeqNo - L
    BY DEF Early
  <2>3. Early(L, front) <= 1
    BY <2>1 DEF Paced
  <2>4. L \in Int
    BY <2>1, TransferAssumption
  <2>5. i <= L
    BY <1>1, <2>2, <2>3, <2>4
  <2>6. CASE L = Last
    BY <1>1, <2>5, <2>6 DEF Due
  <2>7. CASE Coming(rxMailbox, down, L)
    <3>1. L \in Chunk
      BY <2>7, ComingTyped
    <3> QED
      BY <1>1, <2>5, <2>7, <3>1 DEF Due
  <2> QED
    BY <2>1, <2>6, <2>7 DEF Paced
<1> QED
  BY <1>2, <1>3

\* The same after a step.
PacedDue ==
  PaceInv /\ Known /\ rxState = "RECEIVING" /\ ~Pend(rxMailbox) /\ rxExpectationSeqNo <= NumPkts =>
    \A i \in Chunk : i < rxExpectationSeqNo => i \in Due

\* PacedDue holds, by ExpectedDue.
LEMMA NowDue == PacedDue
BY ExpectedDue DEF PacedDue

\* And after a step.
LEMMA NextDue == PacedDue'
BY NowDue, PTL

\* A list of chunks below what is due.
LEMMA QueueDue ==
  ASSUME Known, NEW A, rxQueue \in Seq(A), NEW list \in Seq(A)
  PROVE  RP!EnqueueAll(rxQueue, list) \in Seq(A)
BY KnownSequences, RP!EnqueueAllType, ReceiverConstants, QueueLenAssumption

\* What a handler leaves in the mailbox.
LEMMA HandledMail ==
  ASSUME Known, IdleInv, OrderInv, ReceiverStep, rxState' # "STOPPED"
  PROVE  \A k : Mail(rxMailbox', "RESP", k) => Mail(rxMailbox, "RESP", k)
<1>1. CASE R!HandlePayload
  <2>1. /\ rxMailbox # <<>> /\ Head(rxMailbox).type = "PAYLOAD"
        /\ rxMailbox' \in {Tail(rxMailbox), Append(Tail(rxMailbox), R!Stop)}
    BY <1>1, PayloadMoves
  <2>2. \A k : ~Mail(rxMailbox', "RESP", k)
    BY <2>1, PayloadTaken
  <2> QED
    BY <2>2
<1>2. CASE R!HandleResp
  <2>1. /\ rxMailbox # <<>> /\ Head(rxMailbox).type = "RESP"
        /\ rxMailbox' \in {Tail(rxMailbox), Append(Tail(rxMailbox), R!Stop)}
    BY <1>2, RespMoves
  <2>2. \A k : ~Mail(rxMailbox', "RESP", k)
    BY <2>1, RespTaken
  <2> QED
    BY <2>2
<1>3. CASE R!HandleInterestTimeout
  BY <1>3, InterestMoves DEF SameMail
<1>4. CASE R!HandleExpectationTimeout
  <2>1. /\ rxMailbox # <<>> /\ Head(rxMailbox).type = "EXPECTATION"
        /\ rxMailbox' \in {Tail(rxMailbox), Append(Tail(rxMailbox), R!Stop)}
    BY <1>4, TimeoutMoves
  <2> QED
    BY <2>1, ExpectationTaken
<1>5. CASE R!HandleOther \/ R!HandleStop
  BY <1>5, RestMoves DEF SameMail
<1> QED
  BY <1>1, <1>2, <1>3, <1>4, <1>5, ReceiverMoves

\* Steps of the receiver's thread.
LEMMA ThreadOrder ==
  ASSUME Known, Known', SenderInv, IdleInv, OrderInv, PaceInv', [KeptNext]_vars,
         ReceiverStep, rxState' = "RECEIVING"
  PROVE  OrderInv'
<1>1. rxState' # "STOPPED" /\ rxState \in {"IDLE", "RECEIVING"}
  BY ReceiverMoves
<1>2. Ordered
  BY <1>1, IdleOrdered DEF OrderInv
<1>3. /\ Due \subseteq Due' /\ Last <= Last' /\ Last' \in Int
      /\ \A k \in Int : k <= Last \/ Past(k) => k <= Last' \/ Past(k)'
  BY <1>1, DueGrows
<1>4. Chunk \subseteq Int /\ NumPkts \in Nat /\ Last \in Int /\ down' = down
      /\ -1 <= Last /\ Last < NumPkts /\ rxExpectationSeqNo \in Nat /\ rxQueue \in Seq(Due')
  <2>1. Chunk \subseteq Int
    BY TransferAssumption DEF Chunk
  <2>2. NumPkts \in Nat /\ Last \in Int /\ -1 <= Last /\ Last < NumPkts /\ rxExpectationSeqNo \in Nat
    BY KnownNumbers
  <2>3. down' = down
    BY ReceiverMoves
  <2>4. rxQueue \in Seq(Due')
    BY <1>2, <1>3, SeqGrows DEF Ordered
  <2> QED
    BY <2>1, <2>2, <2>3, <2>4
<1>5. \A k \in Chunk : Mail(rxMailbox', "RESP", k) => k < NumPkts /\ (k <= Last' \/ Past(k)')
  <2>1. \A k : Mail(rxMailbox', "RESP", k) => Mail(rxMailbox, "RESP", k)
    BY <1>1, HandledMail
  <2> QED
    BY <1>2, <1>3, <1>4, <2>1 DEF Ordered
<1>6. ASSUME NEW k \in Chunk, Ahead(down', k)
      PROVE  \/ k <= Last'
             \/ \E p \in Chunk : k <= p /\ Mail(rxMailbox', "PAYLOAD", p)
             \/ AllSent' /\ \A p \in Chunk : Air(down', "PAYLOAD", p) => p < k
  <2>1. Ahead(down, k) /\ k \in Int
    BY <1>4, <1>6
  <2>2. CASE k <= Last
    BY <1>3, <1>4, <2>1, <2>2
  <2>3. CASE \E p \in Chunk : k <= p /\ Mail(rxMailbox, "PAYLOAD", p)
    <3>1. PICK p \in Chunk : k <= p /\ Mail(rxMailbox, "PAYLOAD", p)
      BY <2>3
    <3>2. Coming(rxMailbox', down', p) \/ p = Last'
      BY <1>1, <3>1, ComingTaken DEF Coming
    <3>3. ~Air(down', "PAYLOAD", p)
      <4>1. p \in Int
        BY <1>4
      <4> QED
        BY <1>4, <3>1, <4>1, ComingTyped
    <3> QED
      BY <3>1, <3>2, <3>3 DEF Coming
  <2>4. CASE AllSent /\ \A p \in Chunk : Air(down, "PAYLOAD", p) => p < k
    BY <1>1, <1>4, <2>4, ComingShrinks
  <2> QED
    BY <1>2, <2>1, <2>2, <2>3, <2>4 DEF Ordered
<1>7. ASSUME rxExpectationSeqNo' <= NumPkts, rxAsked' \subseteq Due', rxQueue' \in Seq(Due'),
             \A k \in RP!Marked(rxResults)' : k <= Last' \/ Past(k)'
      PROVE  OrderInv'
  BY <1>5, <1>6, <1>7 DEF OrderInv, Ordered
<1>8. \A k \in RP!Marked(rxResults) : k <= Last' \/ Past(k)'
  <2>1. RP!Marked(rxResults) \subseteq Chunk
    BY SameReceiverParts DEF RP!Marked
  <2> QED
    BY <1>2, <1>3, <1>4, <2>1 DEF Ordered
<1>9. /\ rxAsked \subseteq Due' /\ rxExpectationSeqNo <= NumPkts
  BY <1>2, <1>3 DEF Ordered
<1>10. CASE R!HandlePayload
  <2> DEFINE k == Head(rxMailbox).val
  <2>1. /\ k \in Chunk /\ k < NumPkts /\ rxState' = "RECEIVING" /\ rxResults'.last = k
        /\ UNCHANGED <<rxAsked, rxExpectationSeqNo>>
        /\ \/ rxQueue' = rxQueue
           \/ \E gap \in Seq({i \in Int : Last < i /\ i < k}) : rxQueue' = RP!EnqueueAll(rxQueue, gap)
        /\ RP!Marked(rxResults') = RP!Marked(rxResults) \union {k}
    BY <1>10, PayloadMoves
  <2> HIDE DEF k
  <2>2. Last' = k /\ k \in Int
    BY <1>4, <2>1 DEF Last
  <2>3. rxQueue' \in Seq(Due')
    <3>1. CASE rxQueue' = rxQueue
      BY <1>4, <3>1
    <3>2. CASE \E gap \in Seq({i \in Int : Last < i /\ i < k}) : rxQueue' = RP!EnqueueAll(rxQueue, gap)
      <4>1. PICK gap \in Seq({i \in Int : Last < i /\ i < k}) : rxQueue' = RP!EnqueueAll(rxQueue, gap)
        BY <3>2
      <4>2. {i \in Int : Last < i /\ i < k} \subseteq Due'
        <5>1. ASSUME NEW i \in Int, Last < i, i < k PROVE i \in 0..NumPkts - 1 /\ i <= Last'
          BY <1>4, <2>1, <2>2, <5>1
        <5> QED
          BY <5>1 DEF Due
      <4>3. gap \in Seq(Due')
        BY <4>2, SeqGrows
      <4> QED
        BY <1>4, <4>1, <4>3, QueueDue
    <3> QED
      BY <2>1, <3>1, <3>2
  <2>4. \A i \in RP!Marked(rxResults)' : i <= Last' \/ Past(i)'
    <3>1. RP!Marked(rxResults)' = RP!Marked(rxResults) \union {k}
      BY <2>1 DEF RP!Marked
    <3> QED
      BY <1>8, <2>2, <3>1
  <2> QED
    BY <1>7, <1>9, <2>1, <2>3, <2>4
<1>11. CASE R!HandleResp
  <2>1. PICK k \in Chunk :
          /\ Mail(rxMailbox, "RESP", k)
          /\ UNCHANGED <<rxAsked, rxExpectationSeqNo, rxQueue>>
          /\ rxResults' = rxResults \/ RP!Marked(rxResults') = RP!Marked(rxResults) \union {k}
    BY <1>11, RespMoves
  <2>2. k <= Last' \/ Past(k)'
    BY <1>2, <1>3, <1>4, <2>1 DEF Ordered
  <2>3. \A i \in RP!Marked(rxResults)' : i <= Last' \/ Past(i)'
    <3>1. RP!Marked(rxResults)' \subseteq RP!Marked(rxResults) \union {k}
      BY <2>1 DEF RP!Marked
    <3> QED
      BY <1>8, <2>2, <3>1
  <2> QED
    BY <1>4, <1>7, <1>9, <2>1, <2>3
<1>12. CASE R!HandleInterestTimeout
  <2>1. /\ UNCHANGED <<rxResults, rxExpectationSeqNo>>
        /\ rxAsked' \subseteq Due' /\ rxQueue' \in Seq(Due')
    BY <1>4, <1>9, <1>12, InterestMoves
  <2>2. RP!Marked(rxResults)' = RP!Marked(rxResults)
    BY <2>1 DEF RP!Marked
  <2> QED
    BY <1>7, <1>8, <1>9, <2>1, <2>2
<1>13. CASE R!HandleExpectationTimeout
  <2>1. /\ rxMailbox # <<>> /\ Head(rxMailbox).type = "EXPECTATION" /\ rxState = "RECEIVING"
        /\ UNCHANGED <<rxResults, rxAsked>>
        /\ rxMailbox' \in {Tail(rxMailbox), Append(Tail(rxMailbox), R!Stop)}
        /\ \E missing \in Seq({i \in Chunk : i < rxExpectationSeqNo'}) :
             rxQueue' = RP!EnqueueAll(rxQueue, missing)
    BY <1>13, TimeoutMoves
  <2>2. rxExpectationSeqNo' <= NumPkts
    <3>1. rxExpectationSeqNo' = IF rxExpectationSeqNo < Last THEN Last + 1
                                ELSE IF rxExpectationSeqNo < NumPkts THEN rxExpectationSeqNo + 1
                                ELSE rxExpectationSeqNo
      BY <1>13, <2>1, TimeoutMoves DEF Last
    <3> QED
      BY <1>4, <1>9, <3>1
  <2>3. ~Pend(rxMailbox')
    BY <2>1, ExpectationTaken
  <2>4. {i \in Chunk : i < rxExpectationSeqNo'} \subseteq Due'
    BY <2>2, <2>3, NextDue DEF PacedDue, Pend
  <2>5. rxQueue' \in Seq(Due')
    <3>1. PICK missing \in Seq({i \in Chunk : i < rxExpectationSeqNo'}) :
            rxQueue' = RP!EnqueueAll(rxQueue, missing)
      BY <2>1
    <3>2. missing \in Seq(Due')
      BY <2>4, SeqGrows
    <3> QED
      BY <1>4, <3>1, <3>2, QueueDue
  <2>6. RP!Marked(rxResults)' = RP!Marked(rxResults)
    BY <2>1 DEF RP!Marked
  <2> QED
    BY <1>7, <1>8, <1>9, <2>1, <2>2, <2>5, <2>6
<1>14. CASE R!HandleOther \/ R!HandleStop
  <2>1. UNCHANGED <<rxResults, rxQueue, rxAsked, rxExpectationSeqNo>>
    BY <1>1, <1>14, RestMoves
  <2>2. RP!Marked(rxResults)' = RP!Marked(rxResults)
    BY <2>1 DEF RP!Marked
  <2> QED
    BY <1>4, <1>7, <1>8, <1>9, <2>1, <2>2
<1> QED
  BY <1>10, <1>11, <1>12, <1>13, <1>14, ReceiverMoves

\* OrderInv is kept by every step.
LEMMA NextOrder ==
  ASSUME Known, Known', SenderInv, IdleInv, OrderInv, PaceInv', ~swapped, [KeptNext]_vars PROVE OrderInv'
<1>1. SUFFICES ASSUME rxState' = "RECEIVING" PROVE OrderInv'
  BY DEF OrderInv
<1>2. CASE ReceiverStep
  BY <1>1, <1>2, ThreadOrder
<1>3. CASE ~ReceiverStep
  <2>1. rxState = "RECEIVING"
    BY <1>1, <1>3, OwnState DEF Next
  <2> QED
    BY <1>3, <2>1, AirOrder
<1> QED
  BY <1>2, <1>3

\* It holds at the start.
LEMMA InitOrder == Init => OrderInv
<1>1. Init => rxState = "IDLE"
  BY DEF Init, R!Init
<1> QED
  BY <1>1 DEF OrderInv

-----------------------------------------------------------------------------
(* The count is kept, and the file is whole when the thread stops.           *)

\* All chunks are marked.
LEMMA AllMarked ==
  ASSUME NEW M \in SUBSET (0..NumPkts - 1), RP!Cardinality(M) = NumPkts
  PROVE  M = 0..NumPkts - 1
<1>1. NumPkts \in Nat /\ NumPkts > 0
  BY TransferAssumption
<1>2. IsFiniteSet(0..NumPkts - 1) /\ Cardinality(0..NumPkts - 1) = NumPkts
  <2>1. 0 \in Int /\ NumPkts - 1 \in Int /\ ~(0 > NumPkts - 1)
    BY <1>1
  <2>2. /\ IsFiniteSet(0..NumPkts - 1)
        /\ Cardinality(0..NumPkts - 1) = IF 0 > NumPkts - 1 THEN 0 ELSE NumPkts - 1 - 0 + 1
    BY <2>1, FS_Interval
  <2> QED
    BY <1>1, <2>1, <2>2
<1>3. Cardinality(M) = Cardinality(0..NumPkts - 1)
  BY <1>2, SameCardinality
<1> QED
  BY <1>2, <1>3, FS_Subset

\* One chunk more is counted.
LEMMA OneMore ==
  ASSUME Known, Tallied, NEW k \in Int, 0 <= k, k < NumPkts, k \notin RP!Marked(rxResults),
         RP!Marked(rxResults') = RP!Marked(rxResults) \union {k},
         rxResults'.unique = rxResults.unique + 1,
         RP!Holds(rxMailbox', "STOP") => RP!Holds(rxMailbox, "STOP") \/ rxResults'.unique = NumPkts
  PROVE  Tallied'
<1> DEFINE M == RP!Marked(rxResults)
<1>1. NumPkts \in Nat /\ k \in 0..NumPkts - 1
  BY TransferAssumption
<1>2. k \in RP!Chunk /\ M \in SUBSET RP!Chunk
  BY <1>1, SameReceiverParts DEF RP!Marked, Chunk
<1>3. RP!Cardinality(M \union {k}) = RP!Cardinality(M) + 1
  BY <1>2, RP!MarkedFinite, ReceiverConstants, QueueLenAssumption
<1>4. ~RP!Holds(rxMailbox, "STOP")
  <2>1. ASSUME RP!Holds(rxMailbox, "STOP") PROVE FALSE
    <3>1. M = 0..NumPkts - 1
      BY <2>1, AllMarked DEF Tallied
    <3> QED
      BY <1>1, <3>1
  <2> QED
    BY <2>1
<1>5. RP!Marked(rxResults)' = M \union {k}
  BY DEF RP!Marked
<1> HIDE DEF M
<1>6. RP!Marked(rxResults)' \subseteq 0..NumPkts - 1
  BY <1>1, <1>5 DEF Tallied, M
<1>7. rxResults'.unique = RP!Cardinality(RP!Marked(rxResults)')
  BY <1>3, <1>5 DEF Tallied, M
<1> QED
  BY <1>4, <1>6, <1>7 DEF Tallied, RP!Cardinality

\* Nothing is counted.
LEMMA SameTally ==
  ASSUME Tallied, rxResults' = rxResults,
         RP!Holds(rxMailbox', "STOP") => RP!Holds(rxMailbox, "STOP") \/ rxResults'.unique = NumPkts
  PROVE  Tallied'
<1>1. RP!Marked(rxResults)' = RP!Marked(rxResults)
  BY DEF RP!Marked
<1> QED
  BY <1>1 DEF Tallied, RP!Cardinality

\* Before the first payload nothing is marked and nothing counted.
LEMMA IdleTallied ==
  ASSUME IdleInv, rxState = "IDLE" PROVE Tallied /\ ~RP!Holds(rxMailbox, "STOP")
<1>1. rxResults = RP!CleanResults /\ RP!Marked(rxResults) = {}
  BY DEF IdleInv, RP!Marked, RP!CleanResults
<1>2. RP!Cardinality({}) = 0
  BY FS_EmptySet, SameCardinality
<1>3. rxResults.unique = 0
  BY <1>1 DEF RP!CleanResults
<1>4. ~RP!Holds(rxMailbox, "STOP")
  BY DEF IdleInv, RP!Holds
<1> QED
  BY <1>1, <1>2, <1>3, <1>4 DEF Tallied

\* MarkInv is kept by every step.
LEMMA NextMark ==
  ASSUME Known, SenderInv, IdleInv, OrderInv, MarkInv, [KeptNext]_vars PROVE MarkInv'
<1>1. SUFFICES ASSUME rxState' = "RECEIVING" PROVE Tallied'
  BY DEF MarkInv
<1>2. rxState' # "STOPPED"
  BY <1>1
<1>3. CASE ReceiverStep
  <2>1. Tallied
    BY <1>3, ReceiverMoves, IdleTallied DEF MarkInv
  <2>2. CASE R!HandlePayload
    <3>1. PICK k \in Chunk :
            /\ k < NumPkts /\ k \notin RP!Marked(rxResults)
            /\ RP!Marked(rxResults') = RP!Marked(rxResults) \union {k}
            /\ rxResults'.unique = rxResults.unique + 1
            /\ RP!Holds(rxMailbox', "STOP") =>
                 RP!Holds(rxMailbox, "STOP") \/ rxResults'.unique = NumPkts
      BY <1>3, <2>2, PayloadMoves
    <3>2. k \in Int /\ 0 <= k
      BY <3>1, TransferAssumption DEF Chunk
    <3> QED
      BY <2>1, <3>1, <3>2, OneMore
  <2>3. CASE R!HandleResp
    <3>1. PICK k \in Chunk :
            /\ Mail(rxMailbox, "RESP", k)
            /\ rxState = "RECEIVING"
            /\ \/ rxResults' = rxResults
               \/ /\ k \notin RP!Marked(rxResults)
                  /\ RP!Marked(rxResults') = RP!Marked(rxResults) \union {k}
                  /\ rxResults'.unique = rxResults.unique + 1
            /\ RP!Holds(rxMailbox', "STOP") =>
                 RP!Holds(rxMailbox, "STOP") \/ rxResults'.unique = NumPkts
      BY <1>3, <2>3, RespMoves
    <3>2. k \in Int /\ 0 <= k
      BY <3>1, TransferAssumption DEF Chunk
    <3>3. k < NumPkts
      BY <3>1 DEF OrderInv, Ordered
    <3>4. CASE rxResults' = rxResults
      BY <2>1, <3>1, <3>4, SameTally
    <3>5. CASE rxResults' # rxResults
      BY <2>1, <3>1, <3>2, <3>3, <3>5, OneMore
    <3> QED
      BY <3>4, <3>5
  <2>4. CASE R!HandleInterestTimeout
    BY <1>3, <2>1, <2>4, InterestMoves, SameTally
  <2>5. CASE R!HandleExpectationTimeout
    BY <1>3, <2>1, <2>5, TimeoutMoves, SameTally
  <2>6. CASE R!HandleOther \/ R!HandleStop
    BY <1>2, <1>3, <2>1, <2>6, RestMoves, SameTally
  <2> QED
    BY <1>3, <2>2, <2>3, <2>4, <2>5, <2>6, ReceiverMoves
<1>4. CASE ~ReceiverStep
  <2>1. rxState = "RECEIVING" /\ rxResults' = rxResults
    BY <1>1, <1>4, OwnState DEF Next
  <2>2. Tallied
    BY <2>1 DEF MarkInv
  <2>3. RP!Holds(rxMailbox', "STOP") => RP!Holds(rxMailbox, "STOP")
    <3>1. CASE SenderStep \/ RelayAnswers
      <4>1. rxMailbox' = rxMailbox
        BY <3>1, AirMoves DEF rxVars
      <4> QED
        BY <4>1 DEF RP!Holds
    <3>2. CASE PacketArrives
      BY <2>1, <3>2, ArrivalMoves
    <3>3. CASE ExpectationTimerFires
      BY <3>3, ExpectationMoves
    <3>4. CASE IntervalTimerFires \/ InterestTimerFires \/ Start \/ RequestArrives \/ UNCHANGED vars
      BY <3>4, PlainMoves
    <3> QED
      BY <1>4, <3>1, <3>2, <3>3, <3>4 DEF KeptNext
  <2> QED
    BY <2>1, <2>2, <2>3, SameTally
<1> QED
  BY <1>3, <1>4

\* So is CompleteIsTrue.
LEMMA NextComplete ==
  ASSUME Known, Known', IdleInv, MarkInv, OrderInv, ~swapped, CompleteIsTrue, [KeptNext]_vars
  PROVE  CompleteIsTrue'
<1>1. SUFFICES ASSUME rxState' = "STOPPED" PROVE R!File' \subseteq rxResults'.file
  BY DEF CompleteIsTrue
<1> [Next]_vars
  BY DEF Next
<1>2. R!File = 0..NumPkts - 1 /\ R!File' = 0..NumPkts - 1
  BY DEF Known, TheConfig, R!File
<1>3. CASE rxState = "STOPPED"
  <2>1. ~ReceiverStep
    BY <1>3, ReceiverMoves
  <2>2. rxResults' = rxResults
    BY <2>1, OwnState
  <2> QED
    BY <1>2, <1>3, <2>2 DEF CompleteIsTrue
<1>4. CASE rxState # "STOPPED"
  <2>1. ReceiverStep
    BY <1>1, <1>4, OwnState
  <2>2. ~R!HandlePayload
    BY <1>1, <2>1, PayloadMoves
  <2>3. ~R!HandleResp
    BY <1>1, <1>4, <2>1, RespMoves
  <2>4. ~R!HandleInterestTimeout
    BY <1>1, <1>4, <2>1, InterestMoves
  <2>5. ~R!HandleExpectationTimeout
    BY <1>1, <1>4, <2>1, TimeoutMoves
  <2>6. R!HandleOther \/ R!HandleStop
    BY <2>1, <2>2, <2>3, <2>4, <2>5, ReceiverMoves
  <2>7. rxResults' = rxResults /\ RP!Holds(rxMailbox, "STOP")
    BY <1>1, <1>4, <2>1, <2>6, RestMoves
  <2>8. rxState = "RECEIVING"
    BY <2>1, <2>7, ReceiverMoves, IdleTallied
  <2>9. RP!Marked(rxResults) = 0..NumPkts - 1
    BY <2>7, <2>8, AllMarked DEF MarkInv, Tallied
  <2>10. RP!Marked(rxResults) \subseteq rxResults.file
    BY <2>8 DEF Known, RP!CountInv, RP!Covers
  <2> QED
    BY <1>2, <2>7, <2>9, <2>10
<1> QED
  BY <1>3, <1>4

-----------------------------------------------------------------------------
\* As long as no relay has swapped a chunk.
Whole ==
  /\ Known /\ SenderInv /\ IdleInv /\ CompleteIsTrue
  /\ ~swapped => OrderInv /\ PaceInv /\ MarkInv

\* All parts of the argument hold at the start.
LEMMA InitWhole == Init => Whole
<1>1. Init => rxState = "IDLE"
  BY DEF Init, R!Init
<1>2. Init => MarkInv /\ CompleteIsTrue
  BY <1>1 DEF MarkInv, CompleteIsTrue
<1> QED
  BY <1>2, InitKnown, InitSender, InitIdle, InitOrder, InitPace DEF Whole

\* What has been swapped was: without, every step is one of KeptNext.
LEMMA SwapIsRemembered ==
  ASSUME [Next]_vars, ~swapped' PROVE ~swapped /\ [KeptNext]_vars
<1>1. ~RelaySwaps
  BY DEF RelaySwaps
<1>2. [KeptNext]_vars
  BY <1>1 DEF Next
<1>3. KeptNext => swapped' = swapped
  BY DEF KeptNext, SenderStep, ReceiverStep, IntervalTimerFires, InterestTimerFires,
         ExpectationTimerFires, Start, PacketArrives, RequestArrives, RelayAnswers, airVars, relayVars
<1>4. UNCHANGED vars => swapped' = swapped
  BY DEF vars, airVars, relayVars
<1> QED
  BY <1>2, <1>3, <1>4

\* They are kept together by every step.
LEMMA NextWhole == ASSUME Sizes, Budget, Whole, [Next]_vars PROVE Whole'
<1>1. Known /\ SenderInv /\ IdleInv /\ CompleteIsTrue
  BY DEF Whole
<1>2. Known'
  BY <1>1, NextKnown
<1>3. SenderInv' /\ IdleInv'
  BY <1>1, SenderKept, NextIdle
<1>4. CASE ~swapped'
  <2>1. ~swapped /\ [KeptNext]_vars
    BY <1>4, SwapIsRemembered
  <2>2. OrderInv /\ PaceInv /\ MarkInv
    BY <2>1 DEF Whole
  <2>3. PaceInv'
    BY <1>1, <1>2, <1>3, <2>1, <2>2, NextPace
  <2>4. OrderInv' /\ MarkInv' /\ CompleteIsTrue'
    BY <1>1, <1>2, <2>1, <2>2, <2>3, NextOrder, NextMark, NextComplete
  <2> QED
    BY <1>2, <1>3, <2>3, <2>4 DEF Whole
<1>5. CASE swapped'
  BY <1>2, <1>3, <1>5 DEF Whole, CompleteIsTrue
<1> QED
  BY <1>4, <1>5

\* As long as the expectation timer outlasts the packets that may be in the air
\* and those that may be lost between two payloads that are not, a receiver that
\* has stopped by itself, with no chunk swapped by a relay, has the whole file
\* (receiver.c:132-149, 192, 211-231, 363-409).
THEOREM WholeFile ==
  ASSUME NumPkts >= 3, QueueLen >= 3, MailboxLen >= 5,
         MaxInFlight + MaxLost + 1 < Steps
  PROVE  Spec => []CompleteIsTrue
<1>1. Sizes /\ Budget
  BY DEF Sizes, Budget
<1>2. Init => Whole
  BY InitWhole
<1>3. Whole /\ [Next]_vars => Whole'
  BY <1>1, NextWhole
<1>4. Whole => CompleteIsTrue
  BY DEF Whole
<1> QED
  BY <1>2, <1>3, <1>4, PTL DEF Spec

-----------------------------------------------------------------------------
(* After the transfer.                                                       *)

\* A receiver that has heard anything has heard it from a sender that began.
Begun == rxState # "IDLE" => txState # "IDLE"

\* Begun is kept by every step.
LEMMA NextBegun ==
  ASSUME Known, SenderInv, SenderInv', IdleInv, Begun, [Next]_vars PROVE Begun'
<1>1. CASE SenderStep
  <2>1. txState' # "IDLE"
    BY <1>1, SenderMoves
  <2> QED
    BY <2>1 DEF Begun
<1>2. CASE ~SenderStep
  <2>1. txState' = txState
    BY <1>2, OwnState
  <2>2. CASE ~ReceiverStep
    BY <2>1, <2>2, OwnState DEF Begun
  <2>3. CASE ReceiverStep
    <3>1. CASE rxState = "RECEIVING"
      BY <2>1, <3>1 DEF Begun
    <3>2. CASE rxState = "IDLE"
      <4>1. rxState' \in {"IDLE", "RECEIVING"}
        BY <2>3, <3>2, IdleTallied, ReceiverMoves, RespMoves, TimeoutMoves, InterestMoves, RestMoves
           DEF R!HandlePayload
      <4> QED
        BY <4>1 DEF Begun, SenderInv
    <3> QED
      BY <2>3, <3>1, <3>2, ReceiverMoves
  <2> QED
    BY <2>2, <2>3
<1> QED
  BY <1>1, <1>2

\* What has fallen silent stays so: once the receiver has stopped and nothing is
\* on its way or waits at the sender, no timer and no retry of either end sends
\* anything again (receiver.c:442-449, sender.c:212-241).
THEOREM SilenceLasts ==
  ASSUME NumPkts >= 3, QueueLen >= 3, MailboxLen >= 5
  PROVE  Spec => [][rxState = "STOPPED" /\ Quiet => Quiet']_vars
<1>1. Sizes
  BY DEF Sizes
<1> DEFINE Inv == Known /\ SenderInv /\ IdleInv /\ Begun
<1>2. Init => Inv
  <2>1. Init => rxState = "IDLE"
    BY DEF Init, R!Init
  <2> QED
    BY <2>1, InitKnown, InitSender, InitIdle DEF Begun
<1>3. Inv /\ [Next]_vars => Inv'
  <2>1. SUFFICES ASSUME Known, SenderInv, IdleInv, Begun, [Next]_vars PROVE Inv'
    OBVIOUS
  <2>2. Known' /\ SenderInv' /\ IdleInv'
    BY <1>1, <2>1, NextKnown, SenderKept, NextIdle
  <2> QED
    BY <2>1, <2>2, NextBegun
<1>4. Inv /\ [Next]_vars => [rxState = "STOPPED" /\ Quiet => Quiet']_vars
  <2>1. SUFFICES ASSUME Known, SenderInv, Begun, [Next]_vars, rxState = "STOPPED", Quiet
                 PROVE  Quiet'
    OBVIOUS
  <2>2. /\ txTimer = "off" /\ S!Pending("SEND_FILE") = {} /\ txMailbox = <<>>
        /\ down = <<>> /\ up = <<>> /\ relayQueue = <<>> /\ txState # "IDLE"
    BY <2>1 DEF Quiet, SenderRests, Begun
  <2>3. ~SenderStep
    BY <2>2 DEF SenderStep, S!Thread, S!HandlePktReq, S!HandleBulkReq, S!HandleOther,
                S!HandleStart, S!HandleSendFile, S!HandleStop, S!Take
  <2>4. ~ReceiverStep
    BY <2>1, ReceiverMoves
  <2>5. /\ ~Start /\ ~PacketArrives /\ ~RequestArrives /\ ~IntervalTimerFires
        /\ ~RelayAnswers /\ ~RelaySwaps
    BY <2>2 DEF Start, PacketArrives, RequestArrives, RelayAnswers, RelaySwaps, IntervalTimerFires,
                S!IntervalTimerFires
  <2>6. UNCHANGED <<txVars, airVars>>
    BY <2>1, <2>3, <2>4, <2>5 DEF Next, KeptNext, InterestTimerFires, ExpectationTimerFires, vars
  <2> QED
    BY <2>2, <2>6 DEF Quiet, SenderRests, S!Pending, txVars, airVars, relayVars
<1> HIDE DEF Inv
<1> QED
  BY <1>2, <1>3, <1>4, PTL DEF Spec
=============================================================================
