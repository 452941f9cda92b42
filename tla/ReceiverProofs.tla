--------------------------- MODULE ReceiverProofs ---------------------------
(***************************************************************************)
(* Theorems about the receiver, for files, queues, mailboxes and bulk      *)
(* requests of every size: first those that hold on every network, then    *)
(* those that assume a disciplined one, last the room in the mailbox.      *)
(***************************************************************************)
EXTENDS Receiver, MailboxProofs, FiniteSetTheorems

-----------------------------------------------------------------------------
(* The operators that the handlers are built from.                           *)

\* Pushing onto the request queue keeps it a queue of chunks, not too long.
LEMMA EnqueueAllType ==
  ASSUME NEW S, NEW q \in Seq(S), NEW s \in Seq(S), Len(q) <= QueueLen
  PROVE  EnqueueAll(q, s) \in Seq(S) /\ Len(EnqueueAll(q, s)) <= QueueLen
<1> DEFINE room == QueueLen - Len(q)
           n == IF Len(s) <= room THEN Len(s) ELSE room
<1>1. n \in Nat /\ n <= room /\ n <= Len(s) /\ Len(q) \in Nat
  BY QueueLenAssumption
<1> HIDE DEF n
<1>2. SubSeq(s, 1, n) \in Seq(S) /\ Len(SubSeq(s, 1, n)) = n
  <2>1. \A i \in 1..n : s[i] \in S
    BY <1>1
  <2> QED
    BY <1>1, <2>1, SubSeqProperties
<1>3. EnqueueAll(q, s) = q \o SubSeq(s, 1, n)
  BY DEF EnqueueAll, n
<1> QED
  BY <1>1, <1>2, <1>3, ConcatProperties, QueueLenAssumption

\* The listing of a set of chunks is a sequence of chunks.
LEMMA ListingType ==
  ASSUME NEW S \in SUBSET Chunk, NEW s \in Listing(S)
  PROVE  s \in Seq(Chunk)
<1>1. IsFiniteSet(Chunk)
  BY FS_Interval, ReceiverAssumption DEF Chunk
<1>2. Cardinality(S) \in Nat
  BY <1>1, FS_Subset, FS_CardinalityType
<1> QED
  BY <1>2 DEF Listing

\* The messages that the model posts are messages.
LEMMA MessagesTyped ==
  /\ \A k \in Chunk : Msg("PAYLOAD", k) \in Message /\ Msg("RESP", k) \in Message
  /\ \A c \in SyncConfigs : Msg("CONFIG_SYNC", c) \in Message
  /\ \A t \in {"OTHER", "EXPECTATION", "INTEREST", "STOP"} : Msg(t, 0) \in Message
  /\ Stop \in Message
BY DEF Msg, Message, Stop

\* A handler that posts to itself leaves a mailbox that is one, and no longer.
LEMMA FinishType ==
  ASSUME TypeOK, mailbox # <<>>, NEW r \in Results, FinishWith(r)
  PROVE  /\ results' \in Results
         /\ mailbox' \in Seq(Message) /\ Len(mailbox') <= MailboxLen
         /\ ipcLost' \in BOOLEAN
<1>1. mailbox \in Seq(Message) /\ Len(mailbox) <= MailboxLen /\ MailboxLen \in Nat
  BY ReceiverAssumption DEF TypeOK
<1>2. Tail(mailbox) \in Seq(Message) /\ Len(Tail(mailbox)) = Len(mailbox) - 1
  BY <1>1, HeadTailProperties
<1>3. /\ Append(Tail(mailbox), Stop) \in Seq(Message)
      /\ Len(Append(Tail(mailbox), Stop)) = Len(mailbox)
  BY <1>1, <1>2, MessagesTyped, AppendProperties
<1>4. mailbox' \in {Tail(mailbox), Append(Tail(mailbox), Stop)}
  BY DEF FinishWith, Post
<1>5. ipcLost' \in BOOLEAN /\ results' = r
  BY DEF FinishWith, TypeOK
<1> QED
  BY <1>1, <1>2, <1>3, <1>4, <1>5

\* Taking the head of the mailbox leaves a mailbox.
LEMMA TailType ==
  ASSUME TypeOK, mailbox # <<>>
  PROVE  /\ Head(mailbox) \in Message
         /\ Tail(mailbox) \in Seq(Message) /\ Len(Tail(mailbox)) <= MailboxLen
<1>1. mailbox \in Seq(Message) /\ Len(mailbox) <= MailboxLen /\ MailboxLen \in Nat
  BY ReceiverAssumption DEF TypeOK
<1> QED
  BY <1>1, HeadTailProperties

\* The results that a packet leaves, before the check for completion.
LEMMA ResultsType ==
  ASSUME NEW r \in Results, NEW k \in Chunk, config \in ConfigType
  PROVE  /\ CleanResults \in Results
         /\ Tally(r, k) \in Results
         /\ InOrder(r, k) \in Results
         /\ AfterGap(r, k) \in Results
         /\ Counted(r, k, r.last, r.status) \in Results
<1> DEFINE Status == [Chunk -> {"NOT_RECEIVED", "REQUESTED", "RECEIVED"}]
<1>1. -1 \in -1..MaxChunk /\ k \in -1..MaxChunk
  BY ReceiverAssumption DEF Chunk
<1>2. CleanResults \in Results
  BY <1>1 DEF CleanResults, Results
<1>3. Tally(r, k) \in Results
  BY DEF Tally, Results
<1>4. r.unique \in Nat /\ r.file \subseteq Chunk /\ r.last \in -1..MaxChunk /\ r.status \in Status
  BY DEF Results
<1>5. ASSUME NEW last \in -1..MaxChunk, NEW st \in Status
      PROVE  Counted(r, k, last, st) \in Results
  BY <1>4, <1>5 DEF Counted, Results
<1>6. GapMarked(r, k) \in Status
  BY <1>4 DEF GapMarked
<1> QED
  BY <1>1, <1>2, <1>3, <1>4, <1>5, <1>6 DEF InOrder, AfterGap

\* The chunks that a gap leaves out, in order, are a sequence of chunks.
LEMMA GapType ==
  ASSUME NEW k \in Chunk, NEW last \in -1..MaxChunk, last < k - 1
  PROVE  [i \in 1..k - last - 1 |-> last + i] \in Seq(Chunk)
<1>1. k \in Int /\ last \in Int /\ 0 <= k /\ k <= MaxChunk /\ -1 <= last /\ MaxChunk \in Nat
  BY ReceiverAssumption DEF Chunk
<1>2. k - last - 1 \in Nat
  BY <1>1
<1>3. \A i \in 1..k - last - 1 : last + i \in Chunk
  BY <1>1 DEF Chunk
<1> QED
  BY <1>2, <1>3

\* What leaves in a bulk interest, and what stays, are sequences of chunks.
LEMMA BulkType ==
  ASSUME NEW q \in Seq(Chunk)
  PROVE  LET n == Min2(BulkMax, Len(q))
         IN  /\ n \in 0..Len(q)
             /\ SubSeq(q, 1, n) \in Seq(Chunk)
             /\ SubSeq(q, n + 1, Len(q)) \in Seq(Chunk)
             /\ Len(SubSeq(q, n + 1, Len(q))) = Len(q) - n
             /\ {q[i] : i \in 1..n} \subseteq Chunk
<1> DEFINE n == Min2(BulkMax, Len(q))
<1>1. n \in Nat /\ Len(q) \in Nat /\ n <= Len(q)
  BY ReceiverAssumption DEF Min2
<1> HIDE DEF n
<1>2. \A i \in 1..Len(q) : q[i] \in Chunk
  OBVIOUS
<1>3. SubSeq(q, 1, n) \in Seq(Chunk)
  BY <1>1, <1>2, SubSeqProperties
<1>4. /\ SubSeq(q, n + 1, Len(q)) \in Seq(Chunk)
      /\ Len(SubSeq(q, n + 1, Len(q))) = Len(q) - n
  BY <1>1, <1>2, SubSeqProperties
<1>5. {q[i] : i \in 1..n} \subseteq Chunk
  BY <1>1, <1>2
<1> QED
  BY <1>1, <1>3, <1>4, <1>5 DEF n

-----------------------------------------------------------------------------
(* Type correctness.                                                         *)

LEMMA InitTypeOK == Init => TypeOK
<1> SUFFICES ASSUME Init PROVE TypeOK
  OBVIOUS
<1>1. results \in Results
  BY ReceiverAssumption DEF Init, CleanResults, Results
<1>2. 0 \in 0..MaxChunk + 1 /\ 0 <= QueueLen /\ 0 <= MailboxLen
  BY ReceiverAssumption, QueueLenAssumption
<1> QED
  BY <1>1, <1>2, ReceiverAssumption, EmptySeq DEF Init, TypeOK

LEMMA PayloadTypeOK == TypeOK /\ HandlePayload => TypeOK'
<1> SUFFICES ASSUME TypeOK, HandlePayload PROVE TypeOK'
  OBVIOUS
<1> DEFINE k == Head(mailbox).val
           r == IF iperfState = "IDLE" THEN CleanResults ELSE results
           gap == [i \in 1..k - r.last - 1 |-> r.last + i]
<1>1. mailbox # <<>> /\ k \in Chunk
  BY TailType DEF HandlePayload, Took, Message
<1>2. r \in Results /\ config \in ConfigType
  BY ResultsType, <1>1 DEF TypeOK
<1>3. InOrder(r, k) \in Results /\ Tally(r, k) \in Results /\ AfterGap(r, k) \in Results
  BY <1>1, <1>2, ResultsType
<1>4. \E s \in Results : FinishWith(s)
  BY <1>3 DEF HandlePayload
<1>5. /\ results' \in Results
      /\ mailbox' \in Seq(Message) /\ Len(mailbox') <= MailboxLen /\ ipcLost' \in BOOLEAN
  BY <1>1, <1>4, FinishType
<1>6. expectationTimer' \in BOOLEAN /\ interestTimer' \in BOOLEAN
  BY DEF HandlePayload, Restarted, TypeOK
<1>7. reqQueue' \in Seq(Chunk) /\ Len(reqQueue') <= QueueLen
  <2>1. CASE UNCHANGED reqQueue
    BY <2>1 DEF TypeOK
  <2>2. CASE r.last < k - 1 /\ reqQueue' = EnqueueAll(reqQueue, gap)
    <3>1. r.last \in -1..MaxChunk
      BY <1>2 DEF Results
    <3>2. gap \in Seq(Chunk)
      BY <1>1, <2>2, <3>1, GapType
    <3> QED
      BY <2>2, <3>2, EnqueueAllType DEF TypeOK
  <2> QED
    BY <2>1, <2>2 DEF HandlePayload
<1>8. UNCHANGED <<running, config, expectationSeqNo, netVars>>
      /\ iperfState' = "RECEIVING" /\ sent' = <<>>
  BY DEF HandlePayload
<1> QED
  BY <1>5, <1>6, <1>7, <1>8 DEF TypeOK, netVars

LEMMA RespTypeOK == TypeOK /\ HandleResp => TypeOK'
<1> SUFFICES ASSUME TypeOK, HandleResp PROVE TypeOK'
  OBVIOUS
<1> DEFINE k == Head(mailbox).val
<1>1. mailbox # <<>> /\ k \in Chunk
  BY TailType DEF HandleResp, Took, Message
<1>2. /\ results' \in Results
      /\ mailbox' \in Seq(Message) /\ Len(mailbox') <= MailboxLen /\ ipcLost' \in BOOLEAN
  <2>1. CASE iperfState # "RECEIVING"
    BY <1>1, <2>1, TailType DEF HandleResp, TypeOK
  <2>2. CASE iperfState = "RECEIVING"
    <3>1. \E s \in Results : FinishWith(s)
      BY <1>1, <2>2, ResultsType DEF HandleResp, TypeOK
    <3> QED
      BY <1>1, <3>1, FinishType
  <2> QED
    BY <2>1, <2>2
<1>3. expectationTimer' \in BOOLEAN
  BY DEF HandleResp, Restarted, TypeOK
<1> QED
  BY <1>2, <1>3 DEF HandleResp, TypeOK, netVars

LEMMA InterestTypeOK == TypeOK /\ HandleInterestTimeout => TypeOK'
<1> SUFFICES ASSUME TypeOK, HandleInterestTimeout PROVE TypeOK'
  OBVIOUS
<1> DEFINE n == Min2(BulkMax, Len(reqQueue))
<1>1. reqQueue \in Seq(Chunk) /\ Len(reqQueue) \in Nat /\ Len(reqQueue) <= QueueLen
  BY DEF TypeOK
<1>2. /\ sent' \in Seq(Chunk)
      /\ reqQueue' \in Seq(Chunk) /\ Len(reqQueue') <= QueueLen
      /\ asked' \subseteq Chunk
  BY <1>1, BulkType, QueueLenAssumption DEF HandleInterestTimeout, TypeOK
<1>3. interestTimer' \in BOOLEAN
  BY DEF HandleInterestTimeout, SomeLeft, TypeOK
<1>4. mailbox' \in Seq(Message) /\ Len(mailbox') <= MailboxLen
  BY TailType DEF HandleInterestTimeout, Took
<1> QED
  BY <1>2, <1>3, <1>4 DEF HandleInterestTimeout, TypeOK

LEMMA ExpectationTypeOK == TypeOK /\ HandleExpectationTimeout => TypeOK'
<1> SUFFICES ASSUME TypeOK, HandleExpectationTimeout PROVE TypeOK'
  OBVIOUS
<1>1. NextExpectation \in 0..MaxChunk + 1
  <2>1. /\ results.last \in -1..MaxChunk /\ config.numPkts \in 1..MaxChunk + 1
        /\ expectationSeqNo \in 0..MaxChunk + 1
    BY DEF TypeOK, Results, ConfigType
  <2> QED
    BY <2>1, ReceiverAssumption DEF NextExpectation
<1>2. reqQueue' \in Seq(Chunk) /\ Len(reqQueue') <= QueueLen
  <2> DEFINE S == {i \in Chunk : /\ i < NextExpectation
                                 /\ results.status[i] # "RECEIVED"
                                 /\ ~IsEnqueued(reqQueue, i)}
  <2>1. PICK missing \in Listing(S) : reqQueue' = EnqueueAll(reqQueue, missing)
    BY DEF HandleExpectationTimeout
  <2>2. missing \in Seq(Chunk)
    BY ListingType
  <2> QED
    BY <2>1, <2>2, EnqueueAllType DEF TypeOK
<1>3. /\ results' \in Results
      /\ mailbox' \in Seq(Message) /\ Len(mailbox') <= MailboxLen /\ ipcLost' \in BOOLEAN
  <2>1. FinishWith(results) /\ mailbox # <<>> /\ results \in Results
    BY DEF HandleExpectationTimeout, Took, TypeOK
  <2> QED
    BY <2>1, FinishType
<1>4. expectationTimer' \in BOOLEAN /\ interestTimer' \in BOOLEAN
  BY DEF HandleExpectationTimeout, Done, TypeOK
<1> QED
  BY <1>1, <1>2, <1>3, <1>4 DEF HandleExpectationTimeout, TypeOK, netVars

\* A packet, a timer or the shell adds at most one message, where there is room.
LEMMA PostType ==
  ASSUME TypeOK, NEW m \in Message
  PROVE  /\ Post(mailbox, m) \in Seq(Message) /\ Len(Post(mailbox, m)) <= MailboxLen
         /\ ~Overflow => Append(mailbox, m) = Post(mailbox, m)
<1>1. mailbox \in Seq(Message) /\ Len(mailbox) \in Nat /\ Len(mailbox) <= MailboxLen
      /\ MailboxLen \in Nat
  BY ReceiverAssumption DEF TypeOK
<1>2. Append(mailbox, m) \in Seq(Message) /\ Len(Append(mailbox, m)) = Len(mailbox) + 1
  BY <1>1, AppendProperties
<1> QED
  BY <1>1, <1>2 DEF Post, Overflow

LEMMA TimersTypeOK ==
  ASSUME TypeOK, ExpectationTimerFires \/ InterestTimerFires
  PROVE  TypeOK'
<1>1. PICK m \in Message : mailbox' \in {mailbox, Post(mailbox, m)}
  BY MessagesTyped DEF ExpectationTimerFires, InterestTimerFires, Fired
<1>2. mailbox' \in Seq(Message) /\ Len(mailbox') <= MailboxLen
  BY <1>1, PostType DEF TypeOK
<1>3. ipcLost' \in BOOLEAN /\ sent' \in Seq(Chunk)
  BY EmptySeq DEF ExpectationTimerFires, InterestTimerFires, Fired, TypeOK
<1>4. expectationTimer' \in BOOLEAN /\ interestTimer' \in BOOLEAN
  BY DEF ExpectationTimerFires, InterestTimerFires, TypeOK
<1>5. UNCHANGED <<running, iperfState, config, results, reqQueue, expectationSeqNo, netVars>>
  BY DEF ExpectationTimerFires, InterestTimerFires, Fired
<1> QED
  BY <1>2, <1>3, <1>4, <1>5 DEF TypeOK, netVars

LEMMA EnvironmentTypeOK == TypeOK /\ Environment => TypeOK'
<1> SUFFICES ASSUME TypeOK, Environment PROVE TypeOK'
  OBVIOUS
<1>0. MaxChunk \in Nat /\ MailboxLen \in Nat
  BY ReceiverAssumption
<1>1. ASSUME NEW type, NEW val, Msg(type, val) \in Message, Deliver(type, val),
             nextPayload' \in 0..MaxChunk + 1, asked' \subseteq Chunk
      PROVE  TypeOK'
  <2>1. mailbox' \in Seq(Message) /\ Len(mailbox') <= MailboxLen
    <3>1. ~Overflow
      BY <1>0, <1>1 DEF Deliver, Overflow, TypeOK
    <3> QED
      BY <1>1, <3>1, PostType DEF Deliver
  <2> QED
    BY <1>1, <2>1 DEF Deliver, TypeOK
<1>2. ASSUME NEW k \in Chunk, PayloadArrives(k) PROVE TypeOK'
  <2>1. nextPayload' \in 0..MaxChunk + 1 /\ asked' \subseteq Chunk
    BY <1>0, <1>2 DEF PayloadArrives, Chunk, TypeOK
  <2> QED
    BY <1>1, <1>2, <2>1, MessagesTyped DEF PayloadArrives
<1>3. ASSUME NEW k \in Chunk, RespArrives(k) PROVE TypeOK'
  <2>1. nextPayload' \in 0..MaxChunk + 1 /\ asked' \subseteq Chunk
    BY <1>3 DEF RespArrives, TypeOK, netVars
  <2> QED
    BY <1>1, <1>3, <2>1, MessagesTyped DEF RespArrives
<1>4. CASE ConfigSyncArrives
  <2>1. nextPayload' \in 0..MaxChunk + 1 /\ asked' \subseteq Chunk
    BY <1>4 DEF ConfigSyncArrives, TypeOK, netVars
  <2> QED
    BY <1>1, <1>4, <2>1, MessagesTyped DEF ConfigSyncArrives
<1>5. CASE OtherArrives
  <2>1. nextPayload' \in 0..MaxChunk + 1 /\ asked' \subseteq Chunk
    BY <1>5 DEF OtherArrives, TypeOK, netVars
  <2> QED
    BY <1>1, <1>5, <2>1, MessagesTyped DEF OtherArrives
<1>6. CASE ShellStop
  <2>1. mailbox' \in {mailbox, Post(mailbox, Stop)}
    BY <1>6, MessagesTyped, PostType DEF ShellStop
  <2>2. mailbox' \in Seq(Message) /\ Len(mailbox') <= MailboxLen
    BY <2>1, MessagesTyped, PostType DEF TypeOK
  <2>3. sent' \in Seq(Chunk) /\ running' \in BOOLEAN
    BY <1>6, EmptySeq DEF ShellStop
  <2>4. UNCHANGED <<iperfState, config, results, reqQueue, expectationTimer,
                    interestTimer, expectationSeqNo, ipcLost, netVars>>
    BY <1>6 DEF ShellStop
  <2> QED
    BY <2>2, <2>3, <2>4 DEF TypeOK, netVars
<1>7. CASE ShellReceiver
  <2>1. results' \in Results
    BY <1>0, <1>7 DEF ShellReceiver, CleanResults, Results
  <2>2. 0 \in 0..MaxChunk + 1 /\ 0 <= QueueLen /\ 0 <= MailboxLen
    BY <1>0, QueueLenAssumption
  <2> QED
    BY <1>7, <2>1, <2>2, EmptySeq DEF ShellReceiver, TypeOK
<1> QED
  BY <1>2, <1>3, <1>4, <1>5, <1>6, <1>7 DEF Environment

LEMMA NextTypeOK == TypeOK /\ [Next]_vars => TypeOK'
<1> SUFFICES ASSUME TypeOK, [Next]_vars PROVE TypeOK'
  OBVIOUS
<1>1. CASE HandlePayload
  BY <1>1, PayloadTypeOK
<1>2. CASE HandleResp
  BY <1>2, RespTypeOK
<1>3. CASE HandleConfigSync
  <2>1. config' \in ConfigType
    BY <1>3, TailType, ReceiverAssumption DEF HandleConfigSync, Took, Message
  <2> QED
    BY <1>3, <2>1, TailType DEF HandleConfigSync, Took, TypeOK, netVars
<1>4. CASE HandleOther
  BY <1>4, TailType DEF HandleOther, Took, TypeOK, netVars
<1>5. CASE HandleInterestTimeout
  BY <1>5, InterestTypeOK
<1>6. CASE HandleExpectationTimeout
  BY <1>6, ExpectationTypeOK
<1>7. CASE HandleStop
  <2>1. mailbox' \in Seq(Message) /\ Len(mailbox') <= MailboxLen /\ sent' \in Seq(Chunk)
    BY <1>7, EmptySeq, ReceiverAssumption DEF HandleStop
  <2>2. 0 \in 0..MaxChunk + 1
    BY ReceiverAssumption
  <2>3. iperfState' = "STOPPED" /\ expectationSeqNo' = 0
        /\ expectationTimer' = FALSE /\ interestTimer' = FALSE
        /\ UNCHANGED <<running, config, results, reqQueue, ipcLost, netVars>>
    BY <1>7 DEF HandleStop, TimersStopped
  <2> QED
    BY <2>1, <2>2, <2>3 DEF TypeOK, netVars
<1>8. CASE ExpectationTimerFires \/ InterestTimerFires
  BY <1>8, TimersTypeOK
<1>9. CASE Environment
  BY <1>9, EnvironmentTypeOK
<1>10. CASE UNCHANGED vars
  BY <1>10 DEF vars, threadVars, netVars, TypeOK
<1> QED
  BY <1>1, <1>2, <1>3, <1>4, <1>5, <1>6, <1>7, <1>8, <1>9, <1>10 DEF Next, Thread

\* The receiver's variables keep their types (receiver.c, whole file): above
\* all, no chunk number, whatever arrives, is asked for or noted outside the
\* file, and neither the mailbox nor the request queue outgrows its array.
THEOREM TypeCorrect == Spec => []TypeOK
  BY InitTypeOK, NextTypeOK, PTL DEF Spec

-----------------------------------------------------------------------------
(* What the receiver's handlers leave in the mailbox.                        *)

\* A handler that may stop the thread keeps the messages of every type but the
\* one it took; and if the results are complete, a STOP waits or was lost.
LEMMA HoldsFinish ==
  ASSUME TypeOK, mailbox # <<>>, NEW r, FinishWith(r)
  PROVE  /\ \A type : Head(mailbox).type # type /\ Holds(mailbox, type) => Holds(mailbox', type)
         /\ Done(r) /\ ~ipcLost' => Holds(mailbox', "STOP")
         /\ ~ipcLost' => ~ipcLost
<1>1. mailbox \in Seq(Message) /\ Tail(mailbox) \in Seq(Message)
  BY TailType DEF TypeOK
<1>2. Stop \in Message /\ Stop.type = "STOP"
  BY MessagesTyped DEF Stop, Msg
<1>3. mailbox' \in {Tail(mailbox), Append(Tail(mailbox), Stop)}
  BY DEF FinishWith, Post
<1>4. Done(r) /\ ~ipcLost' => mailbox' = Append(Tail(mailbox), Stop)
  <2>1. ~Overflow => Len(mailbox) < MailboxLen
    BY ReceiverAssumption DEF Overflow, TypeOK
  <2>2. Done(r) /\ ~ipcLost' => ~Overflow
    BY Zenon DEF FinishWith
  <2> QED
    BY <2>1, <2>2 DEF FinishWith, Post
<1>5. ~ipcLost' => ~ipcLost
  BY DEF FinishWith
<1>6. Holds(Append(Tail(mailbox), Stop), "STOP")
  BY <1>1, <1>2, HoldsAppend
<1>7. ASSUME NEW type, Head(mailbox).type # type, Holds(mailbox, type)
      PROVE  Holds(mailbox', type)
  <2>1. Holds(Tail(mailbox), type)
    BY <1>1, <1>7, HoldsTail
  <2> QED
    BY <1>1, <1>2, <1>3, <2>1, HoldsAppend
<1> QED
  BY <1>4, <1>5, <1>6, <1>7

\* A timer's message waits, or the timer found the mailbox full.
LEMMA HoldsFired ==
  ASSUME TypeOK, NEW type \in {"EXPECTATION", "INTEREST"}, Fired(type)
  PROVE  /\ \A t : Holds(mailbox, t) => Holds(mailbox', t)
         /\ Alive /\ ~ipcLost' => Holds(mailbox', type)
         /\ ~ipcLost' => ~ipcLost
<1> DEFINE m == Msg(type, 0)
<1>1. mailbox \in Seq(Message) /\ m \in Message /\ m.type = type
  BY MessagesTyped DEF TypeOK, Msg
<1> HIDE DEF m
<1>2. mailbox' \in {mailbox, Append(mailbox, m)}
  BY DEF Fired, Post, m
<1>3. Alive /\ ~ipcLost' => mailbox' = Append(mailbox, m)
  <2>1. ~Overflow => Len(mailbox) < MailboxLen
    BY ReceiverAssumption DEF Overflow, TypeOK
  <2>2. Alive /\ ~ipcLost' => ~Overflow
    BY Zenon DEF Fired
  <2> QED
    BY <2>1, <2>2 DEF Fired, Post, m
<1>4. ~ipcLost' => ~ipcLost
  BY DEF Fired
<1>5. Holds(Append(mailbox, m), type)
  BY <1>1, HoldsAppend
<1>6. ASSUME NEW t, Holds(mailbox, t) PROVE Holds(mailbox', t)
  BY <1>1, <1>2, <1>6, HoldsAppend
<1> QED
  BY <1>3, <1>4, <1>5, <1>6

\* Packets and the shell keep what waits, unless the shell starts a new thread.
LEMMA HoldsEnvironment ==
  ASSUME TypeOK, Environment, ~ShellReceiver
  PROVE  /\ \A t : Holds(mailbox, t) => Holds(mailbox', t)
         /\ UNCHANGED <<iperfState, config, results, reqQueue, expectationTimer,
                        interestTimer, expectationSeqNo, ipcLost>>
<1>1. mailbox \in Seq(Message)
  BY DEF TypeOK
<1>2. \/ mailbox' = mailbox
      \/ \E m \in Message : mailbox' = Append(mailbox, m)
  BY MessagesTyped DEF Environment, PayloadArrives, RespArrives, ConfigSyncArrives,
                      OtherArrives, ShellStop, Deliver
<1>3. ASSUME NEW t, Holds(mailbox, t) PROVE Holds(mailbox', t)
  BY <1>1, <1>2, <1>3, HoldsAppend
<1>4. UNCHANGED <<iperfState, config, results, reqQueue, expectationTimer,
                  interestTimer, expectationSeqNo, ipcLost>>
  BY DEF Environment, PayloadArrives, RespArrives, ConfigSyncArrives,
         OtherArrives, ShellStop, Deliver
<1> QED
  BY <1>3, <1>4

\* Pending, of the receiver's module, says the same of its mailbox.
LEMMA PendingHolds ==
  \A type : /\ Pending(type) # {} <=> Holds(mailbox, type)
            /\ (Pending(type) # {})' <=> Holds(mailbox', type)
BY DEF Pending, Holds

-----------------------------------------------------------------------------
(* A request that is queued will be sent, and a thread that stopped is quiet. *)

ScheduledInv ==
  Alive /\ reqQueue # <<>> /\ ~ipcLost => interestTimer \/ Holds(mailbox, "INTEREST")

\* Every step keeps a request in the queue scheduled.
LEMMA NextScheduled ==
  ASSUME TypeOK, ScheduledInv, [Next]_vars PROVE ScheduledInv'
<1> SUFFICES ASSUME Alive', reqQueue' # <<>>, ~ipcLost'
             PROVE  interestTimer' \/ Holds(mailbox', "INTEREST")
  BY DEF ScheduledInv
<1>1. CASE HandlePayload
  <2>1. PICK r : FinishWith(r)
    BY <1>1 DEF HandlePayload
  <2>2. mailbox # <<>> /\ Head(mailbox).type = "PAYLOAD" /\ Alive
    BY <1>1 DEF HandlePayload, Took
  <2>3. /\ Holds(mailbox, "INTEREST") => Holds(mailbox', "INTEREST")
        /\ ~ipcLost
    BY <2>1, <2>2, HoldsFinish
  <2>4. \/ UNCHANGED <<reqQueue, interestTimer>>
        \/ interestTimer'
        \/ ~config.bidir /\ UNCHANGED <<reqQueue, interestTimer>>
    BY <1>1 DEF HandlePayload, TypeOK, ConfigType
  <2> QED
    BY <2>2, <2>3, <2>4 DEF ScheduledInv
<1>2. CASE HandleResp
  <2>1. mailbox # <<>> /\ Head(mailbox).type = "RESP" /\ Alive /\ mailbox \in Seq(Message)
    BY <1>2 DEF HandleResp, Took, TypeOK
  <2>2. (Holds(mailbox, "INTEREST") => Holds(mailbox', "INTEREST")) /\ ~ipcLost
    <3>1. CASE iperfState # "RECEIVING"
      <4>1. mailbox' = Tail(mailbox) /\ ipcLost' = ipcLost
        BY <1>2, <3>1 DEF HandleResp
      <4> QED
        BY <2>1, <4>1, HoldsTail
    <3>2. CASE iperfState = "RECEIVING"
      <4>1. PICK r : FinishWith(r)
        BY <1>2, <3>2 DEF HandleResp
      <4> QED
        BY <2>1, <4>1, HoldsFinish
    <3> QED
      BY <3>1, <3>2
  <2> QED
    BY <1>2, <2>1, <2>2 DEF HandleResp, ScheduledInv
<1>3. CASE HandleConfigSync \/ HandleOther
  <2>1. mailbox # <<>> /\ Head(mailbox).type # "INTEREST" /\ Alive /\ mailbox \in Seq(Message)
        /\ mailbox' = Tail(mailbox) /\ UNCHANGED <<reqQueue, interestTimer, ipcLost>>
    BY <1>3 DEF HandleConfigSync, HandleOther, Took, TypeOK
  <2> QED
    BY <2>1, HoldsTail DEF ScheduledInv
<1>4. CASE HandleInterestTimeout
  <2> DEFINE n == Min2(BulkMax, Len(reqQueue))
  <2>1. n \in 0..Len(reqQueue) /\ reqQueue \in Seq(Chunk)
        /\ Len(reqQueue') = Len(reqQueue) - n /\ reqQueue' \in Seq(Chunk)
    BY <1>4, BulkType DEF HandleInterestTimeout, TypeOK
  <2>2. Len(reqQueue') # 0
    BY <2>1, EmptySeq
  <2>3. SomeLeft(n)
    BY <2>1, <2>2 DEF SomeLeft
  <2> QED
    BY <1>4, <2>3 DEF HandleInterestTimeout
<1>5. CASE HandleExpectationTimeout
  BY <1>5 DEF HandleExpectationTimeout
<1>6. CASE HandleStop
  BY <1>6 DEF HandleStop, Alive
<1>7. CASE ExpectationTimerFires
  BY <1>7, HoldsFired DEF ExpectationTimerFires, Fired, Alive, ScheduledInv
<1>8. CASE InterestTimerFires
  <2>1. Alive /\ Fired("INTEREST")
    BY <1>8 DEF InterestTimerFires, Fired, Alive
  <2> QED
    BY <2>1, HoldsFired
<1>9. CASE Environment
  <2>1. CASE ShellReceiver
    BY <2>1 DEF ShellReceiver
  <2>2. CASE ~ShellReceiver
    BY <1>9, <2>2, HoldsEnvironment DEF ScheduledInv, Alive
  <2> QED
    BY <2>1, <2>2
<1>10. CASE UNCHANGED vars
  BY <1>10 DEF vars, threadVars, ScheduledInv, Alive
<1> QED
  BY <1>1, <1>2, <1>3, <1>4, <1>5, <1>6, <1>7, <1>8, <1>9, <1>10 DEF Next, Thread

\* A chunk that waits in the request queue will be asked for, on every network
\* and for every size of the queue: the interest timer is set or its message
\* waits (receiver.c:222, 363-395, 431-434).
THEOREM QueuedIsScheduled == Spec => []RequestsScheduled
<1>1. Init => ScheduledInv
  BY DEF Init, ScheduledInv
<1>2. TypeOK /\ ScheduledInv /\ [Next]_vars => ScheduledInv'
  BY NextScheduled
<1>3. ScheduledInv => RequestsScheduled
  BY PendingHolds DEF ScheduledInv, RequestsScheduled
<1> QED
  BY <1>1, <1>2, <1>3, TypeCorrect, PTL DEF Spec

\* Every step keeps a stopped thread quiet.
LEMMA NextQuiet ==
  ASSUME StoppedIsQuiet, [Next]_vars PROVE StoppedIsQuiet'
<1> SUFFICES ASSUME ~Alive'
             PROVE  expectationTimer' = FALSE /\ interestTimer' = FALSE /\ expectationSeqNo' = 0
  BY DEF StoppedIsQuiet
<1>1. CASE HandleStop
  BY <1>1 DEF HandleStop, TimersStopped
<1>2. CASE Thread /\ ~HandleStop
  BY <1>2 DEF Thread, HandlePayload, HandleResp, HandleConfigSync, HandleOther,
              HandleInterestTimeout, HandleExpectationTimeout, Took, Alive
<1>3. CASE ExpectationTimerFires
  BY <1>3 DEF ExpectationTimerFires, Fired, Alive, StoppedIsQuiet
<1>4. CASE InterestTimerFires
  BY <1>4 DEF InterestTimerFires, Fired, Alive, StoppedIsQuiet
<1>5. CASE Environment
  BY <1>5 DEF Environment, PayloadArrives, RespArrives, ConfigSyncArrives, OtherArrives,
              ShellStop, ShellReceiver, Deliver, Alive, StoppedIsQuiet
<1>6. CASE UNCHANGED vars
  BY <1>6 DEF vars, threadVars, Alive, StoppedIsQuiet
<1> QED
  BY <1>1, <1>2, <1>3, <1>4, <1>5, <1>6 DEF Next

\* A receiver that left its loop has no timer running that could post to its
\* successor, which gets the same process id (receiver.c:442-449, 456).
THEOREM StoppedStaysQuiet == Spec => []StoppedIsQuiet
<1>1. Init => StoppedIsQuiet
  BY DEF Init, Alive, StoppedIsQuiet
<1>2. StoppedIsQuiet /\ [Next]_vars => StoppedIsQuiet'
  BY NextQuiet
<1> QED
  BY <1>1, <1>2, PTL DEF Spec

-----------------------------------------------------------------------------
(* The network that the sender and the relays make (Disciplined): payloads   *)
(* arrive in ascending order, a CONFIG_SYNC repeats the configuration in     *)
(* force.                                                                    *)

-----------------------------------------------------------------------------
(* Mailboxes whose payloads ascend.                                          *)

\* The payloads in mb ascend, above lo and below hi.
Ordered(mb, lo, hi) ==
  \A i \in DOMAIN mb : mb[i].type = "PAYLOAD" =>
    /\ lo < mb[i].val /\ mb[i].val < hi
    /\ \A j \in DOMAIN mb : i < j /\ mb[j].type = "PAYLOAD" => mb[i].val < mb[j].val

\* The configurations in mb are c.
Synced(mb, c) == \A i \in DOMAIN mb : mb[i].type = "CONFIG_SYNC" => mb[i].val = c

\* What a mailbox holds after its head was taken was one place further back.
LEMMA TailPlaces ==
  ASSUME NEW M, NEW mb \in Seq(M), mb # <<>>
  PROVE  /\ 1 \in DOMAIN mb /\ Head(mb) = mb[1]
         /\ \A i \in DOMAIN Tail(mb) : /\ i \in Nat /\ 1 < i + 1 /\ i + 1 \in DOMAIN mb
                                       /\ Tail(mb)[i] = mb[i + 1]
<1>1. Len(mb) \in Nat /\ Len(mb) # 0 /\ DOMAIN mb = 1..Len(mb)
  BY EmptySeq
<1>2. /\ Tail(mb) \in Seq(M) /\ Len(Tail(mb)) = Len(mb) - 1
      /\ \A i \in 1..Len(mb) - 1 : Tail(mb)[i] = mb[i + 1]
  BY <1>1, HeadTailProperties
<1>3. DOMAIN Tail(mb) = 1..Len(mb) - 1
  BY <1>2
<1> QED
  BY <1>1, <1>2, <1>3

\* A mailbox with a message appended holds what it held, where it held it.
LEMMA AppendPlaces ==
  ASSUME NEW M, NEW mb \in Seq(M), NEW m \in M
  PROVE  /\ DOMAIN mb = 1..Len(mb) /\ Len(mb) \in Nat
         /\ DOMAIN Append(mb, m) = 1..Len(mb) + 1
         /\ \A i \in 1..Len(mb) : Append(mb, m)[i] = mb[i]
         /\ Append(mb, m)[Len(mb) + 1] = m
<1>1. /\ Append(mb, m) \in Seq(M) /\ Len(Append(mb, m)) = Len(mb) + 1
      /\ \A i \in 1..Len(mb) : Append(mb, m)[i] = mb[i]
      /\ Append(mb, m)[Len(mb) + 1] = m
  BY AppendProperties
<1> QED
  BY <1>1

\* Taking the head keeps the rest in order; behind a payload the rest is above it.
LEMMA OrderedTail ==
  ASSUME NEW mb \in Seq(Message), mb # <<>>, NEW lo \in Int, NEW hi \in Int,
         Ordered(mb, lo, hi)
  PROVE  /\ Ordered(Tail(mb), lo, hi)
         /\ Head(mb).type = "PAYLOAD" =>
              /\ lo < Head(mb).val /\ Head(mb).val < hi
              /\ Ordered(Tail(mb), Head(mb).val, hi)
<1>1. /\ 1 \in DOMAIN mb /\ Head(mb) = mb[1]
      /\ \A i \in DOMAIN Tail(mb) : /\ i \in Nat /\ 1 < i + 1 /\ i + 1 \in DOMAIN mb
                                    /\ Tail(mb)[i] = mb[i + 1]
  BY TailPlaces
<1>2. \A i \in DOMAIN Tail(mb) : Tail(mb)[i].type = "PAYLOAD" =>
         /\ lo < Tail(mb)[i].val /\ Tail(mb)[i].val < hi
         /\ \A j \in DOMAIN Tail(mb) :
              i < j /\ Tail(mb)[j].type = "PAYLOAD" => Tail(mb)[i].val < Tail(mb)[j].val
  BY <1>1 DEF Ordered
<1>3. ASSUME Head(mb).type = "PAYLOAD"
      PROVE  /\ lo < Head(mb).val /\ Head(mb).val < hi
             /\ \A i \in DOMAIN Tail(mb) :
                  Tail(mb)[i].type = "PAYLOAD" => Head(mb).val < Tail(mb)[i].val
  BY <1>1, <1>3 DEF Ordered
<1> QED
  BY <1>2, <1>3 DEF Ordered

\* Appending something that is no payload keeps the order.
LEMMA OrderedAppend ==
  ASSUME NEW mb \in Seq(Message), NEW m \in Message, m.type # "PAYLOAD",
         NEW lo \in Int, NEW hi \in Int, Ordered(mb, lo, hi)
  PROVE  Ordered(Append(mb, m), lo, hi)
<1>1. /\ DOMAIN mb = 1..Len(mb) /\ Len(mb) \in Nat
      /\ DOMAIN Append(mb, m) = 1..Len(mb) + 1
      /\ \A i \in 1..Len(mb) : Append(mb, m)[i] = mb[i]
      /\ Append(mb, m)[Len(mb) + 1] = m
  BY AppendPlaces
<1>2. \A i \in DOMAIN Append(mb, m) : Append(mb, m)[i].type = "PAYLOAD" => i \in DOMAIN mb
  BY <1>1
<1> QED
  BY <1>1, <1>2 DEF Ordered

\* Appending a payload that is above all that were sent keeps it as well.
LEMMA OrderedGrow ==
  ASSUME NEW mb \in Seq(Message), NEW k \in Chunk, NEW lo \in Int, NEW hi \in Int,
         Ordered(mb, lo, hi), lo < k, hi <= k
  PROVE  Ordered(Append(mb, Msg("PAYLOAD", k)), lo, k + 1)
<1> DEFINE m == Msg("PAYLOAD", k)
<1>1. m \in Message /\ m.type = "PAYLOAD" /\ m.val = k /\ k \in Int
  <2>1. m.type = "PAYLOAD" /\ m.val = k
    BY DEF Msg
  <2>2. m \in Message
    BY MessagesTyped
  <2> QED
    BY <2>1, <2>2, ReceiverAssumption DEF Chunk
<1> HIDE DEF m
<1>2. /\ DOMAIN mb = 1..Len(mb) /\ Len(mb) \in Nat
      /\ DOMAIN Append(mb, m) = 1..Len(mb) + 1
      /\ \A i \in 1..Len(mb) : Append(mb, m)[i] = mb[i]
      /\ Append(mb, m)[Len(mb) + 1] = m
  BY <1>1, AppendPlaces
<1>3. \A i \in 1..Len(mb) : mb[i].type = "PAYLOAD" => mb[i].val \in Int
  <2>1. \A i \in 1..Len(mb) : mb[i] \in Message
    OBVIOUS
  <2> QED
    BY <2>1, ReceiverAssumption DEF Message, Chunk
<1>4. ASSUME NEW i \in DOMAIN Append(mb, m), Append(mb, m)[i].type = "PAYLOAD"
      PROVE  /\ lo < Append(mb, m)[i].val /\ Append(mb, m)[i].val < k + 1
             /\ \A j \in DOMAIN Append(mb, m) :
                  i < j /\ Append(mb, m)[j].type = "PAYLOAD" =>
                    Append(mb, m)[i].val < Append(mb, m)[j].val
  <2>1. CASE i = Len(mb) + 1
    BY <1>1, <1>2, <2>1
  <2>2. CASE i \in 1..Len(mb)
    <3>1. lo < mb[i].val /\ mb[i].val < hi /\ mb[i].val \in Int
      BY <1>2, <1>3, <1>4, <2>2 DEF Ordered
    <3>2. ASSUME NEW j \in DOMAIN Append(mb, m), i < j, Append(mb, m)[j].type = "PAYLOAD"
          PROVE  mb[i].val < Append(mb, m)[j].val
      <4>1. CASE j = Len(mb) + 1
        BY <1>1, <1>2, <3>1, <4>1
      <4>2. CASE j \in 1..Len(mb)
        BY <1>2, <1>4, <2>2, <3>2, <4>2 DEF Ordered
      <4> QED
        BY <1>2, <4>1, <4>2
    <3> QED
      BY <1>1, <1>2, <2>2, <3>1, <3>2
  <2> QED
    BY <1>2, <2>1, <2>2
<1> QED
  BY <1>4 DEF Ordered, m

\* Taking the head, or appending a message that is none, keeps a mailbox synced.
LEMMA SyncedKeeps ==
  ASSUME NEW mb \in Seq(Message), NEW c, Synced(mb, c)
  PROVE  /\ mb # <<>> => Synced(Tail(mb), c)
         /\ mb # <<>> /\ Head(mb).type = "CONFIG_SYNC" => Head(mb).val = c
         /\ \A m \in Message : m.type # "CONFIG_SYNC" \/ m.val = c => Synced(Append(mb, m), c)
<1>1. ASSUME mb # <<>>
      PROVE  Synced(Tail(mb), c) /\ (Head(mb).type = "CONFIG_SYNC" => Head(mb).val = c)
  BY <1>1, TailPlaces DEF Synced
<1>2. ASSUME NEW m \in Message, m.type # "CONFIG_SYNC" \/ m.val = c
      PROVE  Synced(Append(mb, m), c)
  <2>1. /\ DOMAIN mb = 1..Len(mb) /\ Len(mb) \in Nat
        /\ DOMAIN Append(mb, m) = 1..Len(mb) + 1
        /\ \A i \in 1..Len(mb) : Append(mb, m)[i] = mb[i]
        /\ Append(mb, m)[Len(mb) + 1] = m
    BY AppendPlaces
  <2> QED
    BY <1>2, <2>1 DEF Synced
<1> QED
  BY <1>1, <1>2
-----------------------------------------------------------------------------
(* The network's promise, kept from its sending to its handling.             *)

\* The last chunk that came in order or after a gap.
Reached == IF iperfState = "RECEIVING" THEN results.last ELSE -1

NetInv ==
  /\ Synced(mailbox, config)
  /\ Ordered(mailbox, Reached, nextPayload)
  /\ Reached < nextPayload

\* The numbers that NetInv compares are numbers.
LEMMA ReachedType == TypeOK => Reached \in Int /\ nextPayload \in Int /\ mailbox \in Seq(Message)
BY ReceiverAssumption DEF TypeOK, Reached, Results

\* A step that takes the head, and may tell itself to stop, keeps the promise.
LEMMA NetTaken ==
  ASSUME TypeOK, NetInv, mailbox # <<>>,
         mailbox' \in {Tail(mailbox), Append(Tail(mailbox), Stop)},
         UNCHANGED <<config, nextPayload>>, Reached' = Reached
  PROVE  NetInv'
<1>1. /\ mailbox \in Seq(Message) /\ Tail(mailbox) \in Seq(Message)
      /\ Reached \in Int /\ nextPayload \in Int
  BY ReachedType, TailType
<1>2. Ordered(Tail(mailbox), Reached, nextPayload) /\ Synced(Tail(mailbox), config)
  BY <1>1, OrderedTail, SyncedKeeps DEF NetInv
<1>3. Stop \in Message /\ Stop.type = "STOP"
  BY MessagesTyped DEF Stop, Msg
<1>4. /\ Ordered(Append(Tail(mailbox), Stop), Reached, nextPayload)
      /\ Synced(Append(Tail(mailbox), Stop), config)
  BY <1>1, <1>2, <1>3, OrderedAppend, SyncedKeeps
<1> QED
  BY <1>2, <1>4 DEF NetInv

\* So does a step that adds a message of no concern to it.
LEMMA NetPosted ==
  ASSUME TypeOK, NetInv, NEW m \in Message, m.type \notin {"PAYLOAD", "CONFIG_SYNC"},
         mailbox' \in {mailbox, Append(mailbox, m)},
         UNCHANGED <<iperfState, results, config, nextPayload>>
  PROVE  NetInv'
<1>1. mailbox \in Seq(Message) /\ Reached \in Int /\ nextPayload \in Int /\ Reached' = Reached
  BY ReachedType DEF Reached
<1>2. /\ Ordered(Append(mailbox, m), Reached, nextPayload)
      /\ Synced(Append(mailbox, m), config)
  BY <1>1, OrderedAppend, SyncedKeeps DEF NetInv
<1> QED
  BY <1>1, <1>2 DEF NetInv

\* FinishWith takes the head and may append a STOP.
LEMMA FinishTakes ==
  ASSUME NEW r, FinishWith(r)
  PROVE  /\ results' = r
         /\ mailbox' \in {Tail(mailbox), Append(Tail(mailbox), Stop)}
BY DEF FinishWith, Post

\* A payload that is handled is above all that came before it.
LEMMA PayloadAhead ==
  ASSUME TypeOK, NetInv, HandlePayload
  PROVE  LET k == Head(mailbox).val
             r == IF iperfState = "IDLE" THEN CleanResults ELSE results
         IN  /\ mailbox # <<>> /\ k \in Chunk /\ k \in Int
             /\ r \in Results /\ r.last \in Int /\ r.last = Reached
             /\ r.last < k /\ k < nextPayload
             /\ Ordered(Tail(mailbox), k, nextPayload)
<1> DEFINE k == Head(mailbox).val
           r == IF iperfState = "IDLE" THEN CleanResults ELSE results
<1>1. mailbox # <<>> /\ Head(mailbox).type = "PAYLOAD" /\ Alive
  BY DEF HandlePayload, Took
<1>2. k \in Chunk /\ k \in Int
  BY <1>1, TailType, ReceiverAssumption DEF Message, Chunk
<1>3. r \in Results /\ r.last = Reached
  <2>1. r \in Results
    BY <1>2, ResultsType DEF TypeOK
  <2>2. iperfState \in {"IDLE", "RECEIVING"}
    BY <1>1 DEF TypeOK, Alive
  <2> QED
    BY <2>1, <2>2 DEF Reached, CleanResults
<1>4. Reached < k /\ k < nextPayload /\ Ordered(Tail(mailbox), k, nextPayload)
  BY <1>1, ReachedType, OrderedTail DEF NetInv
<1> QED
  BY <1>1, <1>2, <1>3, <1>4, ReachedType

\* Handling it keeps the promise: it becomes the last one, or changes nothing.
LEMMA NetPayload ==
  ASSUME TypeOK, NetInv, HandlePayload PROVE NetInv'
<1> DEFINE k == Head(mailbox).val
           r == IF iperfState = "IDLE" THEN CleanResults ELSE results
<1>1. /\ mailbox # <<>> /\ k \in Chunk /\ k \in Int
      /\ r \in Results /\ r.last \in Int /\ r.last = Reached
      /\ r.last < k /\ k < nextPayload
      /\ Ordered(Tail(mailbox), k, nextPayload)
  BY PayloadAhead
<1>2. /\ mailbox' \in {Tail(mailbox), Append(Tail(mailbox), Stop)}
      /\ UNCHANGED <<config, nextPayload>> /\ iperfState' = "RECEIVING"
      /\ results'.last \in {k, r.last}
  <2>1. \/ FinishWith(InOrder(r, k)) \/ FinishWith(Tally(r, k)) \/ FinishWith(AfterGap(r, k))
    BY DEF HandlePayload
  <2>2. InOrder(r, k).last = k /\ AfterGap(r, k).last = k /\ Tally(r, k).last = r.last
    BY <1>1 DEF InOrder, AfterGap, Counted, Tally, Results
  <2> QED
    BY <2>1, <2>2, FinishTakes DEF HandlePayload, netVars
<1>3. Reached' \in {k, r.last}
  BY <1>2 DEF Reached
<1>4. mailbox \in Seq(Message) /\ Tail(mailbox) \in Seq(Message) /\ nextPayload \in Int
  BY <1>1, TailType, ReachedType
<1>5. CASE Reached' = Reached
  BY <1>1, <1>2, <1>5, NetTaken
<1>6. CASE Reached' = k
  <2>1. Synced(Tail(mailbox), config)
    BY <1>1, <1>4, SyncedKeeps DEF NetInv
  <2>2. Stop \in Message /\ Stop.type = "STOP"
    BY MessagesTyped DEF Stop, Msg
  <2>3. /\ Ordered(Append(Tail(mailbox), Stop), k, nextPayload)
        /\ Synced(Append(Tail(mailbox), Stop), config)
    BY <1>1, <1>4, <2>1, <2>2, OrderedAppend, SyncedKeeps
  <2> QED
    BY <1>1, <1>2, <1>6, <2>1, <2>3 DEF NetInv
<1> QED
  BY <1>1, <1>3, <1>5, <1>6

\* The other handlers, the timers and the shell post nothing of concern to it.
LEMMA NetThread ==
  ASSUME TypeOK, NetInv, Thread PROVE NetInv'
<1>1. CASE HandlePayload
  BY <1>1, NetPayload
<1>2. CASE HandleResp
  <2>1. mailbox # <<>> /\ UNCHANGED <<iperfState, config, nextPayload>>
    BY <1>2 DEF HandleResp, Took, netVars
  <2>2. CASE iperfState # "RECEIVING"
    BY <1>2, <2>1, <2>2, NetTaken DEF HandleResp, Reached
  <2>3. CASE iperfState = "RECEIVING"
    <3>1. PICK r : FinishWith(r) /\ r.last = results.last
      BY <1>2, <2>3 DEF HandleResp, Counted
    <3> QED
      BY <2>1, <3>1, FinishTakes, NetTaken DEF Reached
  <2> QED
    BY <2>2, <2>3
<1>3. CASE HandleConfigSync
  <2>1. /\ mailbox # <<>> /\ mailbox' = Tail(mailbox) /\ config' = Head(mailbox).val
        /\ Head(mailbox).type = "CONFIG_SYNC" /\ UNCHANGED <<iperfState, results, nextPayload>>
    BY <1>3 DEF HandleConfigSync, Took, netVars
  <2>2. config' = config
    BY <2>1, ReachedType, SyncedKeeps DEF NetInv
  <2> QED
    BY <2>1, <2>2, NetTaken DEF Reached
<1>4. CASE HandleOther \/ HandleInterestTimeout
  <2>1. /\ mailbox # <<>> /\ mailbox' = Tail(mailbox)
        /\ UNCHANGED <<iperfState, results, config, nextPayload>>
    BY <1>4 DEF HandleOther, HandleInterestTimeout, Took, netVars
  <2> QED
    BY <2>1, NetTaken DEF Reached
<1>5. CASE HandleExpectationTimeout
  <2>1. mailbox # <<>> /\ FinishWith(results) /\ UNCHANGED <<iperfState, config, nextPayload>>
    BY <1>5 DEF HandleExpectationTimeout, Took, netVars
  <2> QED
    BY <2>1, FinishTakes, NetTaken DEF Reached
<1>6. CASE HandleStop
  <2>1. mailbox' = <<>> /\ iperfState' = "STOPPED" /\ UNCHANGED <<config, nextPayload>>
    BY <1>6 DEF HandleStop, netVars
  <2>2. -1 < nextPayload
    BY ReceiverAssumption DEF TypeOK
  <2> QED
    BY <2>1, <2>2 DEF NetInv, Reached, Ordered, Synced
<1> QED
  BY <1>1, <1>2, <1>3, <1>4, <1>5, <1>6 DEF Thread

\* What the network brings keeps it, if the network is disciplined.
LEMMA NetEnvironment ==
  ASSUME TypeOK, NetInv, Disciplined, Environment PROVE NetInv'
<1>1. ASSUME NEW k \in Chunk, PayloadArrives(k) PROVE NetInv'
  <2>1. /\ k >= nextPayload /\ nextPayload' = k + 1
        /\ mailbox' = Append(mailbox, Msg("PAYLOAD", k))
        /\ UNCHANGED <<iperfState, results, config>> /\ k \in Int
    BY <1>1, ReceiverAssumption DEF PayloadArrives, Deliver, Chunk
  <2>2. Msg("PAYLOAD", k) \in Message /\ Msg("PAYLOAD", k).type # "CONFIG_SYNC"
    <3>1. Msg("PAYLOAD", k).type = "PAYLOAD"
      BY DEF Msg
    <3> QED
      BY <3>1, MessagesTyped
  <2>3. Reached < k
    BY <2>1, ReachedType DEF NetInv
  <2>4. Synced(Append(mailbox, Msg("PAYLOAD", k)), config)
    BY <2>2, ReachedType, SyncedKeeps DEF NetInv
  <2>5. Ordered(Append(mailbox, Msg("PAYLOAD", k)), Reached, k + 1)
    BY <2>1, <2>3, ReachedType, OrderedGrow DEF NetInv
  <2>6. Reached' = Reached /\ Reached < k + 1
    BY <2>1, <2>3, ReachedType DEF Reached
  <2> QED
    BY <2>1, <2>4, <2>5, <2>6 DEF NetInv
<1>2. ASSUME NEW k \in Chunk, RespArrives(k) PROVE NetInv'
  <2>1. Msg("RESP", k) \in Message /\ Msg("RESP", k).type = "RESP"
    BY MessagesTyped DEF Msg
  <2> QED
    BY <1>2, <2>1, NetPosted DEF RespArrives, Deliver, netVars
<1>3. CASE ConfigSyncArrives
  <2>1. /\ mailbox' = Append(mailbox, Msg("CONFIG_SYNC", config)) /\ config \in SyncConfigs
        /\ UNCHANGED <<iperfState, results, config, nextPayload>>
    BY <1>3 DEF ConfigSyncArrives, Deliver, netVars
  <2>2. /\ Msg("CONFIG_SYNC", config) \in Message
        /\ Msg("CONFIG_SYNC", config).type = "CONFIG_SYNC"
        /\ Msg("CONFIG_SYNC", config).val = config
    BY <2>1, MessagesTyped DEF Msg
  <2>3. /\ Ordered(Append(mailbox, Msg("CONFIG_SYNC", config)), Reached, nextPayload)
        /\ Synced(Append(mailbox, Msg("CONFIG_SYNC", config)), config)
    BY <2>2, ReachedType, OrderedAppend, SyncedKeeps DEF NetInv
  <2> QED
    BY <2>1, <2>3 DEF NetInv, Reached
<1>4. CASE OtherArrives
  <2>1. Msg("OTHER", 0) \in Message /\ Msg("OTHER", 0).type = "OTHER"
    BY MessagesTyped DEF Msg
  <2> QED
    BY <1>4, <2>1, NetPosted DEF OtherArrives, Deliver, netVars
<1>5. CASE ShellStop
  <2>1. Stop \in Message /\ Stop.type = "STOP"
    BY MessagesTyped DEF Stop, Msg
  <2> QED
    BY <1>5, <2>1, NetPosted DEF ShellStop, netVars
<1>6. CASE ShellReceiver
  BY <1>6 DEF ShellReceiver, NetInv, Reached, Ordered, Synced
<1> QED
  BY <1>1, <1>2, <1>3, <1>4, <1>5, <1>6 DEF Environment

\* NetInv is inductive.
LEMMA NextNet ==
  ASSUME TypeOK, NetInv, Disciplined, [Next]_vars PROVE NetInv'
<1>1. CASE ExpectationTimerFires \/ InterestTimerFires
  <2>1. PICK t \in {"EXPECTATION", "INTEREST"} : Fired(t)
    BY <1>1 DEF ExpectationTimerFires, InterestTimerFires
  <2>2. Msg(t, 0) \in Message /\ Msg(t, 0).type = t
    BY MessagesTyped DEF Msg
  <2> QED
    BY <2>1, <2>2, NetPosted DEF Fired, Post, netVars
<1>2. CASE UNCHANGED vars
  BY <1>2 DEF vars, threadVars, netVars, NetInv, Reached
<1> QED
  BY <1>1, <1>2, NetThread, NetEnvironment DEF Next

\* The network's promise holds in every state.
LEMMA NetKept == ASSUME Disciplined PROVE Spec => []NetInv
<1>1. Init => NetInv
  BY DEF Init, NetInv, Reached, Ordered, Synced
<1>2. TypeOK /\ NetInv /\ [Next]_vars => NetInv'
  BY NextNet
<1> QED
  BY <1>1, <1>2, TypeCorrect, PTL DEF Spec
-----------------------------------------------------------------------------
(* The retry never dies.                                                     *)

ArmedInv ==
  iperfState = "RECEIVING" /\ config.bidir /\ ~ipcLost =>
    expectationTimer \/ Holds(mailbox, "EXPECTATION") \/ Holds(mailbox, "STOP")

\* A CONFIG_SYNC that switches a transfer that is on to mode BIDIR.
SwitchedOn == iperfState = "RECEIVING" /\ ~config.bidir /\ config'.bidir

\* Every other step keeps the retry alive.
LEMMA NextArmed ==
  ASSUME TypeOK, ArmedInv, [Next]_vars, ~SwitchedOn PROVE ArmedInv'
<1> SUFFICES ASSUME iperfState' = "RECEIVING", config'.bidir, ~ipcLost'
             PROVE  \/ expectationTimer' \/ Holds(mailbox', "EXPECTATION")
                    \/ Holds(mailbox', "STOP")
  BY DEF ArmedInv
<1>0. mailbox \in Seq(Message) /\ results \in Results
  BY DEF TypeOK
<1>1. CASE HandlePayload
  <2> DEFINE k == Head(mailbox).val
             r == IF iperfState = "IDLE" THEN CleanResults ELSE results
  <2>1. mailbox # <<>> /\ Head(mailbox).type = "PAYLOAD" /\ config'.bidir = config.bidir
    BY <1>1 DEF HandlePayload, Took
  <2>2. k \in Chunk
    BY <2>1, TailType DEF Message
  <2>3. CASE expectationTimer' = Restarted
    BY <2>1, <2>3 DEF Restarted
  <2>4. CASE expectationTimer' = expectationTimer /\ (r.status[k] = "RECEIVED" \/ r.last >= k)
    <3>1. iperfState = "RECEIVING"
      <4>1. CleanResults.status[k] # "RECEIVED" /\ ~(CleanResults.last >= k)
        BY <2>2, ReceiverAssumption DEF CleanResults, Chunk
      <4>2. iperfState # "IDLE"
        BY <2>4, <4>1
      <4> QED
        BY <1>1, <4>2 DEF HandlePayload, Took, Alive, TypeOK
    <3>2. PICK s : FinishWith(s)
      BY <1>1 DEF HandlePayload
    <3> QED
      BY <2>1, <2>4, <3>1, <3>2, HoldsFinish DEF ArmedInv
  <2> QED
    BY <1>1, <2>3, <2>4 DEF HandlePayload
<1>2. CASE HandleResp
  BY <1>2 DEF HandleResp, Restarted
<1>3. CASE HandleConfigSync
  <2>1. /\ mailbox # <<>> /\ Head(mailbox).type = "CONFIG_SYNC" /\ mailbox' = Tail(mailbox)
        /\ config' = Head(mailbox).val /\ UNCHANGED <<iperfState, expectationTimer, ipcLost>>
    BY <1>3 DEF HandleConfigSync, Took
  <2>2. config.bidir
    BY <2>1 DEF SwitchedOn
  <2> QED
    BY <1>0, <2>1, <2>2, HoldsTail DEF ArmedInv
<1>4. CASE HandleOther \/ HandleInterestTimeout
  <2>1. /\ mailbox # <<>> /\ Head(mailbox).type \in {"OTHER", "INTEREST"}
        /\ mailbox' = Tail(mailbox)
        /\ UNCHANGED <<iperfState, config, expectationTimer, ipcLost>>
    BY <1>4 DEF HandleOther, HandleInterestTimeout, Took
  <2> QED
    BY <1>0, <2>1, HoldsTail DEF ArmedInv
<1>5. CASE HandleExpectationTimeout
  <2>1. FinishWith(results) /\ mailbox # <<>>
    BY <1>5 DEF HandleExpectationTimeout, Took
  <2>2. CASE Done(results)
    BY <2>1, <2>2, HoldsFinish
  <2>3. CASE ~Done(results)
    BY <1>5, <2>3 DEF HandleExpectationTimeout
  <2> QED
    BY <2>2, <2>3
<1>6. CASE HandleStop
  BY <1>6 DEF HandleStop
<1>7. CASE ExpectationTimerFires
  <2>1. Fired("EXPECTATION") /\ Alive
    BY <1>7 DEF ExpectationTimerFires, Fired, Alive
  <2> QED
    BY <2>1, HoldsFired
<1>8. CASE InterestTimerFires
  <2>1. Fired("INTEREST") /\ UNCHANGED <<expectationTimer, iperfState, config>>
    BY <1>8 DEF InterestTimerFires, Fired
  <2> QED
    BY <2>1, HoldsFired DEF ArmedInv
<1>9. CASE Environment
  <2>1. CASE ShellReceiver
    BY <2>1 DEF ShellReceiver
  <2>2. CASE ~ShellReceiver
    BY <1>9, <2>2, HoldsEnvironment DEF ArmedInv
  <2> QED
    BY <2>1, <2>2
<1>10. CASE UNCHANGED vars
  BY <1>10 DEF vars, threadVars, ArmedInv
<1> QED
  BY <1>1, <1>2, <1>3, <1>4, <1>5, <1>6, <1>7, <1>8, <1>9, <1>10 DEF Next, Thread

\* The property's words and the proof's.
LEMMA AheadIsArmed == (RetryAhead <=> ArmedInv) /\ (RetryAhead' <=> ArmedInv')
BY PendingHolds DEF ArmedInv, RetryAhead

\* On every network no step ends the retry of a transfer that may ask for
\* chunks, but a CONFIG_SYNC that makes it such a transfer in its middle and
\* sets no timer (receiver.c:64-95, 396-441, iperf.c:410-425).
THEOREM RetryNeverDies == Spec => RetryArmed
<1>1. TypeOK /\ [Next]_vars =>
        [RetryAhead => RetryAhead' \/ (iperfState = "RECEIVING" /\ ~config.bidir /\ config'.bidir)]_vars
  BY NextArmed, AheadIsArmed DEF SwitchedOn
<1> QED
  BY <1>1, TypeCorrect, PTL DEF Spec, RetryArmed

\* Where every CONFIG_SYNC repeats the configuration, the retry of a transfer
\* that may ask for chunks is always ahead.
LEMMA RetryStaysAhead ==
  ASSUME Disciplined PROVE Spec => []RetryAhead
<1>1. Init => ArmedInv
  BY DEF Init, ArmedInv
<1>2. TypeOK /\ NetInv /\ ArmedInv /\ [Next]_vars => ArmedInv'
  <2> SUFFICES ASSUME TypeOK, NetInv, ArmedInv, [Next]_vars, SwitchedOn PROVE FALSE
    BY NextArmed
  <2>1. HandleConfigSync
    BY DEF SwitchedOn, Next, Thread, HandlePayload, HandleResp, HandleOther,
           HandleInterestTimeout, HandleExpectationTimeout, HandleStop,
           ExpectationTimerFires, InterestTimerFires, Fired, Environment, PayloadArrives,
           RespArrives, ConfigSyncArrives, OtherArrives, Deliver, ShellStop, ShellReceiver,
           vars, threadVars
  <2>2. /\ mailbox # <<>> /\ Head(mailbox).type = "CONFIG_SYNC" /\ config' = Head(mailbox).val
        /\ mailbox \in Seq(Message)
    BY <2>1 DEF HandleConfigSync, Took, TypeOK
  <2>3. config' = config
    BY <2>2, SyncedKeeps DEF NetInv
  <2> QED
    BY <2>3 DEF SwitchedOn
<1>3. ArmedInv => RetryAhead
  BY AheadIsArmed
<1> QED
  BY <1>1, <1>2, <1>3, TypeCorrect, NetKept, PTL DEF Spec

-----------------------------------------------------------------------------
(* The counter, the marks and the file.                                      *)

Marked(r) == {k \in Chunk : r.status[k] = "RECEIVED"}

\* What is marked is copied, and the counter is not behind the marks.
Covers(r) == Marked(r) \subseteq r.file /\ Cardinality(Marked(r)) <= r.unique

\* The counter is exact, and nothing above the last chunk is marked.
Exact(r) == r.unique = Cardinality(Marked(r)) /\ \A k \in Marked(r) : k <= r.last

\* Sets of chunks are finite, and one more chunk is at most one more.
LEMMA MarkedFinite ==
  ASSUME NEW S \in SUBSET Chunk, NEW k \in Chunk
  PROVE  /\ IsFiniteSet(S) /\ Cardinality(S) \in Nat
         /\ Cardinality(S \union {k}) = IF k \in S THEN Cardinality(S) ELSE Cardinality(S) + 1
         /\ \A T \in SUBSET S : Cardinality(T) <= Cardinality(S)
<1>1. IsFiniteSet(Chunk)
  BY FS_Interval, ReceiverAssumption DEF Chunk
<1>2. IsFiniteSet(S)
  BY <1>1, FS_Subset
<1> QED
  BY <1>2, FS_CardinalityType, FS_AddElement, FS_Subset

\* The results at the start of a transfer.
LEMMA CleanCovers == Covers(CleanResults) /\ Exact(CleanResults)
<1>1. Marked(CleanResults) = {} /\ CleanResults.unique = 0
  BY DEF Marked, CleanResults
<1> QED
  BY <1>1, FS_EmptySet DEF Covers, Exact

\* A chunk that is counted, with no more marks than there were.
LEMMA CountedCovers ==
  ASSUME NEW r \in Results, NEW k \in Chunk, NEW last \in -1..MaxChunk,
         NEW st \in [Chunk -> {"NOT_RECEIVED", "REQUESTED", "RECEIVED"}],
         {i \in Chunk : st[i] = "RECEIVED"} \subseteq Marked(r)
  PROVE  /\ Covers(r) => Covers(Counted(r, k, last, st))
         /\ Exact(r) /\ st = r.status /\ r.last < k /\ last = k => Exact(Counted(r, k, last, st))
<1> DEFINE c == Counted(r, k, last, st)
           S == {i \in Chunk : st[i] = "RECEIVED"}
<1>1. /\ c.unique = r.unique + 1 /\ c.file = r.file \union {k} /\ c.last = last
      /\ c.status = [st EXCEPT ![k] = "RECEIVED"]
  BY DEF Counted
<1>2. Marked(c) = S \union {k}
  BY <1>1 DEF Marked
<1>3. S \in SUBSET Chunk /\ Marked(r) \in SUBSET Chunk /\ r.unique \in Nat /\ r.last \in Int
  BY ReceiverAssumption DEF Marked, Results
<1> HIDE DEF c, S
<1>4. /\ Cardinality(S) \in Nat /\ Cardinality(Marked(r)) \in Nat
      /\ Cardinality(S) <= Cardinality(Marked(r))
      /\ Cardinality(S \union {k}) = IF k \in S THEN Cardinality(S) ELSE Cardinality(S) + 1
  <2>1. S \subseteq Marked(r)
    BY DEF S
  <2> QED
    BY <1>3, <2>1, MarkedFinite
<1>5. ASSUME Covers(r) PROVE Covers(c)
  <2>1. S \subseteq Marked(r)
    BY DEF S
  <2> QED
    BY <1>1, <1>2, <1>3, <1>4, <1>5, <2>1 DEF Covers
<1>6. ASSUME Exact(r), st = r.status, r.last < k, last = k PROVE Exact(c)
  <2>1. S = Marked(r)
    BY <1>6 DEF S, Marked
  <2>2. k \notin S
    BY <1>3, <1>6, <2>1, ReceiverAssumption DEF Exact, Chunk
  <2>3. \A i \in S \union {k} : i <= k
    BY <1>3, <1>6, <2>1, ReceiverAssumption DEF Exact, Chunk
  <2> QED
    BY <1>1, <1>2, <1>4, <1>6, <2>1, <2>2, <2>3 DEF Exact
<1> QED
  BY <1>5, <1>6 DEF c

CountInv == iperfState = "RECEIVING" => Covers(results)

\* A payload that is handled leaves results that cover, exactly without requests.
LEMMA PayloadCovers ==
  ASSUME TypeOK, NetInv, HandlePayload
  PROVE  /\ CountInv => Covers(results')
         /\ ~config.bidir /\ Exact(results) => Exact(results')
<1> DEFINE k == Head(mailbox).val
           r == IF iperfState = "IDLE" THEN CleanResults ELSE results
           Status == [Chunk -> {"NOT_RECEIVED", "REQUESTED", "RECEIVED"}]
<1>1. k \in Chunk /\ k \in Int /\ r \in Results /\ r.last \in Int /\ r.last < k
  BY PayloadAhead
<1>2. iperfState \in {"IDLE", "RECEIVING"}
  BY DEF HandlePayload, Took, Alive, TypeOK
<1>3. (CountInv => Covers(r)) /\ (Exact(results) => Exact(r))
  BY <1>2, CleanCovers DEF CountInv
<1>4. r.status \in Status /\ GapMarked(r, k) \in Status /\ k \in -1..MaxChunk
  BY <1>1, ReceiverAssumption DEF Results, GapMarked, Chunk
<1>5. CASE results' = InOrder(r, k)
  BY <1>1, <1>3, <1>4, <1>5, CountedCovers DEF InOrder, Marked
<1>6. CASE results' = Tally(r, k) /\ (r.status[k] = "RECEIVED" \/ r.last >= k)
  <2>1. r.status[k] = "RECEIVED"
    BY <1>1, <1>6
  <2>2. Tally(r, k).status = r.status
    BY <1>4, <2>1 DEF Tally, Results
  <2>3. Marked(Tally(r, k)) = Marked(r)
    BY <2>2 DEF Marked
  <2>4. Tally(r, k).unique = r.unique /\ Tally(r, k).file = r.file /\ Tally(r, k).last = r.last
    BY DEF Tally
  <2> QED
    BY <1>3, <1>6, <2>3, <2>4 DEF Covers, Exact
<1>7. CASE results' = AfterGap(r, k)
  <2>1. {i \in Chunk : GapMarked(r, k)[i] = "RECEIVED"} \subseteq Marked(r)
    BY DEF GapMarked, Marked
  <2>2. ~config.bidir => GapMarked(r, k) = r.status
    BY <1>4 DEF GapMarked
  <2> QED
    BY <1>1, <1>3, <1>4, <1>7, <2>1, <2>2, CountedCovers DEF AfterGap
<1>8. \/ results' = InOrder(r, k) \/ results' = AfterGap(r, k)
      \/ results' = Tally(r, k) /\ (r.status[k] = "RECEIVED" \/ r.last >= k)
  BY FinishTakes DEF HandlePayload
<1> QED
  BY <1>5, <1>6, <1>7, <1>8

\* Every step keeps the marks covered by the counter and by the file.
LEMMA NextCount ==
  ASSUME TypeOK, NetInv, CountInv, [Next]_vars PROVE CountInv'
<1> SUFFICES ASSUME iperfState' = "RECEIVING" PROVE Covers(results')
  BY DEF CountInv, Covers, Marked
<1>1. CASE HandlePayload
  BY <1>1, PayloadCovers
<1>2. CASE HandleResp
  <2> DEFINE k == Head(mailbox).val
  <2>1. mailbox # <<>> /\ iperfState = "RECEIVING" /\ Covers(results)
    BY <1>2 DEF HandleResp, Took, CountInv
  <2>2. results' \in {results, Counted(results, k, results.last, results.status)}
    BY <1>2, <2>1, FinishTakes DEF HandleResp
  <2>3. k \in Chunk /\ results \in Results
    BY <1>2, TailType DEF HandleResp, Took, Message, TypeOK
  <2>4. results.last \in -1..MaxChunk
        /\ results.status \in [Chunk -> {"NOT_RECEIVED", "REQUESTED", "RECEIVED"}]
    BY <2>3 DEF Results
  <2>5. Covers(Counted(results, k, results.last, results.status))
    BY <2>1, <2>3, <2>4, CountedCovers DEF Marked
  <2> QED
    BY <2>1, <2>2, <2>5
<1>3. CASE HandleExpectationTimeout
  BY <1>3, FinishTakes DEF HandleExpectationTimeout, CountInv
<1>4. CASE HandleConfigSync \/ HandleOther \/ HandleInterestTimeout
  BY <1>4 DEF HandleConfigSync, HandleOther, HandleInterestTimeout, CountInv
<1>5. CASE HandleStop
  BY <1>5 DEF HandleStop
<1>6. CASE ExpectationTimerFires \/ InterestTimerFires
  BY <1>6 DEF ExpectationTimerFires, InterestTimerFires, Fired, CountInv
<1>7. CASE Environment
  <2>1. CASE ShellReceiver
    BY <2>1 DEF ShellReceiver
  <2>2. CASE ~ShellReceiver
    BY <1>7, <2>2, HoldsEnvironment DEF CountInv
  <2> QED
    BY <2>1, <2>2
<1>8. CASE UNCHANGED vars
  BY <1>8 DEF vars, threadVars, CountInv
<1> QED
  BY <1>1, <1>2, <1>3, <1>4, <1>5, <1>6, <1>7, <1>8 DEF Next, Thread

\* A chunk that is marked received is in the file, whatever gaps, answers and
\* duplicates came before (receiver.c:188-239, 266-292).
THEOREM MarkedIsCopied ==
  ASSUME Disciplined PROVE Spec => []ReceivedIsCopied
<1>1. Init => CountInv
  BY DEF Init, CountInv
<1>2. TypeOK /\ NetInv /\ CountInv /\ [Next]_vars => CountInv'
  BY NextCount
<1>3. CountInv => ReceivedIsCopied
  BY DEF CountInv, Covers, Marked, ReceivedIsCopied, Received
<1> QED
  BY <1>1, <1>2, <1>3, TypeCorrect, NetKept, PTL DEF Spec

-----------------------------------------------------------------------------
(* The counter reaches the number of chunks, and never unnoticed.            *)

ClosingInv ==
  iperfState = "RECEIVING" /\ ~ipcLost =>
    results.unique < config.numPkts \/ Holds(mailbox, "STOP")

\* A handler that finishes with a counter that is at most one higher.
LEMMA FinishCloses ==
  ASSUME TypeOK, mailbox # <<>>, Head(mailbox).type # "STOP",
         NEW r, FinishWith(r), r.unique \in Nat, config' = config, ~ipcLost',
         r.unique <= config.numPkts \/ Holds(mailbox, "STOP")
  PROVE  results'.unique < config'.numPkts \/ Holds(mailbox', "STOP")
<1>1. config.numPkts \in Nat
  BY ReceiverAssumption DEF TypeOK, ConfigType
<1>2. results' = r
  BY DEF FinishWith
<1> QED
  BY <1>1, <1>2, HoldsFinish DEF Done

\* Every step keeps the counter below, or a STOP waiting.
LEMMA NextClosing ==
  ASSUME TypeOK, NetInv, ClosingInv, [Next]_vars PROVE ClosingInv'
<1> SUFFICES ASSUME iperfState' = "RECEIVING", ~ipcLost'
             PROVE  results'.unique < config'.numPkts \/ Holds(mailbox', "STOP")
  BY DEF ClosingInv
<1>0. /\ mailbox \in Seq(Message) /\ results \in Results /\ results.unique \in Nat
      /\ config.numPkts \in Nat /\ 1 <= config.numPkts
  BY ReceiverAssumption DEF TypeOK, Results, ConfigType
<1>1. CASE HandlePayload
  <2> DEFINE k == Head(mailbox).val
             r == IF iperfState = "IDLE" THEN CleanResults ELSE results
  <2>1. /\ mailbox # <<>> /\ Head(mailbox).type = "PAYLOAD" /\ config' = config
        /\ iperfState \in {"IDLE", "RECEIVING"}
    BY <1>1 DEF HandlePayload, Took, Alive, TypeOK
  <2>2. PICK s : FinishWith(s) /\ s \in {InOrder(r, k), Tally(r, k), AfterGap(r, k)}
    BY <1>1 DEF HandlePayload
  <2>3. s.unique \in {r.unique, r.unique + 1}
    <3>1. r \in Results /\ k \in Chunk
      BY <1>1, PayloadAhead
    <3>2. Tally(r, k).unique = r.unique
      BY <3>1 DEF Tally, Results
    <3> QED
      BY <2>2, <3>2 DEF InOrder, AfterGap, Counted
  <2>4. ~ipcLost
    BY <2>1, <2>2, HoldsFinish
  <2>5. r.unique \in Nat /\ (r.unique < config.numPkts \/ Holds(mailbox, "STOP"))
    BY <1>0, <2>1, <2>4 DEF ClosingInv, CleanResults
  <2>6. s.unique \in Nat /\ (s.unique <= config.numPkts \/ Holds(mailbox, "STOP"))
    BY <1>0, <2>3, <2>5
  <2> QED
    BY <2>1, <2>2, <2>6, FinishCloses
<1>2. CASE HandleResp
  <2>1. /\ mailbox # <<>> /\ Head(mailbox).type = "RESP" /\ config' = config
        /\ iperfState = "RECEIVING"
    BY <1>2 DEF HandleResp, Took
  <2>2. PICK s : FinishWith(s) /\ s.unique \in {results.unique, results.unique + 1}
    BY <1>2, <2>1 DEF HandleResp, Counted
  <2>3. ~ipcLost
    BY <2>1, <2>2, HoldsFinish
  <2>4. s.unique \in Nat /\ (s.unique <= config.numPkts \/ Holds(mailbox, "STOP"))
    BY <1>0, <2>1, <2>2, <2>3 DEF ClosingInv
  <2> QED
    BY <2>1, <2>2, <2>4, FinishCloses
<1>3. CASE HandleExpectationTimeout
  <2>1. /\ mailbox # <<>> /\ Head(mailbox).type = "EXPECTATION" /\ config' = config
        /\ iperfState = "RECEIVING" /\ FinishWith(results)
    BY <1>3 DEF HandleExpectationTimeout, Took
  <2>2. ~ipcLost
    BY <2>1, HoldsFinish
  <2> QED
    BY <1>0, <2>1, <2>2, FinishCloses DEF ClosingInv
<1>4. CASE HandleConfigSync \/ HandleOther \/ HandleInterestTimeout
  <2>1. /\ mailbox # <<>> /\ Head(mailbox).type \in {"CONFIG_SYNC", "OTHER", "INTEREST"}
        /\ mailbox' = Tail(mailbox) /\ UNCHANGED <<iperfState, results, ipcLost>>
    BY <1>4 DEF HandleConfigSync, HandleOther, HandleInterestTimeout, Took
  <2>2. config' = config
    <3>1. CASE HandleConfigSync
      BY <1>0, <2>1, <3>1, SyncedKeeps DEF HandleConfigSync, Took, NetInv
    <3> QED
      BY <1>4, <3>1 DEF HandleOther, HandleInterestTimeout
  <2> QED
    BY <1>0, <2>1, <2>2, HoldsTail DEF ClosingInv
<1>5. CASE HandleStop
  BY <1>5 DEF HandleStop
<1>6. CASE ExpectationTimerFires \/ InterestTimerFires
  <2>1. PICK t \in {"EXPECTATION", "INTEREST"} : Fired(t)
    BY <1>6 DEF ExpectationTimerFires, InterestTimerFires
  <2>2. UNCHANGED <<iperfState, results, config>>
    BY <2>1 DEF Fired
  <2> QED
    BY <2>1, <2>2, HoldsFired DEF ClosingInv
<1>7. CASE Environment
  <2>1. CASE ShellReceiver
    BY <2>1 DEF ShellReceiver
  <2>2. CASE ~ShellReceiver
    BY <1>7, <2>2, HoldsEnvironment DEF ClosingInv
  <2> QED
    BY <2>1, <2>2
<1>8. CASE UNCHANGED vars
  BY <1>8 DEF vars, threadVars, ClosingInv
<1> QED
  BY <1>1, <1>2, <1>3, <1>4, <1>5, <1>6, <1>7, <1>8 DEF Next, Thread

\* A receiver that has every chunk marked has told itself to stop: the counter
\* did not step over the number of chunks, which checkForCompletionAndTransition
\* compares with "==" (receiver.c:132-149, 253, 291).
THEOREM CompleteStops ==
  ASSUME Disciplined PROVE Spec => []AllReceivedStops
<1>1. Init => CountInv /\ ClosingInv
  BY DEF Init, CountInv, ClosingInv
<1>2. TypeOK /\ NetInv /\ CountInv /\ ClosingInv /\ [Next]_vars => CountInv' /\ ClosingInv'
  BY NextCount, NextClosing
<1>3. TypeOK /\ CountInv /\ ClosingInv => AllReceivedStops
  <2> SUFFICES ASSUME TypeOK, CountInv, ClosingInv, iperfState = "RECEIVING",
                      File \subseteq Received, ~ipcLost
               PROVE  Holds(mailbox, "STOP")
    BY PendingHolds DEF AllReceivedStops
  <2>1. /\ config.numPkts \in Nat /\ config.numPkts <= MaxChunk + 1
        /\ results \in Results /\ results.unique \in Nat
    BY ReceiverAssumption DEF TypeOK, ConfigType, Results
  <2>2. Received = Marked(results) /\ Received \in SUBSET Chunk
    BY DEF Received, Marked
  <2>3. Cardinality(File) = config.numPkts
    BY <2>1, FS_Interval DEF File
  <2>4. Cardinality(File) <= Cardinality(Received) /\ Cardinality(Received) \in Nat
    <3>1. 0 \in Chunk
      BY ReceiverAssumption DEF Chunk
    <3> QED
      BY <2>2, <3>1, MarkedFinite
  <2> QED
    BY <2>1, <2>2, <2>3, <2>4 DEF CountInv, Covers, ClosingInv
<1> QED
  BY <1>1, <1>2, <1>3, TypeCorrect, NetKept, PTL DEF Spec

-----------------------------------------------------------------------------
(* Without requests.                                                         *)

\* Nothing was asked for, nothing will be, nothing is answered, and the counter
\* is exact.
PlainInv ==
  ~config.bidir =>
    /\ asked = {} /\ reqQueue = <<>>
    /\ ~expectationTimer
    /\ ~Holds(mailbox, "EXPECTATION") /\ ~Holds(mailbox, "RESP")
    /\ Exact(results)

\* A handler that may stop the thread adds no message of another type.
LEMMA FinishAdds ==
  ASSUME TypeOK, mailbox # <<>>, NEW r, FinishWith(r), NEW type, type # "STOP",
         ~Holds(mailbox, type)
  PROVE  ~Holds(mailbox', type)
<1>1. mailbox \in Seq(Message) /\ Tail(mailbox) \in Seq(Message)
  BY TailType DEF TypeOK
<1>2. Stop \in Message /\ Stop.type = "STOP"
  BY MessagesTyped DEF Stop, Msg
<1>3. mailbox' \in {Tail(mailbox), Append(Tail(mailbox), Stop)}
  BY FinishTakes
<1>4. ~Holds(Tail(mailbox), type)
  BY <1>1, TailHolds
<1> QED
  BY <1>1, <1>2, <1>3, <1>4, HoldsAppend

\* An empty queue has nothing for a bulk interest.
LEMMA EmptyBulk ==
  ASSUME reqQueue = <<>>, NEW n, n = Min2(BulkMax, Len(reqQueue))
  PROVE  /\ SubSeq(reqQueue, n + 1, Len(reqQueue)) = <<>>
         /\ {reqQueue[i] : i \in 1..n} = {}
<1>1. reqQueue \in Seq(Chunk) /\ Len(reqQueue) = 0
  BY EmptySeq
<1>2. n = 0
  BY <1>1, ReceiverAssumption DEF Min2
<1>3. SubSeq(reqQueue, n + 1, Len(reqQueue)) \in Seq(Chunk)
      /\ Len(SubSeq(reqQueue, n + 1, Len(reqQueue))) = 0
  BY <1>1, <1>2, SubSeqProperties
<1>4. SubSeq(reqQueue, n + 1, Len(reqQueue)) = <<>>
  BY <1>3, EmptySeq
<1> QED
  BY <1>2, <1>4

\* A step of the thread asks for nothing and gets no answer.
LEMMA PlainThread ==
  ASSUME TypeOK, NetInv, PlainInv, Thread PROVE PlainInv'
<1> SUFFICES ASSUME ~config'.bidir
             PROVE  /\ asked' = {} /\ reqQueue' = <<>> /\ ~expectationTimer'
                    /\ ~Holds(mailbox', "EXPECTATION") /\ ~Holds(mailbox', "RESP")
                    /\ Exact(results')
  BY DEF PlainInv, Exact, Marked
<1>0. mailbox \in Seq(Message)
  BY DEF TypeOK
<1>1. config' = config
  <2>1. CASE HandleConfigSync
    BY <1>0, <2>1, SyncedKeeps DEF HandleConfigSync, Took, NetInv
  <2> QED
    BY <2>1 DEF Thread, HandlePayload, HandleResp, HandleOther,
                HandleInterestTimeout, HandleExpectationTimeout, HandleStop
<1>2. /\ asked = {} /\ reqQueue = <<>> /\ ~expectationTimer
      /\ ~Holds(mailbox, "EXPECTATION") /\ ~Holds(mailbox, "RESP")
      /\ Exact(results) /\ ~config.bidir
  BY <1>1 DEF PlainInv
<1>3. CASE HandlePayload
  <2>1. PICK r : FinishWith(r)
    BY <1>3 DEF HandlePayload
  <2>2. mailbox # <<>> /\ Head(mailbox).type = "PAYLOAD"
    BY <1>3 DEF HandlePayload, Took
  <2>3. ~Holds(mailbox', "EXPECTATION") /\ ~Holds(mailbox', "RESP")
    BY <1>2, <2>1, <2>2, FinishAdds
  <2>4. Exact(results')
    BY <1>2, <1>3, PayloadCovers
  <2>5. /\ asked' = asked /\ reqQueue' = reqQueue
        /\ expectationTimer' \in {Restarted, expectationTimer}
    BY <1>2, <1>3 DEF HandlePayload, netVars
  <2>6. ~Restarted
    BY <1>2, Zenon DEF Restarted
  <2> QED
    BY <1>2, <2>3, <2>4, <2>5, <2>6
<1>4. ~HandleResp /\ ~HandleExpectationTimeout
  <2>1. mailbox # <<>> => Head(mailbox).type \notin {"RESP", "EXPECTATION"}
    BY <1>0, <1>2, TailHolds
  <2> QED
    BY <2>1 DEF HandleResp, HandleExpectationTimeout, Took
<1>5. CASE HandleConfigSync \/ HandleOther \/ HandleInterestTimeout
  <2>1. mailbox # <<>> /\ mailbox' = Tail(mailbox) /\ UNCHANGED <<results, expectationTimer>>
    BY <1>5 DEF HandleConfigSync, HandleOther, HandleInterestTimeout, Took
  <2>2. ~Holds(mailbox', "EXPECTATION") /\ ~Holds(mailbox', "RESP")
    BY <1>0, <1>2, <2>1, TailHolds
  <2>3. asked' = {} /\ reqQueue' = <<>>
    <3>1. CASE HandleInterestTimeout
      BY <1>2, <3>1, EmptyBulk DEF HandleInterestTimeout
    <3> QED
      BY <1>2, <1>5, <3>1 DEF HandleConfigSync, HandleOther, netVars
  <2> QED
    BY <1>2, <2>1, <2>2, <2>3
<1>6. CASE HandleStop
  BY <1>2, <1>6, EmptyHolds DEF HandleStop, TimersStopped, netVars
<1> QED
  BY <1>3, <1>4, <1>5, <1>6 DEF Thread

\* Nor does any other step.
LEMMA NextPlain ==
  ASSUME TypeOK, NetInv, PlainInv, Disciplined, [Next]_vars PROVE PlainInv'
<1>1. CASE Thread
  BY <1>1, PlainThread
<1>2. CASE ~Thread
  <2> SUFFICES ASSUME ~config'.bidir
               PROVE  /\ asked' = {} /\ reqQueue' = <<>> /\ ~expectationTimer'
                      /\ ~Holds(mailbox', "EXPECTATION") /\ ~Holds(mailbox', "RESP")
                      /\ Exact(results')
    BY DEF PlainInv, Exact, Marked
  <2>1. config' = config
    BY <1>2 DEF Next, ExpectationTimerFires, InterestTimerFires, Fired, Environment, PayloadArrives,
                RespArrives, ConfigSyncArrives, OtherArrives, Deliver, ShellStop, ShellReceiver,
                vars, threadVars
  <2>2. /\ asked = {} /\ reqQueue = <<>> /\ ~expectationTimer /\ mailbox \in Seq(Message)
        /\ ~Holds(mailbox, "EXPECTATION") /\ ~Holds(mailbox, "RESP") /\ Exact(results)
    BY <2>1 DEF PlainInv, TypeOK
  <2>3. CASE InterestTimerFires
    <3>1. Msg("INTEREST", 0) \in Message /\ Msg("INTEREST", 0).type = "INTEREST"
      BY MessagesTyped DEF Msg
    <3>2. mailbox' \in {mailbox, Append(mailbox, Msg("INTEREST", 0))}
      BY <2>3 DEF InterestTimerFires, Fired, Post
    <3>3. ~Holds(mailbox', "EXPECTATION") /\ ~Holds(mailbox', "RESP")
      BY <2>2, <3>1, <3>2, HoldsAppend
    <3> QED
      BY <2>2, <2>3, <3>3 DEF InterestTimerFires, Fired, netVars
  <2>4. ~ExpectationTimerFires
    BY <2>2 DEF ExpectationTimerFires
  <2>5. CASE Environment /\ ~ShellReceiver
    <3>1. UNCHANGED <<results, reqQueue, expectationTimer>>
      BY <2>5, HoldsEnvironment
    <3>2. asked' = asked
      BY <2>5 DEF Environment, PayloadArrives, RespArrives, ConfigSyncArrives, OtherArrives,
                  ShellStop, netVars
    <3>3. \/ mailbox' = mailbox
          \/ \E m \in Message : m.type \notin {"RESP", "EXPECTATION"} /\ mailbox' = Append(mailbox, m)
      <4>1. \A k \in Chunk : ~RespArrives(k)
        BY <2>2 DEF RespArrives
      <4>2. \A t, v : Msg(t, v).type = t
        BY DEF Msg
      <4> QED
        BY <2>5, <4>1, <4>2, MessagesTyped
        DEF Environment, PayloadArrives, ConfigSyncArrives, OtherArrives, ShellStop, Deliver, Stop
    <3>4. ~Holds(mailbox', "EXPECTATION") /\ ~Holds(mailbox', "RESP")
      BY <2>2, <3>3, HoldsAppend
    <3> QED
      BY <2>2, <3>1, <3>2, <3>4
  <2>6. CASE ShellReceiver
    BY <2>2, <2>6, CleanCovers, EmptyHolds DEF ShellReceiver
  <2>7. CASE UNCHANGED vars
    BY <2>2, <2>7 DEF vars, threadVars, netVars
  <2> QED
    BY <1>2, <2>3, <2>4, <2>5, <2>6, <2>7 DEF Next
<1> QED
  BY <1>1, <1>2

\* Without requests the counter of unique chunks is the number of chunks marked
\* received, in every state (receiver.c:188-239).
THEOREM PlainCountExact ==
  ASSUME Disciplined PROVE Spec => []CountExact
<1>1. Init => PlainInv
  BY CleanCovers, EmptyHolds DEF Init, PlainInv
<1>2. TypeOK /\ NetInv /\ PlainInv /\ [Next]_vars => PlainInv'
  BY NextPlain
<1>3. PlainInv => CountExact
  BY DEF PlainInv, CountExact, Exact, Marked, Received
<1> QED
  BY <1>1, <1>2, <1>3, TypeCorrect, NetKept, PTL DEF Spec
-----------------------------------------------------------------------------
(* How many messages of each kind the mailbox can come to hold.              *)

\* The messages whose handlers may post a STOP.
Posters == {"PAYLOAD", "RESP", "EXPECTATION"}

\* The STOPs in mb, and those that the messages ahead of one of them may still
\* add, are at most n: what stands behind a STOP is never handled.
StopsWithin(mb, n) ==
  NumIn(mb, {"STOP"}) > 0 =>
    \E p \in 1..Len(mb) :
      /\ mb[p].type = "STOP"
      /\ NumIn(mb, {"STOP"}) + NumOf(mb, 1, p - 1, Posters) <= n

RoomInv ==
  /\ NumIn(mailbox, PacketTypes) <= PktSlots
  /\ NumIn(mailbox, {"EXPECTATION"}) <= MaxPending
  /\ NumIn(mailbox, {"INTEREST"}) <= MaxPending
  /\ StopsWithin(mailbox, PktSlots + MaxPending + One(~running))

\* The model's counts are those of MailboxProofs.
LEMMA CountsAgree ==
  ASSUME TypeOK
  PROVE  /\ Cardinality(Packets) = NumIn(mailbox, PacketTypes)
         /\ \A t : Cardinality(Pending(t)) = NumIn(mailbox, {t})
<1>1. DOMAIN mailbox = 1..Len(mailbox)
  BY DEF TypeOK
<1>2. Packets = Places(mailbox, 1, Len(mailbox), PacketTypes)
  BY <1>1 DEF Packets, Places, PacketTypes
<1>3. \A t : Pending(t) = Places(mailbox, 1, Len(mailbox), {t})
  BY <1>1 DEF Pending, Places
<1> QED
  BY <1>2, <1>3 DEF NumIn, NumOf

\* A mailbox is made up of packets, of the timers' messages and of STOPs.
LEMMA LengthIsCounts ==
  ASSUME NEW mb \in Seq(Message)
  PROVE  Len(mb) = NumIn(mb, PacketTypes) + NumIn(mb, {"EXPECTATION"})
                     + NumIn(mb, {"INTEREST"}) + NumIn(mb, {"STOP"})
<1> DEFINE n == Len(mb)
           T == PacketTypes \cup {"EXPECTATION"}
           U == T \cup {"INTEREST"}
           V == U \cup {"STOP"}
<1>1. n \in Nat /\ 1 \in Int /\ n \in Int /\ 1 <= n + 1
  OBVIOUS
<1>2. \A i \in 1..n : mb[i].type \in V
  BY DEF Message, PacketTypes
<1>3. /\ PacketTypes \cap {"EXPECTATION"} = {} /\ T \cap {"INTEREST"} = {}
      /\ U \cap {"STOP"} = {}
  BY DEF PacketTypes
<1> HIDE DEF n, V, U, T
<1>4. NumOf(mb, 1, n, V) = n - 1 + 1
  BY <1>1, <1>2, NumAll
<1>5. NumOf(mb, 1, n, V) = NumOf(mb, 1, n, U) + NumOf(mb, 1, n, {"STOP"})
  BY <1>1, <1>3, NumSplit DEF V
<1>6. NumOf(mb, 1, n, U) = NumOf(mb, 1, n, T) + NumOf(mb, 1, n, {"INTEREST"})
  BY <1>1, <1>3, NumSplit DEF U
<1>7. NumOf(mb, 1, n, T) = NumOf(mb, 1, n, PacketTypes) + NumOf(mb, 1, n, {"EXPECTATION"})
  BY <1>1, <1>3, NumSplit DEF T
<1>8. /\ NumOf(mb, 1, n, PacketTypes) \in Nat /\ NumOf(mb, 1, n, {"EXPECTATION"}) \in Nat
      /\ NumOf(mb, 1, n, {"INTEREST"}) \in Nat /\ NumOf(mb, 1, n, {"STOP"}) \in Nat
  BY <1>1, NumType
<1> QED
  BY <1>1, <1>4, <1>5, <1>6, <1>7, <1>8 DEF NumIn, n

\* A message that may post a STOP is a packet or the expectation timer's.
LEMMA PostersFew ==
  ASSUME NEW mb \in Seq(Message)
  PROVE  /\ NumIn(mb, Posters) \in Nat
         /\ NumIn(mb, Posters) <= NumIn(mb, PacketTypes) + NumIn(mb, {"EXPECTATION"})
<1> DEFINE n == Len(mb)
           T == PacketTypes \cup {"EXPECTATION"}
<1>1. n \in Int /\ 1 \in Int /\ 1 <= 1 /\ n <= n
  OBVIOUS
<1>2. PacketTypes \cap {"EXPECTATION"} = {} /\ Posters \subseteq T
  BY DEF PacketTypes, Posters
<1> HIDE DEF n, T
<1>3. NumOf(mb, 1, n, Posters) <= NumOf(mb, 1, n, T)
  BY <1>1, <1>2, NumWithin
<1>4. NumOf(mb, 1, n, T) = NumOf(mb, 1, n, PacketTypes) + NumOf(mb, 1, n, {"EXPECTATION"})
  BY <1>1, <1>2, NumSplit DEF T
<1>5. NumOf(mb, 1, n, Posters) \in Nat
  BY <1>1, NumType
<1> QED
  BY <1>3, <1>4, <1>5 DEF NumIn, n

\* Taking a message that is no STOP; one that may post a STOP leaves room for it.
LEMMA StopsTaken ==
  ASSUME NEW mb \in Seq(Message), mb # <<>>, Head(mb).type # "STOP",
         NEW n \in Int, StopsWithin(mb, n)
  PROVE  StopsWithin(Tail(mb), n - One(Head(mb).type \in Posters))
<1> DEFINE len == Len(mb)
           one == One(Head(mb).type \in Posters)
<1>1. /\ len \in Nat /\ len >= 1 /\ Head(mb) = mb[1] /\ Len(Tail(mb)) = len - 1
      /\ \A i \in 1..len - 1 : Tail(mb)[i] = mb[i + 1]
  BY HeadTailProperties, EmptySeq
<1>2. NumIn(Tail(mb), {"STOP"}) = NumIn(mb, {"STOP"}) /\ NumIn(mb, {"STOP"}) \in Nat
  BY NumInTail, NumInType DEF One
<1>3. SUFFICES ASSUME NumIn(mb, {"STOP"}) > 0
               PROVE  \E p \in 1..len - 1 :
                        /\ Tail(mb)[p].type = "STOP"
                        /\ NumIn(mb, {"STOP"}) + NumOf(Tail(mb), 1, p - 1, Posters) <= n - one
  BY <1>1, <1>2 DEF StopsWithin
<1>4. PICK p \in 1..len : /\ mb[p].type = "STOP"
                          /\ NumIn(mb, {"STOP"}) + NumOf(mb, 1, p - 1, Posters) <= n
  BY <1>3 DEF StopsWithin
<1> HIDE DEF len, one
<1>5. p # 1 /\ p - 1 \in 1..len - 1 /\ Tail(mb)[p - 1].type = "STOP"
  <2>1. p # 1
    BY <1>1, <1>4
  <2>2. p - 1 \in 1..len - 1 /\ p - 1 + 1 = p
    BY <1>1, <2>1
  <2> QED
    BY <1>1, <1>4, <2>1, <2>2
<1>6. /\ p - 2 \in Int /\ p - 1 \in Int /\ 1 <= p - 1 /\ p - 2 < len
      /\ p - 2 + 1 = p - 1 /\ 1 + 1 = 2 /\ p - 1 - 1 = p - 2
  BY <1>1, <1>5
<1>7. NumOf(Tail(mb), 1, p - 2, Posters) = NumOf(mb, 1 + 1, p - 2 + 1, Posters)
  BY <1>6, NumTail DEF len
<1>8. NumOf(mb, 1, p - 1, Posters) = NumOf(mb, 1 + 1, p - 1, Posters) + One(mb[1].type \in Posters)
  BY <1>6, NumFirst
<1>9. NumOf(mb, 2, p - 1, Posters) \in Nat /\ one \in {0, 1} /\ one = One(mb[1].type \in Posters)
  BY <1>1, <1>6, NumType DEF One, one
<1>10. NumIn(mb, {"STOP"}) + NumOf(Tail(mb), 1, p - 1 - 1, Posters) <= n - one
  BY <1>2, <1>4, <1>6, <1>7, <1>8, <1>9
<1> QED
  BY <1>5, <1>10

\* Appending a message that is no STOP.
LEMMA StopsGrow ==
  ASSUME NEW mb \in Seq(Message), NEW m \in Message, m.type # "STOP",
         NEW n \in Int, StopsWithin(mb, n)
  PROVE  StopsWithin(Append(mb, m), n)
<1> DEFINE new == Append(mb, m)
<1>1. /\ Len(mb) \in Nat /\ Len(new) = Len(mb) + 1
      /\ \A i \in 1..Len(mb) : new[i] = mb[i]
  BY AppendProperties
<1>2. NumIn(new, {"STOP"}) = NumIn(mb, {"STOP"}) /\ NumIn(mb, {"STOP"}) \in Nat
  BY NumInAppend, NumInType DEF One
<1> HIDE DEF new
<1>3. ASSUME NEW p \in 1..Len(mb)
      PROVE  NumOf(new, 1, p - 1, Posters) = NumOf(mb, 1, p - 1, Posters)
  <2>1. \A i \in 1..p - 1 : new[i] = mb[i]
    BY <1>1
  <2> QED
    BY <2>1, NumSame
<1>4. ASSUME NumIn(mb, {"STOP"}) > 0
      PROVE  \E p \in 1..Len(mb) + 1 :
               /\ new[p].type = "STOP"
               /\ NumIn(mb, {"STOP"}) + NumOf(new, 1, p - 1, Posters) <= n
  <2>1. PICK p \in 1..Len(mb) : /\ mb[p].type = "STOP"
                                /\ NumIn(mb, {"STOP"}) + NumOf(mb, 1, p - 1, Posters) <= n
    BY <1>4 DEF StopsWithin
  <2>2. p \in 1..Len(mb) + 1 /\ new[p].type = "STOP"
    BY <1>1, <2>1
  <2> QED
    BY <1>3, <2>1, <2>2
<1> QED
  BY <1>1, <1>2, <1>4 DEF StopsWithin, new

\* Appending a STOP.
LEMMA StopsPosted ==
  ASSUME NEW mb \in Seq(Message), NEW n \in Int, StopsWithin(mb, n), NumIn(mb, Posters) <= n
  PROVE  StopsWithin(Append(mb, Stop), n + 1)
<1> DEFINE new == Append(mb, Stop)
           len == Len(mb)
<1>1. Stop \in Message /\ Stop.type = "STOP"
  BY MessagesTyped DEF Stop, Msg
<1>2. /\ len \in Nat /\ Len(new) = len + 1 /\ new[len + 1] = Stop
      /\ \A i \in 1..len : new[i] = mb[i]
  BY <1>1, AppendProperties
<1>3. /\ NumIn(new, {"STOP"}) = NumIn(mb, {"STOP"}) + 1 /\ NumIn(mb, {"STOP"}) \in Nat
  BY <1>1, NumInAppend, NumInType DEF One
<1> HIDE DEF new
<1>4. ASSUME NEW p \in 1..len + 1
      PROVE  NumOf(new, 1, p - 1, Posters) = NumOf(mb, 1, p - 1, Posters)
  <2>1. \A i \in 1..p - 1 : new[i] = mb[i]
    BY <1>2
  <2> QED
    BY <2>1, NumSame
<1>5. \E p \in 1..len + 1 :
        /\ new[p].type = "STOP"
        /\ NumIn(mb, {"STOP"}) + 1 + NumOf(new, 1, p - 1, Posters) <= n + 1
  <2>1. CASE NumIn(mb, {"STOP"}) > 0
    <3>1. PICK p \in 1..len : /\ mb[p].type = "STOP"
                              /\ NumIn(mb, {"STOP"}) + NumOf(mb, 1, p - 1, Posters) <= n
      BY <2>1 DEF StopsWithin
    <3>2. p \in 1..len + 1 /\ new[p].type = "STOP" /\ p - 1 \in Int
      BY <1>2, <3>1
    <3>3. NumOf(mb, 1, p - 1, Posters) \in Nat
      BY <3>2, NumType
    <3>4. NumIn(mb, {"STOP"}) + 1 + NumOf(mb, 1, p - 1, Posters) <= n + 1
      BY <1>3, <3>1, <3>3
    <3> QED
      BY <1>4, <3>2, <3>4
  <2>2. CASE NumIn(mb, {"STOP"}) = 0
    <3>1. len + 1 \in 1..len + 1 /\ len + 1 - 1 = len
      BY <1>2
    <3>2. NumOf(new, 1, len + 1 - 1, Posters) = NumIn(mb, Posters)
      BY <1>4, <3>1 DEF NumIn
    <3>3. NumIn(mb, Posters) \in Nat
      BY NumInType
    <3>4. NumIn(mb, {"STOP"}) + 1 + NumOf(new, 1, len + 1 - 1, Posters) <= n + 1
      BY <2>2, <3>2, <3>3
    <3> QED
      BY <1>1, <1>2, <3>1, <3>4
  <2> QED
    BY <1>3, <2>1, <2>2
<1>6. NumIn(new, {"STOP"}) > 0 => 
        \E p \in 1..Len(new) : /\ new[p].type = "STOP"
                               /\ NumIn(new, {"STOP"}) + NumOf(new, 1, p - 1, Posters) <= n + 1
  BY <1>2, <1>3, <1>5
<1> QED
  BY <1>6 DEF StopsWithin, new

\* One STOP more may be allowed.
LEMMA StopsLoose ==
  ASSUME NEW mb \in Seq(Message), NEW n \in Int, NEW k \in Int, n <= k, StopsWithin(mb, n)
  PROVE  StopsWithin(mb, k)
<1> SUFFICES ASSUME NumIn(mb, {"STOP"}) > 0
             PROVE  \E p \in 1..Len(mb) :
                      /\ mb[p].type = "STOP"
                      /\ NumIn(mb, {"STOP"}) + NumOf(mb, 1, p - 1, Posters) <= k
  BY DEF StopsWithin
<1>1. PICK p \in 1..Len(mb) : /\ mb[p].type = "STOP"
                              /\ NumIn(mb, {"STOP"}) + NumOf(mb, 1, p - 1, Posters) <= n
  BY DEF StopsWithin
<1>2. NumIn(mb, {"STOP"}) \in Nat /\ NumOf(mb, 1, p - 1, Posters) \in Nat
  <2>1. p - 1 \in Int
    OBVIOUS
  <2> QED
    BY <2>1, NumType, NumInType
<1> QED
  BY <1>1, <1>2

\* A handler takes a message, and posts a STOP only if it took one that may.
LEMMA RoomTaken ==
  ASSUME TypeOK, RoomInv, mailbox # <<>>, Head(mailbox).type # "STOP", UNCHANGED running,
         \/ mailbox' = Tail(mailbox)
         \/ Head(mailbox).type \in Posters /\ mailbox' = Append(Tail(mailbox), Stop)
  PROVE  RoomInv'
<1> DEFINE tail == Tail(mailbox)
           n == PktSlots + MaxPending + One(~running)
           one == One(Head(mailbox).type \in Posters)
<1>1. /\ mailbox \in Seq(Message) /\ tail \in Seq(Message) /\ n \in Int /\ one \in {0, 1}
      /\ One(~running) \in {0, 1} /\ PktSlots \in Nat /\ MaxPending \in Nat
  BY TailType, ReceiverAssumption DEF TypeOK, One
<1>2. Stop \in Message /\ Stop.type = "STOP" /\ "STOP" \notin PacketTypes
  BY MessagesTyped DEF Stop, Msg, PacketTypes
<1>3. ASSUME NEW types, "STOP" \notin types
      PROVE  NumIn(mailbox', types) <= NumIn(mailbox, types)
  <2>1. /\ NumIn(tail, types) = NumIn(mailbox, types) - One(Head(mailbox).type \in types)
        /\ NumIn(mailbox, types) \in Nat
    BY <1>1, NumInTail, NumInType
  <2>2. NumIn(Append(tail, Stop), types) = NumIn(tail, types) + One(Stop.type \in types)
    <3> HIDE DEF tail
    <3> QED
      BY <1>1, <1>2, NumInAppend
  <2>3. One(Stop.type \in types) = 0
    BY <1>2, <1>3 DEF One
  <2>4. One(Head(mailbox).type \in types) \in {0, 1}
    BY DEF One
  <2>5. NumIn(Append(tail, Stop), types) = NumIn(tail, types)
    BY <2>1, <2>2, <2>3, <2>4
  <2>6. NumIn(tail, types) <= NumIn(mailbox, types)
    BY <2>1, <2>4
  <2> QED
    BY <2>5, <2>6
<1>4. /\ NumIn(mailbox', PacketTypes) <= PktSlots
      /\ NumIn(mailbox', {"EXPECTATION"}) <= MaxPending
      /\ NumIn(mailbox', {"INTEREST"}) <= MaxPending
  <2>1. /\ NumIn(mailbox', PacketTypes) <= NumIn(mailbox, PacketTypes)
        /\ NumIn(mailbox', {"EXPECTATION"}) <= NumIn(mailbox, {"EXPECTATION"})
        /\ NumIn(mailbox', {"INTEREST"}) <= NumIn(mailbox, {"INTEREST"})
    BY <1>2, <1>3
  <2>2. mailbox' \in Seq(Message)
    BY <1>1, <1>2, AppendProperties
  <2>3. \A types : NumIn(mailbox, types) \in Nat /\ NumIn(mailbox', types) \in Nat
    BY <1>1, <2>2, NumInType
  <2> QED
    BY <1>1, <2>1, <2>3 DEF RoomInv
<1>5. StopsWithin(tail, n - one)
  BY <1>1, StopsTaken DEF RoomInv
<1>6. NumIn(tail, Posters) <= n - one
  <2>1. NumIn(tail, Posters) = NumIn(mailbox, Posters) - one /\ NumIn(mailbox, Posters) \in Nat
    BY <1>1, NumInTail, NumInType
  <2>2. NumIn(mailbox, Posters) <= n
    <3>1. NumIn(mailbox, Posters) <= NumIn(mailbox, PacketTypes) + NumIn(mailbox, {"EXPECTATION"})
      BY <1>1, PostersFew
    <3>2. NumIn(mailbox, PacketTypes) \in Nat /\ NumIn(mailbox, {"EXPECTATION"}) \in Nat
      BY <1>1, NumInType
    <3> QED
      BY <1>1, <2>1, <3>1, <3>2 DEF RoomInv
  <2> QED
    BY <1>1, <2>1, <2>2
<1>7. StopsWithin(mailbox', n)
  <2>1. CASE mailbox' = tail
    <3>1. n - one \in Int /\ n - one <= n
      BY <1>1
    <3> QED
      BY <1>1, <1>5, <2>1, <3>1, StopsLoose
  <2>2. CASE Head(mailbox).type \in Posters /\ mailbox' = Append(tail, Stop)
    <3>1. one = 1 /\ n - 1 \in Int /\ n - 1 + 1 = n
      BY <1>1, <2>2 DEF One
    <3>2. StopsWithin(Append(tail, Stop), n - 1 + 1)
      BY <1>1, <1>5, <1>6, <3>1, StopsPosted
    <3> QED
      BY <2>2, <3>1, <3>2
  <2> QED
    BY <2>1, <2>2
<1> QED
  BY <1>4, <1>7 DEF RoomInv

\* A message that is no STOP is posted where there is room for its type.
LEMMA RoomPosted ==
  ASSUME TypeOK, RoomInv, NEW m \in Message, m.type # "STOP", UNCHANGED running,
         mailbox' = Append(mailbox, m),
         m.type \in PacketTypes => NumIn(mailbox, PacketTypes) < PktSlots,
         m.type \in {"EXPECTATION", "INTEREST"} => NumIn(mailbox, {m.type}) < MaxPending
  PROVE  RoomInv'
<1>1. /\ mailbox \in Seq(Message) /\ One(~running) \in {0, 1}
      /\ PktSlots \in Nat /\ MaxPending \in Nat
  BY ReceiverAssumption DEF TypeOK, One
<1>2. \A types : /\ NumIn(mailbox', types) = NumIn(mailbox, types) + One(m.type \in types)
                 /\ NumIn(mailbox, types) \in Nat
  BY <1>1, NumInAppend, NumInType
<1>3. NumIn(mailbox', PacketTypes) <= PktSlots
  BY <1>1, <1>2 DEF RoomInv, One
<1>4. NumIn(mailbox', {"EXPECTATION"}) <= MaxPending
  <2>1. CASE m.type = "EXPECTATION"
    BY <1>1, <1>2, <2>1 DEF One
  <2>2. CASE m.type # "EXPECTATION"
    BY <1>1, <1>2, <2>2 DEF RoomInv, One
  <2> QED
    BY <2>1, <2>2
<1>5. NumIn(mailbox', {"INTEREST"}) <= MaxPending
  <2>1. CASE m.type = "INTEREST"
    BY <1>1, <1>2, <2>1 DEF One
  <2>2. CASE m.type # "INTEREST"
    BY <1>1, <1>2, <2>2 DEF RoomInv, One
  <2> QED
    BY <2>1, <2>2
<1>6. StopsWithin(mailbox', PktSlots + MaxPending + One(~running))
  BY <1>1, StopsGrow DEF RoomInv
<1> QED
  BY <1>3, <1>4, <1>5, <1>6 DEF RoomInv

\* A handler does nothing else to the mailbox.
LEMMA ThreadMail ==
  ASSUME Thread, ~HandleStop
  PROVE  /\ mailbox # <<>> /\ Head(mailbox).type # "STOP" /\ UNCHANGED running
         /\ \/ mailbox' = Tail(mailbox)
            \/ Head(mailbox).type \in Posters /\ mailbox' = Append(Tail(mailbox), Stop)
<1>1. CASE HandlePayload
  BY <1>1, FinishTakes DEF HandlePayload, Took, Posters
<1>2. CASE HandleResp
  BY <1>2, FinishTakes DEF HandleResp, Took, Posters
<1>3. CASE HandleConfigSync \/ HandleOther \/ HandleInterestTimeout
  BY <1>3 DEF HandleConfigSync, HandleOther, HandleInterestTimeout, Took
<1>4. CASE HandleExpectationTimeout
  BY <1>4, FinishTakes DEF HandleExpectationTimeout, Took, Posters
<1> QED
  BY <1>1, <1>2, <1>3, <1>4 DEF Thread

\* A timer that fires posts its message, where its guard leaves room for one.
LEMMA TimerRoom ==
  ASSUME TypeOK, RoomInv, NEW t \in {"EXPECTATION", "INTEREST"},
         Fired(t), Cardinality(Pending(t)) < MaxPending
  PROVE  RoomInv'
<1>1. UNCHANGED running /\ mailbox' \in {mailbox, Append(mailbox, Msg(t, 0))}
  BY DEF Fired, Post
<1>2. CASE mailbox' = mailbox
  BY <1>1, <1>2 DEF RoomInv
<1>3. CASE mailbox' = Append(mailbox, Msg(t, 0))
  <2>1. Msg(t, 0) \in Message /\ Msg(t, 0).type = t /\ t \notin PacketTypes /\ t # "STOP"
    BY MessagesTyped DEF Msg, PacketTypes
  <2>2. NumIn(mailbox, {t}) < MaxPending
    BY CountsAgree
  <2> QED
    BY <1>1, <1>3, <2>1, <2>2, RoomPosted
<1> QED
  BY <1>1, <1>2, <1>3

\* The network and the shell find room for what they post.
LEMMA EnvironmentRoom ==
  ASSUME TypeOK, RoomInv, Environment PROVE RoomInv'
<1> DEFINE n == PktSlots + MaxPending + One(~running)
<1>1. /\ mailbox \in Seq(Message) /\ PktSlots \in Nat /\ MaxPending \in Nat
      /\ One(~running) \in {0, 1} /\ n \in Int
  BY ReceiverAssumption DEF TypeOK, One
<1>2. CASE \/ \E k \in Chunk : PayloadArrives(k) \/ RespArrives(k)
           \/ ConfigSyncArrives \/ OtherArrives
  <2>0. PICK t \in PacketTypes : \E v : Msg(t, v) \in Message /\ Deliver(t, v)
    BY <1>2, MessagesTyped DEF PayloadArrives, RespArrives, ConfigSyncArrives, OtherArrives,
                               PacketTypes
  <2>1. PICK v : Msg(t, v) \in Message /\ Deliver(t, v)
    BY <2>0
  <2>2. /\ mailbox' = Append(mailbox, Msg(t, v)) /\ UNCHANGED running
        /\ NumIn(mailbox, PacketTypes) < PktSlots
    BY <2>1, CountsAgree DEF Deliver
  <2>3. Msg(t, v).type = t /\ t # "STOP" /\ t \notin {"EXPECTATION", "INTEREST"}
    BY DEF Msg, PacketTypes
  <2> QED
    BY <2>1, <2>2, <2>3, RoomPosted
<1>3. CASE ShellStop
  <2>1. /\ running /\ ~running' /\ One(~running) = 0 /\ One(~running') = 1
        /\ mailbox' \in {mailbox, Append(mailbox, Stop)}
    BY <1>3 DEF ShellStop, One
  <2>2. StopsWithin(mailbox, n) /\ n = PktSlots + MaxPending
    BY <1>1, <2>1 DEF RoomInv
  <2>3. CASE mailbox' = mailbox
    <3>1. StopsWithin(mailbox', PktSlots + MaxPending + 1)
      BY <1>1, <2>2, <2>3, StopsLoose
    <3> QED
      BY <2>1, <2>3, <3>1 DEF RoomInv
  <2>4. CASE mailbox' = Append(mailbox, Stop)
    <3>1. Stop \in Message /\ Stop.type = "STOP" /\ "STOP" \notin PacketTypes
      BY MessagesTyped DEF Stop, Msg, PacketTypes
    <3>2. ASSUME NEW types, "STOP" \notin types PROVE NumIn(mailbox', types) = NumIn(mailbox, types)
      BY <1>1, <2>4, <3>1, <3>2, NumInAppend, NumInType DEF One
    <3>3. /\ NumIn(mailbox', PacketTypes) <= PktSlots
          /\ NumIn(mailbox', {"EXPECTATION"}) <= MaxPending
          /\ NumIn(mailbox', {"INTEREST"}) <= MaxPending
      BY <3>1, <3>2 DEF RoomInv
    <3>4. NumIn(mailbox, Posters) <= n
      <4>1. /\ NumIn(mailbox, Posters) \in Nat
            /\ NumIn(mailbox, Posters) <= NumIn(mailbox, PacketTypes) + NumIn(mailbox, {"EXPECTATION"})
        BY <1>1, PostersFew
      <4>2. NumIn(mailbox, PacketTypes) \in Nat /\ NumIn(mailbox, {"EXPECTATION"}) \in Nat
        BY <1>1, NumInType
      <4> QED
        BY <1>1, <2>2, <4>1, <4>2 DEF RoomInv
    <3>5. StopsWithin(mailbox', n + 1)
      BY <1>1, <2>2, <2>4, <3>4, StopsPosted
    <3> QED
      BY <2>1, <2>2, <3>3, <3>5 DEF RoomInv
  <2> QED
    BY <2>1, <2>3, <2>4
<1>4. CASE ShellReceiver
  <2>1. mailbox' = <<>> /\ \A types : NumIn(mailbox', types) = 0
    BY <1>4, NumInEmpty DEF ShellReceiver
  <2> QED
    BY <1>1, <2>1 DEF RoomInv, StopsWithin
<1> QED
  BY <1>2, <1>3, <1>4 DEF Environment

LEMMA InitRoom == Init => RoomInv
<1> SUFFICES ASSUME Init PROVE RoomInv
  OBVIOUS
<1>1. mailbox = <<>> /\ \A types : NumIn(mailbox, types) = 0
  BY NumInEmpty DEF Init
<1> QED
  BY <1>1, ReceiverAssumption DEF RoomInv, StopsWithin

LEMMA NextRoom == TypeOK /\ RoomInv /\ [Next]_vars => RoomInv'
<1> SUFFICES ASSUME TypeOK, RoomInv, [Next]_vars PROVE RoomInv'
  OBVIOUS
<1>1. CASE Thread /\ ~HandleStop
  BY <1>1, ThreadMail, RoomTaken
<1>2. CASE HandleStop
  <2>1. mailbox' = <<>> /\ \A types : NumIn(mailbox', types) = 0
    BY <1>2, NumInEmpty DEF HandleStop
  <2> QED
    BY <2>1, ReceiverAssumption DEF RoomInv, StopsWithin
<1>3. CASE ExpectationTimerFires
  BY <1>3, TimerRoom DEF ExpectationTimerFires
<1>4. CASE InterestTimerFires
  BY <1>4, TimerRoom DEF InterestTimerFires
<1>5. CASE UNCHANGED vars
  BY <1>5 DEF vars, threadVars, RoomInv
<1> QED
  BY <1>1, <1>2, <1>3, <1>4, <1>5, EnvironmentRoom DEF Next

\* No kind of message ever has more of its kind waiting than there is room for.
LEMMA RoomKept == Spec => []RoomInv
BY InitRoom, NextRoom, TypeCorrect, PTL DEF Spec

\* How long the mailbox can be, whatever waits in it, when a timer or a handler
\* is about to post.
LEMMA RoomLeft ==
  ASSUME TypeOK, RoomInv
  PROVE  /\ Len(mailbox) <= 2 * PktSlots + 3 * MaxPending + 1
         /\ \A t \in {"EXPECTATION", "INTEREST"} :
              Cardinality(Pending(t)) < MaxPending => Len(mailbox) <= 2 * PktSlots + 3 * MaxPending
         /\ mailbox # <<>> /\ Head(mailbox).type \in Posters =>
              Len(mailbox) <= 2 * PktSlots + 3 * MaxPending
<1> DEFINE stops == NumIn(mailbox, {"STOP"})
           n == PktSlots + MaxPending + One(~running)
<1>1. /\ mailbox \in Seq(Message) /\ PktSlots \in Nat /\ MaxPending \in Nat /\ MaxPending >= 1
      /\ One(~running) \in {0, 1} /\ n \in Int
  BY ReceiverAssumption DEF TypeOK, One
<1>2. /\ stops \in Nat /\ NumIn(mailbox, PacketTypes) \in Nat
      /\ NumIn(mailbox, {"EXPECTATION"}) \in Nat /\ NumIn(mailbox, {"INTEREST"}) \in Nat
  BY <1>1, NumInType
<1>3. Len(mailbox) = NumIn(mailbox, PacketTypes) + NumIn(mailbox, {"EXPECTATION"})
                       + NumIn(mailbox, {"INTEREST"}) + stops
  BY <1>1, LengthIsCounts
<1>4. /\ stops <= PktSlots + MaxPending + 1
      /\ mailbox # <<>> /\ Head(mailbox).type \in Posters => stops <= PktSlots + MaxPending
  <2>1. CASE stops = 0
    BY <1>1, <2>1
  <2>2. CASE stops > 0
    <3>1. PICK p \in 1..Len(mailbox) : /\ mailbox[p].type = "STOP"
                                       /\ stops + NumOf(mailbox, 1, p - 1, Posters) <= n
      BY <2>2 DEF RoomInv, StopsWithin
    <3>2. p - 1 \in Int /\ NumOf(mailbox, 1, p - 1, Posters) \in Nat
      BY NumType
    <3>3. ASSUME mailbox # <<>>, Head(mailbox).type \in Posters
          PROVE  NumOf(mailbox, 1, p - 1, Posters) >= 1
      <4>1. Head(mailbox) = mailbox[1] /\ "STOP" \notin Posters
        BY <1>1, <3>3, HeadTailProperties DEF Posters
      <4>2. p # 1 /\ 1 <= p - 1 /\ 1 \in Int
        BY <1>1, <3>1, <3>3, <4>1
      <4>3. NumOf(mailbox, 1, p - 1, Posters)
              = NumOf(mailbox, 1 + 1, p - 1, Posters) + One(mailbox[1].type \in Posters)
        BY <3>2, <4>2, NumFirst
      <4>4. NumOf(mailbox, 1 + 1, p - 1, Posters) \in Nat /\ One(mailbox[1].type \in Posters) = 1
        BY <3>2, <3>3, <4>1, NumType DEF One
      <4> QED
        BY <3>2, <4>3, <4>4
    <3> QED
      BY <1>1, <1>2, <3>1, <3>2, <3>3
  <2> QED
    BY <1>2, <2>1, <2>2
<1> HIDE DEF stops, n
<1>5. ASSUME NEW t \in {"EXPECTATION", "INTEREST"}, Cardinality(Pending(t)) < MaxPending
      PROVE  Len(mailbox) <= 2 * PktSlots + 3 * MaxPending
  <2>1. NumIn(mailbox, {t}) < MaxPending
    BY <1>5, CountsAgree
  <2>2. CASE t = "EXPECTATION"
    BY <1>1, <1>2, <1>3, <1>4, <2>1, <2>2 DEF RoomInv
  <2>3. CASE t = "INTEREST"
    BY <1>1, <1>2, <1>3, <1>4, <2>1, <2>3 DEF RoomInv
  <2> QED
    BY <2>2, <2>3
<1> QED
  BY <1>1, <1>2, <1>3, <1>4, <1>5 DEF RoomInv

\* With two places for each packet that the packet buffer holds (the packet, or
\* the STOP that its handler posts), three for each message that a timer may
\* have waiting, and one for the shell's STOP, neither a timer nor a handler
\* ever finds the mailbox full, however the messages come (iperf.h:9,
\* receiver.c:44-62, 140-147).
THEOREM MailboxIsEnough ==
  ASSUME MailboxLen >= 2 * PktSlots + 3 * MaxPending + 1
  PROVE  Spec => []MailboxSuffices
<1>1. Init => MailboxSuffices
  BY DEF Init, MailboxSuffices
<1>2. TypeOK /\ RoomInv /\ MailboxSuffices /\ [Next]_vars => MailboxSuffices'
  <2> SUFFICES ASSUME TypeOK, RoomInv, ~ipcLost, [Next]_vars PROVE ~ipcLost'
    BY DEF MailboxSuffices
  <2>0. ASSUME Len(mailbox) <= 2 * PktSlots + 3 * MaxPending PROVE ~Overflow
    BY <2>0, ReceiverAssumption DEF Overflow, TypeOK
  <2>1. CASE HandlePayload \/ HandleResp \/ HandleExpectationTimeout
    <3>1. mailbox # <<>> /\ Head(mailbox).type \in Posters
      BY <2>1 DEF HandlePayload, HandleResp, HandleExpectationTimeout, Took, Posters
    <3>2. ~Overflow
      BY <2>0, <3>1, RoomLeft
    <3>3. UNCHANGED ipcLost \/ \E r : FinishWith(r)
      BY <2>1 DEF HandlePayload, HandleResp, HandleExpectationTimeout
    <3> QED
      BY <3>2, <3>3 DEF FinishWith
  <2>2. CASE HandleConfigSync \/ HandleOther \/ HandleInterestTimeout \/ HandleStop
    BY <2>2 DEF HandleConfigSync, HandleOther, HandleInterestTimeout, HandleStop
  <2>3. CASE ExpectationTimerFires \/ InterestTimerFires
    <3>1. ~Overflow
      BY <2>0, <2>3, RoomLeft DEF ExpectationTimerFires, InterestTimerFires
    <3> QED
      BY <2>3, <3>1 DEF ExpectationTimerFires, InterestTimerFires, Fired
  <2>4. CASE Environment
    BY <2>4 DEF Environment, PayloadArrives, RespArrives, ConfigSyncArrives, OtherArrives,
                Deliver, ShellStop, ShellReceiver
  <2>5. CASE UNCHANGED vars
    BY <2>5 DEF vars
  <2> QED
    BY <2>1, <2>2, <2>3, <2>4, <2>5 DEF Next, Thread
<1> QED
  BY <1>1, <1>2, TypeCorrect, RoomKept, PTL DEF Spec
=============================================================================
