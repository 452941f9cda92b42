------------------------------ MODULE Receiver ------------------------------
(***************************************************************************)
(* submodules/caching_iperf/receiver.c: the receiver thread, its mailbox,  *)
(* its two timers, and as much of the network and of the shell as feeds    *)
(* them.  One action per message the thread handles, one per timer, one    *)
(* per packet or shell command that arrives.                               *)
(*                                                                         *)
(* A handler is one step: packets and timers interrupt it, but they only   *)
(* append to the mailbox.  Contents, time stamps and counters that are     *)
(* only reported are left out; a chunk is its number.                      *)
(***************************************************************************)
EXTENDS PktReqQueue

CONSTANTS
  MaxChunk,        \* the highest chunk number a sender uses
  Configs,         \* the configurations at start: [bidir, numPkts]
  SyncConfigs,     \* the configurations a CONFIG_SYNC packet may bring
  BulkMax,         \* IPERF_MAX_PKTS_IN_ONE_BULK_REQ
  MailboxLen,      \* IPERF_MSG_QUEUE_SIZE
  PktSlots,        \* packets CONFIG_GNRC_PKTBUF_SIZE leaves room for
  MaxPending,      \* messages of one timer that may wait in the mailbox
  Disciplined      \* the network does not reorder payloads, answers nothing
                   \* before it was asked for something, and syncs the
                   \* configuration in force

Chunk == 0..MaxChunk
ConfigType == [bidir : BOOLEAN, numPkts : 1..MaxChunk + 1]

ASSUME ReceiverAssumption ==
  /\ MaxChunk \in Nat
  /\ Configs \subseteq ConfigType
  /\ SyncConfigs \subseteq ConfigType
  /\ BulkMax \in Nat \ {0}
  /\ MailboxLen \in Nat \ {0}
  /\ PktSlots \in Nat \ {0}
  /\ MaxPending \in Nat \ {0}
  /\ Disciplined \in BOOLEAN

VARIABLES
  running,           \* iperf.c: a role was selected and not stopped by hand
  iperfState,
  config,
  results,           \* what Iperf_ResetResults clears
  reqQueue,          \* pktReqQueue
  expectationTimer, interestTimer,   \* ztimer_is_set
  expectationSeqNo,
  mailbox,
  ipcLost,           \* a timer, or the thread itself, found the mailbox full
  sent,              \* the bulk interest the last step sent, or <<>>
  nextPayload,       \* network: PAYLOADs below it have been sent
  asked              \* network: chunks asked for since the role was selected

threadVars == <<running, iperfState, config, results, reqQueue,
                expectationTimer, interestTimer, expectationSeqNo, sent>>
netVars == <<nextPayload, asked>>
vars == <<threadVars, mailbox, ipcLost, netVars>>

-----------------------------------------------------------------------------
Message ==
  [type : {"PAYLOAD", "RESP"}, val : Chunk]
    \union [type : {"CONFIG_SYNC"}, val : SyncConfigs]
    \union [type : {"OTHER", "EXPECTATION", "INTEREST", "STOP"}, val : {0}]

Msg(type, val) == [type |-> type, val |-> val]
Stop == Msg("STOP", 0)

PacketTypes == {"PAYLOAD", "RESP", "CONFIG_SYNC", "OTHER"}

Pending(type) == {i \in DOMAIN mailbox : mailbox[i].type = type}

\* Mutant: a packet that waits takes no room in the packet buffer.
PacketsNotHeld == {}

Packets == {i \in DOMAIN mailbox : mailbox[i].type \in PacketTypes}

Alive == iperfState # "STOPPED"

\* mb with m at its end.  The slot the thread freed when it took the current
\* message may have been filled since, so a handler counts it as taken.
Post(mb, m) == IF Len(mailbox) < MailboxLen THEN Append(mb, m) ELSE mb
Overflow == Len(mailbox) >= MailboxLen

Results ==
  [last : -1..MaxChunk, unique : Nat,
   status : [Chunk -> {"NOT_RECEIVED", "REQUESTED", "RECEIVED"}],
   file : SUBSET Chunk]

CleanResults ==
  [last   |-> -1,                                   \* lastPktSeqNo
   unique |-> 0,                                    \* receivedUniqueChunks
   status |-> [i \in Chunk |-> "NOT_RECEIVED"],     \* receivedPktIds
   file   |-> {}]                                   \* receiveFileBuffer

Min2(a, b) == IF a <= b THEN a ELSE b

Init ==
  /\ running = TRUE /\ iperfState = "IDLE"
  /\ config \in Configs
  /\ results = CleanResults
  /\ reqQueue = <<>>
  /\ expectationTimer = FALSE /\ interestTimer = FALSE
  /\ expectationSeqNo = 0
  /\ mailbox = <<>> /\ ipcLost = FALSE /\ sent = <<>>
  /\ nextPayload = 0 /\ asked = {}

-----------------------------------------------------------------------------
(* The thread: Iperf_ReceiverThread and receiverHandleIperfPacket.           *)

Took(type) == Alive /\ mailbox # <<>> /\ Head(mailbox).type = type

\* Mutant: done too late.
DoneLate(r) == r.unique > config.numPkts

\* checkForCompletionAndTransition, with the results r: done when the counter
\* of unique chunks stands at the number of chunks, and then a STOP to itself.
Done(r) == r.unique = config.numPkts

FinishWith(r) ==
  /\ results' = r
  /\ mailbox' = IF Done(r) THEN Post(Tail(mailbox), Stop) ELSE Tail(mailbox)
  /\ ipcLost' = (ipcLost \/ (Done(r) /\ Overflow))

Tally(r, k) == [r EXCEPT !.status[k] = "RECEIVED"]

\* A chunk counted as new and copied to its place; status is what the other
\* chunks are marked with.
Counted(r, k, last, status) ==
  [last |-> last, unique |-> r.unique + 1,
   status |-> [status EXCEPT ![k] = "RECEIVED"], file |-> r.file \union {k}]

\* The chunk after the last one.
InOrder(r, k) == Counted(r, k, k, r.status)

\* The chunks that k leaves out are marked, if the receiver may ask for them.
GapMarked(r, k) ==
  [i \in Chunk |-> IF config.bidir /\ r.last < i /\ i < k THEN "REQUESTED"
                                                        ELSE r.status[i]]

\* Mutant: the chunk is not copied.
AfterGapNotCopied(r, k) ==
  [Counted(r, k, k, GapMarked(r, k)) EXCEPT !.file = r.file]

\* Mutant: the counter follows the chunk number.
AfterGapSkipsCounted(r, k) ==
  [Counted(r, k, k, GapMarked(r, k)) EXCEPT !.unique = k + 1]

\* A later chunk.
AfterGap(r, k) == Counted(r, k, k, GapMarked(r, k))

\* Mutant: the timer is not set again.
RestartNot == expectationTimer

\* startExpectationTimer and restartExpectationTimer: in mode BIDIR only.
Restarted == expectationTimer \/ config.bidir

HandlePayload ==
  /\ Took("PAYLOAD")
  /\ LET k == Head(mailbox).val
         r == IF iperfState = "IDLE" THEN CleanResults ELSE results
         gap == [i \in 1..k - r.last - 1 |-> r.last + i]
     IN /\ iperfState' = "RECEIVING"
        /\ \/ /\ r.last = k - 1
              /\ FinishWith(InOrder(r, k))
              /\ expectationTimer' = Restarted
              /\ UNCHANGED <<reqQueue, interestTimer>>
           \/ /\ r.last # k - 1
              /\ r.status[k] = "RECEIVED" \/ r.last >= k
              /\ FinishWith(Tally(r, k))
              /\ UNCHANGED <<reqQueue, expectationTimer, interestTimer>>
           \/ /\ r.last < k - 1
              /\ r.status[k] # "RECEIVED"
              /\ FinishWith(AfterGap(r, k))
              /\ expectationTimer' = Restarted
              /\ interestTimer' = (interestTimer \/ config.bidir)
              /\ reqQueue' = IF config.bidir THEN EnqueueAll(reqQueue, gap)
                                             ELSE reqQueue
  /\ sent' = <<>>
  /\ UNCHANGED <<running, config, expectationSeqNo, netVars>>

HandleResp ==
  /\ Took("RESP")
  /\ LET k == Head(mailbox).val
     IN \/ /\ iperfState # "RECEIVING"
           /\ mailbox' = Tail(mailbox)
           /\ UNCHANGED <<results, ipcLost, expectationTimer>>
        \/ /\ iperfState = "RECEIVING"
           /\ FinishWith(IF results.status[k] = "RECEIVED" THEN results
                         ELSE Counted(results, k, results.last, results.status))
           /\ expectationTimer' = Restarted
  /\ sent' = <<>>
  /\ UNCHANGED <<running, iperfState, config, reqQueue, interestTimer,
                 expectationSeqNo, netVars>>

\* Iperf_HandleConfigSync.
HandleConfigSync ==
  /\ Took("CONFIG_SYNC")
  /\ config' = Head(mailbox).val
  /\ mailbox' = Tail(mailbox)
  /\ sent' = <<>>
  /\ UNCHANGED <<running, iperfState, results, reqQueue, expectationTimer,
                 interestTimer, expectationSeqNo, ipcLost, netVars>>

\* Echoes, requests that reached the wrong role, unknown types.
HandleOther ==
  /\ Took("OTHER")
  /\ mailbox' = Tail(mailbox)
  /\ sent' = <<>>
  /\ UNCHANGED <<running, iperfState, config, results, reqQueue,
                 expectationTimer, interestTimer, expectationSeqNo, ipcLost, netVars>>

\* Mutant: a single request that is left is forgotten.
SomeLeftButOne(n) == Len(reqQueue) > n + 1

SomeLeft(n) == Len(reqQueue) > n

\* Up to BulkMax requests leave in one packet; the rest waits for the timer.
HandleInterestTimeout ==
  /\ Took("INTEREST")
  /\ LET n == Min2(BulkMax, Len(reqQueue))
     IN /\ sent' = SubSeq(reqQueue, 1, n)
        /\ reqQueue' = SubSeq(reqQueue, n + 1, Len(reqQueue))
        /\ interestTimer' = (interestTimer \/ SomeLeft(n))
        /\ asked' = asked \union {reqQueue[i] : i \in 1..n}
  /\ mailbox' = Tail(mailbox)
  /\ UNCHANGED <<running, iperfState, config, results, expectationTimer,
                 expectationSeqNo, ipcLost, nextPayload>>

\* Mutants: no bound; no step past the last chunk that came.
NextExpectationUnbounded ==
  IF expectationSeqNo < results.last THEN results.last + 1 ELSE expectationSeqNo + 1

NextExpectationStuck ==
  IF expectationSeqNo < results.last THEN results.last + 1 ELSE expectationSeqNo

\* How far the receiver thinks the sender has come: one past the last chunk,
\* and one further each time nothing arrives.
NextExpectation ==
  IF expectationSeqNo < results.last THEN results.last + 1
  ELSE IF expectationSeqNo < config.numPkts THEN expectationSeqNo + 1
  ELSE expectationSeqNo

HandleExpectationTimeout ==
  /\ Took("EXPECTATION")
  /\ expectationSeqNo' = NextExpectation
  /\ \E missing \in Listing({i \in Chunk : /\ i < NextExpectation
                                           /\ results.status[i] # "RECEIVED"
                                           /\ ~IsEnqueued(reqQueue, i)}) :
       reqQueue' = EnqueueAll(reqQueue, missing)
  /\ interestTimer' = (interestTimer \/ reqQueue' # <<>>)
  /\ FinishWith(results)
  /\ expectationTimer' = (expectationTimer \/ (~Done(results) /\ config.bidir))
  /\ sent' = <<>>
  /\ UNCHANGED <<running, iperfState, config, netVars>>

\* Mutant: the interest timer is left running.
TimersStoppedHalf == expectationTimer' = FALSE /\ UNCHANGED interestTimer

TimersStopped == expectationTimer' = FALSE /\ interestTimer' = FALSE

\* The loop ends: both timers are stopped, what is left in the mailbox dies
\* with the thread, and expectationSeqNo is put back.
HandleStop ==
  /\ Took("STOP")
  /\ iperfState' = "STOPPED"
  /\ TimersStopped
  /\ expectationSeqNo' = 0
  /\ mailbox' = <<>>
  /\ sent' = <<>>
  /\ UNCHANGED <<running, config, results, reqQueue, ipcLost, netVars>>

Thread ==
  \/ HandlePayload \/ HandleResp \/ HandleConfigSync \/ HandleOther
  \/ HandleInterestTimeout \/ HandleExpectationTimeout \/ HandleStop

-----------------------------------------------------------------------------
(* The timers: the interrupt posts to the mailbox, or finds it full.         *)

Fired(type) ==
  /\ mailbox' = IF Alive THEN Post(mailbox, Msg(type, 0)) ELSE mailbox
  /\ ipcLost' = (ipcLost \/ (Alive /\ Overflow))
  /\ sent' = <<>>
  /\ UNCHANGED <<running, iperfState, config, results, reqQueue, expectationSeqNo, netVars>>

ExpectationTimerFires ==
  /\ expectationTimer
  /\ Cardinality(Pending("EXPECTATION")) < MaxPending
  /\ expectationTimer' = FALSE
  /\ Fired("EXPECTATION")
  /\ UNCHANGED interestTimer

InterestTimerFires ==
  /\ interestTimer
  /\ Cardinality(Pending("INTEREST")) < MaxPending
  /\ interestTimer' = FALSE
  /\ Fired("INTEREST")
  /\ UNCHANGED expectationTimer

-----------------------------------------------------------------------------
(* The network and the shell.                                                *)

\* A packet reaches the mailbox: the pktbuf has room for it, and so has the
\* mailbox (a packet that finds no room is as good as lost on the way).
Deliver(type, val) ==
  /\ Alive
  /\ Cardinality(Packets) < PktSlots
  /\ Len(mailbox) < MailboxLen
  /\ mailbox' = Append(mailbox, Msg(type, val))
  /\ sent' = <<>>
  /\ UNCHANGED <<running, iperfState, config, results, reqQueue,
                 expectationTimer, interestTimer, expectationSeqNo, ipcLost>>

PayloadArrives(k) ==
  /\ Disciplined => k >= nextPayload
  /\ nextPayload' = IF Disciplined THEN k + 1 ELSE nextPayload
  /\ Deliver("PAYLOAD", k)
  /\ UNCHANGED asked

\* A chunk asked for twice may be answered twice, and a relay may answer with
\* another chunk than the one it was asked for.
RespArrives(k) ==
  /\ Disciplined => asked # {}
  /\ Deliver("RESP", k)
  /\ UNCHANGED netVars

ConfigSyncArrives ==
  /\ \E c \in SyncConfigs : /\ Disciplined => c = config
                            /\ Deliver("CONFIG_SYNC", c)
  /\ UNCHANGED netVars

OtherArrives ==
  /\ Deliver("OTHER", 0)
  /\ UNCHANGED netVars

\* "iperf stop": Iperf_Deinit.  The shell waits for room in the mailbox; a
\* thread that is gone gets nothing.
ShellStop ==
  /\ running
  /\ running' = FALSE
  /\ Alive => ~Overflow
  /\ mailbox' = IF Alive THEN Append(mailbox, Stop) ELSE mailbox
  /\ sent' = <<>>
  /\ UNCHANGED <<iperfState, config, results, reqQueue, expectationTimer,
                 interestTimer, expectationSeqNo, ipcLost, netVars>>

\* "iperf receiver": Iperf_Init.  The shell's priority is below the thread's,
\* so the old thread has left its loop before the shell runs again; timers are
\* in whatever state the old thread left them.
ShellReceiver ==
  /\ ~running /\ ~Alive
  /\ running' = TRUE /\ iperfState' = "IDLE"
  /\ results' = CleanResults
  /\ reqQueue' = <<>>
  /\ mailbox' = <<>>
  /\ sent' = <<>>
  /\ nextPayload' = 0 /\ asked' = {}
  /\ UNCHANGED <<config, expectationTimer, interestTimer, expectationSeqNo, ipcLost>>

Environment ==
  \/ \E k \in Chunk : PayloadArrives(k) \/ RespArrives(k)
  \/ ConfigSyncArrives \/ OtherArrives
  \/ ShellStop \/ ShellReceiver

Next == Thread \/ ExpectationTimerFires \/ InterestTimerFires \/ Environment

Spec == Init /\ [][Next]_vars

\* The scheduler runs a thread that has mail, and a timer that is set fires.
Fairness ==
  /\ WF_vars(Thread)
  /\ WF_vars(ExpectationTimerFires)
  /\ WF_vars(InterestTimerFires)

FairSpec == Spec /\ Fairness

-----------------------------------------------------------------------------
TypeOK ==
  /\ running \in BOOLEAN
  /\ iperfState \in {"STOPPED", "IDLE", "RECEIVING"}
  /\ config \in ConfigType
  /\ results \in Results
  /\ reqQueue \in Seq(Chunk) /\ Len(reqQueue) <= QueueLen
  /\ expectationTimer \in BOOLEAN /\ interestTimer \in BOOLEAN
  /\ expectationSeqNo \in 0..MaxChunk + 1
  /\ mailbox \in Seq(Message) /\ Len(mailbox) <= MailboxLen
  /\ ipcLost \in BOOLEAN
  /\ sent \in Seq(Chunk)
  /\ nextPayload \in 0..MaxChunk + 1 /\ asked \subseteq Chunk

\* The mailbox is large enough: no timer and no STOP ever finds it full, with
\* as many packets in it as the packet buffer holds (iperf.h:9).
MailboxSuffices == ~ipcLost

\* The expectation timer is set, or its message waits, or the thread is about to
\* stop, while a transfer that may ask for chunks is open.
RetryAhead ==
  iperfState = "RECEIVING" /\ config.bidir /\ ~ipcLost =>
    expectationTimer \/ Pending("EXPECTATION") # {} \/ Pending("STOP") # {}

\* The retry never dies, on whatever network: no step ends it, but for a
\* CONFIG_SYNC that switches a transfer that is on to mode BIDIR and sets no
\* timer for it (receiver.c:64-95, 396-441, iperf.c:410-425).
RetryArmed ==
  [][RetryAhead => RetryAhead' \/ (iperfState = "RECEIVING" /\ ~config.bidir /\ config'.bidir)]_vars

\* A chunk in the request queue will be asked for: the interest timer is set
\* or its message waits (receiver.c:222, 390-393, 431-434).
RequestsScheduled ==
  Alive /\ reqQueue # <<>> /\ ~ipcLost => interestTimer \/ Pending("INTEREST") # {}

\* A thread that has left its loop leaves no timer behind that would post to
\* its successor, and no expectation (receiver.c:442-449, 456).
StoppedIsQuiet ==
  ~Alive => ~expectationTimer /\ ~interestTimer /\ expectationSeqNo = 0

Received == {k \in Chunk : results.status[k] = "RECEIVED"}
File == 0..config.numPkts - 1

\* When every chunk is marked received, the thread has told itself to stop: the
\* counter cannot have slipped past the number of chunks unnoticed
\* (receiver.c:132-149, 253, 291).
AllReceivedStops ==
  iperfState = "RECEIVING" /\ File \subseteq Received /\ ~ipcLost => Pending("STOP") # {}

\* A chunk marked received is in the file (receiver.c:196, 228, 239, 272-276).
ReceivedIsCopied == iperfState = "RECEIVING" => Received \subseteq results.file

\* Without requests the counter of unique chunks is the number of chunks marked
\* received: gaps and duplicates leave the two in step (receiver.c:190-243).
CountExact == ~config.bidir => results.unique = Cardinality(Received)

\* A missing chunk is asked for again and again, until it comes or the thread
\* stops (receiver.c:396-441 feeding 363-395).
MissingIsRequested ==
  \A k \in Chunk :
    (iperfState = "RECEIVING" /\ config.bidir /\ k < config.numPkts /\ k \notin Received)
      ~> (k \in Range(sent) \/ k \in Received \/ ~Alive)

\* The thread that stopped by itself has the whole file: "We're done"
\* (receiver.c:138), "Transfer complete" (receiver.c:459).
CompleteMeansAll == ~Alive /\ running => File \subseteq results.file
=============================================================================
