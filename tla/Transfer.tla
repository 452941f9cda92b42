------------------------------ MODULE Transfer ------------------------------
(***************************************************************************)
(* One transfer of mode BIDIR, end to end: the sender of Sender.tla and    *)
(* the receiver of Receiver.tla, every handler and timer as it is there,   *)
(* with the air and the relays between them.  Packets may be lost on the   *)
(* way, in either direction; those that are not arrive in the order they   *)
(* were sent.                                                              *)
(*                                                                         *)
(* The relays appear as what Relayer.tla leaves of one: of a request that  *)
(* passes they may queue any chunk that has been sent, at their own pace,  *)
(* and pass on the rest.  What they queue is the number of a block.  A     *)
(* request that finds its block named by no other keeps it locked until    *)
(* its own answer, and is answered with its chunk; one that shares its     *)
(* block may be answered with any other chunk.                             *)
(*                                                                         *)
(* Time: a timer that would fill the air with more than MaxInFlight        *)
(* packets waits, and the expectation timer outlasts Steps packets of the  *)
(* sender.                                                                 *)
(***************************************************************************)
EXTENDS PktReqQueue

CONSTANTS
  NumPkts,         \* config.numPktsToTransfer, the same at both ends
  BulkMax,         \* IPERF_MAX_PKTS_IN_ONE_BULK_REQ
  MailboxLen,      \* IPERF_MSG_QUEUE_SIZE
  Steps,           \* expectationDelayUs / delayUs, rounded down
  MaxLost,         \* packets of the sender that may be lost between two
                   \* payloads that are not, as long as there is one to send
  MaxRelayed,      \* bound: chunks queued at relays in a behaviour
  MaxInFlight,     \* bound: packets in the air, each way
  Invalid,         \* SIMPLE_QUEUE_INVALID_NUMBER
  None

ASSUME TransferAssumption ==
  /\ NumPkts \in Nat \ {0} /\ BulkMax \in Nat \ {0} /\ MailboxLen \in Nat \ {0}
  /\ Steps \in Nat \ {0} /\ MaxInFlight \in Nat \ {0}
  /\ MaxLost \in Nat /\ MaxRelayed \in Nat
  /\ Invalid \notin 0..NumPkts

\* "Nothing was sent" is no packet.
ASSUME NoneAssumption == None \notin [type : {"PAYLOAD", "RESP"}, seq : 0..NumPkts]

VARIABLES
  \* the sender's, as in Sender.tla
  txMode, txRunning, txState, txLast, txNumSent, txQueue, txTimer, txMailbox,
  txIpcLost, txSent, txInputs,
  \* the receiver's, as in Receiver.tla
  rxRunning, rxState, rxConfig, rxResults, rxQueue, rxExpectationTimer,
  rxInterestTimer, rxExpectationSeqNo, rxMailbox, rxIpcLost, rxSent,
  rxNextPayload, rxAsked,
  \* between them
  down,            \* packets on their way to the receiver
  up,              \* requests on their way to the sender
  relayQueue,      \* the chunks that entries at the relays were queued for
  sole,            \* so many of them, from the head on, found their blocks
                   \* named by no other entry
  swapped,         \* history: a relay has sent another chunk than that
  silence,         \* packets sent since the expectation timer was set
  lost,            \* packets lost since the last payload that was not
  relayed

txVars == <<txMode, txRunning, txState, txLast, txNumSent, txQueue, txTimer,
            txMailbox, txIpcLost, txSent, txInputs>>
rxVars == <<rxRunning, rxState, rxConfig, rxResults, rxQueue, rxExpectationTimer,
            rxInterestTimer, rxExpectationSeqNo, rxMailbox, rxIpcLost, rxSent,
            rxNextPayload, rxAsked>>
relayVars == <<relayQueue, sole, swapped, relayed>>
airVars == <<down, up, relayVars, lost>>
vars == <<txVars, rxVars, airVars, silence>>

TheConfig == [bidir |-> TRUE, numPkts |-> NumPkts]

\* The requests that reach the sender: the relays pass on what has an entry left.
Bulks ==
  {list \in UNION {[1..n -> 0..NumPkts \union {Invalid}] : n \in 0..BulkMax} :
     \E i \in DOMAIN list : list[i] # Invalid}

S == INSTANCE Sender WITH
       Modes <- {"BIDIR"}, SizePkts <- NumPkts, PktSlots <- 1, MaxPending <- 1,
       MaxInputs <- 0, MaxChunk <- NumPkts,
       Bulks <- Bulks,
       mode <- txMode, running <- txRunning, iperfState <- txState,
       lastPktSeqNo <- txLast, numSent <- txNumSent, reqQueue <- txQueue,
       intervalTimer <- txTimer, mailbox <- txMailbox, ipcLost <- txIpcLost,
       sent <- txSent, inputs <- txInputs

R == INSTANCE Receiver WITH
       MaxChunk <- NumPkts, Configs <- {TheConfig}, SyncConfigs <- {},
       PktSlots <- 1, MaxPending <- 1, Disciplined <- TRUE,
       running <- rxRunning, iperfState <- rxState, config <- rxConfig,
       results <- rxResults, reqQueue <- rxQueue,
       expectationTimer <- rxExpectationTimer, interestTimer <- rxInterestTimer,
       expectationSeqNo <- rxExpectationSeqNo, mailbox <- rxMailbox,
       ipcLost <- rxIpcLost, sent <- rxSent, nextPayload <- rxNextPayload,
       asked <- rxAsked

Init ==
  /\ S!Init /\ R!Init
  /\ down = <<>> /\ up = <<>>
  /\ relayQueue = <<>> /\ sole = 0 /\ swapped = FALSE /\ relayed = 0
  /\ silence = 0 /\ lost = 0

-----------------------------------------------------------------------------
(* Sending: a packet goes into the air, or is lost there.                    *)

Transmit(air, p) == air' = Append(air, p) \/ UNCHANGED air

AtMostSteps(n) == IF n < Steps THEN n ELSE Steps

AllSent == txLast >= NumPkts - 1

\* Losses are counted from one payload in the air to the next; when no more is
\* to come, anything may be lost.
Lost ==
  IF AllSent' \/ (down' # down /\ txSent'.type = "PAYLOAD") THEN 0
  ELSE IF down' = down THEN lost + 1 ELSE lost

SenderStep ==
  /\ S!Thread
  /\ IF txSent' = None THEN UNCHANGED <<down, lost, silence>>
     ELSE /\ Transmit(down, txSent')
          /\ lost' = Lost /\ lost' <= MaxLost
          /\ silence' = AtMostSteps(silence + 1)
  /\ UNCHANGED <<rxVars, up, relayVars>>

\* The timer is set anew with a payload that is not a duplicate, with an
\* answer, and after it has run out.
ExpectationSet ==
  \/ R!HandlePayload /\ rxResults'.last # rxResults.last
  \/ R!HandleResp
  \/ R!HandleExpectationTimeout /\ ~rxExpectationTimer

ReceiverStep ==
  /\ R!Thread
  /\ silence' = IF ExpectationSet THEN 0 ELSE silence
  /\ IF rxSent' = <<>> THEN UNCHANGED up ELSE Transmit(up, rxSent')
  /\ UNCHANGED <<txVars, down, relayVars, lost>>

-----------------------------------------------------------------------------
(* The timers, at their pace, and the command that begins the transfer.      *)

IntervalTimerFires ==
  /\ Len(down) < MaxInFlight
  /\ S!IntervalTimerFires
  /\ UNCHANGED <<rxVars, airVars, silence>>

InterestTimerFires ==
  /\ Len(up) < MaxInFlight
  /\ R!InterestTimerFires
  /\ UNCHANGED <<txVars, airVars, silence>>

SenderRests == txTimer = "off" /\ S!Pending("SEND_FILE") = {}

\* Nothing came for the time of Steps packets, or nothing was sent.
ExpectationTimerFires ==
  /\ silence >= Steps \/ (SenderRests /\ down = <<>>)
  /\ R!ExpectationTimerFires
  /\ UNCHANGED <<txVars, airVars, silence>>

Start ==
  /\ txState = "IDLE"
  /\ S!ShellStart
  /\ UNCHANGED <<txInputs, rxVars, airVars, silence>>

-----------------------------------------------------------------------------
(* Arrivals.                                                                 *)

\* A packet reaches the receiver, or finds nobody any more.
PacketArrives ==
  /\ down # <<>>
  /\ down' = Tail(down)
  /\ LET p == Head(down)
     IN \/ /\ R!Alive
           /\ R!Deliver(p.type, p.seq)
           /\ rxNextPayload' = IF p.type = "PAYLOAD" THEN p.seq + 1 ELSE rxNextPayload
           /\ UNCHANGED rxAsked
        \/ ~R!Alive /\ UNCHANGED rxVars
  /\ UNCHANGED <<txVars, up, relayVars, silence, lost>>

\* The entries at the head of queue that name a chunk once, before any is
\* named again.
Distinct(queue) ==
  {n \in DOMAIN queue : \A i, j \in 1..n : queue[i] = queue[j] => i = j}

\* Iperf_RelayerIntercept: what is found in a cache is struck out and queued
\* there; the rest goes on, unless nothing is left.  Behind an entry that shares
\* its block nothing is known of what the blocks hold.
RequestArrives ==
  /\ up # <<>>
  /\ up' = Tail(up)
  /\ \E hits \in SUBSET {i \in DOMAIN Head(up) : Head(up)[i] <= txLast} :
       LET rest == [i \in DOMAIN Head(up) |-> IF i \in hits THEN Invalid ELSE Head(up)[i]]
       IN /\ relayed' = relayed + Cardinality(hits) /\ relayed' <= MaxRelayed
          /\ \E order \in Listing(hits) :
               relayQueue' = EnqueueAll(relayQueue, Picked(Head(up), order))
          /\ sole' = IF sole < Len(relayQueue) THEN sole
                     ELSE Cardinality(Distinct(relayQueue'))
          /\ IF hits = DOMAIN rest THEN UNCHANGED txVars
             ELSE S!Deliver(S!Msg("BULK_REQ", rest)) /\ UNCHANGED txInputs
  /\ UNCHANGED <<rxVars, down, swapped, silence, lost>>

\* A relay serves the first entry: it sends chunk k.
RelaySends(k) ==
  /\ relayQueue # <<>> /\ Len(down) < MaxInFlight
  /\ relayQueue' = Tail(relayQueue)
  /\ sole' = IF sole = 0 THEN 0 ELSE sole - 1
  /\ Transmit(down, [type |-> "RESP", seq |-> k])
  /\ UNCHANGED <<txVars, rxVars, up, silence, lost, relayed>>

\* The block holds what it held when it was queued.
RelayAnswers ==
  relayQueue # <<>> /\ RelaySends(Head(relayQueue)) /\ UNCHANGED swapped

\* An earlier answer has unlocked the block, and another chunk has taken it.
RelaySwaps ==
  /\ relayQueue # <<>> /\ sole = 0
  /\ \E k \in 0..txLast : k # Head(relayQueue) /\ RelaySends(k)
  /\ swapped' = TRUE

KeptNext ==
  \/ SenderStep \/ ReceiverStep
  \/ IntervalTimerFires \/ InterestTimerFires \/ ExpectationTimerFires \/ Start
  \/ PacketArrives \/ RequestArrives \/ RelayAnswers

Next == KeptNext \/ RelaySwaps

Spec == Init /\ [][Next]_vars

\* The threads run, timers that are set fire, what is in the air arrives, and
\* what is sent again and again gets into the air.
FairSpec ==
  /\ Spec
  /\ WF_vars(SenderStep) /\ SF_vars(SenderStep /\ down' # down)
  /\ WF_vars(ReceiverStep) /\ SF_vars(ReceiverStep /\ up' # up)
  /\ WF_vars(IntervalTimerFires) /\ WF_vars(InterestTimerFires)
  /\ WF_vars(ExpectationTimerFires)
  /\ WF_vars(PacketArrives) /\ WF_vars(RequestArrives)
  /\ WF_vars(RelayAnswers \/ RelaySwaps)

-----------------------------------------------------------------------------
TypeOK ==
  /\ S!TypeOK /\ R!TypeOK
  /\ down \in Seq(S!Packet)
  /\ up \in Seq(Seq(0..NumPkts))
  /\ relayQueue \in Seq(0..NumPkts) /\ Len(relayQueue) <= QueueLen
  /\ sole \in 0..Len(relayQueue) /\ swapped \in BOOLEAN /\ relayed \in 0..MaxRelayed
  /\ silence \in 0..Steps /\ lost \in 0..MaxLost

\* The network that Receiver.tla assumes (payloads in order, no answer before
\* something was asked for) is the one the sender and the relays make, whatever
\* the relays swap: every step here is a step of the receiver's own
\* specification (receiver.c:165-325, sender.c:170-209, relayer.c:96-103).
EnvironmentCovered == R!Spec

\* As long as the losses between two payloads do not outlast the expectation
\* timer, and no relay has sent a chunk for another, a receiver that stops by
\* itself has the whole file: no chunk is asked for ahead of the sender and
\* none is counted twice (receiver.c:132-149, 192, 211-231, 402-409).
CompleteIsTrue == ~swapped /\ rxState = "STOPPED" => R!File \subseteq rxResults.file

\* A transfer of which one payload arrived comes to its end, whatever else is
\* lost on the way (receiver.c:363-441, sender.c:99-119, 197-241).
TransferCompletes == rxState = "RECEIVING" ~> rxState = "STOPPED"

Quiet ==
  SenderRests /\ txMailbox = <<>> /\ down = <<>> /\ up = <<>> /\ relayQueue = <<>>

\* After that the air falls silent, and stays so: no retry outlives the
\* transfer (receiver.c:442-449, sender.c:212-241).
FallsSilent == rxState = "STOPPED" ~> []Quiet
=============================================================================
