------------------------------- MODULE Sender -------------------------------
(***************************************************************************)
(* submodules/caching_iperf/sender.c: the sender thread, its mailbox and   *)
(* the one timer that paces it.  Every sending step is one SEND_FILE       *)
(* message; a step that leaves work behind arms the timer for the next.    *)
(* Contents and byte counts are left out, save the count of packets sent   *)
(* that ends a transfer of mode SIZE.                                      *)
(***************************************************************************)
EXTENDS PktReqQueue

CONSTANTS
  Modes,         \* the modes to look at: "TIMED", "SIZE", "BIDIR"
  NumPkts,       \* config.numPktsToTransfer
  SizePkts,      \* packets until numSentBytes reaches transferSizeBytes
  Bulks,         \* the lists of chunks a PKT_BULK_REQ may bring
  MailboxLen,    \* IPERF_MSG_QUEUE_SIZE
  PktSlots,      \* packets CONFIG_GNRC_PKTBUF_SIZE leaves room for
  MaxPending,    \* SEND_FILE messages that may wait when delayUs runs out
  MaxInputs,     \* bound: packets and START commands in a behaviour
  MaxChunk,      \* bound: the sender is looked at up to this chunk
  Invalid, None  \* SIMPLE_QUEUE_INVALID_NUMBER; nothing was sent

Chunk == 0..MaxChunk

ASSUME SenderAssumption ==
  /\ Modes \subseteq {"TIMED", "SIZE", "BIDIR"}
  /\ NumPkts \in Nat \ {0} /\ SizePkts \in {NumPkts, NumPkts + 1}
  /\ MaxChunk \in Nat /\ MaxChunk >= NumPkts
  /\ Invalid \notin Chunk
  /\ Bulks \subseteq Seq(Chunk \union {Invalid})
  /\ MailboxLen \in Nat \ {0} /\ PktSlots \in Nat \ {0}
  /\ MaxPending \in Nat \ {0} /\ MaxInputs \in Nat

VARIABLES
  mode,           \* config.mode, which the shell changes only while stopped
  running,        \* iperf.c
  iperfState,
  lastPktSeqNo,
  numSent,        \* numSentBytes / payloadSizeBytes, kept in mode SIZE only,
                  \* the one that reads it
  reqQueue,       \* pktReqQueue
  intervalTimer,  \* "off", "armed" with delayUs, or "now" (delay 0, after START)
  mailbox,
  ipcLost,        \* the timer found the mailbox full
  sent,           \* the packet the last step sent, or None
  inputs          \* packets and START commands so far

vars == <<mode, running, iperfState, lastPktSeqNo, numSent, reqQueue, intervalTimer,
          mailbox, ipcLost, sent, inputs>>

-----------------------------------------------------------------------------
Msg(type, list) == [type |-> type, list |-> list]

Message ==
  [type : {"BULK_REQ"}, list : Bulks]
    \union [type : {"PKT_REQ"}, list : {<<k>> : k \in Chunk}]
    \union [type : {"OTHER", "START", "SEND_FILE", "STOP"}, list : {<<>>}]

Packet == [type : {"PAYLOAD", "RESP"}, seq : Chunk]

Pending(type) == {i \in DOMAIN mailbox : mailbox[i].type = type}

\* Mutant: a packet that waits takes no room in the packet buffer.
PacketsNotHeld == {}

Packets == {i \in DOMAIN mailbox : mailbox[i].type \in {"BULK_REQ", "PKT_REQ", "OTHER"}}

Alive == iperfState # "STOPPED"
Overflow == Len(mailbox) >= MailboxLen

Init ==
  /\ mode \in Modes
  /\ running = TRUE /\ iperfState = "IDLE"
  /\ lastPktSeqNo = -1 /\ numSent = 0
  /\ reqQueue = <<>>
  /\ intervalTimer = "off"
  /\ mailbox = <<>> /\ ipcLost = FALSE
  /\ sent = None
  /\ inputs = 0

-----------------------------------------------------------------------------
(* The thread: Iperf_SenderThread and senderHandleIperfPacket.               *)

\* Every handler takes the head of the mailbox and posts nothing itself.
Take(type) ==
  /\ Alive /\ mailbox # <<>> /\ Head(mailbox).type = type
  /\ mailbox' = Tail(mailbox)
  /\ UNCHANGED <<mode, running, ipcLost, inputs>>

\* A single request re-arms the timer, whatever is left of its delay.
HandlePktReq ==
  /\ Take("PKT_REQ")
  /\ reqQueue' = EnqueueAll(reqQueue, Head(mailbox).list)
  /\ intervalTimer' = "armed"
  /\ sent' = None
  /\ UNCHANGED <<iperfState, lastPktSeqNo, numSent>>

\* Mutant: the timer is not set.
TimerLeft == intervalTimer

TimerSet == IF intervalTimer = "off" THEN "armed" ELSE intervalTimer

\* Mutant: entries that a relay struck out are requests like others.
AllEntries(list) == DOMAIN list

\* The places of the chunks that are asked for.
Requests(list) == {i \in DOMAIN list : list[i] # Invalid}

\* A bulk request leaves a timer that is set alone.
HandleBulkReq ==
  /\ Take("BULK_REQ")
  /\ LET list == Head(mailbox).list
     IN \E order \in Listing(Requests(list)) :
          reqQueue' = EnqueueAll(reqQueue, Picked(list, order))
  /\ intervalTimer' = TimerSet
  /\ sent' = None
  /\ UNCHANGED <<iperfState, lastPktSeqNo, numSent>>

\* PAYLOADs, echoes and CONFIG_SYNC, of which a sender takes no notice.
HandleOther ==
  /\ Take("OTHER")
  /\ sent' = None
  /\ UNCHANGED <<iperfState, lastPktSeqNo, numSent, reqQueue, intervalTimer>>

\* Mutant: nothing calls for the first step.
HandleStartNoTimer ==
  /\ Take("START")
  /\ iperfState' = "SENDING"
  /\ lastPktSeqNo' = -1 /\ numSent' = 0
  /\ sent' = None
  /\ UNCHANGED <<reqQueue, intervalTimer>>

HandleStart ==
  /\ Take("START")
  /\ iperfState' = "SENDING"
  /\ lastPktSeqNo' = -1 /\ numSent' = 0
  /\ intervalTimer' = "now"
  /\ sent' = None
  /\ UNCHANGED reqQueue

\* Mutant: one packet too late.
DoneLate(last, count, queue) ==
  CASE mode = "SIZE"  -> {count > SizePkts}
    [] mode = "TIMED" -> {last >= MaxChunk}
    [] mode = "BIDIR" -> {last = NumPkts /\ queue = <<>>}

\* isTransferDone, after a step that left these values.  In mode TIMED the
\* time may be up at any step, and is up by MaxChunk.
Done(last, count, queue) ==
  CASE mode = "SIZE"  -> {count >= SizePkts}
    [] mode = "TIMED" -> IF last >= MaxChunk THEN {TRUE} ELSE BOOLEAN
    [] mode = "BIDIR" -> {last = NumPkts - 1 /\ queue = <<>>}

\* Mutant: the timer is set again in any case.
RearmedAlways(done) == "armed"

Rearmed(done) == IF done THEN intervalTimer ELSE "armed"

\* Mutant: an idle sender sets the timer whether or not a request is left.
IdleRearmedAlways(queue) == "armed"

\* An idle sender serves requests only as long as there are any.
IdleRearmed(queue) == IF queue # <<>> THEN "armed" ELSE intervalTimer

\* handleFileSending: a request if there is one, the next chunk otherwise.
HandleSendFile ==
  /\ Take("SEND_FILE")
  /\ \/ /\ reqQueue = <<>>
        /\ lastPktSeqNo < MaxChunk
        /\ lastPktSeqNo' = lastPktSeqNo + 1
        /\ sent' = [type |-> "PAYLOAD", seq |-> lastPktSeqNo + 1]
        /\ UNCHANGED reqQueue
     \/ /\ reqQueue # <<>>
        /\ sent' = [type |-> "RESP", seq |-> Head(reqQueue)]
        /\ reqQueue' = Tail(reqQueue)
        /\ UNCHANGED lastPktSeqNo
  /\ \/ /\ iperfState = "IDLE"
        /\ intervalTimer' = IdleRearmed(reqQueue')
        /\ UNCHANGED <<iperfState, numSent>>
     \/ /\ iperfState # "IDLE"
        /\ numSent' = IF mode = "SIZE" THEN numSent + 1 ELSE numSent
        /\ \E done \in Done(lastPktSeqNo', numSent', reqQueue') :
             /\ iperfState' = IF ~done THEN iperfState
                              ELSE IF mode = "BIDIR" THEN "WAITING" ELSE "STOPPED"
             /\ intervalTimer' = Rearmed(done)

\* The loop ends; the interval timer is left as it is.
HandleStop ==
  /\ Take("STOP")
  /\ iperfState' = "STOPPED"
  /\ sent' = None
  /\ UNCHANGED <<lastPktSeqNo, numSent, reqQueue, intervalTimer>>

Thread ==
  \/ HandlePktReq \/ HandleBulkReq \/ HandleOther
  \/ HandleStart \/ HandleSendFile \/ HandleStop

-----------------------------------------------------------------------------
(* The timer, the network and the shell.                                     *)

\* A timer of delay 0 fires at once; one armed with delayUs finds at most
\* MaxPending - 1 of its messages unhandled.  It posts to whatever thread has
\* the sender's pid, which the next thread inherits.
IntervalTimerFires ==
  /\ \/ intervalTimer = "now"
     \/ intervalTimer = "armed" /\ Cardinality(Pending("SEND_FILE")) < MaxPending
  /\ intervalTimer' = "off"
  /\ mailbox' = IF Alive /\ ~Overflow THEN Append(mailbox, Msg("SEND_FILE", <<>>))
                                      ELSE mailbox
  /\ ipcLost' = (ipcLost \/ (Alive /\ Overflow))
  /\ sent' = None
  /\ UNCHANGED <<mode, running, iperfState, lastPktSeqNo, numSent, reqQueue, inputs>>

\* Bound: one more packet or START command.
Counted == inputs < MaxInputs /\ inputs' = inputs + 1

\* A packet reaches the mailbox: the pktbuf has room for it, and so has the
\* mailbox (a packet that finds no room is as good as lost on the way).
Deliver(m) ==
  /\ Alive
  /\ Cardinality(Packets) < PktSlots /\ ~Overflow
  /\ mailbox' = Append(mailbox, m)
  /\ sent' = None
  /\ UNCHANGED <<mode, running, iperfState, lastPktSeqNo, numSent, reqQueue,
                 intervalTimer, ipcLost>>

PktReqArrives ==
  Counted /\ \E k \in 0..NumPkts - 1 : Deliver(Msg("PKT_REQ", <<k>>))
BulkReqArrives == Counted /\ \E list \in Bulks : Deliver(Msg("BULK_REQ", list))
OtherArrives == Counted /\ Deliver(Msg("OTHER", <<>>))

\* The shell waits for room in the mailbox; a thread that is gone gets nothing.
Command(m) ==
  /\ Alive => ~Overflow
  /\ mailbox' = IF Alive THEN Append(mailbox, m) ELSE mailbox
  /\ sent' = None
  /\ UNCHANGED <<mode, iperfState, lastPktSeqNo, numSent, reqQueue, intervalTimer,
                 ipcLost>>

\* "iperf start".  A second one is typed when the first has been handled.
ShellStart ==
  /\ running /\ Pending("START") = {}
  /\ Command(Msg("START", <<>>))
  /\ UNCHANGED running

\* "iperf stop": Iperf_Deinit.
ShellStop ==
  /\ running
  /\ running' = FALSE
  /\ Command(Msg("STOP", <<>>))
  /\ UNCHANGED inputs

\* "iperf sender": Iperf_Init, after the old thread has left its loop (its
\* priority is above the shell's).
ShellSender ==
  /\ ~running /\ ~Alive
  /\ running' = TRUE /\ iperfState' = "IDLE"
  /\ lastPktSeqNo' = -1 /\ numSent' = 0
  /\ reqQueue' = <<>>
  /\ mailbox' = <<>>
  /\ sent' = None
  /\ UNCHANGED <<mode, intervalTimer, ipcLost, inputs>>

Environment ==
  \/ PktReqArrives \/ BulkReqArrives \/ OtherArrives
  \/ Counted /\ ShellStart
  \/ ShellStop \/ ShellSender

Next == Thread \/ IntervalTimerFires \/ Environment

Spec == Init /\ [][Next]_vars

\* The scheduler runs a thread that has mail, and a timer that is set fires.
FairSpec == Spec /\ WF_vars(Thread) /\ WF_vars(IntervalTimerFires)

-----------------------------------------------------------------------------
TypeOK ==
  /\ mode \in Modes
  /\ running \in BOOLEAN
  /\ iperfState \in {"STOPPED", "IDLE", "SENDING", "WAITING"}
  /\ lastPktSeqNo \in -1..MaxChunk /\ numSent \in Nat
  /\ reqQueue \in Seq(Chunk) /\ Len(reqQueue) <= QueueLen
  /\ intervalTimer \in {"off", "armed", "now"}
  /\ mailbox \in Seq(Message) /\ Len(mailbox) <= MailboxLen
  /\ ipcLost \in BOOLEAN
  /\ sent \in Packet \union {None}
  /\ inputs \in 0..MaxInputs

\* The mailbox is large enough for the timer and the shell, with as many
\* packets in it as the packet buffer holds (iperf.h:9).
MailboxSuffices == ~ipcLost

Ticking == intervalTimer # "off" \/ Pending("SEND_FILE") # {}

\* An unfinished transfer always has its next step coming: the timer is set or
\* its message waits (sender.c:222-241, 282-290).
SendingTicks == iperfState = "SENDING" /\ ~ipcLost => Ticking

\* So has a request, in whatever state it found the sender (sender.c:87-119,
\* 212-219).
RequestsTick == Alive /\ reqQueue # <<>> /\ ~ipcLost => Ticking

\* A transfer that may be asked for chunks ends with its last chunk, "Sitting
\* idle" (sender.c:234): no payload goes out past the end of the file.
NeverPastEnd == mode = "BIDIR" => lastPktSeqNo < NumPkts

\* In mode SIZE the sender stops on its own with the packet that reaches the
\* size, not one earlier or later, and requests served in between count for
\* chunks that are not sent (sender.c:51-67, 221-229).
SizeIsExact ==
  mode = "SIZE" =>
    /\ iperfState = "SENDING" => lastPktSeqNo < numSent /\ numSent < SizePkts
    /\ iperfState = "STOPPED" /\ running => lastPktSeqNo < numSent /\ numSent = SizePkts

\* A started transfer gets to its last chunk, unless it is stopped
\* (sender.c:170-242).
TransferEnds == iperfState = "SENDING" ~> iperfState # "SENDING"

\* A queued request is answered, unless the sender is stopped
\* (sender.c:197-209).
RequestAnswered ==
  \A k \in Chunk : (Alive /\ k \in Range(reqQueue))
                     ~> (sent = [type |-> "RESP", seq |-> k] \/ ~Alive)

\* A sender that was not started stays silent once nobody asks: neither a timer
\* that its predecessor left set nor a request makes it run a transfer
\* (sender.c:211-219, 301-309).
IdleFallsSilent ==
  iperfState = "IDLE" /\ inputs = MaxInputs ~> (iperfState # "IDLE" \/ ~Ticking)
=============================================================================
