----------------------------- MODULE Lifecycle -----------------------------
(***************************************************************************)
(* submodules/caching_iperf/iperf.c: the life of a node.  The shell        *)
(* selects a role, starts, stops, restarts and configures it; the role's   *)
(* thread, of higher priority, runs on the one static stack and may stop   *)
(* by itself; all roles share one configuration, one state, one mailbox    *)
(* address and, but for the receiver, one interval timer.                  *)
(*                                                                         *)
(* Of a role's work there is what its life depends on: when it changes     *)
(* its state, sets the timer, or leaves its loop.  Receiver.tla,           *)
(* Sender.tla and Relayer.tla have the rest, the receiver's own two timers *)
(* (which it stops when it stops) included.                                *)
(***************************************************************************)
EXTENDS Integers, Sequences, FiniteSets

CONSTANTS
  Node,          \* the boards
  Settings,      \* what "iperf config" may set: [bidir, size, payload]
  CountMod,      \* 2^16: numPktsToTransfer is a uint16_t
  MailboxLen,    \* bound on the mailbox, IPERF_MSG_QUEUE_SIZE
  MaxCommands    \* bound: commands typed at a node

Role == {"SENDER", "RECEIVER", "RELAYER"}
SettingType == [bidir : BOOLEAN, size : Nat, payload : Nat \ {0}]

ASSUME LifecycleAssumption ==
  /\ Settings \subseteq SettingType /\ Settings # {}
  /\ CountMod \in Nat \ {0}
  /\ MailboxLen \in Nat \ {0} /\ MaxCommands \in Nat

VARIABLES
  node,      \* the state of each node, a NodeState
  air        \* the settings that CONFIG_SYNC packets have carried

vars == <<node, air>>

-----------------------------------------------------------------------------
Init_(r) == [do |-> "INIT", role |-> r]
Record == [do |-> "RECORD", role |-> "none"]
Start == [do |-> "START", role |-> "none"]
Deinit == [do |-> "DEINIT", role |-> "none"]

ShellStep ==
  [do : {"INIT"}, role : Role] \union [do : {"RECORD", "START", "DEINIT"}, role : {"none"}]
MsgType == {"START", "SEND_FILE", "SERVICE", "STOP", "PACKET", "GARBAGE"}

NodeState ==
  [running : BOOLEAN,
   reachable : BOOLEAN,                  \* threadPid # KERNEL_PID_UNDEF
   role : Role,                          \* config.role
   setting : Settings,                   \* config: mode, transferSizeBytes, payloadSizeBytes
   count : 0..CountMod - 1,              \* config.numPktsToTransfer
   thread : Role \union {"none"},        \* the thread on threadStack
   clash : BOOLEAN,                      \* history: a thread was made on a stack in use
   servers : SUBSET Role,                \* the roles whose udpServer is registered
   iperfState : {"STOPPED", "IDLE", "SENDING", "WAITING", "RECEIVING"},
   intervalTimer : {"off", "SEND_FILE", "SERVICE", "GARBAGE"},   \* what it would post
   mailbox : Seq(MsgType),
   shell : Seq(ShellStep),               \* what is left of the command typed last
   typed : 0..MaxCommands]

Count(s) == (s.size \div s.payload) % CountMod

\* As the firmware boots: SENDER is role 0, and no number of packets is set.
Booted(s) ==
  [running |-> FALSE, reachable |-> FALSE, role |-> "SENDER", setting |-> s, count |-> 0,
   thread |-> "none", clash |-> FALSE, servers |-> {}, iperfState |-> "STOPPED",
   intervalTimer |-> "off", mailbox |-> <<>>, shell |-> <<>>, typed |-> 0]

Init ==
  /\ \E s \in Settings : node = [n \in Node |-> Booted(s)]
  /\ air = {}

\* Node n comes to the state s.
Becomes(n, s) == node' = [node EXCEPT ![n] = s]

-----------------------------------------------------------------------------
(* The threads.  A node that is handed to an operator is written x.          *)

\* The loop is left: the mailbox dies with the thread, the timer does not.
Exited(x, state) ==
  [x EXCEPT !.thread = "none", !.servers = @ \ {x.thread}, !.iperfState = state,
            !.mailbox = <<>>]

Taken(x) == [x EXCEPT !.mailbox = Tail(@)]

Ready(n, role, types) ==
  /\ node[n].thread = role
  /\ node[n].mailbox # <<>> /\ Head(node[n].mailbox) \in types
  /\ UNCHANGED air

\* Iperf_SenderThread: START, a step of the transfer or of a request, packets
\* (requests set the timer), STOP; the rest is not for it.
SenderStarts(n) ==
  /\ Ready(n, "SENDER", {"START"})
  /\ Becomes(n, [Taken(node[n]) EXCEPT !.iperfState = "SENDING", !.intervalTimer = "SEND_FILE"])

\* The transfer is done in mode BIDIR, or in another: then the sender stops by
\* itself.
SenderSteps(n) ==
  LET x == Taken(node[n]) IN
  /\ Ready(n, "SENDER", {"SEND_FILE"})
  /\ \/ Becomes(n, [x EXCEPT !.intervalTimer = "SEND_FILE"])
     \/ x.iperfState = "IDLE" /\ Becomes(n, x)
     \/ /\ x.iperfState # "IDLE"
        /\ Becomes(n, IF x.setting.bidir THEN [x EXCEPT !.iperfState = "WAITING"]
                      ELSE Exited(x, "STOPPED"))

SenderGetsPacket(n) ==
  /\ Ready(n, "SENDER", {"PACKET"})
  /\ \E t \in {node[n].intervalTimer, "SEND_FILE"} :
       Becomes(n, [Taken(node[n]) EXCEPT !.intervalTimer = t])

\* receiverHandleIperfPacket: the first PAYLOAD opens the transfer, and the
\* last one makes the receiver tell itself to stop; other packets do neither.
ReceiverGetsPacket(n) ==
  LET x == Taken(node[n]) IN
  /\ Ready(n, "RECEIVER", {"PACKET"})
  /\ \/ Becomes(n, x)
     \/ Becomes(n, [x EXCEPT !.iperfState = "RECEIVING"])
     \/ Becomes(n, [x EXCEPT !.iperfState = "RECEIVING", !.mailbox = Append(@, "STOP")])

\* Mutant: the number of packets is left.
SyncedStale(x, s) == [x EXCEPT !.setting = s]

\* Iperf_HandleConfigSync: the number of packets is computed, not taken.
Synced(x, s) == [x EXCEPT !.setting = s, !.count = Count(s)]

ReceiverSyncs(n) ==
  /\ Ready(n, "RECEIVER", {"PACKET"})
  /\ \E s \in air : Becomes(n, Synced(Taken(node[n]), s))

\* The relayer serves one block, and calls itself for the next one if any.
RelayerServes(n) ==
  /\ Ready(n, "RELAYER", {"SERVICE"})
  /\ \E t \in {node[n].intervalTimer, "SERVICE"} :
       Becomes(n, [Taken(node[n]) EXCEPT !.intervalTimer = t])

\* Mutant: the state stays as it was.
StoppedAsIs(x) == Exited(x, x.iperfState)

\* The relayer has a flag of its own for its loop and leaves iperfState alone.
Stopped(x) == Exited(x, IF x.thread = "RELAYER" THEN x.iperfState ELSE "STOPPED")

ThreadStops(n) ==
  /\ \E r \in Role : Ready(n, r, {"STOP"})
  /\ Becomes(n, Stopped(node[n]))

\* What a role has no case for.
Foreign(role) ==
  CASE role = "SENDER"   -> {"SERVICE", "GARBAGE"}
    [] role = "RECEIVER" -> {"START", "SEND_FILE", "SERVICE", "GARBAGE"}
    [] role = "RELAYER"  -> {"START", "SEND_FILE", "PACKET", "GARBAGE"}

ThreadIgnores(n) ==
  /\ \E r \in Role : Ready(n, r, Foreign(r))
  /\ Becomes(n, Taken(node[n]))

Thread(n) ==
  \/ SenderStarts(n) \/ SenderSteps(n) \/ SenderGetsPacket(n)
  \/ ReceiverGetsPacket(n) \/ ReceiverSyncs(n)
  \/ RelayerServes(n)
  \/ ThreadStops(n) \/ ThreadIgnores(n)

-----------------------------------------------------------------------------
(* What reaches the thread from outside.                                     *)

\* The interrupt posts to the pid, which every thread of the node gets.
TimerFires(n) ==
  LET x == node[n] IN
  /\ x.intervalTimer # "off"
  /\ Becomes(n, [x EXCEPT !.intervalTimer = "off",
                          !.mailbox = IF x.thread # "none" /\ Len(@) < MailboxLen
                                      THEN Append(@, x.intervalTimer) ELSE @])
  /\ UNCHANGED air

\* A packet for the port of the registered server.
PacketArrives(n) ==
  LET x == node[n] IN
  /\ x.thread \in x.servers
  /\ Len(x.mailbox) < MailboxLen - 1
  /\ Becomes(n, [x EXCEPT !.mailbox = Append(@, "PACKET")])
  /\ UNCHANGED air

\* Iperf_RelayerIntercept: a request that a relay can answer calls its thread
\* (relayerPid is set as long as there is one).
RequestPasses(n) ==
  LET x == node[n] IN
  /\ x.thread = "RELAYER"
  /\ Len(x.mailbox) < MailboxLen - 1
  /\ Becomes(n, [x EXCEPT !.mailbox = Append(@, "SERVICE")])
  /\ UNCHANGED air

\* A node that forwards a CONFIG_SYNC adopts it, whatever its role.
SyncPasses(n) ==
  /\ \E s \in air : Becomes(n, Synced(node[n], s))
  /\ UNCHANGED air

-----------------------------------------------------------------------------
(* The shell, the thread of lowest priority: it runs while the role's thread *)
(* waits for a message, or is gone, and may be interrupted between two steps *)
(* of a command.                                                             *)

ShellRuns(x) == x.thread = "none" \/ x.mailbox = <<>>

Steps(n, what) ==
  /\ node[n].shell # <<>> /\ Head(node[n].shell).do = what
  /\ ShellRuns(node[n])
  /\ UNCHANGED air

\* x with m sent to threadPid; msg_send finds nobody at a pid that is stale.
Told(x, m) ==
  IF x.reachable /\ x.thread # "none" THEN [x EXCEPT !.mailbox = Append(@, m)] ELSE x

\* Mutant: a second role is let in.
RefusedNever(x) == FALSE

Refused(x) == x.running

\* thread_create: the new thread runs at once and waits for its first message
\* before the shell gets to store its pid.  A timer message that was on the old
\* thread's stack may be overwritten.
Created(x, r) ==
  [x EXCEPT !.role = r, !.count = Count(x.setting),
            !.clash = @ \/ x.thread # "none",
            !.thread = r, !.servers = @ \union {r}, !.mailbox = <<>>,
            !.iperfState = IF r = "RELAYER" THEN @ ELSE "IDLE"]

\* Iperf_Init, up to thread_create.
ShellInit(n) ==
  LET x == [node[n] EXCEPT !.shell = Tail(@)]
      r == Head(node[n].shell).role
  IN /\ Steps(n, "INIT")
     /\ IF Refused(x) THEN Becomes(n, x)
        ELSE \E t \in {x.intervalTimer} \union IF x.intervalTimer = "SERVICE" THEN {"GARBAGE"} ELSE {} :
               Becomes(n, [Created(x, r) EXCEPT !.intervalTimer = t, !.shell = <<Record>> \o @])

\* Its end: threadPid is stored, and the node runs, even if its thread has
\* stopped by itself since.
ShellRecord(n) ==
  /\ Steps(n, "RECORD")
  /\ Becomes(n, [node[n] EXCEPT !.shell = Tail(@), !.running = TRUE, !.reachable = TRUE])

ShellStart(n) ==
  /\ Steps(n, "START")
  /\ Becomes(n, [Told(node[n], "START") EXCEPT !.shell = Tail(@)])

\* Mutants: the thread is not told; the node runs on.
DeinitedQuietly(x) == [x EXCEPT !.running = FALSE, !.reachable = FALSE]
DeinitedRunning(x) == [Told(x, "STOP") EXCEPT !.reachable = FALSE]

Deinited(x) == [Told(x, "STOP") EXCEPT !.running = FALSE, !.reachable = FALSE]

\* Iperf_Deinit, which does not ask whether anything runs.
ShellDeinit(n) ==
  /\ Steps(n, "DEINIT")
  /\ Becomes(n, [Deinited(node[n]) EXCEPT !.shell = Tail(@)])

Shell(n) == ShellInit(n) \/ ShellRecord(n) \/ ShellStart(n) \/ ShellDeinit(n)

\* A command is typed when the last one is done.
Type(n, steps) ==
  /\ node[n].shell = <<>> /\ ShellRuns(node[n])
  /\ node[n].typed < MaxCommands
  /\ Becomes(n, [node[n] EXCEPT !.shell = steps, !.typed = @ + 1])
  /\ UNCHANGED air

TypeRole(n, r) == Type(n, <<Init_(r)>>)
TypeSenderStart(n) == Type(n, <<Init_("SENDER"), Start>>)
TypeStart(n) == node[n].running /\ Type(n, <<Start>>)
TypeStop(n) == node[n].running /\ Type(n, <<Deinit>>)
TypeRestart(n) == Type(n, <<Deinit, Init_(node[n].role)>>)

\* "Stop iperf first!"
MayConfigure(x) == x.iperfState \in {"STOPPED", "IDLE"}

\* The number of packets follows the sizes (or, with "numpktstotransfer", the
\* size follows the number); a change of mode alone leaves it.
Configured(x, s) ==
  IF s.size = x.setting.size /\ s.payload = x.setting.payload THEN [x EXCEPT !.setting = s]
  ELSE Synced(x, s)

\* "iperf config ...", which may end in "sync".
TypeConfig(n, s, sync) ==
  /\ node[n].shell = <<>> /\ ShellRuns(node[n]) /\ node[n].typed < MaxCommands
  /\ MayConfigure(node[n])
  /\ Becomes(n, [Configured(node[n], s) EXCEPT !.typed = @ + 1])
  /\ air' = IF sync THEN air \union {s} ELSE air

\* "iperf config sync", in any state.
TypeSync(n) ==
  /\ node[n].shell = <<>> /\ ShellRuns(node[n]) /\ node[n].typed < MaxCommands
  /\ Becomes(n, [node[n] EXCEPT !.typed = @ + 1])
  /\ air' = air \union {node[n].setting}

Commands(n) ==
  \/ \E r \in Role : TypeRole(n, r)
  \/ TypeSenderStart(n) \/ TypeStart(n) \/ TypeStop(n) \/ TypeRestart(n)
  \/ \E s \in Settings, sync \in BOOLEAN : TypeConfig(n, s, sync)
  \/ TypeSync(n)

Outside(n) == TimerFires(n) \/ PacketArrives(n) \/ RequestPasses(n) \/ SyncPasses(n)

Next == \E n \in Node : Thread(n) \/ Outside(n) \/ Shell(n) \/ Commands(n)

Spec == Init /\ [][Next]_vars

\* The scheduler runs a thread that has mail, and the shell when no thread has.
FairSpec ==
  Spec /\ \A n \in Node : WF_vars(Thread(n)) /\ SF_vars(Shell(n))

-----------------------------------------------------------------------------
TypeOK == node \in [Node -> NodeState] /\ air \subseteq Settings

Says(x, m) == \E i \in DOMAIN x.mailbox : x.mailbox[i] = m

\* No thread is made on the stack of a thread that lives, whatever is typed:
\* one static stack serves all roles (iperf.c:49, 567-605, 671-676).
OneThread == \A n \in Node : ~node[n].clash

\* The thread that lives is the one that is reached: by packets, for its server
\* and no other is registered, and by "stop", for threadPid is its pid, unless
\* it has just been told to stop or the shell is about to store the pid.  No
\* packet reaches a thread that is gone (iperf.c:539-565, 603, 607-616, 662-670).
ThreadIsReached ==
  \A n \in Node : LET x == node[n] IN
    /\ x.servers = {x.thread} \ {"none"}
    /\ x.thread # "none" =>
         \/ x.running /\ x.reachable
         \/ Says(x, "STOP")
         \/ x.shell # <<>> /\ Head(x.shell) = Record

\* A node that is no sender or receiver any more, however that ended, can be
\* configured, and iperfState says which transfer is on (iperf.c:618-621, 748).
StateTellsTruth ==
  \A n \in Node : LET x == node[n] IN
    /\ x.thread \in {"SENDER", "RECEIVER"} <=> x.iperfState # "STOPPED"
    /\ x.iperfState \in {"SENDING", "WAITING"} => x.thread = "SENDER"
    /\ x.iperfState = "RECEIVING" => x.thread = "RECEIVER"

\* While a thread lives, the number of packets is the one its sizes make,
\* whichever node they were set on and in which order (iperf.c:418, 581, 760,
\* 789, 810).
CountAgrees ==
  \A n \in Node : node[n].thread # "none" => node[n].count = Count(node[n].setting)

\* The board keeps up with its packets.
KeepsUp == \A n \in Node : []<>(node[n].mailbox = <<>>)

\* "restart" brings the thread back, even if the old one had stopped by itself
\* (iperf.c:607, 671-676).
RestartRevives ==
  KeepsUp => \A n \in Node :
    (Len(node[n].shell) = 2 /\ Head(node[n].shell) = Deinit) ~> (node[n].thread # "none")
=============================================================================
