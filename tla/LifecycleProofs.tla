-------------------------- MODULE LifecycleProofs --------------------------
(***************************************************************************)
(* Proofs about Lifecycle: for every number of nodes, every configuration  *)
(* and every sequence of commands.  A node changes by itself only, so the  *)
(* invariant is one of a node, NodeInv, and each handler or command is     *)
(* shown to keep it; the properties of the model are its parts.            *)
(***************************************************************************)
EXTENDS Lifecycle, TLAPS

\* The properties of Lifecycle, of a single node.
CanBeStopped(x) ==
  x.thread # "none" =>
    \/ x.running /\ x.reachable
    \/ Says(x, "STOP")
    \/ x.shell # <<>> /\ Head(x.shell) = Record

Truthful(x) ==
  /\ x.thread \in {"SENDER", "RECEIVER"} <=> x.iperfState # "STOPPED"
  /\ x.iperfState \in {"SENDING", "WAITING"} => x.thread = "SENDER"
  /\ x.iperfState = "RECEIVING" => x.thread = "RECEIVER"

Counted(x) == x.thread # "none" => x.count = Count(x.setting)

NodeInv(x) ==
  /\ x \in NodeState
  /\ ~x.clash
  /\ x.servers = {x.thread} \ {"none"}
  /\ CanBeStopped(x)
  /\ Truthful(x)
  /\ Counted(x)

IInv == node \in [Node -> NodeState] /\ air \subseteq Settings /\ \A n \in Node : NodeInv(node[n])

-----------------------------------------------------------------------------
(* The parts of a node.                                                      *)

\* A count of packets fits its 16 bits.
LEMMA CountType == ASSUME NEW s \in Settings PROVE Count(s) \in 0..CountMod - 1
  <1>1. s.size \in Nat /\ s.payload \in Nat \ {0} /\ CountMod \in Nat \ {0}
    BY LifecycleAssumption DEF SettingType
  <1>2. s.size \div s.payload \in Int
    BY <1>1
  <1> DEFINE q == s.size \div s.payload
  <1>3. q % CountMod \in 0..CountMod - 1
    <2> HIDE DEF q
    <2> QED BY <1>1, <1>2, SMT DEF q
  <1> QED BY <1>3 DEF Count

\* What waits stays in line when something joins it, and when the first, being
\* something else, is taken.
LEMMA SaysAppend ==
  ASSUME NEW x \in NodeState, NEW y \in NodeState, NEW m \in MsgType, NEW t \in MsgType,
         y.mailbox = Append(x.mailbox, m)
  PROVE  (Says(x, t) => Says(y, t)) /\ Says(y, m)
  <1>1. x.mailbox \in Seq(MsgType)
    BY DEF NodeState
  <1> QED BY <1>1 DEF Says

LEMMA SaysTail ==
  ASSUME NEW x \in NodeState, NEW y \in NodeState, NEW t \in MsgType,
         x.mailbox # <<>>, Head(x.mailbox) # t, y.mailbox = Tail(x.mailbox)
  PROVE  Says(x, t) => Says(y, t)
  <1>1. x.mailbox \in Seq(MsgType)
    BY DEF NodeState
  <1> SUFFICES ASSUME NEW i \in DOMAIN x.mailbox, x.mailbox[i] = t PROVE Says(y, t)
    BY DEF Says
  <1>2. i # 1 /\ i - 1 \in DOMAIN y.mailbox /\ y.mailbox[i - 1] = t
    BY <1>1
  <1> QED BY <1>2 DEF Says

-----------------------------------------------------------------------------
(* What a node goes through.                                                 *)

\* A message that is no STOP is taken.
LEMMA TakenKeeps ==
  ASSUME NEW x, NodeInv(x), x.mailbox # <<>>, Head(x.mailbox) # "STOP"
  PROVE  NodeInv(Taken(x))
  <1> DEFINE y == Taken(x)
  <1>1. x \in NodeState /\ x.mailbox \in Seq(MsgType)
    BY DEF NodeInv, NodeState
  <1>2. y.mailbox = Tail(x.mailbox) /\ Tail(x.mailbox) \in Seq(MsgType)
    BY <1>1 DEF Taken, NodeState
  <1>3. y \in NodeState
    BY <1>1, <1>2 DEF Taken, NodeState
  <1>4. Says(x, "STOP") => Says(y, "STOP")
    BY <1>1, <1>2, <1>3, SaysTail DEF MsgType
  <1> QED
    BY <1>3, <1>4 DEF NodeInv, NodeState, Taken, CanBeStopped, Truthful, Counted

\* A message joins the others.
LEMMA AppendedKeeps ==
  ASSUME NEW x, NodeInv(x), NEW m \in MsgType
  PROVE  /\ NodeInv([x EXCEPT !.mailbox = Append(@, m)])
         /\ Says([x EXCEPT !.mailbox = Append(@, m)], m)
  <1> DEFINE y == [x EXCEPT !.mailbox = Append(@, m)]
  <1>1. x \in NodeState /\ x.mailbox \in Seq(MsgType)
    BY DEF NodeInv, NodeState
  <1>2. y.mailbox = Append(x.mailbox, m) /\ y.mailbox \in Seq(MsgType)
    BY <1>1 DEF NodeState
  <1>3. y \in NodeState
    BY <1>1, <1>2 DEF NodeState
  <1>4. (Says(x, "STOP") => Says(y, "STOP")) /\ Says(y, m)
    BY <1>1, <1>2, <1>3, SaysAppend DEF MsgType
  <1> QED
    BY <1>3, <1>4 DEF NodeInv, NodeState, CanBeStopped, Truthful, Counted

\* The timer is set, or is no longer.
LEMMA TimerKeeps ==
  ASSUME NEW x, NodeInv(x), NEW t \in {"off", "SEND_FILE", "SERVICE", "GARBAGE"}
  PROVE  NodeInv([x EXCEPT !.intervalTimer = t])
  BY DEF NodeInv, NodeState, CanBeStopped, Truthful, Counted, Says

\* The transfer of the role goes from one state to another.
LEMMA TransferKeeps ==
  ASSUME NEW x, NodeInv(x), NEW state \in {"SENDING", "WAITING", "RECEIVING"},
         x.thread = IF state = "RECEIVING" THEN "RECEIVER" ELSE "SENDER"
  PROVE  NodeInv([x EXCEPT !.iperfState = state])
  BY DEF NodeInv, NodeState, CanBeStopped, Truthful, Counted, Says

\* The thread is left; a relay leaves iperfState, which says STOPPED.
LEMMA ExitedKeeps ==
  ASSUME NEW x, NodeInv(x)
  PROVE  NodeInv(Exited(x, "STOPPED"))
  <1>1. <<>> \in Seq(MsgType)
    OBVIOUS
  <1> QED
    BY <1>1 DEF NodeInv, NodeState, Exited, CanBeStopped, Truthful, Counted, Role

LEMMA StoppedKeeps ==
  ASSUME NEW x, NodeInv(x), x.thread # "none"
  PROVE  NodeInv(Stopped(x))
  <1>1. Stopped(x) = Exited(x, "STOPPED")
    BY DEF Stopped, NodeInv, NodeState, Truthful, Role
  <1> QED BY <1>1, ExitedKeeps

\* The configuration comes from another node, or from the shell.
LEMMA SyncedKeeps ==
  ASSUME NEW x, NodeInv(x), NEW s \in Settings
  PROVE  NodeInv(Synced(x, s)) /\ NodeInv(Configured(x, s))
  <1>1. NodeInv(Synced(x, s))
    BY CountType DEF NodeInv, NodeState, Synced, CanBeStopped, Truthful, Counted, Says
  <1>2. CASE s.size = x.setting.size /\ s.payload = x.setting.payload
    <2>1. Count(s) = Count(x.setting)
      BY <1>2 DEF Count
    <2>2. Configured(x, s) = [x EXCEPT !.setting = s]
      BY <1>2 DEF Configured
    <2> DEFINE y == [x EXCEPT !.setting = s]
    <2>3. y \in NodeState /\ y.setting = s /\ y.count = x.count /\ y.thread = x.thread
      BY DEF NodeInv, NodeState
    <2>4. Counted(y)
      BY <2>1, <2>3 DEF Counted, NodeInv
    <2>5. CanBeStopped(y) /\ Truthful(y) /\ ~y.clash /\ y.servers = {y.thread} \ {"none"}
      BY DEF NodeInv, NodeState, CanBeStopped, Truthful, Says
    <2> HIDE DEF y
    <2>6. NodeInv(y)
      BY <2>3, <2>4, <2>5 DEF NodeInv
    <2> QED BY <1>1, <2>2, <2>6 DEF y
  <1>3. CASE ~(s.size = x.setting.size /\ s.payload = x.setting.payload)
    BY <1>1, <1>3 DEF Configured
  <1> QED BY <1>2, <1>3

\* A command has one step less ahead, unless that step stores the pid.
LEMMA ShellStepped ==
  ASSUME NEW x, NodeInv(x), x.shell # <<>>, Head(x.shell) # Record
  PROVE  NodeInv([x EXCEPT !.shell = Tail(@)])
  <1>1. Tail(x.shell) \in Seq(ShellStep)
    BY DEF NodeInv, NodeState
  <1> QED BY <1>1 DEF NodeInv, NodeState, CanBeStopped, Truthful, Counted, Says

\* A node that has its pid stored runs and is reachable.
LEMMA RecordedKeeps ==
  ASSUME NEW x, NodeInv(x), x.shell # <<>>
  PROVE  NodeInv([x EXCEPT !.shell = Tail(@), !.running = TRUE, !.reachable = TRUE])
  <1>1. Tail(x.shell) \in Seq(ShellStep)
    BY DEF NodeInv, NodeState
  <1> QED BY <1>1 DEF NodeInv, NodeState, CanBeStopped, Truthful, Counted, Says

LEMMA ToldKeeps ==
  ASSUME NEW x, NodeInv(x), NEW m \in MsgType
  PROVE  NodeInv(Told(x, m))
  BY AppendedKeeps DEF Told

\* The shell runs when no mail waits: the thread, if there is one, is reachable,
\* and is told to stop.
LEMMA DeinitedKeeps ==
  ASSUME NEW x, NodeInv(x), ShellRuns(x), x.shell # <<>>, Head(x.shell) # Record
  PROVE  NodeInv(Deinited(x))
  <1> DEFINE y == Told(x, "STOP")
  <1>1. NodeInv(y) /\ (x.thread # "none" => Says(y, "STOP"))
    <2>1. CASE x.thread = "none"
      BY <2>1, ToldKeeps DEF MsgType
    <2>2. CASE x.thread # "none"
      <3>1. ~Says(x, "STOP")
        BY <2>2 DEF ShellRuns, Says
      <3>2. x.reachable
        BY <2>2, <3>1 DEF NodeInv, CanBeStopped
      <3> QED BY <2>2, <3>2, AppendedKeeps DEF Told, MsgType
    <2> QED BY <2>1, <2>2
  <1>2. y.thread = x.thread
    BY DEF Told, NodeInv, NodeState
  <1> HIDE DEF y
  <1>3. Deinited(x) = [y EXCEPT !.running = FALSE, !.reachable = FALSE]
    BY DEF Deinited, y
  <1>4. /\ Deinited(x) \in NodeState /\ Deinited(x).mailbox = y.mailbox
        /\ Deinited(x).thread = y.thread /\ Deinited(x).servers = y.servers
        /\ Deinited(x).clash = y.clash /\ Deinited(x).iperfState = y.iperfState
        /\ Deinited(x).count = y.count /\ Deinited(x).setting = y.setting
    BY <1>1, <1>3 DEF NodeInv, NodeState
  <1>5. CanBeStopped(Deinited(x))
    BY <1>1, <1>2, <1>4 DEF CanBeStopped, Says
  <1>6. Truthful(Deinited(x)) /\ Counted(Deinited(x))
    BY <1>1, <1>4 DEF NodeInv, Truthful, Counted
  <1> QED BY <1>1, <1>4, <1>5, <1>6 DEF NodeInv

\* A role is let in where no thread lives, for one that does is recorded, or the
\* shell is about to: no stack is used twice.
LEMMA LetInIsAlone ==
  ASSUME NEW x, NodeInv(x), ShellRuns(x), x.shell # <<>>, Head(x.shell) # Record, ~x.running
  PROVE  x.thread = "none"
  <1> SUFFICES ASSUME x.thread # "none" PROVE FALSE
    OBVIOUS
  <1>1. ~Says(x, "STOP")
    BY DEF ShellRuns, Says
  <1> QED BY <1>1 DEF NodeInv, CanBeStopped

LEMMA CreatedKeeps ==
  ASSUME NEW x, NodeInv(x), x.thread = "none", NEW r \in Role,
         NEW t \in {"off", "SEND_FILE", "SERVICE", "GARBAGE"}
  PROVE  NodeInv([Created(x, r) EXCEPT !.intervalTimer = t, !.shell = <<Record>> \o @])
  <1> DEFINE y == Created(x, r)
             z == [y EXCEPT !.intervalTimer = t, !.shell = <<Record>> \o @]
  <1>1. x.setting \in Settings /\ Count(x.setting) \in 0..CountMod - 1 /\ x.shell \in Seq(ShellStep)
    BY CountType DEF NodeInv, NodeState
  <1>2. <<>> \in Seq(MsgType) /\ r # "none" /\ x.iperfState = "STOPPED" /\ x.servers = {}
    BY DEF Role, NodeInv, NodeState, Truthful
  <1>3. /\ y \in NodeState /\ y.thread = r /\ y.servers = {r} /\ ~y.clash
        /\ y.shell = x.shell /\ y.setting = x.setting /\ y.count = Count(x.setting)
        /\ y.iperfState = IF r = "RELAYER" THEN "STOPPED" ELSE "IDLE"
    BY <1>1, <1>2 DEF Created, NodeInv, NodeState
  <1>4. Record \in ShellStep
    BY DEF Record, ShellStep
  <1>5. <<Record>> \o x.shell \in Seq(ShellStep) /\ Head(<<Record>> \o x.shell) = Record
        /\ <<Record>> \o x.shell # <<>>
    BY <1>1, <1>4
  <1> HIDE DEF y
  <1>6. z \in NodeState /\ z.shell = <<Record>> \o x.shell
    BY <1>3, <1>5 DEF NodeState
  <1>7. /\ z.thread = r /\ z.servers = {r} /\ ~z.clash /\ z.setting = x.setting
        /\ z.count = Count(x.setting) /\ z.iperfState = y.iperfState
    BY <1>3 DEF NodeState
  <1> HIDE DEF z
  <1>8. CanBeStopped(z)
    BY <1>5, <1>6 DEF CanBeStopped
  <1>9. Truthful(z) /\ Counted(z)
    BY <1>2, <1>3, <1>7 DEF Truthful, Counted, Role
  <1>10. NodeInv(z)
    BY <1>2, <1>6, <1>7, <1>8, <1>9 DEF NodeInv
  <1> QED BY <1>10 DEF z, y

\* A command is typed.
LEMMA TypedKeeps ==
  ASSUME NEW x, NodeInv(x), x.shell = <<>>, x.typed < MaxCommands, NEW steps \in Seq(ShellStep)
  PROVE  NodeInv([x EXCEPT !.shell = steps, !.typed = @ + 1]) /\ NodeInv([x EXCEPT !.typed = @ + 1])
  <1>1. x.typed + 1 \in 0..MaxCommands
    BY LifecycleAssumption DEF NodeInv, NodeState
  <1> QED BY <1>1 DEF NodeInv, NodeState, CanBeStopped, Truthful, Counted, Says

-----------------------------------------------------------------------------
(* The steps of the system.                                                  *)

\* A step that takes one node to a good state, and leaves air in its bounds.
LEMMA BecomesKeeps ==
  ASSUME IInv, NEW n \in Node, NEW y, NodeInv(y), Becomes(n, y), air' \subseteq Settings
  PROVE  IInv'
  <1>1. y \in NodeState
    BY DEF NodeInv
  <1>2. node' \in [Node -> NodeState]
    BY <1>1 DEF IInv, Becomes
  <1>3. \A k \in Node : node'[k] = IF k = n THEN y ELSE node[k]
    BY DEF IInv, Becomes
  <1>4. \A k \in Node : NodeInv(node'[k])
    BY <1>3 DEF IInv
  <1> QED BY <1>2, <1>4 DEF IInv

LEMMA InitHolds == Init => IInv
  <1> SUFFICES ASSUME Init PROVE IInv
    OBVIOUS
  <1> PICK s \in Settings : node = [n \in Node |-> Booted(s)]
    BY DEF Init
  <1>1. <<>> \in Seq(MsgType) /\ <<>> \in Seq(ShellStep) /\ 0 \in 0..CountMod - 1
        /\ 0 \in 0..MaxCommands
    BY LifecycleAssumption
  <1>2. NodeInv(Booted(s))
    BY <1>1 DEF Booted, NodeInv, NodeState, Role, CanBeStopped, Truthful, Counted
  <1>3. Booted(s) \in NodeState
    BY <1>2 DEF NodeInv
  <1>4. air \subseteq Settings
    BY DEF Init
  <1> QED BY <1>2, <1>3, <1>4 DEF IInv

LEMMA ThreadKeeps == ASSUME IInv, NEW n \in Node, Thread(n) PROVE IInv'
  <1> DEFINE x == node[n]
             Timers == {"off", "SEND_FILE", "SERVICE", "GARBAGE"}
  <1>1. NodeInv(x) /\ x \in NodeState /\ x.intervalTimer \in Timers /\ x.thread \in Role \union {"none"}
    BY DEF IInv, NodeState
  <1>2. ASSUME NEW r, NEW types, Ready(n, r, types)
        PROVE  /\ air' \subseteq Settings /\ x.thread = r /\ x.mailbox # <<>>
               /\ "STOP" \notin types => NodeInv(Taken(x))
               /\ Taken(x).thread = r /\ Taken(x).iperfState = x.iperfState
               /\ Taken(x).intervalTimer = x.intervalTimer
    BY <1>1, <1>2, TakenKeeps DEF Ready, IInv, Taken, NodeState
  <1>3. CASE SenderStarts(n)
    <2> DEFINE y == [Taken(x) EXCEPT !.iperfState = "SENDING"]
    <2>1. NodeInv(Taken(x)) /\ Taken(x).thread = "SENDER" /\ air' \subseteq Settings
      BY <1>2, <1>3 DEF SenderStarts
    <2>2. NodeInv(y)
      BY <2>1, TransferKeeps
    <2>3. NodeInv([y EXCEPT !.intervalTimer = "SEND_FILE"])
      <3> HIDE DEF y
      <3> QED BY <2>2, TimerKeeps
    <2>4. Becomes(n, [y EXCEPT !.intervalTimer = "SEND_FILE"])
      BY <1>3 DEF SenderStarts
    <2> QED BY <2>1, <2>3, <2>4, BecomesKeeps
  <1>4. CASE SenderSteps(n)
    <2>1. NodeInv(Taken(x)) /\ Taken(x).thread = "SENDER" /\ air' \subseteq Settings
      BY <1>2, <1>4 DEF SenderSteps
    <2>2. NodeInv([Taken(x) EXCEPT !.intervalTimer = "SEND_FILE"])
      BY <2>1, TimerKeeps
    <2>3. NodeInv([Taken(x) EXCEPT !.iperfState = "WAITING"])
      BY <2>1, TransferKeeps
    <2>4. NodeInv(Exited(Taken(x), "STOPPED"))
      BY <2>1, ExitedKeeps
    <2> QED BY <1>4, <2>1, <2>2, <2>3, <2>4, BecomesKeeps DEF SenderSteps
  <1>5. CASE SenderGetsPacket(n)
    <2>1. NodeInv(Taken(x)) /\ air' \subseteq Settings
      BY <1>2, <1>5 DEF SenderGetsPacket
    <2>2. \A t \in Timers : NodeInv([Taken(x) EXCEPT !.intervalTimer = t])
      BY <2>1, TimerKeeps
    <2> QED BY <1>1, <1>5, <2>1, <2>2, BecomesKeeps DEF SenderGetsPacket
  <1>6. CASE ReceiverGetsPacket(n)
    <2> DEFINE y == [Taken(x) EXCEPT !.iperfState = "RECEIVING"]
    <2>1. NodeInv(Taken(x)) /\ Taken(x).thread = "RECEIVER" /\ air' \subseteq Settings
      BY <1>2, <1>6 DEF ReceiverGetsPacket
    <2>2. NodeInv(y)
      BY <2>1, TransferKeeps
    <2>3. NodeInv([y EXCEPT !.mailbox = Append(@, "STOP")])
      <3> HIDE DEF y
      <3> QED BY <2>2, AppendedKeeps DEF MsgType
    <2>4. \/ Becomes(n, Taken(x)) \/ Becomes(n, y)
          \/ Becomes(n, [y EXCEPT !.mailbox = Append(@, "STOP")])
      BY <1>6 DEF ReceiverGetsPacket
    <2> QED BY <2>1, <2>2, <2>3, <2>4, BecomesKeeps
  <1>7. CASE ReceiverSyncs(n)
    <2>1. NodeInv(Taken(x)) /\ air' \subseteq Settings
      BY <1>2, <1>7 DEF ReceiverSyncs
    <2>2. PICK s \in air : Becomes(n, Synced(Taken(x), s))
      BY <1>7 DEF ReceiverSyncs
    <2> QED BY <2>1, <2>2, SyncedKeeps, BecomesKeeps DEF IInv
  <1>8. CASE RelayerServes(n)
    <2>1. NodeInv(Taken(x)) /\ air' \subseteq Settings
      BY <1>2, <1>8 DEF RelayerServes
    <2>2. \A t \in Timers : NodeInv([Taken(x) EXCEPT !.intervalTimer = t])
      BY <2>1, TimerKeeps
    <2> QED BY <1>1, <1>8, <2>1, <2>2, BecomesKeeps DEF RelayerServes
  <1>9. CASE ThreadStops(n)
    <2>1. x.thread # "none" /\ air' \subseteq Settings
      BY <1>2, <1>9 DEF ThreadStops, Role
    <2>2. NodeInv(Stopped(x))
      BY <1>1, <2>1, StoppedKeeps
    <2> QED BY <1>9, <2>1, <2>2, BecomesKeeps DEF ThreadStops
  <1>10. CASE ThreadIgnores(n)
    <2>1. PICK r \in Role : Ready(n, r, Foreign(r))
      BY <1>10 DEF ThreadIgnores
    <2>2. "STOP" \notin Foreign(r)
      BY DEF Foreign, Role
    <2>3. NodeInv(Taken(x)) /\ air' \subseteq Settings
      BY <1>2, <2>1, <2>2
    <2> QED BY <1>10, <2>3, BecomesKeeps DEF ThreadIgnores
  <1> QED
    BY <1>3, <1>4, <1>5, <1>6, <1>7, <1>8, <1>9, <1>10 DEF Thread

LEMMA OutsideKeeps == ASSUME IInv, NEW n \in Node, Outside(n) PROVE IInv'
  <1> DEFINE x == node[n]
  <1>1. NodeInv(x) /\ x \in NodeState /\ air \subseteq Settings
    BY DEF IInv
  <1>2. CASE TimerFires(n)
    <2> DEFINE y == [x EXCEPT !.intervalTimer = "off"]
    <2>1. NodeInv(y) /\ x.intervalTimer \in MsgType /\ air' \subseteq Settings
      BY <1>1, <1>2, TimerKeeps DEF TimerFires, NodeState, MsgType
    <2>2. NodeInv([y EXCEPT !.mailbox = Append(@, x.intervalTimer)])
      <3> HIDE DEF y
      <3> QED BY <2>1, AppendedKeeps
    <2>3. Becomes(n, y) \/ Becomes(n, [y EXCEPT !.mailbox = Append(@, x.intervalTimer)])
      <3>1. y = [y EXCEPT !.mailbox = y.mailbox] /\ y.mailbox = x.mailbox
        BY <1>1 DEF NodeState
      <3> QED BY <1>2, <3>1 DEF TimerFires, Becomes
    <2> QED BY <2>1, <2>2, <2>3, BecomesKeeps
  <1>3. CASE PacketArrives(n)
    BY <1>1, <1>3, AppendedKeeps, BecomesKeeps DEF PacketArrives, MsgType
  <1>4. CASE RequestPasses(n)
    BY <1>1, <1>4, AppendedKeeps, BecomesKeeps DEF RequestPasses, MsgType
  <1>5. CASE SyncPasses(n)
    <2>1. PICK s \in air : Becomes(n, Synced(x, s))
      BY <1>5 DEF SyncPasses
    <2>2. air' \subseteq Settings
      BY <1>1, <1>5 DEF SyncPasses
    <2> QED BY <1>1, <2>1, <2>2, SyncedKeeps, BecomesKeeps
  <1> QED
    BY <1>2, <1>3, <1>4, <1>5 DEF Outside

LEMMA ShellKeeps == ASSUME IInv, NEW n \in Node, Shell(n) PROVE IInv'
  <1> DEFINE x == node[n]
             y == [x EXCEPT !.shell = Tail(@)]
  <1>1. NodeInv(x) /\ x \in NodeState
    BY DEF IInv
  <1>2. ASSUME NEW what, what # "RECORD", Steps(n, what)
        PROVE  /\ ShellRuns(x) /\ x.shell # <<>> /\ Head(x.shell) # Record /\ air' \subseteq Settings
               /\ NodeInv(y)
    <2>1. ShellRuns(x) /\ x.shell # <<>> /\ Head(x.shell) # Record /\ air' \subseteq Settings
      BY <1>1, <1>2 DEF Steps, Record, IInv
    <2> QED BY <1>1, <2>1, ShellStepped
  <1>3. CASE ShellInit(n)
    <2>1. ShellRuns(x) /\ x.shell # <<>> /\ Head(x.shell) # Record /\ air' \subseteq Settings
          /\ NodeInv(y)
      BY <1>2, <1>3 DEF ShellInit
    <2>2. y.running = x.running /\ y.thread = x.thread /\ y.intervalTimer = x.intervalTimer
      BY <1>1 DEF NodeState
    <2>3. CASE Refused(y)
      BY <1>3, <2>1, <2>3, BecomesKeeps DEF ShellInit
    <2>4. CASE ~Refused(y)
      <3>1. y.thread = "none"
        BY <1>1, <2>1, <2>2, <2>4, LetInIsAlone DEF Refused
      <3>2. Head(x.shell) \in ShellStep /\ Head(x.shell).do = "INIT"
        <4>1. x.shell \in Seq(ShellStep)
          BY <1>1 DEF NodeState
        <4>2. Head(x.shell) \in ShellStep
          BY <2>1, <4>1
        <4> QED BY <1>3, <4>2 DEF ShellInit, Steps
      <3> DEFINE r == Head(x.shell).role
      <3>3. PICK t \in {"off", "SEND_FILE", "SERVICE", "GARBAGE"} :
              Becomes(n, [Created(y, r) EXCEPT !.intervalTimer = t, !.shell = <<Record>> \o @])
        BY <1>1, <1>3, <2>2, <2>4 DEF ShellInit, NodeState
      <3>4. r \in Role
        BY <3>2 DEF ShellStep
      <3> QED BY <2>1, <3>1, <3>3, <3>4, CreatedKeeps, BecomesKeeps
    <2> QED BY <2>3, <2>4
  <1>4. CASE ShellRecord(n)
    <2>1. x.shell # <<>> /\ air' \subseteq Settings
      BY <1>4 DEF ShellRecord, Steps, IInv
    <2> QED BY <1>1, <1>4, <2>1, RecordedKeeps, BecomesKeeps DEF ShellRecord
  <1>5. CASE ShellStart(n)
    <2>1. x.shell # <<>> /\ Head(x.shell) # Record /\ air' \subseteq Settings
      BY <1>2, <1>5 DEF ShellStart
    <2>2. NodeInv(Told(x, "START")) /\ Told(x, "START").shell = x.shell
      BY <1>1, ToldKeeps DEF Told, MsgType, NodeState
    <2>3. NodeInv([Told(x, "START") EXCEPT !.shell = Tail(@)])
      BY <2>1, <2>2, ShellStepped
    <2> QED BY <1>5, <2>1, <2>3, BecomesKeeps DEF ShellStart
  <1>6. CASE ShellDeinit(n)
    <2>1. ShellRuns(x) /\ x.shell # <<>> /\ Head(x.shell) # Record /\ air' \subseteq Settings
      BY <1>2, <1>6 DEF ShellDeinit
    <2>2. NodeInv(Deinited(x)) /\ Deinited(x).shell = x.shell
      BY <1>1, <2>1, DeinitedKeeps DEF Deinited, Told, NodeState
    <2>3. NodeInv([Deinited(x) EXCEPT !.shell = Tail(@)])
      BY <2>1, <2>2, ShellStepped
    <2> QED BY <1>6, <2>1, <2>3, BecomesKeeps DEF ShellDeinit
  <1> QED BY <1>3, <1>4, <1>5, <1>6 DEF Shell

LEMMA CommandsKeep == ASSUME IInv, NEW n \in Node, Commands(n) PROVE IInv'
  <1> DEFINE x == node[n]
  <1>1. NodeInv(x) /\ x \in NodeState /\ air \subseteq Settings
    BY DEF IInv
  <1>2. ASSUME NEW steps \in Seq(ShellStep), Type(n, steps) PROVE IInv'
    BY <1>1, <1>2, TypedKeeps, BecomesKeeps DEF Type
  <1>3. /\ Start \in ShellStep /\ Deinit \in ShellStep
        /\ \A r \in Role : Init_(r) \in ShellStep
    BY DEF Start, Deinit, Init_, ShellStep
  <1>4. ASSUME NEW r \in Role, TypeRole(n, r) PROVE IInv'
    <2>1. <<Init_(r)>> \in Seq(ShellStep)
      BY <1>3
    <2> QED BY <1>2, <1>4, <2>1 DEF TypeRole
  <1>5. CASE TypeSenderStart(n)
    <2>1. <<Init_("SENDER"), Start>> \in Seq(ShellStep)
      BY <1>3 DEF Role
    <2> QED BY <1>2, <1>5, <2>1 DEF TypeSenderStart
  <1>6. CASE TypeStart(n)
    <2>1. <<Start>> \in Seq(ShellStep)
      BY <1>3
    <2> QED BY <1>2, <1>6, <2>1 DEF TypeStart
  <1>7. CASE TypeStop(n)
    <2>1. <<Deinit>> \in Seq(ShellStep)
      BY <1>3
    <2> QED BY <1>2, <1>7, <2>1 DEF TypeStop
  <1>8. CASE TypeRestart(n)
    <2>1. x.role \in Role
      BY <1>1 DEF NodeState
    <2>2. <<Deinit, Init_(x.role)>> \in Seq(ShellStep)
      BY <1>3, <2>1
    <2> QED BY <1>2, <1>8, <2>2 DEF TypeRestart
  <1>9. ASSUME NEW s \in Settings, NEW sync \in BOOLEAN, TypeConfig(n, s, sync) PROVE IInv'
    <2> DEFINE y == Configured(x, s)
    <2>1. NodeInv(y) /\ y.shell = <<>> /\ y.typed < MaxCommands
      BY <1>1, <1>9, SyncedKeeps DEF TypeConfig, Configured, Synced, NodeState
    <2>2. NodeInv([y EXCEPT !.typed = @ + 1])
      <3>1. <<>> \in Seq(ShellStep)
        OBVIOUS
      <3> HIDE DEF y
      <3> QED BY <2>1, <3>1, TypedKeeps
    <2>3. Becomes(n, [y EXCEPT !.typed = @ + 1]) /\ air' \subseteq Settings
      BY <1>1, <1>9 DEF TypeConfig
    <2> QED BY <2>2, <2>3, BecomesKeeps
  <1>10. CASE TypeSync(n)
    <2>1. <<>> \in Seq(ShellStep) /\ x.setting \in Settings
      BY <1>1 DEF NodeState
    <2>2. NodeInv([x EXCEPT !.typed = @ + 1])
      BY <1>1, <1>10, <2>1, TypedKeeps DEF TypeSync
    <2>3. Becomes(n, [x EXCEPT !.typed = @ + 1]) /\ air' \subseteq Settings
      BY <1>1, <1>10, <2>1 DEF TypeSync
    <2> QED BY <2>2, <2>3, BecomesKeeps
  <1> QED
    BY <1>4, <1>5, <1>6, <1>7, <1>8, <1>9, <1>10 DEF Commands

LEMMA StepKeeps == IInv /\ [Next]_vars => IInv'
  <1> SUFFICES ASSUME IInv, [Next]_vars PROVE IInv'
    OBVIOUS
  <1>1. CASE UNCHANGED vars
    BY <1>1 DEF vars, IInv, NodeInv
  <1>2. CASE Next
    BY <1>2, ThreadKeeps, OutsideKeeps, ShellKeeps, CommandsKeep DEF Next
  <1> QED BY <1>1, <1>2

THEOREM Invariant == Spec => []IInv
  BY InitHolds, StepKeeps, PTL DEF Spec

-----------------------------------------------------------------------------
(* The properties of Lifecycle.                                              *)

\* Every node keeps its types, the count of packets its 16 bits (iperf.c:418).
THEOREM TypeCorrect == Spec => []TypeOK
  <1>1. IInv => TypeOK
    BY DEF IInv, TypeOK
  <1> QED BY <1>1, Invariant, PTL

\* Two threads never share the one static stack, whatever is typed and whenever
\* a role stops by itself (iperf.c:49, 567-605).
THEOREM StackHasOneThread == Spec => []OneThread
  <1>1. IInv => OneThread
    BY DEF IInv, NodeInv, OneThread
  <1> QED BY <1>1, Invariant, PTL

\* The thread that lives is reached by its packets, and by a stop unless it is
\* being stopped or about to be recorded (iperf.c:539-565, 603, 607-616).
THEOREM LivingIsReached == Spec => []ThreadIsReached
  <1>1. IInv => ThreadIsReached
    BY DEF IInv, NodeInv, CanBeStopped, ThreadIsReached
  <1> QED BY <1>1, Invariant, PTL

\* iperfState says whether a sender or a receiver lives, and in which transfer
\* (iperf.c:618-621, 748).
THEOREM StateIsTrue == Spec => []StateTellsTruth
  <1>1. IInv => StateTellsTruth
    BY DEF IInv, NodeInv, Truthful, StateTellsTruth
  <1> QED BY <1>1, Invariant, PTL

\* The number of packets is the one of the sizes, however they came
\* (iperf.c:418, 581, 760, 789, 810).
THEOREM CountIsOfSizes == Spec => []CountAgrees
  <1>1. IInv => CountAgrees
    BY DEF IInv, NodeInv, Counted, CountAgrees
  <1> QED BY <1>1, Invariant, PTL
=============================================================================
