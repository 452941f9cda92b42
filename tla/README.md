# TLA+ verification of the globecom25 firmware

The firmware measures in-network caching on 802.15.4 nodes. One node, the
*sender*, sends a text in numbered chunks; another, the *receiver*, collects
them and, in the mode `CACHING_BIDIRECTIONAL` (BIDIR below), asks for those it
misses; the nodes in between, the *relayers*, cache chunks that pass and answer
requests from their cache. Everything runs on RIOT, in `submodules/caching_iperf`.

This directory holds TLA+ models of the roles, of the queue they share, of one
whole transfer and of the life of a node; TLC runs that check them on small
instances; and TLAPS proofs of most of the safety properties for every size.
Paths below are relative to `src/submodules/caching_iperf/` unless they say
otherwise.

## 1. Inventory

| part | state | operations | modelled in |
|---|---|---|---|
| request queue, `simple_queue.c` | head, tail, length, ring of u16 | Init, Push, Pop, Seek, IsEnqueued, IsEmpty, IsFull | `SimpleQueue`, `BoundedFifo`, `PktReqQueue` |
| receiver, `receiver.c` | state, results, status of each chunk, file, request queue, expectation number, two timers, mailbox | PAYLOAD, PKT_RESP, CONFIG_SYNC, other packets, interest timeout, expectation timeout, STOP | `Receiver` |
| sender, `sender.c` | state, last chunk, bytes sent, request queue, one timer, mailbox | PKT_REQ, PKT_BULK_REQ, other packets, START, SEND_FILE, STOP | `Sender` |
| relayer, `relayer.c` | cache blocks, their number, index and locks, request queue (of block numbers), one timer, mailbox | interception of chunks, bulk requests, probes and CONFIG_SYNC; service of a request, probe answer, STOP | `Relayer`, `RelayerPreempt` |
| one transfer, end to end | sender, receiver, what is in the air, what relays have queued | all of the above over links that lose packets | `Transfer` |
| roles and shell, `iperf.c` | `running`, `threadPid`, `config`, the static stack, one server per role | role commands, start, stop, restart, config, CONFIG_SYNC | `Lifecycle` |
| RIOT (not in this tree) | threads, mailboxes, timers, scheduler, packet buffer | | as far as the roles use it; marked external in the map |
| automation, `tools/automator.py` | rounds, result files | | not modelled; what it relies on is in `Lifecycle` |
| `logger.c`, `message.c`, `pkt_bitmap.c`, `main.c`, throttlers, scripts | none that matters, or none used | | not modelled |

**How the parts interact.** A role is one thread with a mailbox of 32 messages
(`iperf.h:9`). Packets reach it through GNRC, which drops a packet when the
mailbox is full; timers post from their interrupt and drop as well; the shell
(`msg_send` from another thread) waits instead; and a thread that posts to itself
(`receiver.c:141`) loses the message. The shell has the lowest priority, the role
thread the next, GNRC's threads are above both. So a handler of a role thread is
never interrupted by the shell, and is interrupted by packets and timers only to
append to its mailbox, with one exception: on a relay the IPv6 thread itself runs
`Iperf_RelayerIntercept`, on the same queue, cache and locks as the relayer
thread, and nothing excludes the two. The other way round, the shell *is*
interrupted by the thread it has just created or told something, in the middle of
`Iperf_Init` and `Iperf_Deinit`.

Roles talk through packets only: PAYLOAD and PKT_RESP from the sender (or a
relay), PKT_BULK_REQ from the receiver, from which a relay strikes what it
serves; PKT_REQ, echoes and CONFIG_SYNC from the shells. The roles of one node,
one after the other, share its stack, `config`, `iperfState`, the interval timer
with its message, and the request queue.

**What is hard.** A retry that lives in a timer which each handler must set
again; steps of the sender that are one message each, so that two messages in
flight are two steps; completion decided by the equality of a counter; a queue of
block numbers whose blocks change under it; locks set in one thread and lifted in
another; a ring buffer that both write; timers that survive their thread and find
its successor under the same pid; a thread that stops by itself while the shell
believes it runs; bounded mailboxes and queues whose overflow nobody notices.
`PROJECT.json` lists these under `hazards`, each at its line, with the properties
that watch it.

**What makes each part correct.**
- queue: a FIFO, whatever the sequence of calls, with refusals when full or empty;
- receiver: a missing chunk is asked for until it comes; it stops by itself with
  the whole file and only then; nothing it set outlives it;
- sender: an unfinished transfer and a queued request always have their next step
  coming; the transfer ends at the last chunk; size and count agree;
- relayer: what was taken out of a request is served, with the chunk that was
  asked for; a locked block is not overwritten; every lock is lifted; interception
  ends;
- transfer: it completes, with the whole file unless chunks were swapped or counted
  twice, and then nobody sends any more;
- node: one thread at a time, which can be stopped, gets its packets, and has a
  configuration and a state that are true.

## 2. Modules

| module | what it is |
|---|---|
| `PktReqQueue` | the queue as its users see it: operators on a bounded sequence |
| `BoundedFifo` | abstract specification of the queue, with the answer of every call |
| `SimpleQueue` | the ring buffer; refines `BoundedFifo` under `fifo <- Contents` |
| `Receiver`, `MCReceiver` | receiver role; the configurations for TLC |
| `Sender`, `MCSender` | sender role; the bulk requests for TLC |
| `Relayer`, `MCRelayer` | relayer role, handlers atomic, the search for a block turn by turn |
| `RelayerPreempt` | the service of a request taken apart at each shared access |
| `Transfer` | `Sender` and `Receiver` by INSTANCE, the air and the relays between them |
| `Lifecycle`, `MCLifecycle` | a node that changes roles; its settings for TLC |
| `SimpleQueueProofs`, `ReceiverProofs`, `SenderProofs`, `RelayerProofs`, `RelayerPreemptProofs`, `TransferProofs`, `LifecycleProofs` | theorems |
| `MailboxProofs` | lemmas about mailboxes, for receiver and sender: what waits, and how many of it |

The role modules EXTEND `PktReqQueue` and use the queue as a FIFO, which the
refinement of `SimpleQueue` justifies. `RelayerPreempt` uses the ring buffer's own
fields instead, since the FIFO does not hold up when calls overlap. `Transfer`
takes the actions of the two roles as they are. Two abstractions connect it with
the rest, and one of them is checked and proved: `EnvironmentCovered` says that `Transfer`,
seen from the receiver, is a behaviour of `Receiver`'s own specification with its
disciplined network, so that what the `Receiver` run and theorems show holds in the whole.
The other is argued only: the relays are in `Transfer` as what `Relayer` lets one do
(see below).

### State and actions against the code

*Common to the roles.* `mailbox` is the thread's message queue; `Took`/`Take`
is the receive loop; `iperfState` (`alive` in the relayer, which has no state of its
own) is the loop condition. Chunks are numbers, contents are not kept: the
receiver's `file` is the set of chunks copied. `ipcLost` is a history variable: a
timer, or the thread itself, found the mailbox full. `ShellStop` is
`Iperf_Deinit`, `ShellReceiver`/`ShellSender`/`ShellRelayer` are `Iperf_Init`; the
command `restart` is the two in a row. `Deliver` is a packet entering the mailbox.
A lost packet is one that is never delivered. `Listing` turns a set of numbers
into the ascending sequence in which a loop of the code visits them.

*Receiver.* `HandlePayload` is the whole of `receiver.c:165-255`: the first packet
resets the results, then one of the three branches (in order, duplicate, after a
gap), the tally, and the check for completion with the STOP the thread sends to
itself. `Counted` is the bookkeeping that in-order chunks, chunks after a gap and
answers share. `Restarted` is a timer that is set again; when it fires is left open.
`asked` and `nextPayload` belong to the network: with `Disciplined` it delivers
payloads in increasing order, answers nothing before the receiver has asked for
something (an answer may come twice, and may be any chunk, for a relay may have swapped
it), and a CONFIG_SYNC repeats the configuration in force; without, anything goes.

*Sender.* One `SEND_FILE` message is one packet (`HandleSendFile`,
`sender.c:170-242`). The timer is `off`, `armed` with `delayUs`, or `now` (delay 0,
after START). `Done` is `isTransferDone`: a set of possible verdicts, since in mode
TIMED the time may be up at any step. `numSent` counts packets in place of bytes and
only in mode SIZE, the one that reads it; `SizePkts` is `transferSizeBytes` divided
by the payload, rounded up, hence `NumPkts` or one more.

*Relayer.* `InterceptBulkReq` is `relayer.c:273-347`; `InterceptChunk`,
`SearchTurn` and `SearchDone` are `cache()`, one step per turn of its loop.
A coin that decides against caching is a step that changes nothing and is left
out. `Configured` is a change of `numCacheBlocks`, by the shell or by a CONFIG_SYNC
that passes: the blocks, locks and the service queue stay, and `cacheIdx` may be
outside the new range. `promised` is a history variable, the chunk for which each
entry of the queue was made; `refused` notes that a push found the queue full. The
message of `relayer.c:215-217` lives on the stack of a scope that has ended:
`HandleRespond`, whose callee has a buffer of its own, and a new thread on the same
stack may turn it into one nobody knows (`GARBAGE`).

*RelayerPreempt.* `PopRead`, `PopStore`, `PopAdvance`, `Send` are the
accesses of `simple_queue.c:47-53` and `relayer.c:101,213`; `currLen--` is a load
(in `PopRead`) and a store. `InterceptChunk` and `InterceptHit` run between any two
of them, from beginning to end, since the IPv6 thread has the higher priority.
`raced` is a history variable: a push fell between the load and the store. `repeated`
is another: the blocks that were hit again while they were locked. The first answer to
such a block unlocks it for all that name it, so that it may be overwritten while
another entry for it has been popped; `LockedUntilUnlock` is about the other blocks, and
`RelayerSwap` shows what becomes of these.

*Transfer.* `SenderStep` and `ReceiverStep` are the threads of the two modules;
what they send goes into the air (`down`, `up`) or is lost. `RequestArrives` is a
request on its way: the relays may strike any chunk that the sender has sent already
(only such a chunk can be in a cache), and pass on the rest unless nothing is left (so a
list that reaches the sender has an entry, `Bulks`). What they queue is the number of a
block (`relayer.c:309`); the model keeps, for each entry, the chunk that block held
then (`relayQueue`), and how many entries from the head on are alone in naming their block
(`sole`). Such an entry is answered with its chunk (`RelayAnswers`): the hit locked the
block (`relayer.c:308`), only an answer to the same block lifts the lock
(`relayer.c:101`), none is queued before it, and a locked block is not overwritten, which
`LockedIsKept` and `PromiseKept` check and prove of `Relayer`. A relay that is interrupted
in the middle of a service has popped its entry, and until it unlocks the block
`LockedUntilUnlock` says the same; a request that arrives there counts
as one that arrives before that answer, and its entry as one that shares the block. Two
entries share a block only if they name the same chunk, for while the first waits its block
holds that chunk; so entries that are distinct from all
before them are alone (`Distinct`). Behind one that is not, nothing is known: any of
these may be answered with any chunk that was sent (`RelaySwaps`), and `swapped`
remembers that one was. One queue stands for the relays of the path: that two of them may
answer in another order than they were asked is left out.

These relays are not stopped in the middle of a transfer, no chunk of theirs hangs in
`cache()` (`RelayerSearch` shows that it may), and they refuse a hit only where `QueueLen`
says so (`EnqueueAll`, `relayer.c:309`). `TransferCompletes` depends on the first two: a
relay that hangs forwards nothing, and no transfer through it ends. It is checked where
no push is refused.

In place of clocks there are two rules about pace: a timer that calls for a packet waits
while `MaxInFlight` are in the air, and the expectation timer does not run out before
`Steps` packets of the sender have gone since it was set, or the sender rests. `Steps` is
`expectationDelayUs` / `delayUs`: 3 with the firmware's defaults of 250 and 70 ms
(`iperf.c:31-33`), 5 to 50 at the 50 to 5 ms at which the experiments send
(`tools/automator.py:250, 373`). `lost` counts the packets of the sender that were lost since a
payload of it got through; `MaxLost` bounds it as long as there are payloads to send, and
in the whole transfer any number may be lost.

*Lifecycle.* A node is a record of what `iperf.c` keeps and of its one thread. Of a
role's work there is what its life depends on: when it changes `iperfState`, sets the
interval timer, leaves its loop. A shell command is a list of steps (`shell`), for
the new thread runs before `thread_create` returns: `ShellInit` ends with the thread
created, `ShellRecord` stores its pid and sets `running`. `Told` is a `msg_send` to
`threadPid`, which does nothing when that is undefined or nobody's. The settings are
[bidir, size, payload], from which `Count` makes the number of packets, in 16 bits
(`CountMod`); `air` holds the settings that CONFIG_SYNCs have carried, which may
arrive, or pass, at any later time.

## 3. Runs

The runs of single parts check for deadlock; none has one. `Transfer` and `TransferLive`
end with their transfer and `Lifecycle` with the last command, and these do not.

| run | size | what it shows |
|---|---|---|
| `SimpleQueue` | ring of 3, numbers 0-2 | the indices stay in step with the length (`RingInv`); every call answers as the bounded FIFO would (`ImplementsFifo`) |
| `Receiver` | 3 chunks, queue of 2, BIDIR and not, disciplined network, fair | no message lost (`MailboxSuffices`), no step ends the retry (`RetryArmed`), queued requests never die, a stopped thread leaves no timer; a complete file stops the thread (`AllReceivedStops`), what is marked received is in the file, without requests the count is exact, a missing chunk is asked for until it comes (`MissingIsRequested`) |
| `Sender` | 3 chunks, size 4 packets, all modes, 5 inputs, fair | the next step is always scheduled, BIDIR stops at its last chunk, SIZE with its last packet, transfers end, requests are answered, a sender that was not started falls silent (`IdleFallsSilent`) |
| `Relayer` | 3 blocks of which 2 or 3 are configured, 2 chunks, queue of 3, 3 inputs, probes, fair | locks are lifted, locked blocks keep their chunk, an entry alone on its block keeps its chunk (`PromiseKept`); until a push is refused, every entry of a request goes on, is bad or is queued; what is queued is sent, if no probe comes and the search ends (`QueuedIsServed`). A relay whose thread has stopped still strikes the hits it queues, and only its successor serves them, if any |
| `RelayerPreempt` | 2 blocks, ring of 4 | the length never exceeds what is in the ring (`NeverPopsTwice`) and falls short only after a push in the middle of the decrement (`ExactUnlessRaced`); a popped block that one request named keeps its chunk until unlocked |
| `Transfer` | 3 chunks, one packet lost between two payloads, 2 answered by relays, `Steps` 4 | it is an environment as `Receiver` assumes it, swapped answers included (`EnvironmentCovered`); with none swapped, a receiver that stops has the whole file (`CompleteIsTrue`) |
| `TransferLive` | 2 chunks, otherwise as `Transfer`, queues with room, fair | a transfer completes (`TransferCompletes`), and then the air falls silent for good (`FallsSilent`), swapped answers or not |
| `Lifecycle` | 1 node, 4 commands, 3 settings of which one wraps, fair | one thread on the stack (`OneThread`), its server and no other registered and its pid known to the shell, so that packets and a stop reach it (`ThreadIsReached`); `iperfState` tells the truth, the number of packets is that of the sizes; restart brings a thread back, also after one that stopped by itself (`RestartRevives`) |

Four runs state what a comment or a message of the code says and TLC finds
violated; `findings` in `PROJECT.json` quotes the lines.

| run | property | what happens |
|---|---|---|
| `ReceiverComplete` | `CompleteMeansAll` | payload 0 comes, two time-outs put the expectation ahead of the sender, chunk 1 is asked for and answered; then payload 1 comes in order and is counted again, and the receiver reports a complete transfer without chunk 2. Each relay here answers with what it was asked for |
| `SenderRunaway` | `NeverPastEnd` | one START; a request that is handled while a SEND_FILE waits arms the timer again. The first SEND_FILE answers it and arms the timer, the second sends the last chunk and rests, but the timer is still armed and its step sends the next chunk; the equality of `sender.c:64` is never true again |
| `RelayerSearch` | `SearchEnds` | with the current block locked and two others free, the loop moves the index it compares with and never ends |
| `RelayerSwap` | `ServesWhatWasAsked` | a block hit by two requests is unlocked by the first answer, overwritten, and the second answer is another chunk |

`ReceiverComplete` and `Transfer!CompleteIsTrue` do not contradict each other. The
first has a network that may delay a payload past the expectation timer, so that a
chunk is asked for before its payload has come. In `Transfer` that does not
happen while the expectation timer outlasts the packets in the air and those lost in a row
(section 4 has the bound). The defaults, `Steps` 3 with one packet in the air, leave room
for no loss; at the pace of the experiments it is two losses in a row (50 ms) and more.
Far beyond the bound the premise is gone, and TLC finds `CompleteIsTrue` violated: with
four chunks, `Steps` = 1, two packets in the air and two lost. Nor does the argument cover
a transfer in which a relay has swapped a chunk: that is an answer nobody asked for, which
may come before the payload that shows its gap. With three chunks TLC finds no violation
there either.

### Bounds, and why they are enough

- *Chunks.* The receiver's decisions compare a chunk with the last one and with
  the last but one expected; three chunks give a gap of one and of two, a gap at
  the start, an answer on either side of it. The sender needs three: with two, two
  START commands already suffice to run past the end; `SenderRunaway` types one and
  lets a request do it.
- *Mailbox.* The firmware's 32 is scaled with the packets that can wait.
  The packet buffer (512 bytes by default) holds about five packets, since a packet
  occupies it until it is handled (`iperf.c:535`); `PktSlots` is that number and is 1
  in the runs. The receiver then needs `2 * PktSlots + 3 * MaxPending + 1` messages:
  each packet and each expectation timeout may leave a STOP, two timers, and one STOP
  of the shell; the runs use exactly the 6 this makes. The sender needs
  `PktSlots + MaxPending + 3` and gets exactly 5. Both are far below 32 for five packets,
  and both are proved enough (`MailboxIsEnough`). With one place fewer for the sender TLC
  finds a lost message.
- *Queue.* The receiver's queue of 2, below its three chunks, and the sender's and the relayer's of 3 are
  full at times, so that refusals happen. In the relay `refused`
  marks the behaviours after one: the lock of a refused block stays for good and its
  request is gone, which is the case the properties exclude and the
  hazard at `relayer.c:307` describes. 256 entries make it rare, not impossible.
- *MaxPending.* A timer that is re-armed with its full delay finds its last message
  handled; so at most one message of a timer waits. This is an assumption about
  speed: `delayUs` is 70 ms, the interest delay 100 ms and the expectation delay
  250 ms (`iperf.c:31-33`), against a handler of a few. `SenderRunaway` lifts it to two,
  which a shorter `delayUs` or a slow log on the serial line brings about.
- *Inputs.* In `Sender` and `Relayer` the packets, commands and configurations of a
  behaviour are counted and bounded (`MaxInputs`); stops and restarts are not.
- *Probes.* They pass in `Relayer`. A probe may spoil the message of the service timer, for the
  reason given at `relayer.c:215` under `hazards`, and the search need not end
  (`RelayerSearch`); `QueuedIsServed` is about the behaviours without either and says so
  in its premise.
- *RelayerPreempt.* The search among several free blocks and the full queue are
  left to `Relayer`; `MaxQueued` and `MaxMail` bound what the requests pile up.
- *Transfer.* With a loss between any two payloads, a payload and the answer that replaces
  it may be lost, a request and its repetition, and every other payload; at the end of
  the file anything. Two relayed answers are what a swap takes (one to unlock the block, one
  that finds it overwritten), and they meet requests that are split between relay and
  sender. `Steps` 4 is the smallest that one loss allows (section 4), and the queue of 2 is
  full at times. `TransferLive` has two chunks, for the liveness of three is
  beyond the memory of TLC; its queue of 4 is not full, since a transfer in which the
  hits of relays are refused for ever has no reason to end.
- *Lifecycle.* Four commands are a role, a start, a restart or stop, and one more, with
  configurations in between; the mailbox of three takes a packet, a timer and the
  shell's message. Nodes meet only in `air`, into which one node's own shell may put
  any of the settings, so one node meets all that several could send it.

### Fairness

Weak fairness of a role's thread: RIOT runs the highest thread that is ready, and a
role thread competes only with GNRC, which is idle between packets. Weak fairness
of a timer that is set: ztimer fires. The relayer thread gets strong fairness,
because the IPv6 thread may take the processor again and again, but each of its
steps ends when packets pause, and the search of `cache()`, the one loop, gets weak
fairness of its own. In the single roles nothing is assumed of the network, the
shell, or of anything that would make a chunk arrive. In `TransferLive` what is in the air
arrives, a relay serves what it queued, and a packet that is sent again and again gets into
the air: `SenderStep` and `ReceiverStep` are strongly fair for the steps that put one
there, since no link loses for ever. Nobody is made to start. In `Lifecycle` the shell gets
strong fairness, since it runs only while the thread waits, and `RestartRevives` says itself what else it
needs: `KeepsUp`, that the mailbox is empty again and again, is its premise,
for a board that never gets through its packets never runs its shell.

## 4. Proofs

All are checked by TLAPS, for every value of the constants that the ASSUMEs of the
modules allow. TLC evaluates those assumptions in the runs.

- **Queue** (`SimpleQueueProofs`). `RingConsistent`: types and `RingInv`. `RefinesFifo`:
  the ring buffer implements `BoundedFifo`. `RingInv` is what makes the argument
  work: it places the tail, so that a push appends to `Contents` and a pop
  removes its head; lemmas about the remainder modulo the size say that distinct
  places in the queue are distinct slots and that the walk of `IsEnqueued` visits
  exactly the contents, or nothing when the queue is full.
- **Receiver on any network** (`ReceiverProofs`). `TypeCorrect`, by one lemma per
  handler, is inductive as it stands. `QueuedIsScheduled` is inductive relative
  to it; its steps rest on `MailboxProofs`: a message waits until a handler of
  its type takes it. `StoppedStaysQuiet` is inductive by itself. `RetryNeverDies` is the
  action property `RetryArmed`: no step takes an open BIDIR transfer from a state with
  its retry ahead to one without. Its one exception is written into it: a CONFIG_SYNC
  that switches an open transfer to BIDIR sets no timer.
- **Receiver on a disciplined network** (`ReceiverProofs`; these theorems assume
  `Disciplined`). The bridge is `NetInv`: the payloads in the mailbox ascend, lie
  above the last one handled and below `nextPayload`, a CONFIG_SYNC that waits is
  the configuration in force, and no answer comes before something was asked for. With it
  `MarkedIsCopied` (a payload below the last one would be marked without being copied, and
  there is none), `CompleteStops` (the counter is at least the number of chunks marked, so
  it passes the number of chunks no later than they do, and each handler looks), and
  `PlainCountExact` (without requests nothing is asked for, nothing answered, and
  nothing counted twice: `PlainInv`). They hold whatever chunks the answers are. Here the
  retry needs no exception: `RetryStaysAhead`, an invariant, is what the transfer uses.
- **The receiver's mailbox** (`MailboxIsEnough`, any network). `RoomInv` bounds how
  many messages of each type wait, with the counts of `MailboxProofs` (`NumIn`). The
  STOPs are the difficulty: packets come as often as they like and each handler may
  post one. What stands behind a STOP is never handled, though, so `StopsWithin` counts
  the STOPs together with the messages ahead of one that may still post another
  (`Posters`): with a STOP in the mailbox they are at most `PktSlots + MaxPending`,
  and one more once the shell has stopped the role.
- **Sender** (`SenderProofs`). `TransferTicks` and `RequestTicks` follow from one
  invariant, `WorkInv`: as long as a transfer is open or a request queued,
  the timer is set or SEND_FILE waits. They are proved together because a sending step
  that ends a transfer must leave no request behind (`SendFileArms`: in BIDIR
  a transfer is done only with an empty queue). `SizeReached` needs, beyond the
  property, that a STOP waits only after the shell has cleared `running` and that
  mode SIZE never waits for interests (`SizeInv`). `TypeCorrect` rests on the length
  of what a bulk request pushes.
- **The sender's mailbox and its end** (`SenderProofs`). `MailboxIsEnough` counts as the
  receiver's does; a START resets the timer without taking the step that waits, so
  `RoomInv` also says how many steps can wait behind it. `FileIsTheEnd` is about
  several steps that come at once: `Excess` is the number of them beyond one, and `PaceInv` says
  that the queue and the payloads left (`Budget`) are always more than that, so that
  the equality of `sender.c:64` is met. It assumes `Paced`: at most one message of the
  timer waits, an assumption about speed that `SenderRunaway` lifts to show the
  property fail; the file and the queue hold three or more, for up to two steps may be
  in excess; and a bulk request asks for something, for an empty one arms the
  timer with nothing to do for it. The receiver sends none such (`receiver.c:368-389`).
  Both, and the `WorkInv` above, are proved of `FreeNext`, which leaves out the bound
  `MaxInputs` on what the environment does, so that the transfer can use them.
- **Relayer** (`RelayerProofs`). `NoLockForever`, `NoEmptyBlockSent`, `OwnBlockKept` and
  `TypeCorrect` are together inductive (`CacheInv`); `LockHolds` follows from it as an
  action property. The step that matters is a bulk request: `RequestEffect` states
  what it leaves, whatever the list: some prefix of its hits is pushed, each with its
  block locked and holding the chunk. `QueuedIsScheduled` (of `ServiceScheduled`) assumes `~Probes` and room for
  three messages; its invariant (`ServiceInv`) counts that at most one STOP and
  one unknown message wait, so that a SERVICE the timer posts finds room.
  `NoneSwallowed` is the other half of `RequestEffect`: with no push refused the prefix is
  all of the hits (`HitsCovered`), and what is not a hit goes on.
- **Relayer, preempted** (`RelayerPreemptProofs`). `NothingPoppedTwice` and
  `LostOnlyByRace` from `RingInv`: what the thread has loaded is at most the length,
  which a push only raises, and the length, plus one while a pop has written one index
  and not the other, is at most the distance between the indices, with equality until
  a race. `PoppedIsKept` is about the block that was popped, unless it is in `repeated`:
  `LockInv` says that such a block is locked from the hit on and that no other slot between
  the indices names it, so that only its own answer lifts the lock; and a locked block is
  passed over by `InterceptChunk`. `TypeCorrect` besides.
- **Transfer** (`TransferProofs`). `NetworkIsAsAssumed` is the refinement: every step of
  the transfer is one of the receiver's own specification, with its disciplined network,
  or leaves it alone. It needs `AirInv`: whatever asks for a chunk, in the air, at a relay, in the sender's mailbox or queue, names a chunk that
  the receiver asked for, and an answer is there only when it has asked for something, and is
  one of these chunks until a relay has swapped one (`RequestsInv`, `Answerable`); the
  payloads in the air ascend, from what was delivered to what was sent (`PayloadsInv`); and
  the sender is started once, with nothing in the air (`FreshInv`). The theorems of the two roles
  then hold of the transfer: `RP` and `SP` are instances of their proof modules, whose assumptions are proved here
  (`ReceiverConstants`, `SenderConstants`). The receiver's hold because the transfer
  implements its specification (`ReceiverHolds`, `ReceiverHasRoom`), the sender's because
  each step of the transfer is one of its `FreeNext` or a stutter (`StepIsSenders`; its
  `Spec` would count inputs): `SenderHolds`, `SenderHasRoom`, and `FileIsTheEnd`, where
  that no request is empty is no assumption any more.
- **The whole file** (`WholeFile`, in the second half of `TransferProofs`): a receiver that
  stopped by itself has every chunk. It stops when its counter of unique chunks
  reaches the number of chunks; so no chunk may be counted that is not new. An
  answered chunk whose payload comes later is counted twice, which
  `ReceiverComplete` shows, so the receiver must never ask for a chunk
  that the sender has still to send. `Whole` is the inductive invariant, the
  conjunction of what the earlier theorems give (`Known`), of `IdleInv` and `SenderInv` (what
  has not begun has left no trace; the sender does not stop, and one step of its timer
  waits at most), and, until a relay has swapped a chunk (which is remembered:
  `SwapIsRemembered`), of these parts:
  - `OrderInv`: what is asked for, or waits to be, does not run ahead of the payloads: it
    is below one that came or comes, or the sender has sent them all (`Due`); and an
    answer never overtakes a payload that is as late. So no payload is a duplicate.
  - `MarkInv`: the counter is exactly the number of chunks marked, and a STOP waits only
    when that is all of them. With `MarkedIsCopied` the file follows.
  - `PaceInv`, the reason for `OrderInv`: while the sender is sending, the receiver expects
    at most one chunk that neither came nor comes; and if it expects one, then every packet
    that was sent since its timer was set and that neither came nor comes has been lost
    since the last payload that got through. To expect a second one it would have to time out
    again, with `Steps` packets sent, of which no more than `MaxInFlight` are on their way
    and no more than `MaxLost` lost. Three quantities are left open and
    quantified: the chunk the expectation is measured from, how many of the packets in the
    air were sent after the timer was set, and where the receiver will be when a
    waiting time-out is handled.

  It assumes a file and a queue of three or more and five places in the mailboxes, as
  `FileIsTheEnd` and `SenderHasRoom` do, and `MaxInFlight` + `MaxLost` + 1 < `Steps`: the
  expectation timer outlasts the packets that may be in the air and those that may be lost
  between two payloads that are not. `MaxLost` is not a bound on the losses of a
  transfer; each payload that gets through starts it anew. With one packet in the air this is
  no loss at the firmware's default pace (`Steps` 3), and two in a row at 50 ms, 22 at 10 ms
  (`tools/automator.py:395`). The bound suffices and is not the weakest: with four chunks and one
  packet in the air TLC finds no violation at `Steps` 2 and one loss, nor at `Steps` 3 and two.
- **After the transfer** (`SilenceLasts`): once the receiver has stopped and nothing is
  under way, no timer and no retry of either end sends anything again. This is the half of
  `FallsSilent` that is about safety; that silence comes is liveness.
- **Node** (`LifecycleProofs`). `NodeInv` is the conjunction of the run's four invariants and the types, for a
  single node. It is inductive as it stands, since none of them is without the others: a
  thread is not created over a living one because `running` covers it, or its STOP has
  been sent, which it handles before the shell goes on, or the shell is about to store
  its pid, and then types nothing. `StackHasOneThread`, `LivingIsReached`,
  `StateIsTrue`, `CountIsOfSizes`, `TypeCorrect` are its parts.

The queues, mailboxes, caches and files are of any length in these
theorems, so that the bounds of the runs do not matter for them. `MaxInputs`,
`MaxCommands` and `MaxRelayed` carry none of the arguments, `MaxLost`, `Steps` and
`MaxInFlight` that of `WholeFile` alone. `PktSlots` and `MaxPending` appear in the two `MailboxIsEnough`, whose
bound is made of them, and `MaxPending` in `FileIsTheEnd`; the others hold for all values.

**Only model-checked:** liveness (`MissingIsRequested`, `TransferEnds`,
`RequestAnswered`, `IdleFallsSilent`, `QueuedIsServed`,
`TransferCompletes`, `FallsSilent`, `RestartRevives`), which TLAPS does not
reach. Every invariant and every action property of a passing run is a theorem.

**Only proved:** the types of `SimpleQueue` (part of `RingConsistent`), `RelayerPreempt`
and `Lifecycle`, `Relayer!QueuedIsFilled` (`NoEmptyBlockSent`) and `Relayer!ServiceScheduled`
(`QueuedIsScheduled`); no run lists them. `Receiver` is run on the disciplined network only;
that `MailboxSuffices`, `RetryArmed`, `RequestsScheduled` and `StoppedIsQuiet` hold on any other,
with packets that overtake, repeat or come from nowhere and CONFIG_SYNCs of any mode at any time, is
proved.

## 5. What is not modelled

- Contents, offsets and lengths of chunks; time stamps, statistics and counters that are only
  reported (among them `pktLossCounter`, one too high for each gap).
- A new payload size at a relay with a filled cache, which moves the blocks over the
  bytes of others. Blocks have no addresses in the models. Nor is a number of blocks
  above the lock table's 16, or 0, which `iperf config` lets through.
- The copy of a cache block into a packet after its unlocking (`relayer.c:101-102`) is one step.
- In `Transfer`: relays that are stopped, restarted or reconfigured in the middle of a transfer,
  that hang in `cache()`, or that answer probes.
- At the receiver: a PAYLOAD that another overtakes. Some theorems are about any
  network (section 4), but those of the count and of the file are about one that keeps their order.
- The shell's own resets (`iperf results reset`) while a transfer is on: each is a handler's
  reset at another time, in the middle of one if a packet comes.
- `IPERF_IPC_MSG_IDLE`, which nobody posts; SND, GET and SET messages, which GNRC sends to no
  role; `SimpleQueue_Deinit`, which nobody calls.
- The commands log, results, target, echo, interest and bulk; packet building, addresses
  and printing. They change nothing that the roles read, but for what arrives as a
  packet at another node, which the roles take from anywhere.
- The Python automation: sequential scripts with fixed sleeps that parse printed text.
  Build scripts, `main.c`, the throttlers (radio parameters handed to a driver, not
  initialised by `main.c`), `logger.c`, `message.c`, `pkt_bitmap.c` (unused).

## 6. Plan

Done, in this order: the queue every role stands on; the receiver, whose retry is the
heart of the protocol; the sender; the relay and its preemption; the transfer that
composes them; the life of a node; theorems about each, and from those of the roles to
those of the transfer. Left:

1. A relay with bytes in place of chunks, for a payload size that changes
   under a filled cache.
2. The parts of liveness that are safety, as `SilenceLasts` is one of `FallsSilent`.
