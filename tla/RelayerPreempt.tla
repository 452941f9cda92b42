--------------------------- MODULE RelayerPreempt ---------------------------
(***************************************************************************)
(* The relay again, with the service of a request taken apart: between any *)
(* two memory accesses of the relayer thread the IPv6 thread, of higher    *)
(* priority, may run Iperf_RelayerIntercept from beginning to end.  Both   *)
(* use pktReqQueue, cacheBuffer and cacheLock, and nothing excludes them.  *)
(*                                                                         *)
(* The queue is the ring buffer of simple_queue.c itself.  currLen-- is a  *)
(* load and a store.  Stopping the relay, probes and the search that does  *)
(* not end are left to Relayer.tla; the queue is never filled, and the     *)
(* mailbox has room for every message.                                     *)
(***************************************************************************)
EXTENDS Integers, Sequences, FiniteSets

CONSTANTS
  NumCacheBlocks,   \* config.numCacheBlocks
  Chunk,            \* the chunks of the file
  QueueLen,         \* PKT_REQ_QUEUE_LEN
  MaxQueued,        \* bound: requests between head and tail
  MaxMail,          \* bound: SERVICE messages that a request finds waiting
  None              \* an empty block

ASSUME PreemptAssumption ==
  /\ NumCacheBlocks \in Nat \ {0} /\ QueueLen \in Nat \ {0}
  /\ MaxQueued \in 0..QueueLen - 1 /\ MaxMail \in Nat
  /\ None \notin Chunk

Block == 0..NumCacheBlocks - 1
Slot == 0..QueueLen - 1

VARIABLES
  headIdx, tailIdx, currLen, buf,     \* pktReqQueue
  cacheBuffer, cacheIdx, cacheLock,
  mailbox,                            \* SERVICE messages that wait
  timer,                              \* intervalTimer is set
  pc,                                 \* where the relayer thread is
  loaded,                             \* the length currLen-- has loaded
  block,                              \* cacheIdxToSend
  raced,                              \* history: a push fell between the load
                                      \* and the store of currLen--
  repeated                            \* history: blocks that were hit while they
                                      \* were locked, until none of the requests
                                      \* for them is left

ringVars == <<headIdx, tailIdx, currLen, buf>>
cacheVars == <<cacheBuffer, cacheIdx>>
threadVars == <<pc, loaded, block>>
vars == <<ringVars, cacheVars, cacheLock, mailbox, timer, threadVars, raced, repeated>>

Init ==
  /\ headIdx = 0 /\ tailIdx = 0 /\ currLen = 0 /\ buf = [s \in Slot |-> 0]
  /\ cacheBuffer = [b \in Block |-> None] /\ cacheIdx = 0
  /\ cacheLock = [b \in Block |-> FALSE]
  /\ mailbox = 0 /\ timer = FALSE
  /\ pc = "receive" /\ loaded = 0 /\ block = 0 /\ raced = FALSE
  /\ repeated = {}

\* Elements between head and tail, as the indices see it.
Between == (tailIdx - headIdx) % QueueLen

\* The slots they are in, and the blocks they name.
Waiting == {s \in Slot : (s - headIdx) % QueueLen < Between}
Queued == {buf[s] : s \in Waiting}

-----------------------------------------------------------------------------
(* The IPv6 thread.                                                          *)

Unlocked == {b \in Block : ~cacheLock[b]}

\* cache(): the current block, or the only one unlocked, or none.  The search
\* among several does not end.
InterceptChunk(k) ==
  /\ \/ /\ Unlocked = {}
        /\ UNCHANGED cacheVars
     \/ \E b \in Unlocked :
          /\ b = cacheIdx \/ Unlocked = {b}
          /\ cacheBuffer' = [cacheBuffer EXCEPT ![b] = k]
          /\ cacheIdx' = (b + 1) % NumCacheBlocks
  /\ UNCHANGED <<ringVars, cacheLock, mailbox, timer, threadVars, raced, repeated>>

\* Mutant: a hit does not lock the block.
LockNot(b) == cacheLock

Lock(b) == [cacheLock EXCEPT ![b] = TRUE]

\* A request for k that finds it in block b.
InterceptHit(k, b) ==
  /\ Between < MaxQueued /\ mailbox < MaxMail
  /\ cacheBuffer[b] = k /\ \A c \in Block : c < b => cacheBuffer[c] # k
  /\ cacheLock' = Lock(b)
  /\ repeated' = IF cacheLock[b] THEN repeated \union {b} ELSE repeated
  /\ IF currLen = QueueLen THEN UNCHANGED ringVars
     ELSE /\ buf' = [buf EXCEPT ![tailIdx] = b]
          /\ tailIdx' = (tailIdx + 1) % QueueLen
          /\ currLen' = currLen + 1
          /\ UNCHANGED headIdx
  /\ raced' = (raced \/ pc = "store")
  /\ mailbox' = mailbox + 1
  /\ UNCHANGED <<cacheVars, timer, threadVars>>

IPv6Thread ==
  \E k \in Chunk : InterceptChunk(k) \/ \E b \in Block : InterceptHit(k, b)

-----------------------------------------------------------------------------
(* The relayer thread: one SERVICE message.                                  *)

Goto(from, to) == pc = from /\ pc' = to

Receive ==
  /\ mailbox > 0 /\ mailbox' = mailbox - 1
  /\ IF currLen = 0 THEN Goto("receive", "receive") ELSE Goto("receive", "read")
  /\ UNCHANGED <<ringVars, cacheVars, cacheLock, timer, loaded, block, raced, repeated>>

\* SimpleQueue_Pop: the element, and the length before it is written back.
PopRead ==
  /\ Goto("read", "store")
  /\ block' = buf[headIdx] /\ loaded' = currLen
  /\ UNCHANGED <<ringVars, cacheVars, cacheLock, mailbox, timer, raced, repeated>>

\* Mutant: the decrement is forgotten.
PopStoreNoDecrement ==
  /\ Goto("store", "advance")
  /\ currLen' = loaded
  /\ UNCHANGED <<headIdx, tailIdx, buf, cacheVars, cacheLock, mailbox, timer,
                 loaded, block, raced, repeated>>

PopStore ==
  /\ Goto("store", "advance")
  /\ currLen' = loaded - 1
  /\ UNCHANGED <<headIdx, tailIdx, buf, cacheVars, cacheLock, mailbox, timer,
                 loaded, block, raced, repeated>>

PopAdvance ==
  /\ Goto("advance", "send")
  /\ headIdx' = (headIdx + 1) % QueueLen
  /\ UNCHANGED <<tailIdx, currLen, buf, cacheVars, cacheLock, mailbox, timer,
                 loaded, block, raced, repeated>>

\* sendCachedPkt, whose copy of the block is one step here, and the timer for
\* what is left.
Send ==
  /\ Goto("send", "receive")
  /\ cacheLock' = [cacheLock EXCEPT ![block] = FALSE]
  /\ timer' = (timer \/ currLen # 0)
  /\ repeated' = repeated \ ({block} \ Queued)
  /\ UNCHANGED <<ringVars, cacheVars, mailbox, loaded, block, raced>>

RelayerThread == Receive \/ PopRead \/ PopStore \/ PopAdvance \/ Send

IntervalTimerFires ==
  /\ timer /\ timer' = FALSE
  /\ mailbox' = mailbox + 1
  /\ UNCHANGED <<ringVars, cacheVars, cacheLock, threadVars, raced, repeated>>

Next == IPv6Thread \/ RelayerThread \/ IntervalTimerFires

Spec == Init /\ [][Next]_vars

-----------------------------------------------------------------------------
TypeOK ==
  /\ headIdx \in Slot /\ tailIdx \in Slot /\ currLen \in 0..QueueLen
  /\ buf \in [Slot -> Block]
  /\ cacheBuffer \in [Block -> Chunk \union {None}] /\ cacheIdx \in Block
  /\ cacheLock \in [Block -> BOOLEAN]
  /\ mailbox \in 0..MaxMail + 2 /\ timer \in BOOLEAN
  /\ pc \in {"receive", "read", "store", "advance", "send"}
  /\ loaded \in 0..QueueLen /\ block \in Block /\ raced \in BOOLEAN
  /\ repeated \subseteq Block

\* The length never promises an element that is not there: a pop reads only
\* what was pushed and not popped yet, even with a push in its middle.
NeverPopsTwice == currLen <= Between

\* The push between the load and the store is the only way to lose an element
\* from the length: without it the length is what lies between the indices, but
\* for the moment in which the pop has written one and not yet the other
\* (simple_queue.c:31-37, 47-54).
ExactUnlessRaced ==
  ~raced => currLen = Between - (IF pc = "advance" THEN 1 ELSE 0)

\* The block that was popped keeps its chunk, unless it was hit again while it
\* was locked: then the first of its requests to be sent unlocks it for both.
KeepsPopped ==
  (pc \in {"store", "advance", "send"} /\ pc' = pc /\ block \notin repeated)
    => cacheBuffer'[block] = cacheBuffer[block]

\* A block that one request named is locked from the hit to the unlocking:
\* between the pop and that point it keeps its chunk, whatever passes, and
\* whichever blocks and queue places were unlocked and used again meanwhile
\* (relayer.c:101, 111-128, 213, 308-309).
LockedUntilUnlock == [][KeepsPopped]_vars
=============================================================================
