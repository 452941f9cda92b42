------------------------------ MODULE Relayer ------------------------------
(***************************************************************************)
(* submodules/caching_iperf/relayer.c: a relay that caches the chunks it   *)
(* forwards and answers requests from its cache.  Two threads share its    *)
(* state: Iperf_RelayerIntercept runs in the IPv6 thread on every packet   *)
(* that is forwarded, and the relayer thread, of lower priority, sends     *)
(* what the first has queued, one chunk per message.                       *)
(*                                                                         *)
(* Here a handler of the relayer thread is one step; RelayerPreempt.tla    *)
(* lets the IPv6 thread in between its parts.  The search of cache() for   *)
(* an unlocked block is taken step by step, for it may be a long one.      *)
(* The number of blocks may change at any time, by the shell or by a       *)
(* CONFIG_SYNC that passes; the size of a block does not.  With            *)
(* config.cache off a relay changes nothing.                               *)
(***************************************************************************)
EXTENDS PktReqQueue

CONSTANTS
  LockSize,         \* CACHE_LOCK_SIZE_MAX, the blocks there are
  CacheBlocks,      \* what config.numCacheBlocks may be set to
  Chunk,            \* the chunks of the file
  Bulks,            \* the lists of chunks a PKT_BULK_REQ may carry
  MailboxLen,       \* IPERF_MSG_QUEUE_SIZE
  Probes,           \* whether "asdqwe" packets pass
  MaxInputs,        \* bound: requests, probes and configurations in a behaviour
  Invalid,          \* SIMPLE_QUEUE_INVALID_NUMBER
  None              \* an empty block, no packet, no search

Block == 0..LockSize - 1

ASSUME RelayerAssumption ==
  /\ LockSize \in Nat \ {0}
  /\ CacheBlocks \subseteq 1..LockSize /\ CacheBlocks # {}
  /\ Invalid \notin Chunk /\ None \notin Chunk
  /\ Bulks \subseteq Seq(Chunk \union {Invalid}) /\ None \notin Seq(Chunk \union {Invalid})
  /\ MailboxLen \in Nat \ {0} /\ MaxInputs \in Nat
  /\ Probes \in BOOLEAN

VARIABLES
  alive,           \* the relayer thread is in its loop
  numCacheBlocks,
  cacheBuffer,     \* the chunk in each block
  cacheIdx, cacheLock,
  reqQueue,        \* pktReqQueue: the blocks to send
  refused,         \* history: a push found pktReqQueue full
  promised,        \* history: the chunk each entry of reqQueue was queued for
  timer,           \* intervalTimer: "off", or the message type it would post
  mailbox,
  search,          \* the loop of cache(): its index and the chunk, or None
  served,          \* the chunk the last step sent, and the one it was for
  forwarded,       \* the bulk request the last step let go, or None
  inputs

cacheVars == <<cacheBuffer, cacheIdx>>
queueVars == <<cacheLock, reqQueue, refused, promised>>
outVars == <<served, forwarded>>
vars == <<alive, numCacheBlocks, cacheVars, queueVars, timer, mailbox, search, outVars, inputs>>

-----------------------------------------------------------------------------
Pending(type) == {i \in DOMAIN mailbox : mailbox[i] = type}
Room == Len(mailbox) < MailboxLen
Quiet == served' = None /\ forwarded' = None

Init ==
  /\ alive = TRUE
  /\ numCacheBlocks \in CacheBlocks
  /\ cacheBuffer = [b \in Block |-> None] /\ cacheIdx = 0
  /\ cacheLock = [b \in Block |-> FALSE]
  /\ reqQueue = <<>> /\ refused = FALSE /\ promised = <<>>
  /\ timer = "off"
  /\ mailbox = <<>>
  /\ search = None
  /\ served = None /\ forwarded = None
  /\ inputs = 0

-----------------------------------------------------------------------------
(* The IPv6 thread: Iperf_RelayerIntercept and cache().                      *)

\* Mutant: cacheIdx does not wrap.
WriteNoWrap(b, k) ==
  /\ cacheBuffer' = [cacheBuffer EXCEPT ![b] = k]
  /\ cacheIdx' = b + 1

\* memcpy into block b, and on to the next.
Write(b, k) ==
  /\ cacheBuffer' = [cacheBuffer EXCEPT ![b] = k]
  /\ cacheIdx' = (b + 1) % numCacheBlocks

\* A chunk passes and is cached (one that the coin, or config.cache, leaves out
\* changes nothing): in the current block, or in one to be searched for.
InterceptChunk(k) ==
  /\ search = None
  /\ Quiet
  /\ UNCHANGED <<alive, numCacheBlocks, timer, mailbox, queueVars, inputs>>
  /\ IF cacheLock[cacheIdx]
     THEN /\ search' = [i |-> (cacheIdx + 1) % numCacheBlocks, chunk |-> k]
          /\ UNCHANGED cacheVars
     ELSE Write(cacheIdx, k) /\ UNCHANGED search

\* One turn of the loop: an unlocked block becomes cacheIdx, against which the
\* loop condition is then evaluated.
SearchTurn ==
  /\ search # None /\ search.i # cacheIdx
  /\ cacheIdx' = IF cacheLock[search.i] THEN cacheIdx ELSE search.i
  /\ search' = [search EXCEPT !.i = (@ + 1) % numCacheBlocks]
  /\ Quiet
  /\ UNCHANGED <<alive, numCacheBlocks, cacheBuffer, timer, mailbox, queueVars, inputs>>

\* Mutant: the lock is not looked at after the loop.
SearchDoneAnyway ==
  /\ search # None /\ search.i = cacheIdx
  /\ Write(cacheIdx, search.chunk)
  /\ search' = None
  /\ Quiet
  /\ UNCHANGED <<alive, numCacheBlocks, timer, mailbox, queueVars, inputs>>

\* The loop is left: all are locked and the chunk is dropped, or it is cached.
SearchDone ==
  /\ search # None /\ search.i = cacheIdx
  /\ IF cacheLock[cacheIdx] THEN UNCHANGED cacheVars ELSE Write(cacheIdx, search.chunk)
  /\ search' = None
  /\ Quiet
  /\ UNCHANGED <<alive, numCacheBlocks, timer, mailbox, queueVars, inputs>>

\* lookUpCachedPktPtr: the first block that holds k.
Holds(k) == {b \in Block : b < numCacheBlocks /\ cacheBuffer[b] = k}
FirstOf(S) == CHOOSE b \in S : \A c \in S : b <= c

LookUp(k) == FirstOf(Holds(k))
IsHit(k) == k # Invalid /\ Holds(k) # {}
Hits(list) == {i \in DOMAIN list : IsHit(list[i])}

\* Mutant: a request with a hit does not go on.
OnwardUntouched(rest) == IF Invalid \in Range(rest) THEN None ELSE rest

\* What is forwarded of a request: all of it, or nothing.
Onward(rest) == IF Range(rest) \subseteq {Invalid} THEN None ELSE rest

\* Entries found in the cache are struck from the request, their blocks locked
\* and queued; the request goes on only if a valid entry is left.
InterceptBulkReq(list) ==
  /\ search = None /\ inputs < MaxInputs
  /\ \E order \in Listing(Hits(list)) :
     LET hits == Picked(list, order)
         blocks == [i \in DOMAIN hits |-> LookUp(hits[i])]
         kept == EnqueueAll(reqQueue, blocks)
         rest == [i \in DOMAIN list |-> IF i \in Hits(list) THEN Invalid ELSE list[i]]
     IN /\ cacheLock' = [b \in Block |-> cacheLock[b] \/ b \in Range(blocks)]
        /\ reqQueue' = kept
        /\ refused' = (refused \/ Len(kept) < Len(reqQueue) + Len(hits))
        /\ promised' = promised \o SubSeq(hits, 1, Len(kept) - Len(reqQueue))
        /\ IF hits = <<>> THEN UNCHANGED mailbox
           ELSE /\ alive => Room
                /\ mailbox' = IF alive THEN Append(mailbox, "SERVICE") ELSE mailbox
        /\ forwarded' = Onward(rest)
  /\ served' = None
  /\ inputs' = inputs + 1
  /\ UNCHANGED <<alive, numCacheBlocks, cacheVars, timer, search>>

\* An "asdqwe" packet is answered by the relay itself.
InterceptProbe ==
  /\ search = None /\ Probes /\ inputs < MaxInputs
  /\ alive /\ Room
  /\ mailbox' = Append(mailbox, "RESPOND")
  /\ inputs' = inputs + 1
  /\ Quiet
  /\ UNCHANGED <<alive, numCacheBlocks, cacheVars, queueVars, timer, search>>

\* The shell, or a CONFIG_SYNC on its way, sets the number of blocks; cacheIdx
\* stays where it was, in or out of them.
Configured(n) ==
  /\ search = None /\ inputs < MaxInputs
  /\ numCacheBlocks' = n
  /\ inputs' = inputs + 1
  /\ Quiet
  /\ UNCHANGED <<alive, cacheVars, queueVars, timer, mailbox, search>>

IPv6Thread ==
  \/ \E k \in Chunk : InterceptChunk(k)
  \/ SearchTurn \/ SearchDone
  \/ \E list \in Bulks : InterceptBulkReq(list)
  \/ InterceptProbe
  \/ \E n \in CacheBlocks \ {numCacheBlocks} : Configured(n)

-----------------------------------------------------------------------------
(* The relayer thread.  It runs when the IPv6 thread waits for a packet.     *)

Take(type) ==
  /\ alive /\ search = None
  /\ mailbox # <<>> /\ Head(mailbox) = type
  /\ mailbox' = Tail(mailbox)
  /\ UNCHANGED <<numCacheBlocks, cacheVars, search, inputs>>

\* Mutants: the lock stays; the timer is forgotten.
UnlockNot(b) == cacheLock
NextServiceNever == timer

Unlock(b) == [cacheLock EXCEPT ![b] = FALSE]
NextService == IF Len(reqQueue) > 1 THEN "SERVICE" ELSE timer

\* The block that was queued first is unlocked and sent; while there is more,
\* the timer calls for it.  Its message lives on the stack of the loop's body.
HandleService ==
  /\ Take("SERVICE")
  /\ \/ /\ reqQueue = <<>>
        /\ served' = None
        /\ UNCHANGED <<cacheLock, reqQueue, promised, timer>>
     \/ /\ reqQueue # <<>>
        /\ LET b == Head(reqQueue)
           IN /\ cacheLock' = Unlock(b)
              /\ served' = [gave |-> cacheBuffer[b], asked |-> Head(promised), block |-> b]
        /\ reqQueue' = Tail(reqQueue) /\ promised' = Tail(promised)
        /\ timer' = NextService
  /\ UNCHANGED refused
  /\ forwarded' = None
  /\ UNCHANGED alive

\* sendPayload's buffer may take the stack slot of the message that an armed
\* timer still points at: the scope of "ipc" (line 215) has ended.
HandleRespond ==
  /\ Take("RESPOND")
  /\ timer' \in IF timer = "off" THEN {"off"} ELSE {timer, "GARBAGE"}
  /\ Quiet
  /\ UNCHANGED <<alive, queueVars>>

\* What an overwritten message may look like: none of the known types.
HandleGarbage ==
  /\ Take("GARBAGE")
  /\ Quiet
  /\ UNCHANGED <<alive, queueVars, timer>>

HandleStop ==
  /\ alive /\ search = None
  /\ mailbox # <<>> /\ Head(mailbox) = "STOP"
  /\ alive' = FALSE
  /\ mailbox' = <<>>
  /\ Quiet
  /\ UNCHANGED <<numCacheBlocks, cacheVars, queueVars, timer, search, inputs>>

RelayerThread == HandleService \/ HandleRespond \/ HandleGarbage \/ HandleStop

-----------------------------------------------------------------------------
(* The timer and the shell.                                                  *)

\* The interrupt posts what it finds in the message, if there is room.
IntervalTimerFires ==
  /\ timer # "off"
  /\ timer' = "off"
  /\ mailbox' = IF alive /\ Room THEN Append(mailbox, timer) ELSE mailbox
  /\ Quiet
  /\ UNCHANGED <<alive, numCacheBlocks, cacheVars, queueVars, search, inputs>>

\* "iperf stop": the shell has the lowest priority.
ShellStop ==
  /\ alive /\ search = None /\ Pending("STOP") = {} /\ Room
  /\ mailbox' = Append(mailbox, "STOP")
  /\ Quiet
  /\ UNCHANGED <<alive, numCacheBlocks, cacheVars, queueVars, timer, search, inputs>>

\* "iperf relayer": Iperf_Init, then initRelayer, on the same stack.  It clears
\* as many blocks as are configured; cacheIdx stays where it was.
ShellRelayer ==
  /\ ~alive /\ search = None
  /\ alive' = TRUE
  /\ cacheBuffer' = [b \in Block |-> IF b < numCacheBlocks THEN None ELSE cacheBuffer[b]]
  /\ cacheLock' = [b \in Block |-> FALSE]
  /\ reqQueue' = <<>> /\ refused' = FALSE /\ promised' = <<>>
  /\ timer' \in IF timer = "off" THEN {"off"} ELSE {timer, "GARBAGE"}
  /\ Quiet
  /\ UNCHANGED <<numCacheBlocks, cacheIdx, mailbox, search, inputs>>

Next == IPv6Thread \/ RelayerThread \/ IntervalTimerFires \/ ShellStop \/ ShellRelayer

Spec == Init /\ [][Next]_vars

\* The IPv6 thread finishes what it began, the relayer thread runs whenever it
\* has mail and the IPv6 thread waits, a timer that is set fires.
FairSpec ==
  /\ Spec
  /\ WF_vars(SearchTurn \/ SearchDone)
  /\ SF_vars(RelayerThread)
  /\ WF_vars(IntervalTimerFires)

-----------------------------------------------------------------------------
TypeOK ==
  /\ alive \in BOOLEAN /\ numCacheBlocks \in CacheBlocks
  /\ cacheBuffer \in [Block -> Chunk \union {None}]
  /\ cacheIdx \in Block
  /\ cacheLock \in [Block -> BOOLEAN]
  /\ reqQueue \in Seq(Block) /\ Len(reqQueue) <= QueueLen
  /\ refused \in BOOLEAN
  /\ promised \in Seq(Chunk) /\ Len(promised) = Len(reqQueue)
  /\ timer \in {"off", "SERVICE", "GARBAGE"}
  /\ mailbox \in Seq({"SERVICE", "RESPOND", "GARBAGE", "STOP"}) /\ Len(mailbox) <= MailboxLen
  /\ search \in [i : Block, chunk : Chunk] \union {None}
  /\ served \in [gave : Chunk \union {None}, asked : Chunk, block : Block] \union {None}
  /\ forwarded \in Seq(Chunk \union {Invalid}) \union {None}
  /\ inputs \in 0..MaxInputs

\* No lock without a request that will lift it: a block that is locked is in
\* the service queue, as long as no push was refused (relayer.c:101, 308-309).
LockedIsQueued == ~refused => \A b \in Block : cacheLock[b] => b \in Range(reqQueue)

\* What is queued for service is being served: a SERVICE message waits, or the
\* timer will post one (relayer.c:213-218, 321-327).
ServiceScheduled ==
  alive /\ reqQueue # <<>> => timer = "SERVICE" \/ Pending("SERVICE") # {}

\* A queued block holds a chunk; the relay never sends an empty block.
QueuedIsFilled == \A b \in Range(reqQueue) : cacheBuffer[b] # None

\* A locked block keeps its chunk (relayer.c:111-128).
LockedIsKept ==
  [][\A b \in Block : cacheLock[b] /\ alive => cacheBuffer'[b] = cacheBuffer[b]]_vars

\* A request that came in goes on, is bad, or is in the service queue,
\* as long as no push was refused (relayer.c:275-281, 330-334).
NoInterestSwallowed ==
  [][\A list \in Bulks : (InterceptBulkReq(list) /\ ~refused') =>
       \A k \in Range(list) \ {Invalid} :
         \/ forwarded' # None /\ k \in Range(forwarded')
         \/ \E b \in Range(reqQueue') : cacheBuffer[b] = k]_vars

\* What a request was promised stays in its block for as long as the block is
\* its own: queued once and locked, whatever passes and whatever is configured
\* meanwhile, as long as no push was refused (relayer.c:101, 111-128, 308-309).
PromiseKept ==
  ~refused => \A i \in DOMAIN reqQueue :
    /\ cacheLock[reqQueue[i]]
    /\ \A j \in DOMAIN reqQueue : reqQueue[j] = reqQueue[i] => j = i
    => cacheBuffer[reqQueue[i]] = promised[i]

\* The chunk that is sent is the one that was asked for: "remove that from the
\* interest and add it to our service queue" (relayer.c:279).
ServesWhatWasAsked == served # None => served.gave = served.asked

\* The search for another block ends (relayer.c:113-126).
SearchEnds == (search # None) ~> (search = None)

\* A queued block is sent, unless the relay is stopped: on a relay that is not
\* probed and whose searches end (relayer.c:113-126, 202-220, 318-327).
QueuedIsServed ==
  /\ [](Pending("RESPOND") = {})
  /\ []<>(search = None)
  => \A b \in Block : (alive /\ b \in Range(reqQueue))
                          ~> ((served # None /\ served.block = b) \/ ~alive)
=============================================================================
