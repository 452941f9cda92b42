------------------------ MODULE RelayerPreemptProofs ------------------------
(***************************************************************************)
(* Theorems about a service of the relay that the IPv6 thread interrupts   *)
(* anywhere, for every number of cache blocks, every file and every size   *)
(* of the queue.                                                           *)
(***************************************************************************)
EXTENDS RelayerPreempt, TLAPS

-----------------------------------------------------------------------------
(* Arithmetic of the ring.                                                   *)

\* An index moves on by one and wraps at the end of the buffer.
LEMMA StepWraps ==
  ASSUME NEW n \in Nat \ {0}, NEW i \in 0..n - 1
  PROVE  /\ (i + 1) % n = IF i = n - 1 THEN 0 ELSE i + 1
         /\ (i + 1) % n \in 0..n - 1
<1>1. CASE i = n - 1
  BY <1>1
<1>2. CASE i # n - 1
  BY <1>2
<1> QED
  BY <1>1, <1>2

\* The distance from one index to another, around the ring.
LEMMA DistanceWraps ==
  ASSUME NEW n \in Nat \ {0}, NEW h \in 0..n - 1, NEW t \in 0..n - 1
  PROVE  /\ (t - h) % n = IF h <= t THEN t - h ELSE t - h + n
         /\ (t - h) % n \in 0..n - 1
<1>1. CASE h <= t
  BY <1>1
<1>2. CASE ~(h <= t)
  <2>1. t - h + n \in 0..n - 1
    BY <1>2
  <2>2. (t - h) % n = t - h + n
    BY <1>2, <2>1
  <2> QED
    BY <1>2, <2>1, <2>2
<1> QED
  BY <1>1, <1>2

\* A push that leaves a slot free brings the tail one further from the head.
LEMMA PushDistance ==
  ASSUME NEW n \in Nat \ {0}, NEW h \in 0..n - 1, NEW t \in 0..n - 1,
         (t - h) % n # n - 1
  PROVE  (((t + 1) % n) - h) % n = ((t - h) % n) + 1
<1> DEFINE u == (t + 1) % n
<1>1. u \in 0..n - 1 /\ u = IF t = n - 1 THEN 0 ELSE t + 1
  BY StepWraps
<1>2. (t - h) % n = IF h <= t THEN t - h ELSE t - h + n
  BY DistanceWraps
<1> HIDE DEF u
<1>3. (u - h) % n = IF h <= u THEN u - h ELSE u - h + n
  BY <1>1, DistanceWraps
<1>4. (u - h) % n = ((t - h) % n) + 1
  BY <1>1, <1>2, <1>3
<1> QED
  BY <1>4 DEF u

\* A pop from a ring with something in it brings the head one nearer.
LEMMA PopDistance ==
  ASSUME NEW n \in Nat \ {0}, NEW h \in 0..n - 1, NEW t \in 0..n - 1,
         (t - h) % n # 0
  PROVE  (t - ((h + 1) % n)) % n = ((t - h) % n) - 1
<1> DEFINE g == (h + 1) % n
<1>1. g \in 0..n - 1 /\ g = IF h = n - 1 THEN 0 ELSE h + 1
  BY StepWraps
<1>2. (t - h) % n = IF h <= t THEN t - h ELSE t - h + n
  BY DistanceWraps
<1> HIDE DEF g
<1>3. (t - g) % n = IF g <= t THEN t - g ELSE t - g + n
  BY <1>1, DistanceWraps
<1>4. (t - g) % n = ((t - h) % n) - 1
  BY <1>1, <1>2, <1>3
<1> QED
  BY <1>4 DEF g

-----------------------------------------------------------------------------
(* The length and the indices.                                               *)

\* Elements that are popped and still count as lying between the indices.
HalfPopped == IF pc = "advance" THEN 1 ELSE 0

RingType ==
  /\ headIdx \in Slot /\ tailIdx \in Slot
  /\ currLen \in Nat /\ loaded \in 0..QueueLen
  /\ raced \in BOOLEAN
  /\ pc \in {"receive", "read", "store", "advance", "send"}

\* What the thread has loaded is at most the length, which pushes only raise,
\* and never 0: the length it tested was not.
RingInv ==
  /\ RingType
  /\ pc = "read" => currLen > 0
  /\ pc = "store" => loaded > 0 /\ loaded <= currLen
  /\ pc = "store" /\ ~raced => loaded = currLen
  /\ currLen + HalfPopped <= Between
  /\ ~raced => currLen + HalfPopped = Between

LEMMA BetweenType ==
  ASSUME RingType PROVE Between \in 0..QueueLen - 1
BY PreemptAssumption, DistanceWraps DEF RingType, Between, Slot

LEMMA InitRing == Init => RingInv
<1> SUFFICES ASSUME Init PROVE RingInv
  OBVIOUS
<1>1. QueueLen \in Nat \ {0} /\ 0 \in 0..QueueLen - 1 /\ 0 \in 0..QueueLen
  BY PreemptAssumption
<1>2. RingType
  BY <1>1 DEF Init, RingType, Slot
<1>3. Between = 0
  BY <1>1, DistanceWraps DEF Init, Between
<1> QED
  BY <1>2, <1>3 DEF Init, RingInv, HalfPopped

\* A push, wherever the thread is.
LEMMA HitRing ==
  ASSUME RingInv, NEW k \in Chunk, NEW b \in Block, InterceptHit(k, b) PROVE RingInv'
<1>1. RingType /\ Between \in 0..QueueLen - 1 /\ Between < QueueLen - 1
  BY BetweenType, PreemptAssumption DEF RingInv, InterceptHit
<1>2. currLen # QueueLen
  <2>1. currLen \in Nat /\ currLen <= Between
    BY <1>1 DEF RingInv, RingType, HalfPopped
  <2>2. QueueLen \in Nat
    BY PreemptAssumption
  <2> QED
    BY <1>1, <2>1, <2>2
<1>3. /\ tailIdx' = (tailIdx + 1) % QueueLen /\ headIdx' = headIdx
      /\ currLen' = currLen + 1
      /\ UNCHANGED <<pc, loaded>> /\ raced' = (raced \/ pc = "store")
  BY <1>2 DEF InterceptHit, threadVars
<1>4. Between' = Between + 1
  <2>1. QueueLen \in Nat \ {0} /\ headIdx \in 0..QueueLen - 1 /\ tailIdx \in 0..QueueLen - 1
    BY <1>1, PreemptAssumption DEF RingType, Slot
  <2>2. Between # QueueLen - 1
    BY <1>1, <2>1
  <2>3. (((tailIdx + 1) % QueueLen) - headIdx) % QueueLen = ((tailIdx - headIdx) % QueueLen) + 1
    BY <2>1, <2>2, PushDistance DEF Between
  <2> QED
    BY <1>3, <2>3 DEF Between
<1>5. tailIdx' \in Slot
  BY <1>1, <1>3, StepWraps, PreemptAssumption DEF RingType, Slot
<1>6. RingType'
  BY <1>1, <1>3, <1>5 DEF RingType
<1>7. ~raced' => ~raced /\ pc # "store"
  BY <1>3
<1>8. currLen' + HalfPopped' <= Between'
  BY <1>1, <1>3, <1>4 DEF RingInv, RingType, HalfPopped
<1>9. ~raced' => currLen' + HalfPopped' = Between'
  BY <1>1, <1>3, <1>4, <1>7 DEF RingInv, RingType, HalfPopped
<1>10. pc = "store" => loaded <= currLen + 1
  BY <1>1 DEF RingInv, RingType
<1> QED
  BY <1>1, <1>3, <1>6, <1>7, <1>8, <1>9, <1>10 DEF RingInv, RingType

\* The three steps of a pop.
LEMMA PopRing ==
  ASSUME RingInv, PopRead \/ PopStore \/ PopAdvance PROVE RingInv'
<1>1. RingType /\ Between \in 0..QueueLen - 1
  BY BetweenType DEF RingInv
<1>2. CASE PopRead
  <2>1. /\ pc = "read" /\ pc' = "store" /\ loaded' = currLen
        /\ UNCHANGED <<headIdx, tailIdx, currLen, raced>>
    BY <1>2 DEF PopRead, Goto, ringVars
  <2>2. Between' = Between
    BY <2>1 DEF Between
  <2>3. currLen \in 0..QueueLen
    BY <1>1, <2>1, PreemptAssumption DEF RingInv, RingType, HalfPopped
  <2> QED
    BY <1>1, <2>1, <2>2, <2>3 DEF RingInv, RingType, HalfPopped
<1>3. CASE PopStore
  <2>1. /\ pc = "store" /\ pc' = "advance" /\ currLen' = loaded - 1
        /\ UNCHANGED <<headIdx, tailIdx, loaded, raced>>
    BY <1>3 DEF PopStore, Goto
  <2>2. Between' = Between
    BY <2>1 DEF Between
  <2> QED
    BY <1>1, <2>1, <2>2 DEF RingInv, RingType, HalfPopped
<1>4. CASE PopAdvance
  <2>1. /\ pc = "advance" /\ pc' = "send" /\ headIdx' = (headIdx + 1) % QueueLen
        /\ UNCHANGED <<tailIdx, currLen, loaded, raced>>
    BY <1>4 DEF PopAdvance, Goto
  <2>2. Between # 0
    BY <1>1, <2>1 DEF RingInv, RingType, HalfPopped
  <2>3. Between' = Between - 1
    BY <1>1, <2>1, <2>2, PopDistance, PreemptAssumption DEF Between, RingType, Slot
  <2>4. headIdx' \in Slot
    BY <1>1, <2>1, StepWraps, PreemptAssumption DEF RingType, Slot
  <2>5. RingType'
    BY <1>1, <2>1, <2>4 DEF RingType
  <2> QED
    BY <1>1, <2>1, <2>3, <2>5 DEF RingInv, RingType, HalfPopped
<1> QED
  BY <1>2, <1>3, <1>4

\* Every step.
LEMMA NextRing == RingInv /\ [Next]_vars => RingInv'
<1> SUFFICES ASSUME RingInv, [Next]_vars PROVE RingInv'
  OBVIOUS
<1>1. ASSUME NEW k \in Chunk, NEW b \in Block, InterceptHit(k, b) PROVE RingInv'
  BY <1>1, HitRing
<1>2. CASE PopRead \/ PopStore \/ PopAdvance
  BY <1>2, PopRing
<1>3. CASE Receive
  <2>1. /\ UNCHANGED <<headIdx, tailIdx, currLen, loaded, raced>>
        /\ pc = "receive" /\ pc' = IF currLen = 0 THEN "receive" ELSE "read"
    BY <1>3 DEF Receive, Goto, ringVars
  <2>2. Between' = Between
    BY <2>1 DEF Between
  <2> QED
    BY <2>1, <2>2 DEF RingInv, RingType, HalfPopped
<1>4. CASE Send
  <2>1. UNCHANGED <<headIdx, tailIdx, currLen, loaded, raced>> /\ pc = "send" /\ pc' = "receive"
    BY <1>4 DEF Send, Goto, ringVars
  <2>2. Between' = Between
    BY <2>1 DEF Between
  <2> QED
    BY <2>1, <2>2 DEF RingInv, RingType, HalfPopped
<1>5. CASE (\E k \in Chunk : InterceptChunk(k)) \/ IntervalTimerFires \/ UNCHANGED vars
  <2>1. UNCHANGED <<headIdx, tailIdx, currLen, loaded, raced, pc>>
    BY <1>5 DEF InterceptChunk, IntervalTimerFires, vars, ringVars, threadVars
  <2>2. Between' = Between
    BY <2>1 DEF Between
  <2> QED
    BY <2>1, <2>2 DEF RingInv, RingType, HalfPopped
<1> QED
  BY <1>1, <1>2, <1>3, <1>4, <1>5 DEF Next, IPv6Thread, RelayerThread

LEMMA RingInvariant == Spec => []RingInv
  BY InitRing, NextRing, PTL DEF Spec

\* Whatever push falls into a pop, the length never promises an element that is
\* not there (simple_queue.c:26-55, relayer.c:206, 309).
THEOREM NothingPoppedTwice == Spec => []NeverPopsTwice
<1>1. RingInv => NeverPopsTwice
  <2> SUFFICES ASSUME RingInv PROVE NeverPopsTwice
    OBVIOUS
  <2>1. Between \in Nat
    BY BetweenType DEF RingInv
  <2> QED
    BY <2>1 DEF RingInv, RingType, HalfPopped, NeverPopsTwice
<1> QED
  BY <1>1, RingInvariant, PTL

\* The length is exact as long as no push fell between the load and the store
\* of a pop: that one interleaving is all that loses an element
\* (simple_queue.c:52).
THEOREM LostOnlyByRace == Spec => []ExactUnlessRaced
<1>1. RingInv => ExactUnlessRaced
  <2> SUFFICES ASSUME RingInv PROVE ExactUnlessRaced
    OBVIOUS
  <2>1. Between \in Nat
    BY BetweenType DEF RingInv
  <2> QED
    BY <2>1 DEF RingInv, RingType, HalfPopped, ExactUnlessRaced
<1> QED
  BY <1>1, RingInvariant, PTL

-----------------------------------------------------------------------------
(* The types.                                                                *)

\* What the ring needs not say: blocks, locks, and the messages that wait or
\* will.  A service adds one with its timer and has taken one before.
CacheType ==
  /\ buf \in [Slot -> Block]
  /\ cacheBuffer \in [Block -> Chunk \union {None}] /\ cacheIdx \in Block
  /\ cacheLock \in [Block -> BOOLEAN]
  /\ mailbox \in Nat /\ timer \in BOOLEAN
  /\ block \in Block

Coming == mailbox + (IF timer THEN 1 ELSE 0)

MailInv == Coming <= MaxMail + (IF pc = "receive" THEN 2 ELSE 1)

LEMMA NextCacheType ==
  ASSUME RingInv, CacheType, Next PROVE CacheType'
<1>1. NumCacheBlocks \in Nat \ {0} /\ headIdx \in Slot
  BY PreemptAssumption DEF RingInv, RingType
<1>2. ASSUME NEW k \in Chunk, InterceptChunk(k) PROVE CacheType'
  <2>1. UNCHANGED <<buf, cacheLock, mailbox, timer, block>>
    BY <1>2 DEF InterceptChunk, ringVars, threadVars
  <2>2. CASE UNCHANGED cacheVars
    BY <2>1, <2>2 DEF CacheType, cacheVars
  <2>3. CASE ~UNCHANGED cacheVars
    <3>1. PICK b \in Unlocked : /\ cacheBuffer' = [cacheBuffer EXCEPT ![b] = k]
                                /\ cacheIdx' = (b + 1) % NumCacheBlocks
      BY <1>2, <2>3 DEF InterceptChunk
    <3>2. b \in 0..NumCacheBlocks - 1
      BY DEF Unlocked, Block
    <3>3. cacheIdx' \in Block
      BY <1>1, <3>1, <3>2, StepWraps DEF Block
    <3> QED
      BY <2>1, <3>1, <3>3 DEF CacheType
  <2> QED
    BY <2>2, <2>3
<1>3. ASSUME NEW k \in Chunk, NEW b \in Block, InterceptHit(k, b) PROVE CacheType'
  <2>1. /\ cacheLock' = [cacheLock EXCEPT ![b] = TRUE]
        /\ UNCHANGED <<cacheBuffer, cacheIdx, timer, block>> /\ mailbox' = mailbox + 1
        /\ buf' = buf \/ buf' = [buf EXCEPT ![tailIdx] = b]
    BY <1>3 DEF InterceptHit, Lock, ringVars, cacheVars, threadVars
  <2> QED
    BY <2>1 DEF CacheType
<1>4. CASE Receive
  <2>1. /\ mailbox > 0 /\ mailbox' = mailbox - 1
        /\ UNCHANGED <<buf, cacheBuffer, cacheIdx, cacheLock, timer, block>>
    BY <1>4 DEF Receive, ringVars, cacheVars
  <2> QED
    BY <2>1 DEF CacheType
<1>5. CASE PopRead
  BY <1>1, <1>5 DEF PopRead, ringVars, cacheVars, CacheType
<1>6. CASE PopStore \/ PopAdvance
  BY <1>6 DEF PopStore, PopAdvance, cacheVars, CacheType
<1>7. CASE Send
  BY <1>7 DEF Send, ringVars, cacheVars, CacheType
<1>8. CASE IntervalTimerFires
  <2>1. /\ UNCHANGED <<buf, cacheBuffer, cacheIdx, cacheLock, block>>
        /\ mailbox' = mailbox + 1 /\ timer' = FALSE
    BY <1>8 DEF IntervalTimerFires, ringVars, cacheVars, threadVars
  <2>2. mailbox' \in Nat
    BY <2>1 DEF CacheType
  <2> QED
    BY <2>1, <2>2 DEF CacheType
<1> QED
  BY <1>2, <1>3, <1>4, <1>5, <1>6, <1>7, <1>8 DEF Next, IPv6Thread, RelayerThread

LEMMA NextMail ==
  ASSUME RingInv, CacheType, MailInv, Next PROVE MailInv'
<1>1. mailbox \in Nat /\ timer \in BOOLEAN /\ MaxMail \in Nat
  BY PreemptAssumption DEF CacheType
<1>2. CASE \E k \in Chunk, b \in Block : InterceptHit(k, b)
  <2>1. mailbox < MaxMail /\ mailbox' = mailbox + 1 /\ UNCHANGED <<timer, pc>>
    BY <1>2 DEF InterceptHit, threadVars
  <2> QED
    BY <1>1, <2>1 DEF MailInv, Coming
<1>3. CASE Receive
  <2>1. mailbox' = mailbox - 1 /\ pc = "receive" /\ UNCHANGED timer
    BY <1>3 DEF Receive, Goto
  <2> QED
    BY <1>1, <2>1 DEF MailInv, Coming
<1>4. CASE PopRead \/ PopStore \/ PopAdvance
  <2>1. pc # "receive" /\ UNCHANGED <<mailbox, timer>>
    BY <1>4 DEF PopRead, PopStore, PopAdvance, Goto
  <2> QED
    BY <1>1, <2>1 DEF MailInv, Coming
<1>5. CASE Send
  <2>1. pc = "send" /\ pc' = "receive" /\ UNCHANGED mailbox
    BY <1>5 DEF Send, Goto
  <2> QED
    BY <1>1, <2>1 DEF MailInv, Coming
<1>6. CASE IntervalTimerFires
  <2>1. timer /\ ~timer' /\ mailbox' = mailbox + 1 /\ UNCHANGED pc
    BY <1>6 DEF IntervalTimerFires, threadVars
  <2> QED
    BY <1>1, <2>1 DEF MailInv, Coming
<1>7. CASE \E k \in Chunk : InterceptChunk(k)
  <2>1. UNCHANGED <<mailbox, timer, pc>>
    BY <1>7 DEF InterceptChunk, threadVars
  <2> QED
    BY <2>1 DEF MailInv, Coming
<1> QED
  BY <1>2, <1>3, <1>4, <1>5, <1>6, <1>7 DEF Next, IPv6Thread, RelayerThread

LEMMA CacheInvariant == Spec => [](CacheType /\ MailInv)
<1>1. Init => CacheType /\ MailInv
  <2> SUFFICES ASSUME Init PROVE CacheType /\ MailInv
    OBVIOUS
  <2>1. 0 \in Block /\ MaxMail \in Nat
    BY PreemptAssumption DEF Block
  <2>2. MailInv
    BY <2>1 DEF Init, MailInv, Coming
  <2>3. buf \in [Slot -> Block] /\ cacheLock \in [Block -> BOOLEAN]
        /\ cacheBuffer \in [Block -> Chunk \union {None}]
    BY <2>1 DEF Init
  <2>4. cacheIdx \in Block /\ block \in Block /\ mailbox \in Nat /\ timer \in BOOLEAN
    BY <2>1 DEF Init
  <2> QED
    BY <2>2, <2>3, <2>4 DEF CacheType
<1>2. RingInv /\ CacheType /\ MailInv /\ [Next]_vars => CacheType' /\ MailInv'
  <2> SUFFICES ASSUME RingInv, CacheType, MailInv, [Next]_vars PROVE CacheType' /\ MailInv'
    OBVIOUS
  <2>1. CASE UNCHANGED vars
    BY <2>1 DEF vars, ringVars, cacheVars, threadVars, CacheType, MailInv, Coming
  <2> QED
    BY <2>1, NextCacheType, NextMail
<1> QED
  BY <1>1, <1>2, RingInvariant, PTL DEF Spec

-----------------------------------------------------------------------------
(* The block that was popped: the slots between the indices, and the locks.  *)

\* A push takes a slot that no waiting entry has; a pop frees the first.
LEMMA WaitingMoves ==
  ASSUME NEW n \in Nat \ {0}, NEW h \in 0..n - 1, NEW t \in 0..n - 1
  PROVE  LET W(g, u) == {s \in 0..n - 1 : (s - g) % n < (u - g) % n}
         IN /\ t \notin W(h, t)
            /\ (t - h) % n # n - 1 => W(h, (t + 1) % n) = W(h, t) \union {t}
            /\ (t - h) % n # 0 => h \in W(h, t) /\ W((h + 1) % n, t) = W(h, t) \ {h}
<1> DEFINE W(g, u) == {s \in 0..n - 1 : (s - g) % n < (u - g) % n}
<1>1. \A s, g \in 0..n - 1 : (s - g) % n = IF g <= s THEN s - g ELSE s - g + n
  BY DistanceWraps
<1>2. t \notin W(h, t)
  BY <1>1
<1>3. ASSUME (t - h) % n # n - 1 PROVE W(h, (t + 1) % n) = W(h, t) \union {t}
  <2>1. (((t + 1) % n) - h) % n = ((t - h) % n) + 1
    BY <1>3, PushDistance
  <2>2. \A s \in 0..n - 1 : (s - h) % n < ((t - h) % n) + 1 <=> (s - h) % n < (t - h) % n \/ s = t
    BY <1>1
  <2> QED
    BY <2>1, <2>2
<1>4. ASSUME (t - h) % n # 0 PROVE h \in W(h, t) /\ W((h + 1) % n, t) = W(h, t) \ {h}
  <2> DEFINE g == (h + 1) % n
  <2>1. g \in 0..n - 1 /\ g = IF h = n - 1 THEN 0 ELSE h + 1
    BY StepWraps
  <2>2. (t - g) % n = ((t - h) % n) - 1
    BY <1>4, PopDistance
  <2>3. (t - h) % n \in 0..n - 1
    BY DistanceWraps
  <2> HIDE DEF g
  <2>4. \A s \in 0..n - 1 : (s - g) % n = IF s = h THEN n - 1 ELSE ((s - h) % n) - 1
    <3> TAKE s \in 0..n - 1
    <3>1. (s - g) % n = IF g <= s THEN s - g ELSE s - g + n
      BY <1>1, <2>1
    <3>2. (s - h) % n = IF h <= s THEN s - h ELSE s - h + n
      BY <1>1
    <3> QED
      BY <2>1, <3>1, <3>2
  <2>5. \A s \in 0..n - 1 : (s - g) % n < (t - g) % n <=> (s - h) % n < (t - h) % n /\ s # h
    <3> TAKE s \in 0..n - 1
    <3>1. (s - h) % n \in 0..n - 1
      BY DistanceWraps
    <3> QED
      BY <2>2, <2>3, <2>4, <3>1
  <2>6. h \in W(h, t)
    <3>1. (h - h) % n = 0
      BY <1>1
    <3> QED
      BY <1>4, <2>3, <3>1
  <2> QED
    BY <2>5, <2>6 DEF g
<1> QED
  BY <1>2, <1>3, <1>4

Popped == pc \in {"store", "advance", "send"}

\* A block that is queued, or popped and not yet sent, is locked, and named
\* only once, unless it was hit again while it was.
LockInv ==
  /\ repeated \subseteq Block
  /\ pc \in {"store", "advance"} => block = buf[headIdx]
  /\ \A s \in Waiting : buf[s] \notin repeated => cacheLock[buf[s]]
  /\ \A s, t \in Waiting : s # t /\ buf[s] = buf[t] => buf[s] \in repeated
  /\ pc = "send" /\ block \notin repeated => cacheLock[block] /\ block \notin Queued

LEMMA PushLock ==
  ASSUME RingInv, CacheType, LockInv, NEW k \in Chunk, NEW b \in Block, InterceptHit(k, b)
  PROVE  LockInv'
<1>1. /\ QueueLen \in Nat \ {0} /\ headIdx \in 0..QueueLen - 1 /\ tailIdx \in 0..QueueLen - 1
      /\ Between \in 0..QueueLen - 1 /\ Between < QueueLen - 1
      /\ currLen \in Nat /\ currLen <= Between
  BY BetweenType, PreemptAssumption DEF RingInv, RingType, InterceptHit, Slot, HalfPopped
<1>2. /\ buf' = [buf EXCEPT ![tailIdx] = b] /\ tailIdx' = (tailIdx + 1) % QueueLen
      /\ headIdx' = headIdx /\ UNCHANGED <<pc, block>>
      /\ cacheLock' = [cacheLock EXCEPT ![b] = TRUE]
      /\ repeated' = IF cacheLock[b] THEN repeated \union {b} ELSE repeated
  BY <1>1 DEF InterceptHit, Lock, threadVars
<1>3. tailIdx \notin Waiting /\ Waiting' = Waiting \union {tailIdx}
  <2>1. Between # QueueLen - 1
    BY <1>1
  <2> QED
    BY <1>1, <1>2, <2>1, WaitingMoves DEF Waiting, Between, Slot
<1>4. /\ \A s \in Waiting : buf'[s] = buf[s]
      /\ buf'[tailIdx] = b
      /\ Waiting \subseteq Slot /\ tailIdx \in Slot
  BY <1>1, <1>2, <1>3 DEF CacheType, Waiting, Slot
<1>5. /\ cacheLock'[b] /\ \A c \in Block : cacheLock[c] => cacheLock'[c]
      /\ repeated \subseteq repeated' /\ repeated' \subseteq Block
      /\ cacheLock[b] => b \in repeated'
  BY <1>2 DEF CacheType, LockInv
<1>6. \A s \in Waiting : buf[s] \in Block
  BY DEF CacheType, Waiting
<1>7. \A s \in Waiting' : buf'[s] \notin repeated' => cacheLock'[buf'[s]]
  <2>1. \A s \in Waiting : buf'[s] \notin repeated' => cacheLock'[buf'[s]]
    BY <1>4, <1>5, <1>6 DEF LockInv
  <2>2. cacheLock'[buf'[tailIdx]]
    BY <1>4, <1>5
  <2> QED
    BY <1>3, <2>1, <2>2
<1>8. \A s, t \in Waiting' : s # t /\ buf'[s] = buf'[t] => buf'[s] \in repeated'
  <2>1. \A s \in Waiting : buf[s] = b => b \in repeated'
    BY <1>5 DEF LockInv
  <2>2. \A s, t \in Waiting : s # t /\ buf'[s] = buf'[t] => buf'[s] \in repeated'
    BY <1>4, <1>5 DEF LockInv
  <2>3. \A s \in Waiting : buf'[s] = buf'[tailIdx] => buf'[s] \in repeated'
    BY <1>4, <2>1
  <2> QED
    BY <1>3, <2>2, <2>3, Zenon
<1>9. pc' \in {"store", "advance"} => block' = buf'[headIdx']
  <2> SUFFICES ASSUME pc \in {"store", "advance"} PROVE block = buf'[headIdx]
    BY <1>2
  <2>1. Between # 0
    BY <1>1 DEF RingInv, RingType, HalfPopped
  <2>2. headIdx \in Waiting
    BY <1>1, <2>1, WaitingMoves DEF Waiting, Between, Slot
  <2> QED
    BY <1>4, <2>2 DEF LockInv
<1>10. pc' = "send" /\ block' \notin repeated' => cacheLock'[block'] /\ block' \notin Queued'
  <2> SUFFICES ASSUME pc = "send", block \notin repeated'
               PROVE  cacheLock'[block] /\ block \notin Queued'
    BY <1>2
  <2>1. cacheLock[block] /\ block \notin Queued /\ block \in Block
    BY <1>5 DEF LockInv, CacheType
  <2>2. block # b
    BY <1>5, <2>1
  <2>3. \A s \in Waiting' : buf'[s] # block
    BY <1>3, <1>4, <2>1, <2>2 DEF Queued
  <2> QED
    BY <1>5, <2>1, <2>3 DEF Queued
<1> QED
  BY <1>5, <1>7, <1>8, <1>9, <1>10 DEF LockInv

\* A step that leaves ring and locks alone.
LEMMA SameLock ==
  ASSUME LockInv, UNCHANGED <<headIdx, tailIdx, buf, cacheLock, repeated, block>>,
         pc' = pc \/ (pc = "store" /\ pc' = "advance") \/ pc' \in {"receive", "read"}
  PROVE  LockInv'
<1>1. Waiting' = Waiting /\ Queued' = Queued
  BY DEF Waiting, Between, Queued
<1> QED
  BY <1>1 DEF LockInv

LEMMA AdvanceLock ==
  ASSUME RingInv, CacheType, LockInv, PopAdvance PROVE LockInv'
<1>1. /\ QueueLen \in Nat \ {0} /\ headIdx \in 0..QueueLen - 1 /\ tailIdx \in 0..QueueLen - 1
      /\ Between \in 0..QueueLen - 1
  BY BetweenType, PreemptAssumption DEF RingInv, RingType, Slot
<1>2. /\ pc = "advance" /\ pc' = "send" /\ headIdx' = (headIdx + 1) % QueueLen
      /\ UNCHANGED <<tailIdx, buf, cacheLock, repeated, block>>
  BY DEF PopAdvance, Goto
<1>3. Between # 0
  BY <1>1, <1>2 DEF RingInv, RingType, HalfPopped
<1>4. headIdx \in Waiting /\ Waiting' = Waiting \ {headIdx}
  <2>1. (tailIdx - headIdx) % QueueLen # 0
    BY <1>3 DEF Between
  <2>2. /\ headIdx \in Waiting
        /\ {s \in 0..QueueLen - 1 : (s - ((headIdx + 1) % QueueLen)) % QueueLen
                                     < (tailIdx - ((headIdx + 1) % QueueLen)) % QueueLen}
             = Waiting \ {headIdx}
    BY <1>1, <2>1, WaitingMoves DEF Waiting, Between, Slot
  <2> QED
    BY <1>2, <2>2 DEF Waiting, Between, Slot
<1>5. block = buf[headIdx]
  BY <1>2 DEF LockInv
<1>6. block \notin repeated => cacheLock[block] /\ \A s \in Waiting' : buf[s] # block
  BY <1>4, <1>5 DEF LockInv
<1> QED
  BY <1>2, <1>4, <1>6 DEF LockInv, Queued

LEMMA SendLock ==
  ASSUME CacheType, LockInv, Send PROVE LockInv'
<1>1. /\ pc = "send" /\ pc' = "receive" /\ UNCHANGED <<headIdx, tailIdx, buf, block>>
      /\ cacheLock' = [cacheLock EXCEPT ![block] = FALSE]
      /\ repeated' = repeated \ ({block} \ Queued)
  BY DEF Send, Goto, ringVars
<1>2. Waiting' = Waiting /\ \A s \in Waiting : buf[s] \in Block
  BY <1>1 DEF Waiting, Between, CacheType
<1>3. block \in Queued => block \in repeated
  BY <1>1 DEF LockInv
<1>4. \A s \in Waiting : buf[s] \in repeated' <=> buf[s] \in repeated
  BY <1>1 DEF Queued
<1>5. \A s \in Waiting : buf[s] = block => buf[s] \in repeated'
  BY <1>3, <1>4 DEF Queued
<1>6. \A s \in Waiting : buf[s] # block => cacheLock'[buf[s]] = cacheLock[buf[s]]
  BY <1>1, <1>2 DEF CacheType
<1>7. \A s \in Waiting' : buf'[s] \notin repeated' => cacheLock'[buf'[s]]
  BY <1>1, <1>2, <1>4, <1>5, <1>6 DEF LockInv
<1> QED
  BY <1>1, <1>2, <1>4, <1>7 DEF LockInv

LEMMA LockInvariant == Spec => []LockInv
<1>1. Init => LockInv
  <2> SUFFICES ASSUME Init PROVE LockInv
    OBVIOUS
  <2>1. Between = 0 /\ \A s \in Slot : (s - headIdx) % QueueLen \in Nat
    BY PreemptAssumption, DistanceWraps DEF Init, Between, Slot
  <2>2. Waiting = {}
    BY <2>1 DEF Waiting
  <2> QED
    BY <2>2 DEF Init, LockInv
<1>2. RingInv /\ CacheType /\ LockInv /\ [Next]_vars => LockInv'
  <2> SUFFICES ASSUME RingInv, CacheType, LockInv, [Next]_vars PROVE LockInv'
    OBVIOUS
  <2>1. ASSUME NEW k \in Chunk, NEW b \in Block, InterceptHit(k, b) PROVE LockInv'
    BY <2>1, PushLock
  <2>2. CASE PopRead
    <3>1. /\ pc = "read" /\ pc' = "store" /\ block' = buf[headIdx]
          /\ UNCHANGED <<headIdx, tailIdx, buf, cacheLock, repeated>>
      BY <2>2 DEF PopRead, Goto, ringVars
    <3>2. Waiting' = Waiting
      BY <3>1 DEF Waiting, Between
    <3> QED
      BY <3>1, <3>2 DEF LockInv
  <2>3. CASE PopAdvance
    BY <2>3, AdvanceLock
  <2>4. CASE Send
    BY <2>4, SendLock
  <2>5. CASE PopStore
    BY <2>5, SameLock DEF PopStore, Goto
  <2>6. CASE Receive
    BY <2>6, SameLock DEF Receive, Goto, ringVars
  <2>7. CASE (\E k \in Chunk : InterceptChunk(k)) \/ IntervalTimerFires \/ UNCHANGED vars
    BY <2>7, SameLock DEF InterceptChunk, IntervalTimerFires, vars, ringVars, threadVars
  <2> QED
    BY <2>1, <2>2, <2>3, <2>4, <2>5, <2>6, <2>7 DEF Next, IPv6Thread, RelayerThread
<1> QED
  BY <1>1, <1>2, RingInvariant, CacheInvariant, PTL DEF Spec

\* No index leaves its buffer and the length never exceeds the queue, at any
\* point of a service and whatever interrupts it (simple_queue.c:26-55,
\* relayer.c:96-141).
THEOREM TypeCorrect == Spec => []TypeOK
<1>1. RingInv /\ CacheType /\ MailInv /\ LockInv => TypeOK
  <2> SUFFICES ASSUME RingInv, CacheType, MailInv, LockInv PROVE TypeOK
    OBVIOUS
  <2>1. Between \in 0..QueueLen - 1 /\ QueueLen \in Nat /\ MaxMail \in Nat
    BY BetweenType, PreemptAssumption DEF RingInv
  <2>2. currLen \in 0..QueueLen /\ mailbox \in 0..MaxMail + 2
    BY <2>1 DEF RingInv, RingType, HalfPopped, CacheType, MailInv, Coming
  <2>3. loaded \in 0..QueueLen
    BY DEF RingInv, RingType
  <2> QED
    BY <2>2, <2>3 DEF RingInv, RingType, CacheType, LockInv, TypeOK
<1> QED
  BY <1>1, RingInvariant, CacheInvariant, LockInvariant, PTL

\* From the pop to the sending a block that only one request named keeps its
\* chunk: it has been locked since that request, and no other answer can have
\* unlocked it (relayer.c:101, 111-128, 213, 308-309).
THEOREM PoppedIsKept == Spec => LockedUntilUnlock
<1>1. RingInv /\ CacheType /\ LockInv /\ [Next]_vars => [KeepsPopped]_vars
  <2> SUFFICES ASSUME RingInv, CacheType, LockInv, Next, Popped, pc' = pc, block \notin repeated
               PROVE  cacheBuffer'[block] = cacheBuffer[block]
    BY DEF KeepsPopped, Popped
  <2>1. cacheLock[block]
    <3>1. CASE pc \in {"store", "advance"}
      <4>1. /\ QueueLen \in Nat \ {0} /\ headIdx \in 0..QueueLen - 1
            /\ tailIdx \in 0..QueueLen - 1 /\ Between \in 0..QueueLen - 1
        BY BetweenType, PreemptAssumption DEF RingInv, RingType, Slot
      <4>2. Between # 0
        BY <3>1, <4>1 DEF RingInv, RingType, HalfPopped
      <4>3. headIdx \in Waiting
        BY <4>1, <4>2, WaitingMoves DEF Waiting, Between, Slot
      <4> QED
        BY <3>1, <4>3 DEF LockInv
    <3>2. CASE pc = "send"
      BY <3>2 DEF LockInv
    <3> QED
      BY <3>1, <3>2 DEF Popped
  <2>2. CASE UNCHANGED cacheBuffer
    BY <2>2
  <2>3. CASE ~UNCHANGED cacheBuffer
    <3>1. PICK k \in Chunk : InterceptChunk(k)
      BY <2>3 DEF Next, IPv6Thread, RelayerThread, InterceptHit, Receive, PopRead, PopStore,
                  PopAdvance, Send, IntervalTimerFires, cacheVars
    <3>2. PICK b \in Unlocked : cacheBuffer' = [cacheBuffer EXCEPT ![b] = k]
      BY <2>3, <3>1 DEF InterceptChunk, cacheVars
    <3> QED
      BY <2>1, <3>2 DEF Unlocked, CacheType
  <2> QED
    BY <2>2, <2>3
<1> QED
  BY <1>1, RingInvariant, CacheInvariant, LockInvariant, PTL DEF Spec, LockedUntilUnlock
=============================================================================
