--------------------------- MODULE RelayerProofs ---------------------------
(***************************************************************************)
(* Proofs about Relayer: for every number of cache blocks, changed at any  *)
(* time, every file, queue and mailbox and every list of chunks that a     *)
(* request may carry.                                                      *)
(***************************************************************************)
EXTENDS Relayer, FiniteSetTheorems, SequenceTheorems, WellFoundedInduction, TLAPS

-----------------------------------------------------------------------------
(* Sets of numbers, sequences.                                               *)

Below == {p \in Nat \X Nat : p[1] < p[2]}

LEMMA BelowWellFounded == IsWellFoundedOn(Below, Nat)
  BY NatLessThanWellFounded DEF OpToRel, Below

\* The first block of a set of blocks is one of them.
LEMMA FirstOfIsIn ==
  ASSUME NEW S \in SUBSET Block, S # {}
  PROVE  FirstOf(S) \in S
  <1>0. S \subseteq Nat
    BY RelayerAssumption DEF Block
  <1>1. PICK x \in S : \A y \in S : ~ (<<y, x>> \in Below)
    BY <1>0, BelowWellFounded, WFMin
  <1>2. ASSUME NEW y \in S PROVE x <= y
    <2>1. <<y, x>> \notin Below /\ x \in Nat /\ y \in Nat
      BY <1>0, <1>1
    <2>2. <<y, x>> \in Below <=> y < x
      BY <2>1 DEF Below
    <2> QED BY <2>1, <2>2
  <1>3. \E b \in S : \A c \in S : b <= c
    BY <1>2
  <1> QED BY <1>3 DEF FirstOf

\* Pushing a sequence: what was in the queue stays in its place, what fits
\* follows in order.
Pushed(r, q, s, S) ==
  \E m \in 0..Len(s) :
    /\ r \in Seq(S) /\ Len(r) = Len(q) + m /\ Len(q) + m <= QueueLen
    /\ \A i \in 1..Len(q) : r[i] = q[i]
    /\ \A j \in 1..m : r[Len(q) + j] = s[j]

LEMMA EnqueuedAll ==
  ASSUME NEW S, NEW q \in Seq(S), NEW s \in Seq(S), Len(q) <= QueueLen
  PROVE  Pushed(EnqueueAll(q, s), q, s, S)
  <1> DEFINE room == QueueLen - Len(q)
             m == IF Len(s) <= room THEN Len(s) ELSE room
             t == SubSeq(s, 1, m)
  <1>1. m \in 0..Len(s) /\ Len(q) + m <= QueueLen /\ Len(q) \in Nat /\ Len(s) \in Nat
    BY QueueLenAssumption
  <1>2. EnqueueAll(q, s) = q \o t
    BY DEF EnqueueAll
  <1> HIDE DEF m
  <1>3. t \in Seq(S) /\ Len(t) = m /\ \A j \in 1..m : t[j] = s[j]
    <2>1. \A i \in 1..m : s[i] \in S
      BY <1>1
    <2>2. m \in Nat /\ m <= Len(s)
      BY <1>1
    <2> QED BY <2>1, <2>2, SubSeqProperties
  <1> HIDE DEF t
  <1>4. /\ q \o t \in Seq(S) /\ Len(q \o t) = Len(q) + m
        /\ \A i \in 1..Len(q) : (q \o t)[i] = q[i]
        /\ \A j \in 1..m : (q \o t)[Len(q) + j] = t[j]
    BY <1>1, <1>3
  <1> QED BY <1>1, <1>2, <1>3, <1>4 DEF Pushed

\* The hits of a request, one after the other: chunks, each in the block that
\* LookUp finds.
LEMMA HitsFound ==
  ASSUME NEW list \in Bulks, NEW order \in Listing(Hits(list))
  PROVE  /\ Picked(list, order) \in Seq(Chunk)
         /\ \A i \in 1..Len(Picked(list, order)) :
              LET k == Picked(list, order)[i] IN
              LookUp(k) \in Block /\ cacheBuffer[LookUp(k)] = k
  <1> DEFINE hits == Picked(list, order)
             n == Cardinality(Hits(list))
  <1>1. list \in Seq(Chunk \union {Invalid}) /\ DOMAIN list = 1..Len(list) /\ Len(list) \in Nat
    BY RelayerAssumption
  <1>2. n \in Nat
    <2>1. IsFiniteSet(1..Len(list))
      BY <1>1, FS_Interval
    <2>2. Hits(list) \in SUBSET (1..Len(list))
      BY <1>1 DEF Hits
    <2>3. IsFiniteSet(Hits(list))
      BY <2>1, <2>2, FS_Subset
    <2> QED BY <2>3, FS_CardinalityType
  <1>3. order \in [1..n -> Hits(list)]
    BY DEF Listing
  <1>4. DOMAIN hits = 1..n /\ \A i \in 1..n : hits[i] = list[order[i]] /\ order[i] \in Hits(list)
    BY <1>3 DEF Picked
  <1>5. \A i \in 1..n : IsHit(hits[i]) /\ hits[i] \in Chunk
    <2> SUFFICES ASSUME NEW i \in 1..n PROVE IsHit(hits[i]) /\ hits[i] \in Chunk
      OBVIOUS
    <2>1. hits[i] = list[order[i]] /\ order[i] \in DOMAIN list /\ IsHit(list[order[i]])
      BY <1>4 DEF Hits
    <2>2. list[order[i]] \in Chunk \union {Invalid}
      BY <1>1, <2>1
    <2>3. list[order[i]] # Invalid
      BY <2>1 DEF IsHit
    <2> QED BY <2>1, <2>2, <2>3
  <1>6. hits \in [1..n -> Chunk]
    <2>1. hits = [i \in 1..n |-> list[order[i]]]
      BY <1>3 DEF Picked
    <2>2. \A i \in 1..n : list[order[i]] \in Chunk
      BY <1>4, <1>5
    <2> QED BY <2>1, <2>2
  <1>7. hits \in Seq(Chunk) /\ Len(hits) = n
    BY <1>2, <1>6
  <1>8. ASSUME NEW i \in 1..n PROVE LookUp(hits[i]) \in Block /\ cacheBuffer[LookUp(hits[i])] = hits[i]
    <2>1. Holds(hits[i]) \in SUBSET Block /\ Holds(hits[i]) # {}
      BY <1>5 DEF IsHit, Holds
    <2>2. LookUp(hits[i]) \in Holds(hits[i])
      BY <2>1, FirstOfIsIn DEF LookUp
    <2> QED BY <2>2 DEF Holds
  <1> QED BY <1>7, <1>8

\* An ascending listing leaves out nothing.
LEMMA ListingCovers ==
  ASSUME NEW n \in Nat, NEW S \in SUBSET (1..n), NEW order \in Listing(S), NEW i \in S
  PROVE  \E j \in 1..Cardinality(S) : order[j] = i
  <1> DEFINE c == Cardinality(S)
  <1>1. IsFiniteSet(S) /\ c \in Nat
    <2>1. IsFiniteSet(1..n)
      BY FS_Interval
    <2>2. IsFiniteSet(S)
      BY <2>1, FS_Subset
    <2> QED BY <2>2, FS_CardinalityType
  <1>2. order \in [1..c -> S] /\ \A a, b \in 1..c : a < b => order[a] < order[b]
    BY DEF Listing
  <1> HIDE DEF c
  <1>3. ASSUME NEW a \in 1..c, NEW b \in 1..c, order[a] = order[b] PROVE a = b
    <2>1. a \in Int /\ b \in Int
      BY <1>1
    <2>3. order[a] \in 1..n /\ order[b] \in 1..n
      BY <1>2
    <2>2. ~(a < b) /\ ~(b < a)
      BY <1>2, <1>3, <2>3
    <2> QED BY <2>1, <2>2
  <1>4. order \in Injection(1..c, S)
    BY <1>2, <1>3 DEF Injection, IsInjective
  <1>5. Cardinality(1..c) = c
    BY <1>1, FS_Interval
  <1>6. order \in Surjection(1..c, S)
    BY <1>1, <1>4, <1>5, FS_Injection DEF c
  <1> QED BY <1>6 DEF Surjection, c

\* No hit of a request is left out.
LEMMA HitsCovered ==
  ASSUME NEW list \in Bulks, NEW order \in Listing(Hits(list)), NEW i \in Hits(list)
  PROVE  \E j \in 1..Len(Picked(list, order)) : Picked(list, order)[j] = list[i]
  <1>1. list \in Seq(Chunk \union {Invalid}) /\ DOMAIN list = 1..Len(list) /\ Len(list) \in Nat
    BY RelayerAssumption
  <1>2. Hits(list) \in SUBSET (1..Len(list))
    BY <1>1 DEF Hits
  <1>3. PICK j \in 1..Cardinality(Hits(list)) : order[j] = i
    BY <1>1, <1>2, ListingCovers
  <1>4. order \in [1..Cardinality(Hits(list)) -> Hits(list)]
    BY DEF Listing
  <1>5. j \in DOMAIN Picked(list, order) /\ Picked(list, order)[j] = list[i]
    BY <1>3, <1>4 DEF Picked
  <1>6. DOMAIN Picked(list, order) = 1..Len(Picked(list, order))
    <2>1. Picked(list, order) \in Seq(Chunk)
      BY HitsFound
    <2> QED BY <2>1
  <1> QED BY <1>5, <1>6

\* What a request leaves behind: m of its hits are queued, all are locked.
Effect(hits, m) ==
  /\ \A i \in 1..Len(hits) :
       LookUp(hits[i]) \in Block /\ cacheBuffer[LookUp(hits[i])] = hits[i]
  /\ reqQueue' \in Seq(Block) /\ Len(reqQueue') = Len(reqQueue) + m /\ Len(reqQueue') <= QueueLen
  /\ \A i \in 1..Len(reqQueue) : reqQueue'[i] = reqQueue[i]
  /\ \A j \in 1..m : reqQueue'[Len(reqQueue) + j] = LookUp(hits[j])
  /\ promised' \in Seq(Chunk) /\ Len(promised') = Len(reqQueue')
  /\ \A i \in 1..Len(reqQueue) : promised'[i] = promised[i]
  /\ \A j \in 1..m : promised'[Len(reqQueue) + j] = hits[j]
  /\ refused' = (refused \/ m < Len(hits))
  /\ cacheLock' \in [Block -> BOOLEAN]
  /\ \A b \in Block : cacheLock'[b] <=> cacheLock[b] \/ \E i \in 1..Len(hits) : LookUp(hits[i]) = b
  /\ \/ hits = <<>> /\ mailbox' = mailbox
     \/ (alive => Room) /\ mailbox' = IF alive THEN Append(mailbox, "SERVICE") ELSE mailbox

LEMMA RequestEffect ==
  ASSUME TypeOK, NEW list \in Bulks, InterceptBulkReq(list)
  PROVE  \E hits \in Seq(Chunk) : \E m \in 0..Len(hits) :
           /\ Effect(hits, m)
           /\ \A i \in Hits(list) : \E j \in 1..Len(hits) : hits[j] = list[i]
  <1>1. PICK order \in Listing(Hits(list)) :
          LET hits == Picked(list, order)
              blocks == [i \in DOMAIN hits |-> LookUp(hits[i])]
              kept == EnqueueAll(reqQueue, blocks)
          IN /\ cacheLock' = [b \in Block |-> cacheLock[b] \/ b \in Range(blocks)]
             /\ reqQueue' = kept
             /\ refused' = (refused \/ Len(kept) < Len(reqQueue) + Len(hits))
             /\ promised' = promised \o SubSeq(hits, 1, Len(kept) - Len(reqQueue))
             /\ IF hits = <<>> THEN UNCHANGED mailbox
                ELSE /\ alive => Room
                     /\ mailbox' = IF alive THEN Append(mailbox, "SERVICE") ELSE mailbox
    BY DEF InterceptBulkReq
  <1> DEFINE hits == Picked(list, order)
             blocks == [i \in DOMAIN hits |-> LookUp(hits[i])]
  <1>2. /\ hits \in Seq(Chunk)
        /\ \A i \in 1..Len(hits) : LookUp(hits[i]) \in Block /\ cacheBuffer[LookUp(hits[i])] = hits[i]
    BY HitsFound
  <1>a. \A i \in Hits(list) : \E j \in 1..Len(hits) : hits[j] = list[i]
    BY HitsCovered
  <1> HIDE DEF hits
  <1>3. DOMAIN hits = 1..Len(hits) /\ Len(hits) \in Nat
    BY <1>2
  <1>4. blocks \in Seq(Block) /\ Len(blocks) = Len(hits) /\ \A i \in 1..Len(hits) : blocks[i] = LookUp(hits[i])
    <2>1. blocks \in [1..Len(hits) -> Block]
      BY <1>2, <1>3
    <2> QED BY <1>3, <2>1
  <1>5. \A b : b \in Range(blocks) <=> \E i \in 1..Len(hits) : LookUp(hits[i]) = b
    BY <1>3 DEF Range
  <1>6. reqQueue \in Seq(Block) /\ Len(reqQueue) <= QueueLen /\ promised \in Seq(Chunk)
        /\ Len(promised) = Len(reqQueue) /\ cacheLock \in [Block -> BOOLEAN]
    BY DEF TypeOK
  <1> HIDE DEF blocks
  <1>7. PICK m \in 0..Len(blocks) :
           /\ reqQueue' \in Seq(Block)
           /\ Len(reqQueue') = Len(reqQueue) + m /\ Len(reqQueue) + m <= QueueLen
           /\ \A i \in 1..Len(reqQueue) : reqQueue'[i] = reqQueue[i]
           /\ \A j \in 1..m : reqQueue'[Len(reqQueue) + j] = blocks[j]
    <2>1. reqQueue' = EnqueueAll(reqQueue, blocks)
      BY <1>1 DEF hits, blocks
    <2>2. blocks \in Seq(Block) /\ reqQueue \in Seq(Block) /\ Len(reqQueue) <= QueueLen
      BY <1>4, <1>6
    <2>3. Pushed(reqQueue', reqQueue, blocks, Block)
      BY <2>1, <2>2, EnqueuedAll
    <2> QED BY <2>3 DEF Pushed
  <1>8. m \in 0..Len(hits) /\ Len(reqQueue) \in Nat
    BY <1>4, <1>6
  <1>9. \A j \in 1..m : reqQueue'[Len(reqQueue) + j] = LookUp(hits[j])
    BY <1>4, <1>7, <1>8
  <1>10. /\ promised' \in Seq(Chunk) /\ Len(promised') = Len(reqQueue')
         /\ \A i \in 1..Len(reqQueue) : promised'[i] = promised[i]
         /\ \A j \in 1..m : promised'[Len(reqQueue) + j] = hits[j]
    <2> DEFINE t == SubSeq(hits, 1, m)
    <2>1. promised' = promised \o t
      <3>1. promised' = promised \o SubSeq(hits, 1, Len(reqQueue') - Len(reqQueue))
        BY <1>1 DEF hits, blocks
      <3>2. Len(reqQueue') - Len(reqQueue) = m
        BY <1>7, <1>8
      <3> QED BY <3>1, <3>2
    <2>2. t \in Seq(Chunk) /\ Len(t) = m /\ \A j \in 1..m : t[j] = hits[j]
      <3>1. \A i \in 1..m : hits[i] \in Chunk
        BY <1>2, <1>3, <1>8
      <3> QED BY <1>2, <1>8, <3>1, SubSeqProperties
    <2> HIDE DEF t
    <2>3. /\ promised \o t \in Seq(Chunk) /\ Len(promised \o t) = Len(promised) + m
          /\ \A i \in 1..Len(promised) : (promised \o t)[i] = promised[i]
          /\ \A j \in 1..m : (promised \o t)[Len(promised) + j] = t[j]
      BY <1>6, <1>8, <2>2
    <2> QED BY <1>6, <1>7, <2>1, <2>2, <2>3
  <1>11. refused' = (refused \/ m < Len(hits))
    <2>1. refused' = (refused \/ Len(reqQueue') < Len(reqQueue) + Len(hits))
      BY <1>1 DEF hits, blocks
    <2>2. Len(reqQueue') < Len(reqQueue) + Len(hits) <=> m < Len(hits)
      BY <1>3, <1>7, <1>8
    <2> QED BY <2>1, <2>2
  <1>12. /\ cacheLock' \in [Block -> BOOLEAN]
         /\ \A b \in Block : cacheLock'[b] <=> cacheLock[b] \/ \E i \in 1..Len(hits) : LookUp(hits[i]) = b
    <2>1. cacheLock' = [b \in Block |-> cacheLock[b] \/ b \in Range(blocks)]
      BY <1>1 DEF hits, blocks
    <2> QED BY <1>5, <1>6, <2>1, Zenon
  <1>13. \/ hits = <<>> /\ mailbox' = mailbox
         \/ (alive => Room) /\ mailbox' = IF alive THEN Append(mailbox, "SERVICE") ELSE mailbox
    BY <1>1 DEF hits
  <1>14. Effect(hits, m)
    <2>1. Len(reqQueue') <= QueueLen
      BY <1>7
    <2> QED BY <2>1, <1>2, <1>7, <1>9, <1>10, <1>11, <1>12, <1>13 DEF Effect
  <1> QED BY <1>2, <1>8, <1>14, <1>a

-----------------------------------------------------------------------------
(* Types.                                                                    *)

Kinds == {"SERVICE", "RESPOND", "GARBAGE", "STOP"}

LEMMA IndexInBlocks ==
  ASSUME NEW n \in CacheBlocks, NEW b \in Block
  PROVE  (b + 1) % n \in Block
  <1>1. n \in 1..LockSize /\ b \in Nat /\ LockSize \in Nat
    BY RelayerAssumption DEF Block
  <1>2. (b + 1) % n \in 0..n - 1
    BY <1>1
  <1> QED BY <1>1, <1>2 DEF Block

LEMMA MailboxType ==
  ASSUME TypeOK
  PROVE  /\ \A m \in Kinds : Room => Append(mailbox, m) \in Seq(Kinds)
                                     /\ Len(Append(mailbox, m)) <= MailboxLen
         /\ mailbox # <<>> => Tail(mailbox) \in Seq(Kinds) /\ Len(Tail(mailbox)) <= MailboxLen
  <1>1. mailbox \in Seq(Kinds) /\ Len(mailbox) <= MailboxLen /\ MailboxLen \in Nat
    BY RelayerAssumption DEF TypeOK, Kinds
  <1> QED BY <1>1 DEF Room

LEMMA InitTypeOK == Init => TypeOK
  <1> SUFFICES ASSUME Init PROVE TypeOK
    OBVIOUS
  <1>1. 0 \in Block /\ 0 \in 0..MaxInputs /\ 0 <= MailboxLen /\ 0 <= QueueLen
    BY RelayerAssumption, QueueLenAssumption DEF Block
  <1>2. <<>> \in Seq(Block) /\ <<>> \in Seq(Chunk) /\ <<>> \in Seq(Kinds) /\ Len(<<>>) = 0
    OBVIOUS
  <1> QED BY <1>1, <1>2 DEF Init, TypeOK, Kinds

LEMMA NextTypeOK == TypeOK /\ [Next]_vars => TypeOK'
  <1> SUFFICES ASSUME TypeOK, [Next]_vars PROVE TypeOK'
    OBVIOUS
  <1> USE DEF Quiet
  <1>a. inputs < MaxInputs => inputs + 1 \in 0..MaxInputs
    BY RelayerAssumption DEF TypeOK
  <1>b. /\ \A k \in Chunk, b \in Block :
             Write(b, k) => cacheBuffer' \in [Block -> Chunk \union {None}] /\ cacheIdx' \in Block
        /\ \A b \in Block : (b + 1) % numCacheBlocks \in Block
    BY IndexInBlocks DEF TypeOK, Write
  <1>1. ASSUME NEW k \in Chunk, InterceptChunk(k) PROVE TypeOK'
    BY <1>1, <1>b DEF TypeOK, InterceptChunk, queueVars, cacheVars
  <1>2. CASE SearchTurn
    <2>1. search.i \in Block /\ search \in [i : Block, chunk : Chunk]
      BY <1>2 DEF TypeOK, SearchTurn
    <2>2. search' = [search EXCEPT !.i = (@ + 1) % numCacheBlocks]
      BY <1>2 DEF SearchTurn
    <2>3. search' \in [i : Block, chunk : Chunk]
      BY <1>b, <2>1, <2>2
    <2> QED BY <1>2, <2>1, <2>3 DEF TypeOK, SearchTurn, queueVars
  <1>3. CASE SearchDone
    <2>1. search.chunk \in Chunk
      BY <1>3 DEF TypeOK, SearchDone
    <2> QED BY <1>3, <1>b, <2>1 DEF TypeOK, SearchDone, queueVars, cacheVars
  <1>4. ASSUME NEW list \in Bulks, InterceptBulkReq(list) PROVE TypeOK'
    <2>0. PICK hits \in Seq(Chunk) : \E m \in 0..Len(hits) : Effect(hits, m)
      BY <1>4, RequestEffect
    <2>1. PICK m \in 0..Len(hits) : Effect(hits, m)
      BY <2>0
    <2>2. forwarded' \in Seq(Chunk \union {Invalid}) \union {None}
      <3> DEFINE rest == [i \in DOMAIN list |-> IF i \in Hits(list) THEN Invalid ELSE list[i]]
      <3>1. list \in Seq(Chunk \union {Invalid})
        BY RelayerAssumption
      <3>2. rest \in [1..Len(list) -> Chunk \union {Invalid}] /\ Len(list) \in Nat
        BY <3>1
      <3>3. rest \in Seq(Chunk \union {Invalid})
        BY <3>2
      <3>4. forwarded' = Onward(rest)
        BY <1>4 DEF InterceptBulkReq
      <3> QED BY <3>3, <3>4 DEF Onward
    <2>3. refused' \in BOOLEAN
      BY <2>1 DEF Effect, TypeOK
    <2>4. mailbox' \in Seq(Kinds) /\ Len(mailbox') <= MailboxLen
      BY <2>1, MailboxType DEF Effect, TypeOK, Kinds
    <2>5. inputs' \in 0..MaxInputs
      BY <1>4, <1>a DEF InterceptBulkReq
    <2>6. UNCHANGED <<alive, numCacheBlocks, cacheVars, timer, search>> /\ served' = None
      BY <1>4 DEF InterceptBulkReq
    <2> QED BY <2>1, <2>2, <2>3, <2>4, <2>5, <2>6 DEF TypeOK, Effect, cacheVars, Kinds
  <1>5. CASE InterceptProbe
    BY <1>5, <1>a, MailboxType DEF TypeOK, InterceptProbe, cacheVars, queueVars, Kinds
  <1>6. ASSUME NEW n \in CacheBlocks, Configured(n) PROVE TypeOK'
    BY <1>6, <1>a DEF TypeOK, Configured, cacheVars, queueVars
  <1>7. CASE HandleService
    <2>1. mailbox' \in Seq(Kinds) /\ Len(mailbox') <= MailboxLen
      BY <1>7, MailboxType DEF HandleService, Take
    <2>2. CASE reqQueue = <<>>
      BY <1>7, <2>1, <2>2 DEF TypeOK, HandleService, Take, cacheVars, Kinds
    <2>3. CASE reqQueue # <<>>
      <3>1. /\ Head(reqQueue) \in Block /\ Tail(reqQueue) \in Seq(Block)
            /\ Len(Tail(reqQueue)) = Len(reqQueue) - 1
        BY <2>3 DEF TypeOK
      <3>2. /\ promised # <<>> /\ Head(promised) \in Chunk /\ Tail(promised) \in Seq(Chunk)
            /\ Len(Tail(promised)) = Len(promised) - 1
        BY <2>3 DEF TypeOK
      <3>3. cacheLock' \in [Block -> BOOLEAN] /\ timer' \in {"off", "SERVICE", "GARBAGE"}
        BY <1>7, <2>3, <3>1 DEF TypeOK, HandleService, Unlock, NextService
      <3>4. served' \in [gave : Chunk \union {None}, asked : Chunk, block : Block]
        BY <1>7, <2>3, <3>1, <3>2 DEF TypeOK, HandleService
      <3>5. reqQueue' \in Seq(Block) /\ Len(reqQueue') <= QueueLen
            /\ promised' \in Seq(Chunk) /\ Len(promised') = Len(reqQueue')
        <4>1. reqQueue' = Tail(reqQueue) /\ promised' = Tail(promised)
          BY <1>7, <2>3 DEF HandleService
        <4>2. Len(reqQueue) <= QueueLen /\ Len(promised) = Len(reqQueue) /\ Len(reqQueue) \in Nat
          BY DEF TypeOK
        <4> QED BY <3>1, <3>2, <4>1, <4>2, QueueLenAssumption
      <3> QED BY <1>7, <2>1, <3>3, <3>4, <3>5 DEF TypeOK, HandleService, Take, cacheVars, Kinds
    <2> QED BY <2>2, <2>3
  <1>8. CASE HandleRespond
    BY <1>8, MailboxType DEF TypeOK, HandleRespond, Take, cacheVars, queueVars, Kinds
  <1>9. CASE HandleGarbage
    BY <1>9, MailboxType DEF TypeOK, HandleGarbage, Take, cacheVars, queueVars, Kinds
  <1>10. CASE HandleStop
    <2>1. <<>> \in Seq(Kinds) /\ Len(<<>>) <= MailboxLen
      BY RelayerAssumption
    <2> QED BY <1>10, <2>1 DEF TypeOK, HandleStop, cacheVars, queueVars, Kinds
  <1>11. CASE IntervalTimerFires
    <2>1. timer \in Kinds
      BY <1>11 DEF TypeOK, IntervalTimerFires, Kinds
    <2>2. mailbox' \in Seq(Kinds) /\ Len(mailbox') <= MailboxLen
      <3>1. mailbox' = mailbox \/ (Room /\ mailbox' = Append(mailbox, timer))
        BY <1>11 DEF IntervalTimerFires
      <3>2. mailbox \in Seq(Kinds) /\ Len(mailbox) <= MailboxLen
        BY DEF TypeOK, Kinds
      <3> QED BY <2>1, <3>1, <3>2, MailboxType
    <2> QED BY <1>11, <2>2 DEF TypeOK, IntervalTimerFires, cacheVars, queueVars, Kinds
  <1>12. CASE ShellStop
    BY <1>12, MailboxType DEF TypeOK, ShellStop, cacheVars, queueVars, Kinds
  <1>13. CASE ShellRelayer
    <2>1. /\ <<>> \in Seq(Block) /\ <<>> \in Seq(Chunk) /\ Len(<<>>) <= QueueLen
      BY QueueLenAssumption
    <2>2. cacheBuffer' \in [Block -> Chunk \union {None}] /\ cacheLock' \in [Block -> BOOLEAN]
      BY <1>13 DEF TypeOK, ShellRelayer
    <2>3. timer' \in {"off", "SERVICE", "GARBAGE"} /\ reqQueue' = <<>> /\ promised' = <<>>
      BY <1>13 DEF TypeOK, ShellRelayer
    <2> QED BY <1>13, <2>1, <2>2, <2>3 DEF TypeOK, ShellRelayer
  <1>14. CASE UNCHANGED vars
    BY <1>14 DEF TypeOK, vars, cacheVars, queueVars, outVars
  <1> QED
    BY <1>1, <1>2, <1>3, <1>4, <1>5, <1>6, <1>7, <1>8, <1>9, <1>10, <1>11, <1>12, <1>13, <1>14
    DEF Next, IPv6Thread, RelayerThread

-----------------------------------------------------------------------------
(* Locks, queue and promises.                                                *)

CacheInv == TypeOK /\ LockedIsQueued /\ QueuedIsFilled /\ PromiseKept

\* Entry i is the only one of its block, whose lock is set.
Own(i) ==
  /\ cacheLock[reqQueue[i]]
  /\ \A j \in DOMAIN reqQueue : reqQueue[j] = reqQueue[i] => j = i

\* The three invariants, entry by entry.
LEMMA InvByEntry ==
  ASSUME TypeOK
  PROVE  /\ LockedIsQueued <=>
              (~refused => \A b \in Block : cacheLock[b] => \E i \in 1..Len(reqQueue) : reqQueue[i] = b)
         /\ QueuedIsFilled <=> \A i \in 1..Len(reqQueue) : cacheBuffer[reqQueue[i]] # None
         /\ PromiseKept <=>
              (~refused => \A i \in 1..Len(reqQueue) : Own(i) => cacheBuffer[reqQueue[i]] = promised[i])
  <1>1. DOMAIN reqQueue = 1..Len(reqQueue)
    BY DEF TypeOK
  <1>2. \A b : b \in Range(reqQueue) <=> \E i \in 1..Len(reqQueue) : reqQueue[i] = b
    BY <1>1 DEF Range
  <1>3. LockedIsQueued <=>
              (~refused => \A b \in Block : cacheLock[b] => \E i \in 1..Len(reqQueue) : reqQueue[i] = b)
    BY <1>2 DEF LockedIsQueued
  <1>4. QueuedIsFilled <=> \A i \in 1..Len(reqQueue) : cacheBuffer[reqQueue[i]] # None
    BY <1>2 DEF QueuedIsFilled
  <1>5. PromiseKept <=>
          (~refused => \A i \in 1..Len(reqQueue) : Own(i) => cacheBuffer[reqQueue[i]] = promised[i])
    BY <1>1 DEF PromiseKept, Own
  <1> QED BY <1>3, <1>4, <1>5

\* What leaves blocks, locks and queue alone leaves the invariants alone.
LEMMA UntouchedKeeps ==
  ASSUME CacheInv, TypeOK', UNCHANGED <<cacheBuffer, cacheLock, reqQueue, refused, promised>>
  PROVE  CacheInv'
  BY DEF CacheInv, LockedIsQueued, QueuedIsFilled, PromiseKept, Range

\* A chunk is written to a block that is not locked: no promise is about it.
LEMMA WriteKeeps ==
  ASSUME CacheInv, TypeOK', NEW b \in Block, ~cacheLock[b], NEW k \in Chunk,
         cacheBuffer' = [cacheBuffer EXCEPT ![b] = k],
         UNCHANGED <<cacheLock, reqQueue, refused, promised>>
  PROVE  CacheInv'
  <1>1. \A c \in Block : cacheBuffer'[c] = IF c = b THEN k ELSE cacheBuffer[c]
    BY DEF CacheInv, TypeOK
  <1>2. \A i \in 1..Len(reqQueue) : reqQueue[i] \in Block
    BY DEF CacheInv, TypeOK
  <1>3. k # None
    BY RelayerAssumption
  <1>4. QueuedIsFilled'
    <2>1. \A i \in 1..Len(reqQueue) : cacheBuffer[reqQueue[i]] # None
      BY InvByEntry DEF CacheInv
    <2>2. \A i \in 1..Len(reqQueue') : cacheBuffer'[reqQueue'[i]] # None
      BY <1>1, <1>2, <1>3, <2>1
    <2> QED BY <2>2 DEF QueuedIsFilled, Range, TypeOK
  <1>5. PromiseKept'
    <2> SUFFICES ASSUME ~refused, NEW i \in DOMAIN reqQueue, Own(i)
                 PROVE  cacheBuffer'[reqQueue[i]] = promised[i]
      BY DEF PromiseKept, Own
    <2>1. i \in 1..Len(reqQueue) /\ cacheBuffer[reqQueue[i]] = promised[i]
      BY DEF CacheInv, PromiseKept, Own, TypeOK
    <2>2. reqQueue[i] # b
      BY DEF Own
    <2> QED BY <1>1, <1>2, <2>1, <2>2
  <1>6. LockedIsQueued'
    BY DEF CacheInv, LockedIsQueued
  <1> QED BY <1>4, <1>5, <1>6 DEF CacheInv

\* The invariants hold after a step if they do entry by entry.
LEMMA InvByEntryNext ==
  ASSUME TypeOK',
         ~refused' => \A b \in Block : cacheLock'[b] => \E i \in 1..Len(reqQueue') : reqQueue'[i] = b,
         \A i \in 1..Len(reqQueue') : cacheBuffer'[reqQueue'[i]] # None,
         ~refused' => \A i \in 1..Len(reqQueue') :
           /\ cacheLock'[reqQueue'[i]]
           /\ \A j \in 1..Len(reqQueue') : reqQueue'[j] = reqQueue'[i] => j = i
           => cacheBuffer'[reqQueue'[i]] = promised'[i]
  PROVE  CacheInv'
  <1>1. DOMAIN reqQueue' = 1..Len(reqQueue')
    BY DEF TypeOK
  <1>2. \A b : b \in Range(reqQueue)' <=> \E i \in 1..Len(reqQueue') : reqQueue'[i] = b
    BY <1>1 DEF Range
  <1>3. LockedIsQueued'
    BY <1>2 DEF LockedIsQueued
  <1>4. QueuedIsFilled'
    BY <1>2 DEF QueuedIsFilled
  <1>5. PromiseKept'
    BY <1>1 DEF PromiseKept
  <1> QED BY <1>3, <1>4, <1>5 DEF CacheInv

\* A request queues blocks that hold what it asks for.
LEMMA RequestKeeps ==
  ASSUME CacheInv, TypeOK', NEW list \in Bulks, InterceptBulkReq(list)
  PROVE  CacheInv'
  <1>0. PICK hits \in Seq(Chunk) : \E m \in 0..Len(hits) : Effect(hits, m)
    BY RequestEffect DEF CacheInv
  <1>1. PICK m \in 0..Len(hits) : Effect(hits, m)
    BY <1>0
  <1> DEFINE n == Len(reqQueue)
  <1>2. cacheBuffer' = cacheBuffer /\ n \in Nat /\ Len(hits) \in Nat /\ Len(reqQueue') = n + m
    <2>1. cacheBuffer' = cacheBuffer
      BY DEF InterceptBulkReq, cacheVars
    <2>2. n \in Nat /\ Len(hits) \in Nat
      BY DEF CacheInv, TypeOK
    <2>3. Len(reqQueue') = n + m
      BY <1>1 DEF Effect
    <2> QED BY <2>1, <2>2, <2>3
  <1>3. /\ \A i \in 1..n : reqQueue'[i] = reqQueue[i] /\ promised'[i] = promised[i]
        /\ \A j \in 1..m : reqQueue'[n + j] = LookUp(hits[j]) /\ promised'[n + j] = hits[j]
        /\ \A j \in 1..Len(hits) : LookUp(hits[j]) \in Block /\ cacheBuffer[LookUp(hits[j])] = hits[j]
                                   /\ hits[j] # None
        /\ \A b \in Block : cacheLock'[b] <=> cacheLock[b] \/ \E j \in 1..Len(hits) : LookUp(hits[j]) = b
        /\ ~refused' => ~refused /\ m = Len(hits)
    <2>1. \A j \in 1..Len(hits) : hits[j] # None
      BY RelayerAssumption
    <2>2. ~refused' => ~refused /\ ~(m < Len(hits))
      BY <1>1 DEF Effect
    <2>3. m < Len(hits) \/ m = Len(hits)
      BY <1>2
    <2> QED BY <1>1, <2>1, <2>2, <2>3 DEF Effect
  <1>4. \A i \in 1..Len(reqQueue') : i \in 1..n \/ \E j \in 1..m : i = n + j
    <2> SUFFICES ASSUME NEW i \in 1..n + m, i \notin 1..n PROVE \E j \in 1..m : i = n + j
      BY <1>2
    <2>1. i - n \in 1..m /\ i = n + (i - n)
      BY <1>2
    <2> QED BY <2>1
  <1>5. \A j \in 1..m : j \in 1..Len(hits)
    BY <1>2
  <1>6. \A i \in 1..n : i \in 1..Len(reqQueue') /\ reqQueue[i] \in Block
    BY <1>2 DEF CacheInv, TypeOK
  <1>7. \A j \in 1..m : n + j \in 1..Len(reqQueue')
    BY <1>2
  <1> HIDE DEF n
  <1>8. ASSUME ~refused', NEW b \in Block, cacheLock'[b]
        PROVE  \E i \in 1..Len(reqQueue') : reqQueue'[i] = b
    <2>1. CASE cacheLock[b]
      <3>1. ~refused
        BY <1>3, <1>8
      <3>2. PICK i \in 1..n : reqQueue[i] = b
        BY <2>1, <3>1, InvByEntry DEF CacheInv, n
      <3> QED BY <1>3, <1>6, <3>2
    <2>2. CASE ~cacheLock[b]
      <3>1. PICK j \in 1..Len(hits) : LookUp(hits[j]) = b
        BY <1>3, <1>8, <2>2
      <3>2. m = Len(hits)
        BY <1>3, <1>8
      <3> QED BY <1>3, <1>7, <3>1, <3>2
    <2> QED BY <2>1, <2>2
  <1>9. \A i \in 1..n : cacheBuffer[reqQueue[i]] # None
    BY InvByEntry DEF CacheInv, n
  <1>10. \A i \in 1..Len(reqQueue') : cacheBuffer'[reqQueue'[i]] # None
    <2> SUFFICES ASSUME NEW i \in 1..Len(reqQueue') PROVE cacheBuffer[reqQueue'[i]] # None
      BY <1>2
    <2>1. CASE i \in 1..n
      BY <1>3, <1>9, <2>1
    <2>2. CASE i \notin 1..n
      <3>1. PICK j \in 1..m : i = n + j
        BY <1>4, <2>2
      <3>2. reqQueue'[i] = LookUp(hits[j]) /\ j \in 1..Len(hits)
        BY <1>3, <1>5, <3>1
      <3> QED BY <1>3, <3>2
    <2> QED BY <2>1, <2>2
  <1>11. ASSUME ~refused', NEW i \in 1..Len(reqQueue'), cacheLock'[reqQueue'[i]],
                \A j \in 1..Len(reqQueue') : reqQueue'[j] = reqQueue'[i] => j = i
         PROVE  cacheBuffer'[reqQueue'[i]] = promised'[i]
    <2>1. CASE i \in 1..n
      <3>1. ~refused /\ m = Len(hits)
        BY <1>3, <1>11
      <3>2. \A j \in 1..m : LookUp(hits[j]) # reqQueue[i]
        <4> SUFFICES ASSUME NEW j \in 1..m, LookUp(hits[j]) = reqQueue[i] PROVE FALSE
          OBVIOUS
        <4>1. n + j = i
          BY <1>3, <1>7, <1>11, <2>1
        <4> QED BY <1>2, <2>1, <4>1 DEF n
      <3>3. cacheLock[reqQueue[i]]
        BY <1>3, <1>6, <1>11, <2>1, <3>1, <3>2
      <3>4. \A j \in 1..n : reqQueue[j] = reqQueue[i] => j = i
        BY <1>3, <1>6, <1>11, <2>1
      <3>5. Own(i)
        BY <3>3, <3>4 DEF Own, n, CacheInv, TypeOK
      <3>6. cacheBuffer[reqQueue[i]] = promised[i]
        BY <2>1, <3>1, <3>5, InvByEntry DEF CacheInv, n
      <3> QED BY <1>2, <1>3, <2>1, <3>6
    <2>2. CASE i \notin 1..n
      <3>1. PICK j \in 1..m : i = n + j
        BY <1>4, <2>2
      <3>2. /\ reqQueue'[i] = LookUp(hits[j]) /\ promised'[i] = hits[j]
            /\ j \in 1..Len(hits)
        BY <1>3, <1>5, <3>1
      <3>3. cacheBuffer[LookUp(hits[j])] = hits[j]
        BY <1>3, <3>2
      <3> QED BY <1>2, <3>2, <3>3
    <2> QED BY <2>1, <2>2
  <1> QED BY <1>8, <1>10, <1>11, InvByEntryNext

\* The first block is unlocked and leaves the queue.
LEMMA ServiceKeeps ==
  ASSUME CacheInv, TypeOK', HandleService
  PROVE  CacheInv'
  <1>1. CASE reqQueue = <<>>
    <2>1. UNCHANGED <<cacheBuffer, cacheLock, reqQueue, refused, promised>>
      BY <1>1 DEF HandleService, Take, cacheVars
    <2> QED BY <2>1, UntouchedKeeps
  <1>2. CASE reqQueue # <<>>
    <2> DEFINE n == Len(reqQueue)
               h == Head(reqQueue)
    <2>1. /\ cacheBuffer' = cacheBuffer /\ refused' = refused
          /\ cacheLock' = [cacheLock EXCEPT ![h] = FALSE]
          /\ reqQueue' = Tail(reqQueue) /\ promised' = Tail(promised)
      BY <1>2 DEF HandleService, Take, Unlock, cacheVars
    <2>2. reqQueue \in Seq(Block) /\ promised \in Seq(Chunk) /\ Len(promised) = n
          /\ cacheLock \in [Block -> BOOLEAN]
      BY DEF CacheInv, TypeOK
    <2>3. n \in Nat /\ n # 0 /\ h = reqQueue[1] /\ h \in Block
      BY <1>2, <2>2
    <2>4. /\ Len(reqQueue') = n - 1
          /\ \A i \in 1..n - 1 : reqQueue'[i] = reqQueue[i + 1] /\ promised'[i] = promised[i + 1]
                                 /\ reqQueue[i + 1] \in Block /\ i + 1 \in 1..n
      BY <1>2, <2>1, <2>2, <2>3
    <2>5. \A b \in Block : cacheLock'[b] <=> cacheLock[b] /\ b # h
      BY <2>1, <2>2, <2>3
    <2> HIDE DEF n, h
    <2>6. ASSUME ~refused', NEW b \in Block, cacheLock'[b]
          PROVE  \E i \in 1..Len(reqQueue') : reqQueue'[i] = b
      <3>1. PICK i \in 1..n : reqQueue[i] = b
        BY <2>1, <2>5, <2>6, InvByEntry DEF CacheInv, n
      <3>2. i # 1
        BY <2>3, <2>5, <2>6, <3>1
      <3>3. i - 1 \in 1..n - 1 /\ (i - 1) + 1 = i
        BY <2>3, <3>1, <3>2
      <3>4. reqQueue'[i - 1] = b
        BY <2>4, <3>1, <3>3
      <3> QED BY <2>4, <3>3, <3>4
    <2>7. \A i \in 1..Len(reqQueue') : cacheBuffer'[reqQueue'[i]] # None
      <3>1. \A i \in 1..n : cacheBuffer[reqQueue[i]] # None
        BY InvByEntry DEF CacheInv, n
      <3> QED BY <2>1, <2>4, <3>1
    <2>8. ASSUME ~refused', NEW i \in 1..Len(reqQueue'), cacheLock'[reqQueue'[i]],
                 \A j \in 1..Len(reqQueue') : reqQueue'[j] = reqQueue'[i] => j = i
          PROVE  cacheBuffer'[reqQueue'[i]] = promised'[i]
      <3>1. i \in 1..n - 1 /\ reqQueue'[i] = reqQueue[i + 1] /\ i + 1 \in 1..n /\ reqQueue[i + 1] \in Block
        BY <2>4
      <3>2. cacheLock[reqQueue[i + 1]] /\ reqQueue[i + 1] # reqQueue[1]
        BY <2>3, <2>5, <2>8, <3>1
      <3>3. ASSUME NEW j \in 1..n, reqQueue[j] = reqQueue[i + 1] PROVE j = i + 1
        <4>1. j # 1
          BY <3>2, <3>3
        <4>2. j - 1 \in 1..n - 1 /\ (j - 1) + 1 = j
          BY <2>3, <4>1
        <4>3. reqQueue'[j - 1] = reqQueue'[i] /\ j - 1 \in 1..Len(reqQueue')
          BY <2>4, <3>1, <3>3, <4>2
        <4>4. j - 1 = i
          BY <2>8, <4>3
        <4> QED BY <4>2, <4>4
      <3>4. Own(i + 1)
        BY <2>2, <3>2, <3>3 DEF Own, n
      <3>5. cacheBuffer[reqQueue[i + 1]] = promised[i + 1]
        BY <2>1, <2>8, <3>1, <3>4, InvByEntry DEF CacheInv, n
      <3> QED BY <2>1, <2>4, <3>1, <3>5
    <2> QED BY <2>6, <2>7, <2>8, InvByEntryNext
  <1> QED BY <1>1, <1>2

\* "iperf relayer" starts with an empty queue and no lock.
LEMMA RelayerKeeps ==
  ASSUME CacheInv, TypeOK', ShellRelayer
  PROVE  CacheInv'
  <1>1. Len(reqQueue') = 0 /\ \A b \in Block : ~cacheLock'[b]
    BY DEF ShellRelayer
  <1> QED BY <1>1, InvByEntryNext

LEMMA InitKept == Init => CacheInv
  <1> SUFFICES ASSUME Init PROVE CacheInv
    OBVIOUS
  <1>1. TypeOK
    BY InitTypeOK
  <1>2. reqQueue = <<>> /\ Len(reqQueue) = 0 /\ \A b \in Block : ~cacheLock[b]
    BY DEF Init
  <1> QED BY <1>1, <1>2, InvByEntry DEF CacheInv

LEMMA NextKept == CacheInv /\ [Next]_vars => CacheInv'
  <1> SUFFICES ASSUME CacheInv, [Next]_vars PROVE CacheInv'
    OBVIOUS
  <1>1. TypeOK'
    BY NextTypeOK DEF CacheInv
  <1>2. ASSUME NEW k \in Chunk, InterceptChunk(k) PROVE CacheInv'
    <2>1. CASE cacheLock[cacheIdx]
      BY <1>1, <1>2, <2>1, UntouchedKeeps DEF InterceptChunk, cacheVars, queueVars
    <2>2. CASE ~cacheLock[cacheIdx]
      <3>1. cacheBuffer' = [cacheBuffer EXCEPT ![cacheIdx] = k] /\ cacheIdx \in Block
        BY <1>2, <2>2 DEF InterceptChunk, Write, CacheInv, TypeOK
      <3> QED BY <1>1, <1>2, <2>2, <3>1, WriteKeeps DEF InterceptChunk, queueVars
    <2> QED BY <2>1, <2>2
  <1>3. CASE SearchDone
    <2>1. CASE cacheLock[cacheIdx]
      BY <1>1, <1>3, <2>1, UntouchedKeeps DEF SearchDone, cacheVars, queueVars
    <2>2. CASE ~cacheLock[cacheIdx]
      <3>1. cacheBuffer' = [cacheBuffer EXCEPT ![cacheIdx] = search.chunk] /\ cacheIdx \in Block
            /\ search.chunk \in Chunk
        BY <1>3, <2>2 DEF SearchDone, Write, CacheInv, TypeOK
      <3> QED BY <1>1, <1>3, <2>2, <3>1, WriteKeeps DEF SearchDone, queueVars
    <2> QED BY <2>1, <2>2
  <1>4. CASE \/ SearchTurn \/ InterceptProbe \/ HandleRespond \/ HandleGarbage \/ HandleStop
             \/ IntervalTimerFires \/ ShellStop \/ UNCHANGED vars
             \/ \E n \in CacheBlocks : Configured(n)
    <2>1. UNCHANGED <<cacheBuffer, cacheLock, reqQueue, refused, promised>>
      BY <1>4 DEF SearchTurn, InterceptProbe, HandleRespond, HandleGarbage, HandleStop,
                  IntervalTimerFires, ShellStop, Configured, Take, vars, cacheVars, queueVars
    <2> QED BY <1>1, <2>1, UntouchedKeeps
  <1> QED
    BY <1>1, <1>2, <1>3, <1>4, RequestKeeps, ServiceKeeps, RelayerKeeps
    DEF Next, IPv6Thread, RelayerThread

THEOREM CacheInvariant == Spec => []CacheInv
  BY InitKept, NextKept, PTL DEF Spec

-----------------------------------------------------------------------------
(* The properties of Relayer.                                                *)

\* No index leaves the blocks, no queue and no mailbox grows beyond its size,
\* whatever number of blocks is configured meanwhile (relayer.c:111-129).
THEOREM TypeCorrect == Spec => []TypeOK
  <1>1. CacheInv => TypeOK
    BY DEF CacheInv
  <1> QED BY <1>1, CacheInvariant, PTL

\* No block stays locked without a request that will lift its lock, unless a
\* push was refused (relayer.c:101, 308-309).
THEOREM NoLockForever == Spec => []LockedIsQueued
  <1>1. CacheInv => LockedIsQueued
    BY DEF CacheInv
  <1> QED BY <1>1, CacheInvariant, PTL

\* The relay never sends a block that was never filled (relayer.c:96-103).
THEOREM NoEmptyBlockSent == Spec => []QueuedIsFilled
  <1>1. CacheInv => QueuedIsFilled
    BY DEF CacheInv
  <1> QED BY <1>1, CacheInvariant, PTL

\* A block that is locked and queued once holds what it was queued for
\* (relayer.c:111-128, 308-309).
THEOREM OwnBlockKept == Spec => []PromiseKept
  <1>1. CacheInv => PromiseKept
    BY DEF CacheInv
  <1> QED BY <1>1, CacheInvariant, PTL

\* No step overwrites a locked block of a relay that lives (relayer.c:111-128).
THEOREM LockHolds == Spec => LockedIsKept
  <1> DEFINE Keeps == \A b \in Block : cacheLock[b] /\ alive => cacheBuffer'[b] = cacheBuffer[b]
  <1>1. CacheInv /\ [Next]_vars => [Keeps]_vars
    <2> SUFFICES ASSUME CacheInv, [Next]_vars, NEW b \in Block, cacheLock[b], alive
                 PROVE  cacheBuffer'[b] = cacheBuffer[b]
      OBVIOUS
    <2>1. cacheBuffer \in [Block -> Chunk \union {None}] /\ cacheIdx \in Block
      BY DEF CacheInv, TypeOK
    <2>2. ASSUME NEW k, Write(cacheIdx, k), ~cacheLock[cacheIdx] PROVE cacheBuffer'[b] = cacheBuffer[b]
      BY <2>1, <2>2 DEF Write
    <2>3. ASSUME NEW k \in Chunk, InterceptChunk(k) PROVE cacheBuffer'[b] = cacheBuffer[b]
      BY <2>2, <2>3 DEF InterceptChunk, cacheVars
    <2>4. CASE SearchDone
      BY <2>2, <2>4 DEF SearchDone, cacheVars
    <2>5. CASE \/ SearchTurn \/ InterceptProbe \/ RelayerThread \/ IntervalTimerFires \/ ShellStop
               \/ UNCHANGED vars \/ (\E n \in CacheBlocks : Configured(n))
               \/ \E list \in Bulks : InterceptBulkReq(list)
      BY <2>5 DEF SearchTurn, InterceptProbe, RelayerThread, HandleService, HandleRespond,
                  HandleGarbage, HandleStop, IntervalTimerFires, ShellStop, Configured, Take,
                  InterceptBulkReq, vars, cacheVars
    <2>6. ~ShellRelayer
      BY DEF ShellRelayer
    <2> QED BY <2>3, <2>4, <2>5, <2>6 DEF Next, IPv6Thread
  <1> QED BY <1>1, CacheInvariant, PTL DEF Spec, LockedIsKept

\* A request that came in goes on, is bad, or is in the service queue, entry by
\* entry, as long as no push was refused (relayer.c:275-281, 330-334).
THEOREM NoneSwallowed == Spec => NoInterestSwallowed
  <1> DEFINE Kept(list, k) == \/ forwarded' # None /\ k \in Range(forwarded')
                              \/ \E b \in Range(reqQueue') : cacheBuffer[b] = k
             Swallowed == ~\A list \in Bulks : (InterceptBulkReq(list) /\ ~refused') =>
                             \A k \in Range(list) \ {Invalid} : Kept(list, k)
  <1>1. TypeOK => [~Swallowed]_vars
    <2> SUFFICES ASSUME TypeOK, NEW list \in Bulks, InterceptBulkReq(list), ~refused',
                        NEW k \in Range(list) \ {Invalid}
                 PROVE  Kept(list, k)
      OBVIOUS
    <2>1. PICK i \in DOMAIN list : list[i] = k
      BY DEF Range
    <2>2. list \in Seq(Chunk \union {Invalid})
      BY RelayerAssumption
    <2>3. CASE i \in Hits(list)
      <3>1. PICK hits \in Seq(Chunk) : \E m \in 0..Len(hits) :
               /\ Effect(hits, m)
               /\ \A h \in Hits(list) : \E j \in 1..Len(hits) : hits[j] = list[h]
        BY RequestEffect
      <3>2. PICK m \in 0..Len(hits) :
               /\ Effect(hits, m)
               /\ \A h \in Hits(list) : \E j \in 1..Len(hits) : hits[j] = list[h]
        BY <3>1
      <3>3. PICK j \in 1..Len(hits) : hits[j] = k
        BY <2>1, <2>3, <3>2
      <3>4. ~(m < Len(hits)) /\ Len(hits) \in Nat
        BY <3>2 DEF Effect
      <3>5. j \in 1..m
        BY <3>4
      <3>6. /\ reqQueue'[Len(reqQueue) + j] = LookUp(k) /\ cacheBuffer[LookUp(k)] = k
            /\ reqQueue' \in Seq(Block) /\ Len(reqQueue') = Len(reqQueue) + m
        BY <3>2, <3>3, <3>5 DEF Effect
      <3>7. Len(reqQueue) + j \in DOMAIN reqQueue'
        <4>1. Len(reqQueue) \in Nat /\ DOMAIN reqQueue' = 1..Len(reqQueue')
          BY <3>6 DEF TypeOK
        <4> QED BY <3>5, <3>6, <4>1
      <3> QED BY <3>6, <3>7 DEF Range
    <2>4. CASE i \notin Hits(list)
      <3> DEFINE rest == [h \in DOMAIN list |-> IF h \in Hits(list) THEN Invalid ELSE list[h]]
      <3>1. forwarded' = Onward(rest)
        BY DEF InterceptBulkReq
      <3>2. rest[i] = k /\ i \in DOMAIN rest
        BY <2>1, <2>4
      <3>3. rest \in Seq(Chunk \union {Invalid})
        <4>1. rest \in [1..Len(list) -> Chunk \union {Invalid}] /\ Len(list) \in Nat
          BY <2>2
        <4> QED BY <4>1
      <3> HIDE DEF rest
      <3>4. k \in Range(rest) /\ k # Invalid
        BY <3>2 DEF Range
      <3>5. Onward(rest) = rest
        BY <3>4 DEF Onward
      <3>6. rest # None
        BY <3>3, RelayerAssumption
      <3> QED BY <3>1, <3>4, <3>5, <3>6
    <2> QED BY <2>3, <2>4
  <1> QED BY <1>1, TypeCorrect, PTL DEF NoInterestSwallowed

-----------------------------------------------------------------------------
(* What is queued is being served, where no probe spoils the timer's message *)
(* and the mailbox has room beside a STOP and one spoiled message.           *)

Waits(mb, type) == \E i \in 1..Len(mb) : mb[i] = type
Once(mb, type) == \A i, j \in 1..Len(mb) : mb[i] = type /\ mb[j] = type => i = j

\* Appending a message.
LEMMA AppendWaits ==
  ASSUME NEW mb \in Seq(Kinds), NEW m \in Kinds
  PROVE  /\ \A t : Waits(Append(mb, m), t) <=> Waits(mb, t) \/ m = t
         /\ \A t : Once(mb, t) /\ (m = t => ~Waits(mb, t)) => Once(Append(mb, m), t)
  <1>1. /\ Len(mb) \in Nat /\ Len(Append(mb, m)) = Len(mb) + 1
        /\ Append(mb, m)[Len(mb) + 1] = m
        /\ \A i \in 1..Len(mb) : Append(mb, m)[i] = mb[i]
    OBVIOUS
  <1>2. \A i \in 1..Len(mb) + 1 : i \in 1..Len(mb) \/ i = Len(mb) + 1
    BY <1>1
  <1>3. \A i \in 1..Len(mb) : i \in 1..Len(mb) + 1
    BY <1>1
  <1>4. Len(mb) + 1 \in 1..Len(mb) + 1
    BY <1>1
  <1>5. \A t : Waits(Append(mb, m), t) <=> Waits(mb, t) \/ m = t
    BY <1>1, <1>2, <1>3, <1>4 DEF Waits
  <1>6. ASSUME NEW t, Once(mb, t), m = t => ~Waits(mb, t) PROVE Once(Append(mb, m), t)
    BY <1>1, <1>2, <1>6 DEF Waits, Once
  <1> QED BY <1>5, <1>6

\* Taking the head.
LEMMA TailWaits ==
  ASSUME NEW mb \in Seq(Kinds), mb # <<>>
  PROVE  /\ \A t : Waits(Tail(mb), t) => Waits(mb, t)
         /\ \A t : Waits(mb, t) /\ Head(mb) # t => Waits(Tail(mb), t)
         /\ \A t : Once(mb, t) => Once(Tail(mb), t)
  <1>1. /\ Len(mb) \in Nat /\ Len(Tail(mb)) = Len(mb) - 1 /\ Head(mb) = mb[1]
        /\ \A i \in 1..Len(mb) - 1 : Tail(mb)[i] = mb[i + 1]
    OBVIOUS
  <1>2. \A i \in 1..Len(mb) - 1 : i + 1 \in 1..Len(mb)
    BY <1>1
  <1>3. \A i \in 1..Len(mb) : i = 1 \/ (i - 1 \in 1..Len(mb) - 1 /\ (i - 1) + 1 = i)
    BY <1>1
  <1>4. ASSUME NEW t, Waits(Tail(mb), t) PROVE Waits(mb, t)
    BY <1>1, <1>2, <1>4 DEF Waits
  <1>5. ASSUME NEW t, Waits(mb, t), Head(mb) # t PROVE Waits(Tail(mb), t)
    <2>1. PICK i \in 1..Len(mb) : mb[i] = t
      BY <1>5 DEF Waits
    <2>2. i - 1 \in 1..Len(mb) - 1 /\ (i - 1) + 1 = i
      BY <1>1, <1>3, <1>5, <2>1
    <2> QED BY <1>1, <2>1, <2>2 DEF Waits
  <1>6. ASSUME NEW t, Once(mb, t) PROVE Once(Tail(mb), t)
    <2> SUFFICES ASSUME NEW i \in 1..Len(mb) - 1, NEW j \in 1..Len(mb) - 1,
                        mb[i + 1] = t, mb[j + 1] = t
                 PROVE  i = j
      BY <1>1 DEF Once
    <2>1. i + 1 = j + 1
      BY <1>2, <1>6 DEF Once
    <2> QED BY <2>1
  <1> QED BY <1>4, <1>5, <1>6

\* At most one STOP and one spoiled message wait, and nothing else but services.
ServiceInv ==
  /\ ~alive => mailbox = <<>>
  /\ ~Waits(mailbox, "RESPOND")
  /\ Once(mailbox, "STOP") /\ Once(mailbox, "GARBAGE")
  /\ timer = "GARBAGE" => ~Waits(mailbox, "GARBAGE")
  /\ alive /\ reqQueue # <<>> => timer = "SERVICE" \/ Waits(mailbox, "SERVICE")

\* A mailbox of more than two messages holds a service.
LEMMA FullHasService ==
  ASSUME TypeOK, ServiceInv, MailboxLen > 2, ~Room PROVE Waits(mailbox, "SERVICE")
  <1> SUFFICES ASSUME ~Waits(mailbox, "SERVICE") PROVE FALSE
    OBVIOUS
  <1>1. mailbox \in Seq(Kinds) /\ Len(mailbox) \in Nat /\ Len(mailbox) > 2
    BY RelayerAssumption DEF TypeOK, Kinds, Room
  <1>2. \A i \in {1, 2, 3} : i \in 1..Len(mailbox) /\ mailbox[i] \in {"STOP", "GARBAGE"}
    BY <1>1 DEF ServiceInv, Waits, Kinds
  <1>3. \A i, j \in {1, 2, 3} : mailbox[i] = mailbox[j] => i = j
    BY <1>2 DEF ServiceInv, Once
  <1>4. mailbox[1] # mailbox[2] /\ mailbox[1] # mailbox[3] /\ mailbox[2] # mailbox[3]
    BY <1>3
  <1> QED BY <1>2, <1>4

LEMMA NextServiced ==
  ASSUME ~Probes, MailboxLen > 2, TypeOK, ServiceInv, [Next]_vars PROVE ServiceInv'
  <1>0. mailbox \in Seq(Kinds) /\ timer \in {"off", "SERVICE", "GARBAGE"} /\ alive \in BOOLEAN
    BY DEF TypeOK, Kinds
  <1>1. ASSUME NEW list \in Bulks, InterceptBulkReq(list) PROVE ServiceInv'
    <2>0. PICK hits \in Seq(Chunk) : \E m \in 0..Len(hits) : Effect(hits, m)
      BY <1>1, RequestEffect
    <2>1. PICK m \in 0..Len(hits) : Effect(hits, m)
      BY <2>0
    <2>2. UNCHANGED <<alive, timer>>
      BY <1>1 DEF InterceptBulkReq
    <2>3. CASE hits = <<>> /\ mailbox' = mailbox
      <3>1. reqQueue \in Seq(Block) /\ reqQueue' \in Seq(Block) /\ Len(reqQueue') = Len(reqQueue)
        BY <2>1, <2>3 DEF TypeOK, Effect
      <3>2. reqQueue' # <<>> => reqQueue # <<>>
        BY <3>1
      <3> QED BY <2>2, <2>3, <3>2 DEF ServiceInv
    <2>4. CASE mailbox' = IF alive THEN Append(mailbox, "SERVICE") ELSE mailbox
      <3>1. CASE ~alive
        BY <2>2, <2>4, <3>1 DEF ServiceInv
      <3>2. CASE alive
        <4>1. mailbox' = Append(mailbox, "SERVICE") /\ "SERVICE" \in Kinds
          BY <2>4, <3>2 DEF Kinds
        <4>2. /\ \A t : Waits(mailbox', t) <=> Waits(mailbox, t) \/ t = "SERVICE"
              /\ \A t : Once(mailbox, t) /\ t # "SERVICE" => Once(mailbox', t)
          BY <1>0, <4>1, AppendWaits
        <4> QED BY <2>2, <3>2, <4>2 DEF ServiceInv
      <3> QED BY <3>1, <3>2
    <2> QED BY <2>1, <2>3, <2>4 DEF Effect
  <1>2. CASE HandleService
    <2>1. alive /\ mailbox # <<>> /\ mailbox' = Tail(mailbox) /\ UNCHANGED alive
      BY <1>2 DEF HandleService, Take
    <2>2. /\ \A t : Waits(mailbox', t) => Waits(mailbox, t)
          /\ \A t : Once(mailbox, t) => Once(mailbox', t)
      BY <1>0, <2>1, TailWaits
    <2>3. timer' = "GARBAGE" => timer = "GARBAGE"
      BY <1>2 DEF HandleService, NextService
    <2>4. reqQueue' # <<>> => timer' = "SERVICE"
      <3>1. CASE reqQueue = <<>>
        BY <1>2, <3>1 DEF HandleService
      <3>2. CASE reqQueue # <<>>
        <4>1. reqQueue' = Tail(reqQueue) /\ timer' = NextService
          BY <1>2, <3>2 DEF HandleService
        <4>2. reqQueue \in Seq(Block)
          BY DEF TypeOK
        <4>3. Tail(reqQueue) # <<>> => Len(reqQueue) > 1
          BY <3>2, <4>2
        <4> QED BY <4>1, <4>3 DEF NextService
      <3> QED BY <3>1, <3>2
    <2> QED BY <2>1, <2>2, <2>3, <2>4 DEF ServiceInv
  <1>3. CASE HandleGarbage
    <2>1. /\ mailbox # <<>> /\ mailbox' = Tail(mailbox) /\ Head(mailbox) = "GARBAGE"
          /\ alive /\ UNCHANGED <<alive, reqQueue, timer>>
      BY <1>3 DEF HandleGarbage, Take, queueVars
    <2>2. /\ \A t : Waits(mailbox', t) => Waits(mailbox, t)
          /\ \A t : Waits(mailbox, t) /\ t # "GARBAGE" => Waits(mailbox', t)
          /\ \A t : Once(mailbox, t) => Once(mailbox', t)
      BY <1>0, <2>1, TailWaits
    <2> QED BY <2>1, <2>2 DEF ServiceInv
  <1>4. ~HandleRespond
    <2> SUFFICES ASSUME HandleRespond PROVE FALSE
      OBVIOUS
    <2>1. mailbox # <<>> /\ Head(mailbox) = "RESPOND"
      BY DEF HandleRespond, Take
    <2>2. Head(mailbox) = mailbox[1] /\ 1 \in 1..Len(mailbox)
      BY <1>0, <2>1
    <2> QED BY <2>1, <2>2 DEF ServiceInv, Waits
  <1>5. ASSUME HandleStop \/ ShellRelayer PROVE ServiceInv'
    <2>1. mailbox' = <<>>
      BY <1>5 DEF HandleStop, ShellRelayer, ServiceInv
    <2>2. ~alive' \/ reqQueue' = <<>>
      BY <1>5 DEF HandleStop, ShellRelayer
    <2>3. \A t : ~Waits(<<>>, t) /\ Once(<<>>, t)
      BY DEF Waits, Once
    <2> QED BY <2>1, <2>2, <2>3 DEF ServiceInv
  <1>6. CASE IntervalTimerFires
    <2>1. timer \in {"SERVICE", "GARBAGE"} /\ timer' = "off" /\ UNCHANGED <<alive, reqQueue>>
      BY <1>0, <1>6 DEF IntervalTimerFires, queueVars
    <2>2. CASE alive /\ Room
      <3>1. mailbox' = Append(mailbox, timer) /\ timer \in Kinds
        BY <1>6, <2>1, <2>2 DEF IntervalTimerFires, Kinds
      <3>2. /\ \A t : Waits(mailbox', t) <=> Waits(mailbox, t) \/ t = timer
            /\ \A t : Once(mailbox, t) /\ (timer = t => ~Waits(mailbox, t)) => Once(mailbox', t)
        BY <1>0, <3>1, AppendWaits
      <3> QED BY <2>1, <2>2, <3>2 DEF ServiceInv
    <2>3. CASE ~(alive /\ Room)
      <3>1. mailbox' = mailbox
        BY <1>6, <2>3 DEF IntervalTimerFires
      <3>2. alive => Waits(mailbox, "SERVICE")
        BY <2>3, FullHasService
      <3> QED BY <2>1, <3>1, <3>2 DEF ServiceInv
    <2> QED BY <2>2, <2>3
  <1>7. CASE ShellStop
    <2>1. /\ mailbox' = Append(mailbox, "STOP") /\ "STOP" \in Kinds
          /\ alive /\ UNCHANGED <<alive, reqQueue, timer>>
      BY <1>7 DEF ShellStop, queueVars, Kinds
    <2>2. ~Waits(mailbox, "STOP")
      <3>1. DOMAIN mailbox = 1..Len(mailbox)
        BY <1>0
      <3> QED BY <1>7, <3>1 DEF ShellStop, Pending, Waits
    <2>3. /\ \A t : Waits(mailbox', t) <=> Waits(mailbox, t) \/ t = "STOP"
          /\ \A t : Once(mailbox, t) /\ (t = "STOP" => ~Waits(mailbox, t)) => Once(mailbox', t)
      BY <1>0, <2>1, AppendWaits
    <2> QED BY <2>1, <2>2, <2>3 DEF ServiceInv
  <1>8. CASE \/ (\E k \in Chunk : InterceptChunk(k)) \/ SearchTurn \/ SearchDone
             \/ (\E n \in CacheBlocks : Configured(n)) \/ UNCHANGED vars
    <2>1. UNCHANGED <<alive, reqQueue, timer, mailbox>>
      BY <1>8 DEF InterceptChunk, SearchTurn, SearchDone, Configured, vars, queueVars
    <2> QED BY <2>1 DEF ServiceInv
  <1>9. ~InterceptProbe
    BY DEF InterceptProbe
  <1> QED
    BY <1>1, <1>2, <1>3, <1>4, <1>5, <1>6, <1>7, <1>8, <1>9 DEF Next, IPv6Thread, RelayerThread

\* As long as no probe passes, a queued block has its SERVICE message waiting or
\* the timer set for it, through every stop, restart and full mailbox
\* (relayer.c:213-218, 321-327).
THEOREM QueuedIsScheduled ==
  ASSUME ~Probes, MailboxLen > 2 PROVE Spec => []ServiceScheduled
  <1>1. Init => ServiceInv
    BY DEF Init, ServiceInv, Waits, Once
  <1>2. CacheInv /\ ServiceInv /\ [Next]_vars => ServiceInv'
    BY NextServiced DEF CacheInv
  <1>3. CacheInv /\ ServiceInv => ServiceScheduled
    <2> SUFFICES ASSUME TypeOK, ServiceInv PROVE ServiceScheduled
      BY DEF CacheInv
    <2>1. DOMAIN mailbox = 1..Len(mailbox)
      BY DEF TypeOK
    <2> QED BY <2>1 DEF ServiceInv, ServiceScheduled, Waits, Pending
  <1> QED BY <1>1, <1>2, <1>3, CacheInvariant, PTL DEF Spec
=============================================================================
