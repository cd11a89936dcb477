--------------------------- MODULE IoCache_proofs ---------------------------
(***************************************************************************)
(* Proofs about the block cache: it stays coherent with the device, its    *)
(* assertions hold, and a channel with it implements the bare device, for  *)
(* every device, cache size, request length and set of channels, as long   *)
(* as transfers stop at block boundaries and asynchronous reads succeed.   *)
(***************************************************************************)
EXTENDS IoCache, FiniteSetTheorems, TLAPS

\* The faults under which the cache keeps its promise.
CleanFaults == Faults \subseteq {"short"}

\* Shape of the request being served.
OpType ==
    /\ op.kind \in {"idle", "read", "write", "vec"}
    /\ op.count \in Nat /\ op.i \in Nat \ {0} /\ op.good \in 0..op.count
    /\ op.blks \in [1..op.count -> Blocks]
    /\ op.data \in [1..op.count -> Values]
    /\ op.nocache \in BOOLEAN
    /\ op.kind = "idle" => op.count = 0
    /\ op = [kind |-> op.kind, count |-> op.count, blks |-> op.blks,
             data |-> op.data, i |-> op.i, good |-> op.good, nocache |-> op.nocache]

\* No two cache blocks hold the same block.
Unique == \A f, g \in Bufs : icb_blkno[f] = icb_blkno[g] /\ f # g => icb_blkno[f] = NoBlk

\* A cache block is up to date, or the running request has yet to reach it.
Fresh ==
    \A f \in Bufs : icb_blkno[f] # NoBlk =>
        \/ icb_buf[f] = disk[icb_blkno[f]]
        \/ /\ op.kind \in {"write", "vec"}
           /\ \E k \in 1..op.count : op.i <= k /\ op.blks[k] = icb_blkno[f]

\* What the request will put in the cache, or return, is what the device holds.
DataOK ==
    \A k \in 1..op.count : (op.kind = "read" => k < op.i \/ k > op.good) =>
                               op.data[k] = disk[op.blks[k]]

\* The cached prefix of a read is still cached while it is being copied.
PrefixOK ==
    op.kind = "read" => \A k \in 1..op.good : op.i <= k => Cached(op.blks[k])

\* The use count is the number of channels that share the cache.
UseOK == attached \subseteq Channels /\ ic_use_count = Cardinality(attached)

\* Without a channel there is no request and nothing in the cache.
Detached ==
    attached = {} => op.kind = "idle" /\ \A f \in Bufs : icb_blkno[f] = NoBlk

IInv == TypeOK /\ UseOK /\ OpType /\ Unique /\ Fresh /\ DataOK /\ PrefixOK


-----------------------------------------------------------------------------
(* The list operations keep a cache block in every place.                  *)

\* io_cache_seen() returns a list of cache blocks.
LEMMA SeenType ==
    ASSUME TypeOK, NEW f \in Bufs
    PROVE  io_cache_seen(f) \in [Bufs -> Bufs]
<1>1. ASSUME NEW j \in Bufs
      PROVE  /\ ic_lru[j] \in Bufs
             /\ j < NrBlocks => ic_lru[j + 1] \in Bufs
             /\ j > 1 => ic_lru[j - 1] \in Bufs
  BY ConstAssumption DEF TypeOK, Bufs
<1>2. QED
  BY Zenon, <1>1 DEF io_cache_seen

\* io_cache_unsee() returns a list of cache blocks.
LEMMA UnseeType ==
    ASSUME TypeOK, NEW f \in Bufs
    PROVE  io_cache_unsee(f) \in [Bufs -> Bufs]
<1>1. ASSUME NEW j \in Bufs
      PROVE  /\ ic_lru[j] \in Bufs
             /\ j < NrBlocks => ic_lru[j + 1] \in Bufs
             /\ j > 1 => ic_lru[j - 1] \in Bufs
  BY ConstAssumption DEF TypeOK, Bufs
<1>2. QED
  BY Zenon, <1>1 DEF io_cache_unsee

\* So does whichever of the two a request uses.
LEMMA TouchType ==
    ASSUME TypeOK, NEW f \in Bufs, NEW nocache \in BOOLEAN
    PROVE  touch(f, nocache) \in [Bufs -> Bufs]
BY Zenon, SeenType, UnseeType DEF touch

\* A block that is cached is found, in a cache block that has its number.
LEMMA LookupFinds ==
    ASSUME NEW blk, Cached(blk)
    PROVE  io_cache_lookup(blk) \in Bufs /\ icb_blkno[io_cache_lookup(blk)] = blk
BY Zenon DEF Cached, io_cache_lookup

\* io_cache_pop_lru() returns a cache block.
LEMMA PopType ==
    ASSUME TypeOK
    PROVE  io_cache_pop_lru \in Bufs
BY ConstAssumption DEF TypeOK, io_cache_pop_lru, Bufs


-----------------------------------------------------------------------------
(* Every step preserves the inductive invariant.                           *)

\* The use count follows the channels that come and go.
LEMMA UseCount ==
    ASSUME IInv, NEW c \in Channels, NEW to \in Channels,
           io_init_cache(c) \/ io_share_cache(c, to) \/ io_destroy_cache(c)
    PROVE  UseOK' /\ ic_use_count' \in Nat
<1>1. IsFiniteSet(attached) /\ attached' \subseteq Channels
  BY Zenon, FS_Subset, ConstAssumption DEF IInv, UseOK, io_init_cache, io_share_cache, io_destroy_cache
<1>2. IsFiniteSet(attached')
  BY Zenon, <1>1, FS_Subset, ConstAssumption
<1>3. ic_use_count' = Cardinality(attached')
  <2>1. CASE io_init_cache(c)
    BY Zenon, <2>1, FS_Singleton DEF io_init_cache
  <2>2. CASE io_share_cache(c, to)
    BY Zenon, <1>1, <2>2, FS_AddElement DEF io_share_cache, IInv, UseOK
  <2>3. CASE io_destroy_cache(c)
    BY Zenon, <1>1, <2>3, FS_RemoveElement DEF io_destroy_cache, IInv, UseOK
  <2>4. QED
    BY Zenon, <2>1, <2>2, <2>3
<1>4. QED
  BY Zenon, <1>1, <1>2, <1>3, FS_CardinalityType DEF UseOK

\* Creating, sharing and dropping the cache happens between requests.
LEMMA ControlInv ==
    ASSUME IInv, NEW c \in Channels, NEW to \in Channels,
           io_init_cache(c) \/ io_share_cache(c, to) \/ io_destroy_cache(c)
    PROVE  IInv'
<1>u. UseOK' /\ ic_use_count' \in Nat
  BY Zenon, UseCount
<1>1. CASE UNCHANGED cache /\ UNCHANGED <<disk, op>>
  BY Zenon, <1>u, <1>1
     DEF IInv, TypeOK, UseOK, OpType, Unique, Fresh, DataOK, PrefixOK, Cached, cache
<1>2. CASE EmptyCache /\ UNCHANGED <<disk, op>> /\ op.kind = "idle"
  <2>1. TypeOK'
    BY Zenon, <1>u, <1>2 DEF IInv, TypeOK, UseOK, EmptyCache, Bufs
  <2>2. QED
    BY Zenon, <1>u, <1>2, <2>1 DEF IInv, TypeOK, OpType, Unique, Fresh, DataOK, PrefixOK, EmptyCache
<1>3. QED
  BY Zenon, <1>1, <1>2 DEF io_init_cache, io_share_cache, io_destroy_cache, cache

\* A read starts: the prefix is cached and the rest was just transferred.
LEMMA ReadStartInv ==
    ASSUME IInv, NEW c \in Channels, NEW count \in 1..MaxCount,
           NEW blks \in [1..count -> Blocks], NEW good \in 0..count,
           NEW junk \in Values, NEW nocache \in BOOLEAN,
           read_start(c, count, blks, good, junk, nocache)
    PROVE  IInv'
<1>1. /\ op.kind = "idle"
      /\ op' = [kind |-> "read", count |-> count, blks |-> blks, i |-> 1,
              good |-> good, nocache |-> nocache,
              data |-> [k \in 1..count |-> IF k <= good THEN junk ELSE disk[blks[k]]]]
      /\ UNCHANGED <<disk, icb_blkno, icb_buf, ic_lru, attached, ic_use_count>>
      /\ \A k \in 1..good : Cached(blks[k])
  BY Zenon DEF read_start, good_blocks, cache
<1>2. TypeOK'
  BY Zenon, <1>1 DEF IInv, TypeOK
<1>u. UseOK'
  BY Zenon, <1>1 DEF IInv, UseOK
<1>3. OpType'
  BY <1>1, ConstAssumption DEF IInv, TypeOK, OpType
<1>4. Unique' /\ Fresh' /\ PrefixOK'
  BY Zenon, <1>1 DEF IInv, Unique, Fresh, PrefixOK, Cached
<1>5. DataOK'
  BY <1>1 DEF DataOK
<1>6. QED
  BY Zenon, <1>2, <1>u, <1>3, <1>4, <1>5 DEF IInv

\* Stealing the first cache block of the list for a block that is not cached,
\* with what the device holds, disturbs neither types, uniqueness nor freshness.
LEMMA StealKeeps ==
    ASSUME IInv, NEW blk \in Blocks, ~Cached(blk), steal(blk, disk[blk]), UNCHANGED disk,
           UNCHANGED <<attached, ic_use_count>>, op'.kind = op.kind,
           op'.count = op.count, op'.blks = op.blks, op'.i = op.i + 1,
           op.i \in 1..op.count, op.blks[op.i] = blk
    PROVE  TypeOK' /\ UseOK' /\ Unique' /\ Fresh'
<1> DEFINE p == io_cache_pop_lru
<1>1. p \in Bufs /\ io_cache_seen(p) \in [Bufs -> Bufs]
  BY Zenon, PopType, SeenType DEF IInv
<1>2. /\ icb_blkno' = [icb_blkno EXCEPT ![p] = blk]
      /\ icb_buf' = [icb_buf EXCEPT ![p] = disk[blk]]
      /\ ic_lru' = io_cache_seen(p)
  BY Zenon DEF steal
<1>3. disk[blk] \in Values /\ blk # NoBlk
  BY ConstAssumption DEF IInv, TypeOK, NoBlk
<1>4. TypeOK' /\ UseOK'
  BY Zenon, <1>1, <1>2, <1>3 DEF IInv, TypeOK, UseOK
<1>5. Unique'
  BY Zenon, <1>1, <1>2 DEF IInv, TypeOK, Unique, Cached
<1>6. Fresh'
  <2>1. SUFFICES ASSUME NEW g \in Bufs, icb_blkno'[g] # NoBlk, icb_buf'[g] # disk[icb_blkno'[g]]
                 PROVE  /\ op.kind \in {"write", "vec"}
                        /\ \E k \in 1..op.count : op.i + 1 <= k /\ op.blks[k] = icb_blkno'[g]
    BY Zenon DEF Fresh
  <2>2. g # p /\ icb_blkno'[g] = icb_blkno[g] /\ icb_buf'[g] = icb_buf[g]
    BY Zenon, <1>1, <1>2, <2>1 DEF IInv, TypeOK
  <2>3. /\ op.kind \in {"write", "vec"}
        /\ \E k \in 1..op.count : op.i <= k /\ op.blks[k] = icb_blkno[g]
    BY Zenon, <2>1, <2>2 DEF IInv, Fresh
  <2>4. icb_blkno[g] # blk
    BY Zenon DEF Cached
  <2>5. QED
    BY <2>2, <2>3, <2>4 DEF IInv, OpType
<1>7. QED
  BY Zenon, <1>4, <1>5, <1>6

\* One iteration of the read's second loop.
LEMMA ReadSyncInv ==
    ASSUME IInv, read_sync
    PROVE  IInv'
<1> DEFINE blk == op.blks[op.i]
           f == io_cache_lookup(blk)
           new(d) == [kind |-> "read", count |-> op.count, blks |-> op.blks, data |-> d,
                      i |-> op.i + 1, good |-> op.good, nocache |-> op.nocache]
<1>1. /\ op.kind = "read" /\ op.i \in 1..op.count /\ blk \in Blocks
      /\ UNCHANGED <<disk, attached, ic_use_count>>
  BY DEF read_sync, IInv, OpType
<1>2. op.i <= op.good => Cached(blk)
  BY <1>1 DEF IInv, PrefixOK, OpType
<1>3. op' = new([op.data EXCEPT ![op.i] = IF op.i <= op.good THEN icb_buf[f] ELSE op.data[op.i]])
  BY Zenon, <1>1, <1>2 DEF read_sync, IInv, OpType
<1>4. Cached(blk) => f \in Bufs /\ icb_blkno[f] = blk /\ icb_buf[f] = disk[blk]
  <2>1. blk # NoBlk
    BY <1>1, ConstAssumption DEF NoBlk
  <2>2. QED
    BY Zenon, <1>1, <2>1, LookupFinds DEF IInv, Fresh
<1>5. op.i > op.good => op.data[op.i] = disk[blk]
  BY Zenon, <1>1 DEF IInv, DataOK, OpType
<1>6. op' = new([op.data EXCEPT ![op.i] = disk[blk]])
  BY <1>1, <1>2, <1>3, <1>4, <1>5 DEF IInv, OpType
<1>7. OpType'
  <2>1. [op.data EXCEPT ![op.i] = disk[blk]] \in [1..op.count -> Values]
    BY Zenon, <1>1 DEF IInv, TypeOK, OpType
  <2>2. QED
    BY <1>1, <1>6, <2>1 DEF IInv, OpType
<1>8. DataOK'
  BY <1>1, <1>6 DEF IInv, OpType, DataOK
<1>9. CASE Cached(blk)
  <2>1. UNCHANGED <<icb_blkno, icb_buf>> /\ ic_lru' = touch(f, op.nocache)
    BY Zenon, <1>9 DEF read_sync
  <2>2. TypeOK' /\ UseOK'
    BY Zenon, <1>1, <1>4, <1>6, <1>9, <2>1, TouchType DEF IInv, TypeOK, UseOK, OpType
  <2>3. Unique' /\ Fresh'
    BY Zenon, <1>1, <1>6, <2>1 DEF IInv, Unique, Fresh
  <2>4. PrefixOK'
    BY <1>1, <1>6, <2>1 DEF IInv, PrefixOK, OpType, Cached
  <2>5. QED
    BY Zenon, <1>7, <1>8, <2>2, <2>3, <2>4 DEF IInv
<1>10. CASE ~Cached(blk)
  <2>1. op.i > op.good
    BY <1>1, <1>2, <1>10 DEF IInv, OpType
  <2>2. UNCHANGED cache \/ steal(blk, disk[blk])
    BY Zenon, <1>5, <1>10, <2>1 DEF read_sync
  <2>3. PrefixOK'
    BY <1>1, <1>6, <2>1 DEF IInv, OpType, PrefixOK
  <2>4. CASE UNCHANGED cache
    BY Zenon, <1>1, <1>6, <1>7, <1>8, <2>3, <2>4 DEF IInv, TypeOK, UseOK, Unique, Fresh, cache
  <2>5. CASE steal(blk, disk[blk])
    <3>1. TypeOK' /\ UseOK' /\ Unique' /\ Fresh'
      BY Zenon, <1>1, <1>6, <1>10, <2>5, StealKeeps
    <3>2. QED
      BY Zenon, <1>7, <1>8, <2>3, <3>1 DEF IInv
  <2>6. QED
    BY Zenon, <2>2, <2>4, <2>5
<1>11. QED
  BY Zenon, <1>9, <1>10

\* A write starts: the blocks that reached the device are the ones still to be
\* copied into the cache.
LEMMA WriteStartInv ==
    ASSUME CleanFaults, IInv, NEW c \in Channels, NEW count \in 1..MaxCount,
           NEW blks \in Runs(count), NEW data \in [1..count -> Values],
           NEW n \in 0..count, NEW torn \in Values, NEW nocache \in BOOLEAN,
           write_start(c, count, blks, data, n, torn, nocache)
    PROVE  IInv'
<1>1. /\ op.kind = "idle"
      /\ disk' = written(count, blks, data, n, torn)
      /\ op' = [kind |-> "write", count |-> n, blks |-> [k \in 1..n |-> blks[k]],
                i |-> 1, good |-> 0, nocache |-> nocache,
                data |-> [k \in 1..n |-> data[k]]]
      /\ UNCHANGED <<icb_blkno, icb_buf, ic_lru, attached, ic_use_count>>
      /\ n < count => torn = disk[blks[n + 1]]
  BY Zenon DEF write_start, cache, CleanFaults
<1>2. /\ blks \in [1..count -> Blocks] /\ count \in Nat /\ n \in Nat /\ n <= count
      /\ \A k \in 1..count : blks[k] = blks[1] + k - 1
      /\ blks[1] \in Nat /\ Blocks \subseteq Nat
  <2>1. blks \in [1..count -> Blocks] /\ 1 \in 1..count
    BY ConstAssumption DEF Runs
  <2>2. blks[1] \in Blocks
    BY Zenon, <2>1
  <2>3. count \in Nat /\ n \in Nat /\ n <= count
    BY ConstAssumption
  <2>4. Blocks \subseteq Nat
    BY Zenon, ConstAssumption
  <2>4a. blks[1] \in Nat
    BY Zenon, <2>2, <2>4, Zenon
  <2>5. \A k \in 1..count : blks[k] = blks[1] + k - 1
    BY Zenon DEF Runs
  <2>6. QED
    BY Zenon, <2>1, <2>3, <2>4, <2>4a, <2>5
<1>3. disk' \in [Blocks -> Values]
  <2>1. \A b \in Blocks : blks[1] <= b /\ b < blks[1] + n => b - blks[1] + 1 \in 1..count
    BY <1>2
  <2>2. QED
    BY Zenon, <1>1, <2>1 DEF written, IInv, TypeOK
<1>4. TypeOK' /\ UseOK'
  BY Zenon, <1>1, <1>3 DEF IInv, TypeOK, UseOK
<1>5. OpType'
  BY <1>1, <1>2 DEF OpType
<1>6. \A k \in 1..n : data[k] = disk'[blks[k]]
  <2>1. SUFFICES ASSUME NEW k \in 1..n PROVE data[k] = disk'[blks[k]]
    BY Zenon
  <2>2. /\ blks[k] \in Blocks /\ blks[k] - blks[1] + 1 = k
        /\ blks[1] <= blks[k] /\ blks[k] < blks[1] + n
    BY <1>2
  <2>3. QED
    BY Zenon, <1>1, <2>2 DEF written
<1>7. \A b \in Blocks : disk'[b] = disk[b] \/ \E k \in 1..n : blks[k] = b
  <2>1. SUFFICES ASSUME NEW b \in Blocks, disk'[b] # disk[b]
                 PROVE  \E k \in 1..n : blks[k] = b
    BY Zenon
  <2>2. blks[1] \in Int /\ b \in Int
    BY <1>2
  <2>3. n < count => blks[n + 1] = blks[1] + n
    BY <1>2, <2>2
  <2>4. blks[1] <= b /\ b < blks[1] + n
    BY Zenon, <1>1, <1>2, <2>1, <2>2, <2>3 DEF written
  <2>5. b - blks[1] + 1 \in 1..n /\ blks[b - blks[1] + 1] = b
    BY <1>2, <2>2, <2>4
  <2>6. QED
    BY Zenon, <2>5
<1>8. Unique' /\ DataOK' /\ PrefixOK'
  BY Zenon, <1>1, <1>2, <1>6 DEF IInv, Unique, DataOK, PrefixOK
<1>9. Fresh'
  <2>0. \A k \in 1..n : op'.i <= k /\ op'.blks[k] = blks[k]
    BY <1>1, <1>2
  <2>1. SUFFICES ASSUME NEW f \in Bufs, icb_blkno[f] # NoBlk, icb_buf[f] # disk'[icb_blkno[f]]
                 PROVE  \E k \in 1..n : blks[k] = icb_blkno[f]
    BY Zenon, <1>1, <2>0 DEF Fresh
  <2>2. icb_blkno[f] \in Blocks /\ icb_buf[f] = disk[icb_blkno[f]]
    BY Zenon, <1>1, <2>1 DEF IInv, TypeOK, Fresh
  <2>3. QED
    BY Zenon, <1>7, <2>1, <2>2
<1>10. QED
  BY Zenon, <1>4, <1>5, <1>8, <1>9 DEF IInv

\* A vectored read starts: all its blocks were just transferred.
LEMMA VecStartInv ==
    ASSUME CleanFaults, IInv, NEW c \in Channels, NEW count \in 1..MaxCount,
           NEW blks \in [1..count -> Blocks], NEW failed \in Failures(count),
           NEW junk \in Values, NEW nocache \in BOOLEAN,
           vec_start(c, count, blks, failed, junk, nocache)
    PROVE  IInv'
<1>1. /\ op.kind = "idle"
      /\ op' = [kind |-> "vec", count |-> count, blks |-> blks, i |-> 1, good |-> 0,
                nocache |-> nocache, data |-> [k \in 1..count |-> disk[blks[k]]]]
      /\ UNCHANGED <<disk, icb_blkno, icb_buf, ic_lru, attached, ic_use_count>>
  <2>1. failed = {}
    BY Zenon DEF Failures, CleanFaults
  <2>2. QED
    BY Zenon, <2>1 DEF vec_start, cache
<1>2. TypeOK' /\ UseOK'
  BY Zenon, <1>1 DEF IInv, TypeOK, UseOK
<1>3. OpType'
  BY <1>1, ConstAssumption DEF IInv, TypeOK, OpType
<1>4. Unique' /\ Fresh' /\ PrefixOK' /\ DataOK'
  BY Zenon, <1>1 DEF IInv, Unique, Fresh, PrefixOK, DataOK
<1>5. QED
  BY Zenon, <1>2, <1>3, <1>4 DEF IInv

\* One iteration of the loop that copies completed blocks into the cache: a
\* cache block that was behind the device is brought up to date, unless a later
\* iteration will do it.
LEMMA CopySyncInv ==
    ASSUME IInv, copy_sync
    PROVE  IInv'
<1> DEFINE blk == op.blks[op.i]
           f == io_cache_lookup(blk)
<1>1. /\ op.kind \in {"write", "vec"} /\ op.i \in 1..op.count /\ blk \in Blocks
      /\ UNCHANGED <<disk, attached, ic_use_count>>
      /\ op' = [kind |-> op.kind, count |-> op.count, blks |-> op.blks, data |-> op.data,
                i |-> op.i + 1, good |-> op.good, nocache |-> op.nocache]
  BY DEF copy_sync, IInv, OpType
<1>2. op.data[op.i] = disk[blk]
  BY Zenon, <1>1 DEF IInv, DataOK
<1>3. OpType' /\ DataOK' /\ PrefixOK'
  BY <1>1 DEF IInv, OpType, DataOK, PrefixOK
<1>4. CASE Cached(blk)
  <2>1. f \in Bufs /\ icb_blkno[f] = blk
    BY Zenon, <1>4, LookupFinds
  <2>2. UNCHANGED icb_blkno /\ icb_buf' = [icb_buf EXCEPT ![f] = disk[blk]]
        /\ ic_lru' = touch(f, op.nocache)
    BY Zenon, <1>2, <1>4 DEF copy_sync, refresh
  <2>3. TypeOK' /\ UseOK'
    BY Zenon, <1>1, <2>1, <2>2, TouchType DEF IInv, TypeOK, UseOK, OpType
  <2>4. Unique'
    BY Zenon, <2>2 DEF IInv, Unique
  <2>5. Fresh'
    <3>1. SUFFICES ASSUME NEW g \in Bufs, icb_blkno[g] # NoBlk, icb_buf'[g] # disk[icb_blkno[g]]
                   PROVE  \E k \in 1..op.count : op.i + 1 <= k /\ op.blks[k] = icb_blkno[g]
      BY Zenon, <1>1, <2>2 DEF Fresh
    <3>2. g # f /\ icb_buf'[g] = icb_buf[g]
      BY Zenon, <2>1, <2>2, <3>1 DEF IInv, TypeOK
    <3>3. icb_blkno[g] # blk
      BY Zenon, <2>1, <3>1, <3>2 DEF IInv, Unique
    <3>4. QED
      BY <1>1, <3>1, <3>2, <3>3 DEF IInv, Fresh, OpType
  <2>6. QED
    BY Zenon, <1>3, <2>3, <2>4, <2>5 DEF IInv
<1>5. CASE ~Cached(blk)
  <2>1. UNCHANGED cache \/ steal(blk, disk[blk])
    BY Zenon, <1>2, <1>5 DEF copy_sync
  <2>2. CASE UNCHANGED cache
    <3>1. TypeOK' /\ UseOK' /\ Unique'
      BY Zenon, <1>1, <2>2 DEF IInv, TypeOK, UseOK, Unique, cache
    <3>2. Fresh'
      BY <1>1, <1>5, <2>2 DEF IInv, Fresh, OpType, cache, Cached
    <3>3. QED
      BY Zenon, <1>3, <3>1, <3>2 DEF IInv
  <2>3. CASE steal(blk, disk[blk])
    <3>1. TypeOK' /\ UseOK' /\ Unique' /\ Fresh'
      BY Zenon, <1>1, <1>5, <2>3, StealKeeps
    <3>2. QED
      BY Zenon, <1>3, <3>1 DEF IInv
  <2>4. QED
    BY Zenon, <2>1, <2>2, <2>3
<1>6. QED
  BY Zenon, <1>4, <1>5

\* An uncached write happens only while no channel has a cache, so no cache
\* block is connected.
LEMMA UncachedWriteInv ==
    ASSUME IInv, Detached, NEW count \in 1..MaxCount, NEW blks \in Runs(count),
           NEW data \in [1..count -> Values], NEW n \in 0..count,
           unix_io_write_block_full(count, blks, data, n)
    PROVE  IInv' /\ Detached'
<1>1. /\ op.kind = "idle" /\ attached = {}
      /\ UNCHANGED <<icb_blkno, icb_buf, ic_lru, attached, ic_use_count, op>>
      /\ disk' = written(count, blks, data, n, disk[blks[IF n < count THEN n + 1 ELSE 1]])
  BY Zenon DEF unix_io_write_block_full, cache
<1>2. /\ blks \in [1..count -> Blocks] /\ count \in Nat /\ n \in Nat /\ n <= count
      /\ 1 \in 1..count /\ Blocks \subseteq Nat
  BY ConstAssumption DEF Runs
<1>3. blks[1] \in Blocks /\ blks[IF n < count THEN n + 1 ELSE 1] \in Blocks
  BY <1>2
<1>3a. blks[1] \in Nat
  BY Zenon, <1>2, <1>3, Zenon
<1>4. disk' \in [Blocks -> Values]
  <2>1. \A b \in Blocks : blks[1] <= b /\ b < blks[1] + n => b - blks[1] + 1 \in 1..count
    BY <1>2, <1>3a
  <2>2. QED
    BY Zenon, <1>1, <1>3, <2>1 DEF written, IInv, TypeOK
<1>5. TypeOK' /\ UseOK' /\ Unique' /\ Fresh' /\ Detached'
  BY Zenon, <1>1, <1>4 DEF IInv, TypeOK, UseOK, Unique, Fresh, Detached
<1>6. OpType' /\ PrefixOK'
  BY Zenon, <1>1 DEF IInv, OpType, PrefixOK
<1>7. DataOK'
  BY <1>1 DEF IInv, OpType, DataOK
<1>8. QED
  BY Zenon, <1>5, <1>6, <1>7 DEF IInv

\* A request that returns, fails or bypasses the cache to read leaves the device
\* and the cache alone.
LEMMA ReturnInv ==
    ASSUME IInv, Detached, UNCHANGED <<disk, icb_blkno, icb_buf, ic_lru, attached, ic_use_count>>,
           \/ op' = Idle /\ op.kind # "idle" /\ op.i > op.count
           \/ UNCHANGED op
    PROVE  IInv' /\ Detached'
<1>1. CASE UNCHANGED op
  BY Zenon, <1>1 DEF IInv, TypeOK, UseOK, OpType, Unique, Fresh, DataOK, PrefixOK, Cached, Detached
<1>2. CASE op' = Idle /\ op.kind # "idle" /\ op.i > op.count
  <2>1. TypeOK' /\ UseOK' /\ Unique' /\ Detached'
    BY Zenon, <1>2 DEF IInv, TypeOK, UseOK, Unique, Detached, Idle
  <2>2. OpType'
    BY <1>2 DEF OpType, Idle
  <2>3. Fresh'
    BY <1>2 DEF IInv, OpType, Fresh
  <2>4. DataOK' /\ PrefixOK'
    BY <1>2 DEF Idle, DataOK, PrefixOK
  <2>5. QED
    BY Zenon, <2>1, <2>2, <2>3, <2>4 DEF IInv
<1>3. QED
  BY Zenon, <1>1, <1>2

\* A request needs a channel, and the last channel leaves an empty cache.
LEMMA DetachedInv ==
    ASSUME IInv, Detached, Next
    PROVE  Detached'
<1>1. ASSUME NEW c \in Channels, NEW to \in Channels,
             io_init_cache(c) \/ io_share_cache(c, to) \/ io_destroy_cache(c)
      PROVE  Detached'
  <2>1. UseOK'
    BY Zenon, <1>1, UseCount
  <2>2. attached' = {} => ic_use_count' = 0
    BY Zenon, <2>1, FS_EmptySet DEF UseOK
  <2>3. QED
    BY Zenon, <1>1, <2>2 DEF Detached, io_init_cache, io_share_cache, io_destroy_cache, EmptyCache, cache
<1>2. CASE CacheControl
  BY Zenon, <1>1, <1>2 DEF CacheControl
<1>3. CASE ReadRequest
  BY <1>3 DEF Detached, ReadRequest, read_start, read_error, unix_io_read_block, cache
<1>4. CASE WriteRequest
  BY <1>4 DEF Detached, WriteRequest, write_start, unix_io_write_block_full, cache
<1>5. CASE VecRequest \/ vec_error
  BY <1>5 DEF Detached, VecRequest, vec_start, vec_error, unix_vec_read_blocks, cache
<1>6. CASE read_sync \/ copy_sync
  BY Zenon, <1>6 DEF Detached, read_sync, copy_sync
<1>7. CASE read_return \/ copy_return
  BY Zenon, <1>7 DEF Detached, read_return, copy_return, cache
<1>8. QED
  BY Zenon, <1>2, <1>3, <1>4, <1>5, <1>6, <1>7 DEF Next

\* Every step of a request, and every change of the cache, keeps the invariant.
LEMMA NextInv ==
    ASSUME CleanFaults, IInv, Detached, Next
    PROVE  IInv'
<1>1. CASE CacheControl
  BY Zenon, <1>1, ControlInv DEF CacheControl
<1>2. CASE ReadRequest
  <2>0. PICK c \in Channels, count \in 1..MaxCount, nocache \in BOOLEAN :
          \E blks \in Runs(count) :
            \/ \E good \in 0..count, junk \in Values :
                  read_start(c, count, blks, good, junk, nocache)
            \/ read_error(c, count, blks)
            \/ unix_io_read_block(c, count, blks)
    BY Zenon, <1>2 DEF ReadRequest
  <2>1. PICK blks \in Runs(count) :
          \/ \E good \in 0..count, junk \in Values :
                read_start(c, count, blks, good, junk, nocache)
          \/ read_error(c, count, blks)
          \/ unix_io_read_block(c, count, blks)
    BY Zenon, <2>0
  <2>2. blks \in [1..count -> Blocks]
    BY Zenon DEF Runs
  <2>3. CASE read_error(c, count, blks) \/ unix_io_read_block(c, count, blks)
    BY Zenon, <2>3, ReturnInv DEF read_error, unix_io_read_block, cache
  <2>4. QED
    BY Zenon, <2>1, <2>2, <2>3, ReadStartInv
<1>3. CASE WriteRequest
  BY Zenon, <1>3, WriteStartInv, UncachedWriteInv DEF WriteRequest
<1>4. CASE VecRequest \/ vec_error
  <2>1. ASSUME NEW c \in Channels, NEW count, NEW blks, NEW failed, NEW junk,
               unix_vec_read_blocks(c, count, blks, failed, junk)
        PROVE  IInv'
    BY Zenon, <2>1, ReturnInv DEF unix_vec_read_blocks, cache
  <2>2. CASE vec_error
    BY Zenon, <2>2, ReturnInv DEF vec_error, cache
  <2>3. QED
    BY Zenon, <1>4, <2>1, <2>2, VecStartInv DEF VecRequest
<1>5. CASE read_return \/ copy_return
  <2>1. /\ UNCHANGED <<disk, icb_blkno, icb_buf, ic_lru, attached, ic_use_count>>
        /\ op' = Idle /\ op.kind # "idle" /\ op.i > op.count
    BY Zenon, <1>5 DEF read_return, copy_return, cache
  <2>2. QED
    BY Zenon, <2>1, ReturnInv
<1>6. QED
  BY Zenon, <1>1, <1>2, <1>3, <1>4, <1>5, ReadSyncInv, CopySyncInv DEF Next

\* A program starts without a cache, which satisfies the invariant.
LEMMA InitInv == Init => IInv /\ Detached
<1>1. SUFFICES ASSUME Init PROVE IInv /\ Detached
  BY Zenon
<1>2. TypeOK /\ Detached /\ Unique /\ Fresh
  BY Zenon, <1>1, ConstAssumption DEF Init, TypeOK, Idle, Detached, Unique, Fresh, Bufs
<1>3. UseOK
  BY Zenon, <1>1, FS_EmptySet DEF Init, UseOK
<1>4. OpType /\ DataOK /\ PrefixOK
  BY <1>1 DEF Init, OpType, DataOK, PrefixOK, Idle
<1>5. QED
  BY Zenon, <1>2, <1>3, <1>4 DEF IInv

\* Under clean faults the inductive invariant holds in every reachable state.
LEMMA InvHolds == CleanFaults => (Spec => [](IInv /\ Detached))
<1> DEFINE Inv == IInv /\ Detached
<1>1. SUFFICES ASSUME CleanFaults PROVE Spec => []Inv
  BY Zenon
<1>2. Init => Inv
  BY Zenon, InitInv
<1>3. Inv /\ [Next]_vars => Inv'
  <2>1. CASE Next
    BY Zenon, <1>1, <2>1, NextInv, DetachedInv
  <2>2. ASSUME Inv, UNCHANGED vars PROVE Inv'
    BY Zenon, <2>2, ReturnInv DEF vars
  <2>3. QED
    BY Zenon, <2>1, <2>2
<1>4. QED
  BY <1>2, <1>3, PTL DEF Spec

\* Types, for every device, cache size and set of channels.
THEOREM TypeCorrect == CleanFaults => (Spec => []TypeOK)
<1>1. IInv /\ Detached => TypeOK
  BY Zenon DEF IInv
<1>2. QED
  BY <1>1, InvHolds, PTL

\* io_cache_read_blocks(), io_cache_write_blocks() and the sharing of a cache
\* leave every cached block equal to the block on the device.
THEOREM Coherence == CleanFaults => (Spec => []CacheCoherent)
<1>1. IInv /\ Detached => CacheCoherent
  BY Zenon DEF IInv, Fresh, CacheCoherent
<1>2. QED
  BY <1>1, InvHolds, PTL

\* assert(icb) in io_cache_read_blocks() and assert(p) in io_cache_insert().
THEOREM Asserts == CleanFaults => (Spec => []AssertsHold)
<1>1. IInv /\ Detached => AssertsHold
  BY Zenon DEF IInv, OpType, Unique, AssertsHold
<1>2. QED
  BY <1>1, InvHolds, PTL

\* io_set_nocache() and the nocache calls: the blocks in the cache stay the same.
THEOREM Nocache == Spec => NocacheKeepsCache
<1>1. [Next]_vars => [op.kind # "idle" /\ op.nocache => icb_blkno' = icb_blkno]_vars
  <2>1. CASE ReadRequest \/ WriteRequest \/ VecRequest \/ vec_error \/ CacheControl
    <3>1. op.kind = "idle"
      <4>1. CASE ReadRequest \/ WriteRequest
        BY <4>1 DEF ReadRequest, read_start, read_error, unix_io_read_block, WriteRequest,
           write_start, unix_io_write_block_full
      <4>2. CASE VecRequest \/ vec_error
        BY Zenon, <4>2 DEF VecRequest, vec_start, vec_error, unix_vec_read_blocks
      <4>3. CASE CacheControl
        BY Zenon, <4>3 DEF CacheControl, io_init_cache, io_share_cache, io_destroy_cache
      <4>4. QED
        BY Zenon, <2>1, <4>1, <4>2, <4>3
    <3>2. QED
      BY Zenon, <3>1
  <2>2. CASE read_return \/ copy_return
    BY Zenon, <2>2 DEF read_return, copy_return, cache
  <2>3. CASE read_sync
    BY Zenon, <2>3 DEF read_sync, cache
  <2>4. CASE copy_sync
    BY Zenon, <2>4 DEF copy_sync, refresh, cache
  <2>5. QED
    BY Zenon, <2>1, <2>2, <2>3, <2>4 DEF Next
<1>2. QED
  BY <1>1, PTL DEF Spec, NocacheKeepsCache

-----------------------------------------------------------------------------
(* The list from which cache blocks are stolen.                            *)

\* Moving a cache block to either end of the list loses no other.
LEMMA TouchComplete ==
    ASSUME TypeOK, LruComplete, NEW f \in Bufs, NEW g \in Bufs
    PROVE  /\ \E j \in Bufs : io_cache_seen(f)[j] = g
           /\ \E j \in Bufs : io_cache_unsee(f)[j] = g
<1>1. Place(f) \in Bufs /\ ic_lru[Place(f)] = f
  BY Zenon DEF LruComplete, Place
<1>2. PICK q \in Bufs : ic_lru[q] = g
  BY Zenon DEF LruComplete
<1>3. \E j \in Bufs : io_cache_seen(f)[j] = g
  <2>1. CASE q < Place(f)
    BY Zenon, <1>2, <2>1 DEF io_cache_seen
  <2>2. CASE q > Place(f)
    <3>1. q - 1 \in Bufs /\ ~(q - 1 < Place(f)) /\ q - 1 < NrBlocks /\ (q - 1) + 1 = q
      BY <1>1, <2>2, ConstAssumption DEF Bufs
    <3>2. io_cache_seen(f)[q - 1] = g
      BY Zenon, <1>2, <3>1 DEF io_cache_seen
    <3>3. QED
      BY Zenon, <3>1, <3>2
  <2>3. CASE q = Place(f)
    <3>1. NrBlocks \in Bufs /\ ~(NrBlocks < Place(f)) /\ g = f
      BY <1>1, <1>2, <2>3, ConstAssumption DEF Bufs
    <3>2. QED
      BY <3>1, ConstAssumption DEF io_cache_seen, Bufs
  <2>4. QED
    BY <1>1, <2>1, <2>2, <2>3, ConstAssumption DEF Bufs
<1>4. \E j \in Bufs : io_cache_unsee(f)[j] = g
  <2>1. CASE q > Place(f)
    BY Zenon, <1>2, <2>1 DEF io_cache_unsee
  <2>2. CASE q < Place(f)
    <3>1. q + 1 \in Bufs /\ ~(q + 1 > Place(f)) /\ q + 1 > 1 /\ (q + 1) - 1 = q
      BY <1>1, <2>2, ConstAssumption DEF Bufs
    <3>2. io_cache_unsee(f)[q + 1] = g
      BY Zenon, <1>2, <3>1 DEF io_cache_unsee
    <3>3. QED
      BY Zenon, <3>1, <3>2
  <2>3. CASE q = Place(f)
    <3>1. 1 \in Bufs /\ ~(1 > Place(f)) /\ g = f
      BY <1>1, <1>2, <2>3, ConstAssumption DEF Bufs
    <3>2. QED
      BY <3>1 DEF io_cache_unsee
  <2>4. QED
    BY <1>1, <2>1, <2>2, <2>3, ConstAssumption DEF Bufs
<1>5. QED
  BY Zenon, <1>3, <1>4

\* No step loses a cache block from the list.
LEMMA LruInv ==
    ASSUME IInv, LruComplete, Next
    PROVE  LruComplete'
<1>1. CASE UNCHANGED ic_lru
  BY Zenon, <1>1 DEF LruComplete
<1>2. CASE EmptyCache
  BY Zenon, <1>2 DEF LruComplete, EmptyCache
<1>3. ASSUME NEW f \in Bufs, ic_lru' = io_cache_seen(f) \/ ic_lru' = io_cache_unsee(f)
      PROVE  LruComplete'
  <2>1. TypeOK
    BY Zenon DEF IInv
  <2>2. \A g \in Bufs : /\ \E j \in Bufs : io_cache_seen(f)[j] = g
                        /\ \E j \in Bufs : io_cache_unsee(f)[j] = g
    BY Zenon, <2>1, TouchComplete
  <2>3. CASE ic_lru' = io_cache_seen(f)
    BY Zenon, <2>2, <2>3 DEF LruComplete
  <2>4. CASE ic_lru' = io_cache_unsee(f)
    BY Zenon, <2>2, <2>4 DEF LruComplete
  <2>5. QED
    BY Zenon, <1>3, <2>3, <2>4
<1>4. CASE read_sync
  BY Zenon, <1>1, <1>3, <1>4, PopType, LookupFinds DEF read_sync, steal, touch, cache, IInv
<1>5. CASE copy_sync
  BY Zenon, <1>1, <1>3, <1>5, PopType, LookupFinds DEF copy_sync, refresh, steal, touch, cache, IInv
<1>6. CASE CacheControl
  BY Zenon, <1>1, <1>2, <1>6 DEF CacheControl, io_init_cache, io_share_cache, io_destroy_cache, cache
<1>7. CASE ReadRequest \/ WriteRequest \/ VecRequest \/ vec_error \/ read_return \/ copy_return
  BY SMTT(40), <1>1, <1>7 DEF ReadRequest, read_start, read_error, unix_io_read_block, WriteRequest,
     write_start, unix_io_write_block_full, VecRequest, vec_start, vec_error,
     unix_vec_read_blocks, read_return, copy_return, cache
<1>8. QED
  BY Zenon, <1>4, <1>5, <1>6, <1>7 DEF Next

\* io_cache_seen(), io_cache_unsee() and io_cache_pop_lru() keep every cache
\* block on ic_lru.
THEOREM LruKeepsAll == CleanFaults => (Spec => []LruComplete)
<1>1. SUFFICES ASSUME CleanFaults PROVE Spec => []LruComplete
  BY Zenon
<1>2. Init => LruComplete
  BY Zenon DEF Init, LruComplete
<1>3. IInv /\ LruComplete /\ [Next]_vars => LruComplete'
  <2>1. ASSUME LruComplete, UNCHANGED vars PROVE LruComplete'
    BY Zenon, <2>1 DEF vars, LruComplete
  <2>2. QED
    BY Zenon, <2>1, LruInv
<1>4. Spec => [](IInv /\ Detached)
  BY Zenon, <1>1, InvHolds
<1>5. QED
  BY <1>2, <1>3, <1>4, PTL DEF Spec

-----------------------------------------------------------------------------
(* The refinement.                                                         *)

\* A request of the cached channel is a request of the device, and what it
\* returns is what the device holds.
LEMMA StepRefines ==
    ASSUME CleanFaults, IInv, IInv', Next
    PROVE  [Device!Next]_<<disk, ret>>
<1>0. disk' \in [Blocks -> Values]
  BY Zenon DEF IInv, TypeOK
<1>1. CASE ret' = NoRead
  BY Zenon, <1>0, <1>1 DEF Device!Next, Device!Request, NoRead, Device!NoRead
<1>2. ASSUME NEW n \in Nat, NEW blks \in [1..n -> Blocks], UNCHANGED disk,
             ret' = [blks |-> blks, data |-> [k \in 1..n |-> disk[blks[k]]]]
      PROVE  Device!Read
  <2>1. ret'.blks = blks /\ DOMAIN ret'.blks = 1..n
    BY Zenon, <1>2
  <2>2. QED
    BY Zenon, <1>2, <2>1 DEF Device!Read
<1>3. CASE read_return \/ (copy_return /\ op.kind = "vec")
  <2>1. /\ op.count \in Nat /\ op.blks \in [1..op.count -> Blocks] /\ UNCHANGED disk
        /\ ret' = [blks |-> op.blks, data |-> op.data] /\ op.i > op.count
    BY Zenon, <1>3 DEF read_return, copy_return, IInv, OpType
  <2>2. \A k \in 1..op.count : op.data[k] = disk[op.blks[k]]
    BY <2>1 DEF IInv, OpType, DataOK
  <2>3. op.data = [k \in 1..op.count |-> disk[op.blks[k]]]
    BY Zenon, <2>2 DEF IInv, OpType
  <2>4. QED
    BY Zenon, <1>2, <2>1, <2>3 DEF Device!Next
<1>4. ASSUME NEW c \in Channels, NEW count \in 1..MaxCount, NEW blks \in Runs(count),
             unix_io_read_block(c, count, blks)
      PROVE  Device!Next
  <2>1. count \in Nat /\ blks \in [1..count -> Blocks]
    BY ConstAssumption DEF Runs
  <2>2. QED
    BY Zenon, <1>2, <1>4, <2>1 DEF unix_io_read_block, Device!Next
<1>5. CASE read_sync \/ copy_sync
  BY Zenon, <1>5 DEF read_sync, copy_sync
<1>6. CASE copy_return /\ op.kind # "vec"
  BY Zenon, <1>1, <1>6 DEF copy_return
<1>7. CASE CacheControl
  BY Zenon, <1>1, <1>7 DEF CacheControl, io_init_cache, io_share_cache, io_destroy_cache
<1>8. CASE ReadRequest
  BY <1>1, <1>4, <1>8 DEF ReadRequest, read_start, read_error
<1>9. CASE WriteRequest
  BY <1>1, <1>9 DEF WriteRequest, write_start, unix_io_write_block_full
<1>10. CASE VecRequest \/ vec_error
  <2>1. ASSUME NEW c \in Channels, NEW count \in 1..MaxCount, NEW blks \in [1..count -> Blocks],
               NEW failed \in Failures(count), NEW junk,
               unix_vec_read_blocks(c, count, blks, failed, junk)
        PROVE  Device!Next
    <3>1. failed = {} /\ count \in Nat
      BY ConstAssumption DEF Failures, CleanFaults
    <3>2. QED
      BY Zenon, <1>2, <2>1, <3>1 DEF unix_vec_read_blocks, Device!Next
  <2>2. QED
    BY <1>1, <1>10, <2>1 DEF VecRequest, vec_start, vec_error
<1>11. QED
  BY Zenon, <1>3, <1>5, <1>6, <1>7, <1>8, <1>9, <1>10 DEF Next

\* A caller of io_read_block(), io_write_block() and io_vec_read_blocks() cannot
\* tell a channel with the cache from the bare device.
THEOREM Refinement == CleanFaults => (Spec => ImplementsDevice)
<1>1. SUFFICES ASSUME CleanFaults PROVE Spec => Device!Spec
  BY Zenon DEF ImplementsDevice
<1>2. Init => Device!Init
  BY Zenon DEF Init, Device!Init, NoRead, Device!NoRead
<1>3. IInv /\ IInv' /\ [Next]_vars => [Device!Next]_<<disk, ret>>
  <2>1. ASSUME UNCHANGED vars PROVE UNCHANGED <<disk, ret>>
    BY Zenon, <2>1 DEF vars
  <2>2. QED
    BY Zenon, <1>1, <2>1, StepRefines
<1>4. Spec => [](IInv /\ Detached)
  BY Zenon, <1>1, InvHolds
<1>5. QED
  BY <1>2, <1>3, <1>4, PTL DEF Spec, Device!Spec

=============================================================================
