------------------------------ MODULE IoCache ------------------------------
(***************************************************************************)
(* The block cache of an I/O channel, libocfs2/unix_io.c.                  *)
(*                                                                         *)
(* The cache is write-through: icb_blkno and icb_buf are the cache blocks  *)
(* (ic_metadata_buffer, ic_data_buffer), ic_lookup is the set of blocks    *)
(* with a number, and ic_lru the list from which a block is stolen.  One   *)
(* request runs at a time; its loop over the blocks is one action per      *)
(* iteration, so that every intermediate state of the lists is visible.    *)
(* Several channels may share one cache (io_share_cache), as the           *)
(* filesystems tunefs.ocfs2 opens on one device do.                        *)
(***************************************************************************)
EXTENDS Integers, Sequences, FiniteSets

CONSTANTS Blocks,        \* block numbers of the device
          Values,        \* contents of a block
          NrBlocks,      \* ic_nr_blocks, the size of the cache
          MaxCount,      \* bound: the longest request, in blocks
          Channels,      \* io_channels open on the device
          Faults         \* I/O faults of the environment, a subset of FaultKinds

\* "short": a transfer stops at a block boundary; "torn": a write stops inside
\* a block; "aio": an asynchronous read completes with an error.
FaultKinds == {"short", "torn", "aio"}

ASSUME ConstAssumption ==
    /\ Blocks # {} /\ Values # {} /\ Blocks \subseteq Nat
    /\ NrBlocks \in Nat \ {0} /\ MaxCount \in Nat \ {0}
    /\ Faults \subseteq FaultKinds
    /\ IsFiniteSet(Channels)

NoBlk == -1              \* UINT64_MAX, the number of a disconnected cache block

Bufs == 1..NrBlocks

VARIABLES disk, icb_blkno, icb_buf, ic_lru,
          attached,      \* channels whose io_cache is the shared cache
          ic_use_count,
          op,            \* the request being served
          ret            \* what the last read returned

cache == <<icb_blkno, icb_buf, ic_lru>>
vars == <<disk, icb_blkno, icb_buf, ic_lru, attached, ic_use_count, op, ret>>

NoRead == [blks |-> <<>>, data |-> <<>>]
Idle == [kind |-> "idle", count |-> 0, blks |-> <<>>, data |-> <<>>, i |-> 1,
         good |-> 0, nocache |-> FALSE]

\* A read or a write names consecutive blocks; io_vec_read_blocks() any blocks.
Runs(count) == {s \in [1..count -> Blocks] : \A k \in 1..count : s[k] = s[1] + k - 1}

-----------------------------------------------------------------------------

\* Is the block in the lookup tree?
Cached(blk) == \E f \in Bufs : icb_blkno[f] = blk

\* The cache block that holds blk, when there is one.
io_cache_lookup(blk) == CHOOSE f \in Bufs : icb_blkno[f] = blk

Place(f) == CHOOSE p \in Bufs : ic_lru[p] = f

\* Move to the end of the list that is stolen last.
io_cache_seen(f) ==
    [j \in Bufs |-> IF j < Place(f) THEN ic_lru[j]
                    ELSE IF j < NrBlocks THEN ic_lru[j + 1] ELSE f]

\* Move to the end of the list that is stolen first.
io_cache_unsee(f) ==
    [j \in Bufs |-> IF j > Place(f) THEN ic_lru[j]
                    ELSE IF j > 1 THEN ic_lru[j - 1] ELSE f]

\* Record that f was used by a request, caching or not.
touch(f, nocache) == IF nocache THEN io_cache_unsee(f) ELSE io_cache_seen(f)

io_cache_pop_lru == ic_lru[1]

\* Steal the cache block at the head of the list for blk and fill it.
steal(blk, val) ==
    /\ icb_blkno' = [icb_blkno EXCEPT ![io_cache_pop_lru] = blk]
    /\ icb_buf' = [icb_buf EXCEPT ![io_cache_pop_lru] = val]
    /\ ic_lru' = io_cache_seen(io_cache_pop_lru)

\* Copy a block of the request into a cache block that already holds it.
refresh(f, val, nocache) ==
    /\ icb_buf' = [icb_buf EXCEPT ![f] = val]
    /\ ic_lru' = touch(f, nocache)
    /\ UNCHANGED icb_blkno

-----------------------------------------------------------------------------
(* Creating, sharing and dropping the cache.                               *)

EmptyCache ==
    /\ icb_blkno' = [f \in Bufs |-> NoBlk]
    /\ ic_lru' = [f \in Bufs |-> f]
    /\ UNCHANGED icb_buf

\* One channel allocates the cache (fsck, mkfs, the master of tunefs).
io_init_cache(c) ==
    /\ op.kind = "idle" /\ attached = {}
    /\ attached' = {c} /\ ic_use_count' = 1
    /\ EmptyCache
    /\ ret' = NoRead
    /\ UNCHANGED <<disk, op>>

io_share_cache(from, to) ==
    /\ op.kind = "idle" /\ from \in attached /\ to \notin attached
    /\ attached' = attached \cup {to} /\ ic_use_count' = ic_use_count + 1
    /\ ret' = NoRead
    /\ UNCHANGED <<disk, cache, op>>

io_destroy_cache(c) ==
    /\ op.kind = "idle" /\ c \in attached
    /\ attached' = attached \ {c} /\ ic_use_count' = ic_use_count - 1
    /\ IF ic_use_count' = 0 THEN EmptyCache ELSE UNCHANGED cache
    /\ ret' = NoRead
    /\ UNCHANGED <<disk, op>>

-----------------------------------------------------------------------------
(* io_cache_read_blocks(): one hunk of a read.                             *)

\* The first good blocks of a request are cached and the next one is not.
good_blocks(good, count, blks) ==
    /\ \A k \in 1..good : Cached(blks[k])
    /\ good < count => ~Cached(blks[good + 1])

\* Only the blocks after the cached prefix are transferred; the caller's buffer
\* keeps whatever it held before them.
read_start(c, count, blks, good, junk, nocache) ==
    /\ op.kind = "idle" /\ c \in attached
    /\ good_blocks(good, count, blks)
    /\ op' = [kind |-> "read", count |-> count, blks |-> blks, i |-> 1,
              good |-> good, nocache |-> nocache,
              data |-> [k \in 1..count |-> IF k <= good THEN junk ELSE disk[blks[k]]]]
    /\ ret' = NoRead
    /\ UNCHANGED <<disk, cache, attached, ic_use_count>>

\* The transfer fails: nothing was put in the cache.  A read of blocks that are
\* all cached makes no transfer.
read_error(c, count, blks) ==
    /\ op.kind = "idle" /\ "short" \in Faults
    /\ c \in attached => \E k \in 1..count : ~Cached(blks[k])
    /\ ret' = NoRead
    /\ UNCHANGED <<disk, cache, attached, ic_use_count, op>>

\* One iteration of "Now we sync up the cache with the data buffer".  A block of
\* the cached prefix comes from the cache, and must still be there: assert(icb).
read_sync ==
    /\ op.kind = "read" /\ op.i <= op.count
    /\ LET blk == op.blks[op.i]
           f == io_cache_lookup(blk)
           skipped == op.i <= op.good
       IN  /\ op' = [op EXCEPT
                       !.kind = IF skipped /\ ~Cached(blk) THEN "assert" ELSE @,
                       !.data[op.i] = IF skipped /\ Cached(blk) THEN icb_buf[f] ELSE @,
                       !.i = @ + 1]
           /\ IF Cached(blk)
              THEN ic_lru' = touch(f, op.nocache) /\ UNCHANGED <<icb_blkno, icb_buf>>
              ELSE IF skipped \/ op.nocache THEN UNCHANGED cache
              ELSE steal(blk, op.data[op.i])
    /\ UNCHANGED <<disk, attached, ic_use_count, ret>>

read_return ==
    /\ op.kind = "read" /\ op.i > op.count
    /\ op' = Idle
    /\ ret' = [blks |-> op.blks, data |-> op.data]
    /\ UNCHANGED <<disk, cache, attached, ic_use_count>>

-----------------------------------------------------------------------------
(* io_cache_write_blocks(): the write first, the cache after it.           *)

\* The first n blocks of the run reach the device; a write that stops inside
\* block n + 1 leaves contents that nobody wrote there.
written(count, blks, data, n, torn) ==
    [b \in Blocks |->
        IF blks[1] <= b /\ b < blks[1] + n THEN data[b - blks[1] + 1]
        ELSE IF n < count /\ b = blks[1] + n THEN torn ELSE disk[b]]

\* Mutant: the whole write is copied into the cache, completed or not.
write_start_all_completed(c, count, blks, data, n, torn, nocache) ==
    /\ op.kind = "idle" /\ c \in attached
    /\ n < count => Faults \cap {"short", "torn"} # {}
    /\ "torn" \notin Faults /\ n < count => torn = disk[blks[n + 1]]
    /\ disk' = written(count, blks, data, n, torn)
    /\ op' = [kind |-> "write", count |-> count, blks |-> blks, i |-> 1, good |-> 0,
              nocache |-> nocache, data |-> data]
    /\ ret' = NoRead
    /\ UNCHANGED <<cache, attached, ic_use_count>>

write_start(c, count, blks, data, n, torn, nocache) ==
    /\ op.kind = "idle" /\ c \in attached
    /\ n < count => Faults \cap {"short", "torn"} # {}
    /\ "torn" \notin Faults /\ n < count => torn = disk[blks[n + 1]]
    /\ disk' = written(count, blks, data, n, torn)
    /\ op' = [kind |-> "write", count |-> n, blks |-> [k \in 1..n |-> blks[k]],
              i |-> 1, good |-> 0, nocache |-> nocache,
              data |-> [k \in 1..n |-> data[k]]]
    /\ ret' = NoRead
    /\ UNCHANGED <<cache, attached, ic_use_count>>

\* Which blocks of a vectored read may fail.
Failures(count) == IF "aio" \in Faults THEN SUBSET (1..count) ELSE {{}}

\* io_cache_vec_read_blocks(): every block is read, then the cache refreshed.
\* The results of the I/O events are never looked at, so a buffer whose read
\* failed still holds what it held before.
vec_start(c, count, blks, failed, junk, nocache) ==
    /\ op.kind = "idle" /\ c \in attached
    /\ op' = [kind |-> "vec", count |-> count, blks |-> blks, i |-> 1, good |-> 0,
              nocache |-> nocache,
              data |-> [k \in 1..count |->
                          IF k \in failed THEN junk ELSE disk[blks[k]]]]
    /\ ret' = NoRead
    /\ UNCHANGED <<disk, cache, attached, ic_use_count>>

\* Mutant: an uncached request skips the blocks that are in the cache as well.
copy_sync_nocache_skips ==
    /\ op.kind \in {"write", "vec"} /\ op.i <= op.count
    /\ LET blk == op.blks[op.i]
       IN  IF op.nocache THEN UNCHANGED cache
           ELSE IF Cached(blk)
           THEN refresh(io_cache_lookup(blk), op.data[op.i], op.nocache)
           ELSE steal(blk, op.data[op.i])
    /\ op' = [op EXCEPT !.i = @ + 1]
    /\ UNCHANGED <<disk, attached, ic_use_count, ret>>

\* Mutant: a copied block is put in a stolen cache block without asking whether
\* another cache block has it.
copy_sync_without_lookup ==
    /\ op.kind \in {"write", "vec"} /\ op.i <= op.count
    /\ IF op.nocache THEN UNCHANGED cache ELSE steal(op.blks[op.i], op.data[op.i])
    /\ op' = [op EXCEPT !.i = @ + 1]
    /\ UNCHANGED <<disk, attached, ic_use_count, ret>>

\* io_submit() or io_getevents() fails: the cache is not refreshed.
vec_error ==
    /\ op.kind = "idle" /\ "short" \in Faults
    /\ ret' = NoRead
    /\ UNCHANGED <<disk, cache, attached, ic_use_count, op>>

\* One iteration of the loop that copies a completed block into the cache.
copy_sync ==
    /\ op.kind \in {"write", "vec"} /\ op.i <= op.count
    /\ LET blk == op.blks[op.i]
       IN  IF Cached(blk)
           THEN refresh(io_cache_lookup(blk), op.data[op.i], op.nocache)
           ELSE IF op.nocache THEN UNCHANGED cache
           ELSE steal(blk, op.data[op.i])
    /\ op' = [op EXCEPT !.i = @ + 1]
    /\ UNCHANGED <<disk, attached, ic_use_count, ret>>

copy_return ==
    /\ op.kind \in {"write", "vec"} /\ op.i > op.count
    /\ op' = Idle
    /\ ret' = IF op.kind = "vec" THEN [blks |-> op.blks, data |-> op.data]
              ELSE NoRead
    /\ UNCHANGED <<disk, cache, attached, ic_use_count>>

\* A channel without a cache goes straight to the device.  Only a tool that has
\* no cache at all writes that way: the filesystems of one tunefs.ocfs2 run
\* share the cache of the first, or none has one.
unix_io_write_block_full(count, blks, data, n) ==
    /\ op.kind = "idle" /\ attached = {}
    /\ n < count => "short" \in Faults
    /\ disk' = written(count, blks, data, n, disk[blks[IF n < count THEN n + 1 ELSE 1]])
    /\ ret' = NoRead
    /\ UNCHANGED <<cache, attached, ic_use_count, op>>

unix_io_read_block(c, count, blks) ==
    /\ op.kind = "idle" /\ c \notin attached
    /\ ret' = [blks |-> blks, data |-> [k \in 1..count |-> disk[blks[k]]]]
    /\ UNCHANGED <<disk, cache, attached, ic_use_count, op>>

\* Without a cache a failed asynchronous read is still reported as read.
unix_vec_read_blocks(c, count, blks, failed, junk) ==
    /\ op.kind = "idle" /\ c \notin attached
    /\ ret' = [blks |-> blks, data |-> [k \in 1..count |->
                                          IF k \in failed THEN junk ELSE disk[blks[k]]]]
    /\ UNCHANGED <<disk, cache, attached, ic_use_count, op>>

-----------------------------------------------------------------------------

Init ==
    /\ disk \in [Blocks -> Values]
    /\ icb_blkno = [f \in Bufs |-> NoBlk]
    /\ icb_buf \in [Bufs -> Values]
    /\ ic_lru = [f \in Bufs |-> f]
    /\ attached = {} /\ ic_use_count = 0
    /\ op = Idle
    /\ ret = NoRead

ReadRequest ==
    \E c \in Channels, count \in 1..MaxCount, nocache \in BOOLEAN :
      \E blks \in Runs(count) :
        \/ \E good \in 0..count, junk \in Values :
              read_start(c, count, blks, good, junk, nocache)
        \/ read_error(c, count, blks)
        \/ unix_io_read_block(c, count, blks)

WriteRequest ==
    \E count \in 1..MaxCount :
      \E blks \in Runs(count), data \in [1..count -> Values], n \in 0..count :
        \/ \E c \in Channels, torn \in Values, nocache \in BOOLEAN :
              write_start(c, count, blks, data, n, torn, nocache)
        \/ unix_io_write_block_full(count, blks, data, n)

VecRequest ==
    \E c \in Channels, count \in 1..MaxCount, junk \in Values, nocache \in BOOLEAN :
      \E blks \in [1..count -> Blocks], failed \in Failures(count) :
        \/ vec_start(c, count, blks, failed, junk, nocache)
        \/ unix_vec_read_blocks(c, count, blks, failed, junk)

CacheControl ==
    \E c \in Channels :
        \/ io_init_cache(c)
        \/ io_destroy_cache(c)
        \/ \E to \in Channels : io_share_cache(c, to)

Next ==
    \/ CacheControl
    \/ ReadRequest \/ read_sync \/ read_return
    \/ WriteRequest \/ VecRequest \/ vec_error \/ copy_sync \/ copy_return

Spec == Init /\ [][Next]_vars

-----------------------------------------------------------------------------
(* Properties.                                                             *)

\* Types, and a list that names a cache block in each of its places.
TypeOK ==
    /\ disk \in [Blocks -> Values]
    /\ icb_blkno \in [Bufs -> Blocks \cup {NoBlk}]
    /\ icb_buf \in [Bufs -> Values]
    /\ ic_lru \in [Bufs -> Bufs]
    /\ attached \subseteq Channels
    /\ ic_use_count \in Nat
    /\ op.kind \in {"idle", "read", "write", "vec", "assert"}

\* "If a block is in the cache, the same thing is on disk": between requests
\* every connected cache block holds what the device holds, whatever was
\* stolen, re-read, partly written or written around the cache before.
CacheCoherent ==
    op.kind = "idle" =>
        \A f \in Bufs : icb_blkno[f] # NoBlk => icb_buf[f] = disk[icb_blkno[f]]

\* The two assertions of the code hold: a block found by the first loop of
\* io_cache_read_blocks() is still there when the second one copies it, and
\* io_cache_insert() never meets a block that is already in the tree.
AssertsHold ==
    /\ op.kind # "assert"
    /\ \A f, g \in Bufs : icb_blkno[f] = icb_blkno[g] /\ f # g => icb_blkno[f] = NoBlk

\* Moving cache blocks about loses none: each is in the list once, so each can
\* be stolen again.
LruComplete == \A f \in Bufs : \E j \in Bufs : ic_lru[j] = f

\* A request that asks not to be cached neither brings a block into the cache
\* nor pushes one out; it only makes what it met the first to be stolen.
NocacheKeepsCache ==
    [][op.kind # "idle" /\ op.nocache => icb_blkno' = icb_blkno]_vars

Device == INSTANCE BlockDevice

\* Callers cannot tell a channel with the cache from the bare device.
ImplementsDevice == Device!Spec

=============================================================================
