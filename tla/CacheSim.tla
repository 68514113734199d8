------------------------------- MODULE CacheSim -------------------------------
(***************************************************************************)
(* Project 5: the cache simulator.  cache_access() is called for each       *)
(* access of a trace; a block's LRU field is a stamp of one global counter. *)
(* accesses is reads + writes; the rates and times of cache_stats_t, which  *)
(* cache_cleanup() computes from these counts, are left out.                *)
(***************************************************************************)
EXTENDS Integers, FiniteSets

CONSTANTS
    WIDTH,          \* bits of an address: 64
    C, S, B,        \* 2^C bytes of cache, 2^S blocks in a set, 2^B in a block
    Addresses,      \* the addresses of the trace
    Junk,           \* what malloc() may leave in a block's tag and LRU
    MaxAccesses     \* bound on the length of the trace

offsetbit == B
indexbit == C - B - S
tagbit == WIDTH - offsetbit - indexbit
SetIndex == 0 .. 2^indexbit - 1
Ways == 0 .. 2^S - 1

(* Shifts of a word: bits that leave it are lost.                           *)
shl(x, n) == (x * 2^n) % 2^WIDTH
shr(x, n) == x \div 2^n

getindex(address) == shr(shl(address, tagbit), tagbit + offsetbit)
gettag(address) == shr(address, offsetbit + indexbit)

(* A shift of a word by its whole width is not defined, so the getters are  *)
(* defined where there are an index bit (getindex() shifts right by         *)
(* WIDTH - indexbit) and a tag bit (gettag(), by WIDTH - tagbit); and the   *)
(* numbers of sets and of blocks in a set are ints.                         *)
ASSUME CacheAssumption ==
    /\ C \in Nat /\ S \in 0 .. 30 /\ B \in Nat /\ WIDTH \in Nat
    /\ indexbit \in 1 .. 30 /\ tagbit \in Nat \ {0}
    /\ Addresses \subseteq Nat /\ Junk \subseteq Nat /\ MaxAccesses \in Nat

(* The laws of the powers of two up to these sizes: arithmetic that takes   *)
(* an induction to prove.                                                   *)
ASSUME PowersOfTwo ==
    /\ \A m \in 0 .. C + WIDTH : 2^m \in Nat \ {0}
    /\ \A m, n \in 0 .. WIDTH : m + n <= WIDTH => 2^(m + n) = 2^m * 2^n

VARIABLES
    cache,      \* each set's blocks
    counter,    \* the last stamp given
    stats,      \* the counts of cache_stats_t
    ended       \* cache_cleanup() has been called

cacheVars == <<cache, counter, stats, ended>>

Blocks == [valid : BOOLEAN, dirty : BOOLEAN, tag : Nat, LRU : Nat]
Stats == [reads : Nat, writes : Nat, read_misses : Nat, write_misses : Nat,
          write_backs : Nat, misses : Nat]

CacheTypeOK ==
    /\ cache \in [SetIndex -> [Ways -> Blocks]]
    /\ counter \in Nat
    /\ stats \in Stats
    /\ ended \in BOOLEAN

cache_init ==
    /\ cache \in [SetIndex -> [Ways ->
          [valid : {FALSE}, dirty : {FALSE}, tag : Junk, LRU : Junk]]]
    /\ counter = 0
    /\ stats = [reads |-> 0, writes |-> 0, read_misses |-> 0,
                write_misses |-> 0, write_backs |-> 0, misses |-> 0]
    /\ ended = FALSE

-----------------------------------------------------------------------------
One(P) == IF P THEN 1 ELSE 0

Holds(s, i, t) == cache[s][i].tag = t /\ cache[s][i].valid

(* The counts of an access that misses or not, and writes back or not.      *)
Count(rw, miss, back) ==
    stats' = [reads |-> stats.reads + One(rw = "r"),
              writes |-> stats.writes + One(rw = "w"),
              read_misses |-> stats.read_misses + One(rw = "r" /\ miss),
              write_misses |-> stats.write_misses + One(rw = "w" /\ miss),
              write_backs |-> stats.write_backs + One(back),
              misses |-> stats.misses]

(* Mutant of Touch: the counter advances, the block keeps its stamp.        *)
TouchNot(s, i, b) ==
    /\ counter' = counter + 1
    /\ cache' = [cache EXCEPT ![s][i] = [b EXCEPT !.LRU = cache[s][i].LRU]]
    /\ UNCHANGED ended

(* Block i becomes b with the next stamp.                                   *)
Touch(s, i, b) ==
    /\ counter' = counter + 1
    /\ cache' = [cache EXCEPT ![s][i] = [b EXCEPT !.LRU = counter + 1]]
    /\ UNCHANGED ended

Calls == ~ended /\ counter < MaxAccesses

(* getblock() finds the block.                                              *)
Hit(rw, a) ==
    LET s == getindex(a)
    IN  /\ Calls
        /\ \E i \in Ways :
              /\ Holds(s, i, gettag(a))
              /\ \A j \in Ways : Holds(s, j, gettag(a)) => i <= j
              /\ Touch(s, i, [cache[s][i] EXCEPT !.dirty = @ \/ rw = "w"])
        /\ Count(rw, FALSE, FALSE)

Miss(a) == \A i \in Ways : ~Holds(getindex(a), i, gettag(a))

(* Mutant of Fetched: a block read keeps the dirty bit of the one before.   *)
FetchedOver(old, rw, a) ==
    [old EXCEPT !.valid = TRUE, !.dirty = @ \/ rw = "w", !.tag = gettag(a)]

(* The block cache_access() makes of the one it replaces.                   *)
Fetched(old, rw, a) ==
    [old EXCEPT !.valid = TRUE, !.dirty = (rw = "w"), !.tag = gettag(a)]

(* find_invalid(): the first block that holds nothing.                      *)
FillInvalid(rw, a) ==
    LET s == getindex(a)
    IN  /\ Calls /\ Miss(a)
        /\ \E i \in Ways :
              /\ ~cache[s][i].valid
              /\ \A j \in Ways : ~cache[s][j].valid => i <= j
              /\ Touch(s, i, Fetched(cache[s][i], rw, a))
        /\ Count(rw, TRUE, FALSE)

(* Mutant of Oldest: the walk keeps the last of the set.                    *)
Newest(s, i) == \A j \in Ways : cache[s][i].LRU >= cache[s][j].LRU

Oldest(s, i) ==
    \A j \in Ways : \/ cache[s][i].LRU < cache[s][j].LRU
                    \/ cache[s][i].LRU = cache[s][j].LRU /\ i <= j

(* find_lru(): the block with the smallest stamp leaves, to memory if it is *)
(* dirty.                                                                   *)
EvictLru(rw, a) ==
    LET s == getindex(a)
    IN  /\ Calls /\ Miss(a)
        /\ \A j \in Ways : cache[s][j].valid
        /\ \E i \in Ways :
              /\ Oldest(s, i)
              /\ Touch(s, i, Fetched(cache[s][i], rw, a))
              /\ Count(rw, TRUE, cache[s][i].dirty)

cache_access ==
    \E rw \in {"r", "w"}, a \in Addresses :
        Hit(rw, a) \/ FillInvalid(rw, a) \/ EvictLru(rw, a)

(* The trace has been read.                                                 *)
cache_cleanup ==
    /\ ~ended /\ ended' = TRUE
    /\ stats' = [stats EXCEPT !.misses = stats.read_misses
                                         + stats.write_misses]
    /\ UNCHANGED <<cache, counter>>

CacheNext == cache_access \/ cache_cleanup

CacheSpec == cache_init /\ [][CacheNext]_cacheVars

-----------------------------------------------------------------------------
(* No block of memory is in the cache twice, and the stamps tell which of   *)
(* two blocks was used last: find_lru() never meets a tie, nor a stamp that *)
(* malloc() left behind.                                                    *)
SetsAreOrdered ==
    \A s \in SetIndex, i, j \in Ways :
        cache[s][i].valid /\ cache[s][j].valid =>
            /\ cache[s][i].LRU <= counter
            /\ i # j => /\ cache[s][i].LRU # cache[s][j].LRU
                        /\ cache[s][i].tag # cache[s][j].tag

DirtyBlocks == {x \in SetIndex \X Ways : cache[x[1]][x[2]].dirty}

(* Each write-back is paid for by a write of its own: the blocks written    *)
(* back and the ones still to be written back are never more than the       *)
(* writes.                                                                  *)
WriteBacksArePaid ==
    stats.write_backs + Cardinality(DirtyBlocks) <= stats.writes
=============================================================================
