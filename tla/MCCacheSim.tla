------------------------------ MODULE MCCacheSim ------------------------------
(***************************************************************************)
(* The cache simulator against LruCache, which knows neither stamps nor     *)
(* tags: a block is its number, address / 2^B.                              *)
(***************************************************************************)
EXTENDS CacheSim, Sequences, SequencesExt

Valid(s) == {i \in Ways : cache[s][i].valid}

Number(s, i) == cache[s][i].tag * 2^indexbit + s

(* A set in the order of its stamps, the highest first.                     *)
ByStamp(set, stamp) ==
    CHOOSE list \in [1 .. Cardinality(set) -> set] :
        \A j, k \in DOMAIN list : j < k => stamp[list[j]] > stamp[list[k]]

(* The blocks of a set, the last used first.                                *)
Recency(s) ==
    LET order == ByStamp(Valid(s), [i \in Ways |-> cache[s][i].LRU])
    IN  [k \in DOMAIN order |-> Number(s, order[k])]

Lru == INSTANCE LruCache WITH
    Blocks <- {a \div 2^B : a \in Addresses},
    SetCount <- 2^indexbit,
    Ways <- 2^S,
    recency <- [s \in SetIndex |-> Recency(s)],
    modified <- {Number(x[1], x[2]) : x \in DirtyBlocks},
    misses <- stats.read_misses + stats.write_misses,
    write_backs <- stats.write_backs

(* The tags, indices and stamps of cache_access() are an LRU cache: after   *)
(* any sequence of hits, fills and evictions the block that leaves is the   *)
(* least recently used one of its set, a write-back is counted just when    *)
(* the block that leaves was written, and no two addresses are confused.    *)
ImplementsLruCache == Lru!LruSpec
=============================================================================
