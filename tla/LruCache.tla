------------------------------- MODULE LruCache -------------------------------
(***************************************************************************)
(* What a write-back, write-allocate cache with least-recently-used         *)
(* replacement is: each set a list of blocks of memory, the one used last   *)
(* in front, and the blocks that memory has not been told about.            *)
(***************************************************************************)
EXTENDS Naturals, Sequences, SequencesExt

CONSTANTS
    Blocks,     \* the blocks of memory, by number
    SetCount,   \* number of sets
    Ways        \* blocks in a set

VARIABLES
    recency,    \* the blocks in each set, the one used last in front
    modified,   \* the blocks written since they were fetched
    misses, write_backs

lruVars == <<recency, modified, misses, write_backs>>

SetOf(b) == b % SetCount

LruInit ==
    /\ recency = [s \in 0 .. SetCount - 1 |-> <<>>]
    /\ modified = {}
    /\ misses = 0 /\ write_backs = 0

(* A list without block b.                                                  *)
Without(list, b) ==
    IF ~Contains(list, b) THEN list
    ELSE RemoveAt(list, CHOOSE i \in DOMAIN list : list[i] = b)

(* Where b is cached it moves to the front; where it is not, it is fetched  *)
(* and the block used least recently leaves a full set.                     *)
Access(b, write) ==
    LET old == recency[SetOf(b)]
        miss == ~Contains(old, b)
        full == miss /\ Len(old) = Ways
        kept == IF full THEN Front(old) ELSE Without(old, b)
        back == full /\ Last(old) \in modified
    IN  /\ recency' = [recency EXCEPT ![SetOf(b)] = <<b>> \o kept]
        /\ modified' = (modified \ (IF full THEN {Last(old)} ELSE {}))
                          \cup (IF write THEN {b} ELSE {})
        /\ misses' = misses + (IF miss THEN 1 ELSE 0)
        /\ write_backs' = write_backs + (IF back THEN 1 ELSE 0)

LruNext == \E b \in Blocks, write \in BOOLEAN : Access(b, write)

LruSpec == LruInit /\ [][LruNext]_lruVars
=============================================================================
