------------------------------ MODULE FlatMemory ------------------------------
(***************************************************************************)
(* What a program expects of a virtual memory: a byte for each address of   *)
(* each process, that only its own stores change.                           *)
(***************************************************************************)
EXTENDS Naturals

CONSTANTS Pids, Addresses, page_size, WORD, NULL

VARIABLES
    contents,   \* the byte at each address of each process
    request,    \* the access being executed
    loaded      \* what the last load returned

flatVars == <<contents, request, loaded>>

Requests == [cmd : {"l", "s"}, pid : Pids, addr : Addresses,
             val : 0 .. WORD - 1]

FlatInit ==
    /\ contents = [p \in Pids |-> [a \in Addresses |-> 0]]
    /\ request = NULL
    /\ loaded = 0

Begin ==
    /\ request = NULL
    /\ request' \in Requests
    /\ UNCHANGED <<contents, loaded>>

Load ==
    /\ request # NULL /\ request.cmd = "l"
    /\ loaded' = contents[request.pid][request.addr]
    /\ request' = NULL
    /\ UNCHANGED contents

Store ==
    /\ request # NULL /\ request.cmd = "s"
    /\ contents' = [contents EXCEPT ![request.pid][request.addr] = request.val]
    /\ request' = NULL
    /\ UNCHANGED loaded

(* What the detailed system may do and should not: a page turns to zero.    *)
Lose(p, v) ==
    /\ request # NULL
    /\ contents' = [contents EXCEPT ![p] = [a \in Addresses |->
           IF a \div page_size = v THEN 0 ELSE contents[p][a]]]
    /\ UNCHANGED <<request, loaded>>

FlatNext == Begin \/ Load \/ Store

LossyNext ==
    FlatNext \/ \E p \in Pids, b \in Addresses : Lose(p, b \div page_size)

FlatSpec == FlatInit /\ [][FlatNext]_flatVars

LossySpec == FlatInit /\ [][LossyNext]_flatVars
=============================================================================
