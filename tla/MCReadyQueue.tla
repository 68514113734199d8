---------------------------- MODULE MCReadyQueue ----------------------------
EXTENDS ReadyQueueClient

(* Two processes of equal priority, one above them and one below.           *)
MCPriority == [p \in Procs |-> CASE p = 0 -> 2 [] p = 1 -> 1
                                 [] p = 2 -> 3 [] OTHER -> 2]
=============================================================================
