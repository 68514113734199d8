------------------------------- MODULE VmTrace -------------------------------
(***************************************************************************)
(* The traces of Project 4: a load line names the byte its author expects,  *)
(* the last one stored at the address, and sim_readdata() compares it with  *)
(* the byte that mem_load() returns.                                        *)
(***************************************************************************)
EXTENDS VirtualMemory

VARIABLE expected       \* the byte last stored at each address

TraceInit ==
    /\ VmInit
    /\ expected = [p \in Pids |-> [a \in Addresses |-> 0]]

TraceNext ==
    /\ VmNext
    /\ line' # NULL /\ line'.cmd = "l" =>
          line'.val = expected[line'.pid][line'.addr]
    /\ expected' = IF mem_store
                   THEN [expected EXCEPT ![line.pid][line.addr] = line.val]
                   ELSE expected

TraceSpec == TraceInit /\ [][TraceNext]_<<vmVars, expected>>

(* "loaded value did not equal expected" is never printed.                  *)
LoadsAsExpected == [][mem_load => loaded' = line.val]_<<vmVars, expected>>
=============================================================================
