---------------------------- MODULE MCScheduler ----------------------------
EXTENDS Scheduler

Cpu(k) == [type |-> "OP_CPU", time |-> k]
Io(k) == [type |-> "OP_IO", time |-> k]
End == [type |-> "OP_TERMINATE", time |-> 0]

(* Bursts of one and two ticks, and an I/O request that completes in the    *)
(* tick that submits it unless another one precedes it.  TLC tries every    *)
(* assignment of programs to processes.                                     *)
Brief == <<Cpu(1), End>>
Short == <<Cpu(2), Io(0), Cpu(1), End>>

MCBrief == {Brief, Short}

MCPriority == [p \in Procs |-> p + 1]

Fifo == [static_prior |-> FALSE, timeslice |-> -1]
RoundRobin(k) == [static_prior |-> FALSE, timeslice |-> k]
StaticPriority == [static_prior |-> TRUE, timeslice |-> -1]

MCFifo == {Fifo}
MCFifoAndRoundRobin == {Fifo, RoundRobin(2)}
MCRoundRobin == {RoundRobin(1), RoundRobin(2)}
MCEveryPolicy == {Fifo, RoundRobin(1), StaticPriority}
MCStaticPriority == {StaticPriority}
=============================================================================
