------------------------------ MODULE MCEvMem ------------------------------
(* A small instance of EvMem for TLC: three small buffers and a large one,  *)
(* a plain queue and one with priorities.                                   *)
EXTENDS EvMem

CONSTANTS fifo, pri

MCGroupSize == <<24, 60>>
MCCount == <<3, 1>>
MCQueues == {fifo, pri}
MCPriQueues == {pri}
\* two of the blocks have the same priority
MCPrio == [b \in Blocks |-> b[2] % 2]
=============================================================================
