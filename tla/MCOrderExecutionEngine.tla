------------------------ MODULE MCOrderExecutionEngine ------------------------
(* Up to three commands for one order, next to an order without commands.  *)
EXTENDS OrderExecutionEngine

CONSTANTS a1, a2, a3, d1, d2, oA, oB

MCOrderOf == [c \in Commands |-> oA]
=============================================================================
