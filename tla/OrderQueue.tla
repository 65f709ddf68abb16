------------------------------ MODULE OrderQueue ------------------------------
(***************************************************************************)
(* What enqueueByOrder promises, without promises: each order has a queue  *)
(* of commands; the command at its head may start, and leaves when it is   *)
(* finished.                                                               *)
(***************************************************************************)
EXTENDS Sequences

CONSTANTS Commands, Orders, OrderOf

VARIABLES queue,      \* the commands of each order, first come first
          started     \* the commands that have begun

qvars == <<queue, started>>

QInit == queue = [o \in Orders |-> <<>>] /\ started = {}

Arrive(c) ==
    /\ queue' = [queue EXCEPT ![OrderOf[c]] = Append(@, c)]
    /\ UNCHANGED started

AtHead(c) == queue[OrderOf[c]] # <<>> /\ Head(queue[OrderOf[c]]) = c

Begin(c) ==
    /\ AtHead(c) /\ c \notin started
    /\ started' = started \cup {c}
    /\ UNCHANGED queue

Finish(c) ==
    /\ AtHead(c) /\ c \in started
    /\ queue' = [queue EXCEPT ![OrderOf[c]] = Tail(@)]
    /\ started' = started \ {c}

\* A restart of the process empties every queue.
Lose ==
    /\ queue' = [o \in Orders |-> <<>>]
    /\ started' = {}

QNext ==
    \/ \E c \in Commands : Arrive(c) \/ Begin(c) \/ Finish(c)
    \/ Lose

QSpec == QInit /\ [][QNext]_qvars
=============================================================================
