------------------------------ MODULE TaskPool ------------------------------
(***************************************************************************)
(* What the web process can rely on when it calls task.delay(): every task *)
(* that was sent begins, exactly once.  Nothing is promised of the order,  *)
(* and nothing of what happens after the task has begun.                   *)
(***************************************************************************)
CONSTANT Messages

VARIABLES
    waiting,    \* sent and not begun
    started     \* begun

poolVars == <<waiting, started>>

PoolInit == waiting = {} /\ started = {}

\* .delay(): a task that was never sent before.
Put ==
    \E m \in Messages \ (waiting \cup started) :
       /\ waiting' = waiting \cup {m}
       /\ UNCHANGED started

\* A waiting task begins.
Begin ==
    \E m \in waiting :
       /\ waiting' = waiting \ {m}
       /\ started' = started \cup {m}

PoolNext == Put \/ Begin

\* What it may do, and that a task that waits is begun some day.
PoolSafety == PoolInit /\ [][PoolNext]_poolVars

PoolSpec == PoolSafety /\ WF_poolVars(Begin)
=============================================================================
