------------------------------ MODULE Delivery ------------------------------
(***************************************************************************)
(* The Celery queue between the web process and the worker, as tasks.py    *)
(* and docker-compose.yml use it: .delay() appends a message to the Redis  *)
(* list; the one worker (--pool=solo) prefetches messages, acknowledges a  *)
(* message before it runs the task (acks_late is not set), and runs one    *)
(* task at a time.  What a dead worker had prefetched stays aside until    *)
(* Redis' visibility timeout gives it back.  No task is ever retried.      *)
(***************************************************************************)
EXTENDS Integers, Sequences, SequencesExt

CONSTANTS
    Messages,   \* what a task may be called with
    Prefetch,   \* messages a worker may hold unacknowledged
    MaxCrashes, \* bound: times the worker process dies
    None        \* no task

ASSUME DeliveryAssumption ==
    /\ Prefetch \in Nat \ {0}
    /\ MaxCrashes \in Nat

VARIABLES
    queue,      \* messages in the Redis list, oldest first
    reserved,   \* prefetched by the worker, not acknowledged
    orphaned,   \* prefetched by a worker that died
    running,    \* the task the worker executes, already acknowledged, or None
    begun,      \* every task that was begun, in order
    crashes     \* deaths of the worker so far

deliveryVars == <<queue, reserved, orphaned, running, begun, crashes>>

DeliveryInit ==
    /\ queue = <<>>
    /\ reserved = <<>>
    /\ orphaned = <<>>
    /\ running = None
    /\ begun = <<>>
    /\ crashes = 0

\* task.delay(...)
Send(m) ==
    /\ queue' = Append(queue, m)
    /\ UNCHANGED <<reserved, orphaned, running, begun, crashes>>

\* The consumer takes the oldest message, up to the prefetch limit.
Reserve ==
    /\ queue # <<>>
    /\ Len(reserved) < Prefetch
    /\ reserved' = Append(reserved, Head(queue))
    /\ queue' = Tail(queue)
    /\ UNCHANGED <<orphaned, running, begun, crashes>>

\* The message is acknowledged and its task begins.
Start ==
    /\ running = None
    /\ reserved # <<>>
    /\ running' = Head(reserved)
    /\ reserved' = Tail(reserved)
    /\ begun' = Append(begun, Head(reserved))
    /\ UNCHANGED <<queue, orphaned, crashes>>

\* The task returns, with True or with False.
Finish ==
    /\ running # None
    /\ running' = None
    /\ UNCHANGED <<queue, reserved, orphaned, begun, crashes>>

\* A worker that acknowledges a message when it takes it.
CrashLosing ==
    /\ crashes < MaxCrashes
    /\ crashes' = crashes + 1
    /\ running' = None
    /\ reserved' = <<>>
    /\ UNCHANGED <<queue, orphaned, begun>>

\* The worker dies with its running task; a new one takes its place.
Crash ==
    /\ crashes < MaxCrashes
    /\ crashes' = crashes + 1
    /\ running' = None
    /\ orphaned' = orphaned \o reserved
    /\ reserved' = <<>>
    /\ UNCHANGED <<queue, begun>>

\* The visibility timeout: the next to be taken is an orphaned message.
Restore ==
    /\ \E k \in 1..Len(orphaned) :
          /\ queue' = <<orphaned[k]>> \o queue
          /\ orphaned' = RemoveAt(orphaned, k)
    /\ UNCHANGED <<reserved, running, begun, crashes>>

-----------------------------------------------------------------------------
(* Properties *)

\* Whatever dies and whenever, every task that was sent begins, exactly once:
\* only a task that had begun can be lost (tasks.py:10, 42, 71 set no retry and
\* no acks_late).
Pool ==
    INSTANCE TaskPool WITH
       waiting <- ToSet(queue) \cup ToSet(reserved) \cup ToSet(orphaned),
       started <- ToSet(begun)

ImplementsPool == Pool!PoolSpec
=============================================================================
