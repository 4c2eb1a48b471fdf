----------------------------- MODULE Offloader -----------------------------
(***************************************************************************)
(* BoundedOffloader (util/offload.py): how the server runs blocking tool   *)
(* handlers in worker threads.  A call waits for the validator lock if it  *)
(* must, then for an admission slot, then its function is submitted; slot  *)
(* and lock come back by a callback the worker's completion schedules in   *)
(* the event loop, whatever became of the task that awaited it.            *)
(*                                                                         *)
(* Actions of the event loop are atomic between two awaits; Start, Finish  *)
(* and Notify are steps of the worker threads.  asyncio.Lock and Semaphore *)
(* serve their waiters in order of arrival.                                *)
(***************************************************************************)
EXTENDS Naturals, Sequences, FiniteSets

CONSTANTS Calls,        \* tool calls, each made once
          Serialized,   \* those of run_serialized (validate, lint)
          Workers, Capacity

ASSUME CallsFinite == IsFiniteSet(Calls) /\ Serialized \subseteq Calls
ASSUME LimitsAdmitWork == Workers \in Nat \ {0} /\ Capacity \in Nat /\ Workers <= Capacity

VARIABLES task,        \* the coroutine awaiting _run
          job,         \* its concurrent future, once submitted
          lockQueue, capQueue,   \* waiters of the lock and of the semaphore
          locked,      \* the validator lock
          free,        \* the semaphore's value
          releases,    \* calls whose release() is scheduled in the loop
          workQueue,   \* the executor's queue, cancelled items included
          poolOpen, loopOpen

vars == <<task, job, lockQueue, capQueue, locked, free, releases, workQueue, poolOpen, loopOpen>>

Waiting == {"lock", "capacity", "pool"}
Ended == {"returned", "refused", "cancelled"}

Running == {c \in Calls : job[c] = "running"}

(* A worker is taken until the future's callbacks were called.             *)
Busy == {c \in Calls : job[c] \in {"running", "finished"}}

(* A slot is held from submission until release() has run.                 *)
Holding == {c \in Calls : job[c] \in {"queued", "running", "finished"} \/ c \in releases}

(* The lock is held for a serialized call from acquire to the same point.  *)
LockHolders == {c \in Serialized : task[c] = "capacity" \/ c \in Holding}

Without(queue, c) == SelectSeq(queue, LAMBDA x : x # c)

----------------------------------------------------------------------------
BugRequestUnserialized(c) ==
    /\ loopOpen /\ task[c] = "new"
    /\ task' = [task EXCEPT ![c] = "capacity"]
    /\ capQueue' = Append(capQueue, c)
    /\ UNCHANGED <<job, lockQueue, locked, free, releases, workQueue, poolOpen, loopOpen>>

Request(c) ==
    /\ loopOpen
    /\ task[c] = "new"
    /\ \/ /\ c \in Serialized
          /\ task' = [task EXCEPT ![c] = "lock"]
          /\ lockQueue' = Append(lockQueue, c)
          /\ UNCHANGED capQueue
       \/ /\ c \notin Serialized
          /\ task' = [task EXCEPT ![c] = "capacity"]
          /\ capQueue' = Append(capQueue, c)
          /\ UNCHANGED lockQueue
    /\ UNCHANGED <<job, locked, free, releases, workQueue, poolOpen, loopOpen>>

AcquireLock(c) ==
    /\ task[c] = "lock"
    /\ lockQueue # <<>> /\ Head(lockQueue) = c
    /\ ~locked
    /\ locked' = TRUE
    /\ lockQueue' = Tail(lockQueue)
    /\ task' = [task EXCEPT ![c] = "capacity"]
    /\ capQueue' = Append(capQueue, c)
    /\ UNCHANGED <<job, free, releases, workQueue, poolOpen, loopOpen>>

(* Slot taken, function submitted, callback attached: no await in between. *)
Submit(c) ==
    /\ task[c] = "capacity"
    /\ capQueue # <<>> /\ Head(capQueue) = c
    /\ free > 0
    /\ poolOpen
    /\ free' = free - 1
    /\ capQueue' = Tail(capQueue)
    /\ task' = [task EXCEPT ![c] = "pool"]
    /\ job' = [job EXCEPT ![c] = "queued"]
    /\ workQueue' = Append(workQueue, c)
    /\ UNCHANGED <<lockQueue, locked, releases, poolOpen, loopOpen>>

(* A closed pool raises: slot and lock are given back on the spot.         *)
SubmitRefused(c) ==
    /\ task[c] = "capacity"
    /\ capQueue # <<>> /\ Head(capQueue) = c
    /\ free > 0
    /\ ~poolOpen
    /\ capQueue' = Tail(capQueue)
    /\ task' = [task EXCEPT ![c] = "refused"]
    /\ locked' = (locked /\ c \notin Serialized)
    /\ UNCHANGED <<job, lockQueue, free, releases, workQueue, poolOpen, loopOpen>>

----------------------------------------------------------------------------
(* A worker thread takes the next item; a cancelled one it drops.          *)
Start ==
    /\ workQueue # <<>>
    /\ Cardinality(Busy) < Workers
    /\ workQueue' = Tail(workQueue)
    /\ job' = [job EXCEPT ![Head(workQueue)] = IF @ = "queued" THEN "running" ELSE @]
    /\ UNCHANGED <<task, lockQueue, capQueue, locked, free, releases, poolOpen, loopOpen>>

(* The function returns or raises: set_result stores that, and only then   *)
(* calls the callbacks.                                                    *)
Finish(c) ==
    /\ job[c] = "running"
    /\ job' = [job EXCEPT ![c] = "finished"]
    /\ UNCHANGED <<task, lockQueue, capQueue, locked, free, releases, workQueue, poolOpen, loopOpen>>

(* release_slot schedules release() in the loop.  On a closed loop its     *)
(* RuntimeError is suppressed and the release never happens.               *)
Notify(c) ==
    /\ job[c] = "finished"
    /\ job' = [job EXCEPT ![c] = "notified"]
    /\ releases' = IF loopOpen THEN releases \cup {c} ELSE releases
    /\ UNCHANGED <<task, lockQueue, capQueue, locked, free, workQueue, poolOpen, loopOpen>>

Release(c) ==
    /\ c \in releases
    /\ releases' = releases \ {c}
    /\ free' = free + 1
    /\ locked' = (locked /\ c \notin Serialized)
    /\ UNCHANGED <<task, job, lockQueue, capQueue, workQueue, poolOpen, loopOpen>>

(* The awaiting task gets the result, or the cancellation of close().      *)
(* release_slot is attached before wrap_future's own callback, so release  *)
(* comes first; but when the function finishes between the two, the loop   *)
(* finds it done and schedules the result before the worker has called     *)
(* release_slot.  So either may come first.                                *)
Deliver(c) ==
    /\ loopOpen
    /\ task[c] = "pool"
    /\ job[c] \in {"finished", "notified", "dropped"}
    /\ task' = [task EXCEPT ![c] = IF job[c] = "dropped" THEN "cancelled" ELSE "returned"]
    /\ UNCHANGED <<job, lockQueue, capQueue, locked, free, releases, workQueue, poolOpen, loopOpen>>

----------------------------------------------------------------------------

BugCancelKeepsLock(c) ==
    /\ loopOpen /\ task[c] \in Waiting
    /\ task' = [task EXCEPT ![c] = "cancelled"]
    /\ lockQueue' = Without(lockQueue, c)
    /\ capQueue' = Without(capQueue, c)
    /\ UNCHANGED <<job, locked, free, releases, workQueue, poolOpen, loopOpen>>

(* The client cancels the request.  Before submission the except clause    *)
(* gives the lock back; afterwards the future still owns lock and slot.    *)
Cancel(c) ==
    /\ loopOpen
    /\ task[c] \in Waiting
    /\ task' = [task EXCEPT ![c] = "cancelled"]
    /\ lockQueue' = Without(lockQueue, c)
    /\ capQueue' = Without(capQueue, c)
    /\ locked' = (locked /\ ~(task[c] = "capacity" /\ c \in Serialized))
    /\ UNCHANGED <<job, free, releases, workQueue, poolOpen, loopOpen>>

BugDropReleasesTwice(c) ==
    /\ loopOpen /\ task[c] = "cancelled" /\ job[c] = "queued"
    /\ job' = [job EXCEPT ![c] = "dropped"]
    /\ releases' = releases \cup {c}
    /\ free' = free + 1
    /\ UNCHANGED <<task, lockQueue, capQueue, locked, workQueue, poolOpen, loopOpen>>

(* wrap_future passes the cancellation on, one loop iteration later: a     *)
(* future no worker has taken is cancelled too, and its callback runs.     *)
DropCancelled(c) ==
    /\ loopOpen
    /\ task[c] = "cancelled"
    /\ job[c] = "queued"
    /\ job' = [job EXCEPT ![c] = "dropped"]
    /\ releases' = releases \cup {c}
    /\ UNCHANGED <<task, lockQueue, capQueue, locked, free, workQueue, poolOpen, loopOpen>>

(* close(): every queued future is cancelled; running functions finish.    *)
Close ==
    /\ poolOpen
    /\ poolOpen' = FALSE
    /\ workQueue' = <<>>
    /\ job' = [c \in Calls |-> IF job[c] = "queued" THEN "dropped" ELSE job[c]]
    /\ releases' = IF loopOpen THEN releases \cup {c \in Calls : job[c] = "queued"}
                   ELSE releases
    /\ UNCHANGED <<task, lockQueue, capQueue, locked, free, loopOpen>>

(* The loop ends when no task is left in it; callbacks not run are lost.   *)
CloseLoop ==
    /\ loopOpen
    /\ \A c \in Calls : task[c] \notin Waiting
    /\ loopOpen' = FALSE
    /\ releases' = {}
    /\ UNCHANGED <<task, job, lockQueue, capQueue, locked, free, workQueue, poolOpen>>

----------------------------------------------------------------------------
Init ==
    /\ task = [c \in Calls |-> "new"]
    /\ job = [c \in Calls |-> "none"]
    /\ lockQueue = <<>> /\ capQueue = <<>> /\ workQueue = <<>>
    /\ locked = FALSE
    /\ free = Capacity
    /\ releases = {}
    /\ poolOpen = TRUE /\ loopOpen = TRUE

LoopStep(c) ==
    \/ AcquireLock(c) \/ Submit(c) \/ SubmitRefused(c)
    \/ Release(c) \/ Deliver(c) \/ DropCancelled(c)

Next ==
    \/ \E c \in Calls : Request(c) \/ LoopStep(c) \/ Finish(c) \/ Notify(c) \/ Cancel(c)
    \/ Start \/ Close \/ CloseLoop

Spec == Init /\ [][Next]_vars

(* The loop runs what is ready; every function returns (the subprocesses   *)
(* the handlers wait for have timeouts).  Nothing is assumed of clients.   *)
FairSpec ==
    /\ Spec
    /\ \A c \in Calls : WF_vars(LoopStep(c)) /\ WF_vars(Finish(c)) /\ WF_vars(Notify(c))
    /\ WF_vars(Start)

----------------------------------------------------------------------------
TypeOK ==
    /\ task \in [Calls -> {"new"} \cup Waiting \cup Ended]
    /\ job \in [Calls -> {"none", "queued", "running", "finished", "notified", "dropped"}]
    /\ lockQueue \in Seq(Serialized) /\ capQueue \in Seq(Calls) /\ workQueue \in Seq(Calls)
    /\ locked \in BOOLEAN
    /\ free \in 0..Capacity
    /\ releases \in SUBSET Calls
    /\ poolOpen \in BOOLEAN /\ loopOpen \in BOOLEAN

(* Through every cancellation, refusal, drop and shutdown a slot is given  *)
(* back exactly once ("a request cancelled before submission does not keep *)
(* an admission slot", docs/validators.md:370; release_slot).              *)
SlotsConserved == loopOpen => free + Cardinality(Holding) = Capacity

(* Two validate or lint functions never run at once, not even when the     *)
(* caller of the first was cancelled ("the worker still owns the lock      *)
(* until it exits", run_serialized).                                       *)
OneAtATime == \A c, d \in Serialized \cap Running : c = d

(* The lock is held exactly while one call needs it.  So a cancelled or    *)
(* refused call never leaves it locked, and calls waiting for it take no   *)
(* slot: one validate or lint call at most is in the pool or waiting to    *)
(* enter it ("must not starve unrelated blocking tools", _run).            *)
LockHasOneHolder ==
    loopOpen => /\ \A c, d \in LockHolders : c = d
                /\ locked <=> LockHolders # {}

(* Every call ends: neither a lost lock nor a lost slot leaves one waiting *)
(* for ever.                                                               *)
EveryCallEnds == \A c \in Calls : task[c] \in Waiting ~> task[c] \in Ended
=============================================================================
