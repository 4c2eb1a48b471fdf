-------------------------- MODULE OffloaderProofs --------------------------
(* Slots and the validator lock survive every interleaving of cancelled    *)
(* calls, workers, callbacks and shutdown, for any calls and any limits.   *)
EXTENDS Offloader, FiniteSetTheorems, TLAPS

TaskStates == {"new"} \cup Waiting \cup Ended
JobStates == {"none", "queued", "running", "finished", "notified", "dropped"}

Typed ==
    /\ task \in [Calls -> TaskStates] /\ job \in [Calls -> JobStates]
    /\ free \in Nat /\ releases \in SUBSET Calls
    /\ locked \in BOOLEAN /\ poolOpen \in BOOLEAN /\ loopOpen \in BOOLEAN

(* Only serialized calls queue for the lock.  A future exists only once    *)
(* its task is past the queues; its release is scheduled once, when its    *)
(* callbacks were called.                                                  *)
JobFollowsTask ==
    \A c \in Calls :
       /\ task[c] = "lock" => c \in Serialized
       /\ job[c] # "none" => task[c] \in {"pool"} \cup Ended
       /\ c \in releases => job[c] \in {"notified", "dropped"}

LoopIsOver == ~loopOpen => releases = {} /\ \A c \in Calls : task[c] \notin Waiting

OneHolder == \A c, d \in LockHolders : c = d

LockMatches == loopOpen => (locked <=> LockHolders # {})

States == Typed /\ JobFollowsTask /\ LoopIsOver

IInv == States /\ OneHolder /\ LockMatches /\ SlotsConserved

----------------------------------------------------------------------------
LEMMA StatesInit == Init => States
  BY LimitsAdmitWork
  DEF Init, States, Typed, JobFollowsTask, LoopIsOver, TaskStates, JobStates, Waiting, Ended

LEMMA StatesStep == States /\ [Next]_vars => States'
  <1> SUFFICES ASSUME States, [Next]_vars PROVE States'
    OBVIOUS
  <1> USE DEF States, Typed, JobFollowsTask, LoopIsOver, TaskStates, JobStates, Waiting, Ended
  <1>1. ASSUME NEW c \in Calls, Request(c) PROVE States'
    BY <1>1 DEF Request
  <1>2. ASSUME NEW c \in Calls, AcquireLock(c) PROVE States'
    BY <1>2 DEF AcquireLock
  <1>3. ASSUME NEW c \in Calls, Submit(c) PROVE States'
    BY <1>3 DEF Submit
  <1>4. ASSUME NEW c \in Calls, SubmitRefused(c) PROVE States'
    BY <1>4 DEF SubmitRefused
  <1>5. ASSUME NEW c \in Calls, Release(c) PROVE States'
    BY <1>5 DEF Release
  <1>6. ASSUME NEW c \in Calls, Deliver(c) PROVE States'
    BY <1>6 DEF Deliver
  <1>7. ASSUME NEW c \in Calls, DropCancelled(c) PROVE States'
    BY <1>7 DEF DropCancelled
  <1>8. ASSUME NEW c \in Calls, Finish(c) \/ Notify(c) PROVE States'
    BY <1>8 DEF Finish, Notify
  <1>9. ASSUME NEW c \in Calls, Cancel(c) PROVE States'
    BY <1>9 DEF Cancel
  <1>10. CASE Start
    BY <1>10 DEF Start
  <1>11. CASE Close
    BY <1>11 DEF Close
  <1>12. CASE CloseLoop
    BY <1>12 DEF CloseLoop
  <1>13. CASE UNCHANGED vars
    BY <1>13 DEF vars
  <1> QED
    BY <1>1, <1>2, <1>3, <1>4, <1>5, <1>6, <1>7, <1>8, <1>9, <1>10, <1>11, <1>12, <1>13
    DEF Next, LoopStep

(* Submit takes a slot, Release gives one back; every other step passes    *)
(* the slots on, a closing loop excepted.                                  *)
LEMMA HoldingStep ==
  ASSUME States, [Next]_vars, loopOpen'
  PROVE  \/ Holding' = Holding /\ free' = free
         \/ \E c \in Calls : /\ c \notin Holding /\ Holding' = Holding \cup {c}
                             /\ free > 0 /\ free' = free - 1
         \/ \E c \in Calls : /\ c \in Holding /\ Holding' = Holding \ {c}
                             /\ free' = free + 1
  <1> USE DEF States, Typed, JobFollowsTask, TaskStates, JobStates, Waiting, Ended, Holding
  <1>1. ASSUME NEW c \in Calls, Request(c) PROVE Holding' = Holding /\ free' = free
    BY <1>1 DEF Request
  <1>2. ASSUME NEW c \in Calls, AcquireLock(c) PROVE Holding' = Holding /\ free' = free
    BY <1>2 DEF AcquireLock
  <1>3. ASSUME NEW c \in Calls, Submit(c)
        PROVE  /\ c \notin Holding /\ Holding' = Holding \cup {c}
               /\ free > 0 /\ free' = free - 1
    BY <1>3 DEF Submit
  <1>4. ASSUME NEW c \in Calls, SubmitRefused(c) PROVE Holding' = Holding /\ free' = free
    BY <1>4 DEF SubmitRefused
  <1>5. ASSUME NEW c \in Calls, Release(c)
        PROVE  c \in Holding /\ Holding' = Holding \ {c} /\ free' = free + 1
    BY <1>5 DEF Release
  <1>6. ASSUME NEW c \in Calls, Deliver(c) PROVE Holding' = Holding /\ free' = free
    BY <1>6 DEF Deliver
  <1>7. ASSUME NEW c \in Calls, DropCancelled(c) PROVE Holding' = Holding /\ free' = free
    BY <1>7 DEF DropCancelled
  <1>8. ASSUME NEW c \in Calls, Finish(c) \/ Notify(c) PROVE Holding' = Holding /\ free' = free
    BY <1>8 DEF Finish, Notify
  <1>9. ASSUME NEW c \in Calls, Cancel(c) PROVE Holding' = Holding /\ free' = free
    BY <1>9 DEF Cancel
  <1>10. CASE Start
    BY <1>10 DEF Start
  <1>11. CASE Close
    BY <1>11 DEF Close
  <1>12. CASE CloseLoop
    BY <1>12 DEF CloseLoop
  <1>13. CASE UNCHANGED vars
    BY <1>13 DEF vars
  <1> QED
    BY <1>1, <1>2, <1>3, <1>4, <1>5, <1>6, <1>7, <1>8, <1>9, <1>10, <1>11, <1>12, <1>13
    DEF Next, LoopStep

LEMMA SlotsStep ==
  ASSUME States, SlotsConserved, [Next]_vars
  PROVE  SlotsConserved'
  <1> SUFFICES ASSUME loopOpen' PROVE free' + Cardinality(Holding') = Capacity
    BY DEF SlotsConserved
  <1>1. loopOpen
    BY DEF Next, LoopStep, Request, AcquireLock, Submit, SubmitRefused, Release, Deliver,
           DropCancelled, Finish, Notify, Cancel, Start, Close, CloseLoop, vars
  <1>2. IsFiniteSet(Holding)
    BY CallsFinite, FS_Subset DEF Holding
  <1>3. Cardinality(Holding) \in Nat /\ free \in Nat /\ free + Cardinality(Holding) = Capacity
    BY <1>1, <1>2, FS_CardinalityType DEF SlotsConserved, States, Typed
  <1>4. CASE Holding' = Holding /\ free' = free
    BY <1>3, <1>4
  <1>5. ASSUME NEW c \in Calls, c \notin Holding, Holding' = Holding \cup {c}, free' = free - 1
        PROVE  free' + Cardinality(Holding') = Capacity
    <2>1. Cardinality(Holding \cup {c}) = Cardinality(Holding) + 1
      BY <1>2, <1>5, FS_AddElement
    <2> QED
      BY <1>3, <1>5, <2>1
  <1>6. ASSUME NEW c \in Calls, c \in Holding, Holding' = Holding \ {c}, free' = free + 1
        PROVE  free' + Cardinality(Holding') = Capacity
    <2>1. Cardinality(Holding \ {c}) = Cardinality(Holding) - 1
      BY <1>2, <1>6, FS_RemoveElement
    <2> QED
      BY <1>3, <1>6, <2>1
  <1> QED
    BY <1>4, <1>5, <1>6, HoldingStep

----------------------------------------------------------------------------
(* AcquireLock makes a holder of the lock, when there is none; Release, a  *)
(* refusal and a cancelled wait for capacity end one and free the lock.    *)
LEMMA LockHoldersStep ==
  ASSUME States, [Next]_vars
  PROVE  \/ LockHolders' = LockHolders /\ locked' = locked /\ loopOpen' = loopOpen
         \/ /\ ~loopOpen' /\ LockHolders' \subseteq LockHolders
         \/ /\ loopOpen /\ ~locked /\ locked'
            /\ \E c \in Calls : LockHolders' = LockHolders \cup {c}
         \/ /\ loopOpen /\ ~locked'
            /\ \E c \in LockHolders : LockHolders' = LockHolders \ {c}
  <1> USE CallsFinite DEF States, Typed, JobFollowsTask, LoopIsOver, TaskStates, JobStates,
                          Waiting, Ended, LockHolders, Holding
  <1> DEFINE Same == LockHolders' = LockHolders /\ locked' = locked /\ loopOpen' = loopOpen
             Drops(c) == /\ loopOpen /\ ~locked' /\ c \in LockHolders
                         /\ LockHolders' = LockHolders \ {c}
             Shuts == ~loopOpen' /\ LockHolders' \subseteq LockHolders
  <1>1. ASSUME NEW c \in Calls, Request(c) PROVE Same
    BY <1>1 DEF Request
  <1>2. ASSUME NEW c \in Calls, AcquireLock(c)
        PROVE  loopOpen /\ ~locked /\ locked' /\ LockHolders' = LockHolders \cup {c}
    <2>1. loopOpen /\ ~locked /\ locked' /\ c \in Serialized /\ task'[c] = "capacity"
      BY <1>2 DEF AcquireLock
    <2>2. \A d \in Calls : d # c => task'[d] = task[d]
      BY <1>2 DEF AcquireLock
    <2>3. job' = job /\ releases' = releases
      BY <1>2 DEF AcquireLock
    <2> QED
      BY <2>1, <2>2, <2>3
  <1>3. ASSUME NEW c \in Calls, Submit(c) PROVE Same
    BY <1>3 DEF Submit
  <1>4. ASSUME NEW c \in Calls, SubmitRefused(c) PROVE Same \/ Drops(c)
    <2>1. CASE c \in Serialized
      BY <1>4, <2>1 DEF SubmitRefused
    <2>2. CASE c \notin Serialized
      BY <1>4, <2>2 DEF SubmitRefused
    <2> QED
      BY <2>1, <2>2
  <1>5. ASSUME NEW c \in Calls, Release(c) PROVE Same \/ Drops(c)
    <2>1. CASE c \in Serialized
      BY <1>5, <2>1 DEF Release
    <2>2. CASE c \notin Serialized
      BY <1>5, <2>2 DEF Release
    <2> QED
      BY <2>1, <2>2
  <1>6. ASSUME NEW c \in Calls, Deliver(c) PROVE Same
    BY <1>6 DEF Deliver
  <1>7. ASSUME NEW c \in Calls, DropCancelled(c) PROVE Same
    BY <1>7 DEF DropCancelled
  <1>8. ASSUME NEW c \in Calls, Finish(c) \/ Notify(c) PROVE Same \/ Shuts
    BY <1>8 DEF Finish, Notify
  <1>9. ASSUME NEW c \in Calls, Cancel(c) PROVE Same \/ Drops(c)
    <2>1. CASE c \in Serialized /\ task[c] = "capacity"
      BY <1>9, <2>1 DEF Cancel
    <2>2. CASE ~(c \in Serialized /\ task[c] = "capacity")
      BY <1>9, <2>2 DEF Cancel
    <2> QED
      BY <2>1, <2>2
  <1>10. CASE Start
    BY <1>10 DEF Start
  <1>11. CASE Close
    BY <1>11 DEF Close
  <1>12. CASE CloseLoop
    BY <1>12 DEF CloseLoop
  <1>13. CASE UNCHANGED vars
    BY <1>13 DEF vars
  <1> QED
    <2> HIDE DEF States, LockHolders
    <2> QED
      BY <1>1, <1>2, <1>3, <1>4, <1>5, <1>6, <1>7, <1>8, <1>9, <1>10, <1>11, <1>12, <1>13
      DEF Next, LoopStep

LEMMA LockStep ==
  ASSUME States, OneHolder, LockMatches, [Next]_vars
  PROVE  OneHolder' /\ LockMatches'
  <1> USE DEF OneHolder, LockMatches
  <1>1. CASE LockHolders' = LockHolders /\ locked' = locked /\ loopOpen' = loopOpen
    BY <1>1
  <1>2. CASE ~loopOpen' /\ LockHolders' \subseteq LockHolders
    BY <1>2
  <1>3. ASSUME NEW c \in Calls, loopOpen, ~locked, locked', LockHolders' = LockHolders \cup {c}
        PROVE  OneHolder' /\ LockMatches'
    <2>1. LockHolders' = {c}
      BY <1>3
    <2> QED
      BY <1>3, <2>1
  <1>4. ASSUME NEW c \in LockHolders, loopOpen, ~locked', LockHolders' = LockHolders \ {c}
        PROVE  OneHolder' /\ LockMatches'
    <2>1. LockHolders' = {}
      BY <1>4
    <2> QED
      BY <1>4, <2>1
  <1> QED
    BY <1>1, <1>2, <1>3, <1>4, LockHoldersStep

LEMMA InvInit == Init => IInv
  <1> SUFFICES ASSUME Init PROVE IInv
    OBVIOUS
  <1>1. Holding = {} /\ LockHolders = {}
    BY CallsFinite DEF Init, Holding, LockHolders
  <1>2. SlotsConserved
    BY <1>1, FS_EmptySet, LimitsAdmitWork DEF Init, SlotsConserved
  <1> QED
    BY <1>1, <1>2, StatesInit DEF IInv, Init, OneHolder, LockMatches

LEMMA InvStep == IInv /\ [Next]_vars => IInv'
  BY StatesStep, SlotsStep, LockStep DEF IInv

(* A slot is given back exactly once, however a call ends (release_slot,   *)
(* the except clause of _run).                                             *)
THEOREM SlotsAreConserved == Spec => []SlotsConserved
  <1>1. IInv => SlotsConserved
    BY DEF IInv
  <1> QED
    BY InvInit, InvStep, <1>1, PTL DEF Spec

(* The lock is held for exactly one call, or free (run_serialized).        *)
THEOREM LockIsHeldForOne == Spec => []LockHasOneHolder
  <1>1. IInv => LockHasOneHolder
    BY DEF IInv, LockHasOneHolder, OneHolder, LockMatches
  <1> QED
    BY InvInit, InvStep, <1>1, PTL DEF Spec

(* Two serialized functions never run at once, whoever was cancelled and   *)
(* even once the loop is closed (run_serialized).                          *)
THEOREM MutualExclusion == Spec => []OneAtATime
  <1>1. IInv => OneAtATime
    BY CallsFinite DEF IInv, OneAtATime, OneHolder, LockHolders, Holding, Running
  <1> QED
    BY InvInit, InvStep, <1>1, PTL DEF Spec
=============================================================================
