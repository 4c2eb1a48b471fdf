---------------------------- MODULE FreshIndex ----------------------------
(***************************************************************************)
(* What an index promises its callers, with no cache at all: a refresh     *)
(* that began when the files had the signatures `seen' publishes maps made *)
(* from content at least that new, for exactly the files seen.  Processes  *)
(* (servers, build-index runs) do not affect each other.                   *)
(***************************************************************************)
EXTENDS SourceFiles

CONSTANTS Procs

VARIABLES held,   \* process -> file -> what its in-memory maps hold
          seen    \* process -> <<>> or <<signatures the running refresh began with>>

ivars == <<disk, held, seen>>

Init ==
    /\ DiskInit
    /\ held = [p \in Procs |-> NoneHeld]
    /\ seen = [p \in Procs |-> <<>>]

Environment == \E f \in Files : (Write(f) \/ Delete(f)) /\ UNCHANGED <<held, seen>>

Begin(p) ==
    /\ seen[p] = <<>>
    /\ seen' = [seen EXCEPT ![p] = <<Signatures>>]
    /\ UNCHANGED <<disk, held>>

Publish(p) ==
    /\ seen[p] # <<>>
    /\ held'[p] \in [Files -> Held]
    /\ FreshView(held'[p], seen[p][1])
    /\ held' = [held EXCEPT ![p] = held'[p]]
    /\ UNCHANGED <<disk, seen>>

(* The refresh ends with the maps it published, the ones it publishes now, *)
(* or, when nothing moved, the ones it found.                              *)
Finish(p) ==
    /\ seen[p] # <<>>
    /\ held'[p] \in [Files -> Held]
    /\ FreshView(held'[p], seen[p][1])
    /\ held' = [held EXCEPT ![p] = held'[p]]
    /\ seen' = [seen EXCEPT ![p] = <<>>]
    /\ UNCHANGED disk

Restart(p) ==
    /\ held' = [held EXCEPT ![p] = NoneHeld]
    /\ seen' = [seen EXCEPT ![p] = <<>>]
    /\ UNCHANGED disk

Next == Environment \/ \E p \in Procs : Begin(p) \/ Publish(p) \/ Finish(p) \/ Restart(p)

Spec == Init /\ [][Next]_ivars
=============================================================================
