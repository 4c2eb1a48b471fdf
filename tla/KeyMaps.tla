----------------------------- MODULE KeyMaps ------------------------------
(***************************************************************************)
(* The key maps of one index (indexes/base.py): _by_key, the winning       *)
(* record of each primary key, and _duplicates, the files it shadows.      *)
(* The first load builds both from every file; a warm refresh patches them *)
(* for the keys of the files that moved, from _duplicates itself.          *)
(*                                                                         *)
(* A file's record list is abstracted to what the maps can tell apart: per *)
(* key, how many records define it and which comes last.  A shadowed list  *)
(* is in relpath order in both rebuilds, so it is its multiplicities.      *)
(***************************************************************************)
EXTENDS Naturals

CONSTANTS Files,     \* relative paths; their order is the order of the numbers
          Keys,
          Texts,     \* record contents
          MaxDefs    \* bound: records of one file with one key

ASSUME FilesOrdered ==
    /\ Files \subseteq Nat \ {0}
    /\ \A S \in SUBSET Files : S # {} => \E last \in S : \A f \in S : f <= last

ASSUME DefBound == MaxDefs \in Nat
ASSUME SomeText == Texts # {}

VARIABLES byFile,     \* file -> key -> [n, last]: _by_file (n = 0: key not defined there)
          byKey,      \* key -> [file, text] or NoRecord: _by_key
          shadowed,   \* key -> file -> multiplicity in _duplicates[key]
          loaded

vars == <<byFile, byKey, shadowed, loaded>>

Defs == [n : Nat, last : Texts]
Blank == CHOOSE t \in Texts : TRUE
SmallDefs == [n : {0}, last : {Blank}] \cup [n : 1..MaxDefs, last : Texts]
Contents == [Keys -> Defs]

(* A file that is gone, or whose parse failed, contributes no record.      *)
Nothing == [k \in Keys |-> [n |-> 0, last |-> Blank]]

NoRecord == [file |-> 0, text |-> Blank]
Winners == [file : Files, text : Texts] \cup {NoRecord}

Last(S) == CHOOSE f \in S : \A g \in S : g <= f

----------------------------------------------------------------------------
(* _rebuild_full: every file in relpath order, last write wins; each       *)
(* earlier definition is one entry of the shadowed list.                   *)
Definers(contents, k) == {f \in Files : contents[f][k].n > 0}

FullWinner(contents, k) ==
    IF Definers(contents, k) = {} THEN NoRecord
    ELSE [file |-> Last(Definers(contents, k)),
          text |-> contents[Last(Definers(contents, k))][k].last]

FullShadowed(contents, k) ==
    [f \in Files |-> IF f = FullWinner(contents, k).file THEN contents[f][k].n - 1
                     ELSE contents[f][k].n]

Load(contents) ==
    /\ ~loaded
    /\ loaded' = TRUE
    /\ byFile' = contents
    /\ byKey' = [k \in Keys |-> FullWinner(contents, k)]
    /\ shadowed' = [k \in Keys |-> FullShadowed(contents, k)]

----------------------------------------------------------------------------
(* _rebuild_incremental: `moved' is stale, removed and added files         *)
(* together, `now' their records (Nothing if removed or failed).           *)
BugTouchedNewOnly(moved, now) == {k \in Keys : \E f \in moved : now[f][k].n > 0}

Touched(moved, now) ==
    {k \in Keys : \E f \in moved : byFile[f][k].n > 0 \/ now[f][k].n > 0}

(* Old shadowed files and the old winner, minus the files that moved, plus *)
(* one entry per record the moved files have now.                          *)
Contributors(moved, now, k) ==
    [f \in Files |-> IF f \in moved THEN now[f][k].n
                     ELSE IF f = byKey[k].file THEN shadowed[k][f] + 1
                     ELSE shadowed[k][f]]

Contributing(moved, now, k) == {f \in Files : Contributors(moved, now, k)[f] > 0}

(* The old record is kept when its file still wins and did not move, else  *)
(* the winning file's last record is taken.                                *)
PatchedWinner(moved, now, k) ==
    LET last == Last(Contributing(moved, now, k)) IN
    IF Contributing(moved, now, k) = {} THEN NoRecord
    ELSE IF byKey[k].file = last /\ last \notin moved THEN byKey[k]
    ELSE [file |-> last,
          text |-> IF last \in moved THEN now[last][k].last ELSE byFile[last][k].last]

BugShadowedByOldWinner(moved, now, k) ==
    [f \in Files |-> IF f = byKey[k].file THEN Contributors(moved, now, k)[f] - 1
                     ELSE Contributors(moved, now, k)[f]]

PatchedShadowed(moved, now, k) ==
    LET last == Last(Contributing(moved, now, k)) IN
    [f \in Files |-> IF Contributing(moved, now, k) # {} /\ f = last
                     THEN Contributors(moved, now, k)[f] - 1
                     ELSE Contributors(moved, now, k)[f]]

Patch(moved, now) ==
    /\ loaded
    /\ moved # {}
    /\ byFile' = [f \in Files |-> IF f \in moved THEN now[f] ELSE byFile[f]]
    /\ byKey' = [k \in Keys |-> IF k \in Touched(moved, now)
                                THEN PatchedWinner(moved, now, k) ELSE byKey[k]]
    /\ shadowed' = [k \in Keys |-> IF k \in Touched(moved, now)
                                   THEN PatchedShadowed(moved, now, k) ELSE shadowed[k]]
    /\ UNCHANGED loaded

----------------------------------------------------------------------------
Init ==
    /\ loaded = FALSE
    /\ byFile = [f \in Files |-> Nothing]
    /\ byKey = [k \in Keys |-> NoRecord]
    /\ shadowed = [k \in Keys |-> [f \in Files |-> 0]]

Next ==
    \/ \E contents \in [Files -> [Keys -> SmallDefs]] : Load(contents)
    \/ \E moved \in SUBSET Files : \E now \in [moved -> [Keys -> SmallDefs]] : Patch(moved, now)

Spec == Init /\ [][Next]_vars

TypeOK ==
    /\ byFile \in [Files -> Contents]
    /\ byKey \in [Keys -> Winners]
    /\ shadowed \in [Keys -> [Files -> Nat]]
    /\ loaded \in BOOLEAN

(* "The result is identical to a full rebuild over the same files"         *)
(* (_rebuild_incremental), after any sequence of refreshes: removing a     *)
(* shadowing file un-shadows the earlier definition, with its own record.  *)
PatchedIsRebuilt ==
    \A k \in Keys : /\ byKey[k] = FullWinner(byFile, k)
                    /\ shadowed[k] = FullShadowed(byFile, k)
=============================================================================
