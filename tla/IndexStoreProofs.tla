------------------------- MODULE IndexStoreProofs -------------------------
(* Proofs about IndexStore, for any files, versions and number of faults.  *)
EXTENDS IndexStore, TLAPS

(* A cache directory used by one process, where either the payload is one  *)
(* file or no write fails: the case in which the write order is enough.    *)
LoneWriter ==
    /\ \A p, q \in Procs : p = q
    /\ Sharded => ~WritesMayFail

USE DEF NoSig

LEMMA NoneIsHeld == None \in Held /\ NoneHeld \in Views /\ NoSigs \in Sigs /\ NoJob \in Job
  BY DEF None, Held, NoneHeld, Views, NoSigs, Sigs, NoJob, Job

LEMMA OutcomeIsHeld ==
  ASSUME TypeOK, NEW f \in Files
  PROVE  Outcome(f) \in Held
  BY DEF TypeOK, DiskOK, DiskEntry, Outcome, Held

LEMMA SignaturesTyped ==
  ASSUME TypeOK
  PROVE  Signatures \in Sigs
  BY DEF TypeOK, DiskOK, DiskEntry, Signatures, Sigs

(***************************************************************************)
(* Type correctness.                                                       *)
(***************************************************************************)
LEMMA RefreshTyped ==
  ASSUME TypeOK, NEW p \in Procs, Refresh(p)
  PROVE  TypeOK'
  <1> USE NoneIsHeld, FlagsAreBoolean DEF Finish, Forget, cache, memory, local
  <1>1. CASE Stat(p)
    BY <1>1, SignaturesTyped DEF Stat, TypeOK, DiskOK
  <1>2. CASE FastPath(p)
    BY <1>2 DEF FastPath, TypeOK, DiskOK
  <1>3. CASE Plan(p)
    <2>1. Baseline(p) \in Sigs
      BY DEF Baseline, TypeOK
    <2>2. /\ Moved(p) \subseteq Files
          /\ Gone(p) \subseteq Files
          /\ Unchanged(Baseline(p), current[p]) \subseteq Files
      BY DEF Moved, Gone, Unchanged, Stale, Added, Removed
    <2>3. [f \in Files |-> IF f \in Moved(p) \cup Gone(p) THEN None ELSE held[p][f]] \in Views
      BY DEF Views, TypeOK
    <2>4. job' \in [Procs -> Job]
      BY <1>3, <2>2, <2>3 DEF Plan, TypeOK, Job
    <2> QED
      BY <1>3, <2>4 DEF Plan, TypeOK, DiskOK
  <1>4. ASSUME NEW S \in ReadUnits(p), LoadCached(p, S)
        PROVE  TypeOK'
    <2>1. S \subseteq Files
      BY DEF ReadUnits, TypeOK, Job
    <2>2. job[p] \in Job
      BY DEF TypeOK
    <2>3. [f \in Files |-> IF f \in S THEN data[f] ELSE job[p].fresh[f]] \in Views
      BY <2>2 DEF Views, TypeOK, Job
    <2>4. job' \in [Procs -> Job]
      BY <1>4, <2>1, <2>2, <2>3 DEF LoadCached, TypeOK, Job
    <2> QED
      BY <1>4, <2>4 DEF LoadCached, TypeOK, DiskOK
  <1>5. ASSUME NEW f \in Files, Parse(p, f)
        PROVE  TypeOK'
    <2>1. [job[p].fresh EXCEPT ![f] = Outcome(f)] \in Views
      BY OutcomeIsHeld DEF Views, TypeOK, Job
    <2>2. job' \in [Procs -> Job]
      BY <1>5, <2>1 DEF Parse, TypeOK, Job
    <2> QED
      BY <1>5, <2>2 DEF Parse, TypeOK, DiskOK
  <1>6. CASE Install(p)
    <2>1. job[p].fresh \in Views /\ held' = [held EXCEPT ![p] = job[p].fresh]
      BY <1>6 DEF Install, TypeOK, Job
    <2>2. CASE job[p].save
      BY <1>6, <2>1, <2>2 DEF Install, TypeOK, DiskOK
    <2>3. CASE ~job[p].save
      BY <1>6, <2>1, <2>3 DEF Install, TypeOK, DiskOK
    <2> QED
      BY <2>2, <2>3
  <1>7. CASE WriteData(p)
    <2>1. Payload(held[p]) \in Views
      BY DEF Payload, Views, TypeOK
    <2> QED
      BY <1>7, <2>1 DEF WriteData, TypeOK, DiskOK
  <1>8. ASSUME NEW f \in Files, WriteShard(p, f)
        PROVE  TypeOK'
    <2>1. job[p].fresh[f] \in Held
      BY DEF TypeOK, Job, Views
    <2>2. job' \in [Procs -> Job]
      BY <1>8 DEF WriteShard, TypeOK, Job
    <2> QED
      BY <1>8, <2>1, <2>2 DEF WriteShard, TypeOK, DiskOK, Views
  <1>9. CASE DropShards(p)
    <2>1. data' \in Views
      BY <1>9 DEF DropShards, Views, TypeOK
    <2> QED
      BY <1>9, <2>1 DEF DropShards, TypeOK, DiskOK
  <1>10. CASE WriteManifest(p)
    BY <1>10 DEF WriteManifest, TypeOK, DiskOK
  <1>11. CASE WriteFails(p)
    BY <1>11 DEF WriteFails, TypeOK, DiskOK
  <1> QED
    BY <1>1, <1>2, <1>3, <1>4, <1>5, <1>6, <1>7, <1>8, <1>9, <1>10, <1>11 DEF Refresh

(* The variables keep their types, whatever the processes, the editors and *)
(* the faults do.                                                          *)
THEOREM TypeCorrect == Spec => []TypeOK
  <1>1. Init => TypeOK
    <2> SUFFICES ASSUME Init PROVE TypeOK
      OBVIOUS
    <2>1. DiskOK
      <3>1. \A start \in SUBSET Files, f \in Files :
              [ver |-> 1, there |-> f \in start, good |-> TRUE] \in DiskEntry
        BY DEF DiskEntry
      <3> QED
        BY <3>1 DEF Init, DiskInit, DiskOK
    <2> QED
      BY <2>1, NoneIsHeld, FaultBound DEF Init, TypeOK
  <1>2. TypeOK /\ [Next]_vars => TypeOK'
    <2> SUFFICES ASSUME TypeOK, [Next]_vars PROVE TypeOK'
      OBVIOUS
    <2> USE NoneIsHeld DEF cache, memory, local
    <2>1. CASE SourceChange
      <3>1. PICK f \in Files, there \in BOOLEAN, good \in BOOLEAN : Change(f, there, good)
        BY <2>1 DEF SourceChange, Write, Delete, TypeOK, DiskOK, DiskEntry
      <3>2. [ver |-> disk[f].ver + 1, there |-> there, good |-> good] \in DiskEntry
        BY DEF TypeOK, DiskOK, DiskEntry
      <3>3. DiskOK'
        BY <3>1, <3>2 DEF Change, TypeOK, DiskOK
      <3> QED
        BY <2>1, <3>3 DEF SourceChange, TypeOK
    <2>2. CASE Damage
      <3>1. manifest' \in Sigs /\ data' \in Views
        BY <2>2 DEF Damage, TypeOK, Views
      <3>2. faults' \in 0..MaxFaults
        BY <2>2, FaultBound DEF Damage, TypeOK
      <3> QED
        BY <2>2, <3>1, <3>2 DEF Damage, TypeOK, DiskOK
    <2>3. ASSUME NEW p \in Procs, Refresh(p)
          PROVE  TypeOK'
      BY <2>3, RefreshTyped
    <2>4. ASSUME NEW p \in Procs, Restart(p)
          PROVE  TypeOK'
      <3>1. faults' \in 0..MaxFaults
        BY <2>4, FaultBound DEF Restart, TypeOK
      <3> QED
        BY <2>4, <3>1 DEF Restart, Forget, TypeOK, DiskOK
    <2>5. CASE UNCHANGED vars
      BY <2>5 DEF vars, TypeOK, DiskOK
    <2> QED
      BY <2>1, <2>2, <2>3, <2>4, <2>5 DEF Next
  <1> QED
    BY <1>1, <1>2, PTL DEF Spec
(***************************************************************************)
(* NeverStale is inductive for a lone writer: one lemma per action.        *)
(***************************************************************************)
LEMMA StatSafe ==
  ASSUME TypeOK, NeverStale, LoneWriter, NEW p \in Procs, Stat(p)
  PROVE  NeverStale'
  <1> USE DEF Stat, memory
  <1>1. StoreInv' /\ \A f \in Files : disk'[f].ver > 0
    BY DEF NeverStale, StoreInv, Genuine, NotOlder, Outcome
  <1>2. MemoryInv(p)'
    <2> SUFFICES ASSUME NEW f \in Files
                 PROVE /\ Genuine(f, held[p][f])
                       /\ sigs[p][f] <= disk[f].ver
                       /\ current'[p][f] <= disk[f].ver
                       /\ current'[p][f] # NoSig => manifest[f] <= current'[p][f]
                       /\ loaded[p] => AtLeast(f, held[p][f], sigs[p][f])
                       /\ loaded[p] /\ Sharded => NotOlder(data[f], sigs[p][f])
                       /\ loaded[p] /\ disk[f].there /\ sigs[p][f] = disk[f].ver =>
                            current'[p][f] = sigs[p][f]
      BY DEF MemoryInv, Genuine, AtLeast, NotOlder, Outcome
    <2>1. current'[p][f] = IF disk[f].there THEN disk[f].ver ELSE NoSig
      BY DEF Signatures, TypeOK
    <2>2. disk[f].ver \in Nat
      BY DEF TypeOK, DiskOK, DiskEntry
    <2> QED
      BY <2>1, <2>2 DEF NeverStale, MemoryInv, StoreInv
  <1>3. (LoadInv(p) /\ ParseInv(p) /\ WriteInv(p))'
    BY DEF LoadInv, ParseInv, WriteInv, TypeOK
  <1> QED
    BY <1>1, <1>2, <1>3 DEF NeverStale, LoneWriter

LEMMA FinishSafe ==
  ASSUME TypeOK, NeverStale, LoneWriter, NEW p \in Procs,
         Finish(p), disk' = disk, data' = data,
         pc[p] \in {"parse", "write", "manifest"},
         \A f \in Files : /\ AtLeast(f, held'[p][f], current[p][f])
                          /\ Sharded => NotOlder(data[f], current[p][f])
                          /\ NotOlder(data[f], manifest'[f])
                          /\ manifest'[f] <= disk[f].ver,
         held' \in [Procs -> Views]
  PROVE  NeverStale'
  <1> USE DEF Finish, Forget, TypeOK, DiskOK, DiskEntry, Sigs, Views, Held
  <1>1. StoreInv' /\ \A f \in Files : disk'[f].ver > 0
    BY DEF NeverStale, StoreInv, Genuine, NotOlder, Outcome
  <1>2. MemoryInv(p)'
    BY DEF NeverStale, MemoryInv, AtLeast, Genuine, NotOlder, Outcome, NoSigs
  <1>3. (LoadInv(p) /\ ParseInv(p) /\ WriteInv(p))'
    BY DEF LoadInv, ParseInv, WriteInv
  <1> QED
    BY <1>1, <1>2, <1>3 DEF NeverStale, LoneWriter

LEMMA FastPathSafe ==
  ASSUME TypeOK, NeverStale, LoneWriter, NEW p \in Procs, FastPath(p)
  PROVE  NeverStale'
  <1> USE DEF FastPath, Forget, memory, cache
  <1>1. StoreInv' /\ \A f \in Files : disk'[f].ver > 0
    BY DEF NeverStale, StoreInv, Genuine, NotOlder, Outcome
  <1>2. MemoryInv(p)'
    <2> SUFFICES ASSUME NEW f \in Files
                 PROVE /\ Genuine(f, held[p][f])
                       /\ sigs[p][f] <= disk[f].ver
                       /\ 0 <= disk[f].ver
                       /\ loaded[p] => AtLeast(f, held[p][f], sigs[p][f])
                       /\ loaded[p] /\ Sharded => NotOlder(data[f], sigs[p][f])
      BY DEF MemoryInv, Genuine, AtLeast, NotOlder, Outcome, NoSigs, TypeOK
    <2> QED
      BY DEF NeverStale, MemoryInv, TypeOK, DiskOK, DiskEntry
  <1>3. (LoadInv(p) /\ ParseInv(p) /\ WriteInv(p))'
    BY DEF LoadInv, ParseInv, WriteInv, TypeOK
  <1> QED
    BY <1>1, <1>2, <1>3 DEF NeverStale, LoneWriter

LEMMA PlanSafe ==
  ASSUME TypeOK, NeverStale, LoneWriter, NEW p \in Procs, Plan(p)
  PROVE  NeverStale'
  <1> USE DEF Plan, memory, cache
  <1> DEFINE j == job'[p]
  <1>1. StoreInv' /\ \A f \in Files : disk'[f].ver > 0
    BY DEF NeverStale, StoreInv, Genuine, NotOlder, Outcome
  <1>2. MemoryInv(p)'
    BY DEF NeverStale, MemoryInv, Genuine, AtLeast, NotOlder, Outcome, TypeOK
  <1>3. /\ j.toParse = Moved(p)
        /\ j.unsaved = {}
        /\ j.save = (Moved(p) # {} \/ Gone(p) # {} \/ manifest = NoSigs)
        /\ j.reuse = IF loaded[p] THEN {} ELSE Unchanged(Baseline(p), current[p])
        /\ \A f \in Files : j.fresh[f] = IF loaded[p] /\ f \notin Moved(p) \cup Gone(p)
                                        THEN held[p][f] ELSE None
    BY DEF TypeOK, NoneHeld
  <1>4. \A f \in Files :
          /\ f \in Moved(p) => current[p][f] # NoSig
          /\ f \notin Moved(p) /\ current[p][f] # NoSig =>
                current[p][f] = Baseline(p)[f] /\ f \in Unchanged(Baseline(p), current[p])
          /\ f \in Gone(p) => current[p][f] = NoSig
          /\ f \in Unchanged(Baseline(p), current[p]) => current[p][f] # NoSig
          /\ f \notin Moved(p) \cup Gone(p) => current[p][f] = Baseline(p)[f]
    BY DEF Moved, Gone, Stale, Added, Removed, Unchanged
  <1>5. LoadInv(p)'
    <2> SUFFICES ASSUME pc'[p] = "load"
                 PROVE  LoadInv(p)'
      BY DEF LoadInv
    <2>1. ~loaded[p] /\ ~loaded'[p]
      BY DEF TypeOK
    <2>2. \A f \in Files : f \notin Moved(p) => NotOlder(data[f], current[p][f])
      BY <1>4, <2>1 DEF NeverStale, StoreInv, NotOlder, Baseline
    <2> QED
      BY <1>3, <1>4, <2>1, <2>2 DEF LoadInv, NotOlder, AtLeast
  <1>6. ParseInv(p)'
    <2> SUFFICES ASSUME pc'[p] = "parse"
                 PROVE  /\ j.toParse \cup j.unsaved # {} => j.save
                        /\ \A f \in Files :
                             /\ f \in j.toParse => current[p][f] # NoSig
                             /\ f \notin j.toParse => AtLeast(f, j.fresh[f], current[p][f])
                             /\ Sharded /\ f \notin j.toParse \cup j.unsaved =>
                                  NotOlder(data[f], current[p][f])
      BY DEF ParseInv, NotOlder, AtLeast, Genuine, Outcome
    <2>1. loaded[p]
      BY DEF TypeOK
    <2>2. \A f \in Files : f \notin Moved(p) =>
             /\ AtLeast(f, j.fresh[f], current[p][f])
             /\ Sharded => NotOlder(data[f], current[p][f])
      BY <1>3, <1>4, <2>1 DEF NeverStale, MemoryInv, NotOlder, AtLeast, Baseline
    <2> QED
      BY <1>3, <1>4, <2>2
  <1>7. WriteInv(p)'
    BY DEF WriteInv, TypeOK
  <1> QED
    BY <1>1, <1>2, <1>5, <1>6, <1>7 DEF NeverStale, LoneWriter

LEMMA LoadCachedSafe ==
  ASSUME TypeOK, NeverStale, LoneWriter,
         NEW p \in Procs, NEW S \in ReadUnits(p), LoadCached(p, S)
  PROVE  NeverStale'
  <1> USE DEF LoadCached, memory, cache
  <1> DEFINE j == job'[p]
             missing == {f \in S : data[f].kind = "none"}
  <1>1. StoreInv' /\ \A f \in Files : disk'[f].ver > 0
    BY DEF NeverStale, StoreInv, Genuine, NotOlder, Outcome
  <1>2. MemoryInv(p)'
    BY DEF NeverStale, MemoryInv, Genuine, AtLeast, NotOlder, Outcome, TypeOK
  <1>3. /\ j.reuse = job[p].reuse \ S
        /\ j.toParse = job[p].toParse \cup missing
        /\ j.unsaved = job[p].unsaved
        /\ j.save = (job[p].save \/ missing # {})
        /\ \A f \in Files : j.fresh[f] = IF f \in S THEN data[f] ELSE job[p].fresh[f]
    BY DEF TypeOK
  <1>4. S \subseteq job[p].reuse
    BY DEF ReadUnits
  <1>5. LoadInv(p)
    BY DEF NeverStale
  <1>6. \A f \in S \ missing : f \in Files /\ data[f].kind # "none" /\ Genuine(f, data[f])
    BY <1>4 DEF TypeOK, Job, NeverStale, StoreInv
  <1>7. \A f \in S \ (missing \cup job[p].toParse) : AtLeast(f, data[f], current[p][f])
    BY <1>4, <1>5, <1>6 DEF LoadInv, AtLeast, NotOlder, None
  <1>8. LoadInv(p)'
    <2> SUFFICES ASSUME pc'[p] = "load"
                 PROVE  /\ ~loaded[p]
                        /\ j.toParse # {} => j.save
                        /\ j.unsaved = {}
                        /\ \A f \in Files :
                             /\ f \in j.toParse \cup j.reuse => current[p][f] # NoSig
                             /\ f \notin j.toParse => NotOlder(data[f], current[p][f])
                             /\ f \notin j.toParse \cup j.reuse =>
                                  AtLeast(f, j.fresh[f], current[p][f])
      BY DEF LoadInv, NotOlder, AtLeast, Genuine, Outcome
    <2>1. ~loaded[p]
      BY <1>5 DEF LoadInv
    <2>2. \A f \in Files : f \notin j.toParse \cup j.reuse =>
             AtLeast(f, j.fresh[f], current[p][f])
      BY <1>3, <1>5, <1>7 DEF LoadInv
    <2>3. missing \subseteq job[p].reuse
      BY <1>4
    <2> QED
      BY <1>3, <1>5, <2>1, <2>2, <2>3 DEF LoadInv
  <1>9. ParseInv(p)'
    <2> SUFFICES ASSUME pc'[p] = "parse"
                 PROVE  /\ j.toParse \cup j.unsaved # {} => j.save
                        /\ \A f \in Files :
                             /\ f \in j.toParse => current[p][f] # NoSig
                             /\ f \notin j.toParse => AtLeast(f, j.fresh[f], current[p][f])
                             /\ Sharded /\ f \notin j.toParse \cup j.unsaved =>
                                  NotOlder(data[f], current[p][f])
      BY DEF ParseInv, NotOlder, AtLeast, Genuine, Outcome
    <2>1. S = job[p].reuse
      BY DEF TypeOK
    <2>2. \A f \in Files : f \notin j.toParse => AtLeast(f, j.fresh[f], current[p][f])
      BY <1>3, <1>5, <1>7, <2>1 DEF LoadInv
    <2> QED
      BY <1>3, <1>4, <1>5, <2>1, <2>2 DEF LoadInv
  <1>10. WriteInv(p)'
    BY DEF WriteInv, TypeOK
  <1> QED
    BY <1>1, <1>2, <1>8, <1>9, <1>10 DEF NeverStale, LoneWriter
LEMMA ParseSafe ==
  ASSUME TypeOK, NeverStale, LoneWriter, NEW p \in Procs, NEW g \in Files, Parse(p, g)
  PROVE  NeverStale'
  <1> USE DEF Parse, memory, cache
  <1> DEFINE j == job'[p]
  <1>1. StoreInv' /\ \A f \in Files : disk'[f].ver > 0
    BY DEF NeverStale, StoreInv, Genuine, NotOlder, Outcome
  <1>2. MemoryInv(p)'
    BY DEF NeverStale, MemoryInv, Genuine, AtLeast, NotOlder, Outcome, TypeOK
  <1>3. /\ j.toParse = job[p].toParse \ {g}
        /\ j.unsaved = job[p].unsaved \cup {g}
        /\ j.save = job[p].save
        /\ \A f \in Files : j.fresh[f] = IF f = g THEN Outcome(g) ELSE job[p].fresh[f]
    BY DEF TypeOK, Job, Views
  <1>4. ParseInv(p)
    BY DEF NeverStale
  <1>5. AtLeast(g, Outcome(g), current[p][g])
    <2>1. current[p][g] # NoSig
      BY <1>4 DEF ParseInv
    <2>2. current[p][g] <= disk[g].ver
      BY DEF NeverStale, MemoryInv
    <2> QED
      BY <2>1, <2>2 DEF AtLeast, Genuine, Outcome, TypeOK, DiskOK, DiskEntry
  <1>6. ParseInv(p)'
    <2> SUFFICES ASSUME pc'[p] = "parse"
                 PROVE  /\ j.toParse \cup j.unsaved # {} => j.save
                        /\ \A f \in Files :
                             /\ f \in j.toParse => current[p][f] # NoSig
                             /\ f \notin j.toParse => AtLeast(f, j.fresh[f], current[p][f])
                             /\ Sharded /\ f \notin j.toParse \cup j.unsaved =>
                                  NotOlder(data[f], current[p][f])
      BY DEF ParseInv, NotOlder, AtLeast, Genuine, Outcome
    <2> QED
      BY <1>3, <1>4, <1>5 DEF ParseInv
  <1>7. (LoadInv(p) /\ WriteInv(p))'
    BY DEF LoadInv, WriteInv
  <1> QED
    BY <1>1, <1>2, <1>6, <1>7 DEF NeverStale, LoneWriter

LEMMA InstallSafe ==
  ASSUME TypeOK, NeverStale, LoneWriter, NEW p \in Procs, Install(p)
  PROVE  NeverStale'
  <1> USE DEF Install, local, cache
  <1>1. /\ held' \in [Procs -> Views]
        /\ held'[p] = job[p].fresh
    BY DEF TypeOK, Job
  <1>2. \A f \in Files : AtLeast(f, held'[p][f], current[p][f])
    BY <1>1 DEF NeverStale, ParseInv
  <1>3. CASE ~job[p].save
    <2>1. \A f \in Files : Sharded => NotOlder(data[f], current[p][f])
      BY <1>3 DEF NeverStale, ParseInv
    <2>2. \A f \in Files : NotOlder(data[f], manifest'[f]) /\ manifest'[f] <= disk[f].ver
      BY DEF NeverStale, StoreInv, NotOlder
    <2> QED
      BY <1>1, <1>2, <1>3, <2>1, <2>2, FinishSafe
  <1>4. CASE job[p].save
    <2>1. StoreInv' /\ \A f \in Files : disk'[f].ver > 0
      BY DEF NeverStale, StoreInv, Genuine, NotOlder, Outcome
    <2>2. pc'[p] = "write" /\ UNCHANGED <<sigs, loaded, current, job>>
      BY <1>4 DEF TypeOK
    <2>3. MemoryInv(p)'
      <3> SUFFICES ASSUME NEW f \in Files
                   PROVE /\ Genuine(f, held'[p][f])
                         /\ sigs[p][f] <= disk[f].ver
                         /\ current[p][f] <= disk[f].ver
                         /\ current[p][f] # NoSig => manifest[f] <= current[p][f]
                         /\ loaded[p] /\ disk[f].there /\ sigs[p][f] = disk[f].ver =>
                              current[p][f] = sigs[p][f]
        BY <2>2 DEF MemoryInv, Genuine, Outcome
      <3>1. Genuine(f, held'[p][f])
        BY <1>2 DEF AtLeast, Genuine
      <3> QED
        BY <3>1 DEF NeverStale, MemoryInv
    <2>4. WriteInv(p)'
      <3> SUFFICES /\ \A f \in Files : AtLeast(f, held'[p][f], current[p][f])
                   /\ Sharded => \A f \in Files \ job[p].unsaved :
                                    NotOlder(data[f], current[p][f])
        BY <1>1, <2>2 DEF WriteInv, AtLeast, Genuine, Outcome, NotOlder
      <3> QED
        BY <1>2 DEF NeverStale, ParseInv
    <2>5. (LoadInv(p) /\ ParseInv(p))'
      BY <2>2 DEF LoadInv, ParseInv
    <2> QED
      BY <2>1, <2>3, <2>4, <2>5 DEF NeverStale, LoneWriter
  <1> QED
    BY <1>3, <1>4

LEMMA WriteDataSafe ==
  ASSUME TypeOK, NeverStale, LoneWriter, NEW p \in Procs, WriteData(p)
  PROVE  NeverStale'
  <1> USE DEF WriteData, memory, local
  <1>1. \A f \in Files : data'[f] = held[p][f] \/ data'[f] = None
    BY DEF Payload
  <1>2. \A f \in Files : /\ Genuine(f, held[p][f])
                         /\ AtLeast(f, held[p][f], current[p][f])
                         /\ current[p][f] # NoSig => manifest[f] <= current[p][f]
    BY DEF NeverStale, MemoryInv, WriteInv
  <1>3. \A f \in Files : /\ manifest[f] \in Nat
                         /\ current[p][f] \in Nat
                         /\ held[p][f].ver \in Nat
    BY DEF TypeOK, Sigs, Views, Held
  <1>4. \A f \in Files : /\ Genuine(f, data'[f])
                         /\ NotOlder(data'[f], manifest[f])
                         /\ NotOlder(data'[f], current[p][f])
    BY <1>1, <1>2, <1>3 DEF AtLeast, NotOlder, Genuine
  <1>5. StoreInv' /\ \A f \in Files : disk'[f].ver > 0
    BY <1>4 DEF NeverStale, StoreInv, Genuine, NotOlder, Outcome
  <1>6. MemoryInv(p)'
    BY DEF NeverStale, MemoryInv, Genuine, AtLeast, Outcome, TypeOK
  <1>7. WriteInv(p)'
    BY <1>2, <1>4 DEF WriteInv, AtLeast, Genuine, NotOlder, Outcome, TypeOK
  <1>8. (LoadInv(p) /\ ParseInv(p))'
    BY DEF LoadInv, ParseInv, TypeOK
  <1> QED
    BY <1>5, <1>6, <1>7, <1>8 DEF NeverStale, LoneWriter

LEMMA WriteShardSafe ==
  ASSUME TypeOK, NeverStale, LoneWriter, NEW p \in Procs, NEW g \in Files, WriteShard(p, g)
  PROVE  NeverStale'
  <1> USE DEF WriteShard, memory
  <1>1. /\ data'[g] = held[p][g]
        /\ \A f \in Files \ {g} : data'[f] = data[f]
    BY DEF NeverStale, WriteInv, TypeOK, Views
  <1>2. \A f \in Files : /\ Genuine(f, held[p][f])
                         /\ AtLeast(f, held[p][f], current[p][f])
                         /\ current[p][f] # NoSig => manifest[f] <= current[p][f]
    BY DEF NeverStale, MemoryInv, WriteInv
  <1>3. \A f \in Files : /\ manifest[f] \in Nat
                         /\ current[p][f] \in Nat
                         /\ held[p][f].ver \in Nat
    BY DEF TypeOK, Sigs, Views, Held
  <1>4. /\ Genuine(g, data'[g])
        /\ NotOlder(data'[g], manifest[g])
        /\ NotOlder(data'[g], current[p][g])
    BY <1>1, <1>2, <1>3 DEF AtLeast, NotOlder, Genuine
  <1>5. StoreInv' /\ \A f \in Files : disk'[f].ver > 0
    BY <1>1, <1>4 DEF NeverStale, StoreInv, Genuine, NotOlder, Outcome
  <1>6. MemoryInv(p)'
    BY DEF NeverStale, MemoryInv, Genuine, AtLeast, Outcome, TypeOK
  <1>7. /\ job'[p].unsaved = job[p].unsaved \ {g}
        /\ job'[p].fresh = job[p].fresh
    BY DEF TypeOK
  <1>8. WriteInv(p)'
    <2> SUFFICES /\ \A f \in Files : AtLeast(f, held[p][f], current[p][f])
                 /\ held[p] = job'[p].fresh
                 /\ \A f \in Files \ job'[p].unsaved : NotOlder(data'[f], current[p][f])
      BY DEF WriteInv, AtLeast, Genuine, NotOlder, Outcome
    <2> QED
      BY <1>1, <1>2, <1>4, <1>7 DEF NeverStale, WriteInv
  <1>9. (LoadInv(p) /\ ParseInv(p))'
    BY DEF LoadInv, ParseInv
  <1> QED
    BY <1>5, <1>6, <1>8, <1>9 DEF NeverStale, LoneWriter

LEMMA DropShardsSafe ==
  ASSUME TypeOK, NeverStale, LoneWriter, NEW p \in Procs, DropShards(p)
  PROVE  NeverStale'
  <1> USE DEF DropShards, memory, local
  <1>1. \A f \in Files : data'[f] = data[f] \/ data'[f] = None
    OBVIOUS
  <1>2. StoreInv' /\ \A f \in Files : disk'[f].ver > 0
    BY <1>1 DEF NeverStale, StoreInv, Genuine, NotOlder, Outcome
  <1>3. MemoryInv(p)'
    BY DEF NeverStale, MemoryInv, Genuine, AtLeast, Outcome, TypeOK
  <1>4. WriteInv(p)'
    <2> SUFFICES \A f \in Files : /\ AtLeast(f, held[p][f], current[p][f])
                                  /\ NotOlder(data'[f], current[p][f])
      BY DEF WriteInv, AtLeast, Genuine, NotOlder, Outcome, TypeOK
    <2> QED
      BY <1>1 DEF NeverStale, WriteInv, NotOlder
  <1>5. (LoadInv(p) /\ ParseInv(p))'
    BY DEF LoadInv, ParseInv, TypeOK
  <1> QED
    BY <1>2, <1>3, <1>4, <1>5 DEF NeverStale, LoneWriter

LEMMA WriteManifestSafe ==
  ASSUME TypeOK, NeverStale, LoneWriter, NEW p \in Procs, WriteManifest(p)
  PROVE  NeverStale'
  <1> USE DEF WriteManifest
  <1>1. \A f \in Files : /\ AtLeast(f, held[p][f], current[p][f])
                         /\ NotOlder(data[f], current[p][f])
                         /\ current[p][f] <= disk[f].ver
    BY DEF NeverStale, WriteInv, MemoryInv
  <1> QED
    BY <1>1, FinishSafe DEF TypeOK

LEMMA WriteFailsSafe ==
  ASSUME TypeOK, NeverStale, LoneWriter, NEW p \in Procs, WriteFails(p)
  PROVE  NeverStale'
  <1> USE DEF WriteFails, cache
  <1>1. ~Sharded
    BY DEF LoneWriter
  <1>2. \A f \in Files : /\ AtLeast(f, held[p][f], current[p][f])
                         /\ NotOlder(data[f], manifest[f])
                         /\ manifest[f] <= disk[f].ver
    BY DEF NeverStale, WriteInv, StoreInv
  <1> QED
    BY <1>1, <1>2, FinishSafe DEF TypeOK

LEMMA RestartSafe ==
  ASSUME TypeOK, NeverStale, LoneWriter, NEW p \in Procs, Restart(p)
  PROVE  NeverStale'
  <1> USE DEF Restart, Forget, cache
  <1>1. StoreInv' /\ \A f \in Files : disk'[f].ver > 0
    BY DEF NeverStale, StoreInv, Genuine, NotOlder, Outcome
  <1>2. MemoryInv(p)'
    <2>1. \A f \in Files : /\ held'[p][f] = None
                           /\ sigs'[p][f] = 0
                           /\ current'[p][f] = 0
      BY DEF NoneHeld, NoSigs, TypeOK
    <2>2. ~loaded'[p]
      BY DEF TypeOK
    <2> QED
      BY <2>1, <2>2 DEF MemoryInv, Genuine, NeverStale, TypeOK, DiskOK, DiskEntry
  <1>3. (LoadInv(p) /\ ParseInv(p) /\ WriteInv(p))'
    BY DEF LoadInv, ParseInv, WriteInv, TypeOK
  <1> QED
    BY <1>1, <1>2, <1>3 DEF NeverStale, LoneWriter

LEMMA DamageSafe ==
  ASSUME TypeOK, NeverStale, LoneWriter, Damage
  PROVE  NeverStale'
  <1> USE DEF Damage, memory, local
  <1>1. \A f \in Files : /\ manifest'[f] = manifest[f] \/ manifest'[f] = NoSig
                         /\ data'[f] = data[f] \/ data'[f] = None
                         /\ manifest[f] \in Nat /\ disk[f].ver \in Nat
    BY DEF NoSigs, TypeOK, Sigs, DiskOK, DiskEntry
  <1>2. StoreInv' /\ \A f \in Files : disk'[f].ver > 0
    BY <1>1 DEF NeverStale, StoreInv, Genuine, NotOlder, Outcome
  <1>3. ASSUME NEW p \in Procs
        PROVE  (MemoryInv(p) /\ LoadInv(p) /\ ParseInv(p) /\ WriteInv(p))'
    <2>1. MemoryInv(p)'
      <3> SUFFICES ASSUME NEW f \in Files
                   PROVE /\ current[p][f] # NoSig => manifest'[f] <= current[p][f]
                         /\ loaded[p] /\ pc[p] \notin {"write", "manifest"} =>
                              (Sharded => NotOlder(data'[f], sigs[p][f]))
        BY DEF NeverStale, MemoryInv, NotOlder, AtLeast, Genuine, Outcome
      <3>1. current[p][f] \in Nat
        BY DEF TypeOK, Sigs
      <3> QED
        BY <1>1, <3>1 DEF NeverStale, MemoryInv, NotOlder
    <2>2. LoadInv(p)'
      BY <1>1 DEF NeverStale, LoadInv, NotOlder, AtLeast, Genuine, Outcome
    <2>3. ParseInv(p)'
      BY <1>1 DEF NeverStale, ParseInv, NotOlder, AtLeast, Genuine, Outcome
    <2>4. WriteInv(p)'
      BY <1>1 DEF NeverStale, WriteInv, NotOlder, AtLeast, Genuine, Outcome
    <2> QED
      BY <2>1, <2>2, <2>3, <2>4
  <1> QED
    BY <1>2, <1>3 DEF NeverStale

(* A new version of a file is above everything recorded of the old one.    *)
LEMMA SourceChangeSafe ==
  ASSUME TypeOK, NeverStale, SourceChange
  PROVE  NeverStale'
  <1> USE DEF SourceChange, memory, local, cache
  <1>1. PICK g \in Files, there \in BOOLEAN, good \in BOOLEAN : Change(g, there, good)
    BY DEF Write, Delete, TypeOK, DiskOK, DiskEntry
  <1>2. /\ disk'[g].ver = disk[g].ver + 1
        /\ \A f \in Files \ {g} : disk'[f] = disk[f]
        /\ \A f \in Files : disk[f].ver \in Nat /\ disk[f].ver <= disk'[f].ver
    BY <1>1 DEF Change, TypeOK, DiskOK, DiskEntry
  <1>3. ASSUME NEW f \in Files, NEW h \in Held, Genuine(f, h)
        PROVE  \/ h = None
               \/ /\ h.kind # "none"
                  /\ h.ver <= disk'[f].ver
                  /\ h.ver = disk'[f].ver =>
                       h = [kind |-> IF disk'[f].there /\ disk'[f].good
                                     THEN "records" ELSE "failed",
                            ver |-> disk'[f].ver]
    BY <1>2, <1>3 DEF Genuine, Outcome, Held
  <1>4. StoreInv' /\ \A f \in Files : disk'[f].ver > 0
    <2>1. \A f \in Files : Genuine(f, data[f]) /\ data[f] \in Held /\ manifest[f] \in Nat
      BY DEF NeverStale, StoreInv, TypeOK, Views, Sigs
    <2>2. \A f \in Files : Genuine(f, data[f])'
      BY <1>3, <2>1 DEF Genuine, Outcome
    <2> QED
      BY <1>2, <2>1, <2>2 DEF NeverStale, StoreInv, NotOlder
  <1>5. ASSUME NEW p \in Procs
        PROVE  (MemoryInv(p) /\ LoadInv(p) /\ ParseInv(p) /\ WriteInv(p))'
    <2>1. \A f \in Files : /\ held[p][f] \in Held /\ job[p].fresh[f] \in Held
                           /\ sigs[p][f] \in Nat /\ current[p][f] \in Nat
      BY DEF TypeOK, Views, Job, Sigs
    <2>2. \A f \in Files : AtLeast(f, job[p].fresh[f], current[p][f]) =>
                           AtLeast(f, job[p].fresh[f], current[p][f])'
      BY <1>3, <2>1 DEF AtLeast, Genuine, Outcome
    <2>3. \A f \in Files : /\ AtLeast(f, held[p][f], current[p][f]) =>
                                AtLeast(f, held[p][f], current[p][f])'
                           /\ AtLeast(f, held[p][f], sigs[p][f]) =>
                                AtLeast(f, held[p][f], sigs[p][f])'
                           /\ Genuine(f, held[p][f]) => Genuine(f, held[p][f])'
      BY <1>3, <2>1 DEF AtLeast, Genuine, Outcome
    <2>4. MemoryInv(p)'
      <3> SUFFICES ASSUME NEW f \in Files
                   PROVE /\ sigs[p][f] <= disk'[f].ver
                         /\ current[p][f] <= disk'[f].ver
                         /\ loaded[p] /\ pc[p] # "idle" /\ disk'[f].there
                               /\ sigs[p][f] = disk'[f].ver => current[p][f] = sigs[p][f]
        BY <2>3 DEF NeverStale, MemoryInv, NotOlder
      <3>1. sigs[p][f] <= disk[f].ver /\ current[p][f] <= disk[f].ver
        BY DEF NeverStale, MemoryInv
      <3>2. CASE f = g
        BY <1>2, <2>1, <3>1, <3>2
      <3>3. CASE f # g
        BY <1>2, <3>1, <3>3 DEF NeverStale, MemoryInv
      <3> QED
        BY <3>2, <3>3
    <2>5. LoadInv(p)'
      BY <2>2 DEF NeverStale, LoadInv, NotOlder
    <2>6. ParseInv(p)'
      BY <2>2 DEF NeverStale, ParseInv, NotOlder
    <2>7. WriteInv(p)'
      BY <2>3 DEF NeverStale, WriteInv, NotOlder
    <2> QED
      BY <2>4, <2>5, <2>6, <2>7
  <1> QED
    BY <1>4, <1>5 DEF NeverStale

LEMMA InitSafe == Init => NeverStale
  <1> SUFFICES ASSUME Init PROVE NeverStale
    OBVIOUS
  <1>1. \A f \in Files : disk[f].ver = 1 /\ data[f] = None /\ manifest[f] = 0
    <2>1. PICK start \in SUBSET Files :
             disk = [f \in Files |-> [ver |-> 1, there |-> f \in start, good |-> TRUE]]
      BY DEF Init, DiskInit
    <2> QED
      BY <2>1 DEF Init, NoneHeld, NoSigs
  <1>2. StoreInv
    <2>1. \A f \in Files : Genuine(f, data[f]) /\ NotOlder(data[f], manifest[f])
      BY <1>1 DEF Genuine, NotOlder
    <2>2. ASSUME NEW f \in Files PROVE manifest[f] <= disk[f].ver
      <3>1. manifest[f] = 0 /\ disk[f].ver = 1
        BY <1>1
      <3>2. 0 <= 1
        OBVIOUS
      <3> QED
        BY <3>1, <3>2, Zenon
    <2> QED
      BY <2>1, <2>2 DEF StoreInv
  <1>3. ASSUME NEW p \in Procs
        PROVE  MemoryInv(p) /\ LoadInv(p) /\ ParseInv(p) /\ WriteInv(p)
    <2>1. /\ pc[p] = "idle" /\ ~loaded[p]
          /\ \A f \in Files : held[p][f] = None /\ sigs[p][f] = 0 /\ current[p][f] = 0
      BY DEF Init, NoneHeld, NoSigs
    <2> QED
      BY <1>1, <2>1 DEF MemoryInv, LoadInv, ParseInv, WriteInv, Genuine
  <1> QED
    BY <1>1, <1>2, <1>3 DEF NeverStale

LEMMA NextSafe == TypeOK /\ NeverStale /\ LoneWriter /\ [Next]_vars => NeverStale'
  <1> SUFFICES ASSUME TypeOK, NeverStale, LoneWriter, [Next]_vars
               PROVE  NeverStale'
    OBVIOUS
  <1>1. CASE SourceChange
    BY <1>1, SourceChangeSafe
  <1>2. CASE Damage
    BY <1>2, DamageSafe
  <1>3. ASSUME NEW p \in Procs, Refresh(p)
        PROVE  NeverStale'
    BY <1>3, StatSafe, FastPathSafe, PlanSafe, LoadCachedSafe, ParseSafe, InstallSafe,
       WriteDataSafe, WriteShardSafe, DropShardsSafe, WriteManifestSafe, WriteFailsSafe
       DEF Refresh
  <1>4. ASSUME NEW p \in Procs, Restart(p)
        PROVE  NeverStale'
    BY <1>4, RestartSafe
  <1>5. CASE UNCHANGED vars
    BY <1>5 DEF vars, NeverStale, StoreInv, MemoryInv, LoadInv, ParseInv, WriteInv,
                AtLeast, Genuine, NotOlder, Outcome
  <1> QED
    BY <1>1, <1>2, <1>3, <1>4, <1>5 DEF Next

(* A lone writer's cache and memory never hold anything older than the     *)
(* signature that would let a refresh skip the file (base.py, _persist and *)
(* plan_rebuild).                                                          *)
THEOREM LoneWriterNeverStale ==
  ASSUME LoneWriter
  PROVE  Spec => []NeverStale
  <1>1. Init => NeverStale
    BY InitSafe
  <1>2. TypeOK /\ NeverStale /\ [Next]_vars => NeverStale'
    BY NextSafe
  <1> QED
    BY <1>1, <1>2, TypeCorrect, PTL DEF Spec

(* Wherever a crash falls, cached data is at least as new as the manifest  *)
(* says (_persist: data first, manifest last).                             *)
THEOREM LoneWriterManifestNeverAhead ==
  ASSUME LoneWriter
  PROVE  Spec => []ManifestNeverAhead
  <1>1. TypeOK /\ NeverStale => ManifestNeverAhead
    BY DEF NeverStale, StoreInv, NotOlder, ManifestNeverAhead, TypeOK, Sigs, Views, Held
  <1> QED
    BY <1>1, TypeCorrect, LoneWriterNeverStale, PTL

(* The next start of a lone writer may trust every cached entry whose      *)
(* signature still matches: it is what a parse would give.                 *)
THEOREM LoneWriterTrustedData ==
  ASSUME LoneWriter
  PROVE  Spec => []TrustedDataIsCurrent
  <1>1. TypeOK /\ NeverStale => TrustedDataIsCurrent
    <2> SUFFICES ASSUME TypeOK, NeverStale, NEW f \in Files,
                        disk[f].there, manifest[f] = disk[f].ver, data[f] # None
                 PROVE  data[f] = Outcome(f)
      BY DEF TrustedDataIsCurrent
    <2>1. disk[f].ver > 0 /\ Genuine(f, data[f]) /\ NotOlder(data[f], manifest[f])
      BY DEF NeverStale, StoreInv
    <2>2. disk[f].ver \in Nat /\ data[f].ver \in Nat
      BY DEF TypeOK, DiskOK, DiskEntry, Views, Held
    <2>3. data[f].ver = disk[f].ver
      BY <2>1, <2>2 DEF NotOlder, Genuine
    <2> QED
      BY <2>1, <2>3 DEF Genuine
  <1> QED
    BY <1>1, TypeCorrect, LoneWriterNeverStale, PTL

(* A warm lone process that skips a file because its signature matches     *)
(* (plan_rebuild, fast path) serves the file's present content.            *)
THEOREM LoneWriterServesCurrent ==
  ASSUME LoneWriter
  PROVE  Spec => []ServedMatchesSignature
  <1>1. TypeOK /\ NeverStale => ServedMatchesSignature
    <2> SUFFICES ASSUME TypeOK, NeverStale, NEW p \in Procs, NEW f \in Files,
                        loaded[p], disk[f].there, sigs[p][f] = disk[f].ver
                 PROVE  held[p][f] = Outcome(f)
      BY DEF ServedMatchesSignature
    <2>1. disk[f].ver > 0 /\ disk[f].ver \in Nat /\ held[p][f].ver \in Nat
      BY DEF NeverStale, TypeOK, DiskOK, DiskEntry, Views, Held
    <2>2. AtLeast(f, held[p][f], sigs[p][f])
      <3>1. CASE pc[p] \in {"write", "manifest"}
        BY <3>1 DEF NeverStale, MemoryInv, WriteInv
      <3>2. CASE pc[p] \notin {"write", "manifest"}
        BY <3>2 DEF NeverStale, MemoryInv
      <3> QED
        BY <3>1, <3>2
    <2>3. held[p][f].kind # "none" /\ disk[f].ver <= held[p][f].ver /\ Genuine(f, held[p][f])
      BY <2>1, <2>2 DEF AtLeast
    <2> QED
      BY <2>1, <2>3 DEF Genuine, None
  <1> QED
    BY <1>1, TypeCorrect, LoneWriterNeverStale, PTL

(***************************************************************************)
(* MapsCoverSignatures needs no lone writer.  What a process holds covers  *)
(* its signatures, and the maps it builds cover the files its refresh      *)
(* collected but for those still to be read or parsed; nothing of this     *)
(* depends on the shared cache being right.                                *)
(***************************************************************************)
CoveredBut(S, view, s) ==
    \A f \in Files : /\ f \in S => s[f] # NoSig
                     /\ f \notin S => (view[f] # None <=> s[f] # NoSig)

CoverInv(p) ==
    /\ loaded[p] /\ pc[p] \notin {"write", "manifest"} => CoveredBut({}, held[p], sigs[p])
    /\ pc[p] \in {"write", "manifest"} => CoveredBut({}, held[p], current[p])
    /\ pc[p] = "load" => ~loaded[p]
    /\ pc[p] \in {"load", "parse"} =>
         CoveredBut(job[p].toParse \cup IF pc[p] = "load" THEN job[p].reuse ELSE {},
                    job[p].fresh, current[p])

(* A step that is not of p's leaves p's part alone.                        *)
LEMMA CoverElsewhere ==
  ASSUME NEW p \in Procs, CoverInv(p),
         pc'[p] = pc[p], loaded'[p] = loaded[p], sigs'[p] = sigs[p], held'[p] = held[p],
         current'[p] = current[p], job'[p] = job[p]
  PROVE  CoverInv(p)'
  BY DEF CoverInv, CoveredBut

LEMMA CoverRefresh ==
  ASSUME TypeOK, NEW p \in Procs, CoverInv(p), Refresh(p)
  PROVE  CoverInv(p)'
  <1> USE DEF TypeOK, cache, memory, local, Finish, Forget
  <1>1. CASE Stat(p)
    BY <1>1 DEF Stat, CoverInv, CoveredBut
  <1>2. CASE FastPath(p)
    BY <1>2 DEF FastPath, CoverInv, CoveredBut
  <1>3. CASE Plan(p)
    <2>1. /\ pc[p] = "diff" /\ pc'[p] = IF loaded[p] THEN "parse" ELSE "load"
          /\ UNCHANGED <<held, sigs, loaded, current>>
          /\ job'[p].toParse = Moved(p)
          /\ job'[p].reuse = IF loaded[p] THEN {} ELSE Unchanged(Baseline(p), current[p])
          /\ \A f \in Files :
               job'[p].fresh[f] = IF loaded[p] /\ f \notin Moved(p) \cup Gone(p)
                                  THEN held[p][f] ELSE None
      BY <1>3 DEF Plan, NoneHeld
    <2>2. \A f \in Files :
            /\ f \in Moved(p) => current[p][f] # NoSig
            /\ f \in Gone(p) => current[p][f] = NoSig
            /\ f \in Unchanged(Baseline(p), current[p]) => current[p][f] # NoSig
            /\ f \notin Moved(p) \cup Gone(p) => current[p][f] = Baseline(p)[f]
            /\ f \notin Moved(p) /\ current[p][f] # NoSig =>
                  f \in Unchanged(Baseline(p), current[p])
      BY DEF Moved, Gone, Stale, Added, Removed, Unchanged
    <2>3. CASE loaded[p]
      <3>1. \A f \in Files : held[p][f] # None <=> Baseline(p)[f] # NoSig
        BY <2>1, <2>3 DEF CoverInv, CoveredBut, Baseline
      <3>2. CoveredBut(job'[p].toParse, job'[p].fresh, current[p])
        BY <2>1, <2>2, <2>3, <3>1 DEF CoveredBut
      <3> QED
        BY <2>1, <2>3, <3>2 DEF CoverInv, CoveredBut
    <2>4. CASE ~loaded[p]
      <3>1. CoveredBut(job'[p].toParse \cup job'[p].reuse, job'[p].fresh, current[p])
        BY <2>1, <2>2, <2>4 DEF CoveredBut
      <3> QED
        BY <2>1, <2>4, <3>1 DEF CoverInv, CoveredBut
    <2> QED
      BY <2>3, <2>4
  <1>4. ASSUME NEW S \in ReadUnits(p), LoadCached(p, S)
        PROVE  CoverInv(p)'
    <2> DEFINE missing == {f \in S : data[f].kind = "none"}
    <2>1. /\ pc[p] = "load" /\ pc'[p] = IF S = job[p].reuse THEN "parse" ELSE "load"
          /\ UNCHANGED <<held, sigs, loaded, current>>
          /\ job'[p].reuse = job[p].reuse \ S
          /\ job'[p].toParse = job[p].toParse \cup missing
          /\ \A f \in Files : job'[p].fresh[f] = IF f \in S THEN data[f] ELSE job[p].fresh[f]
      BY <1>4 DEF LoadCached
    <2>2. S \subseteq job[p].reuse
      BY DEF ReadUnits
    <2>3. \A f \in S \ missing : data[f] # None
      BY DEF None
    <2>4. CoveredBut(job[p].toParse \cup job[p].reuse, job[p].fresh, current[p])
      BY <2>1 DEF CoverInv
    <2>5. CoveredBut(job'[p].toParse \cup job'[p].reuse, job'[p].fresh, current[p])
      BY <2>1, <2>2, <2>3, <2>4 DEF CoveredBut
    <2>6. S = job[p].reuse => job'[p].reuse = {}
      BY <2>1
    <2>7. ~loaded[p]
      BY <2>1 DEF CoverInv
    <2> HIDE DEF missing
    <2>8. CASE S = job[p].reuse
      BY <2>1, <2>5, <2>6, <2>7, <2>8 DEF CoverInv, CoveredBut
    <2>9. CASE S # job[p].reuse
      BY <2>1, <2>5, <2>7, <2>9 DEF CoverInv, CoveredBut
    <2> QED
      BY <2>8, <2>9
  <1>5. ASSUME NEW g \in Files, Parse(p, g)
        PROVE  CoverInv(p)'
    <2>1. /\ pc[p] = "parse" /\ g \in job[p].toParse
          /\ UNCHANGED <<pc, held, sigs, loaded, current>>
          /\ job'[p].toParse = job[p].toParse \ {g}
          /\ \A f \in Files : job'[p].fresh[f] = IF f = g THEN Outcome(g) ELSE job[p].fresh[f]
      BY <1>5 DEF Parse, Job, Views
    <2>2. Outcome(g) # None
      BY DEF Outcome, None
    <2>3. CoveredBut(job[p].toParse, job[p].fresh, current[p])
      BY <2>1 DEF CoverInv, CoveredBut
    <2>4. CoveredBut(job'[p].toParse, job'[p].fresh, current[p])
      BY <2>1, <2>2, <2>3 DEF CoveredBut
    <2> QED
      BY <2>1, <2>4 DEF CoverInv, CoveredBut
  <1>6. CASE Install(p)
    <2>1. /\ pc[p] = "parse" /\ job[p].toParse = {} /\ held'[p] = job[p].fresh
          /\ \/ pc'[p] = "write" /\ current'[p] = current[p]
             \/ pc'[p] = "idle" /\ sigs'[p] = current[p]
      BY <1>6 DEF Install
    <2>2. CoveredBut({}, held'[p], current[p])
      BY <2>1 DEF CoverInv, CoveredBut
    <2> QED
      BY <2>1, <2>2 DEF CoverInv, CoveredBut
  <1>7. CASE WriteData(p) \/ DropShards(p) \/ \E f \in Files : WriteShard(p, f)
    <2>1. /\ pc[p] = "write" /\ pc'[p] \in {"write", "manifest"}
          /\ UNCHANGED <<held, current, sigs, loaded>>
      BY <1>7 DEF WriteData, DropShards, WriteShard
    <2> QED
      BY <2>1 DEF CoverInv, CoveredBut
  <1>8. CASE WriteManifest(p) \/ WriteFails(p)
    <2>1. /\ pc[p] \in {"write", "manifest"} /\ pc'[p] = "idle"
          /\ held' = held /\ sigs'[p] = current[p]
      BY <1>8 DEF WriteManifest, WriteFails
    <2> QED
      BY <2>1 DEF CoverInv, CoveredBut
  <1> QED
    BY <1>1, <1>2, <1>3, <1>4, <1>5, <1>6, <1>7, <1>8 DEF Refresh

(* Between refreshes a process's maps cover exactly the files of its last  *)
(* refresh, however many processes rewrite the cache meanwhile             *)
(* (plan_rebuild takes memory, not the manifest, as its baseline).         *)
THEOREM EveryProcessMapsCover == Spec => []MapsCoverSignatures
  <1> DEFINE Cover == \A p \in Procs : CoverInv(p)
  <1>1. Init => Cover
    BY DEF Init, CoverInv
  <1>2. TypeOK /\ Cover /\ [Next]_vars => Cover'
    <2> SUFFICES ASSUME TypeOK, Cover, [Next]_vars, NEW p \in Procs
                 PROVE  CoverInv(p)'
      OBVIOUS
    <2>1. CoverInv(p)
      OBVIOUS
    <2> HIDE DEF Cover
    <2>2. CASE SourceChange \/ Damage \/ UNCHANGED vars
      BY <2>1, <2>2, CoverElsewhere DEF SourceChange, Damage, vars, cache, memory, local
    <2>3. ASSUME NEW q \in Procs, q # p, Refresh(q) \/ Restart(q)
          PROVE  CoverInv(p)'
      <3>1. /\ pc'[p] = pc[p] /\ loaded'[p] = loaded[p] /\ sigs'[p] = sigs[p]
            /\ held'[p] = held[p] /\ current'[p] = current[p] /\ job'[p] = job[p]
        BY <2>3 DEF TypeOK, Refresh, Stat, FastPath, Plan, LoadCached, Parse, Install, WriteData,
                    WriteShard, DropShards, WriteManifest, WriteFails, Restart, Finish, Forget,
                    cache, memory, local
      <3> QED
        BY <2>1, <3>1, CoverElsewhere
    <2>4. CASE Refresh(p)
      BY <2>1, <2>4, CoverRefresh
    <2>5. CASE Restart(p)
      BY <2>5 DEF Restart, Forget, CoverInv, TypeOK
    <2> QED
      BY <2>2, <2>3, <2>4, <2>5 DEF Next
  <1>3. Cover => MapsCoverSignatures
    BY DEF MapsCoverSignatures, CoverInv, CoveredBut
  <1> QED
    BY <1>1, <1>2, <1>3, TypeCorrect, PTL DEF Spec

(***************************************************************************)
(* NeverBackwards, also for any number of processes.  No outcome anywhere  *)
(* is newer than its file, and a warm process's new maps keep or replace   *)
(* what it holds by what is on disk at the time.                           *)
(***************************************************************************)
NoNewer(view) == \A f \in Files : view[f].ver <= disk[f].ver

VersionInv ==
    /\ NoNewer(data)
    /\ \A p \in Procs :
         /\ NoNewer(held[p]) /\ NoNewer(job[p].fresh)
         /\ pc[p] = "load" => ~loaded[p]
         /\ pc[p] = "parse" /\ loaded[p] =>
              \A f \in Files :
                 job[p].fresh[f] = None \/ job[p].fresh[f].ver >= held[p][f].ver

LEMMA VersionsTyped ==
  ASSUME TypeOK
  PROVE  /\ \A f \in Files : disk[f].ver \in Nat /\ data[f].ver \in Nat
         /\ \A p \in Procs, f \in Files :
              held[p][f].ver \in Nat /\ job[p].fresh[f].ver \in Nat
  BY DEF TypeOK, DiskOK, DiskEntry, Views, Held, Job

LEMMA VersionRefresh ==
  ASSUME TypeOK, VersionInv, NEW p \in Procs, Refresh(p)
  PROVE  VersionInv'
  <1>t. /\ \A f \in Files : disk[f].ver \in Nat /\ data[f].ver \in Nat
        /\ \A q \in Procs, f \in Files : held[q][f].ver \in Nat /\ job[q].fresh[f].ver \in Nat
    BY VersionsTyped
  <1>a. NoNewer(NoneHeld)
    <2> SUFFICES ASSUME NEW f \in Files PROVE NoneHeld[f].ver <= disk[f].ver
      BY DEF NoNewer
    <2>1. NoneHeld[f].ver = 0
      BY DEF NoneHeld, None
    <2>2. disk[f].ver \in Nat
      BY <1>t
    <2> QED
      BY <2>1, <2>2
  <1> USE <1>t DEF TypeOK, cache, memory, local, Finish, Forget
  <1>0. disk' = disk
    BY DEF Refresh, Stat, FastPath, Plan, LoadCached, Parse, Install, WriteData, WriteShard,
           DropShards, WriteManifest, WriteFails
  <1>b. NoNewer(data) /\ NoNewer(held[p]) /\ NoNewer(job[p].fresh)
    BY DEF VersionInv
  <1>1. CASE Stat(p)
    BY <1>1 DEF Stat, VersionInv, NoNewer
  <1>2. CASE FastPath(p)
    BY <1>2, <1>a DEF FastPath, VersionInv, NoNewer, NoJob
  <1>3. CASE Plan(p)
    <2>1. /\ pc'[p] = IF loaded[p] THEN "parse" ELSE "load"
          /\ UNCHANGED <<data, held, loaded>>
          /\ \A q \in Procs : q # p => pc'[q] = pc[q] /\ job'[q] = job[q]
          /\ \A f \in Files : job'[p].fresh[f] = None \/ job'[p].fresh[f] = held[p][f]
      BY <1>3 DEF Plan, NoneHeld
    <2>2. \A f \in Files :
            /\ job'[p].fresh[f].ver <= disk[f].ver
            /\ job'[p].fresh[f] = None \/ job'[p].fresh[f].ver >= held[p][f].ver
      BY <2>1, <1>b DEF NoNewer, None
    <2>3. NoNewer(data)' /\ \A q \in Procs : NoNewer(held[q])'
      BY <1>0, <2>1 DEF VersionInv, NoNewer
    <2>4. ASSUME NEW q \in Procs
          PROVE  /\ NoNewer(job[q].fresh)'
                 /\ (pc[q] = "load" => ~loaded[q])'
                 /\ (pc[q] = "parse" /\ loaded[q] =>
                      \A f \in Files :
                        job[q].fresh[f] = None \/ job[q].fresh[f].ver >= held[q][f].ver)'
      <3>1. CASE q = p
        <4>1. NoNewer(job[p].fresh)'
          BY <1>0, <2>2 DEF NoNewer
        <4>2. (pc[p] = "load" => ~loaded[p])'
          BY <2>1
        <4>3. \A f \in Files :
                job'[p].fresh[f] = None \/ job'[p].fresh[f].ver >= held'[p][f].ver
          BY <2>1, <2>2
        <4> QED
          BY <3>1, <4>1, <4>2, <4>3
      <3>2. CASE q # p
        BY <1>0, <2>1, <3>2 DEF VersionInv, NoNewer
      <3> QED
        BY <3>1, <3>2
    <2> QED
      BY <2>3, <2>4 DEF VersionInv
  <1>4. ASSUME NEW S \in ReadUnits(p), LoadCached(p, S)
        PROVE  VersionInv'
    <2>1. /\ ~loaded[p] /\ pc' \in [Procs -> {"idle", "diff", "load", "parse", "write", "manifest"}]
          /\ \A q \in Procs : q # p => pc'[q] = pc[q] /\ job'[q] = job[q]
          /\ UNCHANGED <<data, held, loaded>>
          /\ \A f \in Files : job'[p].fresh[f] \in {data[f], job[p].fresh[f]}
      BY <1>4 DEF LoadCached, VersionInv
    <2>2. \A f \in Files : job'[p].fresh[f].ver <= disk[f].ver
      BY <2>1, <1>b DEF NoNewer
    <2> QED
      BY <1>0, <2>1, <2>2 DEF VersionInv, NoNewer
  <1>5. ASSUME NEW g \in Files, Parse(p, g)
        PROVE  VersionInv'
    <2>1. /\ UNCHANGED <<pc, data, held, loaded>>
          /\ \A q \in Procs : q # p => job'[q] = job[q]
          /\ \A f \in Files : job'[p].fresh[f] = IF f = g THEN Outcome(g) ELSE job[p].fresh[f]
      BY <1>5 DEF Parse, Job, Views
    <2>2. Outcome(g).ver = disk[g].ver
      BY DEF Outcome
    <2>3. \A f \in Files :
            /\ job'[p].fresh[f].ver <= disk[f].ver
            /\ job'[p].fresh[f] = job[p].fresh[f] \/ job'[p].fresh[f].ver >= held[p][f].ver
      BY <2>1, <2>2, <1>b DEF NoNewer
    <2> QED
      BY <1>0, <2>1, <2>3 DEF VersionInv, NoNewer
  <1>6. CASE Install(p)
    <2>1. /\ held' = [held EXCEPT ![p] = job[p].fresh] /\ data' = data
          /\ \A q \in Procs : q # p => pc'[q] = pc[q] /\ loaded'[q] = loaded[q]
          /\ pc'[p] \in {"write", "idle"}
          /\ job' = job \/ job' = [job EXCEPT ![p] = NoJob]
      BY <1>6 DEF Install
    <2>2. /\ NoNewer(held'[p]) /\ NoNewer(job'[p].fresh)
          /\ \A q \in Procs : q # p => held'[q] = held[q] /\ job'[q] = job[q]
      BY <2>1, <1>a, <1>b DEF NoJob
    <2> QED
      BY <1>0, <2>1, <2>2 DEF VersionInv, NoNewer
  <1>7. CASE WriteData(p) \/ DropShards(p) \/ \E f \in Files : WriteShard(p, f)
    <2>1. /\ pc[p] = "write" /\ pc'[p] \in {"write", "manifest"}
          /\ \A q \in Procs : q # p => pc'[q] = pc[q]
          /\ UNCHANGED <<held, loaded>>
          /\ \A q \in Procs : job'[q].fresh = job[q].fresh
      BY <1>7 DEF WriteData, DropShards, WriteShard
    <2>2. ASSUME NEW f \in Files
          PROVE  data'[f] = None \/ data'[f] \in {data[f], held[p][f], job[p].fresh[f]}
      BY <1>7 DEF WriteData, Payload, DropShards, WriteShard, Views
    <2>3. NoNewer(data)'
      BY <1>0, <1>b, <2>2 DEF NoNewer, None
    <2> QED
      BY <1>0, <2>1, <2>3 DEF VersionInv, NoNewer
  <1>8. CASE WriteManifest(p) \/ WriteFails(p)
    <2>1. /\ pc'[p] = "idle" /\ UNCHANGED <<data, held>>
          /\ \A q \in Procs : q # p => pc'[q] = pc[q] /\ loaded'[q] = loaded[q]
          /\ job' = [job EXCEPT ![p] = NoJob]
      BY <1>8 DEF WriteManifest, WriteFails
    <2>2. /\ NoNewer(job'[p].fresh)
          /\ \A q \in Procs : q # p => job'[q] = job[q]
      BY <2>1, <1>a DEF NoJob
    <2> QED
      BY <1>0, <2>1, <2>2 DEF VersionInv, NoNewer
  <1> QED
    BY <1>1, <1>2, <1>3, <1>4, <1>5, <1>6, <1>7, <1>8 DEF Refresh

LEMMA VersionStep ==
  ASSUME TypeOK, VersionInv, [Next]_vars
  PROVE  VersionInv'
  <1> USE DEF cache, memory, local
  <1>1. CASE SourceChange
    <2>1. \A f \in Files : disk[f].ver <= disk'[f].ver
      BY <1>1, VersionsTyped DEF SourceChange, Write, Delete, Change, TypeOK, DiskOK
    <2>2. \A f \in Files : disk'[f].ver \in Nat
      BY <1>1, VersionsTyped DEF SourceChange, Write, Delete, Change, TypeOK, DiskOK
    <2>3. UNCHANGED <<data, held, job, pc, loaded>>
      BY <1>1 DEF SourceChange
    <2> QED
      BY <2>1, <2>2, <2>3, VersionsTyped DEF VersionInv, NoNewer
  <1>2. CASE Damage
    <2>1. UNCHANGED <<disk, held, job, pc, loaded>>
      BY <1>2 DEF Damage
    <2>2. \A f \in Files : data'[f] = None \/ data'[f] = data[f]
      BY <1>2 DEF Damage
    <2> QED
      BY <2>1, <2>2, VersionsTyped DEF VersionInv, NoNewer, None
  <1>3. ASSUME NEW p \in Procs, Restart(p)
        PROVE  VersionInv'
    <2>1. /\ UNCHANGED <<disk, data>> /\ pc'[p] = "idle"
          /\ held'[p] = NoneHeld /\ job'[p].fresh = NoneHeld
          /\ \A q \in Procs : q # p => /\ held'[q] = held[q] /\ job'[q] = job[q]
                                       /\ pc'[q] = pc[q] /\ loaded'[q] = loaded[q]
      BY <1>3 DEF Restart, Forget, TypeOK, NoJob
    <2> QED
      BY <2>1, VersionsTyped DEF VersionInv, NoNewer, NoneHeld, None
  <1>4. CASE UNCHANGED vars
    BY <1>4 DEF vars, VersionInv, NoNewer
  <1> QED
    BY <1>1, <1>2, <1>3, <1>4, VersionRefresh DEF Next

(* A warm process never goes back to an older version of a file, whatever  *)
(* other processes, faults and editors do (_rebuild_incremental).          *)
THEOREM WarmProcessNeverBackwards == Spec => NeverBackwards
  <1> DEFINE Forward == \A p \in Procs, f \in Files :
               loaded[p] /\ loaded'[p] /\ held'[p][f] # None => held'[p][f].ver >= held[p][f].ver
  <1>1. Init => VersionInv
    <2> SUFFICES ASSUME Init PROVE VersionInv
      OBVIOUS
    <2>1. PICK start \in SUBSET Files :
            disk = [f \in Files |-> [ver |-> 1, there |-> f \in start, good |-> TRUE]]
      BY DEF Init, DiskInit
    <2>2. \A f \in Files : disk[f].ver = 1
      BY <2>1
    <2> QED
      BY <2>2 DEF Init, VersionInv, NoNewer, NoneHeld, None, NoJob
  <1>2. TypeOK /\ VersionInv /\ [Next]_vars => VersionInv'
    BY VersionStep
  <1>3. TypeOK /\ VersionInv /\ Next => Forward
    <2> SUFFICES ASSUME TypeOK, VersionInv, Next, NEW p \in Procs, NEW f \in Files,
                        loaded[p], loaded'[p], held'[p][f] # None
                 PROVE  held'[p][f].ver >= held[p][f].ver
      OBVIOUS
    <2>1. CASE held' = held
      BY <2>1, VersionsTyped
    <2>2. ASSUME NEW q \in Procs, Install(q)
          PROVE  held'[p][f].ver >= held[p][f].ver
      BY <2>2, VersionsTyped DEF Install, VersionInv, TypeOK
    <2>3. ASSUME NEW q \in Procs, Restart(q)
          PROVE  held'[p] = held[p]
      BY <2>3 DEF Restart, TypeOK
    <2> QED
      BY <2>1, <2>2, <2>3, VersionsTyped
      DEF Next, SourceChange, Damage, Refresh, Stat, FastPath, Plan, LoadCached, Parse, WriteData,
          WriteShard, DropShards, WriteManifest, WriteFails, cache, memory
  <1>4. TypeOK /\ VersionInv /\ [Next]_vars => [Forward]_vars
    BY <1>3
  <1> QED
    BY <1>1, <1>2, <1>4, TypeCorrect, PTL DEF Spec, NeverBackwards

(***************************************************************************)
(* A lone writer's cache is invisible: IndexStore implements FreshIndex.   *)
(***************************************************************************)
seenBar == [p \in Procs |-> IF pc[p] = "idle" THEN <<>> ELSE <<current[p]>>]

LEMMA SameView ==
  ASSUME NEW view, NEW s, \A f \in Files : AtLeast(f, view[f], s[f])
  PROVE  Cacheless!FreshView(view, s)
  BY DEF AtLeast, Genuine, Outcome, None, NoSig,
         Cacheless!FreshView, Cacheless!AtLeast, Cacheless!Genuine, Cacheless!Outcome,
         Cacheless!None, Cacheless!NoSig

LEMMA SameHeld == Views = [Files -> Cacheless!Held] /\ NoneHeld = Cacheless!NoneHeld
  BY DEF Views, Held, Cacheless!Held, NoneHeld, Cacheless!NoneHeld, None, Cacheless!None

(* A step that leaves the files, the maps and the refresh's start alone is *)
(* invisible.                                                              *)
LEMMA Stutter ==
  ASSUME NEW p \in Procs, UNCHANGED <<disk, held, current>>,
         pc[p] # "idle", pc'[p] # "idle", \A q \in Procs : q # p => pc'[q] = pc[q]
  PROVE  Cacheless!Next \/ UNCHANGED Cacheless!ivars
  <1>1. seenBar' = seenBar
    BY DEF seenBar
  <1> QED
    BY <1>1 DEF Cacheless!ivars, seenBar

LEMMA FinishMaps ==
  ASSUME TypeOK, NEW p \in Procs, Finish(p) \/ FastPath(p), disk' = disk, pc[p] # "idle",
         held' \in [Procs -> Views],
         held' = [held EXCEPT ![p] = held'[p]],
         \A f \in Files : AtLeast(f, held'[p][f], current[p][f])
  PROVE  Cacheless!Finish(p)
  <1>1. seenBar' = [seenBar EXCEPT ![p] = <<>>]
    BY DEF seenBar, Finish, FastPath, Forget, TypeOK
  <1>2. seenBar[p] = <<current[p]>>
    BY DEF seenBar
  <1>3. Cacheless!FreshView(held'[p], current[p])
    BY SameView
  <1> QED
    BY <1>1, <1>2, <1>3, SameHeld DEF Cacheless!Finish, seenBar

LEMMA StatBegins ==
  ASSUME TypeOK, NEW p \in Procs, Stat(p)
  PROVE  Cacheless!Begin(p)
  <1>1. /\ pc[p] = "idle" /\ pc'[p] = "diff" /\ current'[p] = Signatures
        /\ \A q \in Procs : q # p => pc'[q] = pc[q] /\ current'[q] = current[q]
    BY DEF Stat, TypeOK
  <1>2. seenBar[p] = <<>> /\ seenBar' = [seenBar EXCEPT ![p] = <<Signatures>>]
    BY <1>1 DEF seenBar
  <1>3. Signatures = Cacheless!Signatures
    BY DEF Signatures, NoSig, Cacheless!Signatures, Cacheless!NoSig
  <1> QED
    BY <1>2, <1>3 DEF Stat, memory, Cacheless!Begin, seenBar

LEMMA FastPathFinishes ==
  ASSUME TypeOK, NeverStale, NEW p \in Procs, FastPath(p)
  PROVE  Cacheless!Finish(p)
  <1>1. /\ pc[p] = "diff" /\ loaded[p] /\ held' = held /\ disk' = disk
        /\ Moved(p) = {} /\ Gone(p) = {}
    BY DEF FastPath, NothingMoved, memory
  <1>2. \A f \in Files : sigs[p][f] = current[p][f]
    BY <1>1 DEF Moved, Gone, Stale, Added, Removed, Baseline
  <1>3. \A f \in Files : AtLeast(f, held[p][f], current[p][f])
    BY <1>1, <1>2 DEF NeverStale, MemoryInv
  <1> QED
    BY <1>1, <1>3, FinishMaps DEF TypeOK

LEMMA InstallPublishes ==
  ASSUME TypeOK, NeverStale, NEW p \in Procs, Install(p)
  PROVE  Cacheless!Publish(p) \/ Cacheless!Finish(p)
  <1>1. /\ held' = [held EXCEPT ![p] = job[p].fresh]
        /\ held' \in [Procs -> Views]
        /\ held'[p] = job[p].fresh
        /\ disk' = disk /\ pc[p] = "parse"
    BY DEF Install, TypeOK, Job
  <1>2. \A f \in Files : AtLeast(f, held'[p][f], current[p][f])
    BY <1>1 DEF NeverStale, ParseInv, Install
  <1>3. CASE job[p].save
    <2>1. pc' = [pc EXCEPT ![p] = "write"] /\ current' = current
      BY <1>3 DEF Install, local
    <2>2. seenBar' = seenBar /\ seenBar[p] = <<current[p]>>
      BY <1>1, <2>1 DEF seenBar, TypeOK
    <2>3. Cacheless!FreshView(held'[p], current[p])
      BY <1>2, SameView
    <2> QED
      BY <1>1, <2>2, <2>3, SameHeld DEF Cacheless!Publish, seenBar
  <1>4. CASE ~job[p].save
    <2>1. Finish(p)
      BY <1>4 DEF Install
    <2> QED
      BY <1>1, <1>2, <2>1, FinishMaps
  <1> QED
    BY <1>3, <1>4

LEMMA WrittenFinishes ==
  ASSUME TypeOK, NeverStale, NEW p \in Procs, WriteManifest(p) \/ WriteFails(p)
  PROVE  Cacheless!Finish(p)
  <1>1. Finish(p) /\ held' = held /\ disk' = disk /\ pc[p] \in {"write", "manifest"}
    BY DEF WriteManifest, WriteFails
  <1>2. \A f \in Files : AtLeast(f, held[p][f], current[p][f])
    BY <1>1 DEF NeverStale, WriteInv
  <1> QED
    BY <1>1, <1>2, FinishMaps DEF TypeOK

LEMMA RefreshRefines ==
  ASSUME TypeOK, NeverStale, NEW p \in Procs, Refresh(p)
  PROVE  Cacheless!Next \/ UNCHANGED Cacheless!ivars
  <1>1. CASE Stat(p)
    BY <1>1, StatBegins DEF Cacheless!Next
  <1>2. CASE FastPath(p)
    BY <1>2, FastPathFinishes DEF Cacheless!Next
  <1>3. CASE Plan(p)
    <2>1. /\ pc[p] # "idle" /\ pc'[p] # "idle" /\ \A q \in Procs : q # p => pc'[q] = pc[q]
          /\ UNCHANGED <<disk, held, current>>
      BY <1>3 DEF Plan, memory, TypeOK
    <2> QED
      BY <2>1, Stutter
  <1>4. ASSUME NEW S \in ReadUnits(p), LoadCached(p, S)
        PROVE  Cacheless!Next \/ UNCHANGED Cacheless!ivars
    <2>1. /\ pc[p] # "idle" /\ pc'[p] # "idle" /\ \A q \in Procs : q # p => pc'[q] = pc[q]
          /\ UNCHANGED <<disk, held, current>>
      BY <1>4 DEF LoadCached, memory, TypeOK
    <2> QED
      BY <2>1, Stutter
  <1>5. ASSUME NEW f \in Files, Parse(p, f)
        PROVE  Cacheless!Next \/ UNCHANGED Cacheless!ivars
    <2>1. /\ pc[p] # "idle" /\ pc'[p] # "idle" /\ \A q \in Procs : q # p => pc'[q] = pc[q]
          /\ UNCHANGED <<disk, held, current>>
      BY <1>5 DEF Parse, memory, TypeOK
    <2> QED
      BY <2>1, Stutter
  <1>6. CASE Install(p)
    BY <1>6, InstallPublishes DEF Cacheless!Next
  <1>7. CASE WriteData(p)
    <2>1. /\ pc[p] # "idle" /\ pc'[p] # "idle" /\ \A q \in Procs : q # p => pc'[q] = pc[q]
          /\ UNCHANGED <<disk, held, current>>
      BY <1>7 DEF WriteData, memory, local, TypeOK
    <2> QED
      BY <2>1, Stutter
  <1>8. ASSUME NEW f \in Files, WriteShard(p, f)
        PROVE  Cacheless!Next \/ UNCHANGED Cacheless!ivars
    <2>1. /\ pc[p] # "idle" /\ pc'[p] # "idle" /\ \A q \in Procs : q # p => pc'[q] = pc[q]
          /\ UNCHANGED <<disk, held, current>>
      BY <1>8 DEF WriteShard, memory, TypeOK
    <2> QED
      BY <2>1, Stutter
  <1>9. CASE DropShards(p)
    <2>1. /\ pc[p] # "idle" /\ pc'[p] # "idle" /\ \A q \in Procs : q # p => pc'[q] = pc[q]
          /\ UNCHANGED <<disk, held, current>>
      BY <1>9 DEF DropShards, memory, local, TypeOK
    <2> QED
      BY <2>1, Stutter
  <1>10. CASE WriteManifest(p)
    BY <1>10, WrittenFinishes DEF Cacheless!Next
  <1>11. CASE WriteFails(p)
    BY <1>11, WrittenFinishes DEF Cacheless!Next
  <1> QED
    BY <1>1, <1>2, <1>3, <1>4, <1>5, <1>6, <1>7, <1>8, <1>9, <1>10, <1>11 DEF Refresh

LEMMA NextRefines ==
  ASSUME TypeOK, NeverStale, [Next]_vars
  PROVE  [Cacheless!Next]_(Cacheless!ivars)
  <1>1. CASE SourceChange
    <2>1. Cacheless!Environment
      BY <1>1 DEF SourceChange, memory, local, Write, Delete, Change,
                  Cacheless!Environment, Cacheless!Write, Cacheless!Delete, Cacheless!Change
    <2> QED
      BY <2>1 DEF Cacheless!Next
  <1>2. CASE Damage
    BY <1>2 DEF Damage, memory, local, Cacheless!ivars
  <1>3. ASSUME NEW p \in Procs, Refresh(p)
        PROVE  Cacheless!Next \/ UNCHANGED Cacheless!ivars
    BY <1>3, RefreshRefines
  <1>4. ASSUME NEW p \in Procs, Restart(p)
        PROVE  Cacheless!Restart(p)
    <2>1. seenBar' = [seenBar EXCEPT ![p] = <<>>]
      BY <1>4 DEF Restart, Forget, seenBar, TypeOK
    <2> QED
      BY <1>4, <2>1, SameHeld DEF Restart, cache, Cacheless!Restart, seenBar
  <1>5. CASE UNCHANGED vars
    BY <1>5 DEF vars, Cacheless!ivars
  <1> QED
    BY <1>1, <1>2, <1>3, <1>4, <1>5 DEF Next, Cacheless!Next

(* What a lone writer's index serves, refresh by refresh and across        *)
(* restarts, lost cache files and (one data file) failing writes, is what  *)
(* an index that parses everything every time may serve.                   *)
THEOREM LoneWriterCacheIsInvisible ==
  ASSUME LoneWriter
  PROVE  Spec => CacheIsInvisible
  <1>1. Init => Cacheless!Init
    BY SameHeld DEF Init, DiskInit, Cacheless!Init, Cacheless!DiskInit
  <1>2. TypeOK /\ NeverStale /\ [Next]_vars => [Cacheless!Next]_(Cacheless!ivars)
    BY NextRefines
  <1> QED
    BY <1>1, <1>2, TypeCorrect, LoneWriterNeverStale, PTL
       DEF Spec, CacheIsInvisible, Cacheless!Spec
=============================================================================
