------------------------ MODULE ValidatorRunsProofs ------------------------
(* However children fork, crash, hang or are killed, a run that counts as  *)
(* ok was carried out, its processes are gone when it is over, all of them *)
(* fit the CPU budget, and maintenance has the cache for itself: for any   *)
(* validators, any budget and any number of them at once.                  *)
EXTENDS ValidatorRuns, FiniteSetTheorems, TLAPS

Limits == call.outer * (IF call.kind = "all" THEN call.inner ELSE Budget) <= Budget

(* A call holds to its limits; without one nothing is under way.           *)
CallIsBounded ==
    /\ call.kind = "all" => call.inner > 0
    /\ call.kind = "one" => override = 0
    /\ call.kind # "none" => Limits
    /\ Cardinality(Active) <= call.outer
    /\ call.kind = "none" => /\ todo = {} /\ override = 0
                             /\ \A t \in Threads : stage[t] = "idle"

(* A process needs a thread that waits for it, and its worker pool is as   *)
(* large as the cap its call gave it, or the budget.                       *)
ChildIsWaitedFor(n) ==
    /\ Processes(n) > 0 => /\ stage[n] = "wait"
                           /\ child[n].cap = IF call.kind = "all" THEN call.inner ELSE 0
    /\ child[n].workers > 0 =>
         child[n].workers = IF child[n].cap > 0 THEN child[n].cap ELSE Budget

(* A run's result comes last, and issues are only written for validations  *)
(* that ended.                                                             *)
ResultIsEarned(n) ==
    /\ n \in todo => stage[n] = "idle"
    /\ n \in todo \/ stage[n] # "idle" => result[n] = "none"
    /\ result[n] = "ok" => child[n].run = "ended"
    /\ child[n].payload = "issues" => child[n].run = "ended"
    /\ child[n].main = "working" => child[n].payload = "none"
    /\ child[n].main = "reporting" => child[n].run # "unfinished"

Started == {"spawn", "wait", "read"}

(* Whoever cleans is alone and the first; the marked root keeps others     *)
(* from cleaning after a run has started.                                  *)
CleaningIsFirst ==
    /\ \A n \in Names : stage[n] \in Started => NoCache \/ maintained
    /\ \A t \in Threads : stage[t] = "cleaning" =>
          /\ ~NoCache /\ maintained
          /\ \A n \in Names : stage[n] \notin Started
          /\ \A u \in Threads : stage[u] = "cleaning" => u = t

IInv ==
    /\ TypeOK /\ CallIsBounded /\ CleaningIsFirst
    /\ \A n \in Names : ChildIsWaitedFor(n) /\ ResultIsEarned(n)
----------------------------------------------------------------------------
LEMMA ActiveIsFinite ==
  ASSUME NEW S \in SUBSET Names
  PROVE  /\ IsFiniteSet(S) /\ Cardinality(S) \in Nat
         /\ \A R \in SUBSET S : Cardinality(R) \in Nat /\ Cardinality(R) <= Cardinality(S)
  BY NamesFinite, FS_Subset, FS_CardinalityType

(* Dividing the budget leaves a worker for each of the runs, and no more   *)
(* than the budget for all of them (run_many).                             *)
LEMMA Quotient ==
  ASSUME NEW b \in Nat, NEW o \in 1..b
  PROVE  /\ b \div o \in 1..b
         /\ o * (b \div o) <= b
  OBVIOUS

LEMMA BudgetIsDivided ==
  ASSUME NEW S \in SUBSET Names, S # {}
  PROVE  /\ Outer(S) \in 1..MaxOuter
         /\ Inner(S) \in 1..Budget
         /\ Outer(S) * Inner(S) <= Budget
  <1>1. Cardinality(S) \in Nat \ {0}
    BY ActiveIsFinite, FS_EmptySet
  <1>2. Outer(S) \in 1..MaxOuter /\ Outer(S) \in 1..Budget
    BY <1>1, LimitsPositive DEF Outer, Least
  <1> QED
    BY <1>2, Quotient, LimitsPositive DEF Inner
----------------------------------------------------------------------------
(* A child, as TypeOK has it, also when it is started or killed.           *)
ChildType == [main : {"none", "working", "reporting", "exiting", "dead"},
              run : {"unfinished", "ended", "raised"},
              payload : {"none", "partial", "issues", "error"},
              workers : 0..Budget, cap : 0..Budget]

LEMMA ChildrenHaveTheirType ==
  /\ child \in [Names -> ChildType] <=>
       child \in [Names -> [main : {"none", "working", "reporting", "exiting", "dead"},
                            run : {"unfinished", "ended", "raised"},
                            payload : {"none", "partial", "issues", "error"},
                            workers : 0..Budget, cap : 0..Budget]]
  /\ Budget \in Nat \ {0} /\ MaxOuter \in Nat \ {0}
  /\ NoChild \in ChildType
  BY LimitsPositive DEF ChildType, NoChild, FreshChild

LEMMA KilledChild ==
  ASSUME NEW c \in ChildType, NEW m \in {"exiting", "dead"}, NEW k \in 0..Budget
  PROVE  [c EXCEPT !.main = m, !.workers = k] \in ChildType
  BY DEF ChildType

LEMMA InitIInv == Init => IInv
  <1> SUFFICES ASSUME Init PROVE IInv
    OBVIOUS
  <1>1. TypeOK /\ Caller \in Threads
    <2>1. 0 \in 0..Budget /\ 0 \in 0..MaxOuter /\ NoChild \in ChildType
      BY ChildrenHaveTheirType
    <2>2. child \in [Names -> ChildType]
      BY <2>1 DEF Init
    <2>3. call \in [kind : {"none", "one", "all"}, outer : 0..MaxOuter, inner : 0..Budget]
      BY <2>1 DEF Init, NoCall
    <2> QED
      BY <2>1, <2>2, <2>3, ChildrenHaveTheirType DEF Init, TypeOK, Threads
  <1>2. Active = {} /\ Cardinality(Active) = 0
    BY FS_EmptySet DEF Init, Active, Threads
  <1>3. CallIsBounded
    BY <1>1, <1>2 DEF Init, CallIsBounded, NoCall
  <1>4. CleaningIsFirst
    BY DEF Init, CleaningIsFirst, Started, Threads
  <1>5. \A n \in Names : ChildIsWaitedFor(n) /\ ResultIsEarned(n)
    BY DEF Init, ChildIsWaitedFor, ResultIsEarned, Processes, Alive, NoChild, FreshChild, Threads
  <1> QED
    BY <1>1, <1>3, <1>4, <1>5 DEF IInv

(* What the processes of a validator do by themselves: what it reported    *)
(* and how it ended follow from what it did, its pool has the size its cap *)
(* says, and no process comes to life.                                     *)
LEMMA ChildActs ==
  ASSUME IInv, NEW n \in Names, Child(n)
  PROVE  /\ child' \in [Names -> ChildType]
         /\ \A m \in Names : m # n => child'[m] = child[m]
         /\ Processes(n) > 0 /\ UNCHANGED <<suite, infos, caller, stage, result, maintained>>
         /\ n \in Alive' => n \in Alive
         /\ child'[n].cap = child[n].cap
         /\ child'[n].workers \in {0, child[n].workers}
              \/ child'[n].workers = IF child[n].cap > 0 THEN child[n].cap ELSE Budget
         /\ child'[n].payload = "issues" => child'[n].run = "ended"
         /\ child'[n].main = "working" => child'[n].payload = "none"
         /\ child'[n].main = "reporting" => child'[n].run # "unfinished"
  <1> DEFINE c == child[n]
  <1>0. /\ c \in ChildType /\ child \in [Names -> ChildType] /\ ResultIsEarned(n)
        /\ Budget \in Nat
    BY LimitsPositive DEF IInv, TypeOK, ChildType
  <1>1. Processes(n) > 0
    BY <1>0 DEF Processes, Alive, ChildType, Child, Fork, Join, Collect,
      WritePart, WriteRest, Exit, Die, OrphansEnd, ChildStep
  <1>2. UNCHANGED <<suite, infos, caller, stage, result, maintained>>
    BY DEF Child, Fork, Join, Collect, WritePart, WriteRest, Exit, Die, OrphansEnd, ChildStep
  <1> DEFINE w == IF c.cap > 0 THEN c.cap ELSE Budget
             Acts(d) ==
               /\ d \in ChildType /\ child' = [child EXCEPT ![n] = d]
               /\ d.main \in {"working", "reporting", "exiting"} =>
                    c.main \in {"working", "reporting", "exiting"}
               /\ d.cap = c.cap /\ d.workers \in {0, c.workers, w}
               /\ d.payload = "issues" => d.run = "ended"
               /\ d.main = "working" => d.payload = "none"
               /\ d.main = "reporting" => d.run # "unfinished"
  <1>3. w \in 0..Budget
    BY <1>0 DEF ChildType
  <1>4. ASSUME Fork(n) PROVE Acts([c EXCEPT !.workers = w])
    BY <1>0, <1>3, <1>4 DEF ChildType, ResultIsEarned, Fork, ChildStep
  <1>5. ASSUME Join(n) PROVE Acts([c EXCEPT !.workers = 0])
    BY <1>0, <1>5 DEF ChildType, ResultIsEarned, Join, ChildStep
  <1>6. ASSUME Collect(n) PROVE \E how \in {"ended", "raised"} :
                                  Acts([c EXCEPT !.main = "reporting", !.run = how])
    BY <1>0, <1>6 DEF ChildType, ResultIsEarned, Collect, ChildStep
  <1>7. ASSUME WritePart(n) PROVE Acts([c EXCEPT !.payload = "partial"])
    BY <1>0, <1>7 DEF ChildType, ResultIsEarned, WritePart, ChildStep
  <1>8. ASSUME WriteRest(n)
        PROVE  Acts([c EXCEPT !.main = "exiting",
                              !.payload = IF c.run = "raised" THEN "error" ELSE "issues"])
    BY <1>0, <1>8 DEF ChildType, ResultIsEarned, WriteRest, ChildStep
  <1>9. ASSUME Exit(n) PROVE Acts([c EXCEPT !.main = "dead", !.workers = 0])
    <2>1. 0 \in 0..Budget /\ "dead" \in {"exiting", "dead"}
      BY <1>0
    <2>2. [c EXCEPT !.main = "dead", !.workers = 0] \in ChildType
      BY <1>0, <2>1, KilledChild
    <2> QED
      BY <1>0, <1>9, <2>2 DEF ChildType, ResultIsEarned, Exit, ChildStep
  <1>10. ASSUME Die(n) PROVE Acts([c EXCEPT !.main = "dead"])
    BY <1>0, <1>10 DEF ChildType, ResultIsEarned, Die, ChildStep
  <1>11. ASSUME OrphansEnd(n) PROVE Acts([c EXCEPT !.workers = 0])
    BY <1>0, <1>11 DEF ChildType, ResultIsEarned, OrphansEnd
  <1> HIDE DEF Acts
  <1>12. PICK d : Acts(d)
    BY <1>4, <1>5, <1>6, <1>7, <1>8, <1>9, <1>10, <1>11 DEF Child
  <1> USE DEF Acts
  <1>13. child'[n] = d /\ \A m \in Names : m # n => child'[m] = child[m]
    BY <1>0, <1>12
  <1> QED
    BY <1>0, <1>1, <1>2, <1>12, <1>13 DEF Alive

LEMMA ChildKeepsIInv ==
  ASSUME IInv, NEW n \in Names, Child(n)
  PROVE  IInv'
  <1>0. /\ TypeOK /\ CallIsBounded /\ CleaningIsFirst /\ Budget \in Nat
        /\ UNCHANGED <<suite, infos, call, todo, override, stage, result, maintained>>
        /\ \A m \in Names : ChildIsWaitedFor(m) /\ ResultIsEarned(m)
        /\ \A m \in Names : m # n => child'[m] = child[m]
    BY ChildActs, LimitsPositive DEF IInv, caller
  <1>1. TypeOK'
    BY <1>0, ChildActs DEF TypeOK, ChildType
  <1>2. CallIsBounded' /\ CleaningIsFirst'
    BY <1>0 DEF CallIsBounded, CleaningIsFirst, Limits, Active
  <1>3. ChildIsWaitedFor(n)'
    <2>1. child[n].cap = IF call.kind = "all" THEN call.inner ELSE 0
      BY <1>0, ChildActs DEF ChildIsWaitedFor
    <2> QED
      BY <1>0, <2>1, ChildActs DEF ChildIsWaitedFor
  <1>4. ResultIsEarned(n)'
    BY <1>0, ChildActs DEF ResultIsEarned, ChildIsWaitedFor
  <1>5. \A m \in Names : m # n => (ChildIsWaitedFor(m) /\ ResultIsEarned(m))'
    BY <1>0 DEF ChildIsWaitedFor, ResultIsEarned, Processes, Alive
  <1> QED
    BY <1>1, <1>2, <1>3, <1>4, <1>5 DEF IInv

(* Threads that do not wait for a slot leave the slots they had.           *)
LEMMA FewerAreActive ==
  ASSUME IInv, Active' \subseteq Active
  PROVE  Cardinality(Active') <= call.outer
  <1>1. Active \in SUBSET Names /\ call.outer \in Nat /\ Cardinality(Active) <= call.outer
    BY LimitsPositive DEF Active, IInv, TypeOK, CallIsBounded
  <1>2. /\ Cardinality(Active') \in Nat /\ Cardinality(Active) \in Nat
        /\ Cardinality(Active') <= Cardinality(Active)
    BY <1>1, ActiveIsFinite
  <1> QED
    BY <1>1, <1>2

LEMMA RunStepKeepsIInv ==
  ASSUME IInv, NEW n \in Names, RunStep(n)
  PROVE  IInv'
  <1> USE DEF IInv, TypeOK
  <1> n \in Threads /\ n # Caller
    BY NamesFinite DEF Threads
  <1>0. /\ UNCHANGED <<suite, call, override, maintained>>
        /\ \A t \in Threads : t # n => stage'[t] = stage[t]
        /\ \A m \in Names : m # n => child'[m] = child[m] /\ result'[m] = result[m] /\ (m \in todo' <=> m \in todo)
    BY DEF RunStep, Begin, Spawn, SpawnFails, Reap, TimeOut, ReadPayload, Fail, caller
  <1>1. CASE Begin(n)
    <2>1. TypeOK'
      BY <1>1 DEF Begin, Listed
    <2>2. Active' \subseteq Active \cup {n}
      BY <1>0 DEF Active, Threads
    <2>3. Cardinality(Active') <= call.outer
      <3>1. Active \in SUBSET Names /\ Active' \in SUBSET Names /\ call.outer \in Nat
        BY DEF Active
      <3>2. Cardinality(Active \cup {n}) <= Cardinality(Active) + 1
        BY <3>1, ActiveIsFinite, FS_AddElement
      <3>3. Active \cup {n} \in SUBSET Names
        BY <3>1
      <3>4. Cardinality(Active') <= Cardinality(Active \cup {n}) /\ Cardinality(Active') \in Nat
                /\ Cardinality(Active \cup {n}) \in Nat /\ Cardinality(Active) \in Nat
        BY <2>2, <3>1, <3>3, ActiveIsFinite
      <3> QED
        BY <3>1, <3>2, <3>4, <1>1 DEF Begin
    <2>4. CallIsBounded'
      BY <1>0, <1>1, <2>3 DEF CallIsBounded, Limits, Begin
    <2>5. CleaningIsFirst'
      BY <1>0, <1>1 DEF CleaningIsFirst, Started, Begin, Threads
    <2>6. \A m \in Names : ChildIsWaitedFor(m)'
      BY <1>0, <1>1 DEF ChildIsWaitedFor, ResultIsEarned, Processes, Alive, Begin, Threads
    <2>7. \A m \in Names : ResultIsEarned(m)'
      BY <1>0, <1>1 DEF ResultIsEarned, Begin, Threads
    <2> QED
      BY <2>1, <2>4, <2>5, <2>6, <2>7
  <1>2. CASE ~Begin(n)
    <2>0. /\ stage[n] \in Started /\ todo' = todo /\ infos' = infos /\ n \notin todo
          /\ result[n] = "none"
      BY <1>2 DEF RunStep, Spawn, SpawnFails, Reap, TimeOut, ReadPayload, Fail, Started, caller,
        ResultIsEarned
    <2>1. /\ stage' \in [Threads -> {"idle", "maintain", "cleaning", "spawn", "wait", "read"}]
          /\ stage'[n] \in {"wait", "read", "idle"}
          /\ result' \in [Names -> {"none", "unknown", "failed", "ok"}]
      BY <1>2 DEF RunStep, Spawn, SpawnFails, Reap, TimeOut, ReadPayload, Fail
    <2>2. /\ child' \in [Names -> ChildType]
          /\ ChildIsWaitedFor(n)' /\ ResultIsEarned(n)'
      <3>0. child \in [Names -> ChildType]
        BY ChildrenHaveTheirType
      <3>1. CASE Spawn(n)
        <4> DEFINE d == FreshChild("working", Cap)
        <4>1. Cap \in 0..Budget
          BY DEF Cap
        <4>2. Cap = IF call.kind = "all" THEN call.inner ELSE 0
          BY <2>0 DEF Cap, CallIsBounded, Threads, Started
        <4>3. /\ d \in ChildType /\ d.main = "working" /\ d.payload = "none"
              /\ d.cap = Cap /\ d.workers = 0
          BY <4>1, ChildrenHaveTheirType DEF ChildType, FreshChild
        <4>4. child' = [child EXCEPT ![n] = d] /\ stage'[n] = "wait" /\ result' = result
          BY <3>1 DEF Spawn
        <4> HIDE DEF d
        <4>5. child' \in [Names -> ChildType] /\ child'[n] = d
          BY <3>0, <4>3, <4>4
        <4>6. ChildIsWaitedFor(n)'
          BY <1>0, <4>2, <4>3, <4>4, <4>5 DEF ChildIsWaitedFor
        <4>7. ResultIsEarned(n)'
          BY <2>0, <4>3, <4>4, <4>5 DEF ResultIsEarned
        <4> QED
          BY <4>5, <4>6, <4>7
      <3>2. CASE SpawnFails(n)
        <4>1. /\ child' \in [Names -> ChildType] /\ child'[n] = NoChild
              /\ stage'[n] = "idle" /\ result'[n] = "failed"
          BY <3>0, <3>2, ChildrenHaveTheirType DEF SpawnFails, Fail
        <4> QED
          BY <2>0, <4>1 DEF ChildIsWaitedFor, ResultIsEarned, Processes, Alive, NoChild, FreshChild
      <3>3. CASE Reap(n)
        <4>1. child' = child /\ result' = result /\ Processes(n) = 0 /\ stage'[n] = "read"
          BY <3>3 DEF Reap
        <4>2. Processes(n)' = 0
          BY <4>1 DEF Processes, Alive
        <4> QED
          BY <2>0, <3>0, <4>1, <4>2 DEF ChildIsWaitedFor, ResultIsEarned
      <3>4. CASE TimeOut(n)
        <4> DEFINE d == [child[n] EXCEPT !.main = "dead", !.workers = 0]
        <4>1. 0 \in 0..Budget /\ "dead" \in {"exiting", "dead"} /\ child[n] \in ChildType
          BY <3>0, ChildrenHaveTheirType
        <4>2. d \in ChildType
          BY <4>1, KilledChild
        <4>3. d.main = "dead" /\ d.workers = 0 /\ d.run = child[n].run /\ d.payload = child[n].payload
          BY <4>1 DEF ChildType
        <4>4. child' = [child EXCEPT ![n] = d] /\ stage'[n] = "idle" /\ result'[n] = "failed"
          BY <3>4 DEF TimeOut, Fail
        <4> HIDE DEF d
        <4>5. child' \in [Names -> ChildType] /\ child'[n] = d
          BY <3>0, <4>2, <4>4
        <4> QED
          BY <2>0, <4>3, <4>4, <4>5 DEF ChildIsWaitedFor, ResultIsEarned, Processes, Alive
      <3>5. CASE ReadPayload(n)
        <4>1. child' = child /\ Processes(n) = 0 /\ stage'[n] = "idle"
                /\ result'[n] = IF child[n].payload = "issues" THEN "ok" ELSE "failed"
          BY <3>5 DEF ReadPayload, ChildIsWaitedFor, Processes
        <4>2. Processes(n)' = 0
          BY <4>1 DEF Processes, Alive
        <4> QED
          BY <2>0, <3>0, <4>1, <4>2 DEF ChildIsWaitedFor, ResultIsEarned
      <3> QED
        BY <1>2, <3>1, <3>2, <3>3, <3>4, <3>5 DEF RunStep
    <2>3. TypeOK'
      BY <1>0, <2>0, <2>1, <2>2 DEF ChildType
    <2>4. CallIsBounded'
      <3>1. Active' \subseteq Active
        BY <1>0, <2>0 DEF Active, Started, Threads
      <3>2. Cardinality(Active') <= call.outer
        BY <3>1, FewerAreActive
      <3>3. call.kind # "none"
        BY <2>0 DEF CallIsBounded, Started
      <3> QED
        BY <1>0, <3>2, <3>3 DEF CallIsBounded, Limits
    <2>5. CleaningIsFirst'
      BY <1>0, <2>0, <2>1 DEF CleaningIsFirst, Started, Threads
    <2>6. \A m \in Names : m # n => (ChildIsWaitedFor(m) /\ ResultIsEarned(m))'
      BY <1>0, <2>0 DEF ChildIsWaitedFor, ResultIsEarned, Processes, Alive, Threads
    <2> QED
      BY <2>2, <2>3, <2>4, <2>5, <2>6
  <1> QED
    BY <1>1, <1>2

LEMMA MaintenanceKeepsIInv ==
  ASSUME IInv, NEW t \in Threads, MaintenanceStep(t)
  PROVE  IInv'
  <1>0. /\ TypeOK /\ CallIsBounded /\ CleaningIsFirst
        /\ \A n \in Names : ChildIsWaitedFor(n) /\ ResultIsEarned(n)
        /\ UNCHANGED <<suite, infos, call, todo, override, result, child>>
        /\ Names \subseteq Threads
    BY DEF IInv, MaintenanceStep, SkipMaintenance, StartMaintenance, EndMaintenance, caller, Threads
  <1>1. /\ stage[t] \in {"maintain", "cleaning"} /\ stage'[t] \in {"cleaning", "idle", "spawn"}
        /\ stage'[t] = "idle" => t = Caller
        /\ stage' = [stage EXCEPT ![t] = stage'[t]]
        /\ maintained' \in BOOLEAN /\ (maintained => maintained')
    BY <1>0 DEF TypeOK, MaintenanceStep, SkipMaintenance, StartMaintenance, EndMaintenance,
      AfterMaintenance
  <1>2. \A u \in Threads : u # t => stage'[u] = stage[u]
    BY <1>0, <1>1 DEF TypeOK
  <1>3. TypeOK'
    BY <1>0, <1>1 DEF TypeOK
  <1>4. CallIsBounded'
    <2>1. Active' \subseteq Active
      BY <1>0, <1>1, <1>2 DEF Active
    <2>2. Cardinality(Active') <= call.outer
      BY <2>1, FewerAreActive
    <2> QED
      BY <1>0, <1>1, <2>2 DEF CallIsBounded, Limits
  <1>5. CleaningIsFirst'
    <2>1. CASE SkipMaintenance(t)
      <3>1. maintained' = maintained /\ (NoCache \/ maintained)
        BY <2>1 DEF SkipMaintenance
      <3>2. \A u \in Threads : stage'[u] = "cleaning" => stage[u] = "cleaning"
        BY <1>2, <2>1, <1>0 DEF SkipMaintenance, TypeOK, AfterMaintenance
      <3>3. \A u \in Threads : stage[u] # "cleaning"
        BY <1>0, <2>1 DEF SkipMaintenance, CleaningIsFirst
      <3> QED
        BY <3>1, <3>2, <3>3 DEF CleaningIsFirst
    <2>2. CASE StartMaintenance(t)
      <3>1. \A n \in Names : stage[n] \notin Started
        BY <1>0, <2>2 DEF StartMaintenance, CleaningIsFirst
      <3>2. stage'[t] = "cleaning" /\ maintained' /\ ~NoCache
        BY <1>0, <2>2 DEF StartMaintenance, TypeOK
      <3>3. \A u \in Threads : stage[u] # "cleaning"
        BY <2>2 DEF StartMaintenance
      <3> QED
        BY <1>0, <1>2, <3>1, <3>2, <3>3 DEF CleaningIsFirst, Started
    <2>3. CASE EndMaintenance(t)
      <3>1. /\ stage[t] = "cleaning" /\ maintained' = maintained
            /\ stage'[t] # "cleaning"
        BY <1>0, <2>3 DEF EndMaintenance, TypeOK, AfterMaintenance
      <3>2. maintained /\ \A u \in Threads : stage[u] = "cleaning" => u = t
        BY <1>0, <3>1 DEF CleaningIsFirst
      <3> QED
        BY <1>2, <3>1, <3>2 DEF CleaningIsFirst
    <2> QED
      BY <2>1, <2>2, <2>3 DEF MaintenanceStep
  <1>6. \A n \in Names : ChildIsWaitedFor(n)'
    BY <1>0, <1>1, <1>2 DEF ChildIsWaitedFor, Processes, Alive
  <1>7. \A n \in Names : ResultIsEarned(n)'
    BY <1>0, <1>1, <1>2, NamesFinite DEF ResultIsEarned
  <1> QED
    BY <1>3, <1>4, <1>5, <1>6, <1>7 DEF IInv

(* A call starts with no process and no thread under way.                  *)
LEMMA CallsKeepIInv ==
  ASSUME IInv, \/ RunMany \/ Return \/ SuiteGrows
               \/ \E n \in Names : RunOne(n)
  PROVE  IInv'
  <1>0. /\ TypeOK /\ CallIsBounded /\ CleaningIsFirst
        /\ \A n \in Names : ChildIsWaitedFor(n) /\ ResultIsEarned(n)
        /\ Names \subseteq Threads /\ Caller \in Threads /\ Caller \notin Names
    BY NamesFinite DEF IInv, Threads
  <1>1. Budget \in Nat \ {0} /\ MaxOuter \in Nat \ {0} /\ NoChild \in ChildType
    BY ChildrenHaveTheirType
  <1>2. ASSUME NewCall
        PROVE  /\ override = 0 /\ \A t \in Threads : stage[t] = "idle"
               /\ Active = {} /\ Cardinality(Active) = 0
               /\ result' \in [Names -> {"none", "unknown", "failed", "ok"}]
               /\ child' \in [Names -> ChildType]
               /\ \A n \in Names : result'[n] = "none" /\ Processes(n)' = 0
                                     /\ child'[n] = NoChild
    <2>1. override = 0 /\ \A t \in Threads : stage[t] = "idle"
      BY <1>0, <1>2 DEF NewCall, CallIsBounded
    <2>2. Active = {} /\ Cardinality(Active) = 0
      BY <1>0, <2>1, FS_EmptySet DEF Active
    <2>3. \A n \in Names : Processes(n) = 0
      BY <1>0, <2>1, ChildrenHaveTheirType DEF ChildIsWaitedFor, TypeOK, ChildType, Processes
    <2>4. /\ result' = [n \in Names |-> "none"] /\ child' = [n \in Names |-> NoChild]
      BY <1>2, <2>3 DEF NewCall
    <2>5. \A n \in Names : Processes(n)' = 0
      BY <2>4 DEF Processes, Alive, NoChild, FreshChild
    <2> QED
      BY <1>1, <2>1, <2>2, <2>4, <2>5
  <1>3. ASSUME NEW n \in Names, RunOne(n) PROVE IInv'
    <2>1. NewCall /\ call' = [kind |-> "one", outer |-> 1, inner |-> 0] /\ todo' = {n}
            /\ UNCHANGED <<suite, infos, stage, override, maintained>>
      BY <1>3 DEF RunOne
    <2>2. TypeOK'
      BY <1>0, <1>1, <1>2, <2>1 DEF TypeOK, ChildType
    <2>3. CallIsBounded'
      <3>1. Cardinality(Active') = 0
        BY <1>2, <2>1 DEF Active
      <3> QED
        BY <1>1, <1>2, <2>1, <3>1 DEF CallIsBounded, Limits
    <2>4. CleaningIsFirst'
      BY <1>0, <2>1 DEF CleaningIsFirst
    <2>5. \A m \in Names : ChildIsWaitedFor(m)' /\ ResultIsEarned(m)'
      BY <1>0, <1>2, <2>1 DEF ChildIsWaitedFor, ResultIsEarned, NoChild, FreshChild
    <2> QED
      BY <2>2, <2>3, <2>4, <2>5 DEF IInv
  <1>4. ASSUME RunMany PROVE IInv'
    <2>1. /\ NewCall /\ suite # {} /\ suite \in SUBSET Names
          /\ call' = [kind |-> "all", outer |-> Outer(suite), inner |-> Inner(suite)]
          /\ todo' = suite
          /\ UNCHANGED <<suite, maintained>>
      BY <1>0, <1>4 DEF RunMany, TypeOK
    <2>2. /\ Outer(suite) \in 1..MaxOuter /\ Inner(suite) \in 1..Budget
          /\ Outer(suite) * Inner(suite) <= Budget
      BY <2>1, BudgetIsDivided
    <2>3. /\ infos' \subseteq Names /\ override' \in 0..Budget
          /\ stage' \in [Threads -> {"idle", "maintain", "cleaning", "spawn", "wait", "read"}]
          /\ \A n \in Names : stage'[n] = "idle"
          /\ stage'[Caller] \in {"idle", "maintain"}
      BY <1>0, <1>2, <1>4, <2>1, <2>2 DEF RunMany, Listed, TypeOK
    <2>4. TypeOK'
      <3>1. call' \in [kind : {"none", "one", "all"}, outer : 0..MaxOuter, inner : 0..Budget]
        BY <1>1, <2>1, <2>2
      <3> QED
        BY <1>0, <1>2, <2>1, <2>3, <3>1 DEF TypeOK, ChildType
    <2>5. CallIsBounded'
      <3>1. Active' = {} /\ Cardinality(Active') = 0
        BY <2>3, FS_EmptySet DEF Active
      <3> QED
        BY <1>1, <2>1, <2>2, <3>1 DEF CallIsBounded, Limits
    <2>6. CleaningIsFirst'
      BY <1>0, <2>3 DEF CleaningIsFirst, Started, Threads
    <2>7. \A m \in Names : ChildIsWaitedFor(m)' /\ ResultIsEarned(m)'
      BY <1>0, <1>2, <2>1, <2>3 DEF ChildIsWaitedFor, ResultIsEarned, NoChild, FreshChild
    <2> QED
      BY <2>4, <2>5, <2>6, <2>7 DEF IInv
  <1>5. ASSUME Return PROVE IInv'
    <2>1. /\ call' = NoCall /\ override' = 0 /\ todo = {}
          /\ UNCHANGED <<suite, infos, todo, stage, result, maintained, child>>
      BY <1>5 DEF Return
    <2>2. \A t \in Threads : stage[t] = "idle"
      BY <1>5 DEF Return, Active, Threads
    <2>3. TypeOK'
      BY <1>0, <1>1, <2>1 DEF TypeOK, NoCall
    <2>4. CallIsBounded'
      <3>1. Active' = {} /\ Cardinality(Active') = 0
        BY <1>0, <2>1, <2>2, FS_EmptySet DEF Active
      <3> QED
        BY <2>1, <2>2, <3>1 DEF CallIsBounded, NoCall
    <2>5. CleaningIsFirst'
      BY <1>0, <2>1 DEF CleaningIsFirst
    <2>6. \A m \in Names : Processes(m)' = 0
      <3>1. \A m \in Names : Processes(m)' = Processes(m)
        BY <2>1 DEF Processes, Alive
      <3> QED
        BY <1>0, <2>2, <3>1, ChildrenHaveTheirType DEF ChildIsWaitedFor, TypeOK, ChildType, Processes
    <2>7. \A m \in Names : ChildIsWaitedFor(m)' /\ ResultIsEarned(m)'
      BY <1>0, <2>1, <2>6 DEF ChildIsWaitedFor, ResultIsEarned
    <2> QED
      BY <2>3, <2>4, <2>5, <2>7 DEF IInv
  <1>6. ASSUME SuiteGrows PROVE IInv'
    <2>1. suite' \subseteq Names /\ UNCHANGED <<infos, call, todo, override, stage, result, maintained, child>>
      BY <1>0, <1>6 DEF SuiteGrows, TypeOK, caller
    <2> QED
      BY <1>0, <2>1 DEF IInv, TypeOK, CallIsBounded, Limits, Active, CleaningIsFirst,
        ChildIsWaitedFor, ResultIsEarned, Processes, Alive
  <1> QED
    BY <1>3, <1>4, <1>5, <1>6
----------------------------------------------------------------------------
(* Every step keeps the invariant.                                         *)
LEMMA Inductive == Spec => []IInv
  <1>1. ASSUME IInv, [Next]_vars PROVE IInv'
    <2>1. CASE UNCHANGED vars
      BY <1>1, <2>1 DEF vars, IInv, TypeOK, CallIsBounded, Limits, Active, CleaningIsFirst,
        ChildIsWaitedFor, ResultIsEarned, Processes, Alive
    <2>2. CASE Next
      BY <1>1, <2>2, CallsKeepIInv, RunStepKeepsIInv, ChildKeepsIInv, MaintenanceKeepsIInv DEF Next
    <2> QED
      BY <1>1, <2>1, <2>2
  <1> QED
    BY <1>1, InitIInv, PTL DEF Spec

(* The runner's state keeps its types, whatever its children do: neither a *)
(* cap nor the pool of a child ever exceeds the budget.                    *)
THEOREM TypeCorrect == Spec => []TypeOK
  <1>1. IInv => TypeOK
    BY DEF IInv
  <1> QED
    BY <1>1, Inductive, PTL

(* Failures are loud: a run counts as ok only if the child carried its     *)
(* validations out and reported on them, however children end.             *)
THEOREM RunsAreLoud == Spec => []FailuresAreLoud
  <1>1. IInv => FailuresAreLoud
    BY DEF IInv, ResultIsEarned, FailuresAreLoud
  <1> QED
    BY <1>1, Inductive, PTL

(* No process of a run's group outlives the run (run_in_group).            *)
THEOREM RunsCleanUp == Spec => []NothingLeftBehind
  <1>1. ASSUME IInv PROVE NothingLeftBehind
    <2>1. \A n \in Names : Processes(n) \in Nat
      BY <1>1, ChildrenHaveTheirType DEF IInv, TypeOK, ChildType, Processes
    <2> QED
      BY <1>1, <2>1 DEF IInv, ChildIsWaitedFor, NothingLeftBehind
  <1> QED
    BY <1>1, Inductive, PTL

(* The cache is maintained before the first run and by one thread.         *)
THEOREM RunsWaitForMaintenance == Spec => []MaintenanceAlone
  <1>1. IInv => MaintenanceAlone
    BY DEF IInv, CleaningIsFirst, ChildIsWaitedFor, Started, MaintenanceAlone
  <1> QED
    BY <1>1, Inductive, PTL

(* All processes of all runs: a slot for each thread under way, in each    *)
(* slot no more processes than its share of the budget (run_many).         *)
LEMMA ProcessesFillSlots ==
  ASSUME IInv
  PROVE  Total([n \in Names |-> Processes(n)]) <= Budget
  <1>0. /\ TypeOK /\ CallIsBounded /\ Budget \in Nat \ {0} /\ MaxOuter \in Nat \ {0}
        /\ \A n \in Names : ChildIsWaitedFor(n)
        /\ child \in [Names -> ChildType] /\ Names \subseteq Threads
    BY ChildrenHaveTheirType DEF IInv, TypeOK, Threads
  <1> DEFINE Share == IF call.kind = "all" THEN call.inner ELSE Budget
             Slots == Active \X (1..Share)
             AllProcesses == Units([n \in Names |-> Processes(n)])
  <1>1. Share \in Nat /\ call.outer \in Nat /\ Share > 0
    BY <1>0 DEF TypeOK, CallIsBounded
  <1>2. ASSUME NEW n \in Names, Processes(n) > 0 PROVE n \in Active /\ Processes(n) <= Share
    <2>1. /\ stage[n] = "wait" /\ child[n].cap = IF call.kind = "all" THEN call.inner ELSE 0
          /\ child[n].workers \in Nat
          /\ child[n].workers > 0 =>
               child[n].workers = IF child[n].cap > 0 THEN child[n].cap ELSE Budget
      BY <1>0, <1>2 DEF ChildIsWaitedFor, ChildType
    <2>2. call.kind = "all" => call.inner > 0 /\ call.inner \in Nat
      BY <1>0 DEF CallIsBounded, TypeOK
    <2>3. child[n].workers > 0 => child[n].workers = Share
      BY <1>0, <2>1, <2>2
    <2> QED
      BY <1>1, <2>1, <2>3 DEF Processes, Active
  <1>3. \A n \in Names : Processes(n) \in Nat
    BY <1>0 DEF ChildType, Processes
  <1>4. AllProcesses \subseteq Slots
    <2>1. ASSUME NEW n \in Names, NEW k \in 1..Processes(n) PROVE <<n, k>> \in Slots
      BY <1>1, <1>2, <1>3, <2>1
    <2> HIDE DEF Slots
    <2> QED
      BY <2>1 DEF Units
  <1>5. Active \in SUBSET Names /\ IsFiniteSet(Active) /\ Cardinality(Active) \in Nat
    BY ActiveIsFinite DEF Active
  <1> HIDE DEF Share, AllProcesses
  <1>6. IsFiniteSet(1..Share) /\ Cardinality(1..Share) = Share
    <2>1. /\ IsFiniteSet(1..Share)
          /\ Cardinality(1..Share) = IF 1 > Share THEN 0 ELSE Share - 1 + 1
      BY <1>1, FS_Interval
    <2> QED
      BY <1>1, <2>1
  <1>7. IsFiniteSet(Slots) /\ Cardinality(Slots) = Cardinality(Active) * Share
    BY <1>5, <1>6, FS_Product
  <1>8. Cardinality(AllProcesses) <= Cardinality(Active) * Share
          /\ Cardinality(AllProcesses) \in Nat
    BY <1>4, <1>7, FS_Subset, FS_CardinalityType
  <1>9. CASE call.kind = "none"
    <2>1. Active = {}
      BY <1>0, <1>9 DEF CallIsBounded, Active
    <2>2. Cardinality(Active) = 0
      BY <2>1, FS_EmptySet
    <2> QED
      BY <1>0, <1>1, <1>8, <2>2 DEF Total, AllProcesses
  <1>10. CASE call.kind # "none"
    <2>1. Cardinality(Active) <= call.outer /\ call.outer * Share <= Budget
      BY <1>0, <1>10 DEF CallIsBounded, Limits, Share
    <2>2. Cardinality(Active) * Share <= call.outer * Share
      BY <1>1, <1>5, <2>1
    <2>3. Cardinality(Active) * Share \in Nat /\ call.outer * Share \in Nat
      BY <1>1, <1>5
    <2> QED
      BY <1>0, <1>8, <2>1, <2>2, <2>3 DEF Total, AllProcesses
  <1> QED
    BY <1>9, <1>10

(* The combined pool stays within the budget, and the budget of a run-all  *)
(* call ends with it: a single run is not held to it.                      *)
THEOREM RunsFitTheBudget == Spec => []WithinBudget
  <1>1. IInv => SingleRunsAreUncapped
    BY DEF IInv, ChildIsWaitedFor, SingleRunsAreUncapped
  <1>2. IInv => WithinBudget
    BY <1>1, ProcessesFillSlots DEF WithinBudget
  <1> QED
    BY <1>2, Inductive, PTL
=============================================================================
