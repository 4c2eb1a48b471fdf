--------------------------- MODULE ValidatorRuns ---------------------------
(***************************************************************************)
(* ValidatorRunner (validators/runner.py) in its default, isolated mode:   *)
(* each validator of the mod runs in a child process (_shim.py) that leads *)
(* a process group of its own (util/process.py), forks pool workers and    *)
(* hands its issues back in a file.  A run-all call runs several at once,  *)
(* on pool threads that share a CPU budget.                                *)
(*                                                                         *)
(* The server makes one call at a time (Offloader, OneAtATime).  A thread  *)
(* is named after the validator it runs, Caller is the one that called.    *)
(***************************************************************************)
EXTENDS Totals

CONSTANTS Names,      \* validators that may be in the suite
          Caller,
          MaxOuter,   \* validators at once: 4 in run_many
          Budget,     \* _validator_cpu_budget()
          NoCache     \* MD_NO_CACHE=1

ASSUME NamesFinite == IsFiniteSet(Names) /\ Caller \notin Names
ASSUME LimitsPositive == {MaxOuter, Budget} \subseteq Nat \ {0} /\ NoCache \in BOOLEAN

VARIABLES suite,        \* validate_*.py files of the mod
          infos,        \* _infos; {} when not listed yet
          call,         \* the call in progress: its kind and limits
          todo,         \* names whose run has not begun
          stage,        \* thread -> where it stands
          result,       \* name -> what its run returned
          override,     \* _worker_budget of the calling thread; 0 is None
          maintained,   \* the root is in _CACHE_MAINTAINED
          child         \* name -> its last child process

vars == <<suite, infos, call, todo, stage, result, override, maintained, child>>
caller == <<call, todo, override>>

Threads == Names \cup {Caller}
Active == {n \in Names : stage[n] # "idle"}
Alive == {n \in Names : child[n].main \in {"working", "reporting", "exiting"}}

(* The busy processes of a child's group: the validator itself or, while   *)
(* it only waits for them, its pool workers, whose combined number is what *)
(* the budget is for.                                                      *)
Processes(n) == IF child[n].workers > 0 THEN child[n].workers
                ELSE IF n \in Alive THEN 1 ELSE 0

FreshChild(main, cap) ==
    [main |-> main, run |-> "unfinished", payload |-> "none", workers |-> 0, cap |-> cap]
NoChild == FreshChild("none", 0)
NoCall == [kind |-> "none", outer |-> 0, inner |-> 0]

TypeOK ==
    /\ suite \subseteq Names /\ infos \subseteq Names /\ todo \subseteq Names
    /\ call \in [kind : {"none", "one", "all"}, outer : 0..MaxOuter, inner : 0..Budget]
    /\ stage \in [Threads -> {"idle", "maintain", "cleaning", "spawn", "wait", "read"}]
    /\ result \in [Names -> {"none", "unknown", "failed", "ok"}]
    /\ override \in 0..Budget
    /\ maintained \in BOOLEAN
    /\ child \in [Names -> [main : {"none", "working", "reporting", "exiting", "dead"},
                            run : {"unfinished", "ended", "raised"},
                            payload : {"none", "partial", "issues", "error"},
                            workers : 0..Budget, cap : 0..Budget]]

Init ==
    /\ suite \in SUBSET Names
    /\ infos = {}
    /\ call = NoCall
    /\ todo = {}
    /\ stage = [t \in Threads |-> "idle"]
    /\ result = [n \in Names |-> "none"]
    /\ override = 0
    /\ maintained = FALSE
    /\ child = [n \in Names |-> NoChild]

----------------------------------------------------------------------------
(* A run's outcome is its caller's, who has it; its directory is gone.     *)
NewCall ==
    /\ call.kind = "none"
    /\ result' = [n \in Names |-> "none"]
    /\ child' = [n \in Names |-> IF Processes(n) = 0 THEN NoChild ELSE child[n]]

Least(a, b) == IF a <= b THEN a ELSE b

Outer(names) == Least(MaxOuter, Least(Cardinality(names), Budget))

BugInner(names) == (Budget + Outer(names) - 1) \div Outer(names)
Inner(names) == Budget \div Outer(names)

Listed == IF infos = {} THEN suite ELSE infos

(* validate of one validator, or a run of lint's: no worker budget is set. *)
RunOne(n) ==
    /\ NewCall
    /\ call' = [kind |-> "one", outer |-> 1, inner |-> 0]
    /\ todo' = {n}
    /\ UNCHANGED <<suite, infos, stage, override, maintained>>

(* run_many: with room for one it runs them on the calling thread, whose   *)
(* budget it sets; else it lists and maintains first, then fills a pool.   *)
RunMany ==
    /\ NewCall
    /\ suite # {}
    /\ call' = [kind |-> "all", outer |-> Outer(suite), inner |-> Inner(suite)]
    /\ todo' = suite
    /\ IF Outer(suite) = 1
       THEN override' = Inner(suite) /\ UNCHANGED <<infos, stage>>
       ELSE /\ infos' = Listed
            /\ stage' = [stage EXCEPT ![Caller] = "maintain"]
            /\ UNCHANGED override
    /\ UNCHANGED <<suite, maintained>>

(* Every future has a result; the budget is reset.                         *)
Return ==
    /\ call.kind # "none"
    /\ todo = {} /\ Active = {} /\ stage[Caller] = "idle"
    /\ call' = NoCall
    /\ override' = 0
    /\ UNCHANGED <<suite, infos, todo, stage, result, maintained, child>>

----------------------------------------------------------------------------
(* run(n): the lookup populates _infos once and for all.                   *)
Begin(n) ==
    /\ n \in todo
    /\ stage[Caller] = "idle"
    /\ Cardinality(Active) < call.outer
    /\ todo' = todo \ {n}
    /\ infos' = Listed
    /\ IF n \in Listed
       THEN stage' = [stage EXCEPT ![n] = "maintain"] /\ UNCHANGED result
       ELSE result' = [result EXCEPT ![n] = "unknown"] /\ UNCHANGED stage
    /\ UNCHANGED <<suite, call, override, maintained, child>>

AfterMaintenance(t) == IF t = Caller THEN "idle" ELSE "spawn"

(* _maintain_validator_cache: the set is read, and the cache cleared and   *)
(* pruned, under one lock; the root is marked before anything can raise.   *)
SkipMaintenance(t) ==
    /\ stage[t] = "maintain"
    /\ NoCache \/ (maintained /\ \A u \in Threads : stage[u] # "cleaning")
    /\ stage' = [stage EXCEPT ![t] = AfterMaintenance(t)]
    /\ UNCHANGED <<suite, infos, caller, result, maintained, child>>

BugMarkOnSuccess(t) ==
    /\ stage[t] = "maintain"
    /\ ~NoCache /\ ~maintained
    /\ \A u \in Threads : stage[u] # "cleaning"
    /\ stage' = [stage EXCEPT ![t] = "cleaning"]
    /\ maintained' \in BOOLEAN
    /\ UNCHANGED <<suite, infos, caller, result, child>>

StartMaintenance(t) ==
    /\ stage[t] = "maintain"
    /\ ~NoCache /\ ~maintained
    /\ \A u \in Threads : stage[u] # "cleaning"
    /\ stage' = [stage EXCEPT ![t] = "cleaning"]
    /\ maintained' = TRUE
    /\ UNCHANGED <<suite, infos, caller, result, child>>

(* Done, or failed and logged.                                             *)
EndMaintenance(t) ==
    /\ stage[t] = "cleaning"
    /\ stage' = [stage EXCEPT ![t] = AfterMaintenance(t)]
    /\ UNCHANGED <<suite, infos, caller, result, maintained, child>>

(* The child's MD_MAX_WORKERS; 0: not set.                                 *)
Cap == IF call.kind = "all" THEN call.inner ELSE override

(* _run_isolated: a new temporary directory, a new session.                *)
Spawn(n) ==
    /\ stage[n] = "spawn"
    /\ stage' = [stage EXCEPT ![n] = "wait"]
    /\ child' = [child EXCEPT ![n] = FreshChild("working", Cap)]
    /\ UNCHANGED <<suite, infos, caller, result, maintained>>

Fail(n) ==
    /\ stage' = [stage EXCEPT ![n] = "idle"]
    /\ result' = [result EXCEPT ![n] = "failed"]

(* The staged paths cannot be listed, or the child cannot be started.      *)
SpawnFails(n) ==
    /\ stage[n] = "spawn"
    /\ Fail(n)
    /\ child' = [child EXCEPT ![n] = NoChild]
    /\ UNCHANGED <<suite, infos, caller, maintained>>

(* communicate returns at end of file on the pipes, which every process of *)
(* the group holds open.                                                   *)
Reap(n) ==
    /\ stage[n] = "wait"
    /\ Processes(n) = 0
    /\ stage' = [stage EXCEPT ![n] = "read"]
    /\ UNCHANGED <<suite, infos, caller, result, maintained, child>>

BugKillMain(n) ==
    /\ stage[n] = "wait"
    /\ child' = [child EXCEPT ![n].main = "dead"]
    /\ Fail(n)
    /\ UNCHANGED <<suite, infos, caller, maintained>>

BugWaitsForPipes(n) ==
    /\ stage[n] = "wait"
    /\ child' = [child EXCEPT ![n].main = "dead"]
    /\ UNCHANGED <<suite, infos, caller, stage, result, maintained>>

(* 600 seconds are over: the whole group is killed.                        *)
TimeOut(n) ==
    /\ stage[n] = "wait"
    /\ child' = [child EXCEPT ![n].main = "dead", ![n].workers = 0]
    /\ Fail(n)
    /\ UNCHANGED <<suite, infos, caller, maintained>>

(* A payload that is missing, cut off or an error is a failed run; the     *)
(* exit code is not looked at.                                             *)
ReadPayload(n) ==
    /\ stage[n] = "read"
    /\ stage' = [stage EXCEPT ![n] = "idle"]
    /\ result' = [result EXCEPT ![n] = IF child[n].payload = "issues" THEN "ok" ELSE "failed"]
    /\ UNCHANGED <<suite, infos, caller, maintained, child>>

RunStep(n) ==
    \/ Begin(n) \/ Spawn(n) \/ SpawnFails(n)
    \/ Reap(n) \/ TimeOut(n) \/ ReadPayload(n)
MaintenanceStep(t) == SkipMaintenance(t) \/ StartMaintenance(t) \/ EndMaintenance(t)

----------------------------------------------------------------------------
(* The child.  Upstream's pool obeys MD_MAX_WORKERS, and keeps to the same *)
(* budget without it.                                                      *)
ChildStep(n, now) ==
    /\ n \in Alive
    /\ child' = [child EXCEPT ![n] = now]
    /\ UNCHANGED <<suite, infos, caller, stage, result, maintained>>

Fork(n) ==
    /\ child[n].main = "working" /\ child[n].workers = 0
    /\ ChildStep(n, [child[n] EXCEPT !.workers = IF child[n].cap > 0 THEN child[n].cap ELSE Budget])

Join(n) ==
    /\ child[n].main = "working" /\ child[n].workers > 0
    /\ ChildStep(n, [child[n] EXCEPT !.workers = 0])

(* _collect: run_all_validations returns or calls sys.exit, or raises.     *)
Collect(n) ==
    /\ child[n].main = "working"
    /\ \E how \in {"ended", "raised"} :
         ChildStep(n, [child[n] EXCEPT !.main = "reporting", !.run = how])

(* json.dump writes as it goes.                                            *)
WritePart(n) ==
    /\ child[n].main = "reporting" /\ child[n].payload = "none"
    /\ ChildStep(n, [child[n] EXCEPT !.payload = "partial"])

BugReportsEmpty(n) ==
    /\ child[n].main = "reporting" /\ child[n].payload = "partial"
    /\ ChildStep(n, [child[n] EXCEPT !.main = "exiting", !.payload = "issues"])

WriteRest(n) ==
    /\ child[n].main = "reporting" /\ child[n].payload = "partial"
    /\ ChildStep(n, [child[n] EXCEPT
         !.main = "exiting",
         !.payload = IF child[n].run = "raised" THEN "error" ELSE "issues"])

(* A normal exit ends the pool; a crash, a kill or a full disk does not.   *)
Exit(n) ==
    /\ child[n].main = "exiting"
    /\ ChildStep(n, [child[n] EXCEPT !.main = "dead", !.workers = 0])

Die(n) == ChildStep(n, [child[n] EXCEPT !.main = "dead"])

OrphansEnd(n) ==
    /\ child[n].main = "dead" /\ child[n].workers > 0
    /\ child' = [child EXCEPT ![n].workers = 0]
    /\ UNCHANGED <<suite, infos, caller, stage, result, maintained>>

Child(n) ==
    \/ Fork(n) \/ Join(n) \/ Collect(n) \/ WritePart(n) \/ WriteRest(n)
    \/ Exit(n) \/ Die(n) \/ OrphansEnd(n)

(* The mod team adds a validator.                                          *)
SuiteGrows ==
    /\ \E n \in Names \ suite : suite' = suite \cup {n}
    /\ UNCHANGED <<infos, caller, stage, result, maintained, child>>

Next ==
    \/ RunMany \/ Return \/ SuiteGrows
    \/ \E n \in Names : RunOne(n) \/ RunStep(n) \/ Child(n)
    \/ \E t \in Threads : MaintenanceStep(t)

Spec == Init /\ [][Next]_vars

(* The runner's threads go on and time passes; a child may hang.           *)
FairSpec ==
    /\ Spec
    /\ WF_vars(Return)
    /\ \A n \in Names : WF_vars(RunStep(n))
    /\ \A t \in Threads : WF_vars(MaintenanceStep(t))
----------------------------------------------------------------------------
(* "Failures are loud" (docs/validators.md): however a child ends, and     *)
(* whatever it left behind, a run counts as ok only if this run's          *)
(* validations were carried out (or ended themselves with sys.exit).       *)
FailuresAreLoud ==
    \A n \in Names : result[n] = "ok" => child[n].run = "ended"

(* A single run, from lint or of one validator, is never held to a budget  *)
(* an earlier run-all call set on the same worker thread.                  *)
SingleRunsAreUncapped ==
    call.kind = "one" => \A n \in Names : Processes(n) > 0 => child[n].cap = 0

(* "The combined pool stays within that budget" (docs/validators.md): all  *)
(* the processes of all the runs together, orphans of earlier ones too;    *)
(* and the budget of a run-all call ends with it.                          *)
WithinBudget ==
    /\ Total([n \in Names |-> Processes(n)]) <= Budget
    /\ SingleRunsAreUncapped

(* When a run is over no process of its group is left (run_in_group).      *)
NothingLeftBehind == \A n \in Names : stage[n] # "wait" => Processes(n) = 0

(* No validator reads or writes the disk cache while it is cleared and     *)
(* pruned, and none starts before that was done (_maintain_validator_cache *)
(* "once per root", run_many).                                             *)
MaintenanceAlone ==
    (\E n \in Names : Processes(n) > 0) =>
        /\ NoCache \/ maintained
        /\ \A t \in Threads : stage[t] # "cleaning"

(* Every call returns, even if children hang or leave orphans behind.      *)
CallsReturn == (call.kind # "none") ~> (call.kind = "none")
=============================================================================
