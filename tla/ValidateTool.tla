---------------------------- MODULE ValidateTool ----------------------------
(***************************************************************************)
(* The validate tool (tools/validation_tools.py): it runs one validator or *)
(* all the fast ones, compares what they report with a baseline if asked   *)
(* to (analysis/issue_delta.py), folds and caps, and answers within a byte *)
(* budget (util/response.py).  One call, a loop iteration to a step.       *)
(*                                                                         *)
(* An issue is its severity, its line (0: none) and `what', which stands   *)
(* for category, file and message; Unplaced ones lack one of them once     *)
(* attributed.  An option is chosen at the step that reads it.             *)
(***************************************************************************)
EXTENDS Integers, Sequences, FiniteSets, FiniteSetsExt, Totals

CONSTANTS Targets,    \* sequence of the validators that exist and are fast
          Issues,     \* issues a validator may report
          Unplaced,   \* values of `what' with no category, file or message
          Baselines,  \* multisets of keys a snapshot may hold
          Limits,     \* values of limit; -1 is no cap
          MaxIssues   \* bound on the issues of one call

Severities == {"error", "warning", "info"}
Rank == [info |-> 0, warning |-> 1, error |-> 2]
Whats == {i.what : i \in Issues}
Issue == [severity : Severities, line : Nat, what : Whats]
Keys == {"located", "line0"} \X Severities \X Whats

ASSUME IssuesTyped == Issues \subseteq Issue /\ Unplaced \subseteq Whats
ASSUME BaselinesTyped == Baselines \subseteq [Keys -> Nat]
ASSUME TargetsTyped ==
    /\ Targets \in Seq(STRING)
    /\ \A j, k \in DOMAIN Targets : Targets[j] = Targets[k] => j = k
ASSUME LimitsTyped == Limits \subseteq Int /\ MaxIssues \in Nat

Names == {Targets[k] : k \in DOMAIN Targets}

VARIABLES pc,
          request,       \* single, delta, and the validators asked for
          working,       \* validators whose run succeeds
          todo,          \* validators still to run
          records,       \* issue_records: issues with the validator that ran
          entries,       \* per_validator: name -> ok and counts
          overall,       \* counts of the answer
          prepared,      \* keys of the prepared baseline
          unmatched,     \* _classify's copy of them
          current,       \* issues after dedupe
          next,          \* loop index
          aggregated,    \* issues to answer with
          unclassified,
          answer

vars == <<pc, request, working, todo, records, entries, overall, prepared, unmatched,
          current, next, aggregated, unclassified, answer>>
runs == <<request, working, todo, records, entries, overall>>
comparison == <<prepared, unmatched, current, next, aggregated, unclassified>>

Occurrences(seq, P(_)) == Cardinality({k \in DOMAIN seq : P(seq[k])})

(* count_severities.                                                       *)
Count(seq) == [s \in Severities |-> Occurrences(seq, LAMBDA i : i.severity = s)]
Nothing == [s \in Severities |-> 0]
Plus(c, d) == [s \in Severities |-> c[s] + d[s]]

NoEntry == [ok |-> TRUE, counts |-> Nothing]
NoAnswer == [kind |-> "none", ok |-> FALSE, floor |-> "info", total |-> 0,
             truncated |-> FALSE, returned |-> 0]
Refused == [NoAnswer EXCEPT !.kind = "error"]

TypeOK ==
    /\ pc \in {"prepare", "run", "dedupe", "classify", "own", "strict", "cap", "done"}
    /\ request \in [single : BOOLEAN, delta : BOOLEAN, asked : SUBSET Names]
    /\ working \subseteq Names
    /\ todo \in Seq(Names)
    /\ records \in Seq([issue : Issue, by : Names])
    /\ entries \in [Names -> [ok : BOOLEAN, counts : [Severities -> Nat]]]
    /\ overall \in [Severities -> Nat]
    /\ {prepared, unmatched} \subseteq [Keys -> Nat]
    /\ {current, aggregated} \subseteq Seq(Issue)
    /\ next \in Nat \ {0}
    /\ unclassified \in Nat
    /\ answer \in [kind : {"none", "error", "full", "counts", "dropped", "fallback"},
                   ok : BOOLEAN, floor : Severities, total : Nat,
                   truncated : BOOLEAN, returned : Nat]

NoKeys == [k \in Keys |-> 0]

Init ==
    /\ pc = "prepare"
    /\ \/ \E n \in Names : todo = <<n>>
       \/ todo = Targets
    /\ \E single, delta \in BOOLEAN :
         /\ single => Len(todo) = 1
         /\ ~single => todo = Targets
         /\ request = [single |-> single, delta |-> delta,
                       asked |-> {todo[k] : k \in DOMAIN todo}]
    /\ working \in SUBSET Names
    /\ records = <<>> /\ current = <<>> /\ aggregated = <<>>
    /\ entries = [n \in Names |-> NoEntry]
    /\ overall = Nothing
    /\ prepared = NoKeys /\ unmatched = NoKeys
    /\ next = 1
    /\ unclassified = 0
    /\ answer = NoAnswer

----------------------------------------------------------------------------
(* prepare_baseline, before anything runs.                                 *)
Prepare ==
    /\ pc = "prepare"
    /\ pc' = "run"
    /\ IF request.delta THEN prepared' \in Baselines ELSE UNCHANGED prepared
    /\ UNCHANGED <<runs, unmatched, current, next, aggregated, unclassified, answer>>

(* The snapshot is missing or unreadable; or a record cannot be compared.  *)
Refuse ==
    /\ request.delta
    /\ pc = "prepare" \/ (pc = "dedupe" /\ next = 1)
    /\ pc' = "done"
    /\ answer' = Refused
    /\ UNCHANGED <<runs, comparison>>

(* One validator reports.                                                  *)
Reported(found) ==
    LET n == Head(todo) IN
    /\ pc = "run" /\ todo # <<>>
    /\ todo' = Tail(todo)
    /\ records' = records \o [k \in 1..Len(found) |-> [issue |-> found[k], by |-> n]]
    /\ entries' = [entries EXCEPT ![n] = [ok |-> TRUE, counts |-> Count(found)]]
    /\ overall' = Plus(overall, Count(found))
    /\ aggregated' = aggregated \o found
    /\ UNCHANGED <<pc, request, working, prepared, unmatched, current, next, unclassified, answer>>

Run ==
    /\ todo # <<>> /\ Head(todo) \in working
    /\ \E size \in 0..MaxIssues - Len(records) :
          \E found \in [1..size -> Issues] : Reported(found)

BugFailureIsEmpty ==
    /\ todo # <<>> /\ Head(todo) \notin working
    /\ Reported(<<>>)

(* A failed run: the answer to a single one, else an entry without counts. *)
Failed ==
    /\ pc = "run" /\ todo # <<>> /\ Head(todo) \notin working
    /\ entries' = [entries EXCEPT ![Head(todo)].ok = FALSE]
    /\ todo' = Tail(todo)
    /\ IF request.single
       THEN pc' = "done" /\ answer' = Refused
       ELSE UNCHANGED <<pc, answer>>
    /\ UNCHANGED <<request, working, records, overall, comparison>>

AllRan ==
    /\ pc = "run" /\ todo = <<>>
    /\ pc' = IF request.delta THEN "dedupe" ELSE "strict"
    /\ UNCHANGED <<runs, comparison, answer>>

----------------------------------------------------------------------------
SameIssue(i, j) == i.what = j.what /\ i.line = j.line

(* _delta_key; the kept severity is part of it.                            *)
Placed(i) == i.what \notin Unplaced
DeltaKey(i) == <<IF i.line > 0 THEN "located" ELSE "line0", i.severity, i.what>>

(* Upstream's dedupe: the first of equal issues stays, a warning becomes   *)
(* an error if another one says so.                                        *)
Escalated(kept, i) ==
    IF SameIssue(kept, i) /\ kept.severity = "warning" /\ i.severity = "error"
    THEN [kept EXCEPT !.severity = "error"]
    ELSE kept

Dedupe ==
    /\ pc = "dedupe" /\ next <= Len(records)
    /\ LET i == records[next].issue IN
       current' = IF \E k \in DOMAIN current : SameIssue(current[k], i)
                  THEN [k \in DOMAIN current |-> Escalated(current[k], i)]
                  ELSE Append(current, i)
    /\ next' = next + 1
    /\ UNCHANGED <<pc, runs, prepared, unmatched, aggregated, unclassified, answer>>

StartClassify ==
    /\ pc = "dedupe" /\ next > Len(records)
    /\ pc' = "classify"
    /\ unmatched' = prepared
    /\ aggregated' = <<>>
    /\ next' = 1
    /\ UNCHANGED <<runs, prepared, current, unclassified, answer>>

BugMatchesForEver ==
    /\ pc = "classify" /\ next <= Len(current)
    /\ LET i == current[next] IN
       \/ /\ ~Placed(i)
          /\ unclassified' = unclassified + 1
          /\ UNCHANGED <<unmatched, aggregated>>
       \/ /\ Placed(i) /\ unmatched[DeltaKey(i)] > 0
          /\ UNCHANGED <<unmatched, aggregated, unclassified>>
       \/ /\ Placed(i) /\ unmatched[DeltaKey(i)] = 0
          /\ aggregated' = Append(aggregated, i)
          /\ UNCHANGED <<unmatched, unclassified>>
    /\ next' = next + 1
    /\ UNCHANGED <<pc, runs, prepared, current, answer>>

(* _classify: each occurrence in the baseline excuses one occurrence now.  *)
Classify ==
    /\ pc = "classify" /\ next <= Len(current)
    /\ LET i == current[next] IN
       \/ /\ ~Placed(i)
          /\ unclassified' = unclassified + 1
          /\ UNCHANGED <<unmatched, aggregated>>
       \/ /\ Placed(i) /\ unmatched[DeltaKey(i)] > 0
          /\ unmatched' = [unmatched EXCEPT ![DeltaKey(i)] = unmatched[DeltaKey(i)] - 1]
          /\ UNCHANGED <<aggregated, unclassified>>
       \/ /\ Placed(i) /\ unmatched[DeltaKey(i)] = 0
          /\ aggregated' = Append(aggregated, i)
          /\ UNCHANGED <<unmatched, unclassified>>
    /\ next' = next + 1
    /\ UNCHANGED <<pc, runs, prepared, current, answer>>

EndClassify ==
    /\ pc = "classify" /\ next > Len(current)
    /\ pc' = "own"
    /\ UNCHANGED <<runs, comparison, answer>>

(* _owner: the first to report the severity that was kept.                 *)
Owner(i) ==
    LET same == {k \in DOMAIN records : SameIssue(records[k].issue, i)}
        agreed == {k \in same : records[k].issue.severity = i.severity}
    IN  records[Min(IF agreed # {} THEN agreed ELSE same)].by

Reporters(i) == {records[k].by : k \in {j \in DOMAIN records : SameIssue(records[j].issue, i)}}

Charge(Charged(_, _)) ==
    /\ pc = "own"
    /\ pc' = "strict"
    /\ overall' = Count(aggregated)
    /\ entries' = [n \in Names |->
         IF entries[n].ok
         THEN [ok |-> TRUE,
               counts |-> [s \in Severities |->
                  Occurrences(aggregated, LAMBDA i : i.severity = s /\ Charged(n, i))]]
         ELSE entries[n]]
    /\ UNCHANGED <<request, working, todo, records, comparison, answer>>

BugOwnAll == Charge(LAMBDA n, i : n \in Reporters(i))

Own == Charge(LAMBDA n, i : n = Owner(i))

----------------------------------------------------------------------------
(* _apply_strict, on the total and on every breakdown.                     *)
Fold(c) == [error |-> c.error + c.warning, warning |-> 0, info |-> c.info]

Strict ==
    /\ pc = "strict"
    /\ pc' = "cap"
    /\ \/ UNCHANGED <<overall, entries>>
       \/ /\ overall' = Fold(overall)
          /\ entries' = [n \in Names |-> [entries[n] EXCEPT !.counts = Fold(entries[n].counts)]]
    /\ UNCHANGED <<request, working, todo, records, comparison, answer>>

AllOk == \A n \in Names : entries[n].ok

(* filter_and_cap, then enforce_budget: the answer as it is, without its   *)
(* issues, or, when even that is too large, a failure.  Which issues a     *)
(* capped list holds is left open.                                         *)
Answer ==
    /\ pc = "cap"
    /\ pc' = "done"
    /\ \E floor \in Severities, limit \in Limits :
         LET total == Occurrences(aggregated, LAMBDA i : Rank[i.severity] >= Rank[floor])
             kept == IF limit >= 0 /\ total > limit THEN limit ELSE total
             full == [kind |-> "full", ok |-> AllOk, floor |-> floor, total |-> total,
                      truncated |-> total > kept, returned |-> kept]
         IN  answer' \in
               {full,
                [full EXCEPT !.kind = "counts", !.returned = 0],
                [full EXCEPT !.kind = "dropped", !.returned = 0],
                [NoAnswer EXCEPT !.kind = "fallback"]}
    /\ UNCHANGED <<runs, comparison>>

Next ==
    \/ Prepare \/ Refuse \/ Run \/ Failed \/ AllRan
    \/ Dedupe \/ StartClassify \/ Classify \/ EndClassify \/ Own
    \/ Strict \/ Answer

Spec == Init /\ [][Next]_vars
----------------------------------------------------------------------------
InAll(c) == c.error + c.warning + c.info

(* "One owner per deduped issue keeps the breakdown summing to overall"    *)
(* and the strict fold keeps it so (validate_tool): in every mode the      *)
(* numbers of an answer agree with one another and with its issues.        *)
CountsReconcile ==
    pc = "done" /\ answer.kind \notin {"error", "fallback"} =>
        /\ \A s \in Severities : overall[s] = Total([n \in Names |-> entries[n].counts[s]])
        /\ answer.floor = "info" =>
              /\ answer.total = InAll(overall)
              /\ answer.kind = "full" /\ ~answer.truncated => answer.returned = InAll(overall)

(* _classify: whatever the order of the issues, n occurrences of a key now *)
(* and m in the baseline leave n - m new ones (none if n <= m), and an     *)
(* issue that has no key is counted, neither new nor excused.              *)
DeltaIsDifference ==
    request.delta /\ pc \in {"own", "strict", "cap"} =>
        /\ \A key \in Keys :
              LET now == Occurrences(current, LAMBDA i : Placed(i) /\ DeltaKey(i) = key)
                  new == Occurrences(aggregated, LAMBDA i : DeltaKey(i) = key)
              IN  new = IF now > prepared[key] THEN now - prepared[key] ELSE 0
        /\ unclassified = Occurrences(current, LAMBDA i : ~Placed(i))

(* An ok answer without findings is a clean bill: every validator that was *)
(* asked ran, and what they reported, if anything, is in the baseline.     *)
CleanMeansClean ==
    answer.ok /\ InAll(overall) = 0 /\ unclassified = 0 =>
        /\ request.asked \subseteq working
        /\ \A k \in DOMAIN records :
              /\ request.delta
              /\ \E key \in Keys : key[3] = records[k].issue.what /\ prepared[key] > 0
=============================================================================
