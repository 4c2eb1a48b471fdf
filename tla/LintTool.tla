------------------------------ MODULE LintTool ------------------------------
(***************************************************************************)
(* The lint tool (tools/linting_tools.py, tools/lint_validators.py): it    *)
(* asks git for the files in scope, gives each check the files it looks    *)
(* at, picks validators by the domains those files belong to, and answers  *)
(* with one bounded list of issues.  A check or a validator to a step.     *)
(*                                                                         *)
(* A path is what the routing tells apart: the prefixes it starts with,    *)
(* its extension, and whether it calls an event (`kept'), called one       *)
(* before the edit (`dropped') or never did.  Issues are counted by        *)
(* severity; which of them a list holds is left open.                      *)
(***************************************************************************)
EXTENDS Integers, Sequences, FiniteSets, FiniteSetsExt

CONSTANTS Paths,             \* paths of the mod
          Trees,             \* worktrees: a state for every path
          Requests,          \* arguments of a call
          Available,         \* validators the runner discovers
          Slow,              \* SLOW_VALIDATORS
          RunAllExcluded,    \* IMPLICIT_RUN_ALL_EXCLUDED
          AutoMap,           \* VALIDATOR_AUTO_MAP: prefix -> validators
          Upstream,          \* the mod's own routing: path -> validators
          UpstreamExcluded,  \* validators it keeps out
          WrapperCap,        \* diagnostics an encoding check returns
          UnattributedSample,
          Limits,            \* values of limit; -1 is no cap
          MaxFound           \* bound on what one check or validator finds

Severities == {"info", "warning", "error"}
Rank == [info |-> 0, warning |-> 1, error |-> 2]
AllChecks == <<"common_mistakes", "mod_encoding", "loc_encoding", "changelog">>
Checks == {AllChecks[k] : k \in DOMAIN AllChecks} \cup {"tick_spot_check"}
Modes == {"changed", "staged", "all"}

(* What git status reports for a path; `renamed' is the old name of the    *)
(* path that is `target', and has no entry of its own.                     *)
Status == [modified |-> " M", staged |-> "M ", untracked |-> "??", deleted |-> " D",
           staged_deleted |-> "D ", added_gone |-> "AD", edited_gone |-> "MD", target |-> "R "]
PathStates == DOMAIN Status \cup {"clean", "absent", "renamed"}
Present == {"clean", "modified", "staged", "untracked", "target"}

ASSUME RequestsTyped ==
    /\ Requests \subseteq [mode : STRING, checks : Seq(STRING), omitted : BOOLEAN,
                          validators : SUBSET STRING]
    /\ \A r \in Requests : r.omitted => r.validators = {}
ASSUME TreesTyped == Trees \subseteq [Paths -> PathStates]
ASSUME RoutingTyped == \A p \in Paths : Upstream[p] \subseteq STRING
ASSUME NoSlowDomain == \A prefix \in DOMAIN AutoMap : AutoMap[prefix] \cap Slow = {}
ASSUME BoundsTyped ==
    /\ {WrapperCap, UnattributedSample, MaxFound} \subseteq Nat
    /\ Limits \subseteq Int

VARIABLES pc,
          request,    \* mode, checks, validators; omitted: none were named
          tree,       \* what git knows
          disk,       \* paths that exist
          relevant,   \* files in scope; all: no filter
          removed,    \* paths that went away
          present,    \* those in scope that exist
          todo,       \* checks to run
          names,      \* validators to run
          context,    \* _equipment_variant_context_changed
          entries,    \* per_check: an entry per check and validator
          issues,     \* all_issues, by severity
          omitted,    \* omitted_by_severity
          answer,
          found,      \* what the tools that ran found, by severity
          ended,      \* checks that ran -> whether they came to their end
          scans       \* validators that ran -> the part of the mod they scanned

vars == <<pc, request, tree, disk, relevant, removed, present, todo, names,
          context, entries, issues, omitted, answer, found, ended, scans>>
inputs == <<request, tree>>
scope == <<relevant, removed, present>>
tallies == <<entries, issues, omitted, found, ended, scans>>

Nothing == [s \in Severities |-> 0]
Only(s, n) == [Nothing EXCEPT ![s] = n]
Plus(a, b) == [s \in Severities |-> a[s] + b[s]]
FromFloor(a, floor) ==
    LET Part(s) == IF Rank[s] >= Rank[floor] THEN a[s] ELSE 0
    IN  Part("info") + Part("warning") + Part("error")
Total(a) == FromFloor(a, "info")
CountsUpTo(n) == {a \in [Severities -> 0..n] : Total(a) <= n}

Starts(p, prefixes) == p.under \cap prefixes # {}
IsScript(p) == p.ext = "txt" /\ Starts(p, {"common/", "events/", "history/", "music/"})
IsVariant(p) == p.ext = "txt" /\ Starts(p, {"common/", "events/", "history/"})
IsContext(p) == Starts(p, {"common/technologies/", "common/technology_tags/",
                           "common/bookmarks/", "history/countries/",
                           "common/decisions/categories/", "common/national_focus/", "events/"})

NoAnswer == [kind |-> "none", ok |-> FALSE, counts |-> Nothing, total |-> 0,
             truncated |-> FALSE, returned |-> 0, floor |-> "info"]
Tools == Checks \cup Available \cup {"setup", "style"} \cup UNION {r.validators : r \in Requests}

(* A validator's entry is labelled as one: it may have a check's name.     *)
Checked(check, ok, total) == [kind |-> "check", name |-> check, ok |-> ok, total |-> total]
Validated(n, ok, total) == [kind |-> "validator", name |-> n, ok |-> ok, total |-> total]

TypeOK ==
    /\ pc \in {"scope", "filter", "setup", "check", "context", "validate", "answer", "done"}
    /\ request \in Requests /\ tree \in Trees
    /\ {disk, removed, present, relevant.files} \subseteq SUBSET Paths
    /\ relevant.all \in BOOLEAN /\ context \in BOOLEAN
    /\ todo \in Seq(Checks)
    /\ names \subseteq Available
    /\ entries \subseteq [kind : {"check", "validator"}, name : Tools, ok : BOOLEAN, total : Nat]
    /\ {issues, omitted, found} \subseteq [Severities -> Nat]
    /\ DOMAIN ended \subseteq Checks /\ DOMAIN scans \subseteq Available
    /\ answer \in [kind : {"none", "error", "full", "counts", "dropped", "fallback"},
                   ok : BOOLEAN, counts : [Severities -> Nat], total : Nat,
                   truncated : BOOLEAN, returned : Nat, floor : Severities]

Init ==
    /\ pc = "scope"
    /\ request \in Requests
    /\ tree \in Trees
    /\ disk = {p \in Paths : tree[p] \in Present}
    /\ relevant = [all |-> FALSE, files |-> {}] /\ removed = {} /\ present = {}
    /\ todo = <<>> /\ names = {} /\ context = FALSE
    /\ entries = {} /\ ended = <<>> /\ scans = <<>>
    /\ issues = Nothing /\ omitted = Nothing /\ found = Nothing
    /\ answer = NoAnswer

----------------------------------------------------------------------------
(* _changed_files and the paths it appends to `removed'; _staged_files,    *)
(* which lists deletions and both ends of a rename.                        *)
Removes(p) == tree[p] \in DOMAIN Status /\ Status[tree[p]] \in {" D", "D "}
ChangedFiles == {p \in Paths : tree[p] \in DOMAIN Status /\ ~Removes(p)}
RemovedPaths == {p \in Paths : Removes(p) \/ tree[p] = "renamed"}
StagedFiles == {p \in Paths : tree[p] \in {"staged", "staged_deleted", "added_gone",
                                           "edited_gone", "renamed", "target"}}

(* The checks of a call: those it names, or all but the spot check.        *)
Chosen == IF request.checks = <<>> THEN AllChecks ELSE request.checks

(* An unknown mode or check, a file outside the mod, or git fails.         *)
Refuse ==
    /\ pc = "scope"
    /\ \/ request.mode \notin Modes \cup {"files"}
       \/ \E k \in DOMAIN request.checks : request.checks[k] \notin Checks
       \/ request.mode \in {"files", "changed", "staged"}
    /\ pc' = "done"
    /\ answer' = [NoAnswer EXCEPT !.kind = "error"]
    /\ UNCHANGED <<inputs, disk, scope, todo, names, context, tallies>>

Scope ==
    /\ pc = "scope"
    /\ \A k \in DOMAIN request.checks : request.checks[k] \in Checks
    /\ \/ /\ request.mode = "all"
          /\ relevant' = [all |-> TRUE, files |-> {}]
          /\ UNCHANGED removed
       \/ /\ request.mode = "changed"
          /\ relevant' = [all |-> FALSE, files |-> ChangedFiles]
          /\ removed' = RemovedPaths
       \/ /\ request.mode = "staged"
          /\ relevant' = [all |-> FALSE, files |-> StagedFiles]
          /\ UNCHANGED removed
       \/ /\ request.mode = "files"
          /\ \E files \in SUBSET Paths : relevant' = [all |-> FALSE, files |-> files]
          /\ UNCHANGED removed
    /\ todo' = Chosen
    /\ pc' = "filter"
    /\ UNCHANGED <<inputs, disk, present, names, context, tallies, answer>>

(* The editor deletes a file in scope between git's answer and the look at *)
(* it.                                                                     *)
Vanish ==
    /\ pc = "filter"
    /\ \E p \in relevant.files \cap disk : disk' = disk \ {p}
    /\ UNCHANGED <<pc, inputs, scope, todo, names, context, tallies, answer>>

Filter ==
    /\ pc = "filter"
    /\ present' = IF request.mode \in {"changed", "staged"}
                  THEN relevant.files \cap disk ELSE relevant.files
    /\ pc' = "setup"
    /\ UNCHANGED <<inputs, disk, relevant, removed, todo, names, context, tallies, answer>>

ScriptFiles == {p \in present : IsScript(p)}
RemovedVariants == {p \in removed : IsVariant(p)}

----------------------------------------------------------------------------
AutoExcluded == {"common_mistakes"} \cup RunAllExcluded

(* _validators_for_path.                                                   *)
ValidatorsForPath(p) ==
    LET loc == p.ext = "yml" /\ Starts(p, {"localisation/"}) IN
    IF loc /\ ~Starts(p, {"localisation/english/"}) THEN {}
    ELSE UNION {AutoMap[x] : x \in p.under \cap DOMAIN AutoMap}
         \cup (IF loc THEN {"localisation"} ELSE {})
         \cup (IF p.ext = "gfx" /\ Starts(p, {"interface/"}) THEN {"decisions"} ELSE {})
         \cup (IF IsScript(p) THEN {"style"} ELSE {})
         \cup (IF IsVariant(p) THEN {"equipment_variants"} ELSE {})

(* select_validators: the mod's routing, or the local map when its modules *)
(* are absent or, for a list of files, have drifted.                       *)
Selected(routing) ==
    LET upstreamNames == (UNION {Upstream[p] : p \in relevant.files}) \ UpstreamExcluded
        localNames == UNION {ValidatorsForPath(p) : p \in relevant.files}
        excluded == AutoExcluded \cup (IF routing = "absent" THEN {} ELSE UpstreamExcluded)
    IN  IF relevant.all THEN (Available \ Slow) \ excluded
        ELSE IF routing = "works" THEN ((upstreamNames \ Slow) \ excluded) \cap Available
        ELSE (localNames \ AutoExcluded) \cap Available

Asked ==
    IF ~request.omitted THEN request.validators
    ELSE IF relevant.all \/ ScriptFiles # {} THEN {"style"} ELSE {}

(* Names and `*', before the unknown ones are reported.                    *)
Expanded ==
    (Asked \ {"*", "auto"})
    \cup (IF "*" \in Asked THEN (Available \ Slow) \ RunAllExcluded ELSE {})

Known(ns) == ns \cap Available

Failing(ns) == {Validated(n, FALSE, 0) : n \in ns}

(* Unknown validators and a suite that cannot be listed are failed         *)
(* entries of the answer, not the end of the call.                         *)
SetUp ==
    /\ pc = "setup"
    /\ pc' = "check"
    /\ \/ /\ \E routing \in {"absent", "drifted", "works"} :
               names' = Known(Expanded)
                        \cup (IF "auto" \in Asked THEN Selected(routing) ELSE {})
                        \cup (IF "auto" \in Asked /\ RemovedVariants # {}
                              THEN {"equipment_variants"} \cap Available ELSE {})
          /\ entries' = Failing(Expanded \ Available)
       \/ /\ Asked # {}
          /\ names' = {}
          /\ entries' = Failing({IF request.omitted THEN "style" ELSE "setup"})
    /\ UNCHANGED <<inputs, disk, scope, todo, context, issues, omitted, answer, found, ended, scans>>

----------------------------------------------------------------------------
Covers(check, p) ==
    CASE check = "common_mistakes" -> IsScript(p)
      [] check = "mod_encoding" -> p.ext = "mod"
      [] check = "loc_encoding" -> p.ext = "yml" /\ Starts(p, {"localisation/english/"})
      [] check = "changelog" -> Starts(p, {"Changelog.txt"})
      [] check = "tick_spot_check" -> p.ext = "txt"

(* Without a filter the scripts look for files themselves; the spot check  *)
(* never does.  The changelog's check looks for the file again, and passes *)
(* as skipped when it is not there.                                        *)
InScope(check) ==
    /\ check = "changelog" => \E p \in disk : Covers(check, p)
    /\ IF ~relevant.all THEN \E p \in present : Covers(check, p)
       ELSE CASE check = "mod_encoding" -> \E p \in disk : Covers(check, p)
              [] check = "tick_spot_check" -> FALSE
              [] OTHER -> TRUE

(* How a tool can end: it is missing or times out, or it completes, or     *)
(* crashes with a traceback, or exits with another code; in-process ones   *)
(* have no exit code.                                                      *)
Ends(check) ==
    {"no process", "completed"} \cup
    (IF check \in {"changelog", "tick_spot_check"} THEN {}
     ELSE {"traceback", "exit 1", "exit 2"})

Reports(check) ==
    CASE check = "tick_spot_check" -> CountsUpTo(MaxFound)
      [] check \in {"common_mistakes", "changelog"} -> {Only("warning", n) : n \in 0..MaxFound}
      [] OTHER -> {Only("error", n) : n \in 0..MaxFound}

(* What of a report reaches the dispatcher: a page, a capped list, nothing *)
(* when it exceeds the byte budget, or all of it.                          *)
Shown(check, report) ==
    CASE check = "tick_spot_check" ->
            {a \in CountsUpTo(MaxFound) : \A s \in Severities : a[s] <= report[s]}
      [] check \in {"common_mistakes", "changelog"} -> {report}
      [] OTHER -> {Nothing, Only("error", Min({WrapperCap, report["error"]}))}

(* _completed_process_failure: exit code 1 stands for issues only if there *)
(* are some and the script did not crash.                                  *)
BugCompleted(end, report) == end = "completed" \/ (end \in {"exit 1", "traceback"} /\ Total(report) > 0)
Completed(end, report) == end = "completed" \/ (end = "exit 1" /\ Total(report) > 0)

(* What the caps hid, by severity.                                         *)
BugOmitted(check, report, shown) ==
    IF check = "tick_spot_check" THEN Nothing
    ELSE Only(IF check = "common_mistakes" THEN "warning" ELSE "error", Total(report) - Total(shown))
Omitted(check, report, shown) ==
    IF check = "tick_spot_check" THEN [s \in Severities |-> report[s] - shown[s]]
    ELSE Only(IF check = "common_mistakes" THEN "warning" ELSE "error", Total(report) - Total(shown))

With(f, t, v) == [u \in DOMAIN f \cup {t} |-> IF u = t THEN v ELSE f[u]]

RunCheck ==
    LET check == Head(todo) IN
    /\ pc = "check" /\ todo # <<>>
    /\ todo' = Tail(todo)
    /\ \/ /\ ~InScope(check)
          /\ entries' = entries \cup {Checked(check, TRUE, 0)}
          /\ UNCHANGED <<issues, omitted, found, ended>>
       \/ /\ InScope(check)
          /\ \E end \in Ends(check), report \in Reports(check) :
               /\ ended' = With(ended, check, end \in {"completed", "exit 1"})
               /\ IF Completed(end, report)
                  THEN /\ entries' = entries \cup {Checked(check, TRUE, Total(report))}
                       /\ found' = Plus(found, report)
                       /\ \E shown \in Shown(check, report) :
                            /\ issues' = Plus(issues, shown)
                            /\ omitted' = Plus(omitted, Omitted(check, report, shown))
                  ELSE /\ entries' = entries \cup {Checked(check, FALSE, 0)}
                       /\ UNCHANGED <<issues, omitted, found>>
    /\ UNCHANGED <<pc, inputs, disk, scope, names, context, answer, scans>>

ChecksRan ==
    /\ pc = "check" /\ todo = <<>>
    /\ pc' = IF names = {} THEN "answer" ELSE "context"
    /\ UNCHANGED <<inputs, disk, scope, todo, names, context, tallies, answer>>

----------------------------------------------------------------------------
(* validator_relevant_set.                                                 *)
Wanted == relevant.files \cup RemovedVariants

(* A context path; or a script that calls an event now, or did in HEAD, if *)
(* git answers.                                                            *)
InHead(p) == tree[p] \notin {"untracked", "added_gone", "target", "absent"}
CallsEvent(p) == p \in disk /\ (p.event = "kept" \/ (p.event = "dropped" /\ tree[p] = "clean"))
LostCall(p) == InHead(p) /\ p.event # "none" /\ ~CallsEvent(p)
Affects(p, gitAnswers) ==
    IsVariant(p) /\ (IsContext(p) \/ CallsEvent(p) \/ (gitAnswers /\ LostCall(p)))

Context ==
    /\ pc = "context"
    /\ pc' = "validate"
    /\ \E gitAnswers \in BOOLEAN :
         context' = /\ ~relevant.all /\ "equipment_variants" \in names
                    /\ \E p \in Wanted : Affects(p, gitAnswers)
    /\ UNCHANGED <<inputs, disk, scope, todo, names, tallies, answer>>

(* run_validators_for_lint, one validator.  Issues on scope count; those   *)
(* elsewhere count as related ones for a changed context; of those without *)
(* a file a sample does.                                                   *)
FullScan(n) == relevant.all \/ (n = "equipment_variants" /\ context)

Counted(n, on, elsewhere, nowhere) ==
    on + (IF n = "equipment_variants" /\ context THEN elsewhere ELSE 0)
       + Min({nowhere, UnattributedSample})

Validate ==
    /\ pc = "validate"
    /\ \E n \in names :
         /\ names' = names \ {n}
         /\ \/ /\ entries' = entries \cup Failing({n})
               /\ UNCHANGED <<issues, found, scans>>
            \/ \E on, elsewhere, nowhere \in 0..MaxFound :
                 /\ on + elsewhere + nowhere <= MaxFound
                 /\ relevant.all => elsewhere + nowhere = 0
                 /\ LET report == Only("warning", Counted(n, on, elsewhere, nowhere)) IN
                    /\ issues' = Plus(issues, report)
                    /\ found' = Plus(found, report)
                 /\ entries' = entries \cup {Validated(n, TRUE, on)}
                 /\ scans' = With(scans, n, IF FullScan(n) THEN "full" ELSE "scope")
    /\ UNCHANGED <<pc, inputs, disk, scope, todo, context, omitted, answer, ended>>

ValidatorsRan ==
    /\ pc = "validate" /\ names = {}
    /\ pc' = "answer"
    /\ UNCHANGED <<inputs, disk, scope, todo, names, context, tallies, answer>>

(* The answer: whole, without issues, with the prefix that fits, without   *)
(* the list, or, when even that is too large, a failure.                   *)
Report(floor, limit) ==
    LET counts == Plus(issues, omitted)
        filtered == FromFloor(issues, floor)
        kept == IF limit >= 0 THEN Min({limit, filtered}) ELSE filtered
        total == Max({filtered, FromFloor(counts, floor)})
    IN  [kind |-> "full", ok |-> \A e \in entries : e.ok, counts |-> counts,
         total |-> total, truncated |-> total > kept, returned |-> kept, floor |-> floor]

Answer ==
    /\ pc = "answer"
    /\ pc' = "done"
    /\ \E floor \in Severities, limit \in Limits :
         LET full == Report(floor, limit) IN
         answer' \in
           {full,
            [full EXCEPT !.kind = "counts", !.returned = 0],
            [full EXCEPT !.kind = "dropped", !.truncated = TRUE, !.returned = 0],
            [NoAnswer EXCEPT !.kind = "fallback"]}
           \cup {[full EXCEPT !.truncated = TRUE, !.returned = n] : n \in 0..full.returned - 1}
    /\ UNCHANGED <<inputs, disk, scope, todo, names, context, tallies>>

Next ==
    \/ Refuse \/ Scope \/ Vanish \/ Filter \/ SetUp \/ RunCheck \/ ChecksRan
    \/ Context \/ Validate \/ ValidatorsRan \/ Answer

Spec == Init /\ [][Next]_vars
----------------------------------------------------------------------------
(* Overall counts "include findings hidden by a check wrapper's own cap or *)
(* byte-budget drop", and `truncated' "flags omitted details": however a   *)
(* page, a cap, a floor and a budget combine, the counts are everything    *)
(* the tools found, and an answer that does not say so leaves nothing out. *)
NothingHidden ==
    answer.kind \in {"full", "counts", "dropped"} =>
        /\ answer.counts = found
        /\ answer.total = FromFloor(found, answer.floor)
        /\ answer.kind = "full" /\ ~answer.truncated =>
              answer.returned = FromFloor(found, answer.floor)

InWorktree(p) ==
    \/ request.mode = "changed" /\ tree[p] \in {"modified", "staged", "untracked", "target"}
    \/ request.mode = "staged" /\ tree[p] \in {"staged", "target"}

(* "Deleted context files and rename sources also count in changed and     *)
(* staged modes": a context file that left the worktree widens the scan of *)
(* equipment_variants to the whole mod, whatever the routing, and makes    *)
(* the automatic choice in changed mode pick that validator, if the mod    *)
(* has it.                                                                 *)
DeletedContextCounts ==
    \A p \in Paths :
        /\ pc = "answer"
        /\ IsVariant(p) /\ IsContext(p)
        /\ \/ request.mode = "changed" /\ tree[p] \in {"deleted", "staged_deleted", "renamed"}
           \/ request.mode = "staged" /\ tree[p] \in {"staged_deleted", "renamed"}
        => /\ "equipment_variants" \in DOMAIN scans => scans["equipment_variants"] = "full"
           /\ /\ request.mode = "changed" /\ "auto" \in request.validators
              /\ "equipment_variants" \in Available
              => \E e \in entries : e.kind = "validator" /\ e.name \in {"equipment_variants", "setup"}

(* A tool that crashed, was missing or never ran does not pass for clean:  *)
(* behind an ok answer every check that was asked for, or is run without   *)
(* asking, and has a changed file that is still there, ran to its end, and *)
(* so did every validator that was named, or `style' by default; and no    *)
(* answer overlooks a deleted context file.                                *)
OkMeansChecked ==
    /\ DeletedContextCounts
    /\ answer.ok =>
        /\ \A check \in DOMAIN ended : ended[check]
        /\ \A k \in DOMAIN Chosen : \A p \in disk :
              InWorktree(p) /\ Covers(Chosen[k], p) => Chosen[k] \in DOMAIN ended
        /\ request.validators \ {"*", "auto"} \subseteq DOMAIN scans
        /\ \A p \in disk :
              request.omitted /\ InWorktree(p) /\ IsScript(p) => "style" \in DOMAIN scans
=============================================================================
