--------------------------- MODULE LintToolProofs ---------------------------
(***************************************************************************)
(* No cap, page, floor or budget on the way to lint's answer hides an      *)
(* issue from its counts, and an ok answer means that what was asked for   *)
(* was checked, for any mod, routing, validators, caps and findings.       *)
(***************************************************************************)
EXTENDS LintTool, TLAPS

Counts == [Severities -> Nat]

(* What the lists still hold and what was left out is what was found.      *)
Balanced == \A s \in Severities : issues[s] + omitted[s] = found[s]

IInv ==
    /\ issues \in Counts /\ omitted \in Counts /\ found \in Counts
    /\ Balanced
    /\ answer.kind \in {"full", "counts", "dropped"} => pc = "done"
    /\ NothingHidden

LEMMA Arithmetic ==
    /\ Nothing \in Counts
    /\ \A s \in Severities, n \in Nat : Only(s, n) \in Counts
    /\ \A a, b \in Counts : Plus(a, b) \in Counts
BY DEF Nothing, Only, Plus, Counts

LEMMA OnlyAt ==
    ASSUME NEW s \in Severities, NEW n \in Nat, NEW t \in Severities
    PROVE  Only(s, n)[t] = IF t = s THEN n ELSE 0
BY DEF Only, Nothing

LEMMA TotalsAreNat ==
    ASSUME NEW a \in Counts, NEW floor \in Severities
    PROVE  FromFloor(a, floor) \in Nat
BY DEF FromFloor, Counts, Severities, Rank

LEMMA TotalsGrow ==
    ASSUME NEW a \in Counts, NEW b \in Counts, NEW floor \in Severities,
           \A s \in Severities : a[s] <= b[s]
    PROVE  FromFloor(a, floor) <= FromFloor(b, floor)
BY DEF FromFloor, Counts, Severities, Rank

LEMMA TotalOfOnly ==
    ASSUME NEW s \in Severities, NEW n \in Nat
    PROVE  Total(Only(s, n)) = n
BY DEF Total, FromFloor, Only, Nothing, Severities, Rank

LEMMA MinOfTwo ==
    ASSUME NEW m \in Nat, NEW n \in Nat
    PROVE  Min({m, n}) \in Nat /\ Min({m, n}) <= m /\ Min({m, n}) <= n
<1>1. \E x \in {m, n} : \A y \in {m, n} : x <= y
    <2>1. CASE m <= n BY <2>1
    <2>2. CASE ~(m <= n) BY <2>2
    <2> QED BY <2>1, <2>2
<1>2. Min({m, n}) \in {m, n} /\ \A y \in {m, n} : Min({m, n}) <= y
  BY <1>1 DEF Min
<1> QED BY <1>2

LEMMA MaxOfTwo ==
    ASSUME NEW m \in Nat, NEW n \in Nat, m <= n
    PROVE  Max({m, n}) = n
<1>1. \A x \in {m, n} : (\A y \in {m, n} : x >= y) => x = n OBVIOUS
<1>2. \E x \in {m, n} : \A y \in {m, n} : x >= y OBVIOUS
<1> QED BY <1>1, <1>2 DEF Max

(* Whatever a check's page or cap shows, `omitted' makes up for the rest.  *)
LEMMA OmittedMakesUp ==
    ASSUME NEW check, NEW report \in Reports(check), NEW shown \in Shown(check, report)
    PROVE  /\ report \in Counts /\ shown \in Counts
           /\ Omitted(check, report, shown) \in Counts
           /\ \A s \in Severities : shown[s] + Omitted(check, report, shown)[s] = report[s]
<1> USE BoundsTyped
<1>1. CASE check = "tick_spot_check"
    <2>1. report \in [Severities -> 0..MaxFound] BY <1>1 DEF Reports, CountsUpTo
    <2>2. shown \in [Severities -> 0..MaxFound] /\ \A s \in Severities : shown[s] <= report[s]
      BY <1>1 DEF Shown, CountsUpTo
    <2>3. Omitted(check, report, shown) = [s \in Severities |-> report[s] - shown[s]]
      BY <1>1 DEF Omitted
    <2> QED BY <2>1, <2>2, <2>3 DEF Counts
<1>2. CASE check \in {"common_mistakes", "changelog"}
    <2>1. PICK n \in 0..MaxFound : report = Only("warning", n) BY <1>2 DEF Reports
    <2>2. shown = report BY <1>2 DEF Shown
    <2>3. report \in Counts BY <2>1, Arithmetic DEF Severities
    <2>4. Total(report) - Total(shown) = 0
      BY <2>2, <2>3, TotalsAreNat DEF Total, Severities
    <2>5. PICK s \in Severities : Omitted(check, report, shown) = Only(s, 0)
      BY <1>2, <2>4 DEF Omitted, Severities
    <2>6. Omitted(check, report, shown) = Nothing BY <2>5 DEF Only, Nothing
    <2> QED BY <2>2, <2>3, <2>6, Arithmetic DEF Nothing, Counts
<1>3. CASE check \notin {"tick_spot_check", "common_mistakes", "changelog"}
    <2>1. PICK n \in 0..MaxFound : report = Only("error", n) BY <1>3 DEF Reports
    <2>2. n \in Nat /\ report["error"] = n /\ Total(report) = n
        <3>1. n \in Nat /\ "error" \in Severities BY BoundsTyped DEF Severities
        <3> QED BY <2>1, <3>1, OnlyAt, TotalOfOnly
    <2>3. PICK m \in Nat : m <= n /\ shown = Only("error", m)
        <3>1. CASE shown = Nothing
            <4>1. Nothing = Only("error", 0) BY DEF Nothing, Only
            <4> QED BY <3>1, <4>1, <2>2
        <3>2. CASE shown = Only("error", Min({WrapperCap, report["error"]}))
          BY <3>2, <2>2, MinOfTwo
        <3> QED BY <1>3, <3>1, <3>2 DEF Shown
    <2>4. Total(shown) = m BY <2>3, TotalOfOnly DEF Severities
    <2>5. Omitted(check, report, shown) = Only("error", n - m)
      BY <1>3, <2>2, <2>4 DEF Omitted
    <2>6. n - m \in Nat BY <2>2, <2>3
    <2>7. report \in Counts /\ shown \in Counts /\ Omitted(check, report, shown) \in Counts
      BY <2>1, <2>2, <2>3, <2>5, <2>6, Arithmetic DEF Severities
    <2>8. ASSUME NEW s \in Severities
          PROVE  shown[s] + Omitted(check, report, shown)[s] = report[s]
        <3>1. "error" \in Severities BY DEF Severities
        <3>2. /\ shown[s] = IF s = "error" THEN m ELSE 0
              /\ Omitted(check, report, shown)[s] = IF s = "error" THEN n - m ELSE 0
              /\ report[s] = IF s = "error" THEN n ELSE 0
          BY <3>1, <2>1, <2>2, <2>3, <2>5, <2>6, OnlyAt
        <3> QED BY <3>2, <2>2, <2>3
    <2> QED BY <2>7, <2>8
<1> QED BY <1>1, <1>2, <1>3

(* A floor, a limit and the flag: an answer built from balanced lists.     *)
LEMMA ReportIsComplete ==
    ASSUME IInv, NEW floor \in Severities, NEW limit \in Limits
    PROVE  LET full == Report(floor, limit) IN
           /\ full.kind = "full" /\ full.floor = floor
           /\ full.counts = found
           /\ full.total = FromFloor(found, floor)
           /\ ~full.truncated => full.returned = FromFloor(found, floor)
<1> DEFINE filtered == FromFloor(issues, floor)
           kept == IF limit >= 0 THEN Min({limit, filtered}) ELSE filtered
<1>1. Plus(issues, omitted) = found BY DEF IInv, Balanced, Plus, Counts
<1>2. filtered \in Nat /\ FromFloor(found, floor) \in Nat /\ filtered <= FromFloor(found, floor)
    <2>1. \A s \in Severities : issues[s] <= found[s] BY DEF IInv, Balanced, Counts
    <2> QED BY <2>1, TotalsAreNat, TotalsGrow DEF IInv
<1>3. Max({filtered, FromFloor(found, floor)}) = FromFloor(found, floor) BY <1>2, MaxOfTwo
<1>4. limit \in Int BY BoundsTyped
<1>5. kept \in Nat /\ kept <= filtered
  BY <1>2, <1>4, MinOfTwo
<1> HIDE DEF filtered, kept
<1>6. Report(floor, limit) =
        [kind |-> "full", ok |-> \A e \in entries : e.ok, counts |-> found,
         total |-> FromFloor(found, floor), truncated |-> FromFloor(found, floor) > kept,
         returned |-> kept, floor |-> floor]
  BY <1>1, <1>3 DEF Report, filtered, kept
<1> DEFINE full == Report(floor, limit)
<1>7. /\ full.kind = "full" /\ full.floor = floor /\ full.counts = found
      /\ full.total = FromFloor(found, floor) /\ full.returned = kept
      /\ full.truncated = (FromFloor(found, floor) > kept)
  BY <1>6
<1>8. ~(FromFloor(found, floor) > kept) => kept = FromFloor(found, floor) BY <1>2, <1>5
<1> QED
    <2>1. ~full.truncated => ~(FromFloor(found, floor) > kept) BY <1>7, Zenon
    <2> QED BY <2>1, <1>7, <1>8, Zenon

LEMMA InitBalanced == Init => IInv
BY Arithmetic DEF Init, IInv, Balanced, NothingHidden, NoAnswer, Nothing

LEMMA StepBalanced == IInv /\ [Next]_vars => IInv'
<1> SUFFICES ASSUME IInv, [Next]_vars PROVE IInv' OBVIOUS
<1>0. CASE UNCHANGED <<issues, omitted, found, answer>> /\ (pc = "done" => pc' = "done")
  BY <1>0 DEF IInv, Balanced, NothingHidden
<1> DEFINE Open == UNCHANGED answer /\ pc # "done"
<1>1. CASE Open /\ issues' \in Counts /\ omitted' \in Counts /\ found' \in Counts /\ Balanced'
  BY <1>1 DEF IInv, NothingHidden
<1>2. CASE RunCheck
    <2> DEFINE check == Head(todo)
    <2>1. Open BY <1>2 DEF RunCheck
    <2>2. CASE UNCHANGED <<issues, omitted, found>>
      BY <2>1, <2>2, <1>0
    <2>3. CASE ~UNCHANGED <<issues, omitted, found>>
        <3>1. PICK report \in Reports(check) :
                /\ found' = Plus(found, report)
                /\ \E shown \in Shown(check, report) :
                     /\ issues' = Plus(issues, shown)
                     /\ omitted' = Plus(omitted, Omitted(check, report, shown))
          BY <1>2, <2>3 DEF RunCheck
        <3>a. PICK shown \in Shown(check, report) :
                /\ issues' = Plus(issues, shown)
                /\ omitted' = Plus(omitted, Omitted(check, report, shown))
          BY <3>1
        <3> DEFINE left == Omitted(check, report, shown)
        <3>2. /\ report \in Counts /\ shown \in Counts /\ left \in Counts
              /\ \A s \in Severities : shown[s] + left[s] = report[s]
          BY OmittedMakesUp
        <3>3. issues' \in Counts /\ omitted' \in Counts /\ found' \in Counts
          BY <3>1, <3>a, <3>2, Arithmetic DEF IInv
        <3> HIDE DEF left
        <3>4. \A s \in Severities :
                /\ issues'[s] = issues[s] + shown[s]
                /\ omitted'[s] = omitted[s] + left[s]
                /\ found'[s] = found[s] + report[s]
          BY <3>1, <3>a DEF Plus, left
        <3>5. Balanced' BY <3>2, <3>4 DEF Balanced, IInv, Counts
        <3> QED BY <2>1, <3>3, <3>5, <1>1
    <2> QED BY <2>2, <2>3
<1>3. CASE Validate
    <2>1. Open /\ UNCHANGED omitted BY <1>3 DEF Validate
    <2>2. CASE UNCHANGED <<issues, found>>
      BY <2>1, <2>2, <1>0
    <2>3. CASE ~UNCHANGED <<issues, found>>
        <3>1. PICK n \in names, on \in 0..MaxFound, elsewhere \in 0..MaxFound, nowhere \in 0..MaxFound :
                /\ issues' = Plus(issues, Only("warning", Counted(n, on, elsewhere, nowhere)))
                /\ found' = Plus(found, Only("warning", Counted(n, on, elsewhere, nowhere)))
          BY <1>3, <2>3 DEF Validate
        <3>2. Counted(n, on, elsewhere, nowhere) \in Nat
            <4>1. Min({nowhere, UnattributedSample}) \in Nat BY MinOfTwo, BoundsTyped
            <4> QED BY <4>1, BoundsTyped DEF Counted
        <3> DEFINE report == Only("warning", Counted(n, on, elsewhere, nowhere))
        <3>3. report \in Counts BY <3>2, Arithmetic DEF Severities
        <3>4. issues' = Plus(issues, report) /\ found' = Plus(found, report) BY <3>1
        <3> HIDE DEF report
        <3>5. issues' \in Counts /\ found' \in Counts /\ omitted' \in Counts
          BY <2>1, <3>3, <3>4, Arithmetic DEF IInv
        <3>6. Balanced' BY <2>1, <3>3, <3>4 DEF Balanced, IInv, Counts, Plus
        <3> QED BY <2>1, <3>5, <3>6, <1>1
    <2> QED BY <2>2, <2>3
<1>4. CASE Answer
    <2>1. PICK floor \in Severities, limit \in Limits :
            LET full == Report(floor, limit) IN
            answer' \in
              {full,
               [full EXCEPT !.kind = "counts", !.returned = 0],
               [full EXCEPT !.kind = "dropped", !.truncated = TRUE, !.returned = 0],
               [NoAnswer EXCEPT !.kind = "fallback"]}
              \cup {[full EXCEPT !.truncated = TRUE, !.returned = n] : n \in 0..full.returned - 1}
      BY <1>4 DEF Answer
    <2> DEFINE full == Report(floor, limit)
    <2>2. /\ full.kind = "full" /\ full.floor = floor /\ full.counts = found
          /\ full.total = FromFloor(found, floor)
          /\ ~full.truncated => full.returned = FromFloor(found, floor)
      BY ReportIsComplete
    <2>3. DOMAIN full = {"kind", "ok", "counts", "total", "truncated", "returned", "floor"}
      BY DEF Report
    <2> HIDE DEF full
    <2>4. UNCHANGED <<issues, omitted, found>> /\ pc' = "done" BY <1>4 DEF Answer, tallies
    <2>5. answer'.kind \in {"full", "counts", "dropped"} =>
            /\ answer'.counts = found /\ answer'.floor = floor
            /\ answer'.total = FromFloor(found, floor)
            /\ answer'.kind = "full" /\ ~answer'.truncated => answer'.returned = FromFloor(found, floor)
      BY <2>1, <2>2, <2>3 DEF full, NoAnswer
    <2>6. NothingHidden' BY <2>4, <2>5 DEF NothingHidden
    <2> QED BY <2>4, <2>6 DEF IInv, Balanced
<1>5. CASE Refuse
    <2>1. answer'.kind = "error" /\ UNCHANGED <<issues, omitted, found>>
      BY <1>5 DEF Refuse, NoAnswer, tallies
    <2> QED BY <2>1 DEF IInv, Balanced, NothingHidden
<1>6. CASE Scope \/ Vanish \/ Filter \/ SetUp \/ ChecksRan \/ Context \/ ValidatorsRan
  BY <1>6, <1>0 DEF Scope, Vanish, Filter, SetUp, ChecksRan, Context, ValidatorsRan, tallies
<1>7. CASE UNCHANGED vars BY <1>7, <1>0 DEF vars
<1> QED BY <1>2, <1>3, <1>4, <1>5, <1>6, <1>7 DEF Next

(* Overall counts include what caps, pages, the floor and the budget hid,  *)
(* and an answer that is not flagged as truncated is all of it.            *)
THEOREM CountsHideNothing == Spec => []NothingHidden
<1>1. IInv => NothingHidden BY DEF IInv
<1> QED BY InitBalanced, StepBalanced, <1>1, PTL DEF Spec

----------------------------------------------------------------------------
(* What ok rests on: until the answer, every check and validator that was  *)
(* asked for is still to come, was run, or has left a failed entry.        *)
Failed == \E e \in entries : ~e.ok

(* The steps after the set-up; nothing in scope moves any more.            *)
Past == {"check", "context", "validate", "answer"}

(* What can be queued: what a call may name, and the default.             *)
CheckNames == STRING \cup Checks

Scoped ==
    /\ pc \in {"scope", "filter", "setup"} \cup Past
    /\ request \in Requests /\ disk \subseteq Paths
    /\ todo \in Seq(CheckNames)
    /\ pc # "scope" =>
        /\ request.mode = "changed" =>
              relevant = [all |-> FALSE, files |-> ChangedFiles] /\ removed = RemovedPaths
        /\ request.mode = "staged" => relevant = [all |-> FALSE, files |-> StagedFiles]
    /\ pc \notin {"scope", "filter"} /\ request.mode \in {"changed", "staged"} =>
        present = relevant.files \cap disk

Owed == {Chosen[k] : k \in DOMAIN Chosen}
Queued(check, queue) == \E j \in DOMAIN queue : queue[j] = check

ChecksKept ==
    /\ pc \notin Past \cup {"done"} => ended = <<>>
    /\ pc \in {"filter", "setup"} => \A check \in Owed : Queued(check, todo)
    /\ pc \in Past =>
        \A check \in Owed : Queued(check, todo) \/ check \in DOMAIN ended \/ ~InScope(check)
    /\ pc \in Past \ {"check"} => todo = <<>>
    /\ \A check \in DOMAIN ended : ended[check] \/ Failed

ValidatorsKept ==
    /\ pc \in Past => \A n \in Expanded : n \in names \/ n \in DOMAIN scans \/ Failed
    /\ pc = "answer" => names = {}

(* A context file that left the worktree.                                  *)
LeftContext(p) ==
    /\ IsVariant(p) /\ IsContext(p)
    /\ \/ request.mode = "changed" /\ tree[p] \in {"deleted", "staged_deleted", "renamed"}
       \/ request.mode = "staged" /\ tree[p] \in {"staged_deleted", "renamed"}

Answered == \E e \in entries : e.kind = "validator" /\ e.name \in {"equipment_variants", "setup"}

ContextKept ==
    /\ pc \notin {"validate", "answer"} => scans = <<>>
    /\ \A p \in Paths : LeftContext(p) =>
        /\ pc = "validate" /\ "equipment_variants" \in names => context
        /\ "equipment_variants" \in DOMAIN scans => scans["equipment_variants"] = "full"
        /\ /\ pc \in Past /\ request.mode = "changed" /\ "auto" \in request.validators
           /\ "equipment_variants" \in Available
           => "equipment_variants" \in names \/ Answered

Kept == Scoped /\ ChecksKept /\ ValidatorsKept /\ ContextKept /\ ~answer.ok

Thorough == (pc # "done" => Kept) /\ OkMeansChecked

(* Before the answer, keeping it all is enough.                            *)
LEMMA Underway ==
    ASSUME pc' # "done", Scoped', ChecksKept', ValidatorsKept', ContextKept', ~answer'.ok
    PROVE  Thorough'
<1>1. DeletedContextCounts'
    <2> SUFFICES ASSUME NEW p \in Paths, pc' = "answer", LeftContext(p)'
                 PROVE  /\ "equipment_variants" \in DOMAIN scans' => scans'["equipment_variants"] = "full"
                        /\ /\ request'.mode = "changed" /\ "auto" \in request'.validators
                           /\ "equipment_variants" \in Available
                           => Answered'
      BY DEF DeletedContextCounts, LeftContext, Answered
    <2>1. names' = {} BY DEF ValidatorsKept
    <2> QED BY <2>1 DEF ContextKept, Past
<1> QED BY <1>1 DEF Thorough, Kept, OkMeansChecked

(* What git says of the states that matter.                                *)
LEMMA StatusIs ==
    /\ {"modified", "staged", "untracked", "target", "deleted", "staged_deleted"} \subseteq DOMAIN Status
    /\ Status["deleted"] = " D" /\ Status["staged_deleted"] = "D "
    /\ {Status["modified"], Status["staged"], Status["untracked"], Status["target"]} \cap {" D", "D "} = {}
BY DEF Status

LEMMA LeftIsRemoved ==
    ASSUME NEW p \in Paths, LeftContext(p), request.mode = "changed"
    PROVE  p \in RemovedPaths
<1>1. tree[p] \in {"deleted", "staged_deleted", "renamed"} BY DEF LeftContext
<1> QED BY <1>1, StatusIs DEF RemovedPaths, Removes

(* Whatever a call names, and the default, can be queued.                  *)
LEMMA Queueable ==
    /\ AllChecks \in Seq(CheckNames)
    /\ \A checks \in Seq(STRING) : checks \in Seq(CheckNames)
<1> DEFINE all == {"common_mistakes", "mod_encoding", "loc_encoding", "changelog"}
<1>1. \A a, b, c, d : <<a, b, c, d>> \in Seq({a, b, c, d}) OBVIOUS
<1>2. AllChecks \in Seq(all) BY <1>1 DEF AllChecks
<1>3. DOMAIN AllChecks = {1, 2, 3, 4} BY DEF AllChecks
<1>4. all \subseteq CheckNames BY <1>3 DEF AllChecks, CheckNames, Checks
<1> HIDE DEF all
<1>5. AllChecks \in Seq(CheckNames) BY <1>2, <1>4
<1>6. \A checks \in Seq(STRING) : checks \in Seq(CheckNames) BY DEF CheckNames
<1> QED BY <1>5, <1>6

LEMMA OwedAreNames ==
    ASSUME request \in Requests
    PROVE  Owed \subseteq CheckNames
<1>1. request.checks \in Seq(STRING) BY RequestsTyped
<1>2. Chosen \in Seq(CheckNames) BY <1>1, Queueable DEF Chosen
<1> QED BY <1>2 DEF Owed

(* The scope of a check and what was asked for depend on the scope alone.  *)
LEMMA SameScope ==
    ASSUME UNCHANGED <<request, relevant, present, disk>>
    PROVE  Expanded' = Expanded /\ \A check \in CheckNames : InScope(check)' = InScope(check)
<1>1. Expanded' = Expanded BY DEF Expanded, Asked, ScriptFiles
<1>2. ASSUME NEW check \in CheckNames PROVE InScope(check)' = InScope(check)
  BY DEF InScope
<1> QED BY <1>1, <1>2

LEMMA InitThorough == Init => Thorough
<1> SUFFICES ASSUME Init PROVE Thorough OBVIOUS
<1>1. pc = "scope" /\ ~answer.ok BY DEF Init, NoAnswer
<1>2. Scoped BY <1>1 DEF Init, Scoped, Past
<1>3. ChecksKept BY <1>1 DEF Init, ChecksKept, Past
<1>4. ValidatorsKept BY <1>1 DEF ValidatorsKept, Past
<1>5. ContextKept BY <1>1 DEF Init, ContextKept, Past
<1> QED BY <1>1, <1>2, <1>3, <1>4, <1>5 DEF Thorough, Kept, OkMeansChecked, DeletedContextCounts

LEMMA RefuseThorough == Refuse => Thorough'
BY DEF Refuse, Thorough, OkMeansChecked, DeletedContextCounts, NoAnswer

LEMMA ScopeThorough == Thorough /\ (Scope \/ Vanish \/ Filter) => Thorough'
<1> SUFFICES ASSUME Thorough, Scope \/ Vanish \/ Filter PROVE Thorough' OBVIOUS
<1>1. /\ pc \in {"scope", "filter"} /\ pc' \in {"filter", "setup"}
      /\ UNCHANGED <<request, tree, names, context, entries, ended, scans, answer>>
  BY DEF Scope, Vanish, Filter, inputs, tallies
<1>2. Kept BY <1>1 DEF Thorough
<1>3. request.checks \in Seq(STRING) BY <1>2, RequestsTyped DEF Kept, Scoped
<1>4. CASE Scope
    <2>1. pc' = "filter" /\ UNCHANGED disk /\ todo' = Chosen
      BY <1>4 DEF Scope
    <2>2. todo' \in Seq(CheckNames) BY <1>3, <2>1, Queueable DEF Chosen
    <2>3. \A check \in Owed : Queued(check, todo')
        <3> SUFFICES ASSUME NEW k \in DOMAIN Chosen
                     PROVE  Queued(Chosen[k], todo')
          BY DEF Owed
        <3> QED BY <2>1 DEF Queued
    <2>4. /\ request.mode = "changed" =>
                relevant' = [all |-> FALSE, files |-> ChangedFiles] /\ removed' = RemovedPaths
          /\ request.mode = "staged" => relevant' = [all |-> FALSE, files |-> StagedFiles]
      BY <1>4 DEF Scope
    <2>5. Scoped'
      BY <1>1, <1>2, <2>1, <2>2, <2>4
      DEF Kept, Scoped, Past, ChangedFiles, StagedFiles, RemovedPaths, Removes
    <2>6. ChecksKept' BY <1>1, <1>2, <2>1, <2>3 DEF Kept, ChecksKept, Owed, Chosen, Past, Failed
    <2>7. ValidatorsKept' /\ ContextKept'
      BY <1>1, <1>2, <2>1 DEF Kept, ValidatorsKept, ContextKept, LeftContext, Past
    <2> QED BY <1>1, <1>2, <2>1, <2>5, <2>6, <2>7, Underway DEF Kept
<1>5. CASE Vanish \/ Filter
    <2>1. /\ pc = "filter" /\ UNCHANGED <<relevant, removed, todo>>
          /\ disk' \subseteq disk
      BY <1>5 DEF Vanish, Filter, scope
    <2>2. pc' # "filter" /\ request.mode \in {"changed", "staged"} => present' = relevant'.files \cap disk'
      BY <1>5, <2>1 DEF Vanish, Filter
    <2>3. Scoped'
      BY <1>1, <1>2, <2>1, <2>2
      DEF Kept, Scoped, Past, ChangedFiles, StagedFiles, RemovedPaths, Removes
    <2>4. ChecksKept' BY <1>1, <1>2, <2>1 DEF Kept, ChecksKept, Owed, Chosen, Past, Failed
    <2>5. ValidatorsKept' /\ ContextKept'
      BY <1>1, <1>2 DEF Kept, ValidatorsKept, ContextKept, LeftContext, Past
    <2> QED BY <1>1, <1>2, <2>3, <2>4, <2>5, Underway DEF Kept
<1> QED BY <1>4, <1>5

(* Where most of it starts: what cannot be run is a failed entry at once.  *)
LEMMA SetUpThorough == Thorough /\ SetUp => Thorough'
<1> SUFFICES ASSUME Thorough, SetUp PROVE Thorough' OBVIOUS
<1>1. /\ pc = "setup" /\ pc' = "check"
      /\ UNCHANGED <<request, tree, disk, relevant, removed, present, todo, context, ended, scans, answer>>
  BY DEF SetUp, inputs, scope
<1>2. Kept BY <1>1 DEF Thorough
<1>3. Scoped'
  BY <1>1, <1>2 DEF Kept, Scoped, Past, ChangedFiles, StagedFiles, RemovedPaths, Removes
<1>4. Expanded' = Expanded BY <1>1, SameScope
<1>5. CASE /\ \E routing \in {"absent", "drifted", "works"} :
                names' = Known(Expanded)
                         \cup (IF "auto" \in Asked THEN Selected(routing) ELSE {})
                         \cup (IF "auto" \in Asked /\ RemovedVariants # {}
                               THEN {"equipment_variants"} \cap Available ELSE {})
           /\ entries' = Failing(Expanded \ Available)
    <2>1. \A n \in Expanded : n \in names' \/ Failed'
        <3> SUFFICES ASSUME NEW n \in Expanded, n \notin Available PROVE Failed'
          BY <1>5 DEF Known
        <3>1. Validated(n, FALSE, 0) \in entries' BY <1>5 DEF Failing
        <3> QED BY <3>1 DEF Failed, Validated
    <2>2. "auto" \in Asked /\ RemovedVariants # {} /\ "equipment_variants" \in Available =>
            "equipment_variants" \in names'
      BY <1>5
    <2> HIDE <1>5
    <2> QED
        <3>1. ValidatorsKept' BY <1>1, <1>4, <2>1 DEF ValidatorsKept
        <3>2. ContextKept'
            <4>1. scans' = <<>> BY <1>1, <1>2 DEF Kept, ContextKept
            <4>2. ASSUME NEW p \in Paths, LeftContext(p), request.mode = "changed",
                         "auto" \in request.validators, "equipment_variants" \in Available
                  PROVE  "equipment_variants" \in names'
                <5>1. Asked = request.validators BY <1>2, <4>2, RequestsTyped DEF Asked, Kept, Scoped
                <5>2. p \in RemovedVariants
                    <6>1. removed = RemovedPaths BY <1>1, <1>2, <4>2 DEF Kept, Scoped
                    <6>2. p \in RemovedPaths BY <4>2, LeftIsRemoved
                    <6> QED BY <4>2, <6>1, <6>2 DEF RemovedVariants, LeftContext
                <5> QED BY <2>2, <4>2, <5>1, <5>2
            <4>3. /\ pc' \notin {"validate", "answer"}
                  /\ \A p \in Paths : LeftContext(p)' <=> LeftContext(p)
              BY <1>1 DEF LeftContext
            <4>4. "equipment_variants" \notin DOMAIN scans' BY <4>1
            <4>5. \A p \in Paths : LeftContext(p)' =>
                    /\ pc' = "validate" /\ "equipment_variants" \in names' => context'
                    /\ "equipment_variants" \in DOMAIN scans' => scans'["equipment_variants"] = "full"
                    /\ /\ request'.mode = "changed" /\ "auto" \in request'.validators
                       /\ "equipment_variants" \in Available
                       => "equipment_variants" \in names'
              BY <1>1, <4>2, <4>3, <4>4
            <4> QED BY <4>1, <4>5 DEF ContextKept
        <3>3. ChecksKept' BY <1>1, <1>2 DEF Kept, ChecksKept, Owed, Chosen, Past, Failed
        <3> QED BY <1>1, <1>2, <1>3, <3>1, <3>2, <3>3, Underway DEF Kept
<1>6. CASE /\ Asked # {}
           /\ names' = {}
           /\ entries' = Failing({IF request.omitted THEN "style" ELSE "setup"})
    <2>1. Validated(IF request.omitted THEN "style" ELSE "setup", FALSE, 0) \in entries'
      BY <1>6 DEF Failing
    <2>2. Failed' BY <2>1 DEF Failed, Validated
    <2>3. ~request.omitted => Answered' BY <2>1 DEF Answered, Validated
    <2>4. ValidatorsKept' BY <1>1, <2>2 DEF ValidatorsKept
    <2>5. ContextKept'
        <3>1. scans' = <<>> BY <1>1, <1>2 DEF Kept, ContextKept
        <3>2. "auto" \in request.validators => ~request.omitted
          BY <1>2, RequestsTyped DEF Kept, Scoped
        <3> QED BY <1>1, <2>3, <3>1, <3>2 DEF ContextKept, LeftContext
    <2>6. ChecksKept' BY <1>1, <1>2, <2>2 DEF Kept, ChecksKept, Owed, Chosen, Past
    <2> QED BY <1>1, <1>2, <1>3, <2>4, <2>5, <2>6, Underway DEF Kept
<1> QED BY <1>5, <1>6 DEF SetUp

(* A step after the set-up: the scope stays, entries only come.            *)
LEMMA LaterScoped ==
    ASSUME Kept, pc \in Past, pc' \in Past,
           UNCHANGED <<request, tree, disk, relevant, removed, present>>, todo' \in Seq(CheckNames)
    PROVE  Scoped'
BY DEF Kept, Scoped, Past, ChangedFiles, StagedFiles, RemovedPaths, Removes

LEMMA EntriesStay ==
    ASSUME entries \subseteq entries'
    PROVE  (Failed => Failed') /\ (Answered => Answered')
BY DEF Failed, Answered

LEMMA RunCheckThorough == Thorough /\ RunCheck => Thorough'
<1> SUFFICES ASSUME Thorough, RunCheck PROVE Thorough' OBVIOUS
<1> DEFINE check == Head(todo)
<1>1. /\ pc = "check" /\ pc' = "check" /\ todo # <<>> /\ todo' = Tail(todo)
      /\ UNCHANGED <<request, tree, disk, relevant, removed, present, names, context, scans, answer>>
  BY DEF RunCheck, inputs, scope
<1>2. Kept /\ todo \in Seq(CheckNames) /\ request.checks \in Seq(STRING)
  BY <1>1, RequestsTyped DEF Thorough, Kept, Scoped
<1>3. todo' \in Seq(CheckNames) BY <1>1, <1>2
<1>4. entries \subseteq entries' BY DEF RunCheck
<1>5. \/ ~InScope(check) /\ UNCHANGED ended
      \/ /\ DOMAIN ended' = DOMAIN ended \cup {check}
         /\ \A c \in DOMAIN ended : c # check => ended'[c] = ended[c]
         /\ ended'[check] \/ Failed'
    <2>1. CASE ~InScope(check) /\ UNCHANGED ended BY <2>1
    <2>2. CASE InScope(check) /\
               \E end \in Ends(check), report \in Reports(check) :
                  /\ ended' = With(ended, check, end \in {"completed", "exit 1"})
                  /\ ~Completed(end, report) => entries' = entries \cup {Checked(check, FALSE, 0)}
        <3>1. PICK end \in Ends(check), report \in Reports(check) :
                  /\ ended' = With(ended, check, end \in {"completed", "exit 1"})
                  /\ ~Completed(end, report) => entries' = entries \cup {Checked(check, FALSE, 0)}
          BY <2>2
        <3> HIDE DEF check
        <3>2. /\ DOMAIN ended' = DOMAIN ended \cup {check}
              /\ \A c \in DOMAIN ended : c # check => ended'[c] = ended[c]
          BY <3>1 DEF With
        <3>3. ended'[check] = (end \in {"completed", "exit 1"}) BY <3>1, Zenon DEF With
        <3>4. CASE Completed(end, report) BY <3>2, <3>3, <3>4 DEF Completed
        <3>5. CASE ~Completed(end, report)
            <4>1. Checked(check, FALSE, 0) \in entries' BY <3>1, <3>5
            <4>2. Failed' BY <4>1 DEF Failed, Checked
            <4> QED BY <3>2, <4>2
        <3> QED BY <3>4, <3>5
    <2> QED BY <2>1, <2>2 DEF RunCheck
<1>6. ASSUME NEW c \in CheckNames, Queued(c, todo) PROVE Queued(c, todo') \/ c = check
    <2>1. PICK j \in DOMAIN todo : todo[j] = c BY <1>6 DEF Queued
    <2>2. CASE j = 1 BY <1>2, <2>1, <2>2
    <2>3. CASE j # 1
        <3>1. j - 1 \in DOMAIN todo' /\ todo'[j - 1] = c BY <1>1, <1>2, <2>1, <2>3
        <3> QED BY <3>1 DEF Queued
    <2> QED BY <2>2, <2>3
<1>7. \A c \in CheckNames : InScope(c)' = InScope(c) BY <1>1, SameScope
<1> HIDE DEF check
<1>8. ChecksKept'
    <2>1. ASSUME NEW c \in Owed
          PROVE  Queued(c, todo') \/ c \in DOMAIN ended' \/ ~InScope(c)'
        <3>1. c \in CheckNames BY <1>1, <1>2, OwedAreNames DEF Kept, Scoped
        <3>2. Queued(c, todo) \/ c \in DOMAIN ended \/ ~InScope(c)
          BY <1>1, <1>2 DEF Kept, ChecksKept, Past
        <3> QED BY <1>5, <1>6, <1>7, <3>1, <3>2
    <2>2. \A c \in DOMAIN ended' : ended'[c] \/ Failed'
      BY <1>2, <1>4, <1>5, EntriesStay DEF Kept, ChecksKept
    <2>3. Owed' = Owed BY <1>1 DEF Owed, Chosen
    <2> QED BY <1>1, <2>1, <2>2, <2>3 DEF ChecksKept, Past
<1>9. Expanded' = Expanded BY <1>1, SameScope
<1>10. ValidatorsKept'
  BY <1>1, <1>2, <1>4, <1>9, EntriesStay DEF Kept, ValidatorsKept, Past
<1>11. ContextKept'
  BY <1>1, <1>2, <1>4, EntriesStay DEF Kept, ContextKept, LeftContext, Past
<1>12. Scoped' BY <1>1, <1>2, <1>3, LaterScoped DEF Past
<1> QED BY <1>1, <1>2, <1>8, <1>10, <1>11, <1>12, Underway DEF Kept

LEMMA TurnThorough == Thorough /\ (ChecksRan \/ Context \/ ValidatorsRan) => Thorough'
<1> SUFFICES ASSUME Thorough, ChecksRan \/ Context \/ ValidatorsRan PROVE Thorough' OBVIOUS
<1>1. /\ pc \in Past /\ pc' \in Past \ {"check"}
      /\ pc' = "answer" => names = {}
      /\ pc = "check" => todo = <<>>
      /\ UNCHANGED <<request, tree, disk, relevant, removed, present, todo, names, entries, ended, scans, answer>>
  BY DEF ChecksRan, Context, ValidatorsRan, inputs, scope, tallies, Past
<1>2. Kept BY <1>1 DEF Thorough, Past
<1>3. Scoped' BY <1>1, <1>2, LaterScoped DEF Kept, Scoped
<1>4. Expanded' = Expanded /\ \A c \in CheckNames : InScope(c)' = InScope(c) BY <1>1, SameScope
<1>5. ChecksKept'
    <2>1. Owed \subseteq CheckNames /\ Owed' = Owed
      BY <1>1, <1>2, OwedAreNames DEF Kept, Scoped, Owed, Chosen
    <2>2. todo' = <<>> BY <1>1, <1>2 DEF Kept, ChecksKept
    <2> QED BY <1>1, <1>2, <1>4, <2>1, <2>2 DEF Kept, ChecksKept, Failed, Past
<1>6. ValidatorsKept' BY <1>1, <1>2, <1>4 DEF Kept, ValidatorsKept, Failed
<1>7. ContextKept'
    <2>1. ASSUME NEW p \in Paths, LeftContext(p), pc' = "validate", "equipment_variants" \in names
          PROVE  context'
        <3>1. Context BY <2>1 DEF ChecksRan, ValidatorsRan
        <3>2. ~relevant.all /\ p \in Wanted
            <4>1. CASE request.mode = "changed"
                <5>1. p \in RemovedVariants
                    <6>1. p \in RemovedPaths BY <2>1, <4>1, LeftIsRemoved
                    <6>2. removed = RemovedPaths BY <1>1, <1>2, <4>1 DEF Kept, Scoped, Past
                    <6> QED BY <2>1, <6>1, <6>2 DEF RemovedVariants, LeftContext
                <5> QED BY <1>1, <1>2, <4>1, <5>1 DEF Kept, Scoped, Past, Wanted
            <4>2. CASE request.mode = "staged"
                <5>1. relevant = [all |-> FALSE, files |-> StagedFiles]
                  BY <1>1, <1>2, <4>2 DEF Kept, Scoped, Past
                <5>2. p \in StagedFiles BY <2>1, <4>2 DEF LeftContext, StagedFiles
                <5> QED BY <5>1, <5>2 DEF Wanted
            <4> QED BY <2>1, <4>1, <4>2 DEF LeftContext
        <3>3. \A git \in BOOLEAN : Affects(p, git) BY <2>1 DEF LeftContext, Affects
        <3> QED BY <2>1, <3>1, <3>2, <3>3 DEF Context
    <2>2. \A p \in Paths : LeftContext(p)' = LeftContext(p) BY <1>1 DEF LeftContext
    <2>3. pc' \notin {"validate", "answer"} => scans' = <<>>
      BY <1>1, <1>2 DEF ChecksRan, Context, ValidatorsRan, Kept, ContextKept
    <2> QED BY <1>1, <1>2, <2>1, <2>2, <2>3 DEF Kept, ContextKept, Answered
<1> QED BY <1>1, <1>2, <1>3, <1>5, <1>6, <1>7, Underway DEF Kept, Past

LEMMA ValidateThorough == Thorough /\ Validate => Thorough'
<1> SUFFICES ASSUME Thorough, Validate PROVE Thorough' OBVIOUS
<1>1. /\ pc = "validate" /\ pc' = "validate"
      /\ UNCHANGED <<request, tree, disk, relevant, removed, present, todo, context, ended, answer>>
  BY DEF Validate, inputs, scope
<1>2. Kept BY <1>1 DEF Thorough
<1>3. PICK n \in names :
        /\ names' = names \ {n}
        /\ \/ entries' = entries \cup Failing({n}) /\ UNCHANGED scans
           \/ \E on \in 0..MaxFound :
                /\ entries' = entries \cup {Validated(n, TRUE, on)}
                /\ scans' = With(scans, n, IF FullScan(n) THEN "full" ELSE "scope")
  BY DEF Validate
<1>4. entries \subseteq entries' BY <1>3
<1>5. /\ DOMAIN scans \subseteq DOMAIN scans'
      /\ Failed' \/ n \in DOMAIN scans'
      /\ n = "equipment_variants" => Answered'
      /\ \A m \in DOMAIN scans' :
            \/ m \in DOMAIN scans /\ scans'[m] = scans[m]
            \/ m = n /\ scans'[m] = IF FullScan(n) THEN "full" ELSE "scope"
    <2>1. CASE entries' = entries \cup Failing({n}) /\ UNCHANGED scans
        <3>1. Validated(n, FALSE, 0) \in entries' BY <2>1 DEF Failing
        <3>2. Failed' BY <3>1 DEF Failed, Validated
        <3>3. n = "equipment_variants" => Answered' BY <3>1 DEF Answered, Validated
        <3> QED BY <2>1, <3>2, <3>3
    <2>2. CASE \E on \in 0..MaxFound :
                 /\ entries' = entries \cup {Validated(n, TRUE, on)}
                 /\ scans' = With(scans, n, IF FullScan(n) THEN "full" ELSE "scope")
        <3>1. PICK on \in 0..MaxFound :
                 /\ entries' = entries \cup {Validated(n, TRUE, on)}
                 /\ scans' = With(scans, n, IF FullScan(n) THEN "full" ELSE "scope")
          BY <2>2
        <3>2. n = "equipment_variants" => Answered'
            <4>1. Validated(n, TRUE, on) \in entries' BY <3>1
            <4> QED BY <4>1 DEF Answered, Validated
        <3> QED BY <3>1, <3>2 DEF With
    <2> QED BY <1>3, <2>1, <2>2
<1>6. Expanded' = Expanded /\ \A c \in CheckNames : InScope(c)' = InScope(c) BY <1>1, SameScope
<1>7. Scoped' BY <1>1, <1>2, LaterScoped DEF Kept, Scoped, Past
<1>8. ChecksKept'
    <2>1. Owed \subseteq CheckNames /\ Owed' = Owed
      BY <1>1, <1>2, OwedAreNames DEF Kept, Scoped, Owed, Chosen
    <2>2. \A check \in DOMAIN ended' : ended'[check] \/ Failed'
      BY <1>1, <1>2, <1>4, EntriesStay DEF Kept, ChecksKept
    <2> QED BY <1>1, <1>2, <1>6, <2>1, <2>2 DEF Kept, ChecksKept, Past
<1>9. ValidatorsKept'
  BY <1>1, <1>2, <1>3, <1>4, <1>5, <1>6, EntriesStay DEF Kept, ValidatorsKept, Past
<1>10. ContextKept'
    <2> SUFFICES ASSUME NEW p \in Paths, LeftContext(p)
                 PROVE  /\ "equipment_variants" \in names' => context
                        /\ "equipment_variants" \in DOMAIN scans' => scans'["equipment_variants"] = "full"
                        /\ /\ request.mode = "changed" /\ "auto" \in request.validators
                           /\ "equipment_variants" \in Available
                           => "equipment_variants" \in names' \/ Answered'
      BY <1>1 DEF ContextKept, LeftContext
    <2>1. /\ "equipment_variants" \in names => context
          /\ "equipment_variants" \in DOMAIN scans => scans["equipment_variants"] = "full"
          /\ /\ request.mode = "changed" /\ "auto" \in request.validators
             /\ "equipment_variants" \in Available
             => "equipment_variants" \in names \/ Answered
      BY <1>1, <1>2 DEF Kept, ContextKept, Past
    <2>2. n = "equipment_variants" => FullScan(n) BY <2>1 DEF FullScan
    <2> QED BY <1>3, <1>4, <1>5, <2>1, <2>2, EntriesStay
<1> QED BY <1>1, <1>2, <1>7, <1>8, <1>9, <1>10, Underway DEF Kept

(* The answer: ok is said only when no entry failed.                       *)
LEMMA AnswerThorough == Thorough /\ Answer => Thorough'
<1> SUFFICES ASSUME Thorough, Answer, answer'.ok
             PROVE  /\ \A check \in DOMAIN ended : ended[check]
                    /\ \A k \in DOMAIN Chosen : \A p \in disk :
                          InWorktree(p) /\ Covers(Chosen[k], p) => Chosen[k] \in DOMAIN ended
                    /\ request.validators \ {"*", "auto"} \subseteq DOMAIN scans
                    /\ \A p \in disk :
                          request.omitted /\ InWorktree(p) /\ IsScript(p) => "style" \in DOMAIN scans
  BY DEF Answer, inputs, scope, tallies, Thorough, OkMeansChecked, DeletedContextCounts, InWorktree, Chosen
<1>1. pc = "answer" /\ Kept BY DEF Answer, Thorough
<1>2. ~Failed
    <2>1. PICK floor \in Severities, limit \in Limits :
            LET full == Report(floor, limit) IN
            answer' \in
              {full,
               [full EXCEPT !.kind = "counts", !.returned = 0],
               [full EXCEPT !.kind = "dropped", !.truncated = TRUE, !.returned = 0],
               [NoAnswer EXCEPT !.kind = "fallback"]}
              \cup {[full EXCEPT !.truncated = TRUE, !.returned = n] : n \in 0..full.returned - 1}
      BY DEF Answer
    <2> DEFINE full == Report(floor, limit)
    <2>2. full.ok = (\A e \in entries : e.ok) BY Zenon DEF Report
    <2>3. DOMAIN full = {"kind", "ok", "counts", "total", "truncated", "returned", "floor"}
      BY DEF Report
    <2> HIDE DEF full
    <2>4. answer'.ok = full.ok \/ answer'.ok = NoAnswer.ok BY <2>1, <2>3 DEF full, NoAnswer
    <2>5. ~NoAnswer.ok BY DEF NoAnswer
    <2> QED BY <2>2, <2>4, <2>5 DEF Failed
<1>3. \A n \in Expanded : n \in DOMAIN scans
  BY <1>1, <1>2 DEF Kept, ValidatorsKept, Past
<1>4. ASSUME NEW p \in disk, InWorktree(p) PROVE p \in present /\ ~relevant.all
    <2>1. p \in Paths BY <1>1 DEF Kept, Scoped
    <2>2. CASE request.mode = "changed"
        <3>1. p \in ChangedFiles
          BY <1>4, <2>1, <2>2, StatusIs DEF InWorktree, ChangedFiles, Removes
        <3> QED BY <1>1, <2>2, <3>1 DEF Kept, Scoped
    <2>3. CASE request.mode = "staged"
        <3>1. p \in StagedFiles BY <1>4, <2>1, <2>3 DEF InWorktree, StagedFiles
        <3> QED BY <1>1, <2>3, <3>1 DEF Kept, Scoped
    <2> QED BY <1>4, <2>2, <2>3 DEF InWorktree
<1>5. ASSUME NEW k \in DOMAIN Chosen, NEW p \in disk, InWorktree(p), Covers(Chosen[k], p)
      PROVE  Chosen[k] \in DOMAIN ended
    <2>1. InScope(Chosen[k]) BY <1>4, <1>5 DEF InScope
    <2>2. Chosen[k] \in Owed BY DEF Owed
    <2>3. ~Queued(Chosen[k], todo) BY <1>1 DEF Kept, ChecksKept, Past, Queued
    <2> QED BY <1>1, <2>1, <2>2, <2>3 DEF Kept, ChecksKept, Past
<1>6. request.validators \ {"*", "auto"} \subseteq Expanded
    <2>1. request.omitted => request.validators = {} BY <1>1, RequestsTyped DEF Kept, Scoped
    <2> QED BY <2>1 DEF Expanded, Asked
<1>7. ASSUME NEW p \in disk, request.omitted, InWorktree(p), IsScript(p) PROVE "style" \in Expanded
  BY <1>4, <1>7 DEF Expanded, Asked, ScriptFiles
<1>8. \A check \in DOMAIN ended : ended[check] BY <1>1, <1>2 DEF Kept, ChecksKept
<1> QED BY <1>3, <1>5, <1>6, <1>7, <1>8

LEMMA StepThorough == Thorough /\ [Next]_vars => Thorough'
<1> SUFFICES ASSUME Thorough, [Next]_vars PROVE Thorough' OBVIOUS
<1>1. CASE UNCHANGED vars
    <2>1. Expanded' = Expanded /\ \A c \in CheckNames : InScope(c)' = InScope(c) BY <1>1, SameScope DEF vars, scope, inputs, tallies
    <2>2. CASE pc = "done"
      BY <1>1, <2>2
      DEF vars, inputs, scope, tallies, Thorough, OkMeansChecked, DeletedContextCounts, InWorktree, Chosen
    <2>3. CASE pc # "done"
        <3>1. Kept BY <2>3 DEF Thorough
        <3>2. Scoped' BY <1>1, <3>1 DEF vars, Kept, Scoped, ChangedFiles, StagedFiles, RemovedPaths, Removes
        <3>3. Owed \subseteq CheckNames /\ Owed' = Owed
          BY <1>1, <3>1, OwedAreNames DEF vars, inputs, Kept, Scoped, Owed, Chosen
        <3>4. ChecksKept' BY <1>1, <2>1, <3>1, <3>3 DEF vars, tallies, Kept, ChecksKept, Failed
        <3>5. ValidatorsKept' BY <1>1, <2>1, <3>1 DEF vars, Kept, ValidatorsKept, Failed
        <3>6. ContextKept' BY <1>1, <3>1 DEF vars, Kept, ContextKept, LeftContext, Answered
        <3> QED BY <1>1, <2>3, <3>1, <3>2, <3>4, <3>5, <3>6, Underway DEF vars, Kept
    <2> QED BY <2>2, <2>3
<1> QED
  BY <1>1, RefuseThorough, ScopeThorough, SetUpThorough, RunCheckThorough, TurnThorough,
     ValidateThorough, AnswerThorough DEF Next

(* A tool that crashed, was missing or never ran does not pass for clean,  *)
(* and no deletion of a context file is overlooked, for any mod, routing   *)
(* and request (lint_tool, run_validators_for_lint).                       *)
THEOREM OkIsChecked == Spec => []OkMeansChecked
<1>1. Thorough => OkMeansChecked BY DEF Thorough
<1> QED BY InitThorough, StepThorough, <1>1, PTL DEF Spec
=============================================================================
