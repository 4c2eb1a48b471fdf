--------------------------- MODULE UpstreamReports ---------------------------
(***************************************************************************)
(* The analyses that run the mod's own scripts in a child process: what    *)
(* the child makes of their reports (tools/upstream_analysis_shim.py) and  *)
(* how the tools bound its answers (tools/upstream_analysis.py).  What the *)
(* mod's scripts report is data: lists whose entries have a size.          *)
(***************************************************************************)
EXTENDS Response

(* _run_shim: how the child ended decides before what it wrote; main turns *)
(* every exception into an answer and exits with 0.                        *)
RunShim(child) ==
    IF child.end \in {"timeout", "no process", "exit code", "not json", "not an object"}
    THEN Failure
    ELSE IF child.end = "raised" THEN Failure
    ELSE child.answer

Answer(base, lists, meta) ==
    [ok |-> TRUE, encodable |-> TRUE, base |-> base, lists |-> lists, meta |-> meta,
     dropped |-> <<>>, cut |-> FALSE]
PagedAnswer(base, sources, offset, limit) ==
    Answer(base, [k \in DOMAIN sources |-> Page(sources[k], offset, limit)],
           [k \in DOMAIN sources |-> PageMeta(sources[k], offset, limit)])

(* After the budget: the counters of what it took away.  Tools differ in   *)
(* what they do about a list that was empty.                               *)
Lost(a, k) == k \in DOMAIN a.dropped /\ k \in DOMAIN a.meta
Relabel(a, k, truncated) == [a EXCEPT !.meta[k].returned = 0, !.meta[k].truncated = truncated]
BugRelabelFull(a, keys) ==
    FoldLeft(LAMBDA b, k : IF Lost(b, k) /\ b.dropped[k] # 0
                           THEN [b EXCEPT !.meta[k].truncated = TRUE] ELSE b, a, keys)
RelabelFull(a, keys) ==
    FoldLeft(LAMBDA b, k : IF Lost(b, k) /\ b.dropped[k] # 0 THEN Relabel(b, k, TRUE) ELSE b, a, keys)
RelabelTotal(a, keys) ==
    FoldLeft(LAMBDA b, k : IF Lost(b, k) THEN Relabel(b, k, b.meta[k].total > 0) ELSE b, a, keys)
RelabelAll(a, keys) ==
    FoldLeft(LAMBDA b, k : IF Lost(b, k) THEN Relabel(b, k, TRUE) ELSE b, a, keys)

----------------------------------------------------------------------------
(* tick_audit.  A call tree is a sequence of nodes in the order the code   *)
(* visits them, [depth, flagged]: its root has depth 0, children follow.   *)
Children(tree, k) ==
    {j \in k + 1..Len(tree) : /\ tree[j].depth = tree[k].depth + 1
                              /\ \A i \in k + 1..j : tree[i].depth > tree[k].depth}
PruneTickTree(tree, limit) ==
    LET kept == SubSeq(tree, 1, Min({limit, Len(tree)}))
    IN  [k \in DOMAIN kept |->
           [kept[k] EXCEPT !.flagged = @ \/ Children(tree, k) # Children(kept, k)]]
TreeIsTruncated(tree, limit) ==
    Len(tree) > limit \/ \E k \in DOMAIN PruneTickTree(tree, limit) : PruneTickTree(tree, limit)[k].flagged

(* Rows are [cadence, scope, size]; a fired event has one per hook.        *)
Anything == "any"
CadenceOk(row, cadence) == cadence = Anything \/ row.cadence = cadence
TagOk(row, tag) == tag = Anything \/ row.scope \in {tag, "GLOBAL"}
Sizes(rows) == [k \in DOMAIN rows |-> rows[k].size]
TickRows(report, mode, cadence, tag) ==
    CASE mode = "hooks" ->
            Sizes(SelectSeq(report.hooks, LAMBDA r : CadenceOk(r, cadence) /\ TagOk(r, tag)))
      [] mode = "events" ->
            Sizes(SelectSeq(report.events,
                            LAMBDA e : \E r \in e.fires : CadenceOk(r, cadence) /\ TagOk(r, tag)))
      [] mode = "decisions" -> Sizes(SelectSeq(report.decisions, LAMBDA r : CadenceOk(r, cadence)))

TickSources(report, arg) ==
    IF arg.list # "none" THEN [rows |-> TickRows(report, arg.list, arg.cadence, arg.tag)]
    ELSE [hooks |-> Sizes(SelectSeq(IF arg.tag # Anything THEN report.focusHooks ELSE report.hooks,
                                    LAMBDA r : CadenceOk(r, arg.cadence)))]
TickAudit(report, arg) ==
    LET paged == PagedAnswer(report.base, TickSources(report, arg), arg.offset, arg.limit)
        tree == PruneTickTree(report.tree, Max({1, arg.nodes}))
    IN  IF arg.cadence \notin report.cadences \cup {Anything} THEN Failure
        ELSE IF ~arg.tree THEN paged
        ELSE [paged EXCEPT !.lists = [tree |-> [k \in DOMAIN tree |-> 1]] @@ @]
TickAuditTool(child) ==
    LET bounded == EnforceBudget(RunShim(child), <<"tree", "rows", "hooks">>)
    IN  EnforceBudget(RelabelFull(bounded, <<"hooks", "rows">>), <<>>)

(* tick_spot_check: a script without the scanner is an error of its own.   *)
SpotSources(report) == [findings |-> report.findings, diagnostics |-> Sizes(report.diagnostics)]
SpotSeverities(report) ==
    LET fatal == SelectSeq(report.diagnostics, LAMBDA d : d.fatal /\ ~d.suppressed)
        suppressed == SelectSeq(report.diagnostics, LAMBDA d : d.suppressed)
    IN  [fatal |-> Len(fatal), suppressed |-> Len(suppressed),
         warning |-> Max({0, Len(report.diagnostics) - Len(fatal) - Len(suppressed)})]
SpotCheck(report, arg) ==
    LET paged == PagedAnswer(report.base, SpotSources(report), arg.offset, arg.limit)
    IN  IF ~report.supported THEN Failure
        ELSE [paged EXCEPT !.lists = [assumptions |-> report.assumptions] @@ @]
SpotCheckTool(child) ==
    LET heavy == <<"findings", "diagnostics", "assumptions">>
        bounded == EnforceBudget(RunShim(child), heavy)
    IN  EnforceBudget(RelabelTotal(bounded, <<"findings", "diagnostics">>), heavy)

(* estimate_gdp: one country, no list but the breakdown.                   *)
EstimateGdp(report) ==
    IF report.states = <<>> THEN Failure
    ELSE Answer(report.base, [breakdown |-> report.breakdown], <<>>)
EstimateGdpTool(child) == EnforceBudget(RunShim(child), <<"breakdown">>)

(* event_load: a year's entry holds one page of its events; flagged years  *)
(* repeat it.  Only years with deliveries are listed.                      *)
EventLoad(report, arg) ==
    LET years == SelectSeq(report.years, LAMBDA y : y.events # <<>>)
        Shown(y) == Page(y.events, arg.offset, arg.limit)
        flagged == SelectSeq(years, LAMBDA y : y.peak >= arg.threshold)
        cut == \E k \in DOMAIN years : PageMeta(years[k].events, arg.offset, arg.limit).truncated
    IN  Answer(report.base,
               [years |-> [k \in DOMAIN years |-> 1 + Sum(Shown(years[k]))],
                flagged |-> [k \in DOMAIN flagged |-> 1 + Sum(Shown(flagged[k]))]],
               [years |-> [total |-> Len(years), returned |-> Len(years), truncated |-> cut]])
EventLoadTool(child) ==
    LET bounded == EnforceBudget(RunShim(child), <<"years", "flagged">>)
        LostAny(k) == k \in DOMAIN bounded.dropped /\ bounded.dropped[k] # 0 /\ bounded.ok
    IN  EnforceBudget(IF LostAny("years") THEN Relabel(bounded, "years", TRUE)
                      ELSE IF LostAny("flagged") THEN [bounded EXCEPT !.meta["years"].truncated = TRUE]
                      ELSE bounded, <<>>)

(* game_log_summary: six lists or mappings, paged alike.                   *)
LogKeys == <<"focus_countries", "economy", "inflation", "conflicts", "politics", "annexations">>
GameLog(report, arg) ==
    IF ~report.parsed THEN Failure
    ELSE PagedAnswer(report.base, Pick(ToSet(LogKeys), report.lists), arg.offset, arg.limit)
GameLogTool(child) ==
    EnforceBudget(RelabelFull(EnforceBudget(RunShim(child), LogKeys), LogKeys), <<>>)

----------------------------------------------------------------------------
(* ai_path_report: every list of a nested report is paged, unless one of   *)
(* its entries holds a list itself.  A value is [form, kids] ("list" or    *)
(* "fields") or a leaf; where it stands is the sequence of steps to it.    *)
RECURSIVE ContainsList(_)
ContainsList(value) ==
    \/ value.form = "list"
    \/ value.form = "fields" /\ \E k \in DOMAIN value.kids : ContainsList(value.kids[k])
Nested(value) == \E k \in DOMAIN value.kids : ContainsList(value.kids[k])

RECURSIVE PaginateTree(_, _, _, _)
PaginateTree(value, prefix, limit, offset) ==
    LET nested == Nested(value)
        page == IF value.form = "list" /\ ~nested THEN Page(value.kids, offset, limit) ELSE value.kids
        from == IF value.form = "list" /\ ~nested THEN offset ELSE 0
        below == [k \in DOMAIN page |-> PaginateTree(page[k], Append(prefix, from + k), limit, offset)]
        own == [total |-> Len(value.kids), returned |-> Len(page),
                truncated |-> ~nested /\ offset + limit < Len(value.kids)]
        inner == UNION {below[k].pages : k \in DOMAIN page}
    IN  IF value.form = "leaf" THEN [value |-> value, pages |-> {}]
        ELSE [value |-> [value EXCEPT !.kids = [k \in DOMAIN page |-> below[k].value]],
              pages |-> IF value.form = "list" THEN inner \cup {<<prefix, own>>} ELSE inner]

(* Sections nobody asked for go first; wiring brings the rule along.       *)
SectionsKept(arg, all) ==
    IF "all" \in arg.sections THEN all
    ELSE arg.sections \cup (IF "wiring" \in arg.sections THEN {"rule"} ELSE {})
RECURSIVE TreeSize(_)
TreeSize(value) == IF value.form = "leaf" THEN 1 ELSE 1 + Sum([k \in DOMAIN value.kids |-> TreeSize(value.kids[k])])
AiPath(report, arg) ==
    LET kept == SectionsKept(arg, DOMAIN report.sections) \cap DOMAIN report.sections
        paged == [s \in kept |-> PaginateTree(report.sections[s], <<s>>, arg.limit, arg.offset)]
        pages == UNION {paged[s].pages : s \in kept}
    IN  IF arg.sections = {} \/ ~(arg.sections \subseteq DOMAIN report.sections \cup {"all"})
        THEN [answer |-> Failure, pages |-> {}, values |-> <<>>]
        ELSE [answer |-> Answer(report.base,
                                [pagination |-> [k \in 1..Cardinality(pages) |-> 1]]
                                @@ [s \in kept |-> <<TreeSize(paged[s].value)>>], <<>>),
              pages |-> pages, values |-> [s \in kept |-> paged[s].value]]
AiPathTool(child) ==
    EnforceBudget(RunShim(child), <<"pagination", "matrix", "graph", "plans", "mechanics">>)

(* rename_focus_ids pages its changed files and lists its whole mapping.   *)
RenameAnswer(report, arg) ==
    LET paged == PagedAnswer(report.base, [files |-> report.files], arg.offset, arg.limit)
    IN  [paged EXCEPT !.lists = [mapping |-> report.mapping] @@ @]
RenameTool(child) ==
    LET bounded == EnforceBudget(RunShim(child), <<"mapping", "files">>)
    IN  EnforceBudget(RelabelTotal(bounded, <<"files">>), <<>>)

----------------------------------------------------------------------------
(* focus_overlap_scenarios: what it says of definitions and chains.  A     *)
(* focus is [id, relative, branch, offsets], its conditions decided or     *)
(* "unknown"; the last definition of an id is the one that counts.         *)
NoRelative == 0
LastOf(blocks, id) == SelectLastInSeq(blocks, LAMBDA b : b.id = id)
ById(blocks) == [id \in {blocks[k].id : k \in DOMAIN blocks} |-> blocks[LastOf(blocks, id)]]

RECURSIVE ChainEnd(_, _, _)
ChainEnd(byId, id, seen) ==
    IF id \in seen THEN [end |-> "cycle", at |-> id]
    ELSE IF byId[id].relative = NoRelative THEN [end |-> "root", at |-> id]
    ELSE IF byId[id].relative \notin DOMAIN byId THEN [end |-> "missing", at |-> id]
    ELSE ChainEnd(byId, byId[id].relative, seen \cup {id})

OverlapDiagnostics(blocks) ==
    LET byId == ById(blocks)
        Count(id) == Len(SelectSeq(blocks, LAMBDA b : b.id = id))
        Unknown(id) == Len(SelectSeq(byId[id].offsets, LAMBDA o : o = "unknown"))
                       + (IF byId[id].branch = "unknown" THEN 1 ELSE 0)
        ends == [id \in DOMAIN byId |-> ChainEnd(byId, id, {})]
    IN  [duplicates |-> {id \in DOMAIN byId : Count(id) > 1},
         unknown |-> MapThenSumSet(Unknown, DOMAIN byId),
         cyclic |-> {id \in DOMAIN byId : ends[id].end = "cycle"},
         missing |-> {<<id, ends[id].at>> : id \in {i \in DOMAIN byId : ends[i].end = "missing"}}]
(* The mod's parser must have found the focuses this one finds.  Positions *)
(* are listed on request, and counted within the region when one is given. *)
OverlapSources(report, arg) ==
    LET found == OverlapDiagnostics(report.blocks)
        diagnostics == Cardinality(found.duplicates) + found.unknown
                       + Cardinality(found.cyclic) + Cardinality(found.missing)
    IN  [collision_groups |-> report.collisions, diagnostics |-> [k \in 1..diagnostics |-> 1]]
        @@ (IF arg.positions THEN [positions |-> report.positions] ELSE <<>>)
        @@ (IF arg.adjacent THEN [adjacent_pairs |-> report.adjacent] ELSE <<>>)
FocusOverlap(report, arg) ==
    IF ~report.supported \/ {report.blocks[k].id : k \in DOMAIN report.blocks} # report.expected
    THEN Failure
    ELSE PagedAnswer(report.base, OverlapSources(report, arg), arg.offset, arg.limit)

(* focus_overlap_scenarios: repaired and bounded until nothing changes,    *)
(* which is once: a repaired answer is not larger.                         *)
OverlapHeavy(positions, adjacent) ==
    (IF positions THEN <<"positions">> ELSE <<>>) \o (IF adjacent THEN <<"adjacent_pairs">> ELSE <<>>)
    \o <<"collision_groups", "diagnostics">>
OverlapTool(child, positions, adjacent) ==
    LET heavy == OverlapHeavy(positions, adjacent)
        shaped == EnforceBudget(RunShim(child), heavy)
    IN  EnforceBudget(RelabelAll(shaped, heavy), heavy)

----------------------------------------------------------------------------
(* Whatever the budget takes away, an answer stays within it and describes *)
(* itself: `returned' counts the entries that are there, and an answer     *)
(* that does not say truncated has every entry from its offset on.         *)
DescribesItself(answer, sources, offset) ==
    /\ Size(answer) <= Budget
    /\ answer.ok => \A k \in DOMAIN answer.meta :
          LET there == IF k \in DOMAIN answer.lists THEN answer.lists[k] ELSE <<>>
          IN  /\ answer.meta[k].returned = Len(there)
              /\ answer.meta[k].total = Len(sources[k])
              /\ ~answer.meta[k].truncated =>
                    there = SubSeq(sources[k], Max({offset, 0}) + 1, Len(sources[k]))

(* A pruned call tree is no larger than its limit, marks every node that   *)
(* lost a child, and is itself marked when any node did.                   *)
TreeIsMarked(tree, limit) ==
    LET pruned == PruneTickTree(tree, limit)
        Lacks(k) == Cardinality(Children(pruned, k)) < Cardinality(Children(tree, k))
    IN  /\ Len(pruned) <= limit
        /\ \A k \in DOMAIN pruned : Lacks(k) => pruned[k].flagged
        /\ (Len(pruned) < Len(tree)) => TreeIsTruncated(tree, limit)

(* In a paged report every list that is left has an entry, under the place *)
(* it has in the source, with its length there and here; and the sections  *)
(* asked for are there, wiring with its rule.                              *)
RECURSIVE ListsIn(_, _)
ListsIn(value, prefix) ==
    (IF value.form = "list" THEN {<<prefix, Len(value.kids)>>} ELSE {})
    \cup (IF value.form = "leaf" THEN {}
          ELSE UNION {ListsIn(value.kids[k], Append(prefix, k)) : k \in DOMAIN value.kids})
PathIsPaged(report, arg, made) ==
    LET there == UNION {ListsIn(made.values[s], <<s>>) : s \in DOMAIN made.values}
        before == UNION {ListsIn(report.sections[s], <<s>>) : s \in DOMAIN report.sections}
    IN  made.answer.ok =>
          /\ there = {<<p[1], p[2].returned>> : p \in made.pages}
          /\ \A p \in made.pages :
               /\ <<p[1], p[2].total>> \in before
               /\ ~p[2].truncated => p[2].returned = Max({0, p[2].total - arg.offset})
                                     \/ p[2].returned = p[2].total
          /\ arg.sections \ {"all"} \subseteq DOMAIN made.values
          /\ "wiring" \in DOMAIN made.values => "rule" \in DOMAIN made.values
=============================================================================
