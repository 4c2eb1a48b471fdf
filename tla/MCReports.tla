----------------------------- MODULE MCReports ------------------------------
(***************************************************************************)
(* Questions about the reports of the mod's own scripts, bounded texts and *)
(* rename plans: small reports under a small budget, small mods with an    *)
(* overlay.                                                                *)
(***************************************************************************)
EXTENDS Integers, Sequences, FiniteSets, TLC

CONSTANTS Budget, MaxText, MarkerSize, ErrorSize

Reports == INSTANCE UpstreamReports

Upto(S, n) == UNION {[1..k -> S] : k \in 0..n}

(* Texts of characters that take one to three bytes, some escaped.         *)
Chars == {[bytes |-> 1, escaped |-> 1], [bytes |-> 1, escaped |-> 3], [bytes |-> 3, escaped |-> 3]}
ClippedTexts == {[kind |-> "text", rest |-> r, note |-> n, text |-> t] :
                    r \in {1, 8, 11}, n \in 1..2, t \in Upto(Chars, 5)}

(* Reports: entry sizes, the page asked for, and how the child ended.      *)
Lists == {<<>>, <<1, 1>>, <<2, 4, 1>>}
Bases == {1, 7, 12}
Pages == {<<0, 3>>, <<0, 1>>, <<1, 1>>, <<5, 2>>}
Ends == {"answer", "timeout", "exit code", "not json", "raised"}
Arg(p) == [offset |-> p[1], limit |-> p[2]]

Row(cadence, scope, size) == [cadence |-> cadence, scope |-> scope, size |-> size]
TickReports ==
    {[base |-> b, cadences |-> {"daily", "weekly"}, hooks |-> h, focusHooks |-> SelectSeq(h, LAMBDA r : r.scope = "A"),
      events |-> <<[fires |-> {Row("daily", "A", 0), Row("weekly", "B", 0)}, size |-> 4]>>,
      decisions |-> <<Row("daily", "none", 2), Row("weekly", "none", 5)>>, tree |-> t] :
        b \in Bases,
        h \in {<<>>, <<Row("daily", "A", 2), Row("daily", "B", 3), Row("weekly", "GLOBAL", 4)>>},
        t \in {<<[depth |-> 0, flagged |-> FALSE], [depth |-> 1, flagged |-> FALSE],
                 [depth |-> 2, flagged |-> FALSE], [depth |-> 1, flagged |-> FALSE]>>}}
TickQuestions ==
    {[kind |-> "report", tool |-> "tick", report |-> r, end |-> e,
      arg |-> [list |-> l, cadence |-> c, tag |-> t, tree |-> tr, nodes |-> 2] @@ Arg(p)] :
        r \in TickReports, e \in {"answer", "timeout"}, l \in {"none", "hooks", "events", "decisions"},
        c \in {"daily", "any", "yearly"}, t \in {"A", "any"}, tr \in BOOLEAN, p \in Pages}
Diagnostic(fatal, suppressed, size) == [fatal |-> fatal, suppressed |-> suppressed, size |-> size]
SpotQuestions ==
    {[kind |-> "report", tool |-> "spot", end |-> e, arg |-> Arg(p),
      report |-> [base |-> b, supported |-> s, findings |-> f, diagnostics |-> d, assumptions |-> a]] :
        b \in Bases, s \in BOOLEAN, f \in Lists, a \in {<<>>, <<3>>}, e \in Ends, p \in Pages,
        d \in {<<>>, <<Diagnostic(TRUE, FALSE, 2), Diagnostic(FALSE, TRUE, 3), Diagnostic(TRUE, TRUE, 1)>>}}
Years == Upto({[events |-> l, peak |-> k] : l \in {<<>>, <<1, 2>>}, k \in {1, 4}}, 2)
EventQuestions ==
    {[kind |-> "report", tool |-> "event", end |-> e, arg |-> [threshold |-> 3] @@ Arg(p),
      report |-> [base |-> b, years |-> y]] : b \in Bases, y \in Years, e \in Ends, p \in Pages}
LogQuestions ==
    {[kind |-> "report", tool |-> "log", end |-> "answer", arg |-> Arg(p),
      report |-> [base |-> b, parsed |-> s,
                  lists |-> [k \in DOMAIN f \cup {"inflation", "conflicts", "politics", "annexations"} |->
                               IF k \in DOMAIN f THEN f[k] ELSE g]]] :
        b \in Bases, s \in BOOLEAN, f \in [{"focus_countries", "economy"} -> Lists], g \in {<<>>, <<1>>},
        p \in Pages}
RenameQuestions ==
    {[kind |-> "report", tool |-> "rename", end |-> e, arg |-> Arg(p),
      report |-> [base |-> b, mapping |-> m, files |-> f]] :
        b \in Bases, m \in Lists, f \in Lists, e \in Ends, p \in Pages}
GdpQuestions ==
    {[kind |-> "report", tool |-> "gdp", end |-> e, arg |-> Arg(<<0, 1>>),
      report |-> [base |-> b, states |-> s, breakdown |-> l]] :
        b \in Bases, s \in {<<>>, <<1>>}, l \in Lists, e \in Ends}
Focus(id, relative, branch, offsets) ==
    [id |-> id, relative |-> relative, branch |-> branch, offsets |-> offsets]
Blocks == {<<Focus(1, 2, "yes", <<"unknown">>), Focus(2, 1, "unknown", <<>>)>>,
           <<Focus(1, 3, "no", <<>>), Focus(1, 0, "yes", <<>>), Focus(2, 3, "yes", <<"yes">>)>>,
           <<Focus(1, 0, "yes", <<>>)>>}
OverlapQuestions ==
    {[kind |-> "report", tool |-> "overlap", end |-> "answer",
      arg |-> [positions |-> ps, adjacent |-> adj] @@ Arg(p),
      report |-> [base |-> b, supported |-> TRUE, blocks |-> bl, expected |-> {1, 2},
                  collisions |-> c, positions |-> l, adjacent |-> l]] :
        b \in Bases, bl \in Blocks, c \in Lists, l \in Lists, ps \in BOOLEAN, adj \in BOOLEAN, p \in Pages}

(* Nested reports: lists of leaves, of lists and of fields.                *)
Leaf == [form |-> "leaf", kids |-> <<>>]
List(kids) == [form |-> "list", kids |-> kids]
Fields(kids) == [form |-> "fields", kids |-> kids]
Plain == {Leaf, List(<<>>), List(<<Leaf, Leaf, Leaf>>)}
Values == Plain \cup {Fields(<<v, w>>) : v, w \in Plain} \cup {List(<<v, w>>) : v, w \in Plain}
          \cup {List(<<Fields(<<Leaf, v>>), Leaf, w>>) : v, w \in Plain}
PathQuestions ==
    {[kind |-> "report", tool |-> "path", end |-> "answer", arg |-> [sections |-> s] @@ Arg(p),
      report |-> [base |-> b, sections |-> [rule |-> v, wiring |-> w, matrix |-> v]]] :
        b \in {1, 7}, v \in Values, w \in Values, p \in Pages,
        s \in {{"all"}, {"wiring"}, {"rule", "matrix"}, {"nonsense"}}}

Trees == {<<[depth |-> 0, flagged |-> FALSE]>> \o [k \in DOMAIN t |-> [depth |-> t[k], flagged |-> FALSE]] :
             t \in {u \in Upto(1..3, 5) : \A k \in DOMAIN u : u[k] <= 1 + (IF k = 1 THEN 0 ELSE u[k - 1])}}
TreeQuestions == {[kind |-> "tree", tree |-> t, limit |-> l] : t \in Trees, l \in 1..4}

Made(q) ==
    CASE q.tool = "tick" -> Reports!TickAudit(q.report, q.arg)
      [] q.tool = "spot" -> Reports!SpotCheck(q.report, q.arg)
      [] q.tool = "event" -> Reports!EventLoad(q.report, q.arg)
      [] q.tool = "log" -> Reports!GameLog(q.report, q.arg)
      [] q.tool = "gdp" -> Reports!EstimateGdp(q.report)
      [] q.tool = "rename" -> Reports!RenameAnswer(q.report, q.arg)
      [] q.tool = "path" -> Reports!AiPath(q.report, q.arg).answer
      [] q.tool = "overlap" -> Reports!FocusOverlap(q.report, q.arg)
Shaped(q, child) ==
    CASE q.tool = "tick" -> Reports!TickAuditTool(child)
      [] q.tool = "spot" -> Reports!SpotCheckTool(child)
      [] q.tool = "event" -> Reports!EventLoadTool(child)
      [] q.tool = "log" -> Reports!GameLogTool(child)
      [] q.tool = "gdp" -> Reports!EstimateGdpTool(child)
      [] q.tool = "rename" -> Reports!RenameTool(child)
      [] q.tool = "path" -> Reports!AiPathTool(child)
      [] q.tool = "overlap" -> Reports!OverlapTool(child, q.arg.positions, q.arg.adjacent)
Answered(q) == Shaped(q, [end |-> q.end, answer |-> Made(q)])
Source(q) ==
    CASE q.tool = "tick" -> Reports!TickSources(q.report, q.arg)
      [] q.tool = "spot" -> Reports!SpotSources(q.report)
      [] q.tool = "log" -> q.report.lists
      [] q.tool = "rename" -> [files |-> q.report.files]
      [] q.tool = "overlap" -> Reports!OverlapSources(q.report, q.arg)
      [] OTHER -> <<>>
(* The years of event_load are all listed, each with a page of its events. *)
YearsShown(q, answer) ==
    LET years == SelectSeq(q.report.years, LAMBDA y : y.events # <<>>)
        shown == IF "years" \in DOMAIN answer.lists THEN answer.lists["years"] ELSE <<>>
    IN  /\ Reports!Size(answer) <= Budget
        /\ answer.ok =>
             /\ answer.meta["years"].returned = Len(shown)
             /\ ~answer.meta["years"].truncated =>
                  /\ "flagged" \in DOMAIN answer.dropped => answer.dropped["flagged"] = 0
                  /\ shown = [k \in DOMAIN years |->
                                1 + Reports!Sum(SubSeq(years[k].events, q.arg.offset + 1,
                                                       Len(years[k].events)))]

(* The answer to a report: none when the child failed, and what it says of *)
(* itself.                                                                 *)
ReportIsWhole(q, answer) ==
    /\ q.end # "answer" => ~answer.ok
    /\ IF q.tool = "event" THEN YearsShown(q, answer)
       ELSE Reports!DescribesItself(answer, Source(q), q.arg.offset)

----------------------------------------------------------------------------
(* Mods: two scripts and a file of the overlay that may shadow one of      *)
(* them, links and strays among them.                                      *)
TreeAt == <<"common", "common", "events", "common", "localisation", "tools", "common">>
ExtAt == <<"txt", "txt", "txt", "txt", "yml", "txt", "md">>
Entry(root, path, text) ==
    [root |-> root, path |-> path, to |-> path, leaves |-> FALSE, ext |-> ExtAt[path],
     tree |-> TreeAt[path], text |-> text, utf8 |-> TRUE, large |-> FALSE]
Link(root, path, to) == [Entry(root, path, <<>>) EXCEPT !.to = to]
Focuses == Entry(2, 1, <<<<"F1", "x">>, <<"F1">>>>)
Old == <<<<"F1">>>>
Overlays == {{}, {Entry(1, 2, <<<<"x">>>>)}, {Entry(1, 3, Old)}, {Entry(1, 1, Old)}, {Link(1, 2, 3)},
             {Link(1, 2, 4), Entry(1, 4, <<<<"F1", "F2">>>>)}, {Link(1, 2, 6), Entry(1, 6, Old)},
             {Link(1, 2, 7), Entry(1, 7, Old)}, {[Entry(1, 2, <<>>) EXCEPT !.leaves = TRUE]}}
Scripts == {{}, {Entry(2, 2, <<<<"F1">>, <<"x", "F2", "F1">>>>)},
            {[Entry(2, 2, Old) EXCEPT !.utf8 = FALSE]}, {Entry(2, 6, Old)}, {Entry(2, 4, <<<<"x">>>>)},
            {Link(2, 2, 4), Entry(2, 4, Old)}}
Locs == {{}, {Entry(2, 5, <<<<"F2", "F1">>>>)}, {Entry(2, 5, Old), Entry(1, 5, <<<<"x">>>>)}}
Disks == {{Focuses} \cup o \cup s \cup l \cup {Entry(2, 3, t)} :
             o \in Overlays, s \in Scripts, l \in Locs, t \in {Old, <<<<"F2">>, <<"F2">>>>}}
Mappings == {[n \in {"F1"} |-> "A_F1"], [n \in {"F1", "F2"} |-> IF n = "F1" THEN "F2" ELSE "F2"], <<>>}
PlanQuestions ==
    {[kind |-> "plan", disk |-> d, focus |-> [path |-> 1, root |-> 2],
      loc |-> {[path |-> 5, root |-> e.root] : e \in {f \in d : f.path = 5 /\ f.root = 2}}, mapping |-> m] :
        d \in Disks, m \in Mappings}
    \cup {[kind |-> "plan", disk |-> d, focus |-> [path |-> 1, root |-> 1], loc |-> {}, mapping |-> m] :
            d \in {c \in Disks : \E e \in c : e.root = 1 /\ e.path = 1}, m \in Mappings}
Requests == {[path |-> p, root |-> r] : p \in 1..3, r \in 0..2}
SpotFileQuestions ==
    {[kind |-> "files", disk |-> d, requests |-> <<q, r>>] : d \in Disks, q, r \in Requests}

----------------------------------------------------------------------------
(* What the mod's scripts report reaches the caller within the budget and  *)
(* counted as it is, and a text is never cut without a warning             *)
(* (UpstreamReports, Response).                                            *)
PagesDescribeThemselves(q) ==
    CASE q.kind = "text" ->
           Reports!TextIsHonest(q.rest, q.note, q.text, Reports!BoundedText(q.rest, q.note, q.text))
      [] q.kind = "tree" -> Reports!TreeIsMarked(q.tree, q.limit)
      [] q.kind = "report" ->
           /\ ReportIsWhole(q, Answered(q))
           /\ q.tool = "path" => Reports!PathIsPaged(q.report, q.arg, Reports!AiPath(q.report, q.arg))
=============================================================================
