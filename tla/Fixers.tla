------------------------------- MODULE Fixers -------------------------------
(***************************************************************************)
(* The fixes a caller is offered and then writes itself: the lint fixers   *)
(* (tools/lint_fixers.py), the standardizers (tools/standardize_tools.py)  *)
(* and the transforms (tools/content_transforms.py).  The rewriting cores  *)
(* are the mod's own scripts, external; what is modelled is which text they*)
(* are given, what is made of their answer, and what is refused.           *)
(*                                                                         *)
(* A line is [what, eol, ids]: what a core takes it for, how it ends ("lf",*)
(* "crlf", "cr", or "none" at the end of the file) and the ids of a log    *)
(* line, right or wrong.  A source is [bom, bad, lines], `bad' marking     *)
(* bytes that are no UTF-8.                                                *)
(***************************************************************************)
EXTENDS Integers, Sequences, FiniteSets, SequencesExt, FiniteSetsExt

CONSTANTS MaxIndexFiles,     \* _MAX_LOCALISATION_INDEX_FILES
          MaxIndexBytes      \* _MAX_LOCALISATION_INDEX_BYTES

Tools == {"styling", "loc_yaml", "line_endings", "log_ids", "changelog", "event_option_logs", "cleanup_or"}
NoPath == [dir |-> "none", ext |-> "none"]

Refused == [ok |-> FALSE, changed |-> FALSE, fixes |-> 0, bom |-> FALSE, given |-> FALSE, txt |-> <<>>]
Count(lines, whats) == Cardinality({i \in DOMAIN lines : lines[i].what \in whats})
Ending(lines, eol) == [i \in DOMAIN lines |-> [lines[i] EXCEPT !.eol = IF @ = "none" THEN @ ELSE eol]]

(* _finish: a fixer may find what it cannot rewrite, and rewrite what it   *)
(* did not count, so the texts are compared.                               *)
BugFinish(source, fixed, fixes) ==
    [ok |-> TRUE, changed |-> fixes > 0, fixes |-> fixes, bom |-> source.bom, given |-> fixes > 0,
     txt |-> IF fixes > 0 THEN fixed ELSE <<>>]
Finish(source, fixed, fixes) ==
    [ok |-> TRUE, changed |-> fixed # source.lines, fixes |-> fixes, bom |-> source.bom,
     given |-> fixed # source.lines, txt |-> IF fixed # source.lines THEN fixed ELSE <<>>]

(* The guards of fix_lint_tool: a request is [fixer, inline, path, source, *)
(* readable, tools]; paths are checked against the fixer only when read.   *)
Fit(q) ==
    /\ q.fixer \in Tools
    /\ q.path = NoPath => q.inline /\ q.fixer \notin {"log_ids", "event_option_logs"}
    /\ q.fixer = "event_option_logs" => q.path.dir = "events"
    /\ q.fixer = "cleanup_or" => q.path.dir # "excluded"
    /\ ~q.inline => /\ q.readable
                    /\ q.fixer = "loc_yaml" => q.path.ext = "yml"
                    /\ q.fixer \in {"styling", "cleanup_or"} => q.path.ext = "txt"
                    /\ q.fixer = "changelog" => q.path.dir = "changelog"
    /\ q.tools \/ q.fixer = "line_endings"

(* fix_line of styling and of loc_yaml.                                    *)
FixedLines(lines) ==
    [i \in DOMAIN lines |-> [lines[i] EXCEPT !.what = IF @ = "loose" THEN "fine" ELSE @]]

Styling(lines) ==
    LET kept == {i \in DOMAIN lines : lines[i].what # "blank"}
        trimmed == SubSeq(lines, 1, IF kept = {} THEN 0 ELSE Max(kept))
    IN  [i \in DOMAIN trimmed |-> [trimmed[i] EXCEPT !.eol = "lf"]]

(* event_option_logs: the detector names lines; one that holds other text  *)
(* too refuses the whole fix.                                              *)
Logless(lines) == SelectSeq(lines, LAMBDA l : l.what # "log")

(* cleanup_or: lines as text mode reads them, the OR pass, then the AND    *)
(* pass over what it left.  Any CRLF in the text makes every line CRLF.    *)
Pass(lines, wrapper) ==
    [i \in DOMAIN lines |-> [lines[i] EXCEPT !.what = IF @ \in DOMAIN wrapper THEN wrapper[@] ELSE @]]
OrPass(lines) == Pass(lines, [w \in {"or", "or_and"} |-> IF w = "or" THEN "fine" ELSE "and"])
AndPass(lines) == Pass(lines, [w \in {"and"} |-> "fine"])

Simplified(source) ==
    LET read == Ending(source.lines, "lf")
        new == AndPass(OrPass(read))
        crlf == \E i \in DOMAIN source.lines : source.lines[i].eol = "crlf"
    IN  IF new = read THEN Finish(source, source.lines, 0)
        ELSE Finish(source, IF crlf THEN Ending(new, "crlf") ELSE new,
                    Count(read, {"or", "or_and"}) + Count(OrPass(read), {"and"}))

(* log_ids: the spans of the wrong ids, replaced by longer ones from the   *)
(* right so that those to the left stay valid.                             *)
Spans(wrong) == SetToSortSeq(wrong, >)
Relogged(line) ==
    LET wrong == {i \in DOMAIN line.ids : line.ids[i] = "wrong"}
        Splice(ids, i) == SubSeq(ids, 1, i - 1) \o <<"right", "tail">> \o SubSeq(ids, i + 1, Len(ids))
    IN  [line EXCEPT !.ids = FoldLeft(Splice, @, Spans(wrong))]
WrongIds(lines) ==
    FoldLeft(LAMBDA n, line : n + Cardinality({i \in DOMAIN line.ids : line.ids[i] = "wrong"}), 0, lines)

(* line_endings works on the bytes and decodes only what it changed.       *)
Unix(source) ==
    LET crlfs == {i \in DOMAIN source.lines : source.lines[i].eol = "crlf"} IN
    IF crlfs # {} /\ source.bad THEN Refused
    ELSE Finish(source, [i \in DOMAIN source.lines |->
                            IF i \in crlfs THEN [source.lines[i] EXCEPT !.eol = "lf"] ELSE source.lines[i]],
                Cardinality(crlfs))

FixLint(q) ==
    LET lines == q.source.lines
        Done(fixed, fixes) == Finish(q.source, fixed, fixes)
    IN
    IF ~Fit(q) THEN Refused
    ELSE IF q.fixer = "line_endings" THEN Unix(q.source)
    ELSE IF q.source.bad THEN Refused
    ELSE CASE q.fixer = "styling" -> Done(Styling(FixedLines(lines)), Count(lines, {"loose"}))
           [] q.fixer = "loc_yaml" -> Done(FixedLines(lines), Count(lines, {"loose", "open"}))
           [] q.fixer = "changelog" ->
                LET ordered == SelectSeq(lines, LAMBDA l : l.what = "heading")
                               \o SelectSeq(lines, LAMBDA l : l.what # "heading")
                IN  Done(ordered, IF ordered # lines THEN 1 ELSE 0)
           [] q.fixer = "event_option_logs" ->
                IF Count(lines, {"shared"}) > 0 THEN Refused
                ELSE Done(Logless(lines), Count(lines, {"log"}))
           [] q.fixer = "cleanup_or" ->
                IF Count(lines, {"unclosed"}) > 0 THEN Refused ELSE Simplified(q.source)
           [] q.fixer = "log_ids" ->
                IF q.path.dir \notin {"focus", "decisions"} THEN Done(lines, 0)
                ELSE Done([i \in DOMAIN lines |-> Relogged(lines[i])], WrongIds(lines))

----------------------------------------------------------------------------
(* standardize_tool: a request is [by, type, ext, detects, source, core,   *)
(* readable, tools]; `core' is what the mod's script makes of the text.    *)
Types == {"focus", "event", "decision", "idea", "mio", "technology", "history", "localisation"}

KindOf(q) ==
    IF q.type # "" THEN q.type
    ELSE IF q.ext = "yml" THEN "localisation" ELSE q.detects

Standardizable(q) ==
    /\ q.by \in {"content", "path"}
    /\ q.type \in Types \cup {""}
    /\ q.by = "content" => q.type # ""
    /\ q.by = "path" => q.readable /\ q.ext \in {"txt", "yml"} /\ ~q.source.bad
    /\ KindOf(q) \in Types
    /\ KindOf(q) = "localisation" => q.by = "content" \/ q.ext = "yml"
    /\ q.tools

(* _standardize_localisation: the header and what follows are reorganised, *)
(* comments above the header stay.                                         *)
Headers(lines) == {i \in DOMAIN lines : lines[i].what = "header"}
Prefix(lines) == SubSeq(lines, 1, Min(Headers(lines)) - 1)
Reorganised(lines) ==
    LET body == SubSeq(lines, Min(Headers(lines)), Len(lines))
        With(whats) == SelectSeq(body, LAMBDA l : l.what \in whats)
    IN  Prefix(lines) \o With({"header", "comment"}) \o With({"entry"}) \o With({"late"})

(* What is returned has no BOM, so a file that had one is changed.         *)
Standardize(q) ==
    LET lines == q.source.lines
        local == KindOf(q) = "localisation"
        output == IF local THEN Reorganised(lines) ELSE IF q.core = "none" THEN lines ELSE Reverse(lines)
    IN  IF ~Standardizable(q) \/ q.core = "raises" \/ (local /\ Headers(lines) = {}) THEN Refused
        ELSE [ok |-> TRUE, changed |-> output # lines \/ q.source.bom, fixes |-> 0,
              bom |-> local /\ q.source.bom, given |-> TRUE, txt |-> output]

----------------------------------------------------------------------------
(* _bounded_localisation_index: every file of every category, the overlay  *)
(* (root 1) first.  A file is [root, dir, name, status, size, tokens]: it  *)
(* can be read, can only be sized, or neither ("gone").  `visits' are      *)
(* (category, directory) pairs in the order of CATEGORY_CONFIG.            *)
Same(file) == <<file.dir, file.name>>
Tokens(file) == IF file.status = "read" THEN file.tokens ELSE {}
Bytes(file) == IF file.status = "gone" THEN 0 ELSE file.size

IndexOf(files, visits) ==
    LET Order(f, g) == f.root < g.root \/ (f.root = g.root /\ f.name < g.name)
        Scan(category, state, file) ==
            LET seen == {s \in state.scanned : Same(s) = Same(file)}
                read == IF seen = {} THEN {file} ELSE seen
                bytes == state.bytes + (IF seen = {} THEN Bytes(file) ELSE 0)
            IN  IF \/ state.over \/ bytes > MaxIndexBytes
                   \/ seen = {} /\ Cardinality(state.scanned) >= MaxIndexFiles
                THEN [state EXCEPT !.over = TRUE]
                ELSE [state EXCEPT !.scanned = @ \cup read, !.bytes = bytes,
                        !.index = @ \cup {<<category, t>> : t \in UNION {Tokens(s) : s \in read}}]
        Visit(state, visit) ==
            FoldLeft(LAMBDA s, f : Scan(visit[1], s, f), state,
                     SetToSortSeq({f \in files : f.dir = visit[2]}, Order))
    IN  FoldLeft(Visit, [scanned |-> {}, bytes |-> 0, index |-> {}, over |-> FALSE], visits)

----------------------------------------------------------------------------
(* transform_tool: a request is [transform, content, output, raises, child,*)
(* action, type]; the logging transform runs in a child of its own, which  *)
(* answers with what was written last.                                     *)
Transforms == {"apply_ai_path_weights", "strip_idea_allowed_gates", "strip_dynmod_tag_gates",
               "add_idea_equipment_bonus_instant", "logging_tool"}
Loggable == {"focus", "event", "idea", "decision", "technology"}

Written(q) == IF q.writes = <<>> THEN q.content ELSE Last(q.writes)

ChildPayload(q) ==
    [ok |-> q.action \in {"add", "remove"} /\ q.type \in Loggable /\ ~q.raises, txt |-> Written(q)]

Logged(q) ==
    LET payload == ChildPayload(q) IN
    [ok |-> q.child = "exits" /\ payload.ok, txt |-> payload.txt]

Transform(q) ==
    LET done == IF q.transform = "logging_tool" THEN Logged(q)
                ELSE [ok |-> ~q.raises, txt |-> Written(q)]
    IN  IF q.transform \notin Transforms \/ ~done.ok THEN [ok |-> FALSE, changed |-> FALSE, txt |-> ""]
        ELSE [ok |-> TRUE, changed |-> done.txt # q.content, txt |-> done.txt]

----------------------------------------------------------------------------
(* A fix says the truth about the text it returns and touches what its     *)
(* fixer is for and nothing else: log ids are replaced one by one whatever *)
(* their lengths, every line of a text simplified by cleanup_or ends in    *)
(* CRLF if one did (mixed ends become uniform), a BOM is reported.         *)
FixIsHonest(q) ==
    LET answer == FixLint(q)
        source == q.source
        result == IF answer.given THEN answer.txt ELSE source.lines
        Whats(lines) == [i \in DOMAIN lines |-> lines[i].what]
        Ends(lines) == {lines[i].eol : i \in DOMAIN lines} \ {"none"}
    IN
    /\ ~answer.ok => ~answer.given
    /\ answer.ok =>
         /\ answer.changed <=> result # source.lines
         /\ answer.bom = source.bom
         /\ q.fixer = "line_endings" => "crlf" \notin Ends(result) /\ Whats(result) = Whats(source.lines)
         /\ q.fixer = "cleanup_or" /\ answer.changed =>
              Ends(result) = IF "crlf" \in Ends(source.lines) THEN {"crlf"} ELSE {"lf"}
         /\ q.fixer = "log_ids" /\ answer.changed =>
              \A i \in DOMAIN result :
                 result[i].ids = FlattenSeq([k \in DOMAIN source.lines[i].ids |->
                     IF source.lines[i].ids[k] = "wrong" THEN <<"right", "tail">>
                     ELSE <<source.lines[i].ids[k]>>])
         /\ q.fixer \notin {"line_endings", "log_ids"} => ~source.bad

(* A standardized text has every line of the source, those above the       *)
(* header in place, and a caller who is told that nothing changed has the  *)
(* bytes of the source in hand.                                            *)
StandardizeIsHonest(q) ==
    LET answer == Standardize(q)
        lines == q.source.lines
        Times(seq, line) == Cardinality({i \in DOMAIN seq : seq[i] = line})
    IN  answer.ok =>
          /\ \A i \in DOMAIN lines : Times(answer.txt, lines[i]) = Times(lines, lines[i])
          /\ ~answer.changed => answer.txt = lines /\ ~q.source.bom
          /\ KindOf(q) = "localisation" => IsPrefix(SubSeq(lines, 1, Min(Headers(lines)) - 1), answer.txt)

(* The categories are those of the files the game would load: a file of    *)
(* the overlay hides the mod's, even one that cannot be read, and "the caps*)
(* count the effective file set".                                          *)
IndexIsEffective(files, visits) ==
    LET answer == IndexOf(files, visits)
        Dirs == {visits[i][2] : i \in DOMAIN visits}
        Wins(f) == \A g \in files : Same(f) = Same(g) => f.root <= g.root
        effective == {f \in files : Wins(f) /\ f.dir \in Dirs}
    IN  /\ answer.over <=> \/ Cardinality(effective) > MaxIndexFiles
                           \/ MapThenSumSet(Bytes, effective) > MaxIndexBytes
        /\ ~answer.over =>
             answer.index = UNION {UNION {{<<visits[i][1], t>> : t \in Tokens(f)} :
                                            f \in {g \in effective : g.dir = visits[i][2]}} :
                                     i \in DOMAIN visits}

(* A transform that failed anywhere, in its child too, returns no text.    *)
TransformIsHonest(q) ==
    LET answer == Transform(q) IN
    IF q.raises \/ (q.transform = "logging_tool" /\ q.child # "exits") THEN ~answer.ok
    ELSE answer.ok => (answer.changed <=> Written(q) # q.content)
=============================================================================
