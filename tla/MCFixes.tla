------------------------------ MODULE MCFixes ------------------------------
(***************************************************************************)
(* Questions about the fixes a caller is offered: short texts of every kind*)
(* of line a fixer tells apart, with mixed line ends, and small mods with  *)
(* an overlay.                                                             *)
(***************************************************************************)
EXTENDS Integers, Sequences, FiniteSets, TLC

CONSTANTS MaxIndexFiles, MaxIndexBytes

Fix == INSTANCE Fixers

Line(what, eol) == [what |-> what, eol |-> eol, ids |-> <<>>]
Log(ids) == [what |-> "log", eol |-> "lf", ids |-> ids]
Text(bom, bad, lines) == [bom |-> bom, bad |-> bad, lines |-> lines]
LinesOf(whats, eols) == {Line(w, e) : w \in whats, e \in eols}
Upto(S, n) == UNION {[1..k -> S] : k \in 0..n}

At(dir, ext) == [dir |-> dir, ext |-> ext]
Paths == {Fix!NoPath, At("focus", "txt"), At("events", "txt"), At("localisation", "yml"),
          At("excluded", "txt"), At("changelog", "txt")}

(* The lines each fixer is shown.                                          *)
Shown(fixer) ==
    CASE fixer = "styling" -> LinesOf({"fine", "loose", "blank"}, {"lf"})
      [] fixer = "loc_yaml" -> LinesOf({"fine", "loose", "open"}, {"lf"})
      [] fixer = "changelog" -> LinesOf({"heading", "item"}, {"lf"})
      [] fixer = "event_option_logs" -> LinesOf({"log", "shared", "other"}, {"lf", "crlf"})
      [] fixer = "cleanup_or" -> LinesOf({"fine", "or", "or_and", "and", "unclosed"}, {"lf", "crlf", "cr"})
      [] fixer = "log_ids" -> {Log(ids) : ids \in Upto({"right", "wrong"}, 3)}
      [] OTHER -> LinesOf({"fine"}, {"lf", "crlf", "cr"})

(* Every guard on the shortest texts, every text past the guards.          *)
Ask(fixer, inline, path, readable, tools, source) ==
    [kind |-> "fix", fixer |-> fixer, inline |-> inline, path |-> path, readable |-> readable,
     tools |-> tools, source |-> source]
GuardQuestions(fixer) ==
    {Ask(fixer, i, p, r, t, Text(bom, bad, lines)) :
        i \in BOOLEAN, p \in Paths, r \in BOOLEAN, t \in BOOLEAN, bom \in BOOLEAN, bad \in BOOLEAN,
        lines \in Upto(Shown(fixer), 1)}
TextQuestions(fixer) ==
    {Ask(fixer, TRUE, IF fixer = "event_option_logs" THEN At("events", "txt") ELSE At("focus", "txt"),
         TRUE, TRUE, Text(FALSE, FALSE, lines)) :
        lines \in Upto(Shown(fixer), IF fixer \in {"cleanup_or", "log_ids"} THEN 2 ELSE 3)}
FixQuestions(fixer) == GuardQuestions(fixer) \cup TextQuestions(fixer)
NoFixer == GuardQuestions("tidy")

Loc == {Line(w, "lf") : w \in {"comment", "header", "entry", "late"}}
StandardQuestions ==
    {[kind |-> "standardize", by |-> b, type |-> t, ext |-> e, detects |-> d, core |-> c,
      readable |-> r, tools |-> r, source |-> Text(bom, bad, lines)] :
        b \in {"content", "path", "both"}, t \in {"", "focus", "localisation", "gui"},
        e \in {"txt", "yml", "png"}, d \in {"focus", "none"}, c \in {"none", "reversed", "raises"},
        r \in BOOLEAN, bom \in BOOLEAN, bad \in BOOLEAN,
        lines \in {<<>>, <<Line("entry", "lf")>>} \cup [1..2 -> Loc]
                  \cup {<<Line("comment", "lf"), Line("header", "lf"), Line("late", "lf"), Line("entry", "lf")>>}}

Script(root, dir, name, status, tokens) ==
    [root |-> root, dir |-> dir, name |-> name, status |-> status, size |-> Cardinality(tokens),
     tokens |-> tokens]
Statuses == {"read", "sized", "gone"}
Mods == {{Script(2, d[1], 1, "read", {"a"}), Script(2, d[2], 2, r, {"b"})} \cup o \cup p :
            d \in {"ideas", "decisions"} \X {"ideas", "decisions"}, r \in Statuses,
            o \in {{}} \cup {{Script(1, e, 1, s, {"c"})} : e \in {"ideas", "decisions"}, s \in Statuses},
            p \in {{}} \cup {{Script(1, e, 3, "read", {"a", "d"})} : e \in {"ideas", "events"}}}
IndexQuestions == {[kind |-> "index", files |-> m, visits |-> v] : m \in Mods,
    v \in {<<<<"Ideas", "ideas">>, <<"Decisions", "decisions">>>>,
           <<<<"Ideas", "ideas">>, <<"Traits", "ideas">>, <<"Traits", "decisions">>>>}}

TransformQuestions ==
    {[kind |-> "transform", transform |-> t, content |-> "x", writes |-> w, raises |-> r, child |-> c,
      action |-> a, type |-> y] :
        t \in Fix!Transforms \cup {"other"}, w \in Upto({"x", "y"}, 2), r \in BOOLEAN,
        c \in {"exits", "timeout", "garbled"}, a \in {"add", "drop"}, y \in {"focus", "mio"}}

----------------------------------------------------------------------------
(* A fix, a standardized text or a transformed one is what the answer says *)
(* it is, and what its tool is for; and localisation keys are sorted by the*)
(* files the game loads (Fixers).                                          *)
FixesAreHonest(q) ==
    CASE q.kind = "fix" -> Fix!FixIsHonest(q)
      [] q.kind = "standardize" -> Fix!StandardizeIsHonest(q)
      [] q.kind = "index" -> Fix!IndexIsEffective(q.files, q.visits)
      [] q.kind = "transform" -> Fix!TransformIsHonest(q)
=============================================================================
