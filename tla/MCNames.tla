------------------------------ MODULE MCNames ------------------------------
(***************************************************************************)
(* Questions about references, unreferenced names and the reference audit: *)
(* every small mod of a family.                                            *)
(***************************************************************************)
EXTENDS Integers, Sequences, FiniteSets, TLC

CONSTANTS ScanDirs, CallDirs, OddNames, ScanFloor, ScanFactor

Refs == INSTANCE References

Word(name, line, form) == [name |-> name, line |-> line, form |-> form]
Def(name, line) == Word(name, line, "definition")
File(root, path, under, words, parses) ==
    [root |-> root, path |-> path, under |-> under, ext |-> "txt", words |-> words, parses |-> parses]

(* A mod and an overlay: a file of definitions, and one of events, each    *)
(* possibly shadowed; a third in a directory only one of the two scans.    *)
Effects == {"common", "common/scripted_effects"}
Uses == {<<Word(n, 2, form)>> : n \in {"a", "o"}, form \in Refs!Forms \ {"definition"}}
Defs == {<<>>, <<Def("a", 1)>>, <<Def("a", 1), Def("o", 2)>>, <<Def("a", 1), Word("a", 1, "call")>>}
Overlays == {<<>>, <<Def("o", 1)>>, <<Def("a", 1), Word("o", 1, "quoted")>>}
Mods ==
    {{File(2, 1, Effects, d, p), File(2, 2, {"events"}, u, TRUE)} \cup o1 \cup o2 \cup h :
        d \in Defs, p \in BOOLEAN,
        u \in Uses \cup {<<>>, <<Word("a", 2, "call"), Word("a", 2, "quoted"), Word("a", 3, "call")>>},
        o1 \in {{}} \cup {{File(1, 1, Effects, w, TRUE)} : w \in Overlays},
        o2 \in {{}} \cup {{File(1, 2, {"events"}, w, TRUE)} : w \in {<<>>, <<Word("a", 5, "call")>>}},
        h \in {{}, {File(2, 3, {"history"}, <<Word("o", 1, "call")>>, TRUE)}}}

NameQuestions == {[kind |-> "unused", files |-> m] : m \in Mods}
TotalQuestions == {[kind |-> "totals", files |-> m, target |-> "a", limit |-> l] : m \in Mods, l \in 1..2}

(* Nodes in the order of the text; a block around the nodes given.         *)
Node(name, form, sym) == <<[name |-> name, form |-> form, sym |-> sym, up |-> 0]>>
Sym(name, sym) == Node(name, "symbol", sym)
Bare(name) == Node(name, "bare", "")
Joined(a, b) == a \o [k \in DOMAIN b |-> [b[k] EXCEPT !.up = IF @ = 0 THEN 0 ELSE Len(a) + @]]
Block(name, kids) ==
    Node(name, "block", "") \o [k \in DOMAIN kids |-> [kids[k] EXCEPT !.up = 1 + @]]

Nodes == {Sym("has_idea", "i1"), Block("add_ideas", Bare("i1") \o Bare("i2") \o Sym("idea", "x")),
          Block("focus", Joined(Sym("id", "f1") \o Sym("icon", "g1"),
                                Block("prerequisite", Sym("focus", "f2")))),
          Block("country_event", Sym("id", "v1")),
          Block("set_technology", Sym("t1", "1") \o Sym("popup", "yes")),
          Block("limit", Joined(Block("change_tag", Sym("tag", "A")), Sym("e1", "yes"))),
          Sym("original_tag", "ROOT"), Sym("picture", "p.dds")}
Kinds == {"focus", "event", "idea", "sprite", "country_tag", "technology", "scripted_effect", "loc"}
KindSets == {Kinds, {"idea", "loc"}, {"sprite", "scripted_effect", "technology"}}
Definitions == {{}, {<<"idea", "i1">>, <<"technology", "t1">>, <<"loc", "f1">>},
                {<<"focus", "f2">>, <<"event", "v1">>, <<"scripted_effect", "e1">>, <<"idea", "i2">>},
                {<<"sprite", "GFX_g1">>, <<"country_tag", "A">>, <<"scripted_effect", "e1">>}}
Feeds(defines) == {d[1] : d \in defines}
Source(path, status, nodes, defines) ==
    [path |-> path, status |-> status, nodes |-> nodes, defines |-> defines, feeds |-> Feeds(defines)]
AuditQuestions ==
    {[kind |-> "audit", kinds |-> k, scope |-> p[1], offset |-> p[2], limit |-> p[3],
      files |-> {Source("f1", st[1], Joined(n, m), {<<"loc", "f1_desc">>}), Source("f2", st[2], m, d)}] :
        k \in KindSets, p \in {<<<<"f1">>, 0, 1>>, <<<<"f1", "f2">>, 0, 0 - 1>>, <<<<"f2", "f2", "f1">>, 0, 2>>},
        st \in {<<"parsed", "parsed">>, <<"parsed", "broken">>, <<"broken", "parsed">>},
        n \in Nodes, m \in {Bare("i1")} \cup {b \in Nodes : b[1].form = "block" /\ b[1].name # "focus"},
        d \in Definitions}

=============================================================================
