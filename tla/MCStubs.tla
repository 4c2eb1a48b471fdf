------------------------------ MODULE MCStubs ------------------------------
(***************************************************************************)
(* Questions about localisation lookups and stubs, .gfx merges and the     *)
(* attribution of issues: small sets of files, documents and trees.        *)
(***************************************************************************)
EXTENDS Integers, Sequences, FiniteSets, TLC

Gfx == INSTANCE GfxMerge

Few(S, n) == UNION {[1..k -> S] : k \in 0..n}

(* Localisation files: two languages, headers that agree with the name, or *)
(* not, or are missing; keys 1 to 3.                                       *)
Key(key) == [form |-> "entry", lang |-> "", key |-> key]
Header(lang) == [form |-> "header", lang |-> lang, key |-> 0]
Blank == [form |-> "other", lang |-> "", key |-> 0]
Bodies == {<<>>, <<Key(1)>>, <<Key(1), Blank, Key(1)>>,
           <<Key(2), Key(1)>>}
LocFiles == {[suffix |-> l, lines |-> b] : l \in {"en", "de"}, b \in Bodies}
            \cup {[suffix |-> l, lines |-> <<Header(h)>> \o b] :
                    l \in {"en", "de"}, h \in {"en", "de"}, b \in Bodies}
LookupQuestions == {[kind |-> "lookup", files |-> f, key |-> k, lang |-> l] :
                       f \in Few(LocFiles, 2), k \in 1..2, l \in {"en", "de", "xx"}}

(* Sources: focuses 1 and 2 (keys 2 to 5), events with keys 6 to 9, calls  *)
(* of scripted localisation and names that are no scalar.                  *)
Source(kind, id, found, readable, hidden, title, desc, options) ==
    [kind |-> kind, id |-> id, found |-> found, readable |-> readable, hidden |-> hidden,
     title |-> title, desc |-> desc, options |-> options]
Focus(id, found) == Source("focus", id, found, TRUE, FALSE, <<>>, <<>>, <<>>)
Events == {Source("event", 3, f, r, h, t, d, o) :
             f \in BOOLEAN, r \in BOOLEAN, h \in BOOLEAN, t \in {<<>>, <<6>>, <<6, 0>>},
             d \in {<<7>>, <<0 - 1>>}, o \in {<<>>, <<8, 9>>, <<0>>}}
Asked == {{}} \cup {{Focus(1, a)} : a \in BOOLEAN} \cup {{Focus(1, TRUE), e} : e \in Events}
         \cup {{Focus(1, TRUE), Focus(2, b)} : b \in BOOLEAN}
KnownLoc == {<<>>, <<[suffix |-> "en", lines |-> <<Key(2), Key(7)>>]>>,
             <<[suffix |-> "de", lines |-> <<Key(3)>>]>>}
Cuts == {{}, {"keys"}, {"keys", "text"}}
Spans == {<<0, 9>>, <<0, 2>>, <<2, 2>>, <<9, 3>>, <<0 - 1, 9>>, <<0, 0 - 1>>}
StubQuestions == {[kind |-> "stub", sources |-> s, lang |-> l, files |-> f, span |-> p, cut |-> c] :
                     s \in Asked, l \in {"en", "de"}, f \in KnownLoc, p \in Spans, c \in Cuts}
FileStubQuestions ==
    {[kind |-> "file", sources |-> s, readable |-> r, target |-> [keys |-> k, refused |-> x], files |-> f,
      span |-> p, cut |-> c] :
        s \in {a \in Asked : \A e \in a : e.found /\ e.readable}, r \in BOOLEAN, k \in {{}, {2, 6}},
        x \in BOOLEAN, f \in KnownLoc, p \in Spans, c \in Cuts}
(* Documents of one root or two: blocks of three names, with or without a  *)
(* texture, comments on their line, other text.                            *)
Block(stem, prefixed, tex) == [form |-> "block", name |-> <<stem, prefixed>>, tex |-> tex, own |-> TRUE]
Mine(form) == [Gfx!Item(form) EXCEPT !.own = TRUE]
Items == {Block("a", TRUE, 1), Block("a", TRUE, 0), Block("a", FALSE, 2), Block("b", TRUE, 2),
          Mine("note"), Mine("text")}
Root(items) == <<Mine("open")>> \o items \o <<Mine("close")>>
Documents == {<<>>} \cup {Root(i) : i \in Few(Items, 3)}
             \cup {Root(i) \o Root(j) : i \in Few(Items, 1), j \in Few(Items, 2)}
Images == Few({[stem |-> s, prefixed |-> p] : s \in {"a", "b"}, p \in BOOLEAN}, 2)
MergeQuestions == {[kind |-> "merge", doc |-> d, images |-> i, protected |-> p] :
                      d \in Documents, i \in Images, p \in {{}, {<<"a", TRUE>>}}}
GfxPageQuestions == {[kind |-> "pages", images |-> i, limit |-> l] :
                        i \in Few({[stem |-> s, prefixed |-> TRUE] : s \in {"a", "b", "c"}}, 4), l \in 1..3}

(* Trees whose files share base names and directories.                     *)
PathsOf == {<<"common", "x">>, <<"common", "ideas", "x">>, <<"events", "x">>, <<"events", "ideas", "x">>,
            <<"docs", "y">>}
Said == {<<>>, <<"x">>, <<"y">>, <<"ideas", "x">>, <<"common", "x">>, <<"gone", "x">>}
AttributionQuestions ==
    {[kind |-> "issue", tree |-> [git |-> g, tracked |-> t, present |-> PathsOf],
      issue |-> [file |-> f, tokens |-> k], prefixes |-> p] :
        g \in BOOLEAN, t \in SUBSET PathsOf, f \in Said, k \in Few(Said, 2),
        p \in {{}, {<<"common">>}, {<<"events", "ideas">>, <<"docs">>}}}

=============================================================================
