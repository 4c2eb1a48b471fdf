---------------------------- MODULE Localisation ----------------------------
(***************************************************************************)
(* Localisation keys: where one is looked up (indexes/localisation.py), and*)
(* the stub of those that focuses, events and files still lack             *)
(* (generators/missing_loc.py).                                            *)
(*                                                                         *)
(* Files are a sequence in the order of their paths; a file is [suffix,    *)
(* lines], a line [form, lang, key]: a header and its language, an entry   *)
(* and its key, or neither.  Keys are numbers, in their order: positive    *)
(* ones are YAML keys, negative ones calls of scripted localisation, and   *)
(* Odd stands for a name that is no scalar.                                *)
(***************************************************************************)
EXTENDS Integers, Sequences, FiniteSets, SequencesExt, FiniteSetsExt, Ranks

CONSTANTS Langs,     \* LANG_ISO_TO_SUFFIX, one name for a code and its suffix
          English

Odd == 0
Nowhere == <<0, 0>>

(* _parse_loc_file: the last header, or the suffix, is the language of     *)
(* every key of the file.                                                  *)
Header(file) ==
    LET headers == {j \in DOMAIN file.lines : file.lines[j].form = "header"} IN
    IF headers = {} THEN file.suffix ELSE file.lines[Max(headers)].lang

Entries(file, key) ==
    {j \in DOMAIN file.lines : file.lines[j].form = "entry" /\ file.lines[j].key = key}

LastPlace(places) ==
    IF places = {} THEN Nowhere
    ELSE CHOOSE p \in places : \A o \in places : o[1] < p[1] \/ (o[1] = p[1] /\ o[2] <= p[2])

(* _by_key of the index, whose files are those of the indexed suffixes.    *)
Indexed(files, held, lang, key) ==
    LastPlace(UNION {{<<i, j>> : j \in Entries(files[i], key)} :
                       i \in {k \in DOMAIN files : files[k].suffix \in held /\ Header(files[k]) = lang}})

(* by_key of _scan_lang: the files of the suffix, whatever their header.   *)
BugScanned(files, lang, key) ==
    LET found == {k \in DOMAIN files : files[k].suffix = lang /\ Entries(files[k], key) # {}} IN
    IF found = {} THEN Nowhere ELSE <<Min(found), Max(Entries(files[Min(found)], key))>>
Scanned(files, lang, key) ==
    LastPlace(UNION {{<<i, j>> : j \in Entries(files[i], key)} :
                       i \in {k \in DOMAIN files : files[k].suffix = lang}})

Lookup(files, held, lang, key) ==
    IF lang \in held THEN Indexed(files, held, lang, key) ELSE Scanned(files, lang, key)

(* resolve: the language asked for, then English.                          *)
Resolve(files, held, key, lang) ==
    LET hit == Lookup(files, held, lang, key)
        fallback == Lookup(files, held, English, key)
    IN  IF lang \notin Langs THEN [at |-> Nowhere, lang |-> lang]
        ELSE IF hit # Nowhere \/ lang = English THEN [at |-> hit, lang |-> lang]
        ELSE [at |-> fallback, lang |-> English]

(* list_keys                                                               *)
ListKeys(files, held, keys, lang) ==
    IF lang \notin Langs THEN {} ELSE {k \in keys : Lookup(files, held, lang, k) # Nowhere}

----------------------------------------------------------------------------
(* What an id needs.  A source is [kind, id, found, readable, hidden,      *)
(* title, desc, options]: the last three are the keys its event names.     *)
NameOf(id) == 2 * id
DescOf(id) == 2 * id + 1

(* Variants of a title or description each name a key of their own.        *)
Needs(source) ==
    IF source.kind # "event" THEN {NameOf(source.id), DescOf(source.id)}
    ELSE ToSet(source.title) \cup ToSet(source.desc) \cup ToSet(source.options)

(* A title or description may only be missing from a hidden event.         *)
Fails(source) ==
    /\ source.kind = "event"
    /\ Odd \in Needs(source) \/ (~source.hidden /\ <<>> \in {source.title, source.desc})

(* paginate: negative bounds count as zero.                                *)
Clamped(n) == IF n < 0 THEN 0 ELSE n
Paged(seq, offset, limit) == Clamped(offset) + Clamped(limit) < Len(seq)
Slice(seq, offset, limit) ==
    SubSeq(seq, Clamped(offset) + 1,
           IF Paged(seq, offset, limit) THEN Clamped(offset) + Clamped(limit) ELSE Len(seq))

Sorted(keys) == Ranked(keys, [k \in keys |-> {j \in keys : j < k}])

NoStub == [ok |-> FALSE, complete |-> FALSE, total |-> 0, returned |-> 0, truncated |-> FALSE,
           keys |-> <<>>, text |-> <<>>]

(* The answer over a set of candidate keys; `cut' is what the budget left  *)
(* no room for: the keys, or the keys and the text.                        *)
Stub(candidates, excused, whole, files, held, offset, limit, cut) ==
    LET missing == Sorted({k \in candidates : /\ k > 0 /\ k \notin excused
                                              /\ Resolve(files, held, k, English).at = Nowhere})
        selected == Slice(missing, offset, limit)
        paged == Paged(missing, offset, limit)
        dropped == cut # {}
    IN  [ok |-> TRUE, total |-> Len(missing),
         complete |-> whole /\ offset = 0 /\ ~paged /\ ~dropped,
         returned |-> IF dropped THEN 0 ELSE Len(selected),
         truncated |-> IF dropped THEN missing # <<>> ELSE paged,
         keys |-> IF dropped THEN <<>> ELSE selected,
         text |-> IF "text" \in cut THEN <<>> ELSE selected]

(* generate_missing_loc_tool: ids that do not resolve, sources that cannot *)
(* be read and names that are no scalar are reported.                      *)
MissingLoc(sources, lang, files, held, offset, limit, cut) ==
    LET used == {s \in sources : s.found /\ (s.kind = "event" => s.readable)} IN
    IF sources = {} \/ lang # English THEN NoStub
    ELSE Stub(UNION {Needs(s) : s \in used}, {}, used = sources /\ ~\E s \in used : Fails(s),
              files, held, offset, limit, cut)

(* _generate_file_missing_loc: every definition of one file, less the keys *)
(* of the target file; a target that is to be created needs a header.      *)
FileMissingLoc(source, target, files, held, offset, limit, cut) ==
    LET candidates == (UNION {Needs(s) : s \in source.defines}) \ {Odd}
        stub == Stub(candidates, target.keys, ~\E s \in source.defines : Fails(s),
                     files, held, offset, limit, cut)
    IN  IF ~source.readable \/ candidates = {} \/ target.refused THEN NoStub ELSE stub

----------------------------------------------------------------------------
(* Where files are named for the language of their header, which languages *)
(* are indexed changes nothing: every lookup and list is the same from the *)
(* index and from a scan, and an answer in English means that the language *)
(* asked for has no such key.                                              *)
NamedByHeader(files) == \A i \in DOMAIN files : Header(files[i]) = files[i].suffix

LookupsAgree(files, key, lang) ==
    NamedByHeader(files) =>
        \A held \in SUBSET Langs :
            LET answer == Resolve(files, held, key, lang) IN
            /\ answer = Resolve(files, {}, key, lang)
            /\ answer.lang # lang => Lookup(files, held, lang, key) = Nowhere
            /\ ListKeys(files, held, {key}, lang) = ListKeys(files, {}, {key}, lang)

(* A stub that calls itself complete leaves no key of what was asked       *)
(* undefined, and no stub defines a key the game already has.              *)
StubIsComplete(answer, sources, defined) ==
    LET needed == {k \in UNION {Needs(s) : s \in sources} : k >= 0} IN
    /\ answer.ok =>
         /\ ToSet(answer.text) \cap defined = {}
         /\ answer.complete => needed \subseteq ToSet(answer.text) \cup defined
         /\ answer.returned = Len(answer.keys)
    /\ answer.complete => /\ answer.text = answer.keys
                          /\ ~\E s \in sources : ~s.found \/ (s.kind = "event" /\ ~s.hidden /\ s.title = <<>>)

(* The two together, for a question about a lookup, the stub of ids or the *)
(* stub of a file: what the stub may leave out is what a scan finds, the   *)
(* index of English or not.                                                *)
StubsAreComplete(q) ==
    LET defined == {k \in UNION {Needs(s) : s \in q.sources} : Resolve(q.files, {}, k, English).at # Nowhere}
        ofIds == MissingLoc(q.sources, q.lang, q.files, {English}, q.span[1], q.span[2], q.cut)
        ofFile == FileMissingLoc([readable |-> q.readable, defines |-> q.sources], q.target,
                                 q.files, {English}, q.span[1], q.span[2], q.cut)
    IN  /\ q.kind = "lookup" => LookupsAgree(q.files, q.key, q.lang)
        /\ q.kind = "stub" => StubIsComplete(ofIds, q.sources, defined)
        /\ q.kind = "file" => StubIsComplete(ofFile, q.sources, defined \cup q.target.keys)
=============================================================================
