----------------------------- MODULE References -----------------------------
(***************************************************************************)
(* Two opposite questions about names: where is this one used              *)
(* (analysis/refs.py), and which of those a file defines are used nowhere  *)
(* (analysis/unreferenced.py).  Both read the files of all roots and skip  *)
(* a path that a root of higher priority has.                              *)
(*                                                                         *)
(* A file is [root, path, under, ext, words, parses]; a root is its rank,  *)
(* 1 first, paths are numbers, in the order directories list them, and     *)
(* `under' the scan directories a path lies in.  A word is [name, line,    *)
(* form]: where in the text a name stands, as far as matching tells apart. *)
(***************************************************************************)
EXTENDS Integers, Sequences, FiniteSets, SequencesExt, FiniteSetsExt, Ranks, Totals

CONSTANTS ScanDirs,        \* REFERENCE_SCAN_DIRS of the kind, in order
          CallDirs,        \* _CALL_DIRS
          OddNames,        \* names that are not one \w+ word
          ScanFloor,       \* least page, and matches per page entry, of scan_cap
          ScanFactor

(* definition: `name = {' at the top of a file; call: `name = ...' in      *)
(* code; quoted: the name alone in quotes before `='; comment; inside:     *)
(* part of a longer string; tooltip: custom_effect_tooltip = name; meta: a *)
(* template that can expand to the name.                                   *)
Forms == {"definition", "call", "quoted", "comment", "inside", "tooltip", "meta"}

(* The files a walk reads, root by root and directory by directory: `seen' *)
(* grows with every path, and paths of earlier roots are skipped.          *)
Visible(files, dirs, exts) ==
    LET scanned == {f \in files : f.under \cap dirs # {} /\ f.ext \in exts}
    IN  {f \in scanned : ~\E g \in scanned : g.path = f.path /\ g.root < f.root}

(* _active_matches of _named_definition_pattern: keyword and target are    *)
(* code, or the target is the whole of a quoted value.                     *)
ActiveForms == {"definition", "call", "quoted"}
ActiveMatches(file, target) ==
    {j \in DOMAIN file.words : file.words[j].name = target /\ file.words[j].form \in ActiveForms}

Matches(files, target) ==
    UNION {{<<f, j>> : j \in ActiveMatches(f, target)} : f \in Visible(files, ToSet(ScanDirs), {"txt"})}

(* The order of the walk: by root, directory, file and place.              *)
DirOf(file) == Min({k \in DOMAIN ScanDirs : ScanDirs[k] \in file.under})
Before(a, b) ==
    \/ a[1].root < b[1].root
    \/ /\ a[1].root = b[1].root
       /\ \/ DirOf(a[1]) < DirOf(b[1])
          \/ DirOf(a[1]) = DirOf(b[1]) /\ a[1].path < b[1].path
          \/ a[1] = b[1] /\ a[2] < b[2]
ScanOrder(matches) == Ranked(matches, [b \in matches |-> {a \in matches : Before(a, b)}])

ScanCap(limit, offset) == Max({limit + offset, ScanFloor}) * ScanFactor
Slice(seq, offset, limit) == SubSeq(seq, offset + 1, Min({offset + limit, Len(seq)}))

(* find_references, as a list of matches: the scan stops at the cap, the   *)
(* page is cut from what it found.                                         *)
FindReferences(files, target, offset, limit) ==
    LET all == ScanOrder(Matches(files, target))
        cap == ScanCap(limit, offset)
        found == SubSeq(all, 1, Min({cap, Len(all)}))
        page == Slice(found, offset, limit)
    IN  [matches |-> [i \in DOMAIN page |-> [path |-> page[i][1].path, line |-> page[i][1].words[page[i][2]].line]],
         total |-> Len(found),
         truncated |-> offset + limit < Len(found),
         scanTruncated |-> Len(all) >= cap]

(* The same, as hits per file, which no cap cuts, most hits first.         *)
FilesOnly(files, target, offset, limit) ==
    LET hits == {[path |-> f.path, hits |-> Cardinality(ActiveMatches(f, target))] :
                    f \in Visible(files, ToSet(ScanDirs), {"txt"})}
        some == {h \in hits : h.hits > 0}
        listed == Ranked(some, [h \in some |->
                     {g \in some : g.hits > h.hits \/ (g.hits = h.hits /\ g.path < h.path)}])
    IN  [files |-> Slice(listed, offset, limit),
         total |-> Len(listed), truncated |-> offset + limit < Len(listed)]

----------------------------------------------------------------------------
(* The index of the kind: a definition in a file that could be parsed.     *)
Indexed(files) == {f \in Visible(files, {"common/scripted_effects"}, {"txt"}) : f.parses}
Defined(file) == {w.name : w \in {v \in ToSet(file.words) : v.form = "definition"}}
Definitions(files) ==
    UNION {{<<w.name, f.path, w.line>> : w \in {v \in ToSet(f.words) : v.form = "definition"}} :
             f \in Indexed(files)}

(* _call_hits and _meta_candidates: once per name and line.                *)
BugCallHits(file, names) ==
    {<<w.name, file.path, w.line>> : w \in {v \in ToSet(file.words) :
        /\ v.name \in names
        /\ \/ v.form \in {"definition", "call", "meta"}
           \/ v.form = "tooltip" /\ v.name \notin OddNames}}
CallHits(file, names) ==
    {<<w.name, file.path, w.line>> : w \in {v \in ToSet(file.words) :
        /\ v.name \in names
        /\ \/ v.form \in ActiveForms \cup {"meta"}
           \/ v.form = "tooltip" /\ v.name \notin OddNames}}

(* analyse: hits that are not definitions, over all roots.                 *)
Counts(files, names) ==
    LET hits == UNION {CallHits(f, names) : f \in Visible(files, CallDirs, {"txt"})}
    IN  [n \in names |-> Cardinality({h \in hits : h[1] = n /\ h \notin Definitions(files)})]

(* find_unreferenced of a file, with the names the configuration allows.   *)
FindUnreferenced(files, file, allowed, offset, limit) ==
    LET names == Defined(file)
        counts == Counts(files, names)
        idle == {n \in names : counts[n] = 0}
    IN  IF file \notin Indexed(files)
        THEN [ok |-> FALSE, unreferenced |-> {}, allowlisted |-> {}, total |-> 0, truncated |-> FALSE]
        ELSE [ok |-> TRUE, unreferenced |-> idle \ allowed, allowlisted |-> idle \cap allowed,
              total |-> Cardinality(names),
              truncated |-> offset + limit < Max({Cardinality(idle \ allowed), Cardinality(idle \cap allowed)})]

----------------------------------------------------------------------------
(* The docstring of unreferenced.py: the scripted kinds "use the           *)
(* find_references semantics".  A name that is reported as unreferenced    *)
(* has no match of find_references but its own definitions, although the   *)
(* two walk different directories and read matches in different ways.      *)
UnusedHasNoUse(files) ==
    \A f \in files : LET report == FindUnreferenced(files, f, {}, 0, 1) IN
        report.ok => \A n \in report.unreferenced :
            LET uses == FindReferences(files, n, 0, 100) IN
            \A m \in ToSet(uses.matches) : <<n, m.path, m.line>> \in Definitions(files)

(* "The scan still runs to completion so `total' is accurate": unless the  *)
(* answer says that the scan was cut, its total is every active match in   *)
(* the file that the game reads at each path, and pages of one size, each  *)
(* with a cap of its own, add up to it.                                    *)
TotalsAreExact(files, target, limit) ==
    LET Owner(path) == {f \in files : f.path = path /\ f.under \cap ToSet(ScanDirs) # {} /\ f.ext = "txt"
                                      /\ \A g \in files : g.path = path => f.root <= g.root}
        sites == UNION {{<<path, k>> : k \in UNION {ActiveMatches(f, target) : f \in Owner(path)}} :
                        path \in {f.path : f \in files}}
        Page(k) == FindReferences(files, target, k * limit, limit)
        last == CHOOSE k \in 0..Cardinality(sites) : ~Page(k).truncated /\ \A j \in 0..(k - 1) : Page(j).truncated
    IN  /\ ~Page(0).scanTruncated => Page(0).total = Cardinality(sites)
        /\ (\A k \in 0..last : ~Page(k).scanTruncated) =>
              Total([k \in 0..last |-> Len(Page(k).matches)]) = Cardinality(sites)

(* The two, for a question about one or the other.                         *)
ReferencesAgree(q) ==
    /\ q.kind = "unused" => UnusedHasNoUse(q.files)
    /\ q.kind = "totals" => TotalsAreExact(q.files, q.target, q.limit)
=============================================================================
