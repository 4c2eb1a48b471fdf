----------------------------- MODULE RenamePlan -----------------------------
(***************************************************************************)
(* Which files the child process reads over the mod and its overlay        *)
(* (tools/upstream_analysis_shim.py): the files of a spot check, the one   *)
(* of an overlap report, and the plan that renames focus ids everywhere.   *)
(*                                                                         *)
(* Roots are ranks, 1 the overlay; paths are numbers, which orders them.   *)
(* The disk is a set of entries [root, path, to, leaves, ext, tree, text,  *)
(* utf8, large]: a file, or a link to the path `to' of its root, or out of *)
(* it (`leaves'); `tree' is the scan tree it lies in.  A text is a         *)
(* sequence of lines, a line a sequence of names.                          *)
(***************************************************************************)
EXTENDS Integers, Sequences, FiniteSets, SequencesExt, FiniteSetsExt, Ranks

CONSTANTS Roots,         \* configured roots that exist
          ScanTrees,     \* RENAME_SCAN_TREES
          ScanExts       \* RENAME_SCAN_SUFFIXES

At(disk, root, path) == {e \in disk : e.root = root /\ e.path = path}
IsLink(e) == e.to # e.path \/ e.leaves
File(disk, root, path) == CHOOSE e \in disk : e.root = root /\ e.path = path
Resolves(disk, e) == ~e.leaves /\ At(disk, e.root, e.to) # {} /\ ~IsLink(File(disk, e.root, e.to))

----------------------------------------------------------------------------
(* _validated_spot_files: a request is [path, root] (0: relative to a root *)
(* still to be found).  The first root with any entry there decides, and   *)
(* an unusable one refuses the request; one root for each path.            *)
SpotOwner(disk, request) ==
    LET roots == IF request.root = 0 THEN Roots ELSE Roots \cap {request.root}
        present == {r \in roots : At(disk, r, request.path) # {}}
        first == File(disk, Min(present), request.path)
    IN  IF present = {} \/ IsLink(first) \/ first.ext # "txt" THEN 0 ELSE Min(present)

SpotFiles(disk, requests) ==
    LET chosen == {[path |-> r.path, root |-> SpotOwner(disk, r)] : r \in ToSet(requests)}
        invalid == \/ \E c \in chosen : c.root = 0
                   \/ \E c, d \in chosen : c.path = d.path /\ c # d
    IN  IF invalid THEN {} ELSE chosen

(* _focus_source_path: the first root where the path is a regular .txt     *)
(* file reached through no link; a large one is refused.                   *)
FocusSource(disk, path) ==
    LET usable == {r \in Roots : \E e \in At(disk, r, path) : ~IsLink(e) /\ e.ext = "txt"}
        found == File(disk, Min(usable), path)
    IN  IF usable = {} \/ found.large THEN 0 ELSE Min(usable)

----------------------------------------------------------------------------
(* _rename_focus_ids.  Scanned entries of a root, by where they resolve;   *)
(* one that leaves its root, or lands outside the scan trees, refuses the  *)
(* whole plan.                                                             *)
Scanned(disk, root) == {e \in disk : e.root = root /\ e.tree \in ScanTrees /\ e.ext \in ScanExts}
Strays(disk) ==
    \E e \in UNION {Scanned(disk, r) : r \in Roots} :
        e.leaves \/ \E t \in At(disk, e.root, e.to) : t.tree \notin ScanTrees \/ t.ext \notin ScanExts

(* entries: a path belongs to the first root that has it; the focus and    *)
(* localisation files, whatever their directory, to their own.             *)
Entries(disk, owned) ==
    LET real == {e \in UNION {Scanned(disk, r) : r \in Roots} : Resolves(disk, e)}
        found == {[path |-> e.to, root |-> e.root] : e \in real}
        first == {f \in found : ~\E g \in found : g.path = f.path /\ g.root < f.root}
    IN  {[path |-> f.path, root |-> f.root, kind |-> "script"] :
             f \in {g \in first : ~\E o \in owned : o.path = g.path}}
        \cup owned

Shadowed(disk, file) == \E r \in Roots : r < file.root /\ At(disk, r, file.path) # {}

(* transform and _CountingMapping: scripts and the focus file line by      *)
(* line, localisation whole; a name counts when its new name differs.      *)
Renamed(mapping, name) == IF name \in DOMAIN mapping THEN mapping[name] ELSE name
Transform(mapping, text) == [l \in DOMAIN text |-> [w \in DOMAIN text[l] |-> Renamed(mapping, text[l][w])]]
Changing(mapping, text, l) == {w \in DOMAIN text[l] : Renamed(mapping, text[l][w]) # text[l][w]}
Replacements(mapping, text) ==
    Cardinality(UNION {{l} \X Changing(mapping, text, l) : l \in DOMAIN text})

(* `ordered': by root, then by path.                                       *)
InOrder(entries) ==
    Ranked(entries, [e \in entries |->
        {f \in entries : f.root < e.root \/ (f.root = e.root /\ f.path < e.path)}])

(* Rewriting the entries one after the other, with one counter for all.    *)
BugPlanStep(disk, mapping, state, entry) ==
    LET text == File(disk, entry.root, entry.path).text
        counted == state.counter + Replacements(mapping, text)
    IN  IF Transform(mapping, text) = text THEN state
        ELSE [state EXCEPT !.counter = counted,
                !.changed = Append(@, [path |-> entry.path, root |-> entry.root, n |-> counted])]
PlanStep(disk, mapping, state, entry) ==
    LET text == File(disk, entry.root, entry.path).text
        counted == state.counter + Replacements(mapping, text)
    IN  IF ~File(disk, entry.root, entry.path).utf8 THEN [state EXCEPT !.unreadable = TRUE]
        ELSE IF Transform(mapping, text) = text THEN [state EXCEPT !.counter = 0]
        ELSE [state EXCEPT !.counter = 0,
                !.changed = Append(@, [path |-> entry.path, root |-> entry.root, n |-> counted])]

Plan(disk, mapping, order) ==
    LET after[k \in 0..Len(order)] ==
            IF k = 0 THEN [changed |-> <<>>, counter |-> 0, unreadable |-> FALSE]
            ELSE PlanStep(disk, mapping, after[k - 1], order[k])
    IN  after[Len(order)]

Refused == [ok |-> FALSE, changed |-> <<>>, page |-> <<>>, total |-> 0, truncated |-> FALSE]
Owned(focus, loc) ==
    {[path |-> focus.path, root |-> focus.root, kind |-> "focus"]}
    \cup {[path |-> l.path, root |-> l.root, kind |-> "loc"] : l \in loc}

RenameFocusIds(disk, focus, loc, mapping, offset, limit) ==
    LET owned == Owned(focus, loc)
        planned == Plan(disk, mapping, InOrder(Entries(disk, owned)))
        total == Len(planned.changed)
    IN  IF \/ ~File(disk, focus.root, focus.path).utf8
           \/ DOMAIN mapping = {}
           \/ Strays(disk)
           \/ \E o \in owned : Shadowed(disk, o)
           \/ planned.unreadable
        THEN Refused
        ELSE [ok |-> TRUE, changed |-> planned.changed, total |-> total,
              page |-> SubSeq(planned.changed, offset + 1, Min({offset + limit, total})),
              truncated |-> offset + limit < total]

(* The same call with path=: the new text of one planned file.             *)
Preview(disk, focus, loc, mapping, path, root) ==
    LET owned == Owned(focus, loc)
        asked == {e \in Entries(disk, owned) : e.path = path /\ e.root = root}
        text == File(disk, root, path).text
    IN  IF asked = {} \/ DOMAIN mapping = {} \/ Strays(disk) \/ (\E o \in owned : Shadowed(disk, o))
           \/ ~File(disk, root, path).utf8 \/ ~File(disk, focus.root, focus.path).utf8
        THEN [ok |-> FALSE, changed |-> FALSE, text |-> <<>>]
        ELSE [ok |-> TRUE, changed |-> Transform(mapping, text) # text, text |-> Transform(mapping, text)]

----------------------------------------------------------------------------
(* "Resolve explicit files overlay-first without allowing unsafe shadow    *)
(* fallback": a file that is scanned is regular, no path is scanned twice, *)
(* and a path asked for by name is never read below an entry of a root     *)
(* above, usable or not.                                                   *)
SpotFilesAreEffective(disk, requests) ==
    LET chosen == SpotFiles(disk, requests)
    IN  /\ \A c \in chosen : \A e \in At(disk, c.root, c.path) : ~IsLink(e) /\ e.ext = "txt"
        /\ \A c, d \in chosen : c.path = d.path => c = d
        /\ \A k \in DOMAIN requests : requests[k].root = 0 =>
              \A c \in chosen : c.path = requests[k].path => ~Shadowed(disk, c)

(* A rename plan rewrites each path once, with the number of names that    *)
(* change there; it leaves no old name in a file that no root above hides, *)
(* rewrites no copy that a file of a root above hides, and a preview of a  *)
(* file agrees with it.  (A link of a root above may hide a planned copy:  *)
(* SubmodShadowsBase.)                                                     *)
PlanIsWhole(disk, focus, loc, mapping) ==
    LET plan == RenameFocusIds(disk, focus, loc, mapping, 0, Cardinality(disk))
        Old(e) == Replacements(mapping, e.text) > 0
        changed == ToSet(plan.changed)
        owned == {<<o.path, o.root>> : o \in Owned(focus, loc)}
    IN  plan.ok =>
          /\ \A i, j \in DOMAIN plan.changed : plan.changed[i].path = plan.changed[j].path => i = j
          /\ \A c \in changed : c.n = Replacements(mapping, File(disk, c.root, c.path).text)
          /\ \A e \in disk :
               (/\ Old(e) /\ ~IsLink(e) /\ ~Shadowed(disk, e)
                /\ (e.tree \in ScanTrees /\ e.ext \in ScanExts) \/ <<e.path, e.root>> \in owned)
                 => \E c \in changed : c.path = e.path /\ c.root = e.root
          /\ \A c \in changed : LET preview == Preview(disk, focus, loc, mapping, c.path, c.root)
                                IN  preview.ok /\ preview.changed
          /\ \A c \in changed : \A e \in disk : e.root < c.root /\ e.path = c.path => IsLink(e)


(* The two, for a question about a plan or about a spot check.             *)
PlansAreEffective(q) ==
    /\ q.kind = "plan" => PlanIsWhole(q.disk, q.focus, q.loc, q.mapping)
    /\ q.kind = "files" => SpotFilesAreEffective(q.disk, q.requests)
=============================================================================
