----------------------------- MODULE FocusLayout -----------------------------
(***************************************************************************)
(* Positions of the focuses of a tree (analysis/focus_tree.py) and what    *)
(* focus_layout says of them (analysis/focus_layout.py): assembly of a     *)
(* tree with the shared focuses it imports, positions relative to other    *)
(* focuses, collisions, spacing warnings and errors of a chain.            *)
(*                                                                         *)
(* A focus is [id, placed, x, y, relative, branch, offset, requires, line];*)
(* a file is [trees, shared], a tree [focuses, refs].  Identifiers are     *)
(* numbers, `requires' is every focus its prerequisites name, coordinates  *)
(* count halves, and `placed' says that both of them could be read.        *)
(***************************************************************************)
EXTENDS Integers, Sequences, FiniteSets, SequencesExt, FiniteSetsExt

CONSTANT Far        \* coordinates beyond it are not finite as floats

NoRelative == 0     \* no relative_position_id
Apart == 4          \* two whole units: no spacing warning
Unplaced == [placed |-> FALSE, x |-> 0, y |-> 0, moves |-> FALSE]
At(x, y, moves) == [placed |-> TRUE, x |-> x, y |-> y, moves |-> moves]
Ordered(set) == SetToSortSeq(set, <)
Ids(focuses) == {focuses[k].id : k \in DOMAIN focuses}
Defs(focuses, id) == SelectSeq(focuses, LAMBDA f : f.id = id)

----------------------------------------------------------------------------
(* assemble_tree_instances.                                                *)
Shared(files) == FlattenSeq([k \in DOMAIN files |-> files[k].shared])
SharedParents(shared, id) ==
    (UNION {f.requires : f \in ToSet(Defs(shared, id))}) \cap Ids(shared)
SharedDependents(shared, id) == {c \in Ids(shared) : id \in SharedParents(shared, c)}

(* One shared focus leaves the queue; what `remaining' held is counted     *)
(* down from the first time a child is met.                                *)
Offer(shared, name, state, child) ==
    LET before == IF child \in DOMAIN state.remaining THEN state.remaining[child]
                  ELSE SharedParents(shared, child) \ state.imported
        left == before \ {name}
        counted == [state EXCEPT !.remaining = (child :> left) @@ @]
    IN  IF child \in state.imported THEN state
        ELSE IF left # {} THEN counted
        ELSE [counted EXCEPT !.imported = @ \cup {child}, !.pending = Append(@, child)]

RECURSIVE Import(_, _)
Import(shared, state) ==
    IF state.pending = <<>> THEN state.imported
    ELSE LET name == Head(state.pending)
             popped == [state EXCEPT !.pending = Tail(@)]
         IN  Import(shared, FoldLeft(LAMBDA s, child : Offer(shared, name, s, child), popped,
                                     Ordered(SharedDependents(shared, name))))

Imported(files, tree) ==
    LET shared == Shared(files)
        named == tree.refs \cap Ids(shared)
    IN  Import(shared, [imported |-> named, pending |-> Ordered(named), remaining |-> <<>>])

Instance(files, tree) ==
    LET shared == Shared(files)
        imported == Imported(files, tree)
    IN  tree.focuses \o
        FlattenSeq([k \in 1..Cardinality(imported) |-> Defs(shared, Ordered(imported)[k])])

MissingShared(files, tree) == tree.refs \ Ids(Shared(files))

----------------------------------------------------------------------------
(* resolve_positions: from each focus along its relatives until one that   *)
(* has a position or a failure, and back.                                  *)
Fail(state, id, kind, key, at) ==
    [state EXCEPT !.positions = (id :> Unplaced) @@ @,
                  !.failures = @ \cup {[kind |-> kind, key |-> key, focus |-> at]}]

RECURSIVE Walk(_, _, _, _)
Walk(focuses, id, path, state) ==
    LET defs == Defs(focuses, id)
        focus == defs[1]
        on == SelectSeq(path, LAMBDA p : p = id)
        start == CHOOSE k \in DOMAIN path : path[k] = id
        root == Min(ToSet(SubSeq(path, start, Len(path))))
        further == Append(path, id)
    IN  IF id \in DOMAIN state.positions THEN [path |-> path, state |-> state]
        ELSE IF on # <<>> THEN [path |-> path, state |-> Fail(state, id, "cycle", root, root)]
        ELSE IF defs = <<>>
        THEN [path |-> path, state |-> Fail(state, id, "missing", id, Last(path))]
        ELSE IF Len(defs) > 1
        THEN [path |-> path, state |-> Fail(state, id, "ambiguous", id, id)]
        ELSE IF ~focus.placed
        THEN [path |-> path, state |-> Fail(state, id, "coordinates", id, id)]
        ELSE IF focus.relative # NoRelative THEN Walk(focuses, focus.relative, further, state)
        ELSE [path |-> further,
              state |-> [state EXCEPT !.positions =
                            (id :> At(focus.x, focus.y, focus.offset)) @@ @]]

BugHang(focuses, state, id) ==
    LET focus == Defs(focuses, id)[1]
        anchor == state.positions[focus.relative]
    IN  IF id \in DOMAIN state.positions THEN state
        ELSE [state EXCEPT !.positions =
                (id :> At(anchor.x + focus.x, anchor.y + focus.y, anchor.moves \/ focus.offset)) @@ @]

(* The path is resolved from its end: each focus from the one it hangs on. *)
Hang(focuses, state, id) ==
    LET focus == Defs(focuses, id)[1]
        anchor == state.positions[focus.relative]
        x == anchor.x + focus.x
        y == anchor.y + focus.y
    IN  IF id \in DOMAIN state.positions THEN state
        ELSE IF ~anchor.placed THEN [state EXCEPT !.positions = (id :> Unplaced) @@ @]
        ELSE IF {x, y} \subseteq (0 - Far)..Far
        THEN [state EXCEPT !.positions =
                (id :> At(x, y, anchor.moves \/ focus.offset)) @@ @]
        ELSE Fail(state, id, "nonfinite", id, id)

Resolve(focuses) ==
    LET From(state, id) ==
            LET walked == Walk(focuses, id, <<>>, state)
            IN  FoldLeft(LAMBDA s, p : Hang(focuses, s, p), walked.state, Reverse(walked.path))
    IN  FoldLeft(From, [positions |-> <<>>, failures |-> {}], Ordered(Ids(focuses)))

----------------------------------------------------------------------------
(* _relative_ancestors follows the first definition of each focus;         *)
(* _hidden_focus_ids everything that depends on an allow_branch.           *)
RECURSIVE Ancestors(_, _)
Ancestors(focuses, ids) ==
    LET more == {Defs(focuses, id)[1].relative : id \in ids \cap Ids(focuses)} \ {NoRelative}
    IN  IF more \subseteq ids THEN ids ELSE Ancestors(focuses, ids \cup more)

RECURSIVE Hiding(_, _)
Hiding(focuses, hidden) ==
    LET more == {f.id : f \in {g \in ToSet(focuses) : g.requires \cap hidden # {}}}
    IN  IF more \subseteq hidden THEN hidden ELSE Hiding(focuses, hidden \cup more)
Hidden(focuses) == Hiding(focuses, {f.id : f \in {g \in ToSet(focuses) : g.branch}})

(* What is drawn for certain: placed, not hidden and not moved by offsets. *)
Fixed(focuses, positions) ==
    SelectSeq(focuses, LAMBDA f : /\ positions[f.id].placed
                                  /\ f.id \notin Hidden(focuses)
                                  /\ ~positions[f.id].moves)

Collisions(focuses, positions, reported) ==
    LET fixed == ToSet(Fixed(focuses, positions))
        On(x, y) == {f \in fixed : positions[f.id].x = x /\ positions[f.id].y = y}
        places == {<<positions[f.id].x, positions[f.id].y>> : f \in fixed}
    IN  {[place |-> p, focuses |-> {f.id : f \in On(p[1], p[2])}] :
            p \in {q \in places :
                     /\ Cardinality({<<f.id, f.line>> : f \in On(q[1], q[2])}) > 1
                     /\ \E f \in On(q[1], q[2]) : f.id \in reported}}

(* Row by row, each column with those to its right, up to the first that   *)
(* is two apart.                                                           *)
Spacing(focuses, positions, reported) ==
    LET fixed == ToSet(Fixed(focuses, positions))
        Column(y, x) == {f.id : f \in {g \in fixed : positions[g.id].y = y /\ positions[g.id].x = x}}
        Xs(y) == Ordered({positions[f.id].x : f \in {g \in fixed : positions[g.id].y = y}})
        Stop(y, i) == Min({j \in i + 1..Len(Xs(y)) : Xs(y)[j] - Xs(y)[i] >= Apart} \cup {Len(Xs(y)) + 1})
    IN  UNION {UNION {UNION {{<<l, r>> \in Column(y, Xs(y)[i]) \X Column(y, Xs(y)[j]) :
                               {l, r} \cap reported # {}} : j \in i + 1..Stop(y, i) - 1} :
                 i \in DOMAIN Xs(y)} : y \in {positions[f.id].y : f \in fixed}}

ChainErrors(focuses, failures, missing, relevant) ==
    {[focus |-> m, error |-> "missing_shared"] : m \in missing}
    \cup {[focus |-> f.focus, error |-> f.kind] :
             f \in {g \in failures : g.focus \in relevant /\ g.kind # "missing"}}
    \cup {[focus |-> f.id, error |-> "missing"] :
             f \in {g \in ToSet(focuses) : /\ g.id \in relevant /\ g.relative # NoRelative
                                           /\ g.relative \notin Ids(focuses)}}

(* focus_layout of one tree: `scope' is the identifiers of the tag.        *)
LayoutOf(focuses, resolved, missing, scope) ==
    LET reported == Ids(focuses) \cap scope
        relevant == Ancestors(focuses, reported)
    IN  [focuses |-> focuses, positions |-> resolved.positions, reported |-> reported,
         collisions |-> Collisions(focuses, resolved.positions, reported),
         spacing |-> Spacing(focuses, resolved.positions, reported),
         duplicates |-> {id \in relevant \cap Ids(focuses) : Len(Defs(focuses, id)) > 1},
         errors |-> ChainErrors(focuses, resolved.failures, missing, relevant)]
Layout(files, tree, scope) ==
    LET focuses == Instance(files, tree)
    IN  LayoutOf(focuses, Resolve(focuses), MissingShared(files, tree), scope)

----------------------------------------------------------------------------
(* "A shared focus joins a tree when the tree imports it, or when every    *)
(* shared prerequisite it has is already in the tree": the queue and its   *)
(* countdown reach exactly the least such set, in whatever order they met  *)
(* the shared focuses, several definitions and cycles included.            *)
ImportsAreLeast(files, tree) ==
    LET shared == Shared(files)
        Closed(set) ==
            /\ tree.refs \cap Ids(shared) \subseteq set
            /\ \A c \in Ids(shared) : SharedParents(shared, c) # {} /\ SharedParents(shared, c) \subseteq set
                                          => c \in set
        imported == Imported(files, tree)
    IN  Closed(imported) /\ \A set \in SUBSET Ids(shared) : Closed(set) => imported \subseteq set

(* A focus stands where the sum along its chain of relatives puts it, or,  *)
(* when a focus on the chain is missing, ambiguous, unplaced or out of     *)
(* range or the chain is a cycle, it is unplaced and an error of some      *)
(* focus on that chain says why, whichever focus the search met first.     *)
PlacedOrExplained(layout) ==
    LET Chain(id) == Ancestors(layout.focuses, {id})
        First(id) == Defs(layout.focuses, id)[1]
        Good(id) == Len(Defs(layout.focuses, id)) = 1 /\ First(id).placed
        Sum(id) == At(MapThenSumSet(LAMBDA a : First(a).x, Chain(id)),
                      MapThenSumSet(LAMBDA a : First(a).y, Chain(id)),
                      \E a \in Chain(id) : First(a).offset)
        Explained(id) == \E e \in layout.errors : e.focus \in Chain(id) /\ e.error # "missing_shared"
        Beyond == {e.focus : e \in {f \in layout.errors : f.error = "nonfinite"}}
    IN  /\ \A id \in layout.reported :
             IF /\ \A a \in Chain(id) : Good(a)
                /\ \E a \in Chain(id) : First(a).relative = NoRelative
                /\ Chain(id) \cap Beyond = {}
             THEN layout.positions[id] = Sum(id)
             ELSE layout.positions[id] = Unplaced /\ Explained(id)
        /\ \A id \in Beyond : ~({Sum(id).x, Sum(id).y} \subseteq (0 - Far)..Far)

(* Two focuses that are certainly drawn at one place, or less than two     *)
(* apart in a row, are reported when one of them is in scope, however many *)
(* columns lie between them, and nothing else is.                          *)
ClashesAreReported(layout) ==
    LET at == layout.positions
        fixed == ToSet(Fixed(layout.focuses, at))
        pairs == {<<f, g>> \in fixed \X fixed :
                     at[f.id].y = at[g.id].y /\ {f.id, g.id} \cap layout.reported # {}}
    IN  /\ \A p \in pairs :
             at[p[1].id].x = at[p[2].id].x /\ <<p[1].id, p[1].line>> # <<p[2].id, p[2].line>>
                => \E c \in layout.collisions : {p[1].id, p[2].id} \subseteq c.focuses
        /\ layout.spacing = {<<p[1].id, p[2].id>> : p \in {q \in pairs :
                                at[q[2].id].x - at[q[1].id].x \in 1..Apart - 1}}

(* Both, of one layout.                                                    *)
IsExplained(layout) == PlacedOrExplained(layout) /\ ClashesAreReported(layout)
=============================================================================
