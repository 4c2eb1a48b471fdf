------------------------------ MODULE MCFocus ------------------------------
(***************************************************************************)
(* Questions about the focus analyses: every small tree of a family.       *)
(***************************************************************************)
EXTENDS Integers, Sequences

CONSTANTS FocusIds, OwnIds, DefaultFocusCost, MaxExpansionRounds, MaxPrunePasses, Far

Graph == INSTANCE FocusGraph
Tree == INSTANCE FocusLayout

(* Four focuses of one country and a foreign or missing fifth; groups that *)
(* overlap, nest, point at each other and at nothing.                      *)
GroupLists == {<<>>, <<<<2>>>>, <<<<3>>>>, <<<<3, 4>>>>, <<<<2>>, <<3, 4>>>>,
               <<<<2, 5>>, <<4>>>>, <<<<1>>>>, <<<<5>>, <<4>>>>}
Costs == {<<1, 1, 1, 1>>, <<0 - 1, 3, 1, 2>>}
Exclusions == {<<{}, {}, {}, {}>>, <<{}, {3}, {2}, {}>>}
Nodes(groups, cost, mutex) ==
    [i \in 1..4 |-> [id |-> i, groups |-> groups[i], cost |-> cost[i], mutex |-> mutex[i]]]
Foreign == [id |-> 5, groups |-> <<>>, cost |-> 1, mutex |-> {}]
PathQuestions == {[kind |-> "path", nodes |-> Append(Nodes(g, c, m), Foreign)] :
                     g \in [1..4 -> GroupLists], c \in Costs, m \in Exclusions}

Focus(id, relative, x, y, requires) ==
    [id |-> id, placed |-> TRUE, x |-> x, y |-> y, relative |-> relative,
     branch |-> FALSE, offset |-> FALSE, requires |-> requires, line |-> id]

(* A tree that imports shared focuses which require each other.            *)
Shared(r) == <<Focus(1, 0, 0, 0, r[1]), Focus(2, 0, 8, 0, r[2]),
               Focus(4, 0, 16, 0, r[4]), Focus(3, 0, 24, 0, r[3])>>
Parents == <<{{}, {1}, {3}, {2, 3}, {1, 3}}, {{}, {1}, {2}, {3}, {2, 3}, {1, 3}},
             {{}, {1}, {2}, {4}, {2, 4}, {1, 4}}, {{}, {1}, {2}, {3}, {2, 3}, {1, 3}}>>
ImportQuestions ==
    {[kind |-> "layout", files |-> <<[shared |-> Shared(<<p, q, r, s>>)]>>,
      tree |-> [focuses |-> <<>>, refs |-> refs]] :
        p \in Parents[1], q \in Parents[2], r \in Parents[3], s \in Parents[4],
        refs \in {{1}, {2}, {1, 3}, {5}}}

(* Four focuses that hang on each other, on a missing one, or in a circle; *)
(* one may be hidden, moved, unreadable or defined twice.                  *)
Relatives == {0, 2, 3, 9} \X {0, 1, 3} \X {0, 1, 2, 4} \X {0, 3}
PlaceQuestions ==
    {[kind |-> "layout", files |-> <<[shared |-> <<>>]>>,
      tree |-> [refs |-> {}, focuses |->
          <<[Focus(1, t[1], x[1], 0, {}) EXCEPT !.branch = hidden],
            Focus(2, t[2], x[2], 0, {1}),
            [Focus(3, t[3], x[3], y, {2}) EXCEPT !.offset = moved],
            [Focus(4, t[4], x[4], 0, {}) EXCEPT !.placed = readable]>> \o twice]] :
        t \in Relatives, x \in {<<0, 1, 2, 3>>, <<0, 2, 2, 0 - 1>>}, y \in {0, 4},
        hidden \in BOOLEAN, moved \in BOOLEAN, readable \in BOOLEAN,
        twice \in {<<>>, <<Focus(3, 0, 1, 1, {})>>}}

(* The identifiers of the tag.                                             *)
Scope == 1..3
----------------------------------------------------------------------------
(* Every prerequisite group of a plan for a focus is met or reported, and  *)
(* what a focus requires precedes it in the chain, or a cycle is reported  *)
(* (FocusGraph; _path_entry and _find_cycles).                             *)
PlansAreSound(q) == Graph!PlanIsSound(Graph!OwnNodes(q.nodes), 1)

(* A tree imports exactly the shared focuses its references lead to, each  *)
(* focus is where its chain puts it or an error says why not, and focuses  *)
(* drawn too close are reported, and no others (FocusLayout;               *)
(* assemble_tree_instances, resolve_positions, _spacing_warnings).         *)
LayoutsAreExplained(q) ==
    /\ Tree!ImportsAreLeast(q.files, q.tree)
    /\ Tree!IsExplained(Tree!Layout(q.files, q.tree, Scope))
=============================================================================
