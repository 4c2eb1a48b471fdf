----------------------------- MODULE FocusGraph -----------------------------
(***************************************************************************)
(* The focus graph of a country (analysis/focus_graph.py): which focuses   *)
(* its files define, what they require, which prerequisites form cycles,   *)
(* and, for one focus, an approximate set of focuses that completes it.    *)
(*                                                                         *)
(* A focus is [id, groups, mutex, cost]: every group of prerequisites must *)
(* be met by one of its members.  Identifiers are numbers, which gives     *)
(* them the order the code sorts them in.                                  *)
(***************************************************************************)
EXTENDS Integers, Sequences, FiniteSets, SequencesExt, FiniteSetsExt

CONSTANTS FocusIds,            \* identifiers a file can name
          OwnIds,              \* those that start with the country's tag
          DefaultFocusCost,
          MaxExpansionRounds,
          MaxPrunePasses

NoCost == 0 - 1

(* Records of other countries are skipped; the last definition of an       *)
(* identifier is the one kept by name.                                     *)
OwnNodes(records) == SelectSeq(records, LAMBDA r : r.id \in OwnIds)
ById(nodes) ==
    [id \in {nodes[k].id : k \in DOMAIN nodes} |->
        nodes[CHOOSE k \in DOMAIN nodes :
                 nodes[k].id = id /\ \A j \in DOMAIN nodes : nodes[j].id = id => j <= k]]

CostOf(focus) == IF focus.cost = NoCost THEN DefaultFocusCost ELSE focus.cost
Members(group) == ToSet(group)
Requires(focus) == UNION {Members(focus.groups[g]) : g \in DOMAIN focus.groups}

(* prereq_succ: for every focus, those that name it, in file order.        *)
Successors(nodes, id) ==
    LET Naming(node) == SelectSeq(FlattenSeq(node.groups), LAMBDA m : m = id)
    IN  FlattenSeq([k \in DOMAIN nodes |-> [j \in DOMAIN Naming(nodes[k]) |-> nodes[k].id]])

----------------------------------------------------------------------------
(* _find_cycles: a depth-first search that reports the stack from the node *)
(* an edge goes back to.                                                   *)
RECURSIVE Visit(_, _, _)
Visit(succ, node, search) ==
    LET entered == [search EXCEPT !.color[node] = "open", !.stack = Append(@, node)]
        Follow(s, next) ==
            CASE s.color[next] = "open" ->
                    LET from == CHOOSE k \in DOMAIN s.stack : s.stack[k] = next
                    IN  [s EXCEPT !.cycles = Append(@, SubSeq(s.stack, from, Len(s.stack)))]
              [] s.color[next] = "new" -> Visit(succ, next, s)
              [] OTHER -> s
        left == FoldLeft(Follow, entered, succ[node])
    IN  [left EXCEPT !.color[node] = "done", !.stack = Front(@)]

FindCycles(nodes) ==
    LET ids == {nodes[k].id : k \in DOMAIN nodes}
        succ == [id \in ids |-> Successors(nodes, id)]
        Start(s, node) == IF s.color[node.id] = "new" THEN Visit(succ, node.id, s) ELSE s
    IN  ToSet(FoldLeft(Start, [color |-> [id \in ids |-> "new"], stack |-> <<>>, cycles |-> <<>>],
                       nodes).cycles)

CycleIds(nodes) == UNION {ToSet(cycle) : cycle \in FindCycles(nodes)}

----------------------------------------------------------------------------
(* closure_of: every group takes the member whose own closure is cheapest, *)
(* the first of them on a tie.  A node met again counts for itself; what   *)
(* was computed while it was being visited stays in the cache.             *)
Cost(byId, set) == MapThenSumSet(LAMBDA id : CostOf(byId[id]), set)

Cheapest(byId, found, c) ==
    [cache |-> c.cache,
     best |-> IF found.best = {} \/ Cost(byId, c.set) < Cost(byId, found.best)
              THEN c.set ELSE found.best]
Joined(part, found) == [set |-> part.set \cup found.best, cache |-> found.cache]
Cached(id, whole) == [set |-> whole.set, cache |-> (id :> whole.set) @@ whole.cache]

RECURSIVE ClosureOf(_, _, _, _)
ClosureOf(byId, id, visiting, cache) ==
    LET TakeMember(found, member) ==
            IF member \notin DOMAIN byId THEN found
            ELSE Cheapest(byId, found, ClosureOf(byId, member, visiting \cup {id}, found.cache))
        TakeGroup(part, group) ==
            IF part.set \cap Members(group) # {} THEN part
            ELSE Joined(part, FoldLeft(TakeMember, [cache |-> part.cache, best |-> {}], group))
    IN  IF id \in DOMAIN cache THEN [set |-> cache[id], cache |-> cache]
        ELSE IF id \in visiting THEN [set |-> {id}, cache |-> cache]
        ELSE Cached(id, FoldLeft(TakeGroup, [set |-> {id}, cache |-> cache], byId[id].groups))

(* _closure_clashes: two members of what is added, or one of them and one  *)
(* of the plan, exclude each other.                                        *)
Clashes(byId, added, plan) ==
    \/ \E a \in added : (byId[a].mutex \ {a}) \cap (added \cup plan) # {}
    \/ \E p \in plan : byId[p].mutex \cap added # {}

Pending(byId, plan, decided) ==
    LET open == {<<owner, g>> \in plan \X (1..Max({Len(byId[p].groups) : p \in plan} \cup {0})) :
                    /\ g \in DOMAIN byId[owner].groups
                    /\ <<owner, g>> \notin decided
                    /\ Members(byId[owner].groups[g]) \cap plan = {}}
    IN  SetToSortSeq(open, LAMBDA a, b : a[1] < b[1] \/ (a[1] = b[1] /\ a[2] < b[2]))

(* One open group: the cheapest closure, the widest cover of what is open  *)
(* and the first name among those that exclude nothing, or among all.      *)
Looked(byId, group, cache) ==
    LET Note(s, m, c) == [cache |-> c.cache, sets |-> (m :> c.set) @@ s.sets]
        Look(s, m) == Note(s, m, ClosureOf(byId, m, {}, s.cache))
    IN  FoldLeft(Look, [cache |-> cache, sets |-> <<>>],
                 SelectSeq(group, LAMBDA m : m \in DOMAIN byId))

Choice(byId, open, plan, sets) ==
    LET Covers(m) == Cardinality({k \in DOMAIN open :
                        Members(byId[open[k][1]].groups[open[k][2]]) \cap sets[m] # {}})
        Rank(m) == <<Cost(byId, sets[m]), 0 - Covers(m), m>>
        Less(p, q) == \E k \in 1..3 : p[k] < q[k] /\ \A j \in 1..k - 1 : p[j] = q[j]
        clean == {m \in DOMAIN sets : ~Clashes(byId, sets[m], plan)}
        among == IF clean # {} THEN clean ELSE DOMAIN sets
    IN  CHOOSE m \in among : \A n \in among \ {m} : Less(Rank(m), Rank(n))

Decided(byId, open, state, looked) ==
    [state EXCEPT !.cache = looked.cache,
                  !.plan = @ \cup looked.sets[Choice(byId, open, state.plan, looked.sets)]]
Decide(byId, open, state, item) ==
    LET group == byId[item[1]].groups[item[2]]
        done == [state EXCEPT !.decided = @ \cup {item}]
    IN  IF Members(group) \cap state.plan # {} THEN state
        ELSE IF Members(group) \cap DOMAIN byId = {}
        THEN [done EXCEPT !.unresolved = @ \cup {item}]
        ELSE Decided(byId, open, done, Looked(byId, group, state.cache))

DecideAll(byId, open, state) ==
    FoldLeft(LAMBDA s, item : Decide(byId, open, s, item), state, open)

RECURSIVE Expand(_, _, _)
Expand(byId, state, round) ==
    LET open == Pending(byId, state.plan, state.decided) IN
    IF open = <<>> THEN state
    ELSE IF round > MaxExpansionRounds THEN [state EXCEPT !.stopped = TRUE]
    ELSE Expand(byId, DecideAll(byId, open, state), round + 1)

----------------------------------------------------------------------------
(* Pruning: the most expensive first, what no other member relies on alone.*)
BugNeededSolely(byId, cand, pool) ==
    \E owner \in pool \ {cand} : \A g \in DOMAIN byId[owner].groups :
        Members(byId[owner].groups[g]) \cap pool = {cand}
NeededSolely(byId, cand, pool) ==
    \E owner \in pool \ {cand} : \E g \in DOMAIN byId[owner].groups :
        Members(byId[owner].groups[g]) \cap pool = {cand}

PrunePass(byId, real, plan) ==
    LET Dearer(a, b) == \/ CostOf(byId[a]) > CostOf(byId[b])
                        \/ CostOf(byId[a]) = CostOf(byId[b]) /\ a < b
        Drop(pool, cand) == IF NeededSolely(byId, cand, pool) THEN pool ELSE pool \ {cand}
    IN  FoldLeft(Drop, plan, SetToSortSeq(plan \ {real}, Dearer))

RECURSIVE Prune(_, _, _, _)
Prune(byId, real, plan, pass) ==
    LET less == PrunePass(byId, real, plan) IN
    IF less = plan THEN [plan |-> plan, stopped |-> FALSE]
    ELSE IF pass = MaxPrunePasses THEN [plan |-> less, stopped |-> TRUE]
    ELSE Prune(byId, real, less, pass + 1)

(* depth_of, with the depths already known; a parent being visited is 0.   *)
Deepest(s, d) == [known |-> d.known, max |-> Max({s.max, d.depth})]
Below(id, looked) == [depth |-> 1 + looked.max, known |-> (id :> (1 + looked.max)) @@ looked.known]

RECURSIVE DepthOf(_, _, _, _, _)
DepthOf(byId, plan, id, visiting, known) ==
    LET parents == SelectSeq(FlattenSeq(byId[id].groups), LAMBDA m : m \in plan /\ m # id)
        Look(s, p) == Deepest(s, DepthOf(byId, plan, p, visiting \cup {id}, s.known))
    IN  IF id \in DOMAIN known THEN [depth |-> known[id], known |-> known]
        ELSE IF id \in visiting THEN [depth |-> 0, known |-> known]
        ELSE Below(id, FoldLeft(Look, [known |-> known, max |-> 0 - 1], parents))

Depths(byId, plan) ==
    FoldLeft(LAMBDA known, id : DepthOf(byId, plan, id, {}, known).known,
             <<>>, SetToSeq(plan))

(* What the entry says of the plan the search grew and pruned.             *)
EntryOf(nodes, grown, pruned) ==
    LET byId == ById(nodes)
        plan == pruned.plan
        depths == Depths(byId, plan)
    IN  [plan |-> plan,
         chain |-> SetToSortSeq(plan, LAMBDA a, b :
                       depths[a] < depths[b] \/ (depths[a] = depths[b] /\ a < b)),
         expansionStopped |-> grown.stopped,
         pruneStopped |-> pruned.stopped,
         hasCycle |-> plan \cap CycleIds(nodes) # {},
         unresolved |-> {u \in grown.unresolved : u[1] \in plan},
         conflicts |-> {{a, b} : <<a, b>> \in {p \in plan \X plan :
                                                  p[1] # p[2] /\ p[2] \in byId[p[1]].mutex}},
         dangling |-> (UNION {Requires(byId[f]) : f \in plan}) \ DOMAIN byId]

(* _path_entry of a focus that exists.                                     *)
PathEntry(nodes, real) ==
    LET byId == ById(nodes)
        grown == Expand(byId, [plan |-> {real}, decided |-> {}, unresolved |-> {},
                               cache |-> <<>>, stopped |-> FALSE], 1)
    IN  EntryOf(nodes, grown, Prune(byId, real, grown.plan, 1))

----------------------------------------------------------------------------
(* The plan, flagged or not, against what a completion set is: every group *)
(* of a focus in it is met from within, unless the answer says that it     *)
(* cannot be or that the search stopped.  Greedy choices, cached closures  *)
(* and pruning, which takes members away again, all have to respect it.    *)
PlanIsComplete(byId, real, entry) ==
    /\ real \in entry.plan /\ entry.plan \subseteq DOMAIN byId
    /\ \A f \in entry.plan : \A g \in DOMAIN byId[f].groups :
          \/ Members(byId[f].groups[g]) \cap entry.plan # {}
          \/ <<f, g>> \in entry.unresolved
          \/ entry.expansionStopped
    /\ \A u \in entry.unresolved : Members(byId[u[1]].groups[u[2]]) \subseteq entry.dangling

(* The chain is "in completion order": whatever a focus requires and the   *)
(* plan holds comes before it, or the entry warns of a cycle.  The warning *)
(* rests on the search, which does not enumerate all cycles.               *)
ChainIsInOrder(byId, entry) ==
    \/ entry.hasCycle
    \/ \A k, j \in DOMAIN entry.chain : entry.chain[j] \in Requires(byId[entry.chain[k]]) => j < k

(* Both, of the entry for one focus.                                       *)
EntryIsSound(byId, real, entry) ==
    PlanIsComplete(byId, real, entry) /\ ChainIsInOrder(byId, entry)
PlanIsSound(nodes, real) == EntryIsSound(ById(nodes), real, PathEntry(nodes, real))
=============================================================================
