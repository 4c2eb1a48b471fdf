------------------------------ MODULE RefAudit ------------------------------
(***************************************************************************)
(* check_refs (analysis/ref_audit.py): walks the files in scope, collects  *)
(* what they refer to, and reports what no index resolves.                 *)
(*                                                                         *)
(* A node is [name, form, sym, up]: `bare' (a name alone), `symbol' (a     *)
(* name with a value `sym') or `block', and the place of the block it is   *)
(* in, 0 at the top.  A file is [path, status, nodes, defines, feeds]: its *)
(* nodes as its text has them, what it defines, as <<kind, id>>, and the   *)
(* kinds whose index reads it; status is parsed, broken or absent.         *)
(***************************************************************************)
EXTENDS Integers, Sequences, FiniteSets, SequencesExt, FiniteSetsExt

CONSTANTS MaxFiles,          \* _MAX_FILES
          Spellings,         \* sprite -> the names it may be defined under
          TexturePaths,      \* values that name a texture file
          VanillaSprites,    \* the committed manifest
          Descriptions       \* focus -> the set of loc keys it should have

EventNodes == {"country_event", "news_event"}
IdeaBlockNodes == {"add_ideas", "remove_ideas"}
SpriteNodes == {"icon", "picture"}
FocusDefNodes == {"focus", "shared_focus", "joint_focus"}
TechnologyNodes == {"has_tech", "has_technology", "research_technology", "set_technology"}
SymbolNodes == [focus |-> {"has_completed_focus", "complete_national_focus", "relative_position_id"},
                idea |-> {"add_idea", "remove_idea", "idea", "has_idea"},
                decision |-> {"activate_decision", "unlock_decision_tooltip"},
                loc |-> {"custom_effect_tooltip"}]
FieldNodes == [character |-> {"character", "has_character", "create_character", "remove_character",
                              "modify_character", "set_character"},
               trait |-> {"trait", "has_trait", "add_trait", "remove_trait", "remove_leader_trait"},
               dynamic_modifier |-> {"add_dynamic_modifier", "remove_dynamic_modifier",
                                     "has_dynamic_modifier"},
               oob |-> {"set_oob", "set_air_oob", "load_oob", "oob"},
               division_template |-> {"division_template"},
               country_tag |-> {"original_tag", "tag", "change_tag", "target_tag",
                                "original_tag_to_check", "tag_to_check"}]
FieldNames == [character |-> <<"character">>, trait |-> <<"trait">>,
               dynamic_modifier |-> <<"modifier">>, oob |-> <<"oob">>,
               division_template |-> <<"name">>, country_tag |-> <<"tag", "original_tag">>]
ScopeKeywords == {"ROOT", "FROM", "PREV", "THIS", "OWNER", "CONTROLLER"}

(* A list of what is in a set; of the order, by kind and id, only that     *)
(* there is one.                                                           *)
Listed(set) == CHOOSE list \in [1..Cardinality(set) -> set] : ToSet(list) = set

NoSym == "no value"
Symbol(node) == IF node.form = "symbol" THEN node.sym ELSE NoSym
Kids(nodes, k) == {j \in DOMAIN nodes : nodes[j].up = k}
Field(nodes, k, name) ==
    LET found == {j \in Kids(nodes, k) : nodes[j].name = name}
    IN  IF found = {} THEN NoSym ELSE Symbol(nodes[Min(found)])

(* What one node refers to, as <<place, id>>; a block is read for the      *)
(* field of that kind, or for all the names in it.                         *)
OwnRefs(nodes, k, kind, effects) ==
    LET name == nodes[k].name
        block == nodes[k].form = "block"
        sym == Symbol(nodes[k])
        kids == IF block THEN Kids(nodes, k) ELSE {}
        Here(ref) == {<<k, ref>>} \ {<<k, NoSym>>}
        Values(places) == UNION {{<<j, Symbol(nodes[j])>>} \ {<<j, NoSym>>} : j \in places}
        Names(places) == {<<j, nodes[j].name>> : j \in places}
        Inside(j) == Field(nodes, k, FieldNames[kind][j])
        inside == {j \in DOMAIN FieldNames[kind] : Inside(j) # NoSym}
    IN  CASE kind = "focus" /\ name \in {"prerequisite", "mutually_exclusive"} ->
               Values({c \in kids : nodes[c].name = "focus"})
          [] kind = "event" /\ name \in EventNodes ->
               Here(IF block THEN Field(nodes, k, "id") ELSE sym)
          [] kind = "idea" /\ name \in IdeaBlockNodes ->
               IF sym # NoSym THEN Here(sym) ELSE Names({c \in kids : nodes[c].form = "bare"})
          [] kind = "sprite" /\ name \in SpriteNodes ->
               {r \in (IF block THEN Values({c \in kids : nodes[c].name = "value"}) ELSE Here(sym)) :
                   r[2] \notin TexturePaths}
          [] kind \in DOMAIN SymbolNodes /\ name \in SymbolNodes[kind] -> Here(sym)
          [] kind \in DOMAIN FieldNodes /\ name \in FieldNodes[kind] ->
               {r \in Here(IF ~block THEN sym ELSE IF inside = {} THEN NoSym ELSE Inside(Min(inside))) :
                   kind = "country_tag" => r[2] \notin ScopeKeywords}
          [] kind = "technology" /\ name \in TechnologyNodes ->
               IF block THEN Names({c \in kids : nodes[c].name # "popup"}) ELSE Here(sym)
          [] kind = "scripted_effect" /\ name \in effects -> {<<k, name>>}
          [] OTHER -> {}

(* _walk goes down into every block.                                       *)
BugReached(nodes) ==
    LET Open == TechnologyNodes \cup FocusDefNodes
        reached[k \in DOMAIN nodes] ==
            nodes[k].up = 0 \/ (nodes[nodes[k].up].name \in Open /\ reached[nodes[k].up])
    IN  {k \in DOMAIN nodes : reached[k]}
Reached(nodes) ==
    LET reached[k \in DOMAIN nodes] ==
            nodes[k].up = 0 \/ (nodes[nodes[k].up].form = "block" /\ reached[nodes[k].up])
    IN  {k \in DOMAIN nodes : reached[k]}

(* The focus that a node defines, if it does, and the loc keys of one.     *)
DefinedFocus(nodes, k) ==
    {Field(nodes, k, "id") : j \in {i \in {k} : nodes[i].form = "block" /\ nodes[i].name \in FocusDefNodes}}
        \ {NoSym}
LocKeys(nodes, k) == UNION {Descriptions[id] : id \in DefinedFocus(nodes, k)}

----------------------------------------------------------------------------
(* The indexes, and the files they dropped.                                *)
Resolves(files, kind, id) == \E f \in files : f.status = "parsed" /\ <<kind, id>> \in f.defines
IndexErrors(files, kind) == {f.path : f \in {g \in files : g.status = "broken" /\ kind \in g.feeds}}

Resolved(files, kind, ref) ==
    IF kind = "sprite"
    THEN \E name \in Spellings[ref] : Resolves(files, kind, name) \/ name \in VanillaSprites
    ELSE Resolves(files, kind, ref)

(* Everything the scope refers to: at most so many files, those that can   *)
(* be read, and the loc keys of the focuses they define.                   *)
Scanned(scope) == SubSeq(scope, 1, Min({MaxFiles, Len(scope)}))
Effects(files) ==
    {d[2] : d \in {e \in UNION {f.defines : f \in {g \in files : g.status = "parsed"}} :
                      e[1] = "scripted_effect"}}
Ref(kind, ref, at) == [kind |-> kind, ref |-> ref, at |-> at]
NodeRefs(nodes, k, kinds, effects) ==
    (UNION {{Ref(kind, r[2], <<k, r[1]>>) : r \in OwnRefs(nodes, k, kind, effects)} : kind \in kinds})
    \cup {Ref("loc", key, <<k, 0>>) : key \in IF "loc" \in kinds THEN LocKeys(nodes, k) ELSE {}}
FileRefs(files, kinds, path) ==
    LET file == CHOOSE f \in files : f.path = path
    IN  IF file.status # "parsed" THEN {}
        ELSE UNION {NodeRefs(file.nodes, k, kinds, Effects(files)) : k \in Reached(file.nodes)}
Collected(files, kinds, scope) ==
    UNION {{[r EXCEPT !.at = <<i, @>>] : r \in FileRefs(files, kinds, Scanned(scope)[i])} :
             i \in DOMAIN Scanned(scope)}

(* check_refs: one entry per unresolved kind and id, a page of them, and   *)
(* the counts and warnings beside it.  No limit is -1.                     *)
AuditOf(files, kinds, scope, refs, offset, limit) ==
    LET missing == {<<r.kind, r.ref>> : r \in {q \in refs : ~Resolved(files, q.kind, q.ref)}}
        Count(m) == Cardinality({r \in refs : <<r.kind, r.ref>> = m})
        unresolved == Listed({[kind |-> m[1], ref |-> m[2], count |-> Count(m)] : m \in missing})
        page == SubSeq(unresolved, offset + 1,
                       IF limit >= 0 THEN Min({offset + limit, Len(unresolved)}) ELSE Len(unresolved))
    IN  [unresolved |-> page,
         total |-> Len(unresolved),
         truncated |-> offset + Len(page) < Len(unresolved),
         checked |-> [k \in kinds |-> Cardinality({r.ref : r \in {q \in refs : q.kind = k}})],
         incomplete |-> {k \in kinds : IndexErrors(files, k) # {}},
         filesTruncated |-> Len(scope) > MaxFiles,
         parseErrors |-> {Scanned(scope)[k] : k \in {j \in DOMAIN Scanned(scope) :
                             \E f \in files : f.path = Scanned(scope)[j] /\ f.status # "parsed"}}]
CheckRefs(files, kinds, scope, offset, limit) ==
    AuditOf(files, kinds, scope, Collected(files, kinds, scope), offset, limit)

----------------------------------------------------------------------------
(* An audit without warnings is the truth, and its warnings are enough: a  *)
(* name that some node of a file in scope, at any depth, refers to and no  *)
(* file defines is listed, unless the answer says that the page or the     *)
(* scope was cut or that a file of the scope could not be read, and so is a*)
(* loc key that a focus there lacks; a listed name that is defined after   *)
(* all is of a kind marked incomplete, as a kind is when any file that may *)
(* define it does not parse.                                               *)
AuditIsHonest(q, answer) ==
    LET IsDefined(kind, ref) ==
            \E f \in q.files : f.status # "absent" /\
                \E name \in (IF kind = "sprite" THEN Spellings[ref] ELSE {ref}) :
                    <<kind, name>> \in f.defines \/ (kind = "sprite" /\ name \in VanillaSprites)
        listed == {<<e.kind, e.ref>> : e \in ToSet(answer.unresolved)}
        Told(kind, ref) == IsDefined(kind, ref) \/ <<kind, ref>> \in listed
        cut == \/ answer.truncated \/ q.offset > 0
               \/ answer.filesTruncated \/ answer.parseErrors # {}
    IN  /\ cut \/ \A f \in {g \in q.files : g.path \in ToSet(q.scope)} : \A k \in DOMAIN f.nodes :
             /\ \A kind \in q.kinds :
                   \A r \in OwnRefs(f.nodes, k, kind, Effects(q.files)) : Told(kind, r[2])
             /\ "loc" \in q.kinds => \A key \in LocKeys(f.nodes, k) : Told("loc", key)
        /\ \A m \in listed : IsDefined(m[1], m[2]) => m[1] \in answer.incomplete
        /\ q.offset = 0 /\ ~answer.truncated => answer.total = Cardinality(listed)
AuditsAreHonest(q) == AuditIsHonest(q, CheckRefs(q.files, q.kinds, q.scope, q.offset, q.limit))
=============================================================================
