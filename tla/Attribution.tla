----------------------------- MODULE Attribution ----------------------------
(***************************************************************************)
(* Which file an issue of a validator belongs to                           *)
(* (validators/attribution.py).                                            *)
(*                                                                         *)
(* A path is a sequence of components.  An issue is [file, tokens]: the    *)
(* path it gives, <<>> for none or a placeholder, and the file names in    *)
(* its message.                                                            *)
(***************************************************************************)
EXTENDS Naturals, Sequences, FiniteSets, SequencesExt

CONSTANT WalkRoots     \* _WALK_ROOTS

NoFile == <<>>

(* _list_mod_files: what git lists, in the overlay's repository if there   *)
(* is one; without git, or when it lists nothing, the content directories. *)
Listed(tree) ==
    IF tree.git /\ tree.tracked # {} THEN tree.tracked
    ELSE {p \in tree.present : p[1] \in WalkRoots}

Under(path, prefixes) == prefixes = {} \/ \E r \in prefixes : IsPrefix(r, path)

(* _match_suffix: the one listed file in scope that ends in these          *)
(* components.                                                             *)
BugMatchSuffix(listed, partial, prefixes) ==
    LET matches == {p \in listed : partial # NoFile /\ Under(p, prefixes) /\ Last(p) = Last(partial)} IN
    IF Cardinality(matches) = 1 THEN CHOOSE p \in matches : TRUE ELSE NoFile
MatchSuffix(listed, partial, prefixes) ==
    LET matches == {p \in listed : partial # NoFile /\ Under(p, prefixes) /\ IsSuffix(partial, p)} IN
    IF Cardinality(matches) = 1 THEN CHOOSE p \in matches : TRUE ELSE NoFile

(* resolve                                                                 *)
Attributed(tree, issue, prefixes) ==
    LET listed == Listed(tree)
        direct == MatchSuffix(listed, issue.file, prefixes)
        Token(k) == MatchSuffix(listed, issue.tokens[k], prefixes)
        hits == {k \in DOMAIN issue.tokens : Token(k) # NoFile}
    IN  IF issue.file = NoFile THEN (IF hits = {} THEN NoFile ELSE Token(Min(hits)))
        ELSE IF issue.file \in listed THEN issue.file
        ELSE IF direct # NoFile THEN direct
        ELSE IF Len(issue.file) > 1 THEN issue.file ELSE NoFile

----------------------------------------------------------------------------
(* An issue is put on a file only if what it says ends that path and no    *)
(* other listed path its validator scans; a path it gives in full is kept, *)
(* whether or not the file is still there.                                 *)
AttributionIsUnique(tree, issue, prefixes) ==
    LET path == Attributed(tree, issue, prefixes)
        said == IF issue.file # NoFile THEN {issue.file} ELSE ToSet(issue.tokens)
    IN  path # NoFile =>
          \/ path = issue.file
          \/ \E s \in said : /\ IsSuffix(s, path)
                             /\ \A p \in Listed(tree) : Under(p, prefixes) /\ IsSuffix(s, p) => p = path
=============================================================================
