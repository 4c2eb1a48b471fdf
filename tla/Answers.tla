------------------------------ MODULE Answers ------------------------------
(***************************************************************************)
(* What is computed from the files and kept nowhere: one question, and     *)
(* whether it was answered.  The tools here say with sets and ranks what   *)
(* theorems are about; MCAnswers adds those that recur.                    *)
(***************************************************************************)
EXTENDS Integers, Sequences

CONSTANTS ScanDirs, CallDirs, OddNames, ScanFloor, ScanFactor,    \* References
          MaxFiles, Spellings, TexturePaths, VanillaSprites,      \* RefAudit
          Descriptions,
          Roots, ScanTrees, ScanExts,                             \* RenamePlan
          Langs, English, WalkRoots                               \* Localisation, Attribution

(* Roots are positions in the list of configured ones.                     *)
ASSUME RootsArePositions == Roots \subseteq Nat \ {0}
ASSUME ScansAreTyped == ScanDirs \in Seq(STRING) /\ ScanFloor \in Nat /\ ScanFactor \in Nat

(* So many files of a scope are audited.                                   *)
ASSUME ScansAreBounded == MaxFiles \in Nat

VARIABLES question, answered

asking == <<question, answered>>

Refs == INSTANCE References
Audit == INSTANCE RefAudit
Plans == INSTANCE RenamePlan
Loc == INSTANCE Localisation
Gfx == INSTANCE GfxMerge
Attr == INSTANCE Attribution

Answer == ~answered /\ answered' = TRUE /\ UNCHANGED question

Asked(kinds) == answered /\ question.kind \in kinds
----------------------------------------------------------------------------
(* A name reported as unreferenced has no use that find_references shows,  *)
(* and a scan that was not cut counts every match in the files the game    *)
(* reads (References; find_unreferenced and find_references).              *)
ReferencesAgree == Asked({"unused", "totals"}) => Refs!ReferencesAgree(question)

(* What a reference audit leaves out it says that it left out (RefAudit;   *)
(* check_refs).                                                            *)
AuditIsHonest == Asked({"audit"}) => Audit!AuditsAreHonest(question)

(* A spot check reads no file that another hides; a rename plan leaves no  *)
(* old name in a file the game reads, and changes no copy that a file of   *)
(* the overlay hides (RenamePlan).                                         *)
PlansAreEffective == Asked({"plan", "files"}) => Plans!PlansAreEffective(question)


(* A localisation lookup does not depend on which languages are indexed;   *)
(* a stub that says it is complete is, adds no key twice, and says so when *)
(* it is a page or was cut (Localisation).                                 *)
StubsAreComplete == Asked({"lookup", "stub", "file"}) => Loc!StubsAreComplete(question)

(* A merged .gfx document loses nothing and repeats nothing, and the pages *)
(* of a new one make it up (GfxMerge).                                     *)
MergesKeepTheRest == Asked({"merge", "pages"}) => Gfx!MergesKeepTheRest(question)

(* An issue is put on the one file it can mean (Attribution).              *)
AttributionIsUnique ==
    Asked({"issue"}) => Attr!AttributionIsUnique(question.tree, question.issue, question.prefixes)
=============================================================================
