------------------------------ MODULE MCAnswers -----------------------------
(***************************************************************************)
(* What is computed from the mod's records and files: a behaviour is one   *)
(* question to an analysis or a generator, from a family of the modules    *)
(* below, and its answer; or, with no question, the life of the key maps   *)
(* of one index (KeyMaps).                                                 *)
(***************************************************************************)
EXTENDS Answers, KeyMaps, FiniteSets, TLC

CONSTANTS FocusIds, OwnIds, DefaultFocusCost, MaxExpansionRounds, MaxPrunePasses, Far,
          Budget, MaxText, MarkerSize, ErrorSize, MaxIndexFiles, MaxIndexBytes

Focuses == INSTANCE MCFocus
Names == INSTANCE MCNames
Reports == INSTANCE MCReports
Fixes == INSTANCE MCFixes
Stubs == INSTANCE MCStubs

MCScanDirs == <<"common/scripted_effects", "events">>
MCSpellings == [n \in {"g1"} |-> {"g1", "GFX_g1", "GFX_idea_g1"}]
MCDescriptions == [f \in {"f1"} |-> {"f1", "f1_desc"}]

NoQuestion == [kind |-> "none"]

MCInit ==
    /\ Init
    /\ answered = FALSE
    /\ \/ question = NoQuestion
       \/ question \in Focuses!PathQuestions
       \/ question \in Focuses!ImportQuestions
       \/ question \in Focuses!PlaceQuestions
       \/ question \in Names!NameQuestions
       \/ question \in Names!TotalQuestions
       \/ question \in Names!AuditQuestions
       \/ question \in Reports!ClippedTexts
       \/ question \in Reports!TickQuestions
       \/ question \in Reports!SpotQuestions
       \/ question \in Reports!EventQuestions
       \/ question \in Reports!LogQuestions
       \/ question \in Reports!RenameQuestions
       \/ question \in Reports!GdpQuestions
       \/ question \in Reports!OverlapQuestions
       \/ question \in Reports!PathQuestions
       \/ question \in Reports!TreeQuestions
       \/ question \in Reports!PlanQuestions
       \/ question \in Reports!SpotFileQuestions
       \/ \E fixer \in Fixes!Fix!Tools : question \in Fixes!FixQuestions(fixer)
       \/ question \in Fixes!NoFixer
       \/ question \in Fixes!StandardQuestions
       \/ question \in Fixes!IndexQuestions
       \/ question \in Fixes!TransformQuestions
       \/ question \in Stubs!LookupQuestions
       \/ question \in Stubs!StubQuestions
       \/ question \in Stubs!FileStubQuestions
       \/ question \in Stubs!MergeQuestions
       \/ question \in Stubs!GfxPageQuestions
       \/ question \in Stubs!AttributionQuestions

MCNext ==
    \/ question # NoQuestion /\ Answer /\ UNCHANGED vars
    \/ question = NoQuestion /\ Next /\ UNCHANGED asking

MCSpec == MCInit /\ [][MCNext]_<<asking, vars>>

----------------------------------------------------------------------------
(* A plan for a focus meets or reports every prerequisite group, in order  *)
(* (FocusGraph).                                                           *)
PlansAreSound == Asked({"path"}) => Focuses!PlansAreSound(question)

(* A tree imports what it refers to, and every focus is where its chain    *)
(* puts it, or an error or a warning says why not (FocusLayout).           *)
LayoutsAreExplained == Asked({"layout"}) => Focuses!LayoutsAreExplained(question)

(* Reports of the mod's scripts arrive within the budget, counted as they  *)
(* are, and no text is cut silently (UpstreamReports, Response).           *)
PagesDescribeThemselves == Asked({"text", "tree", "report"}) => Reports!PagesDescribeThemselves(question)

(* A fixed, standardized or transformed text is what its answer says       *)
(* (Fixers).                                                               *)
FixesAreHonest == Asked({"fix", "standardize", "index", "transform"}) => Fixes!FixesAreHonest(question)
=============================================================================
