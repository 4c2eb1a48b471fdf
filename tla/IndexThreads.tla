--------------------------- MODULE IndexThreads ----------------------------
(***************************************************************************)
(* One index object in the server process, used by the event loop and the  *)
(* worker threads at once (render_focus_tree runs in the pool, the other   *)
(* resolvers do not).  ensure_fresh takes no lock: its only guard against  *)
(* two refreshes at a time is the debounce, which a cold start does not    *)
(* consult and a long refresh outlasts.                                    *)
(*                                                                         *)
(* A map of the index is abstracted to the outcome of each file it was     *)
(* built from (Held); its patching is KeyMaps, its persistence IndexStore. *)
(* The persistent cache is empty here: a first load parses every file.     *)
(***************************************************************************)
EXTENDS SourceFiles

CONSTANTS Threads,
          Refreshers    \* threads whose should_check() may answer TRUE

ASSUME RefreshersAreThreads == Refreshers \subseteq Threads

VARIABLES byFile, byKey, tags,   \* the maps: _by_file, _by_key, _ids_by_tag and its kin
          sigs,                  \* _sigs
          loaded,                \* _loaded
          rebuild                \* thread -> its ensure_fresh call

maps == <<byFile, byKey, tags>>
vars == <<disk, maps, sigs, loaded, rebuild>>

Views == [Files -> Held]
Sigs == [Files -> 0..MaxVersion]
NoSigs == [f \in Files |-> NoSig]

Steps == {"idle", "base_files", "base_keys", "parse", "set_files", "set_keys",
          "set_sigs", "set_tags", "finish", "query"}

(* A rebuild's local variables: the plan and what it was diffed against,   *)
(* and the maps it started from, replaced by the new ones.                 *)
Job == [pc : Steps, known : Sigs, plan : Sigs, full : BOOLEAN, files : Views, keys : Views]

NoJob == [pc |-> "idle", known |-> NoSigs, plan |-> NoSigs, full |-> FALSE,
          files |-> NoneHeld, keys |-> NoneHeld]

At(t, step) == rebuild[t].pc = step
Goto(t, step) == rebuild' = [rebuild EXCEPT ![t].pc = step]

----------------------------------------------------------------------------
(* Warm and debounced: the maps are used as they are.                      *)
Debounced(t) ==
    /\ At(t, "idle")
    /\ loaded
    /\ Goto(t, "query")
    /\ UNCHANGED <<disk, maps, sigs, loaded>>

(* plan_rebuild: stat every file; nothing moved, nothing to do.            *)
Plan(t) ==
    /\ At(t, "idle")
    /\ t \in Refreshers
    /\ rebuild' = [rebuild EXCEPT ![t] =
         [NoJob EXCEPT !.pc = IF loaded /\ Signatures = sigs THEN "finish" ELSE "base_files",
                       !.known = IF loaded THEN sigs ELSE NoSigs,
                       !.plan = Signatures]]
    /\ UNCHANGED <<disk, maps, sigs, loaded>>

(* _rebuild asks _loaded once more: a plan made cold may be applied warm.  *)
BaseFiles(t) ==
    /\ At(t, "base_files")
    /\ rebuild' = [rebuild EXCEPT ![t].full = ~loaded, ![t].files = byFile,
                                  ![t].pc = IF loaded THEN "base_keys" ELSE "parse"]
    /\ UNCHANGED <<disk, maps, sigs, loaded>>

BaseKeys(t) ==
    /\ At(t, "base_keys")
    /\ rebuild' = [rebuild EXCEPT ![t].keys = byKey, ![t].pc = "parse"]
    /\ UNCHANGED <<disk, maps, sigs, loaded>>

(* Outcomes of the files that moved since `known', over the maps read.     *)
Patched(t, view) ==
    LET job == rebuild[t] IN
    [f \in Files |-> IF ~job.full /\ job.plan[f] = job.known[f] THEN view[f]
                     ELSE IF job.plan[f] = NoSig THEN None ELSE Outcome(f)]

Parse(t) ==
    /\ At(t, "parse")
    /\ rebuild' = [rebuild EXCEPT ![t].files = Patched(t, rebuild[t].files),
                                  ![t].keys = Patched(t, rebuild[t].keys),
                                  ![t].pc = "set_files"]
    /\ UNCHANGED <<disk, maps, sigs, loaded>>

----------------------------------------------------------------------------
(* The maps are replaced one assignment at a time, _sigs after them.       *)
SetFiles(t) ==
    /\ At(t, "set_files")
    /\ byFile' = rebuild[t].files
    /\ Goto(t, "set_keys")
    /\ UNCHANGED <<disk, byKey, tags, sigs, loaded>>

SetKeys(t) ==
    /\ At(t, "set_keys")
    /\ byKey' = rebuild[t].keys
    /\ Goto(t, "set_sigs")
    /\ UNCHANGED <<disk, byFile, tags, sigs, loaded>>

BugRestat(t) == Signatures

(* _sigs becomes the signatures the plan was made from.                    *)
Recorded(t) == rebuild[t].plan

SetSigs(t) ==
    /\ At(t, "set_sigs")
    /\ sigs' = Recorded(t)
    /\ Goto(t, "set_tags")
    /\ UNCHANGED <<disk, maps, loaded>>

(* _rebuild_tag_indexes derives them from _by_key as it is by then.        *)
BugTagsFromOldKeys(t) == tags
TagSource(t) == byKey

SetTags(t) ==
    /\ At(t, "set_tags")
    /\ tags' = TagSource(t)
    /\ Goto(t, "finish")
    /\ UNCHANGED <<disk, byFile, byKey, sigs, loaded>>

FinishEnsure(t) ==
    /\ At(t, "finish")
    /\ loaded' = TRUE
    /\ Goto(t, "query")
    /\ UNCHANGED <<disk, maps, sigs>>

(* The query reads the maps and the tool call ends.                        *)
Query(t) ==
    /\ At(t, "query")
    /\ Goto(t, "idle")
    /\ UNCHANGED <<disk, maps, sigs, loaded>>

SourceChange == /\ \E f \in Files : Write(f) \/ Delete(f)
                /\ UNCHANGED <<maps, sigs, loaded, rebuild>>

Init ==
    /\ DiskInit
    /\ byFile = NoneHeld /\ byKey = NoneHeld /\ tags = NoneHeld
    /\ sigs = NoSigs
    /\ loaded = FALSE
    /\ rebuild = [t \in Threads |-> NoJob]

Next ==
    \/ \E t \in Threads :
         \/ Debounced(t) \/ Plan(t) \/ BaseFiles(t) \/ BaseKeys(t) \/ Parse(t)
         \/ SetFiles(t) \/ SetKeys(t) \/ SetSigs(t) \/ SetTags(t) \/ FinishEnsure(t) \/ Query(t)
    \/ SourceChange

Spec == Init /\ [][Next]_vars

----------------------------------------------------------------------------
TypeOK ==
    /\ DiskOK
    /\ byFile \in Views /\ byKey \in Views /\ tags \in Views
    /\ sigs \in Sigs
    /\ loaded \in BOOLEAN
    /\ rebuild \in [Threads -> Job]

Settled == \A t \in Threads : At(t, "idle") \/ At(t, "query")

(* "Signatures of the files the in-memory maps were built from"            *)
(* (base.py:481): once no refresh is under way, a file whose recorded      *)
(* signature is its present one is served with its present content;        *)
(* otherwise every later refresh skips it and serves the old content until *)
(* it is edited again.                                                     *)
SigsDescribeMaps ==
    Settled => \A f \in Files : sigs[f] # NoSig /\ sigs[f] = Signatures[f]
                      => byFile[f] = Outcome(f) /\ byKey[f] = Outcome(f)

(* Between refreshes the maps are those of one refresh, also when others   *)
(* query while it runs.                                                    *)
SettledMapsAgree ==
    Settled => byFile = byKey /\ byKey = tags
=============================================================================
