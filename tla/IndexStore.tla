---------------------------- MODULE IndexStore ----------------------------
(***************************************************************************)
(* One GenericTxtIndex and its on-disk IndexCache (indexes/base.py), used  *)
(* by one or more processes that share the cache directory.                *)
(*                                                                         *)
(* A refresh is the code's sequence: stat the files, diff against what is  *)
(* known, reuse cached data (first load only), parse the rest, swap the    *)
(* maps, write data, write the manifest.  Other processes, editors and a   *)
(* crash come in between any two steps.                                    *)
(*                                                                         *)
(* An operator named Bug... is a plausible slip in the definition after    *)
(* it; no action uses it.  PROJECT.json names the property it breaks.      *)
(***************************************************************************)
EXTENDS SourceFiles

CONSTANTS Procs,          \* processes on one cache directory
          Sharded,        \* one shard per file instead of one data.json
          TrackErrors,    \* track_parse_errors
          WritesMayFail,  \* a cache write may raise OSError
          MaxFaults       \* bound: restarts and damaged cache files

ASSUME FlagsAreBoolean == {Sharded, TrackErrors, WritesMayFail} \subseteq BOOLEAN
ASSUME FaultBound == MaxFaults \in Nat

VARIABLES manifest,   \* file -> signature; NoSig everywhere when missing or unreadable
          data,       \* file -> cached outcome; None when missing or corrupt
          pc,         \* process -> where its refresh stands
          loaded,     \* process -> _loaded
          sigs,       \* process -> _sigs
          held,       \* process -> what _by_file and _parse_errors hold
          current,    \* process -> signatures its running refresh took
          job,        \* process -> the rest of its RebuildPlan and local maps
          faults

cache == <<manifest, data>>
memory == <<loaded, sigs, held>>
local == <<current, job>>
vars == <<disk, manifest, data, pc, loaded, sigs, held, current, job, faults>>

Sigs == [Files -> Nat]
NoSigs == [f \in Files |-> NoSig]
Views == [Files -> Held]

(* reuse: unchanged files still to be read from the cache; toParse: files  *)
(* still to be parsed; unsaved: parsed files the cache does not have yet;  *)
(* save: a write is due; fresh: the maps under construction.               *)
Job == [reuse : SUBSET Files, toParse : SUBSET Files, unsaved : SUBSET Files,
        removed : SUBSET Files, save : BOOLEAN, fresh : Views]
NoJob == [reuse |-> {}, toParse |-> {}, unsaved |-> {}, removed |-> {},
          save |-> FALSE, fresh |-> NoneHeld]

TypeOK ==
    /\ DiskOK
    /\ manifest \in Sigs
    /\ data \in Views
    /\ pc \in [Procs -> {"idle", "diff", "load", "parse", "write", "manifest"}]
    /\ loaded \in [Procs -> BOOLEAN]
    /\ sigs \in [Procs -> Sigs]
    /\ held \in [Procs -> Views]
    /\ current \in [Procs -> Sigs]
    /\ job \in [Procs -> Job]
    /\ faults \in 0..MaxFaults

Init ==
    /\ DiskInit
    /\ manifest = NoSigs
    /\ data = NoneHeld
    /\ pc = [p \in Procs |-> "idle"]
    /\ loaded = [p \in Procs |-> FALSE]
    /\ sigs = [p \in Procs |-> NoSigs]
    /\ held = [p \in Procs |-> NoneHeld]
    /\ current = [p \in Procs |-> NoSigs]
    /\ job = [p \in Procs |-> NoJob]
    /\ faults = 0

----------------------------------------------------------------------------
(* compute_staleness *)
Stale(base, cur)     == {f \in Files : base[f] # NoSig /\ cur[f] # NoSig /\ base[f] # cur[f]}
Removed(base, cur)   == {f \in Files : base[f] # NoSig /\ cur[f] = NoSig}
Added(base, cur)     == {f \in Files : base[f] = NoSig /\ cur[f] # NoSig}
Unchanged(base, cur) == {f \in Files : base[f] # NoSig /\ base[f] = cur[f]}

(* ensure_fresh outside the debounce window: collect and stat.             *)
Stat(p) ==
    /\ pc[p] = "idle"
    /\ pc' = [pc EXCEPT ![p] = "diff"]
    /\ current' = [current EXCEPT ![p] = Signatures]
    /\ UNCHANGED <<disk, manifest, data, memory, job, faults>>

(* plan_rebuild: the baseline is _sigs once loaded, the manifest before.   *)
BugBaselineIsManifest(p) == manifest
Baseline(p) == IF loaded[p] THEN sigs[p] ELSE manifest
BugMovedForgetsAdded(p) == Stale(Baseline(p), current[p])
Moved(p) == Stale(Baseline(p), current[p]) \cup Added(Baseline(p), current[p])
BugGoneForgotten(p) == {}
Gone(p) == Removed(Baseline(p), current[p])
NothingMoved(p) == loaded[p] /\ Moved(p) = {} /\ Gone(p) = {}

(* The refresh returns: its local variables are gone.                      *)
Forget(p) ==
    /\ current' = [current EXCEPT ![p] = NoSigs]
    /\ job' = [job EXCEPT ![p] = NoJob]

(* plan_rebuild returns None: the maps are left alone.                     *)
FastPath(p) ==
    /\ pc[p] = "diff"
    /\ NothingMoved(p)
    /\ pc' = [pc EXCEPT ![p] = "idle"]
    /\ Forget(p)
    /\ UNCHANGED <<disk, cache, memory, faults>>

(* plan_rebuild returns a plan; the incremental rebuild starts from the    *)
(* maps it has, minus every file that moved.                               *)
BugPlanRereadsCache(p) ==
    /\ pc[p] = "diff"
    /\ ~NothingMoved(p)
    /\ pc' = [pc EXCEPT ![p] = "load"]
    /\ job' = [job EXCEPT ![p] =
         [reuse |-> Unchanged(Baseline(p), current[p]), toParse |-> Moved(p),
          unsaved |-> {}, removed |-> Gone(p), save |-> TRUE, fresh |-> NoneHeld]]
    /\ UNCHANGED <<disk, cache, memory, current, faults>>

Plan(p) ==
    /\ pc[p] = "diff"
    /\ ~NothingMoved(p)
    /\ pc' = [pc EXCEPT ![p] = IF loaded[p] THEN "parse" ELSE "load"]
    /\ job' = [job EXCEPT ![p] =
         [reuse   |-> IF loaded[p] THEN {} ELSE Unchanged(Baseline(p), current[p]),
          toParse |-> Moved(p),
          unsaved |-> {},
          removed |-> Gone(p),
          save    |-> Moved(p) # {} \/ Gone(p) # {} \/ manifest = NoSigs,
          fresh   |-> IF loaded[p]
                      THEN [f \in Files |-> IF f \in Moved(p) \cup Gone(p) THEN None
                                            ELSE held[p][f]]
                      ELSE NoneHeld]]
    /\ UNCHANGED <<disk, cache, memory, current, faults>>

(* _rebuild_full: take an unchanged file from its shard, or all of them    *)
(* from data.json; what is missing or unusable there is parsed again.      *)
BugLoadTrustsHoles(p, S) ==
    /\ pc[p] = "load"
    /\ job' = [job EXCEPT ![p].reuse = @ \ S,
                         ![p].fresh = [f \in Files |-> IF f \in S THEN data[f] ELSE @[f]]]
    /\ pc' = [pc EXCEPT ![p] = IF S = job[p].reuse THEN "parse" ELSE "load"]
    /\ UNCHANGED <<disk, cache, memory, current, faults>>

LoadCached(p, S) ==
    /\ pc[p] = "load"
    /\ LET missing == {f \in S : data[f].kind = "none"} IN
       job' = [job EXCEPT ![p] =
         [reuse   |-> job[p].reuse \ S,
          toParse |-> job[p].toParse \cup missing,
          unsaved |-> job[p].unsaved,
          removed |-> job[p].removed,
          save    |-> job[p].save \/ missing # {},
          fresh   |-> [f \in Files |-> IF f \in S THEN data[f] ELSE job[p].fresh[f]]]]
    /\ pc' = [pc EXCEPT ![p] = IF S = job[p].reuse THEN "parse" ELSE "load"]
    /\ UNCHANGED <<disk, cache, memory, current, faults>>

ReadUnits(p) ==
    IF Sharded /\ job[p].reuse # {} THEN {{f} : f \in job[p].reuse} ELSE {job[p].reuse}

(* parse_files: a file is resolved and read when its turn comes, however   *)
(* long after the stat.                                                    *)
Parse(p, f) ==
    /\ pc[p] = "parse"
    /\ f \in job[p].toParse
    /\ job' = [job EXCEPT ![p] =
         [reuse   |-> job[p].reuse,
          toParse |-> job[p].toParse \ {f},
          unsaved |-> job[p].unsaved \cup {f},
          removed |-> job[p].removed,
          save    |-> job[p].save,
          fresh   |-> [job[p].fresh EXCEPT ![f] = Outcome(f)]]]
    /\ UNCHANGED <<disk, cache, pc, memory, current, faults>>

(* _rebuild's last assignment, then ensure_fresh's.                        *)
BugFinishRestats(p) ==
    /\ sigs' = [sigs EXCEPT ![p] = Signatures]
    /\ loaded' = [loaded EXCEPT ![p] = TRUE]
    /\ pc' = [pc EXCEPT ![p] = "idle"]
    /\ Forget(p)

Finish(p) ==
    /\ sigs' = [sigs EXCEPT ![p] = current[p]]
    /\ loaded' = [loaded EXCEPT ![p] = TRUE]
    /\ pc' = [pc EXCEPT ![p] = "idle"]
    /\ Forget(p)

(* The new maps are assigned; with nothing to save the rebuild is over.    *)
Install(p) ==
    /\ pc[p] = "parse"
    /\ job[p].toParse = {}
    /\ held' = [held EXCEPT ![p] = job[p].fresh]
    /\ IF job[p].save
       THEN pc' = [pc EXCEPT ![p] = "write"] /\ UNCHANGED <<sigs, loaded, local>>
       ELSE Finish(p)
    /\ UNCHANGED <<disk, cache, faults>>

----------------------------------------------------------------------------
(* _persist.  Every write is a temporary file renamed into place.          *)

(* Monolithic: _by_file and, if tracked, _parse_errors in one data.json.   *)
Payload(view) ==
    [f \in Files |-> IF view[f].kind = "failed" /\ ~TrackErrors THEN None ELSE view[f]]

WriteData(p) ==
    /\ ~Sharded
    /\ pc[p] = "write"
    /\ data' = Payload(held[p])
    /\ pc' = [pc EXCEPT ![p] = "manifest"]
    /\ UNCHANGED <<disk, manifest, memory, local, faults>>

(* Sharded: one shard per file parsed by this refresh ...                  *)
WriteShard(p, f) ==
    /\ Sharded
    /\ pc[p] = "write"
    /\ f \in job[p].unsaved
    /\ data' = [data EXCEPT ![f] = job[p].fresh[f]]
    /\ job' = [job EXCEPT ![p] =
         [reuse   |-> job[p].reuse,
          toParse |-> job[p].toParse,
          unsaved |-> job[p].unsaved \ {f},
          removed |-> job[p].removed,
          save    |-> job[p].save,
          fresh   |-> job[p].fresh]]
    /\ UNCHANGED <<disk, manifest, pc, memory, current, faults>>

(* ... then the shards of removed files and, on a full rebuild, every      *)
(* orphan; an unlink that fails is ignored.                                *)
Orphans(p) ==
    job[p].removed \cup (IF loaded[p] THEN {} ELSE {f \in Files : current[p][f] = NoSig})

DropShards(p) ==
    /\ Sharded
    /\ pc[p] = "write"
    /\ job[p].unsaved = {}
    /\ \E kept \in IF WritesMayFail THEN SUBSET Orphans(p) ELSE {{}} :
         data' = [f \in Files |-> IF f \in Orphans(p) \ kept THEN None ELSE data[f]]
    /\ pc' = [pc EXCEPT ![p] = "manifest"]
    /\ UNCHANGED <<disk, manifest, memory, local, faults>>

BugManifestRestats(p) ==
    /\ pc[p] = "manifest"
    /\ manifest' = Signatures
    /\ Finish(p)
    /\ UNCHANGED <<disk, data, held, faults>>

WriteManifest(p) ==
    /\ pc[p] = "manifest"
    /\ manifest' = current[p]
    /\ Finish(p)
    /\ UNCHANGED <<disk, data, held, faults>>

BugFailureGoesOn(p) ==
    /\ WritesMayFail
    /\ pc[p] = "write"
    /\ pc' = [pc EXCEPT ![p] = "manifest"]
    /\ UNCHANGED <<disk, cache, memory, local, faults>>

(* save_data, save_shard or save_manifest raises OSError: logged, and the  *)
(* rebuild ends as if it had been saved.                                   *)
WriteFails(p) ==
    /\ WritesMayFail
    /\ pc[p] = "manifest" \/ (pc[p] = "write" /\ (Sharded => job[p].unsaved # {}))
    /\ Finish(p)
    /\ UNCHANGED <<disk, cache, held, faults>>

Refresh(p) ==
    \/ Stat(p)
    \/ FastPath(p)
    \/ Plan(p)
    \/ \E S \in ReadUnits(p) : LoadCached(p, S)
    \/ \E f \in Files : Parse(p, f)
    \/ Install(p)
    \/ WriteData(p)
    \/ \E f \in Files : WriteShard(p, f)
    \/ DropShards(p)
    \/ WriteManifest(p)
    \/ WriteFails(p)

----------------------------------------------------------------------------
(* The process dies wherever it is; a new one starts with empty maps.      *)
Restart(p) ==
    /\ faults < MaxFaults
    /\ faults' = faults + 1
    /\ pc' = [pc EXCEPT ![p] = "idle"]
    /\ loaded' = [loaded EXCEPT ![p] = FALSE]
    /\ sigs' = [sigs EXCEPT ![p] = NoSigs]
    /\ held' = [held EXCEPT ![p] = NoneHeld]
    /\ Forget(p)
    /\ UNCHANGED <<disk, cache>>

(* Somebody deletes or corrupts cache files.                               *)
Damage ==
    /\ faults < MaxFaults
    /\ faults' = faults + 1
    /\ \/ manifest' = NoSigs /\ UNCHANGED data
       \/ \E S \in SUBSET Files :
            /\ data' = [f \in Files |-> IF f \in S THEN None ELSE data[f]]
            /\ UNCHANGED manifest
    /\ UNCHANGED <<disk, pc, memory, local>>

SourceChange ==
    /\ \E f \in Files : Write(f) \/ Delete(f)
    /\ UNCHANGED <<cache, pc, memory, local, faults>>

Next ==
    \/ SourceChange
    \/ Damage
    \/ \E p \in Procs : Refresh(p) \/ Restart(p)

Spec == Init /\ [][Next]_vars

(* A client that keeps querying makes every process refresh again and      *)
(* again: each query past the debounce window calls ensure_fresh, and      *)
(* nothing in a refresh waits for anyone.                                  *)
FairSpec == Spec /\ \A p \in Procs : WF_vars(Refresh(p))
----------------------------------------------------------------------------
(* Write order (_persist: data first, manifest last).  Wherever a crash    *)
(* falls, cached data is at least as new as the manifest says it is.       *)
ManifestNeverAhead ==
    \A f \in Files : manifest[f] # NoSig /\ data[f] # None => data[f].ver >= manifest[f]

(* What the next start takes from the cache without parsing (an unchanged  *)
(* file with a usable entry) is what parsing the file would give.          *)
TrustedDataIsCurrent ==
    \A f \in Files :
        disk[f].there /\ manifest[f] = disk[f].ver /\ data[f] # None => data[f] = Outcome(f)

(* A warm process whose signature of a file is the file's present one      *)
(* serves the file's present content: skipping it in every later refresh   *)
(* (plan_rebuild, fast path) loses nothing.                                *)
ServedMatchesSignature ==
    \A p \in Procs, f \in Files :
        loaded[p] /\ disk[f].there /\ sigs[p][f] = disk[f].ver => held[p][f] = Outcome(f)

(* Between refreshes the maps cover exactly the files of the last one,     *)
(* whatever other processes did to the shared cache (plan_rebuild: the     *)
(* baseline is memory, not the manifest another process may rewrite).      *)
MapsCoverSignatures ==
    \A p \in Procs, f \in Files :
        loaded[p] /\ pc[p] = "idle" => (held[p][f] # None <=> sigs[p][f] # NoSig)

(* A warm process never goes back to older content of a file.              *)
NeverBackwards ==
    [][\A p \in Procs, f \in Files :
         loaded[p] /\ loaded'[p] /\ held'[p][f] # None => held'[p][f].ver >= held[p][f].ver]_vars

(* The cache is invisible: one process's refreshes are those of an index   *)
(* that has none.                                                          *)
Cacheless == INSTANCE FreshIndex WITH
    seen <- [p \in Procs |-> IF pc[p] = "idle" THEN <<>> ELSE <<current[p]>>]
CacheIsInvisible == Cacheless!Spec

(* Once editing, faults and restarts end, every process comes to serve     *)
(* exactly what is on disk, even if no cache write ever succeeds.          *)
EventuallyServed ==
    <>[](\A p \in Procs, f \in Files :
           held[p][f] = IF disk[f].there THEN Outcome(f) ELSE None)
----------------------------------------------------------------------------
(* Why a lone process on a cache directory is safe: the inductive          *)
(* invariant.  Data is never older than the signatures that vouch for it,  *)
(* in the cache (manifest), in memory (sigs) and half-way through a        *)
(* refresh (current).                                                      *)
NotOlder(h, s) == h # None /\ s # NoSig => s <= h.ver

StoreInv ==
    \A f \in Files :
      /\ Genuine(f, data[f])
      /\ NotOlder(data[f], manifest[f])
      /\ manifest[f] <= disk[f].ver

MemoryInv(p) ==
    \A f \in Files :
      /\ Genuine(f, held[p][f])
      /\ sigs[p][f] <= disk[f].ver
      /\ current[p][f] <= disk[f].ver
      /\ current[p][f] # NoSig => manifest[f] <= current[p][f]
      /\ loaded[p] /\ pc[p] \notin {"write", "manifest"} =>
            /\ AtLeast(f, held[p][f], sigs[p][f])
            /\ Sharded => NotOlder(data[f], sigs[p][f])
      /\ loaded[p] /\ pc[p] # "idle" /\ disk[f].there /\ sigs[p][f] = disk[f].ver =>
            current[p][f] = sigs[p][f]

LoadInv(p) ==
    pc[p] = "load" =>
      /\ ~loaded[p]
      /\ job[p].toParse # {} => job[p].save
      /\ job[p].unsaved = {}
      /\ \A f \in Files :
           /\ f \in job[p].toParse \cup job[p].reuse => current[p][f] # NoSig
           /\ f \notin job[p].toParse => NotOlder(data[f], current[p][f])
           /\ f \notin job[p].toParse \cup job[p].reuse =>
                AtLeast(f, job[p].fresh[f], current[p][f])

ParseInv(p) ==
    pc[p] = "parse" =>
      /\ job[p].toParse \cup job[p].unsaved # {} => job[p].save
      /\ \A f \in Files :
           /\ f \in job[p].toParse => current[p][f] # NoSig
           /\ f \notin job[p].toParse => AtLeast(f, job[p].fresh[f], current[p][f])
           /\ Sharded /\ f \notin job[p].toParse \cup job[p].unsaved =>
                NotOlder(data[f], current[p][f])

WriteInv(p) ==
    /\ pc[p] \in {"write", "manifest"} =>
         \A f \in Files : AtLeast(f, held[p][f], current[p][f])
    /\ pc[p] = "write" =>
         /\ held[p] = job[p].fresh
         /\ Sharded => \A f \in Files \ job[p].unsaved : NotOlder(data[f], current[p][f])
    /\ pc[p] = "manifest" => \A f \in Files : NotOlder(data[f], current[p][f])

(* Every cached or served outcome is a real one, and never older than the  *)
(* signature that would let a later refresh skip the file.                 *)
NeverStale ==
    /\ \A f \in Files : disk[f].ver > 0
    /\ StoreInv
    /\ \A p \in Procs : MemoryInv(p) /\ LoadInv(p) /\ ParseInv(p) /\ WriteInv(p)
=============================================================================
