------------------------- MODULE IndexThreadsProofs -------------------------
(* One index object used by any number of threads, of which at most one    *)
(* refreshes it: the debounce's promise, which a cold start can break.     *)
EXTENDS IndexThreads, TLAPS

LoneRefresher == \A t, u \in Refreshers : t = u

DiskInv == disk \in [Files -> [ver : 1..MaxVersion, there : BOOLEAN, good : BOOLEAN]]

Types ==
  /\ DiskInv
  /\ byFile \in Views /\ byKey \in Views /\ tags \in Views
  /\ sigs \in Sigs /\ loaded \in BOOLEAN /\ rebuild \in [Threads -> Job]

(* Only a refresher leaves the query; what its locals are at each step.    *)
JobInv(t) ==
  LET job == rebuild[t] IN
  /\ t \notin Refreshers => job.pc \in {"idle", "query"}
  /\ job.pc \notin {"idle", "query"} => \A f \in Files : job.plan[f] <= disk[f].ver
  /\ job.pc \in {"base_files", "base_keys", "parse"} => job.known = sigs
  /\ job.pc = "base_keys" => ~job.full /\ job.files = byFile
  /\ job.pc = "parse" /\ ~job.full => job.files = byFile /\ job.keys = byKey
  /\ job.pc \in {"set_files", "set_keys", "set_sigs", "set_tags"} =>
       job.files = job.keys /\ FreshView(job.files, job.plan)
  /\ job.pc \in {"set_keys", "set_sigs", "set_tags"} => byFile = job.files
  /\ job.pc \in {"set_sigs", "set_tags"} => byKey = job.keys
  /\ job.pc = "set_tags" => sigs = job.plan

Publishing(t) == rebuild[t].pc \in {"set_keys", "set_sigs", "set_tags"}

(* Unless a refresh is publishing, the maps are of one refresh, and no     *)
(* older than its signatures.                                              *)
MapsInv ==
  /\ (\A t \in Threads : ~Publishing(t)) => /\ byFile = byKey /\ byKey = tags
                                            /\ FreshView(byFile, sigs)
  /\ ~loaded /\ (\A t \in Threads : rebuild[t].pc \notin {"set_tags", "finish"}) => sigs = NoSigs

IInv == Types /\ MapsInv /\ \A t \in Threads : JobInv(t)
----------------------------------------------------------------------------
LEMMA SignaturesAreVersions ==
  ASSUME DiskInv
  PROVE  /\ Signatures \in Sigs
         /\ \A f \in Files : /\ disk[f].ver \in 1..MaxVersion /\ Outcome(f) \in Held
                             /\ Signatures[f] # NoSig => Signatures[f] = disk[f].ver
                             /\ Signatures[f] <= disk[f].ver
  BY VersionBound DEF DiskInv, Signatures, Sigs, NoSig, Outcome, Held

LEMMA NothingHeld == NoJob \in Job /\ NoneHeld \in Views /\ NoSigs \in Sigs /\ None \in Held
  BY VersionBound DEF NoJob, Job, Steps, NoneHeld, Views, NoSigs, Sigs, NoSig, None, Held

(* A view stays no older than its signatures while files get newer.        *)
LEMMA EditsKeepViews ==
  ASSUME DiskInv, NEW g \in Files, Write(g) \/ Delete(g), NEW view \in Views, NEW s \in Sigs,
         FreshView(view, s)
  PROVE  FreshView(view, s)'
  <1>1. PICK there \in BOOLEAN, good \in BOOLEAN : Change(g, there, good)
    BY DEF Write, Delete, DiskInv
  <1>2. /\ disk' = [disk EXCEPT ![g] = [ver |-> disk[g].ver + 1, there |-> there, good |-> good]]
        /\ disk[g].ver \in Nat
    BY <1>1, VersionBound DEF Change, DiskInv
  <1>3. disk'[g].ver = disk[g].ver + 1 /\ \A f \in Files : f # g => disk'[f] = disk[f]
    BY <1>2 DEF DiskInv
  <1>4. ASSUME NEW f \in Files PROVE AtLeast(f, view[f], s[f])'
    <2>1. AtLeast(f, view[f], s[f]) /\ view[f].ver \in Nat
      BY DEF FreshView, Views, Held
    <2>2. CASE f = g
      BY <1>2, <1>3, <2>1, <2>2 DEF AtLeast, Genuine
    <2>3. CASE f # g
      BY <1>3, <2>1, <2>3 DEF AtLeast, Genuine, Outcome
    <2> QED
      BY <2>2, <2>3
  <1> QED
    BY <1>4 DEF FreshView

LEMMA SameDisk ==
  ASSUME disk' = disk, NEW view, NEW s, FreshView(view, s)
  PROVE  FreshView(view, s)'
  BY DEF FreshView, AtLeast, Genuine, Outcome
----------------------------------------------------------------------------
(* A query begins or ends, whatever refresh is under way.                  *)
LEMMA QueriesAreHarmless ==
  ASSUME IInv, NEW t \in Threads, rebuild[t].pc \in {"idle", "query"},
         NEW step \in {"idle", "query"}, Goto(t, step), UNCHANGED <<disk, maps, sigs, loaded>>
  PROVE  IInv'
  <1>1. /\ UNCHANGED <<disk, byFile, byKey, tags, sigs, loaded>>
        /\ rebuild' = [rebuild EXCEPT ![t].pc = step]
    BY DEF maps, Goto
  <1>2. rebuild[t] \in Job /\ step \in Steps
    BY DEF IInv, Types, Steps
  <1>3. /\ rebuild' \in [Threads -> Job] /\ rebuild'[t].pc = step
        /\ \A u \in Threads : u # t => rebuild'[u] = rebuild[u]
    BY <1>1, <1>2 DEF IInv, Types, Job
  <1>4. Types'
    BY <1>1, <1>3 DEF IInv, Types, DiskInv
  <1>5. ASSUME NEW u \in Threads PROVE JobInv(u)'
    <2>1. CASE u = t
      BY <1>3, <2>1 DEF JobInv
    <2>2. CASE u # t
      <3>1. JobInv(u) /\ rebuild'[u] = rebuild[u]
        BY <1>3, <2>2 DEF IInv
      <3> QED
        BY <1>1, <3>1 DEF JobInv, FreshView, AtLeast, Genuine, Outcome
    <2> QED
      BY <2>1, <2>2
  <1>6. ASSUME NEW u \in Threads
        PROVE  /\ (rebuild'[u].pc \in {"set_keys", "set_sigs", "set_tags"}) <=> Publishing(u)
               /\ (rebuild'[u].pc \in {"set_tags", "finish"}) <=> (rebuild[u].pc \in {"set_tags", "finish"})
    BY <1>3 DEF Publishing
  <1>7. MapsInv'
    BY <1>1, <1>6 DEF IInv, MapsInv, Publishing, FreshView, AtLeast, Genuine, Outcome
  <1> QED
    BY <1>4, <1>5, <1>7 DEF IInv

(* The lone refresher makes a step, and its locals become j.               *)
LEMMA RefresherMoves ==
  ASSUME IInv, NEW t \in Refreshers, t \in Threads, NEW j \in Job,
         \A u \in Threads : u # t => rebuild[u].pc \in {"idle", "query"},
         disk' = disk, rebuild' = [rebuild EXCEPT ![t] = j],
         byFile' \in Views, byKey' \in Views, tags' \in Views, sigs' \in Sigs, loaded' \in BOOLEAN,
         j.pc \notin {"idle", "query"} => \A f \in Files : j.plan[f] <= disk[f].ver,
         j.pc \in {"base_files", "base_keys", "parse"} => j.known = sigs',
         j.pc = "base_keys" => ~j.full /\ j.files = byFile',
         j.pc = "parse" /\ ~j.full => j.files = byFile' /\ j.keys = byKey',
         j.pc \in {"set_files", "set_keys", "set_sigs", "set_tags"} =>
           j.files = j.keys /\ FreshView(j.files, j.plan),
         j.pc \in {"set_keys", "set_sigs", "set_tags"} => byFile' = j.files,
         j.pc \in {"set_sigs", "set_tags"} => byKey' = j.keys,
         j.pc = "set_tags" => sigs' = j.plan,
         j.pc \notin {"set_keys", "set_sigs", "set_tags"} =>
           byFile' = byKey' /\ byKey' = tags' /\ FreshView(byFile', sigs'),
         ~loaded' /\ j.pc \notin {"set_tags", "finish"} => sigs' = NoSigs
  PROVE  IInv'
  <1>1. rebuild' \in [Threads -> Job] /\ \A u \in Threads : rebuild'[u] = IF u = t THEN j ELSE rebuild[u]
    BY DEF IInv, Types
  <1>2. Types'
    BY <1>1 DEF IInv, Types, DiskInv
  <1>3. ASSUME NEW u \in Threads PROVE JobInv(u)'
    <2>1. CASE u = t
      <3>1. rebuild'[u] = j
        BY <1>1, <2>1
      <3> QED
        BY <2>1, <3>1 DEF JobInv, FreshView, AtLeast, Genuine, Outcome
    <2>2. CASE u # t
      <3>1. rebuild'[u].pc \in {"idle", "query"}
        BY <1>1, <2>2
      <3> QED
        BY <3>1 DEF JobInv
    <2> QED
      BY <2>1, <2>2
  <1>4. MapsInv'
    <2>1. (\A u \in Threads : ~Publishing(u))' => j.pc \notin {"set_keys", "set_sigs", "set_tags"}
      BY <1>1 DEF Publishing
    <2>2. (\A u \in Threads : rebuild'[u].pc \notin {"set_tags", "finish"}) => j.pc \notin {"set_tags", "finish"}
      BY <1>1
    <2> QED
      BY <2>1, <2>2 DEF MapsInv, FreshView, AtLeast, Genuine, Outcome
  <1> QED
    BY <1>2, <1>3, <1>4 DEF IInv
----------------------------------------------------------------------------
(* A refresh's locals, one step on.                                        *)
Stepped(j, pc) == [j EXCEPT !.pc = pc]
Planned(j, pc, known, plan) == [j EXCEPT !.pc = pc, !.known = known, !.plan = plan]
Based(j, full, files, pc) == [j EXCEPT !.full = full, !.files = files, !.pc = pc]
Keyed(j, keys, pc) == [j EXCEPT !.keys = keys, !.pc = pc]
Parsed(j, files, keys, pc) == [j EXCEPT !.files = files, !.keys = keys, !.pc = pc]

LEMMA LocalsAreStepped ==
  ASSUME NEW j \in Job, NEW pc \in Steps
  PROVE  /\ Stepped(j, pc) \in Job /\ Stepped(j, pc).pc = pc
         /\ Stepped(j, pc).known = j.known /\ Stepped(j, pc).plan = j.plan
         /\ Stepped(j, pc).full = j.full
         /\ Stepped(j, pc).files = j.files /\ Stepped(j, pc).keys = j.keys
  BY DEF Job, Stepped

LEMMA LocalsArePlanned ==
  ASSUME NEW j \in Job, NEW pc \in Steps, NEW known \in Sigs, NEW plan \in Sigs
  PROVE  /\ Planned(j, pc, known, plan) \in Job /\ Planned(j, pc, known, plan).pc = pc
         /\ Planned(j, pc, known, plan).known = known /\ Planned(j, pc, known, plan).plan = plan
  BY DEF Job, Planned

LEMMA LocalsAreBased ==
  ASSUME NEW j \in Job, NEW pc \in Steps, NEW full \in BOOLEAN, NEW files \in Views
  PROVE  /\ Based(j, full, files, pc) \in Job /\ Based(j, full, files, pc).pc = pc
         /\ Based(j, full, files, pc).known = j.known /\ Based(j, full, files, pc).plan = j.plan
         /\ Based(j, full, files, pc).full = full /\ Based(j, full, files, pc).files = files
  BY DEF Job, Based

LEMMA LocalsAreKeyed ==
  ASSUME NEW j \in Job, NEW pc \in Steps, NEW keys \in Views
  PROVE  /\ Keyed(j, keys, pc) \in Job /\ Keyed(j, keys, pc).pc = pc
         /\ Keyed(j, keys, pc).known = j.known /\ Keyed(j, keys, pc).plan = j.plan
         /\ Keyed(j, keys, pc).full = j.full
         /\ Keyed(j, keys, pc).files = j.files /\ Keyed(j, keys, pc).keys = keys
  BY DEF Job, Keyed

LEMMA LocalsAreParsed ==
  ASSUME NEW j \in Job, NEW pc \in Steps, NEW files \in Views, NEW keys \in Views
  PROVE  /\ Parsed(j, files, keys, pc) \in Job /\ Parsed(j, files, keys, pc).pc = pc
         /\ Parsed(j, files, keys, pc).plan = j.plan
         /\ Parsed(j, files, keys, pc).files = files /\ Parsed(j, files, keys, pc).keys = keys
  BY DEF Job, Parsed

(* While the lone refresher is not at rest, every other thread is.         *)
LEMMA OthersRest ==
  ASSUME LoneRefresher, IInv, NEW t \in Refreshers
  PROVE  \A u \in Threads : u # t => rebuild[u].pc \in {"idle", "query"}
  BY DEF LoneRefresher, IInv, JobInv

LEMMA RefresherState ==
  ASSUME LoneRefresher, IInv, NEW t \in Threads, t \in Refreshers \/ rebuild[t].pc \notin {"idle", "query"}
  PROVE  /\ t \in Refreshers /\ rebuild[t] \in Job /\ JobInv(t)
         /\ \A u \in Threads : u # t => rebuild[u].pc \in {"idle", "query"}
         /\ rebuild[t].pc \notin {"set_keys", "set_sigs", "set_tags"} =>
              byFile = byKey /\ byKey = tags /\ FreshView(byFile, sigs)
         /\ ~loaded /\ rebuild[t].pc \notin {"set_tags", "finish"} => sigs = NoSigs
         /\ byFile \in Views /\ byKey \in Views /\ tags \in Views /\ sigs \in Sigs /\ loaded \in BOOLEAN
  <1>1. t \in Refreshers /\ rebuild[t] \in Job /\ JobInv(t)
    BY DEF IInv, Types, JobInv
  <1>2. \A u \in Threads : u # t => rebuild[u].pc \in {"idle", "query"}
    BY <1>1, OthersRest
  <1> QED
    BY <1>1, <1>2 DEF IInv, Types, MapsInv, Publishing
----------------------------------------------------------------------------
LEMMA PlanHolds ==
  ASSUME LoneRefresher, IInv, NEW t \in Threads, Plan(t)
  PROVE  IInv'
  <1> DEFINE pc == IF loaded /\ Signatures = sigs THEN "finish" ELSE "base_files"
             known == IF loaded THEN sigs ELSE NoSigs
             j == Planned(NoJob, pc, known, Signatures)
  <1>1. t \in Refreshers /\ rebuild[t].pc = "idle" /\ UNCHANGED <<disk, byFile, byKey, tags, sigs, loaded>>
    BY DEF Plan, At, maps
  <1>2. /\ \A u \in Threads : u # t => rebuild[u].pc \in {"idle", "query"}
        /\ byFile = byKey /\ byKey = tags /\ FreshView(byFile, sigs)
        /\ ~loaded => sigs = NoSigs
        /\ byFile \in Views /\ byKey \in Views /\ tags \in Views /\ sigs \in Sigs /\ loaded \in BOOLEAN
    BY <1>1, RefresherState
  <1>3. Signatures \in Sigs /\ \A f \in Files : Signatures[f] <= disk[f].ver
    BY SignaturesAreVersions DEF IInv, Types
  <1>4. rebuild' = [rebuild EXCEPT ![t] = j]
    BY DEF Plan, Planned
  <1>5. known = sigs /\ pc \in {"finish", "base_files"} /\ pc \in Steps
    BY <1>2 DEF Steps
  <1> HIDE DEF known, pc
  <1>6. j \in Job /\ j.pc = pc /\ j.known = known /\ j.plan = Signatures
    BY <1>2, <1>3, <1>5, NothingHeld, LocalsArePlanned
  <1> HIDE DEF j
  <1> QED
    BY <1>1, <1>2, <1>3, <1>4, <1>5, <1>6, RefresherMoves

LEMMA BasesHold ==
  ASSUME LoneRefresher, IInv, NEW t \in Threads, BaseFiles(t) \/ BaseKeys(t)
  PROVE  IInv'
  <1>1. /\ rebuild[t].pc \in {"base_files", "base_keys"}
        /\ UNCHANGED <<disk, byFile, byKey, tags, sigs, loaded>>
    BY DEF BaseFiles, BaseKeys, At, maps
  <1>2. /\ t \in Refreshers /\ rebuild[t] \in Job /\ JobInv(t)
        /\ \A u \in Threads : u # t => rebuild[u].pc \in {"idle", "query"}
        /\ byFile = byKey /\ byKey = tags /\ FreshView(byFile, sigs)
        /\ ~loaded => sigs = NoSigs
        /\ byFile \in Views /\ byKey \in Views /\ tags \in Views /\ sigs \in Sigs /\ loaded \in BOOLEAN
    BY <1>1, RefresherState
  <1>3. rebuild[t].known = sigs /\ \A f \in Files : rebuild[t].plan[f] <= disk[f].ver
    BY <1>1, <1>2 DEF JobInv
  <1>4. CASE BaseFiles(t)
    <2> DEFINE pc == IF loaded THEN "base_keys" ELSE "parse"
               full == ~loaded
               j == Based(rebuild[t], full, byFile, pc)
    <2>1. rebuild' = [rebuild EXCEPT ![t] = j]
      BY <1>4 DEF BaseFiles, Based
    <2>2. full \in BOOLEAN /\ pc \in Steps
      BY DEF Steps
    <2>3. pc \in {"base_keys", "parse"} /\ (pc = "base_keys" => ~full) /\ (pc = "parse" => full)
      BY <1>2
    <2> HIDE DEF pc, full
    <2>4. /\ j \in Job /\ j.pc = pc /\ j.known = rebuild[t].known /\ j.plan = rebuild[t].plan
          /\ j.full = full /\ j.files = byFile
      BY <1>2, <2>2, LocalsAreBased
    <2> HIDE DEF j
    <2> QED
      BY <1>1, <1>2, <1>3, <2>1, <2>3, <2>4, RefresherMoves
  <1>5. CASE BaseKeys(t)
    <2> DEFINE j == Keyed(rebuild[t], byKey, "parse")
    <2>1. rebuild' = [rebuild EXCEPT ![t] = j] /\ rebuild[t].pc = "base_keys"
      BY <1>5 DEF BaseKeys, Keyed, At
    <2>2. "parse" \in Steps
      BY DEF Steps
    <2>3. /\ j \in Job /\ j.pc = "parse" /\ j.known = rebuild[t].known /\ j.plan = rebuild[t].plan
          /\ j.full = rebuild[t].full /\ j.files = rebuild[t].files /\ j.keys = byKey
      BY <1>2, <2>2, LocalsAreKeyed
    <2>4. rebuild[t].files = byFile
      BY <1>2, <2>1 DEF JobInv
    <2> HIDE DEF j
    <2> QED
      BY <1>1, <1>2, <1>3, <2>1, <2>3, <2>4, RefresherMoves
  <1> QED
    BY <1>4, <1>5

(* What was parsed, over maps no older than what was known, is no older    *)
(* than the plan.                                                          *)
LEMMA PatchedIsFresh ==
  ASSUME IInv, NEW t \in Threads, rebuild[t] \in Job, NEW view \in Views,
         ~rebuild[t].full => FreshView(view, rebuild[t].known),
         \A f \in Files : rebuild[t].plan[f] <= disk[f].ver
  PROVE  Patched(t, view) \in Views /\ FreshView(Patched(t, view), rebuild[t].plan)
  <1> DEFINE new == Patched(t, view)
  <1>1. \A f \in Files : /\ disk[f].ver \in 1..MaxVersion /\ Outcome(f) \in Held
                         /\ rebuild[t].plan[f] \in 0..MaxVersion
    BY SignaturesAreVersions DEF IInv, Types, Job, Sigs
  <1>2. new \in Views
    BY <1>1, NothingHeld DEF Patched, Views
  <1>3. ASSUME NEW f \in Files PROVE AtLeast(f, new[f], rebuild[t].plan[f])
    <2>1. CASE ~rebuild[t].full /\ rebuild[t].plan[f] = rebuild[t].known[f]
      BY <2>1 DEF FreshView, Patched
    <2>2. CASE ~(~rebuild[t].full /\ rebuild[t].plan[f] = rebuild[t].known[f])
      <3>1. new[f] = IF rebuild[t].plan[f] = NoSig THEN None ELSE Outcome(f)
        BY <2>2 DEF Patched
      <3>2. Outcome(f).kind # "none" /\ Outcome(f).ver = disk[f].ver
        BY DEF Outcome
      <3> QED
        BY <1>1, <3>1, <3>2 DEF AtLeast, Genuine
    <2> QED
      BY <2>1, <2>2
  <1> QED
    BY <1>2, <1>3 DEF FreshView

LEMMA ParseHolds ==
  ASSUME LoneRefresher, IInv, NEW t \in Threads, Parse(t)
  PROVE  IInv'
  <1> DEFINE files == Patched(t, rebuild[t].files)
             keys == Patched(t, rebuild[t].keys)
             j == Parsed(rebuild[t], files, keys, "set_files")
  <1>1. /\ rebuild[t].pc = "parse" /\ UNCHANGED <<disk, byFile, byKey, tags, sigs, loaded>>
        /\ rebuild' = [rebuild EXCEPT ![t] = j]
    BY DEF Parse, At, maps, Parsed
  <1>2. /\ t \in Refreshers /\ rebuild[t] \in Job /\ JobInv(t)
        /\ \A u \in Threads : u # t => rebuild[u].pc \in {"idle", "query"}
        /\ byFile = byKey /\ byKey = tags /\ FreshView(byFile, sigs)
        /\ ~loaded => sigs = NoSigs
        /\ byFile \in Views /\ byKey \in Views /\ tags \in Views /\ sigs \in Sigs /\ loaded \in BOOLEAN
    BY <1>1, RefresherState
  <1>3. /\ rebuild[t].known = sigs /\ \A f \in Files : rebuild[t].plan[f] <= disk[f].ver
        /\ ~rebuild[t].full => rebuild[t].files = byFile /\ rebuild[t].keys = byKey
    BY <1>1, <1>2 DEF JobInv
  <1>4. rebuild[t].files \in Views /\ rebuild[t].keys \in Views
    BY <1>2 DEF Job
  <1>5. files \in Views /\ FreshView(files, rebuild[t].plan) /\ keys \in Views
    BY <1>2, <1>3, <1>4, PatchedIsFresh
  <1>6. files = keys
    BY <1>2, <1>3 DEF Patched
  <1> HIDE DEF files, keys
  <1>7. "set_files" \in Steps
    BY DEF Steps
  <1>8. /\ j \in Job /\ j.pc = "set_files" /\ j.plan = rebuild[t].plan
        /\ j.files = files /\ j.keys = keys
    BY <1>2, <1>5, <1>7, LocalsAreParsed
  <1> HIDE DEF j
  <1> QED
    BY <1>1, <1>2, <1>3, <1>5, <1>6, <1>8, RefresherMoves

(* The maps are replaced one by one: in between they differ, and nobody    *)
(* else is refreshing.                                                     *)
LEMMA PublicationHolds ==
  ASSUME LoneRefresher, IInv, NEW t \in Threads,
         SetFiles(t) \/ SetKeys(t) \/ SetSigs(t) \/ SetTags(t) \/ FinishEnsure(t)
  PROVE  IInv'
  <1>1. rebuild[t].pc \in {"set_files", "set_keys", "set_sigs", "set_tags", "finish"} /\ disk' = disk
    BY DEF SetFiles, SetKeys, SetSigs, SetTags, FinishEnsure, At
  <1>2. /\ t \in Refreshers /\ rebuild[t] \in Job /\ JobInv(t)
        /\ \A u \in Threads : u # t => rebuild[u].pc \in {"idle", "query"}
        /\ rebuild[t].pc \notin {"set_keys", "set_sigs", "set_tags"} =>
             byFile = byKey /\ byKey = tags /\ FreshView(byFile, sigs)
        /\ ~loaded /\ rebuild[t].pc \notin {"set_tags", "finish"} => sigs = NoSigs
        /\ byFile \in Views /\ byKey \in Views /\ tags \in Views /\ sigs \in Sigs /\ loaded \in BOOLEAN
    BY <1>1, RefresherState
  <1>3. /\ \A f \in Files : rebuild[t].plan[f] <= disk[f].ver
        /\ rebuild[t].pc # "finish" => /\ rebuild[t].files = rebuild[t].keys
                                       /\ FreshView(rebuild[t].files, rebuild[t].plan)
        /\ rebuild[t].pc \in {"set_keys", "set_sigs", "set_tags"} => byFile = rebuild[t].files
        /\ rebuild[t].pc \in {"set_sigs", "set_tags"} => byKey = rebuild[t].keys
        /\ rebuild[t].pc = "set_tags" => sigs = rebuild[t].plan
    BY <1>1, <1>2 DEF JobInv
  <1>4. rebuild[t].files \in Views /\ rebuild[t].keys \in Views /\ rebuild[t].plan \in Sigs
    BY <1>2 DEF Job
  <1>5. ASSUME NEW pc \in Steps
        PROVE  /\ Stepped(rebuild[t], pc) \in Job /\ Stepped(rebuild[t], pc).pc = pc
               /\ Stepped(rebuild[t], pc).plan = rebuild[t].plan
               /\ Stepped(rebuild[t], pc).files = rebuild[t].files
               /\ Stepped(rebuild[t], pc).keys = rebuild[t].keys
    BY <1>2, LocalsAreStepped
  <1>6. CASE SetFiles(t)
    <2> DEFINE j == Stepped(rebuild[t], "set_keys")
    <2>1. /\ rebuild' = [rebuild EXCEPT ![t] = j] /\ rebuild[t].pc = "set_files"
          /\ byFile' = rebuild[t].files /\ UNCHANGED <<byKey, tags, sigs, loaded>>
      BY <1>6 DEF SetFiles, At, Goto, Stepped
    <2>2. /\ j \in Job /\ j.pc = "set_keys" /\ j.plan = rebuild[t].plan
          /\ j.files = rebuild[t].files /\ j.keys = rebuild[t].keys
      BY <1>5 DEF Steps
    <2> HIDE DEF j
    <2> QED
      BY <1>1, <1>2, <1>3, <1>4, <2>1, <2>2, RefresherMoves
  <1>7. CASE SetKeys(t)
    <2> DEFINE j == Stepped(rebuild[t], "set_sigs")
    <2>1. /\ rebuild' = [rebuild EXCEPT ![t] = j] /\ rebuild[t].pc = "set_keys"
          /\ byKey' = rebuild[t].keys /\ UNCHANGED <<byFile, tags, sigs, loaded>>
      BY <1>7 DEF SetKeys, At, Goto, Stepped
    <2>2. /\ j \in Job /\ j.pc = "set_sigs" /\ j.plan = rebuild[t].plan
          /\ j.files = rebuild[t].files /\ j.keys = rebuild[t].keys
      BY <1>5 DEF Steps
    <2> HIDE DEF j
    <2> QED
      BY <1>1, <1>2, <1>3, <1>4, <2>1, <2>2, RefresherMoves
  <1>8. CASE SetSigs(t)
    <2> DEFINE j == Stepped(rebuild[t], "set_tags")
    <2>1. /\ rebuild' = [rebuild EXCEPT ![t] = j] /\ rebuild[t].pc = "set_sigs"
          /\ sigs' = rebuild[t].plan /\ UNCHANGED <<byFile, byKey, tags, loaded>>
      BY <1>8 DEF SetSigs, At, Goto, Stepped, Recorded, maps
    <2>2. /\ j \in Job /\ j.pc = "set_tags" /\ j.plan = rebuild[t].plan
          /\ j.files = rebuild[t].files /\ j.keys = rebuild[t].keys
      BY <1>5 DEF Steps
    <2> HIDE DEF j
    <2> QED
      BY <1>1, <1>2, <1>3, <1>4, <2>1, <2>2, RefresherMoves
  <1>9. CASE SetTags(t)
    <2> DEFINE j == Stepped(rebuild[t], "finish")
    <2>1. /\ rebuild' = [rebuild EXCEPT ![t] = j] /\ rebuild[t].pc = "set_tags"
          /\ tags' = byKey /\ UNCHANGED <<byFile, byKey, sigs, loaded>>
      BY <1>9 DEF SetTags, At, Goto, Stepped, TagSource
    <2>2. j \in Job /\ j.pc = "finish" /\ j.plan = rebuild[t].plan
      BY <1>5 DEF Steps
    <2> HIDE DEF j
    <2> QED
      BY <1>1, <1>2, <1>3, <1>4, <2>1, <2>2, RefresherMoves
  <1>10. CASE FinishEnsure(t)
    <2> DEFINE j == Stepped(rebuild[t], "query")
    <2>1. /\ rebuild' = [rebuild EXCEPT ![t] = j] /\ rebuild[t].pc = "finish"
          /\ loaded' = TRUE /\ UNCHANGED <<byFile, byKey, tags, sigs>>
      BY <1>10 DEF FinishEnsure, At, Goto, Stepped, maps
    <2>2. j \in Job /\ j.pc = "query"
      BY <1>5 DEF Steps
    <2> HIDE DEF j
    <2> QED
      BY <1>1, <1>2, <2>1, <2>2, RefresherMoves
  <1> QED
    BY <1>6, <1>7, <1>8, <1>9, <1>10

LEMMA EditsHold ==
  ASSUME IInv, SourceChange
  PROVE  IInv'
  <1>1. PICK g \in Files : Write(g) \/ Delete(g)
    BY DEF SourceChange
  <1>2. UNCHANGED <<byFile, byKey, tags, sigs, loaded, rebuild>>
    BY DEF SourceChange, maps
  <1>3. DiskInv' /\ \A f \in Files : disk[f].ver <= disk'[f].ver /\ disk[f].ver \in Nat /\ disk'[f].ver \in Nat
    <2>1. PICK there \in BOOLEAN, good \in BOOLEAN : Change(g, there, good)
      BY <1>1 DEF Write, Delete, IInv, Types, DiskInv
    <2>2. /\ disk' = [disk EXCEPT ![g] = [ver |-> disk[g].ver + 1, there |-> there, good |-> good]]
          /\ disk[g].ver + 1 \in 1..MaxVersion
      BY <2>1, VersionBound DEF Change, IInv, Types, DiskInv
    <2> QED
      BY <2>2, VersionBound DEF IInv, Types, DiskInv
  <1>4. \A view \in Views, s \in Sigs : FreshView(view, s) => FreshView(view, s)'
    BY <1>1, EditsKeepViews DEF IInv, Types
  <1>5. Types'
    BY <1>2, <1>3 DEF IInv, Types
  <1>6. ASSUME NEW t \in Threads PROVE JobInv(t)'
    <2>1. rebuild[t] \in Job /\ JobInv(t) /\ rebuild'[t] = rebuild[t]
      BY <1>2 DEF IInv, Types
    <2>2. rebuild[t].files \in Views /\ rebuild[t].plan \in Sigs
      BY <2>1 DEF Job
    <2>3. FreshView(rebuild[t].files, rebuild[t].plan) => FreshView(rebuild[t].files, rebuild[t].plan)'
      <3>1. PICK view \in Views, s \in Sigs : view = rebuild[t].files /\ s = rebuild[t].plan
        BY <2>2
      <3>2. FreshView(view, s) => FreshView(view, s)'
        BY <1>4
      <3> QED
        BY <2>1, <3>1, <3>2 DEF FreshView, AtLeast, Genuine, Outcome
    <2>4. \A f \in Files : rebuild[t].plan[f] <= disk[f].ver => rebuild[t].plan[f] <= disk'[f].ver
      BY <1>3, <2>2, VersionBound DEF Sigs
    <2> QED
      BY <1>2, <2>1, <2>3, <2>4 DEF JobInv
  <1>7. MapsInv'
    <2>1. FreshView(byFile, sigs) => FreshView(byFile, sigs)'
      <3>1. PICK view \in Views, s \in Sigs : view = byFile /\ s = sigs
        BY DEF IInv, Types
      <3>2. FreshView(view, s) => FreshView(view, s)'
        BY <1>4
      <3> QED
        BY <1>2, <3>1, <3>2 DEF FreshView, AtLeast, Genuine, Outcome
    <2> QED
      BY <1>2, <2>1 DEF IInv, MapsInv, Publishing
  <1> QED
    BY <1>5, <1>6, <1>7 DEF IInv
----------------------------------------------------------------------------
LEMMA StartHolds == Init => IInv
  <1> SUFFICES ASSUME Init PROVE IInv
    OBVIOUS
  <1>1. DiskInv
    BY VersionBound DEF Init, DiskInit, DiskInv
  <1>2. /\ byFile = NoneHeld /\ byKey = NoneHeld /\ tags = NoneHeld /\ sigs = NoSigs /\ loaded = FALSE
        /\ rebuild = [t \in Threads |-> NoJob]
    BY DEF Init
  <1>3. Types /\ \A t \in Threads : rebuild[t].pc = "idle"
    BY <1>1, <1>2, NothingHeld DEF Types, NoJob
  <1>4. FreshView(NoneHeld, NoSigs)
    BY DEF FreshView, AtLeast, NoneHeld, NoSigs, NoSig
  <1> QED
    BY <1>2, <1>3, <1>4 DEF IInv, JobInv, MapsInv

LEMMA StepsHold == ASSUME LoneRefresher PROVE IInv /\ [Next]_vars => IInv'
  <1> SUFFICES ASSUME IInv, [Next]_vars PROVE IInv'
    OBVIOUS
  <1>1. ASSUME NEW t \in Threads, Debounced(t) PROVE IInv'
    BY <1>1, QueriesAreHarmless DEF Debounced, At
  <1>2. ASSUME NEW t \in Threads, Query(t) PROVE IInv'
    BY <1>2, QueriesAreHarmless DEF Query, At
  <1>3. CASE UNCHANGED vars
    <2>1. UNCHANGED <<disk, byFile, byKey, tags, sigs, loaded, rebuild>>
      BY <1>3 DEF vars, maps
    <2>2. Types' /\ MapsInv'
      BY <2>1 DEF IInv, Types, DiskInv, MapsInv, Publishing, FreshView, AtLeast, Genuine, Outcome
    <2>3. \A t \in Threads : JobInv(t)'
      BY <2>1 DEF IInv, JobInv, FreshView, AtLeast, Genuine, Outcome
    <2> QED
      BY <2>2, <2>3 DEF IInv
  <1> QED
    BY <1>1, <1>2, <1>3, PlanHolds, BasesHold, ParseHolds, PublicationHolds, EditsHold DEF Next

(* The variables keep their types, and what a refresh works on stays no    *)
(* older than its plan.                                                    *)
THEOREM Invariance == LoneRefresher => (Spec => []IInv)
  <1> SUFFICES ASSUME LoneRefresher PROVE Spec => []IInv
    OBVIOUS
  <1>1. Init => IInv
    BY StartHolds
  <1>2. IInv /\ [Next]_vars => IInv'
    BY StepsHold
  <1> QED
    BY <1>1, <1>2, PTL DEF Spec

(* "Signatures of the files the in-memory maps were built from" holds of   *)
(* what one refresher publishes, wherever edits fall between its stat, its *)
(* parse and its assignments: nothing old is skipped by later refreshes.   *)
THEOREM SignaturesAreHonest == ASSUME LoneRefresher PROVE Spec => []SigsDescribeMaps
  <1>1. ASSUME IInv PROVE SigsDescribeMaps
    <2> SUFFICES ASSUME Settled, NEW f \in Files, sigs[f] # NoSig, sigs[f] = Signatures[f]
                 PROVE  byFile[f] = Outcome(f) /\ byKey[f] = Outcome(f)
      BY DEF SigsDescribeMaps
    <2>1. byFile = byKey /\ AtLeast(f, byFile[f], sigs[f])
      BY <1>1 DEF IInv, MapsInv, Publishing, Settled, At, FreshView
    <2>2. Signatures[f] = disk[f].ver /\ disk[f].ver \in Nat
      BY <1>1, SignaturesAreVersions, VersionBound DEF IInv, Types
    <2>3. byFile[f].ver \in Nat
      BY <1>1 DEF IInv, Types, Views, Held
    <2> QED
      BY <2>1, <2>2, <2>3 DEF AtLeast, Genuine, None
  <1>2. IInv => SigsDescribeMaps
    BY <1>1
  <1> QED
    BY <1>2, Invariance, PTL

(* Queries of other threads never see maps of two refreshes once the       *)
(* refresh is over.                                                        *)
THEOREM MapsAgree == ASSUME LoneRefresher PROVE Spec => []SettledMapsAgree
  <1>1. IInv => SettledMapsAgree
    BY DEF IInv, MapsInv, Publishing, SettledMapsAgree, Settled, At
  <1> QED
    BY <1>1, Invariance, PTL
=============================================================================
