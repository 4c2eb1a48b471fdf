----------------------------- MODULE AstCache ------------------------------
(***************************************************************************)
(* The process-wide LRU of parsed files (paradox/ast_cache.py), used by    *)
(* server threads at once while editors change the files.  parse_cached    *)
(* stats the file, looks its key up under the lock, reads and parses       *)
(* without the lock, and publishes under the lock if the file is still the *)
(* one it statted.                                                         *)
(*                                                                         *)
(* A signature (mtime_ns, size) is the file's version (SourceFiles); the   *)
(* text and the tree of one parse are the version that was read.           *)
(***************************************************************************)
EXTENDS SourceFiles, Totals, SequencesExt

CONSTANTS Threads,
          Limit,        \* max_entries()
          CharLimit,    \* max_bytes(): characters of source text
          Chars         \* length of the text of each version

ASSUME LimitsAreNat == Limit \in Nat /\ CharLimit \in Nat /\ Chars \in [1..MaxVersion -> Nat]

VARIABLES cache,    \* LRU order, oldest first: entries [path, ver, mode, text]
          byPath,   \* path -> version and mode of its entry, or NoKey
          total,    \* _total_chars
          call      \* thread -> its parse_cached call

cacheVars == <<cache, byPath, total>>
vars == <<disk, cache, byPath, total, call>>

Modes == {"strict", "recovered"}     \* close_blocks_at_eof
Key == [ver : 1..MaxVersion, mode : Modes]
NoKey == [ver |-> 0, mode |-> "strict"]
Entries == [path : Files, ver : 1..MaxVersion, mode : Modes, text : 1..MaxVersion]

(* `seen' is the history of the call: every version the file had since it  *)
(* began (NoSig while it was gone).                                        *)
AtRest(pc, text, seen) ==
    [pc |-> pc, path |-> "none", mode |-> "strict", ver |-> 0, text |-> text, seen |-> seen]
Idle == AtRest("idle", 0, {})
InFlight == {"lookup", "read", "plain", "publish"}

(* A call that ended keeps its answer and its history only.                *)
Ends(t, pc, text) ==
    [call EXCEPT ![t] = AtRest(pc, text, IF pc = "done" THEN call[t].seen ELSE {})]

KeyOf(e) == [ver |-> e.ver, mode |-> e.mode]
Cached(f, k) == \E i \in DOMAIN cache : cache[i].path = f /\ KeyOf(cache[i]) = k
EntryAt(seq, f, k) == CHOOSE i \in DOMAIN seq : seq[i].path = f /\ KeyOf(seq[i]) = k

CharsOf(entries) == [i \in DOMAIN entries |-> Chars[entries[i].text]]
TotalChars(entries) == Total(CharsOf(entries))

----------------------------------------------------------------------------
(* os.stat: a missing file is read plainly, for the error it raises.       *)
Stat(t) ==
    /\ call[t].pc \notin InFlight
    /\ \E f \in Files, mode \in Modes :
          call' = [call EXCEPT ![t] =
            [pc |-> IF disk[f].there THEN "lookup" ELSE "plain",
             path |-> f, mode |-> mode, ver |-> Signatures[f], text |-> 0,
             seen |-> {Signatures[f]}]]
    /\ UNCHANGED <<disk, cacheVars>>

Wanted(t) == [ver |-> call[t].ver, mode |-> call[t].mode]

BugHit(t) ==
    LET f == call[t].path IN
    /\ call[t].pc = "lookup"
    /\ byPath[f] # NoKey
    /\ LET i == EntryAt(cache, f, byPath[f]) IN
         /\ cache' = Append(RemoveAt(cache, i), cache[i])
         /\ call' = Ends(t, "done", cache[i].text)
    /\ UNCHANGED <<disk, byPath, total>>

Hit(t) ==
    LET f == call[t].path IN
    /\ call[t].pc = "lookup"
    /\ Cached(f, Wanted(t))
    /\ LET i == EntryAt(cache, f, Wanted(t)) IN
         /\ cache' = Append(RemoveAt(cache, i), cache[i])
         /\ call' = Ends(t, "done", cache[i].text)
    /\ UNCHANGED <<disk, byPath, total>>

Miss(t) ==
    /\ call[t].pc = "lookup"
    /\ ~Cached(call[t].path, Wanted(t))
    /\ call' = [call EXCEPT ![t].pc = "read"]
    /\ UNCHANGED <<disk, cacheVars>>

(* Read and parse without the lock.  A file gone by now raises OSError, an *)
(* unclosed block raises in strict mode; neither is cached.                *)
ReadAndParse(t) ==
    LET f == call[t].path
        text == disk[f].ver
        parses == disk[f].good \/ call[t].mode = "recovered"
        cacheable == call[t].pc = "read" /\ Limit > 0 /\ Chars[text] <= CharLimit
    IN
    /\ call[t].pc \in {"read", "plain"}
    /\ call' = IF ~(disk[f].there /\ parses) THEN Ends(t, "raised", NoSig)
               ELSE IF cacheable THEN [call EXCEPT ![t].pc = "publish", ![t].text = text]
               ELSE Ends(t, "done", text)
    /\ UNCHANGED <<disk, cacheVars>>

----------------------------------------------------------------------------
(* The longest part of the cache that fits, its oldest entries going first.*)
Kept(entries, sum) ==
    LET Fits(n) == /\ Len(entries) - n <= Limit
                   /\ sum - TotalChars(SubSeq(entries, 1, n)) <= CharLimit
        drop == CHOOSE n \in 0..Len(entries) : Fits(n) /\ \A m \in 0..(n - 1) : ~Fits(m)
    IN SubSeq(entries, drop + 1, Len(entries))

(* A path whose recorded entry is evicted is forgotten.                    *)
BugEvict(entries, keys, sum) ==
    /\ cache' = Kept(entries, sum)
    /\ total' = TotalChars(Kept(entries, sum))
    /\ byPath' = keys

Evict(entries, keys, sum) ==
    LET gone == SubSeq(entries, 1, Len(entries) - Len(Kept(entries, sum))) IN
    /\ cache' = Kept(entries, sum)
    /\ total' = sum - TotalChars(gone)
    /\ byPath' = [f \in Files |-> IF \E e \in ToSet(gone) : e.path = f /\ KeyOf(e) = keys[f]
                                  THEN NoKey ELSE keys[f]]

BugStillCurrent(t) == TRUE

(* An older parse must not replace a newer version that finished first:    *)
(* the file is statted again, under the lock.                              *)
StillCurrent(t) == Signatures[call[t].path] = call[t].ver

(* The cache without the path's previous entry, whatever its mode.         *)
Others(f) == IF Cached(f, byPath[f]) THEN RemoveAt(cache, EntryAt(cache, f, byPath[f])) ELSE cache

Publish(t) ==
    LET f == call[t].path
        entry == [path |-> f, ver |-> call[t].ver, mode |-> call[t].mode, text |-> call[t].text]
        others == Others(f)
        freed == IF Cached(f, byPath[f]) THEN Chars[cache[EntryAt(cache, f, byPath[f])].text] ELSE 0
    IN
    /\ call[t].pc = "publish"
    /\ call' = Ends(t, "done", call[t].text)
    /\ \/ /\ StillCurrent(t)
          /\ Evict(Append(others, entry), [byPath EXCEPT ![f] = Wanted(t)],
                   total - freed + Chars[entry.text])
       \/ ~StillCurrent(t) /\ UNCHANGED cacheVars
    /\ UNCHANGED disk

Clear ==
    /\ cache' = <<>>
    /\ byPath' = [f \in Files |-> NoKey]
    /\ total' = 0
    /\ UNCHANGED <<disk, call>>

(* Editors write and delete; every call under way on f sees it happen.     *)
SourceChange(f) ==
    /\ Write(f) \/ Delete(f)
    /\ call' = [t \in Threads |->
         IF call[t].pc \in InFlight /\ call[t].path = f
         THEN [call[t] EXCEPT !.seen = @ \cup {Signatures'[f]}] ELSE call[t]]
    /\ UNCHANGED cacheVars

----------------------------------------------------------------------------
Init ==
    /\ DiskInit
    /\ cache = <<>>
    /\ byPath = [f \in Files |-> NoKey]
    /\ total = 0
    /\ call = [t \in Threads |-> Idle]

Next ==
    \/ \E t \in Threads : Stat(t) \/ Hit(t) \/ Miss(t) \/ ReadAndParse(t) \/ Publish(t)
    \/ Clear
    \/ \E f \in Files : SourceChange(f)

Spec == Init /\ [][Next]_vars

----------------------------------------------------------------------------
TypeOK ==
    /\ DiskOK
    /\ cache \in Seq(Entries)
    /\ byPath \in [Files -> Key \cup {NoKey}]
    /\ total \in 0..CharLimit
    /\ call \in [Threads -> [pc : InFlight \cup {"idle", "done", "raised"}, path : Files \cup {"none"},
                            mode : Modes, ver : 0..MaxVersion, text : 0..MaxVersion,
                            seen : SUBSET (0..MaxVersion)]]

(* A cached read is a read: the text a call returns was the file's content *)
(* at some moment of the call, never one from before it began.             *)
AnswerWasOnDisk ==
    \A t \in Threads : call[t].pc = "done" => call[t].text \in call[t].seen \ {NoSig}

(* At most Limit files and CharLimit characters, one entry per path, and   *)
(* the running total and the per-path index agree with the cache after any *)
(* race of misses, edits and evictions.                                    *)
CacheAccounting ==
    /\ Len(cache) <= Limit
    /\ total = TotalChars(cache)
    /\ total <= CharLimit
    /\ \A f \in Files : IF byPath[f] = NoKey THEN \A e \in ToSet(cache) : e.path # f
                        ELSE Cached(f, byPath[f])
    /\ \A i, j \in DOMAIN cache : cache[i].path = cache[j].path => i = j

(* "An older parse must not replace a newer version that finished first"   *)
(* (parse_cached): the entry of a path is only ever replaced by one of the *)
(* same or a newer version.                                                *)
NewestParseWins ==
    [][\A f \in Files : byPath[f] # NoKey /\ byPath'[f] # NoKey => byPath[f].ver <= byPath'[f].ver]_vars

=============================================================================
