----------------------------- MODULE TextCache -----------------------------
(***************************************************************************)
(* The decoded texts that reference scans keep (analysis/text_cache.py):   *)
(* read stats a file, compares the stamp under the lock, decodes without   *)
(* the lock and stores under the lock while the bytes fit.  Nothing is     *)
(* evicted for room, and, unlike in AstCache, there is no second stat.     *)
(***************************************************************************)
EXTENDS SourceFiles, Totals

CONSTANTS Readers,
          MaxBytes,     \* max_bytes
          Cost          \* what the text of each version takes in memory

VARIABLES entries,  \* file -> the version statted and the version decoded
          bytes,    \* _total
          reads     \* reader -> its call of read

textVars == <<entries, bytes>>
vars == <<disk, entries, bytes, reads>>

NoEntry == [ver |-> 0, text |-> 0]
AtRest(pc, text, seen) == [pc |-> pc, file |-> "none", ver |-> 0, text |-> text, seen |-> seen]
Waiting == AtRest("idle", NoSig, {})
Reading == {"lookup", "decode", "store", "drop"}
CostOf(entry) == IF entry = NoEntry THEN 0 ELSE Cost[entry.text]

Returns(r, text) == [reads EXCEPT ![r] = AtRest("done", text, reads[r].seen)]

(* os.stat: without the file its entry is dropped and there is no text.    *)
Stat(r) ==
    /\ reads[r].pc \notin Reading
    /\ \E f \in Files :
          reads' = [reads EXCEPT ![r] =
            [pc |-> IF disk[f].there THEN "lookup" ELSE "drop", file |-> f,
             ver |-> Signatures[f], text |-> NoSig, seen |-> {Signatures[f]}]]
    /\ UNCHANGED <<disk, textVars>>

Lookup(r) ==
    LET entry == entries[reads[r].file] IN
    /\ reads[r].pc = "lookup"
    /\ reads' = IF entry.ver = reads[r].ver
                THEN Returns(r, entry.text)
                ELSE [reads EXCEPT ![r].pc = "decode"]
    /\ UNCHANGED <<disk, textVars>>

Decode(r) ==
    LET file == disk[reads[r].file] IN
    /\ reads[r].pc = "decode"
    /\ reads' = IF file.there THEN [reads EXCEPT ![r].pc = "store", ![r].text = file.ver]
                ELSE [reads EXCEPT ![r].pc = "drop"]
    /\ UNCHANGED <<disk, textVars>>

Drop(r) ==
    LET f == reads[r].file IN
    /\ reads[r].pc = "drop"
    /\ entries' = [entries EXCEPT ![f] = NoEntry]
    /\ bytes' = bytes - CostOf(entries[f])
    /\ reads' = Returns(r, reads[r].text)
    /\ UNCHANGED disk

(* The file's own entry makes room first, and the stamp is the one read    *)
(* before the text.                                                        *)
BugStamp(r) == Signatures[reads[r].file]
Stamp(r) == reads[r].ver
Freed(r) == CostOf(entries[reads[r].file])

Store(r) ==
    LET f == reads[r].file
        fits == bytes - Freed(r) + Cost[reads[r].text] <= MaxBytes
    IN
    /\ reads[r].pc = "store"
    /\ entries' = [entries EXCEPT ![f] =
                     IF fits THEN [ver |-> Stamp(r), text |-> reads[r].text] ELSE NoEntry]
    /\ bytes' = bytes - Freed(r) + (IF fits THEN Cost[reads[r].text] ELSE 0)
    /\ reads' = Returns(r, reads[r].text)
    /\ UNCHANGED disk

Clear ==
    /\ entries' = [f \in Files |-> NoEntry]
    /\ bytes' = 0
    /\ UNCHANGED <<disk, reads>>

SourceChange(f) ==
    /\ Write(f) \/ Delete(f)
    /\ reads' = [r \in Readers |->
         IF reads[r].pc \in Reading /\ reads[r].file = f
         THEN [reads[r] EXCEPT !.seen = @ \cup {Signatures'[f]}] ELSE reads[r]]
    /\ UNCHANGED textVars

Init ==
    /\ DiskInit
    /\ entries = [f \in Files |-> NoEntry]
    /\ bytes = 0
    /\ reads = [r \in Readers |-> Waiting]

Next ==
    \/ \E r \in Readers : Stat(r) \/ Lookup(r) \/ Decode(r) \/ Drop(r) \/ Store(r)
    \/ Clear
    \/ \E f \in Files : SourceChange(f)

----------------------------------------------------------------------------
(* The text of a call was the file's content at some moment of the call,   *)
(* and a call that returns none saw the file gone, although the text may   *)
(* be newer than its stamp and nothing is statted again.                   *)
TextWasOnDisk == \A r \in Readers : reads[r].pc = "done" => reads[r].text \in reads[r].seen

(* The running total is what the cached texts take, and within the bound,  *)
(* after any race of reads, edits and deletions of one file.               *)
TextAccounting ==
    /\ bytes = Total([f \in Files |-> CostOf(entries[f])])
    /\ bytes <= MaxBytes
=============================================================================
