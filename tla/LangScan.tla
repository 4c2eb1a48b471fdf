------------------------------ MODULE LangScan ------------------------------
(***************************************************************************)
(* The on-demand scan of a language that is not indexed                    *)
(* (LocalisationIndex._scan_lang): registered and armed before it is       *)
(* filled, then refreshed at most once per debounce window, reusing the    *)
(* records of files whose signature did not move.                          *)
(*                                                                         *)
(* The records of a file are the version they were parsed from; NoSig      *)
(* stands for none.  Callers are threads: nothing here takes a lock.       *)
(***************************************************************************)
EXTENDS SourceFiles

CONSTANT Callers

VARIABLES scan,     \* the _LangScan of the language
          armed,    \* its debounce window is open
          asks      \* caller -> its lookup

vars == <<disk, scan, armed, asks>>

NoRecords == [f \in Files |-> NoSig]
NoScan == [there |-> FALSE, loaded |-> FALSE, sigs |-> NoRecords, files |-> NoRecords, keys |-> NoRecords]
Resting == [pc |-> "idle", sigs |-> NoRecords, todo |-> {}, files |-> NoRecords]

Moves(c, pc) == asks' = [asks EXCEPT ![c].pc = pc]

(* The first caller registers the scan; others use what it has until the   *)
(* window is over.                                                         *)
Ask(c) ==
    /\ asks[c].pc = "idle"
    /\ IF scan.there /\ armed THEN Moves(c, "answered") /\ UNCHANGED <<scan, armed>>
       ELSE /\ scan' = [scan EXCEPT !.there = TRUE]
            /\ armed' = TRUE
            /\ Moves(c, "walk")
    /\ UNCHANGED disk

(* The walk stats the files; kept records are chosen before any is read.   *)
BugKeeps(f) == scan.files[f] # NoSig
Keeps(f) == scan.sigs[f] = Signatures[f] /\ scan.files[f] # NoSig

Walk(c) ==
    /\ asks[c].pc = "walk"
    /\ IF scan.loaded /\ scan.sigs = Signatures THEN Moves(c, "answered")
       ELSE asks' = [asks EXCEPT ![c] =
                [pc |-> "parse", sigs |-> Signatures,
                 todo |-> {f \in Files : Signatures[f] # NoSig /\ ~Keeps(f)},
                 files |-> [f \in Files |-> IF Keeps(f) THEN scan.files[f] ELSE NoSig]]]
    /\ UNCHANGED <<disk, scan, armed>>

(* The others are read one after the other, in any order here.  A file     *)
(* that is gone by now, or that cannot be read, has no records.            *)
Parse(c) ==
    /\ asks[c].pc = "parse"
    /\ \E f \in asks[c].todo : \E read \in {Signatures[f], NoSig} :
          asks' = [asks EXCEPT ![c].files[f] = read, ![c].todo = @ \ {f}]
    /\ UNCHANGED <<disk, scan, armed>>

(* Published one attribute after the other.                                *)
PublishSigs(c) ==
    /\ asks[c].pc = "parse" /\ asks[c].todo = {}
    /\ scan' = [scan EXCEPT !.sigs = asks[c].sigs]
    /\ Moves(c, "files")
    /\ UNCHANGED <<disk, armed>>

PublishFiles(c) ==
    /\ asks[c].pc = "files"
    /\ scan' = [scan EXCEPT !.files = asks[c].files]
    /\ Moves(c, "keys")
    /\ UNCHANGED <<disk, armed>>

PublishKeys(c) ==
    /\ asks[c].pc = "keys"
    /\ scan' = [scan EXCEPT !.keys = asks[c].files, !.loaded = TRUE]
    /\ Moves(c, "answered")
    /\ UNCHANGED <<disk, armed>>

Return(c) ==
    /\ asks[c].pc = "answered"
    /\ asks' = [asks EXCEPT ![c] = Resting]
    /\ UNCHANGED <<disk, scan, armed>>

WindowEnds ==
    /\ armed
    /\ armed' = FALSE
    /\ UNCHANGED <<disk, scan, asks>>

SourceChange(f) == (Write(f) \/ Delete(f)) /\ UNCHANGED <<scan, armed, asks>>

Init ==
    /\ DiskInit
    /\ scan = NoScan
    /\ armed = FALSE
    /\ asks = [c \in Callers |-> Resting]

Next ==
    \/ \E c \in Callers : \/ Ask(c) \/ Walk(c) \/ Parse(c) \/ Return(c)
                          \/ PublishSigs(c) \/ PublishFiles(c) \/ PublishKeys(c)
    \/ WindowEnds
    \/ \E f \in Files : SourceChange(f)

----------------------------------------------------------------------------
(* The class promises a scan "cached in memory and invalidated when that   *)
(* language's files change".  Between lookups, a file whose signature is   *)
(* the recorded one, which the next walk therefore takes as current, has   *)
(* the records of its present text, or none if it could not be read; and   *)
(* keys are looked up in just those records.                               *)
LangSettles ==
    (\A c \in Callers : asks[c].pc = "idle") =>
        /\ \A f \in Files : scan.sigs[f] = Signatures[f] => scan.files[f] \in {Signatures[f], NoSig}
        /\ scan.keys = scan.files
=============================================================================
