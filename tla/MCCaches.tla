------------------------------ MODULE MCCaches -----------------------------
(***************************************************************************)
(* The three caches of file contents for TLC: the parsed files (AstCache), *)
(* the decoded texts (TextCache) and the scan of a language (LangScan),    *)
(* over the same files, which editors change all the while.  They share    *)
(* nothing else, so a behaviour uses one of them and leaves the others     *)
(* empty: `used' says which.                                               *)
(***************************************************************************)
EXTENDS AstCache, TLC

CONSTANTS Readers, MaxBytes, Cost, Callers

ASSUME FilesAreFinite == IsFiniteSet(Files)
ASSUME TextLimitsAreNat == MaxBytes \in Nat /\ Cost \in [1..MaxVersion -> Nat]

VARIABLES used, entries, bytes, reads, scan, armed, asks

(* Texts of different length, so that the limits bite.                     *)
MCChars == [v \in 1..MaxVersion |-> IF v = 1 THEN 2 ELSE 1]

Texts == INSTANCE TextCache
Langs == INSTANCE LangScan

Interchangeable == Permutations(Threads) \cup Permutations(Readers) \cup Permutations(Files)

textState == <<entries, bytes, reads>>
langState == <<scan, armed, asks>>
astState == <<cache, byPath, total, call>>
allVars == <<disk, used, astState, textState, langState>>

MCInit == used \in {"asts", "texts", "langs"} /\ Init /\ Texts!Init /\ Langs!Init

MCNext ==
    /\ UNCHANGED used
    /\ \/ used = "asts" /\ Next /\ UNCHANGED <<textState, langState>>
       \/ used = "texts" /\ Texts!Next /\ UNCHANGED <<astState, langState>>
       \/ used = "langs" /\ Langs!Next /\ UNCHANGED <<astState, textState>>

MCSpec == MCInit /\ [][MCNext]_allVars

(* Decoded texts: the text of a call was on disk during the call, and none *)
(* means the file was gone (AstCache states the same of parsed files); the *)
(* running total is what is cached, and within bounds.                     *)
TextsAreGenuine == Texts!TextWasOnDisk /\ Texts!TextAccounting

(* Languages: once no lookup is under way, the records kept of a file that *)
(* the next walk will take as unchanged are those of its present text.     *)
LangSettles == Langs!LangSettles
=============================================================================
