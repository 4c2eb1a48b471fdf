---------------------------- MODULE SourceFiles ----------------------------
(***************************************************************************)
(* The mod's source files as the index code meets them.                    *)
(*                                                                         *)
(* A file's whole history is one growing number: every write, deletion and *)
(* re-creation takes the next version.  FileSig (mtime_ns, size) is that   *)
(* number, so two contents of one file never share a signature, which is   *)
(* what the module docstring of indexes/base.py asks of (mtime, size).     *)
(* `good' says whether the parser accepts the present content.             *)
(***************************************************************************)
EXTENDS Naturals

CONSTANTS Files,        \* relative paths an index may collect
          MaxVersion    \* bound: versions of one file

ASSUME VersionBound == MaxVersion \in Nat \ {0}

VARIABLE disk

NoSig == 0

DiskEntry == [ver : Nat, there : BOOLEAN, good : BOOLEAN]

(* What an index holds of one file: nothing, the records of one version,   *)
(* or the fact that this version could not be read or parsed.              *)
Held == [kind : {"none", "records", "failed"}, ver : Nat]
None == [kind |-> "none", ver |-> 0]
NoneHeld == [f \in Files |-> None]

DiskOK == disk \in [Files -> DiskEntry]
DiskInit ==
    \E start \in SUBSET Files :
        disk = [f \in Files |-> [ver |-> 1, there |-> f \in start, good |-> TRUE]]

(* signatures_for(collect_files(...)): one stat per collected file.        *)
Signatures == [f \in Files |-> IF disk[f].there THEN disk[f].ver ELSE NoSig]

(* What parsing f right now yields: ParseResult with records, a failed one,*)
(* or FILE_NOT_FOUND when the file went away after it was collected.       *)
Outcome(f) ==
    [kind |-> IF disk[f].there /\ disk[f].good THEN "records" ELSE "failed",
     ver  |-> disk[f].ver]

Change(f, there, good) ==
    /\ disk[f].ver < MaxVersion
    /\ disk' = [disk EXCEPT ![f] = [ver |-> disk[f].ver + 1, there |-> there, good |-> good]]

(* An editor, git or another tool writes f, or deletes it.                 *)
Write(f)  == \E good \in BOOLEAN : Change(f, TRUE, good)
Delete(f) == disk[f].there /\ Change(f, FALSE, disk[f].good)

(* A view (file -> Held) of the disk no older than the signatures s.       *)
Genuine(f, h) ==
    \/ h = None
    \/ /\ h.kind # "none"
       /\ h.ver <= disk[f].ver
       /\ h.ver = disk[f].ver => h = Outcome(f)

AtLeast(f, h, s) ==
    IF s = NoSig THEN h = None
    ELSE h.kind # "none" /\ s <= h.ver /\ Genuine(f, h)

FreshView(view, s) == \A f \in Files : AtLeast(f, view[f], s[f])
=============================================================================
