------------------------------ MODULE GfxMerge ------------------------------
(***************************************************************************)
(* The merge of a texture directory into a .gfx document, which the caller *)
(* writes (generators/gfx.py).                                             *)
(*                                                                         *)
(* A document is a sequence of items [form, name, tex, own]: the opening   *)
(* and closing of a root, a sprite block, a comment that follows a block on*)
(* its line ("note"), and anything else ("text"); `own' tells the file's   *)
(* bytes from rendered ones.  An image is [stem, prefixed], by its place in*)
(* the order of the scan, which is also its texture path; a name is        *)
(* <<stem, TRUE>> with the prefix.                                         *)
(***************************************************************************)
EXTENDS Integers, Sequences, FiniteSets, FiniteSetsExt, Ranks

NoTexture == 0
NoName == <<"", FALSE>>

Item(form) == [form |-> form, name |-> NoName, tex |-> NoTexture, own |-> FALSE]
Rendered(name, tex) == [form |-> "block", name |-> name, tex |-> tex, own |-> FALSE]
EmptyDocument == <<Item("open"), Item("close")>>

(* _scan_entries: with the prefix a stem keeps its name, without it gets   *)
(* it, so both are one name; the first image of a name counts.             *)
NameFor(image) == <<image.stem, TRUE>>
Entries(images) == [n \in {NameFor(images[i]) : i \in DOMAIN images} |->
                       Min({i \in DOMAIN images : NameFor(images[i]) = n})]

----------------------------------------------------------------------------
(* merge_gfx_text.  The first block of a name is the one that counts; the  *)
(* others go, with the comment on their line.                              *)
Named(doc) == {i \in DOMAIN doc : doc[i].form = "block" /\ doc[i].name # NoName}
FirstOf(doc, name) == Min({i \in Named(doc) : doc[i].name = name})
Existing(doc) == {doc[i].name : i \in Named(doc)}
Repeats(doc) == {i \in Named(doc) : i # FirstOf(doc, doc[i].name)}

BugGone(doc) == Repeats(doc) \cup {i \in DOMAIN doc : i - 1 \in Repeats(doc)}
Gone(doc) == Repeats(doc) \cup {i \in DOMAIN doc : i - 1 \in Repeats(doc) /\ doc[i].form = "note"}

Conflicts(doc) ==
    {i \in Repeats(doc) : LET kept == doc[FirstOf(doc, doc[i].name)].tex IN
                          NoTexture \notin {kept, doc[i].tex} /\ kept # doc[i].tex}

Changed(doc, entries, protected) ==
    {i \in Named(doc) \ Repeats(doc) : /\ doc[i].name \in DOMAIN entries \ protected
                                       /\ doc[i].tex # entries[doc[i].name]}

New(doc, entries) ==
    LET names == DOMAIN entries \ Existing(doc)
    IN  Ranked(names, [n \in names |-> {m \in names : entries[m] < entries[n]}])

(* _sprite_types_close: the end of the first root that is closed.          *)
RootEnd(doc) == Min({i \in DOMAIN doc : doc[i].form = "close"})

(* The splices: <<i, 0>> is what the document has at i, <<i, k>> the k-th  *)
(* new block, after i.                                                     *)
Pieces(doc, new) == ((DOMAIN doc \ Gone(doc)) \X {0}) \cup ({RootEnd(doc) - 1} \X DOMAIN new)
Before(pieces, p) == {q \in pieces : q[1] < p[1] \/ (q[1] = p[1] /\ q[2] < p[2])}

MergeText(original, entries, protected) ==
    LET doc == IF original = <<>> THEN EmptyDocument ELSE original
        new == New(doc, entries)
        changed == Changed(doc, entries, protected)
        pieces == Pieces(doc, new)
        order == Ranked(pieces, [p \in pieces |-> Before(pieces, p)])
        From(name) == Rendered(name, entries[name])
        text == [t \in DOMAIN order |->
                   IF order[t][2] > 0 THEN From(new[order[t][2]])
                   ELSE IF order[t][1] \in changed THEN From(doc[order[t][1]].name)
                   ELSE doc[order[t][1]]]
    IN  [text |-> text, new |-> new, wouldWrite |-> text # doc,
         changed |-> {doc[i].name : i \in changed},
         deduped |-> {doc[i].name : i \in Repeats(doc)},
         conflicts |-> {doc[i].name : i \in Conflicts(doc)},
         orphaned |-> Existing(doc) \ (DOMAIN entries \cup protected)]

(* generate_gfx_merge: `txt' is a page of the new blocks; without a file   *)
(* the first page opens the document and the last one closes it.           *)
Closes(offset, limit, total) == offset + limit >= total

PageText(original, images, protected, offset, limit) ==
    LET entries == Entries(images)
        new == MergeText(original, entries, protected).new
        end == IF offset + limit < Len(new) THEN offset + limit ELSE Len(new)
        blocks == [k \in 1..(end - offset) |-> Rendered(new[offset + k], entries[new[offset + k]])]
    IN  IF original # <<>> \/ new = <<>> THEN blocks
        ELSE (IF offset <= 0 THEN <<Item("open")>> ELSE <<>>) \o blocks
             \o (IF Closes(offset, limit, Len(new)) THEN <<Item("close")>> ELSE <<>>)

----------------------------------------------------------------------------
(* What stands at some places of a document, in order.                     *)
Only(doc, places) ==
    LET order == Ranked(places, [i \in places |-> {j \in places : j < i}])
    IN  [k \in DOMAIN order |-> doc[order[k]]]

(* The merged document has every sprite once, with its texture from the    *)
(* directory unless it is protected; nothing else of the file is lost or   *)
(* moved; what went is reported; and merging again finds nothing to do.    *)
MergeKeepsTheRest(original, images, protected) ==
    LET entries == Entries(images)
        answer == MergeText(original, entries, protected)
        again == MergeText(answer.text, entries, protected)
        own == {t \in DOMAIN answer.text : answer.text[t].own}
        kept == {i \in DOMAIN original : ~(i \in Repeats(original) \/ original[i].name \in answer.changed)}
        dropped == {i \in DOMAIN original : original[i].form = "note" /\ i - 1 \in Repeats(original)}
    IN
    /\ Repeats(answer.text) = {}
    /\ Existing(answer.text) = Existing(original) \cup DOMAIN entries
    /\ \A n \in DOMAIN entries \ protected : answer.text[FirstOf(answer.text, n)].tex = entries[n]
    /\ Only(answer.text, own) = Only(original, kept \ dropped)
    /\ answer.conflicts \subseteq answer.deduped
    /\ answer.orphaned \cap (DOMAIN entries \cup protected) = {}
    /\ ~again.wouldWrite /\ again.new = <<>> /\ again.changed = {} /\ again.deduped = {}

(* The pages of a new document, one after the other, are the document.     *)
Joined(pages) ==
    LET upto[p \in 0..Len(pages)] == IF p = 0 THEN <<>> ELSE upto[p - 1] \o pages[p]
    IN  upto[Len(pages)]

PagesRebuild(images, limit) ==
    LET whole == MergeText(<<>>, Entries(images), {})
        count == IF whole.new = <<>> THEN 0 ELSE (Len(whole.new) + limit - 1) \div limit
    IN  count > 0 => Joined([p \in 1..count |-> PageText(<<>>, images, {}, (p - 1) * limit, limit)])
                     = whole.text

(* What is demanded of a question about a merge.                           *)
MergesKeepTheRest(q) ==
    CASE q.kind = "merge" -> MergeKeepsTheRest(q.doc, q.images, q.protected)
      [] q.kind = "pages" -> PagesRebuild(q.images, q.limit)
=============================================================================
