------------------------------ MODULE Response ------------------------------
(***************************************************************************)
(* Shaping of answers (util/response.py): pages of a list, the byte budget *)
(* of a whole answer, and the longest piece of a text that fits it.        *)
(*                                                                         *)
(* An answer is [ok, encodable, base, lists, meta, dropped, cut]: `lists'  *)
(* maps its heavy keys to sequences of entry sizes, `meta' some of them to *)
(* [total, returned, truncated], `dropped' those the budget removed to how *)
(* many entries they had; `base' is the size of everything else.           *)
(***************************************************************************)
EXTENDS Integers, Sequences, FiniteSets, SequencesExt, FiniteSetsExt

CONSTANTS Budget,        \* BUDGET_BYTES
          MaxText,       \* MAX_TEXT_BYTES
          MarkerSize,    \* of one <key>_dropped entry, and of a name in a fallback
          ErrorSize      \* of an answer that is only an error: it fits the budget

Sum(sizes) == FoldLeft(LAMBDA n, size : n + size, 0, sizes)
Pick(keys, f) == [k \in keys |-> f[k]]

(* coerce_int: [is |-> "omitted"], a number or its text, or anything else. *)
Coercible(value) == value.is # "other"
Coerced(value, default) == IF value.is = "omitted" THEN default ELSE value.n

(* paginate, and the slices the child takes of its lists in the same way.  *)
Page(items, offset, limit) ==
    SubSeq(items, Max({offset, 0}) + 1, Min({Max({offset, 0}) + Max({limit, 0}), Len(items)}))
PageMeta(items, offset, limit) ==
    [total |-> Len(items), returned |-> Len(Page(items, offset, limit)),
     truncated |-> Max({offset, 0}) + Max({limit, 0}) < Len(items)]

Failure == [ok |-> FALSE, encodable |-> TRUE, base |-> ErrorSize, lists |-> <<>>, meta |-> <<>>,
            dropped |-> <<>>, cut |-> FALSE]

Size(answer) ==
    answer.base + MarkerSize * Cardinality(DOMAIN answer.dropped)
    + MapThenSumSet(LAMBDA k : Sum(answer.lists[k]), DOMAIN answer.lists)

(* _bounded_fallback: names and counts of what was there, if even those fit. *)
Fallback(answer) ==
    LET names == Cardinality(DOMAIN answer.dropped \cup DOMAIN answer.lists \cup DOMAIN answer.meta)
        whole == ErrorSize + MarkerSize * names
    IN  [Failure EXCEPT !.base = IF whole <= Budget THEN whole ELSE ErrorSize, !.cut = TRUE]

(* enforce_budget: heavy keys go one after the other until the rest fits.  *)
EnforceBudget(answer, heavy) ==
    LET Drop(a, k) ==
            IF Size(a) <= Budget \/ k \notin DOMAIN a.lists THEN a
            ELSE [a EXCEPT !.lists = Pick(DOMAIN @ \ {k}, @), !.cut = TRUE,
                           !.dropped = (k :> Len(a.lists[k])) @@ @]
        shed == FoldLeft(Drop, answer, heavy)
    IN  IF ~answer.encodable THEN [Failure EXCEPT !.cut = TRUE]
        ELSE IF Size(shed) <= Budget THEN shed
        ELSE Fallback(shed)

----------------------------------------------------------------------------
(* A text is a sequence of characters [bytes, escaped]: what each takes in *)
(* UTF-8 and in the JSON answer.                                           *)
Bytes(text) == MapThenSumSet(LAMBDA k : text[k].bytes, DOMAIN text)
Escaped(text) == MapThenSumSet(LAMBDA k : text[k].escaped, DOMAIN text)

(* clip_utf8: whole characters only.                                       *)
Clip(text, limit) ==
    SubSeq(text, 1, Max({n \in 0..Len(text) : Bytes(SubSeq(text, 1, n)) <= limit}))

(* The binary search of fit_prefix, over the sizes of build(0), build(1).. *)
RECURSIVE Search(_, _, _)
Search(sizes, low, high) ==
    LET middle == (low + high + 1) \div 2 IN
    IF low >= high THEN low
    ELSE IF sizes[middle] <= Budget THEN Search(sizes, middle, high)
    ELSE Search(sizes, low, middle - 1)

FitPrefix(whole, sizes, length) == IF whole <= Budget THEN length ELSE Search(sizes, 0, length)

(* bounded_text: `rest' is the size of the other fields, `note' of the     *)
(* warning that comes with any clipping.                                   *)
BoundedText(rest, note, text) ==
    LET clipped == Clip(text, MaxText)
        cut == Len(clipped) < Len(text)
        whole == rest + Escaped(clipped) + (IF cut THEN note ELSE 0)
        sizes == [n \in 0..Len(clipped) |-> rest + note + Escaped(SubSeq(clipped, 1, n))]
        kept == FitPrefix(whole, sizes, Len(clipped))
        shrunk == whole > Budget
        size == IF shrunk THEN sizes[kept] ELSE whole
        shaped == [ok |-> TRUE, text |-> SubSeq(clipped, 1, kept), bytes |-> Bytes(text),
                   returned |-> Bytes(SubSeq(clipped, 1, kept)),
                   truncated |-> cut \/ shrunk, noted |-> cut \/ shrunk, size |-> size]
        without == size - Escaped(shaped.text) + MarkerSize
    IN  IF size <= Budget THEN shaped
        ELSE [shaped EXCEPT !.ok = without <= Budget, !.text = <<>>,
                            !.size = IF without <= Budget THEN without ELSE ErrorSize]

----------------------------------------------------------------------------
(* "Fit txt to the JSON output budget and report any content clipping": a  *)
(* text comes back whole, or as the longest prefix that both limits allow, *)
(* with its true size, a mark and the warning not to write it back.        *)
TextIsHonest(rest, note, text, shaped) ==
    LET kept == Len(shaped.text)
        Fits(n) == /\ Bytes(SubSeq(text, 1, n)) <= MaxText
                   /\ rest + note + Escaped(SubSeq(text, 1, n)) <= Budget
    IN  /\ shaped.size <= Budget
        /\ shaped.ok =>
             /\ shaped.text = SubSeq(text, 1, kept)
             /\ shaped.returned = Bytes(shaped.text) /\ shaped.bytes = Bytes(text)
             /\ kept < Len(text) => shaped.truncated /\ shaped.noted /\ ~Fits(kept + 1)
=============================================================================
