------------------------------ MODULE Totals ------------------------------
(* Sums, counted unit by unit: what several entries take together is the   *)
(* number of pairs of an entry and one of its units.                       *)
EXTENDS Naturals, FiniteSets

Units(amount) == UNION {{x} \X (1..amount[x]) : x \in DOMAIN amount}

Total(amount) == Cardinality(Units(amount))
=============================================================================
