------------------------- MODULE ValidateToolProofs -------------------------
(***************************************************************************)
(* The comparison with a baseline is a multiset difference, the numbers of *)
(* an answer agree with one another and with its issues, and a clean       *)
(* answer is a clean bill, for any validators, issues and snapshot and     *)
(* without a bound on their number.                                        *)
(***************************************************************************)
EXTENDS ValidateTool, FiniteSetTheorems, FunctionTheorems, WellFoundedInduction, TLAPS

(* Issues classified so far and new ones, by key; those without a key.     *)
NowAt(key) == {k \in 1..next-1 : Placed(current[k]) /\ DeltaKey(current[k]) = key}
NewAt(key) == {k \in 1..Len(aggregated) : DeltaKey(aggregated[k]) = key}
LostAt == {k \in 1..next-1 : ~Placed(current[k])}

(* What is unmatched and what is new follow from what was seen.            *)
Balanced(key) ==
    LET now == Cardinality(NowAt(key)) IN
    /\ Cardinality(NewAt(key)) = IF now > prepared[key] THEN now - prepared[key] ELSE 0
    /\ unmatched[key] = IF now > prepared[key] THEN 0 ELSE prepared[key] - now

Shapes ==
    /\ pc \in {"prepare", "run", "dedupe", "classify", "own", "strict", "cap", "done"}
    /\ todo \in Seq(Names)
    /\ records \in Seq([issue : Issue, by : Names])
    /\ prepared \in [Keys -> Nat] /\ unmatched \in [Keys -> Nat]
    /\ current \in Seq(Issue) /\ aggregated \in Seq(Issue)
    /\ next \in Nat \ {0} /\ unclassified \in Nat

Progress ==
    /\ pc \in {"prepare", "run", "dedupe"} => unclassified = 0
    /\ pc \in {"prepare", "run"} => next = 1
    /\ pc = "classify" => next - 1 <= Len(current)
    /\ pc \in {"own", "strict", "cap"} /\ request.delta => next - 1 = Len(current)

Compared ==
    (pc = "classify" \/ (pc \in {"own", "strict", "cap"} /\ request.delta)) =>
        /\ \A key \in Keys : Balanced(key)
        /\ unclassified = Cardinality(LostAt)

IInv == Shapes /\ Progress /\ Compared

----------------------------------------------------------------------------
(* Positions up to n: a set of them is finite, and one more is one more.   *)
LEMMA OneMore ==
    ASSUME NEW n \in Nat, NEW A \in SUBSET (1..n)
    PROVE  /\ IsFiniteSet(A) /\ Cardinality(A) \in Nat
           /\ Cardinality(A \cup {n + 1}) = Cardinality(A) + 1
<1>1. IsFiniteSet(1..n)
  BY FS_Interval
<1>2. IsFiniteSet(A)
  BY <1>1, FS_Subset
<1>3. n + 1 \notin A
  OBVIOUS
<1>4. QED
  BY <1>2, <1>3, FS_AddElement, FS_CardinalityType

(* The key of an issue is one a snapshot counts.                           *)
LEMMA KeyTyped ==
    ASSUME NEW i \in Issue
    PROVE  DeltaKey(i) \in Keys
BY DEF DeltaKey, Keys, Issue, Whats

LEMMA ElementTyped ==
    ASSUME NEW S, NEW seq \in Seq(S), NEW k \in 1..Len(seq)
    PROVE  seq[k] \in S
OBVIOUS

----------------------------------------------------------------------------
(* Counting.  Sorting a finite set by owner loses nothing: what the owners *)
(* have is what there is.                                                  *)
Shares(S, D, g, share) ==
    /\ g \in [S -> D] /\ share \in [D -> Nat]
    /\ \A n \in D : share[n] = Cardinality({x \in S : g[x] = n})

LEMMA SumOfFibres ==
    ASSUME NEW S, IsFiniteSet(S), NEW D, NEW g, NEW share, Shares(S, D, g, share)
    PROVE  Total(share) = Cardinality(S)
<1>0. /\ g \in [S -> D] /\ share \in [D -> Nat]
      /\ \A n \in D : share[n] = Cardinality({x \in S : g[x] = n})
  BY DEF Shares
<1> USE <1>0
<1> DEFINE Fibre(n) == {x \in S : g[x] = n}
<1>1. ASSUME NEW n \in D
      PROVE  \E b \in [Fibre(n) -> 1..share[n]] :
                /\ \A x, y \in Fibre(n) : b[x] = b[y] => x = y
                /\ \A k \in 1..share[n] : \E x \in Fibre(n) : b[x] = k
  <2>1. IsFiniteSet(Fibre(n))
    BY FS_Subset
  <2>2. IsFiniteSet(1..share[n]) /\ Cardinality(1..share[n]) = Cardinality(Fibre(n))
    BY FS_Interval
  <2>3. ExistsBijection(Fibre(n), 1..share[n])
    BY <2>1, <2>2, FS_SameCardinalityBij
  <2>4. PICK b \in Bijection(Fibre(n), 1..share[n]) : TRUE
    BY <2>3 DEF ExistsBijection
  <2> HIDE DEF Fibre
  <2>5. /\ b \in [Fibre(n) -> 1..share[n]]
        /\ \A x, y \in Fibre(n) : b[x] = b[y] => x = y
        /\ \A k \in 1..share[n] : \E x \in Fibre(n) : b[x] = k
    BY <2>4 DEF Bijection, Injection, Surjection, IsInjective
  <2>6. QED
    BY <2>5
<1> DEFINE number == [n \in D |-> CHOOSE b \in [Fibre(n) -> 1..share[n]] :
                /\ \A x, y \in Fibre(n) : b[x] = b[y] => x = y
                /\ \A k \in 1..share[n] : \E x \in Fibre(n) : b[x] = k]
<1>2. ASSUME NEW n \in D
      PROVE  /\ number[n] \in [Fibre(n) -> 1..share[n]]
             /\ \A x, y \in Fibre(n) : number[n][x] = number[n][y] => x = y
             /\ \A k \in 1..share[n] : \E x \in Fibre(n) : number[n][x] = k
  BY <1>1
<1>a. \A x \in S, n \in D : x \in Fibre(n) <=> g[x] = n
  OBVIOUS
<1> HIDE DEF number, Fibre
<1> DEFINE R == [x \in S |-> <<g[x], number[g[x]][x]>>]
<1>3. \A u : u \in Units(share) <=> \E n \in D : \E k \in 1..share[n] : u = <<n, k>>
  BY DEF Units
<1>4. R \in [S -> Units(share)]
  <2>1. ASSUME NEW x \in S
        PROVE  <<g[x], number[g[x]][x]>> \in Units(share)
    <3>1. g[x] \in D /\ x \in Fibre(g[x])
      BY <1>a
    <3>2. number[g[x]][x] \in 1..share[g[x]]
      BY <1>2, <3>1
    <3>3. QED
      BY <1>3, <3>1, <3>2
  <2>2. QED
    BY <2>1
<1>5. ASSUME NEW x \in S, NEW y \in S, R[x] = R[y]
      PROVE  x = y
  <2>1. g[x] \in D /\ g[x] = g[y] /\ number[g[x]][x] = number[g[x]][y]
    BY <1>5
  <2>2. x \in Fibre(g[x]) /\ y \in Fibre(g[x])
    BY <1>a, <2>1
  <2>3. QED
    BY <1>2, <2>1, <2>2
<1>6. ASSUME NEW u \in Units(share)
      PROVE  \E x \in S : R[x] = u
  <2>1. PICK n \in D : \E k \in 1..share[n] : u = <<n, k>>
    BY <1>3
  <2>2. PICK k \in 1..share[n] : u = <<n, k>>
    BY <2>1
  <2>3. PICK x \in Fibre(n) : number[n][x] = k
    BY <1>2
  <2>4. x \in S /\ g[x] = n
    BY <2>3 DEF Fibre
  <2>5. QED
    BY <2>2, <2>3, <2>4
<1> HIDE DEF R
<1>7. R \in Bijection(S, Units(share))
  BY <1>4, <1>5, <1>6 DEF Bijection, Injection, Surjection, IsInjective
<1>8. QED
  BY <1>7, FS_Bijection DEF ExistsBijection, Total

(* The sum of sums.                                                        *)
Adds(D, u, v, w) ==
    /\ {u, v, w} \subseteq [D -> Nat]
    /\ \A n \in D : u[n] = v[n] + w[n]

LEMMA TotalIsAdded ==
    ASSUME NEW D, IsFiniteSet(D), NEW u, NEW v, NEW w, Adds(D, u, v, w)
    PROVE  Total(u) = Total(v) + Total(w) /\ Total(v) \in Nat /\ Total(w) \in Nat
<1>0. /\ u \in [D -> Nat] /\ v \in [D -> Nat] /\ w \in [D -> Nat]
      /\ \A n \in D : u[n] = v[n] + w[n]
  BY DEF Adds
<1> USE <1>0
<1> DEFINE rest == {x \in Units(u) : x[2] > v[x[1]]}
<1>1. IsFiniteSet(Units(u))
  <2> DEFINE T == {{n} \X (1..u[n]) : n \in D}
             F == [n \in D |-> {n} \X (1..u[n])]
  <2>1. F \in Surjection(D, T)
    BY DEF Surjection
  <2>2. IsFiniteSet(T)
    BY <2>1, FS_Surjection
  <2>3. ASSUME NEW n \in D
        PROVE  IsFiniteSet({n} \X (1..u[n]))
    <3>1. 1 \in Int /\ u[n] \in Int
      OBVIOUS
    <3>2. IsFiniteSet({n}) /\ IsFiniteSet(1..u[n])
      BY <3>1, FS_Singleton, FS_Interval
    <3>3. QED
      BY <3>2, FS_Product
  <2>4. IsFiniteSet(UNION T)
    BY <2>2, <2>3, FS_UNION
  <2>5. QED
    BY <2>4 DEF Units
<1>2. /\ \A x : x \in Units(u) <=> \E n \in D : \E k \in 1..u[n] : x = <<n, k>>
      /\ \A x : x \in Units(v) <=> \E n \in D : \E k \in 1..v[n] : x = <<n, k>>
  BY DEF Units
<1>3. Units(v) \cup rest = Units(u) /\ Units(v) \cap rest = {}
  <2>1. ASSUME NEW n \in D, NEW k \in 1..u[n]
        PROVE  <<n, k>> \in Units(v) <=> ~(k > v[n])
    BY <1>2
  <2>2. Units(v) \subseteq Units(u)
    <3>1. ASSUME NEW n \in D, NEW k \in 1..v[n]
          PROVE  k \in 1..u[n]
      <4>1. v[n] \in Nat /\ w[n] \in Nat /\ u[n] = v[n] + w[n]
        OBVIOUS
      <4>2. QED
        BY <4>1
    <3>2. QED
      BY <1>2, <3>1
  <2>3. \A x \in Units(u) : x \in rest <=> x \notin Units(v)
    BY <1>2, <2>1
  <2>4. QED
    BY <2>2, <2>3
<1>4. IsFiniteSet(Units(v)) /\ IsFiniteSet(rest)
  BY <1>1, <1>3, FS_Subset
<1>5. Cardinality(Units(u)) = Cardinality(Units(v)) + Cardinality(rest)
  <2> HIDE DEF rest
  <2>1. Cardinality(Units(v) \cap rest) = 0
    BY <1>3, FS_EmptySet
  <2>2. Cardinality(Units(v) \cup rest) =
          Cardinality(Units(v)) + Cardinality(rest) - Cardinality(Units(v) \cap rest)
    BY <1>4, FS_Union
  <2>3. Cardinality(Units(v)) \in Nat /\ Cardinality(rest) \in Nat
    BY <1>4, FS_CardinalityType
  <2>4. Cardinality(Units(u)) = Cardinality(Units(v) \cup rest)
    BY <1>3, Zenon
  <2>5. QED
    BY <2>1, <2>2, <2>3, <2>4
<1>6. Total(w) = Cardinality(rest)
  <2> DEFINE g == [x \in rest |-> x[1]]
  <2>1. g \in [rest -> D]
    BY <1>2
  <2>2. ASSUME NEW n \in D
        PROVE  w[n] = Cardinality({x \in rest : g[x] = n})
    <3>1. {x \in rest : g[x] = n} = {n} \X (v[n] + 1 .. u[n])
      BY <1>2
    <3>2. v[n] \in Nat /\ w[n] \in Nat /\ u[n] = v[n] + w[n]
      OBVIOUS
    <3>3. /\ IsFiniteSet(v[n] + 1 .. u[n])
          /\ Cardinality(v[n] + 1 .. u[n]) = IF v[n] + 1 > u[n] THEN 0 ELSE u[n] - (v[n] + 1) + 1
      <4>1. v[n] + 1 \in Int /\ u[n] \in Int
        BY <3>2
      <4>2. QED
        BY <4>1, FS_Interval
    <3>4. Cardinality(v[n] + 1 .. u[n]) = w[n]
      BY <3>2, <3>3
    <3> DEFINE J == v[n] + 1 .. u[n]
    <3>5. IsFiniteSet({n}) /\ Cardinality({n}) = 1
      BY FS_Singleton
    <3>6. IsFiniteSet(J) /\ Cardinality(J) = w[n] /\ {x \in rest : g[x] = n} = {n} \X J
      BY <3>1, <3>3, <3>4
    <3> HIDE DEF J, g, rest
    <3>a. Cardinality({n} \X J) = Cardinality({n}) * Cardinality(J)
      BY <3>5, <3>6, FS_Product, Zenon
    <3>7. Cardinality({n} \X J) = 1 * w[n]
      BY <3>5, <3>6, <3>a, Zenon
    <3>8. Cardinality({x \in rest : g[x] = n}) = Cardinality({n} \X J)
      BY <3>6, Zenon
    <3>9. QED
      BY <3>2, <3>7, <3>8
  <2> HIDE DEF g, rest
  <2>3. \A n \in D : w[n] = Cardinality({x \in rest : g[x] = n})
    BY <2>2
  <2>4. IsFiniteSet(rest) /\ Shares(rest, D, g, w)
    BY <1>4, <2>1, <2>3 DEF Shares
  <2>5. QED
    BY <2>4, SumOfFibres
<1>7. QED
  BY <1>4, <1>5, <1>6, FS_CardinalityType DEF Total

LEMMA InitIInv == Init => IInv
<1> SUFFICES ASSUME Init PROVE IInv
  OBVIOUS
<1>1. todo \in Seq(Names)
  <2>1. Targets \in Seq(Names)
    BY TargetsTyped DEF Names
  <2>2. ASSUME NEW n \in Names
        PROVE  <<n>> \in Seq(Names)
    OBVIOUS
  <2>3. QED
    BY <2>1, <2>2 DEF Init
<1>2. QED
  BY <1>1 DEF Init, IInv, Shapes, Progress, Compared, NoKeys

(* Steps that leave the comparison alone, whatever else they do.           *)
LEMMA SameComparison ==
    ASSUME IInv, UNCHANGED <<current, next, aggregated, unclassified, prepared, unmatched>>,
           UNCHANGED request,
           pc' \in {"run", "dedupe", "strict", "cap", "done"},
           pc' = "run" => pc \in {"prepare", "run"},
           pc' = "dedupe" => pc \in {"run", "dedupe"},
           pc' \in {"strict", "cap"} /\ request.delta => pc \in {"own", "strict", "cap"}
    PROVE  Progress' /\ Compared'
<1>1. Progress'
  BY DEF IInv, Progress
<1>2. ASSUME NEW key \in Keys
      PROVE  Balanced(key)' = Balanced(key)
  BY DEF Balanced, NowAt, NewAt
<1>3. LostAt' = LostAt
  BY DEF LostAt
<1>4. QED
  BY <1>1, <1>2, <1>3 DEF IInv, Compared

LEMMA PrepareInv == IInv /\ Prepare => IInv'
<1> SUFFICES ASSUME IInv, Prepare PROVE IInv'
  OBVIOUS
<1>1. Shapes'
  BY BaselinesTyped DEF IInv, Shapes, Prepare, runs
<1>2. Progress' /\ Compared'
  BY DEF IInv, Progress, Compared, Prepare, runs
<1>3. QED
  BY <1>1, <1>2 DEF IInv

LEMMA RunInv == IInv /\ Run => IInv'
<1> SUFFICES ASSUME IInv, Run PROVE IInv'
  OBVIOUS
<1>1. PICK size \in 0..MaxIssues - Len(records) :
        \E found \in [1..size -> Issues] : Reported(found)
  BY DEF Run
<1>2. PICK found \in [1..size -> Issues] : Reported(found)
  BY <1>1
<1>3. size \in Nat /\ found \in Seq(Issue) /\ Len(found) = size
  <2>1. size \in Nat
    BY LimitsTyped DEF IInv, Shapes
  <2>2. found \in [1..size -> Issue]
    BY <1>2, IssuesTyped
  <2>3. QED
    BY <2>1, <2>2
<1>4. todo \in Seq(Names) /\ todo # <<>>
  BY <1>2 DEF IInv, Shapes, Reported
<1>5. Head(todo) \in Names /\ Tail(todo) \in Seq(Names)
  BY <1>4
<1>6. [k \in 1..Len(found) |-> [issue |-> found[k], by |-> Head(todo)]]
        \in Seq([issue : Issue, by : Names])
  <2> DEFINE more == [k \in 1..Len(found) |-> [issue |-> found[k], by |-> Head(todo)]]
  <2>1. more \in [1..size -> [issue : Issue, by : Names]]
    BY <1>3, <1>5
  <2>2. QED
    BY <1>3, <2>1
<1>7. records' \in Seq([issue : Issue, by : Names])
  BY <1>2, <1>6 DEF IInv, Shapes, Reported
<1>8. aggregated' \in Seq(Issue)
  BY <1>2, <1>3 DEF IInv, Shapes, Reported
<1>9. Shapes'
  BY <1>2, <1>5, <1>7, <1>8 DEF IInv, Shapes, Reported
<1>10. Progress' /\ Compared'
  BY <1>2 DEF IInv, Progress, Compared, Reported
<1>11. QED
  BY <1>9, <1>10 DEF IInv

LEMMA QuietInv ==
    IInv /\ (Refuse \/ Failed \/ AllRan \/ Own \/ Strict \/ Answer) => IInv'
<1> SUFFICES ASSUME IInv, Refuse \/ Failed \/ AllRan \/ Own \/ Strict \/ Answer
             PROVE  IInv'
  OBVIOUS
<1>1. todo' \in Seq(Names) /\ UNCHANGED records
  <2>1. CASE Failed
    BY <2>1 DEF IInv, Shapes, Failed
  <2>2. CASE Refuse \/ AllRan \/ Own \/ Strict \/ Answer
    BY <2>2 DEF IInv, Shapes, Refuse, AllRan, Own, Charge, Strict, Answer, runs
  <2>3. QED
    BY <2>1, <2>2
<1>2. UNCHANGED <<current, next, aggregated, unclassified, prepared, unmatched, request>>
  BY DEF Refuse, Failed, AllRan, Own, Charge, Strict, Answer, runs, comparison
<1>3. /\ pc' \in {"run", "dedupe", "strict", "cap", "done"}
      /\ pc' = "run" => pc \in {"prepare", "run"}
      /\ pc' = "dedupe" => pc \in {"run", "dedupe"}
      /\ pc' \in {"strict", "cap"} /\ request.delta => pc \in {"own", "strict", "cap"}
  BY DEF Refuse, Failed, AllRan, Own, Charge, Strict, Answer
<1>4. Shapes'
  BY <1>1, <1>2, <1>3 DEF IInv, Shapes
<1>5. QED
  BY <1>2, <1>3, <1>4, SameComparison DEF IInv

LEMMA DedupeInv == IInv /\ Dedupe => IInv'
<1> SUFFICES ASSUME IInv, Dedupe PROVE IInv'
  OBVIOUS
<1> DEFINE i == records[next].issue
<1>1. i \in Issue
  <2>1. next \in 1..Len(records) /\ records \in Seq([issue : Issue, by : Names])
    BY DEF IInv, Shapes, Dedupe
  <2>2. records[next] \in [issue : Issue, by : Names]
    BY <2>1, ElementTyped
  <2>3. QED
    BY <2>2
<1> HIDE DEF i
<1>2. current \in Seq(Issue)
  BY DEF IInv, Shapes
<1>3. current' \in Seq(Issue)
  <2>1. CASE current' = Append(current, i)
    BY <1>1, <1>2, <2>1
  <2>2. CASE current' = [k \in DOMAIN current |-> Escalated(current[k], i)]
    <3>1. ASSUME NEW k \in DOMAIN current
          PROVE  Escalated(current[k], i) \in Issue
      <4>1. current[k] \in Issue
        BY <1>2
      <4>2. [current[k] EXCEPT !.severity = "error"] \in Issue
        BY <4>1 DEF Issue, Severities
      <4>3. QED
        BY <4>1, <4>2 DEF Escalated
    <3>2. current' \in [1..Len(current) -> Issue]
      BY <1>2, <2>2, <3>1
    <3>3. QED
      BY <1>2, <3>2
  <2>3. QED
    BY <2>1, <2>2 DEF Dedupe, i
<1>4. Shapes'
  BY <1>3 DEF IInv, Shapes, Dedupe, runs
<1>5. Progress' /\ Compared'
  BY DEF IInv, Progress, Compared, Dedupe
<1>6. QED
  BY <1>4, <1>5 DEF IInv

LEMMA StartInv == IInv /\ StartClassify => IInv'
<1> SUFFICES ASSUME IInv, StartClassify PROVE IInv'
  OBVIOUS
<1>1. Shapes'
  BY DEF IInv, Shapes, StartClassify, runs
<1>2. Progress'
  BY DEF IInv, Shapes, Progress, StartClassify
<1>3. Cardinality({}) = 0
  BY FS_EmptySet
<1>4. LostAt' = {} /\ unclassified' = 0
  BY DEF LostAt, StartClassify, IInv, Progress
<1>5. ASSUME NEW key \in Keys
      PROVE  Balanced(key)'
  <2>1. NowAt(key)' = {} /\ NewAt(key)' = {}
    BY DEF NowAt, NewAt, StartClassify
  <2>2. unmatched'[key] = prepared'[key] /\ prepared'[key] \in Nat
    BY DEF StartClassify, IInv, Shapes
  <2>3. QED
    BY <1>3, <2>1, <2>2 DEF Balanced
<1>6. QED
  BY <1>1, <1>2, <1>3, <1>4, <1>5 DEF IInv, Compared

(* The heart: one more issue is classified.                                *)
LEMMA ClassifyInv == IInv /\ Classify => IInv'
<1> SUFFICES ASSUME IInv, Classify PROVE IInv'
  OBVIOUS
<1> DEFINE i == current[next]
           n == next - 1
           m == Len(aggregated)
<1>1. /\ pc = "classify" /\ pc' = "classify"
      /\ next \in 1..Len(current) /\ next' = next + 1
      /\ UNCHANGED <<request, todo, records, prepared, current>>
  BY DEF Classify, IInv, Shapes, runs
<1>2. current \in Seq(Issue) /\ aggregated \in Seq(Issue)
  BY DEF IInv, Shapes
<1>3. i \in Issue
  BY <1>1, <1>2, ElementTyped
<1>4. DeltaKey(i) \in Keys
  BY <1>3, KeyTyped
<1>5. n \in Nat /\ m \in Nat /\ next = n + 1 /\ next' - 1 = n + 1
  BY <1>1, <1>2
<1>6. /\ unmatched \in [Keys -> Nat] /\ prepared \in [Keys -> Nat]
      /\ unclassified \in Nat
  BY DEF IInv, Shapes
<1>7. /\ \A key \in Keys : Balanced(key)
      /\ unclassified = Cardinality(LostAt)
  BY <1>1 DEF IInv, Compared
<1>8. /\ LostAt \in SUBSET (1..n)
      /\ \A key \in Keys : NowAt(key) \in SUBSET (1..n) /\ NewAt(key) \in SUBSET (1..m)
  BY <1>5 DEF LostAt, NowAt, NewAt
<1>9. /\ IsFiniteSet(LostAt) /\ Cardinality(LostAt) \in Nat
      /\ Cardinality(LostAt \cup {n + 1}) = Cardinality(LostAt) + 1
  BY <1>5, <1>8, OneMore
<1>10. ASSUME NEW key \in Keys
       PROVE  /\ Cardinality(NowAt(key)) \in Nat /\ Cardinality(NewAt(key)) \in Nat
              /\ Cardinality(NowAt(key) \cup {n + 1}) = Cardinality(NowAt(key)) + 1
              /\ Cardinality(NewAt(key) \cup {m + 1}) = Cardinality(NewAt(key)) + 1
  BY <1>5, <1>8, OneMore
<1> HIDE DEF i, n, m
<1>11. LostAt' = IF Placed(i) THEN LostAt ELSE LostAt \cup {n + 1}
  BY <1>1, <1>5 DEF LostAt, i, Placed
<1>12. ASSUME NEW key \in Keys
       PROVE  NowAt(key)' = IF Placed(i) /\ DeltaKey(i) = key
                            THEN NowAt(key) \cup {n + 1} ELSE NowAt(key)
  BY <1>1, <1>5 DEF NowAt, i, Placed, DeltaKey
<1>13. CASE ~Placed(i)
  <2>1. unclassified' = unclassified + 1 /\ UNCHANGED <<unmatched, aggregated>>
    BY <1>13 DEF Classify, i
  <2>2. unclassified' = Cardinality(LostAt')
    BY <1>7, <1>9, <1>11, <1>13, <2>1
  <2>3. ASSUME NEW key \in Keys
        PROVE  Balanced(key)'
    <3>1. NowAt(key)' = NowAt(key) /\ NewAt(key)' = NewAt(key)
      BY <1>12, <1>13, <2>1 DEF NewAt
    <3>2. QED
      BY <1>1, <1>7, <2>1, <3>1 DEF Balanced
  <2>4. QED
    BY <1>1, <1>5, <1>6, <2>1, <2>2, <2>3 DEF IInv, Shapes, Progress, Compared
<1>14. CASE Placed(i) /\ unmatched[DeltaKey(i)] > 0
  <2>1. /\ unmatched' = [unmatched EXCEPT ![DeltaKey(i)] = unmatched[DeltaKey(i)] - 1]
        /\ UNCHANGED <<aggregated, unclassified>>
    BY <1>14 DEF Classify, i
  <2>2. unmatched' \in [Keys -> Nat]
    BY <1>4, <1>6, <1>14, <2>1
  <2>3. unclassified' = Cardinality(LostAt')
    BY <1>7, <1>11, <1>14, <2>1
  <2>4. ASSUME NEW key \in Keys
        PROVE  Balanced(key)'
    <3>1. NewAt(key)' = NewAt(key)
      BY <2>1 DEF NewAt
    <3>2. CASE key = DeltaKey(i)
      <4>1. Cardinality(NowAt(key)') = Cardinality(NowAt(key)) + 1
        BY <1>10, <1>12, <1>14, <3>2
      <4>2. unmatched'[key] = unmatched[key] - 1 /\ unmatched[key] > 0
        BY <1>6, <1>14, <2>1, <3>2
      <4>3. prepared[key] \in Nat /\ prepared' = prepared
        BY <1>1, <1>6
      <4>4. Balanced(key) /\ Cardinality(NowAt(key)) \in Nat
        BY <1>7, <1>10
      <4>5. Cardinality(NewAt(key)) = 0 /\ ~(Cardinality(NowAt(key)) + 1 > prepared[key])
        BY <4>2, <4>3, <4>4 DEF Balanced
      <4>6. unmatched'[key] = prepared[key] - Cardinality(NowAt(key)')
        BY <4>1, <4>2, <4>3, <4>4 DEF Balanced
      <4>7. QED
        BY <3>1, <4>1, <4>3, <4>5, <4>6 DEF Balanced
    <3>3. CASE key # DeltaKey(i)
      <4>1. NowAt(key)' = NowAt(key)
        BY <1>12, <3>3
      <4>2. unmatched'[key] = unmatched[key]
        BY <1>6, <2>1, <3>3
      <4>3. QED
        BY <1>1, <1>7, <3>1, <4>1, <4>2 DEF Balanced
    <3>4. QED
      BY <3>2, <3>3
  <2>5. QED
    BY <1>1, <1>5, <1>6, <2>1, <2>2, <2>3, <2>4 DEF IInv, Shapes, Progress, Compared
<1>15. CASE Placed(i) /\ unmatched[DeltaKey(i)] = 0
  <2>1. /\ aggregated' = Append(aggregated, i)
        /\ UNCHANGED <<unmatched, unclassified>>
    BY <1>15 DEF Classify, i
  <2>2. /\ aggregated' \in Seq(Issue) /\ Len(aggregated') = m + 1
        /\ aggregated'[m + 1] = i
        /\ \A k \in 1..m : aggregated'[k] = aggregated[k]
    BY <1>2, <1>3, <2>1 DEF m
  <2>3. unclassified' = Cardinality(LostAt')
    BY <1>7, <1>11, <1>15, <2>1
  <2>4. ASSUME NEW key \in Keys
        PROVE  Balanced(key)'
    <3>1. CASE key = DeltaKey(i)
      <4>1. NewAt(key)' = NewAt(key) \cup {m + 1}
        BY <1>5, <2>2, <3>1 DEF NewAt, m, DeltaKey
      <4>2. Cardinality(NewAt(key)') = Cardinality(NewAt(key)) + 1
        BY <1>10, <4>1
      <4>3. Cardinality(NowAt(key)') = Cardinality(NowAt(key)) + 1
        BY <1>10, <1>12, <1>15, <3>1
      <4>4. unmatched'[key] = 0 /\ unmatched[key] = 0
        BY <1>15, <2>1, <3>1
      <4>5. prepared[key] \in Nat /\ prepared' = prepared
        BY <1>1, <1>6
      <4>6. Balanced(key) /\ Cardinality(NowAt(key)) \in Nat
        BY <1>7, <1>10
      <4>7. /\ Cardinality(NowAt(key)) + 1 > prepared[key]
            /\ Cardinality(NewAt(key)) = Cardinality(NowAt(key)) - prepared[key]
        BY <4>4, <4>5, <4>6 DEF Balanced
      <4>8. Cardinality(NewAt(key)') = Cardinality(NowAt(key)') - prepared[key]
        BY <4>2, <4>3, <4>5, <4>6, <4>7
      <4>9. QED
        BY <4>3, <4>4, <4>5, <4>7, <4>8 DEF Balanced
    <3>2. CASE key # DeltaKey(i)
      <4>1. NewAt(key)' = NewAt(key)
        BY <1>5, <2>2, <3>2 DEF NewAt, m, DeltaKey
      <4>2. NowAt(key)' = NowAt(key)
        BY <1>12, <3>2
      <4>3. QED
        BY <1>1, <1>7, <2>1, <4>1, <4>2 DEF Balanced
    <3>3. QED
      BY <3>1, <3>2
  <2>5. QED
    BY <1>1, <1>5, <1>6, <2>1, <2>2, <2>3, <2>4 DEF IInv, Shapes, Progress, Compared
<1>16. unmatched[DeltaKey(i)] \in Nat
  BY <1>4, <1>6
<1>17. QED
  BY <1>13, <1>14, <1>15, <1>16

LEMMA EndInv == IInv /\ EndClassify => IInv'
<1> SUFFICES ASSUME IInv, EndClassify PROVE IInv'
  OBVIOUS
<1>1. /\ pc = "classify" /\ pc' = "own" /\ next > Len(current)
      /\ UNCHANGED <<request, todo, records, comparison>>
  BY DEF EndClassify, runs
<1>2. Shapes' /\ Progress'
  <2>1. Len(current) \in Nat
    BY DEF IInv, Shapes
  <2>2. QED
    BY <1>1, <2>1 DEF IInv, Shapes, Progress, comparison
<1>3. ASSUME NEW key \in Keys
      PROVE  Balanced(key)' = Balanced(key)
  BY <1>1 DEF Balanced, NowAt, NewAt, comparison
<1>4. LostAt' = LostAt /\ unclassified' = unclassified
  BY <1>1 DEF LostAt, comparison
<1>5. QED
  BY <1>1, <1>2, <1>3, <1>4 DEF IInv, Compared

LEMMA StepIInv == IInv /\ [Next]_vars => IInv'
<1> SUFFICES ASSUME IInv, [Next]_vars PROVE IInv'
  OBVIOUS
<1>1. CASE UNCHANGED vars
  <2>1. ASSUME NEW key \in Keys
        PROVE  Balanced(key)' = Balanced(key)
    BY <1>1 DEF Balanced, NowAt, NewAt, vars
  <2>2. LostAt' = LostAt
    BY <1>1 DEF LostAt, vars
  <2>3. QED
    BY <1>1, <2>1, <2>2 DEF IInv, Shapes, Progress, Compared, vars
<1>2. QED
  BY <1>1, PrepareInv, RunInv, QuietInv, DedupeInv, StartInv, ClassifyInv, EndInv DEF Next

LEMMA IInvImplies == IInv => DeltaIsDifference
<1> SUFFICES ASSUME IInv, request.delta, pc \in {"own", "strict", "cap"}
             PROVE  DeltaIsDifference
  BY DEF DeltaIsDifference
<1>1. next - 1 = Len(current) /\ DOMAIN current = 1..Len(current)
      /\ DOMAIN aggregated = 1..Len(aggregated)
  BY DEF IInv, Shapes, Progress
<1>2. unclassified = Cardinality({k \in DOMAIN current : ~Placed(current[k])})
  BY <1>1 DEF IInv, Compared, LostAt
<1>3. ASSUME NEW key \in Keys
      PROVE  /\ NowAt(key) = {k \in DOMAIN current :
                                 Placed(current[k]) /\ DeltaKey(current[k]) = key}
             /\ NewAt(key) = {k \in DOMAIN aggregated : DeltaKey(aggregated[k]) = key}
  BY <1>1 DEF NowAt, NewAt
<1>4. \A key \in Keys : Balanced(key)
  BY DEF IInv, Compared
<1>5. QED
  BY <1>2, <1>3, <1>4 DEF DeltaIsDifference, Balanced, Occurrences

(* For any number of validators and issues and any snapshot, the new       *)
(* issues are the multiset difference of what is reported and what the     *)
(* snapshot holds, key by key, and no issue is lost (_classify).           *)
THEOREM DeltaHolds == Spec => []DeltaIsDifference
<1>1. IInv => DeltaIsDifference
  BY IInvImplies
<1>2. QED
  BY InitIInv, StepIInv, <1>1, PTL DEF Spec

----------------------------------------------------------------------------
(* What an answer's numbers rest on.  Until the call is done: who has run  *)
(* and how, that the breakdown sums to the total, that the total counts    *)
(* the issues, and where each of the issues comes from.                    *)
Tally == [Severities -> Nat]

Ledger ==
    /\ request \in [single : BOOLEAN, delta : BOOLEAN, asked : SUBSET Names]
    /\ entries \in [Names -> [ok : BOOLEAN, counts : Tally]]
    /\ \A j, k \in DOMAIN todo : todo[j] = todo[k] => j = k
    /\ \A k \in DOMAIN todo : entries[todo[k]] = NoEntry
    /\ \A k \in DOMAIN todo, j \in DOMAIN records : records[j].by # todo[k]
    /\ \A n \in request.asked :
          (\E k \in DOMAIN todo : todo[k] = n) \/ n \in working \/ ~entries[n].ok
    /\ \A n \in Names : ~entries[n].ok => entries[n].counts = Nothing
    /\ \A j \in DOMAIN records : entries[records[j].by].ok
    /\ pc \notin {"prepare", "run"} => todo = <<>>

Summed ==
    /\ overall \in Tally
    /\ \A s \in Severities : overall[s] = Total([n \in Names |-> entries[n].counts[s]])

Matches ==
    /\ pc \in {"prepare", "run", "strict"} => overall = Count(aggregated)
    /\ pc = "cap" => InAll(overall) = Len(aggregated)
    /\ pc \in {"prepare", "run"} \/ ~request.delta => Len(records) = Len(aggregated)
    /\ pc \in {"dedupe", "classify", "own"} => request.delta
    /\ answer = NoAnswer

Provenance ==
    /\ \A k \in DOMAIN current : \E j \in DOMAIN records : SameIssue(records[j].issue, current[k])
    /\ pc = "dedupe" =>
          \A j \in DOMAIN records : j < next => \E k \in DOMAIN current : SameIssue(records[j].issue, current[k])
    /\ request.delta /\ pc \in {"classify", "own", "strict", "cap"} =>
          \A j \in DOMAIN records : \E k \in DOMAIN current : SameIssue(records[j].issue, current[k])
    /\ pc \in {"classify", "own"} =>
          \A k \in DOMAIN aggregated : \E j \in DOMAIN current : aggregated[k] = current[j]

Books ==
    /\ pc # "done" => Ledger /\ Summed /\ Matches /\ Provenance
    /\ CountsReconcile /\ CleanMeansClean

LEMMA BooksArithmetic ==
    /\ Nothing \in Tally
    /\ \A c, d \in Tally : /\ Plus(c, d) \in Tally
                          /\ InAll(Plus(c, d)) = InAll(c) + InAll(d)
    /\ \A c \in Tally : Fold(c) \in Tally /\ InAll(c) \in Nat /\ InAll(Fold(c)) = InAll(c)
BY DEF Nothing, Plus, Tally, Severities, InAll, Fold

(* A list has as many positions as it is long.                             *)
LEMMA UpTo ==
    ASSUME NEW n \in Nat
    PROVE  Cardinality(1..n) = n
<1>1. Cardinality(1..n) = IF 1 > n THEN 0 ELSE n - 1 + 1
  <2>1. n \in Int /\ 1 \in Int
    OBVIOUS
  <2>2. QED
    BY <2>1, FS_Interval, Zenon
<1>2. QED
  BY <1>1

(* The positions at which a sequence has an issue of one severity.         *)
Having(seq, s) == {k \in DOMAIN seq : seq[k].severity = s}

LEMMA CountIsHaving ==
    ASSUME NEW seq \in Seq(Issue)
    PROVE  /\ Count(seq) \in Tally
           /\ \A s \in Severities : /\ Count(seq)[s] = Cardinality(Having(seq, s))
                                    /\ IsFiniteSet(Having(seq, s))
<1>1. ASSUME NEW s \in Severities
      PROVE  /\ IsFiniteSet(Having(seq, s)) /\ Cardinality(Having(seq, s)) \in Nat
             /\ Count(seq)[s] = Cardinality(Having(seq, s))
  <2>1. Len(seq) \in Nat /\ Having(seq, s) \in SUBSET (1..Len(seq))
    BY DEF Having
  <2>2. Count(seq)[s] = Cardinality(Having(seq, s))
    BY DEF Count, Occurrences, Having
  <2>3. QED
    BY <2>1, <2>2, OneMore
<1>2. DOMAIN Count(seq) = Severities /\ Count(seq) = [s \in Severities |-> Count(seq)[s]]
  BY DEF Count
<1>3. QED
  BY <1>1, <1>2 DEF Tally

(* Every issue has one of the three severities.                            *)
LEMMA CountIsLength ==
    ASSUME NEW seq \in Seq(Issue)
    PROVE  InAll(Count(seq)) = Len(seq)
<1> DEFINE E == Having(seq, "error")
           W == Having(seq, "warning")
           I == Having(seq, "info")
<1>1. /\ E \cap W = {} /\ (E \cup W) \cap I = {}
      /\ (E \cup W) \cup I = 1..Len(seq)
  <2>1. ASSUME NEW k \in 1..Len(seq)
        PROVE  seq[k].severity \in Severities
    <3>1. seq[k] \in Issue
      BY ElementTyped
    <3>2. QED
      BY <3>1 DEF Issue
  <2>2. QED
    BY <2>1 DEF Having, Severities
<1>2. /\ IsFiniteSet(E) /\ IsFiniteSet(W) /\ IsFiniteSet(I)
      /\ InAll(Count(seq)) = Cardinality(E) + Cardinality(W) + Cardinality(I)
  BY CountIsHaving DEF InAll, Severities
<1> HIDE DEF E, W, I
<1>3. /\ IsFiniteSet(E \cup W)
      /\ Cardinality(E \cup W) = Cardinality(E) + Cardinality(W) - Cardinality(E \cap W)
  BY <1>2, FS_Union
<1>4. Cardinality((E \cup W) \cup I) =
        Cardinality(E \cup W) + Cardinality(I) - Cardinality((E \cup W) \cap I)
  BY <1>2, <1>3, FS_Union
<1>5. Cardinality(E \cap W) = 0 /\ Cardinality((E \cup W) \cap I) = 0
  BY <1>1, FS_EmptySet
<1>6. Cardinality((E \cup W) \cup I) = Cardinality(1..Len(seq))
  BY <1>1, Zenon
<1>7. Cardinality(1..Len(seq)) = Len(seq) /\ Len(seq) \in Nat
  <2>1. Len(seq) \in Nat
    OBVIOUS
  <2>2. QED
    BY <2>1, UpTo
<1>8. Cardinality(E) \in Nat /\ Cardinality(W) \in Nat /\ Cardinality(I) \in Nat
  BY <1>2, FS_CardinalityType
<1>9. QED
  BY <1>2, <1>3, <1>4, <1>5, <1>6, <1>7, <1>8

LEMMA CountOfJoined ==
    ASSUME NEW a \in Seq(Issue), NEW b \in Seq(Issue)
    PROVE  Count(a \o b) = Plus(Count(a), Count(b))
<1>1. a \o b \in Seq(Issue) /\ Len(a) \in Nat /\ Len(b) \in Nat
  OBVIOUS
<1>2. ASSUME NEW s \in Severities
      PROVE  Count(a \o b)[s] = Count(a)[s] + Count(b)[s]
  <2> DEFINE A == Having(a, s)
             B == Having(b, s)
             late == {k \in Having(a \o b, s) : k > Len(a)}
             R == [k \in B |-> k + Len(a)]
  <2>1. /\ A \subseteq 1..Len(a) /\ B \subseteq 1..Len(b)
        /\ A \cup late = Having(a \o b, s) /\ A \cap late = {}
    BY DEF Having
  <2>2. R \in [B -> late]
    BY <1>1 DEF Having
  <2>3. \A j, k \in B : R[j] = R[k] => j = k
    BY <1>1, <2>1
  <2>4. ASSUME NEW k \in late
        PROVE  \E j \in B : R[j] = k
    <3>1. k - Len(a) \in B /\ R[k - Len(a)] = k
      BY <1>1 DEF Having
    <3>2. QED
      BY <3>1
  <2>5. IsFiniteSet(A) /\ IsFiniteSet(B) /\ IsFiniteSet(Having(a \o b, s))
    BY <1>1, CountIsHaving
  <2>6. IsFiniteSet(late)
    BY <2>5, FS_Subset
  <2> HIDE DEF A, B, late, R
  <2>7. R \in Bijection(B, late)
    BY <2>2, <2>3, <2>4 DEF Bijection, Injection, Surjection, IsInjective
  <2>8. Cardinality(late) = Cardinality(B)
    BY <2>5, <2>7, FS_Bijection DEF ExistsBijection
  <2>9. Cardinality(A \cup late) = Cardinality(A) + Cardinality(late) - Cardinality(A \cap late)
    BY <2>5, <2>6, FS_Union
  <2>10. Cardinality(A \cap late) = 0
    BY <2>1, FS_EmptySet
  <2>11. Cardinality(A \cup late) = Cardinality(Having(a \o b, s))
    BY <2>1, Zenon
  <2>12. Cardinality(A) \in Nat /\ Cardinality(B) \in Nat
    BY <2>5, FS_CardinalityType
  <2>13. /\ Count(a \o b)[s] = Cardinality(Having(a \o b, s))
         /\ Count(a)[s] = Cardinality(A) /\ Count(b)[s] = Cardinality(B)
    BY <1>1, CountIsHaving DEF A, B
  <2>14. QED
    BY <2>8, <2>9, <2>10, <2>11, <2>12, <2>13
<1>3. QED
  BY <1>2 DEF Count, Plus

LEMMA NamesAreFinite == IsFiniteSet(Names)
<1> DEFINE D == 1..Len(Targets)
           F == [k \in D |-> Targets[k]]
<1>1. Len(Targets) \in Nat /\ DOMAIN Targets = D
  BY TargetsTyped
<1>2. IsFiniteSet(D)
  BY <1>1, FS_Interval
<1>3. F \in Surjection(D, Names)
  BY <1>1 DEF Surjection, Names
<1>4. QED
  BY <1>2, <1>3, FS_Surjection

(* What one owner has is the sum when nobody else has anything.            *)
OwnedBy(n, D, w) == n \in D /\ w \in [D -> Nat] /\ \A m \in D : m # n => w[m] = 0

LEMMA TotalOfOwner ==
    ASSUME NEW D, NEW n, NEW w, OwnedBy(n, D, w)
    PROVE  Total(w) = w[n]
<1>0. n \in D /\ w \in [D -> Nat] /\ \A m \in D : m # n => w[m] = 0
  BY DEF OwnedBy
<1> USE <1>0
<1> DEFINE S == 1..w[n]
           g == [k \in S |-> n]
<1>1. IsFiniteSet(S) /\ Cardinality(S) = w[n]
  <2>1. 1 \in Int /\ w[n] \in Int
    OBVIOUS
  <2>2. QED
    BY <2>1, FS_Interval
<1> HIDE DEF S
<1>2. ASSUME NEW m \in D
      PROVE  w[m] = Cardinality({k \in S : g[k] = m})
  <2>1. CASE m = n
    <3>1. {k \in S : g[k] = m} = S
      BY <2>1
    <3>2. QED
      BY <1>1, <2>1, <3>1
  <2>2. CASE m # n
    <3>1. {k \in S : g[k] = m} = {}
      BY <2>2
    <3>2. QED
      BY <2>2, <3>1, FS_EmptySet
  <2>3. QED
    BY <2>1, <2>2
<1>3. g \in [S -> D]
  OBVIOUS
<1> HIDE DEF g
<1>4. Shares(S, D, g, w)
  BY <1>2, <1>3 DEF Shares
<1>5. QED
  BY <1>1, <1>4, SumOfFibres

LEMMA Joined ==
    ASSUME NEW T, NEW a \in Seq(T), NEW b \in Seq(T)
    PROVE  /\ a \o b \in Seq(T) /\ Len(a) \in Nat /\ Len(b) \in Nat
           /\ Len(a \o b) = Len(a) + Len(b)
           /\ DOMAIN a = 1..Len(a) /\ DOMAIN (a \o b) = 1..Len(a \o b)
           /\ \A k \in 1..Len(a) : (a \o b)[k] = a[k]
           /\ \A k \in 1..Len(a \o b) : k > Len(a) =>
                 k - Len(a) \in 1..Len(b) /\ (a \o b)[k] = b[k - Len(a)]
OBVIOUS

LEMMA TotalOfNothing == Total([n \in Names |-> 0]) = 0
<1>1. Units([n \in Names |-> 0]) = {}
  BY DEF Units
<1>2. QED
  BY <1>1, FS_EmptySet DEF Total

(* The books are kept by every step; an answer is due only at the end.     *)
LEMMA OpenBooks ==
    ASSUME pc' # "done", Ledger', Summed', Matches', Provenance'
    PROVE  Books'
<1>1. ~answer'.ok
  BY DEF Matches, NoAnswer
<1>2. QED
  BY <1>1 DEF Books, CountsReconcile, CleanMeansClean

LEMMA InitBooks == Init => Books
<1> SUFFICES ASSUME Init PROVE Books
  OBVIOUS
<1>1. /\ pc = "prepare" /\ ~answer.ok /\ records = <<>> /\ current = <<>> /\ aggregated = <<>>
      /\ entries = [n \in Names |-> NoEntry] /\ overall = Nothing /\ answer = NoAnswer
  BY DEF Init, NoAnswer
<1>2. Nothing \in Tally /\ NoEntry \in [ok : BOOLEAN, counts : Tally]
  BY DEF Nothing, NoEntry, Tally
<1>3. Ledger
  <2>1. \A j, k \in DOMAIN todo : todo[j] = todo[k] => j = k
    BY TargetsTyped DEF Init
  <2>2. \A k \in DOMAIN todo : todo[k] \in Names
    BY InitIInv DEF IInv, Shapes
  <2>3. request \in [single : BOOLEAN, delta : BOOLEAN, asked : SUBSET Names]
    BY <2>2 DEF Init
  <2>4. request.asked = {todo[k] : k \in DOMAIN todo}
    BY DEF Init
  <2>5. QED
    BY <1>1, <1>2, <2>1, <2>2, <2>3, <2>4 DEF Ledger, NoEntry
<1>4. Summed
  <2>1. ASSUME NEW s \in Severities
        PROVE  [n \in Names |-> entries[n].counts[s]] = [n \in Names |-> 0]
    BY <1>1 DEF NoEntry, Nothing
  <2>2. QED
    BY <1>1, <1>2, <2>1, TotalOfNothing DEF Summed, Nothing
<1>5. Matches
  <2>1. \A s \in Severities : Having(<<>>, s) = {}
    BY DEF Having
  <2>2. <<>> \in Seq(Issue)
    OBVIOUS
  <2>3. Count(<<>>) = Nothing
    BY <2>1, <2>2, CountIsHaving, FS_EmptySet DEF Nothing, Tally
  <2>4. QED
    BY <1>1, <2>3 DEF Matches
<1>6. Provenance
  BY <1>1 DEF Provenance
<1>7. QED
  BY <1>1, <1>3, <1>4, <1>5, <1>6 DEF Books, CountsReconcile, CleanMeansClean

LEMMA PrepareBooks == IInv /\ Books /\ Prepare => Books'
<1> SUFFICES ASSUME IInv, Books, Prepare PROVE Books'
  OBVIOUS
<1>1. /\ pc = "prepare" /\ pc' = "run"
      /\ UNCHANGED <<request, working, todo, records, entries, overall, current, next, aggregated, answer>>
  BY DEF Prepare, runs
<1>2. QED
  BY <1>1, OpenBooks DEF Books, Ledger, Summed, Matches, Provenance

LEMMA RunBooks == IInv /\ Books /\ Run => Books'
<1> SUFFICES ASSUME IInv, Books, Run PROVE Books'
  OBVIOUS
<1>1. PICK size \in 0..MaxIssues - Len(records) :
        \E found \in [1..size -> Issues] : Reported(found)
  BY DEF Run
<1>2. PICK found \in [1..size -> Issues] : Reported(found)
  BY <1>1
<1> DEFINE n == Head(todo)
           more == [k \in 1..Len(found) |-> [issue |-> found[k], by |-> n]]
<1>3. /\ pc = "run" /\ pc' = "run" /\ todo # <<>> /\ n \in working
      /\ todo' = Tail(todo)
      /\ records' = records \o more
      /\ entries' = [entries EXCEPT ![n] = [ok |-> TRUE, counts |-> Count(found)]]
      /\ overall' = Plus(overall, Count(found))
      /\ aggregated' = aggregated \o found
      /\ UNCHANGED <<request, working, current, next, answer>>
  BY <1>2 DEF Run, Reported
<1>4. /\ todo \in Seq(Names) /\ records \in Seq([issue : Issue, by : Names])
      /\ aggregated \in Seq(Issue) /\ next = 1
  BY <1>3 DEF IInv, Shapes, Progress
<1>5. size \in Nat /\ found \in Seq(Issue) /\ Len(found) = size
  <2>1. size \in Nat
    BY <1>4, LimitsTyped
  <2>2. found \in [1..size -> Issue]
    BY <1>2, IssuesTyped
  <2>3. QED
    BY <2>1, <2>2
<1>6. /\ n \in Names /\ Len(todo) \in Nat /\ Len(todo) > 0 /\ todo[1] = n
      /\ todo' \in Seq(Names) /\ Len(todo') = Len(todo) - 1
      /\ DOMAIN todo = 1..Len(todo) /\ DOMAIN todo' = 1..Len(todo) - 1
      /\ \A k \in 1..Len(todo) - 1 : todo'[k] = todo[k + 1]
  BY <1>3, <1>4
<1>7. /\ more \in Seq([issue : Issue, by : Names]) /\ Len(more) = size
      /\ \A k \in 1..size : more[k].by = n
  <2>1. more \in [1..size -> [issue : Issue, by : Names]]
    BY <1>5, <1>6
  <2>2. more \in Seq([issue : Issue, by : Names]) /\ Len(more) = size
    BY <1>5, <2>1
  <2>3. \A k \in 1..size : more[k].by = n
    BY <1>5
  <2>4. QED
    BY <2>2, <2>3
<1> HIDE DEF more, n
<1>8. /\ Len(records) \in Nat /\ Len(records') = Len(records) + size
      /\ DOMAIN records = 1..Len(records) /\ DOMAIN records' = 1..Len(records')
      /\ \A k \in 1..Len(records) : records'[k] = records[k]
      /\ \A k \in 1..Len(records') : k > Len(records) => records'[k].by = n
  <2> DEFINE T == [issue : Issue, by : Names]
  <2>1. records \in Seq(T) /\ more \in Seq(T) /\ Len(more) = size
        /\ \A k \in 1..Len(more) : more[k].by = n
    BY <1>4, <1>7
  <2> HIDE DEF T
  <2>2. /\ Len(records) \in Nat /\ Len(records \o more) = Len(records) + Len(more)
        /\ records \o more \in Seq(T)
        /\ DOMAIN records = 1..Len(records) /\ DOMAIN (records \o more) = 1..Len(records \o more)
        /\ \A k \in 1..Len(records) : (records \o more)[k] = records[k]
        /\ \A k \in 1..Len(records \o more) : k > Len(records) =>
              k - Len(records) \in 1..Len(more) /\ (records \o more)[k] = more[k - Len(records)]
    BY <2>1, Joined
  <2>3. QED
    BY <1>3, <2>1, <2>2
<1>9. Ledger /\ Summed /\ Matches /\ Provenance
  BY <1>3 DEF Books
<1>10. Count(found) \in Tally /\ Nothing \in Tally
  BY <1>5, CountIsHaving, BooksArithmetic
<1>11. Ledger'
  <2>1. /\ entries' \in [Names -> [ok : BOOLEAN, counts : Tally]]
        /\ entries'[n] = [ok |-> TRUE, counts |-> Count(found)]
        /\ \A m \in Names : m # n => entries'[m] = entries[m]
    BY <1>3, <1>6, <1>9, <1>10 DEF Ledger
  <2>2. \A k \in DOMAIN todo' : k + 1 \in DOMAIN todo /\ todo'[k] = todo[k + 1] /\ todo'[k] # n
    <3> SUFFICES ASSUME NEW k \in DOMAIN todo' PROVE
                 k + 1 \in DOMAIN todo /\ todo'[k] = todo[k + 1] /\ todo'[k] # n
      OBVIOUS
    <3>1. k \in 1..Len(todo) - 1 /\ k + 1 \in DOMAIN todo /\ k + 1 # 1 /\ 1 \in DOMAIN todo
      BY <1>6
    <3>2. todo[k + 1] # todo[1]
      BY <1>9, <3>1 DEF Ledger
    <3>3. QED
      BY <1>6, <3>1, <3>2
  <2>3. \A j, k \in DOMAIN todo' : todo'[j] = todo'[k] => j = k
    BY <2>2, <1>6, <1>9, <1>4 DEF Ledger
  <2>4. \A k \in DOMAIN todo' : entries'[todo'[k]] = NoEntry
    BY <2>1, <2>2, <1>4, <1>9 DEF Ledger
  <2>5. \A k \in DOMAIN todo', j \in DOMAIN records' : records'[j].by # todo'[k]
    <3> SUFFICES ASSUME NEW k \in DOMAIN todo', NEW j \in DOMAIN records'
                 PROVE  records'[j].by # todo'[k]
      OBVIOUS
    <3>1. CASE j \in DOMAIN records
      BY <1>8, <1>9, <2>2, <3>1 DEF Ledger
    <3>2. CASE j \notin DOMAIN records
      BY <1>8, <2>2, <3>2
    <3>3. QED
      BY <3>1, <3>2
  <2>6. \A m \in request'.asked :
          (\E k \in DOMAIN todo' : todo'[k] = m) \/ m \in working' \/ ~entries'[m].ok
    <3> SUFFICES ASSUME NEW m \in request.asked, m # n, m \notin working, entries[m].ok
                 PROVE  \E k \in DOMAIN todo' : todo'[k] = m
      BY <1>3, <1>9, <2>1 DEF Ledger
    <3>1. PICK k \in DOMAIN todo : todo[k] = m
      BY <1>9 DEF Ledger
    <3>2. k \in 2..Len(todo)
      BY <1>4, <1>6, <3>1
    <3>3. k - 1 \in DOMAIN todo' /\ todo'[k - 1] = m
      BY <1>4, <1>3, <1>6, <3>1, <3>2
    <3>4. QED
      BY <3>3
  <2>7. \A j \in DOMAIN records' : entries'[records'[j].by].ok
    <3> SUFFICES ASSUME NEW j \in DOMAIN records' PROVE entries'[records'[j].by].ok
      OBVIOUS
    <3>1. CASE j \in DOMAIN records
      <4>1. records'[j] = records[j] /\ j \in 1..Len(records) /\ entries[records[j].by].ok
        BY <1>8, <1>9, <3>1 DEF Ledger
      <4>2. records[j] \in [issue : Issue, by : Names]
        BY <1>4, <4>1, ElementTyped
      <4>3. QED
        BY <2>1, <4>1, <4>2
    <3>2. CASE j \notin DOMAIN records
      BY <1>8, <2>1, <3>2
    <3>3. QED
      BY <3>1, <3>2
  <2>8. \A m \in Names : ~entries'[m].ok => entries'[m].counts = Nothing
    BY <2>1, <1>9 DEF Ledger
  <2>9. QED
    BY <1>3, <1>9, <2>1, <2>3, <2>4, <2>5, <2>6, <2>7, <2>8 DEF Ledger
<1>12. Summed'
  <2>1. overall' \in Tally
    BY <1>3, <1>9, <1>10, BooksArithmetic DEF Summed
  <2>2. ASSUME NEW s \in Severities
        PROVE  overall'[s] = Total([m \in Names |-> entries'[m].counts[s]])
    <3> DEFINE u == [m \in Names |-> entries'[m].counts[s]]
               v == [m \in Names |-> entries[m].counts[s]]
               w == [m \in Names |-> IF m = n THEN Count(found)[s] ELSE 0]
    <3>1. entries[n] = NoEntry
      <4>1. 1 \in DOMAIN todo
        BY <1>6
      <4>2. QED
        BY <1>6, <1>9, <4>1 DEF Ledger
    <3>2. /\ entries \in [Names -> [ok : BOOLEAN, counts : Tally]] /\ Count(found)[s] \in Nat
          /\ entries'[n].counts = Count(found) /\ entries[n].counts[s] = 0
          /\ \A m \in Names : m # n => entries'[m] = entries[m]
      BY <1>3, <1>6, <1>9, <1>10, <3>1 DEF Ledger, Tally, NoEntry, Nothing
    <3>3. \A m \in Names : entries[m].counts[s] \in Nat
      BY <3>2 DEF Tally
    <3>4. ASSUME NEW m \in Names
          PROVE  u[m] \in Nat /\ v[m] \in Nat /\ w[m] \in Nat /\ u[m] = v[m] + w[m]
      <4>1. CASE m = n
        BY <3>2, <4>1
      <4>2. CASE m # n
        BY <3>2, <3>3, <4>2
      <4>3. QED
        BY <4>1, <4>2
    <3>b. w[n] = Count(found)[s] /\ \A m \in Names : m # n => w[m] = 0
      BY <1>6
    <3>c. u \in [Names -> Nat] /\ v \in [Names -> Nat] /\ w \in [Names -> Nat]
      BY <3>4
    <3>6. Total(v) = overall[s]
      BY <1>9 DEF Summed
    <3> HIDE DEF u, v, w
    <3>d. OwnedBy(n, Names, w)
      BY <1>6, <3>b, <3>c DEF OwnedBy
    <3>5. Total(w) = Count(found)[s]
      BY <3>b, <3>d, TotalOfOwner
    <3>a. Adds(Names, u, v, w)
      BY <3>4, <3>c DEF Adds
    <3>7. Total(u) = Total(v) + Total(w)
      BY <3>a, NamesAreFinite, TotalIsAdded
    <3>8. overall'[s] = overall[s] + Count(found)[s]
      BY <1>3 DEF Plus
    <3>9. QED
      BY <3>5, <3>6, <3>7, <3>8 DEF u
  <2>3. QED
    BY <2>1, <2>2 DEF Summed
<1>13. Matches'
  <2>1. overall' = Count(aggregated')
    BY <1>3, <1>4, <1>5, <1>9, CountOfJoined DEF Matches
  <2>2. Len(records') = Len(aggregated')
    BY <1>3, <1>4, <1>5, <1>8, <1>9 DEF Matches
  <2>3. QED
    BY <1>3, <1>9, <2>1, <2>2 DEF Matches
<1>14. Provenance'
  <2>1. \A j \in DOMAIN records : j \in DOMAIN records' /\ records'[j] = records[j]
    BY <1>8
  <2>2. \A k \in DOMAIN current : \E j \in DOMAIN records' : SameIssue(records'[j].issue, current[k])
    BY <1>9, <2>1 DEF Provenance
  <2>3. QED
    BY <1>3, <2>2 DEF Provenance, SameIssue
<1>15. QED
  BY <1>3, <1>11, <1>12, <1>13, <1>14, OpenBooks

LEMMA RefusedBooks ==
    ASSUME pc' = "done", answer' = Refused
    PROVE  Books'
BY DEF Books, CountsReconcile, CleanMeansClean, Refused, NoAnswer

LEMMA FailedBooks == IInv /\ Books /\ Failed => Books'
<1> SUFFICES ASSUME IInv, Books, Failed PROVE Books'
  OBVIOUS
<1> DEFINE n == Head(todo)
<1>1. /\ pc = "run" /\ todo # <<>> /\ n \notin working
      /\ entries' = [entries EXCEPT ![n].ok = FALSE]
      /\ todo' = Tail(todo)
      /\ UNCHANGED <<request, working, records, overall, current, next, aggregated>>
  BY DEF Failed, comparison
<1>2. CASE request.single
  BY <1>2, RefusedBooks DEF Failed
<1>3. CASE ~request.single
  <2>1. pc' = "run" /\ UNCHANGED <<pc, answer>>
    BY <1>1, <1>3 DEF Failed
  <2>2. todo \in Seq(Names) /\ Ledger /\ Summed /\ Matches /\ Provenance
    BY <1>1 DEF IInv, Shapes, Books
  <2>3. /\ n \in Names /\ Len(todo) \in Nat /\ Len(todo) > 0 /\ todo[1] = n
        /\ todo' \in Seq(Names) /\ Len(todo') = Len(todo) - 1
        /\ DOMAIN todo = 1..Len(todo) /\ DOMAIN todo' = 1..Len(todo) - 1
        /\ \A k \in 1..Len(todo) - 1 : todo'[k] = todo[k + 1]
    BY <1>1, <2>2
  <2> HIDE DEF n
  <2>4. entries[n] = NoEntry /\ \A j \in DOMAIN records : records[j].by # n
    <3>1. 1 \in DOMAIN todo
      BY <2>3
    <3>2. QED
      BY <2>2, <2>3, <3>1 DEF Ledger
  <2>5. /\ entries' \in [Names -> [ok : BOOLEAN, counts : Tally]]
        /\ ~entries'[n].ok /\ entries'[n].counts = Nothing
        /\ \A m \in Names : m # n => entries'[m] = entries[m]
    <3> DEFINE e == [NoEntry EXCEPT !.ok = FALSE]
    <3>1. entries \in [Names -> [ok : BOOLEAN, counts : Tally]] /\ n \in Names
      BY <2>2, <2>3 DEF Ledger
    <3>2. NoEntry \in [ok : BOOLEAN, counts : Tally] /\ NoEntry.counts = Nothing
      BY DEF NoEntry, Nothing, Tally
    <3>3. e \in [ok : BOOLEAN, counts : Tally] /\ ~e.ok /\ e.counts = Nothing
      BY <3>2
    <3>4. entries' = [entries EXCEPT ![n] = e]
      BY <1>1, <2>4
    <3> HIDE DEF e
    <3>5. QED
      BY <3>1, <3>3, <3>4
  <2>6. Ledger'
    <3>1. \A k \in DOMAIN todo' : k + 1 \in DOMAIN todo /\ todo'[k] = todo[k + 1] /\ todo'[k] # n
      <4> SUFFICES ASSUME NEW k \in DOMAIN todo' PROVE
                   k + 1 \in DOMAIN todo /\ todo'[k] = todo[k + 1] /\ todo'[k] # n
        OBVIOUS
      <4>1. k \in 1..Len(todo) - 1 /\ k + 1 \in DOMAIN todo /\ k + 1 # 1 /\ 1 \in DOMAIN todo
        BY <2>3
      <4>2. todo[k + 1] # todo[1]
        BY <2>2, <4>1 DEF Ledger
      <4>3. QED
        BY <2>3, <4>1, <4>2
    <3>2. \A j, k \in DOMAIN todo' : todo'[j] = todo'[k] => j = k
      BY <3>1, <2>3, <2>2 DEF Ledger
    <3>3. \A k \in DOMAIN todo' : entries'[todo'[k]] = NoEntry
      BY <2>5, <3>1, <2>2 DEF Ledger
    <3>4. \A k \in DOMAIN todo', j \in DOMAIN records' : records'[j].by # todo'[k]
      BY <1>1, <2>2, <3>1 DEF Ledger
    <3>5. \A m \in request'.asked :
            (\E k \in DOMAIN todo' : todo'[k] = m) \/ m \in working' \/ ~entries'[m].ok
      <4> SUFFICES ASSUME NEW m \in request.asked, m # n, m \notin working, entries[m].ok
                   PROVE  \E k \in DOMAIN todo' : todo'[k] = m
        BY <1>1, <2>2, <2>5 DEF Ledger
      <4>1. PICK k \in DOMAIN todo : todo[k] = m
        BY <2>2 DEF Ledger
      <4>2. k \in 2..Len(todo)
        BY <2>2, <2>3, <4>1
      <4>3. k - 1 \in DOMAIN todo' /\ todo'[k - 1] = m
        BY <2>3, <4>1, <4>2
      <4>4. QED
        BY <4>3
    <3>6. \A j \in DOMAIN records' : entries'[records'[j].by].ok
      <4> SUFFICES ASSUME NEW j \in DOMAIN records PROVE entries'[records[j].by].ok
        BY <1>1
      <4>1. records \in Seq([issue : Issue, by : Names]) /\ j \in 1..Len(records)
        BY DEF IInv, Shapes
      <4>2. records[j] \in [issue : Issue, by : Names]
        BY <4>1, ElementTyped
      <4>3. QED
        BY <2>2, <2>4, <2>5, <4>2 DEF Ledger
    <3>7. \A m \in Names : ~entries'[m].ok => entries'[m].counts = Nothing
      BY <2>5, <2>2 DEF Ledger
    <3>8. QED
      BY <1>1, <2>1, <2>2, <2>5, <3>2, <3>3, <3>4, <3>5, <3>6, <3>7 DEF Ledger
  <2>7. Summed'
    <3>1. ASSUME NEW s \in Severities, NEW m \in Names
          PROVE  entries'[m].counts[s] = entries[m].counts[s]
      BY <2>4, <2>5 DEF NoEntry
    <3>2. ASSUME NEW s \in Severities
          PROVE  [m \in Names |-> entries'[m].counts[s]] = [m \in Names |-> entries[m].counts[s]]
      BY <3>1
    <3>3. QED
      BY <1>1, <2>2, <3>2 DEF Summed
  <2>8. Matches' /\ Provenance'
    BY <1>1, <2>1, <2>2 DEF Matches, Provenance, SameIssue
  <2>9. QED
    BY <2>1, <2>6, <2>7, <2>8, OpenBooks
<1>4. QED
  BY <1>2, <1>3

LEMMA DedupeBooks == IInv /\ Books /\ Dedupe => Books'
<1> SUFFICES ASSUME IInv, Books, Dedupe PROVE Books'
  OBVIOUS
<1> DEFINE i == records[next].issue
<1>1. /\ pc = "dedupe" /\ pc' = "dedupe" /\ next <= Len(records) /\ next' = next + 1
      /\ UNCHANGED <<request, working, todo, records, entries, overall, aggregated, answer>>
  BY DEF Dedupe, runs
<1>2. /\ records \in Seq([issue : Issue, by : Names]) /\ current \in Seq(Issue)
      /\ next \in DOMAIN records /\ DOMAIN records = 1..Len(records)
  BY <1>1 DEF IInv, Shapes
<1>3. i \in Issue
  <2>1. records[next] \in [issue : Issue, by : Names]
    BY <1>2, ElementTyped
  <2>2. QED
    BY <2>1
<1>4. Ledger /\ Summed /\ Matches /\ Provenance
  BY <1>1 DEF Books
<1> HIDE DEF i
<1>5. /\ \A k \in DOMAIN current : /\ k \in DOMAIN current'
                                   /\ current'[k].what = current[k].what
                                   /\ current'[k].line = current[k].line
      /\ \A k \in DOMAIN current' : k \in DOMAIN current \/ SameIssue(i, current'[k])
      /\ \E k \in DOMAIN current' : SameIssue(i, current'[k])
  <2>1. CASE \E k \in DOMAIN current : SameIssue(current[k], i)
    <3>1. current' = [k \in DOMAIN current |-> Escalated(current[k], i)]
      BY <2>1 DEF Dedupe, i
    <3>2. ASSUME NEW k \in DOMAIN current
          PROVE  current'[k].what = current[k].what /\ current'[k].line = current[k].line
      <4>1. current[k] \in Issue
        BY <1>2
      <4>2. QED
        BY <3>1, <4>1 DEF Escalated, Issue
    <3>3. DOMAIN current' = DOMAIN current
      BY <3>1
    <3>4. QED
      BY <2>1, <3>2, <3>3 DEF SameIssue
  <2>2. CASE ~\E k \in DOMAIN current : SameIssue(current[k], i)
    <3>1. current' = Append(current, i)
      BY <2>2 DEF Dedupe, i
    <3>2. /\ DOMAIN current = 1..Len(current) /\ Len(current) \in Nat
          /\ DOMAIN current' = 1..Len(current) + 1
          /\ current'[Len(current) + 1] = i
          /\ \A k \in 1..Len(current) : current'[k] = current[k]
      BY <1>2, <1>3, <3>1
    <3>3. QED
      BY <3>2 DEF SameIssue
  <2>3. QED
    BY <2>1, <2>2
<1>6. Provenance'
  <2>1. \A k \in DOMAIN current' : \E j \in DOMAIN records' : SameIssue(records'[j].issue, current'[k])
    <3> SUFFICES ASSUME NEW k \in DOMAIN current'
                 PROVE  \E j \in DOMAIN records : SameIssue(records[j].issue, current'[k])
      BY <1>1
    <3>1. CASE k \in DOMAIN current
      BY <1>4, <1>5, <3>1 DEF Provenance, SameIssue
    <3>2. CASE SameIssue(i, current'[k])
      BY <1>2, <3>2 DEF i
    <3>3. QED
      BY <1>5, <3>1, <3>2
  <2>2. \A j \in DOMAIN records' : j < next' =>
           \E k \in DOMAIN current' : SameIssue(records'[j].issue, current'[k])
    <3> SUFFICES ASSUME NEW j \in DOMAIN records, j < next + 1
                 PROVE  \E k \in DOMAIN current' : SameIssue(records[j].issue, current'[k])
      BY <1>1
    <3>1. CASE j = next
      BY <1>5, <3>1 DEF i
    <3>2. CASE j < next
      BY <1>1, <1>4, <1>5, <3>2 DEF Provenance, SameIssue
    <3>3. QED
      BY <1>2, <3>1, <3>2
  <2>3. QED
    BY <1>1, <2>1, <2>2 DEF Provenance
<1>7. Ledger' /\ Summed' /\ Matches'
  BY <1>1, <1>4 DEF Ledger, Summed, Matches
<1>8. QED
  BY <1>1, <1>6, <1>7, OpenBooks

LEMMA ClassifyBooks == IInv /\ Books /\ (AllRan \/ StartClassify \/ Classify \/ EndClassify) => Books'
<1> SUFFICES ASSUME IInv, Books, AllRan \/ StartClassify \/ Classify \/ EndClassify PROVE Books'
  OBVIOUS
<1>1. /\ UNCHANGED <<request, working, todo, records, entries, overall, current, answer>>
      /\ pc' # "done" /\ pc # "done"
  BY DEF AllRan, StartClassify, Classify, EndClassify, runs, comparison
<1>2. Ledger /\ Summed /\ Matches /\ Provenance
  BY <1>1 DEF Books
<1>3. Ledger' /\ Summed'
  BY <1>1, <1>2 DEF AllRan, StartClassify, Classify, EndClassify, Ledger, Summed
<1>4. CASE AllRan
  <2>1. UNCHANGED <<next, aggregated>> /\ pc = "run" /\ next = 1
    BY <1>4 DEF AllRan, IInv, Progress, comparison
  <2>a. pc' = IF request.delta THEN "dedupe" ELSE "strict"
    BY <1>4 DEF AllRan
  <2>b. DOMAIN records = 1..Len(records)
    BY DEF IInv, Shapes
  <2>2. Matches'
    BY <1>1, <1>2, <2>1, <2>a DEF Matches
  <2>3. Provenance'
    BY <1>1, <1>2, <2>1, <2>a, <2>b DEF Provenance
  <2>4. QED
    BY <1>1, <1>3, <2>2, <2>3, OpenBooks
<1>5. CASE StartClassify
  <2>1. /\ pc = "dedupe" /\ pc' = "classify" /\ next > Len(records) /\ aggregated' = <<>>
        /\ DOMAIN records = 1..Len(records) /\ Len(records) \in Nat /\ next \in Nat
    BY <1>5 DEF StartClassify, IInv, Shapes
  <2>2. \A j \in DOMAIN records : j < next
    BY <2>1
  <2>3. Matches' /\ Provenance'
    BY <1>1, <1>2, <2>1, <2>2 DEF Matches, Provenance
  <2>4. QED
    BY <1>1, <1>3, <2>3, OpenBooks
<1>6. CASE Classify
  <2>1. /\ pc = "classify" /\ pc' = "classify" /\ next \in DOMAIN current
        /\ aggregated \in Seq(Issue)
        /\ current[next] \in Issue
        /\ aggregated' = aggregated \/ aggregated' = Append(aggregated, current[next])
    BY <1>6 DEF Classify, IInv, Shapes
  <2>2. \A k \in DOMAIN aggregated' : \E j \in DOMAIN current : aggregated'[k] = current[j]
    <3>1. CASE aggregated' = aggregated
      BY <1>2, <2>1, <3>1 DEF Provenance
    <3>2. CASE aggregated' = Append(aggregated, current[next])
      <4>1. \A k \in DOMAIN aggregated' :
               (k \in DOMAIN aggregated /\ aggregated'[k] = aggregated[k]) \/ aggregated'[k] = current[next]
        BY <2>1, <3>2
      <4>2. QED
        BY <1>2, <2>1, <4>1 DEF Provenance
    <3>3. QED
      BY <2>1, <3>1, <3>2
  <2>3. Matches' /\ Provenance'
    BY <1>1, <1>2, <2>1, <2>2 DEF Matches, Provenance
  <2>4. QED
    BY <1>1, <1>3, <2>3, OpenBooks
<1>7. CASE EndClassify
  <2>1. pc = "classify" /\ pc' = "own" /\ UNCHANGED <<next, aggregated>>
    BY <1>7 DEF EndClassify, comparison
  <2>2. Matches' /\ Provenance'
    BY <1>1, <1>2, <2>1 DEF Matches, Provenance
  <2>3. QED
    BY <1>1, <1>3, <2>2, OpenBooks
<1>8. QED
  BY <1>4, <1>5, <1>6, <1>7

(* An issue that came from a report is owned by one of its reporters.      *)
LEMMA LeastIsThere ==
    ASSUME NEW T \in SUBSET Nat, T # {}
    PROVE  Min(T) \in T
<1>1. PICK n \in T : \A m \in T : ~ (<<m, n>> \in OpToRel(<, Nat))
  BY NatLessThanWellFounded, WFMin
<1>2. ASSUME NEW m \in T
      PROVE  n <= m
  <2>1. m \in Nat /\ n \in Nat
    OBVIOUS
  <2>2. ~ (m < n)
    BY <1>1, <2>1 DEF OpToRel
  <2>3. QED
    BY <2>1, <2>2
<1>3. QED
  BY <1>2 DEF Min

LEMMA OwnerReports ==
    ASSUME NEW i, records \in Seq([issue : Issue, by : Names]),
           \E j \in DOMAIN records : SameIssue(records[j].issue, i)
    PROVE  \E j \in DOMAIN records : Owner(i) = records[j].by
<1> DEFINE same == {k \in DOMAIN records : SameIssue(records[k].issue, i)}
           agreed == {k \in same : records[k].issue.severity = i.severity}
           S == IF agreed # {} THEN agreed ELSE same
<1>1. S \in SUBSET Nat /\ S # {} /\ S \subseteq DOMAIN records
  OBVIOUS
<1>2. Owner(i) = records[Min(S)].by
  BY DEF Owner
<1> HIDE DEF S
<1>3. Min(S) \in S
  BY <1>1, LeastIsThere
<1>4. QED
  BY <1>1, <1>2, <1>3

LEMMA OwnBooks == IInv /\ Books /\ Own => Books'
<1> SUFFICES ASSUME IInv, Books, Own PROVE Books'
  OBVIOUS
<1>1. /\ pc = "own" /\ pc' = "strict" /\ overall' = Count(aggregated)
      /\ entries' = [n \in Names |->
            IF entries[n].ok
            THEN [ok |-> TRUE,
                  counts |-> [s \in Severities |->
                     Cardinality({k \in DOMAIN aggregated :
                        aggregated[k].severity = s /\ n = Owner(aggregated[k])})]]
            ELSE entries[n]]
      /\ UNCHANGED <<request, working, todo, records, current, aggregated, answer>>
  BY DEF Own, Charge, Occurrences, comparison
<1>2. /\ records \in Seq([issue : Issue, by : Names]) /\ aggregated \in Seq(Issue)
      /\ DOMAIN aggregated = 1..Len(aggregated) /\ Len(aggregated) \in Nat
      /\ DOMAIN records = 1..Len(records)
  BY DEF IInv, Shapes
<1>3. Ledger /\ Summed /\ Matches /\ Provenance
  BY <1>1 DEF Books
<1> DEFINE Owned(n, s) == {k \in DOMAIN aggregated :
                              aggregated[k].severity = s /\ n = Owner(aggregated[k])}
<1>4. ASSUME NEW n \in Names, NEW s \in Severities
      PROVE  Cardinality(Owned(n, s)) \in Nat
  <2>1. Owned(n, s) \in SUBSET (1..Len(aggregated))
    BY <1>2
  <2> HIDE DEF Owned
  <2>2. QED
    BY <1>2, <2>1, OneMore
<1>5. ASSUME NEW k \in DOMAIN aggregated
      PROVE  Owner(aggregated[k]) \in Names /\ entries[Owner(aggregated[k])].ok
  <2>1. \E j \in DOMAIN records : SameIssue(records[j].issue, aggregated[k])
    BY <1>1, <1>3 DEF Provenance
  <2>2. PICK j \in DOMAIN records : Owner(aggregated[k]) = records[j].by
    BY <1>2, <2>1, OwnerReports
  <2>3. records[j] \in [issue : Issue, by : Names]
    BY <1>2, ElementTyped
  <2>4. QED
    BY <1>3, <2>2, <2>3 DEF Ledger
<1>6. ASSUME NEW n \in Names
      PROVE  /\ entries'[n] \in [ok : BOOLEAN, counts : Tally]
             /\ entries'[n].ok = entries[n].ok
             /\ ~entries[n].ok => entries'[n] = entries[n]
             /\ entries[n].ok => \A s \in Severities : entries'[n].counts[s] = Cardinality(Owned(n, s))
  <2>1. entries[n] \in [ok : BOOLEAN, counts : Tally]
    BY <1>3 DEF Ledger
  <2>2. entries'[n] = IF entries[n].ok
                      THEN [ok |-> TRUE, counts |-> [s \in Severities |-> Cardinality(Owned(n, s))]]
                      ELSE entries[n]
    BY <1>1
  <2> HIDE DEF Owned
  <2>3. [s \in Severities |-> Cardinality(Owned(n, s))] \in Tally
    BY <1>4 DEF Tally
  <2>4. CASE entries[n].ok
    <3> DEFINE c == [s \in Severities |-> Cardinality(Owned(n, s))]
    <3>1. entries'[n] = [ok |-> TRUE, counts |-> c] /\ c \in Tally
      BY <2>2, <2>3, <2>4
    <3>2. \A s \in Severities : c[s] = Cardinality(Owned(n, s))
      OBVIOUS
    <3> HIDE DEF c
    <3>3. QED
      BY <2>4, <3>1, <3>2
  <2>5. CASE ~entries[n].ok
    BY <2>1, <2>2, <2>5
  <2>6. QED
    BY <2>4, <2>5
<1>7. Ledger'
  <2>1. entries' \in [Names -> [ok : BOOLEAN, counts : Tally]]
    BY <1>1, <1>6
  <2>2. todo = <<>> /\ todo' = <<>>
    BY <1>1, <1>3 DEF Ledger
  <2>3. \A j \in DOMAIN records' : entries'[records'[j].by].ok
    <3> SUFFICES ASSUME NEW j \in DOMAIN records PROVE entries'[records[j].by].ok
      BY <1>1
    <3>1. records[j] \in [issue : Issue, by : Names]
      BY <1>2, ElementTyped
    <3>2. QED
      BY <1>3, <1>6, <3>1 DEF Ledger
  <2>4. \A n \in request'.asked : n \in Names /\ (n \in working' \/ ~entries'[n].ok)
    BY <1>1, <1>3, <1>6, <2>2 DEF Ledger
  <2>5. \A n \in Names : ~entries'[n].ok => entries'[n].counts = Nothing
    BY <1>3, <1>6 DEF Ledger
  <2>6. Ledger /\ UNCHANGED <<request, working, records>>
    BY <1>1, <1>3
  <2>7. QED
    BY <2>1, <2>2, <2>3, <2>4, <2>5, <2>6 DEF Ledger
<1>8. Summed'
  <2>1. ASSUME NEW s \in Severities
        PROVE  overall'[s] = Total([n \in Names |-> entries'[n].counts[s]])
    <3> DEFINE S == Having(aggregated, s)
               g == [k \in S |-> Owner(aggregated[k])]
               share == [n \in Names |-> entries'[n].counts[s]]
    <3>1. overall'[s] = Cardinality(S) /\ IsFiniteSet(S)
      BY <1>1, <1>2, CountIsHaving
    <3>2. S \subseteq DOMAIN aggregated
      BY DEF Having
    <3>3. g \in [S -> Names]
      BY <1>5, <3>2
    <3>4. share \in [Names -> Nat]
      BY <1>6 DEF Tally
    <3>5. ASSUME NEW n \in Names
          PROVE  share[n] = Cardinality({k \in S : g[k] = n})
      <4>1. {k \in S : g[k] = n} = Owned(n, s)
        BY DEF Having
      <4>2. CASE entries[n].ok
        BY <1>6, <4>1, <4>2
      <4>3. CASE ~entries[n].ok
        <5>1. Owned(n, s) = {}
          BY <1>5, <4>3
        <5>2. share[n] = 0
          BY <1>3, <1>6, <4>3 DEF Ledger, Nothing
        <5>3. QED
          BY <4>1, <5>1, <5>2, FS_EmptySet
      <4>4. QED
        BY <4>2, <4>3
    <3> HIDE DEF S, g, share
    <3>6. Shares(S, Names, g, share)
      BY <3>3, <3>4, <3>5 DEF Shares
    <3>7. Total(share) = Cardinality(S)
      BY <3>1, <3>6, SumOfFibres
    <3>8. QED
      BY <3>1, <3>7 DEF share
  <2>2. overall' \in Tally
    BY <1>1, <1>2, CountIsHaving
  <2>3. QED
    BY <2>1, <2>2 DEF Summed
<1>9. Matches' /\ Provenance'
  BY <1>1, <1>3 DEF Matches, Provenance
<1>10. QED
  BY <1>1, <1>7, <1>8, <1>9, OpenBooks

LEMMA StrictBooks == IInv /\ Books /\ Strict => Books'
<1> SUFFICES ASSUME IInv, Books, Strict PROVE Books'
  OBVIOUS
<1>1. /\ pc = "strict" /\ pc' = "cap"
      /\ \/ UNCHANGED <<overall, entries>>
         \/ /\ overall' = Fold(overall)
            /\ entries' = [n \in Names |-> [entries[n] EXCEPT !.counts = Fold(entries[n].counts)]]
      /\ UNCHANGED <<request, working, todo, records, current, aggregated, answer>>
  BY DEF Strict, comparison
<1>2. Ledger /\ Summed /\ Matches /\ Provenance
  BY <1>1 DEF Books
<1>3. /\ aggregated \in Seq(Issue) /\ records \in Seq([issue : Issue, by : Names])
      /\ DOMAIN records = 1..Len(records)
  BY DEF IInv, Shapes
<1>4. InAll(overall) = Len(aggregated) /\ overall \in Tally
  BY <1>1, <1>2, <1>3, CountIsLength DEF Matches, Summed
<1>5. CASE UNCHANGED <<overall, entries>>
  <2>1. Ledger' /\ Summed' /\ Matches' /\ Provenance'
    BY <1>1, <1>2, <1>4, <1>5 DEF Ledger, Summed, Matches, Provenance
  <2>2. QED
    BY <1>1, <2>1, OpenBooks
<1>6. CASE /\ overall' = Fold(overall)
           /\ entries' = [n \in Names |-> [entries[n] EXCEPT !.counts = Fold(entries[n].counts)]]
  <2>1. ASSUME NEW n \in Names
        PROVE  /\ entries[n] \in [ok : BOOLEAN, counts : Tally]
               /\ entries'[n] \in [ok : BOOLEAN, counts : Tally]
               /\ entries'[n].ok = entries[n].ok
               /\ entries'[n].counts = Fold(entries[n].counts)
    <3>1. entries[n] \in [ok : BOOLEAN, counts : Tally]
      BY <1>2 DEF Ledger
    <3>2. Fold(entries[n].counts) \in Tally
      BY <3>1, BooksArithmetic
    <3>3. entries'[n] = [entries[n] EXCEPT !.counts = Fold(entries[n].counts)]
      BY <1>6
    <3>4. QED
      BY <3>1, <3>2, <3>3
  <2>2. Fold(Nothing) = Nothing
    BY DEF Fold, Nothing, Severities
  <2>3. Ledger'
    <3>1. entries' \in [Names -> [ok : BOOLEAN, counts : Tally]]
      BY <1>6, <2>1
    <3>2. todo = <<>> /\ todo' = <<>>
      BY <1>1, <1>2 DEF Ledger
    <3>3. \A j \in DOMAIN records' : entries'[records'[j].by].ok
      <4> SUFFICES ASSUME NEW j \in DOMAIN records PROVE entries'[records[j].by].ok
        BY <1>1
      <4>1. records[j] \in [issue : Issue, by : Names]
        BY <1>3, ElementTyped
      <4>2. QED
        BY <1>2, <2>1, <4>1 DEF Ledger
    <3>4. \A n \in request'.asked : n \in Names /\ (n \in working' \/ ~entries'[n].ok)
      BY <1>1, <1>2, <2>1, <3>2 DEF Ledger
    <3>5. \A n \in Names : ~entries'[n].ok => entries'[n].counts = Nothing
      BY <1>2, <2>1, <2>2 DEF Ledger
    <3>6. QED
      BY <1>1, <1>2, <3>1, <3>2, <3>3, <3>4, <3>5 DEF Ledger
  <2>4. Summed'
    <3> DEFINE Sum(s) == [n \in Names |-> entries[n].counts[s]]
               after(s) == [n \in Names |-> Fold(entries[n].counts)[s]]
    <3>1. overall["error"] = Total(Sum("error")) /\ overall["warning"] = Total(Sum("warning"))
          /\ overall["info"] = Total(Sum("info"))
      BY <1>2 DEF Summed, Severities
    <3>2. ASSUME NEW n \in Names, NEW s \in Severities
          PROVE  entries[n].counts[s] \in Nat
      BY <2>1 DEF Tally
    <3>3. Adds(Names, after("error"), Sum("error"), Sum("warning"))
      BY <3>2 DEF Adds, Fold, Severities
    <3>4. after("info") = Sum("info") /\ after("warning") = [n \in Names |-> 0]
      BY DEF Fold
    <3>5. Total(after("warning")) = 0
      BY <3>4, TotalOfNothing
    <3> HIDE DEF Sum, after
    <3>6. Total(after("error")) = Total(Sum("error")) + Total(Sum("warning"))
      BY <3>3, NamesAreFinite, TotalIsAdded
    <3>7. ASSUME NEW s \in Severities
          PROVE  overall'[s] = Total(after(s))
      BY <1>6, <3>1, <3>4, <3>5, <3>6 DEF Fold, Severities
    <3>8. ASSUME NEW s \in Severities
          PROVE  after(s) = [n \in Names |-> entries'[n].counts[s]]
      BY <2>1 DEF after
    <3>9. overall' \in Tally
      BY <1>4, <1>6, BooksArithmetic
    <3>10. QED
      BY <3>7, <3>8, <3>9 DEF Summed
  <2>5. InAll(overall') = Len(aggregated)
    BY <1>4, <1>6, BooksArithmetic
  <2>6. Matches' /\ Provenance'
    BY <1>1, <1>2, <2>5 DEF Matches, Provenance
  <2>7. QED
    BY <1>1, <2>3, <2>4, <2>6, OpenBooks
<1>7. QED
  BY <1>1, <1>5, <1>6

(* What Answer chooses: how bad an issue must be to be shown, how many of  *)
(* those are returned, and which form of the answer fits.                  *)
Shown(floor) == {k \in DOMAIN aggregated : Rank[aggregated[k].severity] >= Rank[floor]}

Reply(full, floor, total, kept) ==
    /\ full = [kind |-> "full", ok |-> AllOk, floor |-> floor, total |-> total,
               truncated |-> total > kept, returned |-> kept]
    /\ answer' \in {full,
                    [full EXCEPT !.kind = "counts", !.returned = 0],
                    [full EXCEPT !.kind = "dropped", !.returned = 0],
                    [NoAnswer EXCEPT !.kind = "fallback"]}

Replies(floor, limit) ==
    \E total, kept, full :
        /\ total = Cardinality(Shown(floor))
        /\ kept = IF limit >= 0 /\ total > limit THEN limit ELSE total
        /\ Reply(full, floor, total, kept)

LEMMA AnswerIsReply ==
    ASSUME Answer
    PROVE  \E floor \in Severities, limit \in Limits : Replies(floor, limit)
BY DEF Answer, Occurrences, Shown, Reply, Replies

(* The answer: its numbers are those of the books, and if they are all 0   *)
(* and nothing failed, there was nothing to report.                        *)
LEMMA AnswerReconciles == IInv /\ Books /\ Answer => CountsReconcile'
<1> SUFFICES ASSUME IInv, Books, Answer, answer'.kind \notin {"error", "fallback"}
             PROVE  /\ \A s \in Severities : overall'[s] = Total([n \in Names |-> entries'[n].counts[s]])
                    /\ answer'.floor = "info" =>
                          /\ answer'.total = InAll(overall')
                          /\ answer'.kind = "full" /\ ~answer'.truncated =>
                                answer'.returned = InAll(overall')
  BY DEF CountsReconcile
<1>1. pc = "cap" /\ UNCHANGED <<entries, overall>>
  BY DEF Answer, runs
<1>2. Summed /\ Matches
  BY <1>1 DEF Books
<1>3. aggregated \in Seq(Issue) /\ DOMAIN aggregated = 1..Len(aggregated) /\ Len(aggregated) \in Nat
  BY DEF IInv, Shapes
<1>4. InAll(overall) = Len(aggregated)
  BY <1>1, <1>2 DEF Matches
<1>5a. PICK floor \in Severities, limit \in Limits : Replies(floor, limit)
  BY AnswerIsReply
<1>5. PICK total, kept, full :
         /\ total = Cardinality(Shown(floor))
         /\ kept = IF limit >= 0 /\ total > limit THEN limit ELSE total
         /\ Reply(full, floor, total, kept)
  BY <1>5a DEF Replies
<1>6. Shown("info") = 1..Len(aggregated)
  <2>1. ASSUME NEW k \in 1..Len(aggregated)
        PROVE  Rank[aggregated[k].severity] >= Rank["info"]
    <3>1. aggregated[k].severity \in Severities
      <4>1. aggregated[k] \in Issue
        BY <1>3, ElementTyped
      <4>2. QED
        BY <4>1 DEF Issue
    <3>2. QED
      BY <3>1 DEF Rank, Severities
  <2>2. QED
    BY <1>3, <2>1 DEF Shown
<1>7. Cardinality(1..Len(aggregated)) = Len(aggregated)
  BY <1>3, UpTo
<1>9. answer'.kind # "error" /\ answer'.floor = floor /\ answer'.total = total
      /\ (answer'.kind = "full" /\ ~answer'.truncated => answer'.returned = kept /\ ~(total > kept))
  <2> DEFINE more == total > kept
  <2>1. /\ full = [kind |-> "full", ok |-> AllOk, floor |-> floor, total |-> total,
                   truncated |-> more, returned |-> kept]
        /\ answer' \in {full,
                        [full EXCEPT !.kind = "counts", !.returned = 0],
                        [full EXCEPT !.kind = "dropped", !.returned = 0],
                        [NoAnswer EXCEPT !.kind = "fallback"]}
    BY <1>5 DEF Reply
  <2>2. CASE answer' = full
    <3>1. full.kind = "full" /\ full.floor = floor /\ full.total = total /\ full.returned = kept
      BY <2>1
    <3>2. full.truncated = more
      BY <2>1, Zenon
    <3>3. QED
      BY <2>2, <3>1, <3>2
  <2>3. CASE answer' = [full EXCEPT !.kind = "counts", !.returned = 0]
    <3>1. answer'.kind = "counts" /\ answer'.floor = floor /\ answer'.total = total
      BY <2>1, <2>3
    <3>2. QED
      BY <3>1
  <2>4. CASE answer' = [full EXCEPT !.kind = "dropped", !.returned = 0]
    <3>1. answer'.kind = "dropped" /\ answer'.floor = floor /\ answer'.total = total
      BY <2>1, <2>4
    <3>2. QED
      BY <3>1
  <2>5. CASE answer' = [NoAnswer EXCEPT !.kind = "fallback"]
    <3>1. answer'.kind = "fallback"
      BY <2>5 DEF NoAnswer
    <3>2. QED
      BY <3>1
  <2>6. QED
    BY <2>1, <2>2, <2>3, <2>4, <2>5
<1>10. floor = "info" => total = Len(aggregated)
  BY <1>5, <1>6, <1>7
<1>11. floor = "info" /\ ~(total > kept) => kept = total
  <2>1. limit \in Int
    BY LimitsTyped
  <2>2. QED
    BY <1>3, <1>5, <1>10, <2>1
<1>12. QED
  BY <1>1, <1>2, <1>4, <1>9, <1>10, <1>11 DEF Summed

LEMMA AnswerIsClean == IInv /\ Books /\ Answer => CleanMeansClean'
<1> SUFFICES ASSUME IInv, Books, Answer, answer'.ok, InAll(overall') = 0, unclassified' = 0
             PROVE  /\ request'.asked \subseteq working'
                    /\ \A k \in DOMAIN records' :
                          /\ request'.delta
                          /\ \E key \in Keys : key[3] = records'[k].issue.what /\ prepared'[key] > 0
  BY DEF CleanMeansClean
<1>1. /\ pc = "cap"
      /\ UNCHANGED <<request, working, todo, records, entries, overall, prepared, current, next,
                     aggregated, unclassified>>
  BY DEF Answer, runs, comparison
<1>2. Ledger /\ Matches /\ Provenance
  BY <1>1 DEF Books
<1>3. AllOk
  <2>1. PICK floor, total, kept, full : Reply(full, floor, total, kept)
    BY AnswerIsReply DEF Replies
  <2>2. /\ full = [kind |-> "full", ok |-> AllOk, floor |-> floor, total |-> total,
                   truncated |-> total > kept, returned |-> kept]
        /\ answer' \in {full,
                        [full EXCEPT !.kind = "counts", !.returned = 0],
                        [full EXCEPT !.kind = "dropped", !.returned = 0],
                        [NoAnswer EXCEPT !.kind = "fallback"]}
    BY <2>1 DEF Reply
  <2>3. full.ok = AllOk
    BY <2>2, Zenon
  <2>4. answer'.ok = full.ok \/ answer'.ok = NoAnswer.ok
    BY <2>2 DEF NoAnswer
  <2>5. ~NoAnswer.ok
    BY DEF NoAnswer
  <2>6. QED
    BY <2>3, <2>4, <2>5
<1>4. request.asked \subseteq working
  BY <1>1, <1>2, <1>3 DEF Ledger, AllOk
<1>5. /\ records \in Seq([issue : Issue, by : Names]) /\ DOMAIN records = 1..Len(records)
      /\ current \in Seq(Issue) /\ DOMAIN current = 1..Len(current)
      /\ Len(aggregated) \in Nat /\ prepared \in [Keys -> Nat] /\ next \in Nat
  BY DEF IInv, Shapes
<1>6. Len(aggregated) = 0
  BY <1>1, <1>2 DEF Matches
<1>7. ASSUME NEW k \in DOMAIN records
      PROVE  /\ request.delta
             /\ \E key \in Keys : key[3] = records[k].issue.what /\ prepared[key] > 0
  <2>1. request.delta
    BY <1>2, <1>5, <1>6 DEF Matches
  <2>2. PICK j \in DOMAIN current : SameIssue(records[k].issue, current[j])
    BY <1>1, <1>2, <2>1 DEF Provenance
  <2> DEFINE key == DeltaKey(current[j])
  <2>3. /\ next - 1 = Len(current) /\ unclassified = Cardinality(LostAt)
        /\ \A key_1 \in Keys : Balanced(key_1)
    BY <1>1, <2>1 DEF IInv, Progress, Compared
  <2>4. current[j] \in Issue /\ j \in 1..next - 1
    BY <1>5, <2>3, ElementTyped
  <2>5. key \in Keys /\ key[3] = current[j].what
    BY <2>4, KeyTyped DEF DeltaKey
  <2>6. next - 1 \in Nat /\ LostAt \in SUBSET (1..next - 1) /\ NowAt(key) \in SUBSET (1..next - 1)
    BY <1>5, <2>3 DEF LostAt, NowAt
  <2>7. Placed(current[j])
    <3>1. LostAt = {}
      <4>1. IsFiniteSet(LostAt) /\ Cardinality(LostAt) = 0
        BY <1>1, <2>3, <2>6, OneMore
      <4>2. QED
        BY <4>1, FS_EmptySet
    <3>2. QED
      BY <2>4, <3>1 DEF LostAt
  <2> HIDE DEF key
  <2>8. Cardinality(NowAt(key)) > 0
    <3>1. j \in NowAt(key)
      BY <2>4, <2>7 DEF NowAt, key
    <3>2. IsFiniteSet(NowAt(key)) /\ Cardinality(NowAt(key)) \in Nat
      BY <2>6, OneMore
    <3>3. Cardinality(NowAt(key)) # 0
      BY <3>1, <3>2, FS_EmptySet
    <3>4. QED
      BY <3>2, <3>3
  <2>9. Cardinality(NewAt(key)) = 0
    <3>1. NewAt(key) = {}
      BY <1>6 DEF NewAt
    <3>2. QED
      BY <3>1, FS_EmptySet
  <2>10. prepared[key] > 0
    <3>1. Balanced(key) /\ prepared[key] \in Nat /\ Cardinality(NowAt(key)) \in Nat
      BY <1>5, <2>3, <2>5, <2>6, OneMore
    <3>2. QED
      BY <2>8, <2>9, <3>1 DEF Balanced
  <2>11. QED
    BY <2>1, <2>2, <2>5, <2>10 DEF SameIssue
<1>8. QED
  BY <1>1, <1>4, <1>7

LEMMA StepBooks == IInv /\ Books /\ [Next]_vars => Books'
<1> SUFFICES ASSUME IInv, Books, [Next]_vars PROVE Books'
  OBVIOUS
<1>1. CASE Refuse
  BY <1>1, RefusedBooks DEF Refuse
<1>2. CASE Answer
  <2>1. pc' = "done"
    BY <1>2 DEF Answer
  <2>2. QED
    BY <1>2, <2>1, AnswerReconciles, AnswerIsClean DEF Books
<1>3. CASE UNCHANGED vars
  BY <1>3 DEF vars, Books, Ledger, Summed, Matches, Provenance, SameIssue, CountsReconcile, CleanMeansClean
<1>4. QED
  BY <1>1, <1>2, <1>3, PrepareBooks, RunBooks, FailedBooks, ClassifyBooks, DedupeBooks, OwnBooks,
     StrictBooks DEF Next

LEMMA BooksAreKept == Spec => []Books
<1>1. IInv /\ Books /\ [Next]_vars => (IInv /\ Books)'
  BY StepIInv, StepBooks
<1>2. Init => IInv /\ Books
  BY InitIInv, InitBooks
<1>3. QED
  BY <1>1, <1>2, PTL DEF Spec

(* Whatever mode a call runs in, the breakdown of its answer sums to the   *)
(* totals and the totals count the issues it is about, for any validators  *)
(* and issues and without a bound on their number (validate_tool,          *)
(* count_severities, filter_and_cap).                                      *)
THEOREM AnswersReconcile == Spec => []CountsReconcile
<1>1. Books => CountsReconcile
  BY DEF Books
<1>2. QED
  BY BooksAreKept, <1>1, PTL

(* A call that answers ok with nothing found ran every validator it was    *)
(* asked for, and the snapshot accounts for whatever they reported.        *)
THEOREM CleanAnswersAreClean == Spec => []CleanMeansClean
<1>1. Books => CleanMeansClean
  BY DEF Books
<1>2. QED
  BY BooksAreKept, <1>1, PTL

=============================================================================
