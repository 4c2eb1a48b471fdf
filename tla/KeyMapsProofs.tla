--------------------------- MODULE KeyMapsProofs ---------------------------
(***************************************************************************)
(* Who owns a key or a path.  The incremental rebuild of an index is the   *)
(* full rebuild, for any files, keys and records and any sequence of       *)
(* refreshes; and for any question, stubs of localisation tell what is     *)
(* missing, a finding is attributed to the only file it can name, a rename *)
(* plan reads each path where the game does, references, their totals and  *)
(* the names reported as unused agree, an audit tells what it misses, and  *)
(* a merge loses nothing.                                                  *)
(***************************************************************************)
EXTENDS KeyMaps, Answers, Ranks, FiniteSetTheorems, FunctionTheorems, SequenceTheorems,
        WellFoundedInduction, TLAPS

LEMMA LastIsLast ==
  ASSUME NEW S \in SUBSET Files, S # {}
  PROVE  Last(S) \in S /\ \A f \in S : f <= Last(S)
  BY FilesOrdered DEF Last

LEMMA BlankIsText == Blank \in Texts
  BY SomeText DEF Blank

(* The records a file has after a patch.                                   *)
After(moved, now) == [f \in Files |-> IF f \in moved THEN now[f] ELSE byFile[f]]

(* Patched or not, the old winner and shadowed files add up to every       *)
(* definition of the key.                                                  *)
LEMMA ContributorsAreDefiners ==
  ASSUME byFile \in [Files -> Contents], PatchedIsRebuilt,
         NEW moved \in SUBSET Files, NEW now \in [moved -> Contents], NEW k \in Keys
  PROVE  /\ \A f \in Files : Contributors(moved, now, k)[f] = After(moved, now)[f][k].n
         /\ Contributing(moved, now, k) = Definers(After(moved, now), k)
  <1>1. ASSUME NEW f \in Files
        PROVE  Contributors(moved, now, k)[f] = After(moved, now)[f][k].n
    <2>1. CASE f \in moved
      BY <2>1 DEF Contributors, After
    <2>2. CASE f \notin moved
      <3>1. After(moved, now)[f][k].n = byFile[f][k].n /\ byFile[f][k].n \in Nat
        BY <2>2 DEF After, Contents, Defs
      <3>2. byKey[k] = FullWinner(byFile, k) /\ shadowed[k] = FullShadowed(byFile, k)
        BY DEF PatchedIsRebuilt
      <3>3. CASE f = byKey[k].file
        <4>1. shadowed[k][f] = byFile[f][k].n - 1
          BY <3>2, <3>3 DEF FullShadowed
        <4> QED
          BY <2>2, <3>1, <3>3, <4>1 DEF Contributors
      <3>4. CASE f # byKey[k].file
        <4>1. shadowed[k][f] = byFile[f][k].n
          BY <3>2, <3>4 DEF FullShadowed
        <4> QED
          BY <2>2, <3>1, <3>4, <4>1 DEF Contributors
      <3> QED
        BY <3>3, <3>4
    <2> QED
      BY <2>1, <2>2
  <1> QED
    BY <1>1 DEF Contributing, Definers

LEMMA PatchTouchedKey ==
  ASSUME byFile \in [Files -> Contents], PatchedIsRebuilt,
         NEW moved \in SUBSET Files, NEW now \in [moved -> Contents], NEW k \in Keys
  PROVE  /\ PatchedWinner(moved, now, k) = FullWinner(After(moved, now), k)
         /\ PatchedShadowed(moved, now, k) = FullShadowed(After(moved, now), k)
  <1> DEFINE C == Contributing(moved, now, k)
             A == After(moved, now)
  <1>1. C = Definers(A, k) /\ \A f \in Files : Contributors(moved, now, k)[f] = A[f][k].n
    BY ContributorsAreDefiners
  <1>2. CASE C = {}
    <2>1. FullWinner(A, k) = NoRecord
      BY <1>1, <1>2 DEF FullWinner
    <2>2. PatchedShadowed(moved, now, k) = FullShadowed(A, k)
      BY <1>1, <1>2, <2>1, FilesOrdered DEF PatchedShadowed, FullShadowed, NoRecord
    <2> QED
      BY <1>2, <2>1, <2>2 DEF PatchedWinner
  <1>3. CASE C # {}
    <2>1. C \in SUBSET Files /\ Last(C) \in C /\ Last(C) \in Files
      BY <1>3, LastIsLast DEF Contributing
    <2>2. FullWinner(A, k) = [file |-> Last(C), text |-> A[Last(C)][k].last]
      BY <1>1, <1>3 DEF FullWinner
    <2>3. PatchedShadowed(moved, now, k) = FullShadowed(A, k)
      BY <1>1, <1>3, <2>2 DEF PatchedShadowed, FullShadowed
    <2>4. PatchedWinner(moved, now, k) = FullWinner(A, k)
      <3>1. CASE byKey[k].file = Last(C) /\ Last(C) \notin moved
        <4>1. PatchedWinner(moved, now, k) = byKey[k]
          BY <1>3, <3>1 DEF PatchedWinner
        <4>2. byKey[k] = FullWinner(byFile, k)
          BY DEF PatchedIsRebuilt
        <4>3. Last(C) # 0
          BY <2>1, FilesOrdered
        <4>4. byKey[k] = [file |-> Last(C), text |-> byFile[Last(C)][k].last]
          BY <3>1, <4>2, <4>3 DEF FullWinner, NoRecord
        <4>5. A[Last(C)] = byFile[Last(C)]
          BY <2>1, <3>1 DEF After
        <4> QED
          BY <2>2, <4>1, <4>4, <4>5
      <3>2. CASE ~(byKey[k].file = Last(C) /\ Last(C) \notin moved)
        <4>1. PatchedWinner(moved, now, k) =
                [file |-> Last(C),
                 text |-> IF Last(C) \in moved THEN now[Last(C)][k].last
                          ELSE byFile[Last(C)][k].last]
          BY <1>3, <3>2 DEF PatchedWinner
        <4> QED
          BY <2>1, <2>2, <4>1 DEF After
      <3> QED
        BY <3>1, <3>2
    <2> QED
      BY <2>3, <2>4
  <1> QED
    BY <1>2, <1>3

(* A key no moved file defined or defines keeps its winner and its shadows. *)
LEMMA UntouchedKey ==
  ASSUME byFile \in [Files -> Contents],
         NEW moved \in SUBSET Files, NEW now \in [moved -> Contents],
         NEW k \in Keys, k \notin Touched(moved, now)
  PROVE  /\ FullWinner(After(moved, now), k) = FullWinner(byFile, k)
         /\ FullShadowed(After(moved, now), k) = FullShadowed(byFile, k)
  <1> DEFINE A == After(moved, now)
  <1>1. \A f \in moved : byFile[f][k].n = 0 /\ now[f][k].n = 0
    BY DEF Touched, Contents, Defs
  <1>2. \A f \in Files : A[f][k].n = byFile[f][k].n
    BY <1>1 DEF After
  <1>3. Definers(A, k) = Definers(byFile, k)
    BY <1>2 DEF Definers
  <1>4. \A f \in Definers(byFile, k) : f \in Files /\ A[f] = byFile[f]
    BY <1>1 DEF Definers, After
  <1>5. FullWinner(A, k) = FullWinner(byFile, k)
    <2>1. CASE Definers(byFile, k) = {}
      BY <1>3, <2>1 DEF FullWinner
    <2>2. CASE Definers(byFile, k) # {}
      <3>1. Last(Definers(byFile, k)) \in Definers(byFile, k)
        BY <2>2, LastIsLast DEF Definers
      <3> QED
        BY <1>3, <1>4, <2>2, <3>1 DEF FullWinner
    <2> QED
      BY <2>1, <2>2
  <1> QED
    BY <1>2, <1>5 DEF FullShadowed

LEMMA PatchIsRebuild ==
  ASSUME byFile \in [Files -> Contents], PatchedIsRebuilt,
         NEW moved \in SUBSET Files, NEW now \in [moved -> Contents], Patch(moved, now)
  PROVE  PatchedIsRebuilt'
  <1>1. byFile' = After(moved, now)
    BY DEF Patch, After
  <1>2. ASSUME NEW k \in Keys
        PROVE  /\ byKey'[k] = FullWinner(After(moved, now), k)
               /\ shadowed'[k] = FullShadowed(After(moved, now), k)
    <2>1. CASE k \in Touched(moved, now)
      BY <2>1, PatchTouchedKey DEF Patch
    <2>2. CASE k \notin Touched(moved, now)
      BY <2>2, UntouchedKey DEF Patch, PatchedIsRebuilt
    <2> QED
      BY <2>1, <2>2
  <1>3. ASSUME NEW k \in Keys
        PROVE  /\ FullWinner(byFile', k) = FullWinner(byFile, k)'
               /\ FullShadowed(byFile', k) = FullShadowed(byFile, k)'
    BY DEF FullWinner, FullShadowed, Definers
  <1> QED
    BY <1>1, <1>2, <1>3 DEF PatchedIsRebuilt

LEMMA SmallIsAny == [Keys -> SmallDefs] \subseteq Contents
  BY BlankIsText, DefBound DEF SmallDefs, Contents, Defs

LEMMA LoadIsRebuild ==
  ASSUME NEW contents \in [Files -> Contents], Load(contents)
  PROVE  PatchedIsRebuilt'
  BY DEF Load, PatchedIsRebuilt, FullWinner, FullShadowed, Definers

(* The winner of every key is a definer, so every shadowed count is a      *)
(* natural number: the maps of a full rebuild are well typed.              *)
LEMMA FullIsTyped ==
  ASSUME NEW contents \in [Files -> Contents], NEW k \in Keys
  PROVE  FullWinner(contents, k) \in Winners /\ FullShadowed(contents, k) \in [Files -> Nat]
  <1>1. \A f \in Files : contents[f][k].n \in Nat /\ contents[f][k].last \in Texts
    BY DEF Contents, Defs
  <1>2. CASE Definers(contents, k) = {}
    <2>1. FullWinner(contents, k) = NoRecord
      BY <1>2 DEF FullWinner
    <2>2. \A f \in Files : f # 0
      BY FilesOrdered
    <2> QED
      BY <1>1, <2>1, <2>2 DEF Winners, FullShadowed, NoRecord
  <1>3. CASE Definers(contents, k) # {}
    <2> DEFINE last == Last(Definers(contents, k))
    <2>1. last \in Files /\ contents[last][k].n > 0
      BY <1>3, LastIsLast DEF Definers
    <2>2. FullWinner(contents, k) = [file |-> last, text |-> contents[last][k].last]
      BY <1>3 DEF FullWinner
    <2>3. FullWinner(contents, k).file = last
      BY <2>2
    <2>4. \A f \in Files : f = last => contents[f][k].n - 1 \in Nat
      BY <1>1, <2>1
    <2> QED
      BY <1>1, <2>1, <2>2, <2>3, <2>4 DEF Winners, FullShadowed
  <1> QED
    BY <1>2, <1>3

IInv ==
    /\ PatchedIsRebuilt
    /\ byFile \in [Files -> Contents]
    /\ byKey = [k \in Keys |-> byKey[k]]
    /\ shadowed = [k \in Keys |-> shadowed[k]]
    /\ loaded \in BOOLEAN

LEMMA InitRebuilt == Init => IInv
  <1> SUFFICES ASSUME Init PROVE IInv
    OBVIOUS
  <1>1. Nothing \in Contents
    BY BlankIsText DEF Nothing, Contents, Defs
  <1>2. \A k \in Keys : Definers(byFile, k) = {}
    BY DEF Init, Definers, Nothing
  <1>3. \A k \in Keys : FullWinner(byFile, k) = NoRecord
    BY <1>2 DEF FullWinner
  <1>4. \A f \in Files : f # 0
    BY FilesOrdered
  <1>5. \A k \in Keys : FullShadowed(byFile, k) = [f \in Files |-> 0]
    BY <1>3, <1>4 DEF FullShadowed, NoRecord, Init, Nothing
  <1> QED
    BY <1>1, <1>3, <1>5 DEF IInv, Init, PatchedIsRebuilt

LEMMA StepRebuilt == IInv /\ [Next]_vars => IInv'
  <1> SUFFICES ASSUME IInv, [Next]_vars PROVE IInv'
    OBVIOUS
  <1>1. CASE \E contents \in [Files -> [Keys -> SmallDefs]] : Load(contents)
    <2>1. PICK contents \in [Files -> Contents] : Load(contents)
      BY <1>1, SmallIsAny
    <2> QED
      BY <2>1, LoadIsRebuild DEF IInv, Load
  <1>2. CASE \E moved \in SUBSET Files : \E now \in [moved -> [Keys -> SmallDefs]] :
               Patch(moved, now)
    <2>1. PICK moved \in SUBSET Files : \E now \in [moved -> Contents] : Patch(moved, now)
      BY <1>2, SmallIsAny
    <2>2. PICK now \in [moved -> Contents] : Patch(moved, now)
      BY <2>1
    <2>3. PatchedIsRebuilt'
      BY <2>2, PatchIsRebuild DEF IInv
    <2>4. byFile' \in [Files -> Contents] /\ loaded' \in BOOLEAN
      BY <2>2 DEF Patch, IInv
    <2>5. byKey' = [k \in Keys |-> byKey'[k]] /\ shadowed' = [k \in Keys |-> shadowed'[k]]
      BY <2>2 DEF Patch
    <2> QED
      BY <2>3, <2>4, <2>5 DEF IInv
  <1>3. CASE UNCHANGED vars
    <2>1. byFile' = byFile /\ byKey' = byKey /\ shadowed' = shadowed /\ loaded' = loaded
      BY <1>3 DEF vars
    <2>2. ASSUME NEW k \in Keys
          PROVE  /\ FullWinner(byFile', k) = FullWinner(byFile, k)'
                 /\ FullShadowed(byFile', k) = FullShadowed(byFile, k)'
      BY DEF FullWinner, FullShadowed, Definers
    <2>3. PatchedIsRebuilt'
      BY <2>1, <2>2 DEF IInv, PatchedIsRebuilt
    <2> QED
      BY <2>1, <2>3 DEF IInv
  <1> QED
    BY <1>1, <1>2, <1>3 DEF Next

(* After any load and any sequence of refreshes, the patched maps are the  *)
(* maps a full rebuild over the same files would give                      *)
(* (_rebuild_incremental against _rebuild_full).                           *)
THEOREM IncrementalIsFull == Spec => []PatchedIsRebuilt
  <1>1. IInv => PatchedIsRebuilt
    BY DEF IInv
  <1> QED
    BY InitRebuilt, StepRebuilt, <1>1, PTL DEF Spec

(* The maps keep their types: no shadowed list ever has a negative count.  *)
THEOREM TypeCorrect == Spec => []TypeOK
  <1>1. IInv => TypeOK
    <2> SUFFICES ASSUME IInv PROVE TypeOK
      OBVIOUS
    <2>1. \A k \in Keys : byKey[k] \in Winners /\ shadowed[k] \in [Files -> Nat]
      BY FullIsTyped DEF IInv, PatchedIsRebuilt
    <2> QED
      BY <2>1 DEF IInv, TypeOK
  <1> QED
    BY InitRebuilt, StepRebuilt, <1>1, PTL DEF Spec

-----------------------------------------------------------------------------
(* Least numbers, counting and ranks, for the rest of the module.          *)
LEMMA LeastNumber ==
  ASSUME NEW T \in SUBSET Nat, T # {}
  PROVE  \E n \in T : \A m \in T : n <= m
  <1>1. PICK n \in T : \A m \in T : ~ (<<m, n>> \in OpToRel(<, Nat))
    BY NatLessThanWellFounded, WFMin
  <1>2. \A m \in T : ~(m < n)
    BY <1>1 DEF OpToRel
  <1> QED
    BY <1>2

LEMMA CountsUp ==
  ASSUME NEW n \in Nat, NEW T, 0 \in T, \A k \in 0..(n - 1) : k \in T => k + 1 \in T
  PROVE  0..n \subseteq T
  <1> SUFFICES ASSUME (0..n) \ T # {} PROVE FALSE
    OBVIOUS
  <1>1. PICK m \in (0..n) \ T : \A k \in (0..n) \ T : m <= k
    <2>1. (0..n) \ T \in SUBSET Nat
      OBVIOUS
    <2> QED
      BY <2>1, LeastNumber
  <1>2. m # 0 /\ m - 1 \in 0..(n - 1) /\ (m - 1) + 1 = m
    BY <1>1
  <1>3. m - 1 \in T
    BY <1>1, <1>2
  <1> QED
    BY <1>1, <1>2, <1>3

(* A set below every element, which orders them.                           *)
IsOrder(S, below) ==
    /\ \A x \in S : below[x] \subseteq S /\ x \notin below[x]
    /\ \A x, y \in S : x \in below[y] => below[x] \subseteq below[y]
    /\ \A x, y \in S : x # y => x \in below[y] \/ y \in below[x]

(* A sequence by rank lists its set.                                       *)
LEMMA RankedIsEnumeration ==
  ASSUME NEW S, IsFiniteSet(S), NEW below, IsOrder(S, below)
  PROVE  LET n == Cardinality(S)
             s == Ranked(S, below)
         IN  /\ n \in Nat /\ DOMAIN s = 1..n /\ s \in Seq(S) /\ Len(s) = n
             /\ \A i \in 1..n : s[i] \in S
             /\ \A x \in S : \E i \in 1..n : s[i] = x
             /\ \A i, j \in 1..n : s[i] = s[j] => i = j
             /\ \A i \in 1..n : Cardinality(below[s[i]]) = i - 1
             /\ \A i, j \in 1..n : s[i] \in below[s[j]] <=> i < j
  <1> DEFINE n == Cardinality(S)
             rank == [x \in S |-> Cardinality(below[x])]
             At(i) == CHOOSE x \in S : Cardinality(below[x]) = i - 1
             s == Ranked(S, below)
  <1>1. n \in Nat
    BY FS_CardinalityType
  <1>2. ASSUME NEW x \in S PROVE IsFiniteSet(below[x]) /\ rank[x] \in 0..(n - 1)
    <2>1. below[x] \in SUBSET S /\ x \notin below[x]
      BY DEF IsOrder
    <2>2. IsFiniteSet(below[x]) /\ Cardinality(below[x]) <= n /\ Cardinality(below[x]) # n
      BY <2>1, FS_Subset
    <2>3. Cardinality(below[x]) \in Nat
      BY <2>2, FS_CardinalityType
    <2> QED
      BY <1>1, <2>2, <2>3
  <1>3. ASSUME NEW x \in S, NEW y \in S, x \in below[y] PROVE rank[x] < rank[y]
    <2>1. below[x] \in SUBSET below[y] /\ x \in below[y] /\ x \notin below[x]
      BY <1>3 DEF IsOrder
    <2>2. Cardinality(below[x]) <= Cardinality(below[y]) /\ Cardinality(below[x]) # Cardinality(below[y])
      <3>1. IsFiniteSet(below[y])
        BY <1>2
      <3> QED
        BY <2>1, <3>1, FS_Subset
    <2>3. rank[x] \in Int /\ rank[y] \in Int
      BY <1>1, <1>2
    <2> QED
      BY <2>2, <2>3
  <1>4. \A x, y \in S : rank[x] = rank[y] => x = y
    <2>1. \A x \in S : rank[x] \in Int
      BY <1>1, <1>2
    <2>2. \A x, y \in S : x # y => x \in below[y] \/ y \in below[x]
      BY DEF IsOrder
    <2> HIDE DEF rank
    <2> QED
      BY <1>3, <2>1, <2>2
  <1>5. \A i \in 1..n : \E x \in S : rank[x] = i - 1
    <2>1. rank \in [S -> 0..(n - 1)]
      BY <1>2
    <2>2. rank \in Injection(S, 0..(n - 1))
      BY <1>4, <2>1 DEF Injection, IsInjective
    <2>3. IsFiniteSet(0..(n - 1)) /\ Cardinality(0..(n - 1)) = n
      <3>1. n - 1 \in Int /\ 0 \in Int
        BY <1>1
      <3> QED
        BY <1>1, <3>1, FS_Interval
    <2>4. rank \in Surjection(S, 0..(n - 1))
      BY <2>2, <2>3, FS_Injection
    <2>5. \A i \in 1..n : i - 1 \in 0..(n - 1)
      BY <1>1
    <2> HIDE DEF rank
    <2> QED
      BY <2>4, <2>5 DEF Surjection
  <1>6. s = [i \in 1..n |-> At(i)]
    BY DEF Ranked
  <1>7. ASSUME NEW i \in 1..n PROVE At(i) \in S /\ rank[At(i)] = i - 1
    <2>1. PICK x \in S : Cardinality(below[x]) = i - 1
      BY <1>5, <1>7
    <2>2. At(i) \in S /\ Cardinality(below[At(i)]) = i - 1
      BY <2>1
    <2> HIDE DEF At
    <2> QED
      BY <2>2
  <1>8. s \in Seq(S) /\ Len(s) = n /\ DOMAIN s = 1..n
    <2> HIDE DEF At, s, n
    <2>1. \A i \in 1..n : At(i) \in S
      BY <1>7
    <2> QED
      BY <1>1, <1>6, <2>1
  <1>9. \A x \in S : \E i \in 1..n : s[i] = x
    <2> SUFFICES ASSUME NEW x \in S PROVE \E i \in 1..n : s[i] = x
      OBVIOUS
    <2> DEFINE i == rank[x] + 1
    <2>1. i \in 1..n /\ i - 1 = rank[x]
      BY <1>1, <1>2
    <2> HIDE DEF i, rank, At
    <2>2. At(i) = x
      BY <1>4, <1>7, <2>1
    <2> QED
      BY <1>6, <2>1, <2>2
  <1>10. \A i \in 1..n : s[i] \in S
    BY <1>6, <1>7
  <1>11. ASSUME NEW i \in 1..n, NEW j \in 1..n, s[i] = s[j] PROVE i = j
    <2>1. At(i) = At(j)
      BY <1>6, <1>11
    <2> HIDE DEF At, rank
    <2>2. i - 1 = j - 1
      BY <1>7, <2>1
    <2> QED
      BY <2>2, <1>1
  <1>12. \A i \in 1..n : rank[s[i]] = i - 1
    <2> HIDE DEF At, rank
    <2> QED
      BY <1>6, <1>7
  <1>13. \A i \in 1..n : Cardinality(below[s[i]]) = i - 1
    <2> HIDE DEF s
    <2> QED
      BY <1>10, <1>12
  <1>14. ASSUME NEW i \in 1..n, NEW j \in 1..n PROVE s[i] \in below[s[j]] <=> i < j
    <2> HIDE DEF s, rank
    <2>1. s[i] \in S /\ s[j] \in S /\ rank[s[i]] = i - 1 /\ rank[s[j]] = j - 1
      BY <1>10, <1>12
    <2>2. s[i] \in below[s[j]] => i < j
      <3>1. s[i] \in below[s[j]] => rank[s[i]] < rank[s[j]]
        BY <1>3, <2>1
      <3> QED
        BY <1>1, <2>1, <3>1
    <2>3. s[j] \in below[s[i]] => j < i
      <3>1. s[j] \in below[s[i]] => rank[s[j]] < rank[s[i]]
        BY <1>3, <2>1
      <3> QED
        BY <1>1, <2>1, <3>1
    <2>4. i < j => s[i] # s[j]
      BY <1>1, <1>11
    <2>5. s[i] # s[j] => s[i] \in below[s[j]] \/ s[j] \in below[s[i]]
      BY <2>1 DEF IsOrder
    <2> QED
      BY <1>1, <2>2, <2>3, <2>4, <2>5
  <1> HIDE DEF s, At
  <1> QED
    BY <1>1, <1>8, <1>9, <1>10, <1>11, <1>13, <1>14 DEF s

-----------------------------------------------------------------------------
LEMMA LocCardinality == \A S : Loc!Cardinality(S) = Cardinality(S)
  BY DEF Loc!Cardinality, Cardinality

(* Keys sorted: each is there, once.                                       *)
LEMMA SortedIsEnumeration ==
  ASSUME NEW S \in SUBSET Int, IsFiniteSet(S)
  PROVE  /\ Loc!Sorted(S) \in Seq(S) /\ Len(Loc!Sorted(S)) = Cardinality(S)
         /\ Loc!ToSet(Loc!Sorted(S)) = S
  <1> DEFINE below == [k \in S |-> {j \in S : j < k}]
             s == Ranked(S, below)
             n == Cardinality(S)
  <1>1. IsOrder(S, below)
    <2>1. \A x \in S : below[x] \subseteq S /\ x \notin below[x]
      OBVIOUS
    <2>2. ASSUME NEW x \in S, NEW y \in S, x \in below[y] PROVE below[x] \subseteq below[y]
      <3>1. x \in Int /\ y \in Int /\ x < y
        BY <2>2
      <3>2. \A z \in S : z \in Int /\ (z < x => z < y)
        BY <3>1
      <3> QED
        BY <3>2
    <2>3. ASSUME NEW x \in S, NEW y \in S, x # y PROVE x \in below[y] \/ y \in below[x]
      <3>1. x < y \/ y < x
        BY <2>3
      <3> QED
        BY <3>1
    <2> HIDE DEF below
    <2> QED
      BY <2>1, <2>2, <2>3 DEF IsOrder
  <1>2. Loc!Sorted(S) = s
    <2>1. Loc!Ranked(S, below) = s
      <3> HIDE DEF below
      <3> QED
        BY LocCardinality DEF Loc!Ranked, Ranked
    <2> QED
      BY <2>1 DEF Loc!Sorted
  <1>3. /\ DOMAIN s = 1..n /\ s \in Seq(S) /\ Len(s) = n
        /\ \A i \in 1..n : s[i] \in S
        /\ \A x \in S : \E i \in 1..n : s[i] = x
    <2> HIDE DEF below
    <2> QED
      BY <1>1, RankedIsEnumeration
  <1> HIDE DEF s, n
  <1>4. Loc!ToSet(s) = S
    BY <1>3 DEF Loc!ToSet
  <1> QED
    BY <1>2, <1>3, <1>4 DEF n

(* Languages indexed or not, a key is found where a scan finds it.         *)
LEMMA LookupIsScan ==
  ASSUME NEW files, Loc!NamedByHeader(files), NEW held, NEW lang, NEW key
  PROVE  Loc!Lookup(files, held, lang, key) = Loc!Scanned(files, lang, key)
  <1>1. CASE lang \in held
    <2>1. {k \in DOMAIN files : files[k].suffix \in held /\ Loc!Header(files[k]) = lang}
          = {k \in DOMAIN files : files[k].suffix = lang}
      BY <1>1 DEF Loc!NamedByHeader
    <2> QED
      BY <1>1, <2>1 DEF Loc!Lookup, Loc!Indexed, Loc!Scanned
  <1> QED
    BY <1>1 DEF Loc!Lookup

LEMMA ResolveIsScan ==
  ASSUME NEW files, Loc!NamedByHeader(files), NEW held, NEW lang, NEW key
  PROVE  Loc!Resolve(files, held, key, lang) = Loc!Resolve(files, {}, key, lang)
  <1>1. \A l : Loc!Lookup(files, held, l, key) = Loc!Lookup(files, {}, l, key)
    BY LookupIsScan
  <1> QED
    BY <1>1 DEF Loc!Resolve

LEMMA LookupsAlwaysAgree ==
  ASSUME NEW files, NEW key, NEW lang
  PROVE  Loc!LookupsAgree(files, key, lang)
  <1> SUFFICES ASSUME Loc!NamedByHeader(files), NEW held \in SUBSET Langs
               PROVE  LET answer == Loc!Resolve(files, held, key, lang) IN
                      /\ answer = Loc!Resolve(files, {}, key, lang)
                      /\ answer.lang # lang => Loc!Lookup(files, held, lang, key) = Loc!Nowhere
                      /\ Loc!ListKeys(files, held, {key}, lang) = Loc!ListKeys(files, {}, {key}, lang)
    BY DEF Loc!LookupsAgree
  <1>1. Loc!Resolve(files, held, key, lang) = Loc!Resolve(files, {}, key, lang)
    BY ResolveIsScan
  <1>2. Loc!Resolve(files, held, key, lang).lang # lang => Loc!Lookup(files, held, lang, key) = Loc!Nowhere
    BY DEF Loc!Resolve
  <1>3. \A k \in {key} : Loc!Lookup(files, held, lang, k) = Loc!Lookup(files, {}, lang, k)
    BY LookupIsScan
  <1>4. Loc!ListKeys(files, held, {key}, lang) = Loc!ListKeys(files, {}, {key}, lang)
    BY <1>3 DEF Loc!ListKeys
  <1> QED
    BY <1>1, <1>2, <1>4

Missing(candidates, excused, files, held) ==
    {k \in candidates : /\ k > 0 /\ k \notin excused
                        /\ Loc!Resolve(files, held, k, English).at = Loc!Nowhere}

(* A page of a stub is part of what is missing, and a complete one is all. *)
Tells(answer, missing, whole) ==
    /\ Loc!ToSet(answer.text) \subseteq missing
    /\ answer.returned = Len(answer.keys)
    /\ answer.complete => whole /\ answer.text = answer.keys /\ Loc!ToSet(answer.text) = missing

LEMMA StubIsMissing ==
  ASSUME NEW candidates \in SUBSET Int, IsFiniteSet(candidates), NEW excused, NEW whole \in BOOLEAN,
         NEW files, NEW held, NEW offset \in Int, NEW limit \in Int, NEW cut
  PROVE  Tells(Loc!Stub(candidates, excused, whole, files, held, offset, limit, cut),
               Missing(candidates, excused, files, held), whole)
  <1> DEFINE answer == Loc!Stub(candidates, excused, whole, files, held, offset, limit, cut)
             M == Missing(candidates, excused, files, held)
             all == Loc!Sorted(M)
             page == Loc!Slice(all, offset, limit)
             paged == Loc!Paged(all, offset, limit)
             from == Loc!Clamped(offset)
             upto == IF paged THEN from + Loc!Clamped(limit) ELSE Len(all)
  <1>1. M \in SUBSET Int /\ IsFiniteSet(M)
    <2>1. M \in SUBSET candidates
      BY DEF Missing
    <2> HIDE DEF M
    <2> QED
      BY <2>1, FS_Subset
  <1>2. all \in Seq(M) /\ Loc!ToSet(all) = M
    <2> HIDE DEF M
    <2> QED
      BY <1>1, SortedIsEnumeration
  <1>3. /\ answer.text = IF "text" \in cut THEN <<>> ELSE page
        /\ answer.keys = IF cut # {} THEN <<>> ELSE page
        /\ answer.returned = IF cut # {} THEN 0 ELSE Len(page)
        /\ answer.complete = (whole /\ offset = 0 /\ ~paged /\ ~(cut # {}))
    BY DEF Loc!Stub, Missing
  <1> HIDE DEF answer, M
  <1>4. Len(all) \in Nat /\ from \in Nat /\ Loc!Clamped(limit) \in Nat
    BY <1>2, LenProperties DEF Loc!Clamped
  <1>5. page = SubSeq(all, from + 1, upto)
    BY DEF Loc!Slice
  <1>6. upto \in Nat /\ upto <= Len(all)
    BY <1>4 DEF Loc!Paged
  <1> HIDE DEF all, page, from, upto, paged
  <1>7. page \in Seq(M)
    <2>1. \A i \in (from + 1)..upto : all[i] \in M
      BY <1>2, <1>4, <1>6, ElementOfSeq
    <2> QED
      BY <1>4, <1>5, <1>6, <2>1, SubSeqProperties
  <1>8. Loc!ToSet(page) \subseteq M /\ Loc!ToSet(<<>>) \subseteq M
    BY <1>7 DEF Loc!ToSet
  <1>9. ASSUME answer.complete
        PROVE  whole /\ answer.text = answer.keys /\ Loc!ToSet(answer.text) = M
    <2>1. whole /\ offset = 0 /\ ~paged /\ cut = {}
      BY <1>3, <1>9
    <2>2. from + 1 = 1 /\ upto = Len(all)
      BY <2>1 DEF from, upto, Loc!Clamped
    <2>3. page = all
      BY <1>2, <1>5, <2>2, SubSeqFull
    <2>4. answer.text = page /\ answer.keys = page
      BY <1>3, <2>1
    <2> QED
      BY <1>2, <2>1, <2>3, <2>4
  <1> QED
    BY <1>3, <1>8, <1>9, EmptySeq DEF answer, M, Tells

(* A source names the keys of its event, if it is one.                     *)
Named(source) ==
    /\ source.id \in Nat \ {0}
    /\ {source.title, source.desc, source.options} \subseteq Seq(Int)

LEMMA NeedsAreFinite ==
  ASSUME NEW sources, IsFiniteSet(sources), \A s \in sources : Named(s)
  PROVE  LET needs == UNION {Loc!Needs(s) : s \in sources} IN needs \in SUBSET Int /\ IsFiniteSet(needs)
  <1> DEFINE each == {Loc!Needs(s) : s \in sources}
  <1>1. ASSUME NEW seq \in Seq(Int) PROVE Loc!ToSet(seq) \in SUBSET Int /\ IsFiniteSet(Loc!ToSet(seq))
    <2>1. seq \in Seq(Loc!ToSet(seq)) /\ \A k \in Loc!ToSet(seq) : \E n \in 1..Len(seq) : seq[n] = k
      BY DEF Loc!ToSet
    <2>2. Loc!ToSet(seq) \in SUBSET Int
      BY DEF Loc!ToSet
    <2> QED
      BY <2>1, <2>2 DEF IsFiniteSet
  <1>2. ASSUME NEW s \in sources PROVE Loc!Needs(s) \in SUBSET Int /\ IsFiniteSet(Loc!Needs(s))
    <2>1. CASE s.kind # "event"
      <3>1. Loc!Needs(s) = {2 * s.id} \cup {2 * s.id + 1} /\ s.id \in Nat
        BY <2>1 DEF Loc!Needs, Loc!NameOf, Loc!DescOf, Named
      <3>2. IsFiniteSet({2 * s.id} \cup {2 * s.id + 1})
        BY FS_Singleton, FS_Union
      <3> QED
        BY <3>1, <3>2
    <2>2. CASE s.kind = "event"
      <3>1. s.title \in Seq(Int) /\ s.desc \in Seq(Int) /\ s.options \in Seq(Int)
        BY DEF Named
      <3>2. Loc!Needs(s) = (Loc!ToSet(s.title) \cup Loc!ToSet(s.desc)) \cup Loc!ToSet(s.options)
        BY <2>2 DEF Loc!Needs
      <3> QED
        BY <1>1, <3>1, <3>2, FS_Union
    <2> QED
      BY <2>1, <2>2
  <1>3. IsFiniteSet(each)
    <2> DEFINE f == [s \in sources |-> Loc!Needs(s)]
    <2>1. f \in Surjection(sources, each)
      BY DEF Surjection
    <2> QED
      BY <2>1, FS_Surjection
  <1>4. IsFiniteSet(UNION each)
    BY <1>2, <1>3, FS_UNION
  <1> QED
    BY <1>2, <1>4

(* What a question may be: a lookup, or the stub of any finite set of      *)
(* sources, from files named for the language of their header; a file is   *)
(* asked about by the definitions read from it.                            *)
IsQuestion(q) ==
    \/ q.kind = "lookup"
    \/ /\ q.kind \in {"stub", "file"}
       /\ IsFiniteSet(q.sources) /\ \A s \in q.sources : Named(s)
       /\ q.kind = "file" => \A s \in q.sources : s.found
       /\ Loc!NamedByHeader(q.files)
       /\ q.span \in Int \X Int

(* Nothing that was asked for and may be read is forgotten.                *)
LEMMA CompleteStub ==
  ASSUME NEW sources, IsFiniteSet(sources), \A s \in sources : Named(s),
         ~\E s \in sources : Loc!Fails(s)
  PROVE  /\ Loc!Odd \notin UNION {Loc!Needs(s) : s \in sources}
         /\ ~\E s \in sources : s.kind = "event" /\ ~s.hidden /\ s.title = <<>>
  <1>1. \A s \in sources : s.kind # "event" => 0 \notin Loc!Needs(s)
    BY DEF Loc!Needs, Loc!NameOf, Loc!DescOf, Named
  <1>2. \A s \in sources : s.kind = "event" => 0 \notin Loc!Needs(s)
    BY DEF Loc!Fails, Loc!Odd
  <1>3. \A s \in sources : ~(s.kind = "event" /\ ~s.hidden /\ s.title = <<>>)
    BY DEF Loc!Fails
  <1> QED
    BY <1>1, <1>2, <1>3 DEF Loc!Odd

(* Whatever is asked and however it is paged or cut.                       *)
LEMMA StubsAreAlwaysComplete ==
  ASSUME NEW q, IsQuestion(q)
  PROVE  Loc!StubsAreComplete(q)
  <1> DEFINE D == UNION {Loc!Needs(s) : s \in q.sources}
             defined == {k \in D : Loc!Resolve(q.files, {}, k, English).at # Loc!Nowhere}
             M(candidates, excused) == Missing(candidates, excused, q.files, {English})
             ofIds == Loc!MissingLoc(q.sources, q.lang, q.files, {English}, q.span[1], q.span[2], q.cut)
             ofFile == Loc!FileMissingLoc([readable |-> q.readable, defines |-> q.sources], q.target,
                                          q.files, {English}, q.span[1], q.span[2], q.cut)
  <1>1. CASE q.kind = "lookup"
    BY <1>1, LookupsAlwaysAgree DEF Loc!StubsAreComplete
  <1>2. ASSUME q.kind \in {"stub", "file"}
        PROVE  /\ D \in SUBSET Int /\ IsFiniteSet(D)
               /\ q.span[1] \in Int /\ q.span[2] \in Int
               /\ \A C, E : \A k : k \in M(C, E) <=>
                    k \in C /\ k > 0 /\ k \notin E /\ Loc!Resolve(q.files, {}, k, English).at = Loc!Nowhere
    <2>1. Loc!NamedByHeader(q.files) /\ IsFiniteSet(q.sources) /\ \A s \in q.sources : Named(s)
      BY <1>2 DEF IsQuestion
    <2>2. q.span[1] \in Int /\ q.span[2] \in Int
      BY <1>2 DEF IsQuestion
    <2>3. \A k : Loc!Resolve(q.files, {English}, k, English) = Loc!Resolve(q.files, {}, k, English)
      BY <2>1, ResolveIsScan
    <2> QED
      BY <2>1, <2>2, <2>3, NeedsAreFinite DEF Missing
  <1>3. Loc!StubIsComplete(Loc!NoStub, q.sources, defined)
        /\ Loc!StubIsComplete(Loc!NoStub, q.sources, defined \cup q.target.keys)
    BY DEF Loc!StubIsComplete, Loc!NoStub
  <1>4. CASE q.kind = "stub"
    <2> DEFINE used == {s \in q.sources : s.found /\ (s.kind = "event" => s.readable)}
               U == UNION {Loc!Needs(s) : s \in used}
               whole == used = q.sources /\ ~\E s \in used : Loc!Fails(s)
    <2>1. U \in SUBSET Int /\ IsFiniteSet(U) /\ U \subseteq D
      <3>1. U \in SUBSET D
        OBVIOUS
      <3> HIDE DEF U, D
      <3> QED
        BY <1>2, <1>4, <3>1, FS_Subset
    <2>2. CASE q.sources = {} \/ q.lang # English
      <3>1. ofIds = Loc!NoStub
        BY <2>2 DEF Loc!MissingLoc
      <3> QED
        BY <1>3, <1>4, <3>1 DEF Loc!StubsAreComplete
    <2>3. CASE ~(q.sources = {} \/ q.lang # English)
      <3>1. ofIds = Loc!Stub(U, {}, whole, q.files, {English}, q.span[1], q.span[2], q.cut)
        BY <2>3 DEF Loc!MissingLoc
      <3>2. whole \in BOOLEAN
        OBVIOUS
      <3> HIDE DEF U, whole, D, M, ofIds
      <3>3. /\ Loc!ToSet(ofIds.text) \subseteq M(U, {})
            /\ ofIds.returned = Len(ofIds.keys)
            /\ ofIds.complete => whole /\ ofIds.text = ofIds.keys /\ Loc!ToSet(ofIds.text) = M(U, {})
        <4>1. Tells(ofIds, Missing(U, {}, q.files, {English}), whole)
          BY <1>2, <1>4, <2>1, <3>1, <3>2, StubIsMissing
        <4> QED
          BY <4>1 DEF Tells, M
      <3>4. Loc!ToSet(ofIds.text) \cap defined = {}
        BY <1>2, <1>4, <2>1, <3>3
      <3>5. ASSUME ofIds.complete
            PROVE  /\ {k \in D : k >= 0} \subseteq Loc!ToSet(ofIds.text) \cup defined
                   /\ ~\E s \in q.sources : ~s.found \/ (s.kind = "event" /\ ~s.hidden /\ s.title = <<>>)
        <4>1. used = q.sources /\ U = D /\ ~\E s \in q.sources : Loc!Fails(s)
          BY <3>3, <3>5 DEF whole, U, D
        <4>2. Loc!Odd \notin D /\ ~\E s \in q.sources : s.kind = "event" /\ ~s.hidden /\ s.title = <<>>
          BY <1>4, <4>1, CompleteStub DEF IsQuestion, D
        <4>3. \A k \in D : k >= 0 => k > 0
          BY <1>2, <1>4, <4>2 DEF Loc!Odd
        <4>4. {k \in D : k >= 0} \subseteq Loc!ToSet(ofIds.text) \cup defined
          BY <1>2, <1>4, <3>3, <3>5, <4>1, <4>3
        <4> QED
          BY <4>1, <4>2, <4>4
      <3>6. Loc!StubIsComplete(ofIds, q.sources, defined)
        BY <3>3, <3>4, <3>5 DEF Loc!StubIsComplete, D
      <3> QED
        BY <1>4, <3>6 DEF Loc!StubsAreComplete, ofIds, D
    <2> QED
      BY <2>2, <2>3
  <1>5. CASE q.kind = "file"
    <2> DEFINE C == D \ {Loc!Odd}
               whole == ~\E s \in q.sources : Loc!Fails(s)
               stub == Loc!Stub(C, q.target.keys, whole, q.files, {English}, q.span[1], q.span[2], q.cut)
    <2>1. C \in SUBSET Int /\ IsFiniteSet(C)
      <3> HIDE DEF D
      <3> QED
        BY <1>2, <1>5, FS_Subset
    <2>2. ofFile = Loc!NoStub \/ ofFile = stub
      BY DEF Loc!FileMissingLoc
    <2>3. whole \in BOOLEAN
      OBVIOUS
    <2>4. Loc!StubIsComplete(stub, q.sources, defined \cup q.target.keys)
      <3> HIDE DEF C, whole, D, M
      <3>1. /\ Loc!ToSet(stub.text) \subseteq M(C, q.target.keys)
            /\ stub.returned = Len(stub.keys)
            /\ stub.complete => /\ whole /\ stub.text = stub.keys
                                /\ Loc!ToSet(stub.text) = M(C, q.target.keys)
        <4>1. Tells(stub, Missing(C, q.target.keys, q.files, {English}), whole)
          BY <1>2, <1>5, <2>1, <2>3, StubIsMissing
        <4> QED
          BY <4>1 DEF Tells, M
      <3> HIDE DEF stub
      <3>2. Loc!ToSet(stub.text) \cap (defined \cup q.target.keys) = {}
        BY <1>2, <1>5, <3>1 DEF C
      <3>3. ASSUME stub.complete
            PROVE  /\ {k \in D : k >= 0} \subseteq Loc!ToSet(stub.text) \cup (defined \cup q.target.keys)
                   /\ ~\E s \in q.sources : ~s.found \/ (s.kind = "event" /\ ~s.hidden /\ s.title = <<>>)
        <4>1. ~\E s \in q.sources : Loc!Fails(s)
          BY <3>1, <3>3 DEF whole
        <4>2. Loc!Odd \notin D /\ ~\E s \in q.sources : s.kind = "event" /\ ~s.hidden /\ s.title = <<>>
          BY <1>5, <4>1, CompleteStub DEF IsQuestion, D
        <4>3. \A k \in D : k \in C /\ (k >= 0 => k > 0)
          BY <1>2, <1>5, <4>2 DEF Loc!Odd, C
        <4>4. {k \in D : k >= 0} \subseteq Loc!ToSet(stub.text) \cup (defined \cup q.target.keys)
          BY <1>2, <1>5, <3>1, <3>3, <4>3
        <4>5. \A s \in q.sources : s.found
          BY <1>5 DEF IsQuestion
        <4> QED
          BY <4>2, <4>4, <4>5
      <3> QED
        BY <3>1, <3>2, <3>3 DEF Loc!StubIsComplete, D
    <2> QED
      BY <1>3, <1>5, <2>2, <2>4 DEF Loc!StubsAreComplete
  <1> QED
    BY <1>1, <1>4, <1>5 DEF IsQuestion

-----------------------------------------------------------------------------
LEMMA MinIsLeast ==
  ASSUME NEW T \in SUBSET Nat, T # {}
  PROVE  Attr!Min(T) \in T /\ \A m \in T : Attr!Min(T) <= m
  BY LeastNumber DEF Attr!Min

LEMMA SameCardinality == \A S : Attr!Cardinality(S) = Cardinality(S)
  BY DEF Attr!Cardinality, Cardinality

LEMMA MatchIsUnique ==
  ASSUME NEW listed, IsFiniteSet(listed), NEW partial, NEW prefixes,
         Attr!MatchSuffix(listed, partial, prefixes) # Attr!NoFile
  PROVE  LET hit == Attr!MatchSuffix(listed, partial, prefixes) IN
         /\ hit \in listed /\ Attr!IsSuffix(partial, hit)
         /\ \A p \in listed : Attr!Under(p, prefixes) /\ Attr!IsSuffix(partial, p) => p = hit
  <1> DEFINE matches == {p \in listed : /\ partial # Attr!NoFile /\ Attr!Under(p, prefixes)
                                        /\ Attr!IsSuffix(partial, p)}
             hit == Attr!MatchSuffix(listed, partial, prefixes)
  <1>1. IsFiniteSet(matches)
    BY FS_Subset
  <1>2. Cardinality(matches) = 1 /\ hit = CHOOSE p \in matches : TRUE
    BY SameCardinality DEF Attr!MatchSuffix
  <1>3. PICK x : matches = {x}
    BY <1>1, <1>2, FS_Singleton
  <1>4. hit = x /\ x \in matches
    BY <1>2, <1>3
  <1>5. partial # Attr!NoFile
    BY DEF Attr!MatchSuffix
  <1> QED
    BY <1>3, <1>4, <1>5

(* What a question about a finding may be.                                 *)
IsFinding(q) ==
    IsFiniteSet(q.tree.tracked) /\ IsFiniteSet(q.tree.present) /\ q.issue.tokens \in Seq(Seq(STRING))

(* One listed file at most ends as the finding says.                       *)
LEMMA AttributionIsAlwaysUnique ==
  ASSUME NEW tree, IsFiniteSet(tree.tracked), IsFiniteSet(tree.present),
         NEW issue, issue.tokens \in Seq(Seq(STRING)), NEW prefixes
  PROVE  Attr!AttributionIsUnique(tree, issue, prefixes)
  <1> DEFINE listed == Attr!Listed(tree)
             Token(k) == Attr!MatchSuffix(listed, issue.tokens[k], prefixes)
             hits == {k \in DOMAIN issue.tokens : Token(k) # Attr!NoFile}
             path == Attr!Attributed(tree, issue, prefixes)
             said == IF issue.file # Attr!NoFile THEN {issue.file} ELSE Attr!ToSet(issue.tokens)
             Only(s) == \A p \in listed : Attr!Under(p, prefixes) /\ Attr!IsSuffix(s, p) => p = path
  <1>1. IsFiniteSet(listed)
    BY FS_Subset DEF Attr!Listed
  <1>2. CASE issue.file = Attr!NoFile /\ path # Attr!NoFile
    <2>1. hits # {} /\ path = Token(Attr!Min(hits))
      BY <1>2 DEF Attr!Attributed
    <2>2. Attr!Min(hits) \in hits
      <3>1. hits \in SUBSET Nat
        OBVIOUS
      <3> QED
        BY <2>1, <3>1, MinIsLeast
    <2> DEFINE k == Attr!Min(hits)
    <2>3. k \in DOMAIN issue.tokens /\ Token(k) # Attr!NoFile
      BY <2>2
    <2> HIDE DEF k
    <2>4. Attr!IsSuffix(issue.tokens[k], path) /\ Only(issue.tokens[k])
        <3>1. path = Token(k)
        BY <2>1 DEF k
      <3> QED
        BY <1>1, <2>3, <3>1, MatchIsUnique
    <2>5. issue.tokens[k] \in said
      BY <1>2, <2>3 DEF Attr!ToSet
    <2> QED
      BY <2>4, <2>5 DEF Attr!AttributionIsUnique
  <1>3. CASE issue.file # Attr!NoFile /\ path # Attr!NoFile /\ path # issue.file
    <2>1. path = Attr!MatchSuffix(listed, issue.file, prefixes)
      BY <1>3 DEF Attr!Attributed
    <2>2. Attr!IsSuffix(issue.file, path) /\ Only(issue.file)
      BY <1>1, <1>3, <2>1, MatchIsUnique
    <2> QED
      BY <1>3, <2>2 DEF Attr!AttributionIsUnique
  <1> QED
    BY <1>2, <1>3 DEF Attr!AttributionIsUnique

-----------------------------------------------------------------------------
LEMMA PlansCardinality == \A S : Plans!Cardinality(S) = Cardinality(S)
  BY DEF Plans!Cardinality, Cardinality

(* The texts of a plan are rewritten one after the other.                  *)
Start == [changed |-> <<>>, counter |-> 0, unreadable |-> FALSE]

PlansBy(after, disk, mapping, order) ==
    /\ after[0] = Start
    /\ \A k \in 1..Len(order) : after[k] = Plans!PlanStep(disk, mapping, after[k - 1], order[k])
    /\ Plans!Plan(disk, mapping, order) = after[Len(order)]

LEMMA PlanRuns ==
  ASSUME NEW disk, NEW mapping, NEW order, Len(order) \in Nat
  PROVE  \E after : PlansBy(after, disk, mapping, order)
  <1> DEFINE n == Len(order)
             Step(f, k) == IF k = 0 THEN Start ELSE Plans!PlanStep(disk, mapping, f[k - 1], order[k])
             Runs(f, m) == f = [k \in 0..m |-> Step(f, k)]
             T == {m \in 0..n : \E f : Runs(f, m)}
  <1>1. 0 \in T
    <2>1. Runs([k \in 0..0 |-> Start], 0)
      OBVIOUS
    <2>2. 0 \in 0..n
      OBVIOUS
    <2> HIDE DEF Runs, n
    <2> QED
      BY <2>1, <2>2
  <1>2. ASSUME NEW m \in 0..(n - 1), m \in T PROVE m + 1 \in T
    <2>1. PICK f : Runs(f, m)
      BY <1>2
    <2> DEFINE g == [k \in 0..(m + 1) |-> IF k = m + 1 THEN Step(f, k) ELSE f[k]]
    <2>2. ASSUME NEW k \in 0..(m + 1) PROVE g[k] = Step(g, k)
      <3>1. CASE k = m + 1
        <4>1. k # 0 /\ k - 1 = m /\ m \in 0..(m + 1) /\ m # m + 1
          BY <3>1
        <4>2. g[k - 1] = f[k - 1]
          BY <4>1
        <4>3. g[k] = Step(f, k)
          BY <3>1
        <4> HIDE DEF g
        <4> QED
          BY <4>1, <4>2, <4>3
      <3>2. CASE k # m + 1
        <4>1. k \in 0..m /\ (k # 0 => k - 1 \in 0..(m + 1) /\ k - 1 # m + 1)
          BY <3>2
        <4>2. f[k] = Step(f, k)
          <5> HIDE DEF Step
          <5> QED
            BY <2>1, <4>1
        <4>3. k # 0 => g[k - 1] = f[k - 1]
          BY <4>1
        <4>4. g[k] = f[k]
          BY <3>2
        <4> HIDE DEF g
        <4> QED
          BY <4>2, <4>3, <4>4
      <3> QED
        BY <3>1, <3>2
    <2>3. Runs(g, m + 1)
      <3>1. g = [k \in 0..(m + 1) |-> g[k]]
        OBVIOUS
      <3> HIDE DEF g, Step
      <3> QED
        BY <2>2, <3>1
    <2>4. m + 1 \in 0..n
      OBVIOUS
    <2> HIDE DEF g, Runs
    <2> QED
      BY <2>3, <2>4
  <1>3. n \in T
    <2>1. n \in Nat /\ n \in 0..n
      OBVIOUS
    <2> HIDE DEF T, n
    <2> QED
      BY <1>1, <1>2, <2>1, CountsUp
  <1> DEFINE after == CHOOSE f : f = [k \in 0..n |-> Step(f, k)]
  <1>4. Plans!Plan(disk, mapping, order) = after[n]
    BY DEF Plans!Plan, Start
  <1>5. after = [k \in 0..n |-> Step(after, k)]
    <2>1. \E f : f = [k \in 0..n |-> Step(f, k)]
      BY <1>3
    <2> HIDE DEF Step
    <2> QED
      BY <2>1
  <1>6. after[0] = Step(after, 0) /\ \A k \in 1..n : after[k] = Step(after, k)
    <2>1. 0 \in 0..n /\ \A k \in 1..n : k \in 0..n
      OBVIOUS
    <2> HIDE DEF Step, after
    <2> QED
      BY <1>5, <2>1
  <1>7. \A k \in 1..n : k # 0
    OBVIOUS
  <1> HIDE DEF after
  <1>8. PlansBy(after, disk, mapping, order)
    BY <1>4, <1>6, <1>7 DEF PlansBy
  <1> QED
    BY <1>8

(* A mod and its overlay: at most one entry at a path of a root, and a     *)
(* path names its own directory and suffix.                                *)
IsDisk(disk) ==
    /\ IsFiniteSet(disk)
    /\ \A e \in disk : /\ e.root \in Roots /\ e.path \in Nat /\ e.to \in Nat
                       /\ {e.utf8, e.leaves} \subseteq BOOLEAN
                       /\ e.text \in Seq(Seq(STRING))
    /\ \A e, f \in disk : e.path = f.path => /\ e.root = f.root => e = f
                                             /\ e.tree = f.tree /\ e.ext = f.ext

LEMMA FileIsEntry ==
  ASSUME NEW disk, IsDisk(disk), NEW e \in disk
  PROVE  Plans!File(disk, e.root, e.path) = e /\ Plans!At(disk, e.root, e.path) = {e}
  <1>1. \A f \in disk : f.root = e.root /\ f.path = e.path => f = e
    BY DEF IsDisk
  <1> QED
    BY <1>1 DEF Plans!File, Plans!At

(* A text is rewritten exactly if a name of it changes.                    *)
LEMMA RewritesAreCounted ==
  ASSUME NEW mapping, NEW text \in Seq(Seq(STRING))
  PROVE  /\ Plans!Replacements(mapping, text) \in Nat
         /\ Plans!Replacements(mapping, text) > 0 <=> Plans!Transform(mapping, text) # text
  <1> DEFINE Line(l) == {l} \X Plans!Changing(mapping, text, l)
             lines == {Line(l) : l \in DOMAIN text}
             places == UNION lines
  <1>1. DOMAIN text = 1..Len(text) /\ Len(text) \in Nat
        /\ \A l \in DOMAIN text : text[l] \in Seq(STRING) /\ DOMAIN text[l] = 1..Len(text[l]) /\ Len(text[l]) \in Nat
    BY ElementOfSeq, LenProperties
  <1>2. ASSUME NEW l \in DOMAIN text PROVE IsFiniteSet(Line(l))
    <2>1. IsFiniteSet(DOMAIN text[l])
      <3>1. 1 \in Int /\ Len(text[l]) \in Int
        BY <1>1
      <3> QED
        BY <1>1, <3>1, FS_Interval
    <2>2. Plans!Changing(mapping, text, l) \in SUBSET (DOMAIN text[l])
      BY DEF Plans!Changing
    <2> QED
      BY <2>1, <2>2, FS_Subset, FS_Singleton, FS_Product
  <1>3. IsFiniteSet(lines)
    <2> DEFINE f == [l \in DOMAIN text |-> Line(l)]
    <2>1. f \in Surjection(DOMAIN text, lines)
      BY DEF Surjection
    <2>2. IsFiniteSet(DOMAIN text)
      <3>1. 1 \in Int /\ Len(text) \in Int
        BY <1>1
      <3> QED
        BY <1>1, <3>1, FS_Interval
    <2> HIDE DEF f, lines
    <2> QED
      BY <2>1, <2>2, FS_Surjection
  <1>4. IsFiniteSet(places)
    <2>1. \A T \in lines : IsFiniteSet(T)
      BY <1>2
    <2> HIDE DEF lines
    <2> QED
      BY <1>3, <2>1, FS_UNION
  <1>5. Plans!Replacements(mapping, text) = Cardinality(places)
    BY PlansCardinality DEF Plans!Replacements
  <1>6. Plans!Replacements(mapping, text) \in Nat /\ (Plans!Replacements(mapping, text) > 0 <=> places # {})
    <2> HIDE DEF places
    <2>1. Cardinality(places) \in Nat /\ (Cardinality(places) = 0 <=> places = {})
      BY <1>4, FS_EmptySet, FS_CardinalityType
    <2> QED
      BY <1>5, <2>1
  <1> DEFINE new == Plans!Transform(mapping, text)
             Same(l) == [w \in DOMAIN text[l] |-> Plans!Renamed(mapping, text[l][w])] = text[l]
  <1>7. ASSUME NEW l \in DOMAIN text PROVE Same(l) <=> Plans!Changing(mapping, text, l) = {}
    <2>1. text[l] = [w \in DOMAIN text[l] |-> text[l][w]]
      BY <1>1
    <2>2. Same(l) <=> \A w \in DOMAIN text[l] : Plans!Renamed(mapping, text[l][w]) = text[l][w]
      BY <2>1
    <2> QED
      BY <2>2 DEF Plans!Changing
  <1>8. new = text <=> \A l \in DOMAIN text : Same(l)
    <2>1. text = [l \in DOMAIN text |-> text[l]]
      OBVIOUS
    <2>2. new = [l \in DOMAIN text |-> [w \in DOMAIN text[l] |-> Plans!Renamed(mapping, text[l][w])]]
      BY DEF Plans!Transform
    <2> QED
      BY <2>1, <2>2
  <1>9. places = {} <=> \A l \in DOMAIN text : Plans!Changing(mapping, text, l) = {}
    <2>1. \A l \in DOMAIN text : \A w \in Plans!Changing(mapping, text, l) : <<l, w>> \in places
      OBVIOUS
    <2>2. \A p \in places : \E l \in DOMAIN text : p \in Line(l)
      OBVIOUS
    <2>3. \A l \in DOMAIN text : \A p \in Line(l) : p[2] \in Plans!Changing(mapping, text, l)
      OBVIOUS
    <2> HIDE DEF places, Line
    <2> QED
      BY <2>1, <2>2, <2>3
  <1> HIDE DEF places, new, Same
  <1> QED
    BY <1>6, <1>7, <1>8, <1>9 DEF new

(* The entry of a plan for a file, and whether the plan rewrites it.       *)
Item(disk, mapping, e) ==
    [path |-> e.path, root |-> e.root,
     n |-> Plans!Replacements(mapping, Plans!File(disk, e.root, e.path).text)]
Rewritten(disk, mapping, e) ==
    LET text == Plans!File(disk, e.root, e.path).text IN Plans!Transform(mapping, text) # text

(* After the first k entries: each that changes is planned, and no other.  *)
PlannedTo(disk, mapping, order, s, k) ==
    /\ s \in [changed : Seq([path : Nat, root : Nat, n : Nat]), counter : {0}, unreadable : BOOLEAN]
    /\ \A i \in 1..Len(s.changed) : \E l \in 1..k :
          s.changed[i] = Item(disk, mapping, order[l]) /\ Rewritten(disk, mapping, order[l])
    /\ \A l \in 1..k : ~s.unreadable =>
          /\ Plans!File(disk, order[l].root, order[l].path).utf8
          /\ Rewritten(disk, mapping, order[l]) =>
                \E i \in 1..Len(s.changed) : s.changed[i] = Item(disk, mapping, order[l])
    /\ \A i, j \in 1..Len(s.changed) : s.changed[i].path = s.changed[j].path => i = j

(* One more entry.                                                         *)
LEMMA StepPlans ==
  ASSUME NEW disk, NEW mapping, NEW order, NEW k \in Nat, NEW s,
         PlannedTo(disk, mapping, order, s, k),
         \A l \in 1..k : order[l].path # order[k + 1].path,
         order[k + 1].path \in Nat, order[k + 1].root \in Nat,
         Plans!File(disk, order[k + 1].root, order[k + 1].path).text \in Seq(Seq(STRING)),
         Plans!File(disk, order[k + 1].root, order[k + 1].path).utf8 \in BOOLEAN
  PROVE  PlannedTo(disk, mapping, order, Plans!PlanStep(disk, mapping, s, order[k + 1]), k + 1)
  <1> DEFINE e == order[k + 1]
             file == Plans!File(disk, e.root, e.path)
             t == Plans!PlanStep(disk, mapping, s, e)
             item == Item(disk, mapping, e)
             Items == [path : Nat, root : Nat, n : Nat]
  <1>1. Plans!Replacements(mapping, file.text) \in Nat
    BY RewritesAreCounted
  <1>2. s = [changed |-> s.changed, counter |-> 0, unreadable |-> s.unreadable]
        /\ s.changed \in Seq(Items) /\ s.unreadable \in BOOLEAN /\ Len(s.changed) \in Nat
        /\ s \in [changed : Seq(Items), counter : {0}, unreadable : BOOLEAN]
    BY LenProperties DEF PlannedTo
  <1>3. 1..(k + 1) = (1..k) \cup {k + 1}
    OBVIOUS
  <1>4. item \in Items
    BY <1>1 DEF Item
  <1>5. CASE ~file.utf8
    <2>1. t = [changed |-> s.changed, counter |-> 0, unreadable |-> TRUE]
      <3>1. t = [s EXCEPT !.unreadable = TRUE]
        BY <1>5 DEF Plans!PlanStep
      <3> HIDE DEF t, Items
      <3>2. s \in [changed : Seq(Items), counter : {0}, unreadable : BOOLEAN]
        BY <1>2
      <3> QED
        BY <3>1, <3>2
    <2> HIDE DEF t, e
    <2>2. /\ t \in [changed : Seq(Items), counter : {0}, unreadable : BOOLEAN]
          /\ t.changed = s.changed /\ t.unreadable
      BY <1>2, <2>1
    <2> HIDE DEF item, file, Items
    <2>3. \A i \in 1..Len(t.changed) : \E l \in 1..(k + 1) :
            t.changed[i] = Item(disk, mapping, order[l]) /\ Rewritten(disk, mapping, order[l])
      BY <1>3, <2>2 DEF PlannedTo
    <2>4. \A i, j \in 1..Len(t.changed) : t.changed[i].path = t.changed[j].path => i = j
      BY <2>2 DEF PlannedTo
    <2> QED
      BY <2>2, <2>3, <2>4 DEF PlannedTo, t, e, Items
  <1>6. CASE file.utf8 /\ ~Rewritten(disk, mapping, e)
    <2>1. t = [changed |-> s.changed, counter |-> 0, unreadable |-> s.unreadable]
      BY <1>2, <1>6 DEF Plans!PlanStep, Rewritten
    <2>2. t = s
      BY <1>2, <2>1
    <2> HIDE DEF t, item
    <2>3. \A i \in 1..Len(t.changed) : \E l \in 1..(k + 1) :
            t.changed[i] = Item(disk, mapping, order[l]) /\ Rewritten(disk, mapping, order[l])
      BY <1>3, <2>2 DEF PlannedTo
    <2>4. \A l \in 1..(k + 1) : ~t.unreadable =>
            /\ Plans!File(disk, order[l].root, order[l].path).utf8
            /\ Rewritten(disk, mapping, order[l]) =>
                  \E i \in 1..Len(t.changed) : t.changed[i] = Item(disk, mapping, order[l])
      BY <1>3, <1>6, <2>2 DEF PlannedTo
    <2> QED
      BY <2>2, <2>3, <2>4 DEF PlannedTo, t
  <1>7. CASE file.utf8 /\ Rewritten(disk, mapping, e)
    <2> DEFINE m == Len(s.changed)
               changed == Append(s.changed, item)
    <2>1. t = [changed |-> changed, counter |-> 0, unreadable |-> s.unreadable]
      <3>1. 0 + Plans!Replacements(mapping, file.text) = Plans!Replacements(mapping, file.text)
        BY <1>1
      <3>2. t = [s EXCEPT !.counter = 0,
                          !.changed = Append(@, [path |-> e.path, root |-> e.root,
                                                 n |-> s.counter + Plans!Replacements(mapping, file.text)])]
        BY <1>7 DEF Plans!PlanStep, Rewritten
      <3>3. s.counter = 0
        BY <1>2
      <3>4. item = [path |-> e.path, root |-> e.root, n |-> s.counter + Plans!Replacements(mapping, file.text)]
        BY <3>1, <3>3 DEF Item
      <3>5. s \in [changed : Seq(Items), counter : {0}, unreadable : BOOLEAN]
        BY <1>2
      <3> HIDE DEF t, item, e, file, Items
      <3> QED
        BY <3>2, <3>4, <3>5
    <2> HIDE DEF t, item, Items
    <2>2. /\ changed \in Seq(Items) /\ Len(changed) = m + 1 /\ changed[m + 1] = item
          /\ \A i \in 1..m : changed[i] = s.changed[i]
      BY <1>2, <1>4, AppendProperties
    <2> HIDE DEF changed
    <2>3. 1..(m + 1) = (1..m) \cup {m + 1} /\ m + 1 \notin 1..m
      BY <1>2
    <2>4. t \in [changed : Seq(Items), counter : {0}, unreadable : BOOLEAN]
          /\ t.changed = changed /\ t.unreadable = s.unreadable
      BY <1>2, <2>1, <2>2
    <2> HIDE DEF m
    <2>5. \A i \in 1..(m + 1) : \E l \in 1..(k + 1) :
            changed[i] = Item(disk, mapping, order[l]) /\ Rewritten(disk, mapping, order[l])
      <3>1. \A i \in 1..m : \E l \in 1..k :
              changed[i] = Item(disk, mapping, order[l]) /\ Rewritten(disk, mapping, order[l])
        BY <2>2 DEF PlannedTo, m
      <3>2. changed[m + 1] = Item(disk, mapping, order[k + 1]) /\ k + 1 \in 1..(k + 1)
        BY <1>3, <2>2 DEF item
      <3> QED
        BY <1>3, <1>7, <2>3, <3>1, <3>2
    <2>6. \A l \in 1..(k + 1) : ~s.unreadable =>
            /\ Plans!File(disk, order[l].root, order[l].path).utf8
            /\ Rewritten(disk, mapping, order[l]) =>
                  \E i \in 1..(m + 1) : changed[i] = Item(disk, mapping, order[l])
      <3>1. \A l \in 1..k : ~s.unreadable =>
              /\ Plans!File(disk, order[l].root, order[l].path).utf8
              /\ Rewritten(disk, mapping, order[l]) =>
                    \E i \in 1..m : changed[i] = Item(disk, mapping, order[l])
        <4>1. \A l \in 1..k : ~s.unreadable =>
                /\ Plans!File(disk, order[l].root, order[l].path).utf8
                /\ Rewritten(disk, mapping, order[l]) =>
                      \E i \in 1..m : s.changed[i] = Item(disk, mapping, order[l])
          BY DEF PlannedTo, m
        <4> QED
          BY <2>2, <4>1
      <3>2. changed[m + 1] = Item(disk, mapping, order[k + 1])
        BY <2>2 DEF item
      <3> QED
        BY <1>3, <1>7, <2>3, <3>1, <3>2
    <2>7. \A i, j \in 1..(m + 1) : changed[i].path = changed[j].path => i = j
      <3>1. \A i \in 1..m : changed[i].path # item.path
        <4>1. \A i \in 1..m : \E l \in 1..k : changed[i] = Item(disk, mapping, order[l])
          BY <2>2 DEF PlannedTo, m
        <4>2. \A l \in 1..k : Item(disk, mapping, order[l]).path = order[l].path
          BY DEF Item
        <4>3. item.path = order[k + 1].path
          BY DEF item, Item
        <4> QED
          BY <4>1, <4>2, <4>3
      <3>2. \A i, j \in 1..m : changed[i].path = changed[j].path => i = j
        BY <2>2 DEF PlannedTo, m
      <3> QED
        BY <2>2, <2>3, <3>1, <3>2
    <2> QED
      BY <2>2, <2>4, <2>5, <2>6, <2>7 DEF PlannedTo, t, Items
  <1> QED
    BY <1>5, <1>6, <1>7

LEMMA PlanIsExact ==
  ASSUME NEW disk, NEW mapping, NEW order, Len(order) \in Nat,
         \A k \in 1..Len(order) :
            /\ order[k].path \in Nat /\ order[k].root \in Nat
            /\ Plans!File(disk, order[k].root, order[k].path).text \in Seq(Seq(STRING))
            /\ Plans!File(disk, order[k].root, order[k].path).utf8 \in BOOLEAN,
         \A k, l \in 1..Len(order) : order[k].path = order[l].path => k = l
  PROVE  PlannedTo(disk, mapping, order, Plans!Plan(disk, mapping, order), Len(order))
  <1>0. PICK after : PlansBy(after, disk, mapping, order)
    BY PlanRuns
  <1>1. /\ after[0] = Start
        /\ \A k \in 1..Len(order) : after[k] = Plans!PlanStep(disk, mapping, after[k - 1], order[k])
        /\ Plans!Plan(disk, mapping, order) = after[Len(order)]
    BY <1>0 DEF PlansBy
  <1> DEFINE n == Len(order)
             T == {k \in 0..n : PlannedTo(disk, mapping, order, after[k], k)}
  <1>2. 0 \in T
    <2>1. Start \in [changed : Seq([path : Nat, root : Nat, n : Nat]), counter : {0}, unreadable : BOOLEAN]
          /\ Len(Start.changed) = 0 /\ 1..0 = {} /\ 0 \in 0..n
      BY DEF Start
    <2> QED
      BY <1>1, <2>1 DEF PlannedTo
  <1>3. ASSUME NEW k \in 0..(n - 1), k \in T PROVE k + 1 \in T
    <2>1. k \in Nat /\ k + 1 \in 0..n /\ k + 1 \in 1..n /\ (k + 1) - 1 = k
      OBVIOUS
    <2>2. \A l \in 1..k : l \in 1..n /\ l # k + 1
      BY <2>1
    <2>3. after[k + 1] = Plans!PlanStep(disk, mapping, after[k], order[k + 1])
      <3>1. after[k + 1] = Plans!PlanStep(disk, mapping, after[(k + 1) - 1], order[k + 1])
        BY <1>1, <2>1
      <3> QED
        BY <2>1, <3>1
    <2>4. PlannedTo(disk, mapping, order, after[k], k)
      BY <1>3
    <2>5. \A l \in 1..k : order[l].path # order[k + 1].path
      BY <2>1, <2>2
    <2>6. PlannedTo(disk, mapping, order, Plans!PlanStep(disk, mapping, after[k], order[k + 1]), k + 1)
      BY <2>1, <2>4, <2>5, StepPlans
    <2> QED
      BY <2>1, <2>3, <2>6
  <1>4. n \in T
    <2>1. n \in Nat /\ n \in 0..n
      OBVIOUS
    <2> HIDE DEF T, n
    <2> QED
      BY <1>2, <1>3, <2>1, CountsUp
  <1> QED
    BY <1>1, <1>4

(* A focus file and at most one localisation file, both regular.           *)
IsRename(disk, focus, loc) ==
    /\ loc = {} \/ \E l : loc = {l} /\ l.path # focus.path
    /\ \A o \in Plans!Owned(focus, loc) :
          \E e \in disk : e.root = o.root /\ e.path = o.path /\ ~Plans!IsLink(e)

LEMMA OwnedOnce ==
  ASSUME NEW disk, NEW focus, NEW loc, IsRename(disk, focus, loc)
  PROVE  LET owned == Plans!Owned(focus, loc) IN
         IsFiniteSet(owned) /\ \A o, p \in owned : o.path = p.path => o = p
  <1> DEFINE F == [path |-> focus.path, root |-> focus.root, kind |-> "focus"]
             L(l) == [path |-> l.path, root |-> l.root, kind |-> "loc"]
  <1>1. CASE loc = {}
    <2>1. Plans!Owned(focus, loc) = {F}
      BY <1>1 DEF Plans!Owned
    <2> QED
      BY <2>1, FS_Singleton
  <1>2. ASSUME NEW l, loc = {l}, l.path # focus.path
        PROVE  IsFiniteSet(Plans!Owned(focus, loc))
               /\ \A o, p \in Plans!Owned(focus, loc) : o.path = p.path => o = p
    <2>1. Plans!Owned(focus, loc) = {F} \cup {L(l)} /\ F.path # L(l).path
      BY <1>2 DEF Plans!Owned
    <2> HIDE DEF F, L
    <2>2. IsFiniteSet({F} \cup {L(l)})
      BY FS_Singleton, FS_Union
    <2> QED
      BY <2>1, <2>2
  <1> QED
    BY <1>1, <1>2 DEF IsRename

(* What a plan reads: regular files, one for each path.                    *)
LEMMA EntriesAreFiles ==
  ASSUME Roots \subseteq Nat, NEW disk, IsDisk(disk),
         NEW focus, NEW loc, IsRename(disk, focus, loc)
  PROVE  LET E == Plans!Entries(disk, Plans!Owned(focus, loc)) IN
         /\ IsFiniteSet(E)
         /\ \A e \in E : \E f \in disk : f.root = e.root /\ f.path = e.path /\ ~Plans!IsLink(f)
         /\ \A e, f \in E : e.path = f.path => e = f
  <1> DEFINE owned == Plans!Owned(focus, loc)
             E == Plans!Entries(disk, owned)
             real == {e \in UNION {Plans!Scanned(disk, r) : r \in Roots} : Plans!Resolves(disk, e)}
             found == {[path |-> e.to, root |-> e.root] : e \in real}
             first == {f \in found : ~\E g \in found : g.path = f.path /\ g.root < f.root}
             scripts == {[path |-> f.path, root |-> f.root, kind |-> "script"] :
                           f \in {g \in first : ~\E o \in owned : o.path = g.path}}
             Script(e) == [path |-> e.to, root |-> e.root, kind |-> "script"]
  <1>1. E = scripts \cup owned
    BY DEF Plans!Entries
  <1>2. real \subseteq disk
    BY DEF Plans!Scanned
  <1>3. \A f \in found : f.root \in Nat /\ f.path \in Nat /\ f = [path |-> f.path, root |-> f.root]
    BY <1>2 DEF IsDisk
  <1>4. \A f, g \in first : f.path = g.path => f = g
    <2> SUFFICES ASSUME NEW f \in first, NEW g \in first, f.path = g.path PROVE f = g
      OBVIOUS
    <2>1. ~(f.root < g.root) /\ ~(g.root < f.root)
      OBVIOUS
    <2>2. f \in found /\ g \in found
      OBVIOUS
    <2> HIDE DEF first, found
    <2>3. f.root = g.root
      BY <1>3, <2>1, <2>2
    <2> QED
      BY <1>3, <2>2, <2>3
  <1>5. \A e \in scripts : \E f \in first : e = [path |-> f.path, root |-> f.root, kind |-> "script"]
                                           /\ ~\E o \in owned : o.path = f.path
    OBVIOUS
  <1>6. IsFiniteSet(E)
    <2> DEFINE h == [e \in disk |-> Script(e)]
               image == {Script(e) : e \in disk}
    <2>1. h \in Surjection(disk, image)
      BY DEF Surjection
    <2>2. IsFiniteSet(image)
      BY <2>1, FS_Surjection DEF IsDisk
    <2>3. scripts \in SUBSET image
      <3> SUFFICES ASSUME NEW s \in scripts PROVE s \in image
        OBVIOUS
      <3>1. PICK f \in found : s = [path |-> f.path, root |-> f.root, kind |-> "script"]
        BY <1>5
      <3>2. PICK e \in real : f = [path |-> e.to, root |-> e.root]
        BY <3>1
      <3>3. s = Script(e)
        BY <3>1, <3>2
      <3> HIDE DEF real
      <3> QED
        BY <1>2, <3>3
    <2>4. IsFiniteSet(scripts)
      <3> HIDE DEF image, scripts
      <3> QED
        BY <2>2, <2>3, FS_Subset
    <2>5. IsFiniteSet(owned)
      BY OwnedOnce
    <2> HIDE DEF scripts, owned, E
    <2> QED
      BY <1>1, <2>4, <2>5, FS_Union
  <1>7. \A e \in E : \E f \in disk : f.root = e.root /\ f.path = e.path /\ ~Plans!IsLink(f)
    <2>1. \A o \in owned : \E f \in disk : f.root = o.root /\ f.path = o.path /\ ~Plans!IsLink(f)
      BY DEF IsRename
    <2>2. ASSUME NEW s \in scripts
          PROVE  \E f \in disk : f.root = s.root /\ f.path = s.path /\ ~Plans!IsLink(f)
      <3>1. PICK e \in real : s.root = e.root /\ s.path = e.to
        <4>1. PICK f \in found : s = [path |-> f.path, root |-> f.root, kind |-> "script"]
          BY <1>5
        <4>2. PICK e \in real : f = [path |-> e.to, root |-> e.root]
          BY <4>1
        <4> HIDE DEF real
        <4> QED
          BY <4>1, <4>2
      <3>2. Plans!At(disk, e.root, e.to) # {} /\ ~Plans!IsLink(Plans!File(disk, e.root, e.to))
        BY DEF Plans!Resolves
      <3>3. PICK f \in disk : f.root = e.root /\ f.path = e.to
        BY <3>2 DEF Plans!At
      <3>4. Plans!File(disk, e.root, e.to) = f
        BY <3>3, FileIsEntry
      <3> QED
        BY <3>1, <3>2, <3>3, <3>4
    <2> HIDE DEF E, scripts, owned
    <2> QED
      BY <1>1, <2>1, <2>2
  <1>8. \A e, f \in E : e.path = f.path => e = f
    <2>1. \A o, p \in owned : o.path = p.path => o = p
      BY OwnedOnce
    <2>2. \A s, t \in scripts : s.path = t.path => s = t
      <3> HIDE DEF first, owned, scripts
      <3> QED
        BY <1>4, <1>5
    <2>3. \A s \in scripts, o \in owned : s.path # o.path
      <3> HIDE DEF first, owned, scripts
      <3> QED
        BY <1>5
    <2> HIDE DEF E, scripts, owned
    <2> QED
      BY <1>1, <2>1, <2>2, <2>3
  <1> QED
    BY <1>6, <1>7, <1>8

(* Ordered by root and path, every entry is there once.                    *)
LEMMA EntriesInOrder ==
  ASSUME NEW E, IsFiniteSet(E), \A e \in E : e.path \in Nat /\ e.root \in Nat,
         \A e, f \in E : e.path = f.path => e = f
  PROVE  LET order == Plans!InOrder(E) IN
         /\ Len(order) \in Nat
         /\ \A k \in 1..Len(order) : order[k] \in E
         /\ \A e \in E : \E k \in 1..Len(order) : order[k] = e
         /\ \A k, l \in 1..Len(order) : order[k].path = order[l].path => k = l
  <1> DEFINE Below(e) == {f \in E : f.root < e.root \/ (f.root = e.root /\ f.path < e.path)}
             below == [e \in E |-> Below(e)]
             s == Ranked(E, below)
  <1>1. IsOrder(E, below)
    <2>1. \A x \in E : below[x] \subseteq E /\ x \notin below[x]
      OBVIOUS
    <2>2. ASSUME NEW x \in E, NEW y \in E, x \in below[y] PROVE below[x] \subseteq below[y]
      <3> SUFFICES ASSUME NEW z \in Below(x) PROVE z \in Below(y)
        OBVIOUS
      <3>1. x \in Below(y) /\ z \in E
        BY <2>2
      <3> QED
        BY <3>1
    <2>3. ASSUME NEW x \in E, NEW y \in E, x # y PROVE x \in below[y] \/ y \in below[x]
      <3>1. x.path # y.path
        BY <2>3
      <3> QED
        BY <3>1
    <2> HIDE DEF below
    <2> QED
      BY <2>1, <2>2, <2>3 DEF IsOrder
  <1>2. Plans!InOrder(E) = s
    <2>1. Plans!Ranked(E, below) = s
      <3> HIDE DEF below
      <3> QED
        BY PlansCardinality DEF Plans!Ranked, Ranked
    <2> QED
      BY <2>1 DEF Plans!InOrder
  <1> DEFINE n == Cardinality(E)
  <1>3. /\ n \in Nat /\ Len(s) = n
        /\ \A i \in 1..n : s[i] \in E
        /\ \A x \in E : \E i \in 1..n : s[i] = x
        /\ \A i, j \in 1..n : s[i] = s[j] => i = j
    <2> HIDE DEF below
    <2>1. n \in Nat /\ Len(s) = n
      BY <1>1, RankedIsEnumeration
    <2>2. \A i \in 1..n : s[i] \in E
      BY <1>1, RankedIsEnumeration
    <2>3. \A x \in E : \E i \in 1..n : s[i] = x
      BY <1>1, RankedIsEnumeration
    <2>4. \A i, j \in 1..n : s[i] = s[j] => i = j
      BY <1>1, RankedIsEnumeration
    <2> QED
      BY <2>1, <2>2, <2>3, <2>4
  <1> HIDE DEF s, n
  <1> QED
    BY <1>2, <1>3

(* The plan of a mod plans what is rewritten of its entries.               *)
LEMMA PlanOfEntries ==
  ASSUME Roots \subseteq Nat, NEW disk, IsDisk(disk),
         NEW focus, NEW loc, IsRename(disk, focus, loc), NEW mapping
  PROVE  LET E == Plans!Entries(disk, Plans!Owned(focus, loc))
             planned == Plans!Plan(disk, mapping, Plans!InOrder(E))
             n == Len(planned.changed)
         IN  /\ n \in Nat /\ DOMAIN planned.changed = 1..n
             /\ \A i \in 1..n : \E e \in E :
                   planned.changed[i] = Item(disk, mapping, e) /\ Rewritten(disk, mapping, e)
             /\ \A e \in E : ~planned.unreadable =>
                   /\ Plans!File(disk, e.root, e.path).utf8
                   /\ Rewritten(disk, mapping, e) => \E i \in 1..n : planned.changed[i] = Item(disk, mapping, e)
             /\ \A i, j \in 1..n : planned.changed[i].path = planned.changed[j].path => i = j
  <1> DEFINE E == Plans!Entries(disk, Plans!Owned(focus, loc))
             order == Plans!InOrder(E)
             planned == Plans!Plan(disk, mapping, order)
  <1>1. /\ IsFiniteSet(E)
        /\ \A e \in E : \E f \in disk : f.root = e.root /\ f.path = e.path /\ ~Plans!IsLink(f)
        /\ \A e, f \in E : e.path = f.path => e = f
    BY EntriesAreFiles
  <1>2. \A e \in E : /\ e.path \in Nat /\ e.root \in Nat
                     /\ Plans!File(disk, e.root, e.path).text \in Seq(Seq(STRING))
                     /\ Plans!File(disk, e.root, e.path).utf8 \in BOOLEAN
    <2> SUFFICES ASSUME NEW e \in E
                 PROVE  /\ e.path \in Nat /\ e.root \in Nat
                        /\ Plans!File(disk, e.root, e.path).text \in Seq(Seq(STRING))
                        /\ Plans!File(disk, e.root, e.path).utf8 \in BOOLEAN
      OBVIOUS
    <2>1. PICK f \in disk : f.root = e.root /\ f.path = e.path
      BY <1>1
    <2>2. Plans!File(disk, e.root, e.path) = f
      BY <2>1, FileIsEntry
    <2> QED
      BY <2>1, <2>2 DEF IsDisk
  <1> HIDE DEF E
  <1>3. /\ Len(order) \in Nat
        /\ \A k \in 1..Len(order) : order[k] \in E
        /\ \A e \in E : \E k \in 1..Len(order) : order[k] = e
        /\ \A k, l \in 1..Len(order) : order[k].path = order[l].path => k = l
    BY <1>1, <1>2, EntriesInOrder
  <1> HIDE DEF order
  <1>4. PlannedTo(disk, mapping, order, planned, Len(order))
    <2>1. \A k \in 1..Len(order) :
            /\ order[k].path \in Nat /\ order[k].root \in Nat
            /\ Plans!File(disk, order[k].root, order[k].path).text \in Seq(Seq(STRING))
            /\ Plans!File(disk, order[k].root, order[k].path).utf8 \in BOOLEAN
      BY <1>2, <1>3
    <2> QED
      BY <1>3, <2>1, PlanIsExact
  <1> HIDE DEF planned
  <1> DEFINE n == Len(planned.changed)
  <1>5. n \in Nat /\ DOMAIN planned.changed = 1..n
    <2>1. planned.changed \in Seq([path : Nat, root : Nat, n : Nat])
      BY <1>4 DEF PlannedTo
    <2> QED
      BY <2>1, LenProperties
  <1> HIDE DEF n
  <1>6. \A i \in 1..n : \E e \in E :
          planned.changed[i] = Item(disk, mapping, e) /\ Rewritten(disk, mapping, e)
    BY <1>3, <1>4 DEF PlannedTo, n
  <1>7. \A e \in E : ~planned.unreadable =>
          /\ Plans!File(disk, e.root, e.path).utf8
          /\ Rewritten(disk, mapping, e) => \E i \in 1..n : planned.changed[i] = Item(disk, mapping, e)
    <2>1. \A k \in 1..Len(order) : ~planned.unreadable =>
            /\ Plans!File(disk, order[k].root, order[k].path).utf8
            /\ Rewritten(disk, mapping, order[k]) =>
                  \E i \in 1..n : planned.changed[i] = Item(disk, mapping, order[k])
      BY <1>4 DEF PlannedTo, n
    <2>2. \A e \in E : \E k \in 1..Len(order) : order[k] = e
      BY <1>3
    <2> QED
      BY <2>1, <2>2
  <1>8. \A i, j \in 1..n : planned.changed[i].path = planned.changed[j].path => i = j
    BY <1>4 DEF PlannedTo, n
  <1> QED
    BY <1>5, <1>6, <1>7, <1>8 DEF n, planned, order, E

(* A focus rename.                                                         *)
LEMMA PlanIsAlwaysWhole ==
  ASSUME Roots \subseteq Nat, NEW disk, IsDisk(disk),
         NEW focus, NEW loc, IsRename(disk, focus, loc), NEW mapping
  PROVE  Plans!PlanIsWhole(disk, focus, loc, mapping)
  <1> DEFINE owned == Plans!Owned(focus, loc)
             E == Plans!Entries(disk, owned)
             planned == Plans!Plan(disk, mapping, Plans!InOrder(E))
             plan == Plans!RenameFocusIds(disk, focus, loc, mapping, 0, Plans!Cardinality(disk))
             changed == Plans!ToSet(plan.changed)
             n == Len(planned.changed)
             Text(e) == Plans!File(disk, e.root, e.path).text
             mine == {<<o.path, o.root>> : o \in owned}
  <1> SUFFICES ASSUME plan.ok
               PROVE  /\ \A i, j \in DOMAIN plan.changed :
                            plan.changed[i].path = plan.changed[j].path => i = j
                      /\ \A c \in changed :
                            c.n = Plans!Replacements(mapping, Plans!File(disk, c.root, c.path).text)
                      /\ \A e \in disk :
                            (/\ Plans!Replacements(mapping, e.text) > 0 /\ ~Plans!IsLink(e) /\ ~Plans!Shadowed(disk, e)
                             /\ (e.tree \in ScanTrees /\ e.ext \in ScanExts) \/ <<e.path, e.root>> \in mine)
                              => \E c \in changed : c.path = e.path /\ c.root = e.root
                      /\ \A c \in changed : LET preview == Plans!Preview(disk, focus, loc, mapping, c.path, c.root)
                                            IN  preview.ok /\ preview.changed
                      /\ \A c \in changed : \A e \in disk :
                            e.root < c.root /\ e.path = c.path => Plans!IsLink(e)
    BY DEF Plans!PlanIsWhole
  <1>1. /\ Plans!File(disk, focus.root, focus.path).utf8
        /\ DOMAIN mapping # {}
        /\ ~Plans!Strays(disk)
        /\ \A o \in owned : ~Plans!Shadowed(disk, o)
        /\ ~planned.unreadable
        /\ plan.changed = planned.changed
    BY DEF Plans!RenameFocusIds, Plans!Refused
  <1>2. /\ \A e \in E : \E f \in disk : f.root = e.root /\ f.path = e.path /\ ~Plans!IsLink(f)
        /\ \A e, f \in E : e.path = f.path => e = f
    BY EntriesAreFiles
  <1>3. /\ n \in Nat /\ DOMAIN planned.changed = 1..n
        /\ \A i \in 1..n : \E e \in E :
              planned.changed[i] = Item(disk, mapping, e) /\ Rewritten(disk, mapping, e)
        /\ \A e \in E : ~planned.unreadable =>
              /\ Plans!File(disk, e.root, e.path).utf8
              /\ Rewritten(disk, mapping, e) => \E i \in 1..n : planned.changed[i] = Item(disk, mapping, e)
        /\ \A i, j \in 1..n : planned.changed[i].path = planned.changed[j].path => i = j
    BY PlanOfEntries
  <1> HIDE DEF E, planned, plan, owned
  <1>4. changed = {planned.changed[i] : i \in 1..n}
    BY <1>1, <1>3 DEF Plans!ToSet
  <1> HIDE DEF changed, n
  <1>5. \A c \in changed : \E e \in E : c = Item(disk, mapping, e) /\ Rewritten(disk, mapping, e)
    BY <1>3, <1>4
  <1>6. \A e \in E : Plans!File(disk, e.root, e.path).utf8
                     /\ (Rewritten(disk, mapping, e) => Item(disk, mapping, e) \in changed)
    BY <1>1, <1>3, <1>4
  <1>7. \A i, j \in DOMAIN plan.changed : plan.changed[i].path = plan.changed[j].path => i = j
    BY <1>1, <1>3
  <1>8. ASSUME NEW c \in changed
        PROVE  /\ c.n = Plans!Replacements(mapping, Plans!File(disk, c.root, c.path).text)
               /\ Plans!Preview(disk, focus, loc, mapping, c.path, c.root).ok
               /\ Plans!Preview(disk, focus, loc, mapping, c.path, c.root).changed
    <2>1. PICK e \in E : c = Item(disk, mapping, e) /\ Rewritten(disk, mapping, e)
      BY <1>5
    <2>2. c.path = e.path /\ c.root = e.root /\ c.n = Plans!Replacements(mapping, Text(e))
      BY <2>1 DEF Item
    <2> DEFINE asked == {x \in E : x.path = c.path /\ x.root = c.root}
               preview == Plans!Preview(disk, focus, loc, mapping, c.path, c.root)
    <2>3. asked # {}
      BY <2>2
    <2>4. Plans!File(disk, c.root, c.path).utf8
          /\ Plans!Transform(mapping, Plans!File(disk, c.root, c.path).text) # Plans!File(disk, c.root, c.path).text
      BY <1>6, <2>1, <2>2 DEF Rewritten
    <2>5. preview.ok /\ preview.changed
      BY <1>1, <2>3, <2>4 DEF Plans!Preview, E, owned
    <2> QED
      BY <2>2, <2>5
  <1>9. ASSUME NEW e \in disk,
               Plans!Replacements(mapping, e.text) > 0, ~Plans!IsLink(e), ~Plans!Shadowed(disk, e),
               (e.tree \in ScanTrees /\ e.ext \in ScanExts) \/ <<e.path, e.root>> \in mine
        PROVE  \E c \in changed : c.path = e.path /\ c.root = e.root
    <2>1. Plans!File(disk, e.root, e.path) = e /\ Plans!At(disk, e.root, e.path) = {e}
      BY FileIsEntry
    <2>2. Plans!Transform(mapping, e.text) # e.text
      BY <1>9, RewritesAreCounted DEF IsDisk
    <2>3. \A x \in E : x.path = e.path /\ x.root = e.root => \E c \in changed : c.path = e.path /\ c.root = e.root
      <3> SUFFICES ASSUME NEW x \in E, x.path = e.path, x.root = e.root
                   PROVE  \E c \in changed : c.path = e.path /\ c.root = e.root
        OBVIOUS
      <3>1. Rewritten(disk, mapping, x)
        BY <2>1, <2>2 DEF Rewritten
      <3>2. Item(disk, mapping, x) \in changed
        BY <1>6, <3>1
      <3>3. Item(disk, mapping, x).path = e.path /\ Item(disk, mapping, x).root = e.root
        BY DEF Item
      <3> QED
        BY <3>2, <3>3
    <2>4. owned \subseteq E
      BY DEF E, Plans!Entries
    <2>5. CASE <<e.path, e.root>> \in mine
      <3>1. PICK o \in owned : o.path = e.path /\ o.root = e.root
        BY <2>5
      <3> QED
        BY <2>3, <2>4, <3>1
    <2>6. CASE e.tree \in ScanTrees /\ e.ext \in ScanExts /\ <<e.path, e.root>> \notin mine
      <3> DEFINE f == [path |-> e.path, root |-> e.root]
                 real == {x \in UNION {Plans!Scanned(disk, r) : r \in Roots} : Plans!Resolves(disk, x)}
                 found == {[path |-> x.to, root |-> x.root] : x \in real}
      <3>1. e \in real /\ e.to = e.path
        <4>1. e.to = e.path /\ ~e.leaves
          BY <1>9 DEF Plans!IsLink
        <4>2. Plans!Resolves(disk, e)
          BY <1>9, <2>1, <4>1 DEF Plans!Resolves
        <4>3. e \in Plans!Scanned(disk, e.root) /\ e.root \in Roots
          BY <2>6 DEF Plans!Scanned, IsDisk
        <4> QED
          BY <4>1, <4>2, <4>3
      <3>2. f \in found
        BY <3>1
      <3>3. ~\E g \in found : g.path = f.path /\ g.root < f.root
        <4> SUFFICES ASSUME NEW x \in real, x.to = e.path, x.root < e.root PROVE FALSE
          OBVIOUS
        <4>1. x \in disk /\ x.root \in Roots /\ Plans!At(disk, x.root, x.to) # {}
          BY DEF Plans!Scanned, Plans!Resolves
        <4> HIDE DEF real
        <4> QED
          BY <1>9, <4>1 DEF Plans!Shadowed
      <3>4. ~\E o \in owned : o.path = f.path
        <4> SUFFICES ASSUME NEW o \in owned, o.path = e.path PROVE FALSE
          OBVIOUS
        <4>1. PICK x \in disk : x.root = o.root /\ x.path = o.path
          BY DEF IsRename, owned
        <4>2. x.root \in Roots /\ e.root \in Roots
          BY DEF IsDisk
        <4>3. Plans!At(disk, x.root, e.path) # {} /\ Plans!At(disk, e.root, x.path) # {}
          BY <4>1 DEF Plans!At
        <4>4. ~(x.root < e.root)
          BY <1>9, <4>2, <4>3 DEF Plans!Shadowed
        <4>5. ~(e.root < x.root)
          BY <1>1, <4>1, <4>2, <4>3 DEF Plans!Shadowed
        <4>6. x.root = e.root
          <5>1. x.root \in Nat /\ e.root \in Nat
            BY <4>2
          <5> HIDE DEF real, found, f
          <5> QED
            BY <4>4, <4>5, <5>1
        <4> QED
          BY <2>6, <4>1, <4>6
      <3>5. [path |-> f.path, root |-> f.root, kind |-> "script"] \in E
        BY <3>2, <3>3, <3>4 DEF E, Plans!Entries
      <3> QED
        BY <2>3, <3>5
    <2> QED
      BY <1>9, <2>5, <2>6
  <1>10. ASSUME NEW c \in changed, NEW y \in disk,
                y.root < c.root, y.path = c.path, ~Plans!IsLink(y)
         PROVE  FALSE
    <2>1. PICK e \in E : c = Item(disk, mapping, e)
      BY <1>5
    <2>2. c.path = e.path /\ c.root = e.root
      BY <2>1 DEF Item
    <2>3. CASE e \in owned
      <3>1. y.root \in Roots /\ y.root < e.root /\ Plans!At(disk, y.root, e.path) # {}
        BY <1>10, <2>2 DEF IsDisk, Plans!At
      <3> QED
        BY <1>1, <2>3, <3>1 DEF Plans!Shadowed
    <2>4. CASE e \notin owned
      <3> DEFINE real == {x \in UNION {Plans!Scanned(disk, r) : r \in Roots} : Plans!Resolves(disk, x)}
                 found == {[path |-> x.to, root |-> x.root] : x \in real}
                 first == {f \in found : ~\E g \in found : g.path = f.path /\ g.root < f.root}
      <3>1. PICK f \in first : e = [path |-> f.path, root |-> f.root, kind |-> "script"]
        BY <2>4 DEF E, Plans!Entries
      <3>2. PICK x \in real : f = [path |-> x.to, root |-> x.root]
        BY <3>1
      <3>3. PICK t \in disk : t.root = x.root /\ t.path = x.to
        BY DEF Plans!Resolves, Plans!At
      <3>4. t.tree \in ScanTrees /\ t.ext \in ScanExts
        <4>1. t \in Plans!At(disk, x.root, x.to) /\ x \in UNION {Plans!Scanned(disk, r) : r \in Roots}
          BY <3>3 DEF Plans!At
        <4> QED
          BY <1>1, <4>1 DEF Plans!Strays
      <3>5. y.path = t.path /\ y.root \in Roots /\ y.root < f.root
        BY <1>10, <2>2, <3>1, <3>2, <3>3 DEF IsDisk
      <3>6. y.tree \in ScanTrees /\ y.ext \in ScanExts
        BY <3>4, <3>5 DEF IsDisk
      <3>7. y.to = y.path /\ ~y.leaves
        BY <1>10 DEF Plans!IsLink, IsDisk
      <3>8. Plans!At(disk, y.root, y.to) # {} /\ Plans!File(disk, y.root, y.to) = y
        BY <3>7, FileIsEntry
      <3>9. y \in real
        BY <1>10, <3>5, <3>6, <3>7, <3>8 DEF Plans!Scanned, Plans!Resolves
      <3>10. [path |-> y.to, root |-> y.root] \in found
        BY <3>9
      <3> HIDE DEF found
      <3> QED
        BY <3>1, <3>2, <3>3, <3>5, <3>7, <3>10
    <2> QED
      BY <2>3, <2>4
  <1> QED
    BY <1>7, <1>8, <1>9, <1>10

(* A spot check.                                                           *)
LEMMA SpotFilesAreAlwaysEffective ==
  ASSUME Roots \subseteq Nat \ {0}, NEW disk, IsDisk(disk), NEW requests
  PROVE  Plans!SpotFilesAreEffective(disk, requests)
  <1> DEFINE Owner(r) == Plans!SpotOwner(disk, r)
             Choice(r) == [path |-> r.path, root |-> Owner(r)]
             asked == Plans!ToSet(requests)
             chosen == Plans!SpotFiles(disk, requests)
  <1>1. /\ \A c, d \in chosen : c.path = d.path => c = d
        /\ \A c \in chosen : c.root # 0 /\ \E r \in asked : c = Choice(r)
        /\ chosen # {} => \A r \in asked : Choice(r) \in chosen
    BY DEF Plans!SpotFiles
  <1>2. ASSUME NEW r, Owner(r) # 0
        PROVE  /\ \A e \in Plans!At(disk, Owner(r), r.path) : ~Plans!IsLink(e) /\ e.ext = "txt"
               /\ r.root = 0 => ~\E p \in Roots : p < Owner(r) /\ Plans!At(disk, p, r.path) # {}
    <2> DEFINE roots == IF r.root = 0 THEN Roots ELSE Roots \cap {r.root}
               present == {p \in roots : Plans!At(disk, p, r.path) # {}}
               first == Plans!File(disk, Plans!Min(present), r.path)
    <2>1. present # {} /\ ~Plans!IsLink(first) /\ first.ext = "txt" /\ Owner(r) = Plans!Min(present)
      BY <1>2 DEF Plans!SpotOwner
    <2>2. Plans!Min(present) \in present /\ \A p \in present : Plans!Min(present) <= p
      <3>1. present \in SUBSET Nat
        OBVIOUS
      <3>2. \E p \in present : \A q \in present : p <= q
        BY <2>1, <3>1, LeastNumber
      <3> HIDE DEF present
      <3> QED
        BY <3>2 DEF Plans!Min
    <2>3. \A e \in Plans!At(disk, Owner(r), r.path) : e = first
      BY <2>1, FileIsEntry DEF Plans!At
    <2>4. \A p \in present : p \in Nat
      OBVIOUS
    <2>5. r.root = 0 => \A p \in Roots : Plans!At(disk, p, r.path) # {} => p \in present
      OBVIOUS
    <2> HIDE DEF present
    <2> QED
      BY <2>1, <2>2, <2>3, <2>4, <2>5
  <1>3. \A c \in chosen : \A e \in Plans!At(disk, c.root, c.path) : ~Plans!IsLink(e) /\ e.ext = "txt"
    <2> HIDE DEF chosen, asked, Owner
    <2> QED
      BY <1>1, <1>2
  <1>4. ASSUME NEW k \in DOMAIN requests, requests[k].root = 0,
               NEW c \in chosen, c.path = requests[k].path
        PROVE  ~Plans!Shadowed(disk, c)
    <2>1. requests[k] \in asked
      BY DEF Plans!ToSet
    <2> HIDE DEF chosen, asked
    <2>2. c = Choice(requests[k]) /\ Owner(requests[k]) # 0
      BY <1>1, <1>4, <2>1
    <2> HIDE DEF Owner
    <2> QED
      BY <1>2, <1>4, <2>2 DEF Plans!Shadowed
  <1> QED
    BY <1>1, <1>3, <1>4 DEF Plans!SpotFilesAreEffective

(* What may be asked about plans and spot checks of a mod.                 *)
IsPlanQuestion(q) ==
    /\ q.kind \in {"plan", "files"} /\ IsDisk(q.disk)
    /\ q.kind = "plan" => IsRename(q.disk, q.focus, q.loc)

LEMMA PlansAreAlwaysEffective ==
  ASSUME NEW q, IsPlanQuestion(q)
  PROVE  Plans!PlansAreEffective(q)
  BY RootsArePositions, PlanIsAlwaysWhole, SpotFilesAreAlwaysEffective DEF Plans!PlansAreEffective, IsPlanQuestion

-----------------------------------------------------------------------------
(* References and their pages.                                             *)
LEMMA RefsCardinality == \A S : Refs!Cardinality(S) = Cardinality(S)
  BY DEF Refs!Cardinality, Cardinality

LEMMA RefsMin ==
  ASSUME NEW T \in SUBSET Nat, T # {}
  PROVE  Refs!Min(T) \in T /\ \A m \in T : Refs!Min(T) <= m
  BY LeastNumber DEF Refs!Min

LEMMA Multiples ==
  ASSUME NEW j \in Nat, NEW k \in Nat, NEW step \in Nat
  PROVE  /\ j * step \in Nat
         /\ j < k => j * step + step <= k * step
         /\ step > 0 => j <= j * step
  <1>1. j * step \in Nat
    OBVIOUS
  <1>2. ASSUME j < k PROVE j * step + step <= k * step
    <2>1. PICK d \in Nat : k = j + 1 + d
      <3>1. k - (j + 1) \in Nat /\ k = j + 1 + (k - (j + 1))
        BY <1>2
      <3> QED
        BY <3>1
    <2>2. k * step = j * step + step + d * step /\ d * step \in Nat
      BY <2>1
    <2> QED
      BY <1>1, <2>2
  <1>3. ASSUME step > 0 PROVE j <= j * step
    <2>1. PICK d \in Nat : step = 1 + d
      <3>1. step - 1 \in Nat /\ step = 1 + (step - 1)
        BY <1>3
      <3> QED
        BY <3>1
    <2>2. j * step = j + j * d /\ j * d \in Nat
      BY <2>1
    <2> QED
      BY <2>2
  <1> QED
    BY <1>1, <1>2, <1>3

(* Pages of one size, up to the first that is not truncated, add up.       *)
LEMMA PagesAddUp ==
  ASSUME NEW n \in Nat, NEW size \in Nat, size > 0, NEW last \in Nat,
         n <= last * size + size, \A j \in 0..(last - 1) : j * size + size < n,
         NEW amount, DOMAIN amount = 0..last,
         \A k \in 0..last : /\ amount[k] \in Nat
                            /\ \A u \in Nat : (u <= amount[k]) <=> (u = 0 \/ (u <= size /\ k * size + u <= n))
  PROVE  Refs!Total(amount) = n
  <1> DEFINE U == Refs!Units(amount)
             h == [p \in U |-> p[1] * size + p[2]]
  <1>1. \A p : p \in U <=> \E k \in 0..last : \E u \in 1..amount[k] : p = <<k, u>>
    BY DEF Refs!Units
  <1>2. ASSUME NEW k \in 0..last, NEW u \in 1..amount[k]
        PROVE  <<k, u>> \in U /\ u \in 1..size /\ k * size + u \in 1..n /\ h[<<k, u>>] = k * size + u
    <2>1. k \in Nat /\ u \in Nat /\ u >= 1 /\ amount[k] \in Nat /\ u <= amount[k]
      OBVIOUS
    <2>2. u <= size /\ k * size + u <= n
      BY <2>1
    <2>3. k * size \in Nat
      BY <2>1, Multiples
    <2>4. <<k, u>> \in U
      BY <1>1
    <2> HIDE DEF U
    <2> QED
      BY <2>1, <2>2, <2>3, <2>4
  <1> HIDE DEF U, h
  <1>3. h \in [U -> 1..n]
    <2>1. \A p \in U : h[p] \in 1..n
      BY <1>1, <1>2
    <2> QED
      BY <2>1 DEF h
  <1>4. ASSUME NEW p \in U, NEW q \in U, h[p] = h[q] PROVE p = q
    <2>1. PICK k \in 0..last : \E u \in 1..amount[k] : p = <<k, u>>
      BY <1>1
    <2>2. PICK u \in 1..amount[k] : p = <<k, u>>
      BY <2>1
    <2>3. PICK j \in 0..last : \E v \in 1..amount[j] : q = <<j, v>>
      BY <1>1
    <2>4. PICK v \in 1..amount[j] : q = <<j, v>>
      BY <2>3
    <2>5. u \in 1..size /\ v \in 1..size /\ k * size + u = j * size + v
      BY <1>2, <1>4, <2>2, <2>4
    <2>6. k \in Nat /\ j \in Nat /\ k * size \in Nat /\ j * size \in Nat
          /\ (k < j => k * size + size <= j * size) /\ (j < k => j * size + size <= k * size)
      <3>1. k \in Nat /\ j \in Nat
        OBVIOUS
      <3> QED
        BY <3>1, Multiples
    <2>7. ~(k < j) /\ ~(j < k)
      BY <2>5, <2>6
    <2>8. k = j
      BY <2>6, <2>7
    <2>9. u = v
      BY <2>5, <2>6, <2>8
    <2> QED
      BY <2>2, <2>4, <2>8, <2>9
  <1>5. ASSUME NEW m \in 1..n PROVE \E p \in U : h[p] = m
    <2> DEFINE T == {k \in Nat : m <= k * size + size}
    <2>1. T \in SUBSET Nat /\ last \in T
      BY Multiples
    <2>2. PICK k \in T : \A j \in T : k <= j
      <3> HIDE DEF T
      <3> QED
        BY <2>1, LeastNumber
    <2>3. k \in 0..last /\ k * size \in Nat
      <3>1. k \in Nat /\ k <= last
        BY <2>1, <2>2
      <3> QED
        BY <3>1, Multiples
    <2>4. k * size < m
      <3>1. CASE k = 0
        BY <3>1
      <3>2. CASE k # 0
        <4>1. k - 1 \in Nat /\ k - 1 \notin T
          <5>1. k \in Nat /\ k - 1 \in Nat /\ ~(k <= k - 1)
            BY <3>2
          <5> HIDE DEF T
          <5> QED
            BY <2>2, <5>1
        <4>2. ~(m <= (k - 1) * size + size)
          BY <4>1
        <4>3. (k - 1) * size + size = k * size
          <5>1. PICK j \in Nat : k = j + 1
            BY <4>1
          <5>2. (j + 1) * size = j * size + size
            OBVIOUS
          <5> QED
            BY <5>1, <5>2
        <4> QED
          BY <2>3, <4>2, <4>3
      <3> QED
        BY <3>1, <3>2
    <2> DEFINE u == m - k * size
    <2>5. u \in Nat /\ u >= 1 /\ u <= size /\ k * size + u = m
      BY <2>2, <2>3, <2>4
    <2> HIDE DEF u, T
    <2>6. u \in 1..amount[k]
      BY <2>3, <2>5
    <2> QED
      BY <1>2, <2>3, <2>5, <2>6
  <1>6. h \in Bijection(U, 1..n)
    <2>1. h \in Injection(U, 1..n)
      BY <1>3, <1>4 DEF Injection, IsInjective
    <2>2. h \in Surjection(U, 1..n)
      BY <1>3, <1>5 DEF Surjection
    <2> QED
      BY <2>1, <2>2 DEF Bijection
  <1>7. IsFiniteSet(1..n) /\ Cardinality(1..n) = n
    <2>1. 1 \in Int /\ n \in Int /\ n - 1 + 1 = n
      OBVIOUS
    <2>2. IsFiniteSet(1..n) /\ Cardinality(1..n) = IF 1 > n THEN 0 ELSE n - 1 + 1
      BY <2>1, FS_Interval
    <2> QED
      BY <2>2
  <1>8. Cardinality(U) = n
    <2>1. ExistsBijection(1..n, U)
      BY <1>6, Fun_ExistsBijSymmetric DEF ExistsBijection
    <2> QED
      BY <1>7, <2>1, FS_Bijection
  <1>9. Refs!Cardinality(U) = n
    BY <1>8, RefsCardinality
  <1> QED
    BY <1>9 DEF Refs!Total, U

LEMMA RefsMinOfTwo ==
  ASSUME NEW a \in Int, NEW b \in Int
  PROVE  Refs!Min({a, b}) = IF a <= b THEN a ELSE b
  <1> DEFINE least == IF a <= b THEN a ELSE b
  <1>1. least \in {a, b} /\ \A y \in {a, b} : least <= y
    OBVIOUS
  <1>2. \A x \in {a, b} : (\A y \in {a, b} : x <= y) => x = least
    OBVIOUS
  <1> HIDE DEF least
  <1>3. Refs!Min({a, b}) = least
    BY <1>1, <1>2 DEF Refs!Min
  <1> QED
    BY <1>3 DEF least

LEMMA RefsMaxIsNatural ==
  ASSUME NEW a \in Nat, NEW b \in Nat
  PROVE  Refs!Max({a, b}) \in Nat
  <1>1. \E x \in {a, b} : \A y \in {a, b} : x >= y
    OBVIOUS
  <1> QED
    BY <1>1 DEF Refs!Max

(* The files of a mod: a path tells where a file lies and what it is, and  *)
(* a root has one file at a path.                                          *)
IsMod(files) ==
    /\ IsFiniteSet(files)
    /\ \A f \in files : f.root \in Nat /\ f.path \in Nat
                        /\ f.words \in Seq([name : STRING, line : Nat, form : Refs!Forms])
    /\ \A f, g \in files : f.path = g.path => /\ f.under = g.under /\ f.ext = g.ext
                                              /\ f.root = g.root => f = g

(* What a walk reads: one file for each path, of the first root with it.   *)
LEMMA WalkReadsTheFirst ==
  ASSUME NEW files, IsMod(files), NEW dirs, NEW exts
  PROVE  LET V == Refs!Visible(files, dirs, exts) IN
         /\ V \in SUBSET files /\ IsFiniteSet(V)
         /\ \A f \in V : f.under \cap dirs # {} /\ f.ext \in exts
         /\ \A f, g \in V : f.path = g.path => f = g
         /\ \A f \in files : f \in V <=> /\ f.under \cap dirs # {} /\ f.ext \in exts
                                         /\ \A g \in files : g.path = f.path => f.root <= g.root
  <1> DEFINE V == Refs!Visible(files, dirs, exts)
             scanned == {f \in files : f.under \cap dirs # {} /\ f.ext \in exts}
  <1>1. V = {f \in scanned : ~\E g \in scanned : g.path = f.path /\ g.root < f.root}
    BY DEF Refs!Visible
  <1>2. V \in SUBSET files /\ IsFiniteSet(V)
    <2>1. V \in SUBSET files
      BY <1>1
    <2> HIDE DEF V
    <2> QED
      BY <2>1, FS_Subset DEF IsMod
  <1>3. \A f, g \in files : f.path = g.path => (f \in scanned <=> g \in scanned)
    BY DEF IsMod
  <1>4. ASSUME NEW f \in files
        PROVE  f \in V <=> f \in scanned /\ \A g \in files : g.path = f.path => f.root <= g.root
    <2>1. \A g \in files : f.root \in Nat /\ g.root \in Nat
      BY DEF IsMod
    <2>2. \A g \in files : ~(g.root < f.root) <=> f.root <= g.root
      BY <2>1
    <2> HIDE DEF V
    <2>3. f \in V <=> f \in scanned /\ \A g \in scanned : g.path = f.path => ~(g.root < f.root)
      BY <1>1
    <2>4. scanned \subseteq files
      OBVIOUS
    <2> HIDE DEF scanned
    <2> QED
      BY <1>3, <2>2, <2>3, <2>4
  <1>5. ASSUME NEW f \in V, NEW g \in V, f.path = g.path PROVE f = g
    <2>1. f \in files /\ g \in files
      BY <1>2
    <2> HIDE DEF V, scanned
    <2>2. f.root <= g.root /\ g.root <= f.root
      BY <1>4, <1>5, <2>1
    <2>3. f.root \in Nat /\ g.root \in Nat
      BY <2>1 DEF IsMod
    <2>4. f.root = g.root
      BY <2>2, <2>3
    <2> QED
      BY <1>5, <2>1, <2>4 DEF IsMod
  <1> HIDE DEF V
  <1>6. \A f \in V : f.under \cap dirs # {} /\ f.ext \in exts
    BY <1>1
  <1>7. ASSUME NEW f \in files
        PROVE  f \in V <=> /\ f.under \cap dirs # {} /\ f.ext \in exts
                          /\ \A g \in files : g.path = f.path => f.root <= g.root
    <2>1. f \in scanned <=> f.under \cap dirs # {} /\ f.ext \in exts
      OBVIOUS
    <2> HIDE DEF scanned
    <2> QED
      BY <1>4, <2>1
  <1> QED
    BY <1>2, <1>5, <1>6, <1>7 DEF V

LEMMA PairsAreFinite ==
  ASSUME NEW V, IsFiniteSet(V), NEW each, \A f \in V : IsFiniteSet(each[f])
  PROVE  IsFiniteSet(UNION {{<<f, j>> : j \in each[f]} : f \in V})
  <1> DEFINE sets == {each[f] : f \in V}
             all == UNION sets
             pairs == UNION {{<<f, j>> : j \in each[f]} : f \in V}
  <1>1. IsFiniteSet(sets)
    <2> DEFINE h == [f \in V |-> each[f]]
    <2>1. h \in Surjection(V, sets)
      BY DEF Surjection
    <2> QED
      BY <2>1, FS_Surjection
  <1>2. IsFiniteSet(all)
    BY <1>1, FS_UNION
  <1>3. IsFiniteSet(V \X all)
    BY <1>2, FS_Product
  <1>4. pairs \in SUBSET (V \X all)
    OBVIOUS
  <1> HIDE DEF pairs, all
  <1>5. IsFiniteSet(pairs)
    BY <1>3, <1>4, FS_Subset
  <1> QED
    BY <1>5 DEF pairs

(* Where the walk stands at a match, as numbers.                           *)
IsPlace(m, files, target) ==
    /\ m = <<m[1], m[2]>>
    /\ m[1] \in Refs!Visible(files, Refs!ToSet(ScanDirs), {"txt"})
    /\ m[2] \in Refs!ActiveMatches(m[1], target)
    /\ m[2] \in Nat /\ m[2] \in DOMAIN m[1].words
    /\ m[1] \in files /\ m[1].root \in Nat /\ m[1].path \in Nat /\ Refs!DirOf(m[1]) \in Nat

LEMMA MatchesArePlaces ==
  ASSUME ScanDirs \in Seq(STRING), NEW files, IsMod(files), NEW target
  PROVE  LET M == Refs!Matches(files, target) IN
         /\ IsFiniteSet(M)
         /\ \A m \in M : IsPlace(m, files, target)
         /\ \A f \in Refs!Visible(files, Refs!ToSet(ScanDirs), {"txt"}) :
               \A j \in Refs!ActiveMatches(f, target) : <<f, j>> \in M
         /\ \A m, p \in M : m[1].path = p[1].path => m[1] = p[1]
  <1> DEFINE M == Refs!Matches(files, target)
             V == Refs!Visible(files, Refs!ToSet(ScanDirs), {"txt"})
             each == [f \in V |-> Refs!ActiveMatches(f, target)]
  <1>1. /\ V \in SUBSET files /\ IsFiniteSet(V)
        /\ \A f \in V : f.under \cap Refs!ToSet(ScanDirs) # {}
        /\ \A f, g \in V : f.path = g.path => f = g
    BY WalkReadsTheFirst
  <1>2. M = UNION {{<<f, j>> : j \in Refs!ActiveMatches(f, target)} : f \in V}
    BY DEF Refs!Matches
  <1> HIDE DEF M, V
  <1>3. ASSUME NEW f \in V
        PROVE  /\ Refs!ActiveMatches(f, target) \in SUBSET (DOMAIN f.words)
               /\ DOMAIN f.words = 1..Len(f.words) /\ Len(f.words) \in Nat
               /\ IsFiniteSet(Refs!ActiveMatches(f, target))
    <2>1. f.words \in Seq([name : STRING, line : Nat, form : Refs!Forms])
      BY <1>1 DEF IsMod
    <2>2. DOMAIN f.words = 1..Len(f.words) /\ Len(f.words) \in Nat
      BY <2>1
    <2>3. IsFiniteSet(1..Len(f.words))
      <3>1. 1 \in Int /\ Len(f.words) \in Int
        BY <2>2
      <3> QED
        BY <3>1, FS_Interval
    <2>4. Refs!ActiveMatches(f, target) \in SUBSET (DOMAIN f.words)
      BY DEF Refs!ActiveMatches
    <2> QED
      BY <2>2, <2>3, <2>4, FS_Subset
  <1>4. IsFiniteSet(M)
    <2>1. \A f \in V : IsFiniteSet(each[f])
      BY <1>3
    <2>2. M = UNION {{<<f, j>> : j \in each[f]} : f \in V}
      BY <1>2
    <2> HIDE DEF each
    <2> QED
      BY <1>1, <2>1, <2>2, PairsAreFinite
  <1>5. ASSUME NEW f \in V PROVE Refs!DirOf(f) \in Nat
    <2> DEFINE T == {k \in DOMAIN ScanDirs : ScanDirs[k] \in f.under}
    <2>1. T \in SUBSET Nat
      OBVIOUS
    <2>2. T # {}
      BY <1>1 DEF Refs!ToSet
    <2> HIDE DEF T
    <2>3. Refs!Min(T) \in Nat
      BY <2>1, <2>2, RefsMin
    <2> QED
      BY <2>3 DEF Refs!DirOf, T
  <1>6. \A m \in M : \E f \in V : \E j \in Refs!ActiveMatches(f, target) : m = <<f, j>>
    BY <1>2
  <1>7. ASSUME NEW m \in M PROVE IsPlace(m, files, target)
    <2>1. PICK f \in V : \E j \in Refs!ActiveMatches(f, target) : m = <<f, j>>
      BY <1>6
    <2>2. PICK j \in Refs!ActiveMatches(f, target) : m = <<f, j>>
      BY <2>1
    <2>3. m[1] = f /\ m[2] = j /\ m = <<m[1], m[2]>>
      BY <2>2
    <2>4. f \in files /\ f.root \in Nat /\ f.path \in Nat
      BY <1>1 DEF IsMod
    <2>5. j \in DOMAIN f.words /\ j \in Nat
      BY <1>3
    <2> QED
      BY <1>5, <2>3, <2>4, <2>5 DEF IsPlace, V
  <1>8. \A f \in V : \A j \in Refs!ActiveMatches(f, target) : <<f, j>> \in M
    BY <1>2
  <1>9. \A m, p \in M : m[1].path = p[1].path => m[1] = p[1]
    BY <1>1, <1>7 DEF IsPlace, V
  <1> QED
    BY <1>4, <1>7, <1>8, <1>9 DEF M, V

(* The walk finds every match once.                                        *)
LEMMA ScanFindsEachMatch ==
  ASSUME ScanDirs \in Seq(STRING), NEW files, IsMod(files), NEW target
  PROVE  LET M == Refs!Matches(files, target)
             all == Refs!ScanOrder(M)
         IN  /\ IsFiniteSet(M) /\ Cardinality(M) \in Nat
             /\ all \in Seq(M) /\ Len(all) = Cardinality(M)
  <1> DEFINE M == Refs!Matches(files, target)
             all == Refs!ScanOrder(M)
             below == [b \in M |-> {a \in M : Refs!Before(a, b)}]
             R(m) == m[1].root
             D(m) == Refs!DirOf(m[1])
             P(m) == m[1].path
             J(m) == m[2]
  <1>1. /\ IsFiniteSet(M)
        /\ \A m \in M : IsPlace(m, files, target)
        /\ \A m, p \in M : m[1].path = p[1].path => m[1] = p[1]
    BY MatchesArePlaces
  <1> HIDE DEF M
  <1>2. \A m \in M : R(m) \in Nat /\ D(m) \in Nat /\ P(m) \in Nat /\ J(m) \in Nat
    BY <1>1 DEF IsPlace
  <1>3. \A a, b \in M : P(a) = P(b) => R(a) = R(b) /\ D(a) = D(b)
    BY <1>1
  <1>4. \A a, b \in M : Refs!Before(a, b) <=>
            \/ R(a) < R(b)
            \/ R(a) = R(b) /\ D(a) < D(b)
            \/ R(a) = R(b) /\ D(a) = D(b) /\ P(a) < P(b)
            \/ P(a) = P(b) /\ J(a) < J(b)
    <2> SUFFICES ASSUME NEW a \in M, NEW b \in M
                 PROVE  Refs!Before(a, b) <=>
                          \/ R(a) < R(b)
                          \/ R(a) = R(b) /\ D(a) < D(b)
                          \/ R(a) = R(b) /\ D(a) = D(b) /\ P(a) < P(b)
                          \/ P(a) = P(b) /\ J(a) < J(b)
      OBVIOUS
    <2>1. a[1] = b[1] <=> P(a) = P(b)
      BY <1>1
    <2>2. Refs!Before(a, b) <=>
             \/ R(a) < R(b)
             \/ /\ R(a) = R(b)
                /\ \/ D(a) < D(b)
                   \/ D(a) = D(b) /\ P(a) < P(b)
                   \/ a[1] = b[1] /\ J(a) < J(b)
      BY DEF Refs!Before
    <2>3. P(a) = P(b) => R(a) = R(b)
      BY <1>3
    <2> HIDE DEF R, D, P, J
    <2> QED
      BY <2>1, <2>2, <2>3
  <1>5. \A a, b \in M : a # b => P(a) # P(b) \/ J(a) # J(b)
    <2> SUFFICES ASSUME NEW a \in M, NEW b \in M, P(a) = P(b), J(a) = J(b) PROVE a = b
      OBVIOUS
    <2>1. a[1] = b[1] /\ a = <<a[1], a[2]>> /\ b = <<b[1], b[2]>>
      BY <1>1 DEF IsPlace
    <2> QED
      BY <2>1
  <1> HIDE DEF R, D, P, J
  <1>6. IsOrder(M, below)
    <2>1. ASSUME NEW a \in M PROVE ~Refs!Before(a, a)
      <3>1. R(a) \in Nat /\ D(a) \in Nat /\ P(a) \in Nat /\ J(a) \in Nat
        BY <1>2
      <3> QED
        BY <1>4, <3>1
    <2>2. ASSUME NEW a \in M, NEW b \in M, NEW c \in M, Refs!Before(a, b), Refs!Before(b, c)
          PROVE  Refs!Before(a, c)
      <3>1. /\ R(a) \in Nat /\ D(a) \in Nat /\ P(a) \in Nat /\ J(a) \in Nat
            /\ R(b) \in Nat /\ D(b) \in Nat /\ P(b) \in Nat /\ J(b) \in Nat
            /\ R(c) \in Nat /\ D(c) \in Nat /\ P(c) \in Nat /\ J(c) \in Nat
        BY <1>2
      <3>2. /\ P(a) = P(b) => R(a) = R(b) /\ D(a) = D(b)
            /\ P(b) = P(c) => R(b) = R(c) /\ D(b) = D(c)
        BY <1>3
      <3>3. /\ \/ R(a) < R(b)
               \/ R(a) = R(b) /\ D(a) < D(b)
               \/ R(a) = R(b) /\ D(a) = D(b) /\ P(a) < P(b)
               \/ P(a) = P(b) /\ J(a) < J(b)
            /\ \/ R(b) < R(c)
               \/ R(b) = R(c) /\ D(b) < D(c)
               \/ R(b) = R(c) /\ D(b) = D(c) /\ P(b) < P(c)
               \/ P(b) = P(c) /\ J(b) < J(c)
        BY <1>4, <2>2
      <3>4. \/ R(a) < R(c)
            \/ R(a) = R(c) /\ D(a) < D(c)
            \/ R(a) = R(c) /\ D(a) = D(c) /\ P(a) < P(c)
            \/ P(a) = P(c) /\ J(a) < J(c)
        BY <3>1, <3>2, <3>3
      <3> QED
        BY <1>4, <3>4
    <2>3. ASSUME NEW a \in M, NEW b \in M, a # b PROVE Refs!Before(a, b) \/ Refs!Before(b, a)
      <3>1. /\ R(a) \in Nat /\ D(a) \in Nat /\ P(a) \in Nat /\ J(a) \in Nat
            /\ R(b) \in Nat /\ D(b) \in Nat /\ P(b) \in Nat /\ J(b) \in Nat
        BY <1>2
      <3>2. P(a) # P(b) \/ J(a) # J(b)
        BY <1>5, <2>3
      <3>3. /\ \/ R(a) < R(b)
               \/ R(a) = R(b) /\ D(a) < D(b)
               \/ R(a) = R(b) /\ D(a) = D(b) /\ P(a) < P(b)
               \/ P(a) = P(b) /\ J(a) < J(b)
               \/ R(b) < R(a)
               \/ R(b) = R(a) /\ D(b) < D(a)
               \/ R(b) = R(a) /\ D(b) = D(a) /\ P(b) < P(a)
               \/ P(b) = P(a) /\ J(b) < J(a)
        BY <3>1, <3>2
      <3> QED
        BY <1>4, <3>3
    <2> QED
      BY <2>1, <2>2, <2>3 DEF IsOrder
  <1>7. all = Ranked(M, below)
    <2>1. Refs!Ranked(M, below) = Ranked(M, below)
      <3> HIDE DEF below
      <3> QED
        BY RefsCardinality DEF Refs!Ranked, Ranked
    <2> QED
      BY <2>1 DEF Refs!ScanOrder
  <1>8. all \in Seq(M) /\ Len(all) = Cardinality(M) /\ Cardinality(M) \in Nat
    <2> HIDE DEF below, all
    <2> QED
      BY <1>1, <1>6, <1>7, RankedIsEnumeration
  <1> HIDE DEF all
  <1> QED
    BY <1>1, <1>8 DEF all, M

Shown(m) == [path |-> m[1].path, line |-> m[1].words[m[2]].line]

(* The total and the page of an answer, cut by the cap and the offset.     *)
CountsMatches(answer, matches, offset, limit) ==
    LET n == Cardinality(matches)
        size == Len(answer.matches)
    IN  /\ answer.total \in Nat /\ answer.total <= n
        /\ answer.truncated <=> offset + limit < answer.total
        /\ ~answer.scanTruncated => answer.total = n
        /\ size \in Nat
        /\ \A u \in Nat : (u <= size) <=> (u = 0 \/ (u <= limit /\ offset + u <= answer.total))

ShowsMatches(answer, matches) ==
    \A shown \in Refs!ToSet(answer.matches) : \E m \in matches : shown = Shown(m)

LEMMA AnswersCountMatches ==
  ASSUME ScanDirs \in Seq(STRING), ScanFloor \in Nat, ScanFactor \in Nat,
         NEW files, IsMod(files), NEW target, NEW offset \in Nat, NEW limit \in Nat
  PROVE  LET answer == Refs!FindReferences(files, target, offset, limit) IN
         /\ CountsMatches(answer, Refs!Matches(files, target), offset, limit)
         /\ ShowsMatches(answer, Refs!Matches(files, target))
  <1> DEFINE M == Refs!Matches(files, target)
             n == Cardinality(M)
             all == Refs!ScanOrder(M)
             cap == Refs!ScanCap(limit, offset)
             some == Refs!Min({cap, Len(all)})
             found == SubSeq(all, 1, some)
             end == Refs!Min({offset + limit, Len(found)})
             page == SubSeq(found, offset + 1, end)
             answer == Refs!FindReferences(files, target, offset, limit)
  <1>1. n \in Nat /\ all \in Seq(M) /\ Len(all) = n
    BY ScanFindsEachMatch
  <1>2. cap \in Nat
    <2>1. limit + offset \in Nat
      OBVIOUS
    <2>2. Refs!Max({limit + offset, ScanFloor}) \in Nat
      BY <2>1, RefsMaxIsNatural
    <2> DEFINE bound == Refs!Max({limit + offset, ScanFloor})
    <2>3. cap = bound * ScanFactor
      BY DEF Refs!ScanCap
    <2> HIDE DEF bound, cap
    <2> QED
      BY <2>2, <2>3 DEF bound
  <1>3. answer = [matches |-> [i \in DOMAIN page |-> [path |-> page[i][1].path,
                                                       line |-> page[i][1].words[page[i][2]].line]],
                  total |-> Len(found),
                  truncated |-> offset + limit < Len(found),
                  scanTruncated |-> Len(all) >= cap]
    BY DEF Refs!FindReferences, Refs!Slice
  <1> HIDE DEF M, n, all, cap
  <1>4. some \in Nat /\ some <= n /\ (~(n >= cap) => some = n)
    <2>1. some = IF cap <= n THEN cap ELSE n
      BY <1>1, <1>2, RefsMinOfTwo
    <2> QED
      BY <1>1, <1>2, <2>1
  <1> HIDE DEF some
  <1>5. found \in Seq(M) /\ Len(found) = some
    <2>1. \A i \in 1..some : all[i] \in M
      BY <1>1, <1>4
    <2>2. 1 \in Int /\ some \in Int
      BY <1>4
    <2>3. found \in Seq(M) /\ Len(found) = IF 1 <= some THEN some - 1 + 1 ELSE 0
      BY <2>1, <2>2, SubSeqProperties
    <2> QED
      BY <1>4, <2>3
  <1> HIDE DEF found
  <1>6. end = IF offset + limit <= some THEN offset + limit ELSE some
    <2>1. offset + limit \in Int /\ some \in Int
      BY <1>4
    <2> QED
      BY <1>5, <2>1, RefsMinOfTwo
  <1>7. end \in Nat /\ end <= some
    BY <1>4, <1>6
  <1> HIDE DEF end
  <1>8. page \in Seq(M) /\ Len(page) = IF offset + 1 <= end THEN end - (offset + 1) + 1 ELSE 0
    <2>1. \A i \in (offset + 1)..end : found[i] \in M
      BY <1>4, <1>5, <1>7
    <2>2. offset + 1 \in Int /\ end \in Int
      BY <1>7
    <2> QED
      BY <2>1, <2>2, SubSeqProperties
  <1> HIDE DEF page, answer
  <1>9. answer.matches = [i \in 1..Len(page) |-> Shown(page[i])] /\ Len(page) \in Nat
    BY <1>3, <1>8 DEF Shown
  <1>10. Len(answer.matches) = Len(page)
    BY <1>9
  <1>11. \A u \in Nat : (u <= Len(page)) <=> (u = 0 \/ (u <= limit /\ offset + u <= some))
    BY <1>4, <1>6, <1>7, <1>8
  <1>12. ASSUME NEW shown \in Refs!ToSet(answer.matches) PROVE \E m \in M : shown = Shown(m)
    <2>1. PICK i \in 1..Len(page) : shown = Shown(page[i])
      BY <1>9 DEF Refs!ToSet
    <2>2. page[i] \in M
      BY <1>8
    <2> QED
      BY <2>1, <2>2
  <1>13. answer.total = some /\ (answer.truncated <=> offset + limit < some)
         /\ (answer.scanTruncated <=> n >= cap)
    BY <1>1, <1>3, <1>5
  <1>14. CountsMatches(answer, M, offset, limit)
    BY <1>4, <1>9, <1>10, <1>11, <1>13 DEF CountsMatches, n
  <1>15. ShowsMatches(answer, M)
    BY <1>12 DEF ShowsMatches
  <1> QED
    BY <1>14, <1>15 DEF M, answer

(* Where the game's files match is where the walk does.                    *)
LEMMA SitesAreMatches ==
  ASSUME ScanDirs \in Seq(STRING), NEW files, IsMod(files), NEW target
  PROVE  LET M == Refs!Matches(files, target)
             Owner(path) == {f \in files : f.path = path /\ f.under \cap Refs!ToSet(ScanDirs) # {} /\ f.ext = "txt"
                                           /\ \A g \in files : g.path = path => f.root <= g.root}
             sites == UNION {{<<path, k>> : k \in UNION {Refs!ActiveMatches(f, target) : f \in Owner(path)}} :
                             path \in {f.path : f \in files}}
         IN  Cardinality(sites) = Cardinality(M)
  <1> DEFINE M == Refs!Matches(files, target)
             V == Refs!Visible(files, Refs!ToSet(ScanDirs), {"txt"})
             Owner(path) == {f \in files : f.path = path /\ f.under \cap Refs!ToSet(ScanDirs) # {} /\ f.ext = "txt"
                                           /\ \A g \in files : g.path = path => f.root <= g.root}
             sites == UNION {{<<path, k>> : k \in UNION {Refs!ActiveMatches(f, target) : f \in Owner(path)}} :
                             path \in {f.path : f \in files}}
             h == [m \in M |-> <<m[1].path, m[2]>>]
  <1>1. /\ IsFiniteSet(M)
        /\ \A m \in M : IsPlace(m, files, target)
        /\ \A f \in V : \A j \in Refs!ActiveMatches(f, target) : <<f, j>> \in M
        /\ \A m, p \in M : m[1].path = p[1].path => m[1] = p[1]
    BY MatchesArePlaces
  <1>2. /\ V \in SUBSET files
        /\ \A f \in files : f \in V <=> /\ f.under \cap Refs!ToSet(ScanDirs) # {} /\ f.ext \in {"txt"}
                                        /\ \A g \in files : g.path = f.path => f.root <= g.root
    BY WalkReadsTheFirst
  <1>3. \A path : \A f : f \in Owner(path) <=> f \in V /\ f.path = path
    BY <1>2
  <1> HIDE DEF M, V, Owner
  <1>4. ASSUME NEW x \in sites
        PROVE  \E f \in V : \E k \in Refs!ActiveMatches(f, target) : x = <<f.path, k>>
    <2>1. PICK path : \E k \in UNION {Refs!ActiveMatches(f, target) : f \in Owner(path)} : x = <<path, k>>
      OBVIOUS
    <2>2. PICK k \in UNION {Refs!ActiveMatches(f, target) : f \in Owner(path)} : x = <<path, k>>
      BY <2>1
    <2>3. PICK f \in Owner(path) : k \in Refs!ActiveMatches(f, target)
      BY <2>2
    <2>4. f \in V /\ f.path = path
      BY <1>3
    <2> QED
      BY <2>2, <2>3, <2>4
  <1>5. ASSUME NEW f \in V, NEW k \in Refs!ActiveMatches(f, target) PROVE <<f.path, k>> \in sites
    <2>1. f \in Owner(f.path) /\ f \in files
      BY <1>2, <1>3
    <2>2. k \in UNION {Refs!ActiveMatches(g, target) : g \in Owner(f.path)}
      BY <2>1
    <2> QED
      BY <2>1, <2>2
  <1> HIDE DEF sites
  <1>6. \A m \in M : h[m] \in sites
    BY <1>1, <1>5 DEF IsPlace, V
  <1>7. h \in Injection(M, sites)
    <2>1. ASSUME NEW m \in M, NEW p \in M, h[m] = h[p] PROVE m = p
      <3>1. m[1].path = p[1].path /\ m[2] = p[2]
        BY <2>1
      <3>2. m[1] = p[1] /\ m = <<m[1], m[2]>> /\ p = <<p[1], p[2]>>
        BY <1>1, <3>1 DEF IsPlace
      <3> QED
        BY <3>1, <3>2
    <2>2. h \in [M -> sites]
      BY <1>6
    <2> HIDE DEF h
    <2> QED
      BY <2>1, <2>2 DEF Injection, IsInjective
  <1>8. h \in Surjection(M, sites)
    <2>1. ASSUME NEW x \in sites PROVE \E m \in M : h[m] = x
      <3>1. PICK f \in V : \E k \in Refs!ActiveMatches(f, target) : x = <<f.path, k>>
        BY <1>4
      <3>2. PICK k \in Refs!ActiveMatches(f, target) : x = <<f.path, k>>
        BY <3>1
      <3>3. <<f, k>> \in M
        BY <1>1
      <3>4. h[<<f, k>>] = x
        BY <3>2, <3>3
      <3> QED
        BY <3>3, <3>4
    <2>2. h \in [M -> sites]
      BY <1>6
    <2> HIDE DEF h
    <2> QED
      BY <2>1, <2>2 DEF Surjection
  <1>9. h \in Bijection(M, sites)
    BY <1>7, <1>8 DEF Bijection
  <1>10. ExistsBijection(M, sites)
    <2> HIDE DEF h
    <2> QED
      BY <1>9 DEF ExistsBijection
  <1>11. Cardinality(sites) = Cardinality(M)
    BY <1>1, <1>10, FS_Bijection
  <1> QED
    BY <1>11 DEF M, sites, Owner

LEMMA TotalsAreAlwaysExact ==
  ASSUME ScanDirs \in Seq(STRING), ScanFloor \in Nat, ScanFactor \in Nat,
         NEW files, IsMod(files), NEW target, NEW limit \in Nat \ {0}
  PROVE  Refs!TotalsAreExact(files, target, limit)
  <1> DEFINE M == Refs!Matches(files, target)
             Owner(path) == {f \in files : f.path = path /\ f.under \cap Refs!ToSet(ScanDirs) # {} /\ f.ext = "txt"
                                           /\ \A g \in files : g.path = path => f.root <= g.root}
             sites == UNION {{<<path, k>> : k \in UNION {Refs!ActiveMatches(f, target) : f \in Owner(path)}} :
                             path \in {f.path : f \in files}}
             n == Refs!Cardinality(sites)
             Page(k) == Refs!FindReferences(files, target, k * limit, limit)
             IsLast(k) == ~Page(k).truncated /\ \A j \in 0..(k - 1) : Page(j).truncated
             last == CHOOSE k \in 0..n : IsLast(k)
             size == [k \in 0..last |-> Len(Page(k).matches)]
  <1>1. n = Cardinality(M) /\ n \in Nat
    <2>1. Cardinality(sites) = Cardinality(M)
      BY SitesAreMatches
    <2>2. Cardinality(M) \in Nat
      BY ScanFindsEachMatch
    <2> HIDE DEF sites
    <2> QED
      BY <2>1, <2>2, RefsCardinality
  <1>2. ASSUME NEW k \in Nat
        PROVE  /\ Page(k).total \in Nat /\ Page(k).total <= n
               /\ Page(k).truncated <=> k * limit + limit < Page(k).total
               /\ ~Page(k).scanTruncated => Page(k).total = n
               /\ Len(Page(k).matches) \in Nat
               /\ \A u \in Nat : (u <= Len(Page(k).matches)) <=>
                                 (u = 0 \/ (u <= limit /\ k * limit + u <= Page(k).total))
    <2>1. k * limit \in Nat
      BY Multiples
    <2> DEFINE offset == k * limit
    <2> HIDE DEF offset, sites, n
    <2>2. CountsMatches(Refs!FindReferences(files, target, offset, limit), M, offset, limit)
      BY <2>1, AnswersCountMatches DEF offset
    <2>3. CountsMatches(Page(k), M, k * limit, limit)
      BY <2>2 DEF offset
    <2> HIDE DEF Page, M
    <2> QED
      BY <1>1, <2>3 DEF CountsMatches
  <1> HIDE DEF sites, n, Page
  <1>3. last \in 0..n /\ IsLast(last)
    <2> DEFINE T == {k \in Nat : ~Page(k).truncated}
    <2>1. T \in SUBSET Nat /\ n \in T
      <3>1. n * limit \in Nat /\ n <= n * limit
        BY <1>1, Multiples
      <3>2. ~(n * limit + limit < Page(n).total)
        <4>1. Page(n).total \in Nat /\ Page(n).total <= n
          BY <1>1, <1>2
        <4> QED
          BY <1>1, <3>1, <4>1
      <3>3. ~Page(n).truncated
        BY <1>1, <1>2, <3>2
      <3> QED
        BY <1>1, <3>3
    <2>2. PICK k \in T : \A j \in T : k <= j
      <3> HIDE DEF T
      <3> QED
        BY <2>1, LeastNumber
    <2>3. k \in 0..n
      BY <1>1, <2>1, <2>2
    <2>4. IsLast(k)
      BY <2>2
    <2> HIDE DEF IsLast
    <2> QED
      BY <2>3, <2>4
  <1> HIDE DEF last
  <1>4. last \in Nat
    BY <1>1, <1>3
  <1>5. ~Page(0).scanTruncated => Page(0).total = n
    BY <1>2
  <1>6. ASSUME \A k \in 0..last : ~Page(k).scanTruncated
        PROVE  Refs!Total(size) = n
    <2>1. \A k \in 0..last : k \in Nat /\ Page(k).total = n
      BY <1>2, <1>6
    <2>2. n <= last * limit + limit
      <3>1. ~(last * limit + limit < n)
        <4>1. last \in 0..last /\ Page(last).total = n /\ ~Page(last).truncated
          BY <1>3, <1>4, <2>1
        <4> QED
          BY <1>2, <1>4, <4>1
      <3>2. last * limit \in Nat
        BY <1>4, Multiples
      <3> QED
        BY <1>1, <3>1, <3>2
    <2>3. ASSUME NEW j \in 0..(last - 1) PROVE j * limit + limit < n
      <3>1. j \in 0..last /\ j \in Nat /\ Page(j).truncated
        BY <1>3, <1>4
      <3> QED
        BY <1>2, <2>1, <3>1
    <2>4. DOMAIN size = 0..last
      OBVIOUS
    <2>5. \A k \in 0..last : /\ size[k] \in Nat
                             /\ \A u \in Nat : (u <= size[k]) <=> (u = 0 \/ (u <= limit /\ k * limit + u <= n))
      BY <1>2, <2>1
    <2>6. limit \in Nat /\ limit > 0
      OBVIOUS
    <2> HIDE DEF size
    <2> QED
      BY <1>1, <1>4, <2>6, <2>2, <2>3, <2>4, <2>5, PagesAddUp
  <1>7. Refs!TotalsAreExact(files, target, limit) <=>
            /\ ~Page(0).scanTruncated => Page(0).total = n
            /\ (\A k \in 0..last : ~Page(k).scanTruncated) => Refs!Total(size) = n
    BY DEF Refs!TotalsAreExact, Page, n, sites, last
  <1> HIDE DEF size
  <1> QED
    BY <1>5, <1>6, <1>7

(* A name counted nowhere matches nowhere but where it is defined.         *)
LEMMA UnusedAlwaysHasNoUse ==
  ASSUME ScanDirs \in Seq(STRING), ScanFloor \in Nat, ScanFactor \in Nat, NEW files, IsMod(files),
         \A f \in files : f.under \cap Refs!ToSet(ScanDirs) # {} => f.under \cap CallDirs # {}
  PROVE  Refs!UnusedHasNoUse(files)
  <1> SUFFICES ASSUME NEW f \in files, Refs!FindUnreferenced(files, f, {}, 0, 1).ok,
                      NEW name \in Refs!FindUnreferenced(files, f, {}, 0, 1).unreferenced,
                      NEW shown \in Refs!ToSet(Refs!FindReferences(files, name, 0, 100).matches)
               PROVE  <<name, shown.path, shown.line>> \in Refs!Definitions(files)
    BY DEF Refs!UnusedHasNoUse
  <1> DEFINE names == Refs!Defined(f)
             V == Refs!Visible(files, Refs!ToSet(ScanDirs), {"txt"})
             W == Refs!Visible(files, CallDirs, {"txt"})
             each == {Refs!CallHits(g, names) : g \in W}
             hits == UNION each
             uses == {h \in hits : h[1] = name /\ h \notin Refs!Definitions(files)}
  <1>1. name \in names /\ Refs!Cardinality(uses) = 0
    <2> DEFINE counts == Refs!Counts(files, names)
               idle == {n \in names : counts[n] = 0}
    <2>1. Refs!FindUnreferenced(files, f, {}, 0, 1) =
            IF f \notin Refs!Indexed(files)
            THEN [ok |-> FALSE, unreferenced |-> {}, allowlisted |-> {}, total |-> 0, truncated |-> FALSE]
            ELSE [ok |-> TRUE, unreferenced |-> idle \ {}, allowlisted |-> idle \cap {},
                  total |-> Refs!Cardinality(names),
                  truncated |-> 0 + 1 < Refs!Max({Refs!Cardinality(idle \ {}), Refs!Cardinality(idle \cap {})})]
      BY DEF Refs!FindUnreferenced
    <2> HIDE DEF idle, counts
    <2>2. name \in idle
      BY <2>1
    <2>3. name \in names /\ counts[name] = 0
      BY <2>2 DEF idle
    <2>4. counts[name] = Refs!Cardinality(uses)
      BY <2>3 DEF counts, Refs!Counts
    <2> QED
      BY <2>3, <2>4
  <1>2. /\ V \in SUBSET files
        /\ \A g \in files : g \in V <=> /\ g.under \cap Refs!ToSet(ScanDirs) # {} /\ g.ext \in {"txt"}
                                        /\ \A h \in files : h.path = g.path => g.root <= h.root
    BY WalkReadsTheFirst
  <1>3. /\ W \in SUBSET files /\ IsFiniteSet(W)
        /\ \A g \in files : g \in W <=> /\ g.under \cap CallDirs # {} /\ g.ext \in {"txt"}
                                        /\ \A h \in files : h.path = g.path => g.root <= h.root
    BY WalkReadsTheFirst
  <1> HIDE DEF V, W, names
  <1>4. PICK m \in Refs!Matches(files, name) : shown = Shown(m)
    <2> DEFINE offset == 0
               limit == 100
    <2>1. offset \in Nat /\ limit \in Nat
      OBVIOUS
    <2> HIDE DEF offset, limit, each, hits, uses
    <2>2. ShowsMatches(Refs!FindReferences(files, name, offset, limit), Refs!Matches(files, name))
      BY <2>1, AnswersCountMatches
    <2> QED
      BY <2>2 DEF ShowsMatches, offset, limit
  <1>5. IsPlace(m, files, name)
    BY MatchesArePlaces
  <1> DEFINE g == m[1]
             word == m[1].words[m[2]]
  <1>6. g \in W
    <2>1. g \in V
      BY <1>5 DEF IsPlace, V
    <2> HIDE DEF g
    <2> QED
      BY <1>2, <1>3, <2>1
  <1>7. word.name = name /\ word.form \in Refs!ActiveForms /\ word \in Refs!ToSet(g.words)
    BY <1>5 DEF IsPlace, Refs!ActiveMatches, Refs!ToSet
  <1>8. <<name, shown.path, shown.line>> \in Refs!CallHits(g, names)
    <2>1. shown.path = g.path /\ shown.line = word.line
      BY <1>4 DEF Shown
    <2> HIDE DEF g, word
    <2>2. <<word.name, g.path, word.line>> \in Refs!CallHits(g, names)
      BY <1>1, <1>7 DEF Refs!CallHits
    <2> QED
      BY <1>7, <2>1, <2>2
  <1> HIDE DEF g
  <1>9. <<name, shown.path, shown.line>> \in hits
    BY <1>6, <1>8
  <1>10. IsFiniteSet(hits)
    <2>1. ASSUME NEW w \in W PROVE IsFiniteSet(Refs!CallHits(w, names))
      <3> DEFINE Entry(i) == <<w.words[i].name, w.path, w.words[i].line>>
                 entries == {Entry(i) : i \in DOMAIN w.words}
                 list == [i \in DOMAIN w.words |-> Entry(i)]
      <3>1. w.words \in Seq([name : STRING, line : Nat, form : Refs!Forms])
        BY <1>3 DEF IsMod
      <3>2. IsFiniteSet(DOMAIN w.words)
        <4>1. DOMAIN w.words = 1..Len(w.words) /\ 1 \in Int /\ Len(w.words) \in Int
          BY <3>1
        <4> QED
          BY <4>1, FS_Interval
      <3>3. list \in Surjection(DOMAIN w.words, entries)
        BY DEF Surjection
      <3>4. IsFiniteSet(entries)
        BY <3>2, <3>3, FS_Surjection
      <3>5. Refs!CallHits(w, names) \in SUBSET entries
        BY DEF Refs!CallHits, Refs!ToSet
      <3> HIDE DEF entries
      <3> QED
        BY <3>4, <3>5, FS_Subset
    <2>2. IsFiniteSet(each)
      <3> DEFINE h == [w \in W |-> Refs!CallHits(w, names)]
      <3>1. h \in Surjection(W, each)
        BY DEF Surjection
      <3> QED
        BY <1>3, <3>1, FS_Surjection
    <2> QED
      BY <2>1, <2>2, FS_UNION
  <1> HIDE DEF hits
  <1>11. uses = {}
    <2>1. uses \in SUBSET hits
      OBVIOUS
    <2> HIDE DEF uses
    <2>2. IsFiniteSet(uses)
      BY <1>10, <2>1, FS_Subset
    <2>3. Cardinality(uses) = 0
      BY <1>1, RefsCardinality
    <2> QED
      BY <2>2, <2>3, FS_EmptySet
  <1> DEFINE hit == <<name, shown.path, shown.line>>
  <1>12. hit[1] = name
    OBVIOUS
  <1> HIDE DEF hit
  <1> QED
    BY <1>9, <1>11, <1>12 DEF hit

(* What a question about names may be: any mod, whose scan directories are *)
(* among those the counts walk.                                            *)
IsNameQuestion(q) ==
    /\ q.kind \in {"unused", "totals"} => IsMod(q.files)
    /\ q.kind = "unused" =>
          \A f \in q.files : f.under \cap Refs!ToSet(ScanDirs) # {} => f.under \cap CallDirs # {}
    /\ q.kind = "totals" => q.limit \in Nat \ {0}

LEMMA ReferencesAlwaysAgree ==
  ASSUME NEW q, IsNameQuestion(q)
  PROVE  Refs!ReferencesAgree(q)
  <1>1. ASSUME q.kind = "unused" PROVE Refs!UnusedHasNoUse(q.files)
    BY <1>1, ScansAreTyped, UnusedAlwaysHasNoUse DEF IsNameQuestion
  <1>2. ASSUME q.kind = "totals" PROVE Refs!TotalsAreExact(q.files, q.target, q.limit)
    BY <1>2, ScansAreTyped, TotalsAreAlwaysExact DEF IsNameQuestion
  <1> QED
    BY <1>1, <1>2 DEF Refs!ReferencesAgree

-----------------------------------------------------------------------------
(* Merges of textures into a .gfx document.                                *)
LEMMA GfxMin ==
  ASSUME NEW T \in SUBSET Nat, T # {}
  PROVE  Gfx!Min(T) \in T /\ \A m \in T : Gfx!Min(T) <= m
  BY LeastNumber DEF Gfx!Min

LEMMA GfxRanked == \A S, below : Gfx!Ranked(S, below) = Ranked(S, below)
  <1>1. \A S : Gfx!Cardinality(S) = Cardinality(S)
    BY DEF Gfx!Cardinality, Cardinality
  <1> QED
    BY <1>1 DEF Gfx!Ranked, Ranked

(* A document, with a root that is closed; and the textures of a directory *)
(* by the name each gets.                                                  *)
IsText(doc) ==
    /\ \E Items : doc \in Seq(Items)
    /\ \A i \in DOMAIN doc : doc[i].form # "block" => doc[i].name = Gfx!NoName
    /\ \E i \in DOMAIN doc : doc[i].form = "close"
IsTextures(entries) ==
    /\ IsFiniteSet(DOMAIN entries) /\ Gfx!NoName \notin DOMAIN entries
    /\ \A n \in DOMAIN entries : entries[n] \in Nat
    /\ \A m, n \in DOMAIN entries : entries[m] = entries[n] => m = n

LEMMA EntriesAreTextures ==
  ASSUME NEW Images, NEW images \in Seq(Images)
  PROVE  IsTextures(Gfx!Entries(images))
  <1> DEFINE At(n) == {i \in DOMAIN images : Gfx!NameFor(images[i]) = n}
             names == {Gfx!NameFor(images[i]) : i \in DOMAIN images}
             entries == Gfx!Entries(images)
  <1>1. Len(images) \in Nat /\ DOMAIN images = 1..Len(images)
    BY LenProperties
  <1>2. entries = [n \in names |-> Gfx!Min(At(n))]
    BY DEF Gfx!Entries
  <1>3. IsFiniteSet(names)
    <2>1. IsFiniteSet(DOMAIN images)
      <3>1. 1 \in Int /\ Len(images) \in Int
        BY <1>1
      <3> QED
        BY <1>1, <3>1, FS_Interval
    <2> DEFINE f == [i \in DOMAIN images |-> Gfx!NameFor(images[i])]
    <2>2. f \in Surjection(DOMAIN images, names)
      BY DEF Surjection
    <2> QED
      BY <2>1, <2>2, FS_Surjection
  <1>4. \A n \in names : Gfx!Min(At(n)) \in At(n)
    <2> SUFFICES ASSUME NEW n \in names PROVE Gfx!Min(At(n)) \in At(n)
      OBVIOUS
    <2>1. At(n) \in SUBSET Nat /\ At(n) # {}
      BY <1>1
    <2> HIDE DEF At
    <2> QED
      BY <2>1, GfxMin
  <1>5. \A n \in names : Gfx!Min(At(n)) \in Nat /\ Gfx!NameFor(images[Gfx!Min(At(n))]) = n
    <2> SUFFICES ASSUME NEW n \in names
                 PROVE  Gfx!Min(At(n)) \in Nat /\ Gfx!NameFor(images[Gfx!Min(At(n))]) = n
      OBVIOUS
    <2>1. PICK m : m = Gfx!Min(At(n))
      OBVIOUS
    <2>2. m \in At(n)
      BY <1>4, <2>1
    <2>3. m \in DOMAIN images /\ Gfx!NameFor(images[m]) = n
      BY <2>2
    <2> QED
      BY <1>1, <2>1, <2>3
  <1>6. Gfx!NoName \notin names
    <2>1. \A i \in DOMAIN images : Gfx!NameFor(images[i])[2] = TRUE
      BY DEF Gfx!NameFor
    <2>2. Gfx!NoName[2] = FALSE
      BY DEF Gfx!NoName
    <2> QED
      BY <2>1, <2>2
  <1> HIDE DEF At, names
  <1>7. DOMAIN entries = names /\ \A n \in names : entries[n] = Gfx!Min(At(n))
    BY <1>2
  <1> HIDE DEF entries
  <1>8. \A m, n \in names : entries[m] = entries[n] => m = n
    BY <1>5, <1>7
  <1>9. \A n \in names : entries[n] \in Nat
    BY <1>5, <1>7
  <1>10. IsTextures(entries)
    BY <1>3, <1>6, <1>7, <1>8, <1>9 DEF IsTextures
  <1> QED
    BY <1>10 DEF entries

(* The blocks with a name, and of each name the first.                     *)
LEMMA FirstIsKept ==
  ASSUME NEW doc, IsText(doc)
  PROVE  /\ Len(doc) \in Nat /\ DOMAIN doc = 1..Len(doc) /\ Gfx!Named(doc) \subseteq DOMAIN doc
         /\ \A n \in Gfx!Existing(doc) :
               /\ Gfx!FirstOf(doc, n) \in Gfx!Named(doc) \ Gfx!Gone(doc)
               /\ doc[Gfx!FirstOf(doc, n)].name = n
         /\ \A i \in Gfx!Named(doc) \ Gfx!Repeats(doc) : i = Gfx!FirstOf(doc, doc[i].name)
         /\ \A i \in Gfx!Named(doc) : doc[i].name \in Gfx!Existing(doc)
  <1>1. Len(doc) \in Nat /\ DOMAIN doc = 1..Len(doc)
    BY LenProperties DEF IsText
  <1>2. ASSUME NEW n \in Gfx!Existing(doc)
        PROVE  Gfx!FirstOf(doc, n) \in Gfx!Named(doc) /\ doc[Gfx!FirstOf(doc, n)].name = n
    <2> DEFINE T == {i \in Gfx!Named(doc) : doc[i].name = n}
    <2>1. T \in SUBSET Nat /\ T # {}
      BY <1>1 DEF Gfx!Existing, Gfx!Named
    <2>2. Gfx!Min(T) \in T
      <3> HIDE DEF T
      <3> QED
        BY <2>1, GfxMin
    <2> QED
      BY <2>2 DEF Gfx!FirstOf
  <1>3. \A n \in Gfx!Existing(doc) : Gfx!FirstOf(doc, n) \notin Gfx!Gone(doc)
    BY <1>2 DEF Gfx!Gone, Gfx!Repeats, Gfx!Named
  <1> QED
    BY <1>1, <1>2, <1>3 DEF Gfx!Repeats, Gfx!Existing, Gfx!Named

(* New blocks: the names the document does not have, each once.            *)
New(doc, entries) == Gfx!New(doc, entries)
ListsTheRest(new, doc, entries) ==
    /\ new \in Seq(DOMAIN entries) /\ Len(new) \in Nat /\ DOMAIN new = 1..Len(new)
    /\ \A k \in 1..Len(new) : new[k] \in DOMAIN entries \ Gfx!Existing(doc)
    /\ \A n \in DOMAIN entries \ Gfx!Existing(doc) : \E k \in 1..Len(new) : new[k] = n
    /\ \A k, l \in 1..Len(new) : new[k] = new[l] => k = l

LEMMA NewListsTheRest ==
  ASSUME NEW doc, NEW entries, IsTextures(entries)
  PROVE  ListsTheRest(New(doc, entries), doc, entries)
  <1> DEFINE names == DOMAIN entries \ Gfx!Existing(doc)
             below == [n \in names |-> {m \in names : entries[m] < entries[n]}]
  <1>1. IsFiniteSet(names)
    BY FS_Subset DEF IsTextures
  <1>2. \A n \in names : entries[n] \in Nat
    BY DEF IsTextures
  <1>3. IsOrder(names, below)
    <2>1. \A m, n \in names : m # n => entries[m] # entries[n]
      BY DEF IsTextures
    <2> HIDE DEF names
    <2>2. \A x \in names : below[x] \subseteq names /\ x \notin below[x]
      BY <1>2
    <2>3. \A x, y \in names : x \in below[y] => below[x] \subseteq below[y]
      BY <1>2
    <2>4. \A x, y \in names : x # y => x \in below[y] \/ y \in below[x]
      BY <1>2, <2>1
    <2> HIDE DEF below
    <2> QED
      BY <2>2, <2>3, <2>4 DEF IsOrder
  <1>4. Gfx!New(doc, entries) = Ranked(names, below)
    BY GfxRanked DEF Gfx!New
  <1> HIDE DEF names, below
  <1>5. /\ Cardinality(names) \in Nat /\ DOMAIN Ranked(names, below) = 1..Cardinality(names)
        /\ Ranked(names, below) \in Seq(names) /\ Len(Ranked(names, below)) = Cardinality(names)
        /\ \A i \in 1..Cardinality(names) : Ranked(names, below)[i] \in names
        /\ \A x \in names : \E i \in 1..Cardinality(names) : Ranked(names, below)[i] = x
        /\ \A i, j \in 1..Cardinality(names) : Ranked(names, below)[i] = Ranked(names, below)[j] => i = j
    BY <1>1, <1>3, RankedIsEnumeration
  <1>6. Ranked(names, below) \in Seq(DOMAIN entries)
    <2>1. \A i \in 1..Cardinality(names) : Ranked(names, below)[i] \in DOMAIN entries
      BY <1>5 DEF names
    <2> QED
      BY <1>5, <2>1
  <1> QED
    BY <1>4, <1>5, <1>6 DEF names, New, ListsTheRest

(* The text of a merge, piece by piece.                                    *)
PiecesOf(doc, entries) == Gfx!Pieces(doc, Gfx!New(doc, entries))
ItemAt(doc, entries, protected, p) ==
    IF p[2] > 0 THEN Gfx!Rendered(New(doc, entries)[p[2]], entries[New(doc, entries)[p[2]]])
    ELSE IF p[1] \in Gfx!Changed(doc, entries, protected)
         THEN Gfx!Rendered(doc[p[1]].name, entries[doc[p[1]].name])
    ELSE doc[p[1]]
IsSpliced(doc, entries, protected, order, text) ==
    /\ Len(text) \in Nat /\ DOMAIN order = 1..Len(text)
    /\ text = [t \in 1..Len(text) |-> ItemAt(doc, entries, protected, order[t])]
    /\ \A t \in 1..Len(text) : order[t] \in PiecesOf(doc, entries)
    /\ \A p \in PiecesOf(doc, entries) : \E t \in 1..Len(text) : order[t] = p
    /\ \A t, u \in 1..Len(text) : order[t] = order[u] => t = u
    /\ \A t, u \in 1..Len(text) : order[t] \in Gfx!Before(PiecesOf(doc, entries), order[u]) <=> t < u
    /\ \A t \in 1..Len(text) : Cardinality(Gfx!Before(PiecesOf(doc, entries), order[t])) = t - 1

LEMMA PiecesArePlaces ==
  ASSUME NEW doc, IsText(doc), NEW entries, IsTextures(entries)
  PROVE  /\ IsFiniteSet(PiecesOf(doc, entries))
         /\ Gfx!RootEnd(doc) \in DOMAIN doc /\ doc[Gfx!RootEnd(doc)].form = "close"
         /\ \A p \in PiecesOf(doc, entries) :
               /\ p = <<p[1], p[2]>> /\ p[1] \in Nat /\ p[2] \in Nat
               /\ \/ p[1] \in DOMAIN doc \ Gfx!Gone(doc) /\ p[2] = 0
                  \/ p[1] = Gfx!RootEnd(doc) - 1 /\ p[2] \in 1..Len(New(doc, entries))
         /\ \A i \in DOMAIN doc \ Gfx!Gone(doc) : <<i, 0>> \in PiecesOf(doc, entries)
         /\ \A k \in 1..Len(New(doc, entries)) : <<Gfx!RootEnd(doc) - 1, k>> \in PiecesOf(doc, entries)
  <1> DEFINE n == Len(New(doc, entries))
             root == Gfx!RootEnd(doc)
             left == DOMAIN doc \ Gfx!Gone(doc)
  <1>1. n \in Nat /\ DOMAIN New(doc, entries) = 1..n
    BY NewListsTheRest DEF ListsTheRest
  <1>2. Len(doc) \in Nat /\ DOMAIN doc = 1..Len(doc)
    BY FirstIsKept
  <1>3. root \in DOMAIN doc /\ doc[root].form = "close"
    <2> DEFINE T == {i \in DOMAIN doc : doc[i].form = "close"}
    <2>1. T \in SUBSET Nat /\ T # {}
      BY <1>2 DEF IsText
    <2>2. Gfx!Min(T) \in T
      <3> HIDE DEF T
      <3> QED
        BY <2>1, GfxMin
    <2> QED
      BY <2>2 DEF Gfx!RootEnd
  <1>4. PiecesOf(doc, entries) = (left \X {0}) \cup ({root - 1} \X (1..n))
    BY <1>1 DEF PiecesOf, Gfx!Pieces, New
  <1> HIDE DEF n, root
  <1>5. IsFiniteSet(PiecesOf(doc, entries))
    <2>1. IsFiniteSet(left)
      <3>1. 1 \in Int /\ Len(doc) \in Int
        BY <1>2
      <3>2. IsFiniteSet(DOMAIN doc)
        BY <1>2, <3>1, FS_Interval
      <3> QED
        BY <3>2, FS_Subset
    <2>2. IsFiniteSet(1..n)
      <3>1. 1 \in Int /\ n \in Int
        BY <1>1
      <3> QED
        BY <3>1, FS_Interval
    <2>3. IsFiniteSet({0}) /\ IsFiniteSet({root - 1})
      BY FS_Singleton
    <2>4. IsFiniteSet(left \X {0}) /\ IsFiniteSet({root - 1} \X (1..n))
      BY <2>1, <2>2, <2>3, FS_Product
    <2> DEFINE A == left \X {0}
               B == {root - 1} \X (1..n)
    <2>5. IsFiniteSet(A) /\ IsFiniteSet(B) /\ PiecesOf(doc, entries) = A \cup B
      BY <1>4, <2>4
    <2> HIDE DEF A, B
    <2> QED
      BY <2>5, FS_Union
  <1>6. root - 1 \in Nat
    BY <1>2, <1>3
  <1>7. \A i \in left : i \in Nat
    BY <1>2
  <1>8. ASSUME NEW p \in PiecesOf(doc, entries)
        PROVE  /\ p = <<p[1], p[2]>> /\ p[1] \in Nat /\ p[2] \in Nat
               /\ \/ p[1] \in left /\ p[2] = 0
                  \/ p[1] = root - 1 /\ p[2] \in 1..n
    <2> HIDE DEF left
    <2>1. CASE p \in left \X {0}
      BY <1>7, <2>1
    <2>2. CASE p \in {root - 1} \X (1..n)
      BY <1>1, <1>6, <2>2
    <2> QED
      BY <1>4, <2>1, <2>2
  <1>9. \A i \in left : <<i, 0>> \in PiecesOf(doc, entries)
    <2> HIDE DEF left
    <2> QED
      BY <1>4
  <1>10. \A k \in 1..n : <<root - 1, k>> \in PiecesOf(doc, entries)
    <2> HIDE DEF left
    <2> QED
      BY <1>4
  <1> QED
    BY <1>3, <1>5, <1>8, <1>9, <1>10 DEF n, root

(* Lexicographic order of pairs of numbers.                                *)
LEMMA PlacesAreOrdered ==
  ASSUME NEW S, \A p \in S : p = <<p[1], p[2]>> /\ p[1] \in Int /\ p[2] \in Int
  PROVE  IsOrder(S, [p \in S |-> Gfx!Before(S, p)])
  <1> DEFINE below == [p \in S |-> Gfx!Before(S, p)]
  <1>1. \A p \in S : \A q : q \in below[p] <=>
            q \in S /\ (q[1] < p[1] \/ (q[1] = p[1] /\ q[2] < p[2]))
    BY DEF Gfx!Before
  <1> HIDE DEF below
  <1>2. \A x \in S : below[x] \subseteq S /\ x \notin below[x]
    BY <1>1
  <1>3. \A x, y \in S : x \in below[y] => below[x] \subseteq below[y]
    BY <1>1
  <1>4. ASSUME NEW x \in S, NEW y \in S, x # y PROVE x \in below[y] \/ y \in below[x]
    <2>1. x[1] # y[1] \/ x[2] # y[2]
      BY <1>4
    <2> QED
      BY <1>1, <2>1
  <1>5. IsOrder(S, below)
    BY <1>2, <1>3, <1>4 DEF IsOrder
  <1> QED
    BY <1>5 DEF below

LEMMA TextIsSpliced ==
  ASSUME NEW doc, IsText(doc), NEW entries, IsTextures(entries), NEW protected
  PROVE  \E order : IsSpliced(doc, entries, protected, order,
                              Gfx!MergeText(doc, entries, protected).text)
  <1> DEFINE pieces == PiecesOf(doc, entries)
             below == [p \in pieces |-> Gfx!Before(pieces, p)]
             order == Ranked(pieces, below)
             n == Cardinality(pieces)
             text == [t \in 1..n |-> ItemAt(doc, entries, protected, order[t])]
  <1>1. doc # <<>>
    BY FirstIsKept DEF IsText
  <1>2. IsFiniteSet(pieces) /\ \A p \in pieces : p = <<p[1], p[2]>> /\ p[1] \in Int /\ p[2] \in Int
    BY PiecesArePlaces
  <1>3. IsOrder(pieces, below)
    <2> HIDE DEF pieces
    <2> QED
      BY <1>2, PlacesAreOrdered
  <1> HIDE DEF below
  <1>4. /\ n \in Nat /\ DOMAIN order = 1..n
        /\ \A t \in 1..n : order[t] \in pieces
        /\ \A p \in pieces : \E t \in 1..n : order[t] = p
        /\ \A t, u \in 1..n : order[t] = order[u] => t = u
        /\ \A t \in 1..n : Cardinality(below[order[t]]) = t - 1
        /\ \A t, u \in 1..n : order[t] \in below[order[u]] <=> t < u
    <2> HIDE DEF pieces
    <2>1. n \in Nat /\ DOMAIN order = 1..n
      BY <1>2, <1>3, RankedIsEnumeration
    <2>2. \A t \in 1..n : order[t] \in pieces
      BY <1>2, <1>3, RankedIsEnumeration
    <2>3. \A p \in pieces : \E t \in 1..n : order[t] = p
      BY <1>2, <1>3, RankedIsEnumeration
    <2>4. \A t, u \in 1..n : order[t] = order[u] => t = u
      BY <1>2, <1>3, RankedIsEnumeration
    <2>5. \A t \in 1..n : Cardinality(below[order[t]]) = t - 1
      BY <1>2, <1>3, RankedIsEnumeration
    <2>6. \A t, u \in 1..n : order[t] \in below[order[u]] <=> t < u
      BY <1>2, <1>3, RankedIsEnumeration
    <2> QED
      BY <2>1, <2>2, <2>3, <2>4, <2>5, <2>6
  <1>5. Gfx!MergeText(doc, entries, protected).text = text
    <2>1. Gfx!Ranked(pieces, [p \in pieces |-> Gfx!Before(pieces, p)]) = order
      BY GfxRanked DEF below
    <2>2. DOMAIN order = 1..n
      BY <1>4
    <2> HIDE DEF order, n
    <2>3. Gfx!MergeText(doc, entries, protected).text
          = [t \in DOMAIN order |-> ItemAt(doc, entries, protected, order[t])]
      BY <1>1, <2>1 DEF Gfx!MergeText, ItemAt, New, PiecesOf
    <2> QED
      BY <2>2, <2>3
  <1> HIDE DEF order, n
  <1>6. Len(text) = n /\ \A t \in 1..n : text[t] = ItemAt(doc, entries, protected, order[t])
    <2> DEFINE I(t) == ItemAt(doc, entries, protected, order[t])
    <2>1. text = [t \in 1..n |-> I(t)]
      OBVIOUS
    <2> HIDE DEF I, text
    <2> QED
      BY <1>4, <2>1 DEF I
  <1>7. \A t \in 1..n : below[order[t]] = Gfx!Before(pieces, order[t])
    <2> HIDE DEF pieces
    <2> QED
      BY <1>4 DEF below
  <1>8. IsSpliced(doc, entries, protected, order, text)
    <2> HIDE DEF text
    <2>1. text = [t \in 1..n |-> ItemAt(doc, entries, protected, order[t])]
      BY DEF text
    <2>2. Len(text) = n /\ n \in Nat /\ DOMAIN order = 1..n
      BY <1>4, <1>6
    <2>3. \A t \in 1..n : order[t] \in pieces
      BY <1>4
    <2>4. \A p \in pieces : \E t \in 1..n : order[t] = p
      BY <1>4
    <2>5. \A t, u \in 1..n : order[t] \in Gfx!Before(pieces, order[u]) <=> t < u
      <3> TAKE t, u \in 1..n
      <3>1. below[order[u]] = Gfx!Before(pieces, order[u])
        BY <1>7
      <3>2. order[t] \in below[order[u]] <=> t < u
        BY <1>4
      <3> QED
        BY <3>1, <3>2
    <2>6. \A t \in 1..n : Cardinality(Gfx!Before(pieces, order[t])) = t - 1
      BY <1>4, <1>7
    <2>7. \A t, u \in 1..n : order[t] = order[u] => t = u
      BY <1>4
    <2>8. text = [t \in 1..Len(text) |-> ItemAt(doc, entries, protected, order[t])]
      BY <2>1, <2>2
    <2>9. /\ \A t \in 1..Len(text) : order[t] \in pieces
          /\ \A p \in pieces : \E t \in 1..Len(text) : order[t] = p
          /\ \A t, u \in 1..Len(text) : order[t] = order[u] => t = u
          /\ \A t, u \in 1..Len(text) : order[t] \in Gfx!Before(pieces, order[u]) <=> t < u
          /\ \A t \in 1..Len(text) : Cardinality(Gfx!Before(pieces, order[t])) = t - 1
      BY <2>2, <2>3, <2>4, <2>5, <2>6, <2>7
    <2>10. Len(text) \in Nat /\ DOMAIN order = 1..Len(text)
      BY <2>2
    <2> QED
      BY <2>8, <2>9, <2>10 DEF IsSpliced
  <1> QED
    BY <1>5, <1>8

(* What each piece brings: a new block, or the item of the document with   *)
(* its form and its name.                                                  *)
Brings(doc, entries, protected, p, item) ==
    \/ /\ p[2] = 0 /\ p[1] \in DOMAIN doc \ Gfx!Gone(doc)
       /\ item.form = doc[p[1]].form /\ item.name = doc[p[1]].name
       /\ \/ p[1] \in Gfx!Changed(doc, entries, protected)
             /\ item.tex = entries[item.name] /\ item.own = FALSE
          \/ p[1] \notin Gfx!Changed(doc, entries, protected) /\ item = doc[p[1]]
    \/ /\ p[2] \in 1..Len(New(doc, entries)) /\ p[1] = Gfx!RootEnd(doc) - 1
       /\ item.form = "block" /\ item.name = New(doc, entries)[p[2]]
       /\ item.name \in DOMAIN entries \ Gfx!Existing(doc)
       /\ item.tex = entries[item.name] /\ item.own = FALSE

LEMMA PieceIsItem ==
  ASSUME NEW doc, IsText(doc), NEW entries, IsTextures(entries), NEW protected,
         NEW p \in PiecesOf(doc, entries)
  PROVE  Brings(doc, entries, protected, p, ItemAt(doc, entries, protected, p))
  <1> DEFINE item == ItemAt(doc, entries, protected, p)
             n == Len(New(doc, entries))
  <1>1. \/ p[1] \in DOMAIN doc \ Gfx!Gone(doc) /\ p[2] = 0
        \/ p[1] = Gfx!RootEnd(doc) - 1 /\ p[2] \in 1..n
    BY PiecesArePlaces
  <1>2. n \in Nat /\ \A k \in 1..n : New(doc, entries)[k] \in DOMAIN entries \ Gfx!Existing(doc)
    BY NewListsTheRest DEF ListsTheRest
  <1>3. CASE p[1] = Gfx!RootEnd(doc) - 1 /\ p[2] \in 1..n
    <2>1. p[2] > 0
      BY <1>2, <1>3
    <2>2. item = Gfx!Rendered(New(doc, entries)[p[2]], entries[New(doc, entries)[p[2]]])
      BY <2>1 DEF ItemAt
    <2>3. item.form = "block" /\ item.name = New(doc, entries)[p[2]] /\ item.own = FALSE
          /\ item.tex = entries[New(doc, entries)[p[2]]]
      BY <2>2 DEF Gfx!Rendered
    <2>4. New(doc, entries)[p[2]] \in DOMAIN entries \ Gfx!Existing(doc)
      BY <1>2, <1>3
    <2> HIDE DEF item
    <2> QED
      BY <1>3, <2>3, <2>4 DEF item, Brings
  <1>4. CASE p[1] \in DOMAIN doc \ Gfx!Gone(doc) /\ p[2] = 0
    <2>1. CASE p[1] \in Gfx!Changed(doc, entries, protected)
      <3>1. item = Gfx!Rendered(doc[p[1]].name, entries[doc[p[1]].name])
        BY <1>4, <2>1 DEF ItemAt
      <3>2. /\ item.form = "block" /\ item.name = doc[p[1]].name /\ item.own = FALSE
            /\ item.tex = entries[doc[p[1]].name]
        BY <3>1 DEF Gfx!Rendered
      <3>3. doc[p[1]].form = "block"
        BY <2>1 DEF Gfx!Changed, Gfx!Named
      <3> HIDE DEF item
      <3> QED
        BY <1>4, <2>1, <3>2, <3>3 DEF item, Brings
    <2>2. CASE p[1] \notin Gfx!Changed(doc, entries, protected)
      <3>1. item = doc[p[1]]
        BY <1>4, <2>2 DEF ItemAt
      <3> HIDE DEF item
      <3> QED
        BY <1>4, <2>2, <3>1 DEF item, Brings
    <2> QED
      BY <2>1, <2>2
  <1> QED
    BY <1>1, <1>3, <1>4

LEMMA MergedIsText ==
  ASSUME NEW doc, IsText(doc), NEW entries, IsTextures(entries), NEW protected,
         NEW order, NEW text, IsSpliced(doc, entries, protected, order, text)
  PROVE  IsText(text)
  <1> DEFINE Items == {text[t] : t \in 1..Len(text)}
             root == Gfx!RootEnd(doc)
  <1>1. Len(text) \in Nat /\ text = [t \in 1..Len(text) |-> ItemAt(doc, entries, protected, order[t])]
    BY DEF IsSpliced
  <1>2. \E S : text \in Seq(S)
    <2> DEFINE len == Len(text)
    <2>1. len \in Nat /\ text = [t \in 1..len |-> ItemAt(doc, entries, protected, order[t])]
      BY <1>1
    <2> HIDE DEF len
    <2> DEFINE I(t) == ItemAt(doc, entries, protected, order[t])
    <2>2. text = [t \in 1..len |-> I(t)]
      BY <2>1
    <2> DEFINE S == {I(t) : t \in 1..len}
    <2> HIDE DEF I
    <2>3. text \in [1..len -> S]
      BY <2>2
    <2> HIDE DEF S
    <2>4. text \in Seq(S)
      BY <2>1, <2>3
    <2> QED
      BY <2>4
  <1>3. DOMAIN text = 1..Len(text) /\ \A t \in 1..Len(text) :
            text[t] = ItemAt(doc, entries, protected, order[t]) /\ order[t] \in PiecesOf(doc, entries)
    BY <1>1 DEF IsSpliced
  <1>4. ASSUME NEW t \in DOMAIN text, text[t].form # "block" PROVE text[t].name = Gfx!NoName
    <2>1. order[t] \in PiecesOf(doc, entries) /\ text[t] = ItemAt(doc, entries, protected, order[t])
      BY <1>3
    <2>2. PICK i \in DOMAIN doc : text[t].form = doc[i].form /\ text[t].name = doc[i].name
      <3>1. PICK p : p = order[t]
        OBVIOUS
      <3>2. p \in PiecesOf(doc, entries)
        BY <2>1, <3>1
      <3>3. PICK item : item = ItemAt(doc, entries, protected, p)
        OBVIOUS
      <3>4. item.form # "block"
        BY <1>4, <2>1, <3>1, <3>3
      <3>5. p[1] \in DOMAIN doc /\ item.form = doc[p[1]].form /\ item.name = doc[p[1]].name
        <4>1. Brings(doc, entries, protected, p, item)
          BY <3>2, <3>3, PieceIsItem
        <4> QED
          BY <3>4, <4>1 DEF Brings
      <3> QED
        BY <2>1, <3>1, <3>3, <3>5
    <2> QED
      BY <1>4, <2>2 DEF IsText
  <1>5. root \in DOMAIN doc /\ doc[root].form = "close"
    BY PiecesArePlaces
  <1>6. root \notin Gfx!Gone(doc)
    BY <1>5 DEF Gfx!Gone, Gfx!Repeats, Gfx!Named
  <1>7. <<root, 0>> \in PiecesOf(doc, entries)
    BY <1>5, <1>6, PiecesArePlaces
  <1>8. PICK t \in 1..Len(text) : order[t] = <<root, 0>>
    BY <1>7 DEF IsSpliced
  <1>9. text[t].form = "close"
    <2>1. text[t] = ItemAt(doc, entries, protected, <<root, 0>>)
      BY <1>3, <1>8
    <2>2. root \notin Gfx!Changed(doc, entries, protected)
      BY <1>5 DEF Gfx!Changed, Gfx!Named
    <2>3. <<root, 0>>[1] = root /\ <<root, 0>>[2] = 0
      OBVIOUS
    <2>4. text[t] = doc[root]
      BY <2>1, <2>2, <2>3 DEF ItemAt
    <2> QED
      BY <1>5, <2>4
  <1> QED
    BY <1>2, <1>3, <1>4, <1>8, <1>9 DEF IsText

LEMMA MergedItems ==
  ASSUME NEW doc, IsText(doc), NEW entries, IsTextures(entries), NEW protected,
         NEW order, NEW text, IsSpliced(doc, entries, protected, order, text)
  PROVE  /\ Len(text) \in Nat /\ DOMAIN text = 1..Len(text)
         /\ \A t \in DOMAIN text : /\ order[t] = <<order[t][1], order[t][2]>>
                                   /\ order[t][1] \in Nat /\ order[t][2] \in Nat
                                   /\ Brings(doc, entries, protected, order[t], text[t])
  <1>1. Len(text) \in Nat /\ text = [t \in 1..Len(text) |-> ItemAt(doc, entries, protected, order[t])]
    BY DEF IsSpliced
  <1>2. DOMAIN text = 1..Len(text) /\ \A t \in 1..Len(text) :
            text[t] = ItemAt(doc, entries, protected, order[t]) /\ order[t] \in PiecesOf(doc, entries)
    BY <1>1 DEF IsSpliced
  <1>3. ASSUME NEW t \in DOMAIN text
        PROVE  /\ order[t] = <<order[t][1], order[t][2]>>
               /\ order[t][1] \in Nat /\ order[t][2] \in Nat
               /\ Brings(doc, entries, protected, order[t], text[t])
    <2>1. order[t] \in PiecesOf(doc, entries) /\ text[t] = ItemAt(doc, entries, protected, order[t])
      BY <1>2
    <2>2. Brings(doc, entries, protected, order[t], text[t])
      BY <2>1, PieceIsItem
    <2> QED
      BY <2>1, <2>2, PiecesArePlaces
  <1> QED
    BY <1>1, <1>2, <1>3

(* A sprite of the merged text stood first in the document, or is new.     *)
LEMMA SpriteIsKeptOrNew ==
  ASSUME NEW doc, IsText(doc), NEW entries, IsTextures(entries), NEW protected,
         NEW order, NEW text, IsSpliced(doc, entries, protected, order, text),
         NEW t \in Gfx!Named(text)
  PROVE  /\ t \in DOMAIN text
         /\ \/ /\ order[t] = <<Gfx!FirstOf(doc, text[t].name), 0>>
               /\ text[t].name \in Gfx!Existing(doc)
               /\ text[t].name \in DOMAIN entries \ protected => text[t].tex = entries[text[t].name]
            \/ /\ order[t][2] \in 1..Len(New(doc, entries))
               /\ order[t] = <<Gfx!RootEnd(doc) - 1, order[t][2]>>
               /\ text[t].name = New(doc, entries)[order[t][2]]
               /\ text[t].name \in DOMAIN entries \ Gfx!Existing(doc)
               /\ text[t].tex = entries[text[t].name]
  <1>1. t \in DOMAIN text /\ text[t].form = "block" /\ text[t].name # Gfx!NoName
    BY DEF Gfx!Named
  <1>2. order[t] = <<order[t][1], order[t][2]>> /\ Brings(doc, entries, protected, order[t], text[t])
    BY <1>1, MergedItems
  <1> DEFINE i == order[t][1]
  <1>3. CASE /\ order[t][2] = 0 /\ i \in DOMAIN doc \ Gfx!Gone(doc)
             /\ text[t].form = doc[i].form /\ text[t].name = doc[i].name
             /\ \/ i \in Gfx!Changed(doc, entries, protected)
                   /\ text[t].tex = entries[text[t].name] /\ text[t].own = FALSE
                \/ i \notin Gfx!Changed(doc, entries, protected) /\ text[t] = doc[i]
    <2>1. i \in Gfx!Named(doc) \ Gfx!Repeats(doc)
      BY <1>1, <1>3 DEF Gfx!Named, Gfx!Gone
    <2>2. i = Gfx!FirstOf(doc, text[t].name) /\ text[t].name \in Gfx!Existing(doc)
      BY <1>3, <2>1, FirstIsKept
    <2>3. text[t].name \in DOMAIN entries \ protected => text[t].tex = entries[text[t].name]
      BY <1>3, <2>1 DEF Gfx!Changed
    <2> QED
      BY <1>1, <1>2, <1>3, <2>2, <2>3
  <1>4. CASE /\ order[t][2] \in 1..Len(New(doc, entries)) /\ i = Gfx!RootEnd(doc) - 1
             /\ text[t].name = New(doc, entries)[order[t][2]]
             /\ text[t].name \in DOMAIN entries \ Gfx!Existing(doc)
             /\ text[t].tex = entries[text[t].name]
    BY <1>1, <1>2, <1>4
  <1> QED
    BY <1>2, <1>3, <1>4 DEF Brings

LEMMA SpritesStandOnce ==
  ASSUME NEW doc, IsText(doc), NEW entries, IsTextures(entries), NEW protected,
         NEW order, NEW text, IsSpliced(doc, entries, protected, order, text)
  PROVE  /\ Gfx!Repeats(text) = {}
         /\ Gfx!Existing(text) = Gfx!Existing(doc) \cup DOMAIN entries
         /\ \A t \in Gfx!Named(text) : text[t].name \in DOMAIN entries \ protected
                                       => text[t].tex = entries[text[t].name]
  <1>1. IsText(text)
    BY MergedIsText
  <1>2. Len(text) \in Nat /\ DOMAIN text = 1..Len(text) /\ Gfx!Named(text) \subseteq DOMAIN text
    BY MergedItems DEF Gfx!Named
  <1>3. ASSUME NEW t \in Gfx!Named(text), NEW u \in Gfx!Named(text), text[t].name = text[u].name
        PROVE  t = u
    <2>1. t \in 1..Len(text) /\ u \in 1..Len(text)
      BY <1>2
    <2>2. order[t] = order[u] => t = u
      BY <2>1 DEF IsSpliced
    <2>3. CASE text[t].name \in Gfx!Existing(doc)
      <3>1. order[t] = <<Gfx!FirstOf(doc, text[t].name), 0>>
        BY <2>3, SpriteIsKeptOrNew
      <3>2. order[u] = <<Gfx!FirstOf(doc, text[u].name), 0>>
        BY <1>3, <2>3, SpriteIsKeptOrNew
      <3> QED
        BY <1>3, <2>2, <3>1, <3>2
    <2>4. CASE text[t].name \notin Gfx!Existing(doc)
      <3> DEFINE k == order[t][2]
                 l == order[u][2]
      <3>1. /\ k \in 1..Len(New(doc, entries)) /\ order[t] = <<Gfx!RootEnd(doc) - 1, k>>
            /\ text[t].name = New(doc, entries)[k]
        BY <2>4, SpriteIsKeptOrNew
      <3>2. /\ l \in 1..Len(New(doc, entries)) /\ order[u] = <<Gfx!RootEnd(doc) - 1, l>>
            /\ text[u].name = New(doc, entries)[l]
        BY <1>3, <2>4, SpriteIsKeptOrNew
      <3> HIDE DEF k, l
      <3>3. k = l
        BY <1>3, <3>1, <3>2, NewListsTheRest DEF ListsTheRest
      <3> QED
        BY <2>2, <3>1, <3>2, <3>3
    <2> QED
      BY <2>3, <2>4
  <1>4. Gfx!Repeats(text) = {}
    <2> SUFFICES ASSUME NEW t \in Gfx!Repeats(text) PROVE FALSE
      OBVIOUS
    <2>1. t \in Gfx!Named(text) /\ t # Gfx!FirstOf(text, text[t].name)
      BY DEF Gfx!Repeats
    <2>2. text[t].name \in Gfx!Existing(text)
      BY <1>1, <2>1, FirstIsKept
    <2>3. Gfx!FirstOf(text, text[t].name) \in Gfx!Named(text)
          /\ text[Gfx!FirstOf(text, text[t].name)].name = text[t].name
      BY <1>1, <2>2, FirstIsKept
    <2> QED
      BY <1>3, <2>1, <2>3
  <1>5. Gfx!Existing(text) \subseteq Gfx!Existing(doc) \cup DOMAIN entries
    <2> SUFFICES ASSUME NEW t \in Gfx!Named(text)
                 PROVE  text[t].name \in Gfx!Existing(doc) \cup DOMAIN entries
      BY DEF Gfx!Existing
    <2> QED
      BY SpriteIsKeptOrNew
  <1>6. ASSUME NEW t \in DOMAIN text, text[t].form = "block", text[t].name # Gfx!NoName
        PROVE  text[t].name \in Gfx!Existing(text)
    BY <1>6 DEF Gfx!Existing, Gfx!Named
  <1>7. ASSUME NEW n \in Gfx!Existing(doc) PROVE n \in Gfx!Existing(text)
    <2> DEFINE i == Gfx!FirstOf(doc, n)
    <2>1. i \in Gfx!Named(doc) \ Gfx!Gone(doc) /\ doc[i].name = n
      BY FirstIsKept
    <2>2. <<i, 0>> \in PiecesOf(doc, entries) /\ doc[i].form = "block" /\ n # Gfx!NoName
      BY <2>1, PiecesArePlaces DEF Gfx!Named
    <2> HIDE DEF i
    <2>3. PICK t \in 1..Len(text) : order[t] = <<i, 0>>
      BY <2>2 DEF IsSpliced
    <2>4. Brings(doc, entries, protected, <<i, 0>>, text[t])
      BY <1>2, <2>3, MergedItems
    <2>5. text[t].form = "block" /\ text[t].name = n
      <3>1. <<i, 0>>[1] = i /\ <<i, 0>>[2] = 0
        OBVIOUS
      <3>2. Len(New(doc, entries)) \in Nat
        BY NewListsTheRest DEF ListsTheRest
      <3>3. 0 \notin 1..Len(New(doc, entries))
        BY <3>2
      <3> QED
        BY <2>1, <2>2, <2>4, <3>1, <3>3 DEF Brings
    <2> QED
      BY <1>2, <1>6, <2>2, <2>3, <2>5
  <1>8. ASSUME NEW n \in DOMAIN entries \ Gfx!Existing(doc) PROVE n \in Gfx!Existing(text)
    <2>1. PICK k \in 1..Len(New(doc, entries)) : New(doc, entries)[k] = n
      BY NewListsTheRest DEF ListsTheRest
    <2>2. k \in Nat /\ k > 0
      BY <2>1, NewListsTheRest DEF ListsTheRest
    <2> DEFINE p == <<Gfx!RootEnd(doc) - 1, k>>
    <2>3. p \in PiecesOf(doc, entries) /\ p[2] = k
      BY PiecesArePlaces
    <2> HIDE DEF p
    <2>4. PICK t \in 1..Len(text) : order[t] = p
      BY <2>3 DEF IsSpliced
    <2>5. Brings(doc, entries, protected, p, text[t])
      BY <1>2, <2>4, MergedItems
    <2>6. text[t].form = "block" /\ text[t].name = n
      BY <2>1, <2>2, <2>3, <2>5 DEF Brings
    <2>7. n # Gfx!NoName
      BY DEF IsTextures
    <2> QED
      BY <1>2, <1>6, <2>4, <2>6, <2>7
  <1>9. \A t \in Gfx!Named(text) : text[t].name \in DOMAIN entries \ protected
                                   => text[t].tex = entries[text[t].name]
    BY SpriteIsKeptOrNew
  <1> QED
    BY <1>4, <1>5, <1>7, <1>8, <1>9

(* There is one way to put the pieces in order.                            *)
Placed(pieces, place, n) ==
    /\ n \in Nat /\ \A t \in 1..n : place[t] \in pieces
    /\ \A p \in pieces : \E t \in 1..n : place[t] = p
    /\ \A t, u \in 1..n : place[t] \in Gfx!Before(pieces, place[u]) <=> t < u

LEMMA OneOrder ==
  ASSUME NEW doc, NEW entries, NEW protected, NEW order, NEW text,
         IsSpliced(doc, entries, protected, order, text),
         NEW place, NEW n, Placed(PiecesOf(doc, entries), place, n)
  PROVE  Len(text) = n /\ \A t \in 1..n : order[t] = place[t]
  <1> DEFINE pieces == PiecesOf(doc, entries)
  <1>1. /\ n \in Nat /\ \A t \in 1..n : place[t] \in pieces
        /\ \A p \in pieces : \E t \in 1..n : place[t] = p
        /\ \A t, u \in 1..n : place[t] \in Gfx!Before(pieces, place[u]) <=> t < u
    BY DEF Placed
  <1>2. /\ Len(text) \in Nat /\ \A t \in 1..Len(text) : order[t] \in pieces
        /\ \A p \in pieces : \E t \in 1..Len(text) : order[t] = p
        /\ \A t \in 1..Len(text) : Cardinality(Gfx!Before(pieces, order[t])) = t - 1
    BY DEF IsSpliced
  <1>3. ASSUME NEW t \in 1..n PROVE Cardinality(Gfx!Before(pieces, place[t])) = t - 1
    <2> DEFINE B == Gfx!Before(pieces, place[t])
               f == [u \in 1..(t - 1) |-> place[u]]
    <2>1. B \subseteq pieces
      BY DEF Gfx!Before
    <2>2. t \in Nat /\ t - 1 \in Nat /\ \A u \in 1..n : u < t <=> u \in 1..(t - 1)
      BY <1>1
    <2>3. \A u \in 1..(t - 1) : u \in 1..n
      BY <1>1
    <2>4. \A u \in 1..n : place[u] \in B <=> u < t
      BY <1>1
    <2> HIDE DEF B, pieces
    <2>5. \A u \in 1..(t - 1) : f[u] \in B
      BY <2>2, <2>3, <2>4
    <2>6. \A p \in B : \E u \in 1..(t - 1) : f[u] = p
      <3> TAKE p \in B
      <3>1. PICK u \in 1..n : place[u] = p
        BY <1>1, <2>1
      <3>2. u \in 1..(t - 1)
        BY <2>2, <2>4, <3>1
      <3> QED
        BY <3>1, <3>2
    <2>7. \A u, v \in 1..(t - 1) : f[u] = f[v] => u = v
      <3> SUFFICES ASSUME NEW u \in 1..(t - 1), NEW v \in 1..(t - 1), place[u] = place[v] PROVE u = v
        OBVIOUS
      <3>1. u \in 1..n /\ v \in 1..n
        BY <2>3
      <3>2. (u < v <=> u < u) /\ (v < u <=> u < u)
        BY <1>1, <3>1
      <3> QED
        BY <3>2
    <2>8. DOMAIN f = 1..(t - 1) /\ f = [u \in 1..(t - 1) |-> f[u]]
      OBVIOUS
    <2> HIDE DEF f
    <2>9. f \in Bijection(1..(t - 1), B)
      BY <2>5, <2>6, <2>7, <2>8 DEF Bijection, Injection, Surjection, IsInjective
    <2>10. IsFiniteSet(1..(t - 1)) /\ Cardinality(1..(t - 1)) = t - 1
      <3>1. 1 \in Int /\ t - 1 \in Int
        BY <2>2
      <3>2. Cardinality(1..(t - 1)) = IF 1 > t - 1 THEN 0 ELSE (t - 1) - 1 + 1
        BY <3>1, FS_Interval
      <3> QED
        BY <2>2, <3>1, <3>2, FS_Interval
    <2>11. ExistsBijection(1..(t - 1), B)
      BY <2>9 DEF ExistsBijection
    <2>12. Cardinality(B) = t - 1
      BY <2>10, <2>11, FS_Bijection
    <2> QED
      BY <2>12 DEF B
  <1> HIDE DEF pieces
  <1>4. ASSUME NEW t \in 1..Len(text) PROVE t \in 1..n /\ order[t] = place[t]
    <2>1. PICK u \in 1..n : place[u] = order[t]
      BY <1>1, <1>2
    <2>2. u - 1 = t - 1
      BY <1>2, <1>3, <2>1
    <2>3. u = t
      BY <1>1, <1>2, <2>2
    <2> QED
      BY <2>1, <2>3
  <1>5. ASSUME NEW t \in 1..n PROVE t \in 1..Len(text)
    <2>1. PICK u \in 1..Len(text) : order[u] = place[t]
      BY <1>1, <1>2
    <2>2. u - 1 = t - 1
      BY <1>2, <1>3, <2>1
    <2>3. u = t
      BY <1>1, <1>2, <2>2
    <2> QED
      BY <2>3
  <1>6. Len(text) = n
    <2>1. n # 0 => n \in 1..n
      BY <1>1
    <2>2. Len(text) # 0 => Len(text) \in 1..Len(text)
      BY <1>2
    <2>3. n # 0 => n <= Len(text)
      BY <1>2, <1>5, <2>1
    <2>4. Len(text) # 0 => Len(text) <= n
      BY <1>1, <1>4, <2>2
    <2> QED
      BY <1>1, <1>2, <2>3, <2>4
  <1> QED
    BY <1>4, <1>6

(* A document that has every sprite once, with its texture, stays.         *)
LEMMA SplicedAlone ==
  ASSUME NEW doc, IsText(doc), NEW entries, IsTextures(entries), NEW protected,
         NEW order, NEW text, IsSpliced(doc, entries, protected, order, text),
         Gfx!Gone(doc) = {}, Len(New(doc, entries)) = 0, Gfx!Changed(doc, entries, protected) = {}
  PROVE  text = doc
  <1> DEFINE pieces == PiecesOf(doc, entries)
             place == [i \in 1..Len(doc) |-> <<i, 0>>]
  <1>1. Len(doc) \in Nat /\ DOMAIN doc = 1..Len(doc) /\ doc = [i \in 1..Len(doc) |-> doc[i]]
    <2>1. PICK Items : doc \in Seq(Items)
      BY DEF IsText
    <2> QED
      BY <2>1, LenProperties
  <1>2. \A p \in pieces : p = <<p[1], 0>> /\ p[1] \in 1..Len(doc)
    BY <1>1, PiecesArePlaces
  <1>3. \A i \in 1..Len(doc) : <<i, 0>> \in pieces
    BY <1>1, PiecesArePlaces
  <1> HIDE DEF pieces
  <1>4. Placed(pieces, place, Len(doc))
    <2>1. \A p \in pieces : \E i \in 1..Len(doc) : place[i] = p
      BY <1>2
    <2>2. ASSUME NEW i \in 1..Len(doc), NEW j \in 1..Len(doc)
          PROVE  <<i, 0>> \in Gfx!Before(pieces, <<j, 0>>) <=> i < j
      BY <1>3 DEF Gfx!Before
    <2>3. \A i \in 1..Len(doc) : place[i] = <<i, 0>>
      OBVIOUS
    <2> HIDE DEF place
    <2>4. \A i \in 1..Len(doc) : place[i] \in pieces
      BY <1>3, <2>3
    <2>5. ASSUME NEW i \in 1..Len(doc), NEW j \in 1..Len(doc)
          PROVE  place[i] \in Gfx!Before(pieces, place[j]) <=> i < j
      <3>1. place[i] = <<i, 0>> /\ place[j] = <<j, 0>>
        BY <2>3
      <3> QED
        BY <2>2, <3>1
    <2> QED
      BY <1>1, <2>1, <2>4, <2>5 DEF Placed
  <1>5. Len(text) = Len(doc) /\ \A t \in 1..Len(doc) : order[t] = place[t]
    BY <1>4, OneOrder DEF pieces
  <1>6. \A t \in 1..Len(doc) : ItemAt(doc, entries, protected, order[t]) = doc[t]
    <2> TAKE t \in 1..Len(doc)
    <2>1. order[t][1] = t /\ order[t][2] = 0
      BY <1>5
    <2> QED
      BY <2>1 DEF ItemAt
  <1>7. text = [t \in 1..Len(doc) |-> ItemAt(doc, entries, protected, order[t])]
    BY <1>5 DEF IsSpliced
  <1> QED
    BY <1>1, <1>6, <1>7

Settled(doc, entries, protected) ==
    LET again == Gfx!MergeText(doc, entries, protected)
    IN  ~again.wouldWrite /\ again.new = <<>> /\ again.changed = {} /\ again.deduped = {}

LEMMA OnceIsEnough ==
  ASSUME NEW doc, IsText(doc), NEW entries, IsTextures(entries), NEW protected,
         Gfx!Repeats(doc) = {}, DOMAIN entries \subseteq Gfx!Existing(doc),
         \A i \in Gfx!Named(doc) : doc[i].name \in DOMAIN entries \ protected
                                   => doc[i].tex = entries[doc[i].name]
  PROVE  Settled(doc, entries, protected)
  <1> DEFINE again == Gfx!MergeText(doc, entries, protected)
  <1>1. Gfx!Gone(doc) = {}
    BY DEF Gfx!Gone
  <1>2. Gfx!Changed(doc, entries, protected) = {}
    BY DEF Gfx!Changed
  <1>3. Len(New(doc, entries)) = 0 /\ New(doc, entries) = <<>>
    <2> DEFINE new == New(doc, entries)
    <2>1. /\ new \in Seq(DOMAIN entries) /\ Len(new) \in Nat
          /\ \A k \in 1..Len(new) : new[k] \in DOMAIN entries \ Gfx!Existing(doc)
      BY NewListsTheRest DEF ListsTheRest
    <2> HIDE DEF new
    <2>2. Len(new) = 0
      <3>1. 1 \in 1..Len(new) => FALSE
        BY <2>1
      <3> QED
        BY <2>1, <3>1
    <2>3. new = <<>>
      BY <2>1, <2>2, EmptySeq
    <2> QED
      BY <2>2, <2>3 DEF new
  <1>4. PICK order : IsSpliced(doc, entries, protected, order, again.text)
    BY TextIsSpliced
  <1>5. again.text = doc
    <2> HIDE DEF again
    <2> QED
      BY <1>1, <1>2, <1>3, <1>4, SplicedAlone
  <1>6. doc # <<>>
    BY FirstIsKept DEF IsText
  <1>7. again.wouldWrite <=> again.text # doc
    BY <1>6 DEF Gfx!MergeText
  <1>8. again.new = Gfx!New(doc, entries)
    BY <1>6 DEF Gfx!MergeText
  <1>9. /\ again.changed = {doc[i].name : i \in Gfx!Changed(doc, entries, protected)}
        /\ again.deduped = {doc[i].name : i \in Gfx!Repeats(doc)}
    BY <1>6 DEF Gfx!MergeText
  <1> HIDE DEF again
  <1>10. again.changed = {} /\ again.deduped = {}
    BY <1>2, <1>9
  <1> QED
    BY <1>3, <1>5, <1>7, <1>8, <1>10 DEF Settled, New, again

(* Places that correspond, in order and item by item, show the same.       *)
Lower(places) == [i \in places |-> {j \in places : j < i}]

Lists(s, places) ==
    LET n == Cardinality(places)
    IN  /\ n \in Nat /\ DOMAIN s = 1..n
        /\ \A k \in 1..n : s[k] \in places /\ Cardinality(Lower(places)[s[k]]) = k - 1
        /\ \A i \in places : \E k \in 1..n : s[k] = i

LEMMA PlacesAreListed ==
  ASSUME NEW places, IsFiniteSet(places), places \subseteq Nat
  PROVE  Lists(Ranked(places, Lower(places)), places)
  <1>1. \A i \in places : \A j : j \in Lower(places)[i] <=> j \in places /\ j < i
    BY DEF Lower
  <1>2. ASSUME NEW x \in places
        PROVE  Lower(places)[x] \subseteq places /\ x \notin Lower(places)[x]
    <2>1. \A j : j \in Lower(places)[x] <=> j \in places /\ j < x
      BY <1>1
    <2>2. ~(x < x)
      OBVIOUS
    <2> QED
      BY <2>1, <2>2
  <1>3. ASSUME NEW x \in places, NEW y \in places, x \in Lower(places)[y], NEW z \in Lower(places)[x]
        PROVE  z \in Lower(places)[y]
    <2>1. x < y /\ z < x /\ z \in places
      BY <1>1, <1>3
    <2>2. z < y
      BY <2>1
    <2> QED
      BY <1>1, <2>1, <2>2
  <1>4. ASSUME NEW x \in places, NEW y \in places, x # y
        PROVE  x \in Lower(places)[y] \/ y \in Lower(places)[x]
    <2>1. x < y \/ y < x
      BY <1>4
    <2> QED
      BY <1>1, <2>1
  <1>5. IsOrder(places, Lower(places))
    BY <1>2, <1>3, <1>4 DEF IsOrder
  <1> DEFINE n == Cardinality(places)
             s == Ranked(places, Lower(places))
  <1>6. n \in Nat /\ DOMAIN s = 1..n
    BY <1>5, RankedIsEnumeration
  <1>7. \A k \in 1..n : s[k] \in places
    BY <1>5, RankedIsEnumeration
  <1>8. \A k \in 1..n : Cardinality(Lower(places)[s[k]]) = k - 1
    BY <1>5, RankedIsEnumeration
  <1>9. \A i \in places : \E k \in 1..n : s[k] = i
    BY <1>5, RankedIsEnumeration
  <1> HIDE DEF s
  <1>10. Lists(s, places)
    BY <1>6, <1>7, <1>8, <1>9 DEF Lists
  <1> QED
    BY <1>10 DEF s

Match(doc, S, other, T, f) ==
    /\ IsFiniteSet(S) /\ S \subseteq Nat /\ IsFiniteSet(T) /\ T \subseteq Nat
    /\ DOMAIN f = S /\ \A i \in S : f[i] \in T /\ doc[i] = other[f[i]]
    /\ \A j \in T : \E i \in S : f[i] = j
    /\ \A i, j \in S : i < j => f[i] < f[j]

LEMMA OnlyAlike ==
  ASSUME NEW doc, NEW S, NEW other, NEW T, NEW f, Match(doc, S, other, T, f)
  PROVE  Gfx!Only(doc, S) = Gfx!Only(other, T)
  <1> DEFINE s == Ranked(S, Lower(S))
             t == Ranked(T, Lower(T))
             m == Cardinality(S)
             n == Cardinality(T)
  <1>0. /\ IsFiniteSet(S) /\ S \subseteq Nat /\ IsFiniteSet(T) /\ T \subseteq Nat
        /\ DOMAIN f = S /\ \A i \in S : f[i] \in T /\ doc[i] = other[f[i]]
        /\ \A j \in T : \E i \in S : f[i] = j
        /\ \A i, j \in S : i < j => f[i] < f[j]
    BY DEF Match
  <1>1. /\ m \in Nat /\ DOMAIN s = 1..m
        /\ \A k \in 1..m : s[k] \in S /\ Cardinality(Lower(S)[s[k]]) = k - 1
        /\ \A i \in S : \E k \in 1..m : s[k] = i
    <2>1. Lists(s, S)
      BY <1>0, PlacesAreListed
    <2> HIDE DEF s
    <2> QED
      BY <2>1 DEF Lists
  <1>2. /\ n \in Nat /\ DOMAIN t = 1..n
        /\ \A k \in 1..n : t[k] \in T /\ Cardinality(Lower(T)[t[k]]) = k - 1
        /\ \A i \in T : \E k \in 1..n : t[k] = i
    <2>1. Lists(t, T)
      BY <1>0, PlacesAreListed
    <2> HIDE DEF t
    <2> QED
      BY <2>1 DEF Lists
  <1>3. \A i, j \in S : f[i] = f[j] => i = j
    <2> SUFFICES ASSUME NEW i \in S, NEW j \in S, f[i] = f[j], i # j PROVE FALSE
      OBVIOUS
    <2>1. i < j \/ j < i
      BY <1>0
    <2>2. f[i] \in Nat /\ f[j] \in Nat
      BY <1>0
    <2>3. (i < j => f[i] < f[j]) /\ (j < i => f[j] < f[i])
      BY <1>0
    <2> QED
      BY <2>1, <2>2, <2>3
  <1>4. \A i, j \in S : f[i] < f[j] => i < j
    <2> SUFFICES ASSUME NEW i \in S, NEW j \in S, f[i] < f[j], ~(i < j) PROVE FALSE
      OBVIOUS
    <2>1. i = j \/ j < i
      BY <1>0
    <2>2. f[i] \in Nat /\ f[j] \in Nat
      BY <1>0
    <2>3. i = j => FALSE
      BY <2>2
    <2>4. j < i => f[j] < f[i]
      BY <1>0
    <2> QED
      BY <2>1, <2>2, <2>3, <2>4
  <1>5. Cardinality(T) = Cardinality(S)
    <2> DEFINE g == [i \in S |-> f[i]]
    <2>1. g \in Bijection(S, T)
      BY <1>0, <1>3 DEF Bijection, Injection, Surjection, IsInjective
    <2>2. ExistsBijection(S, T)
      BY <2>1 DEF ExistsBijection
    <2> QED
      BY <1>0, <2>2, FS_Bijection
  <1>6. ASSUME NEW i \in S PROVE Cardinality(Lower(T)[f[i]]) = Cardinality(Lower(S)[i])
    <2> DEFINE A == Lower(S)[i]
               B == Lower(T)[f[i]]
               g == [j \in A |-> f[j]]
    <2>1. \A j : j \in A <=> j \in S /\ j < i
      BY DEF Lower
    <2>2. \A j : j \in B <=> j \in T /\ j < f[i]
      <3>1. f[i] \in T
        BY <1>0
      <3> QED
        BY <3>1 DEF Lower
    <2> HIDE DEF A, B
    <2>3. \A j \in A : g[j] \in B
      BY <1>0, <2>1, <2>2
    <2>4. \A l \in B : \E j \in A : g[j] = l
      <3> TAKE l \in B
      <3>1. l \in T /\ l < f[i]
        BY <2>2
      <3>2. PICK j \in S : f[j] = l
        BY <1>0, <3>1
      <3>3. j \in A
        BY <1>4, <2>1, <3>1, <3>2
      <3> QED
        BY <3>2, <3>3
    <2>5. \A j, l \in A : g[j] = g[l] => j = l
      BY <1>3, <2>1
    <2>6. g \in Bijection(A, B)
      BY <2>3, <2>4, <2>5 DEF Bijection, Injection, Surjection, IsInjective
    <2>7. ExistsBijection(A, B)
      BY <2>6 DEF ExistsBijection
    <2>8. IsFiniteSet(A)
      <3>1. A \subseteq S
        BY <2>1
      <3> QED
        BY <1>0, <3>1, FS_Subset
    <2>9. Cardinality(B) = Cardinality(A)
      BY <2>7, <2>8, FS_Bijection
    <2> QED
      BY <2>9 DEF A, B
  <1> HIDE DEF s, t, m, n
  <1>7. m = n
    BY <1>5 DEF m, n
  <1>8. ASSUME NEW k \in 1..m PROVE t[k] = f[s[k]]
    <2>1. s[k] \in S /\ f[s[k]] \in T /\ Cardinality(Lower(S)[s[k]]) = k - 1
      BY <1>0, <1>1
    <2>2. Cardinality(Lower(T)[f[s[k]]]) = k - 1
      BY <1>6, <2>1
    <2>3. PICK l \in 1..n : t[l] = f[s[k]]
      BY <1>2, <2>1
    <2>4. l - 1 = k - 1
      BY <1>2, <2>2, <2>3
    <2>5. l = k
      BY <1>1, <1>2, <2>4
    <2> QED
      BY <2>3, <2>5
  <1>9. ASSUME NEW k \in 1..m PROVE doc[s[k]] = other[t[k]]
    <2>1. s[k] \in S
      BY <1>1
    <2>2. doc[s[k]] = other[f[s[k]]]
      BY <1>0, <2>1
    <2> QED
      BY <1>8, <2>2
  <1>10. Gfx!Only(doc, S) = [k \in 1..m |-> doc[s[k]]]
    <2>1. Gfx!Ranked(S, [i \in S |-> {j \in S : j < i}]) = s
      BY GfxRanked DEF s, Lower
    <2> QED
      BY <1>1, <2>1 DEF Gfx!Only
  <1>11. Gfx!Only(other, T) = [k \in 1..m |-> other[t[k]]]
    <2>1. Gfx!Ranked(T, [i \in T |-> {j \in T : j < i}]) = t
      BY GfxRanked DEF t, Lower
    <2> QED
      BY <1>2, <1>7, <2>1 DEF Gfx!Only
  <1> QED
    BY <1>9, <1>10, <1>11

(* What is left of the file's own bytes.                                   *)
Own(text) == {t \in DOMAIN text : text[t].own}
Left(doc, entries, protected) == (DOMAIN doc \ Gfx!Gone(doc)) \ Gfx!Changed(doc, entries, protected)

LEMMA FileIsKept ==
  ASSUME NEW doc, IsText(doc), \A i \in DOMAIN doc : doc[i].own = TRUE,
         NEW entries, IsTextures(entries), NEW protected,
         NEW order, NEW text, IsSpliced(doc, entries, protected, order, text)
  PROVE  Gfx!Only(text, Own(text)) = Gfx!Only(doc, Left(doc, entries, protected))
  <1> DEFINE S == {t \in DOMAIN text : text[t].own}
             T == (DOMAIN doc \ Gfx!Gone(doc)) \ Gfx!Changed(doc, entries, protected)
             f == [t \in S |-> order[t][1]]
  <1>1. Len(text) \in Nat /\ DOMAIN text = 1..Len(text)
    BY MergedItems
  <1>2. Len(doc) \in Nat /\ DOMAIN doc = 1..Len(doc)
    BY FirstIsKept
  <1>3. ASSUME NEW t \in S
        PROVE  order[t] = <<order[t][1], 0>> /\ order[t][1] \in T /\ text[t] = doc[order[t][1]]
    <2>1. t \in DOMAIN text /\ text[t].own # FALSE
      OBVIOUS
    <2>2. order[t] = <<order[t][1], order[t][2]>> /\ Brings(doc, entries, protected, order[t], text[t])
      BY <2>1, MergedItems
    <2> QED
      BY <2>1, <2>2 DEF Brings
  <1>4. ASSUME NEW i \in T PROVE \E t \in S : order[t][1] = i
    <2>1. <<i, 0>> \in PiecesOf(doc, entries)
      BY PiecesArePlaces
    <2>2. PICK t \in 1..Len(text) : order[t] = <<i, 0>>
      BY <2>1 DEF IsSpliced
    <2>3. text[t] = ItemAt(doc, entries, protected, <<i, 0>>)
      BY <2>2 DEF IsSpliced
    <2>4. <<i, 0>>[1] = i /\ <<i, 0>>[2] = 0
      OBVIOUS
    <2>5. text[t] = doc[i]
      BY <2>3, <2>4 DEF ItemAt
    <2>6. t \in DOMAIN text /\ text[t].own = TRUE
      BY <1>1, <2>2, <2>5
    <2> QED
      BY <2>2, <2>6
  <1>5. IsFiniteSet(S) /\ S \subseteq Nat
    <2>1. IsFiniteSet(DOMAIN text)
      <3>1. 1 \in Int /\ Len(text) \in Int
        BY <1>1
      <3> QED
        BY <1>1, <3>1, FS_Interval
    <2>2. S \subseteq DOMAIN text /\ DOMAIN text \subseteq Nat
      BY <1>1
    <2> HIDE DEF S
    <2> QED
      BY <2>1, <2>2, FS_Subset
  <1>6. IsFiniteSet(T) /\ T \subseteq Nat
    <2>1. IsFiniteSet(DOMAIN doc)
      <3>1. 1 \in Int /\ Len(doc) \in Int
        BY <1>2
      <3> QED
        BY <1>2, <3>1, FS_Interval
    <2>2. T \subseteq DOMAIN doc /\ DOMAIN doc \subseteq Nat
      BY <1>2
    <2> HIDE DEF T
    <2> QED
      BY <2>1, <2>2, FS_Subset
  <1>7. S \subseteq 1..Len(text)
    BY <1>1
  <1> HIDE DEF S, T
  <1>8. ASSUME NEW t \in S, NEW u \in S, t < u PROVE f[t] < f[u]
    <2>1. t \in 1..Len(text) /\ u \in 1..Len(text)
      BY <1>7
    <2>2. order[t] \in Gfx!Before(PiecesOf(doc, entries), order[u])
      BY <1>8, <2>1 DEF IsSpliced
    <2>3. order[t][1] < order[u][1] \/ (order[t][1] = order[u][1] /\ order[t][2] < order[u][2])
      BY <2>2 DEF Gfx!Before
    <2>4. order[t][2] = 0 /\ order[u][2] = 0
      BY <1>3
    <2> QED
      BY <2>3, <2>4
  <1>9. DOMAIN f = S /\ \A t \in S : f[t] = order[t][1]
    OBVIOUS
  <1> HIDE DEF f
  <1>10. \A t \in S : f[t] \in T /\ text[t] = doc[f[t]]
    BY <1>3, <1>9
  <1>11. \A i \in T : \E t \in S : f[t] = i
    BY <1>4, <1>9
  <1>12. Match(text, S, doc, T, f)
    BY <1>5, <1>6, <1>8, <1>9, <1>10, <1>11 DEF Match
  <1>13. Gfx!Only(text, S) = Gfx!Only(doc, T)
    BY <1>12, OnlyAlike
  <1> QED
    BY <1>13 DEF S, T, Own, Left

(* A merge keeps the rest: first of a document that is there.              *)
MergeFinds(doc, entries, protected, answer) ==
    /\ Gfx!Repeats(answer.text) = {}
    /\ Gfx!Existing(answer.text) = Gfx!Existing(doc) \cup DOMAIN entries
    /\ \A n \in DOMAIN entries \ protected :
          answer.text[Gfx!FirstOf(answer.text, n)].tex = entries[n]
    /\ answer.conflicts \subseteq answer.deduped
    /\ answer.orphaned \cap (DOMAIN entries \cup protected) = {}
    /\ Settled(answer.text, entries, protected)

LEMMA MergeIsFinished ==
  ASSUME NEW doc, IsText(doc), NEW entries, IsTextures(entries), NEW protected
  PROVE  MergeFinds(doc, entries, protected, Gfx!MergeText(doc, entries, protected))
  <1> DEFINE answer == Gfx!MergeText(doc, entries, protected)
             text == answer.text
  <1>1. PICK order : IsSpliced(doc, entries, protected, order, text)
    BY TextIsSpliced
  <1>2. doc # <<>>
    BY FirstIsKept DEF IsText
  <1>3. answer.conflicts \subseteq answer.deduped
    <2>1. answer.conflicts = {doc[i].name : i \in Gfx!Conflicts(doc)}
      BY <1>2 DEF Gfx!MergeText
    <2>2. answer.deduped = {doc[i].name : i \in Gfx!Repeats(doc)}
      BY <1>2 DEF Gfx!MergeText
    <2>3. Gfx!Conflicts(doc) \subseteq Gfx!Repeats(doc)
      BY DEF Gfx!Conflicts
    <2> QED
      BY <2>1, <2>2, <2>3
  <1>4. answer.orphaned \cap (DOMAIN entries \cup protected) = {}
    <2>1. answer.orphaned = Gfx!Existing(doc) \ (DOMAIN entries \cup protected)
      BY <1>2 DEF Gfx!MergeText
    <2> QED
      BY <2>1
  <1> HIDE DEF text
  <1>5. IsText(text)
    BY <1>1, MergedIsText
  <1>6. /\ Gfx!Repeats(text) = {}
        /\ Gfx!Existing(text) = Gfx!Existing(doc) \cup DOMAIN entries
        /\ \A t \in Gfx!Named(text) : text[t].name \in DOMAIN entries \ protected
                                      => text[t].tex = entries[text[t].name]
    BY <1>1, SpritesStandOnce
  <1>7. Settled(text, entries, protected)
    BY <1>5, <1>6, OnceIsEnough
  <1>8. ASSUME NEW n \in DOMAIN entries \ protected
        PROVE  text[Gfx!FirstOf(text, n)].tex = entries[n]
    <2>1. n \in Gfx!Existing(text)
      BY <1>6
    <2>2. Gfx!FirstOf(text, n) \in Gfx!Named(text) /\ text[Gfx!FirstOf(text, n)].name = n
      BY <1>5, <2>1, FirstIsKept
    <2> QED
      BY <1>6, <2>2
  <1> HIDE DEF answer
  <1>9. MergeFinds(doc, entries, protected, answer)
    BY <1>3, <1>4, <1>6, <1>7, <1>8 DEF MergeFinds, text
  <1> QED
    BY <1>9 DEF answer

LEMMA FilesAreKept ==
  ASSUME NEW doc, IsText(doc), \A i \in DOMAIN doc : doc[i].own = TRUE,
         NEW Images, NEW images \in Seq(Images), NEW protected
  PROVE  Gfx!MergeKeepsTheRest(doc, images, protected)
  <1> DEFINE entries == Gfx!Entries(images)
             answer == Gfx!MergeText(doc, entries, protected)
             text == answer.text
             own == {t \in DOMAIN text : text[t].own}
             kept == {i \in DOMAIN doc : ~(i \in Gfx!Repeats(doc) \/ doc[i].name \in answer.changed)}
             dropped == {i \in DOMAIN doc : doc[i].form = "note" /\ i - 1 \in Gfx!Repeats(doc)}
  <1>1. IsTextures(entries)
    BY EntriesAreTextures
  <1>2. MergeFinds(doc, entries, protected, answer)
    <2> HIDE DEF entries
    <2> QED
      BY <1>1, MergeIsFinished
  <1>3. PICK order : IsSpliced(doc, entries, protected, order, text)
    <2> HIDE DEF entries
    <2> QED
      BY <1>1, TextIsSpliced
  <1>4. doc # <<>>
    BY FirstIsKept DEF IsText
  <1>5. answer.changed = {doc[i].name : i \in Gfx!Changed(doc, entries, protected)}
    BY <1>4 DEF Gfx!MergeText
  <1> HIDE DEF entries, answer
  <1>6. ASSUME NEW i \in DOMAIN doc \ Gfx!Repeats(doc)
        PROVE  doc[i].name \in answer.changed <=> i \in Gfx!Changed(doc, entries, protected)
    <2> SUFFICES ASSUME NEW j \in Gfx!Changed(doc, entries, protected), doc[j].name = doc[i].name
                 PROVE  i = j
      BY <1>5
    <2>1. j \in Gfx!Named(doc) \ Gfx!Repeats(doc) /\ doc[j].name # Gfx!NoName
      BY DEF Gfx!Changed, Gfx!Named
    <2>2. i \in Gfx!Named(doc) \ Gfx!Repeats(doc)
      BY <2>1 DEF IsText, Gfx!Named
    <2> QED
      BY <2>1, <2>2, FirstIsKept
  <1>7. kept \ dropped = (DOMAIN doc \ Gfx!Gone(doc)) \ Gfx!Changed(doc, entries, protected)
    BY <1>6 DEF Gfx!Gone
  <1>8. Gfx!Only(text, own) = Gfx!Only(doc, kept \ dropped)
    <2>1. Gfx!Only(text, Own(text)) = Gfx!Only(doc, Left(doc, entries, protected))
      <3> HIDE DEF text
      <3> QED
        BY <1>1, <1>3, FileIsKept
    <2> QED
      BY <1>7, <2>1 DEF Own, Left
  <1> QED
    BY <1>2, <1>8 DEF Gfx!MergeKeepsTheRest, MergeFinds, Settled, entries, answer

(* A new document.                                                         *)
LEMMA EmptyIsText ==
  /\ IsText(Gfx!EmptyDocument) /\ Gfx!EmptyDocument # <<>>
  /\ Gfx!Named(Gfx!EmptyDocument) = {} /\ Gfx!Existing(Gfx!EmptyDocument) = {}
  /\ \A i \in DOMAIN Gfx!EmptyDocument : Gfx!EmptyDocument[i].own = FALSE
  <1> DEFINE doc == Gfx!EmptyDocument
             o == Gfx!Item("open")
             c == Gfx!Item("close")
  <1>1. /\ o.form = "open" /\ o.name = Gfx!NoName /\ o.own = FALSE
        /\ c.form = "close" /\ c.name = Gfx!NoName /\ c.own = FALSE
    BY DEF Gfx!Item
  <1>2. doc = <<o, c>>
    BY DEF Gfx!EmptyDocument
  <1> HIDE DEF o, c, doc
  <1>3. doc \in Seq({o, c}) /\ DOMAIN doc = 1..2 /\ doc[1] = o /\ doc[2] = c /\ doc # <<>>
    BY <1>2
  <1>4. \A i \in DOMAIN doc : doc[i].form # "block" /\ doc[i].name = Gfx!NoName /\ doc[i].own = FALSE
    <2>1. \A i \in DOMAIN doc : i = 1 \/ i = 2
      BY <1>3
    <2> QED
      BY <1>1, <1>3, <2>1
  <1>5. 2 \in DOMAIN doc /\ doc[2].form = "close"
    BY <1>1, <1>3
  <1>6. IsText(doc)
    BY <1>3, <1>4, <1>5 DEF IsText
  <1>7. Gfx!Named(doc) = {}
    BY <1>4 DEF Gfx!Named
  <1>8. Gfx!Existing(doc) = {}
    BY <1>7 DEF Gfx!Existing
  <1> QED
    BY <1>3, <1>4, <1>6, <1>7, <1>8 DEF doc

LEMMA NothingIsKept ==
  ASSUME NEW Images, NEW images \in Seq(Images), NEW protected
  PROVE  Gfx!MergeKeepsTheRest(<<>>, images, protected)
  <1> DEFINE entries == Gfx!Entries(images)
             doc == Gfx!EmptyDocument
             answer == Gfx!MergeText(<<>>, entries, protected)
             text == answer.text
             none == <<>>
             kept == {i \in DOMAIN none : ~(i \in Gfx!Repeats(none) \/ none[i].name \in answer.changed)}
             dropped == {i \in DOMAIN none : none[i].form = "note" /\ i - 1 \in Gfx!Repeats(none)}
             own == {t \in DOMAIN text : text[t].own}
  <1>1. IsTextures(entries)
    BY EntriesAreTextures
  <1>2. answer = Gfx!MergeText(doc, entries, protected)
    BY EmptyIsText DEF Gfx!MergeText
  <1> HIDE DEF entries, answer
  <1>3. MergeFinds(doc, entries, protected, answer)
    BY <1>1, <1>2, EmptyIsText, MergeIsFinished
  <1>4. DOMAIN none = {} /\ Gfx!Existing(none) = {}
    <2>1. DOMAIN none = {}
      OBVIOUS
    <2> QED
      BY <2>1 DEF Gfx!Existing, Gfx!Named
  <1>5. Gfx!Existing(text) = Gfx!Existing(none) \cup DOMAIN entries
    BY <1>3, <1>4, EmptyIsText DEF MergeFinds
  <1>6. own = {}
    <2> SUFFICES ASSUME NEW t \in DOMAIN text PROVE text[t].own = FALSE
      OBVIOUS
    <2>1. PICK order : IsSpliced(doc, entries, protected, order, text)
      BY <1>1, <1>2, EmptyIsText, TextIsSpliced
    <2>2. Brings(doc, entries, protected, order[t], text[t])
      <3> HIDE DEF text
      <3> QED
        BY <1>1, <2>1, EmptyIsText, MergedItems
    <2> HIDE DEF doc, text
    <2>3. \A i \in DOMAIN doc : doc[i].own = FALSE
      BY EmptyIsText DEF doc
    <2> QED
      BY <2>2, <2>3 DEF Brings
  <1>7. kept \ dropped = {}
    BY <1>4
  <1>8. \A d : Gfx!Only(d, {}) = [k \in {} |-> d[0]]
    <2> TAKE d
    <2> DEFINE order == Gfx!Ranked({}, [i \in {} |-> {j \in {} : j < i}])
    <2>1. order = Ranked({}, [i \in {} |-> {j \in {} : j < i}])
      BY GfxRanked
    <2>2. Cardinality({}) = 0
      BY FS_EmptySet
    <2>3. DOMAIN order = {}
      BY <2>1, <2>2 DEF Ranked
    <2>4. Gfx!Only(d, {}) = [k \in DOMAIN order |-> d[order[k]]]
      BY DEF Gfx!Only
    <2> HIDE DEF order
    <2> QED
      BY <2>3, <2>4
  <1>9. Gfx!Only(text, own) = Gfx!Only(none, kept \ dropped)
    <2>1. Gfx!Only(text, {}) = [k \in {} |-> text[0]] /\ Gfx!Only(none, {}) = [k \in {} |-> none[0]]
      BY <1>8
    <2>2. [k \in {} |-> text[0]] = [k \in {} |-> none[0]]
      OBVIOUS
    <2> QED
      BY <1>6, <1>7, <2>1, <2>2
  <1> QED
    BY <1>3, <1>5, <1>9 DEF Gfx!MergeKeepsTheRest, MergeFinds, Settled, entries, answer

(* Stretches of a text, put together.                                      *)
Cut(text, a, b) == [t \in 1..(b - a) |-> text[a + t]]

LEMMA CutIsText ==
  ASSUME NEW Items, NEW text \in Seq(Items), NEW a \in Nat, NEW b \in Nat, a <= b, b <= Len(text)
  PROVE  /\ Cut(text, a, b) \in Seq(Items) /\ Len(Cut(text, a, b)) = b - a
         /\ \A t \in 1..(b - a) : Cut(text, a, b)[t] = text[a + t]
  <1> DEFINE n == b - a
  <1>1. n \in Nat /\ \A t \in 1..n : a + t \in 1..Len(text)
    BY LenProperties
  <1>2. \A t \in 1..n : text[a + t] \in Items
    BY <1>1, ElementOfSeq
  <1>3. Cut(text, a, b) = [t \in 1..n |-> text[a + t]]
    BY DEF Cut
  <1> HIDE DEF n
  <1>4. Cut(text, a, b) \in [1..n -> Items]
    BY <1>2, <1>3
  <1>5. Cut(text, a, b) \in Seq(Items) /\ Len(Cut(text, a, b)) = n
    BY <1>1, <1>4
  <1>6. \A t \in 1..n : Cut(text, a, b)[t] = text[a + t]
    BY <1>3
  <1> QED
    BY <1>5, <1>6 DEF n

LEMMA CutsJoin ==
  ASSUME NEW Items, NEW text \in Seq(Items),
         NEW a \in Nat, NEW b \in Nat, NEW c \in Nat, a <= b, b <= c, c <= Len(text)
  PROVE  Cut(text, a, b) \o Cut(text, b, c) = Cut(text, a, c)
  <1> DEFINE x == Cut(text, a, b)
             y == Cut(text, b, c)
             z == Cut(text, a, c)
  <1>0. b <= Len(text) /\ a <= c
    <2>1. Len(text) \in Nat
      BY LenProperties
    <2> QED
      BY <2>1
  <1>1. x \in Seq(Items) /\ Len(x) = b - a /\ \A t \in 1..(b - a) : x[t] = text[a + t]
    BY <1>0, CutIsText
  <1>2. y \in Seq(Items) /\ Len(y) = c - b /\ \A t \in 1..(c - b) : y[t] = text[b + t]
    BY CutIsText
  <1>3. z \in Seq(Items) /\ Len(z) = c - a /\ \A t \in 1..(c - a) : z[t] = text[a + t]
    BY <1>0, CutIsText
  <1> HIDE DEF x, y, z
  <1>4. /\ x \o y \in Seq(Items) /\ Len(x \o y) = Len(x) + Len(y)
        /\ \A i \in 1..(Len(x) + Len(y)) : (x \o y)[i] = IF i <= Len(x) THEN x[i] ELSE y[i - Len(x)]
    BY <1>1, <1>2, ConcatProperties
  <1>5. Len(x \o y) = Len(z) /\ Len(z) = c - a
    BY <1>1, <1>2, <1>3, <1>4
  <1>6. ASSUME NEW i \in 1..(c - a) PROVE (x \o y)[i] = z[i]
    <2>1. (x \o y)[i] = IF i <= b - a THEN x[i] ELSE y[i - (b - a)]
      BY <1>1, <1>2, <1>4
    <2>2. CASE i <= b - a
      BY <1>1, <1>3, <2>1, <2>2
    <2>3. CASE ~(i <= b - a)
      <3>1. i - (b - a) \in 1..(c - b) /\ b + (i - (b - a)) = a + i
        BY <2>3
      <3>2. y[i - (b - a)] = text[a + i]
        BY <1>2, <3>1
      <3> QED
        BY <1>3, <2>1, <2>3, <3>2
    <2> QED
      BY <2>2, <2>3
  <1>7. x \o y = z
    BY <1>3, <1>4, <1>5, <1>6, SeqEqual
  <1> QED
    BY <1>7 DEF x, y, z

(* Joining pages adds one after the other.                                 *)
Divides(pages, count, text, ends) ==
    /\ count \in Nat /\ Len(pages) = count /\ ends[0] = 0
    /\ \A p \in 0..count : ends[p] \in Nat /\ ends[p] <= Len(text)
    /\ \A p \in 1..count : ends[p - 1] <= ends[p] /\ pages[p] = Cut(text, ends[p - 1], ends[p])

LEMMA JoinedRuns ==
  ASSUME NEW Items, NEW text \in Seq(Items), NEW count, NEW ends, NEW pages,
         Divides(pages, count, text, ends)
  PROVE  Gfx!Joined(pages) = Cut(text, 0, ends[count])
  <1> DEFINE Step(f, p) == IF p = 0 THEN <<>> ELSE f[p - 1] \o pages[p]
             upto == CHOOSE f : f = [p \in 0..count |-> Step(f, p)]
             good == [p \in 0..count |-> Cut(text, 0, ends[p])]
  <1>0. /\ count \in Nat /\ Len(pages) = count /\ ends[0] = 0
        /\ \A p \in 0..count : ends[p] \in Nat /\ ends[p] <= Len(text)
        /\ \A p \in 1..count : ends[p - 1] <= ends[p] /\ pages[p] = Cut(text, ends[p - 1], ends[p])
    BY DEF Divides
  <1>1. Gfx!Joined(pages) = upto[count]
    BY <1>0 DEF Gfx!Joined
  <1>2. Cut(text, 0, 0) = <<>>
    <2>1. Len(text) \in Nat
      BY LenProperties
    <2>2. Cut(text, 0, 0) \in Seq(Items) /\ Len(Cut(text, 0, 0)) = 0
      BY <2>1, CutIsText
    <2> QED
      BY <2>2, EmptySeq
  <1>3. ASSUME NEW p \in 1..count
        PROVE  Cut(text, 0, ends[p - 1]) \o pages[p] = Cut(text, 0, ends[p])
    <2>1. p - 1 \in 0..count /\ p \in 0..count
      BY <1>0
    <2>2. /\ ends[p - 1] \in Nat /\ ends[p] \in Nat /\ 0 <= ends[p - 1]
          /\ ends[p - 1] <= ends[p] /\ ends[p] <= Len(text)
      BY <1>0, <2>1
    <2>3. pages[p] = Cut(text, ends[p - 1], ends[p])
      BY <1>0
    <2>4. PICK a, b : a = ends[p - 1] /\ b = ends[p]
      OBVIOUS
    <2>5. a \in Nat /\ b \in Nat /\ 0 \in Nat /\ 0 <= a /\ a <= b /\ b <= Len(text)
      BY <2>2, <2>4
    <2>6. Cut(text, 0, a) \o Cut(text, a, b) = Cut(text, 0, b)
      BY <2>5, CutsJoin
    <2> QED
      BY <2>3, <2>4, <2>6
  <1>4. good = [p \in 0..count |-> Step(good, p)]
    <2>1. ASSUME NEW p \in 0..count PROVE good[p] = Step(good, p)
      <3>1. CASE p = 0
        BY <1>0, <1>2, <3>1
      <3>2. CASE p # 0
        <4>1. p \in 1..count /\ p - 1 \in 0..count
          BY <1>0, <3>2
        <4>2. good[p - 1] = Cut(text, 0, ends[p - 1]) /\ good[p] = Cut(text, 0, ends[p])
          BY <4>1
        <4> HIDE DEF good
        <4> QED
          BY <1>3, <3>2, <4>1, <4>2
      <3> QED
        BY <3>1, <3>2
    <2>2. good = [p \in 0..count |-> good[p]]
      OBVIOUS
    <2> HIDE DEF good, Step
    <2> QED
      BY <2>1, <2>2
  <1>5. upto = [p \in 0..count |-> Step(upto, p)]
    <2>1. \E f : f = [p \in 0..count |-> Step(f, p)]
      BY <1>4
    <2> HIDE DEF Step
    <2> QED
      BY <2>1
  <1>6. upto[0] = <<>> /\ \A p \in 1..count : upto[p] = upto[p - 1] \o pages[p]
    <2>1. \A p \in 0..count : upto[p] = Step(upto, p)
      <3> HIDE DEF Step, upto
      <3> QED
        BY <1>5
    <2>2. 0 \in 0..count /\ \A p \in 1..count : p \in 0..count /\ p # 0
      BY <1>0
    <2> HIDE DEF upto
    <2> QED
      BY <2>1, <2>2
  <1> HIDE DEF upto, Step, good
  <1> DEFINE T == {p \in 0..count : upto[p] = Cut(text, 0, ends[p])}
  <1>7. 0..count \subseteq T
    <2>1. 0 \in T
      BY <1>0, <1>2, <1>6
    <2>2. ASSUME NEW p \in 0..(count - 1), p \in T PROVE p + 1 \in T
      <3>1. p + 1 \in 1..count /\ p + 1 \in 0..count /\ (p + 1) - 1 = p
        BY <1>0
      <3>2. upto[p + 1] = upto[p] \o pages[p + 1]
        BY <1>6, <3>1
      <3>3. Cut(text, 0, ends[p]) \o pages[p + 1] = Cut(text, 0, ends[p + 1])
        BY <1>3, <3>1
      <3> QED
        BY <2>2, <3>1, <3>2, <3>3
    <2> HIDE DEF T
    <2> QED
      BY <1>0, <2>1, <2>2, CountsUp
  <1>8. count \in 0..count
    BY <1>0
  <1> QED
    BY <1>1, <1>7, <1>8

(* The text of a new document: opened, its blocks, closed.                 *)
NewBlock(entries, k) ==
    Gfx!Rendered(New(Gfx!EmptyDocument, entries)[k], entries[New(Gfx!EmptyDocument, entries)[k]])
NewCount(entries) == Len(New(Gfx!EmptyDocument, entries))
Opens(text, entries) ==
    /\ \E Items : text \in Seq(Items)
    /\ Len(text) = NewCount(entries) + 2
    /\ text[1] = Gfx!Item("open") /\ text[NewCount(entries) + 2] = Gfx!Item("close")
    /\ \A k \in 1..NewCount(entries) : text[k + 1] = NewBlock(entries, k)

LEMMA NewTextOpens ==
  ASSUME NEW entries, IsTextures(entries)
  PROVE  /\ Opens(Gfx!MergeText(<<>>, entries, {}).text, entries)
         /\ Gfx!MergeText(<<>>, entries, {}).new = New(Gfx!EmptyDocument, entries)
         /\ NewCount(entries) \in Nat
  <1> DEFINE doc == Gfx!EmptyDocument
             answer == Gfx!MergeText(<<>>, entries, {})
             text == answer.text
             n == NewCount(entries)
             pieces == PiecesOf(doc, entries)
             place == [t \in 1..(n + 2) |-> IF t = n + 2 THEN <<2, 0>> ELSE <<1, t - 1>>]
  <1>1. answer = Gfx!MergeText(doc, entries, {})
    BY EmptyIsText DEF Gfx!MergeText
  <1>2. answer.new = New(doc, entries)
    BY EmptyIsText, <1>1 DEF Gfx!MergeText, New
  <1>3. n \in Nat
    BY NewListsTheRest DEF ListsTheRest, NewCount
  <1>4. IsText(doc) /\ Gfx!Gone(doc) = {} /\ Gfx!Changed(doc, entries, {}) = {}
    <2>1. Gfx!Named(doc) = {}
      BY EmptyIsText
    <2> HIDE DEF doc
    <2> QED
      BY <2>1, EmptyIsText DEF Gfx!Gone, Gfx!Repeats, Gfx!Changed, doc
  <1>5. DOMAIN doc = {1, 2} /\ doc[1] = Gfx!Item("open") /\ doc[2] = Gfx!Item("close")
    <2> DEFINE o == Gfx!Item("open")
               c == Gfx!Item("close")
    <2>1. doc = <<o, c>>
      BY DEF Gfx!EmptyDocument
    <2> HIDE DEF o, c, doc
    <2>2. DOMAIN doc = 1..2 /\ doc[1] = o /\ doc[2] = c
      BY <2>1
    <2> QED
      BY <2>2 DEF o, c
  <1>6. Gfx!RootEnd(doc) = 2
    <2>1. Gfx!RootEnd(doc) \in DOMAIN doc /\ doc[Gfx!RootEnd(doc)].form = "close"
      <3> HIDE DEF doc
      <3> QED
        BY <1>4, PiecesArePlaces
    <2>2. doc[1].form # "close"
      BY <1>5 DEF Gfx!Item
    <2> HIDE DEF doc
    <2> QED
      BY <1>5, <2>1, <2>2
  <1> HIDE DEF doc, answer
  <1>7. /\ \A p \in pieces : p = <<p[1], p[2]>> /\ p[2] \in 0..n /\ (p[1] = 1 \/ (p[1] = 2 /\ p[2] = 0))
        /\ <<1, 0>> \in pieces /\ <<2, 0>> \in pieces /\ \A k \in 1..n : <<1, k>> \in pieces
    <2>1. 2 - 1 = 1 /\ DOMAIN doc \ Gfx!Gone(doc) = {1, 2} /\ n = Len(New(doc, entries))
      BY <1>4, <1>5 DEF NewCount, doc
    <2>2. ASSUME NEW p \in pieces
          PROVE  p = <<p[1], p[2]>> /\ p[2] \in 0..n /\ (p[1] = 1 \/ (p[1] = 2 /\ p[2] = 0))
      <3>1. /\ p = <<p[1], p[2]>>
            /\ \/ p[1] \in {1, 2} /\ p[2] = 0
               \/ p[1] = Gfx!RootEnd(doc) - 1 /\ p[2] \in 1..n
        <4> HIDE DEF n
        <4> QED
          BY <1>4, <2>1, PiecesArePlaces
      <3> HIDE DEF n
      <3> QED
        BY <1>3, <1>6, <2>1, <3>1
    <2>3. <<1, 0>> \in pieces /\ <<2, 0>> \in pieces
      BY <1>4, <2>1, PiecesArePlaces
    <2>4. \A k \in 1..n : <<Gfx!RootEnd(doc) - 1, k>> \in pieces
      <3> HIDE DEF n
      <3> QED
        BY <1>4, <2>1, PiecesArePlaces
    <2> HIDE DEF n, pieces
    <2>5. \A k \in 1..n : <<1, k>> \in pieces
      BY <1>6, <2>1, <2>4
    <2> QED
      BY <2>2, <2>3, <2>5
  <1> HIDE DEF pieces, n
  <1>8. /\ place[n + 2] = <<2, 0>>
        /\ \A t \in 1..(n + 1) : place[t] = <<1, t - 1>>
        /\ \A t \in 1..(n + 2) : t = n + 2 \/ t \in 1..(n + 1)
    BY <1>3
  <1> HIDE DEF place
  <1>9. Placed(pieces, place, n + 2)
    <2>1. ASSUME NEW t \in 1..(n + 2) PROVE place[t] \in pieces
      <3>1. t \in 1..(n + 1) => t - 1 = 0 \/ t - 1 \in 1..n
        BY <1>3
      <3> QED
        BY <1>7, <1>8, <3>1
    <2>2. ASSUME NEW p \in pieces PROVE \E t \in 1..(n + 2) : place[t] = p
      <3>1. CASE p = <<2, 0>>
        BY <1>3, <1>8, <3>1
      <3>2. CASE p # <<2, 0>>
        <4>1. p = <<1, p[2]>> /\ p[2] \in 0..n
          BY <1>7, <3>2
        <4>2. p[2] + 1 \in 1..(n + 1) /\ p[2] + 1 \in 1..(n + 2) /\ (p[2] + 1) - 1 = p[2]
          BY <1>3, <4>1
        <4>3. place[p[2] + 1] = <<1, p[2]>>
          BY <1>8, <4>2
        <4> QED
          BY <4>1, <4>2, <4>3
      <3> QED
        BY <3>1, <3>2
    <2>3. ASSUME NEW t \in 1..(n + 2), NEW u \in 1..(n + 2)
          PROVE  place[t] \in Gfx!Before(pieces, place[u]) <=> t < u
      <3>1. place[t] \in pieces
        BY <2>1
      <3>2. place[t] \in Gfx!Before(pieces, place[u])
            <=> place[t][1] < place[u][1] \/ (place[t][1] = place[u][1] /\ place[t][2] < place[u][2])
        BY <3>1 DEF Gfx!Before
      <3>3. /\ t = n + 2 => place[t][1] = 2 /\ place[t][2] = 0
            /\ t # n + 2 => place[t][1] = 1 /\ place[t][2] = t - 1
        BY <1>8
      <3>4. /\ u = n + 2 => place[u][1] = 2 /\ place[u][2] = 0
            /\ u # n + 2 => place[u][1] = 1 /\ place[u][2] = u - 1
        BY <1>8
      <3> QED
        BY <1>3, <3>2, <3>3, <3>4
    <2>4. n + 2 \in Nat
      BY <1>3
    <2> QED
      BY <2>1, <2>2, <2>3, <2>4 DEF Placed
  <1>10. PICK order : IsSpliced(doc, entries, {}, order, text)
    BY <1>1, <1>4, TextIsSpliced
  <1>11. Len(text) = n + 2 /\ \A t \in 1..(n + 2) : order[t] = place[t]
    <2> HIDE DEF text
    <2> QED
      BY <1>9, <1>10, OneOrder DEF pieces
  <1>12. \A t \in 1..(n + 2) : text[t] = ItemAt(doc, entries, {}, place[t])
    <2> HIDE DEF text
    <2>1. text = [t \in 1..(n + 2) |-> ItemAt(doc, entries, {}, order[t])]
      BY <1>10, <1>11 DEF IsSpliced
    <2> QED
      BY <1>11, <2>1
  <1>13. \E Items : text \in Seq(Items)
    BY <1>1, <1>4, <1>10, MergedIsText DEF IsText
  <1>14. text[1] = Gfx!Item("open") /\ text[n + 2] = Gfx!Item("close")
    <2> HIDE DEF text
    <2>1. 1 \in 1..(n + 2) /\ n + 2 \in 1..(n + 2) /\ 1 \in 1..(n + 1) /\ 1 - 1 = 0
      BY <1>3
    <2>2. place[1][1] = 1 /\ place[1][2] = 0 /\ place[n + 2][1] = 2 /\ place[n + 2][2] = 0
      BY <1>8, <2>1
    <2>3. ItemAt(doc, entries, {}, place[1]) = doc[1] /\ ItemAt(doc, entries, {}, place[n + 2]) = doc[2]
      BY <1>4, <2>2 DEF ItemAt
    <2> QED
      BY <1>5, <1>12, <2>1, <2>3
  <1>15. ASSUME NEW k \in 1..n PROVE text[k + 1] = NewBlock(entries, k)
    <2> HIDE DEF text
    <2>1. k + 1 \in 1..(n + 1) /\ k + 1 \in 1..(n + 2) /\ (k + 1) - 1 = k /\ k > 0
      BY <1>3
    <2>2. place[k + 1][2] = k
      BY <1>8, <2>1
    <2>3. ItemAt(doc, entries, {}, place[k + 1]) = NewBlock(entries, k)
      BY <2>1, <2>2 DEF ItemAt, NewBlock, doc
    <2> QED
      BY <1>12, <2>1, <2>3
  <1>16. Opens(text, entries)
    <2> HIDE DEF text
    <2> QED
      BY <1>11, <1>13, <1>14, <1>15 DEF Opens, n
  <1> QED
    BY <1>2, <1>3, <1>16 DEF answer, doc, n

LEMMA CutOfNone ==
  ASSUME NEW Items, NEW text \in Seq(Items), NEW a \in Nat, a <= Len(text)
  PROVE  Cut(text, a, a) = <<>>
  <1>1. a - a = 0
    OBVIOUS
  <1>2. Cut(text, a, a) \in Seq(Items) /\ Len(Cut(text, a, a)) = 0
    BY <1>1, CutIsText
  <1> QED
    BY <1>2, EmptySeq

LEMMA CutOfOne ==
  ASSUME NEW Items, NEW text \in Seq(Items), NEW a \in Nat, a + 1 <= Len(text)
  PROVE  Cut(text, a, a + 1) = <<text[a + 1]>>
  <1> DEFINE x == Cut(text, a, a + 1)
             y == <<text[a + 1]>>
  <1>1. a + 1 \in Nat /\ a <= a + 1 /\ (a + 1) - a = 1 /\ 1 \in 1..1
    OBVIOUS
  <1>2. x \in Seq(Items) /\ Len(x) = 1 /\ x[1] = text[a + 1]
    <2>1. PICK b : b = a + 1
      OBVIOUS
    <2>2. b \in Nat /\ a <= b /\ b <= Len(text) /\ b - a = 1
      BY <2>1
    <2>3. /\ Cut(text, a, b) \in Seq(Items) /\ Len(Cut(text, a, b)) = b - a
          /\ \A t \in 1..(b - a) : Cut(text, a, b)[t] = text[a + t]
      BY <2>2, CutIsText
    <2>4. 1 \in 1..(b - a)
      BY <2>2
    <2>5. Cut(text, a, b)[1] = text[a + 1]
      BY <2>3, <2>4
    <2> QED
      BY <2>1, <2>2, <2>3, <2>5
  <1>3. a + 1 \in 1..Len(text)
    BY LenProperties
  <1>4. text[a + 1] \in Items
    BY <1>3, ElementOfSeq
  <1> HIDE DEF x
  <1>5. y \in Seq(Items) /\ Len(y) = 1 /\ y[1] = text[a + 1]
    BY <1>4
  <1> HIDE DEF y
  <1>6. \A i \in 1..Len(x) : x[i] = y[i]
    BY <1>2, <1>5
  <1>7. x = y
    BY <1>2, <1>5, <1>6, SeqEqual
  <1> QED
    BY <1>7 DEF x, y

(* A page is a stretch of the new text, and the pages are all of it.       *)
PageStart(offset) == IF offset = 0 THEN 0 ELSE offset + 1
PageStop(end, n) == IF end >= n THEN n + 2 ELSE end + 1

LEMMA PageIsCut ==
  ASSUME NEW Images, NEW images \in Seq(Images), NEW text, Opens(text, Gfx!Entries(images)),
         NEW limit \in Nat, limit > 0,
         NEW offset \in Nat, offset < NewCount(Gfx!Entries(images))
  PROVE  Gfx!PageText(<<>>, images, {}, offset, limit)
         = Cut(text, PageStart(offset), PageStop(offset + limit, NewCount(Gfx!Entries(images))))
  <1> DEFINE entries == Gfx!Entries(images)
             new == New(Gfx!EmptyDocument, entries)
             n == NewCount(entries)
             o == Gfx!Item("open")
             c == Gfx!Item("close")
             end == IF offset + limit < n THEN offset + limit ELSE n
             Block(k) == Gfx!Rendered(new[offset + k], entries[new[offset + k]])
             blocks == [k \in 1..(end - offset) |-> Block(k)]
             head == IF offset <= 0 THEN <<o>> ELSE <<>>
             tail == IF offset + limit >= n THEN <<c>> ELSE <<>>
  <1>1. IsTextures(entries)
    BY EntriesAreTextures
  <1>2. n \in Nat /\ Gfx!MergeText(<<>>, entries, {}).new = new
    <2> HIDE DEF entries
    <2> QED
      BY <1>1, NewTextOpens
  <1>3. n = Len(new)
    BY DEF NewCount
  <1>4. new # <<>>
    <2> HIDE DEF new, n
    <2>1. Len(<<>>) = 0
      OBVIOUS
    <2> QED
      BY <1>2, <1>3, <2>1 DEF n
  <1>5. Gfx!PageText(<<>>, images, {}, offset, limit) = head \o blocks \o tail
    <2> HIDE DEF new, o, c
    <2> QED
      BY <1>2, <1>3, <1>4 DEF Gfx!PageText, Gfx!Closes, o, c
  <1>6. PICK Items : text \in Seq(Items)
    BY DEF Opens
  <1>7. /\ Len(text) = n + 2 /\ text[1] = o /\ text[n + 2] = c
        /\ \A k \in 1..n : text[k + 1] = NewBlock(entries, k)
    BY DEF Opens
  <1>8. end \in Nat /\ offset < end /\ end <= n /\ (offset + limit >= n <=> end = n)
        /\ (offset + limit < n => end = offset + limit)
    BY <1>2
  <1> HIDE DEF n, o, c, end, entries
  <1>9. blocks = Cut(text, offset + 1, end + 1)
    <2>1. (end + 1) - (offset + 1) = end - offset
      BY <1>8
    <2>2. ASSUME NEW k \in 1..(end - offset) PROVE Block(k) = text[(offset + 1) + k]
      <3>1. offset + k \in 1..n /\ (offset + k) + 1 = (offset + 1) + k
        BY <1>2, <1>8
      <3>2. text[(offset + k) + 1] = NewBlock(entries, offset + k)
        BY <1>7, <3>1
      <3> QED
        BY <3>1, <3>2 DEF NewBlock
    <2> HIDE DEF Block
    <2> QED
      BY <2>1, <2>2 DEF Cut
  <1> HIDE DEF blocks
  <1>10. head = Cut(text, PageStart(offset), offset + 1)
    <2>1. CASE offset = 0
      <3>1. 0 + 1 <= Len(text) /\ 0 \in Nat /\ 0 + 1 = 1
        BY <1>2, <1>7
      <3>2. Cut(text, 0, 0 + 1) = <<text[0 + 1]>>
        BY <1>6, <3>1, CutOfOne
      <3> QED
        BY <1>7, <2>1, <3>1, <3>2 DEF PageStart
    <2>2. CASE offset # 0
      <3>1. offset + 1 \in Nat /\ offset + 1 <= Len(text) /\ ~(offset <= 0)
        BY <1>2, <1>7, <1>8, <2>2
      <3>2. Cut(text, offset + 1, offset + 1) = <<>>
        BY <1>6, <3>1, CutOfNone
      <3> QED
        BY <2>2, <3>1, <3>2 DEF PageStart
    <2> QED
      BY <2>1, <2>2
  <1>11. tail = Cut(text, end + 1, PageStop(offset + limit, n))
    <2>1. CASE offset + limit >= n
      <3>1. n + 1 \in Nat /\ (n + 1) + 1 <= Len(text) /\ (n + 1) + 1 = n + 2 /\ end = n
        BY <1>2, <1>7, <1>8, <2>1
      <3>2. Cut(text, n + 1, (n + 1) + 1) = <<text[(n + 1) + 1]>>
        BY <1>6, <3>1, CutOfOne
      <3> QED
        BY <1>7, <2>1, <3>1, <3>2 DEF PageStop
    <2>2. CASE ~(offset + limit >= n)
      <3>1. end = offset + limit /\ end + 1 \in Nat /\ end + 1 <= Len(text)
        BY <1>2, <1>7, <1>8, <2>2
      <3>2. Cut(text, end + 1, end + 1) = <<>>
        BY <1>6, <3>1, CutOfNone
      <3> QED
        BY <2>2, <3>1, <3>2 DEF PageStop
    <2> QED
      BY <2>1, <2>2
  <1> HIDE DEF head, tail
  <1> DEFINE a == PageStart(offset)
             b == offset + 1
             d == end + 1
             e == PageStop(offset + limit, n)
  <1>12. /\ a \in Nat /\ b \in Nat /\ d \in Nat /\ e \in Nat
         /\ a <= b /\ b <= d /\ a <= d /\ d <= e /\ e <= Len(text) /\ d <= Len(text)
    BY <1>2, <1>7, <1>8 DEF PageStart, PageStop
  <1>13. head = Cut(text, a, b) /\ blocks = Cut(text, b, d) /\ tail = Cut(text, d, e)
    BY <1>9, <1>10, <1>11
  <1> HIDE DEF a, b, d, e
  <1>14. Cut(text, a, b) \o Cut(text, b, d) = Cut(text, a, d)
    BY <1>6, <1>12, CutsJoin
  <1>15. Cut(text, a, d) \o Cut(text, d, e) = Cut(text, a, e)
    BY <1>6, <1>12, CutsJoin
  <1>16. head \o blocks \o tail = Cut(text, a, e)
    BY <1>13, <1>14, <1>15
  <1> QED
    BY <1>5, <1>16 DEF a, e, n, entries

LEMMA DivisionCovers ==
  ASSUME NEW n \in Nat, NEW step \in Nat, n > 0, step > 0
  PROVE  LET q == (n + step - 1) \div step
         IN  q \in Nat /\ q > 0 /\ n <= q * step /\ (q - 1) * step < n
  <1> DEFINE m == n + step - 1
             q == m \div step
             r == m % step
  <1>1. m \in Nat /\ m >= step
    OBVIOUS
  <1> HIDE DEF m
  <1>2. q \in Int
    BY <1>1
  <1>3. m = step * q + r /\ r >= 0 /\ r < step /\ r \in Int
    BY <1>1
  <1> HIDE DEF q, r
  <1>4. step * q > 0
    BY <1>1, <1>2, <1>3
  <1>5. q > 0
    BY <1>2, <1>4
  <1>6. q * step = step * q /\ (q - 1) * step = step * q - step
    BY <1>2
  <1>7. n <= q * step /\ (q - 1) * step < n
    BY <1>2, <1>3, <1>6 DEF m
  <1> QED
    BY <1>2, <1>5, <1>7 DEF q, m

LEMMA PagesAreWhole ==
  ASSUME NEW Images, NEW images \in Seq(Images), NEW limit \in Nat, limit > 0
  PROVE  Gfx!PagesRebuild(images, limit)
  <1> DEFINE entries == Gfx!Entries(images)
             whole == Gfx!MergeText(<<>>, entries, {})
             text == whole.text
             n == NewCount(entries)
             q == (n + limit - 1) \div limit
             pages == [p \in 1..q |-> Gfx!PageText(<<>>, images, {}, (p - 1) * limit, limit)]
             ends == [p \in 0..q |-> IF p = 0 THEN 0 ELSE PageStop(p * limit, n)]
  <1>1. Opens(text, entries) /\ n \in Nat /\ whole.new = New(Gfx!EmptyDocument, entries)
    <2>1. IsTextures(entries)
      BY EntriesAreTextures
    <2> HIDE DEF entries
    <2> QED
      BY <2>1, NewTextOpens
  <1>2. n = Len(whole.new)
    <2> HIDE DEF whole
    <2> QED
      BY <1>1 DEF NewCount
  <1>3. n = 0 => whole.new = <<>>
    <2> DEFINE new == whole.new
    <2>1. new \in Seq(DOMAIN entries)
      <3>1. IsTextures(entries)
        BY EntriesAreTextures
      <3> HIDE DEF entries
      <3> QED
        BY <1>1, <3>1, NewListsTheRest DEF ListsTheRest
    <2>2. Len(new) = n
      BY <1>2
    <2> HIDE DEF new, n
    <2>3. n = 0 => new = <<>>
      BY <2>1, <2>2, EmptySeq
    <2> QED
      BY <2>3 DEF new
  <1>4. SUFFICES ASSUME n > 0 PROVE Gfx!Joined(pages) = text
    <2>1. Gfx!PagesRebuild(images, limit)
          <=> LET count == IF whole.new = <<>> THEN 0 ELSE (Len(whole.new) + limit - 1) \div limit
              IN  count > 0 => Gfx!Joined([p \in 1..count |->
                      Gfx!PageText(<<>>, images, {}, (p - 1) * limit, limit)]) = text
      BY DEF Gfx!PagesRebuild
    <2>2. CASE whole.new = <<>>
      BY <2>1, <2>2
    <2>3. CASE whole.new # <<>>
      <3>1. n > 0
        BY <1>1, <1>3, <2>3
      <3>2. Gfx!Joined(pages) = text
        BY <1>4, <3>1
      <3> HIDE DEF whole, n
      <3>3. Len(whole.new) = n
        BY <1>2
      <3> QED
        BY <2>1, <2>3, <3>2, <3>3
    <2> QED
      BY <2>2, <2>3
  <1> HIDE DEF whole, n
  <1>5. q \in Nat /\ q > 0 /\ n <= q * limit /\ (q - 1) * limit < n
    BY <1>1, <1>4, DivisionCovers
  <1> HIDE DEF q
  <1>6. PICK Items : text \in Seq(Items)
    BY <1>1 DEF Opens
  <1>7. Len(text) = n + 2
    BY <1>1 DEF Opens, n
  <1> HIDE DEF entries
  <1>8. ASSUME NEW p \in 1..q
        PROVE  /\ (p - 1) * limit \in Nat /\ p * limit \in Nat
               /\ (p - 1) * limit + limit = p * limit /\ (p - 1) * limit < n
               /\ p - 1 > 0 => (p - 1) * limit > 0
    <2>1. PICK j \in Nat : p = j + 1
      <3>1. p - 1 \in Nat /\ p = (p - 1) + 1
        OBVIOUS
      <3> QED
        BY <3>1
    <2>2. PICK m \in Nat : q = m + 1
      <3>1. q - 1 \in Nat /\ q = (q - 1) + 1
        BY <1>5
      <3> QED
        BY <3>1
    <2>3. j \in Nat /\ m \in Nat /\ j <= m /\ p - 1 = j /\ q - 1 = m
      BY <2>1, <2>2
    <2>4. j * limit \in Nat /\ m * limit \in Nat /\ (j < m => j * limit + limit <= m * limit)
          /\ j <= j * limit
      BY <2>3, Multiples
    <2>5. (j + 1) * limit = j * limit + limit
      OBVIOUS
    <2>6. m * limit < n
      BY <1>5, <2>3
    <2>7. j * limit < n
      BY <1>1, <2>3, <2>4, <2>6
    <2> QED
      BY <2>1, <2>3, <2>4, <2>5, <2>7
  <1>9. /\ ends[0] = 0 /\ ends[q] = n + 2
        /\ \A p \in 1..q : ends[p] = PageStop(p * limit, n)
        /\ \A p \in 1..q : ends[p - 1] = PageStart((p - 1) * limit)
    <2>1. \A p \in 1..q : ends[p] = PageStop(p * limit, n)
      <3>1. \A p \in 1..q : p \in 0..q /\ p # 0
        OBVIOUS
      <3> QED
        BY <3>1
    <2>2. ends[0] = 0
      BY <1>5
    <2>3. ends[q] = n + 2
      <3>1. q \in 1..q
        BY <1>5
      <3>2. q * limit >= n
        BY <1>1, <1>5, <1>8, <3>1
      <3> QED
        BY <2>1, <3>1, <3>2 DEF PageStop
    <2>4. ASSUME NEW p \in 1..q PROVE ends[p - 1] = PageStart((p - 1) * limit)
      <3>1. CASE p - 1 = 0
        <4>1. 0 * limit = 0
          OBVIOUS
        <4> HIDE DEF ends
        <4> QED
          BY <2>2, <3>1, <4>1 DEF PageStart
      <3>2. CASE p - 1 # 0
        <4>1. p - 1 \in 1..q /\ p - 1 > 0
          BY <1>5, <3>2
        <4>2. ends[p - 1] = PageStop((p - 1) * limit, n)
          BY <2>1, <4>1
        <4>3. (p - 1) * limit \in Nat /\ (p - 1) * limit < n /\ (p - 1) * limit > 0
          BY <1>8, <4>1
        <4> QED
          BY <1>1, <4>2, <4>3 DEF PageStart, PageStop
      <3> QED
        BY <3>1, <3>2
    <2> QED
      BY <2>1, <2>2, <2>3, <2>4
  <1>10. DOMAIN pages = 1..q /\ Len(pages) = q
    BY <1>5
  <1>11. ASSUME NEW p \in 1..q PROVE pages[p] = Cut(text, ends[p - 1], ends[p])
    <2> DEFINE offset == (p - 1) * limit
    <2>1. offset \in Nat /\ offset < n /\ offset + limit = p * limit
      BY <1>8
    <2>2. pages[p] = Gfx!PageText(<<>>, images, {}, offset, limit)
      OBVIOUS
    <2> HIDE DEF offset, pages, ends
    <2>3. Gfx!PageText(<<>>, images, {}, offset, limit) = Cut(text, PageStart(offset), PageStop(offset + limit, n))
      BY <1>1, <2>1, PageIsCut DEF n, entries
    <2> QED
      BY <1>9, <2>1, <2>2, <2>3 DEF offset
  <1> HIDE DEF pages, ends
  <1>12. ASSUME NEW p \in 0..q PROVE ends[p] \in Nat /\ ends[p] <= Len(text)
    <2>1. CASE p = 0
      BY <1>1, <1>7, <1>9, <2>1
    <2>2. CASE p # 0
      <3>1. p \in 1..q
        BY <2>2
      <3>2. ends[p] = PageStop(p * limit, n) /\ p * limit \in Nat
        BY <1>8, <1>9, <3>1
      <3> QED
        BY <1>1, <1>7, <3>2 DEF PageStop
    <2> QED
      BY <2>1, <2>2
  <1>13. ASSUME NEW p \in 1..q PROVE ends[p - 1] <= ends[p]
    <2>1. /\ (p - 1) * limit \in Nat /\ p * limit \in Nat
          /\ (p - 1) * limit + limit = p * limit /\ (p - 1) * limit < n
      BY <1>8
    <2>2. ends[p - 1] = PageStart((p - 1) * limit) /\ ends[p] = PageStop(p * limit, n)
      BY <1>9
    <2> QED
      BY <1>1, <2>1, <2>2 DEF PageStart, PageStop
  <1>14. Gfx!Joined(pages) = Cut(text, 0, ends[q])
    <2>1. Divides(pages, q, text, ends)
      BY <1>5, <1>9, <1>10, <1>11, <1>12, <1>13 DEF Divides
    <2> QED
      BY <1>6, <2>1, JoinedRuns
  <1>15. Cut(text, 0, n + 2) = text
    <2>1. PICK b : b = n + 2
      OBVIOUS
    <2>2. b \in Nat /\ 0 \in Nat /\ 0 <= b /\ b <= Len(text) /\ b - 0 = b
      BY <1>1, <1>7, <2>1
    <2>3. /\ Cut(text, 0, b) \in Seq(Items) /\ Len(Cut(text, 0, b)) = b - 0
          /\ \A t \in 1..(b - 0) : Cut(text, 0, b)[t] = text[0 + t]
      BY <1>6, <2>2, CutIsText
    <2>4. \A t \in 1..Len(Cut(text, 0, b)) : Cut(text, 0, b)[t] = text[t]
      BY <2>2, <2>3
    <2>5. Cut(text, 0, b) = text
      BY <1>6, <1>7, <2>1, <2>2, <2>3, <2>4, SeqEqual
    <2> QED
      BY <2>1, <2>5
  <1> QED
    BY <1>9, <1>14, <1>15

(* What a question about a merge is: a document that is empty, or a file   *)
(* with a closed root, merge_gfx_text refuses others; and pages of some    *)
(* size.                                                                   *)
IsMergeQuestion(q) ==
    /\ \E Images : q.images \in Seq(Images)
    /\ \/ /\ q.kind = "merge"
          /\ \/ q.doc = <<>>
             \/ IsText(q.doc) /\ \A i \in DOMAIN q.doc : q.doc[i].own = TRUE
       \/ q.kind = "pages" /\ q.limit \in Nat /\ q.limit > 0

LEMMA MergesAlwaysKeepTheRest ==
  ASSUME NEW q, IsMergeQuestion(q)
  PROVE  Gfx!MergesKeepTheRest(q)
  <1>1. PICK Images : q.images \in Seq(Images)
    BY DEF IsMergeQuestion
  <1>2. CASE q.kind = "merge"
    <2>1. Gfx!MergeKeepsTheRest(q.doc, q.images, q.protected)
      <3>1. CASE q.doc = <<>>
        BY <1>1, <3>1, NothingIsKept
      <3>2. CASE IsText(q.doc) /\ \A i \in DOMAIN q.doc : q.doc[i].own = TRUE
        BY <1>1, <3>2, FilesAreKept
      <3> QED
        BY <1>2, <3>1, <3>2 DEF IsMergeQuestion
    <2> QED
      BY <1>2, <2>1 DEF Gfx!MergesKeepTheRest
  <1>3. CASE q.kind = "pages" /\ q.limit \in Nat /\ q.limit > 0
    <2>1. Gfx!PagesRebuild(q.images, q.limit)
      BY <1>1, <1>3, PagesAreWhole
    <2> QED
      BY <1>3, <2>1 DEF Gfx!MergesKeepTheRest
  <1> QED
    BY <1>2, <1>3 DEF IsMergeQuestion

-----------------------------------------------------------------------------
(* Audits of references.                                                   *)
LEMMA AuditCardinality == \A S : Audit!Cardinality(S) = Cardinality(S)
  BY DEF Audit!Cardinality, Cardinality

(* A set of one or none.                                                   *)
LEMMA AtMostOne ==
  ASSUME NEW x, NEW S, S \subseteq {x}
  PROVE  IsFiniteSet(S)
  <1>1. IsFiniteSet({x}) /\ S \in SUBSET {x}
    BY FS_Singleton
  <1> QED
    BY <1>1, FS_Subset

(* The places of a sequence.                                               *)
LEMMA PlacesAreFinite ==
  ASSUME NEW n \in Nat
  PROVE  IsFiniteSet(1..n)
  <1>1. 1 \in Int /\ n \in Int
    OBVIOUS
  <1> QED
    BY <1>1, FS_Interval

(* A finite set, listed in some order.                                     *)
LEMMA ListedIsListed ==
  ASSUME NEW S, IsFiniteSet(S)
  PROVE  /\ Audit!Listed(S) \in [1..Cardinality(S) -> S] /\ Cardinality(S) \in Nat
         /\ Audit!ToSet(Audit!Listed(S)) = S
  <1>1. Cardinality(S) \in Nat
    BY FS_CardinalityType
  <1>2. PICK f : f \in Bijection(1..Cardinality(S), S)
    BY FS_CardinalityType DEF ExistsBijection
  <1>3. f \in [1..Cardinality(S) -> S] /\ {f[i] : i \in DOMAIN f} = S
    BY <1>2 DEF Bijection, Injection, Surjection
  <1>4. Audit!ToSet(f) = S
    BY <1>3 DEF Audit!ToSet
  <1>5. \E g \in [1..Cardinality(S) -> S] : Audit!ToSet(g) = S
    BY <1>3, <1>4
  <1> QED
    BY <1>1, <1>5, AuditCardinality DEF Audit!Listed

(* A file as its parser leaves it: what stands in a block comes after it.  *)
IsParsed(file) ==
    /\ \E Items : file.nodes \in Seq(Items)
    /\ \A k \in DOMAIN file.nodes :
          /\ file.nodes[k].up \in 0..(k - 1)
          /\ file.nodes[k].up # 0 => file.nodes[file.nodes[k].up].form = "block"
          /\ IsFiniteSet(Audit!LocKeys(file.nodes, k))
    /\ file.status \in {"parsed", "broken", "absent"}
    /\ \A d \in file.defines : d[1] \in file.feeds

(* The walk comes to every node.                                           *)
LEMMA WalkReachesAll ==
  ASSUME NEW file, IsParsed(file)
  PROVE  Audit!Reached(file.nodes) = DOMAIN file.nodes
  <1> DEFINE nodes == file.nodes
             Step(f, k) == nodes[k].up = 0 \/ (nodes[nodes[k].up].form = "block" /\ f[nodes[k].up])
             reached == CHOOSE f : f = [k \in DOMAIN nodes |-> Step(f, k)]
             good == [k \in DOMAIN nodes |-> TRUE]
             n == Len(nodes)
             T == {m \in Nat : \A k \in DOMAIN nodes : k <= m => reached[k]}
  <1>1. /\ n \in Nat /\ DOMAIN nodes = 1..n
        /\ \A k \in 1..n : nodes[k].up \in 0..(k - 1)
        /\ \A k \in 1..n : nodes[k].up # 0 => nodes[nodes[k].up].form = "block"
    BY LenProperties DEF IsParsed
  <1>2. Audit!Reached(nodes) = {k \in DOMAIN nodes : reached[k]}
    BY DEF Audit!Reached
  <1>3. good = [k \in DOMAIN nodes |-> Step(good, k)]
    <2>1. ASSUME NEW k \in DOMAIN nodes PROVE Step(good, k) = TRUE
      <3>1. nodes[k].up = 0 \/ nodes[k].up \in DOMAIN nodes
        BY <1>1
      <3> QED
        BY <1>1, <3>1
    <2> HIDE DEF Step
    <2> QED
      BY <2>1
  <1>4. reached = [k \in DOMAIN nodes |-> Step(reached, k)]
    <2> HIDE DEF Step, good
    <2> QED
      BY <1>3
  <1>5. \A k \in DOMAIN nodes : reached[k] = Step(reached, k)
    <2> HIDE DEF Step, reached
    <2> QED
      BY <1>4
  <1> HIDE DEF reached
  <1>6. 0..n \subseteq T
    <2>1. 0 \in T
      BY <1>1
    <2>2. ASSUME NEW m \in 0..(n - 1), m \in T PROVE m + 1 \in T
      <3>1. m + 1 \in DOMAIN nodes /\ nodes[m + 1].up \in 0..m /\ m + 1 \in Nat
        BY <1>1
      <3>2. reached[m + 1]
        <4>1. CASE nodes[m + 1].up = 0
          BY <1>5, <3>1, <4>1
        <4>2. CASE nodes[m + 1].up # 0
          <5>1. nodes[m + 1].up \in DOMAIN nodes /\ nodes[m + 1].up <= m
            BY <1>1, <3>1, <4>2
          <5>2. reached[nodes[m + 1].up]
            BY <2>2, <5>1
          <5> QED
            BY <1>1, <1>5, <3>1, <4>2, <5>1, <5>2
        <4> QED
          BY <4>1, <4>2
      <3> QED
        BY <1>1, <2>2, <3>1, <3>2
    <2> HIDE DEF T
    <2> QED
      BY <1>1, <2>1, <2>2, CountsUp
  <1>7. n \in T
    BY <1>1, <1>6
  <1>8. \A k \in DOMAIN nodes : reached[k]
    BY <1>1, <1>7
  <1> QED
    BY <1>2, <1>8

(* A node refers to finitely many names.                                   *)
Here(k, ref) == {<<k, ref>>} \ {<<k, Audit!NoSym>>}
Values(nodes, places) == UNION {{<<j, Audit!Symbol(nodes[j])>>} \ {<<j, Audit!NoSym>>} : j \in places}
Names(nodes, places) == {<<j, nodes[j].name>> : j \in places}

LEMMA ReferredAreFinite ==
  ASSUME NEW file, IsParsed(file), NEW k, NEW places \in SUBSET DOMAIN file.nodes
  PROVE  /\ IsFiniteSet(Values(file.nodes, places)) /\ IsFiniteSet(Names(file.nodes, places))
         /\ \A ref : IsFiniteSet(Here(k, ref))
  <1> DEFINE nodes == file.nodes
             one == [j \in places |-> {<<j, Audit!Symbol(nodes[j])>>} \ {<<j, Audit!NoSym>>}]
             sets == {one[j] : j \in places}
             name == [j \in places |-> <<j, nodes[j].name>>]
  <1>1. IsFiniteSet(places)
    <2>1. Len(nodes) \in Nat /\ DOMAIN nodes = 1..Len(nodes)
      BY LenProperties DEF IsParsed
    <2>2. IsFiniteSet(1..Len(nodes))
      BY <2>1, PlacesAreFinite
    <2> QED
      BY <2>1, <2>2, FS_Subset
  <1>2. IsFiniteSet(sets)
    <2>1. one \in Surjection(places, sets)
      BY DEF Surjection
    <2> HIDE DEF one, sets
    <2> QED
      BY <1>1, <2>1, FS_Surjection
  <1>3. \A T \in sets : IsFiniteSet(T)
    <2>1. ASSUME NEW j \in places PROVE IsFiniteSet(one[j])
      <3>1. one[j] \subseteq {<<j, Audit!Symbol(nodes[j])>>}
        OBVIOUS
      <3> HIDE DEF one
      <3> QED
        BY <3>1, AtMostOne
    <2> HIDE DEF one
    <2> QED
      BY <2>1
  <1>4. IsFiniteSet(Values(nodes, places))
    <2>1. Values(nodes, places) = UNION sets
      <3>1. sets = {{<<j, Audit!Symbol(nodes[j])>>} \ {<<j, Audit!NoSym>>} : j \in places}
        OBVIOUS
      <3> HIDE DEF sets
      <3> QED
        BY <3>1 DEF Values
    <2> HIDE DEF sets
    <2> QED
      BY <1>2, <1>3, <2>1, FS_UNION
  <1>5. IsFiniteSet(Names(nodes, places))
    <2>1. name \in Surjection(places, Names(nodes, places))
      BY DEF Surjection, Names
    <2> HIDE DEF name
    <2> QED
      BY <1>1, <2>1, FS_Surjection
  <1>6. ASSUME NEW ref PROVE IsFiniteSet(Here(k, ref))
    <2>1. Here(k, ref) \subseteq {<<k, ref>>}
      BY DEF Here
    <2> QED
      BY <2>1, AtMostOne
  <1> QED
    BY <1>4, <1>5, <1>6

LEMMA OwnRefsAreFinite ==
  ASSUME NEW file, IsParsed(file), NEW k \in DOMAIN file.nodes, NEW kind, NEW effects
  PROVE  IsFiniteSet(Audit!OwnRefs(file.nodes, k, kind, effects))
  <1> DEFINE nodes == file.nodes
             name == nodes[k].name
             block == nodes[k].form = "block"
             sym == Audit!Symbol(nodes[k])
             kids == IF block THEN Audit!Kids(nodes, k) ELSE {}
             Inside(j) == Audit!Field(nodes, k, Audit!FieldNames[kind][j])
             inside == {j \in DOMAIN Audit!FieldNames[kind] : Inside(j) # Audit!NoSym}
             prerequisites == {c \in kids : nodes[c].name = "focus"}
             event == IF block THEN Audit!Field(nodes, k, "id") ELSE sym
             bare == {c \in kids : nodes[c].form = "bare"}
             ideas == IF sym # Audit!NoSym THEN Here(k, sym) ELSE Names(nodes, bare)
             values == {c \in kids : nodes[c].name = "value"}
             sprites == IF block THEN Values(nodes, values) ELSE Here(k, sym)
             own == {r \in sprites : r[2] \notin TexturePaths}
             field == IF ~block THEN sym
                      ELSE IF inside = {} THEN Audit!NoSym ELSE Inside(Audit!Min(inside))
             fields == {r \in Here(k, field) : kind = "country_tag" => r[2] \notin Audit!ScopeKeywords}
             listed == {c \in kids : nodes[c].name # "popup"}
             technologies == IF block THEN Names(nodes, listed) ELSE Here(k, sym)
             refs == Audit!OwnRefs(nodes, k, kind, effects)
  <1>1. kids \in SUBSET DOMAIN nodes
    BY DEF Audit!Kids
  <1>2. /\ prerequisites \in SUBSET DOMAIN nodes /\ bare \in SUBSET DOMAIN nodes
        /\ values \in SUBSET DOMAIN nodes /\ listed \in SUBSET DOMAIN nodes
    BY <1>1
  <1>3. \/ refs = Values(nodes, prerequisites) \/ refs = Here(k, event) \/ refs = ideas
        \/ refs = own \/ refs = Here(k, sym) \/ refs = fields \/ refs = technologies
        \/ refs = {<<k, name>>} \/ refs = {}
    <2> DEFINE focuses == kind = "focus" /\ name \in {"prerequisite", "mutually_exclusive"}
               events == kind = "event" /\ name \in Audit!EventNodes
               idea == kind = "idea" /\ name \in Audit!IdeaBlockNodes
               sprite == kind = "sprite" /\ name \in Audit!SpriteNodes
               symbol == kind \in DOMAIN Audit!SymbolNodes /\ name \in Audit!SymbolNodes[kind]
               fielded == kind \in DOMAIN Audit!FieldNodes /\ name \in Audit!FieldNodes[kind]
               technology == kind = "technology" /\ name \in Audit!TechnologyNodes
               effect == kind = "scripted_effect" /\ name \in effects
               single == {<<k, name>>}
    <2>1. refs = CASE focuses -> Values(nodes, prerequisites) [] events -> Here(k, event)
                   [] idea -> ideas [] sprite -> own [] symbol -> Here(k, sym)
                   [] fielded -> fields [] technology -> technologies
                   [] effect -> single [] OTHER -> {}
      BY Zenon DEF Audit!OwnRefs, Here, Values, Names
    <2> HIDE DEF refs, kids, prerequisites, event, bare, sym, values, field, listed, block, name,
                 focuses, events, idea, sprite, symbol, fielded, technology, effect, single,
                 ideas, own, fields, technologies
    <2>2. \/ refs = Values(nodes, prerequisites) \/ refs = Here(k, event) \/ refs = ideas
          \/ refs = own \/ refs = Here(k, sym) \/ refs = fields \/ refs = technologies
          \/ refs = single \/ refs = {}
      BY <2>1
    <2> QED
      BY <2>2 DEF single
  <1> HIDE DEF refs, kids, prerequisites, event, bare, sym, values, field, listed, block, name
  <1>4. IsFiniteSet(ideas)
    BY <1>2, ReferredAreFinite
  <1>5. IsFiniteSet(own)
    <2>1. IsFiniteSet(sprites) /\ own \in SUBSET sprites
      BY <1>2, ReferredAreFinite
    <2> HIDE DEF sprites, own
    <2> QED
      BY <2>1, FS_Subset
  <1>6. IsFiniteSet(fields)
    <2>1. IsFiniteSet(Here(k, field)) /\ fields \in SUBSET Here(k, field)
      BY <1>2, ReferredAreFinite
    <2> HIDE DEF fields
    <2> QED
      BY <2>1, FS_Subset
  <1>7. IsFiniteSet(technologies)
    BY <1>2, ReferredAreFinite
  <1>8. IsFiniteSet(Values(nodes, prerequisites)) /\ IsFiniteSet(Here(k, event)) /\ IsFiniteSet(Here(k, sym))
    BY <1>2, ReferredAreFinite
  <1>9. IsFiniteSet({<<k, name>>}) /\ IsFiniteSet({})
    BY FS_Singleton, FS_EmptySet
  <1> HIDE DEF ideas, own, fields, technologies
  <1>10. IsFiniteSet(refs)
    BY <1>3, <1>4, <1>5, <1>6, <1>7, <1>8, <1>9
  <1> QED
    BY <1>10 DEF refs

(* References as records of finitely many, of the kinds asked for; and all *)
(* that one node refers to is among them.                                  *)
AreRefs(refs, kinds) ==
    /\ IsFiniteSet(refs)
    /\ \A s \in refs : s = [kind |-> s.kind, ref |-> s.ref, at |-> s.at] /\ s.kind \in kinds
NodeIsRead(refs, nodes, k, kinds, effects) ==
    /\ \A kind \in kinds : \A r \in Audit!OwnRefs(nodes, k, kind, effects) :
          \E s \in refs : s.kind = kind /\ s.ref = r[2]
    /\ "loc" \in kinds => \A key \in Audit!LocKeys(nodes, k) :
          \E s \in refs : s.kind = "loc" /\ s.ref = key

LEMMA NodeRefsAreFinite ==
  ASSUME NEW file, IsParsed(file), NEW k \in DOMAIN file.nodes,
         NEW kinds, IsFiniteSet(kinds), NEW effects
  PROVE  /\ AreRefs(Audit!NodeRefs(file.nodes, k, kinds, effects), kinds)
         /\ NodeIsRead(Audit!NodeRefs(file.nodes, k, kinds, effects), file.nodes, k, kinds, effects)
  <1> DEFINE nodes == file.nodes
             refs == Audit!NodeRefs(nodes, k, kinds, effects)
             Of(kind) == {Audit!Ref(kind, r[2], <<k, r[1]>>) : r \in Audit!OwnRefs(nodes, k, kind, effects)}
             own == [kind \in kinds |-> Of(kind)]
             sets == {own[kind] : kind \in kinds}
             keys == IF "loc" \in kinds THEN Audit!LocKeys(nodes, k) ELSE {}
             loc == {Audit!Ref("loc", key, <<k, 0>>) : key \in keys}
             key == [x \in keys |-> Audit!Ref("loc", x, <<k, 0>>)]
  <1>1. refs = (UNION sets) \cup loc
    <2>1. sets = {Of(kind) : kind \in kinds}
      OBVIOUS
    <2>2. refs = (UNION {Of(kind) : kind \in kinds}) \cup loc
      BY Zenon DEF Audit!NodeRefs
    <2>3. UNION sets = UNION {Of(kind) : kind \in kinds}
      BY Zenon, <2>1
    <2> HIDE DEF sets, refs, loc
    <2> QED
      BY Zenon, <2>2, <2>3
  <1>2. ASSUME NEW kind \in kinds PROVE IsFiniteSet(own[kind])
    <2> DEFINE from == Audit!OwnRefs(nodes, k, kind, effects)
               ref == [r \in from |-> Audit!Ref(kind, r[2], <<k, r[1]>>)]
    <2>1. IsFiniteSet(from)
      BY OwnRefsAreFinite
    <2>2. ref \in Surjection(from, own[kind])
      BY DEF Surjection
    <2> HIDE DEF from, ref, own
    <2> QED
      BY <2>1, <2>2, FS_Surjection
  <1>3. IsFiniteSet(UNION sets)
    <2>1. own \in Surjection(kinds, sets)
      BY DEF Surjection
    <2>2. \A T \in sets : IsFiniteSet(T)
      BY <1>2
    <2> HIDE DEF own, sets
    <2>3. IsFiniteSet(sets)
      BY <2>1, FS_Surjection
    <2> QED
      BY <2>2, <2>3, FS_UNION
  <1>4. IsFiniteSet(loc)
    <2>1. IsFiniteSet(keys)
      BY FS_EmptySet DEF IsParsed
    <2>2. key \in Surjection(keys, loc)
      BY DEF Surjection
    <2> HIDE DEF keys, key, loc
    <2> QED
      BY <2>1, <2>2, FS_Surjection
  <1>5. IsFiniteSet(refs)
    <2> HIDE DEF refs, sets, loc
    <2> QED
      BY <1>1, <1>3, <1>4, FS_Union
  <1>6. ASSUME NEW s \in refs
        PROVE  s = [kind |-> s.kind, ref |-> s.ref, at |-> s.at] /\ s.kind \in kinds
    <2>1. CASE s \in loc
      BY <2>1 DEF Audit!Ref
    <2>2. CASE s \in UNION sets
      <3>1. PICK kind \in kinds : s \in Of(kind)
        BY <2>2
      <3> QED
        BY <3>1 DEF Audit!Ref
    <2> HIDE DEF refs, sets, loc
    <2> QED
      BY <1>1, <2>1, <2>2
  <1>7. ASSUME NEW kind \in kinds, NEW r \in Audit!OwnRefs(nodes, k, kind, effects)
        PROVE  \E s \in refs : s.kind = kind /\ s.ref = r[2]
    <2> DEFINE s == Audit!Ref(kind, r[2], <<k, r[1]>>)
    <2>1. s \in Of(kind) /\ s.kind = kind /\ s.ref = r[2]
      BY DEF Audit!Ref
    <2>2. s \in UNION sets
      BY <2>1
    <2> HIDE DEF refs, sets, s
    <2> QED
      BY <1>1, <2>1, <2>2
  <1>8. ASSUME "loc" \in kinds, NEW x \in Audit!LocKeys(nodes, k)
        PROVE  \E s \in refs : s.kind = "loc" /\ s.ref = x
    <2> DEFINE s == Audit!Ref("loc", x, <<k, 0>>)
    <2>1. s \in loc /\ s.kind = "loc" /\ s.ref = x
      BY <1>8 DEF Audit!Ref
    <2> HIDE DEF refs, loc, s
    <2> QED
      BY <1>1, <2>1
  <1> HIDE DEF refs
  <1>9. AreRefs(refs, kinds) /\ NodeIsRead(refs, nodes, k, kinds, effects)
    BY <1>5, <1>6, <1>7, <1>8 DEF AreRefs, NodeIsRead
  <1> QED
    BY <1>9 DEF refs

(* A question for an audit: files of distinct paths, those in scope among  *)
(* them, and a page.                                                       *)
IsAuditQuestion(q) ==
    /\ q.kind = "audit" /\ IsFiniteSet(q.kinds)
    /\ \A f \in q.files : IsParsed(f)
    /\ \A f, g \in q.files : f.path = g.path => f = g
    /\ \E Paths : q.scope \in Seq(Paths)
    /\ \A i \in DOMAIN q.scope : \E f \in q.files : f.path = q.scope[i]
    /\ q.offset \in Nat /\ q.limit \in Int


LEMMA ScopeIsCut ==
  ASSUME NEW q, IsAuditQuestion(q)
  PROVE  LET n == Len(Audit!Scanned(q.scope)) IN
         /\ n \in Nat /\ DOMAIN Audit!Scanned(q.scope) = 1..n
         /\ Len(q.scope) \in Nat /\ DOMAIN q.scope = 1..Len(q.scope) /\ n <= Len(q.scope)
         /\ ~(Len(q.scope) > MaxFiles) => n = Len(q.scope)
         /\ \A i \in 1..n : Audit!Scanned(q.scope)[i] = q.scope[i]
  <1> DEFINE size == Len(q.scope)
             cut == Audit!Min({MaxFiles, size})
             scanned == Audit!Scanned(q.scope)
  <1>1. PICK Paths : q.scope \in Seq(Paths)
    BY DEF IsAuditQuestion
  <1>2. size \in Nat /\ DOMAIN q.scope = 1..size /\ MaxFiles \in Nat
    BY <1>1, LenProperties, ScansAreBounded
  <1>3. cut \in {MaxFiles, size} /\ cut <= MaxFiles /\ cut <= size
    <2>1. {MaxFiles, size} \in SUBSET Nat /\ {MaxFiles, size} # {}
      BY <1>2
    <2>2. \E n \in {MaxFiles, size} : \A m \in {MaxFiles, size} : n <= m
      BY <2>1, LeastNumber
    <2> QED
      BY <2>2 DEF Audit!Min
  <1>4. scanned = SubSeq(q.scope, 1, cut)
    BY DEF Audit!Scanned
  <1> HIDE DEF cut, scanned
  <1>5. cut \in Nat /\ \A i \in 1..cut : i \in DOMAIN q.scope
    BY <1>2, <1>3
  <1>6. Len(scanned) = cut /\ DOMAIN scanned = 1..cut /\ \A i \in 1..cut : scanned[i] = q.scope[i]
    BY <1>1, <1>2, <1>3, <1>4, <1>5
  <1>7. ~(size > MaxFiles) => cut = size
    BY <1>2, <1>3
  <1> QED
    BY <1>2, <1>3, <1>5, <1>6, <1>7 DEF scanned

(* Of a file that was parsed everything is collected, each time it is in   *)
(* the scope, and nothing else.                                            *)
LEMMA FileIsCollected ==
  ASSUME NEW q, IsAuditQuestion(q), NEW file \in q.files
  PROVE  /\ AreRefs(Audit!FileRefs(q.files, q.kinds, file.path), q.kinds)
         /\ file.status = "parsed" =>
              \A k \in DOMAIN file.nodes :
                 NodeIsRead(Audit!FileRefs(q.files, q.kinds, file.path), file.nodes, k, q.kinds,
                            Audit!Effects(q.files))
  <1> DEFINE refs == Audit!FileRefs(q.files, q.kinds, file.path)
             nodes == file.nodes
             of == [k \in DOMAIN nodes |-> Audit!NodeRefs(nodes, k, q.kinds, Audit!Effects(q.files))]
             sets == {of[k] : k \in DOMAIN nodes}
  <1>1. IsParsed(file) /\ IsFiniteSet(q.kinds)
    BY DEF IsAuditQuestion
  <1>2. (CHOOSE f \in q.files : f.path = file.path) = file
    BY DEF IsAuditQuestion
  <1>3. Audit!Reached(nodes) = DOMAIN nodes
    BY <1>1, WalkReachesAll
  <1>4. refs = IF file.status # "parsed" THEN {} ELSE UNION sets
    <2>1. UNION sets = UNION {Audit!NodeRefs(nodes, k, q.kinds, Audit!Effects(q.files)) : k \in DOMAIN nodes}
      OBVIOUS
    <2> HIDE DEF sets
    <2> QED
      BY <1>2, <1>3, <2>1 DEF Audit!FileRefs
  <1>5. ASSUME NEW k \in DOMAIN nodes
        PROVE  AreRefs(of[k], q.kinds) /\ NodeIsRead(of[k], nodes, k, q.kinds, Audit!Effects(q.files))
    <2>1. PICK effects : effects = Audit!Effects(q.files)
      OBVIOUS
    <2>2. of[k] = Audit!NodeRefs(nodes, k, q.kinds, effects)
      BY <2>1
    <2> HIDE DEF of
    <2> QED
      BY <1>1, <2>1, <2>2, NodeRefsAreFinite
  <1>6. IsFiniteSet(UNION sets)
    <2>1. of \in Surjection(DOMAIN nodes, sets)
      BY DEF Surjection
    <2>2. IsFiniteSet(DOMAIN nodes)
      <3>1. Len(nodes) \in Nat /\ DOMAIN nodes = 1..Len(nodes)
        BY <1>1, LenProperties DEF IsParsed
      <3> QED
        BY <3>1, PlacesAreFinite
    <2>3. \A T \in sets : IsFiniteSet(T)
      <3> HIDE DEF of
      <3> QED
        BY <1>5 DEF AreRefs
    <2> HIDE DEF of, sets
    <2>4. IsFiniteSet(sets)
      BY <2>1, <2>2, FS_Surjection
    <2> QED
      BY <2>3, <2>4, FS_UNION
  <1>7. IsFiniteSet(refs)
    <2> HIDE DEF refs, sets
    <2> QED
      BY <1>4, <1>6, FS_EmptySet
  <1>8. ASSUME NEW s \in refs
        PROVE  s = [kind |-> s.kind, ref |-> s.ref, at |-> s.at] /\ s.kind \in q.kinds
    <2>1. s \in UNION sets
      <3> HIDE DEF refs, sets
      <3> QED
        BY <1>4, <1>8
    <2>2. PICK k \in DOMAIN nodes : s \in of[k]
      BY <2>1
    <2> HIDE DEF of
    <2> QED
      BY <1>5, <2>2 DEF AreRefs
  <1>9. ASSUME file.status = "parsed", NEW k \in DOMAIN nodes
        PROVE  NodeIsRead(refs, nodes, k, q.kinds, Audit!Effects(q.files))
    <2>1. of[k] \subseteq UNION sets
      OBVIOUS
    <2> HIDE DEF refs, sets, of
    <2>2. of[k] \subseteq refs
      BY <1>4, <1>9, <2>1
    <2> QED
      BY <1>5, <2>2 DEF NodeIsRead
  <1> HIDE DEF refs, of
  <1>10. AreRefs(refs, q.kinds)
    BY <1>7, <1>8 DEF AreRefs
  <1> QED
    BY <1>9, <1>10 DEF refs

LEMMA ScopeIsCollected ==
  ASSUME NEW q, IsAuditQuestion(q)
  PROVE  /\ AreRefs(Audit!Collected(q.files, q.kinds, q.scope), q.kinds)
         /\ \A i \in DOMAIN Audit!Scanned(q.scope) : \A file \in q.files :
              file.path = q.scope[i] /\ file.status = "parsed" =>
                 \A k \in DOMAIN file.nodes :
                    NodeIsRead(Audit!Collected(q.files, q.kinds, q.scope), file.nodes, k, q.kinds,
                               Audit!Effects(q.files))
  <1> DEFINE n == Len(Audit!Scanned(q.scope))
             scanned == Audit!Scanned(q.scope)
             from == [i \in 1..n |-> Audit!FileRefs(q.files, q.kinds, scanned[i])]
             Put(i, r) == [r EXCEPT !.at = <<i, @>>]
             put == [i \in 1..n |-> {Put(i, r) : r \in from[i]}]
             sets == {put[i] : i \in 1..n}
             refs == Audit!Collected(q.files, q.kinds, q.scope)
  <1>1. /\ n \in Nat /\ DOMAIN scanned = 1..n /\ \A i \in 1..n : scanned[i] = q.scope[i]
        /\ \A i \in 1..n : i \in DOMAIN q.scope
    BY ScopeIsCut
  <1>2. refs = UNION sets
    <2> DEFINE Each(i) == {Put(i, r) : r \in Audit!FileRefs(q.files, q.kinds, scanned[i])}
    <2>1. UNION sets = UNION {Each(i) : i \in DOMAIN scanned}
      <3>1. \A i \in 1..n : put[i] = Each(i)
        OBVIOUS
      <3>2. sets = {put[i] : i \in 1..n}
        OBVIOUS
      <3> HIDE DEF sets, put, Each
      <3> QED
        BY <1>1, <3>1, <3>2
    <2> HIDE DEF sets
    <2> QED
      BY <2>1 DEF Audit!Collected
  <1>3. ASSUME NEW i \in 1..n
        PROVE  /\ AreRefs(from[i], q.kinds)
               /\ \A file \in q.files : file.path = q.scope[i] /\ file.status = "parsed" =>
                     \A k \in DOMAIN file.nodes :
                        NodeIsRead(from[i], file.nodes, k, q.kinds, Audit!Effects(q.files))
    <2>1. PICK file \in q.files : file.path = q.scope[i]
      BY <1>1 DEF IsAuditQuestion
    <2>2. \A f \in q.files : f.path = q.scope[i] => f = file
      BY <2>1 DEF IsAuditQuestion
    <2>3. from[i] = Audit!FileRefs(q.files, q.kinds, file.path)
      BY <1>1, <2>1
    <2> HIDE DEF from
    <2> QED
      BY <2>1, <2>2, <2>3, FileIsCollected
  <1>4. ASSUME NEW i \in 1..n, NEW r \in from[i]
        PROVE  Put(i, r) \in put[i] /\ Put(i, r) = [kind |-> r.kind, ref |-> r.ref, at |-> <<i, r.at>>]
    <2>1. r = [kind |-> r.kind, ref |-> r.ref, at |-> r.at]
      <3> HIDE DEF from
      <3> QED
        BY <1>3 DEF AreRefs
    <2>2. Put(i, r) \in put[i]
      OBVIOUS
    <2> HIDE DEF from, put
    <2> QED
      BY <2>1, <2>2
  <1>5. ASSUME NEW i \in 1..n PROVE put[i] \subseteq refs
    <2>1. put[i] \subseteq UNION sets
      OBVIOUS
    <2> HIDE DEF sets, refs, put
    <2> QED
      BY <1>2, <2>1
  <1>6. ASSUME NEW s \in refs
        PROVE  s = [kind |-> s.kind, ref |-> s.ref, at |-> s.at] /\ s.kind \in q.kinds
    <2>1. PICK T \in sets : s \in T
      <3> HIDE DEF sets, refs
      <3> QED
        BY <1>2, <1>6
    <2>2. PICK i \in 1..n : s \in put[i]
      BY <2>1
    <2>3. PICK r \in from[i] : s = Put(i, r)
      BY <2>2
    <2>4. s = [kind |-> r.kind, ref |-> r.ref, at |-> <<i, r.at>>]
      <3> HIDE DEF from, put, Put
      <3> QED
        BY <1>4, <2>3
    <2>5. r.kind \in q.kinds
      <3> HIDE DEF from
      <3> QED
        BY <1>3 DEF AreRefs
    <2> HIDE DEF from, Put
    <2> QED
      BY <2>4, <2>5
  <1>7. IsFiniteSet(refs)
    <2>1. ASSUME NEW i \in 1..n PROVE IsFiniteSet(put[i])
      <3> DEFINE f == [r \in from[i] |-> Put(i, r)]
      <3>1. f \in Surjection(from[i], put[i])
        BY DEF Surjection
      <3>2. IsFiniteSet(from[i])
        <4> HIDE DEF from
        <4> QED
          BY <1>3 DEF AreRefs
      <3> HIDE DEF from, put, f
      <3> QED
        BY <3>1, <3>2, FS_Surjection
    <2>2. put \in Surjection(1..n, sets)
      BY DEF Surjection
    <2>3. IsFiniteSet(1..n)
      BY <1>1, PlacesAreFinite
    <2>4. \A T \in sets : IsFiniteSet(T)
      <3> HIDE DEF put
      <3> QED
        BY <2>1
    <2> HIDE DEF put, sets, refs
    <2>5. IsFiniteSet(sets)
      BY <2>2, <2>3, FS_Surjection
    <2> QED
      BY <1>2, <2>4, <2>5, FS_UNION
  <1>8. ASSUME NEW i \in DOMAIN scanned, NEW file \in q.files, file.path = q.scope[i],
               file.status = "parsed", NEW k \in DOMAIN file.nodes
        PROVE  NodeIsRead(refs, file.nodes, k, q.kinds, Audit!Effects(q.files))
    <2>1. i \in 1..n
      BY <1>1
    <2>2. NodeIsRead(from[i], file.nodes, k, q.kinds, Audit!Effects(q.files))
      <3> HIDE DEF from
      <3> QED
        BY <1>3, <1>8, <2>1
    <2>3. \A r \in from[i] : \E s \in refs : s.kind = r.kind /\ s.ref = r.ref
      <3>1. ASSUME NEW r \in from[i]
            PROVE  \E s \in refs : s.kind = r.kind /\ s.ref = r.ref
        <4>1. Put(i, r) \in refs
          <5> HIDE DEF from, put, Put, refs
          <5> QED
            BY <1>4, <1>5, <2>1
        <4>2. Put(i, r).kind = r.kind /\ Put(i, r).ref = r.ref
          <5>1. Put(i, r) = [kind |-> r.kind, ref |-> r.ref, at |-> <<i, r.at>>]
            <6> HIDE DEF from, put, Put
            <6> QED
              BY <1>4, <2>1
          <5> HIDE DEF Put
          <5> QED
            BY <5>1
        <4> HIDE DEF Put, refs
        <4> QED
          BY <4>1, <4>2
      <3> QED
        BY <3>1
    <2> HIDE DEF from, refs
    <2> QED
      BY <2>2, <2>3 DEF NodeIsRead
  <1> HIDE DEF refs, scanned
  <1>9. AreRefs(refs, q.kinds)
    BY <1>6, <1>7 DEF AreRefs
  <1> QED
    BY <1>8, <1>9 DEF refs, scanned

(* A page lists a part, and everything if it is the first and nothing is   *)
(* said to be cut.                                                         *)
AuditPage(list, offset, limit) ==
    SubSeq(list, offset + 1,
           IF limit >= 0 THEN Audit!Min({offset + limit, Len(list)}) ELSE Len(list))

LEMMA AuditPageIsPart ==
  ASSUME NEW S, IsFiniteSet(S), NEW offset \in Nat, NEW limit \in Int,
         NEW list, list = Audit!Listed(S), NEW page, page = AuditPage(list, offset, limit)
  PROVE  /\ Len(list) = Cardinality(S)
         /\ Audit!ToSet(page) \subseteq S
         /\ offset = 0 /\ ~(offset + Len(page) < Len(list)) => Audit!ToSet(page) = S
  <1> DEFINE n == Cardinality(S)
             end == IF limit >= 0 THEN Audit!Min({offset + limit, Len(list)}) ELSE Len(list)
  <1>1. n \in Nat /\ list \in [1..n -> S] /\ Audit!ToSet(list) = S
    BY ListedIsListed
  <1>2. list \in Seq(S) /\ Len(list) = n /\ DOMAIN list = 1..n
    BY <1>1
  <1>3. end \in Nat /\ end <= n
    <2>1. CASE limit >= 0
      <3> DEFINE T == {offset + limit, Len(list)}
      <3>1. T \in SUBSET Nat /\ T # {}
        BY <1>1, <1>2, <2>1
      <3> HIDE DEF T
      <3>2. \E a \in T : \A b \in T : a <= b
        BY <3>1, LeastNumber
      <3>3. Audit!Min(T) \in T /\ \A b \in T : Audit!Min(T) <= b
        BY <3>2 DEF Audit!Min
      <3>4. Len(list) \in T
        BY DEF T
      <3>5. end = Audit!Min(T)
        BY <2>1 DEF T
      <3> HIDE DEF end
      <3> QED
        BY <1>2, <3>1, <3>3, <3>4, <3>5
    <2>2. CASE ~(limit >= 0)
      BY <1>1, <1>2, <2>2
    <2> QED
      BY <2>1, <2>2
  <1>4. page = SubSeq(list, offset + 1, end)
    BY DEF AuditPage
  <1> HIDE DEF end, n
  <1>5. /\ Len(page) = IF offset + 1 <= end THEN end - offset ELSE 0
        /\ DOMAIN page = 1..Len(page)
        /\ \A i \in 1..Len(page) : page[i] = list[offset + i] /\ offset + i \in 1..n
    BY <1>1, <1>2, <1>3, <1>4
  <1>6. Audit!ToSet(page) \subseteq S
    BY <1>1, <1>5 DEF Audit!ToSet
  <1>7. ASSUME offset = 0, ~(offset + Len(page) < Len(list)) PROVE Audit!ToSet(page) = S
    <2>1. Len(page) = n
      BY <1>1, <1>2, <1>3, <1>5, <1>7
    <2>2. \A i \in 1..n : page[i] = list[i]
      BY <1>1, <1>5, <1>7, <2>1
    <2>3. Audit!ToSet(page) = Audit!ToSet(list)
      BY <1>2, <1>5, <2>1, <2>2 DEF Audit!ToSet
    <2> QED
      BY <1>1, <2>3
  <1> QED
    BY <1>2, <1>6, <1>7 DEF n

(* What no file defines, as kind and name and as the entries of the audit. *)
IsMissing(q, r) == ~Audit!Resolved(q.files, r.kind, r.ref)
Unresolved(q, refs) == {<<r.kind, r.ref>> : r \in {s \in refs : IsMissing(q, s)}}
CountOf(refs, m) == Audit!Cardinality({r \in refs : <<r.kind, r.ref>> = m})
EntryOf(refs, m) == [kind |-> m[1], ref |-> m[2], count |-> CountOf(refs, m)]
EntriesOf(q, refs) == {EntryOf(refs, m) : m \in Unresolved(q, refs)}

LEMMA EntriesAreMissing ==
  ASSUME NEW q, NEW refs, AreRefs(refs, q.kinds)
  PROVE  /\ IsFiniteSet(Unresolved(q, refs)) /\ IsFiniteSet(EntriesOf(q, refs))
         /\ Cardinality(EntriesOf(q, refs)) = Cardinality(Unresolved(q, refs))
  <1> DEFINE lost == {s \in refs : IsMissing(q, s)}
             name == [r \in lost |-> <<r.kind, r.ref>>]
             entry == [m \in Unresolved(q, refs) |-> EntryOf(refs, m)]
  <1>1. IsFiniteSet(lost)
    <2>1. lost \in SUBSET refs
      OBVIOUS
    <2> HIDE DEF lost
    <2> QED
      BY <2>1, FS_Subset DEF AreRefs
  <1>2. name \in Surjection(lost, Unresolved(q, refs))
    BY DEF Surjection, Unresolved
  <1>3. IsFiniteSet(Unresolved(q, refs))
    <2> HIDE DEF lost, name
    <2> QED
      BY <1>1, <1>2, FS_Surjection
  <1>4. entry \in Surjection(Unresolved(q, refs), EntriesOf(q, refs))
    BY DEF Surjection, EntriesOf
  <1>5. entry \in Injection(Unresolved(q, refs), EntriesOf(q, refs))
    <2>1. entry \in [Unresolved(q, refs) -> EntriesOf(q, refs)]
      BY <1>4 DEF Surjection
    <2>2. ASSUME NEW m \in Unresolved(q, refs), NEW o \in Unresolved(q, refs), entry[m] = entry[o]
          PROVE  m = o
      <3>1. m = <<m[1], m[2]>> /\ o = <<o[1], o[2]>>
        BY DEF Unresolved
      <3>2. EntryOf(refs, m) = EntryOf(refs, o)
        BY <2>2
      <3>3. m[1] = o[1] /\ m[2] = o[2]
        BY <3>2 DEF EntryOf
      <3> QED
        BY <3>1, <3>3
    <2> HIDE DEF entry
    <2> QED
      BY <2>1, <2>2 DEF Injection, IsInjective
  <1> HIDE DEF entry
  <1> QED
    BY <1>3, <1>4, <1>5, FS_Surjection

(* An entry names what is missing, and all that is missing has an entry.   *)
LEMMA EntriesName ==
  ASSUME NEW q, NEW refs
  PROVE  /\ \A e \in EntriesOf(q, refs) : <<e.kind, e.ref>> \in Unresolved(q, refs)
         /\ \A m \in Unresolved(q, refs) : \E e \in EntriesOf(q, refs) : m = <<e.kind, e.ref>>
  <1>1. \A m \in Unresolved(q, refs) : m = <<m[1], m[2]>>
    BY DEF Unresolved
  <1>2. \A m : EntryOf(refs, m).kind = m[1] /\ EntryOf(refs, m).ref = m[2]
    BY DEF EntryOf
  <1>3. ASSUME NEW e \in EntriesOf(q, refs) PROVE <<e.kind, e.ref>> \in Unresolved(q, refs)
    <2>1. PICK m \in Unresolved(q, refs) : e = EntryOf(refs, m)
      BY DEF EntriesOf
    <2> QED
      BY <1>1, <1>2, <2>1
  <1>4. ASSUME NEW m \in Unresolved(q, refs)
        PROVE  \E e \in EntriesOf(q, refs) : m = <<e.kind, e.ref>>
    <2>1. PICK e \in EntriesOf(q, refs) : e = EntryOf(refs, m)
      BY DEF EntriesOf
    <2>2. e.kind = m[1] /\ e.ref = m[2]
      BY <1>2, <2>1
    <2>3. m = <<m[1], m[2]>>
      BY <1>1
    <2> QED
      BY <2>2, <2>3
  <1> QED
    BY <1>3, <1>4

(* The answer, field by field.                                             *)
AnswerTo(q) == Audit!CheckRefs(q.files, q.kinds, q.scope, q.offset, q.limit)
ScopeRefs(q) == Audit!Collected(q.files, q.kinds, q.scope)
ListOf(q) == Audit!Listed(EntriesOf(q, ScopeRefs(q)))
PageOf(q) == AuditPage(ListOf(q), q.offset, q.limit)

LEMMA AnswerIsPage ==
  ASSUME NEW q
  PROVE  /\ AnswerTo(q).unresolved = PageOf(q) /\ AnswerTo(q).total = Len(ListOf(q))
         /\ AnswerTo(q).truncated = (q.offset + Len(PageOf(q)) < Len(ListOf(q)))
         /\ AnswerTo(q).incomplete = {k \in q.kinds : Audit!IndexErrors(q.files, k) # {}}
         /\ AnswerTo(q).filesTruncated = (Len(q.scope) > MaxFiles)
         /\ AnswerTo(q).parseErrors =
              {Audit!Scanned(q.scope)[k] : k \in {j \in DOMAIN Audit!Scanned(q.scope) :
                  \E f \in q.files : f.path = Audit!Scanned(q.scope)[j] /\ f.status # "parsed"}}
  <1>1. PICK refs : refs = ScopeRefs(q)
    OBVIOUS
  <1>2. AnswerTo(q) = Audit!AuditOf(q.files, q.kinds, q.scope, refs, q.offset, q.limit)
    BY <1>1 DEF AnswerTo, ScopeRefs, Audit!CheckRefs
  <1> DEFINE A == Audit!AuditOf(q.files, q.kinds, q.scope, refs, q.offset, q.limit)
             page == AuditPage(ListOf(q), q.offset, q.limit)
  <1>3. ListOf(q) = Audit!Listed({[kind |-> m[1], ref |-> m[2],
                                   count |-> Audit!Cardinality({r \in refs : <<r.kind, r.ref>> = m})] :
                         m \in {<<r.kind, r.ref>> :
                                  r \in {s \in refs : ~Audit!Resolved(q.files, s.kind, s.ref)}}})
    BY <1>1 DEF ListOf, EntriesOf, EntryOf, CountOf, Unresolved, IsMissing
  <1>4. A.unresolved = page /\ A.total = Len(ListOf(q))
    BY <1>3 DEF Audit!AuditOf, AuditPage
  <1>5. A.truncated = (q.offset + Len(page) < Len(ListOf(q)))
    BY <1>3 DEF Audit!AuditOf, AuditPage
  <1>6. /\ A.incomplete = {k \in q.kinds : Audit!IndexErrors(q.files, k) # {}}
        /\ A.filesTruncated = (Len(q.scope) > MaxFiles)
    BY DEF Audit!AuditOf
  <1>7. A.parseErrors =
          {Audit!Scanned(q.scope)[k] : k \in {j \in DOMAIN Audit!Scanned(q.scope) :
              \E f \in q.files : f.path = Audit!Scanned(q.scope)[j] /\ f.status # "parsed"}}
    BY DEF Audit!AuditOf
  <1>8. AnswerTo(q) = A
    BY <1>2
  <1> HIDE DEF A, page
  <1> QED
    BY <1>4, <1>5, <1>6, <1>7, <1>8 DEF page, PageOf

(* A name that is not found in the indexes although some file has it is of *)
(* a kind whose index dropped that file.                                   *)
IsDefined(q, kind, ref) ==
    \E f \in q.files : f.status # "absent" /\
        \E name \in (IF kind = "sprite" THEN Spellings[ref] ELSE {ref}) :
            <<kind, name>> \in f.defines \/ (kind = "sprite" /\ name \in VanillaSprites)

LEMMA LostIsIncomplete ==
  ASSUME NEW q, IsAuditQuestion(q), NEW kind, NEW ref
  PROVE  /\ (\E f \in q.files : f.status = "parsed") /\ Audit!Resolved(q.files, kind, ref)
              => IsDefined(q, kind, ref)
         /\ IsDefined(q, kind, ref) /\ ~Audit!Resolved(q.files, kind, ref)
              => Audit!IndexErrors(q.files, kind) # {}
  <1>1. (\E f \in q.files : f.status = "parsed") /\ Audit!Resolved(q.files, kind, ref)
            => IsDefined(q, kind, ref)
    BY DEF Audit!Resolved, Audit!Resolves, IsDefined
  <1>2. ASSUME IsDefined(q, kind, ref), ~Audit!Resolved(q.files, kind, ref)
        PROVE  Audit!IndexErrors(q.files, kind) # {}
    <2>1. PICK f \in q.files : f.status # "absent" /\
             \E name \in (IF kind = "sprite" THEN Spellings[ref] ELSE {ref}) :
                <<kind, name>> \in f.defines \/ (kind = "sprite" /\ name \in VanillaSprites)
      BY <1>2 DEF IsDefined
    <2>2. PICK name \in (IF kind = "sprite" THEN Spellings[ref] ELSE {ref}) :
             <<kind, name>> \in f.defines \/ (kind = "sprite" /\ name \in VanillaSprites)
      BY <2>1
    <2>3. ~Audit!Resolves(q.files, kind, name) /\ <<kind, name>> \in f.defines
      BY <1>2, <2>2 DEF Audit!Resolved
    <2>4. f.status = "broken" /\ kind \in f.feeds
      <3>1. f.status # "parsed"
        BY <2>3 DEF Audit!Resolves
      <3>2. f.status \in {"parsed", "broken", "absent"} /\ \A d \in f.defines : d[1] \in f.feeds
        BY DEF IsAuditQuestion, IsParsed
      <3>3. <<kind, name>>[1] \in f.feeds
        BY <2>3, <3>2
      <3> QED
        BY <2>1, <3>1, <3>2, <3>3
    <2>5. f.path \in Audit!IndexErrors(q.files, kind)
      BY <2>4 DEF Audit!IndexErrors
    <2> QED
      BY <2>5
  <1> QED
    BY <1>1, <1>2

Listing(q) == {<<e.kind, e.ref>> : e \in Audit!ToSet(AnswerTo(q).unresolved)}
IsWhole(q) == q.offset = 0 /\ ~AnswerTo(q).truncated

LEMMA ListingIsMissing ==
  ASSUME NEW q, IsAuditQuestion(q)
  PROVE  /\ Listing(q) \subseteq Unresolved(q, ScopeRefs(q))
         /\ IsWhole(q) => /\ Listing(q) = Unresolved(q, ScopeRefs(q))
                          /\ AnswerTo(q).total = Cardinality(Listing(q))
  <1> DEFINE entries == EntriesOf(q, ScopeRefs(q))
             missing == Unresolved(q, ScopeRefs(q))
             page == AnswerTo(q).unresolved
  <1>1. AreRefs(ScopeRefs(q), q.kinds)
    BY ScopeIsCollected DEF ScopeRefs
  <1>2. IsFiniteSet(entries) /\ Cardinality(entries) = Cardinality(missing)
    BY <1>1, EntriesAreMissing
  <1>3. /\ Len(ListOf(q)) = Cardinality(entries) /\ Audit!ToSet(PageOf(q)) \subseteq entries
        /\ q.offset = 0 /\ ~(q.offset + Len(PageOf(q)) < Len(ListOf(q)))
             => Audit!ToSet(PageOf(q)) = entries
    <2>1. q.offset \in Nat /\ q.limit \in Int
      BY DEF IsAuditQuestion
    <2>2. PICK offset, limit : offset = q.offset /\ limit = q.limit
      OBVIOUS
    <2>3. ListOf(q) = Audit!Listed(entries) /\ PageOf(q) = AuditPage(ListOf(q), offset, limit)
      BY <2>2 DEF ListOf, PageOf
    <2> HIDE DEF entries
    <2> QED
      BY <1>2, <2>1, <2>2, <2>3, AuditPageIsPart
  <1>4. Audit!ToSet(page) \subseteq entries /\ (IsWhole(q) => Audit!ToSet(page) = entries)
    BY <1>3, AnswerIsPage DEF IsWhole
  <1>5. AnswerTo(q).total = Cardinality(missing)
    BY <1>2, <1>3, AnswerIsPage
  <1>6. /\ \A e \in entries : <<e.kind, e.ref>> \in missing
        /\ \A m \in missing : \E e \in entries : m = <<e.kind, e.ref>>
    BY EntriesName
  <1> HIDE DEF entries, missing, page
  <1>7. Listing(q) = {<<e.kind, e.ref>> : e \in Audit!ToSet(page)}
    BY DEF Listing, page
  <1>8. Listing(q) \subseteq missing
    BY <1>4, <1>6, <1>7
  <1>9. IsWhole(q) => Listing(q) = missing
    BY <1>4, <1>6, <1>7
  <1> QED
    BY <1>5, <1>8, <1>9 DEF missing

(* An audit that says nothing of a cut read every file of its scope.       *)
IsUncut(q) == /\ IsWhole(q)
              /\ ~AnswerTo(q).filesTruncated /\ AnswerTo(q).parseErrors = {}

LEMMA UncutIsRead ==
  ASSUME NEW q, IsAuditQuestion(q), IsUncut(q),
         NEW file \in q.files, file.path \in Audit!ToSet(q.scope)
  PROVE  /\ file.status = "parsed"
         /\ \A k \in DOMAIN file.nodes :
               NodeIsRead(ScopeRefs(q), file.nodes, k, q.kinds, Audit!Effects(q.files))
  <1>1. PICK i \in DOMAIN q.scope : q.scope[i] = file.path
    BY DEF Audit!ToSet
  <1>2. ~(Len(q.scope) > MaxFiles)
    BY AnswerIsPage DEF IsUncut
  <1>3. i \in DOMAIN Audit!Scanned(q.scope) /\ Audit!Scanned(q.scope)[i] = file.path
    BY <1>1, <1>2, ScopeIsCut
  <1>4. file.status = "parsed"
    <2>1. {Audit!Scanned(q.scope)[k] : k \in {j \in DOMAIN Audit!Scanned(q.scope) :
              \E f \in q.files : f.path = Audit!Scanned(q.scope)[j] /\ f.status # "parsed"}} = {}
      BY AnswerIsPage DEF IsUncut
    <2> QED
      BY <1>3, <2>1
  <1> QED
    BY <1>1, <1>3, <1>4, ScopeIsCollected DEF ScopeRefs

LEMMA AuditsAreAlwaysHonest ==
  ASSUME NEW q, IsAuditQuestion(q)
  PROVE  Audit!AuditsAreHonest(q)
  <1> DEFINE Told(kind, ref) == IsDefined(q, kind, ref) \/ <<kind, ref>> \in Listing(q)
  <1>1. ASSUME IsUncut(q), NEW file \in q.files, file.path \in Audit!ToSet(q.scope),
               NEW s \in ScopeRefs(q)
        PROVE  Told(s.kind, s.ref)
    <2>1. file.status = "parsed"
      BY <1>1, UncutIsRead
    <2>2. CASE Audit!Resolved(q.files, s.kind, s.ref)
      BY <2>1, <2>2, LostIsIncomplete
    <2>3. CASE ~Audit!Resolved(q.files, s.kind, s.ref)
      <3>1. <<s.kind, s.ref>> \in Unresolved(q, ScopeRefs(q))
        BY <2>3 DEF Unresolved, IsMissing
      <3> QED
        BY <1>1, <3>1, ListingIsMissing DEF IsUncut
    <2> QED
      BY <2>2, <2>3
  <1>2. ASSUME IsUncut(q), NEW file \in q.files, file.path \in Audit!ToSet(q.scope),
               NEW k \in DOMAIN file.nodes
        PROVE  /\ \A kind \in q.kinds :
                     \A r \in Audit!OwnRefs(file.nodes, k, kind, Audit!Effects(q.files)) :
                        Told(kind, r[2])
               /\ "loc" \in q.kinds => \A key \in Audit!LocKeys(file.nodes, k) : Told("loc", key)
    <2>1. NodeIsRead(ScopeRefs(q), file.nodes, k, q.kinds, Audit!Effects(q.files))
      BY <1>2, UncutIsRead
    <2>2. \A s \in ScopeRefs(q) : Told(s.kind, s.ref)
      BY <1>1, <1>2
    <2> HIDE DEF Told
    <2> QED
      BY <2>1, <2>2 DEF NodeIsRead
  <1>3. ASSUME NEW m \in Listing(q), IsDefined(q, m[1], m[2])
        PROVE  m[1] \in AnswerTo(q).incomplete
    <2>1. PICK s \in ScopeRefs(q) : m = <<s.kind, s.ref>> /\ IsMissing(q, s)
      BY ListingIsMissing DEF Unresolved
    <2>2. s.kind \in q.kinds
      BY ScopeIsCollected DEF ScopeRefs, AreRefs
    <2>3. Audit!IndexErrors(q.files, s.kind) # {}
      BY <1>3, <2>1, LostIsIncomplete DEF IsMissing
    <2> QED
      BY <2>1, <2>2, <2>3, AnswerIsPage
  <1>4. IsWhole(q) => AnswerTo(q).total = Cardinality(Listing(q))
    BY ListingIsMissing
  <1>5. PICK answer : answer = AnswerTo(q)
    OBVIOUS
  <1> DEFINE listed == {<<e.kind, e.ref>> : e \in Audit!ToSet(answer.unresolved)}
             cut == answer.truncated \/ q.offset > 0 \/ answer.filesTruncated \/ answer.parseErrors # {}
  <1>6. listed = Listing(q)
    BY <1>5 DEF Listing
  <1>7. ~cut => IsUncut(q)
    <2>1. q.offset \in Nat
      BY DEF IsAuditQuestion
    <2> QED
      BY <1>5, <2>1 DEF IsUncut, IsWhole
  <1> HIDE DEF listed, cut
  <1>8. cut \/ \A f \in {g \in q.files : g.path \in Audit!ToSet(q.scope)} : \A k \in DOMAIN f.nodes :
          /\ \A kind \in q.kinds :
                \A r \in Audit!OwnRefs(f.nodes, k, kind, Audit!Effects(q.files)) :
                   IsDefined(q, kind, r[2]) \/ <<kind, r[2]>> \in listed
          /\ "loc" \in q.kinds => \A key \in Audit!LocKeys(f.nodes, k) :
                IsDefined(q, "loc", key) \/ <<"loc", key>> \in listed
    BY <1>2, <1>6, <1>7
  <1>9. \A m \in listed : IsDefined(q, m[1], m[2]) => m[1] \in answer.incomplete
    BY <1>3, <1>5, <1>6
  <1>10. q.offset = 0 /\ ~answer.truncated => answer.total = Audit!Cardinality(listed)
    BY <1>4, <1>5, <1>6, AuditCardinality DEF IsWhole
  <1>11. Audit!AuditIsHonest(q, answer)
    BY Zenon, <1>8, <1>9, <1>10 DEF Audit!AuditIsHonest, IsDefined, listed, cut
  <1> QED
    BY <1>5, <1>11 DEF Audit!AuditsAreHonest, AnswerTo

-----------------------------------------------------------------------------
(* What the run over small questions finds, for every question.            *)
LEMMA QuestionsStay == [Answer]_asking => UNCHANGED question
  BY DEF Answer, asking

(* Lookups do not depend on which languages are indexed, a stub that calls *)
(* itself complete leaves no key undefined, and none adds a key the game   *)
(* has (generate_missing_loc_tool, _generate_file_missing_loc,             *)
(* LocalisationIndex.resolve).                                             *)
THEOREM StubsTellTheTruth ==
  IsQuestion(question) /\ answered = FALSE /\ [][Answer]_asking => []StubsAreComplete
  <1>1. IsQuestion(question) /\ [Answer]_asking => IsQuestion(question)'
    BY QuestionsStay
  <1>2. IsQuestion(question) => StubsAreComplete
    BY StubsAreAlwaysComplete DEF StubsAreComplete
  <1> QED
    BY <1>1, <1>2, PTL

(* A finding is attributed to a file only if what the validator wrote ends *)
(* the path of that file and of no other that it may be about              *)
(* (_attributed_relpath, _match_suffix).                                   *)
THEOREM IssuesAreAttributedUniquely ==
  IsFinding(question) /\ answered = FALSE /\ [][Answer]_asking => []AttributionIsUnique
  <1>1. IsFinding(question) /\ [Answer]_asking => IsFinding(question)'
    BY QuestionsStay
  <1>2. IsFinding(question) => AttributionIsUnique
    BY AttributionIsAlwaysUnique DEF AttributionIsUnique, IsFinding
  <1> QED
    BY <1>1, <1>2, PTL

(* On any disk, links included: a rename plan rewrites each path once,     *)
(* counts the names that change there, leaves no old name in a file that   *)
(* no root above hides, and changes no copy that a file of a root above    *)
(* hides; a spot check reads no file that anything hides                   *)
(* (_rename_focus_ids, _validated_spot_files).                             *)
THEOREM RenamesReachEveryFile ==
  IsPlanQuestion(question) /\ answered = FALSE /\ [][Answer]_asking => []PlansAreEffective
  <1>1. IsPlanQuestion(question) /\ [Answer]_asking => IsPlanQuestion(question)'
    BY QuestionsStay
  <1>2. IsPlanQuestion(question) => PlansAreEffective
    BY PlansAreAlwaysEffective DEF PlansAreEffective
  <1> QED
    BY <1>1, <1>2, PTL

(* For every mod, name and page size: what is reported as unreferenced has *)
(* no reference, and totals that no cap cut are exact, page by page        *)
(* (find_unreferenced, find_references).                                   *)
THEOREM ReferencesNeverDisagree ==
  IsNameQuestion(question) /\ answered = FALSE /\ [][Answer]_asking => []ReferencesAgree
  <1>1. IsNameQuestion(question) /\ [Answer]_asking => IsNameQuestion(question)'
    BY QuestionsStay
  <1>2. IsNameQuestion(question) => ReferencesAgree
    BY ReferencesAlwaysAgree DEF ReferencesAgree
  <1> QED
    BY <1>1, <1>2, PTL

(* A merge has every sprite once, with its texture from the directory      *)
(* unless it is protected, keeps the rest of the file in its order,        *)
(* reports what went and settles at once; and the pages of a new file are  *)
(* the file (merge_gfx_text, generate_gfx_merge).                          *)
THEOREM MergesLoseNothing ==
  IsMergeQuestion(question) /\ answered = FALSE /\ [][Answer]_asking => []MergesKeepTheRest
  <1>1. IsMergeQuestion(question) /\ [Answer]_asking => IsMergeQuestion(question)'
    BY QuestionsStay
  <1>2. IsMergeQuestion(question) => MergesKeepTheRest
    BY MergesAlwaysKeepTheRest DEF MergesKeepTheRest
  <1> QED
    BY <1>1, <1>2, PTL

(* Whatever a reference audit leaves out, it says that it did: a name that *)
(* no file defines is listed unless the answer tells of a cut, and one it  *)
(* lists in vain is of a kind marked incomplete (check_refs).              *)
THEOREM AuditsTellWhatTheyMiss ==
  IsAuditQuestion(question) /\ answered = FALSE /\ [][Answer]_asking => []AuditIsHonest
  <1>1. IsAuditQuestion(question) /\ [Answer]_asking => IsAuditQuestion(question)'
    BY QuestionsStay
  <1>2. IsAuditQuestion(question) => AuditIsHonest
    BY AuditsAreAlwaysHonest DEF AuditIsHonest
  <1> QED
    BY <1>1, <1>2, PTL
=============================================================================
