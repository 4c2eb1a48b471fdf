---------------------------- MODULE CachesProofs ----------------------------
(* The parsed files, the decoded texts and the language scans, for any     *)
(* number of threads, files and versions and any limits.                   *)
EXTENDS MCCaches, FiniteSetTheorems, FunctionTheorems, SequenceTheorems,
        WellFoundedInduction, TLAPS

----------------------------------------------------------------------------
(* Sums, as Totals counts them.                                            *)
LEMMA UnitsAreFinite ==
  ASSUME NEW S, IsFiniteSet(S), NEW w \in [S -> Nat]
  PROVE  IsFiniteSet(Units(w)) /\ Total(w) \in Nat
  <1> DEFINE F == [x \in S |-> {x} \X (1..w[x])]
             T == {{x} \X (1..w[x]) : x \in S}
  <1>1. F \in Surjection(S, T)
    BY DEF Surjection
  <1>2. IsFiniteSet(T)
    BY <1>1, FS_Surjection
  <1>3. ASSUME NEW x \in S PROVE IsFiniteSet({x} \X (1..w[x]))
    <2>1. 1 \in Int /\ w[x] \in Int
      OBVIOUS
    <2>2. IsFiniteSet({x}) /\ IsFiniteSet(1..w[x])
      BY <2>1, FS_Singleton, FS_Interval
    <2> QED
      BY <2>2, FS_Product
  <1>4. IsFiniteSet(UNION T)
    BY <1>2, <1>3, FS_UNION
  <1> QED
    BY <1>4, FS_CardinalityType DEF Units, Total

LEMMA TotalOfOne ==
  ASSUME NEW x, NEW w \in [{x} -> Nat]
  PROVE  Total(w) = w[x]
  <1>1. Units(w) = {x} \X (1..w[x])
    BY DEF Units
  <1>2. IsFiniteSet(1..w[x]) /\ Cardinality(1..w[x]) = w[x]
    BY FS_Interval
  <1>3. IsFiniteSet({x}) /\ Cardinality({x}) = 1
    BY FS_Singleton
  <1> QED
    BY <1>1, <1>2, <1>3, FS_Product DEF Total

LEMMA TotalIsRenamed ==
  ASSUME NEW S, IsFiniteSet(S), NEW T, NEW w \in [S -> Nat], NEW v \in [T -> Nat],
         NEW r \in Bijection(S, T), \A x \in S : v[r[x]] = w[x]
  PROVE  Total(v) = Total(w)
  <1> DEFINE R == [u \in Units(w) |-> <<r[u[1]], u[2]>>]
  <1>1. \A u : u \in Units(w) <=> \E x \in S : \E k \in 1..w[x] : u = <<x, k>>
    BY DEF Units
  <1>2. \A u : u \in Units(v) <=> \E y \in T : \E k \in 1..v[y] : u = <<y, k>>
    BY DEF Units
  <1>3. /\ r \in [S -> T]
        /\ \A x, y \in S : r[x] = r[y] => x = y
        /\ \A y \in T : \E x \in S : r[x] = y
    BY DEF Bijection, Injection, Surjection, IsInjective
  <1>4. R \in [Units(w) -> Units(v)]
    BY <1>1, <1>2, <1>3
  <1>5. \A a, b \in Units(w) : R[a] = R[b] => a = b
    BY <1>1, <1>3
  <1>6. ASSUME NEW b \in Units(v) PROVE \E a \in Units(w) : R[a] = b
    <2>1. PICK y \in T : \E k \in 1..v[y] : b = <<y, k>>
      BY <1>2
    <2>5. PICK k \in 1..v[y] : b = <<y, k>>
      BY <2>1
    <2>2. PICK x \in S : r[x] = y
      BY <1>3
    <2>3. <<x, k>> \in Units(w)
      BY <1>1, <2>2, <2>5
    <2>4. R[<<x, k>>] = b
      BY <2>5, <2>2, <2>3
    <2> QED
      BY <2>3, <2>4
  <1>7. R \in Bijection(Units(w), Units(v))
    BY <1>4, <1>5, <1>6 DEF Bijection, Injection, Surjection, IsInjective
  <1>8. IsFiniteSet(Units(w))
    BY UnitsAreFinite
  <1> QED
    BY <1>7, <1>8, FS_Bijection DEF Total, ExistsBijection

Amounts(w) == IsFiniteSet(DOMAIN w) /\ w \in [DOMAIN w -> Nat]

(* u is made of the amounts of w and those of v.                           *)
Splits(u, w, v) ==
  /\ Amounts(w) /\ Amounts(v) /\ Amounts(u)
  /\ DOMAIN w \cap DOMAIN v = {} /\ DOMAIN u = DOMAIN w \cup DOMAIN v
  /\ \A x \in DOMAIN w : u[x] = w[x]
  /\ \A x \in DOMAIN v : u[x] = v[x]

LEMMA TotalIsSplit ==
  ASSUME NEW u, NEW w, NEW v, Splits(u, w, v)
  PROVE  Total(u) = Total(w) + Total(v)
  <1>1. IsFiniteSet(Units(w)) /\ IsFiniteSet(Units(v)) /\ Total(w) \in Nat /\ Total(v) \in Nat
    BY UnitsAreFinite DEF Splits, Amounts
  <1>2. Units(u) = Units(w) \cup Units(v)
    BY DEF Units, Splits
  <1>3. Units(w) \cap Units(v) = {}
    BY DEF Units, Splits
  <1>4. /\ Cardinality(Units(w) \cap Units(v)) = 0
        /\ Cardinality(Units(u)) = Cardinality(Units(w)) + Cardinality(Units(v))
                                   - Cardinality(Units(w) \cap Units(v))
    BY <1>1, <1>2, <1>3, FS_Union, FS_EmptySet
  <1> QED
    BY <1>1, <1>4 DEF Total

LEMMA TotalOfNone == ASSUME NEW w \in [{} -> Nat] PROVE Total(w) = 0
  <1>1. Units(w) = {}
    BY DEF Units
  <1> QED
    BY <1>1, FS_EmptySet DEF Total

(* Changing one amount changes the sum by as much.                         *)
LEMMA TotalIsUpdated ==
  ASSUME NEW S, IsFiniteSet(S), NEW w \in [S -> Nat], NEW x \in S, NEW n \in Nat
  PROVE  Total([w EXCEPT ![x] = n]) = Total(w) - w[x] + n
  <1> DEFINE R == S \ {x}
             rest == [y \in R |-> w[y]]
             v == [w EXCEPT ![x] = n]
             old == [y \in {x} |-> w[x]]
             new == [y \in {x} |-> n]
  <1>1. IsFiniteSet(R) /\ IsFiniteSet({x}) /\ R \cap {x} = {} /\ R \cup {x} = S
    <2>1. IsFiniteSet(R)
      BY FS_RemoveElement
    <2>2. IsFiniteSet({x})
      BY FS_Singleton
    <2> QED
      BY <2>1, <2>2
  <1>2. /\ rest \in [R -> Nat] /\ old \in [{x} -> Nat] /\ new \in [{x} -> Nat]
        /\ v \in [S -> Nat]
    OBVIOUS
  <1>3. Total(old) = w[x] /\ Total(new) = n
    BY <1>2, TotalOfOne
  <1>4. Splits(w, rest, old) /\ Splits(v, rest, new)
    BY <1>1 DEF Splits, Amounts
  <1>5. Total(rest) \in Nat
    BY <1>1, <1>2, UnitsAreFinite
  <1> HIDE DEF rest, old, new, v
  <1>6. Total(w) = Total(rest) + w[x] /\ Total(v) = Total(rest) + n
    BY <1>3, <1>4, TotalIsSplit
  <1> QED
    BY <1>5, <1>6 DEF v
----------------------------------------------------------------------------
(* The texts of a sequence of entries.                                     *)
LEMMA CharsHaveTheirType ==
  ASSUME NEW s \in Seq(Entries)
  PROVE  /\ CharsOf(s) \in [1..Len(s) -> Nat] /\ IsFiniteSet(1..Len(s))
         /\ TotalChars(s) \in Nat
  <1>1. CharsOf(s) \in [1..Len(s) -> Nat]
    <2>1. DOMAIN s = 1..Len(s) /\ Len(s) \in Nat
      OBVIOUS
    <2>2. ASSUME NEW i \in 1..Len(s) PROVE Chars[s[i].text] \in Nat
      <3>1. s[i] \in Entries
        OBVIOUS
      <3> QED
        BY <3>1, LimitsAreNat DEF Entries
    <2> QED
      BY <2>1, <2>2 DEF CharsOf
  <1>2. IsFiniteSet(1..Len(s))
    BY FS_Interval
  <1> QED
    BY <1>1, <1>2, UnitsAreFinite DEF TotalChars

LEMMA ConcatenatedChars ==
  ASSUME NEW s \in Seq(Entries), NEW t \in Seq(Entries)
  PROVE  TotalChars(s \o t) = TotalChars(s) + TotalChars(t)
  <1> DEFINE m == Len(s)
             n == Len(t)
             I == 1..m
             J == (m + 1)..(m + n)
             late == [j \in J |-> CharsOf(t)[j - m]]
             r == [j \in 1..n |-> j + m]
  <1>1. m \in Nat /\ n \in Nat /\ s \o t \in Seq(Entries) /\ Len(s \o t) = m + n
    OBVIOUS
  <1>2. CharsOf(s) \in [I -> Nat] /\ CharsOf(t) \in [1..n -> Nat] /\ CharsOf(s \o t) \in [1..(m + n) -> Nat]
    BY <1>1, CharsHaveTheirType
  <1>3. /\ IsFiniteSet(I) /\ IsFiniteSet(J) /\ IsFiniteSet(1..n) /\ IsFiniteSet(1..(m + n))
        /\ I \cap J = {} /\ 1..(m + n) = I \cup J
    <2>1. 1 \in Int /\ m \in Int /\ n \in Int /\ m + 1 \in Int /\ m + n \in Int
      BY <1>1
    <2>2. IsFiniteSet(I) /\ IsFiniteSet(J) /\ IsFiniteSet(1..n) /\ IsFiniteSet(1..(m + n))
      BY <2>1, FS_Interval
    <2>3. I \cap J = {} /\ I \cup J = 1..(m + n)
      BY <1>1
    <2> QED
      BY <2>2, <2>3
  <1>4. late \in [J -> Nat] /\ r \in Bijection(1..n, J)
          /\ \A j \in 1..n : late[r[j]] = CharsOf(t)[j]
    <2>1. \A j \in 1..n : r[j] \in J /\ r[j] = j + m
      BY <1>1
    <2>2. \A k \in J : k - m \in 1..n /\ r[k - m] = k
      BY <1>1
    <2>3. r \in [1..n -> J] /\ \A j, k \in 1..n : r[j] = r[k] => j = k
      BY <1>1, <2>1
    <2>4. r \in Bijection(1..n, J)
      <3> HIDE DEF J, r
      <3> QED
        BY <2>2, <2>3, Fun_IsBij
    <2>5. late \in [J -> Nat]
      BY <1>2, <2>2
    <2> QED
      BY <1>1, <2>1, <2>4, <2>5
  <1> HIDE DEF I, J, late, r
  <1>5. Total(late) = TotalChars(t)
    <2> DEFINE D == 1..n
               w == CharsOf(t)
    <2>1. /\ IsFiniteSet(D) /\ w \in [D -> Nat] /\ late \in [J -> Nat]
          /\ r \in Bijection(D, J) /\ \A j \in D : late[r[j]] = w[j]
      BY <1>2, <1>3, <1>4
    <2> HIDE DEF D, w, m, n
    <2>2. Total(late) = Total(w)
      BY <2>1, TotalIsRenamed, SMTT(30)
    <2> QED
      BY <2>2 DEF TotalChars, w
  <1> USE DEF I, J, late
  <1>6. /\ \A j \in I : CharsOf(s \o t)[j] = CharsOf(s)[j]
        /\ \A j \in J : CharsOf(s \o t)[j] = late[j]
    <2>1. DOMAIN s = I /\ DOMAIN t = 1..n /\ DOMAIN (s \o t) = 1..(m + n)
      BY <1>1
    <2>2. \A j \in 1..(m + n) : (s \o t)[j] = IF j <= m THEN s[j] ELSE t[j - m]
      OBVIOUS
    <2> QED
      BY <1>1, <2>1, <2>2 DEF CharsOf
  <1> HIDE DEF I, J, late
  <1>7. Total(CharsOf(s \o t)) = Total(CharsOf(s)) + Total(late)
    <2> DEFINE w == CharsOf(s)
               u == CharsOf(s \o t)
    <2>1. Splits(u, w, late)
      BY <1>2, <1>3, <1>4, <1>6 DEF Splits, Amounts
    <2> HIDE DEF w, u
    <2>2. Total(u) = Total(w) + Total(late)
      BY <2>1, TotalIsSplit
    <2> QED
      BY <2>2 DEF w, u
  <1> QED
    BY <1>5, <1>7 DEF TotalChars

LEMMA CharsOfOne ==
  ASSUME NEW e \in Entries
  PROVE  TotalChars(<<e>>) = Chars[e.text]
  <1>1. CharsOf(<<e>>) \in [{1} -> Nat] /\ CharsOf(<<e>>)[1] = Chars[e.text]
    BY LimitsAreNat DEF CharsOf, Entries
  <1> QED
    BY <1>1, TotalOfOne DEF TotalChars

LEMMA AppendedChars ==
  ASSUME NEW s \in Seq(Entries), NEW e \in Entries
  PROVE  TotalChars(Append(s, e)) = TotalChars(s) + Chars[e.text]
  <1>1. <<e>> \in Seq(Entries)
    OBVIOUS
  <1>2. Append(s, e) = s \o <<e>>
    BY AppendIsConcat
  <1> QED
    BY <1>1, <1>2, ConcatenatedChars, CharsOfOne

LEMMA SplitChars ==
  ASSUME NEW s \in Seq(Entries), NEW n \in 0..Len(s)
  PROVE  TotalChars(s) = TotalChars(SubSeq(s, 1, n)) + TotalChars(SubSeq(s, n + 1, Len(s)))
  <1>1. SubSeq(s, 1, n) \in Seq(Entries) /\ SubSeq(s, n + 1, Len(s)) \in Seq(Entries)
    OBVIOUS
  <1>2. SubSeq(s, 1, n) \o SubSeq(s, n + 1, Len(s)) = s
    <2>1. 1 \in 1..(Len(s) + 1) /\ n \in (1 - 1)..Len(s) /\ Len(s) \in n..Len(s)
      OBVIOUS
    <2>2. SubSeq(s, 1, n) \o SubSeq(s, n + 1, Len(s)) = SubSeq(s, 1, Len(s))
      BY <2>1, ConcatAdjacentSubSeq
    <2> QED
      BY <2>2, SubSeqFull
  <1> QED
    BY <1>1, <1>2, ConcatenatedChars

LEMMA RemovedChars ==
  ASSUME NEW s \in Seq(Entries), NEW i \in 1..Len(s)
  PROVE  /\ RemoveAt(s, i) \in Seq(Entries)
         /\ TotalChars(RemoveAt(s, i)) = TotalChars(s) - Chars[s[i].text]
  <1> DEFINE a == SubSeq(s, 1, i - 1)
             b == SubSeq(s, i + 1, Len(s))
  <1>1. a \in Seq(Entries) /\ b \in Seq(Entries) /\ s[i] \in Entries
    OBVIOUS
  <1>2. SubSeq(s, 1, i) = Append(a, s[i]) /\ i \in 0..Len(s)
    OBVIOUS
  <1>3. TotalChars(s) = TotalChars(a) + Chars[s[i].text] + TotalChars(b)
    BY <1>1, <1>2, SplitChars, AppendedChars
  <1>4. TotalChars(a) \in Nat /\ TotalChars(b) \in Nat /\ Chars[s[i].text] \in Nat
    BY <1>1, CharsHaveTheirType, LimitsAreNat DEF Entries
  <1>5. RemoveAt(s, i) = a \o b
    BY DEF RemoveAt
  <1> HIDE DEF a, b
  <1>6. a \o b \in Seq(Entries) /\ TotalChars(a \o b) = TotalChars(a) + TotalChars(b)
    BY <1>1, ConcatenatedChars
  <1> QED
    BY <1>3, <1>4, <1>5, <1>6
----------------------------------------------------------------------------
(* Every file has its versions one after the other.                        *)
DiskInv == disk \in [Files -> [ver : 1..MaxVersion, there : BOOLEAN, good : BOOLEAN]]

Calls == [pc : InFlight \cup {"idle", "done", "raised"}, path : Files \cup {"none"},
          mode : Modes, ver : 0..MaxVersion, text : 0..MaxVersion, seen : SUBSET (0..MaxVersion)]

(* The paths' keys are those of the entries, an entry for each.            *)
Indexed(seq, keys) ==
  /\ \A i \in DOMAIN seq : keys[seq[i].path] = KeyOf(seq[i])
  /\ \A f \in Files : keys[f] # NoKey => \E i \in DOMAIN seq : seq[i].path = f
  /\ \A i, j \in DOMAIN seq : seq[i].path = seq[j].path => i = j

(* A cached text is the one of its key's version, not newer than the file. *)
Past(seq) ==
  \A i \in DOMAIN seq : seq[i].text = seq[i].ver /\ seq[i].ver <= disk[seq[i].path].ver

CacheInv ==
  /\ cache \in Seq(Entries) /\ byPath \in [Files -> Key \cup {NoKey}]
  /\ Len(cache) <= Limit /\ total = TotalChars(cache) /\ total <= CharLimit
  /\ Indexed(cache, byPath) /\ Past(cache)

(* A call has seen what it statted and what it read, in this order.        *)
CallInv(c) ==
  /\ c.pc \in InFlight => c.path \in Files /\ Signatures[c.path] \in c.seen
  /\ c.pc \in InFlight \ {"plain"} =>
       c.ver \in c.seen \ {NoSig} /\ c.ver <= disk[c.path].ver
  /\ c.pc = "publish" => /\ c.text \in c.seen \ {NoSig}
                         /\ c.ver <= c.text /\ c.text <= disk[c.path].ver
                         /\ Chars[c.text] <= CharLimit /\ Limit > 0
  /\ c.pc = "done" => c.text \in c.seen \ {NoSig}

CallsHold == call \in [Threads -> Calls] /\ \A t \in Threads : CallInv(call[t])

AstInv ==
  /\ CacheInv /\ CallsHold
  /\ used # "asts" => cache = <<>> /\ \A t \in Threads : call[t].pc = "idle"

----------------------------------------------------------------------------
(* The cache's operations on its sequence.                                 *)
LEMMA EntriesArePlaced ==
  ASSUME NEW s \in Seq(Entries), NEW j \in DOMAIN s
  PROVE  s[j] \in Entries /\ s[j].path \in Files
  <1>1. s[j] \in Entries
    OBVIOUS
  <1> QED
    BY <1>1 DEF Entries

LEMMA ElementsOfRemoval ==
  ASSUME NEW s \in Seq(Entries), NEW i \in DOMAIN s
  PROVE  /\ RemoveAt(s, i) \in Seq(Entries) /\ Len(RemoveAt(s, i)) = Len(s) - 1
         /\ \A j \in DOMAIN RemoveAt(s, i) :
              RemoveAt(s, i)[j] = IF j < i THEN s[j] ELSE s[j + 1]
  <1> DEFINE a == SubSeq(s, 1, i - 1)
             b == SubSeq(s, i + 1, Len(s))
  <1>1. i \in 1..Len(s) /\ Len(s) \in Nat
    OBVIOUS
  <1>2. a \in Seq(Entries) /\ Len(a) = i - 1 /\ \A j \in 1..(i - 1) : a[j] = s[j]
    BY <1>1
  <1>3. b \in Seq(Entries) /\ Len(b) = Len(s) - i /\ \A j \in 1..(Len(s) - i) : b[j] = s[i + j]
    BY <1>1
  <1> HIDE DEF a, b
  <1>4. /\ a \o b \in Seq(Entries) /\ Len(a \o b) = Len(s) - 1
        /\ \A j \in 1..(Len(s) - 1) : (a \o b)[j] = IF j <= i - 1 THEN a[j] ELSE b[j - (i - 1)]
    BY <1>1, <1>2, <1>3, ConcatProperties
  <1>5. \A j \in 1..(Len(s) - 1) : (a \o b)[j] = IF j < i THEN s[j] ELSE s[j + 1]
    <2> TAKE j \in 1..(Len(s) - 1)
    <2>1. CASE j < i
      <3>1. j \in 1..(i - 1) /\ j <= i - 1
        BY <1>1, <2>1
      <3> QED
        BY <1>2, <1>4, <2>1, <3>1
    <2>2. CASE ~(j < i)
      <3>1. j - (i - 1) \in 1..(Len(s) - i) /\ ~(j <= i - 1) /\ i + (j - (i - 1)) = j + 1
        BY <1>1, <2>2
      <3>2. b[j - (i - 1)] = s[i + (j - (i - 1))]
        BY <1>3, <3>1
      <3> QED
        BY <1>4, <2>2, <3>1, <3>2
    <2> QED
      BY <2>1, <2>2
  <1>6. DOMAIN (a \o b) = 1..(Len(s) - 1)
    BY <1>4
  <1> QED
    BY <1>4, <1>5, <1>6 DEF RemoveAt, a, b

(* Popping a path's entry, as Publish and Hit do.                          *)
LEMMA RemovalKeepsIndex ==
  ASSUME NEW s \in Seq(Entries), NEW keys \in [Files -> Key \cup {NoKey}],
         Indexed(s, keys), Past(s), NEW i \in DOMAIN s
  PROVE  /\ Indexed(RemoveAt(s, i), [keys EXCEPT ![s[i].path] = NoKey])
         /\ Past(RemoveAt(s, i))
         /\ \A j \in DOMAIN RemoveAt(s, i) : RemoveAt(s, i)[j].path # s[i].path
  <1> DEFINE r == RemoveAt(s, i)
  <1>1. /\ r \in Seq(Entries) /\ Len(r) = Len(s) - 1 /\ DOMAIN r = 1..(Len(s) - 1)
        /\ \A j \in DOMAIN r : r[j] = IF j < i THEN s[j] ELSE s[j + 1]
    BY ElementsOfRemoval
  <1>2. i \in 1..Len(s) /\ Len(s) \in Nat /\ DOMAIN s = 1..Len(s)
    OBVIOUS
  <1> HIDE DEF r
  <1>3. ASSUME NEW j \in DOMAIN r
        PROVE  \E m \in DOMAIN s : m # i /\ r[j] = s[m] /\ m = IF j < i THEN j ELSE j + 1
    BY <1>1, <1>2
  <1>4. ASSUME NEW m \in DOMAIN s, m # i PROVE \E j \in DOMAIN r : r[j] = s[m]
    <2>1. CASE m < i
      <3>1. m \in DOMAIN r /\ r[m] = s[m]
        BY <1>1, <1>2, <2>1
      <3> QED
        BY <3>1
    <2>2. CASE m > i
      <3>1. m - 1 \in DOMAIN r /\ r[m - 1] = s[m]
        BY <1>1, <1>2, <2>2
      <3> QED
        BY <3>1
    <2> QED
      BY <1>2, <1>4, <2>1, <2>2
  <1>5. \A j \in DOMAIN r : r[j].path # s[i].path
    BY <1>3 DEF Indexed
  <1>6. Past(r)
    BY <1>3 DEF Past
  <1>7. \A j \in DOMAIN s : s[j].path \in Files
    BY EntriesArePlaced
  <1>8. \A j \in DOMAIN r : [keys EXCEPT ![s[i].path] = NoKey][r[j].path] = KeyOf(r[j])
    BY <1>3, <1>5, <1>7 DEF Indexed
  <1>9. \A f \in Files : [keys EXCEPT ![s[i].path] = NoKey][f] # NoKey =>
          \E j \in DOMAIN r : r[j].path = f
    BY <1>4, <1>7 DEF Indexed
  <1>10. \A j, k \in DOMAIN r : r[j].path = r[k].path => j = k
    BY <1>1, <1>2, <1>3 DEF Indexed
  <1> QED
    BY <1>5, <1>6, <1>8, <1>9, <1>10 DEF Indexed, r

LEMMA AppendKeepsIndex ==
  ASSUME NEW s \in Seq(Entries), NEW keys \in [Files -> Key \cup {NoKey}], NEW e \in Entries,
         Indexed(s, keys), Past(s), \A j \in DOMAIN s : s[j].path # e.path,
         e.text = e.ver, e.ver <= disk[e.path].ver
  PROVE  /\ Append(s, e) \in Seq(Entries)
         /\ Indexed(Append(s, e), [keys EXCEPT ![e.path] = KeyOf(e)])
         /\ Past(Append(s, e))
  <1> DEFINE a == Append(s, e)
             n == Len(s)
  <1>1. /\ a \in Seq(Entries) /\ n \in Nat /\ DOMAIN a = 1..(n + 1) /\ DOMAIN s = 1..n
        /\ \A j \in DOMAIN s : a[j] = s[j]
        /\ a[n + 1] = e
    OBVIOUS
  <1>2. e.path \in Files /\ KeyOf(e) # NoKey /\ \A j \in DOMAIN s : s[j].path \in Files
    <2>1. e.path \in Files /\ e.ver \in 1..MaxVersion
      BY DEF Entries
    <2>2. KeyOf(e).ver # 0 /\ NoKey.ver = 0
      BY <2>1, VersionBound DEF KeyOf, NoKey
    <2> QED
      BY <2>1, <2>2, EntriesArePlaced
  <1> HIDE DEF a, n
  <1>3. \A j \in DOMAIN a : j \in DOMAIN s \/ j = n + 1
    BY <1>1
  <1>4. Past(a)
    BY <1>1, <1>3 DEF Past
  <1>5. \A j \in DOMAIN a : [keys EXCEPT ![e.path] = KeyOf(e)][a[j].path] = KeyOf(a[j])
    BY <1>1, <1>2, <1>3 DEF Indexed
  <1>6. \A f \in Files : [keys EXCEPT ![e.path] = KeyOf(e)][f] # NoKey =>
          \E j \in DOMAIN a : a[j].path = f
    <2>1. n + 1 \in DOMAIN a /\ \A j \in DOMAIN s : j \in DOMAIN a
      BY <1>1
    <2> QED
      BY <1>1, <1>2, <2>1 DEF Indexed
  <1>7. \A j, k \in DOMAIN a : a[j].path = a[k].path => j = k
    BY <1>1, <1>3 DEF Indexed
  <1> QED
    BY <1>1, <1>4, <1>5, <1>6, <1>7 DEF Indexed, a

LEMMA LeastNumber ==
  ASSUME NEW T \in SUBSET Nat, T # {}
  PROVE  \E n \in T : \A m \in T : n <= m
  <1>1. PICK n \in T : \A m \in T : ~ (<<m, n>> \in OpToRel(<, Nat))
    BY NatLessThanWellFounded, WFMin
  <1>2. \A m \in T : ~(m < n)
    BY <1>1 DEF OpToRel
  <1> QED
    BY <1>2

(* Eviction stops at a cache that fits: the empty one does.                *)
LEMMA KeptFits ==
  ASSUME NEW s \in Seq(Entries)
  PROVE  \E n \in 0..Len(s) :
           /\ Kept(s, TotalChars(s)) = SubSeq(s, n + 1, Len(s))
           /\ Len(s) - n <= Limit
           /\ TotalChars(s) - TotalChars(SubSeq(s, 1, n)) <= CharLimit
  <1> DEFINE sum == TotalChars(s)
             Fits(n) == /\ Len(s) - n <= Limit
                        /\ sum - TotalChars(SubSeq(s, 1, n)) <= CharLimit
             T == {n \in 0..Len(s) : Fits(n)}
  <1>1. Len(s) \in Nat /\ Limit \in Nat /\ CharLimit \in Nat /\ sum \in Nat
    BY LimitsAreNat, CharsHaveTheirType
  <1>2. SubSeq(s, 1, Len(s)) = s
    BY SubSeqFull
  <1>3. Len(s) \in T /\ T \in SUBSET Nat
    <2>1. TotalChars(SubSeq(s, 1, Len(s))) = sum
      BY <1>2
    <2> HIDE DEF sum
    <2>2. Fits(Len(s)) /\ Len(s) \in 0..Len(s)
      BY <1>1, <2>1
    <2> QED
      BY <1>1, <2>2
  <1>4. PICK n \in T : \A m \in T : n <= m
    BY <1>3, LeastNumber
  <1>5. n \in 0..Len(s) /\ Fits(n) /\ \A m \in 0..(n - 1) : ~Fits(m)
    BY <1>1, <1>4
  <1> HIDE DEF Fits
  <1>6. \E k \in 0..Len(s) : Fits(k) /\ \A m \in 0..(k - 1) : ~Fits(m)
    BY <1>5
  <1> DEFINE drop == CHOOSE k \in 0..Len(s) : Fits(k) /\ \A m \in 0..(k - 1) : ~Fits(m)
  <1>7. drop \in 0..Len(s) /\ Fits(drop)
    BY <1>6
  <1>8. Kept(s, sum) = SubSeq(s, drop + 1, Len(s))
    BY DEF Kept, Fits
  <1> HIDE DEF drop
  <1> QED
    BY <1>7, <1>8 DEF Fits

KeysWithout(keys, gone) ==
  [f \in Files |-> IF \E e \in ToSet(gone) : e.path = f /\ KeyOf(e) = keys[f]
                   THEN NoKey ELSE keys[f]]

LEMMA EvictionKeepsIndex ==
  ASSUME NEW s \in Seq(Entries), NEW keys \in [Files -> Key \cup {NoKey}],
         Indexed(s, keys), Past(s), NEW n \in 0..Len(s)
  PROVE  LET kept == SubSeq(s, n + 1, Len(s))
             gone == SubSeq(s, 1, n)
         IN  /\ kept \in Seq(Entries) /\ Len(kept) = Len(s) - n /\ Len(gone) = n
             /\ Indexed(kept, KeysWithout(keys, gone)) /\ Past(kept)
             /\ KeysWithout(keys, gone) \in [Files -> Key \cup {NoKey}]
  <1> DEFINE kept == SubSeq(s, n + 1, Len(s))
             gone == SubSeq(s, 1, n)
             now == KeysWithout(keys, gone)
  <1>1. /\ kept \in Seq(Entries) /\ Len(kept) = Len(s) - n /\ DOMAIN kept = 1..(Len(s) - n)
        /\ \A j \in DOMAIN kept : kept[j] = s[n + j] /\ n + j \in DOMAIN s
    OBVIOUS
  <1>2. /\ Len(gone) = n /\ DOMAIN gone = 1..n
        /\ \A j \in DOMAIN gone : gone[j] = s[j] /\ j \in DOMAIN s
    OBVIOUS
  <1>3. n \in Nat /\ Len(s) \in Nat /\ DOMAIN s = 1..Len(s)
    OBVIOUS
  <1> HIDE DEF kept, gone
  <1>4. \A e : e \in ToSet(gone) <=> \E j \in DOMAIN gone : e = s[j]
    BY <1>2 DEF ToSet
  <1>5. ASSUME NEW j \in DOMAIN kept PROVE now[kept[j].path] = KeyOf(kept[j])
    <2>1. kept[j].path \in Files /\ keys[kept[j].path] = KeyOf(kept[j])
      BY <1>1, EntriesArePlaced DEF Indexed
    <2>2. ASSUME NEW e \in ToSet(gone) PROVE e.path # kept[j].path
      <3>1. PICK i \in DOMAIN gone : e = s[i]
        BY <1>4
      <3>2. i # n + j /\ i \in DOMAIN s /\ n + j \in DOMAIN s /\ kept[j] = s[n + j]
        BY <1>1, <1>2, <1>3
      <3> QED
        BY <3>1, <3>2 DEF Indexed
    <2> QED
      BY <2>1, <2>2 DEF KeysWithout
  <1>6. ASSUME NEW f \in Files, now[f] # NoKey PROVE \E j \in DOMAIN kept : kept[j].path = f
    <2>1. keys[f] # NoKey /\ \A e \in ToSet(gone) : ~(e.path = f /\ KeyOf(e) = keys[f])
      BY <1>6 DEF KeysWithout
    <2>2. PICK i \in DOMAIN s : s[i].path = f
      BY <2>1 DEF Indexed
    <2>3. KeyOf(s[i]) = keys[f]
      BY <2>2 DEF Indexed
    <2>4. i \notin DOMAIN gone
      BY <1>4, <2>1, <2>2, <2>3
    <2>5. i - n \in DOMAIN kept /\ kept[i - n] = s[i]
      BY <1>1, <1>2, <1>3, <2>4
    <2> QED
      BY <2>2, <2>5
  <1>7. \A i, j \in DOMAIN kept : kept[i].path = kept[j].path => i = j
    BY <1>1, <1>3 DEF Indexed
  <1>8. Past(kept)
    BY <1>1 DEF Past
  <1>9. now \in [Files -> Key \cup {NoKey}]
    BY DEF KeysWithout
  <1> QED
    BY <1>1, <1>2, <1>5, <1>6, <1>7, <1>8, <1>9 DEF Indexed, kept, gone
----------------------------------------------------------------------------
(* One call moves.                                                         *)
LEMMA CallMoves ==
  ASSUME CallsHold, NEW t \in Threads, NEW c \in Calls, CallInv(c),
         disk' = disk, call' = [call EXCEPT ![t] = c]
  PROVE  CallsHold'
  <1>1. call' \in [Threads -> Calls] /\ \A u \in Threads : call'[u] = IF u = t THEN c ELSE call[u]
    BY DEF CallsHold
  <1>2. \A u \in Threads : CallInv(call'[u])
    BY <1>1 DEF CallsHold
  <1>3. \A u \in Threads : CallInv(call[u])'
    BY <1>2 DEF CallInv, Signatures
  <1> QED
    BY <1>1, <1>3 DEF CallsHold

LEMMA CallEnds ==
  ASSUME CallsHold, NEW t \in Threads, NEW pc \in {"done", "raised"}, NEW text \in 0..MaxVersion,
         pc = "done" => text \in call[t].seen \ {NoSig},
         disk' = disk, call' = Ends(t, pc, text)
  PROVE  CallsHold'
  <1> DEFINE c == AtRest(pc, text, IF pc = "done" THEN call[t].seen ELSE {})
  <1>1. call' = [call EXCEPT ![t] = c]
    BY DEF Ends
  <1>2. call[t].seen \in SUBSET (0..MaxVersion)
    BY DEF CallsHold, Calls
  <1>3. c \in Calls
    BY <1>2, VersionBound DEF AtRest, Calls, Modes
  <1>4. CallInv(c)
    BY DEF AtRest, CallInv, InFlight
  <1> HIDE DEF c
  <1> QED
    BY <1>1, <1>3, <1>4, CallMoves

(* A hit moves the entry to the end; whatever happens to the calls.        *)
LEMMA HitKeepsCache ==
  ASSUME CacheInv, NEW t \in Threads, Hit(t)
  PROVE  CacheInv'
  <1> DEFINE f == call[t].path
             i == EntryAt(cache, f, Wanted(t))
             k == [byPath EXCEPT ![cache[i].path] = NoKey]
             s == RemoveAt(cache, i)
  <1>1. i \in DOMAIN cache
    BY DEF Hit, Cached, EntryAt
  <1>2. cache' = Append(s, cache[i]) /\ byPath' = byPath /\ total' = total /\ disk' = disk
    BY DEF Hit
  <1> HIDE DEF i
  <1>3. cache[i] \in Entries /\ cache[i].path \in Files
    BY <1>1, EntriesArePlaced DEF CacheInv
  <1>4. /\ Indexed(s, k) /\ Past(s) /\ \A j \in DOMAIN s : s[j].path # cache[i].path
    BY <1>1, RemovalKeepsIndex DEF CacheInv
  <1>5. s \in Seq(Entries) /\ Len(s) = Len(cache) - 1
    BY <1>1, ElementsOfRemoval DEF CacheInv
  <1>6. k \in [Files -> Key \cup {NoKey}]
    BY DEF CacheInv
  <1>7. byPath = [k EXCEPT ![cache[i].path] = KeyOf(cache[i])]
    BY <1>1, <1>3 DEF CacheInv, Indexed
  <1>8. cache[i].text = cache[i].ver /\ cache[i].ver <= disk[cache[i].path].ver
    BY <1>1 DEF CacheInv, Past
  <1>9. i \in 1..Len(cache) /\ Len(cache) \in Nat
    BY <1>1 DEF CacheInv
  <1>10. TotalChars(s) = TotalChars(cache) - Chars[cache[i].text]
    BY <1>9, RemovedChars DEF CacheInv
  <1>11. Chars[cache[i].text] \in Nat /\ TotalChars(cache) \in Nat
    BY <1>3, CharsHaveTheirType, LimitsAreNat DEF CacheInv, Entries
  <1> HIDE DEF s, k
  <1>12. Append(s, cache[i]) \in Seq(Entries) /\ Indexed(Append(s, cache[i]), byPath) /\ Past(Append(s, cache[i]))
    BY <1>3, <1>4, <1>5, <1>6, <1>7, <1>8, AppendKeepsIndex
  <1>13. TotalChars(Append(s, cache[i])) = TotalChars(cache)
    BY <1>3, <1>5, <1>10, <1>11, AppendedChars
  <1>14. Len(Append(s, cache[i])) = Len(cache)
    BY <1>3, <1>5, <1>9
  <1> QED
    BY <1>2, <1>12, <1>13, <1>14 DEF CacheInv, Past

(* Before a new entry of f is added its old one goes, whatever its mode.   *)
LEMMA OthersAreKept ==
  ASSUME CacheInv, NEW f \in Files,
         NEW freed, freed = IF Cached(f, byPath[f])
                            THEN Chars[cache[EntryAt(cache, f, byPath[f])].text] ELSE 0
  PROVE  /\ Others(f) \in Seq(Entries) /\ Indexed(Others(f), [byPath EXCEPT ![f] = NoKey])
         /\ Past(Others(f)) /\ \A j \in DOMAIN Others(f) : Others(f)[j].path # f
         /\ TotalChars(Others(f)) = total - freed
  <1>1. CASE Cached(f, byPath[f])
    <2> DEFINE i == EntryAt(cache, f, byPath[f])
    <2>1. i \in DOMAIN cache /\ cache[i].path = f
      BY <1>1 DEF Cached, EntryAt
    <2>2. Others(f) = RemoveAt(cache, i) /\ freed = Chars[cache[i].text]
      BY <1>1 DEF Others
    <2> HIDE DEF i
    <2>3. i \in 1..Len(cache)
      BY <2>1 DEF CacheInv
    <2>4. /\ RemoveAt(cache, i) \in Seq(Entries)
          /\ TotalChars(RemoveAt(cache, i)) = total - Chars[cache[i].text]
      BY <2>3, RemovedChars DEF CacheInv
    <2>5. /\ Indexed(RemoveAt(cache, i), [byPath EXCEPT ![cache[i].path] = NoKey])
          /\ Past(RemoveAt(cache, i))
          /\ \A j \in DOMAIN RemoveAt(cache, i) : RemoveAt(cache, i)[j].path # cache[i].path
      BY <2>1, RemovalKeepsIndex DEF CacheInv
    <2> QED
      BY <2>1, <2>2, <2>4, <2>5
  <1>2. CASE ~Cached(f, byPath[f])
    <2>1. byPath[f] = NoKey
      BY <1>2 DEF CacheInv, Indexed, Cached
    <2>2. \A j \in DOMAIN cache : cache[j].path # f
      BY <1>2 DEF CacheInv, Indexed, Cached
    <2>3. [byPath EXCEPT ![f] = NoKey] = byPath
      BY <2>1 DEF CacheInv
    <2>4. Others(f) = cache /\ freed = 0 /\ total \in Nat
      BY <1>2, CharsHaveTheirType DEF Others, CacheInv
    <2>5. TotalChars(cache) = total - freed
      BY <2>4 DEF CacheInv
    <2> QED
      BY <2>2, <2>3, <2>4, <2>5 DEF CacheInv
  <1> QED
    BY <1>1, <1>2

LEMMA EvictHolds ==
  ASSUME NEW s \in Seq(Entries), NEW keys \in [Files -> Key \cup {NoKey}],
         Indexed(s, keys), Past(s), disk' = disk, Evict(s, keys, TotalChars(s))
  PROVE  CacheInv'
  <1> DEFINE kept == Kept(s, TotalChars(s))
  <1>1. PICK n \in 0..Len(s) :
           /\ kept = SubSeq(s, n + 1, Len(s))
           /\ Len(s) - n <= Limit
           /\ TotalChars(s) - TotalChars(SubSeq(s, 1, n)) <= CharLimit
    BY KeptFits
  <1> DEFINE gone == SubSeq(s, 1, n)
  <1>2. /\ kept \in Seq(Entries) /\ Len(kept) = Len(s) - n
        /\ Indexed(kept, KeysWithout(keys, gone)) /\ Past(kept)
        /\ KeysWithout(keys, gone) \in [Files -> Key \cup {NoKey}]
    BY <1>1, EvictionKeepsIndex
  <1>3. Len(s) - Len(kept) = n
    BY <1>2
  <1>4. /\ cache' = kept /\ total' = TotalChars(s) - TotalChars(gone)
        /\ byPath' = KeysWithout(keys, gone)
    BY <1>3 DEF Evict, KeysWithout
  <1>5. TotalChars(s) = TotalChars(gone) + TotalChars(kept)
    BY <1>1, SplitChars
  <1>6. gone \in Seq(Entries)
    OBVIOUS
  <1>7. TotalChars(gone) \in Nat /\ TotalChars(kept) \in Nat
    BY <1>2, <1>6, CharsHaveTheirType
  <1>8. total' = TotalChars(kept) /\ total' <= CharLimit
    BY <1>1, <1>4, <1>5, <1>7
  <1>9. Len(kept) <= Limit
    BY <1>1, <1>2
  <1>10. Past(kept)'
    BY <1>2, <1>4 DEF Past
  <1> HIDE DEF kept, gone
  <1> QED
    BY <1>2, <1>4, <1>8, <1>9, <1>10 DEF CacheInv

(* Only the present version is published, so the entry of a path never     *)
(* gets older, and its text is that version's.                             *)
LEMMA PublishKeepsCache ==
  ASSUME CacheInv, DiskInv, NEW t \in Threads, call[t] \in Calls, CallInv(call[t]), Publish(t)
  PROVE  /\ CacheInv'
         /\ \A f \in Files : byPath[f] # NoKey /\ byPath'[f] # NoKey => byPath[f].ver <= byPath'[f].ver
  <1> DEFINE f == call[t].path
             e == [path |-> f, ver |-> call[t].ver, mode |-> call[t].mode, text |-> call[t].text]
             keys == [byPath EXCEPT ![f] = Wanted(t)]
             freed == IF Cached(f, byPath[f]) THEN Chars[cache[EntryAt(cache, f, byPath[f])].text] ELSE 0
  <1>1. /\ call[t].pc = "publish" /\ f \in Files /\ disk' = disk
        /\ call[t].ver \in 1..MaxVersion /\ call[t].text \in 1..MaxVersion
        /\ call[t].ver <= call[t].text /\ call[t].text <= disk[f].ver
    BY DEF Publish, CallInv, Calls, InFlight, NoSig
  <1>2. CASE StillCurrent(t)
    <2>1. call[t].ver = disk[f].ver /\ call[t].text = call[t].ver
      BY <1>1, <1>2 DEF StillCurrent, Signatures, NoSig, DiskInv
    <2>2. e \in Entries /\ e.path = f /\ e.text = e.ver /\ e.ver <= disk[e.path].ver
      BY <1>1, <2>1 DEF Entries, Calls, DiskInv
    <2>3. KeyOf(e) = Wanted(t) /\ Wanted(t) \in Key
      BY <1>1 DEF KeyOf, Wanted, Key, Calls
    <2>4. Evict(Append(Others(f), e), keys, total - freed + Chars[e.text])
      BY <1>2 DEF Publish
    <2> HIDE DEF e, freed, f
    <2>5. /\ Others(f) \in Seq(Entries) /\ Indexed(Others(f), [byPath EXCEPT ![f] = NoKey])
          /\ Past(Others(f)) /\ \A j \in DOMAIN Others(f) : Others(f)[j].path # f
          /\ TotalChars(Others(f)) = total - freed
      BY <1>1, OthersAreKept DEF freed
    <2> DEFINE free == [byPath EXCEPT ![f] = NoKey]
    <2>6. free \in [Files -> Key \cup {NoKey}]
      BY DEF CacheInv
    <2>7. [free EXCEPT ![e.path] = KeyOf(e)] = keys
      BY <2>2, <2>3 DEF CacheInv
    <2> HIDE DEF free
    <2>8. /\ Append(Others(f), e) \in Seq(Entries)
          /\ Indexed(Append(Others(f), e), keys) /\ Past(Append(Others(f), e))
      <3>1. /\ Indexed(Others(f), free)
            /\ \A j \in DOMAIN Others(f) : Others(f)[j].path # e.path
        BY <2>2, <2>5 DEF free
      <3> HIDE DEF keys
      <3> QED
        BY <2>2, <2>5, <2>6, <2>7, <3>1, AppendKeepsIndex
    <2>9. TotalChars(Append(Others(f), e)) = total - freed + Chars[e.text]
      BY <2>2, <2>5, AppendedChars
    <2>10. keys \in [Files -> Key \cup {NoKey}]
      BY <2>3 DEF CacheInv
    <2>11. CacheInv'
      BY <1>1, <2>4, <2>8, <2>9, <2>10, EvictHolds
    <2>12. \A g \in Files : byPath'[g] \in {NoKey, keys[g]}
      BY <2>4 DEF Evict
    <2>13. byPath[f] # NoKey => byPath[f].ver <= disk[f].ver
      <3> SUFFICES ASSUME byPath[f] # NoKey PROVE byPath[f].ver <= disk[f].ver
        OBVIOUS
      <3>1. PICK i \in DOMAIN cache : cache[i].path = f
        BY <1>1 DEF CacheInv, Indexed
      <3>2. byPath[f] = KeyOf(cache[i]) /\ cache[i].ver <= disk[f].ver
        BY <3>1 DEF CacheInv, Indexed, Past
      <3> QED
        BY <3>2 DEF KeyOf
    <2>14. keys[f].ver = disk[f].ver
      BY <1>1, <2>1 DEF Wanted, CacheInv, f
    <2>15. \A g \in Files : g # f => keys[g] = byPath[g]
      BY DEF CacheInv
    <2>16. \A g \in Files : byPath[g] # NoKey => byPath[g].ver \in Nat
      BY DEF CacheInv, Key
    <2> HIDE DEF keys
    <2>17. \A g \in Files : byPath[g] # NoKey /\ byPath'[g] # NoKey => byPath[g].ver <= byPath'[g].ver
      BY <2>12, <2>13, <2>14, <2>15, <2>16
    <2> QED
      BY <2>11, <2>17
  <1>3. CASE ~StillCurrent(t)
    <2>1. UNCHANGED <<cache, byPath, total, disk>>
      BY <1>3 DEF Publish, cacheVars
    <2>2. CacheInv'
      BY <2>1 DEF CacheInv, Past
    <2>3. \A g \in Files : byPath[g] # NoKey => byPath[g].ver \in Nat
      BY DEF CacheInv, Key
    <2> QED
      BY <2>1, <2>2, <2>3
  <1> QED
    BY <1>2, <1>3

(* An edit gives a file its next version and leaves the others alone.      *)
LEMMA FilesGetNewer ==
  ASSUME DiskInv, NEW f \in Files, Write(f) \/ Delete(f)
  PROVE  /\ DiskInv'
         /\ \A g \in Files : disk[g].ver <= disk'[g].ver
         /\ disk'[f].ver = disk[f].ver + 1
         /\ \A g \in Files : g # f => disk'[g] = disk[g]
  <1>1. PICK there \in BOOLEAN, good \in BOOLEAN : Change(f, there, good)
    BY DEF Write, Delete, DiskInv
  <1>2. disk[f].ver \in 1..MaxVersion /\ disk[f].ver + 1 \in 1..MaxVersion
    BY <1>1, VersionBound DEF DiskInv, Change
  <1>3. disk' = [disk EXCEPT ![f] = [ver |-> disk[f].ver + 1, there |-> there, good |-> good]]
    BY <1>1 DEF Change
  <1>4. \A g \in Files : disk[g].ver \in Nat
    BY VersionBound DEF DiskInv
  <1> QED
    BY <1>2, <1>3, <1>4 DEF DiskInv

LEMMA SignaturesAreVersions ==
  ASSUME DiskInv, NEW f \in Files
  PROVE  /\ Signatures[f] \in 0..MaxVersion
         /\ disk[f].ver \in 1..MaxVersion
         /\ disk[f].there => Signatures[f] = disk[f].ver
         /\ Signatures[f] # NoSig => Signatures[f] = disk[f].ver
  BY VersionBound DEF DiskInv, Signatures, NoSig

LEMMA EditsKeepCalls ==
  ASSUME DiskInv, CacheInv, CallsHold, NEW f \in Files, SourceChange(f)
  PROVE  CacheInv' /\ CallsHold'
  <1>0. Write(f) \/ Delete(f)
    BY DEF SourceChange
  <1>1. /\ DiskInv' /\ \A g \in Files : disk[g].ver \in Nat /\ disk'[g].ver \in Nat
        /\ \A g \in Files : disk[g].ver <= disk'[g].ver
        /\ \A g \in Files : g # f => disk'[g] = disk[g]
    BY <1>0, FilesGetNewer, VersionBound DEF DiskInv
  <1>2. \A g \in Files : Signatures'[g] \in 0..MaxVersion /\ (g # f => Signatures'[g] = Signatures[g])
    <2>1. \A g \in Files : disk'[g].ver \in 1..MaxVersion /\ disk'[g].there \in BOOLEAN
      BY <1>1 DEF DiskInv
    <2> QED
      BY <1>1, <2>1, VersionBound DEF Signatures, NoSig
  <1>3. CacheInv'
    <2>1. UNCHANGED <<cache, byPath, total>>
      BY DEF SourceChange, cacheVars
    <2>2. Past(cache)'
      <3>1. \A j \in DOMAIN cache : cache[j].path \in Files /\ cache[j].ver \in Nat
        <4> TAKE j \in DOMAIN cache
        <4>1. cache[j] \in Entries
          BY EntriesArePlaced DEF CacheInv
        <4> QED
          BY <4>1, VersionBound DEF Entries
      <3> QED
        BY <1>1, <2>1, <3>1 DEF CacheInv, Past
    <2> QED
      BY <2>1, <2>2 DEF CacheInv
  <1>4. ASSUME NEW t \in Threads PROVE call'[t] \in Calls /\ CallInv(call[t])'
    <2> DEFINE c == call[t]
    <2>0. c \in Calls /\ CallInv(c)
      BY DEF CallsHold
    <2>1. CASE c.pc \in InFlight /\ c.path = f
      <3> DEFINE d == [c EXCEPT !.seen = c.seen \cup {Signatures'[f]}]
      <3>1. call'[t] = d
        BY <2>1 DEF SourceChange
      <3>2. /\ d \in Calls /\ d.pc = c.pc /\ d.path = c.path /\ d.ver = c.ver /\ d.text = c.text
            /\ d.seen = c.seen \cup {Signatures'[f]}
        BY <1>2, <2>0 DEF Calls
      <3> HIDE DEF d
      <3>3. c.ver \in Nat /\ c.text \in Nat
        BY <2>0, VersionBound DEF Calls
      <3> QED
        BY <1>1, <2>0, <2>1, <3>1, <3>2, <3>3 DEF CallInv
    <2>2. CASE ~(c.pc \in InFlight /\ c.path = f)
      <3>1. call'[t] = c
        BY <2>2 DEF SourceChange
      <3>2. c.pc \in InFlight => c.path \in Files /\ c.path # f
        BY <2>0, <2>2 DEF CallInv
      <3> QED
        BY <1>1, <1>2, <2>0, <3>1, <3>2 DEF CallInv, InFlight
    <2> QED
      BY <2>1, <2>2
  <1>5. call' \in [Threads -> Calls]
    BY <1>4 DEF SourceChange
  <1> QED
    BY <1>3, <1>4, <1>5 DEF CallsHold

LEMMA CallReads ==
  ASSUME NEW c \in Calls, NEW pc \in InFlight, NEW text \in 0..MaxVersion
  PROVE  [c EXCEPT !.pc = pc, !.text = text] \in Calls
  BY DEF Calls

(* Every step keeps what is cached, and what a call has seen.              *)
LEMMA AstSteps ==
  ASSUME DiskInv, CacheInv, CallsHold, Next
  PROVE  /\ DiskInv' /\ CacheInv' /\ CallsHold'
         /\ \A f \in Files : byPath[f] # NoKey /\ byPath'[f] # NoKey => byPath[f].ver <= byPath'[f].ver
  <1> DEFINE Grows == \A f \in Files :
                        byPath[f] # NoKey /\ byPath'[f] # NoKey => byPath[f].ver <= byPath'[f].ver
             Same == disk' = disk /\ UNCHANGED cacheVars
  <1>0. ASSUME UNCHANGED byPath PROVE Grows
    BY <1>0 DEF CacheInv, Key
  <1>1. ASSUME Same PROVE DiskInv' /\ CacheInv' /\ Grows
    BY <1>0, <1>1 DEF DiskInv, CacheInv, Past, cacheVars
  <1>2. ASSUME NEW t \in Threads, Stat(t) PROVE Same /\ CallsHold'
    <2>1. PICK f \in Files, mode \in Modes : call' = [call EXCEPT ![t] =
            [pc |-> IF disk[f].there THEN "lookup" ELSE "plain", path |-> f, mode |-> mode,
             ver |-> Signatures[f], text |-> 0, seen |-> {Signatures[f]}]]
      BY <1>2 DEF Stat
    <2> DEFINE c == [pc |-> IF disk[f].there THEN "lookup" ELSE "plain", path |-> f, mode |-> mode,
                     ver |-> Signatures[f], text |-> 0, seen |-> {Signatures[f]}]
    <2>2. c \in Calls /\ CallInv(c)
      <3>1. /\ Signatures[f] \in 0..MaxVersion /\ 0 \in 0..MaxVersion /\ disk[f].ver \in 1..MaxVersion
            /\ disk[f].there => Signatures[f] = disk[f].ver
        BY SignaturesAreVersions, VersionBound
      <3>2. c \in Calls
        BY <3>1 DEF Calls, InFlight
      <3>3. CallInv(c)
        BY <3>1 DEF CallInv, InFlight, NoSig
      <3> QED
        BY <3>2, <3>3
    <2> HIDE DEF c
    <2> QED
      BY <1>2, <2>1, <2>2, CallMoves DEF Stat, c
  <1>3. ASSUME NEW t \in Threads, Hit(t) PROVE DiskInv' /\ CacheInv' /\ Grows /\ CallsHold'
    <2> DEFINE i == EntryAt(cache, call[t].path, Wanted(t))
    <2>1. i \in DOMAIN cache /\ KeyOf(cache[i]) = Wanted(t)
      BY <1>3 DEF Hit, Cached, EntryAt
    <2>2. disk' = disk /\ byPath' = byPath /\ call' = Ends(t, "done", cache[i].text)
      BY <1>3 DEF Hit
    <2> HIDE DEF i
    <2>3. cache[i].text = call[t].ver /\ call[t].ver \in call[t].seen \ {NoSig}
      BY <1>3, <2>1 DEF CacheInv, Past, KeyOf, Wanted, CallsHold, CallInv, Hit, InFlight
    <2>4. cache[i].text \in 0..MaxVersion
      BY <2>3 DEF CallsHold, Calls
    <2>5. CallsHold'
      BY <2>2, <2>3, <2>4, CallEnds
    <2> QED
      BY <1>0, <1>3, <2>2, <2>5, HitKeepsCache DEF DiskInv
  <1>4. ASSUME NEW t \in Threads, Miss(t) PROVE Same /\ CallsHold'
    <2> DEFINE c == [call[t] EXCEPT !.pc = "read"]
    <2>1. call[t] \in Calls /\ CallInv(call[t]) /\ call[t].pc = "lookup"
      BY <1>4 DEF CallsHold, Miss
    <2>2. c \in Calls /\ CallInv(c)
      BY <2>1 DEF Calls, CallInv, InFlight
    <2>3. call' = [call EXCEPT ![t] = c]
      BY <1>4 DEF Miss
    <2> HIDE DEF c
    <2> QED
      BY <1>4, <2>2, <2>3, CallMoves DEF Miss
  <1>5. ASSUME NEW t \in Threads, ReadAndParse(t) PROVE Same /\ CallsHold'
    <2> DEFINE f == call[t].path
               text == disk[f].ver
    <2>1. Same
      BY <1>5 DEF ReadAndParse
    <2>2. /\ call[t] \in Calls /\ CallInv(call[t]) /\ call[t].pc \in {"read", "plain"}
          /\ f \in Files /\ Signatures[f] \in call[t].seen
      BY <1>5 DEF CallsHold, ReadAndParse, CallInv, InFlight
    <2>3. text \in 1..MaxVersion /\ (disk[f].there => text = Signatures[f])
      BY <2>2, SignaturesAreVersions
    <2>4. CASE call' = Ends(t, "raised", NoSig)
      BY <2>1, <2>4, CallEnds, VersionBound DEF NoSig
    <2>5. CASE call' = Ends(t, "done", text) /\ disk[f].there
      <3>1. text \in call[t].seen \ {NoSig} /\ text \in 0..MaxVersion
        BY <2>2, <2>3, <2>5, VersionBound DEF NoSig
      <3> QED
        BY <2>1, <2>5, <3>1, CallEnds
    <2>6. CASE /\ disk[f].there /\ call[t].pc = "read" /\ Limit > 0 /\ Chars[text] <= CharLimit
               /\ call' = [call EXCEPT ![t].pc = "publish", ![t].text = text]
      <3> DEFINE c == [call[t] EXCEPT !.pc = "publish", !.text = text]
      <3>1. call' = [call EXCEPT ![t] = c]
        BY <2>6 DEF CallsHold
      <3>2. /\ c.pc = "publish" /\ c.text = text /\ c.path = f /\ c.ver = call[t].ver
            /\ c.seen = call[t].seen /\ c.mode = call[t].mode
        BY <2>2 DEF Calls
      <3>5. "publish" \in InFlight /\ text \in 0..MaxVersion
        BY <2>3, VersionBound DEF InFlight
      <3> HIDE DEF text
      <3>3. c \in Calls
        BY <2>2, <3>5, CallReads
      <3> HIDE DEF c
      <3> USE DEF text
      <3>4. CallInv(c)
        BY <2>2, <2>3, <2>6, <3>2, VersionBound DEF CallInv, InFlight, NoSig, Calls
      <3> QED
        BY <2>1, <3>1, <3>3, <3>4, CallMoves
    <2> QED
      BY <1>5, <2>1, <2>4, <2>5, <2>6 DEF ReadAndParse
  <1>6. ASSUME NEW t \in Threads, Publish(t) PROVE DiskInv' /\ CacheInv' /\ Grows /\ CallsHold'
    <2>1. call[t] \in Calls /\ CallInv(call[t])
      BY DEF CallsHold
    <2>2. /\ disk' = disk /\ call[t].pc = "publish" /\ call' = Ends(t, "done", call[t].text)
          /\ call[t].text \in 0..MaxVersion /\ call[t].text \in call[t].seen \ {NoSig}
      BY <1>6, <2>1 DEF Publish, CallInv, Calls
    <2>3. CallsHold'
      BY <2>2, CallEnds
    <2> QED
      BY <1>6, <2>1, <2>2, <2>3, PublishKeepsCache DEF DiskInv
  <1>7. ASSUME Clear PROVE DiskInv' /\ CacheInv' /\ Grows /\ CallsHold'
    <2>1. disk' = disk /\ call' = call /\ cache' = <<>> /\ byPath' = [f \in Files |-> NoKey] /\ total' = 0
      BY <1>7 DEF Clear
    <2>2. CharsOf(<<>>) \in [{} -> Nat]
      BY DEF CharsOf
    <2>3. TotalChars(<<>>) = 0
      BY <2>2, TotalOfNone DEF TotalChars
    <2>4. CacheInv'
      BY <2>1, <2>3, LimitsAreNat DEF CacheInv, Indexed, Past
    <2> QED
      BY <2>1, <2>4 DEF DiskInv, CallsHold, CallInv, Signatures
  <1>8. ASSUME NEW f \in Files, SourceChange(f) PROVE DiskInv' /\ CacheInv' /\ Grows /\ CallsHold'
    <2>1. byPath' = byPath /\ (Write(f) \/ Delete(f))
      BY <1>8 DEF SourceChange, cacheVars
    <2> QED
      BY <1>0, <1>8, <2>1, EditsKeepCalls, FilesGetNewer
  <1> QED
    BY <1>1, <1>2, <1>3, <1>4, <1>5, <1>6, <1>7, <1>8 DEF Next
----------------------------------------------------------------------------
(* The decoded texts.                                                      *)
Reads == [pc : Texts!Reading \cup {"idle", "done"}, file : Files \cup {"none"},
          ver : 0..MaxVersion, text : 0..MaxVersion, seen : SUBSET (0..MaxVersion)]

Stored == [ver : 0..MaxVersion, text : 0..MaxVersion]

(* A version that f had: a read that began no later has seen it.           *)
Sees(c, f, v) ==
  c.pc \in Texts!Reading /\ c.file = f /\ c.ver # NoSig /\ c.ver <= v => v \in c.seen

Known(f, v) == v # NoSig /\ v <= disk[f].ver /\ \A r \in Readers : Sees(reads[r], f, v)

(* A stored text may be newer than its stamp, never older.                 *)
StoredInv(f) ==
  entries[f] # Texts!NoEntry =>
    /\ entries[f].ver # NoSig /\ entries[f].ver <= entries[f].text
    /\ Known(f, entries[f].text)

ReadInv(c) ==
  /\ c.pc \in Texts!Reading =>
       /\ c.file \in Files /\ Signatures[c.file] \in c.seen
       /\ c.ver <= disk[c.file].ver
  /\ c.pc \in Texts!Reading \ {"drop"} => c.ver # NoSig
  /\ c.pc = "store" => c.ver <= c.text /\ Known(c.file, c.text) /\ c.text \in c.seen
  /\ c.pc \in Texts!Reading \ {"store"} => c.text = NoSig
  /\ c.pc = "drop" => NoSig \in c.seen
  /\ c.pc = "done" => c.text \in c.seen

TextsHold ==
  /\ entries \in [Files -> Stored] /\ \A f \in Files : StoredInv(f)
  /\ reads \in [Readers -> Reads] /\ \A r \in Readers : ReadInv(reads[r])

TextInv ==
  /\ TextsHold /\ Texts!TextAccounting
  /\ used # "texts" => /\ entries = [f \in Files |-> Texts!NoEntry]
                       /\ \A r \in Readers : reads[r].pc = "idle"
----------------------------------------------------------------------------
(* The scan of a language.                                                 *)
Marks == [Files -> 0..MaxVersion]
Scans == [there : BOOLEAN, loaded : BOOLEAN, sigs : Marks, files : Marks, keys : Marks]
Asks == [pc : {"idle", "answered", "walk", "parse", "files", "keys"},
         sigs : Marks, todo : SUBSET Files, files : Marks]

(* Records are no older than the signature they are kept under.            *)
Matches(sigs, files) ==
  \A f \in Files :
    /\ sigs[f] <= disk[f].ver
    /\ files[f] # NoSig => sigs[f] # NoSig /\ sigs[f] <= files[f] /\ files[f] <= disk[f].ver

(* Between two of a scan's publications the scan is half new.              *)
AskInv(c) ==
  /\ c.pc = "parse" => \A f \in c.todo : c.sigs[f] # NoSig
  /\ c.pc \in {"parse", "files", "keys"} => Matches(c.sigs, c.files)
  /\ c.pc \in {"files", "keys"} => scan.sigs = c.sigs
  /\ c.pc = "keys" => scan.files = c.files

LangInv ==
  /\ scan \in Scans /\ asks \in [Callers -> Asks] /\ \A c \in Callers : AskInv(asks[c])
  /\ (\A c \in Callers : asks[c].pc # "files") => Matches(scan.sigs, scan.files)
  /\ (\A c \in Callers : asks[c].pc # "keys") => scan.keys = scan.files
----------------------------------------------------------------------------
(* The three caches meet the same disk.                                    *)
LEMMA DiskIsShared ==
  /\ Texts!Signatures = Signatures /\ Langs!Signatures = Signatures
  /\ Texts!Signatures' = Signatures' /\ Langs!Signatures' = Signatures'
  /\ \A f : Texts!Write(f) \/ Texts!Delete(f) <=> Write(f) \/ Delete(f)
  /\ \A f : Langs!Write(f) \/ Langs!Delete(f) <=> Write(f) \/ Delete(f)
  BY DEF Signatures, Texts!Signatures, Langs!Signatures, NoSig, Texts!NoSig, Langs!NoSig,
         Write, Delete, Change, Texts!Write, Texts!Delete, Texts!Change,
         Langs!Write, Langs!Delete, Langs!Change

LEMMA SumsAreShared == \A w : Texts!Total(w) = Total(w)
  BY DEF Total, Units, Cardinality, Texts!Total, Texts!Units, Texts!Cardinality
----------------------------------------------------------------------------
(* A reader moves to c; entries are kept, dropped or come from a read.     *)
LEMMA ReaderMoves ==
  ASSUME TextsHold, NEW r \in Readers, NEW c \in Reads, ReadInv(c),
         \A f \in Files, v \in 0..MaxVersion : Known(f, v) => Sees(c, f, v),
         disk' = disk, reads' = [reads EXCEPT ![r] = c],
         entries' \in [Files -> Stored],
         \A f \in Files : \/ entries'[f] \in {entries[f], Texts!NoEntry}
                          \/ /\ entries'[f].ver # NoSig /\ entries'[f].ver <= entries'[f].text
                             /\ Known(f, entries'[f].text)
  PROVE  TextsHold'
  <1>1. reads' \in [Readers -> Reads] /\ \A u \in Readers : reads'[u] = IF u = r THEN c ELSE reads[u]
    BY DEF TextsHold
  <1>2. ASSUME NEW f \in Files, NEW v \in 0..MaxVersion, Known(f, v) PROVE Known(f, v)'
    <2>1. \A u \in Readers : Sees(reads'[u], f, v)
      BY <1>1, <1>2 DEF Known
    <2>2. \A u \in Readers : Sees(reads[u], f, v)'
      BY <2>1 DEF Sees
    <2> QED
      BY <1>2, <2>2 DEF Known
  <1>3. ASSUME NEW u \in Readers PROVE ReadInv(reads[u])'
    <2>1. reads'[u] \in Reads /\ ReadInv(reads'[u])
      BY <1>1 DEF TextsHold
    <2>2. Signatures' = Signatures
      BY DEF Signatures
    <2>3. CASE reads'[u].pc # "store"
      BY <2>1, <2>2, <2>3 DEF ReadInv
    <2>4. CASE reads'[u].pc = "store"
      <3>1. PICK f \in Files, v \in 0..MaxVersion : f = reads'[u].file /\ v = reads'[u].text
        BY <2>1, <2>4 DEF ReadInv, Reads, Texts!Reading
      <3>2. Known(f, v)'
        BY <1>2, <2>1, <2>4, <3>1 DEF ReadInv
      <3>3. Known(reads[u].file, reads[u].text)'
        BY <3>1, <3>2 DEF Known, Sees
      <3> QED
        BY <2>1, <2>2, <3>3 DEF ReadInv
    <2> QED
      BY <2>3, <2>4
  <1>4. ASSUME NEW f \in Files PROVE StoredInv(f)'
    <2>1. entries'[f] \in Stored
      OBVIOUS
    <2>2. entries'[f] # Texts!NoEntry => /\ entries'[f].ver # NoSig /\ entries'[f].ver <= entries'[f].text
                                         /\ Known(f, entries'[f].text)
      BY DEF TextsHold, StoredInv
    <2> QED
      BY <1>2, <2>1, <2>2 DEF StoredInv, Stored
  <1> QED
    BY <1>1, <1>3, <1>4 DEF TextsHold

(* A read that ends keeps its answer and its history only.                 *)
LEMMA ReaderReturns ==
  ASSUME TextsHold, NEW r \in Readers, NEW text \in 0..MaxVersion, text \in reads[r].seen,
         disk' = disk, reads' = Texts!Returns(r, text),
         entries' \in [Files -> Stored],
         \A f \in Files : \/ entries'[f] \in {entries[f], Texts!NoEntry}
                          \/ /\ entries'[f].ver # NoSig /\ entries'[f].ver <= entries'[f].text
                             /\ Known(f, entries'[f].text)
  PROVE  TextsHold'
  <1> DEFINE c == Texts!AtRest("done", text, reads[r].seen)
  <1>1. reads[r].seen \in SUBSET (0..MaxVersion)
    BY DEF TextsHold, Reads
  <1>2. c \in Reads /\ c.pc = "done" /\ c.text \in c.seen
    BY <1>1, VersionBound DEF Texts!AtRest, Reads
  <1>3. reads' = [reads EXCEPT ![r] = c]
    BY DEF Texts!Returns
  <1> HIDE DEF c
  <1>4. ReadInv(c) /\ \A f, v : Sees(c, f, v)
    BY <1>2 DEF ReadInv, Sees, Texts!Reading
  <1> QED
    BY <1>2, <1>3, <1>4, ReaderMoves

(* One entry changes, and the running total with it.                       *)
LEMMA CostsAreNat ==
  ASSUME TextsHold
  PROVE  [g \in Files |-> Texts!CostOf(entries[g])] \in [Files -> Nat]
  <1> SUFFICES ASSUME NEW g \in Files PROVE Texts!CostOf(entries[g]) \in Nat
    OBVIOUS
  <1>1. CASE entries[g] = Texts!NoEntry
    BY <1>1 DEF Texts!CostOf
  <1>2. CASE entries[g] # Texts!NoEntry
    <2>1. entries[g].text \in 1..MaxVersion
      BY <1>2, VersionBound DEF TextsHold, Stored, StoredInv, Known, NoSig
    <2> QED
      BY <1>2, <2>1, TextLimitsAreNat DEF Texts!CostOf
  <1> QED
    BY <1>1, <1>2

LEMMA CostsChange ==
  ASSUME TextsHold, bytes = Total([g \in Files |-> Texts!CostOf(entries[g])]),
         NEW f \in Files, NEW e, NEW n \in Nat, n = Texts!CostOf(e),
         entries' = [entries EXCEPT ![f] = e],
         bytes' = bytes - Texts!CostOf(entries[f]) + n
  PROVE  /\ bytes' = Total([g \in Files |-> Texts!CostOf(entries'[g])])
         /\ bytes \in Nat /\ Texts!CostOf(entries[f]) \in Nat
  <1> DEFINE w == [g \in Files |-> Texts!CostOf(entries[g])]
             v == [g \in Files |-> Texts!CostOf(entries'[g])]
  <1>1. w \in [Files -> Nat] /\ w[f] = Texts!CostOf(entries[f])
    BY CostsAreNat
  <1>2. \A g \in Files : entries'[g] = IF g = f THEN e ELSE entries[g]
    BY DEF TextsHold
  <1>3. v = [w EXCEPT ![f] = n]
    BY <1>2
  <1> HIDE DEF w, v
  <1>4. Total([w EXCEPT ![f] = n]) = Total(w) - w[f] + n
    BY <1>1, FilesAreFinite, TotalIsUpdated
  <1>5. Total(w) \in Nat
    BY <1>1, FilesAreFinite, UnitsAreFinite
  <1>6. bytes = Total(w)
    BY DEF w
  <1>7. bytes' = Total(v)
    BY <1>1, <1>3, <1>4, <1>6
  <1> QED
    BY <1>1, <1>5, <1>6, <1>7 DEF v

(* A read sees the file's present version, and what is stored of it.       *)
LEMMA ReadsAreKnown ==
  ASSUME DiskInv, TextsHold, NEW r \in Readers, reads[r].pc \in Texts!Reading
  PROVE  /\ reads[r] \in Reads /\ ReadInv(reads[r]) /\ reads[r].file \in Files
         /\ Signatures[reads[r].file] \in reads[r].seen
         /\ reads[r].ver # NoSig /\ entries[reads[r].file].ver = reads[r].ver
              => entries[reads[r].file].text \in reads[r].seen
         /\ disk[reads[r].file].there
              => Known(reads[r].file, disk[reads[r].file].ver) /\ disk[reads[r].file].ver \in reads[r].seen
  <1> DEFINE f == reads[r].file
  <1>1. reads[r] \in Reads /\ ReadInv(reads[r]) /\ f \in Files /\ Signatures[f] \in reads[r].seen
    BY DEF TextsHold, ReadInv
  <1>2. ASSUME reads[r].ver # NoSig, entries[f].ver = reads[r].ver PROVE entries[f].text \in reads[r].seen
    <2>1. entries[f] # Texts!NoEntry
      BY <1>2 DEF Texts!NoEntry, NoSig
    <2>2. reads[r].ver <= entries[f].text /\ Sees(reads[r], f, entries[f].text)
      BY <1>1, <1>2, <2>1 DEF TextsHold, StoredInv, Known
    <2> QED
      BY <1>2, <2>2 DEF Sees
  <1>3. ASSUME disk[f].there PROVE Known(f, disk[f].ver) /\ disk[f].ver \in reads[r].seen
    <2>1. Signatures[f] = disk[f].ver /\ disk[f].ver \in 1..MaxVersion
      BY <1>1, <1>3, SignaturesAreVersions
    <2>2. \A u \in Readers : Sees(reads[u], f, disk[f].ver)
      BY <2>1 DEF TextsHold, ReadInv, Sees
    <2> QED
      BY <1>1, <2>1, <2>2 DEF Known, NoSig
  <1> QED
    BY <1>1, <1>2, <1>3

(* Every step of a read leaves the texts genuine, and counted.             *)
LEMMA StatKeepsTexts ==
  ASSUME DiskInv, TextsHold, NEW r \in Readers, Texts!Stat(r)
  PROVE  TextsHold'
  <1>1. PICK f \in Files : reads' = [reads EXCEPT ![r] =
          [pc |-> IF disk[f].there THEN "lookup" ELSE "drop", file |-> f,
           ver |-> Signatures[f], text |-> NoSig, seen |-> {Signatures[f]}]]
    BY DiskIsShared DEF Texts!Stat, Texts!NoSig, NoSig
  <1> DEFINE c == [pc |-> IF disk[f].there THEN "lookup" ELSE "drop", file |-> f,
                   ver |-> Signatures[f], text |-> NoSig, seen |-> {Signatures[f]}]
  <1>2. /\ Signatures[f] \in 0..MaxVersion /\ disk[f].ver \in 1..MaxVersion
        /\ disk[f].there => Signatures[f] = disk[f].ver
        /\ ~disk[f].there => Signatures[f] = NoSig
        /\ Signatures[f] # NoSig => Signatures[f] = disk[f].ver
    BY SignaturesAreVersions DEF Signatures
  <1>3. c \in Reads
    BY <1>2, VersionBound DEF Reads, Texts!Reading, NoSig
  <1>4. ReadInv(c)
    BY <1>2 DEF ReadInv, Texts!Reading, NoSig
  <1>5. \A g \in Files, v \in 0..MaxVersion : Known(g, v) => Sees(c, g, v)
    BY <1>2 DEF Known, Sees, NoSig
  <1> HIDE DEF c
  <1>6. disk' = disk /\ entries' = entries /\ reads' = [reads EXCEPT ![r] = c]
    BY <1>1 DEF Texts!Stat, Texts!textVars, c
  <1>7. entries' \in [Files -> Stored]
    BY <1>6 DEF TextsHold
  <1> QED
    BY <1>3, <1>4, <1>5, <1>6, <1>7, ReaderMoves

LEMMA LookupKeepsTexts ==
  ASSUME DiskInv, TextsHold, NEW r \in Readers, Texts!Lookup(r)
  PROVE  TextsHold'
  <1> DEFINE f == reads[r].file
  <1>1. reads[r].pc = "lookup" /\ disk' = disk /\ entries' = entries
    BY DEF Texts!Lookup, Texts!textVars
  <1>2. /\ reads[r] \in Reads /\ ReadInv(reads[r]) /\ f \in Files /\ reads[r].ver # NoSig
        /\ entries[f].ver = reads[r].ver => entries[f].text \in reads[r].seen
    <2>1. reads[r].pc \in Texts!Reading /\ reads[r].pc \in Texts!Reading \ {"drop"}
      BY <1>1 DEF Texts!Reading
    <2>2. ReadInv(reads[r])
      BY DEF TextsHold
    <2>3. reads[r].ver # NoSig
      BY <2>1, <2>2 DEF ReadInv
    <2> QED
      BY <2>1, <2>2, <2>3, ReadsAreKnown
  <1>3. entries' \in [Files -> Stored] /\ entries[f].text \in 0..MaxVersion
    BY <1>1, <1>2 DEF TextsHold, Stored
  <1>4. CASE entries[f].ver = reads[r].ver
    <2>1. reads' = Texts!Returns(r, entries[f].text)
      BY <1>4 DEF Texts!Lookup
    <2> QED
      BY <1>1, <1>2, <1>3, <1>4, <2>1, ReaderReturns
  <1>5. CASE entries[f].ver # reads[r].ver
    <2> DEFINE c == [reads[r] EXCEPT !.pc = "decode"]
    <2>1. reads' = [reads EXCEPT ![r] = c]
      BY <1>5 DEF Texts!Lookup
    <2>2. c \in Reads /\ ReadInv(c) /\ \A g \in Files, v \in 0..MaxVersion : Known(g, v) => Sees(c, g, v)
      <3>1. c \in Reads /\ c = [reads[r] EXCEPT !.pc = "decode"] /\ c.pc = "decode"
              /\ c.file = f /\ c.ver = reads[r].ver /\ c.text = reads[r].text /\ c.seen = reads[r].seen
        BY <1>2 DEF Reads, Texts!Reading
      <3> HIDE DEF c
      <3> QED
        BY <1>1, <1>2, <3>1 DEF ReadInv, Texts!Reading, Known, Sees
    <2> HIDE DEF c
    <2> QED
      BY <1>1, <1>3, <2>1, <2>2, ReaderMoves
  <1> QED
    BY <1>4, <1>5

Decoded(c, pc, text) == [c EXCEPT !.pc = pc, !.text = text]

LEMMA ReaderDecodes ==
  ASSUME NEW c \in Reads, NEW pc \in Texts!Reading, NEW text \in 0..MaxVersion
  PROVE  /\ Decoded(c, pc, text) \in Reads
         /\ Decoded(c, pc, text).pc = pc /\ Decoded(c, pc, text).text = text
         /\ Decoded(c, pc, text).file = c.file /\ Decoded(c, pc, text).ver = c.ver
         /\ Decoded(c, pc, text).seen = c.seen
  BY DEF Reads, Decoded

LEMMA DecodeKeepsTexts ==
  ASSUME DiskInv, TextsHold, NEW r \in Readers, Texts!Decode(r)
  PROVE  TextsHold'
  <1> DEFINE f == reads[r].file
             text == IF disk[f].there THEN disk[f].ver ELSE NoSig
             pc == IF disk[f].there THEN "store" ELSE "drop"
             c == Decoded(reads[r], pc, text)
  <1>1. reads[r].pc = "decode" /\ disk' = disk /\ entries' = entries
    BY DEF Texts!Decode, Texts!textVars
  <1>2. /\ reads[r].pc \in Texts!Reading /\ reads[r].pc \in Texts!Reading \ {"store"}
        /\ reads[r].pc \in Texts!Reading \ {"drop"}
    BY <1>1 DEF Texts!Reading
  <1>3. /\ reads[r] \in Reads /\ ReadInv(reads[r]) /\ f \in Files /\ Signatures[f] \in reads[r].seen
        /\ disk[f].there => Known(f, disk[f].ver) /\ disk[f].ver \in reads[r].seen
    BY <1>2, ReadsAreKnown
  <1>4. reads[r].text = NoSig /\ reads[r].ver # NoSig /\ reads[r].ver <= disk[f].ver
    BY <1>2, <1>3 DEF ReadInv
  <1>5. text \in 0..MaxVersion /\ pc \in Texts!Reading
    BY <1>3, SignaturesAreVersions, VersionBound DEF Texts!Reading, NoSig
  <1>6. /\ c \in Reads /\ c.pc = pc /\ c.text = text
        /\ c.file = f /\ c.ver = reads[r].ver /\ c.seen = reads[r].seen
    <2> HIDE DEF text, pc
    <2> QED
      BY <1>3, <1>5, ReaderDecodes
  <1>7. reads' = [reads EXCEPT ![r] = c]
    <2>1. CASE disk[f].there
      BY <2>1 DEF Texts!Decode, TextsHold, Decoded
    <2>2. CASE ~disk[f].there
      <3>1. reads' = [reads EXCEPT ![r].pc = "drop"]
        BY <2>2 DEF Texts!Decode
      <3>2. [reads[r] EXCEPT !.pc = "drop"] = c
        BY <1>3, <1>4, <2>2 DEF Reads, Decoded
      <3> QED
        BY <3>1, <3>2
    <2> QED
      BY <2>1, <2>2
  <1> HIDE DEF c
  <1>8. ReadInv(c)
    <2>1. CASE disk[f].there
      BY <1>3, <1>4, <1>6, <2>1 DEF ReadInv, Texts!Reading
    <2>2. CASE ~disk[f].there
      BY <1>3, <1>4, <1>6, <2>2 DEF ReadInv, Texts!Reading, Signatures
    <2> QED
      BY <2>1, <2>2
  <1>9. \A g \in Files, v \in 0..MaxVersion : Known(g, v) => Sees(c, g, v)
    BY <1>2, <1>6 DEF Known, Sees
  <1>10. entries' \in [Files -> Stored]
    BY <1>1 DEF TextsHold
  <1> QED
    BY <1>1, <1>6, <1>7, <1>8, <1>9, <1>10, ReaderMoves

LEMMA DropKeepsTexts ==
  ASSUME DiskInv, TextsHold, Texts!TextAccounting, NEW r \in Readers, Texts!Drop(r)
  PROVE  TextsHold' /\ Texts!TextAccounting'
  <1> DEFINE f == reads[r].file
  <1>1. /\ reads[r].pc = "drop" /\ disk' = disk /\ reads' = Texts!Returns(r, reads[r].text)
        /\ entries' = [entries EXCEPT ![f] = Texts!NoEntry]
        /\ bytes' = bytes - Texts!CostOf(entries[f])
    BY DEF Texts!Drop
  <1>2. reads[r] \in Reads /\ ReadInv(reads[r]) /\ f \in Files
    BY <1>1, ReadsAreKnown DEF Texts!Reading
  <1>3. reads[r].text \in 0..MaxVersion /\ reads[r].text \in reads[r].seen
    BY <1>1, <1>2, VersionBound DEF ReadInv, Reads, Texts!Reading, NoSig
  <1>4. /\ entries' \in [Files -> Stored]
        /\ \A g \in Files : entries'[g] \in {entries[g], Texts!NoEntry}
    <2>1. Texts!NoEntry \in Stored
      BY VersionBound DEF Stored, Texts!NoEntry
    <2> QED
      BY <1>1, <1>2, <2>1 DEF TextsHold
  <1>5. TextsHold'
    BY <1>1, <1>3, <1>4, ReaderReturns
  <1>6. Texts!CostOf(Texts!NoEntry) = 0
    BY DEF Texts!CostOf
  <1>7. bytes = Total([g \in Files |-> Texts!CostOf(entries[g])]) /\ bytes <= MaxBytes
    BY SumsAreShared DEF Texts!TextAccounting
  <1>11. bytes \in Nat /\ Texts!CostOf(entries[f]) \in Nat
    <2>1. [g \in Files |-> Texts!CostOf(entries[g])] \in [Files -> Nat]
      BY CostsAreNat
    <2>2. Texts!CostOf(entries[f]) \in Nat
      BY <1>2, <2>1
    <2> QED
      BY <1>7, <2>1, <2>2, FilesAreFinite, UnitsAreFinite
  <1> DEFINE n == 0
  <1>8. bytes' = bytes - Texts!CostOf(entries[f]) + n /\ n \in Nat /\ n = Texts!CostOf(Texts!NoEntry)
    BY <1>1, <1>6, <1>11
  <1> HIDE DEF n
  <1>9. bytes' = Total([g \in Files |-> Texts!CostOf(entries'[g])])
    BY <1>1, <1>2, <1>7, <1>8, CostsChange
  <1>10. bytes' <= MaxBytes
    BY <1>1, <1>7, <1>11, TextLimitsAreNat
  <1> QED
    BY <1>5, <1>9, <1>10, SumsAreShared DEF Texts!TextAccounting

LEMMA StoreKeepsTexts ==
  ASSUME DiskInv, TextsHold, Texts!TextAccounting, NEW r \in Readers, Texts!Store(r)
  PROVE  TextsHold' /\ Texts!TextAccounting'
  <1> DEFINE f == reads[r].file
             text == reads[r].text
             fits == bytes - Texts!Freed(r) + Cost[text] <= MaxBytes
             e == IF fits THEN [ver |-> reads[r].ver, text |-> text] ELSE Texts!NoEntry
             n == IF fits THEN Cost[text] ELSE 0
  <1>1. /\ reads[r].pc = "store" /\ disk' = disk /\ reads' = Texts!Returns(r, text)
        /\ entries' = [entries EXCEPT ![f] = e]
        /\ bytes' = bytes - Texts!CostOf(entries[f]) + n
    BY DEF Texts!Store, Texts!Stamp, Texts!Freed
  <1>2. /\ reads[r] \in Reads /\ ReadInv(reads[r]) /\ f \in Files
        /\ reads[r].pc \in Texts!Reading \ {"drop"}
    BY <1>1, ReadsAreKnown DEF Texts!Reading
  <1>3. /\ text \in 0..MaxVersion /\ text \in reads[r].seen /\ Known(f, text)
        /\ reads[r].ver \in 0..MaxVersion /\ reads[r].ver # NoSig /\ reads[r].ver <= text
    BY <1>1, <1>2 DEF ReadInv, Reads
  <1>4. e \in Stored /\ Cost[text] \in Nat /\ n \in Nat /\ n = Texts!CostOf(e)
    <2>1. text \in 1..MaxVersion
      BY <1>3 DEF Known, NoSig
    <2>2. Cost[text] \in Nat
      BY <2>1, TextLimitsAreNat
    <2>3. [ver |-> reads[r].ver, text |-> text] # Texts!NoEntry
      BY <1>3 DEF Texts!NoEntry, NoSig
    <2>4. e \in Stored
      BY <1>3, VersionBound DEF Stored, Texts!NoEntry
    <2> QED
      BY <2>2, <2>3, <2>4 DEF Texts!CostOf
  <1>5. entries' \in [Files -> Stored]
    BY <1>1, <1>4 DEF TextsHold
  <1>6. ASSUME NEW g \in Files
        PROVE  \/ entries'[g] \in {entries[g], Texts!NoEntry}
               \/ /\ entries'[g].ver # NoSig /\ entries'[g].ver <= entries'[g].text
                  /\ Known(g, entries'[g].text)
    <2>1. CASE g = f
      <3>1. entries'[g] = e
        BY <1>1, <2>1 DEF TextsHold
      <3> QED
        BY <1>3, <2>1, <3>1
    <2>2. CASE g # f
      BY <1>1, <2>2 DEF TextsHold
    <2> QED
      BY <2>1, <2>2
  <1>7. TextsHold'
    BY <1>1, <1>3, <1>5, <1>6, ReaderReturns
  <1>8. bytes = Total([g \in Files |-> Texts!CostOf(entries[g])]) /\ bytes <= MaxBytes
    BY SumsAreShared DEF Texts!TextAccounting
  <1>9. fits <=> bytes - Texts!CostOf(entries[f]) + Cost[text] <= MaxBytes
    BY DEF Texts!Freed
  <1>12. fits => n = Cost[text]
    OBVIOUS
  <1>13. ~fits => n = 0
    OBVIOUS
  <1> HIDE DEF e, n, fits
  <1>10. /\ bytes' = Total([g \in Files |-> Texts!CostOf(entries'[g])])
         /\ bytes \in Nat /\ Texts!CostOf(entries[f]) \in Nat
    BY <1>1, <1>2, <1>4, <1>8, CostsChange
  <1>11. bytes' <= MaxBytes
    BY <1>1, <1>4, <1>8, <1>9, <1>10, <1>12, <1>13, TextLimitsAreNat
  <1> QED
    BY <1>7, <1>10, <1>11, SumsAreShared DEF Texts!TextAccounting

LEMMA NothingCosts ==
  ASSUME NEW e, \A f \in Files : e[f] = Texts!NoEntry
  PROVE  Total([f \in Files |-> Texts!CostOf(e[f])]) = 0
  <1> DEFINE w == [f \in Files |-> Texts!CostOf(e[f])]
  <1>1. w \in [Files -> {0}]
    BY DEF Texts!CostOf
  <1> HIDE DEF w
  <1>2. Units(w) = {}
    BY <1>1 DEF Units
  <1>3. Total(w) = 0
    BY <1>2, FS_EmptySet DEF Total
  <1> QED
    BY <1>3 DEF w

LEMMA ClearKeepsTexts ==
  ASSUME TextsHold, Texts!Clear
  PROVE  TextsHold' /\ Texts!TextAccounting'
  <1>1. /\ disk' = disk /\ reads' = reads /\ bytes' = 0
        /\ entries' = [f \in Files |-> Texts!NoEntry]
    BY DEF Texts!Clear
  <1>2. entries' \in [Files -> Stored] /\ \A f \in Files : StoredInv(f)'
    BY <1>1, VersionBound DEF StoredInv, Stored, Texts!NoEntry
  <1>3. \A r \in Readers : ReadInv(reads[r])'
    BY <1>1 DEF TextsHold, ReadInv, Known, Sees, Signatures
  <1>4. TextsHold'
    BY <1>1, <1>2, <1>3 DEF TextsHold
  <1>5. Total([f \in Files |-> Texts!CostOf(entries'[f])]) = 0
    BY <1>1, NothingCosts
  <1> QED
    BY <1>1, <1>4, <1>5, SumsAreShared, TextLimitsAreNat DEF Texts!TextAccounting

LEMMA EditsKeepTexts ==
  ASSUME DiskInv, TextsHold, Texts!TextAccounting, NEW f \in Files, Texts!SourceChange(f)
  PROVE  TextsHold' /\ Texts!TextAccounting'
  <1>1. /\ Write(f) \/ Delete(f)
        /\ entries' = entries /\ bytes' = bytes
        /\ reads' = [r \in Readers |->
             IF reads[r].pc \in Texts!Reading /\ reads[r].file = f
             THEN [reads[r] EXCEPT !.seen = reads[r].seen \cup {Signatures'[f]}] ELSE reads[r]]
    BY DiskIsShared DEF Texts!SourceChange, Texts!textVars
  <1>2. /\ DiskInv'
        /\ \A g \in Files : disk[g].ver \in Nat /\ disk'[g].ver \in Nat /\ disk[g].ver <= disk'[g].ver
        /\ \A g \in Files : g # f => disk'[g] = disk[g]
    BY <1>1, FilesGetNewer, VersionBound DEF DiskInv
  <1>3. \A g \in Files : Signatures'[g] \in 0..MaxVersion /\ (g # f => Signatures'[g] = Signatures[g])
    <2>1. \A g \in Files : disk'[g].ver \in 1..MaxVersion /\ disk'[g].there \in BOOLEAN
      BY <1>2 DEF DiskInv
    <2> QED
      BY <1>2, <2>1, VersionBound DEF Signatures, NoSig
  <1>4. ASSUME NEW r \in Readers
        PROVE  /\ reads'[r] \in Reads
               /\ reads'[r].pc = reads[r].pc /\ reads'[r].file = reads[r].file
               /\ reads'[r].ver = reads[r].ver /\ reads'[r].text = reads[r].text
               /\ reads[r].seen \subseteq reads'[r].seen
               /\ reads[r].pc \in Texts!Reading /\ reads[r].file = f => Signatures'[f] \in reads'[r].seen
    <2>1. reads[r] \in Reads
      BY DEF TextsHold
    <2> QED
      BY <1>1, <1>3, <2>1 DEF Reads
  <1>5. ASSUME NEW g \in Files, NEW v \in 0..MaxVersion, Known(g, v) PROVE Known(g, v)'
    <2>1. \A r \in Readers : Sees(reads'[r], g, v)
      BY <1>4, <1>5 DEF Known, Sees
    <2>2. v # NoSig /\ v <= disk'[g].ver
      BY <1>2, <1>5, VersionBound DEF Known
    <2> QED
      BY <2>1, <2>2 DEF Known, Sees
  <1>6. ASSUME NEW r \in Readers PROVE ReadInv(reads[r])'
    <2>1. reads[r] \in Reads /\ ReadInv(reads[r]) /\ reads[r].ver \in Nat
      BY VersionBound DEF TextsHold, Reads
    <2>2. reads[r].pc \in Texts!Reading =>
            Signatures'[reads[r].file] \in reads'[r].seen /\ reads[r].ver <= disk'[reads[r].file].ver
      <3> SUFFICES ASSUME reads[r].pc \in Texts!Reading
                   PROVE  Signatures'[reads[r].file] \in reads'[r].seen /\ reads[r].ver <= disk'[reads[r].file].ver
        OBVIOUS
      <3>1. reads[r].file \in Files /\ Signatures[reads[r].file] \in reads[r].seen
              /\ reads[r].ver <= disk[reads[r].file].ver
        BY <2>1 DEF ReadInv
      <3>2. CASE reads[r].file = f
        BY <1>2, <1>4, <2>1, <3>1, <3>2
      <3>3. CASE reads[r].file # f
        BY <1>2, <1>3, <1>4, <2>1, <3>1, <3>3
      <3> QED
        BY <3>2, <3>3
    <2>3. reads[r].pc = "store" => Known(reads[r].file, reads[r].text)'
      <3> SUFFICES ASSUME reads[r].pc = "store" PROVE Known(reads[r].file, reads[r].text)'
        OBVIOUS
      <3>1. PICK g \in Files, v \in 0..MaxVersion : g = reads[r].file /\ v = reads[r].text
        BY <2>1 DEF ReadInv, Reads, Texts!Reading
      <3>2. Known(g, v)'
        BY <1>5, <2>1, <3>1 DEF ReadInv
      <3> QED
        BY <1>4, <3>1, <3>2 DEF Known, Sees
    <2> QED
      BY <1>4, <2>1, <2>2, <2>3 DEF ReadInv
  <1>7. ASSUME NEW g \in Files PROVE StoredInv(g)'
    <2>1. entries[g] \in Stored /\ StoredInv(g)
      BY DEF TextsHold
    <2> QED
      BY <1>1, <1>5, <2>1 DEF StoredInv, Stored
  <1>8. reads' \in [Readers -> Reads] /\ entries' \in [Files -> Stored]
    BY <1>1, <1>4 DEF TextsHold
  <1>9. Texts!TextAccounting'
    BY <1>1 DEF Texts!TextAccounting
  <1> QED
    BY <1>6, <1>7, <1>8, <1>9 DEF TextsHold

LEMMA TextSteps ==
  ASSUME DiskInv, TextsHold, Texts!TextAccounting, Texts!Next
  PROVE  TextsHold' /\ Texts!TextAccounting'
  <1>1. ASSUME UNCHANGED <<entries, bytes>> PROVE Texts!TextAccounting'
    BY <1>1 DEF Texts!TextAccounting
  <1>2. ASSUME NEW r \in Readers, Texts!Stat(r) \/ Texts!Lookup(r) \/ Texts!Decode(r)
        PROVE  TextsHold' /\ Texts!TextAccounting'
    <2>1. UNCHANGED <<entries, bytes>>
      BY <1>2 DEF Texts!Stat, Texts!Lookup, Texts!Decode, Texts!textVars
    <2> QED
      BY <1>1, <1>2, <2>1, StatKeepsTexts, LookupKeepsTexts, DecodeKeepsTexts
  <1> QED
    BY <1>2, DropKeepsTexts, StoreKeepsTexts, ClearKeepsTexts, EditsKeepTexts DEF Texts!Next
----------------------------------------------------------------------------
(* One caller at a time scans a language.                                  *)
Alone == \A c, d \in Callers : c = d

LEMMA CallerMoves ==
  ASSUME Alone, asks \in [Callers -> Asks], NEW c \in Callers, NEW d \in Asks,
         disk' = disk, asks' = [asks EXCEPT ![c] = d], scan' \in Scans,
         d.pc = "parse" => \A f \in d.todo : d.sigs[f] # NoSig,
         d.pc \in {"parse", "files", "keys"} => Matches(d.sigs, d.files),
         d.pc \in {"files", "keys"} => scan'.sigs = d.sigs,
         d.pc = "keys" => scan'.files = d.files,
         d.pc # "files" => Matches(scan'.sigs, scan'.files),
         d.pc # "keys" => scan'.keys = scan'.files
  PROVE  LangInv'
  <1>1. asks' \in [Callers -> Asks] /\ \A e \in Callers : asks'[e] = d
    BY DEF Alone
  <1>2. \A e \in Callers : AskInv(asks[e])'
    BY <1>1 DEF AskInv, Matches
  <1>3. (\A e \in Callers : asks'[e].pc # "files") => Matches(scan.sigs, scan.files)'
    BY <1>1 DEF Matches
  <1>4. (\A e \in Callers : asks'[e].pc # "keys") => scan'.keys = scan'.files
    BY <1>1
  <1> QED
    BY <1>1, <1>2, <1>3, <1>4 DEF LangInv

(* The scan's publications and the caller's own records, one at a time.    *)
Parsed(d, f, files) == [d EXCEPT !.files = files, !.todo = @ \ {f}]
Filled(s, keys) == [s EXCEPT !.keys = keys, !.loaded = TRUE]

LEMMA AsksHaveTheirType ==
  ASSUME NEW d \in Asks, NEW files \in Marks, NEW f \in Files
  PROVE  /\ Parsed(d, f, files) \in Asks
         /\ Parsed(d, f, files).pc = d.pc /\ Parsed(d, f, files).files = files
         /\ Parsed(d, f, files).sigs = d.sigs /\ Parsed(d, f, files).todo = d.todo \ {f}
  BY DEF Asks, Parsed

LEMMA AsksMove ==
  ASSUME NEW d \in Asks, NEW pc \in {"idle", "answered", "walk", "parse", "files", "keys"}
  PROVE  /\ [d EXCEPT !.pc = pc] \in Asks /\ [d EXCEPT !.pc = pc].pc = pc
         /\ [d EXCEPT !.pc = pc].files = d.files /\ [d EXCEPT !.pc = pc].sigs = d.sigs
  BY DEF Asks

LEMMA ScansHaveTheirType ==
  ASSUME NEW s \in Scans, NEW marks \in Marks
  PROVE  /\ Filled(s, marks) \in Scans /\ Filled(s, marks).keys = marks
         /\ Filled(s, marks).files = s.files /\ Filled(s, marks).sigs = s.sigs
         /\ [s EXCEPT !.sigs = marks] \in Scans /\ [s EXCEPT !.files = marks] \in Scans
         /\ [s EXCEPT !.there = TRUE] \in Scans
  BY DEF Scans, Filled

(* Files only get newer, which no scan minds.                              *)
LEMMA EditsKeepScans ==
  ASSUME DiskInv, DiskInv', LangInv, UNCHANGED <<scan, asks>>,
         \A f \in Files : disk[f].ver <= disk'[f].ver
  PROVE  LangInv'
  <1>1. ASSUME NEW s \in Marks, NEW k \in Marks, Matches(s, k) PROVE Matches(s, k)'
    <2>1. ASSUME NEW f \in Files
          PROVE  /\ s[f] <= disk'[f].ver
                 /\ k[f] # NoSig => s[f] # NoSig /\ s[f] <= k[f] /\ k[f] <= disk'[f].ver
      <3>1. s[f] \in Nat /\ k[f] \in Nat /\ disk[f].ver \in Nat /\ disk'[f].ver \in Nat
        BY VersionBound DEF Marks, DiskInv
      <3>2. s[f] <= disk[f].ver
        BY <1>1 DEF Matches
      <3>3. k[f] # NoSig => s[f] # NoSig
        BY <1>1 DEF Matches
      <3>4. k[f] # NoSig => s[f] <= k[f] /\ k[f] <= disk[f].ver
        BY <1>1 DEF Matches
      <3> QED
        BY <3>1, <3>2, <3>3, <3>4
    <2> QED
      BY <2>1 DEF Matches
  <1>2. scan.sigs \in Marks /\ scan.files \in Marks
    BY DEF LangInv, Scans
  <1>3. ASSUME NEW c \in Callers PROVE AskInv(asks[c])'
    <2>1. asks[c].sigs \in Marks /\ asks[c].files \in Marks /\ AskInv(asks[c])
      BY DEF LangInv, Asks
    <2>2. Matches(asks[c].sigs, asks[c].files) => Matches(asks[c].sigs, asks[c].files)'
      BY <1>1, <2>1 DEF Matches
    <2> QED
      BY <2>1, <2>2 DEF AskInv
  <1>4. Matches(scan.sigs, scan.files) => Matches(scan.sigs, scan.files)'
    BY <1>1, <1>2 DEF Matches
  <1> QED
    BY <1>3, <1>4 DEF LangInv

LEMMA LangSteps ==
  ASSUME DiskInv, LangInv, Alone, Langs!Next
  PROVE  LangInv'
  <1>1. /\ scan \in Scans /\ asks \in [Callers -> Asks]
        /\ \A c \in Callers : asks[c] \in Asks /\ AskInv(asks[c])
    BY DEF LangInv
  <1>2. ASSUME NEW c \in Callers
        PROVE  /\ asks[c].pc # "files" => Matches(scan.sigs, scan.files)
               /\ asks[c].pc # "keys" => scan.keys = scan.files
    BY DEF LangInv, Alone
  <1>3. ASSUME NEW f \in Files
        PROVE  /\ Signatures[f] \in 0..MaxVersion /\ Signatures[f] <= disk[f].ver
               /\ disk[f].ver \in 1..MaxVersion
               /\ Signatures[f] # NoSig => Signatures[f] = disk[f].ver
    BY SignaturesAreVersions, VersionBound DEF NoSig
  <1>4. ASSUME NEW c \in Callers, Langs!Ask(c) PROVE LangInv'
    <2>1. asks[c].pc = "idle" /\ disk' = disk
      BY <1>4 DEF Langs!Ask
    <2>2. PICK pc \in {"answered", "walk"} :
            /\ asks' = [asks EXCEPT ![c] = [asks[c] EXCEPT !.pc = pc]]
            /\ scan' \in {scan, [scan EXCEPT !.there = TRUE]}
      BY <1>4 DEF Langs!Ask, Langs!Moves
    <2>3. scan' \in Scans /\ scan'.sigs = scan.sigs /\ scan'.files = scan.files /\ scan'.keys = scan.keys
      <3> DEFINE started == [scan EXCEPT !.there = TRUE]
      <3>1. started \in Scans
        BY <1>1 DEF Scans
      <3>2. started.sigs = scan.sigs /\ started.files = scan.files /\ started.keys = scan.keys
        BY <1>1 DEF Scans
      <3> HIDE DEF started
      <3>3. scan' = scan \/ scan' = started
        BY <2>2 DEF started
      <3> QED
        BY <1>1, <3>1, <3>2, <3>3
    <2> DEFINE d == [asks[c] EXCEPT !.pc = pc]
    <2>4. d \in Asks /\ d.pc = pc
      <3>1. asks[c] \in Asks
        BY <1>1
      <3> QED
        BY <2>2, <3>1 DEF Asks
    <2> HIDE DEF d
    <2> QED
      BY <1>1, <1>2, <2>1, <2>2, <2>3, <2>4, CallerMoves DEF d
  <1>5. ASSUME NEW c \in Callers, Langs!Walk(c) PROVE LangInv'
    <2>1. asks[c].pc = "walk" /\ disk' = disk /\ scan' = scan
      BY <1>5 DEF Langs!Walk
    <2>2. CASE Langs!Moves(c, "answered")
      <3> DEFINE d == [asks[c] EXCEPT !.pc = "answered"]
      <3>1. d \in Asks /\ d.pc = "answered" /\ asks' = [asks EXCEPT ![c] = d]
        BY <1>1, <2>2, AsksMove DEF Langs!Moves
      <3> HIDE DEF d
      <3> QED
        BY <1>1, <1>2, <2>1, <3>1, CallerMoves
    <2>3. CASE asks' = [asks EXCEPT ![c] =
                 [pc |-> "parse", sigs |-> Signatures,
                  todo |-> {f \in Files : Signatures[f] # NoSig /\ ~Langs!Keeps(f)},
                  files |-> [f \in Files |-> IF Langs!Keeps(f) THEN scan.files[f] ELSE NoSig]]]
      <3> DEFINE kept == [f \in Files |-> IF Langs!Keeps(f) THEN scan.files[f] ELSE NoSig]
                 todo == {f \in Files : Signatures[f] # NoSig /\ ~Langs!Keeps(f)}
                 d == [pc |-> "parse", sigs |-> Signatures, todo |-> todo, files |-> kept]
      <3>1. kept \in Marks /\ Signatures \in Marks
        <4>1. \A f \in Files : scan.files[f] \in 0..MaxVersion
          BY <1>1 DEF Scans, Marks
        <4>2. Signatures = [f \in Files |-> Signatures[f]]
          BY DEF Signatures
        <4> QED
          BY <1>3, <4>1, <4>2, VersionBound DEF Marks, NoSig
      <3>2. \A f \in Files : kept[f] # NoSig =>
              Signatures[f] = scan.sigs[f] /\ kept[f] = scan.files[f]
        BY DiskIsShared DEF Langs!Keeps
      <3>3. Matches(Signatures, kept)
        BY <1>2, <1>3, <2>1, <3>2 DEF Matches
      <3>4. todo \in SUBSET Files /\ \A f \in todo : Signatures[f] # NoSig
        OBVIOUS
      <3> HIDE DEF kept, todo
      <3>5. d \in Asks /\ d.pc = "parse" /\ d.sigs = Signatures /\ d.files = kept /\ d.todo = todo
        BY <3>1, <3>4 DEF Asks
      <3>6. asks' = [asks EXCEPT ![c] = d]
        BY <2>3 DEF kept, todo
      <3> HIDE DEF d
      <3> QED
        BY <1>1, <1>2, <2>1, <3>3, <3>4, <3>5, <3>6, CallerMoves
    <2> QED
      BY <1>5, <2>2, <2>3, DiskIsShared DEF Langs!Walk, Langs!NoSig, NoSig
  <1>6. ASSUME NEW c \in Callers, Langs!Parse(c) PROVE LangInv'
    <2>1. asks[c].pc = "parse" /\ disk' = disk /\ scan' = scan
      BY <1>6 DEF Langs!Parse
    <2>2. PICK f \in asks[c].todo, read \in 0..MaxVersion :
            /\ read \in {Signatures[f], NoSig}
            /\ asks' = [asks EXCEPT ![c].files[f] = read, ![c].todo = asks[c].todo \ {f}]
      <3>1. \A f \in asks[c].todo : Signatures[f] \in 0..MaxVersion /\ NoSig \in 0..MaxVersion
        <4>1. asks[c].todo \subseteq Files
          BY <1>1 DEF Asks
        <4>2. NoSig \in 0..MaxVersion
          BY VersionBound DEF NoSig
        <4> QED
          BY <1>3, <4>1, <4>2
      <3>2. PICK f \in asks[c].todo : \E read \in {Signatures[f], NoSig} :
              asks' = [asks EXCEPT ![c].files[f] = read, ![c].todo = asks[c].todo \ {f}]
        BY <1>6, DiskIsShared DEF Langs!Parse, Langs!NoSig, NoSig
      <3> QED
        BY <3>1, <3>2
    <2>3. asks[c] \in Asks /\ f \in Files /\ asks[c].sigs[f] # NoSig
      BY <1>1, <2>1 DEF Asks, AskInv
    <2> DEFINE files == [asks[c].files EXCEPT ![f] = read]
               d == Parsed(asks[c], f, files)
    <2>4. \A g \in Files : asks[c].files[g] \in 0..MaxVersion /\ asks[c].sigs[g] \in 0..MaxVersion
      BY <2>3 DEF Asks, Marks
    <2>5. /\ files \in Marks /\ files[f] = read
          /\ \A g \in Files : g # f => files[g] = asks[c].files[g]
      BY <1>3, <2>2, <2>3, <2>4, VersionBound DEF Asks, Marks, NoSig
    <2>6. asks' = [asks EXCEPT ![c] = d]
      BY <1>1, <2>2, <2>3 DEF Parsed, Asks
    <2> HIDE DEF files
    <2>7. Matches(asks[c].sigs, files)
      <3>1. Matches(asks[c].sigs, asks[c].files)
        BY <1>1, <2>1 DEF AskInv
      <3> QED
        BY <1>3, <2>2, <2>3, <2>4, <2>5, <3>1 DEF Matches
    <2>8. /\ d \in Asks /\ d.pc = "parse" /\ d.sigs = asks[c].sigs /\ d.files = files
          /\ d.todo = asks[c].todo \ {f}
      BY <2>1, <2>3, <2>5, AsksHaveTheirType
    <2>9. \A g \in d.todo : d.sigs[g] # NoSig
      BY <1>1, <2>1, <2>8 DEF AskInv
    <2> HIDE DEF d
    <2> QED
      BY <1>1, <1>2, <2>1, <2>6, <2>7, <2>8, <2>9, CallerMoves
  <1>7. ASSUME NEW c \in Callers, Langs!PublishSigs(c) PROVE LangInv'
    <2> DEFINE d == [asks[c] EXCEPT !.pc = "files"]
    <2>1. /\ asks[c].pc = "parse" /\ disk' = disk /\ asks' = [asks EXCEPT ![c] = d]
          /\ scan' = [scan EXCEPT !.sigs = asks[c].sigs]
      BY <1>7 DEF Langs!PublishSigs, Langs!Moves
    <2>2. d \in Asks /\ d.pc = "files" /\ d.sigs = asks[c].sigs /\ d.files = asks[c].files
      BY <1>1, AsksMove
    <2>3. /\ scan' \in Scans /\ scan'.sigs = asks[c].sigs
          /\ scan'.files = scan.files /\ scan'.keys = scan.keys
      BY <1>1, <2>1 DEF Scans, Asks
    <2> HIDE DEF d
    <2> QED
      BY <1>1, <1>2, <2>1, <2>2, <2>3, CallerMoves DEF AskInv
  <1>8. ASSUME NEW c \in Callers, Langs!PublishFiles(c) PROVE LangInv'
    <2> DEFINE d == [asks[c] EXCEPT !.pc = "keys"]
    <2>1. /\ asks[c].pc = "files" /\ disk' = disk /\ asks' = [asks EXCEPT ![c] = d]
          /\ scan' = [scan EXCEPT !.files = asks[c].files]
      BY <1>8 DEF Langs!PublishFiles, Langs!Moves
    <2>2. d \in Asks /\ d.pc = "keys" /\ d.sigs = asks[c].sigs /\ d.files = asks[c].files
      BY <1>1, AsksMove
    <2>3. scan' \in Scans /\ scan'.sigs = scan.sigs /\ scan'.files = asks[c].files
      BY <1>1, <2>1 DEF Scans, Asks
    <2> HIDE DEF d
    <2> QED
      BY <1>1, <1>2, <2>1, <2>2, <2>3, CallerMoves DEF AskInv
  <1>9. ASSUME NEW c \in Callers, Langs!PublishKeys(c) PROVE LangInv'
    <2> DEFINE d == [asks[c] EXCEPT !.pc = "answered"]
    <2>1. /\ asks[c].pc = "keys" /\ disk' = disk /\ asks' = [asks EXCEPT ![c] = d]
          /\ scan' = Filled(scan, asks[c].files)
      BY <1>9 DEF Langs!PublishKeys, Langs!Moves, Filled
    <2>2. d \in Asks /\ d.pc = "answered"
      BY <1>1, AsksMove
    <2>3. asks[c].files \in Marks /\ scan.files = asks[c].files
      BY <1>1, <2>1 DEF Asks, AskInv
    <2>4. /\ scan' \in Scans /\ scan'.sigs = scan.sigs
          /\ scan'.files = asks[c].files /\ scan'.keys = asks[c].files
      BY <1>1, <2>1, <2>3, ScansHaveTheirType
    <2>5. Matches(scan.sigs, asks[c].files)
      BY <1>2, <2>1, <2>3
    <2> HIDE DEF d
    <2> QED
      BY <1>1, <2>1, <2>2, <2>4, <2>5, CallerMoves
  <1>10. ASSUME NEW c \in Callers, Langs!Return(c) PROVE LangInv'
    <2> DEFINE d == Langs!Resting
    <2>1. /\ asks[c].pc = "answered" /\ disk' = disk /\ scan' = scan
          /\ asks' = [asks EXCEPT ![c] = d]
      BY <1>10 DEF Langs!Return
    <2>2. d \in Asks /\ d.pc = "idle"
      BY VersionBound DEF Langs!Resting, Langs!NoRecords, Langs!NoSig, Asks, Marks
    <2> HIDE DEF d
    <2> QED
      BY <1>1, <1>2, <2>1, <2>2, CallerMoves
  <1>11. ASSUME Langs!WindowEnds PROVE LangInv'
    BY <1>11 DEF Langs!WindowEnds, LangInv, AskInv, Matches
  <1>12. ASSUME NEW f \in Files, Langs!SourceChange(f) PROVE LangInv'
    <2>1. scan' = scan /\ asks' = asks /\ (Write(f) \/ Delete(f))
      BY <1>12, DiskIsShared DEF Langs!SourceChange
    <2> QED
      BY <2>1, FilesGetNewer, EditsKeepScans
  <1> QED
    BY <1>4, <1>5, <1>6, <1>7, <1>8, <1>9, <1>10, <1>11, <1>12 DEF Langs!Next
----------------------------------------------------------------------------
(* What a behaviour of the three caches keeps.                             *)
MCInv == DiskInv /\ AstInv /\ TextInv

LEMMA DiskMoves ==
  ASSUME DiskInv, [MCNext]_allVars
  PROVE  DiskInv' /\ \A f \in Files : disk[f].ver <= disk'[f].ver
  <1>1. ASSUME disk' = disk PROVE DiskInv' /\ \A f \in Files : disk[f].ver <= disk'[f].ver
    <2>1. \A f \in Files : disk[f].ver \in Nat
      BY VersionBound DEF DiskInv
    <2> QED
      BY <1>1, <2>1 DEF DiskInv
  <1>2. CASE Next
    <2>1. disk' = disk \/ \E f \in Files : Write(f) \/ Delete(f)
      BY <1>2 DEF Next, Stat, Hit, Miss, ReadAndParse, Publish, Clear, SourceChange
    <2> QED
      BY <1>1, <2>1, FilesGetNewer
  <1>3. CASE Texts!Next
    <2>1. disk' = disk \/ \E f \in Files : Write(f) \/ Delete(f)
      BY <1>3, DiskIsShared DEF Texts!Next, Texts!Stat, Texts!Lookup, Texts!Decode, Texts!Drop,
         Texts!Store, Texts!Clear, Texts!SourceChange
    <2> QED
      BY <1>1, <2>1, FilesGetNewer
  <1>4. CASE Langs!Next
    <2>1. disk' = disk \/ \E f \in Files : Write(f) \/ Delete(f)
      BY <1>4, DiskIsShared DEF Langs!Next, Langs!Ask, Langs!Walk, Langs!Parse, Langs!Return,
         Langs!PublishSigs, Langs!PublishFiles, Langs!PublishKeys, Langs!WindowEnds, Langs!SourceChange
    <2> QED
      BY <1>1, <2>1, FilesGetNewer
  <1>5. CASE UNCHANGED allVars
    BY <1>1, <1>5 DEF allVars
  <1> QED
    BY <1>2, <1>3, <1>4, <1>5 DEF MCNext

(* A cache that a behaviour does not use stays empty, whatever the files   *)
(* do; the one it uses moves by its own steps.                             *)
LEMMA UnusedAsts ==
  ASSUME AstInv, UNCHANGED <<used, astState>>, used # "asts"
  PROVE  AstInv'
  <1>1. UNCHANGED <<cache, byPath, total, call>> /\ cache = <<>> /\ \A t \in Threads : call[t].pc = "idle"
    BY DEF AstInv, astState
  <1>2. CacheInv'
    BY <1>1 DEF AstInv, CacheInv, Past
  <1>3. CallsHold'
    BY <1>1 DEF AstInv, CallsHold, CallInv, InFlight
  <1> QED
    BY <1>1, <1>2, <1>3 DEF AstInv

LEMMA UnusedTexts ==
  ASSUME TextInv, UNCHANGED <<used, textState>>, used # "texts"
  PROVE  TextInv'
  <1>1. /\ UNCHANGED <<used, entries, bytes, reads>> /\ entries = [f \in Files |-> Texts!NoEntry]
        /\ \A r \in Readers : reads[r].pc = "idle"
    BY DEF TextInv, textState
  <1>2. TextsHold'
    BY <1>1 DEF TextInv, TextsHold, StoredInv, ReadInv, Texts!Reading
  <1>3. Texts!TextAccounting'
    BY <1>1 DEF TextInv, Texts!TextAccounting
  <1> QED
    BY <1>1, <1>2, <1>3 DEF TextInv

LEMMA InitHolds == MCInit => MCInv /\ LangInv
  <1> SUFFICES ASSUME MCInit PROVE MCInv /\ LangInv
    OBVIOUS
  <1>1. DiskInv
    BY VersionBound DEF MCInit, Init, DiskInit, DiskInv
  <1>2. AstInv
    <2>1. cache = <<>> /\ byPath = [f \in Files |-> NoKey] /\ total = 0 /\ call = [t \in Threads |-> Idle]
      BY DEF MCInit, Init
    <2>2. CharsOf(<<>>) \in [{} -> Nat]
      BY DEF CharsOf
    <2>3. TotalChars(<<>>) = 0
      BY <2>2, TotalOfNone DEF TotalChars
    <2>4. CacheInv
      BY <2>1, <2>3, LimitsAreNat DEF CacheInv, Indexed, Past
    <2>5. Idle \in Calls /\ Idle.pc = "idle"
      BY VersionBound DEF Idle, AtRest, Calls, Modes
    <2>6. CallsHold
      BY <2>1, <2>5 DEF CallsHold, CallInv, InFlight
    <2> QED
      BY <2>1, <2>4, <2>5, <2>6 DEF AstInv
  <1>3. TextInv
    <2>1. /\ entries = [f \in Files |-> Texts!NoEntry] /\ bytes = 0
          /\ reads = [r \in Readers |-> Texts!Waiting]
      BY DEF MCInit, Texts!Init
    <2>2. Texts!Waiting \in Reads /\ Texts!Waiting.pc = "idle"
      BY VersionBound DEF Texts!Waiting, Texts!AtRest, Texts!NoSig, Reads
    <2>3. Texts!NoEntry \in Stored
      BY VersionBound DEF Texts!NoEntry, Stored
    <2>4. TextsHold
      BY <2>1, <2>2, <2>3 DEF TextsHold, StoredInv, ReadInv, Texts!Reading
    <2>5. Total([f \in Files |-> Texts!CostOf(entries[f])]) = 0
      <3>1. \A f \in Files : entries[f] = Texts!NoEntry
        BY <2>1
      <3> QED
        BY <3>1, NothingCosts
    <2>6. Texts!TextAccounting
      BY <2>1, <2>5, SumsAreShared, TextLimitsAreNat DEF Texts!TextAccounting
    <2> QED
      BY <2>1, <2>2, <2>4, <2>6 DEF TextInv
  <1>4. LangInv
    <2>1. scan = Langs!NoScan /\ asks = [c \in Callers |-> Langs!Resting]
      BY DEF MCInit, Langs!Init
    <2>2. Langs!NoRecords \in Marks /\ \A f \in Files : Langs!NoRecords[f] = NoSig
      BY VersionBound DEF Langs!NoRecords, Langs!NoSig, NoSig, Marks
    <2>3. /\ scan \in Scans /\ scan.sigs = Langs!NoRecords
          /\ scan.files = Langs!NoRecords /\ scan.keys = Langs!NoRecords
      BY <2>1, <2>2 DEF Langs!NoScan, Scans
    <2>4. Langs!Resting \in Asks /\ Langs!Resting.pc = "idle"
      BY <2>2 DEF Langs!Resting, Asks
    <2>5. Matches(scan.sigs, scan.files)
      <3>1. \A f \in Files : disk[f].ver \in Nat
        BY <1>1, VersionBound DEF DiskInv
      <3>2. \A f \in Files : scan.sigs[f] = 0 /\ scan.files[f] = NoSig
        BY <2>2, <2>3 DEF NoSig
      <3>3. ASSUME NEW f \in Files PROVE scan.sigs[f] <= disk[f].ver
        <4>1. disk[f].ver \in Nat /\ scan.sigs[f] = 0
          BY <3>1, <3>2
        <4> QED
          BY <4>1
      <3> QED
        BY <3>2, <3>3 DEF Matches
    <2> QED
      BY <2>1, <2>3, <2>4, <2>5 DEF LangInv, AskInv
  <1> QED
    BY <1>1, <1>2, <1>3, <1>4 DEF MCInv

LEMMA StepsHold == MCInv /\ [MCNext]_allVars => MCInv'
  <1> SUFFICES ASSUME MCInv, [MCNext]_allVars PROVE MCInv'
    OBVIOUS
  <1>1. DiskInv'
    BY DiskMoves DEF MCInv
  <1>2. AstInv'
    <2>1. CASE used = "asts" /\ Next /\ UNCHANGED used
      BY <2>1, AstSteps DEF MCInv, AstInv
    <2>2. CASE used # "asts" /\ UNCHANGED <<used, astState>>
      BY <2>2, UnusedAsts DEF MCInv
    <2>3. CASE UNCHANGED allVars
      BY <2>3 DEF MCInv, AstInv, CacheInv, Past, CallsHold, CallInv, Signatures, allVars, astState
    <2> QED
      BY <2>1, <2>2, <2>3 DEF MCNext
  <1>3. TextInv'
    <2>1. CASE used = "texts" /\ Texts!Next /\ UNCHANGED used
      BY <2>1, TextSteps DEF MCInv, TextInv
    <2>2. CASE used # "texts" /\ UNCHANGED <<used, textState>>
      BY <2>2, UnusedTexts DEF MCInv
    <2>3. CASE UNCHANGED allVars
      BY <2>3 DEF MCInv, TextInv, TextsHold, StoredInv, ReadInv, Known, Sees, Signatures,
         Texts!TextAccounting, allVars, textState
    <2> QED
      BY <2>1, <2>2, <2>3 DEF MCNext
  <1> QED
    BY <1>1, <1>2, <1>3 DEF MCInv
----------------------------------------------------------------------------
(* Whichever cache is used, what it needs to be right holds between any    *)
(* two steps of its callers, of clear and of editors.                      *)
THEOREM Invariance == MCSpec => []MCInv
  <1>1. MCInit => MCInv
    BY InitHolds
  <1>2. MCInv /\ [MCNext]_allVars => MCInv'
    BY StepsHold
  <1> QED
    BY <1>1, <1>2, PTL DEF MCSpec

(* A cached parse is a parse: what parse_cached answers was the file's     *)
(* content at some moment of the call, however its steps interleave with   *)
(* other calls, with clear and with editors.                               *)
THEOREM ParsesAreReads == MCSpec => []AnswerWasOnDisk
  <1>1. MCInv => AnswerWasOnDisk
    BY DEF MCInv, AstInv, CallsHold, CallInv, AnswerWasOnDisk
  <1> QED
    BY <1>1, Invariance, PTL

(* The limits, the running total and the per-path index of the LRU agree   *)
(* with its entries after any sequence of hits, evictions and publications.*)
THEOREM CacheIsCounted == MCSpec => []CacheAccounting
  <1>1. ASSUME MCInv PROVE CacheAccounting
    <2>1. CacheInv
      BY <1>1 DEF MCInv, AstInv
    <2>2. \A e \in ToSet(cache) : \E i \in DOMAIN cache : e = cache[i]
      BY DEF ToSet
    <2>3. \A i \in DOMAIN cache : KeyOf(cache[i]) # NoKey
      <3> SUFFICES ASSUME NEW i \in DOMAIN cache PROVE KeyOf(cache[i]) # NoKey
        OBVIOUS
      <3>1. cache[i] \in Entries
        BY <2>1, EntriesArePlaced DEF CacheInv
      <3>2. cache[i].ver # 0
        BY <3>1, VersionBound DEF Entries
      <3> QED
        BY <3>2 DEF KeyOf, NoKey
    <2>4. ASSUME NEW f \in Files
          PROVE  IF byPath[f] = NoKey THEN \A e \in ToSet(cache) : e.path # f
                 ELSE Cached(f, byPath[f])
      BY <2>1, <2>2, <2>3 DEF CacheInv, Indexed, Cached
    <2> QED
      BY <2>1, <2>4 DEF CacheInv, Indexed, CacheAccounting
  <1>2. MCInv => CacheAccounting
    BY <1>1
  <1> QED
    BY <1>2, Invariance, PTL

(* "An older parse must not replace a newer version that finished first":  *)
(* the second stat under the lock makes it so.                             *)
THEOREM NewestWins == MCSpec => NewestParseWins
  <1> DEFINE Grows == \A f \in Files :
               byPath[f] # NoKey /\ byPath'[f] # NoKey => byPath[f].ver <= byPath'[f].ver
  <1>1. ASSUME MCInv, [MCNext]_allVars PROVE [Grows]_vars
    <2>1. CASE used = "asts" /\ Next
      BY <1>1, <2>1, AstSteps DEF MCInv, AstInv
    <2>2. CASE UNCHANGED byPath
      BY <1>1, <2>2 DEF MCInv, AstInv, CacheInv, Key
    <2> QED
      BY <1>1, <2>1, <2>2 DEF MCNext, astState, allVars
  <1>2. MCInv /\ [MCNext]_allVars => [Grows]_vars
    BY <1>1
  <1> QED
    BY <1>2, Invariance, PTL DEF MCSpec, NewestParseWins

(* A decoded text was on disk during the read that returns it, although    *)
(* its stamp may be older; and the bytes counted are those held.           *)
THEOREM TextsAreReads == MCSpec => []TextsAreGenuine
  <1>1. MCInv => TextsAreGenuine
    BY DEF MCInv, TextInv, TextsHold, ReadInv, TextsAreGenuine, Texts!TextWasOnDisk
  <1> QED
    BY <1>1, Invariance, PTL

(* With one caller at a time, a scan that nobody is filling holds only     *)
(* what the next walk will rightly take as unchanged.                      *)
THEOREM ScansSettle == ASSUME Alone PROVE MCSpec => []LangSettles
  <1>1. MCInit => LangInv
    BY InitHolds
  <1>2. MCInv /\ LangInv /\ [MCNext]_allVars => LangInv'
    <2> SUFFICES ASSUME MCInv, LangInv, [MCNext]_allVars PROVE LangInv'
      OBVIOUS
    <2>1. DiskInv /\ DiskInv' /\ \A f \in Files : disk[f].ver <= disk'[f].ver
      BY DiskMoves DEF MCInv
    <2>2. CASE Langs!Next
      BY <2>1, <2>2, LangSteps
    <2>3. CASE UNCHANGED <<scan, asks>>
      BY <2>1, <2>3, EditsKeepScans
    <2> QED
      BY <2>2, <2>3 DEF MCNext, langState, allVars
  <1>3. ASSUME MCInv, LangInv PROVE LangSettles
    <2> SUFFICES ASSUME \A c \in Callers : asks[c].pc = "idle"
                 PROVE  /\ \A f \in Files : scan.sigs[f] = Signatures[f] =>
                                              scan.files[f] \in {Signatures[f], NoSig}
                        /\ scan.keys = scan.files
      BY DiskIsShared DEF LangSettles, Langs!LangSettles, Langs!NoSig, NoSig
    <2>1. Matches(scan.sigs, scan.files) /\ scan.keys = scan.files
      BY <1>3 DEF LangInv
    <2>2. ASSUME NEW f \in Files, scan.sigs[f] = Signatures[f], scan.files[f] # NoSig
          PROVE  scan.files[f] = Signatures[f]
      <3>1. Signatures[f] = disk[f].ver /\ disk[f].ver \in Nat /\ scan.files[f] \in Nat
        BY <1>3, <2>1, <2>2, SignaturesAreVersions, VersionBound
           DEF Matches, LangInv, Scans, Marks, MCInv
      <3> QED
        BY <2>1, <2>2, <3>1 DEF Matches
    <2> QED
      BY <2>1, <2>2
  <1>4. MCInv /\ LangInv => LangSettles
    BY <1>3
  <1> QED
    BY <1>1, <1>2, <1>4, Invariance, PTL DEF MCSpec
=============================================================================
