--------------------------- MODULE FileListProofs ---------------------------
(***************************************************************************)
(* Proofs about FileList for every source tree, every order of its         *)
(* directories and every set of options: the stable sort is a permutation  *)
(* and moves nothing in a sorted list; the decoder's entries are the       *)
(* encoder's; an index means the same file to both sides; every name is    *)
(* put in place; the walk lists exactly what is to be listed.              *)
(***************************************************************************)
EXTENDS FileList, SequenceTheorems, FiniteSetTheorems, WellFoundedInduction, TLAPS

-----------------------------------------------------------------------------
(* The order of names.                                                     *)

\* A nonempty set of natural numbers has a least element.
LEMMA Least ==
    ASSUME NEW T \in SUBSET Nat, T # {}
    PROVE  \E x \in T : \A y \in T : x <= y
<1> DEFINE I == {0..x : x \in T}
           R == StrictSubsetOrdering(Nat)
<1>1. IsWellFoundedOn(R, FiniteSubsetsOf(Nat))
  BY FS_StrictSubsetOrderingWellFounded
<1>2. I \subseteq FiniteSubsetsOf(Nat)
  <2> SUFFICES ASSUME NEW x \in T PROVE 0..x \in FiniteSubsetsOf(Nat)
    OBVIOUS
  <2> QED BY FS_Interval DEF FiniteSubsetsOf
<1>3. PICK i \in I : \A j \in I : ~(<<j, i>> \in R)
  <2>1. I # {}
    OBVIOUS
  <2> HIDE DEF I, R
  <2> QED BY <1>1, <1>2, <2>1, WFMin
<1>4. PICK x \in T : i = 0..x
  OBVIOUS
<1>5. ASSUME NEW y \in T PROVE x <= y
  <2> SUFFICES ASSUME y < x PROVE FALSE
    OBVIOUS
  <2>1. 0..y \subseteq 0..x /\ x \notin 0..y /\ x \in 0..x
    OBVIOUS
  <2>2. <<0..y, 0..x>> \in R
    BY <2>1 DEF StrictSubsetOrdering
  <2> QED BY <1>3, <1>4, <2>2
<1> QED BY <1>5

Pairs == {Item, Path} \X (0..255)

\* A key: pairs of a type and a byte, and no byte but at the end.
IsKey(k) ==
    /\ k \in Seq(Pairs) /\ k # <<>>
    /\ k[Len(k)] = <<Item, 0>>
    /\ \A i \in 1..(Len(k) - 1) : k[i][2] # 0

LexLess(k, l) ==
    \E i \in DOMAIN k \cap DOMAIN l :
        Smaller(k[i], l[i]) /\ \A j \in 1..(i - 1) : k[j] = l[j]

\* A pair is compared by two numbers, and determined by them.
LEMMA PairFacts ==
    /\ \A x \in Pairs : x[1] \in Int /\ x[2] \in Int
    /\ \A x, y \in Pairs : x[1] = y[1] /\ x[2] = y[2] => x = y
  BY DEF Pairs, Item, Path

\* A byte of a key that belongs to a name is not the byte that ends it.
LEMMA ByteFact == \A x \in {Item, Path} \X Bytes : x[2] # 0
  BY DEF Bytes, Item, Path

\* The elements of a key.
LEMMA KeyFacts ==
    ASSUME NEW k, IsKey(k)
    PROVE  /\ Len(k) \in Nat /\ Len(k) > 0 /\ DOMAIN k = 1..Len(k)
           /\ \A i \in 1..Len(k) : k[i] \in Pairs
  BY DEF IsKey

\* The order of keys is transitive.
LEMMA LexTransitive ==
    ASSUME NEW k, NEW l, NEW m, IsKey(k), IsKey(l), IsKey(m), LexLess(k, l), LexLess(l, m)
    PROVE  LexLess(k, m)
<1>1. PICK i \in DOMAIN k \cap DOMAIN l :
          Smaller(k[i], l[i]) /\ \A j \in 1..(i - 1) : k[j] = l[j]
  BY DEF LexLess
<1>2. PICK h \in DOMAIN l \cap DOMAIN m :
          Smaller(l[h], m[h]) /\ \A j \in 1..(h - 1) : l[j] = m[j]
  BY DEF LexLess
<1>3. i \in 1..Len(k) /\ i \in 1..Len(l) /\ h \in 1..Len(l) /\ h \in 1..Len(m)
  BY KeyFacts
<1>4. k[i] \in Pairs /\ l[i] \in Pairs /\ l[h] \in Pairs /\ m[h] \in Pairs
  BY <1>3, KeyFacts
<1> DEFINE N == Len(k) \in Nat /\ Len(l) \in Nat /\ Len(m) \in Nat
               /\ DOMAIN k = 1..Len(k) /\ DOMAIN l = 1..Len(l) /\ DOMAIN m = 1..Len(m)
<1>n. N
  BY KeyFacts
<1>5. CASE i < h
  <2>1. i \in DOMAIN m /\ m[i] = l[i] /\ \A j \in 1..(i - 1) : k[j] = m[j]
    BY <1>1, <1>2, <1>3, <1>5, <1>n
  <2> QED BY <2>1, <1>1 DEF LexLess
<1>6. CASE h < i
  <2>1. h \in DOMAIN k /\ k[h] = l[h] /\ \A j \in 1..(h - 1) : k[j] = m[j]
    BY <1>1, <1>2, <1>3, <1>6, <1>n
  <2> QED BY <2>1, <1>2 DEF LexLess
<1>7. CASE i = h
  <2>1. Smaller(k[i], m[i])
    BY <1>1, <1>2, <1>4, <1>7, PairFacts DEF Smaller
  <2>2. \A j \in 1..(i - 1) : k[j] = m[j]
    BY <1>1, <1>2, <1>7
  <2> QED BY <2>1, <2>2, <1>3, <1>7, <1>n DEF LexLess
<1> QED BY <1>3, <1>5, <1>6, <1>7

\* No key is before itself.
LEMMA LexIrreflexive ==
    ASSUME NEW k, IsKey(k)
    PROVE  ~LexLess(k, k)
  BY KeyFacts, PairFacts DEF LexLess, Smaller

\* Keys of which neither is smaller are equal: no key is the beginning of
\* another one.
LEMMA LexTotal ==
    ASSUME NEW k, NEW l, IsKey(k), IsKey(l), ~LexLess(k, l), ~LexLess(l, k)
    PROVE  k = l
<1> DEFINE D == {i \in DOMAIN k \cap DOMAIN l : k[i] # l[i]}
<1>1. DOMAIN k = 1..Len(k) /\ DOMAIN l = 1..Len(l) /\ Len(k) \in Nat /\ Len(l) \in Nat
      /\ Len(k) > 0 /\ Len(l) > 0
  BY KeyFacts
<1>2. CASE D # {}
  <2>1. D \in SUBSET Nat
    BY <1>1
  <2>2. PICK i \in D : \A j \in D : i <= j
    BY <2>1, <1>2, Least
  <2>3. i \in 1..Len(k) /\ i \in 1..Len(l) /\ k[i] # l[i]
    BY <1>1
  <2>4. \A j \in 1..(i - 1) : k[j] = l[j]
    <3> SUFFICES ASSUME NEW j \in 1..(i - 1), k[j] # l[j] PROVE FALSE
      OBVIOUS
    <3>1. j \in D
      BY <1>1, <2>3
    <3> QED BY <3>1, <2>2, <2>3
  <2>5. k[i] \in Pairs /\ l[i] \in Pairs
    BY <2>3, KeyFacts
  <2>6. Smaller(k[i], l[i]) \/ Smaller(l[i], k[i])
    BY <2>3, <2>5, PairFacts DEF Smaller
  <2> QED BY <2>3, <2>4, <2>6, <1>1 DEF LexLess
<1>3. CASE D = {}
  <2>1. \A i \in DOMAIN k \cap DOMAIN l : k[i] = l[i]
    BY <1>3
  <2>2. ~(Len(k) < Len(l))
    <3> SUFFICES ASSUME Len(k) < Len(l) PROVE FALSE
      OBVIOUS
    <3>1. l[Len(k)] = <<Item, 0>>
      <4>1. Len(k) \in DOMAIN k \cap DOMAIN l
        BY <1>1
      <4> QED BY <4>1, <2>1 DEF IsKey
    <3>2. Len(k) \in 1..(Len(l) - 1)
      BY <1>1
    <3> QED BY <3>1, <3>2 DEF IsKey
  <2>3. ~(Len(l) < Len(k))
    <3> SUFFICES ASSUME Len(l) < Len(k) PROVE FALSE
      OBVIOUS
    <3>1. k[Len(l)] = <<Item, 0>>
      <4>1. Len(l) \in DOMAIN k \cap DOMAIN l
        BY <1>1
      <4> QED BY <4>1, <2>1 DEF IsKey
    <3>2. Len(l) \in 1..(Len(k) - 1)
      BY <1>1
    <3> QED BY <3>1, <3>2 DEF IsKey
  <2>4. Len(k) = Len(l)
    <3>1. Len(k) \in Nat /\ Len(l) \in Nat
      BY <1>1
    <3> HIDE DEF D
    <3> QED BY <3>1, <2>2, <2>3
  <2>5. k \in Seq(Pairs) /\ l \in Seq(Pairs)
    BY DEF IsKey
  <2> QED BY <2>1, <2>4, <2>5, <1>1, SeqEqual
<1> QED BY <1>2, <1>3

\* Whatever has a name and a type has a key.
LEMMA KeyIsKey ==
    ASSUME NEW e, e.name \in Seq(Bytes), e.type \in Types
    PROVE  IsKey(Key(e))
<1> DEFINE n == e.name
           L == LastSlash(n)
           t == IF e.type = "dir" THEN Path ELSE Item
           base == Basename(n)
           dir == SubSeq(n, 1, L)
           B == {Item, Path} \X Bytes
           D == Typed(Path, dir)
           R == IF t = Path /\ base = Dot THEN <<>>
                ELSE Typed(t, IF t = Path THEN Append(base, Slash) ELSE base)
<1>1. L \in 0..Len(n)
  <2>1. CASE Slashes(n) = {}
    BY <2>1 DEF LastSlash
  <2>2. CASE Slashes(n) # {}
    <3> DEFINE U == {Len(n) - i : i \in Slashes(n)}
    <3>1. Slashes(n) \subseteq 1..Len(n)
      BY DEF Slashes
    <3>2. U \in SUBSET Nat /\ U # {}
      BY <3>1, <2>2
    <3>3. PICK u \in U : \A v \in U : u <= v
      BY <3>2, Least
    <3>4. PICK i \in Slashes(n) : u = Len(n) - i
      OBVIOUS
    <3>5. \A j \in Slashes(n) : j <= i
      <4> SUFFICES ASSUME NEW j \in Slashes(n) PROVE j <= i
        OBVIOUS
      <4>1. Len(n) - j \in U
        OBVIOUS
      <4>2. u <= Len(n) - j
        BY <4>1, <3>3
      <4> QED BY <4>2, <3>1, <3>4
    <3>6. L \in Slashes(n)
      BY <2>2, <3>4, <3>5 DEF LastSlash
    <3> QED BY <3>6, <3>1
  <2> QED BY <2>1, <2>2
<1>2. dir \in Seq(Bytes) /\ base \in Seq(Bytes)
  BY <1>1 DEF Basename
<1>3. Append(base, Slash) \in Seq(Bytes)
  BY <1>2 DEF Slash, Bytes
<1>4. ASSUME NEW s \in Seq(Bytes), NEW x \in {Item, Path} PROVE Typed(x, s) \in Seq(B)
  <2>1. DOMAIN s = 1..Len(s) /\ Len(s) \in Nat /\ \A i \in 1..Len(s) : s[i] \in Bytes
    OBVIOUS
  <2>2. \A i \in 1..Len(s) : <<x, s[i]>> \in B
    BY <2>1
  <2> QED BY <2>1, <2>2, IsASeq DEF Typed
<1>5. t \in {Item, Path}
  OBVIOUS
<1>6. D \in Seq(B) /\ R \in Seq(B)
  <2>1. D \in Seq(B)
    BY <1>2, <1>4
  <2>2. (IF t = Path THEN Append(base, Slash) ELSE base) \in Seq(Bytes)
    BY <1>2, <1>3
  <2>3. Typed(t, IF t = Path THEN Append(base, Slash) ELSE base) \in Seq(B)
    BY <2>2, <1>4, <1>5
  <2> QED BY <2>1, <2>3
<1>7. Key(e) = (D \o R) \o << <<Item, 0>> >>
  BY DEF Key
<1>8. D \o R \in Seq(B)
  BY <1>6
<1> DEFINE s == D \o R
<1>9. s \in Seq(Pairs)
  BY <1>8 DEF Pairs, Bytes
<1>10. Key(e) = Append(s, <<Item, 0>>) /\ <<Item, 0>> \in Pairs
  <2>1. <<Item, 0>> \in Pairs
    BY DEF Pairs
  <2>2. s \o << <<Item, 0>> >> = Append(s, <<Item, 0>>)
    BY <2>1, <1>9, AppendIsConcat
  <2> QED BY <2>1, <2>2, <1>7
<1>11. \A i \in 1..Len(s) : s[i] \in B
  BY <1>8, ElementOfSeq
<1> HIDE DEF s, D, R
<1>12. \A i \in 1..Len(s) : s[i][2] # 0
  <2> HIDE DEF B
  <2>1. \A x \in B : x[2] # 0
    BY ByteFact DEF B
  <2> QED BY <2>1, <1>11
<1>13. /\ Append(s, <<Item, 0>>) \in Seq(Pairs)
       /\ Len(Append(s, <<Item, 0>>)) = Len(s) + 1
       /\ \A i \in 1..Len(s) : Append(s, <<Item, 0>>)[i] = s[i]
       /\ Append(s, <<Item, 0>>)[Len(s) + 1] = <<Item, 0>>
       /\ Len(s) \in Nat
  BY <1>9, <1>10
<1> QED BY <1>10, <1>12, <1>13 DEF IsKey

-----------------------------------------------------------------------------
(* The sort.                                                               *)

\* A list all of whose entries have a name and a type.
Sortable(list) ==
    /\ DOMAIN list = 1..Len(list) /\ Len(list) \in Nat
    /\ \A i \in DOMAIN list : list[i].name \in Seq(Bytes) /\ list[i].type \in Types

\* Of two entries exactly one sorts before the other, and the order is
\* transitive.
LEMMA SortsBeforeOrder ==
    ASSUME NEW list, Sortable(list), NEW i \in DOMAIN list, NEW j \in DOMAIN list,
           NEW h \in DOMAIN list
    PROVE  /\ ~SortsBefore(list, i, i)
           /\ i # j => (SortsBefore(list, i, j) <=> ~SortsBefore(list, j, i))
           /\ SortsBefore(list, i, j) /\ SortsBefore(list, j, h) => SortsBefore(list, i, h)
<1> DEFINE K(x) == Key(list[x])
<1>1. i \in Nat /\ j \in Nat /\ h \in Nat
  BY DEF Sortable
<1>2. IsKey(K(i)) /\ IsKey(K(j)) /\ IsKey(K(h))
  BY KeyIsKey DEF Sortable
<1>3. ASSUME NEW x, NEW y PROVE file_compare(list[x], list[y]) = LexLess(K(x), K(y))
  BY DEF file_compare, LexLess
<1>4. ASSUME NEW x, NEW y
      PROVE  SortsBefore(list, x, y) <=> LexLess(K(x), K(y)) \/ (x < y /\ ~LexLess(K(y), K(x)))
  BY <1>3 DEF SortsBefore
<1> HIDE DEF K
<1>5. ~LexLess(K(i), K(i))
  BY <1>2, LexIrreflexive
<1>6. ASSUME NEW x \in {i, j, h}, NEW y \in {i, j, h}, LexLess(K(x), K(y))
      PROVE  ~LexLess(K(y), K(x))
  BY <1>2, <1>6, LexTransitive, LexIrreflexive
<1>7. ASSUME NEW x \in {i, j, h}, NEW y \in {i, j, h},
             ~LexLess(K(x), K(y)), ~LexLess(K(y), K(x))
      PROVE  K(x) = K(y)
  BY <1>2, <1>7, LexTotal
<1>8. ~SortsBefore(list, i, i)
  BY <1>1, <1>4, <1>5
<1>9. i # j => (SortsBefore(list, i, j) <=> ~SortsBefore(list, j, i))
  <2>1. CASE LexLess(K(i), K(j))
    BY <2>1, <1>1, <1>4, <1>6
  <2>2. CASE LexLess(K(j), K(i))
    BY <2>2, <1>1, <1>4, <1>6
  <2>3. CASE ~LexLess(K(i), K(j)) /\ ~LexLess(K(j), K(i))
    BY <2>3, <1>1, <1>4
  <2> QED BY <2>1, <2>2, <2>3
<1>10. ASSUME SortsBefore(list, i, j), SortsBefore(list, j, h) PROVE SortsBefore(list, i, h)
  <2>1. CASE LexLess(K(i), K(j)) /\ LexLess(K(j), K(h))
    BY <2>1, <1>2, <1>4, LexTransitive
  <2>2. CASE LexLess(K(i), K(j)) /\ ~LexLess(K(j), K(h))
    <3>1. K(j) = K(h)
      BY <2>2, <1>10, <1>4, <1>7
    <3> QED BY <3>1, <2>2, <1>4
  <2>3. CASE ~LexLess(K(i), K(j)) /\ LexLess(K(j), K(h))
    <3>1. K(i) = K(j)
      BY <2>3, <1>10, <1>4, <1>7
    <3> QED BY <3>1, <2>3, <1>4
  <2>4. CASE ~LexLess(K(i), K(j)) /\ ~LexLess(K(j), K(h))
    <3>1. K(i) = K(j) /\ K(j) = K(h) /\ i < j /\ j < h
      BY <2>4, <1>10, <1>4, <1>7
    <3>2. ~LexLess(K(h), K(i)) /\ i < h
      BY <3>1, <1>1, <1>5
    <3> QED BY <3>2, <1>4
  <2> QED BY <2>1, <2>2, <2>3, <2>4
<1> QED BY <1>8, <1>9, <1>10

\* Ranks are places of the list, and follow the order.
LEMMA RankFacts ==
    ASSUME NEW list, Sortable(list)
    PROVE  /\ \A i \in DOMAIN list : Rank(list, i) \in DOMAIN list
           /\ \A i, j \in DOMAIN list : SortsBefore(list, i, j) => Rank(list, i) < Rank(list, j)
           /\ \A i, j \in DOMAIN list : Rank(list, i) = Rank(list, j) => i = j
<1> DEFINE S(i) == {j \in DOMAIN list : SortsBefore(list, j, i)}
<1>1. IsFiniteSet(DOMAIN list) /\ Cardinality(DOMAIN list) = Len(list) /\ Len(list) \in Nat
  BY FS_Interval, SMTT(40) DEF Sortable
<1>2. ASSUME NEW i \in DOMAIN list
      PROVE  IsFiniteSet(S(i)) /\ Cardinality(S(i)) \in Nat /\ Rank(list, i) = 1 + Cardinality(S(i))
  <2>1. S(i) \in SUBSET DOMAIN list
    OBVIOUS
  <2> HIDE DEF S
  <2>2. IsFiniteSet(S(i))
    BY <2>1, <1>1, FS_Subset
  <2>3. Cardinality(S(i)) \in Nat
    BY <2>2, FS_CardinalityType
  <2> QED BY <2>2, <2>3 DEF Rank, S
<1>3. ASSUME NEW i \in DOMAIN list PROVE Rank(list, i) \in DOMAIN list
  <2>1. i \notin S(i) /\ S(i) \in SUBSET DOMAIN list
    BY SortsBeforeOrder
  <2> HIDE DEF S
  <2>2. Cardinality(S(i)) <= Len(list) /\ (Len(list) = Cardinality(S(i)) => DOMAIN list = S(i))
    BY <2>1, <1>1, FS_Subset
  <2>3. Cardinality(S(i)) < Len(list)
    BY <2>1, <2>2, <1>1, <1>2
  <2> QED BY <2>3, <1>1, <1>2 DEF Sortable
<1>4. ASSUME NEW i \in DOMAIN list, NEW j \in DOMAIN list, SortsBefore(list, i, j)
      PROVE  Rank(list, i) < Rank(list, j)
  <2>1. S(i) \in SUBSET S(j)
    BY <1>4, SortsBeforeOrder
  <2>2. i \in S(j) /\ i \notin S(i)
    BY <1>4, SortsBeforeOrder
  <2> HIDE DEF S
  <2>3. Cardinality(S(i)) <= Cardinality(S(j))
        /\ (Cardinality(S(j)) = Cardinality(S(i)) => S(j) = S(i))
    BY <2>1, <1>2, FS_Subset
  <2> QED BY <2>2, <2>3, <1>2
<1>5. ASSUME NEW i \in DOMAIN list, NEW j \in DOMAIN list, Rank(list, i) = Rank(list, j)
      PROVE  i = j
  <2> SUFFICES ASSUME i # j PROVE FALSE
    OBVIOUS
  <2>1. SortsBefore(list, i, j) \/ SortsBefore(list, j, i)
    BY SortsBeforeOrder
  <2> HIDE DEF S
  <2>2. Rank(list, i) \in Nat /\ Rank(list, j) \in Nat
    BY <1>2
  <2> QED BY <2>1, <2>2, <1>4, <1>5
<1> QED BY <1>3, <1>4, <1>5

\* Every place of the sorted list is some entry's rank: the sort loses and
\* repeats nothing.
LEMMA OriginFacts ==
    ASSUME NEW list, Sortable(list)
    PROVE  /\ \A r \in DOMAIN list : Origin(list, r) \in DOMAIN list
                                     /\ Rank(list, Origin(list, r)) = r
           /\ \A i \in DOMAIN list : Origin(list, Rank(list, i)) = i
<1> DEFINE D == DOMAIN list
           f == [i \in D |-> Rank(list, i)]
<1>1. IsFiniteSet(D)
  BY FS_Interval DEF Sortable
<1>2. f \in Injection(D, D)
  BY RankFacts DEF Injection, IsInjective
<1>3. f \in Surjection(D, D)
  <2> HIDE DEF D, f
  <2> QED BY <1>1, <1>2, FS_Injection
<1>4. \A r \in D : \E i \in D : Rank(list, i) = r
  BY <1>3 DEF Surjection
<1>5. \A r \in D : Origin(list, r) \in D /\ Rank(list, Origin(list, r)) = r
  BY <1>4 DEF Origin
<1>6. ASSUME NEW i \in D PROVE Origin(list, Rank(list, i)) = i
  BY <1>5, RankFacts
<1> QED BY <1>5, <1>6

\* Sorting what is sorted moves nothing.
LEMMA SortOfSorted ==
    ASSUME NEW list, Sortable(list),
           \A i, j \in DOMAIN list : i < j => ~file_compare(list[j], list[i])
    PROVE  \A i \in DOMAIN list : Rank(list, i) = i /\ Origin(list, i) = i
<1>1. ASSUME NEW i \in DOMAIN list PROVE Rank(list, i) = i
  <2>1. DOMAIN list = 1..Len(list) /\ Len(list) \in Nat
    BY DEF Sortable
  <2>2. ASSUME NEW j \in DOMAIN list, j < i PROVE SortsBefore(list, j, i)
    BY <2>2 DEF SortsBefore
  <2>3. ASSUME NEW j \in DOMAIN list, ~(j < i) PROVE ~SortsBefore(list, j, i)
    <3>1. CASE j = i
      BY <3>1, SortsBeforeOrder
    <3>2. CASE j # i
      <4>1. i < j
        BY <3>2, <2>1, <2>3
      <4>2. SortsBefore(list, i, j)
        BY <4>1 DEF SortsBefore
      <4> QED BY <4>2, <3>2, SortsBeforeOrder
    <3> QED BY <3>1, <3>2
  <2>4. {j \in DOMAIN list : SortsBefore(list, j, i)} = 1..(i - 1)
    <3>1. \A j : j \in 1..(i - 1) <=> j \in DOMAIN list /\ j < i
      BY <2>1
    <3> QED BY <3>1, <2>2, <2>3
  <2>5. Cardinality(1..(i - 1)) = i - 1
    BY <2>1, FS_Interval
  <2>6. Rank(list, i) = 1 + Cardinality(1..(i - 1))
    BY <2>4 DEF Rank
  <2>7. i \in Nat
    BY <2>1
  <2> QED BY <2>5, <2>6, <2>7
<1> QED BY <1>1, OriginFacts

\* What the sort returns is sorted.
LEMMA SortSorts ==
    ASSUME NEW list, Sortable(list)
    PROVE  /\ DOMAIN flist_sort(list) = DOMAIN list
           /\ \A r \in DOMAIN list : flist_sort(list)[r] = list[Origin(list, r)]
           /\ \A r, s \in DOMAIN list :
                r < s => ~file_compare(flist_sort(list)[s], flist_sort(list)[r])
<1>1. /\ DOMAIN flist_sort(list) = DOMAIN list
      /\ \A r \in DOMAIN list : flist_sort(list)[r] = list[Origin(list, r)]
  BY DEF flist_sort
<1>2. ASSUME NEW r \in DOMAIN list, NEW s \in DOMAIN list, r < s,
             file_compare(list[Origin(list, s)], list[Origin(list, r)])
      PROVE  FALSE
  <2>1. SortsBefore(list, Origin(list, s), Origin(list, r))
    BY <1>2 DEF SortsBefore
  <2>2. s < r
    BY <2>1, RankFacts, OriginFacts
  <2>3. r \in Nat /\ s \in Nat
    BY DEF Sortable
  <2> QED BY <2>2, <2>3, <1>2
<1> QED BY <1>1, <1>2

-----------------------------------------------------------------------------
(* An entry across the wire.                                               *)

\* Disambiguation touches two bits only, and leaves no flags that could be
\* taken for the end of the list.
LEMMA FlagFacts ==
    ASSUME NEW e, NEW prev, NEW k, NEW d \in BOOLEAN, opt.varint \in BOOLEAN
    PROVE  LET F == XFlags(e, prev, k)
               G == Disambiguated(F, d)
           IN  /\ \A b \in {SAME_MODE, SAME_UID, SAME_TIME, HLINKED, HLINK_FIRST} :
                    b \in G <=> b \in F
               /\ ~IsEnd(G)
<1> DEFINE F == XFlags(e, prev, k)
           G == Disambiguated(F, d)
<1>1. HLINK_FIRST \in F => HLINKED \in F
  BY DEF XFlags, When, Member, HLINK_FIRST, HLINKED, SAME_NAME, LONG_NAME, SAME_MODE,
         SAME_TIME, SAME_UID, TOP_DIR
<1> HIDE DEF F
<1> USE DEF HLINK_FIRST, HLINKED, SAME_MODE, SAME_TIME, SAME_UID, TOP_DIR, EXTENDED,
            IO_ERROR_ENDLIST
<1>2. \A b \in {SAME_MODE, SAME_UID, SAME_TIME, HLINKED, HLINK_FIRST} : b \in G <=> b \in F
  BY DEF Disambiguated
<1>3. G # {}
  BY DEF Disambiguated
<1>4. ~opt.varint => G # {EXTENDED, IO_ERROR_ENDLIST}
  BY <1>1, <1>2
<1> QED BY <1>2, <1>3, <1>4 DEF IsEnd, F

\* The flags of an entry say what they should.
LEMMA FlagMeaning ==
    ASSUME NEW e, NEW prev, NEW k
    PROVE  LET F == XFlags(e, prev, k)
           IN  /\ SAME_MODE \in F <=> prev # <<>> /\ e.type = prev[1].type /\ e.perm = prev[1].perm
               /\ SAME_TIME \in F <=> ~opt.times \/ (prev # <<>> /\ e.mtime = prev[1].mtime)
               /\ SAME_UID \in F <=> ~opt.owner \/ (prev # <<>> /\ e.uid = prev[1].uid)
               /\ HLINKED \in F <=> Member(e)
               /\ HLINK_FIRST \in F <=> e.leader /\ opt.protocol >= 30
<1> USE DEF HLINK_FIRST, HLINKED, SAME_NAME, LONG_NAME, SAME_MODE, SAME_TIME, SAME_UID, TOP_DIR
<1> QED BY DEF XFlags, When

\* The shared beginning and the rest make the name again.
LEMMA NameRebuilt ==
    ASSUME NEW a \in Seq(Bytes), NEW b \in Seq(Bytes), NEW k \in Nat, SharedLen(a, b, k)
    PROVE  SubSeq(b, 1, k) \o SubSeq(a, k + 1, Len(a)) = a
<1>1. k <= Len(a) /\ k <= Len(b) /\ \A i \in 1..k : a[i] = b[i]
  BY DEF SharedLen
<1>2. SubSeq(b, 1, k) = SubSeq(a, 1, k)
  <2>1. SubSeq(a, 1, k) \in Seq(Bytes) /\ SubSeq(b, 1, k) \in Seq(Bytes)
        /\ Len(SubSeq(a, 1, k)) = k /\ Len(SubSeq(b, 1, k)) = k
        /\ \A i \in 1..k : SubSeq(a, 1, k)[i] = a[i] /\ SubSeq(b, 1, k)[i] = b[i]
    BY <1>1
  <2> QED BY <2>1, <1>1, SeqEqual
<1>3. SubSeq(a, 1, k) \o SubSeq(a, k + 1, Len(a)) = SubSeq(a, 1, Len(a))
  <2>1. 1 \in 1..(Len(a) + 1) /\ k \in (1 - 1)..Len(a) /\ Len(a) \in k..Len(a)
    BY <1>1
  <2> QED BY <2>1, ConcatAdjacentSubSeq
<1>4. SubSeq(a, 1, Len(a)) = a
  BY SubSeqFull
<1> QED BY <1>2, <1>3, <1>4

\* What the receiver inherits from: the decoded predecessor, if there is one.
Inherited(prev) == IF prev = <<>> THEN Default ELSE Received(prev[1])

\* Decoding inverts encoding for an entry that is no follower.
LEMMA DecodeEncode ==
    ASSUME NEW e \in Entries, NEW prev, prev = <<>> \/ prev[1] \in Entries,
           NEW k \in Nat, NEW list, opt \in Options,
           SharedLen(e.name, PrevName(prev), k), ~Follower(e), e.leader => e.first = 0
    PROVE  LET m == send_file_entry(e, prev, k)
           IN  /\ recv_file_entry(m, Inherited(prev), list) = Received(e)
               /\ ~IsFollower(m) /\ ~IsEnd(m.flags)
               /\ Mode(m, Inherited(prev)) = <<e.type, e.perm>>
               /\ DOMAIN m.f = FieldsWritten(e, m.flags)
<1> DEFINE F == XFlags(e, prev, k)
           G == Disambiguated(F, e.type = "dir")
           m == send_file_entry(e, prev, k)
           p == Inherited(prev)
           W == FieldsWritten(e, G)
<1>1. m.flags = G /\ m.same = k /\ m.rest = SubSeq(e.name, k + 1, Len(e.name))
      /\ m.f = [x \in W |-> Value(e)[x]]
  BY DEF send_file_entry
<1>2. /\ \A b \in {SAME_MODE, SAME_UID, SAME_TIME, HLINKED, HLINK_FIRST} : b \in G <=> b \in F
      /\ ~IsEnd(G)
  <2>1. opt.varint \in BOOLEAN /\ (e.type = "dir") \in BOOLEAN
    BY DEF Options
  <2> QED BY <2>1, FlagFacts
<1>3. /\ SAME_MODE \in G <=> prev # <<>> /\ e.type = prev[1].type /\ e.perm = prev[1].perm
      /\ SAME_TIME \in G <=> ~opt.times \/ (prev # <<>> /\ e.mtime = prev[1].mtime)
      /\ SAME_UID \in G <=> ~opt.owner \/ (prev # <<>> /\ e.uid = prev[1].uid)
      /\ HLINKED \in G <=> Member(e)
      /\ HLINK_FIRST \in G <=> e.leader /\ opt.protocol >= 30
  BY <1>2, FlagMeaning
<1>4. ~IsFollower(m)
  BY <1>1, <1>3 DEF IsFollower, Member, Follower
<1>5. /\ "time" \in W <=> SAME_TIME \notin G
      /\ "mode" \in W <=> SAME_MODE \notin G
      /\ "uid" \in W <=> opt.owner /\ SAME_UID \notin G
  BY DEF FieldsWritten, When
<1>6. p.name = PrevName(prev) /\ PrevName(prev) \in Seq(Bytes)
  BY DEF Inherited, PrevName, Default, Received, Entries
<1>7. SubSeq(p.name, 1, m.same) \o m.rest = e.name
  <2>1. e.name \in Seq(Bytes)
    BY DEF Entries
  <2>2. SubSeq(PrevName(prev), 1, k) \o SubSeq(e.name, k + 1, Len(e.name)) = e.name
    BY <2>1, <1>6, NameRebuilt
  <2> QED BY <2>2, <1>1, <1>6
<1>8. Value(e)["mode"] = <<e.type, e.perm>> /\ Value(e)["time"] = e.mtime /\ Value(e)["uid"] = e.uid
  BY DEF Value
<1>9. Mode(m, p) = <<e.type, e.perm>>
  <2>1. CASE SAME_MODE \in G
    BY <2>1, <1>1, <1>3 DEF Mode, Inherited, Received
  <2>2. CASE SAME_MODE \notin G
    BY <2>2, <1>1, <1>5, <1>8 DEF Mode
  <2> QED BY <2>1, <2>2
<1>10. (IF SAME_TIME \in m.flags THEN p.mtime ELSE m.f["time"]) = IF opt.times THEN e.mtime ELSE 0
  <2>1. CASE SAME_TIME \in G
    BY <2>1, <1>1, <1>3 DEF Inherited, Received, Default
  <2>2. CASE SAME_TIME \notin G
    BY <2>2, <1>1, <1>3, <1>5, <1>8
  <2> QED BY <2>1, <2>2
<1>11. (IF SAME_UID \in m.flags THEN p.uid ELSE m.f["uid"]) = IF opt.owner THEN e.uid ELSE 0
  <2>1. CASE SAME_UID \in G
    BY <2>1, <1>1, <1>3 DEF Inherited, Received, Default
  <2>2. CASE SAME_UID \notin G
    BY <2>2, <1>1, <1>3, <1>5, <1>8
  <2> QED BY <2>1, <2>2
<1> HIDE DEF m, p, W, G, F
<1>12. recv_file_entry(m, p, list)
         = [name |-> e.name, type |-> e.type, perm |-> e.perm,
            mtime |-> IF opt.times THEN e.mtime ELSE 0,
            uid |-> IF opt.owner THEN e.uid ELSE 0, first |-> 0]
  <2>1. Mode(m, p)[1] = e.type /\ Mode(m, p)[2] = e.perm
    BY <1>9
  <2>2. recv_file_entry(m, p, list)
          = [name |-> SubSeq(p.name, 1, m.same) \o m.rest,
             type |-> Mode(m, p)[1], perm |-> Mode(m, p)[2],
             mtime |-> IF SAME_TIME \in m.flags THEN p.mtime ELSE m.f["time"],
             uid |-> IF SAME_UID \in m.flags THEN p.uid ELSE m.f["uid"], first |-> 0]
    BY <1>4 DEF recv_file_entry
  <2> QED BY <2>1, <2>2, <1>7, <1>10, <1>11
<1>13. recv_file_entry(m, p, list) = Received(e)
  BY <1>12 DEF Received
<1>14. DOMAIN m.f = FieldsWritten(e, m.flags)
  BY <1>1 DEF W
<1> QED BY <1>1, <1>2, <1>4, <1>9, <1>13, <1>14 DEF m, p
-----------------------------------------------------------------------------
(* The inductive invariant.                                                *)

\* Regular files keep still while they are listed with --hard-links.  Without
\* this the follower's times are not the leader's it is given on arrival.
StableLinks ==
    \A o \in OptionSets : o.hard_links => \A i \in Changing : Node[i].type # "file"

\* Where device numbers would be read they are sent: --devices, or no device
\* (and for an old peer no pipe) in the source.
DevicesSent ==
    \A o \in OptionSets, i \in Inodes :
        \/ o.devices
        \/ Node[i].type # "device" /\ (Node[i].type = "special" => o.protocol >= 31)

Quiet == opt.hard_links => \A i \in Inodes : Node[i].type = "file" => attr[i] = 1

\* An entry is what its inode says.
Real(e) ==
    /\ e.name \in Names /\ e.ino = Tree[e.name]
    /\ e.type = Node[e.ino].type /\ e.perm = Node[e.ino].perm /\ e.uid = Node[e.ino].uid
    /\ opt.hard_links /\ e.type = "file" => e.mtime = 1

Unmarked(e) == e.first = 0 /\ ~e.leader

\* A reference leads back to a regular file of the same inode that has none.
Marked(list, i) ==
    LET f == list[i].first
    IN  /\ list[i].leader => f = 0
        /\ f > 0 => /\ opt.hard_links /\ f \in DOMAIN list /\ f < i
                    /\ list[f].first = 0 /\ list[f].ino = list[i].ino
                    /\ list[f].type = "file" /\ list[i].type = "file"

InOrder(list) == \A i, j \in DOMAIN list : i < j => ~file_compare(list[j], list[i])

SenderInv ==
    /\ Quiet
    /\ \A i \in DOMAIN slist : Real(slist[i]) /\ Marked(slist, i)
    /\ spc = "walk" => /\ wire = <<>> /\ rlist = <<>> /\ rpc = "recv" /\ next = 1
                       /\ \A i \in DOMAIN slist : Unmarked(slist[i])
    /\ spc # "walk" /\ ~opt.foreign => InOrder(slist)
    /\ spc = "sent" => next = Len(slist) + 1

EndMessage == [flags |-> EndFlags, same |-> 0, rest |-> <<>>, f |-> [x \in Trailer |-> 0]]

Encodes(m, i) ==
    \E k \in 0..ByteMax, e \in {slist[i]}, prev \in {Before(slist, i)} :
        SharedLen(e.name, PrevName(prev), k) /\ m = send_file_entry(e, prev, k)

IsSeq(s) == Len(s) \in Nat /\ s = [i \in 1..Len(s) |-> s[i]]

\* What is on the wire are the entries between the two lists, and the end.
Stream ==
    rpc = "recv" /\ spc # "walk" =>
        /\ Len(rlist) <= Len(slist)
        /\ Len(rlist) + Len(wire) = (next - 1) + (IF spc = "sent" THEN 1 ELSE 0)
        /\ \A j \in 1..Len(wire) :
             /\ Len(rlist) + j <= Len(slist) => Encodes(wire[j], Len(rlist) + j)
             /\ Len(rlist) + j > Len(slist) => wire[j] = EndMessage

Images == [i \in DOMAIN slist |-> Received(slist[i])]

After == rpc # "recv" => spc = "sent" /\ rlist = SortedAndRemapped(Images)

ListInv == TypeOK /\ IsSeq(wire) /\ SenderInv /\ Stream /\ SameList /\ After

\* Appending to a sequence and taking its tail, whatever its elements are.
LEMMA SeqOps ==
    ASSUME NEW s, IsSeq(s), NEW m
    PROVE  /\ IsSeq(Append(s, m)) /\ Len(Append(s, m)) = Len(s) + 1
           /\ \A i \in 1..Len(s) : Append(s, m)[i] = s[i]
           /\ Append(s, m)[Len(s) + 1] = m
           /\ s # <<>> => /\ IsSeq(Tail(s)) /\ Len(Tail(s)) = Len(s) - 1 /\ Len(s) > 0
                          /\ \A i \in 1..(Len(s) - 1) : Tail(s)[i] = s[i + 1]
                          /\ Head(s) = s[1]
<1> DEFINE S == {s[i] : i \in 1..Len(s)} \cup {m}
<1>1. s \in Seq(S)
  <2>1. Len(s) \in Nat /\ \A i \in 1..Len(s) : s[i] \in S
    BY DEF IsSeq
  <2>2. [i \in 1..Len(s) |-> s[i]] \in Seq(S)
    BY <2>1, IsASeq
  <2> QED BY <2>2 DEF IsSeq
<1>2. m \in S
  OBVIOUS
<1> HIDE DEF S
<1>3. ASSUME NEW t \in Seq(S) PROVE IsSeq(t)
  BY DEF IsSeq
<1>4. /\ Append(s, m) \in Seq(S) /\ Len(Append(s, m)) = Len(s) + 1
      /\ \A i \in 1..Len(s) : Append(s, m)[i] = s[i]
      /\ Append(s, m)[Len(s) + 1] = m
  BY <1>1, <1>2
<1>5. ASSUME s # <<>>
      PROVE  /\ Tail(s) \in Seq(S) /\ Len(Tail(s)) = Len(s) - 1 /\ Len(s) > 0
             /\ \A i \in 1..(Len(s) - 1) : Tail(s)[i] = s[i + 1]
             /\ Head(s) = s[1]
  <2>1. Len(s) \in Nat /\ Len(s) # 0
    BY <1>1, <1>5, EmptySeq
  <2>2. Tail(s) \in Seq(S) /\ Len(Tail(s)) = Len(s) - 1 /\ Head(s) = s[1]
    BY <1>1, <1>5, <2>1
  <2>3. \A i \in 1..(Len(s) - 1) : Tail(s)[i] = s[i + 1]
    BY <1>1, <1>5, <2>1
  <2> QED BY <2>1, <2>2, <2>3
<1>6. IsSeq(Append(s, m)) /\ (s # <<>> => IsSeq(Tail(s)))
  BY <1>3, <1>4, <1>5
<1> QED BY <1>4, <1>5, <1>6

\* Marking changes the two link fields only, and marks as it should.
LEMMA MarkFacts ==
    ASSUME opt \in Options, NEW list \in Seq(Entries),
           \A i \in DOMAIN list : Real(list[i]) /\ Unmarked(list[i])
    PROVE  LET M == mark_hardlinks(list)
           IN  /\ M \in Seq(Entries) /\ Len(M) = Len(list)
               /\ \A i \in DOMAIN list :
                    /\ M[i].name = list[i].name /\ M[i].type = list[i].type
                    /\ Real(M[i]) /\ Marked(M, i)
<1> DEFINE M == mark_hardlinks(list)
           n == Len(list)
           f(i) == CHOOSE j \in Group(list, i) : \A k \in Group(list, i) : j <= k
           Plain(i) == list[i].type # "file" \/ Cardinality(Group(list, i)) < 2
<1>1. n \in Nat /\ DOMAIN list = 1..n /\ \A i \in 1..n : list[i] \in Entries
  OBVIOUS
<1>2. CASE ~opt.hard_links
  <2>1. M = list
    BY <1>2 DEF mark_hardlinks
  <2>2. \A i \in DOMAIN list : Marked(list, i)
    BY DEF Marked, Unmarked
  <2> QED BY <2>1, <2>2
<1>3. CASE opt.hard_links
  <2>1. M = [i \in 1..n |->
               IF Plain(i) THEN list[i]
               ELSE IF i = f(i) THEN [list[i] EXCEPT !.leader = TRUE]
               ELSE [list[i] EXCEPT !.first = f(i)]]
    BY <1>1, <1>3 DEF mark_hardlinks
  <2>2. ASSUME NEW i \in 1..n, ~Plain(i)
        PROVE  /\ f(i) \in 1..n /\ f(i) <= i /\ list[f(i)].type = "file"
               /\ list[f(i)].ino = list[i].ino /\ f(f(i)) = f(i)
    <3>1. i \in Group(list, i) /\ Group(list, i) \subseteq 1..n
      BY <1>1, <2>2 DEF Group
    <3>2. \E j \in Group(list, i) : \A k \in Group(list, i) : j <= k
      <4>1. Group(list, i) \in SUBSET Nat /\ Group(list, i) # {}
        BY <3>1, <1>1
      <4> QED BY <4>1, Least
    <3>3. f(i) \in Group(list, i) /\ \A k \in Group(list, i) : f(i) <= k
      BY <3>2
    <3>4. Group(list, f(i)) = Group(list, i)
      BY <3>3 DEF Group
    <3>5. f(f(i)) = f(i)
      BY <3>4
    <3> QED BY <3>1, <3>3, <3>5 DEF Group
  <2>3. ASSUME NEW i \in 1..n
        PROVE  /\ M[i] \in Entries /\ M[i].name = list[i].name /\ M[i].type = list[i].type
               /\ M[i].ino = list[i].ino /\ M[i].perm = list[i].perm /\ M[i].uid = list[i].uid
               /\ M[i].mtime = list[i].mtime
               /\ M[i].first = IF Plain(i) \/ i = f(i) THEN 0 ELSE f(i)
               /\ M[i].leader = (~Plain(i) /\ i = f(i))
    <3> HIDE DEF Plain, M
    <3>0. list[i] \in Entries /\ list[i].first = 0 /\ list[i].leader = FALSE
      BY <1>1 DEF Unmarked, Entries
    <3>1. CASE Plain(i)
      <4>1. M[i] = list[i]
        BY <2>1, <3>1
      <4> QED BY <4>1, <3>0, <3>1
    <3>2. CASE ~Plain(i) /\ i = f(i)
      <4>1. M[i] = [list[i] EXCEPT !.leader = TRUE]
        BY <2>1, <3>2
      <4> HIDE DEF f
      <4> QED BY <4>1, <3>0, <3>2 DEF Entries
    <3>3. CASE ~Plain(i) /\ i # f(i)
      <4>1. M[i] = [list[i] EXCEPT !.first = f(i)]
        BY <2>1, <3>3
      <4>2. f(i) \in Nat
        <5>1. f(i) \in 1..n
          BY <2>2, <3>3
        <5> HIDE DEF f
        <5> QED BY <5>1, <1>1
      <4> HIDE DEF f
      <4>3. M[i] \in Entries
        BY <4>1, <4>2, <3>0 DEF Entries
      <4>4. M[i].first = f(i) /\ M[i].leader = FALSE
        BY <4>1, <3>0 DEF Entries
      <4> QED BY <4>1, <4>3, <4>4, <3>0, <3>3 DEF Entries
    <3> QED BY <3>1, <3>2, <3>3
  <2>4. M \in Seq(Entries) /\ Len(M) = n
    <3>1. \A i \in 1..n : M[i] \in Entries
      BY <2>3
    <3>2. DOMAIN M = 1..n /\ M = [i \in 1..n |-> M[i]]
      BY <2>1
    <3> HIDE DEF M
    <3>3. [i \in 1..n |-> M[i]] \in Seq(Entries)
      BY <3>1, <1>1, IsASeq
    <3> QED BY <3>2, <3>3, <1>1
  <2>5. ASSUME NEW i \in 1..n PROVE Real(M[i])
    <3>1. /\ M[i].name = list[i].name /\ M[i].type = list[i].type
          /\ M[i].ino = list[i].ino /\ M[i].perm = list[i].perm /\ M[i].uid = list[i].uid
          /\ M[i].mtime = list[i].mtime
      BY <2>3
    <3> HIDE DEF M
    <3>2. Real(list[i])
      BY <1>1
    <3> QED BY <3>1, <3>2 DEF Real
  <2>6. ASSUME NEW i \in 1..n PROVE Marked(M, i)
    <3>1. DOMAIN M = 1..n
      BY <2>1
    <3>2. CASE Plain(i) \/ i = f(i)
      <4>1. M[i].first = 0
        BY <2>3, <3>2
      <4> QED BY <4>1 DEF Marked
    <3>3. CASE ~Plain(i) /\ i # f(i)
      <4>0. f(i) \in 1..n /\ f(i) <= i /\ list[f(i)].type = "file"
            /\ list[f(i)].ino = list[i].ino /\ f(f(i)) = f(i)
        BY <2>2, <3>3
      <4>x. list[i].type = "file"
        BY <3>3
      <4>y. f(i) < i
        <5> HIDE DEF f
        <5> QED BY <4>0, <3>3, <1>1
      <4>1. f(i) \in 1..n /\ f(i) < i /\ list[f(i)].type = "file"
            /\ list[f(i)].ino = list[i].ino /\ f(f(i)) = f(i) /\ list[i].type = "file"
        BY <4>0, <4>x, <4>y
      <4>2. M[i].first = f(i) /\ ~M[i].leader
        BY <2>3, <3>3
      <4>3. M[f(i)].first = 0 /\ M[f(i)].ino = M[i].ino /\ M[f(i)].type = "file"
            /\ M[i].type = "file"
        <5>1. M[f(i)].ino = list[f(i)].ino /\ M[f(i)].type = list[f(i)].type
              /\ M[i].ino = list[i].ino /\ M[i].type = list[i].type
          BY <2>3, <4>1
        <5>2. M[f(i)].first = IF Plain(f(i)) \/ f(i) = f(f(i)) THEN 0 ELSE f(f(i))
          BY <2>3, <4>1
        <5> HIDE DEF M, f
        <5> QED BY <5>1, <5>2, <4>1
      <4> HIDE DEF M, f
      <4> QED BY <4>1, <4>2, <4>3, <3>1, <1>3 DEF Marked
    <3> QED BY <3>2, <3>3
  <2> QED BY <1>1, <2>3, <2>4, <2>5, <2>6
<1> QED BY <1>2, <1>3

\* A follower is decoded to a copy of its leader under its own name.
LEMMA DecodeFollower ==
    ASSUME NEW e \in Entries, NEW prev, prev = <<>> \/ prev[1] \in Entries,
           NEW k \in Nat, NEW list, opt \in Options,
           SharedLen(e.name, PrevName(prev), k), Follower(e), ~e.leader,
           NEW g \in Entries, g.first = 0, list[e.first] = Received(g),
           g.type = e.type, g.perm = e.perm, g.uid = e.uid, g.mtime = e.mtime
    PROVE  LET m == send_file_entry(e, prev, k)
           IN  /\ recv_file_entry(m, Inherited(prev), list) = Received(e)
               /\ IsFollower(m) /\ ~IsEnd(m.flags)
               /\ DOMAIN m.f = {"first"} /\ m.f["first"] = e.first
<1> DEFINE F == XFlags(e, prev, k)
           G == Disambiguated(F, e.type = "dir")
           m == send_file_entry(e, prev, k)
           p == Inherited(prev)
<1>1. m.flags = G /\ m.same = k /\ m.rest = SubSeq(e.name, k + 1, Len(e.name))
      /\ m.f = [x \in {"first"} |-> Value(e)[x]]
  BY DEF send_file_entry, FieldsWritten
<1>2. /\ \A b \in {SAME_MODE, SAME_UID, SAME_TIME, HLINKED, HLINK_FIRST} : b \in G <=> b \in F
      /\ ~IsEnd(G)
  <2>1. opt.varint \in BOOLEAN /\ (e.type = "dir") \in BOOLEAN
    BY DEF Options
  <2> QED BY <2>1, FlagFacts
<1>3. (HLINKED \in G <=> Member(e)) /\ (HLINK_FIRST \in G <=> e.leader /\ opt.protocol >= 30)
  BY <1>2, FlagMeaning
<1>4. IsFollower(m)
  BY <1>1, <1>3 DEF IsFollower, Member, Follower
<1>5. m.f["first"] = e.first
  BY <1>1 DEF Value
<1>6. p.name = PrevName(prev) /\ PrevName(prev) \in Seq(Bytes)
  BY DEF Inherited, PrevName, Default, Received, Entries
<1>7. SubSeq(p.name, 1, m.same) \o m.rest = e.name
  <2>1. e.name \in Seq(Bytes)
    BY DEF Entries
  <2>2. SubSeq(PrevName(prev), 1, k) \o SubSeq(e.name, k + 1, Len(e.name)) = e.name
    BY <2>1, <1>6, NameRebuilt
  <2> QED BY <2>2, <1>1, <1>6
<1> HIDE DEF m, p
<1>8. recv_file_entry(m, p, list) = [Received(g) EXCEPT !.name = e.name, !.first = e.first]
  BY <1>4, <1>5, <1>7 DEF recv_file_entry
<1>9. recv_file_entry(m, p, list) = Received(e)
  BY <1>8 DEF Received
<1> QED BY <1>1, <1>2, <1>4, <1>5, <1>9 DEF m, p

\* What is decoded from the next message, from an entry of a marked list.
LEMMA DecodeNext ==
    ASSUME ListInv, NEW n \in Nat, n = Len(rlist), n < Len(slist),
           rpc = "recv", NEW m, Encodes(m, n + 1)
    PROVE  /\ recv_file_entry(m, Latest(rlist), rlist) = Received(slist[n + 1])
           /\ ~IsEnd(m.flags)
           /\ IsFollower(m) => DOMAIN m.f = {"first"} /\ m.f["first"] \in DOMAIN rlist
           /\ ~IsFollower(m) =>
                /\ DOMAIN m.f = FieldsWritten(slist[n + 1], m.flags) /\ ~Follower(slist[n + 1])
                /\ Mode(m, Latest(rlist))[1] = slist[n + 1].type
                /\ opt.owner \/ SAME_UID \in m.flags
<1> DEFINE e == slist[n + 1]
           prev == Before(slist, n + 1)
<1>1. slist \in Seq(Entries) /\ rlist \in Seq(Decoded) /\ opt \in Options
  BY ListAssumption DEF ListInv, TypeOK
<1>2. n + 1 \in DOMAIN slist /\ e \in Entries
  BY <1>1
<1>3. DOMAIN rlist = 1..n /\ \A i \in 1..n : i \in DOMAIN slist /\ rlist[i] = Received(slist[i])
  <2>1. DOMAIN rlist = 1..n /\ DOMAIN slist = 1..Len(slist) /\ Len(slist) \in Nat
    BY <1>1
  <2>2. \A i \in DOMAIN rlist : rlist[i] = Received(slist[i])
    BY DEF ListInv, SameList
  <2>3. \A i \in 1..n : i \in DOMAIN slist
    BY <2>1
  <2> QED BY <2>1, <2>2, <2>3
<1>4. (prev = <<>> \/ prev[1] \in Entries) /\ Latest(rlist) = Inherited(prev)
  <2>1. CASE n = 0
    <3>1. rlist = <<>> /\ n + 1 = 1
      <4>1. rlist = <<>>
        <5>1. rlist \in Seq(Decoded) /\ Len(rlist) = 0
          BY <2>1, <1>1
        <5> QED BY <5>1, EmptySeq
      <4> QED BY <4>1, <2>1
    <3>2. prev = <<>>
      BY <3>1 DEF Before
    <3> QED BY <3>1, <3>2 DEF Latest, Inherited
  <2>2. CASE n # 0
    <3>1. n \in 1..n /\ n + 1 # 1 /\ (n + 1) - 1 = n /\ rlist # <<>>
      BY <2>2, <1>1
    <3>2. prev = <<slist[n]>>
      BY <3>1 DEF Before
    <3>3. prev # <<>> /\ prev[1] = slist[n]
      BY <3>2
    <3>4. slist[n] \in Entries
      BY <3>1, <1>1, <1>3
    <3>5. Latest(rlist) = rlist[n]
      BY <3>1 DEF Latest
    <3>6. rlist[n] = Received(slist[n])
      BY <3>1, <1>3
    <3> HIDE DEF prev
    <3> QED BY <3>3, <3>4, <3>5, <3>6 DEF Inherited
  <2> QED BY <2>1, <2>2
<1>5. PICK k \in 0..ByteMax : SharedLen(e.name, PrevName(prev), k) /\ m = send_file_entry(e, prev, k)
  BY DEF Encodes
<1>6. k \in Nat
  BY ListAssumption
<1>7. Marked(slist, n + 1) /\ Real(e)
  BY <1>2 DEF ListInv, SenderInv
<1> HIDE DEF e, prev
<1>8. CASE ~Follower(e)
  <2>1. e.leader => e.first = 0
    BY <1>7 DEF Marked, e
  <2>2. /\ recv_file_entry(m, Inherited(prev), rlist) = Received(e)
        /\ ~IsFollower(m) /\ ~IsEnd(m.flags)
        /\ Mode(m, Inherited(prev)) = <<e.type, e.perm>>
        /\ DOMAIN m.f = FieldsWritten(e, m.flags)
    BY <1>1, <1>2, <1>4, <1>5, <1>6, <1>8, <2>1, DecodeEncode
  <2>3. opt.owner \/ SAME_UID \in m.flags
    <3>1. SAME_UID \in XFlags(e, prev, k) <=> ~opt.owner \/ (prev # <<>> /\ e.uid = prev[1].uid)
      BY FlagMeaning
    <3>2. opt.varint \in BOOLEAN /\ (e.type = "dir") \in BOOLEAN
      BY <1>1 DEF Options
    <3>3. SAME_UID \in m.flags <=> SAME_UID \in XFlags(e, prev, k)
      BY <1>5, <3>2, FlagFacts DEF send_file_entry
    <3> QED BY <3>1, <3>3
  <2> QED BY <1>4, <1>8, <2>2, <2>3 DEF e
<1>9. CASE Follower(e)
  <2> DEFINE f == e.first
             g == slist[f]
  <2>1. /\ f \in DOMAIN slist /\ f < n + 1 /\ g.first = 0 /\ g.ino = e.ino
        /\ g.type = "file" /\ e.type = "file" /\ opt.hard_links /\ ~e.leader
    BY <1>7, <1>9 DEF Marked, Follower, e
  <2>2. f \in 1..n /\ g \in Entries
    BY <2>1, <1>1
  <2>3. rlist[f] = Received(g)
    BY <2>2, <1>3
  <2>4. Real(g)
    BY <2>1 DEF ListInv, SenderInv
  <2>5. g.perm = e.perm /\ g.uid = e.uid /\ g.mtime = e.mtime
    BY <2>1, <2>4, <1>7 DEF Real
  <2>7. /\ rlist[e.first] = Received(g) /\ g.first = 0 /\ g.type = e.type /\ ~e.leader
        /\ g \in Entries
    BY <2>1, <2>2, <2>3
  <2> HIDE DEF f, g
  <2>6. /\ recv_file_entry(m, Inherited(prev), rlist) = Received(e)
        /\ IsFollower(m) /\ ~IsEnd(m.flags)
        /\ DOMAIN m.f = {"first"} /\ m.f["first"] = f
    <3>1. m.f["first"] = e.first => m.f["first"] = f
      BY DEF f
    <3> QED BY <3>1, <1>1, <1>2, <1>4, <1>5, <1>6, <1>9, <2>5, <2>7, DecodeFollower
  <2> QED BY <1>3, <1>4, <2>2, <2>6 DEF e
<1> QED BY <1>8, <1>9

\* Stat's answer is an entry, and is what the inode says.
LEMMA StatFacts ==
    ASSUME TypeOK, Quiet, NEW n \in Names
    PROVE  LET e == file_info_from_meta(n) IN e \in Entries /\ Real(e) /\ Unmarked(e)
<1> DEFINE e == file_info_from_meta(n)
<1>1. n \in Seq(Bytes) /\ Tree[n] \in Inodes
      /\ Node[Tree[n]] \in [type : Types, perm : Nat, uid : Nat, size : Nat]
  BY ListAssumption
<1>2. attr[Tree[n]] \in Nat
  BY <1>1, ListAssumption DEF TypeOK
<1>3. e \in Entries
  BY <1>1, <1>2 DEF file_info_from_meta, Entries, Type
<1>4. Real(e)
  BY <1>1 DEF file_info_from_meta, Real, Quiet, Type
<1>5. Unmarked(e)
  BY DEF file_info_from_meta, Unmarked
<1> QED BY <1>3, <1>4, <1>5

\* While the list is made only it, and what is still to be visited, changes.
LEMMA WalkStep ==
    ASSUME ListInv, spc = "walk", slist' \in Seq(Entries),
           \A i \in DOMAIN slist' : Real(slist'[i]) /\ Unmarked(slist'[i]),
           lines' \in Seq(Seq(Bytes)),
           UNCHANGED <<opt, attr, next, spc, wire, receiver>>
    PROVE  ListInv'
<1> USE DEF receiver
<1>1. wire = <<>> /\ rlist = <<>> /\ rpc = "recv" /\ next = 1
  BY DEF ListInv, SenderInv
<1>2. TypeOK'
  <2>1. Len(slist') \in Nat
    OBVIOUS
  <2> QED BY <1>1, <2>1 DEF ListInv, TypeOK
<1>3. SenderInv'
  <2>1. \A i \in DOMAIN slist' : Real(slist[i])' /\ Marked(slist, i)' /\ Unmarked(slist[i])'
    BY DEF Real, Marked, Unmarked
  <2>2. Quiet'
    BY DEF ListInv, SenderInv, Quiet
  <2> QED BY <1>1, <2>1, <2>2 DEF SenderInv
<1>4. IsSeq(wire)' /\ Stream' /\ SameList' /\ After'
  BY <1>1 DEF ListInv, IsSeq, Stream, SameList, After
<1> QED BY <1>2, <1>3, <1>4 DEF ListInv

\* A line of the arguments keeps the invariant.
LEMMA ListLineInv ==
    ASSUME ListInv, ListLine
    PROVE  ListInv'
<1> DEFINE n == Head(lines)
<1>1. slist \in Seq(Entries) /\ TypeOK /\ Quiet
      /\ \A i \in DOMAIN slist : Real(slist[i]) /\ Unmarked(slist[i])
  BY DEF ListInv, TypeOK, SenderInv, ListLine
<1>2. lines' \in Seq(Seq(Bytes))
  BY DEF ListInv, TypeOK, ListLine
<1>3. CASE slist' = slist
  BY <1>1, <1>2, <1>3, WalkStep DEF ListLine
<1>4. CASE n \in Names /\ slist' = Append(slist, file_info_from_meta(n))
  <2> DEFINE e == file_info_from_meta(n)
  <2>1. e \in Entries /\ Real(e) /\ Unmarked(e)
    BY <1>1, <1>4, StatFacts
  <2> HIDE DEF e, n
  <2>2. slist' = Append(slist, e)
    BY <1>4 DEF e, n
  <2>3. slist' \in Seq(Entries) /\ \A i \in DOMAIN slist' : slist'[i] = e \/ (i \in DOMAIN slist /\ slist'[i] = slist[i])
    BY <1>1, <2>1, <2>2
  <2>4. \A i \in DOMAIN slist' : Real(slist'[i]) /\ Unmarked(slist'[i])
    BY <1>1, <2>1, <2>3
  <2> QED BY <1>2, <2>3, <2>4, WalkStep DEF ListLine
<1> QED BY <1>3, <1>4 DEF ListLine

\* So does a directory entry visited.
LEMMA VisitInv ==
    ASSUME ListInv, NEW n \in Names, Visit(n)
    PROVE  ListInv'
<1>1. slist \in Seq(Entries) /\ TypeOK /\ Quiet
      /\ \A i \in DOMAIN slist : Real(slist[i]) /\ Unmarked(slist[i])
  BY DEF ListInv, TypeOK, SenderInv, Visit
<1>2. lines' \in Seq(Seq(Bytes))
  BY DEF ListInv, TypeOK, Visit
<1>3. CASE slist' = slist
  BY <1>1, <1>2, <1>3, WalkStep DEF Visit
<1>4. CASE slist' = Append(slist, file_info_from_meta(n))
  <2> DEFINE e == file_info_from_meta(n)
  <2>1. e \in Entries /\ Real(e) /\ Unmarked(e)
    BY <1>1, StatFacts
  <2> HIDE DEF e
  <2>2. slist' = Append(slist, e)
    BY <1>4 DEF e
  <2>3. slist' \in Seq(Entries) /\ \A i \in DOMAIN slist' : slist'[i] = e \/ (i \in DOMAIN slist /\ slist'[i] = slist[i])
    BY <1>1, <2>1, <2>2
  <2>4. \A i \in DOMAIN slist' : Real(slist'[i]) /\ Unmarked(slist'[i])
    BY <1>1, <2>1, <2>3
  <2> QED BY <1>2, <2>3, <2>4, WalkStep DEF Visit
<1> QED BY <1>3, <1>4 DEF Visit

\* So does leaving a directory, which may take an entry off the list.
LEMMA LeaveInv ==
    ASSUME ListInv, Leave
    PROVE  ListInv'
<1>1. slist \in Seq(Entries) /\ TypeOK /\ Quiet
      /\ \A i \in DOMAIN slist : Real(slist[i]) /\ Unmarked(slist[i])
  BY DEF ListInv, TypeOK, SenderInv, Leave
<1>2. lines' \in Seq(Seq(Bytes))
  BY DEF ListInv, TypeOK, Leave
<1>3. slist' \in Seq(Entries) /\ \A i \in DOMAIN slist' : i \in DOMAIN slist /\ slist'[i] = slist[i]
  <2>1. CASE slist' = slist
    BY <2>1, <1>1
  <2>2. CASE slist' = SubSeq(slist, 1, Len(slist) - 1)
    <3>1. Len(slist) \in Nat /\ DOMAIN slist = 1..Len(slist)
      BY <1>1
    <3>2. CASE Len(slist) = 0
      <4>1. slist' = <<>>
        BY <2>2, <1>1, <3>2
      <4> QED BY <4>1
    <3>3. CASE Len(slist) > 0
      <4>1. /\ slist' \in Seq(Entries) /\ Len(slist') = Len(slist) - 1
            /\ \A i \in 1..(Len(slist) - 1) : slist'[i] = slist[i]
        BY <2>2, <1>1, <3>1, <3>3
      <4> QED BY <4>1, <3>1
    <3> QED BY <3>1, <3>2, <3>3
  <2> QED BY <2>1, <2>2 DEF Leave
<1>4. \A i \in DOMAIN slist' : Real(slist'[i]) /\ Unmarked(slist'[i])
  BY <1>1, <1>3
<1> QED BY <1>2, <1>3, <1>4, WalkStep DEF Leave

\* So does a file written to while the list is made.
LEMMA ChangeInv ==
    ASSUME StableLinks, ListInv, NEW i \in Inodes, Change(i)
    PROVE  ListInv'
<1> USE DEF receiver
<1>1. TypeOK'
  <2>1. attr \in [Inodes -> 1..MaxTime] /\ attr[i] < MaxTime /\ MaxTime \in Nat
        /\ attr' = [attr EXCEPT ![i] = @ + 1]
    BY ListAssumption DEF ListInv, TypeOK, Change
  <2>2. attr[i] + 1 \in 1..MaxTime
    BY <2>1
  <2>3. attr' \in [Inodes -> 1..MaxTime]
    BY <2>1, <2>2
  <2> QED BY <2>3 DEF ListInv, TypeOK, Change
<1>2. Quiet'
  <2>1. opt \in OptionSets /\ attr \in [Inodes -> 1..MaxTime] /\ opt' = opt /\ Quiet
    BY DEF ListInv, TypeOK, SenderInv, Change
  <2>2. \A j \in Inodes : j # i => attr'[j] = attr[j]
    BY <2>1 DEF Change
  <2>3. opt.hard_links => Node[i].type # "file"
    BY <2>1 DEF StableLinks, Change
  <2> QED BY <2>1, <2>2, <2>3 DEF Quiet
<1>3. SenderInv'
  <2>1. SenderInv /\ UNCHANGED <<opt, slist, next, spc, wire, receiver>>
    BY DEF ListInv, Change
  <2>2. \A j \in DOMAIN slist' : Real(slist[j])' /\ Marked(slist, j)'
    BY <2>1 DEF SenderInv, Real, Marked
  <2>3. spc = "walk"
    BY DEF Change
  <2> QED BY <1>2, <2>1, <2>2, <2>3 DEF SenderInv, Unmarked
<1>4. IsSeq(wire)' /\ Stream' /\ SameList' /\ After'
  <2>1. wire' = wire /\ rlist' = rlist /\ rpc' = rpc /\ spc' = spc /\ spc = "walk"
        /\ rpc = "recv" /\ rlist = <<>> /\ IsSeq(wire)
    BY DEF Change, ListInv, SenderInv
  <2> QED BY <2>1 DEF IsSeq, Stream, SameList, After
<1> QED BY <1>1, <1>3, <1>4 DEF ListInv

\* The order looks at names and types only.
LEMMA SameOrder ==
    ASSUME NEW a, NEW b, NEW c, NEW d,
           a.name = c.name, a.type = c.type, b.name = d.name, b.type = d.type
    PROVE  file_compare(a, b) = file_compare(c, d)
<1>1. Key(a) = Key(c) /\ Key(b) = Key(d)
  BY DEF Key
<1> QED BY <1>1 DEF file_compare

\* Every list of entries can be sorted: the names it compares are typed.
LEMMA EntriesSortable ==
    ASSUME NEW list \in Seq(Entries)
    PROVE  Sortable(list)
<1>1. DOMAIN list = 1..Len(list) /\ Len(list) \in Nat /\ \A i \in DOMAIN list : list[i] \in Entries
  OBVIOUS
<1> QED BY <1>1 DEF Sortable, Entries

\* Sorting and marking the groups keeps the invariant.
LEMMA SortAndMarkInv ==
    ASSUME ListInv, SortAndMark
    PROVE  ListInv'
<1> DEFINE L == IF opt.foreign THEN slist ELSE flist_sort(slist)
           M == mark_hardlinks(L)
<1> USE DEF receiver
<1>1. /\ slist \in Seq(Entries) /\ opt \in Options /\ Len(slist) \in Nat
      /\ DOMAIN slist = 1..Len(slist)
      /\ \A i \in DOMAIN slist : Real(slist[i]) /\ Unmarked(slist[i]) /\ slist[i] \in Entries
  BY ListAssumption DEF ListInv, TypeOK, SenderInv, SortAndMark
<1>2. /\ wire = <<>> /\ rlist = <<>> /\ rpc = "recv" /\ next = 1 /\ spc' = "send"
      /\ slist' = M
      /\ UNCHANGED <<opt, attr, frames, lines, next, wire, receiver>>
  BY DEF ListInv, SenderInv, SortAndMark
<1>3. Sortable(slist)
  BY <1>1, EntriesSortable
<1>4. /\ L \in Seq(Entries) /\ Len(L) = Len(slist) /\ DOMAIN L = DOMAIN slist
      /\ \A r \in DOMAIN L : Real(L[r]) /\ Unmarked(L[r])
      /\ ~opt.foreign => InOrder(L)
  <2>1. CASE opt.foreign
    BY <2>1, <1>1
  <2>2. CASE ~opt.foreign
    <3> DEFINE S == flist_sort(slist)
    <3>1. /\ DOMAIN S = 1..Len(slist)
          /\ \A r \in 1..Len(slist) : S[r] = slist[Origin(slist, r)]
                                        /\ Origin(slist, r) \in DOMAIN slist
      BY <1>1, <1>3, SortSorts, OriginFacts
    <3>2. InOrder(S)
      BY <1>1, <1>3, <3>1, SortSorts DEF InOrder
    <3>3. S = [r \in 1..Len(slist) |-> S[r]]
      BY <3>1 DEF flist_sort
    <3> HIDE DEF S
    <3>4. \A r \in 1..Len(slist) : S[r] \in Entries
      BY <1>1, <3>1
    <3>5. S \in Seq(Entries)
      BY <1>1, <3>3, <3>4, IsASeq
    <3>6. Len(S) = Len(slist)
      BY <1>1, <3>1, <3>5
    <3>7. L = S
      BY <2>2 DEF S
    <3> HIDE DEF L
    <3> QED BY <1>1, <3>1, <3>2, <3>5, <3>6, <3>7
  <2> QED BY <2>1, <2>2
<1> HIDE DEF L
<1>5. /\ M \in Seq(Entries) /\ Len(M) = Len(L)
      /\ \A i \in DOMAIN L : /\ M[i].name = L[i].name /\ M[i].type = L[i].type
                              /\ Real(M[i]) /\ Marked(M, i)
  BY <1>1, <1>4, MarkFacts
<1> HIDE DEF M
<1>6. DOMAIN M = DOMAIN L /\ DOMAIN M = 1..Len(slist)
  BY <1>1, <1>4, <1>5
<1>7. ~opt.foreign => InOrder(M)
  <2> SUFFICES ASSUME ~opt.foreign, NEW i \in DOMAIN M, NEW j \in DOMAIN M, i < j
               PROVE  ~file_compare(M[j], M[i])
    BY DEF InOrder
  <2>1. ~file_compare(L[j], L[i])
    BY <1>4, <1>6 DEF InOrder
  <2>2. file_compare(M[j], M[i]) = file_compare(L[j], L[i])
    BY <1>5, <1>6, SameOrder
  <2> QED BY <2>1, <2>2
<1>8. TypeOK'
  BY <1>1, <1>2, <1>4, <1>5 DEF ListInv, TypeOK
<1>9. SenderInv'
  <2>1. Quiet'
    BY <1>2 DEF ListInv, SenderInv, Quiet
  <2>2. \A i \in DOMAIN slist' : Real(slist[i])' /\ Marked(slist, i)'
    BY <1>2, <1>5, <1>6 DEF Real, Marked
  <2>3. InOrder(slist)' <=> InOrder(M)
    BY <1>2 DEF InOrder
  <2> QED BY <1>2, <1>7, <2>1, <2>2, <2>3 DEF SenderInv
<1>10. IsSeq(wire)' /\ Stream' /\ SameList' /\ After'
  <2>1. Len(rlist) = 0 /\ Len(wire) = 0 /\ Len(slist') \in Nat
    BY <1>2, <1>5
  <2>2. DOMAIN rlist = {}
    BY <1>2
  <2> QED BY <1>2, <2>1, <2>2 DEF ListInv, IsSeq, Stream, SameList, After
<1> QED BY <1>8, <1>9, <1>10 DEF ListInv

\* What is said of the finished list stays true as long as it is left alone.
LEMMA SenderFrame ==
    ASSUME SenderInv, UNCHANGED <<opt, attr, slist>>
    PROVE  /\ Quiet' /\ \A i \in DOMAIN slist' : Real(slist[i])' /\ Marked(slist, i)'
           /\ InOrder(slist)' = InOrder(slist)
           /\ \A m, i : Encodes(m, i)' = Encodes(m, i)
           /\ Images' = Images
           /\ EndMessage' = EndMessage
<1>1. Quiet'
  BY DEF SenderInv, Quiet
<1>2. \A i \in DOMAIN slist' : Real(slist[i])' /\ Marked(slist, i)'
  BY DEF SenderInv, Real, Marked
<1>3. InOrder(slist)' = InOrder(slist)
  BY DEF InOrder
<1>4. ASSUME NEW m, NEW i PROVE Encodes(m, i)' = Encodes(m, i)
  <2>1. ASSUME NEW e, NEW prev, NEW k PROVE XFlags(e, prev, k)' = XFlags(e, prev, k)
    BY DEF XFlags
  <2>2. ASSUME NEW e, NEW flags PROVE FieldsWritten(e, flags)' = FieldsWritten(e, flags)
    BY DEF FieldsWritten, Follower, WithRdev
  <2>3. ASSUME NEW flags, NEW d PROVE Disambiguated(flags, d)' = Disambiguated(flags, d)
    BY DEF Disambiguated
  <2>4. ASSUME NEW e, NEW prev, NEW k
        PROVE  send_file_entry(e, prev, k)' = send_file_entry(e, prev, k)
    BY <2>1, <2>2, <2>3 DEF send_file_entry
  <2> QED BY <2>4 DEF Encodes
<1>5. Images' = Images
  BY DEF Images, Received, Follower
<1>6. EndMessage' = EndMessage
  BY DEF EndMessage, EndFlags, Trailer
<1> QED BY <1>1, <1>2, <1>3, <1>4, <1>5, <1>6

\* So does the sender that sends an entry, or the end of the list.
LEMMA SendInv ==
    ASSUME ListInv, SendEntry \/ SendEnd
    PROVE  ListInv'
<1> USE DEF receiver
<1> DEFINE n == Len(rlist)
           N == Len(slist)
<1>1. UNCHANGED <<opt, attr, frames, lines, slist, receiver>> /\ spc = "send"
  BY DEF SendEntry, SendEnd
<1>2. /\ slist \in Seq(Entries) /\ rlist \in Seq(Decoded) /\ N \in Nat /\ n \in Nat
      /\ next \in 1..(N + 1) /\ IsSeq(wire) /\ SenderInv /\ Stream /\ SameList /\ TypeOK
      /\ DOMAIN slist = 1..N
  BY DEF ListInv, TypeOK
<1>3. rpc = "recv"
  BY <1>1 DEF ListInv, After
<1>4. n <= N /\ n + Len(wire) = next - 1 /\ Len(wire) \in Nat
  <2>1. Len(wire) \in Nat
    BY <1>2 DEF IsSeq
  <2> QED BY <1>1, <1>2, <1>3, <2>1 DEF Stream
<1>w. ASSUME NEW j \in 1..Len(wire)
      PROVE  (n + j <= N => Encodes(wire[j], n + j)) /\ (n + j > N => wire[j] = EndMessage)
  BY <1>1, <1>2, <1>3 DEF Stream
<1>5. /\ Quiet' /\ \A i \in DOMAIN slist' : Real(slist[i])' /\ Marked(slist, i)'
      /\ InOrder(slist)' = InOrder(slist)
      /\ \A m, i : Encodes(m, i)' = Encodes(m, i)
      /\ EndMessage' = EndMessage
  BY <1>1, <1>2, SenderFrame
<1>6. SameList' /\ After'
  <2>1. SameList'
    BY <1>1, <1>2 DEF SameList, Received, Follower
  <2> QED BY <2>1, <1>1, <1>3 DEF After
<1>7. CASE spc' = "panic" /\ UNCHANGED <<wire, next>>
  <2>1. TypeOK' /\ IsSeq(wire)'
    BY <1>1, <1>2, <1>7 DEF TypeOK, IsSeq
  <2>2. SenderInv'
    BY <1>1, <1>2, <1>5, <1>7 DEF SenderInv
  <2>3. Stream'
    <3>1. ASSUME NEW j \in 1..Len(wire)
          PROVE  /\ n + j <= N => Encodes(wire[j], n + j)'
                 /\ n + j > N => wire[j] = EndMessage'
      <4>1. wire' = wire /\ rlist' = rlist
        BY <1>1, <1>7
      <4> QED BY <4>1, <1>w, <1>5
    <3> QED BY <3>1, <1>1, <1>4, <1>7 DEF Stream
  <2> QED BY <1>6, <2>1, <2>2, <2>3 DEF ListInv
<1>8. ASSUME NEW k \in 0..ByteMax, next <= N,
             SharedLen(slist[next].name, PrevName(Before(slist, next)), k),
             wire' = Append(wire, send_file_entry(slist[next], Before(slist, next), k)),
             next' = next + 1, spc' = spc
      PROVE  ListInv'
  <2> DEFINE m == send_file_entry(slist[next], Before(slist, next), k)
  <2>1. Encodes(m, next)
    BY <1>8 DEF Encodes
  <2>2. wire' = Append(wire, m)
    BY <1>8
  <2> HIDE DEF m
  <2>3. /\ IsSeq(wire') /\ Len(wire') = Len(wire) + 1 /\ wire'[Len(wire) + 1] = m
        /\ \A j \in 1..Len(wire) : wire'[j] = wire[j]
    BY <1>2, <2>2, SeqOps
  <2>4. TypeOK' /\ IsSeq(wire)'
    BY <1>1, <1>2, <1>8, <2>3 DEF TypeOK, IsSeq
  <2>5. SenderInv'
    BY <1>1, <1>2, <1>5, <1>8 DEF SenderInv
  <2>6. Stream'
    <3>1. ASSUME NEW j \in 1..Len(wire')
          PROVE  n + j <= N /\ Encodes(wire'[j], n + j)
      <4>1. CASE j = Len(wire) + 1
        <5>1. n + j = next
          BY <4>1, <1>2, <1>4
        <5> QED BY <5>1, <4>1, <2>1, <2>3, <1>8
      <4>2. CASE j # Len(wire) + 1
        <5>1. j \in 1..Len(wire) /\ n + j <= N
          BY <4>2, <2>3, <1>2, <1>4, <1>8
        <5>2. wire'[j] = wire[j]
          BY <5>1, <2>3
        <5>3. Encodes(wire[j], n + j)
          BY <5>1, <1>w
        <5> QED BY <5>1, <5>2, <5>3
      <4> QED BY <4>1, <4>2
    <3>2. n <= N /\ n + Len(wire') = next' - 1 /\ Len(wire') \in Nat
      BY <1>2, <1>4, <1>8, <2>3
    <3>3. ASSUME NEW j \in 1..Len(wire')
          PROVE  n + j <= N /\ Encodes(wire[j], n + j)' /\ ~(n + j > N)
      BY <3>1, <1>2, <1>5, <3>2, <1>1
    <3>4. Len(rlist)' = n /\ Len(slist)' = N /\ spc' # "sent"
      BY <1>1, <1>8
    <3> QED BY <3>2, <3>3, <3>4, <1>1 DEF Stream
  <2> QED BY <1>6, <2>4, <2>5, <2>6 DEF ListInv
<1>9. ASSUME next = N + 1, wire' = Append(wire, EndMessage), spc' = "sent", next' = next
      PROVE  ListInv'
  <2>3. /\ IsSeq(wire') /\ Len(wire') = Len(wire) + 1 /\ wire'[Len(wire) + 1] = EndMessage
        /\ \A j \in 1..Len(wire) : wire'[j] = wire[j]
    BY <1>2, <1>9, SeqOps
  <2>4. TypeOK' /\ IsSeq(wire)'
    BY <1>1, <1>2, <1>9, <2>3 DEF TypeOK, IsSeq
  <2>5. SenderInv'
    BY <1>1, <1>2, <1>5, <1>9 DEF SenderInv
  <2>6. Stream'
    <3>1. n <= N /\ n + Len(wire') = (next' - 1) + 1 /\ Len(wire') \in Nat
      <4>1. Len(wire') = Len(wire) + 1 /\ next' = next
        BY <1>9, <2>3
      <4>2. n \in Nat /\ N \in Nat /\ next \in Int /\ Len(wire) \in Nat /\ n <= N
            /\ n + Len(wire) = next - 1
        BY <1>2, <1>4
      <4> HIDE DEF n, N
      <4> QED BY <4>1, <4>2
    <3>2. ASSUME NEW j \in 1..Len(wire')
          PROVE  /\ n + j <= N => Encodes(wire[j], n + j)'
                 /\ n + j > N => wire'[j] = EndMessage
      <4>1. CASE j = Len(wire) + 1
        BY <4>1, <2>3, <1>2, <1>4, <1>9
      <4>2. CASE j # Len(wire) + 1
        <5>1. j \in 1..Len(wire)
          BY <4>2, <2>3, <1>4
        <5>2. wire'[j] = wire[j]
          BY <5>1, <2>3
        <5>3. (n + j <= N => Encodes(wire[j], n + j)) /\ (n + j > N => wire[j] = EndMessage)
          BY <5>1, <1>w
        <5>4. n' + j = n + j
          BY <1>1
        <5>5. n + j <= N => Encodes(wire'[j], n + j)
          BY <5>2, <5>3
        <5>6. Encodes(wire'[j], n + j) => Encodes(wire[j], n + j)'
          BY <1>5, <5>4
        <5> QED BY <5>2, <5>3, <5>5, <5>6
      <4> QED BY <4>1, <4>2
    <3>3. Len(rlist)' = n /\ Len(slist)' = N /\ spc' = "sent"
      BY <1>1, <1>9
    <3> QED BY <3>1, <3>2, <3>3, <1>1, <1>5 DEF Stream
  <2> QED BY <1>6, <2>4, <2>5, <2>6 DEF ListInv
<1>10. CASE SendEntry
  BY <1>7, <1>8, <1>10 DEF SendEntry
<1>11. CASE SendEnd
  BY <1>9, <1>11 DEF SendEnd, EndMessage
<1> QED BY <1>10, <1>11

\* What is next on the wire.
LEMMA HeadFacts ==
    ASSUME ListInv, rpc = "recv", wire # <<>>
    PROVE  /\ Len(rlist) \in Nat /\ Len(slist) \in Nat /\ Len(rlist) <= Len(slist)
           /\ Len(rlist) < Len(slist) => Encodes(Head(wire), Len(rlist) + 1)
           /\ Len(rlist) = Len(slist) => Head(wire) = EndMessage /\ spc = "sent"
           /\ IsEnd(EndFlags)
           /\ IsEnd(Head(wire).flags) <=> Len(rlist) = Len(slist)
<1> DEFINE n == Len(rlist)
           N == Len(slist)
<1>1. n \in Nat /\ N \in Nat /\ next \in 1..(N + 1) /\ IsSeq(wire) /\ Stream
      /\ (spc = "walk" => wire = <<>>)
  BY DEF ListInv, TypeOK, SenderInv
<1>2. Len(wire) \in Nat /\ Len(wire) > 0 /\ Head(wire) = wire[1] /\ 1 \in 1..Len(wire)
  <2>1. Len(wire) \in Nat
    BY <1>1 DEF IsSeq
  <2> QED BY <2>1, <1>1, SeqOps
<1>3. n <= N /\ n + Len(wire) = (next - 1) + (IF spc = "sent" THEN 1 ELSE 0)
  BY <1>1 DEF Stream
<1>4. n < N => Encodes(Head(wire), n + 1)
  <2>1. n + 1 <= N => Encodes(wire[1], n + 1)
    BY <1>1, <1>2 DEF Stream
  <2> QED BY <2>1, <1>1, <1>2
<1>5. n = N => Head(wire) = EndMessage
  <2>1. n + 1 > N => wire[1] = EndMessage
    BY <1>1, <1>2 DEF Stream
  <2> QED BY <2>1, <1>1, <1>2
<1>6. n = N => spc = "sent"
  <2> HIDE DEF n, N
  <2> QED BY <1>1, <1>2, <1>3
<1>7. IsEnd(EndFlags)
  BY DEF IsEnd, EndFlags
<1>8. n < N => ~IsEnd(Head(wire).flags)
  BY <1>1, <1>4, DecodeNext
<1>9. n = N => IsEnd(Head(wire).flags)
  BY <1>5, <1>7 DEF EndMessage
<1>10. n < N \/ n = N
  <2> HIDE DEF n, N
  <2> QED BY <1>1, <1>3
<1> QED BY <1>1, <1>3, <1>4, <1>5, <1>6, <1>7, <1>8, <1>9, <1>10

\* The receiver's image of an entry.
LEMMA ReceivedType ==
    ASSUME NEW e \in Entries
    PROVE  Received(e) \in Decoded
<1>1. (IF opt.times THEN e.mtime ELSE 0) \in Nat /\ (IF opt.owner THEN e.uid ELSE 0) \in Nat
      /\ (IF Follower(e) THEN e.first ELSE 0) \in Nat
  BY DEF Entries
<1> QED BY <1>1 DEF Received, Decoded, Entries

\* So does the receiver that decodes an entry: it becomes the entry sent.
LEMMA RecvEntryInv ==
    ASSUME ListInv, RecvEntry
    PROVE  ListInv'
<1> USE DEF source
<1> DEFINE n == Len(rlist)
           N == Len(slist)
           m == Head(wire)
<1>1. /\ rpc = "recv" /\ wire # <<>> /\ ~IsEnd(m.flags)
      /\ rlist' = Append(rlist, recv_file_entry(m, Latest(rlist), rlist))
      /\ wire' = Tail(wire) /\ UNCHANGED <<opt, source, rpc, rpos, dtree>>
  BY DEF RecvEntry
<1>2. /\ slist \in Seq(Entries) /\ rlist \in Seq(Decoded) /\ N \in Nat /\ n \in Nat
      /\ IsSeq(wire) /\ SenderInv /\ Stream /\ SameList /\ TypeOK /\ next \in Nat
  BY DEF ListInv, TypeOK
<1>3. n < N /\ Encodes(m, n + 1) /\ spc # "walk"
  <2>1. n <= N /\ n # N
    BY <1>1, HeadFacts
  <2>2. n < N
    BY <2>1, <1>2
  <2>3. spc # "walk"
    BY <1>1, <1>2 DEF SenderInv
  <2> QED BY <1>1, <2>2, <2>3, HeadFacts
<1>4. recv_file_entry(m, Latest(rlist), rlist) = Received(slist[n + 1])
  BY <1>1, <1>2, <1>3, DecodeNext
<1>5. n + 1 \in DOMAIN slist /\ slist[n + 1] \in Entries
  BY <1>2, <1>3
<1> DEFINE r == Received(slist[n + 1])
<1>6. r \in Decoded /\ rlist' = Append(rlist, r)
  BY <1>1, <1>4, <1>5, ReceivedType
<1> HIDE DEF r
<1>7. /\ rlist' \in Seq(Decoded) /\ Len(rlist') = n + 1 /\ DOMAIN rlist' = 1..(n + 1)
      /\ rlist'[n + 1] = r /\ \A i \in 1..n : rlist'[i] = rlist[i]
  BY <1>2, <1>6
<1>8. /\ IsSeq(wire') /\ Len(wire') = Len(wire) - 1
      /\ \A j \in 1..(Len(wire) - 1) : wire'[j] = wire[j + 1]
  BY <1>1, <1>2, SeqOps
<1>9. Len(wire) \in Nat
  BY <1>2 DEF IsSeq
<1>f. /\ Quiet' /\ \A i \in DOMAIN slist' : Real(slist[i])' /\ Marked(slist, i)'
      /\ InOrder(slist)' = InOrder(slist)
      /\ \A x, i : Encodes(x, i)' = Encodes(x, i)
      /\ EndMessage' = EndMessage
  BY <1>1, <1>2, SenderFrame
<1>10. TypeOK'
  BY <1>1, <1>2, <1>7 DEF TypeOK
<1>11. SenderInv'
  BY <1>1, <1>2, <1>3, <1>f DEF SenderInv
<1>12. SameList'
  <2>1. ASSUME NEW i \in 1..(n + 1) PROVE rlist'[i] = Received(slist[i])
    <3>1. CASE i = n + 1
      BY <3>1, <1>7 DEF r
    <3>2. CASE i # n + 1
      <4>1. i \in 1..n /\ DOMAIN rlist = 1..n
        BY <3>2, <1>2
      <4> QED BY <4>1, <1>1, <1>2, <1>7 DEF SameList
    <3> QED BY <3>1, <3>2
  <2>2. \A i : Received(slist[i])' = Received(slist[i])
    BY <1>1 DEF Received, Follower
  <2> QED BY <2>1, <2>2, <1>7 DEF SameList
<1>13. Stream'
  <2>1. n + Len(wire) = (next - 1) + (IF spc = "sent" THEN 1 ELSE 0)
    BY <1>1, <1>2, <1>3 DEF Stream
  <2>2. n + 1 <= N /\ (n + 1) + Len(wire') = (next' - 1) + (IF spc' = "sent" THEN 1 ELSE 0)
    <3>1. next' = next /\ spc' = spc
      BY <1>1
    <3> HIDE DEF n, N
    <3> QED BY <3>1, <2>1, <1>2, <1>3, <1>8, <1>9
  <2>3. ASSUME NEW j \in 1..Len(wire')
        PROVE  /\ (n + 1) + j <= N => Encodes(wire'[j], (n + 1) + j)
               /\ (n + 1) + j > N => wire'[j] = EndMessage
    <3>1. j + 1 \in 1..Len(wire) /\ n + (j + 1) = (n + 1) + j /\ j \in 1..(Len(wire) - 1)
      BY <1>2, <1>8, <1>9
    <3>2. wire'[j] = wire[j + 1]
      BY <3>1, <1>8
    <3>3. /\ n + (j + 1) <= N => Encodes(wire[j + 1], n + (j + 1))
          /\ n + (j + 1) > N => wire[j + 1] = EndMessage
      BY <3>1, <1>1, <1>2, <1>3 DEF Stream
    <3> QED BY <3>1, <3>2, <3>3
  <2>4. Len(rlist)' = n + 1 /\ Len(slist)' = N
    BY <1>1, <1>7
  <2>5. ASSUME NEW j \in 1..Len(wire')
        PROVE  /\ (n + 1) + j <= N => Encodes(wire[j], Len(rlist) + j)'
               /\ (n + 1) + j > N => wire'[j] = EndMessage'
    BY <2>3, <2>4, <1>f
  <2> QED BY <2>2, <2>4, <2>5 DEF Stream
<1>14. After' /\ IsSeq(wire)'
  BY <1>1, <1>8 DEF After, IsSeq
<1> QED BY <1>10, <1>11, <1>12, <1>13, <1>14 DEF ListInv

\* The receiver's sort keeps every entry and renumbers its reference.
LEMMA RemapFacts ==
    ASSUME NEW list \in Seq(Decoded)
    PROVE  /\ Sortable(list)
           /\ SortedAndRemapped(list) \in Seq(Decoded)
           /\ Len(SortedAndRemapped(list)) = Len(list)
           /\ \A r \in DOMAIN list :
                LET o == Origin(list, r)
                    f == list[o].first
                IN  /\ o \in DOMAIN list
                    /\ SortedAndRemapped(list)[r]
                         = [list[o] EXCEPT !.first = IF f > 0 /\ f \in DOMAIN list
                                                     THEN Rank(list, f) ELSE f]
<1> DEFINE S == SortedAndRemapped(list)
           n == Len(list)
           old_to_new(f) == IF f \in DOMAIN list THEN Rank(list, f) ELSE f
           new(f) == IF f > 0 THEN old_to_new(f) ELSE f
<1>1. n \in Nat /\ DOMAIN list = 1..n /\ \A i \in 1..n : list[i] \in Decoded
  OBVIOUS
<1>2. Sortable(list)
  BY <1>1 DEF Sortable, Decoded
<1>3. S = [r \in 1..n |-> [flist_sort(list)[r] EXCEPT !.first = new(@)]]
  BY <1>1 DEF SortedAndRemapped
<1>4. ASSUME NEW r \in 1..n
      PROVE  /\ Origin(list, r) \in 1..n
             /\ S[r] = [list[Origin(list, r)] EXCEPT !.first = new(list[Origin(list, r)].first)]
             /\ S[r] \in Decoded
  <2> DEFINE o == Origin(list, r)
             e == list[o]
  <2>1. o \in 1..n /\ flist_sort(list)[r] = e
    BY <1>1, <1>2, OriginFacts, SortSorts
  <2>2. e \in Decoded
    BY <1>1, <2>1
  <2>3. e.first \in Nat
    BY <2>2 DEF Decoded
  <2>4. \A f \in 1..n : Rank(list, f) \in Nat
    BY <1>1, <1>2, RankFacts
  <2>5. new(e.first) \in Nat
    BY <1>1, <2>3, <2>4
  <2> HIDE DEF e, S, new
  <2>6. S[r] = [e EXCEPT !.first = new(e.first)]
    BY <1>3, <2>1
  <2>7. S[r] \in Decoded
    BY <2>2, <2>5, <2>6 DEF Decoded
  <2> QED BY <2>1, <2>6, <2>7 DEF e
<1>5. S \in Seq(Decoded) /\ Len(S) = n
  <2>1. DOMAIN S = 1..n /\ S = [r \in 1..n |-> S[r]]
    BY <1>3
  <2>3. \A r \in 1..n : S[r] \in Decoded
    BY <1>4
  <2> HIDE DEF S
  <2>2. [r \in 1..n |-> S[r]] \in Seq(Decoded)
    BY <1>1, <2>3, IsASeq
  <2> QED BY <2>1, <2>2, <1>1
<1> QED BY <1>1, <1>2, <1>4, <1>5

\* So does the receiver that sorts its list at the end.
LEMMA RecvEndInv ==
    ASSUME ListInv, RecvEnd
    PROVE  ListInv'
<1> USE DEF source
<1> DEFINE N == Len(slist)
<1>1. /\ rpc = "recv" /\ wire # <<>> /\ IsEnd(Head(wire).flags)
      /\ rlist' = SortedAndRemapped(rlist) /\ wire' = Tail(wire)
      /\ rpc' \in {"delete", "dirs"} /\ UNCHANGED <<opt, source, rpos, dtree>>
  BY DEF RecvEnd
<1>2. /\ slist \in Seq(Entries) /\ rlist \in Seq(Decoded) /\ N \in Nat
      /\ IsSeq(wire) /\ SenderInv /\ SameList /\ TypeOK
  BY DEF ListInv, TypeOK
<1>3. Len(rlist) = N /\ spc = "sent"
  BY <1>1, HeadFacts
<1>4. rlist = Images
  <2>1. DOMAIN rlist = 1..N /\ DOMAIN slist = 1..N
    BY <1>2, <1>3
  <2>2. rlist = [i \in 1..N |-> rlist[i]]
    BY <1>2, <2>1
  <2>3. \A i \in 1..N : rlist[i] = Received(slist[i])
    BY <1>1, <1>2, <2>1 DEF SameList
  <2> HIDE DEF N
  <2> QED BY <2>1, <2>2, <2>3 DEF Images
<1>5. /\ rlist' \in Seq(Decoded) /\ Len(rlist') = N
  BY <1>1, <1>2, <1>3, RemapFacts
<1>f. /\ Quiet' /\ \A i \in DOMAIN slist' : Real(slist[i])' /\ Marked(slist, i)'
      /\ InOrder(slist)' = InOrder(slist) /\ Images' = Images
  BY <1>1, <1>2, SenderFrame
<1>6. TypeOK'
  BY <1>1, <1>2, <1>3, <1>5 DEF TypeOK
<1>7. SenderInv'
  BY <1>1, <1>2, <1>3, <1>f DEF SenderInv
<1>8. IsSeq(wire)'
  <2>1. IsSeq(wire')
    BY <1>1, <1>2, SeqOps
  <2> QED BY <2>1 DEF IsSeq
<1>9. After'
  BY <1>1, <1>3, <1>4, <1>f DEF After
<1>10. Stream' /\ SameList'
  BY <1>1 DEF Stream, SameList
<1> QED BY <1>6, <1>7, <1>8, <1>9, <1>10 DEF ListInv

\* The receiver's later steps leave both lists alone.
LEMMA PlaceInv ==
    ASSUME ListInv, rpc # "recv", rpc' # "recv",
           rpc' \in {"recv", "delete", "dirs", "files", "links", "follow", "done", "failed"},
           rpos' \in 1..(Len(rlist) + 1), UNCHANGED <<opt, source, wire, rlist>>
    PROVE  ListInv'
<1> USE DEF source
<1>1. SenderInv /\ spc = "sent" /\ IsSeq(wire) /\ rlist = SortedAndRemapped(Images)
  BY DEF ListInv, After
<1>f. /\ Quiet' /\ \A i \in DOMAIN slist' : Real(slist[i])' /\ Marked(slist, i)'
      /\ InOrder(slist)' = InOrder(slist) /\ Images' = Images
  BY <1>1, SenderFrame
<1>2. TypeOK'
  BY DEF ListInv, TypeOK
<1>3. SenderInv'
  BY <1>1, <1>f DEF SenderInv
<1>4. After'
  BY <1>1, <1>f DEF After
<1>5. Stream' /\ SameList' /\ IsSeq(wire)'
  BY <1>1 DEF Stream, SameList, IsSeq
<1> QED BY <1>2, <1>3, <1>4, <1>5 DEF ListInv

\* The invariant holds initially.
LEMMA ListInvInit == Init => ListInv
<1> SUFFICES ASSUME Init PROVE ListInv
  OBVIOUS
<1> USE DEF Init
<1>1. TypeOK
  <2>1. opt \in Options /\ MaxTime \in Nat \ {0} /\ Dot \in Seq(Bytes)
    BY ListAssumption
  <2>2. attr \in [Inodes -> 1..MaxTime]
    BY <2>1
  <2>3. lines \in Seq(Seq(Bytes))
    BY <2>1 DEF Options
  <2> QED BY <2>2, <2>3 DEF TypeOK
<1>2. SenderInv
  BY DEF SenderInv, Quiet
<1>3. IsSeq(wire)
  BY DEF IsSeq
<1>4. Stream /\ SameList /\ After
  BY DEF Stream, SameList, After
<1> QED BY <1>1, <1>2, <1>3, <1>4 DEF ListInv

\* Every step keeps the invariant.
LEMMA ListInvStep ==
    ASSUME StableLinks, ListInv, [Next]_vars
    PROVE  ListInv'
<1>1. CASE ListLine
  BY <1>1, ListLineInv
<1>2. ASSUME NEW n \in Names, Visit(n) PROVE ListInv'
  BY <1>2, VisitInv
<1>3. CASE Leave
  BY <1>3, LeaveInv
<1>4. CASE SortAndMark
  BY <1>4, SortAndMarkInv
<1>5. CASE SendEntry \/ SendEnd
  BY <1>5, SendInv
<1>6. CASE RecvEntry
  BY <1>6, RecvEntryInv
<1>7. CASE RecvEnd
  BY <1>7, RecvEndInv
<1>8. rpos \in 1..(Len(rlist) + 1) /\ Len(rlist) \in Nat
  BY DEF ListInv, TypeOK
<1>9. CASE \/ delete_extraneous_from_flist \/ MakeDirs \/ TransferFiles \/ FailTransfer
           \/ MakeSymlinks \/ Finish
  <2>1. /\ rpc # "recv" /\ rpc' # "recv"
        /\ rpc' \in {"recv", "delete", "dirs", "files", "links", "follow", "done", "failed"}
        /\ UNCHANGED <<opt, source, wire, rlist, rpos>>
    BY <1>9 DEF delete_extraneous_from_flist, MakeDirs, TransferFiles, FailTransfer,
                MakeSymlinks, Finish
  <2> QED BY <2>1, <1>8, PlaceInv
<1>10. CASE LinkFollower
  <2>1. /\ rpc # "recv" /\ rpc' # "recv"
        /\ rpc' \in {"recv", "delete", "dirs", "files", "links", "follow", "done", "failed"}
        /\ rpos' = rpos + 1 /\ rpos <= Len(rlist) /\ UNCHANGED <<opt, source, wire, rlist>>
    BY <1>10 DEF LinkFollower
  <2>2. rpos' \in 1..(Len(rlist) + 1)
    BY <2>1, <1>8
  <2> QED BY <2>1, <2>2, PlaceInv
<1>11. ASSUME NEW i \in Inodes, Change(i) PROVE ListInv'
  BY <1>11, ChangeInv
<1>12. CASE UNCHANGED vars
  <2>1. SenderInv /\ UNCHANGED <<opt, attr, frames, lines, slist, next, spc, wire, rlist, rpc, rpos, dtree>>
    BY <1>12 DEF ListInv, vars, source, receiver
  <2>2. TypeOK' /\ IsSeq(wire)'
    BY <2>1 DEF ListInv, TypeOK, IsSeq
  <2>3. /\ Quiet' /\ \A i \in DOMAIN slist' : Real(slist[i])' /\ Marked(slist, i)'
        /\ InOrder(slist)' = InOrder(slist) /\ Images' = Images
        /\ \A m, i : Encodes(m, i)' = Encodes(m, i)
        /\ EndMessage' = EndMessage
    BY <2>1, SenderFrame
  <2>4. SenderInv'
    BY <2>1, <2>3 DEF SenderInv, Unmarked
  <2>5. Stream'
    BY <2>1, <2>3 DEF ListInv, Stream
  <2>6. SameList'
    BY <2>1 DEF ListInv, SameList, Received, Follower
  <2>7. After'
    BY <2>1, <2>3 DEF ListInv, After
  <2> QED BY <2>2, <2>4, <2>5, <2>6, <2>7 DEF ListInv
<1> QED BY <1>1, <1>2, <1>3, <1>4, <1>5, <1>6, <1>7, <1>9, <1>10, <1>11, <1>12 DEF Next, Over

-----------------------------------------------------------------------------
(* The theorems.                                                           *)

\* Every variable keeps its type and both lists stay aligned, whatever tree is
\* listed, in whatever order its directories are read (main.rs, flist/).
THEOREM ListInvariant ==
    ASSUME StableLinks
    PROVE  Spec => []ListInv
<1>1. Init => ListInv
  BY ListInvInit
<1>2. ListInv /\ [Next]_vars => ListInv'
  BY ListInvStep
<1> QED BY <1>1, <1>2, PTL DEF Spec

\* Every variable keeps its type.
THEOREM TypeCorrect ==
    ASSUME StableLinks
    PROVE  Spec => []TypeOK
<1>1. ListInv => TypeOK
  BY DEF ListInv
<1> QED BY <1>1, ListInvariant, PTL

\* What recv_file_entry has decoded is what send_file_entry was given: the
\* differences from the entry before always add up.
THEOREM DecodedIsSent ==
    ASSUME StableLinks
    PROVE  Spec => []SameList
<1>1. ListInv => SameList
  BY DEF ListInv
<1> QED BY <1>1, ListInvariant, PTL

\* The entries after the receiver's sort, and where their references lead.
LEMMA AfterFacts ==
    ASSUME ListInv, rpc # "recv"
    PROVE  /\ Images \in Seq(Decoded) /\ Len(Images) = Len(slist) /\ Len(slist) \in Nat
           /\ DOMAIN Images = 1..Len(slist) /\ DOMAIN slist = 1..Len(slist)
           /\ rlist = SortedAndRemapped(Images) /\ DOMAIN rlist = 1..Len(slist)
           /\ \A i \in DOMAIN slist :
                /\ Images[i] = Received(slist[i]) /\ slist[i] \in Entries
                /\ Images[i].name = slist[i].name /\ Images[i].type = slist[i].type
                /\ Images[i].first > 0 => /\ Images[i].first = slist[i].first
                                          /\ Images[i].first \in DOMAIN Images
<1> DEFINE n == Len(slist)
<1>1. slist \in Seq(Entries) /\ n \in Nat /\ DOMAIN slist = 1..n
      /\ \A i \in 1..n : slist[i] \in Entries
  BY DEF ListInv, TypeOK
<1>2. Images = [i \in 1..n |-> Received(slist[i])]
  BY <1>1 DEF Images
<1>3. \A i \in 1..n : Received(slist[i]) \in Decoded
  BY <1>1, ReceivedType
<1>4. Images \in Seq(Decoded) /\ DOMAIN Images = 1..n
  BY <1>1, <1>2, <1>3, IsASeq
<1>5. Len(Images) = n
  BY <1>1, <1>4
<1>6. rlist = SortedAndRemapped(Images)
  BY DEF ListInv, After
<1>7. DOMAIN rlist = 1..n
  <2>1. rlist \in Seq(Decoded) /\ Len(rlist) = n
    BY <1>4, <1>5, <1>6, RemapFacts
  <2> QED BY <2>1
<1>8. ASSUME NEW i \in 1..n
      PROVE  /\ Images[i] = Received(slist[i]) /\ Images[i].name = slist[i].name
             /\ Images[i].type = slist[i].type
             /\ Images[i].first > 0 => /\ Images[i].first = slist[i].first
                                       /\ Images[i].first \in DOMAIN Images
  <2>1. Images[i] = Received(slist[i])
    BY <1>2
  <2>2. Marked(slist, i)
    BY <1>1 DEF ListInv, SenderInv
  <2>3. Images[i].name = slist[i].name /\ Images[i].type = slist[i].type
        /\ (Images[i].first = slist[i].first \/ Images[i].first = 0)
    BY <2>1 DEF Received
  <2>4. slist[i].first > 0 => slist[i].first \in 1..n
    BY <2>2, <1>1 DEF Marked
  <2> QED BY <2>1, <2>3, <2>4, <1>4
<1> QED BY <1>1, <1>4, <1>5, <1>6, <1>7, <1>8

\* An index names the same file on both sides after the receiver's sort.
THEOREM IndexAgreed ==
    ASSUME StableLinks
    PROVE  Spec => []SameIndex
<1>1. ASSUME ListInv PROVE SameIndex
  <2> SUFFICES ASSUME rpc # "recv", ~opt.foreign
               PROVE  Len(rlist) = Len(slist) /\ \A i \in DOMAIN rlist : rlist[i] = Received(slist[i])
    BY DEF SameIndex
  <2> DEFINE I == Images
             n == Len(slist)
  <2>1. /\ I \in Seq(Decoded) /\ Len(I) = n /\ n \in Nat
        /\ DOMAIN I = 1..n /\ DOMAIN slist = 1..n
        /\ rlist = SortedAndRemapped(I) /\ DOMAIN rlist = 1..n
    BY <1>1, AfterFacts
  <2>e. ASSUME NEW i \in 1..n
        PROVE  /\ I[i] = Received(slist[i])
               /\ I[i].name = slist[i].name /\ I[i].type = slist[i].type
               /\ I[i].first > 0 => I[i].first \in 1..n
    BY <1>1, AfterFacts
  <2>2. InOrder(slist)
    BY <1>1 DEF ListInv, SenderInv, After
  <2> HIDE DEF I
  <2>3. Sortable(I) /\ Len(rlist) = n
    BY <2>1, RemapFacts
  <2>4. \A i, j \in DOMAIN I : i < j => ~file_compare(I[j], I[i])
    <3> SUFFICES ASSUME NEW i \in 1..n, NEW j \in 1..n, i < j PROVE ~file_compare(I[j], I[i])
      BY <2>1
    <3>1. ~file_compare(slist[j], slist[i])
      BY <2>1, <2>2 DEF InOrder
    <3>2. file_compare(I[j], I[i]) = file_compare(slist[j], slist[i])
      <4>1. /\ I[i].name = slist[i].name /\ I[i].type = slist[i].type
            /\ I[j].name = slist[j].name /\ I[j].type = slist[j].type
        BY <2>e
      <4> QED BY <4>1, SameOrder
    <3> QED BY <3>1, <3>2
  <2>5. \A i \in 1..n : Rank(I, i) = i /\ Origin(I, i) = i
    BY <2>1, <2>3, <2>4, SortOfSorted
  <2>6. ASSUME NEW i \in 1..n PROVE rlist[i] = I[i]
    <3> DEFINE f == I[i].first
    <3>1. rlist[i] = [I[i] EXCEPT !.first = IF f > 0 /\ f \in DOMAIN I THEN Rank(I, f) ELSE f]
      <4>1. i \in DOMAIN I /\ Origin(I, i) = i
        BY <2>1, <2>5
      <4>2. LET g == I[Origin(I, i)].first
            IN  SortedAndRemapped(I)[i]
                  = [I[Origin(I, i)] EXCEPT !.first = IF g > 0 /\ g \in DOMAIN I
                                                      THEN Rank(I, g) ELSE g]
        BY <2>1, <4>1, RemapFacts
      <4> QED BY <2>1, <4>1, <4>2
    <3>2. (IF f > 0 /\ f \in DOMAIN I THEN Rank(I, f) ELSE f) = f
      BY <2>1, <2>5
    <3>3. I[i] \in Decoded
      BY <2>1
    <3>4. rlist[i] = [I[i] EXCEPT !.first = I[i].first]
      BY <3>1, <3>2
    <3> QED BY <3>3, <3>4 DEF Decoded
  <2>7. ASSUME NEW i \in DOMAIN rlist PROVE rlist[i] = Received(slist[i])
    <3>1. i \in 1..n
      BY <2>1
    <3> QED BY <3>1, <2>6, <2>e
  <2> QED BY <2>3, <2>7
<1> QED BY <1>1, ListInvariant, PTL

\* A reference leads to a name of the same inode that is no follower itself.
LEMMA GroupsHold ==
    ASSUME ListInv
    PROVE  GroupsKept
<1> SUFFICES ASSUME rpc # "recv", NEW r \in DOMAIN rlist, rlist[r].first > 0
             PROVE  /\ rlist[r].first \in DOMAIN rlist
                    /\ Tree[rlist[rlist[r].first].name] = Tree[rlist[r].name]
                    /\ rlist[rlist[r].first].first = 0
  BY DEF GroupsKept
<1> DEFINE I == Images
           n == Len(slist)
           o == Origin(I, r)
           f == I[o].first
           q == Rank(I, f)
<1>1. /\ I \in Seq(Decoded) /\ Len(I) = n /\ n \in Nat
      /\ DOMAIN I = 1..n /\ DOMAIN slist = 1..n
      /\ rlist = SortedAndRemapped(I) /\ DOMAIN rlist = 1..n
  BY AfterFacts
<1>e. ASSUME NEW i \in 1..n
      PROVE  /\ I[i] = Received(slist[i]) /\ I[i].name = slist[i].name
             /\ I[i].first > 0 => I[i].first = slist[i].first /\ I[i].first \in 1..n
  BY AfterFacts
<1>2. \A i \in 1..n : Real(slist[i]) /\ Marked(slist, i)
  BY <1>1 DEF ListInv, SenderInv
<1> HIDE DEF I
<1>3. /\ Sortable(I) /\ o \in 1..n
      /\ rlist[r] = [I[o] EXCEPT !.first = IF f > 0 /\ f \in DOMAIN I THEN q ELSE f]
  BY <1>1, RemapFacts
<1>4. I[o] \in Decoded /\ f \in Nat
  <2>1. I[o] \in Decoded
    BY <1>1, <1>3
  <2> QED BY <2>1 DEF Decoded
<1> HIDE DEF o, f, q
<1>5. rlist[r].name = I[o].name /\ rlist[r].first = IF f > 0 /\ f \in DOMAIN I THEN q ELSE f
  BY <1>3, <1>4 DEF Decoded
<1>6. f > 0
  BY <1>4, <1>5
<1>7. f = slist[o].first /\ f \in 1..n
  <2>1. I[o].first > 0 => I[o].first = slist[o].first /\ I[o].first \in 1..n
    BY <1>3, <1>e
  <2> QED BY <2>1, <1>6 DEF f
<1>8. rlist[r].first = q /\ q \in 1..n /\ Origin(I, q) = f
  <2>1. rlist[r].first = q
    BY <1>1, <1>5, <1>6, <1>7
  <2>2. q \in 1..n /\ Origin(I, q) = f
    BY <1>1, <1>3, <1>7, RankFacts, OriginFacts DEF q
  <2> QED BY <2>1, <2>2
<1>9. slist[f].first = 0 /\ slist[f].ino = slist[o].ino
  BY <1>2, <1>3, <1>6, <1>7 DEF Marked
<1>10. I[f].first = 0 /\ I[f] \in Decoded
  <2>1. I[f] = Received(slist[f]) /\ I[f] \in Decoded
    BY <1>1, <1>7, <1>e
  <2>2. Received(slist[f]).first = 0
    BY <1>9 DEF Received
  <2> QED BY <2>1, <2>2
<1>11. rlist[q] = [I[f] EXCEPT !.first = 0]
  <2>1. LET g == I[Origin(I, q)].first
        IN  rlist[q] = [I[Origin(I, q)] EXCEPT !.first = IF g > 0 /\ g \in DOMAIN I
                                                           THEN Rank(I, g) ELSE g]
    <3>1. q \in DOMAIN I
      BY <1>1, <1>8
    <3> QED BY <1>1, <3>1, RemapFacts
  <2> QED BY <2>1, <1>8, <1>10
<1>12. rlist[q].first = 0 /\ rlist[q].name = slist[f].name
  <2>1. rlist[q].first = 0 /\ rlist[q].name = I[f].name
    BY <1>10, <1>11 DEF Decoded
  <2>2. I[f].name = slist[f].name
    BY <1>7, <1>e
  <2> QED BY <2>1, <2>2
<1>13. Tree[slist[f].name] = Tree[slist[o].name]
  BY <1>2, <1>3, <1>7, <1>9 DEF Real
<1>14. rlist[r].name = slist[o].name
  <2>1. I[o].name = slist[o].name
    BY <1>3, <1>e
  <2> QED BY <2>1, <1>5
<1> QED BY <1>1, <1>8, <1>12, <1>13, <1>14

\* The receiver's sort keeps hard-link groups together, in whatever order the
\* peer sent them.
THEOREM GroupsAreKept ==
    ASSUME StableLinks
    PROVE  Spec => []GroupsKept
<1>1. ListInv => GroupsKept
  BY GroupsHold
<1> QED BY <1>1, ListInvariant, PTL

\* The receiver reads the fields that were written and finds the end of the
\* list where it is.
THEOREM StreamAligned ==
    ASSUME StableLinks, DevicesSent
    PROVE  Spec => []AlignedList
<1>1. ASSUME ListInv PROVE AlignedList
  <2> DEFINE m == Head(wire)
             n == Len(rlist)
             N == Len(slist)
             e == slist[n + 1]
  <2> SUFFICES ASSUME rpc = "recv", wire # <<>>
               PROVE  /\ IsEnd(m.flags) <=> n = N
                      /\ DOMAIN m.f = IF IsEnd(m.flags) THEN TrailerRead(m.flags)
                                      ELSE FieldsRead(m, Latest(rlist))
    BY DEF AlignedList
  <2>1. /\ n \in Nat /\ N \in Nat /\ n <= N /\ (n < N => Encodes(m, n + 1))
        /\ (n = N => m = EndMessage) /\ (IsEnd(m.flags) <=> n = N)
    BY <1>1, HeadFacts
  <2>2. CASE n = N
    <3>1. DOMAIN m.f = Trailer /\ m.flags = EndFlags
      BY <2>1, <2>2 DEF EndMessage
    <3>2. opt.protocol \in Nat
      BY <1>1, ListAssumption DEF ListInv, TypeOK, Options
    <3>3. Trailer = TrailerRead(EndFlags)
      BY <3>2 DEF Trailer, TrailerRead, EndFlags, When, EXTENDED, IO_ERROR_ENDLIST
    <3> QED BY <2>1, <2>2, <3>1, <3>3
  <2>3. CASE n # N
    <3>1. n < N /\ Encodes(m, n + 1)
      BY <2>1, <2>3
    <3> DEFINE t == Mode(m, Latest(rlist))[1]
    <3>2. /\ ~IsEnd(m.flags)
          /\ IsFollower(m) => DOMAIN m.f = {"first"}
          /\ ~IsFollower(m) => /\ DOMAIN m.f = FieldsWritten(e, m.flags) /\ ~Follower(e)
                               /\ t = e.type /\ (opt.owner \/ SAME_UID \in m.flags)
      BY <1>1, <2>1, <3>1, DecodeNext
    <3>3. CASE IsFollower(m)
      <4>1. FieldsRead(m, Latest(rlist)) = {"first"}
        BY <3>3 DEF FieldsRead
      <4> QED BY <4>1, <2>1, <3>2, <3>3
    <3>4. CASE ~IsFollower(m)
      <4>1. n + 1 \in DOMAIN slist /\ Real(e)
        <5>1. n + 1 \in DOMAIN slist
          BY <1>1, <2>1, <3>1 DEF ListInv, TypeOK
        <5> QED BY <5>1, <1>1 DEF ListInv, SenderInv
      <4>2. opt \in OptionSets /\ e.ino \in Inodes /\ e.type = Node[e.ino].type
        BY <1>1, <4>1, ListAssumption DEF ListInv, TypeOK, Real
      <4>3. WithRdev(e.type) => opt.devices
        <5>1. opt.protocol \in Nat
          BY <4>2, ListAssumption DEF Options
        <5> QED BY <5>1, <4>2 DEF WithRdev, DevicesSent
      <4> HIDE DEF e, t, m
      <4>4. FieldsRead(m, Latest(rlist)) = FieldsWritten(e, m.flags)
        BY <3>2, <3>4, <4>3 DEF FieldsRead, FieldsWritten, When, t
      <4> QED BY <2>1, <3>2, <3>4, <4>4
    <3> QED BY <3>3, <3>4
  <2> QED BY <2>2, <2>3
<1> QED BY <1>1, ListInvariant, PTL
-----------------------------------------------------------------------------
(* The names as a tree.                                                    *)

\* What stands before a slash in a name.
LEMMA CutFacts ==
    ASSUME NEW n \in Seq(Bytes), NEW i \in Slashes(n)
    PROVE  LET d == SubSeq(n, 1, i - 1)
           IN  /\ d \in Seq(Bytes) /\ Len(d) = i - 1 /\ i \in 1..Len(n)
               /\ Slashes(d) = {j \in Slashes(n) : j < i}
               /\ \A j \in Slashes(d) : SubSeq(d, 1, j - 1) = SubSeq(n, 1, j - 1)
<1> DEFINE d == SubSeq(n, 1, i - 1)
<1>1. Len(n) \in Nat /\ i \in 1..Len(n)
  BY DEF Slashes
<1>2. /\ d \in Seq(Bytes) /\ Len(d) = i - 1
      /\ \A j \in 1..(i - 1) : d[j] = n[j]
  BY <1>1
<1>3. Slashes(d) = {j \in Slashes(n) : j < i}
  BY <1>1, <1>2 DEF Slashes
<1>4. ASSUME NEW j \in Slashes(d)
      PROVE  SubSeq(d, 1, j - 1) = SubSeq(n, 1, j - 1)
  <2>1. j \in 1..(i - 1)
    BY <1>2 DEF Slashes
  <2> DEFINE a == SubSeq(d, 1, j - 1)
             b == SubSeq(n, 1, j - 1)
  <2>2. a \in Seq(Bytes) /\ Len(a) = j - 1 /\ \A k \in 1..(j - 1) : a[k] = d[k]
    BY <2>1, <1>1, <1>2
  <2>3. b \in Seq(Bytes) /\ Len(b) = j - 1 /\ \A k \in 1..(j - 1) : b[k] = n[k]
    BY <2>1, <1>1
  <2>4. \A k \in 1..Len(a) : a[k] = b[k]
    BY <2>1, <2>2, <2>3, <1>2
  <2> HIDE DEF a, b, d
  <2>5. a = b
    BY <2>2, <2>3, <2>4, SeqEqual
  <2> QED BY <2>5 DEF a, b
<1> QED BY <1>1, <1>2, <1>3, <1>4

\* The names before the slashes of a name lie one within the other.
LEMMA Line ==
    ASSUME NEW n \in Names
    PROVE  /\ n \in Seq(Bytes) /\ n \notin Ancestors(n)
           /\ \A d \in Ancestors(n) :
                /\ d \in Names /\ d # Dot /\ Type(d) = "dir"
                /\ Ancestors(d) \subseteq Ancestors(n)
                /\ \A e \in Ancestors(n) : e = d \/ e \in Ancestors(d) \/ d \in Ancestors(e)
<1>1. n \in Seq(Bytes) /\ Len(n) \in Nat
  BY ListAssumption
<1>2. n \notin Ancestors(n)
  BY <1>1, CutFacts DEF Ancestors
<1>3. ASSUME NEW d \in Ancestors(n)
      PROVE  /\ d \in Names /\ d # Dot /\ Type(d) = "dir"
             /\ Ancestors(d) \subseteq Ancestors(n)
             /\ \A e \in Ancestors(n) : e = d \/ e \in Ancestors(d) \/ d \in Ancestors(e)
  <2>1. d \in Names /\ d # Dot /\ Type(d) = "dir"
    BY TreeAssumption DEF Type
  <2>2. PICK i \in Slashes(n) : d = SubSeq(n, 1, i - 1)
    BY DEF Ancestors
  <2>3. Ancestors(d) \subseteq Ancestors(n)
    <3>1. /\ Slashes(d) \subseteq Slashes(n)
          /\ \A j \in Slashes(d) : SubSeq(d, 1, j - 1) = SubSeq(n, 1, j - 1)
      BY <2>2, <1>1, CutFacts
    <3> QED BY <3>1 DEF Ancestors
  <2>4. ASSUME NEW e \in Ancestors(n)
        PROVE  e = d \/ e \in Ancestors(d) \/ d \in Ancestors(e)
    <3>1. PICK j \in Slashes(n) : e = SubSeq(n, 1, j - 1)
      BY DEF Ancestors
    <3>2. i \in Nat /\ j \in Nat
      BY <1>1 DEF Slashes
    <3>3. CASE i = j
      BY <3>1, <3>3, <2>2
    <3>4. CASE j < i
      <4>1. j \in Slashes(d) /\ SubSeq(d, 1, j - 1) = e
        BY <3>1, <3>4, <2>2, <1>1, CutFacts
      <4> QED BY <4>1 DEF Ancestors
    <3>5. CASE i < j
      <4>1. i \in Slashes(e) /\ SubSeq(e, 1, i - 1) = d
        BY <3>1, <3>5, <2>2, <1>1, CutFacts
      <4> QED BY <4>1 DEF Ancestors
    <3> QED BY <3>2, <3>3, <3>4, <3>5
  <2> QED BY <2>1, <2>3, <2>4
<1> QED BY <1>1, <1>2, <1>3

-----------------------------------------------------------------------------
(* The names in the destination tree.                                      *)

\* What the receiver knows of an entry it puts in place: the type of what has
\* its name in the source, and that a follower's leader is a regular file.
LEMMA PlaceFacts ==
    ASSUME ListInv, rpc # "recv"
    PROVE  /\ Len(rlist) \in Nat /\ DOMAIN rlist = 1..Len(rlist)
           /\ \A r \in DOMAIN rlist :
                /\ rlist[r].name \in Names /\ rlist[r].first \in Nat
                /\ rlist[r].type = Node[Tree[rlist[r].name]].type
                /\ rlist[r].first > 0 =>
                     /\ rlist[r].type = "file" /\ rlist[r].first \in DOMAIN rlist
                     /\ rlist[rlist[r].first].type = "file" /\ rlist[rlist[r].first].first = 0
                     /\ Tree[rlist[rlist[r].first].name] = Tree[rlist[r].name]
<1> DEFINE I == Images
           n == Len(slist)
<1>1. /\ I \in Seq(Decoded) /\ Len(I) = n /\ n \in Nat
      /\ DOMAIN I = 1..n /\ DOMAIN slist = 1..n
      /\ rlist = SortedAndRemapped(I) /\ DOMAIN rlist = 1..n
  BY AfterFacts
<1>2. ASSUME NEW i \in 1..n
      PROVE  /\ I[i].name = slist[i].name /\ I[i].type = slist[i].type
             /\ I[i].first > 0 => I[i].first = slist[i].first
  BY AfterFacts
<1>3. \A i \in 1..n : Real(slist[i]) /\ Marked(slist, i)
  BY <1>1 DEF ListInv, SenderInv
<1>4. GroupsKept
  BY GroupsHold
<1> HIDE DEF I
<1>5. rlist \in Seq(Decoded) /\ Len(rlist) = n
  BY <1>1, RemapFacts
<1>6. ASSUME NEW r \in 1..n
      PROVE  /\ rlist[r].name \in Names /\ rlist[r].first \in Nat
             /\ rlist[r].type = Node[Tree[rlist[r].name]].type
             /\ rlist[r].first > 0 => rlist[r].type = "file"
  <2> DEFINE o == Origin(I, r)
             f == I[o].first
             g == IF f > 0 /\ f \in DOMAIN I THEN Rank(I, f) ELSE f
  <2>1. o \in 1..n /\ rlist[r] = [I[o] EXCEPT !.first = g]
    BY <1>1, RemapFacts
  <2>2. I[o] \in Decoded /\ rlist[r] \in Decoded
    BY <1>1, <1>5, <2>1
  <2>3. I[o].name = slist[o].name /\ I[o].type = slist[o].type
        /\ (I[o].first > 0 => I[o].first = slist[o].first)
    BY <2>1, <1>2
  <2>4. Real(slist[o]) /\ Marked(slist, o)
    BY <2>1, <1>3
  <2> HIDE DEF o
  <2>5. rlist[r].name = I[o].name /\ rlist[r].type = I[o].type /\ rlist[r].first = g
    BY <2>1, <2>2 DEF Decoded
  <2>6. rlist[r].name \in Names /\ rlist[r].type = Node[Tree[rlist[r].name]].type
    BY <2>3, <2>4, <2>5 DEF Real
  <2>7. f \in Nat /\ rlist[r].first \in Nat
    BY <2>2 DEF Decoded
  <2>8. rlist[r].first > 0 => f > 0
    BY <2>5, <2>7
  <2>9. f > 0 => I[o].type = "file"
    BY <2>3, <2>4 DEF Marked
  <2> QED BY <2>5, <2>6, <2>7, <2>8, <2>9
<1>7. ASSUME NEW r \in 1..n, rlist[r].first > 0
      PROVE  /\ rlist[r].first \in DOMAIN rlist
             /\ rlist[rlist[r].first].type = "file" /\ rlist[rlist[r].first].first = 0
             /\ Tree[rlist[rlist[r].first].name] = Tree[rlist[r].name]
  <2> DEFINE q == rlist[r].first
  <2>1. q \in 1..n /\ Tree[rlist[q].name] = Tree[rlist[r].name] /\ rlist[q].first = 0
    BY <1>1, <1>4, <1>7 DEF GroupsKept
  <2>2. rlist[q].type = Node[Tree[rlist[q].name]].type
    BY <2>1, <1>6
  <2>3. rlist[r].type = Node[Tree[rlist[r].name]].type /\ rlist[r].type = "file"
    BY <1>6, <1>7
  <2> QED BY <1>1, <2>1, <2>2, <2>3
<1> QED BY <1>1, <1>5, <1>6, <1>7

\* Names pass for their own ancestors, and more names for more.
LEMMA AncestorFacts ==
    ASSUME NEW S, NEW T, S \subseteq T
    PROVE  S \subseteq WithAncestors(S) /\ WithAncestors(S) \subseteq WithAncestors(T)
BY DEF WithAncestors

\* What is kept is kept with what it is in, and trouble reaches what is below it.
LEMMA KeptClosed ==
    ASSUME ListInv, rpc # "recv"
    PROVE  /\ \A n \in Kept : Ancestors(n) \subseteq Kept
           /\ Kept \subseteq WithAncestors(Listed(rlist))
           /\ \A i \in DOMAIN rlist : rlist[i].name # Dot => rlist[i].name \in Kept
           /\ \A i \in DOMAIN rlist : \A a \in Ancestors(rlist[i].name) :
                /\ Ancestors(a) \subseteq Ancestors(rlist[i].name)
                /\ Troubled(a) => Troubled(rlist[i].name)
<1>1. \A i \in DOMAIN rlist : rlist[i].name \in Names
  BY PlaceFacts
<1>2. ASSUME NEW n \in Kept PROVE Ancestors(n) \subseteq Kept
  <2>1. PICK i \in DOMAIN rlist : /\ rlist[i].name # Dot
                                  /\ n = rlist[i].name \/ n \in Ancestors(rlist[i].name)
    BY <1>2 DEF Kept, WithAncestors, Listed
  <2>2. Ancestors(rlist[i].name) \subseteq Kept
    BY <2>1 DEF Kept, WithAncestors, Listed
  <2>3. n \in Ancestors(rlist[i].name) => Ancestors(n) \subseteq Ancestors(rlist[i].name)
    BY <1>1, Line
  <2> QED BY <2>1, <2>2, <2>3
<1>3. Kept \subseteq WithAncestors(Listed(rlist))
  BY AncestorFacts DEF Kept
<1>4. ASSUME NEW i \in DOMAIN rlist, rlist[i].name # Dot PROVE rlist[i].name \in Kept
  BY <1>4 DEF Kept, WithAncestors, Listed
<1>5. ASSUME NEW i \in DOMAIN rlist, NEW a \in Ancestors(rlist[i].name)
      PROVE  Ancestors(a) \subseteq Ancestors(rlist[i].name)
  BY <1>1, Line
<1>6. ASSUME NEW i \in DOMAIN rlist, NEW a \in Ancestors(rlist[i].name), Troubled(a)
      PROVE  Troubled(rlist[i].name)
  BY <1>5, <1>6 DEF Troubled
<1> QED BY <1>2, <1>3, <1>4, <1>5, <1>6

\* How far the receiver has come, and the names it has put in place by then.
Extraneous == opt.delete => \A n \in dtree \ WithAncestors(Listed(rlist)) : Excused(n, dtree)

There(i) == rlist[i].name \in dtree \/ Missable(rlist[i])

DirsThere      == \A i \in DOMAIN rlist : rlist[i].type = "dir" /\ rlist[i].name # Dot => There(i)
FilesThere     == \A i \in DOMAIN rlist : rlist[i].type = "file" /\ rlist[i].first = 0 => There(i)
LinksThere     == \A i \in DOMAIN rlist : rlist[i].type = "symlink" => There(i)
FollowersThere == \A i \in DOMAIN rlist : rlist[i].first > 0 /\ i < rpos => There(i)

Remaining ==
    /\ rpc \in {"files", "links", "follow", "done"} => DirsThere
    /\ rpc \in {"links", "follow", "done"} => FilesThere
    /\ rpc \in {"follow", "done"} => LinksThere /\ FollowersThere

InPlace ==
    /\ rpc \notin {"recv", "delete", "failed"} => Extraneous
    /\ Distinct(rlist) => Remaining
    /\ rpc = "done" => rpos = Len(rlist) + 1
    /\ rpc \notin {"follow", "done"} => rpos = 1

PlacedInv == ListInv /\ InPlace

\* What holds of the list alone goes on to hold.
LEMMA SameWords ==
    ASSUME UNCHANGED <<opt, rlist>>
    PROVE  /\ Kept' = Kept /\ Listed(rlist)' = Listed(rlist)
           /\ \A n : Troubled(n)' = Troubled(n)
           /\ \A i : Missable(rlist[i])' = Missable(rlist[i])
           /\ \A n, S : Excused(n, S)' = Excused(n, S)
<1>1. Listed(rlist)' = Listed(rlist) /\ \A n : Troubled(n)' = Troubled(n)
  BY DEF Listed, Troubled
<1>2. Kept' = Kept
  BY <1>1 DEF Kept
<1>3. ASSUME NEW i PROVE Missable(rlist[i])' = Missable(rlist[i])
  BY <1>1 DEF Missable
<1>4. ASSUME NEW n, NEW S PROVE Excused(n, S)' = Excused(n, S)
  BY <1>1, <1>2 DEF Excused
<1> QED BY <1>1, <1>2, <1>3, <1>4

\* A tree that has lost nothing it must have is as good.
LEMMA MoreInPlace ==
    ASSUME UNCHANGED <<opt, rlist>>,
           \A i \in DOMAIN rlist :
              rlist[i].name \in dtree /\ rlist[i].name \notin dtree' => Missable(rlist[i])
    PROVE  /\ \A i \in DOMAIN rlist : There(i) => There(i)'
           /\ (DirsThere => DirsThere') /\ (FilesThere => FilesThere') /\ (LinksThere => LinksThere')
           /\ (FollowersThere /\ UNCHANGED rpos => FollowersThere')
<1>1. ASSUME NEW i \in DOMAIN rlist, There(i) PROVE There(i)'
  <2>1. There(i)' <=> rlist[i].name \in dtree' \/ Missable(rlist[i])
    BY SameWords DEF There
  <2> QED BY <1>1, <2>1 DEF There
<1>2. DirsThere => DirsThere'
  BY <1>1 DEF DirsThere
<1>3. FilesThere => FilesThere'
  BY <1>1 DEF FilesThere
<1>4. LinksThere => LinksThere'
  BY <1>1 DEF LinksThere
<1>5. FollowersThere /\ UNCHANGED rpos => FollowersThere'
  BY <1>1 DEF FollowersThere
<1> QED BY <1>1, <1>2, <1>3, <1>4, <1>5

\* What is there beside the list stays excused while nothing of it comes or goes.
LEMMA StillExcused ==
    ASSUME ListInv, rpc # "recv", UNCHANGED <<opt, rlist>>, Extraneous,
           dtree' \subseteq dtree \cup WithAncestors(Listed(rlist)), dtree \ Kept \subseteq dtree'
    PROVE  Extraneous'
<1> SUFFICES ASSUME opt.delete, NEW n \in dtree' \ WithAncestors(Listed(rlist))
             PROVE  Excused(n, dtree')
  BY SameWords DEF Extraneous
<1>1. Excused(n, dtree)
  BY DEF Extraneous
<1>2. ASSUME NEW f \in opt.faulty \cap dtree,
             (({n} \cup Ancestors(n)) \cap ({f} \cup Ancestors(f))) \ Kept # {}
      PROVE  f \in dtree'
  <2>1. f \notin Kept
    BY <1>2, KeptClosed
  <2> QED BY <2>1
<1> QED BY <1>1, <1>2 DEF Excused

\* What create_dir_all makes, and why it leaves out the rest.
LEMMA MadeFacts ==
    ASSUME NEW D, NEW made \in Makeable(D)
    PROVE  /\ made \subseteq WithAncestors(D)
           /\ \A n \in D : n \in dtree \cup made \/ Troubled(n)
BY DEF Makeable, WithAncestors

\* Deleting, making directories and transferring files.
LEMMA MakeStep ==
    ASSUME PlacedInv, delete_extraneous_from_flist \/ MakeDirs \/ TransferFiles \/ FailTransfer
    PROVE  InPlace'
<1>1. CASE delete_extraneous_from_flist
  <2>1. rpc = "delete" /\ rpc' = "dirs" /\ UNCHANGED <<opt, rlist, rpos>>
    BY <1>1 DEF delete_extraneous_from_flist
  <2>2. PICK left \in SUBSET (dtree \ Kept) :
            /\ \A n \in left : Excused(n, left) /\ Ancestors(n) \cap dtree \subseteq Kept \cup left
            /\ dtree' = (dtree \cap Kept) \cup left
    BY <1>1 DEF delete_extraneous_from_flist
  <2>3. Kept \subseteq WithAncestors(Listed(rlist))
    BY <2>1, KeptClosed DEF PlacedInv
  <2>4. ASSUME NEW n \in dtree' \ WithAncestors(Listed(rlist)) PROVE Excused(n, dtree')
    <3>1. Excused(n, left) /\ left \subseteq dtree'
      BY <2>2, <2>3, <2>4
    <3> QED BY <3>1 DEF Excused
  <2>5. Extraneous'
    BY <2>1, <2>4, SameWords DEF Extraneous
  <2>6. Remaining'
    BY <2>1 DEF Remaining
  <2> QED BY <2>1, <2>5, <2>6 DEF PlacedInv, InPlace
<1>2. CASE MakeDirs
  <2> DEFINE S == Of("dir") \ {Dot}
  <2>1. rpc = "dirs" /\ rpc' = "files" /\ UNCHANGED <<opt, rlist, rpos>>
    BY <1>2 DEF MakeDirs
  <2>2. PICK made \in Makeable(S) : dtree' = dtree \cup made
    BY <1>2 DEF MakeDirs
  <2>3. /\ made \subseteq WithAncestors(S) /\ \A n \in S : n \in dtree' \/ Troubled(n)
        /\ WithAncestors(S) \subseteq WithAncestors(Listed(rlist))
    <3>1. S \subseteq Listed(rlist)
      BY DEF Of, Listed
    <3> QED BY <2>2, <3>1, MadeFacts, AncestorFacts
  <2>4. Extraneous /\ rpos = 1
    BY <2>1 DEF PlacedInv, InPlace
  <2>5. Extraneous'
    BY <2>1, <2>2, <2>3, <2>4, StillExcused DEF PlacedInv
  <2>6. ASSUME NEW i \in DOMAIN rlist, rlist[i].type = "dir", rlist[i].name # Dot
        PROVE  There(i)'
    <3>1. rlist[i].first = 0
      <4>1. rlist[i].first \in Nat /\ ~(rlist[i].first > 0)
        BY <2>1, <2>6, PlaceFacts DEF PlacedInv
      <4> QED BY <4>1
    <3>2. rlist[i].name \in dtree' \/ Missable(rlist[i])
      BY <2>3, <2>6, <3>1 DEF Of, Missable
    <3> QED BY <2>1, <3>2, SameWords DEF There
  <2>7. DirsThere'
    BY <2>1, <2>6 DEF DirsThere
  <2>8. Remaining'
    BY <2>1, <2>7 DEF Remaining
  <2> QED BY <2>1, <2>4, <2>5, <2>8 DEF InPlace
<1>3. CASE TransferFiles
  <2>1. /\ rpc = "files" /\ rpc' = "links" /\ UNCHANGED <<opt, rlist, rpos>>
        /\ dtree' = dtree \cup WithAncestors(Wanted)
    BY <1>3 DEF TransferFiles
  <2>2. Wanted \subseteq WithAncestors(Wanted) /\ WithAncestors(Wanted) \subseteq WithAncestors(Listed(rlist))
    <3>1. Wanted \subseteq Listed(rlist)
      BY DEF Wanted, Of, Listed
    <3> QED BY <3>1, AncestorFacts
  <2>3. Extraneous /\ rpos = 1 /\ (Distinct(rlist) => DirsThere)
    BY <2>1 DEF PlacedInv, InPlace, Remaining
  <2>4. Extraneous'
    BY <2>1, <2>2, <2>3, StillExcused DEF PlacedInv
  <2>5. DirsThere => DirsThere'
    BY <2>1, MoreInPlace
  <2>6. ASSUME NEW i \in DOMAIN rlist, rlist[i].type = "file", rlist[i].first = 0
        PROVE  There(i)'
    <3>1. rlist[i].name \in Wanted \/ Missable(rlist[i])
      BY <2>6 DEF Wanted, Of, Missable
    <3> QED BY <2>1, <2>2, <3>1, SameWords DEF There
  <2>7. FilesThere'
    BY <2>1, <2>6 DEF FilesThere
  <2>8. Distinct(rlist)' => Remaining'
    BY <2>1, <2>3, <2>5, <2>7 DEF Remaining, Distinct
  <2> QED BY <2>1, <2>3, <2>4, <2>8 DEF InPlace
<1>4. CASE FailTransfer
  <2>1. rpc = "files" /\ rpc' = "failed" /\ UNCHANGED <<rlist, rpos>>
    BY <1>4 DEF FailTransfer
  <2>2. Remaining'
    BY <2>1 DEF Remaining
  <2> QED BY <2>1, <2>2 DEF PlacedInv, InPlace
<1> QED BY <1>1, <1>2, <1>3, <1>4

\* A symbolic link whose directories are listed finds them made, or trouble.
LEMMA SymlinkStep ==
    ASSUME PlacedInv, MakeSymlinks
    PROVE  InPlace'
<1>1. rpc = "links" /\ rpc' = "follow" /\ UNCHANGED <<opt, rlist, rpos>>
  BY DEF MakeSymlinks
<1>m. PICK unmade \in SUBSET {n \in Of("symlink") : Troubled(n)} : \E gone \in SUBSET unmade :
          dtree' = (dtree \ gone) \cup {n \in Of("symlink") \ unmade : Ancestors(n) \subseteq dtree}
  BY DEF MakeSymlinks
<1>2. PICK gone \in SUBSET unmade :
          dtree' = (dtree \ gone) \cup {n \in Of("symlink") \ unmade : Ancestors(n) \subseteq dtree}
  BY <1>m
<1>3. Extraneous /\ rpos = 1 /\ (Distinct(rlist) => DirsThere /\ FilesThere)
  BY <1>1 DEF PlacedInv, InPlace, Remaining
<1>4. ASSUME NEW i \in DOMAIN rlist, rlist[i].name \in Of("symlink")
      PROVE  /\ rlist[i].type = "symlink" /\ rlist[i].name # Dot /\ rlist[i].name \in Kept
             /\ Troubled(rlist[i].name) => Missable(rlist[i])
  <2>1. PICK j \in DOMAIN rlist : rlist[j].name = rlist[i].name /\ rlist[j].type = "symlink"
    BY <1>4 DEF Of
  <2>2. rlist[i].type = "symlink"
    BY <1>1, <2>1, PlaceFacts DEF PlacedInv
  <2>3. rlist[i].name # Dot
    BY <1>1, <2>2, PlaceFacts, ListAssumption DEF PlacedInv
  <2> QED BY <1>1, <2>2, <2>3, KeptClosed DEF PlacedInv, Missable
<1>5. /\ Of("symlink") \subseteq Kept
      /\ \A i \in DOMAIN rlist :
            rlist[i].name \in dtree /\ rlist[i].name \notin dtree' => Missable(rlist[i])
  <2>1. ASSUME NEW n \in Of("symlink") PROVE n \in Kept
    <3>1. PICK i \in DOMAIN rlist : rlist[i].name = n
      BY <2>1 DEF Of
    <3> QED BY <3>1, <2>1, <1>4
  <2>2. ASSUME NEW i \in DOMAIN rlist, rlist[i].name \in dtree, rlist[i].name \notin dtree'
        PROVE  Missable(rlist[i])
    <3>1. rlist[i].name \in Of("symlink") /\ Troubled(rlist[i].name)
      BY <1>2, <2>2
    <3> QED BY <3>1, <1>4
  <2> QED BY <2>1, <2>2
<1>6. Extraneous'
  <2>1. Kept \subseteq WithAncestors(Listed(rlist))
    BY <1>1, KeptClosed DEF PlacedInv
  <2>2. dtree' \subseteq dtree \cup WithAncestors(Listed(rlist)) /\ dtree \ Kept \subseteq dtree'
    BY <1>2, <1>5, <2>1
  <2> QED BY <1>1, <1>3, <2>2, StillExcused DEF PlacedInv
<1>7. (DirsThere => DirsThere') /\ (FilesThere => FilesThere')
  BY <1>1, <1>5, MoreInPlace
<1>8. ASSUME DirsThere, NEW i \in DOMAIN rlist, rlist[i].type = "symlink"
      PROVE  There(i)'
  <2>1. rlist[i].name \in Of("symlink") /\ rlist[i].name \in Names
    <3>1. rlist[i].first \in Nat /\ ~(rlist[i].first > 0) /\ rlist[i].name \in Names
      BY <1>1, <1>8, PlaceFacts DEF PlacedInv
    <3>2. rlist[i].first = 0
      BY <3>1
    <3> QED BY <3>1, <3>2, <1>8 DEF Of
  <2>2. ASSUME ~Missable(rlist[i]), NEW a \in Ancestors(rlist[i].name) PROVE a \in dtree
    <3>1. a # Dot /\ Node[Tree[a]].type = "dir"
      BY <2>1, TreeAssumption
    <3>2. PICK j \in DOMAIN rlist : rlist[j].name = a
      BY <1>8, <2>2 DEF Missable, Listed
    <3>3. rlist[j].type = "dir"
      BY <1>1, <3>1, <3>2, PlaceFacts DEF PlacedInv
    <3>4. a \in dtree \/ Missable(rlist[j])
      BY <1>8, <3>1, <3>2, <3>3 DEF DirsThere, There
    <3>5. ~Troubled(a)
      <4>1. ~Troubled(rlist[i].name)
        BY <1>8, <2>2 DEF Missable
      <4> QED BY <1>1, <2>2, <4>1, KeptClosed DEF PlacedInv
    <3> QED BY <3>2, <3>3, <3>4, <3>5 DEF Missable
  <2>3. rlist[i].name \in dtree' \/ Missable(rlist[i])
    <3> SUFFICES ASSUME ~Missable(rlist[i]) PROVE rlist[i].name \in dtree'
      OBVIOUS
    <3>1. rlist[i].name \notin unmade
      BY <1>2, <1>8 DEF Missable
    <3>2. Ancestors(rlist[i].name) \subseteq dtree
      BY <2>2
    <3> QED BY <1>2, <2>1, <3>1, <3>2
  <2> QED BY <1>1, <2>3, SameWords DEF There
<1>9. DirsThere => LinksThere'
  BY <1>1, <1>8 DEF LinksThere
<1>10. FollowersThere'
  <2>1. DOMAIN rlist = 1..Len(rlist) /\ Len(rlist) \in Nat
    BY <1>1, PlaceFacts DEF PlacedInv
  <2>2. \A i \in DOMAIN rlist : ~(i < rpos)
    BY <1>3, <2>1
  <2> QED BY <1>1, <2>2 DEF FollowersThere
<1>11. Distinct(rlist)' => Remaining'
  BY <1>1, <1>3, <1>7, <1>9, <1>10 DEF Remaining, Distinct
<1> QED BY <1>1, <1>3, <1>6, <1>11 DEF InPlace

\* A follower is put back after it is removed, its leader being there and not
\* itself: nothing is lost but where there is trouble or no leader.
LEMMA FollowerStep ==
    ASSUME PlacedInv, LinkFollower
    PROVE  InPlace'
<1> DEFINE e == rlist[rpos]
           lead == rlist[e.first]
<1>1. /\ rpc = "follow" /\ rpc' = "follow" /\ UNCHANGED <<opt, rlist>>
      /\ rpos <= Len(rlist) /\ rpos' = rpos + 1
  BY DEF LinkFollower
<1>2. Extraneous /\ (Distinct(rlist) => DirsThere /\ FilesThere /\ LinksThere /\ FollowersThere)
  BY <1>1 DEF PlacedInv, InPlace, Remaining
<1>3. /\ Len(rlist) \in Nat /\ DOMAIN rlist = 1..Len(rlist) /\ rpos \in DOMAIN rlist
      /\ e.first \in Nat
      /\ e.first > 0 => /\ e.type = "file" /\ e.first \in DOMAIN rlist
                        /\ lead.type = "file" /\ lead.first = 0
                        /\ Tree[lead.name] = Tree[e.name]
  <2>1. Len(rlist) \in Nat /\ DOMAIN rlist = 1..Len(rlist)
    BY <1>1, PlaceFacts DEF PlacedInv
  <2>2. rpos \in DOMAIN rlist
    BY <1>1, <2>1 DEF PlacedInv, ListInv, TypeOK
  <2> QED BY <1>1, <2>1, <2>2, PlaceFacts DEF PlacedInv
<1>4. CASE e.first \notin DOMAIN rlist
  <2>1. UNCHANGED dtree /\ ~(e.first > 0)
    BY <1>3, <1>4 DEF LinkFollower
  <2>2. Extraneous'
    BY <1>1, <1>2, <2>1, StillExcused DEF PlacedInv
  <2>3. ASSUME Distinct(rlist) PROVE DirsThere' /\ FilesThere' /\ LinksThere' /\ FollowersThere'
    <3>1. /\ DirsThere' /\ FilesThere' /\ LinksThere'
          /\ \A i \in DOMAIN rlist : There(i) => There(i)'
      BY <1>1, <1>2, <2>1, <2>3, MoreInPlace
    <3>2. ASSUME NEW i \in DOMAIN rlist, rlist[i].first > 0, i < rpos + 1 PROVE There(i)'
      <4>1. i < rpos
        BY <1>3, <2>1, <3>2
      <4> QED BY <1>2, <2>3, <3>1, <3>2, <4>1 DEF FollowersThere
    <3> QED BY <1>1, <3>1, <3>2 DEF FollowersThere
  <2>4. Distinct(rlist)' => Remaining'
    BY <1>1, <2>3 DEF Remaining, Distinct
  <2> QED BY <1>1, <2>2, <2>4 DEF InPlace
<1>5. CASE e.first \in DOMAIN rlist
  <2>1. PICK made \in Makeable(Ancestors(e.name)) : dtree' \in Linked(e, dtree \cup made)
    BY <1>5 DEF LinkFollower
  <2> DEFINE there == dtree \cup made
             without == there \ {e.name}
  <2>2. e.first > 0
    BY <1>3, <1>5
  <2>3. e.name # Dot /\ e.name \in Kept /\ Ancestors(e.name) \subseteq Kept
    <3>1. e.name # Dot
      BY <1>1, <1>3, <2>2, PlaceFacts, ListAssumption DEF PlacedInv
    <3> QED BY <1>1, <1>3, <3>1, KeptClosed DEF PlacedInv
  <2>4. made \subseteq Kept
    <3>1. made \subseteq WithAncestors(Ancestors(e.name))
      BY <2>1, MadeFacts
    <3>2. \A a \in Ancestors(e.name) : Ancestors(a) \subseteq Ancestors(e.name)
      BY <1>1, <1>3, KeptClosed DEF PlacedInv
    <3>3. WithAncestors(Ancestors(e.name)) \subseteq Ancestors(e.name)
      BY <3>2 DEF WithAncestors
    <3> QED BY <2>3, <3>1, <3>3
  <2>5. without \subseteq dtree' /\ dtree' \subseteq there \cup {e.name}
    <3> HIDE DEF e
    <3> QED BY <2>1 DEF Linked
  <2>6. Extraneous'
    <3>1. Kept \subseteq WithAncestors(Listed(rlist))
      BY <1>1, KeptClosed DEF PlacedInv
    <3>2. dtree' \subseteq dtree \cup WithAncestors(Listed(rlist)) /\ dtree \ Kept \subseteq dtree'
      <4> HIDE DEF e
      <4> QED BY <2>3, <2>4, <2>5, <3>1
    <3> QED BY <1>1, <1>2, <3>2, StillExcused DEF PlacedInv
  <2>7. ASSUME Distinct(rlist), ~Missable(e) PROVE e.name \in dtree'
    <3>1. ~Troubled(e.name) /\ Size(e.name) \in opt.rlimits
      <4> HIDE DEF e
      <4> QED BY <1>3, <2>2, <2>7 DEF Missable
    <3>2. Ancestors(e.name) \subseteq there
      <4> SUFFICES ASSUME NEW a \in Ancestors(e.name) PROVE a \in there
        OBVIOUS
      <4>1. a \in there \/ Troubled(a)
        BY <2>1, MadeFacts
      <4>2. ~Troubled(a)
        BY <1>1, <1>3, <3>1, KeptClosed DEF PlacedInv
      <4> QED BY <4>1, <4>2
    <3>3. lead.name \in dtree
      <4>1. Size(lead.name) \in opt.rlimits
        <5> HIDE DEF e, lead
        <5> QED BY <1>3, <2>2, <3>1 DEF Size
      <4>2. lead.name \in dtree \/ Missable(lead)
        BY <1>2, <1>3, <1>5, <2>2, <2>7 DEF FilesThere, There
      <4> HIDE DEF lead
      <4> QED BY <1>3, <2>2, <4>1, <4>2 DEF Missable
    <3>4. lead.name # e.name
      BY <1>3, <1>5, <2>2, <2>7 DEF Distinct
    <3>5. Linked(e, there) = {without \cup {e.name}}
      <4> HIDE DEF e
      <4> QED BY <3>1, <3>2, <3>3, <3>4 DEF Linked
    <3> QED BY <2>1, <3>5
  <2>8. ASSUME Distinct(rlist) PROVE DirsThere' /\ FilesThere' /\ LinksThere' /\ FollowersThere'
    <3>1. ASSUME NEW i \in DOMAIN rlist, rlist[i].name \in dtree, rlist[i].name \notin dtree'
          PROVE  Missable(rlist[i])
      <4>1. rlist[i].name = e.name
        BY <2>5, <3>1
      <4>2. i = rpos
        BY <1>3, <2>8, <4>1 DEF Distinct
      <4> QED BY <2>7, <2>8, <3>1, <4>2
    <3>2. /\ DirsThere' /\ FilesThere' /\ LinksThere'
          /\ \A i \in DOMAIN rlist : There(i) => There(i)'
      BY <1>1, <1>2, <2>8, <3>1, MoreInPlace
    <3>4. ASSUME NEW i \in DOMAIN rlist, rlist[i].first > 0, i < rpos + 1 PROVE There(i)'
      <4>1. CASE i < rpos
        BY <1>2, <2>8, <3>2, <3>4, <4>1 DEF FollowersThere
      <4>2. CASE i = rpos
        <5>1. rlist[i].name \in dtree' \/ Missable(rlist[i])
          BY <2>7, <2>8, <4>2
        <5> QED BY <1>1, <5>1, SameWords DEF There
      <4> QED BY <1>3, <3>4, <4>1, <4>2
    <3> QED BY <1>1, <3>2, <3>4 DEF FollowersThere
  <2>9. Distinct(rlist)' => Remaining'
    BY <1>1, <2>8 DEF Remaining, Distinct
  <2> QED BY <1>1, <2>6, <2>9 DEF InPlace
<1> QED BY <1>4, <1>5

\* The last step of the receiver, and the steps before its own.
LEMMA OtherStep ==
    ASSUME PlacedInv, [Next]_vars,
           ~(delete_extraneous_from_flist \/ MakeDirs \/ TransferFiles \/ FailTransfer),
           ~(MakeSymlinks \/ LinkFollower)
    PROVE  InPlace'
<1>1. CASE Finish
  <2>1. /\ rpc = "follow" /\ rpc' = "done" /\ rpos = Len(rlist) + 1
        /\ UNCHANGED <<opt, rlist, rpos, dtree>>
    BY <1>1 DEF Finish
  <2>2. Extraneous' = Extraneous
    BY <2>1, SameWords DEF Extraneous
  <2>3. (DirsThere => DirsThere') /\ (FilesThere => FilesThere')
        /\ (LinksThere => LinksThere') /\ (FollowersThere => FollowersThere')
    BY <2>1, MoreInPlace
  <2> QED BY <2>1, <2>2, <2>3 DEF PlacedInv, InPlace, Distinct, Remaining
<1>2. CASE RecvEnd
  <2>1. rpc = "recv" /\ rpc' = (IF opt.delete THEN "delete" ELSE "dirs") /\ UNCHANGED <<opt, rpos>>
    BY <1>2 DEF RecvEnd
  <2>2. rpos' = 1
    BY <2>1 DEF PlacedInv, InPlace
  <2>3. rpc' = "dirs" => Extraneous'
    BY <2>1 DEF Extraneous
  <2>4. Remaining'
    BY <2>1 DEF Remaining
  <2> QED BY <2>1, <2>2, <2>3, <2>4 DEF InPlace
<1>3. ASSUME rpc = "recv", rpc' = "recv", rpos' = rpos PROVE InPlace'
  <2>1. Remaining'
    BY <1>3 DEF Remaining
  <2> QED BY <1>3, <2>1 DEF PlacedInv, InPlace
<1>4. CASE UNCHANGED <<opt, rlist, rpc, rpos, dtree>>
  <2>1. Extraneous' = Extraneous
    BY <1>4, SameWords DEF Extraneous
  <2>2. (DirsThere => DirsThere') /\ (FilesThere => FilesThere')
        /\ (LinksThere => LinksThere') /\ (FollowersThere => FollowersThere')
    BY <1>4, MoreInPlace
  <2> QED BY <1>4, <2>1, <2>2 DEF PlacedInv, InPlace, Distinct, Remaining
<1>5. CASE RecvEntry
  <2>1. rpc = "recv" /\ rpc' = "recv" /\ rpos' = rpos
    BY <1>5 DEF RecvEntry
  <2> QED BY <2>1, <1>3
<1>6. ASSUME \/ ListLine \/ (\E n \in Names : Visit(n)) \/ Leave \/ SortAndMark
             \/ SendEntry \/ SendEnd \/ (\E i \in Inodes : Change(i)) \/ UNCHANGED vars
      PROVE  UNCHANGED <<opt, rlist, rpc, rpos, dtree>>
  BY <1>6 DEF ListLine, Visit, Leave, SortAndMark, SendEntry, SendEnd, Change, vars, receiver
<1> QED BY <1>1, <1>2, <1>4, <1>5, <1>6 DEF Next, Over

\* Every step keeps the names in place.
LEMMA PlacedStep ==
    ASSUME StableLinks, PlacedInv, [Next]_vars
    PROVE  PlacedInv'
<1>1. ListInv'
  BY ListInvStep DEF PlacedInv
<1>2. InPlace'
  BY MakeStep, SymlinkStep, FollowerStep, OtherStep
<1> QED BY <1>1, <1>2 DEF PlacedInv

\* After a session that ends in success every listed name is in the destination
\* tree, followers as well, but those the receiver's size limits leave out and
\* those it was refused to make without looking; a regular file that is no
\* follower and is within the limits is there whatever was refused, and after
\* --delete nothing unlisted is there but where it was refused (receiver.rs,
\* main.rs).
THEOREM AllInPlace ==
    ASSUME StableLinks
    PROVE  Spec => []AllThere
<1>1. Init => PlacedInv
  <2> SUFFICES ASSUME Init PROVE PlacedInv
    OBVIOUS
  <2>1. ListInv
    BY ListInvInit
  <2>2. rpc = "recv" /\ rpos = 1
    BY DEF Init
  <2> QED BY <2>1, <2>2 DEF PlacedInv, InPlace, Remaining
<1>2. PlacedInv /\ [Next]_vars => PlacedInv'
  BY PlacedStep
<1>3. ASSUME PlacedInv PROVE AllThere
  <2> SUFFICES ASSUME rpc = "done", Distinct(rlist)
               PROVE  /\ \A i \in DOMAIN rlist :
                           rlist[i].name = Dot \/ rlist[i].name \in dtree \/ Missable(rlist[i])
                      /\ opt.delete => \A n \in dtree \ WithAncestors(Listed(rlist)) : Excused(n, dtree)
    BY DEF AllThere
  <2>1. /\ Extraneous /\ DirsThere /\ FilesThere /\ LinksThere /\ FollowersThere
        /\ rpos = Len(rlist) + 1
    BY <1>3 DEF PlacedInv, InPlace, Remaining
  <2>2. Len(rlist) \in Nat /\ DOMAIN rlist = 1..Len(rlist)
    BY <1>3, PlaceFacts DEF PlacedInv
  <2>3. ASSUME NEW i \in DOMAIN rlist
        PROVE  rlist[i].name = Dot \/ rlist[i].name \in dtree \/ Missable(rlist[i])
    <3>1. rlist[i].first \in Nat /\ rlist[i].type \in Types
      <4>1. rlist \in Seq(Decoded)
        BY <1>3 DEF PlacedInv, ListInv, TypeOK
      <4>2. rlist[i] \in Decoded
        BY <4>1
      <4> QED BY <4>2 DEF Decoded
    <3>2. CASE rlist[i].first > 0
      <4>1. i < rpos
        BY <2>1, <2>2
      <4> QED BY <2>1, <3>2, <4>1 DEF FollowersThere, There
    <3>3. CASE rlist[i].first = 0
      <4>1. CASE rlist[i].type \in {"device", "special"}
        BY <4>1 DEF Missable
      <4> QED BY <2>1, <3>1, <3>3, <4>1 DEF DirsThere, FilesThere, LinksThere, There, Types
    <3> QED BY <3>1, <3>2, <3>3
  <2> QED BY <2>1, <2>3 DEF Extraneous
<1> QED BY <1>1, <1>2, <1>3, PTL DEF Spec

-----------------------------------------------------------------------------
(* The walk.  First the names in their directories.                        *)

\* The last slash.
LEMMA LastFacts ==
    ASSUME NEW n \in Seq(Bytes), Slashes(n) # {}
    PROVE  LastSlash(n) \in Slashes(n) /\ \A j \in Slashes(n) : j <= LastSlash(n)
<1>1. Len(n) \in Nat /\ Slashes(n) \subseteq 1..Len(n)
  BY DEF Slashes
<1> DEFINE T == {Len(n) - i : i \in Slashes(n)}
<1>2. T \in SUBSET Nat /\ T # {}
  BY <1>1
<1>3. PICK x \in T : \A y \in T : x <= y
  BY <1>2, Least
<1>4. PICK i \in Slashes(n) : x = Len(n) - i
  BY DEF T
<1>5. \A j \in Slashes(n) : j <= i
  <2> TAKE j \in Slashes(n)
  <2>1. x <= Len(n) - j
    BY <1>3
  <2> QED BY <2>1, <1>4, <1>1
<1> QED BY <1>4, <1>5 DEF LastSlash

\* The directory a name is in.
LEMMA ParentFacts ==
    ASSUME NEW n \in Names
    PROVE  /\ Slashes(n) = {} => Dirname(n) = <<>> /\ Ancestors(n) = {}
           /\ Slashes(n) # {} => /\ Dirname(n) \in Ancestors(n)
                                 /\ Ancestors(n) = Ancestors(Dirname(n)) \cup {Dirname(n)}
<1>1. n \in Seq(Bytes)
  BY ListAssumption
<1>2. CASE Slashes(n) = {}
  BY <1>1, <1>2 DEF Dirname, LastSlash, Ancestors
<1>3. CASE Slashes(n) # {}
  <2> DEFINE i == LastSlash(n)
             d == Dirname(n)
  <2>1. i \in Slashes(n) /\ \A j \in Slashes(n) : j <= i
    BY <1>1, <1>3, LastFacts
  <2>2. d = SubSeq(n, 1, i - 1)
    BY DEF Dirname
  <2>3. d \in Ancestors(n)
    BY <2>1, <2>2 DEF Ancestors
  <2>4. i \in Nat /\ Slashes(n) \subseteq Nat
    BY <2>1, <1>1 DEF Slashes
  <2>5. /\ Slashes(d) = {j \in Slashes(n) : j < i}
        /\ \A j \in Slashes(d) : SubSeq(d, 1, j - 1) = SubSeq(n, 1, j - 1)
    BY <2>1, <2>2, <1>1, CutFacts
  <2>6. \A j \in Slashes(n) : j = i \/ j \in Slashes(d)
    BY <2>1, <2>4, <2>5
  <2> HIDE DEF i, d
  <2>7. Ancestors(n) \subseteq Ancestors(d) \cup {d}
    BY <2>2, <2>5, <2>6 DEF Ancestors
  <2>8. Ancestors(d) \subseteq Ancestors(n)
    BY <2>5 DEF Ancestors
  <2> QED BY <2>3, <2>7, <2>8, <1>3 DEF d
<1> QED BY <1>2, <1>3

\* What lies below a directory: the directory itself has no name when it is the
\* source directory.
Under(r, n) == n \in Names \ {Dot, r} /\ (r = Dot \/ r \in Ancestors(n))

\* The names in a directory.
LEMMA ChildFacts ==
    ASSUME NEW d \in Names, NEW m \in Children(IF d = Dot THEN <<>> ELSE d)
    PROVE  /\ m \in Names /\ Under(d, m)
           /\ Ancestors(m) = IF d = Dot THEN {} ELSE Ancestors(d) \cup {d}
<1>1. m \in Names /\ m # Dot /\ Dirname(m) = IF d = Dot THEN <<>> ELSE d
  BY DEF Children
<1>2. CASE d = Dot
  <2>1. Slashes(m) = {}
    <3> SUFFICES ASSUME Slashes(m) # {} PROVE FALSE
      OBVIOUS
    <3>1. <<>> \in Names
      BY <1>1, <1>2, ParentFacts, Line
    <3> QED BY <3>1, TreeAssumption
  <2> QED BY <2>1, <1>1, <1>2, ParentFacts DEF Under
<1>3. CASE d # Dot
  <2>1. Slashes(m) # {}
    <3> SUFFICES ASSUME Slashes(m) = {} PROVE FALSE
      OBVIOUS
    <3>1. d = <<>>
      BY <1>1, <1>3, ParentFacts
    <3> QED BY <3>1, TreeAssumption
  <2>2. d \in Ancestors(m) /\ Ancestors(m) = Ancestors(d) \cup {d}
    BY <2>1, <1>1, <1>3, ParentFacts
  <2> QED BY <2>2, <1>1, <1>3, Line DEF Under
<1> QED BY <1>2, <1>3

\* What lies below a directory lies in it or below something that does.
LEMMA ChildOf ==
    ASSUME NEW d \in Names, NEW n, Under(d, n)
    PROVE  \E m \in Children(IF d = Dot THEN <<>> ELSE d) : n = m \/ m \in Ancestors(n)
<1> DEFINE S == IF d = Dot THEN Slashes(n) ELSE {j \in Slashes(n) : j > Len(d) + 1}
           start == IF d = Dot THEN 0 ELSE Len(d) + 1
<1>1. n \in Names /\ n # Dot /\ n \in Seq(Bytes) /\ Len(n) \in Nat /\ Slashes(n) \subseteq 1..Len(n)
  BY ListAssumption DEF Under, Slashes
<1>2. ASSUME d # Dot
      PROVE  Len(d) + 1 \in Slashes(n) /\ SubSeq(n, 1, Len(d)) = d
  <2>1. PICK i \in Slashes(n) : d = SubSeq(n, 1, i - 1)
    BY <1>2 DEF Under, Ancestors
  <2>2. Len(d) = i - 1 /\ i \in 1..Len(n)
    BY <2>1, <1>1, CutFacts
  <2>3. Len(d) + 1 = i /\ Len(d) = i - 1
    BY <2>2
  <2> QED BY <2>1, <2>3
<1>3. CASE S = {}
  <2>1. Dirname(n) = IF d = Dot THEN <<>> ELSE d
    <3>1. CASE d = Dot
      BY <1>1, <1>3, <3>1, ParentFacts
    <3>2. CASE d # Dot
      <4>1. Len(d) + 1 \in Slashes(n) /\ SubSeq(n, 1, Len(d)) = d
        BY <1>2, <3>2
      <4>2. LastSlash(n) = Len(d) + 1
        <5>1. LastSlash(n) \in Slashes(n) /\ LastSlash(n) >= Len(d) + 1
          BY <4>1, <1>1, LastFacts
        <5> QED BY <5>1, <4>1, <1>1, <1>3, <3>2
      <4>3. LastSlash(n) - 1 = Len(d)
        BY <4>1, <4>2, <1>1
      <4> QED BY <4>1, <4>3, <3>2 DEF Dirname
    <3> QED BY <3>1, <3>2
  <2> QED BY <2>1, <1>1 DEF Children
<1>4. CASE S # {}
  <2>1. S \in SUBSET Nat
    BY <1>1
  <2>2. PICK j \in S : \A k \in S : j <= k
    BY <2>1, <1>4, Least
  <2> DEFINE m == SubSeq(n, 1, j - 1)
  <2>3. j \in Slashes(n) /\ j \in 1..Len(n)
    BY <1>1
  <2>4. m \in Ancestors(n)
    BY <2>3 DEF Ancestors
  <2>5. m \in Names /\ m # Dot
    BY <2>4, <1>1, Line, ZenonT(60)
  <2>6. /\ m \in Seq(Bytes) /\ Len(m) = j - 1
        /\ Slashes(m) = {k \in Slashes(n) : k < j}
        /\ \A k \in Slashes(m) : SubSeq(m, 1, k - 1) = SubSeq(n, 1, k - 1)
    BY <2>3, <1>1, CutFacts
  <2> HIDE DEF m
  <2>7. Dirname(m) = IF d = Dot THEN <<>> ELSE d
    <3>1. CASE d = Dot
      <4>1. Slashes(m) = {}
        BY <2>1, <2>2, <2>6, <3>1
      <4> QED BY <4>1, <2>5, <3>1, ParentFacts
    <3>2. CASE d # Dot
      <4>1. Len(d) + 1 \in Slashes(n) /\ SubSeq(n, 1, Len(d)) = d
        BY <1>2, <3>2
      <4>2. Len(d) + 1 \in Slashes(m) /\ Len(d) \in Int
        BY <4>1, <2>2, <2>3, <2>6, <1>1, <3>2, ListAssumption
      <4>3. LastSlash(m) = Len(d) + 1
        <5>1. LastSlash(m) \in Slashes(m) /\ LastSlash(m) >= Len(d) + 1
          BY <4>2, <2>6, LastFacts
        <5>2. LastSlash(m) \in Slashes(n) /\ LastSlash(m) < j
          BY <5>1, <2>6
        <5>3. LastSlash(m) \notin S
          BY <5>2, <2>2, <2>3, <1>1
        <5> QED BY <5>1, <5>2, <5>3, <4>2, <1>1, <3>2
      <4>4. LastSlash(m) - 1 = Len(d)
        BY <4>2, <4>3
      <4>5. SubSeq(m, 1, Len(d)) = SubSeq(n, 1, Len(d))
        <5>1. SubSeq(m, 1, (Len(d) + 1) - 1) = SubSeq(n, 1, (Len(d) + 1) - 1)
          BY <4>2, <2>6
        <5>2. (Len(d) + 1) - 1 = Len(d)
          BY <4>2
        <5> QED BY <5>1, <5>2
      <4> QED BY <4>1, <4>4, <4>5, <3>2 DEF Dirname
    <3> QED BY <3>1, <3>2
  <2> QED BY <2>4, <2>5, <2>7 DEF Children
<1> QED BY <1>3, <1>4

-----------------------------------------------------------------------------
(* Where the walk is: with the frames F, the list L and the argument r,      *)
(* whose entry is entry s.                                                   *)

FrameSet == [todo : SUBSET Names, at : Nat]

\* The place and the name of a frame's directory.
Place(fr)  == IF fr.at = 0 THEN 1 ELSE fr.at
Dir(fr, L) == L[Place(fr)].name

\* A name is still to come, or is one of those whose directories are being read.
Waiting(F, n)   == \E i \in 1..Len(F) : \E m \in F[i].todo : n = m \/ m \in Ancestors(n)
Opened(F, L, n) == \E i \in 1..Len(F) : Dir(F[i], L) = n

\* Each frame's directory is listed behind that of the next frame.
Nested(F, L) ==
    /\ F \in Seq(FrameSet) /\ F # <<>> /\ L \in Seq(Entries)
    /\ \A i \in 1..Len(F) :
         /\ Place(F[i]) <= Len(L)
         /\ F[i].at = 0 <=> Dir(F[i], L) = Dot
         /\ Dir(F[i], L) \in Names /\ Type(Dir(F[i], L)) = "dir"
         /\ F[i].todo \subseteq Listing(Dir(F[i], L))
    /\ \A i, j \in 1..Len(F) : i < j => F[i].at > Place(F[j])

\* What is listed is to be listed, is not listed again, and stands behind the
\* directories it lies in and no other that is being read.
Walked(F, L, r, s) ==
    \A j \in (s + 1)..Len(L) :
        /\ L[j].name \in Reached(r)
        /\ ~Waiting(F, L[j].name)
        /\ Opened(F, L, L[j].name) \/ ~Pruned(r, L[j].name)
        /\ \A k \in (s + 1)..Len(L) : L[k].name = L[j].name => k = j
        /\ \A i \in 1..Len(F) : j > Place(F[i]) <=> Under(Dir(F[i], L), L[j].name)

\* What is to be listed is listed or to come.
Accounted(F, L, r, s) ==
    \A n \in Reached(r) :
        Waiting(F, n) \/ Pruned(r, n) \/ \E j \in (s + 1)..Len(L) : L[j].name = n

Walk(F, L, r, s) ==
    /\ Nested(F, L) /\ Walked(F, L, r, s) /\ Accounted(F, L, r, s)
    /\ s = Place(F[Len(F)]) /\ r = Dir(F[Len(F)], L)
    /\ r \in Names /\ Type(r) = "dir"
    /\ opt.recursive \/ (r = Dot /\ Len(F) = 1)

\* A directory is never too large or too small.
LEMMA DirsWithin == \A n : Type(n) = "dir" => WithinLimits(n)
  BY DEF WithinLimits

\* Below a name that the filter excludes, that is no readable directory, or that is
\* a directory in a walk that does not descend, nothing is to be listed.
LEMMA NotReached ==
    ASSUME NEW r, NEW m \in Names, Under(r, m), NEW n \in Reached(r), m \in Ancestors(n)
    PROVE  /\ m \notin Excluded /\ m \notin Unreadable /\ WithinLimits(m)
           /\ Type(m) = "dir" /\ opt.recursive
<1>1. n \in Names
  BY DEF Reached
<1>2. m \in Between(r, n)
  BY DEF Between, Under
<1>3. Type(m) = "dir"
  BY <1>1, Line
<1> QED BY <1>1, <1>2, <1>3, DirsWithin DEF Reached

\* What an open directory holds is to be listed, unless the filter or its size forbids it.
LEMMA ReachedNext ==
    ASSUME NEW r \in Names, NEW d \in Names, d = r \/ d \in Reached(r),
           NEW m \in Listing(d), opt.recursive \/ r = Dot, opt.recursive \/ d = r
    PROVE  /\ m \in Names /\ Under(r, m) /\ Under(d, m)
           /\ Ancestors(m) = IF d = Dot THEN {} ELSE Ancestors(d) \cup {d}
           /\ m \notin Excluded /\ WithinLimits(m) => m \in Reached(r)
<1>1. d \notin Unreadable /\ m \in Children(IF d = Dot THEN <<>> ELSE d)
  BY DEF Listing
<1>2. m \in Names /\ Under(d, m) /\ Ancestors(m) = IF d = Dot THEN {} ELSE Ancestors(d) \cup {d}
  BY <1>1, ChildFacts
<1>3. d \in Reached(r) => d # Dot /\ (r = Dot \/ r \in Ancestors(d)) /\ d # r
  BY DEF Reached
<1>4. m # r /\ m # Dot
  BY <1>2, <1>3, Line DEF Under
<1>5. r = Dot \/ r \in Ancestors(m)
  BY <1>2, <1>3
<1>6. CASE d = r
  <2>1. Between(r, m) = {}
    <3> SUFFICES ASSUME NEW a \in Ancestors(m), r = Dot \/ r \in Ancestors(a) PROVE FALSE
      BY DEF Between
    <3> QED BY <1>2, <1>6, Line
  <2> QED BY <2>1, <1>1, <1>2, <1>4, <1>5, <1>6 DEF Reached, Under
<1>7. CASE d \in Reached(r) /\ d # r
  <2>1. Between(r, m) \subseteq Between(r, d) \cup {d}
    BY <1>2, <1>3, <1>7 DEF Between
  <2>2. d \notin Excluded /\ Between(r, d) \cap (Excluded \cup Unreadable) = {} /\ {r} \cap Unreadable = {}
    BY <1>7 DEF Reached
  <2>3. opt.recursive
    BY <1>7
  <2> QED BY <2>1, <2>2, <2>3, <1>1, <1>2, <1>4, <1>5 DEF Reached, Under
<1> QED BY <1>6, <1>7

\* What lies below a readable directory lies below what it holds.
LEMMA ComesThrough ==
    ASSUME NEW d \in Names, d \notin Unreadable, NEW n, Under(d, n)
    PROVE  \E m \in Listing(d) : n = m \/ m \in Ancestors(n)
  BY ChildOf DEF Listing

\* The directory that is being read, and a name in it.
LEMMA HeadDir ==
    ASSUME NEW F, NEW L, NEW r, NEW s, Walk(F, L, r, s)
    PROVE  LET d == Dir(F[1], L)
           IN  /\ Len(F) \in Nat /\ Len(F) >= 1 /\ Len(L) \in Nat /\ s \in 1..Len(L)
               /\ \A i \in 1..Len(F) : Place(F[i]) \in 1..Len(L) /\ F[i].at \in Nat
               /\ d \in Names /\ (d = r \/ d \in Reached(r))
               /\ Len(F) > 1 => d \in Reached(r) /\ d # Dot /\ ~Waiting(F, d)
                                /\ F[1].at \in (s + 1)..Len(L)
               /\ Len(F) = 1 => d = r
               /\ \A i \in 2..Len(F) : Under(Dir(F[i], L), d)
<1> DEFINE d == Dir(F[1], L)
           z == Len(F)
<1>1. /\ z \in Nat /\ z >= 1 /\ Len(L) \in Nat /\ \A i \in 1..z : F[i] \in FrameSet
  BY DEF Walk, Nested
<1>2. \A i \in 1..z : F[i].at \in Nat /\ Place(F[i]) <= Len(L)
  BY <1>1 DEF Walk, Nested, FrameSet
<1>3. \A i \in 1..z : Place(F[i]) \in 1..Len(L)
  BY <1>1, <1>2 DEF Place
<1>4. z \in 1..z /\ 1 \in 1..z
  BY <1>1
<1>5. s \in 1..Len(L) /\ r = Dir(F[z], L) /\ d \in Names
  BY <1>3, <1>4 DEF Walk, Nested
<1>6. Len(F) = 1 => d = r
  BY <1>5
<1>7. ASSUME Len(F) > 1
      PROVE  /\ d \in Reached(r) /\ d # Dot /\ ~Waiting(F, d) /\ F[1].at \in (s + 1)..Len(L)
             /\ \A i \in 2..Len(F) : Under(Dir(F[i], L), d)
  <2> DEFINE j == F[1].at
  <2>1. \A i \in 2..z : j > Place(F[i])
    BY <1>1, <1>7 DEF Walk, Nested
  <2>2. z \in 2..z
    BY <1>1, <1>7
  <2>3. j > s
    BY <2>1, <2>2 DEF Walk
  <2>4. j \in (s + 1)..Len(L) /\ j # 0 /\ Place(F[1]) = j
    BY <2>3, <1>2, <1>4, <1>5 DEF Place
  <2>5. d = L[j].name
    BY <2>4 DEF Dir
  <2> HIDE DEF j, d
  <2>6. /\ L[j].name \in Reached(r) /\ ~Waiting(F, L[j].name)
        /\ \A i \in 1..Len(F) : j > Place(F[i]) <=> Under(Dir(F[i], L), L[j].name)
    BY <2>4 DEF Walk, Walked
  <2>7. \A i \in 2..z : i \in 1..Len(F)
    OBVIOUS
  <2>8. \A i \in 2..z : Under(Dir(F[i], L), d)
    BY <2>1, <2>5, <2>6, <2>7
  <2>9. d # Dot
    BY <2>5, <2>6 DEF Reached
  <2> QED BY <2>4, <2>5, <2>6, <2>8, <2>9 DEF d, j
<1>0. Len(F) = 1 \/ Len(F) > 1
  <2>1. z \in Nat /\ z >= 1
    BY <1>1
  <2> HIDE DEF z
  <2>2. z = 1 \/ z > 1
    BY <2>1
  <2> QED BY <2>2 DEF z
<1>8. d = r \/ d \in Reached(r)
  BY <1>0, <1>6, <1>7, Zenon
<1>9. \A i \in 2..Len(F) : Under(Dir(F[i], L), d)
  BY <1>1, <1>7
<1> QED BY <1>1, <1>2, <1>3, <1>5, <1>6, <1>7, <1>8, <1>9

\* The frames once a name has been read: only the innermost changes.
Read(F, n) == <<[F[1] EXCEPT !.todo = @ \ {n}]>> \o Tail(F)

LEMMA DoneFrames ==
    ASSUME NEW F \in Seq(FrameSet), F # <<>>, NEW n,
           NEW F2, F2 = Read(F, n)
    PROVE  /\ F2 \in Seq(FrameSet) /\ F2 # <<>> /\ Len(F2) = Len(F)
           /\ F2[1].todo = F[1].todo \ {n}
           /\ \A i \in 2..Len(F) : F2[i] = F[i]
           /\ \A i \in 1..Len(F) : F2[i].at = F[i].at /\ F2[i].todo \subseteq F[i].todo
<1> DEFINE f == [F[1] EXCEPT !.todo = @ \ {n}]
<1>1. F[1] \in FrameSet /\ Len(F) \in Nat /\ Len(F) >= 1
  OBVIOUS
<1>2. f \in FrameSet /\ f.at = F[1].at /\ f.todo = F[1].todo \ {n}
  BY <1>1 DEF FrameSet
<1> HIDE DEF f
<1>3. /\ F2 \in Seq(FrameSet) /\ Len(F2) = Len(F) /\ F2[1] = f
      /\ \A i \in 2..Len(F) : F2[i] = F[i]
  <2>1. Tail(F) \in Seq(FrameSet) /\ Len(Tail(F)) = Len(F) - 1
        /\ \A i \in 1..(Len(F) - 1) : Tail(F)[i] = F[i + 1]
    BY <1>1
  <2>2. F2 = <<f>> \o Tail(F)
    BY DEF f, Read
  <2> HIDE DEF f
  <2>3. <<f>> \in Seq(FrameSet) /\ Len(<<f>>) = 1 /\ <<f>>[1] = f
    BY <1>2
  <2>4. F2 \in Seq(FrameSet) /\ Len(F2) = Len(F)
    BY <2>1, <2>2, <2>3, <1>1, ConcatProperties
  <2>5. \A i \in 1..Len(F) : F2[i] = IF i <= 1 THEN <<f>>[i] ELSE Tail(F)[i - 1]
    BY <2>1, <2>2, <2>3, <1>1, ConcatProperties
  <2> QED BY <2>1, <2>3, <2>4, <2>5, <1>1
<1>4. F2 # <<>>
  BY <1>1, <1>3
<1>5. \A i \in 1..Len(F) : i = 1 \/ i \in 2..Len(F)
  BY <1>1
<1> QED BY <1>2, <1>3, <1>4, <1>5

\* What is no longer to come once a name has been read: the name and what is below it.
LEMMA DoneWaiting ==
    ASSUME NEW F, NEW L, NEW r, NEW s, Walk(F, L, r, s), NEW n \in F[1].todo,
           NEW F2, F2 = Read(F, n)
    PROVE  /\ \A x : Waiting(F2, x) => Waiting(F, x)
           /\ \A x : Waiting(F, x) => Waiting(F2, x) \/ x = n \/ n \in Ancestors(x)
           /\ Waiting(F, n) /\ \A x : n \in Ancestors(x) => Waiting(F, x)
           /\ ~Waiting(F2, n)
           /\ n \in Listing(Dir(F[1], L)) /\ n \in Names /\ Under(r, n) /\ Under(Dir(F[1], L), n)
           /\ n \notin Excluded /\ WithinLimits(n) => n \in Reached(r)
           /\ \A i \in 1..Len(F) : Under(Dir(F[i], L), n)
<1> DEFINE d == Dir(F[1], L)
<1>1. /\ Len(F) \in Nat /\ Len(F) >= 1 /\ d \in Names /\ (d = r \/ d \in Reached(r))
      /\ Len(F) > 1 => d \in Reached(r) /\ d # Dot /\ ~Waiting(F, d)
      /\ Len(F) = 1 => d = r
      /\ \A i \in 2..Len(F) : Under(Dir(F[i], L), d)
  BY HeadDir
<1>2. /\ F2 \in Seq(FrameSet) /\ F2 # <<>> /\ Len(F2) = Len(F)
      /\ F2[1].todo = F[1].todo \ {n}
      /\ \A i \in 2..Len(F) : F2[i] = F[i]
      /\ \A i \in 1..Len(F) : F2[i].at = F[i].at /\ F2[i].todo \subseteq F[i].todo
  <2>1. F \in Seq(FrameSet) /\ F # <<>>
    BY DEF Walk, Nested
  <2> QED BY <2>1, DoneFrames
<1>3. /\ \A i \in 1..Len(F) : F[i].todo \subseteq Listing(Dir(F[i], L)) /\ Dir(F[i], L) \in Names
      /\ r \in Names /\ (opt.recursive \/ (r = Dot /\ Len(F) = 1))
  BY DEF Walk, Nested
<1>i. \A i \in 1..Len(F) : i = 1 \/ i \in 2..Len(F)
  BY <1>1
<1>j. 1 \in 1..Len(F) /\ \A i \in 2..Len(F) : i \in 1..Len(F)
  BY <1>1
<1>4. n \in Listing(d)
  BY <1>3, <1>j
<1>5. /\ n \in Names /\ Under(r, n) /\ Under(d, n)
      /\ Ancestors(n) = IF d = Dot THEN {} ELSE Ancestors(d) \cup {d}
      /\ n \notin Excluded /\ WithinLimits(n) => n \in Reached(r)
  <2>1. opt.recursive \/ r = Dot
    BY <1>3
  <2>2. opt.recursive \/ d = r
    BY <1>3, <1>1
  <2> HIDE DEF d
  <2> QED BY <2>1, <2>2, <1>1, <1>3, <1>4, ReachedNext
<1>6. \A i \in 1..Len(F) : Under(Dir(F[i], L), n)
  <2> SUFFICES ASSUME NEW i \in 2..Len(F) PROVE Under(Dir(F[i], L), n)
    BY <1>5, <1>i
  <2>1. Under(Dir(F[i], L), d) /\ d # Dot
    BY <1>1
  <2>2. Ancestors(n) = Ancestors(d) \cup {d}
    BY <2>1, <1>5
  <2>3. n # Dir(F[i], L)
    BY <2>1, <2>2, <1>1, <1>5, Line DEF Under
  <2> QED BY <2>1, <2>2, <2>3, <1>5 DEF Under
<1>7. \A x : Waiting(F2, x) => Waiting(F, x)
  BY <1>2 DEF Waiting
<1>8. \A x : Waiting(F, x) => Waiting(F2, x) \/ x = n \/ n \in Ancestors(x)
  BY <1>2, <1>i DEF Waiting
<1>9. Waiting(F, n) /\ \A x : n \in Ancestors(x) => Waiting(F, x)
  BY <1>j DEF Waiting
<1>10. ~Waiting(F2, n)
  <2> SUFFICES ASSUME NEW i \in 1..Len(F), NEW m \in F2[i].todo, n = m \/ m \in Ancestors(n)
               PROVE  FALSE
    BY <1>2 DEF Waiting
  <2>1. CASE i = 1
    <3>1. m \in Listing(d) /\ m # n
      BY <2>1, <1>2, <1>3, <1>j
    <3>2. m \in Names /\ Under(d, m)
      BY <3>1, <1>1, ChildFacts DEF Listing
    <3>3. d # Dot /\ (m = d \/ m \in Ancestors(d))
      BY <3>1, <1>5
    <3>4. m # d /\ d \in Ancestors(m)
      BY <3>2, <3>3 DEF Under
    <3> QED BY <3>2, <3>3, <3>4, <1>1, Line
  <2>2. CASE i \in 2..Len(F)
    <3> DEFINE e == Dir(F[i], L)
    <3>1. m \in F[i].todo /\ m \in Listing(e) /\ e \in Names
      BY <2>2, <1>2, <1>3
    <3>2. ~Waiting(F, d) /\ d # Dot /\ Under(e, d)
      BY <2>2, <1>1
    <3>3. m # d /\ m \notin Ancestors(d)
      BY <3>1, <3>2 DEF Waiting
    <3>4. n = m
      BY <3>3, <3>2, <1>5
    <3>5. Ancestors(n) = IF e = Dot THEN {} ELSE Ancestors(e) \cup {e}
      BY <3>1, <3>4, ChildFacts DEF Listing
    <3>6. d \in Ancestors(n)
      BY <3>2, <1>5
    <3>7. e # Dot /\ (d = e \/ d \in Ancestors(e)) /\ d # e /\ e \in Ancestors(d)
      BY <3>2, <3>5, <3>6 DEF Under
    <3> QED BY <3>7, <3>1, <1>1, Line
  <2> QED BY <2>1, <2>2, <1>i
<1> QED BY <1>4, <1>5, <1>6, <1>7, <1>8, <1>9, <1>10

\* The frames stay where they are.
LEMMA ReadNested ==
    ASSUME NEW F, NEW L, NEW r, NEW s, Walk(F, L, r, s), NEW n \in F[1].todo,
           NEW F2, F2 = Read(F, n)
    PROVE  /\ Nested(F2, L) /\ Len(F2) = Len(F)
           /\ \A i \in 1..Len(F) : Place(F2[i]) = Place(F[i]) /\ Dir(F2[i], L) = Dir(F[i], L)
           /\ \A x : Opened(F2, L, x) <=> Opened(F, L, x)
           /\ s = Place(F2[Len(F2)]) /\ r = Dir(F2[Len(F2)], L)
<1>1. /\ F2 \in Seq(FrameSet) /\ F2 # <<>> /\ Len(F2) = Len(F)
      /\ \A i \in 1..Len(F) : F2[i].at = F[i].at /\ F2[i].todo \subseteq F[i].todo
  <2>1. F \in Seq(FrameSet) /\ F # <<>>
    BY DEF Walk, Nested
  <2> QED BY <2>1, DoneFrames
<1>2. \A i \in 1..Len(F) : Place(F2[i]) = Place(F[i]) /\ Dir(F2[i], L) = Dir(F[i], L)
  BY <1>1 DEF Place, Dir
<1>3. Len(F) \in 1..Len(F)
  BY HeadDir
<1>4. Nested(F2, L)
  BY <1>1, <1>2 DEF Walk, Nested
<1>5. \A x : Opened(F2, L, x) <=> Opened(F, L, x)
  BY <1>1, <1>2 DEF Opened
<1>6. s = Place(F2[Len(F2)]) /\ r = Dir(F2[Len(F2)], L)
  BY <1>1, <1>2, <1>3 DEF Walk
<1> QED BY <1>1, <1>2, <1>4, <1>5, <1>6

\* The list with an entry more.
LEMMA GrowNested ==
    ASSUME NEW F, NEW L, Nested(F, L), NEW e \in Entries
    PROVE  LET M == Append(L, e)
           IN  /\ Nested(F, M) /\ M \in Seq(Entries) /\ Len(L) \in Nat /\ Len(M) = Len(L) + 1
               /\ \A j \in 1..Len(L) : M[j] = L[j]
               /\ M[Len(L) + 1] = e
               /\ \A i \in 1..Len(F) : Dir(F[i], M) = Dir(F[i], L)
               /\ \A x : Opened(F, M, x) <=> Opened(F, L, x)
<1> DEFINE M == Append(L, e)
<1>1. L \in Seq(Entries) /\ Len(L) \in Nat
  BY DEF Nested
<1>2. /\ M \in Seq(Entries) /\ Len(M) = Len(L) + 1
      /\ \A j \in 1..Len(L) : M[j] = L[j]
      /\ M[Len(L) + 1] = e
  BY <1>1
<1> HIDE DEF M
<1>3. \A i \in 1..Len(F) : F[i].at \in Nat /\ Place(F[i]) <= Len(L)
  <2>1. F \in Seq(FrameSet) /\ \A i \in 1..Len(F) : Place(F[i]) <= Len(L)
    BY DEF Nested
  <2>2. \A i \in 1..Len(F) : F[i] \in FrameSet
    BY <2>1
  <2> QED BY <2>1, <2>2 DEF FrameSet
<1>4. \A i \in 1..Len(F) : Place(F[i]) \in 1..Len(L)
  BY <1>1, <1>3 DEF Place
<1>5. \A i \in 1..Len(F) : Dir(F[i], M) = Dir(F[i], L)
  BY <1>2, <1>4 DEF Dir
<1>6. \A i \in 1..Len(F) : Place(F[i]) <= Len(M)
  BY <1>1, <1>2, <1>4
<1>7. Nested(F, M)
  BY <1>2, <1>5, <1>6 DEF Nested
<1>8. \A x : Opened(F, M, x) <=> Opened(F, L, x)
  BY <1>5 DEF Opened
<1> QED BY <1>1, <1>2, <1>5, <1>7, <1>8 DEF M

\* A name is passed over.
LEMMA PassOver ==
    ASSUME NEW F, NEW L, NEW r, NEW s, Walk(F, L, r, s), NEW n \in F[1].todo,
           n \in Excluded \/ ~WithinLimits(n)
    PROVE  Walk(Read(F, n), L, r, s)
<1> DEFINE F2 == Read(F, n)
<1>1. /\ Nested(F2, L) /\ Len(F2) = Len(F)
      /\ \A i \in 1..Len(F) : Place(F2[i]) = Place(F[i]) /\ Dir(F2[i], L) = Dir(F[i], L)
      /\ \A x : Opened(F2, L, x) <=> Opened(F, L, x)
      /\ s = Place(F2[Len(F2)]) /\ r = Dir(F2[Len(F2)], L)
  BY ReadNested
<1>2. /\ \A x : Waiting(F2, x) => Waiting(F, x)
      /\ \A x : Waiting(F, x) => Waiting(F2, x) \/ x = n \/ n \in Ancestors(x)
      /\ n \in Names /\ Under(r, n)
  BY DoneWaiting
<1>3. \A x \in Reached(r) : x # n /\ n \notin Ancestors(x)
  BY <1>2, NotReached DEF Reached
<1> HIDE DEF F2
<1>4. Walked(F2, L, r, s)
  BY <1>1, <1>2 DEF Walk, Walked
<1>5. Accounted(F2, L, r, s)
  BY <1>2, <1>3 DEF Walk, Accounted
<1> QED BY <1>1, <1>4, <1>5 DEF Walk, F2

\* A name is listed whose directory, if it is one, is not gone into.
LEMMA TakeUp ==
    ASSUME NEW F, NEW L, NEW r, NEW s, Walk(F, L, r, s), NEW n \in F[1].todo,
           n \notin Excluded, WithinLimits(n), ~(Type(n) = "dir" /\ opt.recursive),
           NEW e \in Entries, e.name = n
    PROVE  Walk(Read(F, n), Append(L, e), r, s)
<1> DEFINE F2 == Read(F, n)
           M  == Append(L, e)
<1>1. /\ Nested(F2, L) /\ Len(F2) = Len(F)
      /\ \A i \in 1..Len(F) : Place(F2[i]) = Place(F[i]) /\ Dir(F2[i], L) = Dir(F[i], L)
      /\ \A x : Opened(F2, L, x) <=> Opened(F, L, x)
      /\ s = Place(F2[Len(F2)]) /\ r = Dir(F2[Len(F2)], L)
  BY ReadNested
<1>2. /\ \A x : Waiting(F2, x) => Waiting(F, x)
      /\ \A x : Waiting(F, x) => Waiting(F2, x) \/ x = n \/ n \in Ancestors(x)
      /\ Waiting(F, n) /\ ~Waiting(F2, n)
      /\ n \in Names /\ Under(r, n) /\ n \in Reached(r)
      /\ \A i \in 1..Len(F) : Under(Dir(F[i], L), n)
  BY DoneWaiting
<1>3. /\ Len(F) \in Nat /\ Len(F) >= 1 /\ s \in 1..Len(L)
      /\ \A i \in 1..Len(F) : Place(F[i]) \in 1..Len(L)
  BY HeadDir
<1> HIDE DEF F2
<1>4. /\ Nested(F2, M) /\ Len(L) \in Nat /\ Len(M) = Len(L) + 1
      /\ \A j \in 1..Len(L) : M[j] = L[j]
      /\ M[Len(L) + 1] = e
      /\ \A i \in 1..Len(F) : Dir(F2[i], M) = Dir(F[i], L)
      /\ \A x : Opened(F2, M, x) <=> Opened(F, L, x)
  BY <1>1, GrowNested
<1> HIDE DEF M
<1>s. s \in Nat /\ s <= Len(L)
  BY <1>3, <1>4
<1>5. ~Pruned(r, n)
  BY DEF Pruned
<1>6. \A x \in Reached(r) : n \notin Ancestors(x)
  BY <1>2, NotReached
<1>7. ASSUME NEW j \in (s + 1)..Len(M)
      PROVE  /\ M[j].name \in Reached(r) /\ ~Waiting(F2, M[j].name)
             /\ Opened(F2, M, M[j].name) \/ ~Pruned(r, M[j].name)
             /\ \A k \in (s + 1)..Len(M) : M[k].name = M[j].name => k = j
             /\ \A i \in 1..Len(F2) : j > Place(F2[i]) <=> Under(Dir(F2[i], M), M[j].name)
  <2>0. \A k \in (s + 1)..Len(M) : k = Len(L) + 1 \/ (k \in (s + 1)..Len(L) /\ M[k] = L[k])
    BY <1>s, <1>4
  <2>1. CASE j = Len(L) + 1
    <3>1. M[j].name = n
      BY <2>1, <1>4
    <3>2. \A k \in (s + 1)..Len(L) : L[k].name # n
      BY <1>2 DEF Walk, Walked
    <3>3. \A k \in (s + 1)..Len(M) : M[k].name = M[j].name => k = j
      BY <2>0, <2>1, <3>1, <3>2
    <3>4. \A i \in 1..Len(F2) : j > Place(F2[i]) /\ Under(Dir(F2[i], M), n)
      BY <2>1, <1>1, <1>2, <1>3, <1>4
    <3> QED BY <3>1, <3>3, <3>4, <1>2, <1>5
  <2>2. CASE j \in (s + 1)..Len(L) /\ M[j] = L[j]
    <3>1. /\ L[j].name \in Reached(r) /\ ~Waiting(F, L[j].name)
          /\ Opened(F, L, L[j].name) \/ ~Pruned(r, L[j].name)
          /\ \A k \in (s + 1)..Len(L) : L[k].name = L[j].name => k = j
          /\ \A i \in 1..Len(F) : j > Place(F[i]) <=> Under(Dir(F[i], L), L[j].name)
      BY <2>2 DEF Walk, Walked
    <3>2. L[j].name # n
      BY <3>1, <1>2
    <3>3. \A k \in (s + 1)..Len(M) : M[k].name = M[j].name => k = j
      BY <2>0, <2>2, <3>1, <3>2, <1>4
    <3>4. \A i \in 1..Len(F2) : j > Place(F2[i]) <=> Under(Dir(F2[i], M), M[j].name)
      BY <2>2, <3>1, <1>1, <1>4
    <3> QED BY <2>2, <3>1, <3>3, <3>4, <1>2, <1>4
  <2> QED BY <2>0, <2>1, <2>2
<1>8. Walked(F2, M, r, s)
  BY <1>7 DEF Walked
<1>9. Accounted(F2, M, r, s)
  <2> SUFFICES ASSUME NEW x \in Reached(r), ~Waiting(F2, x), ~Pruned(r, x)
               PROVE  \E j \in (s + 1)..Len(M) : M[j].name = x
    BY DEF Accounted
  <2>1. CASE x = n
    <3>1. Len(L) + 1 \in (s + 1)..Len(M)
      BY <1>3, <1>4
    <3> QED BY <3>1, <2>1, <1>4
  <2>2. CASE x # n
    <3>1. PICK j \in (s + 1)..Len(L) : L[j].name = x
      BY <2>2, <1>2, <1>6 DEF Walk, Accounted
    <3>2. j \in (s + 1)..Len(M) /\ M[j] = L[j]
      BY <3>1, <1>s, <1>4
    <3> QED BY <3>1, <3>2
  <2> QED BY <2>1, <2>2
<1>10. s = Place(F2[Len(F2)]) /\ r = Dir(F2[Len(F2)], M)
  BY <1>1, <1>3, <1>4
<1> QED BY <1>1, <1>4, <1>8, <1>9, <1>10 DEF Walk, F2, M

\* One more frame before the others.
Pushed(F, n, f) == <<f, [F[1] EXCEPT !.todo = @ \ {n}]>> \o Tail(F)

LEMMA PushFrames ==
    ASSUME NEW F \in Seq(FrameSet), F # <<>>, NEW n, NEW f \in FrameSet,
           NEW F3, F3 = Pushed(F, n, f)
    PROVE  /\ F3 \in Seq(FrameSet) /\ Len(F3) = Len(F) + 1 /\ F3[1] = f
           /\ \A i \in 2..Len(F3) : F3[i] = Read(F, n)[i - 1]
<1> DEFINE g == [F[1] EXCEPT !.todo = @ \ {n}]
           T == Tail(F)
           p == <<f, g>>
<1>1. Len(F) \in Nat /\ Len(F) >= 1 /\ g \in FrameSet
  <2>1. Len(F) \in Nat /\ Len(F) >= 1 /\ F[1] \in FrameSet
    OBVIOUS
  <2> QED BY <2>1 DEF FrameSet
<1>2. T \in Seq(FrameSet) /\ Len(T) = Len(F) - 1
  BY <1>1
<1>3. F3 = p \o T /\ Read(F, n) = <<g>> \o T
  BY DEF Read, Pushed
<1> HIDE DEF g, T
<1>4. /\ p \in Seq(FrameSet) /\ Len(p) = 2 /\ p[1] = f /\ p[2] = g
      /\ <<g>> \in Seq(FrameSet) /\ Len(<<g>>) = 1 /\ <<g>>[1] = g
  BY <1>1
<1> HIDE DEF p
<1>5. /\ F3 \in Seq(FrameSet) /\ Len(F3) = Len(F) + 1
      /\ \A i \in 1..Len(F3) : F3[i] = IF i <= 2 THEN p[i] ELSE T[i - 2]
  <2>1. /\ F3 \in Seq(FrameSet) /\ Len(F3) = Len(p) + Len(T)
        /\ \A i \in 1..(Len(p) + Len(T)) : F3[i] = IF i <= Len(p) THEN p[i] ELSE T[i - Len(p)]
    <3>1. p \in Seq(FrameSet) /\ T \in Seq(FrameSet)
      BY <1>2, <1>4
    <3>2. /\ p \o T \in Seq(FrameSet) /\ Len(p \o T) = Len(p) + Len(T)
          /\ \A i \in 1..(Len(p) + Len(T)) : (p \o T)[i] = IF i <= Len(p) THEN p[i] ELSE T[i - Len(p)]
      BY <3>1, ConcatProperties
    <3> QED BY <3>2, <1>3
  <2>2. Len(F3) = Len(F) + 1
    BY <2>1, <1>1, <1>2, <1>4
  <2> QED BY <2>1, <2>2, <1>4
<1>6. \A i \in 1..Len(F) : Read(F, n)[i] = IF i <= 1 THEN <<g>>[i] ELSE T[i - 1]
  BY <1>1, <1>2, <1>3, <1>4, ConcatProperties
<1>7. F3[1] = f
  BY <1>1, <1>4, <1>5
<1>8. ASSUME NEW i \in 2..Len(F3)
      PROVE  F3[i] = Read(F, n)[i - 1]
  <2>1. i \in 1..Len(F3) /\ i - 1 \in 1..Len(F) /\ i \in Nat
    BY <1>1, <1>5
  <2>2. F3[i] = IF i <= 2 THEN p[i] ELSE T[i - 2]
    BY <2>1, <1>5
  <2>3. Read(F, n)[i - 1] = IF i - 1 <= 1 THEN <<g>>[i - 1] ELSE T[(i - 1) - 1]
    BY <2>1, <1>6
  <2>4. CASE i = 2
    BY <2>2, <2>3, <2>4, <1>4
  <2>5. CASE i > 2
    <3>1. (i - 1) - 1 = i - 2 /\ ~(i - 1 <= 1) /\ ~(i <= 2)
      BY <2>1, <2>5
    <3> QED BY <3>1, <2>2, <2>3
  <2> QED BY <2>1, <2>4, <2>5
<1> QED BY <1>5, <1>7, <1>8

\* A directory is listed and gone into.
LEMMA GoInto ==
    ASSUME NEW F, NEW L, NEW r, NEW s, Walk(F, L, r, s), NEW n \in F[1].todo,
           n \notin Excluded, Type(n) = "dir", opt.recursive,
           NEW e \in Entries, e.name = n,
           NEW F3, F3 = Pushed(F, n, Frame(n, Len(L) + 1))
    PROVE  Walk(F3, Append(L, e), r, s)
<1> DEFINE F2 == Read(F, n)
           M  == Append(L, e)
           f  == Frame(n, Len(L) + 1)
<1>1. /\ Nested(F2, L) /\ Len(F2) = Len(F)
      /\ \A i \in 1..Len(F) : Place(F2[i]) = Place(F[i]) /\ Dir(F2[i], L) = Dir(F[i], L)
      /\ \A x : Opened(F2, L, x) <=> Opened(F, L, x)
      /\ s = Place(F2[Len(F2)]) /\ r = Dir(F2[Len(F2)], L)
  BY ReadNested
<1>2. /\ \A x : Waiting(F2, x) => Waiting(F, x)
      /\ \A x : Waiting(F, x) => Waiting(F2, x) \/ x = n \/ n \in Ancestors(x)
      /\ Waiting(F, n) /\ ~Waiting(F2, n) /\ \A x : n \in Ancestors(x) => Waiting(F, x)
      /\ n \in Names /\ Under(r, n) /\ n \in Reached(r)
      /\ \A i \in 1..Len(F) : Under(Dir(F[i], L), n)
  BY DoneWaiting, DirsWithin
<1>3. /\ Len(F) \in Nat /\ Len(F) >= 1 /\ s \in 1..Len(L)
      /\ \A i \in 1..Len(F) : Place(F[i]) \in 1..Len(L)
  BY HeadDir
<1> HIDE DEF F2
<1>4. /\ Nested(F2, M) /\ Len(L) \in Nat /\ Len(M) = Len(L) + 1 /\ M \in Seq(Entries)
      /\ \A j \in 1..Len(L) : M[j] = L[j]
      /\ M[Len(L) + 1] = e
      /\ \A i \in 1..Len(F) : Dir(F2[i], M) = Dir(F[i], L)
      /\ \A x : Opened(F2, M, x) <=> Opened(F, L, x)
  BY <1>1, GrowNested
<1>s. s \in Nat /\ s <= Len(L)
  BY <1>3, <1>4
<1>f. /\ f \in FrameSet /\ f.todo = Listing(n) /\ f.at = Len(L) + 1
  BY <1>4 DEF Frame, FrameSet, Listing, Children
<1>g. Place(f) = Len(L) + 1 /\ Dir(f, M) = n
  <2>1. Place(f) = Len(L) + 1
    BY <1>f, <1>4 DEF Place
  <2> QED BY <2>1, <1>4 DEF Dir
<1>p. /\ F3 \in Seq(FrameSet) /\ Len(F3) = Len(F) + 1 /\ F3[1] = f
      /\ \A i \in 2..Len(F3) : F3[i] = F2[i - 1]
  <2>1. F \in Seq(FrameSet) /\ F # <<>>
    BY DEF Walk, Nested
  <2>2. f \in FrameSet /\ F3 = Pushed(F, n, f)
    BY <1>f
  <2> HIDE DEF f
  <2> QED BY <2>1, <2>2, PushFrames DEF F2
<1> HIDE DEF M, f
<1>q. \A i \in 1..Len(F3) : (i = 1 /\ F3[i] = f) \/ (i - 1 \in 1..Len(F) /\ F3[i] = F2[i - 1])
  <2> TAKE i \in 1..Len(F3)
  <2>1. i = 1 \/ (i \in 2..Len(F3) /\ i - 1 \in 1..Len(F))
    BY <1>p, <1>3
  <2> QED BY <2>1, <1>p
<1>r. 1 \in 1..Len(F3) /\ \A i \in 1..Len(F) : i + 1 \in 1..Len(F3) /\ F3[i + 1] = F2[i]
  <2>1. 1 \in 1..Len(F3)
    BY <1>p, <1>3
  <2>2. ASSUME NEW i \in 1..Len(F) PROVE i + 1 \in 1..Len(F3) /\ F3[i + 1] = F2[i]
    <3>1. i + 1 \in 2..Len(F3) /\ i + 1 \in 1..Len(F3) /\ (i + 1) - 1 = i
      BY <1>p, <1>3
    <3> QED BY <3>1, <1>p
  <2> QED BY <2>1, <2>2
<1>5. \A x \in Reached(r) : n \in Ancestors(x) => Waiting(F3, x)
  <2> SUFFICES ASSUME NEW x \in Reached(r), n \in Ancestors(x) PROVE Waiting(F3, x)
    OBVIOUS
  <2>1. n \notin Unreadable /\ x \in Names
    BY <1>2, NotReached DEF Reached
  <2>2. Under(n, x)
    <3>1. x # n /\ x # Dot
      BY <2>1, Line DEF Reached
    <3> QED BY <3>1, <2>1 DEF Under
  <2>3. \E m \in Listing(n) : x = m \/ m \in Ancestors(x)
    BY <2>1, <2>2, <1>2, ComesThrough
  <2> QED BY <2>3, <1>f, <1>p, <1>r DEF Waiting
<1>6. \A x : Waiting(F2, x) => Waiting(F3, x)
  <2> SUFFICES ASSUME NEW x, NEW i \in 1..Len(F), NEW m \in F2[i].todo, x = m \/ m \in Ancestors(x)
               PROVE  Waiting(F3, x)
    BY <1>1 DEF Waiting
  <2> QED BY <1>r DEF Waiting
<1>7. \A x \in Names : Waiting(F3, x) => Waiting(F2, x) \/ n \in Ancestors(x)
  <2> SUFFICES ASSUME NEW x \in Names, NEW i \in 1..Len(F3), NEW m \in F3[i].todo,
                      x = m \/ m \in Ancestors(x)
               PROVE  Waiting(F2, x) \/ n \in Ancestors(x)
    BY DEF Waiting
  <2>1. CASE i - 1 \in 1..Len(F) /\ F3[i] = F2[i - 1]
    BY <2>1, <1>1 DEF Waiting
  <2>2. CASE i = 1 /\ F3[i] = f
    <3>1. m \in Listing(n)
      BY <2>2, <1>f
    <3>2. n \in Ancestors(m) /\ m \in Names
      <4>1. m \in Children(n)
        BY <3>1, <1>2 DEF Listing, Under
      <4>2. n # Dot
        BY <1>2 DEF Under
      <4> QED BY <4>1, <4>2, <1>2, ChildFacts
    <3> QED BY <3>2, Line
  <2> QED BY <2>1, <2>2, <1>q
<1>8. /\ \A x : Opened(F, L, x) => Opened(F3, M, x)
      /\ Opened(F3, M, n)
  <2>1. Opened(F3, M, n)
    BY <1>g, <1>p, <1>r DEF Opened
  <2>2. ASSUME NEW x, NEW i \in 1..Len(F), Dir(F[i], L) = x PROVE Opened(F3, M, x)
    <3>1. Dir(F3[i + 1], M) = x
      BY <2>2, <1>4, <1>r
    <3> QED BY <3>1, <1>r DEF Opened
  <2> QED BY <2>1, <2>2 DEF Opened
<1>9. Nested(F3, M)
  <2>1. ASSUME NEW i \in 1..Len(F3)
        PROVE  /\ Place(F3[i]) <= Len(M)
               /\ F3[i].at = 0 <=> Dir(F3[i], M) = Dot
               /\ Dir(F3[i], M) \in Names /\ Type(Dir(F3[i], M)) = "dir"
               /\ F3[i].todo \subseteq Listing(Dir(F3[i], M))
    <3>1. CASE i = 1 /\ F3[i] = f
      <4>1. n # Dot /\ Len(L) + 1 # 0 /\ Len(L) + 1 <= Len(M)
        BY <1>2, <1>4 DEF Under
      <4> QED BY <4>1, <3>1, <1>2, <1>f, <1>g
    <3>2. CASE i - 1 \in 1..Len(F) /\ F3[i] = F2[i - 1]
      <4> DEFINE k == i - 1
      <4>1. k \in 1..Len(F2) /\ F3[i] = F2[k]
        BY <3>2, <1>1
      <4> HIDE DEF k
      <4> QED BY <4>1, <1>4 DEF Nested
    <3> QED BY <3>1, <3>2, <1>q
  <2>2. ASSUME NEW i \in 1..Len(F3), NEW j \in 1..Len(F3), i < j
        PROVE  F3[i].at > Place(F3[j])
    <3>0. j # 1
      BY <2>2
    <3>1. j - 1 \in 1..Len(F) /\ F3[j] = F2[j - 1]
      BY <3>0, <1>q
    <3>2. CASE i = 1 /\ F3[i] = f
      <4>1. Place(F2[j - 1]) \in 1..Len(L)
        BY <3>1, <1>1, <1>3
      <4> QED BY <4>1, <3>1, <3>2, <1>f, <1>4
    <3>3. CASE i - 1 \in 1..Len(F) /\ F3[i] = F2[i - 1]
      <4>1. i - 1 < j - 1
        BY <2>2
      <4> QED BY <4>1, <3>1, <3>3, <1>1, <1>4 DEF Nested
    <3> QED BY <3>2, <3>3, <1>q
  <2>3. F3 # <<>>
    BY <1>p, <1>3
  <2> QED BY <2>1, <2>2, <2>3, <1>4, <1>p DEF Nested
<1>10. ASSUME NEW j \in (s + 1)..Len(M)
      PROVE  /\ M[j].name \in Reached(r) /\ ~Waiting(F3, M[j].name)
             /\ Opened(F3, M, M[j].name) \/ ~Pruned(r, M[j].name)
             /\ \A k \in (s + 1)..Len(M) : M[k].name = M[j].name => k = j
             /\ \A i \in 1..Len(F3) : j > Place(F3[i]) <=> Under(Dir(F3[i], M), M[j].name)
  <2>0. \A k \in (s + 1)..Len(M) : k = Len(L) + 1 \/ (k \in (s + 1)..Len(L) /\ M[k] = L[k])
    BY <1>s, <1>4
  <2>1. CASE j = Len(L) + 1
    <3>1. M[j].name = n
      BY <2>1, <1>4
    <3>2. \A k \in (s + 1)..Len(L) : L[k].name # n
      BY <1>2 DEF Walk, Walked
    <3>3. \A k \in (s + 1)..Len(M) : M[k].name = M[j].name => k = j
      BY <2>0, <2>1, <3>1, <3>2
    <3>4. ASSUME NEW i \in 1..Len(F3) PROVE j > Place(F3[i]) <=> Under(Dir(F3[i], M), n)
      <4>1. CASE i = 1 /\ F3[i] = f
        <5>1. ~(j > Place(f)) /\ ~Under(n, n)
          BY <2>1, <1>g, <1>4 DEF Under
        <5> QED BY <5>1, <4>1, <1>g
      <4>2. CASE i - 1 \in 1..Len(F) /\ F3[i] = F2[i - 1]
        <5>1. j > Place(F2[i - 1])
          BY <4>2, <2>1, <1>1, <1>3, <1>4, SMTT(30)
        <5> QED BY <5>1, <4>2, <1>2, <1>4
      <4> QED BY <4>1, <4>2, <1>q
    <3>5. ~Waiting(F3, n)
      BY <1>2, <1>7, Line
    <3> QED BY <3>1, <3>3, <3>4, <3>5, <1>2, <1>8
  <2>2. CASE j \in (s + 1)..Len(L) /\ M[j] = L[j]
    <3>1. /\ L[j].name \in Reached(r) /\ ~Waiting(F, L[j].name)
          /\ Opened(F, L, L[j].name) \/ ~Pruned(r, L[j].name)
          /\ \A k \in (s + 1)..Len(L) : L[k].name = L[j].name => k = j
          /\ \A i \in 1..Len(F) : j > Place(F[i]) <=> Under(Dir(F[i], L), L[j].name)
      BY <2>2 DEF Walk, Walked
    <3>2. L[j].name # n /\ n \notin Ancestors(L[j].name) /\ L[j].name \in Names
      BY <3>1, <1>2 DEF Reached
    <3>3. \A k \in (s + 1)..Len(M) : M[k].name = M[j].name => k = j
      BY <2>0, <2>2, <3>1, <3>2, <1>4
    <3>4. ASSUME NEW i \in 1..Len(F3) PROVE j > Place(F3[i]) <=> Under(Dir(F3[i], M), M[j].name)
      <4>1. CASE i = 1 /\ F3[i] = f
        <5>1. ~(j > Place(f)) /\ ~Under(n, L[j].name)
          <6>1. n # Dot
            BY <1>2 DEF Under
          <6>2. j <= Len(L) /\ j \in Nat
            BY <2>2, <1>s, <1>4
          <6> QED BY <6>1, <6>2, <3>2, <1>g, <1>4 DEF Under
        <5> QED BY <5>1, <4>1, <2>2, <1>g
      <4>2. CASE i - 1 \in 1..Len(F) /\ F3[i] = F2[i - 1]
        BY <4>2, <2>2, <3>1, <1>1, <1>4
      <4> QED BY <4>1, <4>2, <1>q
    <3>5. ~Waiting(F3, L[j].name)
      BY <3>1, <3>2, <1>2, <1>7
    <3> QED BY <2>2, <3>1, <3>3, <3>4, <3>5, <1>8
  <2> QED BY <2>0, <2>1, <2>2
<1>11. Walked(F3, M, r, s)
  BY <1>10 DEF Walked
<1>12. Accounted(F3, M, r, s)
  <2> SUFFICES ASSUME NEW x \in Reached(r), ~Waiting(F3, x), ~Pruned(r, x)
               PROVE  \E j \in (s + 1)..Len(M) : M[j].name = x
    BY DEF Accounted
  <2>1. CASE x = n
    <3>1. Len(L) + 1 \in (s + 1)..Len(M)
      BY <1>s, <1>4
    <3> QED BY <3>1, <2>1, <1>4
  <2>2. CASE x # n
    <3>1. PICK j \in (s + 1)..Len(L) : L[j].name = x
      BY <2>2, <1>2, <1>5, <1>6 DEF Walk, Accounted
    <3>2. j \in (s + 1)..Len(M) /\ M[j] = L[j]
      BY <3>1, <1>s, <1>4
    <3> QED BY <3>1, <3>2
  <2> QED BY <2>1, <2>2
<1>13. s = Place(F3[Len(F3)]) /\ r = Dir(F3[Len(F3)], M)
  <2>0. Len(F) \in 1..Len(F)
    BY <1>3
  <2>1. F3[Len(F3)] = F2[Len(F2)]
    <3>1. F3[Len(F) + 1] = F2[Len(F)]
      BY <2>0, <1>r
    <3> QED BY <3>1, <1>p, <1>1
  <2> QED BY <2>0, <2>1, <1>1, <1>4
<1> QED BY <1>9, <1>11, <1>12, <1>13 DEF Walk, M

\* A walk begins.
LEMMA SetOut ==
    ASSUME NEW L \in Seq(Entries), NEW r \in Names, Type(r) = "dir", opt.recursive \/ r = Dot,
           NEW e \in Entries, e.name = r, r = Dot => L = <<>>
    PROVE  Walk(<<Frame(r, IF r = Dot THEN 0 ELSE Len(L) + 1)>>, Append(L, e), r, Len(L) + 1)
<1> DEFINE f == Frame(r, IF r = Dot THEN 0 ELSE Len(L) + 1)
           F == <<f>>
           M == Append(L, e)
<1>1. Len(L) \in Nat /\ M \in Seq(Entries) /\ Len(M) = Len(L) + 1 /\ M[Len(L) + 1] = e
  OBVIOUS
<1>2. f \in FrameSet /\ f.todo = Listing(r) /\ f.at = IF r = Dot THEN 0 ELSE Len(L) + 1
  BY <1>1 DEF Frame, FrameSet, Listing, Children
<1>3. Place(f) = Len(L) + 1
  <2>1. CASE r = Dot
    <3>1. Len(L) = 0
      BY <2>1
    <3> QED BY <3>1, <2>1, <1>2 DEF Place
  <2>2. CASE r # Dot
    BY <2>2, <1>1, <1>2 DEF Place
  <2> QED BY <2>1, <2>2
<1>4. Dir(f, M) = r
  BY <1>1, <1>3 DEF Dir
<1> HIDE DEF f, M
<1>5. F \in Seq(FrameSet) /\ Len(F) = 1 /\ F[1] = f /\ F # <<>>
  BY <1>2
<1> HIDE DEF F
<1>6. 1..Len(F) = {1}
  BY <1>5
<1>7. Nested(F, M)
  <2>1. f.at = 0 <=> r = Dot
    BY <1>1, <1>2
  <2> QED BY <2>1, <1>1, <1>2, <1>3, <1>4, <1>5, <1>6 DEF Nested
<1>8. (Len(L) + 1 + 1)..Len(M) = {}
  BY <1>1
<1>9. Walked(F, M, r, Len(L) + 1)
  BY <1>8 DEF Walked
<1>10. Accounted(F, M, r, Len(L) + 1)
  <2> SUFFICES ASSUME NEW x \in Reached(r) PROVE Waiting(F, x)
    BY DEF Accounted
  <2>1. r \notin Unreadable /\ Under(r, x)
    BY DEF Reached, Under
  <2>2. \E m \in Listing(r) : x = m \/ m \in Ancestors(x)
    BY <2>1, ComesThrough
  <2> QED BY <2>2, <1>2, <1>5, <1>6 DEF Waiting
<1> QED BY <1>3, <1>4, <1>5, <1>7, <1>9, <1>10 DEF Walk, F, M, f

\* Below a directory that has been read nothing is still to come.
LEMMA NothingBelow ==
    ASSUME NEW F, NEW L, NEW r, NEW s, Walk(F, L, r, s), F[1].todo = {},
           NEW x \in Names, Dir(F[1], L) = Dot \/ Dir(F[1], L) \in Ancestors(x)
    PROVE  ~Waiting(F, x)
<1> DEFINE d == Dir(F[1], L)
<1>1. /\ Len(F) \in Nat /\ Len(F) >= 1 /\ d \in Names
      /\ Len(F) > 1 => d # Dot /\ ~Waiting(F, d)
      /\ \A i \in 2..Len(F) : Under(Dir(F[i], L), d)
  BY HeadDir
<1> SUFFICES ASSUME NEW i \in 1..Len(F), NEW m \in F[i].todo, x = m \/ m \in Ancestors(x)
             PROVE  FALSE
  BY DEF Waiting
<1>2. i \in 2..Len(F) /\ Len(F) > 1
  BY <1>1
<1> DEFINE c == Dir(F[i], L)
<1>3. m \in Listing(c) /\ c \in Names
  BY DEF Walk, Nested
<1>4. m \in Names /\ Ancestors(m) = IF c = Dot THEN {} ELSE Ancestors(c) \cup {c}
  BY <1>3, ChildFacts DEF Listing
<1>5. m # d /\ m \notin Ancestors(d)
  BY <1>1, <1>2 DEF Waiting
<1>6. d \in Ancestors(x) /\ Under(c, d)
  BY <1>1, <1>2
<1>7. d \in Ancestors(m)
  BY <1>5, <1>6, Line
<1>8. c # Dot /\ (d = c \/ d \in Ancestors(c)) /\ d # c /\ c \in Ancestors(d)
  BY <1>4, <1>6, <1>7 DEF Under
<1> QED BY <1>8, <1>1, <1>3, Line

\* A directory under which nothing has been listed has only directories to list.
LEMMA NothingListed ==
    ASSUME NEW F, NEW L, NEW r, NEW s, Walk(F, L, r, s), F[1].todo = {},
           opt.prune, Len(L) = F[1].at
    PROVE  Pruned(r, Dir(F[1], L)) /\ Dir(F[1], L) # Dot
<1> DEFINE d == Dir(F[1], L)
<1>1. /\ Len(F) \in Nat /\ Len(F) >= 1 /\ Len(L) \in Nat /\ s \in 1..Len(L)
      /\ 1 \in 1..Len(F)
  BY HeadDir
<1>2. d # Dot /\ Type(d) = "dir" /\ Place(F[1]) = Len(L)
  BY <1>1 DEF Walk, Nested, Place
<1>3. opt.recursive
  <2> SUFFICES ASSUME ~opt.recursive PROVE FALSE
    OBVIOUS
  <2>1. r = Dot /\ Len(F) = 1
    BY DEF Walk
  <2> QED BY <2>1, <1>2 DEF Walk
<1>4. ASSUME NEW x \in Reached(r), d \in Ancestors(x), Type(x) # "dir"
      PROVE  FALSE
  <2>1. x \in Names /\ x # Dot
    BY DEF Reached
  <2>2. ~Waiting(F, x)
    BY <2>1, <1>4, NothingBelow
  <2>3. ~Pruned(r, x)
    BY <1>4 DEF Pruned
  <2>4. PICK j \in (s + 1)..Len(L) : L[j].name = x
    BY <2>2, <2>3 DEF Walk, Accounted
  <2>5. Under(d, x)
    BY <2>1, <1>4, Line DEF Under
  <2>6. j > Place(F[1])
    BY <2>4, <2>5, <1>1 DEF Walk, Walked
  <2> QED BY <2>6, <1>1, <1>2
<1> QED BY <1>2, <1>3, <1>4 DEF Pruned

\* A directory whose entry stays has something to list besides directories.
LEMMA SomethingListed ==
    ASSUME NEW F, NEW L, NEW r, NEW s, Walk(F, L, r, s), F[1].todo = {},
           ~(opt.prune /\ Len(L) = F[1].at)
    PROVE  ~Pruned(r, Dir(F[1], L))
<1> DEFINE d == Dir(F[1], L)
<1> SUFFICES ASSUME opt.prune, d # Dot, Len(L) # F[1].at PROVE ~Pruned(r, d)
  BY DEF Pruned
<1>1. /\ Len(F) \in Nat /\ Len(F) >= 1 /\ Len(L) \in Nat /\ s \in 1..Len(L)
      /\ 1 \in 1..Len(F) /\ d \in Names
      /\ \A i \in 1..Len(F) : Place(F[i]) \in 1..Len(L) /\ F[i].at \in Nat
      /\ \A i \in 2..Len(F) : Under(Dir(F[i], L), d)
      /\ Len(F) = 1 => d = r
      /\ Len(F) > 1 => F[1].at \in (s + 1)..Len(L)
  BY HeadDir
<1>2. F[1].at # 0 /\ Place(F[1]) = F[1].at
  BY <1>1 DEF Walk, Nested, Place
<1> DEFINE j == Len(L)
           x == L[j].name
<1>3. j > Place(F[1])
  BY <1>1, <1>2
<1>4. j \in (s + 1)..Len(L)
  <2>1. s \in Nat /\ s <= Place(F[1])
    <3>1. CASE Len(F) = 1
      BY <3>1, <1>1 DEF Walk
    <3>2. CASE Len(F) > 1
      <4>1. F[1].at \in (s + 1)..Len(L) /\ s \in Nat
        BY <3>2, <1>1
      <4> QED BY <4>1, <1>2
    <3>3. Len(F) = 1 \/ Len(F) > 1
      <4> DEFINE z == Len(F)
      <4>1. z \in Nat /\ z >= 1
        BY <1>1
      <4> HIDE DEF z
      <4>2. z = 1 \/ z > 1
        BY <4>1
      <4> QED BY <4>2 DEF z
    <3> QED BY <3>1, <3>2, <3>3
  <2> QED BY <2>1, <1>1, <1>3
<1>5. /\ x \in Reached(r) /\ (Opened(F, L, x) \/ ~Pruned(r, x))
      /\ j > Place(F[1]) <=> Under(d, x)
  BY <1>1, <1>4 DEF Walk, Walked
<1> HIDE DEF j, x, d
<1>6. d \in Ancestors(x) /\ x \in Names /\ x # Dot /\ x # d
  BY <1>3, <1>5 DEF Under
<1>7. ~Opened(F, L, x)
  <2> SUFFICES ASSUME NEW i \in 1..Len(F), Dir(F[i], L) = x PROVE FALSE
    BY DEF Opened
  <2>1. CASE i = 1
    BY <2>1, <1>6 DEF d
  <2>2. CASE i \in 2..Len(F)
    <3>1. x \in Ancestors(d)
      BY <2>2, <1>1, <1>6 DEF Under
    <3> QED BY <3>1, <1>1, <1>6, Line
  <2>3. i = 1 \/ i \in 2..Len(F)
    BY <1>1
  <2> QED BY <2>1, <2>2, <2>3
<1>8. ~Pruned(r, x)
  BY <1>5, <1>7
<1>9. CASE Type(x) # "dir"
  BY <1>9, <1>5, <1>6 DEF Pruned
<1>10. CASE Type(x) = "dir" /\ opt.recursive
  <2>1. PICK m \in Reached(r) : x \in Ancestors(m) /\ Type(m) # "dir"
    BY <1>8, <1>10, <1>6 DEF Pruned
  <2>2. d \in Ancestors(m)
    BY <2>1, <1>6, Line DEF Reached
  <2> QED BY <2>1, <2>2 DEF Pruned
<1> QED BY <1>9, <1>10 DEF Pruned, d

\* A list without its last entry.
LEMMA Shorter ==
    ASSUME NEW L \in Seq(Entries), L # <<>>
    PROVE  LET M == SubSeq(L, 1, Len(L) - 1)
           IN  /\ M \in Seq(Entries) /\ Len(L) \in Nat /\ Len(M) = Len(L) - 1
               /\ \A j \in 1..Len(M) : M[j] = L[j]
<1> DEFINE k == Len(L) - 1
<1>1. k \in Nat /\ k <= Len(L) /\ Len(L) \in Nat
  OBVIOUS
<1>2. \A j \in 1..k : L[j] \in Entries
  BY <1>1
<1> HIDE DEF k
<1>3. /\ SubSeq(L, 1, k) \in Seq(Entries)
      /\ Len(SubSeq(L, 1, k)) = IF 1 <= k THEN k - 1 + 1 ELSE 0
      /\ \A j \in 1..(k - 1 + 1) : SubSeq(L, 1, k)[j] = L[1 + j - 1]
  BY <1>1, <1>2, SubSeqProperties
<1>4. Len(SubSeq(L, 1, k)) = k /\ k - 1 + 1 = k /\ \A j \in 1..k : 1 + j - 1 = j
  BY <1>1, <1>3
<1> QED BY <1>1, <1>3, <1>4 DEF k

\* The list, its last entry taken back or not.
LEMMA Shortened ==
    ASSUME NEW L \in Seq(Entries), L # <<>>, NEW c,
           NEW M, M = IF c THEN SubSeq(L, 1, Len(L) - 1) ELSE L
    PROVE  /\ M \in Seq(Entries) /\ Len(M) \in Nat /\ Len(M) <= Len(L)
           /\ \A j \in 1..Len(M) : M[j] = L[j]
           /\ c => Len(M) = Len(L) - 1
           /\ ~c => Len(M) = Len(L)
<1>1. Len(L) \in Nat /\ Len(L) >= 1
  OBVIOUS
<1>2. CASE c
  <2>1. M = SubSeq(L, 1, Len(L) - 1)
    BY <1>2
  <2> QED BY <2>1, <1>1, <1>2, Shorter
<1>3. CASE ~c
  BY <1>1, <1>3
<1> QED BY <1>2, <1>3

\* A directory has been read and the walk goes on in the one it lies in.
LEMMA GoBack ==
    ASSUME NEW F, NEW L, NEW r, NEW s, Walk(F, L, r, s), F[1].todo = {}, Len(F) > 1,
           NEW M, M = IF opt.prune /\ Len(L) = F[1].at THEN SubSeq(L, 1, Len(L) - 1) ELSE L
    PROVE  Walk(Tail(F), M, r, s)
<1> DEFINE d == Dir(F[1], L)
           T == Tail(F)
           Empty == opt.prune /\ Len(L) = F[1].at
<1>1. /\ Len(F) \in Nat /\ Len(L) \in Nat /\ s \in 1..Len(L)
      /\ 1 \in 1..Len(F) /\ d \in Names /\ F[1].at \in (s + 1)..Len(L) /\ F[1].at \in Nat
      /\ \A i \in 1..Len(F) : Place(F[i]) \in 1..Len(L)
  BY HeadDir
<1>s. s \in Nat /\ s <= Len(L)
  BY <1>1
<1>2. F \in Seq(FrameSet) /\ F # <<>> /\ L \in Seq(Entries)
  BY DEF Walk, Nested
<1>3. /\ T \in Seq(FrameSet) /\ Len(T) = Len(F) - 1 /\ T # <<>>
      /\ \A i \in 1..Len(T) : i + 1 \in 2..Len(F) /\ i + 1 \in 1..Len(F) /\ T[i] = F[i + 1]
      /\ \A i \in 2..Len(F) : i - 1 \in 1..Len(T) /\ T[i - 1] = F[i]
  <2>1. T \in Seq(FrameSet) /\ Len(T) = Len(F) - 1 /\ \A i \in 1..Len(T) : T[i] = F[i + 1]
    BY <1>2, HeadTailProperties
  <2> HIDE DEF T
  <2>2. T # <<>>
    <3>1. Len(T) = Len(F) - 1
      BY <2>1
    <3>2. Len(T) # 0
      BY <3>1, <1>1
    <3> QED BY <3>2
  <2>3. \A i \in 1..Len(T) : i + 1 \in 2..Len(F) /\ i + 1 \in 1..Len(F)
    BY <2>1, <1>1
  <2>4. \A i \in 2..Len(F) : i - 1 \in 1..Len(T) /\ (i - 1) + 1 = i
    BY <2>1, <1>1
  <2> QED BY <2>1, <2>2, <2>3, <2>4
<1>4. F[1].at # 0 /\ Place(F[1]) = F[1].at /\ d = L[F[1].at].name
  BY <1>1 DEF Place, Dir
<1>5. /\ M \in Seq(Entries) /\ Len(M) \in Nat /\ Len(M) <= Len(L)
      /\ \A j \in 1..Len(M) : M[j] = L[j]
      /\ Empty => Len(M) = Len(L) - 1
      /\ ~Empty => Len(M) = Len(L)
  <2>1. M = IF Empty THEN SubSeq(L, 1, Len(L) - 1) ELSE L
    OBVIOUS
  <2>2. L # <<>>
    BY <1>1
  <2> HIDE DEF Empty
  <2> QED BY <2>1, <2>2, <1>2, Shortened
<1>6. \A i \in 2..Len(F) : Place(F[i]) <= Len(M) /\ Dir(F[i], M) = Dir(F[i], L)
  <2> TAKE i \in 2..Len(F)
  <2>1. i \in 1..Len(F) /\ 1 < i
    BY <1>1
  <2>2. F[1].at > Place(F[i]) /\ Place(F[i]) \in 1..Len(L)
    BY <2>1, <1>1 DEF Walk, Nested
  <2>3. Place(F[i]) \in 1..Len(M)
    BY <2>2, <1>1, <1>5
  <2> QED BY <2>3, <1>5 DEF Dir
<1> HIDE DEF T, d, Empty
<1>7. Nested(T, M)
  <2>1. ASSUME NEW i \in 1..Len(T)
        PROVE  /\ Place(T[i]) <= Len(M)
               /\ T[i].at = 0 <=> Dir(T[i], M) = Dot
               /\ Dir(T[i], M) \in Names /\ Type(Dir(T[i], M)) = "dir"
               /\ T[i].todo \subseteq Listing(Dir(T[i], M))
    <3>1. i + 1 \in 2..Len(F) /\ i + 1 \in 1..Len(F) /\ T[i] = F[i + 1]
      BY <1>3
    <3>2. Place(T[i]) <= Len(M) /\ Dir(T[i], M) = Dir(T[i], L)
      BY <3>1, <1>6
    <3>3. /\ T[i].at = 0 <=> Dir(T[i], L) = Dot
          /\ Dir(T[i], L) \in Names /\ Type(Dir(T[i], L)) = "dir"
          /\ T[i].todo \subseteq Listing(Dir(T[i], L))
      BY <3>1 DEF Walk, Nested
    <3> QED BY <3>2, <3>3
  <2>2. ASSUME NEW i \in 1..Len(T), NEW j \in 1..Len(T), i < j
        PROVE  T[i].at > Place(T[j])
    <3>1. i + 1 \in 1..Len(F) /\ j + 1 \in 1..Len(F) /\ T[i] = F[i + 1] /\ T[j] = F[j + 1] /\ i + 1 < j + 1
      BY <2>2, <1>3
    <3> QED BY <3>1 DEF Walk, Nested
  <2> QED BY <2>1, <2>2, <1>3, <1>5 DEF Nested
<1>8. \A x : Waiting(T, x) <=> Waiting(F, x)
  <2>1. \A i \in 1..Len(F) : i = 1 \/ i \in 2..Len(F)
    BY <1>1
  <2> QED BY <2>1, <1>3 DEF Waiting
<1>9. \A x : Opened(F, L, x) => x = d \/ Opened(T, M, x)
  <2> SUFFICES ASSUME NEW i \in 1..Len(F), i # 1 PROVE Opened(T, M, Dir(F[i], L))
    BY DEF Opened, d
  <2>1. i \in 2..Len(F)
    BY <1>1
  <2>2. i - 1 \in 1..Len(T) /\ Dir(T[i - 1], M) = Dir(F[i], L)
    BY <2>1, <1>3, <1>6
  <2> QED BY <2>2 DEF Opened
<1>10. /\ Empty => Pruned(r, d)
       /\ ~Empty => ~Pruned(r, d)
  BY NothingListed, SomethingListed DEF Empty, d
<1>11. ASSUME NEW j \in (s + 1)..Len(M)
       PROVE  /\ M[j].name \in Reached(r) /\ ~Waiting(T, M[j].name)
              /\ Opened(T, M, M[j].name) \/ ~Pruned(r, M[j].name)
              /\ \A k \in (s + 1)..Len(M) : M[k].name = M[j].name => k = j
              /\ \A i \in 1..Len(T) : j > Place(T[i]) <=> Under(Dir(T[i], M), M[j].name)
  <2>0. \A k \in (s + 1)..Len(M) : k \in (s + 1)..Len(L) /\ M[k] = L[k]
    BY <1>s, <1>1, <1>5
  <2>1. /\ M[j].name \in Reached(r) /\ ~Waiting(F, M[j].name)
        /\ Opened(F, L, M[j].name) \/ ~Pruned(r, M[j].name)
        /\ \A k \in (s + 1)..Len(L) : L[k].name = M[j].name => k = j
        /\ \A i \in 1..Len(F) : j > Place(F[i]) <=> Under(Dir(F[i], L), M[j].name)
    BY <2>0 DEF Walk, Walked
  <2>2. Empty => M[j].name # d
    <3>1. Empty => F[1].at = Len(L) /\ j # Len(L)
      BY <1>1, <1>5, <1>s DEF Empty
    <3> QED BY <3>1, <2>1, <1>1, <1>4
  <2>3. Opened(T, M, M[j].name) \/ ~Pruned(r, M[j].name)
    BY <2>1, <2>2, <1>9, <1>10
  <2>4. \A i \in 1..Len(T) : j > Place(T[i]) <=> Under(Dir(T[i], M), M[j].name)
    <3> TAKE i \in 1..Len(T)
    <3>1. i + 1 \in 2..Len(F) /\ i + 1 \in 1..Len(F) /\ T[i] = F[i + 1]
      BY <1>3
    <3>2. Dir(F[i + 1], M) = Dir(F[i + 1], L)
      BY <3>1, <1>6
    <3>3. j > Place(F[i + 1]) <=> Under(Dir(F[i + 1], L), M[j].name)
      BY <3>1, <2>1
    <3> QED BY <3>1, <3>2, <3>3
  <2>5. \A k \in (s + 1)..Len(M) : M[k].name = M[j].name => k = j
    BY <2>0, <2>1
  <2> QED BY <2>1, <2>3, <2>4, <2>5, <1>8
<1>12. Walked(T, M, r, s)
  BY <1>11 DEF Walked
<1>13. Accounted(T, M, r, s)
  <2> SUFFICES ASSUME NEW x \in Reached(r), ~Waiting(T, x), ~Pruned(r, x)
               PROVE  \E j \in (s + 1)..Len(M) : M[j].name = x
    BY DEF Accounted
  <2>1. PICK j \in (s + 1)..Len(L) : L[j].name = x
    BY <1>8 DEF Walk, Accounted
  <2>2. Empty => j # Len(L)
    BY <2>1, <1>4, <1>10 DEF Empty
  <2>3. j \in (s + 1)..Len(M) /\ M[j] = L[j]
    BY <2>1, <2>2, <1>s, <1>1, <1>5
  <2> QED BY <2>1, <2>3
<1>14. s = Place(T[Len(T)]) /\ r = Dir(T[Len(T)], M)
  <2>1. Len(F) \in 2..Len(F)
    BY <1>1
  <2>2. T[Len(T)] = F[Len(F)] /\ Dir(F[Len(F)], M) = Dir(F[Len(F)], L)
    BY <2>1, <1>3, <1>6
  <2> QED BY <2>2 DEF Walk
<1>15. opt.recursive /\ r \in Names /\ Type(r) = "dir"
  BY DEF Walk
<1> QED BY <1>7, <1>12, <1>13, <1>14, <1>15 DEF Walk, T

\* What the first n entries name.
NamesTo(L, n) == {L[j].name : j \in 1..n}

\* A walk is over: with what was listed before it, all it was to list is listed.
LEMMA WalkOver ==
    ASSUME NEW F, NEW L, NEW r, NEW s, Walk(F, L, r, s), F[1].todo = {}, Len(F) = 1,
           NEW M, opt.prune /\ Len(L) = F[1].at => M = SubSeq(L, 1, Len(L) - 1),
           ~(opt.prune /\ Len(L) = F[1].at) => M = L
    PROVE  NamesTo(M, Len(M)) = NamesTo(L, s - 1) \cup Selected(r)
<1> DEFINE Empty == opt.prune /\ Len(L) = F[1].at
           new == {L[j].name : j \in (s + 1)..Len(L)}
           old == {L[j].name : j \in 1..(s - 1)}
           sel == {n \in Reached(r) : ~Pruned(r, n)}
<1>1. /\ Len(L) \in Nat /\ s \in 1..Len(L) /\ r = Dir(F[1], L) /\ r \in Names
      /\ s = Place(F[1])
  <2>1. r = Dir(F[1], L) /\ s = Place(F[1]) /\ r \in Names
    BY DEF Walk
  <2> QED BY <2>1, HeadDir
<1>s. s \in Nat /\ s <= Len(L) /\ s >= 1
  BY <1>1
<1>2. L \in Seq(Entries) /\ L # <<>>
  <2>1. L \in Seq(Entries)
    BY DEF Walk, Nested
  <2> QED BY <2>1, <1>s
<1>3. /\ Len(M) \in Nat
      /\ \A j \in 1..Len(M) : M[j] = L[j]
      /\ Empty => Len(M) = Len(L) - 1
      /\ ~Empty => Len(M) = Len(L)
  <2>1. (Empty => M = SubSeq(L, 1, Len(L) - 1)) /\ (~Empty => M = L)
    OBVIOUS
  <2> HIDE DEF Empty
  <2>2. CASE Empty
    <3>1. M = SubSeq(L, 1, Len(L) - 1)
      BY <2>1, <2>2
    <3> QED BY <3>1, <2>2, <1>2, Shorter
  <2>3. CASE ~Empty
    BY <2>1, <2>3, <1>2
  <2> QED BY <2>2, <2>3
<1>4. /\ Empty => Pruned(r, r) /\ r # Dot
      /\ ~Empty => ~Pruned(r, r)
  BY <1>1, NothingListed, SomethingListed
<1>5. L[s].name = r
  BY <1>1 DEF Dir
<1>6. \A x \in Reached(r) : ~Waiting(F, x)
  <2> TAKE x \in Reached(r)
  <2>1. x \in Names /\ (r = Dot \/ r \in Ancestors(x))
    BY DEF Reached
  <2> QED BY <2>1, <1>1, NothingBelow
<1>7. sel \subseteq new
  BY <1>6 DEF Walk, Accounted
<1>8. new \subseteq sel
  <2> SUFFICES ASSUME NEW j \in (s + 1)..Len(L) PROVE L[j].name \in sel
    OBVIOUS
  <2>1. L[j].name \in Reached(r) /\ (Opened(F, L, L[j].name) \/ ~Pruned(r, L[j].name))
    BY DEF Walk, Walked
  <2>2. ~Opened(F, L, L[j].name)
    <3>1. L[j].name # r
      BY <2>1 DEF Reached
    <3>2. 1..Len(F) = {1}
      OBVIOUS
    <3> QED BY <3>1, <3>2, <1>1 DEF Opened
  <2> QED BY <2>1, <2>2
<1>9. WithinLimits(r)
  BY DirsWithin DEF Walk
<1>10. Selected(r) = sel \cup (IF Pruned(r, r) THEN {} ELSE {r})
  BY <1>1, <1>9 DEF Selected
<1>11. CASE Empty
  <2>1. s = Len(L)
    <3>1. F[1].at = Len(L) /\ F[1].at # 0
      BY <1>11, <1>s
    <3> QED BY <3>1, <1>1 DEF Place
  <2>2. (s + 1)..Len(L) = {} /\ Len(M) = s - 1
    BY <2>1, <1>s, <1>3, <1>11
  <2>3. new = {}
    BY <2>2
  <2>4. NamesTo(M, Len(M)) = old
    BY <2>2, <1>3 DEF NamesTo
  <2> HIDE DEF new, old, sel
  <2> QED BY <2>3, <2>4, <1>4, <1>7, <1>10, <1>11 DEF old, NamesTo
<1>12. CASE ~Empty
  <2>1. M = L
    BY <1>12
  <2>2. 1..Len(L) = (1..(s - 1)) \cup {s} \cup ((s + 1)..Len(L))
    BY <1>s, <1>1
  <2>3. NamesTo(L, Len(L)) = old \cup {r} \cup new
    BY <2>2, <1>5 DEF NamesTo
  <2> HIDE DEF new, old, sel
  <2> QED BY <2>1, <2>3, <1>4, <1>7, <1>8, <1>10, <1>12 DEF old, NamesTo
<1> QED BY <1>11, <1>12

\* Of an argument that is no directory, or is not gone into, only itself is listed.
LEMMA NoWalk ==
    ASSUME NEW r, r # Dot, ~(r \in Names /\ Type(r) = "dir" /\ opt.recursive)
    PROVE  Selected(r) = {n \in {r} \cap Names : WithinLimits(n)}
<1>1. Reached(r) = {}
  <2> SUFFICES ASSUME NEW n \in Reached(r) PROVE FALSE
    OBVIOUS
  <2>1. r \in Ancestors(n) /\ n \in Names /\ opt.recursive
    BY DEF Reached
  <2> QED BY <2>1, Line
<1>2. \A n \in {r} \cap Names : ~Pruned(r, n)
  BY DEF Pruned
<1> QED BY <1>1, <1>2 DEF Selected

-----------------------------------------------------------------------------
(* The walk as a whole.                                                    *)

AllLines  == IF opt.files_from = <<>> THEN <<Dot>> ELSE opt.files_from
DoneLines == Len(AllLines) - Len(lines)

\* What the first k lines select.
ListedBy(k) == UNION {Selected(AllLines[i]) : i \in 1..k}

\* With k lines taken and the frames F, the list L is what it should be so far.
WalkAt(F, L, k) ==
    /\ F = <<>> => NamesTo(L, Len(L)) = ListedBy(k)
    /\ F # <<>> => \E r, s : /\ k >= 1 /\ r = AllLines[k] /\ Walk(F, L, r, s)
                             /\ NamesTo(L, s - 1) = ListedBy(k - 1)

WalkInv ==
    /\ Len(lines) <= Len(AllLines)
    /\ \A i \in 1..Len(lines) : lines[i] = AllLines[DoneLines + i]
    /\ spc # "walk" => lines = <<>> /\ frames = <<>>
    /\ \E F, L, k : F = frames /\ L = slist /\ k = DoneLines /\ WalkAt(F, L, k)

WalkedInv == ListInv /\ WalkInv

\* One line more.
LEMMA ListedNext ==
    ASSUME NEW k \in Nat
    PROVE  ListedBy(k + 1) = ListedBy(k) \cup Selected(AllLines[k + 1])
<1>1. 1..(k + 1) = (1..k) \cup {k + 1}
  OBVIOUS
<1> QED BY <1>1 DEF ListedBy

\* One entry more.
LEMMA NamesMore ==
    ASSUME NEW L \in Seq(Entries), NEW e \in Entries
    PROVE  /\ NamesTo(Append(L, e), Len(Append(L, e))) = NamesTo(L, Len(L)) \cup {e.name}
           /\ \A n \in 0..Len(L) : NamesTo(Append(L, e), n) = NamesTo(L, n)
<1>1. /\ Len(L) \in Nat /\ Len(Append(L, e)) = Len(L) + 1 /\ Append(L, e)[Len(L) + 1] = e
      /\ \A j \in 1..Len(L) : Append(L, e)[j] = L[j]
  OBVIOUS
<1>2. 1..(Len(L) + 1) = (1..Len(L)) \cup {Len(L) + 1}
  BY <1>1
<1>3. ASSUME NEW n \in 0..Len(L) PROVE NamesTo(Append(L, e), n) = NamesTo(L, n)
  <2>1. \A j \in 1..n : j \in 1..Len(L)
    BY <1>1
  <2> QED BY <2>1, <1>1 DEF NamesTo
<1>4. NamesTo(Append(L, e), Len(L) + 1) = NamesTo(Append(L, e), Len(L)) \cup {e.name}
  BY <1>1, <1>2 DEF NamesTo
<1> QED BY <1>1, <1>3, <1>4

\* What is to be listed depends on the options alone.
LEMMA WalkFrame ==
    ASSUME opt' = opt
    PROVE  /\ AllLines' = AllLines
           /\ \A k : ListedBy(k)' = ListedBy(k)
           /\ \A F, L, k : WalkAt(F, L, k)' <=> WalkAt(F, L, k)
<1>1. AllLines' = AllLines
  BY DEF AllLines
<1>2. \A n : WithinLimits(n)' = WithinLimits(n)
  BY DEF WithinLimits
<1>3. \A r : Reached(r)' = Reached(r)
  BY <1>2 DEF Reached
<1>4. \A r, n : Pruned(r, n)' = Pruned(r, n)
  BY <1>3 DEF Pruned
<1>5. \A r : Selected(r)' = Selected(r)
  BY <1>2, <1>3, <1>4 DEF Selected
<1>6. \A k : ListedBy(k)' = ListedBy(k)
  BY <1>1, <1>5 DEF ListedBy
<1>7. \A F, L, r, s : Walked(F, L, r, s)' <=> Walked(F, L, r, s)
  BY <1>3, <1>4 DEF Walked
<1>8. \A F, L, r, s : Accounted(F, L, r, s)' <=> Accounted(F, L, r, s)
  BY <1>3, <1>4 DEF Accounted
<1>9. \A F, L, r, s : Walk(F, L, r, s)' <=> Walk(F, L, r, s)
  BY <1>7, <1>8 DEF Walk
<1>10. \A F, L, k : WalkAt(F, L, k)' <=> WalkAt(F, L, k)
  BY <1>1, <1>6, <1>9 DEF WalkAt
<1> QED BY <1>1, <1>6, <1>10

\* What the invariant says of the lines that are left.
LEMMA LineFacts ==
    ASSUME WalkedInv
    PROVE  /\ opt \in Options /\ AllLines \in Seq(Seq(Bytes))
           /\ lines \in Seq(Seq(Bytes)) /\ Len(lines) \in Nat
           /\ Len(AllLines) \in Nat /\ DoneLines \in 0..Len(AllLines)
           /\ WalkAt(frames, slist, DoneLines)
           /\ slist \in Seq(Entries) /\ Len(slist) \in Nat
<1>1. opt \in Options /\ lines \in Seq(Seq(Bytes)) /\ slist \in Seq(Entries)
  BY ListAssumption DEF WalkedInv, ListInv, TypeOK
<1>2. Dot \in Seq(Bytes) /\ opt.files_from \in Seq(Seq(Bytes))
  BY <1>1, ListAssumption DEF Options
<1>3. AllLines \in Seq(Seq(Bytes))
  BY <1>2 DEF AllLines
<1>4. Len(lines) \in Nat /\ Len(AllLines) \in Nat /\ Len(slist) \in Nat
  BY <1>1, <1>3
<1>5. Len(lines) <= Len(AllLines) /\ WalkAt(frames, slist, DoneLines)
  BY DEF WalkedInv, WalkInv
<1> QED BY <1>1, <1>3, <1>4, <1>5 DEF DoneLines

\* A step of the walk, with c lines taken and d taken after it.
LEMMA WalkOn ==
    ASSUME WalkedInv, spc = "walk", UNCHANGED <<opt, spc>>,
           NEW F, NEW L, NEW d, F = frames', L = slist', WalkAt(F, L, d),
           \/ lines' = lines /\ d = DoneLines
           \/ lines # <<>> /\ lines' = Tail(lines) /\ d = DoneLines + 1
    PROVE  WalkInv'
<1>1. AllLines' = AllLines /\ WalkAt(F, L, d)'
  BY WalkFrame
<1>2. /\ lines \in Seq(Seq(Bytes)) /\ Len(lines) \in Nat /\ Len(AllLines) \in Nat
      /\ Len(lines) <= Len(AllLines)
      /\ \A i \in 1..Len(lines) : lines[i] = AllLines[DoneLines + i]
  BY LineFacts DEF WalkedInv, WalkInv
<1>3. CASE lines' = lines /\ d = DoneLines
  <2>1. DoneLines' = DoneLines
    BY <1>1, <1>3 DEF DoneLines
  <2> QED BY <1>1, <1>2, <1>3, <2>1 DEF WalkInv
<1>4. CASE lines # <<>> /\ lines' = Tail(lines) /\ d = DoneLines + 1
  <2>1. /\ Len(lines) >= 1 /\ Len(lines') = Len(lines) - 1
        /\ \A i \in 1..(Len(lines) - 1) : lines'[i] = lines[i + 1]
    BY <1>2, <1>4
  <2>2. DoneLines' = DoneLines + 1
    BY <1>1, <1>2, <2>1 DEF DoneLines
  <2>3. \A i \in 1..Len(lines') : lines'[i] = AllLines[DoneLines + 1 + i]
    <3> TAKE i \in 1..Len(lines')
    <3>1. i + 1 \in 1..Len(lines) /\ lines'[i] = lines[i + 1]
      BY <2>1, <1>2
    <3>2. lines[i + 1] = AllLines[DoneLines + (i + 1)]
      BY <3>1, <1>2
    <3>3. DoneLines + (i + 1) = DoneLines + 1 + i
      BY <1>2 DEF DoneLines
    <3> QED BY <3>1, <3>2, <3>3
  <2>4. Len(lines') <= Len(AllLines)
    BY <1>2, <2>1
  <2>5. Len(lines)' <= Len(AllLines)' /\ \A i \in 1..Len(lines') : lines'[i] = AllLines'[DoneLines' + i]
    BY <1>1, <2>2, <2>3, <2>4
  <2>6. F = frames' /\ L = slist' /\ d = DoneLines' /\ WalkAt(F, L, d)'
    BY <1>1, <1>4, <2>2
  <2> QED BY <2>5, <2>6 DEF WalkInv
<1> QED BY <1>3, <1>4

\* The next line: a walk begins, or it is one name or none.
LEMMA ListLineWalk ==
    ASSUME WalkedInv, ListLine
    PROVE  WalkInv'
<1> DEFINE n == Head(lines)
           e == file_info_from_meta(n)
           k == DoneLines
<1>1. /\ spc = "walk" /\ frames = <<>> /\ lines # <<>> /\ lines' = Tail(lines)
      /\ UNCHANGED <<opt, spc>>
  BY DEF ListLine
<1>2. /\ AllLines \in Seq(Seq(Bytes)) /\ Len(AllLines) \in Nat /\ k \in Nat
      /\ opt \in OptionSets /\ opt \in Options
      /\ slist \in Seq(Entries) /\ Len(slist) \in Nat
      /\ NamesTo(slist, Len(slist)) = ListedBy(k)
  BY <1>1, LineFacts DEF WalkAt, WalkedInv, ListInv, TypeOK
<1>3. n = AllLines[k + 1] /\ k + 1 \in 1..Len(AllLines)
  <2>1. lines \in Seq(Seq(Bytes)) /\ Len(lines) \in Nat /\ Len(lines) >= 1
        /\ Len(lines) <= Len(AllLines) /\ lines[1] = AllLines[DoneLines + 1] /\ n = lines[1]
    <3>1. lines \in Seq(Seq(Bytes)) /\ Len(lines) \in Nat /\ Len(lines) >= 1 /\ n = lines[1]
      BY <1>1, LineFacts
    <3> QED BY <3>1 DEF WalkedInv, WalkInv
  <2> QED BY <2>1, <1>2 DEF DoneLines
<1>4. ListedBy(k + 1) = ListedBy(k) \cup Selected(n)
  BY <1>2, <1>3, ListedNext
<1>5. n = Dot => k = 0 /\ slist = <<>>
  <2> SUFFICES ASSUME n = Dot PROVE k = 0 /\ slist = <<>>
    OBVIOUS
  <2>1. opt.files_from = <<>>
    <3> SUFFICES ASSUME opt.files_from # <<>> PROVE FALSE
      OBVIOUS
    <3>1. AllLines = opt.files_from /\ DOMAIN AllLines = 1..Len(AllLines)
      BY <1>2 DEF AllLines
    <3> QED BY <3>1, <1>2, <1>3, ListAssumption
  <2>2. Len(AllLines) = 1
    BY <2>1 DEF AllLines
  <2>3. k = 0
    BY <2>2, <1>2, <1>3
  <2>4. ListedBy(0) = {}
    <3>1. 1..0 = {}
      OBVIOUS
    <3> QED BY <3>1 DEF ListedBy
  <2>5. Len(slist) = 0
    <3> SUFFICES ASSUME Len(slist) >= 1 PROVE FALSE
      BY <1>2
    <3>1. slist[1].name \in NamesTo(slist, Len(slist))
      BY <1>2 DEF NamesTo
    <3> QED BY <3>1, <2>3, <2>4, <1>2
  <2> QED BY <2>3, <2>5, <1>2
<1>6. ASSUME n \in Names PROVE e \in Entries /\ e.name = n
  <2>1. TypeOK /\ Quiet
    BY DEF WalkedInv, ListInv, SenderInv
  <2> QED BY <2>1, <1>6, StatFacts DEF file_info_from_meta
<1> HIDE DEF n, e, k
<1>7. PICK F, L, M : F = frames' /\ L = slist /\ M = slist'
  OBVIOUS
<1>8. WalkAt(F, M, k + 1)
  <2>1. CASE n \notin Names \/ ~WithinLimits(n)
    <3>1. F = <<>> /\ M = L
      BY <2>1, <1>1, <1>7 DEF ListLine, n
    <3>2. n # Dot /\ ~(n \in Names /\ Type(n) = "dir" /\ opt.recursive)
      BY <2>1, DirsWithin, ListAssumption DEF Type
    <3>3. Selected(n) = {}
      BY <2>1, <3>2, NoWalk
    <3> QED BY <3>1, <3>3, <1>2, <1>4, <1>7 DEF WalkAt
  <2>2. CASE n \in Names /\ WithinLimits(n) /\ ~(n = Dot \/ (Type(n) = "dir" /\ opt.recursive))
    <3>1. F = <<>> /\ M = Append(L, e)
      BY <2>2, <1>1, <1>7 DEF ListLine, n, e
    <3>2. Selected(n) = {n}
      BY <2>2, NoWalk
    <3>3. L \in Seq(Entries) /\ e \in Entries /\ e.name = n
      BY <2>2, <1>2, <1>6, <1>7
    <3>4. NamesTo(M, Len(M)) = NamesTo(L, Len(L)) \cup {n}
      BY <3>1, <3>3, NamesMore
    <3> QED BY <3>1, <3>2, <3>4, <1>2, <1>4, <1>7 DEF WalkAt
  <2>3. CASE n \in Names /\ WithinLimits(n) /\ (n = Dot \/ (Type(n) = "dir" /\ opt.recursive))
    <3>1. M = Append(L, e) /\ F = <<Frame(n, IF n = Dot THEN 0 ELSE Len(L) + 1)>>
      BY <2>3, <1>1, <1>7 DEF ListLine, n, e
    <3>2. Type(n) = "dir"
      BY <2>3, ListAssumption DEF Type
    <3>3. Walk(F, M, n, Len(L) + 1)
      BY <3>1, <3>2, <2>3, <1>2, <1>5, <1>6, <1>7, SetOut
    <3>4. NamesTo(M, Len(L)) = NamesTo(L, Len(L))
      BY <3>1, <2>3, <1>2, <1>6, <1>7, NamesMore
    <3>5. F # <<>> /\ (Len(L) + 1) - 1 = Len(L) /\ (k + 1) - 1 = k /\ k + 1 >= 1
      BY <3>1, <1>2, <1>7
    <3> QED BY <3>3, <3>4, <3>5, <1>2, <1>3, <1>7 DEF WalkAt
  <2> QED BY <2>1, <2>2, <2>3
<1> QED BY <1>1, <1>7, <1>8, WalkOn DEF k

\* An entry of the open directory: it is passed over, taken up or gone into.
LEMMA VisitWalk ==
    ASSUME WalkedInv, NEW n \in Names, Visit(n)
    PROVE  WalkInv'
<1> DEFINE e == file_info_from_meta(n)
           k == DoneLines
<1>1. spc = "walk" /\ frames # <<>> /\ n \in Head(frames).todo /\ UNCHANGED <<opt, spc, lines>>
  BY DEF Visit
<1>2. PICK F, L, M : F = frames /\ L = slist /\ M = slist'
  OBVIOUS
<1>3. PICK r, s : /\ k >= 1 /\ r = AllLines[k] /\ Walk(F, L, r, s)
                  /\ NamesTo(L, s - 1) = ListedBy(k - 1)
  BY <1>1, <1>2, LineFacts DEF WalkAt
<1>4. F \in Seq(FrameSet) /\ F # <<>> /\ L \in Seq(Entries)
  BY <1>3 DEF Walk, Nested
<1>5. s \in Nat /\ s >= 1 /\ s <= Len(L) /\ Len(L) \in Nat
  BY <1>3, HeadDir
<1>6. e \in Entries /\ e.name = n
  <2>1. TypeOK /\ Quiet
    BY DEF WalkedInv, ListInv, SenderInv
  <2> QED BY <2>1, StatFacts DEF file_info_from_meta
<1>7. n \in F[1].todo
  BY <1>1, <1>2, <1>4
<1>8. /\ <<Done(n)>> \o Tail(frames) = Read(F, n)
      /\ \A f : <<f, Done(n)>> \o Tail(frames) = Pushed(F, n, f)
  <2>1. Head(F) = F[1]
    BY <1>4
  <2>2. Done(n) = [F[1] EXCEPT !.todo = @ \ {n}]
    BY <2>1, <1>2 DEF Done
  <2> QED BY <2>2, <1>2 DEF Read, Pushed
<1> HIDE DEF e, k
<1>9. NamesTo(Append(L, e), s - 1) = NamesTo(L, s - 1)
  BY <1>4, <1>5, <1>6, NamesMore
<1>10. PICK G : G = frames'
  OBVIOUS
<1>11. ASSUME Walk(G, M, r, s), NamesTo(M, s - 1) = NamesTo(L, s - 1) PROVE WalkAt(G, M, k)
  <2>1. G # <<>>
    BY <1>11 DEF Walk, Nested
  <2> QED BY <2>1, <1>3, <1>11 DEF WalkAt
<1>12. WalkAt(G, M, k)
  <2>1. CASE n \in Excluded \/ ~WithinLimits(n)
    <3>1. G = Read(F, n) /\ M = L
      BY <2>1, <1>2, <1>8, <1>10 DEF Visit
    <3>2. Walk(G, M, r, s)
      BY <3>1, <2>1, <1>3, <1>7, PassOver
    <3> QED BY <3>1, <3>2, <1>11
  <2>2. CASE n \notin Excluded /\ WithinLimits(n) /\ ~(Type(n) = "dir" /\ opt.recursive)
    <3>1. G = Read(F, n) /\ M = Append(L, e)
      BY <2>2, <1>2, <1>8, <1>10 DEF Visit, e
    <3>2. Walk(G, M, r, s)
      BY <3>1, <2>2, <1>3, <1>6, <1>7, TakeUp
    <3> QED BY <3>1, <3>2, <1>9, <1>11
  <2>3. CASE n \notin Excluded /\ WithinLimits(n) /\ Type(n) = "dir" /\ opt.recursive
    <3>1. G = Pushed(F, n, Frame(n, Len(L) + 1)) /\ M = Append(L, e)
      BY <2>3, <1>2, <1>8, <1>10 DEF Visit, e
    <3>2. Walk(G, M, r, s)
      BY <3>1, <2>3, <1>3, <1>6, <1>7, GoInto
    <3> QED BY <3>1, <3>2, <1>9, <1>11
  <2> QED BY <2>1, <2>2, <2>3
<1> QED BY <1>1, <1>2, <1>10, <1>12, WalkOn DEF k

\* A directory has been read: the walk goes on above it, or the line is done.
LEMMA LeaveWalk ==
    ASSUME WalkedInv, Leave
    PROVE  WalkInv'
<1> DEFINE k == DoneLines
<1>1. spc = "walk" /\ frames # <<>> /\ Head(frames).todo = {} /\ UNCHANGED <<opt, spc, lines>>
  BY DEF Leave
<1>2. PICK F, L, M, G : F = frames /\ L = slist /\ M = slist' /\ G = frames'
  OBVIOUS
<1>3. PICK r, s : /\ k >= 1 /\ r = AllLines[k] /\ Walk(F, L, r, s)
                  /\ NamesTo(L, s - 1) = ListedBy(k - 1)
  BY <1>1, <1>2, LineFacts DEF WalkAt
<1>4. F \in Seq(FrameSet) /\ F # <<>> /\ L \in Seq(Entries)
  BY <1>3 DEF Walk, Nested
<1>5. s \in Nat /\ s >= 1 /\ s <= Len(L) /\ Len(L) \in Nat /\ Len(F) \in Nat /\ Len(F) >= 1
  BY <1>3, HeadDir
<1>6. Head(frames) = F[1] /\ F[1].todo = {}
  BY <1>1, <1>2, <1>4
<1>7. M = (IF opt.prune /\ Len(L) = F[1].at THEN SubSeq(L, 1, Len(L) - 1) ELSE L) /\ G = Tail(F)
  BY <1>2, <1>6 DEF Leave
<1>8. k \in Nat
  BY LineFacts
<1> HIDE DEF k
<1>9. CASE Len(F) > 1
  <2>1. Walk(G, M, r, s)
    BY <1>3, <1>6, <1>7, <1>9, GoBack
  <2>2. \A j \in 1..(s - 1) : M[j] = L[j]
    <3>1. CASE M = L
      BY <3>1
    <3>2. CASE M = SubSeq(L, 1, Len(L) - 1)
      <4>1. L # <<>>
        BY <1>5
      <4>2. Len(M) = Len(L) - 1 /\ \A j \in 1..Len(M) : M[j] = L[j]
        BY <3>2, <4>1, <1>4, Shortened, Zenon
      <4>3. \A j \in 1..(s - 1) : j \in 1..(Len(L) - 1)
        BY <1>5
      <4> QED BY <4>2, <4>3
    <3> QED BY <3>1, <3>2, <1>7
  <2>3. NamesTo(M, s - 1) = NamesTo(L, s - 1)
    BY <2>2 DEF NamesTo
  <2>4. G # <<>>
    BY <2>1 DEF Walk, Nested
  <2>5. WalkAt(G, M, k)
    BY <2>1, <2>3, <2>4, <1>3 DEF WalkAt
  <2> QED BY <2>5, <1>1, <1>2, WalkOn DEF k
<1>10. CASE Len(F) = 1
  <2>1. NamesTo(M, Len(M)) = NamesTo(L, s - 1) \cup Selected(r)
    <3>1. Walk(F, L, r, s)
      BY <1>3
    <3>2. F[1].todo = {}
      BY <1>6
    <3>3. Len(F) = 1
      BY <1>10
    <3>4. /\ opt.prune /\ Len(L) = F[1].at => M = SubSeq(L, 1, Len(L) - 1)
          /\ ~(opt.prune /\ Len(L) = F[1].at) => M = L
      BY <1>7
    <3> QED BY <3>1, <3>2, <3>3, <3>4, WalkOver
  <2>2. G = <<>>
    BY <1>4, <1>7, <1>10
  <2>3. ListedBy(k) = ListedBy(k - 1) \cup Selected(r)
    <3>1. k - 1 \in Nat /\ (k - 1) + 1 = k
      BY <1>3, <1>8
    <3> QED BY <3>1, <1>3, ListedNext
  <2>4. WalkAt(G, M, k)
    BY <2>1, <2>2, <2>3, <1>3 DEF WalkAt
  <2> QED BY <2>4, <1>1, <1>2, WalkOn DEF k
<1>11. Len(F) > 1 \/ Len(F) = 1
  <2> DEFINE z == Len(F)
  <2>1. z \in Nat /\ z >= 1
    BY <1>5
  <2> HIDE DEF z
  <2>2. z > 1 \/ z = 1
    BY <2>1
  <2> QED BY <2>2 DEF z
<1> QED BY <1>9, <1>10, <1>11

\* Sorting and marking keep the names.
LEMMA SortAndMarkWalk ==
    ASSUME WalkedInv, SortAndMark
    PROVE  WalkInv'
<1> DEFINE L == IF opt.foreign THEN slist ELSE flist_sort(slist)
           M == mark_hardlinks(L)
<1>1. /\ slist \in Seq(Entries) /\ opt \in Options /\ Len(slist) \in Nat
      /\ DOMAIN slist = 1..Len(slist)
      /\ \A i \in DOMAIN slist : Real(slist[i]) /\ Unmarked(slist[i])
  BY ListAssumption DEF WalkedInv, ListInv, TypeOK, SenderInv, SortAndMark
<1>2. frames = <<>> /\ lines = <<>> /\ slist' = M /\ UNCHANGED <<opt, frames, lines>>
  BY DEF SortAndMark
<1>3. /\ L \in Seq(Entries) /\ Len(L) = Len(slist)
      /\ \A i \in DOMAIN L : Real(L[i]) /\ Unmarked(L[i])
      /\ Listed(L) = Listed(slist)
  <2>1. CASE opt.foreign
    BY <2>1, <1>1
  <2>2. CASE ~opt.foreign
    <3> DEFINE S == flist_sort(slist)
    <3>1. Sortable(slist)
      BY <1>1, EntriesSortable
    <3>2. /\ DOMAIN S = DOMAIN slist
          /\ \A i \in DOMAIN slist : S[i] = slist[Origin(slist, i)] /\ Origin(slist, i) \in DOMAIN slist
      BY <3>1, OriginFacts DEF flist_sort
    <3>3. \A i \in DOMAIN slist : \E j \in DOMAIN slist : S[j] = slist[i]
      <4> TAKE i \in DOMAIN slist
      <4>1. Rank(slist, i) \in DOMAIN slist /\ Origin(slist, Rank(slist, i)) = i
        BY <3>1, OriginFacts, RankFacts
      <4> QED BY <4>1, <3>2
    <3>4. Listed(S) = Listed(slist)
      BY <3>2, <3>3 DEF Listed
    <3>5. S = [i \in 1..Len(slist) |-> S[i]] /\ \A i \in 1..Len(slist) : S[i] \in Entries
      BY <1>1, <3>2 DEF flist_sort
    <3> HIDE DEF S
    <3>6. S \in Seq(Entries)
      BY <1>1, <3>5, IsASeq
    <3>7. Len(S) = Len(slist) /\ L = S
      BY <2>2, <3>2, <3>6, <1>1 DEF S
    <3> QED BY <1>1, <3>2, <3>4, <3>6, <3>7
  <2> QED BY <2>1, <2>2
<1> HIDE DEF L
<1>4. /\ M \in Seq(Entries) /\ Len(M) = Len(L)
      /\ \A i \in DOMAIN L : M[i].name = L[i].name
  BY <1>1, <1>3, MarkFacts
<1> HIDE DEF M
<1>5. Listed(M) = Listed(slist)
  <2>1. DOMAIN M = DOMAIN L
    BY <1>3, <1>4
  <2> QED BY <2>1, <1>3, <1>4 DEF Listed
<1>6. NamesTo(M, Len(M)) = NamesTo(slist, Len(slist))
  <2>1. DOMAIN M = 1..Len(M)
    BY <1>4
  <2> QED BY <2>1, <1>1, <1>5 DEF NamesTo, Listed
<1>7. PICK k, N : k = DoneLines /\ N = slist'
  OBVIOUS
<1>8. WalkAt(<<>>, slist, k)
  BY <1>2, <1>7, LineFacts
<1>9. WalkAt(<<>>, N, k)
  BY <1>2, <1>6, <1>7, <1>8 DEF WalkAt
<1>10. AllLines' = AllLines /\ WalkAt(<<>>, N, k)'
  BY <1>2, <1>9, WalkFrame
<1>11. k = DoneLines' /\ Len(lines)' <= Len(AllLines)'
       /\ \A i \in 1..Len(lines') : lines'[i] = AllLines'[DoneLines' + i]
  BY <1>2, <1>7, <1>10 DEF DoneLines, WalkedInv, WalkInv
<1> QED BY <1>2, <1>7, <1>10, <1>11 DEF WalkInv

\* No other step touches what has been walked.
LEMMA SameWalk ==
    ASSUME WalkedInv, UNCHANGED <<opt, frames, lines, slist>>,
           spc' # "walk" => spc # "walk"
    PROVE  WalkInv'
<1>1. PICK F, L, k : F = frames /\ L = slist /\ k = DoneLines /\ WalkAt(F, L, k)
  BY DEF WalkedInv, WalkInv
<1>2. AllLines' = AllLines /\ WalkAt(F, L, k)'
  BY <1>1, WalkFrame
<1>3. k = DoneLines'
  BY <1>1, <1>2 DEF DoneLines
<1> QED BY <1>1, <1>2, <1>3 DEF WalkedInv, WalkInv

\* Every step keeps the walk.
LEMMA WalkInvStep ==
    ASSUME StableLinks, WalkedInv, [Next]_vars
    PROVE  WalkedInv'
<1>1. ListInv'
  BY ListInvStep DEF WalkedInv
<1>2. CASE ListLine
  BY <1>1, <1>2, ListLineWalk DEF WalkedInv
<1>3. ASSUME NEW n \in Names, Visit(n) PROVE WalkedInv'
  BY <1>1, <1>3, VisitWalk DEF WalkedInv
<1>4. CASE Leave
  BY <1>1, <1>4, LeaveWalk DEF WalkedInv
<1>5. CASE SortAndMark
  BY <1>1, <1>5, SortAndMarkWalk DEF WalkedInv
<1>6. CASE \/ SendEntry \/ SendEnd \/ RecvEntry \/ RecvEnd
           \/ delete_extraneous_from_flist \/ MakeDirs \/ TransferFiles \/ FailTransfer
           \/ MakeSymlinks \/ LinkFollower \/ Finish \/ (\E i \in Inodes : Change(i)) \/ UNCHANGED vars
  <2>1. UNCHANGED <<opt, frames, lines, slist>> /\ (spc' # "walk" => spc # "walk")
    BY <1>6 DEF SendEntry, SendEnd, RecvEntry, RecvEnd, delete_extraneous_from_flist, MakeDirs,
                TransferFiles, FailTransfer, MakeSymlinks, LinkFollower, Finish, Change, vars, source
  <2> QED BY <2>1, <1>1, SameWalk DEF WalkedInv
<1> QED BY <1>2, <1>3, <1>4, <1>5, <1>6 DEF Next, Over

\* What walk_source_dir and build_flist_from_files_from collect, with a stack
\* of open directories, entries in the order read_dir happens to yield them and
\* entries taken back by --prune-empty-dirs, is exactly what is to be listed:
\* no name is missed or left over, whatever the tree (main.rs).
THEOREM WalkIsComplete ==
    ASSUME StableLinks
    PROVE  Spec => []WalkComplete
<1>1. Init => WalkedInv
  <2> SUFFICES ASSUME Init PROVE WalkInv
    BY ListInvInit DEF WalkedInv
  <2>1. frames = <<>> /\ slist = <<>> /\ spc = "walk" /\ lines = AllLines /\ opt \in Options
    BY ListAssumption DEF Init, AllLines
  <2>2. Len(AllLines) \in Nat
    <3>1. Dot \in Seq(Bytes) /\ opt.files_from \in Seq(Seq(Bytes))
      BY <2>1, ListAssumption DEF Options
    <3> QED BY <3>1 DEF AllLines
  <2>3. DoneLines = 0
    BY <2>1, <2>2 DEF DoneLines
  <2>4. 1..0 = {} /\ Len(slist) = 0
    BY <2>1
  <2>5. WalkAt(frames, slist, 0)
    BY <2>1, <2>4 DEF WalkAt, NamesTo, ListedBy
  <2>6. \A i \in 1..Len(lines) : lines[i] = AllLines[DoneLines + i]
    BY <2>1, <2>2, <2>3
  <2> QED BY <2>1, <2>2, <2>3, <2>5, <2>6 DEF WalkInv
<1>2. WalkedInv /\ [Next]_vars => WalkedInv'
  BY WalkInvStep
<1>3. ASSUME WalkedInv PROVE WalkComplete
  <2> SUFFICES ASSUME spc = "send"
               PROVE  Listed(slist) = IF opt.files_from = <<>> THEN Selected(Dot)
                        ELSE UNION {Selected(opt.files_from[i]) : i \in DOMAIN opt.files_from}
    BY DEF WalkComplete
  <2>1. frames = <<>> /\ lines = <<>>
    BY <1>3 DEF WalkedInv, WalkInv
  <2>2. /\ AllLines \in Seq(Seq(Bytes)) /\ Len(AllLines) \in Nat
        /\ slist \in Seq(Entries) /\ Len(slist) \in Nat
        /\ WalkAt(frames, slist, DoneLines)
    BY <1>3, LineFacts
  <2>3. DoneLines = Len(AllLines)
    BY <2>1, <2>2 DEF DoneLines
  <2>4. NamesTo(slist, Len(slist)) = ListedBy(Len(AllLines))
    BY <2>1, <2>2, <2>3 DEF WalkAt
  <2>5. Listed(slist) = UNION {Selected(AllLines[i]) : i \in DOMAIN AllLines}
    <3>1. DOMAIN slist = 1..Len(slist) /\ DOMAIN AllLines = 1..Len(AllLines)
      BY <2>2
    <3> QED BY <3>1, <2>4 DEF NamesTo, ListedBy, Listed
  <2>6. CASE opt.files_from = <<>>
    <3>1. AllLines = <<Dot>>
      BY <2>6 DEF AllLines
    <3>2. DOMAIN AllLines = {1} /\ AllLines[1] = Dot
      BY <3>1
    <3> QED BY <3>2, <2>5, <2>6
  <2>7. CASE opt.files_from # <<>>
    BY <2>5, <2>7 DEF AllLines
  <2> QED BY <2>6, <2>7
<1> QED BY <1>1, <1>2, <1>3, PTL DEF Spec
=============================================================================
