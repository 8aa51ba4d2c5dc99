----------------------------- MODULE LocalSteps -----------------------------
(***************************************************************************)
(* What one step of a local copy does, for any trees, names and commands:  *)
(* facts about paths, trees and the command line; where the walk has got   *)
(* to and that it comes to every entry once; what the step of one entry    *)
(* leaves, makes and takes away at each path.                              *)
(***************************************************************************)
EXTENDS LocalCopy, SequenceTheorems, FiniteSetTheorems, WellFoundedInduction, TLAPS

-----------------------------------------------------------------------------
(* Paths.                                                                  *)

\* A prefix, name by name.
LEMMA PrefixAt ==
    ASSUME NEW p \in Path, NEW q \in Path
    PROVE  IsPrefix(p, q) <=> Len(p) <= Len(q) /\ \A i \in 1..Len(p) : p[i] = q[i]
<1>1. Len(p) \in Nat /\ Len(q) \in Nat
  BY LenProperties DEF Path
<1>2. SubSeq(p, 1, Len(p)) = p
  BY SubSeqFull DEF Path
<1>3. ASSUME Len(p) <= Len(q)
      PROVE  SubSeq(p, 1, Len(p)) = SubSeq(q, 1, Len(p)) <=> \A i \in 1..Len(p) : p[i] = q[i]
  <2>1. \A i \in 1..Len(p) : q[i] \in STRING
    BY <1>1, <1>3, ElementOfSeq DEF Path
  <2>2. /\ SubSeq(q, 1, Len(p)) \in Path /\ Len(SubSeq(q, 1, Len(p))) = Len(p)
        /\ \A i \in 1..Len(p) : SubSeq(q, 1, Len(p))[i] = q[i]
    BY <1>1, <2>1, SubSeqProperties, SMT DEF Path
  <2>3. (\A i \in 1..Len(p) : p[i] = q[i]) => p = SubSeq(q, 1, Len(p))
    BY <2>2, SeqEqual DEF Path
  <2> QED
    BY <1>2, <2>2, <2>3
<1> QED
  BY <1>1, <1>3 DEF IsPrefix

LEMMA PathLen ==
    ASSUME NEW p \in Path
    PROVE  /\ Len(p) \in Nat /\ (p = <<>> <=> Len(p) = 0) /\ DOMAIN p = 1..Len(p)
           /\ \A i \in 1..Len(p) : p[i] \in STRING
<1>1. Len(p) \in Nat /\ DOMAIN p = 1..Len(p)
  BY LenProperties DEF Path
<1>2. p = <<>> <=> Len(p) = 0
  BY <1>1, EmptySeq DEF Path
<1>3. \A i \in 1..Len(p) : p[i] \in STRING
  BY ElementOfSeq DEF Path
<1> QED
  BY <1>1, <1>2, <1>3

LEMMA PathEqual ==
    ASSUME NEW p \in Path, NEW q \in Path, Len(p) = Len(q), \A i \in 1..Len(p) : p[i] = q[i]
    PROVE  p = q
BY SeqEqual DEF Path

LEMMA PrefixRefl ==
    ASSUME NEW p \in Path
    PROVE  IsPrefix(p, p)
BY PrefixAt, PathLen

LEMMA PrefixTrans ==
    ASSUME NEW p \in Path, NEW q \in Path, NEW r \in Path, IsPrefix(p, q), IsPrefix(q, r)
    PROVE  IsPrefix(p, r)
BY PrefixAt, PathLen

LEMMA PrefixAnti ==
    ASSUME NEW p \in Path, NEW q \in Path, IsPrefix(p, q), Len(p) = Len(q)
    PROVE  p = q
BY PrefixAt, PathEqual

\* Of two paths above a third the shorter one is above the longer one.
LEMMA PrefixChain ==
    ASSUME NEW p \in Path, NEW q \in Path, NEW r \in Path, IsPrefix(p, r), IsPrefix(q, r), Len(p) <= Len(q)
    PROVE  IsPrefix(p, q)
BY PrefixAt, PathLen

LEMMA StrictLen ==
    ASSUME NEW p \in Path, NEW q \in Path, IsPrefix(p, q)
    PROVE  Len(p) <= Len(q) /\ (p # q <=> Len(p) < Len(q))
BY PrefixAt, PathLen, PrefixAnti

\* A path cut off.
LEMMA CutAt ==
    ASSUME NEW p \in Path, NEW n \in 0..Len(p)
    PROVE  /\ SubSeq(p, 1, n) \in Path /\ Len(SubSeq(p, 1, n)) = n
           /\ \A i \in 1..n : SubSeq(p, 1, n)[i] = p[i]
           /\ IsPrefix(SubSeq(p, 1, n), p)
           /\ SubSeq(p, n + 1, Len(p)) \in Path /\ Len(SubSeq(p, n + 1, Len(p))) = Len(p) - n
           /\ \A i \in 1..(Len(p) - n) : SubSeq(p, n + 1, Len(p))[i] = p[n + i]
<1>1. Len(p) \in Nat /\ n \in Nat /\ \A i \in 1..Len(p) : p[i] \in STRING
  BY PathLen
<1>2. /\ SubSeq(p, 1, n) \in Path /\ Len(SubSeq(p, 1, n)) = n
      /\ \A i \in 1..n : SubSeq(p, 1, n)[i] = p[i]
  BY <1>1, SubSeqProperties, SMT DEF Path
<1>3. /\ SubSeq(p, n + 1, Len(p)) \in Path /\ Len(SubSeq(p, n + 1, Len(p))) = Len(p) - n
      /\ \A i \in 1..(Len(p) - n) : SubSeq(p, n + 1, Len(p))[i] = p[n + i]
  <2>1. \A i \in (n + 1)..Len(p) : p[i] \in STRING
    BY <1>1
  <2> DEFINE z == Len(p)
  <2>2. z \in Nat /\ n <= z
    BY <1>1
  <2>3. /\ SubSeq(p, n + 1, z) \in Seq(STRING)
        /\ Len(SubSeq(p, n + 1, z)) = IF n + 1 <= z THEN z - (n + 1) + 1 ELSE 0
        /\ \A i \in 1..(z - (n + 1) + 1) : SubSeq(p, n + 1, z)[i] = p[n + 1 + i - 1]
    <3> HIDE DEF z
    <3>1. \A i \in (n + 1)..z : p[i] \in STRING
      BY <2>1 DEF z
    <3> QED
      BY <1>1, <2>2, <3>1, SubSeqProperties, SMT
  <2> HIDE DEF z
  <2>4. /\ SubSeq(p, n + 1, z) \in Seq(STRING) /\ Len(SubSeq(p, n + 1, z)) = z - n
        /\ \A i \in 1..(z - n) : SubSeq(p, n + 1, z)[i] = p[n + i]
    BY <1>1, <2>2, <2>3
  <2> QED
    BY <2>4 DEF z, Path
<1>4. IsPrefix(SubSeq(p, 1, n), p)
  <2> DEFINE c == SubSeq(p, 1, n)
  <2>1. c \in Path /\ Len(c) = n /\ \A i \in 1..n : c[i] = p[i]
    BY <1>2
  <2> HIDE DEF c
  <2>2. IsPrefix(c, p)
    BY <1>1, <2>1, PrefixAt
  <2> QED
    BY <2>2 DEF c
<1> QED
  BY <1>2, <1>3, <1>4

LEMMA PrefixesAre ==
    ASSUME NEW p \in Path, NEW q
    PROVE  q \in Prefixes(p) <=> q \in Path /\ IsPrefix(q, p)
<1>1. ASSUME q \in Prefixes(p)
      PROVE  q \in Path /\ IsPrefix(q, p)
  BY <1>1, CutAt DEF Prefixes
<1>2. ASSUME q \in Path, IsPrefix(q, p)
      PROVE  q \in Prefixes(p)
  <2>1. Len(q) \in 0..Len(p)
    BY <1>2, PathLen, PrefixAt
  <2>2. q = SubSeq(p, 1, Len(q))
    <3> DEFINE c == SubSeq(p, 1, Len(q))
    <3>1. c \in Path /\ Len(c) = Len(q) /\ \A i \in 1..Len(q) : c[i] = p[i]
      BY <2>1, CutAt
    <3> HIDE DEF c
    <3>2. \A i \in 1..Len(q) : q[i] = p[i]
      BY <1>2, PrefixAt
    <3>3. q = c
      BY <1>2, <3>1, <3>2, PathEqual
    <3> QED
      BY <3>3 DEF c
  <2> QED
    BY <2>1, <2>2 DEF Prefixes
<1> QED
  BY <1>1, <1>2

LEMMA ConcatAt ==
    ASSUME NEW p \in Path, NEW q \in Path
    PROVE  /\ p \o q \in Path /\ Len(p \o q) = Len(p) + Len(q)
           /\ \A i \in 1..Len(p) : (p \o q)[i] = p[i]
           /\ \A i \in 1..Len(q) : (p \o q)[Len(p) + i] = q[i]
           /\ IsPrefix(p, p \o q)
<1>1. Len(p) \in Nat /\ Len(q) \in Nat
  BY PathLen
<1>2. /\ p \o q \in Path /\ Len(p \o q) = Len(p) + Len(q)
      /\ \A i \in 1 .. Len(p) + Len(q) : (p \o q)[i] = IF i <= Len(p) THEN p[i] ELSE q[i - Len(p)]
  BY ConcatProperties DEF Path
<1>3. \A i \in 1..Len(p) : (p \o q)[i] = p[i]
  BY <1>1, <1>2
<1>4. \A i \in 1..Len(q) : (p \o q)[Len(p) + i] = q[i]
  <2> TAKE i \in 1..Len(q)
  <2>1. Len(p) + i \in 1..(Len(p) + Len(q)) /\ ~(Len(p) + i <= Len(p)) /\ (Len(p) + i) - Len(p) = i
    BY <1>1
  <2> QED
    BY <1>2, <2>1
<1>5. IsPrefix(p, p \o q)
  <2> DEFINE c == p \o q
  <2>1. c \in Path /\ Len(p) <= Len(c) /\ \A i \in 1..Len(p) : p[i] = c[i]
    BY <1>1, <1>2, <1>3
  <2> HIDE DEF c
  <2>2. IsPrefix(p, c)
    BY <2>1, PrefixAt
  <2> QED
    BY <2>2 DEF c
<1> QED
  BY <1>2, <1>3, <1>4, <1>5

\* What is below p, put below q instead.
LEMMA MovedAt ==
    ASSUME NEW p \in Path, NEW q \in Path, NEW r \in Path, IsPrefix(p, r)
    PROVE  LET m == q \o SubSeq(r, Len(p) + 1, Len(r))
           IN  /\ m \in Path /\ Len(m) = Len(q) + (Len(r) - Len(p))
               /\ \A i \in 1..Len(q) : m[i] = q[i]
               /\ \A i \in 1..(Len(r) - Len(p)) : m[Len(q) + i] = r[Len(p) + i]
               /\ IsPrefix(q, m)
<1>1. Len(p) \in 0..Len(r) /\ Len(p) \in Nat /\ Len(r) \in Nat
  BY PathLen, PrefixAt
<1>2. /\ SubSeq(r, Len(p) + 1, Len(r)) \in Path /\ Len(SubSeq(r, Len(p) + 1, Len(r))) = Len(r) - Len(p)
      /\ \A i \in 1..(Len(r) - Len(p)) : SubSeq(r, Len(p) + 1, Len(r))[i] = r[Len(p) + i]
  BY <1>1, CutAt
<1> DEFINE w == SubSeq(r, Len(p) + 1, Len(r))
<1>3. w \in Path /\ Len(w) = Len(r) - Len(p) /\ \A i \in 1..(Len(r) - Len(p)) : w[i] = r[Len(p) + i]
  BY <1>2
<1> HIDE DEF w
<1>4. /\ q \o w \in Path /\ Len(q \o w) = Len(q) + Len(w)
      /\ \A i \in 1..Len(q) : (q \o w)[i] = q[i]
      /\ \A i \in 1..Len(w) : (q \o w)[Len(q) + i] = w[i]
      /\ IsPrefix(q, q \o w)
  BY <1>3, ConcatAt
<1>5. /\ q \o w \in Path /\ Len(q \o w) = Len(q) + (Len(r) - Len(p))
      /\ \A i \in 1..Len(q) : (q \o w)[i] = q[i]
      /\ \A i \in 1..(Len(r) - Len(p)) : (q \o w)[Len(q) + i] = r[Len(p) + i]
      /\ IsPrefix(q, q \o w)
  BY <1>3, <1>4
<1> QED
  BY <1>5 DEF w

LEMMA MovedSelf ==
    ASSUME NEW p \in Path, NEW q \in Path
    PROVE  q \o SubSeq(p, Len(p) + 1, Len(p)) = q
<1>1. SubSeq(p, Len(p) + 1, Len(p)) = <<>>
  BY PathLen, SubSeqEmpty
<1> QED
  BY <1>1, ConcatEmptySeq DEF Path

LEMMA AppendAt ==
    ASSUME NEW p \in Path, NEW n \in STRING
    PROVE  /\ Append(p, n) \in Path /\ Len(Append(p, n)) = Len(p) + 1 /\ Append(p, n) # <<>>
           /\ \A i \in 1..Len(p) : Append(p, n)[i] = p[i]
           /\ Append(p, n)[Len(p) + 1] = n
           /\ IsPrefix(p, Append(p, n)) /\ Front(Append(p, n)) = p /\ Last(Append(p, n)) = n
<1>1. Len(p) \in Nat
  BY PathLen
<1>2. Append(p, n) \in Path
  BY AppendProperties DEF Path
<1>3. Len(Append(p, n)) = Len(p) + 1
  BY AppendProperties DEF Path
<1>4. \A i \in 1..Len(p) : Append(p, n)[i] = p[i]
  BY AppendProperties DEF Path
<1>5. Append(p, n)[Len(p) + 1] = n
  BY AppendProperties DEF Path
<1> DEFINE c == Append(p, n)
<1>6. c \in Path /\ Len(c) = Len(p) + 1 /\ (\A i \in 1..Len(p) : c[i] = p[i]) /\ c[Len(p) + 1] = n
  BY <1>2, <1>3, <1>4, <1>5
<1> HIDE DEF c
<1>7. IsPrefix(p, c)
  BY <1>1, <1>6, PrefixAt
<1>8. Front(c) = p
  <2>1. Len(p) \in 0..Len(c) /\ Len(c) - 1 = Len(p)
    BY <1>1, <1>6
  <2> DEFINE f == SubSeq(c, 1, Len(p))
  <2>2. f \in Path /\ Len(f) = Len(p) /\ \A i \in 1..Len(p) : f[i] = c[i]
    BY <1>6, <2>1, CutAt
  <2>3. Front(c) = f
    BY <2>1 DEF Front
  <2> HIDE DEF f
  <2>4. f = p
    BY <1>6, <2>2, PathEqual
  <2> QED
    BY <2>3, <2>4
<1>9. c # <<>> /\ Last(c) = n
  BY <1>1, <1>6, PathLen DEF Last
<1> QED
  BY <1>6, <1>7, <1>8, <1>9 DEF c

LEMMA FrontAt ==
    ASSUME NEW p \in Path, p # <<>>
    PROVE  /\ Front(p) \in Path /\ Len(Front(p)) = Len(p) - 1 /\ Len(p) \in Nat \ {0}
           /\ \A i \in 1..(Len(p) - 1) : Front(p)[i] = p[i]
           /\ Last(p) = p[Len(p)] /\ Last(p) \in STRING
           /\ IsPrefix(Front(p), p) /\ Front(p) # p
           /\ Append(Front(p), Last(p)) = p
<1>1. Len(p) \in Nat \ {0} /\ Len(p) - 1 \in 0..Len(p) /\ Len(p) \in 1..Len(p)
  BY PathLen
<1>2. /\ Front(p) \in Path /\ Len(Front(p)) = Len(p) - 1
      /\ \A i \in 1..(Len(p) - 1) : Front(p)[i] = p[i]
      /\ IsPrefix(Front(p), p)
  BY <1>1, CutAt DEF Front
<1>3. Last(p) = p[Len(p)] /\ Last(p) \in STRING
  BY <1>1, PathLen DEF Last
<1>4. Append(Front(p), Last(p)) = p
  <2> DEFINE c == Append(Front(p), Last(p))
  <2>1. /\ c \in Path /\ Len(c) = Len(Front(p)) + 1 /\ \A i \in 1..Len(Front(p)) : c[i] = Front(p)[i]
        /\ c[Len(Front(p)) + 1] = Last(p)
    BY <1>2, <1>3, AppendAt
  <2> HIDE DEF c
  <2>2. Len(c) = Len(p) /\ \A i \in 1..Len(c) : c[i] = p[i]
    BY <1>1, <1>2, <1>3, <2>1
  <2>3. c = p
    BY <2>1, <2>2, PathEqual
  <2> QED
    BY <2>3 DEF c
<1>5. Front(p) # p
  BY <1>1, <1>2
<1> QED
  BY <1>1, <1>2, <1>3, <1>4, <1>5

-----------------------------------------------------------------------------
(* Trees.                                                                  *)

LEMMA TreeAbove ==
    ASSUME NEW t, IsTree(t), NEW p \in DOMAIN t, NEW q \in Path, IsPrefix(q, p), q # p
    PROVE  IsDir(t, q)
<1>1. p \in Path
  BY DEF IsTree
<1>2. q \in Prefixes(p) \ {p}
  BY <1>1, PrefixesAre
<1> QED
  BY <1>2 DEF IsTree

LEMMA TreeIntro ==
    ASSUME NEW t, DOMAIN t \subseteq Path, IsFiniteSet(DOMAIN t), t \in [DOMAIN t -> Nodes],
           \A p \in DOMAIN t : \A q \in Path : IsPrefix(q, p) /\ q # p => IsDir(t, q)
    PROVE  IsTree(t)
<1>1. ASSUME NEW p \in DOMAIN t, NEW q \in Prefixes(p) \ {p}
      PROVE  IsDir(t, q)
  <2>1. q \in Path /\ IsPrefix(q, p)
    BY <1>1, PrefixesAre
  <2> QED
    BY <2>1
<1> QED
  BY <1>1 DEF IsTree

LEMMA TreeNode ==
    ASSUME NEW t, IsTree(t), NEW p \in DOMAIN t
    PROVE  p \in Path /\ t[p] \in Nodes
BY DEF IsTree

LEMMA DirNodeType == DirNode \in Nodes /\ DirNode.k = "dir"
BY DEF DirNode, Nodes, Kinds

\* What create_dir_all leaves as it is, and what it makes.
LEMMA MkDirsAt ==
    ASSUME NEW t, IsTree(t), NEW p \in Path, CanMkDirs(t, p)
    PROVE  LET u == MkDirs(t, p)
           IN  /\ IsTree(u)
               /\ DOMAIN t \subseteq DOMAIN u
               /\ \A q \in DOMAIN t : u[q] = t[q]
               /\ \A q \in DOMAIN u : q \notin DOMAIN t => u[q] = DirNode /\ IsPrefix(q, p)
               /\ \A q \in Path : IsPrefix(q, p) => IsDir(u, q)
<1> DEFINE u == MkDirs(t, p)
<1>1. DOMAIN u = DOMAIN t \cup Prefixes(p)
  BY DEF MkDirs
<1>2. /\ \A q \in DOMAIN t : u[q] = t[q]
      /\ \A q \in DOMAIN u : q \notin DOMAIN t => u[q] = DirNode
  BY DEF MkDirs
<1>3. \A q : q \in Prefixes(p) <=> q \in Path /\ IsPrefix(q, p)
  BY PrefixesAre
<1>4. u = [q \in DOMAIN u |-> u[q]]
  BY DEF MkDirs
<1>5. IsFiniteSet(DOMAIN u)
  <2>1. Len(p) \in Nat
    BY PathLen
  <2>2. IsFiniteSet(0..Len(p))
    BY <2>1, FS_Interval
  <2> DEFINE cut == [n \in 0..Len(p) |-> SubSeq(p, 1, n)]
  <2>3. Prefixes(p) = {cut[n] : n \in 0..Len(p)}
    BY DEF Prefixes
  <2>4. cut \in Surjection(0..Len(p), Prefixes(p))
    BY <2>3 DEF Surjection
  <2>5. IsFiniteSet(Prefixes(p))
    BY <2>2, <2>4, FS_Surjection
  <2>6. IsFiniteSet(DOMAIN t)
    BY DEF IsTree
  <2>7. IsFiniteSet(DOMAIN t \cup Prefixes(p))
    BY <2>5, <2>6, FS_Union
  <2> QED
    BY <1>1, <2>7
<1> HIDE DEF u
<1>6. \A q \in Path : IsPrefix(q, p) => IsDir(u, q)
  <2> TAKE q \in Path
  <2> HAVE IsPrefix(q, p)
  <2>1. q \in DOMAIN u /\ q \in Prefixes(p)
    BY <1>1, <1>3
  <2>2. CASE q \in DOMAIN t
    BY <1>2, <2>1, <2>2 DEF CanMkDirs, IsDir
  <2>3. CASE q \notin DOMAIN t
    BY <1>2, <2>1, <2>3, DirNodeType DEF IsDir
  <2> QED
    BY <2>2, <2>3
<1>7. IsTree(u)
  <2>1. DOMAIN u \subseteq Path
    BY <1>1, <1>3 DEF IsTree
  <2>2. u \in [DOMAIN u -> Nodes]
    <3>1. \A q \in DOMAIN u : u[q] \in Nodes
      BY <1>2, TreeNode, DirNodeType
    <3> QED
      BY <1>4, <3>1
  <2>3. ASSUME NEW r \in DOMAIN u, NEW q \in Path, IsPrefix(q, r), q # r
        PROVE  IsDir(u, q)
    <3>1. CASE r \in DOMAIN t
      <4>1. IsDir(t, q)
        BY <2>3, <3>1, TreeAbove
      <4> QED
        BY <1>1, <1>2, <4>1 DEF IsDir
    <3>2. CASE r \in Prefixes(p)
      <4>1. r \in Path /\ IsPrefix(r, p)
        BY <1>3, <3>2
      <4>2. IsPrefix(q, p)
        BY <2>3, <4>1, PrefixTrans
      <4> QED
        BY <1>6, <4>2
    <3> QED
      BY <1>1, <3>1, <3>2
  <2> QED
    BY <1>5, <2>1, <2>2, <2>3, TreeIntro
<1> QED
  BY <1>1, <1>2, <1>3, <1>6, <1>7 DEF u

LEMMA PutAt ==
    ASSUME NEW t, IsTree(t), NEW p \in Path, p # <<>>, NEW node \in Nodes,
           ~IsDir(t, p), IsDir(t, Front(p))
    PROVE  LET u == Put(t, p, node)
           IN  /\ IsTree(u)
               /\ DOMAIN u = DOMAIN t \cup {p} /\ u[p] = node
               /\ \A q \in DOMAIN t : q # p => u[q] = t[q]
<1> DEFINE u == Put(t, p, node)
<1>1. /\ DOMAIN u = DOMAIN t \cup {p} /\ u[p] = node
      /\ \A q \in DOMAIN t : q # p => u[q] = t[q]
      /\ u = [q \in DOMAIN u |-> u[q]]
  BY DEF Put
<1> HIDE DEF u
<1>2. DOMAIN u \subseteq Path /\ IsFiniteSet(DOMAIN u)
  BY <1>1, FS_AddElement DEF IsTree
<1>3. u \in [DOMAIN u -> Nodes]
  <2>1. \A q \in DOMAIN u : u[q] \in Nodes
    BY <1>1, TreeNode
  <2> QED
    BY <1>1, <2>1
<1>4. ASSUME NEW r \in DOMAIN u, NEW q \in Path, IsPrefix(q, r), q # r
      PROVE  IsDir(u, q)
  <2>1. r \in Path
    BY <1>2
  <2>2. CASE r \in DOMAIN t
    <3>1. IsDir(t, q)
      BY <1>4, <2>2, TreeAbove
    <3> QED
      BY <1>1, <3>1 DEF IsDir
  <2>3. CASE r = p
    <3>1. /\ Front(p) \in Path /\ Len(Front(p)) = Len(p) - 1 /\ Len(p) \in Nat \ {0}
          /\ IsPrefix(Front(p), p) /\ Front(p) # p
      BY FrontAt
    <3>2. Len(q) \in Nat /\ Len(q) < Len(p)
      BY <1>4, <2>1, <2>3, StrictLen, PathLen
    <3>3. IsPrefix(q, Front(p))
      BY <1>4, <2>3, <3>1, <3>2, PrefixChain
    <3>4. IsDir(t, q)
      <4>1. CASE q = Front(p)
        BY <4>1
      <4>2. CASE q # Front(p)
        BY <3>3, <4>2, TreeAbove DEF IsDir
      <4> QED
        BY <4>1, <4>2
    <3> QED
      BY <1>1, <3>4 DEF IsDir
  <2> QED
    BY <1>1, <2>2, <2>3
<1>5. IsTree(u)
  BY <1>2, <1>3, <1>4, TreeIntro
<1> QED
  BY <1>1, <1>5 DEF u

LEMMA DropAt ==
    ASSUME NEW t, IsTree(t), NEW P,
           \A p \in P : \A r \in DOMAIN t : p \in Path /\ IsPrefix(p, r) => r \in P
    PROVE  LET u == Drop(t, P)
           IN  /\ IsTree(u)
               /\ DOMAIN u = DOMAIN t \ P
               /\ \A q \in DOMAIN u : u[q] = t[q]
<1> DEFINE u == Drop(t, P)
<1>1. /\ DOMAIN u = DOMAIN t \ P
      /\ \A q \in DOMAIN u : u[q] = t[q]
      /\ u = [q \in DOMAIN u |-> u[q]]
  BY DEF Drop
<1> HIDE DEF u
<1>2. DOMAIN u \subseteq Path /\ IsFiniteSet(DOMAIN u)
  BY <1>1, FS_Subset DEF IsTree
<1>3. u \in [DOMAIN u -> Nodes]
  <2>1. \A q \in DOMAIN u : u[q] \in Nodes
    BY <1>1, TreeNode
  <2> QED
    BY <1>1, <2>1
<1>4. ASSUME NEW r \in DOMAIN u, NEW q \in Path, IsPrefix(q, r), q # r
      PROVE  IsDir(u, q)
  <2>1. IsDir(t, q)
    BY <1>1, <1>4, TreeAbove
  <2>2. q \notin P
    BY <1>1, <1>4
  <2> QED
    BY <1>1, <2>1, <2>2 DEF IsDir
<1>5. IsTree(u)
  BY <1>2, <1>3, <1>4, TreeIntro
<1> QED
  BY <1>1, <1>5 DEF u

\* A path that is no directory has nothing below it.
LEMMA FileAlone ==
    ASSUME NEW t, IsTree(t), NEW p \in Path, ~IsDir(t, p), NEW r \in DOMAIN t, IsPrefix(p, r)
    PROVE  r = p
BY TreeAbove

LEMMA UnlinkedAt ==
    ASSUME NEW t, IsTree(t), NEW p \in Path
    PROVE  LET u == Unlinked(t, p)
           IN  /\ IsTree(u)
               /\ DOMAIN u = IF IsDir(t, p) THEN DOMAIN t ELSE DOMAIN t \ {p}
               /\ \A q \in DOMAIN u : u[q] = t[q]
<1>1. CASE IsDir(t, p)
  BY <1>1 DEF Unlinked
<1>2. CASE ~IsDir(t, p)
  <2>1. \A q \in {p} : \A r \in DOMAIN t : q \in Path /\ IsPrefix(q, r) => r \in {p}
    BY <1>2, FileAlone
  <2> QED
    BY <1>2, <2>1, DropAt, ZenonT(60) DEF Unlinked
<1> QED
  BY <1>1, <1>2

\* A directory without children is empty.
LEMMA ChildlessEmpty ==
    ASSUME NEW t, IsTree(t), NEW p \in Path, NEW r \in DOMAIN t, IsPrefix(p, r), r # p
    PROVE  Children(t, p) # {}
<1>1. r \in Path
  BY TreeNode
<1>2. Len(p) < Len(r) /\ Len(p) \in Nat /\ Len(r) \in Nat
  BY <1>1, StrictLen, PathLen
<1> DEFINE c == SubSeq(r, 1, Len(p) + 1)
<1>3. c \in Path /\ Len(c) = Len(p) + 1 /\ (\A i \in 1..(Len(p) + 1) : c[i] = r[i]) /\ IsPrefix(c, r)
  BY <1>1, <1>2, CutAt
<1> HIDE DEF c
<1>4. c \in DOMAIN t
  <2>1. CASE c = r
    BY <2>1
  <2>2. CASE c # r
    BY <1>3, <2>2, TreeAbove DEF IsDir
  <2> QED
    BY <2>1, <2>2
<1>5. c # <<>>
  BY <1>2, <1>3, PathLen
<1>6. Front(c) = p
  <2>1. /\ Front(c) \in Path /\ Len(Front(c)) = Len(c) - 1
        /\ \A i \in 1..(Len(c) - 1) : Front(c)[i] = c[i]
    BY <1>3, <1>5, FrontAt
  <2>2. \A i \in 1..Len(p) : p[i] = r[i]
    BY <1>1, PrefixAt
  <2>3. Len(Front(c)) = Len(p) /\ \A i \in 1..Len(Front(c)) : Front(c)[i] = p[i]
    BY <1>2, <1>3, <2>1, <2>2
  <2> QED
    BY <2>1, <2>3, PathEqual
<1> QED
  BY <1>4, <1>5, <1>6 DEF Children

LEMMA SetFieldAt ==
    ASSUME NEW t, IsTree(t), NEW p \in DOMAIN t, NEW node \in Nodes, node.k = t[p].k
    PROVE  LET u == [t EXCEPT ![p] = node]
           IN  /\ IsTree(u)
               /\ DOMAIN u = DOMAIN t /\ u[p] = node
               /\ \A q \in DOMAIN t : q # p => u[q] = t[q]
<1> DEFINE u == [t EXCEPT ![p] = node]
<1>1. t \in [DOMAIN t -> Nodes]
  BY DEF IsTree
<1>2. /\ DOMAIN u = DOMAIN t /\ u[p] = node
      /\ \A q \in DOMAIN t : q # p => u[q] = t[q]
      /\ u \in [DOMAIN u -> Nodes]
  BY <1>1
<1>3. \A q : IsDir(u, q) <=> IsDir(t, q)
  BY <1>2 DEF IsDir
<1> HIDE DEF u
<1>4. \A r \in DOMAIN u : \A q \in Path : IsPrefix(q, r) /\ q # r => IsDir(u, q)
  BY <1>2, <1>3, TreeAbove
<1>5. IsTree(u)
  BY <1>2, <1>4, TreeIntro DEF IsTree
<1> QED
  BY <1>2, <1>5 DEF u

LEMMA NodeFields ==
    ASSUME NEW node \in Nodes
    PROVE  /\ \A v \in DOMAIN Size \cup {"none", Partial} : LET m == [node EXCEPT !.c = v]
                                IN  /\ m \in Nodes /\ m.c = v /\ m.k = node.k
                                    /\ m.i = node.i /\ m.mt = node.mt
           /\ \A v \in Nat : LET m == [node EXCEPT !.mt = v]
                             IN  /\ m \in Nodes /\ m.mt = v /\ m.k = node.k
                                 /\ m.i = node.i /\ m.c = node.c
BY DEF Nodes

LEMMA SiblingAt ==
    ASSUME NEW p \in Path, p # <<>>, NEW f, f[Last(p)] \in STRING
    PROVE  /\ Sibling(p, f) \in Path /\ Sibling(p, f) # <<>> /\ Len(Sibling(p, f)) = Len(p)
           /\ Front(Sibling(p, f)) = Front(p) /\ Last(Sibling(p, f)) = f[Last(p)]
           /\ Sibling(p, f)[Len(p)] = f[Last(p)]
           /\ \A i \in 1..(Len(p) - 1) : Sibling(p, f)[i] = p[i]
<1>1. /\ Front(p) \in Path /\ Len(Front(p)) = Len(p) - 1 /\ Len(p) \in Nat \ {0}
      /\ \A i \in 1..(Len(p) - 1) : Front(p)[i] = p[i]
  BY FrontAt
<1> DEFINE c == Append(Front(p), f[Last(p)])
<1>2. /\ c \in Path /\ Len(c) = Len(Front(p)) + 1 /\ c # <<>>
      /\ \A i \in 1..Len(Front(p)) : c[i] = Front(p)[i]
      /\ c[Len(Front(p)) + 1] = f[Last(p)]
      /\ Front(c) = Front(p) /\ Last(c) = f[Last(p)]
  BY <1>1, AppendAt
<1> HIDE DEF c
<1>3. Len(c) = Len(p) /\ c[Len(p)] = f[Last(p)] /\ \A i \in 1..(Len(p) - 1) : c[i] = p[i]
  BY <1>1, <1>2
<1> QED
  BY <1>2, <1>3 DEF c, Sibling

\* The other name of a path below p when p becomes q.
Other(p, q, r) == q \o SubSeq(r, Len(p) + 1, Len(r))

LEMMA OtherAt ==
    ASSUME NEW p \in Path, NEW q \in Path, NEW r \in Path, Len(p) = Len(q), IsPrefix(p, r)
    PROVE  /\ Other(p, q, r) \in Path /\ Len(Other(p, q, r)) = Len(r) /\ IsPrefix(q, Other(p, q, r))
           /\ \A i \in (Len(p) + 1)..Len(r) : Other(p, q, r)[i] = r[i]
           /\ Other(q, p, Other(p, q, r)) = r
           /\ r = p => Other(p, q, r) = q
<1>1. Len(p) \in Nat /\ Len(r) \in Nat /\ Len(p) <= Len(r) /\ \A i \in 1..Len(p) : p[i] = r[i]
  BY PathLen, PrefixAt
<1> DEFINE m == Other(p, q, r)
<1>2. /\ m \in Path /\ Len(m) = Len(q) + (Len(r) - Len(p)) /\ IsPrefix(q, m)
      /\ \A i \in 1..(Len(r) - Len(p)) : m[Len(q) + i] = r[Len(p) + i]
  BY MovedAt DEF Other
<1>3. m \in Path /\ Len(m) = Len(r) /\ IsPrefix(q, m)
  BY <1>1, <1>2
<1>4. \A i \in (Len(p) + 1)..Len(r) : m[i] = r[i]
  <2> TAKE i \in (Len(p) + 1)..Len(r)
  <2>1. i - Len(p) \in 1..(Len(r) - Len(p)) /\ i = Len(p) + (i - Len(p))
    BY <1>1
  <2> QED
    BY <1>2, <2>1
<1> DEFINE b == Other(q, p, m)
<1>5. /\ b \in Path /\ Len(b) = Len(p) + (Len(m) - Len(q)) /\ IsPrefix(p, b)
      /\ \A i \in 1..Len(p) : b[i] = p[i]
      /\ \A i \in 1..(Len(m) - Len(q)) : b[Len(p) + i] = m[Len(q) + i]
  BY <1>3, MovedAt, ZenonT(60) DEF Other
<1>6. Len(b) = Len(r)
  BY <1>1, <1>3, <1>5
<1>7. \A i \in 1..Len(b) : b[i] = r[i]
  <2> TAKE i \in 1..Len(b)
  <2>1. CASE i <= Len(p)
    BY <1>1, <1>5, <2>1
  <2>2. CASE i > Len(p)
    <3>1. i - Len(p) \in 1..(Len(m) - Len(q)) /\ i = Len(p) + (i - Len(p)) /\ i \in (Len(p) + 1)..Len(r)
      BY <1>1, <1>3, <1>6, <2>2
    <3>2. b[Len(p) + (i - Len(p))] = m[Len(q) + (i - Len(p))]
      BY <1>5, <3>1
    <3> QED
      BY <1>4, <3>1, <3>2
  <2> QED
    BY <1>1, <1>6, <2>1, <2>2
<1>8. b = r
  BY <1>5, <1>6, <1>7, PathEqual
<1>9. r = p => m = q
  BY MovedSelf DEF Other
<1> QED
  BY <1>3, <1>4, <1>8, <1>9

\* rename, of two names in one directory.
LEMMA RenamedAt ==
    ASSUME NEW t, IsTree(t), NEW p \in Path, NEW q \in Path, p # q, Len(p) = Len(q), p # <<>>,
           CanRename(t, p, q), Front(q) = Front(p)
    PROVE  LET u == Renamed(t, p, q)
           IN  \/ u = t /\ q \in DOMAIN t /\ SameFile(t[p], t[q])
               \/ /\ IsTree(u)
                  /\ p \in DOMAIN t => ~(q \in DOMAIN t /\ SameFile(t[p], t[q]))
                  /\ \A r \in Path : ~IsPrefix(p, r) /\ ~IsPrefix(q, r) =>
                        (r \in DOMAIN u <=> r \in DOMAIN t) /\ (r \in DOMAIN t => u[r] = t[r])
                  /\ \A r \in Path : IsPrefix(p, r) => r \notin DOMAIN u
                  /\ \A r \in Path : IsPrefix(q, r) =>
                        /\ r \in DOMAIN u <=> Other(q, p, r) \in DOMAIN t
                        /\ r \in DOMAIN u => u[r] = t[Other(q, p, r)]
<1> DEFINE u == Renamed(t, p, q)
           moved == {r \in DOMAIN t : IsPrefix(p, r)}
           rest == DOMAIN t \ moved
<1>1. p \in DOMAIN t /\ (q \in DOMAIN t => IsDir(t, p) = IsDir(t, q))
  BY DEF CanRename
<1>2. CASE q \in DOMAIN t /\ t[q].i = t[p].i /\ ~IsDir(t, p)
  BY <1>1, <1>2 DEF Renamed, SameFile, IsDir
<1>3. CASE ~(q \in DOMAIN t /\ t[q].i = t[p].i /\ ~IsDir(t, p))
  <2>1. DOMAIN t \subseteq Path /\ IsFiniteSet(DOMAIN t)
    BY DEF IsTree
  <2>2. u = [r \in rest \cup {Other(p, q, m) : m \in moved} |->
                IF \E m \in moved : Other(p, q, m) = r
                THEN t[CHOOSE m \in moved : Other(p, q, m) = r] ELSE t[r]]
    BY <1>3 DEF Renamed, Other
  <2>3. \A r \in Path : IsPrefix(p, r) => ~IsPrefix(q, r)
    BY PrefixChain, PrefixAnti, PathLen
  <2>4. \A r \in DOMAIN t : IsPrefix(q, r) => r = q /\ ~IsPrefix(p, r)
    <3> TAKE r \in DOMAIN t
    <3> HAVE IsPrefix(q, r)
    <3>1. ASSUME r # q
          PROVE  FALSE
      <4>1. IsDir(t, q)
        BY <2>1, <3>1, TreeAbove
      <4>2. Children(t, q) # {}
        BY <2>1, <3>1, ChildlessEmpty
      <4> QED
        BY <4>1, <4>2 DEF CanRename, IsDir
    <3> QED
      BY <2>1, <2>3, <3>1
  <2>5. \A m \in moved : /\ m \in Path /\ Other(p, q, m) \in Path /\ IsPrefix(q, Other(p, q, m))
                         /\ Other(q, p, Other(p, q, m)) = m
    BY <2>1, OtherAt
  <2>6. \A r \in Path : IsPrefix(q, r) => /\ Other(q, p, r) \in Path /\ IsPrefix(p, Other(q, p, r))
                                          /\ Other(p, q, Other(q, p, r)) = r
    BY OtherAt
  <2>7. DOMAIN u = rest \cup {Other(p, q, m) : m \in moved}
    BY <2>2
  <2>8. \A m \in moved : Other(p, q, m) \in DOMAIN u /\ u[Other(p, q, m)] = t[m]
    <3> TAKE m \in moved
    <3>1. Other(p, q, m) \in DOMAIN u
      BY <2>7
    <3>2. \A n \in moved : Other(p, q, n) = Other(p, q, m) => n = m
      BY <2>5
    <3>3. (CHOOSE n \in moved : Other(p, q, n) = Other(p, q, m)) = m
      BY <3>2
    <3> QED
      BY <2>2, <3>1, <3>3
  <2>9. \A r \in rest : r \in Path /\ ~IsPrefix(p, r) /\ (~IsPrefix(q, r) => r \in DOMAIN u /\ u[r] = t[r])
    BY <2>1, <2>2, <2>5
  <2> HIDE DEF u
  <2>10. \A r \in Path : ~IsPrefix(p, r) /\ ~IsPrefix(q, r) =>
            (r \in DOMAIN u <=> r \in DOMAIN t) /\ (r \in DOMAIN t => u[r] = t[r])
    <3> TAKE r \in Path
    <3> HAVE ~IsPrefix(p, r) /\ ~IsPrefix(q, r)
    <3>1. r \in DOMAIN t => r \in DOMAIN u /\ u[r] = t[r]
      BY <2>9
    <3>2. r \in DOMAIN u => r \in DOMAIN t
      BY <2>5, <2>7
    <3> QED
      BY <3>1, <3>2
  <2>11. \A r \in Path : IsPrefix(p, r) => r \notin DOMAIN u
    BY <2>3, <2>5, <2>7
  <2>12. ASSUME NEW r \in Path, IsPrefix(q, r)
         PROVE  /\ r \in DOMAIN u <=> Other(q, p, r) \in DOMAIN t
                /\ r \in DOMAIN u => u[r] = t[Other(q, p, r)]
    <3>1. ASSUME Other(q, p, r) \in DOMAIN t
          PROVE  r \in DOMAIN u /\ u[r] = t[Other(q, p, r)]
      <4>1. Other(q, p, r) \in moved /\ Other(p, q, Other(q, p, r)) = r
        BY <2>6, <2>12, <3>1
      <4> QED
        BY <2>8, <4>1
    <3>2. ASSUME r \in DOMAIN u
          PROVE  Other(q, p, r) \in DOMAIN t
      <4>1. CASE \E m \in moved : Other(p, q, m) = r
        BY <2>5, <4>1
      <4>2. CASE r \in rest
        <5>1. r = q
          BY <2>4, <2>12, <4>2
        <5>2. Other(q, p, q) = p
          BY MovedSelf DEF Other
        <5> QED
          BY <1>1, <5>1, <5>2
      <4> QED
        BY <2>7, <3>2, <4>1, <4>2
    <3> QED
      BY <3>1, <3>2
  <2>13. DOMAIN u \subseteq Path
    BY <2>5, <2>7, <2>9
  <2>14. IsFiniteSet(DOMAIN u)
    <3> DEFINE f == [m \in moved |-> Other(p, q, m)]
               img == {Other(p, q, m) : m \in moved}
    <3>1. IsFiniteSet(moved) /\ IsFiniteSet(rest)
      BY <2>1, FS_Subset
    <3>2. f \in Surjection(moved, img)
      BY DEF Surjection
    <3>3. IsFiniteSet(img)
      BY <3>1, <3>2, FS_Surjection
    <3> HIDE DEF img, moved
    <3>4. IsFiniteSet(rest \cup img)
      BY <3>1, <3>3, FS_Union
    <3> QED
      BY <2>7, <3>4 DEF img
  <2>15. u \in [DOMAIN u -> Nodes]
    <3>1. \A r \in DOMAIN u : u[r] \in Nodes
      BY <2>5, <2>7, <2>8, <2>9, <2>12, <2>13, TreeNode
    <3>2. u = [r \in DOMAIN u |-> u[r]]
      BY <2>2, <2>7
    <3> QED
      BY <3>1, <3>2
  <2>16. ASSUME NEW r \in DOMAIN u, NEW s \in Path, IsPrefix(s, r), s # r
         PROVE  IsDir(u, s)
    <3>0. r \in Path /\ Front(p) \in Path /\ Len(Front(p)) = Len(p) - 1 /\ Len(p) \in Nat \ {0}
      BY <2>13, FrontAt
    <3>1. q # <<>>
      BY <3>0, PathLen
    <3>2. IsDir(t, Front(p))
      BY <1>1, FrontAt, TreeAbove
    <3>3. ASSUME NEW v \in Path, IsDir(t, v), ~IsPrefix(p, v), ~IsPrefix(q, v)
          PROVE  IsDir(u, v)
      BY <2>10, <3>3 DEF IsDir
    <3>4. CASE IsPrefix(q, r)
      <4>1. CASE IsPrefix(q, s)
        <5>1. Other(q, p, r) \in DOMAIN t
          BY <2>12, <2>16, <3>0, <3>4
        <5>2. /\ Other(q, p, s) \in Path /\ Other(q, p, r) \in Path
              /\ Len(Other(q, p, s)) = Len(s) /\ Len(Other(q, p, r)) = Len(r)
              /\ IsPrefix(p, Other(q, p, s)) /\ IsPrefix(p, Other(q, p, r))
              /\ \A i \in (Len(q) + 1)..Len(s) : Other(q, p, s)[i] = s[i]
              /\ \A i \in (Len(q) + 1)..Len(r) : Other(q, p, r)[i] = r[i]
          BY <3>0, <3>4, <4>1, OtherAt
        <5>3. /\ Len(s) < Len(r) /\ Len(s) \in Nat /\ Len(r) \in Nat /\ Len(q) <= Len(s)
              /\ \A i \in 1..Len(s) : s[i] = r[i]
          BY <2>16, <3>0, <4>1, StrictLen, PathLen, PrefixAt
        <5>4. \A i \in 1..Len(s) : Other(q, p, s)[i] = Other(q, p, r)[i]
          <6> TAKE i \in 1..Len(s)
          <6>1. CASE i <= Len(q)
            BY <5>2, <5>3, <6>1, PrefixAt
          <6>2. CASE i > Len(q)
            BY <3>0, <5>2, <5>3, <6>2
          <6> QED
            BY <3>0, <5>3, <6>1, <6>2
        <5>5. IsPrefix(Other(q, p, s), Other(q, p, r)) /\ Other(q, p, s) # Other(q, p, r)
          BY <5>2, <5>3, <5>4, PrefixAt
        <5>6. IsDir(t, Other(q, p, s))
          BY <5>1, <5>2, <5>5, TreeAbove
        <5> QED
          BY <2>12, <4>1, <5>6 DEF IsDir
      <4>2. CASE ~IsPrefix(q, s)
        <5>1. Len(s) \in Nat /\ Len(q) \in Nat
          BY PathLen
        <5>2. Len(s) < Len(q)
          BY <2>16, <3>0, <3>4, <4>2, <5>1, PrefixChain
        <5>3. IsPrefix(s, Front(p))
          BY <2>16, <3>0, <3>1, <3>4, <5>1, <5>2, PrefixChain, PrefixTrans, FrontAt
        <5>4. IsDir(t, s)
          BY <3>0, <3>2, <5>3, TreeAbove DEF IsDir
        <5> QED
          BY <3>3, <4>2, <5>1, <5>2, <5>4, StrictLen
      <4> QED
        BY <4>1, <4>2
    <3>5. CASE ~IsPrefix(q, r)
      <4>1. ~IsPrefix(p, r) /\ r \in DOMAIN t
        BY <2>10, <2>11, <3>0, <3>5
      <4>2. IsDir(t, s)
        BY <2>16, <4>1, TreeAbove
      <4>3. ~IsPrefix(p, s) /\ ~IsPrefix(q, s)
        BY <2>16, <3>0, <3>5, <4>1, PrefixTrans
      <4> QED
        BY <3>3, <4>2, <4>3
    <3> QED
      BY <3>4, <3>5
  <2>17. IsTree(u)
    BY <2>13, <2>14, <2>15, <2>16, TreeIntro
  <2>18. ~(q \in DOMAIN t /\ SameFile(t[p], t[q]))
    BY <1>1, <1>3 DEF SameFile, IsDir
  <2> QED
    BY <2>10, <2>11, <2>12, <2>17, <2>18 DEF u
<1> QED
  BY <1>2, <1>3

\* There is always an inode that no name uses.
LEMMA FreshInodeIs ==
    ASSUME IsTree(dst), IsFiniteSet(DOMAIN LinkDest)
    PROVE  /\ FreshInode \in Nat
           /\ \A p \in DOMAIN dst : dst[p].i # FreshInode
           /\ \A r \in DOMAIN LinkDest : LinkDest[r].i # FreshInode
<1> DEFINE m == Cardinality(DOMAIN dst)
           n == Cardinality(DOMAIN LinkDest)
           f == [p \in DOMAIN dst |-> dst[p].i]
           g == [r \in DOMAIN LinkDest |-> LinkDest[r].i]
           F == {f[p] : p \in DOMAIN dst}
           G == {g[r] : r \in DOMAIN LinkDest}
<1>1. IsFiniteSet(DOMAIN dst) /\ m \in Nat /\ n \in Nat
  BY FS_CardinalityType DEF IsTree
<1>2. f \in Surjection(DOMAIN dst, F) /\ g \in Surjection(DOMAIN LinkDest, G)
  BY DEF Surjection
<1>3. IsFiniteSet(F) /\ Cardinality(F) <= m
  BY <1>1, <1>2, FS_Surjection
<1>4. IsFiniteSet(G) /\ Cardinality(G) <= n
  BY <1>1, <1>2, FS_Surjection
<1> DEFINE U == F \cup G
           c == Cardinality(U)
<1> HIDE DEF F, G
<1>5. IsFiniteSet(U)
  BY <1>3, <1>4, FS_Union
<1>6. c <= m + n /\ c \in Nat
  <2>1. IsFiniteSet(F \cap G) /\ Cardinality(F \cap G) \in Nat
    BY <1>3, FS_Subset, FS_CardinalityType
  <2>2. c = Cardinality(F) + Cardinality(G) - Cardinality(F \cap G)
    BY <1>3, <1>4, FS_Union
  <2>3. Cardinality(F) \in Nat /\ Cardinality(G) \in Nat /\ c \in Nat
    BY <1>3, <1>4, <1>5, FS_CardinalityType
  <2> QED
    BY <1>1, <1>3, <1>4, <2>1, <2>2, <2>3
<1>7. ~(1..(m + n + 1) \subseteq U)
  <2> DEFINE k == m + n + 1
  <2>0. k \in Int /\ 1 \in Int /\ ~(1 > k) /\ k - 1 + 1 = k
    BY <1>1
  <2>1. IsFiniteSet(1..k) /\ Cardinality(1..k) = k
    <3> HIDE DEF k
    <3>1. IsFiniteSet(1..k) /\ Cardinality(1..k) = IF 1 > k THEN 0 ELSE k - 1 + 1
      BY <2>0, FS_Interval
    <3> QED
      BY <2>0, <3>1
  <2>2. 1..(m + n + 1) \subseteq U => m + n + 1 <= c
    BY <1>5, <2>1, FS_Subset
  <2> QED
    BY <1>1, <1>6, <2>2
<1>8. PICK h \in 1..(m + n + 1) : h \notin U
  BY <1>7
<1>9. (\A p \in DOMAIN dst : dst[p].i # h) /\ \A r \in DOMAIN LinkDest : LinkDest[r].i # h
  BY <1>8 DEF F, G
<1>10. h \in Unused
  BY <1>9 DEF Unused
<1>11. Unused # {}
  BY <1>10
<1>12. FreshInode \in Unused
  BY <1>11 DEF FreshInode
<1>13. /\ FreshInode \in 1..(m + n + 1)
       /\ \A p \in DOMAIN dst : dst[p].i # FreshInode
       /\ \A r \in DOMAIN LinkDest : LinkDest[r].i # FreshInode
  BY <1>12 DEF Unused
<1> QED
  BY <1>1, <1>13

-----------------------------------------------------------------------------
(* The command line, what it selects and where that goes.                  *)

Plain(p) == p \in Seq(DOMAIN TmpName)

LEMMA RootAt == Root \in Path /\ Root # <<>> /\ Plain(Root) /\ Len(Root) = 1 /\ Front(Root) = <<>>
<1>1. Plain(Root)
  BY NamesAssumption DEF Plain
<1>2. Root \in Path
  BY <1>1, NamesAssumption DEF Plain, Path
<1>3. Len(Root) = 1 /\ Root # <<>>
  BY DEF Root
<1>4. Len(Front(Root)) = 0 /\ Front(Root) \in Path
  BY <1>2, <1>3, FrontAt
<1> QED
  BY <1>1, <1>2, <1>3, <1>4, PathLen

LEMMA PlainAt ==
    ASSUME NEW p
    PROVE  Plain(p) <=> p \in Path /\ \A i \in 1..Len(p) : p[i] \in DOMAIN TmpName
<1>1. ASSUME Plain(p)
      PROVE  p \in Path /\ \A i \in 1..Len(p) : p[i] \in DOMAIN TmpName
  <2>1. p \in Seq(DOMAIN TmpName) /\ DOMAIN TmpName \subseteq STRING
    BY <1>1, NamesAssumption DEF Plain
  <2>2. \A i \in 1..Len(p) : p[i] \in DOMAIN TmpName
    BY <2>1, ElementOfSeq
  <2> QED
    BY <2>1, <2>2 DEF Path
<1>2. ASSUME p \in Path, \A i \in 1..Len(p) : p[i] \in DOMAIN TmpName
      PROVE  Plain(p)
  <2>1. Len(p) \in Nat /\ p = [i \in 1..Len(p) |-> p[i]]
    BY <1>2, LenProperties DEF Path
  <2> QED
    BY <1>2, <2>1, IsASeq DEF Plain
<1> QED
  BY <1>1, <1>2

LEMMA PlainPrefix ==
    ASSUME NEW p \in Path, NEW q, Plain(q), IsPrefix(p, q)
    PROVE  Plain(p)
<1>1. q \in Path /\ \A i \in 1..Len(q) : q[i] \in DOMAIN TmpName
  BY PlainAt
<1>2. Len(p) <= Len(q) /\ (\A i \in 1..Len(p) : p[i] = q[i]) /\ Len(p) \in Nat /\ Len(q) \in Nat
  BY <1>1, PrefixAt, PathLen
<1>3. \A i \in 1..Len(p) : p[i] \in DOMAIN TmpName
  BY <1>1, <1>2
<1> QED
  BY <1>3, PlainAt

LEMMA PlainNotHelper ==
    ASSUME NEW p, Plain(p)
    PROVE  ~Helper(p)
<1>1. p \in Path /\ \A i \in 1..Len(p) : p[i] \in DOMAIN TmpName
  BY PlainAt
<1>2. DOMAIN p = 1..Len(p)
  BY <1>1, PathLen
<1>3. \A n \in ToSet(p) : n \in DOMAIN TmpName
  BY <1>1, <1>2 DEF ToSet
<1> QED
  BY <1>3, NamesAssumption DEF Helper

LEMMA HelperBelow ==
    ASSUME NEW p \in Path, NEW q \in Path, p # <<>>, IsPrefix(p, q), Last(p) \in HelperNames
    PROVE  Helper(q)
<1>1. Last(p) = p[Len(p)] /\ Len(p) \in Nat \ {0}
  BY FrontAt
<1>2. Len(p) <= Len(q) /\ p[Len(p)] = q[Len(p)] /\ DOMAIN q = 1..Len(q) /\ Len(q) \in Nat
  BY <1>1, PrefixAt, PathLen
<1>3. q[Len(p)] \in ToSet(q)
  BY <1>1, <1>2 DEF ToSet
<1> QED
  BY <1>1, <1>2, <1>3 DEF Helper

LEMMA HelperName ==
    ASSUME NEW n \in DOMAIN TmpName
    PROVE  /\ TmpName[n] \in HelperNames /\ Suffixed[n] \in HelperNames /\ LdName[n] \in HelperNames
           /\ TmpName[n] \in STRING /\ Suffixed[n] \in STRING /\ LdName[n] \in STRING
           /\ n \in STRING /\ n \notin HelperNames
BY NamesAssumption DEF HelperNames, Range

LEMMA SourceAt ==
    ASSUME NEW p \in DOMAIN Src
    PROVE  p \in Path /\ Plain(p) /\ Src[p] \in Nodes
BY LocalAssumption, NamesAssumption, TreeNode DEF Plain

LEMMA CommandType ==
    ASSUME cmd \in Commands \cup {NoCommand}
    PROVE  /\ cmd.kind \in {"sources", "files_from"}
           /\ Len(cmd.args) \in Nat /\ DOMAIN cmd.args = 1..Len(cmd.args)
           /\ \A k \in DOMAIN cmd.args :
                 /\ cmd.args[k].path \in Path /\ cmd.args[k].path # <<>>
                 /\ cmd.kind = "files_from" => cmd.args[k].base \in Path
<1>1. CASE cmd = NoCommand
  BY <1>1 DEF NoCommand
<1>2. CASE cmd \in Commands
  <2> DEFINE S == IF cmd.kind = "sources" THEN [path : Path \ {<<>>}, slash : BOOLEAN]
                  ELSE [path : Path \ {<<>>}, base : Path]
  <2>1. cmd.kind \in {"sources", "files_from"} /\ cmd.args \in Seq(S)
    BY <1>2, LocalAssumption
  <2>2. \A a \in S : a.path \in Path /\ a.path # <<>> /\ (cmd.kind = "files_from" => a.base \in Path)
    BY <2>1
  <2> HIDE DEF S
  <2>3. Len(cmd.args) \in Nat /\ DOMAIN cmd.args = 1..Len(cmd.args)
    BY <2>1, LenProperties
  <2>4. \A k \in DOMAIN cmd.args : cmd.args[k] \in S
    BY <2>1, <2>3, ElementOfSeq
  <2> QED
    BY <2>1, <2>2, <2>3, <2>4
<1> QED
  BY <1>1, <1>2

\* An argument, typed.
IsTask(t) == t.s \in Path /\ t.s # <<>> /\ t.d \in Path /\ t.rel \in Path /\ IsPrefix(Root, t.d)

LEMMA TaskAt ==
    ASSUME cmd \in Commands \cup {NoCommand}, NEW k \in DOMAIN cmd.args
    PROVE  /\ IsTask(Task(cmd.args[k]))
           /\ Task(cmd.args[k]).s \in DOMAIN Src => Plain(Task(cmd.args[k]).d)
<1> DEFINE a == cmd.args[k]
<1>1. /\ cmd.kind \in {"sources", "files_from"} /\ a.path \in Path /\ a.path # <<>>
      /\ cmd.kind = "files_from" => a.base \in Path
  BY CommandType
<1> HIDE DEF a
<1>2. Root \in Path /\ Plain(Root) /\ IsPrefix(Root, Root) /\ <<>> \in Path
  BY RootAt, PrefixRefl, EmptySeq DEF Path
<1>3. CASE cmd.kind = "files_from"
  <2>1. a.base \in Path
    BY <1>1, <1>3
  <2> DEFINE s == a.base \o a.path
             d == Root \o a.path
  <2>2. Task(a) = [s |-> s, d |-> d, rel |-> a.path]
    BY <1>3 DEF Task
  <2>3. s \in Path /\ Len(s) = Len(a.base) + Len(a.path) /\ Len(a.base) \in Nat
        /\ Len(a.path) \in Nat \ {0}
        /\ \A i \in 1..Len(a.path) : s[Len(a.base) + i] = a.path[i]
    BY <1>1, <2>1, ConcatAt, PathLen
  <2>4. /\ d \in Path /\ Len(d) = Len(Root) + Len(a.path) /\ Len(Root) \in Nat /\ IsPrefix(Root, d)
        /\ \A i \in 1..Len(Root) : d[i] = Root[i]
        /\ \A i \in 1..Len(a.path) : d[Len(Root) + i] = a.path[i]
    BY <1>1, <1>2, ConcatAt, PathLen
  <2> HIDE DEF s, d
  <2> DEFINE m == Len(a.base)
             n == Len(a.path)
  <2>a. m \in Nat /\ n \in Nat \ {0} /\ Len(s) = m + n /\ s \in Path
    BY <2>3
  <2> HIDE DEF m, n
  <2>b. \A i \in 1..n : m + i \in 1..Len(s)
    BY <2>a
  <2>5. s # <<>>
    <3>1. Len(s) # 0
      BY <2>a
    <3> QED
      BY <2>a, <3>1, PathLen
  <2>6. ASSUME s \in DOMAIN Src
        PROVE  Plain(d)
    <3>1. \A i \in 1..Len(s) : s[i] \in DOMAIN TmpName
      BY <2>6, SourceAt, PlainAt
    <3>2. \A i \in 1..Len(a.path) : a.path[i] \in DOMAIN TmpName
      <4> TAKE i \in 1..Len(a.path)
      <4>1. Len(a.base) + i \in 1..Len(s)
        BY <2>b DEF m, n
      <4> QED
        BY <2>3, <3>1, <4>1
    <3>3. \A i \in 1..Len(Root) : Root[i] \in DOMAIN TmpName
      BY <1>2, PlainAt
    <3>4. \A i \in 1..Len(d) : d[i] \in DOMAIN TmpName
      <4> TAKE i \in 1..Len(d)
      <4>1. CASE i <= Len(Root)
        BY <2>4, <3>3, <4>1
      <4>2. CASE i > Len(Root)
        <5>1. i - Len(Root) \in 1..Len(a.path) /\ Len(Root) + (i - Len(Root)) = i
          BY <2>3, <2>4, <4>2
        <5> QED
          BY <2>4, <3>2, <5>1
      <4> QED
        BY <2>4, <4>1, <4>2
    <3> QED
      BY <2>4, <3>4, PlainAt
  <2>7. IsTask(Task(a)) /\ (Task(a).s \in DOMAIN Src => Plain(Task(a).d))
    BY <1>1, <2>2, <2>3, <2>4, <2>5, <2>6 DEF IsTask
  <2> QED
    BY <2>7 DEF a
<1>4. CASE cmd.kind = "sources"
  <2> DEFINE l == Last(a.path)
             d == IF isdir /\ ~(a.slash /\ IsDir(Src, a.path)) THEN Append(Root, l) ELSE Root
  <2>1. l \in STRING /\ l = a.path[Len(a.path)] /\ Len(a.path) \in Nat \ {0}
    BY <1>1, FrontAt
  <2>2. <<l>> \in Path
    BY <2>1 DEF Path
  <2>3. Task(a).s = a.path /\ Task(a).d = d /\ Task(a).rel \in {<<>>, <<l>>}
    BY <1>4 DEF Task
  <2>4. Append(Root, l) \in Path /\ IsPrefix(Root, Append(Root, l))
    BY <1>2, <2>1, AppendAt
  <2>5. d \in Path /\ IsPrefix(Root, d)
    BY <1>2, <2>4
  <2>6. ASSUME a.path \in DOMAIN Src
        PROVE  Plain(d)
    <3>1. l \in DOMAIN TmpName
      BY <2>1, <2>6, SourceAt, PlainAt
    <3>2. Plain(Append(Root, l))
      BY <1>2, <3>1, AppendProperties DEF Plain
    <3> QED
      BY <1>2, <3>2
  <2> HIDE DEF d, l
  <2>7. IsTask(Task(a)) /\ (Task(a).s \in DOMAIN Src => Plain(Task(a).d))
    BY <1>1, <1>2, <2>2, <2>3, <2>5, <2>6 DEF IsTask
  <2> QED
    BY <2>7 DEF a
<1> QED
  BY <1>1, <1>3, <1>4

\* Where a path is relative to the transfer.
RelOf(t, p) == t.rel \o SubSeq(p, Len(t.s) + 1, Len(p))

LEMMA ReachedAt ==
    ASSUME NEW t, IsTask(t), NEW p \in Reached(t)
    PROVE  /\ p \in DOMAIN Src /\ p \in Path /\ IsPrefix(t.s, p) /\ t.s \in DOMAIN Src /\ p # <<>>
           /\ Place(t, p) \in Path /\ IsPrefix(t.d, Place(t, p)) /\ IsPrefix(Root, Place(t, p))
           /\ Place(t, p) # <<>>
           /\ Len(Place(t, p)) = Len(t.d) + (Len(p) - Len(t.s))
           /\ \A i \in 1..(Len(p) - Len(t.s)) : Place(t, p)[Len(t.d) + i] = p[Len(t.s) + i]
           /\ \A i \in 1..Len(t.d) : Place(t, p)[i] = t.d[i]
<1>1. p \in DOMAIN Src /\ p \in Path /\ IsPrefix(t.s, p)
  BY SourceAt DEF Reached
<1>2. t.s \in Path /\ t.s # <<>> /\ t.d \in Path /\ IsPrefix(Root, t.d) /\ Root \in Path /\ Root # <<>>
  BY RootAt DEF IsTask
<1>3. t.s \in DOMAIN Src
  BY <1>1, <1>2, TreeAbove, LocalAssumption DEF IsDir
<1>4. /\ Place(t, p) \in Path /\ IsPrefix(t.d, Place(t, p))
      /\ Len(Place(t, p)) = Len(t.d) + (Len(p) - Len(t.s))
      /\ \A i \in 1..(Len(p) - Len(t.s)) : Place(t, p)[Len(t.d) + i] = p[Len(t.s) + i]
      /\ \A i \in 1..Len(t.d) : Place(t, p)[i] = t.d[i]
  <2> DEFINE m == t.d \o SubSeq(p, Len(t.s) + 1, Len(p))
  <2>1. /\ m \in Path /\ Len(m) = Len(t.d) + (Len(p) - Len(t.s))
        /\ \A i \in 1..Len(t.d) : m[i] = t.d[i]
        /\ \A i \in 1..(Len(p) - Len(t.s)) : m[Len(t.d) + i] = p[Len(t.s) + i]
        /\ IsPrefix(t.d, m)
    BY <1>1, <1>2, MovedAt
  <2>2. Place(t, p) = m
    BY DEF Place
  <2> HIDE DEF m
  <2> QED
    BY <2>1, <2>2
<1>5. IsPrefix(Root, Place(t, p))
  BY <1>2, <1>4, PrefixTrans
<1>6. \A q \in Path, r \in Path : q # <<>> /\ IsPrefix(q, r) => r # <<>>
  BY PrefixAt, PathLen
<1>7. Place(t, p) # <<>> /\ p # <<>>
  BY <1>1, <1>2, <1>4, <1>5, <1>6
<1> QED
  BY <1>1, <1>3, <1>4, <1>5, <1>7

LEMMA PlacePrefix ==
    ASSUME NEW t, IsTask(t), NEW p \in Reached(t), NEW q \in Reached(t)
    PROVE  /\ IsPrefix(p, q) <=> IsPrefix(Place(t, p), Place(t, q))
           /\ Place(t, p) = Place(t, q) => p = q
<1> DEFINE a == Len(t.s)
           b == Len(t.d)
           v == Place(t, p)
           w == Place(t, q)
<1>1. /\ p \in Path /\ q \in Path /\ v \in Path /\ w \in Path /\ t.s \in Path /\ t.d \in Path
      /\ IsPrefix(t.s, p) /\ IsPrefix(t.s, q)
      /\ Len(v) = b + (Len(p) - a) /\ Len(w) = b + (Len(q) - a)
      /\ \A i \in 1..(Len(p) - a) : v[b + i] = p[a + i]
      /\ \A i \in 1..(Len(q) - a) : w[b + i] = q[a + i]
      /\ \A i \in 1..b : v[i] = t.d[i] /\ w[i] = t.d[i]
  BY ReachedAt DEF IsTask
<1>2. /\ a \in Nat /\ b \in Nat /\ Len(p) \in Nat /\ Len(q) \in Nat /\ a <= Len(p) /\ a <= Len(q)
      /\ \A i \in 1..a : p[i] = q[i]
  BY <1>1, PathLen, PrefixAt
<1> HIDE DEF a, b, v, w
<1>3. ASSUME IsPrefix(p, q)
      PROVE  IsPrefix(v, w)
  <2>1. Len(p) <= Len(q) /\ \A i \in 1..Len(p) : p[i] = q[i]
    BY <1>1, <1>3, PrefixAt
  <2>2. ASSUME NEW i \in 1..Len(v)
        PROVE  v[i] = w[i]
    <3>1. CASE i <= b
      BY <1>1, <1>2, <3>1
    <3>2. CASE i > b
      <4>1. i - b \in 1..(Len(p) - a) /\ i - b \in 1..(Len(q) - a) /\ b + (i - b) = i /\ a + (i - b) \in 1..Len(p)
        BY <1>1, <1>2, <2>1, <3>2
      <4> QED
        BY <1>1, <2>1, <4>1
    <3> QED
      BY <1>1, <1>2, <3>1, <3>2
  <2>3. Len(v) <= Len(w)
    BY <1>1, <1>2, <2>1
  <2> QED
    BY <1>1, <2>2, <2>3, PrefixAt
<1>4. ASSUME IsPrefix(v, w)
      PROVE  IsPrefix(p, q)
  <2>1. Len(v) <= Len(w) /\ \A i \in 1..Len(v) : v[i] = w[i]
    BY <1>1, <1>4, PrefixAt
  <2>2. Len(p) <= Len(q)
    BY <1>1, <1>2, <2>1
  <2>3. ASSUME NEW i \in 1..Len(p)
        PROVE  p[i] = q[i]
    <3>1. CASE i <= a
      BY <1>1, <1>2, <3>1
    <3>2. CASE i > a
      <4>1. i - a \in 1..(Len(p) - a) /\ i - a \in 1..(Len(q) - a) /\ a + (i - a) = i /\ b + (i - a) \in 1..Len(v)
        BY <1>1, <1>2, <2>2, <3>2
      <4> QED
        BY <1>1, <2>1, <4>1
    <3> QED
      BY <1>2, <3>1, <3>2
  <2> QED
    BY <1>1, <2>2, <2>3, PrefixAt
<1>5. ASSUME v = w
      PROVE  p = q
  <2>1. IsPrefix(p, q)
    BY <1>1, <1>4, <1>5, PrefixRefl
  <2>2. Len(p) = Len(q)
    BY <1>1, <1>2, <1>5
  <2> QED
    BY <1>1, <2>1, <2>2, PrefixAnti
<1> QED
  BY <1>3, <1>4, <1>5 DEF v, w

\* One name more.
LEMMA MovedChild ==
    ASSUME NEW s \in Path, NEW p \in Path, IsPrefix(s, p), NEW n \in STRING, NEW d \in Path
    PROVE  d \o SubSeq(Append(p, n), Len(s) + 1, Len(Append(p, n)))
             = Append(d \o SubSeq(p, Len(s) + 1, Len(p)), n)
<1> DEFINE c == Append(p, n)
           u == d \o SubSeq(c, Len(s) + 1, Len(c))
           v == d \o SubSeq(p, Len(s) + 1, Len(p))
           w == Append(v, n)
           a == Len(s)
           b == Len(d)
           m == Len(p)
<1>1. /\ c \in Path /\ Len(c) = m + 1 /\ (\A i \in 1..m : c[i] = p[i]) /\ c[m + 1] = n /\ IsPrefix(p, c)
  BY AppendAt
<1>2. IsPrefix(s, c) /\ a \in Nat /\ b \in Nat /\ m \in Nat /\ a <= m
  BY <1>1, PrefixTrans, PathLen, PrefixAt
<1>3. /\ u \in Path /\ Len(u) = b + (Len(c) - a)
      /\ \A i \in 1..b : u[i] = d[i]
      /\ \A i \in 1..(Len(c) - a) : u[b + i] = c[a + i]
  <2> HIDE DEF c
  <2> QED
    BY <1>1, <1>2, MovedAt, ZenonT(60)
<1>4. /\ v \in Path /\ Len(v) = b + (m - a)
      /\ \A i \in 1..b : v[i] = d[i]
      /\ \A i \in 1..(m - a) : v[b + i] = p[a + i]
  BY MovedAt
<1> HIDE DEF u, v, c
<1>5. w \in Path /\ Len(w) = Len(v) + 1 /\ (\A i \in 1..Len(v) : w[i] = v[i]) /\ w[Len(v) + 1] = n
  BY <1>4, AppendAt
<1> HIDE DEF w, a, b, m
<1>6. Len(u) = Len(w)
  BY <1>1, <1>2, <1>3, <1>4, <1>5
<1>7. ASSUME NEW i \in 1..Len(u)
      PROVE  u[i] = w[i]
  <2>1. CASE i <= b
    BY <1>2, <1>3, <1>4, <1>5, <2>1
  <2>2. CASE i > b /\ i <= Len(v)
    <3>1. i - b \in 1..(m - a) /\ i - b \in 1..(Len(c) - a) /\ b + (i - b) = i /\ a + (i - b) \in 1..m
      BY <1>1, <1>2, <1>4, <2>2
    <3> QED
      BY <1>1, <1>3, <1>4, <1>5, <2>2, <3>1
  <2>3. CASE i = Len(v) + 1
    <3>1. i - b \in 1..(Len(c) - a) /\ b + (i - b) = i /\ a + (i - b) = m + 1
      BY <1>1, <1>2, <1>4, <2>3
    <3> QED
      BY <1>1, <1>3, <1>5, <2>3, <3>1
  <2> QED
    BY <1>2, <1>4, <1>5, <1>6, <2>1, <2>2, <2>3
<1>8. u = w
  BY <1>3, <1>5, <1>6, <1>7, PathEqual
<1> QED
  BY <1>8 DEF u, v, w, c

LEMMA PlaceChild ==
    ASSUME NEW t, IsTask(t), NEW p \in Path, IsPrefix(t.s, p), NEW n \in STRING
    PROVE  /\ Place(t, Append(p, n)) = Append(Place(t, p), n)
           /\ RelOf(t, Append(p, n)) = Append(RelOf(t, p), n)
<1>1. t.s \in Path /\ t.d \in Path /\ t.rel \in Path
  BY DEF IsTask
<1>2. \A d \in Path : d \o SubSeq(Append(p, n), Len(t.s) + 1, Len(Append(p, n)))
             = Append(d \o SubSeq(p, Len(t.s) + 1, Len(p)), n)
  BY <1>1, MovedChild, ZenonT(60)
<1> QED
  BY <1>1, <1>2 DEF Place, RelOf

LEMMA PlaceSelf ==
    ASSUME NEW t, IsTask(t)
    PROVE  Place(t, t.s) = t.d /\ RelOf(t, t.s) = t.rel
BY MovedSelf DEF IsTask, Place, RelOf

LEMMA RelOfType ==
    ASSUME NEW t, IsTask(t), NEW p \in Path, IsPrefix(t.s, p)
    PROVE  RelOf(t, p) \in Path
<1> DEFINE m == t.rel \o SubSeq(p, Len(t.s) + 1, Len(p))
<1>1. m \in Path
  BY MovedAt DEF IsTask
<1> QED
  BY <1>1 DEF RelOf

\* What is reached, one name at a time.
LEMMA ReachedSelf ==
    ASSUME NEW t, IsTask(t), t.s \in DOMAIN Src
    PROVE  t.s \in Reached(t)
<1>1. \A q \in Prefixes(t.s) : ~IsStrictPrefix(t.s, q)
  BY PrefixesAre, PrefixAt, PathEqual, PathLen DEF IsTask, IsStrictPrefix
<1> QED
  BY <1>1, PrefixRefl DEF Reached, IsTask

LEMMA ReachedAbove ==
    ASSUME NEW t, IsTask(t), NEW p \in Reached(t), NEW q \in Path, IsPrefix(t.s, q), IsPrefix(q, p)
    PROVE  q \in Reached(t) /\ (q # p => IsDir(Src, q))
<1>1. p \in DOMAIN Src /\ p \in Path /\ t.s \in Path
  BY ReachedAt DEF IsTask
<1>2. q # p => IsDir(Src, q)
  BY <1>1, TreeAbove, LocalAssumption
<1>3. q \in DOMAIN Src
  BY <1>1, <1>2 DEF IsDir
<1>4. q # t.s => p # t.s
  BY <1>1, PrefixAt, PathEqual, PathLen
<1>5. \A r \in Prefixes(q) : r \in Prefixes(p)
  BY <1>1, PrefixesAre, PrefixTrans
<1> QED
  BY <1>2, <1>3, <1>4, <1>5 DEF Reached

LEMMA ReachedChild ==
    ASSUME NEW t, IsTask(t), NEW p \in Reached(t), NEW n \in STRING, Append(p, n) \in DOMAIN Src,
           Given("recursive")
    PROVE  Append(p, n) \in Reached(t) <=> RelOf(t, Append(p, n)) \notin Excluded
<1> DEFINE c == Append(p, n)
<1>1. p \in Path /\ IsPrefix(t.s, p) /\ t.s \in Path
  BY ReachedAt DEF IsTask
<1>2. c \in Path /\ Len(c) = Len(p) + 1 /\ IsPrefix(p, c) /\ Len(p) \in Nat
  BY <1>1, AppendAt, PathLen
<1> HIDE DEF c
<1>3. IsPrefix(t.s, c) /\ c # t.s
  <2>1. IsPrefix(t.s, c) /\ Len(t.s) <= Len(p) /\ Len(t.s) \in Nat
    BY <1>1, <1>2, PrefixTrans, PrefixAt, PathLen
  <2>2. Len(t.s) # Len(c)
    BY <1>2, <2>1
  <2> QED
    BY <2>1, <2>2
<1>4. \A q \in Prefixes(c) : q = c \/ q \in Prefixes(p)
  <2> TAKE q \in Prefixes(c)
  <2>1. q \in Path /\ IsPrefix(q, c) /\ Len(q) \in Nat /\ Len(q) <= Len(c)
    BY <1>2, PrefixesAre, PrefixAt, PathLen
  <2>2. CASE Len(q) = Len(c)
    BY <1>2, <2>1, <2>2, PrefixAnti
  <2>3. CASE Len(q) <= Len(p)
    BY <1>1, <1>2, <2>1, <2>3, PrefixChain, PrefixesAre
  <2> QED
    BY <1>2, <2>1, <2>2, <2>3
<1>5. c \in Prefixes(c) /\ IsStrictPrefix(t.s, c)
  BY <1>2, <1>3, PrefixesAre, PrefixRefl DEF IsStrictPrefix
<1>6. \A q \in Prefixes(p) : IsStrictPrefix(t.s, q) => RelOf(t, q) \notin Excluded
  BY DEF Reached, RelOf
<1>7. c \in DOMAIN Src
  BY DEF c
<1>8. c \in Reached(t) <=> \A q \in Prefixes(c) : IsStrictPrefix(t.s, q) => RelOf(t, q) \notin Excluded
  BY <1>3, <1>7 DEF Reached, RelOf
<1>9. c \in Reached(t) <=> RelOf(t, c) \notin Excluded
  BY <1>4, <1>5, <1>6, <1>8
<1> QED
  BY <1>9 DEF c

\* Excluded directories hide what is below them.
LEMMA ReachedBelow ==
    ASSUME NEW t, IsTask(t), NEW p \in Reached(t), NEW n \in STRING, NEW q \in Reached(t),
           IsPrefix(Append(p, n), q)
    PROVE  Append(p, n) \in Reached(t) /\ Append(p, n) \in DOMAIN Src
<1>1. p \in Path /\ IsPrefix(t.s, p) /\ t.s \in Path
  BY ReachedAt DEF IsTask
<1>2. Append(p, n) \in Path /\ IsPrefix(p, Append(p, n))
  BY <1>1, AppendAt
<1>3. IsPrefix(t.s, Append(p, n))
  BY <1>1, <1>2, PrefixTrans
<1>4. Append(p, n) \in Reached(t)
  BY <1>2, <1>3, ReachedAbove
<1> QED
  BY <1>4, ReachedAt

LEMMA PlainPlace ==
    ASSUME cmd \in Commands \cup {NoCommand}, NEW k \in DOMAIN cmd.args, NEW p \in Reached(Task(cmd.args[k]))
    PROVE  /\ Plain(Place(Task(cmd.args[k]), p)) /\ ~Helper(Place(Task(cmd.args[k]), p))
           /\ Last(Place(Task(cmd.args[k]), p)) \in DOMAIN TmpName
<1> DEFINE t == Task(cmd.args[k])
           w == Place(t, p)
<1>1. IsTask(t) /\ (t.s \in DOMAIN Src => Plain(t.d))
  BY TaskAt
<1> HIDE DEF t
<1>1a. p \in Reached(t)
  BY DEF t
<1>2. /\ p \in Path /\ w \in Path /\ t.s \in DOMAIN Src /\ w # <<>> /\ Plain(p) /\ IsPrefix(t.s, p)
      /\ Len(w) = Len(t.d) + (Len(p) - Len(t.s))
      /\ \A i \in 1..(Len(p) - Len(t.s)) : w[Len(t.d) + i] = p[Len(t.s) + i]
      /\ \A i \in 1..Len(t.d) : w[i] = t.d[i]
  <2>1. /\ p \in Path /\ p \in DOMAIN Src /\ t.s \in DOMAIN Src /\ IsPrefix(t.s, p) /\ w \in Path /\ w # <<>>
    BY <1>1, <1>1a, ReachedAt
  <2>2. /\ Len(w) = Len(t.d) + (Len(p) - Len(t.s))
        /\ \A i \in 1..(Len(p) - Len(t.s)) : w[Len(t.d) + i] = p[Len(t.s) + i]
        /\ \A i \in 1..Len(t.d) : w[i] = t.d[i]
    BY <1>1, <1>1a, ReachedAt
  <2>3. Plain(p)
    BY <2>1, SourceAt
  <2> HIDE DEF w
  <2> QED
    BY <2>1, <2>2, <2>3
<1> HIDE DEF w
<1>3. /\ \A i \in 1..Len(t.d) : t.d[i] \in DOMAIN TmpName
      /\ \A i \in 1..Len(p) : p[i] \in DOMAIN TmpName
  BY <1>1, <1>2, PlainAt
<1>4. Len(t.d) \in Nat /\ Len(t.s) \in Nat /\ Len(p) \in Nat /\ Len(t.s) <= Len(p)
  BY <1>1, <1>2, PathLen, PrefixAt DEF IsTask
<1>5. ASSUME NEW i \in 1..Len(w)
      PROVE  w[i] \in DOMAIN TmpName
  <2>1. CASE i <= Len(t.d)
    BY <1>2, <1>3, <1>4, <2>1
  <2>2. CASE i > Len(t.d)
    <3> DEFINE j == i - Len(t.d)
    <3>1. j \in 1..(Len(p) - Len(t.s)) /\ Len(t.d) + j = i /\ Len(t.s) + j \in 1..Len(p)
      BY <1>2, <1>4, <2>2, SMTT(40)
    <3> HIDE DEF j
    <3> QED
      BY <1>2, <1>3, <3>1
  <2> QED
    BY <1>4, <2>1, <2>2
<1>6. Plain(w)
  BY <1>2, <1>5, PlainAt
<1>7. Last(w) = w[Len(w)] /\ Len(w) \in 1..Len(w)
  <2>1. Last(w) = w[Len(w)] /\ Len(w) \in Nat \ {0}
    BY <1>2, FrontAt
  <2> QED
    BY <2>1
<1>8. Last(w) \in DOMAIN TmpName
  BY <1>5, <1>7
<1> QED
  BY <1>6, <1>8, PlainNotHelper DEF w, t

-----------------------------------------------------------------------------
(* All that is copied or walked.                                           *)

LEMMA ReachedIs ==
    ASSUME NEW x
    PROVE  x \in AllReached <=>
             \E k \in DOMAIN cmd.args :
                \E p \in Reached(Task(cmd.args[k])) :
                   /\ IsDir(Src, p) \/ Admitted(p)
                   /\ x = [k |-> k, s |-> p, d |-> Place(Task(cmd.args[k]), p)]
BY DEF AllReached

LEMMA ReachedAre ==
    ASSUME NEW x \in AllReached
    PROVE  /\ x.k \in DOMAIN cmd.args /\ x.s \in Reached(Task(cmd.args[x.k]))
           /\ x.d = Place(Task(cmd.args[x.k]), x.s) /\ (IsDir(Src, x.s) \/ Admitted(x.s))
           /\ x = [k |-> x.k, s |-> x.s, d |-> x.d]
BY ReachedIs

LEMMA CopyIs ==
    ASSUME NEW x
    PROVE  x \in AllCopies <=> x \in AllReached /\ x.s \in Selected(Task(cmd.args[x.k]))
<1>1. x \in AllCopies <=>
        \E k \in DOMAIN cmd.args :
           \E p \in Selected(Task(cmd.args[k])) :
              x = [k |-> k, s |-> p, d |-> Place(Task(cmd.args[k]), p)]
  BY DEF AllCopies
<1>2. \A k : \A p \in Selected(Task(cmd.args[k])) :
         p \in Reached(Task(cmd.args[k])) /\ (IsDir(Src, p) \/ Admitted(p))
  BY DEF Selected
<1>3. ASSUME x \in AllCopies
      PROVE  x \in AllReached /\ x.s \in Selected(Task(cmd.args[x.k]))
  <2>1. PICK k \in DOMAIN cmd.args : \E p \in Selected(Task(cmd.args[k])) :
              x = [k |-> k, s |-> p, d |-> Place(Task(cmd.args[k]), p)]
    BY <1>1, <1>3
  <2>2. PICK p \in Selected(Task(cmd.args[k])) : x = [k |-> k, s |-> p, d |-> Place(Task(cmd.args[k]), p)]
    BY <2>1
  <2>3. x.k = k /\ x.s = p
    BY <2>2
  <2> QED
    BY <1>2, <2>2, <2>3, ReachedIs
<1>4. ASSUME x \in AllReached, x.s \in Selected(Task(cmd.args[x.k]))
      PROVE  x \in AllCopies
  BY <1>1, <1>4, ReachedAre
<1> QED
  BY <1>3, <1>4

\* Every file that is reached and admitted is copied.
LEMMA FileCopied ==
    ASSUME NEW x \in AllReached, ~IsDir(Src, x.s)
    PROVE  x \in AllCopies
BY ReachedAre, CopyIs DEF Selected

LEMMA ItemAt ==
    ASSUME cmd \in Commands \cup {NoCommand}, NEW x \in AllReached
    PROVE  /\ x.k \in Nat \ {0} /\ x.s \in DOMAIN Src /\ x.s \in Path /\ x.s # <<>>
           /\ x.d \in Path /\ x.d # <<>> /\ IsPrefix(Root, x.d) /\ ~Helper(x.d) /\ Plain(x.d)
           /\ Last(x.d) \in DOMAIN TmpName
           /\ IsTask(Task(cmd.args[x.k])) /\ IsPrefix(Task(cmd.args[x.k]).s, x.s)
<1>1. x.k \in DOMAIN cmd.args /\ x.s \in Reached(Task(cmd.args[x.k])) /\ x.d = Place(Task(cmd.args[x.k]), x.s)
  BY ReachedAre
<1>2. IsTask(Task(cmd.args[x.k]))
  BY <1>1, TaskAt
<1>3. x.k \in Nat \ {0}
  BY <1>1, CommandType
<1> DEFINE t == Task(cmd.args[x.k])
<1>4. /\ x.s \in DOMAIN Src /\ x.s \in Path /\ x.s # <<>> /\ IsPrefix(t.s, x.s)
      /\ x.d \in Path /\ x.d # <<>> /\ IsPrefix(Root, x.d)
  <2> HIDE DEF t
  <2> QED
    BY <1>1, <1>2, ReachedAt DEF t
<1>5. ~Helper(x.d) /\ Plain(x.d) /\ Last(x.d) \in DOMAIN TmpName
  BY <1>1, PlainPlace
<1> QED
  BY <1>2, <1>3, <1>4, <1>5

LEMMA SameReached ==
    ASSUME cmd' = cmd, isdir' = isdir, NEW a
    PROVE  /\ Task(a)' = Task(a)
           /\ \A t : Reached(t)' = Reached(t) /\ Selected(t)' = Selected(t)
           /\ \A p : Admitted(p)' <=> Admitted(p)
<1>1. Task(a)' = Task(a)
  BY DEF Task
<1>2. \A p : Admitted(p)' <=> Admitted(p)
  BY DEF Admitted, Given
<1>3. ASSUME NEW t
      PROVE  Reached(t)' = Reached(t)
  BY DEF Reached, Given
<1>4. ASSUME NEW t
      PROVE  Selected(t)' = Selected(t)
  BY <1>2, <1>3 DEF Selected, Given
<1> QED
  BY <1>1, <1>2, <1>3, <1>4

LEMMA SameCommand ==
    ASSUME cmd' = cmd, isdir' = isdir
    PROVE  /\ AllReached' = AllReached /\ AllCopies' = AllCopies
           /\ (Apart' <=> Apart) /\ (Clear' <=> Clear) /\ (Straight' <=> Straight)
           /\ \A a : Task(a)' = Task(a)
           /\ \A t : Reached(t)' = Reached(t) /\ Selected(t)' = Selected(t)
           /\ \A p : Admitted(p)' <=> Admitted(p)
           /\ \A t, p : Filled(t, p)' <=> Filled(t, p)
<1>0. \A a : Task(a)' = Task(a)
  BY SameReached
<1>1. \A t : Reached(t)' = Reached(t) /\ Selected(t)' = Selected(t)
  BY SameReached
<1>2. \A p : Admitted(p)' <=> Admitted(p)
  BY SameReached
<1>3. \A x : (x \in AllReached)' <=> x \in AllReached
  BY <1>0, <1>1, <1>2 DEF AllReached
<1>4. AllReached' = AllReached
  BY <1>3
<1>5. \A x : (x \in AllCopies)' <=> x \in AllCopies
  BY <1>0, <1>1 DEF AllCopies
<1>6. AllCopies' = AllCopies
  BY <1>5
<1>7. (Apart' <=> Apart) /\ (Clear' <=> Clear)
  BY <1>4 DEF Apart, Clear
<1>8. Straight' <=> Straight
  BY <1>0 DEF Straight
<1>9. \A t, p : Filled(t, p)' <=> Filled(t, p)
  BY <1>1, <1>2 DEF Filled, Given
<1> QED
  BY <1>0, <1>1, <1>2, <1>4, <1>6, <1>7, <1>8, <1>9

-----------------------------------------------------------------------------
(* The walk.                                                               *)

EntryStates ==
    {"entry", "follow", "linked", "backup", "special", "unlink", "symlink",
     "create", "fill", "rename", "meta"}

\* An entry is being copied.
Busy == pc \in EntryStates

EntryAction ==
    \/ DryEntry \/ SkipEntry \/ UnlinkFollower \/ LinkFollower \/ LinkTmp \/ LinkName
    \/ Decide \/ Backup \/ Special \/ UnlinkOld \/ Symlink
    \/ CreateTmp \/ FillTmp \/ RenameTmp \/ SetTime

ArgTask == Task(cmd.args[arg])

Control ==
    /\ pc \in EntryStates \cup {"idle", "walk", "delete", "done"}
    /\ cmd \in Commands \cup {NoCommand} /\ (pc # "idle" => cmd \in Commands)
    /\ isdir \in BOOLEAN /\ arg \in Nat \ {0} /\ kept \subseteq Path
    /\ pc \in {"idle", "delete", "done"} => stack = <<>>
    /\ pc \in {"delete", "done"} => arg > Len(cmd.args)

FrameType == [s : Path, d : Path, rel : Path, n : Nat, todo : SUBSET STRING]

FrameOf(f, t) ==
    /\ f.s \in Reached(t) /\ IsDir(Src, f.s)
    /\ f.d = Place(t, f.s) /\ f.rel = RelOf(t, f.s)
    /\ \A n \in f.todo : Append(f.s, n) \in DOMAIN Src

\* The directories of the stack lie one in the other, and what is in hand is
\* not among what is still to be visited.
Walking ==
    /\ stack \in Seq(FrameType)
    /\ stack # <<>> => arg \in DOMAIN cmd.args /\ Given("recursive") /\ stack[1].s = ArgTask.s
    /\ \A j \in 1..Len(stack) : FrameOf(stack[j], ArgTask)
    /\ \A i, j \in 1..Len(stack) : i < j =>
          /\ IsPrefix(stack[i].s, stack[j].s) /\ stack[i].s # stack[j].s
          /\ \A n \in stack[i].todo : ~IsPrefix(Append(stack[i].s, n), stack[j].s)

Entry ==
    Busy =>
        /\ arg \in DOMAIN cmd.args
        /\ cur \in [s : Path, d : Path, rel : Path]
        /\ cur.s \in Selected(ArgTask) /\ ~IsDir(Src, cur.s)
        /\ cur.d = Place(ArgTask, cur.s)
        /\ stack = <<>> => cur.s = ArgTask.s
        /\ stack # <<>> => cur.s # <<>> /\ Front(cur.s) = Top.s /\ Last(cur.s) \notin Top.todo

WalkInv == Control /\ Walking /\ Entry

LEMMA EntryControl ==
    ASSUME EntryAction
    PROVE  /\ Busy /\ Run
           /\ \/ pc' \in EntryStates \ {"entry"} /\ UNCHANGED <<stack, kept, arg, cur>>
              \/ EntryDone
<1>1. Write \in {"create", "unlink", "special"} /\ Replace \in {"backup", "create", "unlink", "special"}
  BY DEF Write, Replace
<1>2. CASE DryEntry \/ SkipEntry \/ UnlinkFollower \/ LinkFollower \/ Special \/ Symlink \/ SetTime
  BY <1>2 DEF DryEntry, SkipEntry, UnlinkFollower, LinkFollower, Special, Symlink, SetTime, At, Busy,
              EntryStates, Onward
<1>3. CASE LinkTmp \/ LinkName \/ Decide \/ Backup
  BY <1>1, <1>3 DEF LinkTmp, LinkName, Decide, Backup, At, Busy, EntryStates, Onward
<1>4. CASE UnlinkOld \/ CreateTmp \/ FillTmp \/ RenameTmp
  BY <1>4 DEF UnlinkOld, CreateTmp, FillTmp, RenameTmp, At, Busy, EntryStates, Onward
<1> QED
  BY <1>2, <1>3, <1>4 DEF EntryAction

LEMMA NextCases ==
    ASSUME LocalNext
    PROVE  Start \/ SkipArg \/ DirArg \/ FileArg \/ Leave \/ EndWalk
           \/ (stack # <<>> /\ \E n \in Top.todo : Visit(n))
           \/ EntryAction \/ (\E p \in DOMAIN dst : Delete(p)) \/ EndDelete \/ Kill
BY DEF LocalNext, EntryAction

LEMMA TopAt ==
    ASSUME Walking, stack # <<>>
    PROVE  /\ Len(stack) \in Nat \ {0} /\ Len(stack) \in 1..Len(stack) /\ Top = stack[Len(stack)]
           /\ Top \in FrameType /\ DOMAIN stack = 1..Len(stack)
           /\ \A j \in 1..Len(stack) : stack[j] \in FrameType
<1>1. stack \in Seq(FrameType)
  BY DEF Walking
<1>2. Len(stack) \in Nat /\ Len(stack) # 0 /\ DOMAIN stack = 1..Len(stack)
  BY <1>1, LenProperties, EmptySeq
<1>3. \A j \in 1..Len(stack) : stack[j] \in FrameType
  BY <1>1, ElementOfSeq
<1> QED
  BY <1>2, <1>3 DEF Top

\* A stack with less to do, of the same directories or fewer.
LessToDo(S, T) ==
    /\ Len(S) <= Len(T)
    /\ \A j \in 1..Len(S) :
          /\ S[j].s = T[j].s /\ S[j].d = T[j].d /\ S[j].rel = T[j].rel
          /\ S[j].todo \subseteq T[j].todo

LEMMA WalkingLess ==
    ASSUME Walking, cmd' = cmd, isdir' = isdir, arg' = arg, stack' \in Seq(FrameType), LessToDo(stack', stack)
    PROVE  Walking'
<1>1. stack \in Seq(FrameType) /\ Len(stack) \in Nat /\ Len(stack') \in Nat
  BY LenProperties DEF Walking
<1>2. ArgTask' = ArgTask /\ (\A t : Reached(t)' = Reached(t)) /\ (Given("recursive")' <=> Given("recursive"))
  BY SameCommand DEF ArgTask, Given
<1>3. \A j \in 1..Len(stack') :
        /\ j \in 1..Len(stack)
        /\ stack'[j].s = stack[j].s /\ stack'[j].d = stack[j].d /\ stack'[j].rel = stack[j].rel
        /\ stack'[j].todo \subseteq stack[j].todo
  BY <1>1 DEF LessToDo
<1>4. stack' # <<>> => stack # <<>> /\ 1 \in 1..Len(stack')
  BY <1>1, EmptySeq DEF LessToDo
<1>5. stack' # <<>> => arg \in DOMAIN cmd.args /\ Given("recursive") /\ stack'[1].s = ArgTask.s
  BY <1>3, <1>4 DEF Walking
<1>6. \A j \in 1..Len(stack') : FrameOf(stack'[j], ArgTask)
  BY <1>3 DEF Walking, FrameOf
<1>7. \A i, j \in 1..Len(stack') : i < j =>
          /\ IsPrefix(stack'[i].s, stack'[j].s) /\ stack'[i].s # stack'[j].s
          /\ \A n \in stack'[i].todo : ~IsPrefix(Append(stack'[i].s, n), stack'[j].s)
  <2> TAKE i, j \in 1..Len(stack')
  <2> HAVE i < j
  <2>1. /\ IsPrefix(stack[i].s, stack[j].s) /\ stack[i].s # stack[j].s
        /\ \A n \in stack[i].todo : ~IsPrefix(Append(stack[i].s, n), stack[j].s)
    BY <1>3 DEF Walking
  <2> QED
    BY <1>3, <2>1
<1>8. \A f, t : FrameOf(f, t)' <=> FrameOf(f', t')
  BY <1>2 DEF FrameOf
<1> QED
  BY <1>2, <1>5, <1>6, <1>7 DEF Walking, FrameOf

\* One directory more on top.
LEMMA WalkingMore ==
    ASSUME Walking, cmd' = cmd, isdir' = isdir, arg' = arg, NEW R \in Seq(FrameType), LessToDo(R, stack),
           Len(R) = Len(stack), NEW f \in FrameType, stack' = Append(R, f),
           arg \in DOMAIN cmd.args, Given("recursive"), FrameOf(f, ArgTask),
           R = <<>> => f.s = ArgTask.s,
           \A i \in 1..Len(R) :
              /\ IsPrefix(R[i].s, f.s) /\ R[i].s # f.s
              /\ \A n \in R[i].todo : ~IsPrefix(Append(R[i].s, n), f.s)
    PROVE  Walking'
<1>1. stack \in Seq(FrameType) /\ Len(stack) \in Nat /\ Len(R) \in Nat
  BY LenProperties DEF Walking
<1>2. ArgTask' = ArgTask /\ (\A t : Reached(t)' = Reached(t)) /\ (Given("recursive")' <=> Given("recursive"))
  BY SameCommand DEF ArgTask, Given
<1>3. /\ stack' \in Seq(FrameType) /\ Len(stack') = Len(R) + 1
      /\ \A j \in 1..Len(R) : stack'[j] = R[j]
      /\ stack'[Len(R) + 1] = f
  BY AppendProperties
<1>4. \A j \in 1..Len(R) :
        /\ R[j].s = stack[j].s /\ R[j].d = stack[j].d /\ R[j].rel = stack[j].rel
        /\ R[j].todo \subseteq stack[j].todo
  BY DEF LessToDo
<1>5. \A j \in 1..Len(stack') : j \in 1..Len(R) \/ j = Len(R) + 1
  BY <1>1, <1>3
<1>6. stack'[1].s = ArgTask.s
  <2>1. CASE R = <<>>
    BY <1>1, <1>3, <2>1, EmptySeq
  <2>2. CASE R # <<>>
    <3>1. Len(R) # 0 /\ stack # <<>>
      BY <1>1, <2>2, EmptySeq
    <3>2. 1 \in 1..Len(R)
      BY <1>1, <3>1
    <3> QED
      BY <1>3, <1>4, <3>1, <3>2 DEF Walking
  <2> QED
    BY <2>1, <2>2
<1>7. \A j \in 1..Len(stack') : FrameOf(stack'[j], ArgTask)
  <2>1. \A j \in 1..Len(R) : FrameOf(R[j], ArgTask)
    BY <1>4 DEF Walking, FrameOf
  <2> QED
    BY <1>3, <1>5, <2>1
<1>8. \A i, j \in 1..Len(stack') : i < j =>
          /\ IsPrefix(stack'[i].s, stack'[j].s) /\ stack'[i].s # stack'[j].s
          /\ \A n \in stack'[i].todo : ~IsPrefix(Append(stack'[i].s, n), stack'[j].s)
  <2> TAKE i, j \in 1..Len(stack')
  <2> HAVE i < j
  <2>1. i \in 1..Len(R)
    BY <1>1, <1>3
  <2>2. CASE j \in 1..Len(R)
    <3>1. /\ IsPrefix(stack[i].s, stack[j].s) /\ stack[i].s # stack[j].s
          /\ \A n \in stack[i].todo : ~IsPrefix(Append(stack[i].s, n), stack[j].s)
      BY <2>1, <2>2 DEF Walking
    <3> QED
      BY <1>3, <1>4, <2>1, <2>2, <3>1
  <2>3. CASE j = Len(R) + 1
    BY <1>3, <2>1, <2>3
  <2> QED
    BY <1>5, <2>2, <2>3
<1> QED
  BY <1>2, <1>3, <1>6, <1>7, <1>8 DEF Walking, FrameOf

LEMMA WalkingNone ==
    ASSUME stack' = <<>>
    PROVE  Walking'
BY DEF Walking

\* What the actions do to the stack.
LEMMA Bumped ==
    ASSUME NEW S \in Seq(FrameType), S # <<>>, NEW m \in Nat
    PROVE  LET R == [S EXCEPT ![Len(S)].n = m]
           IN  /\ R \in Seq(FrameType) /\ LessToDo(R, S) /\ Len(R) = Len(S)
               /\ \A j \in 1..Len(S) : R[j].todo = S[j].todo
               /\ R[Len(S)].n = m /\ \A j \in 1..(Len(S) - 1) : R[j].n = S[j].n
<1>1. Len(S) \in 1..Len(S) /\ S[Len(S)] \in FrameType /\ Len(S) \in Nat /\ DOMAIN S = 1..Len(S)
  BY EmptySeq, LenProperties, ElementOfSeq
<1> DEFINE f == [S[Len(S)] EXCEPT !.n = m]
           R == [S EXCEPT ![Len(S)] = f]
<1>2. f \in FrameType /\ f.n = m /\ f.s = S[Len(S)].s /\ f.d = S[Len(S)].d /\ f.rel = S[Len(S)].rel
      /\ f.todo = S[Len(S)].todo
  BY <1>1 DEF FrameType
<1>2a. f = [S[Len(S)] EXCEPT !.n = m]
  OBVIOUS
<1> HIDE DEF f
<1>3. R \in Seq(FrameType) /\ Len(R) = Len(S)
  BY <1>1, <1>2, ExceptSeq
<1>4. R[Len(S)] = f /\ \A j \in 1..Len(S) : j # Len(S) => R[j] = S[j]
  BY <1>1
<1> HIDE DEF R
<1>5. \A j \in 1..Len(S) : /\ R[j].s = S[j].s /\ R[j].d = S[j].d /\ R[j].rel = S[j].rel
                           /\ R[j].todo = S[j].todo
  BY <1>2, <1>4
<1>6. LessToDo(R, S)
  BY <1>1, <1>3, <1>5 DEF LessToDo
<1>7a. \A j \in 1..(Len(S) - 1) : j \in 1..Len(S) /\ j # Len(S)
  <2> DEFINE z == Len(S)
  <2>1. z \in Nat
    BY LenProperties
  <2> HIDE DEF z
  <2>2. \A j \in 1..(z - 1) : j \in 1..z /\ j # z
    BY <2>1
  <2> QED
    BY <2>2 DEF z
<1>7. R[Len(S)].n = m /\ \A j \in 1..(Len(S) - 1) : R[j].n = S[j].n
  BY <1>2, <1>4, <1>7a
<1>8. R = [S EXCEPT ![Len(S)].n = m]
  BY <1>2a DEF R
<1> QED
  BY <1>3, <1>5, <1>6, <1>7, <1>8

LEMMA Visited ==
    ASSUME NEW S \in Seq(FrameType), S # <<>>, NEW n
    PROVE  LET R == [S EXCEPT ![Len(S)].todo = @ \ {n}]
           IN  /\ R \in Seq(FrameType) /\ LessToDo(R, S) /\ Len(R) = Len(S)
               /\ R[Len(S)].todo = S[Len(S)].todo \ {n}
               /\ \A j \in 1..Len(S) : R[j].n = S[j].n
               /\ \A j \in 1..(Len(S) - 1) : R[j] = S[j]
<1>1. Len(S) \in 1..Len(S) /\ S[Len(S)] \in FrameType /\ Len(S) \in Nat /\ DOMAIN S = 1..Len(S)
  BY EmptySeq, LenProperties, ElementOfSeq
<1> DEFINE f == [S[Len(S)] EXCEPT !.todo = @ \ {n}]
           R == [S EXCEPT ![Len(S)] = f]
<1>2. f \in FrameType /\ f.n = S[Len(S)].n /\ f.s = S[Len(S)].s /\ f.d = S[Len(S)].d /\ f.rel = S[Len(S)].rel
      /\ f.todo = S[Len(S)].todo \ {n}
  BY <1>1 DEF FrameType
<1>2a. f = [S[Len(S)] EXCEPT !.todo = @ \ {n}]
  OBVIOUS
<1> HIDE DEF f
<1>3. R \in Seq(FrameType) /\ Len(R) = Len(S)
  BY <1>1, <1>2, ExceptSeq
<1>4. R[Len(S)] = f /\ \A j \in 1..Len(S) : j # Len(S) => R[j] = S[j]
  BY <1>1
<1> HIDE DEF R
<1>5. \A j \in 1..Len(S) : /\ R[j].s = S[j].s /\ R[j].d = S[j].d /\ R[j].rel = S[j].rel
                           /\ R[j].todo \subseteq S[j].todo /\ R[j].n = S[j].n
  BY <1>2, <1>4
<1>6. LessToDo(R, S)
  BY <1>1, <1>3, <1>5 DEF LessToDo
<1>7a. \A j \in 1..(Len(S) - 1) : j \in 1..Len(S) /\ j # Len(S)
  <2> DEFINE z == Len(S)
  <2>1. z \in Nat
    BY LenProperties
  <2> HIDE DEF z
  <2>2. \A j \in 1..(z - 1) : j \in 1..z /\ j # z
    BY <2>1
  <2> QED
    BY <2>2 DEF z
<1>7. R[Len(S)].todo = S[Len(S)].todo \ {n} /\ \A j \in 1..(Len(S) - 1) : R[j] = S[j]
  BY <1>2, <1>4, <1>7a
<1>8. R = [S EXCEPT ![Len(S)].todo = @ \ {n}]
  BY <1>2a DEF R
<1> QED
  BY <1>3, <1>5, <1>6, <1>7, <1>8

LEMMA Left ==
    ASSUME NEW S \in Seq(FrameType), S # <<>>
    PROVE  /\ Front(S) \in Seq(FrameType) /\ LessToDo(Front(S), S) /\ Len(Front(S)) = Len(S) - 1
           /\ \A j \in 1..(Len(S) - 1) : Front(S)[j] = S[j]
<1>1. Len(S) \in Nat \ {0}
  BY EmptySeq, LenProperties
<1>2. /\ Front(S) \in Seq(FrameType) /\ Len(Front(S)) = Len(S) - 1
      /\ \A j \in 1..(Len(S) - 1) : Front(S)[j] = S[j]
  <2> DEFINE z == Len(S) - 1
  <2>1. z \in Nat /\ Front(S) = SubSeq(S, 1, z) /\ z = Len(S) - 1
    BY <1>1 DEF Front
  <2>2. \A j \in 1..z : S[j] \in FrameType
    BY <1>1, ElementOfSeq
  <2> HIDE DEF z
  <2>3. /\ SubSeq(S, 1, z) \in Seq(FrameType) /\ Len(SubSeq(S, 1, z)) = z
        /\ \A j \in 1..z : SubSeq(S, 1, z)[j] = S[j]
    BY <2>1, <2>2, SubSeqProperties, SMT
  <2> QED
    BY <2>1, <2>3
<1>3. LessToDo(Front(S), S)
  BY <1>1, <1>2 DEF LessToDo
<1> QED
  BY <1>2, <1>3

LEMMA SameLess ==
    ASSUME NEW S \in Seq(FrameType)
    PROVE  LessToDo(S, S)
BY LenProperties DEF LessToDo

LEMMA LessTrans ==
    ASSUME NEW S \in Seq(FrameType), NEW T \in Seq(FrameType), NEW U \in Seq(FrameType), LessToDo(S, T), LessToDo(T, U)
    PROVE  LessToDo(S, U)
<1>1. Len(S) \in Nat /\ Len(T) \in Nat /\ Len(U) \in Nat
  BY LenProperties
<1> QED
  BY <1>1 DEF LessToDo

LEMMA RelType ==
    ASSUME NEW p \in Path
    PROVE  Rel(p) \in Path
<1>1. Len(Root) = 1 /\ Len(p) \in Nat
  BY RootAt, PathLen
<1>2. CASE Len(p) = 0
  BY <1>1, <1>2, SubSeqEmpty, EmptySeq DEF Rel, Path
<1>3. CASE Len(p) >= 1
  <2>1. 1 \in 0..Len(p)
    BY <1>1, <1>3
  <2>2. SubSeq(p, 1 + 1, Len(p)) \in Path
    BY <2>1, CutAt
  <2> QED
    BY <1>1, <2>2 DEF Rel
<1> QED
  BY <1>1, <1>2, <1>3

LEMMA ArgIs ==
    ASSUME WalkInv, Busy \/ stack # <<>> \/ AtArg
    PROVE  /\ arg \in DOMAIN cmd.args /\ IsTask(ArgTask)
           /\ ArgTask.s \in DOMAIN Src => ArgTask.s \in Reached(ArgTask)
<1>1. arg \in DOMAIN cmd.args
  <2>1. CASE Busy
    BY <2>1 DEF WalkInv, Entry
  <2>2. CASE stack # <<>>
    BY <2>2 DEF WalkInv, Walking
  <2>3. CASE AtArg
    BY <2>3, CommandType DEF WalkInv, Control, AtArg
  <2> QED
    BY <2>1, <2>2, <2>3
<1>2. IsTask(ArgTask)
  BY <1>1, TaskAt DEF WalkInv, Control, ArgTask
<1> QED
  BY <1>1, <1>2, ReachedSelf

\* The entry in hand.
CurItem == [k |-> arg, s |-> cur.s, d |-> cur.d]

LEMMA CurAt ==
    ASSUME WalkInv, Busy
    PROVE  /\ CurItem \in AllCopies /\ CurItem \in AllReached /\ ~IsDir(Src, cur.s) /\ cur.s \in DOMAIN Src
           /\ cur.d \in Path /\ cur.d # <<>> /\ IsPrefix(Root, cur.d) /\ Plain(cur.d) /\ ~Helper(cur.d)
           /\ Last(cur.d) \in DOMAIN TmpName
           /\ CurItem.k = arg /\ CurItem.s = cur.s /\ CurItem.d = cur.d
<1>1. /\ cmd \in Commands \cup {NoCommand} /\ arg \in DOMAIN cmd.args
      /\ cur.s \in Selected(Task(cmd.args[arg])) /\ ~IsDir(Src, cur.s)
      /\ cur.d = Place(Task(cmd.args[arg]), cur.s)
  BY DEF WalkInv, Control, Entry, ArgTask
<1>2. CurItem \in AllCopies
  BY <1>1 DEF AllCopies, CurItem
<1>3. CurItem \in AllReached
  BY <1>2, CopyIs
<1>4. CurItem.k = arg /\ CurItem.s = cur.s /\ CurItem.d = cur.d
  BY DEF CurItem
<1> QED
  BY <1>1, <1>2, <1>3, <1>4, ItemAt

LEMMA OnwardWalk ==
    ASSUME WalkInv, Busy, Run, pc' \in EntryStates, UNCHANGED <<stack, kept, arg, cur>>
    PROVE  WalkInv'
<1>1. cmd' = cmd /\ isdir' = isdir
  BY DEF Run
<1>2. ArgTask' = ArgTask /\ \A t : Selected(t)' = Selected(t)
  BY <1>1, SameCommand DEF ArgTask
<1>3. Control'
  BY <1>1 DEF WalkInv, Control, Busy, EntryStates
<1>4. Walking'
  <2>1. stack \in Seq(FrameType)
    BY DEF WalkInv, Walking
  <2> QED
    BY <1>1, <2>1, SameLess, WalkingLess DEF WalkInv
<1>5. Entry'
  BY <1>1, <1>2 DEF WalkInv, Entry, Busy, Top
<1> QED
  BY <1>3, <1>4, <1>5 DEF WalkInv

LEMMA DoneWalk ==
    ASSUME WalkInv, Busy, Run, EntryDone
    PROVE  WalkInv'
<1>1. cmd' = cmd /\ isdir' = isdir /\ pc' = "walk" /\ cmd \in Commands
  BY DEF Run, EntryDone, WalkInv, Control, Busy, EntryStates
<1>2. cur.d \in Path /\ Rel(cur.d) \in Path
  BY CurAt, RelType
<1>3. Control'
  BY <1>1, <1>2 DEF WalkInv, Control, EntryDone
<1>4. Walking'
  <2>1. CASE stack = <<>>
    BY <2>1, WalkingNone DEF EntryDone
  <2>2. CASE stack # <<>>
    <3>1. stack \in Seq(FrameType) /\ Top.n + 1 \in Nat /\ Top = stack[Len(stack)]
      BY <2>2, TopAt DEF WalkInv, FrameType, Walking
    <3>2. stack' = [stack EXCEPT ![Len(stack)].n = Top.n + 1] /\ arg' = arg
      BY <2>2 DEF EntryDone, Top
    <3> QED
      BY <1>1, <2>2, <3>1, <3>2, Bumped, WalkingLess DEF WalkInv
  <2> QED
    BY <2>1, <2>2
<1>5. Entry'
  BY <1>1 DEF Entry, Busy, EntryStates
<1> QED
  BY <1>3, <1>4, <1>5 DEF WalkInv

\* The frame of a directory that is reached.
LEMMA FrameIs ==
    ASSUME NEW t, IsTask(t), NEW f \in [s : Path, d : Path, rel : Path], f.s \in Reached(t), IsDir(Src, f.s),
           f.d = Place(t, f.s), f.rel = RelOf(t, f.s)
    PROVE  /\ Frame(f) \in FrameType /\ FrameOf(Frame(f), t)
           /\ Frame(f).s = f.s /\ Frame(f).d = f.d /\ Frame(f).n = 0
           /\ \A n \in STRING : n \in Frame(f).todo <=> Append(f.s, n) \in DOMAIN Src
<1> DEFINE D == {Last(p) : p \in Children(Src, f.s)}
<1>1. \A p \in Children(Src, f.s) : p \in DOMAIN Src /\ p # <<>> /\ Front(p) = f.s /\ p \in Path
  BY SourceAt DEF Children
<1>2. \A p \in Children(Src, f.s) : Last(p) \in STRING /\ Append(f.s, Last(p)) = p
  BY <1>1, FrontAt
<1>3. D \subseteq STRING /\ \A n \in D : Append(f.s, n) \in DOMAIN Src
  BY <1>1, <1>2
<1>4. ASSUME NEW n \in STRING, Append(f.s, n) \in DOMAIN Src
      PROVE  n \in D
  <2>1. Append(f.s, n) # <<>> /\ Front(Append(f.s, n)) = f.s /\ Last(Append(f.s, n)) = n
    BY AppendAt
  <2> QED
    BY <1>4, <2>1 DEF Children
<1>5. Frame(f) = [s |-> f.s, d |-> f.d, rel |-> f.rel, n |-> 0, todo |-> D]
  BY DEF Frame
<1> HIDE DEF D
<1>6. Frame(f) \in FrameType
  BY <1>3, <1>5 DEF FrameType
<1>6a. /\ Frame(f).s = f.s /\ Frame(f).d = f.d /\ Frame(f).rel = f.rel /\ Frame(f).n = 0
       /\ Frame(f).todo = D
  BY <1>5
<1>7. FrameOf(Frame(f), t)
  BY <1>3, <1>6a DEF FrameOf
<1> QED
  BY <1>3, <1>4, <1>6, <1>6a, <1>7

LEMMA StartWalk ==
    ASSUME WalkInv, Start
    PROVE  WalkInv'
<1>1. /\ pc' = "walk" /\ stack' = <<>> /\ kept' = {} /\ arg' = 1 /\ cmd' \in Commands
  BY DEF Start
<1>2. isdir' \in BOOLEAN
  BY DEF Start
<1>3. Control'
  BY <1>1, <1>2 DEF Control
<1>4. Entry'
  BY <1>1 DEF Entry, Busy, EntryStates
<1> QED
  BY <1>1, <1>3, <1>4, WalkingNone DEF WalkInv

LEMMA KillWalk ==
    ASSUME WalkInv, Kill
    PROVE  WalkInv'
<1>1. pc' = "idle" /\ stack' = <<>> /\ kept' = {} /\ arg' = 1 /\ cmd' = cmd /\ isdir' = isdir
  BY DEF Kill, Run
<1>2. Control'
  BY <1>1 DEF Control, WalkInv
<1>3. Entry'
  BY <1>1 DEF Entry, Busy, EntryStates
<1> QED
  BY <1>1, <1>2, <1>3, WalkingNone DEF WalkInv

LEMMA DeleteWalk ==
    ASSUME WalkInv, (\E p \in DOMAIN dst : Delete(p)) \/ EndDelete
    PROVE  WalkInv'
<1>1. /\ pc = "delete" /\ pc' \in {"delete", "done"} /\ stack' = stack /\ kept' = kept /\ arg' = arg
      /\ cmd' = cmd /\ isdir' = isdir
  BY DEF Delete, EndDelete, At, Run
<1>2. Control'
  BY <1>1 DEF Control, WalkInv
<1>3. Entry'
  BY <1>1 DEF Entry, Busy, EntryStates
<1>4. stack' = <<>>
  BY <1>1 DEF Control, WalkInv
<1> QED
  BY <1>2, <1>3, <1>4, WalkingNone DEF WalkInv

LEMMA EndWalkWalk ==
    ASSUME WalkInv, EndWalk
    PROVE  WalkInv'
<1>1. /\ pc = "walk" /\ pc' \in {"delete", "done"} /\ stack' = <<>> /\ stack = <<>> /\ kept' = kept /\ arg' = arg
      /\ cmd' = cmd /\ isdir' = isdir /\ arg > Len(cmd.args)
  BY DEF EndWalk, Run
<1>2. Control'
  BY <1>1 DEF Control, WalkInv
<1>3. Entry'
  BY <1>1 DEF Entry, Busy, EntryStates
<1> QED
  BY <1>1, <1>2, <1>3, WalkingNone DEF WalkInv

LEMMA SkipArgWalk ==
    ASSUME WalkInv, SkipArg
    PROVE  WalkInv'
<1>1. /\ pc = "walk" /\ pc' = "walk" /\ stack' = <<>> /\ arg' = arg + 1
      /\ cmd' = cmd /\ isdir' = isdir /\ AtArg
      /\ kept' = kept \/ kept' = kept \cup {Rel(ArgTask.d)}
  BY DEF SkipArg, AtArg, Run, ArgTask
<1>2. Rel(ArgTask.d) \in Path
  BY <1>1, ArgIs, RelType DEF IsTask
<1>3. Control'
  BY <1>1, <1>2 DEF Control, WalkInv
<1>4. Entry'
  BY <1>1 DEF Entry, Busy, EntryStates
<1> QED
  BY <1>1, <1>3, <1>4, WalkingNone DEF WalkInv

LEMMA TaskFields ==
    ASSUME NEW a
    PROVE  Task(a) = [s |-> Task(a).s, d |-> Task(a).d, rel |-> Task(a).rel]
BY DEF Task

LEMMA DirArgWalk ==
    ASSUME WalkInv, DirArg
    PROVE  WalkInv'
<1>1. /\ pc = "walk" /\ pc' = "walk" /\ stack = <<>> /\ kept' = kept /\ arg' = arg
      /\ cmd' = cmd /\ isdir' = isdir /\ AtArg /\ Given("recursive") /\ IsDir(Src, ArgTask.s)
      /\ stack' = Append(<<>>, Frame(ArgTask))
  BY DEF DirArg, AtArg, Run, ArgTask, Enter
<1>2. arg \in DOMAIN cmd.args /\ IsTask(ArgTask) /\ ArgTask.s \in Reached(ArgTask)
  BY <1>1, ArgIs DEF IsDir
<1>3. ArgTask.d = Place(ArgTask, ArgTask.s) /\ ArgTask.rel = RelOf(ArgTask, ArgTask.s)
  BY <1>2, PlaceSelf
<1>4. ArgTask \in [s : Path, d : Path, rel : Path]
  BY <1>2, TaskFields DEF ArgTask, IsTask
<1>5. Frame(ArgTask) \in FrameType /\ FrameOf(Frame(ArgTask), ArgTask) /\ Frame(ArgTask).s = ArgTask.s
  BY <1>1, <1>2, <1>3, <1>4, FrameIs
<1>6. <<>> \in Seq(FrameType) /\ LessToDo(<<>>, stack) /\ Len(<<>>) = Len(stack) /\ Len(<<>>) = 0
  BY <1>1, EmptySeq, SameLess
<1>7. Walking'
  <2> DEFINE f == Frame(ArgTask)
             R == <<>>
  <2>1. /\ R \in Seq(FrameType) /\ LessToDo(R, stack) /\ Len(R) = Len(stack) /\ f \in FrameType
        /\ stack' = Append(R, f) /\ FrameOf(f, ArgTask) /\ f.s = ArgTask.s
        /\ \A i \in 1..Len(R) : FALSE
    BY <1>1, <1>5, <1>6
  <2> HIDE DEF f, R
  <2> QED
    BY <1>1, <1>2, <2>1, WalkingMore DEF WalkInv
<1>8. Control'
  BY <1>1 DEF Control, WalkInv
<1>9. Entry'
  BY <1>1 DEF Entry, Busy, EntryStates
<1> QED
  BY <1>7, <1>8, <1>9 DEF WalkInv

LEMMA FileArgWalk ==
    ASSUME WalkInv, FileArg
    PROVE  WalkInv'
<1>1. /\ pc = "walk" /\ pc' = "entry" /\ stack = <<>> /\ stack' = <<>> /\ kept' = kept /\ arg' = arg
      /\ cmd' = cmd /\ isdir' = isdir /\ AtArg /\ cur' = ArgTask
      /\ ArgTask.s \in DOMAIN Src /\ ~IsDir(Src, ArgTask.s) /\ Admitted(ArgTask.s)
  BY DEF FileArg, AtArg, Run, ArgTask
<1>2. arg \in DOMAIN cmd.args /\ IsTask(ArgTask) /\ ArgTask.s \in Reached(ArgTask)
  BY <1>1, ArgIs
<1>3. ArgTask.d = Place(ArgTask, ArgTask.s)
  BY <1>2, PlaceSelf
<1>4. ArgTask \in [s : Path, d : Path, rel : Path]
  BY <1>2, TaskFields DEF ArgTask, IsTask
<1>5. ArgTask' = ArgTask /\ Selected(ArgTask)' = Selected(ArgTask)
  BY <1>1, SameCommand DEF ArgTask
<1>6. ArgTask.s \in Selected(ArgTask)
  BY <1>1, <1>2 DEF Selected
<1>8. Entry'
  BY <1>1, <1>2, <1>3, <1>4, <1>5, <1>6 DEF Entry
<1>9. Control'
  BY <1>1 DEF Control, WalkInv, EntryStates
<1> QED
  BY <1>1, <1>8, <1>9, WalkingNone DEF WalkInv

\* The child a visit is about.
LEMMA ChildAt ==
    ASSUME WalkInv, stack # <<>>, NEW n \in Top.todo
    PROVE  LET c == [s |-> Append(Top.s, n), d |-> Append(Top.d, n), rel |-> Append(Top.rel, n)]
           IN  /\ IsTask(ArgTask) /\ arg \in DOMAIN cmd.args /\ Given("recursive")
               /\ Top.s \in Path /\ n \in STRING /\ Top.s \in Reached(ArgTask) /\ Top.d = Place(ArgTask, Top.s)
               /\ c \in [s : Path, d : Path, rel : Path] /\ c.s \in DOMAIN Src
               /\ c.s \in Reached(ArgTask) <=> c.rel \notin Excluded
               /\ c.d = Place(ArgTask, c.s) /\ c.rel = RelOf(ArgTask, c.s)
               /\ c.s # <<>> /\ Front(c.s) = Top.s /\ Last(c.s) = n /\ IsPrefix(Top.s, c.s) /\ Top.s # c.s
<1>1. IsTask(ArgTask) /\ arg \in DOMAIN cmd.args /\ Given("recursive")
  BY ArgIs DEF WalkInv, Walking
<1>2. Top \in FrameType /\ FrameOf(Top, ArgTask)
  BY TopAt DEF WalkInv, Walking
<1>3. /\ Top.s \in Path /\ Top.d \in Path /\ Top.rel \in Path /\ n \in STRING /\ Top.s \in Reached(ArgTask)
      /\ Top.d = Place(ArgTask, Top.s) /\ Top.rel = RelOf(ArgTask, Top.s)
      /\ Append(Top.s, n) \in DOMAIN Src /\ IsPrefix(ArgTask.s, Top.s)
  BY <1>1, <1>2, ReachedAt DEF FrameType, FrameOf
<1> DEFINE cs == Append(Top.s, n)
           cd == Append(Top.d, n)
           cr == Append(Top.rel, n)
<1>4. /\ cs \in Path /\ cd \in Path /\ cr \in Path /\ cs # <<>> /\ Front(cs) = Top.s /\ Last(cs) = n
      /\ IsPrefix(Top.s, cs) /\ Top.s # cs
  <2>1. cd \in Path /\ cr \in Path
    BY <1>3, AppendAt
  <2>2. /\ cs \in Path /\ cs # <<>> /\ Front(cs) = Top.s /\ Last(cs) = n
        /\ IsPrefix(Top.s, cs) /\ Len(cs) = Len(Top.s) + 1
    BY <1>3, AppendAt
  <2>3. Len(Top.s) \in Nat
    BY <1>3, PathLen
  <2> QED
    BY <2>1, <2>2, <2>3
<1>5. cd = Place(ArgTask, cs) /\ cr = RelOf(ArgTask, cs)
  BY <1>1, <1>3, PlaceChild
<1>6. cs \in Reached(ArgTask) <=> cr \notin Excluded
  BY <1>1, <1>3, <1>5, ReachedChild
<1>7. cs \in DOMAIN Src
  BY <1>3
<1> HIDE DEF cs, cd, cr
<1>8. LET c == [s |-> cs, d |-> cd, rel |-> cr]
      IN  /\ c \in [s : Path, d : Path, rel : Path] /\ c.s = cs /\ c.d = cd /\ c.rel = cr
  BY <1>4
<1> QED
  BY <1>1, <1>3, <1>4, <1>5, <1>6, <1>7, <1>8 DEF cs, cd, cr

LEMMA VisitWalk ==
    ASSUME WalkInv, stack # <<>>, NEW n \in Top.todo, Visit(n)
    PROVE  WalkInv'
<1> DEFINE c == [s |-> Append(Top.s, n), d |-> Append(Top.d, n), rel |-> Append(Top.rel, n)]
           R == [stack EXCEPT ![Len(stack)].todo = @ \ {n}]
<1>1. /\ pc = "walk" /\ arg' = arg /\ cmd' = cmd /\ isdir' = isdir /\ Run
      /\ \/ stack' = R /\ kept' = kept /\ cur' = cur /\ pc' = pc
         \/ c.rel \notin Excluded /\ Enter(c, R)
         \/ /\ c.rel \notin Excluded /\ ~IsDir(Src, c.s) /\ Admitted(c.s)
            /\ kept' = kept \cup {c.rel}
            /\ cur' = c /\ pc' = "entry" /\ stack' = R
  BY DEF Visit, Run
<1>2. /\ IsTask(ArgTask) /\ arg \in DOMAIN cmd.args /\ Given("recursive")
      /\ Top.s \in Path /\ n \in STRING /\ Top.s \in Reached(ArgTask) /\ Top.d = Place(ArgTask, Top.s)
      /\ c \in [s : Path, d : Path, rel : Path] /\ c.s \in DOMAIN Src
      /\ c.s \in Reached(ArgTask) <=> c.rel \notin Excluded
      /\ c.d = Place(ArgTask, c.s) /\ c.rel = RelOf(ArgTask, c.s)
      /\ c.s # <<>> /\ Front(c.s) = Top.s /\ Last(c.s) = n /\ IsPrefix(Top.s, c.s) /\ Top.s # c.s
      /\ c.s = Append(Top.s, n)
  BY ChildAt
<1>3. stack \in Seq(FrameType)
  BY DEF WalkInv, Walking
<1>4. /\ R \in Seq(FrameType) /\ LessToDo(R, stack) /\ Len(R) = Len(stack)
      /\ R[Len(stack)].todo = stack[Len(stack)].todo \ {n}
      /\ \A j \in 1..(Len(stack) - 1) : R[j] = stack[j]
  BY <1>3, Visited
<1>5. Len(stack) \in Nat \ {0} /\ Top = stack[Len(stack)] /\ R[Len(stack)].s = Top.s
  BY <1>4, TopAt DEF WalkInv, LessToDo
<1> HIDE DEF c, R
<1>6. CASE stack' = R /\ kept' = kept /\ pc' = pc
  <2>1. Control'
    BY <1>1, <1>6 DEF WalkInv, Control
  <2>2. Walking'
    BY <1>1, <1>4, <1>6, WalkingLess DEF WalkInv
  <2>3. Entry'
    BY <1>1, <1>6 DEF Entry, Busy, EntryStates
  <2> QED
    BY <2>1, <2>2, <2>3 DEF WalkInv
<1>7. CASE c.rel \notin Excluded /\ Enter(c, R)
  <2>1. IsDir(Src, c.s) /\ stack' = Append(R, Frame(c)) /\ kept' = kept /\ pc' = pc
    BY <1>7 DEF Enter
  <2>2. Control'
    BY <1>1, <2>1 DEF WalkInv, Control
  <2>3. Entry'
    BY <1>1, <2>1 DEF Entry, Busy, EntryStates
  <2>4. Frame(c) \in FrameType /\ FrameOf(Frame(c), ArgTask) /\ Frame(c).s = c.s
    BY <1>2, <1>7, <2>1, FrameIs
  <2>5. ASSUME NEW i \in 1..Len(R)
        PROVE  /\ IsPrefix(R[i].s, c.s) /\ R[i].s # c.s
               /\ \A m \in R[i].todo : ~IsPrefix(Append(R[i].s, m), c.s)
    <3>1. CASE i = Len(stack)
      <4>1. IsPrefix(R[i].s, c.s) /\ R[i].s # c.s
        BY <1>2, <1>5, <3>1
      <4>2. ASSUME NEW m \in R[i].todo, IsPrefix(Append(R[i].s, m), c.s)
            PROVE  FALSE
        <5>1. m # n /\ m \in Top.todo
          BY <1>4, <1>5, <3>1, <4>2
        <5>2. m \in STRING
          BY <5>1, TopAt DEF WalkInv, FrameType
        <5>3. /\ Append(Top.s, m) \in Path /\ Len(Append(Top.s, m)) = Len(c.s) /\ c.s \in Path
              /\ Last(Append(Top.s, m)) = m
          BY <1>2, <5>2, AppendAt
        <5>4. Append(Top.s, m) = c.s
          BY <1>5, <3>1, <4>2, <5>3, PrefixAnti
        <5> QED
          BY <1>2, <5>1, <5>3, <5>4
      <4> QED
        BY <4>1, <4>2
    <3>2. CASE i # Len(stack)
      <4>1. i \in 1..(Len(stack) - 1) /\ i < Len(stack) /\ i \in 1..Len(stack) /\ Len(stack) \in 1..Len(stack)
        BY <1>4, <1>5, <3>2
      <4>2. /\ IsPrefix(stack[i].s, Top.s) /\ stack[i].s # Top.s
            /\ \A m \in stack[i].todo : ~IsPrefix(Append(stack[i].s, m), Top.s)
        BY <1>5, <4>1 DEF WalkInv, Walking
      <4>3. /\ stack[i].s \in Path /\ (\A m \in stack[i].todo : m \in STRING) /\ c.s \in Path /\ R[i] = stack[i]
        BY <1>2, <1>4, <4>1, TopAt DEF WalkInv, FrameType
      <4>4. IsPrefix(stack[i].s, c.s)
        BY <1>2, <4>2, <4>3, PrefixTrans
      <4>5. Len(stack[i].s) < Len(Top.s) /\ Len(Top.s) \in Nat /\ Len(stack[i].s) \in Nat
        BY <1>2, <4>2, <4>3, StrictLen, PathLen
      <4>6. stack[i].s # c.s
        BY <1>2, <4>3, <4>5, AppendAt
      <4>7. ASSUME NEW m \in stack[i].todo, IsPrefix(Append(stack[i].s, m), c.s)
            PROVE  FALSE
        <5>1. Append(stack[i].s, m) \in Path /\ Len(Append(stack[i].s, m)) = Len(stack[i].s) + 1
          BY <4>3, AppendAt
        <5>2. Len(Append(stack[i].s, m)) <= Len(Top.s)
          BY <4>5, <5>1
        <5>3. IsPrefix(Append(stack[i].s, m), Top.s)
          BY <1>2, <4>3, <4>7, <5>1, <5>2, PrefixChain
        <5> QED
          BY <4>2, <5>3
      <4> QED
        BY <4>3, <4>4, <4>6, <4>7
    <3> QED
      BY <3>1, <3>2
  <2>6. R # <<>>
    BY <1>4, <1>5, EmptySeq
  <2>7. Walking'
    <3> DEFINE f == Frame(c)
    <3>1. /\ f \in FrameType /\ FrameOf(f, ArgTask) /\ stack' = Append(R, f)
          /\ \A i \in 1..Len(R) : /\ IsPrefix(R[i].s, f.s) /\ R[i].s # f.s
                                  /\ \A m \in R[i].todo : ~IsPrefix(Append(R[i].s, m), f.s)
      BY <2>1, <2>4, <2>5
    <3> HIDE DEF f
    <3> QED
      BY <1>1, <1>2, <1>4, <2>6, <3>1, WalkingMore DEF WalkInv
  <2> QED
    BY <2>2, <2>3, <2>7 DEF WalkInv
<1>8. CASE /\ c.rel \notin Excluded /\ ~IsDir(Src, c.s) /\ Admitted(c.s)
           /\ kept' = kept \cup {c.rel}
           /\ cur' = c /\ pc' = "entry" /\ stack' = R
  <2>1. Control'
    BY <1>1, <1>2, <1>8 DEF WalkInv, Control, EntryStates
  <2>2. Walking'
    BY <1>1, <1>4, <1>8, WalkingLess DEF WalkInv
  <2>3. ArgTask' = ArgTask /\ Selected(ArgTask)' = Selected(ArgTask)
    BY <1>1, SameCommand DEF ArgTask
  <2>4. c.s \in Selected(ArgTask)
    BY <1>2, <1>8 DEF Selected
  <2>5. Top' = R[Len(stack)] /\ R # <<>>
    BY <1>4, <1>5, <1>8, EmptySeq DEF Top
  <2>6. Entry'
    BY <1>1, <1>2, <1>4, <1>5, <1>8, <2>3, <2>4, <2>5 DEF Entry
  <2> QED
    BY <2>1, <2>2, <2>6 DEF WalkInv
<1> QED
  BY <1>1, <1>6, <1>7, <1>8

LEMMA LeaveWalk ==
    ASSUME WalkInv, Leave
    PROVE  WalkInv'
<1>1. /\ pc = "walk" /\ pc' = pc /\ cmd' = cmd /\ isdir' = isdir /\ stack # <<>>
      /\ arg' = IF Len(stack) = 1 THEN arg + 1 ELSE arg
      /\ kept' = kept \/ kept' = kept \cup {IF Len(stack) = 1 THEN Rel(Top.d) ELSE Top.rel}
      /\ stack' = Front(stack) \/ (Len(stack) # 1 /\ stack' = [Front(stack) EXCEPT ![Len(Front(stack))].n = @ + 1])
  BY DEF Leave, Run
<1>2. /\ Len(stack) \in Nat \ {0} /\ Top \in FrameType /\ stack \in Seq(FrameType)
      /\ Front(stack) \in Seq(FrameType) /\ LessToDo(Front(stack), stack) /\ Len(Front(stack)) = Len(stack) - 1
  BY <1>1, TopAt, Left DEF WalkInv, Walking
<1>3. Top.d \in Path /\ Top.rel \in Path /\ Rel(Top.d) \in Path
  BY <1>2, RelType DEF FrameType
<1>4. Control'
  BY <1>1, <1>3 DEF WalkInv, Control
<1>5. Entry'
  BY <1>1 DEF Entry, Busy, EntryStates
<1>6. Walking'
  <2> DEFINE F == Front(stack)
  <2>1. CASE Len(stack) = 1
    BY <1>1, <1>2, <2>1, EmptySeq, WalkingNone
  <2>2. CASE Len(stack) # 1
    <3>1. F # <<>> /\ F[Len(F)].n + 1 \in Nat
      <4>1. Len(F) \in Nat \ {0} /\ F \in Seq(FrameType)
        BY <1>2, <2>2
      <4> HIDE DEF F
      <4>2. F # <<>> /\ Len(F) \in 1..Len(F)
        BY <4>1, EmptySeq
      <4>3. F[Len(F)] \in FrameType
        BY <4>1, <4>2, ElementOfSeq
      <4> QED
        BY <4>2, <4>3 DEF FrameType
    <3>2. CASE stack' = F
      BY <1>1, <1>2, <2>2, <3>2, WalkingLess DEF WalkInv
    <3>3. CASE stack' = [F EXCEPT ![Len(F)].n = F[Len(F)].n + 1]
      <4>1. stack' \in Seq(FrameType) /\ LessToDo(stack', F)
        <5>1. F \in Seq(FrameType)
          BY <1>2
        <5> HIDE DEF F
        <5> QED
          BY <3>1, <3>3, <5>1, Bumped
      <4>2. LessToDo(stack', stack)
        BY <1>2, <4>1, LessTrans
      <4> QED
        BY <1>1, <2>2, <4>1, <4>2, WalkingLess DEF WalkInv
    <3> QED
      BY <1>1, <3>2, <3>3
  <2> QED
    BY <2>1, <2>2
<1> QED
  BY <1>4, <1>5, <1>6 DEF WalkInv

LEMMA WalkStep ==
    ASSUME WalkInv, LocalNext
    PROVE  WalkInv'
<1>1. CASE EntryAction
  <2>1. CASE pc' \in EntryStates \ {"entry"} /\ UNCHANGED <<stack, kept, arg, cur>>
    BY <1>1, <2>1, EntryControl, OnwardWalk
  <2> QED
    BY <1>1, <2>1, EntryControl, DoneWalk
<1> QED
  BY <1>1, NextCases, StartWalk, KillWalk, DeleteWalk, EndWalkWalk, SkipArgWalk, DirArgWalk, FileArgWalk,
     VisitWalk, LeaveWalk

LEMMA WalkStart ==
    ASSUME LocalInit
    PROVE  WalkInv
<1>1. /\ cmd = NoCommand /\ isdir = FALSE /\ pc = "idle" /\ arg = 1 /\ stack = <<>> /\ kept = {}
  BY DEF LocalInit
<1>2. Entry
  BY <1>1 DEF Entry, Busy, EntryStates
<1>3. arg \in Nat \ {0} /\ isdir \in BOOLEAN /\ kept \subseteq Path
  <2>1. arg \in Nat \ {0}
    BY <1>1
  <2>2. isdir \in BOOLEAN
    BY <1>1
  <2>3. kept \subseteq Path
    BY <1>1
  <2> QED
    BY <2>1, <2>2, <2>3
<1>4. /\ pc \in EntryStates \cup {"idle", "walk", "delete", "done"} /\ ~(pc \in {"delete", "done"}) /\ ~(pc # "idle")
      /\ cmd \in Commands \cup {NoCommand}
  BY <1>1
<1>5. Control
  BY <1>1, <1>3, <1>4 DEF Control
<1> QED
  BY <1>1, <1>2, <1>5 DEF WalkInv, Walking

LEMMA WalkStutter ==
    ASSUME WalkInv, UNCHANGED localVars
    PROVE  WalkInv'
<1>1. /\ cmd' = cmd /\ isdir' = isdir /\ pc' = pc /\ arg' = arg /\ stack' = stack /\ kept' = kept /\ cur' = cur
  BY DEF localVars
<1>2. ArgTask' = ArgTask /\ \A t : Selected(t)' = Selected(t)
  BY <1>1, SameCommand DEF ArgTask
<1>3. Control' /\ Entry'
  BY <1>1, <1>2 DEF WalkInv, Control, Entry, Busy, Top
<1>4. Walking'
  <2>1. stack \in Seq(FrameType)
    BY DEF WalkInv, Walking
  <2> QED
    BY <1>1, <2>1, SameLess, WalkingLess DEF WalkInv
<1> QED
  BY <1>3, <1>4 DEF WalkInv

-----------------------------------------------------------------------------
(* How far the run has got.                                                *)

ComingIn(S, s) == \E j \in 1..Len(S) : \E n \in S[j].todo : IsPrefix(Append(S[j].s, n), s)

\* What the run has still to come to, and the source in hand.
Ahead(x) ==
    \/ x.k > arg
    \/ x.k = arg /\ pc = "walk" /\ stack = <<>>
    \/ x.k = arg /\ ComingIn(stack, x.s)

InHand(x) == Busy /\ x.k = arg /\ x.s = cur.s

Passed(x) == ~Ahead(x) /\ ~InHand(x)

\* Its place is not any more as the run has found it.
Late == {"special", "unlink", "symlink", "create", "fill", "rename", "meta"}

Treated(x) == ~Ahead(x) /\ (InHand(x) => pc \in Late)

Nested(S) ==
    /\ S \in Seq(FrameType)
    /\ \A i, j \in 1..Len(S) : i < j =>
          /\ IsPrefix(S[i].s, S[j].s) /\ S[i].s # S[j].s
          /\ \A n \in S[i].todo : ~IsPrefix(Append(S[i].s, n), S[j].s)

LEMMA NotComing ==
    ASSUME NEW S, Nested(S), S # <<>>, NEW s \in Path, IsPrefix(S[Len(S)].s, s),
           \A m \in S[Len(S)].todo : ~IsPrefix(Append(S[Len(S)].s, m), s)
    PROVE  ~ComingIn(S, s)
<1> SUFFICES ASSUME NEW j \in 1..Len(S), NEW n \in S[j].todo, IsPrefix(Append(S[j].s, n), s)
             PROVE  FALSE
  BY DEF ComingIn
<1>1. S \in Seq(FrameType) /\ Len(S) \in Nat /\ Len(S) # 0
  BY LenProperties, EmptySeq DEF Nested
<1>2. Len(S) \in 1..Len(S) /\ S[j] \in FrameType /\ S[Len(S)] \in FrameType
  BY <1>1, ElementOfSeq
<1>3. S[j].s \in Path /\ S[Len(S)].s \in Path /\ n \in STRING
  BY <1>2 DEF FrameType
<1>4. CASE j = Len(S)
  BY <1>4
<1>5. CASE j # Len(S)
  <2>1. j < Len(S)
    BY <1>1, <1>5
  <2>2. /\ IsPrefix(S[j].s, S[Len(S)].s) /\ S[j].s # S[Len(S)].s
        /\ ~IsPrefix(Append(S[j].s, n), S[Len(S)].s)
    BY <1>2, <2>1 DEF Nested
  <2>3. /\ Len(S[j].s) < Len(S[Len(S)].s) /\ Len(S[j].s) \in Nat /\ Len(S[Len(S)].s) \in Nat
        /\ Append(S[j].s, n) \in Path /\ Len(Append(S[j].s, n)) = Len(S[j].s) + 1
    BY <1>3, <2>2, StrictLen, PathLen, AppendAt
  <2> DEFINE a == Append(S[j].s, n)
             b == S[Len(S)].s
  <2>4. a \in Path /\ b \in Path /\ Len(a) <= Len(b) /\ IsPrefix(a, s) /\ IsPrefix(b, s)
    BY <1>3, <2>3
  <2> HIDE DEF a, b
  <2>5. IsPrefix(a, b)
    BY <2>4, PrefixChain
  <2> QED
    BY <2>2, <2>5 DEF a, b
<1> QED
  BY <1>4, <1>5

LEMMA ComingLess ==
    ASSUME NEW S \in Seq(FrameType), NEW T \in Seq(FrameType), LessToDo(S, T), NEW s, ComingIn(S, s)
    PROVE  ComingIn(T, s)
<1>1. Len(S) \in Nat /\ Len(T) \in Nat
  BY LenProperties
<1> QED
  BY <1>1 DEF ComingIn, LessToDo

LEMMA NoneComing == \A s : ~ComingIn(<<>>, s)
BY DEF ComingIn

\* Below a directory is what its frame has to do.
LEMMA FrameComing ==
    ASSUME NEW S \in Seq(FrameType), S # <<>>, NEW t, IsTask(t), NEW p \in Reached(t), S[Len(S)].s = p,
           \A n \in STRING : Append(p, n) \in DOMAIN Src => n \in S[Len(S)].todo,
           NEW q \in Reached(t), IsPrefix(p, q), q # p
    PROVE  ComingIn(S, q)
<1>1. p \in Path /\ q \in Path /\ q \in DOMAIN Src /\ IsPrefix(t.s, p)
  BY ReachedAt
<1>2. Len(p) < Len(q) /\ Len(p) \in Nat /\ Len(q) \in Nat /\ Len(p) + 1 \in 0..Len(q)
  BY <1>1, StrictLen, PathLen
<1> DEFINE c == SubSeq(q, 1, Len(p) + 1)
           n == q[Len(p) + 1]
<1>3. /\ c \in Path /\ Len(c) = Len(p) + 1 /\ IsPrefix(c, q) /\ \A i \in 1..(Len(p) + 1) : c[i] = q[i]
  BY <1>1, <1>2, CutAt
<1>4. n \in STRING
  BY <1>1, <1>2, PathLen
<1> HIDE DEF c
<1>5. c = Append(p, n)
  <2>1. /\ Append(p, n) \in Path /\ Len(Append(p, n)) = Len(p) + 1
        /\ \A i \in 1..Len(p) : Append(p, n)[i] = p[i]
        /\ Append(p, n)[Len(p) + 1] = n
    BY <1>1, <1>4, AppendAt
  <2>2. \A i \in 1..Len(p) : p[i] = q[i]
    BY <1>1, PrefixAt
  <2>3. \A i \in 1..Len(c) : c[i] = Append(p, n)[i]
    <3> TAKE i \in 1..Len(c)
    <3>1. CASE i <= Len(p)
      BY <1>2, <1>3, <2>1, <2>2, <3>1
    <3>2. CASE i = Len(p) + 1
      BY <1>3, <2>1, <3>2
    <3> QED
      BY <1>2, <1>3, <3>1, <3>2
  <2> QED
    BY <1>3, <2>1, <2>3, PathEqual, ZenonT(60)
<1> HIDE DEF n
<1>6. Append(p, n) \in DOMAIN Src
  BY <1>3, <1>4, <1>5, ReachedBelow
<1>7. n \in S[Len(S)].todo
  BY <1>4, <1>6
<1>8. Len(S) \in 1..Len(S)
  BY LenProperties, EmptySeq
<1> QED
  BY <1>3, <1>5, <1>7, <1>8 DEF ComingIn

LEMMA StackNested ==
    ASSUME Walking
    PROVE  Nested(stack)
BY DEF Walking, Nested

\* What is in hand is not ahead any more.
LEMMA CurNotAhead ==
    ASSUME WalkInv, Busy
    PROVE  ~Ahead(CurItem) /\ ~ComingIn(stack, cur.s)
<1>1. CurItem.k = arg /\ CurItem.s = cur.s /\ arg \in Nat /\ pc # "walk" /\ cur.s \in Path
  BY CurAt, ItemAt DEF WalkInv, Control, Busy, EntryStates
<1>2. ~ComingIn(stack, cur.s)
  <2>1. CASE stack = <<>>
    BY <2>1, NoneComing
  <2>2. CASE stack # <<>>
    <3>1. Nested(stack)
      BY StackNested DEF WalkInv
    <3>2. cur.s # <<>> /\ Front(cur.s) = Top.s /\ Last(cur.s) \notin Top.todo /\ Top = stack[Len(stack)]
      BY <2>2 DEF WalkInv, Entry, Top
    <3>3. Top.s \in Path /\ \A m \in Top.todo : m \in STRING
      BY <2>2, TopAt DEF WalkInv, FrameType
    <3>4. IsPrefix(Top.s, cur.s) /\ Append(Top.s, Last(cur.s)) = cur.s /\ Last(cur.s) \in STRING
      BY <1>1, <3>2, FrontAt
    <3>5. ASSUME NEW m \in Top.todo, IsPrefix(Append(Top.s, m), cur.s)
          PROVE  FALSE
      <4>1. Append(Top.s, m) \in Path /\ Len(Append(Top.s, m)) = Len(cur.s) /\ Last(Append(Top.s, m)) = m
        <5>1. Len(Append(Top.s, m)) = Len(Top.s) + 1 /\ Len(Append(Top.s, Last(cur.s))) = Len(Top.s) + 1
          BY <3>3, <3>4, AppendAt
        <5> QED
          BY <3>3, <3>4, <5>1, AppendAt
      <4>2. Append(Top.s, m) = cur.s
        BY <1>1, <3>5, <4>1, PrefixAnti
      <4> QED
        BY <3>2, <4>1, <4>2
    <3> QED
      BY <1>1, <2>2, <3>1, <3>2, <3>4, <3>5, NotComing
  <2> QED
    BY <2>1, <2>2
<1> QED
  BY <1>1, <1>2 DEF Ahead

LEMMA InHandIs ==
    ASSUME WalkInv, NEW x \in AllReached
    PROVE  InHand(x) <=> Busy /\ x = CurItem
<1>1. x.k \in DOMAIN cmd.args /\ x.d = Place(Task(cmd.args[x.k]), x.s) /\ x = [k |-> x.k, s |-> x.s, d |-> x.d]
  BY ReachedAre
<1>2. ASSUME InHand(x)
      PROVE  Busy /\ x = CurItem
  BY <1>1, <1>2 DEF InHand, WalkInv, Entry, ArgTask, CurItem
<1>3. ASSUME Busy, x = CurItem
      PROVE  InHand(x)
  BY <1>3 DEF InHand, CurItem
<1> QED
  BY <1>2, <1>3

\* A file argument reaches itself alone.
LEMMA OnlyArg ==
    ASSUME cmd \in Commands \cup {NoCommand}, NEW x \in AllReached,
           ~IsDir(Src, Task(cmd.args[x.k]).s) \/ ~Given("recursive")
    PROVE  x.s = Task(cmd.args[x.k]).s
<1> DEFINE t == Task(cmd.args[x.k])
<1>1. x.s \in Reached(t) /\ IsTask(t) /\ x.s \in DOMAIN Src /\ IsPrefix(t.s, x.s)
  BY ReachedAre, ItemAt
<1>2. CASE ~IsDir(Src, t.s)
  BY <1>1, <1>2, FileAlone, LocalAssumption DEF IsTask
<1>3. CASE ~Given("recursive")
  BY <1>1, <1>3 DEF Reached
<1> QED
  BY <1>2, <1>3

LEMMA EntryOnward ==
    ASSUME WalkInv, EntryAction, pc' \in EntryStates, NEW x
    PROVE  /\ Ahead(x)' <=> Ahead(x)
           /\ InHand(x)' <=> InHand(x)
           /\ pc' # "entry" /\ Busy' /\ UNCHANGED <<stack, kept, arg, cur>>
<1>1. pc' # "walk" /\ pc # "walk"
  BY EntryControl DEF EntryStates, Busy
<1>2. Busy /\ pc' \in EntryStates \ {"entry"} /\ UNCHANGED <<stack, kept, arg, cur>>
  BY <1>1, EntryControl DEF EntryDone
<1> QED
  BY <1>1, <1>2 DEF Ahead, InHand, Busy

LEMMA EntryFinished ==
    ASSUME WalkInv, EntryAction, pc' \notin EntryStates, NEW x \in AllReached
    PROVE  /\ Ahead(x)' <=> Ahead(x)
           /\ ~InHand(x)' /\ EntryDone /\ pc' = "walk"
<1>1. Busy /\ EntryDone /\ Run /\ pc # "walk" /\ pc' = "walk" /\ arg \in Nat \ {0} /\ cmd \in Commands
  BY EntryControl DEF EntryStates, Busy, WalkInv, Control, EntryDone
<1>2. ~Busy'
  BY DEF Busy
<1>3. x.k \in Nat
  BY <1>1, ItemAt
<1>4. CASE stack = <<>>
  <2>1. stack' = <<>> /\ arg' = arg + 1
    BY <1>1, <1>4 DEF EntryDone
  <2>2. \A s : ~ComingIn(stack, s) /\ ~ComingIn(stack', s)
    BY <1>4, <2>1, NoneComing
  <2> QED
    BY <1>1, <1>2, <1>3, <1>4, <2>1, <2>2 DEF Ahead, InHand
<1>5. CASE stack # <<>>
  <2>1. stack \in Seq(FrameType) /\ Top.n + 1 \in Nat /\ Top = stack[Len(stack)] /\ Len(stack) \in Nat \ {0}
    BY <1>5, TopAt DEF WalkInv, FrameType, Walking
  <2>2. stack' = [stack EXCEPT ![Len(stack)].n = Top.n + 1] /\ arg' = arg
    BY <1>1, <1>5 DEF EntryDone, Top
  <2>3. /\ stack' \in Seq(FrameType) /\ LessToDo(stack', stack) /\ Len(stack') = Len(stack)
        /\ \A j \in 1..Len(stack) : stack'[j].todo = stack[j].todo
    <3> DEFINE m == Top.n + 1
               R == [stack EXCEPT ![Len(stack)].n = m]
    <3>1. stack' = R
      BY <2>2
    <3>2. m \in Nat
      BY <2>1
    <3> HIDE DEF m
    <3>3. /\ R \in Seq(FrameType) /\ LessToDo(R, stack) /\ Len(R) = Len(stack)
          /\ \A j \in 1..Len(stack) : R[j].todo = stack[j].todo
      BY <1>5, <2>1, <3>2, Bumped
    <3> HIDE DEF R
    <3> QED
      BY <3>1, <3>3
  <2>4. ComingIn(stack', x.s) <=> ComingIn(stack, x.s)
    BY <2>3 DEF ComingIn, LessToDo
  <2>5. stack' # <<>>
    BY <2>1, <2>3, EmptySeq
  <2> QED
    BY <1>1, <1>2, <1>3, <1>5, <2>2, <2>4, <2>5 DEF Ahead, InHand
<1> QED
  BY <1>1, <1>4, <1>5

WalkAction ==
    \/ SkipArg \/ DirArg \/ FileArg \/ Leave \/ EndWalk
    \/ stack # <<>> /\ \E n \in Top.todo : Visit(n)
    \/ (\E p \in DOMAIN dst : Delete(p)) \/ EndDelete

\* The step makes the directory x.
Made(x) ==
    /\ IsDir(Src, x.s) /\ x.k = arg
    /\ Wet => CanMkDirs(dst, x.d)
    /\ dst' = IF Wet THEN MkDirs(dst, x.d) ELSE dst
    /\ Rel(x.d) \in kept' \/ (arg' = arg /\ stack' # <<>> /\ stack'[Len(stack')].s = x.s)

\* What a step of the walk does to the order.
Advance(x) ==
    /\ Ahead(x)' => Ahead(x)
    /\ ~InHand(x)
    /\ InHand(x)' => Ahead(x)
    /\ Ahead(x) /\ ~Ahead(x)' /\ ~InHand(x)' => Made(x) \/ x \notin AllCopies

LEMMA SkipArgAhead ==
    ASSUME WalkInv, SkipArg, NEW x \in AllReached
    PROVE  Advance(x)
<1>1. /\ pc = "walk" /\ pc' = "walk" /\ stack = <<>> /\ stack' = <<>> /\ arg' = arg + 1 /\ AtArg /\ arg \in Nat
      /\ cmd \in Commands
  BY DEF SkipArg, AtArg, Run, WalkInv, Control
<1>2. ~Busy /\ ~Busy'
  BY <1>1 DEF Busy, EntryStates
<1>3. ~InHand(x) /\ ~InHand(x)'
  BY <1>2 DEF InHand
<1>4. x.k \in Nat /\ ~ComingIn(stack, x.s) /\ ~ComingIn(stack', x.s)
  BY <1>1, NoneComing, ItemAt
<1>5. Ahead(x)' => Ahead(x)
  BY <1>1, <1>4 DEF Ahead
<1>6. ASSUME Ahead(x), ~Ahead(x)'
      PROVE  Made(x) \/ x \notin AllCopies
  <2>1. x.k = arg
    BY <1>1, <1>4, <1>6 DEF Ahead
  <2> DEFINE listed == cmd.kind = "files_from"
             t == ArgTask
  <2>2. /\ x.s \in Reached(t) /\ x.d = Place(t, x.s) /\ IsTask(t) /\ t.s \in DOMAIN Src /\ x.s \in DOMAIN Src
        /\ IsDir(Src, x.s) \/ Admitted(x.s)
    BY <1>1, <2>1, ReachedAre, ArgIs, ReachedAt DEF ArgTask
  <2>3. \/ t.s \notin DOMAIN Src
        \/ /\ IsDir(Src, t.s) /\ ~Given("recursive")
           /\ listed /\ Wet => CanMkDirs(dst, t.d)
           /\ dst' = IF listed /\ Wet THEN MkDirs(dst, t.d) ELSE dst
           /\ kept' = IF listed THEN kept \cup {Rel(t.d)} ELSE kept
        \/ t.s \in DOMAIN Src /\ ~IsDir(Src, t.s) /\ ~Admitted(t.s)
    BY DEF SkipArg, ArgTask
  <2>4. x.s = t.s
    BY <1>1, <2>1, <2>2, <2>3, OnlyArg DEF ArgTask
  <2>5. IsDir(Src, t.s) /\ ~Given("recursive")
    BY <2>2, <2>3, <2>4
  <2>6. x.d = t.d
    BY <2>2, <2>4, PlaceSelf
  <2>7. CASE listed
    BY <2>1, <2>2, <2>3, <2>4, <2>5, <2>6, <2>7 DEF Made
  <2>8. CASE ~listed
    <3>1. x.s \notin Selected(Task(cmd.args[x.k]))
      BY <2>4, <2>5, <2>8 DEF Selected
    <3> QED
      BY <3>1, CopyIs
  <2> QED
    BY <2>7, <2>8
<1> QED
  BY <1>3, <1>5, <1>6 DEF Advance

\* A directory is entered.
LEMMA EnterAhead ==
    ASSUME WalkInv, WalkInv', NEW x \in AllReached, NEW above \in Seq(FrameType), LessToDo(above, stack),
           NEW c \in [s : Path, d : Path, rel : Path],
           pc = "walk", arg' = arg, cmd' = cmd, isdir' = isdir, arg \in DOMAIN cmd.args, Enter(c, above),
           c.s \in Reached(ArgTask), c.d = Place(ArgTask, c.s), c.rel = RelOf(ArgTask, c.s),
           x.k = arg => (Ahead(x) <=> IsPrefix(c.s, x.s) \/ ComingIn(above, x.s))
    PROVE  Advance(x)
<1>1. /\ IsDir(Src, c.s) /\ stack' = Append(above, Frame(c)) /\ pc' = "walk"
      /\ Wet => CanMkDirs(dst, c.d)
      /\ dst' = IF Wet THEN MkDirs(dst, c.d) ELSE dst
  BY DEF Enter
<1>2. ~Busy /\ ~Busy'
  BY <1>1 DEF Busy, EntryStates
<1>3. ~InHand(x) /\ ~InHand(x)'
  BY <1>2 DEF InHand
<1>4. /\ IsTask(ArgTask) /\ arg \in Nat /\ x.k \in Nat /\ x.s \in Path
      /\ x.k = arg => x.s \in Reached(ArgTask) /\ x.d = Place(ArgTask, x.s)
  BY TaskAt, ItemAt, ReachedAre DEF ArgTask, WalkInv, Control
<1> DEFINE f == Frame(c)
<1>5. f \in FrameType /\ f.s = c.s /\ \A n \in STRING : n \in f.todo <=> Append(c.s, n) \in DOMAIN Src
  BY <1>1, <1>4, FrameIs
<1> HIDE DEF f
<1>6. /\ stack' \in Seq(FrameType) /\ Len(stack') = Len(above) + 1 /\ Len(above) \in Nat
      /\ \A j \in 1..Len(above) : stack'[j] = above[j]
      /\ stack'[Len(stack')] = f
  BY <1>1, <1>5, AppendProperties, LenProperties DEF f
<1>7. stack' # <<>>
  BY <1>6, EmptySeq
<1>8. ASSUME ComingIn(above, x.s)
      PROVE  ComingIn(stack', x.s)
  <2>1. PICK j \in 1..Len(above) : \E n \in above[j].todo : IsPrefix(Append(above[j].s, n), x.s)
    BY <1>8 DEF ComingIn
  <2>2. j \in 1..Len(stack') /\ stack'[j] = above[j]
    BY <1>6, <2>1
  <2> QED
    BY <2>1, <2>2 DEF ComingIn
<1>9. ASSUME x.k = arg, IsPrefix(c.s, x.s), x.s # c.s
      PROVE  ComingIn(stack', x.s)
  BY <1>4, <1>5, <1>6, <1>7, <1>9, FrameComing
<1>10. ASSUME Ahead(x)'
       PROVE  Ahead(x)
  <2>1. CASE x.k > arg
    BY <2>1 DEF Ahead
  <2>2. CASE ~(x.k > arg)
    <3>1. x.k = arg /\ ComingIn(stack', x.s)
      BY <1>7, <1>10, <2>2 DEF Ahead
    <3>2. PICK j \in 1..Len(stack') : \E n \in stack'[j].todo : IsPrefix(Append(stack'[j].s, n), x.s)
      BY <3>1 DEF ComingIn
    <3>3. CASE j \in 1..Len(above)
      <4>1. ComingIn(above, x.s)
        BY <1>6, <3>2, <3>3 DEF ComingIn
      <4>2. ComingIn(stack, x.s)
        BY <4>1, ComingLess DEF WalkInv, Walking
      <4> QED
        BY <3>1, <4>2 DEF Ahead
    <3>4. CASE j \notin 1..Len(above)
      <4>1. stack'[j] = f
        BY <1>6, <3>4
      <4>2. PICK n \in f.todo : IsPrefix(Append(c.s, n), x.s)
        BY <1>5, <3>2, <4>1
      <4>3. n \in STRING /\ c.s \in Path
        BY <1>5 DEF FrameType
      <4>4. IsPrefix(c.s, x.s)
        BY <1>4, <4>2, <4>3, AppendAt, PrefixTrans
      <4> QED
        BY <3>1, <4>4
    <3> QED
      BY <3>3, <3>4
  <2> QED
    BY <2>1, <2>2
<1>11. ASSUME Ahead(x), ~Ahead(x)'
       PROVE  Made(x)
  <2>1. x.k = arg
    BY <1>1, <1>4, <1>11 DEF Ahead
  <2>2. x.s = c.s
    BY <1>8, <1>9, <1>11, <2>1 DEF Ahead
  <2>3. x.d = c.d /\ stack'[Len(stack')].s = x.s
    BY <1>4, <1>5, <1>6, <2>1, <2>2
  <2> QED
    BY <1>1, <1>7, <2>1, <2>2, <2>3 DEF Made
<1> QED
  BY <1>3, <1>10, <1>11 DEF Advance

LEMMA DirArgAhead ==
    ASSUME WalkInv, WalkInv', DirArg, NEW x \in AllReached
    PROVE  Advance(x)
<1>1. /\ pc = "walk" /\ stack = <<>> /\ arg' = arg /\ cmd' = cmd /\ isdir' = isdir /\ AtArg
      /\ Enter(ArgTask, <<>>) /\ IsDir(Src, ArgTask.s)
  BY DEF DirArg, AtArg, Run, ArgTask, Enter
<1>2. arg \in DOMAIN cmd.args /\ IsTask(ArgTask) /\ ArgTask.s \in Reached(ArgTask)
  BY <1>1, ArgIs DEF IsDir
<1>3. ArgTask.d = Place(ArgTask, ArgTask.s) /\ ArgTask.rel = RelOf(ArgTask, ArgTask.s)
  BY <1>2, PlaceSelf
<1>4. ArgTask \in [s : Path, d : Path, rel : Path]
  BY <1>2, TaskFields DEF ArgTask, IsTask
<1>5. <<>> \in Seq(FrameType) /\ LessToDo(<<>>, stack)
  BY <1>1, EmptySeq, SameLess
<1>6. x.k = arg => Ahead(x) /\ IsPrefix(ArgTask.s, x.s)
  BY <1>1, ReachedAre, <1>2, ReachedAt DEF Ahead, ArgTask
<1> QED
  BY <1>1, <1>2, <1>3, <1>4, <1>5, <1>6, EnterAhead

LEMMA FileArgAhead ==
    ASSUME WalkInv, FileArg, NEW x \in AllReached
    PROVE  Advance(x)
<1>1. /\ pc = "walk" /\ pc' = "entry" /\ stack = <<>> /\ stack' = <<>> /\ arg' = arg /\ AtArg /\ cur' = ArgTask
      /\ ~IsDir(Src, ArgTask.s) /\ cmd \in Commands /\ arg \in Nat
  BY DEF FileArg, AtArg, Run, ArgTask, WalkInv, Control
<1>2. ~Busy /\ Busy'
  BY <1>1 DEF Busy, EntryStates
<1>3. x.k \in Nat /\ ~ComingIn(stack', x.s)
  BY <1>1, ItemAt, NoneComing
<1>4. Ahead(x)' => Ahead(x)
  BY <1>1, <1>3 DEF Ahead
<1>5. InHand(x)' => Ahead(x)
  BY <1>1 DEF InHand, Ahead
<1>6. ASSUME Ahead(x), ~Ahead(x)'
      PROVE  InHand(x)'
  <2>1. x.k = arg
    BY <1>1, <1>3, <1>6 DEF Ahead
  <2>2. x.s = ArgTask.s
    BY <1>1, <2>1, OnlyArg DEF ArgTask
  <2> QED
    BY <1>1, <1>2, <2>1, <2>2 DEF InHand
<1> QED
  BY <1>2, <1>4, <1>5, <1>6 DEF Advance, InHand

\* A visit takes one name out of what is to be done.
LEMMA VisitComing ==
    ASSUME WalkInv, stack # <<>>, NEW n \in Top.todo, NEW s
    PROVE  LET R == [stack EXCEPT ![Len(stack)].todo = @ \ {n}]
           IN  ComingIn(stack, s) <=> IsPrefix(Append(Top.s, n), s) \/ ComingIn(R, s)
<1> DEFINE R == [stack EXCEPT ![Len(stack)].todo = @ \ {n}]
<1>1. stack \in Seq(FrameType) /\ Len(stack) \in Nat \ {0} /\ Top = stack[Len(stack)]
  BY TopAt DEF WalkInv, Walking
<1>2. /\ R \in Seq(FrameType) /\ LessToDo(R, stack) /\ Len(R) = Len(stack)
      /\ R[Len(stack)].todo = stack[Len(stack)].todo \ {n}
      /\ \A j \in 1..(Len(stack) - 1) : R[j] = stack[j]
  BY <1>1, Visited
<1> HIDE DEF R
<1>3. ASSUME ComingIn(R, s)
      PROVE  ComingIn(stack, s)
  BY <1>1, <1>2, <1>3, ComingLess
<1>4. ASSUME IsPrefix(Append(Top.s, n), s)
      PROVE  ComingIn(stack, s)
  <2>1. Len(stack) \in 1..Len(stack)
    BY <1>1
  <2> QED
    BY <1>1, <1>4, <2>1 DEF ComingIn
<1>5. ASSUME ComingIn(stack, s)
      PROVE  IsPrefix(Append(Top.s, n), s) \/ ComingIn(R, s)
  <2>0. PICK j \in 1..Len(stack) : \E m \in stack[j].todo : IsPrefix(Append(stack[j].s, m), s)
    BY <1>5 DEF ComingIn
  <2>1. PICK m \in stack[j].todo : IsPrefix(Append(stack[j].s, m), s)
    BY <2>0
  <2>2. R[j].s = stack[j].s /\ j \in 1..Len(R)
    BY <1>2 DEF LessToDo
  <2>3. CASE j = Len(stack) /\ m = n
    BY <1>1, <2>1, <2>3
  <2>4. CASE ~(j = Len(stack) /\ m = n)
    <3>1. m \in R[j].todo
      <4>1. CASE j = Len(stack)
        BY <1>2, <2>1, <2>4, <4>1
      <4>2. CASE j # Len(stack)
        <5>1. j \in 1..(Len(stack) - 1)
          BY <1>1, <4>2
        <5> QED
          BY <1>2, <2>1, <5>1
      <4> QED
        BY <4>1, <4>2
    <3> QED
      BY <2>1, <2>2, <3>1 DEF ComingIn
  <2> QED
    BY <2>3, <2>4
<1> QED
  BY <1>3, <1>4, <1>5 DEF R

LEMMA VisitAhead ==
    ASSUME WalkInv, WalkInv', stack # <<>>, NEW n \in Top.todo, Visit(n), NEW x \in AllReached
    PROVE  Advance(x)
<1> DEFINE c == [s |-> Append(Top.s, n), d |-> Append(Top.d, n), rel |-> Append(Top.rel, n)]
           R == [stack EXCEPT ![Len(stack)].todo = @ \ {n}]
<1>1. /\ pc = "walk" /\ arg' = arg /\ cmd' = cmd /\ isdir' = isdir /\ Run
      /\ \/ /\ c.rel \in Excluded \/ (~IsDir(Src, c.s) /\ ~Admitted(c.s))
            /\ stack' = R /\ pc' = pc
         \/ c.rel \notin Excluded /\ Enter(c, R)
         \/ /\ c.rel \notin Excluded /\ ~IsDir(Src, c.s) /\ Admitted(c.s)
            /\ cur' = c /\ pc' = "entry" /\ stack' = R
  BY DEF Visit, Run
<1>2. /\ IsTask(ArgTask) /\ arg \in DOMAIN cmd.args /\ Given("recursive")
      /\ Top.s \in Path /\ n \in STRING /\ Top.s \in Reached(ArgTask)
      /\ c \in [s : Path, d : Path, rel : Path] /\ c.s \in DOMAIN Src
      /\ c.s \in Reached(ArgTask) <=> c.rel \notin Excluded
      /\ c.d = Place(ArgTask, c.s) /\ c.rel = RelOf(ArgTask, c.s)
      /\ c.s = Append(Top.s, n)
  BY ChildAt
<1>3. /\ stack \in Seq(FrameType) /\ R \in Seq(FrameType) /\ LessToDo(R, stack) /\ Len(R) = Len(stack)
  BY Visited DEF WalkInv, Walking
<1>4. \A s : ComingIn(stack, s) <=> IsPrefix(c.s, s) \/ ComingIn(R, s)
  BY <1>2, VisitComing
<1>4a. R # <<>>
  BY <1>3, EmptySeq, LenProperties
<1> HIDE DEF c, R
<1>5. cmd \in Commands /\ x.k \in Nat /\ arg \in Nat
  BY <1>1, ItemAt DEF WalkInv, Control
<1>6. x.k = arg => (Ahead(x) <=> ComingIn(stack, x.s))
  BY <1>5 DEF Ahead
<1>7. x.k = arg => x.s \in Reached(ArgTask) /\ (IsDir(Src, x.s) \/ Admitted(x.s)) /\ x.s \in DOMAIN Src
  BY <1>5, ReachedAre, ItemAt DEF ArgTask
<1>8. CASE /\ c.rel \in Excluded \/ (~IsDir(Src, c.s) /\ ~Admitted(c.s))
           /\ stack' = R /\ pc' = pc
  <2>1. ~Busy /\ ~Busy'
    BY <1>1, <1>8 DEF Busy, EntryStates
  <2>2. x.k = arg => ~IsPrefix(c.s, x.s)
    <3> SUFFICES ASSUME x.k = arg, IsPrefix(c.s, x.s)
                 PROVE  FALSE
      OBVIOUS
    <3>1. c.s \in Reached(ArgTask)
      BY <1>2, <1>7, ReachedBelow
    <3>2. ~IsDir(Src, c.s) /\ ~Admitted(c.s)
      BY <1>2, <1>8, <3>1
    <3>3. x.s = c.s
      BY <1>2, <1>7, <3>2, FileAlone, LocalAssumption, SourceAt
    <3> QED
      BY <1>7, <3>2, <3>3
  <2>3. Ahead(x)' <=> Ahead(x)
    BY <1>1, <1>4, <1>4a, <1>5, <1>8, <2>2 DEF Ahead
  <2> QED
    BY <2>1, <2>3 DEF Advance, InHand
<1>9. CASE c.rel \notin Excluded /\ Enter(c, R)
  BY <1>1, <1>2, <1>3, <1>4, <1>6, <1>9, EnterAhead
<1>10. CASE /\ c.rel \notin Excluded /\ ~IsDir(Src, c.s) /\ Admitted(c.s)
            /\ cur' = c /\ pc' = "entry" /\ stack' = R
  <2>1. ~Busy /\ Busy'
    BY <1>1, <1>10 DEF Busy, EntryStates
  <2>2. x.k = arg /\ IsPrefix(c.s, x.s) => x.s = c.s
    BY <1>2, <1>7, <1>10, FileAlone, LocalAssumption, SourceAt
  <2>3. Ahead(x)' => Ahead(x)
    BY <1>1, <1>4, <1>4a, <1>5, <1>10 DEF Ahead
  <2>4. InHand(x)' => Ahead(x)
    <3>1. InHand(x)' => x.k = arg /\ x.s = c.s
      BY <1>1, <1>10 DEF InHand
    <3>2. IsPrefix(c.s, c.s)
      BY <1>2, PrefixRefl
    <3> QED
      BY <1>4, <1>6, <3>1, <3>2
  <2>5. Ahead(x) /\ ~Ahead(x)' => InHand(x)'
    <3> SUFFICES ASSUME Ahead(x), ~Ahead(x)'
                 PROVE  InHand(x)'
      OBVIOUS
    <3>1. x.k = arg /\ ComingIn(stack, x.s) /\ ~ComingIn(R, x.s)
      BY <1>1, <1>5, <1>10 DEF Ahead
    <3>2. x.s = c.s
      BY <1>4, <2>2, <3>1
    <3> QED
      BY <1>1, <1>10, <2>1, <3>1, <3>2 DEF InHand
  <2> QED
    BY <2>1, <2>3, <2>4, <2>5 DEF Advance, InHand
<1> QED
  BY <1>1, <1>8, <1>9, <1>10

\* The end of a directory passes nothing by.
LEMMA LeaveAhead ==
    ASSUME WalkInv, Leave, NEW x \in AllReached
    PROVE  (Ahead(x)' <=> Ahead(x)) /\ ~InHand(x)' /\ Advance(x)
<1>1. /\ pc = "walk" /\ pc' = pc /\ stack # <<>> /\ Top.todo = {}
      /\ arg' = IF Len(stack) = 1 THEN arg + 1 ELSE arg
      /\ stack' = Front(stack) \/ (Len(stack) # 1 /\ stack' = [Front(stack) EXCEPT ![Len(Front(stack))].n = @ + 1])
      /\ cmd \in Commands /\ arg \in Nat
  BY DEF Leave, Run, WalkInv, Control
<1>2. /\ Len(stack) \in Nat \ {0} /\ Top = stack[Len(stack)] /\ stack \in Seq(FrameType)
      /\ Front(stack) \in Seq(FrameType) /\ Len(Front(stack)) = Len(stack) - 1
      /\ \A j \in 1..(Len(stack) - 1) : Front(stack)[j] = stack[j]
  BY <1>1, TopAt, Left DEF WalkInv, Walking
<1>3. ~Busy /\ ~Busy'
  BY <1>1 DEF Busy, EntryStates
<1>4. x.k \in Nat
  BY <1>1, ItemAt
<1>5. Ahead(x)' <=> Ahead(x)
  <2>1. CASE Len(stack) = 1
    <3>1. stack' = <<>> /\ arg' = arg + 1
      BY <1>1, <1>2, <2>1, EmptySeq
    <3>2. ~ComingIn(stack, x.s) /\ ~ComingIn(stack', x.s)
      BY <1>1, <1>2, <2>1, <3>1 DEF ComingIn
    <3> QED
      BY <1>1, <1>4, <3>1, <3>2 DEF Ahead
  <2>2. CASE Len(stack) # 1
    <3> DEFINE F == Front(stack)
    <3>1. /\ F # <<>> /\ Len(F) \in 1..Len(F) /\ Len(F) \in Nat
          /\ \A j \in 1..Len(stack) : j \in 1..Len(F) \/ j = Len(stack)
          /\ \A j \in 1..Len(F) : j \in 1..Len(stack) /\ F[j] = stack[j]
      <4>1. Len(F) \in Nat \ {0} /\ Len(F) = Len(stack) - 1
        BY <1>2, <2>2
      <4>2. F # <<>>
        BY <4>1
      <4>3. \A j \in 1..Len(F) : j \in 1..Len(stack) /\ F[j] = stack[j]
        BY <1>2, <4>1
      <4>4. \A j \in 1..Len(stack) : j \in 1..Len(F) \/ j = Len(stack)
        BY <1>2, <4>1
      <4> QED
        BY <4>1, <4>2, <4>3, <4>4
    <3>2. ComingIn(F, x.s) <=> ComingIn(stack, x.s)
      <4> HIDE DEF F
      <4> QED
        BY <1>1, <1>2, <3>1 DEF ComingIn
    <3>3. /\ Len(stack') = Len(F) /\ \A j \in 1..Len(F) : stack'[j].todo = F[j].todo /\ stack'[j].s = F[j].s
      <4>1. CASE stack' = F
        BY <4>1
      <4>2. CASE stack' = [F EXCEPT ![Len(F)].n = F[Len(F)].n + 1]
        <5> DEFINE m == F[Len(F)].n + 1
                   R == [F EXCEPT ![Len(F)].n = m]
        <5>0. F \in Seq(FrameType)
          BY <1>2
        <5> HIDE DEF F
        <5>1. m \in Nat
          <6>1. F[Len(F)] \in FrameType
            BY <3>1, <5>0, ElementOfSeq
          <6>2. F[Len(F)].n \in Nat
            BY <6>1 DEF FrameType
          <6> QED
            BY <6>2
        <5>2. stack' = R
          BY <4>2
        <5> HIDE DEF m
        <5>3. /\ LessToDo(R, F) /\ Len(R) = Len(F) /\ \A j \in 1..Len(F) : R[j].todo = F[j].todo
          BY <3>1, <5>0, <5>1, Bumped
        <5> HIDE DEF R
        <5> QED
          BY <5>2, <5>3 DEF LessToDo
      <4> QED
        BY <1>1, <4>1, <4>2
    <3>4. ComingIn(stack', x.s) <=> ComingIn(F, x.s)
      BY <3>3 DEF ComingIn
    <3>5. stack' # <<>>
      BY <3>1, <3>3
    <3> QED
      BY <1>1, <2>2, <3>2, <3>4, <3>5 DEF Ahead
  <2> QED
    BY <2>1, <2>2
<1> QED
  BY <1>3, <1>5 DEF Advance, InHand

LEMMA EndAhead ==
    ASSUME WalkInv, EndWalk \/ (\E p \in DOMAIN dst : Delete(p)) \/ EndDelete, NEW x \in AllReached
    PROVE  ~Ahead(x) /\ ~Ahead(x)' /\ ~InHand(x)' /\ Advance(x)
<1>1. /\ pc \in {"walk", "delete"} /\ pc' \in {"delete", "done"} /\ stack' = stack /\ arg' = arg
      /\ stack = <<>> /\ arg > Len(cmd.args)
  BY DEF EndWalk, Delete, EndDelete, At, Run, WalkInv, Control
<1>2. x.k \in Nat /\ x.k <= Len(cmd.args) /\ arg \in Nat /\ Len(cmd.args) \in Nat
  BY ItemAt, ReachedAre, CommandType DEF WalkInv, Control
<1>3. ~Busy /\ ~Busy'
  BY <1>1 DEF Busy, EntryStates
<1>4. ~Ahead(x) /\ ~Ahead(x)'
  BY <1>1, <1>2, NoneComing DEF Ahead
<1> QED
  BY <1>3, <1>4 DEF Advance, InHand

LEMMA WalkAhead ==
    ASSUME WalkInv, WalkAction, WalkInv', NEW x \in AllReached
    PROVE  Advance(x)
BY SkipArgAhead, DirArgAhead, FileArgAhead, VisitAhead, LeaveAhead, EndAhead DEF WalkAction

-----------------------------------------------------------------------------
(* What becomes of the inodes and the contents of a tree.                  *)

\* What u has of t is as it is in t, and what it has besides are directories.
Keeps(t, u) ==
    /\ IsTree(u)
    /\ \A p \in DOMAIN u : IF p \in DOMAIN t THEN u[p] = t[p] ELSE u[p].k = "dir"

Tells(t) == \A p \in DOMAIN t : Telling(t[p])

\* Nodes that are taken over one by one, none that gets a temporary name, are
\* names of one file if they were.
LEMMA OneFileTaken ==
    ASSUME NEW t, OneFile(t), NEW u, NEW f,
           \A p \in DOMAIN u : \/ u[p].k = "dir"
                               \/ /\ f[p] \in DOMAIN t /\ u[p] = t[f[p]]
                                  /\ p # <<>> /\ Last(p) \in Range(TmpName) =>
                                        f[p] # <<>> /\ Last(f[p]) \in Range(TmpName),
           \A p, q \in DOMAIN u : p # q /\ u[p].k # "dir" /\ u[q].k # "dir" => f[p] # f[q]
    PROVE  OneFile(u)
<1>1. ASSUME NEW p \in DOMAIN u, NEW q \in DOMAIN u, SameFile(u[p], u[q])
      PROVE  u[p] = u[q]
  BY <1>1 DEF OneFile, SameFile
<1>2. ASSUME NEW p \in DOMAIN u, NEW r \in DOMAIN LinkDest, SameFile(u[p], LinkDest[r])
      PROVE  u[p] = LinkDest[r]
  BY <1>2 DEF OneFile, SameFile
<1>3. ASSUME NEW p \in DOMAIN u \ {<<>>}, Last(p) \in Range(TmpName)
      PROVE  Single(u, p)
  <2>1. CASE u[p].k = "dir"
    BY <2>1 DEF Single, SameFile
  <2>2. CASE u[p].k # "dir"
    <3>1. f[p] \in DOMAIN t \ {<<>>} /\ u[p] = t[f[p]] /\ Last(f[p]) \in Range(TmpName)
      BY <1>3, <2>2
    <3>2. Single(t, f[p])
      BY <3>1 DEF OneFile
    <3>3. \A q \in DOMAIN u \ {p} : ~SameFile(u[p], u[q])
      BY <2>2, <3>1, <3>2 DEF Single, SameFile
    <3> QED
      BY <3>1, <3>2, <3>3 DEF Single
  <2> QED
    BY <2>1, <2>2
<1> QED
  BY <1>1, <1>2, <1>3 DEF OneFile

LEMMA OneFileKept ==
    ASSUME NEW t, OneFile(t), NEW u, Keeps(t, u)
    PROVE  OneFile(u)
<1> DEFINE f == [p \in DOMAIN u |-> p]
<1>1. \A p \in DOMAIN u : f[p] = p
  OBVIOUS
<1> HIDE DEF f
<1>2. \A p \in DOMAIN u : u[p].k = "dir" \/ (p \in DOMAIN t /\ u[p] = t[p])
  BY DEF Keeps
<1> QED
  BY <1>1, <1>2, OneFileTaken

LEMMA TellsKept ==
    ASSUME NEW t, Tells(t), NEW u, Keeps(t, u)
    PROVE  Tells(u)
BY DEF Tells, Telling, Keeps

LEMMA KeepsSelf ==
    ASSUME NEW t, IsTree(t)
    PROVE  Keeps(t, t)
BY DEF Keeps

LEMMA KeepsMkDirs ==
    ASSUME NEW t, IsTree(t), NEW p \in Path, CanMkDirs(t, p)
    PROVE  Keeps(t, MkDirs(t, p))
<1> DEFINE u == MkDirs(t, p)
<1>1. /\ IsTree(u) /\ \A q \in DOMAIN t : u[q] = t[q]
      /\ \A q \in DOMAIN u : q \notin DOMAIN t => u[q] = DirNode
  BY MkDirsAt
<1> HIDE DEF u
<1>2. Keeps(t, u)
  BY <1>1, DirNodeType DEF Keeps
<1> QED
  BY <1>2 DEF u

LEMMA KeepsDrop ==
    ASSUME NEW t, IsTree(t), NEW P,
           \A p \in P : \A r \in DOMAIN t : p \in Path /\ IsPrefix(p, r) => r \in P
    PROVE  Keeps(t, Drop(t, P))
<1> DEFINE u == Drop(t, P)
<1>1. IsTree(u) /\ DOMAIN u = DOMAIN t \ P /\ \A q \in DOMAIN u : u[q] = t[q]
  BY DropAt
<1> HIDE DEF u
<1>2. Keeps(t, u)
  BY <1>1 DEF Keeps
<1> QED
  BY <1>2 DEF u

LEMMA KeepsUnlinked ==
    ASSUME NEW t, IsTree(t), NEW p \in Path
    PROVE  Keeps(t, Unlinked(t, p))
<1> DEFINE u == Unlinked(t, p)
<1>1. /\ IsTree(u) /\ DOMAIN u = (IF IsDir(t, p) THEN DOMAIN t ELSE DOMAIN t \ {p})
      /\ \A q \in DOMAIN u : u[q] = t[q]
  BY UnlinkedAt
<1> HIDE DEF u
<1>2. Keeps(t, u)
  BY <1>1 DEF Keeps
<1> QED
  BY <1>2 DEF u

LEMMA KeepsTrans ==
    ASSUME NEW t, NEW u, NEW v, Keeps(t, u), Keeps(u, v), IsTree(t), DOMAIN t \subseteq DOMAIN u
    PROVE  Keeps(t, v)
BY DEF Keeps

\* An empty directory, or a file, can be taken away alone.
LEMMA KeepsDropOne ==
    ASSUME NEW t, IsTree(t), NEW p \in Path, Children(t, p) = {} \/ ~IsDir(t, p)
    PROVE  /\ Keeps(t, Drop(t, {p})) /\ DOMAIN Drop(t, {p}) = DOMAIN t \ {p}
           /\ \A q \in DOMAIN t \ {p} : Drop(t, {p})[q] = t[q]
<1>1. \A r \in DOMAIN t : IsPrefix(p, r) => r = p
  BY FileAlone, ChildlessEmpty
<1> QED
  BY <1>1, KeepsDrop DEF Drop

\* A file under a name no other file has.
LEMMA OneFilePut ==
    ASSUME NEW t, OneFile(t), NEW p, NEW node, NEW u,
           DOMAIN u = DOMAIN t \cup {p}, u[p] = node, \A q \in DOMAIN t : q # p => u[q] = t[q],
           \/ /\ \A q \in DOMAIN t : q # p => ~SameFile(node, t[q])
              /\ \A r \in DOMAIN LinkDest : ~SameFile(node, LinkDest[r])
           \/ /\ Last(p) \notin Range(TmpName)
              /\ \/ \E q \in DOMAIN t \ {<<>>} : node = t[q] /\ Last(q) \notin Range(TmpName)
                 \/ \E r \in DOMAIN LinkDest : node = LinkDest[r]
    PROVE  OneFile(u)
<1>1. CASE /\ \A q \in DOMAIN t : q # p => ~SameFile(node, t[q])
           /\ \A r \in DOMAIN LinkDest : ~SameFile(node, LinkDest[r])
  <2>1. ASSUME NEW q \in DOMAIN u, NEW r \in DOMAIN u, SameFile(u[q], u[r])
        PROVE  u[q] = u[r]
    <3>1. CASE q # p /\ r # p
      BY <2>1, <3>1 DEF OneFile
    <3>2. CASE q = p \/ r = p
      <4>1. q = r
        BY <1>1, <2>1, <3>2 DEF SameFile
      <4> QED
        BY <4>1
    <3> QED
      BY <3>1, <3>2
  <2>2. ASSUME NEW q \in DOMAIN u, NEW r \in DOMAIN LinkDest, SameFile(u[q], LinkDest[r])
        PROVE  u[q] = LinkDest[r]
    BY <1>1, <2>2 DEF OneFile
  <2>3. ASSUME NEW q \in DOMAIN u \ {<<>>}, Last(q) \in Range(TmpName)
        PROVE  Single(u, q)
    <3>1. CASE q = p
      BY <1>1, <3>1 DEF Single, SameFile
    <3>2. CASE q # p
      <4>1. Single(t, q)
        BY <2>3, <3>2 DEF OneFile
      <4> QED
        BY <1>1, <3>2, <4>1 DEF Single, SameFile
    <3> QED
      BY <3>1, <3>2
  <2> QED
    BY <2>1, <2>2, <2>3 DEF OneFile
<1>2. ASSUME Last(p) \notin Range(TmpName), NEW s \in DOMAIN t \ {<<>>}, node = t[s], Last(s) \notin Range(TmpName)
      PROVE  OneFile(u)
  <2>1. ASSUME NEW q \in DOMAIN u, NEW r \in DOMAIN u, SameFile(u[q], u[r])
        PROVE  u[q] = u[r]
    BY <1>2, <2>1 DEF OneFile
  <2>2. ASSUME NEW q \in DOMAIN u, NEW r \in DOMAIN LinkDest, SameFile(u[q], LinkDest[r])
        PROVE  u[q] = LinkDest[r]
    BY <1>2, <2>2 DEF OneFile
  <2>3. ASSUME NEW q \in DOMAIN u \ {<<>>}, Last(q) \in Range(TmpName)
        PROVE  Single(u, q)
    <3>1. q # p /\ q # s /\ q \in DOMAIN t /\ u[q] = t[q] /\ Single(t, q)
      BY <1>2, <2>3 DEF OneFile
    <3> QED
      BY <1>2, <3>1 DEF Single
  <2> QED
    BY <2>1, <2>2, <2>3 DEF OneFile
<1>3. ASSUME Last(p) \notin Range(TmpName), NEW s \in DOMAIN LinkDest, node = LinkDest[s]
      PROVE  OneFile(u)
  <2>1. ASSUME NEW q \in DOMAIN u, NEW r \in DOMAIN u, SameFile(u[q], u[r])
        PROVE  u[q] = u[r]
    BY <1>3, <2>1 DEF OneFile, SameFile
  <2>2. ASSUME NEW q \in DOMAIN u, NEW r \in DOMAIN LinkDest, SameFile(u[q], LinkDest[r])
        PROVE  u[q] = LinkDest[r]
    BY <1>3, <2>2, InodesAssumption DEF OneFile
  <2>3. ASSUME NEW q \in DOMAIN u \ {<<>>}, Last(q) \in Range(TmpName)
        PROVE  Single(u, q)
    <3>1. q # p /\ q \in DOMAIN t /\ u[q] = t[q] /\ Single(t, q)
      BY <1>3, <2>3 DEF OneFile
    <3> QED
      BY <1>3, <3>1 DEF Single
  <2> QED
    BY <2>1, <2>2, <2>3 DEF OneFile
<1> QED
  BY <1>1, <1>2, <1>3

\* The one name of a file changes.
LEMMA OneFileSet ==
    ASSUME NEW t, OneFile(t), NEW p \in DOMAIN t, Single(t, p), NEW node, node.i = t[p].i, node.k = t[p].k, NEW u,
           DOMAIN u = DOMAIN t, u[p] = node, \A q \in DOMAIN t : q # p => u[q] = t[q]
    PROVE  OneFile(u)
<1>1. /\ \A q \in DOMAIN t : q # p => ~SameFile(node, t[q])
      /\ \A r \in DOMAIN LinkDest : ~SameFile(node, LinkDest[r])
  BY DEF Single, SameFile
<1>2. DOMAIN u = DOMAIN t \cup {p}
  OBVIOUS
<1> QED
  BY <1>1, <1>2, OneFilePut

\* A rename keeps the names of a file together.
LEMMA OneFileRenamed ==
    ASSUME NEW t, IsTree(t), OneFile(t), NEW p \in Path, NEW q \in Path, p # q, Len(p) = Len(q), p # <<>>,
           CanRename(t, p, q), Front(q) = Front(p), Last(q) \notin Range(TmpName)
    PROVE  LET u == Renamed(t, p, q)
           IN  /\ OneFile(u) /\ IsTree(u)
               /\ Single(t, p) => Single(u, q)
               /\ Tells(t) => Tells(u)
<1> DEFINE u == Renamed(t, p, q)
<1>1. \/ u = t /\ q \in DOMAIN t /\ SameFile(t[p], t[q])
      \/ /\ IsTree(u)
         /\ p \in DOMAIN t => ~(q \in DOMAIN t /\ SameFile(t[p], t[q]))
         /\ \A r \in Path : ~IsPrefix(p, r) /\ ~IsPrefix(q, r) =>
               (r \in DOMAIN u <=> r \in DOMAIN t) /\ (r \in DOMAIN t => u[r] = t[r])
         /\ \A r \in Path : IsPrefix(p, r) => r \notin DOMAIN u
         /\ \A r \in Path : IsPrefix(q, r) =>
               /\ r \in DOMAIN u <=> Other(q, p, r) \in DOMAIN t
               /\ r \in DOMAIN u => u[r] = t[Other(q, p, r)]
  BY RenamedAt
<1>0. p \in DOMAIN t
  BY DEF CanRename
<1> HIDE DEF u
<1>2. ASSUME u = t, q \in DOMAIN t, SameFile(t[p], t[q])
      PROVE  OneFile(u) /\ IsTree(u) /\ (Single(t, p) => Single(u, q)) /\ (Tells(t) => Tells(u))
  BY <1>0, <1>2 DEF Single
<1>3. ASSUME ~(u = t /\ q \in DOMAIN t /\ SameFile(t[p], t[q]))
      PROVE  OneFile(u) /\ IsTree(u) /\ (Single(t, p) => Single(u, q)) /\ (Tells(t) => Tells(u))
  <2> DEFINE f == [r \in DOMAIN u |-> IF IsPrefix(q, r) THEN Other(q, p, r) ELSE r]
  <2>1. \A r \in DOMAIN u : r \in Path /\ (IsPrefix(q, r) => f[r] = Other(q, p, r)) /\ (~IsPrefix(q, r) => f[r] = r)
    BY <1>1, <1>3 DEF IsTree
  <2> HIDE DEF f
  <2>2. \A r \in DOMAIN u : f[r] \in DOMAIN t /\ u[r] = t[f[r]] /\ ~IsPrefix(p, r)
    BY <1>1, <1>3, <2>1
  <2>3. \A r \in DOMAIN u : IsPrefix(q, r) => IsPrefix(p, f[r]) /\ Other(p, q, f[r]) = r
    BY <2>1, OtherAt
  <2>4. \A r, s \in DOMAIN u : r # s => f[r] # f[s]
    BY <2>1, <2>2, <2>3
  <2>5. ASSUME NEW r \in DOMAIN u, r # <<>>, Last(r) \in Range(TmpName)
        PROVE  f[r] # <<>> /\ Last(f[r]) \in Range(TmpName)
    <3>1. CASE ~IsPrefix(q, r)
      BY <2>1, <2>5, <3>1
    <3>2. CASE IsPrefix(q, r)
      <4>1. r # q /\ r \in Path
        BY <2>1, <2>5
      <4>2. Len(q) < Len(r) /\ Len(q) \in Nat /\ Len(r) \in Nat
        BY <3>2, <4>1, StrictLen, PathLen
      <4>3. /\ f[r] \in Path /\ Len(f[r]) = Len(r) /\ \A i \in (Len(q) + 1)..Len(r) : f[r][i] = r[i]
        BY <2>1, <3>2, <4>1, OtherAt
      <4>4. f[r] # <<>> /\ f[r][Len(r)] = r[Len(r)]
        BY <4>2, <4>3, PathLen
      <4>5. Last(f[r]) = Last(r)
        BY <4>1, <4>3, <4>4, <2>5, FrontAt
      <4> QED
        BY <2>5, <4>4, <4>5
    <3> QED
      BY <3>1, <3>2
  <2>6. OneFile(u)
    BY <2>2, <2>4, <2>5, OneFileTaken
  <2>7. ASSUME Single(t, p)
        PROVE  Single(u, q)
    <3>1. Other(q, p, q) = p
      BY MovedSelf DEF Other
    <3>2. q \in DOMAIN u /\ f[q] = p /\ u[q] = t[p]
      BY <1>0, <1>1, <1>3, <2>1, <3>1, PrefixRefl
    <3> QED
      BY <2>2, <2>4, <2>7, <3>2 DEF Single
  <2>8. Tells(t) => Tells(u)
    BY <2>2 DEF Tells
  <2> QED
    BY <1>1, <1>3, <2>6, <2>7, <2>8
<1> QED
  BY <1>2, <1>3 DEF u

-----------------------------------------------------------------------------
(* What one entry does to the destination.                                 *)

LdTmp == Sibling(cur.d, LdName)

BackName == Sibling(cur.d, Suffixed)

Leading ==
    Busy /\ pc \notin {"entry", "follow"} /\ Linked =>
        From.i \in DOMAIN links /\ links[From.i] = cur.d

LinksPlain == \A i \in DOMAIN links : Plain(links[i]) /\ links[i] # <<>>

\* What holds before each step of the copy of one entry.
Progress ==
    /\ pc \in {"follow", "linked", "create", "fill", "rename", "meta"} => From.k = "file"
    /\ pc \in {"unlink", "symlink"} => From.k = "symlink"
    /\ pc = "special" => From.k \notin {"dir", "file", "symlink"}
    /\ pc = "follow" => Follower
    /\ pc \in {"fill", "rename"} => Tmp \in DOMAIN dst /\ dst[Tmp].k = "file" /\ dst[Tmp].mt = Now
    /\ pc = "rename" => dst[Tmp].c = From.c
    /\ pc = "meta" => /\ cur.d \in DOMAIN dst /\ dst[cur.d].k = "file" /\ dst[cur.d].c = From.c
                      /\ Single(dst, cur.d)
    /\ pc = "linked" => /\ Given("link_dest") /\ LdTmp \in DOMAIN dst /\ dst[LdTmp].k = "file"
                        /\ dst[LdTmp].c = From.c /\ dst[LdTmp].mt = From.mt
    /\ pc = "backup" => Given("backup") /\ cur.d \in DOMAIN dst

Base ==
    /\ IsTree(dst) /\ OneFile(dst) /\ Tells(dst)
    /\ LinksPlain /\ Leading /\ Progress

\* What a step does to the path p.
Effect(p) ==
    \/ p \in DOMAIN dst /\ p \in DOMAIN dst' /\ dst'[p] = dst[p]
    \/ p \notin DOMAIN dst /\ (p \in DOMAIN dst' => IsDir(dst', p))
    \/ /\ IsPrefix(cur.d, p)
       /\ p \in DOMAIN dst' =>
             /\ p = cur.d
             /\ \/ dst'[p].k = From.k /\ dst'[p].c = From.c
                \/ pc = "follow" /\ dst'[p] = dst[links[From.i]]
    \/ IsPrefix(Tmp, p)
    \/ IsPrefix(LdTmp, p)
    \/ pc = "backup" /\ ~Given("backup_dir") /\ IsPrefix(BackName, p)

Altered ==
    /\ IsTree(dst') /\ OneFile(dst') /\ Tells(dst')
    /\ \A p \in Path : Effect(p)

LEMMA NamesOf ==
    ASSUME WalkInv, Busy
    PROVE  /\ cur.d \in Path /\ cur.d # <<>> /\ Len(cur.d) \in Nat \ {0} /\ Plain(cur.d)
           /\ Last(cur.d) \notin Range(TmpName)
           /\ Tmp \in Path /\ Tmp # <<>> /\ Len(Tmp) = Len(cur.d) /\ Front(Tmp) = Front(cur.d)
           /\ Last(Tmp) = TmpName[Last(cur.d)] /\ Last(Tmp) \in Range(TmpName) /\ Last(Tmp) \in HelperNames
           /\ LdTmp \in Path /\ LdTmp # <<>> /\ Len(LdTmp) = Len(cur.d) /\ Front(LdTmp) = Front(cur.d)
           /\ Last(LdTmp) = LdName[Last(cur.d)] /\ Last(LdTmp) \in Range(LdName) /\ Last(LdTmp) \in HelperNames
           /\ Last(LdTmp) \notin Range(TmpName) \cup Range(Suffixed)
           /\ BackName \in Path /\ BackName # <<>> /\ Len(BackName) = Len(cur.d) /\ Front(BackName) = Front(cur.d)
           /\ Last(BackName) = Suffixed[Last(cur.d)] /\ Last(BackName) \in Range(Suffixed)
           /\ Last(BackName) \in HelperNames /\ Last(BackName) \notin Range(TmpName) \cup Range(LdName)
           /\ Tmp # cur.d /\ LdTmp # cur.d /\ BackName # cur.d
<1> DEFINE n == Last(cur.d)
<1>1. cur.d \in Path /\ cur.d # <<>> /\ n \in DOMAIN TmpName /\ Plain(cur.d)
  BY CurAt
<1>2. /\ TmpName[n] \in HelperNames /\ Suffixed[n] \in HelperNames /\ LdName[n] \in HelperNames
      /\ TmpName[n] \in STRING /\ Suffixed[n] \in STRING /\ LdName[n] \in STRING
      /\ n \notin HelperNames
  BY <1>1, HelperName
<1>3. TmpName[n] \in Range(TmpName) /\ Suffixed[n] \in Range(Suffixed) /\ LdName[n] \in Range(LdName)
  BY <1>1, NamesAssumption DEF Range
<1>4. /\ Range(Suffixed) \cap Range(TmpName) = {} /\ Range(LdName) \cap Range(TmpName) = {}
      /\ Range(Suffixed) \cap Range(LdName) = {}
  BY NamesAssumption
<1>5. n \notin Range(TmpName)
  BY <1>2 DEF HelperNames
<1>6. /\ Tmp \in Path /\ Tmp # <<>> /\ Len(Tmp) = Len(cur.d) /\ Front(Tmp) = Front(cur.d) /\ Last(Tmp) = TmpName[n]
  BY <1>1, <1>2, SiblingAt DEF Tmp
<1>7. /\ LdTmp \in Path /\ LdTmp # <<>> /\ Len(LdTmp) = Len(cur.d) /\ Front(LdTmp) = Front(cur.d) /\ Last(LdTmp) = LdName[n]
  BY <1>1, <1>2, SiblingAt DEF LdTmp
<1>8. /\ BackName \in Path /\ BackName # <<>> /\ Len(BackName) = Len(cur.d) /\ Front(BackName) = Front(cur.d)
      /\ Last(BackName) = Suffixed[n]
  BY <1>1, <1>2, SiblingAt DEF BackName
<1>9. Len(cur.d) \in Nat \ {0}
  BY <1>1, FrontAt
<1> HIDE DEF n
<1>10. Tmp # cur.d /\ LdTmp # cur.d /\ BackName # cur.d
  BY <1>2, <1>6, <1>7, <1>8 DEF n
<1> QED
  BY <1>1, <1>2, <1>3, <1>4, <1>5, <1>6, <1>7, <1>8, <1>9, <1>10 DEF n

\* A name beside the place of the entry.
LEMMA Beside ==
    ASSUME NEW d \in Path, NEW p \in Path, d # <<>>, p # <<>>, Len(p) = Len(d), Front(p) = Front(d), NEW t, IsTree(t)
    PROVE  /\ ~IsPrefix(p, Front(d))
           /\ \A u : Keeps(t, u) /\ IsDir(u, Front(d)) /\ ~IsDir(t, p) /\ (p \in DOMAIN u => p \in DOMAIN t) => ~IsDir(u, p)
<1>1. Front(d) \in Path /\ Len(Front(d)) = Len(d) - 1 /\ Len(d) \in Nat \ {0}
  BY FrontAt
<1>2. ~IsPrefix(p, Front(d))
  BY <1>1, StrictLen
<1>3. \A u : Keeps(t, u) /\ ~IsDir(t, p) /\ (p \in DOMAIN u => p \in DOMAIN t) => ~IsDir(u, p)
  BY DEF Keeps, IsDir
<1> QED
  BY <1>2, <1>3

LEMMA ChangeNone ==
    ASSUME Base, dst' = dst
    PROVE  Altered
BY DEF Base, Altered, Effect, Tells, OneFile

LEMMA SameProgress ==
    ASSUME Run, cur' = cur
    PROVE  /\ From' = From /\ Tmp' = Tmp /\ LdTmp' = LdTmp /\ BackName' = BackName
           /\ (\A o : Given(o)' <=> Given(o)) /\ (Wet' <=> Wet) /\ (Linked' <=> Linked)
BY DEF Run, From, Tmp, LdTmp, BackName, Given, Wet, Linked

LEMMA NoProgress ==
    ASSUME pc' \notin EntryStates
    PROVE  Progress' /\ Leading'
BY DEF Progress, Leading, EntryStates, Busy

\* What comes next when the entry is to be replaced.
LEMMA ReplaceNext ==
    ASSUME WalkInv, Busy, Run, cur' = cur,
           pc' = Write \/ (pc' = Replace /\ (cur.d \in DOMAIN dst => cur.d \in DOMAIN dst'))
    PROVE  Progress'
<1>1. Write \in {"create", "unlink", "special"}
  BY DEF Write
<1>2. /\ Write = "create" <=> From.k = "file"
      /\ Write = "unlink" <=> From.k = "symlink"
      /\ Write = "special" <=> From.k \notin {"file", "symlink"}
  BY DEF Write
<1>3. From.k # "dir" /\ From' = From
  BY CurAt DEF IsDir, From
<1>4. CASE pc' = Write
  BY <1>1, <1>2, <1>3, <1>4 DEF Progress
<1>5. CASE pc' = "backup" /\ Given("backup") /\ cur.d \in DOMAIN dst'
  BY <1>3, <1>5 DEF Progress, Given, Run
<1>6. pc' = Replace => pc' = Write \/ (pc' = "backup" /\ Given("backup") /\ cur.d \in DOMAIN dst)
  BY DEF Replace, Exists
<1> QED
  BY <1>4, <1>5, <1>6

LEMMA EntryLinks ==
    ASSUME WalkInv, LinksPlain, Leading, EntryAction
    PROVE  LinksPlain' /\ Leading'
<1>1. Busy /\ Run /\ Plain(cur.d) /\ cur.d # <<>>
  BY EntryControl, CurAt
<1>2. CASE links' = links
  <2>1. LinksPlain'
    BY <1>2 DEF LinksPlain, Plain
  <2>2. ASSUME pc' \in EntryStates
        PROVE  Leading'
    <3>1. /\ pc' # "entry" /\ UNCHANGED <<stack, kept, arg, cur>>
      BY <2>2, EntryOnward
    <3>2. ASSUME pc \in {"entry", "follow"}, pc' # "follow"
          PROVE  pc = "entry" /\ Wet /\ ~Follower /\ NoteLeader
      BY <2>2, <3>2 DEF EntryAction, At, EntryStates, DryEntry, SkipEntry, UnlinkFollower, LinkFollower,
           LinkTmp, LinkName, Decide, Backup, Special, UnlinkOld, Symlink, CreateTmp, FillTmp, RenameTmp,
           SetTime, EntryDone, Onward
    <3>3. (Linked' <=> Linked) /\ From' = From
      BY <1>1, <3>1, SameProgress
    <3>4. CASE pc \in {"entry", "follow"} /\ pc' # "follow"
      <4>1. ~Linked
        BY <1>2, <3>2, <3>4 DEF NoteLeader, Put, Follower
      <4> QED
        BY <3>3, <4>1 DEF Leading
    <3>5. CASE pc \notin {"entry", "follow"}
      BY <1>1, <1>2, <3>1, <3>3, <3>5 DEF Leading
    <3>6. CASE pc' = "follow"
      BY <3>6 DEF Leading
    <3> QED
      BY <3>4, <3>5, <3>6
  <2>3. CASE pc' \notin EntryStates
    BY <2>1, <2>3, NoProgress
  <2> QED
    BY <2>1, <2>2, <2>3
<1>3. CASE NoteLeader /\ links' # links
  <2>1. Linked /\ links' = Put(links, From.i, cur.d)
    BY <1>3 DEF NoteLeader
  <2>2. LinksPlain'
    BY <1>1, <2>1 DEF LinksPlain, Put, Plain
  <2>3. From.i \in DOMAIN links' /\ links'[From.i] = cur.d
    BY <2>1 DEF Put
  <2>4. CASE pc' \in EntryStates
    <3>1. UNCHANGED <<stack, kept, arg, cur>>
      BY <2>4, EntryOnward
    <3> QED
      BY <1>1, <2>2, <2>3, <3>1, SameProgress DEF Leading
  <2>5. CASE pc' \notin EntryStates
    BY <2>2, <2>5, NoProgress
  <2> QED
    BY <2>4, <2>5
<1>4. links' = links \/ NoteLeader
  BY DEF EntryAction, DryEntry, SkipEntry, UnlinkFollower, LinkFollower, LinkTmp, LinkName, Decide, Backup,
         Special, UnlinkOld, Symlink, CreateTmp, FillTmp, RenameTmp, SetTime
<1> QED
  BY <1>2, <1>3, <1>4

\* A step that only takes away, or makes directories.
LEMMA ChangeKept ==
    ASSUME Base, Keeps(dst, dst'), NEW d \in Path, d = cur.d \/ d = LdTmp,
           \A p \in DOMAIN dst : p = d \/ p \in DOMAIN dst'
    PROVE  Altered
<1>1. OneFile(dst') /\ Tells(dst') /\ IsTree(dst')
  BY OneFileKept, TellsKept DEF Base, Keeps
<1>2. ASSUME NEW p \in Path
      PROVE  Effect(p)
  <2>1. p \in DOMAIN dst' => IF p \in DOMAIN dst THEN dst'[p] = dst[p] ELSE IsDir(dst', p)
    BY DEF Keeps, IsDir
  <2>2. CASE p = d /\ p \notin DOMAIN dst'
    <3>1. IsPrefix(d, p)
      BY <2>2, PrefixRefl
    <3> QED
      BY <2>2, <3>1 DEF Effect
  <2>3. CASE p # d \/ p \in DOMAIN dst'
    BY <2>1, <2>3 DEF Effect
  <2> QED
    BY <2>2, <2>3
<1> QED
  BY <1>1, <1>2 DEF Altered

LEMMA QuietChange ==
    ASSUME WalkInv, Base, DryEntry \/ SkipEntry \/ Decide \/ Special
    PROVE  Altered /\ Progress'
<1>1. dst' = dst /\ Busy /\ Run
  BY EntryControl DEF DryEntry, SkipEntry, Decide, Special, EntryAction
<1>2. Altered
  BY <1>1, ChangeNone
<1>3. CASE DryEntry \/ SkipEntry \/ Special
  <2>1. pc' \notin EntryStates
    BY <1>3 DEF DryEntry, SkipEntry, Special, EntryDone, EntryStates
  <2> QED
    BY <1>2, <2>1, NoProgress
<1>4. CASE Decide
  <2>1. cur' = cur /\ pc' = Replace
    BY <1>4 DEF Decide, Onward
  <2> QED
    BY <1>1, <1>2, <2>1, ReplaceNext
<1> QED
  BY <1>3, <1>4

LEMMA UnlinkFollowerChange ==
    ASSUME WalkInv, Base, UnlinkFollower
    PROVE  Altered /\ Progress'
<1> DEFINE made == MkDirs(dst, Front(cur.d))
<1>1. /\ Busy /\ Run /\ Follower /\ CanMkDirs(dst, Front(cur.d)) /\ dst' = Unlinked(made, cur.d)
      /\ pc' = "follow" /\ cur' = cur /\ links' = links
  BY EntryControl DEF UnlinkFollower, EntryAction, Onward
<1>2. IsTree(dst) /\ cur.d \in Path /\ Front(cur.d) \in Path
  BY <1>1, NamesOf, FrontAt DEF Base
<1>3. Keeps(dst, made) /\ IsTree(made) /\ DOMAIN dst \subseteq DOMAIN made
  <2>1. Keeps(dst, made)
    BY <1>1, <1>2, KeepsMkDirs
  <2>2. DOMAIN dst \subseteq DOMAIN made
    BY DEF MkDirs
  <2> QED
    BY <2>1, <2>2 DEF Keeps
<1> HIDE DEF made
<1>4. Keeps(made, dst')
  BY <1>1, <1>2, <1>3, KeepsUnlinked
<1>5. Keeps(dst, dst')
  BY <1>2, <1>3, <1>4, KeepsTrans
<1>6. \A p \in DOMAIN made : p = cur.d \/ p \in DOMAIN dst'
  BY <1>1 DEF Unlinked, Drop
<1>7. Altered
  BY <1>2, <1>3, <1>5, <1>6, ChangeKept
<1>8. From' = From /\ (Linked' <=> Linked)
  BY <1>1, SameProgress
<1>9. Progress'
  BY <1>1, <1>8 DEF Progress, Follower, Linked
<1> QED
  BY <1>7, <1>9

LEMMA PlainLast ==
    ASSUME NEW p, Plain(p), p # <<>>
    PROVE  Last(p) \in DOMAIN TmpName /\ Last(p) \notin HelperNames /\ Last(p) \notin Range(TmpName) /\ p \in Path
<1>1. p \in Path /\ \A i \in 1..Len(p) : p[i] \in DOMAIN TmpName
  BY PlainAt
<1>2. Len(p) \in Nat \ {0} /\ Last(p) = p[Len(p)]
  BY <1>1, FrontAt
<1>3. Last(p) \in DOMAIN TmpName
  BY <1>1, <1>2
<1> QED
  BY <1>1, <1>3, HelperName DEF HelperNames

LEMMA LinkFollowerChange ==
    ASSUME WalkInv, Base, LinkFollower
    PROVE  /\ Altered /\ Progress'
           /\ cur.d \in DOMAIN dst' /\ dst'[cur.d] = dst[links[From.i]] /\ links[From.i] \in DOMAIN dst
<1> DEFINE l == links[From.i]
           node == dst[l]
           u == Put(dst, cur.d, node)
<1>1. /\ Busy /\ IsDir(dst, Front(cur.d)) /\ cur.d \notin DOMAIN dst /\ l \in DOMAIN dst /\ ~IsDir(dst, l)
      /\ dst' = u /\ pc = "follow" /\ pc' = "walk"
  BY EntryControl DEF LinkFollower, EntryAction, EntryDone, At
<1>2. IsTree(dst) /\ OneFile(dst) /\ Tells(dst) /\ Follower
  BY <1>1 DEF Base, Progress
<1>3. Last(l) \notin Range(TmpName) /\ l # <<>>
  BY <1>2, PlainLast DEF Base, LinksPlain, Follower
<1>4. cur.d \in Path /\ cur.d # <<>> /\ node \in Nodes /\ Last(cur.d) \notin Range(TmpName)
  BY <1>1, <1>2, TreeNode, NamesOf
<1>5. /\ IsTree(u) /\ DOMAIN u = DOMAIN dst \cup {cur.d} /\ u[cur.d] = node
      /\ \A q \in DOMAIN dst : q # cur.d => u[q] = dst[q]
  <2>1. ~IsDir(dst, cur.d)
    BY <1>1 DEF IsDir
  <2> HIDE DEF node, l
  <2>2. IsTree(u)
    BY <1>1, <1>2, <1>4, <2>1, PutAt
  <2> QED
    BY <2>2 DEF Put
<1> HIDE DEF u, node, l
<1>6. OneFile(u)
  <2>1. \E q \in DOMAIN dst \ {<<>>} : node = dst[q] /\ Last(q) \notin Range(TmpName)
    BY <1>1, <1>3 DEF node
  <2> QED
    BY <1>2, <1>4, <1>5, <2>1, OneFilePut
<1>7. Tells(u)
  BY <1>1, <1>2, <1>5 DEF Tells, node
<1>8. ASSUME NEW p \in Path
      PROVE  Effect(p)
  <2>1. CASE p = cur.d
    <3>1. IsPrefix(cur.d, p)
      BY <2>1, PrefixRefl
    <3> QED
      BY <1>1, <1>5, <2>1, <3>1 DEF Effect, node, l
  <2>2. CASE p # cur.d
    BY <1>1, <1>5, <2>2 DEF Effect
  <2> QED
    BY <2>1, <2>2
<1>9. Progress'
  BY <1>1, NoProgress DEF EntryStates
<1> QED
  BY <1>1, <1>5, <1>6, <1>7, <1>8, <1>9 DEF Altered, node, l

LEMMA LinkTmpChange ==
    ASSUME WalkInv, Base, LinkTmp
    PROVE  Altered /\ Progress'
<1> DEFINE clean == Unlinked(dst, LdTmp)
           node == LinkDest[cur.rel]
           u == Put(clean, LdTmp, node)
<1>1. /\ Busy /\ Run /\ Linkable /\ Wet
      /\ \/ IsDir(dst, Front(cur.d)) /\ LdTmp \notin DOMAIN clean /\ dst' = u /\ pc' = "linked" /\ cur' = cur
         \/ dst' = clean /\ pc' = Replace /\ cur' = cur
  BY EntryControl DEF LinkTmp, EntryAction, Onward, LdTmp
<1>2. IsTree(dst) /\ OneFile(dst) /\ Tells(dst)
  BY DEF Base
<1>3. /\ cur.d \in Path /\ LdTmp \in Path /\ LdTmp # <<>> /\ Front(LdTmp) = Front(cur.d) /\ Last(LdTmp) \notin Range(TmpName)
      /\ LdTmp # cur.d /\ cur.d # <<>> /\ Len(LdTmp) = Len(cur.d)
  BY <1>1, NamesOf
<1>4. Keeps(dst, clean) /\ (\A p \in DOMAIN dst : p = LdTmp \/ p \in DOMAIN clean) /\ DOMAIN clean \subseteq DOMAIN dst
  <2>1. Keeps(dst, clean)
    BY <1>2, <1>3, KeepsUnlinked
  <2> QED
    BY <2>1 DEF Unlinked, Drop
<1>5. /\ cur.rel \in DOMAIN LinkDest /\ node.k = "file" /\ From.k = "file" /\ Given("link_dest")
      /\ Size[node.c] = Size[From.c] /\ node.mt = From.mt
  BY <1>1 DEF Linkable
<1>6. node \in Nodes /\ Telling(node)
  BY <1>5, LocalAssumption, QuickCheckAssumption
<1>7. node.c = From.c
  <2>1. cur.s \in DOMAIN Src
    BY <1>1, CurAt
  <2> HIDE DEF node
  <2> QED
    BY <1>5, <1>6, <2>1 DEF Telling, From
<1> HIDE DEF clean, node
<1>8. CASE dst' = clean /\ pc' = Replace /\ cur' = cur
  <2>1. Altered
    BY <1>3, <1>4, <1>8, ChangeKept
  <2>2. Progress'
    BY <1>1, <1>3, <1>4, <1>8, ReplaceNext
  <2> QED
    BY <2>1, <2>2
<1>9. CASE IsDir(dst, Front(cur.d)) /\ LdTmp \notin DOMAIN clean /\ dst' = u /\ pc' = "linked" /\ cur' = cur
  <2>1. IsTree(clean) /\ OneFile(clean) /\ Tells(clean)
    BY <1>2, <1>4, OneFileKept, TellsKept DEF Keeps
  <2>2. IsDir(clean, Front(LdTmp))
    <3>1. Front(cur.d) # LdTmp
      BY <1>3, FrontAt
    <3> QED
      BY <1>3, <1>4, <1>9, <3>1 DEF IsDir, Keeps
  <2>3. /\ IsTree(u) /\ DOMAIN u = DOMAIN clean \cup {LdTmp} /\ u[LdTmp] = node
        /\ \A q \in DOMAIN clean : q # LdTmp => u[q] = clean[q]
    <3>1. ~IsDir(clean, LdTmp)
      BY <1>9 DEF IsDir
    <3>2. IsTree(u)
      BY <1>3, <1>6, <2>1, <2>2, <3>1, PutAt
    <3> QED
      BY <3>2 DEF Put
  <2> HIDE DEF u
  <2>4. OneFile(u)
    <3>1. \E r \in DOMAIN LinkDest : node = LinkDest[r]
      BY <1>5 DEF node
    <3> QED
      BY <1>3, <2>1, <2>3, <3>1, OneFilePut
  <2>5. Tells(u)
    BY <1>6, <2>1, <2>3 DEF Tells
  <2>6. ASSUME NEW p \in Path
        PROVE  Effect(p)
    <3>1. CASE p = LdTmp
      <4>1. IsPrefix(LdTmp, p)
        BY <3>1, PrefixRefl
      <4> QED
        BY <4>1 DEF Effect
    <3>2. CASE p # LdTmp
      <4>1. (p \in DOMAIN u <=> p \in DOMAIN dst) /\ (p \in DOMAIN u => u[p] = dst[p])
        BY <1>4, <2>3, <3>2 DEF Keeps
      <4> QED
        BY <1>9, <4>1 DEF Effect
    <3> QED
      BY <3>1, <3>2
  <2>7. Altered
    BY <1>9, <2>3, <2>4, <2>5, <2>6 DEF Altered
  <2>8. From' = From /\ LdTmp' = LdTmp /\ (Given("link_dest")' <=> Given("link_dest"))
    BY <1>1, <1>9, SameProgress
  <2>9. Progress'
    BY <1>5, <1>7, <1>9, <2>3, <2>8 DEF Progress
  <2> QED
    BY <2>7, <2>9
<1> QED
  BY <1>1, <1>8, <1>9

\* What the rename of a file makes of the tree t.
FileMoved(t, p, q, u) ==
    \/ u = t /\ q \in DOMAIN t /\ SameFile(t[p], t[q])
    \/ /\ DOMAIN u = (DOMAIN t \ {p}) \cup {q} /\ u[q] = t[p]
       /\ \A r \in DOMAIN t : r # p /\ r # q => u[r] = t[r]

LEMMA FileRenamed ==
    ASSUME NEW t, IsTree(t), NEW p \in Path, NEW q \in Path, p # q, Len(p) = Len(q), p # <<>>,
           CanRename(t, p, q), Front(q) = Front(p), ~IsDir(t, p)
    PROVE  FileMoved(t, p, q, Renamed(t, p, q))
<1> DEFINE u == Renamed(t, p, q)
<1>1. \/ u = t /\ q \in DOMAIN t /\ SameFile(t[p], t[q])
      \/ /\ IsTree(u)
         /\ p \in DOMAIN t => ~(q \in DOMAIN t /\ SameFile(t[p], t[q]))
         /\ \A r \in Path : ~IsPrefix(p, r) /\ ~IsPrefix(q, r) =>
               (r \in DOMAIN u <=> r \in DOMAIN t) /\ (r \in DOMAIN t => u[r] = t[r])
         /\ \A r \in Path : IsPrefix(p, r) => r \notin DOMAIN u
         /\ \A r \in Path : IsPrefix(q, r) =>
               /\ r \in DOMAIN u <=> Other(q, p, r) \in DOMAIN t
               /\ r \in DOMAIN u => u[r] = t[Other(q, p, r)]
  BY RenamedAt
<1>2. p \in DOMAIN t /\ ~IsDir(t, q) /\ DOMAIN t \subseteq Path
  BY DEF CanRename, IsDir, IsTree
<1> HIDE DEF u
<1>3. ASSUME ~(u = t /\ q \in DOMAIN t /\ SameFile(t[p], t[q]))
      PROVE  /\ DOMAIN u = (DOMAIN t \ {p}) \cup {q} /\ u[q] = t[p]
             /\ \A r \in DOMAIN t : r # p /\ r # q => u[r] = t[r]
  <2>1. \A r \in DOMAIN t : IsPrefix(p, r) => r = p
    BY FileAlone
  <2>2. \A r \in DOMAIN t : IsPrefix(q, r) => r = q
    BY <1>2, FileAlone
  <2>3. \A r \in Path : IsPrefix(q, r) => /\ Other(q, p, r) \in Path /\ IsPrefix(p, Other(q, p, r))
                                          /\ Other(p, q, Other(q, p, r)) = r
    BY OtherAt
  <2>4. Other(q, p, q) = p /\ Other(p, q, p) = q
    BY MovedSelf DEF Other
  <2>5. IsPrefix(q, q) /\ IsPrefix(p, p)
    BY PrefixRefl
  <2>6. q \in DOMAIN u /\ u[q] = t[p]
    BY <1>1, <1>2, <1>3, <2>4, <2>5
  <2>7. \A r \in DOMAIN t : r # p /\ r # q => r \in DOMAIN u /\ u[r] = t[r]
    BY <1>1, <1>2, <1>3, <2>1, <2>2
  <2>8. ASSUME NEW r \in DOMAIN u, r # q
        PROVE  r \in DOMAIN t /\ r # p
    <3>1. r \in Path
      BY <1>1, <1>3 DEF IsTree
    <3>2. ~IsPrefix(p, r)
      BY <1>1, <1>3, <3>1
    <3>3. ~IsPrefix(q, r)
      BY <1>1, <1>3, <2>1, <2>3, <2>4, <2>8, <3>1
    <3> QED
      BY <1>1, <1>3, <2>5, <3>1, <3>2, <3>3
  <2>9. p \notin DOMAIN u
    BY <1>1, <1>3, <2>5
  <2> QED
    BY <2>6, <2>7, <2>8, <2>9
<1>4. FileMoved(t, p, q, u)
  BY <1>3 DEF FileMoved
<1> QED
  BY <1>4 DEF u

LEMMA LinkNameChange ==
    ASSUME WalkInv, Base, LinkName
    PROVE  /\ Altered /\ Progress'
           /\ pc' = "walk" => cur.d \in DOMAIN dst' /\ dst'[cur.d].k = "file" /\ dst'[cur.d].c = From.c
                              /\ dst'[cur.d].mt = From.mt
<1> DEFINE u == Renamed(dst, LdTmp, cur.d)
<1>1. /\ Busy /\ Run /\ pc = "linked"
      /\ \/ CanRename(dst, LdTmp, cur.d) /\ dst' = u /\ pc' = "walk"
         \/ dst' = Unlinked(dst, LdTmp) /\ pc' = Replace /\ cur' = cur
  BY EntryControl DEF LinkName, EntryAction, EntryDone, Onward, At, LdTmp
<1>2. /\ IsTree(dst) /\ OneFile(dst) /\ Tells(dst)
      /\ From.k = "file" /\ LdTmp \in DOMAIN dst /\ dst[LdTmp].k = "file" /\ dst[LdTmp].c = From.c
      /\ dst[LdTmp].mt = From.mt /\ ~IsDir(dst, LdTmp)
  BY <1>1 DEF Base, Progress, IsDir
<1>3. /\ cur.d \in Path /\ LdTmp \in Path /\ LdTmp # <<>> /\ Front(LdTmp) = Front(cur.d)
      /\ LdTmp # cur.d /\ cur.d # <<>> /\ Len(LdTmp) = Len(cur.d) /\ Last(cur.d) \notin Range(TmpName)
  BY <1>1, NamesOf
<1>4. ASSUME dst' = Unlinked(dst, LdTmp), pc' = Replace, cur' = cur
      PROVE  Altered /\ Progress' /\ pc' # "walk"
  <2>1. Keeps(dst, dst')
    BY <1>2, <1>3, <1>4, KeepsUnlinked
  <2>2. \A p \in DOMAIN dst : p = LdTmp \/ p \in DOMAIN dst'
    BY <1>4 DEF Unlinked, Drop
  <2>3. Altered
    BY <1>3, <2>1, <2>2, ChangeKept
  <2>4. Progress'
    BY <1>1, <1>3, <1>4, <2>2, ReplaceNext
  <2>5. pc' # "walk"
    BY <1>4 DEF Replace, Write
  <2> QED
    BY <2>3, <2>4, <2>5
<1>5. ASSUME CanRename(dst, LdTmp, cur.d), dst' = u, pc' = "walk"
      PROVE  /\ Altered /\ Progress'
             /\ cur.d \in DOMAIN dst' /\ dst'[cur.d].k = "file" /\ dst'[cur.d].c = From.c
             /\ dst'[cur.d].mt = From.mt
  <2>1. \/ u = dst /\ cur.d \in DOMAIN dst /\ SameFile(dst[LdTmp], dst[cur.d])
        \/ /\ DOMAIN u = (DOMAIN dst \ {LdTmp}) \cup {cur.d} /\ u[cur.d] = dst[LdTmp]
           /\ \A r \in DOMAIN dst : r # LdTmp /\ r # cur.d => u[r] = dst[r]
    <3>1. FileMoved(dst, LdTmp, cur.d, u)
      BY <1>2, <1>3, <1>5, FileRenamed
    <3> QED
      BY <3>1 DEF FileMoved
  <2>2. IsTree(u) /\ OneFile(u) /\ Tells(u)
    BY <1>2, <1>3, <1>5, OneFileRenamed
  <2> HIDE DEF u
  <2>3. cur.d \in DOMAIN u /\ u[cur.d] = dst[LdTmp]
    BY <1>2, <2>1 DEF OneFile
  <2>4. ASSUME NEW p \in Path
        PROVE  Effect(p)
    <3>1. IsPrefix(cur.d, cur.d) /\ IsPrefix(LdTmp, LdTmp)
      BY <1>3, PrefixRefl
    <3>2. CASE p = cur.d
      BY <1>2, <1>5, <2>3, <3>1, <3>2 DEF Effect
    <3>3. CASE p = LdTmp
      BY <3>1, <3>3 DEF Effect
    <3>4. CASE p # cur.d /\ p # LdTmp
      BY <1>5, <2>1, <3>4 DEF Effect
    <3> QED
      BY <3>2, <3>3, <3>4
  <2>5. Progress'
    BY <1>5, NoProgress DEF EntryStates
  <2> QED
    BY <1>2, <1>5, <2>2, <2>3, <2>4, <2>5 DEF Altered
<1> QED
  BY <1>1, <1>4, <1>5

\* What is moved away for a backup.
LEMMA BackupChange ==
    ASSUME WalkInv, Base, Backup
    PROVE  /\ Altered /\ Progress' /\ pc' = Write /\ cur' = cur
           /\ IF Given("backup_dir")
              THEN dst' = dst /\ dst[cur.d].k # "dir" /\ bak' = Put(bak, Last(cur.d), dst[cur.d].c)
              ELSE /\ bak' = bak
                   /\ \A p \in DOMAIN dst : IsPrefix(cur.d, p) =>
                         LET b == Other(cur.d, BackName, p)
                         IN  b \in DOMAIN dst' /\ dst'[b] = dst[p]
<1> DEFINE u == Renamed(dst, cur.d, BackName)
<1>1. /\ Busy /\ Run /\ pc = "backup" /\ pc' = Write /\ cur' = cur
      /\ IF Given("backup_dir")
         THEN dst' = dst /\ dst[cur.d].k # "dir" /\ bak' = Put(bak, Last(cur.d), dst[cur.d].c)
         ELSE CanRename(dst, cur.d, BackName) /\ dst' = u /\ bak' = bak
  BY EntryControl DEF Backup, EntryAction, Onward, At, BackName
<1>2. /\ IsTree(dst) /\ OneFile(dst) /\ Tells(dst) /\ cur.d \in DOMAIN dst
  BY <1>1 DEF Base, Progress
<1>3. /\ cur.d \in Path /\ BackName \in Path /\ BackName # <<>> /\ Front(BackName) = Front(cur.d)
      /\ BackName # cur.d /\ cur.d # <<>> /\ Len(BackName) = Len(cur.d) /\ Last(BackName) \notin Range(TmpName)
  BY <1>1, NamesOf
<1>4. Progress'
  BY <1>1, ReplaceNext
<1>5. CASE Given("backup_dir")
  <2>1. Altered
    BY <1>1, <1>5, ChangeNone
  <2> QED
    BY <1>1, <1>4, <1>5, <2>1
<1>6. CASE ~Given("backup_dir")
  <2>0. CanRename(dst, cur.d, BackName) /\ dst' = u
    BY <1>1, <1>6
  <2>1. IsTree(u) /\ OneFile(u) /\ Tells(u)
    BY <1>2, <1>3, <2>0, OneFileRenamed
  <2>2. \/ u = dst /\ BackName \in DOMAIN dst /\ SameFile(dst[cur.d], dst[BackName])
        \/ /\ IsTree(u)
           /\ cur.d \in DOMAIN dst => ~(BackName \in DOMAIN dst /\ SameFile(dst[cur.d], dst[BackName]))
           /\ \A r \in Path : ~IsPrefix(cur.d, r) /\ ~IsPrefix(BackName, r) =>
                 (r \in DOMAIN u <=> r \in DOMAIN dst) /\ (r \in DOMAIN dst => u[r] = dst[r])
           /\ \A r \in Path : IsPrefix(cur.d, r) => r \notin DOMAIN u
           /\ \A r \in Path : IsPrefix(BackName, r) =>
                 /\ r \in DOMAIN u <=> Other(BackName, cur.d, r) \in DOMAIN dst
                 /\ r \in DOMAIN u => u[r] = dst[Other(BackName, cur.d, r)]
    BY <1>2, <1>3, <2>0, RenamedAt
  <2> HIDE DEF u
  <2>3. ASSUME NEW p \in Path
        PROVE  Effect(p)
    <3>1. CASE IsPrefix(BackName, p)
      BY <1>1, <1>6, <3>1 DEF Effect
    <3>2. CASE ~IsPrefix(BackName, p) /\ IsPrefix(cur.d, p)
      BY <2>0, <2>2, <3>2 DEF Effect
    <3>3. CASE ~IsPrefix(BackName, p) /\ ~IsPrefix(cur.d, p)
      BY <2>0, <2>2, <3>3 DEF Effect
    <3> QED
      BY <3>1, <3>2, <3>3
  <2>4. ASSUME NEW p \in DOMAIN dst, IsPrefix(cur.d, p)
        PROVE  LET b == Other(cur.d, BackName, p)
               IN  b \in DOMAIN u /\ u[b] = dst[p]
    <3> DEFINE b == Other(cur.d, BackName, p)
    <3>1. p \in Path
      BY <1>2 DEF IsTree
    <3>2. b \in Path /\ IsPrefix(BackName, b) /\ Other(BackName, cur.d, b) = p /\ (p = cur.d => b = BackName)
      BY <1>3, <2>4, <3>1, OtherAt
    <3> HIDE DEF b
    <3>3. CASE u = dst /\ BackName \in DOMAIN dst /\ SameFile(dst[cur.d], dst[BackName])
      <4>1. ~IsDir(dst, cur.d)
        BY <3>3 DEF SameFile, IsDir
      <4>2. p = cur.d
        BY <1>2, <1>3, <2>4, <4>1, FileAlone
      <4>3. dst[cur.d] = dst[BackName]
        BY <1>2, <3>3 DEF OneFile
      <4>4. b \in DOMAIN u /\ u[b] = dst[p]
        BY <3>2, <3>3, <4>2, <4>3
      <4> QED
        BY <4>4 DEF b
    <3>4. CASE ~(u = dst /\ BackName \in DOMAIN dst /\ SameFile(dst[cur.d], dst[BackName]))
      <4>1. b \in DOMAIN u /\ u[b] = dst[p]
        BY <2>2, <3>2, <3>4
      <4> QED
        BY <4>1 DEF b
    <3> QED
      BY <3>3, <3>4
  <2>5. Altered
    BY <2>0, <2>1, <2>3 DEF Altered
  <2> QED
    BY <1>1, <1>4, <1>6, <2>0, <2>4, <2>5
<1> QED
  BY <1>5, <1>6

LEMMA UnlinkOldChange ==
    ASSUME WalkInv, Base, UnlinkOld
    PROVE  Altered /\ Progress'
<1>1. /\ Busy /\ Run /\ pc = "unlink" /\ pc' = "symlink" /\ cur' = cur /\ dst' = Unlinked(dst, cur.d)
  BY EntryControl DEF UnlinkOld, EntryAction, Onward, At
<1>2. IsTree(dst) /\ cur.d \in Path /\ From.k = "symlink"
  BY <1>1, NamesOf DEF Base, Progress
<1>3. Keeps(dst, dst')
  BY <1>1, <1>2, KeepsUnlinked
<1>4. \A p \in DOMAIN dst : p = cur.d \/ p \in DOMAIN dst'
  BY <1>1 DEF Unlinked, Drop
<1>5. Altered
  BY <1>2, <1>3, <1>4, ChangeKept
<1>6. From' = From
  BY <1>1, SameProgress
<1>7. Progress'
  BY <1>1, <1>2, <1>6 DEF Progress
<1> QED
  BY <1>5, <1>7

LEMMA FromAt ==
    ASSUME WalkInv, Busy
    PROVE  /\ cur.s \in DOMAIN Src /\ From = Src[cur.s] /\ From \in Nodes /\ Telling(From) /\ From.mt < Now
           /\ From.c \in DOMAIN Size \cup {"none", Partial} /\ From.mt \in Nat /\ Now \in Nat
<1>1. cur.s \in DOMAIN Src /\ From = Src[cur.s]
  BY CurAt DEF From
<1>2. From \in Nodes
  BY <1>1, SourceAt
<1>3. Telling(From) /\ From.mt < Now /\ Now \in Nat
  BY <1>1, QuickCheckAssumption, LocalAssumption
<1> QED
  BY <1>1, <1>2, <1>3 DEF Nodes

\* What has been written now is no older than any source.
LEMMA NewTells ==
    ASSUME NEW node, node.mt = Now
    PROVE  Telling(node)
<1>1. \A s \in DOMAIN Src : Src[s].mt < Now /\ Src[s].mt \in Nat /\ Now \in Nat
  BY SourceAt, LocalAssumption DEF Nodes
<1> QED
  BY <1>1 DEF Telling

LEMMA SymlinkChange ==
    ASSUME WalkInv, Base, Symlink
    PROVE  /\ Altered /\ Progress'
           /\ cur.d \in DOMAIN dst' /\ dst'[cur.d].k = "symlink" /\ dst'[cur.d].c = From.c
<1> DEFINE node == [k |-> "symlink", c |-> From.c, mt |-> Now, i |-> FreshInode]
           u == Put(dst, cur.d, node)
<1>1. /\ Busy /\ IsDir(dst, Front(cur.d)) /\ cur.d \notin DOMAIN dst
      /\ dst' = u /\ pc = "symlink" /\ pc' = "walk"
  BY EntryControl DEF Symlink, EntryAction, EntryDone, At
<1>2. IsTree(dst) /\ OneFile(dst) /\ Tells(dst) /\ From.k = "symlink"
  BY <1>1 DEF Base, Progress
<1>3. /\ FreshInode \in Nat /\ (\A p \in DOMAIN dst : dst[p].i # FreshInode)
      /\ \A r \in DOMAIN LinkDest : LinkDest[r].i # FreshInode
  BY <1>2, LocalAssumption, FreshInodeIs
<1>4. /\ node \in Nodes /\ node.mt = Now /\ node.c = From.c /\ node.k = "symlink" /\ node.i = FreshInode
  BY <1>1, <1>3, FromAt DEF Nodes, Kinds
<1>5. cur.d \in Path /\ cur.d # <<>>
  BY <1>1, NamesOf
<1> HIDE DEF node
<1>6. /\ DOMAIN u = DOMAIN dst \cup {cur.d} /\ u[cur.d] = node
      /\ \A q \in DOMAIN dst : q # cur.d => u[q] = dst[q]
  BY DEF Put
<1>7. IsTree(u)
  <2>1. ~IsDir(dst, cur.d)
    BY <1>1 DEF IsDir
  <2> QED
    BY <1>1, <1>2, <1>4, <1>5, <2>1, PutAt
<1> HIDE DEF u
<1>8. OneFile(u)
  <2>1. \A q \in DOMAIN dst : q # cur.d => ~SameFile(node, dst[q])
    BY <1>3, <1>4 DEF SameFile
  <2>2. \A r \in DOMAIN LinkDest : ~SameFile(node, LinkDest[r])
    BY <1>3, <1>4 DEF SameFile
  <2> QED
    BY <1>2, <1>6, <2>1, <2>2, OneFilePut
<1>9. Tells(u)
  BY <1>2, <1>4, <1>6, NewTells DEF Tells
<1>10. ASSUME NEW p \in Path
       PROVE  Effect(p)
  <2>1. CASE p = cur.d
    <3>1. IsPrefix(cur.d, p)
      BY <2>1, PrefixRefl
    <3> QED
      BY <1>1, <1>2, <1>4, <1>6, <2>1, <3>1 DEF Effect
  <2>2. CASE p # cur.d
    BY <1>1, <1>6, <2>2 DEF Effect
  <2> QED
    BY <2>1, <2>2
<1>11. Progress'
  BY <1>1, NoProgress DEF EntryStates
<1> QED
  BY <1>1, <1>4, <1>6, <1>7, <1>8, <1>9, <1>10, <1>11 DEF Altered

LEMMA CreateTmpChange ==
    ASSUME WalkInv, Base, CreateTmp
    PROVE  Altered /\ Progress'
<1> DEFINE made == MkDirs(dst, Front(cur.d))
           i == IF Tmp \in DOMAIN dst THEN dst[Tmp].i ELSE FreshInode
           node == [k |-> "file", c |-> Partial, mt |-> Now, i |-> i]
           u == Put(made, Tmp, node)
<1>1. /\ Busy /\ Run /\ CanMkDirs(dst, Front(cur.d)) /\ ~IsDir(dst, Tmp)
      /\ dst' = u /\ pc = "create" /\ pc' = "fill" /\ cur' = cur
  BY EntryControl DEF CreateTmp, EntryAction, Onward, At
<1>2. IsTree(dst) /\ OneFile(dst) /\ Tells(dst) /\ From.k = "file"
  BY <1>1 DEF Base, Progress
<1>3. /\ cur.d \in Path /\ cur.d # <<>> /\ Tmp \in Path /\ Tmp # <<>> /\ Len(Tmp) = Len(cur.d)
      /\ Front(Tmp) = Front(cur.d) /\ Last(Tmp) \in Range(TmpName) /\ Front(cur.d) \in Path
  BY <1>1, NamesOf, FrontAt
<1>4. /\ FreshInode \in Nat /\ (\A p \in DOMAIN dst : dst[p].i # FreshInode)
      /\ \A r \in DOMAIN LinkDest : LinkDest[r].i # FreshInode
  BY <1>2, LocalAssumption, FreshInodeIs
<1>5. i \in Nat
  <2>1. Tmp \in DOMAIN dst => dst[Tmp].i \in Nat
    BY <1>2, TreeNode DEF Nodes
  <2> QED
    BY <1>4, <2>1
<1>6. /\ \A q \in DOMAIN dst : q # Tmp => ~(dst[q].k # "dir" /\ dst[q].i = i)
      /\ \A r \in DOMAIN LinkDest : ~(LinkDest[r].k # "dir" /\ LinkDest[r].i = i)
  <2>1. CASE Tmp \in DOMAIN dst
    <3>1. Single(dst, Tmp) /\ dst[Tmp].k # "dir"
      BY <1>1, <1>2, <1>3, <2>1 DEF OneFile, IsDir
    <3> QED
      BY <2>1, <3>1 DEF Single, SameFile
  <2>2. CASE Tmp \notin DOMAIN dst
    BY <1>4, <2>2
  <2> QED
    BY <2>1, <2>2
<1> HIDE DEF i
<1>7. /\ node \in Nodes /\ node.mt = Now /\ node.c = Partial /\ node.k = "file" /\ node.i = i
  BY <1>1, <1>5, FromAt DEF Nodes, Kinds
<1> HIDE DEF node
<1>8. Keeps(dst, made) /\ IsTree(made) /\ DOMAIN dst \subseteq DOMAIN made /\ IsDir(made, Front(Tmp))
  <2>1. Keeps(dst, made)
    BY <1>1, <1>2, <1>3, KeepsMkDirs
  <2>2. DOMAIN dst \subseteq DOMAIN made
    BY DEF MkDirs
  <2>3. \A q \in Path : IsPrefix(q, Front(cur.d)) => IsDir(made, q)
    BY <1>1, <1>2, <1>3, MkDirsAt
  <2> HIDE DEF made
  <2> QED
    BY <1>3, <2>1, <2>2, <2>3, PrefixRefl DEF Keeps
<1>9. ~IsDir(made, Tmp)
  <2>1. ~IsPrefix(Tmp, Front(cur.d))
    BY <1>2, <1>3, Beside
  <2>2. Tmp \in DOMAIN made => Tmp \in DOMAIN dst
    BY <1>3, <2>1, PrefixesAre DEF MkDirs
  <2> HIDE DEF made
  <2> QED
    BY <1>1, <1>8, <2>2 DEF Keeps, IsDir
<1> HIDE DEF made
<1>10. OneFile(made) /\ Tells(made)
  BY <1>2, <1>8, OneFileKept, TellsKept
<1>11. /\ DOMAIN u = DOMAIN made \cup {Tmp} /\ u[Tmp] = node
       /\ \A q \in DOMAIN made : q # Tmp => u[q] = made[q]
  BY DEF Put
<1>12. IsTree(u)
  BY <1>3, <1>7, <1>8, <1>9, PutAt
<1> HIDE DEF u
<1>13. OneFile(u)
  <2>1. \A q \in DOMAIN made : q # Tmp => ~SameFile(node, made[q])
    BY <1>6, <1>7, <1>8 DEF SameFile, Keeps
  <2>2. \A r \in DOMAIN LinkDest : ~SameFile(node, LinkDest[r])
    BY <1>6, <1>7 DEF SameFile
  <2> QED
    BY <1>10, <1>11, <2>1, <2>2, OneFilePut
<1>14. Tells(u)
  BY <1>7, <1>10, <1>11, NewTells DEF Tells
<1>15. ASSUME NEW p \in Path
       PROVE  Effect(p)
  <2>1. CASE p = Tmp
    <3>1. IsPrefix(Tmp, p)
      BY <2>1, PrefixRefl
    <3> QED
      BY <3>1 DEF Effect
  <2>2. CASE p # Tmp
    <3>1. CASE p \in DOMAIN dst
      BY <1>1, <1>8, <1>11, <2>2, <3>1 DEF Effect, Keeps
    <3>2. CASE p \notin DOMAIN dst
      BY <1>1, <1>8, <1>11, <2>2, <3>2 DEF Effect, Keeps, IsDir
    <3> QED
      BY <3>1, <3>2
  <2> QED
    BY <2>1, <2>2
<1>16. From' = From /\ Tmp' = Tmp
  BY <1>1, SameProgress
<1>17. Progress'
  BY <1>1, <1>2, <1>7, <1>11, <1>16 DEF Progress
<1> QED
  BY <1>1, <1>12, <1>13, <1>14, <1>15, <1>17 DEF Altered

LEMMA FillTmpChange ==
    ASSUME WalkInv, Base, FillTmp
    PROVE  Altered /\ Progress'
<1> DEFINE node == [dst[Tmp] EXCEPT !.c = From.c]
           u == [dst EXCEPT ![Tmp] = node]
<1>1. /\ Busy /\ Run /\ dst' = u /\ pc = "fill" /\ pc' = "rename" /\ cur' = cur
  BY EntryControl DEF FillTmp, EntryAction, Onward, At
<1>2. /\ IsTree(dst) /\ OneFile(dst) /\ Tells(dst) /\ From.k = "file"
      /\ Tmp \in DOMAIN dst /\ dst[Tmp].k = "file" /\ dst[Tmp].mt = Now
  BY <1>1 DEF Base, Progress
<1>3. Tmp \in Path /\ Tmp # <<>> /\ Last(Tmp) \in Range(TmpName)
  BY <1>1, NamesOf
<1>4. /\ node \in Nodes /\ node.c = From.c /\ node.k = dst[Tmp].k /\ node.i = dst[Tmp].i /\ node.mt = dst[Tmp].mt
  BY <1>1, <1>2, FromAt, TreeNode, NodeFields
<1> HIDE DEF node
<1>5. /\ DOMAIN u = DOMAIN dst /\ u[Tmp] = node
      /\ \A q \in DOMAIN dst : q # Tmp => u[q] = dst[q]
  BY <1>2 DEF IsTree
<1>6. IsTree(u)
  BY <1>2, <1>4, SetFieldAt
<1> HIDE DEF u
<1>7. Single(dst, Tmp)
  BY <1>2, <1>3 DEF OneFile
<1>8. OneFile(u)
  BY <1>2, <1>4, <1>5, <1>7, OneFileSet
<1>9. Tells(u)
  BY <1>2, <1>4, <1>5, NewTells DEF Tells
<1>10. ASSUME NEW p \in Path
       PROVE  Effect(p)
  <2>1. CASE p = Tmp
    <3>1. IsPrefix(Tmp, p)
      BY <2>1, PrefixRefl
    <3> QED
      BY <3>1 DEF Effect
  <2>2. CASE p # Tmp
    BY <1>1, <1>5, <2>2 DEF Effect
  <2> QED
    BY <2>1, <2>2
<1>11. From' = From /\ Tmp' = Tmp
  BY <1>1, SameProgress
<1>12. Progress'
  BY <1>1, <1>2, <1>4, <1>5, <1>11 DEF Progress
<1> QED
  BY <1>1, <1>6, <1>8, <1>9, <1>10, <1>12 DEF Altered

LEMMA RenameTmpChange ==
    ASSUME WalkInv, Base, RenameTmp
    PROVE  Altered /\ Progress'
<1> DEFINE u == Renamed(dst, Tmp, cur.d)
<1>1. /\ Busy /\ Run /\ CanRename(dst, Tmp, cur.d) /\ dst' = u /\ pc = "rename" /\ pc' = "meta" /\ cur' = cur
  BY EntryControl DEF RenameTmp, EntryAction, Onward, At
<1>2. /\ IsTree(dst) /\ OneFile(dst) /\ Tells(dst) /\ From.k = "file"
      /\ Tmp \in DOMAIN dst /\ dst[Tmp].k = "file" /\ dst[Tmp].c = From.c /\ ~IsDir(dst, Tmp)
  BY <1>1 DEF Base, Progress, IsDir
<1>3. /\ cur.d \in Path /\ cur.d # <<>> /\ Tmp \in Path /\ Tmp # <<>> /\ Len(Tmp) = Len(cur.d)
      /\ Front(Tmp) = Front(cur.d) /\ Last(Tmp) \in Range(TmpName) /\ Tmp # cur.d /\ Last(cur.d) \notin Range(TmpName)
  BY <1>1, NamesOf
<1>4. Single(dst, Tmp)
  BY <1>2, <1>3 DEF OneFile
<1>5. FileMoved(dst, Tmp, cur.d, u)
  BY <1>1, <1>2, <1>3, FileRenamed
<1>6. IsTree(u) /\ OneFile(u) /\ Tells(u) /\ Single(u, cur.d)
  BY <1>1, <1>2, <1>3, <1>4, OneFileRenamed
<1> HIDE DEF u
<1>7. /\ DOMAIN u = (DOMAIN dst \ {Tmp}) \cup {cur.d} /\ u[cur.d] = dst[Tmp]
      /\ \A r \in DOMAIN dst : r # Tmp /\ r # cur.d => u[r] = dst[r]
  BY <1>3, <1>4, <1>5 DEF FileMoved, Single
<1>8. ASSUME NEW p \in Path
      PROVE  Effect(p)
  <2>1. IsPrefix(cur.d, cur.d) /\ IsPrefix(Tmp, Tmp)
    BY <1>3, PrefixRefl
  <2>2. CASE p = cur.d
    BY <1>1, <1>2, <1>7, <2>1, <2>2 DEF Effect
  <2>3. CASE p = Tmp
    BY <2>1, <2>3 DEF Effect
  <2>4. CASE p # cur.d /\ p # Tmp
    BY <1>1, <1>7, <2>4 DEF Effect
  <2> QED
    BY <2>2, <2>3, <2>4
<1>9. From' = From
  BY <1>1, SameProgress
<1>10. Progress'
  BY <1>1, <1>2, <1>6, <1>7, <1>9 DEF Progress
<1> QED
  BY <1>1, <1>6, <1>8, <1>10 DEF Altered

LEMMA SetTimeChange ==
    ASSUME WalkInv, Base, SetTime
    PROVE  /\ Altered /\ Progress'
           /\ cur.d \in DOMAIN dst' /\ dst'[cur.d].k = "file" /\ dst'[cur.d].c = From.c
           /\ Given("times") => dst'[cur.d].mt = From.mt
<1> DEFINE node == [dst[cur.d] EXCEPT !.mt = From.mt]
           u == [dst EXCEPT ![cur.d] = node]
<1>1. /\ Busy /\ dst' = (IF Given("times") THEN u ELSE dst) /\ pc = "meta" /\ pc' = "walk"
  BY EntryControl DEF SetTime, EntryAction, EntryDone, At
<1>2. /\ IsTree(dst) /\ OneFile(dst) /\ Tells(dst) /\ From.k = "file"
      /\ cur.d \in DOMAIN dst /\ dst[cur.d].k = "file" /\ dst[cur.d].c = From.c /\ Single(dst, cur.d)
  BY <1>1 DEF Base, Progress
<1>3. /\ cur.d \in Path /\ cur.d # <<>>
  BY <1>1, NamesOf
<1>4. Progress'
  BY <1>1, NoProgress DEF EntryStates
<1>5. CASE ~Given("times")
  BY <1>1, <1>2, <1>4, <1>5, ChangeNone
<1>6. CASE Given("times")
  <2>1. /\ node \in Nodes /\ node.c = dst[cur.d].c /\ node.k = dst[cur.d].k /\ node.i = dst[cur.d].i
        /\ node.mt = From.mt
    BY <1>1, <1>2, FromAt, TreeNode, NodeFields
  <2> HIDE DEF node
  <2>2. /\ DOMAIN u = DOMAIN dst /\ u[cur.d] = node
        /\ \A q \in DOMAIN dst : q # cur.d => u[q] = dst[q]
    BY <1>2 DEF IsTree
  <2>3. IsTree(u)
    BY <1>2, <2>1, SetFieldAt
  <2> HIDE DEF u
  <2>4. OneFile(u)
    BY <1>2, <2>1, <2>2, OneFileSet
  <2>5. Telling(node)
    <3>1. Telling(From)
      BY <1>1, FromAt
    <3> QED
      BY <1>2, <2>1, <3>1 DEF Telling
  <2>6. Tells(u)
    BY <1>2, <2>2, <2>5 DEF Tells
  <2>7. ASSUME NEW p \in Path
        PROVE  Effect(p)
    <3>1. CASE p = cur.d
      <4>1. IsPrefix(cur.d, p)
        BY <3>1, PrefixRefl
      <4> QED
        BY <1>1, <1>2, <1>6, <2>1, <2>2, <3>1, <4>1 DEF Effect
    <3>2. CASE p # cur.d
      BY <1>1, <1>6, <2>2, <3>2 DEF Effect
    <3> QED
      BY <3>1, <3>2
  <2> QED
    BY <1>1, <1>2, <1>4, <1>6, <2>1, <2>2, <2>3, <2>4, <2>6, <2>7 DEF Altered
<1> QED
  BY <1>5, <1>6

\* Every step of the copy of an entry.
LEMMA EntryChange ==
    ASSUME WalkInv, Base, EntryAction
    PROVE  Altered /\ Base'
<1>1. Altered /\ Progress'
  BY QuietChange, UnlinkFollowerChange, LinkFollowerChange, LinkTmpChange, LinkNameChange, BackupChange,
     UnlinkOldChange, SymlinkChange, CreateTmpChange, FillTmpChange, RenameTmpChange, SetTimeChange
     DEF EntryAction
<1>2. LinksPlain' /\ Leading'
  BY EntryLinks DEF Base
<1>3. IsTree(dst') /\ OneFile(dst') /\ Tells(dst')
  BY <1>1 DEF Altered
<1>4. IsTree(dst)' /\ OneFile(dst)' /\ Tells(dst)'
  BY <1>3 DEF IsTree, OneFile, Tells, IsDir, Single, Telling
<1> QED
  BY <1>1, <1>2, <1>4 DEF Base

-----------------------------------------------------------------------------
(* What the walk, a start, a kill and the --delete pass do to the          *)
(* destination.                                                            *)

Ending == pc = "delete" => Given("delete") /\ isdir

Pruning ==
    /\ Leave /\ Top.n = 0 /\ Given("prune_empty_dirs") /\ Wet
    /\ Children(dst, Top.d) = {} /\ dst' = Drop(dst, {Top.d})

Deleting(p) == Delete(p) /\ p \in DOMAIN dst /\ dst' = Drop(dst, {p})

\* A frame is of something the command line reaches.
FrameItem(j) == [k |-> arg, s |-> stack[j].s, d |-> stack[j].d]

LEMMA FrameAt ==
    ASSUME WalkInv, NEW j \in 1..Len(stack)
    PROVE  /\ FrameItem(j) \in AllReached /\ IsDir(Src, stack[j].s) /\ stack[j].s \in DOMAIN Src
           /\ FrameItem(j).k = arg /\ FrameItem(j).s = stack[j].s /\ FrameItem(j).d = stack[j].d
           /\ stack[j].s \in Reached(ArgTask) /\ stack[j].d = Place(ArgTask, stack[j].s)
           /\ stack[j].d \in Path /\ stack[j].d # <<>> /\ Plain(stack[j].d) /\ ~Helper(stack[j].d)
           /\ stack[j] \in FrameType /\ IsTask(ArgTask)
<1>1. stack # <<>> /\ stack \in Seq(FrameType) /\ arg \in DOMAIN cmd.args /\ FrameOf(stack[j], ArgTask)
      /\ stack[j] \in FrameType
  <2>1. stack \in Seq(FrameType) /\ FrameOf(stack[j], ArgTask)
    BY DEF WalkInv, Walking
  <2>2. stack # <<>>
    BY <2>1, EmptySeq
  <2>3. stack[j] \in FrameType
    BY <2>1, ElementOfSeq
  <2> QED
    BY <2>1, <2>2, <2>3 DEF WalkInv, Walking
<1>2. /\ stack[j].s \in Reached(ArgTask) /\ IsDir(Src, stack[j].s) /\ stack[j].d = Place(ArgTask, stack[j].s)
  BY <1>1 DEF FrameOf
<1>3. FrameItem(j) \in AllReached
  BY <1>1, <1>2, ReachedIs DEF FrameItem, ArgTask
<1>4. FrameItem(j).k = arg /\ FrameItem(j).s = stack[j].s /\ FrameItem(j).d = stack[j].d
  BY DEF FrameItem
<1>5. cmd \in Commands \cup {NoCommand}
  BY DEF WalkInv, Control
<1>6. stack[j].d \in Path /\ stack[j].d # <<>> /\ Plain(stack[j].d) /\ ~Helper(stack[j].d)
  BY <1>3, <1>4, <1>5, ItemAt
<1>7. IsTask(ArgTask)
  BY <1>1, ArgIs
<1> QED
  BY <1>1, <1>2, <1>3, <1>4, <1>6, <1>7 DEF IsDir

LEMMA StartChange ==
    ASSUME WalkInv, Base, Start
    PROVE  /\ Keeps(dst, dst') /\ Base' /\ DOMAIN dst \subseteq DOMAIN dst' /\ before' = dst
           /\ pc' = "walk" /\ stack' = <<>> /\ arg' = 1 /\ links' = <<>> /\ kept' = {}
           /\ ~Wet' => dst' = dst
<1>1. dst' = dst \/ (CanMkDirs(dst, Root) /\ dst' = MkDirs(dst, Root))
  BY DEF Start
<1>2. IsTree(dst) /\ OneFile(dst) /\ Tells(dst)
  BY DEF Base
<1>3. Keeps(dst, dst')
  BY <1>1, <1>2, KeepsSelf, KeepsMkDirs, RootAt
<1>4. DOMAIN dst \subseteq DOMAIN dst'
  BY <1>1 DEF MkDirs
<1>5. IsTree(dst') /\ OneFile(dst') /\ Tells(dst')
  BY <1>2, <1>3, OneFileKept, TellsKept DEF Keeps
<1>6. pc' = "walk" /\ links' = <<>> /\ before' = dst /\ stack' = <<>> /\ arg' = 1 /\ kept' = {}
  BY DEF Start
<1>7. Progress' /\ Leading'
  BY <1>6, NoProgress DEF EntryStates
<1>8. LinksPlain'
  BY <1>6 DEF LinksPlain
<1>9. ~Wet' => dst' = dst
  BY DEF Start, Wet, Given
<1>10. Base'
  BY <1>5, <1>7, <1>8 DEF Base, IsTree, OneFile, Tells, IsDir, Single, Telling
<1> QED
  BY <1>3, <1>4, <1>6, <1>9, <1>10

LEMMA KillChange ==
    ASSUME WalkInv, Base, Kill
    PROVE  Keeps(dst, dst') /\ Base' /\ pc' = "idle" /\ Run
           /\ \/ dst' = dst
              \/ /\ pc \in {"fill", "rename"} /\ Busy /\ DOMAIN dst' = DOMAIN dst \ {Tmp}
                 /\ Helper(Tmp) /\ Last(Tmp) \in Range(TmpName) /\ Tmp # <<>>
<1>1. /\ pc' = "idle" /\ links' = <<>> /\ Run
      /\ dst' = dst \/ (pc \in {"fill", "rename"} /\ dst' = Drop(dst, {Tmp}))
  BY DEF Kill
<1>2. IsTree(dst) /\ OneFile(dst) /\ Tells(dst) /\ Progress
  BY DEF Base
<1>3. CASE dst' = dst
  <2>1. Keeps(dst, dst')
    BY <1>2, <1>3, KeepsSelf
  <2>2. Progress' /\ Leading' /\ LinksPlain'
    BY <1>1, NoProgress DEF EntryStates, LinksPlain
  <2> QED
    BY <1>1, <1>2, <1>3, <2>1, <2>2 DEF Base, IsTree, OneFile, Tells, IsDir, Single, Telling
<1>4. CASE pc \in {"fill", "rename"} /\ dst' = Drop(dst, {Tmp})
  <2>1. Busy
    BY <1>4 DEF Busy, EntryStates
  <2>2. Tmp \in Path /\ ~IsDir(dst, Tmp) /\ Tmp # <<>> /\ Last(Tmp) \in HelperNames /\ Last(Tmp) \in Range(TmpName)
    BY <1>2, <1>4, <2>1, NamesOf DEF Progress, IsDir
  <2>3. Keeps(dst, dst') /\ DOMAIN dst' = DOMAIN dst \ {Tmp}
    BY <1>2, <1>4, <2>2, KeepsDropOne
  <2>4. OneFile(dst') /\ Tells(dst') /\ IsTree(dst')
    BY <1>2, <2>3, OneFileKept, TellsKept DEF Keeps
  <2>5. Progress' /\ Leading' /\ LinksPlain'
    BY <1>1, NoProgress DEF EntryStates, LinksPlain
  <2>6. Helper(Tmp)
    BY <2>2, HelperBelow, PrefixRefl
  <2> QED
    BY <1>1, <1>4, <2>1, <2>2, <2>3, <2>4, <2>5, <2>6 DEF Base, IsTree, OneFile, Tells, IsDir, Single, Telling
<1> QED
  BY <1>1, <1>3, <1>4

LEMMA WalkChange ==
    ASSUME WalkInv, Base, WalkAction
    PROVE  /\ Keeps(dst, dst') /\ Base' /\ Run /\ bak' = bak
           /\ ~Wet => dst' = dst
           /\ DOMAIN dst \subseteq DOMAIN dst' \/ Pruning \/ \E p \in DOMAIN dst : Deleting(p)
<1>1. IsTree(dst) /\ OneFile(dst) /\ Tells(dst) /\ LinksPlain
  BY DEF Base
<1>2. cmd \in Commands \cup {NoCommand}
  BY DEF WalkInv, Control
<1>3. Run /\ bak' = bak /\ links' = links /\ (pc' \notin EntryStates \/ pc' = "entry")
  <2>1. CASE SkipArg \/ FileArg \/ Leave \/ EndWalk \/ EndDelete \/ \E p \in DOMAIN dst : Delete(p)
    BY <2>1 DEF SkipArg, AtArg, FileArg, Leave, EndWalk, EndDelete, Delete, Run, EntryStates, At
  <2>2. CASE DirArg
    BY <2>2 DEF DirArg, Enter, AtArg, EntryStates
  <2>3. CASE stack # <<>> /\ \E n \in Top.todo : Visit(n)
    BY <2>3 DEF Visit, Enter, EntryStates
  <2> QED
    BY <2>1, <2>2, <2>3 DEF WalkAction
<1>4. Progress' /\ Leading' /\ LinksPlain'
  <2>1. CASE pc' \notin EntryStates
    BY <1>1, <1>3, <2>1, NoProgress DEF LinksPlain, Plain
  <2>2. CASE pc' = "entry"
    BY <1>1, <1>3, <2>2 DEF LinksPlain, Plain, Progress, Leading
  <2> QED
    BY <1>3, <2>1, <2>2
<1>5. ASSUME Keeps(dst, dst')
      PROVE  Base'
  <2>1. OneFile(dst') /\ Tells(dst') /\ IsTree(dst')
    BY <1>1, <1>5, OneFileKept, TellsKept DEF Keeps
  <2> QED
    BY <1>4, <2>1 DEF Base, IsTree, OneFile, Tells, IsDir, Single, Telling
<1>6. ASSUME NEW d \in Path, Wet => CanMkDirs(dst, d),
             dst' = dst \/ (Wet /\ dst' = MkDirs(dst, d))
      PROVE  Keeps(dst, dst') /\ (~Wet => dst' = dst) /\ DOMAIN dst \subseteq DOMAIN dst'
  <2>1. CASE dst' = dst
    BY <1>1, <2>1, KeepsSelf
  <2>2. CASE Wet /\ dst' = MkDirs(dst, d)
    <3>1. Keeps(dst, dst')
      BY <1>1, <1>6, <2>2, KeepsMkDirs
    <3>2. DOMAIN dst \subseteq DOMAIN dst'
      BY <2>2 DEF MkDirs
    <3> QED
      BY <2>2, <3>1, <3>2
  <2> QED
    BY <1>6, <2>1, <2>2
<1>7. CASE dst' = dst
  BY <1>1, <1>3, <1>5, <1>7, KeepsSelf
<1>8. CASE AtArg /\ dst' # dst
  <2>1. arg \in DOMAIN cmd.args
    BY <1>8, ArgIs
  <2> DEFINE t == Task(cmd.args[arg])
  <2>2. IsTask(t)
    BY <1>2, <2>1, TaskAt
  <2>3. t.d \in Path /\ t.d # <<>> /\ Front(t.d) \in Path
    <3>1. t.d \in Path /\ IsPrefix(Root, t.d)
      BY <2>2 DEF IsTask
    <3>2. t.d # <<>>
      BY <3>1, RootAt, StrictLen, PathLen
    <3> QED
      BY <3>1, <3>2, FrontAt
  <2>4. CASE SkipArg
    <3>1. /\ dst' = dst \/ (Wet /\ dst' = MkDirs(dst, t.d) /\ CanMkDirs(dst, t.d))
      BY <2>4 DEF SkipArg
    <3> HIDE DEF t
    <3> QED
      BY <1>3, <1>5, <1>6, <1>8, <2>3, <3>1
  <2>5. CASE DirArg
    <3>1. /\ dst' = dst \/ (Wet /\ dst' = MkDirs(dst, t.d) /\ CanMkDirs(dst, t.d))
      BY <2>5 DEF DirArg, Enter
    <3> HIDE DEF t
    <3> QED
      BY <1>3, <1>5, <1>6, <1>8, <2>3, <3>1
  <2>6. CASE FileArg
    <3>1. /\ dst' = dst \/ (Wet /\ dst' = MkDirs(dst, Front(t.d)) /\ CanMkDirs(dst, Front(t.d)))
      BY <2>6 DEF FileArg
    <3> HIDE DEF t
    <3> QED
      BY <1>3, <1>5, <1>6, <1>8, <2>3, <3>1
  <2>7. SkipArg \/ DirArg \/ FileArg
    BY <1>8 DEF WalkAction, AtArg, Leave, EndWalk, Delete, EndDelete, At, CommandType
  <2> QED
    BY <2>4, <2>5, <2>6, <2>7
<1>9. CASE dst' # dst /\ Leave
  <2>1. /\ Top.n = 0 /\ Given("prune_empty_dirs") /\ Wet /\ Children(dst, Top.d) = {} /\ dst' = Drop(dst, {Top.d})
        /\ stack # <<>>
    BY <1>9 DEF Leave
  <2>2. Pruning
    BY <1>9, <2>1 DEF Pruning
  <2>3. Top.d \in Path
    BY <2>1, TopAt DEF WalkInv, FrameType
  <2>4. Keeps(dst, dst')
    BY <1>1, <2>1, <2>3, KeepsDropOne
  <2> QED
    BY <1>3, <1>5, <2>1, <2>2, <2>4
<1>10. ASSUME dst' # dst, NEW p \in DOMAIN dst, Delete(p)
       PROVE  /\ Keeps(dst, dst') /\ Base' /\ Run /\ bak' = bak
              /\ ~Wet => dst' = dst
              /\ DOMAIN dst \subseteq DOMAIN dst' \/ Pruning \/ \E q \in DOMAIN dst : Deleting(q)
  <2>1. dst' = Drop(dst, {p}) /\ Wet /\ Children(dst, p) = {}
    BY <1>10 DEF Delete
  <2>2. Deleting(p)
    BY <1>10, <2>1 DEF Deleting
  <2>3. p \in Path
    BY <1>1 DEF IsTree
  <2>4. Keeps(dst, dst')
    BY <1>1, <2>1, <2>3, KeepsDropOne
  <2> QED
    BY <1>3, <1>5, <2>1, <2>2, <2>4
<1>11. ASSUME dst' # dst, stack # <<>>, NEW n \in Top.todo, Visit(n)
       PROVE  /\ Keeps(dst, dst') /\ Base' /\ Run /\ bak' = bak
              /\ ~Wet => dst' = dst
              /\ DOMAIN dst \subseteq DOMAIN dst' \/ Pruning \/ \E q \in DOMAIN dst : Deleting(q)
  <2> DEFINE c == [s |-> Append(Top.s, n), d |-> Append(Top.d, n), rel |-> Append(Top.rel, n)]
  <2>1. c \in [s : Path, d : Path, rel : Path]
    BY <1>11, ChildAt
  <2>2. dst' = dst \/ (Wet /\ dst' = MkDirs(dst, c.d) /\ CanMkDirs(dst, c.d))
    BY <1>11 DEF Visit, Enter
  <2>3. c.d \in Path
    BY <2>1
  <2> HIDE DEF c
  <2> QED
    BY <1>3, <1>5, <1>6, <1>11, <2>2, <2>3
<1>12. EndWalk \/ EndDelete => dst' = dst
  BY DEF EndWalk, EndDelete
<1>13. SkipArg \/ DirArg \/ FileArg => AtArg
  BY DEF SkipArg, DirArg, FileArg
<1> QED
  BY <1>7, <1>8, <1>9, <1>10, <1>11, <1>12, <1>13 DEF WalkAction

\* A dry run has changed nothing and copies nothing.
Dry == ~Wet => dst = before /\ pc \notin EntryStates \ {"entry"}

FramesMade == Wet => \A j \in 1..Len(stack) : IsDir(dst, stack[j].d)

Ground == Base /\ IsTree(before) /\ Dry /\ FramesMade /\ Ending

\* What a step of an entry does to the frames.
LEMMA EntryStack ==
    ASSUME WalkInv, EntryAction
    PROVE  /\ stack' \in Seq(FrameType) /\ LessToDo(stack', stack) /\ Len(stack') = Len(stack)
           /\ \A j \in 1..Len(stack) : stack'[j].todo = stack[j].todo
           /\ \A j \in 1..(Len(stack) - 1) : stack'[j].n = stack[j].n
           /\ pc' \in EntryStates => stack' = stack
           /\ pc' \notin EntryStates /\ stack # <<>> => stack'[Len(stack)].n = stack[Len(stack)].n + 1
<1>0. stack \in Seq(FrameType)
  BY DEF WalkInv, Walking
<1>1. CASE stack' = stack /\ (pc' \in EntryStates \/ stack = <<>>)
  BY <1>0, <1>1, SameLess
<1>2. CASE EntryDone /\ stack # <<>>
  <2>1. stack \in Seq(FrameType) /\ Top.n + 1 \in Nat /\ Top = stack[Len(stack)]
    BY <1>2, TopAt DEF WalkInv, FrameType, Walking
  <2> DEFINE m == Top.n + 1
             R == [stack EXCEPT ![Len(stack)].n = m]
  <2>2. stack' = R /\ pc' \notin EntryStates
    BY <1>2 DEF EntryDone, Top, EntryStates
  <2>3. m \in Nat /\ m = stack[Len(stack)].n + 1
    BY <2>1
  <2> HIDE DEF m
  <2>4. /\ R \in Seq(FrameType) /\ LessToDo(R, stack) /\ Len(R) = Len(stack)
        /\ \A j \in 1..Len(stack) : R[j].todo = stack[j].todo
        /\ R[Len(stack)].n = m /\ \A j \in 1..(Len(stack) - 1) : R[j].n = stack[j].n
    BY <1>2, <2>1, <2>3, Bumped, SMTT(40)
  <2> HIDE DEF R
  <2> QED
    BY <2>2, <2>3, <2>4
<1>3. CASE EntryDone /\ stack = <<>>
  <2>1. stack' = stack
    BY <1>3 DEF EntryDone
  <2> QED
    BY <1>1, <1>3, <2>1
<1> QED
  BY <1>1, <1>2, <1>3, EntryControl

\* The end of a directory.
LEMMA LeaveStack ==
    ASSUME WalkInv, Leave
    PROVE  /\ Len(stack) \in Nat \ {0} /\ Len(stack') = Len(stack) - 1
           /\ stack' \in Seq(FrameType) /\ LessToDo(stack', stack)
           /\ \A j \in 1..(Len(stack) - 1) : stack'[j].todo = stack[j].todo /\ stack'[j].s = stack[j].s
           /\ \A j \in 1..(Len(stack) - 2) : stack'[j].n = stack[j].n
           /\ Len(stack) > 1 =>
                stack'[Len(stack) - 1].n =
                  IF /\ Top.n = 0 /\ Given("prune_empty_dirs")
                  THEN stack[Len(stack) - 1].n ELSE stack[Len(stack) - 1].n + 1
<1> DEFINE F == Front(stack)
           z == Len(stack)
           pruned == /\ Top.n = 0 /\ Given("prune_empty_dirs")
                     /\ Len(stack) = 1 /\ cmd.kind = "sources" => isdir
<1>1. /\ stack # <<>>
      /\ stack' = IF Len(stack) = 1 \/ pruned THEN F ELSE [F EXCEPT ![Len(F)].n = F[Len(F)].n + 1]
  BY DEF Leave
<1>2. /\ z \in Nat \ {0} /\ stack \in Seq(FrameType)
      /\ F \in Seq(FrameType) /\ LessToDo(F, stack) /\ Len(F) = z - 1
      /\ \A j \in 1..(z - 1) : F[j] = stack[j]
  BY <1>1, TopAt, Left DEF WalkInv, Walking
<1> HIDE DEF F, z
<1>3. \A j \in 1..(z - 1) : F[j].s = stack[j].s /\ F[j].todo = stack[j].todo /\ F[j].n = stack[j].n
  BY <1>2
<1>4. CASE z = 1
  BY <1>1, <1>2, <1>3, <1>4 DEF z
<1>5. CASE z # 1 /\ pruned
  <2>1. stack' = F
    BY <1>1, <1>5
  <2>2. z - 1 \in 1..(z - 1) /\ \A j \in 1..(z - 2) : j \in 1..(z - 1)
    BY <1>2, <1>5
  <2> QED
    BY <1>2, <1>3, <1>5, <2>1, <2>2 DEF z
<1>6. CASE z # 1 /\ ~pruned
  <2> DEFINE m == F[Len(F)].n + 1
             R == [F EXCEPT ![Len(F)].n = m]
  <2>1. stack' = R
    BY <1>1, <1>6 DEF z
  <2>2. F # <<>> /\ Len(F) \in 1..Len(F) /\ Len(F) \in Nat
    BY <1>2, <1>6, EmptySeq
  <2>3. F[Len(F)] \in FrameType
    BY <1>2, <2>2, ElementOfSeq
  <2>4. m \in Nat
    BY <2>3 DEF FrameType
  <2> HIDE DEF m
  <2>5. /\ R \in Seq(FrameType) /\ LessToDo(R, F) /\ Len(R) = Len(F)
        /\ \A j \in 1..Len(F) : R[j].todo = F[j].todo
        /\ R[Len(F)].n = m /\ \A j \in 1..(Len(F) - 1) : R[j].n = F[j].n
    BY <1>2, <2>2, <2>4, Bumped
  <2> HIDE DEF R
  <2>6. LessToDo(R, stack)
    BY <1>2, <2>5, LessTrans
  <2>7. \A j \in 1..(z - 1) : R[j].s = F[j].s /\ R[j].todo = F[j].todo
    BY <1>2, <2>5 DEF LessToDo
  <2>8. \A j \in 1..(z - 2) : R[j].n = F[j].n /\ j \in 1..(z - 1)
    BY <1>2, <1>6, <2>5
  <2>9. R[z - 1].n = F[z - 1].n + 1 /\ z - 1 \in 1..(z - 1)
    BY <1>2, <1>6, <2>5 DEF m
  <2>10. ~(Top.n = 0 /\ Given("prune_empty_dirs"))
    BY <1>6 DEF z
  <2> QED
    BY <1>2, <1>3, <2>1, <2>5, <2>6, <2>7, <2>8, <2>9, <2>10 DEF z
<1> QED
  BY <1>4, <1>5, <1>6

\* A directory that is being walked lies above the entry.
LEMMA FramesAbove ==
    ASSUME WalkInv, Busy, NEW j \in 1..Len(stack)
    PROVE  ~IsPrefix(cur.d, stack[j].d) /\ IsPrefix(stack[j].s, cur.s) /\ stack[j].s # cur.s
<1>1. /\ stack # <<>> /\ stack \in Seq(FrameType) /\ Len(stack) \in Nat \ {0}
  <2>1. stack \in Seq(FrameType)
    BY DEF WalkInv, Walking
  <2>2. stack # <<>>
    BY <2>1, EmptySeq
  <2> QED
    BY <2>1, <2>2, TopAt DEF WalkInv
<1>2. /\ cur.s # <<>> /\ Front(cur.s) = stack[Len(stack)].s /\ cur.s \in Path
      /\ cur.d = Place(ArgTask, cur.s) /\ cur.s \in Reached(ArgTask)
  BY <1>1 DEF WalkInv, Entry, Top, Selected
<1>3. IsPrefix(stack[Len(stack)].s, cur.s) /\ stack[Len(stack)].s # cur.s /\ stack[Len(stack)].s \in Path
  BY <1>2, FrontAt
<1>4. stack[j].s \in Path /\ stack[j].s \in Reached(ArgTask) /\ stack[j].d = Place(ArgTask, stack[j].s) /\ IsTask(ArgTask)
  BY FrameAt DEF FrameType
<1>5. IsPrefix(stack[j].s, stack[Len(stack)].s)
  <2>1. CASE j = Len(stack)
    BY <1>4, <2>1, PrefixRefl
  <2>2. CASE j # Len(stack)
    BY <1>1, <2>2 DEF WalkInv, Walking
  <2> QED
    BY <2>1, <2>2
<1>6. IsPrefix(stack[j].s, cur.s) /\ stack[j].s # cur.s
  <2>1. IsPrefix(stack[j].s, cur.s)
    BY <1>2, <1>3, <1>4, <1>5, PrefixTrans
  <2>2. Len(stack[j].s) <= Len(stack[Len(stack)].s) /\ Len(stack[Len(stack)].s) < Len(cur.s)
        /\ Len(stack[j].s) \in Nat /\ Len(cur.s) \in Nat /\ Len(stack[Len(stack)].s) \in Nat
    BY <1>2, <1>3, <1>4, <1>5, StrictLen, PathLen
  <2> QED
    BY <2>1, <2>2
<1>7. ~IsPrefix(cur.s, stack[j].s)
  BY <1>2, <1>4, <1>6, StrictLen, PathLen
<1> QED
  BY <1>2, <1>4, <1>6, <1>7, PlacePrefix

\* A place of the run is never below a helper name.
LEMMA PlainApart ==
    ASSUME WalkInv, Busy, NEW p \in Path, ~Helper(p)
    PROVE  ~IsPrefix(Tmp, p) /\ ~IsPrefix(LdTmp, p) /\ ~IsPrefix(BackName, p)
BY NamesOf, HelperBelow

\* A path that is no helper and not below the place of the entry.
LEMMA EntryElsewhere ==
    ASSUME WalkInv, Base, EntryAction, NEW p \in Path, ~Helper(p), ~IsPrefix(cur.d, p)
    PROVE  \/ p \in DOMAIN dst /\ p \in DOMAIN dst' /\ dst'[p] = dst[p]
           \/ p \notin DOMAIN dst /\ (p \in DOMAIN dst' => IsDir(dst', p))
<1>1. Effect(p)
  BY EntryChange DEF Altered
<1>2. Busy
  BY EntryControl
<1> QED
  BY <1>1, <1>2, PlainApart DEF Effect

LEMMA FramesEntry ==
    ASSUME WalkInv, Ground, EntryAction
    PROVE  FramesMade'
<1> SUFFICES ASSUME Wet', NEW j \in 1..Len(stack') PROVE IsDir(dst', stack'[j].d)
  BY DEF FramesMade, IsDir
<1>1. Busy /\ Run
  BY EntryControl
<1>2. Wet /\ j \in 1..Len(stack) /\ stack'[j].d = stack[j].d
  BY <1>1, EntryStack DEF LessToDo, Run, Wet, Given
<1>3. IsDir(dst, stack[j].d)
  BY <1>2 DEF Ground, FramesMade
<1>4. stack[j].d \in Path /\ ~Helper(stack[j].d)
  BY <1>2, FrameAt
<1>5. ~IsPrefix(cur.d, stack[j].d)
  BY <1>1, <1>2, FramesAbove
<1>6. stack[j].d \in DOMAIN dst' /\ dst'[stack[j].d] = dst[stack[j].d]
  BY <1>3, <1>4, <1>5, EntryElsewhere DEF Ground, IsDir
<1> QED
  BY <1>2, <1>3, <1>6 DEF IsDir

LEMMA FramesEntered ==
    ASSUME WalkInv, Ground, Run, NEW above \in Seq(FrameType), LessToDo(above, stack), NEW t, t.d \in Path,
           Enter(t, above)
    PROVE  FramesMade'
<1> SUFFICES ASSUME Wet', NEW j \in 1..Len(stack') PROVE IsDir(dst', stack'[j].d)
  BY DEF FramesMade, IsDir
<1>1. Wet /\ CanMkDirs(dst, t.d) /\ dst' = MkDirs(dst, t.d) /\ stack' = Append(above, Frame(t))
  BY DEF Enter, Run, Wet, Given
<1>2. IsTree(dst)
  BY DEF Ground, Base
<1>3. \A q \in DOMAIN dst : q \in DOMAIN dst' /\ dst'[q] = dst[q]
  BY <1>1, <1>2 DEF MkDirs
<1>4. \A q \in Path : IsPrefix(q, t.d) => IsDir(dst', q)
  BY <1>1, <1>2, MkDirsAt
<1>5. Frame(t).d = t.d
  BY DEF Frame
<1>6. Len(above) \in Nat /\ Len(stack') = Len(above) + 1 /\ stack'[Len(above) + 1] = Frame(t)
      /\ \A i \in 1..Len(above) : stack'[i] = above[i]
  BY <1>1, LenProperties, AppendProperties
<1>7. CASE j = Len(above) + 1
  BY <1>4, <1>5, <1>6, <1>7, PrefixRefl
<1>8. CASE j # Len(above) + 1
  <2>1. j \in 1..Len(above) /\ stack'[j] = above[j]
    BY <1>6, <1>8
  <2>2. j \in 1..Len(stack) /\ above[j].d = stack[j].d
    <3>1. Len(stack) \in Nat
      BY LenProperties DEF WalkInv, Walking
    <3> QED
      BY <1>6, <2>1, <3>1 DEF LessToDo
  <2>3. IsDir(dst, stack[j].d)
    BY <1>1, <2>2 DEF Ground, FramesMade
  <2> QED
    BY <1>3, <2>1, <2>2, <2>3 DEF IsDir
<1> QED
  BY <1>7, <1>8

\* Frames that were there before, in a step that takes none of their directories.
LEMMA FramesLess ==
    ASSUME WalkInv, Ground, cmd' = cmd, LessToDo(stack', stack), stack' \in Seq(FrameType), Keeps(dst, dst'),
           \A j \in 1..Len(stack') : stack[j].d \in DOMAIN dst => stack[j].d \in DOMAIN dst'
    PROVE  FramesMade'
<1> SUFFICES ASSUME Wet', NEW j \in 1..Len(stack') PROVE IsDir(dst', stack'[j].d)
  BY DEF FramesMade, IsDir
<1>1. Wet
  BY DEF Wet, Given
<1>2. Len(stack) \in Nat /\ Len(stack') \in Nat
  BY LenProperties DEF WalkInv, Walking
<1>3. j \in 1..Len(stack) /\ stack'[j].d = stack[j].d
  BY <1>2 DEF LessToDo
<1>4. IsDir(dst, stack[j].d)
  BY <1>1, <1>3 DEF Ground, FramesMade
<1> QED
  BY <1>3, <1>4 DEF IsDir, Keeps

LEMMA FramesWalk ==
    ASSUME WalkInv, Ground, WalkAction
    PROVE  FramesMade'
<1>0. stack \in Seq(FrameType) /\ LessToDo(stack, stack) /\ Base
  BY SameLess DEF WalkInv, Walking, Ground
<1>1. /\ Keeps(dst, dst') /\ Run
      /\ DOMAIN dst \subseteq DOMAIN dst' \/ Pruning \/ \E p \in DOMAIN dst : Deleting(p)
  BY <1>0, WalkChange
<1>2. CASE SkipArg \/ FileArg \/ EndWalk \/ EndDelete
  <2>1. stack' = stack
    BY <1>2 DEF SkipArg, FileArg, EndWalk, EndDelete
  <2>2. DOMAIN dst \subseteq DOMAIN dst' \/ stack = <<>>
    BY <1>2 DEF SkipArg, FileArg, EndWalk, EndDelete, AtArg
  <2>3. CASE stack = <<>>
    BY <2>1, <2>3 DEF FramesMade
  <2>4. CASE DOMAIN dst \subseteq DOMAIN dst'
    BY <1>0, <1>1, <2>1, <2>4, FramesLess DEF Run
  <2> QED
    BY <2>2, <2>3, <2>4
<1>3. CASE \E p \in DOMAIN dst : Delete(p)
  <2>1. stack' = stack /\ stack = <<>>
    BY <1>3 DEF Delete, At, WalkInv, Control
  <2> QED
    BY <2>1 DEF FramesMade
<1>4. CASE DirArg
  <2>1. arg \in DOMAIN cmd.args
    BY <1>4, ArgIs DEF DirArg
  <2>2. Task(cmd.args[arg]).d \in Path
    BY <2>1, TaskAt DEF IsTask, WalkInv, Control
  <2>3. Enter(Task(cmd.args[arg]), stack)
    BY <1>4 DEF DirArg
  <2> QED
    BY <1>0, <1>1, <2>2, <2>3, FramesEntered
<1>5. ASSUME stack # <<>>, NEW n \in Top.todo, Visit(n)
      PROVE  FramesMade'
  <2> DEFINE c == [s |-> Append(Top.s, n), d |-> Append(Top.d, n), rel |-> Append(Top.rel, n)]
             rest == [stack EXCEPT ![Len(stack)].todo = @ \ {n}]
  <2>1. c \in [s : Path, d : Path, rel : Path]
    BY <1>5, ChildAt
  <2>2. c.d \in Path
    BY <2>1
  <2>3. rest \in Seq(FrameType) /\ LessToDo(rest, stack)
    BY <1>0, <1>5, Visited
  <2>4. (stack' = rest /\ dst' = dst) \/ Enter(c, rest)
    BY <1>5 DEF Visit
  <2> HIDE DEF c, rest
  <2>5. CASE stack' = rest /\ dst' = dst
    BY <1>1, <2>3, <2>5, FramesLess DEF Run
  <2>6. CASE Enter(c, rest)
    BY <1>1, <2>2, <2>3, <2>6, FramesEntered
  <2> QED
    BY <2>4, <2>5, <2>6
<1>6. CASE Leave
  <2>1. /\ Len(stack) \in Nat \ {0} /\ Len(stack') = Len(stack) - 1
        /\ stack' \in Seq(FrameType) /\ LessToDo(stack', stack)
    BY <1>6, LeaveStack
  <2>2. ASSUME NEW j \in 1..Len(stack'), stack[j].d \in DOMAIN dst
        PROVE  stack[j].d \in DOMAIN dst'
    <3>1. DOMAIN dst' = DOMAIN dst \/ DOMAIN dst' = DOMAIN dst \ {Top.d}
      BY <1>6 DEF Leave, Drop
    <3>2. j \in 1..Len(stack) /\ Len(stack) \in 1..Len(stack) /\ j < Len(stack)
      BY <2>1
    <3>3. stack[j].s # stack[Len(stack)].s
      BY <3>2 DEF WalkInv, Walking
    <3>4. /\ stack[j].d = Place(ArgTask, stack[j].s) /\ stack[j].s \in Reached(ArgTask) /\ IsTask(ArgTask)
          /\ Top.d = Place(ArgTask, Top.s) /\ Top.s \in Reached(ArgTask) /\ Top = stack[Len(stack)]
      BY <3>2, FrameAt DEF Top
    <3>5. stack[j].d # Top.d
      BY <3>3, <3>4, PlacePrefix
    <3> QED
      BY <2>2, <3>1, <3>5
  <2> QED
    BY <1>1, <2>1, <2>2, FramesLess DEF Run
<1> QED
  BY <1>2, <1>3, <1>4, <1>5, <1>6 DEF WalkAction

LEMMA DryEntryOnly ==
    ASSUME Dry, EntryAction, ~Wet
    PROVE  DryEntry
<1>1. pc \in EntryStates => pc = "entry"
  BY DEF Dry
<1>2. Busy
  BY EntryControl
<1>3. pc = "entry"
  BY <1>1, <1>2 DEF Busy
<1> QED
  BY <1>3 DEF EntryAction, SkipEntry, UnlinkFollower, LinkFollower, LinkTmp, LinkName,
     Decide, Backup, Special, UnlinkOld, Symlink, CreateTmp, FillTmp, RenameTmp, SetTime, At

LEMMA GroundStep ==
    ASSUME WalkInv, Ground, LocalNext
    PROVE  Ground'
<1>0. Base /\ Dry /\ IsTree(before) /\ IsTree(dst)
  BY DEF Ground, Base
<1>1. CASE Start
  <2>1. /\ Base' /\ before' = dst /\ pc' = "walk" /\ stack' = <<>> /\ (~Wet' => dst' = dst)
    BY <1>0, <1>1, StartChange
  <2>2. Dry' /\ FramesMade' /\ Ending' /\ IsTree(before)'
    BY <1>0, <2>1 DEF Dry, FramesMade, Ending, EntryStates, IsTree, IsDir
  <2> QED
    BY <1>0, <1>1, <2>1, <2>2, StartChange DEF Ground
<1>2. CASE Kill
  <2>1. Base' /\ pc' = "idle" /\ Run /\ (dst' = dst \/ pc \in {"fill", "rename"}) /\ stack' = <<>>
    BY <1>0, <1>2, KillChange DEF Kill
  <2>2. Dry'
    BY <1>0, <2>1 DEF Dry, EntryStates, Run, Wet, Given
  <2>3. FramesMade' /\ Ending' /\ IsTree(before)'
    BY <1>0, <2>1 DEF FramesMade, Ending, Run, IsTree, IsDir
  <2> QED
    BY <2>1, <2>2, <2>3 DEF Ground
<1>3. CASE WalkAction
  <2>1. Base' /\ Run /\ (~Wet => dst' = dst)
    BY <1>0, <1>3, WalkChange
  <2>2. pc' \notin EntryStates \ {"entry"} /\ (pc' = "delete" => Given("delete") /\ isdir)
    <3>1. CASE SkipArg \/ FileArg \/ Leave \/ EndWalk \/ EndDelete \/ \E p \in DOMAIN dst : Delete(p)
      BY <3>1 DEF Ground, Ending, SkipArg, AtArg, FileArg, Leave, EndWalk, EndDelete, Delete, EntryStates, At
    <3>2. CASE DirArg
      BY <3>2 DEF DirArg, Enter, AtArg, EntryStates
    <3>3. CASE stack # <<>> /\ \E n \in Top.todo : Visit(n)
      BY <3>3 DEF Visit, Enter, EntryStates
    <3> QED
      BY <1>3, <3>1, <3>2, <3>3 DEF WalkAction
  <2>3. Dry' /\ Ending' /\ IsTree(before)'
    BY <1>0, <2>1, <2>2 DEF Dry, Ending, Run, Wet, Given, IsTree, IsDir
  <2>4. FramesMade'
    BY <1>3, FramesWalk
  <2> QED
    BY <2>1, <2>3, <2>4 DEF Ground
<1>4. CASE EntryAction
  <2>1. Base' /\ Run /\ FramesMade'
    BY <1>0, <1>4, EntryChange, EntryControl, FramesEntry
  <2>2. ~Wet => dst' = dst /\ pc' = "walk"
    BY <1>0, <1>4, DryEntryOnly DEF DryEntry, EntryDone
  <2>3. Dry' /\ IsTree(before)'
    BY <1>0, <2>1, <2>2 DEF Dry, Run, Wet, Given, EntryStates, IsTree, IsDir
  <2>4. pc' # "delete"
    BY <1>4, EntryControl DEF EntryStates, EntryDone
  <2> QED
    BY <2>1, <2>3, <2>4 DEF Ground, Ending
<1> QED
  BY <1>1, <1>2, <1>3, <1>4, NextCases DEF WalkAction

LEMMA GroundStart ==
    ASSUME LocalInit
    PROVE  Ground
<1>1. /\ dst \in Trees /\ before = dst /\ pc = "idle" /\ stack = <<>> /\ links = <<>> /\ cmd = NoCommand
  BY DEF LocalInit
<1>2. IsTree(dst) /\ OneFile(dst) /\ Tells(dst)
  BY <1>1, LocalAssumption, InodesAssumption, QuickCheckAssumption DEF Tells
<1>3. LinksPlain /\ Leading /\ Progress
  BY <1>1 DEF LinksPlain, Leading, Progress, Busy, EntryStates
<1>4. Dry /\ FramesMade /\ Ending
  BY <1>1 DEF Dry, FramesMade, Ending, EntryStates
<1> QED
  BY <1>1, <1>2, <1>3, <1>4 DEF Ground, Base

LEMMA GroundStutter ==
    ASSUME Ground, UNCHANGED localVars
    PROVE  Ground'
<1>1. UNCHANGED <<dst, before, bak, cmd, isdir, pc, arg, stack, cur, kept, links, runs>>
  BY DEF localVars
<1>2. Base'
  BY <1>1 DEF Ground, Base, IsTree, OneFile, Tells, LinksPlain, Leading, Progress, IsDir, Single, Telling, Busy,
              Linked, From, Given, Follower, Tmp, LdTmp, Plain
<1>3. IsTree(before)' /\ Dry' /\ FramesMade' /\ Ending'
  BY <1>1 DEF Ground, Dry, FramesMade, Ending, IsTree, IsDir, Wet, Given
<1> QED
  BY <1>2, <1>3 DEF Ground
=============================================================================
