---------------------------- MODULE LocalProofs ----------------------------
(***************************************************************************)
(* Proofs about what runs on one host.                                     *)
(*                                                                         *)
(* Batch, for any sources, names, changes, captures and replays: a         *)
(* record's index means the same name to both sides, a replay that         *)
(* succeeds has left nothing out, and a script is never left beside a      *)
(* batch file that is not complete.                                        *)
(*                                                                         *)
(* LocalCopy, for any source and destination trees, names and commands: a  *)
(* run that returns has made the destination what the source is, a run     *)
(* that is killed has left nothing but old and new files, what is backed   *)
(* up is not lost, and hard links stay hard links.                         *)
(***************************************************************************)
EXTENDS LocalSteps, Batch

-----------------------------------------------------------------------------
(* Batch files: the invariant.                                             *)

\* What has been written, whether it has left the BufWriter or not.
Parts == disk \o buf

PartKinds == {"header", "list", "file", "end"}

\* The content of a source file carries its name.
SourceTyped ==
    \A s \in 1..Sources, n \in Files : src[s][n] = Absent \/ src[s][n].name = n

\* Since the list was made nothing in the sources has gone unseen.
SeenAll == captures # 0 => \A n \in Files : Current(src, n) \subseteq seen[n]

Streams == \E P : disk \in Seq(P) /\ buf \in Seq(P)

CaptureTyped ==
    /\ cpc \in {"idle", "files", "script"}
    /\ list \in Seq(Names) /\ pos \in Nat
    /\ captures \in Nat /\ script \in Nat /\ script <= captures
    /\ Streams
    /\ cpc # "files" => buf = <<>>
    /\ cpc = "files" => pos \in 1..(Len(list) + 1)
    /\ cpc # "idle" => script < captures

\* A part, at place i of the batch file, is what the replay takes it for.
PartOK(i, part) ==
    /\ part.k \in PartKinds
    /\ (part.k = "header") = (i = 1)
    /\ (part.k = "list") = (i = 2)
    /\ part.k = "list" => part.v = list
    /\ part.k = "file" => /\ part.ndx \in DOMAIN list /\ list[part.ndx] \in Files
                          /\ part.v.name = list[part.ndx]
                          /\ part.v \in seen[list[part.ndx]]

PartsOK == \A i \in DOMAIN Parts : PartOK(i, Parts[i])

\* Of the entries before the p-th every file has a record, unless it was gone or could
\* not be read.
Recorded(parts, p) ==
    \A j \in 1..(p - 1) :
        list[j] \in Files =>
            \/ Missed(list[j])
            \/ \E i \in DOMAIN parts : parts[i].k = "file" /\ parts[i].ndx = j

\* The end marker comes last and only after everything else.
Marked ==
    /\ cpc = "files" => /\ Len(Parts) >= 2 /\ Recorded(Parts, pos)
                        /\ \A i \in DOMAIN Parts : Parts[i].k # "end"
    /\ \A i \in DOMAIN disk :
         disk[i].k = "end" => i = Len(disk) /\ Recorded(disk, Len(list) + 1)
    /\ cpc = "script" => disk # <<>> /\ disk[Len(disk)].k = "end"
    /\ disk # <<>> => captures # 0

\* Reading: what has been read so far has been put in place.
Reading == rpc \in {"records", "fill", "done"}

NameAt(i) == list[disk[i].ndx]

Replayed ==
    /\ rpc \in {"idle", "header", "list", "records", "fill", "done", "failed", "astray"}
    /\ dry \in BOOLEAN
    /\ rpc = "header" => rpos = 1
    /\ rpc = "list" => rpos = 2
    /\ Reading => /\ rpos \in Nat /\ rpos >= 3 /\ rpos <= Len(disk) + 1
                  /\ rlist = list
    /\ rpc = "fill" => rpos <= Len(disk) /\ disk[rpos].k = "file" /\ ~dry
    /\ rpc = "done" => rpos <= Len(disk) /\ disk[rpos].k = "end"
    /\ Reading /\ ~dry =>
         /\ \A n \in Dirs : InList(n) => n \in made
         /\ \A i \in 1..(rpos - 1) :
              disk[i].k = "file" =>
                  \/ dest[NameAt(i)] \in seen[NameAt(i)]
                  \/ rpc = "fill" /\ NameAt(i) = NameAt(rpos)

DestTyped == DOMAIN dest = Files /\ DOMAIN seen = Files /\ OwnContent

BatchInv ==
    /\ SourceTyped /\ SeenAll /\ CaptureTyped /\ PartsOK /\ Marked /\ Replayed /\ DestTyped
    /\ ScriptRuns

-----------------------------------------------------------------------------
(* The list is one: the places of its entries are counted off.             *)

\* The entries are finitely many.
LEMMA EntriesFinite == IsFiniteSet(Entries)
<1>1. IsFiniteSet(1..Sources) /\ IsFiniteSet(Names)
  BY BatchAssumption, FS_Interval
<1>2. IsFiniteSet((1..Sources) \X Names)
  BY <1>1, FS_Product
<1> QED BY <1>2, FS_Subset DEF Entries

\* Precedes is a strict total order on the entries.
LEMMA PrecedesOrder ==
    ASSUME NEW d \in Entries, NEW e \in Entries
    PROVE  /\ ~Precedes(e, e)
           /\ d # e => Precedes(d, e) \/ Precedes(e, d)
           /\ \A c \in Entries : Precedes(c, d) /\ Precedes(d, e) => Precedes(c, e)
<1>1. \A x \in Entries : /\ x[1] \in Int /\ x[2] \in Names /\ Rank[x[2]] \in Nat
                         /\ x = <<x[1], x[2]>>
  BY BatchAssumption DEF Entries
<1>2. \A x, y \in Entries : Rank[x[2]] = Rank[y[2]] => x[2] = y[2]
  BY <1>1, BatchAssumption
<1> QED BY <1>1, <1>2 DEF Precedes

\* Each entry has a place of its own in the list, and every place an entry.
LEMMA PlaceFacts ==
    /\ Cardinality(Entries) \in Nat
    /\ \A e \in Entries : PlaceOf(e) \in 1..Cardinality(Entries)
    /\ \A i \in 1..Cardinality(Entries) : \E e \in Entries : PlaceOf(e) = i
<1> DEFINE B(e) == {d \in Entries : Precedes(d, e)}
           N == 1..Cardinality(Entries)
           f == [e \in Entries |-> PlaceOf(e)]
<1>1. Cardinality(Entries) \in Nat
  BY EntriesFinite, FS_CardinalityType
<1>2. ASSUME NEW e \in Entries
      PROVE  IsFiniteSet(B(e)) /\ Cardinality(B(e)) \in Nat /\ Cardinality(B(e)) < Cardinality(Entries)
  <2>1. B(e) \in SUBSET Entries /\ e \notin B(e)
    BY PrecedesOrder
  <2> HIDE DEF B
  <2>2. IsFiniteSet(B(e)) /\ Cardinality(B(e)) <= Cardinality(Entries) /\ Cardinality(B(e)) # Cardinality(Entries)
    BY <2>1, EntriesFinite, FS_Subset
  <2> QED BY <2>2, <1>1, FS_CardinalityType
<1>3. \A e \in Entries : PlaceOf(e) \in N
  BY <1>1, <1>2 DEF PlaceOf
<1>4. ASSUME NEW d \in Entries, NEW e \in Entries, Precedes(d, e) PROVE PlaceOf(d) < PlaceOf(e)
  <2>1. B(d) \subseteq B(e) /\ d \in B(e) /\ d \notin B(d)
    BY <1>4, PrecedesOrder
  <2> DEFINE X == B(d)
             Y == B(e)
  <2>2. IsFiniteSet(Y) /\ Cardinality(X) \in Nat /\ Cardinality(Y) \in Nat
    BY <1>2
  <2>3. X \in SUBSET Y /\ X # Y
    BY <2>1
  <2>4. PlaceOf(d) = 1 + Cardinality(X) /\ PlaceOf(e) = 1 + Cardinality(Y)
    BY DEF PlaceOf
  <2> HIDE DEF X, Y
  <2>5. Cardinality(X) < Cardinality(Y)
    BY <2>2, <2>3, FS_Subset
  <2> QED BY <2>2, <2>4, <2>5
<1>5. f \in Injection(Entries, N)
  <2>1. f \in [Entries -> N]
    BY <1>3
  <2>2. ASSUME NEW d \in Entries, NEW e \in Entries, f[d] = f[e] PROVE d = e
    <3>1. PlaceOf(d) = PlaceOf(e) /\ PlaceOf(d) \in Int
      BY <2>2, <1>3
    <3> QED BY <3>1, <1>4, PrecedesOrder
  <2> QED BY <2>1, <2>2 DEF Injection, IsInjective
<1>6. IsFiniteSet(N) /\ Cardinality(N) = Cardinality(Entries)
  BY <1>1, FS_Interval
<1>7. f \in Surjection(Entries, N)
  <2> HIDE DEF f, N
  <2> QED BY <1>5, <1>6, FS_Injection
<1> QED BY <1>1, <1>3, <1>7 DEF Surjection

\* The list is a sequence of names.
LEMMA ListedTyped == Listed \in Seq(Names)
<1>1. ASSUME NEW i \in 1..Cardinality(Entries)
      PROVE  (CHOOSE e \in Entries : PlaceOf(e) = i)[2] \in Names
  <2>1. (CHOOSE e \in Entries : PlaceOf(e) = i) \in Entries
    BY PlaceFacts
  <2>2. \A e \in Entries : e[2] \in Names
    BY DEF Entries
  <2> QED BY <2>1, <2>2
<1>2. Cardinality(Entries) \in Nat
  BY PlaceFacts
<1>3. Listed \in [1..Cardinality(Entries) -> Names]
  BY <1>1 DEF Listed
<1> QED BY <1>2, <1>3

-----------------------------------------------------------------------------
(* The batch file as a sequence.                                           *)

\* Appending to what is buffered appends to the whole.
LEMMA JoinAppend ==
    ASSUME NEW P, NEW d \in Seq(P), NEW b \in Seq(P), NEW x
    PROVE  d \o Append(b, x) = Append(d \o b, x)
<1> DEFINE Q == P \cup {x}
<1>1. d \in Seq(Q) /\ b \in Seq(Q) /\ x \in Q
  OBVIOUS
<1> HIDE DEF Q
<1>2. /\ d \o Append(b, x) \in Seq(Q) /\ Append(d \o b, x) \in Seq(Q)
      /\ Len(d \o Append(b, x)) = Len(Append(d \o b, x))
      /\ \A i \in 1..Len(d \o Append(b, x)) : (d \o Append(b, x))[i] = Append(d \o b, x)[i]
  BY <1>1
<1> QED BY <1>2, SeqEqual

\* The file on disk followed by the buffer: flushing a part changes neither.
LEMMA JoinFacts ==
    ASSUME NEW P, NEW d \in Seq(P), NEW b \in Seq(P)
    PROVE  /\ d \o <<>> = d
           /\ Len(d \o b) = Len(d) + Len(b) /\ d \o b \in Seq(P)
           /\ \A i \in DOMAIN d : (d \o b)[i] = d[i]
           /\ b # <<>> => /\ Append(d, Head(b)) \in Seq(P) /\ Tail(b) \in Seq(P)
                          /\ Append(d, Head(b)) \o Tail(b) = d \o b
<1>1. d \o <<>> = d
  BY ConcatEmptySeq
<1>2. ASSUME b # <<>> PROVE Append(d, Head(b)) \in Seq(P) /\ Tail(b) \in Seq(P)
                            /\ Append(d, Head(b)) \o Tail(b) = d \o b
  <2>1. Head(b) \in P /\ Tail(b) \in Seq(P) /\ Append(d, Head(b)) \in Seq(P)
    BY <1>2
  <2>2. /\ Append(d, Head(b)) \o Tail(b) \in Seq(P) /\ d \o b \in Seq(P)
        /\ Len(Append(d, Head(b)) \o Tail(b)) = Len(d \o b)
        /\ \A i \in 1..Len(d \o b) : (Append(d, Head(b)) \o Tail(b))[i] = (d \o b)[i]
    BY <1>2, <2>1
  <2> QED BY <2>1, <2>2, SeqEqual
<1>3. /\ Len(d \o b) = Len(d) + Len(b) /\ d \o b \in Seq(P)
      /\ \A i \in DOMAIN d : (d \o b)[i] = d[i]
  OBVIOUS
<1> QED BY <1>1, <1>2, <1>3, Zenon

\* What has been written is what is on disk and what is buffered.
LEMMA PartsTyped ==
    ASSUME CaptureTyped
    PROVE  /\ Len(disk) \in Nat /\ Len(buf) \in Nat /\ Len(Parts) = Len(disk) + Len(buf)
           /\ DOMAIN disk = 1..Len(disk) /\ DOMAIN Parts = 1..Len(Parts)
           /\ \A i \in DOMAIN disk : i \in DOMAIN Parts /\ Parts[i] = disk[i]
           /\ buf = <<>> => Parts = disk
<1>1. PICK P : disk \in Seq(P) /\ buf \in Seq(P)
  BY DEF CaptureTyped, Streams
<1> QED BY <1>1, JoinFacts DEF Parts

\* What is on disk, seen as the replay sees it.
LEMMA DiskOK ==
    ASSUME CaptureTyped, PartsOK
    PROVE  \A i \in DOMAIN disk : PartOK(i, disk[i])
  BY PartsTyped DEF PartsOK

-----------------------------------------------------------------------------
(* Every step keeps the invariant.                                         *)

\* The invariant holds before anything is captured.
LEMMA BatchInit == Init => BatchInv
<1> SUFFICES ASSUME Init PROVE BatchInv
  OBVIOUS
<1> USE DEF Init
<1>1. SourceTyped
  <2> SUFFICES ASSUME NEW s \in 1..Sources, NEW n \in Files
               PROVE  src[s][n] = Absent \/ src[s][n].name = n
    BY DEF SourceTyped
  <2>1. PICK S \in SUBSET Files : src[s] = [m \in Files |-> IF m \in S THEN Content(m, 0, 0) ELSE Absent]
    <3> DEFINE G == {[m \in Files |-> IF m \in S THEN Content(m, 0, 0) ELSE Absent] : S \in SUBSET Files}
    <3>1. src \in [1..Sources -> G]
      OBVIOUS
    <3> HIDE DEF G
    <3>2. src[s] \in G
      BY <3>1
    <3> QED BY <3>2 DEF G
  <2> QED BY <2>1 DEF Content
<1>2. SeenAll
  BY DEF SeenAll
<1>3. CaptureTyped
  <2>1. Streams
    <3>1. disk \in Seq({}) /\ buf \in Seq({})
      OBVIOUS
    <3> QED BY <3>1 DEF Streams
  <2> QED BY <2>1 DEF CaptureTyped
<1>4. Parts = <<>>
  BY DEF Parts
<1>5. PartsOK /\ Marked
  BY <1>4 DEF PartsOK, Marked
<1>6. Replayed
  BY DEF Replayed, Reading
<1>7. DestTyped
  BY DEF DestTyped, OwnContent, Before
<1> QED BY <1>1, <1>2, <1>3, <1>5, <1>6, <1>7 DEF BatchInv, ScriptRuns

\* A change of the sources adds to what has been seen.
LEMMA ChangeStep == BatchInv /\ Change => BatchInv'
<1> SUFFICES ASSUME BatchInv, Change PROVE BatchInv'
  OBVIOUS
<1> USE DEF BatchInv
<1>1. PICK s \in 1..Sources, n \in Files :
        \E c \in {Content(n, s, changes'), Absent} :
           /\ src' = [src EXCEPT ![s][n] = c]
           /\ seen' = [seen EXCEPT ![n] = @ \cup Current(src', n)]
  BY DEF Change
<1>2. UNCHANGED <<capture, replay>>
  BY DEF Change
<1> USE DEF capture, replay
<1>3. /\ DOMAIN seen' = Files /\ \A m \in Files : seen[m] \subseteq seen'[m]
      /\ seen'[n] = seen[n] \cup Current(src', n)
      /\ \A m \in Files \ {n} : seen'[m] = seen[m]
  BY <1>1 DEF DestTyped
<1>4. SourceTyped'
  BY <1>1 DEF SourceTyped, Content
<1>5. SeenAll'
  <2>1. ASSUME NEW m \in Files \ {n} PROVE Current(src', m) = Current(src, m)
    <3>1. \A t \in 1..Sources : src'[t][m] = src[t][m]
      BY <1>1
    <3> QED BY <3>1, ZenonT(40) DEF Current
  <2> QED BY <1>2, <1>3, <2>1 DEF SeenAll
<1>6. CaptureTyped' /\ ScriptRuns'
  BY <1>2 DEF CaptureTyped, Streams, ScriptRuns
<1>7. Parts' = Parts
  BY <1>2 DEF Parts
<1>8. PartsOK'
  BY <1>2, <1>3, <1>7 DEF PartsOK, PartOK
<1>9. ASSUME NEW q, NEW p \in Nat, p <= Len(list) + 1, Recorded(q, p) PROVE Recorded(q, p)'
  BY <1>2, <1>3, <1>9 DEF Recorded, Missed
<1>10. Marked'
  <2>1. cpc = "files" => pos \in Nat /\ pos <= Len(list) + 1
    BY DEF CaptureTyped
  <2>2. Len(list) + 1 \in Nat
    BY DEF CaptureTyped
  <2> QED BY <1>2, <1>7, <1>9, <2>1, <2>2 DEF Marked
<1>11. Replayed'
  <2>1. \A i \in DOMAIN disk : disk[i].k = "file" => NameAt(i) \in Files
    BY DiskOK DEF PartOK, NameAt
  <2>2. \A i : NameAt(i)' = NameAt(i)
    BY <1>2 DEF NameAt
  <2>3. Reading => \A i \in 1..(rpos - 1) : i \in DOMAIN disk
    BY PartsTyped DEF Replayed
  <2> QED BY <1>2, <1>3, <2>1, <2>2, <2>3 DEF Replayed, Reading, InList
<1>12. DestTyped'
  BY <1>2, <1>3 DEF DestTyped, OwnContent
<1> QED BY <1>4, <1>5, <1>6, <1>8, <1>10, <1>11, <1>12

\* A step of the capture that only adds to the batch file leaves a replay what it
\* has read.
LEMMA ReplayKept ==
    ASSUME BatchInv, UNCHANGED <<replay, list>>, CaptureTyped',
           \A n \in Files : seen[n] \subseteq seen'[n],
           Len(disk) <= Len(disk'), \A i \in DOMAIN disk : disk'[i] = disk[i]
    PROVE  Replayed'
<1> USE DEF BatchInv, replay
<1>1. Len(disk) \in Nat /\ Len(disk') \in Nat /\ DOMAIN disk = 1..Len(disk)
  BY DEF CaptureTyped, Streams
<1>2. \A i \in DOMAIN disk : NameAt(i)' = NameAt(i)
  BY DEF NameAt
<1>3. Reading' = Reading /\ \A n : InList(n)' = InList(n)
  BY DEF Reading, InList
<1>4. Reading => \A i \in 1..(rpos - 1) : i \in DOMAIN disk
  BY <1>1 DEF Replayed
<1>5. rpc \in {"fill", "done"} => rpos \in DOMAIN disk
  BY <1>1 DEF Replayed, Reading
<1>6. \A i \in DOMAIN disk : disk[i].k = "file" => NameAt(i) \in Files
  BY DiskOK DEF PartOK, NameAt
<1>7. Reading /\ ~dry =>
        \A i \in 1..(rpos - 1) :
          disk'[i].k = "file" => \/ dest'[NameAt(i)'] \in seen'[NameAt(i)']
                                 \/ rpc = "fill" /\ NameAt(i)' = NameAt(rpos)'
  BY <1>2, <1>4, <1>5, <1>6 DEF Replayed
<1> QED BY <1>1, <1>2, <1>3, <1>4, <1>5, <1>7 DEF Replayed

\* Steps that leave the sources alone.
LEMMA SourceKept ==
    ASSUME UNCHANGED src, \A n \in Files : seen[n] \subseteq seen'[n]
    PROVE  /\ SourceTyped => SourceTyped'
           /\ SeenAll /\ (captures' # 0 => captures # 0) => SeenAll'
<1>1. \A n : Current(src, n)' = Current(src, n)
  BY DEF Current
<1> QED BY <1>1 DEF SourceTyped, SeenAll

\* The capture begins with the header and the list.
LEMMA StartCaptureStep == BatchInv /\ StartCapture => BatchInv'
<1> SUFFICES ASSUME BatchInv, StartCapture PROVE BatchInv'
  OBVIOUS
<1> USE DEF BatchInv, StartCapture, source
<1>1. list' \in Seq(Names)
  BY ListedTyped
<1>2. SourceTyped' /\ SeenAll'
  <2>1. \A n \in Files : Current(src, n)' = seen'[n]
    BY DEF Current
  <2> QED BY <2>1 DEF SourceTyped, SeenAll
<1>3. CaptureTyped'
  <2>1. captures' \in Nat /\ captures' # 0 /\ script' < captures'
    BY DEF CaptureTyped
  <2>2. disk' \in Seq({[k |-> "header"], [k |-> "list", v |-> Listed]})
        /\ buf' \in Seq({[k |-> "header"], [k |-> "list", v |-> Listed]})
    OBVIOUS
  <2>3. Streams'
    BY <2>2 DEF Streams
  <2> QED BY <1>1, <2>1, <2>3 DEF CaptureTyped
<1>4. Parts' = <<[k |-> "header"], [k |-> "list", v |-> list']>>
  BY DEF Parts
<1>5. PartsOK'
  BY <1>4 DEF PartsOK, PartOK, PartKinds
<1>6. Marked'
  BY <1>4 DEF Marked, Recorded
<1>7. Replayed'
  <2>1. /\ rpc' \in {"idle", "header", "astray"} /\ dry' \in BOOLEAN
        /\ rpc' = "header" => rpos' = 1
    <3>1. CASE rpc = "header" BY <3>1 DEF Replayed
    <3>2. CASE rpc # "header" BY <3>2 DEF Replayed
    <3> QED BY <3>1, <3>2
  <2> QED BY <2>1 DEF Replayed, Reading
<1>8. DestTyped' /\ ScriptRuns'
  BY DEF DestTyped, OwnContent, ScriptRuns, CaptureTyped
<1> QED BY <1>2, <1>3, <1>5, <1>6, <1>7, <1>8

\* A set of numbers has a least one.
LEMMA LeastNatural ==
    ASSUME NEW T \in SUBSET Nat, T # {}
    PROVE  \E x \in T : \A y \in T : x <= y
<1>1. IsWellFoundedOn(OpToRel(<, Nat), Nat)
  BY NatLessThanWellFounded
<1>2. PICK x \in T : \A y \in T : ~ (<<y, x>> \in OpToRel(<, Nat))
  BY <1>1, WFMin
<1>3. ASSUME NEW y \in T PROVE x <= y
  <2>1. ~(y < x)
    BY <1>2, y \in Nat, x \in Nat, Zenon DEF OpToRel
  <2> QED BY <2>1
<1> QED BY <1>3

\* The file that is read for a record is one that some source has now.
LEMMA FoundFacts ==
    ASSUME BatchInv, captures # 0, NEW n \in Files
    PROVE  /\ \A R \in SUBSET Found(n) : R # {} =>
                LET c == src[First(R)][n] IN c \in seen[n] /\ c.name = n
           /\ Found(n) = {} => Absent \in seen[n]
<1> USE DEF BatchInv
<1>1. Current(src, n) \subseteq seen[n]
  BY DEF SeenAll
<1>2. ASSUME NEW R \in SUBSET Found(n), R # {}
      PROVE  src[First(R)][n] \in seen[n] /\ src[First(R)][n].name = n
  <2>1. R \in SUBSET Nat
    BY DEF Found
  <2>2. First(R) \in R
    BY <1>2, <2>1, LeastNatural DEF First
  <2>3. First(R) \in 1..Sources /\ src[First(R)][n] # Absent
    BY <2>2 DEF Found
  <2>4. src[First(R)][n] \in Current(src, n)
    BY <2>3 DEF Current
  <2> QED BY <1>1, <2>3, <2>4 DEF SourceTyped
<1>3. CASE Found(n) = {}
  <2>1. \A s \in 1..Sources : src[s][n] = Absent
    BY <1>3 DEF Found
  <2>2. 1 \in 1..Sources
    BY BatchAssumption
  <2>3. Absent \in Current(src, n)
    BY <2>1, <2>2 DEF Current
  <2> QED BY <1>1, <1>3, <2>3
<1> QED BY <1>2, <1>3

\* The next file of the transfer order is written to the buffer.
LEMMA WriteFileStep == BatchInv /\ WriteFile => BatchInv'
<1> SUFFICES ASSUME BatchInv, WriteFile PROVE BatchInv'
  OBVIOUS
<1> USE DEF BatchInv
<1>0. /\ cpc = "files" /\ pos <= Len(list) /\ pos' = pos + 1
      /\ UNCHANGED <<src, changes, cpc, list, disk, script, captures, replay>>
  BY DEF WriteFile, source
<1>1. pos \in 1..Len(list) /\ pos \in DOMAIN list /\ captures # 0 /\ script < captures
  BY <1>0 DEF CaptureTyped
<1> DEFINE file == list[pos]
<1>n. PICK n : n = file
  OBVIOUS
<1>2. PICK rec, number :
        /\ number \in {0, 1}
        /\ buf' = IF number = 1 THEN Append(buf, rec) ELSE buf
        /\ number = 1 => /\ n \in Files /\ rec.k = "file" /\ rec.ndx = pos
                         /\ rec.v \in seen[n] /\ rec.v.name = n
        /\ number # 1 => n \notin Files \/ Missed(n)'
        /\ \A m \in Files : seen[m] \subseteq seen'[m]
        /\ DOMAIN seen' = Files
  <2>1. CASE n \notin Files
    BY <1>n, <2>1 DEF WriteFile, DestTyped
  <2>2. CASE n \in Files
    <3>1. PICK R \in SUBSET Found(n) :
            /\ buf' = IF R = {} THEN buf ELSE Append(buf, Record(pos, src[First(R)][n]))
            /\ seen' = IF R = {} /\ Found(n) # {} THEN [seen EXCEPT ![n] = @ \cup {Unread}]
                       ELSE seen
      BY <1>0, <1>n, <2>2 DEF WriteFile, WriteRecord
    <3>2. \A m \in Files : seen[m] \subseteq seen'[m]
      BY <3>1 DEF DestTyped
    <3>3. DOMAIN seen' = Files
      BY <3>1 DEF DestTyped
    <3>4. R = {} => Missed(n)'
      <4>1. R = {} /\ Found(n) # {} => Unread \in seen'[n]
        BY <2>2, <3>1 DEF DestTyped
      <4>2. Found(n) = {} => Absent \in seen'[n]
        BY <1>1, <2>2, <3>2, FoundFacts
      <4> QED BY <4>1, <4>2 DEF Missed
    <3>5. R # {} => LET c == src[First(R)][n] IN c \in seen[n] /\ c.name = n
      BY <1>1, <2>2, FoundFacts
    <3>6. CASE R = {}
      BY <3>1, <3>2, <3>3, <3>4, <3>6
    <3>7. CASE R # {}
      <4> DEFINE x == Record(pos, src[First(R)][n])
      <4>1. buf' = Append(buf, x) /\ x.k = "file" /\ x.ndx = pos /\ x.v \in seen[n] /\ x.v.name = n
        BY <3>1, <3>5, <3>7 DEF Record
      <4>2. PICK y : y = x
        OBVIOUS
      <4>3. buf' = Append(buf, y) /\ y.k = "file" /\ y.ndx = pos /\ y.v \in seen[n] /\ y.v.name = n
        BY <4>1, <4>2
      <4> HIDE DEF x
      <4> SUFFICES \E rec : /\ buf' = IF 1 = 1 THEN Append(buf, rec) ELSE buf
                            /\ rec.k = "file" /\ rec.ndx = pos /\ rec.v \in seen[n] /\ rec.v.name = n
        BY <2>2, <3>2, <3>3
      <4> QED BY <4>3
    <3> QED BY <3>6, <3>7
  <2> QED BY <2>1, <2>2
<1> DEFINE writes == number = 1
<1>3. PICK P : disk \in Seq(P) /\ buf \in Seq(P)
  BY DEF CaptureTyped, Streams
<1>4. CaptureTyped'
  <2>1. disk' \in Seq(P \cup {rec}) /\ buf' \in Seq(P \cup {rec})
    BY <1>0, <1>2, <1>3
  <2>2. pos' \in 1..(Len(list) + 1)
    BY <1>0, <1>1
  <2>3. Streams'
    BY <2>1 DEF Streams
  <2> QED BY <1>0, <1>1, <2>2, <2>3 DEF CaptureTyped
<1>5. Parts' = IF writes THEN Append(Parts, rec) ELSE Parts
  <2>1. Parts' = disk \o buf'
    BY <1>0 DEF Parts
  <2>2. disk \o Append(buf, rec) = Append(disk \o buf, rec)
    BY <1>3, JoinAppend
  <2> QED BY <1>2, <2>1, <2>2 DEF Parts
<1>6. Parts \in Seq(P) /\ Len(Parts) \in Nat /\ Len(Parts) >= 2
  BY <1>0, <1>3, JoinFacts DEF Parts, Marked
<1>7. \A j \in DOMAIN list : list[j] \in Files /\ Missed(list[j]) => Missed(list[j])'
  <2> SUFFICES ASSUME NEW j \in DOMAIN list, list[j] \in Files, Missed(list[j]) PROVE Missed(list[j])'
    OBVIOUS
  <2>1. PICK m : m = list[j]
    OBVIOUS
  <2>2. list'[j] = m /\ seen[m] \subseteq seen'[m]
    BY <1>0, <1>2, <2>1
  <2> QED BY <2>1, <2>2 DEF Missed
<1>8. ~writes => n \notin Files \/ Missed(n)'
  BY <1>2
<1>9. writes => /\ Len(Parts') = Len(Parts) + 1 /\ Parts'[Len(Parts) + 1] = rec
                /\ \A i \in DOMAIN Parts : Parts'[i] = Parts[i]
                /\ DOMAIN Parts' = 1..(Len(Parts) + 1) /\ DOMAIN Parts = 1..Len(Parts)
  <2>1. Parts \in Seq(P \cup {rec}) /\ rec \in P \cup {rec}
    BY <1>6
  <2> QED BY <1>5, <2>1
<1>10. PartsOK'
  <2>1. ASSUME NEW i, NEW part, PartOK(i, part) PROVE PartOK(i, part)'
    BY <1>0, <1>2, <2>1 DEF PartOK
  <2>2. writes => PartOK(Len(Parts) + 1, rec)
    BY <1>1, <1>n, <1>2, <1>6 DEF PartOK, PartKinds
  <2> SUFFICES ASSUME NEW i \in DOMAIN Parts' PROVE PartOK(i, Parts'[i])
    <3>1. ASSUME NEW i \in DOMAIN Parts', PartOK(i, Parts'[i]) PROVE PartOK(i, Parts[i])'
      <4>1. i' = i /\ (Parts[i])' = Parts'[i]
        OBVIOUS
      <4> QED BY <2>1, <3>1, <4>1
    <3> QED BY <3>1 DEF PartsOK
  <2>3. CASE writes
    <3>1. CASE i = Len(Parts) + 1
      BY <1>9, <2>2, <2>3, <3>1
    <3>2. CASE i # Len(Parts) + 1
      <4>1. i \in DOMAIN Parts /\ Parts'[i] = Parts[i]
        BY <1>6, <1>9, <2>3, <3>2
      <4> QED BY <4>1 DEF PartsOK
    <3> QED BY <3>1, <3>2
  <2>4. CASE ~writes
    BY <1>5, <2>4 DEF PartsOK
  <2> QED BY <2>3, <2>4
<1>11. Marked'
  <2>1. Recorded(Parts, pos) /\ \A i \in DOMAIN Parts : Parts[i].k # "end"
    BY <1>0 DEF Marked
  <2>2. Recorded(Parts, pos)'
    <3> SUFFICES ASSUME NEW j \in 1..pos, list[j] \in Files
                 PROVE  \/ Missed(list[j])'
                        \/ \E i \in DOMAIN Parts' : Parts'[i].k = "file" /\ Parts'[i].ndx = j
      BY <1>0, <1>1 DEF Recorded
    <3>1. CASE j = pos /\ writes
      <4>1. Len(Parts) + 1 \in DOMAIN Parts'
        BY <1>6, <1>9, <3>1
      <4> QED BY <4>1, <1>2, <1>9, <3>1
    <3>2. CASE j = pos /\ ~writes
      <4>1. Missed(n)' /\ n = list[j] /\ list' = list
        BY <1>0, <1>n, <1>8, <3>2
      <4> QED BY <4>1 DEF Missed
    <3>3. CASE j # pos
      <4>1. j \in 1..(pos - 1)
        BY <1>1, <3>3
      <4>2. \A i \in DOMAIN Parts : i \in DOMAIN Parts' /\ Parts'[i] = Parts[i]
        BY <1>5, <1>6, <1>9
      <4>3. j \in DOMAIN list
        BY <1>1
      <4>4. \/ Missed(list[j])
            \/ \E i \in DOMAIN Parts : Parts[i].k = "file" /\ Parts[i].ndx = j
        BY <2>1, <4>1 DEF Recorded
      <4> QED BY <1>7, <4>2, <4>3, <4>4
    <3> QED BY <3>1, <3>2, <3>3
  <2>4. Len(Parts') >= 2
    BY <1>5, <1>6, <1>9
  <2>5. \A i \in DOMAIN Parts' : Parts'[i].k # "end"
    <3>1. CASE writes
      <4> SUFFICES ASSUME NEW i \in DOMAIN Parts' PROVE Parts'[i].k # "end"
        OBVIOUS
      <4>1. CASE i = Len(Parts) + 1
        BY <1>2, <1>9, <3>1, <4>1
      <4>2. CASE i # Len(Parts) + 1
        <5>1. i \in DOMAIN Parts /\ Parts'[i] = Parts[i]
          BY <1>6, <1>9, <3>1, <4>2
        <5> QED BY <5>1, <2>1
      <4> QED BY <4>1, <4>2
    <3>2. CASE ~writes
      BY <1>5, <2>1, <3>2
    <3> QED BY <3>1, <3>2
  <2>6. \A i \in DOMAIN disk : disk[i].k # "end"
    BY <2>1, PartsTyped
  <2> QED BY <1>0, <2>2, <2>4, <2>5, <2>6 DEF Marked
<1>12. Replayed'
  <2>1. Len(disk) <= Len(disk') /\ \A i \in DOMAIN disk : disk'[i] = disk[i]
    BY <1>0, PartsTyped
  <2> QED BY <1>0, <1>2, <1>4, <2>1, ReplayKept
<1>13. SourceTyped' /\ SeenAll' /\ DestTyped' /\ ScriptRuns'
  BY <1>0, <1>1, <1>2, SourceKept DEF DestTyped, OwnContent, ScriptRuns, replay
<1> QED BY <1>4, <1>10, <1>11, <1>12, <1>13

\* The buffer spills to disk in the order it was filled.
LEMMA FlushSomeStep == BatchInv /\ FlushSome => BatchInv'
<1> SUFFICES ASSUME BatchInv, FlushSome PROVE BatchInv'
  OBVIOUS
<1> USE DEF BatchInv, FlushSome, source
<1>1. cpc = "files" /\ script < captures
  BY DEF CaptureTyped
<1>2. PICK P : disk \in Seq(P) /\ buf \in Seq(P)
  BY DEF CaptureTyped, Streams
<1>3. disk' \in Seq(P) /\ buf' \in Seq(P) /\ disk' \o buf' = disk \o buf
  BY <1>2, JoinFacts
<1>4. CaptureTyped'
  <2>1. Streams'
    BY <1>3 DEF Streams
  <2> QED BY <1>1, <2>1 DEF CaptureTyped
<1>5. Parts' = Parts
  BY <1>3 DEF Parts
<1>6. PartsOK'
  BY <1>5 DEF PartsOK, PartOK
<1>7. \A i \in DOMAIN disk' : i \in DOMAIN Parts /\ disk'[i] = Parts[i]
  BY <1>3, <1>5, JoinFacts DEF Parts
<1>8. \A i \in DOMAIN disk' : disk'[i].k # "end"
  BY <1>1, <1>7 DEF Marked
<1>9. Marked'
  <2>1. Recorded(Parts, pos)' = Recorded(Parts, pos)
    BY <1>5 DEF Recorded, Missed
  <2>2. captures' # 0
    BY <1>1 DEF CaptureTyped
  <2> QED BY <1>1, <1>5, <1>8, <2>1, <2>2 DEF Marked
<1>10. Replayed'
  <2>1. Len(disk') = Len(disk) + 1 /\ \A i \in DOMAIN disk : disk'[i] = disk[i]
    BY <1>2
  <2>2. Len(disk) <= Len(disk')
    BY <1>2, <2>1
  <2> QED BY <1>4, <2>1, <2>2, ReplayKept
<1>11. SourceTyped' /\ SeenAll' /\ DestTyped'
  BY SourceKept DEF DestTyped, OwnContent, replay
<1>12. ScriptRuns'
  BY <1>1 DEF ScriptRuns, CaptureTyped
<1> QED BY <1>4, <1>6, <1>9, <1>10, <1>11, <1>12

\* The trailer is written and everything is flushed.
LEMMA FinishStep == BatchInv /\ Finish => BatchInv'
<1> SUFFICES ASSUME BatchInv, Finish PROVE BatchInv'
  OBVIOUS
<1> USE DEF BatchInv
<1> DEFINE mark == [k |-> "end"]
<1>0. /\ cpc = "files" /\ pos > Len(list) /\ cpc' = "script" /\ buf' = <<>>
      /\ UNCHANGED <<src, list, pos, script, captures, replay, seen>>
  BY DEF Finish, source
<1>1. script < captures /\ pos = Len(list) + 1 /\ Len(list) \in Nat
  <2>1. Len(list) \in Nat
    BY DEF CaptureTyped
  <2> QED BY <1>0, <2>1 DEF CaptureTyped
<1>2. PICK P : disk \in Seq(P) /\ buf \in Seq(P)
  BY DEF CaptureTyped, Streams
<1>3. Parts \in Seq(P) /\ Len(Parts) \in Nat /\ Len(Parts) >= 2
  BY <1>0, <1>2, JoinFacts DEF Parts, Marked
<1>4. disk' = Append(Parts, mark)
  <2>1. disk \o Append(buf, mark) = Append(disk \o buf, mark)
    <3> HIDE DEF mark
    <3> QED BY <1>2, JoinAppend
  <2> QED BY <2>1 DEF Parts, Finish
<1>5. disk' \in Seq(P \cup {mark}) /\ buf' \in Seq(P \cup {mark})
  <2> HIDE DEF mark
  <2>1. Parts \in Seq(P \cup {mark}) /\ mark \in P \cup {mark}
    BY <1>3
  <2> QED BY <1>0, <1>4, <2>1
<1>6. /\ Len(disk') = Len(Parts) + 1 /\ disk'[Len(Parts) + 1] = mark
      /\ DOMAIN disk' = 1..(Len(Parts) + 1) /\ DOMAIN Parts = 1..Len(Parts)
      /\ \A i \in DOMAIN Parts : disk'[i] = Parts[i]
  <2> HIDE DEF mark
  <2>1. Parts \in Seq(P \cup {mark})
    BY <1>3
  <2> QED BY <1>4, <2>1
<1>7. CaptureTyped'
  <2>1. Streams'
    BY <1>5 DEF Streams
  <2> QED BY <1>0, <1>1, <2>1 DEF CaptureTyped
<1>8. Parts' = disk'
  BY <1>0, <1>5, JoinFacts DEF Parts
<1>9. PartsOK'
  <2> SUFFICES ASSUME NEW i \in DOMAIN disk' PROVE PartOK(i, disk'[i])
    BY <1>0, <1>8 DEF PartsOK, PartOK
  <2>1. CASE i = Len(Parts) + 1
    BY <1>3, <1>6, <2>1 DEF PartOK, PartKinds
  <2>2. CASE i # Len(Parts) + 1
    BY <1>3, <1>6, <2>2 DEF PartsOK
  <2> QED BY <2>1, <2>2
<1>10. Marked'
  <2>1. Recorded(Parts, Len(list) + 1) /\ \A i \in DOMAIN Parts : Parts[i].k # "end"
    BY <1>0, <1>1 DEF Marked
  <2>2. Recorded(disk, Len(list) + 1)'
    <3> SUFFICES ASSUME NEW j \in 1..Len(list), list[j] \in Files, ~Missed(list[j])
                 PROVE  \E i \in DOMAIN disk' : disk'[i].k = "file" /\ disk'[i].ndx = j
      BY <1>0, <1>1 DEF Recorded, Missed
    <3>1. PICK i \in DOMAIN Parts : Parts[i].k = "file" /\ Parts[i].ndx = j
      BY <1>1, <2>1 DEF Recorded
    <3>2. i \in DOMAIN disk' /\ disk'[i] = Parts[i]
      BY <1>3, <1>6
    <3> QED BY <3>1, <3>2
  <2>3. ASSUME NEW i \in DOMAIN disk', disk'[i].k = "end" PROVE i = Len(disk')
    BY <1>3, <1>6, <2>1, <2>3
  <2>4. disk'[Len(disk')].k = "end" /\ disk' # <<>> /\ captures' # 0
    BY <1>0, <1>1, <1>3, <1>6 DEF CaptureTyped
  <2> QED BY <1>0, <2>2, <2>3, <2>4 DEF Marked
<1>11. Replayed'
  <2>1. Len(disk) <= Len(disk') /\ \A i \in DOMAIN disk : disk'[i] = disk[i]
    BY <1>6, PartsTyped
  <2> QED BY <1>0, <1>7, <2>1, ReplayKept
<1>12. SourceTyped' /\ SeenAll' /\ DestTyped'
  BY <1>0, SourceKept DEF DestTyped, OwnContent, replay
<1>13. ScriptRuns'
  BY <1>0, <1>1 DEF ScriptRuns, CaptureTyped
<1> QED BY <1>7, <1>9, <1>10, <1>11, <1>12, <1>13

\* The script is written, or the process is killed and its buffer lost.
LEMMA EndCaptureStep == BatchInv /\ (WriteScript \/ KillCapture) => BatchInv'
<1> SUFFICES ASSUME BatchInv, WriteScript \/ KillCapture PROVE BatchInv'
  OBVIOUS
<1> USE DEF BatchInv, source
<1>1. /\ UNCHANGED <<src, changes, list, disk, captures, replay, seen>> /\ pos' \in {0, pos}
      /\ cpc' = "idle" /\ buf' = <<>>
      /\ script' = script \/ (script' = captures /\ cpc = "script")
  BY DEF WriteScript, KillCapture, CaptureTyped
<1>2. CaptureTyped'
  <2>1. Streams'
    <3>1. PICK P : disk \in Seq(P) /\ buf \in Seq(P)
      BY DEF CaptureTyped, Streams
    <3>2. disk' \in Seq(P) /\ buf' \in Seq(P)
      BY <1>1, <3>1
    <3> QED BY <3>2 DEF Streams
  <2> QED BY <1>1, <2>1 DEF CaptureTyped
<1>3. Parts' = disk
  <2>1. PICK P : disk \in Seq(P)
    BY DEF CaptureTyped, Streams
  <2> QED BY <1>1, <2>1, JoinFacts DEF Parts
<1>4. PartsOK'
  BY <1>1, <1>3, DiskOK DEF PartsOK, PartOK
<1>5. Marked'
  <2>1. Recorded(disk, Len(list) + 1)' = Recorded(disk, Len(list) + 1)
    BY <1>1 DEF Recorded, Missed
  <2> QED BY <1>1, <2>1 DEF Marked
<1>6. Replayed'
  <2>1. Len(disk) <= Len(disk') /\ \A i \in DOMAIN disk : disk'[i] = disk[i]
    BY <1>1, PartsTyped
  <2> QED BY <1>1, <1>2, <2>1, ReplayKept
<1>7. SourceTyped' /\ SeenAll' /\ DestTyped'
  BY <1>1, SourceKept DEF DestTyped, OwnContent, replay
<1>8. ScriptRuns'
  BY <1>1 DEF ScriptRuns, Marked
<1> QED BY <1>2, <1>4, <1>5, <1>6, <1>7, <1>8

\* A replay reads the batch file and nothing else of the capture's.
LEMMA CaptureKept ==
    ASSUME BatchInv, UNCHANGED <<source, capture, seen>>
    PROVE  /\ SourceTyped' /\ SeenAll' /\ CaptureTyped' /\ PartsOK' /\ Marked' /\ ScriptRuns'
           /\ \A i : NameAt(i)' = NameAt(i)
<1> USE DEF BatchInv, source, capture
<1>1. Parts' = Parts
  BY DEF Parts
<1>2. PartsOK'
  BY <1>1 DEF PartsOK, PartOK
<1>3. \A q, p : Recorded(q, p)' = Recorded(q, p)
  BY DEF Recorded, Missed
<1>4. Marked'
  BY <1>1, <1>3 DEF Marked
<1>5. CaptureTyped' /\ ScriptRuns'
  BY DEF CaptureTyped, Streams, ScriptRuns
<1>6. SourceTyped' /\ SeenAll'
  BY SourceKept
<1> QED BY <1>2, <1>4, <1>5, <1>6 DEF NameAt

\* What the record at the replay's place says.
LEMMA RecordHere ==
    ASSUME BatchInv, rpc \in {"records", "fill"}, rpos <= Len(disk)
    PROVE  /\ rpos \in DOMAIN disk /\ rpos \in Nat /\ rpos >= 3 /\ rlist = list /\ Len(disk) \in Nat
           /\ disk[rpos].k = "file" => /\ rlist[disk[rpos].ndx] = NameAt(rpos) /\ NameAt(rpos) \in Files
                                       /\ disk[rpos].v.name = NameAt(rpos)
                                       /\ disk[rpos].v \in seen[NameAt(rpos)]
<1> USE DEF BatchInv
<1>1. rpos \in DOMAIN disk /\ rpos \in Nat /\ rpos >= 3 /\ rlist = list /\ Len(disk) \in Nat
  BY PartsTyped DEF Replayed, Reading
<1>2. PartOK(rpos, disk[rpos])
  BY <1>1, DiskOK
<1> QED BY <1>1, <1>2 DEF PartOK, NameAt

\* The replay begins, reads its header or gives up.
LEMMA StartReplayStep == BatchInv /\ (StartReplay \/ ReadHeader \/ FailReplay) => BatchInv'
<1> SUFFICES ASSUME BatchInv, StartReplay \/ ReadHeader \/ FailReplay PROVE BatchInv'
  OBVIOUS
<1> USE DEF BatchInv
<1>1. /\ UNCHANGED <<source, capture, dest, seen>>
      /\ \/ rpc' = "header" /\ rpos' = 1 /\ dry' \in BOOLEAN
         \/ rpc' = "list" /\ rpos' = 2 /\ dry' \in BOOLEAN
         \/ rpc' = "failed" /\ dry' \in BOOLEAN
  <2>1. CASE StartReplay BY <2>1 DEF StartReplay
  <2>2. CASE ReadHeader BY <2>2 DEF ReadHeader, Replayed
  <2>3. CASE FailReplay BY <2>3 DEF FailReplay
  <2> QED BY <2>1, <2>2, <2>3
<1>2. Replayed'
  BY <1>1 DEF Replayed, Reading
<1> QED BY <1>1, <1>2, CaptureKept DEF DestTyped, OwnContent

\* The replay reads the list it was captured with.
LEMMA ReadListStep == BatchInv /\ ReadList => BatchInv'
<1> SUFFICES ASSUME BatchInv, ReadList PROVE BatchInv'
  OBVIOUS
<1> USE DEF BatchInv
<1>1. /\ UNCHANGED <<source, capture, dest, seen, dry>>
      /\ rpc = "list" /\ rpos <= Len(disk) /\ disk[rpos].k = "list"
      /\ rpc' = "records" /\ rpos' = rpos + 1 /\ rlist' = disk[rpos].v
      /\ ~dry => made' = made \cup UNION {{n} \cup Parents[n] : n \in {rlist'[i] : i \in DOMAIN rlist'} \cap Dirs}
  BY DEF ReadList, Here
<1>2. rpos = 2 /\ Len(disk) \in Nat /\ 1 \in DOMAIN disk /\ 2 \in DOMAIN disk
  BY <1>1, PartsTyped DEF Replayed
<1>3. rlist' = list /\ disk[1].k = "header" /\ disk[2].k = "list"
  BY <1>1, <1>2, DiskOK DEF PartOK
<1>4. ~dry => \A n \in Dirs : InList(n)' => n \in made'
  BY <1>1 DEF InList
<1>5. disk' = disk /\ list' = list
  BY <1>1 DEF capture
<1>6. \A i \in 1..(rpos' - 1) : disk'[i].k # "file"
  BY <1>1, <1>2, <1>3, <1>5
<1>7. Replayed'
  <2> HIDE DEF BatchInv
  <2>1. dry' \in BOOLEAN
    BY <1>1 DEF BatchInv, Replayed
  <2> QED BY <2>1, <1>1, <1>2, <1>3, <1>4, <1>5, <1>6 DEF Replayed, Reading
<1> QED BY <1>1, <1>7, CaptureKept DEF DestTyped, OwnContent

\* The file is torn until it is filled; the others are what they were.
LEMMA OpenFileStep == BatchInv /\ OpenFile => BatchInv'
<1> SUFFICES ASSUME BatchInv, OpenFile PROVE BatchInv'
  OBVIOUS
<1> USE DEF BatchInv
<1> DEFINE n == NameAt(rpos)
<1>1. /\ UNCHANGED <<source, capture, dry, rpos, rlist, seen>>
      /\ rpc = "records" /\ rpos <= Len(disk) /\ disk[rpos].k = "file" /\ ~dry /\ rpc' = "fill"
      /\ made \subseteq made' /\ dest' = [dest EXCEPT ![rlist[disk[rpos].ndx]] = Torn]
  BY DEF OpenFile, Here
<1>2. /\ n \in Files /\ dest' = [dest EXCEPT ![n] = Torn]
      /\ rpos \in Nat /\ rpos >= 3 /\ rlist = list /\ Len(disk) \in Nat
  BY <1>1, RecordHere
<1>3. \A i : NameAt(i)' = NameAt(i)
  BY <1>1, CaptureKept
<1>4. disk' = disk /\ list' = list
  BY <1>1 DEF capture
<1>5. \A i \in 1..(rpos - 1) : disk[i].k = "file" => dest[NameAt(i)] \in seen[NameAt(i)]
  BY <1>1 DEF Replayed, Reading
<1>6. DestTyped'
  BY <1>1, <1>2 DEF DestTyped, OwnContent, Torn
<1>7. \A i \in 1..(rpos - 1) :
         disk[i].k = "file" => dest'[NameAt(i)] \in seen[NameAt(i)] \/ NameAt(i) = n
  BY <1>2, <1>5
<1>8. \A m \in Dirs : InList(m)' => m \in made'
  BY <1>1 DEF Replayed, Reading, InList
<1>9. Replayed'
  <2> HIDE DEF BatchInv
  <2>1. dry' \in BOOLEAN
    BY <1>1 DEF BatchInv, Replayed
  <2> QED BY <2>1, <1>1, <1>2, <1>3, <1>4, <1>7, <1>8 DEF Replayed, Reading
<1> QED BY <1>1, <1>6, <1>9, CaptureKept

\* The replay fills the file whose record it has come to.
LEMMA FillFileStep == BatchInv /\ FillFile => BatchInv'
<1> SUFFICES ASSUME BatchInv, FillFile PROVE BatchInv'
  OBVIOUS
<1> USE DEF BatchInv
<1> DEFINE n == NameAt(rpos)
           c == disk[rpos].v
<1>1. /\ UNCHANGED <<source, capture, dry, rlist, made, seen>>
      /\ rpc = "fill" /\ rpc' = "records" /\ rpos' = rpos + 1
      /\ dest' = [dest EXCEPT ![rlist[disk[rpos].ndx]] = disk[rpos].v]
  BY DEF FillFile
<1>2. rpos <= Len(disk) /\ disk[rpos].k = "file" /\ ~dry
  BY <1>1 DEF Replayed
<1>3. /\ n \in Files /\ dest' = [dest EXCEPT ![n] = c] /\ c.name = n /\ c \in seen[n]
      /\ rpos \in Nat /\ rpos >= 3 /\ rlist = list /\ Len(disk) \in Nat
  BY <1>1, <1>2, RecordHere
<1>4. \A i : NameAt(i)' = NameAt(i)
  BY <1>1, CaptureKept
<1>5. disk' = disk /\ list' = list
  BY <1>1 DEF capture
<1>6. DestTyped'
  BY <1>1, <1>3 DEF DestTyped, OwnContent
<1>7. \A i \in 1..(rpos - 1) :
         disk[i].k = "file" => dest[NameAt(i)] \in seen[NameAt(i)] \/ NameAt(i) = n
  BY <1>1, <1>2 DEF Replayed, Reading
<1>8. ASSUME NEW i \in 1..rpos, disk[i].k = "file" PROVE dest'[NameAt(i)] \in seen[NameAt(i)]
  <2>1. CASE NameAt(i) = n
    <3>1. DOMAIN dest = Files
      BY DEF DestTyped
    <3>2. dest'[n] = c
      BY <1>3, <3>1
    <3> QED BY <2>1, <3>2, <1>3
  <2>2. CASE NameAt(i) # n
    <3>1. i \in 1..(rpos - 1)
      BY <1>3, <2>2
    <3>2. dest[NameAt(i)] \in seen[NameAt(i)]
      BY <1>7, <1>8, <2>2, <3>1
    <3>3. dest'[NameAt(i)] = dest[NameAt(i)]
      BY <1>3, <2>2
    <3> QED BY <3>2, <3>3
  <2> QED BY <2>1, <2>2
<1>9. \A m \in Dirs : InList(m)' => m \in made'
  BY <1>1, <1>2 DEF Replayed, Reading, InList
<1>10. Replayed'
  <2> HIDE DEF BatchInv
  <2>1. dry' \in BOOLEAN
    BY <1>1 DEF BatchInv, Replayed
  <2>2. rpos' - 1 = rpos
    BY <1>1, <1>3
  <2>3. \A i \in 1..(rpos' - 1) : disk'[i].k = "file" => dest'[NameAt(i)'] \in seen'[NameAt(i)']
    BY <2>2, <1>1, <1>4, <1>5, <1>8
  <2> QED BY <2>1, <2>3, <1>1, <1>2, <1>3, <1>5, <1>9 DEF Replayed, Reading
<1> QED BY <1>1, <1>6, <1>10, CaptureKept

\* A dry run passes over a record; the end marker ends a replay.
LEMMA PassStep == BatchInv /\ (SkipRecord \/ ReadEnd) => BatchInv'
<1> SUFFICES ASSUME BatchInv, SkipRecord \/ ReadEnd PROVE BatchInv'
  OBVIOUS
<1> USE DEF BatchInv
<1>1. /\ UNCHANGED <<source, capture, dry, rlist, dest, made, seen>>
      /\ rpc = "records" /\ rpos <= Len(disk)
      /\ \/ dry /\ rpc' = "records" /\ rpos' = rpos + 1
         \/ rpc' = "done" /\ rpos' = rpos /\ disk[rpos].k = "end"
  BY DEF SkipRecord, ReadEnd, Here
<1>2. rpos \in Nat /\ rpos >= 3 /\ rlist = list /\ Len(disk) \in Nat
  BY <1>1, RecordHere
<1>3. disk' = disk /\ list' = list /\ \A i : NameAt(i)' = NameAt(i)
  BY <1>1, CaptureKept DEF capture
<1>4. \A m : InList(m)' = InList(m)
  BY <1>1 DEF InList
<1>5. ~dry => /\ \A m \in Dirs : InList(m) => m \in made
              /\ \A i \in 1..(rpos - 1) : disk[i].k = "file" => dest[NameAt(i)] \in seen[NameAt(i)]
  BY <1>1 DEF Replayed, Reading
<1>6. Replayed'
  <2> HIDE DEF BatchInv
  <2>1. dry' \in BOOLEAN
    BY <1>1 DEF BatchInv, Replayed
  <2> QED BY <2>1, <1>1, <1>2, <1>3, <1>4, <1>5 DEF Replayed, Reading
<1> QED BY <1>1, <1>6, CaptureKept DEF DestTyped, OwnContent

\* A replay that has lost its place may spoil any file, and is promised nothing more.
LEMMA ReadAstrayStep == BatchInv /\ ReadAstray => BatchInv'
<1> SUFFICES ASSUME BatchInv, ReadAstray PROVE BatchInv'
  OBVIOUS
<1> USE DEF BatchInv
<1>1. /\ UNCHANGED <<source, capture, dry, seen>> /\ rpc' = "astray"
      /\ \E n \in Files : dest' = [dest EXCEPT ![n] = Garbled]
  BY DEF ReadAstray
<1>2. Replayed'
  BY <1>1 DEF Replayed, Reading
<1>3. DestTyped'
  BY <1>1 DEF DestTyped, OwnContent, Garbled
<1> QED BY <1>1, <1>2, <1>3, CaptureKept

\* Every step keeps the invariant.
LEMMA BatchStep == BatchInv /\ [Next]_vars => BatchInv'
<1>1. ASSUME BatchInv, UNCHANGED vars PROVE BatchInv'
  <2>1. UNCHANGED <<source, capture, replay, seen>>
    BY <1>1 DEF vars
  <2>2. \A i : NameAt(i)' = NameAt(i)
    BY <2>1 DEF NameAt, capture
  <2>3. Replayed' /\ DestTyped'
    BY <1>1, <2>1, <2>2 DEF BatchInv, Replayed, Reading, InList, DestTyped, OwnContent, replay, capture
  <2> QED BY <1>1, <2>1, <2>3, CaptureKept DEF BatchInv
<1> QED BY <1>1, ChangeStep, StartCaptureStep, WriteFileStep, FlushSomeStep, FinishStep,
        EndCaptureStep, StartReplayStep, ReadListStep, OpenFileStep, FillFileStep, PassStep,
        ReadAstrayStep DEF Next

-----------------------------------------------------------------------------
(* What the invariant says of the replays.                                 *)

\* A replay that has come to the end marker has put every record in place.
LEMMA DoneComplete == BatchInv => ReplayComplete
<1> SUFFICES ASSUME BatchInv, rpc = "done", ~dry PROVE ReplayComplete
  BY DEF ReplayComplete
<1> USE DEF BatchInv
<1>1. /\ rpos \in Nat /\ rlist = list /\ rpos <= Len(disk) /\ disk[rpos].k = "end" /\ rpos >= 3
      /\ \A n \in Dirs : InList(n) => n \in made
      /\ \A i \in 1..(rpos - 1) : disk[i].k = "file" => dest[NameAt(i)] \in seen[NameAt(i)]
  BY DEF Replayed, Reading
<1>2. Len(disk) \in Nat /\ DOMAIN disk = 1..Len(disk) /\ Len(list) \in Nat /\ DOMAIN list = 1..Len(list)
  BY PartsTyped DEF CaptureTyped
<1>3. rpos \in DOMAIN disk
  BY <1>1, <1>2
<1>4. rpos = Len(disk) /\ Recorded(disk, Len(list) + 1)
  BY <1>1, <1>3 DEF Marked
<1>5. ASSUME NEW n \in Files, InList(n), ~Missed(n) PROVE dest[n] \in seen[n]
  <2>1. PICK j \in 1..Len(list) : list[j] = n
    BY <1>1, <1>2, <1>5 DEF InList
  <2>2. PICK i \in DOMAIN disk : disk[i].k = "file" /\ disk[i].ndx = j
    BY <1>2, <1>4, <1>5, <2>1 DEF Recorded
  <2>3. i # Len(disk) /\ i \in 1..(rpos - 1)
    BY <1>1, <1>2, <1>4, <2>2
  <2>4. NameAt(i) = n
    BY <2>1, <2>2 DEF NameAt
  <2> QED BY <1>1, <2>2, <2>3, <2>4
<1> QED BY <1>1, <1>5 DEF ReplayComplete

\* The invariant holds throughout: the file is a header, a list and records of that
\* list; an end marker stands only behind the record of every listed file that some source
\* had and let the capture read; a replay has put in place what it read.
THEOREM BatchInvHolds == Spec => []BatchInv
  BY BatchInit, BatchStep, PTL DEF Spec

\* No file is ever given another file's content: the index that run_write_batch counts
\* names the same entry to run_read_batch, however the sources change in between, whatever
\* cannot be read and whichever capture or replay is killed; a replay whose batch file is
\* truncated under it (batch.rs:249) may leave a file garbled, which the property lets it.
THEOREM OwnContentHolds == Spec => []OwnContent
<1>1. BatchInv => OwnContent
  BY DEF BatchInv, DestTyped
<1> QED BY <1>1, BatchInvHolds, PTL

\* A replay that reports success has put in place every listed file except those that
\* the capture passed over because no source had them or let them be read any more
\* (batch.rs:286-302), and every listed directory.
THEOREM ReplayCompleteHolds == Spec => []ReplayComplete
  BY DoneComplete, BatchInvHolds, PTL

\* A script is written only once its batch file is complete on disk: a killed capture
\* never leaves a script of its own beside half a batch file.
THEOREM ScriptRunsHolds == Spec => []ScriptRuns
<1>1. BatchInv => ScriptRuns
  BY DEF BatchInv
<1> QED BY <1>1, BatchInvHolds, PTL

-----------------------------------------------------------------------------
(* The number in a frame tells whether the walk has found a file below it. *)

Below(t, p) == {f \in Reached(t) : IsPrefix(p, f) /\ ~IsDir(Src, f) /\ Admitted(f)}

\* The file f, below the directory of frame j, is still to come.
Pending(j, f) ==
    \/ ComingIn(stack, f)
    \/ Busy /\ f = cur.s
    \/ j < Len(stack) /\ IsPrefix(stack[j + 1].s, f)

Counted ==
    \A j \in 1..Len(stack) :
        /\ stack[j].n = 0 => \A f \in Below(ArgTask, stack[j].s) : Pending(j, f)
        /\ stack[j].n # 0 /\ Given("prune_empty_dirs") => Below(ArgTask, stack[j].s) # {}

LEMMA SameBelow ==
    ASSUME cmd' = cmd, isdir' = isdir, arg' = arg
    PROVE  ArgTask' = ArgTask /\ \A t, p : Below(t, p)' = Below(t, p)
BY SameReached DEF ArgTask, Below

LEMMA BelowAt ==
    ASSUME NEW t, IsTask(t), NEW p, NEW f \in Below(t, p)
    PROVE  f \in Reached(t) /\ IsPrefix(p, f) /\ ~IsDir(Src, f) /\ Admitted(f) /\ f \in Path /\ f \in DOMAIN Src
BY ReachedAt DEF Below

LEMMA CountedNone ==
    ASSUME stack' = <<>>
    PROVE  Counted'
<1> SUFFICES ASSUME NEW j \in 1..Len(stack') PROVE FALSE
  BY DEF Counted
<1> QED
  OBVIOUS

LEMMA CountedEntry ==
    ASSUME WalkInv, Counted, EntryAction
    PROVE  Counted'
<1>1. Busy /\ Run
  BY EntryControl
<1>2. /\ stack' \in Seq(FrameType) /\ LessToDo(stack', stack) /\ Len(stack') = Len(stack)
      /\ \A j \in 1..Len(stack) : stack'[j].todo = stack[j].todo
      /\ \A j \in 1..(Len(stack) - 1) : stack'[j].n = stack[j].n
      /\ pc' \in EntryStates => stack' = stack
      /\ pc' \notin EntryStates /\ stack # <<>> => stack'[Len(stack)].n = stack[Len(stack)].n + 1
  BY EntryStack
<1>3. CASE stack = <<>>
  <2>1. stack' = <<>>
    BY <1>2, <1>3, EmptySeq, LenProperties
  <2> QED
    BY <2>1, CountedNone
<1>4. CASE stack # <<>>
  <2>1. arg' = arg /\ Len(stack) \in Nat \ {0} /\ Len(stack) \in 1..Len(stack)
    <3>1. arg' = arg
      BY <1>4, EntryControl DEF EntryDone
    <3> QED
      BY <1>4, <3>1, TopAt DEF WalkInv
  <2>2. ArgTask' = ArgTask /\ \A t, p : Below(t, p)' = Below(t, p)
    BY <1>1, <2>1, SameBelow DEF Run
  <2>3. \A j \in 1..Len(stack) : stack'[j].s = stack[j].s /\ stack[j] \in FrameType
    BY <1>2, FrameAt DEF LessToDo
  <2>4. IsTask(ArgTask)
    BY <1>4, ArgIs
  <2>5. \A f : ComingIn(stack', f) <=> ComingIn(stack, f)
    BY <1>2, <2>3 DEF ComingIn
  <2> SUFFICES ASSUME NEW j \in 1..Len(stack)
               PROVE  /\ stack'[j].n = 0 => \A f \in Below(ArgTask, stack[j].s) : Pending(j, f)'
                      /\ stack'[j].n # 0 /\ Given("prune_empty_dirs") => Below(ArgTask, stack[j].s) # {}
    BY <1>1, <1>2, <2>2, <2>3 DEF Counted, Run, Given
  <2>6. CASE pc' \in EntryStates
    <3>1. stack' = stack /\ Busy' /\ cur' = cur
      BY <1>2, <2>6, EntryOnward
    <3>2. \A f : Pending(j, f) => Pending(j, f)'
      BY <1>1, <3>1 DEF Pending, ComingIn
    <3> QED
      BY <3>1, <3>2 DEF Counted
  <2>7. CASE pc' \notin EntryStates /\ j = Len(stack)
    <3>1. stack'[j].n # 0
      BY <1>2, <1>4, <2>3, <2>7 DEF FrameType
    <3>2. cur.s \in Below(ArgTask, stack[j].s)
      <4>1. cur.s \in Selected(ArgTask) /\ ~IsDir(Src, cur.s) /\ IsPrefix(stack[j].s, cur.s)
        BY <1>1, FramesAbove DEF WalkInv, Entry
      <4> QED
        BY <4>1 DEF Selected, Below
    <3> QED
      BY <3>1, <3>2
  <2>8. CASE pc' \notin EntryStates /\ j # Len(stack)
    <3>1. j \in 1..(Len(stack) - 1) /\ j + 1 \in 1..Len(stack) /\ j < Len(stack)
      BY <2>1, <2>8
    <3>2. stack'[j].n = stack[j].n /\ stack'[j + 1].s = stack[j + 1].s
      BY <1>2, <2>3, <3>1
    <3>3. IsPrefix(stack[j + 1].s, cur.s)
      BY <1>1, <3>1, FramesAbove
    <3>4. \A f : Pending(j, f) => Pending(j, f)'
      BY <1>2, <2>5, <3>1, <3>2, <3>3 DEF Pending
    <3> QED
      BY <3>2, <3>4 DEF Counted
  <2> QED
    BY <2>6, <2>7, <2>8
<1> QED
  BY <1>3, <1>4

\* A new frame has all that is below it still to come.
LEMMA CountedMore ==
    ASSUME WalkInv, Counted, cmd' = cmd, isdir' = isdir, arg' = arg, IsTask(ArgTask), NEW R \in Seq(FrameType),
           LessToDo(R, stack), Len(R) = Len(stack), \A j \in 1..Len(stack) : R[j].n = stack[j].n,
           NEW c \in [s : Path, d : Path, rel : Path], stack' = Append(R, Frame(c)), stack' \in Seq(FrameType),
           c.s \in Reached(ArgTask), IsDir(Src, c.s), pc = "walk",
           \A f \in Path : ComingIn(stack, f) => ComingIn(R, f) \/ IsPrefix(c.s, f),
           \A j \in 1..Len(stack) : IsPrefix(stack[j].s, c.s)
           /\ (j < Len(stack) => IsPrefix(stack[j + 1].s, c.s))
    PROVE  Counted'
<1>1. /\ Len(R) \in Nat /\ Len(stack') = Len(R) + 1 /\ stack'[Len(R) + 1] = Frame(c)
      /\ \A j \in 1..Len(R) : stack'[j] = R[j]
  <2>1. Frame(c) \in FrameType
    <3>1. FrameOf(Frame(c), ArgTask) \/ TRUE
      OBVIOUS
    <3>2. stack'[Len(stack')] \in FrameType /\ stack'[Len(stack')] = Frame(c)
      <4>1. Len(stack') = Len(R) + 1 /\ stack'[Len(R) + 1] = Frame(c) /\ Len(R) \in Nat
        BY LenProperties, AppendProperties
      <4> QED
        BY <4>1, ElementOfSeq
    <3> QED
      BY <3>2
  <2> QED
    BY <2>1, LenProperties, AppendProperties
<1>2. Frame(c).n = 0 /\ Frame(c).s = c.s /\ Frame(c).todo = {Last(p) : p \in Children(Src, c.s)}
  BY DEF Frame
<1>3. ArgTask' = ArgTask /\ \A t, p : Below(t, p)' = Below(t, p)
  BY SameBelow
<1>4. ~Busy
  BY DEF Busy, EntryStates
<1>5. \A j \in 1..Len(R) : R[j].s = stack[j].s /\ R[j].n = stack[j].n
  BY DEF LessToDo
<1>6. ASSUME NEW f \in Path, ComingIn(R, f)
      PROVE  ComingIn(stack', f)
  <2>1. PICK j \in 1..Len(R) : \E n \in R[j].todo : IsPrefix(Append(R[j].s, n), f)
    BY <1>6 DEF ComingIn
  <2>2. j \in 1..Len(stack') /\ stack'[j] = R[j]
    BY <1>1
  <2> QED
    BY <2>1, <2>2 DEF ComingIn
<1> SUFFICES ASSUME NEW j \in 1..Len(stack')
             PROVE  /\ stack'[j].n = 0 => \A f \in Below(ArgTask, stack'[j].s) : Pending(j, f)'
                    /\ stack'[j].n # 0 /\ Given("prune_empty_dirs") => Below(ArgTask, stack'[j].s) # {}
  BY <1>3 DEF Counted, Given
<1>7. CASE j = Len(R) + 1
  <2>1. stack'[j].n = 0 /\ stack'[j].s = c.s
    BY <1>1, <1>2, <1>7
  <2>2. ASSUME NEW f \in Below(ArgTask, c.s)
        PROVE  Pending(j, f)'
    <3>1. f \in Reached(ArgTask) /\ IsPrefix(c.s, f) /\ f # c.s
      BY <2>2, BelowAt
    <3>2. \A n \in STRING : Append(c.s, n) \in DOMAIN Src => n \in stack'[Len(stack')].todo
      <4> SUFFICES ASSUME NEW n \in STRING, Append(c.s, n) \in DOMAIN Src
                   PROVE  n \in Frame(c).todo
        BY <1>1
      <4>1. Append(c.s, n) # <<>> /\ Front(Append(c.s, n)) = c.s /\ Last(Append(c.s, n)) = n
        BY AppendAt
      <4> QED
        BY <1>2, <4>1 DEF Children
    <3>3. stack' # <<>> /\ stack'[Len(stack')].s = c.s
      BY <1>1, <1>2, EmptySeq
    <3>4. ComingIn(stack', f)
      BY <3>1, <3>2, <3>3, FrameComing
    <3> QED
      BY <3>4 DEF Pending
  <2> QED
    BY <2>1, <2>2
<1>8. CASE j # Len(R) + 1
  <2>1. j \in 1..Len(stack) /\ stack'[j].s = stack[j].s /\ stack'[j].n = stack[j].n /\ j < Len(stack')
    BY <1>1, <1>5, <1>8
  <2>2. ASSUME NEW f \in Below(ArgTask, stack[j].s), Pending(j, f)
        PROVE  Pending(j, f)'
    <3>1. f \in Path
      BY <2>2, BelowAt
    <3>2. CASE ComingIn(R, f)
      BY <1>6, <3>1, <3>2 DEF Pending
    <3>3. CASE IsPrefix(c.s, f)
      <4>1. CASE j = Len(stack)
        <5>1. stack'[j + 1].s = c.s
          BY <1>1, <1>2, <4>1
        <5> QED
          BY <2>1, <3>3, <5>1 DEF Pending
      <4>2. CASE j # Len(stack)
        <5>1. j < Len(stack) /\ j + 1 \in 1..Len(R) /\ Len(stack) \in Nat
          BY <1>1, <2>1, <4>2
        <5>2. stack'[j + 1].s = stack[j + 1].s /\ IsPrefix(stack[j + 1].s, c.s)
          BY <1>1, <1>5, <5>1, <2>1
        <5>3. stack[j + 1].s \in Path /\ c.s \in Path
          BY <5>1, FrameAt DEF FrameType
        <5>4. IsPrefix(stack'[j + 1].s, f)
          BY <3>1, <3>3, <5>2, <5>3, PrefixTrans
        <5> QED
          BY <2>1, <5>4 DEF Pending
      <4> QED
        BY <4>1, <4>2
    <3>4. CASE j < Len(stack) /\ IsPrefix(stack[j + 1].s, f)
      <4>1. j + 1 \in 1..Len(R)
        BY <1>1, <2>1, <3>4
      <4>2. stack'[j + 1].s = stack[j + 1].s
        BY <1>1, <1>5, <4>1
      <4> QED
        BY <2>1, <3>4, <4>2 DEF Pending
    <3> QED
      BY <1>4, <2>2, <3>1, <3>2, <3>3, <3>4 DEF Pending
  <2> QED
    BY <2>1, <2>2 DEF Counted
<1> QED
  BY <1>7, <1>8

\* The directories on the stack are above a child of the innermost one.
LEMMA StackAbove ==
    ASSUME WalkInv, stack # <<>>, NEW s \in Path, IsPrefix(Top.s, s), NEW j \in 1..Len(stack)
    PROVE  IsPrefix(stack[j].s, s)
<1>1. Len(stack) \in Nat \ {0} /\ Len(stack) \in 1..Len(stack) /\ Top = stack[Len(stack)]
  BY TopAt DEF WalkInv
<1>2. stack[j].s \in Path /\ Top.s \in Path
  BY <1>1, FrameAt DEF FrameType
<1>3. CASE j = Len(stack)
  BY <1>1, <1>3
<1>4. CASE j # Len(stack)
  <2>1. j < Len(stack)
    BY <1>1, <1>4
  <2>2. IsPrefix(stack[j].s, Top.s)
    BY <1>1, <2>1 DEF WalkInv, Walking
  <2> QED
    BY <1>2, <2>2, PrefixTrans
<1> QED
  BY <1>3, <1>4

LEMMA CountedDirArg ==
    ASSUME WalkInv, WalkInv', Counted, DirArg
    PROVE  Counted'
<1>1. AtArg /\ Run /\ arg' = arg /\ pc = "walk" /\ stack = <<>>
  BY DEF DirArg, AtArg
<1>2. arg \in DOMAIN cmd.args /\ IsTask(ArgTask) /\ (ArgTask.s \in DOMAIN Src => ArgTask.s \in Reached(ArgTask))
  BY <1>1, ArgIs
<1>3. stack' = Append(stack, Frame(ArgTask)) /\ IsDir(Src, ArgTask.s)
  BY DEF DirArg, Enter, ArgTask
<1>4. ArgTask \in [s : Path, d : Path, rel : Path]
  <2>1. ArgTask = [s |-> ArgTask.s, d |-> ArgTask.d, rel |-> ArgTask.rel]
    BY TaskFields DEF ArgTask
  <2> QED
    BY <1>2, <2>1 DEF IsTask
<1>5. stack \in Seq(FrameType) /\ stack' \in Seq(FrameType) /\ LessToDo(stack, stack) /\ Len(stack) = 0
  BY <1>1, SameLess, EmptySeq DEF WalkInv, Walking
<1>6. ArgTask.s \in Reached(ArgTask)
  BY <1>2, <1>3 DEF IsDir
<1>7. \A f \in Path : ~ComingIn(stack, f)
  BY <1>1, NoneComing
<1>8. /\ \A j \in 1..Len(stack) : stack[j].n = stack[j].n
      /\ \A f \in Path : ComingIn(stack, f) => ComingIn(stack, f) \/ IsPrefix(ArgTask.s, f)
      /\ \A j \in 1..Len(stack) : IsPrefix(stack[j].s, ArgTask.s)
           /\ (j < Len(stack) => IsPrefix(stack[j + 1].s, ArgTask.s))
  BY <1>5, <1>7
<1>9. cmd' = cmd /\ isdir' = isdir
  BY <1>1 DEF Run
<1> QED
  BY <1>1, <1>2, <1>3, <1>4, <1>5, <1>6, <1>8, <1>9, CountedMore

LEMMA CountedVisit ==
    ASSUME WalkInv, WalkInv', Counted, stack # <<>>, NEW n \in Top.todo, Visit(n)
    PROVE  Counted'
<1> DEFINE c == [s |-> Append(Top.s, n), d |-> Append(Top.d, n), rel |-> Append(Top.rel, n)]
           R == [stack EXCEPT ![Len(stack)].todo = @ \ {n}]
<1>1. pc = "walk" /\ Run /\ arg' = arg
  BY DEF Visit
<1>2. /\ \/ /\ c.rel \in Excluded \/ (~IsDir(Src, c.s) /\ ~Admitted(c.s))
            /\ stack' = R /\ pc' = pc /\ cur' = cur
         \/ c.rel \notin Excluded /\ Enter(c, R)
         \/ /\ ~IsDir(Src, c.s) /\ stack' = R /\ pc' = "entry" /\ cur' = c
  BY DEF Visit
<1>3. /\ IsTask(ArgTask) /\ arg \in DOMAIN cmd.args
      /\ Top.s \in Path /\ n \in STRING /\ Top.s \in Reached(ArgTask)
      /\ c \in [s : Path, d : Path, rel : Path] /\ c.s \in DOMAIN Src /\ c.s = Append(Top.s, n)
      /\ (c.s \in Reached(ArgTask) <=> c.rel \notin Excluded)
      /\ IsPrefix(Top.s, c.s)
  <2>1. IsTask(ArgTask) /\ arg \in DOMAIN cmd.args
    BY ArgIs
  <2>2. Top.s \in Path /\ n \in STRING /\ Top.s \in Reached(ArgTask)
    BY ChildAt
  <2>3. c \in [s : Path, d : Path, rel : Path] /\ c.s \in DOMAIN Src
    BY ChildAt
  <2>4. c.s \in Reached(ArgTask) <=> c.rel \notin Excluded
    BY ChildAt
  <2>5. IsPrefix(Top.s, c.s)
    BY ChildAt
  <2> QED
    BY <2>1, <2>2, <2>3, <2>4, <2>5
<1>4. /\ R \in Seq(FrameType) /\ LessToDo(R, stack) /\ Len(R) = Len(stack)
      /\ \A j \in 1..Len(stack) : R[j].n = stack[j].n
  <2>1. stack \in Seq(FrameType)
    BY DEF WalkInv, Walking
  <2>2. R \in Seq(FrameType) /\ LessToDo(R, stack) /\ Len(R) = Len(stack)
    BY <2>1, Visited
  <2>3. \A j \in 1..Len(stack) : R[j].n = stack[j].n
    BY <2>1, Visited
  <2> QED
    BY <2>2, <2>3
<1>5. \A f : ComingIn(stack, f) => ComingIn(R, f) \/ IsPrefix(c.s, f)
  BY VisitComing
<1>6. stack' \in Seq(FrameType)
  BY DEF WalkInv, Walking
<1> HIDE DEF c, R
<1>7. \A j \in 1..Len(stack) : IsPrefix(stack[j].s, c.s)
  BY <1>3, StackAbove
<1>8. Len(stack) \in Nat \ {0} /\ IsTree(Src)
  BY TopAt, LocalAssumption DEF WalkInv
<1>9. ArgTask' = ArgTask /\ \A t, p : Below(t, p)' = Below(t, p)
  BY <1>1, SameBelow DEF Run
<1>10. ASSUME NEW t, NEW p, NEW f \in Below(ArgTask, p), IsPrefix(c.s, f)
       PROVE  c.s \in Reached(ArgTask) /\ (~IsDir(Src, c.s) => f = c.s)
  <2>1. f \in Reached(ArgTask) /\ f \in Path /\ f \in DOMAIN Src
    BY <1>3, <1>10, BelowAt
  <2>2. c.s \in Reached(ArgTask)
    BY <1>3, <1>10, <2>1, ReachedBelow
  <2>3. c.s \in Path
    BY <1>3
  <2> QED
    BY <1>8, <1>10, <2>1, <2>2, <2>3, FileAlone
\* The name is taken off the stack.
<1>11. ASSUME stack' = R,
              \A p : \A f \in Below(ArgTask, p) : IsPrefix(c.s, f) => Busy' /\ f = cur'.s
       PROVE  Counted'
  <2>1. ~Busy
    BY <1>1 DEF Busy, EntryStates
  <2>2. \A j \in 1..Len(stack) : R[j].s = stack[j].s
    BY <1>4 DEF LessToDo
  <2> SUFFICES ASSUME NEW j \in 1..Len(stack)
               PROVE  /\ stack[j].n = 0 => \A f \in Below(ArgTask, stack[j].s) : Pending(j, f)'
                      /\ stack[j].n # 0 /\ Given("prune_empty_dirs") => Below(ArgTask, stack[j].s) # {}
    BY <1>1, <1>4, <1>9, <1>11, <2>2 DEF Counted, Given, Run
  <2>3. ASSUME NEW f \in Below(ArgTask, stack[j].s), Pending(j, f)
        PROVE  Pending(j, f)'
    <3>1. CASE ComingIn(R, f)
      BY <1>11, <3>1 DEF Pending
    <3>2. CASE IsPrefix(c.s, f)
      BY <1>11, <2>3, <3>2 DEF Pending
    <3>3. CASE j < Len(stack) /\ IsPrefix(stack[j + 1].s, f)
      <4>1. j + 1 \in 1..Len(stack)
        BY <1>8, <3>3
      <4> QED
        BY <1>4, <1>11, <2>2, <3>3, <4>1 DEF Pending
    <3> QED
      BY <1>5, <2>1, <2>3, <3>1, <3>2, <3>3 DEF Pending
  <2> QED
    BY <2>3 DEF Counted
<1>12. CASE c.rel \notin Excluded /\ Enter(c, R)
  <2>1. IsDir(Src, c.s) /\ stack' = Append(R, Frame(c)) /\ c.s \in Reached(ArgTask)
    BY <1>3, <1>12 DEF Enter
  <2>2. \A j \in 1..Len(stack) : IsPrefix(stack[j].s, c.s)
           /\ (j < Len(stack) => IsPrefix(stack[j + 1].s, c.s))
    <3> SUFFICES ASSUME NEW j \in 1..Len(stack), j < Len(stack) PROVE j + 1 \in 1..Len(stack)
      BY <1>7
    <3> QED
      BY <1>8
  <2> QED
    BY <1>1, <1>3, <1>4, <1>5, <1>6, <2>1, <2>2, CountedMore DEF Run
<1>13. CASE /\ c.rel \in Excluded \/ (~IsDir(Src, c.s) /\ ~Admitted(c.s))
            /\ stack' = R
  <2>1. \A p : \A f \in Below(ArgTask, p) : ~IsPrefix(c.s, f)
    <3> SUFFICES ASSUME NEW p, NEW f \in Below(ArgTask, p), IsPrefix(c.s, f) PROVE FALSE
      OBVIOUS
    <3>1. Admitted(f)
      BY <1>3, BelowAt
    <3> QED
      BY <1>3, <1>10, <1>13, <3>1
  <2> QED
    BY <1>11, <1>13, <2>1
<1>14. CASE ~IsDir(Src, c.s) /\ stack' = R /\ pc' = "entry" /\ cur' = c
  <2>1. Busy'
    BY <1>14 DEF Busy, EntryStates
  <2>2. \A p : \A f \in Below(ArgTask, p) : IsPrefix(c.s, f) => Busy' /\ f = cur'.s
    BY <1>10, <1>14, <2>1
  <2> QED
    BY <1>11, <1>14, <2>2
<1> QED
  BY <1>2, <1>12, <1>13, <1>14

\* An innermost directory with nothing left in which nothing was found.
LEMMA NothingBelow ==
    ASSUME WalkInv, Counted, pc = "walk", stack # <<>>, Top.todo = {}, NEW f \in Below(ArgTask, Top.s), Top.n = 0
    PROVE  FALSE
<1>1. Len(stack) \in Nat \ {0} /\ Len(stack) \in 1..Len(stack) /\ Top = stack[Len(stack)]
  BY TopAt DEF WalkInv
<1>2. Pending(Len(stack), f)
  BY <1>1 DEF Counted
<1>3. ComingIn(stack, f)
  BY <1>1, <1>2 DEF Pending, Busy, EntryStates
<1>4. IsTask(ArgTask)
  BY ArgIs
<1>5. f \in Path /\ IsPrefix(Top.s, f)
  BY <1>4, BelowAt
<1>6. ~ComingIn(stack, f)
  BY <1>1, <1>5, StackNested, NotComing DEF WalkInv
<1> QED
  BY <1>3, <1>6

LEMMA CountedLeave ==
    ASSUME WalkInv, Counted, Leave
    PROVE  Counted'
<1>1. pc = "walk" /\ stack # <<>> /\ Top.todo = {} /\ Run
  BY DEF Leave
<1>2. /\ Len(stack) \in Nat \ {0} /\ Len(stack') = Len(stack) - 1
      /\ \A j \in 1..(Len(stack) - 1) : stack'[j].todo = stack[j].todo /\ stack'[j].s = stack[j].s
      /\ \A j \in 1..(Len(stack) - 2) : stack'[j].n = stack[j].n
      /\ Len(stack) > 1 =>
                stack'[Len(stack) - 1].n =
                  IF /\ Top.n = 0 /\ Given("prune_empty_dirs")
                  THEN stack[Len(stack) - 1].n ELSE stack[Len(stack) - 1].n + 1
  BY LeaveStack
<1>3. CASE Len(stack) = 1
  <2>1. stack' \in Seq(FrameType) /\ Len(stack') = 0
    BY <1>2, <1>3, LeaveStack
  <2>2. stack' = <<>>
    BY <2>1, EmptySeq
  <2> QED
    BY <2>2, CountedNone
<1>4. CASE Len(stack) # 1
  <2> DEFINE L == Len(stack)
  <2>1. arg' = arg
    BY <1>4 DEF Leave
  <2>2. ArgTask' = ArgTask /\ \A t, p : Below(t, p)' = Below(t, p)
    BY <1>1, <2>1, SameBelow DEF Run
  <2>3. IsTask(ArgTask) /\ ~Busy /\ Top = stack[L] /\ L > 1
    BY <1>1, <1>2, <1>4, ArgIs, TopAt DEF Busy, EntryStates, WalkInv
  <2>4. \A j \in 1..L : stack[j].n \in Nat /\ stack[j].s \in Path
    BY FrameAt DEF FrameType
  <2>5. ASSUME NEW f, ComingIn(stack, f)
        PROVE  ComingIn(stack', f)
    <3>1. PICK j \in 1..L : \E n \in stack[j].todo : IsPrefix(Append(stack[j].s, n), f)
      BY <2>5 DEF ComingIn
    <3>2. j # L
      BY <1>1, <2>3, <3>1
    <3>3. j \in 1..(L - 1)
      BY <1>2, <3>1, <3>2
    <3>4. j \in 1..Len(stack') /\ stack'[j].todo = stack[j].todo /\ stack'[j].s = stack[j].s
      BY <1>2, <3>3
    <3> QED
      BY <3>1, <3>4 DEF ComingIn
  <2> SUFFICES ASSUME NEW j \in 1..(L - 1)
               PROVE  /\ stack'[j].n = 0 => \A f \in Below(ArgTask, stack[j].s) : Pending(j, f)'
                      /\ stack'[j].n # 0 /\ Given("prune_empty_dirs") => Below(ArgTask, stack[j].s) # {}
    BY <1>1, <1>2, <2>2 DEF Counted, Given, Run
  <2>6. j \in 1..L /\ j < L /\ j + 1 \in 1..L
    BY <1>2
  <2>7. ASSUME NEW f, Pending(j, f), ~(j = L - 1 /\ IsPrefix(Top.s, f)) \/ ComingIn(stack, f)
        PROVE  Pending(j, f)'
    <3>1. CASE ComingIn(stack, f)
      BY <2>5, <3>1 DEF Pending
    <3>2. CASE ~ComingIn(stack, f)
      <4>1. IsPrefix(stack[j + 1].s, f) /\ j # L - 1
        <5>1. IsPrefix(stack[j + 1].s, f)
          BY <2>3, <2>7, <3>2 DEF Pending
        <5>2. j = L - 1 => j + 1 = L
          BY <1>2
        <5> QED
          BY <2>3, <2>7, <3>2, <5>1, <5>2
      <4>2. j + 1 \in 1..(L - 1) /\ j < Len(stack')
        BY <1>2, <4>1
      <4>3. stack'[j + 1].s = stack[j + 1].s
        BY <1>2, <4>2
      <4> QED
        BY <4>1, <4>2, <4>3 DEF Pending
    <3> QED
      BY <3>1, <3>2
  <2>8. CASE j # L - 1
    <3>1. j \in 1..(L - 2)
      BY <1>2, <2>8
    <3>2. stack'[j].n = stack[j].n
      BY <1>2, <3>1
    <3> QED
      BY <2>6, <2>7, <2>8, <3>2 DEF Counted
  <2>9. CASE j = L - 1
    <3>1. stack'[j].n = IF Top.n = 0 /\ Given("prune_empty_dirs") THEN stack[j].n ELSE stack[j].n + 1
      BY <1>2, <2>3, <2>9
    <3>2. IsPrefix(stack[j].s, Top.s)
      <4>1. Len(stack) \in 1..Len(stack)
        BY <1>2
      <4> QED
        BY <2>3, <2>6, <4>1 DEF WalkInv, Walking
    <3>3. Below(ArgTask, Top.s) \subseteq Below(ArgTask, stack[j].s)
      <4>1. stack[j].s \in Path /\ Top.s \in Path
        BY <1>2, <2>3, <2>4, <2>6
      <4> SUFFICES ASSUME NEW f \in Below(ArgTask, Top.s) PROVE IsPrefix(stack[j].s, f)
        BY DEF Below
      <4>2. f \in Path /\ IsPrefix(Top.s, f)
        BY <2>3, BelowAt
      <4> QED
        BY <3>2, <4>1, <4>2, PrefixTrans
    <3>4. CASE Top.n = 0 /\ Given("prune_empty_dirs")
      <4>1. \A f \in Below(ArgTask, stack[j].s) : ~IsPrefix(Top.s, f)
        <5> SUFFICES ASSUME NEW f \in Below(ArgTask, stack[j].s), IsPrefix(Top.s, f) PROVE FALSE
          OBVIOUS
        <5>1. f \in Below(ArgTask, Top.s)
          BY DEF Below
        <5> QED
          BY <1>1, <3>4, <5>1, NothingBelow
      <4>2. stack'[j].n = stack[j].n
        BY <3>1, <3>4
      <4> QED
        BY <2>6, <2>7, <4>1, <4>2 DEF Counted
    <3>5. CASE ~(Top.n = 0 /\ Given("prune_empty_dirs"))
      <4>1. stack'[j].n # 0
        BY <2>4, <2>6, <3>1, <3>5
      <4>2. Given("prune_empty_dirs") => Below(ArgTask, Top.s) # {}
        <5>1. L \in 1..Len(stack)
          BY <1>2
        <5> QED
          BY <2>3, <3>5, <5>1 DEF Counted
      <4> QED
        BY <3>3, <4>1, <4>2
    <3> QED
      BY <3>4, <3>5
  <2> QED
    BY <2>8, <2>9
<1> QED
  BY <1>3, <1>4

LEMMA CountedStep ==
    ASSUME WalkInv, WalkInv', Counted, LocalNext
    PROVE  Counted'
<1>1. CASE Start \/ Kill
  BY <1>1, CountedNone DEF Start, Kill
<1>2. CASE SkipArg \/ FileArg \/ EndWalk
  BY <1>2, CountedNone DEF SkipArg, FileArg, EndWalk, AtArg
<1>3. CASE (\E p \in DOMAIN dst : Delete(p)) \/ EndDelete
  <2>1. pc = "delete" /\ stack' = stack
    BY <1>3 DEF Delete, EndDelete, At
  <2>2. stack = <<>>
    BY <2>1 DEF WalkInv, Control
  <2> QED
    BY <2>1, <2>2, CountedNone
<1>4. CASE EntryAction
  BY <1>4, CountedEntry
<1>5. CASE DirArg
  BY <1>5, CountedDirArg
<1>6. CASE Leave
  BY <1>6, CountedLeave
<1>7. CASE stack # <<>> /\ \E n \in Top.todo : Visit(n)
  BY <1>7, CountedVisit
<1> QED
  BY <1>1, <1>2, <1>3, <1>4, <1>5, <1>6, <1>7, NextCases

LEMMA CountedStart ==
    ASSUME LocalInit
    PROVE  Counted
<1> SUFFICES ASSUME NEW j \in 1..Len(stack) PROVE FALSE
  BY DEF Counted
<1> QED
  BY DEF LocalInit

LEMMA CountedStutter ==
    ASSUME Counted, UNCHANGED localVars
    PROVE  Counted'
<1>1. ArgTask' = ArgTask /\ \A t, p : Below(t, p)' = Below(t, p)
  BY SameBelow DEF localVars
<1>2. \A j, f : Pending(j, f)' <=> Pending(j, f)
  BY DEF Pending, ComingIn, Busy, localVars
<1> QED
  BY <1>1, <1>2 DEF Counted, localVars, Given

-----------------------------------------------------------------------------
(* What the --delete pass knows of.                                        *)

\* A walk has a directory open for x.
OnStack(x) == x.k = arg /\ \E j \in 1..Len(stack) : stack[j].s = x.s

Noted(x) == Passed(x) /\ x.d # Root => OnStack(x) \/ Rel(x.d) \in kept

Kept ==
    isdir /\ Straight /\ pc # "idle" =>
        /\ \A x \in AllCopies : Noted(x)
        /\ \A r \in kept : r = <<>> \/ Root \o r \in Places
        /\ Busy /\ stack # <<>> => Rel(cur.d) \in kept

LEMMA RootRel ==
    ASSUME NEW p \in Path
    PROVE  /\ Rel(Root \o p) = p /\ Root \o p \in Path
           /\ IsPrefix(Root, p) => Root \o Rel(p) = p
           /\ Rel(Root) = <<>>
<1>1. Root \in Path /\ Len(Root) = 1 /\ Len(p) \in Nat
  BY RootAt, PathLen
<1>2. /\ Root \o p \in Path /\ Len(Root \o p) = 1 + Len(p)
      /\ \A i \in 1..Len(p) : (Root \o p)[1 + i] = p[i]
  <2>1. /\ Root \o p \in Path /\ Len(Root \o p) = Len(Root) + Len(p)
        /\ \A i \in 1..Len(p) : (Root \o p)[Len(Root) + i] = p[i]
    BY <1>1, ConcatAt
  <2> QED
    BY <1>1, <2>1
<1>3. Rel(Root \o p) = p
  <2> DEFINE q == Root \o p
             w == SubSeq(q, 2, Len(q))
  <2>1. q \in Path /\ 1 \in 0..Len(q) /\ Len(q) = 1 + Len(p)
    BY <1>1, <1>2
  <2> HIDE DEF q
  <2>2. /\ w \in Path /\ Len(w) = Len(q) - 1 /\ \A i \in 1..(Len(q) - 1) : w[i] = q[1 + i]
    BY <2>1, CutAt
  <2>3. Len(w) = Len(p) /\ \A i \in 1..Len(p) : w[i] = p[i]
    BY <1>1, <1>2, <2>1, <2>2 DEF q
  <2>4. w = p
    BY <2>2, <2>3, PathEqual
  <2> QED
    BY <1>1, <2>4 DEF q, Rel
<1>4. ASSUME IsPrefix(Root, p)
      PROVE  Root \o Rel(p) = p
  <2> DEFINE w == SubSeq(p, 2, Len(p))
  <2>1. 1 \in 0..Len(p) /\ p[1] = Root[1]
    BY <1>1, <1>4, PrefixAt, SMTT(40)
  <2>2. w \in Path /\ Len(w) = Len(p) - 1 /\ \A i \in 1..(Len(p) - 1) : w[i] = p[1 + i]
    <3>1. /\ SubSeq(p, 1 + 1, Len(p)) \in Path /\ Len(SubSeq(p, 1 + 1, Len(p))) = Len(p) - 1
          /\ \A i \in 1..(Len(p) - 1) : SubSeq(p, 1 + 1, Len(p))[i] = p[1 + i]
      BY <2>1, CutAt
    <3> QED
      BY <3>1
  <2> HIDE DEF w
  <2>3. /\ Root \o w \in Path /\ Len(Root \o w) = 1 + Len(w)
        /\ (Root \o w)[1] = Root[1]
        /\ \A i \in 1..Len(w) : (Root \o w)[1 + i] = w[i]
    <3>1. /\ Root \o w \in Path /\ Len(Root \o w) = Len(Root) + Len(w)
          /\ \A i \in 1..Len(Root) : (Root \o w)[i] = Root[i]
          /\ \A i \in 1..Len(w) : (Root \o w)[Len(Root) + i] = w[i]
      BY <1>1, <2>2, ConcatAt
    <3> QED
      BY <1>1, <3>1
  <2>4. Len(Root \o w) = Len(p)
    BY <1>1, <2>1, <2>2, <2>3
  <2>5. ASSUME NEW i \in 1..Len(p)
        PROVE  (Root \o w)[i] = p[i]
    <3>1. CASE i = 1
      BY <2>1, <2>3, <3>1
    <3>2. CASE i # 1
      <4>1. i - 1 \in 1..(Len(p) - 1) /\ 1 + (i - 1) = i /\ i - 1 \in 1..Len(w)
        BY <1>1, <2>2, <3>2
      <4> QED
        BY <2>2, <2>3, <4>1
    <3> QED
      BY <3>1, <3>2
  <2>6. Root \o w = p
    BY <2>3, <2>4, <2>5, PathEqual
  <2> QED
    BY <1>1, <2>6 DEF Rel, w
<1>5. Rel(Root) = <<>>
  <2>1. 1 \in 0..Len(Root)
    BY <1>1
  <2>2. SubSeq(Root, 1 + 1, Len(Root)) \in Path /\ Len(SubSeq(Root, 1 + 1, Len(Root))) = Len(Root) - 1
    BY <1>1, <2>1, CutAt
  <2> QED
    BY <1>1, <2>2, PathLen DEF Rel
<1> QED
  BY <1>2, <1>3, <1>4, <1>5

\* The path relative to the transfer is the one relative to the destination.
LEMMA StraightRel ==
    ASSUME Straight, cmd \in Commands \cup {NoCommand}, NEW k \in DOMAIN cmd.args,
           IsDir(Src, Task(cmd.args[k]).s), NEW p \in Reached(Task(cmd.args[k]))
    PROVE  LET t == Task(cmd.args[k])
           IN  /\ t.d = Root /\ t.rel = <<>>
               /\ Place(t, p) = Root \o RelOf(t, p) /\ Rel(Place(t, p)) = RelOf(t, p)
<1> DEFINE t == Task(cmd.args[k])
           w == SubSeq(p, Len(t.s) + 1, Len(p))
<1>1. t.s = cmd.args[k].path /\ cmd.kind = "sources"
  BY DEF Straight, Task
<1>2. t.d = Root /\ t.rel = <<>>
  BY <1>1 DEF Straight, Task
<1>3. IsTask(t)
  BY TaskAt
<1> HIDE DEF t
<1>4. p \in Path /\ IsPrefix(t.s, p) /\ t.s \in Path
  BY <1>3, ReachedAt DEF t, IsTask
<1>5. w \in Path
  <2>1. Len(t.s) \in 0..Len(p)
    BY <1>4, PathLen, PrefixAt
  <2> QED
    BY <1>4, <2>1, CutAt
<1>6. Place(t, p) = Root \o w
  BY <1>2 DEF Place
<1>7. RelOf(t, p) = w
  <2> HIDE DEF w
  <2>1. <<>> \o w = w
    BY <1>5, ConcatEmptySeq DEF Path
  <2> QED
    BY <1>2, <2>1 DEF RelOf, w
<1> QED
  BY <1>2, <1>5, <1>6, <1>7, RootRel DEF t

\* At the start everything is still ahead.
LEMMA StartAhead ==
    ASSUME Start
    PROVE  (\A x \in AllCopies' : Ahead(x)') /\ (\A x \in AllReached' : Ahead(x)')
<1>1. cmd' \in Commands /\ pc' = "walk" /\ arg' = 1 /\ stack' = <<>>
  BY DEF Start
<1>2. DOMAIN cmd'.args \subseteq Nat \ {0}
  <2>1. \E T : cmd'.args \in Seq(T)
    BY <1>1, LocalAssumption
  <2> QED
    BY <2>1, LenProperties
<1>3. \A x \in AllCopies' : x.k \in DOMAIN cmd'.args
  BY DEF AllCopies
<1>4. \A x \in AllReached' : x.k \in DOMAIN cmd'.args
  BY DEF AllReached
<1>5. \A k \in Nat \ {0} : k > 1 \/ k = 1
  OBVIOUS
<1> QED
  BY <1>1, <1>2, <1>3, <1>4, <1>5 DEF Ahead

\* The directory the walk has open is the place of a copy unless it is pruned.
LEMMA TopSelected ==
    ASSUME WalkInv, Counted, pc = "walk", stack # <<>>, Top.todo = {}
    PROVE  LET x == [k |-> arg, s |-> Top.s, d |-> Top.d]
           IN  /\ x \in AllReached
               /\ x \in AllCopies <=> ~(Top.n = 0 /\ Given("prune_empty_dirs"))
<1> DEFINE x == [k |-> arg, s |-> Top.s, d |-> Top.d]
<1>1. Len(stack) \in Nat \ {0} /\ Len(stack) \in 1..Len(stack) /\ Top = stack[Len(stack)]
  BY TopAt DEF WalkInv
<1>2. x \in AllReached /\ IsDir(Src, Top.s) /\ Top.s \in Reached(ArgTask)
  BY <1>1, FrameAt DEF FrameItem
<1>3. Given("recursive") /\ ArgTask = Task(cmd.args[arg])
  BY DEF WalkInv, Walking, ArgTask
<1>4. x.s = Top.s /\ x.k = arg
  OBVIOUS
<1> HIDE DEF x
<1>5. x \in AllCopies <=> Top.s \in Selected(ArgTask)
  BY <1>2, <1>3, <1>4, CopyIs
<1>6. Top.s \in Selected(ArgTask) <=> (Given("prune_empty_dirs") => Below(ArgTask, Top.s) # {})
  BY <1>2, <1>3 DEF Selected, Below
<1>7. Top.n = 0 => Below(ArgTask, Top.s) = {}
  BY NothingBelow
<1>8. Top.n # 0 /\ Given("prune_empty_dirs") => Below(ArgTask, Top.s) # {}
  BY <1>1 DEF Counted
<1> QED
  BY <1>2, <1>5, <1>6, <1>7, <1>8 DEF x

LEMMA KeptEntry ==
    ASSUME WalkInv, Kept, EntryAction
    PROVE  Kept'
<1>1. Busy /\ Run /\ pc # "idle"
  BY EntryControl DEF Busy, EntryStates
<1>2. AllCopies' = AllCopies /\ AllReached' = AllReached /\ (Straight' <=> Straight) /\ isdir' = isdir
  BY <1>1, SameCommand DEF Run
<1> SUFFICES ASSUME isdir, Straight
             PROVE  /\ \A x \in AllCopies : Noted(x)'
                    /\ \A r \in kept' : r = <<>> \/ Root \o r \in Places
                    /\ Busy' /\ stack' # <<>> => Rel(cur'.d) \in kept'
  BY <1>1, <1>2 DEF Kept, Places, Rel
<1>3. /\ \A x \in AllCopies : Noted(x)
      /\ \A r \in kept : r = <<>> \/ Root \o r \in Places
      /\ stack # <<>> => Rel(cur.d) \in kept
  BY <1>1 DEF Kept
<1>4. CASE pc' \in EntryStates
  <2>1. UNCHANGED <<stack, kept, arg, cur>>
    BY <1>4, EntryOnward
  <2>2. ASSUME NEW x \in AllCopies
        PROVE  Noted(x)'
    <3>1. (Passed(x)' <=> Passed(x)) /\ (OnStack(x)' <=> OnStack(x))
      BY <1>4, <2>1, EntryOnward DEF Passed, OnStack
    <3> QED
      BY <1>3, <2>1, <3>1 DEF Noted, Rel
  <2> QED
    BY <1>3, <2>1, <2>2
<1>5. CASE pc' \notin EntryStates
  <2>1. EntryDone /\ cur' = cur /\ ~Busy'
    BY <1>5, EntryFinished, CurAt, <1>1 DEF EntryDone, Busy
  <2>2. kept' = (IF stack = <<>> THEN kept \cup {Rel(cur.d)} ELSE kept) /\ (stack # <<>> => arg' = arg)
    BY <2>1 DEF EntryDone
  <2>3. CurItem \in AllCopies /\ CurItem.d = cur.d /\ IsPrefix(Root, cur.d) /\ cur.d \in Path
    BY <1>1, CurAt
  <2>4. Root \o Rel(cur.d) \in Places
    BY <2>3, RootRel, SMTT(40) DEF Places
  <2>5. ASSUME NEW x \in AllCopies
        PROVE  Noted(x)'
    <3>1. x \in AllReached
      BY CopyIs
    <3>2. Ahead(x)' <=> Ahead(x)
      BY <1>5, <3>1, EntryFinished
    <3>3. OnStack(x) => OnStack(x)'
      <4> SUFFICES ASSUME OnStack(x) PROVE OnStack(x)'
        OBVIOUS
      <4>1. PICK j \in 1..Len(stack) : stack[j].s = x.s
        BY DEF OnStack
      <4>2. stack # <<>>
        BY <4>1
      <4>3. Len(stack') = Len(stack) /\ stack'[j].s = stack[j].s
        BY <4>1, EntryStack DEF LessToDo
      <4> QED
        BY <2>2, <4>1, <4>2, <4>3 DEF OnStack
    <3>4. CASE InHand(x)
      <4>1. x = CurItem
        BY <3>1, <3>4, InHandIs
      <4> QED
        BY <1>3, <2>2, <2>3, <4>1 DEF Noted, Rel
    <3>5. CASE ~InHand(x)
      BY <1>3, <2>2, <3>2, <3>3, <3>5 DEF Noted, Passed, Rel
    <3> QED
      BY <3>4, <3>5
  <2> QED
    BY <1>3, <2>1, <2>2, <2>4, <2>5
<1> QED
  BY <1>4, <1>5

\* What a step of the walk notes.
LEMMA KeptVisit ==
    ASSUME WalkInv, WalkInv', stack # <<>>, NEW n \in Top.todo, Visit(n), Straight
    PROVE  /\ kept \subseteq kept' /\ \A r \in kept' : r \in kept \/ Root \o r \in Places
           /\ Busy' => Rel(cur'.d) \in kept'
           /\ \A x : OnStack(x) => OnStack(x)'
<1> DEFINE c == [s |-> Append(Top.s, n), d |-> Append(Top.d, n), rel |-> Append(Top.rel, n)]
           R == [stack EXCEPT ![Len(stack)].todo = @ \ {n}]
<1>1. pc = "walk" /\ Run /\ arg' = arg
  BY DEF Visit
<1>2. /\ \/ /\ stack' = R /\ pc' = pc /\ cur' = cur /\ kept' = kept
         \/ Enter(c, R)
         \/ /\ c.rel \notin Excluded /\ Admitted(c.s) /\ kept' = kept \cup {c.rel}
            /\ ~IsDir(Src, c.s) /\ stack' = R /\ pc' = "entry" /\ cur' = c
  BY DEF Visit
<1>3. stack \in Seq(FrameType)
  BY DEF WalkInv, Walking
<1>4. R \in Seq(FrameType) /\ LessToDo(R, stack) /\ Len(R) = Len(stack)
  BY <1>3, Visited
<1>5. IsTask(ArgTask) /\ arg \in DOMAIN cmd.args /\ ArgTask = Task(cmd.args[arg])
  BY ArgIs DEF ArgTask
<1>6. c.d = Place(ArgTask, c.s) /\ c.rel = RelOf(ArgTask, c.s)
  BY ChildAt
<1>6a. c.s \in Reached(ArgTask) <=> c.rel \notin Excluded
  BY ChildAt
<1> HIDE DEF c, R
<1>7. \A x : OnStack(x) => OnStack(x)'
  <2>1. \A j \in 1..Len(stack) : j \in 1..Len(stack') /\ stack'[j].s = stack[j].s
    <3>1. \A j \in 1..Len(R) : R[j].s = stack[j].s
      BY <1>4 DEF LessToDo
    <3>2. CASE stack' = R
      BY <1>4, <3>1, <3>2
    <3>3. CASE stack' = Append(R, Frame(c))
      <4>1. Len(R) \in Nat
        BY <1>4, LenProperties
      <4>2. R \in Seq(FrameType \cup {Frame(c)})
        BY <1>4, LenProperties
      <4>3. Len(stack') = Len(R) + 1 /\ \A j \in 1..Len(R) : stack'[j] = R[j]
        BY <3>3, <4>2, AppendProperties
      <4> QED
        BY <1>4, <3>1, <4>1, <4>3
    <3> QED
      BY <1>2, <3>2, <3>3 DEF Enter
  <2> QED
    BY <1>1, <2>1 DEF OnStack
<1>8. CASE stack' = R /\ pc' = pc /\ cur' = cur /\ kept' = kept
  BY <1>1, <1>7, <1>8 DEF Busy, EntryStates
<1>9. CASE Enter(c, R)
  <2>1. pc' = pc /\ kept' = kept
    BY <1>9 DEF Enter
  <2> QED
    BY <1>1, <1>7, <2>1 DEF Busy, EntryStates
<1>10. CASE /\ c.rel \notin Excluded /\ Admitted(c.s) /\ kept' = kept \cup {c.rel}
            /\ ~IsDir(Src, c.s) /\ stack' = R /\ pc' = "entry" /\ cur' = c
  <2>1. c.s \in Reached(ArgTask)
    BY <1>6a, <1>10
  <2>2. IsDir(Src, ArgTask.s)
    <3>1. 1 \in 1..Len(stack) /\ stack[1].s = ArgTask.s
      BY TopAt DEF WalkInv, Walking
    <3> QED
      BY <3>1, FrameAt
  <2>3. c.d = Root \o c.rel /\ Rel(c.d) = c.rel
    <3>1. cmd \in Commands \cup {NoCommand}
      BY DEF WalkInv, Control
    <3> QED
      BY <1>5, <1>6, <2>1, <2>2, <3>1, StraightRel
  <2>4. c.d \in Places
    <3> DEFINE x == [k |-> arg, s |-> c.s, d |-> c.d]
    <3>1. x \in AllReached
      BY <1>5, <1>6, <1>10, <2>1, ReachedIs
    <3>2. x.s = c.s /\ x.d = c.d
      OBVIOUS
    <3> HIDE DEF x
    <3>3. x \in AllCopies
      BY <1>10, <3>1, <3>2, FileCopied
    <3> QED
      BY <3>2, <3>3 DEF Places
  <2>5. Rel(cur'.d) = c.rel
    BY <1>10, <2>3 DEF Rel
  <2> QED
    BY <1>7, <1>10, <2>3, <2>4, <2>5
<1> QED
  BY <1>2, <1>8, <1>9, <1>10

LEMMA KeptLeave ==
    ASSUME WalkInv, Counted, Leave, Straight, isdir
    PROVE  /\ kept \subseteq kept' /\ \A r \in kept' : r \in kept \/ r = <<>> \/ Root \o r \in Places
           /\ ~Busy'
           /\ \A x \in AllCopies : OnStack(x) => OnStack(x)' \/ Rel(x.d) \in kept'
<1> DEFINE i == [k |-> arg, s |-> Top.s, d |-> Top.d]
           r == IF Len(stack) = 1 THEN Rel(Top.d) ELSE Top.rel
           pruned == Top.n = 0 /\ Given("prune_empty_dirs")
<1>1. pc = "walk" /\ pc' = pc /\ stack # <<>> /\ Top.todo = {} /\ Run
  BY DEF Leave
<1>2. kept' = IF pruned THEN kept ELSE kept \cup {r}
  BY DEF Leave
<1>3. Len(stack) # 1 => arg' = arg
  BY DEF Leave
<1>4. Len(stack) \in Nat \ {0} /\ Len(stack) \in 1..Len(stack) /\ Top = stack[Len(stack)]
  BY <1>1, TopAt DEF WalkInv
<1>5. i \in AllCopies <=> ~pruned
  BY <1>1, TopSelected
<1>6. /\ Top.s \in Reached(ArgTask) /\ Top.d = Place(ArgTask, Top.s) /\ Top.rel = RelOf(ArgTask, Top.s)
      /\ IsTask(ArgTask) /\ arg \in DOMAIN cmd.args /\ ArgTask = Task(cmd.args[arg])
      /\ cmd \in Commands \cup {NoCommand}
  BY <1>1, <1>4, ArgIs DEF WalkInv, Walking, Control, FrameOf, ArgTask
<1>7. 1 \in 1..Len(stack) /\ stack[1].s = ArgTask.s /\ IsDir(Src, ArgTask.s)
  <2>1. 1 \in 1..Len(stack) /\ stack[1].s = ArgTask.s
    BY <1>1, <1>4 DEF WalkInv, Walking
  <2> QED
    BY <2>1, FrameAt
<1>8. Top.d = Root \o Top.rel /\ Rel(Top.d) = Top.rel /\ ArgTask.d = Root
  BY <1>6, <1>7, StraightRel
<1>9. i.k = arg /\ i.s = Top.s /\ i.d = Top.d
  OBVIOUS
<1>10. r = Top.rel
  BY <1>8
<1> HIDE DEF i, r
<1>11. ASSUME NEW x \in AllCopies, OnStack(x), ~OnStack(x)'
       PROVE  Rel(x.d) \in kept'
  <2>1. PICK j \in 1..Len(stack) : x.k = arg /\ stack[j].s = x.s
    BY <1>11 DEF OnStack
  <2>2. CASE j = Len(stack)
    <3>1. x \in AllReached
      BY CopyIs
    <3>2. x = [k |-> arg, s |-> Top.s, d |-> Top.d] /\ x.d = Top.d
      BY <1>4, <1>6, <2>1, <2>2, <3>1, ReachedAre
    <3>3. ~pruned
      BY <1>5, <1>11, <3>2 DEF i
    <3> QED
      BY <1>2, <1>8, <1>10, <3>2, <3>3
  <2>3. CASE j # Len(stack)
    <3>1. j \in 1..(Len(stack) - 1) /\ Len(stack) # 1
      BY <1>4, <2>3
    <3>2. j \in 1..Len(stack') /\ stack'[j].s = stack[j].s
      BY <3>1, LeaveStack
    <3> QED
      BY <1>3, <1>11, <2>1, <3>1, <3>2 DEF OnStack
  <2> QED
    BY <2>2, <2>3
<1>12. ASSUME ~pruned
       PROVE  Root \o r \in Places
  BY <1>5, <1>8, <1>9, <1>10, <1>12 DEF Places
<1>13. ~Busy'
  BY <1>1 DEF Busy, EntryStates
<1> QED
  BY <1>2, <1>11, <1>12, <1>13

\* Nothing that was noted is forgotten.
LEMMA KeptWalkStep ==
    ASSUME WalkInv, WalkInv', Counted, WalkAction, Straight, isdir
    PROVE  /\ kept \subseteq kept' /\ \A r \in kept' : r \in kept \/ r = <<>> \/ Root \o r \in Places
           /\ Busy' /\ stack' # <<>> => Rel(cur'.d) \in kept'
           /\ \A x \in AllCopies : OnStack(x) => OnStack(x)' \/ Rel(x.d) \in kept'
<1>1. CASE SkipArg \/ FileArg \/ EndWalk \/ DirArg
  <2>1. stack = <<>> /\ pc = "walk"
    BY <1>1 DEF SkipArg, FileArg, EndWalk, DirArg, AtArg
  <2>2. \A x : ~OnStack(x)
    BY <2>1 DEF OnStack
  <2>3. kept' = kept
    <3>1. CASE SkipArg
      BY <3>1 DEF SkipArg, Straight
    <3> QED
      BY <1>1, <3>1 DEF FileArg, EndWalk, DirArg, Enter
  <2>4. ~(Busy' /\ stack' # <<>>)
    <3>1. CASE FileArg
      BY <2>1, <3>1 DEF FileArg
    <3>2. CASE SkipArg \/ EndWalk
      BY <2>1, <3>2 DEF SkipArg, EndWalk
    <3>3. CASE DirArg
      <4>1. pc' = "walk"
        BY <2>1, <3>3 DEF DirArg, Enter
      <4> QED
        BY <4>1 DEF Busy, EntryStates
    <3> QED
      BY <1>1, <3>1, <3>2, <3>3
  <2> QED
    BY <2>2, <2>3, <2>4
<1>2. CASE Leave
  BY <1>2, KeptLeave
<1>3. CASE stack # <<>> /\ \E n \in Top.todo : Visit(n)
  <2>1. PICK n \in Top.todo : Visit(n)
    BY <1>3
  <2> QED
    BY <1>3, <2>1, KeptVisit
<1>4. CASE (\E p \in DOMAIN dst : Delete(p)) \/ EndDelete
  <2>1. pc = "delete" /\ pc' \in {"delete", "done"} /\ stack' = stack /\ kept' = kept
    BY <1>4 DEF Delete, EndDelete, At
  <2>2. stack = <<>>
    BY <2>1 DEF WalkInv, Control
  <2>3. \A x : ~OnStack(x)
    BY <2>2 DEF OnStack
  <2> QED
    BY <2>1, <2>2, <2>3
<1> QED
  BY <1>1, <1>2, <1>3, <1>4 DEF WalkAction

LEMMA KeptWalk ==
    ASSUME WalkInv, WalkInv', Counted, Kept, WalkAction, Run
    PROVE  Kept'
<1>1. AllCopies' = AllCopies /\ AllReached' = AllReached /\ (Straight' <=> Straight) /\ isdir' = isdir
  BY SameCommand DEF Run
<1>2. pc # "idle"
  BY DEF WalkAction, SkipArg, DirArg, FileArg, Leave, EndWalk, Visit, Delete, EndDelete, AtArg, At
<1> SUFFICES ASSUME isdir, Straight
             PROVE  /\ \A x \in AllCopies : Noted(x)'
                    /\ \A r \in kept' : r = <<>> \/ Root \o r \in Places
                    /\ Busy' /\ stack' # <<>> => Rel(cur'.d) \in kept'
  BY <1>1 DEF Kept, Places, Rel
<1>3. /\ \A x \in AllCopies : Noted(x)
      /\ \A r \in kept : r = <<>> \/ Root \o r \in Places
  BY <1>2 DEF Kept
<1>4. /\ kept \subseteq kept' /\ \A r \in kept' : r \in kept \/ r = <<>> \/ Root \o r \in Places
      /\ Busy' /\ stack' # <<>> => Rel(cur'.d) \in kept'
      /\ \A x \in AllCopies : OnStack(x) => OnStack(x)' \/ Rel(x.d) \in kept'
  BY KeptWalkStep
<1>5. ASSUME NEW x \in AllCopies
      PROVE  Noted(x)'
  <2> SUFFICES ASSUME Passed(x)', x.d # Root PROVE OnStack(x)' \/ Rel(x.d) \in kept'
    BY DEF Noted, Rel
  <2>1. x \in AllReached
    BY CopyIs
  <2>2. Advance(x)
    BY <2>1, WalkAhead
  <2>3. CASE Passed(x)
    BY <1>3, <1>4, <2>3 DEF Noted
  <2>4. CASE ~Passed(x)
    <3>1. Made(x)
      BY <2>2, <2>4 DEF Advance, Passed
    <3>2. CASE Rel(x.d) \in kept'
      BY <3>2
    <3>3. CASE arg' = arg /\ stack' # <<>> /\ stack'[Len(stack')].s = x.s
      <4>1. Len(stack') \in 1..Len(stack')
        <5>1. stack' \in Seq(FrameType)
          BY DEF WalkInv, Walking
        <5> QED
          BY <3>3, <5>1, EmptySeq, LenProperties
      <4> QED
        BY <3>1, <3>3, <4>1 DEF OnStack, Made
    <3> QED
      BY <3>1, <3>2, <3>3 DEF Made
  <2> QED
    BY <2>3, <2>4
<1> QED
  BY <1>3, <1>4, <1>5

LEMMA KeptStep ==
    ASSUME WalkInv, WalkInv', Counted, Kept, LocalNext
    PROVE  Kept'
<1>1. CASE Start
  <2>1. kept' = {} /\ stack' = <<>> /\ \A x \in AllCopies' : Ahead(x)'
    BY <1>1, StartAhead DEF Start
  <2> QED
    BY <2>1 DEF Kept, Noted, Passed
<1>2. CASE Kill
  BY <1>2 DEF Kept, Kill
<1>3. CASE EntryAction
  BY <1>3, KeptEntry
<1>4. CASE WalkAction
  <2>1. Run
    BY <1>4 DEF WalkAction, SkipArg, DirArg, FileArg, Leave, EndWalk, Visit, Delete, EndDelete
  <2> QED
    BY <1>4, <2>1, KeptWalk
<1> QED
  BY <1>1, <1>2, <1>3, <1>4, NextCases DEF WalkAction

LEMMA KeptStart ==
    ASSUME LocalInit
    PROVE  Kept
BY DEF LocalInit, Kept

LEMMA KeptStutter ==
    ASSUME Kept, UNCHANGED localVars
    PROVE  Kept'
<1>1. AllCopies' = AllCopies /\ (Straight' <=> Straight) /\ isdir' = isdir
  BY SameCommand DEF localVars
<1>2. \A x : Noted(x)' <=> Noted(x)
  BY DEF Noted, Passed, OnStack, Ahead, InHand, ComingIn, Busy, Rel, localVars
<1> QED
  BY <1>1, <1>2 DEF Kept, Places, Busy, Rel, localVars

LEMMA PrefixSame ==
    ASSUME NEW p \in Path, NEW q \in Path, NEW r \in Path, IsPrefix(p, r), IsPrefix(q, r), Len(p) = Len(q)
    PROVE  p = q
<1>1. Len(p) <= Len(q)
  BY PathLen
<1>2. IsPrefix(p, q)
  BY <1>1, PrefixChain
<1> QED
  BY <1>2, PrefixAnti

\* After the walk nothing is ahead.
LEMMA EndPassed ==
    ASSUME WalkInv, pc \in {"delete", "done"}, NEW x \in AllReached
    PROVE  Passed(x) /\ ~OnStack(x) /\ ~Ahead(x)
<1>1. cmd \in Commands \cup {NoCommand} /\ stack = <<>> /\ arg > Len(cmd.args) /\ arg \in Nat
  BY DEF WalkInv, Control
<1>2. x.k \in DOMAIN cmd.args
  BY ReachedAre
<1>3. x.k \in 1..Len(cmd.args) /\ Len(cmd.args) \in Nat
  BY <1>1, <1>2, CommandType
<1> QED
  BY <1>1, <1>3 DEF Passed, Ahead, InHand, Busy, EntryStates, OnStack, ComingIn

\* The directories above a copy are copies too.
LEMMA SelectedAbove ==
    ASSUME cmd \in Commands \cup {NoCommand}, NEW x \in AllCopies, NEW a \in Path,
           IsPrefix(Task(cmd.args[x.k]).s, a), IsPrefix(a, x.s), a # x.s
    PROVE  LET t == Task(cmd.args[x.k])
               y == [k |-> x.k, s |-> a, d |-> Place(t, a)]
           IN  y \in AllCopies /\ IsDir(Src, a) /\ a \in Reached(t) /\ IsPrefix(y.d, x.d)
<1> DEFINE t == Task(cmd.args[x.k])
           y == [k |-> x.k, s |-> a, d |-> Place(t, a)]
<1>1. x \in AllReached /\ x.s \in Selected(t)
  BY CopyIs
<1>2. IsTask(t) /\ x.s \in Reached(t) /\ x.d = Place(t, x.s) /\ x.k \in DOMAIN cmd.args
  BY <1>1, ItemAt, ReachedAre
<1>3. a \in Reached(t) /\ IsDir(Src, a)
  <2> HIDE DEF t
  <2>1. IsPrefix(t.s, a)
    BY DEF t
  <2> QED
    BY <1>2, <2>1, ReachedAbove
<1>4. y \in AllReached
  BY <1>2, <1>3, ReachedIs
<1>5. y.k = x.k /\ y.s = a /\ y.d = Place(t, a)
  OBVIOUS
<1>6. x.s # t.s
  <2>1. t.s \in Path /\ x.s \in Path
    BY <1>2, ReachedAt DEF IsTask
  <2> SUFFICES ASSUME x.s = t.s PROVE FALSE
    OBVIOUS
  <2>2. IsPrefix(x.s, a)
    OBVIOUS
  <2>3. Len(x.s) <= Len(a) /\ Len(a) < Len(x.s)
    BY <2>1, <2>2, StrictLen
  <2>4. Len(x.s) \in Nat /\ Len(a) \in Nat
    BY <2>1, PathLen
  <2> QED
    BY <2>3, <2>4
<1> HIDE DEF t, y
<1>7. Given("recursive")
  BY <1>2, <1>6 DEF Reached
<1>8. \E f \in Reached(t) : IsPrefix(x.s, f) /\ ((IsDir(Src, x.s) /\ ~Given("prune_empty_dirs")) \/ (~IsDir(Src, f) /\ Admitted(f)))
  <2>1. x.s \in Path /\ IsPrefix(x.s, x.s)
    BY <1>2, ReachedAt, PrefixRefl
  <2> QED
    BY <1>1, <1>2, <1>7, <2>1 DEF Selected
<1>9. Given("prune_empty_dirs") => \E f \in Reached(t) : IsPrefix(a, f) /\ ~IsDir(Src, f) /\ Admitted(f)
  <2> SUFFICES ASSUME Given("prune_empty_dirs")
               PROVE  \E f \in Reached(t) : IsPrefix(a, f) /\ ~IsDir(Src, f) /\ Admitted(f)
    OBVIOUS
  <2>1. PICK f \in Reached(t) : IsPrefix(x.s, f) /\ ~IsDir(Src, f) /\ Admitted(f)
    BY <1>8
  <2>2. x.s \in Path /\ f \in Path
    BY <1>2, <2>1, ReachedAt
  <2>3. IsPrefix(a, f)
    BY <2>1, <2>2, PrefixTrans
  <2> QED
    BY <2>1, <2>3
<1>10. y \in AllCopies
  <2>1. a \in Selected(t)
    BY <1>3, <1>7, <1>9 DEF Selected
  <2>2. t = Task(cmd.args[y.k])
    BY <1>5 DEF t
  <2> QED
    BY <1>4, <1>5, <2>1, <2>2, CopyIs
<1>11. IsPrefix(y.d, x.d)
  BY <1>2, <1>3, <1>5, PlacePrefix
<1> QED
  BY <1>3, <1>10, <1>11 DEF y, t

\* The --delete pass spares what the run has copied.
LEMMA NotDoomed ==
    ASSUME WalkInv, Kept, pc = "delete", isdir, Straight, NEW x \in AllCopies
    PROVE  ~Doomed(x.d)
<1> DEFINE t == Task(cmd.args[x.k])
<1>1. cmd \in Commands \cup {NoCommand} /\ x \in AllReached
  BY CopyIs DEF WalkInv, Control
<1>2. /\ IsTask(t) /\ x.s \in Reached(t) /\ x.d = Place(t, x.s) /\ x.k \in DOMAIN cmd.args
      /\ x.d \in Path /\ IsPrefix(t.s, x.s) /\ x.s \in Path /\ x.s \in DOMAIN Src
  BY <1>1, ItemAt, ReachedAre
<1>3. \A y \in AllCopies : y.d # Root => Rel(y.d) \in kept
  <2> SUFFICES ASSUME NEW y \in AllCopies, y.d # Root PROVE Rel(y.d) \in kept
    OBVIOUS
  <2>1. y \in AllReached
    BY CopyIs
  <2> QED
    BY <2>1, EndPassed DEF Kept, Noted
<1> SUFFICES ASSUME NEW q \in Prefixes(x.d), IsStrictPrefix(Root, q), Rel(q) \notin kept
             PROVE  FALSE
  BY DEF Doomed
<1>4. q \in Path /\ IsPrefix(q, x.d) /\ Root \in Path /\ IsPrefix(Root, q) /\ q # Root
  BY <1>2, PrefixesAre, RootAt DEF IsStrictPrefix
<1>5. /\ Len(Root) = 1 /\ Len(q) \in Nat /\ Len(q) > 1 /\ Len(q) <= Len(x.d) /\ Len(x.d) \in Nat
      /\ Len(x.s) \in Nat /\ Len(t.s) \in Nat /\ Len(t.s) <= Len(x.s) /\ t.s \in Path
  <2>1. Len(Root) <= Len(q) /\ Len(Root) < Len(q) /\ Len(q) <= Len(x.d)
    BY <1>2, <1>4, StrictLen
  <2>2. t.s \in Path
    BY <1>2 DEF IsTask
  <2> QED
    BY <1>2, <1>4, <2>1, <2>2, RootAt, PathLen, StrictLen
<1>5a. Len(x.d) # 1
  <2>1. \A a, b \in Nat : a > 1 /\ a <= b => b # 1
    OBVIOUS
  <2> QED
    BY <1>5, <2>1
<1>6. x.d # Root
  <2>1. x.d = Root => Len(x.d) = 1
    BY <1>5
  <2> QED
    BY <1>5a, <2>1
<1>7. q # x.d
  BY <1>3, <1>6
<1>8. CASE IsDir(Src, t.s)
  <2>1. t.d = Root
    BY <1>1, <1>2, <1>8, StraightRel
  <2>2. Len(x.d) = 1 + (Len(x.s) - Len(t.s))
    <3> HIDE DEF t
    <3>1. Len(Place(t, x.s)) = Len(t.d) + (Len(x.s) - Len(t.s))
      BY <1>2, ReachedAt
    <3> QED
      BY <1>2, <1>5, <2>1, <3>1
  <2> DEFINE m == Len(t.s) + (Len(q) - 1)
             a == SubSeq(x.s, 1, m)
  <2>3. m \in 0..Len(x.s)
    BY <1>5, <2>2
  <2> HIDE DEF m
  <2>4. a \in Path /\ Len(a) = m /\ IsPrefix(a, x.s)
    BY <1>2, <2>3, CutAt
  <2> HIDE DEF a
  <2>5. Len(t.s) <= Len(a)
    BY <1>5, <2>4 DEF m
  <2>6. IsPrefix(t.s, a)
    BY <1>2, <1>5, <2>4, <2>5, PrefixChain
  <2>6a. Len(q) # Len(x.d)
    BY <1>2, <1>4, <1>7, PrefixAnti
  <2>7. a # x.s
    BY <1>5, <2>2, <2>4, <2>6a DEF m
  <2> DEFINE y == [k |-> x.k, s |-> a, d |-> Place(t, a)]
  <2>8. y \in AllCopies /\ a \in Reached(t) /\ IsPrefix(y.d, x.d)
    BY <1>1, <2>4, <2>6, <2>7, SelectedAbove
  <2>9. y.d = q
    <3> HIDE DEF t
    <3>1. Len(Place(t, a)) = Len(t.d) + (Len(a) - Len(t.s)) /\ Place(t, a) \in Path
      BY <1>2, <2>8, ReachedAt
    <3>2. Len(Place(t, a)) = Len(q)
      BY <1>5, <2>1, <2>4, <3>1 DEF m
    <3> QED
      BY <1>2, <1>4, <2>8, <3>1, <3>2, PrefixSame
  <2> QED
    BY <1>3, <1>4, <2>8, <2>9
<1>9. CASE ~IsDir(Src, t.s)
  <2>1. x.s = t.s
    BY <1>1, <1>9, OnlyArg
  <2>2. x.d = t.d
    <3> HIDE DEF t
    <3> QED
      BY <1>2, <2>1, PlaceSelf
  <2>3. t.s = cmd.args[x.k].path /\ t.d = Append(Root, Last(cmd.args[x.k].path))
    BY <1>9 DEF Task, Straight
  <2>4. Last(cmd.args[x.k].path) \in STRING
    BY <1>1, <1>2, CommandType, FrontAt
  <2>5. Len(x.d) = 2
    <3> DEFINE n == Last(cmd.args[x.k].path)
    <3> HIDE DEF n, t
    <3>1. Len(Append(Root, n)) = Len(Root) + 1
      BY <2>4, RootAt, AppendAt DEF n
    <3>2. x.d = Append(Root, n) /\ Len(Root) = 1
      BY <2>2, <2>3, RootAt DEF n
    <3> QED
      BY <3>1, <3>2
  <2>6. Len(q) = Len(x.d)
    <3>1. \A a, b \in Nat : a > 1 /\ a <= b /\ b = 2 => a = b
      OBVIOUS
    <3> QED
      BY <1>5, <2>5, <3>1
  <2> QED
    BY <1>2, <1>4, <1>7, <2>6, PrefixAnti
<1> QED
  BY <1>8, <1>9

\* What the --delete pass leaves behind.
Spared == pc = "done" /\ Wet /\ Given("delete") /\ isdir => \A p \in DOMAIN dst : ~Doomed(p)

LEMMA SparedStep ==
    ASSUME LocalNext, WalkInv
    PROVE  Spared'
<1> SUFFICES ASSUME pc' = "done", Wet', Given("delete")', isdir'
             PROVE  \A p \in DOMAIN dst' : ~Doomed(p)'
  BY DEF Spared
<1>1. CASE EndDelete
  <2>1. UNCHANGED <<dst, cmd, kept>>
    BY <1>1 DEF EndDelete, Run
  <2> QED
    BY <1>1, <2>1 DEF EndDelete, Doomed, Rel, Wet, Given
<1>2. CASE EndWalk
  BY <1>2 DEF EndWalk, Run, Given
<1>3. CASE EntryAction
  BY <1>3, EntryControl DEF EntryStates, EntryDone
<1>4. CASE Start \/ SkipArg \/ DirArg \/ FileArg \/ Leave \/ Kill
  BY <1>4 DEF Start, SkipArg, DirArg, FileArg, Leave, Kill, Enter, AtArg
<1>5. CASE stack # <<>> /\ \E n \in Top.todo : Visit(n)
  BY <1>5 DEF Visit, Enter
<1>6. CASE \E p \in DOMAIN dst : Delete(p)
  BY <1>6 DEF Delete, At
<1> QED
  BY <1>1, <1>2, <1>3, <1>4, <1>5, <1>6, NextCases

\* With --delete nothing is left that is not the place of a copy.
LEMMA OnlyPlaces ==
    ASSUME WalkInv, Kept, Spared, IsTree(dst), pc = "done", Wet, Given("delete"), isdir, Straight,
           NEW p \in DOMAIN dst, IsStrictPrefix(Root, p)
    PROVE  p \in Places
<1>1. p \in Path /\ IsPrefix(Root, p) /\ p # Root
  BY TreeNode DEF IsStrictPrefix
<1>2. p \in Prefixes(p)
  BY <1>1, PrefixesAre, PrefixRefl
<1>3. Rel(p) \in kept
  BY <1>2 DEF Spared, Doomed
<1>4. Root \o Rel(p) = p
  BY <1>1, RootRel
<1>5. Rel(p) # <<>>
  <2> SUFFICES ASSUME Rel(p) = <<>> PROVE FALSE
    OBVIOUS
  <2>1. Root \o <<>> = Root
    BY RootAt, ConcatEmptySeq DEF Path
  <2> QED
    BY <1>1, <1>4, <2>1
<1> QED
  BY <1>3, <1>4, <1>5 DEF Kept

-----------------------------------------------------------------------------
(* What stays where it is, and what comes new.                             *)

LEMMA Stays ==
    ASSUME WalkInv, Ground, LocalNext, NEW p \in DOMAIN dst, ~Helper(p)
    PROVE  \/ p \in DOMAIN dst' /\ dst'[p] = dst[p]
           \/ EntryAction /\ IsPrefix(cur.d, p)
           \/ Pruning /\ p = Top.d
           \/ Deleting(p)
<1>1. Base /\ IsTree(dst) /\ p \in Path
  BY TreeNode DEF Ground, Base
<1>2. CASE Start
  <2>1. Keeps(dst, dst') /\ DOMAIN dst \subseteq DOMAIN dst'
    BY <1>1, <1>2, StartChange
  <2> QED
    BY <2>1 DEF Keeps
<1>3. CASE Kill
  <2>1. Keeps(dst, dst') /\ (dst' = dst \/ (DOMAIN dst' = DOMAIN dst \ {Tmp} /\ Helper(Tmp)))
    BY <1>1, <1>3, KillChange
  <2>2. p \in DOMAIN dst'
    BY <2>1
  <2> QED
    BY <2>1, <2>2 DEF Keeps
<1>4. CASE EntryAction
  BY <1>1, <1>4, EntryElsewhere
<1>5. CASE WalkAction
  <2>1. /\ Keeps(dst, dst')
        /\ DOMAIN dst \subseteq DOMAIN dst' \/ Pruning \/ \E q \in DOMAIN dst : Deleting(q)
    BY <1>1, <1>5, WalkChange
  <2>2. CASE p \in DOMAIN dst'
    BY <2>1, <2>2 DEF Keeps
  <2>3. CASE p \notin DOMAIN dst'
    <3>1. CASE Pruning
      BY <2>3, <3>1 DEF Pruning, Drop
    <3>2. CASE \E q \in DOMAIN dst : Deleting(q)
      <4>1. PICK q \in DOMAIN dst : Deleting(q)
        BY <3>2
      <4>2. q = p
        BY <2>3, <4>1 DEF Deleting, Drop
      <4> QED
        BY <4>1, <4>2
    <3> QED
      BY <2>1, <2>3, <3>1, <3>2
  <2> QED
    BY <2>2, <2>3
<1> QED
  BY <1>2, <1>3, <1>4, <1>5, NextCases DEF WalkAction

LEMMA Arrives ==
    ASSUME WalkInv, Ground, LocalNext, NEW p \in DOMAIN dst', ~IsDir(dst', p), ~Helper(p)
    PROVE  \/ p \in DOMAIN dst /\ dst'[p] = dst[p]
           \/ /\ EntryAction /\ p = cur.d
              /\ \/ dst'[p].k = From.k /\ dst'[p].c = From.c
                 \/ pc = "follow" /\ dst'[p] = dst[links[From.i]]
<1>1. Base /\ dst'[p].k # "dir"
  BY DEF Ground, IsDir
<1>2. CASE Start \/ Kill \/ WalkAction
  <2>1. Keeps(dst, dst')
    BY <1>1, <1>2, StartChange, KillChange, WalkChange
  <2> QED
    BY <1>1, <2>1 DEF Keeps
<1>3. CASE EntryAction
  <2>1. Altered
    BY <1>1, <1>3, EntryChange
  <2>2. p \in Path /\ Busy
    BY <1>3, <2>1, TreeNode, EntryControl DEF Altered
  <2>3. Effect(p)
    BY <2>1, <2>2 DEF Altered
  <2>4. ~IsPrefix(Tmp, p) /\ ~IsPrefix(LdTmp, p) /\ ~IsPrefix(BackName, p)
    BY <2>2, PlainApart
  <2> QED
    BY <1>3, <2>3, <2>4 DEF Effect
<1> QED
  BY <1>2, <1>3, NextCases DEF WalkAction

\* The place of the entry holds what the source has.
Copied ==
    /\ cur.d \in DOMAIN dst' /\ dst'[cur.d].k = From.k /\ dst'[cur.d].c = From.c
    /\ dst'[cur.d].k = "file" /\ Given("times") => dst'[cur.d].mt = From.mt

\* How the copy of an entry ends.
LEMMA Finished ==
    ASSUME WalkInv, Base, EntryAction, pc' \notin EntryStates, Wet
    PROVE  \/ /\ pc = "entry" /\ dst' = dst /\ Skipped /\ ~Follower /\ NoteLeader
              /\ InSync(cur.s, cur.d) => Copied
           \/ /\ pc = "follow" /\ From.k = "file" /\ Follower /\ links' = links
              /\ links[From.i] \in DOMAIN dst /\ cur.d \in DOMAIN dst' /\ dst'[cur.d] = dst[links[From.i]]
           \/ pc = "special" /\ From.k \notin {"dir", "file", "symlink"} /\ dst' = dst /\ links' = links
           \/ /\ pc \in {"linked", "symlink", "meta"} /\ links' = links /\ Copied
              /\ pc = "symlink" => From.k = "symlink"
<1>1. CASE SkipEntry
  <2>1. pc = "entry" /\ dst' = dst /\ Skipped /\ ~Follower /\ NoteLeader
    BY <1>1 DEF SkipEntry, At
  <2>2. ASSUME InSync(cur.s, cur.d)
        PROVE  Copied
    <3> DEFINE node == dst[cur.d]
    <3>1. /\ cur.d \in DOMAIN dst /\ node.k # "dir" /\ node.mt = From.mt
          /\ node.k = "file" /\ From.k = "file" => Size[node.c] = Size[From.c]
      BY <2>2 DEF InSync, IsDir, From
    <3>2. Telling(node)
      BY <3>1 DEF Base, Tells
    <3> HIDE DEF node
    <3>3. cur.s \in DOMAIN Src /\ From = Src[cur.s] /\ From.k # "dir"
      BY <2>1, CurAt DEF Busy, EntryStates, From, IsDir
    <3>4. node.k = From.k /\ node.c = From.c
      BY <3>1, <3>2, <3>3 DEF Telling
    <3> QED
      BY <2>1, <3>1, <3>4 DEF Copied, node
  <2> QED
    BY <2>1, <2>2
<1>2. CASE LinkFollower
  <2>1. pc = "follow" /\ links' = links
    BY <1>2 DEF LinkFollower, At
  <2>2. cur.d \in DOMAIN dst' /\ dst'[cur.d] = dst[links[From.i]] /\ links[From.i] \in DOMAIN dst
    BY <1>2, LinkFollowerChange
  <2> QED
    BY <2>1, <2>2 DEF Base, Progress
<1>3. CASE Special
  BY <1>3 DEF Special, At, Base, Progress
<1>4. CASE LinkName
  <2>1. pc = "linked" /\ links' = links
    BY <1>4 DEF LinkName, At
  <2>2. pc' = "walk"
    BY <1>4 DEF LinkName, EntryDone, Onward, Replace, Write, EntryStates
  <2>3. cur.d \in DOMAIN dst' /\ dst'[cur.d].k = "file" /\ dst'[cur.d].c = From.c /\ dst'[cur.d].mt = From.mt
    BY <1>4, <2>2, LinkNameChange
  <2>4. From.k = "file"
    BY <2>1 DEF Base, Progress
  <2> QED
    BY <2>1, <2>3, <2>4 DEF Copied
<1>5. CASE Symlink
  <2>1. pc = "symlink" /\ links' = links
    BY <1>5 DEF Symlink, At
  <2>2. cur.d \in DOMAIN dst' /\ dst'[cur.d].k = "symlink" /\ dst'[cur.d].c = From.c
    BY <1>5, SymlinkChange
  <2>3. From.k = "symlink"
    BY <2>1 DEF Base, Progress
  <2> QED
    BY <2>1, <2>2, <2>3 DEF Copied
<1>6. CASE SetTime
  <2>1. pc = "meta" /\ links' = links
    BY <1>6 DEF SetTime, At
  <2>2. /\ cur.d \in DOMAIN dst' /\ dst'[cur.d].k = "file" /\ dst'[cur.d].c = From.c
        /\ Given("times") => dst'[cur.d].mt = From.mt
    BY <1>6, SetTimeChange
  <2>3. From.k = "file"
    BY <2>1 DEF Base, Progress
  <2> QED
    BY <2>1, <2>2, <2>3 DEF Copied
<1>7. CASE DryEntry
  BY <1>7 DEF DryEntry
<1>8. CASE LinkTmp \/ Decide \/ Backup \/ UnlinkFollower \/ UnlinkOld \/ CreateTmp \/ FillTmp \/ RenameTmp
  BY <1>8 DEF LinkTmp, Decide, Backup, UnlinkFollower, UnlinkOld, CreateTmp, FillTmp, RenameTmp, Onward, Replace,
     Write, EntryStates
<1> QED
  BY <1>1, <1>2, <1>3, <1>4, <1>5, <1>6, <1>7, <1>8 DEF EntryAction

\* The names noted stay noted; a new one is the place of the entry in hand.
LEMMA LinksGrow ==
    ASSUME WalkInv, LocalNext, ~Start, ~Kill
    PROVE  /\ \A i \in DOMAIN links : i \in DOMAIN links' /\ links'[i] = links[i]
           /\ \A i \in DOMAIN links' : i \notin DOMAIN links =>
                 /\ EntryAction /\ Linked /\ i = From.i /\ links'[i] = cur.d
                 /\ pc' \notin {"entry", "follow"}
<1>1. CASE SkipEntry \/ LinkTmp \/ Decide
  <2>1. NoteLeader
    BY <1>1 DEF SkipEntry, LinkTmp, Decide
  <2>2. pc' \notin {"entry", "follow"} /\ EntryAction
    BY <1>1 DEF SkipEntry, LinkTmp, Decide, EntryDone, Onward, Replace, Write, EntryAction
  <2>3. CASE Linked /\ ~Follower /\ Wet
    <3>1. links' = Put(links, From.i, cur.d) /\ From.i \notin DOMAIN links
      BY <2>1, <2>3 DEF NoteLeader, Follower
    <3> QED
      BY <2>2, <2>3, <3>1 DEF Put
  <2>4. CASE ~(Linked /\ ~Follower /\ Wet)
    BY <2>1, <2>4 DEF NoteLeader
  <2> QED
    BY <2>3, <2>4
<1>2. CASE ~(SkipEntry \/ LinkTmp \/ Decide)
  <2>1. CASE EntryAction
    <3>1. links' = links
      BY <1>2, <2>1 DEF EntryAction, DryEntry, UnlinkFollower, LinkFollower, LinkName, Backup, Special, UnlinkOld,
         Symlink, CreateTmp, FillTmp, RenameTmp, SetTime
    <3> QED
      BY <3>1
  <2>2. CASE WalkAction
    <3>1. links' = links
      BY <2>2 DEF WalkAction, SkipArg, DirArg, FileArg, Leave, EndWalk, Visit, Delete, EndDelete
    <3> QED
      BY <3>1
  <2> QED
    BY <2>1, <2>2, NextCases DEF WalkAction
<1> QED
  BY <1>1, <1>2

\* The --delete pass knows what has been copied.
Knowing == pc \in {"delete", "done"} /\ Given("delete") /\ isdir => Straight

\* The regular step: neither the start of a run nor its sudden end.
LEMMA Regular ==
    ASSUME LocalNext, ~Start, pc' # "idle"
    PROVE  /\ ~Kill /\ Run /\ pc # "idle" /\ (EntryAction \/ WalkAction)
           /\ Knowing' => Knowing
<1>1. ~Kill
  BY DEF Kill
<1>2. EntryAction \/ WalkAction
  BY <1>1, NextCases DEF WalkAction
<1>3. Run
  BY <1>2, EntryControl DEF WalkAction, SkipArg, DirArg, FileArg, Leave, EndWalk, Visit, Delete, EndDelete
<1>4. pc # "idle" /\ (pc \in {"delete", "done"} => pc' \in {"delete", "done"})
  <2>1. CASE EntryAction
    BY <2>1, EntryControl DEF Busy, EntryStates
  <2>2. CASE WalkAction
    BY <2>2 DEF WalkAction, SkipArg, DirArg, FileArg, Leave, EndWalk, Visit, Delete, EndDelete, AtArg, At
  <2> QED
    BY <1>2, <2>1, <2>2
<1>5. Knowing' => Knowing
  <2>1. Straight' <=> Straight
    BY <1>3, SameCommand DEF Run
  <2> QED
    BY <1>3, <1>4, <2>1 DEF Knowing, Given, Run
<1> QED
  BY <1>1, <1>2, <1>3, <1>4, <1>5

LEMMA ApartClear ==
    ASSUME Apart
    PROVE  Clear
BY DEF Apart, Clear

LEMMA CopyStays ==
    ASSUME WalkInv, Ground, Kept, LocalNext, Clear, Knowing, NEW x \in AllCopies, x.d \in DOMAIN dst
    PROVE  \/ x.d \in DOMAIN dst' /\ dst'[x.d] = dst[x.d]
           \/ EntryAction /\ cur.d = x.d /\ ~IsDir(Src, x.s)
           \/ Pruning /\ x.d = Top.d /\ IsDir(Src, x.s)
<1>1. x \in AllReached /\ cmd \in Commands \cup {NoCommand}
  BY CopyIs DEF WalkInv, Control
<1>2. x.d \in Path /\ ~Helper(x.d)
  BY <1>1, ItemAt
<1>3. CASE EntryAction /\ IsPrefix(cur.d, x.d)
  <2>1. CurItem \in AllReached /\ CurItem.d = cur.d /\ CurItem.s = cur.s /\ ~IsDir(Src, cur.s)
    BY <1>3, EntryControl, CurAt
  <2> QED
    BY <1>1, <1>3, <2>1 DEF Clear
<1>4. CASE Pruning /\ x.d = Top.d
  <2>1. stack # <<>>
    BY <1>4 DEF Pruning, Leave
  <2>2. Len(stack) \in 1..Len(stack) /\ Top = stack[Len(stack)]
    BY <2>1, TopAt DEF WalkInv
  <2> DEFINE y == FrameItem(Len(stack))
  <2>3. y \in AllReached /\ y.d = Top.d /\ y.s = Top.s /\ IsDir(Src, Top.s)
    BY <2>2, FrameAt
  <2> HIDE DEF y
  <2>4. IsPrefix(x.d, y.d)
    BY <1>2, <1>4, <2>3, PrefixRefl
  <2>5. IsDir(Src, x.s)
    BY <1>1, <2>3, <2>4 DEF Clear
  <2> QED
    BY <1>4, <2>5
<1>5. CASE Deleting(x.d)
  <2>1. pc = "delete" /\ Doomed(x.d)
    BY <1>5 DEF Deleting, Delete, At
  <2>2. isdir /\ Straight
    BY <2>1 DEF Ground, Ending, Knowing
  <2> QED
    BY <2>1, <2>2, NotDoomed
<1> QED
  BY <1>2, <1>3, <1>4, <1>5, Stays

-----------------------------------------------------------------------------
(* Hard links.                                                             *)

Named(x) == Src[x.s].k = "file" /\ Src[x.s].i # 0

LeaderOf(x, i) ==
    /\ x.d = links[i] /\ Named(x) /\ Src[x.s].i = i /\ ~Ahead(x)
    /\ pc \in {"entry", "follow"} => ~InHand(x)

\* Every name noted is the place of a copy that the run has got to.
Leads == \A i \in DOMAIN links : \E x \in AllCopies : LeaderOf(x, i)

\* x and the first name of its file are names of one file.
Joined(x) ==
    /\ Src[x.s].i \in DOMAIN links
    /\ \E y \in AllCopies :
          /\ y.d = links[Src[x.s].i] /\ Named(y) /\ Src[y.s].i = Src[x.s].i /\ Passed(y)
          /\ x.d \in DOMAIN dst /\ y.d \in DOMAIN dst /\ dst[x.d].i = dst[y.d].i

AllJoined ==
    Given("hard_links") /\ Wet /\ pc # "idle" /\ Apart /\ Knowing =>
        \A x \in AllCopies : Passed(x) /\ Named(x) => Joined(x)

LEMMA FollowsEntry ==
    ASSUME EntryAction, pc' = "follow"
    PROVE  pc = "entry"
BY DEF EntryAction, DryEntry, SkipEntry, UnlinkFollower, LinkFollower, LinkTmp, LinkName, Decide, Backup, Special,
   UnlinkOld, Symlink, CreateTmp, FillTmp, RenameTmp, SetTime, EntryDone, Onward, Replace, Write, At

LEMMA LeadsStep ==
    ASSUME WalkInv, WalkInv', Leads, LocalNext
    PROVE  Leads'
<1>1. CASE Start \/ Kill
  <2>1. links' = <<>>
    BY <1>1 DEF Start, Kill
  <2> QED
    BY <2>1 DEF Leads
<1>2. CASE ~Start /\ ~Kill
  <2>1. EntryAction \/ WalkAction
    BY <1>2, NextCases DEF WalkAction
  <2>2. Run
    BY <2>1, EntryControl DEF WalkAction, SkipArg, DirArg, FileArg, Leave, EndWalk, Visit, Delete, EndDelete
  <2>3. AllCopies' = AllCopies
    BY <2>2, SameCommand DEF Run
  <2>4. /\ \A i \in DOMAIN links : i \in DOMAIN links' /\ links'[i] = links[i]
        /\ \A i \in DOMAIN links' : i \notin DOMAIN links =>
                 /\ EntryAction /\ Linked /\ i = From.i /\ links'[i] = cur.d
                 /\ pc' \notin {"entry", "follow"}
    BY <1>2, LinksGrow
  <2> SUFFICES ASSUME NEW i \in DOMAIN links' PROVE \E x \in AllCopies : LeaderOf(x, i)'
    BY <2>3 DEF Leads
  <2>5. CASE i \in DOMAIN links
    <3>1. PICK x \in AllCopies : LeaderOf(x, i)
      BY <2>5 DEF Leads
    <3>2. x \in AllReached
      BY CopyIs
    <3>3. CASE EntryAction /\ pc' \in EntryStates
      <4>1. (Ahead(x)' <=> Ahead(x)) /\ (InHand(x)' <=> InHand(x)) /\ pc' # "entry"
        BY <3>3, EntryOnward
      <4>2. pc' = "follow" => pc = "entry"
        BY <3>3, FollowsEntry
      <4> QED
        BY <2>4, <2>5, <3>1, <4>1, <4>2 DEF LeaderOf, Named
    <3>4. CASE EntryAction /\ pc' \notin EntryStates
      <4>1. (Ahead(x)' <=> Ahead(x)) /\ ~InHand(x)'
        BY <3>2, <3>4, EntryFinished
      <4> QED
        BY <2>4, <2>5, <3>1, <4>1 DEF LeaderOf, Named
    <3>5. CASE WalkAction
      <4>1. ~Ahead(x)' /\ ~InHand(x)'
        BY <3>1, <3>2, <3>5, WalkAhead DEF Advance, LeaderOf
      <4> QED
        BY <2>4, <2>5, <3>1, <4>1 DEF LeaderOf, Named
    <3> QED
      BY <2>1, <3>3, <3>4, <3>5
  <2>6. CASE i \notin DOMAIN links
    <3>1. EntryAction /\ Linked /\ i = From.i /\ links'[i] = cur.d /\ pc' \notin {"entry", "follow"}
      BY <2>4, <2>6
    <3>2. CurItem \in AllCopies /\ CurItem \in AllReached /\ CurItem.s = cur.s /\ CurItem.d = cur.d
      BY <3>1, EntryControl, CurAt
    <3>3. ~Ahead(CurItem)
      BY <3>1, EntryControl, CurNotAhead
    <3>3a. PICK x \in AllCopies : x = CurItem
      BY <3>2
    <3>4. ~Ahead(x)'
      <4>1. CASE pc' \in EntryStates
        BY <3>1, <3>3, <3>3a, <4>1, EntryOnward
      <4>2. CASE pc' \notin EntryStates
        <5>1. x \in AllReached /\ ~Ahead(x)
          BY <3>2, <3>3, <3>3a
        <5> QED
          BY <3>1, <4>2, <5>1, EntryFinished
      <4> QED
        BY <4>1, <4>2
    <3>5. x \in AllCopies /\ x.s = cur.s /\ x.d = cur.d
      BY <3>2, <3>3a
    <3>6. LeaderOf(x, i)'
      BY <3>1, <3>4, <3>5 DEF LeaderOf, Named, Linked, From
    <3> QED
      BY <3>5, <3>6
  <2> QED
    BY <2>5, <2>6
<1> QED
  BY <1>1, <1>2

\* A copy that has been joined stays joined.
LEMMA JoinedStays ==
    ASSUME WalkInv, WalkInv', Ground, Kept, LocalNext, ~Start, pc' # "idle", Apart, Knowing',
           NEW x \in AllCopies, Passed(x), Named(x), Joined(x)
    PROVE  Joined(x)'
<1>1. ~Kill /\ Run /\ Knowing /\ (EntryAction \/ WalkAction)
  BY Regular
<1>2. AllCopies' = AllCopies
  BY <1>1, SameCommand DEF Run
<1>3. ASSUME NEW z \in AllCopies, Passed(z), Named(z), z.d \in DOMAIN dst
      PROVE  z.d \in DOMAIN dst' /\ dst'[z.d] = dst[z.d] /\ Passed(z)'
  <2>1. z \in AllReached /\ ~IsDir(Src, z.s)
    BY <1>3, CopyIs DEF Named, IsDir
  <2>2. ~(EntryAction /\ cur.d = z.d)
    <3> SUFFICES ASSUME EntryAction, cur.d = z.d PROVE FALSE
      OBVIOUS
    <3>1. CurItem \in AllReached /\ CurItem.d = cur.d /\ CurItem.s = cur.s /\ ~IsDir(Src, cur.s) /\ Busy
      BY EntryControl, CurAt
    <3>2. IsPrefix(CurItem.d, z.d)
      BY <3>1, CurAt, PrefixRefl
    <3>3. z = CurItem
      BY <2>1, <3>1, <3>2 DEF Apart
    <3> QED
      BY <1>3, <2>1, <3>1, <3>3, InHandIs DEF Passed
  <2>3. z.d \in DOMAIN dst' /\ dst'[z.d] = dst[z.d]
    BY <1>1, <1>3, <2>1, <2>2, ApartClear, CopyStays
  <2>4. Passed(z)'
    <3>1. CASE EntryAction /\ pc' \in EntryStates
      BY <1>3, <3>1, EntryOnward DEF Passed
    <3>2. CASE EntryAction /\ pc' \notin EntryStates
      BY <1>3, <2>1, <3>2, EntryFinished DEF Passed
    <3>3. CASE WalkAction
      BY <1>3, <2>1, <3>3, WalkAhead DEF Passed, Advance
    <3> QED
      BY <1>1, <3>1, <3>2, <3>3
  <2> QED
    BY <2>3, <2>4
<1>4. PICK y \in AllCopies :
          /\ y.d = links[Src[x.s].i] /\ Named(y) /\ Src[y.s].i = Src[x.s].i /\ Passed(y)
          /\ x.d \in DOMAIN dst /\ y.d \in DOMAIN dst /\ dst[x.d].i = dst[y.d].i
  BY DEF Joined
<1>5. Src[x.s].i \in DOMAIN links' /\ links'[Src[x.s].i] = links[Src[x.s].i]
  BY <1>1, LinksGrow DEF Joined
<1>6. /\ x.d \in DOMAIN dst' /\ dst'[x.d] = dst[x.d]
      /\ y.d \in DOMAIN dst' /\ dst'[y.d] = dst[y.d] /\ Passed(y)'
  BY <1>3, <1>4
<1> QED
  BY <1>2, <1>4, <1>5, <1>6 DEF Joined, Named

\* When the copy of an entry ends it is joined.
LEMMA JoinedDone ==
    ASSUME WalkInv, WalkInv', Ground, Kept, Leads, LocalNext, EntryAction, pc' \notin EntryStates,
           Apart, Knowing', Wet, Given("hard_links"), pc' # "idle", NEW x \in AllCopies, x = CurItem, Named(x)
    PROVE  Joined(x)'
<1>1. Busy /\ Run /\ ~Start /\ Base /\ Knowing
  <2>1. ~Start
    BY EntryControl DEF Busy, EntryStates, Start
  <2> QED
    BY <2>1, EntryControl, Regular DEF Ground
<1>2. AllCopies' = AllCopies
  BY <1>1, SameCommand DEF Run
<1>3. x \in AllCopies /\ x \in AllReached /\ x.s = cur.s /\ x.d = cur.d /\ cur.d \in Path
  BY <1>1, CurAt
<1>3a. ~Ahead(x)
  BY <1>1, CurNotAhead
<1>4. From = Src[x.s] /\ From.k = "file" /\ From.i # 0 /\ Linked /\ Named(x)
  BY <1>3 DEF Named, From, Linked
<1>5. Passed(x)'
  BY <1>3, <1>3a, EntryFinished DEF Passed
<1>6. ASSUME From.i \in DOMAIN links', links'[From.i] = cur.d, cur.d \in DOMAIN dst'
      PROVE  Joined(x)'
  <2>1. /\ x.d = links'[Src[x.s].i] /\ Named(x) /\ Src[x.s].i = Src[x.s].i /\ Passed(x)'
        /\ x.d \in DOMAIN dst' /\ dst'[x.d].i = dst'[x.d].i
    BY <1>3, <1>4, <1>5, <1>6
  <2> QED
    BY <1>2, <1>3, <1>4, <1>6, <2>1 DEF Joined, Named
<1>7. CASE dst' = dst /\ Skipped /\ ~Follower /\ NoteLeader
  <2>1. cur.d \in DOMAIN dst
    BY <1>7 DEF Skipped, InSync, Exists
  <2>2. From.i \in DOMAIN links' /\ links'[From.i] = cur.d
    BY <1>4, <1>7 DEF NoteLeader, Put
  <2> QED
    BY <1>6, <1>7, <2>1, <2>2
<1>8. CASE /\ pc = "follow" /\ Follower /\ links' = links
           /\ links[From.i] \in DOMAIN dst /\ cur.d \in DOMAIN dst' /\ dst'[cur.d] = dst[links[From.i]]
  <2>1. From.i \in DOMAIN links
    BY <1>8 DEF Follower
  <2>2. PICK y \in AllCopies : LeaderOf(y, From.i)
    BY <2>1 DEF Leads
  <2>3. y.d = links[From.i] /\ Named(y) /\ Src[y.s].i = From.i /\ ~Ahead(y) /\ ~InHand(y)
    BY <1>8, <2>2 DEF LeaderOf
  <2>4. y \in AllReached /\ ~IsDir(Src, y.s)
    BY <2>3, CopyIs DEF Named, IsDir
  <2>5. y # CurItem
    BY <1>1, <2>3, <2>4, InHandIs
  <2>6. cur.d # y.d
    <3> SUFFICES ASSUME cur.d = y.d PROVE FALSE
      OBVIOUS
    <3>1. IsPrefix(x.d, y.d)
      BY <1>3, PrefixRefl
    <3>2. ~IsDir(Src, x.s)
      BY <1>4 DEF IsDir
    <3> QED
      BY <1>3, <2>4, <2>5, <3>1, <3>2 DEF Apart
  <2>7. y.d \in DOMAIN dst' /\ dst'[y.d] = dst[y.d]
    BY <1>1, <1>8, <2>3, <2>4, <2>6, ApartClear, CopyStays
  <2>8. Passed(y)'
    BY <2>3, <2>4, EntryFinished DEF Passed
  <2>9. Joined(x)'
    <3>1. /\ y.d = links'[Src[x.s].i] /\ Src[y.s].i = Src[x.s].i
          /\ x.d \in DOMAIN dst' /\ y.d \in DOMAIN dst' /\ dst'[x.d].i = dst'[y.d].i
          /\ Src[x.s].i \in DOMAIN links'
      BY <1>3, <1>4, <1>8, <2>1, <2>3, <2>7
    <3> QED
      BY <1>2, <2>3, <2>8, <3>1 DEF Joined, Named
  <2> QED
    BY <2>9
<1>9. CASE pc \in {"linked", "symlink", "meta"} /\ links' = links /\ Copied
  <2>1. pc \notin {"entry", "follow"}
    BY <1>9
  <2>2. From.i \in DOMAIN links /\ links[From.i] = cur.d
    BY <1>1, <1>4, <2>1 DEF Base, Leading
  <2> QED
    BY <1>6, <1>9, <2>2 DEF Copied
<1> QED
  BY <1>1, <1>4, <1>7, <1>8, <1>9, Finished

LEMMA AllJoinedStep ==
    ASSUME WalkInv, WalkInv', Ground, Kept, Leads, AllJoined, LocalNext
    PROVE  AllJoined'
<1> SUFFICES ASSUME Given("hard_links")', Wet', pc' # "idle", Apart', Knowing', NEW x \in AllCopies',
                    Passed(x)', Named(x)'
             PROVE  Joined(x)'
  BY DEF AllJoined
<1>1. CASE Start
  BY <1>1, StartAhead DEF Passed
<1>2. CASE ~Start
  <2>1. ~Kill /\ Run /\ pc # "idle" /\ Knowing
    BY <1>2, Regular
  <2>1a. EntryAction \/ WalkAction
    BY <1>2, Regular
  <2>2. AllCopies' = AllCopies /\ Apart /\ Given("hard_links") /\ Wet
    BY <2>1, SameCommand DEF Run, Given, Wet
  <2>3. x \in AllCopies /\ x \in AllReached /\ Named(x) /\ ~IsDir(Src, x.s)
    BY <2>2, CopyIs DEF Named, IsDir
  <2>4. CASE Passed(x)
    <3>1. Joined(x)
      BY <2>1, <2>2, <2>3, <2>4 DEF AllJoined
    <3> QED
      BY <1>2, <2>2, <2>3, <2>4, <3>1, JoinedStays
  <2>5. CASE ~Passed(x)
    <3>1. CASE EntryAction
      <4>1. pc' \notin EntryStates
        BY <2>5, <3>1, EntryOnward DEF Passed
      <4>2. Ahead(x)' <=> Ahead(x)
        BY <2>3, <3>1, <4>1, EntryFinished
      <4>3. x = CurItem
        BY <2>3, <2>5, <4>2, InHandIs DEF Passed
      <4> QED
        BY <2>2, <2>3, <3>1, <4>1, <4>3, JoinedDone
    <3>2. CASE WalkAction
      BY <2>3, <2>5, <3>2, WalkAhead DEF Passed, Advance, Made
    <3> QED
      BY <2>1a, <3>1, <3>2
  <2> QED
    BY <2>4, <2>5
<1> QED
  BY <1>1, <1>2

-----------------------------------------------------------------------------
(* What the run has passed does not vanish.                                *)

LEMMA StrictFront ==
    ASSUME NEW p \in Path, NEW q \in Path, IsPrefix(p, q), p # q
    PROVE  q # <<>> /\ IsPrefix(p, Front(q)) /\ Front(q) \in Path
<1>1. Len(p) \in Nat /\ Len(q) \in Nat /\ Len(p) < Len(q)
  BY PathLen, StrictLen
<1>2. q # <<>>
  BY <1>1, PathLen
<1>3. Front(q) \in Path /\ Len(Front(q)) = Len(q) - 1 /\ IsPrefix(Front(q), q)
  BY <1>2, FrontAt
<1>4. Len(p) <= Len(Front(q))
  BY <1>1, <1>3
<1> QED
  BY <1>2, <1>3, <1>4, PrefixChain

\* The place of the entry stays taken but where it is about to be replaced.
LEMMA PlaceHeld ==
    ASSUME WalkInv, Base, EntryAction, cur.d \in DOMAIN dst
    PROVE  cur.d \in DOMAIN dst' \/ UnlinkFollower \/ pc' = "symlink" \/ BackName \in DOMAIN dst'
<1>1. Busy /\ IsTree(dst)
  BY EntryControl DEF Base
<1>2. /\ cur.d \in Path /\ cur.d # <<>> /\ Tmp \in Path /\ Tmp # <<>> /\ LdTmp \in Path /\ LdTmp # <<>>
      /\ Len(Tmp) = Len(cur.d) /\ Front(Tmp) = Front(cur.d) /\ Len(LdTmp) = Len(cur.d) /\ Front(LdTmp) = Front(cur.d)
      /\ Tmp # cur.d /\ LdTmp # cur.d
      /\ BackName \in Path /\ Len(BackName) = Len(cur.d)
  BY <1>1, NamesOf
<1>3. CASE DryEntry \/ SkipEntry \/ Decide \/ Special
  BY <1>3 DEF DryEntry, SkipEntry, Decide, Special
<1>4. CASE LinkFollower
  BY <1>4, LinkFollowerChange
<1>5. CASE Symlink
  BY <1>5, SymlinkChange
<1>6. CASE SetTime
  BY <1>6, SetTimeChange
<1>7. CASE LinkTmp
  <2>1. dst' = Put(Unlinked(dst, LdTmp), LdTmp, LinkDest[cur.rel]) \/ dst' = Unlinked(dst, LdTmp)
    BY <1>7 DEF LinkTmp, LdTmp
  <2> QED
    BY <1>2, <2>1 DEF Put, Unlinked, Drop
<1>8. CASE LinkName
  <2>1. (CanRename(dst, LdTmp, cur.d) /\ dst' = Renamed(dst, LdTmp, cur.d)) \/ dst' = Unlinked(dst, LdTmp)
    BY <1>8 DEF LinkName, LdTmp
  <2>2. ~IsDir(dst, LdTmp)
    BY <1>8 DEF LinkName, At, Base, Progress, IsDir
  <2>3. CASE dst' = Unlinked(dst, LdTmp)
    BY <1>2, <2>3 DEF Unlinked, Drop
  <2>4. CASE CanRename(dst, LdTmp, cur.d) /\ dst' = Renamed(dst, LdTmp, cur.d)
    <3>1. FileMoved(dst, LdTmp, cur.d, dst')
      BY <1>1, <1>2, <2>2, <2>4, FileRenamed
    <3> QED
      BY <3>1 DEF FileMoved
  <2> QED
    BY <2>1, <2>3, <2>4
<1>9. CASE RenameTmp
  <2>1. CanRename(dst, Tmp, cur.d) /\ dst' = Renamed(dst, Tmp, cur.d)
    BY <1>9 DEF RenameTmp
  <2>2. ~IsDir(dst, Tmp)
    BY <1>9 DEF RenameTmp, At, Base, Progress, IsDir
  <2>3. FileMoved(dst, Tmp, cur.d, dst')
    BY <1>1, <1>2, <2>1, <2>2, FileRenamed
  <2> QED
    BY <2>3 DEF FileMoved
<1>10. CASE CreateTmp
  <2>1. \E node : dst' = Put(MkDirs(dst, Front(cur.d)), Tmp, node)
    BY <1>10 DEF CreateTmp
  <2> QED
    BY <2>1 DEF Put, MkDirs
<1>11. CASE FillTmp
  <2>1. DOMAIN dst' = DOMAIN dst
    BY <1>11 DEF FillTmp
  <2> QED
    BY <2>1
<1>12. CASE UnlinkOld
  BY <1>12 DEF UnlinkOld, Onward
<1>13. CASE Backup
  <2>1. IF Given("backup_dir") THEN dst' = dst
        ELSE \A p \in DOMAIN dst : IsPrefix(cur.d, p) => Other(cur.d, BackName, p) \in DOMAIN dst'
    BY <1>1, <1>13, BackupChange
  <2>2. IsPrefix(cur.d, cur.d) /\ Other(cur.d, BackName, cur.d) = BackName
    BY <1>2, PrefixRefl, OtherAt
  <2> QED
    BY <2>1, <2>2
<1> QED
  BY <1>3, <1>4, <1>5, <1>6, <1>7, <1>8, <1>9, <1>10, <1>11, <1>12, <1>13 DEF EntryAction

\* The backup name of a place d.
LEMMA BackAt ==
    ASSUME NEW d, Plain(d), d # <<>>
    PROVE  LET b == Sibling(d, Suffixed)
           IN  /\ b \in Path /\ b # <<>> /\ Len(b) = Len(d) /\ Front(b) = Front(d) /\ d \in Path
               /\ Last(b) \in HelperNames /\ Last(b) \notin Range(TmpName) \cup Range(LdName)
               /\ Last(b) = Suffixed[Last(d)] /\ Last(d) \in DOMAIN TmpName
<1>1. Last(d) \in DOMAIN TmpName /\ d \in Path
  BY PlainLast
<1>2. Suffixed[Last(d)] \in STRING /\ Suffixed[Last(d)] \in HelperNames
  BY <1>1, HelperName
<1>3. Suffixed[Last(d)] \in Range(Suffixed)
  BY <1>1, NamesAssumption DEF Range
<1>4. Suffixed[Last(d)] \notin Range(TmpName) \cup Range(LdName)
  BY <1>3, NamesAssumption
<1> QED
  BY <1>1, <1>2, <1>4, SiblingAt

\* A helper name beside d is above no other one.
LEMMA BesideBack ==
    ASSUME NEW d, Plain(d), d # <<>>, NEW h \in Path, h # <<>>, Last(h) \in HelperNames,
           IsPrefix(h, Sibling(d, Suffixed))
    PROVE  h = Sibling(d, Suffixed)
<1> DEFINE b == Sibling(d, Suffixed)
<1>1. b \in Path /\ Front(b) = Front(d) /\ d \in Path
  BY BackAt
<1> SUFFICES ASSUME h # b PROVE FALSE
  OBVIOUS
<1> HIDE DEF b
<1>2. IsPrefix(h, b)
  BY DEF b
<1>3. IsPrefix(h, Front(d)) /\ Front(d) \in Path
  BY <1>1, <1>2, StrictFront
<1>4. IsPrefix(Front(d), d)
  BY <1>1, FrontAt
<1>5. IsPrefix(h, d)
  BY <1>1, <1>3, <1>4, PrefixTrans
<1>6. Helper(d)
  BY <1>1, <1>5, HelperBelow
<1> QED
  BY <1>6, PlainNotHelper

\* What a step of the entry does to the backup name of a place.
LEMMA BackHeld ==
    ASSUME WalkInv, Base, EntryAction, NEW d, Plain(d), d # <<>>, IsPrefix(cur.d, d) => d = cur.d
    PROVE  LET b == Sibling(d, Suffixed)
           IN  /\ b \in DOMAIN dst => b \in DOMAIN dst'
               /\ \A p \in DOMAIN dst : IsPrefix(b, p) =>
                     \/ p \in DOMAIN dst' /\ dst'[p] = dst[p]
                     \/ pc = "backup" /\ ~Given("backup_dir") /\ b = BackName
<1> DEFINE b == Sibling(d, Suffixed)
<1>1. /\ b \in Path /\ b # <<>> /\ Len(b) = Len(d) /\ Front(b) = Front(d) /\ d \in Path
      /\ Last(b) \in HelperNames /\ Last(b) \notin Range(TmpName) \cup Range(LdName)
  BY BackAt
<1>2. Busy /\ IsTree(dst)
  BY EntryControl DEF Base
<1>3. /\ cur.d \in Path /\ cur.d # <<>> /\ Plain(cur.d)
      /\ Tmp \in Path /\ Tmp # <<>> /\ Last(Tmp) \in Range(TmpName) /\ Last(Tmp) \in HelperNames
      /\ LdTmp \in Path /\ LdTmp # <<>> /\ Last(LdTmp) \in Range(LdName) /\ Last(LdTmp) \in HelperNames
      /\ BackName \in Path /\ BackName # <<>> /\ Last(BackName) \in HelperNames
  BY <1>2, NamesOf
<1>3a. Len(BackName) = Len(cur.d)
  BY <1>2, NamesOf
<1>4. \A h \in Path : h # <<>> /\ Last(h) \in HelperNames /\ IsPrefix(h, b) => h = b
  BY BesideBack
<1> HIDE DEF b
<1>5. \A h \in Path : h # <<>> /\ Front(h) = Front(cur.d) /\ IsPrefix(b, h) => h = b
  <2> SUFFICES ASSUME NEW h \in Path, h # <<>>, Front(h) = Front(cur.d), IsPrefix(b, h), h # b PROVE FALSE
    OBVIOUS
  <2>1. IsPrefix(b, Front(cur.d)) /\ Front(cur.d) \in Path
    BY <1>1, StrictFront
  <2>2. IsPrefix(Front(cur.d), cur.d)
    BY <1>3, FrontAt
  <2>3. IsPrefix(b, cur.d)
    BY <1>1, <1>3, <2>1, <2>2, PrefixTrans
  <2>4. Helper(cur.d)
    BY <1>1, <1>3, <2>3, HelperBelow
  <2> QED
    BY <1>3, <2>4, PlainNotHelper
\* Of the names of the entry only the backup name may be b or above or below it.
<1>6. /\ ~IsPrefix(b, cur.d) /\ ~IsPrefix(b, Tmp) /\ ~IsPrefix(b, LdTmp)
      /\ IsPrefix(b, BackName) => b = BackName
  <2>1. Front(Tmp) = Front(cur.d) /\ Front(LdTmp) = Front(cur.d) /\ Front(BackName) = Front(cur.d)
    BY <1>2, NamesOf
  <2>2. Last(cur.d) \notin HelperNames
    BY <1>3, PlainLast
  <2> QED
    BY <1>1, <1>3, <1>5, <2>1, <2>2
<1>7. ~IsPrefix(cur.d, b)
  <2> SUFFICES ASSUME IsPrefix(cur.d, b) PROVE FALSE
    OBVIOUS
  <2>1. cur.d # b
    BY <1>1, <1>3, PlainLast
  <2>2. IsPrefix(cur.d, Front(d)) /\ Front(d) \in Path
    BY <1>1, <1>3, <2>1, StrictFront
  <2>3. IsPrefix(Front(d), d) /\ Len(Front(d)) = Len(d) - 1 /\ Len(d) \in Nat
    BY <1>1, FrontAt
  <2>4. d = cur.d
    BY <1>1, <1>3, <2>2, <2>3, PrefixTrans
  <2>5. Len(d) <= Len(Front(d))
    BY <1>1, <2>2, <2>4, StrictLen
  <2>6. \A m, n \in Nat : m <= n /\ n = m - 1 => FALSE
    OBVIOUS
  <2>7. Len(Front(d)) \in Nat
    BY <2>2, PathLen
  <2> QED
    BY <2>3, <2>5, <2>6, <2>7
<1>8. ~IsPrefix(Tmp, b) /\ ~IsPrefix(LdTmp, b) /\ (IsPrefix(BackName, b) => b = BackName)
  BY <1>1, <1>3, <1>4
<1>9. ASSUME NEW p \in DOMAIN dst, IsPrefix(b, p)
      PROVE  \/ p \in DOMAIN dst' /\ dst'[p] = dst[p]
             \/ pc = "backup" /\ ~Given("backup_dir") /\ b = BackName
  <2>1. p \in Path /\ Effect(p)
    BY <1>2, <1>9, TreeNode, EntryChange DEF Altered
  <2>2. ASSUME NEW h \in Path, IsPrefix(h, p)
        PROVE  IsPrefix(h, b) \/ IsPrefix(b, h)
    <3>1. Len(h) <= Len(b) \/ Len(b) <= Len(h)
      <4>1. Len(h) \in Nat /\ Len(b) \in Nat
        BY <1>1, PathLen
      <4> QED
        BY <4>1
    <3> QED
      BY <1>1, <1>9, <2>1, <2>2, <3>1, PrefixChain
  <2>3. ~IsPrefix(cur.d, p) /\ ~IsPrefix(Tmp, p) /\ ~IsPrefix(LdTmp, p)
    BY <1>3, <1>6, <1>7, <1>8, <2>2
  <2>4. IsPrefix(BackName, p) => b = BackName
    BY <1>3, <1>6, <1>8, <2>2
  <2> QED
    BY <1>9, <2>1, <2>3, <2>4 DEF Effect
<1>10. ASSUME b \in DOMAIN dst
       PROVE  b \in DOMAIN dst'
  <2>1. CASE pc = "backup" /\ ~Given("backup_dir") /\ b = BackName
    <3>1. Backup /\ cur.d \in DOMAIN dst
      BY <2>1 DEF EntryAction, DryEntry, SkipEntry, UnlinkFollower, LinkFollower, LinkTmp, LinkName, Decide, Special,
         UnlinkOld, Symlink, CreateTmp, FillTmp, RenameTmp, SetTime, At, Base, Progress
    <3>2. \A p \in DOMAIN dst : IsPrefix(cur.d, p) => Other(cur.d, BackName, p) \in DOMAIN dst'
      BY <1>2, <2>1, <3>1, BackupChange
    <3>3. IsPrefix(cur.d, cur.d) /\ Other(cur.d, BackName, cur.d) = BackName
      BY <1>3, <1>3a, PrefixRefl, OtherAt
    <3> QED
      BY <2>1, <3>1, <3>2, <3>3
  <2>2. CASE ~(pc = "backup" /\ ~Given("backup_dir") /\ b = BackName)
    <3>1. IsPrefix(b, b)
      BY <1>1, PrefixRefl
    <3> QED
      BY <1>9, <1>10, <2>2, <3>1
  <2> QED
    BY <2>1, <2>2
<1> QED
  BY <1>9, <1>10 DEF b

\* The place of a copy is taken, or the backup of what it was is there.
Sits(z) ==
    \/ z.d \in DOMAIN dst
    \/ Sibling(z.d, Suffixed) \in DOMAIN dst
    \/ pc = "symlink" /\ cur.d = z.d

AllSit ==
    Wet /\ pc \notin {"idle", "delete", "done"} /\ Clear /\ (Given("hard_links") => Apart) =>
        \A z \in AllCopies : Passed(z) /\ Src[z.s].k \in {"file", "symlink"} => Sits(z)

\* Two copies with one place are those of different arguments.
LEMMA ApartCur ==
    ASSUME WalkInv, Busy, Apart, NEW z \in AllReached, cur.d = z.d
    PROVE  z = CurItem
<1>1. CurItem \in AllReached /\ CurItem.d = cur.d /\ CurItem.s = cur.s /\ ~IsDir(Src, cur.s) /\ cur.d \in Path
  BY CurAt
<1>2. IsPrefix(CurItem.d, z.d)
  BY <1>1, PrefixRefl
<1> QED
  BY <1>1, <1>2 DEF Apart

\* What is passed stays passed, and what is passed now has just been dealt with.
LEMMA NewlyPassed ==
    ASSUME WalkInv, WalkInv', EntryAction \/ WalkAction, NEW x \in AllCopies
    PROVE  /\ Passed(x) => Passed(x)'
           /\ Passed(x)' /\ ~Passed(x) =>
                 \/ EntryAction /\ pc' \notin EntryStates /\ x = CurItem
                 \/ WalkAction /\ Made(x)
           /\ ~Ahead(x) => ~Ahead(x)'
<1>1. x \in AllReached
  BY CopyIs
<1>2. CASE EntryAction /\ pc' \in EntryStates
  BY <1>2, EntryOnward DEF Passed
<1>3. CASE EntryAction /\ pc' \notin EntryStates
  <2>1. (Ahead(x)' <=> Ahead(x)) /\ ~InHand(x)'
    BY <1>1, <1>3, EntryFinished
  <2> QED
    BY <1>1, <1>3, <2>1, InHandIs DEF Passed
<1>4. CASE WalkAction
  BY <1>1, <1>4, WalkAhead DEF Advance, Passed
<1> QED
  BY <1>2, <1>3, <1>4

LEMMA SitsStays ==
    ASSUME WalkInv, WalkInv', Ground, Kept, LocalNext, EntryAction \/ WalkAction, Wet,
           pc' \notin {"delete", "done"}, Clear, Given("hard_links") => Apart, NEW z \in AllCopies, Passed(z),
           ~IsDir(Src, z.s), Sits(z)
    PROVE  Sits(z)'
<1>1. z \in AllReached /\ cmd \in Commands \cup {NoCommand} /\ Base
  BY CopyIs DEF WalkInv, Control, Ground
<1>2. Plain(z.d) /\ z.d # <<>> /\ z.d \in Path
  BY <1>1, ItemAt
<1>3. pc \notin {"delete", "done"}
  <2>1. CASE EntryAction
    BY <2>1, EntryControl DEF Busy, EntryStates
  <2>2. CASE WalkAction
    BY <2>2 DEF WalkAction, SkipArg, DirArg, FileArg, Leave, EndWalk, Visit, Delete, EndDelete, AtArg, At
  <2> QED
    BY <2>1, <2>2
<1>4. Knowing
  BY <1>3 DEF Knowing
<1>5. CASE z.d \in DOMAIN dst
  <2>1. CASE z.d \in DOMAIN dst'
    BY <2>1 DEF Sits
  <2>2. CASE EntryAction /\ cur.d = z.d
    <3>1. cur.d \in DOMAIN dst' \/ UnlinkFollower \/ pc' = "symlink" \/ BackName \in DOMAIN dst'
      BY <1>1, <1>5, <2>2, PlaceHeld
    <3>2. ~UnlinkFollower
      <4> SUFFICES ASSUME UnlinkFollower PROVE FALSE
        OBVIOUS
      <4>1. Apart /\ Busy
        BY <2>2, EntryControl DEF UnlinkFollower, Follower, Linked
      <4>2. z = CurItem
        BY <1>1, <2>2, <4>1, ApartCur
      <4> QED
        BY <1>1, <4>1, <4>2, InHandIs DEF Passed
    <3>3. pc' = "symlink" => cur' = cur
      <4>1. pc' = "symlink" => pc' \in EntryStates
        BY DEF EntryStates
      <4> QED
        BY <2>2, <4>1, EntryOnward
    <3> QED
      BY <2>2, <3>1, <3>2, <3>3 DEF Sits, BackName
  <2> QED
    BY <1>4, <1>5, <2>1, <2>2, CopyStays
<1>6. CASE Sibling(z.d, Suffixed) \in DOMAIN dst
  <2> DEFINE b == Sibling(z.d, Suffixed)
  <2>1. b \in Path /\ b # <<>> /\ Last(b) \in HelperNames
    BY <1>2, BackAt
  <2>2. Helper(b)
    BY <2>1, HelperBelow, PrefixRefl
  <2>3. b \in DOMAIN dst'
    <3>1. CASE EntryAction
      <4>1. IsPrefix(cur.d, z.d) => z.d = cur.d
        <5>1. CurItem \in AllReached /\ CurItem.d = cur.d /\ CurItem.s = cur.s /\ ~IsDir(Src, cur.s)
          BY <3>1, EntryControl, CurAt
        <5> QED
          BY <1>1, <5>1 DEF Clear
      <4> QED
        BY <1>1, <1>2, <1>6, <3>1, <4>1, BackHeld
    <3>2. CASE WalkAction
      <4>1. DOMAIN dst \subseteq DOMAIN dst' \/ Pruning \/ \E p \in DOMAIN dst : Deleting(p)
        BY <1>1, <3>2, WalkChange
      <4>2. CASE Pruning
        <5>1. stack # <<>>
          BY <4>2 DEF Pruning, Leave
        <5>2. Len(stack) \in 1..Len(stack) /\ Top = stack[Len(stack)]
          BY <5>1, TopAt DEF WalkInv
        <5>3. ~Helper(Top.d)
          BY <5>2, FrameAt
        <5> QED
          BY <1>6, <2>2, <4>2, <5>3 DEF Pruning, Drop
      <4>3. CASE \E p \in DOMAIN dst : Deleting(p)
        BY <1>3, <4>3 DEF Deleting, Delete, At
      <4> QED
        BY <1>6, <4>1, <4>2, <4>3
    <3> QED
      BY <3>1, <3>2
  <2> QED
    BY <2>3 DEF Sits
<1>7. CASE pc = "symlink" /\ cur.d = z.d
  <2>1. Symlink
    BY <1>7 DEF EntryAction, WalkAction, DryEntry, SkipEntry, UnlinkFollower, LinkFollower, LinkTmp, LinkName, Decide,
       Backup, Special, UnlinkOld, CreateTmp, FillTmp, RenameTmp, SetTime, At, SkipArg, DirArg, FileArg, Leave, EndWalk,
       Visit, Delete, EndDelete, AtArg
  <2>2. cur.d \in DOMAIN dst'
    BY <1>1, <2>1, SymlinkChange
  <2> QED
    BY <1>7, <2>2 DEF Sits
<1> QED
  BY <1>5, <1>6, <1>7 DEF Sits

LEMMA AllSitStep ==
    ASSUME WalkInv, WalkInv', Ground, Kept, AllSit, LocalNext
    PROVE  AllSit'
<1> SUFFICES ASSUME Wet', pc' \notin {"idle", "delete", "done"}, Clear', Given("hard_links")' => Apart',
                    NEW z \in AllCopies', Passed(z)', Src[z.s].k \in {"file", "symlink"}
             PROVE  Sits(z)'
  BY DEF AllSit
<1>1. CASE Start
  BY <1>1, StartAhead DEF Passed
<1>2. CASE ~Start
  <2>1. ~Kill /\ Run /\ pc # "idle" /\ (EntryAction \/ WalkAction)
    BY <1>2, Regular
  <2>2. AllCopies' = AllCopies /\ Clear /\ (Given("hard_links") => Apart) /\ Wet
    BY <2>1, SameCommand DEF Run, Given, Wet
  <2>3. z \in AllCopies /\ ~IsDir(Src, z.s)
    BY <2>2 DEF IsDir
  <2>4. CASE Passed(z)
    <3>1. pc \notin {"delete", "done"}
      <4>1. CASE EntryAction
        BY <4>1, EntryControl DEF Busy, EntryStates
      <4>2. CASE WalkAction
        BY <4>2 DEF WalkAction, SkipArg, DirArg, FileArg, Leave, EndWalk, Visit, Delete, EndDelete, AtArg, At
      <4> QED
        BY <2>1, <4>1, <4>2
    <3>2. Sits(z)
      BY <2>1, <2>2, <2>3, <2>4, <3>1 DEF AllSit
    <3> QED
      BY <2>1, <2>2, <2>3, <2>4, <3>2, SitsStays
  <2>5. CASE ~Passed(z)
    <3>1. EntryAction /\ pc' \notin EntryStates /\ z = CurItem
      BY <2>1, <2>3, <2>5, NewlyPassed DEF Made
    <3>2. z.s = cur.s /\ z.d = cur.d
      BY <3>1, EntryControl, CurAt
    <3>3. From.k \in {"file", "symlink"}
      BY <3>2 DEF From
    <3>4. cur.d \in DOMAIN dst'
      BY <2>2, <3>1, <3>3, Finished DEF Ground, Copied, Skipped, InSync, Exists
    <3> QED
      BY <3>2, <3>4 DEF Sits
  <2> QED
    BY <2>4, <2>5
<1> QED
  BY <1>1, <1>2

-----------------------------------------------------------------------------
(* What the run has passed is as the source has it.                        *)

Right(x) ==
    /\ x.d \in DOMAIN dst
    /\ dst[x.d].k = Src[x.s].k
    /\ dst[x.d].k # "dir" => dst[x.d].c = Src[x.s].c
    /\ dst[x.d].k = "file" /\ Given("times") => dst[x.d].mt = Src[x.s].mt

Due(x) ==
    /\ Src[x.s].k \in {"dir", "file", "symlink"}
    /\ Src[x.s].k = "dir" => Filled(Task(cmd.args[x.k]), x.s)

\* Another copy has taken its place, or is about to.
Superseded(x) == \E y \in AllCopies : y.d = x.d /\ y.k > x.k /\ ~Ahead(y)

AllRight ==
    /\ Wet /\ pc # "idle" /\ {"update", "ignore_existing"} \cap cmd.opts = {}
    /\ Clear /\ (Given("hard_links") => Apart) /\ Knowing
    => \A x \in AllCopies : Passed(x) /\ Due(x) => Right(x) \/ Superseded(x)

\* A directory that is due is not pruned.
LEMMA DueNotPruned ==
    ASSUME WalkInv, Ground, Counted, AllSit, Wet, Clear, Given("hard_links") => Apart,
           NEW x \in AllCopies, Passed(x), Due(x), IsDir(Src, x.s), Pruning, x.d = Top.d
    PROVE  FALSE
<1> DEFINE t == Task(cmd.args[x.k])
<1>1. pc = "walk" /\ stack # <<>> /\ Top.todo = {} /\ Top.n = 0 /\ Given("prune_empty_dirs") /\ Children(dst, Top.d) = {}
  BY DEF Pruning, Leave
<1>2. x \in AllReached /\ cmd \in Commands \cup {NoCommand} /\ arg \in Nat
  BY CopyIs DEF WalkInv, Control
<1>3. /\ IsTask(t) /\ x.s \in Reached(t) /\ x.d = Place(t, x.s) /\ x.k \in DOMAIN cmd.args
      /\ x.d \in Path /\ Plain(x.d) /\ x.d # <<>> /\ x.k \in Nat
  BY <1>2, ItemAt, ReachedAre
<1>4. PICK f \in Reached(t) : IsPrefix(x.s, f) /\ Src[f].k \in {"file", "symlink"} /\ Admitted(f)
  BY <1>1 DEF Due, IsDir, Filled
<1>5. ~IsDir(Src, f)
  BY <1>4 DEF IsDir
<1> DEFINE z0 == [k |-> x.k, s |-> f, d |-> Place(t, f)]
<1>6. z0 \in AllReached
  BY <1>3, <1>4, ReachedIs
<1>7. z0.k = x.k /\ z0.s = f /\ z0.d = Place(t, f)
  OBVIOUS
<1> HIDE DEF z0, t
<1>8. z0 \in AllCopies /\ z0.d \in Path /\ Plain(z0.d) /\ z0.d # <<>>
  BY <1>2, <1>5, <1>6, <1>7, FileCopied, ItemAt
<1>9. CASE x.k = arg
  <2>1. t = ArgTask
    BY <1>9 DEF t, ArgTask
  <2>2. Len(stack) \in 1..Len(stack) /\ Top = stack[Len(stack)]
    BY <1>1, TopAt DEF WalkInv
  <2>3. Top.s \in Reached(t) /\ Top.d = Place(t, Top.s)
    BY <2>1, <2>2, FrameAt
  <2>4. x.s = Top.s
    BY <1>3, <2>3, PlacePrefix
  <2>5. f \in Below(ArgTask, Top.s)
    BY <1>4, <1>5, <2>1, <2>4 DEF Below
  <2> QED
    BY <1>1, <2>5, NothingBelow
<1>10. CASE x.k # arg
  <2>1. x.k < arg /\ ~(x.k > arg)
    BY <1>2, <1>3, <1>10 DEF Passed, Ahead
  <2>2. Passed(z0)
    BY <1>7, <1>10, <2>1 DEF Passed, Ahead, InHand
  <2>3. Sits(z0)
    BY <1>1, <1>4, <1>7, <1>8, <2>2 DEF AllSit
  <2> DEFINE b == Sibling(z0.d, Suffixed)
  <2>4. z0.d \in DOMAIN dst \/ b \in DOMAIN dst
    BY <1>1, <2>3 DEF Sits
  <2>5. IsPrefix(x.d, z0.d) /\ x.d # z0.d
    <3>1. f # x.s
      BY <1>5
    <3> QED
      BY <1>3, <1>4, <1>7, <3>1, PlacePrefix
  <2>6. IsPrefix(x.d, Front(z0.d)) /\ Front(z0.d) \in Path
    BY <1>3, <1>8, <2>5, StrictFront
  <2>7. b \in Path /\ b # <<>> /\ Front(b) = Front(z0.d) /\ Last(b) \in HelperNames
    BY <1>8, BackAt
  <2> HIDE DEF b
  <2>8. IsPrefix(Front(b), b)
    BY <2>7, FrontAt
  <2>9. IsPrefix(x.d, b) /\ b # x.d
    BY <1>3, <2>6, <2>7, <2>8, PrefixTrans, PlainLast
  <2>10. Children(dst, x.d) # {}
    BY <1>3, <2>4, <2>5, <2>9, ChildlessEmpty DEF Ground, Base
  <2> QED
    BY <1>1, <2>10
<1> QED
  BY <1>9, <1>10

LEMMA RightStays ==
    ASSUME WalkInv, WalkInv', Ground, Kept, Counted, AllSit, LocalNext, EntryAction \/ WalkAction, Run, Wet, Clear,
           Given("hard_links") => Apart, Knowing, NEW x \in AllCopies, Passed(x), Due(x), Right(x)
    PROVE  Right(x)' \/ Superseded(x)'
<1>1. x \in AllReached /\ x.d \in DOMAIN dst /\ cmd \in Commands \cup {NoCommand} /\ arg \in Nat
  BY CopyIs DEF Right, WalkInv, Control
<1>2. AllCopies' = AllCopies
  BY SameCommand DEF Run
<1>3. CASE x.d \in DOMAIN dst' /\ dst'[x.d] = dst[x.d]
  BY <1>3 DEF Right, Run, Given
<1>4. CASE EntryAction /\ cur.d = x.d /\ ~IsDir(Src, x.s)
  <2>1. Busy
    BY <1>4, EntryControl
  <2>2. CurItem \in AllCopies /\ CurItem \in AllReached /\ CurItem.d = cur.d /\ CurItem.s = cur.s /\ CurItem.k = arg
    BY <2>1, CurAt
  <2>3. ~Ahead(CurItem)
    BY <2>1, CurNotAhead
  <2>4. PICK y \in AllCopies : y = CurItem
    BY <2>2
  <2>5. ~Ahead(y)'
    BY <1>4, <2>3, <2>4, NewlyPassed
  <2>6. x.k # arg
    <3> SUFFICES ASSUME x.k = arg PROVE FALSE
      OBVIOUS
    <3>1. /\ x.s \in Reached(ArgTask) /\ x.d = Place(ArgTask, x.s)
          /\ cur.s \in Reached(ArgTask) /\ cur.d = Place(ArgTask, cur.s)
      BY <1>1, <2>2, ReachedAre DEF ArgTask
    <3>2. IsTask(ArgTask)
      BY <2>1, ArgIs
    <3>3. x.s = cur.s
      BY <1>4, <3>1, <3>2, PlacePrefix
    <3> QED
      BY <2>1, <3>3 DEF Passed, InHand
  <2>7. x.k \in Nat
    BY <1>1, ItemAt
  <2>8. y.k > x.k
    BY <1>1, <2>2, <2>4, <2>6, <2>7 DEF Passed, Ahead
  <2>9. y.d = x.d
    BY <1>4, <2>2, <2>4
  <2> QED
    BY <1>2, <2>4, <2>5, <2>8, <2>9 DEF Superseded
<1>5. CASE Pruning /\ x.d = Top.d /\ IsDir(Src, x.s)
  BY <1>5, DueNotPruned
<1> QED
  BY <1>1, <1>3, <1>4, <1>5, CopyStays

\* The copy of an entry that ends is right.
LEMMA RightDone ==
    ASSUME WalkInv, Ground, Leads, AllRight, EntryAction, pc' \notin EntryStates, Wet, Clear, Knowing,
           Given("hard_links") => Apart, {"update", "ignore_existing"} \cap cmd.opts = {},
           NEW x \in AllCopies, x = CurItem, Due(x)
    PROVE  Right(x)'
<1>1. Busy /\ Run /\ pc # "idle"
  BY EntryControl DEF Busy, EntryStates
<1>2. x \in AllReached /\ x.s = cur.s /\ x.d = cur.d /\ ~IsDir(Src, cur.s) /\ cur.s \in DOMAIN Src
  BY <1>1, CurAt
<1>3. From = Src[x.s] /\ From.k \in {"file", "symlink"}
  BY <1>2 DEF Due, From, IsDir
<1>4. ASSUME Copied
      PROVE  Right(x)'
  <2>1. Given("times")' <=> Given("times")
    BY <1>1 DEF Run, Given
  <2> QED
    BY <1>2, <1>3, <1>4, <2>1 DEF Copied, Right
<1>5. CASE Skipped /\ (InSync(cur.s, cur.d) => Copied)
  BY <1>4, <1>5 DEF Skipped, Given
<1>6. CASE /\ pc = "follow" /\ From.k = "file" /\ Follower
           /\ links[From.i] \in DOMAIN dst /\ cur.d \in DOMAIN dst' /\ dst'[cur.d] = dst[links[From.i]]
  <2>1. From.i \in DOMAIN links /\ From.i # 0 /\ Apart
    BY <1>6 DEF Follower, Linked
  <2>2. PICK y \in AllCopies : LeaderOf(y, From.i)
    BY <2>1 DEF Leads
  <2>3. y.d = links[From.i] /\ Src[y.s].k = "file" /\ Src[y.s].i = From.i /\ Passed(y)
    BY <1>6, <2>2 DEF LeaderOf, Named, Passed
  <2>4. y \in AllReached /\ y.s \in DOMAIN Src
    BY CopyIs, ItemAt DEF WalkInv, Control
  <2>5. Src[y.s] = From
    <3>1. SameFile(Src[y.s], Src[cur.s])
      BY <1>3, <1>2, <1>6, <2>3 DEF SameFile, From
    <3> QED
      BY <1>2, <1>3, <2>1, <2>3, <2>4, <3>1, InodesAssumption
  <2>6. ~Superseded(y)
    <3> SUFFICES ASSUME NEW v \in AllCopies, v.d = y.d, v.k > y.k PROVE FALSE
      BY DEF Superseded
    <3>1. v \in AllReached /\ y.d \in Path
      BY <2>4, CopyIs, ItemAt DEF WalkInv, Control
    <3>2. ~IsDir(Src, y.s) /\ IsPrefix(y.d, v.d)
      BY <2>3, <3>1, PrefixRefl DEF IsDir
    <3>3. y = v
      BY <2>1, <2>4, <3>1, <3>2 DEF Apart
    <3>4. y.k \in Nat
      BY <2>4, ItemAt DEF WalkInv, Control
    <3> QED
      BY <3>3, <3>4
  <2>7. Due(y)
    BY <2>3 DEF Due
  <2>8. Right(y)
    BY <1>1, <2>3, <2>6, <2>7 DEF AllRight
  <2>9. Copied
    BY <1>6, <2>3, <2>5, <2>8 DEF Right, Copied
  <2> QED
    BY <1>4, <2>9
<1> QED
  BY <1>3, <1>4, <1>5, <1>6, Finished DEF Ground

LEMMA AllRightStep ==
    ASSUME WalkInv, WalkInv', Ground, Kept, Counted, AllSit, Leads, AllRight, LocalNext
    PROVE  AllRight'
<1> SUFFICES ASSUME Wet', pc' # "idle", ({"update", "ignore_existing"} \cap cmd.opts = {})', Clear',
                    Given("hard_links")' => Apart', Knowing', NEW x \in AllCopies', Passed(x)', Due(x)'
             PROVE  Right(x)' \/ Superseded(x)'
  BY DEF AllRight
<1>1. CASE Start
  BY <1>1, StartAhead DEF Passed
<1>2. CASE ~Start
  <2>1. ~Kill /\ Run /\ pc # "idle" /\ (EntryAction \/ WalkAction) /\ Knowing
    BY <1>2, Regular
  <2>2. AllCopies' = AllCopies /\ Clear /\ (Given("hard_links") => Apart) /\ Wet
        /\ {"update", "ignore_existing"} \cap cmd.opts = {}
    BY <2>1, SameCommand DEF Run, Given, Wet
  <2>3. x \in AllCopies
    BY <2>2
  <2>4. Due(x)
    BY <2>1, SameCommand DEF Due, Run
  <2>5. CASE Passed(x)
    <3>1. CASE Right(x)
      BY <2>1, <2>2, <2>3, <2>4, <2>5, <3>1, RightStays
    <3>2. CASE Superseded(x)
      <4>1. PICK y \in AllCopies : y.d = x.d /\ y.k > x.k /\ ~Ahead(y)
        BY <3>2 DEF Superseded
      <4>2. ~Ahead(y)'
        BY <2>1, <4>1, NewlyPassed
      <4> QED
        BY <2>2, <4>1, <4>2 DEF Superseded
    <3> QED
      BY <2>1, <2>2, <2>3, <2>4, <2>5, <3>1, <3>2 DEF AllRight
  <2>6. CASE ~Passed(x)
    <3>1. CASE EntryAction /\ pc' \notin EntryStates /\ x = CurItem
      BY <2>1, <2>2, <2>3, <2>4, <3>1, RightDone
    <3>2. CASE WalkAction /\ Made(x)
      <4>1. IsDir(Src, x.s) /\ CanMkDirs(dst, x.d) /\ dst' = MkDirs(dst, x.d)
        BY <2>2, <3>2 DEF Made
      <4>2. x.d \in Path /\ IsPrefix(x.d, x.d)
        BY <2>3, CopyIs, ItemAt, PrefixRefl DEF WalkInv, Control
      <4>3. IsDir(dst', x.d)
        BY <4>1, <4>2, MkDirsAt DEF Ground, Base
      <4> QED
        BY <4>1, <4>3 DEF Right, IsDir
    <3> QED
      BY <2>1, <2>3, <2>6, <3>1, <3>2, NewlyPassed
  <2> QED
    BY <2>5, <2>6
<1> QED
  BY <1>1, <1>2

\* The end of a run.
LEMMA MirrorHolds ==
    ASSUME WalkInv, Ground, Kept, Spared, AllRight
    PROVE  Mirror
<1> SUFFICES ASSUME pc = "done", Wet, {"update", "ignore_existing"} \cap cmd.opts = {},
                    Clear, Given("hard_links") => Apart, Given("delete") /\ isdir => Straight
             PROVE  /\ \A x \in Copies : Due(x) => Right(x)
                    /\ Given("delete") /\ isdir =>
                         \A p \in DOMAIN dst : IsStrictPrefix(Root, p) => p \in Places
  BY DEF Mirror, Due, Right
<1>1. Knowing
  BY DEF Knowing
<1>2. ASSUME NEW x \in Copies, Due(x)
      PROVE  Right(x)
  <2>1. x \in AllCopies /\ \A y \in AllCopies : y.d = x.d => y.k <= x.k
    BY DEF Copies
  <2>2. x \in AllReached
    BY <2>1, CopyIs
  <2>3. Passed(x)
    BY <2>2, EndPassed
  <2>4. ~Superseded(x)
    <3> SUFFICES ASSUME NEW y \in AllCopies, y.d = x.d, y.k > x.k PROVE FALSE
      BY DEF Superseded
    <3>1. y \in AllReached
      BY CopyIs
    <3>2. y.k \in Nat /\ x.k \in Nat /\ y.k <= x.k
      BY <2>1, <2>2, <3>1, ItemAt DEF WalkInv, Control
    <3> QED
      BY <3>2
  <2> QED
    BY <1>1, <1>2, <2>1, <2>3, <2>4 DEF AllRight
<1>3. ASSUME Given("delete"), isdir, NEW p \in DOMAIN dst, IsStrictPrefix(Root, p)
      PROVE  p \in Places
  BY <1>3, OnlyPlaces DEF Ground, Base
<1> QED
  BY <1>2, <1>3

LEMMA LinksKeptHolds ==
    ASSUME WalkInv, AllJoined
    PROVE  LinksKept
<1> SUFFICES ASSUME pc = "done", Wet, Given("hard_links"), Apart, Given("delete") /\ isdir => Straight,
                    NEW x \in Copies, NEW y \in Copies, Named(x), Named(y), Src[y.s].i = Src[x.s].i
             PROVE  /\ x.d \in DOMAIN dst /\ y.d \in DOMAIN dst
                    /\ dst[x.d].i = dst[y.d].i
  BY DEF LinksKept, Named
<1>1. Knowing
  BY DEF Knowing
<1>2. x \in AllCopies /\ y \in AllCopies
  BY DEF Copies
<1>3. x \in AllReached /\ y \in AllReached
  BY <1>2, CopyIs
<1>4. Passed(x) /\ Passed(y)
  BY <1>3, EndPassed
<1>5. Joined(x) /\ Joined(y)
  BY <1>1, <1>2, <1>4 DEF AllJoined
<1> QED
  BY <1>5 DEF Joined

-----------------------------------------------------------------------------
(* What is new, and what is gone.                                          *)

Early == {"entry", "follow", "linked", "backup"}

\* The steps that follow the replacement of an entry are not undone.
LEMMA LateStays ==
    ASSUME EntryAction, pc \in Late, pc' \in EntryStates
    PROVE  pc' \in Late
<1>1. \/ UnlinkOld \/ CreateTmp \/ FillTmp \/ RenameTmp
      \/ Special \/ Symlink \/ SetTime
  BY DEF EntryAction, Late, DryEntry, SkipEntry, UnlinkFollower, LinkFollower, LinkTmp, LinkName, Decide, Backup, At
<1>2. CASE UnlinkOld \/ CreateTmp \/ FillTmp \/ RenameTmp
  BY <1>2 DEF UnlinkOld, CreateTmp, FillTmp, RenameTmp, Onward, Late
<1>3. CASE Special \/ Symlink \/ SetTime
  BY <1>3 DEF Special, Symlink, SetTime, EntryDone, EntryStates
<1> QED
  BY <1>1, <1>2, <1>3

LEMMA TreatedStays ==
    ASSUME WalkInv, WalkInv', EntryAction \/ WalkAction, NEW x \in AllCopies, Treated(x)
    PROVE  Treated(x)'
<1>1. x \in AllReached
  BY CopyIs
<1>2. ~Ahead(x)'
  BY NewlyPassed DEF Treated
<1>3. CASE EntryAction /\ pc' \in EntryStates
  <2>1. InHand(x)' <=> InHand(x)
    BY <1>3, EntryOnward
  <2> QED
    BY <1>2, <1>3, <2>1, LateStays DEF Treated
<1>4. CASE EntryAction /\ pc' \notin EntryStates
  BY <1>1, <1>2, <1>4, EntryFinished DEF Treated
<1>5. CASE WalkAction
  <2>1. Advance(x)
    BY <1>1, <1>5, WalkAhead
  <2> QED
    BY <1>2, <2>1 DEF Advance, Treated
<1> QED
  BY <1>3, <1>4, <1>5

\* Before the replacement the place of the entry is as it was, or free.
LEMMA EarlyKeeps ==
    ASSUME WalkInv, Base, EntryAction, pc' \in Early, cur.d \in DOMAIN dst'
    PROVE  IsDir(dst', cur.d) \/ (cur.d \in DOMAIN dst /\ dst'[cur.d] = dst[cur.d])
<1>1. Busy
  BY EntryControl
<1>2. /\ cur.d \in Path /\ cur.d # <<>> /\ Front(cur.d) \in Path /\ IsTree(dst)
      /\ LdTmp \in Path /\ LdTmp # <<>> /\ LdTmp # cur.d
  BY <1>1, NamesOf, FrontAt DEF Base
<1>3. pc' # "walk"
  BY DEF Early
<1>4. CASE DryEntry \/ SkipEntry \/ LinkFollower \/ Special \/ Symlink \/ SetTime
  BY <1>3, <1>4 DEF DryEntry, SkipEntry, LinkFollower, Special, Symlink, SetTime, EntryDone
<1>5. CASE UnlinkOld \/ CreateTmp \/ FillTmp \/ RenameTmp \/ Backup
  <2>1. pc' \in {"symlink", "fill", "rename", "meta"} \/ pc' = Write
    BY <1>5 DEF UnlinkOld, CreateTmp, FillTmp, RenameTmp, Backup, Onward
  <2> QED
    BY <2>1 DEF Early, Write
<1>6. CASE Decide
  BY <1>6 DEF Decide
<1>7. CASE UnlinkFollower
  <2> DEFINE grown == MkDirs(dst, Front(cur.d))
  <2>1. CanMkDirs(dst, Front(cur.d)) /\ dst' = Unlinked(grown, cur.d)
    BY <1>7 DEF UnlinkFollower
  <2>2. /\ IsTree(grown)
        /\ \A q \in DOMAIN dst : grown[q] = dst[q]
        /\ \A q \in DOMAIN grown : q \notin DOMAIN dst => grown[q] = DirNode
    BY <1>2, <2>1, MkDirsAt
  <2> HIDE DEF grown
  <2>3. /\ IsTree(dst')
        /\ DOMAIN dst' = IF IsDir(grown, cur.d) THEN DOMAIN grown ELSE DOMAIN grown \ {cur.d}
        /\ \A q \in DOMAIN dst' : dst'[q] = grown[q]
    <3>1. LET u == Unlinked(grown, cur.d)
          IN  /\ IsTree(u)
              /\ DOMAIN u = IF IsDir(grown, cur.d) THEN DOMAIN grown ELSE DOMAIN grown \ {cur.d}
              /\ \A q \in DOMAIN u : u[q] = grown[q]
      BY <1>2, <2>2, UnlinkedAt
    <3> QED
      BY <2>1, <3>1
  <2> QED
    BY <2>3 DEF IsDir
<1>8. CASE LinkTmp
  <2> DEFINE clean == Unlinked(dst, LdTmp)
  <2>1. /\ IsTree(clean)
        /\ \A q \in DOMAIN clean : q \in DOMAIN dst /\ clean[q] = dst[q]
    <3>1. LET u == Unlinked(dst, LdTmp)
          IN  /\ IsTree(u)
              /\ DOMAIN u = IF IsDir(dst, LdTmp) THEN DOMAIN dst ELSE DOMAIN dst \ {LdTmp}
              /\ \A q \in DOMAIN u : u[q] = dst[q]
      BY <1>2, UnlinkedAt
    <3> QED
      BY <3>1
  <2>2. dst' = Put(clean, LdTmp, LinkDest[cur.rel]) \/ dst' = clean
    BY <1>8 DEF LinkTmp, LdTmp
  <2> HIDE DEF clean
  <2>3. cur.d \in DOMAIN clean /\ dst'[cur.d] = clean[cur.d]
    BY <1>2, <2>2 DEF Put
  <2> QED
    BY <2>1, <2>3
<1>9. CASE LinkName
  <2>1. dst' = Unlinked(dst, LdTmp)
    BY <1>3, <1>9 DEF LinkName, LdTmp, EntryDone
  <2>2. LET u == Unlinked(dst, LdTmp)
        IN  /\ IsTree(u)
            /\ DOMAIN u = IF IsDir(dst, LdTmp) THEN DOMAIN dst ELSE DOMAIN dst \ {LdTmp}
            /\ \A q \in DOMAIN u : u[q] = dst[q]
    BY <1>2, UnlinkedAt
  <2> QED
    BY <2>1, <2>2
<1> QED
  BY <1>4, <1>5, <1>6, <1>7, <1>8, <1>9 DEF EntryAction

\* What is new is a copy of something already dealt with.
NewAt(p) ==
    \E x \in AllCopies :
        /\ x.d = p /\ dst[p].c = Src[x.s].c /\ ~IsDir(Src, x.s)
        /\ pc # "idle" => Treated(x)

NewFiles ==
    (Given("hard_links") => Apart /\ {"update", "ignore_existing"} \cap cmd.opts = {}) =>
        \A p \in DOMAIN dst :
            ~IsDir(dst, p) /\ ~Helper(p) /\ (p \in DOMAIN before => dst[p].c # before[p].c) => NewAt(p)

\* The place of an entry with a new content has been treated.
LEMMA NewEntry ==
    ASSUME WalkInv, WalkInv', Ground, Leads, AllRight, LocalNext, EntryAction, NEW p, p = cur.d, cur.d \in DOMAIN dst',
           ~IsDir(dst', cur.d), ~(cur.d \in DOMAIN dst /\ dst'[cur.d] = dst[cur.d]),
           Given("hard_links") => Apart /\ {"update", "ignore_existing"} \cap cmd.opts = {}
    PROVE  NewAt(p)'
<1>1. Busy /\ Run /\ pc # "idle" /\ Base
  BY EntryControl DEF Busy, EntryStates, Ground
<1>2. /\ CurItem \in AllCopies /\ CurItem \in AllReached /\ ~IsDir(Src, cur.s) /\ cur.s \in DOMAIN Src
      /\ cur.d \in Path /\ ~Helper(cur.d) /\ CurItem.k = arg /\ CurItem.s = cur.s /\ CurItem.d = cur.d
  BY <1>1, CurAt
<1>3. PICK x \in AllCopies : x = CurItem
  BY <1>2
<1>4. ~Ahead(x)' /\ x \in AllReached
  BY <1>1, <1>2, <1>3, CurNotAhead, NewlyPassed
<1>5. pc' \notin Early
  BY <1>1, EarlyKeeps
<1>6. Treated(x)'
  <2>1. CASE pc' \in EntryStates
    BY <1>4, <1>5, <2>1 DEF Treated, Early, Late, EntryStates
  <2>2. CASE pc' \notin EntryStates
    BY <1>4, <2>2, EntryFinished DEF Treated
  <2> QED
    BY <2>1, <2>2
<1>7. dst'[cur.d].c = From.c
  <2>1. CASE dst'[cur.d].c = From.c
    BY <2>1
  <2>2. CASE pc = "follow" /\ dst'[cur.d] = dst[links[From.i]]
    <3>1. LinkFollower
      BY <2>2 DEF EntryAction, DryEntry, SkipEntry, UnlinkFollower, LinkTmp, LinkName, Decide, Backup,
         Special, UnlinkOld, Symlink, CreateTmp, FillTmp, RenameTmp, SetTime, At
    <3>2. pc' \notin EntryStates
      BY <3>1 DEF LinkFollower, EntryDone, EntryStates
    <3>3. From.k = "file" /\ Given("hard_links")
      BY <1>1, <2>2 DEF Base, Progress, Follower, Linked
    <3>4. Wet
      BY <2>2 DEF Ground, Dry, EntryStates
    <3>5. Apart /\ Clear /\ {"update", "ignore_existing"} \cap cmd.opts = {}
      BY <3>3, ApartClear
    <3>6. Knowing
      BY <2>2 DEF Knowing
    <3>7. Due(x)
      BY <1>2, <1>3, <3>3 DEF Due, From
    <3>8. Right(x)'
      BY <1>3, <3>2, <3>4, <3>5, <3>6, <3>7, RightDone
    <3> QED
      BY <1>2, <1>3, <3>8 DEF Right, IsDir, From
  <2> QED
    BY <1>1, <1>2, <2>1, <2>2, Arrives
<1>8. AllCopies' = AllCopies
  BY <1>1, SameCommand DEF Run
<1> QED
  BY <1>2, <1>3, <1>6, <1>7, <1>8 DEF NewAt, From

LEMMA NewFilesStep ==
    ASSUME WalkInv, WalkInv', Ground, Leads, AllRight, NewFiles, LocalNext
    PROVE  NewFiles'
<1> SUFFICES ASSUME Given("hard_links")' => Apart' /\ ({"update", "ignore_existing"} \cap cmd.opts = {})',
                    NEW p \in DOMAIN dst', ~IsDir(dst', p), ~Helper(p),
                    p \in DOMAIN before' => dst'[p].c # before'[p].c
             PROVE  NewAt(p)'
  BY DEF NewFiles, IsDir, Helper
<1>1. CASE Start
  <2>1. Keeps(dst, dst') /\ before' = dst
    BY <1>1, StartChange DEF Ground
  <2> QED
    BY <2>1 DEF Keeps, IsDir
<1>2. CASE ~Start
  <2>1. Run /\ (Kill \/ EntryAction \/ WalkAction)
    <3>1. Kill => Run
      BY DEF Kill
    <3>2. EntryAction => Run
      BY EntryControl
    <3>3. WalkAction => Run
      BY WalkChange DEF Ground
    <3> QED
      BY <1>2, <3>1, <3>2, <3>3, NextCases DEF WalkAction
  <2>2. /\ AllCopies' = AllCopies /\ before' = before
        /\ Given("hard_links") => Apart /\ {"update", "ignore_existing"} \cap cmd.opts = {}
    BY <2>1, SameCommand DEF Run, Given
  <2>3. CASE p \in DOMAIN dst /\ dst'[p] = dst[p]
    <3>1. NewAt(p)
      BY <2>2, <2>3 DEF NewFiles, IsDir
    <3>2. CASE Kill
      <4>1. pc' = "idle"
        BY <3>2 DEF Kill
      <4> QED
        BY <2>2, <2>3, <3>1, <4>1 DEF NewAt
    <3>3. CASE EntryAction \/ WalkAction
      <4>1. pc # "idle"
        <5>1. EntryAction => pc # "idle"
          BY EntryControl DEF Busy, EntryStates
        <5>2. WalkAction => pc # "idle"
          BY DEF WalkAction, SkipArg, DirArg, FileArg, Leave, EndWalk, Visit, Delete, EndDelete, AtArg, At
        <5> QED
          BY <3>3, <5>1, <5>2
      <4>2. PICK x \in AllCopies : x.d = p /\ dst[p].c = Src[x.s].c /\ ~IsDir(Src, x.s) /\ Treated(x)
        BY <3>1, <4>1 DEF NewAt
      <4>3. Treated(x)'
        BY <3>3, <4>2, TreatedStays
      <4> QED
        BY <2>2, <2>3, <4>2, <4>3 DEF NewAt
    <3> QED
      BY <2>1, <3>2, <3>3
  <2>4. CASE ~(p \in DOMAIN dst /\ dst'[p] = dst[p])
    <3>1. EntryAction /\ p = cur.d
      BY <2>4, Arrives
    <3> QED
      BY <2>2, <2>4, <3>1, NewEntry
  <2> QED
    BY <2>3, <2>4
<1> QED
  BY <1>1, <1>2

\* What is gone was in the way of a copy.
Gone ==
    {"delete", "prune_empty_dirs"} \cap cmd.opts = {} =>
        \A p \in DOMAIN before \ DOMAIN dst :
            ~Helper(p) => \E x \in AllCopies : IsPrefix(x.d, p) /\ ~IsDir(Src, x.s)

LEMMA GoneStep ==
    ASSUME WalkInv, Ground, Gone, LocalNext
    PROVE  Gone'
<1> SUFFICES ASSUME ({"delete", "prune_empty_dirs"} \cap cmd.opts = {})',
                    NEW p \in DOMAIN before', p \notin DOMAIN dst', ~Helper(p)
             PROVE  \E x \in AllCopies' : IsPrefix(x.d, p) /\ ~IsDir(Src, x.s)
  BY DEF Gone, Helper
<1>1. CASE Start
  BY <1>1, StartChange DEF Ground
<1>2. CASE ~Start
  <2>1. Run
    <3>1. Kill => Run
      BY DEF Kill
    <3>2. EntryAction => Run
      BY EntryControl
    <3>3. WalkAction => Run
      BY WalkChange DEF Ground
    <3> QED
      BY <1>2, <3>1, <3>2, <3>3, NextCases DEF WalkAction
  <2>2. AllCopies' = AllCopies /\ before' = before /\ {"delete", "prune_empty_dirs"} \cap cmd.opts = {}
    BY <2>1, SameCommand DEF Run
  <2>3. CASE p \notin DOMAIN dst
    BY <2>2, <2>3 DEF Gone
  <2>4. CASE p \in DOMAIN dst
    <3>1. ~Pruning
      BY <2>2 DEF Pruning, Given
    <3>2. ~Deleting(p)
      BY <2>2 DEF Deleting, Delete, At, Ground, Ending, Given
    <3>3. EntryAction /\ IsPrefix(cur.d, p)
      BY <2>4, <3>1, <3>2, Stays
    <3>4. CurItem \in AllCopies /\ CurItem.d = cur.d /\ CurItem.s = cur.s /\ ~IsDir(Src, cur.s)
      BY <3>3, EntryControl, CurAt
    <3> QED
      BY <2>2, <3>3, <3>4
  <2> QED
    BY <2>3, <2>4
<1> QED
  BY <1>1, <1>2

\* At every moment of a run.
LEMMA OnlyCopiesHolds ==
    ASSUME Ground, NewFiles, Gone
    PROVE  OnlyCopies
<1>1. pc \notin {"idle", "done"} /\ ~Wet => dst = before
  BY DEF Ground, Dry
<1>2. ASSUME Given("hard_links") => Apart /\ {"update", "ignore_existing"} \cap cmd.opts = {},
             NEW p \in DOMAIN dst, ~IsDir(dst, p), p \in DOMAIN before => dst[p].c # before[p].c, ~Helper(p)
      PROVE  \E x \in AllCopies : x.d = p /\ dst[p].c = Src[x.s].c
  BY <1>2 DEF NewFiles, NewAt
<1>3. {"delete", "prune_empty_dirs"} \cap cmd.opts = {} =>
         \A p \in {q \in DOMAIN before \ DOMAIN dst : ~Helper(q)} :
            \E x \in AllCopies : IsPrefix(x.d, p) /\ ~IsDir(Src, x.s)
  BY DEF Gone
<1> QED
  BY <1>1, <1>2, <1>3 DEF OnlyCopies

-----------------------------------------------------------------------------
(* What is backed up.                                                      *)

Holds(t, q, c) == q \in DOMAIN t /\ t[q].k = "file" /\ t[q].c = c

\* The backup of p if x has replaced it.
BackupOf(x, p) == Other(x.d, Sibling(x.d, Suffixed), p)

InPlace(p) ==
    /\ Holds(dst, p, before[p].c)
    /\ pc \in Late => ~IsPrefix(cur.d, p)

MovedAway(p) ==
    \E x \in AllCopies :
        /\ ~IsDir(Src, x.s) /\ (pc # "idle" => Treated(x))
        /\ IsPrefix(x.d, p) /\ Holds(dst, BackupOf(x, p), before[p].c)

CopiedAway(p) ==
    /\ Given("backup_dir") /\ Last(p) \in DOMAIN bak
    /\ bak[Last(p)] # before[p].c => \E q \in DOMAIN before : q # p /\ q # <<>> /\ Last(q) = Last(p)

Saving ==
    Given("backup") /\ Wet /\ {"delete", "hard_links", "link_dest"} \cap cmd.opts = {} /\ Apart

Saved ==
    Saving => \A p \in DOMAIN before :
        before[p].k = "file" /\ ~Helper(p) => InPlace(p) \/ MovedAway(p) \/ CopiedAway(p)

\* Where the backup of what x replaces is.
LEMMA BackupAt ==
    ASSUME cmd \in Commands \cup {NoCommand}, NEW x \in AllReached, NEW p \in Path, IsPrefix(x.d, p)
    PROVE  LET b == Sibling(x.d, Suffixed)
           IN  /\ BackupOf(x, p) \in Path /\ IsPrefix(b, BackupOf(x, p))
               /\ b \in Path /\ b # <<>> /\ Len(b) = Len(x.d) /\ Front(b) = Front(x.d)
               /\ Last(b) \in HelperNames /\ Last(b) \notin Range(TmpName) /\ Last(b) = Suffixed[Last(x.d)]
<1> DEFINE b == Sibling(x.d, Suffixed)
<1>1. Plain(x.d) /\ x.d # <<>> /\ x.d \in Path
  BY ItemAt
<1>2. /\ b \in Path /\ b # <<>> /\ Len(b) = Len(x.d) /\ Front(b) = Front(x.d)
      /\ Last(b) \in HelperNames /\ Last(b) \notin Range(TmpName) /\ Last(b) = Suffixed[Last(x.d)]
  BY <1>1, BackAt
<1> HIDE DEF b
<1>3. Other(x.d, b, p) \in Path /\ IsPrefix(b, Other(x.d, b, p))
  BY <1>1, <1>2, OtherAt
<1> QED
  BY <1>2, <1>3 DEF BackupOf, b

\* It is no temporary name, nor below one.
LEMMA BackupNotTmp ==
    ASSUME WalkInv, Busy, NEW x \in AllReached, NEW p \in Path, IsPrefix(x.d, p)
    PROVE  BackupOf(x, p) # Tmp
<1> DEFINE b == Sibling(x.d, Suffixed)
<1>1. cmd \in Commands \cup {NoCommand}
  BY DEF WalkInv, Control
<1>2. /\ b \in Path /\ b # <<>> /\ IsPrefix(b, BackupOf(x, p))
      /\ Last(b) \in HelperNames /\ Last(b) \notin Range(TmpName)
  BY <1>1, BackupAt
<1> HIDE DEF b
<1>3. Tmp \in Path /\ Tmp # <<>> /\ Front(Tmp) = Front(cur.d) /\ Last(Tmp) \in Range(TmpName) /\ Plain(cur.d)
      /\ cur.d \in Path /\ cur.d # <<>>
  BY NamesOf
<1> SUFFICES ASSUME IsPrefix(b, Tmp) PROVE FALSE
  BY <1>2
<1>4. b # Tmp
  BY <1>2, <1>3
<1>5. IsPrefix(b, Front(Tmp)) /\ Front(Tmp) \in Path
  BY <1>2, <1>3, <1>4, StrictFront
<1>6. Helper(Front(Tmp))
  BY <1>2, <1>5, HelperBelow
<1>7. Plain(Front(cur.d))
  BY <1>3, FrontAt, PlainPrefix
<1> QED
  BY <1>3, <1>6, <1>7, PlainNotHelper

\* Two places with one backup name are one place.
LEMMA BackupOfCur ==
    ASSUME WalkInv, Busy, Apart, NEW x \in AllReached, Sibling(x.d, Suffixed) = BackName
    PROVE  x = CurItem
<1>1. Plain(x.d) /\ x.d # <<>> /\ x.d \in Path
  BY ItemAt DEF WalkInv, Control
<1>2. Plain(cur.d) /\ cur.d # <<>> /\ cur.d \in Path
  BY CurAt
<1>3. /\ Front(Sibling(x.d, Suffixed)) = Front(x.d) /\ Last(Sibling(x.d, Suffixed)) = Suffixed[Last(x.d)]
      /\ Last(x.d) \in DOMAIN TmpName
  BY <1>1, BackAt
<1>4. Front(BackName) = Front(cur.d) /\ Last(BackName) = Suffixed[Last(cur.d)] /\ Last(cur.d) \in DOMAIN TmpName
  BY <1>2, BackAt DEF BackName
<1>5. Last(x.d) = Last(cur.d)
  BY <1>3, <1>4, NamesAssumption
<1>6. x.d = cur.d
  BY <1>1, <1>2, <1>3, <1>4, <1>5, FrontAt, SMTT(40)
<1> QED
  BY <1>6, ApartCur

\* What a step of the walk, or its sudden end, leaves.
LEMMA SavedQuiet ==
    ASSUME WalkInv, WalkInv', Ground, Saved, Saving, LocalNext, Kill \/ WalkAction, Run, bak' = bak,
           NEW p \in DOMAIN before, before[p].k = "file", ~Helper(p), p \in Path
    PROVE  (InPlace(p) \/ MovedAway(p) \/ CopiedAway(p))'
<1>1. IsTree(dst) /\ Base /\ cmd \in Commands \cup {NoCommand} /\ Wet
  BY DEF Ground, Base, WalkInv, Control, Saving
<1>2. pc' \notin Late
  BY DEF Kill, WalkAction, SkipArg, DirArg, FileArg, Leave, EndWalk, Visit, Delete, EndDelete, Enter, AtArg, At, Late
<1>3. AllCopies' = AllCopies /\ before' = before /\ (Given("backup_dir")' <=> Given("backup_dir"))
  BY SameCommand DEF Run, Given
<1>4. ASSUME NEW q \in Path, NEW c, Holds(dst, q, c), Kill /\ Busy => q # Tmp
      PROVE  Holds(dst', q, c)
  <2>1. q \in DOMAIN dst' => dst'[q] = dst[q]
    <3>1. Keeps(dst, dst')
      BY <1>1, KillChange, WalkChange
    <3> QED
      BY <1>4, <3>1 DEF Keeps, Holds
  <2>2. q \in DOMAIN dst'
    <3>1. CASE Kill
      BY <1>1, <1>4, <3>1, KillChange DEF Holds
    <3>2. CASE WalkAction
      <4>1. DOMAIN dst \subseteq DOMAIN dst' \/ Pruning \/ \E r \in DOMAIN dst : Deleting(r)
        BY <1>1, <3>2, WalkChange
      <4>2. CASE Pruning
        <5>1. stack # <<>>
          BY <4>2 DEF Pruning, Leave
        <5>2. Len(stack) \in 1..Len(stack) /\ Top = stack[Len(stack)]
          BY <5>1, TopAt DEF WalkInv
        <5>3. IsDir(dst, Top.d)
          BY <1>1, <5>2 DEF Ground, FramesMade
        <5> QED
          BY <1>4, <4>2, <5>3 DEF Pruning, Drop, IsDir, Holds
      <4>3. CASE \E r \in DOMAIN dst : Deleting(r)
        BY <4>3 DEF Deleting, Delete, At, Ground, Ending, Given, Saving
      <4> QED
        BY <1>4, <4>1, <4>2, <4>3 DEF Holds
    <3> QED
      BY <3>1, <3>2
  <2> QED
    BY <1>4, <2>1, <2>2 DEF Holds
<1>5. CASE InPlace(p)
  <2>1. Busy => p # Tmp
    <3> SUFFICES ASSUME Busy, p = Tmp PROVE FALSE
      OBVIOUS
    <3>1. Tmp \in Path /\ Tmp # <<>> /\ Last(Tmp) \in HelperNames
      BY NamesOf
    <3> QED
      BY <3>1, HelperBelow, PrefixRefl
  <2>2. Holds(dst', p, before[p].c)
    BY <1>4, <1>5, <2>1 DEF InPlace
  <2> QED
    BY <1>2, <1>3, <2>2 DEF InPlace, Holds
<1>6. CASE MovedAway(p)
  <2>1. PICK x \in AllCopies : /\ ~IsDir(Src, x.s) /\ (pc # "idle" => Treated(x))
                               /\ IsPrefix(x.d, p) /\ Holds(dst, BackupOf(x, p), before[p].c)
    BY <1>6 DEF MovedAway
  <2>2. x \in AllReached
    BY CopyIs
  <2>3. BackupOf(x, p) \in Path
    BY <1>1, <2>1, <2>2, BackupAt
  <2>4. Busy => BackupOf(x, p) # Tmp
    BY <2>1, <2>2, BackupNotTmp
  <2>5. Holds(dst', BackupOf(x, p), before[p].c)
    BY <1>4, <2>1, <2>3, <2>4
  <2>6. pc' # "idle" => Treated(x)'
    <3>1. CASE Kill
      BY <3>1 DEF Kill
    <3>2. CASE WalkAction
      <4>1. pc # "idle"
        BY <3>2 DEF WalkAction, SkipArg, DirArg, FileArg, Leave, EndWalk, Visit, Delete, EndDelete, AtArg, At
      <4> QED
        BY <2>1, <3>2, <4>1, TreatedStays
    <3> QED
      BY <3>1, <3>2
  <2> QED
    BY <1>3, <2>1, <2>5, <2>6 DEF MovedAway, Holds
<1>7. CASE CopiedAway(p)
  BY <1>3, <1>7 DEF CopiedAway
<1> QED
  BY <1>5, <1>6, <1>7 DEF Saved

\* What was in place when the entry is reached is there still, or has been put away.
LEMMA SavedInPlace ==
    ASSUME WalkInv, WalkInv', Ground, Saving, LocalNext, EntryAction,
           NEW p \in DOMAIN before, before[p].k = "file", ~Helper(p), p \in Path, InPlace(p)
    PROVE  (InPlace(p) \/ MovedAway(p) \/ CopiedAway(p))'
<1>1. IsTree(dst) /\ Base /\ cmd \in Commands \cup {NoCommand} /\ Wet /\ Busy /\ Run /\ before' = before
  BY EntryControl DEF Ground, Base, WalkInv, Control, Saving, Run
<1>2. p \in DOMAIN dst /\ dst[p].k = "file" /\ dst[p].c = before[p].c
  BY DEF InPlace, Holds
<1>3. pc' \in Late => cur' = cur
  <2>1. pc' \in Late => pc' \in EntryStates
    BY DEF Late, EntryStates
  <2> QED
    BY <2>1, EntryOnward
<1>4. CASE ~IsPrefix(cur.d, p)
  <2>1. p \in DOMAIN dst' /\ dst'[p] = dst[p]
    BY <1>1, <1>2, <1>4, EntryElsewhere
  <2> QED
    BY <1>1, <1>2, <1>3, <1>4, <2>1 DEF InPlace, Holds
<1>5. CASE IsPrefix(cur.d, p)
  <2>1. pc \in {"entry", "backup"}
    <3>1. pc \notin Late
      BY <1>5 DEF InPlace
    <3>2. pc # "follow"
      BY <1>1 DEF Base, Progress, Follower, Linked, Saving, Given
    <3>3. pc # "linked"
      BY <1>1 DEF Base, Progress, Saving, Given
    <3> QED
      BY <1>1, <3>1, <3>2, <3>3 DEF Busy, EntryStates, Late
  <2>2. cur.d \in Path /\ CurItem \in AllCopies /\ CurItem.d = cur.d /\ CurItem.s = cur.s /\ ~IsDir(Src, cur.s)
    BY <1>1, CurAt
  <2>3. \/ SkipEntry \/ Decide \/ Backup
    BY <1>1, <2>1 DEF EntryAction, DryEntry, UnlinkFollower, LinkFollower, LinkTmp, Linkable, LinkName,
       Special, UnlinkOld, Symlink, CreateTmp, FillTmp, RenameTmp, SetTime, At, Follower, Linked, Given, Saving
  <2>4. CASE SkipEntry
    BY <1>1, <1>2, <2>4 DEF SkipEntry, EntryDone, InPlace, Holds, Late
  <2>5. CASE Decide
    <3>1. dst' = dst /\ pc' = Replace
      BY <2>5 DEF Decide, Onward
    <3>2. CASE Exists(cur.d)
      <4>1. pc' = "backup"
        BY <3>1, <3>2 DEF Replace, Saving
      <4> QED
        BY <1>1, <1>2, <3>1, <4>1 DEF InPlace, Holds, Late
    <3>3. CASE ~Exists(cur.d)
      <4>1. ~IsDir(dst, cur.d)
        BY <3>3 DEF Exists, IsDir
      <4>2. p = cur.d
        BY <1>1, <1>2, <1>5, <2>2, <4>1, FileAlone
      <4> QED
        BY <1>2, <3>3, <4>2 DEF Exists
    <3> QED
      BY <3>2, <3>3
  <2>6. CASE Backup
    <3>1. /\ pc' = Write /\ cur' = cur
          /\ IF Given("backup_dir")
             THEN dst' = dst /\ dst[cur.d].k # "dir" /\ bak' = Put(bak, Last(cur.d), dst[cur.d].c)
             ELSE \A r \in DOMAIN dst : IsPrefix(cur.d, r) =>
                     LET b == Other(cur.d, BackName, r)
                     IN  b \in DOMAIN dst' /\ dst'[b] = dst[r]
      BY <1>1, <2>6, BackupChange
    <3>2. CASE Given("backup_dir")
      <4>1. p = cur.d
        BY <1>1, <1>2, <1>5, <2>2, <3>1, <3>2, FileAlone DEF IsDir
      <4>2. bak' = Put(bak, Last(p), before[p].c)
        BY <1>2, <3>1, <3>2, <4>1
      <4>3. Last(p) \in DOMAIN bak' /\ bak'[Last(p)] = before[p].c
        BY <4>2 DEF Put
      <4> QED
        BY <1>1, <3>2, <4>3 DEF CopiedAway, Given, Run
    <3>3. CASE ~Given("backup_dir")
      <4> DEFINE b == Other(cur.d, BackName, p)
      <4>1. b \in DOMAIN dst' /\ dst'[b] = dst[p]
        BY <1>2, <1>5, <3>1, <3>3
      <4>2. PICK x \in AllCopies : x = CurItem
        BY <2>2
      <4>3. BackupOf(x, p) = b
        BY <2>2, <4>2 DEF BackupOf, BackName
      <4> HIDE DEF b
      <4>4. Treated(x)'
        <5>1. ~Ahead(x)'
          BY <1>1, <4>2, CurNotAhead, NewlyPassed
        <5>2. pc' \in Late
          BY <3>1 DEF Write, Late
        <5> QED
          BY <5>1, <5>2 DEF Treated
      <4>5. AllCopies' = AllCopies
        BY <1>1, SameCommand DEF Run
      <4>6. Holds(dst', BackupOf(x, p), before'[p].c)
        BY <1>1, <1>2, <4>1, <4>3 DEF Holds
      <4> QED
        BY <1>5, <2>2, <4>2, <4>4, <4>5, <4>6 DEF MovedAway, Holds
    <3> QED
      BY <3>2, <3>3
  <2> QED
    BY <2>3, <2>4, <2>5, <2>6
<1> QED
  BY <1>4, <1>5

\* What has been moved to its backup name stays there.
LEMMA SavedMoved ==
    ASSUME WalkInv, WalkInv', Ground, Saving, LocalNext, EntryAction,
           NEW p \in DOMAIN before, p \in Path, MovedAway(p)
    PROVE  MovedAway(p)'
<1>1. Base /\ cmd \in Commands \cup {NoCommand} /\ Busy /\ Run /\ before' = before /\ Apart
  BY EntryControl DEF Ground, WalkInv, Control, Saving, Run
<1>2. PICK x \in AllCopies : /\ ~IsDir(Src, x.s) /\ (pc # "idle" => Treated(x))
                             /\ IsPrefix(x.d, p) /\ Holds(dst, BackupOf(x, p), before[p].c)
  BY DEF MovedAway
<1>3. Treated(x) /\ x \in AllReached
  BY <1>1, <1>2, CopyIs DEF Busy, EntryStates
<1>4. Treated(x)'
  BY <1>3, TreatedStays
<1> DEFINE b == Sibling(x.d, Suffixed)
<1>5. BackupOf(x, p) \in Path /\ IsPrefix(b, BackupOf(x, p))
  BY <1>1, <1>2, <1>3, BackupAt
<1>6. Plain(x.d) /\ x.d # <<>> /\ (IsPrefix(cur.d, x.d) => x.d = cur.d)
  <2>1. CurItem \in AllReached /\ CurItem.d = cur.d /\ CurItem.s = cur.s /\ ~IsDir(Src, cur.s)
    BY <1>1, CurAt
  <2>2. IsPrefix(cur.d, x.d) => CurItem = x
    BY <1>1, <1>3, <2>1 DEF Apart
  <2> QED
    BY <1>1, <1>3, <2>1, <2>2, ItemAt
<1>7. ~(pc = "backup" /\ b = BackName)
  <2> SUFFICES ASSUME pc = "backup", b = BackName PROVE FALSE
    OBVIOUS
  <2>1. x = CurItem
    BY <1>1, <1>3, BackupOfCur
  <2>2. InHand(x)
    BY <1>1, <1>3, <2>1, InHandIs
  <2> QED
    BY <1>3, <2>2 DEF Treated, Late
<1>8. \A r \in DOMAIN dst : IsPrefix(b, r) =>
         \/ r \in DOMAIN dst' /\ dst'[r] = dst[r]
         \/ pc = "backup" /\ ~Given("backup_dir") /\ b = BackName
  BY <1>1, <1>6, BackHeld
<1> HIDE DEF b
<1>9. Holds(dst', BackupOf(x, p), before[p].c)
  BY <1>2, <1>5, <1>7, <1>8 DEF Holds
<1>10. AllCopies' = AllCopies
  BY <1>1, SameCommand DEF Run
<1> QED
  BY <1>1, <1>2, <1>4, <1>9, <1>10 DEF MovedAway, Holds

\* What is in the backup directory stays there, but for another file of its name.
LEMMA SavedCopied ==
    ASSUME WalkInv, Ground, NewFiles, Saving, LocalNext, EntryAction,
           NEW p \in DOMAIN before, CopiedAway(p)
    PROVE  CopiedAway(p)'
<1>1. Base /\ Busy /\ Run /\ before' = before /\ Apart /\ ~Given("hard_links") /\ pc # "idle"
  BY EntryControl DEF Ground, Saving, Run, Given, Busy, EntryStates
<1>2. Given("backup_dir")' /\ Given("backup_dir")
  BY <1>1 DEF CopiedAway, Given, Run
<1>3. CASE bak' = bak
  BY <1>1, <1>2, <1>3 DEF CopiedAway
<1>4. CASE Backup
  <2>1. dst[cur.d].k # "dir" /\ bak' = Put(bak, Last(cur.d), dst[cur.d].c) /\ pc = "backup"
    BY <1>1, <1>2, <1>4, BackupChange DEF Backup, At
  <2>2. cur.d \in DOMAIN dst
    BY <1>1, <2>1 DEF Base, Progress
  <2>3. cur.d \in Path /\ cur.d # <<>> /\ ~Helper(cur.d)
    BY <1>1, CurAt
  <2>4. cur.d \in DOMAIN before /\ dst[cur.d].c = before[cur.d].c
    <3> SUFFICES ASSUME cur.d \in DOMAIN before => dst[cur.d].c # before[cur.d].c PROVE FALSE
      OBVIOUS
    <3>1. NewAt(cur.d)
      BY <1>1, <2>1, <2>2, <2>3 DEF NewFiles, IsDir
    <3>2. PICK x \in AllCopies : x.d = cur.d /\ Treated(x)
      BY <1>1, <3>1 DEF NewAt
    <3>3. x \in AllReached
      BY CopyIs
    <3>4. x = CurItem
      BY <1>1, <3>2, <3>3, ApartCur
    <3>5. InHand(x)
      BY <1>1, <3>3, <3>4, InHandIs
    <3> QED
      BY <2>1, <3>2, <3>5 DEF Treated, Late
  <2>5. CASE Last(cur.d) # Last(p)
    BY <1>1, <1>2, <2>1, <2>5 DEF CopiedAway, Put
  <2>6. CASE Last(cur.d) = Last(p)
    <3>1. Last(p) \in DOMAIN bak' /\ bak'[Last(p)] = before[cur.d].c
      BY <2>1, <2>4, <2>6 DEF Put
    <3> QED
      BY <1>1, <1>2, <2>3, <2>4, <2>6, <3>1 DEF CopiedAway
  <2> QED
    BY <2>5, <2>6
<1>5. Backup \/ bak' = bak
  BY DEF EntryAction, DryEntry, SkipEntry, UnlinkFollower, LinkFollower, LinkTmp, LinkName, Decide,
     Special, UnlinkOld, Symlink, CreateTmp, FillTmp, RenameTmp, SetTime
<1> QED
  BY <1>3, <1>4, <1>5

LEMMA SavedStep ==
    ASSUME WalkInv, WalkInv', Ground, NewFiles, Saved, LocalNext
    PROVE  Saved'
<1> SUFFICES ASSUME Saving', NEW p \in DOMAIN before', before'[p].k = "file", ~Helper(p)
             PROVE  (InPlace(p) \/ MovedAway(p) \/ CopiedAway(p))'
  BY DEF Saved, Helper
<1>1. CASE Start
  <2>1. Keeps(dst, dst') /\ before' = dst /\ DOMAIN dst \subseteq DOMAIN dst' /\ pc' = "walk"
    BY <1>1, StartChange DEF Ground
  <2> QED
    BY <2>1 DEF Keeps, InPlace, Holds, Late
<1>2. CASE ~Start
  <2>1. Run /\ (EntryAction \/ ((Kill \/ WalkAction) /\ bak' = bak))
    <3>1. Kill => Run /\ bak' = bak
      BY DEF Kill
    <3>2. EntryAction => Run
      BY EntryControl
    <3>3. WalkAction => Run /\ bak' = bak
      BY WalkChange DEF Ground
    <3> QED
      BY <1>2, <3>1, <3>2, <3>3, NextCases DEF WalkAction
  <2>2. before' = before /\ Saving
    BY <2>1, SameCommand DEF Run, Saving, Given, Wet
  <2>3. p \in DOMAIN before /\ before[p].k = "file" /\ p \in Path
    BY <2>2, TreeNode DEF Ground
  <2>4. InPlace(p) \/ MovedAway(p) \/ CopiedAway(p)
    BY <2>2, <2>3 DEF Saved
  <2>5. CASE EntryAction
    <3>1. CASE InPlace(p)
      BY <2>2, <2>3, <2>5, <3>1, SavedInPlace
    <3>2. CASE MovedAway(p)
      BY <2>2, <2>3, <2>5, <3>2, SavedMoved
    <3>3. CASE CopiedAway(p)
      BY <2>2, <2>3, <2>5, <3>3, SavedCopied
    <3> QED
      BY <2>4, <3>1, <3>2, <3>3
  <2>6. CASE (Kill \/ WalkAction) /\ bak' = bak
    BY <2>1, <2>2, <2>3, <2>6, SavedQuiet
  <2> QED
    BY <2>1, <2>5, <2>6
<1> QED
  BY <1>1, <1>2

\* At every moment of a run, and after it.
LEMMA BackedUpHolds ==
    ASSUME Ground, Saved
    PROVE  BackedUp
<1> SUFFICES ASSUME Given("backup"), {"delete", "hard_links", "link_dest"} \cap cmd.opts = {}, Apart,
                    NEW p \in DOMAIN before, before[p].k = "file", ~Helper(p)
             PROVE  \/ \E q \in DOMAIN dst : dst[q].c = before[p].c
                    \/ \E n \in DOMAIN bak : bak[n] = before[p].c
                    \/ /\ Given("backup_dir")
                       /\ \E q \in DOMAIN before : q # p /\ q # <<>> /\ Last(q) = Last(p)
  BY DEF BackedUp
<1>1. CASE Wet
  <2>1. InPlace(p) \/ MovedAway(p) \/ CopiedAway(p)
    BY <1>1 DEF Saved, Saving
  <2> QED
    BY <2>1 DEF InPlace, MovedAway, CopiedAway, Holds
<1>2. CASE ~Wet
  BY <1>2 DEF Ground, Dry
<1> QED
  BY <1>1, <1>2

-----------------------------------------------------------------------------
(* The invariant of a copy, and what follows from it.                      *)

LocalInv ==
    /\ WalkInv /\ Ground /\ Counted /\ Kept /\ Spared
    /\ Leads /\ AllJoined /\ AllSit /\ AllRight
    /\ NewFiles /\ Gone /\ Saved

LEMMA LocalInvStart ==
    ASSUME LocalInit
    PROVE  LocalInv
<1>1. WalkInv /\ Ground /\ Counted /\ Kept
  BY WalkStart, GroundStart, CountedStart, KeptStart
<1>2. Spared /\ Leads /\ AllJoined /\ AllSit /\ AllRight
  BY DEF LocalInit, Spared, Leads, AllJoined, AllSit, AllRight
<1>3. NewFiles /\ Gone
  BY DEF LocalInit, NewFiles, Gone
<1>4. Saved
  BY DEF LocalInit, Saved, Saving, NoCommand, Given
<1> QED
  BY <1>1, <1>2, <1>3, <1>4 DEF LocalInv

LEMMA LocalInvStep ==
    ASSUME LocalInv, LocalNext
    PROVE  LocalInv'
<1>1. WalkInv /\ Ground /\ Counted /\ Kept /\ Spared /\ Leads /\ AllJoined /\ AllSit /\ AllRight
      /\ NewFiles /\ Gone /\ Saved
  BY DEF LocalInv
<1>2. WalkInv' /\ Ground'
  BY <1>1, WalkStep, GroundStep
<1>3. Counted'
  BY <1>1, <1>2, CountedStep
<1>4. Kept'
  BY <1>1, <1>2, KeptStep
<1>5. Spared'
  BY <1>1, SparedStep
<1>6. Leads'
  BY <1>1, <1>2, LeadsStep
<1>7. AllJoined'
  BY <1>1, <1>2, AllJoinedStep
<1>8. AllSit'
  BY <1>1, <1>2, AllSitStep
<1>9. AllRight'
  BY <1>1, <1>2, AllRightStep
<1>10. NewFiles'
  BY <1>1, <1>2, NewFilesStep
<1>11. Gone'
  BY <1>1, GoneStep
<1>12. Saved'
  BY <1>1, <1>2, SavedStep
<1> QED
  BY <1>2, <1>3, <1>4, <1>5, <1>6, <1>7, <1>8, <1>9, <1>10, <1>11, <1>12 DEF LocalInv

LEMMA LocalInvStutter ==
    ASSUME LocalInv, UNCHANGED localVars
    PROVE  LocalInv'
<1>1. WalkInv /\ Ground /\ Counted /\ Kept /\ Spared /\ Leads /\ AllJoined /\ AllSit /\ AllRight
      /\ NewFiles /\ Gone /\ Saved
  BY DEF LocalInv
<1>2. WalkInv' /\ Ground' /\ Counted' /\ Kept'
  BY <1>1, WalkStutter, GroundStutter, CountedStutter, KeptStutter
<1>3. /\ UNCHANGED dst /\ UNCHANGED before /\ UNCHANGED bak /\ UNCHANGED cmd /\ UNCHANGED isdir /\ UNCHANGED pc
      /\ UNCHANGED arg /\ UNCHANGED stack /\ UNCHANGED cur /\ UNCHANGED kept /\ UNCHANGED links
  BY DEF localVars
<1>4. /\ AllCopies' = AllCopies /\ (Apart' <=> Apart) /\ (Clear' <=> Clear) /\ (Straight' <=> Straight)
      /\ \A a : Task(a)' = Task(a)
      /\ \A t, p : Filled(t, p)' <=> Filled(t, p)
  BY <1>3, SameCommand
<1>5. /\ \A x : /\ Ahead(x)' <=> Ahead(x)
                /\ InHand(x)' <=> InHand(x)
  BY <1>3 DEF Ahead, InHand, Busy, ComingIn
<1>6. /\ \A x : /\ Passed(x)' <=> Passed(x)
                /\ Treated(x)' <=> Treated(x)
  BY <1>3, <1>5 DEF Passed, Treated
<1>7. /\ \A o : Given(o)' <=> Given(o)
      /\ Wet' <=> Wet
      /\ Knowing' <=> Knowing
  BY <1>3, <1>4 DEF Given, Wet, Knowing
<1>8. Spared'
  BY <1>1, <1>3 DEF Spared, Wet, Given, Doomed, Rel
<1>9. Leads'
  BY <1>1, <1>3, <1>4, <1>5 DEF Leads, LeaderOf, Named
<1>10. AllJoined'
  BY <1>1, <1>3, <1>4, <1>6, <1>7 DEF AllJoined, Joined, Named
<1>11. AllSit'
  BY <1>1, <1>3, <1>4, <1>6, <1>7 DEF AllSit, Sits
<1>12. AllRight'
  <2>1. \A x : (Due(x)' <=> Due(x)) /\ (Right(x)' <=> Right(x)) /\ (Superseded(x)' <=> Superseded(x))
    BY <1>3, <1>4, <1>5, <1>7 DEF Due, Right, Superseded
  <2> QED
    BY <1>1, <1>3, <1>4, <1>6, <1>7, <2>1 DEF AllRight
<1>13. NewFiles'
  <2>1. \A p : NewAt(p)' <=> NewAt(p)
    BY <1>3, <1>4, <1>6 DEF NewAt
  <2> QED
    BY <1>1, <1>3, <1>4, <1>7, <2>1 DEF NewFiles, IsDir, Helper
<1>14. Gone'
  BY <1>1, <1>3, <1>4 DEF Gone, Helper
<1>15. Saved'
  <2>1. \A p : /\ InPlace(p)' <=> InPlace(p)
               /\ MovedAway(p)' <=> MovedAway(p)
               /\ CopiedAway(p)' <=> CopiedAway(p)
    BY <1>3, <1>4, <1>6, <1>7 DEF InPlace, MovedAway, CopiedAway, Holds
  <2> QED
    BY <1>1, <1>3, <1>4, <1>7, <2>1 DEF Saved, Saving, Helper
<1> QED
  BY <1>2, <1>8, <1>9, <1>10, <1>11, <1>12, <1>13, <1>14, <1>15 DEF LocalInv

\* The invariant holds throughout: the walk never comes to an entry twice, every
\* directory being walked is there, and what the run has passed is as it should be.
THEOREM LocalInvHolds == LocalSpec => []LocalInv
<1>1. LocalInit => LocalInv
  BY LocalInvStart
<1>2. LocalInv /\ [LocalNext]_localVars => LocalInv'
  BY LocalInvStep, LocalInvStutter
<1> QED
  BY <1>1, <1>2, PTL DEF LocalSpec

\* A run that returns has made the destination what the source is: copy_entry has put
\* every file in its place and the --delete pass has left nothing else, whatever runs
\* that were killed have left behind.
THEOREM MirrorAlways == LocalSpec => []Mirror
<1>1. LocalInv => Mirror
  BY MirrorHolds DEF LocalInv
<1> QED
  BY <1>1, LocalInvHolds, PTL

\* Wherever a run is killed, each name holds what it held before or the whole of its
\* source: copy_regular renames only a file that is complete; nothing else is touched.
THEOREM OnlyCopiesAlways == LocalSpec => []OnlyCopies
<1>1. LocalInv => OnlyCopies
  BY OnlyCopiesHolds DEF LocalInv
<1> QED
  BY <1>1, LocalInvHolds, PTL

\* With --backup the content a copy replaces is under its own name, under its backup
\* name or in the backup directory, between the steps of backup_file and copy_entry too.
THEOREM BackedUpAlways == LocalSpec => []BackedUp
<1>1. LocalInv => BackedUp
  BY BackedUpHolds DEF LocalInv
<1> QED
  BY <1>1, LocalInvHolds, PTL

\* With -H the LinkMap of copy_entry makes all names of a source file names of one file,
\* in whatever order they are read and whether the first was copied, linked or passed over.
THEOREM LinksKeptAlways == LocalSpec => []LinksKept
<1>1. LocalInv => LinksKept
  BY LinksKeptHolds DEF LocalInv
<1> QED
  BY <1>1, LocalInvHolds, PTL
=============================================================================
