---------------------------- MODULE TokenProofs ----------------------------
(***************************************************************************)
(* Proofs about the token stream of a file, plain and deflated.            *)
(*                                                                         *)
(* Delta, for files and bases of every length and every block size: the    *)
(* first two parts look neither inside checksum1 nor inside Roll, the      *)
(* rebuilt file is right whatever the rolling checksum computes.  The      *)
(* third shows what it computes, and the fourth that with it the search    *)
(* misses no block.                                                        *)
(*                                                                         *)
(* DeflateTokens, for deltas of every length, any block numbers and any    *)
(* limits of the encoding: as long as the matches of a delta are in one    *)
(* piece, the reader delivers what the sender put in.                      *)
(***************************************************************************)
EXTENDS Delta, DeflateTokens, SequenceTheorems, WellFoundedInduction, NaturalsInduction, TLAPS

-----------------------------------------------------------------------------
(* Sequences.                                                              *)

\* A slice of a file within its bounds is a file of the expected length.
LEMMA SliceFacts ==
    ASSUME NEW S, NEW f \in Seq(S), NEW a \in Nat, NEW z \in Nat, a <= z, z <= Len(f)
    PROVE  /\ Slice(f, a, z) \in Seq(S)
           /\ Len(Slice(f, a, z)) = z - a
           /\ \A i \in 1..(z - a) : Slice(f, a, z)[i] = f[a + i]
  BY DEF Slice

\* Two adjacent slices make one.
LEMMA SliceJoin ==
    ASSUME NEW S, NEW f \in Seq(S), NEW a \in Nat, NEW m \in Nat, NEW z \in Nat,
           a <= m, m <= z, z <= Len(f)
    PROVE  Slice(f, a, m) \o Slice(f, m, z) = Slice(f, a, z)
<1>1. a + 1 \in 1..(Len(f) + 1) /\ m \in (a + 1 - 1)..Len(f) /\ z \in m..Len(f)
  OBVIOUS
<1> QED BY <1>1, ConcatAdjacentSubSeq DEF Slice

\* Concatenating short sequences is appending their elements.
LEMMA ConcatAppend ==
    ASSUME NEW S, NEW s \in Seq(S), NEW x \in S, NEW y \in S
    PROVE  /\ s \o <<x>> \o <<y>> = Append(Append(s, x), y)
           /\ s \o <<>> \o <<y>> = Append(s, y)
<1>1. s \o <<x>> = Append(s, x) /\ Append(s, x) \in Seq(S)
  BY AppendIsConcat
<1>2. Append(s, x) \o <<y>> = Append(Append(s, x), y)
  BY <1>1, AppendIsConcat
<1>3. s \o <<>> = s /\ s \o <<y>> = Append(s, y)
  BY AppendIsConcat, ConcatEmptySeq
<1> QED BY <1>1, <1>2, <1>3

\* Appending an operation that starts where the others end keeps them
\* contiguous and moves the end behind it.
LEMMA ContiguousAppend ==
    ASSUME NEW s \in Seq(OpSet), NEW o \in OpSet, Contiguous(s), o.off = EndOf(s)
    PROVE  /\ Append(s, o) \in Seq(OpSet)
           /\ Contiguous(Append(s, o))
           /\ EndOf(Append(s, o)) = o.off + o.len
           /\ Append(s, o) # <<>>
<1>1. Append(s, o) \in Seq(OpSet) /\ Len(Append(s, o)) = Len(s) + 1
  OBVIOUS
<1>2. \A j \in 1..Len(s) : Append(s, o)[j] = s[j]
  OBVIOUS
<1>3. Append(s, o)[Len(s) + 1] = o /\ Append(s, o) # <<>>
  OBVIOUS
<1>4. Contiguous(Append(s, o))
  <2> SUFFICES ASSUME NEW j \in 1..(Len(s) + 1)
               PROVE  Append(s, o)[j].off
                        = IF j = 1 THEN 0
                          ELSE Append(s, o)[j-1].off + Append(s, o)[j-1].len
    BY <1>1 DEF Contiguous
  <2>1. CASE j <= Len(s)
    <3>1. j \in 1..Len(s) /\ (j # 1 => j - 1 \in 1..Len(s)) BY <2>1
    <3> QED BY <3>1, <1>2 DEF Contiguous
  <2>2. CASE j = Len(s) + 1 /\ s = <<>>
    BY <2>2, <1>3 DEF EndOf
  <2>3. CASE j = Len(s) + 1 /\ s # <<>>
    <3>1. Len(s) \in 1..Len(s) /\ j # 1 /\ j - 1 = Len(s) BY <2>3
    <3>2. Append(s, o)[j-1] = s[Len(s)] BY <3>1, <1>2
    <3>3. Append(s, o)[j] = o BY <2>3, <1>3
    <3> QED BY <2>3, <3>1, <3>2, <3>3 DEF EndOf
  <2> QED BY <2>1, <2>2, <2>3
<1>5. EndOf(Append(s, o)) = o.off + o.len
  BY <1>1, <1>3 DEF EndOf
<1> QED BY <1>1, <1>3, <1>4, <1>5

\* ... and keeps every operation right if the new one is.
LEMMA StandsForAppend ==
    ASSUME NEW s \in Seq(OpSet), NEW o \in OpSet,
           \A j \in 1..Len(s) : StandsFor(s[j]), StandsFor(o)
    PROVE  \A j \in 1..Len(Append(s, o)) : StandsFor(Append(s, o)[j])
<1> SUFFICES ASSUME NEW j \in 1..(Len(s) + 1) PROVE StandsFor(Append(s, o)[j])
  OBVIOUS
<1>1. CASE j <= Len(s)
  <2>1. j \in 1..Len(s) /\ Append(s, o)[j] = s[j] BY <1>1
  <2> QED BY <2>1
<1>2. CASE j = Len(s) + 1
  BY <1>2
<1> QED BY <1>1, <1>2

-----------------------------------------------------------------------------
(* The search: find_matches_seeded.                                        *)

\* Division with remainder.
LEMMA DivMod ==
    ASSUME NEW x \in Int, NEW m \in Nat \ {0}
    PROVE  x % m \in 0..(m - 1) /\ x \div m \in Int /\ x = m * (x \div m) + (x % m)
  OBVIOUS

\* A literal is not longer than it should be, and is as long if the file is short enough.
LEMMA LiteralFacts ==
    ASSUME NEW a \in Nat, NEW n \in Nat
    PROVE  /\ Literal(a, n) \in OpSet /\ Literal(a, n).k = "lit" /\ Literal(a, n).off = a
           /\ Literal(a, n).len \in Nat /\ Literal(a, n).len <= n
           /\ data \in Seq(Bytes) /\ LengthsFit /\ n <= Len(data) => Literal(a, n).len = n
<1>1. LenWord \in Nat \ {0}
  BY DeltaAssumption
<1>2. n % LenWord \in 0..(LenWord - 1) /\ n \div LenWord \in Int /\ n = LenWord * (n \div LenWord) + (n % LenWord)
  BY <1>1, DivMod
<1>3. PICK q \in Int, l \in 0..(LenWord - 1) : q = n \div LenWord /\ l = n % LenWord
  BY <1>2
<1>4. n = LenWord * q + l /\ LenWord \in Nat \ {0}
  BY <1>1, <1>2, <1>3
<1>5. l <= n
  <2>1. q >= 0
    <3> SUFFICES ASSUME q <= -1 PROVE FALSE OBVIOUS
    <3>1. LenWord * q <= LenWord * (-1) BY <1>4
    <3> QED BY <1>4, <3>1
  <2>2. LenWord * q >= 0 BY <1>4, <2>1
  <2> QED BY <1>4, <2>2
<1>6. n < LenWord => l = n
  <2> SUFFICES ASSUME n < LenWord PROVE l = n OBVIOUS
  <2>1. q <= 0
    <3> SUFFICES ASSUME q >= 1 PROVE FALSE OBVIOUS
    <3>1. LenWord * q >= LenWord BY <1>4
    <3> QED BY <1>4, <3>1
  <2>2. q >= 0
    <3> SUFFICES ASSUME q <= -1 PROVE FALSE OBVIOUS
    <3>1. LenWord * q <= LenWord * (-1) BY <1>4
    <3> QED BY <1>4, <3>1
  <2>3. q = 0 BY <2>1, <2>2
  <2> QED BY <1>4, <2>3
<1>7. data \in Seq(Bytes) /\ LengthsFit /\ n <= Len(data) => n < LenWord
  BY <1>1 DEF LengthsFit
<1> QED BY <1>3, <1>5, <1>6, <1>7 DEF Literal, OpSet

\* Types of what the search reads and writes, and where it stands: a window
\* never starts before last_match and never reaches beyond the file.
Scanning ==
    /\ data \in Seq(Bytes) /\ basis \in Seq(Bytes)
    /\ blen \in Nat
    /\ pc \in {"start", "scan", "tail", "send", "done"}
    /\ offset \in Nat /\ last \in Nat
    /\ ops \in Seq(OpSet)
    /\ last <= Len(data) /\ (ops = <<>> => last = 0)
    /\ pc = "start" => ops = <<>> /\ offset = 0
    /\ pc = "scan" => blen > 0 /\ last <= offset /\ offset + blen <= Len(data)
    /\ pc \in {"send", "done"} => last = Len(data)

TileInv == Scanning /\ Tiled

\* Nothing has been emitted at the start.
LEMMA TileInit == Init => TileInv
<1> SUFFICES ASSUME Init PROVE TileInv
  OBVIOUS
<1> USE DeltaAssumption
<1>1. data \in Seq(Bytes) /\ basis \in Seq(Bytes)
  BY DEF Init
<1>2. blen \in Nat
  <2>1. CASE blen = 0 BY <2>1
  <2>2. CASE blen = block_len_for_file(Len(basis))
    <3>1. Len(basis) \div Scale \in Int BY <1>1
    <3>2. LargerOf(BlockSize, Len(basis) \div Scale) \in Nat
      BY <3>1 DEF LargerOf
    <3> QED BY <2>2, <3>2 DEF block_len_for_file, SmallerOf
  <2> QED BY <2>1, <2>2 DEF Init
<1>3. Scanning
  BY <1>1, <1>2 DEF Init, Scanning
<1>4. Tiled
  BY <1>1 DEF Init, Tiled, Contiguous, EndOf
<1> QED BY <1>3, <1>4 DEF TileInv

\* No step changes the files or the geometry of the basis.
LEMMA SameFiles == [Next]_vars => UNCHANGED <<data, basis, blen>>
  BY DEF Next, Sender, Receiver, Finished, vars, SendWhole, StartScan, Hit, Slide, Stop,
         Trailing, SentLater, SendLiteral, WriteChunk, SendMatch, SendEof, Writing,
         RecvLiteral, RecvMatch, RecvEof, Reading

LEMMA SameBlocks ==
    ASSUME UNCHANGED <<data, basis, blen>>
    PROVE  /\ \A i : Block(i)' = Block(i)
           /\ \A o : StandsFor(o)' = StandsFor(o)
<1>1. /\ \A i : Block(i)' = Block(i)
  BY DEF Block, EntryLen, Count, Remainder
<1> QED BY <1>1 DEF StandsFor

\* Every step of the search keeps the operations a tiling.
LEMMA TileStep == TileInv /\ [Next]_vars => TileInv'
<1> SUFFICES ASSUME TileInv, [Next]_vars PROVE TileInv'
  OBVIOUS
<1> USE DeltaAssumption
<1>0. UNCHANGED <<data, basis, blen>> /\ (LengthsFit' <=> LengthsFit)
  BY SameFiles DEF LengthsFit
<1>1. ASSUME UNCHANGED <<offset, last, ops>>,
             pc' = pc \/ (pc = "send" /\ pc' = "done")
      PROVE  TileInv'
  <2>1. Scanning' BY <1>0, <1>1 DEF TileInv, Scanning
  <2>2. Tiled'
    BY <1>0, <1>1, SameBlocks DEF TileInv, Tiled, Contiguous, EndOf
  <2> QED BY <2>1, <2>2 DEF TileInv
<1>2. CASE SendWhole
  <2>1. CASE data = <<>>
    <3>1. ops' = <<>> /\ last' = 0 /\ pc' = "send" /\ offset' = offset
      BY <1>2, <2>1 DEF SendWhole
    <3>2. Scanning' BY <1>0, <2>1, <3>1 DEF TileInv, Scanning
    <3>3. Tiled' BY <1>0, <3>1, <2>1 DEF Tiled, Contiguous, EndOf
    <3> QED BY <3>2, <3>3 DEF TileInv
  <2>2. CASE data # <<>>
    <3> DEFINE o == Literal(0, Len(data))
    <3>1. ops' = <<o>> /\ last' = Len(data) /\ pc' = "send" /\ offset' = offset
      BY <1>2, <2>2 DEF SendWhole
    <3>2. /\ o \in OpSet /\ o.off = 0 /\ o.k = "lit" /\ Len(data) > 0
          /\ LengthsFit => o.len = Len(data)
      BY <2>2, LiteralFacts DEF TileInv, Scanning
    <3> HIDE DEF o
    <3>3. ops' \in Seq(OpSet) BY <3>1, <3>2
    <3>4. Scanning' BY <1>0, <3>1, <3>3 DEF TileInv, Scanning
    <3>5. LengthsFit => StandsFor(o) BY <3>2 DEF StandsFor
    <3>6. /\ \A j \in 1..Len(ops') : ops'[j] = o
          /\ Len(ops') = 1 /\ ops' # <<>> /\ ops'[1] = o
      BY <3>1
    <3>7. LengthsFit => \A j \in 1..Len(ops') : StandsFor(ops[j])'
      BY <1>0, <3>5, <3>6, SameBlocks
    <3>8. LengthsFit => Contiguous(ops)' /\ EndOf(ops)' = Len(data)
      BY <3>2, <3>6 DEF Contiguous, EndOf, TileInv, Scanning
    <3>9. Tiled'
      BY <1>0, <3>1, <3>7, <3>8 DEF Tiled, TileInv, Scanning
    <3> QED BY <3>4, <3>9 DEF TileInv
  <2> QED BY <2>1, <2>2
<1>3. CASE StartScan
  <2>1. Scanning'
    BY <1>0, <1>3 DEF TileInv, Scanning, StartScan, Tiled, EndOf
  <2>2. Tiled'
    BY <1>0, <1>3, SameBlocks DEF StartScan, TileInv, Tiled, Contiguous, EndOf
  <2> QED BY <2>1, <2>2 DEF TileInv
<1>4. CASE Hit
  <2>1. PICK i \in Candidates :
            ops' = ops \o (IF offset > last THEN <<Literal(last, offset - last)>> ELSE <<>>)
                       \o <<Match(i, offset)>>
    BY <1>4 DEF Hit
  <2>2. /\ pc = "scan" /\ last' = offset + blen /\ offset' = offset + blen
        /\ IF offset + 2 * blen <= Len(data) THEN pc' = "scan" ELSE pc' = "tail"
    BY <1>4 DEF Hit
  <2>3. i \in Nat /\ Block(i) = Slice(data, offset, offset + blen)
    BY <2>1 DEF Candidates, Window
  <2>4. /\ data \in Seq(Bytes) /\ blen \in Nat /\ blen > 0 /\ offset \in Nat /\ last \in Nat
        /\ last <= offset /\ offset + blen <= Len(data)
        /\ ops \in Seq(OpSet)
        /\ LengthsFit => /\ Contiguous(ops) /\ EndOf(ops) = last
                         /\ \A j \in 1..Len(ops) : StandsFor(ops[j])
    BY <2>2 DEF TileInv, Scanning, Tiled
  <2> DEFINE L == Literal(last, offset - last)
             M == Match(i, offset)
             front == IF offset > last THEN Append(ops, L) ELSE ops
  <2>5. /\ L \in OpSet /\ L.off = last /\ L.k = "lit"
        /\ LengthsFit => L.len = offset - last
    <3>1. offset - last \in Nat /\ offset - last <= Len(data) BY <2>4
    <3> QED BY <2>4, <3>1, LiteralFacts
  <2>6. M \in OpSet /\ M.off = offset /\ M.len = blen /\ M.k = "match" /\ M.idx = i
    BY <2>3, <2>4 DEF Match, OpSet
  <2>7. StandsFor(M)
    BY <2>3, <2>4, <2>6 DEF StandsFor
  <2>8. offset > last /\ LengthsFit => StandsFor(L)
    BY <2>4, <2>5 DEF StandsFor
  <2> HIDE DEF L, M
  <2>9. ops' = Append(front, M)
    <3>1. CASE offset > last
      <4>1. ops' = ops \o <<L>> \o <<M>> BY <2>1, <3>1 DEF L, M
      <4>2. ops \o <<L>> \o <<M>> = Append(Append(ops, L), M)
        BY <2>4, <2>5, <2>6, ConcatAppend
      <4>3. front = Append(ops, L) BY <3>1
      <4> QED BY <4>1, <4>2, <4>3
    <3>2. CASE ~(offset > last)
      <4>1. ops' = ops \o <<>> \o <<M>> BY <2>1, <3>2 DEF M
      <4> QED BY <4>1, <3>2, <2>4, <2>6, ConcatAppend
    <3> QED BY <3>1, <3>2
  <2>10. /\ front \in Seq(OpSet)
         /\ LengthsFit => /\ Contiguous(front) /\ EndOf(front) = offset
                          /\ \A j \in 1..Len(front) : StandsFor(front[j])
    <3>1. CASE offset > last
      <4>1. front = Append(ops, L) /\ Append(ops, L) \in Seq(OpSet) BY <2>4, <2>5, <3>1
      <4>2. LengthsFit => /\ Contiguous(Append(ops, L))
                          /\ EndOf(Append(ops, L)) = last + (offset - last)
        BY <2>4, <2>5, ContiguousAppend
      <4>3. LengthsFit => \A j \in 1..Len(Append(ops, L)) : StandsFor(Append(ops, L)[j])
        BY <2>4, <2>5, <2>8, <3>1, StandsForAppend
      <4>4. last + (offset - last) = offset BY <2>4
      <4> QED BY <4>1, <4>2, <4>3, <4>4
    <3>2. CASE ~(offset > last)
      <4>1. front = ops /\ last = offset BY <3>2, <2>4
      <4> QED BY <4>1, <2>4
    <3> QED BY <3>1, <3>2
  <2> HIDE DEF front
  <2>11. /\ ops' \in Seq(OpSet) /\ ops' # <<>>
         /\ LengthsFit => Contiguous(ops') /\ EndOf(ops') = offset + blen
    <3>1. Append(front, M) \in Seq(OpSet) /\ Append(front, M) # <<>> BY <2>6, <2>10
    <3> QED BY <2>6, <2>9, <2>10, <3>1, ContiguousAppend
  <2>12. LengthsFit => \A j \in 1..Len(ops') : StandsFor(ops'[j])
    BY <2>6, <2>7, <2>9, <2>10, StandsForAppend
  <2>13. Scanning'
    <3>1. pc' \in {"scan", "tail"} BY <2>2
    <3>2. pc' = "scan" => (offset + blen) + blen <= Len(data) BY <2>2, <2>4
    <3> QED BY <1>0, <2>2, <2>4, <2>11, <3>1, <3>2 DEF TileInv, Scanning
  <2>14. Tiled'
    <3>1. LengthsFit => \A j \in 1..Len(ops') : StandsFor(ops[j])'
      BY <1>0, <2>12, SameBlocks DEF StandsFor
    <3>2. LengthsFit => Contiguous(ops)' /\ EndOf(ops)' = offset + blen
      BY <2>11 DEF Contiguous, EndOf
    <3> QED BY <1>0, <2>2, <2>4, <3>1, <3>2 DEF Tiled
  <2> QED BY <2>13, <2>14 DEF TileInv
<1>5. CASE Slide
  <2>1. Scanning'
    BY <1>0, <1>5 DEF TileInv, Scanning, Slide
  <2>2. Tiled'
    BY <1>0, <1>5, SameBlocks DEF Slide, TileInv, Tiled, Contiguous, EndOf
  <2> QED BY <2>1, <2>2 DEF TileInv
<1>6. CASE Stop
  <2>1. Scanning'
    BY <1>0, <1>6 DEF TileInv, Scanning, Stop
  <2>2. Tiled'
    BY <1>0, <1>6, SameBlocks DEF Stop, TileInv, Tiled, Contiguous, EndOf
  <2> QED BY <2>1, <2>2 DEF TileInv
<1>7. CASE Trailing
  <2>1. /\ last' = Len(data) /\ pc' = "send" /\ offset' = offset
        /\ ops' = IF last < Len(data) THEN Append(ops, Literal(last, Len(data) - last))
                  ELSE ops
    BY <1>7 DEF Trailing
  <2>2. /\ data \in Seq(Bytes) /\ last \in Nat /\ last <= Len(data)
        /\ ops \in Seq(OpSet) /\ (ops = <<>> => last = 0)
        /\ LengthsFit => /\ Contiguous(ops) /\ EndOf(ops) = last
                         /\ \A j \in 1..Len(ops) : StandsFor(ops[j])
    BY DEF TileInv, Scanning, Tiled
  <2> DEFINE L == Literal(last, Len(data) - last)
  <2>3. /\ L \in OpSet /\ L.off = last /\ L.k = "lit"
        /\ LengthsFit => L.len = Len(data) - last
    <3>1. Len(data) - last \in Nat /\ Len(data) - last <= Len(data) BY <2>2
    <3> QED BY <2>2, <3>1, LiteralFacts
  <2> HIDE DEF L
  <2>4. /\ ops' \in Seq(OpSet) /\ (ops' = <<>> => last' = 0)
        /\ LengthsFit => /\ Contiguous(ops') /\ EndOf(ops') = Len(data)
                         /\ \A j \in 1..Len(ops') : StandsFor(ops'[j])
    <3>1. CASE last < Len(data)
      <4>1. ops' = Append(ops, L) BY <2>1, <3>1 DEF L
      <4>2. LengthsFit => StandsFor(L) BY <2>2, <2>3, <3>1 DEF StandsFor
      <4>3. last + (Len(data) - last) = Len(data) BY <2>2
      <4>4. /\ ops' \in Seq(OpSet) /\ ops' # <<>>
            /\ LengthsFit => Contiguous(ops') /\ EndOf(ops') = Len(data)
        <5>1. Append(ops, L) \in Seq(OpSet) /\ Append(ops, L) # <<>> BY <2>2, <2>3
        <5> QED BY <2>2, <2>3, <4>1, <4>3, <5>1, ContiguousAppend
      <4>5. LengthsFit => \A j \in 1..Len(ops') : StandsFor(ops'[j])
        BY <2>2, <2>3, <4>1, <4>2, StandsForAppend
      <4> QED BY <4>4, <4>5
    <3>2. CASE ~(last < Len(data))
      <4>1. ops' = ops /\ last = Len(data) BY <2>1, <2>2, <3>2
      <4> QED BY <4>1, <2>1, <2>2
    <3> QED BY <3>1, <3>2
  <2>5. Scanning'
    BY <1>0, <2>1, <2>2, <2>4 DEF TileInv, Scanning
  <2>6. Tiled'
    <3>1. LengthsFit => \A j \in 1..Len(ops') : StandsFor(ops[j])'
      BY <1>0, <2>4, SameBlocks DEF StandsFor
    <3>2. LengthsFit => Contiguous(ops)' /\ EndOf(ops)' = Len(data)
      BY <2>4 DEF Contiguous, EndOf
    <3> QED BY <1>0, <2>1, <2>2, <3>1, <3>2 DEF Tiled
  <2> QED BY <2>5, <2>6 DEF TileInv
<1>8. CASE SendLiteral \/ WriteChunk \/ SendMatch \/ SendEof
  BY <1>1, <1>8 DEF SendLiteral, WriteChunk, SendMatch, SendEof, Writing
<1>9. CASE Receiver \/ Finished \/ UNCHANGED vars
  BY <1>1, <1>9 DEF Receiver, RecvLiteral, RecvMatch, RecvEof, Reading, Finished, vars
<1> QED BY <1>2, <1>3, <1>4, <1>5, <1>6, <1>7, <1>8, <1>9 DEF Next, Sender

\* The delta operations tile the sender's file up to last_match, and each match
\* stands for the bytes of its block, for all files shorter than what a literal's
\* u32 counts, and whatever the block size and the rolling checksum are
\* (find_matches_seeded).
THEOREM TiledHolds == Spec => []Tiled
<1>1. TileInv => Tiled BY DEF TileInv
<1> QED BY <1>1, TileInit, TileStep, PTL DEF Spec

-----------------------------------------------------------------------------
(* The token stream: TokenWriter, TokenReader, apply_delta.                *)

\* A token carries the bytes of the sender's file it stands for.
Carries(t) ==
    /\ TokenEnd(t) \in Nat /\ TokenEnd(t) <= Len(data)
    /\ t.n > 0 => t.bytes = Slice(data, t.at, TokenEnd(t))
    /\ t.n < 0 => Block(-t.n - 1) = Slice(data, t.at, TokenEnd(t))
    /\ t.n = 0 => t.at = Len(data)

\* What the writer holds back is the part of the file before Handed.
Held ==
    /\ Len(buf) <= Handed /\ Handed <= Len(data)
    /\ buf = Slice(data, Handed - Len(buf), Handed)

StreamInv ==
    /\ opi \in 1..(Len(ops) + 1)
    /\ buf \in Seq(Bytes) /\ wire \in Seq(TokenSet) /\ out \in Seq(Bytes)
    /\ whole \in BOOLEAN
    /\ pc \in {"start", "scan", "tail"} =>
         opi = 1 /\ buf = <<>> /\ wire = <<>> /\ out = <<>> /\ ~whole
    /\ pc \in {"send", "done"} => Held
    /\ \A j \in 1..Len(wire) : Carries(wire[j])
    /\ InOrder
    /\ Rebuilt
    /\ Len(out) <= Len(data)

DeltaInv == TileInv /\ (LengthsFit => StreamInv)

\* The two halves of a slice.
LEMMA SliceSplit ==
    \A f \in Seq(Bytes) : \A a, z, k \in Nat :
        z <= Len(f) /\ 0 < k /\ k <= z - a =>
            /\ SubSeq(Slice(f, a, z), 1, k) = Slice(f, a, a + k)
            /\ SubSeq(Slice(f, a, z), k + 1, z - a) = Slice(f, a + k, z)
<1> TAKE f \in Seq(Bytes)
<1> TAKE a, z, k \in Nat
<1> HAVE z <= Len(f) /\ 0 < k /\ k <= z - a
<1>1. /\ a + 1 \in 1..Len(f) /\ z \in 1..Len(f)
      /\ z - (a + 1) + 1 = z - a /\ a + 1 + 1 - 1 = a + 1 /\ a + 1 + k - 1 = a + k
  OBVIOUS
<1>2. SubSeq(Slice(f, a, z), 1, k) = Slice(f, a, a + k)
  <2>1. 1 \in 1..(z - (a + 1) + 1) /\ k \in 1..(z - (a + 1) + 1) OBVIOUS
  <2>2. SubSeq(SubSeq(f, a + 1, z), 1, k) = SubSeq(f, a + 1 + 1 - 1, a + 1 + k - 1)
    BY <1>1, <2>1, SubSeqOfSubSeq
  <2> QED BY <1>1, <2>2 DEF Slice
<1>3. SubSeq(Slice(f, a, z), k + 1, z - a) = Slice(f, a + k, z)
  <2>1. CASE k < z - a
    <3>1. k + 1 \in 1..(z - (a + 1) + 1) /\ z - a \in 1..(z - (a + 1) + 1) BY <2>1
    <3>2. SubSeq(SubSeq(f, a + 1, z), k + 1, z - a)
            = SubSeq(f, a + 1 + (k + 1) - 1, a + 1 + (z - a) - 1)
      BY <1>1, <3>1, SubSeqOfSubSeq
    <3>3. a + 1 + (k + 1) - 1 = a + k + 1 /\ a + 1 + (z - a) - 1 = z OBVIOUS
    <3> QED BY <3>2, <3>3 DEF Slice
  <2>2. CASE k = z - a
    <3>1. SubSeq(Slice(f, a, z), k + 1, z - a) = <<>> BY <2>2, SubSeqEmpty
    <3>2. SubSeq(f, a + k + 1, z) = <<>> BY <2>2, SubSeqEmpty
    <3> QED BY <3>1, <3>2 DEF Slice
  <2> QED BY <2>1, <2>2
<1> QED BY <1>2, <1>3

\* A token that starts where the stream ends can be appended to it.
LEMMA ChainAppend ==
    ASSUME NEW w \in Seq(TokenSet), NEW t \in TokenSet, NEW a, NEW z,
           Chain(w, a, z), t.at = z
    PROVE  /\ Append(w, t) \in Seq(TokenSet)
           /\ Chain(Append(w, t), a, TokenEnd(t))
<1>1. /\ Append(w, t) \in Seq(TokenSet) /\ Len(Append(w, t)) = Len(w) + 1
      /\ \A j \in 1..Len(w) : Append(w, t)[j] = w[j]
      /\ Append(w, t)[Len(w) + 1] = t
  BY AppendProperties
<1>2. Chain(Append(w, t), a, TokenEnd(t))
  <2> SUFFICES ASSUME NEW j \in 0..(Len(w) + 1)
               PROVE  (IF j = 0 THEN a ELSE TokenEnd(Append(w, t)[j]))
                        = IF j < Len(w) + 1 THEN Append(w, t)[j+1].at ELSE TokenEnd(t)
    BY <1>1 DEF Chain
  <2>1. CASE j < Len(w)
    <3>1. j \in 0..Len(w) /\ j + 1 \in 1..Len(w) /\ (j # 0 => j \in 1..Len(w)) BY <2>1
    <3>2. (IF j = 0 THEN a ELSE TokenEnd(w[j])) = w[j+1].at BY <2>1, <3>1 DEF Chain
    <3> QED BY <2>1, <3>1, <3>2, <1>1
  <2>2. CASE j = Len(w)
    <3>1. (IF j = 0 THEN a ELSE TokenEnd(w[j])) = z BY <2>2 DEF Chain
    <3>2. j # 0 => j \in 1..Len(w) BY <2>2
    <3>3. Append(w, t)[j+1] = t BY <2>2, <1>1
    <3> QED BY <2>2, <3>1, <3>2, <3>3, <1>1
  <2>3. CASE j = Len(w) + 1
    BY <2>3, <1>1
  <2> QED BY <2>1, <2>2, <2>3
<1> QED BY <1>1, <1>2

\* The first token starts at the beginning of the stream; without it the
\* stream starts at its end.
LEMMA ChainTail ==
    ASSUME NEW w \in Seq(TokenSet), NEW a, NEW z, Chain(w, a, z), w # <<>>
    PROVE  /\ w[1].at = a /\ w[1] \in TokenSet
           /\ Tail(w) \in Seq(TokenSet)
           /\ Chain(Tail(w), TokenEnd(w[1]), z)
           /\ \A j \in 1..Len(Tail(w)) : j + 1 \in 1..Len(w) /\ Tail(w)[j] = w[j+1]
<1>1. /\ Tail(w) \in Seq(TokenSet) /\ Len(Tail(w)) = Len(w) - 1
      /\ \A j \in 1..(Len(w) - 1) : Tail(w)[j] = w[j+1]
      /\ Len(w) \in Nat \ {0} /\ w[1] \in TokenSet
  BY HeadTailProperties, LenProperties
<1>2. w[1].at = a
  <2>1. 0 \in 0..Len(w) /\ 0 < Len(w) /\ 0 + 1 = 1 BY <1>1
  <2> QED BY <2>1 DEF Chain
<1>3. Chain(Tail(w), TokenEnd(w[1]), z)
  <2> SUFFICES ASSUME NEW j \in 0..(Len(w) - 1)
               PROVE  (IF j = 0 THEN TokenEnd(w[1]) ELSE TokenEnd(Tail(w)[j]))
                        = IF j < Len(w) - 1 THEN Tail(w)[j+1].at ELSE z
    BY <1>1 DEF Chain
  <2>1. j + 1 \in 0..Len(w) /\ j + 1 # 0 /\ (j < Len(w) - 1 => j + 1 \in 1..(Len(w) - 1))
        /\ (j # 0 => j \in 1..(Len(w) - 1)) /\ (j + 1 < Len(w) <=> j < Len(w) - 1)
    BY <1>1
  <2>2. TokenEnd(w[j+1]) = IF j + 1 < Len(w) THEN w[j+1+1].at ELSE z
    BY <2>1 DEF Chain
  <2>3. (IF j = 0 THEN TokenEnd(w[1]) ELSE TokenEnd(Tail(w)[j])) = TokenEnd(w[j+1])
    <3>1. CASE j = 0 BY <3>1
    <3>2. CASE j # 0 BY <3>2, <2>1, <1>1
    <3> QED BY <3>1, <3>2
  <2> QED BY <2>1, <2>2, <2>3, <1>1
<1> QED BY <1>1, <1>2, <1>3

\* Where the writer stands in the file, and where the next operation takes it.
LEMMA HandedFacts ==
    ASSUME TileInv, LengthsFit, pc \in {"send", "done"}, opi \in 1..(Len(ops) + 1)
    PROVE  /\ Handed \in Nat /\ Handed <= Len(data)
           /\ opi <= Len(ops) =>
                /\ ops[opi] \in OpSet /\ StandsFor(ops[opi]) /\ Handed = ops[opi].off
                /\ ops[opi].off + ops[opi].len
                     = IF opi + 1 > Len(ops) THEN Len(data) ELSE ops[opi + 1].off
<1> USE DEF TileInv, Scanning, Tiled
<1>1. CASE opi > Len(ops)
  BY <1>1 DEF Handed
<1>2. CASE opi <= Len(ops)
  <2>1. opi \in 1..Len(ops) BY <1>2
  <2>2. ops[opi] \in OpSet /\ StandsFor(ops[opi]) /\ Handed = ops[opi].off
    BY <2>1 DEF Handed
  <2>3. /\ ops[opi].off \in Nat /\ ops[opi].len \in Nat
        /\ ops[opi].off + ops[opi].len <= Len(data)
    BY <2>2 DEF OpSet, StandsFor
  <2>4. ops[opi].off + ops[opi].len
          = IF opi + 1 > Len(ops) THEN Len(data) ELSE ops[opi + 1].off
    <3>1. CASE opi = Len(ops)
      <4>1. ops # <<>> /\ EndOf(ops) = Len(data) BY <2>1
      <4> QED BY <3>1, <4>1 DEF EndOf
    <3>2. CASE opi < Len(ops)
      <4>1. opi + 1 \in 1..Len(ops) /\ opi + 1 # 1 /\ opi + 1 - 1 = opi BY <3>2, <2>1
      <4>2. ops[opi + 1].off = ops[opi].off + ops[opi].len BY <4>1 DEF Contiguous
      <4> QED BY <3>2, <4>2
    <3> QED BY <2>1, <3>1, <3>2
  <2>5. Len(data) \in Nat OBVIOUS
  <2>6. Handed \in Nat /\ Handed <= Len(data)
    BY <2>2, <2>3, <2>5
  <2> QED BY <2>2, <2>4, <2>6
<1> QED BY <1>1, <1>2

\* Flushing literal_buf extends the stream to Handed.
LEMMA FlushFacts ==
    ASSUME DeltaInv, LengthsFit, pc = "send"
    PROVE  /\ wire \o Flushed \in Seq(TokenSet)
           /\ ~whole => Chain(wire \o Flushed, Len(out), Handed)
           /\ \A j \in 1..Len(wire \o Flushed) : Carries((wire \o Flushed)[j])
<1>0. /\ TileInv /\ wire \in Seq(TokenSet) /\ buf \in Seq(Bytes) /\ opi \in 1..(Len(ops) + 1)
      /\ Held /\ \A j \in 1..Len(wire) : Carries(wire[j])
      /\ ~whole => Chain(wire, Len(out), Handed - Len(buf))
  BY DEF DeltaInv, StreamInv, InOrder
<1>1. Handed \in Nat /\ Handed <= Len(data) /\ Len(data) \in Nat
  BY <1>0, HandedFacts DEF TileInv, Scanning
<1>2. CASE buf = <<>>
  <2>1. Flushed = <<>> /\ Len(buf) = 0 BY <1>2 DEF Flushed
  <2>2. wire \o Flushed = wire BY <1>0, <2>1, ConcatEmptySeq
  <2>3. Handed - Len(buf) = Handed BY <1>1, <2>1
  <2> QED BY <1>0, <2>2, <2>3
<1>3. CASE buf # <<>>
  <2> DEFINE t == Token(Len(buf), buf, Handed - Len(buf))
  <2>1. Len(buf) \in Nat /\ Len(buf) > 0 /\ Len(buf) <= Handed
    BY <1>0, <1>3 DEF Held
  <2>2. Flushed = <<t>> BY <1>3 DEF Flushed
  <2>3. /\ t \in TokenSet /\ t.at = Handed - Len(buf) /\ t.n = Len(buf) /\ t.bytes = buf
    BY <1>0, <1>1, <2>1 DEF Token, TokenSet
  <2> HIDE DEF t
  <2>4. TokenEnd(t) = Handed
    BY <1>1, <2>1, <2>3 DEF TokenEnd
  <2>5. Carries(t)
    BY <1>0, <1>1, <2>1, <2>3, <2>4 DEF Carries, Held
  <2>6. wire \o Flushed = Append(wire, t)
    BY <1>0, <2>2, <2>3, AppendIsConcat
  <2>7. /\ Append(wire, t) \in Seq(TokenSet) /\ Len(Append(wire, t)) = Len(wire) + 1
        /\ \A j \in 1..Len(wire) : Append(wire, t)[j] = wire[j]
        /\ Append(wire, t)[Len(wire) + 1] = t
        /\ ~whole => Chain(Append(wire, t), Len(out), Handed)
    BY <1>0, <2>3, <2>4, ChainAppend, AppendProperties
  <2>8. \A j \in 1..Len(Append(wire, t)) : Carries(Append(wire, t)[j])
    BY <1>0, <2>5, <2>7
  <2> QED BY <2>6, <2>7, <2>8
<1> QED BY <1>2, <1>3

\* The stream is empty at the start.
LEMMA StreamInit == Init => StreamInv
<1> SUFFICES ASSUME Init PROVE StreamInv
  OBVIOUS
<1>1. TileInv BY TileInit
<1>2. data \in Seq(Bytes) /\ Len(data) \in Nat BY <1>1 DEF TileInv, Scanning
<1>3. Slice(data, 0, 0) = <<>> BY SubSeqEmpty DEF Slice
<1>4. Rebuilt /\ InOrder /\ out = <<>> /\ Len(out) <= Len(data)
  BY <1>2, <1>3 DEF Init, InOrder, Rebuilt
<1>5. opi \in 1..(Len(ops) + 1) /\ wire = <<>> /\ buf = <<>> /\ pc = "start" /\ ~whole
  BY DEF Init
<1>6. whole \in BOOLEAN /\ opi = 1 BY DEF Init
<1> QED BY <1>4, <1>5, <1>6 DEF StreamInv

\* No step changes what a token stands for.
LEMMA SameTokens ==
    ASSUME UNCHANGED <<data, basis, blen>>
    PROVE  /\ \A t : TokenEnd(t)' = TokenEnd(t)
           /\ \A t : Carries(t)' = Carries(t)
           /\ \A w, a, z : Chain(w, a, z)' = Chain(w, a, z)
<1>1. \A i : Block(i)' = Block(i)
  BY SameBlocks
<1>2. \A t : TokenEnd(t)' = TokenEnd(t)
  BY <1>1 DEF TokenEnd
<1>3. \A t : Carries(t)' = Carries(t)
  BY <1>1, <1>2 DEF Carries
<1>4. \A w, a, z : Chain(w, a, z)' = Chain(w, a, z)
  BY <1>2 DEF Chain
<1> QED BY <1>2, <1>3, <1>4

\* A token that starts at Handed can follow the flushed literal.
LEMMA PushFlushed ==
    ASSUME DeltaInv, LengthsFit, pc = "send", NEW t \in TokenSet, t.at = Handed, Carries(t)
    PROVE  /\ wire \o Flushed \o <<t>> \in Seq(TokenSet)
           /\ ~whole => Chain(wire \o Flushed \o <<t>>, Len(out), TokenEnd(t))
           /\ \A j \in 1..Len(wire \o Flushed \o <<t>>) :
                Carries((wire \o Flushed \o <<t>>)[j])
<1> DEFINE w == wire \o Flushed
<1>1. /\ w \in Seq(TokenSet) /\ (~whole => Chain(w, Len(out), Handed))
      /\ \A j \in 1..Len(w) : Carries(w[j])
  BY FlushFacts
<1> HIDE DEF w
<1>2. w \o <<t>> = Append(w, t)
  BY <1>1, AppendIsConcat
<1>3. /\ Append(w, t) \in Seq(TokenSet) /\ Len(Append(w, t)) = Len(w) + 1
      /\ \A j \in 1..Len(w) : Append(w, t)[j] = w[j]
      /\ Append(w, t)[Len(w) + 1] = t
  BY <1>1, AppendProperties
<1>4. \A j \in 1..Len(Append(w, t)) : Carries(Append(w, t)[j])
  BY <1>1, <1>3
<1>5. ~whole => Chain(Append(w, t), Len(out), TokenEnd(t))
  BY <1>1, ChainAppend
<1>6. /\ w \o <<t>> \in Seq(TokenSet)
      /\ ~whole => Chain(w \o <<t>>, Len(out), TokenEnd(t))
      /\ \A j \in 1..Len(w \o <<t>>) : Carries((w \o <<t>>)[j])
  BY <1>2, <1>3, <1>4, <1>5
<1> QED BY <1>6 DEF w

\* Reading a token extends the rebuilt file by the bytes the token carries.
LEMMA ReceiverStep == DeltaInv /\ LengthsFit /\ Receiver => StreamInv'
<1> SUFFICES ASSUME DeltaInv, LengthsFit, Receiver PROVE StreamInv'
  OBVIOUS
<1>0. /\ ~whole /\ wire # <<>> /\ wire' = Tail(wire)
      /\ UNCHANGED <<data, basis, blen, pc, offset, last, rc, ops, opi, buf>>
  BY DEF Receiver, RecvLiteral, RecvMatch, RecvEof, Reading
<1>1. /\ data \in Seq(Bytes) /\ Len(data) \in Nat
      /\ opi \in 1..(Len(ops) + 1) /\ buf \in Seq(Bytes) /\ wire \in Seq(TokenSet)
      /\ out \in Seq(Bytes) /\ whole \in BOOLEAN /\ Len(out) <= Len(data) /\ Rebuilt
      /\ \A j \in 1..Len(wire) : Carries(wire[j])
  BY DEF DeltaInv, StreamInv, TileInv, Scanning
<1>2. pc \in {"send", "done"} /\ Held /\ Chain(wire, Len(out), Handed - Len(buf))
  BY <1>0 DEF DeltaInv, StreamInv, TileInv, Scanning, InOrder
<1> DEFINE t == wire[1]
           z == Handed - Len(buf)
<1>3. /\ t.at = Len(out) /\ t \in TokenSet /\ Tail(wire) \in Seq(TokenSet)
      /\ Chain(Tail(wire), TokenEnd(t), z)
      /\ \A j \in 1..Len(Tail(wire)) : j + 1 \in 1..Len(wire) /\ Tail(wire)[j] = wire[j+1]
  BY <1>0, <1>1, <1>2, ChainTail
<1>4. Carries(t)
  BY <1>0, <1>1
<1>5. \A j \in 1..Len(wire') : Carries(wire[j])'
  BY <1>0, <1>1, <1>3, SameTokens, ZenonT(40) DEF Carries
<1>6. Held' /\ (Handed - Len(buf))' = z
  BY <1>0, <1>2 DEF Held, Handed
<1> HIDE DEF t, z
<1>7. out = Slice(data, 0, Len(out)) /\ Len(out) \in Nat
  BY <1>1 DEF Rebuilt
\* A literal or a match.
<1>8. ASSUME TokenEnd(t) >= Len(out), out' = out \o Slice(data, Len(out), TokenEnd(t)),
             whole' = whole
      PROVE  StreamInv'
  <2>1. TokenEnd(t) \in Nat /\ TokenEnd(t) <= Len(data) BY <1>4 DEF Carries
  <2>2. Slice(data, 0, Len(out)) \o Slice(data, Len(out), TokenEnd(t)) = Slice(data, 0, TokenEnd(t))
    <3>1. /\ data \in Seq(Bytes) /\ 0 \in Nat /\ Len(out) \in Nat /\ TokenEnd(t) \in Nat
          /\ 0 <= Len(out) /\ Len(out) <= TokenEnd(t) /\ TokenEnd(t) <= Len(data)
      BY <1>1, <1>7, <1>8, <2>1
    <3> QED BY ONLY <3>1, SliceJoin
  <2>3. out' = Slice(data, 0, TokenEnd(t)) BY <1>7, <1>8, <2>2
  <2>4. out' \in Seq(Bytes) /\ Len(out') = TokenEnd(t)
    BY <1>1, <2>1, <2>3, SliceFacts
  <2>5. Rebuilt' BY <1>0, <1>8, <2>3, <2>4 DEF Rebuilt
  <2>6. InOrder'
    <3>1. Chain(wire', Len(out'), z) BY <1>0, <1>3, <2>4
    <3> QED BY <1>0, <1>6, <3>1, SameTokens DEF InOrder, Chain
  <2> QED BY <1>0, <1>1, <1>2, <1>3, <1>5, <1>6, <1>8, <2>1, <2>4, <2>5, <2>6 DEF StreamInv
<1>9. CASE RecvLiteral
  <2>1. t.n > 0 /\ out' = out \o t.bytes /\ whole' = whole BY <1>9 DEF RecvLiteral, t
  <2>2. t.bytes = Slice(data, Len(out), TokenEnd(t)) BY <1>3, <1>4, <2>1 DEF Carries
  <2>3. TokenEnd(t) = Len(out) + t.n /\ t.n \in Int BY <1>3, <2>1 DEF TokenEnd, TokenSet
  <2>4. TokenEnd(t) >= Len(out) BY <1>7, <2>1, <2>3
  <2> QED BY <1>8, <2>1, <2>2, <2>4
<1>10. CASE RecvMatch
  <2>1. t.n < 0 /\ out' = out \o Block(-t.n - 1) /\ whole' = whole BY <1>10 DEF RecvMatch, t
  <2>2. Block(-t.n - 1) = Slice(data, Len(out), TokenEnd(t)) BY <1>3, <1>4, <2>1 DEF Carries
  <2>3. TokenEnd(t) = Len(out) + Len(Block(-t.n - 1)) /\ TokenEnd(t) \in Nat
    BY <1>3, <1>4, <2>1 DEF TokenEnd, Carries
  <2>4. Len(Slice(data, Len(out), TokenEnd(t))) \in Nat
    <3>1. Len(out) + 1 \in Int /\ TokenEnd(t) \in Int /\ Len(out) + 1 >= 1 /\ TokenEnd(t) <= Len(data)
      BY <1>4, <1>7 DEF Carries
    <3>2. \A i \in (Len(out) + 1)..TokenEnd(t) : data[i] \in Bytes
      BY <1>1, <3>1
    <3>3. SubSeq(data, Len(out) + 1, TokenEnd(t)) \in Seq(Bytes)
      BY <3>1, <3>2, SubSeqProperties
    <3> QED BY <3>3 DEF Slice
  <2>5. TokenEnd(t) >= Len(out)
    BY <1>7, <2>2, <2>3, <2>4
  <2> QED BY <1>8, <2>1, <2>2, <2>5
<1>11. CASE RecvEof
  <2>1. t.n = 0 /\ out' = out /\ whole' = TRUE BY <1>11 DEF RecvEof, t
  <2>2. Len(out) = Len(data) BY <1>3, <1>4, <2>1 DEF Carries
  <2>3. out = data BY <1>1, <1>7, <2>2, SubSeqFull DEF Slice
  <2>4. Rebuilt' BY <1>0, <1>7, <2>1, <2>3 DEF Rebuilt
  <2>5. InOrder' BY <2>1 DEF InOrder
  <2> QED BY <1>0, <1>1, <1>2, <1>3, <1>5, <1>6, <2>1, <2>4, <2>5 DEF StreamInv
<1> QED BY <1>9, <1>10, <1>11 DEF Receiver

\* Every step of writer and reader keeps the stream in order.
LEMMA StreamStep == DeltaInv /\ LengthsFit /\ [Next]_vars => StreamInv'
<1> SUFFICES ASSUME DeltaInv, LengthsFit, [Next]_vars PROVE StreamInv'
  OBVIOUS
<1> USE DeltaAssumption
<1>0. UNCHANGED <<data, basis, blen>> /\ LengthsFit'
  BY SameFiles DEF LengthsFit
<1>1. TileInv /\ TileInv' /\ StreamInv
  BY TileStep DEF DeltaInv
<1>2. /\ data \in Seq(Bytes) /\ Len(data) \in Nat
      /\ opi \in 1..(Len(ops) + 1) /\ buf \in Seq(Bytes) /\ wire \in Seq(TokenSet)
      /\ out \in Seq(Bytes) /\ whole \in BOOLEAN /\ Len(out) <= Len(data) /\ Rebuilt /\ InOrder
      /\ \A j \in 1..Len(wire) : Carries(wire[j])
      /\ ops \in Seq(OpSet) /\ pc \in {"start", "scan", "tail", "send", "done"}
  BY <1>1 DEF StreamInv, TileInv, Scanning
\* The search does not touch the stream.
<1>3. ASSUME pc \in {"start", "scan", "tail"}, UNCHANGED <<opi, buf, wire, out, whole>>,
             pc' \in {"scan", "tail", "send"}
      PROVE  StreamInv'
  <2>1. opi = 1 /\ buf = <<>> /\ wire = <<>> /\ out = <<>> /\ ~whole
    BY <1>1, <1>3 DEF StreamInv
  <2>2. ops' \in Seq(OpSet) BY <1>1 DEF TileInv, Scanning
  <2>3. pc' = "send" => Handed' = 0
    <3>1. CASE ops' = <<>> /\ pc' = "send"
      <4>1. last' = 0 /\ last' = Len(data) BY <1>0, <1>1, <3>1 DEF TileInv, Tiled, EndOf, Scanning
      <4>2. opi' > Len(ops') BY <2>1, <1>3, <3>1
      <4> QED BY <1>0, <4>1, <4>2 DEF Handed
    <3>2. CASE ops' # <<>> /\ pc' = "send"
      <4>1. 1 \in 1..Len(ops') BY <2>2, <3>2
      <4>2. ops'[1].off = 0 BY <1>0, <1>1, <4>1 DEF TileInv, Tiled, Contiguous
      <4>3. opi' = 1 /\ ~(1 > Len(ops')) BY <2>1, <1>3, <4>1
      <4> QED BY <4>2, <4>3 DEF Handed
    <3> QED BY <3>1, <3>2
  <2>4. Slice(data, 0, 0) = <<>> BY SubSeqEmpty DEF Slice
  <2>5. pc' = "send" => Held'
    BY <1>0, <1>2, <1>3, <2>1, <2>3, <2>4 DEF Held
  <2>6. InOrder'
    BY <1>0, <1>3, <2>1, <2>3 DEF InOrder, Chain
  <2>7. Rebuilt' /\ Len(out)' <= Len(data)'
    BY <1>0, <1>2, <1>3 DEF Rebuilt
  <2>8. opi' \in 1..(Len(ops') + 1)
    BY <2>1, <2>2, <1>3
  <2> QED BY <1>2, <1>3, <2>1, <2>5, <2>6, <2>7, <2>8 DEF StreamInv
<1>4. CASE SendWhole \/ StartScan \/ Hit \/ Slide \/ Stop \/ Trailing
  BY <1>3, <1>4 DEF SendWhole, StartScan, Hit, Slide, Stop, Trailing, SentLater
\* A step of the writer: the receiver's side does not change.
<1>5. ASSUME pc = "send", pc' \in {"send", "done"}, UNCHANGED <<ops, out, whole>>,
             opi' \in 1..(Len(ops) + 1), buf' \in Seq(Bytes), wire' \in Seq(TokenSet),
             Held', \A j \in 1..Len(wire') : Carries(wire'[j]),
             ~whole => Chain(wire', Len(out), Handed' - Len(buf'))
      PROVE  StreamInv'
  <2>1. \A j \in 1..Len(wire') : Carries(wire[j])'
    BY <1>0, <1>5, SameTokens DEF Carries
  <2>2. InOrder'
    BY <1>0, <1>5, SameTokens DEF InOrder, Chain
  <2>3. Rebuilt' /\ Len(out)' <= Len(data)'
    BY <1>0, <1>2, <1>5 DEF Rebuilt
  <2> QED BY <1>2, <1>5, <2>1, <2>2, <2>3 DEF StreamInv
<1>6. ASSUME pc = "send"
      PROVE  /\ Held /\ Handed \in Nat /\ Handed <= Len(data)
             /\ Len(buf) \in Nat /\ Len(buf) <= Handed
             /\ buf = Slice(data, Handed - Len(buf), Handed)
             /\ opi <= Len(ops) =>
                  /\ ops[opi] \in OpSet /\ StandsFor(ops[opi]) /\ Handed = ops[opi].off
                  /\ ops[opi].off + ops[opi].len
                       = IF opi + 1 > Len(ops) THEN Len(data) ELSE ops[opi + 1].off
             /\ ~whole => Chain(wire, Len(out), Handed - Len(buf))
  <2>1. Held BY <1>1, <1>6 DEF StreamInv
  <2>2. /\ Handed \in Nat /\ Handed <= Len(data)
        /\ opi <= Len(ops) =>
             /\ ops[opi] \in OpSet /\ StandsFor(ops[opi]) /\ Handed = ops[opi].off
             /\ ops[opi].off + ops[opi].len
                  = IF opi + 1 > Len(ops) THEN Len(data) ELSE ops[opi + 1].off
    BY <1>1, <1>2, <1>6, HandedFacts
  <2>3. Len(buf) \in Nat /\ Len(buf) <= Handed /\ buf = Slice(data, Handed - Len(buf), Handed)
    BY <1>2, <2>1 DEF Held
  <2>4. ~whole => Chain(wire, Len(out), Handed - Len(buf))
    BY <1>2, <1>6 DEF InOrder
  <2> QED BY <2>1, <2>2, <2>3, <2>4
<1>7. CASE SendLiteral
  <2>1. /\ pc = "send" /\ pc' = "send" /\ opi <= Len(ops) /\ opi' = opi + 1
        /\ UNCHANGED <<ops, out, whole, wire>>
        /\ buf' = buf \o Slice(data, ops[opi].off, ops[opi].off + ops[opi].len)
    BY <1>7 DEF SendLiteral, Writing
  <2> DEFINE h == ops[opi].off + ops[opi].len
  <2>2. Handed = ops[opi].off /\ h \in Nat /\ Handed <= h /\ h <= Len(data)
    BY <1>6, <2>1, SMTT(40) DEF OpSet, StandsFor
  <2>3. Handed' = h
    BY <1>0, <1>6, <2>1 DEF Handed
  <2> HIDE DEF h
  <2> DEFINE a == Handed - Len(buf)
  <2>4. buf' = Slice(data, a, Handed) \o Slice(data, Handed, h)
    BY <1>6, <2>1, <2>2 DEF h
  <2>5. a \in Nat /\ a <= Handed /\ Handed \in Nat
    BY <1>6, <2>1
  <2> HIDE DEF a
  <2>6. buf' = Slice(data, a, h)
    BY <1>2, <2>2, <2>4, <2>5, SliceJoin
  <2>7. buf' \in Seq(Bytes) /\ Len(buf') = h - a
    <3>1. a <= h BY <2>2, <2>5
    <3> QED BY <1>2, <2>2, <2>5, <2>6, <3>1, SliceFacts, ZenonT(40)
  <2>8. h - Len(buf') = a
    BY <2>2, <2>5, <2>7
  <2>9. Held'
    BY <1>0, <2>2, <2>3, <2>5, <2>6, <2>7, <2>8 DEF Held
  <2>10. opi' \in 1..(Len(ops) + 1) BY <1>2, <2>1
  <2>11. ~whole => Chain(wire', Len(out), Handed' - Len(buf'))
    BY <1>6, <2>1, <2>3, <2>8 DEF a
  <2>12. \A j \in 1..Len(wire') : Carries(wire'[j])
    BY <1>2, <2>1
  <2> QED BY <1>2, <1>5, <2>1, <2>7, <2>9, <2>10, <2>11, <2>12
<1>8. CASE WriteChunk
  <2> DEFINE t == Token(ChunkSize, SubSeq(buf, 1, ChunkSize), Handed - Len(buf))
             a == Handed - Len(buf)
  <2>1. /\ pc = "send" /\ pc' = "send" /\ opi' = opi /\ UNCHANGED <<ops, out, whole>>
        /\ Len(buf) >= ChunkSize /\ wire' = Append(wire, t)
        /\ buf' = SubSeq(buf, ChunkSize + 1, Len(buf))
    BY <1>8 DEF WriteChunk, Writing
  <2>2. Handed' = Handed
    BY <1>0, <2>1 DEF Handed
  <2>3. /\ a \in Nat /\ Handed - a = Len(buf) /\ a + ChunkSize <= Handed /\ a + ChunkSize \in Nat
        /\ Handed \in Nat /\ Handed <= Len(data) /\ ChunkSize \in Nat /\ 0 < ChunkSize
        /\ a <= a + ChunkSize /\ ChunkSize <= Handed - a
        /\ buf = Slice(data, a, Handed)
        /\ t = Token(ChunkSize, SubSeq(buf, 1, ChunkSize), a)
        /\ ~whole => Chain(wire, Len(out), a)
    BY <1>6, <2>1
  <2> HIDE DEF a, t
  <2>4. /\ SubSeq(buf, 1, ChunkSize) = Slice(data, a, a + ChunkSize)
        /\ buf' = Slice(data, a + ChunkSize, Handed)
    <3>2. /\ SubSeq(Slice(data, a, Handed), 1, ChunkSize) = Slice(data, a, a + ChunkSize)
          /\ SubSeq(Slice(data, a, Handed), ChunkSize + 1, Handed - a)
               = Slice(data, a + ChunkSize, Handed)
      <4>1. /\ data \in Seq(Bytes) /\ a \in Nat /\ Handed \in Nat /\ Handed <= Len(data)
            /\ ChunkSize \in Nat /\ 0 < ChunkSize /\ ChunkSize <= Handed - a
        BY <1>2, <2>3
      <4> QED BY ONLY <4>1, SliceSplit, ZenonT(40)
    <3> QED BY <2>1, <2>3, <3>2
  <2> DEFINE m == a + ChunkSize
  <2>m. m \in Nat /\ a <= m /\ m <= Handed /\ m <= Len(data)
    BY <1>2, <2>3
  <2>5. /\ SubSeq(buf, 1, ChunkSize) \in Seq(Bytes) /\ buf' \in Seq(Bytes)
        /\ Len(buf') = Handed - m
    <3> HIDE DEF m
    <3>1. Slice(data, a, m) \in Seq(Bytes)
      BY <1>2, <2>3, <2>m, SliceFacts
    <3>2. /\ Slice(data, m, Handed) \in Seq(Bytes)
          /\ Len(Slice(data, m, Handed)) = Handed - m
      BY <1>2, <2>3, <2>m, SliceFacts
    <3> QED BY <2>4, <3>1, <3>2 DEF m
  <2>6. /\ t \in TokenSet /\ t.at = a /\ t.n = ChunkSize
        /\ t.bytes = Slice(data, a, a + ChunkSize)
    BY <2>3, <2>4, <2>5, SMTT(40) DEF Token, TokenSet
  <2>7. TokenEnd(t) = a + ChunkSize BY <2>3, <2>6 DEF TokenEnd
  <2>8. Carries(t)
    BY <1>2, <2>3, <2>6, <2>7, <2>m DEF Carries
  <2>9. Handed' - Len(buf') = a + ChunkSize
    BY <2>2, <2>3, <2>5
  <2>10. /\ wire' \in Seq(TokenSet)
         /\ ~whole => Chain(wire', Len(out), a + ChunkSize)
         /\ \A j \in 1..Len(wire') : Carries(wire'[j])
    <3>1. wire' \in Seq(TokenSet) BY <1>2, <2>1, <2>6
    <3>2. \A j \in 1..Len(wire') : Carries(wire'[j])
      <4>1. \A j \in 1..Len(wire) : wire'[j] = wire[j]
        BY <1>2, <2>1, <2>6
      <4>2. wire'[Len(wire) + 1] = t /\ Len(wire') = Len(wire) + 1
        BY <1>2, <2>1, <2>6
      <4>3. Len(wire) \in Nat BY <1>2
      <4>4. \A j \in 1..(Len(wire) + 1) : j \in 1..Len(wire) \/ j = Len(wire) + 1
        BY <4>3
      <4>5. \A j \in 1..Len(wire) : Carries(wire[j]) BY <1>2
      <4> QED BY <2>8, <4>1, <4>2, <4>4, <4>5
    <3>3. ~whole => Chain(wire', Len(out), a + ChunkSize)
      BY <1>2, <2>1, <2>3, <2>6, <2>7, ChainAppend
    <3> QED BY <3>1, <3>2, <3>3
  <2>11. Held'
    <3>1. Handed' = Handed /\ Handed' \in Nat /\ Handed' <= Len(data') BY <1>0, <2>2, <2>3
    <3>2. Len(buf') <= Handed' BY <2>3, <2>5, <2>m, <3>1
    <3>3. buf' = Slice(data', Handed' - Len(buf'), Handed') BY <1>0, <2>4, <2>9, <3>1
    <3> QED BY <3>1, <3>2, <3>3 DEF Held
  <2> QED BY <1>2, <1>5, <2>1, <2>5, <2>9, <2>10, <2>11
<1>9. CASE SendMatch
  <2> DEFINE t == Token(-(ops[opi].idx + 1), <<>>, ops[opi].off)
             h == ops[opi].off + ops[opi].len
  <2>1. /\ pc = "send" /\ pc' = "send" /\ opi <= Len(ops) /\ opi' = opi + 1
        /\ UNCHANGED <<ops, out, whole>> /\ buf' = <<>>
        /\ wire' = wire \o Flushed \o <<t>> /\ ops[opi].k = "match"
    BY <1>9 DEF SendMatch, Writing
  <2>2. /\ Handed = ops[opi].off /\ h \in Nat /\ Handed <= h /\ h <= Len(data)
        /\ ops[opi].idx \in Nat /\ Block(ops[opi].idx) = Slice(data, ops[opi].off, h)
    BY <1>6, <2>1, SMTT(40) DEF OpSet, StandsFor
  <2>3. Handed' = h
    BY <1>0, <1>6, <2>1 DEF Handed
  <2>4. t \in TokenSet /\ t.at = Handed /\ t.n < 0 /\ -t.n - 1 = ops[opi].idx
    <3>1. /\ -(ops[opi].idx + 1) \in Int /\ -(ops[opi].idx + 1) < 0
          /\ -(-(ops[opi].idx + 1)) - 1 = ops[opi].idx
      BY <2>2
    <3>2. /\ t.n = -(ops[opi].idx + 1) /\ t.bytes = <<>> /\ t.at = Handed
          /\ t = [n |-> -(ops[opi].idx + 1), bytes |-> <<>>, at |-> Handed]
      BY <2>2 DEF Token
    <3>3. Handed \in Nat /\ <<>> \in Seq(Bytes) BY <1>6, <2>1
    <3>4. t \in TokenSet BY <3>1, <3>2, <3>3 DEF TokenSet
    <3> HIDE DEF t
    <3> QED BY <3>1, <3>2, <3>4
  <2> HIDE DEF t, h
  <2>5. Len(Slice(data, Handed, h)) = h - Handed
    <3>1. data \in Seq(Bytes) /\ Handed \in Nat BY <1>2, <1>6, <2>1
    <3>2. h \in Nat /\ Handed <= h /\ h <= Len(data) BY <2>2
    <3> QED BY ONLY <3>1, <3>2, SliceFacts
  <2>6. TokenEnd(t) = h
    <3>1. Len(Block(-t.n - 1)) = h - Handed BY <2>2, <2>4, <2>5
    <3>2. Handed + (h - Handed) = h BY <1>6, <2>1, <2>2
    <3> QED BY <2>4, <3>1, <3>2 DEF TokenEnd
  <2>7. Carries(t)
    <3>1. t.n \in Int BY <2>4 DEF TokenSet
    <3>2. ~(t.n > 0) /\ ~(t.n = 0) BY <2>4, <3>1
    <3>3. Block(-t.n - 1) = Slice(data, t.at, TokenEnd(t)) BY <2>2, <2>4, <2>6
    <3> QED BY <2>2, <2>6, <3>2, <3>3 DEF Carries
  <2>8. /\ wire' \in Seq(TokenSet)
        /\ ~whole => Chain(wire', Len(out), h)
        /\ \A j \in 1..Len(wire') : Carries(wire'[j])
    BY <1>2, <2>1, <2>4, <2>6, <2>7, PushFlushed
  <2>9. Held' /\ Handed' - Len(buf') = h
    <3>1. Len(buf') = 0 /\ h - 0 = h BY <2>1, <2>2
    <3>2. Slice(data, h, h) = <<>> BY <2>2, SubSeqEmpty DEF Slice
    <3> QED BY <1>0, <2>1, <2>2, <2>3, <3>1, <3>2 DEF Held
  <2>10. opi' \in 1..(Len(ops) + 1) BY <1>2, <2>1
  <2>11. buf' \in Seq(Bytes) BY <2>1
  <2> QED BY <1>5, <2>1, <2>8, <2>9, <2>10, <2>11
<1>10. CASE SendEof
  <2> DEFINE t == Token(0, <<>>, Len(data))
  <2>1. /\ pc = "send" /\ pc' = "done" /\ opi > Len(ops) /\ opi' = opi
        /\ UNCHANGED <<ops, out, whole>> /\ buf' = <<>>
        /\ wire' = wire \o Flushed \o <<t>>
    BY <1>10 DEF SendEof, Writing
  <2>2. Handed = Len(data) /\ Handed' = Len(data)
    BY <1>0, <2>1 DEF Handed
  <2>3. t \in TokenSet /\ t.at = Handed /\ t.n = 0
    BY <1>2, <2>2 DEF Token, TokenSet
  <2> HIDE DEF t
  <2>4. TokenEnd(t) = Len(data)
    BY <1>2, <2>2, <2>3 DEF TokenEnd
  <2>5. Carries(t)
    BY <1>2, <2>2, <2>3, <2>4 DEF Carries
  <2>6. /\ wire' \in Seq(TokenSet)
        /\ ~whole => Chain(wire', Len(out), Len(data))
        /\ \A j \in 1..Len(wire') : Carries(wire'[j])
    BY <1>2, <2>1, <2>3, <2>4, <2>5, PushFlushed
  <2>7. Held' /\ Handed' - Len(buf') = Len(data)
    <3>1. Len(buf') = 0 /\ Len(data) - 0 = Len(data) BY <1>2, <2>1
    <3>2. Slice(data, Len(data), Len(data)) = <<>> BY <1>2, SubSeqEmpty DEF Slice
    <3> QED BY <1>0, <1>2, <2>1, <2>2, <3>1, <3>2 DEF Held
  <2>8. opi' \in 1..(Len(ops) + 1) /\ buf' \in Seq(Bytes) BY <1>2, <2>1
  <2> QED BY <1>5, <2>1, <2>6, <2>7, <2>8
<1>11. CASE Receiver
  BY <1>11, ReceiverStep
<1>12. CASE Finished \/ UNCHANGED vars
  <2>1. UNCHANGED vars BY <1>12 DEF Finished
  <2>2. Held' = Held /\ InOrder' = InOrder /\ Rebuilt' = Rebuilt
    BY <1>0, <2>1, SameTokens DEF vars, Held, Handed, InOrder, Rebuilt, Chain
  <2>3. \A j \in 1..Len(wire') : Carries(wire[j])'
    BY <1>0, <1>2, <2>1, SameTokens DEF vars, Carries
  <2>4. UNCHANGED <<data, pc, ops, opi, buf, wire, out, whole>> BY <2>1 DEF vars
  <2> QED BY <1>1, <2>2, <2>3, <2>4 DEF StreamInv
<1> QED BY <1>4, <1>7, <1>8, <1>9, <1>10, <1>11, <1>12 DEF Next, Sender

\* Search and stream together.
LEMMA DeltaStep == DeltaInv /\ [Next]_vars => DeltaInv'
<1>1. [Next]_vars => (LengthsFit' <=> LengthsFit) BY SameFiles DEF LengthsFit
<1> QED BY <1>1, TileStep, StreamStep DEF DeltaInv

\* At every moment the receiver has rebuilt a prefix of the sender's file,
\* and once it has read the end token, the file itself: for all files shorter
\* than what a literal's u32 counts, all block sizes and chunk sizes, and
\* whatever the rolling checksum is (apply_delta).
THEOREM RebuiltHolds == Spec => []Rebuilt
<1>1. Init => DeltaInv BY TileInit, StreamInit DEF DeltaInv
<1>2. DeltaInv => Rebuilt BY DEF DeltaInv, StreamInv, Rebuilt
<1> QED BY <1>1, <1>2, DeltaStep, PTL DEF Spec

\* No byte is lost, duplicated or reordered between the sender's file, the
\* literal buffer, the tokens in flight and the rebuilt file (TokenWriter), when
\* the file is shorter than what a literal's u32 counts.
THEOREM InOrderHolds == Spec => []InOrder
<1>1. Init => DeltaInv BY TileInit, StreamInit DEF DeltaInv
<1>2. DeltaInv => InOrder BY DEF DeltaInv, StreamInv, InOrder
<1> QED BY <1>1, <1>2, DeltaStep, PTL DEF Spec

-----------------------------------------------------------------------------
(* Induction, through least elements.                                      *)

\* A nonempty set of naturals has a least element.
LEMMA LeastNatural ==
    ASSUME NEW T \in SUBSET Nat, T # {}
    PROVE  \E x \in T : \A y \in T : x <= y
<1>1. IsWellFoundedOn(OpToRel(<, Nat), Nat)
  BY NatLessThanWellFounded
<1>2. PICK x \in T : \A y \in T : ~ (<<y, x>> \in OpToRel(<, Nat))
  BY <1>1, WFMin
<1>3. ASSUME NEW y \in T PROVE x <= y
  <2>1. ~(y < x)
    BY <1>2, y \in Nat, x \in Nat, Zenon DEF OpToRel
  <2> QED BY <2>1
<1> QED BY <1>3

\* Induction, for a set in place of a predicate.
LEMMA SetInduction ==
    ASSUME NEW S, 0 \in S, \A n \in Nat : n \in S => n + 1 \in S
    PROVE  \A n \in Nat : n \in S
<1> SUFFICES ASSUME Nat \ S # {} PROVE FALSE OBVIOUS
<1>1. PICK x \in Nat \ S : \A y \in Nat \ S : x <= y BY LeastNatural
<1>2. x # 0 /\ x - 1 \in Nat OBVIOUS
<1>3. x - 1 \in S BY <1>1, <1>2
<1> QED BY <1>2, <1>3

\* What checksum1 holds after byte i, in terms of what it held before.
AccAt(g, b, i) ==
    IF i = 0 \/ (i < Unrolled(b) /\ i % 4 # 0) THEN NoSum
    ELSE IF i <= Unrolled(b) THEN TakeFour(g[i-4], b, i)
    ELSE TakeOne(g[i-1], b, i)

\* The first loop stops at a multiple of four.
LEMMA UnrolledFacts ==
    ASSUME NEW S, NEW b \in Seq(S)
    PROVE  \E k \in Nat : Unrolled(b) = 4 * k
<1>1. Len(b) \in Nat OBVIOUS
<1>2. LargerOf(Len(b) - 4, 0) \in Nat BY <1>1 DEF LargerOf
<1>3. (LargerOf(Len(b) - 4, 0) + 3) \div 4 \in Nat BY <1>2
<1> QED BY <1>3 DEF Unrolled

\* Such a function exists for every sequence: induction on its domain.
LEMMA AccExists ==
    ASSUME NEW S, NEW b \in Seq(S), NEW n \in Nat
    PROVE  \E g : g = [i \in 0..n |-> AccAt(g, b, i)]
<1> DEFINE T == {m \in Nat : \E g : g = [i \in 0..m |-> AccAt(g, b, i)]}
<1>0. PICK k \in Nat : Unrolled(b) = 4 * k BY UnrolledFacts
<1>1. 0 \in T
  <2> DEFINE g == [i \in 0..0 |-> NoSum]
  <2>1. g = [i \in 0..0 |-> AccAt(g, b, i)]
    <3>1. \A i \in 0..0 : AccAt(g, b, i) = NoSum BY DEF AccAt
    <3> QED BY <3>1
  <2> QED BY <2>1
<1>2. ASSUME NEW m \in Nat, m \in T PROVE m + 1 \in T
  <2>1. PICK g : g = [i \in 0..m |-> AccAt(g, b, i)] BY <1>2
  <2> DEFINE v == AccAt(g, b, m + 1)
             h == [i \in 0..(m + 1) |-> IF i <= m THEN g[i] ELSE v]
  <2>2. \A i \in 0..m : g[i] = AccAt(g, b, i) BY <2>1
  <2> HIDE DEF v
  <2>3. \A i \in 0..m : h[i] = g[i] OBVIOUS
  <2>3a. h[m + 1] = v OBVIOUS
  <2> HIDE DEF h
  <2>4. ASSUME NEW i \in 0..(m + 1) PROVE AccAt(h, b, i) = AccAt(g, b, i)
    <3>1. CASE i = 0 \/ (i < Unrolled(b) /\ i % 4 # 0) BY <3>1 DEF AccAt
    <3>2. CASE ~(i = 0 \/ (i < Unrolled(b) /\ i % 4 # 0)) /\ i <= Unrolled(b)
      <4>1. i - 4 \in 0..m BY <1>0, <3>2
      <4>2. h[i - 4] = g[i - 4] BY <2>3, <4>1
      <4> QED BY <3>2, <4>2 DEF AccAt
    <3>3. CASE ~(i = 0 \/ (i < Unrolled(b) /\ i % 4 # 0)) /\ ~(i <= Unrolled(b))
      <4>1. i - 1 \in 0..m BY <3>3
      <4>2. h[i - 1] = g[i - 1] BY <2>3, <4>1
      <4> QED BY <3>3, <4>2 DEF AccAt
    <3> QED BY <3>1, <3>2, <3>3
  <2>5. ASSUME NEW i \in 0..(m + 1) PROVE h[i] = AccAt(h, b, i)
    <3>1. CASE i \in 0..m BY <2>2, <2>3, <2>4, <3>1
    <3>2. CASE i = m + 1 BY <2>3a, <2>4, <3>2 DEF v
    <3> QED BY <3>1, <3>2
  <2>6. h = [i \in 0..(m + 1) |-> h[i]] BY DEF h
  <2>7. h = [i \in 0..(m + 1) |-> AccAt(h, b, i)] BY <2>5, <2>6
  <2> QED BY <2>7
<1>3. \A m \in Nat : m \in T
  <2> HIDE DEF T
  <2> QED BY <1>1, <1>2, SetInduction
<1> QED BY <1>3

\* checksum1 is the last value of such a function.
LEMMA ChecksumAcc ==
    ASSUME NEW S, NEW b \in Seq(S)
    PROVE  \E g : g = [i \in 0..Len(b) |-> AccAt(g, b, i)] /\ checksum1(b) = g[Len(b)]
<1> DEFINE t == CHOOSE g : g = [i \in 0..Len(b) |-> AccAt(g, b, i)]
<1>1. \E g : g = [i \in 0..Len(b) |-> AccAt(g, b, i)] BY AccExists, Len(b) \in Nat
<1>2. t = [i \in 0..Len(b) |-> AccAt(t, b, i)] BY <1>1, Zenon
<1>3. checksum1(b) = t[Len(b)] BY Zenon DEF checksum1, AccAt
<1> HIDE DEF t
<1> QED BY <1>2, <1>3

-----------------------------------------------------------------------------
(* Congruence.                                                             *)

\* Equal up to a multiple of HalfWord.
Same(x, y) == \E q \in Int : x = y + q * HalfWord

\* Half a word has at least one value.
LEMMA HalfWordPositive == HalfWord \in Nat \ {0}
  BY DeltaAssumption

\* A witness of congruence.
LEMMA SameIntro ==
    ASSUME NEW x, NEW y, NEW q \in Int, x = y + q * HalfWord
    PROVE  Same(x, y)
  BY Zenon DEF Same

\* Wrapping a 32-bit word does not change its lower half.
LEMMA WrapSame ==
    ASSUME NEW x \in Int
    PROVE  Wrap(x) \in Int /\ Same(Wrap(x), x)
<1> USE HalfWordPositive
<1>1. HalfWord * HalfWord \in Nat \ {0} OBVIOUS
<1>2. PICK m \in Nat \ {0} : m = HalfWord * HalfWord BY <1>1
<1>3. x % m \in Int /\ x \div m \in Int /\ x = m * (x \div m) + (x % m) BY DivMod
<1>4. PICK d \in Int : d = x \div m BY <1>3
<1>5. m * d = (HalfWord * d) * HalfWord BY <1>2
<1>6. x % m = x + (-(HalfWord * d)) * HalfWord BY <1>3, <1>4, <1>5
<1>7. -(HalfWord * d) \in Int OBVIOUS
<1>8. Same(x % m, x) BY <1>6, <1>7, SameIntro
<1> QED BY <1>2, <1>3, <1>8 DEF Wrap

\* Nor does taking that half.
LEMMA HalfSame ==
    ASSUME NEW x \in Int
    PROVE  x % HalfWord \in Int /\ Same(x % HalfWord, x)
<1> USE HalfWordPositive
<1>1. x % HalfWord \in Int /\ x \div HalfWord \in Int
      /\ x = HalfWord * (x \div HalfWord) + (x % HalfWord)
  BY DivMod
<1>2. PICK d \in Int : d = x \div HalfWord BY <1>1
<1>3. x % HalfWord = x + (-d) * HalfWord BY <1>1, <1>2
<1>4. -d \in Int OBVIOUS
<1> QED BY <1>1, <1>3, <1>4, SameIntro

\* Congruence goes with sums,
LEMMA SameSum ==
    ASSUME NEW x \in Int, NEW y \in Int, NEW u \in Int, NEW v \in Int, Same(x, y), Same(u, v)
    PROVE  Same(x + u, y + v)
<1> USE HalfWordPositive
<1>1. PICK q \in Int : x = y + q * HalfWord BY DEF Same
<1>2. PICK r \in Int : u = v + r * HalfWord BY DEF Same
<1>3. x + u = (y + v) + (q + r) * HalfWord /\ q + r \in Int BY <1>1, <1>2
<1> QED BY <1>3, SameIntro

\* ... with shifts and multiples,
LEMMA SameShift ==
    ASSUME NEW x \in Int, NEW y \in Int, NEW k \in Int, Same(x, y)
    PROVE  Same(x + k, y + k) /\ Same(k * x, k * y)
<1> USE HalfWordPositive
<1>1. PICK q \in Int : x = y + q * HalfWord BY DEF Same
<1>2. x + k = (y + k) + q * HalfWord BY <1>1
<1>3. k * x = k * y + (k * q) * HalfWord /\ k * q \in Int BY <1>1
<1> QED BY <1>2, <1>3, SameIntro

\* ... and from one to the next.
LEMMA SameTrans ==
    ASSUME NEW x \in Int, NEW y \in Int, NEW z \in Int, Same(x, y), Same(y, z)
    PROVE  Same(x, z)
<1> USE HalfWordPositive
<1>1. PICK q \in Int : x = y + q * HalfWord BY DEF Same
<1>2. PICK r \in Int : y = z + r * HalfWord BY DEF Same
<1>3. x = z + (q + r) * HalfWord /\ q + r \in Int BY <1>1, <1>2
<1> QED BY <1>3, SameIntro

\* Every number is congruent to itself.
LEMMA SameRefl == ASSUME NEW x \in Int PROVE Same(x, x)
  BY HalfWordPositive, x = x + 0 * HalfWord DEF Same

\* Congruent numbers have the same lower half.
LEMMA SameHalf ==
    ASSUME NEW x \in Int, NEW y \in Int, Same(x, y)
    PROVE  x % HalfWord = y % HalfWord
<1> USE HalfWordPositive
<1>1. PICK q \in Int : x = y + q * HalfWord BY DEF Same
<1>2. x % HalfWord \in 0..(HalfWord-1) /\ x \div HalfWord \in Int
      /\ x = HalfWord * (x \div HalfWord) + (x % HalfWord)
  BY DivMod
<1>3. y % HalfWord \in 0..(HalfWord-1) /\ y \div HalfWord \in Int
      /\ y = HalfWord * (y \div HalfWord) + (y % HalfWord)
  BY DivMod
<1>4. PICK d \in Int : d = x \div HalfWord BY <1>2
<1>5. PICK e \in Int : e = y \div HalfWord BY <1>3
<1>6. PICK a \in 0..(HalfWord-1) : a = x % HalfWord BY <1>2
<1>7. PICK b \in 0..(HalfWord-1) : b = y % HalfWord BY <1>3
<1>8. a - b = (e + q - d) * HalfWord
  BY <1>1, <1>2, <1>3, <1>4, <1>5, <1>6, <1>7
<1>9. PICK k \in Int : k = e + q - d OBVIOUS
<1>10. a - b = k * HalfWord /\ a - b < HalfWord /\ a - b > -HalfWord BY <1>8, <1>9
<1>11. CASE k >= 1
  <2>1. k * HalfWord >= HalfWord BY <1>11
  <2> QED BY <2>1, <1>10
<1>12. CASE k <= -1
  <2>1. k * HalfWord <= -HalfWord BY <1>12
  <2> QED BY <2>1, <1>10
<1>13. CASE k = 0 BY <1>10, <1>13, <1>6, <1>7
<1> QED BY <1>11, <1>12, <1>13

-----------------------------------------------------------------------------
(* Running sums.                                                           *)

\* p and q are the running sums of b and of those sums.
Sums(b, n, p, q) ==
    /\ p \in [0..n -> Int] /\ q \in [0..n -> Int]
    /\ p[0] = 0 /\ q[0] = 0
    /\ \A i \in 1..n : p[i] = p[i-1] + b[i] /\ q[i] = q[i-1] + p[i]

\* Every sequence of integers has running sums.
LEMMA RunningSum ==
    ASSUME NEW N \in Nat, NEW f, \A i \in 1..N : f[i] \in Int
    PROVE  \E p \in [0..N -> Int] : p[0] = 0 /\ \A i \in 1..N : p[i] = p[i-1] + f[i]
<1> DEFINE T == {m \in Nat : m <= N =>
                   \E p \in [0..m -> Int] : p[0] = 0 /\ \A i \in 1..m : p[i] = p[i-1] + f[i]}
<1>1. 0 \in T
  <2> DEFINE p == [i \in 0..0 |-> 0]
  <2>1. p \in [0..0 -> Int] /\ p[0] = 0 /\ \A i \in 1..0 : p[i] = p[i-1] + f[i] OBVIOUS
  <2> QED BY <2>1
<1>2. ASSUME NEW m \in Nat, m \in T PROVE m + 1 \in T
  <2> SUFFICES ASSUME m + 1 <= N
               PROVE  \E p \in [0..(m+1) -> Int] :
                        p[0] = 0 /\ \A i \in 1..(m+1) : p[i] = p[i-1] + f[i]
    OBVIOUS
  <2>1. PICK p \in [0..m -> Int] : p[0] = 0 /\ \A i \in 1..m : p[i] = p[i-1] + f[i]
    BY <1>2
  <2> DEFINE h == [i \in 0..(m + 1) |-> IF i <= m THEN p[i] ELSE p[m] + f[m + 1]]
  <2>2. p[m] + f[m + 1] \in Int OBVIOUS
  <2>3. h \in [0..(m + 1) -> Int] /\ h[m + 1] = p[m] + f[m + 1]
        /\ \A i \in 0..m : h[i] = p[i]
    BY <2>2
  <2> HIDE DEF h
  <2>4. \A i \in 1..(m + 1) : h[i] = h[i-1] + f[i]
    <3> SUFFICES ASSUME NEW i \in 1..(m + 1) PROVE h[i] = h[i-1] + f[i] OBVIOUS
    <3>1. CASE i \in 1..m
      <4>1. i - 1 \in 0..m /\ i \in 0..m BY <3>1
      <4> QED BY <2>1, <2>3, <3>1, <4>1
    <3>2. CASE i = m + 1
      <4>1. i - 1 = m /\ m \in 0..m BY <3>2
      <4> QED BY <2>3, <3>2, <4>1
    <3> QED BY <3>1, <3>2
  <2> QED BY <2>1, <2>3, <2>4
<1>3. \A m \in Nat : m \in T
  <2> HIDE DEF T
  <2> QED BY <1>1, <1>2, SetInduction
<1> QED BY <1>3

\* ... and those have running sums of their own.
LEMMA SumsExist ==
    ASSUME NEW n \in Nat, NEW b, \A i \in 1..n : b[i] \in Int
    PROVE  \E p, q : Sums(b, n, p, q)
<1>1. PICK p \in [0..n -> Int] : p[0] = 0 /\ \A i \in 1..n : p[i] = p[i-1] + b[i]
  BY RunningSum
<1>2. \A i \in 1..n : p[i] \in Int OBVIOUS
<1>3. PICK q \in [0..n -> Int] : q[0] = 0 /\ \A i \in 1..n : q[i] = q[i-1] + p[i]
  BY <1>2, RunningSum
<1> QED BY <1>1, <1>3 DEF Sums

\* Total is the last running sum.
LEMMA TotalIs ==
    ASSUME NEW n \in Nat, NEW f, NEW p \in [0..n -> Int],
           p[0] = 0, \A i \in 1..n : p[i] = p[i-1] + f[i]
    PROVE  Total(f, n) = p[n]
<1> DEFINE t == CHOOSE g : g = [i \in 0..n |-> IF i = 0 THEN 0 ELSE g[i-1] + f[i]]
<1>1. p = [i \in 0..n |-> IF i = 0 THEN 0 ELSE p[i-1] + f[i]]
  <2>1. \A i \in 0..n : p[i] = IF i = 0 THEN 0 ELSE p[i-1] + f[i] OBVIOUS
  <2> QED BY <2>1
<1>2. t = [i \in 0..n |-> IF i = 0 THEN 0 ELSE t[i-1] + f[i]] BY <1>1, Zenon
<1>3. Total(f, n) = t[n] BY Zenon DEF Total
<1> HIDE DEF t
<1>4. \A i \in 0..n : t[i] = IF i = 0 THEN 0 ELSE t[i-1] + f[i] BY <1>2
<1> DEFINE T == {m \in Nat : m <= n => t[m] = p[m]}
<1>5. 0 \in T BY <1>4
<1>6. ASSUME NEW m \in Nat, m \in T PROVE m + 1 \in T
  <2> SUFFICES ASSUME m + 1 <= n PROVE t[m + 1] = p[m + 1] OBVIOUS
  <2>1. t[m] = p[m] /\ m + 1 \in 1..n /\ m + 1 \in 0..n /\ (m + 1) - 1 = m /\ m + 1 # 0
    BY <1>6
  <2>2. t[m + 1] = t[m] + f[m + 1] /\ p[m + 1] = p[m] + f[m + 1] BY <1>4, <2>1
  <2> QED BY <2>1, <2>2
<1>7. \A m \in Nat : m \in T
  <2> HIDE DEF T
  <2> QED BY <1>5, <1>6, SetInduction
<1>8. n \in T BY <1>7
<1> QED BY <1>3, <1>8

-----------------------------------------------------------------------------
(* checksum1 computes the running sums.                                    *)

\* The accumulators a stand for the sums x and y.
StandsAt(a, x, y) ==
    /\ a.s1 \in Int /\ a.s2 \in Int
    /\ Same(a.s1, x) /\ Same(a.s2, y)

\* Wrapping keeps what a sum stands for.
LEMMA WrapStands ==
    ASSUME NEW u \in Int, NEW x \in Int, Same(u, x)
    PROVE  Wrap(u) \in Int /\ Same(Wrap(u), x)
  BY WrapSame, SameTrans

\* One turn of the second loop.
LEMMA TakeOneStands ==
    ASSUME NEW a, NEW x \in Int, NEW y \in Int, StandsAt(a, x, y),
           NEW b, NEW i, NEW v \in Int, b[i] = v
    PROVE  StandsAt(TakeOne(a, b, i), x + v, y + (x + v))
<1>1. a.s1 \in Int /\ a.s2 \in Int /\ Same(a.s1, x) /\ Same(a.s2, y) BY DEF StandsAt
<1>2. Same(a.s1 + v, x + v) BY <1>1, SameShift
<1>3. Same(a.s2 + (a.s1 + v), y + (x + v))
  <2>1. a.s1 + v \in Int /\ x + v \in Int BY <1>1
  <2> QED BY <1>1, <1>2, <2>1, SameSum
<1>4. a.s2 + a.s1 + v = a.s2 + (a.s1 + v) BY <1>1
<1>5. Wrap(a.s1 + v) \in Int /\ Same(Wrap(a.s1 + v), x + v) BY <1>1, <1>2, WrapStands
<1>6. Wrap(a.s2 + a.s1 + v) \in Int /\ Same(Wrap(a.s2 + a.s1 + v), y + (x + v))
  BY <1>1, <1>3, <1>4, WrapStands
<1> QED BY <1>5, <1>6 DEF TakeOne, StandsAt

\* One turn of the unrolled loop is four turns of the other.
LEMMA TakeFourStands ==
    ASSUME NEW a, NEW x \in Int, NEW y \in Int, StandsAt(a, x, y),
           NEW b, NEW i, NEW t \in Int, NEW u \in Int, NEW v \in Int, NEW w \in Int,
           b[i-3] = t, b[i-2] = u, b[i-1] = v, b[i] = w
    PROVE  StandsAt(TakeFour(a, b, i), x + t + u + v + w,
                    y + (x + t) + (x + t + u) + (x + t + u + v) + (x + t + u + v + w))
<1>1. a.s1 \in Int /\ a.s2 \in Int /\ Same(a.s1, x) /\ Same(a.s2, y) BY DEF StandsAt
<1>2. PICK c \in Int : c = t + u + v + w OBVIOUS
<1>3. PICK d \in Int : d = 4 * t + 3 * u + 2 * v + w OBVIOUS
<1>4. Same(a.s1 + c, x + c) BY <1>1, SameShift
<1>5. Same(4 * a.s1, 4 * x) BY <1>1, SameShift
<1>6. Same(a.s2 + 4 * a.s1, y + 4 * x)
  <2>1. 4 * a.s1 \in Int /\ 4 * x \in Int BY <1>1
  <2> QED BY <1>1, <1>5, <2>1, SameSum
<1>7. Same((a.s2 + 4 * a.s1) + d, (y + 4 * x) + d)
  <2>1. a.s2 + 4 * a.s1 \in Int /\ y + 4 * x \in Int BY <1>1
  <2> QED BY <1>6, <2>1, SameShift
<1>8. /\ a.s1 + t + u + v + w = a.s1 + c /\ x + t + u + v + w = x + c
      /\ a.s2 + 4 * (a.s1 + t) + 3 * u + 2 * v + w = (a.s2 + 4 * a.s1) + d
      /\ y + (x + t) + (x + t + u) + (x + t + u + v) + (x + t + u + v + w) = (y + 4 * x) + d
  BY <1>1, <1>2, <1>3
<1>9. Wrap(a.s1 + c) \in Int /\ Same(Wrap(a.s1 + c), x + c) BY <1>1, <1>4, WrapStands
<1>10. (a.s2 + 4 * a.s1) + d \in Int /\ (y + 4 * x) + d \in Int BY <1>1
<1>11. Wrap((a.s2 + 4 * a.s1) + d) \in Int /\ Same(Wrap((a.s2 + 4 * a.s1) + d), (y + 4 * x) + d)
  BY <1>7, <1>10, WrapStands
<1>12. TakeFour(a, b, i) = [s1 |-> Wrap(a.s1 + c), s2 |-> Wrap((a.s2 + 4 * a.s1) + d)]
  BY <1>8 DEF TakeFour
<1> QED BY <1>8, <1>9, <1>11, <1>12 DEF StandsAt

\* checksum1 of a sequence stands for its sum and the sum of its running sums.
LEMMA ChecksumStands ==
    ASSUME NEW b \in Seq(Int), NEW p, NEW q, Sums(b, Len(b), p, q)
    PROVE  StandsAt(checksum1(b), p[Len(b)], q[Len(b)])
<1> DEFINE n == Len(b)
           U == Unrolled(b)
<1>1. PICK g : g = [i \in 0..n |-> AccAt(g, b, i)] /\ checksum1(b) = g[n] BY ChecksumAcc
<1>2. PICK k \in Nat : U = 4 * k BY UnrolledFacts
<1>3. n \in Nat /\ \A i \in 1..n : b[i] \in Int OBVIOUS
<1>3a. U <= n /\ U \in Nat
  <2>1. LargerOf(n - 4, 0) \in Nat /\ (LargerOf(n - 4, 0) = 0 \/ LargerOf(n - 4, 0) = n - 4)
    BY <1>3 DEF LargerOf
  <2> QED BY <1>2, <1>3, <2>1, SMTT(40) DEF Unrolled
<1> HIDE DEF n, U
<1>4. \A i \in 0..n : g[i] = AccAt(g, b, i) BY <1>1
<1>5. /\ p \in [0..n -> Int] /\ q \in [0..n -> Int] /\ p[0] = 0 /\ q[0] = 0
      /\ \A i \in 1..n : p[i] = p[i-1] + b[i] /\ q[i] = q[i-1] + p[i]
  BY DEF Sums, n
<1> DEFINE Reached(i) == i < U => i % 4 = 0
           T == {m \in Nat : \A i \in 0..m : i <= n /\ Reached(i) => StandsAt(g[i], p[i], q[i])}
<1>6. StandsAt(g[0], p[0], q[0])
  <2>1. g[0] = NoSum BY <1>3, <1>4 DEF AccAt
  <2> QED BY <1>5, <2>1, SameRefl DEF StandsAt, NoSum
<1>7. ASSUME NEW m \in Nat, m \in T PROVE m + 1 \in T
  <2> SUFFICES ASSUME m + 1 <= n, Reached(m + 1)
               PROVE  StandsAt(g[m + 1], p[m + 1], q[m + 1])
    <3>1. \A i \in 0..(m + 1) : i \in 0..m \/ i = m + 1 OBVIOUS
    <3> QED BY <1>7, <3>1
  <2> DEFINE i == m + 1
  <2>1. i \in 1..n /\ i \in 0..n /\ i # 0 /\ (i < U => i % 4 = 0) BY <1>3
  <2>2. \A j \in 0..m : Reached(j) => StandsAt(g[j], p[j], q[j]) BY <1>3, <1>7
  <2> HIDE DEF T
  <2>3. CASE i <= U
    <3>1. /\ i - 4 \in 0..m /\ i - 4 \in 0..n /\ ((i - 4) < U => (i - 4) % 4 = 0)
          /\ i - 3 \in 1..n /\ i - 2 \in 1..n /\ i - 1 \in 1..n
          /\ i - 3 - 1 = i - 4 /\ i - 2 - 1 = i - 3 /\ i - 1 - 1 = i - 2
      BY <1>2, <2>1, <2>3, <1>3
    <3>2. StandsAt(g[i-4], p[i-4], q[i-4]) BY <2>2, <3>1
    <3>3. g[i] = TakeFour(g[i-4], b, i) BY <1>4, <2>1, <2>3 DEF AccAt, U
    <3>4. b[i-3] \in Int /\ b[i-2] \in Int /\ b[i-1] \in Int /\ b[i] \in Int
          /\ p[i-4] \in Int /\ q[i-4] \in Int
      BY <1>3, <1>5, <2>1, <3>1
    <3> DEFINE t == b[i-3]
               u == b[i-2]
               v == b[i-1]
               w == b[i]
               x == p[i-4]
               y == q[i-4]
    <3>5. p[i-3] = x + t /\ p[i-2] = x + t + u /\ p[i-1] = x + t + u + v /\ p[i] = x + t + u + v + w
      BY <1>5, <2>1, <3>1, <3>4
    <3>6. q[i] = y + p[i-3] + p[i-2] + p[i-1] + p[i]
      BY <1>5, <2>1, <3>1, <3>4
    <3>7. StandsAt(TakeFour(g[i-4], b, i), x + t + u + v + w,
                   y + (x + t) + (x + t + u) + (x + t + u + v) + (x + t + u + v + w))
      BY <3>2, <3>4, TakeFourStands, ZenonT(40)
    <3> QED BY <3>3, <3>5, <3>6, <3>7
  <2>4. CASE ~(i <= U)
    <3>1. i - 1 \in 0..m /\ ((i - 1) < U => (i - 1) % 4 = 0) BY <1>3a, <2>1, <2>4
    <3>2. StandsAt(g[i-1], p[i-1], q[i-1]) BY <2>2, <3>1
    <3>3. g[i] = TakeOne(g[i-1], b, i)
      BY <1>4, <1>3a, <2>1, <2>4 DEF AccAt, U
    <3>4. b[i] \in Int /\ p[i-1] \in Int /\ q[i-1] \in Int
      BY <1>3, <1>5, <2>1
    <3>5. StandsAt(TakeOne(g[i-1], b, i), p[i-1] + b[i], q[i-1] + (p[i-1] + b[i]))
      BY <3>2, <3>4, TakeOneStands
    <3>6. p[i] = p[i-1] + b[i] /\ q[i] = q[i-1] + (p[i-1] + b[i]) BY <1>5, <2>1
    <3> QED BY <3>3, <3>5, <3>6
  <2> QED BY <2>3, <2>4
<1>8. 0 \in T
  <2>1. \A i \in 0..0 : i = 0 OBVIOUS
  <2> QED BY <1>6, <2>1
<1>9. \A m \in Nat : m \in T
  <2> HIDE DEF T
  <2> QED BY <1>7, <1>8, SetInduction
<1>10. n \in T /\ n \in 0..n /\ Reached(n) BY <1>3, <1>3a, <1>9
<1>11. StandsAt(g[n], p[n], q[n]) BY <1>10, <1>3
<1> QED BY <1>1, <1>11 DEF n

-----------------------------------------------------------------------------
(* The rolling checksum.                                                   *)

\* The sums of the window of n bytes at offset o, from the running sums of
\* the whole file.
PlainAt(p, o, n)       == p[o + n] - p[o]
WeightedAt(p, q, o, n) == q[o + n] - q[o] - n * p[o]

\* The running sums of a window.
LEMMA WindowSums ==
    ASSUME NEW d \in Seq(Int), NEW p, NEW q, Sums(d, Len(d), p, q),
           NEW o \in Nat, NEW n \in Nat, o + n <= Len(d)
    PROVE  /\ Slice(d, o, o + n) \in Seq(Int) /\ Len(Slice(d, o, o + n)) = n
           /\ Sums(Slice(d, o, o + n), n,
                   [i \in 0..n |-> PlainAt(p, o, i)], [i \in 0..n |-> WeightedAt(p, q, o, i)])
<1> DEFINE w == Slice(d, o, o + n)
           x == [i \in 0..n |-> PlainAt(p, o, i)]
           y == [i \in 0..n |-> WeightedAt(p, q, o, i)]
<1>1. w \in Seq(Int) /\ Len(w) = n /\ \A i \in 1..n : w[i] = d[o + i]
  <2>1. (o + n) - o = n /\ o + n \in Nat /\ o <= o + n OBVIOUS
  <2>2. w \in Seq(Int) /\ Len(w) = (o + n) - o /\ \A i \in 1..((o + n) - o) : w[i] = d[o + i]
    BY <2>1, SliceFacts, ZenonT(60)
  <2> QED BY <2>1, <2>2
<1>2. /\ p \in [0..Len(d) -> Int] /\ q \in [0..Len(d) -> Int]
      /\ \A i \in 1..Len(d) : p[i] = p[i-1] + d[i] /\ q[i] = q[i-1] + p[i]
  BY DEF Sums
<1>3. \A i \in 0..n : o + i \in 0..Len(d) /\ p[o + i] \in Int /\ q[o + i] \in Int
  <2>1. Len(d) \in Nat OBVIOUS
  <2>2. \A i \in 0..n : o + i \in 0..Len(d) BY <2>1
  <2> QED BY <1>2, <2>2
<1>4. p[o] \in Int /\ q[o] \in Int /\ p[o + 0] = p[o] /\ q[o + 0] = q[o]
  <2>1. 0 \in 0..n /\ o + 0 = o OBVIOUS
  <2> QED BY <1>3, <2>1
<1>5. \A i \in 0..n : i * p[o] \in Int BY <1>4
<1>6. x \in [0..n -> Int] /\ y \in [0..n -> Int]
  <2>0. ASSUME NEW i \in 0..n PROVE PlainAt(p, o, i) \in Int /\ WeightedAt(p, q, o, i) \in Int
    <3>1. PICK p0 \in Int, q0 \in Int, p1 \in Int, q1 \in Int, m \in Int :
            p0 = p[o] /\ q0 = q[o] /\ p1 = p[o + i] /\ q1 = q[o + i] /\ m = i * p[o]
      BY <1>3, <1>4, <1>5
    <3>2. p1 - p0 \in Int /\ q1 - q0 - m \in Int OBVIOUS
    <3> QED BY <3>1, <3>2 DEF PlainAt, WeightedAt
  <2>1. \A i \in 0..n : PlainAt(p, o, i) \in Int BY <2>0
  <2>2. \A i \in 0..n : WeightedAt(p, q, o, i) \in Int BY <2>0
  <2> QED BY <2>1, <2>2
<1>7. x[0] = 0 /\ y[0] = 0
  BY <1>4 DEF PlainAt, WeightedAt
<1>8. ASSUME NEW i \in 1..n PROVE x[i] = x[i-1] + w[i] /\ y[i] = y[i-1] + x[i]
  <2>1. i \in 0..n /\ i - 1 \in 0..n /\ o + i \in 1..Len(d) /\ (o + i) - 1 = o + (i - 1) OBVIOUS
  <2>2. p[o + i] = p[o + (i - 1)] + w[i] /\ q[o + i] = q[o + (i - 1)] + p[o + i]
    BY <1>1, <1>2, <2>1
  <2>3. w[i] \in Int BY <1>1
  <2>4. x[i] = p[o + i] - p[o] /\ x[i-1] = p[o + (i - 1)] - p[o]
    BY <2>1 DEF PlainAt
  <2>5. y[i] = q[o + i] - q[o] - i * p[o] /\ y[i-1] = q[o + (i - 1)] - q[o] - (i - 1) * p[o]
    BY <2>1 DEF WeightedAt
  <2>6. (i - 1) * p[o] = i * p[o] - p[o] /\ i * p[o] \in Int BY <1>4
  <2>7. p[o + (i - 1)] \in Int /\ q[o + (i - 1)] \in Int /\ p[o + i] \in Int /\ q[o + i] \in Int
    BY <1>3, <2>1
  <2> HIDE DEF x, y, w
  <2>8. PICK p0 \in Int, q0 \in Int, p1 \in Int, q1 \in Int, p2 \in Int, q2 \in Int,
             m \in Int, v \in Int :
          /\ p0 = p[o] /\ q0 = q[o] /\ p1 = p[o + (i - 1)] /\ q1 = q[o + (i - 1)]
          /\ p2 = p[o + i] /\ q2 = q[o + i] /\ m = i * p[o] /\ v = w[i]
    BY <1>4, <2>3, <2>6, <2>7
  <2>9. p2 - p0 = (p1 - p0) + v /\ q2 - q0 - m = (q1 - q0 - (m - p0)) + (p2 - p0)
    <3>1. p2 = p1 + v /\ q2 = q1 + p2 BY <2>2, <2>8
    <3> QED BY <3>1
  <2>10. x[i] = p2 - p0 /\ x[i-1] = p1 - p0 /\ w[i] = v BY <2>4, <2>8
  <2>11. y[i] = q2 - q0 - m /\ y[i-1] = q1 - q0 - (m - p0) BY <2>5, <2>6, <2>8
  <2> QED BY <2>9, <2>10, <2>11
<1> HIDE DEF x, y, w
<1>9. Sums(w, n, x, y) BY <1>6, <1>7, <1>8 DEF Sums
<1> QED BY <1>1, <1>9 DEF w, x, y

\* The checksum of a window stands for its sums.
LEMMA WindowChecksum ==
    ASSUME NEW d \in Seq(Int), NEW p, NEW q, Sums(d, Len(d), p, q),
           NEW o \in Nat, NEW n \in Nat, o + n <= Len(d)
    PROVE  StandsAt(checksum1(Slice(d, o, o + n)), PlainAt(p, o, n), WeightedAt(p, q, o, n))
<1> DEFINE w == Slice(d, o, o + n)
           x == [i \in 0..n |-> PlainAt(p, o, i)]
           y == [i \in 0..n |-> WeightedAt(p, q, o, i)]
<1>1. w \in Seq(Int) /\ Len(w) = n /\ Sums(w, n, x, y) BY WindowSums
<1>2. x[n] = PlainAt(p, o, n) /\ y[n] = WeightedAt(p, q, o, n) OBVIOUS
<1> HIDE DEF w, x, y
<1>3. StandsAt(checksum1(w), x[n], y[n]) BY <1>1, ChecksumStands
<1> QED BY <1>2, <1>3 DEF w

\* Rolling the window one byte on.
LEMMA RollStands ==
    ASSUME NEW d \in Seq(Int), NEW p, NEW q, Sums(d, Len(d), p, q),
           NEW o \in Nat, NEW n \in Nat, o + n + 1 <= Len(d), n > 0,
           NEW r, StandsAt(r, PlainAt(p, o, n), WeightedAt(p, q, o, n))
    PROVE  StandsAt(Roll(r, n, d[o + 1], d[o + n + 1]),
                    PlainAt(p, o + 1, n), WeightedAt(p, q, o + 1, n))
<1>1. /\ p \in [0..Len(d) -> Int] /\ q \in [0..Len(d) -> Int]
      /\ \A i \in 1..Len(d) : p[i] = p[i-1] + d[i] /\ q[i] = q[i-1] + p[i]
  BY DEF Sums
<1>2. /\ o \in 0..Len(d) /\ o + n \in 0..Len(d) /\ o + 1 \in 1..Len(d) /\ o + n + 1 \in 1..Len(d)
      /\ (o + 1) - 1 = o /\ (o + n + 1) - 1 = o + n /\ (o + 1) + n = o + n + 1
  OBVIOUS
<1>3. PICK a \in Int, z \in Int : a = d[o + 1] /\ z = d[o + n + 1]
  BY <1>2
<1>4. PICK p0 \in Int, q0 \in Int, pn \in Int, qn \in Int :
        p0 = p[o] /\ q0 = q[o] /\ pn = p[o + n] /\ qn = q[o + n]
  BY <1>1, <1>2
<1>5. p[o + 1] = p0 + a /\ q[o + 1] = q0 + (p0 + a)
  BY <1>1, <1>2, <1>3, <1>4
<1>6. p[o + n + 1] = pn + z /\ q[o + n + 1] = qn + (pn + z)
  BY <1>1, <1>2, <1>3, <1>4
<1> DEFINE A == pn - p0
           B == qn - q0 - n * p0
           C == Wrap(r.s1 - a + z)
<1>7. PlainAt(p, o, n) = A /\ WeightedAt(p, q, o, n) = B
  BY <1>4 DEF PlainAt, WeightedAt
<1>8. n * p0 \in Int /\ n * a \in Int /\ n * (p0 + a) = n * p0 + n * a /\ A \in Int /\ B \in Int
  <2>1. n * p0 \in Int /\ n * a \in Int /\ n * (p0 + a) = n * p0 + n * a OBVIOUS
  <2> QED BY <2>1
<1>9. PlainAt(p, o + 1, n) = A + (z - a)
  BY <1>2, <1>5, <1>6 DEF PlainAt
<1>10. WeightedAt(p, q, o + 1, n) = (B + (-(n * a))) + (A + (z - a))
  <2>1. WeightedAt(p, q, o + 1, n) = (qn + (pn + z)) - (q0 + (p0 + a)) - n * (p0 + a)
    BY <1>2, <1>5, <1>6 DEF WeightedAt
  <2> QED BY <1>8, <2>1
<1>11. r.s1 \in Int /\ r.s2 \in Int /\ Same(r.s1, A) /\ Same(r.s2, B)
  BY <1>7 DEF StandsAt
<1> HIDE DEF A, B
<1>12. Same(r.s1 + (z - a), A + (z - a))
  <2>1. z - a \in Int OBVIOUS
  <2> QED BY <1>8, <1>11, <2>1, SameShift
<1>13. r.s1 - a + z = r.s1 + (z - a) /\ r.s1 + (z - a) \in Int /\ A + (z - a) \in Int
  BY <1>8, <1>11, SMTT(30)
<1>14. C \in Int /\ Same(C, A + (z - a))
  BY <1>12, <1>13, WrapStands
<1> HIDE DEF C
<1>15. -(n * a) \in Int /\ r.s2 + (-(n * a)) \in Int /\ B + (-(n * a)) \in Int
       /\ Same(r.s2 + (-(n * a)), B + (-(n * a)))
  <2>1. -(n * a) \in Int BY <1>8
  <2> QED BY <1>8, <1>11, <2>1, SameShift, SMTT(30)
<1>16. Same((r.s2 + (-(n * a))) + C, (B + (-(n * a))) + (A + (z - a)))
  BY <1>13, <1>14, <1>15, SameSum
<1>17. r.s2 - n * a + C = (r.s2 + (-(n * a))) + C
       /\ (r.s2 + (-(n * a))) + C \in Int /\ (B + (-(n * a))) + (A + (z - a)) \in Int
  <2>1. PICK m \in Int, t \in Int, b \in Int, c \in Int :
          m = n * a /\ t = r.s2 /\ b = B /\ c = C
    BY <1>8, <1>11, <1>14
  <2>2. t - m + c = (t + (-m)) + c /\ (t + (-m)) + c \in Int /\ b + (-m) \in Int OBVIOUS
  <2>3. \A e, f \in Int : e + f \in Int OBVIOUS
  <2> QED BY <1>13, <1>15, <2>1, <2>2, <2>3
<1>18. Wrap(r.s2 - n * a + C) \in Int
       /\ Same(Wrap(r.s2 - n * a + C), (B + (-(n * a))) + (A + (z - a)))
  BY <1>16, <1>17, WrapStands
<1>19. Roll(r, n, d[o + 1], d[o + n + 1]) = [s1 |-> C, s2 |-> Wrap(r.s2 - n * a + C)]
  BY <1>3 DEF Roll, C
<1> QED BY <1>9, <1>10, <1>14, <1>18, <1>19 DEF StandsAt

\* Starting afresh.
LEMMA RollInitStands ==
    ASSUME NEW d \in Seq(Int), NEW p, NEW q, Sums(d, Len(d), p, q),
           NEW o \in Nat, NEW n \in Nat, o + n <= Len(d)
    PROVE  StandsAt(RollInit(Slice(d, o, o + n)), PlainAt(p, o, n), WeightedAt(p, q, o, n))
<1> DEFINE c == checksum1(Slice(d, o, o + n))
           A == PlainAt(p, o, n)
           B == WeightedAt(p, q, o, n)
<1>1. c.s1 \in Int /\ c.s2 \in Int /\ Same(c.s1, A) /\ Same(c.s2, B)
  BY WindowChecksum DEF StandsAt
<1>2. A \in Int /\ B \in Int
  <2>1. o \in 0..Len(d) /\ o + n \in 0..Len(d) OBVIOUS
  <2>2. p[o] \in Int /\ p[o + n] \in Int /\ q[o] \in Int /\ q[o + n] \in Int
    BY <2>1 DEF Sums
  <2>3. n * p[o] \in Int BY <2>2
  <2> QED BY <2>2, <2>3, SMTT(40) DEF PlainAt, WeightedAt
<1>3. RollInit(Slice(d, o, o + n)) = [s1 |-> c.s1 % HalfWord, s2 |-> c.s2 % HalfWord]
  BY DEF RollInit
<1> HIDE DEF A, B, c
<1>4. /\ c.s1 % HalfWord \in Int /\ Same(c.s1 % HalfWord, c.s1)
      /\ c.s2 % HalfWord \in Int /\ Same(c.s2 % HalfWord, c.s2)
  BY <1>1, HalfSame
<1>5. Same(c.s1 % HalfWord, A) /\ Same(c.s2 % HalfWord, B)
  BY <1>1, <1>2, <1>4, SameTrans
<1> QED BY <1>3, <1>4, <1>5 DEF StandsAt, A, B

-----------------------------------------------------------------------------
(* The search rolls the right checksum along.                              *)

\* While the search runs, rc stands for the sums of the window.
Rolled ==
    pc = "scan" =>
        \E p, q : /\ Sums(data, Len(data), p, q)
                  /\ StandsAt(rc, PlainAt(p, offset, blen), WeightedAt(p, q, offset, blen))

\* Bytes are integers.
LEMMA FileOfInts == Seq(Bytes) \subseteq Seq(Int)
<1>1. Bytes \subseteq Int BY DeltaAssumption
<1> SUFFICES ASSUME NEW s \in Seq(Bytes) PROVE s \in Seq(Int)
  OBVIOUS
<1>2. ASSUME NEW i \in 1..Len(s) PROVE s[i] \in Int
  <2>1. s[i] \in Bytes BY ElementOfSeq
  <2> QED BY <1>1, <2>1, Zenon
<1> QED BY <1>2, Len(s) \in Nat, SeqDef

\* No step of the search lets the checksum go astray.
LEMMA RolledStep == TileInv /\ Rolled /\ [Next]_vars => Rolled'
<1> SUFFICES ASSUME TileInv, Rolled, [Next]_vars, pc' = "scan"
             PROVE  \E p, q : /\ Sums(data, Len(data), p, q)'
                              /\ StandsAt(rc', PlainAt(p, offset', blen'),
                                               WeightedAt(p, q, offset', blen'))
  BY DEF Rolled
<1>0. UNCHANGED <<data, blen>>
  BY SameFiles
<1>1. /\ data \in Seq(Int) /\ Len(data) \in Nat /\ blen \in Nat /\ offset \in Nat
      /\ \A i \in 1..Len(data) : data[i] \in Int
  BY FileOfInts DEF TileInv, Scanning
<1>2. pc = "scan" => blen > 0 /\ offset + blen <= Len(data)
  BY DEF TileInv, Scanning
<1>3. \A p, q : Sums(data, Len(data), p, q)' <=> Sums(data, Len(data), p, q)
  BY <1>0 DEF Sums
<1>4. CASE StartScan
  <2>1. offset' = 0 /\ offset = 0 /\ blen <= Len(data) /\ rc' = RollInit(Slice(data, 0, 0 + blen))
    BY <1>4 DEF StartScan, TileInv, Scanning, Window
  <2>2. PICK p, q : Sums(data, Len(data), p, q) BY <1>1, SumsExist
  <2>3. StandsAt(rc', PlainAt(p, 0, blen), WeightedAt(p, q, 0, blen))
    BY <1>1, <2>1, <2>2, RollInitStands
  <2> QED BY <1>0, <1>3, <2>1, <2>2, <2>3
<1>5. CASE Hit
  <2>1. /\ pc = "scan" /\ offset' = offset + blen /\ offset + 2 * blen <= Len(data)
        /\ rc' = RollInit(Slice(data, offset + blen, (offset + blen) + blen))
    BY <1>5 DEF Hit, Window
  <2>2. offset + blen \in Nat /\ (offset + blen) + blen <= Len(data) BY <1>1, <2>1
  <2>3. PICK p, q : Sums(data, Len(data), p, q) BY <1>1, SumsExist
  <2>4. StandsAt(rc', PlainAt(p, offset + blen, blen), WeightedAt(p, q, offset + blen, blen))
    BY <1>1, <2>1, <2>2, <2>3, RollInitStands
  <2> QED BY <1>0, <1>3, <2>1, <2>3, <2>4
<1>6. CASE Slide
  <2>1. /\ pc = "scan" /\ offset < Len(data) - blen /\ offset' = offset + 1
        /\ rc' = Roll(rc, blen, data[offset + 1], data[offset + blen + 1])
    BY <1>6 DEF Slide
  <2>2. PICK p, q : /\ Sums(data, Len(data), p, q)
                    /\ StandsAt(rc, PlainAt(p, offset, blen), WeightedAt(p, q, offset, blen))
    BY <2>1 DEF Rolled
  <2>3. offset + blen + 1 <= Len(data) /\ blen > 0 BY <1>1, <1>2, <2>1
  <2>4. StandsAt(rc', PlainAt(p, offset + 1, blen), WeightedAt(p, q, offset + 1, blen))
    BY <1>1, <2>1, <2>2, <2>3, RollStands
  <2> QED BY <1>0, <1>3, <2>1, <2>2, <2>4
<1>7. CASE pc = "scan" /\ UNCHANGED <<offset, rc>>
  <2>1. PICK p, q : /\ Sums(data, Len(data), p, q)
                    /\ StandsAt(rc, PlainAt(p, offset, blen), WeightedAt(p, q, offset, blen))
    BY <1>7 DEF Rolled
  <2> QED BY <1>0, <1>3, <1>7, <2>1
<1>8. CASE SendWhole \/ Stop \/ Trailing
  BY <1>8 DEF SendWhole, Stop, Trailing
<1>9. CASE SendLiteral \/ WriteChunk \/ SendMatch \/ SendEof
  BY <1>9 DEF SendLiteral, WriteChunk, SendMatch, SendEof, Writing
<1>10. CASE Receiver \/ Finished \/ UNCHANGED vars
  BY <1>7, <1>10 DEF Receiver, RecvLiteral, RecvMatch, RecvEof, Reading, Finished, vars
<1> QED BY <1>4, <1>5, <1>6, <1>8, <1>9, <1>10 DEF Next, Sender

\* The sums of a window by definition are those its checksum stands for.
LEMMA WindowTotals ==
    ASSUME NEW d \in Seq(Int), NEW p, NEW q, Sums(d, Len(d), p, q),
           NEW o \in Nat, NEW n \in Nat, o + n <= Len(d)
    PROVE  LET w == Slice(d, o, o + n)
               weighted == [i \in 1..n |-> (n - i + 1) * w[i]]
           IN  /\ Total(w, n) = PlainAt(p, o, n)
               /\ Total(weighted, n) = WeightedAt(p, q, o, n)
               /\ PlainAt(p, o, n) \in Int /\ WeightedAt(p, q, o, n) \in Int
<1> DEFINE w == Slice(d, o, o + n)
           weighted == [i \in 1..n |-> (n - i + 1) * w[i]]
           x == [i \in 0..n |-> PlainAt(p, o, i)]
           y == [i \in 0..n |-> WeightedAt(p, q, o, i)]
           z == [i \in 0..n |-> y[i] + (n - i) * x[i]]
<1>1. w \in Seq(Int) /\ Len(w) = n /\ Sums(w, n, x, y) BY WindowSums
<1>2. x[n] = PlainAt(p, o, n) /\ y[n] = WeightedAt(p, q, o, n) OBVIOUS
<1> HIDE DEF w, x, y
<1>3. /\ x \in [0..n -> Int] /\ y \in [0..n -> Int] /\ x[0] = 0 /\ y[0] = 0
      /\ \A i \in 1..n : x[i] = x[i-1] + w[i] /\ y[i] = y[i-1] + x[i]
  BY <1>1 DEF Sums
<1>4. Total(w, n) = x[n] BY <1>3, TotalIs
<1>5. ASSUME NEW i \in 0..n PROVE (n - i) * x[i] \in Int /\ y[i] + (n - i) * x[i] \in Int
  <2>1. PICK a \in Int, b \in Int, m \in Int : a = x[i] /\ b = y[i] /\ m = n - i
    <3>1. x[i] \in Int /\ y[i] \in Int /\ n - i \in Int BY <1>3
    <3> QED BY <3>1
  <2>2. m * a \in Int OBVIOUS
  <2>3. b + m * a \in Int BY <2>2
  <2> QED BY <2>1, <2>2, <2>3
<1>6. z \in [0..n -> Int] BY <1>5
<1>7. z[0] = 0
  <2>1. n * 0 = 0 /\ 0 + 0 = 0 OBVIOUS
  <2> QED BY <1>3, <2>1
<1>8. ASSUME NEW i \in 1..n PROVE z[i] = z[i-1] + weighted[i]
  <2>1. i \in 0..n /\ i - 1 \in 0..n /\ n - (i - 1) = (n - i) + 1 OBVIOUS
  <2>2. PICK a \in Int, b \in Int, m \in Int, v \in Int :
          a = x[i-1] /\ b = y[i-1] /\ m = n - i /\ v = w[i]
    <3>1. x[i-1] \in Int /\ y[i-1] \in Int /\ n - i \in Int /\ w[i] \in Int BY <1>1, <1>3, <2>1, SMTT(40)
    <3> QED BY <3>1
  <2>3. x[i] = a + v /\ y[i] = b + (a + v) BY <1>3, <2>2
  <2>4. z[i] = (b + (a + v)) + m * (a + v) BY <2>1, <2>2, <2>3
  <2>5. z[i-1] = b + (m + 1) * a BY <2>1, <2>2
  <2>6. weighted[i] = (m + 1) * v BY <2>2
  <2>7. (b + (a + v)) + m * (a + v) = (b + (m + 1) * a) + (m + 1) * v OBVIOUS
  <2> QED BY <2>4, <2>5, <2>6, <2>7
<1>9. z[n] = y[n]
  <2>1. n - n = 0 /\ 0 * x[n] = 0 /\ y[n] + 0 = y[n] BY <1>3
  <2>2. z[n] = y[n] + (n - n) * x[n] OBVIOUS
  <2> QED BY <2>1, <2>2
<1> HIDE DEF z, weighted
<1>10. Total(weighted, n) = z[n] BY <1>6, <1>7, <1>8, TotalIs
<1>11. x[n] \in Int /\ y[n] \in Int BY <1>3
<1> QED BY <1>2, <1>4, <1>9, <1>10, <1>11 DEF w, weighted

\* Accumulators that stand for the same sums have the same value.
LEMMA StandsValue ==
    ASSUME NEW r, NEW x \in Int, NEW y \in Int, StandsAt(r, x, y)
    PROVE  Value(r) = <<x % HalfWord, y % HalfWord>>
<1>1. r.s1 \in Int /\ r.s2 \in Int /\ Same(r.s1, x) /\ Same(r.s2, y) BY DEF StandsAt
<1>2. r.s1 % HalfWord = x % HalfWord /\ r.s2 % HalfWord = y % HalfWord BY <1>1, SameHalf
<1> QED BY <1>2 DEF Value

\* So the rolled checksum is the one RollExact defines.
LEMMA RolledExact == TileInv /\ Rolled => RollExact
<1> SUFFICES ASSUME TileInv, Rolled, pc = "scan" PROVE RollExact
  BY DEF RollExact
<1>1. /\ data \in Seq(Int) /\ blen \in Nat /\ offset \in Nat /\ offset + blen <= Len(data)
  BY FileOfInts DEF TileInv, Scanning
<1>2. PICK p, q : /\ Sums(data, Len(data), p, q)
                  /\ StandsAt(rc, PlainAt(p, offset, blen), WeightedAt(p, q, offset, blen))
  BY DEF Rolled
<1> DEFINE w == Slice(data, offset, offset + blen)
           weighted == [i \in 1..blen |-> (blen - i + 1) * w[i]]
<1>3. /\ Total(w, blen) = PlainAt(p, offset, blen)
      /\ Total(weighted, blen) = WeightedAt(p, q, offset, blen)
      /\ PlainAt(p, offset, blen) \in Int /\ WeightedAt(p, q, offset, blen) \in Int
  BY <1>1, <1>2, WindowTotals
<1>4. Value(rc) = <<PlainAt(p, offset, blen) % HalfWord, WeightedAt(p, q, offset, blen) % HalfWord>>
  BY <1>2, <1>3, StandsValue
<1>5. Value(rc) = <<Total(w, blen) % HalfWord, Total(weighted, blen) % HalfWord>>
  BY <1>3, <1>4
<1> QED BY <1>5, Zenon DEF RollExact, Window

\* For every file, block length and half-word, the two accumulators that
\* find_matches_seeded starts with checksum1 (unrolled loop and all) and then
\* rolls byte by byte, wrapping at 32 bits and starting afresh behind a match,
\* hold the sums of the bytes of the current window (RollingChecksum).
THEOREM RollExactHolds == Spec => []RollExact
<1>1. Init => TileInv /\ Rolled BY TileInit DEF Init, Rolled
<1>2. TileInv /\ Rolled /\ [Next]_vars => (TileInv /\ Rolled)' BY TileStep, RolledStep
<1> QED BY <1>1, <1>2, RolledExact, PTL DEF Spec

-----------------------------------------------------------------------------
(* The search misses no block.                                             *)

\* No whole block of the basis is in the sender's file at an offset a..z.
Unmatched(a, z) ==
    \A i \in 0..Len(basis) : (i + 1) * blen <= Len(basis) =>
        \A o \in a..z : Slice(basis, i * blen, (i + 1) * blen) # Slice(data, o, o + blen)

\* No block is in the literals emitted, nor behind the last match in the part
\* the window has left.
SearchInv ==
    StrongAgrees /\ blen > 0 =>
        /\ \A j \in 1..Len(ops) : ops[j].k = "lit" =>
             Unmatched(ops[j].off, ops[j].off + ops[j].len - blen)
        /\ pc = "scan" => Unmatched(last, offset - 1)
        /\ pc = "tail" => Unmatched(last, Len(data) - blen)

\* A whole block of the basis is one of the Count blocks, and not a short one.
LEMMA WholeBlock ==
    ASSUME NEW i \in Nat, blen \in Nat, blen > 0, basis \in Seq(Bytes),
           (i + 1) * blen <= Len(basis)
    PROVE  /\ i \in 0..(Count - 1) /\ EntryLen(i) = blen
           /\ Block(i) = Slice(basis, i * blen, (i + 1) * blen)
<1>1. PICK n \in Nat : n = Len(basis) OBVIOUS
<1>2. PICK m \in Nat : m = i * blen BY blen \in Nat
<1>3. (i + 1) * blen = m + blen BY <1>2
<1>4. n > 0 /\ m + blen <= n BY <1>1, <1>2, <1>3
<1>5. /\ n % blen \in 0..(blen - 1) /\ n \div blen \in Int
      /\ n = blen * (n \div blen) + (n % blen)
  <2>1. blen \in Nat \ {0} /\ n \in Int OBVIOUS
  <2> QED BY <2>1, DivMod
<1>6. PICK d \in Int, r \in 0..(blen - 1) : d = n \div blen /\ r = n % blen BY <1>5
<1>7. n = blen * d + r BY <1>5, <1>6
<1>8. (n + blen - 1) % blen \in 0..(blen - 1) /\ (n + blen - 1) \div blen \in Int
      /\ n + blen - 1 = blen * ((n + blen - 1) \div blen) + ((n + blen - 1) % blen)
  <2>1. blen \in Nat \ {0} /\ n + blen - 1 \in Int OBVIOUS
  <2> QED BY <2>1, DivMod
<1>9. PICK c \in Int, e \in 0..(blen - 1) : c = (n + blen - 1) \div blen /\ n + blen - 1 = blen * c + e
  BY <1>8
<1>10. Count = c /\ Remainder = r
  BY <1>1, <1>4, <1>6, <1>9 DEF Count, Remainder, sum_count_for_file, remainder_for_file
<1>11. i < c
  <2> SUFFICES ASSUME c <= i PROVE FALSE OBVIOUS
  <2>1. blen * c <= blen * i OBVIOUS
  <2>2. blen * i = m BY <1>2
  <2> QED BY <1>4, <1>9, <2>1, <2>2
<1>12. EntryLen(i) = blen
  <2> SUFFICES ASSUME i = c - 1, r # 0 PROVE FALSE BY <1>10 DEF EntryLen
  <2>1. blen * c = m + blen BY <1>2
  <2>2. n - 1 = m + e BY <1>9, <2>1
  <2>3. n = m + blen BY <1>4, <2>2
  <2>4. blen * d + r = blen * c BY <1>7, <2>1, <2>3
  <2>5. PICK k \in Int : k = c - d OBVIOUS
  <2>6. r = blen * k BY <2>4, <2>5
  <2>7. CASE k >= 1
    <3>1. blen * k >= blen BY <2>7
    <3> QED BY <2>6, <3>1
  <2>8. CASE k <= 0
    <3>1. blen * k <= 0 BY <2>8
    <3> QED BY <2>6, <3>1
  <2> QED BY <2>7, <2>8
<1>13. Block(i) = Slice(basis, i * blen, (i + 1) * blen)
  <2>1. m < n /\ SmallerOf(m + blen, n) = m + blen BY <1>4 DEF SmallerOf
  <2> QED BY <1>1, <1>2, <1>3, <1>12, <2>1 DEF Block
<1> QED BY <1>10, <1>11, <1>12, <1>13

\* When the search finds no candidate, no whole block is in the window.
LEMMA NoCandidate ==
    ASSUME TileInv, Rolled, pc = "scan", StrongAgrees, Candidates = {},
           NEW i \in Nat, (i + 1) * blen <= Len(basis)
    PROVE  Slice(basis, i * blen, (i + 1) * blen) # Slice(data, offset, offset + blen)
<1> SUFFICES ASSUME Slice(basis, i * blen, (i + 1) * blen) = Slice(data, offset, offset + blen)
             PROVE  FALSE
  OBVIOUS
<1>1. /\ data \in Seq(Int) /\ basis \in Seq(Bytes) /\ blen \in Nat /\ blen > 0
      /\ offset \in Nat /\ offset + blen <= Len(data)
  BY FileOfInts DEF TileInv, Scanning
<1>2. i \in 0..(Count - 1) /\ EntryLen(i) = blen /\ Block(i) = Window(offset)
  BY <1>1, WholeBlock DEF Window
<1>3. PICK p, q : /\ Sums(data, Len(data), p, q)
                  /\ StandsAt(rc, PlainAt(p, offset, blen), WeightedAt(p, q, offset, blen))
  BY DEF Rolled
<1>4. PlainAt(p, offset, blen) \in Int /\ WeightedAt(p, q, offset, blen) \in Int
  BY <1>1, <1>3, WindowTotals
<1>5. StandsAt(checksum1(Window(offset)), PlainAt(p, offset, blen), WeightedAt(p, q, offset, blen))
  BY <1>1, <1>3, WindowChecksum DEF Window
<1>6. Value(checksum1(Block(i))) = Value(rc)
  BY <1>2, <1>3, <1>4, <1>5, StandsValue
<1>7. i \in Candidates BY <1>2, <1>6 DEF Candidates
<1> QED BY <1>7

\* Every step of the search keeps it so.
LEMMA SearchStep == TileInv /\ Rolled /\ SearchInv /\ [Next]_vars => SearchInv'
<1> SUFFICES ASSUME TileInv, Rolled, SearchInv, [Next]_vars, StrongAgrees, blen' > 0
             PROVE  SearchInv'
  BY DEF SearchInv
<1>0. UNCHANGED <<data, basis, blen>>
  BY SameFiles
<1>1. /\ data \in Seq(Bytes) /\ Len(data) \in Nat /\ basis \in Seq(Bytes) /\ blen \in Nat /\ blen > 0
      /\ offset \in Nat /\ last \in Nat /\ ops \in Seq(OpSet)
      /\ pc = "scan" => last <= offset /\ offset + blen <= Len(data)
      /\ pc = "start" => ops = <<>> /\ offset = 0
      /\ last <= Len(data) /\ (ops = <<>> => last = 0)
  BY <1>0 DEF TileInv, Scanning
<1> DEFINE Clean(s) == \A j \in 1..Len(s) : s[j].k = "lit" =>
                         Unmatched(s[j].off, s[j].off + s[j].len - blen)
<1>2. /\ Clean(ops)
      /\ pc = "scan" => Unmatched(last, offset - 1)
      /\ pc = "tail" => Unmatched(last, Len(data) - blen)
  BY <1>1 DEF SearchInv
<1>4. \A a, z \in Int : z < a => Unmatched(a, z)
  BY DEF Unmatched
<1>5. \A a, b, z \in Int : b <= z /\ Unmatched(a, z) => Unmatched(a, b)
  <2> SUFFICES ASSUME NEW a \in Int, NEW b \in Int, NEW z \in Int, b <= z, Unmatched(a, z)
               PROVE  Unmatched(a, b)
    OBVIOUS
  <2>1. \A o \in a..b : o \in a..z OBVIOUS
  <2> QED BY <2>1 DEF Unmatched
<1>6. ASSUME Clean(ops'), pc' = "scan" => Unmatched(last', offset' - 1),
             pc' = "tail" => Unmatched(last', Len(data) - blen)
      PROVE  SearchInv'
  <2>1. \A j \in 1..Len(ops') : ops'[j].k = "lit" =>
            Unmatched(ops[j].off, ops[j].off + ops[j].len - blen)'
    BY <1>0, <1>6 DEF Unmatched
  <2>2. pc' = "scan" => Unmatched(last, offset - 1)' BY <1>0, <1>6 DEF Unmatched
  <2>3. pc' = "tail" => Unmatched(last, Len(data) - blen)' BY <1>0, <1>6 DEF Unmatched
  <2> QED BY <2>1, <2>2, <2>3 DEF SearchInv
\* Adding an operation.
<1>7. ASSUME NEW s \in Seq(OpSet), Clean(s), NEW x \in OpSet,
             x.k = "lit" => Unmatched(x.off, x.off + x.len - blen)
      PROVE  Append(s, x) \in Seq(OpSet) /\ Clean(Append(s, x))
  <2>1. Len(Append(s, x)) = Len(s) + 1 /\ Append(s, x) \in Seq(OpSet) OBVIOUS
  <2>2. ASSUME NEW j \in 1..(Len(s) + 1) PROVE (j \in 1..Len(s) /\ Append(s, x)[j] = s[j]) \/ Append(s, x)[j] = x
    OBVIOUS
  <2> QED BY <1>7, <2>1, <2>2
<1> HIDE DEF Clean
<1>8. CASE UNCHANGED <<offset, last, ops, pc>>
  BY <1>2, <1>6, <1>8
<1>9. CASE SendWhole
  <2>1. /\ pc' = "send" /\ Len(data) < blen
        /\ ops' = IF data = <<>> THEN <<>> ELSE <<Literal(0, Len(data))>>
    BY <1>1, <1>9 DEF SendWhole
  <2>2. Unmatched(0, 0 + Len(data) - blen) BY <1>1, <1>4, <2>1
  <2>3. Clean(ops')
    <3>1. CASE data = <<>>
      <4>1. ops' = <<>> BY <2>1, <3>1
      <4> QED BY <4>1 DEF Clean
    <3>2. CASE data # <<>>
      <4>1. ops' = <<Literal(0, Len(data))>> BY <2>1, <3>2
      <4>2. \A j \in 1..Len(ops') : ops'[j] = Literal(0, Len(data)) BY <4>1
      <4>3. /\ Literal(0, Len(data)).off = 0 /\ Literal(0, Len(data)).len \in Nat
            /\ Literal(0, Len(data)).len <= Len(data)
        BY <1>1, LiteralFacts
      <4>4. Literal(0, Len(data)).len - blen < 0 /\ Literal(0, Len(data)).len - blen \in Int
        BY <1>1, <2>1, <4>3
      <4>5. Unmatched(0, 0 + Literal(0, Len(data)).len - blen) BY <1>4, <4>4
      <4> QED BY <4>2, <4>3, <4>5 DEF Clean
    <3> QED BY <3>1, <3>2
  <2> QED BY <1>6, <2>1, <2>3
<1>10. CASE StartScan
  <2>1. pc = "start" /\ pc' = "scan" /\ UNCHANGED <<offset, last, ops>> BY <1>10 DEF StartScan
  <2>2. last = 0 /\ offset = 0 BY <1>1, <2>1
  <2>3. Unmatched(0, 0 - 1) BY <1>4
  <2> QED BY <1>2, <1>6, <2>1, <2>2, <2>3
<1>11. CASE Hit
  <2>1. PICK i \in Candidates :
            ops' = ops \o (IF offset > last THEN <<Literal(last, offset - last)>> ELSE <<>>)
                       \o <<Match(i, offset)>>
    BY <1>11 DEF Hit
  <2>2. /\ pc = "scan" /\ last' = offset + blen /\ offset' = offset + blen
        /\ IF offset + 2 * blen <= Len(data) THEN pc' = "scan" ELSE pc' = "tail"
    BY <1>11 DEF Hit
  <2>3. i \in Nat BY <2>1 DEF Candidates
  <2> DEFINE L == Literal(last, offset - last)
             M == Match(i, offset)
  <2>4. last <= offset /\ offset - last \in Nat BY <1>1, <2>2
  <2>5. L \in OpSet /\ L.off = last /\ L.len \in Nat /\ L.len <= offset - last
    BY <1>1, <2>4, LiteralFacts
  <2>6. M \in OpSet /\ M.k = "match" BY <1>1, <2>3 DEF Match, OpSet
  <2> HIDE DEF L, M
  <2>7. Unmatched(L.off, L.off + L.len - blen)
    <3>1. /\ L.off + L.len - blen <= offset - 1 /\ L.off + L.len - blen \in Int
          /\ offset - 1 \in Int /\ last \in Int
      BY <1>1, <2>4, <2>5
    <3>2. Unmatched(last, offset - 1) BY <1>2, <2>2
    <3> QED BY <1>5, <2>5, <3>1, <3>2
  <2>8. Clean(ops')
    <3>1. CASE offset > last
      <4>0. L \in OpSet BY <2>5
      <4>1. ops' = Append(Append(ops, L), M)
        <5>1. ops' = ops \o <<L>> \o <<M>> BY <2>1, <3>1 DEF L, M
        <5>2. ops \in Seq(OpSet) /\ L \in OpSet /\ M \in OpSet BY <1>1, <2>6, <4>0
        <5>3. ops \o <<L>> \o <<M>> = Append(Append(ops, L), M) BY ONLY <5>2, ConcatAppend
        <5> QED BY <5>1, <5>3
      <4>2. Append(ops, L) \in Seq(OpSet) /\ Clean(Append(ops, L))
        BY <1>1, <1>2, <1>7, <2>7, <4>0
      <4>3. Clean(Append(Append(ops, L), M)) BY <1>7, <2>6, <4>2
      <4> QED BY <4>1, <4>3
    <3>2. CASE ~(offset > last)
      <4>1. ops' = ops \o <<>> \o <<M>> BY <2>1, <3>2 DEF M
      <4>2. ops' = Append(ops, M) BY <1>1, <2>6, <4>1, ConcatAppend
      <4> QED BY <1>1, <1>2, <1>7, <2>6, <4>2
    <3> QED BY <3>1, <3>2
  <2>9. Unmatched(offset + blen, (offset + blen) - 1)
    <3>1. offset + blen \in Int /\ (offset + blen) - 1 \in Int /\ (offset + blen) - 1 < offset + blen
      BY <1>1
    <3> QED BY <1>4, <3>1
  <2>10. pc' = "tail" => Unmatched(offset + blen, Len(data) - blen)
    <3>1. pc' = "tail" => /\ offset + blen \in Int /\ Len(data) - blen \in Int
                          /\ Len(data) - blen < offset + blen
      BY <1>1, <2>2
    <3> QED BY <1>4, <3>1
  <2> QED BY <1>6, <2>2, <2>8, <2>9, <2>10
<1>12. ASSUME pc = "scan", Candidates = {} PROVE Unmatched(last, offset)
  <2> SUFFICES ASSUME NEW i \in 0..Len(basis), (i + 1) * blen <= Len(basis),
                      NEW o \in last..offset
               PROVE  Slice(basis, i * blen, (i + 1) * blen) # Slice(data, o, o + blen)
    BY DEF Unmatched
  <2>1. CASE o = offset BY <1>12, <2>1, NoCandidate, i \in Nat
  <2>2. CASE o # offset
    <3>1. o \in last..(offset - 1) BY <1>1, <2>2
    <3> QED BY <1>2, <1>12, <3>1 DEF Unmatched
  <2> QED BY <2>1, <2>2
<1>13. CASE Slide
  <2>1. pc = "scan" /\ Candidates = {} /\ offset' = offset + 1 /\ UNCHANGED <<last, ops, pc>>
    BY <1>13 DEF Slide
  <2>2. (offset + 1) - 1 = offset BY <1>1
  <2> QED BY <1>2, <1>6, <1>12, <2>1, <2>2
<1>14. CASE Stop
  <2>1. /\ pc = "scan" /\ Candidates = {} /\ offset >= Len(data) - blen
        /\ pc' = "tail" /\ UNCHANGED <<last, ops>>
    BY <1>14 DEF Stop
  <2>2. Unmatched(last, offset) BY <1>12, <2>1
  <2>3. Len(data) - blen \in Int /\ Len(data) - blen <= offset BY <1>1, <2>1
  <2>4. Unmatched(last, Len(data) - blen) BY <1>1, <1>5, <2>2, <2>3
  <2> QED BY <1>2, <1>6, <2>1, <2>4
<1>15. CASE Trailing
  <2>1. /\ pc = "tail" /\ pc' = "send"
        /\ ops' = IF last < Len(data) THEN Append(ops, Literal(last, Len(data) - last)) ELSE ops
    BY <1>15 DEF Trailing
  <2> DEFINE L == Literal(last, Len(data) - last)
  <2>2. L \in OpSet /\ L.off = last /\ L.len \in Nat /\ L.len <= Len(data) - last
    <3>1. Len(data) - last \in Nat BY <1>1
    <3> QED BY <1>1, <3>1, LiteralFacts
  <2> HIDE DEF L
  <2>3. /\ L.off + L.len - blen <= Len(data) - blen /\ L.off + L.len - blen \in Int
        /\ Len(data) - blen \in Int /\ last \in Int
    BY <1>1, <2>2
  <2>4. Unmatched(L.off, L.off + L.len - blen) BY <1>2, <1>5, <2>1, <2>2, <2>3
  <2>5. Clean(Append(ops, L)) BY <1>1, <1>2, <1>7, <2>2, <2>4
  <2>6. Clean(ops') BY <1>2, <2>1, <2>5 DEF L
  <2> QED BY <1>6, <2>1, <2>6
<1>16. CASE SendLiteral \/ WriteChunk \/ SendMatch \/ SendEof
  <2>1. ops' = ops /\ pc' \in {"send", "done"}
    BY <1>16 DEF SendLiteral, WriteChunk, SendMatch, SendEof, Writing
  <2> QED BY <1>2, <1>6, <2>1
<1>17. CASE Receiver \/ Finished \/ UNCHANGED vars
  BY <1>8, <1>17 DEF Receiver, RecvLiteral, RecvMatch, RecvEof, Reading, Finished, vars
<1> QED BY <1>9, <1>10, <1>11, <1>13, <1>14, <1>15, <1>16, <1>17 DEF Next, Sender

\* For every pair of files and every block length, no literal of the delta
\* contains a whole block of the basis: the search steps over no window and
\* rejects no block that is there (find_matches_seeded).
THEOREM NoMissedMatchHolds == Spec => []NoMissedMatch
<1>1. Init => TileInv /\ Rolled /\ SearchInv BY TileInit DEF Init, Rolled, SearchInv
<1>2. TileInv /\ Rolled /\ SearchInv /\ [Next]_vars => (TileInv /\ Rolled /\ SearchInv)'
  BY TileStep, RolledStep, SearchStep
<1>3. SearchInv => NoMissedMatch BY DEF SearchInv, Unmatched, NoMissedMatch
<1> QED BY <1>1, <1>2, <1>3, PTL DEF Spec

-----------------------------------------------------------------------------
(* The deflated token stream: what its frames say.                         *)

OpValues == Blocks \cup {Lit}
FrameSet == [k : {"data", "rel", "long", "end"}, v : Int, run : Nat, d : Seq(Int \X Int)]
EncSet   == [last_token : Int, run_start : Int, last_run_end : Int, run_open : BOOLEAN,
             pending : Nat, dict : Seq(Int \X Int), out : Seq(FrameSet)]
RxSet    == [state : {"idle", "inflated", "running", "end"}, token : Int, run : Nat,
             dict : Seq(Int \X Int)]

\* The delta: literals apart from each other, the matches in one piece.
OpsInv ==
    /\ delta \in Seq(OpValues)
    /\ \A i \in 1..(Len(delta) - 1) : delta[i] # Lit \/ delta[i+1] # Lit
    /\ \A i, j, k \in 1..Len(delta) :
         i < j /\ j < k /\ delta[i] # Lit /\ delta[j] = Lit => delta[k] = Lit

\* The dictionary behind the first n operations.
DictOf(n) == [i \in 1..n |-> IF delta[i] = Lit THEN <<Lit, i>> ELSE <<delta[i], 0>>]

\* The block number that one relative to it is added to, behind p operations.
Before(p) == IF p = 0 \/ delta[p] = Lit THEN 0 ELSE delta[p]

\* How many operations a frame stands for, the first block of a run, and that
\* it stands for the operations behind the first p.
Size(f) == IF f.k = "end" THEN 0 ELSE IF f.k = "data" THEN 1 ELSE f.run + 1

FirstBlock(f, p) == IF f.k = "rel" THEN Before(p) + f.v ELSE f.v

Says(f, p) ==
    /\ f.k = "data" => /\ p + 1 <= Len(delta) /\ delta[p + 1] = Lit
                       /\ f.v = p + 1 /\ f.d = DictOf(p)
    /\ f.k \in {"rel", "long"} =>
         /\ p + f.run + 1 <= Len(delta)
         /\ \A i \in 0..f.run : /\ delta[p + 1 + i] # Lit
                                /\ delta[p + 1 + i] = FirstBlock(f, p) + i
    /\ f.k = "end" => p = Len(delta)

\* The frames of w stand for the operations from the a-th on to the z-th.
Covers(w, a, z) ==
    \E pos \in [0..Len(w) -> Nat] :
        /\ pos[0] = a /\ pos[Len(w)] = z
        /\ \A j \in 1..Len(w) : Says(w[j], pos[j-1]) /\ pos[j] = pos[j-1] + Size(w[j])

\* Blocks of the run a writer in state e has not written.
OpenOf(e) == IF e.run_open THEN e.last_token - e.run_start + 1 ELSE 0

\* A writer in state e has p operations in its dictionary, the last of them
\* in its open run.
Ready(e, p) ==
    /\ e \in EncSet
    /\ e.dict = DictOf(p)
    /\ e.last_token = -1 => ~e.run_open /\ e.last_run_end = 0 /\ \A i \in 1..p : delta[i] = Lit
    /\ e.run_open =>
         /\ OpenOf(e) \in 1..RunLimit /\ OpenOf(e) <= p
         /\ \A i \in 0..(OpenOf(e) - 1) : delta[p - i] # Lit /\ delta[p - i] = e.last_token - i
         /\ e.last_run_end = Before(p - OpenOf(e))

\* Operations handed to the writer, and those in its dictionary.
Taken == IF next > Len(delta) THEN Len(delta) ELSE next - 1
Fed   == IF enc.pending = None THEN Taken ELSE Taken - 1

WriterInv ==
    /\ next \in 1..(Len(delta) + 2)
    /\ Ready(enc, Fed) /\ enc.out = <<>>
    /\ next <= Len(delta) + 1 =>
         /\ enc.last_token # -1 => enc.run_open
         /\ enc.pending = IF Taken > 0 /\ delta[Taken] = Lit THEN Taken ELSE None
    /\ next = Len(delta) + 2 => ~enc.run_open /\ enc.pending = None

ReaderInv ==
    /\ rx \in RxSet
    /\ got \in Seq(OpValues) /\ Len(got) + rx.run <= Len(delta)
    /\ \A i \in 1..Len(got) : got[i] = delta[i]
    /\ rx.dict = DictOf(Len(got))
    /\ rx.state = "running" <=> rx.run > 0
    /\ \A i \in 1..rx.run : delta[Len(got) + i] # Lit /\ delta[Len(got) + i] = rx.token + i
    /\ rx.state = "end" => Len(got) = Len(delta)
    /\ rx.state = "inflated" => Len(got) > 0 /\ delta[Len(got)] = Lit
    /\ Len(got) > 0 /\ delta[Len(got)] # Lit => rx.token = delta[Len(got)]
    /\ (\A i \in 1..Len(got) : delta[i] = Lit) => rx.token = 0

WireInv == frames \in Seq(FrameSet) /\ Covers(frames, Len(got) + rx.run, Fed - OpenOf(enc))

DeflateInv == OpsInv /\ WriterInv /\ ReaderInv /\ WireInv

-----------------------------------------------------------------------------
(* Sequences of frames.                                                    *)

\* A frame written behind the others.
LEMMA CoversAppend ==
    ASSUME NEW w \in Seq(FrameSet), NEW a, NEW z \in Nat, Covers(w, a, z),
           NEW f \in FrameSet, Says(f, z)
    PROVE  /\ Append(w, f) \in Seq(FrameSet)
           /\ Covers(Append(w, f), a, z + Size(f))
<1> DEFINE n == Len(w)
           v == Append(w, f)
<1>1. PICK pos \in [0..n -> Nat] :
        /\ pos[0] = a /\ pos[n] = z
        /\ \A j \in 1..n : Says(w[j], pos[j-1]) /\ pos[j] = pos[j-1] + Size(w[j])
  BY DEF Covers
<1>2. n \in Nat /\ v \in Seq(FrameSet) /\ Len(v) = n + 1 /\ v[n + 1] = f
      /\ \A j \in 1..n : v[j] = w[j]
  OBVIOUS
<1>3. z + Size(f) \in Nat BY DEF Size, FrameSet
<1> DEFINE new == [j \in 0..(n + 1) |-> IF j <= n THEN pos[j] ELSE z + Size(f)]
<1> HIDE DEF n, v
<1>4. new \in [0..(n + 1) -> Nat] /\ new[0] = a /\ new[n + 1] = z + Size(f)
      /\ \A j \in 0..n : new[j] = pos[j]
  BY <1>1, <1>2, <1>3
<1> HIDE DEF new
<1>5. ASSUME NEW j \in 1..(n + 1) PROVE Says(v[j], new[j-1]) /\ new[j] = new[j-1] + Size(v[j])
  <2>1. CASE j \in 1..n
    <3>1. j \in 0..n /\ j - 1 \in 0..n BY <1>2, <2>1
    <3> QED BY <1>1, <1>2, <1>4, <2>1, <3>1
  <2>2. CASE j = n + 1
    <3>1. j - 1 = n /\ n \in 0..n BY <1>2, <2>2
    <3> QED BY <1>1, <1>2, <1>4, <2>2, <3>1
  <2> QED BY <1>2, <2>1, <2>2
<1>6. Covers(v, a, z + Size(f)) BY <1>2, <1>4, <1>5 DEF Covers
<1> QED BY <1>2, <1>6 DEF v

\* The first frame read.
LEMMA CoversTail ==
    ASSUME NEW w \in Seq(FrameSet), w # <<>>, NEW a, NEW z, Covers(w, a, z)
    PROVE  /\ Tail(w) \in Seq(FrameSet) /\ w[1] \in FrameSet
           /\ Says(w[1], a)
           /\ Covers(Tail(w), a + Size(w[1]), z)
<1> DEFINE n == Len(w)
           v == Tail(w)
<1>1. PICK pos \in [0..n -> Nat] :
        /\ pos[0] = a /\ pos[n] = z
        /\ \A j \in 1..n : Says(w[j], pos[j-1]) /\ pos[j] = pos[j-1] + Size(w[j])
  BY DEF Covers
<1>2. n \in Nat /\ n > 0 /\ v \in Seq(FrameSet) /\ Len(v) = n - 1 /\ w[1] \in FrameSet
      /\ \A j \in 1..(n - 1) : v[j] = w[j + 1]
  OBVIOUS
<1> DEFINE new == [j \in 0..(n - 1) |-> pos[j + 1]]
<1> HIDE DEF n, v
<1>3. 1 \in 1..n /\ 1 - 1 = 0 /\ Says(w[1], a) /\ pos[1] = a + Size(w[1])
  <2>1. 1 \in 1..n /\ 1 - 1 = 0 BY <1>2
  <2> QED BY <1>1, <2>1
<1>4. new \in [0..(n - 1) -> Nat] /\ \A j \in 0..(n - 1) : new[j] = pos[j + 1]
  BY <1>1, <1>2
<1>5. new[0] = a + Size(w[1]) /\ new[n - 1] = z
  <2>1. 0 \in 0..(n - 1) /\ n - 1 \in 0..(n - 1) /\ (n - 1) + 1 = n /\ 0 + 1 = 1 BY <1>2
  <2> QED BY <1>1, <1>3, <1>4, <2>1
<1> HIDE DEF new
<1>6. ASSUME NEW j \in 1..(n - 1) PROVE Says(v[j], new[j-1]) /\ new[j] = new[j-1] + Size(v[j])
  <2>1. j \in 0..(n - 1) /\ j - 1 \in 0..(n - 1) /\ j + 1 \in 1..n /\ (j + 1) - 1 = j
        /\ (j - 1) + 1 = j
    BY <1>2
  <2>2. v[j] = w[j + 1] /\ new[j] = pos[j + 1] BY <1>2, <1>4, <2>1
  <2>3. new[j - 1] = pos[j] BY <1>4, <2>1
  <2>4. Says(w[j + 1], pos[j]) /\ pos[j + 1] = pos[j] + Size(w[j + 1]) BY <1>1, <2>1
  <2> QED BY <2>2, <2>3, <2>4
<1>7. Covers(v, a + Size(w[1]), z) BY <1>2, <1>4, <1>5, <1>6 DEF Covers
<1> QED BY <1>2, <1>3, <1>7 DEF v

-----------------------------------------------------------------------------
(* The writer.                                                             *)

\* Everything up to the open run of a writer in state e is on the wire, or
\* about to be.
Writes(e, p, a) ==
    /\ Ready(e, p)
    /\ frames \o e.out \in Seq(FrameSet)
    /\ Covers(frames \o e.out, a, p - OpenOf(e))

\* The dictionary grows by an entry for each operation.
LEMMA DictNext ==
    ASSUME OpsInv, NEW p \in Nat, p < Len(delta)
    PROVE  /\ DictOf(p) \in Seq(Int \X Int) /\ Len(DictOf(p)) = p
           /\ DictOf(p + 1) = Append(DictOf(p), IF delta[p + 1] = Lit THEN <<Lit, p + 1>>
                                                ELSE <<delta[p + 1], 0>>)
<1> DEFINE entry(i) == IF delta[i] = Lit THEN <<Lit, i>> ELSE <<delta[i], 0>>
<1>1. \A i \in 1..Len(delta) : delta[i] \in Int
  BY DeflateAssumption DEF OpsInv, OpValues, Blocks, Lit
<1>2. \A i \in 1..Len(delta) : entry(i) \in Int \X Int BY <1>1 DEF Lit
<1>3. DictOf(p) = [i \in 1..p |-> entry(i)] /\ DictOf(p + 1) = [i \in 1..(p + 1) |-> entry(i)]
  BY DEF DictOf
<1> HIDE DEF entry
<1>4. Len(delta) \in Nat BY DEF OpsInv
<1>5. DictOf(p) \in Seq(Int \X Int) /\ Len(DictOf(p)) = p BY <1>2, <1>3, <1>4
<1>6. DictOf(p + 1) = Append(DictOf(p), entry(p + 1)) BY <1>3, <1>4, <1>5
<1> QED BY <1>5, <1>6 DEF entry

\* A frame added to those of this call.
LEMMA EmitWire ==
    ASSUME NEW w \in Seq(FrameSet), NEW o \in Seq(FrameSet), NEW f \in FrameSet
    PROVE  w \o Append(o, f) = Append(w \o o, f)
  OBVIOUS

\* The frame close_run writes.
RunFrame(e) ==
    LET r == e.run_start - e.last_run_end
        n == e.last_token - e.run_start
    IN  IF r \in 0..(RelLimit - 1) THEN Frame("rel", r, n % RunLimit, <<>>)
        ELSE Frame("long", e.run_start, n % RunLimit, <<>>)

\* close_run changes only the output and the end of the last run.
LEMMA CloseFields ==
    ASSUME NEW e \in EncSet, RunFrame(e) \in FrameSet
    PROVE  LET c == close_run(e)
           IN  /\ c \in EncSet /\ c.out = Append(e.out, RunFrame(e))
               /\ c.last_run_end = e.last_token /\ c.run_open = FALSE
               /\ c.last_token = e.last_token /\ c.run_start = e.run_start
               /\ c.pending = e.pending /\ c.dict = e.dict
<1> DEFINE f == RunFrame(e)
<1>1. close_run(e) = [[e EXCEPT !.out = Append(@, f)] EXCEPT !.last_run_end = e.last_token,
                                                            !.run_open = FALSE]
  BY DEF close_run, RunFrame, Emit
<1> HIDE DEF f
<1>2. Append(e.out, f) \in Seq(FrameSet) BY DEF EncSet, f
<1> QED BY <1>1, <1>2 DEF EncSet, f

\* A remainder by a greater number.
LEMMA SmallMod ==
    ASSUME NEW m \in Nat \ {0}, NEW x \in 0..(m - 1)
    PROVE  x % m = x
  OBVIOUS

\* close_run writes the whole run, however long and wherever it starts.
LEMMA CloseWrites ==
    ASSUME OpsInv, NEW e, NEW p \in Nat, p <= Len(delta), NEW a, Writes(e, p, a), e.run_open
    PROVE  /\ Writes(close_run(e), p, a)
           /\ ~close_run(e).run_open /\ close_run(e).pending = e.pending
           /\ close_run(e).last_token = e.last_token /\ close_run(e).last_run_end = Before(p)
           /\ e.last_token # -1
<1> DEFINE f == RunFrame(e)
           m == OpenOf(e)
           c == close_run(e)
           q == p - m
<1>1. /\ e \in EncSet /\ e.dict = DictOf(p) /\ e.last_token # -1
      /\ m \in 1..RunLimit /\ m <= p /\ e.last_run_end = Before(q)
      /\ \A i \in 0..(m - 1) : delta[p - i] # Lit /\ delta[p - i] = e.last_token - i
  BY DEF Writes, Ready
<1>2. m = e.last_token - e.run_start + 1 /\ e.last_token \in Int /\ e.run_start \in Int
      /\ e.last_run_end \in Int
  BY <1>1 DEF OpenOf, EncSet
<1> HIDE DEF m
<1>3. q \in Nat /\ q + m = p BY <1>1
<1>4. (e.last_token - e.run_start) % RunLimit = m - 1 /\ m - 1 \in Nat
  <2>1. PICK lt \in Int, rs \in Int : lt = e.last_token /\ rs = e.run_start BY <1>2
  <2>2. RunLimit \in Nat \ {0} /\ lt - rs \in 0..(RunLimit - 1) /\ lt - rs = m - 1
    <3>1. m \in 1..RunLimit /\ m = lt - rs + 1 BY <1>1, <1>2, <2>1
    <3>2. RunLimit \in Nat \ {0} BY DeflateAssumption
    <3>3. PICK n \in Int : n = m BY <3>1, <3>2
    <3>4. n \in 1..RunLimit /\ n = lt - rs + 1 BY <3>1, <3>3
    <3>5. lt - rs = n - 1 /\ n - 1 \in 0..(RunLimit - 1) BY <3>2, <3>4
    <3> QED BY <3>2, <3>3, <3>5
  <2>3. PICK x \in 0..(RunLimit - 1) : x = lt - rs BY <2>2
  <2>4. x % RunLimit = x BY <2>2, SmallMod
  <2> QED BY <2>1, <2>2, <2>3, <2>4
<1>5. f \in FrameSet /\ f.run = m - 1 /\ f.k \in {"rel", "long"} /\ FirstBlock(f, q) = e.run_start
  <2> DEFINE r == e.run_start - e.last_run_end
  <2>0. <<>> \in Seq(Int \X Int) /\ r \in Int BY <1>2
  <2>1. CASE r \in 0..(RelLimit - 1)
    <3>1. f = [k |-> "rel", v |-> r, run |-> m - 1, d |-> <<>>]
      BY <1>4, <2>1 DEF RunFrame, Frame
    <3>2. Before(q) + r = e.run_start BY <1>1, <1>2
    <3> HIDE DEF f, r
    <3> QED BY <1>4, <2>0, <3>1, <3>2 DEF FrameSet, FirstBlock
  <2>2. CASE r \notin 0..(RelLimit - 1)
    <3>1. f = [k |-> "long", v |-> e.run_start, run |-> m - 1, d |-> <<>>]
      BY <1>4, <2>2 DEF RunFrame, Frame
    <3> HIDE DEF f
    <3> QED BY <1>2, <1>4, <2>0, <3>1 DEF FrameSet, FirstBlock
  <2> QED BY <2>1, <2>2
<1>6. Says(f, q) /\ Size(f) = m
  <2>1. q + (m - 1) + 1 = p /\ q + (m - 1) + 1 <= Len(delta) BY <1>1, <1>3
  <2>2. ASSUME NEW i \in 0..(m - 1)
        PROVE  delta[q + 1 + i] # Lit /\ delta[q + 1 + i] = e.run_start + i
    <3>1. (m - 1) - i \in 0..(m - 1) /\ p - ((m - 1) - i) = q + 1 + i
          /\ e.last_token - ((m - 1) - i) = e.run_start + i
      <4>1. PICK lt \in Int, rs \in Int, n \in Int :
              lt = e.last_token /\ rs = e.run_start /\ n = m /\ n = lt - rs + 1
        BY <1>1, <1>2, SMTT(40)
      <4>2. (n - 1) - i \in 0..(n - 1) /\ lt - ((n - 1) - i) = rs + i
        <5>1. i \in 0..(n - 1) /\ n = lt - rs + 1 BY <4>1
        <5>2. \A x, y, z \in Int : z = x - y + 1 =>
                \A j \in 0..(z - 1) : (z - 1) - j \in 0..(z - 1) /\ x - ((z - 1) - j) = y + j
          OBVIOUS
        <5> QED BY <5>1, <5>2
      <4>3. p - ((n - 1) - i) = (p - n) + 1 + i BY <4>1
      <4> QED BY <4>1, <4>2, <4>3
    <3> QED BY <1>1, <3>1
  <2>3. (m - 1) + 1 = m BY <1>1
  <2> HIDE DEF f
  <2> QED BY <1>5, <2>1, <2>2, <2>3 DEF Says, Size
<1> HIDE DEF f, q
<1>7. /\ c \in EncSet /\ c.out = Append(e.out, f)
      /\ c.last_run_end = e.last_token /\ c.run_open = FALSE
      /\ c.last_token = e.last_token /\ c.run_start = e.run_start
      /\ c.pending = e.pending /\ c.dict = e.dict
  BY <1>1, <1>5, CloseFields DEF f
<1> HIDE DEF c
<1>8. frames \o e.out \in Seq(FrameSet) /\ Covers(frames \o e.out, a, q) BY DEF Writes, q, m
<1>9. frames \o c.out = Append(frames \o e.out, f)
  <2>1. frames \in Seq(FrameSet) /\ e.out \in Seq(FrameSet) BY <1>1, <1>8 DEF EncSet
  <2> QED BY <1>5, <1>7, <2>1, EmitWire
<1>10. frames \o c.out \in Seq(FrameSet) /\ Covers(frames \o c.out, a, p)
  BY <1>3, <1>5, <1>6, <1>8, <1>9, CoversAppend
<1>11. OpenOf(c) = 0 /\ p - 0 = p BY <1>7 DEF OpenOf
<1>12. Ready(c, p) BY <1>1, <1>7 DEF Ready
<1>13. e.last_token = Before(p)
  <2>1. 0 \in 0..(m - 1) /\ p - 0 = p /\ p # 0 /\ e.last_token - 0 = e.last_token BY <1>1, <1>2
  <2> QED BY <1>1, <2>1 DEF Before
<1> QED BY <1>1, <1>7, <1>10, <1>11, <1>12, <1>13 DEF Writes, c

\* flush_pending_literal writes the literal with the dictionary before it.
LEMMA FlushWrites ==
    ASSUME OpsInv, NEW e, NEW p \in Nat, p < Len(delta), NEW a, Writes(e, p, a), ~e.run_open,
           e.pending = p + 1, delta[p + 1] = Lit
    PROVE  LET g == flush_pending_literal(e)
           IN  /\ Writes(g, p + 1, a)
               /\ ~g.run_open /\ g.pending = None /\ g.last_token = e.last_token
<1> DEFINE f == Frame("data", p + 1, 0, e.dict)
           x == <<Lit, p + 1>>
           g == flush_pending_literal(e)
<1>1. e \in EncSet /\ e.dict = DictOf(p) /\ OpenOf(e) = 0 /\ p - 0 = p
      /\ (e.last_token = -1 => e.last_run_end = 0 /\ \A i \in 1..p : delta[i] = Lit)
  BY DEF Writes, Ready, OpenOf
<1>2. frames \o e.out \in Seq(FrameSet) /\ Covers(frames \o e.out, a, p)
  BY <1>1 DEF Writes
<1>3. e.dict \in Seq(Int \X Int) /\ DictOf(p + 1) = Append(e.dict, x)
  BY <1>1, DictNext
<1>4. f \in FrameSet /\ f.k = "data" /\ f.v = p + 1 /\ f.d = e.dict
  BY <1>3 DEF Frame, FrameSet
<1>5. Says(f, p) /\ Size(f) = 1
  <2> HIDE DEF f
  <2> QED BY <1>1, <1>4, p + 1 <= Len(delta) DEF Says, Size, OpsInv
<1>6. x \in Int \X Int BY DEF Lit
<1>7. e.pending # None BY DEF None
<1>8. g = [[e EXCEPT !.out = Append(@, f)] EXCEPT !.pending = None, !.dict = Append(@, x)]
  BY <1>7 DEF flush_pending_literal, Emit
<1> HIDE DEF f, g, x
<1>9. Append(e.out, f) \in Seq(FrameSet) /\ Append(e.dict, x) \in Seq(Int \X Int) /\ None \in Nat
  BY <1>1, <1>3, <1>4, <1>6 DEF EncSet, None
<1>10. /\ g \in EncSet /\ g.out = Append(e.out, f) /\ g.pending = None
       /\ g.dict = Append(e.dict, x) /\ g.run_open = e.run_open
       /\ g.last_token = e.last_token /\ g.last_run_end = e.last_run_end
  BY <1>1, <1>8, <1>9 DEF EncSet
<1>11. frames \o g.out = Append(frames \o e.out, f)
  <2>1. frames \in Seq(FrameSet) /\ e.out \in Seq(FrameSet) BY <1>1, <1>2 DEF EncSet
  <2> QED BY <1>4, <1>10, <2>1, EmitWire
<1>12. frames \o g.out \in Seq(FrameSet) /\ Covers(frames \o g.out, a, p + 1)
  BY <1>2, <1>4, <1>5, <1>11, CoversAppend
<1>13. OpenOf(g) = 0 /\ (p + 1) - 0 = p + 1 BY <1>10 DEF OpenOf
<1>14. Ready(g, p + 1)
  <2>1. \A i \in 1..(p + 1) : i \in 1..p \/ i = p + 1 OBVIOUS
  <2> QED BY <1>1, <1>3, <1>10, <2>1 DEF Ready
<1> QED BY <1>10, <1>12, <1>13, <1>14 DEF Writes, g

\* The writer at the first block of a run, and at a further one.
LEMMA StartFields ==
    ASSUME NEW c \in EncSet, NEW t \in Int
    PROVE  LET h == [c EXCEPT !.run_start = t, !.last_token = t, !.run_open = TRUE]
           IN  /\ h \in EncSet /\ h.run_start = t /\ h.last_token = t /\ h.run_open = TRUE
               /\ h.dict = c.dict /\ h.out = c.out /\ h.pending = c.pending
               /\ h.last_run_end = c.last_run_end
  BY DEF EncSet

\* A run that grows changes only the last token.
LEMMA GrowFields ==
    ASSUME NEW c \in EncSet, NEW t \in Int
    PROVE  LET h == [c EXCEPT !.last_token = t]
           IN  /\ h \in EncSet /\ h.run_start = c.run_start /\ h.last_token = t
               /\ h.run_open = c.run_open /\ h.dict = c.dict /\ h.out = c.out
               /\ h.pending = c.pending /\ h.last_run_end = c.last_run_end
  BY DEF EncSet

\* emit_token and feed_dict_bytes take a match up into the run or begin one.
LEMMA MatchWrites ==
    ASSUME OpsInv, NEW e, NEW p \in Nat, p < Len(delta), NEW a, Writes(e, p, a),
           delta[p + 1] # Lit, e.last_token # -1 => e.run_open
    PROVE  LET g == feed_dict_bytes(emit_token(e, delta[p + 1]), delta[p + 1])
           IN  /\ Writes(g, p + 1, a)
               /\ g.run_open /\ g.pending = e.pending
<1> DEFINE t == delta[p + 1]
           x == <<t, 0>>
           h == emit_token(e, t)
           g == feed_dict_bytes(h, t)
<1>1. e \in EncSet /\ e.dict = DictOf(p) /\ frames \o e.out \in Seq(FrameSet)
  BY DEF Writes, Ready
<1>2. e.dict \in Seq(Int \X Int) /\ DictOf(p + 1) = Append(e.dict, x)
  BY <1>1, DictNext
<1>3. t \in Nat /\ t # -1 /\ x \in Int \X Int
  <2>1. p + 1 \in 1..Len(delta) BY DEF OpsInv
  <2>2. t \in OpValues BY <2>1 DEF OpsInv
  <2> QED BY <2>2, DeflateAssumption DEF OpValues, Blocks, Lit
<1>4. g = [h EXCEPT !.dict = Append(@, x)] BY DEF feed_dict_bytes
<1> HIDE DEF g, h, x, t
\* What a new run makes of a writer whose runs are all written.
<1>5. ASSUME NEW c, Writes(c, p, a), ~c.run_open, c.last_run_end = Before(p),
             c.pending = e.pending,
             h = [c EXCEPT !.run_start = t, !.last_token = t, !.run_open = TRUE]
      PROVE  Writes(g, p + 1, a) /\ g.run_open /\ g.pending = e.pending
  <2>1. c \in EncSet /\ c.dict = e.dict /\ OpenOf(c) = 0 /\ p - 0 = p
    BY <1>1, <1>5 DEF Writes, Ready, OpenOf
  <2>2. frames \o c.out \in Seq(FrameSet) /\ Covers(frames \o c.out, a, p)
    BY <1>5, <2>1 DEF Writes
  <2>3. Append(c.dict, x) \in Seq(Int \X Int) BY <1>2, <1>3, <2>1
  <2>4. /\ g \in EncSet /\ g.run_start = t /\ g.last_token = t /\ g.run_open = TRUE
        /\ g.dict = Append(c.dict, x) /\ g.out = c.out /\ g.pending = c.pending
        /\ g.last_run_end = c.last_run_end
    <3>1. /\ h \in EncSet /\ h.run_start = t /\ h.last_token = t /\ h.run_open = TRUE
          /\ h.dict = c.dict /\ h.out = c.out /\ h.pending = c.pending
          /\ h.last_run_end = c.last_run_end
      <4>1. t \in Int BY <1>3
      <4> QED BY <1>5, <2>1, <4>1, StartFields
    <3> QED BY <1>4, <2>3, <3>1 DEF EncSet
  <2>5. OpenOf(g) = 1 BY <1>3, <2>4 DEF OpenOf
  <2>6. (p + 1) - 1 = p OBVIOUS
  <2>7. \A i \in 0..(1 - 1) : delta[(p + 1) - i] # Lit /\ delta[(p + 1) - i] = t - i
    <3>1. \A i \in 0..(1 - 1) : i = 0 OBVIOUS
    <3>2. (p + 1) - 0 = p + 1 /\ t - 0 = t BY <1>3
    <3> QED BY <3>1, <3>2 DEF t
  <2>8. Ready(g, p + 1)
    <3>1. 1 \in 1..RunLimit /\ 1 <= p + 1 BY DeflateAssumption
    <3> QED BY <1>2, <1>3, <1>5, <2>1, <2>4, <2>5, <2>6, <2>7, <3>1 DEF Ready
  <2> QED BY <1>5, <2>2, <2>4, <2>5, <2>6, <2>8 DEF Writes
<1>6. CASE e.last_token = -1
  <2>1. h = [e EXCEPT !.run_start = t, !.last_token = t, !.run_open = TRUE]
    BY <1>6 DEF h, emit_token
  <2>2. ~e.run_open /\ e.last_run_end = 0 /\ \A i \in 1..p : delta[i] = Lit
    BY <1>6 DEF Writes, Ready
  <2>3. Before(p) = 0 BY <2>2 DEF Before
  <2> QED BY <1>5, <2>1, <2>2, <2>3 DEF g, h, x, t
<1>7. CASE e.last_token # -1 /\ t = e.last_token + 1 /\ t < e.run_start + RunLimit
  <2>1. h = [e EXCEPT !.last_token = t] BY <1>7 DEF h, emit_token
  <2>2. Append(e.dict, x) \in Seq(Int \X Int) BY <1>2, <1>3
  <2>3. /\ g \in EncSet /\ g.run_start = e.run_start /\ g.last_token = t /\ g.run_open = e.run_open
        /\ g.dict = Append(e.dict, x) /\ g.out = e.out /\ g.pending = e.pending
        /\ g.last_run_end = e.last_run_end
    <3>1. /\ h \in EncSet /\ h.run_start = e.run_start /\ h.last_token = t
          /\ h.run_open = e.run_open /\ h.dict = e.dict /\ h.out = e.out
          /\ h.pending = e.pending /\ h.last_run_end = e.last_run_end
      <4>1. t \in Int BY <1>3
      <4> QED BY <1>1, <2>1, <4>1, GrowFields
    <3> QED BY <1>4, <2>2, <3>1 DEF EncSet
  <2>4. e.run_open BY <1>7
  <2> DEFINE m == OpenOf(e)
  <2>5. /\ m \in 1..RunLimit /\ m <= p /\ e.last_run_end = Before(p - m)
        /\ \A i \in 0..(m - 1) : delta[p - i] # Lit /\ delta[p - i] = e.last_token - i
        /\ Covers(frames \o e.out, a, p - m)
    BY <2>4 DEF Writes, Ready
  <2>6. m = e.last_token - e.run_start + 1 /\ OpenOf(g) = t - e.run_start + 1
    BY <2>3, <2>4 DEF OpenOf
  <2>7. PICK lt \in Int, rs \in Int, n \in Int, b \in Int :
          lt = e.last_token /\ rs = e.run_start /\ n = m /\ b = t
    <3>1. e.last_token \in Int /\ e.run_start \in Int BY <1>1 DEF EncSet
    <3>2. m \in Int BY <2>6, <3>1
    <3> QED BY <1>3, <3>1, <3>2
  <2>7a. n = lt - rs + 1 /\ b = lt + 1 /\ b < rs + RunLimit /\ OpenOf(g) = b - rs + 1
    BY <1>7, <2>6, <2>7
  <2> HIDE DEF m
  <2>8. OpenOf(g) = n + 1 /\ (p + 1) - (n + 1) = p - n BY <2>7a
  <2>9. n \in 1..RunLimit /\ n <= p /\ RunLimit \in Nat BY <2>5, <2>7, DeflateAssumption
  <2>10. n + 1 \in 1..RunLimit /\ n + 1 <= p + 1 BY <2>7a, <2>9
  <2>11. ASSUME NEW i \in 0..((n + 1) - 1) PROVE delta[(p + 1) - i] # Lit /\ delta[(p + 1) - i] = t - i
    <3>1. CASE i = 0
      <4>1. (p + 1) - i = p + 1 /\ t - i = t BY <1>3, <3>1
      <4> QED BY <4>1 DEF t
    <3>2. CASE i # 0
      <4>1. i - 1 \in 0..(n - 1) /\ p - (i - 1) = (p + 1) - i /\ lt - (i - 1) = b - i
        BY <2>7a, <2>9, <3>2
      <4>2. delta[p - (i - 1)] # Lit /\ delta[p - (i - 1)] = lt - (i - 1) BY <2>5, <2>7, <4>1
      <4> QED BY <2>7, <4>1, <4>2
    <3> QED BY <3>1, <3>2
  <2>12. Ready(g, p + 1)
    <3>1. e.last_run_end = Before((p + 1) - (n + 1)) BY <2>5, <2>7, <2>8
    <3> QED BY <1>2, <1>3, <2>3, <2>8, <2>10, <2>11, <3>1 DEF Ready
  <2>13. Covers(frames \o g.out, a, (p + 1) - OpenOf(g)) /\ frames \o g.out \in Seq(FrameSet)
    BY <1>1, <2>3, <2>5, <2>7, <2>8
  <2> QED BY <2>3, <2>4, <2>12, <2>13 DEF Writes, g, h, x, t
<1>8. CASE e.last_token # -1 /\ ~(t = e.last_token + 1 /\ t < e.run_start + RunLimit)
  <2>1. h = [close_run(e) EXCEPT !.run_start = t, !.last_token = t, !.run_open = TRUE]
    BY <1>8 DEF h, emit_token
  <2>2. /\ Writes(close_run(e), p, a) /\ ~close_run(e).run_open
        /\ close_run(e).pending = e.pending /\ close_run(e).last_run_end = Before(p)
    BY <1>8, CloseWrites
  <2> QED BY <1>5, <2>1, <2>2 DEF g, h, x, t
<1> QED BY <1>6, <1>7, <1>8 DEF g, h, x, t

-----------------------------------------------------------------------------
(* The writer's steps.                                                     *)

\* What is said of the delta does not change: nobody changes the delta.
LEMMA SameOps ==
    ASSUME OpsInv, delta' = delta
    PROVE  /\ OpsInv'
           /\ \A e, p : Ready(e, p) => Ready(e, p)'
           /\ \A w, a, z : Covers(w, a, z) => Covers(w, a, z)'
           /\ \A p : DictOf(p)' = DictOf(p)
<1>1. OpsInv' BY DEF OpsInv
<1>2. \A p : DictOf(p)' = DictOf(p) BY DEF DictOf
<1>3. \A p : Before(p)' = Before(p) BY DEF Before
<1>4. \A f, p : FirstBlock(f, p)' = FirstBlock(f, p) BY <1>3 DEF FirstBlock
<1>5. \A f, p : Says(f, p) => Says(f, p)' BY <1>2, <1>4 DEF Says
<1>6. \A f : Size(f)' = Size(f) BY DEF Size
<1>7. ASSUME NEW w, NEW a, NEW z, Covers(w, a, z) PROVE Covers(w, a, z)'
  BY <1>5, <1>6, <1>7 DEF Covers
<1>8. ASSUME NEW e, NEW p, Ready(e, p) PROVE Ready(e, p)'
  BY <1>2, <1>3, <1>8 DEF Ready, OpenOf
<1> QED BY <1>1, <1>2, <1>7, <1>8

\* The reader's state does not change either.
LEMMA SameReader ==
    ASSUME OpsInv, ReaderInv, UNCHANGED <<delta, rx, got>>
    PROVE  ReaderInv'
<1>1. DictOf(Len(got))' = DictOf(Len(got)) BY DEF DictOf
<1> QED BY <1>1 DEF ReaderInv

\* Frames written behind the others.
LEMMA WrittenStep ==
    ASSUME OpsInv, ReaderInv, NEW e, NEW p \in Nat, Writes(e, p, Len(got) + rx.run), Written(e)
    PROVE  /\ OpsInv' /\ ReaderInv' /\ delta' = delta
           /\ Ready(enc, p)' /\ enc'.out = <<>> /\ enc'.pending = e.pending
           /\ enc'.run_open = e.run_open /\ enc'.last_token = e.last_token
           /\ frames' \in Seq(FrameSet) /\ Covers(frames, Len(got) + rx.run, p - OpenOf(enc))'
<1> DEFINE h == [e EXCEPT !.out = <<>>]
<1>1. UNCHANGED <<delta, rx, got>> /\ frames' = frames \o e.out /\ enc' = h BY DEF Written
<1>2. OpsInv' /\ ReaderInv' BY <1>1, SameOps, SameReader
<1>3. e \in EncSet /\ frames \o e.out \in Seq(FrameSet)
      /\ Covers(frames \o e.out, Len(got) + rx.run, p - OpenOf(e)) /\ Ready(e, p)
  BY DEF Writes, Ready
<1>4. /\ h \in EncSet /\ h.run_start = e.run_start /\ h.last_token = e.last_token
      /\ h.run_open = e.run_open /\ h.dict = e.dict /\ h.out = <<>>
      /\ h.pending = e.pending /\ h.last_run_end = e.last_run_end
  <2>1. <<>> \in Seq(FrameSet) OBVIOUS
  <2> QED BY ONLY <1>3, <2>1 DEF EncSet
<1> HIDE DEF h
<1>5. OpenOf(h) = OpenOf(e) BY <1>4 DEF OpenOf
<1>6. Ready(h, p) BY <1>3, <1>4, <1>5 DEF Ready
<1>7. Ready(h, p)' BY <1>1, <1>6, SameOps
<1>8. Ready(enc, p)' BY <1>1, <1>7 DEF Ready, OpenOf, DictOf, Before
<1>9. OpenOf(enc)' = OpenOf(e) BY <1>1, <1>5 DEF OpenOf
<1>10. PICK w, a, z : /\ w = frames \o e.out /\ a = Len(got) + rx.run /\ z = p - OpenOf(e)
                      /\ Covers(w, a, z)
  BY <1>3
<1>11. frames' = w /\ (Len(got) + rx.run)' = a /\ (p - OpenOf(enc))' = z BY <1>1, <1>9, <1>10
<1>12. Covers(w, a, z)' BY <1>1, <1>10, SameOps
<1>13. Covers(frames, Len(got) + rx.run, p - OpenOf(enc))'
  BY <1>11, <1>12 DEF Covers
<1> QED BY <1>1, <1>2, <1>3, <1>4, <1>8, <1>13

\* Between calls the writer's frames are those on the wire.
LEMMA Between ==
    ASSUME DeflateInv
    PROVE  /\ Fed \in Nat /\ Writes(enc, Fed, Len(got) + rx.run) /\ Len(delta) \in Nat /\ next \in Nat
           /\ next <= Len(delta) + 1 =>
                /\ Taken = next - 1
                /\ enc.pending # None => Taken > 0 /\ delta[Taken] = Lit /\ enc.pending = Taken
                /\ Taken > 0 /\ delta[Taken] = Lit => enc.pending = Taken
<1>1. Len(delta) \in Nat /\ next \in 1..(Len(delta) + 2) BY DEF DeflateInv, OpsInv, WriterInv
<1>2. next \in Nat BY <1>1
<1>3. ASSUME next <= Len(delta) + 1
      PROVE  /\ Taken = next - 1
             /\ enc.pending # None => Taken > 0 /\ delta[Taken] = Lit /\ enc.pending = Taken
             /\ Taken > 0 /\ delta[Taken] = Lit => enc.pending = Taken
  <2>1. Taken = next - 1 BY <1>1, <1>3 DEF Taken
  <2>2. enc.pending = IF Taken > 0 /\ delta[Taken] = Lit THEN Taken ELSE None
    BY <1>3 DEF DeflateInv, WriterInv
  <2> QED BY <2>1, <2>2
<1>4. Fed \in Nat
  <2>1. CASE next <= Len(delta) + 1 BY <1>1, <1>3, <2>1 DEF Fed
  <2>2. CASE next = Len(delta) + 2
    <3>1. enc.pending = None BY <2>2 DEF DeflateInv, WriterInv
    <3>2. Taken = Len(delta) BY <1>1, <2>2 DEF Taken
    <3> QED BY <1>1, <3>1, <3>2 DEF Fed
  <2> QED BY <1>1, <2>1, <2>2
<1>5. Ready(enc, Fed) /\ enc.out = <<>> /\ frames \in Seq(FrameSet)
      /\ Covers(frames, Len(got) + rx.run, Fed - OpenOf(enc))
  BY DEF DeflateInv, WriterInv, WireInv
<1>6. frames \o enc.out = frames BY <1>5
<1> QED BY <1>1, <1>2, <1>3, <1>4, <1>5, <1>6 DEF Writes

\* A literal is held back: the one before it has been written.
LEMMA SendLiteralStep ==
    ASSUME DeflateInv, send_literal
    PROVE  DeflateInv'
<1>0. OpsInv /\ ReaderInv /\ WriterInv BY DEF DeflateInv
<1>1. next \in Nat /\ next >= 1 /\ next <= Len(delta) /\ Len(delta) \in Nat /\ delta[next] = Lit
      /\ Written([enc EXCEPT !.pending = next]) /\ next' = next + 1
  BY <1>0, Between DEF send_literal, WriterInv
<1>2. PICK p \in Nat : p = next - 1 /\ Taken = p BY <1>1, Between
<1>3. enc.pending = None
  <2>1. CASE p > 0
    <3>1. p \in 1..(Len(delta) - 1) /\ p + 1 = next BY <1>1, <1>2, <2>1
    <3>2. delta[p] # Lit BY <1>0, <1>1, <3>1 DEF OpsInv
    <3> QED BY <1>1, <1>2, <3>2, Between
  <2>2. CASE ~(p > 0) BY <1>1, <1>2, <2>2, Between
  <2> QED BY <2>1, <2>2
<1>4. Fed = p BY <1>2, <1>3 DEF Fed
<1>5. Writes(enc, p, Len(got) + rx.run) BY <1>4, Between
<1>6. enc \in EncSet BY <1>5 DEF Writes, Ready
<1>e. PICK e : e = [enc EXCEPT !.pending = next] OBVIOUS
<1>7. /\ e \in EncSet /\ e.run_start = enc.run_start /\ e.last_token = enc.last_token
      /\ e.run_open = enc.run_open /\ e.dict = enc.dict /\ e.out = enc.out
      /\ e.pending = next /\ e.last_run_end = enc.last_run_end
  BY ONLY <1>1, <1>6, <1>e DEF EncSet
<1>8. OpenOf(e) = OpenOf(enc) BY <1>7 DEF OpenOf
<1>9. Writes(e, p, Len(got) + rx.run)
  BY <1>5, <1>7, <1>8 DEF Writes, Ready
<1>10. /\ OpsInv' /\ ReaderInv' /\ delta' = delta
       /\ Ready(enc, p)' /\ enc'.out = <<>> /\ enc'.pending = e.pending
       /\ enc'.run_open = e.run_open /\ enc'.last_token = e.last_token
       /\ frames' \in Seq(FrameSet) /\ Covers(frames, Len(got) + rx.run, p - OpenOf(enc))'
  BY <1>0, <1>1, <1>e, <1>9, WrittenStep
<1>11. Taken' = next BY <1>1, <1>10 DEF Taken
<1>12. Fed' = p BY <1>1, <1>7, <1>2, <1>10, <1>11 DEF Fed, None
<1>13. WriterInv'
  <2>1. next' \in 1..(Len(delta') + 2) /\ next' # Len(delta') + 2 BY <1>1, <1>10
  <2>2. enc'.last_token # -1 => enc'.run_open BY <1>0, <1>1, <1>7, <1>10 DEF WriterInv
  <2>3. Taken' > 0 /\ delta'[Taken'] = Lit /\ enc'.pending = Taken'
    BY <1>1, <1>7, <1>10, <1>11
  <2>4. Ready(enc, Fed)' BY <1>10, <1>12 DEF Ready, DictOf
  <2> QED BY <1>10, <2>1, <2>2, <2>3, <2>4 DEF WriterInv
<1>14. WireInv' BY <1>10, <1>12 DEF WireInv, Covers
<1> QED BY <1>10, <1>13, <1>14 DEF DeflateInv

\* A match joins the run, or begins one: if a literal is held back it comes
\* first, and no block has been sent before it.
LEMMA SendMatchStep ==
    ASSUME DeflateInv, send_block_match
    PROVE  DeflateInv'
<1>0. OpsInv /\ ReaderInv /\ WriterInv BY DEF DeflateInv
<1>1. next \in Nat /\ next >= 1 /\ next <= Len(delta) /\ Len(delta) \in Nat /\ delta[next] # Lit
      /\ next' = next + 1
  BY <1>0, Between DEF send_block_match, WriterInv
<1>2. PICK p, a, f, e :
        /\ p \in Nat /\ p = next - 1 /\ Taken = p /\ p + 1 = next /\ p < Len(delta)
        /\ a = Len(got) + rx.run
        /\ f = flush_pending_literal(enc)
        /\ e = feed_dict_bytes(emit_token(f, delta[p + 1]), delta[p + 1])
  BY <1>1, Between
<1>3. Written(e) BY <1>2 DEF send_block_match
<1>4. Writes(f, p, a) /\ (f.last_token # -1 => f.run_open) /\ f.pending = None
  <2>1. CASE enc.pending = None
    <3>1. Fed = p /\ f = enc BY <1>2, <2>1 DEF Fed, flush_pending_literal
    <3> QED BY <1>0, <1>1, <1>2, <2>1, <3>1, Between DEF WriterInv
  <2>2. CASE enc.pending # None
    <3>1. p > 0 /\ delta[p] = Lit /\ enc.pending = p BY <1>1, <1>2, <2>2, Between
    <3>2. PICK q \in Nat : q = p - 1 /\ q + 1 = p /\ q < Len(delta) /\ Fed = q
      <4>1. Fed = p - 1 BY <1>2, <2>2 DEF Fed
      <4> QED BY <1>2, <3>1, <4>1
    <3>3. Writes(enc, q, a) /\ Ready(enc, q) BY <1>2, <3>2, Between DEF Writes
    <3>4. enc.last_token = -1
      <4>1. SUFFICES ASSUME enc.last_token # -1 PROVE FALSE OBVIOUS
      <4>2. enc.run_open BY <1>0, <1>1, <4>1 DEF WriterInv
      <4>3. OpenOf(enc) \in 1..RunLimit /\ OpenOf(enc) <= q
            /\ \A i \in 0..(OpenOf(enc) - 1) : delta[q - i] # Lit
        BY <3>3, <4>2 DEF Ready
      <4>4. q >= 1 /\ 0 \in 0..(OpenOf(enc) - 1) /\ q - 0 = q BY <3>2, <4>3, DeflateAssumption
      <4>5. delta[q] # Lit BY <4>3, <4>4
      <4>6. q \in 1..Len(delta) /\ p \in 1..Len(delta) /\ next \in 1..Len(delta) /\ q < p /\ p < next
        BY <1>1, <1>2, <3>2, <4>4
      <4> QED BY <1>0, <1>1, <3>1, <4>5, <4>6 DEF OpsInv
    <3>5. ~enc.run_open BY <3>3, <3>4 DEF Ready
    <3> QED BY <1>0, <1>2, <3>1, <3>2, <3>3, <3>4, <3>5, FlushWrites
  <2> QED BY <2>1, <2>2
<1>5. Writes(e, p + 1, a) /\ e.run_open /\ e.pending = None
  BY <1>0, <1>1, <1>2, <1>4, MatchWrites
<1>6. PICK n \in Nat : n = p + 1 BY <1>2
<1>7. /\ OpsInv' /\ ReaderInv' /\ delta' = delta
      /\ Ready(enc, n)' /\ enc'.out = <<>> /\ enc'.pending = e.pending
      /\ enc'.run_open = e.run_open /\ enc'.last_token = e.last_token
      /\ frames' \in Seq(FrameSet) /\ Covers(frames, Len(got) + rx.run, n - OpenOf(enc))'
  BY <1>0, <1>2, <1>3, <1>5, <1>6, WrittenStep
<1>8. Taken' = n BY <1>1, <1>2, <1>6, <1>7 DEF Taken
<1>9. Fed' = n BY <1>5, <1>7, <1>8 DEF Fed
<1>10. WriterInv'
  <2>1. next' \in 1..(Len(delta') + 2) /\ next' # Len(delta') + 2 BY <1>1, <1>7
  <2>2. enc'.run_open /\ enc'.pending = None /\ delta'[Taken'] # Lit
    BY <1>1, <1>2, <1>5, <1>6, <1>7, <1>8
  <2>3. Ready(enc, Fed)' BY <1>7, <1>9 DEF Ready, DictOf
  <2> QED BY <1>7, <2>1, <2>2, <2>3 DEF WriterInv
<1>11. WireInv' BY <1>7, <1>9 DEF WireInv, Covers
<1> QED BY <1>7, <1>10, <1>11 DEF DeflateInv

\* The last run, the literal held back and the end flag.
LEMMA FinishStep ==
    ASSUME DeflateInv, Finish
    PROVE  DeflateInv'
<1>0. OpsInv /\ ReaderInv /\ WriterInv BY DEF DeflateInv
<1>1. next \in Nat /\ next = Len(delta) + 1 /\ Len(delta) \in Nat /\ next' = next + 1
  BY <1>0, Between DEF Finish
<1>2. PICK n, a, c, g, f, e :
        /\ n \in Nat /\ n = Len(delta) /\ Taken = n /\ a = Len(got) + rx.run
        /\ c = IF enc.run_open THEN close_run(enc) ELSE enc
        /\ g = flush_pending_literal(c)
        /\ f = Frame("end", 0, 0, <<>>)
        /\ e = Emit(g, f)
  BY <1>1, Between
<1>3. Written(e) BY <1>2 DEF Finish
<1>4. PICK p \in Nat : p = Fed BY Between
<1>5. p <= n /\ Writes(enc, p, a)
  BY <1>2, <1>4, Between DEF Fed
<1>6. Writes(c, p, a) /\ ~c.run_open /\ c.pending = enc.pending
  <2>1. CASE enc.run_open BY <1>0, <1>2, <1>5, <2>1, CloseWrites
  <2>2. CASE ~enc.run_open BY <1>2, <1>5, <2>2
  <2> QED BY <2>1, <2>2
<1>7. Writes(g, n, a) /\ ~g.run_open /\ g.pending = None
  <2>1. CASE enc.pending = None
    <3>1. g = c /\ p = n BY <1>2, <1>4, <1>6, <2>1 DEF flush_pending_literal, Fed
    <3> QED BY <1>6, <2>1, <3>1
  <2>2. CASE enc.pending # None
    <3>1. n > 0 /\ delta[n] = Lit /\ enc.pending = n BY <1>1, <1>2, <2>2, Between
    <3>2. p = n - 1 BY <1>2, <1>4, <2>2 DEF Fed
    <3>3. p + 1 = n /\ p < Len(delta) BY <1>2, <3>1, <3>2
    <3> QED BY <1>0, <1>2, <1>6, <3>1, <3>3, FlushWrites
  <2> QED BY <2>1, <2>2
<1>8. f \in FrameSet /\ f.k = "end"
  <2>1. <<>> \in Seq(Int \X Int) OBVIOUS
  <2> QED BY <1>2, <2>1 DEF Frame, FrameSet
<1>9. Says(f, n) /\ n + Size(f) = n BY <1>2, <1>8 DEF Says, Size
<1>10. g \in EncSet /\ frames \o g.out \in Seq(FrameSet) /\ OpenOf(g) = 0 /\ n - 0 = n
       /\ Covers(frames \o g.out, a, n)
  <2>1. OpenOf(g) = 0 /\ n - 0 = n BY <1>2, <1>7 DEF OpenOf
  <2> QED BY <1>7, <2>1 DEF Writes, Ready
<1>11. /\ e \in EncSet /\ e.run_start = g.run_start /\ e.last_token = g.last_token
       /\ e.run_open = g.run_open /\ e.dict = g.dict /\ e.out = Append(g.out, f)
       /\ e.pending = g.pending /\ e.last_run_end = g.last_run_end
  <2>1. e = [g EXCEPT !.out = Append(@, f)] BY <1>2 DEF Emit
  <2>2. Append(g.out, f) \in Seq(FrameSet) BY <1>8, <1>10 DEF EncSet
  <2> QED BY ONLY <1>10, <2>1, <2>2 DEF EncSet
<1>12. frames \o e.out = Append(frames \o g.out, f)
  <2>1. frames \in Seq(FrameSet) /\ g.out \in Seq(FrameSet) BY <1>10 DEF EncSet, DeflateInv, WireInv
  <2> QED BY <1>8, <1>11, <2>1, EmitWire
<1>13. frames \o e.out \in Seq(FrameSet) /\ Covers(frames \o e.out, a, n)
  <2>1. n \in Nat BY <1>2
  <2> QED BY <1>8, <1>9, <1>10, <1>12, <2>1, CoversAppend
<1>14. OpenOf(e) = 0 BY <1>7, <1>11 DEF OpenOf
<1>15. Writes(e, n, a) BY <1>7, <1>10, <1>11, <1>13, <1>14 DEF Writes, Ready
<1>16. /\ OpsInv' /\ ReaderInv' /\ delta' = delta
       /\ Ready(enc, n)' /\ enc'.out = <<>> /\ enc'.pending = e.pending
       /\ enc'.run_open = e.run_open /\ enc'.last_token = e.last_token
       /\ frames' \in Seq(FrameSet) /\ Covers(frames, Len(got) + rx.run, n - OpenOf(enc))'
  BY <1>0, <1>2, <1>3, <1>15, WrittenStep
<1>17. Taken' = n BY <1>1, <1>2, <1>16 DEF Taken
<1>18. Fed' = n BY <1>7, <1>11, <1>16, <1>17 DEF Fed
<1>19. WriterInv'
  <2>1. next' = Len(delta') + 2 /\ next' \in 1..(Len(delta') + 2) /\ ~(next' <= Len(delta') + 1)
    BY <1>1, <1>16
  <2>2. ~enc'.run_open /\ enc'.pending = None BY <1>7, <1>11, <1>16
  <2>3. Ready(enc, Fed)' BY <1>16, <1>18 DEF Ready, DictOf
  <2> QED BY <1>16, <2>1, <2>2, <2>3 DEF WriterInv
<1>20. WireInv' BY <1>16, <1>18 DEF WireInv, Covers
<1> QED BY <1>16, <1>19, <1>20 DEF DeflateInv

-----------------------------------------------------------------------------
(* The reader's steps.                                                     *)

\* The writer's state does not change.
LEMMA SameWriter ==
    ASSUME OpsInv, WriterInv, UNCHANGED <<delta, next, enc>>
    PROVE  OpsInv' /\ WriterInv' /\ Fed' = Fed /\ OpenOf(enc)' = OpenOf(enc)
<1>1. OpsInv' BY SameOps
<1>2. Taken' = Taken BY DEF Taken
<1>3. Fed' = Fed BY <1>2 DEF Fed
<1>4. OpenOf(enc)' = OpenOf(enc) BY DEF OpenOf
<1>5. Ready(enc, Fed)' BY <1>3 DEF WriterInv, Ready, OpenOf, DictOf, Before
<1> QED BY <1>1, <1>2, <1>3, <1>4, <1>5 DEF WriterInv

\* The next operation delivered.
LEMMA Delivered ==
    ASSUME OpsInv, ReaderInv, NEW p \in Nat, p = Len(got), p < Len(delta), delta' = delta,
           got' = Append(got, delta[p + 1])
    PROVE  /\ Len(got') = p + 1 /\ got' \in Seq(OpValues)
           /\ \A i \in 1..(p + 1) : got'[i] = delta[i]
           /\ DictOf(Len(got))' = Append(DictOf(p), IF delta[p + 1] = Lit THEN <<Lit, p + 1>>
                                                    ELSE <<delta[p + 1], 0>>)
           /\ DictOf(p) \in Seq(Int \X Int) /\ rx.dict = DictOf(p)
           /\ delta[p + 1] \in Int
<1>1. got \in Seq(OpValues) /\ (\A i \in 1..p : got[i] = delta[i]) /\ rx.dict = DictOf(p)
  BY DEF ReaderInv
<1>2. p + 1 \in 1..Len(delta) /\ delta[p + 1] \in OpValues BY DEF OpsInv
<1>3. Len(got') = p + 1 /\ got' \in Seq(OpValues) /\ \A i \in 1..(p + 1) : got'[i] = delta[i]
  BY <1>1, <1>2
<1>4. DictOf(Len(got))' = DictOf(p + 1) BY <1>3 DEF DictOf
<1>5. delta[p + 1] \in Int BY <1>2, DeflateAssumption DEF OpValues, Blocks, Lit
<1> QED BY <1>1, <1>3, <1>4, <1>5, DictNext

\* What a step of the reader that takes a frame off the wire finds there.
LEMMA TakenFrame ==
    ASSUME DeflateInv, NEW kinds, Take(kinds)
    PROVE  /\ OpsInv' /\ WriterInv' /\ delta' = delta /\ Len(got) \in Nat /\ rx.run = 0
           /\ frames[1] \in FrameSet /\ frames[1].k \in kinds /\ Says(frames[1], Len(got))
           /\ frames' \in Seq(FrameSet)
           /\ \A a : a = Len(got) + Size(frames[1]) => Covers(frames, a, Fed - OpenOf(enc))'
<1>0. OpsInv /\ WriterInv /\ ReaderInv /\ WireInv BY DEF DeflateInv
<1>1. /\ rx.state \in {"idle", "inflated"} /\ frames # <<>> /\ frames[1].k \in kinds
      /\ frames' = Tail(frames) /\ UNCHANGED <<delta, next, enc>>
  BY DEF Take
<1>2. Len(got) \in Nat /\ rx.run = 0 /\ Len(got) + 0 = Len(got)
  <2>1. Len(got) \in Nat /\ rx.run \in Nat /\ ~(rx.run > 0) BY <1>0, <1>1 DEF ReaderInv, RxSet
  <2> QED BY <2>1
<1>3. PICK z : z = Fed - OpenOf(enc) OBVIOUS
<1>4. frames \in Seq(FrameSet) /\ Covers(frames, Len(got), z) BY <1>0, <1>2, <1>3 DEF WireInv
<1>5. /\ Tail(frames) \in Seq(FrameSet) /\ frames[1] \in FrameSet /\ Says(frames[1], Len(got))
      /\ Covers(Tail(frames), Len(got) + Size(frames[1]), z)
  BY <1>1, <1>4, CoversTail
<1>6. (Fed - OpenOf(enc))' = z BY <1>0, <1>1, <1>3, SameWriter
<1>7. ASSUME NEW a, a = Len(got) + Size(frames[1]) PROVE Covers(frames, a, Fed - OpenOf(enc))'
  <2>1. PICK w : w = Tail(frames) OBVIOUS
  <2>2. Covers(w, a, z) BY <1>5, <1>7, <2>1
  <2>3. Covers(w, a, z)' BY <1>0, <1>1, <2>2, SameOps
  <2> QED BY <1>1, <1>6, <2>1, <2>3 DEF Covers
<1> QED BY <1>0, <1>1, <1>2, <1>5, <1>7, SameWriter

\* A literal decodes: its dictionary is the reader's, and the literal before
\* it has been ended by a match.
LEMMA ReadDataStep ==
    ASSUME DeflateInv, ReadData
    PROVE  DeflateInv'
<1>0. OpsInv /\ ReaderInv BY DEF DeflateInv
<1>1. Take({"data"}) BY DEF ReadData
<1>2. PICK p \in Nat : p = Len(got) BY <1>1, TakenFrame
<1>3. /\ OpsInv' /\ WriterInv' /\ delta' = delta /\ rx.run = 0
      /\ frames[1] \in FrameSet /\ frames[1].k = "data" /\ Says(frames[1], p)
      /\ frames' \in Seq(FrameSet)
      /\ \A a : a = p + Size(frames[1]) => Covers(frames, a, Fed - OpenOf(enc))'
  BY <1>1, <1>2, TakenFrame
<1>4. p + 1 <= Len(delta) /\ delta[p + 1] = Lit /\ frames[1].v = p + 1 /\ frames[1].d = DictOf(p)
      /\ Size(frames[1]) = 1
  BY <1>3 DEF Says, Size
<1>5. Len(delta) \in Nat /\ p < Len(delta) BY <1>0, <1>4 DEF OpsInv
<1>6. rx.state = "idle"
  <2>1. rx.state \in {"idle", "inflated"} BY <1>1 DEF Take
  <2>2. SUFFICES ASSUME rx.state = "inflated" PROVE FALSE BY <2>1
  <2>3. p > 0 /\ delta[p] = Lit BY <1>0, <1>2, <2>2 DEF ReaderInv
  <2>4. p \in 1..(Len(delta) - 1) BY <1>5, <2>3
  <2> QED BY <1>0, <1>4, <2>3, <2>4 DEF OpsInv
<1>7. rx.dict = frames[1].d BY <1>0, <1>2, <1>4 DEF ReaderInv
<1>8. got' = Append(got, delta[p + 1]) BY <1>4, <1>6, <1>7 DEF ReadData
<1>9. /\ Len(got') = p + 1 /\ got' \in Seq(OpValues)
      /\ \A i \in 1..(p + 1) : got'[i] = delta[i]
      /\ DictOf(Len(got))' = Append(DictOf(p), <<Lit, p + 1>>)
      /\ DictOf(p) \in Seq(Int \X Int) /\ rx.dict = DictOf(p)
  BY <1>0, <1>2, <1>3, <1>4, <1>5, <1>8, Delivered
<1>10. rx' = [rx EXCEPT !.state = "inflated", !.dict = Append(@, <<Lit, p + 1>>)]
  BY <1>4 DEF ReadData
<1>11. /\ rx' \in RxSet /\ rx'.state = "inflated" /\ rx'.token = rx.token /\ rx'.run = 0
       /\ rx'.dict = DictOf(Len(got))'
  <2>1. rx \in RxSet BY <1>0 DEF ReaderInv
  <2>2. <<Lit, p + 1>> \in Int \X Int BY DEF Lit
  <2>3. Append(rx.dict, <<Lit, p + 1>>) \in Seq(Int \X Int) BY <1>9, <2>2
  <2> QED BY <1>3, <1>9, <1>10, <2>1, <2>3 DEF RxSet
<1>12. ReaderInv'
  <2>1. Len(got') + rx'.run <= Len(delta') BY <1>3, <1>4, <1>9, <1>11
  <2>2. (\A i \in 1..Len(got') : delta'[i] = Lit) => rx'.token = 0
    <3>1. \A i \in 1..p : i \in 1..(p + 1) OBVIOUS
    <3> QED BY <1>0, <1>2, <1>3, <1>9, <1>11, <3>1 DEF ReaderInv
  <2>3. \A i \in 1..rx'.run : FALSE BY <1>11
  <2>4. Len(got') > 0 /\ delta'[Len(got')] = Lit BY <1>3, <1>4, <1>9
  <2>5. \A i \in 1..Len(got') : got'[i] = delta'[i] BY <1>3, <1>9
  <2>6. ~(rx'.run > 0) BY <1>11
  <2> QED BY <1>9, <1>11, <2>1, <2>2, <2>3, <2>4, <2>5, <2>6 DEF ReaderInv
<1>13. WireInv'
  <2>1. PICK a : a = p + 1 OBVIOUS
  <2>2. Covers(frames, a, Fed - OpenOf(enc))' BY <1>3, <1>4, <2>1
  <2>3. (Len(got) + rx.run)' = a BY <1>9, <1>11, <2>1
  <2> QED BY <1>3, <2>2, <2>3 DEF WireInv, Covers
<1> QED BY <1>3, <1>12, <1>13 DEF DeflateInv

\* A relative block number is added to the one the writer subtracted: the
\* last block, or 0 if there has been none.
LEMMA TokenBefore ==
    ASSUME OpsInv, ReaderInv, NEW p \in Nat, p = Len(got), p < Len(delta), delta[p + 1] # Lit
    PROVE  rx.token = Before(p) /\ rx.token \in Int
<1>1. rx.token \in Int BY DEF ReaderInv, RxSet
<1>2. CASE p = 0
  <2>1. \A i \in 1..Len(got) : delta[i] = Lit BY <1>2
  <2> QED BY <1>1, <1>2, <2>1 DEF ReaderInv, Before
<1>3. CASE p # 0 /\ delta[p] = Lit
  <2>1. ASSUME NEW i \in 1..p PROVE delta[i] = Lit
    <3>1. SUFFICES ASSUME delta[i] # Lit PROVE FALSE OBVIOUS
    <3>2. i # p BY <1>3, <3>1
    <3>3. i \in 1..Len(delta) /\ p \in 1..Len(delta) /\ p + 1 \in 1..Len(delta) /\ i < p /\ p < p + 1
      BY <1>3, <3>2 DEF OpsInv
    <3> QED BY <1>3, <3>1, <3>3 DEF OpsInv
  <2> QED BY <1>1, <1>3, <2>1 DEF ReaderInv, Before
<1>4. CASE p # 0 /\ delta[p] # Lit
  <2>1. Len(got) > 0 BY <1>4
  <2> QED BY <1>1, <1>4, <2>1 DEF ReaderInv, Before
<1> QED BY <1>2, <1>3, <1>4

\* The first block of a run.
LEMMA ReadTokenStep ==
    ASSUME DeflateInv, ReadToken
    PROVE  DeflateInv'
<1>0. OpsInv /\ ReaderInv BY DEF DeflateInv
<1>1. Take({"rel", "long"}) BY DEF ReadToken
<1>2. PICK p, f : p \in Nat /\ p = Len(got) /\ f = frames[1] BY <1>1, TakenFrame
<1>3. /\ OpsInv' /\ WriterInv' /\ delta' = delta
      /\ f \in FrameSet /\ f.k \in {"rel", "long"} /\ Says(f, p)
      /\ frames' \in Seq(FrameSet)
      /\ \A a : a = p + Size(f) => Covers(frames, a, Fed - OpenOf(enc))'
  BY <1>1, <1>2, TakenFrame
<1>4. PICK n \in Nat : n = f.run BY <1>3 DEF FrameSet
<1>5. /\ p + n + 1 <= Len(delta) /\ Size(f) = n + 1
      /\ \A i \in 0..n : delta[p + 1 + i] # Lit /\ delta[p + 1 + i] = FirstBlock(f, p) + i
  BY <1>3, <1>4 DEF Says, Size
<1>6. Len(delta) \in Nat /\ p < Len(delta) BY <1>0, <1>2, <1>5 DEF OpsInv
<1>7. delta[p + 1] # Lit /\ delta[p + 1] = FirstBlock(f, p) /\ delta[p + 1] \in Int
  <2>1. 0 \in 0..n /\ p + 1 + 0 = p + 1 BY <1>2, <1>4
  <2>2. delta[p + 1] # Lit /\ delta[p + 1] = FirstBlock(f, p) + 0 BY <1>5, <2>1
  <2>3. rx.token = Before(p) /\ rx.token \in Int BY <1>0, <1>2, <1>6, <2>2, TokenBefore
  <2>4. FirstBlock(f, p) \in Int BY <1>3, <2>3 DEF FirstBlock, FrameSet
  <2> QED BY <2>2, <2>4
<1>8. PICK t \in Int : t = delta[p + 1] BY <1>7
<1>9. t = IF frames[1].k = "rel" THEN rx.token + frames[1].v ELSE frames[1].v
  BY <1>0, <1>2, <1>6, <1>7, <1>8, TokenBefore DEF FirstBlock
<1>10. /\ got' = Append(got, t)
       /\ rx' = [rx EXCEPT !.token = t, !.run = n, !.state = IF n # 0 THEN "running" ELSE "idle",
                           !.dict = Append(@, <<t, 0>>)]
  BY <1>2, <1>4, <1>9 DEF ReadToken
<1>11. /\ Len(got') = p + 1 /\ got' \in Seq(OpValues)
       /\ \A i \in 1..(p + 1) : got'[i] = delta[i]
       /\ DictOf(Len(got))' = Append(DictOf(p), <<t, 0>>)
       /\ DictOf(p) \in Seq(Int \X Int) /\ rx.dict = DictOf(p)
  BY <1>0, <1>2, <1>3, <1>6, <1>7, <1>8, <1>10, Delivered
<1>12. /\ rx' \in RxSet /\ rx'.state = (IF n # 0 THEN "running" ELSE "idle") /\ rx'.token = t
       /\ rx'.run = n /\ rx'.dict = DictOf(Len(got))'
  <2>1. rx \in RxSet BY <1>0 DEF ReaderInv
  <2>2. <<t, 0>> \in Int \X Int OBVIOUS
  <2>3. Append(rx.dict, <<t, 0>>) \in Seq(Int \X Int) BY <1>11, <2>2
  <2> QED BY <1>10, <1>11, <2>1, <2>3 DEF RxSet
<1>13. ReaderInv'
  <2>1. Len(got') + rx'.run <= Len(delta') BY <1>2, <1>3, <1>5, <1>6, <1>11, <1>12
  <2>2. ~ \A i \in 1..Len(got') : delta'[i] = Lit
    <3>1. p + 1 \in 1..Len(got') BY <1>2, <1>11
    <3> QED BY <1>3, <1>7, <3>1
  <2>3. \A i \in 1..rx'.run : delta'[Len(got') + i] # Lit /\ delta'[Len(got') + i] = rx'.token + i
    <3>1. \A i \in 1..n : i \in 0..n OBVIOUS
    <3> QED BY <1>3, <1>5, <1>7, <1>8, <1>11, <1>12, <3>1
  <2>4. Len(got') > 0 /\ delta'[Len(got')] = rx'.token BY <1>2, <1>3, <1>8, <1>11, <1>12
  <2>5. \A i \in 1..Len(got') : got'[i] = delta'[i] BY <1>3, <1>11
  <2>6. rx'.state = "running" <=> rx'.run > 0 BY <1>12
  <2>7. rx'.state \in {"running", "idle"} BY <1>12
  <2> QED BY <1>11, <1>12, <2>1, <2>2, <2>3, <2>4, <2>5, <2>6, <2>7 DEF ReaderInv
<1>14. WireInv'
  <2>1. PICK a : a = p + (n + 1) OBVIOUS
  <2>2. Covers(frames, a, Fed - OpenOf(enc))' BY <1>3, <1>5, <2>1
  <2>3. (Len(got) + rx.run)' = a BY <1>2, <1>11, <1>12, <2>1
  <2> QED BY <1>3, <2>2, <2>3 DEF WireInv, Covers
<1> QED BY <1>3, <1>13, <1>14 DEF DeflateInv

\* A further block of a run.
LEMMA ReadRunStep ==
    ASSUME DeflateInv, ReadRun
    PROVE  DeflateInv'
<1>0. OpsInv /\ ReaderInv /\ WriterInv /\ WireInv BY DEF DeflateInv
<1>1. UNCHANGED <<delta, next, enc, frames>> BY DEF ReadRun
<1>2. OpsInv' /\ WriterInv' /\ (Fed - OpenOf(enc))' = Fed - OpenOf(enc) BY <1>0, <1>1, SameWriter
<1>3. PICK p \in Nat, n \in Nat, t \in Int :
        p = Len(got) /\ n + 1 = rx.run /\ t = rx.token + 1 /\ p + n + 1 <= Len(delta)
  <2>1. rx.run > 0 /\ rx.run \in Nat /\ rx.token \in Int /\ Len(got) \in Nat
        /\ Len(got) + rx.run <= Len(delta) /\ Len(delta) \in Nat
    BY <1>0 DEF ReadRun, ReaderInv, RxSet, OpsInv
  <2>2. rx.run - 1 \in Nat /\ (rx.run - 1) + 1 = rx.run /\ rx.token + 1 \in Int
        /\ Len(got) + (rx.run - 1) + 1 <= Len(delta)
    BY <2>1
  <2> QED BY <2>1, <2>2
<1>4. Len(delta) \in Nat /\ p < Len(delta) /\ rx.token \in Int /\ rx.run \in Nat
  BY <1>0, <1>3 DEF OpsInv, ReaderInv, RxSet
<1>5. \A i \in 1..(n + 1) : delta[p + i] # Lit /\ delta[p + i] = rx.token + i
  BY <1>0, <1>3 DEF ReaderInv
<1>6. delta[p + 1] # Lit /\ delta[p + 1] = t
  <2>1. 1 \in 1..(n + 1) OBVIOUS
  <2> QED BY <1>3, <1>5, <2>1
<1>7. rx.run - 1 = n /\ (rx.run = 1 <=> n = 0) BY <1>3, <1>4
<1>8. /\ got' = Append(got, t)
      /\ rx' = [rx EXCEPT !.token = t, !.run = n, !.state = IF n = 0 THEN "idle" ELSE "running",
                          !.dict = Append(@, <<t, 0>>)]
  BY <1>3, <1>7 DEF ReadRun
<1>9. /\ Len(got') = p + 1 /\ got' \in Seq(OpValues)
      /\ \A i \in 1..(p + 1) : got'[i] = delta[i]
      /\ DictOf(Len(got))' = Append(DictOf(p), <<t, 0>>)
      /\ DictOf(p) \in Seq(Int \X Int) /\ rx.dict = DictOf(p)
  BY <1>0, <1>1, <1>3, <1>4, <1>6, <1>8, Delivered
<1>10. /\ rx' \in RxSet /\ rx'.state = (IF n = 0 THEN "idle" ELSE "running") /\ rx'.token = t
       /\ rx'.run = n /\ rx'.dict = DictOf(Len(got))'
  <2>1. rx \in RxSet BY <1>0 DEF ReaderInv
  <2>2. <<t, 0>> \in Int \X Int OBVIOUS
  <2>3. Append(rx.dict, <<t, 0>>) \in Seq(Int \X Int) BY <1>9, <2>2
  <2> QED BY <1>8, <1>9, <2>1, <2>3 DEF RxSet
<1>11. ReaderInv'
  <2>1. Len(got') + rx'.run <= Len(delta') BY <1>1, <1>3, <1>4, <1>9, <1>10
  <2>2. ~ \A i \in 1..Len(got') : delta'[i] = Lit
    <3>1. p + 1 \in 1..Len(got') BY <1>9
    <3> QED BY <1>1, <1>6, <3>1
  <2>3. ASSUME NEW i \in 1..n PROVE delta[p + 1 + i] # Lit /\ delta[p + 1 + i] = t + i
    <3>1. 1 + i \in 1..(n + 1) /\ p + (1 + i) = p + 1 + i /\ rx.token + (1 + i) = t + i
      BY <1>3, <1>4, SMTT(40)
    <3> QED BY <1>5, <3>1
  <2>4. \A i \in 1..rx'.run : delta'[Len(got') + i] # Lit /\ delta'[Len(got') + i] = rx'.token + i
    BY <1>1, <1>9, <1>10, <2>3
  <2>5. Len(got') > 0 /\ delta'[Len(got')] = rx'.token BY <1>1, <1>6, <1>9, <1>10
  <2>6. \A i \in 1..Len(got') : got'[i] = delta'[i] BY <1>1, <1>9
  <2>7. rx'.state = "running" <=> rx'.run > 0 BY <1>10
  <2>8. rx'.state \in {"running", "idle"} BY <1>10
  <2> QED BY <1>9, <1>10, <2>1, <2>2, <2>4, <2>5, <2>6, <2>7, <2>8 DEF ReaderInv
<1>12. WireInv'
  <2>1. PICK w, a, z : /\ w = frames /\ a = p + (n + 1) /\ z = Fed - OpenOf(enc)
                       /\ w \in Seq(FrameSet) /\ Covers(w, a, z)
    BY <1>0, <1>3 DEF WireInv
  <2>2. Covers(w, a, z)' BY <1>0, <1>1, <2>1, SameOps
  <2>3. (Len(got) + rx.run)' = a /\ frames' = w /\ (Fed - OpenOf(enc))' = z
    BY <1>1, <1>2, <1>9, <1>10, <2>1
  <2>4. Covers(frames, Len(got) + rx.run, Fed - OpenOf(enc))' BY <2>2, <2>3 DEF Covers
  <2> QED BY <2>1, <2>3, <2>4 DEF WireInv
<1> QED BY <1>2, <1>11, <1>12 DEF DeflateInv

\* The end flag comes behind the last operation.
LEMMA ReadEndStep ==
    ASSUME DeflateInv, ReadEnd
    PROVE  DeflateInv'
<1>0. OpsInv /\ ReaderInv BY DEF DeflateInv
<1>1. Take({"end"}) BY DEF ReadEnd
<1>2. PICK p \in Nat : p = Len(got) BY <1>1, TakenFrame
<1>3. /\ OpsInv' /\ WriterInv' /\ delta' = delta /\ rx.run = 0
      /\ frames[1].k = "end" /\ Says(frames[1], p) /\ frames' \in Seq(FrameSet)
      /\ \A a : a = p + Size(frames[1]) => Covers(frames, a, Fed - OpenOf(enc))'
  BY <1>1, <1>2, TakenFrame
<1>4. p = Len(delta) /\ Size(frames[1]) = 0 BY <1>3 DEF Says, Size
<1>5. got' = got /\ rx' = [rx EXCEPT !.state = "end"] BY DEF ReadEnd
<1>6. rx' \in RxSet /\ rx'.state = "end" /\ rx'.token = rx.token /\ rx'.run = 0
      /\ rx'.dict = rx.dict
  <2>1. rx \in RxSet BY <1>0 DEF ReaderInv
  <2> QED BY <1>3, <1>5, <2>1 DEF RxSet
<1>7. DictOf(Len(got))' = DictOf(Len(got)) BY <1>3, <1>5 DEF DictOf
<1>8. ReaderInv'
  <2>1. \A i \in 1..rx'.run : FALSE BY <1>6
  <2>2. ~(rx'.run > 0) BY <1>6
  <2> QED BY <1>0, <1>2, <1>3, <1>4, <1>5, <1>6, <1>7, <2>1, <2>2 DEF ReaderInv
<1>9. WireInv'
  <2>1. Covers(frames, p, Fed - OpenOf(enc))' BY <1>3, <1>4, p + 0 = p
  <2>2. (Len(got) + rx.run)' = p BY <1>2, <1>5, <1>6
  <2> QED BY <1>3, <2>1, <2>2 DEF WireInv, Covers
<1> QED BY <1>3, <1>8, <1>9 DEF DeflateInv

-----------------------------------------------------------------------------
(* The theorems.                                                           *)

\* The invariant holds initially.
LEMMA DeflateInvInit ==
    ASSUME ~Interleaved, DeflateInit
    PROVE  DeflateInv
<1>1. PICK m \in 0..MaxOps : delta \in [1..m -> Blocks \cup {Lit}]
  BY DEF DeflateInit, Deltas
<1>2. m \in Nat /\ delta \in Seq(OpValues) /\ Len(delta) = m BY <1>1, DeflateAssumption DEF OpValues
<1>3. OpsInv
  <2>1. \A i \in 1..(Len(delta) - 1) : delta[i] # Lit \/ delta[i+1] # Lit BY DEF DeflateInit, Deltas
  <2>2. OnePiece(delta) BY DEF DeflateInit
  <2> QED BY <1>2, <2>1, <2>2 DEF OpsInv, OnePiece
<1>4. DictOf(0) = <<>> BY DEF DictOf
<1>5. <<>> \in Seq(Int \X Int) /\ <<>> \in Seq(FrameSet) /\ <<>> \in Seq(OpValues) /\ Len(<<>>) = 0
  OBVIOUS
<1>6. /\ enc \in EncSet /\ enc.last_token = -1 /\ enc.last_run_end = 0 /\ enc.run_open = FALSE
      /\ enc.pending = None /\ enc.dict = <<>> /\ enc.out = <<>>
  BY <1>5 DEF DeflateInit, EncSet, None
<1>7. next = 1 /\ frames = <<>> /\ got = <<>> BY DEF DeflateInit
<1>8. rx \in RxSet /\ rx.state = "idle" /\ rx.token = 0 /\ rx.run = 0 /\ rx.dict = <<>>
  BY <1>5 DEF DeflateInit, RxSet
<1>9. Taken = 0 /\ Fed = 0 /\ OpenOf(enc) = 0 BY <1>2, <1>6, <1>7 DEF Taken, Fed, OpenOf
<1>10. WriterInv
  <2>1. next \in 1..(Len(delta) + 2) /\ next # Len(delta) + 2 BY <1>2, <1>7
  <2>2. Ready(enc, Fed) BY <1>4, <1>6, <1>9 DEF Ready
  <2> QED BY <1>6, <1>9, <2>1, <2>2 DEF WriterInv
<1>11. ReaderInv
  <2>1. \A i \in 1..0 : FALSE OBVIOUS
  <2> QED BY <1>2, <1>4, <1>5, <1>7, <1>8, <2>1 DEF ReaderInv
<1>12. WireInv
  <2> DEFINE pos == [i \in 0..0 |-> 0]
  <2>1. pos \in [0..Len(frames) -> Nat] /\ pos[0] = 0 /\ \A j \in 1..Len(frames) : FALSE
    BY <1>5, <1>7
  <2>2. Covers(frames, 0, 0) BY <1>5, <1>7, <2>1 DEF Covers
  <2>3. Len(got) + rx.run = 0 /\ Fed - OpenOf(enc) = 0 BY <1>5, <1>7, <1>8, <1>9
  <2> QED BY <1>5, <1>7, <2>2, <2>3 DEF WireInv
<1> QED BY <1>3, <1>10, <1>11, <1>12 DEF DeflateInv

\* Every step keeps the invariant.
LEMMA DeflateStep ==
    ASSUME DeflateInv, [DeflateNext]_deflateVars
    PROVE  DeflateInv'
<1>1. CASE send_literal BY <1>1, SendLiteralStep
<1>2. CASE send_block_match BY <1>2, SendMatchStep
<1>3. CASE Finish BY <1>3, FinishStep
<1>4. CASE ReadData BY <1>4, ReadDataStep
<1>5. CASE ReadToken BY <1>5, ReadTokenStep
<1>6. CASE ReadRun BY <1>6, ReadRunStep
<1>7. CASE ReadEnd BY <1>7, ReadEndStep
<1>8. CASE UNCHANGED deflateVars
  <2>0. OpsInv /\ WriterInv /\ ReaderInv /\ WireInv BY DEF DeflateInv
  <2>1. UNCHANGED <<delta, next, enc>> /\ UNCHANGED <<delta, rx, got>> /\ frames' = frames BY <1>8 DEF deflateVars
  <2>2. OpsInv' /\ WriterInv' /\ ReaderInv' /\ (Fed - OpenOf(enc))' = Fed - OpenOf(enc)
    BY <2>0, <2>1, SameWriter, SameReader
  <2>3. PICK w, a, z : /\ w = frames /\ a = Len(got) + rx.run /\ z = Fed - OpenOf(enc)
                       /\ w \in Seq(FrameSet) /\ Covers(w, a, z)
    BY <2>0 DEF WireInv
  <2>4. Covers(w, a, z)' BY <2>0, <2>1, <2>3, SameOps
  <2>5. (Len(got) + rx.run)' = a /\ frames' = w /\ (Fed - OpenOf(enc))' = z BY <2>1, <2>2, <2>3
  <2>6. Covers(frames, Len(got) + rx.run, Fed - OpenOf(enc))' BY <2>4, <2>5 DEF Covers
  <2>7. WireInv' BY <2>3, <2>5, <2>6 DEF WireInv
  <2> QED BY <2>2, <2>7 DEF DeflateInv
<1> QED BY <1>1, <1>2, <1>3, <1>4, <1>5, <1>6, <1>7, <1>8 DEF DeflateNext, Writer, Reader, AtEnd

\* What the proofs of both properties rest on: at every moment the frames on
\* the wire say exactly the operations between those the reader has delivered
\* and those the writer still holds back in its open run or as a literal, and
\* either dictionary is that of the operations its side has been through.
THEOREM DeflateInvHolds ==
    ASSUME ~Interleaved
    PROVE  DeflateSpec => []DeflateInv
<1>1. DeflateInit => DeflateInv BY DeflateInvInit
<1>2. DeflateInv /\ [DeflateNext]_deflateVars => DeflateInv' BY DeflateStep
<1> QED BY <1>1, <1>2, PTL DEF DeflateSpec

\* For deltas of any length whose matches are in one piece, whatever the block
\* numbers and however often a run is cut at the limit of its length field:
\* read_token delivers the operations given to the writer, in order, none
\* missing or twice, and with END_FLAG all of them.
THEOREM RoundTripHolds ==
    ASSUME ~Interleaved
    PROVE  DeflateSpec => []RoundTrip
<1>1. DeflateInv => RoundTrip
  <2> SUFFICES ASSUME DeflateInv PROVE RoundTrip OBVIOUS
  <2>1. /\ got \in Seq(OpValues) /\ delta \in Seq(OpValues) /\ Len(got) <= Len(delta)
        /\ \A i \in 1..Len(got) : got[i] = delta[i]
        /\ rx.state = "end" => Len(got) = Len(delta)
    <3>1. rx.run \in Nat /\ Len(got) + rx.run <= Len(delta) /\ Len(got) \in Nat /\ Len(delta) \in Nat
      BY DEF DeflateInv, ReaderInv, RxSet, OpsInv
    <3>2. Len(got) <= Len(delta) BY <3>1
    <3> QED BY <3>2 DEF DeflateInv, ReaderInv, OpsInv
  <2>2. got = SubSeq(delta, 1, Len(got))
    <3>1. SubSeq(delta, 1, Len(got)) = [i \in 1..Len(got) |-> delta[i]] BY <2>1
    <3> QED BY <2>1, <3>1
  <2>3. Len(got) = Len(delta) => got = delta BY <2>1
  <2> QED BY <2>1, <2>2, <2>3 DEF RoundTrip
<1>2. DeflateSpec => []DeflateInv BY DeflateInvHolds
<1> QED BY <1>1, <1>2, PTL

\* For the same deltas: whenever the wire is empty and no run is open, writer
\* and reader have fed their compressors the same bytes.
THEOREM SameDictionaryHolds ==
    ASSUME ~Interleaved
    PROVE  DeflateSpec => []SameDictionary
<1>1. DeflateInv => SameDictionary
  <2> SUFFICES ASSUME DeflateInv, frames = <<>>, ~enc.run_open, rx.state # "running"
               PROVE  enc.dict = rx.dict
    BY DEF SameDictionary
  <2>1. rx.run = 0 /\ Len(got) \in Nat /\ rx.dict = DictOf(Len(got))
    BY DEF DeflateInv, ReaderInv, RxSet
  <2>2. OpenOf(enc) = 0 /\ Fed \in Nat /\ enc.dict = DictOf(Fed)
    BY Between DEF OpenOf, DeflateInv, WriterInv, Ready
  <2>3. Covers(<<>>, Len(got), Fed)
    <3>1. Len(got) + 0 = Len(got) /\ Fed - 0 = Fed BY <2>1, <2>2
    <3> QED BY <2>1, <2>2, <3>1 DEF DeflateInv, WireInv
  <2>4. Len(got) = Fed BY <2>3 DEF Covers
  <2> QED BY <2>1, <2>2, <2>4
<1>2. DeflateSpec => []DeflateInv BY DeflateInvHolds
<1> QED BY <1>1, <1>2, PTL
=============================================================================
