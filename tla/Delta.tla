------------------------------- MODULE Delta -------------------------------
(***************************************************************************)
(* The transfer of one file: the receiver cuts its old copy (the basis)    *)
(* into blocks and describes them by checksums (util.rs, compute_sum_bufs),*)
(* the sender looks for these blocks in its own file with a rolling window *)
(* (delta/match_blocks.rs, find_matches_seeded), sends literals and block  *)
(* numbers as tokens (delta/token.rs) and the receiver rebuilds the file   *)
(* from them (pipeline/generator.rs, apply_delta).                         *)
(*                                                                         *)
(* Offsets and block numbers count from 0, as in the code; sequences count *)
(* from 1.  A byte is the signed value checksum1 casts it to.  The strong  *)
(* checksum is taken to be free of collisions; the rolling one is the      *)
(* code's, on half-words of HalfWord values instead of 2^16, so that       *)
(* different blocks may collide.  The length of a literal is kept in a u32 *)
(* (LenWord values): a longer literal is cut, and the bytes are lost.      *)
(***************************************************************************)
EXTENDS Integers, Sequences

CONSTANTS
    Bytes,         \* the byte values files are made of
    DataFiles,     \* the files the sender may have
    BasisFiles,    \* the old copies the receiver may have
    BlockSize,     \* BLOCK_SIZE (700 in the code)
    MaxBlockSize,  \* MAX_BLOCK_SIZE (2^17 in the code)
    Scale,         \* a block grows with the file: file size / Scale (10000)
    HalfWord,      \* number of values of half a checksum (2^16)
    LenWord,       \* number of values of a literal's length (2^32)
    ChunkSize,     \* CHUNK_SIZE: longest literal token (32768)
    StrongAgrees   \* the receiver's block checksum is the MD5 the sender uses

ASSUME DeltaAssumption ==
    /\ Bytes \subseteq Int
    /\ DataFiles \subseteq Seq(Bytes) /\ BasisFiles \subseteq Seq(Bytes)
    /\ BlockSize \in Nat \ {0} /\ MaxBlockSize \in Nat \ {0}
    /\ Scale \in Nat \ {0}
    /\ HalfWord \in Nat \ {0}
    /\ LenWord \in Nat \ {0}
    /\ ChunkSize \in Nat \ {0}
    /\ StrongAgrees \in BOOLEAN

VARIABLES
    data,     \* the sender's file
    basis,    \* the receiver's copy of the file, as it read it for this request
    blen,     \* head.blength, echoed by the sender; 0 when there is no basis file
    pc,       \* the sender: "start", "scan", "tail", "send", "done"
    offset,   \* start of the rolling window
    last,     \* last_match: end of what ops already covers
    rc,       \* the rolling checksum: the two accumulators
    ops,      \* the operations find_matches_seeded has emitted
    opi,      \* the next operation to be written as tokens
    buf,      \* TokenWriter.literal_buf
    wire,     \* tokens written and not yet read
    out,      \* the file the receiver rebuilds
    whole     \* the receiver has read the end token

matchVars == <<offset, last, rc, ops>>
sendVars  == <<opi, buf>>
recvVars  == <<out, whole>>
vars == <<data, basis, blen, pc, offset, last, rc, ops, opi, buf, wire, out, whole>>

-----------------------------------------------------------------------------
(* Block geometry.                                                         *)

SmallerOf(a, b) == IF a <= b THEN a ELSE b
LargerOf(a, b)  == IF a >= b THEN a ELSE b

block_len_for_file(size) ==
    SmallerOf(LargerOf(BlockSize, size \div Scale), MaxBlockSize)

sum_count_for_file(size, bl) ==
    IF bl <= 0 \/ size <= 0 THEN 0 ELSE (size + bl - 1) \div bl

remainder_for_file(size, bl) ==
    IF bl <= 0 \/ size <= 0 THEN 0 ELSE size % bl

Count     == sum_count_for_file(Len(basis), blen)
Remainder == remainder_for_file(Len(basis), blen)

EntryLen(i) == IF i = Count - 1 /\ Remainder # 0 THEN Remainder ELSE blen

\* Bytes from, from + 1, ..., to - 1 of a file.
Slice(file, from, to) == SubSeq(file, from + 1, to)

\* What the receiver copies for block i, and what it computed the sums of.
Block(i) ==
    IF i * blen < Len(basis)
    THEN Slice(basis, i * blen, SmallerOf(i * blen + EntryLen(i), Len(basis)))
    ELSE <<>>

-----------------------------------------------------------------------------
(* The rolling checksum: 32-bit accumulators, of which half is used.       *)

Wrap(n) == n % (HalfWord * HalfWord)

NoSum == [s1 |-> 0, s2 |-> 0]

\* The two loops of checksum1 take up byte i, and the four bytes up to byte i.
TakeOne(a, b, i) == [s1 |-> Wrap(a.s1 + b[i]), s2 |-> Wrap(a.s2 + a.s1 + b[i])]

TakeFour(a, b, i) ==
    [s1 |-> Wrap(a.s1 + b[i-3] + b[i-2] + b[i-1] + b[i]),
     s2 |-> Wrap(a.s2 + 4 * (a.s1 + b[i-3]) + 3 * b[i-2] + 2 * b[i-1] + b[i])]

\* Bytes the first loop takes: it goes on while more than four are left.
Unrolled(b) == 4 * ((LargerOf(Len(b) - 4, 0) + 3) \div 4)

\* acc[i]: the accumulators when byte i has been taken.
checksum1(b) ==
    LET acc[i \in 0..Len(b)] ==
          IF i = 0 \/ (i < Unrolled(b) /\ i % 4 # 0) THEN NoSum
          ELSE IF i <= Unrolled(b) THEN TakeFour(acc[i-4], b, i)
          ELSE TakeOne(acc[i-1], b, i)
    IN  acc[Len(b)]

\* RollingChecksum::value packs the low halves.
Value(r) == <<r.s1 % HalfWord, r.s2 % HalfWord>>

RollInit(b) == [s1 |-> checksum1(b).s1 % HalfWord, s2 |-> checksum1(b).s2 % HalfWord]

\* A slide that charges the departing byte once instead of once per position.
RollOnce(r, k, oldb, newb) ==
    LET a == Wrap(r.s1 - oldb + newb)
    IN  [s1 |-> a, s2 |-> Wrap(r.s2 - oldb + a)]

\* RollingChecksum::roll, for a window of k bytes.
Roll(r, k, oldb, newb) ==
    LET a == Wrap(r.s1 - oldb + newb)
    IN  [s1 |-> a, s2 |-> Wrap(r.s2 - k * oldb + a)]

-----------------------------------------------------------------------------
(* The sender: find_matches_seeded.                                        *)

\* n as u32.
Literal(from, n) == [k |-> "lit", off |-> from, len |-> n % LenWord, idx |-> 0]
Match(i, from)   == [k |-> "match", off |-> from, len |-> blen, idx |-> i]

Window(o) == Slice(data, o, o + blen)

\* The blocks whose rolling checksum matches the window's.
WeakOnly ==
    {i \in 0..(Count - 1) :
        /\ Value(checksum1(Block(i))) = Value(rc)
        /\ EntryLen(i) = blen}

\* The blocks that pass all the checks at the current window.
Candidates ==
    {i \in 0..(Count - 1) :
        /\ Value(checksum1(Block(i))) = Value(rc)
        /\ EntryLen(i) = blen
        /\ StrongAgrees /\ Block(i) = Window(offset)}

\* The first candidate in block order is taken.
First(i) == i \in Candidates /\ \A j \in Candidates : i <= j

SentLater == UNCHANGED <<data, basis, blen, opi, buf, wire, out, whole>>

\* No basis, or less data than a block: one literal, or nothing at all.
SendWhole ==
    /\ pc = "start"
    /\ blen = 0 \/ Len(data) < blen
    /\ ops' = IF data = <<>> THEN <<>> ELSE <<Literal(0, Len(data))>>
    /\ last' = Len(data)
    /\ pc' = "send"
    /\ UNCHANGED <<offset, rc>>
    /\ SentLater

StartScan ==
    /\ pc = "start"
    /\ blen > 0 /\ Len(data) >= blen
    /\ rc' = RollInit(Window(0))
    /\ pc' = "scan"
    /\ UNCHANGED <<offset, last, ops>>
    /\ SentLater

\* A hit that does not start the checksum of the next window afresh.
HitStaleSum ==
    /\ pc = "scan"
    /\ \E i \in Candidates :
         /\ First(i)
         /\ ops' = ops \o (IF offset > last THEN <<Literal(last, offset - last)>> ELSE <<>>)
                       \o <<Match(i, offset)>>
    /\ last' = offset + blen
    /\ offset' = offset + blen
    /\ pc' = IF offset + 2 * blen <= Len(data) THEN "scan" ELSE "tail"
    /\ UNCHANGED rc
    /\ SentLater

\* A block matches: the literal before it, the match, and on behind it.
Hit ==
    /\ pc = "scan"
    /\ \E i \in Candidates :
         /\ First(i)
         /\ ops' = ops \o (IF offset > last THEN <<Literal(last, offset - last)>> ELSE <<>>)
                       \o <<Match(i, offset)>>
    /\ last' = offset + blen
    /\ offset' = offset + blen
    /\ IF offset + 2 * blen <= Len(data)
       THEN rc' = RollInit(Window(offset + blen)) /\ pc' = "scan"
       ELSE pc' = "tail" /\ UNCHANGED rc
    /\ SentLater

\* A slide that never gets to the last window.
SlideShort ==
    /\ pc = "scan"
    /\ Candidates = {}
    /\ offset < Len(data) - blen
    /\ offset' = IF offset + 1 < Len(data) - blen THEN offset + 1 ELSE offset
    /\ rc' = Roll(rc, blen, data[offset + 1], data[offset + blen + 1])
    /\ UNCHANGED <<last, ops, pc>>
    /\ SentLater

\* No block matches here and there is another window.
Slide ==
    /\ pc = "scan"
    /\ Candidates = {}
    /\ offset < Len(data) - blen
    /\ rc' = Roll(rc, blen, data[offset + 1], data[offset + blen + 1])
    /\ offset' = offset + 1
    /\ UNCHANGED <<last, ops, pc>>
    /\ SentLater

\* No block matches in the last window.
Stop ==
    /\ pc = "scan"
    /\ Candidates = {}
    /\ offset >= Len(data) - blen
    /\ pc' = "tail"
    /\ UNCHANGED <<offset, last, rc, ops>>
    /\ SentLater

\* What follows the last match is a literal.
Trailing ==
    /\ pc = "tail"
    /\ ops' = IF last < Len(data) THEN Append(ops, Literal(last, Len(data) - last)) ELSE ops
    /\ last' = Len(data)
    /\ pc' = "send"
    /\ UNCHANGED <<offset, rc>>
    /\ SentLater

-----------------------------------------------------------------------------
(* The sender: TokenWriter.  A token is the integer n of the wire and, for *)
(* a literal, its n bytes; "at" is a history field the receiver ignores:   *)
(* where in the sender's file the token's bytes come from.                 *)

Token(num, b, pos) == [n |-> num, bytes |-> b, at |-> pos]

\* End of what has been handed to the writer; literal_buf ends here.
Handed == IF opi > Len(ops) THEN Len(data) ELSE ops[opi].off

Flushed == IF buf = <<>> THEN <<>> ELSE <<Token(Len(buf), buf, Handed - Len(buf))>>

Writing == /\ pc = "send"
           /\ UNCHANGED <<data, basis, blen, ops, last, offset, rc, out, whole>>

\* A literal taken from the start of the file instead of its offset.
SendLiteralFromStart ==
    /\ Writing
    /\ opi <= Len(ops) /\ ops[opi].k = "lit"
    /\ Len(buf) < ChunkSize
    /\ buf' = buf \o Slice(data, 0, ops[opi].len)
    /\ opi' = opi + 1
    /\ UNCHANGED <<pc, wire>>

SendLiteral ==
    /\ Writing
    /\ opi <= Len(ops) /\ ops[opi].k = "lit"
    /\ Len(buf) < ChunkSize
    /\ buf' = buf \o Slice(data, ops[opi].off, ops[opi].off + ops[opi].len)
    /\ opi' = opi + 1
    /\ UNCHANGED <<pc, wire>>

WriteChunk ==
    /\ Writing
    /\ Len(buf) >= ChunkSize
    /\ wire' = Append(wire, Token(ChunkSize, SubSeq(buf, 1, ChunkSize), Handed - Len(buf)))
    /\ buf' = SubSeq(buf, ChunkSize + 1, Len(buf))
    /\ UNCHANGED <<opi, pc>>

SendMatch ==
    /\ Writing
    /\ opi <= Len(ops) /\ ops[opi].k = "match"
    /\ Len(buf) < ChunkSize
    /\ wire' = wire \o Flushed \o <<Token(-(ops[opi].idx + 1), <<>>, ops[opi].off)>>
    /\ buf' = <<>>
    /\ opi' = opi + 1
    /\ UNCHANGED pc

\* finish: flush the literals, then the end token.
SendEof ==
    /\ Writing
    /\ opi > Len(ops)
    /\ Len(buf) < ChunkSize
    /\ wire' = wire \o Flushed \o <<Token(0, <<>>, Len(data))>>
    /\ buf' = <<>>
    /\ pc' = "done"
    /\ UNCHANGED opi

-----------------------------------------------------------------------------
(* The receiver: TokenReader and apply_delta.                              *)

Reading == /\ ~whole /\ wire # <<>>
           /\ wire' = Tail(wire)
           /\ UNCHANGED <<data, basis, blen, pc, offset, last, rc, ops, opi, buf>>

RecvLiteral ==
    /\ Reading
    /\ wire[1].n > 0
    /\ out' = out \o wire[1].bytes
    /\ UNCHANGED whole

RecvMatch ==
    /\ Reading
    /\ wire[1].n < 0
    /\ out' = out \o Block(-wire[1].n - 1)
    /\ UNCHANGED whole

RecvEof ==
    /\ Reading
    /\ wire[1].n = 0
    /\ whole' = TRUE
    /\ UNCHANGED out

-----------------------------------------------------------------------------
Init ==
    /\ data \in DataFiles
    /\ basis \in BasisFiles
    /\ blen = block_len_for_file(Len(basis)) \/ (basis = <<>> /\ blen = 0)
    /\ pc = "start" /\ offset = 0 /\ last = 0
    /\ rc = [s1 |-> 0, s2 |-> 0]
    /\ ops = <<>> /\ opi = 1 /\ buf = <<>> /\ wire = <<>>
    /\ out = <<>> /\ whole = FALSE

Sender   == \/ SendWhole \/ StartScan \/ Hit \/ Slide \/ Stop \/ Trailing
            \/ SendLiteral \/ WriteChunk \/ SendMatch \/ SendEof
Receiver == RecvLiteral \/ RecvMatch \/ RecvEof

Finished == whole /\ UNCHANGED vars

Next == Sender \/ Receiver \/ Finished

Spec == Init /\ [][Next]_vars

\* Sender and receiver are sequential programs; each runs on while it can.
FairSpec == Spec /\ WF_vars(Sender) /\ WF_vars(Receiver)

-----------------------------------------------------------------------------
(* Properties.                                                             *)

OpSet    == [k : {"lit", "match"}, off : Nat, len : Nat, idx : Nat]
TokenSet == [n : Int, bytes : Seq(Bytes), at : Nat]

\* Operations that follow one another from offset 0, and where they end.
Contiguous(s) ==
    \A j \in 1..Len(s) :
        s[j].off = IF j = 1 THEN 0 ELSE s[j-1].off + s[j-1].len

EndOf(s) == IF s = <<>> THEN 0 ELSE s[Len(s)].off + s[Len(s)].len

\* An operation stands for at least one byte of the file, a match for the
\* bytes of its block.
StandsFor(o) ==
    /\ o.len > 0 /\ o.off + o.len <= Len(data)
    /\ o.k = "match" => Block(o.idx) = Slice(data, o.off, o.off + o.len)

\* No literal of the file is too long for its length.
LengthsFit == Len(data) < LenWord

\* The operations emitted so far tile the sender's file from its first byte
\* to last_match without gap or overlap, and every match names a block of the
\* basis with exactly the bytes it stands for (find_matches_seeded); in a file
\* so long that a literal may be cut "as u32" they need not (match_blocks.rs:146-245).
Tiled ==
    LengthsFit =>
        /\ Contiguous(ops)
        /\ \A j \in 1..Len(ops) : StandsFor(ops[j])
        /\ last = EndOf(ops)
        /\ last <= Len(data)

\* Whatever has been rebuilt is a prefix of the sender's file, and the whole
\* file once the end token has been read (TokenWriter, TokenReader, apply_delta),
\* when no literal is too long for its u32.
Rebuilt ==
    LengthsFit =>
        /\ out = Slice(data, 0, Len(out))
        /\ whole => out = data

\* Where in the sender's file the bytes a token stands for should end.
TokenEnd(t) == t.at + (IF t.n < 0 THEN Len(Block(-t.n - 1)) ELSE t.n)

\* The tokens of w stand for consecutive parts of the file, from a to z.
Chain(w, a, z) ==
    \A j \in 0..Len(w) :
        (IF j = 0 THEN a ELSE TokenEnd(w[j])) = IF j < Len(w) THEN w[j+1].at ELSE z

\* Bytes are neither lost nor duplicated on the way: what is rebuilt, then
\* the tokens in flight, then literal_buf, then the operations not yet
\* written, follow one another in the sender's file (TokenWriter), when no literal
\* is too long for its u32.
InOrder ==
    LengthsFit /\ pc \in {"send", "done"} /\ ~whole => Chain(wire, Len(out), Handed - Len(buf))

\* The sum of f[1], ..., f[n].
Total(f, n) == LET t[i \in 0..n] == IF i = 0 THEN 0 ELSE t[i-1] + f[i] IN t[n]

\* The checksum that is rolled along is the checksum of the window: the sums
\* of the bytes and of the bytes weighted by their distance from the end, by
\* definition (RollingChecksum against checksum1's purpose).
RollExact ==
    pc = "scan" =>
        LET w == Window(offset)
            weighted == [i \in 1..blen |-> (blen - i + 1) * w[i]]
        IN  Value(rc) = <<Total(w, blen) % HalfWord, Total(weighted, blen) % HalfWord>>

\* The delta is worth its name: no literal contains a whole block the basis
\* has, when both sides use the same strong checksum (find_matches_seeded,
\* RollingChecksum, sum_count_for_file).
NoMissedMatch ==
    pc \in {"send", "done"} /\ StrongAgrees /\ blen > 0 =>
        \A j \in 1..Len(ops) : ops[j].k = "lit" =>
            \A i \in 0..Len(basis) : (i + 1) * blen <= Len(basis) =>
                \A o \in ops[j].off..(ops[j].off + ops[j].len - blen) :
                    Slice(basis, i * blen, (i + 1) * blen) # Slice(data, o, o + blen)

\* Every transfer ends, with the file rebuilt if no literal is too long for its
\* u32: the search comes to the last window and the token stream to its end.
EndsRebuilt == <>(whole /\ (LengthsFit => out = data))
=============================================================================
