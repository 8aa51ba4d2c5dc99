------------------------------- MODULE Codec -------------------------------
(***************************************************************************)
(* Integers, strings and file indices as bytes on the wire (io/varint.rs). *)
(*                                                                         *)
(* A value of 32 bits is an integer.  One of 64 bits is the sequence of    *)
(* its eight bytes, lowest first, since it exceeds what TLC computes with; *)
(* the code, too, works on those bytes.  Each write_* gives the bytes that *)
(* are written; each read_* the value of the bytes it has read, and        *)
(* Needed(k, got) how many more its next read_exact asks for.              *)
(***************************************************************************)
EXTENDS Integers, Sequences, FiniteSetsExt

Byte == 0..255

\* i32::to_le_bytes and from_le_bytes: two's complement, lowest byte first.
ToLE(x, width) ==
    LET u == IF x < 0 THEN -(x + 1) ELSE x
        b(i) == (u \div <<1, 256, 65536, 16777216>>[i]) % 256
    IN  [i \in 1..width |-> IF x < 0 THEN 255 - b(i) ELSE b(i)]

FromLE(b) ==
    LET neg == b[4] >= 128
        u(i) == IF neg THEN 255 - b[i] ELSE b[i]
        n == u(1) + 256 * u(2) + 65536 * u(3) + 16777216 * u(4)
    IN  IF neg THEN -n - 1 ELSE n

-----------------------------------------------------------------------------
(* longint: four bytes, or a sentinel of four and then eight.              *)

Sentinel == <<255, 255, 255, 255>>

\* The calls of write_all, in order.
write_longint(x) ==
    IF x[4] < 128 /\ \A i \in 5..8 : x[i] = 0 THEN <<SubSeq(x, 1, 4)>>
    ELSE <<Sentinel, x>>

read_longint(got) ==
    IF SubSeq(got, 1, 4) = Sentinel THEN SubSeq(got, 5, 12)
    ELSE got \o [i \in 1..4 |-> IF got[4] >= 128 THEN 255 ELSE 0]

-----------------------------------------------------------------------------
(* varint and varlong: a marker that says how many bytes follow the first  *)
(* mb, with the highest byte in its spare bits if it fits.                 *)

\* How many more bytes a marker announces, by marker \div 4.
INT_BYTE_EXTRA ==
    [i \in 0..63 |-> IF i < 32 THEN 0 ELSE IF i < 48 THEN 1 ELSE IF i < 56 THEN 2
                     ELSE IF i < 60 THEN 3 ELSE IF i < 62 THEN 4 ELSE i - 57]

Extra(marker) == INT_BYTE_EXTRA[marker \div 4]

\* 1 << n
Bit(n) == <<1, 2, 4, 8, 16, 32, 64, 128, 256>>[n + 1]

\* Mutant: a highest byte equal to the first bit that is not spare is put there.
write_varlong_tight(x, mb) ==
    LET cnt == Max({mb} \cup {i \in DOMAIN x : x[i] # 0})
        bit == Bit(7 + mb - cnt)
    IN  IF x[cnt] > bit THEN <<256 - bit>> \o SubSeq(x, 1, cnt)
        ELSE IF cnt > mb THEN <<x[cnt] + 256 - 2 * bit>> \o SubSeq(x, 1, cnt - 1)
        ELSE <<x[cnt]>> \o SubSeq(x, 1, cnt - 1)

write_varlong(x, mb) ==
    LET cnt == Max({mb} \cup {i \in DOMAIN x : x[i] # 0})
        bit == Bit(7 + mb - cnt)
    IN  IF x[cnt] >= bit THEN <<256 - bit>> \o SubSeq(x, 1, cnt)
        ELSE IF cnt > mb THEN <<x[cnt] + 256 - 2 * bit>> \o SubSeq(x, 1, cnt - 1)
        ELSE <<x[cnt]>> \o SubSeq(x, 1, cnt - 1)

\* What follows the marker, the marker's spare bits, and zeros up to the width.
VarBytes(got, width) ==
    LET high == got[1] % Bit(8 - Extra(got[1]))
        buf == Append(Tail(got), high)
    IN  [i \in 1..width |-> IF i <= Len(buf) THEN buf[i] ELSE 0]

read_varlong(got) == VarBytes(got, 8)

\* write_varint is write_varlong of four bytes, at least one of them written.
write_varint(x) == write_varlong(ToLE(x, 4), 1)

read_varint(got) == FromLE(VarBytes(got, 4))

-----------------------------------------------------------------------------
(* vstring: a length of one byte or two.                                   *)

\* The code refuses to write more than 0x7FFF bytes.
write_vstring(s) ==
    LET len == Len(s)
    IN  <<IF len > 127 THEN <<(len \div 256) + 128, len % 256>> ELSE <<len>>>>
        \o (IF len > 0 THEN <<s>> ELSE <<>>)

VstringHeader(got) == IF got[1] >= 128 THEN 2 ELSE 1
VstringLen(got) == IF got[1] >= 128 THEN (got[1] - 128) * 256 + got[2] ELSE got[1]

read_vstring(got) == SubSeq(got, VstringHeader(got) + 1, Len(got))

-----------------------------------------------------------------------------
(* File indices, as the difference from the last one.  `prev' is the last  *)
(* non-negative index and the last negative one, with its sign dropped.    *)

NDX_DONE == -1

NdxStart == [pos |-> -1, neg |-> 1]

\* What a read or a write leaves behind.
NdxAfter(prev, ndx) ==
    IF ndx = NDX_DONE THEN prev
    ELSE IF ndx < 0 THEN [prev EXCEPT !.neg = -ndx] ELSE [prev EXCEPT !.pos = ndx]

\* An index a, its sign dropped, after the index `last'.
NdxCode(a, last) ==
    LET diff == a - last
    IN  IF diff \in 1..253 THEN <<diff>>
        ELSE IF diff < 0 \/ diff > 32767
        THEN <<254, (a \div 16777216) + 128, a % 256, (a \div 256) % 256, (a \div 65536) % 256>>
        ELSE <<254, diff \div 256, diff % 256>>

write_ndx(prev, ndx) ==
    IF ndx = NDX_DONE THEN <<0>>
    ELSE IF ndx < 0 THEN <<255>> \o NdxCode(-ndx, prev.neg) ELSE NdxCode(ndx, prev.pos)

\* The first byte that is not the sign.
NdxFirst(got) == IF got[1] = 255 THEN 2 ELSE 1

\* read_ndx takes one byte at a time; this is after the last.
NdxComplete(got) ==
    LET f == NdxFirst(got)
    IN  /\ got # <<>>
        /\ \/ got[1] = 0
           \/ Len(got) >= f /\ got[f] # 254
           \/ Len(got) >= f + 2 /\ got[f + 1] < 128
           \/ Len(got) = f + 4

read_ndx(prev, got) ==
    LET f == NdxFirst(got)
        last == IF f = 2 THEN prev.neg ELSE prev.pos
        num == IF got[f] # 254 THEN last + got[f]
               ELSE IF got[f + 1] < 128 THEN last + got[f + 1] * 256 + got[f + 2]
               ELSE (got[f + 1] - 128) * 16777216 + got[f + 2]
                    + got[f + 3] * 256 + got[f + 4] * 65536
    IN  IF got[1] = 0 THEN NDX_DONE ELSE IF f = 2 THEN -num ELSE num

-----------------------------------------------------------------------------
(* All kinds of items.  A "raw" item is a block of bytes whose length the  *)
(* reader knows.                                                           *)

Int32(x) == x \in Int /\ -2147483647 - 1 <= x /\ x <= 2147483647

\* The values the types of the code admit.  Lists use min_bytes 3 and 4; a
\* vstring that is longer is refused; no index has the lowest of all numbers.
Encodable(item) ==
    CASE item.k = "byte"     -> item.v \in Byte
      [] item.k = "shortint" -> item.v \in Nat /\ item.v <= 65535
      [] item.k \in {"int", "varint"} -> Int32(item.v)
      [] item.k = "longint"  -> item.v \in [1..8 -> Byte]
      [] item.k = "varlong"  -> item.v \in [1..8 -> Byte] /\ item.mb \in {3, 4}
      [] item.k = "ndx"      -> Int32(item.v) /\ item.v # -2147483647 - 1
      [] item.k = "vstring"  -> item.v \in Seq(Byte) /\ Len(item.v) <= 32767
      [] item.k = "raw"      -> item.v \in Seq(Byte) /\ item.v # <<>>
      [] OTHER               -> item.k = "mux"

\* The arguments of the calls of write_all that write an item.
Written(item, prev) ==
    CASE item.k = "byte"     -> <<<<item.v>>>>
      [] item.k = "shortint" -> <<ToLE(item.v, 2)>>
      [] item.k = "int"      -> <<ToLE(item.v, 4)>>
      [] item.k = "longint"  -> write_longint(item.v)
      [] item.k = "varint"   -> <<write_varint(item.v)>>
      [] item.k = "varlong"  -> <<write_varlong(item.v, item.mb)>>
      [] item.k = "ndx"      -> <<write_ndx(prev, item.v)>>
      [] item.k = "vstring"  -> write_vstring(item.v)
      [] item.k = "raw"      -> <<item.v>>

\* How many bytes the reader, having `got', asks for before it looks at them;
\* 0 when it has all of the item.
Needed(item, got) ==
    LET upto(n) == n - Len(got)
    IN  CASE item.k = "byte"     -> upto(1)
          [] item.k = "shortint" -> upto(2)
          [] item.k = "int"      -> upto(4)
          [] item.k = "longint"  -> IF Len(got) < 4 \/ SubSeq(got, 1, 4) # Sentinel
                                    THEN upto(4) ELSE upto(12)
          [] item.k = "varint"   -> IF got = <<>> THEN 1 ELSE upto(1 + Extra(got[1]))
          [] item.k = "varlong"  -> IF Len(got) < item.mb THEN upto(item.mb)
                                    ELSE upto(item.mb + Extra(got[1]))
          [] item.k = "ndx"      -> IF NdxComplete(got) THEN 0 ELSE 1
          [] item.k = "vstring"  -> IF got = <<>> THEN 1
                                    ELSE IF Len(got) < VstringHeader(got) THEN 1
                                    ELSE upto(VstringHeader(got) + VstringLen(got))
          [] item.k = "raw"      -> upto(Len(item.v))

\* The value of an item whose bytes are all there.
Value(item, prev, got) ==
    CASE item.k = "byte"     -> got[1]
      [] item.k = "shortint" -> got[1] + 256 * got[2]
      [] item.k = "int"      -> FromLE(got)
      [] item.k = "longint"  -> read_longint(got)
      [] item.k = "varint"   -> read_varint(got)
      [] item.k = "varlong"  -> read_varlong(got)
      [] item.k = "ndx"      -> read_ndx(prev, got)
      [] item.k = "vstring"  -> read_vstring(got)
      [] item.k = "raw"      -> got

=============================================================================
